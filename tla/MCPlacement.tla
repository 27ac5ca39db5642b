---------------------------- MODULE MCPlacement ----------------------------
EXTENDS Placement

\* Headers: sectors of the FAT (16 or 32 bits), of a cluster and before the FAT
Header(fat16, fat32, cluster, reserved) ==
  [bytesPerSector |-> 512, sectorsPerCluster |-> cluster, reservedSectors |-> reserved,
   sectorsPerFat16 |-> fat16, sectorsPerFat32 |-> fat32, fats |-> 2, rootEntries |-> 512]
Empty == [bytesPerSector |-> 0, sectorsPerCluster |-> 0, reservedSectors |-> 0,
          sectorsPerFat16 |-> 0, sectorsPerFat32 |-> 0, fats |-> 0, rootEntries |-> 0]

\* Clusters 256 and 298 of the second begin at sectors <<257, 2>> and <<299, 2>>,
\* cluster 256 of the first at <<265, 0>>.
SmallHeaders == {Header(2, 0, 4, 8), Header(0, 3, 4, 8)}
AllHeaders == SmallHeaders \cup
  {Empty, Header(2, 0, 4, 1), Header(1, 0, 4, 8), [Empty EXCEPT !.sectorsPerFat16 = 7],
   Header(0, 2 ^ 20 + 1, 1, 8), Header(0, 2 ^ 20 + 1, 64, 8),
   Header(0, 2 ^ 20, 64, 8)}
Hashes == [n \in 0..13 |->
  CASE n = 0 -> <<129, 2>> [] n = 1 -> <<257, 2>> [] n = 2 -> <<300, 0>>
    [] n = 3 -> <<2 ^ 27 + 5, 1>> [] n = 4 -> <<384, 2>> [] n = 5 -> <<265, 0>>
    [] n = 6 -> <<255, 1>> [] OTHER -> <<256 + n, 0>>]
FsTwo == {256, 298}
FsThree == {128, 129, 256}
SomeStarts == {0, 1}
Clean == {{}}

\* A block over the second sector of a FAT
CleanOrNot == {{}, {9}}
=============================================================================
