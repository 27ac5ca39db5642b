------------------------------ MODULE FatLayout ------------------------------
(***************************************************************************)
(* What the driver takes from the FAT file system of the carrier           *)
(* (src/src/fs_fat.c, src/include/fs_fat.h): the layout out of its header, *)
(* and which entry of the FAT it looks at for a cluster.  The file system  *)
(* begins at sector start of the device.  A header is the record of its    *)
(* fields; a FAT is the set of the clusters whose entry is not zero.       *)
(* dataStart and rootBytes are computed but never used by the driver: they *)
(* say here where the clusters of the file system are.                     *)
(***************************************************************************)
EXTENDS Integers

SECTOR_SIZE == 512

\* A FAT12 file system has a 16-bit count as well and is taken for FAT16.
fat_parse_header(h) ==
  LET fat16 == h.sectorsPerFat16 # 0
  IN  [type |-> IF fat16 THEN "FAT16" ELSE "FAT32",
       bits |-> IF fat16 THEN 16 ELSE 32,
       sectorsPerFat |-> IF fat16 THEN h.sectorsPerFat16 ELSE h.sectorsPerFat32,
       bytesPerSector |-> h.bytesPerSector,
       sectorsPerCluster |-> h.sectorsPerCluster,
       reservedSectors |-> h.reservedSectors, fats |-> h.fats,
       rootEntries |-> IF fat16 THEN h.rootEntries ELSE 0]

\* The number of entries that fit the FAT counts as that of clusters: fatSize * 8
\* over bits is fatSize over the bytes of an entry.
fat_compute_values(f) ==
  LET fatSize == f.sectorsPerFat * f.bytesPerSector
  IN  [type |-> f.type, bits |-> f.bits, sectorsPerCluster |-> f.sectorsPerCluster,
       fatStart |-> f.bytesPerSector * f.reservedSectors, fatSize |-> fatSize,
       dataStart |-> f.bytesPerSector * f.reservedSectors + f.fats * fatSize,
       rootBytes |-> f.rootEntries * 32,
       bytesPerCluster |-> f.bytesPerSector * f.sectorsPerCluster,
       totalClusters |-> fatSize \div (f.bits \div 8)]

\* rootBytes / bytesPerCluster, for FAT16 only
DividesByZero(f) == f.type = "FAT16" /\ f.bytesPerCluster = 0

Entry(f) == f.bits \div 8

\* Mutant: the FAT is taken to have entries of two bytes.
EntryOffsetShort(f, cluster) == 2 * (cluster % 2 ^ 28)

\* (bits * cluster) / 8, where the product has 32 bits
EntryOffset(f, cluster) == Entry(f) * (cluster % (2 ^ 29 \div Entry(f)))

\* Counted from the start of the device: start is not added.
LookupSector(f, cluster) == (f.fatStart + EntryOffset(f, cluster)) \div SECTOR_SIZE

\* The FAT of a file system that begins at sector start
InFat(f, start, sector) ==
  /\ start + f.fatStart \div SECTOR_SIZE <= sector
  /\ sector < start + (f.fatStart + f.fatSize) \div SECTOR_SIZE

\* The answer is the entry at the start of what was read: the first one of its sector.
EntryRead(f, start, cluster) ==
  ((LookupSector(f, cluster) - start) * SECTOR_SIZE - f.fatStart) \div Entry(f)

\* What the function may answer.  A FAT that cannot be read makes every cluster a
\* used one (-EIO); a sector that does not hold the FAT may hold anything.
fat_is_cluster_used(f, start, FAT, cluster, readable, holdsFat) ==
  CASE ~readable -> {TRUE}
    [] readable /\ holdsFat -> {EntryRead(f, start, cluster) \in FAT}
    [] OTHER -> BOOLEAN

\* The first sector of cluster 2, and the sectors of a cluster
DataSector(f, start) == start + (f.dataStart + f.rootBytes) \div SECTOR_SIZE
ClusterSectors(f) == f.bytesPerCluster \div SECTOR_SIZE
FsCluster(f, start, sector) == 2 + (sector - DataSector(f, start)) \div ClusterSectors(f)

\* Mutant: clusters are counted up to the last number.
MaxClustersNumbers(f) == IF f.sectorsPerCluster = 0 THEN 0 ELSE f.totalClusters + 2

\* cluster_count * sectors_per_cluster, which has 32 bits, in clusters.
\* sectors_per_cluster is a power of two, or zero; below 4 nothing overflows.
MaxClusters(f) ==
  CASE f.sectorsPerCluster = 0 -> 0
    [] f.sectorsPerCluster \in 1..3 -> f.totalClusters
    [] OTHER -> f.totalClusters % (2 ^ 30 \div (f.sectorsPerCluster \div 4))
=============================================================================
