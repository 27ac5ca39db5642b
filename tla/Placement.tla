------------------------------ MODULE Placement ------------------------------
(***************************************************************************)
(* Where blocks go on the carrier.  The constructor takes the layout of    *)
(* the FAT; init_metadata_bios gives the blocks of the metadata their      *)
(* sectors; a WRITE looks for free clusters along the sequence of sectors  *)
(* of its logical sector, while the file system of the carrier goes on     *)
(* taking clusters and giving them back.  A sector of the sequence is the  *)
(* pair of its cluster and its offset in it, as the driver counts them:    *)
(* from 0 and from the start of the device.  The file system counts from 2 *)
(* and from its data area.  What happens to the bios is the subject of     *)
(* MatryoshkaIO, the calls around init_metadata_bios that of Metadata.     *)
(***************************************************************************)
EXTENDS FatLayout, Sequences, FiniteSetsExt

CONSTANTS
  Headers,       \* what may be where the header is looked for
  Hash,          \* per counter: the start of the HMAC of logical sector and counter,
                 \* in clusters and sectors
  LogicalSector, \* io->base_sector
  Starts,        \* sectors of the carrier where its file system may begin
  Earlier,       \* which blocks earlier WRITEs may have left: sets of first sectors
  FsClusters,    \* clusters that the file system takes and gives back
  M, K,          \* num_carrier and num_entropy
  MaxFailures    \* bound on hashes and reads of the FAT that fail

\* What mkfs writes, or what is there if nobody ran it; the driver checks none of it.
HeaderAssumption(h) ==
  /\ \A n \in {h.reservedSectors, h.sectorsPerFat16, h.sectorsPerFat32, h.fats,
                h.rootEntries} : n \in Nat
  /\ h.bytesPerSector \in {0, 512, 1024, 2048, 4096}
  /\ h.sectorsPerCluster \in {0, 1, 2, 4, 8, 16, 32, 64, 128}

\* The first two entries of a FAT are no clusters and never zero.
Reserved == {0, 1}

ASSUME PlacementAssumption ==
  /\ M \in Nat \ {0} /\ K \in Nat /\ M < K + 1
  /\ \A h \in Headers : HeaderAssumption(h)
  /\ \A n \in 0..(M + 9) : Hash[n] \in Nat \X Nat
  /\ LogicalSector \in Nat
  /\ Starts \subseteq Nat /\ Earlier \subseteq SUBSET Nat
  /\ FsClusters \subseteq Nat \ Reserved
  /\ MaxFailures \in Nat

VARIABLES
  phase,    \* off, refused, oops, loaded, ready, probing, found, placed, failed
  f,        \* struct fs_fat
  start,    \* carrier->start
  FAT,      \* clusters whose entry is not zero
  written,  \* first sectors of the blocks on the carrier
  mio,      \* sectors of the metadata's carrier and entropy bios
  skip,
  at,       \* the sector last probed, and its counter
  placed,   \* blocks of the WRITE that are submitted
  refusals, \* probes answered by "used"
  taken,    \* clusters the file system took since the last probe
  failures

vars == <<phase, f, start, FAT, written, mio, skip, at, placed, refusals, taken, failures>>

SectorZero == <<0, 0>>

\* Bound on the count of refusals
MaxRefusals == 12

Nowhere == [sector |-> SectorZero, counter |-> -1, hashed |-> FALSE, holdsFat |-> FALSE]
Fresh == [carrier |-> [n \in 1..M |-> SectorZero], entropy |-> [n \in 1..K |-> SectorZero]]

Init ==
  /\ phase = "off" /\ f = <<>> /\ start = 0 /\ FAT = Reserved /\ written = {}
  /\ mio = Fresh
  /\ skip = -1 /\ at = Nowhere /\ placed = <<>> /\ refusals = 0
  /\ taken = {} /\ failures = 0
-----------------------------------------------------------------------------
\* get_sector_in_sequence: without a hash the logical sector, not reduced
InSequence(counter, hashed) ==
  IF hashed THEN <<Hash[counter][1] % MaxClusters(f), Hash[counter][2] % f.sectorsPerCluster>>
  ELSE <<LogicalSector \div f.sectorsPerCluster, LogicalSector % f.sectorsPerCluster>>

\* The device's number of a sector of the sequence
Absolute(sector) == sector[1] * f.sectorsPerCluster + sector[2]

\* The carrier blocks of the metadata, as long as a cluster of the file system, are
\* at the start of the device; a block of a WRITE is as long as a cluster of the
\* driver.
Overwritten(sector) ==
  \/ sector < ClusterSectors(f)
  \/ \E b \in written : b <= sector /\ sector < b + f.sectorsPerCluster

HoldsFat(cluster) ==
  /\ InFat(f, start, LookupSector(f, cluster))
  /\ ~Overwritten(LookupSector(f, cluster))

Answers(cluster, readable) ==
  fat_is_cluster_used(f, start, FAT, cluster, readable, HoldsFat(cluster))

\* The part of the constructor from fat_get_header to metadata_logical_sector; a
\* division by zero ends in an oops.
Load(h, sector, readable, hashed) ==
  LET parsed == fat_compute_values(fat_parse_header(h))
  IN  /\ phase = "off"
      /\ f' = parsed /\ start' = sector
      /\ phase' = CASE ~readable -> "refused"
                    [] readable /\ (DividesByZero(parsed) \/ (hashed /\ MaxClusters(parsed) = 0))
                         -> "oops"
                    [] OTHER -> "loaded"
      /\ failures' = IF readable /\ hashed THEN failures ELSE failures + 1
      /\ UNCHANGED <<FAT, written, mio, skip, at, placed, refusals, taken>>

\* The file system of the carrier
Take(c) ==
  /\ phase \notin {"off", "refused", "oops"} /\ c \notin FAT
  /\ FAT' = FAT \cup {c}
  /\ taken' = taken \cup {c}
  /\ UNCHANGED <<phase, f, start, written, mio, skip, at, placed, refusals, failures>>

GiveBack(c) ==
  /\ phase \notin {"off", "refused", "oops"} /\ c \in FAT
  /\ FAT' = FAT \ {c}
  /\ UNCHANGED <<phase, f, start, written, mio, skip, at, placed, refusals, taken, failures>>
-----------------------------------------------------------------------------
\* Mutants: the counter of probes stays, or is reset for every block; the sectors go
\* to the bios they are meant for.
NextSkipStuck(s) == IF s = -1 THEN 0 ELSE s
CarryReset(s) == -1
DirectCarrier(bios, sectors) == [bios EXCEPT !.carrier = sectors]

\* if (skip == -1) skip = 0; else skip++;
PastLast(s) == s > 10
NextSkip(s) == IF s = -1 THEN 0 ELSE s + 1

\* skip is set to -1 before the loop over the carrier blocks, not in it.
Carry(s) == s

\* bio_map_sector(mio->entropy_bios[i], generated_sector), in the loop over the
\* carrier bios
Direct(bios, sectors) ==
  [bios EXCEPT !.entropy = [n \in 1..K |-> IF n <= M THEN sectors[n] ELSE @[n]]]

\* Carrier block n looks for a free cluster with a counter of its own and stops at
\* the first that seems free, or at the last.  Then the entropy bios get sectors of
\* their device.
StopsAt(n, s) ==
  LET Seems(p) == Answers(InSequence(n - 1 + p, TRUE)[1], TRUE)
  IN  (\A p \in 0..(s - 1) : TRUE \in Seems(p)) /\ (s = 10 \/ FALSE \in Seems(s))

EntropySector(n) == <<-1, n>>
init_metadata_bios(bios, stop) ==
  LET directed == Direct(bios, [n \in 1..M |-> InSequence(n - 1 + stop[n], TRUE)])
  IN  [directed EXCEPT !.entropy = [n \in 1..K |-> EntropySector(n)]]

PlaceMetadata(stop) ==
  /\ phase = "loaded" /\ MaxClusters(f) # 0
  /\ \A n \in 1..M : StopsAt(n, stop[n])
  /\ phase' = "ready"
  /\ mio' = init_metadata_bios(mio, stop)
  /\ UNCHANGED <<f, start, FAT, written, skip, at, placed, refusals, taken, failures>>

\* The hash failed in the constructor and does not any more.
PlaceMetadataOops ==
  /\ phase = "loaded" /\ MaxClusters(f) = 0
  /\ phase' = "oops"
  /\ UNCHANGED <<f, start, FAT, written, mio, skip, at, placed, refusals, taken, failures>>
-----------------------------------------------------------------------------
Write(blocks) ==
  /\ phase = "ready"
  /\ phase' = "probing" /\ skip' = -1
  /\ written' = blocks
  /\ UNCHANGED <<f, start, FAT, mio, at, placed, refusals, taken, failures>>

\* One pass of the do loop for carrier block Len(placed)
Probe(hashed, readable, used) ==
  LET s == NextSkip(skip)
      counter == Len(placed) + s
      sector == InSequence(counter, hashed)
  IN  /\ phase = "probing" /\ ~PastLast(s)
      /\ used \in Answers(sector[1], readable)
      /\ skip' = s
      /\ at' = [sector |-> sector, counter |-> counter, hashed |-> hashed,
                holdsFat |-> HoldsFat(sector[1])]
      /\ phase' = IF used THEN "probing" ELSE "found"
      /\ refusals' = IF used /\ refusals < MaxRefusals THEN refusals + 1 ELSE refusals
      /\ taken' = {}
      /\ failures' = IF hashed /\ readable THEN failures ELSE failures + 1
      /\ UNCHANGED <<f, start, FAT, written, mio, placed>>

GiveUp ==
  /\ phase = "probing" /\ PastLast(NextSkip(skip))
  /\ phase' = "failed"
  /\ UNCHANGED <<f, start, FAT, written, mio, skip, at, placed, refusals, taken, failures>>

\* The clusters of the file system that a block reaches into: it is no longer than
\* one of them.  Before them are its header, its FATs and its root directory.
Covered(sector) ==
  LET first == Absolute(sector)
      last == first + f.sectorsPerCluster - 1
  IN  {FsCluster(f, start, first), FsCluster(f, start, last)} \ Reserved

\* The metadata update went well.  Nothing marks the cluster in the FAT.
Submit ==
  /\ phase = "found"
  /\ placed' = Append(placed, [at |-> at, hit |-> Covered(at.sector) \cap FAT, taken |-> taken])
  /\ written' = written \cup {Absolute(at.sector)}
  /\ phase' = IF Len(placed) + 1 = M THEN "placed" ELSE "probing"
  /\ skip' = Carry(skip)
  /\ UNCHANGED <<f, start, FAT, mio, at, refusals, taken, failures>>

MayFail(hashed, readable) == (hashed /\ readable) \/ failures < MaxFailures

Search == \/ \E hashed, readable, used \in BOOLEAN :
               MayFail(hashed, readable) /\ Probe(hashed, readable, used)
          \/ GiveUp
          \/ Submit

Next == \/ \E h \in Headers, sector \in Starts, readable, hashed \in BOOLEAN :
             MayFail(hashed, readable) /\ Load(h, sector, readable, hashed)
        \/ \E c \in FsClusters : Take(c) \/ GiveBack(c)
        \/ \E stop \in [1..M -> 0..10] : PlaceMetadata(stop)
        \/ PlaceMetadataOops
        \/ \E blocks \in Earlier : Write(blocks)
        \/ Search

\* The handler of the last entropy read runs.
Spec == Init /\ [][Next]_vars /\ WF_vars(Search)
-----------------------------------------------------------------------------
TypeOK ==
  /\ phase \in {"off", "refused", "oops", "loaded", "ready", "probing", "found", "placed",
                "failed"}
  /\ start \in Nat /\ written \subseteq Nat
  /\ FAT \subseteq Reserved \cup FsClusters
  /\ mio.carrier \in Seq(Int \X Int) /\ mio.entropy \in Seq(Int \X Int)
  /\ skip \in -1..10
  /\ at.sector \in Nat \X Nat /\ at.counter \in -1..(M + 9) /\ at.hashed \in BOOLEAN
  /\ at.holdsFat \in BOOLEAN
  /\ Len(placed) <= M
  /\ refusals \in 0..MaxRefusals
  /\ taken \subseteq FsClusters
  /\ failures \in 0..MaxFailures

\* A look for a cluster of the sequence goes to the FAT, whatever the hash and the
\* header, if the file system begins with the carrier.  If it begins further on, the
\* lookups fall short by as many sectors: those for the first sectors of the FAT, or
\* all of them, read something else.  (If the hash failed, the logical sector is not
\* reduced to the carrier's size either.)  What the arithmetic does not survive is a
\* carrier without a FAT header, or one with so many clusters that their sectors
\* overflow 32 bits: a division by zero (utility.c:441-453, fs_fat.c:32, 93, 110,
\* target.c:153, 178).
LookupInsideFat ==
  /\ at.hashed =>
       (InFat(f, start, LookupSector(f, at.sector[1]))
         <=> start <= EntryOffset(f, at.sector[1]) \div SECTOR_SIZE)
  /\ phase = "oops" => f.bytesPerCluster = 0 \/ f.fatSize = 0 \/ f.totalClusters >= 2 ^ 25

\* A block of a WRITE lands on a cluster that the file system uses only if it took
\* the cluster after the probe, or if the entry looked at was another one's, or none
\* of the FAT.  The entry looked at is the first of the FAT's sector with that of the
\* driver's number of the cluster, as many sectors back as the file system begins
\* after the device; the file system has another number for what is there.  And if
\* it was the FAT that was read, the block is beyond the clusters of the driver with
\* an entry in the first sector of the FAT, whose first entry is never zero: header,
\* FATs and root directory are overwritten only where they reach further
\* (workqueue.c:188-221, fs_fat.c:81-82, 103-120).
PerSector(g) == SECTOR_SIZE \div Entry(g)
LookedAt(cluster) ==
  ((cluster % (2 ^ 29 \div Entry(f))) \div PerSector(f) - start) * PerSector(f)
OverwritesExplained ==
  \A n \in DOMAIN placed :
    /\ \A c \in placed[n].hit : \/ c \in placed[n].taken
                                \/ c # LookedAt(placed[n].at.sector[1])
                                \/ ~placed[n].at.holdsFat
    /\ placed[n].at.holdsFat => placed[n].at.sector[1] >= (start + 1) * PerSector(f)

\* All the carrier blocks of a WRITE share eleven probes, and a WRITE that finds no
\* cluster has made them all.  The blocks take different counters of the sequence,
\* in the order of the blocks, so that they meet only if the hash does
\* (workqueue.c:186-200).
ProbesShared ==
  /\ TypeOK
  /\ Len(placed) + refusals <= 11
  /\ phase = "failed" => Len(placed) + refusals = 11
  /\ \A n, j \in DOMAIN placed : n < j => placed[n].at.counter < placed[j].at.counter

\* The carrier blocks of the metadata are never directed to a sector of the
\* sequence: all of them stay at the start of the carrier, where its header is,
\* and no sector found for them is left in the entropy bios (integrity.c:85-124).
MetadataNeverPlaced ==
  phase \notin {"off", "refused", "oops", "loaded"} =>
    /\ \A n \in 1..M : mio.carrier[n] = SectorZero
    /\ \A n \in 1..K : mio.entropy[n] = EntropySector(n)

\* A WRITE is placed or given up, whatever the file system does meanwhile.
WriteDecided == phase = "probing" ~> phase \in {"placed", "failed"}

\* "int b = fat_is_cluster_used(fat, s / sectors_per_cluster);" and then "Sector %llu
\* free?" (fs_fat.c:98-104): the answer is about the cluster of sector s.
AnswerForSector == phase = "found" /\ taken = {} => at.sector[1] \notin FAT
=============================================================================
