---------------------------- MODULE PlacementProofs ----------------------------
(***************************************************************************)
(* Theorems about Placement, for every header a FAT file system may have,  *)
(* every hash, wherever the file system begins, for every behaviour of it  *)
(* and every number of carrier and entropy blocks.                         *)
(***************************************************************************)
EXTENDS Placement, SequenceTheorems, TLAPS

USE PlacementAssumption

(* The layouts the constructor can come to. *)
Layouts == {fat_compute_values(fat_parse_header(h)) : h \in Headers}

ClusterSizes == {0, 1, 2, 4, 8, 16, 32, 64, 128}

LEMMA Multiple ==
  ASSUME NEW b \in {0, 512, 1024, 2048, 4096}, NEW n \in Nat
  PROVE  n * b \in Nat /\ (n * b) % 512 = 0 /\ b * n \in Nat /\ (b * n) % 512 = 0
<1>1. PICK k \in Nat : b = 512 * k
  <2>1. \E k \in {0, 1, 2, 4, 8} : b = 512 * k
    OBVIOUS
  <2> QED BY <2>1
<1>2. n * b = 512 * (n * k) /\ b * n = 512 * (n * k) /\ n * k \in Nat
  BY <1>1
<1> DEFINE j == n * k
<1>3. j \in Nat /\ n * b = 512 * j /\ b * n = 512 * j
  BY <1>2
<1> HIDE DEF j
<1>4. 512 * j \in Nat /\ (512 * j) % 512 = 0
  BY <1>3
<1> QED BY <1>3, <1>4

(* What holds of every layout. *)
LEMMA LayoutFacts ==
  ASSUME NEW g \in Layouts
  PROVE  /\ Entry(g) \in {2, 4}
         /\ g.fatStart \in Nat /\ g.fatStart % 512 = 0
         /\ g.fatSize \in Nat /\ g.fatSize % 512 = 0
         /\ g.totalClusters = g.fatSize \div Entry(g)
         /\ g.sectorsPerCluster \in ClusterSizes
         /\ g.sectorsPerCluster = 0 => g.bytesPerCluster = 0
<1>1. PICK h \in Headers : g = fat_compute_values(fat_parse_header(h))
  BY DEF Layouts
<1> DEFINE p == fat_parse_header(h)
<1>2. /\ h.bytesPerSector \in {0, 512, 1024, 2048, 4096}
      /\ h.sectorsPerCluster \in ClusterSizes
      /\ h.reservedSectors \in Nat /\ h.sectorsPerFat16 \in Nat /\ h.sectorsPerFat32 \in Nat
  BY DEF HeaderAssumption, ClusterSizes
<1>3. /\ p.bits \in {16, 32} /\ p.sectorsPerFat \in Nat
      /\ p.bytesPerSector = h.bytesPerSector
      /\ p.sectorsPerCluster = h.sectorsPerCluster
      /\ p.reservedSectors = h.reservedSectors
  BY <1>2 DEF fat_parse_header
<1> HIDE DEF p
<1>4. /\ g.bits = p.bits /\ g.fatSize = p.sectorsPerFat * p.bytesPerSector
      /\ g.fatStart = p.bytesPerSector * p.reservedSectors
      /\ g.sectorsPerCluster = p.sectorsPerCluster
      /\ g.bytesPerCluster = p.bytesPerSector * p.sectorsPerCluster
      /\ g.totalClusters = g.fatSize \div (p.bits \div 8)
  BY <1>1 DEF fat_compute_values, p
<1>5. Entry(g) \in {2, 4} /\ Entry(g) = p.bits \div 8
  BY <1>3, <1>4 DEF Entry
<1>6. /\ g.fatStart \in Nat /\ g.fatStart % 512 = 0
      /\ g.fatSize \in Nat /\ g.fatSize % 512 = 0
  <2>1. /\ p.bytesPerSector \in {0, 512, 1024, 2048, 4096}
        /\ p.reservedSectors \in Nat /\ p.sectorsPerFat \in Nat
    BY <1>2, <1>3
  <2>2. /\ p.bytesPerSector * p.reservedSectors \in Nat
        /\ (p.bytesPerSector * p.reservedSectors) % 512 = 0
    BY <2>1, Multiple
  <2>3. /\ p.sectorsPerFat * p.bytesPerSector \in Nat
        /\ (p.sectorsPerFat * p.bytesPerSector) % 512 = 0
    BY <2>1, Multiple
  <2> QED BY <1>4, <2>2, <2>3
<1>7. g.sectorsPerCluster = 0 => g.bytesPerCluster = 0
  BY <1>2, <1>3, <1>4
<1> QED BY <1>2, <1>3, <1>4, <1>5, <1>6, <1>7

LEMMA MaxClustersFacts ==
  ASSUME NEW g \in Layouts
  PROVE  /\ MaxClusters(g) \in Nat /\ g.totalClusters \in Nat
         /\ MaxClusters(g) <= g.totalClusters
         /\ MaxClusters(g) # 0 => g.sectorsPerCluster \in ClusterSizes \ {0}
         /\ MaxClusters(g) = 0 =>
              g.bytesPerCluster = 0 \/ g.fatSize = 0 \/ g.totalClusters >= 2 ^ 25
<1> DEFINE n == g.totalClusters
           s == g.sectorsPerCluster
<1>1. n \in Nat /\ (n = 0 => g.fatSize = 0)
  <2>1. Entry(g) \in {2, 4} /\ n = g.fatSize \div Entry(g) /\ g.fatSize \in Nat /\ g.fatSize % 512 = 0
    BY LayoutFacts
  <2>2. CASE Entry(g) = 2
    BY <2>1, <2>2
  <2>3. CASE Entry(g) = 4
    BY <2>1, <2>3
  <2> QED BY <2>1, <2>2, <2>3
<1>2. s \in ClusterSizes /\ (s = 0 => g.bytesPerCluster = 0)
  BY LayoutFacts
<1>3. ASSUME NEW m \in {2 ^ 30, 2 ^ 29, 2 ^ 28, 2 ^ 27, 2 ^ 26, 2 ^ 25}
      PROVE  n % m \in Nat /\ n % m <= n /\ (n % m = 0 => n = 0 \/ n >= 2 ^ 25)
  BY <1>1
<1>4. CASE s \in {0, 1, 2}
  BY <1>1, <1>2, <1>4 DEF MaxClusters, ClusterSizes
<1>5. CASE s \in {4, 8, 16, 32, 64, 128}
  <2>1. 2 ^ 30 \div (s \div 4) \in {2 ^ 30, 2 ^ 29, 2 ^ 28, 2 ^ 27, 2 ^ 26, 2 ^ 25}
    BY <1>5
  <2>2. MaxClusters(g) = n % (2 ^ 30 \div (s \div 4))
    BY <1>5 DEF MaxClusters
  <2> DEFINE m == 2 ^ 30 \div (s \div 4)
  <2> HIDE DEF m, n, s
  <2>3. MaxClusters(g) \in Nat /\ MaxClusters(g) <= n /\ (MaxClusters(g) = 0 => n = 0 \/ n >= 2 ^ 25)
    BY <1>3, <2>1, <2>2 DEF m
  <2> QED BY <1>1, <1>2, <1>5, <2>3 DEF n, s
<1> QED BY <1>2, <1>4, <1>5 DEF ClusterSizes

(* Where a lookup goes, in sectors from the start of the FAT: as many as the *)
(* entries of its sectors fit below the cluster, whose number wraps.          *)
Index(g, c) == (c % (2 ^ 29 \div Entry(g))) \div PerSector(g)

LEMMA LookupIndex ==
  ASSUME NEW g \in Layouts, NEW c \in Nat, NEW st \in Nat
  PROVE  /\ PerSector(g) \in {128, 256}
         /\ Index(g, c) \in Nat /\ Index(g, c) * PerSector(g) <= c
         /\ EntryOffset(g, c) \div SECTOR_SIZE = Index(g, c)
         /\ EntryRead(g, st, c) = (Index(g, c) - st) * PerSector(g)
         /\ InFat(g, st, LookupSector(g, c)) => st <= Index(g, c)
         /\ c < g.totalClusters /\ st <= Index(g, c) => InFat(g, st, LookupSector(g, c))
<1> DEFINE e == Entry(g)
           perSector == PerSector(g)
           o == EntryOffset(g, c)
           fs == g.fatStart
           size == g.fatSize
           x == Index(g, c)
<1>1. /\ e \in {2, 4}
      /\ fs \in Nat /\ fs % 512 = 0 /\ size \in Nat /\ size % 512 = 0
      /\ g.totalClusters = size \div e
  BY LayoutFacts
<1>2. /\ perSector \in {128, 256} /\ x \in Nat /\ x * perSector <= c
      /\ o \in Nat /\ o <= e * c /\ o \div 512 = x /\ 512 = e * perSector
  <2>1. CASE e = 2
    <3>1. perSector = 256 /\ x = (c % (2 ^ 28)) \div 256 /\ o = 2 * (c % (2 ^ 28))
      BY <2>1 DEF PerSector, Index, EntryOffset, SECTOR_SIZE
    <3>2. c % (2 ^ 28) \in Nat /\ c % (2 ^ 28) <= c
      OBVIOUS
    <3> DEFINE r == c % (2 ^ 28)
    <3> HIDE DEF r
    <3>3. r \in Nat /\ r <= c /\ x = r \div 256 /\ o = 2 * r
      BY <3>1, <3>2 DEF r
    <3> HIDE DEF x, o, perSector, e
    <3> QED BY <2>1, <3>1, <3>3
  <2>2. CASE e = 4
    <3>1. perSector = 128 /\ x = (c % (2 ^ 27)) \div 128 /\ o = 4 * (c % (2 ^ 27))
      BY <2>2 DEF PerSector, Index, EntryOffset, SECTOR_SIZE
    <3>2. c % (2 ^ 27) \in Nat /\ c % (2 ^ 27) <= c
      OBVIOUS
    <3> DEFINE r == c % (2 ^ 27)
    <3> HIDE DEF r
    <3>3. r \in Nat /\ r <= c /\ x = r \div 128 /\ o = 4 * r
      BY <3>1, <3>2 DEF r
    <3> HIDE DEF x, o, perSector, e
    <3> QED BY <2>2, <3>1, <3>3
  <2> QED BY <1>1, <2>1, <2>2
<1>3. LookupSector(g, c) = (fs + o) \div 512
  BY DEF LookupSector, SECTOR_SIZE
<1>4. EntryRead(g, st, c) = ((LookupSector(g, c) - st) * 512 - fs) \div e
  BY DEF EntryRead, SECTOR_SIZE
<1>5. InFat(g, st, LookupSector(g, c)) <=>
        /\ st + fs \div 512 <= LookupSector(g, c)
        /\ LookupSector(g, c) < st + (fs + size) \div 512
  BY DEF InFat, SECTOR_SIZE
<1>6. c < g.totalClusters => e * c < size
  <2>1. CASE e = 2
    BY <1>1, <2>1
  <2>2. CASE e = 4
    BY <1>1, <2>2
  <2> QED BY <1>1, <2>1, <2>2
<1>7. PICK j \in Nat : fs = 512 * j
  <2>1. fs = 512 * (fs \div 512) /\ fs \div 512 \in Nat
    BY <1>1
  <2> QED BY <2>1
<1>8. e * c \in Nat
  BY <1>1
<1> DEFINE look == LookupSector(g, c)
           ec == e * c
<1> HIDE DEF e, perSector, o, fs, size, x, look, ec
<1>9. look = j + x
  BY <1>2, <1>3, <1>7 DEF look
<1>10. EntryRead(g, st, c) = (x - st) * perSector
  <2>1. (look - st) * 512 - fs = 512 * (x - st)
    BY <1>2, <1>7, <1>9
  <2>2. CASE e = 2
    <3>1. perSector = 256
      BY <1>2, <2>2
    <3>2. EntryRead(g, st, c) = (512 * (x - st)) \div 2
      BY <1>4, <2>1, <2>2 DEF look
    <3> QED BY <1>2, <3>1, <3>2
  <2>3. CASE e = 4
    <3>1. perSector = 128
      BY <1>2, <2>3
    <3>2. EntryRead(g, st, c) = (512 * (x - st)) \div 4
      BY <1>4, <2>1, <2>3 DEF look
    <3> QED BY <1>2, <3>1, <3>2
  <2> QED BY <1>1, <2>2, <2>3
<1>11. fs \div 512 = j
  BY <1>7
<1>12. st + fs \div 512 <= look => st <= x
  BY <1>2, <1>7, <1>9, <1>11
<1>13. ec < size => look < st + (fs + size) \div 512
  <2> SUFFICES ASSUME ec < size PROVE look < st + (fs + size) \div 512
    OBVIOUS
  <2>1. o < size
    BY <1>1, <1>2, <1>8 DEF ec
  <2>2. PICK n \in Nat : size = 512 * n
    <3>1. size = 512 * (size \div 512) /\ size \div 512 \in Nat
      BY <1>1
    <3> QED BY <3>1
  <2>3. (fs + size) \div 512 = j + n
    BY <1>7, <2>2
  <2>4. x < n
    BY <1>2, <2>1, <2>2
  <2> QED BY <1>2, <1>9, <2>3, <2>4
<1>14. st <= x => st + fs \div 512 <= look
  BY <1>2, <1>9, <1>11
<1> QED
  BY <1>2, <1>5, <1>6, <1>10, <1>12, <1>13, <1>14 DEF look, ec, o, x, perSector, SECTOR_SIZE

LEMMA SectorType ==
  ASSUME f \in Layouts, MaxClusters(f) # 0, NEW n \in 0..(M + 9), NEW hashed \in BOOLEAN
  PROVE  /\ InSequence(n, hashed) \in Nat \X Nat
         /\ hashed => InSequence(n, hashed)[1] < f.totalClusters
<1> DEFINE m == MaxClusters(f)
           s == f.sectorsPerCluster
<1>1. m \in Nat /\ m > 0 /\ m <= f.totalClusters /\ f.totalClusters \in Nat
  BY MaxClustersFacts
<1>2. s \in Nat /\ s > 0
  BY MaxClustersFacts DEF ClusterSizes
<1>3. Hash[n][1] \in Nat /\ Hash[n][2] \in Nat
  OBVIOUS
<1> HIDE DEF m, s
<1>4. ASSUME NEW x \in Nat, NEW d \in Nat, d > 0
      PROVE  x % d \in Nat /\ x % d < d /\ x \div d \in Nat
  BY <1>4
<1>5. Hash[n][1] % m \in Nat /\ Hash[n][1] % m < m /\ Hash[n][2] % s \in Nat
  BY <1>1, <1>2, <1>3, <1>4
<1>6. LogicalSector \div s \in Nat /\ LogicalSector % s \in Nat
  BY <1>2, <1>4
<1> QED BY <1>1, <1>5, <1>6 DEF InSequence, m, s
-----------------------------------------------------------------------------
(***************************************************************************)
(* The inductive invariant.                                                *)
(***************************************************************************)
Phases == {"off", "refused", "oops", "loaded", "ready", "probing", "found", "placed", "failed"}
Idle == {"off", "refused", "oops", "loaded", "ready"}
Running == {"ready", "probing", "found", "placed", "failed"}

Clusters == Reserved \cup FsClusters
Probes == [sector : Nat \X Nat, counter : -1..(M + 9), hashed : BOOLEAN, holdsFat : BOOLEAN]
Blocks == [at : Probes, hit : SUBSET Clusters, taken : SUBSET FsClusters]
Sectors == Seq(Int \X Int)

Types ==
  /\ phase \in Phases
  /\ start \in Nat /\ written \subseteq Nat
  /\ Reserved \subseteq FAT /\ FAT \subseteq Clusters
  /\ mio \in [carrier : Sectors, entropy : Sectors]
  /\ skip \in -1..10
  /\ at \in Probes
  /\ placed \in Seq(Blocks)
  /\ refusals \in 0..MaxRefusals
  /\ taken \subseteq FsClusters
  /\ failures \in 0..MaxFailures

(* What the constructor left behind. *)
LayoutInv ==
  /\ phase # "off" => f \in Layouts
  /\ phase \in Running => MaxClusters(f) # 0
  /\ phase = "oops" => f.bytesPerCluster = 0 \/ MaxClusters(f) = 0
  /\ phase \in Idle => placed = <<>> /\ refusals = 0 /\ skip = -1 /\ at = Nowhere
  /\ phase \in Idle \ {"ready"} => mio = Fresh

(* Every probe has its number, and each was answered by "used" or placed a *)
(* block.                                                                  *)
CountInv ==
  /\ Len(placed) <= M
  /\ phase \in {"probing", "found", "failed"} => Len(placed) < M
  /\ phase \in {"probing", "placed", "failed"} => skip + 1 = Len(placed) + refusals
  /\ phase = "found" => skip = Len(placed) + refusals /\ at.counter = Len(placed) + skip
  /\ phase = "failed" => skip = 10
  /\ \A n \in DOMAIN placed :
       placed[n].at.counter < Len(placed) + skip + (IF phase = "found" THEN 0 ELSE 1)
  /\ \A n, j \in DOMAIN placed : n < j => placed[n].at.counter < placed[j].at.counter

(* The block that was found a place: the entry looked at, if it was one of *)
(* the FAT, was zero then, so that it was not the first.                   *)
FoundInv ==
  /\ \A n \in DOMAIN placed :
       /\ \A c \in placed[n].hit :
            \/ c \in placed[n].taken
            \/ c # LookedAt(placed[n].at.sector[1])
            \/ ~placed[n].at.holdsFat
       /\ placed[n].at.holdsFat => placed[n].at.sector[1] >= (start + 1) * PerSector(f)
  /\ phase = "found" /\ at.holdsFat =>
       /\ at.sector[1] >= (start + 1) * PerSector(f)
       /\ LookedAt(at.sector[1]) \in FAT => LookedAt(at.sector[1]) \in taken

LookInv ==
  at.hashed => phase \notin Idle /\ at.sector[1] < f.totalClusters

PlacementInv ==
  /\ Types
  /\ LayoutInv
  /\ CountInv
  /\ FoundInv
  /\ LookInv
  /\ MetadataNeverPlaced

LEMMA NowhereType == Nowhere \in Probes /\ Nowhere.hashed = FALSE
BY DEF Nowhere, Probes, SectorZero

LEMMA SectorsType ==
  ASSUME NEW n \in Nat, NEW g \in [1..n -> Int \X Int]
  PROVE  g \in Sectors
BY SeqDef DEF Sectors

LEMMA MioType ==
  /\ Fresh \in [carrier : Sectors, entropy : Sectors]
  /\ [n \in 1..K |-> EntropySector(n)] \in Sectors
<1>1. [n \in 1..M |-> SectorZero] \in [1..M -> Int \X Int]
  BY DEF SectorZero
<1>2. [n \in 1..K |-> SectorZero] \in [1..K -> Int \X Int]
  BY DEF SectorZero
<1>3. [n \in 1..K |-> EntropySector(n)] \in [1..K -> Int \X Int]
  BY DEF EntropySector
<1>4. [n \in 1..M |-> SectorZero] \in Sectors
  BY <1>1, SectorsType
<1>5. [n \in 1..K |-> SectorZero] \in Sectors /\ [n \in 1..K |-> EntropySector(n)] \in Sectors
  BY <1>2, <1>3, SectorsType
<1> QED BY <1>4, <1>5 DEF Fresh

LEMMA PlacementInit == Init => PlacementInv
<1> SUFFICES ASSUME Init PROVE PlacementInv
  OBVIOUS
<1>1. Types
  BY NowhereType, MioType DEF Init, Types, Phases, Clusters, MaxRefusals
<1>2. LayoutInv
  BY DEF Init, LayoutInv, Running
<1>3. CountInv /\ FoundInv
  BY DEF Init, CountInv, FoundInv
<1>4. LookInv /\ MetadataNeverPlaced
  BY NowhereType DEF Init, LookInv, MetadataNeverPlaced
<1> QED BY <1>1, <1>2, <1>3, <1>4 DEF PlacementInv

(* The file system takes and gives back clusters: only FAT and taken change. *)
LEMMA FileSystemStep ==
  ASSUME PlacementInv, NEW c \in FsClusters, Take(c) \/ GiveBack(c)
  PROVE  PlacementInv'
<1>1. /\ UNCHANGED <<phase, f, start, written, mio, skip, at, placed, refusals, failures>>
      /\ taken \subseteq taken' /\ taken' \subseteq FsClusters
      /\ FAT' \subseteq FAT \cup taken' /\ FAT' \subseteq Clusters /\ Reserved \subseteq FAT'
  BY DEF Take, GiveBack, PlacementInv, Types, Clusters, Reserved
<1>2. Types'
  BY <1>1 DEF PlacementInv, Types
<1>3. LayoutInv' /\ CountInv' /\ LookInv' /\ MetadataNeverPlaced'
  BY <1>1 DEF PlacementInv, LayoutInv, CountInv, LookInv, MetadataNeverPlaced
<1>4. FoundInv'
  BY <1>1 DEF PlacementInv, FoundInv, LookedAt
<1> QED BY <1>2, <1>3, <1>4 DEF PlacementInv

LEMMA LoadStep ==
  ASSUME PlacementInv, NEW h \in Headers, NEW sector \in Starts,
         NEW readable \in BOOLEAN, NEW hashed \in BOOLEAN,
         MayFail(hashed, readable), Load(h, sector, readable, hashed)
  PROVE  PlacementInv'
<1> DEFINE g == fat_compute_values(fat_parse_header(h))
<1>1. g \in Layouts /\ f' = g
  BY DEF Layouts, Load
<1>2. /\ phase = "off"
      /\ phase' \in {"refused", "oops", "loaded"}
      /\ phase' = "oops" => DividesByZero(g) \/ MaxClusters(g) = 0
      /\ failures' \in 0..MaxFailures
      /\ start' \in Nat
      /\ UNCHANGED <<FAT, written, mio, skip, at, placed, refusals, taken>>
  BY DEF Load, MayFail, PlacementInv, Types
<1>3. Types'
  BY <1>2 DEF PlacementInv, Types, Phases
<1>4. LayoutInv'
  BY <1>1, <1>2 DEF PlacementInv, LayoutInv, DividesByZero, Idle, Running
<1>5. placed = <<>> /\ at = Nowhere /\ phase' \in Idle
  BY <1>2 DEF PlacementInv, LayoutInv, Idle
<1>6. CountInv' /\ FoundInv'
  BY <1>2, <1>5 DEF CountInv, FoundInv
<1>7. LookInv' /\ MetadataNeverPlaced'
  BY <1>2, <1>5, NowhereType DEF LookInv, MetadataNeverPlaced
<1> QED BY <1>3, <1>4, <1>6, <1>7 DEF PlacementInv

(* init_metadata_bios: the sectors found for the carrier's bios are lost.  *)
LEMMA DirectedNowhere ==
  ASSUME NEW stop
  PROVE  init_metadata_bios(Fresh, stop) = [carrier |-> Fresh.carrier, entropy |-> [n \in 1..K |-> EntropySector(n)]]
<1>1. ASSUME NEW sectors, NEW e
      PROVE  [Direct(Fresh, sectors) EXCEPT !.entropy = e] = [carrier |-> Fresh.carrier, entropy |-> e]
  <2> DEFINE x == [n \in 1..K |-> IF n <= M THEN sectors[n] ELSE Fresh.entropy[n]]
  <2>1. Direct(Fresh, sectors) = [Fresh EXCEPT !.entropy = x]
    BY DEF Direct
  <2> HIDE DEF x
  <2>2. [Fresh EXCEPT !.entropy = x] = [carrier |-> Fresh.carrier, entropy |-> x]
    <3> DEFINE a == [n \in 1..M |-> SectorZero]
               b == [n \in 1..K |-> SectorZero]
    <3>1. Fresh = [carrier |-> a, entropy |-> b]
      BY DEF Fresh
    <3> HIDE DEF a, b
    <3> QED BY <3>1
  <2>3. ASSUME NEW y
        PROVE  [[carrier |-> Fresh.carrier, entropy |-> y] EXCEPT !.entropy = e]
                 = [carrier |-> Fresh.carrier, entropy |-> e]
    OBVIOUS
  <2> QED BY <2>1, <2>2, <2>3
<1> QED BY <1>1 DEF init_metadata_bios

LEMMA PlaceMetadataStep ==
  ASSUME PlacementInv, NEW stop, PlaceMetadata(stop) \/ PlaceMetadataOops
  PROVE  PlacementInv'
<1>1. /\ phase = "loaded"
      /\ UNCHANGED <<f, start, FAT, written, skip, at, placed, refusals, taken, failures>>
  BY DEF PlaceMetadata, PlaceMetadataOops
<1>2. placed = <<>> /\ at = Nowhere /\ skip = -1 /\ refusals = 0 /\ mio = Fresh
  BY <1>1 DEF PlacementInv, LayoutInv, Idle
<1>3. CASE PlaceMetadataOops
  <2>1. phase' = "oops" /\ mio' = mio /\ MaxClusters(f) = 0
    BY <1>3 DEF PlaceMetadataOops
  <2>2. Types' /\ LayoutInv'
    BY <1>1, <1>2, <2>1 DEF PlacementInv, Types, LayoutInv, Phases, Running
  <2>3. CountInv' /\ FoundInv' /\ LookInv' /\ MetadataNeverPlaced'
    BY <1>1, <1>2, <2>1, NowhereType DEF CountInv, FoundInv, LookInv, MetadataNeverPlaced
  <2> QED BY <2>2, <2>3 DEF PlacementInv
<1>4. CASE PlaceMetadata(stop)
  <2>1. /\ phase' = "ready" /\ MaxClusters(f) # 0
        /\ mio' = [carrier |-> Fresh.carrier, entropy |-> [n \in 1..K |-> EntropySector(n)]]
    BY <1>2, <1>4, DirectedNowhere DEF PlaceMetadata
  <2>2. mio' \in [carrier : Sectors, entropy : Sectors]
    BY <2>1, MioType
  <2>3. Types' /\ LayoutInv'
    BY <1>1, <1>2, <2>1, <2>2 DEF PlacementInv, Types, LayoutInv, Phases, Idle
  <2>4. CountInv' /\ FoundInv' /\ LookInv'
    BY <1>1, <1>2, <2>1, NowhereType DEF CountInv, FoundInv, LookInv
  <2>5. MetadataNeverPlaced'
    BY <2>1 DEF MetadataNeverPlaced, Fresh
  <2> QED BY <2>3, <2>4, <2>5 DEF PlacementInv
<1> QED BY <1>3, <1>4

LEMMA WriteStep ==
  ASSUME PlacementInv, NEW blocks \in Earlier, Write(blocks)
  PROVE  PlacementInv'
<1>1. /\ phase = "ready" /\ phase' = "probing" /\ skip' = -1
      /\ written' = blocks /\ blocks \subseteq Nat
      /\ UNCHANGED <<f, start, FAT, mio, at, placed, refusals, taken, failures>>
  BY DEF Write
<1>2. placed = <<>> /\ at = Nowhere /\ skip = -1 /\ refusals = 0
  BY <1>1 DEF PlacementInv, LayoutInv, Idle
<1>3. Types' /\ LayoutInv' /\ MetadataNeverPlaced'
  BY <1>1 DEF PlacementInv, Types, LayoutInv, Phases, Idle, Running, MetadataNeverPlaced
<1>4. CountInv' /\ FoundInv' /\ LookInv'
  BY <1>1, <1>2, NowhereType DEF CountInv, FoundInv, LookInv
<1> QED BY <1>3, <1>4 DEF PlacementInv

(* What the FAT answered for a cluster taken as free. *)
LEMMA FreeAnswer ==
  ASSUME f \in Layouts, start \in Nat, 0 \in FAT, NEW c \in Nat, NEW readable \in BOOLEAN,
         FALSE \in Answers(c, readable), HoldsFat(c)
  PROVE  c >= (start + 1) * PerSector(f) /\ LookedAt(c) \notin FAT
<1> DEFINE x == Index(f, c)
           p == PerSector(f)
<1>1. /\ p \in {128, 256} /\ x \in Nat /\ x * p <= c
      /\ EntryRead(f, start, c) = (x - start) * p
      /\ InFat(f, start, LookupSector(f, c)) => start <= x
  BY LookupIndex
<1>2. InFat(f, start, LookupSector(f, c))
  BY DEF HoldsFat
<1>3. EntryRead(f, start, c) \notin FAT
  BY DEF Answers, fat_is_cluster_used
<1>4. LookedAt(c) = (x - start) * p
  BY DEF LookedAt, Index
<1> HIDE DEF x, p
<1>5. x # start
  BY <1>1, <1>3
<1>6. (start + 1) * p <= x * p /\ (start + 1) * p \in Nat /\ x * p \in Nat
  BY <1>1, <1>2, <1>5
<1>7. c >= (start + 1) * p
  BY <1>1, <1>6
<1> QED BY <1>1, <1>3, <1>4, <1>7 DEF p

(* One pass of the do loop. *)
LEMMA ProbeStep ==
  ASSUME PlacementInv, NEW hashed \in BOOLEAN, NEW readable \in BOOLEAN,
         NEW used \in BOOLEAN,
         MayFail(hashed, readable), Probe(hashed, readable, used)
  PROVE  PlacementInv'
<1> DEFINE s == NextSkip(skip)
           counter == Len(placed) + s
           sector == InSequence(counter, hashed)
           holds == HoldsFat(sector[1])
<1>1. /\ phase = "probing" /\ ~PastLast(s)
      /\ skip' = s /\ taken' = {}
      /\ used \in Answers(sector[1], readable)
      /\ at' = [sector |-> sector, counter |-> counter, hashed |-> hashed, holdsFat |-> holds]
      /\ phase' = IF used THEN "probing" ELSE "found"
      /\ refusals' = IF used /\ refusals < MaxRefusals THEN refusals + 1 ELSE refusals
      /\ failures' = IF hashed /\ readable THEN failures ELSE failures + 1
      /\ UNCHANGED <<f, start, FAT, written, mio, placed>>
  BY DEF Probe
<1>2. /\ skip \in -1..10 /\ refusals \in 0..MaxRefusals /\ failures \in 0..MaxFailures
      /\ placed \in Seq(Blocks) /\ Len(placed) \in Nat /\ Len(placed) < M
      /\ skip + 1 = Len(placed) + refusals
  BY <1>1 DEF PlacementInv, Types, CountInv
<1>3. s = skip + 1 /\ s \in 0..10 /\ counter \in 0..(M + 9)
  <2>1. skip \in -1..10 /\ ~PastLast(s)
    BY <1>1, <1>2
  <2>2. s = skip + 1 /\ s \in 0..10
    BY <2>1 DEF NextSkip, PastLast
  <2>3. Len(placed) \in Nat /\ Len(placed) < M
    BY <1>2
  <2> HIDE DEF s
  <2> QED BY <2>2, <2>3
<1>4. /\ f \in Layouts /\ MaxClusters(f) # 0
  BY <1>1 DEF PlacementInv, LayoutInv, Running
<1>5. sector \in Nat \X Nat /\ (hashed => sector[1] < f.totalClusters)
  BY <1>3, <1>4, SectorType
<1>6. ~used /\ holds =>
        /\ sector[1] >= (start + 1) * PerSector(f)
        /\ LookedAt(sector[1]) \notin FAT
  <2>1. sector[1] \in Nat /\ start \in Nat /\ 0 \in FAT
    BY <1>5 DEF PlacementInv, Types, Reserved
  <2>2. used \in Answers(sector[1], readable)
    BY <1>1
  <2> QED BY <1>4, <2>1, <2>2, FreeAnswer
<1> HIDE DEF s, counter, sector, holds
<1>7. at' \in Probes
  <2>1. holds \in BOOLEAN
    BY DEF holds, HoldsFat, InFat
  <2> QED BY <1>1, <1>3, <1>5, <2>1 DEF Probes
<1>8. failures' \in 0..MaxFailures
  BY <1>1, <1>2 DEF MayFail
<1>9. Types'
  <2>1. refusals' \in 0..MaxRefusals /\ phase' \in Phases
    BY <1>1, <1>2 DEF MaxRefusals, Phases
  <2>2. s \in -1..10
    BY <1>3
  <2> QED BY <1>1, <1>7, <1>8, <2>1, <2>2 DEF PlacementInv, Types
<1>10. LayoutInv' /\ MetadataNeverPlaced'
  BY <1>1 DEF PlacementInv, LayoutInv, Idle, Running, MetadataNeverPlaced
<1>11. /\ at'.sector = sector /\ at'.counter = counter /\ at'.hashed = hashed
       /\ at'.holdsFat = holds
  BY <1>1
<1>12. CountInv'
  <2>1. refusals < MaxRefusals
    BY <1>2, <1>3 DEF MaxRefusals
  <2>2. counter = Len(placed) + skip + 1
    BY <1>2, <1>3 DEF counter
  <2>3. \A n \in DOMAIN placed : placed[n].at.counter < Len(placed) + skip + 1
    BY <1>1 DEF PlacementInv, CountInv
  <2>4. \A n \in DOMAIN placed : placed[n].at.counter \in Int
    <3>1. \A b \in Blocks : b.at.counter \in Int
      BY DEF Blocks, Probes
    <3>2. \A n \in DOMAIN placed : placed[n] \in Blocks
      BY <1>2, ElementOfSeq
    <3> QED BY <3>1, <3>2
  <2>5. \A n \in DOMAIN placed' :
          placed'[n].at.counter < Len(placed') + skip' + (IF phase' = "found" THEN 0 ELSE 1)
    <3> TAKE n \in DOMAIN placed'
    <3> DEFINE x == placed[n].at.counter
               bound == Len(placed) + skip + 1
    <3>1. x \in Int /\ x < bound /\ bound \in Int
      <4>1. n \in DOMAIN placed
        BY <1>1
      <4>2. Len(placed) + skip + 1 \in Int
        BY <1>2
      <4> QED BY <2>3, <2>4, <4>1, <4>2
    <3>2. placed'[n].at.counter = x /\ Len(placed') + skip' = bound
      BY <1>1, <1>2, <1>3
    <3> HIDE DEF x, bound
    <3>3. x < bound + 0 /\ x < bound + 1
      BY <3>1
    <3> QED BY <3>2, <3>3
  <2>6. \A n, j \in DOMAIN placed' : n < j => placed'[n].at.counter < placed'[j].at.counter
    BY <1>1 DEF PlacementInv, CountInv
  <2>7. CASE used
    BY <1>1, <1>2, <1>3, <2>1, <2>5, <2>6, <2>7 DEF CountInv
  <2>8. CASE ~used
    BY <1>1, <1>2, <1>3, <1>11, <2>2, <2>5, <2>6, <2>8 DEF CountInv
  <2> QED BY <2>7, <2>8
<1>13. FoundInv'
  BY <1>1, <1>6, <1>11 DEF PlacementInv, FoundInv, LookedAt
<1>14. LookInv'
  BY <1>1, <1>5, <1>11 DEF LookInv, Idle
<1> QED BY <1>9, <1>10, <1>12, <1>13, <1>14 DEF PlacementInv

LEMMA GiveUpStep ==
  ASSUME PlacementInv, GiveUp
  PROVE  PlacementInv'
<1>1. /\ phase = "probing" /\ phase' = "failed" /\ PastLast(NextSkip(skip))
      /\ UNCHANGED <<f, start, FAT, written, mio, skip, at, placed, refusals, taken, failures>>
  BY DEF GiveUp
<1>2. skip \in -1..10
  BY DEF PlacementInv, Types
<1>3. skip = 10
  BY <1>1, <1>2 DEF PastLast, NextSkip
<1>4. Types' /\ LayoutInv' /\ MetadataNeverPlaced'
  BY <1>1 DEF PlacementInv, Types, LayoutInv, Phases, Idle, Running, MetadataNeverPlaced
<1>5. CountInv'
  BY <1>1, <1>3 DEF PlacementInv, CountInv
<1>6. FoundInv' /\ LookInv'
  BY <1>1 DEF PlacementInv, FoundInv, LookInv, LookedAt, Idle
<1> QED BY <1>4, <1>5, <1>6 DEF PlacementInv

LEMMA SubmitStep ==
  ASSUME PlacementInv, Submit
  PROVE  PlacementInv'
<1> DEFINE b == [at |-> at, hit |-> Covered(at.sector) \cap FAT, taken |-> taken]
           m == Len(placed)
<1>1. /\ phase = "found" /\ placed' = Append(placed, b)
      /\ phase' = IF m + 1 = M THEN "placed" ELSE "probing"
      /\ skip' = skip
      /\ written' = written \cup {Absolute(at.sector)}
      /\ UNCHANGED <<f, start, FAT, mio, at, refusals, taken, failures>>
  BY DEF Submit, Carry
<1>2. /\ placed \in Seq(Blocks) /\ m \in Nat /\ m < M /\ skip \in -1..10
      /\ skip = m + refusals /\ at.counter = m + skip /\ refusals \in Nat
  BY <1>1 DEF PlacementInv, Types, CountInv
<1>3. b \in Blocks
  <2>1. Covered(at.sector) \cap FAT \subseteq Clusters
    BY DEF PlacementInv, Types
  <2>2. at \in Probes /\ taken \subseteq FsClusters
    BY DEF PlacementInv, Types
  <2> QED BY <2>1, <2>2 DEF Blocks
<1> HIDE DEF m
<1>4. /\ placed' \in Seq(Blocks) /\ Len(placed') = m + 1
      /\ DOMAIN placed' = DOMAIN placed \cup {m + 1}
      /\ \A n \in DOMAIN placed : n < m + 1 /\ placed'[n] = placed[n]
      /\ placed'[m + 1] = b
  <2>1. placed \in Seq(Blocks) /\ m = Len(placed)
    BY <1>2 DEF m
  <2> HIDE DEF b
  <2> QED BY <1>1, <1>2, <1>3, <2>1
<1>5. b.at = at /\ b.hit = Covered(at.sector) \cap FAT /\ b.taken = taken
  OBVIOUS
<1> HIDE DEF b
<1>6. phase' \in {"probing", "placed"}
  BY <1>1
<1>7. Types'
  <2>1. f.sectorsPerCluster \in Nat
    <3>1. f \in Layouts
      BY <1>1 DEF PlacementInv, LayoutInv
    <3>2. \A n \in ClusterSizes : n \in Nat
      BY DEF ClusterSizes
    <3> QED BY <3>1, <3>2, LayoutFacts
  <2>2. at.sector[1] \in Nat /\ at.sector[2] \in Nat
    BY DEF PlacementInv, Types, Probes
  <2>3. Absolute(at.sector) \in Nat
    BY <2>1, <2>2 DEF Absolute
  <2> QED BY <1>1, <1>4, <1>6, <2>3 DEF PlacementInv, Types, Phases
<1>8. LayoutInv' /\ MetadataNeverPlaced'
  BY <1>1, <1>6 DEF PlacementInv, LayoutInv, Idle, Running, MetadataNeverPlaced
<1>9. CountInv'
  <2>1. \A n \in DOMAIN placed : placed[n].at.counter < m + skip
    <3>1. \A n \in DOMAIN placed : placed[n].at.counter < m + skip + 0
      BY <1>1 DEF PlacementInv, CountInv, m
    <3>2. m + skip + 0 = m + skip
      BY <1>2
    <3> QED BY <3>1, <3>2
  <2>2. \A n \in DOMAIN placed : placed[n].at.counter \in Int
    <3>1. \A x \in Blocks : x.at.counter \in Int
      BY DEF Blocks, Probes
    <3>2. \A n \in DOMAIN placed : placed[n] \in Blocks
      BY <1>2, ElementOfSeq
    <3> QED BY <3>1, <3>2
  <2>3. \A n \in DOMAIN placed' :
          placed'[n].at.counter < Len(placed') + skip' + (IF phase' = "found" THEN 0 ELSE 1)
    <3>1. \A n \in DOMAIN placed' : placed'[n].at.counter \in Int /\ placed'[n].at.counter <= m + skip
      BY <1>2, <1>4, <1>5, <2>1, <2>2
    <3>2. Len(placed') + skip' + (IF phase' = "found" THEN 0 ELSE 1) = m + skip + 2
      <4>1. phase' # "found"
        BY <1>6
      <4>2. skip' = skip /\ Len(placed') = m + 1
        BY <1>1, <1>4
      <4> QED BY <1>2, <4>1, <4>2
    <3>3. m + skip \in Int
      BY <1>2
    <3> DEFINE bound == m + skip
    <3>4. \A x \in Int : x <= bound => x < bound + 2
      BY <3>3
    <3> QED BY <3>1, <3>2, <3>4
  <2>4. \A n, j \in DOMAIN placed' : n < j => placed'[n].at.counter < placed'[j].at.counter
    <3> TAKE n, j \in DOMAIN placed'
    <3> HAVE n < j
    <3>1. CASE j \in DOMAIN placed
      <4>1. n \in DOMAIN placed
        BY <1>2, <1>4, <3>1
      <4> QED BY <1>4, <3>1, <4>1 DEF PlacementInv, CountInv
    <3>2. CASE j = m + 1
      <4>1. n \in DOMAIN placed
        BY <1>2, <1>4, <3>2
      <4> QED BY <1>2, <1>4, <1>5, <2>1, <3>2, <4>1
    <3> QED BY <1>4, <3>1, <3>2
  <2>5. /\ Len(placed') <= M
        /\ phase' = "probing" => Len(placed') < M
        /\ skip' + 1 = Len(placed') + refusals'
    BY <1>1, <1>2, <1>4
  <2> QED BY <1>6, <2>3, <2>4, <2>5 DEF CountInv
<1>10. FoundInv'
  <2>1. at.holdsFat => /\ at.sector[1] >= (start + 1) * PerSector(f)
                       /\ LookedAt(at.sector[1]) \in FAT => LookedAt(at.sector[1]) \in taken
    BY <1>1 DEF PlacementInv, FoundInv
  <2>2. /\ \A c \in b.hit : \/ c \in b.taken
                            \/ c # LookedAt(b.at.sector[1])
                            \/ ~b.at.holdsFat
        /\ b.at.holdsFat => b.at.sector[1] >= (start + 1) * PerSector(f)
    BY <1>5, <2>1
  <2>3. \A n \in DOMAIN placed' :
          /\ \A c \in placed'[n].hit : \/ c \in placed'[n].taken
                                       \/ c # LookedAt(placed'[n].at.sector[1])
                                       \/ ~placed'[n].at.holdsFat
          /\ placed'[n].at.holdsFat => placed'[n].at.sector[1] >= (start + 1) * PerSector(f)
    BY <1>4, <2>2 DEF PlacementInv, FoundInv
  <2> QED BY <1>1, <1>6, <2>3 DEF FoundInv, LookedAt
<1>11. LookInv'
  BY <1>1, <1>6 DEF PlacementInv, LookInv, Idle
<1> QED BY <1>7, <1>8, <1>9, <1>10, <1>11 DEF PlacementInv

LEMMA PlacementStep == PlacementInv /\ [Next]_vars => PlacementInv'
<1> SUFFICES ASSUME PlacementInv, [Next]_vars PROVE PlacementInv'
  OBVIOUS
<1>1. ASSUME NEW h \in Headers, NEW sector \in Starts,
             NEW readable \in BOOLEAN, NEW hashed \in BOOLEAN,
             MayFail(hashed, readable), Load(h, sector, readable, hashed)
      PROVE  PlacementInv'
  BY <1>1, LoadStep
<1>2. ASSUME NEW c \in FsClusters, Take(c) \/ GiveBack(c)
      PROVE  PlacementInv'
  BY <1>2, FileSystemStep
<1>3. ASSUME NEW stop \in [1..M -> 0..10], PlaceMetadata(stop)
      PROVE  PlacementInv'
  BY <1>3, PlaceMetadataStep
<1>7. CASE PlaceMetadataOops
  BY <1>7, PlaceMetadataStep
<1>4. ASSUME NEW blocks \in Earlier, Write(blocks)
      PROVE  PlacementInv'
  BY <1>4, WriteStep
<1>5. CASE Search
  BY <1>5, ProbeStep, GiveUpStep, SubmitStep DEF Search
<1>6. CASE UNCHANGED vars
  BY <1>6 DEF vars, PlacementInv, Types, LayoutInv, CountInv, FoundInv, LookInv,
              MetadataNeverPlaced, LookedAt
<1> QED BY <1>1, <1>2, <1>3, <1>4, <1>5, <1>6, <1>7 DEF Next

LEMMA AlwaysPlacementInv == Spec => []PlacementInv
BY PlacementInit, PlacementStep, PTL DEF Spec
-----------------------------------------------------------------------------
(* A block reaches into a cluster in use only if the file system took it   *)
(* after the probe, if the entry looked at was another one's, which the    *)
(* driver's numbering and the start of the file system decide, or if none  *)
(* of the FAT was; and no block that the FAT answered for goes below the   *)
(* clusters whose entries are in its first sector (fs_fat.c:81-82, 98-120, *)
(* workqueue.c:188-221).                                                   *)
THEOREM OverwritesAreExplained == Spec => []OverwritesExplained
<1>1. PlacementInv => OverwritesExplained
  BY DEF PlacementInv, FoundInv, OverwritesExplained
<1> QED BY <1>1, AlwaysPlacementInv, PTL

(* The carrier blocks of a WRITE share eleven probes, one that fails has   *)
(* made them all, and the blocks come in the order of their counters       *)
(* (workqueue.c:186-200).                                                  *)
THEOREM ProbesAreShared == Spec => []ProbesShared
<1>1. PlacementInv => ProbesShared
  <2> SUFFICES ASSUME PlacementInv PROVE ProbesShared
    OBVIOUS
  <2>1. TypeOK
    BY DEF PlacementInv, Types, CountInv, TypeOK, Phases, Clusters, Probes, Sectors
  <2>2. /\ Len(placed) \in Nat /\ refusals \in Nat /\ skip \in -1..10 /\ phase \in Phases
        /\ phase \in Idle => placed = <<>> /\ refusals = 0
    BY DEF PlacementInv, Types, LayoutInv, MaxRefusals
  <2>3. Len(placed) + refusals <= 11 /\ (phase = "failed" => Len(placed) + refusals = 11)
    BY <2>2 DEF PlacementInv, CountInv, Phases, Idle
  <2> QED BY <2>1, <2>3 DEF PlacementInv, CountInv, ProbesShared
<1> QED BY <1>1, AlwaysPlacementInv, PTL

(* Whatever the hash and the header of the carrier, a look for a cluster   *)
(* of the sequence goes to the FAT exactly if the file system begins no    *)
(* more sectors after the device than the lookup goes into the FAT; and    *)
(* what ends in a division by zero is a carrier without a FAT, or one with *)
(* 2^25 clusters (utility.c:441-453, fs_fat.c:32, 93-110, target.c:153,    *)
(* 178).                                                                   *)
THEOREM LookupStaysInside == Spec => []LookupInsideFat
<1>1. PlacementInv => LookupInsideFat
  <2> SUFFICES ASSUME PlacementInv PROVE LookupInsideFat
    OBVIOUS
  <2>1. ASSUME at.hashed
        PROVE  InFat(f, start, LookupSector(f, at.sector[1]))
                 <=> start <= EntryOffset(f, at.sector[1]) \div SECTOR_SIZE
    <3>1. f \in Layouts /\ at.sector[1] < f.totalClusters
      BY <2>1 DEF PlacementInv, LookInv, LayoutInv, Idle
    <3>2. at.sector[1] \in Nat /\ start \in Nat
      BY DEF PlacementInv, Types, Probes
    <3> QED BY <3>1, <3>2, LookupIndex
  <2>2. phase = "oops" => f.bytesPerCluster = 0 \/ f.fatSize = 0 \/ f.totalClusters >= 2 ^ 25
    BY MaxClustersFacts DEF PlacementInv, LayoutInv
  <2> QED BY <2>1, <2>2 DEF LookupInsideFat
<1> QED BY <1>1, AlwaysPlacementInv, PTL

(* No sector of the sequence reaches a bio of the metadata: the carrier's  *)
(* stay at the start of the device, the entropy device's get their own     *)
(* (integrity.c:85-124).                                                   *)
THEOREM MetadataIsNeverPlaced == Spec => []MetadataNeverPlaced
<1>1. PlacementInv => MetadataNeverPlaced
  BY DEF PlacementInv
<1> QED BY <1>1, AlwaysPlacementInv, PTL
=============================================================================
