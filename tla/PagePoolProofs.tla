---------------------------- MODULE PagePoolProofs ----------------------------
(***************************************************************************)
(* Theorems about PagePool, for any finite number of overlapping requests, *)
(* every shape of a target, size of a bio and size of the pool: the types, *)
(* that no page is lost or shared, and what it takes for all requests to   *)
(* wait for each other.                                                    *)
(***************************************************************************)
EXTENDS PagePool, FiniteSetTheorems, TLAPS

USE PagePoolAssumption

(* The most pages a request may own. *)
Most == (IoBios + MetaBios) * BioPages

Quota == [r \in Requests |-> Pages(r)]

(* The pages of all requests, if r owns q[r] of them. *)
Held(q) == {p \in Requests \X (1 .. Most) : p[2] <= q[p[1]]}

LEMMA TimesMonotone ==
  ASSUME NEW x \in Nat, NEW y \in Nat, x <= y
  PROVE  x * BioPages \in Nat /\ x * BioPages <= y * BioPages
<1>1. (y - x) * BioPages >= 0
  OBVIOUS
<1>2. y * BioPages = x * BioPages + (y - x) * BioPages
  OBVIOUS
<1> QED BY <1>1, <1>2

LEMMA MostNat == Most \in Nat /\ IoBios \in Nat /\ MetaBios \in Nat
BY TimesMonotone DEF Most, IoBios, MetaBios

LEMMA HeldFinite == \A q : IsFiniteSet(Held(q))
<1> DEFINE top == Most
<1>1. top \in Int
  BY MostNat
<1>2. Requests \X (1 .. top) = Requests \X (1 .. Most)
  OBVIOUS
<1> HIDE DEF top
<1>3. IsFiniteSet(1 .. top)
  BY <1>1, FS_Interval
<1>4. IsFiniteSet(Requests)
  OBVIOUS
<1>5. IsFiniteSet(Requests \X (1 .. top))
  BY <1>3, <1>4, FS_Product
<1>6. \A q : Held(q) \subseteq Requests \X (1 .. top)
  BY <1>2 DEF Held
<1> QED BY <1>5, <1>6, FS_Subset

LEMMA RowSize ==
  ASSUME NEW r, NEW a \in Nat, NEW b \in Nat, a <= b
  PROVE  IsFiniteSet({r} \X (a + 1 .. b)) /\ Cardinality({r} \X (a + 1 .. b)) = b - a
<1>1. IsFiniteSet({r}) /\ Cardinality({r}) = 1
  BY FS_Singleton
<1> DEFINE c == a + 1
<1>2. c \in Int /\ b - c + 1 = b - a /\ (c > b => b - a = 0)
  OBVIOUS
<1> HIDE DEF c
<1>3. IsFiniteSet(c .. b) /\ Cardinality(c .. b) = b - a
  BY <1>2, FS_Interval
<1>4. IsFiniteSet({r} \X (c .. b)) /\ Cardinality({r} \X (c .. b)) = 1 * (b - a)
  <2>1. PICK S : S = c .. b /\ IsFiniteSet(S) /\ Cardinality(S) = b - a
    BY <1>3
  <2>2. IsFiniteSet({r} \X S) /\ Cardinality({r} \X S) = Cardinality({r}) * Cardinality(S)
    BY <1>1, <2>1, FS_Product
  <2> QED BY <1>1, <2>1, <2>2
<1> QED BY <1>4 DEF c

LEMMA HeldGrows ==
  ASSUME NEW q \in [Requests -> 0 .. Most], NEW r \in Requests, NEW b \in 0 .. Most, q[r] <= b
  PROVE  Cardinality(Held([q EXCEPT ![r] = b])) = Cardinality(Held(q)) + b - q[r]
<1> DEFINE row == {r} \X (q[r] + 1 .. b)
<1> USE MostNat
<1>1. Held([q EXCEPT ![r] = b]) = Held(q) \cup row
  BY DEF Held
<1>2. Held(q) \cap row = {}
  BY DEF Held
<1>0. q[r] \in Nat /\ b \in Nat
  OBVIOUS
<1>3. IsFiniteSet(row) /\ Cardinality(row) = b - q[r]
  BY <1>0, RowSize
<1>4. Cardinality(Held(q) \cup row) = Cardinality(Held(q)) + Cardinality(row) - Cardinality({})
  BY <1>2, <1>3, HeldFinite, FS_Union
<1>5. Cardinality(Held(q)) \in Nat
  BY HeldFinite, FS_CardinalityType
<1>6. Cardinality({}) = 0
  BY FS_EmptySet
<1> HIDE DEF row
<1>7. Cardinality(Held(q) \cup row) = Cardinality(Held(q)) + b - q[r]
  BY <1>0, <1>3, <1>4, <1>5, <1>6
<1> QED BY <1>1, <1>7

(* When one request takes or returns pages, the total changes by as many. *)
LEMMA HeldChanges ==
  ASSUME NEW q \in [Requests -> 0 .. Most], NEW r \in Requests, NEW b \in 0 .. Most
  PROVE  Cardinality(Held([q EXCEPT ![r] = b])) = Cardinality(Held(q)) + b - q[r]
<1> USE MostNat
<1>1. CASE q[r] <= b
  BY <1>1, HeldGrows
<1>2. CASE b <= q[r]
  <2> DEFINE p == [q EXCEPT ![r] = b]
  <2>1. p \in [Requests -> 0 .. Most] /\ p[r] = b /\ q = [p EXCEPT ![r] = q[r]]
    OBVIOUS
  <2> HIDE DEF p
  <2>2. Cardinality(Held(q)) = Cardinality(Held(p)) + q[r] - b
    BY <1>2, <2>1, HeldGrows
  <2>3. Cardinality(Held(p)) \in Nat /\ Cardinality(Held(q)) \in Nat
    BY HeldFinite, FS_CardinalityType
  <2>4. Cardinality(Held(p)) = Cardinality(Held(q)) + b - q[r]
    BY <2>2, <2>3
  <2> QED BY <2>4 DEF p
<1> QED BY <1>1, <1>2

LEMMA QuotaType ==
  ASSUME bios \in [Requests -> 0..IoBios], meta \in [Requests -> 0..MetaBios]
  PROVE  Quota \in [Requests -> 0 .. Most] /\ Owned = Held(Quota)
<1>1. \A r \in Requests : Pages(r) \in 0 .. Most
  <2> TAKE r \in Requests
  <2>1. bios[r] + meta[r] \in Nat /\ bios[r] + meta[r] <= IoBios + MetaBios
    BY MostNat
  <2> QED BY <2>1, MostNat, TimesMonotone DEF Pages, Most
<1>2. Quota \in [Requests -> 0 .. Most]
  BY <1>1 DEF Quota
<1>3. Owned = Held(Quota)
  BY DEF Owned, Held, Quota, Most
<1> QED BY <1>2, <1>3
-----------------------------------------------------------------------------
(* The inductive invariant: who holds the lock still has a bio to fill,    *)
(* the bios a request has go with its stage, and every page is accounted   *)
(* for.                                                                    *)
LockInv ==
  /\ holder = nobody => part = 0
  /\ holder # nobody => Wants(holder)

StageInv ==
  /\ \A r \in Requests :
       /\ stage[r] \in {"idle", "queued"} => bios[r] = 0
       /\ stage[r] \in {"reading", "update", "writing"} => bios[r] = IoBios
       /\ stage[r] # "update" => meta[r] = 0
       /\ stage[r] = "update" => i[r] < M
  /\ \A r \in Requests : stage[r] \in {"queued", "worker"} => cpu[r] \in Cpus
  /\ \A r, s \in Requests :
       stage[r] = "worker" /\ stage[s] = "worker" /\ cpu[r] = cpu[s] => r = s

PoolInv ==
  /\ PagesConserved
  /\ LockInv
  /\ StageInv

LEMMA PoolInvInit == PoolInit => PoolInv
<1> SUFFICES ASSUME PoolInit PROVE PoolInv
  OBVIOUS
<1> USE MostNat DEF PoolInit
<1>1. \A r \in Requests : Pages(r) = 0
  BY DEF Pages
<1>2. Owned = {}
  BY <1>1 DEF Owned, Most
<1>3. Cardinality({}) = 0
  BY FS_EmptySet
<1>4. PoolTypeOK
  BY DEF PoolTypeOK
<1>5. LockInv /\ StageInv
  BY DEF LockInv, StageInv
<1> QED BY <1>2, <1>3, <1>4, <1>5 DEF PoolInv, PagesConserved

(* Nobody's pages change: only the lock or a stage. *)
LEMMA OwnedSame ==
  ASSUME UNCHANGED <<bios, meta>>
  PROVE  Owned' = Owned
BY DEF Owned, Pages

LEMMA OwnedChanges ==
  ASSUME PoolTypeOK, NEW r \in Requests, NEW b \in 0 .. IoBios, NEW m \in 0 .. MetaBios,
         bios' = [bios EXCEPT ![r] = b], meta' = [meta EXCEPT ![r] = m]
  PROVE  /\ Cardinality(Owned) \in Nat /\ Cardinality(Owned)' \in Nat
         /\ Cardinality(Owned)' = Cardinality(Owned) + (b + m) * BioPages - Pages(r)
<1> USE MostNat
<1>1. Quota \in [Requests -> 0 .. Most] /\ Owned = Held(Quota)
  BY QuotaType DEF PoolTypeOK
<1>2. (b + m) * BioPages \in 0 .. Most
  BY TimesMonotone DEF Most
<1>3. Quota' = [Quota EXCEPT ![r] = (b + m) * BioPages]
  BY DEF Quota, Pages, PoolTypeOK
<1>4. Owned' = Held([Quota EXCEPT ![r] = (b + m) * BioPages])
  BY <1>3 DEF Owned, Held, Quota, Most
<1>5. Cardinality(Owned) \in Nat /\ Cardinality(Owned)' \in Nat
  BY <1>1, <1>4, HeldFinite, FS_CardinalityType
<1>6. Cardinality(Owned)' = Cardinality(Held(Quota)) + (b + m) * BioPages - Quota[r]
  BY <1>1, <1>2, <1>4, HeldChanges
<1> QED BY <1>1, <1>5, <1>6 DEF Quota

(* MapWrite, Lock, StartWorker, WorkerEnd and EntropyRead move no page. *)
LEMMA QuietStep ==
  ASSUME PoolInv, NEW r \in Requests,
         MapWrite(r) \/ Lock(r) \/ StartWorker(r) \/ WorkerEnd(r) \/ EntropyRead(r),
         UNCHANGED poolSize
  PROVE  PoolInv'
<1> USE MostNat DEF PoolInv, PagesConserved, PoolTypeOK, LockInv, StageInv, Wants
<1>1. Owned' = Owned
  BY OwnedSame DEF MapWrite, Lock, StartWorker, WorkerEnd, EntropyRead
<1>2. CASE MapWrite(r)
  BY <1>1, <1>2 DEF MapWrite
<1>3. CASE Lock(r)
  BY <1>1, <1>3 DEF Lock
<1>4. CASE StartWorker(r)
  BY <1>1, <1>4 DEF StartWorker, OneAtATime
<1>5. CASE WorkerEnd(r)
  BY <1>1, <1>5 DEF WorkerEnd
<1>6. CASE EntropyRead(r)
  BY <1>1, <1>6 DEF EntropyRead
<1> QED BY <1>2, <1>3, <1>4, <1>5, <1>6

LEMMA TakePageStep ==
  ASSUME PoolInv, NEW r \in Requests, TakePage(r), UNCHANGED poolSize
  PROVE  PoolInv'
<1>1. Owned' = Owned
  BY OwnedSame DEF TakePage
<1> QED BY <1>1 DEF PoolInv, PagesConserved, PoolTypeOK, LockInv, StageInv, Wants, TakePage

(* The bio that is complete has exactly the pages of the allocation. *)
LEMMA UnlockStep ==
  ASSUME PoolInv, NEW r \in Requests, Unlock(r), UNCHANGED poolSize
  PROVE  PoolInv'
<1> DEFINE b == IF stage[r] = "worker" THEN bios[r] + 1 ELSE bios[r]
           m == IF stage[r] = "worker" THEN meta[r] ELSE meta[r] + 1
<1> USE MostNat
<1>1. Wants(r) /\ bios[r] \in 0 .. IoBios /\ meta[r] \in 0 .. MetaBios
  BY DEF PoolInv, PagesConserved, PoolTypeOK, LockInv, Unlock
<1>2. b \in 0 .. IoBios /\ m \in 0 .. MetaBios /\ b + m = bios[r] + meta[r] + 1
  BY <1>1 DEF Wants
<1>3. bios' = [bios EXCEPT ![r] = b] /\ meta' = [meta EXCEPT ![r] = m]
  BY DEF Unlock, PoolInv, PagesConserved, PoolTypeOK
<1> HIDE DEF b, m
<1>4. PoolTypeOK
  BY DEF PoolInv, PagesConserved
<1>5. Cardinality(Owned)' = Cardinality(Owned) + (b + m) * BioPages - Pages(r)
  BY <1>2, <1>3, <1>4, OwnedChanges
<1>6. (b + m) * BioPages = Pages(r) + BioPages /\ Pages(r) \in Nat
  BY <1>1, <1>2, TimesMonotone DEF Pages
<1>7. Cardinality(Owned) \in Nat
  BY <1>2, <1>3, <1>4, OwnedChanges
<1>8. Cardinality(Owned)' = Cardinality(Owned) + BioPages
  BY <1>5, <1>6, <1>7
<1>9. PagesConserved'
  <2>1. PoolTypeOK'
    BY <1>2, <1>3, <1>4 DEF PoolTypeOK, Unlock
  <2>2. free' = free /\ part = BioPages /\ part' = 0
    BY DEF Unlock
  <2>3. free + part + Cardinality(Owned) = poolSize /\ free \in Nat
    BY <1>4 DEF PoolInv, PagesConserved, PoolTypeOK
  <2> QED BY <1>7, <1>8, <2>1, <2>2, <2>3 DEF PagesConserved
<1>10. LockInv'
  BY DEF LockInv, Unlock
<1>11. StageInv'
  <2>1. stage' = stage /\ cpu' = cpu /\ i' = i
    BY DEF Unlock
  <2>2. stage[r] \in {"worker", "update"}
    BY <1>1 DEF Wants
  <2>3. stage[r] # "worker" => bios' = bios
    BY <1>4 DEF Unlock, PoolTypeOK
  <2>4. stage[r] # "update" => meta' = meta
    BY <1>4, <2>2 DEF Unlock, PoolTypeOK
  <2> QED BY <1>3, <1>4, <2>1, <2>2, <2>3, <2>4 DEF StageInv, PoolInv, PoolTypeOK
<1> QED BY <1>9, <1>10, <1>11 DEF PoolInv

(* free_metadata_io returns what the update took. *)
LEMMA UpdateEndStep ==
  ASSUME PoolInv, NEW r \in Requests, UpdateEnd(r), UNCHANGED poolSize
  PROVE  PoolInv'
<1> USE MostNat
<1>1. PoolTypeOK /\ bios[r] \in 0 .. IoBios /\ meta[r] \in 0 .. MetaBios
  BY DEF PoolInv, PagesConserved, PoolTypeOK
<1> DEFINE left == bios[r]
<1>0. 0 \in 0 .. IoBios /\ 0 \in 0 .. MetaBios /\ left \in 0 .. IoBios
  BY <1>1
<1>2. bios' = [bios EXCEPT ![r] = left] /\ meta' = [meta EXCEPT ![r] = 0]
  BY <1>1 DEF UpdateEnd, PoolTypeOK
<1> HIDE DEF left
<1>3. Cardinality(Owned)' = Cardinality(Owned) + (left + 0) * BioPages - Pages(r)
  BY <1>0, <1>1, <1>2, OwnedChanges
<1>5. Cardinality(Owned) \in Nat /\ Cardinality(Owned)' \in Nat
  BY <1>0, <1>1, <1>2, OwnedChanges
<1>6. left + 0 = bios[r]
  BY <1>1 DEF left
<1>4. /\ Pages(r) = bios[r] * BioPages + meta[r] * BioPages
      /\ bios[r] * BioPages \in Nat /\ meta[r] * BioPages \in Nat
  <2>1. bios[r] \in Nat /\ meta[r] \in Nat
    BY <1>1
  <2>2. \A x \in Nat : x * BioPages \in Nat
    BY TimesMonotone
  <2> QED BY <2>1, <2>2 DEF Pages
<1>7. Cardinality(Owned)' = Cardinality(Owned) - meta[r] * BioPages
  BY <1>3, <1>4, <1>5, <1>6
<1>8. /\ free' = free + meta[r] * BioPages /\ part' = part
      /\ free + part + Cardinality(Owned) = poolSize
      /\ free \in Nat /\ part \in Nat /\ poolSize \in Nat /\ poolSize' = poolSize
  BY DEF UpdateEnd, FreeMetadata, PoolInv, PagesConserved, PoolTypeOK
<1>9. free' \in 0 .. poolSize /\ free' + part' + Cardinality(Owned)' = poolSize'
  BY <1>4, <1>5, <1>7, <1>8
<1>10. stage[r] = "update" /\ i[r] < M /\ i[r] \in Nat
  BY <1>1 DEF UpdateEnd, PoolInv, StageInv, PoolTypeOK
<1>11. PoolTypeOK'
  BY <1>1, <1>2, <1>9, <1>10 DEF PoolTypeOK, UpdateEnd, NextBlock, MoreBlocks
<1>12. LockInv'
  BY <1>1, <1>10 DEF PoolInv, LockInv, Wants, UpdateEnd, PoolTypeOK
<1>13. StageInv'
  BY <1>1, <1>10 DEF PoolInv, StageInv, UpdateEnd, NextBlock, MoreBlocks, PoolTypeOK
<1> QED BY <1>9, <1>11, <1>12, <1>13 DEF PoolInv, PagesConserved

LEMMA AnswerStep ==
  ASSUME PoolInv, NEW r \in Requests, Answer(r), UNCHANGED poolSize
  PROVE  PoolInv'
<1> USE MostNat
<1>1. PoolTypeOK /\ bios[r] \in 0 .. IoBios /\ meta[r] = 0 /\ stage[r] = "writing"
  BY DEF PoolInv, PagesConserved, PoolTypeOK, StageInv, Answer
<1>2. bios' = [bios EXCEPT ![r] = 0] /\ meta' = [meta EXCEPT ![r] = 0]
  BY <1>1 DEF Answer, PoolTypeOK
<1>0. 0 \in 0 .. IoBios /\ 0 \in 0 .. MetaBios
  OBVIOUS
<1>3. Cardinality(Owned)' = Cardinality(Owned) + (0 + 0) * BioPages - Pages(r)
  BY <1>0, <1>1, <1>2, OwnedChanges
<1>4. Pages(r) = bios[r] * BioPages /\ bios[r] * BioPages \in Nat
  <2>1. bios[r] + meta[r] = bios[r]
    BY <1>1
  <2> QED BY <1>1, <2>1, TimesMonotone DEF Pages
<1>5. Cardinality(Owned) \in Nat /\ Cardinality(Owned)' \in Nat
  BY <1>0, <1>1, <1>2, OwnedChanges
<1>6. (0 + 0) * BioPages = 0
  OBVIOUS
<1>7. Cardinality(Owned)' = Cardinality(Owned) - bios[r] * BioPages
  BY <1>3, <1>4, <1>5, <1>6
<1>8. /\ free' = free + bios[r] * BioPages /\ part' = part
      /\ free + part + Cardinality(Owned) = poolSize
      /\ free \in Nat /\ part \in Nat /\ poolSize \in Nat /\ poolSize' = poolSize
  BY DEF Answer, PoolInv, PagesConserved, PoolTypeOK
<1>9. free' \in 0 .. poolSize /\ free' + part' + Cardinality(Owned)' = poolSize'
  BY <1>4, <1>5, <1>7, <1>8
<1>10. PoolTypeOK'
  BY <1>1, <1>9 DEF PoolTypeOK, Answer
<1>11. LockInv'
  BY <1>1 DEF PoolInv, LockInv, Wants, Answer, PoolTypeOK
<1>12. StageInv'
  BY <1>1 DEF PoolInv, StageInv, Answer, PoolTypeOK
<1> QED BY <1>9, <1>10, <1>11, <1>12 DEF PoolInv, PagesConserved

LEMMA PoolInvStep == PoolInv /\ [PoolNext]_poolVars => PoolInv'
<1> SUFFICES ASSUME PoolInv, [PoolNext]_poolVars PROVE PoolInv'
  OBVIOUS
<1>1. CASE UNCHANGED poolVars
  <2>1. Owned' = Owned
    BY <1>1, OwnedSame DEF poolVars
  <2> QED BY <1>1, <2>1 DEF poolVars, PoolInv, PagesConserved, PoolTypeOK, LockInv, StageInv, Wants
<1>2. CASE PoolNext
  <2> PICK r \in Requests : MapWrite(r) \/ Lock(r) \/ Serve(r)
    BY <1>2 DEF PoolNext
  <2>1. UNCHANGED poolSize
    BY <1>2 DEF PoolNext
  <2> QED BY <2>1, QuietStep, TakePageStep, UnlockStep, UpdateEndStep, AnswerStep DEF Serve
<1> QED BY <1>1, <1>2

(* Every page is in the pool, in the bio under construction or with exactly *)
(* one request, whatever requests overlap (utility.c:131-189).             *)
THEOREM PagesAreConserved == PoolSpec => []PagesConserved
<1>1. PoolInv => PagesConserved
  BY DEF PoolInv
<1> QED BY <1>1, PoolInvInit, PoolInvStep, PTL DEF PoolSpec
-----------------------------------------------------------------------------
(* What it takes to be stuck: somebody holds the lock and finds the pool   *)
(* empty, and nobody has an I/O in flight.                                 *)
LEMMA StuckHolder ==
  ASSUME PoolInv, Stuck
  PROVE  /\ holder \in Requests /\ Wants(holder)
         /\ part < BioPages /\ free = 0
         /\ \A r \in Requests : stage[r] \notin {"reading", "writing"}
         /\ \A r \in Requests : stage[r] = "update" => Wants(r)
<1> USE DEF PoolInv, PagesConserved, PoolTypeOK
<1>1. \A r \in Requests : stage[r] # "idle" => Blocked(r)
  BY DEF Stuck, Active
<1>2. PICK r \in Requests : stage[r] # "idle"
  BY DEF Stuck, Active
<1>3. holder # nobody
  <2>1. CASE stage[r] = "queued" /\ ~OneAtATime(r)
    <3> PICK s \in Requests : stage[s] = "worker"
      BY <2>1 DEF OneAtATime
    <3> QED BY <1>1 DEF Blocked
  <2>2. CASE ~(stage[r] = "queued" /\ ~OneAtATime(r))
    BY <1>1, <1>2, <2>2 DEF Blocked
  <2> QED BY <2>1, <2>2
<1>4. holder \in Requests /\ Wants(holder)
  BY <1>3 DEF LockInv
<1>5. part < BioPages /\ free = 0
  BY <1>1, <1>4 DEF Blocked, Wants
<1>6. \A s \in Requests : stage[s] \notin {"reading", "writing"}
  BY <1>1 DEF Blocked, Wants
<1>7. \A s \in Requests : stage[s] = "update" => Wants(s)
  BY <1>1 DEF Blocked
<1> QED BY <1>4, <1>5, <1>6, <1>7

(* Then nobody has all bios of an update, and who has a page has a bio.    *)
LEMMA StuckShort ==
  ASSUME PoolInv, Stuck
  PROVE  \A r \in Requests :
           /\ bios[r] + meta[r] \in 0 .. (IoBios + MetaBios - 1)
           /\ bios[r] = 0 => meta[r] = 0
<1> TAKE r \in Requests
<1> USE MostNat
<1>1. /\ bios[r] \in 0 .. IoBios /\ meta[r] \in 0 .. MetaBios
      /\ stage[r] \in {"idle", "queued", "worker", "reading", "update", "writing"}
      /\ stage[r] # "update" => meta[r] = 0
      /\ stage[r] = "update" => bios[r] = IoBios
  BY DEF PoolInv, PagesConserved, PoolTypeOK, StageInv
<1>2. IoBios >= 1 /\ MetaBios >= 1
  BY DEF IoBios, MetaBios
<1>3. CASE stage[r] = "update"
  <2>1. meta[r] < MetaBios
    BY <1>3, StuckHolder DEF Wants
  <2> QED BY <1>1, <1>2, <1>3, <2>1
<1>4. CASE stage[r] # "update"
  BY <1>1, <1>2, <1>4
<1> QED BY <1>3, <1>4

(* The pages requests in R own, if none of them has all its bios.          *)
LEMMA RowsBound ==
  ASSUME NEW R, IsFiniteSet(R), NEW c \in Nat, NEW N \in Nat, Cardinality(R) = N,
         \A p \in Owned : p \in R \X (1 .. c)
  PROVE  Cardinality(Owned) <= N * c
<1>1. IsFiniteSet(1 .. c) /\ Cardinality(1 .. c) = c
  <2> DEFINE one == 1
  <2>1. one \in Int /\ c \in Int /\ (one > c => c = 0) /\ c - one + 1 = c
    OBVIOUS
  <2>2. one = 1
    OBVIOUS
  <2> HIDE DEF one
  <2>3. IsFiniteSet(one .. c) /\ Cardinality(one .. c) = IF one > c THEN 0 ELSE c - one + 1
    BY <2>1, FS_Interval
  <2> QED BY <2>1, <2>2, <2>3
<1>2. IsFiniteSet(R \X (1 .. c)) /\ Cardinality(R \X (1 .. c)) = N * c
  BY <1>1, FS_Product
<1>3. Owned \subseteq R \X (1 .. c)
  OBVIOUS
<1> QED BY <1>2, <1>3, FS_Subset

LEMMA StuckPages ==
  ASSUME PoolInv, Stuck
  PROVE  /\ (IoBios + MetaBios - 1) * BioPages \in Nat
         /\ \A p \in Owned : /\ bios[p[1]] > 0
                             /\ p \in Requests \X (1 .. (IoBios + MetaBios - 1) * BioPages)
         /\ Cardinality(Owned) \in Nat
         /\ Cardinality(Owned) > poolSize - BioPages
<1> USE MostNat
<1> DEFINE c == IoBios + MetaBios - 1
<1>1. c \in Nat
  BY DEF IoBios, MetaBios
<1>2. c * BioPages \in Nat
  BY <1>1, TimesMonotone
<1>3. ASSUME NEW p \in Owned
      PROVE  bios[p[1]] > 0 /\ p \in Requests \X (1 .. c * BioPages)
  <2>1. /\ p \in Requests \X (1 .. (IoBios + MetaBios) * BioPages)
        /\ p[2] <= Pages(p[1])
    BY DEF Owned
  <2> DEFINE r == p[1]
             n == bios[r] + meta[r]
  <2>2. r \in Requests /\ p[2] \in Nat /\ p[2] >= 1 /\ p = <<r, p[2]>>
    BY <2>1, MostNat DEF Most
  <2>3. n \in 0 .. c /\ bios[r] \in Nat /\ meta[r] \in Nat /\ (bios[r] = 0 => meta[r] = 0)
    BY <2>2, StuckShort DEF PoolInv, PagesConserved, PoolTypeOK
  <2>4. n * BioPages \in Nat /\ n * BioPages <= c * BioPages
    BY <1>1, <2>3, TimesMonotone
  <2>5. p[2] <= n * BioPages
    BY <2>1 DEF Pages
  <2>6. p[2] \in 1 .. c * BioPages
    BY <1>2, <2>2, <2>4, <2>5
  <2>7. bios[r] # 0
    <3> SUFFICES ASSUME bios[r] = 0 PROVE FALSE
      OBVIOUS
    <3>1. n = 0
      BY <2>3
    <3>2. n * BioPages = 0
      BY <3>1
    <3> HIDE DEF n
    <3> QED BY <2>2, <2>5, <3>2
  <2> QED BY <2>2, <2>3, <2>6, <2>7
<1>4. Cardinality(Owned) \in Nat
  BY QuotaType, HeldFinite, FS_CardinalityType DEF PoolInv, PagesConserved, PoolTypeOK
<1>5. free = 0 /\ part < BioPages /\ part \in Nat /\ poolSize \in Nat
  BY StuckHolder DEF PoolInv, PagesConserved, PoolTypeOK
<1>6. free + part + Cardinality(Owned) = poolSize
  BY DEF PoolInv, PagesConserved
<1>7. Cardinality(Owned) > poolSize - BioPages
  BY <1>4, <1>5, <1>6
<1> QED BY <1>2, <1>3, <1>4, <1>7

LEMMA StuckIsShort ==
  ASSUME PoolInv, Stuck
  PROVE  ~Sufficient
<1> DEFINE a == IoBios + MetaBios - 1
           N == Cardinality(Requests)
<1>1. a \in Nat /\ N \in Nat
  BY MostNat, FS_CardinalityType DEF IoBios, MetaBios
<1> HIDE DEF a, N
<1>2. Cardinality(Owned) <= N * (a * BioPages)
  <2>1. a * BioPages \in Nat /\ \A p \in Owned : p \in Requests \X (1 .. a * BioPages)
    BY StuckPages DEF a
  <2>2. Cardinality(Requests) = N
    BY DEF N
  <2> DEFINE c == a * BioPages
  <2> HIDE DEF c
  <2>3. c \in Nat /\ \A p \in Owned : p \in Requests \X (1 .. c)
    BY <2>1 DEF c
  <2>4. Cardinality(Owned) <= N * c
    BY <1>1, <2>2, <2>3, RowsBound
  <2> QED BY <2>4 DEF c
<1>3. (N * a + 1) * BioPages = N * (a * BioPages) + BioPages
  BY <1>1
<1>4. N * (a * BioPages) \in Nat
  BY <1>1
<1>5. poolSize \in Nat /\ Cardinality(Owned) \in Nat /\ Cardinality(Owned) > poolSize - BioPages
  BY StuckPages DEF PoolInv, PagesConserved, PoolTypeOK
<1>6. ~(poolSize >= (N * a + 1) * BioPages)
  BY <1>2, <1>3, <1>4, <1>5
<1> QED BY <1>6 DEF Sufficient, a, N

(* A request that is alone with its pages has not even those of its update. *)
LEMMA StuckTogether ==
  ASSUME PoolInv, Stuck, poolSize >= (IoBios + MetaBios) * BioPages
  PROVE  Cardinality({r \in Requests : bios[r] > 0}) >= 2
<1> DEFINE S == {r \in Requests : bios[r] > 0}
           a == IoBios + MetaBios - 1
           c == a * BioPages
<1>1. IsFiniteSet(S) /\ Cardinality(S) \in Nat
  BY FS_Subset, FS_CardinalityType
<1>2. c \in Nat /\ \A p \in Owned : p \in S \X (1 .. c)
  BY StuckPages
<1>3. a \in Nat /\ IoBios + MetaBios = a + 1
  BY MostNat DEF IoBios, MetaBios
<1> HIDE DEF S, a
<1>4. (a + 1) * BioPages = c + BioPages
  BY <1>3
<1> HIDE DEF c
<1>5. Cardinality(Owned) <= Cardinality(S) * c
  BY <1>1, <1>2, RowsBound
<1>6. Cardinality(Owned) > c
  BY <1>2, <1>3, <1>4, StuckPages DEF PoolInv, PagesConserved, PoolTypeOK
<1>7. Cardinality(S) # 0 /\ Cardinality(S) # 1
  BY <1>2, <1>5, <1>6, StuckPages
<1> QED BY <1>1, <1>7 DEF S

(* Without an update all the pages are with workers, one a processor.      *)
LEMMA StuckWorkers ==
  ASSUME PoolInv, Stuck, ~Updating
  PROVE  /\ ~WorkersFit
         /\ \A r \in Requests : bios[r] > 0 => stage[r] = "worker"
<1> DEFINE S == {r \in Requests : bios[r] > 0}
           N == Cardinality(Cpus)
           a == IoBios - 1
           c == a * BioPages
<1> USE MostNat
<1>1. \A r \in Requests : stage[r] # "update"
  BY StuckHolder DEF Updating
<1>2. \A r \in S : stage[r] = "worker"
  BY <1>1, StuckHolder DEF PoolInv, PagesConserved, PoolTypeOK, StageInv
<1>3. \A r \in S : bios[r] \in 0 .. a /\ meta[r] = 0
  <2> TAKE r \in S
  <2>1. bios[r] \in 0 .. IoBios /\ meta[r] = 0
    BY <1>2 DEF PoolInv, PagesConserved, PoolTypeOK, StageInv
  <2>2. bios[r] < IoBios
    BY <1>2 DEF Stuck, Active, Blocked, Wants
  <2> QED BY <2>1, <2>2
<1>4. IsFiniteSet(S) /\ Cardinality(S) \in Nat /\ N \in Nat
  BY FS_Subset, FS_CardinalityType
<1>5. Cardinality(S) <= N
  <2> DEFINE f == [r \in S |-> cpu[r]]
  <2>1. f \in [S -> Cpus]
    BY <1>2 DEF PoolInv, StageInv
  <2>2. \A r, q \in S : f[r] = f[q] => r = q
    BY <1>2 DEF PoolInv, StageInv
  <2> HIDE DEF f, S
  <2>3. ~(N < Cardinality(S))
    BY <1>4, <2>1, <2>2, FS_PigeonHole
  <2> QED BY <1>4, <2>3
<1>6. a \in Nat /\ c \in Nat
  <2>1. a \in Nat
    BY DEF IoBios
  <2> HIDE DEF a
  <2> QED BY <2>1, TimesMonotone
<1>7. \A p \in Owned : p \in S \X (1 .. c)
  <2> TAKE p \in Owned
  <2> DEFINE r == p[1]
  <2>1. /\ p \in Requests \X (1 .. (IoBios + MetaBios) * BioPages)
        /\ p[2] <= Pages(r)
    BY DEF Owned
  <2>2. r \in S /\ p[2] \in Nat /\ p[2] >= 1 /\ p = <<r, p[2]>>
    BY <2>1, StuckPages, MostNat DEF Most
  <2>3. bios[r] + meta[r] \in Nat /\ bios[r] + meta[r] <= a
    BY <1>3, <2>2
  <2> HIDE DEF a
  <2>4. Pages(r) <= c
    BY <1>6, <2>3, TimesMonotone DEF Pages
  <2>5. Pages(r) \in Nat
    BY <2>3, TimesMonotone DEF Pages
  <2>6. p[2] \in 1 .. c
    BY <1>6, <2>1, <2>2, <2>4, <2>5
  <2> QED BY <2>2, <2>6
<1> HIDE DEF S, N, a
<1>8. N * c = N * (a * BioPages) /\ (N * a + 1) * BioPages = N * c + BioPages /\ N * c \in Nat
  BY <1>4, <1>6
<1> HIDE DEF c
<1>9. Cardinality(Owned) <= Cardinality(S) * c
  BY <1>4, <1>6, <1>7, RowsBound
<1>10. Cardinality(S) * c <= N * c
  <2> DEFINE n == Cardinality(S)
             d == N - n
  <2>1. n \in Nat /\ d \in Nat /\ N = n + d
    BY <1>4, <1>5
  <2> HIDE DEF n, d
  <2>2. d * c \in Nat /\ n * c \in Nat /\ (n + d) * c = n * c + d * c
    BY <1>6, <2>1
  <2>3. n * c <= N * c
    BY <2>1, <2>2
  <2> QED BY <2>3 DEF n
<1>11. Cardinality(S) * c \in Nat
  BY <1>4, <1>6
<1>12. poolSize \in Nat /\ Cardinality(Owned) \in Nat /\ Cardinality(Owned) > poolSize - BioPages
  BY StuckPages DEF PoolInv, PagesConserved, PoolTypeOK
<1>13. ~(poolSize >= (N * a + 1) * BioPages)
  BY <1>8, <1>9, <1>10, <1>11, <1>12
<1> QED BY <1>2, <1>13 DEF WorkersFit, N, a, S

(* All requests wait for each other only in a pool short of what all of    *)
(* them may want, with pages in the hands of two at least: one allocates an *)
(* update's bios (integrity.c:17-42), or the workers of several processors *)
(* emptied a pool that is shorter still; whatever the numbers are.         *)
THEOREM StuckIsExplained == PoolSpec => []StuckExplained
<1>1. PoolInv => StuckExplained
  <2> SUFFICES ASSUME PoolInv, Stuck, poolSize >= (IoBios + MetaBios) * BioPages
               PROVE  /\ ~Sufficient
                      /\ Cardinality({r \in Requests : bios[r] > 0}) >= 2
                      /\ \A r \in Requests : stage[r] \notin {"reading", "writing"}
                      /\ ~Updating =>
                           /\ ~WorkersFit
                           /\ \E r, q \in Requests : /\ stage[r] = "worker" /\ bios[r] > 0
                                                    /\ stage[q] = "worker" /\ bios[q] > 0
                                                    /\ cpu[r] # cpu[q]
    BY DEF StuckExplained
  <2> DEFINE S == {r \in Requests : bios[r] > 0}
  <2>1. Cardinality(S) >= 2
    BY StuckTogether
  <2>2. PICK r \in S, q \in S : r # q
    <3>1. IsFiniteSet({}) /\ Cardinality({}) = 0
      BY FS_EmptySet
    <3>2. S # {}
      BY <2>1, <3>1
    <3>3. PICK r \in S : TRUE
      BY <3>2
    <3>4. IsFiniteSet({r}) /\ Cardinality({r}) = 1
      BY FS_Singleton
    <3> HIDE DEF S
    <3>5. S # {r}
      BY <2>1, <3>4
    <3> QED BY <3>3, <3>5
  <2>3. ASSUME ~Updating
        PROVE  /\ stage[r] = "worker" /\ stage[q] = "worker"
               /\ cpu[r] # cpu[q]
    BY <2>2, <2>3, StuckWorkers DEF PoolInv, StageInv
  <2> QED BY <2>1, <2>2, <2>3, StuckHolder, StuckIsShort, StuckWorkers
<1> QED BY <1>1, PoolInvInit, PoolInvStep, PTL DEF PoolSpec
=============================================================================
