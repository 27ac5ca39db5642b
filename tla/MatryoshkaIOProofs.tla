------------------------- MODULE MatryoshkaIOProofs -------------------------
(***************************************************************************)
(* Theorems about MatryoshkaIO, for every number of entropy and carrier    *)
(* blocks the constructor accepts and every environment.                   *)
(***************************************************************************)
EXTENDS MatryoshkaIO, FiniteSetTheorems, SequenceTheorems, TLAPS

USE ConstantsAssumption

(* io_update_erasures keeps a list of ids and never makes it longer than   *)
(* the array plus its terminator.                                          *)
LEMMA MarkBounded ==
  ASSUME NEW er \in Seq(Nat), NEW x \in Nat, Len(er) <= NumEntropy + NumCarrier + 1
  PROVE  Mark(er, x) \in Seq(Nat) /\ Len(Mark(er, x)) <= NumEntropy + NumCarrier + 1
BY DEF Mark, HasRoom

(* The slot end_carrier_read picks lies in the array or just past its end. *)
LEMMA RetrySlot ==
  ASSUME NEW s \in Nat, s <= LastProbe
  PROVE  s \div MaxSkip \in 0 .. NumCarrier
<1> DEFINE q == s \div MaxSkip
<1>1. q \in Nat /\ MaxSkip * q <= s /\ s < MaxSkip * (q + 1)
  OBVIOUS
<1>2. CASE q >= NumCarrier + 1
  <2>1. MaxSkip * (NumCarrier + 1) <= MaxSkip * q
    BY <1>1, <1>2
  <2>2. MaxSkip * (NumCarrier + 1) = LastProbe + MaxSkip
    BY DEF LastProbe
  <2> QED BY <2>1, <2>2, <1>1 DEF LastProbe
<1> QED BY <1>1, <1>2

(* A handler past its submission has a result to work with, and one that   *)
(* marks has found a free cluster.                                         *)
HasResult ==
  \A d \in Bio : /\ run[d] \notin {"idle", "inflight"} => res[d] \in Errors
                 /\ run[d] = "mark" => skip[d] \in Nat

(* Without entropy blocks no bio is ever submitted. *)
Served == NumEntropy = 0 => \A d \in Bio : run[d] = "idle"

TypeInv == TypeOK /\ HasResult /\ ErasuresBounded /\ Served

LEMMA LastProbeNat == LastProbe \in Nat
BY DEF LastProbe

LEMMA TypeInit == Init => TypeInv
BY DEF Init, TypeInv, TypeOK, HasResult, ErasuresBounded, Served, Errors, Steps, Bio, PastEnd

LEMMA HandlerRuns == ASSUME NEW d \in Bio, Handler(d) PROVE run[d] \in Running
BY DEF Handler, At, Running, Steps, UseAfterFree, EntropyEnter, WriteEnter, ReadEnter, ReadInc,
       AccumulateError, CheckError, CheckEntropyCount, CheckCarrierCount, ReadStage,
       ReadStageFull, MarkErasure, EndMarks, Decode, DecodeRaced, ReadRetry, ReadGiveUp,
       ExhaustedIter, Encode, WriteSearch, WriteSearchFull, UpdateMetadata,
       UpdateMetadataOops, Submit, SubmitFreed, SubmitTwice, SubmitWild, SubmitStale, Finish,
       FreePages, FreePagesFault, PutBio, FreeIo, EndIo

(* The first number a retry marks is that of a block. *)
LEMMA RetryMark ==
  ASSUME NEW i \in 0 .. NumCarrier, NumEntropy # 0
  PROVE  FirstOfRetry(i) \in 1 .. NumEntropy + NumCarrier + 1
BY DEF FirstOfRetry

LEMMA TypeHandler ==
  ASSUME TypeInv, NEW d \in Bio, Handler(d)
  PROVE  TypeInv'
<1>n. NumEntropy # 0
  BY HandlerRuns DEF TypeInv, Served, Running
<1> SUFFICES TypeOK' /\ HasResult' /\ ErasuresBounded'
  BY <1>n DEF TypeInv, Served
<1> USE DEF TypeInv, TypeOK, HasResult, ErasuresBounded, At, Goto, Halt, Errors, Steps,
            worker, locals, shared, base
<1>1. CASE UseAfterFree(d)
  BY <1>1 DEF UseAfterFree, Halt
<1>2. CASE EntropyEnter(d)
  BY <1>2 DEF EntropyEnter
<1>3. CASE WriteEnter(d)
  BY <1>3 DEF WriteEnter
<1>4. CASE ReadEnter(d)
  BY <1>4 DEF ReadEnter
<1>5. CASE ReadInc(d)
  BY <1>5 DEF ReadInc
<1>6. CASE AccumulateError(d)
  BY <1>6 DEF AccumulateError, Accumulate
<1>7. CASE CheckError(d)
  BY <1>7 DEF CheckError, Failed
<1>8. CASE CheckEntropyCount(d)
  BY <1>8 DEF CheckEntropyCount, AllRead
<1>9. CASE CheckCarrierCount(d)
  BY <1>9 DEF CheckCarrierCount, AllWritten
<1>10. CASE ReadStage(d)
  <2>1. FirstOfStage \in 1 .. NumEntropy + NumCarrier + 1
    BY DEF FirstOfStage
  <2>2. HasResult'
    BY <1>10 DEF ReadStage, Probes
  <2> QED BY <1>10, <2>1, <2>2 DEF ReadStage, Probes, PastEnd
<1>11. CASE ReadStageFull(d)
  BY <1>11 DEF ReadStageFull, Accumulate
<1>12. CASE Decode(d)
  BY <1>12 DEF Decode
<1>13. CASE ReadRetry(d)
  <2>1. PICK s \in Probes(skip[d], LastProbe) :
          /\ s <= LastProbe
          /\ skip' = [skip EXCEPT ![d] = Advance(s)]
          /\ IF Advance(s) <= LastProbe
             THEN LET i == Advance(s) \div MaxSkip IN
                  /\ carrier_done' = Advance(s)
                  /\ pos' = [pos EXCEPT ![d] = FirstOfRetry(i)]
                  /\ idx' = [idx EXCEPT ![d] = i]
                  /\ Goto(d, "mark")
             ELSE Goto(d, "finish") /\ UNCHANGED <<carrier_done, pos, idx>>
    BY <1>13 DEF ReadRetry
  <2> /\ run[d] = "retry"
      /\ UNCHANGED <<worker, entropy_done, error, erasures, base, mem, bio, res, fault>>
    BY <1>13 DEF ReadRetry
  <2>2. Advance(s) \in Nat
    <3>1. skip[d] \in Nat \cup {-1} /\ s \in skip[d] .. LastProbe + 1
      BY <2>1 DEF Probes
    <3> QED BY <3>1, LastProbeNat DEF Advance
  <2>3. CASE Advance(s) <= LastProbe
    <3> DEFINE i == Advance(s) \div MaxSkip
    <3>1. i \in 0 .. NumCarrier
      BY <2>2, <2>3, RetrySlot
    <3>2. pos' = [pos EXCEPT ![d] = FirstOfRetry(i)] /\ FirstOfRetry(i) \in 1 .. NumEntropy + NumCarrier + 1
      BY <2>1, <2>3, <3>1, <1>n, RetryMark
    <3>3. idx' = [idx EXCEPT ![d] = i] /\ carrier_done' = Advance(s)
      BY <2>1, <2>3
    <3>4. run' = [run EXCEPT ![d] = "mark"]
      BY <2>1, <2>3
    <3> HIDE DEF i
    <3> QED BY <2>1, <2>2, <3>1, <3>2, <3>3, <3>4
  <2>4. CASE ~(Advance(s) <= LastProbe)
    <3>1. run' = [run EXCEPT ![d] = "finish"] /\ UNCHANGED <<carrier_done, pos, idx>>
      BY <2>1, <2>4
    <3> QED BY <2>1, <2>2, <3>1
  <2> QED BY <2>3, <2>4
<1>14. CASE ReadGiveUp(d)
  BY <1>14, LastProbeNat DEF ReadGiveUp, Accumulate
<1>15. CASE Encode(d)
  BY <1>15 DEF Encode, Iteration
<1>16. CASE WriteSearch(d)
  <2>1. PICK s \in Probes(skip[d] + 1, MaxSkip) : skip' = [skip EXCEPT ![d] = s] /\ s <= MaxSkip
    BY <1>16 DEF WriteSearch
  <2>2. s \in Nat
    <3>1. skip[d] \in Nat \cup {-1} /\ s \in skip[d] + 1 .. MaxSkip + 1
      BY <2>1 DEF Probes
    <3> QED BY <3>1
  <2>3. /\ run' = [run EXCEPT ![d] = "meta"]
        /\ UNCHANGED <<worker, idx, pos, shared, base, mem, bio, res, fault>>
    BY <1>16 DEF WriteSearch
  <2>4. HasResult'
    BY <1>16, <2>3 DEF WriteSearch
  <2>5. ErasuresBounded'
    BY <2>3
  <2>6. TypeOK'
    BY <2>1, <2>2, <2>3
  <2> QED BY <2>4, <2>5, <2>6
<1>17. CASE WriteSearchFull(d)
  BY <1>17 DEF WriteSearchFull, Accumulate
<1>18. CASE UpdateMetadata(d)
  BY <1>18 DEF UpdateMetadata, Accumulate
<1>19. CASE UpdateMetadataOops(d)
  BY <1>19 DEF UpdateMetadataOops, Halt
<1>20. CASE Submit(d)
  <2>1. Target(d) \in Bio /\ Return(d) \in {"search", "done"}
    BY <1>20 DEF Submit, Return, Iteration, Bio
  <2>2. idx' \in [Bio -> 0 .. NumCarrier \cup {PastEnd}]
    BY <1>20 DEF Submit, NextIteration, InLoop, PastEnd
  <2>3. run' \in [Bio -> Steps] /\ HasResult'
    BY <1>20, <2>1 DEF Submit
  <2> QED BY <1>20, <2>1, <2>2, <2>3 DEF Submit
<1>21. CASE SubmitFreed(d)
  BY <1>21 DEF SubmitFreed, Halt
<1>22. CASE SubmitTwice(d)
  BY <1>22 DEF SubmitTwice, Halt
<1>23. CASE SubmitWild(d)
  BY <1>23 DEF SubmitWild, Halt
<1>24. CASE SubmitStale(d)
  <2>1. Target(d) \in Bio /\ Return(d) \in {"search", "done"}
    BY <1>24 DEF SubmitStale, Return, Iteration, Bio
  <2>2. idx' \in [Bio -> 0 .. NumCarrier \cup {PastEnd}]
    BY <1>24 DEF SubmitStale, NextIteration, InLoop, PastEnd
  <2>3. run' \in [Bio -> Steps] /\ HasResult'
    BY <1>24, <2>1 DEF SubmitStale
  <2> QED BY <1>24, <2>1, <2>2, <2>3 DEF SubmitStale
<1>25. CASE Finish(d)
  BY <1>25 DEF Finish
<1>26. CASE FreePages(d)
  <2>1. bio' \in [Bio -> {"unset", "live", "stale", "nopages", "freed"}]
    BY <1>26 DEF FreePages
  <2>2. run' \in [Bio -> Steps] /\ HasResult'
    BY <1>26 DEF FreePages
  <2> QED BY <1>26, <2>1, <2>2 DEF FreePages
<1>27. CASE FreePagesFault(d)
  BY <1>27 DEF FreePagesFault, Halt
<1>28. CASE PutBio(d)
  <2>1. pos' \in [Bio -> 1 .. NumEntropy + NumCarrier + 1]
    BY <1>28 DEF PutBio, MoreToClean
  <2>2. bio' \in [Bio -> {"unset", "live", "stale", "nopages", "freed"}]
    BY <1>28 DEF PutBio
  <2>3. run' \in [Bio -> Steps] /\ HasResult'
    BY <1>28 DEF PutBio
  <2> QED BY <1>28, <2>1, <2>2, <2>3 DEF PutBio
<1>29. CASE FreeIo(d)
  BY <1>29 DEF FreeIo
<1>30. CASE EndIo(d)
  BY <1>30 DEF EndIo, Return, Iteration, NextIteration, InLoop, PastEnd
<1>31. CASE ExhaustedIter(d) \/ DecodeRaced(d)
  BY <1>31 DEF ExhaustedIter, DecodeRaced, Halt
<1>32. CASE MarkErasure(d)
  <2>1. erasures' \in Seq(Nat) /\ Len(erasures') <= NumEntropy + NumCarrier + 1
    BY <1>32, MarkBounded DEF MarkErasure
  <2>2. pos' \in [Bio -> 1 .. NumEntropy + NumCarrier + 1]
    BY <1>32 DEF MarkErasure, LastMark
  <2> QED BY <1>32, <2>1, <2>2 DEF MarkErasure
<1>33. CASE EndMarks(d)
  <2>1. carrier_done' \in Nat
    BY <1>33 DEF EndMarks
  <2> QED BY <1>33, <2>1 DEF EndMarks
<1> QED
  BY <1>1, <1>2, <1>3, <1>4, <1>5, <1>6, <1>7, <1>8, <1>9, <1>10, <1>11, <1>12, <1>13, <1>14, <1>15, <1>16, <1>17, <1>18, <1>19, <1>20, <1>21, <1>22, <1>23, <1>24, <1>25, <1>26, <1>27, <1>28, <1>29, <1>30, <1>31, <1>32, <1>33 DEF Handler

LEMMA TypeStep == TypeInv /\ [Next]_vars => TypeInv'
<1> SUFFICES ASSUME TypeInv, [Next]_vars PROVE TypeInv'
  OBVIOUS
<1> USE DEF TypeInv, TypeOK, HasResult, ErasuresBounded, Served, Halt, Errors, Steps,
            worker, locals, shared, base
<1>1. ASSUME NEW o \in {"READ", "WRITE"}, Map(o) \/ MapNoMem(o) \/ MapOops(o)
      PROVE  TypeInv'
  <2>1. CASE Map(o)
    BY <2>1 DEF Map
  <2>2. CASE MapNoMem(o)
    BY <2>2 DEF MapNoMem
  <2>3. CASE MapOops(o)
    BY <2>3 DEF MapOops
  <2> QED BY <1>1, <2>1, <2>2, <2>3
<1>2. CASE Worker
  <2>1. CASE WorkerStart
    BY <2>1 DEF WorkerStart
  <2>2. CASE WorkerAlloc
    BY <2>2 DEF WorkerAlloc, MoreEntropy
  <2>3. CASE WorkerSubmit
    <3>1. sub' \in 0 .. NumEntropy /\ work' = "alloc"
      BY <2>3 DEF WorkerSubmit
    <3>2. run' \in [Bio -> Steps] /\ HasResult'
      BY <2>3 DEF WorkerSubmit
    <3> QED BY <2>3, <3>1, <3>2 DEF WorkerSubmit
  <2>4. CASE WorkerUseAfterFree
    BY <2>4 DEF WorkerUseAfterFree
  <2> QED BY <1>2, <2>1, <2>2, <2>3, <2>4 DEF Worker
<1>3. ASSUME NEW d \in Bio, Device(d) PROVE TypeInv'
  <2>1. CASE Complete(d)
    <3>1. PICK r \in Outcomes(d) : res' = [res EXCEPT ![d] = r]
      BY <2>1 DEF Complete
    <3>2. r \in Errors
      BY DEF Outcomes
    <3> QED BY <2>1, <3>1, <3>2 DEF Complete
  <2>2. CASE CompleteFreed(d)
    BY <2>2 DEF CompleteFreed
  <2> QED BY <1>3, <2>1, <2>2 DEF Device
<1>4. ASSUME NEW d \in Bio, Handler(d) PROVE TypeInv'
  BY <1>4, TypeHandler
<1>5. CASE UNCHANGED vars
  BY <1>5 DEF vars
<1> QED BY <1>1, <1>2, <1>3, <1>4, <1>5 DEF Next

(* Every variable keeps its type and the loop indexes of the worker and of *)
(* the cleanup stay inside their arrays.                                   *)
THEOREM TypeCorrect == Spec => []TypeOK
<1>1. TypeInv => TypeOK
  BY DEF TypeInv
<1> QED BY <1>1, TypeInit, TypeStep, PTL DEF Spec

(* However many retries there are, the list of erasures overruns its array *)
(* by no more than the terminator.                                         *)
THEOREM ErasuresStayBounded == Spec => []ErasuresBounded
<1>1. TypeInv => ErasuresBounded
  BY DEF TypeInv
<1> QED BY <1>1, TypeInit, TypeStep, PTL DEF Spec
-----------------------------------------------------------------------------
(* The barrier of the entropy reads.  The count equals the number of       *)
(* handlers that entered, every entropy bio is submitted at most once, and *)
(* whatever belongs to a stage exists only after all of them entered.      *)

Before == {"idle", "inflight", "enter"}

StageOf(d) ==
  \/ Staging(d)
  \/ idx[d] < NumCarrier
  \/ d \notin Entropy /\ run[d] # "idle"

Started == \E d \in Bio : StageOf(d)

JoinInv ==
  /\ entropy_done = Cardinality(Entered)
  /\ \A e \in Entropy : e > sub => run[e] = "idle"
  /\ Started => Entered = Entropy

LEMMA EntropyFinite ==
  /\ IsFiniteSet(Entropy) /\ Cardinality(Entropy) = NumEntropy
  /\ \A S \in SUBSET Entropy : IsFiniteSet(S) /\ (Cardinality(S) = NumEntropy => S = Entropy)
<1>1. IsFiniteSet(Entropy) /\ Cardinality(Entropy) = NumEntropy
  BY FS_Interval DEF Entropy
<1> QED BY <1>1, FS_Subset

LEMMA Disjoint == Entropy \cap (Carrier \cup Wild) = {}
BY DEF Entropy, Carrier, Wild, CarrierBio, PastEnd

LEMMA JoinInit == Init => JoinInv
<1> SUFFICES ASSUME Init PROVE JoinInv
  OBVIOUS
<1>1. Entered = {}
  BY DEF Init, Entered, Bio
<1>2. ~Started
  BY DEF Init, Started, StageOf, Staging, Bio
<1> QED BY <1>1, <1>2, FS_EmptySet DEF JoinInv, Init, Bio

LEMMA JoinUnchanged ==
  ASSUME JoinInv, UNCHANGED <<run, idx, sub, entropy_done>>
  PROVE  JoinInv'
BY DEF JoinInv, Started, StageOf, Staging, Entered

(* A handler that moves on among its steps disturbs nothing, provided that *)
(* it enters a stage only when the stages have started.                    *)
LEMMA JoinMove ==
  ASSUME TypeInv, JoinInv, NEW d \in Bio, NEW l \in Steps \ Before,
         run' = [run EXCEPT ![d] = l], run[d] \notin {"idle", "inflight"},
         run[d] = "enter" => d \notin Entropy,
         UNCHANGED <<sub, entropy_done>>,
         \A x \in Bio \ {d} : idx'[x] = idx[x],
         (idx'[d] < NumCarrier \/ Staging(d)') => Entered = Entropy
  PROVE  JoinInv'
<1> USE DEF TypeInv, TypeOK, Before
<1>1. Entered' = Entered
  BY DEF Entered, Bio
<1>2. \A e \in Entropy : e > sub' => run'[e] = "idle"
  BY DEF JoinInv, Bio
<1>3. ASSUME Started' PROVE Entered = Entropy
  <2>1. PICK x \in Bio : StageOf(x)'
    BY <1>3 DEF Started
  <2>2. CASE x = d
    <3>1. CASE d \notin Entropy
      BY <3>1 DEF JoinInv, Started, StageOf
    <3>2. CASE d \in Entropy
      BY <2>1, <2>2, <3>2 DEF StageOf
    <3> QED BY <3>1, <3>2
  <2>3. CASE x # d
    <3>1. run'[x] = run[x] /\ idx'[x] = idx[x]
      BY <2>3
    <3>2. StageOf(x)
      BY <2>1, <3>1 DEF StageOf, Staging
    <3>3. Started
      BY <3>2 DEF Started
    <3> QED BY <3>3 DEF JoinInv
  <2> QED BY <2>2, <2>3
<1> QED BY <1>1, <1>2, <1>3 DEF JoinInv

LEMMA JoinEnter ==
  ASSUME TypeInv, JoinInv, NEW d \in Bio, EntropyEnter(d)
  PROVE  JoinInv'
<1> USE DEF TypeInv, TypeOK, At, Goto, Before, locals, worker
<1>1. d \in Entropy /\ d \notin Entered /\ Entered' = Entered \cup {d}
  BY DEF EntropyEnter, Entered, Bio
<1>2. Cardinality(Entered') = Cardinality(Entered) + 1
  <2>1. Entered \in SUBSET Entropy
    BY DEF Entered
  <2>2. IsFiniteSet(Entered)
    BY <2>1, EntropyFinite
  <2> QED BY ONLY <1>1, <2>2, FS_AddElement
<1>3. \A e \in Entropy : e > sub' => run'[e] = "idle"
  BY DEF JoinInv, EntropyEnter, Bio
<1>4. ~Started
  BY <1>1 DEF JoinInv
<1>5. ~Started'
  BY <1>1, <1>4 DEF Started, StageOf, Staging, EntropyEnter
<1> QED BY <1>2, <1>3, <1>5 DEF JoinInv, EntropyEnter

LEMMA JoinCheckCount ==
  ASSUME TypeInv, JoinInv, NEW d \in Bio, CheckEntropyCount(d)
  PROVE  JoinInv'
<1> USE DEF TypeInv, TypeOK, At, Goto, Before, locals, worker, shared
<1> DEFINE l == IF ~AllRead(entropy_done) THEN "done"
                ELSE IF op = "READ" THEN "search" ELSE "encode"
<1>1. run' = [run EXCEPT ![d] = l] /\ l \in Steps \ Before
  BY DEF CheckEntropyCount, Steps
<1>2. UNCHANGED <<sub, entropy_done, idx>> /\ run[d] = "chkcnt"
  BY DEF CheckEntropyCount
<1>3. AllRead(entropy_done) => Entered = Entropy
  BY EntropyFinite DEF AllRead, JoinInv, Entered
<1>4. Staging(d)' => Entered = Entropy
  BY <1>1, <1>3 DEF Staging
<1>5. idx'[d] < NumCarrier => Entered = Entropy
  BY <1>2 DEF JoinInv, Started, StageOf
<1> HIDE DEF l
<1> QED BY <1>1, <1>2, <1>4, <1>5, JoinMove

LEMMA JoinSubmit ==
  ASSUME TypeInv, JoinInv, NEW d \in Bio, Submit(d) \/ SubmitStale(d)
  PROVE  JoinInv'
<1> USE DEF TypeInv, TypeOK, At, Before, locals, worker, shared
<1>1. /\ run[d] = "submit"
      /\ run' = [run EXCEPT ![d] = Return(d), ![Target(d)] = "inflight"]
      /\ UNCHANGED <<sub, entropy_done>>
      /\ Target(d) \notin Entropy
  BY Disjoint DEF Submit, SubmitStale
<1>2. Return(d) \notin Before
  BY DEF Return, Iteration
<1>3. Entered = Entropy
  BY <1>1 DEF JoinInv, Started, StageOf, Staging
<1>4. ASSUME NEW e \in Entropy
      PROVE  run'[e] = IF e = d THEN Return(d) ELSE run[e]
  <2>1. e \in Bio /\ e # Target(d)
    BY <1>1 DEF Bio
  <2> QED BY <1>1, <2>1
<1>5. Entered' = Entropy
  BY <1>1, <1>2, <1>3, <1>4 DEF Entered
<1>6. \A e \in Entropy : e > sub' => run'[e] = "idle"
  BY <1>1, <1>4 DEF JoinInv
<1> QED BY <1>1, <1>3, <1>5, <1>6 DEF JoinInv

LEMMA ReadRetryMoves ==
  ASSUME NEW d, ReadRetry(d)
  PROVE  /\ \E l \in {"mark", "finish"} : run' = [run EXCEPT ![d] = l]
         /\ \E i : idx' = [idx EXCEPT ![d] = i] \/ idx' = idx
<1>1. PICK s \in Probes(skip[d], LastProbe) :
        IF Advance(s) <= LastProbe
        THEN /\ idx' = [idx EXCEPT ![d] = Advance(s) \div MaxSkip]
             /\ Goto(d, "mark")
        ELSE Goto(d, "finish") /\ UNCHANGED idx
  BY DEF ReadRetry
<1> QED BY <1>1 DEF Goto

LEMMA ReadRetryLocals ==
  ASSUME NEW d, ReadRetry(d)
  PROVE  /\ \E i : pos' = [pos EXCEPT ![d] = i] \/ pos' = pos
         /\ \E i : skip' = [skip EXCEPT ![d] = i]
<1>1. PICK s \in Probes(skip[d], LastProbe) :
        /\ skip' = [skip EXCEPT ![d] = Advance(s)]
        /\ IF Advance(s) <= LastProbe
           THEN pos' = [pos EXCEPT ![d] = FirstOfRetry(Advance(s) \div MaxSkip)]
           ELSE UNCHANGED pos
  BY DEF ReadRetry
<1> QED BY <1>1

LEMMA JoinHandler ==
  ASSUME TypeInv, JoinInv, NEW d \in Bio, Handler(d)
  PROVE  JoinInv'
<1> USE DEF At, Goto, Before, Steps, locals, worker, shared, base
<1>s. Staging(d) \/ idx[d] < NumCarrier \/ (d \notin Entropy /\ run[d] # "idle")
        => Entered = Entropy
  BY DEF JoinInv, Started, StageOf, Staging
<1>1. CASE UseAfterFree(d) \/ ExhaustedIter(d) \/ DecodeRaced(d) \/ UpdateMetadataOops(d)
             \/ SubmitFreed(d) \/ SubmitTwice(d) \/ SubmitWild(d) \/ FreePagesFault(d)
             \/ MarkErasure(d)
  BY <1>1, JoinUnchanged DEF Halt, UseAfterFree, ExhaustedIter, DecodeRaced, MarkErasure, UpdateMetadataOops, SubmitFreed, SubmitTwice, SubmitWild, FreePagesFault
<1>2. CASE EntropyEnter(d)
  BY <1>2, JoinEnter
<1>3. CASE CheckEntropyCount(d)
  BY <1>3, JoinCheckCount
<1>4. CASE Submit(d) \/ SubmitStale(d)
  BY <1>4, JoinSubmit
<1>5. CASE WriteEnter(d)
  BY <1>5, <1>s, JoinMove DEF WriteEnter, Staging, TypeInv, TypeOK
<1>6. CASE ReadEnter(d)
  BY <1>6, <1>s, JoinMove DEF ReadEnter, Staging, TypeInv, TypeOK
<1>7. CASE ReadInc(d)
  BY <1>7, <1>s, JoinMove DEF ReadInc, Staging, TypeInv, TypeOK
<1>8. CASE AccumulateError(d)
  <2> DEFINE l == IF op = "WRITE" /\ d \notin Entropy THEN "chkcnt" ELSE "chkerr"
  <2>1. l \in Steps \ Before /\ run' = [run EXCEPT ![d] = l]
    BY <1>8 DEF AccumulateError
  <2>2. /\ run[d] \notin Before \/ d \notin Entropy
        /\ run[d] \notin {"idle", "inflight"}
        /\ UNCHANGED <<sub, entropy_done>>
        /\ \A x \in Bio \ {d} : idx'[x] = idx[x]
    BY <1>8 DEF AccumulateError, NextIteration
  <2>3. idx'[d] < NumCarrier \/ Staging(d)' => Entered = Entropy
    BY <1>8, <1>s DEF AccumulateError, NextIteration, InLoop, Return, Staging, TypeInv, TypeOK
  <2> HIDE DEF l
  <2> QED BY <2>1, <2>2, <2>3, JoinMove
<1>9. CASE CheckError(d)
  <2> DEFINE l == IF Failed(error) THEN "finish" ELSE IF d \in Entropy THEN "chkcnt" ELSE "decode"
  <2>1. l \in Steps \ Before /\ run' = [run EXCEPT ![d] = l]
    BY <1>9 DEF CheckError
  <2>2. /\ run[d] \notin Before \/ d \notin Entropy
        /\ run[d] \notin {"idle", "inflight"}
        /\ UNCHANGED <<sub, entropy_done>>
        /\ \A x \in Bio \ {d} : idx'[x] = idx[x]
    BY <1>9 DEF CheckError, NextIteration
  <2>3. idx'[d] < NumCarrier \/ Staging(d)' => Entered = Entropy
    BY <1>9, <1>s DEF CheckError, NextIteration, InLoop, Return, Staging, TypeInv, TypeOK
  <2> HIDE DEF l
  <2> QED BY <2>1, <2>2, <2>3, JoinMove
<1>10. CASE CheckCarrierCount(d)
  <2> DEFINE l == IF AllWritten(carrier_done) THEN "finish" ELSE "done"
  <2>1. l \in Steps \ Before /\ run' = [run EXCEPT ![d] = l]
    BY <1>10 DEF CheckCarrierCount
  <2>2. /\ run[d] \notin Before \/ d \notin Entropy
        /\ run[d] \notin {"idle", "inflight"}
        /\ UNCHANGED <<sub, entropy_done>>
        /\ \A x \in Bio \ {d} : idx'[x] = idx[x]
    BY <1>10 DEF CheckCarrierCount, NextIteration
  <2>3. idx'[d] < NumCarrier \/ Staging(d)' => Entered = Entropy
    BY <1>10, <1>s DEF CheckCarrierCount, NextIteration, InLoop, Return, Staging, TypeInv, TypeOK
  <2> HIDE DEF l
  <2> QED BY <2>1, <2>2, <2>3, JoinMove
<1>11. CASE ReadStage(d)
  BY <1>11, <1>s, JoinMove DEF ReadStage, Staging, TypeInv, TypeOK
<1>12. CASE ReadStageFull(d)
  BY <1>12, <1>s, JoinMove DEF ReadStageFull, Staging, TypeInv, TypeOK
<1>13. CASE Decode(d)
  <2>1. PICK l \in Steps \ Before : run' = [run EXCEPT ![d] = l]
    BY <1>13 DEF Decode
  <2>2. /\ run[d] = "decode"
        /\ UNCHANGED <<sub, entropy_done>>
        /\ \A x \in Bio \ {d} : idx'[x] = idx[x]
    BY <1>13 DEF Decode
  <2>3. Entered = Entropy
    BY <2>2, <1>s DEF Staging
  <2> QED BY <2>1, <2>2, <2>3, JoinMove
<1>14. CASE ReadRetry(d)
  <2>1. PICK l \in Steps \ Before : run' = [run EXCEPT ![d] = l]
    BY <1>14, ReadRetryMoves
  <2>2. /\ run[d] \in {"meta", "retry"}
        /\ UNCHANGED <<sub, entropy_done>>
        /\ \A x \in Bio \ {d} : idx'[x] = idx[x]
    BY <1>14, ReadRetryMoves DEF ReadRetry, TypeInv, TypeOK
  <2>3. Entered = Entropy
    BY <2>2, <1>s DEF Staging
  <2> QED BY <2>1, <2>2, <2>3, JoinMove
<1>15. CASE ReadGiveUp(d)
  BY <1>15, <1>s, JoinMove DEF ReadGiveUp, Staging, TypeInv, TypeOK
<1>16. CASE Encode(d)
  <2> DEFINE l == Iteration(0)
  <2>1. l \in Steps \ Before /\ run' = [run EXCEPT ![d] = l]
    BY <1>16 DEF Encode, Iteration
  <2>2. /\ run[d] \notin Before \/ d \notin Entropy
        /\ run[d] \notin {"idle", "inflight"}
        /\ UNCHANGED <<sub, entropy_done>>
        /\ \A x \in Bio \ {d} : idx'[x] = idx[x]
    BY <1>16 DEF Encode, NextIteration
  <2>3. idx'[d] < NumCarrier \/ Staging(d)' => Entered = Entropy
    BY <1>16, <1>s DEF Encode, NextIteration, InLoop, Return, Staging, TypeInv, TypeOK
  <2> HIDE DEF l
  <2> QED BY <2>1, <2>2, <2>3, JoinMove
<1>17. CASE WriteSearch(d)
  BY <1>17, <1>s, JoinMove DEF WriteSearch, Staging, TypeInv, TypeOK
<1>18. CASE WriteSearchFull(d)
  BY <1>18, <1>s, JoinMove DEF WriteSearchFull, Staging, TypeInv, TypeOK
<1>19. CASE UpdateMetadata(d)
  <2>1. PICK l \in Steps \ Before : run' = [run EXCEPT ![d] = l]
    BY <1>19 DEF UpdateMetadata
  <2>2. /\ run[d] \in {"meta", "retry"}
        /\ UNCHANGED <<sub, entropy_done>>
        /\ \A x \in Bio \ {d} : idx'[x] = idx[x]
    BY <1>19 DEF UpdateMetadata
  <2>3. Entered = Entropy
    BY <2>2, <1>s DEF Staging
  <2> QED BY <2>1, <2>2, <2>3, JoinMove
<1>20. CASE Finish(d)
  BY <1>20, <1>s, JoinMove DEF Finish, Staging, TypeInv, TypeOK
<1>21. CASE FreePages(d)
  BY <1>21, <1>s, JoinMove DEF FreePages, Staging, TypeInv, TypeOK
<1>22. CASE PutBio(d)
  <2> DEFINE l == IF MoreToClean(pos[d]) THEN "pages" ELSE "free"
  <2>1. l \in Steps \ Before /\ run' = [run EXCEPT ![d] = l]
    BY <1>22 DEF PutBio
  <2>2. /\ run[d] \notin Before \/ d \notin Entropy
        /\ run[d] \notin {"idle", "inflight"}
        /\ UNCHANGED <<sub, entropy_done>>
        /\ \A x \in Bio \ {d} : idx'[x] = idx[x]
    BY <1>22 DEF PutBio, NextIteration
  <2>3. idx'[d] < NumCarrier \/ Staging(d)' => Entered = Entropy
    BY <1>22, <1>s DEF PutBio, NextIteration, InLoop, Return, Staging, TypeInv, TypeOK
  <2> HIDE DEF l
  <2> QED BY <2>1, <2>2, <2>3, JoinMove
<1>23. CASE FreeIo(d)
  BY <1>23, <1>s, JoinMove DEF FreeIo, Staging, TypeInv, TypeOK
<1>25. CASE EndMarks(d)
  BY <1>25, <1>s, JoinMove DEF EndMarks, Staging, TypeInv, TypeOK
<1>24. CASE EndIo(d)
  <2> DEFINE l == Return(d)
  <2>1. l \in Steps \ Before /\ run' = [run EXCEPT ![d] = l]
    BY <1>24 DEF EndIo, Return, Iteration, InLoop
  <2>2. /\ run[d] \notin Before \/ d \notin Entropy
        /\ run[d] \notin {"idle", "inflight"}
        /\ UNCHANGED <<sub, entropy_done>>
        /\ \A x \in Bio \ {d} : idx'[x] = idx[x]
    BY <1>24 DEF EndIo, NextIteration
  <2>3. idx'[d] < NumCarrier \/ Staging(d)' => Entered = Entropy
    BY <1>24, <1>s DEF EndIo, NextIteration, InLoop, Return, Staging, TypeInv, TypeOK
  <2> HIDE DEF l
  <2> QED BY <2>1, <2>2, <2>3, JoinMove
<1> QED
  BY <1>1, <1>2, <1>3, <1>4, <1>5, <1>6, <1>7, <1>8, <1>9, <1>10, <1>11, <1>12, <1>13, <1>14, <1>15, <1>16, <1>17, <1>18, <1>19, <1>20, <1>21, <1>22, <1>23, <1>24, <1>25 DEF Handler

LEMMA JoinStep == TypeInv /\ JoinInv /\ [Next]_vars => JoinInv'
<1> SUFFICES ASSUME TypeInv, JoinInv, [Next]_vars PROVE JoinInv'
  OBVIOUS
<1> USE DEF Halt, worker, locals, shared, base
<1>1. ASSUME NEW o \in {"READ", "WRITE"}, Map(o) \/ MapNoMem(o) \/ MapOops(o)
      PROVE  JoinInv'
  BY <1>1, JoinUnchanged DEF Map, MapNoMem, MapOops
<1>2. CASE WorkerStart \/ WorkerAlloc \/ WorkerUseAfterFree
  BY <1>2, JoinUnchanged DEF WorkerStart, WorkerAlloc, WorkerUseAfterFree
<1>3. CASE WorkerSubmit
  <2>1. /\ sub + 1 \in Entropy /\ sub' = sub + 1 /\ sub \in Nat
        /\ run' = [run EXCEPT ![sub + 1] = "inflight"]
        /\ UNCHANGED <<idx, entropy_done>>
    BY <1>3 DEF WorkerSubmit, TypeInv, TypeOK, Entropy
  <2>2. run[sub + 1] = "idle"
    BY <2>1 DEF JoinInv, Entropy
  <2>3. Entered' = Entered
    BY <2>1, <2>2 DEF Entered, TypeInv, TypeOK, Bio
  <2>4. sub + 1 \notin Entered
    BY <2>2 DEF Entered
  <2>5. ~Started
    BY <2>1, <2>4 DEF JoinInv
  <2>6. ~Started'
    <3>1. ASSUME NEW x \in Bio PROVE ~StageOf(x)'
      <4>1. ~StageOf(x)
        BY <2>5 DEF Started
      <4>2. run'[x] = IF x = sub + 1 THEN "inflight" ELSE run[x]
        BY <2>1 DEF TypeInv, TypeOK
      <4> QED BY <2>1, <4>1, <4>2 DEF StageOf, Staging
    <3> QED BY <3>1 DEF Started
  <2>7. \A e \in Entropy : e > sub' => run'[e] = "idle"
    BY <2>1 DEF JoinInv, TypeInv, TypeOK, Bio, Entropy
  <2> QED BY <2>1, <2>3, <2>6, <2>7 DEF JoinInv
<1>4. ASSUME NEW d \in Bio, Complete(d) PROVE JoinInv'
  <2>1. /\ run[d] = "inflight" /\ run' = [run EXCEPT ![d] = "enter"]
        /\ UNCHANGED <<sub, idx, entropy_done>>
    BY <1>4 DEF Complete
  <2>2. Entered' = Entered
    BY <2>1 DEF Entered, TypeInv, TypeOK, Bio
  <2>3. Started' => Started
    BY <2>1 DEF Started, StageOf, Staging, TypeInv, TypeOK
  <2>4. \A e \in Entropy : e > sub' => run'[e] = "idle"
    BY <2>1 DEF JoinInv, TypeInv, TypeOK, Bio
  <2> QED BY <2>1, <2>2, <2>3, <2>4 DEF JoinInv
<1>5. ASSUME NEW d \in Bio, CompleteFreed(d) PROVE JoinInv'
  BY <1>5, JoinUnchanged DEF CompleteFreed
<1>6. ASSUME NEW d \in Bio, Handler(d) PROVE JoinInv'
  BY <1>6, JoinHandler
<1>7. CASE UNCHANGED vars
  BY <1>7, JoinUnchanged DEF vars
<1> QED BY <1>1, <1>2, <1>3, <1>4, <1>5, <1>6, <1>7 DEF Next, Worker, Device

(* No stage starts and no carrier bio is submitted before every entropy    *)
(* block has been read, whatever the interleaving of the handlers.         *)
THEOREM BarrierHolds == Spec => []JoinBarrier
<1>1. JoinInv => JoinBarrier
  BY DEF JoinInv, JoinBarrier, Started, StageOf, Staging
<1> QED BY <1>1, TypeInit, TypeStep, JoinInit, JoinStep, PTL DEF Spec
-----------------------------------------------------------------------------
(* Where the handlers of a READ and of a WRITE can stand. *)

(* Which handlers can stand where: only carrier handlers decode and retry, *)
(* only a READ marks, only a WRITE encodes and updates metadata.           *)
Place(d) ==
  /\ run[d] \in {"decode", "retry"} \/ (d \notin Entropy /\ run[d] = "chkerr")
       => d \notin Entropy /\ op = "READ"
  /\ run[d] = "inc" => d \notin Entropy
  /\ run[d] = "mark" => op = "READ"
  /\ run[d] \in {"encode", "meta"} => op = "WRITE"
  /\ run[d] = "search" /\ op = "READ" => d \in Entropy

PlaceInv ==
  /\ op = "none" => work = "idle" /\ error = "ok"
  /\ work = "idle" => \A d \in Bio : run[d] = "idle"
  /\ \A d \in Bio : Place(d)

LEMMA PlaceInit == Init => PlaceInv
BY DEF Init, PlaceInv, Place, Bio

LEMMA PlaceUnchanged ==
  ASSUME PlaceInv, UNCHANGED <<op, run, error>>,
         work' = "idle" <=> work = "idle"
  PROVE  PlaceInv'
BY DEF PlaceInv, Place

LEMMA PlaceMove ==
  ASSUME TypeInv, PlaceInv, NEW d \in Bio, NEW l \in Steps \ {"idle"},
         run' = [run EXCEPT ![d] = l], run[d] # "idle",
         UNCHANGED <<op, work>>,
         Place(d)'
  PROVE  PlaceInv'
<1> USE DEF TypeInv, TypeOK
<1>1. work # "idle" /\ op # "none"
  BY DEF PlaceInv
<1>3. ASSUME NEW x \in Bio PROVE Place(x)'
  <2>1. CASE x = d
    BY <2>1
  <2>2. CASE x # d
    <3>1. run'[x] = run[x]
      BY <2>2
    <3>2. Place(x)
      BY DEF PlaceInv
    <3> QED BY <3>1, <3>2 DEF Place
  <2> QED BY <2>1, <2>2
<1> QED BY <1>1, <1>3 DEF PlaceInv

LEMMA PlaceSubmit ==
  ASSUME TypeInv, PlaceInv, NEW d \in Bio, Submit(d) \/ SubmitStale(d)
  PROVE  PlaceInv'
<1> USE DEF TypeInv, TypeOK
<1>1. /\ run[d] = "submit"
      /\ run' = [run EXCEPT ![d] = Return(d), ![Target(d)] = "inflight"]
      /\ UNCHANGED <<op, work, error>>
  BY DEF Submit, SubmitStale, At, worker, base, shared
<1>2. Return(d) \in {"search", "done"}
  BY DEF Return, Iteration
<1>3. work # "idle" /\ op # "none"
  BY <1>1 DEF PlaceInv
<1>4. op = "READ" => Return(d) = "done"
  BY DEF Return, InLoop
<1>5. ASSUME NEW x \in Bio PROVE Place(x)'
  <2>1. run'[x] \in {run[x], Return(d), "inflight"}
    BY <1>1, <1>2
  <2>2. Place(x)
    BY DEF PlaceInv
  <2> QED BY <1>1, <1>2, <1>4, <2>1, <2>2 DEF Place
<1> QED BY <1>1, <1>3, <1>5 DEF PlaceInv

LEMMA PlaceHandler ==
  ASSUME TypeInv, PlaceInv, NEW d \in Bio, Handler(d)
  PROVE  PlaceInv'
<1> USE DEF At, Goto, Steps, worker, shared, base
<1>p. /\ Place(d)
      /\ run[d] # "idle" => op \in {"READ", "WRITE"}
  BY DEF PlaceInv, TypeInv, TypeOK
<1>1. CASE UseAfterFree(d) \/ ExhaustedIter(d) \/ DecodeRaced(d) \/ UpdateMetadataOops(d)
             \/ SubmitFreed(d) \/ SubmitTwice(d) \/ SubmitWild(d) \/ FreePagesFault(d)
             \/ MarkErasure(d)
  BY <1>1, PlaceUnchanged DEF Halt, UseAfterFree, ExhaustedIter, DecodeRaced, MarkErasure, UpdateMetadataOops, SubmitFreed, SubmitTwice, SubmitWild, FreePagesFault
<1>2. CASE ReadStage(d) \/ EndMarks(d)
  <2>1. PICK l \in {"mark", "submit"} :
          run' = [run EXCEPT ![d] = l] /\ (l = "mark" => op = "READ")
    BY <1>2 DEF ReadStage, EndMarks
  <2>2. run[d] # "idle" /\ UNCHANGED <<op, work>>
    BY <1>2 DEF ReadStage, EndMarks
  <2>3. Place(d)'
    BY <1>p, <2>1, <2>2 DEF Place, TypeInv, TypeOK
  <2> QED BY <2>1, <2>2, <2>3, PlaceMove
<1>3. CASE ReadRetry(d)
  <2>1. PICK l \in {"mark", "finish"} : run' = [run EXCEPT ![d] = l]
    BY <1>3, ReadRetryMoves
  <2>2. run[d] = "retry" /\ UNCHANGED <<op, work>>
    BY <1>3 DEF ReadRetry
  <2>3. Place(d)'
    BY <1>p, <2>1, <2>2 DEF Place, TypeInv, TypeOK
  <2> QED BY <2>1, <2>2, <2>3, PlaceMove
<1>4. CASE Submit(d) \/ SubmitStale(d)
  BY <1>4, PlaceSubmit
<1>5. CASE EntropyEnter(d)
  <2> DEFINE l == "acc"
  <2>1. l \in Steps \ {"idle"} /\ run' = [run EXCEPT ![d] = l]
    BY <1>5 DEF EntropyEnter
  <2>2. run[d] # "idle" /\ UNCHANGED <<op, work>>
    BY <1>5 DEF EntropyEnter
  <2>3. Place(d)'
    BY <1>5, <1>p, <2>1, <2>2 DEF EntropyEnter, Place, TypeInv, TypeOK
  <2> HIDE DEF l
  <2> QED BY <2>1, <2>2, <2>3, PlaceMove
<1>6. CASE WriteEnter(d)
  <2> DEFINE l == "acc"
  <2>1. l \in Steps \ {"idle"} /\ run' = [run EXCEPT ![d] = l]
    BY <1>6 DEF WriteEnter
  <2>2. run[d] # "idle" /\ UNCHANGED <<op, work>>
    BY <1>6 DEF WriteEnter
  <2>3. Place(d)'
    BY <1>6, <1>p, <2>1, <2>2 DEF WriteEnter, Place, TypeInv, TypeOK
  <2> HIDE DEF l
  <2> QED BY <2>1, <2>2, <2>3, PlaceMove
<1>7. CASE ReadEnter(d)
  <2> DEFINE l == "inc"
  <2>1. l \in Steps \ {"idle"} /\ run' = [run EXCEPT ![d] = l]
    BY <1>7 DEF ReadEnter
  <2>2. run[d] # "idle" /\ UNCHANGED <<op, work>>
    BY <1>7 DEF ReadEnter
  <2>3. Place(d)'
    BY <1>7, <1>p, <2>1, <2>2 DEF ReadEnter, Place, TypeInv, TypeOK
  <2> HIDE DEF l
  <2> QED BY <2>1, <2>2, <2>3, PlaceMove
<1>8. CASE ReadInc(d)
  <2> DEFINE l == "acc"
  <2>1. l \in Steps \ {"idle"} /\ run' = [run EXCEPT ![d] = l]
    BY <1>8 DEF ReadInc
  <2>2. run[d] # "idle" /\ UNCHANGED <<op, work>>
    BY <1>8 DEF ReadInc
  <2>3. Place(d)'
    BY <1>8, <1>p, <2>1, <2>2 DEF ReadInc, Place, TypeInv, TypeOK
  <2> HIDE DEF l
  <2> QED BY <2>1, <2>2, <2>3, PlaceMove
<1>9. CASE AccumulateError(d)
  <2> DEFINE l == IF op = "WRITE" /\ d \notin Entropy THEN "chkcnt" ELSE "chkerr"
  <2>1. l \in Steps \ {"idle"} /\ run' = [run EXCEPT ![d] = l]
    BY <1>9 DEF AccumulateError
  <2>2. run[d] # "idle" /\ UNCHANGED <<op, work>>
    BY <1>9 DEF AccumulateError
  <2>3. Place(d)'
    BY <1>9, <1>p, <2>1, <2>2 DEF AccumulateError, Place, TypeInv, TypeOK
  <2> HIDE DEF l
  <2> QED BY <2>1, <2>2, <2>3, PlaceMove
<1>10. CASE CheckError(d)
  <2> DEFINE l == IF Failed(error) THEN "finish"
                  ELSE IF d \in Entropy THEN "chkcnt" ELSE "decode"
  <2>1. l \in Steps \ {"idle"} /\ run' = [run EXCEPT ![d] = l]
    BY <1>10 DEF CheckError
  <2>2. run[d] # "idle" /\ UNCHANGED <<op, work>>
    BY <1>10 DEF CheckError
  <2>3. Place(d)'
    BY <1>10, <1>p, <2>1, <2>2 DEF CheckError, Place, TypeInv, TypeOK
  <2> HIDE DEF l
  <2> QED BY <2>1, <2>2, <2>3, PlaceMove
<1>11. CASE CheckEntropyCount(d)
  <2> DEFINE l == IF ~AllRead(entropy_done) THEN "done"
                  ELSE IF op = "READ" THEN "search" ELSE "encode"
  <2>1. l \in Steps \ {"idle"} /\ run' = [run EXCEPT ![d] = l]
    BY <1>11 DEF CheckEntropyCount
  <2>2. run[d] # "idle" /\ UNCHANGED <<op, work>>
    BY <1>11 DEF CheckEntropyCount
  <2>3. Place(d)'
    BY <1>11, <1>p, <2>1, <2>2 DEF CheckEntropyCount, Place, TypeInv, TypeOK
  <2> HIDE DEF l
  <2> QED BY <2>1, <2>2, <2>3, PlaceMove
<1>12. CASE CheckCarrierCount(d)
  <2> DEFINE l == IF AllWritten(carrier_done) THEN "finish" ELSE "done"
  <2>1. l \in Steps \ {"idle"} /\ run' = [run EXCEPT ![d] = l]
    BY <1>12 DEF CheckCarrierCount
  <2>2. run[d] # "idle" /\ UNCHANGED <<op, work>>
    BY <1>12 DEF CheckCarrierCount
  <2>3. Place(d)'
    BY <1>12, <1>p, <2>1, <2>2 DEF CheckCarrierCount, Place, TypeInv, TypeOK
  <2> HIDE DEF l
  <2> QED BY <2>1, <2>2, <2>3, PlaceMove
<1>13. CASE ReadStageFull(d)
  <2> DEFINE l == "finish"
  <2>1. l \in Steps \ {"idle"} /\ run' = [run EXCEPT ![d] = l]
    BY <1>13 DEF ReadStageFull
  <2>2. run[d] # "idle" /\ UNCHANGED <<op, work>>
    BY <1>13 DEF ReadStageFull
  <2>3. Place(d)'
    BY <1>13, <1>p, <2>1, <2>2 DEF ReadStageFull, Place, TypeInv, TypeOK
  <2> HIDE DEF l
  <2> QED BY <2>1, <2>2, <2>3, PlaceMove
<1>14. CASE Decode(d)
  <2>1. PICK l \in {"finish", "retry"} : run' = [run EXCEPT ![d] = l]
    BY <1>14 DEF Decode
  <2>2. run[d] # "idle" /\ UNCHANGED <<op, work>>
    BY <1>14 DEF Decode
  <2>3. Place(d)'
    BY <1>14, <1>p, <2>1, <2>2 DEF Decode, Place, TypeInv, TypeOK
  <2> QED BY <2>1, <2>2, <2>3, PlaceMove
<1>15. CASE ReadGiveUp(d)
  <2> DEFINE l == "finish"
  <2>1. l \in Steps \ {"idle"} /\ run' = [run EXCEPT ![d] = l]
    BY <1>15 DEF ReadGiveUp
  <2>2. run[d] # "idle" /\ UNCHANGED <<op, work>>
    BY <1>15 DEF ReadGiveUp
  <2>3. Place(d)'
    BY <1>15, <1>p, <2>1, <2>2 DEF ReadGiveUp, Place, TypeInv, TypeOK
  <2> HIDE DEF l
  <2> QED BY <2>1, <2>2, <2>3, PlaceMove
<1>16. CASE Encode(d)
  <2> DEFINE l == Iteration(0)
  <2>1. l \in Steps \ {"idle"} /\ run' = [run EXCEPT ![d] = l]
    BY <1>16 DEF Encode, Iteration
  <2>2. run[d] # "idle" /\ UNCHANGED <<op, work>>
    BY <1>16 DEF Encode
  <2>3. Place(d)'
    BY <1>16, <1>p, <2>1, <2>2 DEF Encode, Iteration, Place, TypeInv, TypeOK
  <2> HIDE DEF l
  <2> QED BY <2>1, <2>2, <2>3, PlaceMove
<1>17. CASE WriteSearch(d)
  <2> DEFINE l == "meta"
  <2>1. l \in Steps \ {"idle"} /\ run' = [run EXCEPT ![d] = l]
    BY <1>17 DEF WriteSearch
  <2>2. run[d] # "idle" /\ UNCHANGED <<op, work>>
    BY <1>17 DEF WriteSearch
  <2>3. Place(d)'
    BY <1>17, <1>p, <2>1, <2>2 DEF WriteSearch, Place, TypeInv, TypeOK
  <2> HIDE DEF l
  <2> QED BY <2>1, <2>2, <2>3, PlaceMove
<1>18. CASE WriteSearchFull(d)
  <2> DEFINE l == "finish"
  <2>1. l \in Steps \ {"idle"} /\ run' = [run EXCEPT ![d] = l]
    BY <1>18 DEF WriteSearchFull
  <2>2. run[d] # "idle" /\ UNCHANGED <<op, work>>
    BY <1>18 DEF WriteSearchFull
  <2>3. Place(d)'
    BY <1>18, <1>p, <2>1, <2>2 DEF WriteSearchFull, Place, TypeInv, TypeOK
  <2> HIDE DEF l
  <2> QED BY <2>1, <2>2, <2>3, PlaceMove
<1>19. CASE UpdateMetadata(d)
  <2>1. PICK l \in {"submit", "finish"} : run' = [run EXCEPT ![d] = l]
    BY <1>19 DEF UpdateMetadata
  <2>2. run[d] # "idle" /\ UNCHANGED <<op, work>>
    BY <1>19 DEF UpdateMetadata
  <2>3. Place(d)'
    BY <1>19, <1>p, <2>1, <2>2 DEF UpdateMetadata, Place, TypeInv, TypeOK
  <2> QED BY <2>1, <2>2, <2>3, PlaceMove
<1>20. CASE Finish(d)
  <2> DEFINE l == "pages"
  <2>1. l \in Steps \ {"idle"} /\ run' = [run EXCEPT ![d] = l]
    BY <1>20 DEF Finish
  <2>2. run[d] # "idle" /\ UNCHANGED <<op, work>>
    BY <1>20 DEF Finish
  <2>3. Place(d)'
    BY <1>20, <1>p, <2>1, <2>2 DEF Finish, Place, TypeInv, TypeOK
  <2> HIDE DEF l
  <2> QED BY <2>1, <2>2, <2>3, PlaceMove
<1>21. CASE FreePages(d)
  <2> DEFINE l == "put"
  <2>1. l \in Steps \ {"idle"} /\ run' = [run EXCEPT ![d] = l]
    BY <1>21 DEF FreePages
  <2>2. run[d] # "idle" /\ UNCHANGED <<op, work>>
    BY <1>21 DEF FreePages
  <2>3. Place(d)'
    BY <1>21, <1>p, <2>1, <2>2 DEF FreePages, Place, TypeInv, TypeOK
  <2> HIDE DEF l
  <2> QED BY <2>1, <2>2, <2>3, PlaceMove
<1>22. CASE PutBio(d)
  <2> DEFINE l == IF MoreToClean(pos[d]) THEN "pages" ELSE "free"
  <2>1. l \in Steps \ {"idle"} /\ run' = [run EXCEPT ![d] = l]
    BY <1>22 DEF PutBio
  <2>2. run[d] # "idle" /\ UNCHANGED <<op, work>>
    BY <1>22 DEF PutBio
  <2>3. Place(d)'
    BY <1>22, <1>p, <2>1, <2>2 DEF PutBio, Place, TypeInv, TypeOK
  <2> HIDE DEF l
  <2> QED BY <2>1, <2>2, <2>3, PlaceMove
<1>23. CASE FreeIo(d)
  <2> DEFINE l == "endio"
  <2>1. l \in Steps \ {"idle"} /\ run' = [run EXCEPT ![d] = l]
    BY <1>23 DEF FreeIo
  <2>2. run[d] # "idle" /\ UNCHANGED <<op, work>>
    BY <1>23 DEF FreeIo
  <2>3. Place(d)'
    BY <1>23, <1>p, <2>1, <2>2 DEF FreeIo, Place, TypeInv, TypeOK
  <2> HIDE DEF l
  <2> QED BY <2>1, <2>2, <2>3, PlaceMove
<1>24. CASE EndIo(d)
  <2> DEFINE l == Return(d)
  <2>1. l \in Steps \ {"idle"} /\ run' = [run EXCEPT ![d] = l]
    BY <1>24 DEF EndIo, Return, Iteration
  <2>2. run[d] # "idle" /\ UNCHANGED <<op, work>>
    BY <1>24 DEF EndIo
  <2>3. Place(d)'
    BY <1>24, <1>p, <2>1, <2>2 DEF EndIo, Return, InLoop, Iteration, Place, TypeInv, TypeOK
  <2> HIDE DEF l
  <2> QED BY <2>1, <2>2, <2>3, PlaceMove
<1> QED
  BY <1>1, <1>2, <1>3, <1>4, <1>5, <1>6, <1>7, <1>8, <1>9, <1>10, <1>11, <1>12, <1>13, <1>14, <1>15, <1>16, <1>17, <1>18, <1>19, <1>20, <1>21, <1>22, <1>23, <1>24 DEF Handler

LEMMA PlaceStep == TypeInv /\ PlaceInv /\ [Next]_vars => PlaceInv'
<1> SUFFICES ASSUME TypeInv, PlaceInv, [Next]_vars PROVE PlaceInv'
  OBVIOUS
<1> USE DEF Halt, worker, locals, shared, base
<1>1. ASSUME NEW o \in {"READ", "WRITE"}, Map(o) \/ MapNoMem(o) \/ MapOops(o)
      PROVE  PlaceInv'
  <2>1. \A d \in Bio : run'[d] = "idle"
    BY <1>1 DEF PlaceInv, Map, MapNoMem, MapOops
  <2>2. \A d \in Bio : Place(d)'
    BY <2>1 DEF Place
  <2>3. op' # "none"
    BY <1>1 DEF Map, MapNoMem, MapOops
  <2> QED BY <2>1, <2>2, <2>3 DEF PlaceInv
<1>2. CASE WorkerStart \/ WorkerAlloc \/ WorkerUseAfterFree
  BY <1>2, PlaceUnchanged DEF WorkerStart, WorkerAlloc, WorkerUseAfterFree
<1>3. CASE WorkerSubmit
  <2>1. /\ work = "submit" /\ work' = "alloc" /\ sub + 1 \in Entropy
        /\ run' = [run EXCEPT ![sub + 1] = "inflight"]
        /\ UNCHANGED <<op, erasures, error>>
    BY <1>3 DEF WorkerSubmit, TypeInv, TypeOK, Entropy
  <2>2. ASSUME NEW x \in Bio PROVE Place(x)'
    <3>1. run'[x] = IF x = sub + 1 THEN "inflight" ELSE run[x]
      BY <2>1 DEF TypeInv, TypeOK
    <3>2. Place(x)
      BY DEF PlaceInv
    <3> QED BY <2>1, <3>1, <3>2 DEF Place
  <2> QED BY <2>1, <2>2 DEF PlaceInv
<1>4. ASSUME NEW d \in Bio, Complete(d) PROVE PlaceInv'
  <2>1. /\ run[d] = "inflight" /\ run' = [run EXCEPT ![d] = "enter"]
        /\ UNCHANGED <<op, work>>
    BY <1>4 DEF Complete
  <2>2. Place(d)'
    BY <2>1 DEF PlaceInv, Place, TypeInv, TypeOK
  <2> QED BY <2>1, <2>2, PlaceMove DEF Steps
<1>5. ASSUME NEW d \in Bio, CompleteFreed(d) PROVE PlaceInv'
  BY <1>5, PlaceUnchanged DEF CompleteFreed
<1>6. ASSUME NEW d \in Bio, Handler(d) PROVE PlaceInv'
  BY <1>6, PlaceHandler
<1>7. CASE UNCHANGED vars
  BY <1>7, PlaceUnchanged DEF vars
<1> QED BY <1>1, <1>2, <1>3, <1>4, <1>5, <1>6, <1>7 DEF Next, Worker, Device

(* A handler runs for a request that map accepted; it touches neither the  *)
(* worker nor the kind of the request, and memory is only ever released.   *)
LEMMA HandlerFrame ==
  ASSUME TypeInv, PlaceInv, NEW d \in Bio, Handler(d)
  PROVE  /\ run[d] \in Running /\ fault = "none"
         /\ work # "idle" /\ op \in {"READ", "WRITE"}
         /\ UNCHANGED <<op, work, sub, res>>
         /\ mem' \in {mem, "freed"}
<1> USE DEF Halt, At, Running, Steps, worker, base
<1>1. /\ run[d] \in Running /\ fault = "none"
      /\ UNCHANGED <<op, work, sub, res>>
      /\ mem' \in {mem, "freed"}
  <2>1. CASE \/ UseAfterFree(d) \/ EntropyEnter(d) \/ WriteEnter(d) \/ ReadEnter(d) \/ ReadInc(d)
             \/ AccumulateError(d) \/ CheckError(d) \/ CheckEntropyCount(d) \/ CheckCarrierCount(d)
    BY <2>1 DEF UseAfterFree, EntropyEnter, WriteEnter, ReadEnter, ReadInc, AccumulateError,
                CheckError, CheckEntropyCount, CheckCarrierCount
  <2>2. CASE \/ ReadStage(d) \/ ReadStageFull(d) \/ MarkErasure(d) \/ EndMarks(d) \/ Decode(d) \/ ReadRetry(d) \/ ReadGiveUp(d)
             \/ ExhaustedIter(d) \/ DecodeRaced(d) \/ Encode(d) \/ WriteSearch(d) \/ WriteSearchFull(d)
             \/ UpdateMetadata(d) \/ UpdateMetadataOops(d)
    BY <2>2 DEF ReadStage, ReadStageFull, MarkErasure, EndMarks, Decode, ReadRetry, ReadGiveUp, ExhaustedIter, DecodeRaced, Encode,
                WriteSearch, WriteSearchFull, UpdateMetadata, UpdateMetadataOops
  <2>3. CASE \/ Submit(d) \/ SubmitFreed(d) \/ SubmitTwice(d) \/ SubmitWild(d) \/ SubmitStale(d)
             \/ Finish(d) \/ FreePages(d) \/ FreePagesFault(d) \/ PutBio(d) \/ FreeIo(d) \/ EndIo(d)
    BY <2>3 DEF Submit, SubmitFreed, SubmitTwice, SubmitWild, SubmitStale, Finish, FreePages,
                FreePagesFault, PutBio, FreeIo, EndIo
  <2> QED BY <2>1, <2>2, <2>3 DEF Handler
<1>2. work # "idle" /\ op \in {"READ", "WRITE"}
  BY <1>1 DEF PlaceInv, TypeInv, TypeOK
<1> QED BY <1>1, <1>2
-----------------------------------------------------------------------------
(* The list of erasures of a READ.  It starts with entropy block 1; the    *)
(* READ stage appends all carrier blocks, one at a time, before it submits *)
(* a carrier bio, and nothing is ever taken off it.  Only another handler  *)
(* that runs the stage as well can come in between.                        *)

Full      == {1} \cup Carrier \subseteq ListedIds(erasures)
Marked(n) == {1} \cup (FirstOfStage .. n) \subseteq ListedIds(erasures)

NoStage  == \A e \in Entropy : skip[e] = -1
Quiescent == \A x \in Bio \ Entropy : run[x] = "idle"

EarlySteps == Before \cup {"acc", "chkerr", "chkcnt"}

ListPlace(d) ==
  /\ d \in Entropy =>
       /\ run[d] \in EarlySteps \cup {"search"} => skip[d] = -1
       /\ run[d] \in {"mark", "submit"} => skip[d] # -1
       /\ run[d] = "mark" =>
            /\ pos[d] >= FirstOfStage
            /\ Len(erasures) = pos[d] - NumEntropy
            /\ Marked(pos[d] - 1)
            /\ Quiescent
  /\ run[d] = "submit" \/ (d \notin Entropy /\ run[d] # "idle") => Full

Listing ==
  /\ NoStage => erasures = <<1>> /\ Quiescent
  /\ \A d \in Bio : ListPlace(d)

ListInv ==
  /\ op = "none" => \A d \in Bio : skip[d] = -1
  /\ op = "READ" /\ work # "idle" => TwoStages \/ Listing

LEMMA ListedFinite ==
  ASSUME NEW er \in Seq(Nat)
  PROVE  IsFiniteSet(ListedIds(er))
<1>1. IsFiniteSet(1 .. Len(er))
  BY FS_Interval
<1>2. er \in Surjection(1 .. Len(er), ListedIds(er))
  BY DEF ListedIds, Surjection
<1> QED BY <1>1, <1>2, FS_Surjection

LEMMA ListedAppend ==
  ASSUME NEW er \in Seq(Nat), NEW x \in Nat
  PROVE  ListedIds(Append(er, x)) = ListedIds(er) \cup {x}
<1> DEFINE m == Append(er, x)
<1>1. /\ m \in Seq(Nat) /\ Len(m) = Len(er) + 1
      /\ \A i \in 1 .. Len(er) : m[i] = er[i]
      /\ m[Len(er) + 1] = x
  OBVIOUS
<1> HIDE DEF m
<1>2. Len(er) \in Nat
  OBVIOUS
<1>3. ASSUME NEW y \in ListedIds(er) PROVE y \in ListedIds(m)
  <2>1. PICK i \in 1 .. Len(er) : y = er[i]
    BY DEF ListedIds
  <2>2. i \in 1 .. Len(m) /\ m[i] = y
    BY <1>1, <1>2, <2>1
  <2> QED BY <2>2 DEF ListedIds
<1>4. x \in ListedIds(m)
  <2>1. Len(er) + 1 \in 1 .. Len(m)
    BY <1>1, <1>2
  <2> QED BY <1>1, <2>1 DEF ListedIds
<1>5. ASSUME NEW y \in ListedIds(m) PROVE y \in ListedIds(er) \cup {x}
  <2>1. PICK i \in 1 .. Len(m) : y = m[i]
    BY <1>5 DEF ListedIds
  <2>2. i \in 1 .. Len(er) \/ i = Len(er) + 1
    BY <1>1, <1>2
  <2> QED BY <1>1, <2>1, <2>2 DEF ListedIds
<1>6. ListedIds(m) = ListedIds(er) \cup {x}
  BY <1>3, <1>4, <1>5
<1> QED BY <1>6 DEF m

(* A mark takes nothing off the list. *)
LEMMA MarkKeeps ==
  ASSUME NEW er \in Seq(Nat), NEW x \in Nat
  PROVE  ListedIds(er) \subseteq ListedIds(Mark(er, x))
BY ListedAppend DEF Mark

LEMMA CarrierRange == Carrier = FirstOfStage .. LastMark
BY DEF Carrier, CarrierBio, FirstOfStage, LastMark

LEMMA FullNotDecodable == ASSUME TypeInv, Full PROVE ~Decodable(erasures)
<1>1. IsFiniteSet(ListedIds(erasures))
  BY ListedFinite DEF TypeInv, TypeOK
<1>2. /\ IsFiniteSet(Carrier) /\ Cardinality(Carrier) = NumCarrier
      /\ 1 \notin Carrier
  <2>1. NumEntropy + 1 \in Int /\ NumEntropy + NumCarrier \in Int
    OBVIOUS
  <2>2. Carrier = NumEntropy + 1 .. NumEntropy + NumCarrier
    BY DEF Carrier, CarrierBio
  <2> QED BY <2>1, <2>2, FS_Interval
<1>3. /\ IsFiniteSet(Carrier \cup {1})
      /\ Cardinality(Carrier \cup {1}) = NumCarrier + 1
  BY <1>2, FS_AddElement
<1>4. Cardinality(Carrier \cup {1}) <= Cardinality(ListedIds(erasures))
  <2>1. Carrier \cup {1} \in SUBSET ListedIds(erasures)
    BY DEF Full
  <2> QED BY <1>1, <2>1, FS_Subset
<1>5. Cardinality(ListedIds(erasures)) \in Nat
  BY <1>1, FS_CardinalityType
<1> QED BY <1>3, <1>4, <1>5 DEF Decodable

LEMMA ListInit == Init => ListInv
BY DEF Init, ListInv

LEMMA ListUnchanged ==
  ASSUME ListInv, UNCHANGED <<op, run, skip, pos, erasures>>,
         work' = "idle" <=> work = "idle"
  PROVE  ListInv'
BY DEF ListInv, TwoStages, Listing, NoStage, Quiescent, ListPlace, Marked, Full

(* An entropy handler that ran the stage has run it for good. *)
LEMMA TwoStagesStay ==
  ASSUME TypeInv, PlaceInv, op = "READ", NEW d \in Bio, Handler(d), TwoStages
  PROVE  TwoStages'
<1> USE DEF TypeInv, TypeOK
<1> SUFFICES \A e \in Entropy : skip[e] # -1 => skip'[e] # -1
  BY DEF TwoStages
<1>1. CASE ReadStage(d)
  <2>1. PICK s \in Probes(0, MaxSkip) : skip' = [skip EXCEPT ![d] = s]
    BY <1>1 DEF ReadStage
  <2>2. s # -1
    BY DEF Probes
  <2> QED BY <2>1, <2>2 DEF Bio
<1>2. CASE ReadEnter(d) \/ ReadRetry(d) \/ ReadGiveUp(d)
  <2>1. d \notin Entropy
    BY <1>2 DEF ReadEnter, ReadRetry, ReadGiveUp, PlaceInv, Place, At
  <2>2. \A x \in Bio \ {d} : skip'[x] = skip[x]
    BY <1>2 DEF ReadEnter, ReadRetry, ReadGiveUp
  <2> QED BY <2>1, <2>2 DEF Bio
<1>3. CASE WriteSearch(d) \/ WriteSearchFull(d)
  BY <1>3 DEF WriteSearch, WriteSearchFull
<1>4. CASE \/ UseAfterFree(d) \/ ExhaustedIter(d) \/ DecodeRaced(d) \/ UpdateMetadataOops(d)
           \/ SubmitFreed(d) \/ SubmitTwice(d) \/ SubmitWild(d) \/ FreePagesFault(d)
  BY <1>4 DEF UseAfterFree, ExhaustedIter, DecodeRaced, UpdateMetadataOops, SubmitFreed,
              SubmitTwice, SubmitWild, FreePagesFault, Halt, locals
<1>5. CASE \/ EntropyEnter(d) \/ WriteEnter(d) \/ ReadInc(d) \/ AccumulateError(d)
           \/ CheckError(d) \/ CheckEntropyCount(d) \/ CheckCarrierCount(d)
           \/ ReadStageFull(d) \/ MarkErasure(d) \/ EndMarks(d) \/ Decode(d)
  BY <1>5 DEF EntropyEnter, WriteEnter, ReadInc, AccumulateError, CheckError,
              CheckEntropyCount, CheckCarrierCount, ReadStageFull, MarkErasure, EndMarks,
              Decode, locals
<1>6. CASE \/ Encode(d) \/ UpdateMetadata(d) \/ Submit(d) \/ SubmitStale(d) \/ Finish(d)
           \/ FreePages(d) \/ PutBio(d) \/ FreeIo(d) \/ EndIo(d)
  BY <1>6 DEF Encode, UpdateMetadata, Submit, SubmitStale, Finish, FreePages, PutBio, FreeIo,
              EndIo, locals
<1> QED BY <1>1, <1>2, <1>3, <1>4, <1>5, <1>6 DEF Handler

(* A handler moves on outside the stage. *)
LEMMA ListMove ==
  ASSUME TypeInv, Listing, NEW d \in Bio, NEW l \in Steps \ {"idle"},
         run[d] # "idle", run' = [run EXCEPT ![d] = l],
         \A x \in Bio \ {d} : skip'[x] = skip[x] /\ pos'[x] = pos[x],
         UNCHANGED erasures,
         d \in Entropy => /\ l \notin {"mark", "submit"} /\ skip'[d] = skip[d]
                          /\ l \in EarlySteps \cup {"search"} => run[d] \in EarlySteps \cup {"search"}
  PROVE  Listing'
<1> USE DEF TypeInv, TypeOK
<1>1. ASSUME NEW x \in Bio, x # d PROVE run'[x] = run[x]
  BY <1>1
<1>2. d \notin Entropy => ~Quiescent /\ Full
  BY DEF Listing, ListPlace, Quiescent
<1>3. \A e \in Entropy : skip'[e] = skip[e]
  BY DEF Bio
<1>4. NoStage' => erasures' = <<1>> /\ Quiescent'
  <2> SUFFICES ASSUME NoStage' PROVE erasures' = <<1>> /\ Quiescent'
    OBVIOUS
  <2>1. erasures = <<1>> /\ Quiescent
    BY <1>3 DEF Listing, NoStage
  <2> QED BY <2>1, <1>1, <1>2 DEF Quiescent
<1>5. ASSUME NEW x \in Bio PROVE ListPlace(x)'
  <2>1. ListPlace(x)
    BY DEF Listing
  <2>2. CASE x = d
    <3>1. CASE d \in Entropy
      BY <2>1, <2>2, <3>1 DEF ListPlace, EarlySteps, Before, Full
    <3>2. CASE d \notin Entropy
      BY <1>2, <2>2, <3>2 DEF ListPlace, Full
    <3> QED BY <3>1, <3>2
  <2>3. CASE x # d
    <3>1. run'[x] = run[x] /\ skip'[x] = skip[x] /\ pos'[x] = pos[x]
      BY <2>3
    <3>2. ASSUME x \in Entropy, run[x] = "mark" PROVE Quiescent'
      BY <2>1, <3>2, <1>1, <1>2 DEF ListPlace, Quiescent
    <3> QED BY <2>1, <3>1, <3>2 DEF ListPlace, Full, Marked
  <2> QED BY <2>2, <2>3
<1> QED BY <1>4, <1>5 DEF Listing

(* The first handler that runs the stage finds the list as map left it. *)
LEMMA ListReadStage ==
  ASSUME TypeInv, PlaceInv, Listing, ~TwoStages', op = "READ", NEW d \in Bio, ReadStage(d)
  PROVE  Listing'
<1> USE DEF TypeInv, TypeOK
<1>1. /\ run[d] = "search" /\ run' = [run EXCEPT ![d] = "mark"]
      /\ pos' = [pos EXCEPT ![d] = FirstOfStage]
      /\ UNCHANGED erasures
      /\ d \in Entropy
  BY DEF ReadStage, At, Goto, shared, PlaceInv, Place
<1>2. PICK s \in Probes(0, MaxSkip) : skip' = [skip EXCEPT ![d] = s]
  BY DEF ReadStage
<1>3. skip'[d] # -1 /\ skip[d] = -1
  <2>1. s # -1
    BY DEF Probes
  <2> QED BY <1>1, <1>2, <2>1 DEF Listing, ListPlace
<1>4. \A e \in Entropy \ {d} : skip[e] = -1 /\ skip'[e] = -1
  <2> SUFFICES ASSUME NEW e \in Entropy \ {d} PROVE skip[e] = -1 /\ skip'[e] = -1
    OBVIOUS
  <2>1. skip'[e] = skip[e]
    BY <1>2 DEF Bio
  <2> QED BY <2>1, <1>1, <1>3 DEF TwoStages
<1>5. erasures = <<1>> /\ Quiescent
  BY <1>3, <1>4 DEF Listing, NoStage
<1>6. Quiescent'
  BY <1>1, <1>5 DEF Quiescent
<1>7. ASSUME NEW x \in Bio PROVE ListPlace(x)'
  <2>1. CASE x = d
    <3>1. Len(erasures') = FirstOfStage - NumEntropy /\ 1 \in ListedIds(erasures')
      BY <1>1, <1>5 DEF ListedIds, FirstOfStage
    <3>2. FirstOfStage .. FirstOfStage - 1 = {}
      BY DEF FirstOfStage
    <3>3. pos'[d] = FirstOfStage /\ FirstOfStage \in Int
      BY <1>1 DEF FirstOfStage
    <3>4. Marked(pos[d] - 1)'
      BY <3>1, <3>2, <3>3 DEF Marked
    <3>5. run'[d] = "mark" /\ skip'[d] # -1
      BY <1>1, <1>3
    <3>6. pos'[d] >= FirstOfStage
      BY <3>3
    <3> HIDE DEF TypeInv, TypeOK
    <3> QED BY <2>1, <1>1, <1>6, <3>1, <3>3, <3>4, <3>5, <3>6 DEF ListPlace, EarlySteps, Before
  <2>2. CASE x # d
    <3>1. run'[x] = run[x] /\ ListPlace(x)
      BY <1>1, <2>2 DEF Listing
    <3>2. CASE x \in Entropy
      <4>1. skip[x] = -1 /\ skip'[x] = -1
        BY <1>4, <2>2, <3>2
      <4> QED BY <3>1, <3>2, <4>1 DEF ListPlace
    <3>3. CASE x \notin Entropy
      BY <1>6, <3>3 DEF ListPlace, Quiescent
    <3> QED BY <3>2, <3>3
  <2> QED BY <2>1, <2>2
<1>8. ~NoStage'
  BY <1>1, <1>3 DEF NoStage
<1> QED BY <1>7, <1>8 DEF Listing

(* A number is added to the list, by the stage or by a retry. *)
LEMMA ListMark ==
  ASSUME TypeInv, Listing, ~TwoStages, NEW d \in Bio, MarkErasure(d)
  PROVE  Listing'
<1> USE DEF TypeInv, TypeOK
<1>1. /\ run[d] = "mark" /\ pos[d] <= LastMark
      /\ erasures' = Mark(erasures, pos[d])
      /\ pos' = [pos EXCEPT ![d] = @ + 1]
      /\ UNCHANGED <<run, skip>>
  BY DEF MarkErasure, At
<1>2. ListedIds(erasures) \subseteq ListedIds(erasures') /\ (Full => Full')
  BY <1>1, MarkKeeps DEF Full
<1>3. ListPlace(d) /\ pos[d] \in Nat
  BY DEF Listing
<1>4. ~NoStage
  <2>1. d \in Entropy => skip[d] # -1
    BY <1>1, <1>3 DEF ListPlace
  <2>2. d \notin Entropy => ~Quiescent
    BY <1>1 DEF Quiescent
  <2> QED BY <2>1, <2>2 DEF NoStage, Listing
<1>5. ASSUME NEW x \in Bio PROVE ListPlace(x)'
  <2>1. ListPlace(x)
    BY DEF Listing
  <2>2. CASE x = d /\ d \in Entropy
    <3>1. /\ pos[d] >= FirstOfStage /\ Len(erasures) = pos[d] - NumEntropy
          /\ Marked(pos[d] - 1) /\ Quiescent /\ skip[d] # -1
      BY <1>1, <1>3, <2>2 DEF ListPlace
    <3>2. erasures' = Append(erasures, pos[d])
      BY <1>1, <3>1 DEF Mark, HasRoom, LastMark
    <3>3. Len(erasures') = pos[d] + 1 - NumEntropy
      BY <3>1, <3>2
    <3>4. ListedIds(erasures') = ListedIds(erasures) \cup {pos[d]}
      BY <3>2, <1>3, ListedAppend
    <3>5. FirstOfStage .. pos[d] = (FirstOfStage .. pos[d] - 1) \cup {pos[d]}
      BY <3>1, <1>3 DEF FirstOfStage
    <3>6. pos'[d] = pos[d] + 1 /\ pos'[d] - 1 = pos[d]
      BY <1>1, <1>3
    <3>7. Marked(pos[d] - 1)'
      BY <3>1, <3>4, <3>5, <3>6 DEF Marked
    <3>8. pos'[d] >= FirstOfStage /\ Len(erasures') = pos'[d] - NumEntropy
      BY <3>1, <3>3, <3>6, <1>3 DEF FirstOfStage
    <3>9. run'[d] = "mark" /\ skip'[d] # -1 /\ Quiescent'
      BY <1>1, <3>1 DEF Quiescent
    <3> HIDE DEF TypeInv, TypeOK
    <3> QED BY <2>2, <3>7, <3>8, <3>9 DEF ListPlace, EarlySteps, Before
  <2>3. CASE d \notin Entropy
    <3>1. ~Quiescent
      BY <1>1, <2>3 DEF Quiescent
    <3>2. ~(x \in Entropy /\ run[x] = "mark")
      BY <2>1, <3>1 DEF ListPlace
    <3> QED BY <1>1, <1>2, <2>1, <3>2 DEF ListPlace
  <2>4. CASE x # d /\ d \in Entropy
    <3>1. skip[d] # -1
      BY <1>1, <1>3, <2>4 DEF ListPlace
    <3>2. x \in Entropy => skip[x] = -1
      BY <2>4, <3>1 DEF TwoStages
    <3>3. ~(x \in Entropy /\ run[x] = "mark")
      BY <2>1, <3>2 DEF ListPlace
    <3> QED BY <1>1, <1>2, <2>1, <3>3 DEF ListPlace
  <2> QED BY <2>2, <2>3, <2>4
<1>6. ~NoStage'
  BY <1>1, <1>4 DEF NoStage
<1> QED BY <1>5, <1>6 DEF Listing

(* The stage has marked everything when it gets to the submission. *)
LEMMA ListEndMarks ==
  ASSUME TypeInv, Listing, ~TwoStages, NEW d \in Bio, EndMarks(d)
  PROVE  Listing'
<1> USE DEF TypeInv, TypeOK
<1>1. /\ run[d] = "mark" /\ pos[d] > LastMark
      /\ run' = [run EXCEPT ![d] = "submit"]
      /\ UNCHANGED <<skip, pos, erasures>>
  BY DEF EndMarks, At, Goto, locals
<1>2. ListPlace(d)
  BY DEF Listing
<1>3. Full'
  <2>1. CASE d \notin Entropy
    BY <1>1, <1>2, <2>1 DEF ListPlace, Full
  <2>2. CASE d \in Entropy
    <3>1. Marked(pos[d] - 1) /\ pos[d] - 1 >= LastMark
      BY <1>1, <1>2, <2>2 DEF ListPlace, LastMark
    <3>2. FirstOfStage .. LastMark \subseteq FirstOfStage .. pos[d] - 1
      BY <3>1 DEF FirstOfStage, LastMark
    <3> QED BY <1>1, <3>1, <3>2, CarrierRange DEF Full, Marked
  <2> QED BY <2>1, <2>2
<1>4. ~NoStage
  <2>1. d \in Entropy => skip[d] # -1
    BY <1>1, <1>2 DEF ListPlace
  <2>2. d \notin Entropy => ~Quiescent
    BY <1>1 DEF Quiescent
  <2> QED BY <2>1, <2>2 DEF NoStage, Listing
<1>5. ASSUME NEW x \in Bio PROVE ListPlace(x)'
  <2>1. ListPlace(x)
    BY DEF Listing
  <2>2. CASE x = d
    BY <1>1, <1>2, <1>3, <2>2 DEF ListPlace, EarlySteps, Before
  <2>3. CASE x # d
    <3>1. run'[x] = run[x]
      BY <1>1, <2>3
    <3>2. ASSUME x \in Entropy, run[x] = "mark" PROVE FALSE
      <4>1. skip[x] # -1 /\ Quiescent
        BY <2>1, <3>2 DEF ListPlace
      <4>2. d \in Entropy /\ skip[d] # -1
        BY <4>1, <1>1, <1>2 DEF Quiescent, ListPlace
      <4> QED BY <2>3, <3>2, <4>1, <4>2 DEF TwoStages
    <3> QED BY <1>1, <1>3, <2>1, <3>1, <3>2 DEF ListPlace
  <2> QED BY <2>2, <2>3
<1>6. ~NoStage'
  BY <1>1, <1>4 DEF NoStage
<1> QED BY <1>5, <1>6 DEF Listing

LEMMA ListSubmit ==
  ASSUME TypeInv, Listing, ~TwoStages, op = "READ", NEW d \in Bio, Submit(d) \/ SubmitStale(d)
  PROVE  Listing'
<1> USE DEF TypeInv, TypeOK
<1>1. /\ run[d] = "submit"
      /\ run' = [run EXCEPT ![d] = "done", ![Target(d)] = "inflight"]
      /\ UNCHANGED <<skip, pos, erasures>>
      /\ Target(d) \notin Entropy
  BY Disjoint DEF Submit, SubmitStale, At, shared, Return, InLoop
<1>2. ListPlace(d) /\ Full
  BY <1>1 DEF Listing, ListPlace
<1>3. ~NoStage
  <2>1. d \in Entropy => skip[d] # -1
    BY <1>1, <1>2 DEF ListPlace
  <2>2. d \notin Entropy => ~Quiescent
    BY <1>1 DEF Quiescent
  <2> QED BY <2>1, <2>2 DEF NoStage, Listing
<1>4. ASSUME NEW x \in Entropy, run[x] = "mark" PROVE FALSE
  <2>1. x \in Bio /\ ListPlace(x)
    BY DEF Bio, Listing
  <2>2. skip[x] # -1 /\ Quiescent
    BY <1>4, <2>1 DEF ListPlace
  <2>3. d \in Entropy /\ skip[d] # -1 /\ d # x
    BY <1>1, <1>2, <1>4, <2>2 DEF Quiescent, ListPlace
  <2> QED BY <2>2, <2>3 DEF TwoStages
<1>5. ASSUME NEW x \in Bio PROVE ListPlace(x)'
  <2>1. ListPlace(x) /\ Full'
    BY <1>1, <1>2 DEF Listing, Full
  <2>2. run'[x] \in {run[x], "done", "inflight"} /\ (x \in Entropy => run'[x] # "inflight" \/ run[x] = "inflight")
    BY <1>1
  <2> QED BY <1>1, <1>4, <2>1, <2>2 DEF ListPlace, EarlySteps, Before
<1>6. ~NoStage'
  BY <1>1, <1>3 DEF NoStage
<1> QED BY <1>5, <1>6 DEF Listing

LEMMA ListHandler ==
  ASSUME TypeInv, PlaceInv, ListInv, op = "READ", NEW d \in Bio, Handler(d)
  PROVE  ListInv'
<1> USE DEF At, Goto, Steps, worker, locals, shared, base
<1>p. /\ run[d] \in Running /\ work # "idle" /\ UNCHANGED <<op, work>> /\ Place(d)
  BY HandlerFrame DEF PlaceInv
<1>t. TwoStages => TwoStages'
  BY TwoStagesStay
<1> SUFFICES ASSUME ~TwoStages, ~TwoStages', Listing PROVE Listing'
  BY <1>p, <1>t DEF ListInv
<1>n. run[d] # "idle"
  BY <1>p DEF Running
<1>1. CASE UseAfterFree(d) \/ ExhaustedIter(d) \/ DecodeRaced(d) \/ UpdateMetadataOops(d)
             \/ SubmitFreed(d) \/ SubmitTwice(d) \/ SubmitWild(d) \/ FreePagesFault(d)
  <2>1. UNCHANGED <<run, skip, pos, erasures>>
    BY <1>1 DEF Halt, UseAfterFree, ExhaustedIter, DecodeRaced, UpdateMetadataOops, SubmitFreed, SubmitTwice, SubmitWild, FreePagesFault
  <2> QED BY <2>1 DEF Listing, NoStage, Quiescent, ListPlace, Marked, Full
<1>2. CASE ReadStage(d)
  BY <1>2, ListReadStage
<1>3. CASE MarkErasure(d)
  BY <1>3, ListMark
<1>4. CASE EndMarks(d)
  BY <1>4, ListEndMarks
<1>5. CASE Submit(d) \/ SubmitStale(d)
  BY <1>5, ListSubmit
<1>6. CASE EntropyEnter(d) \/ AccumulateError(d) \/ CheckError(d) \/ CheckEntropyCount(d)
  <2>1. /\ UNCHANGED <<skip, pos, erasures>>
        /\ run[d] \in EarlySteps
    BY <1>6 DEF EntropyEnter, AccumulateError, CheckError, CheckEntropyCount, EarlySteps, Before
  <2>2. PICK l \in Steps \ {"idle", "mark", "submit"} : run' = [run EXCEPT ![d] = l]
    BY <1>6 DEF EntropyEnter, AccumulateError, CheckError, CheckEntropyCount
  <2> QED BY <1>n, <2>1, <2>2, ListMove
<1>7. CASE ReadEnter(d) \/ ReadInc(d) \/ ReadRetry(d) \/ ReadGiveUp(d)
  <2>1. \/ d \notin Entropy
        \/ UNCHANGED skip
    BY <1>7, <1>p DEF ReadEnter, ReadInc, ReadRetry, ReadGiveUp, Place
  <2>2. PICK l \in Steps \ {"idle"} :
          /\ run' = [run EXCEPT ![d] = l]
          /\ d \in Entropy => l = "acc" /\ run[d] = "inc"
    BY <1>7, <1>p, ReadRetryMoves DEF ReadEnter, ReadInc, ReadRetry, ReadGiveUp, Place
  <2>3. /\ \A x \in Bio \ {d} : skip'[x] = skip[x] /\ pos'[x] = pos[x]
        /\ UNCHANGED erasures
    BY <1>7, ReadRetryLocals DEF ReadEnter, ReadInc, ReadRetry, ReadGiveUp, TypeInv, TypeOK
  <2>4. d \notin Entropy
    BY <1>7, <1>p DEF ReadEnter, ReadInc, ReadRetry, ReadGiveUp, Place
  <2> QED BY <1>n, <2>2, <2>3, <2>4, ListMove
<1>8. CASE \/ ReadStageFull(d) \/ Decode(d) \/ FreePages(d) \/ FreeIo(d)
           \/ CheckCarrierCount(d)
  <2>1. UNCHANGED <<skip, pos, erasures>>
    BY <1>8 DEF ReadStageFull, Decode, FreePages, FreeIo, CheckCarrierCount
  <2>2. PICK l \in {"finish", "retry", "put", "endio", "done"} : run' = [run EXCEPT ![d] = l]
    BY <1>8 DEF ReadStageFull, Decode, FreePages, FreeIo, CheckCarrierCount
  <2> QED BY <1>n, <2>1, <2>2, ListMove DEF EarlySteps, Before
<1>9. CASE Finish(d) \/ PutBio(d) \/ EndIo(d)
  <2>1. /\ UNCHANGED <<skip, erasures>>
        /\ \A x \in Bio \ {d} : pos'[x] = pos[x]
    BY <1>9 DEF Finish, PutBio, EndIo, TypeInv, TypeOK
  <2>2. PICK l \in {"pages", "free", "done"} : run' = [run EXCEPT ![d] = l]
    BY <1>9 DEF Finish, PutBio, EndIo, Return, InLoop
  <2> QED BY <1>n, <2>1, <2>2, ListMove DEF EarlySteps, Before
<1>10. CASE WriteEnter(d) \/ Encode(d) \/ WriteSearch(d) \/ WriteSearchFull(d) \/ UpdateMetadata(d)
  BY <1>10, <1>p DEF WriteEnter, Encode, WriteSearch, WriteSearchFull, UpdateMetadata, Place
<1> QED
  BY <1>1, <1>2, <1>3, <1>4, <1>5, <1>6, <1>7, <1>8, <1>9, <1>10 DEF Handler

LEMMA ListStep == TypeInv /\ PlaceInv /\ JoinInv /\ ListInv /\ [Next]_vars => ListInv'
<1> SUFFICES ASSUME TypeInv, PlaceInv, JoinInv, ListInv, [Next]_vars PROVE ListInv'
  OBVIOUS
<1> USE DEF Halt, worker, locals, shared, base
<1>1. ASSUME NEW o \in {"READ", "WRITE"}, Map(o) \/ MapNoMem(o) \/ MapOops(o)
      PROVE  ListInv'
  <2>1. /\ op = "none" /\ op' # "none" /\ work = "idle" /\ UNCHANGED <<run, skip>>
        /\ work' = "idle" \/ erasures' = <<1>>
    BY <1>1 DEF Map, MapNoMem, MapOops, PlaceInv
  <2>2. \A d \in Bio : run'[d] = "idle" /\ skip'[d] = -1
    BY <2>1 DEF PlaceInv, ListInv
  <2>3. \A d \in Bio : ListPlace(d)'
    BY <2>2 DEF ListPlace
  <2>4. Quiescent'
    BY <2>2 DEF Quiescent
  <2> QED BY <2>1, <2>3, <2>4 DEF ListInv, Listing
<1>2. CASE WorkerStart \/ WorkerAlloc \/ WorkerUseAfterFree
  BY <1>2, ListUnchanged DEF WorkerStart, WorkerAlloc, WorkerUseAfterFree
<1>3. CASE WorkerSubmit
  <2>1. /\ work = "submit" /\ work' = "alloc" /\ sub + 1 \in Entropy /\ sub \in Nat
        /\ run' = [run EXCEPT ![sub + 1] = "inflight"]
        /\ UNCHANGED <<op, erasures, skip, pos>>
    BY <1>3 DEF WorkerSubmit, TypeInv, TypeOK, Entropy
  <2>2. run[sub + 1] = "idle"
    BY <2>1 DEF JoinInv, Entropy
  <2>3. TwoStages => TwoStages'
    BY <2>1 DEF TwoStages
  <2>4. ASSUME Listing PROVE Listing'
    <3>1. ASSUME NEW x \in Bio PROVE run'[x] = IF x = sub + 1 THEN "inflight" ELSE run[x]
      BY <2>1 DEF TypeInv, TypeOK
    <3>2. Quiescent => Quiescent'
      BY <2>1, <3>1 DEF Quiescent
    <3>3. ASSUME NEW x \in Bio PROVE ListPlace(x)'
      <4>1. ListPlace(x)
        BY <2>4 DEF Listing
      <4>2. CASE x = sub + 1
        BY <2>1, <2>2, <3>1, <4>1, <4>2 DEF ListPlace, EarlySteps, Before
      <4>3. CASE x # sub + 1
        <5>1. run'[x] = run[x]
          BY <3>1, <4>3
        <5> QED BY <2>1, <3>2, <4>1, <5>1 DEF ListPlace, Marked, Full
      <4> QED BY <4>2, <4>3
    <3> QED BY <2>1, <2>4, <3>2, <3>3 DEF Listing, NoStage
  <2> QED BY <2>1, <2>3, <2>4 DEF ListInv
<1>4. ASSUME NEW d \in Bio, Complete(d) PROVE ListInv'
  <2>1. /\ run[d] = "inflight" /\ run' = [run EXCEPT ![d] = "enter"]
        /\ UNCHANGED <<op, work, erasures, skip, pos>>
    BY <1>4 DEF Complete
  <2>2. TwoStages => TwoStages'
    BY <2>1 DEF TwoStages
  <2>3. Listing => Listing'
    BY <2>1, ListMove DEF Steps, EarlySteps, Before
  <2> QED BY <2>1, <2>2, <2>3 DEF ListInv
<1>5. ASSUME NEW d \in Bio, CompleteFreed(d) PROVE ListInv'
  BY <1>5, ListUnchanged DEF CompleteFreed
<1>6. ASSUME NEW d \in Bio, Handler(d) PROVE ListInv'
  <2>1. CASE op = "READ"
    BY <1>6, <2>1, ListHandler
  <2>2. CASE op # "READ"
    BY <1>6, <2>2, HandlerFrame DEF ListInv
  <2> QED BY <2>1, <2>2
<1>7. CASE UNCHANGED vars
  BY <1>7, ListUnchanged DEF vars
<1> QED BY <1>1, <1>2, <1>3, <1>4, <1>5, <1>6, <1>7 DEF Next, Worker, Device

LEMMA DecodingStages == ASSUME TypeInv, PlaceInv, ListInv PROVE DecodeNeedsTwoStages
<1> SUFFICES ASSUME NEW d \in Bio, run[d] = "decode", ~TwoStages PROVE ~Decodable(erasures)
  BY DEF DecodeNeedsTwoStages
<1>1. d \notin Entropy /\ op = "READ" /\ work # "idle"
  BY DEF PlaceInv, Place
<1>2. Full
  BY <1>1 DEF ListInv, Listing, ListPlace
<1> QED BY <1>2, FullNotDecodable

(* In every interleaving end_carrier_read decodes only when two entropy    *)
(* handlers both ran the READ stage: the list that one of them leaves is   *)
(* too long, whatever the numbers of blocks and whatever the devices return. *)
THEOREM DecodingNeedsTwoStages == Spec => []DecodeNeedsTwoStages
<1>1. TypeInv /\ PlaceInv /\ ListInv => DecodeNeedsTwoStages
  BY DecodingStages
<1> QED BY <1>1, TypeInit, TypeStep, PlaceInit, PlaceStep, JoinInit, JoinStep, ListInit,
           ListStep, PTL DEF Spec
-----------------------------------------------------------------------------
(* Every handler leaves the error alone or accumulates into it. *)
LEMMA HandlerAccumulates ==
  ASSUME NEW d, Handler(d)
  PROVE  error' = error \/ \E e : error' = Accumulate(error, e)
<1> USE DEF Halt, shared
<1>1. CASE AccumulateError(d) \/ ReadStageFull(d) \/ ReadGiveUp(d) \/ WriteSearchFull(d)
  BY <1>1 DEF AccumulateError, ReadStageFull, ReadGiveUp, WriteSearchFull
<1>2. CASE UpdateMetadata(d)
  BY <1>2 DEF UpdateMetadata
<1>3. CASE \/ UseAfterFree(d) \/ ExhaustedIter(d) \/ DecodeRaced(d) \/ UpdateMetadataOops(d) \/ SubmitFreed(d)
           \/ SubmitTwice(d) \/ SubmitWild(d) \/ FreePagesFault(d)
  BY <1>3 DEF UseAfterFree, ExhaustedIter, DecodeRaced, UpdateMetadataOops, SubmitFreed, SubmitTwice, SubmitWild,
              FreePagesFault
<1>4. CASE \/ EntropyEnter(d) \/ WriteEnter(d) \/ ReadEnter(d) \/ ReadInc(d)
           \/ CheckError(d) \/ CheckEntropyCount(d) \/ CheckCarrierCount(d)
  BY <1>4 DEF EntropyEnter, WriteEnter, ReadEnter, ReadInc, CheckError,
              CheckEntropyCount, CheckCarrierCount
<1>5. CASE \/ ReadStage(d) \/ MarkErasure(d) \/ EndMarks(d) \/ Decode(d) \/ ReadRetry(d)
           \/ Encode(d) \/ WriteSearch(d)
  BY <1>5 DEF ReadStage, MarkErasure, EndMarks, Decode, ReadRetry, Encode, WriteSearch
<1>6. CASE \/ Submit(d) \/ SubmitStale(d) \/ Finish(d) \/ FreePages(d) \/ PutBio(d)
           \/ FreeIo(d) \/ EndIo(d)
  BY <1>6 DEF Submit, SubmitStale, Finish, FreePages, PutBio, FreeIo, EndIo
<1> QED BY <1>1, <1>2, <1>3, <1>4, <1>5, <1>6 DEF Handler

(* An error once recorded stays, or turns into EIO, until the io is freed: *)
(* no handler can reset what another one accumulated.                      *)
THEOREM ErrorsNeverForgotten == Spec => ErrorAbsorbing
<1> DEFINE Absorbs == error' = error \/ error = "ok" \/ error' = "EIO"
<1>1. PlaceInv /\ [Next]_vars => [Absorbs]_vars
  <2> SUFFICES ASSUME PlaceInv, Next PROVE Absorbs
    OBVIOUS
  <2> USE DEF Halt, shared
  <2>1. ASSUME NEW o \in {"READ", "WRITE"}, Map(o) \/ MapNoMem(o) \/ MapOops(o)
        PROVE  Absorbs
    BY <2>1 DEF Map, MapNoMem, MapOops, PlaceInv
  <2>2. CASE Worker
    BY <2>2 DEF Worker, WorkerStart, WorkerAlloc, WorkerSubmit, WorkerUseAfterFree
  <2>3. ASSUME NEW d \in Bio, Device(d) PROVE Absorbs
    BY <2>3 DEF Device, Complete, CompleteFreed
  <2>4. ASSUME NEW d \in Bio, Handler(d) PROVE Absorbs
    BY <2>4, HandlerAccumulates DEF Accumulate
  <2> QED BY <2>1, <2>2, <2>3, <2>4 DEF Next
<1> QED BY <1>1, TypeInit, TypeStep, PlaceInit, PlaceStep, PTL DEF Spec, ErrorAbsorbing
-----------------------------------------------------------------------------
(***************************************************************************)
(* The answers, in every interleaving of the worker, the devices and the   *)
(* completion handlers: when a READ, and when a WRITE, is answered with    *)
(* success.                                                                *)
(***************************************************************************)
Answering(d) == run[d] \in {"pages", "put", "free", "endio"}

-----------------------------------------------------------------------------
(* READs.  A handler that answers one with success has stepped past the    *)
(* last probe, or two handlers ran the stage; after the first answer the   *)
(* io is gone, so nobody moves on to take that back.                       *)

ReadPlace(d) ==
  /\ run[d] = "chkcnt" => d \in Entropy
  /\ run[d] = "endio" => mem = "freed"
  /\ run[d] = "finish" /\ error = "ok" => skip[d] = LastProbe + 1 \/ TwoStages
  /\ Answering(d) /\ bi_error = "ok" => skip[d] = LastProbe + 1 \/ TwoStages

PastLastProbe == \E d \in Bio : skip[d] = LastProbe + 1 /\ run[d] = "done"

ReadInv ==
  /\ op = "none" => mem = "none" /\ ended = 0 /\ bi_error = "ok"
  /\ mem = "none" => work = "idle"
  /\ op = "READ" =>
       /\ mem = "none" \/ bi_error = "ok" \/ error # "ok"
       /\ ended > 0 => mem # "live"
       /\ \A d \in Bio : ReadPlace(d)
       /\ ended > 0 /\ bi_error = "ok" => PastLastProbe \/ TwoStages

LEMMA ReadInit == Init => ReadInv
BY DEF Init, ReadInv

LEMMA ReadUnchanged ==
  ASSUME ReadInv, UNCHANGED <<op, mem, run, skip, error, bi_error, ended>>,
         mem = "none" => work' = work
  PROVE  ReadInv'
BY DEF ReadInv, ReadPlace, PastLastProbe, Answering, TwoStages

(* A handler moves on while the io is there. *)
LEMMA ReadMove ==
  ASSUME TypeInv, ReadInv, NEW d \in Bio, NEW l \in Steps, mem = "live", op = "READ",
         run' = [run EXCEPT ![d] = l],
         UNCHANGED <<op, mem, bi_error, ended>>,
         error' = error \/ error' # "ok",
         \A x \in Bio \ {d} : skip'[x] = skip[x],
         TwoStages => TwoStages',
         ReadPlace(d)'
  PROVE  ReadInv'
<1> USE DEF TypeInv, TypeOK
<1>1. ASSUME NEW x \in Bio, x # d PROVE ReadPlace(x)'
  <2>1. run'[x] = run[x] /\ skip'[x] = skip[x] /\ ReadPlace(x)
    BY <1>1 DEF ReadInv
  <2> QED BY <2>1 DEF ReadPlace, Answering
<1>2. ended = 0
  BY DEF ReadInv
<1>3. error' = "ok" => error = "ok"
  OBVIOUS
<1> QED BY <1>1, <1>2, <1>3 DEF ReadInv

LEMMA ReadSubmit ==
  ASSUME TypeInv, PlaceInv, ReadInv, op = "READ", NEW d \in Bio, Submit(d) \/ SubmitStale(d)
  PROVE  ReadInv'
<1> USE DEF TypeInv, TypeOK, worker, shared, base
<1>1. /\ run' = [run EXCEPT ![d] = Return(d), ![Target(d)] = "inflight"]
      /\ UNCHANGED <<op, mem, work, bi_error, ended, error, skip>>
      /\ mem = "live"
  BY DEF Submit, SubmitStale, At, Safe
<1>2. Return(d) = "done"
  BY DEF Return, InLoop
<1>3. ASSUME NEW x \in Bio PROVE ReadPlace(x)'
  <2>1. run'[x] \in {run[x], "done", "inflight"} /\ ReadPlace(x)
    BY <1>1, <1>2 DEF ReadInv
  <2> QED BY <1>1, <2>1 DEF ReadPlace, Answering, TwoStages
<1>4. ended = 0
  BY <1>1 DEF ReadInv
<1> QED BY <1>1, <1>3, <1>4 DEF ReadInv

LEMMA ReadHandler ==
  ASSUME TypeInv, PlaceInv, ListInv, ReadInv, op = "READ", NEW d \in Bio, Handler(d)
  PROVE  ReadInv'
<1> USE DEF At, Goto, Safe, Steps, worker, shared, base, locals
<1>p. /\ run[d] \in Running /\ op' = op /\ work # "idle" /\ mem # "none"
      /\ ReadPlace(d) /\ Place(d)
  BY HandlerFrame DEF ReadInv, PlaceInv
<1>t. TwoStages => TwoStages'
  BY TwoStagesStay
<1>q. \A a \in Errors : Accumulate(a, "EIO") # "ok"
  BY DEF Accumulate
<1>r. d \in Entropy \/ d \notin Entropy
  OBVIOUS
<1>1. CASE UseAfterFree(d) \/ ExhaustedIter(d) \/ DecodeRaced(d) \/ UpdateMetadataOops(d) \/ SubmitFreed(d)
             \/ SubmitTwice(d) \/ SubmitWild(d) \/ FreePagesFault(d)
  BY <1>1, ReadUnchanged DEF Halt, UseAfterFree, ExhaustedIter, DecodeRaced, UpdateMetadataOops, SubmitFreed, SubmitTwice, SubmitWild, FreePagesFault
<1>2. CASE Submit(d) \/ SubmitStale(d)
  BY <1>2, ReadSubmit
<1> USE DEF ReadPlace, Answering, TypeInv, TypeOK
<1>3. CASE EntropyEnter(d) \/ ReadEnter(d) \/ ReadInc(d)
  <2> PICK l \in {"acc", "inc"} : run' = [run EXCEPT ![d] = l]
    BY <1>3 DEF EntropyEnter, ReadEnter, ReadInc
  <2> QED BY <1>3, <1>p, <1>t, ReadMove DEF EntropyEnter, ReadEnter, ReadInc
<1>4. CASE AccumulateError(d)
  <2>1. run' = [run EXCEPT ![d] = "chkerr"]
    BY <1>4 DEF AccumulateError
  <2>2. error' = error \/ error' # "ok"
    BY <1>4, <1>p DEF AccumulateError, Accumulate, HasResult, Running
  <2>3. mem = "live" /\ UNCHANGED <<op, mem, bi_error, ended, skip>>
    BY <1>4 DEF AccumulateError
  <2>4. ReadPlace(d)'
    BY <2>1
  <2> QED BY <1>p, <2>1, <2>2, <2>3, <2>4, <1>t, ReadMove
<1>5. CASE CheckError(d)
  <2> PICK l \in {"finish", "chkcnt", "decode"} :
        /\ run' = [run EXCEPT ![d] = l]
        /\ l = "finish" => error # "ok"
        /\ l = "chkcnt" => d \in Entropy
    BY <1>5 DEF CheckError, Failed
  <2>1. mem = "live" /\ UNCHANGED <<op, mem, bi_error, ended, error, skip>>
    BY <1>5 DEF CheckError
  <2>2. ReadPlace(d)'
    BY <1>5, <1>p, <2>1 DEF CheckError
  <2> QED BY <1>p, <2>1, <2>2, <1>t, ReadMove
<1>6. CASE CheckEntropyCount(d)
  <2> PICK l \in {"done", "search"} : run' = [run EXCEPT ![d] = l]
    BY <1>6 DEF CheckEntropyCount
  <2>1. mem = "live" /\ UNCHANGED <<op, mem, bi_error, ended, error, skip>>
    BY <1>6 DEF CheckEntropyCount
  <2> QED BY <1>p, <2>1, <1>t, ReadMove
<1>7. CASE WriteEnter(d) \/ CheckCarrierCount(d) \/ WriteSearch(d) \/ WriteSearchFull(d)
  BY <1>7, <1>p DEF WriteEnter, CheckCarrierCount, WriteSearch, WriteSearchFull
<1>8. CASE UpdateMetadata(d)
  BY <1>8, <1>p DEF UpdateMetadata, Place
<1>9. CASE ReadStage(d)
  <2>1. \A x \in Bio \ {d} : skip'[x] = skip[x]
    BY <1>9 DEF ReadStage
  <2>2. run' = [run EXCEPT ![d] = "mark"]
    BY <1>9 DEF ReadStage
  <2>3. mem = "live" /\ UNCHANGED <<op, mem, bi_error, ended, error>>
    BY <1>9 DEF ReadStage
  <2>4. ReadPlace(d)'
    BY <2>2
  <2> QED BY <1>p, <2>1, <2>2, <2>3, <2>4, <1>t, ReadMove
<1>10. CASE ReadStageFull(d)
  BY <1>10, <1>p, <1>q, <1>t, ReadMove DEF ReadStageFull
<1>11. CASE Decode(d)
  <2>1. Decodable(erasures) => TwoStages
    BY <1>11, DecodingStages DEF Decode, DecodeNeedsTwoStages
  <2>2. PICK l \in {"finish", "retry"} :
          run' = [run EXCEPT ![d] = l] /\ (l = "finish" => Decodable(erasures))
    BY <1>11 DEF Decode
  <2>3. mem = "live" /\ UNCHANGED <<op, mem, bi_error, ended, error, skip>>
    BY <1>11 DEF Decode
  <2>4. ReadPlace(d)'
    BY <2>1, <2>2, <1>t
  <2> QED BY <1>p, <2>2, <2>3, <2>4, <1>t, ReadMove
<1>12. CASE ReadRetry(d)
  <2>1. PICK l \in {"mark", "finish"} : run' = [run EXCEPT ![d] = l]
    BY <1>12, ReadRetryMoves
  <2>2. l = "finish" => skip'[d] = LastProbe + 1
    <3>1. PICK s \in Probes(skip[d], LastProbe) :
            /\ s <= LastProbe
            /\ skip' = [skip EXCEPT ![d] = Advance(s)]
            /\ Advance(s) <= LastProbe => run' = [run EXCEPT ![d] = "mark"]
      BY <1>12 DEF ReadRetry
    <3>2. s \in Int
      BY DEF Probes
    <3> QED BY <2>1, <3>1, <3>2, LastProbeNat DEF Advance
  <2>3. \A x \in Bio \ {d} : skip'[x] = skip[x]
    BY <1>12 DEF ReadRetry
  <2> QED BY <1>12, <1>p, <2>1, <2>2, <2>3, <1>t, ReadMove DEF ReadRetry
<1>20. CASE MarkErasure(d)
  <2>1. UNCHANGED <<op, mem, run, skip, error, bi_error, ended>> /\ work' = work
    BY <1>20 DEF MarkErasure
  <2> QED BY <2>1, ReadUnchanged
<1>21. CASE EndMarks(d)
  <2>1. run' = [run EXCEPT ![d] = "submit"]
    BY <1>21 DEF EndMarks
  <2>2. mem = "live" /\ UNCHANGED <<op, mem, bi_error, ended, error, skip>>
    BY <1>21 DEF EndMarks
  <2> QED BY <1>p, <2>1, <2>2, <1>t, ReadMove
<1>13. CASE ReadGiveUp(d)
  BY <1>13, <1>p, <1>q, <1>t, ReadMove DEF ReadGiveUp
<1>14. CASE Encode(d)
  <2> PICK l \in {"search", "done"} : run' = [run EXCEPT ![d] = l]
    BY <1>14 DEF Encode, Iteration
  <2>1. mem = "live" /\ UNCHANGED <<op, mem, bi_error, ended, error, skip>>
    BY <1>14 DEF Encode
  <2> QED BY <1>p, <2>1, <1>t, ReadMove
<1>15. CASE Finish(d)
  <2>1. /\ run[d] = "finish" /\ run' = [run EXCEPT ![d] = "pages"] /\ bi_error' = error
        /\ mem = "live" /\ UNCHANGED <<op, mem, work, error, skip, ended>>
    BY <1>15 DEF Finish
  <2>2. error = "ok" => bi_error = "ok"
    BY <1>p DEF ReadInv
  <2>3. ASSUME NEW x \in Bio PROVE ReadPlace(x)'
    <3>1. run'[x] = IF x = d THEN "pages" ELSE run[x]
      BY <2>1
    <3>2. ReadPlace(x)
      BY DEF ReadInv
    <3> QED BY <2>1, <2>2, <3>1, <3>2, <1>p, <1>t
  <2>4. ended = 0
    BY <2>1 DEF ReadInv
  <2> QED BY <2>1, <2>3, <2>4 DEF ReadInv
<1>16. CASE FreePages(d)
  BY <1>16, <1>p, <1>t, ReadMove DEF FreePages
<1>17. CASE PutBio(d)
  <2> PICK l \in {"pages", "free"} : run' = [run EXCEPT ![d] = l]
    BY <1>17 DEF PutBio
  <2>1. mem = "live" /\ UNCHANGED <<op, mem, bi_error, ended, error, skip>>
    BY <1>17 DEF PutBio
  <2>2. ReadPlace(d)'
    BY <1>17, <1>p, <1>t, <2>1 DEF PutBio
  <2> QED BY <1>p, <2>1, <2>2, <1>t, ReadMove
<1>18. CASE FreeIo(d)
  <2>1. /\ run[d] = "free" /\ run' = [run EXCEPT ![d] = "endio"] /\ mem = "live" /\ mem' = "freed"
        /\ UNCHANGED <<op, work, error, skip, ended, bi_error>>
    BY <1>18 DEF FreeIo
  <2>2. ASSUME NEW x \in Bio PROVE ReadPlace(x)'
    <3>1. run'[x] = IF x = d THEN "endio" ELSE run[x]
      BY <2>1
    <3>2. ReadPlace(x)
      BY DEF ReadInv
    <3> QED BY <2>1, <3>1, <3>2, <1>p, <1>t
  <2>3. ended = 0
    BY <2>1 DEF ReadInv
  <2> QED BY <2>1, <2>2, <2>3, <1>p DEF ReadInv
<1>19. CASE EndIo(d)
  <2>1. /\ run[d] = "endio" /\ run' = [run EXCEPT ![d] = "done"] /\ mem = "freed"
        /\ UNCHANGED <<op, mem, work, error, skip, bi_error>>
    BY <1>19, <1>p DEF EndIo, Return, InLoop
  <2>2. ASSUME NEW x \in Bio PROVE ReadPlace(x)'
    <3>1. run'[x] = IF x = d THEN "done" ELSE run[x]
      BY <2>1
    <3>2. ReadPlace(x)
      BY DEF ReadInv
    <3> QED BY <2>1, <3>1, <3>2, <1>t
  <2>3. bi_error' = "ok" => PastLastProbe' \/ TwoStages'
    BY <2>1, <1>p, <1>t DEF PastLastProbe
  <2> QED BY <2>1, <2>2, <2>3, <1>p DEF ReadInv
<1> QED
  BY <1>1, <1>2, <1>3, <1>4, <1>5, <1>6, <1>7, <1>8, <1>9, <1>10, <1>11, <1>12, <1>13, <1>14, <1>15, <1>16, <1>17, <1>18, <1>19, <1>20, <1>21 DEF Handler

LEMMA ReadStep == TypeInv /\ PlaceInv /\ ListInv /\ ReadInv /\ [Next]_vars => ReadInv'
<1> SUFFICES ASSUME TypeInv, PlaceInv, ListInv, ReadInv, [Next]_vars PROVE ReadInv'
  OBVIOUS
<1> USE DEF Halt, worker, locals, shared, base
<1>1. ASSUME NEW o \in {"READ", "WRITE"}, Map(o) \/ MapNoMem(o) \/ MapOops(o)
      PROVE  ReadInv'
  <2>1. /\ op = "none" /\ work = "idle" /\ mem = "none" /\ ended = 0 /\ bi_error = "ok"
        /\ UNCHANGED run /\ \A d \in Bio : run[d] = "idle"
    BY <1>1 DEF Map, MapNoMem, MapOops, ReadInv, PlaceInv
  <2>2. \A d \in Bio : ReadPlace(d)'
    BY <2>1 DEF ReadPlace, Answering, TwoStages
  <2>3. CASE Map(o)
    BY <2>1, <2>2, <2>3 DEF Map, ReadInv
  <2>4. CASE MapNoMem(o)
    BY <2>1, <2>2, <2>4 DEF MapNoMem, ReadInv
  <2>5. CASE MapOops(o)
    BY <2>1, <2>2, <2>5 DEF MapOops, ReadInv
  <2> QED BY <1>1, <2>3, <2>4, <2>5
<1>2. CASE WorkerStart \/ WorkerAlloc \/ WorkerUseAfterFree
  BY <1>2, ReadUnchanged DEF WorkerStart, WorkerAlloc, WorkerUseAfterFree, ReadInv
<1>3. CASE WorkerSubmit
  <2>1. /\ run' = [run EXCEPT ![sub + 1] = "inflight"] /\ mem = "live" /\ op # "none"
        /\ UNCHANGED <<op, mem, skip, error, bi_error, ended>>
    BY <1>3 DEF WorkerSubmit, PlaceInv
  <2>2. ASSUME NEW x \in Bio, ReadPlace(x) PROVE ReadPlace(x)'
    <3>1. run'[x] \in {run[x], "inflight"}
      BY <2>1 DEF TypeInv, TypeOK
    <3> QED BY <2>1, <2>2, <3>1 DEF ReadPlace, Answering, TwoStages
  <2>3. op = "READ" => ended = 0
    BY <2>1 DEF ReadInv, TypeInv, TypeOK
  <2>4. TwoStages => TwoStages'
    BY <2>1 DEF TwoStages
  <2> QED BY <2>1, <2>2, <2>3, <2>4 DEF ReadInv
<1>4. ASSUME NEW d \in Bio, Complete(d) PROVE ReadInv'
  <2>1. /\ run[d] = "inflight" /\ run' = [run EXCEPT ![d] = "enter"]
        /\ UNCHANGED <<op, mem, work, skip, error, bi_error, ended>>
    BY <1>4 DEF Complete
  <2>2. ASSUME NEW x \in Bio, ReadPlace(x) PROVE ReadPlace(x)'
    <3>1. run'[x] \in {run[x], "enter"}
      BY <2>1 DEF TypeInv, TypeOK
    <3> QED BY <2>1, <2>2, <3>1 DEF ReadPlace, Answering, TwoStages
  <2>3. PastLastProbe \/ TwoStages => PastLastProbe' \/ TwoStages'
    BY <2>1 DEF PastLastProbe, TwoStages, TypeInv, TypeOK
  <2> QED BY <2>1, <2>2, <2>3 DEF ReadInv
<1>5. ASSUME NEW d \in Bio, CompleteFreed(d) PROVE ReadInv'
  BY <1>5, ReadUnchanged DEF CompleteFreed
<1>6. ASSUME NEW d \in Bio, Handler(d) PROVE ReadInv'
  <2>1. CASE op = "READ"
    BY <1>6, <2>1, ReadHandler
  <2>2. CASE op # "READ"
    BY <1>6, <2>2, HandlerFrame DEF ReadInv
  <2> QED BY <2>1, <2>2
<1>7. CASE UNCHANGED vars
  BY <1>7, ReadUnchanged DEF vars
<1> QED BY <1>1, <1>2, <1>3, <1>4, <1>5, <1>6, <1>7 DEF Next, Worker, Device

(* In every interleaving a READ is answered with success only by a handler *)
(* that found its last probe free and stepped past the limit, or after two *)
(* entropy handlers both ran the READ stage, without which nothing is      *)
(* decoded.                                                                *)
THEOREM ReadSuccessExplained == Spec => []ReadOkExplained
<1>1. TypeInv /\ PlaceInv /\ ListInv /\ ReadInv => ReadOkExplained
  BY DecodingStages DEF ReadInv, ReadOkExplained, ReadOkOnlyPastLastProbe, PastLastProbe
<1> QED BY <1>1, TypeInit, TypeStep, PlaceInit, PlaceStep, JoinInit, JoinStep, ListInit,
           ListStep, ReadInit, ReadStep, PTL DEF Spec
-----------------------------------------------------------------------------
(* WRITEs.  Where their handlers can stand: only entropy handlers run the  *)
(* WRITE stage, and only they use the loop index and the probe number.     *)

WritePlace(d) ==
  /\ Staging(d) => d \in Entropy
  /\ run[d] \notin {"inc", "mark", "decode", "retry"}
  /\ run[d] \in {"search", "meta", "submit"} => idx[d] < NumCarrier
  /\ run[d] \in {"meta", "submit"} => skip[d] # -1
  /\ idx[d] < NumCarrier => d \in Entropy /\ Staged(d)
  /\ run[d] \in EarlySteps \/ d \notin Entropy => skip[d] = -1
  /\ d \in Wild => run[d] = "idle"
  /\ d \in Entropy /\ run[d] = "chkcnt" => res[d] = "ok"

(* The race the property excuses.  Once two handlers ran the stage they    *)
(* have run it for good.                                                   *)
Two == \E e, f \in Entropy : e # f /\ Staged(e) /\ Staged(f)
Exempt == NumCarrier > 0 /\ Two

EnteredCarriers == {c \in Carrier : run[c] \notin Before}
AllIn == Entered = Entropy /\ EnteredCarriers = Carrier

Excused == {"acc", "chkerr", "chkcnt", "finish"}
Window == \A d \in Entropy \cup Carrier : res[d] = "ok" \/ run[d] \in Excused

(* While the error field is clear, whoever failed has yet to accumulate.   *)
Accounted ==
  error = "ok" => \A d \in Bio : run[d] \in Before \cup {"acc"} \/ res[d] = "ok"

(* A carrier bio was submitted by a handler whose loop is past it, ...     *)
Submitted ==
  \A c \in Carrier : run[c] # "idle" =>
    \E e \in Entropy : Staged(e) /\ run[e] # "encode" /\ CarrierBio(idx[e]) > c

(* ... so that each of them counts itself in once, ...                     *)
Counted == carrier_done = Cardinality(EnteredCarriers)

(* ... and who finishes with a clear error field has seen all of them.     *)
FinishInv == \A d \in Bio : run[d] = "finish" /\ error = "ok" => AllIn

Committed == ended > 0 \/ \E d \in Bio : Answering(d)

CommitInv == Committed /\ bi_error = "ok" => AllIn /\ Window

Fresh ==
  /\ idx = [d \in Bio |-> NumCarrier] /\ skip = [d \in Bio |-> -1]
  /\ carrier_done = 0 /\ ended = 0 /\ bi_error = "ok"

OneStager == Submitted /\ Counted /\ FinishInv /\ CommitInv

WriteInv ==
  /\ op = "none" => Fresh
  /\ op = "WRITE" =>
       /\ \A d \in Bio : WritePlace(d)
       /\ Accounted
       /\ Exempt \/ OneStager

LEMMA WriteInit == Init => WriteInv
BY DEF Init, WriteInv, Fresh

LEMMA WriteUnchanged ==
  ASSUME WriteInv, op' = "none" => op = "none", op' = "WRITE" => op = "WRITE",
         UNCHANGED <<locals, carrier_done, run, res, error, bi_error, ended>>
  PROVE  WriteInv'
<1> USE DEF locals
<1>1. /\ Exempt => Exempt'
      /\ Submitted => Submitted'
      /\ \A d \in Bio : WritePlace(d) => WritePlace(d)'
  BY DEF Exempt, Two, Submitted, WritePlace, Staged, Staging
<1>2. /\ Counted => Counted'
      /\ FinishInv => FinishInv'
      /\ CommitInv => CommitInv'
      /\ Accounted => Accounted'
  BY DEF Counted, FinishInv, CommitInv, AllIn, Entered, EnteredCarriers, Committed,
         Answering, Window, Accounted
<1> QED BY <1>1, <1>2 DEF WriteInv, Fresh, OneStager

(* The carrier bios are those after the entropy bios. *)
LEMMA CarrierFinite ==
  /\ IsFiniteSet(Carrier) /\ Cardinality(Carrier) = NumCarrier
  /\ \A S \in SUBSET Carrier : IsFiniteSet(S) /\ (Cardinality(S) = NumCarrier => S = Carrier)
<1> DEFINE a == NumEntropy + 1
           b == NumEntropy + NumCarrier
<1>1. Carrier = a .. b /\ a \in Int /\ b \in Int /\ b - a + 1 = NumCarrier
  BY SMT DEF Carrier, CarrierBio
<1> HIDE DEF a, b
<1>2. IsFiniteSet(a .. b) /\ Cardinality(a .. b) = IF a > b THEN 0 ELSE b - a + 1
  BY <1>1, FS_Interval
<1>3. IsFiniteSet(Carrier) /\ Cardinality(Carrier) = NumCarrier
  BY <1>1, <1>2
<1> QED BY <1>3, FS_Subset

LEMMA StagedMonotone ==
  ASSUME \A x \in Entropy : Staged(x) => Staged(x)', Exempt
  PROVE  Exempt'
BY DEF Exempt, Two

(* A handler moves on among its steps. *)
LEMMA WriteMove ==
  ASSUME TypeInv, WriteInv, op = "WRITE", NEW d \in Bio, NEW l \in Steps \ Before,
         run[d] \notin Before, run' = [run EXCEPT ![d] = l],
         UNCHANGED <<op, carrier_done, ended, res, bi_error>>,
         error' = error \/ error' # "ok",
         \A x \in Bio \ {d} : skip'[x] = skip[x] /\ idx'[x] = idx[x],
         WritePlace(d)',
         Staged(d) /\ (NumCarrier > 0 \/ run[d] # "encode") => Staged(d)',
         Staged(d) /\ run[d] # "encode" => l # "encode" /\ idx'[d] = idx[d],
         error' = "ok" => l = "acc" \/ res[d] = "ok",
         l = "finish" /\ error' = "ok" /\ OneStager => AllIn,
         l \in {"pages", "put", "free", "endio"} => Answering(d),
         OneStager /\ AllIn /\ run[d] \in Excused => res[d] = "ok" \/ l \in Excused
  PROVE  WriteInv'
<1> USE DEF TypeInv, TypeOK
<1>1. \A x \in Bio \ {d} : run'[x] = run[x] /\ (Staged(x)' <=> Staged(x))
  BY DEF Staged, Staging
<1>2. \A x \in Bio : WritePlace(x)'
  <2> SUFFICES ASSUME NEW x \in Bio, x # d PROVE WritePlace(x)'
    OBVIOUS
  <2>1. WritePlace(x) /\ run'[x] = run[x] /\ skip'[x] = skip[x] /\ idx'[x] = idx[x]
    BY DEF WriteInv
  <2> QED BY <2>1 DEF WritePlace, Staged, Staging
<1>3. Accounted'
  BY <1>1 DEF WriteInv, Accounted
<1>4. Entered' = Entered /\ EnteredCarriers' = EnteredCarriers
  BY DEF Entered, EnteredCarriers, Before, Bio
<1>5. ASSUME Exempt PROVE Exempt'
  <2>1. \A x \in Entropy : Staged(x) => Staged(x)'
    BY <1>1, <1>5 DEF Exempt, Bio
  <2> QED BY <2>1, <1>5, StagedMonotone
<1>6. ASSUME OneStager PROVE OneStager'
  <2>1. Submitted'
    <3> SUFFICES ASSUME NEW c \in Carrier, run'[c] # "idle"
                 PROVE  \E e \in Entropy : Staged(e)' /\ run'[e] # "encode"
                                           /\ CarrierBio(idx'[e]) > c
      BY DEF Submitted, CarrierBio
    <3>1. run[c] # "idle"
      BY <1>1 DEF Bio, Before
    <3>2. PICK e \in Entropy : Staged(e) /\ run[e] # "encode" /\ CarrierBio(idx[e]) > c
      BY <1>6, <3>1 DEF OneStager, Submitted
    <3>3. Staged(e)' /\ run'[e] # "encode" /\ idx'[e] = idx[e]
      BY <1>1, <3>2 DEF Bio
    <3> QED BY <3>2, <3>3
  <2>2. Counted'
    BY <1>4, <1>6 DEF OneStager, Counted
  <2>3. FinishInv'
    BY <1>1, <1>4, <1>6 DEF OneStager, FinishInv, AllIn
  <2>4. CommitInv'
    <3> SUFFICES ASSUME Committed', bi_error = "ok" PROVE AllIn /\ Window'
      BY <1>4 DEF CommitInv, AllIn
    <3>1. Committed
      BY <1>1 DEF Committed, Answering
    <3>2. AllIn /\ Window
      BY <1>6, <3>1 DEF OneStager, CommitInv
    <3>3. \A x \in Entropy \cup Carrier : x \in Bio
      BY DEF Bio
    <3> QED BY <1>1, <1>6, <3>2, <3>3 DEF Window
  <2> QED BY <2>1, <2>2, <2>3, <2>4 DEF OneStager
<1> QED BY <1>2, <1>3, <1>5, <1>6 DEF WriteInv

(* A handler counts itself in: until then nothing was finished that waits  *)
(* for all of them.                                                        *)
LEMMA WriteCountIn ==
  ASSUME TypeInv, PlaceInv, WriteInv, op = "WRITE", NEW d \in Bio,
         EntropyEnter(d) \/ WriteEnter(d)
  PROVE  WriteInv'
<1> USE DEF TypeInv, TypeOK, locals, worker, base, At, Goto
<1>1. /\ run[d] = "enter" /\ run' = [run EXCEPT ![d] = "acc"]
      /\ UNCHANGED <<op, skip, idx, error, bi_error, ended, res>>
  BY DEF EntropyEnter, WriteEnter
<1>2. \A x \in Bio : WritePlace(x)
  BY DEF WriteInv
<1>3. d \notin Wild /\ d \in Entropy \cup Carrier
  BY <1>1, <1>2 DEF WritePlace, Bio
<1>4. ~AllIn
  BY <1>1, <1>3 DEF AllIn, Entered, EnteredCarriers, Before
<1>5. \A x \in Bio : Staged(x)' <=> Staged(x)
  BY <1>1 DEF Staged, Staging
<1>6. \A x \in Bio : WritePlace(x)'
  <2> SUFFICES ASSUME NEW x \in Bio PROVE WritePlace(x)'
    OBVIOUS
  <2>1. CASE x = d
    BY <1>1, <1>2, <1>5, <2>1 DEF WritePlace, Staging, EarlySteps, Before
  <2>2. CASE x # d
    BY <1>1, <1>2, <1>5, <2>2 DEF WritePlace, Staging
  <2> QED BY <2>1, <2>2
<1>7. Accounted'
  BY <1>1 DEF WriteInv, Accounted
<1>8. ASSUME Exempt PROVE Exempt'
  BY <1>5, <1>8, StagedMonotone DEF Bio
<1>9. ASSUME OneStager PROVE OneStager'
  <2>1. Submitted'
    BY <1>1, <1>5, <1>9 DEF OneStager, Submitted, CarrierBio, Bio
  <2>2. Counted'
    <3>1. CASE d \in Entropy
      <4>1. EnteredCarriers' = EnteredCarriers
        BY <1>1, <3>1, Disjoint DEF EnteredCarriers, Before
      <4>2. carrier_done' = carrier_done
        BY <3>1, <1>1 DEF EntropyEnter, WriteEnter
      <4> QED BY <1>9, <4>1, <4>2 DEF OneStager, Counted
    <3>2. CASE d \notin Entropy
      <4>1. EnteredCarriers' = EnteredCarriers \cup {d} /\ d \notin EnteredCarriers
        BY <1>1, <1>3, <3>2 DEF EnteredCarriers, Before, Bio
      <4>2. carrier_done' = carrier_done + 1
        BY <3>2 DEF EntropyEnter, WriteEnter
      <4>3. IsFiniteSet(EnteredCarriers)
        BY CarrierFinite DEF EnteredCarriers
      <4>4. Cardinality(EnteredCarriers \cup {d}) = Cardinality(EnteredCarriers) + 1
        BY <4>1, <4>3, FS_AddElement
      <4> QED BY <1>9, <4>1, <4>2, <4>4 DEF OneStager, Counted
    <3> QED BY <3>1, <3>2
  <2>3. FinishInv'
    <3>1. ~ \E x \in Bio : run[x] = "finish" /\ error = "ok"
      BY <1>4, <1>9 DEF OneStager, FinishInv
    <3> QED BY <1>1, <3>1 DEF FinishInv
  <2>4. CommitInv'
    <3>1. ~ (Committed /\ bi_error = "ok")
      BY <1>4, <1>9 DEF OneStager, CommitInv
    <3>2. Committed' => Committed
      BY <1>1 DEF Committed, Answering
    <3> QED BY <1>1, <3>1, <3>2 DEF CommitInv
  <2> QED BY <2>1, <2>2, <2>3, <2>4 DEF OneStager
<1> QED BY <1>1, <1>6, <1>7, <1>8, <1>9 DEF WriteInv

(* Where a handler of the WRITE stage submits to. *)
LEMMA WriteTarget ==
  ASSUME TypeInv, WriteInv, op = "WRITE", NEW d \in Bio, run[d] = "submit"
  PROVE  /\ d \in Entropy /\ idx[d] < NumCarrier /\ idx[d] \in Nat /\ skip[d] # -1
         /\ Target(d) = CarrierBio(idx[d]) /\ Target(d) \in Carrier
         /\ Target(d) # d /\ Target(d) \notin Wild
         /\ ~Exempt => run[Target(d)] = "idle"
<1>1. WritePlace(d)
  BY DEF WriteInv
<1>2. d \in Entropy /\ idx[d] < NumCarrier /\ idx[d] \in Nat /\ skip[d] # -1
  BY <1>1 DEF WritePlace, Staging, PastEnd, TypeInv, TypeOK
<1>3. /\ Target(d) = CarrierBio(idx[d]) /\ Target(d) \in Carrier
      /\ Target(d) # d /\ Target(d) \notin Wild
  BY <1>2, Disjoint DEF Target, Carrier, CarrierBio, Wild, PastEnd
<1>4. ASSUME ~Exempt, run[Target(d)] # "idle" PROVE FALSE
  <2>1. PICK e \in Entropy : Staged(e) /\ CarrierBio(idx[e]) > Target(d)
    BY <1>3, <1>4 DEF WriteInv, OneStager, Submitted
  <2>2. e # d
    BY <1>2, <1>3, <2>1 DEF CarrierBio
  <2>3. Staged(d)
    BY <1>2 DEF Staged
  <2> QED BY <1>2, <1>4, <2>1, <2>2, <2>3 DEF Exempt, Two
<1> QED BY <1>2, <1>3, <1>4

(* A carrier bio is submitted: by the only handler that runs the stage, so *)
(* that it was never submitted before.                                     *)
LEMMA WriteSubmit ==
  ASSUME TypeInv, PlaceInv, JoinInv, WriteInv, op = "WRITE", NEW d \in Bio,
         Submit(d) \/ SubmitStale(d)
  PROVE  WriteInv'
<1> USE DEF TypeInv, TypeOK, locals, worker, base, shared
<1> DEFINE c == Target(d)
<1>1. /\ run[d] = "submit"
      /\ run' = [run EXCEPT ![d] = Return(d), ![c] = "inflight"]
      /\ idx' = [idx EXCEPT ![d] = IF InLoop(d) THEN @ + 1 ELSE @]
      /\ UNCHANGED <<op, skip, error, bi_error, ended, res, carrier_done>>
  BY DEF Submit, SubmitStale, At, NextIteration
<1>2. \A x \in Bio : WritePlace(x)
  BY DEF WriteInv
<1>3. d \in Entropy /\ idx[d] < NumCarrier /\ idx[d] \in Nat /\ skip[d] # -1
  BY <1>1, WriteTarget
<1>4. /\ c = CarrierBio(idx[d]) /\ c \in Carrier /\ c # d /\ c \notin Wild
      /\ idx' = [idx EXCEPT ![d] = idx[d] + 1]
      /\ ~Exempt => run[c] = "idle"
  BY <1>1, <1>3, WriteTarget DEF InLoop
<1> HIDE DEF c
<1>5. Return(d) = (IF idx[d] + 1 < NumCarrier THEN "search" ELSE "done")
  BY <1>3 DEF Return, InLoop, Iteration
<1>6. /\ run'[d] \in {"search", "done"} /\ run'[c] = "inflight" /\ c \in Bio
      /\ run'[d] = "search" <=> idx[d] + 1 < NumCarrier
      /\ \A x \in Bio \ {c, d} : run'[x] = run[x] /\ idx'[x] = idx[x]
  BY <1>1, <1>4, <1>5 DEF Bio
<1>7. \A x \in Bio : WritePlace(x)'
  <2> SUFFICES ASSUME NEW x \in Bio PROVE WritePlace(x)'
    OBVIOUS
  <2>1. CASE x = d
    BY <1>1, <1>2, <1>3, <1>4, <1>6, <2>1, Disjoint DEF WritePlace, Staged, Staging, EarlySteps, Before
  <2>2. CASE x = c
    BY <1>1, <1>2, <1>3, <1>4, <1>6, <2>2, Disjoint DEF WritePlace, Staged, Staging, EarlySteps, Before
  <2>3. CASE x \notin {c, d}
    BY <1>1, <1>2, <1>6, <2>3 DEF WritePlace, Staged, Staging
  <2> QED BY <2>1, <2>2, <2>3
<1>8. Accounted'
  BY <1>1, <1>4, <1>6 DEF WriteInv, Accounted, Before
<1>9. \A x \in Entropy : Staged(x) => Staged(x)'
  <2> SUFFICES ASSUME NEW x \in Entropy, Staged(x), x # d PROVE Staged(x)'
    BY <1>1, <1>3 DEF Staged
  <2>1. x \in Bio \ {c, d}
    BY <1>4, Disjoint DEF Bio
  <2> QED BY <1>1, <1>6, <2>1 DEF Staged, Staging
<1>10. ASSUME Exempt PROVE Exempt'
  BY <1>9, <1>10, StagedMonotone
<1>11. ASSUME ~Exempt, OneStager PROVE OneStager'
  <2>1. run[c] = "idle"
    BY <1>4, <1>11
  <2>2. ~AllIn
    BY <1>4, <2>1 DEF AllIn, EnteredCarriers, Before
  <2>3. Submitted'
    <3> SUFFICES ASSUME NEW k \in Carrier, run'[k] # "idle"
                 PROVE  \E e \in Entropy : Staged(e)' /\ run'[e] # "encode"
                                           /\ CarrierBio(idx'[e]) > k
      BY DEF Submitted, CarrierBio
    <3>0. Staged(d)' /\ run'[d] # "encode" /\ idx'[d] = idx[d] + 1
      BY <1>1, <1>3, <1>4, <1>6 DEF Staged
    <3>1. CASE k = c
      BY <1>3, <1>4, <3>0, <3>1 DEF CarrierBio
    <3>2. CASE k # c
      <4>1. run[k] # "idle"
        BY <1>3, <1>6, <3>2, Disjoint DEF Bio
      <4>2. PICK e \in Entropy : Staged(e) /\ run[e] # "encode" /\ CarrierBio(idx[e]) > k
        BY <1>11, <4>1 DEF OneStager, Submitted
      <4>3. CASE e = d
        BY <1>3, <3>0, <4>2, <4>3 DEF CarrierBio, Carrier
      <4>4. CASE e # d
        <5>1. e \in Bio \ {c, d}
          BY <1>4, <4>4, Disjoint DEF Bio
        <5> QED BY <1>6, <1>9, <4>2, <5>1
      <4> QED BY <4>3, <4>4
    <3> QED BY <3>1, <3>2
  <2>4. Counted'
    <3>1. EnteredCarriers' = EnteredCarriers
      BY <1>3, <1>6, <2>1, Disjoint DEF EnteredCarriers, Before, Bio
    <3> QED BY <1>1, <1>11, <3>1 DEF OneStager, Counted
  <2>5. FinishInv'
    <3>1. ~ \E x \in Bio : run[x] = "finish" /\ error = "ok"
      BY <1>11, <2>2 DEF OneStager, FinishInv
    <3> QED BY <1>1, <1>6, <3>1 DEF FinishInv
  <2>6. CommitInv'
    <3>1. ~ (Committed /\ bi_error = "ok")
      BY <1>11, <2>2 DEF OneStager, CommitInv
    <3>2. Committed' => Committed
      BY <1>1, <1>6 DEF Committed, Answering
    <3> QED BY <1>1, <3>1, <3>2 DEF CommitInv
  <2> QED BY <2>3, <2>4, <2>5, <2>6 DEF OneStager
<1> QED BY <1>1, <1>7, <1>8, <1>10, <1>11 DEF WriteInv

(* The error field is copied to the base bio: if it is clear, every block  *)
(* was counted in, and those that failed are still to accumulate.          *)
LEMMA WriteFinish ==
  ASSUME TypeInv, WriteInv, op = "WRITE", NEW d \in Bio, Finish(d)
  PROVE  WriteInv'
<1> USE DEF TypeInv, TypeOK, locals, worker, base, shared
<1>1. /\ run[d] = "finish" /\ run' = [run EXCEPT ![d] = "pages"] /\ bi_error' = error
      /\ UNCHANGED <<op, skip, idx, error, ended, res, carrier_done>>
  BY DEF Finish, At, Goto
<1>2. \A x \in Bio : WritePlace(x) /\ (Staged(x)' <=> Staged(x))
  BY <1>1 DEF WriteInv, Staged, Staging
<1>3. \A x \in Bio : WritePlace(x)'
  <2> SUFFICES ASSUME NEW x \in Bio PROVE WritePlace(x)'
    OBVIOUS
  <2>1. run'[x] = IF x = d THEN "pages" ELSE run[x]
    BY <1>1
  <2> QED BY <1>1, <1>2, <2>1 DEF WritePlace, Staging, EarlySteps, Before
<1>4. Accounted'
  BY <1>1 DEF WriteInv, Accounted, Before
<1>5. ASSUME Exempt PROVE Exempt'
  BY <1>2, <1>5, StagedMonotone DEF Bio
<1>6. ASSUME OneStager PROVE OneStager'
  <2>1. Submitted'
    BY <1>1, <1>2, <1>6 DEF OneStager, Submitted, CarrierBio, Bio
  <2>2. Entered' = Entered /\ EnteredCarriers' = EnteredCarriers
    BY <1>1 DEF Entered, EnteredCarriers, Before, Bio
  <2>3. Counted' /\ FinishInv'
    BY <1>1, <1>6, <2>2 DEF OneStager, Counted, FinishInv, AllIn
  <2>4. ASSUME error = "ok" PROVE AllIn /\ Window'
    <3>1. AllIn
      BY <1>1, <1>6, <2>4 DEF OneStager, FinishInv
    <3>2. ASSUME NEW x \in Entropy \cup Carrier PROVE res[x] = "ok" \/ run[x] = "acc"
      <4>1. x \in Bio /\ run[x] \notin Before
        BY <3>1 DEF AllIn, Entered, EnteredCarriers, Before, Bio
      <4> QED BY <2>4, <4>1 DEF WriteInv, Accounted
    <3>3. ASSUME NEW x \in Entropy \cup Carrier PROVE res'[x] = "ok" \/ run'[x] \in Excused
      BY <1>1, <3>2 DEF Excused, Bio
    <3> QED BY <3>1, <3>3 DEF Window
  <2>5. CommitInv'
    BY <1>1, <2>2, <2>4 DEF CommitInv, AllIn
  <2> QED BY <2>1, <2>3, <2>5 DEF OneStager
<1> QED BY <1>1, <1>3, <1>4, <1>5, <1>6 DEF WriteInv

(* The base bio is answered, and a handler of the WRITE stage goes on with *)
(* its loop.                                                               *)
LEMMA WriteEndIo ==
  ASSUME TypeInv, WriteInv, op = "WRITE", NEW d \in Bio, EndIo(d)
  PROVE  WriteInv'
<1> USE DEF TypeInv, TypeOK, locals, worker, base, shared
<1>1. /\ run[d] = "endio" /\ run' = [run EXCEPT ![d] = Return(d)]
      /\ idx' = [idx EXCEPT ![d] = IF InLoop(d) THEN @ + 1 ELSE @]
      /\ UNCHANGED <<op, skip, error, bi_error, res, carrier_done>>
  BY DEF EndIo, At, Goto, NextIteration
<1>2. \A x \in Bio : WritePlace(x)
  BY DEF WriteInv
<1>3. /\ idx[d] < NumCarrier => d \in Entropy /\ skip[d] # -1
      /\ Staged(d) => skip[d] # -1
      /\ idx[d] \in Nat
  <2>1. ~Staging(d)
    BY <1>1 DEF Staging
  <2>2. idx[d] \in 0 .. NumCarrier \cup {PastEnd}
    OBVIOUS
  <2>3. idx[d] < NumCarrier => d \in Entropy /\ Staged(d)
    BY <1>2 DEF WritePlace
  <2> QED BY <2>1, <2>2, <2>3 DEF Staged, PastEnd
<1>4. /\ run'[d] \in {"search", "done"}
      /\ run'[d] = "search" => d \in Entropy /\ idx'[d] < NumCarrier
      /\ idx'[d] >= idx[d] /\ (idx'[d] < NumCarrier => idx[d] < NumCarrier)
      /\ skip'[d] = skip[d]
      /\ \A x \in Bio \ {d} : run'[x] = run[x] /\ idx'[x] = idx[x]
  BY <1>1, <1>3 DEF Return, InLoop, Iteration
<1>5. \A x \in Bio : Staged(x) => Staged(x)'
  BY <1>1, <1>3, <1>4 DEF Staged, Staging
<1>6. \A x \in Bio : WritePlace(x)'
  <2> SUFFICES ASSUME NEW x \in Bio PROVE WritePlace(x)'
    OBVIOUS
  <2>1. CASE x = d
    BY <1>1, <1>2, <1>3, <1>4, <2>1 DEF WritePlace, Staged, Staging, EarlySteps, Before
  <2>2. CASE x # d
    BY <1>1, <1>2, <1>4, <2>2 DEF WritePlace, Staged, Staging
  <2> QED BY <2>1, <2>2
<1>7. Accounted'
  BY <1>1, <1>4 DEF WriteInv, Accounted, Before
<1>8. ASSUME Exempt PROVE Exempt'
  BY <1>5, <1>8, StagedMonotone DEF Bio
<1>9. ASSUME OneStager PROVE OneStager'
  <2>1. Submitted'
    <3> SUFFICES ASSUME NEW c \in Carrier, run'[c] # "idle"
                 PROVE  \E e \in Entropy : Staged(e)' /\ run'[e] # "encode"
                                           /\ CarrierBio(idx'[e]) > c
      BY DEF Submitted, CarrierBio
    <3>1. run[c] # "idle" /\ c \in Nat
      BY <1>1, <1>4 DEF Bio, Carrier, CarrierBio
    <3>2. PICK e \in Entropy : Staged(e) /\ run[e] # "encode" /\ CarrierBio(idx[e]) > c
      BY <1>9, <3>1 DEF OneStager, Submitted
    <3>3. e \in Bio
      BY DEF Bio
    <3>4. Staged(e)' /\ run'[e] # "encode" /\ idx'[e] >= idx[e] /\ idx'[e] \in Nat /\ idx[e] \in Nat
      BY <1>1, <1>3, <1>4, <1>5, <3>2, <3>3 DEF PastEnd
    <3> QED BY <3>1, <3>2, <3>4 DEF CarrierBio
  <2>2. Entered' = Entered /\ EnteredCarriers' = EnteredCarriers
    BY <1>1, <1>4 DEF Entered, EnteredCarriers, Before, Bio
  <2>3. Counted' /\ FinishInv'
    BY <1>1, <1>4, <1>9, <2>2 DEF OneStager, Counted, FinishInv, AllIn
  <2>4. CommitInv'
    <3> SUFFICES ASSUME bi_error = "ok" PROVE AllIn /\ Window'
      BY <1>1, <2>2 DEF CommitInv, AllIn
    <3>1. AllIn /\ Window
      BY <1>1, <1>9 DEF OneStager, CommitInv, Committed, Answering
    <3> QED BY <1>1, <1>4, <3>1 DEF Window, Excused, Bio
  <2> QED BY <2>1, <2>3, <2>4 DEF OneStager
<1> QED BY <1>1, <1>6, <1>7, <1>8, <1>9 DEF WriteInv

LEMMA WriteHandler ==
  ASSUME TypeInv, PlaceInv, JoinInv, WriteInv, op = "WRITE", NEW d \in Bio, Handler(d)
  PROVE  WriteInv'
<1> USE DEF At, Goto, Steps, worker, shared, base, locals
<1>p. /\ run[d] \in Running /\ op' = op /\ WritePlace(d) /\ Place(d) /\ res'= res
      /\ error = "ok" => run[d] \in Before \cup {"acc"} \/ res[d] = "ok"
      /\ res[d] \in Errors /\ error \in Errors
  BY HandlerFrame DEF WriteInv, PlaceInv, Accounted, TypeInv, TypeOK, HasResult, Running
<1>q. \A a \in Errors, b \in Errors :
        (Accumulate(a, b) = "ok") => a = "ok" /\ b = "ok"
  BY DEF Accumulate
<1>1. CASE UseAfterFree(d) \/ ExhaustedIter(d) \/ DecodeRaced(d) \/ UpdateMetadataOops(d) \/ SubmitFreed(d)
             \/ SubmitTwice(d) \/ SubmitWild(d) \/ FreePagesFault(d)
  BY <1>1, WriteUnchanged DEF Halt, UseAfterFree, ExhaustedIter, DecodeRaced, UpdateMetadataOops, SubmitFreed, SubmitTwice, SubmitWild, FreePagesFault
<1>2. CASE Submit(d) \/ SubmitStale(d)
  BY <1>2, WriteSubmit
<1>3. CASE EntropyEnter(d) \/ WriteEnter(d)
  BY <1>3, WriteCountIn
<1>4. CASE Finish(d)
  BY <1>4, WriteFinish
<1>5. CASE EndIo(d)
  BY <1>5, WriteEndIo
<1>6. CASE ReadEnter(d) \/ ReadStage(d) \/ ReadStageFull(d) \/ MarkErasure(d) \/ EndMarks(d) \/ Decode(d) \/ ReadRetry(d)
           \/ ReadGiveUp(d)
  BY <1>6, <1>p DEF ReadEnter, ReadStage, ReadStageFull, MarkErasure, EndMarks, Decode, ReadRetry, ReadGiveUp, WritePlace, Staging
<1> USE DEF TypeInv, TypeOK, WritePlace, Staged, Staging, EarlySteps, Before, Excused, Answering
<1>7. CASE AccumulateError(d)
  <2> PICK l \in {"chkerr", "chkcnt"} : run' = [run EXCEPT ![d] = l] /\ (l = "chkcnt" => d \notin Entropy)
    BY <1>7 DEF AccumulateError
  <2>1. error' = "ok" => error = "ok" /\ res[d] = "ok"
    BY <1>7, <1>p, <1>q DEF AccumulateError
  <2>2. run[d] = "acc" /\ UNCHANGED <<op, skip, idx, carrier_done, ended, res, bi_error>>
    BY <1>7 DEF AccumulateError
  <2>3. error' = error \/ error' # "ok"
    BY <2>1
  <2> QED BY <1>p, <2>1, <2>2, <2>3, WriteMove
<1>8. CASE CheckError(d)
  <2>0. d \in Entropy
    BY <1>8, <1>p DEF CheckError, Place
  <2> PICK l \in {"finish", "chkcnt"} : run' = [run EXCEPT ![d] = l] /\ (error = "ok" <=> l = "chkcnt")
    BY <1>8, <2>0 DEF CheckError, Failed
  <2>1. run[d] = "chkerr" /\ UNCHANGED <<op, skip, idx, error, carrier_done, ended, res, bi_error>>
    BY <1>8 DEF CheckError
  <2> QED BY <1>p, <2>0, <2>1, WriteMove
<1>9. CASE CheckEntropyCount(d)
  <2> PICK l \in {"done", "encode"} : run' = [run EXCEPT ![d] = l]
    BY <1>9 DEF CheckEntropyCount
  <2>1. /\ run[d] = "chkcnt" /\ d \in Entropy
        /\ UNCHANGED <<op, skip, idx, error, carrier_done, ended, res, bi_error>>
    BY <1>9 DEF CheckEntropyCount
  <2> QED BY <1>p, <2>1, WriteMove
<1>10. CASE CheckCarrierCount(d)
  <2>1. /\ run[d] = "chkcnt" /\ d \notin Entropy
        /\ UNCHANGED <<op, skip, idx, error, carrier_done, ended, res, bi_error>>
    BY <1>10 DEF CheckCarrierCount
  <2> PICK l \in {"done", "finish"} :
        run' = [run EXCEPT ![d] = l] /\ (l = "finish" <=> carrier_done = NumCarrier)
    BY <1>10 DEF CheckCarrierCount, AllWritten
  <2>2. Entered = Entropy
    BY <2>1 DEF JoinInv, Started, StageOf
  <2>3. OneStager => (carrier_done = NumCarrier <=> EnteredCarriers = Carrier)
    BY CarrierFinite DEF OneStager, Counted, EnteredCarriers
  <2>4. OneStager => (l = "finish" <=> AllIn)
    BY <2>2, <2>3 DEF AllIn
  <2> QED BY <1>p, <2>1, <2>4, WriteMove
<1>11. CASE Encode(d)
  <2> PICK l \in {"done", "search"} : run' = [run EXCEPT ![d] = l] /\ (l = "search" <=> 0 < NumCarrier)
    BY <1>11 DEF Encode, Iteration
  <2>1. /\ run[d] = "encode" /\ d \in Entropy /\ idx'[d] = 0
        /\ \A x \in Bio \ {d} : idx'[x] = idx[x]
        /\ UNCHANGED <<op, skip, error, carrier_done, ended, res, bi_error>>
    BY <1>11, <1>p DEF Encode
  <2> QED BY <1>p, <2>1, WriteMove
<1>12. CASE WriteSearch(d)
  <2>1. /\ run[d] = "search" /\ run' = [run EXCEPT ![d] = "meta"]
        /\ UNCHANGED <<op, idx, error, carrier_done, ended, res, bi_error>>
    BY <1>12 DEF WriteSearch
  <2>2. skip'[d] # -1 /\ \A x \in Bio \ {d} : skip'[x] = skip[x]
    <3>1. PICK n \in Probes(skip[d] + 1, MaxSkip) : skip' = [skip EXCEPT ![d] = n]
      BY <1>12 DEF WriteSearch
    <3>2. skip[d] \in Nat \cup {-1} /\ n \in skip[d] + 1 .. MaxSkip + 1
      BY <3>1 DEF Probes
    <3> QED BY <3>1, <3>2
  <2> QED BY <1>p, <2>1, <2>2, WriteMove
<1>13. CASE WriteSearchFull(d)
  <2>1. /\ run[d] = "search" /\ run' = [run EXCEPT ![d] = "finish"]
        /\ UNCHANGED <<op, idx, carrier_done, ended, res, bi_error>>
        /\ error' = Accumulate(error, "EIO")
    BY <1>13 DEF WriteSearchFull
  <2>2. skip'[d] # -1 /\ \A x \in Bio \ {d} : skip'[x] = skip[x]
    BY <1>13 DEF WriteSearchFull
  <2>3. error' # "ok"
    BY <1>p, <1>q, <2>1 DEF Errors
  <2> QED BY <1>p, <2>1, <2>2, <2>3, WriteMove
<1>14. CASE UpdateMetadata(d)
  <2> PICK r \in MetaOutcomes \ {"oops"} :
        /\ error' = IF r = "ok" THEN error ELSE Accumulate(error, r)
        /\ run' = [run EXCEPT ![d] = IF r = "ok" THEN "submit" ELSE "finish"]
    BY <1>14 DEF UpdateMetadata
  <2> DEFINE l == IF r = "ok" THEN "submit" ELSE "finish"
  <2>1. run[d] = "meta" /\ UNCHANGED <<op, skip, idx, carrier_done, ended, res, bi_error>>
    BY <1>14 DEF UpdateMetadata
  <2>2. /\ l \in {"submit", "finish"} /\ run' = [run EXCEPT ![d] = l]
        /\ l = "submit" => error' = error
        /\ l = "finish" => error' # "ok"
    BY <1>p, <1>q DEF Errors
  <2> HIDE DEF l
  <2>3. error' = error \/ error' # "ok"
    BY <2>2
  <2>4. /\ skip'[d] # -1 /\ idx'[d] < NumCarrier /\ d \in Entropy /\ skip'[d] = skip[d]
        /\ run'[d] = l /\ idx'[d] = idx[d]
    BY <1>p, <2>1, <2>2
  <2>5. WritePlace(d)'
    BY <2>2, <2>4, Disjoint
  <2>6. error' = "ok" => res[d] = "ok"
    BY <1>p, <2>1, <2>2
  <2>7. Staged(d)' /\ l # "encode" /\ l \in Steps \ Before /\ run[d] \notin Before \cup Excused
    BY <2>1, <2>2, <2>4
  <2>8. l = "finish" /\ error' = "ok" /\ OneStager => AllIn
    BY <2>2
  <2>9. l \notin {"pages", "put", "free", "endio"}
    BY <2>2
  <2> HIDE DEF Staged, Staging, WritePlace, Before, Excused
  <2> QED BY <2>1, <2>2, <2>3, <2>4, <2>5, <2>6, <2>7, <2>8, <2>9, WriteMove
<1>15. CASE FreePages(d)
  BY <1>15, <1>p, WriteMove DEF FreePages
<1>16. CASE PutBio(d)
  <2> PICK l \in {"pages", "free"} : run' = [run EXCEPT ![d] = l]
    BY <1>16 DEF PutBio
  <2>1. run[d] = "put" /\ UNCHANGED <<op, skip, idx, error, carrier_done, ended, res, bi_error>>
    BY <1>16 DEF PutBio
  <2> QED BY <1>p, <2>1, WriteMove
<1>17. CASE FreeIo(d)
  BY <1>17, <1>p, WriteMove DEF FreeIo
<1>18. CASE ReadInc(d)
  BY <1>18, <1>p DEF ReadInc
<1> QED
  BY <1>1, <1>2, <1>3, <1>4, <1>5, <1>6, <1>7, <1>8, <1>9, <1>10, <1>11, <1>12, <1>13, <1>14, <1>15, <1>16, <1>17, <1>18 DEF Handler

LEMMA WriteStep == TypeInv /\ PlaceInv /\ JoinInv /\ WriteInv /\ [Next]_vars => WriteInv'
<1> SUFFICES ASSUME TypeInv, PlaceInv, JoinInv, WriteInv, [Next]_vars PROVE WriteInv'
  OBVIOUS
<1> USE DEF Halt, worker, locals, shared, base
<1>1. ASSUME NEW o \in {"READ", "WRITE"}, Map(o) \/ MapNoMem(o) \/ MapOops(o)
      PROVE  WriteInv'
  <2>1. /\ op = "none" /\ op' # "none" /\ Fresh /\ \A d \in Bio : run[d] = "idle"
        /\ UNCHANGED <<run, locals, carrier_done>>
        /\ ended' = 0 \/ bi_error' # "ok"
    BY <1>1 DEF Map, MapNoMem, MapOops, WriteInv, PlaceInv, Fresh
  <2>2. \A d \in Bio : WritePlace(d)'
    BY <2>1 DEF WritePlace, Fresh, Staging
  <2>3. Accounted'
    BY <2>1 DEF Accounted, Before
  <2>4. EnteredCarriers' = {} /\ Cardinality({}) = 0
    BY <2>1, FS_EmptySet DEF EnteredCarriers, Before, Bio
  <2>5. Counted' /\ Submitted' /\ FinishInv' /\ CommitInv'
    BY <2>1, <2>4 DEF Counted, Submitted, FinishInv, CommitInv, Committed, Answering, Fresh, Bio
  <2> QED BY <2>1, <2>2, <2>3, <2>5 DEF WriteInv, OneStager
<1>2. CASE WorkerStart \/ WorkerAlloc \/ WorkerUseAfterFree
  BY <1>2, WriteUnchanged DEF WorkerStart, WorkerAlloc, WorkerUseAfterFree
<1>3. CASE WorkerSubmit
  <2>1. /\ sub + 1 \in Entropy /\ sub + 1 \in Bio /\ run[sub + 1] = "idle"
        /\ run' = [run EXCEPT ![sub + 1] = "inflight"]
        /\ UNCHANGED <<op, locals, carrier_done, res, error, bi_error, ended>>
    BY <1>3 DEF WorkerSubmit, TypeInv, TypeOK, Entropy, JoinInv, Bio
  <2> SUFFICES ASSUME op = "WRITE" PROVE WriteInv'
    BY <2>1 DEF WriteInv, Fresh
  <2>2. ASSUME NEW x \in Bio
        PROVE  /\ WritePlace(x)' /\ (Staged(x) => Staged(x)')
               /\ run'[x] = IF x = sub + 1 THEN "inflight" ELSE run[x]
    <3>1. run'[x] = IF x = sub + 1 THEN "inflight" ELSE run[x]
      BY <2>1 DEF TypeInv, TypeOK
    <3>2. WritePlace(x)
      BY DEF WriteInv
    <3> QED BY <2>1, <3>1, <3>2, Disjoint DEF WritePlace, Staged, Staging, EarlySteps, Before
  <2>3. Accounted'
    BY <2>1, <2>2 DEF WriteInv, Accounted, Before
  <2>4. ~AllIn
    BY <2>1 DEF AllIn, Entered
  <2>5. ASSUME Exempt PROVE Exempt'
    BY <2>2, <2>5, StagedMonotone DEF Bio
  <2>6. ASSUME OneStager PROVE OneStager'
    <3>1. \A c \in Carrier : c \in Bio /\ run'[c] = run[c]
      BY <2>1, <2>2, Disjoint DEF Bio
    <3>2. EnteredCarriers' = EnteredCarriers
      BY <3>1 DEF EnteredCarriers
    <3>3. Submitted'
      BY <2>1, <2>2, <2>6, <3>1 DEF OneStager, Submitted, CarrierBio, Bio
    <3>4. FinishInv' /\ CommitInv'
      <4>1. /\ ~ \E x \in Bio : run[x] = "finish" /\ error = "ok"
            /\ ~ (Committed /\ bi_error = "ok")
        BY <2>4, <2>6 DEF OneStager, FinishInv, CommitInv
      <4>2. Committed' => Committed
        BY <2>1, <2>2 DEF Committed, Answering
      <4> QED BY <2>1, <2>2, <4>1, <4>2 DEF FinishInv, CommitInv
    <3> QED BY <2>1, <2>6, <3>2, <3>3, <3>4 DEF OneStager, Counted
  <2> QED BY <2>1, <2>2, <2>3, <2>5, <2>6 DEF WriteInv
<1>4. ASSUME NEW d \in Bio, Complete(d) PROVE WriteInv'
  <2>1. /\ run[d] = "inflight" /\ run' = [run EXCEPT ![d] = "enter"]
        /\ \A x \in Bio \ {d} : res'[x] = res[x]
        /\ UNCHANGED <<op, locals, carrier_done, error, bi_error, ended>>
    BY <1>4 DEF Complete, TypeInv, TypeOK
  <2> SUFFICES ASSUME op = "WRITE" PROVE WriteInv'
    BY <2>1 DEF WriteInv, Fresh
  <2>2. ASSUME NEW x \in Bio
        PROVE  /\ WritePlace(x)' /\ (Staged(x) => Staged(x)')
               /\ run'[x] = IF x = d THEN "enter" ELSE run[x]
    <3>1. run'[x] = IF x = d THEN "enter" ELSE run[x]
      BY <2>1 DEF TypeInv, TypeOK
    <3>2. WritePlace(x)
      BY DEF WriteInv
    <3>3. x # d => res'[x] = res[x]
      BY <2>1
    <3> QED BY <2>1, <3>1, <3>2, <3>3 DEF WritePlace, Staged, Staging, EarlySteps, Before
  <2>3. Accounted'
    BY <2>1, <2>2 DEF WriteInv, Accounted, Before
  <2>4. ~AllIn
    <3>1. d \in Entropy \cup Carrier
      BY <2>1 DEF WriteInv, WritePlace, Bio
    <3> QED BY <2>1, <3>1 DEF AllIn, Entered, EnteredCarriers, Before
  <2>5. ASSUME Exempt PROVE Exempt'
    BY <2>2, <2>5, StagedMonotone DEF Bio
  <2>6. ASSUME OneStager PROVE OneStager'
    <3>1. \A c \in Carrier : c \in Bio /\ (run'[c] = run[c] \/ (run[c] = "inflight" /\ run'[c] = "enter"))
      BY <2>1, <2>2 DEF Bio
    <3>2. EnteredCarriers' = EnteredCarriers
      BY <3>1 DEF EnteredCarriers, Before
    <3>3. Submitted'
      BY <2>1, <2>2, <2>6, <3>1 DEF OneStager, Submitted, CarrierBio, Bio
    <3>4. FinishInv' /\ CommitInv'
      <4>1. /\ ~ \E x \in Bio : run[x] = "finish" /\ error = "ok"
            /\ ~ (Committed /\ bi_error = "ok")
        BY <2>4, <2>6 DEF OneStager, FinishInv, CommitInv
      <4>2. Committed' => Committed
        BY <2>1, <2>2 DEF Committed, Answering
      <4> QED BY <2>1, <2>2, <4>1, <4>2 DEF FinishInv, CommitInv
    <3> QED BY <2>1, <2>6, <3>2, <3>3, <3>4 DEF OneStager, Counted
  <2> QED BY <2>1, <2>2, <2>3, <2>5, <2>6 DEF WriteInv
<1>5. ASSUME NEW d \in Bio, CompleteFreed(d) PROVE WriteInv'
  BY <1>5, WriteUnchanged DEF CompleteFreed
<1>6. ASSUME NEW d \in Bio, Handler(d) PROVE WriteInv'
  <2>1. CASE op = "WRITE"
    BY <1>6, <2>1, WriteHandler
  <2>2. CASE op # "WRITE"
    BY <1>6, <2>2, HandlerFrame DEF WriteInv
  <2> QED BY <2>1, <2>2
<1>7. CASE UNCHANGED vars
  BY <1>7, WriteUnchanged DEF vars
<1> QED BY <1>1, <1>2, <1>3, <1>4, <1>5, <1>6, <1>7 DEF Next, Worker, Device

(* In every interleaving a WRITE that was acknowledged has all its blocks  *)
(* read and stored, unless two handlers ran the WRITE stage or the handler *)
(* of a failed block stands between its count and its copy of the error.   *)
THEOREM LostErrorsOnlyInWindow == Spec => []LostErrorOnlyInWindow
<1>1. WriteInv => LostErrorOnlyInWindow
  BY DEF WriteInv, LostErrorOnlyInWindow, Exempt, Two, OneStager, CommitInv, Committed, Window, Excused
<1> QED BY <1>1, TypeInit, TypeStep, PlaceInit, PlaceStep, JoinInit, JoinStep,
           WriteInit, WriteStep, PTL DEF Spec
-----------------------------------------------------------------------------
(***************************************************************************)
(* When the devices complete one bio at a time (Serial): what an           *)
(* acknowledged WRITE has stored, that memory is misused only after a      *)
(* failure, and, when nothing but the carrier devices and the first        *)
(* allocations may fail, that the driver keeps the promise of              *)
(* BlockRequest.                                                           *)
(***************************************************************************)
(* A handler moves itself only, and the bio it submits. *)
LEMMA HandlerOthers ==
  ASSUME TypeInv, NEW d \in Bio, Handler(d), NEW x \in Bio, x # d
  PROVE  /\ skip'[x] = skip[x] /\ idx'[x] = idx[x] /\ pos'[x] = pos[x]
         /\ \/ run'[x] = run[x]
            \/ run[d] = "submit" /\ x = Target(d) /\ run'[x] = "inflight" /\ x \notin Entropy
<1> USE DEF TypeInv, TypeOK, At, Goto, Halt, worker, locals, NextIteration
<1>1. CASE \/ UseAfterFree(d) \/ EntropyEnter(d) \/ WriteEnter(d) \/ ReadEnter(d) \/ ReadInc(d)
           \/ AccumulateError(d) \/ CheckError(d) \/ CheckEntropyCount(d) \/ CheckCarrierCount(d)
  BY <1>1 DEF UseAfterFree, EntropyEnter, WriteEnter, ReadEnter, ReadInc, AccumulateError,
              CheckError, CheckEntropyCount, CheckCarrierCount
<1>2. CASE \/ ReadStage(d) \/ ReadStageFull(d) \/ MarkErasure(d) \/ EndMarks(d) \/ Decode(d) \/ ReadGiveUp(d) \/ ExhaustedIter(d) \/ DecodeRaced(d)
           \/ Encode(d) \/ WriteSearch(d) \/ WriteSearchFull(d)
           \/ UpdateMetadata(d) \/ UpdateMetadataOops(d)
  BY <1>2 DEF ReadStage, ReadStageFull, MarkErasure, EndMarks, Decode, ReadGiveUp, ExhaustedIter, DecodeRaced, Encode,
              WriteSearch, WriteSearchFull, UpdateMetadata, UpdateMetadataOops
<1>3. CASE ReadRetry(d)
  BY <1>3 DEF ReadRetry
<1>4. CASE Submit(d) \/ SubmitStale(d)
  BY <1>4, Disjoint DEF Submit, SubmitStale
<1>5. CASE \/ SubmitFreed(d) \/ SubmitTwice(d) \/ SubmitWild(d) \/ Finish(d) \/ FreePages(d)
           \/ FreePagesFault(d) \/ PutBio(d) \/ FreeIo(d) \/ EndIo(d)
  BY <1>5 DEF SubmitFreed, SubmitTwice, SubmitWild, Finish, FreePages, FreePagesFault, PutBio,
              FreeIo, EndIo
<1> QED BY <1>1, <1>2, <1>3, <1>4, <1>5 DEF Handler

(* The base bio is touched in two places. *)
LEMMA HandlerAnswers ==
  ASSUME NEW d \in Bio, Handler(d)
  PROVE  /\ bi_error' = bi_error \/ (Finish(d) /\ bi_error' = error /\ error' = error)
         /\ ended' = ended \/ (EndIo(d) /\ ended' = ended + 1)
<1> USE DEF Halt, shared, base
<1>1. CASE \/ UseAfterFree(d) \/ EntropyEnter(d) \/ WriteEnter(d) \/ ReadEnter(d) \/ ReadInc(d)
           \/ AccumulateError(d) \/ CheckError(d) \/ CheckEntropyCount(d) \/ CheckCarrierCount(d)
  BY <1>1 DEF UseAfterFree, EntropyEnter, WriteEnter, ReadEnter, ReadInc, AccumulateError,
              CheckError, CheckEntropyCount, CheckCarrierCount
<1>2. CASE \/ ReadStage(d) \/ ReadStageFull(d) \/ MarkErasure(d) \/ EndMarks(d) \/ Decode(d) \/ ReadRetry(d) \/ ReadGiveUp(d)
           \/ ExhaustedIter(d) \/ DecodeRaced(d) \/ Encode(d) \/ WriteSearch(d) \/ WriteSearchFull(d)
           \/ UpdateMetadata(d) \/ UpdateMetadataOops(d)
  BY <1>2 DEF ReadStage, ReadStageFull, MarkErasure, EndMarks, Decode, ReadRetry, ReadGiveUp, ExhaustedIter, DecodeRaced, Encode,
              WriteSearch, WriteSearchFull, UpdateMetadata, UpdateMetadataOops
<1>3. CASE \/ Submit(d) \/ SubmitStale(d) \/ SubmitFreed(d) \/ SubmitTwice(d) \/ SubmitWild(d)
           \/ FreePages(d) \/ FreePagesFault(d) \/ PutBio(d) \/ FreeIo(d)
  BY <1>3 DEF Submit, SubmitStale, SubmitFreed, SubmitTwice, SubmitWild, FreePages,
              FreePagesFault, PutBio, FreeIo
<1>4. CASE Finish(d)
  BY <1>4 DEF Finish
<1>5. CASE EndIo(d)
  BY <1>5 DEF EndIo
<1> QED BY <1>1, <1>2, <1>3, <1>4, <1>5 DEF Handler

(* An entropy handler gets into its stage through its check of the count   *)
(* only.                                                                   *)
LEMMA HandlerStages ==
  ASSUME TypeInv, NEW d \in Entropy, d \in Bio, Handler(d), op = "WRITE" => WritePlace(d),
         Place(d), ~Staged(d), Staged(d)'
  PROVE  run[d] = "chkcnt" /\ entropy_done = NumEntropy
<1> USE DEF TypeInv, TypeOK, At, Goto, Halt, Staged, Staging, worker, locals, shared
<1>1. CASE \/ UseAfterFree(d) \/ EntropyEnter(d) \/ WriteEnter(d) \/ ReadEnter(d) \/ ReadInc(d)
           \/ AccumulateError(d) \/ CheckCarrierCount(d)
  BY <1>1 DEF UseAfterFree, EntropyEnter, WriteEnter, ReadEnter, ReadInc, AccumulateError,
              CheckCarrierCount, Place
<1>2. CASE CheckError(d) \/ CheckEntropyCount(d)
  BY <1>2 DEF CheckError, CheckEntropyCount, AllRead, Place
<1>3. CASE \/ ReadStage(d) \/ ReadStageFull(d) \/ MarkErasure(d) \/ EndMarks(d) \/ Decode(d) \/ ReadRetry(d) \/ ReadGiveUp(d)
           \/ ExhaustedIter(d) \/ DecodeRaced(d) \/ Encode(d) \/ WriteSearch(d) \/ WriteSearchFull(d)
           \/ UpdateMetadata(d) \/ UpdateMetadataOops(d)
  BY <1>3 DEF ReadStage, ReadStageFull, MarkErasure, EndMarks, Decode, ReadRetry, ReadGiveUp, ExhaustedIter, DecodeRaced, Encode,
              WriteSearch, WriteSearchFull, UpdateMetadata, UpdateMetadataOops
<1>4. CASE \/ Submit(d) \/ SubmitStale(d) \/ SubmitFreed(d) \/ SubmitTwice(d) \/ SubmitWild(d)
  BY <1>4 DEF Submit, SubmitStale, SubmitFreed, SubmitTwice, SubmitWild
<1>5. CASE \/ Finish(d) \/ FreePages(d) \/ FreePagesFault(d) \/ PutBio(d) \/ FreeIo(d)
  BY <1>5 DEF Finish, FreePages, FreePagesFault, PutBio, FreeIo
<1>6. CASE EndIo(d)
  BY <1>6 DEF EndIo, Return, InLoop, Iteration, WritePlace
<1> QED BY <1>1, <1>2, <1>3, <1>4, <1>5, <1>6 DEF Handler
-----------------------------------------------------------------------------
(* One handler at a time.  Then only the last entropy handler to enter     *)
(* finds the count complete, and everybody else is done by then.           *)

OneRunning == \A x, y \in Bio : run[x] \in Running /\ run[y] \in Running => x = y

OneStage ==
  \A f \in Entropy : Staged(f) =>
    \A e \in Entropy \ {f} : run[e] = "done" /\ ~Staged(e)

Stored == \A d \in Entropy \cup Carrier : res[d] = "ok"

SerialInv ==
  /\ OneRunning
  /\ OneStage
  /\ op = "WRITE" =>
       /\ mem = "none" \/ bi_error = "ok" \/ error # "ok"
       /\ ended > 0 /\ bi_error = "ok" => Stored

LEMMA SerialInit == Init => SerialInv
BY DEF Init, SerialInv, OneRunning, OneStage, Staged, Staging, Running, Steps, Bio

LEMMA SerialUnchanged ==
  ASSUME SerialInv, UNCHANGED <<op, mem, run, res, skip, error, bi_error, ended>>
  PROVE  SerialInv'
<1>1. OneRunning' /\ (OneStage => OneStage') /\ (Stored => Stored')
  BY DEF SerialInv, OneRunning, OneStage, Staged, Staging, Stored
<1> QED BY <1>1 DEF SerialInv

(* Without the race nothing is excused. *)
LEMMA SerialOneStager ==
  ASSUME WriteInv, SerialInv, op = "WRITE"
  PROVE  ~Exempt /\ OneStager
<1>1. ~Two
  BY DEF SerialInv, OneStage, Two
<1> QED BY <1>1 DEF Exempt, WriteInv

LEMMA SerialHandler ==
  ASSUME TypeInv, PlaceInv, JoinInv, ReadInv, WriteInv, SerialInv, NEW d \in Bio, Handler(d)
  PROVE  SerialInv'
<1>0. /\ run[d] \in Running /\ fault = "none" /\ op' = op /\ res' = res
      /\ mem' \in {mem, "freed"} /\ mem # "none"
  BY HandlerFrame DEF ReadInv
<1>1. OneRunning'
  <2> SUFFICES ASSUME NEW x \in Bio, x # d, run'[x] \in Running PROVE FALSE
    BY DEF OneRunning
  <2>1. run[x] \notin Running
    BY <1>0 DEF SerialInv, OneRunning
  <2> QED BY <2>1, HandlerOthers DEF Running
<1>2. op = "WRITE" => \A x \in Bio : WritePlace(x)
  BY DEF WriteInv
<1>3. ASSUME NEW e \in Entropy, e # d
      PROVE  e \in Bio /\ run'[e] = run[e] /\ skip'[e] = skip[e] /\ (Staged(e)' <=> Staged(e))
  <2>1. e \in Bio
    BY DEF Bio
  <2>3. run'[e] = run[e] /\ skip'[e] = skip[e]
    BY <1>3, <2>1, HandlerOthers
  <2> QED BY <2>1, <2>3 DEF Staged, Staging
<1>4. OneStage'
  <2> SUFFICES ASSUME NEW f \in Entropy, Staged(f)', NEW e \in Entropy, e # f
               PROVE  run'[e] = "done" /\ ~Staged(e)'
    BY DEF OneStage
  <2>1. CASE Staged(f)
    <3>1. run[e] = "done" /\ ~Staged(e)
      BY <2>1 DEF SerialInv, OneStage
    <3>2. e # d
      BY <1>0, <3>1 DEF Running
    <3> QED BY <1>3, <3>1, <3>2
  <2>2. CASE ~Staged(f)
    <3>1. f = d
      BY <1>3, <2>2
    <3>2. run[d] = "chkcnt" /\ entropy_done = NumEntropy
      BY <1>2, <2>2, <3>1, HandlerStages DEF PlaceInv
    <3>3. Entered = Entropy
      BY <3>2, EntropyFinite DEF JoinInv, Entered
    <3>4. run[e] \notin Running /\ run[e] \notin Before
      BY <1>0, <1>3, <3>1, <3>3 DEF SerialInv, OneRunning, Entered, Before
    <3>5. run[e] = "done"
      BY <1>3, <3>1, <3>4 DEF TypeInv, TypeOK, Running, Before
    <3>6. ~Staged(e)
      BY <3>1, <3>2 DEF SerialInv, OneStage
    <3> QED BY <1>3, <3>1, <3>5, <3>6
  <2> QED BY <2>1, <2>2
<1> SUFFICES ASSUME op = "WRITE" PROVE SerialInv'
  BY <1>0, <1>1, <1>4 DEF SerialInv
<1>5. error # "ok" => error' # "ok"
  BY HandlerAccumulates DEF Accumulate
<1>6. bi_error' = bi_error \/ (bi_error' = error /\ error' = error /\ mem = "live")
  BY HandlerAnswers DEF Finish, At, Safe
<1>7. mem' = "none" \/ bi_error' = "ok" \/ error' # "ok"
  BY <1>0, <1>5, <1>6 DEF SerialInv
<1>8. ASSUME ended' > 0, bi_error' = "ok" PROVE Stored'
  <2>1. bi_error = "ok"
    BY <1>6, <1>8 DEF SerialInv
  <2>2. CASE ended' = ended
    BY <1>0, <1>8, <2>1, <2>2 DEF SerialInv, Stored
  <2>3. CASE ended' # ended
    <3>1. run[d] = "endio"
      BY <2>3, HandlerAnswers DEF EndIo, At
    <3>2. Window
      BY <2>1, <3>1, SerialOneStager DEF OneStager, CommitInv, Committed, Answering
    <3>3. ASSUME NEW x \in Entropy \cup Carrier PROVE run[x] \notin Excused
      BY <1>0, <3>1 DEF SerialInv, OneRunning, Excused, Running, Steps, Bio
    <3> QED BY <1>0, <3>2, <3>3 DEF Window, Stored
  <2> QED BY <2>2, <2>3
<1> QED BY <1>0, <1>1, <1>4, <1>7, <1>8 DEF SerialInv

LEMMA SerialStep ==
  Serial /\ TypeInv /\ PlaceInv /\ JoinInv /\ ReadInv /\ WriteInv /\ SerialInv /\ [Next]_vars
    => SerialInv'
<1> SUFFICES ASSUME Serial, TypeInv, PlaceInv, JoinInv, ReadInv, WriteInv, SerialInv, [Next]_vars
             PROVE  SerialInv'
  OBVIOUS
<1> USE DEF Halt, worker, locals, shared, base
<1>1. ASSUME NEW o \in {"READ", "WRITE"}, Map(o) \/ MapNoMem(o) \/ MapOops(o)
      PROVE  SerialInv'
  <2>1. /\ op = "none" /\ Fresh /\ UNCHANGED <<run, skip>>
        /\ \A d \in Bio : run[d] = "idle"
        /\ ended' = 0 \/ bi_error' # "ok"
        /\ mem' = "none" \/ bi_error' = "ok"
    BY <1>1 DEF Map, MapNoMem, MapOops, WriteInv, ReadInv, PlaceInv, Fresh
  <2>2. OneRunning'
    BY <2>1 DEF SerialInv, OneRunning
  <2>3. OneStage'
    BY <2>1 DEF OneStage, Staged, Staging, Fresh, Bio
  <2> QED BY <2>1, <2>2, <2>3 DEF SerialInv, Fresh
<1>2. CASE WorkerStart \/ WorkerAlloc \/ WorkerUseAfterFree
  BY <1>2, SerialUnchanged DEF WorkerStart, WorkerAlloc, WorkerUseAfterFree
<1>3. CASE WorkerSubmit
  <2>1. /\ sub + 1 \in Entropy /\ sub + 1 \in Bio /\ run[sub + 1] = "idle"
        /\ run' = [run EXCEPT ![sub + 1] = "inflight"]
        /\ UNCHANGED <<op, mem, res, skip, error, bi_error, ended>>
    BY <1>3 DEF WorkerSubmit, TypeInv, TypeOK, Entropy, JoinInv, Bio
  <2>2. \A x \in Bio : run'[x] = run[x] \/ (run[x] = "idle" /\ run'[x] = "inflight")
    BY <2>1 DEF TypeInv, TypeOK
  <2>3. OneRunning'
    BY <2>2 DEF SerialInv, OneRunning, Running
  <2>4. OneStage => OneStage'
    BY <2>1, <2>2 DEF OneStage, Staged, Staging, Bio
  <2> QED BY <2>1, <2>3, <2>4 DEF SerialInv, Stored
<1>4. ASSUME NEW d \in Bio, Complete(d) PROVE SerialInv'
  <2>1. /\ run[d] = "inflight" /\ run' = [run EXCEPT ![d] = "enter"]
        /\ \A x \in Bio : run[x] \notin Running
        /\ UNCHANGED <<op, mem, skip, error, bi_error, ended>>
    BY <1>4 DEF Complete
  <2>2. \A x \in Bio : run'[x] = IF x = d THEN "enter" ELSE run[x]
    BY <2>1 DEF TypeInv, TypeOK
  <2>3. OneRunning'
    BY <2>1, <2>2 DEF OneRunning
  <2>4. OneStage'
    BY <2>1, <2>2 DEF SerialInv, OneStage, Staged, Staging, Bio
  <2> SUFFICES ASSUME op = "WRITE" PROVE SerialInv'
    BY <2>1, <2>3, <2>4 DEF SerialInv
  <2>5. ~(ended > 0 /\ bi_error = "ok")
    <3>1. d \in Entropy \cup Carrier
      BY <2>1 DEF WriteInv, WritePlace, Bio
    <3>2. ~AllIn
      BY <2>1, <3>1 DEF AllIn, Entered, EnteredCarriers, Before
    <3> QED BY <3>2, SerialOneStager DEF OneStager, CommitInv, Committed
  <2> QED BY <2>1, <2>3, <2>4, <2>5 DEF SerialInv
<1>5. ASSUME NEW d \in Bio, CompleteFreed(d) PROVE SerialInv'
  BY <1>5, SerialUnchanged DEF CompleteFreed
<1>6. ASSUME NEW d \in Bio, Handler(d) PROVE SerialInv'
  BY <1>6, SerialHandler
<1>7. CASE UNCHANGED vars
  BY <1>7, SerialUnchanged DEF vars
<1> QED BY <1>1, <1>2, <1>3, <1>4, <1>5, <1>6, <1>7 DEF Next, Worker, Device

LEMMA SerialStages == ASSUME SerialInv PROVE ~TwoStages
BY DEF SerialInv, OneStage, Staged, TwoStages

(* When the devices complete one bio at a time, end_carrier_read never     *)
(* decodes anything: whatever the numbers of blocks and whatever the       *)
(* devices return, the list it decodes with is too long.                   *)
THEOREM ReadsNeverDecode == ASSUME Serial PROVE Spec => []DecodeAlwaysFails
<1>1. TypeInv /\ PlaceInv /\ ListInv /\ SerialInv => DecodeAlwaysFails
  BY DecodingStages, SerialStages DEF DecodeNeedsTwoStages, DecodeAlwaysFails
<1>2. TypeInv /\ PlaceInv /\ JoinInv /\ ReadInv /\ WriteInv /\ SerialInv /\ [Next]_vars
        => SerialInv'
  BY SerialStep
<1> QED BY <1>1, <1>2, TypeInit, TypeStep, PlaceInit, PlaceStep, JoinInit, JoinStep, ListInit,
           ListStep, ReadInit, ReadStep, WriteInit, WriteStep, SerialInit, PTL DEF Spec

(* Then a READ is answered with success only by a handler that found its   *)
(* last probe free and stepped past the limit: no other path to the answer *)
(* leaves the error field clear.                                           *)
THEOREM ReadsSucceedOnlyPastLastProbe == ASSUME Serial PROVE Spec => []ReadOkOnlyPastLastProbe
<1>1. ReadInv /\ SerialInv => ReadOkOnlyPastLastProbe
  BY SerialStages DEF ReadInv, ReadOkOnlyPastLastProbe, PastLastProbe
<1>2. TypeInv /\ PlaceInv /\ JoinInv /\ ReadInv /\ WriteInv /\ SerialInv /\ [Next]_vars
        => SerialInv'
  BY SerialStep
<1> QED BY <1>1, <1>2, TypeInit, TypeStep, PlaceInit, PlaceStep, JoinInit, JoinStep, ListInit,
           ListStep, ReadInit, ReadStep, WriteInit, WriteStep, SerialInit, PTL DEF Spec

(* When the devices complete one bio at a time, a WRITE that was answered  *)
(* with success has read all its entropy blocks and stored all its carrier *)
(* blocks, whatever fails and however the handlers interleave with the     *)
(* worker.                                                                 *)
THEOREM AcknowledgedIsStored == ASSUME Serial PROVE Spec => []AckMeansStored
<1>1. SerialInv => AckMeansStored
  BY DEF SerialInv, AckMeansStored, Stored
<1>2. TypeInv /\ PlaceInv /\ JoinInv /\ ReadInv /\ WriteInv /\ SerialInv /\ [Next]_vars
        => SerialInv'
  BY SerialStep
<1> QED BY <1>1, <1>2, TypeInit, TypeStep, PlaceInit, PlaceStep, JoinInit, JoinStep,
           ListInit, ListStep, ReadInit, ReadStep, WriteInit, WriteStep, SerialInit, PTL DEF Spec
-----------------------------------------------------------------------------
(* What fails a WRITE when only the carrier devices and the allocations in *)
(* map may fail, metadata_update succeeds, and the probes last for all the *)
(* carrier blocks.                                                         *)
CarrierOnly ==
  /\ Faults \subseteq {"carrier", "nomem"} /\ MetaOutcomes \subseteq {"ok"}
  /\ NumCarrier <= MaxSkip + 1

(* A handler never goes back to where it waits for the device or for the   *)
(* worker, unless it resubmits its own bio, which only a READ does.        *)
LEMMA HandlerAdvances ==
  ASSUME TypeInv, WriteInv, op = "WRITE", NEW d \in Bio, Handler(d)
  PROVE  run' = run \/ run'[d] \notin Before
<1> USE DEF TypeInv, TypeOK, At, Goto, Halt, Before, worker, locals, base
<1>1. CASE \/ UseAfterFree(d) \/ EntropyEnter(d) \/ WriteEnter(d) \/ ReadEnter(d) \/ ReadInc(d)
           \/ AccumulateError(d) \/ CheckError(d) \/ CheckEntropyCount(d) \/ CheckCarrierCount(d)
  BY <1>1 DEF UseAfterFree, EntropyEnter, WriteEnter, ReadEnter, ReadInc, AccumulateError,
              CheckError, CheckEntropyCount, CheckCarrierCount, Running
<1>2. CASE \/ ReadStage(d) \/ ReadStageFull(d) \/ MarkErasure(d) \/ EndMarks(d) \/ Decode(d) \/ ReadGiveUp(d) \/ ExhaustedIter(d) \/ DecodeRaced(d)
           \/ Encode(d) \/ WriteSearch(d) \/ WriteSearchFull(d)
           \/ UpdateMetadata(d) \/ UpdateMetadataOops(d)
  BY <1>2 DEF ReadStage, ReadStageFull, MarkErasure, EndMarks, Decode, ReadGiveUp, ExhaustedIter, DecodeRaced, Encode, Iteration,
              WriteSearch, WriteSearchFull, UpdateMetadata, UpdateMetadataOops
<1>3. CASE ReadRetry(d)
  BY <1>3 DEF ReadRetry, WriteInv, WritePlace
<1>4. CASE Submit(d) \/ SubmitStale(d)
  BY <1>4, WriteTarget DEF Submit, SubmitStale, Return, InLoop, Iteration
<1>5. CASE \/ SubmitFreed(d) \/ SubmitTwice(d) \/ SubmitWild(d) \/ Finish(d) \/ FreePages(d)
           \/ FreePagesFault(d) \/ PutBio(d) \/ FreeIo(d) \/ EndIo(d)
  BY <1>5 DEF SubmitFreed, SubmitTwice, SubmitWild, Finish, FreePages, FreePagesFault, PutBio,
              FreeIo, EndIo, Return, InLoop, Iteration
<1> QED BY <1>1, <1>2, <1>3, <1>4, <1>5 DEF Handler

(* Once all have entered, nothing is submitted any more. *)
LEMMA AllInStays ==
  ASSUME TypeInv, JoinInv, WriteInv, ~Exempt, op = "WRITE", AllIn, Next
  PROVE  AllIn'
<1>1. \A x \in Entropy \cup Carrier : x \in Bio /\ run[x] \notin Before
  BY DEF AllIn, Entered, EnteredCarriers, Before, Bio
<1> SUFFICES ASSUME NEW x \in Entropy \cup Carrier PROVE run'[x] \notin Before
  BY DEF AllIn, Entered, EnteredCarriers, Before
<1> USE DEF Halt, worker
<1>2. CASE \E o \in {"READ", "WRITE"} : Map(o) \/ MapNoMem(o) \/ MapOops(o)
  BY <1>2 DEF Map, MapNoMem, MapOops
<1>3. CASE WorkerSubmit
  <2>1. sub + 1 \in Entropy /\ run[sub + 1] = "idle"
    BY <1>3 DEF WorkerSubmit, TypeInv, TypeOK, Entropy, JoinInv
  <2> QED BY <1>1, <2>1 DEF Before
<1>4. CASE WorkerStart \/ WorkerAlloc \/ WorkerUseAfterFree
  BY <1>1, <1>4 DEF WorkerStart, WorkerAlloc, WorkerUseAfterFree
<1>5. ASSUME NEW d \in Bio, Complete(d) PROVE FALSE
  <2>1. run[d] = "inflight" /\ WritePlace(d)
    BY <1>5 DEF Complete, WriteInv
  <2> QED BY <1>1, <2>1 DEF WritePlace, Bio, Before
<1>6. ASSUME NEW d \in Bio, CompleteFreed(d) PROVE run'[x] \notin Before
  BY <1>1, <1>6 DEF CompleteFreed
<1>7. ASSUME NEW d \in Bio, Handler(d) PROVE run'[x] \notin Before
  <2>1. run[d] = "submit" => x # Target(d)
    BY <1>1, WriteTarget DEF Before
  <2>2. CASE x = d
    BY <1>1, <1>7, <2>2, HandlerAdvances
  <2>3. CASE x # d
    BY <1>1, <1>7, <2>1, <2>3, HandlerOthers
  <2> QED BY <2>2, <2>3
<1> QED BY <1>2, <1>3, <1>4, <1>5, <1>6, <1>7 DEF Next, Worker, Device

(* Who finishes a WRITE.  With a clear error field it is the last carrier  *)
(* handler; when only carriers fail it always is, since no probe can fail  *)
(* and no error is seen before the carriers are submitted.                 *)
Finisher(d) ==
  run[d] = "finish" /\ (error = "ok" \/ CarrierOnly) => d \in Carrier /\ AllIn

Probing(e) ==
  /\ run[e] = "encode" => skip[e] = -1
  /\ run[e] = "search" => skip[e] = idx[e] - 1
  /\ run[e] \in {"meta", "submit"} => skip[e] = idx[e]
  /\ res[e] \in {"none", "ok"}

CarrierSeen == error # "ok" => \E c \in Carrier : run[c] # "idle"

CarrierInv ==
  /\ op = "none" => res = [d \in Bio |-> "none"] /\ sub = 0 /\ fault = "none"
  /\ op = "WRITE" =>
       /\ \A d \in Bio : Finisher(d)
       /\ CarrierOnly =>
            /\ CarrierSeen
            /\ \A e \in Entropy : Probing(e)
            /\ \A d \in Bio : Answering(d) => d \in Carrier

LEMMA CarrierInit == Init => CarrierInv
BY DEF Init, CarrierInv

LEMMA CarrierUnchanged ==
  ASSUME CarrierInv, UNCHANGED <<op, run, skip, idx, res, error>>,
         op = "none" => UNCHANGED <<sub, fault>>
  PROVE  CarrierInv'
<1>1. /\ CarrierSeen => CarrierSeen'
      /\ \A d \in Bio : (Finisher(d) => Finisher(d)') /\ (Probing(d) => Probing(d)')
  BY DEF CarrierSeen, Finisher, Probing, AllIn, Entered, EnteredCarriers
<1>2. \A e \in Entropy : e \in Bio
  BY DEF Bio
<1> QED BY <1>1, <1>2 DEF CarrierInv, Answering

(* A handler moves on without changing what the environment did. *)
LEMMA CarrierMove ==
  ASSUME TypeInv, JoinInv, WriteInv, SerialInv, CarrierInv, op = "WRITE", Next,
         NEW d \in Bio, NEW l \in Steps \ Before,
         run' = [run EXCEPT ![d] = l], UNCHANGED <<op, res>>,
         \A x \in Bio \ {d} : skip'[x] = skip[x] /\ idx'[x] = idx[x],
         error' = "ok" => error = "ok",
         Finisher(d)',
         CarrierOnly => /\ d \in Entropy => Probing(d)'
                        /\ CarrierSeen \/ error' = "ok" => CarrierSeen'
                        /\ l \in {"pages", "put", "free", "endio"} => d \in Carrier
  PROVE  CarrierInv'
<1> USE DEF TypeInv, TypeOK
<1>1. \A x \in Bio \ {d} : run'[x] = run[x]
  OBVIOUS
<1>2. AllIn => AllIn'
  BY SerialOneStager, AllInStays
<1>3. ASSUME NEW x \in Bio PROVE Finisher(x)'
  <2>1. CASE x = d
    BY <2>1
  <2>2. CASE x # d
    BY <1>1, <1>2, <2>2 DEF CarrierInv, Finisher
  <2> QED BY <2>1, <2>2
<1>4. ASSUME CarrierOnly, NEW e \in Entropy PROVE Probing(e)'
  <2>1. CASE e = d
    BY <1>4, <2>1
  <2>2. CASE e # d
    <3>1. e \in Bio \ {d} /\ Probing(e)
      BY <1>4, <2>2 DEF CarrierInv, Bio
    <3> QED BY <1>1, <3>1 DEF Probing
  <2> QED BY <2>1, <2>2
<1>5. ASSUME CarrierOnly, NEW x \in Bio, Answering(x)' PROVE x \in Carrier
  BY <1>1, <1>5 DEF CarrierInv, Answering
<1>6. CarrierOnly => CarrierSeen'
  BY DEF CarrierInv
<1> QED BY <1>3, <1>4, <1>5, <1>6 DEF CarrierInv

LEMMA CarrierSubmit ==
  ASSUME TypeInv, PlaceInv, JoinInv, WriteInv, SerialInv, CarrierInv, op = "WRITE",
         NEW d \in Bio, Submit(d) \/ SubmitStale(d), Next
  PROVE  CarrierInv'
<1> USE DEF TypeInv, TypeOK, locals, worker, base, shared
<1> DEFINE c == Target(d)
<1>1. /\ run[d] = "submit"
      /\ run' = [run EXCEPT ![d] = Return(d), ![c] = "inflight"]
      /\ idx' = [idx EXCEPT ![d] = IF InLoop(d) THEN @ + 1 ELSE @]
      /\ UNCHANGED <<op, skip, error, res>>
  BY DEF Submit, SubmitStale, At, NextIteration
<1>2. /\ d \in Entropy /\ idx[d] < NumCarrier /\ idx[d] \in Nat
      /\ c \in Carrier /\ c # d /\ c \in Bio
  BY <1>1, WriteTarget DEF Bio
<1>3. idx'[d] = idx[d] + 1 /\ Return(d) \in {"search", "done"}
  BY <1>1, <1>2 DEF InLoop, Return, Iteration
<1> HIDE DEF c
<1>4. /\ run'[d] \in {"search", "done"} /\ run'[c] = "inflight"
      /\ \A x \in Bio \ {c, d} : run'[x] = run[x] /\ idx'[x] = idx[x]
  BY <1>1, <1>2, <1>3
<1>5. AllIn => AllIn'
  BY SerialOneStager, AllInStays
<1>6. \A x \in Bio : Finisher(x)'
  BY <1>1, <1>4, <1>5 DEF CarrierInv, Finisher
<1>7. ASSUME CarrierOnly PROVE CarrierSeen'
  BY <1>2, <1>4 DEF CarrierSeen
<1>8. ASSUME CarrierOnly, NEW e \in Entropy PROVE Probing(e)'
  <2>1. Probing(e) /\ e \in Bio /\ e # c
    BY <1>2, <1>8, Disjoint DEF CarrierInv, Bio
  <2>2. CASE e = d
    BY <1>1, <1>3, <1>4, <2>1, <2>2 DEF Probing
  <2>3. CASE e # d
    BY <1>1, <1>4, <2>1, <2>3 DEF Probing
  <2> QED BY <2>2, <2>3
<1>9. ASSUME CarrierOnly, NEW x \in Bio, Answering(x)' PROVE x \in Carrier
  BY <1>4, <1>9 DEF CarrierInv, Answering
<1> QED BY <1>1, <1>6, <1>7, <1>8, <1>9 DEF CarrierInv

(* No error is seen by an entropy handler that has yet to pass the barrier. *)
LEMMA EntropySeesNoError ==
  ASSUME WriteInv, SerialInv, CarrierInv, op = "WRITE", CarrierOnly,
         NEW d \in Entropy, run[d] = "chkerr"
  PROVE  error = "ok"
<1> SUFFICES ASSUME error # "ok" PROVE FALSE
  OBVIOUS
<1>1. PICK c \in Carrier : run[c] # "idle"
  BY DEF CarrierInv, CarrierSeen
<1>2. PICK e \in Entropy : Staged(e)
  BY <1>1, SerialOneStager DEF OneStager, Submitted
<1>3. ~Staged(d)
  BY DEF WriteInv, WritePlace, EarlySteps, Staged, Staging, Bio
<1> QED BY <1>2, <1>3 DEF SerialInv, OneStage

(* No search fails when only carriers may: the probe number keeps pace     *)
(* with the block number.                                                  *)
LEMMA SearchSucceeds ==
  ASSUME TypeInv, WriteInv, CarrierInv, op = "WRITE", CarrierOnly,
         NEW d \in Bio, WriteSearchFull(d)
  PROVE  FALSE
<1>1. run[d] = "search" /\ MaxSkip + 1 \in Probes(skip[d] + 1, MaxSkip)
  BY DEF WriteSearchFull, At
<1>2. d \in Entropy /\ idx[d] < NumCarrier /\ idx[d] \in Nat
  BY <1>1 DEF WriteInv, WritePlace, Staging, TypeInv, TypeOK, PastEnd
<1>3. skip[d] = idx[d] - 1
  BY <1>1, <1>2 DEF CarrierInv, Probing
<1>4. "used" \notin Faults /\ NumCarrier <= MaxSkip + 1
  BY DEF CarrierOnly
<1>5. MaxSkip + 1 = skip[d] + 1
  BY <1>1, <1>4 DEF Probes
<1> QED BY <1>2, <1>3, <1>4, <1>5

LEMMA CarrierHandler ==
  ASSUME TypeInv, PlaceInv, JoinInv, WriteInv, SerialInv, CarrierInv, op = "WRITE",
         NEW d \in Bio, Handler(d), Next
  PROVE  CarrierInv'
<1> USE DEF At, Goto, Steps, Before, Answering, worker, shared, base, locals
<1>p. /\ run[d] \in Running /\ WritePlace(d) /\ Place(d)
      /\ op' = op /\ res' = res
      /\ res[d] \in Errors /\ error \in Errors
      /\ CarrierOnly => /\ d \in Entropy => Probing(d)
                        /\ Answering(d) => d \in Carrier
  BY HandlerFrame DEF WriteInv, PlaceInv, TypeInv, TypeOK, HasResult, Running, CarrierInv
<1>q. \A a \in Errors, b \in Errors :
        /\ Accumulate(a, b) = "ok" => a = "ok"
        /\ a = "ok" => Accumulate(a, b) = b
  BY DEF Accumulate
<1>s. ASSUME NEW l \in Steps \ Before, run' = [run EXCEPT ![d] = l],
             error' = error \/ error' = "ok" \/ d \in Carrier
      PROVE  CarrierSeen \/ error' = "ok" => CarrierSeen'
  <2>1. \A x \in Bio : run[x] # "idle" => run'[x] # "idle"
    BY <1>s DEF TypeInv, TypeOK
  <2>2. d \in Carrier => run'[d] # "idle"
    BY <1>s DEF TypeInv, TypeOK
  <2> QED BY <1>s, <2>1, <2>2 DEF CarrierSeen, Bio
<1>1. CASE UseAfterFree(d) \/ ExhaustedIter(d) \/ DecodeRaced(d) \/ UpdateMetadataOops(d) \/ SubmitFreed(d)
             \/ SubmitTwice(d) \/ SubmitWild(d) \/ FreePagesFault(d)
  BY <1>1, CarrierUnchanged DEF Halt, UseAfterFree, ExhaustedIter, DecodeRaced, UpdateMetadataOops, SubmitFreed, SubmitTwice, SubmitWild, FreePagesFault
<1>2. CASE Submit(d) \/ SubmitStale(d)
  BY <1>2, CarrierSubmit
<1>3. CASE ReadEnter(d) \/ ReadStage(d) \/ ReadStageFull(d) \/ MarkErasure(d) \/ EndMarks(d) \/ Decode(d) \/ ReadRetry(d)
           \/ ReadGiveUp(d) \/ ReadInc(d)
  BY <1>3, <1>p DEF ReadEnter, ReadStage, ReadStageFull, MarkErasure, EndMarks, Decode, ReadRetry, ReadGiveUp, ReadInc, WritePlace
<1> USE DEF TypeInv, TypeOK, Finisher, Probing
<1>4. CASE EntropyEnter(d) \/ WriteEnter(d)
  <2>1. /\ run' = [run EXCEPT ![d] = "acc"] /\ UNCHANGED <<op, res, skip, idx, error>>
    BY <1>4 DEF EntropyEnter, WriteEnter
  <2> QED BY <2>1, <1>p, <1>s, CarrierMove
<1>5. CASE AccumulateError(d)
  <2> PICK l \in {"chkerr", "chkcnt"} : run' = [run EXCEPT ![d] = l]
    BY <1>5 DEF AccumulateError
  <2>1. /\ run[d] = "acc" /\ error' = Accumulate(error, res[d])
        /\ UNCHANGED <<op, res, skip, idx>>
    BY <1>5 DEF AccumulateError
  <2>2. d \in Entropy \cup Carrier
    BY <2>1, <1>p DEF WritePlace, Bio
  <2>3. error' = "ok" => error = "ok"
    BY <2>1, <1>p, <1>q
  <2>4. ASSUME CarrierOnly PROVE CarrierSeen \/ error' = "ok" => CarrierSeen'
    <3>1. CASE d \in Carrier
      BY <1>s, <3>1
    <3>2. CASE d \in Entropy /\ error = "ok"
      <4>1. error' = "ok"
        BY <2>1, <2>4, <3>2, <1>p, <1>q DEF Errors
      <4> QED BY <4>1 DEF CarrierSeen
    <3>3. CASE d \in Entropy /\ error # "ok"
      <4>1. PICK c \in Carrier : run[c] # "idle"
        BY <2>4, <3>3 DEF CarrierInv, CarrierSeen
      <4>2. run'[c] # "idle"
        BY <4>1, <3>3, Disjoint DEF Bio
      <4> QED BY <4>2 DEF CarrierSeen
    <3> QED BY <2>2, <3>1, <3>2, <3>3
  <2> QED BY <2>1, <2>3, <2>4, <1>p, CarrierMove
<1>6. CASE CheckError(d)
  <2>0. d \in Entropy
    BY <1>6, <1>p DEF CheckError, Place
  <2> PICK l \in {"finish", "chkcnt"} : run' = [run EXCEPT ![d] = l] /\ (error = "ok" <=> l = "chkcnt")
    BY <1>6, <2>0 DEF CheckError, Failed
  <2>1. run[d] = "chkerr" /\ UNCHANGED <<op, skip, idx, error, res>>
    BY <1>6 DEF CheckError
  <2>2. CarrierOnly => error = "ok"
    BY <2>0, <2>1, EntropySeesNoError
  <2>3. Finisher(d)'
    BY <2>1, <2>2
  <2> QED BY <2>1, <2>2, <2>3, <1>p, <1>s, CarrierMove
<1>7. CASE CheckEntropyCount(d)
  <2> PICK l \in {"done", "encode"} : run' = [run EXCEPT ![d] = l]
    BY <1>7 DEF CheckEntropyCount
  <2>1. run[d] = "chkcnt" /\ UNCHANGED <<op, skip, idx, error, res>>
    BY <1>7 DEF CheckEntropyCount
  <2>2. skip[d] = -1
    BY <2>1, <1>p DEF WritePlace, EarlySteps
  <2> QED BY <2>1, <2>2, <1>p, <1>s, CarrierMove
<1>8. CASE CheckCarrierCount(d)
  <2>1. run[d] = "chkcnt" /\ d \notin Entropy /\ UNCHANGED <<op, skip, idx, error, res>>
    BY <1>8 DEF CheckCarrierCount
  <2> PICK l \in {"done", "finish"} :
        run' = [run EXCEPT ![d] = l] /\ (l = "finish" <=> carrier_done = NumCarrier)
    BY <1>8 DEF CheckCarrierCount, AllWritten
  <2>2. d \in Carrier
    BY <2>1, <1>p DEF WritePlace, Bio
  <2>3. l = "finish" => AllIn'
    <3>1. Entered = Entropy
      BY <2>1 DEF JoinInv, Started, StageOf
    <3>2. carrier_done = NumCarrier => EnteredCarriers = Carrier
      BY SerialOneStager, CarrierFinite DEF OneStager, Counted, EnteredCarriers
    <3> QED BY <3>1, <3>2, SerialOneStager, AllInStays DEF AllIn
  <2> QED BY <2>1, <2>2, <2>3, <1>p, <1>s, CarrierMove
<1>9. CASE Encode(d)
  <2> PICK l \in {"done", "search"} : run' = [run EXCEPT ![d] = l]
    BY <1>9 DEF Encode, Iteration
  <2>1. /\ run[d] = "encode" /\ idx'[d] = 0
        /\ \A x \in Bio \ {d} : idx'[x] = idx[x]
        /\ UNCHANGED <<op, skip, error, res>>
    BY <1>9, <1>p DEF Encode
  <2>2. CarrierOnly /\ d \in Entropy => Probing(d)'
    BY <2>1, <1>p
  <2>3. Finisher(d)'
    BY <2>1
  <2>4. CarrierSeen \/ error' = "ok" => CarrierSeen'
    BY <2>1, <1>s
  <2> HIDE DEF Finisher, Probing
  <2> QED BY <2>1, <2>2, <2>3, <2>4, CarrierMove
<1>10. CASE WriteSearch(d)
  <2>1. /\ run[d] = "search" /\ run' = [run EXCEPT ![d] = "meta"]
        /\ UNCHANGED <<op, idx, error, res>>
    BY <1>10 DEF WriteSearch
  <2>2. PICK n \in Probes(skip[d] + 1, MaxSkip) : skip' = [skip EXCEPT ![d] = n]
    BY <1>10 DEF WriteSearch
  <2>3. ASSUME CarrierOnly, d \in Entropy PROVE Probing(d)'
    <3>1. n = skip[d] + 1 /\ skip[d] = idx[d] - 1
      BY <2>1, <2>3, <1>p DEF CarrierOnly, Probes
    <3>2. idx[d] < NumCarrier /\ idx[d] \in Nat
      BY <2>1, <1>p DEF WritePlace, PastEnd
    <3> QED BY <2>1, <2>2, <2>3, <3>1, <3>2, <1>p
  <2> QED BY <2>1, <2>2, <2>3, <1>p, <1>s, CarrierMove
<1>11. CASE WriteSearchFull(d)
  <2>1. /\ run[d] = "search" /\ run' = [run EXCEPT ![d] = "finish"]
        /\ UNCHANGED <<op, idx, res>> /\ error' = Accumulate(error, "EIO")
        /\ \A x \in Bio \ {d} : skip'[x] = skip[x]
    BY <1>11 DEF WriteSearchFull
  <2>2. ~CarrierOnly
    BY <1>11, SearchSucceeds
  <2>3. error' # "ok"
    BY <2>1, <1>p DEF Accumulate
  <2> QED BY <2>1, <2>2, <2>3, <1>p, CarrierMove
<1>12. CASE UpdateMetadata(d)
  <2> PICK r \in MetaOutcomes \ {"oops"} :
        /\ error' = IF r = "ok" THEN error ELSE Accumulate(error, r)
        /\ run' = [run EXCEPT ![d] = IF r = "ok" THEN "submit" ELSE "finish"]
    BY <1>12 DEF UpdateMetadata
  <2>1. run[d] = "meta" /\ UNCHANGED <<op, skip, idx, res>>
    BY <1>12 DEF UpdateMetadata
  <2>2. CASE r = "ok"
    <3>1. run' = [run EXCEPT ![d] = "submit"] /\ error' = error
      BY <2>2
    <3>2. CarrierOnly /\ d \in Entropy => Probing(d)'
      BY <2>1, <3>1, <1>p
    <3>3. Finisher(d)'
      BY <3>1
    <3>4. CarrierSeen \/ error' = "ok" => CarrierSeen'
      BY <3>1, <1>s
    <3> HIDE DEF Finisher, Probing
    <3> QED BY <2>1, <3>1, <3>2, <3>3, <3>4, CarrierMove
  <2>3. CASE r # "ok"
    <3>1. ~CarrierOnly
      BY <2>3 DEF CarrierOnly
    <3>2. error' # "ok"
      BY <2>3, <1>p DEF Accumulate, Errors
    <3>3. run' = [run EXCEPT ![d] = "finish"]
      BY <2>3
    <3> QED BY <2>1, <3>1, <3>2, <3>3, <1>p, CarrierMove
  <2> QED BY <2>2, <2>3
<1>13. CASE Finish(d)
  <2>1. /\ run[d] = "finish" /\ run' = [run EXCEPT ![d] = "pages"]
        /\ UNCHANGED <<op, skip, idx, error, res>>
    BY <1>13 DEF Finish
  <2>2. CarrierOnly => d \in Carrier
    BY <2>1 DEF CarrierInv
  <2> QED BY <2>1, <2>2, <1>p, <1>s, CarrierMove
<1>14. CASE FreePages(d)
  <2>1. /\ run[d] = "pages" /\ run' = [run EXCEPT ![d] = "put"]
        /\ UNCHANGED <<op, skip, idx, error, res>>
    BY <1>14 DEF FreePages
  <2> QED BY <2>1, <1>p, <1>s, CarrierMove
<1>15. CASE PutBio(d)
  <2> PICK l \in {"pages", "free"} : run' = [run EXCEPT ![d] = l]
    BY <1>15 DEF PutBio
  <2>1. run[d] = "put" /\ UNCHANGED <<op, skip, idx, error, res>>
    BY <1>15 DEF PutBio
  <2> QED BY <2>1, <1>p, <1>s, CarrierMove
<1>16. CASE FreeIo(d)
  <2>1. /\ run[d] = "free" /\ run' = [run EXCEPT ![d] = "endio"]
        /\ UNCHANGED <<op, skip, idx, error, res>>
    BY <1>16 DEF FreeIo
  <2> QED BY <2>1, <1>p, <1>s, CarrierMove
<1>17. CASE EndIo(d)
  <2> PICK l \in {"search", "done"} : run' = [run EXCEPT ![d] = l]
    BY <1>17 DEF EndIo, Return, Iteration
  <2>1. /\ run[d] = "endio" /\ UNCHANGED <<op, skip, error, res>>
        /\ \A x \in Bio \ {d} : idx'[x] = idx[x]
    BY <1>17 DEF EndIo, NextIteration
  <2>2. CarrierOnly => d \notin Entropy
    BY <2>1, <1>p, Disjoint
  <2> QED BY <2>1, <2>2, <1>p, <1>s, CarrierMove
<1> QED
  BY <1>1, <1>2, <1>3, <1>4, <1>5, <1>6, <1>7, <1>8, <1>9, <1>10, <1>11, <1>12, <1>13, <1>14, <1>15, <1>16, <1>17 DEF Handler

LEMMA CarrierStep ==
  TypeInv /\ PlaceInv /\ JoinInv /\ WriteInv /\ SerialInv /\ CarrierInv /\ [Next]_vars
    => CarrierInv'
<1> SUFFICES ASSUME TypeInv, PlaceInv, JoinInv, WriteInv, SerialInv, CarrierInv, [Next]_vars
             PROVE  CarrierInv'
  OBVIOUS
<1> USE DEF Halt, worker, locals, shared, base
<1>1. ASSUME NEW o \in {"READ", "WRITE"}, Map(o) \/ MapNoMem(o) \/ MapOops(o)
      PROVE  CarrierInv'
  <2>1. /\ op = "none" /\ op' = o /\ UNCHANGED <<run, res, skip, idx>>
        /\ \A d \in Bio : run[d] = "idle" /\ res[d] = "none"
        /\ CarrierOnly => error' = "ok"
    <3>1. op = "none" /\ op' = o /\ UNCHANGED <<run, res, skip, idx>>
      BY <1>1 DEF Map, MapNoMem, MapOops
    <3>2. CarrierOnly => error' = "ok"
      BY <1>1 DEF Map, MapNoMem, MapOops, PlaceInv, CarrierOnly
    <3> QED BY <3>1, <3>2 DEF PlaceInv, CarrierInv
  <2>2. \A d \in Bio : Finisher(d)' /\ Probing(d)' /\ ~Answering(d)'
    BY <2>1 DEF Finisher, Probing, Answering
  <2> QED BY <2>1, <2>2 DEF CarrierInv, CarrierSeen, Bio
<1>2. CASE WorkerStart \/ WorkerAlloc \/ WorkerUseAfterFree
  <2>1. op # "none"
    BY <1>2 DEF WorkerStart, WorkerAlloc, WorkerUseAfterFree, PlaceInv
  <2> QED BY <1>2, <2>1, CarrierUnchanged DEF WorkerStart, WorkerAlloc, WorkerUseAfterFree
<1>3. CASE WorkerSubmit
  <2>1. /\ sub + 1 \in Entropy /\ sub + 1 \in Bio /\ run[sub + 1] = "idle" /\ op # "none"
        /\ run' = [run EXCEPT ![sub + 1] = "inflight"]
        /\ UNCHANGED <<op, res, skip, idx, error>>
    BY <1>3 DEF WorkerSubmit, TypeInv, TypeOK, Entropy, JoinInv, Bio, PlaceInv
  <2> SUFFICES ASSUME op = "WRITE" PROVE CarrierInv'
    BY <2>1 DEF CarrierInv
  <2>2. \A x \in Bio : run'[x] = IF x = sub + 1 THEN "inflight" ELSE run[x]
    BY <2>1 DEF TypeInv, TypeOK
  <2>3. ~AllIn
    BY <2>1 DEF AllIn, Entered
  <2>4. \A x \in Bio : Finisher(x)' /\ (Probing(x) => Probing(x)')
    BY <2>1, <2>2, <2>3 DEF CarrierInv, Finisher, Probing
  <2>5. CarrierSeen => CarrierSeen'
    BY <2>1, <2>2 DEF CarrierSeen, Bio
  <2>6. \A x \in Bio : Answering(x)' => Answering(x)
    BY <2>2 DEF Answering
  <2> QED BY <2>1, <2>4, <2>5, <2>6 DEF CarrierInv, Bio
<1>4. ASSUME NEW d \in Bio, Complete(d) PROVE CarrierInv'
  <2>1. /\ run[d] = "inflight" /\ run' = [run EXCEPT ![d] = "enter"] /\ op # "none"
        /\ \A x \in Bio \ {d} : res'[x] = res[x]
        /\ res'[d] \in Outcomes(d)
        /\ UNCHANGED <<op, skip, idx, error>>
    BY <1>4 DEF Complete, PlaceInv, TypeInv, TypeOK
  <2> SUFFICES ASSUME op = "WRITE" PROVE CarrierInv'
    BY <2>1 DEF CarrierInv
  <2>2. \A x \in Bio : run'[x] = IF x = d THEN "enter" ELSE run[x]
    BY <2>1 DEF TypeInv, TypeOK
  <2>3. ~AllIn
    <3>1. d \in Entropy \cup Carrier
      BY <2>1 DEF WriteInv, WritePlace, Bio
    <3> QED BY <2>1, <3>1 DEF AllIn, Entered, EnteredCarriers, Before
  <2>4. \A x \in Bio : Finisher(x)'
    BY <2>1, <2>2, <2>3 DEF CarrierInv, Finisher
  <2>5. CarrierSeen => CarrierSeen'
    BY <2>1, <2>2 DEF CarrierSeen, Bio
  <2>6. ASSUME CarrierOnly, NEW e \in Entropy PROVE Probing(e)'
    <3>1. Probing(e) /\ e \in Bio
      BY <2>6 DEF CarrierInv, Bio
    <3>2. e = d => res'[e] = "ok"
      BY <2>1, <2>6 DEF Outcomes, CarrierOnly
    <3> QED BY <2>1, <2>2, <3>1, <3>2 DEF Probing
  <2>7. \A x \in Bio : Answering(x)' => Answering(x)
    BY <2>2 DEF Answering
  <2> QED BY <2>1, <2>4, <2>5, <2>6, <2>7 DEF CarrierInv
<1>5. ASSUME NEW d \in Bio, CompleteFreed(d) PROVE CarrierInv'
  <2>1. op # "none"
    BY <1>5 DEF CompleteFreed, PlaceInv
  <2> QED BY <1>5, <2>1, CarrierUnchanged DEF CompleteFreed
<1>6. ASSUME NEW d \in Bio, Handler(d) PROVE CarrierInv'
  <2>1. op' = op /\ op # "none"
    BY <1>6, HandlerFrame
  <2>2. CASE op = "WRITE"
    <3>1. Next
      BY <1>6 DEF Next
    <3> QED BY <1>6, <2>2, <3>1, CarrierHandler
  <2>3. CASE op # "WRITE"
    BY <2>1, <2>3 DEF CarrierInv
  <2> QED BY <2>2, <2>3
<1>7. CASE UNCHANGED vars
  BY <1>7, CarrierUnchanged DEF vars
<1> QED BY <1>1, <1>2, <1>3, <1>4, <1>5, <1>6, <1>7 DEF Next, Worker, Device
-----------------------------------------------------------------------------
(* The memory of a WRITE.  Until somebody finishes it, the bios allocated  *)
(* so far are live; whoever finishes it is alone by then and cleans up;    *)
(* then it is answered and nothing is left.  All this up to the failure    *)
(* of a request for which nothing of the kind holds.                       *)

Failing == bi_error # "ok" /\ ~CarrierOnly

Alloc(d) ==
  \/ d \in Carrier /\ work \notin {"idle", "queued"}
  \/ d \in Entropy /\ (d <= sub \/ (d = sub + 1 /\ work = "submit"))

Serving ==
  /\ mem = "live" /\ ended = 0
  /\ \A d \in Bio : ~Answering(d)
  /\ \A d \in Bio : Alloc(d) => bio[d] = "live"
  /\ \A d \in Bio : run[d] # "idle" => Alloc(d)
  /\ sub > 0 => work \in {"alloc", "submit"}

(* The order in which the cleanup visits the bios. *)
Rank(x) == IF x \in Carrier THEN x - NumEntropy ELSE x + NumCarrier

Remains(d, x) ==
  IF run[d] \in {"free", "endio"} \/ Rank(x) < pos[d] THEN "freed"
  ELSE IF run[d] = "put" /\ Rank(x) = pos[d] THEN "nopages" ELSE "live"

Alone(d) == \A x \in Entropy \cup Carrier : x # d => run[x] = "done"

Cleaning(d) ==
  /\ Answering(d) /\ ended = 0 /\ Alone(d)
  /\ mem = IF run[d] = "endio" THEN "freed" ELSE "live"
  /\ \A x \in Entropy \cup Carrier : bio[x] = Remains(d, x)
  /\ run[d] \in {"pages", "put"} => pos[d] <= NumEntropy + NumCarrier
  /\ sub = NumEntropy /\ work = "alloc"

AnsweredAll ==
  /\ mem = "freed" /\ ended = 1
  /\ sub = NumEntropy /\ work = "alloc"
  /\ \A x \in Entropy \cup Carrier : run[x] = "done" /\ bio[x] = "freed"

Tidy == Serving \/ (\E d \in Carrier : Cleaning(d)) \/ AnsweredAll

(* The deaths that are not the driver's bookkeeping. *)
Death(how) ==
  \/ how = "wild" /\ "consumed" \in Faults
  \/ how = "oops" /\ "oops" \in MetaOutcomes

MemoryInv ==
  /\ mem = "none" => fault = "none" /\ work = "idle"
  /\ op = "WRITE" /\ mem # "none" /\ ~Failing =>
       /\ fault = "none" => Tidy
       /\ fault = "none" \/ Death(fault) \/ (fault = "oops" /\ "nomem" \in Faults)

LEMMA CleanOrder ==
  ASSUME NEW n \in 1 .. NumEntropy + NumCarrier
  PROVE  /\ CleanTarget(n) \in Entropy \cup Carrier
         /\ \A x \in Entropy \cup Carrier : Rank(x) = n <=> CleanTarget(n) = x
BY DEF CleanTarget, Rank, Carrier, CarrierBio, Entropy

LEMMA RankBounds ==
  \A x \in Entropy \cup Carrier : Rank(x) \in 1 .. NumEntropy + NumCarrier
BY DEF Rank, Carrier, CarrierBio, Entropy

(* While the request is served the worker and the devices find what they   *)
(* need, and so do the handlers.                                           *)
LEMMA ServingWorker ==
  ASSUME TypeInv, JoinInv, Serving, Worker
  PROVE  Serving' /\ fault' = "none"
<1> USE DEF TypeInv, TypeOK, worker, locals, base, Answering
<1>1. CASE WorkerStart
  <2>1. /\ work = "queued" /\ work' = "alloc" /\ fault' = "none"
        /\ UNCHANGED <<sub, run, mem, ended>>
        /\ bio' = [d \in Bio |-> IF d \in Carrier THEN "live" ELSE bio[d]]
    BY <1>1 DEF WorkerStart
  <2>2. sub = 0
    BY <2>1 DEF Serving
  <2> QED BY <2>1, <2>2 DEF Serving, Alloc, Entropy
<1>2. CASE WorkerAlloc
  <2>1. /\ work = "alloc" /\ work' = "submit" /\ fault' = "none"
        /\ UNCHANGED <<sub, run, mem, ended>>
        /\ bio' = [bio EXCEPT ![sub + 1] = "live"]
    BY <1>2 DEF WorkerAlloc
  <2> QED BY <2>1 DEF Serving, Alloc
<1>3. CASE WorkerSubmit
  <2>1. /\ work = "submit" /\ work' = "alloc" /\ fault' = "none" /\ sub' = sub + 1
        /\ UNCHANGED <<bio, mem, ended>>
        /\ run' = [run EXCEPT ![sub + 1] = "inflight"]
    BY <1>3 DEF WorkerSubmit
  <2>2. \A d \in Bio : Alloc(d)' <=> Alloc(d)
    BY <2>1 DEF Alloc, Entropy
  <2>3. Alloc(sub + 1)
    BY <2>1 DEF Alloc, Entropy
  <2> QED BY <2>1, <2>2, <2>3 DEF Serving
<1>4. CASE WorkerUseAfterFree
  <2>1. work = "submit" /\ bio[sub + 1] # "live"
    BY <1>4 DEF WorkerUseAfterFree, Serving
  <2>2. sub + 1 \in Bio /\ Alloc(sub + 1)
    BY <2>1 DEF Alloc, Entropy, Bio
  <2> QED BY <2>1, <2>2 DEF Serving
<1> QED BY <1>1, <1>2, <1>3, <1>4 DEF Worker

LEMMA ServingDevice ==
  ASSUME TypeInv, Serving, NEW d \in Bio, Device(d)
  PROVE  Serving' /\ fault' = "none" /\ Complete(d)
<1>1. run[d] = "inflight" /\ fault = "none"
  BY DEF Device, Complete, CompleteFreed
<1>2. bio[d] = "live"
  BY <1>1 DEF Serving
<1>3. Complete(d)
  BY <1>2 DEF Device, CompleteFreed
<1>4. /\ run' = [run EXCEPT ![d] = "enter"]
      /\ UNCHANGED <<worker, mem, ended, bio, fault>>
  BY <1>3 DEF Complete, base
<1>5. \A x \in Bio : Alloc(x)' <=> Alloc(x)
  BY <1>4 DEF Alloc, worker
<1>6. \A x \in Bio : run'[x] = IF x = d THEN "enter" ELSE run[x]
  BY <1>4 DEF TypeInv, TypeOK
<1>7. Serving'
  BY <1>1, <1>4, <1>5, <1>6 DEF Serving, Answering, worker
<1> QED BY <1>1, <1>3, <1>4, <1>7

LEMMA ServingAll ==
  ASSUME TypeInv, JoinInv, Serving, Entered = Entropy,
         \E d \in Bio : run[d] # "idle"
  PROVE  /\ sub = NumEntropy /\ work \notin {"idle", "queued"}
         /\ \A x \in Entropy \cup Carrier : Alloc(x) /\ bio[x] = "live"
<1>1. NumEntropy > 0 => run[NumEntropy] # "idle" /\ NumEntropy \in Entropy
  BY DEF Entered, Entropy
<1>2. sub = NumEntropy
  BY <1>1 DEF JoinInv, TypeInv, TypeOK
<1>3. PICK d \in Bio : Alloc(d)
  BY DEF Serving
<1>4. work \notin {"idle", "queued"}
  <2>1. CASE d \in Carrier
    BY <1>3, <2>1, Disjoint DEF Alloc
  <2>2. CASE d \in Entropy
    BY <1>2, <2>2 DEF Serving, Entropy
  <2> QED BY <1>3, <2>1, <2>2 DEF Alloc
<1>5. \A x \in Entropy \cup Carrier : Alloc(x) /\ x \in Bio
  BY <1>2, <1>4 DEF Alloc, Entropy, Bio
<1> QED BY <1>2, <1>4, <1>5 DEF Serving

LEMMA ServingSafe ==
  ASSUME TypeInv, JoinInv, Serving, NEW d \in Bio, run[d] \in Running
  PROVE  Safe(d)
<1>1. run[d] # "idle"
  BY DEF Running
<1>2. bio[d] = "live" /\ mem = "live"
  BY <1>1 DEF Serving
<1>3. run[d] \in {"encode", "decode"} => \A x \in Entropy \cup Carrier : bio[x] = "live"
  BY <1>1, ServingAll DEF JoinInv, Started, StageOf, Staging
<1> QED BY <1>2, <1>3 DEF Safe

LEMMA ServingMove ==
  ASSUME TypeInv, Serving, NEW d \in Bio, NEW l \in Steps, run[d] # "idle",
         l \notin {"idle", "pages", "put", "free", "endio"},
         run' = [run EXCEPT ![d] = l],
         UNCHANGED <<work, sub, mem, ended, bio>>
  PROVE  Serving'
<1>1. \A x \in Bio : Alloc(x)' <=> Alloc(x)
  BY DEF Alloc
<1>2. \A x \in Bio : run'[x] = IF x = d THEN l ELSE run[x]
  BY DEF TypeInv, TypeOK
<1> QED BY <1>1, <1>2 DEF Serving, Answering

(* Nobody but the last carrier handler is left when it finishes. *)
LEMMA ServingFinish ==
  ASSUME TypeInv, JoinInv, WriteInv, SerialInv, CarrierInv, op = "WRITE",
         Serving, NEW d \in Bio, Finish(d), ~Failing'
  PROVE  d \in Carrier /\ Cleaning(d)' /\ fault' = "none"
<1>1. /\ run[d] = "finish" /\ run' = [run EXCEPT ![d] = "pages"]
      /\ pos' = [pos EXCEPT ![d] = 1] /\ bi_error' = error
      /\ UNCHANGED <<worker, mem, ended, bio, fault>> /\ fault = "none"
  BY DEF Finish, At, Goto
<1>2. d \in Carrier /\ AllIn
  BY <1>1 DEF CarrierInv, Finisher, Failing, CarrierOnly
<1>3. /\ sub = NumEntropy /\ work \notin {"idle", "queued"}
      /\ \A x \in Entropy \cup Carrier : bio[x] = "live"
  BY <1>1, <1>2, ServingAll DEF AllIn
<1>4. NumEntropy > 0 /\ NumEntropy + NumCarrier >= 1
  BY <1>2 DEF Carrier, CarrierBio
<1>5. work = "alloc"
  BY <1>3, <1>4 DEF Serving, TypeInv, TypeOK
<1>6. ASSUME NEW x \in Entropy \cup Carrier, x # d PROVE run'[x] = "done"
  <2>1. x \in Bio /\ run[x] \notin Before
    BY <1>2 DEF AllIn, Entered, EnteredCarriers, Before, Bio
  <2>2. run[x] \notin Running
    BY <1>1, <1>6, <2>1 DEF SerialInv, OneRunning, Running, Steps
  <2> QED BY <1>1, <1>6, <2>1, <2>2 DEF TypeInv, TypeOK, Running, Before
<1>7. run'[d] = "pages" /\ pos'[d] = 1
  BY <1>1 DEF TypeInv, TypeOK
<1>8. \A x \in Entropy \cup Carrier : bio'[x] = Remains(d, x)'
  BY <1>1, <1>3, <1>7, RankBounds DEF Remains, Rank
<1> QED BY <1>1, <1>2, <1>3, <1>4, <1>5, <1>6, <1>7, <1>8 DEF Cleaning, Answering, Alone, Serving, worker

LEMMA ServingWrite ==
  ASSUME TypeInv, PlaceInv, JoinInv, WriteInv, SerialInv, CarrierInv, op = "WRITE",
         Serving, NEW d \in Bio, Handler(d), ~Failing'
  PROVE  Death(fault') \/ (fault' = "none" /\ Tidy')
<1> USE DEF At, Goto, Steps, worker, shared, base, locals
<1>p. /\ run[d] \in Running /\ run[d] # "idle" /\ fault = "none"
      /\ WritePlace(d) /\ Place(d) /\ Safe(d) /\ ~Answering(d)
  BY HandlerFrame, ServingSafe DEF WriteInv, PlaceInv, Running, Serving
<1>t. run[d] = "submit" =>
        /\ Target(d) \in Carrier /\ Target(d) \notin Wild /\ Target(d) # d /\ Target(d) \in Bio
        /\ ~Busy(Target(d)) /\ d \in Entropy
  BY WriteTarget, SerialOneStager DEF Busy, Bio
<1>a. run[d] = "submit" => Alloc(Target(d)) /\ bio[Target(d)] = "live"
  BY <1>p, <1>t, ServingAll DEF JoinInv, Started, StageOf, Staging
<1>1. CASE UseAfterFree(d) \/ SubmitFreed(d) \/ SubmitTwice(d) \/ SubmitWild(d) \/ SubmitStale(d)
  BY <1>1, <1>p, <1>t, <1>a DEF UseAfterFree, SubmitFreed, SubmitTwice, SubmitWild, SubmitStale
<1>2. CASE ExhaustedIter(d) \/ DecodeRaced(d) \/ UpdateMetadataOops(d)
  BY <1>2, <1>p DEF ExhaustedIter, DecodeRaced, UpdateMetadataOops, Halt, Death, WritePlace
<1>3. CASE Submit(d)
  <2>1. /\ run[d] = "submit" /\ fault' = fault
        /\ run' = [run EXCEPT ![d] = Return(d), ![Target(d)] = "inflight"]
        /\ UNCHANGED <<work, sub, mem, ended, bio>>
    BY <1>3 DEF Submit
  <2>2. Return(d) \in {"search", "done"}
    BY DEF Return, Iteration
  <2>3. \A x \in Bio : Alloc(x)' <=> Alloc(x)
    BY <2>1 DEF Alloc
  <2>4. \A x \in Bio : run'[x] = run[x] \/ (run'[x] \in {"search", "done", "inflight"} /\ Alloc(x))
    BY <1>p, <1>a, <1>t, <2>1, <2>2 DEF TypeInv, TypeOK, Serving
  <2>5. Serving'
    BY <2>1, <2>3, <2>4 DEF Serving, Answering
  <2> QED BY <1>p, <2>1, <2>5 DEF Tidy
<1>4. CASE Finish(d)
  BY <1>4, ServingFinish DEF Tidy
<1>5. CASE FreePages(d) \/ FreePagesFault(d) \/ PutBio(d) \/ FreeIo(d) \/ EndIo(d)
  BY <1>5, <1>p DEF FreePages, FreePagesFault, PutBio, FreeIo, EndIo, Answering
<1>6. CASE ReadEnter(d) \/ ReadStage(d) \/ ReadStageFull(d) \/ MarkErasure(d) \/ EndMarks(d) \/ Decode(d) \/ ReadRetry(d)
           \/ ReadGiveUp(d) \/ ReadInc(d)
  BY <1>6, <1>p DEF ReadEnter, ReadStage, ReadStageFull, MarkErasure, EndMarks, Decode, ReadRetry, ReadGiveUp, ReadInc, WritePlace
<1>7. CASE \/ EntropyEnter(d) \/ WriteEnter(d) \/ AccumulateError(d) \/ CheckError(d)
           \/ CheckEntropyCount(d) \/ CheckCarrierCount(d) \/ Encode(d) \/ WriteSearch(d)
           \/ WriteSearchFull(d) \/ UpdateMetadata(d)
  <2>1. \E l \in {"acc", "chkcnt", "chkerr", "finish", "decode", "done", "search", "encode",
                  "meta", "submit"} : run' = [run EXCEPT ![d] = l]
    <3>1. CASE \/ EntropyEnter(d) \/ WriteEnter(d) \/ AccumulateError(d) \/ CheckError(d)
      BY <3>1 DEF EntropyEnter, WriteEnter, AccumulateError, CheckError
    <3>2. CASE CheckEntropyCount(d) \/ CheckCarrierCount(d) \/ Encode(d) \/ WriteSearch(d)
               \/ WriteSearchFull(d) \/ UpdateMetadata(d)
      BY <3>2 DEF CheckEntropyCount, CheckCarrierCount, Encode, Iteration, WriteSearch,
                  WriteSearchFull, UpdateMetadata
    <3> QED BY <1>7, <3>1, <3>2
  <2>2. UNCHANGED <<work, sub, mem, ended, bio, fault>>
    BY <1>7 DEF EntropyEnter, WriteEnter, AccumulateError, CheckError, CheckEntropyCount,
                CheckCarrierCount, Encode, WriteSearch, WriteSearchFull, UpdateMetadata
  <2>3. Serving'
    BY <1>p, <2>1, <2>2, ServingMove
  <2> QED BY <1>p, <2>2, <2>3 DEF Tidy
<1> QED BY <1>1, <1>2, <1>3, <1>4, <1>5, <1>6, <1>7 DEF Handler

(* The cleanup visits every bio once, and then answers. *)
LEMMA CleaningWrite ==
  ASSUME TypeInv, PlaceInv, WriteInv, op = "WRITE", NEW c \in Carrier, Cleaning(c), NEW d \in Bio, Handler(d)
  PROVE  /\ d = c /\ fault' = "none"
         /\ Cleaning(c)' \/ (AnsweredAll' /\ EndIo(c))
<1> USE DEF At, Goto, worker, shared, base, locals
<1>1. d = c
  BY HandlerFrame DEF WriteInv, WritePlace, Cleaning, Alone, Running, Bio
<1>2. /\ Answering(c) /\ fault = "none" /\ c \in Bio /\ c \in Entropy \cup Carrier
      /\ Alone(c) /\ sub = NumEntropy /\ work = "alloc" /\ ended = 0
      /\ \A x \in Entropy \cup Carrier : bio[x] = Remains(c, x) /\ x \in Bio
      /\ run[c] \in {"pages", "put"} => pos[c] \in 1 .. NumEntropy + NumCarrier
      /\ pos[c] \in Nat
  BY <1>1, HandlerFrame DEF Cleaning, Bio, TypeInv, TypeOK
<1>3. Safe(c)
  BY <1>2 DEF Safe, Cleaning, Answering
<1> DEFINE t == CleanTarget(pos[c])
<1>4. run[c] \in {"pages", "put"} =>
        /\ t \in Entropy \cup Carrier
        /\ \A x \in Entropy \cup Carrier : Rank(x) = pos[c] <=> t = x
        /\ bio[t] = IF run[c] = "pages" THEN "live" ELSE "nopages"
  <2> SUFFICES ASSUME run[c] \in {"pages", "put"}
               PROVE  /\ t \in Entropy \cup Carrier
                      /\ \A x \in Entropy \cup Carrier : Rank(x) = pos[c] <=> t = x
                      /\ bio[t] = IF run[c] = "pages" THEN "live" ELSE "nopages"
    OBVIOUS
  <2>1. /\ t \in Entropy \cup Carrier
        /\ \A x \in Entropy \cup Carrier : Rank(x) = pos[c] <=> t = x
    BY <1>2, CleanOrder
  <2>2. Rank(t) = pos[c] /\ bio[t] = Remains(c, t)
    BY <1>2, <2>1
  <2> QED BY <1>2, <2>1, <2>2 DEF Remains
<1> HIDE DEF t
<1>5. CASE FreePages(c)
  <2>1. /\ run[c] = "pages" /\ run' = [run EXCEPT ![c] = "put"]
        /\ bio' = [bio EXCEPT ![t] = "nopages"]
        /\ UNCHANGED <<work, sub, pos, ended, mem, fault>>
    BY <1>5 DEF FreePages, t
  <2>2. run'[c] = "put" /\ \A x \in Bio \ {c} : run'[x] = run[x]
    BY <1>2, <2>1 DEF TypeInv, TypeOK
  <2>3. ASSUME NEW x \in Entropy \cup Carrier PROVE bio'[x] = Remains(c, x)'
    <3>1. bio'[x] = IF x = t THEN "nopages" ELSE bio[x]
      BY <1>2, <2>1 DEF TypeInv, TypeOK
    <3>2. bio[x] = Remains(c, x) /\ (Rank(x) = pos[c] <=> t = x) /\ Rank(x) \in Nat
      BY <1>2, <1>4, <2>1, RankBounds
    <3> QED BY <1>2, <2>1, <2>2, <3>1, <3>2 DEF Remains
  <2>4. mem = "live"
    BY <2>1 DEF Cleaning
  <2>5. Alone(c)'
    BY <1>2, <2>2 DEF Alone
  <2>6. Cleaning(c)'
    BY <1>2, <2>1, <2>2, <2>3, <2>4, <2>5 DEF Cleaning, Answering
  <2> QED BY <1>1, <1>2, <2>1, <2>6
<1>6. CASE PutBio(c)
  <2>1. /\ run[c] = "put" /\ bio' = [bio EXCEPT ![t] = "freed"]
        /\ run' = [run EXCEPT ![c] = IF MoreToClean(pos[c]) THEN "pages" ELSE "free"]
        /\ pos' = [pos EXCEPT ![c] = IF MoreToClean(pos[c]) THEN pos[c] + 1 ELSE pos[c]]
        /\ UNCHANGED <<work, sub, ended, mem, fault>>
    BY <1>6 DEF PutBio, t
  <2>2. /\ run'[c] = IF MoreToClean(pos[c]) THEN "pages" ELSE "free"
        /\ pos'[c] = IF MoreToClean(pos[c]) THEN pos[c] + 1 ELSE pos[c]
        /\ \A x \in Bio \ {c} : run'[x] = run[x]
    BY <1>2, <2>1 DEF TypeInv, TypeOK
  <2>3. ASSUME NEW x \in Entropy \cup Carrier PROVE bio'[x] = Remains(c, x)'
    <3>1. bio'[x] = IF x = t THEN "freed" ELSE bio[x]
      BY <1>2, <2>1 DEF TypeInv, TypeOK
    <3>2. /\ bio[x] = Remains(c, x) /\ (Rank(x) = pos[c] <=> t = x)
          /\ Rank(x) \in 1 .. NumEntropy + NumCarrier
      BY <1>2, <1>4, <2>1, RankBounds
    <3>3. CASE MoreToClean(pos[c])
      BY <1>2, <2>1, <2>2, <3>1, <3>2, <3>3 DEF Remains
    <3>4. CASE ~MoreToClean(pos[c])
      BY <1>2, <2>1, <2>2, <3>1, <3>2, <3>4 DEF Remains, MoreToClean
    <3> QED BY <3>3, <3>4
  <2>4. mem = "live"
    BY <2>1 DEF Cleaning
  <2>5. Alone(c)'
    BY <1>2, <2>2 DEF Alone
  <2>6. run'[c] = "pages" => pos'[c] <= NumEntropy + NumCarrier
    BY <1>2, <2>1, <2>2 DEF MoreToClean
  <2>7. Cleaning(c)'
    BY <1>2, <2>1, <2>2, <2>3, <2>4, <2>5, <2>6 DEF Cleaning, Answering
  <2> QED BY <1>1, <1>2, <2>1, <2>7
<1>7. CASE FreeIo(c)
  <2>1. /\ run[c] = "free" /\ run' = [run EXCEPT ![c] = "endio"] /\ mem' = "freed"
        /\ UNCHANGED <<work, sub, pos, ended, bio, fault>>
    BY <1>7 DEF FreeIo
  <2>2. run'[c] = "endio" /\ \A x \in Bio \ {c} : run'[x] = run[x]
    BY <1>2, <2>1 DEF TypeInv, TypeOK
  <2>3. \A x \in Entropy \cup Carrier : bio'[x] = Remains(c, x)'
    BY <1>2, <2>1, <2>2 DEF Remains
  <2>4. Alone(c)'
    BY <1>2, <2>2 DEF Alone
  <2>5. Cleaning(c)'
    BY <1>2, <2>1, <2>2, <2>3, <2>4 DEF Cleaning, Answering
  <2> QED BY <1>1, <1>2, <2>1, <2>5
<1>8. CASE EndIo(c)
  <2>1. ~InLoop(c)
    BY <1>2, Disjoint DEF WriteInv, WritePlace, InLoop
  <2>2. /\ run[c] = "endio" /\ run' = [run EXCEPT ![c] = "done"] /\ mem = "freed" /\ ended' = 1
        /\ UNCHANGED <<work, sub, mem, bio, fault>>
    BY <1>2, <1>8, <2>1 DEF EndIo, Return, Cleaning
  <2>3. \A x \in Entropy \cup Carrier : run'[x] = "done" /\ bio'[x] = "freed"
    BY <1>2, <2>2 DEF Alone, Remains, TypeInv, TypeOK
  <2> QED BY <1>1, <1>2, <1>8, <2>2, <2>3 DEF AnsweredAll
<1>9. CASE FreePagesFault(c)
  BY <1>4, <1>9 DEF FreePagesFault, t
<1>10. CASE UseAfterFree(c)
  BY <1>3, <1>10 DEF UseAfterFree
<1>11. ~ \/ EntropyEnter(c) \/ WriteEnter(c) \/ ReadEnter(c) \/ ReadInc(c)
         \/ AccumulateError(c) \/ CheckError(c) \/ CheckEntropyCount(c) \/ CheckCarrierCount(c)
         \/ ReadStage(c) \/ ReadStageFull(c) \/ MarkErasure(c) \/ EndMarks(c) \/ Decode(c) \/ ReadRetry(c) \/ ReadGiveUp(c)
         \/ ExhaustedIter(c) \/ DecodeRaced(c) \/ Encode(c) \/ WriteSearch(c) \/ WriteSearchFull(c)
  BY <1>2 DEF Answering, EntropyEnter, WriteEnter, ReadEnter, ReadInc, AccumulateError, CheckError,
     CheckEntropyCount, CheckCarrierCount, ReadStage, ReadStageFull, MarkErasure, EndMarks, Decode, ReadRetry, ReadGiveUp,
     ExhaustedIter, DecodeRaced, Encode, WriteSearch, WriteSearchFull
<1>12. ~ \/ UpdateMetadata(c) \/ UpdateMetadataOops(c) \/ Submit(c) \/ SubmitFreed(c)
         \/ SubmitTwice(c) \/ SubmitWild(c) \/ SubmitStale(c) \/ Finish(c)
  BY <1>2 DEF Answering, UpdateMetadata, UpdateMetadataOops, Submit, SubmitFreed, SubmitTwice,
     SubmitWild, SubmitStale, Finish
<1> QED BY <1>1, <1>5, <1>6, <1>7, <1>8, <1>9, <1>10, <1>11, <1>12 DEF Handler

(* What is left when somebody cleans up, or has: no worker, no device. *)
LEMMA CleanedQuiet ==
  ASSUME TypeInv, WriteInv, op = "WRITE", (\E c \in Carrier : Cleaning(c)) \/ AnsweredAll
  PROVE  /\ ~Worker /\ \A d \in Bio : ~Device(d)
         /\ AnsweredAll => \A d \in Bio : run[d] \notin Running
<1>1. \A d \in Bio : run[d] # "inflight" /\ (AnsweredAll => run[d] \notin Running)
  BY DEF Cleaning, Answering, Alone, AnsweredAll, WriteInv, WritePlace, Running, Bio
<1>2. work = "alloc" /\ sub = NumEntropy
  BY DEF Cleaning, AnsweredAll
<1> QED BY <1>1, <1>2 DEF Worker, WorkerStart, WorkerAlloc, WorkerSubmit, WorkerUseAfterFree,
                          MoreEntropy, Device, Complete, CompleteFreed

LEMMA TidyStep ==
  ASSUME TypeInv, PlaceInv, JoinInv, WriteInv, SerialInv, CarrierInv, op = "WRITE",
         Tidy, Next, ~Failing'
  PROVE  Death(fault') \/ (fault' = "none" /\ Tidy')
<1>1. Worker \/ \E d \in Bio : Device(d) \/ Handler(d)
  BY DEF Next, Map, MapNoMem, MapOops
<1>2. CASE Serving /\ Worker
  BY <1>2, ServingWorker DEF Tidy
<1>3. ASSUME NEW d \in Bio, Serving, Device(d) PROVE fault' = "none" /\ Tidy'
  BY <1>3, ServingDevice DEF Tidy
<1>4. ASSUME NEW d \in Bio, Serving, Handler(d) PROVE Death(fault') \/ (fault' = "none" /\ Tidy')
  BY <1>4, ServingWrite
<1>5. ASSUME NEW d \in Bio, NEW c \in Carrier, Cleaning(c), Handler(d)
      PROVE  fault' = "none" /\ Tidy'
  BY <1>5, CleaningWrite DEF Tidy
<1>6. ASSUME NEW d \in Bio, AnsweredAll, Handler(d) PROVE FALSE
  BY <1>6, CleanedQuiet, HandlerFrame
<1> QED BY <1>1, <1>2, <1>3, <1>4, <1>5, <1>6, CleanedQuiet DEF Tidy

LEMMA MemoryInit == Init => MemoryInv
BY DEF Init, MemoryInv

(* The error of a failed request stays. *)
LEMMA FailingStays ==
  ASSUME TypeInv, PlaceInv, ReadInv, SerialInv, op = "WRITE", mem # "none", Next, Failing
  PROVE  Failing'
<1>1. bi_error # "ok" => bi_error' # "ok"
  <2>1. CASE Worker
    BY <2>1 DEF Worker, WorkerStart, WorkerAlloc, WorkerSubmit, WorkerUseAfterFree, Halt, base
  <2>2. ASSUME NEW d \in Bio, Device(d) PROVE bi_error' = bi_error
    BY <2>2 DEF Device, Complete, CompleteFreed, Halt, base
  <2>3. ASSUME NEW d \in Bio, Handler(d) PROVE bi_error # "ok" => bi_error' # "ok"
    BY <2>3, HandlerAnswers DEF SerialInv
  <2> QED BY <2>1, <2>2, <2>3 DEF Next, Map, MapNoMem, MapOops
<1> QED BY <1>1 DEF Failing, CarrierOnly

LEMMA MemoryStep ==
  TypeInv /\ PlaceInv /\ JoinInv /\ ReadInv /\ WriteInv /\ SerialInv /\ CarrierInv /\ MemoryInv
    /\ [Next]_vars => MemoryInv'
<1> SUFFICES ASSUME TypeInv, PlaceInv, JoinInv, ReadInv, WriteInv, SerialInv, CarrierInv,
                    MemoryInv, [Next]_vars
             PROVE  MemoryInv'
  OBVIOUS
<1>1. ASSUME NEW o \in {"READ", "WRITE"}, Map(o) \/ MapNoMem(o) \/ MapOops(o)
      PROVE  MemoryInv'
  <2>1. /\ op = "none" /\ mem = "none" /\ work = "idle" /\ ended = 0
        /\ sub = 0 /\ fault = "none" /\ \A d \in Bio : run[d] = "idle"
    BY <1>1 DEF Map, MapNoMem, MapOops, ReadInv, PlaceInv, CarrierInv
  <2>2. CASE Map(o)
    <3>1. /\ mem' = "live" /\ work' = "queued" /\ UNCHANGED <<sub, bio, run, ended, fault>>
      BY <2>2 DEF Map
    <3>2. \A d \in Bio : ~Alloc(d)'
      BY <2>1, <3>1 DEF Alloc, Entropy
    <3>3. Serving'
      BY <2>1, <3>1, <3>2 DEF Serving, Answering
    <3> QED BY <2>1, <3>1, <3>3 DEF MemoryInv, Tidy
  <2>3. CASE MapNoMem(o)
    BY <2>1, <2>3 DEF MapNoMem, MemoryInv, worker
  <2>4. CASE MapOops(o)
    BY <2>1, <2>4 DEF MapOops, MemoryInv
  <2> QED BY <1>1, <2>2, <2>3, <2>4
<1>2. CASE UNCHANGED vars
  <2>1. Tidy => Tidy'
    BY <1>2 DEF vars, worker, locals, shared, base, Tidy, Serving, Cleaning, AnsweredAll, Alloc,
                Answering, Alone, Remains
  <2>2. Failing' = Failing /\ (Death(fault) => Death(fault)')
    BY <1>2 DEF vars, worker, locals, shared, base, Failing, CarrierOnly, Death
  <2> QED BY <1>2, <2>1, <2>2 DEF MemoryInv, vars, worker, locals, shared, base
<1>3. CASE Next /\ op # "none"
  <2>1. Worker \/ \E d \in Bio : Device(d) \/ Handler(d)
    BY <1>3 DEF Next, Map, MapNoMem, MapOops
  <2>2. /\ op' = op /\ mem # "none" /\ mem' # "none" /\ fault = "none"
    <3>1. CASE Worker
      BY <3>1 DEF Worker, WorkerStart, WorkerAlloc, WorkerSubmit, WorkerUseAfterFree, Halt, base,
                  ReadInv
    <3>2. ASSUME NEW d \in Bio, Device(d)
          PROVE  op' = op /\ mem # "none" /\ mem' # "none" /\ fault = "none"
      BY <3>2 DEF Device, Complete, CompleteFreed, Halt, base, ReadInv, PlaceInv
    <3>3. ASSUME NEW d \in Bio, Handler(d)
          PROVE  op' = op /\ mem # "none" /\ mem' # "none" /\ fault = "none"
      BY <3>3, HandlerFrame DEF ReadInv
    <3> QED BY <2>1, <3>1, <3>2, <3>3
  <2> SUFFICES ASSUME op = "WRITE", ~Failing'
               PROVE  Death(fault') \/ (fault' = "none" /\ Tidy')
    BY <2>2 DEF MemoryInv, Death
  <2>3. ~Failing
    BY <1>3, <2>2, FailingStays
  <2>4. Tidy
    BY <2>2, <2>3 DEF MemoryInv
  <2> QED BY <1>3, <2>4, TidyStep
<1>4. ASSUME Next, op = "none"
      PROVE  \E o \in {"READ", "WRITE"} : Map(o) \/ MapNoMem(o) \/ MapOops(o)
  <2>1. ~Worker
    BY <1>4 DEF PlaceInv, Worker, WorkerStart, WorkerAlloc, WorkerSubmit, WorkerUseAfterFree
  <2>2. ASSUME NEW d \in Bio PROVE ~Device(d) /\ ~Handler(d)
    BY <1>4, HandlerFrame DEF Device, Complete, CompleteFreed, PlaceInv
  <2> QED BY <1>4, <2>1, <2>2 DEF Next
<1> QED BY <1>1, <1>2, <1>3, <1>4

(* When the devices complete one bio at a time, and neither the kernel nor *)
(* the devices break the driver's memory by themselves, a WRITE misuses    *)
(* memory only once the driver has decided to fail it.                     *)
THEOREM MisuseFollowsFailure ==
  ASSUME Serial, Faults \cap {"nomem", "consumed"} = {}, "oops" \notin MetaOutcomes
  PROVE  Spec => []MisuseOnlyAfterFailure
<1>1. MemoryInv => MisuseOnlyAfterFailure
  BY DEF MemoryInv, MisuseOnlyAfterFailure, Failing, Death
<1>2. TypeInv /\ PlaceInv /\ JoinInv /\ ReadInv /\ WriteInv /\ SerialInv /\ [Next]_vars
        => SerialInv'
  BY SerialStep
<1> QED BY <1>1, <1>2, TypeInit, TypeStep, PlaceInit, PlaceStep, JoinInit, JoinStep,
           ListInit, ListStep, ReadInit, ReadStep, WriteInit, WriteStep, SerialInit, CarrierInit, CarrierStep,
           MemoryInit, MemoryStep, PTL DEF Spec
-----------------------------------------------------------------------------
(* A READ when only the carrier devices and the allocations in map may     *)
(* fail: it is served until it follows the uninitialised slot it submits.  *)

Reads == {"idle", "inflight", "enter", "acc", "chkerr", "chkcnt", "search", "mark", "submit",
          "done"}

Quiet ==
  /\ error = "ok" /\ Serving
  /\ \A d \in Bio \ Entropy : run[d] = "idle"
  /\ \A e \in Entropy : /\ run[e] \in Reads
                        /\ run[e] \in {"mark", "submit"} => idx[e] = PastEnd
                        /\ res[e] \in {"none", "ok"}

QuietInv ==
  CarrierOnly /\ op = "READ" /\ mem # "none" =>
    /\ fault \in {"none", "wild", "oops"}
    /\ fault = "none" => Quiet

LEMMA QuietInit == Init => QuietInv
BY DEF Init, QuietInv

LEMMA QuietMove ==
  ASSUME TypeInv, Quiet, NEW d \in Entropy, NEW l \in Reads \ {"idle"}, run[d] # "idle",
         run' = [run EXCEPT ![d] = l], l \in {"mark", "submit"} => idx'[d] = PastEnd,
         UNCHANGED <<error, work, sub, mem, ended, bio, res>>,
         \A x \in Bio \ {d} : idx'[x] = idx[x]
  PROVE  Quiet'
<1>1. d \in Bio
  BY DEF Bio
<1>2. Serving'
  BY <1>1, ServingMove DEF Quiet, Reads, Steps
<1>3. \A x \in Bio : run'[x] = IF x = d THEN l ELSE run[x]
  BY <1>1 DEF TypeInv, TypeOK
<1> QED BY <1>1, <1>2, <1>3 DEF Quiet, Bio

LEMMA QuietHandler ==
  ASSUME TypeInv, PlaceInv, JoinInv, CarrierOnly, op = "READ", Quiet, NEW d \in Bio, Handler(d)
  PROVE  fault' = "wild" \/ (fault' = "none" /\ Quiet')
<1> USE DEF At, Goto, worker, shared, base, locals, Reads
<1>p. /\ run[d] \in Running /\ fault = "none" /\ run[d] # "idle"
      /\ d \in Entropy /\ run[d] \in Reads /\ error = "ok" /\ res[d] = "ok"
      /\ run[d] \in {"mark", "submit"} => idx[d] = PastEnd
      /\ Serving
  BY HandlerFrame DEF Quiet, Running, TypeInv, HasResult, Errors
<1>s. Safe(d)
  BY <1>p, ServingSafe
<1>t. /\ CarrierBio(PastEnd) \in Wild /\ CarrierBio(PastEnd) \notin Carrier
      /\ CarrierBio(PastEnd) \notin Entropy /\ CarrierBio(PastEnd) \in Bio
  BY Disjoint DEF Wild, PastEnd, CarrierBio, Carrier, Bio
<1>u. "used" \notin Faults /\ "stale" \notin Faults
  BY DEF CarrierOnly
<1>1. CASE \/ UseAfterFree(d) \/ WriteEnter(d) \/ ReadEnter(d) \/ ReadInc(d) \/ CheckCarrierCount(d)
           \/ Decode(d) \/ ReadRetry(d) \/ ReadGiveUp(d) \/ ExhaustedIter(d) \/ DecodeRaced(d) \/ Encode(d)
           \/ WriteSearch(d) \/ WriteSearchFull(d) \/ UpdateMetadata(d) \/ UpdateMetadataOops(d)
  BY <1>1, <1>p, <1>s DEF UseAfterFree, WriteEnter, ReadEnter, ReadInc, CheckCarrierCount, Decode,
     ReadRetry, ReadGiveUp, ExhaustedIter, DecodeRaced, Encode, WriteSearch, WriteSearchFull, UpdateMetadata,
     UpdateMetadataOops
<1>2. CASE \/ Finish(d) \/ FreePages(d) \/ FreePagesFault(d) \/ PutBio(d) \/ FreeIo(d) \/ EndIo(d)
  BY <1>2, <1>p DEF Finish, FreePages, FreePagesFault, PutBio, FreeIo, EndIo
<1>3. CASE Submit(d) \/ SubmitFreed(d) \/ SubmitTwice(d) \/ SubmitWild(d) \/ SubmitStale(d)
  <2>1. Target(d) = CarrierBio(PastEnd) /\ ~Busy(Target(d))
    BY <1>3, <1>p, <1>t DEF Submit, SubmitFreed, SubmitTwice, SubmitWild, SubmitStale, Target, Busy, Quiet
  <2> QED BY <1>3, <1>t, <1>u, <2>1 DEF Submit, SubmitFreed, SubmitTwice, SubmitWild, SubmitStale, Halt
<1>4. CASE EntropyEnter(d)
  BY <1>4, <1>p, QuietMove DEF EntropyEnter
<1>5. CASE AccumulateError(d)
  BY <1>5, <1>p, QuietMove DEF AccumulateError, Accumulate
<1>6. CASE CheckError(d)
  BY <1>6, <1>p, QuietMove DEF CheckError, Failed
<1>7. CASE CheckEntropyCount(d)
  <2> PICK l \in {"done", "search"} : run' = [run EXCEPT ![d] = l]
    BY <1>7 DEF CheckEntropyCount
  <2>1. UNCHANGED <<error, work, sub, mem, ended, bio, res, idx, fault>>
    BY <1>7 DEF CheckEntropyCount
  <2> QED BY <2>1, <1>p, QuietMove
<1>10. CASE MarkErasure(d) \/ EndMarks(d)
  <2>1. /\ run[d] = "mark"
        /\ UNCHANGED <<error, work, sub, mem, ended, bio, res, idx, fault>>
    BY <1>10 DEF MarkErasure, EndMarks
  <2>2. PICK l \in {"mark", "submit"} : run' = [run EXCEPT ![d] = l]
    BY <1>10, <2>1 DEF MarkErasure, EndMarks, TypeInv, TypeOK
  <2> QED BY <2>1, <2>2, <1>p, QuietMove
<1>8. CASE ReadStage(d)
  <2>1. /\ run' = [run EXCEPT ![d] = "mark"] /\ idx' = [idx EXCEPT ![d] = PastEnd]
        /\ UNCHANGED <<error, work, sub, mem, ended, bio, res, fault>>
    BY <1>8 DEF ReadStage
  <2>2. idx'[d] = PastEnd /\ \A x \in Bio \ {d} : idx'[x] = idx[x]
    BY <2>1 DEF TypeInv, TypeOK
  <2> QED BY <2>1, <2>2, <1>p, QuietMove
<1>9. CASE ReadStageFull(d)
  BY <1>9, <1>u DEF ReadStageFull, Probes
<1> QED BY <1>1, <1>2, <1>3, <1>4, <1>5, <1>6, <1>7, <1>8, <1>9, <1>10 DEF Handler

LEMMA QuietStep ==
  TypeInv /\ PlaceInv /\ JoinInv /\ ReadInv /\ CarrierInv /\ MemoryInv /\ QuietInv /\ [Next]_vars
    => QuietInv'
<1> SUFFICES ASSUME TypeInv, PlaceInv, JoinInv, ReadInv, CarrierInv, MemoryInv, QuietInv,
                    [Next]_vars, CarrierOnly
             PROVE  QuietInv'
  BY DEF QuietInv, CarrierOnly
<1>1. ASSUME NEW o \in {"READ", "WRITE"}, Map(o) \/ MapNoMem(o) \/ MapOops(o)
      PROVE  QuietInv'
  <2>1. /\ op = "none" /\ mem = "none" /\ work = "idle" /\ ended = 0 /\ error = "ok"
        /\ sub = 0 /\ fault = "none" /\ \A d \in Bio : run[d] = "idle" /\ res[d] = "none"
    BY <1>1 DEF Map, MapNoMem, MapOops, ReadInv, PlaceInv, CarrierInv
  <2>2. CASE Map(o)
    <3>1. /\ mem' = "live" /\ work' = "queued" /\ UNCHANGED <<sub, bio, run, ended, fault, res>>
          /\ error' = "ok"
      BY <2>2 DEF Map, CarrierOnly
    <3>2. \A d \in Bio : ~Alloc(d)'
      BY <2>1, <3>1 DEF Alloc, Entropy
    <3>3. Serving'
      BY <2>1, <3>1, <3>2 DEF Serving, Answering
    <3>4. Quiet'
      BY <2>1, <3>1, <3>3 DEF Quiet, Reads, Bio
    <3> QED BY <2>1, <3>1, <3>4 DEF QuietInv
  <2>3. CASE MapNoMem(o)
    BY <2>1, <2>3 DEF MapNoMem, QuietInv
  <2>4. CASE MapOops(o)
    BY <2>1, <2>4 DEF MapOops, QuietInv
  <2> QED BY <1>1, <2>2, <2>3, <2>4
<1>2. CASE UNCHANGED vars
  <2>1. Quiet => Quiet'
    BY <1>2 DEF vars, worker, locals, shared, base, Quiet, Serving, Alloc, Answering
  <2> QED BY <1>2, <2>1 DEF QuietInv, vars, base
<1>3. CASE Worker
  <2>1. /\ op' = op /\ mem # "none" /\ fault = "none"
        /\ UNCHANGED <<error, idx, res>>
        /\ run' = run \/ (sub + 1 \in Entropy /\ run' = [run EXCEPT ![sub + 1] = "inflight"])
    BY <1>3 DEF Worker, WorkerStart, WorkerAlloc, WorkerSubmit, WorkerUseAfterFree, Halt, base,
                ReadInv, shared, locals, TypeInv, TypeOK, Entropy
  <2> SUFFICES ASSUME op = "READ" PROVE fault' = "none" /\ Quiet'
    BY <2>1 DEF QuietInv
  <2>2. Quiet /\ Serving
    BY <2>1 DEF QuietInv, Quiet
  <2>3. fault' = "none" /\ Serving'
    BY <1>3, <2>2, ServingWorker
  <2>4. \A x \in Bio : run'[x] = run[x] \/ (x \in Entropy /\ run'[x] = "inflight")
    BY <2>1 DEF TypeInv, TypeOK
  <2> QED BY <2>1, <2>2, <2>3, <2>4 DEF Quiet, Reads, Bio
<1>4. ASSUME NEW d \in Bio, Device(d) PROVE QuietInv'
  <2>1. /\ op' = op /\ mem # "none" /\ fault = "none" /\ run[d] = "inflight"
    BY <1>4 DEF Device, Complete, CompleteFreed, Halt, base, ReadInv, PlaceInv
  <2> SUFFICES ASSUME op = "READ" PROVE fault' = "none" /\ Quiet'
    BY <2>1 DEF QuietInv
  <2>2. Quiet /\ Serving
    BY <2>1 DEF QuietInv, Quiet
  <2>3. fault' = "none" /\ Serving' /\ Complete(d)
    BY <1>4, <2>2, ServingDevice
  <2>4. d \in Entropy
    BY <2>1, <2>2 DEF Quiet
  <2>5. /\ run' = [run EXCEPT ![d] = "enter"] /\ UNCHANGED <<error, idx>>
        /\ \A x \in Bio \ {d} : res'[x] = res[x]
        /\ res'[d] \in Outcomes(d)
    BY <2>3 DEF Complete, shared, locals, TypeInv, TypeOK
  <2>6. res'[d] = "ok"
    BY <2>4, <2>5 DEF Outcomes, CarrierOnly
  <2>7. \A x \in Bio : run'[x] = IF x = d THEN "enter" ELSE run[x]
    BY <2>5 DEF TypeInv, TypeOK
  <2> QED BY <2>2, <2>3, <2>4, <2>5, <2>6, <2>7 DEF Quiet, Reads, Bio
<1>5. ASSUME NEW d \in Bio, Handler(d) PROVE QuietInv'
  <2>1. op' = op /\ mem # "none" /\ fault = "none"
    BY <1>5, HandlerFrame DEF ReadInv
  <2> SUFFICES ASSUME op = "READ" PROVE fault' = "wild" \/ (fault' = "none" /\ Quiet')
    BY <2>1 DEF QuietInv
  <2>2. Quiet
    BY <2>1 DEF QuietInv
  <2> QED BY <1>5, <2>2, QuietHandler
<1> QED BY <1>1, <1>2, <1>3, <1>4, <1>5 DEF Next

(* What keeps memory safe, and what of it is left after the answer. *)
LEMMA CarrierOnlySafe ==
  ASSUME CarrierOnly, TypeInv, ReadInv, CarrierInv, MemoryInv, QuietInv
  PROVE  MemorySafe /\ AnsweredMeansReleased
<1>1. CASE op = "none" \/ mem = "none"
  BY <1>1 DEF ReadInv, CarrierInv, MemoryInv, MemorySafe, AnsweredMeansReleased
<1>2. CASE op = "READ" /\ mem # "none"
  BY <1>2 DEF QuietInv, Quiet, Serving, MemorySafe, AnsweredMeansReleased
<1>3. CASE op = "WRITE" /\ mem # "none"
  <2>1. fault \in {"none", "oops"} /\ (fault = "none" => Tidy)
    BY <1>3 DEF MemoryInv, Failing, Death, CarrierOnly
  <2> QED BY <1>3, <2>1 DEF Tidy, Serving, Cleaning, AnsweredAll, MemorySafe, AnsweredMeansReleased
<1> QED BY <1>1, <1>2, <1>3 DEF TypeInv, TypeOK

(* When the devices complete one bio at a time and only carrier devices    *)
(* and the allocations in map may fail, no memory is used after it was     *)
(* freed or freed twice, no bio is submitted while in flight, and a WRITE  *)
(* follows no uninitialised pointer.                                       *)
THEOREM MemoryStaysSafe == ASSUME Serial, CarrierOnly PROVE Spec => []MemorySafe
<1>1. TypeInv /\ ReadInv /\ CarrierInv /\ MemoryInv /\ QuietInv => MemorySafe
  BY CarrierOnlySafe
<1>2. TypeInv /\ PlaceInv /\ JoinInv /\ ReadInv /\ WriteInv /\ SerialInv /\ [Next]_vars
        => SerialInv'
  BY SerialStep
<1> QED BY <1>1, <1>2, TypeInit, TypeStep, PlaceInit, PlaceStep, JoinInit, JoinStep,
           ListInit, ListStep, ReadInit, ReadStep, WriteInit, WriteStep, SerialInit, CarrierInit, CarrierStep,
           MemoryInit, MemoryStep, QuietInit, QuietStep, PTL DEF Spec

(* Under the same conditions an answered request has released its io and   *)
(* all its bios, and nothing in flight or running could touch them.        *)
THEOREM AnsweredIsReleased == ASSUME Serial, CarrierOnly PROVE Spec => []AnsweredMeansReleased
<1>1. TypeInv /\ ReadInv /\ CarrierInv /\ MemoryInv /\ QuietInv => AnsweredMeansReleased
  BY CarrierOnlySafe
<1>2. TypeInv /\ PlaceInv /\ JoinInv /\ ReadInv /\ WriteInv /\ SerialInv /\ [Next]_vars
        => SerialInv'
  BY SerialStep
<1> QED BY <1>1, <1>2, TypeInit, TypeStep, PlaceInit, PlaceStep, JoinInit, JoinStep,
           ListInit, ListStep, ReadInit, ReadStep, WriteInit, WriteStep, SerialInit, CarrierInit, CarrierStep,
           MemoryInit, MemoryStep, QuietInit, QuietStep, PTL DEF Spec
-----------------------------------------------------------------------------
(* The refinement of BlockRequest, step by step. *)

Phase ==
  CASE ended = 1 -> "answered"
    [] ended > 1 -> "answered again"
    [] ended = 0 /\ fault # "none" -> "crashed"
    [] ended = 0 /\ fault = "none" -> IF op = "none" THEN "idle" ELSE "pending"

Kept   == op = "WRITE" /\ \A d \in Carrier : res[d] = "ok"
Answer == IF ended = 0 THEN "none" ELSE IF bi_error = "ok" THEN "ok" ELSE "error"

(* A carrier bio has no result before its first completion. *)
ResultInv ==
  op = "WRITE" => \A c \in Carrier : run[c] \in {"idle", "inflight"} => res[c] = "none"

LEMMA ResultInit == Init => ResultInv
BY DEF Init, ResultInv

LEMMA ResultStep ==
  TypeInv /\ PlaceInv /\ JoinInv /\ WriteInv /\ SerialInv /\ CarrierInv /\ ResultInv /\ [Next]_vars
    => ResultInv'
<1> SUFFICES ASSUME TypeInv, PlaceInv, JoinInv, WriteInv, SerialInv, CarrierInv, ResultInv,
                    [Next]_vars, op' = "WRITE", NEW c \in Carrier, run'[c] \in {"idle", "inflight"}
             PROVE  res'[c] = "none"
  BY DEF ResultInv
<1>0. c \in Bio /\ c \notin Entropy
  BY Disjoint DEF Bio
<1>1. ASSUME NEW o \in {"READ", "WRITE"}, Map(o) \/ MapNoMem(o) \/ MapOops(o)
      PROVE  res'[c] = "none"
  BY <1>0, <1>1 DEF Map, MapNoMem, MapOops, CarrierInv
<1>2. CASE Worker \/ UNCHANGED vars
  <2>1. run'[c] = run[c] /\ op' = op /\ res' = res
    BY <1>0, <1>2 DEF Worker, WorkerStart, WorkerAlloc, WorkerSubmit, WorkerUseAfterFree, Halt, base,
                      vars, TypeInv, TypeOK, Entropy
  <2> QED BY <2>1 DEF ResultInv
<1>3. ASSUME NEW d \in Bio, Device(d) PROVE res'[c] = "none"
  <2>1. /\ op' = op
        /\ d = c => run'[c] # "inflight" \/ res' = res
        /\ d # c => run'[c] = run[c] /\ res'[c] = res[c]
        /\ run'[c] = "idle" => run[c] = "idle"
        /\ run[d] = "inflight"
    BY <1>0, <1>3 DEF Device, Complete, CompleteFreed, Halt, base, TypeInv, TypeOK
  <2> QED BY <1>0, <1>3, <2>1 DEF ResultInv, Device, Complete, CompleteFreed, Halt, TypeInv, TypeOK
<1>4. ASSUME NEW d \in Bio, Handler(d) PROVE res'[c] = "none"
  <2>1. op' = op /\ res' = res /\ run[d] \in Running
    BY <1>4, HandlerFrame
  <2>2. run[c] \in {"idle", "inflight"}
    <3>1. CASE c = d
      BY <1>4, <2>1, <3>1, HandlerAdvances DEF Before
    <3>2. CASE c # d
      BY <1>0, <1>4, <2>1, <3>2, HandlerOthers, WriteTarget, SerialOneStager
    <3> QED BY <3>1, <3>2
  <2> QED BY <2>1, <2>2 DEF ResultInv
<1> QED BY <1>1, <1>2, <1>3, <1>4 DEF Next

LEMMA PhaseValues ==
  ASSUME ended \in Nat
  PROVE  /\ ended = 1 => Phase = "answered"
         /\ ended = 0 /\ fault # "none" => Phase = "crashed"
         /\ ended = 0 /\ fault = "none" /\ op = "none" => Phase = "idle"
         /\ ended = 0 /\ fault = "none" /\ op # "none" => Phase = "pending"
BY DEF Phase

(* A step the submitter does not see. *)
LEMMA Unseen ==
  ASSUME op' = op, op # "none", UNCHANGED <<ended, fault>>, ended # 0 => bi_error' = bi_error,
         op = "WRITE" => (Kept' <=> Kept)
  PROVE  UNCHANGED Promise!vars
<1>1. Kept' = Kept
  BY DEF Kept
<1>2. Phase' = Phase /\ Answer' = Answer
  BY DEF Phase, Answer
<1> QED BY <1>1, <1>2 DEF Promise!vars, Phase, Kept, Answer

(* map accepts the request, refuses it, or dies. *)
LEMMA RefineMap ==
  ASSUME TypeInv, ReadInv, CarrierInv, NumCarrier > 0,
         NEW o \in {"READ", "WRITE"}, Map(o) \/ MapNoMem(o) \/ MapOops(o)
  PROVE  Promise!Next
<1> USE DEF worker, locals, shared, base
<1>1. /\ op = "none" /\ op' = o /\ ended = 0 /\ fault = "none" /\ bi_error = "ok"
      /\ res' = res /\ \A d \in Bio : res[d] = "none"
  BY DEF Map, MapNoMem, MapOops, ReadInv, CarrierInv
<1>2. CarrierBio(0) \in Carrier /\ CarrierBio(0) \in Bio
  BY DEF Carrier, CarrierBio, Bio
<1>3. Kept = FALSE /\ Kept' = FALSE
  BY <1>1, <1>2 DEF Kept
<1>4. Phase = "idle" /\ Answer = "none"
  BY <1>1, PhaseValues DEF Answer
<1>5. o \in Promise!Kinds
  BY DEF Promise!Kinds
<1>6. CASE Map(o)
  <2>1. Phase' = "pending" /\ Answer' = "none"
    BY <1>1, <1>6 DEF Map, Phase, Answer
  <2>2. Promise!Accept(o)
    BY <1>1, <1>3, <1>4, <2>1 DEF Promise!Accept, Phase, Kept, Answer
  <2> QED BY <1>5, <2>2 DEF Promise!Next
<1>7. CASE MapNoMem(o)
  <2>1. Phase' = "answered" /\ Answer' = "error"
    BY <1>1, <1>7 DEF MapNoMem, Phase, Answer
  <2>2. Promise!Refuse(o)
    BY <1>1, <1>3, <1>4, <2>1 DEF Promise!Refuse, Phase, Kept, Answer
  <2> QED BY <1>5, <2>2 DEF Promise!Next
<1>8. CASE MapOops(o)
  <2>1. Phase' = "crashed" /\ Answer' = "none"
    BY <1>1, <1>8 DEF MapOops, Phase, Answer
  <2>2. Promise!CrashInMap(o)
    BY <1>1, <1>3, <1>4, <2>1 DEF Promise!CrashInMap, Phase, Kept, Answer
  <2> QED BY <1>5, <2>2 DEF Promise!Next
<1> QED BY <1>6, <1>7, <1>8

(* A completion stores the last carrier block, or nothing changes. *)
LEMMA RefineComplete ==
  ASSUME TypeInv, ResultInv, Serving, op # "none", NEW d \in Bio, Complete(d)
  PROVE  [Promise!Next]_(Promise!vars)
<1>1. /\ run[d] = "inflight" /\ fault = "none" /\ ended = 0
      /\ \A x \in Bio \ {d} : res'[x] = res[x]
      /\ UNCHANGED <<op, ended, bi_error, fault>>
  BY DEF Complete, Serving, base, TypeInv, TypeOK
<1>2. Kept => Kept'
  <2> SUFFICES ASSUME Kept, NEW c \in Carrier PROVE res'[c] = "ok"
    BY <1>1 DEF Kept
  <2>1. c # d /\ c \in Bio /\ res[c] = "ok"
    BY <1>1 DEF Kept, ResultInv, Bio
  <2> QED BY <1>1, <2>1
<1>3. CASE Kept' <=> Kept
  BY <1>1, <1>3, Unseen
<1>4. CASE ~Kept /\ Kept'
  <2>1. op = "WRITE" /\ Phase = "pending" /\ Phase' = "pending" /\ Answer' = Answer
    BY <1>1, <1>4 DEF Kept, Phase, Answer
  <2>2. Kept' = TRUE
    BY <1>4 DEF Kept
  <2>3. Promise!Store
    BY <1>1, <1>4, <2>1, <2>2 DEF Promise!Store, Phase, Kept, Answer
  <2> QED BY <2>3 DEF Promise!Next
<1> QED BY <1>2, <1>3, <1>4

(* The answer: success for a WRITE that is stored. *)
LEMMA RefineAnswer ==
  ASSUME TypeInv, op = "WRITE", ended = 0, fault = "none",
         op' = op, res' = res, bi_error' = bi_error, ended' = 1,
         bi_error = "ok" => Kept
  PROVE  Promise!Next
<1>1. Phase = "pending" /\ Phase' = "answered"
  BY DEF Phase
<1>2. Kept' = Kept
  BY DEF Kept
<1>3. CASE bi_error = "ok"
  <2>1. Kept /\ Answer' = "ok"
    BY <1>3 DEF Answer
  <2>2. Promise!Succeed
    BY <1>1, <1>2, <2>1 DEF Promise!Succeed, Phase, Kept, Answer
  <2> QED BY <2>2 DEF Promise!Next, Promise!Resolve
<1>4. CASE bi_error # "ok"
  <2>1. Answer' = "error"
    BY <1>4 DEF Answer
  <2>2. Promise!Fail
    BY <1>1, <1>2, <2>1 DEF Promise!Fail, Phase, Kept, Answer
  <2> QED BY <2>2 DEF Promise!Next, Promise!Resolve
<1> QED BY <1>3, <1>4

LEMMA RefineHandler ==
  ASSUME TypeInv, PlaceInv, JoinInv, ReadInv, WriteInv, SerialInv, CarrierInv, MemoryInv,
         QuietInv, SerialInv', CarrierOnly, NEW d \in Bio, Handler(d)
  PROVE  [Promise!Next]_(Promise!vars)
<1>1. /\ op' = op /\ op # "none" /\ res' = res /\ fault = "none" /\ mem # "none"
      /\ run[d] \in Running
  BY HandlerFrame DEF ReadInv
<1>2. Kept' <=> Kept
  BY <1>1 DEF Kept
<1>3. Answering(d) \/ ended' = ended
  BY HandlerAnswers DEF EndIo, At, Answering
<1>4. CASE op = "READ"
  <2>1. Quiet
    BY <1>1, <1>4 DEF QuietInv
  <2>2. ended = 0 /\ ended' = ended
    BY <1>3, <2>1 DEF Quiet, Serving
  <2>3. CASE fault' = "none"
    BY <1>1, <1>2, <2>2, <2>3, Unseen
  <2>4. CASE fault' = "wild"
    <3>1. Phase = "pending" /\ Phase' = "crashed" /\ Answer' = Answer /\ Kept' = Kept
      BY <1>1, <2>2, <2>4 DEF Phase, Answer, Kept
    <3>2. Promise!CrashInRead
      BY <1>1, <1>4, <3>1 DEF Promise!CrashInRead, Phase, Kept, Answer
    <3> QED BY <3>2 DEF Promise!Next, Promise!Resolve
  <2> QED BY <1>4, <2>1, <2>3, <2>4, QuietHandler
<1>5. CASE op = "WRITE"
  <2>1. Tidy
    BY <1>1, <1>5 DEF MemoryInv, Failing
  <2>2. CASE Serving
    <3>1. ended = 0 /\ ended' = ended
      BY <1>3, <2>2 DEF Serving
    <3>2. fault' = "none"
      <4>1. ~Failing'
        BY DEF Failing, CarrierOnly
      <4>2. ~Death(fault')
        BY DEF Death, CarrierOnly
      <4> QED BY <1>5, <2>2, <4>1, <4>2, ServingWrite
    <3> QED BY <1>1, <1>2, <3>1, <3>2, Unseen
  <2>3. ASSUME NEW c \in Carrier, Cleaning(c) PROVE [Promise!Next]_(Promise!vars)
    <3>1. d = c /\ fault' = "none" /\ (Cleaning(c)' \/ (AnsweredAll' /\ EndIo(c)))
      BY <1>5, <2>3, CleaningWrite
    <3>2. ended = 0
      BY <2>3 DEF Cleaning
    <3>3. CASE Cleaning(c)'
      <4>1. ended' = 0
        BY <3>3 DEF Cleaning
      <4> QED BY <1>1, <1>2, <3>1, <3>2, <4>1, Unseen
    <3>4. CASE AnsweredAll' /\ EndIo(c)
      <4>1. ended' = 1 /\ bi_error' = bi_error
        BY <3>4 DEF AnsweredAll, EndIo
      <4>2. bi_error = "ok" => Kept
        BY <1>1, <1>5, <4>1 DEF SerialInv, Stored, Kept
      <4> QED BY <1>1, <1>5, <3>2, <4>1, <4>2, RefineAnswer
    <3> QED BY <3>1, <3>3, <3>4
  <2>4. ~AnsweredAll
    BY <1>1, <1>5, CleanedQuiet
  <2> QED BY <2>1, <2>2, <2>3, <2>4 DEF Tidy
<1> QED BY <1>1, <1>4, <1>5 DEF TypeInv, TypeOK

LEMMA RefineStep ==
  ASSUME Serial, CarrierOnly, NumCarrier > 0
  PROVE  TypeInv /\ PlaceInv /\ JoinInv /\ ReadInv /\ WriteInv /\ SerialInv /\ CarrierInv
           /\ MemoryInv /\ QuietInv /\ ResultInv /\ [Next]_vars
           => [Promise!Next]_(Promise!vars)
<1> SUFFICES ASSUME TypeInv, PlaceInv, JoinInv, ReadInv, WriteInv, SerialInv, CarrierInv,
                    MemoryInv, QuietInv, ResultInv, [Next]_vars
             PROVE  [Promise!Next]_(Promise!vars)
  OBVIOUS
<1>1. CASE \E o \in {"READ", "WRITE"} : Map(o) \/ MapNoMem(o) \/ MapOops(o)
  BY <1>1, RefineMap
<1>2. CASE Worker
  <2>1. /\ op' = op /\ op # "none" /\ mem # "none" /\ fault = "none"
        /\ UNCHANGED <<ended, bi_error, res>>
    BY <1>2 DEF Worker, WorkerStart, WorkerAlloc, WorkerSubmit, WorkerUseAfterFree, Halt, base,
                PlaceInv, ReadInv
  <2>2. Serving
    <3>1. op = "READ" => Quiet
      BY <2>1 DEF QuietInv
    <3>2. op = "WRITE" => Tidy
      BY <2>1 DEF MemoryInv, Failing
    <3> QED BY <1>2, <2>1, <3>1, <3>2, CleanedQuiet DEF Quiet, Tidy, TypeInv, TypeOK
  <2>3. fault' = "none" /\ (Kept' <=> Kept)
    BY <1>2, <2>1, <2>2, ServingWorker DEF Kept
  <2> QED BY <2>1, <2>3, Unseen
<1>3. ASSUME NEW d \in Bio, Device(d) PROVE [Promise!Next]_(Promise!vars)
  <2>1. op # "none" /\ mem # "none" /\ fault = "none"
    BY <1>3 DEF Device, Complete, CompleteFreed, PlaceInv, ReadInv
  <2>2. Serving
    <3>1. op = "READ" => Quiet
      BY <2>1 DEF QuietInv
    <3>2. op = "WRITE" => Tidy
      BY <2>1 DEF MemoryInv, Failing
    <3> QED BY <1>3, <2>1, <3>1, <3>2, CleanedQuiet DEF Quiet, Tidy, TypeInv, TypeOK
  <2>3. Complete(d)
    BY <1>3, <2>2, ServingDevice
  <2> QED BY <2>1, <2>2, <2>3, RefineComplete
<1>4. ASSUME NEW d \in Bio, Handler(d) PROVE [Promise!Next]_(Promise!vars)
  <2>1. Next
    BY <1>4 DEF Next
  <2> QED BY <1>4, <2>1, SerialStep, RefineHandler
<1>5. CASE UNCHANGED vars
  <2>1. /\ op' = op /\ res' = res /\ UNCHANGED <<ended, bi_error, fault>>
    BY <1>5 DEF vars, base
  <2> QED BY <2>1 DEF Promise!vars
<1> QED BY <1>1, <1>2, <1>3, <1>4, <1>5 DEF Next

(* The driver keeps the safety part of the promise to device-mapper when   *)
(* the devices complete one bio at a time and only carrier devices and the *)
(* allocations in map may fail: every step of the driver is a step of      *)
(* BlockRequest or is not seen by the submitter.  A request is answered    *)
(* once, a WRITE with success only after its carrier blocks are stored,    *)
(* and only a READ or map itself may crash.                                *)
THEOREM KeepsThePromise ==
  ASSUME Serial, CarrierOnly, NumCarrier > 0
  PROVE  Spec => Promise!Init /\ [][Promise!Next]_(Promise!vars)
<1>1. Init => Promise!Init
  <2> SUFFICES ASSUME Init PROVE Promise!Init
    OBVIOUS
  <2>1. Phase = "idle" /\ Kept = FALSE /\ Answer = "none" /\ op = "none"
    BY DEF Init, Phase, Kept, Answer
  <2> QED BY <2>1 DEF Promise!Init, Phase, Kept, Answer
<1>2. TypeInv /\ PlaceInv /\ JoinInv /\ ReadInv /\ WriteInv /\ SerialInv /\ [Next]_vars
        => SerialInv'
  BY SerialStep
<1>3. TypeInv /\ PlaceInv /\ JoinInv /\ ReadInv /\ WriteInv /\ SerialInv /\ CarrierInv
        /\ MemoryInv /\ QuietInv /\ ResultInv /\ [Next]_vars
        => [Promise!Next]_(Promise!vars)
  BY RefineStep
<1> QED BY <1>1, <1>2, <1>3, TypeInit, TypeStep, PlaceInit, PlaceStep, JoinInit, JoinStep,
           ListInit, ListStep, ReadInit, ReadStep, WriteInit, WriteStep, SerialInit, CarrierInit, CarrierStep,
           MemoryInit, MemoryStep, QuietInit, QuietStep, ResultInit, ResultStep, PTL DEF Spec
=============================================================================
