----------------------------- MODULE TargetProofs -----------------------------
(***************************************************************************)
(* Theorems about Target: for any set of requests, any ratio arguments and *)
(* any number of loads.                                                    *)
(***************************************************************************)
EXTENDS Target, TLAPS

USE TargetAssumption

-----------------------------------------------------------------------------
(* What the target owns at each step of its life, and what the steps that  *)
(* ended badly left behind.                                                *)

Served == {"live", "flush", "release"}

\* The objects acquired when the constructor is about to take step s
Owned(s) ==
  CASE s = "headers" -> {}
    [] s = "page_pool" -> Headers
    [] s = "bs" -> Headers \cup {"page_pool"}
    [] s = "matryoshka_wq" -> Headers \cup {"page_pool", "bs"}
    [] s = "passphrase" -> Headers \cup {"page_pool", "bs", "matryoshka_wq"}
    [] s \in {"ratio", "carrier_dev"} -> Objects \ Devices
    [] s = "entropy_dev" -> Objects \ {"entropy_dev"}
    [] OTHER -> Objects

WithoutQueue == {"headers", "page_pool", "bs", "matryoshka_wq"}
WithQueue == (CtrSteps \ WithoutQueue) \cup Served
WithRatio == {"carrier_dev", "entropy_dev", "sectors", "carrier_fs", "metadata"} \cup Served

OwnedInv == pc \in CtrSteps \cup Served => held = Owned(pc)

QueueInv ==
  /\ pc \in WithoutQueue => wq = "garbage"
  /\ pc \in WithQueue => wq = "set"

RatioInv ==
  /\ pc \in WithRatio => num_carrier < num_entropy + 1
  /\ pc \in Served => num_carrier # 1
  /\ pc \in Served /\ num_entropy > Room => num_carrier = 0 /\ num_entropy <= 2 * Room

\* A constructor that failed with a workqueue owns what label bad releases,
\* and its exit is among those that explain the rest.
Early == {"page_pool", "bs", "matryoshka_wq"}

BadInv ==
  pc = "bad" /\ wq = "set" =>
    /\ BadReleases \subseteq held
    /\ FailedAfter(Early)
    /\ "passphrase" \in held => FailedAfter(Early \cup {"passphrase"})

LostInv ==
  /\ lost \cap (Devices \cup {"matryoshka_wq"}) = {}
  /\ lost \cap Headers # {} => "headers" \in exits
  /\ lost \cap {"page_pool", "bs"} # {} => FailedAfter(Early)
  /\ "passphrase" \in lost => "unload" \in exits \/ FailedAfter(Early \cup {"passphrase"})
  /\ fault # "double"

\* Whoever is between its first and its last use of the context; how far the
\* bios of a request are, as long as one handler at most ran the loop.
RequestOK(v) ==
  /\ v.base = "none" => v.reads = 0 /\ v.counted = 0 /\ v.stages = 0
  /\ v.base = "pending" => pc = "live" /\ v.load = loads
  /\ v.work = "queued" => v.base = "pending" /\ v.reads = 0 /\ v.counted = 0 /\ v.stages = 0
  /\ v.work = "running" => pc \in {"live", "flush"} /\ v.load = loads
  /\ v.stages = 0 => /\ v.loops = 0 /\ v.toSubmit = 0 /\ v.writes = 0
                     /\ v.stored = 0 /\ v.carrier_done = 0
  /\ v.stages > 0 => v.reads = 0
  /\ v.base = "pending" /\ v.stages = 1
       => v.toSubmit + v.writes + v.carrier_done <= num_carrier
  /\ v.base = "answered"
       => v.stages > 0 /\ (v.stages = 1 => v.toSubmit = 0 /\ v.writes = 0)

RequestInv == \A r \in Requests : RequestOK(req[r])

TableInv == OwnedInv /\ QueueInv /\ RatioInv /\ BadInv /\ LostInv

RequestRecord ==
  [base : {"none", "pending", "answered", "failed"},
   work : {"none", "queued", "running", "done"},
   load : 0..MaxLoads,
   reads : 0..255, counted : Nat,
   stages : Nat, loops : Nat, toSubmit : Nat,
   writes : Nat, stored : Nat, carrier_done : Nat]

RequestTable == [Requests -> RequestRecord]
Arguments == [carrier : ArgValues \cup {-1}, entropy : ArgValues \cup {-1}]

\* TypeOK with the types of its two structures named
Typed ==
  /\ pc \in CtrSteps \cup {"unloaded", "bad", "live", "flush", "release"}
  /\ obj \in [Objects -> {"none", "held", "freed"}]
  /\ wq \in {"garbage", "null", "set"}
  /\ args \in Arguments
  /\ num_carrier \in 0..255
  /\ num_entropy \in 0..255
  /\ suspended \in BOOLEAN
  /\ req \in RequestTable
  /\ registered \in BOOLEAN
  /\ loads \in 0..MaxLoads
  /\ lost \subseteq Objects
  /\ exits \subseteq CtrSteps \cup {"unload"}
  /\ fault \in {"none", "wild", "oops", "overrun", "double", "uaf"}

LEMMA TypedIsTypeOK == Typed => TypeOK
BY Zenon DEF TypeOK, Typed, Arguments, RequestTable, RequestRecord

LEMMA TypeInit == Init => Typed
<1> SUFFICES ASSUME Init PROVE Typed
  OBVIOUS
<1>1. NoRequest \in RequestRecord
  BY DEF NoRequest, RequestRecord
<1>2. req \in RequestTable
  BY <1>1 DEF Init, RequestTable
<1>3. args \in Arguments
  BY DEF Init, NoArgs, Arguments
<1>4. loads \in 0 .. MaxLoads
  BY DEF Init
<1>5. obj \in [Objects -> {"none", "held", "freed"}]
  BY DEF Init
<1>6. num_carrier \in 0 .. 255 /\ num_entropy \in 0 .. 255
  BY DEF Init
<1>7. lost \subseteq Objects /\ exits \subseteq CtrSteps \cup {"unload"}
  BY DEF Init
<1>8. suspended \in BOOLEAN /\ registered \in BOOLEAN
  BY DEF Init
<1>9. pc \in CtrSteps \cup {"unloaded", "bad", "live", "flush", "release"}
  BY DEF Init
<1> QED BY <1>2, <1>3, <1>4, <1>5, <1>6, <1>7, <1>8, <1>9 DEF Init, Typed

(* Parsed numbers are truncated to eight bits. *)
LEMMA ArgsTyped ==
  ASSUME Typed
  PROVE  U8(args.carrier) \in 0 .. 255 /\ U8(args.entropy) \in 0 .. 255
<1>1. \A n \in Int : U8(n) \in 0 .. 255
  BY DEF U8
<1>2. \A n \in ArgValues \cup {-1} : n \in Int
  BY SMT
<1>3. args.carrier \in ArgValues \cup {-1} /\ args.entropy \in ArgValues \cup {-1}
  BY DEF Typed, Arguments
<1> QED BY <1>1, <1>2, <1>3

(* A request action changes one request, or nothing but the fault. *)
LEMMA RequestChanged ==
  ASSUME Typed, NEW r \in Requests, NEW v \in RequestRecord, req' = [req EXCEPT ![r] = v],
         fault' = fault, unchangedTable
  PROVE  Typed'
<1>1. req' \in RequestTable
  BY DEF Typed, RequestTable
<1> QED BY <1>1 DEF Typed, RequestTable, unchangedTable

LEMMA ContextTouched ==
  ASSUME Typed, NEW r \in Requests, NEW v \in RequestRecord, InContext(r, v), unchangedTable
  PROVE  Typed'
<1>1. CASE req' = [req EXCEPT ![r] = v] /\ fault' = fault
  BY <1>1, RequestChanged
<1>2. CASE fault' = "uaf" /\ req' = req
  BY <1>2 DEF Typed, unchangedTable
<1> QED BY <1>1, <1>2 DEF InContext, Set

LEMMA RequestTyped ==
  ASSUME Typed, NEW r \in Requests, Map(r) \/ Serve(r)
  PROVE  Typed'
<1>0. /\ req[r] \in RequestRecord /\ num_carrier \in 0 .. 255 /\ num_entropy \in 0 .. 255
      /\ loads \in 0 .. MaxLoads
  BY DEF Typed, RequestTable, RequestRecord
<1>e. ASSUME NEW how \in {"failed", "answered"}
      PROVE  Ended(r, how) \in {"none", "pending", "answered", "failed"}
  BY <1>0 DEF Ended, RequestRecord
<1>1. CASE Map(r)
  <2>1. NoRequest \in RequestRecord
    BY DEF NoRequest, RequestRecord
  <2>2. [NoRequest EXCEPT !.base = "pending", !.work = "queued", !.load = loads] \in RequestRecord
    BY <1>0, <2>1 DEF RequestRecord
  <2> QED BY <1>1, <2>2, RequestChanged DEF Map, Set
<1>2. CASE WorkerStart(r)
  <2>1. [req[r] EXCEPT !.work = "running", !.reads = num_entropy] \in RequestRecord
    BY <1>0 DEF RequestRecord
  <2> QED BY <1>2, <2>1, ContextTouched DEF WorkerStart
<1>3. CASE WorkerEnd(r)
  <2>1. [req[r] EXCEPT !.work = "done"] \in RequestRecord
    BY <1>0 DEF RequestRecord
  <2> QED BY <1>3, <2>1, ContextTouched DEF WorkerEnd
<1>4. CASE CountEntropy(r)
  <2>1. req[r].reads - 1 \in 0 .. 255 /\ req[r].counted + 1 \in Nat
    BY <1>0, <1>4 DEF CountEntropy, RequestRecord
  <2>2. [req[r] EXCEPT !.reads = @ - 1, !.counted = @ + 1] \in RequestRecord
    BY <1>0, <2>1 DEF RequestRecord
  <2> QED BY <1>4, <2>2, RequestChanged DEF CountEntropy, Set
<1>5. CASE EntropyFails(r)
  <2>1. req[r].counted - 1 \in Nat
    BY <1>0, <1>5 DEF EntropyFails, RequestRecord
  <2>2. [req[r] EXCEPT !.counted = @ - 1, !.base = Ended(r, "failed")] \in RequestRecord
    BY <1>0, <1>e, <2>1 DEF RequestRecord
  <2> QED BY <1>5, <2>2, ContextTouched DEF EntropyFails
<1>6. CASE CompareEntropy(r)
  <2>1. /\ req[r].counted - 1 \in Nat /\ req[r].stages + 1 \in Nat /\ req[r].loops + 1 \in Nat
        /\ req[r].toSubmit + num_carrier \in Nat
    BY <1>0, <1>6 DEF CompareEntropy, RequestRecord
  <2>2. [req[r] EXCEPT !.counted = @ - 1, !.stages = @ + 1, !.loops = @ + 1,
                       !.toSubmit = @ + num_carrier] \in RequestRecord
    BY <1>0, <2>1 DEF RequestRecord
  <2>3. [req[r] EXCEPT !.counted = @ - 1] \in RequestRecord
    BY <1>0, <2>1 DEF RequestRecord
  <2> QED BY <1>6, <2>2, <2>3, ContextTouched DEF CompareEntropy
<1>7. CASE SubmitCarrier(r)
  <2>1. req[r].toSubmit - 1 \in Nat /\ req[r].writes + 1 \in Nat
    BY <1>0, <1>7 DEF SubmitCarrier, RequestRecord
  <2>2. [req[r] EXCEPT !.toSubmit = @ - 1, !.writes = @ + 1] \in RequestRecord
    BY <1>0, <2>1 DEF RequestRecord
  <2>3. [req[r] EXCEPT !.toSubmit = @ - 1, !.base = Ended(r, "failed")] \in RequestRecord
    BY <1>0, <1>e, <2>1 DEF RequestRecord
  <2> QED BY <1>7, <2>2, <2>3, ContextTouched DEF SubmitCarrier
<1>8. CASE EndLoop(r)
  <2>1. req[r].loops - 1 \in Nat
    BY <1>0, <1>8 DEF EndLoop, RequestRecord
  <2>2. [req[r] EXCEPT !.loops = @ - 1] \in RequestRecord
    BY <1>0, <2>1 DEF RequestRecord
  <2> QED BY <1>8, <2>2, ContextTouched DEF EndLoop
<1>9. CASE CountCarrier(r)
  <2>1. /\ req[r].writes - 1 \in Nat /\ req[r].stored + 1 \in Nat
        /\ req[r].carrier_done + 1 \in Nat
    BY <1>0, <1>9 DEF CountCarrier, RequestRecord
  <2>2. [req[r] EXCEPT !.writes = @ - 1, !.stored = @ + 1, !.carrier_done = @ + 1] \in RequestRecord
    BY <1>0, <2>1 DEF RequestRecord
  <2> QED BY <1>9, <2>2, RequestChanged DEF CountCarrier, Set
<1>10. CASE CompareCarrier(r)
  <2>1. req[r].stored - 1 \in Nat
    BY <1>0, <1>10 DEF CompareCarrier, RequestRecord
  <2> DEFINE b == IF AllWritten(r) THEN Ended(r, "answered") ELSE req[r].base
  <2>2. b \in {"none", "pending", "answered", "failed"}
    BY <1>0, <1>e DEF RequestRecord
  <2> HIDE DEF b
  <2>3. [req[r] EXCEPT !.stored = @ - 1, !.base = b] \in RequestRecord
    BY <1>0, <2>1, <2>2 DEF RequestRecord
  <2> QED BY <1>10, <2>3, ContextTouched DEF CompareCarrier, b
<1> QED BY <1>1, <1>2, <1>3, <1>4, <1>5, <1>6, <1>7, <1>8, <1>9, <1>10 DEF Serve

LEMMA ConstructorTyped ==
  ASSUME Typed, Constructor
  PROVE  Typed'
<1> USE DEF Typed, unchangedCtr, CtrSteps, held
<1>1. ASSUME NEW ok \in SUBSET Headers, AllocHeaders(ok) PROVE Typed'
  BY <1>1 DEF AllocHeaders, Objects
<1>2. ASSUME NEW s \in CtrSteps, Acquire(s) PROVE Typed'
  <2>1. AfterStep(s) \in CtrSteps
    BY <1>2 DEF Acquire, AfterStep
  <2>2. /\ pc' \in {AfterStep(s), "bad"} /\ obj' \in {obj, [obj EXCEPT ![s] = "held"]}
        /\ exits' \in {exits, exits \cup {s}} /\ s \in CtrSteps
        /\ UNCHANGED lost /\ unchangedCtr
    BY <1>2 DEF Acquire
  <2> QED BY <2>1, <2>2
<1>3. CASE AllocWorkqueue
  BY <1>3 DEF AllocWorkqueue
<1>4. CASE ParseRatio
  <2>1. U8(args.carrier) \in 0 .. 255 /\ U8(args.entropy) \in 0 .. 255
    BY ArgsTyped
  <2>2. /\ num_carrier' \in {num_carrier, U8(args.carrier)}
        /\ num_entropy' \in {num_entropy, U8(args.entropy)}
        /\ pc' \in {"carrier_dev", "bad"}
        /\ exits' \in {exits, exits \cup {"ratio"}}
    BY <1>4, Zenon DEF ParseRatio
  <2>3. UNCHANGED <<obj, wq, args, suspended, req, registered, loads, lost, fault>>
    BY <1>4 DEF ParseRatio
  <2> QED BY <2>1, <2>2, <2>3
<1>5. CASE ParseRest
  BY <1>5 DEF ParseRest
<1>6. CASE InitMetadata
  BY <1>6 DEF InitMetadata
<1>7. CASE OverrunMetadata
  BY <1>7 DEF OverrunMetadata
<1>8. CASE Bad
  BY <1>8 DEF Bad, Freed
<1>9. CASE BadFault
  BY <1>9 DEF BadFault
<1> QED BY <1>1, <1>2, <1>3, <1>4, <1>5, <1>6, <1>7, <1>8, <1>9 DEF Constructor

LEMMA TypeStep == Typed /\ [Next]_vars => Typed'
<1> SUFFICES ASSUME Typed, [Next]_vars PROVE Typed'
  OBVIOUS
<1> USE DEF Typed, CtrSteps
<1>1. CASE ModuleInit \/ ModuleExit \/ Suspend
  <2>1. CASE ModuleInit
    BY <2>1 DEF ModuleInit
  <2>2. CASE ModuleExit
    BY <2>2 DEF ModuleExit
  <2>3. CASE Suspend
    BY <2>3 DEF Suspend
  <2> QED BY <1>1, <2>1, <2>2, <2>3
<1>2. ASSUME NEW c \in ArgValues, NEW e \in ArgValues, Load(c, e) PROVE Typed'
  <2>1. args' \in Arguments
    BY <1>2 DEF Load, Arguments
  <2> QED BY <1>2, <2>1 DEF Load
<1>3. CASE Constructor
  BY <1>3, ConstructorTyped
<1>4. ASSUME NEW r \in Requests, Map(r) \/ Serve(r) PROVE Typed'
  BY <1>4, RequestTyped
<1>5. CASE Destroy \/ Flush
  <2>1. CASE Destroy
    BY <2>1 DEF Destroy
  <2>2. CASE Flush
    BY <2>2 DEF Flush
  <2> QED BY <1>5, <2>1, <2>2
<1>6. CASE Release
  <2>1. obj' \in [Objects -> {"none", "held", "freed"}] /\ lost' \subseteq Objects
    BY <1>6 DEF Release, Freed, held
  <2> QED BY <1>6, <2>1 DEF Release
<1>7. CASE UNCHANGED vars
  BY <1>7 DEF vars
<1> QED BY <1>1, <1>2, <1>3, <1>4, <1>5, <1>6, <1>7 DEF Next, Removal

(* Every variable keeps its type: in particular the ratio, parsed as wider *)
(* numbers, and the loads a request belongs to.                            *)
THEOREM TypeCorrect == Spec => []TypeOK
BY TypedIsTypeOK, TypeInit, TypeStep, PTL DEF Spec
-----------------------------------------------------------------------------
(* The constructor and the destructor. *)

LEMMA TableInit == Init => TableInv
BY DEF Init, TableInv, OwnedInv, QueueInv, RatioInv, BadInv, LostInv, CtrSteps,
       Served, WithoutQueue, WithQueue, WithRatio

LEMMA TableUnchanged ==
  ASSUME TableInv, UNCHANGED <<obj, wq, num_carrier, num_entropy, lost, exits, pc>>,
         fault' # "double"
  PROVE  TableInv'
BY DEF TableInv, OwnedInv, QueueInv, RatioInv, BadInv, LostInv, FailedAfter, held

(* A failing step goes to label bad with its name among the exits. *)
LEMMA Fails ==
  ASSUME Typed, TableInv, NEW s \in CtrSteps \ {"headers"}, pc = s, pc' = "bad",
         exits' = exits \cup {s},
         wq' = wq \/ (s = "matryoshka_wq" /\ wq' = "null"),
         UNCHANGED <<obj, lost, fault>>
  PROVE  TableInv'
<1> USE DEF Typed, CtrSteps, Served
<1>1. OwnedInv' /\ QueueInv' /\ RatioInv'
  BY DEF OwnedInv, QueueInv, RatioInv, WithoutQueue, WithQueue, WithRatio
<1>2. LostInv'
  BY DEF TableInv, LostInv, FailedAfter
<1>3. BadInv'
  <2> SUFFICES ASSUME wq' = "set"
               PROVE  /\ BadReleases \subseteq held
                      /\ FailedAfter(Early)'
                      /\ "passphrase" \in held => FailedAfter(Early \cup {"passphrase"})'
    BY DEF BadInv, held
  <2>1. pc \notin WithoutQueue
    BY DEF TableInv, QueueInv, WithoutQueue
  <2>2. held = Owned(pc)
    BY DEF TableInv, OwnedInv
  <2>3. BadReleases \subseteq held
    BY <2>1, <2>2 DEF WithoutQueue, Owned, BadReleases, Objects, Headers, Devices
  <2>4. FailedAfter(Early)'
    BY <2>1 DEF FailedAfter, WithoutQueue, Early
  <2>5. "passphrase" \in held => s # "passphrase"
    BY <2>2 DEF Owned, Headers
  <2>6. "passphrase" \in held => FailedAfter(Early \cup {"passphrase"})'
    BY <2>1, <2>5 DEF FailedAfter, WithoutQueue, Early
  <2> QED BY <2>3, <2>4, <2>6
<1> QED BY <1>1, <1>2, <1>3 DEF TableInv

(* A step that succeeds owns what the next one starts from. *)
LEMMA Succeeds ==
  ASSUME Typed, TableInv, pc \in CtrSteps, pc' \in CtrSteps \cup Served,
         held' = Owned(pc'), QueueInv', RatioInv', UNCHANGED <<lost, exits, fault>>
  PROVE  TableInv'
BY DEF TableInv, OwnedInv, BadInv, LostInv, FailedAfter, CtrSteps, Served

(* More entropy bios than one array holds share a slot with the first      *)
(* carrier bio, and more than both hold reach behind them.                 *)
LEMMA RatioFits ==
  ASSUME Typed, SlotsFit, num_entropy > Room
  PROVE  num_carrier = 0 /\ num_entropy <= 2 * Room
<1>0. num_carrier \in 0 .. 255 /\ num_entropy \in 0 .. 255 /\ Room \in Nat
  BY DEF Typed
<1>1. Room \in EntropySlots
  BY <1>0 DEF EntropySlots
<1>2. num_carrier = 0
  <2> SUFFICES ASSUME num_carrier > 0 PROVE FALSE
    BY <1>0
  <2>1. Room + 0 \in CarrierSlots
    BY <1>0 DEF CarrierSlots
  <2> QED BY <1>0, <1>1, <2>1 DEF SlotsFit
<1>3. num_entropy <= 2 * Room
  <2> SUFFICES ASSUME num_entropy > 2 * Room PROVE FALSE
    BY <1>0
  <2>1. 2 * Room \in EntropySlots
    BY <1>0 DEF EntropySlots
  <2> QED BY <1>0, <2>1 DEF SlotsFit
<1> QED BY <1>2, <1>3

LEMMA ConstructorTable ==
  ASSUME Typed, TableInv, Constructor, fault = "none"
  PROVE  TableInv'
<1> USE DEF Typed, unchangedCtr
<1>1. ASSUME NEW ok \in SUBSET Headers, AllocHeaders(ok) PROVE TableInv'
  <2>1. CASE ok = Headers
    <3>1. held' = Owned("page_pool") /\ pc' = "page_pool" /\ UNCHANGED <<lost, exits>>
      BY <1>1, <2>1 DEF AllocHeaders, held, Owned, Objects
    <3>2. QueueInv' /\ RatioInv'
      BY <1>1, <3>1 DEF AllocHeaders, TableInv, QueueInv, RatioInv, WithoutQueue, WithQueue, WithRatio, Served, CtrSteps
    <3> QED BY <1>1, <3>1, <3>2, Succeeds DEF AllocHeaders, CtrSteps
  <2>2. CASE ok # Headers
    BY <1>1, <2>2 DEF AllocHeaders, TableInv, OwnedInv, QueueInv, RatioInv, BadInv, LostInv,
       FailedAfter, CtrSteps, Served, WithoutQueue, WithQueue, WithRatio, Headers, Devices
  <2> QED BY <2>1, <2>2
<1>2. ASSUME NEW s \in CtrSteps, Acquire(s) PROVE TableInv'
  <2>1. CASE /\ pc' = AfterStep(s)
             /\ obj' = [obj EXCEPT ![s] = "held"]
             /\ UNCHANGED exits
    <3>1. held' = held \cup {s}
      BY <1>2, <2>1 DEF Acquire, held, Objects, Devices
    <3>2. held = Owned(s)
      BY <1>2 DEF Acquire, TableInv, OwnedInv
    <3>3. held' = Owned(pc')
      BY <1>2, <2>1, <3>1, <3>2 DEF Acquire, AfterStep, Owned, Objects, Headers, Devices
    <3>4. QueueInv' /\ RatioInv'
      BY <1>2, <2>1 DEF Acquire, AfterStep, TableInv, QueueInv, RatioInv,
         WithoutQueue, WithQueue, WithRatio, Served, CtrSteps
    <3> QED BY <1>2, <2>1, <3>3, <3>4, Succeeds DEF Acquire, AfterStep, CtrSteps
  <2>2. CASE /\ pc' = "bad"
             /\ exits' = exits \cup {s}
             /\ UNCHANGED obj
    BY <1>2, <2>2, Fails DEF Acquire
  <2> QED BY <1>2, <2>1, <2>2 DEF Acquire
<1>3. CASE AllocWorkqueue
  <2>1. CASE pc' = "passphrase"
    <3>1. held' = held \cup {"matryoshka_wq"}
      BY <1>3, <2>1 DEF AllocWorkqueue, held, Objects
    <3>2. held = Owned(pc)
      BY <1>3 DEF AllocWorkqueue, TableInv, OwnedInv, CtrSteps
    <3>3. held' = Owned(pc')
      BY <1>3, <2>1, <3>1, <3>2 DEF AllocWorkqueue, Owned
    <3>4. QueueInv' /\ RatioInv'
      BY <1>3, <2>1 DEF AllocWorkqueue, TableInv, QueueInv, RatioInv,
         WithoutQueue, WithQueue, WithRatio, Served, CtrSteps
    <3> QED BY <1>3, <2>1, <3>3, <3>4, Succeeds DEF AllocWorkqueue, CtrSteps
  <2>2. CASE pc' = "bad"
    BY <1>3, <2>2, Fails DEF AllocWorkqueue, CtrSteps
  <2> QED BY <1>3, <2>1, <2>2 DEF AllocWorkqueue
<1>4. CASE ParseRatio
  <2>1. CASE pc' = "carrier_dev"
    <3>1. U8(args.carrier) \in 0 .. 255 /\ U8(args.entropy) \in 0 .. 255
      BY ArgsTyped
    <3>2. num_carrier' < num_entropy' + 1
      BY <1>4, <2>1, <3>1 DEF ParseRatio, checkRatio
    <3>3. held' = Owned(pc')
      BY <1>4, <2>1 DEF ParseRatio, TableInv, OwnedInv, held, Owned, CtrSteps
    <3>4. QueueInv' /\ RatioInv'
      BY <1>4, <2>1, <3>2 DEF ParseRatio, TableInv, QueueInv, RatioInv,
         WithoutQueue, WithQueue, WithRatio, Served, CtrSteps
    <3> QED BY <1>4, <2>1, <3>3, <3>4, Succeeds DEF ParseRatio, CtrSteps
  <2>2. CASE pc' = "bad"
    BY <1>4, <2>2, Fails DEF ParseRatio, CtrSteps
  <2> QED BY <1>4, <2>1, <2>2 DEF ParseRatio
<1>5. CASE ParseRest
  <2>1. CASE pc' # "bad"
    <3>1. held' = Owned(pc')
      BY <1>5, <2>1 DEF ParseRest, TableInv, OwnedInv, held, Owned, CtrSteps
    <3>2. QueueInv' /\ RatioInv'
      BY <1>5, <2>1 DEF ParseRest, TableInv, QueueInv, RatioInv,
         WithoutQueue, WithQueue, WithRatio, Served, CtrSteps
    <3> QED BY <1>5, <2>1, <3>1, <3>2, Succeeds DEF ParseRest, CtrSteps
  <2>2. CASE pc' = "bad"
    BY <1>5, <2>2, Fails DEF ParseRest, CtrSteps
  <2> QED BY <2>1, <2>2
<1>6. CASE InitMetadata
  <2>1. CASE pc' = "live"
    <3>1. held' = Owned(pc')
      BY <1>6, <2>1 DEF InitMetadata, TableInv, OwnedInv, held, Owned, CtrSteps
    <3>2. QueueInv' /\ RatioInv'
      <4>1. num_entropy > Room => num_carrier = 0 /\ num_entropy <= 2 * Room
        BY <1>6, RatioFits DEF InitMetadata
      <4> QED BY <1>6, <2>1, <4>1 DEF InitMetadata, Loads, TableInv, QueueInv, RatioInv,
                 WithoutQueue, WithQueue, WithRatio, Served, CtrSteps
    <3> QED BY <1>6, <2>1, <3>1, <3>2, Succeeds DEF InitMetadata, CtrSteps, Served
  <2>2. CASE pc' = "bad"
    BY <1>6, <2>2, Fails DEF InitMetadata, CtrSteps
  <2> QED BY <1>6, <2>1, <2>2 DEF InitMetadata
<1>7. CASE OverrunMetadata
  BY <1>7, TableUnchanged DEF OverrunMetadata
<1>8. CASE Bad
  <2>1. /\ BadReleases \subseteq held
        /\ FailedAfter(Early)
        /\ "passphrase" \in held => FailedAfter(Early \cup {"passphrase"})
    BY <1>8 DEF Bad, TableInv, BadInv
  <2>2. lost' \ lost \subseteq {"page_pool", "bs", "passphrase"}
    BY <1>8 DEF Bad, BadReleases, Objects, held
  <2>3. LostInv'
    BY <1>8, <2>1, <2>2 DEF Bad, TableInv, LostInv, FailedAfter, Headers, Devices
  <2> QED BY <1>8, <2>3 DEF Bad, TableInv, OwnedInv, QueueInv, RatioInv, BadInv,
             CtrSteps, Served, WithoutQueue, WithQueue, WithRatio
<1>9. CASE BadFault
  BY <1>9, TableUnchanged DEF BadFault
<1> QED BY <1>1, <1>2, <1>3, <1>4, <1>5, <1>6, <1>7, <1>8, <1>9 DEF Constructor

LEMMA RemovalTable ==
  ASSUME Typed, TableInv, Removal
  PROVE  TableInv'
<1> USE DEF Typed, Served, CtrSteps
<1>1. CASE Destroy \/ Flush
  BY <1>1 DEF Destroy, Flush, TableInv, OwnedInv, QueueInv, RatioInv, BadInv, LostInv,
     FailedAfter, held, Owned, WithoutQueue, WithQueue, WithRatio
<1>2. CASE Release
  <2>1. held = Objects
    BY <1>2 DEF Release, TableInv, OwnedInv, Owned
  <2>2. DtrReleases \subseteq held /\ held \ DtrReleases = {"passphrase"}
    BY <2>1 DEF DtrReleases, Objects
  <2>3. LostInv'
    BY <1>2, <2>2 DEF Release, TableInv, LostInv, FailedAfter, Headers, Devices
  <2> QED BY <1>2, <2>3 DEF Release, TableInv, OwnedInv, QueueInv, RatioInv, BadInv,
             WithoutQueue, WithQueue, WithRatio
<1> QED BY <1>1, <1>2 DEF Removal

LEMMA TableStep == Typed /\ TableInv /\ [Next]_vars => TableInv'
<1> SUFFICES ASSUME Typed, TableInv, [Next]_vars PROVE TableInv'
  OBVIOUS
<1>0. fault # "double"
  BY DEF TableInv, LostInv
<1>1. CASE ModuleInit \/ ModuleExit \/ Suspend
  BY <1>0, <1>1, TableUnchanged DEF ModuleInit, ModuleExit, Suspend
<1>2. ASSUME NEW c \in ArgValues, NEW e \in ArgValues, Load(c, e) PROVE TableInv'
  <2>1. held' = {}
    BY <1>2 DEF Load, held
  <2> QED BY <1>2, <2>1 DEF Load, TableInv, OwnedInv, QueueInv, RatioInv, BadInv, LostInv,
             FailedAfter, Owned, CtrSteps, Served, WithoutQueue, WithQueue, WithRatio
<1>3. CASE fault = "none" /\ Constructor
  BY <1>3, ConstructorTable
<1>4. ASSUME NEW r \in Requests, Map(r) \/ Serve(r) PROVE TableInv'
  BY <1>0, <1>4, TableUnchanged
     DEF Map, Serve, WorkerStart, WorkerEnd, CountEntropy, EntropyFails, CompareEntropy,
         SubmitCarrier, EndLoop, CountCarrier, CompareCarrier, unchangedTable, InContext, Set
<1>5. CASE Removal
  BY <1>5, RemovalTable
<1>6. CASE UNCHANGED vars
  BY <1>0, <1>6, TableUnchanged DEF vars
<1> QED BY <1>1, <1>2, <1>3, <1>4, <1>5, <1>6 DEF Next

(* A target that serves bios owns all its objects.  Its ratio exceeds what *)
(* an array holds only without carrier blocks, and never what both hold.   *)
THEOREM LiveTargetsComplete == Spec => []LiveIsComplete
<1>1. Typed /\ TableInv => LiveIsComplete
  BY DEF TableInv, OwnedInv, RatioInv, LiveIsComplete, Owned, Served, WithRatio
<1> QED BY <1>1, TypeInit, TypeStep, TableInit, TableStep, PTL DEF Spec

(* What the constructor and the destructor lose, and nothing is released   *)
(* twice: on every path, for any number of loads.                          *)
THEOREM LossesAreExplained == Spec => []LossesExplained
<1>1. Typed /\ TableInv => LossesExplained
  BY TypedIsTypeOK DEF TableInv, LostInv, LossesExplained, Early, Devices, Headers
<1> QED BY <1>1, TypeInit, TypeStep, TableInit, TableStep, PTL DEF Spec
-----------------------------------------------------------------------------
(* The requests of a target, and its end. *)

LEMMA RequestInit == Init => RequestInv /\ ContextOutlivesUsers
BY DEF Init, RequestInv, RequestOK, ContextOutlivesUsers, NoRequest

LEMMA RequestUnchanged ==
  ASSUME RequestInv, UNCHANGED <<req, loads, num_carrier>>,
         pc' = pc \/ pc \notin {"live", "flush"}, fault' # "uaf"
  PROVE  (RequestInv /\ ContextOutlivesUsers)'
BY DEF RequestInv, RequestOK, ContextOutlivesUsers

(* Nobody needs the context of a target that is gone but a handler that    *)
(* device-mapper no longer waits for.                                      *)
LEMMA ContextInUse ==
  ASSUME Typed, TableInv, RequestInv, NEW r \in Requests,
         req[r].base = "pending" \/ req[r].work = "running"
  PROVE  obj["context"] = "held" /\ req[r].load = loads
<1>1. pc \in {"live", "flush"} /\ req[r].load = loads
  BY DEF RequestInv, RequestOK
<1>2. held = Objects
  BY <1>1 DEF TableInv, OwnedInv, Owned, Served
<1> QED BY <1>1, <1>2 DEF held, Objects, Headers

LEMMA OvertakenUser ==
  ASSUME Typed, TableInv, RequestInv, NEW r \in Requests,
         ~ (obj["context"] = "held" /\ req[r].load = loads),
         req[r].counted > 0 \/ req[r].loops > 0 \/ req[r].stored > 0
  PROVE  Overtaken(r)
<1>1. req[r] \in RequestRecord /\ RequestOK(req[r])
  BY DEF Typed, RequestTable, RequestInv
<1>2. req[r].base # "pending"
  BY ContextInUse
<1> QED BY <1>1, <1>2 DEF RequestRecord, RequestOK, Overtaken

(* One request changes, and stays in order. *)
LEMMA RequestKept ==
  ASSUME Typed, RequestInv, NEW r \in Requests, NEW v, RequestOK(v),
         req' = [req EXCEPT ![r] = v], fault' = "none", unchangedTable
  PROVE  (RequestInv /\ ContextOutlivesUsers)'
<1>1. \A q \in Requests : RequestOK(req'[q])
  BY DEF RequestInv, Typed, RequestTable
<1>2. \A q \in Requests : RequestOK(req[q])'
  BY <1>1 DEF RequestOK, unchangedTable
<1> QED BY <1>2 DEF RequestInv, ContextOutlivesUsers

(* A handler uses the context: it is still there, or an answer overtook it. *)
LEMMA HandlerKept ==
  ASSUME Typed, TableInv, RequestInv, NEW r \in Requests, NEW v,
         obj["context"] = "held" /\ req[r].load = loads => RequestOK(v),
         req[r].counted > 0 \/ req[r].loops > 0 \/ req[r].stored > 0,
         InContext(r, v), fault = "none", unchangedTable
  PROVE  (RequestInv /\ ContextOutlivesUsers)'
<1>1. CASE obj["context"] = "held" /\ req[r].load = loads
  BY <1>1, RequestKept DEF InContext, Set
<1>2. CASE ~ (obj["context"] = "held" /\ req[r].load = loads)
  <2>1. Overtaken(r)
    BY <1>2, OvertakenUser
  <2>2. req' = req /\ pc' = pc /\ loads' = loads /\ num_carrier' = num_carrier
    BY <1>2 DEF InContext, unchangedTable
  <2> QED BY <2>1, <2>2 DEF RequestInv, RequestOK, ContextOutlivesUsers, Overtaken
<1> QED BY <1>1, <1>2

LEMMA ServeRequest ==
  ASSUME Typed, TableInv, RequestInv, NEW r \in Requests, Map(r) \/ Serve(r),
         fault = "none"
  PROVE  (RequestInv /\ ContextOutlivesUsers)'
<1>0. req[r] \in RequestRecord /\ num_carrier \in Nat /\ RequestOK(req[r])
  BY DEF Typed, RequestTable, RequestInv
<1>e. /\ Ended(r, "failed") \in {req[r].base, "failed"} /\ Ended(r, "failed") # "pending"
      /\ Ended(r, "answered") \in {req[r].base, "answered"}
      /\ Ended(r, "answered") # "pending"
  BY DEF Ended
<1>1. CASE Map(r)
  <2>1. RequestOK([NoRequest EXCEPT !.base = "pending", !.work = "queued", !.load = loads])
    BY <1>0, <1>1 DEF Map, NoRequest, RequestOK
  <2> QED BY <1>1, <2>1, RequestKept DEF Map, Set
<1>2. CASE WorkerStart(r)
  <2>1. req[r].base = "pending"
    BY <1>0, <1>2 DEF WorkerStart, RequestOK
  <2> DEFINE v == [req[r] EXCEPT !.work = "running", !.reads = num_entropy]
  <2>2. req' = [req EXCEPT ![r] = v] /\ UNCHANGED fault
    BY <1>2, <2>1, ContextInUse DEF WorkerStart, InContext, Set
  <2>3. RequestOK(v)
    BY <1>0, <1>2, <2>1 DEF WorkerStart, RequestRecord, RequestOK
  <2> HIDE DEF v
  <2> QED BY <1>2, <2>2, <2>3, RequestKept DEF WorkerStart
<1>3. CASE WorkerEnd(r)
  <2> DEFINE v == [req[r] EXCEPT !.work = "done"]
  <2>1. req' = [req EXCEPT ![r] = v] /\ UNCHANGED fault
    BY <1>3, ContextInUse DEF WorkerEnd, InContext, Set
  <2>2. RequestOK(v)
    BY <1>0, <1>3 DEF WorkerEnd, RequestRecord, RequestOK
  <2> HIDE DEF v
  <2> QED BY <1>3, <2>1, <2>2, RequestKept DEF WorkerEnd
<1>4. CASE CountEntropy(r)
  <2>1. RequestOK([req[r] EXCEPT !.reads = @ - 1, !.counted = @ + 1])
    BY <1>0, <1>4 DEF CountEntropy, RequestRecord, RequestOK
  <2> QED BY <1>4, <2>1, RequestKept DEF CountEntropy, Set
<1>5. CASE EntropyFails(r)
  <2>1. RequestOK([req[r] EXCEPT !.counted = @ - 1, !.base = Ended(r, "failed")])
    BY <1>0, <1>e, <1>5 DEF EntropyFails, RequestRecord, RequestOK
  <2> QED BY <1>5, <2>1, HandlerKept DEF EntropyFails
<1>6. CASE CompareEntropy(r)
  <2>1. CASE req[r].reads = 0
    <3>1. RequestOK([req[r] EXCEPT !.counted = @ - 1, !.stages = @ + 1, !.loops = @ + 1,
                                   !.toSubmit = @ + num_carrier])
      BY <1>0, <1>6, <2>1 DEF CompareEntropy, RequestRecord, RequestOK
    <3> QED BY <1>6, <2>1, <3>1, HandlerKept DEF CompareEntropy
  <2>2. CASE req[r].reads # 0
    <3>1. RequestOK([req[r] EXCEPT !.counted = @ - 1])
      BY <1>0, <1>6 DEF CompareEntropy, RequestRecord, RequestOK
    <3> QED BY <1>6, <2>2, <3>1, HandlerKept DEF CompareEntropy
  <2> QED BY <2>1, <2>2
<1>7. CASE SubmitCarrier(r)
  <2>1. RequestOK([req[r] EXCEPT !.toSubmit = @ - 1, !.writes = @ + 1])
    BY <1>0, <1>7 DEF SubmitCarrier, RequestRecord, RequestOK
  <2>2. RequestOK([req[r] EXCEPT !.toSubmit = @ - 1, !.base = Ended(r, "failed")])
    BY <1>0, <1>e, <1>7 DEF SubmitCarrier, RequestRecord, RequestOK
  <2> QED BY <1>7, <2>1, <2>2, HandlerKept DEF SubmitCarrier
<1>8. CASE EndLoop(r)
  <2>1. RequestOK([req[r] EXCEPT !.loops = @ - 1])
    BY <1>0, <1>8 DEF EndLoop, RequestRecord, RequestOK
  <2> QED BY <1>8, <2>1, HandlerKept DEF EndLoop
<1>9. CASE CountCarrier(r)
  <2>1. RequestOK([req[r] EXCEPT !.writes = @ - 1, !.stored = @ + 1, !.carrier_done = @ + 1])
    BY <1>0, <1>9 DEF CountCarrier, RequestRecord, RequestOK
  <2> QED BY <1>9, <2>1, RequestKept DEF CountCarrier, Set
<1>10. CASE CompareCarrier(r)
  <2>1. CASE AllWritten(r)
    <3>1. RequestOK([req[r] EXCEPT !.stored = @ - 1, !.base = Ended(r, "answered")])
      <4>1. req[r].stages > 0
        BY <1>0, <1>10 DEF CompareCarrier, RequestRecord, RequestOK
      <4>2. req[r].base = "pending" /\ req[r].stages = 1 => req[r].toSubmit = 0 /\ req[r].writes = 0
        BY <1>0, <2>1 DEF AllWritten, RequestRecord, RequestOK
      <4> QED BY <1>0, <1>e, <1>10, <4>1, <4>2 DEF CompareCarrier, Ended, RequestRecord, RequestOK
    <3> QED BY <1>10, <2>1, <3>1, HandlerKept DEF CompareCarrier
  <2>2. CASE ~AllWritten(r)
    <3>1. RequestOK([req[r] EXCEPT !.stored = @ - 1, !.base = @])
      BY <1>0, <1>10 DEF CompareCarrier, RequestRecord, RequestOK
    <3> QED BY <1>10, <2>2, <3>1, HandlerKept DEF CompareCarrier
  <2> QED BY <2>1, <2>2
<1> QED BY <1>1, <1>2, <1>3, <1>4, <1>5, <1>6, <1>7, <1>8, <1>9, <1>10 DEF Serve

LEMMA RequestStep ==
  Typed /\ TableInv /\ RequestInv /\ ContextOutlivesUsers /\ [Next]_vars
    => (RequestInv /\ ContextOutlivesUsers)'
<1> SUFFICES ASSUME Typed, TableInv, RequestInv, ContextOutlivesUsers, [Next]_vars
             PROVE  (RequestInv /\ ContextOutlivesUsers)'
  OBVIOUS
<1>0. CASE UNCHANGED vars
  BY <1>0 DEF vars, RequestInv, RequestOK, ContextOutlivesUsers, Overtaken
<1> SUFFICES ASSUME fault = "none", Next
             PROVE  (RequestInv /\ ContextOutlivesUsers)'
  BY <1>0 DEF Next
<1>1. CASE ModuleInit \/ ModuleExit \/ Suspend
  BY <1>1, RequestUnchanged DEF ModuleInit, ModuleExit, Suspend
<1>2. ASSUME NEW c \in ArgValues, NEW e \in ArgValues, Load(c, e)
      PROVE  (RequestInv /\ ContextOutlivesUsers)'
  BY <1>2 DEF Load, RequestInv, RequestOK, ContextOutlivesUsers
<1>3. CASE Constructor
  <2>1. /\ UNCHANGED <<req, loads>> /\ fault' # "uaf" /\ pc \notin {"live", "flush"}
        /\ pc' \notin {"live", "flush"} \/ num_carrier' = num_carrier
    BY <1>3 DEF Constructor, AllocHeaders, Acquire, AllocWorkqueue, ParseRatio, ParseRest,
       InitMetadata, OverrunMetadata, Bad, BadFault, unchangedCtr, CtrSteps
  <2> QED BY <2>1 DEF RequestInv, RequestOK, ContextOutlivesUsers
<1>4. ASSUME NEW r \in Requests, Map(r) \/ Serve(r)
      PROVE  (RequestInv /\ ContextOutlivesUsers)'
  BY <1>4, ServeRequest
<1>5. CASE Destroy \/ Flush
  BY <1>5 DEF Destroy, Flush, Flushed, RequestInv, RequestOK, ContextOutlivesUsers
<1>6. CASE Release
  <2>1. UNCHANGED <<req, loads, num_carrier>> /\ fault' # "uaf" /\ pc \notin {"live", "flush"}
    BY <1>6 DEF Release
  <2> QED BY <2>1, RequestUnchanged
<1> QED BY <1>1, <1>2, <1>3, <1>4, <1>5, <1>6 DEF Next, Removal

(* Nobody uses the context of a target that was released but a handler     *)
(* that an answer overtook, and if the request did not fail and one handler *)
(* ran the loop, only to compare: in every interleaving of any requests.   *)
THEOREM ContextIsOutlived == Spec => []ContextOutlivesUsers
BY TypeInit, TypeStep, TableInit, TableStep, RequestInit, RequestStep, PTL DEF Spec
=============================================================================
