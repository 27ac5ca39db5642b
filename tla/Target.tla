------------------------------- MODULE Target -------------------------------
(***************************************************************************)
(* The life of a dm-matryoshka target (src/src/target.c): the constructor  *)
(* matryoshka_ctr with a failure at each of its steps, the requests of a   *)
(* loaded target as far as they keep the context in use, the destructor    *)
(* matryoshka_dtr, and the module's init and exit.  Device-mapper runs     *)
(* constructor and destructor of a table one after the other.  How one     *)
(* request is served is the subject of MatryoshkaIO; what                  *)
(* matryoshka_metadata_init returns is the subject of Metadata.            *)
(***************************************************************************)
EXTENDS Integers, FiniteSets, TLC

CONSTANTS
  Requests,     \* bios that may be given to the target
  ArgValues,    \* what the two ratio arguments may be; -1: not a number
  Room,         \* entries of entropy_bios and of carrier_bios, 10 in the code
  MaxLoads      \* how often a table is loaded

ASSUME TargetAssumption ==
  /\ ArgValues \subseteq Int
  /\ Room \in Nat
  /\ MaxLoads \in Nat

VARIABLES
  pc,           \* where the table stands: unloaded, a step of the constructor,
                \* bad, live, flush, release
  obj,          \* per object the constructor acquires: none, held or freed
  wq,           \* context->matryoshka_wq: garbage (kmalloc), null or set
  args,         \* argv[1] and argv[2]
  num_carrier, num_entropy,
  suspended,    \* dm_suspend has begun: no new bios
  req,          \* per request: base bio, worker, which loaded target it was
                \* given to, and where its bios and their handlers stand
  registered,   \* dm_register_target
  loads,
  lost,         \* objects nothing points to any more
  exits,        \* how constructors and destructors have ended so far
  fault         \* how the kernel died, if it did

vars == <<pc, obj, wq, args, num_carrier, num_entropy, suspended, req,
          registered, loads, lost, exits, fault>>

Headers == {"context", "carrier", "entropy", "fat"}
Devices == {"carrier_dev", "entropy_dev"}
Objects == Headers \cup Devices \cup {"page_pool", "bs", "matryoshka_wq", "passphrase"}

CtrSteps == {"headers", "page_pool", "bs", "matryoshka_wq", "passphrase", "ratio",
             "carrier_dev", "entropy_dev", "sectors", "carrier_fs", "metadata"}

\* reads, writes: entropy and carrier bios in flight; counted, stored: their
\* handlers that are counted in and have not compared yet; stages: handlers
\* that found all entropy blocks read, loops: those still in the loop that
\* submits, toSubmit: what it has to submit; carrier_done: the io's counter
NoRequest == [base |-> "none", work |-> "none", load |-> 0, reads |-> 0, counted |-> 0,
              stages |-> 0, loops |-> 0, toSubmit |-> 0, writes |-> 0, stored |-> 0,
              carrier_done |-> 0]
NoArgs == [carrier |-> -1, entropy |-> -1]

held == {o \in Objects : obj[o] = "held"}

\* sscanf into an unsigned long long and assignment to a u8
U8(n) == n % 256

\* Mutant: as many carrier blocks as entropy blocks and one more.
checkRatioOff(m, k) == k + 1 >= m

\* checkRatio: the arithmetic is done in int
checkRatio(m, k) == k + 1 > m

TypeOK ==
  /\ pc \in CtrSteps \cup {"unloaded", "bad", "live", "flush", "release"}
  /\ obj \in [Objects -> {"none", "held", "freed"}]
  /\ wq \in {"garbage", "null", "set"}
  /\ args \in [carrier : ArgValues \cup {-1}, entropy : ArgValues \cup {-1}]
  /\ num_carrier \in 0..255
  /\ num_entropy \in 0..255
  /\ suspended \in BOOLEAN
  /\ req \in [Requests -> [base : {"none", "pending", "answered", "failed"},
                           work : {"none", "queued", "running", "done"},
                           load : 0..MaxLoads,
                           reads : 0..255, counted : Nat,
                           stages : Nat, loops : Nat, toSubmit : Nat,
                           writes : Nat, stored : Nat, carrier_done : Nat]]
  /\ registered \in BOOLEAN
  /\ loads \in 0..MaxLoads
  /\ lost \subseteq Objects
  /\ exits \subseteq CtrSteps \cup {"unload"}
  /\ fault \in {"none", "wild", "oops", "overrun", "double", "uaf"}

Init ==
  /\ pc = "unloaded"
  /\ obj = [o \in Objects |-> "none"]
  /\ wq = "garbage"
  /\ args = NoArgs
  /\ num_carrier = 0 /\ num_entropy = 0
  /\ suspended = FALSE
  /\ req = [r \in Requests |-> NoRequest]
  /\ registered = FALSE
  /\ loads = 0
  /\ lost = {}
  /\ exits = {}
  /\ fault = "none"

unchangedCtr == UNCHANGED <<wq, args, num_carrier, num_entropy, registered, loads,
                            suspended, req, fault>>
-----------------------------------------------------------------------------
(***************************************************************************)
(* The module.  Device-mapper holds a reference on it while a table uses   *)
(* the target type, so that it is not unloaded under a table.              *)
(***************************************************************************)
ModuleInit ==
  /\ pc = "unloaded" /\ ~registered
  /\ registered' = TRUE
  /\ UNCHANGED <<pc, obj, wq, args, num_carrier, num_entropy, suspended, req,
                 loads, lost, exits, fault>>

ModuleExit ==
  /\ pc = "unloaded" /\ registered /\ loads = MaxLoads
  /\ registered' = FALSE
  /\ UNCHANGED <<pc, obj, wq, args, num_carrier, num_entropy, suspended, req,
                 loads, lost, exits, fault>>
-----------------------------------------------------------------------------
(***************************************************************************)
(* The constructor.                                                        *)
(***************************************************************************)
\* A table with nine arguments is loaded; any other count is refused at once.
Load(c, e) ==
  /\ pc = "unloaded" /\ registered /\ loads < MaxLoads
  /\ \A r \in Requests : req[r].base # "pending"
  /\ loads' = loads + 1
  /\ args' = [carrier |-> c, entropy |-> e]
  /\ pc' = "headers"
  /\ obj' = [o \in Objects |-> "none"]
  /\ wq' = "garbage"
  /\ UNCHANGED <<num_carrier, num_entropy, suspended, req, registered, lost, exits, fault>>

\* Four kmallocs, checked together: the early return keeps what succeeded.
AllocHeaders(ok) ==
  /\ pc = "headers"
  /\ IF ok = Headers
       THEN /\ pc' = "page_pool"
            /\ obj' = [o \in Objects |-> IF o \in Headers THEN "held" ELSE "none"]
            /\ UNCHANGED <<lost, exits>>
       ELSE /\ pc' = "unloaded"
            /\ lost' = lost \cup ok
            /\ exits' = exits \cup {"headers"}
            /\ UNCHANGED obj
  /\ unchangedCtr

AfterStep(s) == CASE s = "page_pool" -> "bs"
                  [] s = "bs" -> "matryoshka_wq"
                  [] s = "passphrase" -> "ratio"
                  [] s = "carrier_dev" -> "entropy_dev"
                  [] s = "entropy_dev" -> "sectors"

\* One object acquired, or goto bad.
Acquire(s) ==
  /\ pc = s
  /\ s \in {"page_pool", "bs", "passphrase", "carrier_dev", "entropy_dev"}
  /\ \/ /\ pc' = AfterStep(s)
        /\ obj' = [obj EXCEPT ![s] = "held"]
        /\ UNCHANGED exits
     \/ /\ pc' = "bad"
        /\ exits' = exits \cup {s}
        /\ UNCHANGED obj
  /\ UNCHANGED lost /\ unchangedCtr

\* alloc_workqueue: the context's field is assigned either way.
AllocWorkqueue ==
  /\ pc = "matryoshka_wq"
  /\ \/ /\ pc' = "passphrase"
        /\ obj' = [obj EXCEPT !["matryoshka_wq"] = "held"]
        /\ wq' = "set"
        /\ UNCHANGED exits
     \/ /\ pc' = "bad"
        /\ wq' = "null"
        /\ exits' = exits \cup {"matryoshka_wq"}
        /\ UNCHANGED obj
  /\ UNCHANGED <<args, num_carrier, num_entropy, suspended, req, registered,
                 loads, lost, fault>>

\* Both arguments are parsed, truncated to eight bits and then compared.
ParseRatio ==
  /\ pc = "ratio"
  /\ LET m == U8(args.carrier)
         k == U8(args.entropy)
         parsed == args.carrier >= 0 /\ args.entropy >= 0
     IN  IF parsed /\ checkRatio(m, k)
           THEN /\ num_carrier' = m /\ num_entropy' = k
                /\ pc' = "carrier_dev"
                /\ UNCHANGED exits
           ELSE /\ pc' = "bad"
                /\ exits' = exits \cup {"ratio"}
                /\ UNCHANGED <<num_carrier, num_entropy>>
  /\ UNCHANGED <<obj, wq, args, suspended, req, registered, loads, lost, fault>>

\* Three sector arguments; then the file system: only FAT is served, and
\* fat_get_header may fail.
ParseRest ==
  /\ pc \in {"sectors", "carrier_fs"}
  /\ \/ /\ pc' = IF pc = "sectors" THEN "carrier_fs" ELSE "metadata"
        /\ UNCHANGED exits
     \/ /\ pc' = "bad"
        /\ exits' = exits \cup {pc}
  /\ UNCHANGED <<obj, lost>> /\ unchangedCtr

\* matryoshka_metadata_init: with one carrier block it always fails
\* (Metadata!OneCarrierNeverLoads).
Loads(m) == m # 1

\* entropy_bios and carrier_bios lie one behind the other in struct metadata_io
\* and in struct matryoshka_io, and no index is checked: entropy bios spill
\* into carrier_bios.  A slot of two bios is released twice; behind both arrays
\* lies a field that is assigned next and then released as a bio.
EntropySlots == {i \in 0 .. 254 : i < num_entropy}
CarrierSlots == {Room + i : i \in {j \in 0 .. 254 : j < num_carrier}}

SlotsFit ==
  /\ EntropySlots \cap CarrierSlots = {}
  /\ \A i \in EntropySlots \cup CarrierSlots : i < 2 * Room

InitMetadata ==
  /\ pc = "metadata" /\ SlotsFit
  /\ \/ /\ Loads(num_carrier)
        /\ pc' = "live"
        /\ UNCHANGED exits
     \/ /\ pc' = "bad"
        /\ exits' = exits \cup {"metadata"}
  /\ UNCHANGED <<obj, lost>> /\ unchangedCtr

OverrunMetadata ==
  /\ pc = "metadata" /\ ~SlotsFit
  /\ fault' = "overrun"
  /\ UNCHANGED <<pc, obj, wq, args, num_carrier, num_entropy, suspended, req,
                 registered, loads, lost, exits>>

\* What a path releases; an object that is not held must not be in it.
Freed(S) == [o \in Objects |-> IF o \in S THEN "freed" ELSE obj[o]]

\* Label bad.  Afterwards device-mapper puts the devices the failed
\* constructor left in its list (dm_table_destroy), and the rest is lost.
BadReleases == Headers \cup {"matryoshka_wq"}

Bad ==
  /\ pc = "bad" /\ wq = "set"
  /\ obj' = Freed(BadReleases \cup (Devices \cap held))
  /\ lost' = lost \cup (held \ (BadReleases \cup Devices))
  /\ fault' = IF BadReleases \subseteq held THEN "none" ELSE "double"
  /\ pc' = "unloaded"
  /\ UNCHANGED <<wq, args, num_carrier, num_entropy, suspended, req, registered,
                 loads, exits>>

\* destroy_workqueue on a pointer never assigned, or on NULL
BadFault ==
  /\ pc = "bad" /\ wq # "set"
  /\ fault' = IF wq = "null" THEN "oops" ELSE "wild"
  /\ UNCHANGED <<pc, obj, wq, args, num_carrier, num_entropy, suspended, req,
                 registered, loads, lost, exits>>
-----------------------------------------------------------------------------
(***************************************************************************)
(* Requests of a live target (WRITEs), as far as they use the context: a   *)
(* handler counts itself in without it and compares with the numbers in it *)
(* afterwards.  What happens to the memory of a request is left out.       *)
(***************************************************************************)
unchangedTable == UNCHANGED <<pc, obj, wq, args, num_carrier, num_entropy,
                              suspended, registered, loads, lost, exits>>

Set(r, v) == req' = [req EXCEPT ![r] = v]

\* Whoever touches the context of a target that was released is a use after free.
InContext(r, v) ==
  IF obj["context"] = "held" /\ req[r].load = loads
    THEN Set(r, v) /\ UNCHANGED fault
    ELSE fault' = "uaf" /\ UNCHANGED req

Map(r) ==
  /\ pc = "live" /\ ~suspended
  /\ req[r].work \in {"none", "done"} /\ req[r].base # "pending"
  /\ \A f \in {"reads", "counted", "loops", "writes", "stored"} : req[r][f] = 0
  /\ Set(r, [NoRequest EXCEPT !.base = "pending", !.work = "queued", !.load = loads])
  /\ UNCHANGED fault /\ unchangedTable

WorkerStart(r) ==
  /\ req[r].work = "queued"
  /\ InContext(r, [req[r] EXCEPT !.work = "running", !.reads = num_entropy])
  /\ unchangedTable

\* The last look at mc->num_entropy comes after the last submission.
WorkerEnd(r) ==
  /\ req[r].work = "running"
  /\ InContext(r, [req[r] EXCEPT !.work = "done"])
  /\ unchangedTable

CountEntropy(r) ==
  /\ req[r].reads > 0
  /\ Set(r, [req[r] EXCEPT !.reads = @ - 1, !.counted = @ + 1])
  /\ UNCHANGED fault /\ unchangedTable

\* The cleanup and bio_endio: device-mapper gets one answer.
Ended(r, how) == IF req[r].base = "pending" THEN how ELSE req[r].base

\* A handler that finds an error answers at once, whatever else is in flight.
EntropyFails(r) ==
  /\ req[r].counted > 0
  /\ InContext(r, [req[r] EXCEPT !.counted = @ - 1, !.base = Ended(r, "failed")])
  /\ unchangedTable

\* Every handler that finds all of them counted in goes on with the loop over
\* the carrier blocks: often one, sometimes two.
CompareEntropy(r) ==
  /\ req[r].counted > 0
  /\ InContext(r, IF req[r].reads = 0
                    THEN [req[r] EXCEPT !.counted = @ - 1, !.stages = @ + 1, !.loops = @ + 1,
                                        !.toSubmit = @ + num_carrier]
                    ELSE [req[r] EXCEPT !.counted = @ - 1])
  /\ unchangedTable

\* One carrier block submitted, or given up with an answer: the loop goes on.
SubmitCarrier(r) ==
  /\ req[r].loops > 0 /\ req[r].toSubmit > 0
  /\ \/ InContext(r, [req[r] EXCEPT !.toSubmit = @ - 1, !.writes = @ + 1])
     \/ InContext(r, [req[r] EXCEPT !.toSubmit = @ - 1, !.base = Ended(r, "failed")])
  /\ unchangedTable

\* The last test of i < mc->num_carrier, by a loop that has nothing left
EndLoop(r) ==
  /\ req[r].loops > 0 /\ req[r].toSubmit <= (req[r].loops - 1) * num_carrier
  /\ InContext(r, [req[r] EXCEPT !.loops = @ - 1])
  /\ unchangedTable

CountCarrier(r) ==
  /\ req[r].writes > 0
  /\ Set(r, [req[r] EXCEPT !.writes = @ - 1, !.stored = @ + 1, !.carrier_done = @ + 1])
  /\ UNCHANGED fault /\ unchangedTable

\* Mutant: one count more than there are carrier blocks.
AllWrittenOff(r) == req[r].carrier_done = num_carrier + 1
AllWritten(r)    == req[r].carrier_done = num_carrier

CompareCarrier(r) ==
  /\ req[r].stored > 0
  /\ InContext(r, [req[r] EXCEPT !.stored = @ - 1,
                                  !.base = IF AllWritten(r) THEN Ended(r, "answered") ELSE @])
  /\ unchangedTable
-----------------------------------------------------------------------------
(***************************************************************************)
(* Removal: device-mapper suspends the table, waits until every bio it     *)
(* gave to the target is answered, and calls the destructor.               *)
(***************************************************************************)
Suspend ==
  /\ pc = "live" /\ ~suspended
  /\ suspended' = TRUE
  /\ UNCHANGED <<pc, obj, wq, args, num_carrier, num_entropy, req, registered,
                 loads, lost, exits, fault>>

Destroy ==
  /\ pc = "live" /\ suspended
  /\ \A r \in Requests : req[r].base # "pending"
  /\ pc' = "flush"
  /\ UNCHANGED <<obj, wq, args, num_carrier, num_entropy, suspended, req,
                 registered, loads, lost, exits, fault>>

\* Mutant: nothing is waited for.
FlushedNot == TRUE

\* flush_workqueue: everything queued has run to its end
Flushed == \A r \in Requests : req[r].work \in {"none", "done"}

Flush ==
  /\ pc = "flush" /\ Flushed
  /\ pc' = "release"
  /\ UNCHANGED <<obj, wq, args, num_carrier, num_entropy, suspended, req,
                 registered, loads, lost, exits, fault>>

\* Mutant: the bioset is forgotten.
DtrReleasesFewer == Objects \ {"passphrase", "bs"}
DtrReleases == Objects \ {"passphrase"}

Release ==
  /\ pc = "release"
  /\ obj' = Freed(DtrReleases)
  /\ lost' = lost \cup (held \ DtrReleases)
  /\ fault' = IF DtrReleases \subseteq held THEN "none" ELSE "double"
  /\ exits' = exits \cup {"unload"}
  /\ pc' = "unloaded"
  /\ suspended' = FALSE
  /\ UNCHANGED <<wq, args, num_carrier, num_entropy, req, registered, loads>>
-----------------------------------------------------------------------------
Constructor ==
  \/ \E ok \in SUBSET Headers : AllocHeaders(ok)
  \/ \E s \in CtrSteps : Acquire(s)
  \/ AllocWorkqueue
  \/ ParseRatio
  \/ ParseRest
  \/ InitMetadata
  \/ OverrunMetadata
  \/ Bad
  \/ BadFault

Serve(r) == \/ WorkerStart(r)
            \/ WorkerEnd(r)
            \/ CountEntropy(r)
            \/ EntropyFails(r)
            \/ CompareEntropy(r)
            \/ SubmitCarrier(r)
            \/ EndLoop(r)
            \/ CountCarrier(r)
            \/ CompareCarrier(r)

Removal == Destroy \/ Flush \/ Release

Next ==
  /\ fault = "none"
  /\ \/ ModuleInit
     \/ ModuleExit
     \/ \E c, e \in ArgValues : Load(c, e)
     \/ Constructor
     \/ \E r \in Requests : Map(r)
     \/ \E r \in Requests : Serve(r)
     \/ Suspend
     \/ Removal

\* The constructor and the destructor run to their ends; the workqueue runs
\* what is queued, devices complete what they accepted and handlers run.
Fairness ==
  /\ WF_vars(fault = "none" /\ Constructor)
  /\ WF_vars(fault = "none" /\ Removal)
  /\ \A r \in Requests : WF_vars(fault = "none" /\ Serve(r))

Spec == Init /\ [][Next]_vars /\ Fairness
-----------------------------------------------------------------------------
(***************************************************************************)
(* Properties.                                                             *)
(***************************************************************************)
\* A target device-mapper may send bios to owns everything its I/O path uses.
\* Its ratio is in order, with one carrier block it never gets that far, and
\* although nothing bounds the ratio, only without carrier blocks does it get
\* there with more entropy bios than entropy_bios holds, as many as both arrays
\* hold at most (target.c:91-104, integrity.c:30-58).
LiveIsComplete ==
  pc = "live" =>
    /\ held = Objects
    /\ num_carrier < num_entropy + 1
    /\ num_carrier # 1
    /\ num_entropy > Room => num_carrier = 0 /\ num_entropy <= 2 * Room

\* What is lost, and when: the passphrase by a target that was unloaded or got
\* that far; the page pool and the bioset only by a constructor that failed
\* after it had a workqueue; the four headers only when memory ran out at their
\* allocation; devices and the workqueue never (target.c:44, 208, 235).
FailedAfter(S) == exits \cap (CtrSteps \ ({"headers"} \cup S)) # {}

LossesExplained ==
  /\ TypeOK
  /\ lost \cap (Devices \cup {"matryoshka_wq"}) = {}
  /\ lost \cap Headers # {} => "headers" \in exits
  /\ lost \cap {"page_pool", "bs"} # {}
       => FailedAfter({"page_pool", "bs", "matryoshka_wq"})
  /\ "passphrase" \in lost
       => \/ "unload" \in exits
          \/ FailedAfter({"page_pool", "bs", "matryoshka_wq", "passphrase"})
  /\ fault # "double"

\* Nobody uses the context after it was freed but a handler overtaken by an
\* answer: device-mapper has the answer of its request while it stands between
\* its count-in and its comparison, or in the loop.  If the request did not
\* fail, and only one handler ran the loop, then its bios are all through and
\* only tests of the numbers in the context remain (workqueue.c:117, 145, 189,
\* target.c:218-239).
Overtaken(r) ==
  /\ req[r].base \in {"answered", "failed"}
  /\ req[r].counted > 0 \/ req[r].loops > 0 \/ req[r].stored > 0
  /\ \/ req[r].base = "failed" \/ req[r].stages > 1
     \/ req[r].reads = 0 /\ req[r].toSubmit = 0 /\ req[r].writes = 0

ContextOutlivesUsers == fault = "uaf" => \E r \in Requests : Overtaken(r)

\* A target being removed is released in the end, if it has carrier blocks and
\* no request was served by two loops.  Without carrier blocks nobody answers a
\* WRITE and the removal waits for ever (utility.c:43 accepts that ratio); two
\* loops may count to twice the number before anybody compares.
UnloadEnds ==
  suspended /\ num_carrier > 0
    ~> pc = "unloaded" \/ fault # "none" \/ \E r \in Requests : req[r].stages > 1
=============================================================================
