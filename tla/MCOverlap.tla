----------------------------- MODULE MCOverlap ------------------------------
(***************************************************************************)
(* What overlaps in the driver, in two parts, one of them per behaviour:   *)
(* requests that share a pool of pages (PagePool, whose requests and       *)
(* processors are interchangeable), and the handlers of one request        *)
(* (MatryoshkaIO), a READ with enough blocks for the marks of several      *)
(* handlers to leave a list that jerasure accepts.  The parts share no     *)
(* state, so that the variables of the other one keep their initial values. *)
(***************************************************************************)
EXTENDS MCMatryoshkaIO, PagePool, TLC

VARIABLE running    \* the part

Interchangeable == Permutations(Requests) \cup Permutations(Cpus)

OverlapInit ==
  /\ running \in {"pool", "read"}
  /\ Init /\ PoolInit
  /\ running = "read" => poolSize = CHOOSE n \in PoolSizes : TRUE

OverlapNext ==
  /\ UNCHANGED running
  /\ \/ running = "pool" /\ PoolNext /\ UNCHANGED vars
     \/ running = "read" /\ Next /\ UNCHANGED poolVars

OverlapSpec == OverlapInit /\ [][OverlapNext]_<<running, vars, poolVars>>

(* The READ is about its stage: it goes no further than the first decoding, *)
(* WRITEs stay where they start, and the entropy reads, which are alike,    *)
(* complete in order and after the worker is done.                          *)
Completed(e) == run[e] \notin {"idle", "inflight"}

ToFirstDecode ==
  /\ op # "WRITE"
  /\ \A d \in Bio : run[d] # "retry"
  /\ \A e \in Entropy : Completed(e) => sub = NumEntropy /\ \A f \in 1 .. e : Completed(f)
=============================================================================
