----------------------------- MODULE MCUpdates ------------------------------
(***************************************************************************)
(* What the metadata of a target does to its requests, in two parts, one   *)
(* of them per behaviour: the calls on the list of blocks (Metadata), and  *)
(* the pages that WRITEs and their metadata updates take from one pool     *)
(* (PagePool, with two WRITEs).  The parts share no state, so that the     *)
(* variables of the other one keep their initial values.                   *)
(***************************************************************************)
EXTENDS MCMetadata

CONSTANTS Writes, Cpus, nobody, nowhere

VARIABLES
  running,                                                         \* the part
  stage, cpu, bios, meta, block, part, holder, free, poolSize      \* of PagePool

Pool == INSTANCE PagePool WITH
  Requests <- Writes, K <- 2, M <- 2, BioPages <- 2, PoolSizes <- {18, 26, 33, 34},
  i <- block

poolVars == <<stage, cpu, bios, meta, block, part, holder, free, poolSize>>

UpdatesInit ==
  /\ running \in {"calls", "pool"}
  /\ Init /\ Pool!PoolInit
  /\ running = "pool" => /\ <<num_entropy, num_carrier>> = <<2, 2>>
                         /\ page = CHOOSE b \in Memory : TRUE
  /\ running = "calls" => poolSize = 18

UpdatesNext ==
  /\ UNCHANGED running
  /\ \/ running = "calls" /\ Next /\ UNCHANGED poolVars
     \/ running = "pool" /\ Pool!PoolNext /\ UNCHANGED vars

\* The part that stands still has nothing it is obliged to do.
UpdatesSpec ==
  /\ UpdatesInit
  /\ [][UpdatesNext]_<<running, vars, poolVars>>
  /\ WF_vars(Step) /\ Pool!PoolFairness

(* With enough pages every WRITE that is queued is answered (utility.c:135). *)
WritesAnswered == Pool!WritesAnswered
=============================================================================
