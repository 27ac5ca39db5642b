--------------------------- MODULE BlockRequest ---------------------------
(***************************************************************************)
(* What device-mapper is promised for one bio handed to the target's map   *)
(* method: it is answered exactly once, and a WRITE is answered with       *)
(* success only after the data is on stable storage.  The abstract         *)
(* specification MatryoshkaIO is shown to implement.                       *)
(*                                                                         *)
(* Two weaknesses of the driver are part of the contract, so that it can   *)
(* be met at all: a READ may crash the machine (see MatryoshkaIO!SubmitWild)*)
(* and is never answered with success, and running out of memory in map    *)
(* may crash it too.                                                       *)
(***************************************************************************)

VARIABLES
  phase,   \* where the request stands
  kind,    \* "READ" or "WRITE" once it is accepted
  stored,  \* all the blocks of a WRITE are on stable storage
  answer   \* what bio_endio (or map itself) told the submitter

vars == <<phase, kind, stored, answer>>

Kinds == {"READ", "WRITE"}

Init ==
  /\ phase = "idle" /\ kind = "none" /\ stored = FALSE /\ answer = "none"

Accept(k) ==
  /\ phase = "idle"
  /\ phase' = "pending" /\ kind' = k
  /\ UNCHANGED <<stored, answer>>

(* map returns an error: the core fails the bio *)
Refuse(k) ==
  /\ phase = "idle"
  /\ phase' = "answered" /\ kind' = k /\ answer' = "error"
  /\ UNCHANGED stored

Store ==
  /\ phase = "pending" /\ kind = "WRITE" /\ ~stored
  /\ stored' = TRUE
  /\ UNCHANGED <<phase, kind, answer>>

Succeed ==
  /\ phase = "pending" /\ kind = "WRITE" /\ stored
  /\ phase' = "answered" /\ answer' = "ok"
  /\ UNCHANGED <<kind, stored>>

Fail ==
  /\ phase = "pending"
  /\ phase' = "answered" /\ answer' = "error"
  /\ UNCHANGED <<kind, stored>>

(* the kernel dies in map, or while it serves a READ *)
CrashInMap(k) ==
  /\ phase = "idle"
  /\ phase' = "crashed" /\ kind' = k
  /\ UNCHANGED <<stored, answer>>

CrashInRead ==
  /\ phase = "pending" /\ kind = "READ"
  /\ phase' = "crashed"
  /\ UNCHANGED <<kind, stored, answer>>

Resolve == Succeed \/ Fail \/ CrashInRead

Next == Store \/ Resolve \/ \E k \in Kinds : Accept(k) \/ Refuse(k) \/ CrashInMap(k)

(* a pending request is resolved in the end *)
Spec == Init /\ [][Next]_vars /\ WF_vars(Resolve)
===========================================================================
