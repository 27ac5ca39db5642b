---------------------------- MODULE GaloisTables ----------------------------
(***************************************************************************)
(* The tables of src/lib/jerasure/galois.c are built by whoever multiplies *)
(* first.  They are static, shared by all targets, and no lock guards      *)
(* them: constructors of two targets, or completion handlers, may build    *)
(* and use them at the same time.  A caller multiplies with w = 32, as the *)
(* driver does: it needs the split tables, whose creation first makes the  *)
(* logarithm and multiplication tables for w = 8.                          *)
(*                                                                         *)
(* A step has one access to a shared pointer or table, or a test of one    *)
(* that is repeated at once; an allocation may sleep, so that it is apart  *)
(* from the test before it.  Filling a logarithm table is cut in two       *)
(* halves, each of which finds the entries it is about to write used or    *)
(* unused.  Filling the multiplication tables is one step: after a race    *)
(* nothing depends on what they hold.  What a caller stores in a pointer   *)
(* and tests then is the value it stored.  Every access goes through the   *)
(* static pointer, so that a table is what its pointer leads to: memory    *)
(* that another caller's allocation has replaced there is lost, and who    *)
(* still fills it does so for nothing.                                     *)
(***************************************************************************)
EXTENDS Integers, FiniteSets

CONSTANTS
  Callers,
  NSplit,       \* number of split tables, 7 in the code
  Environments  \* out of "overlap", where callers overlap and memory suffices, and
                \* "failing", where they come one after the other and kmalloc may fail

ASSUME GaloisTablesAssumption ==
  /\ NSplit \in Nat \ {0}
  /\ IsFiniteSet(Callers) /\ Callers # {}
  /\ Environments \subseteq {"overlap", "failing"}

Split == 1..NSplit            \* galois_split_w8[0] is Split table 1
Log == -1                     \* galois_log_tables[8] and so on
Ilog == -2
Mult == -3
Div == -4
Tables == {Log, Ilog, Mult, Div} \cup Split

VARIABLES
  table,        \* per table: what its static pointer leads to
  off,          \* how often galois_ilog_tables[8] was advanced since it was set
  pc, n,        \* per caller: position, and index of the split table
  out,          \* per caller: what its multiplication came to
  nomem,        \* tables whose allocation failed at some time
  overlap,      \* per caller: another one was creating tables during its call
  fault,
  environment   \* which of the Environments a behaviour is in

vars == <<table, off, pc, n, out, nomem, overlap, fault, environment>>

GivingUp == {"freemult", "freediv", "nullmult", "nulldiv"}
InMult == {"mult", "multalloc", "div", "logs", "log", "ilog", "reset", "lower", "upper", "move",
           "fill"} \cup GivingUp
Creating == InMult \cup {"alloc", "split"}
Position == {"idle", "check", "use", "returned"} \cup Creating
Memory == {"null", "raw", "reset", "lower", "upper", "right", "wrong", "freed"}

TypeOK ==
  /\ table \in [Tables -> Memory]
  /\ off \in 0..Cardinality(Callers)
  /\ pc \in [Callers -> Position]
  /\ n \in [Callers -> Split]
  /\ out \in [Callers -> {"none", "right", "wrong", "freed", "silent", "oops"}]
  /\ nomem \subseteq Tables
  /\ overlap \in [Callers -> BOOLEAN]
  /\ fault \in BOOLEAN
  /\ environment \in Environments

Init ==
  /\ table = [t \in Tables |-> "null"]
  /\ off = 0
  /\ pc = [c \in Callers |-> "idle"]
  /\ n = [c \in Callers |-> 1]
  /\ out = [c \in Callers |-> "none"]
  /\ nomem = {}
  /\ overlap = [c \in Callers |-> FALSE]
  /\ fault = FALSE
  /\ environment \in Environments

Serial == environment = "failing"
MayFail == environment = "failing"

At(c, p) == pc[c] = p /\ ~fault
Go(c, p) == pc' = [pc EXCEPT ![c] = p]

Result(c, r) == out' = [out EXCEPT ![c] = r]

\* A write through NULL or to freed memory, or memory freed twice
Oops(c) == /\ fault' = TRUE /\ Result(c, "oops") /\ Go(c, "returned")
           /\ UNCHANGED <<table, off, n, nomem>>

\* talloc into the static pointer, and what follows when it fails
Alloc(t) == table' = [table EXCEPT ![t] = "raw"]
NoMemory(t) == MayFail /\ nomem' = nomem \cup {t}

\* The tables of S are freed, and the pointers of R are NULL then.
Undo(S, R) == table' = [t \in Tables |-> IF t \in R THEN "null"
                                        ELSE IF t \in S /\ table[t] # "null" THEN "freed"
                                        ELSE table[t]]
-----------------------------------------------------------------------------
Call(c) ==
  /\ pc[c] \in {"idle", "returned"} /\ ~fault
  /\ Serial => \A d \in Callers : pc[d] \in {"idle", "returned"}
  /\ Go(c, "check")
  /\ Result(c, "none")
  /\ n' = [n EXCEPT ![c] = 1]
  /\ UNCHANGED <<table, off, nomem, fault>>

\* if (galois_split_w8[0] == NULL), asked by galois_w32_region_multiply or
\* galois_single_multiply and again by galois_create_split_w8_tables
Created == table[1] # "null"

Check(c) ==
  /\ At(c, "check")
  /\ Go(c, IF Created THEN "use" ELSE "mult")
  /\ UNCHANGED <<table, off, n, out, nomem, fault>>

\* Creation failed: the region multiplication returns without a word.
Silent(c) == Go(c, "returned") /\ Result(c, "silent")

(***************************************************************************)
(* galois_create_mult_tables(8)                                            *)
(***************************************************************************)
NeedMult(c) ==
  /\ At(c, "mult")
  /\ Go(c, IF table[Mult] = "null" THEN "multalloc" ELSE "alloc")
  /\ UNCHANGED <<table, off, n, out, nomem, fault>>

MultAlloc(c) ==
  /\ At(c, "multalloc")
  /\ \/ /\ Alloc(Mult) /\ Go(c, "div")
        /\ UNCHANGED <<out, nomem>>
     \/ NoMemory(Mult) /\ Silent(c) /\ Undo({}, {Mult})
  /\ UNCHANGED <<off, n, fault>>

\* Mutant: the pointer of the multiplication table is not reset.
UndoDivNone == {Div}
UndoDiv == {Div, Mult}

DivAlloc(c) ==
  /\ At(c, "div")
  /\ \/ /\ Alloc(Div) /\ Go(c, "logs")
        /\ UNCHANGED <<out, nomem>>
     \/ NoMemory(Div) /\ Silent(c) /\ Undo({Mult}, UndoDiv)
  /\ UNCHANGED <<off, n, fault>>

\* if (galois_log_tables[8] == NULL), asked twice as well
NeedLogs(c) ==
  /\ At(c, "logs")
  /\ Go(c, IF table[Log] = "null" THEN "log" ELSE "fill")
  /\ UNCHANGED <<table, off, n, out, nomem, fault>>

\* The logarithm tables could not be made: both other tables are given up, whoever
\* allocated them.
GiveUp(c) == Go(c, "freemult") /\ UNCHANGED out

GiveUpFree(c, t, from, next) ==
  /\ At(c, from)
  /\ IF table[t] = "freed"
       THEN Oops(c)
       ELSE /\ Undo({t}, {}) /\ Go(c, next)
            /\ UNCHANGED <<off, n, out, nomem, fault>>

GiveUpReset(c, t, from) ==
  /\ At(c, from)
  /\ Undo({}, {t})
  /\ IF t = Mult THEN Go(c, "nulldiv") /\ UNCHANGED out ELSE Silent(c)
  /\ UNCHANGED <<off, n, nomem, fault>>

(***************************************************************************)
(* galois_create_log_tables(8)                                             *)
(***************************************************************************)
LogAlloc(c) ==
  /\ At(c, "log")
  /\ \/ /\ Alloc(Log) /\ Go(c, "ilog")
        /\ UNCHANGED <<out, nomem>>
     \/ NoMemory(Log) /\ GiveUp(c) /\ Undo({}, {Log})
  /\ UNCHANGED <<off, n, fault>>

IlogAlloc(c) ==
  /\ At(c, "ilog")
  /\ \/ /\ Alloc(Ilog) /\ Go(c, "reset")
        /\ off' = 0
        /\ UNCHANGED <<out, nomem>>
     \/ /\ NoMemory(Ilog) /\ GiveUp(c) /\ Undo({Log}, {Ilog, Log})
        /\ UNCHANGED off
  /\ UNCHANGED <<n, fault>>

NoLogs == \E t \in {Log, Ilog} : table[t] = "null"

\* All entries of both tables: unused
LogReset(c) ==
  /\ At(c, "reset")
  /\ IF NoLogs
       THEN Oops(c)
       ELSE /\ Go(c, "lower")
            /\ table' = [table EXCEPT ![Log] = "reset", ![Ilog] = "reset"]
            /\ UNCHANGED <<off, n, out, nomem, fault>>

\* A half is added to what the table holds; an entry found in use is an error.
Used(half, m) == m \in {half, "right"}
Added(half, m) == CASE m = "reset" -> half
                    [] m \in {"lower", "upper"} -> "right"
                    [] OTHER -> m

LogHalf(c, half, next) ==
  /\ At(c, half)
  /\ IF NoLogs
       THEN Oops(c)
       ELSE /\ \/ /\ ~Used(half, table[Log])
                  /\ Go(c, next)
                  /\ table' = [table EXCEPT
                       ![Log] = Added(half, @),
                       ![Ilog] = IF Used(half, @) THEN @ ELSE Added(half, @)]
                  /\ UNCHANGED out
               \/ /\ Used(half, table[Log]) \/ table[Log] = "raw"
                  /\ GiveUp(c)
                  /\ UNCHANGED table
            /\ UNCHANGED <<off, n, nomem, fault>>

\* galois_ilog_tables[w] += nwm1[w], without which negative indexes are outside
IlogMove(c) ==
  /\ At(c, "move")
  /\ off' = off + 1
  /\ Go(c, "fill")
  /\ UNCHANGED <<table, n, out, nomem, fault>>

\* The products are right if the logarithms are, at the right place.
LogsRight == table[Log] = "right" /\ table[Ilog] = "right" /\ off = 1

MultFill(c) ==
  /\ At(c, "fill")
  /\ IF \E t \in {Mult, Div, Log, Ilog} : table[t] \in {"null", "freed"}
       THEN Oops(c)
       ELSE /\ Go(c, "alloc")
            /\ LET v == IF LogsRight THEN "right" ELSE "wrong"
               IN  table' = [table EXCEPT ![Mult] = v, ![Div] = v]
            /\ UNCHANGED <<off, n, out, nomem, fault>>

(***************************************************************************)
(* The rest of galois_create_split_w8_tables: all tables are allocated,    *)
(* then filled, by galois_shift_multiply.  The pointers of tables that are *)
(* freed again keep their values.                                          *)
(***************************************************************************)
MoreTables(k) == k < NSplit

NextTable(c, again, next) ==
  IF MoreTables(n[c])
    THEN n' = [n EXCEPT ![c] = @ + 1] /\ Go(c, again)
    ELSE n' = [n EXCEPT ![c] = 1] /\ Go(c, next)

SplitAlloc(c) ==
  /\ At(c, "alloc")
  /\ \/ /\ Alloc(n[c])
        /\ NextTable(c, "alloc", "split")
        /\ UNCHANGED <<out, nomem>>
     \/ /\ NoMemory(n[c]) /\ Silent(c) /\ Undo(1..(n[c] - 1), {n[c]})
        /\ UNCHANGED n
  /\ UNCHANGED <<off, fault>>

\* Mutant: the first table is filled again and again.
FillFirst(c) == table' = [table EXCEPT ![1] = "right"]

\* The table is taken from the static pointer before it is filled: if the pointer is
\* set anew in between, the memory that is lost then is the one that is filled.
Fill(c) == table' = [table EXCEPT ![n[c]] = "right"]

SplitFill(c) ==
  /\ At(c, "split")
  /\ IF table[n[c]] = "null"
       THEN Oops(c)
       ELSE /\ Fill(c)
            /\ NextTable(c, "split", "use")
            /\ UNCHANGED <<off, out, nomem, fault>>

\* galois_split_w8_multiply, or the loop of the region multiplication: each
\* table is read through the static pointer.
Use(c) ==
  /\ At(c, "use")
  /\ IF table[n[c]] = "null"
       THEN Oops(c)
       ELSE /\ NextTable(c, "use", "returned")
            /\ CASE table[n[c]] = "right" ->
                      out' = [out EXCEPT ![c] = IF @ = "none" THEN "right" ELSE @]
                 [] table[n[c]] = "freed" -> Result(c, "freed")
                 [] OTHER -> Result(c, "wrong")
            /\ UNCHANGED <<table, off, nomem, fault>>

Multiply(c) ==
  \/ Check(c)
  \/ NeedMult(c)
  \/ MultAlloc(c)
  \/ DivAlloc(c)
  \/ NeedLogs(c)
  \/ LogAlloc(c)
  \/ IlogAlloc(c)
  \/ LogReset(c)
  \/ LogHalf(c, "lower", "upper")
  \/ LogHalf(c, "upper", "move")
  \/ IlogMove(c)
  \/ GiveUpFree(c, Mult, "freemult", "freediv")
  \/ GiveUpFree(c, Div, "freediv", "nullmult")
  \/ GiveUpReset(c, Mult, "nullmult")
  \/ GiveUpReset(c, Div, "nulldiv")
  \/ MultFill(c)
  \/ SplitAlloc(c)
  \/ SplitFill(c)
  \/ Use(c)

\* A call overlaps a creation if somebody else is in one during it.
Overlapping ==
  overlap' = [c \in Callers |->
    /\ pc'[c] # "idle"
    /\ \/ overlap[c] /\ pc'[c] # "check"
       \/ pc'[c] # "returned" /\ \E d \in Callers \ {c} : pc'[d] \in Creating
       \/ pc[c] # "returned" /\ overlap[c]]

Next == /\ \E c \in Callers : Call(c) \/ Multiply(c)
        /\ Overlapping
        /\ UNCHANGED environment

Spec == Init /\ [][Next]_vars
-----------------------------------------------------------------------------
(***************************************************************************)
(* Properties.                                                             *)
(***************************************************************************)
Quiet == \A c \in Callers : pc[c] \notin Creating

\* However many callers create the split tables at once, when the last one is
\* through the tables are complete, since whoever set a pointer last also fills what
\* it points to; and a multiplication during which nobody else creates tables is
\* right, whatever races there were before it: all of its callers may have found the
\* multiplication table missing and made one (galois.c:239-240), and given it up again
\* under each other when they met in the logarithms.  Only callers in such a race can
\* follow NULL, write to freed memory or free it twice.  Both unless memory ran out at
\* some time (galois.c:705, 776-803).
TablesComeRight ==
  /\ TypeOK
  /\ Quiet /\ nomem = {} /\ Created => \A t \in Split : table[t] = "right"
  /\ \A c \in Callers : pc[c] = "returned" /\ ~overlap[c] /\ nomem = {} => out[c] = "right"

\* With callers one after the other, a failed creation leaves no half-made
\* logarithm or multiplication table behind: the pointers are NULL again or
\* lead to complete tables, the exponentials moved once.  Only a split table that
\* could not be allocated ever leads to a product that is computed from freed
\* memory, or from any other memory that is not the table (galois.c:167-257,
\* 782-786).
FailuresContained ==
  Serial =>
    /\ Quiet /\ table[Mult] # "null" => table[Mult] = "right" /\ table[Div] = "right"
    /\ Quiet /\ table[Log] # "null" => LogsRight
    /\ \A c \in Callers : out[c] \in {"wrong", "freed", "oops"} => nomem \cap (Split \ {1}) # {}
=============================================================================
