-------------------------- MODULE GaloisTablesProofs --------------------------
(***************************************************************************)
(* Theorems about GaloisTables, for any number of callers and of split     *)
(* tables: what racing creations leave behind, and what failed ones do.    *)
(***************************************************************************)
EXTENDS GaloisTables, FiniteSetTheorems, TLAPS

USE GaloisTablesAssumption

LEMMA TableNames ==
  /\ Log \in Tables /\ Ilog \in Tables /\ Mult \in Tables /\ Div \in Tables
  /\ Split \subseteq Tables /\ 1 \in Split /\ Tables \subseteq Int
  /\ Split \cap {Log, Ilog, Mult, Div} = {}
  /\ Log # Ilog /\ Log # Mult /\ Log # Div /\ Ilog # Mult /\ Ilog # Div /\ Mult # Div
BY DEF Tables, Split, Log, Ilog, Mult, Div

(***************************************************************************)
(* What each action does to the tables.  Those outside T are left alone.   *)
(***************************************************************************)
Contents == [Tables -> Memory]
Positions == [Callers -> Position]
Outcomes == [Callers -> {"none", "right", "wrong", "freed", "silent", "oops"}]

Typed ==
  /\ table \in Contents
  /\ off \in Nat
  /\ pc \in Positions
  /\ n \in [Callers -> Split]
  /\ out \in Outcomes
  /\ nomem \subseteq Tables
  /\ overlap \in [Callers -> BOOLEAN]
  /\ fault \in BOOLEAN
  /\ environment \in Environments

Frame(T) == \A x \in Tables \ T : table'[x] = table[x]

Undone(S, R) == \A x \in Tables : table'[x] = IF x \in R THEN "null"
                                              ELSE IF x \in S /\ table[x] # "null" THEN "freed"
                                              ELSE table[x]

(* A table that cannot be had: the creation ends, or gives others up.      *)
NotHad(t) == MayFail /\ nomem' = nomem \cup {t} /\ t \in Tables
Failed(c, t, S, R) ==
  NotHad(t) /\ Go(c, "returned") /\ Result(c, "silent") /\ Undone(S, R)
GivenUp(c, t, S, R) ==
  NotHad(t) /\ Go(c, "freemult") /\ UNCHANGED out /\ Undone(S, R)

Obtained(c, t) == UNCHANGED <<out, nomem>> /\ table'[t] = "raw" /\ Frame({t})

LEMMA Untouched == UNCHANGED table => Frame({})
BY DEF Frame

LEMMA AllocEffect ==
  ASSUME table \in Contents, NEW t \in Tables, Alloc(t)
  PROVE  table' \in Contents /\ table'[t] = "raw" /\ Frame({t})
BY DEF Alloc, Contents, Memory, Frame

LEMMA UndoEffect ==
  ASSUME table \in Contents, NEW S, NEW R, Undo(S, R)
  PROVE  table' \in Contents /\ Undone(S, R)
<1>1. \A x \in Tables : table'[x] \in Memory
  BY DEF Undo, Contents, Memory
<1>2. table' \in Contents
  BY <1>1 DEF Undo, Contents
<1> QED BY <1>2 DEF Undo, Undone

(* Two tables are written at once.                                         *)
LEMMA WriteEffect ==
  ASSUME table \in Contents, NEW t \in Tables, NEW u \in Tables, t # u,
         NEW v \in Memory, NEW w \in Memory, table' = [table EXCEPT ![t] = v, ![u] = w]
  PROVE  /\ table' \in Contents /\ Frame({t, u})
         /\ table'[t] = v /\ table'[u] = w
BY DEF Contents, Frame

LEMMA MultAllocEffect ==
  ASSUME Typed, NEW c \in Callers, MultAlloc(c)
  PROVE  /\ table' \in Contents
         /\ \/ Go(c, "div") /\ Obtained(c, Mult)
            \/ Failed(c, Mult, {}, {Mult})
BY TableNames, AllocEffect, UndoEffect DEF Typed, MultAlloc, Obtained, Failed, NotHad, NoMemory, Silent

LEMMA DivAllocEffect ==
  ASSUME Typed, NEW c \in Callers, DivAlloc(c)
  PROVE  /\ table' \in Contents
         /\ \/ Go(c, "logs") /\ Obtained(c, Div)
            \/ Failed(c, Div, {Mult}, {Div, Mult})
BY TableNames, AllocEffect, UndoEffect
   DEF Typed, DivAlloc, UndoDiv, Obtained, Failed, NotHad, NoMemory, Silent

LEMMA LogAllocEffect ==
  ASSUME Typed, NEW c \in Callers, LogAlloc(c)
  PROVE  /\ table' \in Contents
         /\ \/ Go(c, "ilog") /\ Obtained(c, Log)
            \/ GivenUp(c, Log, {}, {Log})
BY TableNames, AllocEffect, UndoEffect
   DEF Typed, LogAlloc, Obtained, GivenUp, NotHad, NoMemory, GiveUp

LEMMA IlogAllocEffect ==
  ASSUME Typed, NEW c \in Callers, IlogAlloc(c)
  PROVE  /\ table' \in Contents
         /\ \/ Go(c, "reset") /\ Obtained(c, Ilog) /\ off' = 0
            \/ GivenUp(c, Ilog, {Log}, {Ilog, Log}) /\ UNCHANGED off
BY TableNames, AllocEffect, UndoEffect
   DEF Typed, IlogAlloc, Obtained, GivenUp, NotHad, NoMemory, GiveUp

LEMMA SplitAllocEffect ==
  ASSUME Typed, NEW c \in Callers, SplitAlloc(c)
  PROVE  /\ table' \in Contents
         /\ \/ NextTable(c, "alloc", "split") /\ Obtained(c, n[c])
            \/ Failed(c, n[c], 1..(n[c] - 1), {n[c]}) /\ UNCHANGED n
<1>1. table \in Contents /\ n[c] \in Tables
  BY TableNames DEF Typed
<1>2. CASE Alloc(n[c]) /\ NextTable(c, "alloc", "split") /\ UNCHANGED <<out, nomem>>
  BY <1>1, <1>2, AllocEffect DEF Obtained
<1>3. CASE NoMemory(n[c]) /\ Silent(c) /\ Undo(1..(n[c] - 1), {n[c]}) /\ UNCHANGED n
  <2> DEFINE t == n[c]
             S == 1..(t - 1)
  <2>1. Undo(S, {t}) /\ NoMemory(t) /\ Silent(c) /\ t \in Tables
    BY <1>1, <1>3
  <2> HIDE DEF t, S
  <2>2. table' \in Contents /\ Failed(c, t, S, {t})
    BY <1>1, <2>1, UndoEffect DEF Failed, NotHad, NoMemory, Silent
  <2> QED BY <1>3, <2>2 DEF t, S
<1> QED BY <1>2, <1>3 DEF SplitAlloc

(* A NULL pointer was followed, or memory was freed twice.                 *)
Crash(c) ==
  /\ fault' = TRUE /\ Result(c, "oops") /\ Go(c, "returned")
  /\ UNCHANGED <<table, off, n, nomem>>

(* The other tables of a failed creation are freed, and their pointers     *)
(* reset.                                                                  *)
LEMMA GiveUpFreeEffect ==
  ASSUME Typed, NEW c \in Callers, NEW t \in Tables, NEW from, NEW next, GiveUpFree(c, t, from, next)
  PROVE  /\ table' \in Contents
         /\ \/ table[t] = "freed" /\ Crash(c)
            \/ /\ table[t] # "freed" /\ Undone({t}, {}) /\ Go(c, next)
               /\ UNCHANGED <<off, n, out, nomem, fault>>
BY UndoEffect DEF GiveUpFree, Oops, Crash, Typed

LEMMA GiveUpResetEffect ==
  ASSUME Typed, NEW c \in Callers, NEW t \in {Mult, Div}, NEW from, GiveUpReset(c, t, from)
  PROVE  /\ table' \in Contents /\ Undone({}, {t}) /\ UNCHANGED <<off, n, nomem, fault>>
         /\ \/ t = Mult /\ Go(c, "nulldiv") /\ UNCHANGED out
            \/ t = Div /\ Go(c, "returned") /\ Result(c, "silent")
BY TableNames, UndoEffect DEF GiveUpReset, Silent, Typed

LEMMA LogResetEffect ==
  ASSUME Typed, NEW c \in Callers, LogReset(c)
  PROVE  /\ table' \in Contents
         /\ \/ NoLogs /\ Crash(c)
            \/ /\ ~NoLogs /\ Go(c, "lower")
               /\ table'[Log] = "reset" /\ table'[Ilog] = "reset" /\ Frame({Log, Ilog})
               /\ UNCHANGED <<off, n, out, nomem, fault>>
<1>1. "reset" \in Memory
  BY DEF Memory
<1> QED BY <1>1, TableNames, WriteEffect DEF Typed, LogReset, Oops, Crash

LEMMA LogHalfEffect ==
  ASSUME Typed, NEW c \in Callers, NEW half \in {"lower", "upper"}, NEW next, LogHalf(c, half, next)
  PROVE  /\ table' \in Contents
         /\ \/ NoLogs /\ Crash(c)
            \/ /\ ~NoLogs /\ ~Used(half, table[Log]) /\ Go(c, next)
               /\ table'[Log] = Added(half, table[Log]) /\ Frame({Log, Ilog})
               /\ table'[Ilog] = IF Used(half, table[Ilog]) THEN table[Ilog]
                                 ELSE Added(half, table[Ilog])
               /\ UNCHANGED <<off, n, out, nomem, fault>>
            \/ /\ ~NoLogs /\ (Used(half, table[Log]) \/ table[Log] = "raw")
               /\ Go(c, "freemult") /\ UNCHANGED <<table, off, n, out, nomem, fault>>
<1> USE TableNames
<1>1. table \in Contents /\ \A m \in Memory : Added(half, m) \in Memory
  BY DEF Typed, Added, Memory
<1>2. CASE /\ ~NoLogs /\ ~Used(half, table[Log]) /\ Go(c, next)
           /\ table' = [table EXCEPT ![Log] = Added(half, @),
                                     ![Ilog] = IF Used(half, @) THEN @ ELSE Added(half, @)]
           /\ UNCHANGED <<off, n, out, nomem, fault>>
  <2> DEFINE v == Added(half, table[Log])
             w == IF Used(half, table[Ilog]) THEN table[Ilog] ELSE Added(half, table[Ilog])
  <2>1. table' = [table EXCEPT ![Log] = v, ![Ilog] = w]
    BY <1>1, <1>2 DEF Contents
  <2>2. v \in Memory /\ w \in Memory
    BY <1>1 DEF Contents
  <2>3. v = Added(half, table[Log])
        /\ w = IF Used(half, table[Ilog]) THEN table[Ilog] ELSE Added(half, table[Ilog])
    OBVIOUS
  <2> HIDE DEF v, w
  <2>4. Log \in Tables /\ Ilog \in Tables /\ Log # Ilog /\ table \in Contents
    BY <1>1
  <2>5. table' \in Contents /\ Frame({Log, Ilog}) /\ table'[Log] = v /\ table'[Ilog] = w
    BY <2>1, <2>2, <2>4, WriteEffect
  <2> QED BY <1>2, <2>3, <2>5
<1>3. CASE NoLogs
  BY <1>1, <1>3 DEF LogHalf, Oops, Crash
<1>4. CASE /\ ~NoLogs /\ (Used(half, table[Log]) \/ table[Log] = "raw")
           /\ Go(c, "freemult") /\ UNCHANGED <<table, off, n, out, nomem, fault>>
  BY <1>1, <1>4
<1> QED BY <1>2, <1>3, <1>4 DEF LogHalf, GiveUp

LEMMA MultFillEffect ==
  ASSUME Typed, NEW c \in Callers, MultFill(c)
  PROVE  /\ table' \in Contents
         /\ \/ /\ \E t \in {Mult, Div, Log, Ilog} : table[t] \in {"null", "freed"}
               /\ Crash(c)
            \/ /\ Go(c, "alloc")
               /\ \E v \in {"right", "wrong"} :
                    /\ table'[Mult] = v /\ table'[Div] = v
                    /\ LogsRight => v = "right"
               /\ Frame({Mult, Div})
               /\ UNCHANGED <<off, n, out, nomem, fault>>
<1> USE TableNames
<1>1. table \in Contents
  BY DEF Typed
<1>2. CASE \E t \in {Mult, Div, Log, Ilog} : table[t] \in {"null", "freed"}
  BY <1>1, <1>2 DEF MultFill, Oops, Crash
<1>3. CASE ~\E t \in {Mult, Div, Log, Ilog} : table[t] \in {"null", "freed"}
  <2> DEFINE v == IF LogsRight THEN "right" ELSE "wrong"
  <2>1. /\ Go(c, "alloc") /\ UNCHANGED <<off, n, out, nomem, fault>>
        /\ table' = [table EXCEPT ![Mult] = v, ![Div] = v]
    BY <1>3 DEF MultFill
  <2>2. v \in Memory /\ v \in {"right", "wrong"} /\ (LogsRight => v = "right")
    BY DEF Memory
  <2> HIDE DEF v
  <2> QED BY <1>1, <2>1, <2>2, WriteEffect
<1> QED BY <1>2, <1>3

LEMMA SplitFillEffect ==
  ASSUME Typed, NEW c \in Callers, SplitFill(c)
  PROVE  /\ table' \in Contents
         /\ \/ table[n[c]] = "null" /\ Crash(c)
            \/ /\ table[n[c]] # "null" /\ NextTable(c, "split", "use")
               /\ table'[n[c]] = "right" /\ Frame({n[c]})
               /\ UNCHANGED <<off, out, nomem, fault>>
<1>1. table \in Contents /\ n[c] \in Tables /\ "right" \in Memory
  BY TableNames DEF Typed, Memory
<1>2. CASE table[n[c]] = "null"
  BY <1>1, <1>2 DEF SplitFill, Oops, Crash
<1>3. CASE table[n[c]] # "null"
  <2> DEFINE t == n[c]
  <2>1. /\ NextTable(c, "split", "use") /\ UNCHANGED <<off, out, nomem, fault>>
        /\ table' = [table EXCEPT ![t] = "right"] /\ t \in Tables
    BY <1>1, <1>3 DEF SplitFill, Fill
  <2> HIDE DEF t
  <2>2. table' \in Contents /\ table'[t] = "right" /\ Frame({t})
    BY <1>1, <2>1 DEF Contents, Frame
  <2> QED BY <1>3, <2>1, <2>2 DEF t
<1> QED BY <1>2, <1>3
-----------------------------------------------------------------------------
(***************************************************************************)
(* Types.  galois_ilog_tables[8] is advanced once per caller at most: a    *)
(* caller that is about to has set the pointer anew.                       *)
(***************************************************************************)
Filling == {"reset", "lower", "upper", "move"}
Settled == {c \in Callers : pc[c] \notin Filling}
OffInv == off <= Cardinality(Settled)

LEMMA TypesInit == Init => Typed /\ OffInv
<1> SUFFICES ASSUME Init PROVE Typed /\ OffInv
  OBVIOUS
<1>1. Typed
  BY TableNames DEF Init, Typed, Contents, Memory, Positions, Position, Outcomes
<1>2. Cardinality(Settled) \in Nat
  BY FS_Subset, FS_CardinalityType DEF Settled
<1> QED BY <1>1, <1>2 DEF Init, OffInv

LEMMA MovesType ==
  ASSUME Typed, NEW c \in Callers, NEW p \in Position, Go(c, p)
  PROVE  pc' \in Positions
BY DEF Typed, Positions, Go

LEMMA NextTableType ==
  ASSUME Typed, NEW c \in Callers, NEW p \in Position, NEW q \in Position, NextTable(c, p, q)
  PROVE  pc' \in Positions /\ n' \in [Callers -> Split]
<1>1. n[c] \in Nat /\ n[c] >= 1 /\ n[c] <= NSplit
  BY DEF Typed, Split
<1>2. CASE MoreTables(n[c])
  <2>1. n[c] + 1 \in Split
    BY <1>1, <1>2 DEF MoreTables, Split
  <2> QED BY <1>2, <2>1, MovesType DEF NextTable, Typed
<1>3. CASE ~MoreTables(n[c])
  BY <1>3, MovesType, TableNames DEF NextTable, Typed
<1> QED BY <1>2, <1>3

LEMMA ResultType ==
  ASSUME Typed, NEW c \in Callers,
         NEW r \in {"none", "right", "wrong", "freed", "silent", "oops"}, Result(c, r)
  PROVE  out' \in Outcomes
BY DEF Typed, Outcomes, Result

LEMMA FailedType ==
  ASSUME Typed, NEW c \in Callers, NEW t, NEW S, NEW R, Failed(c, t, S, R)
  PROVE  pc' \in Positions /\ out' \in Outcomes /\ nomem' \subseteq Tables
<1>1. "returned" \in Position
  BY DEF Position
<1> QED BY <1>1, MovesType, ResultType DEF Failed, NotHad, Typed

LEMMA GivenUpType ==
  ASSUME Typed, NEW c \in Callers, NEW t, NEW S, NEW R, GivenUp(c, t, S, R)
  PROVE  pc' \in Positions /\ out' \in Outcomes /\ nomem' \subseteq Tables
<1>1. "freemult" \in Position
  BY DEF Position, Creating, InMult, GivingUp
<1> QED BY <1>1, MovesType DEF GivenUp, NotHad, Typed

LEMMA CrashType ==
  ASSUME Typed, NEW c \in Callers, Crash(c), UNCHANGED environment, Overlapping
  PROVE  Typed'
<1>1. "returned" \in Position
  BY DEF Position
<1>2. pc' \in Positions /\ out' \in Outcomes
  BY <1>1, MovesType, ResultType DEF Crash
<1> QED BY <1>2 DEF Crash, Typed, Overlapping

LEMMA TypesStep ==
  ASSUME Typed, NEW c \in Callers, Call(c) \/ Multiply(c), Overlapping, UNCHANGED environment
  PROVE  Typed'
<1> USE TableNames
<1>0. \A p \in Position : Go(c, p) => pc' \in Positions
  BY MovesType
<1>1. overlap' \in [Callers -> BOOLEAN]
  BY DEF Overlapping
<1>2. table \in Contents
  BY DEF Typed
<1>a. ASSUME table' \in Contents, off' \in Nat, UNCHANGED <<n, fault>>,
             pc' \in Positions, out' \in Outcomes, nomem' \subseteq Tables
      PROVE  Typed'
  BY <1>1, <1>a DEF Typed
<1>3. CASE Call(c)
  <2>1. pc' \in Positions /\ out' \in Outcomes /\ n' \in [Callers -> Split]
    BY <1>0, <1>3, ResultType DEF Call, Position, Typed
  <2> QED BY <1>1, <1>3, <2>1 DEF Call, Typed
<1>4. CASE Check(c) \/ NeedMult(c) \/ NeedLogs(c)
  <2>1. pc' \in Positions
    BY <1>0, <1>4 DEF Check, NeedMult, NeedLogs, Position, Creating, InMult
  <2> QED BY <1>1, <1>4, <2>1 DEF Check, NeedMult, NeedLogs, Typed
<1>5. CASE MultAlloc(c)
  <2>1. table' \in Contents /\ pc' \in Positions /\ out' \in Outcomes /\ nomem' \subseteq Tables
    BY <1>0, <1>5, MultAllocEffect, FailedType DEF Position, Creating, InMult, Obtained, Typed
  <2> QED BY <1>a, <1>5, <2>1 DEF MultAlloc, Typed
<1>6. CASE DivAlloc(c)
  <2>1. table' \in Contents /\ pc' \in Positions /\ out' \in Outcomes /\ nomem' \subseteq Tables
    BY <1>0, <1>6, DivAllocEffect, FailedType DEF Position, Creating, InMult, Obtained, Typed
  <2> QED BY <1>a, <1>6, <2>1 DEF DivAlloc, Typed
<1>7. CASE GiveUpFree(c, Mult, "freemult", "freediv") \/ GiveUpFree(c, Div, "freediv", "nullmult")
  <2>1. CASE Crash(c)
    BY <2>1, CrashType
  <2>2. CASE /\ table' \in Contents /\ (Go(c, "freediv") \/ Go(c, "nullmult"))
             /\ UNCHANGED <<off, n, out, nomem, fault>>
    <3>1. pc' \in Positions
      BY <1>0, <2>2 DEF Position, Creating, InMult, GivingUp
    <3> QED BY <1>a, <2>2, <3>1 DEF Typed
  <2> QED BY <1>7, <2>1, <2>2, GiveUpFreeEffect
<1>8. CASE LogAlloc(c)
  <2>1. table' \in Contents /\ pc' \in Positions /\ out' \in Outcomes /\ nomem' \subseteq Tables
    BY <1>0, <1>8, LogAllocEffect, GivenUpType DEF Position, Creating, InMult, Obtained, Typed
  <2> QED BY <1>a, <1>8, <2>1 DEF LogAlloc, Typed
<1>9. CASE IlogAlloc(c)
  <2> DEFINE S == {Log}
             R == {Ilog, Log}
  <2>2. \/ Go(c, "reset") /\ Obtained(c, Ilog) /\ off' = 0
        \/ GivenUp(c, Ilog, S, R) /\ UNCHANGED off
    BY <1>9, IlogAllocEffect
  <2> HIDE DEF S, R
  <2>3. table' \in Contents /\ off' \in Nat
    BY <1>9, <2>2, IlogAllocEffect DEF Typed
  <2>4. GivenUp(c, Ilog, S, R) => pc' \in Positions /\ out' \in Outcomes /\ nomem' \subseteq Tables
    BY GivenUpType
  <2>5. Go(c, "reset") /\ Obtained(c, Ilog) =>
          pc' \in Positions /\ out' \in Outcomes /\ nomem' \subseteq Tables
    BY <1>0 DEF Position, Creating, InMult, Obtained, Typed
  <2> QED BY <1>a, <1>9, <2>2, <2>3, <2>4, <2>5 DEF IlogAlloc
<1>10. CASE LogReset(c)
  <2>1. CASE Crash(c)
    BY <2>1, CrashType
  <2>2. CASE table' \in Contents /\ Go(c, "lower") /\ UNCHANGED <<off, n, out, nomem, fault>>
    <3>1. pc' \in Positions
      BY <1>0, <2>2 DEF Position, Creating, InMult
    <3> QED BY <1>a, <2>2, <3>1 DEF Typed
  <2> QED BY <1>10, <2>1, <2>2, LogResetEffect
<1>11. ASSUME NEW half \in {"lower", "upper"}, NEW next \in {"upper", "move"}, LogHalf(c, half, next)
       PROVE  Typed'
  <2>1. CASE Crash(c)
    BY <2>1, CrashType
  <2>2. CASE /\ table' \in Contents /\ (Go(c, next) \/ Go(c, "freemult"))
             /\ UNCHANGED <<off, n, out, nomem, fault>>
    <3>1. pc' \in Positions
      BY <1>0, <2>2 DEF Position, Creating, InMult, GivingUp
    <3> QED BY <1>a, <2>2, <3>1 DEF Typed
  <2> QED BY <1>11, <2>1, <2>2, LogHalfEffect
<1>12. CASE IlogMove(c)
  <2>1. pc' \in Positions /\ off' \in Nat
    BY <1>0, <1>12 DEF IlogMove, Position, Creating, InMult, Typed
  <2> QED BY <1>1, <1>12, <2>1 DEF IlogMove, Typed
<1>13. CASE MultFill(c)
  <2>1. CASE Crash(c)
    BY <2>1, CrashType
  <2>2. CASE table' \in Contents /\ Go(c, "alloc") /\ UNCHANGED <<off, n, out, nomem, fault>>
    <3>1. pc' \in Positions
      BY <1>0, <2>2 DEF Position, Creating, InMult
    <3> QED BY <1>a, <2>2, <3>1 DEF Typed
  <2> QED BY <1>13, <2>1, <2>2, MultFillEffect
<1>14. CASE SplitAlloc(c)
  <2>1. table' \in Contents /\ UNCHANGED <<off, fault>>
    BY <1>14, SplitAllocEffect DEF SplitAlloc
  <2>2. CASE NextTable(c, "alloc", "split") /\ Obtained(c, n[c])
    <3>1. pc' \in Positions /\ n' \in [Callers -> Split]
      BY <2>2, NextTableType DEF Position, Creating
    <3> QED BY <1>1, <2>1, <2>2, <3>1 DEF Typed, Obtained
  <2>3. CASE Failed(c, n[c], 1..(n[c] - 1), {n[c]}) /\ UNCHANGED n
    <3>1. pc' \in Positions /\ out' \in Outcomes /\ nomem' \subseteq Tables
      BY <2>3, FailedType
    <3> QED BY <1>1, <2>1, <2>3, <3>1 DEF Typed
  <2> QED BY <1>14, <2>2, <2>3, SplitAllocEffect
<1>15. CASE SplitFill(c)
  <2>1. CASE Crash(c)
    BY <2>1, CrashType
  <2>2. CASE table' \in Contents /\ NextTable(c, "split", "use") /\ UNCHANGED <<off, out, nomem, fault>>
    <3>1. pc' \in Positions /\ n' \in [Callers -> Split]
      BY <2>2, NextTableType DEF Position, Creating
    <3> QED BY <1>1, <2>2, <3>1 DEF Typed
  <2> QED BY <1>15, <2>1, <2>2, SplitFillEffect
<1>16. CASE Use(c)
  <2>1. CASE Oops(c)
    BY <2>1, CrashType DEF Oops, Crash
  <2>2. CASE NextTable(c, "use", "returned") /\ UNCHANGED <<table, off, nomem, fault>> /\ out' \in Outcomes
    <3>1. pc' \in Positions /\ n' \in [Callers -> Split]
      BY <2>2, NextTableType DEF Position
    <3> QED BY <1>1, <1>2, <2>2, <3>1 DEF Typed
  <2>3. out[c] \in {"none", "right", "wrong", "freed", "silent", "oops"}
    BY DEF Typed, Outcomes
  <2>4. [out EXCEPT ![c] = IF @ = "none" THEN "right" ELSE @] \in Outcomes
    BY <2>3 DEF Typed, Outcomes
  <2>5. \A r \in {"freed", "wrong"} : Result(c, r) => out' \in Outcomes
    BY ResultType
  <2> QED BY <1>16, <2>1, <2>2, <2>4, <2>5 DEF Use
<1>17. CASE GiveUpReset(c, Mult, "nullmult") \/ GiveUpReset(c, Div, "nulldiv")
  <2>1. /\ table' \in Contents /\ UNCHANGED <<off, n, nomem, fault>>
        /\ \/ Go(c, "nulldiv") /\ UNCHANGED out
           \/ Go(c, "returned") /\ Result(c, "silent")
    BY <1>17, GiveUpResetEffect
  <2>2. pc' \in Positions /\ out' \in Outcomes
    BY <1>0, <2>1, ResultType DEF Position, Creating, InMult, GivingUp, Typed
  <2> QED BY <1>a, <2>1, <2>2 DEF Typed
<1> QED BY <1>3, <1>4, <1>5, <1>6, <1>7, <1>8, <1>9, <1>10, <1>11, <1>12, <1>13, <1>14,
           <1>15, <1>16, <1>17 DEF Multiply

(* Only IlogMove adds to off; its caller is settled then.  Before that it  *)
(* passes IlogAlloc, where off starts from zero.                           *)
LEMMA SettledCount ==
  /\ IsFiniteSet(Settled) /\ Cardinality(Settled) \in Nat
  /\ IsFiniteSet(Settled') /\ Cardinality(Settled') \in Nat
  /\ Settled \subseteq Settled' => Cardinality(Settled) <= Cardinality(Settled')
BY FS_Subset, FS_CardinalityType DEF Settled

LEMMA OffStep ==
  ASSUME Typed, OffInv, NEW c \in Callers, Call(c) \/ Multiply(c)
  PROVE  OffInv'
<1> USE SettledCount
<1>0. pc \in [Callers -> Position] /\ off \in Nat
  BY DEF Typed, Positions
<1>1. CASE IlogAlloc(c) /\ off' = 0
  BY <1>1 DEF OffInv
<1>2. CASE IlogMove(c)
  <2>1. c \notin Settled /\ Settled' = Settled \cup {c} /\ off' = off + 1
    BY <1>0, <1>2 DEF IlogMove, At, Go, Settled, Filling
  <2>2. Cardinality(Settled \cup {c}) = Cardinality(Settled) + 1
    BY <2>1, FS_AddElement
  <2> QED BY <1>0, <2>1, <2>2 DEF OffInv
<1>3. ASSUME off' = off, pc' = [pc EXCEPT ![c] = pc'[c]], pc[c] \in Filling \/ pc'[c] \notin Filling
      PROVE  OffInv'
  <2>1. Settled \subseteq Settled'
    BY <1>0, <1>3 DEF Settled
  <2> QED BY <1>0, <1>3, <2>1 DEF OffInv
<1>4. CASE Call(c) \/ Check(c) \/ NeedMult(c) \/ NeedLogs(c)
  BY <1>0, <1>3, <1>4 DEF Call, Check, NeedMult, NeedLogs, Go, At, Filling
<1>5. CASE MultAlloc(c) \/ DivAlloc(c) \/ LogAlloc(c)
  BY <1>0, <1>3, <1>5 DEF MultAlloc, DivAlloc, LogAlloc, Silent, GiveUp, Go, At, Filling
<1>6. CASE IlogAlloc(c) /\ off' # 0
  BY <1>0, <1>3, <1>6 DEF IlogAlloc, GiveUp, Go, At, Filling
<1>7. CASE LogReset(c) \/ MultFill(c)
  BY <1>0, <1>3, <1>7 DEF LogReset, MultFill, Oops, Go, At, Filling
<1>8. CASE LogHalf(c, "lower", "upper") \/ LogHalf(c, "upper", "move")
  BY <1>0, <1>3, <1>8 DEF LogHalf, Oops, GiveUp, Go, At, Filling
<1>9. CASE SplitAlloc(c) \/ SplitFill(c) \/ Use(c)
  BY <1>0, <1>3, <1>9 DEF SplitAlloc, SplitFill, Use, Oops, Silent, NextTable, Go, At, Filling
<1>10. CASE \/ GiveUpFree(c, Mult, "freemult", "freediv") \/ GiveUpFree(c, Div, "freediv", "nullmult")
            \/ GiveUpReset(c, Mult, "nullmult") \/ GiveUpReset(c, Div, "nulldiv")
  BY <1>0, <1>3, <1>10 DEF GiveUpFree, GiveUpReset, Oops, Silent, Go, At, Filling
<1> QED BY <1>1, <1>2, <1>4, <1>5, <1>6, <1>7, <1>8, <1>9, <1>10 DEF Multiply

TypeInv == Typed /\ OffInv

LEMMA StepCases ==
  ASSUME [Next]_vars
  PROVE  \/ UNCHANGED vars
         \/ \E c \in Callers : /\ Call(c) \/ Multiply(c)
                               /\ Overlapping /\ UNCHANGED environment
BY DEF Next

LEMMA TypeStep == TypeInv /\ [Next]_vars => TypeInv'
<1> SUFFICES ASSUME TypeInv, [Next]_vars PROVE TypeInv'
  OBVIOUS
<1>1. CASE UNCHANGED vars
  BY <1>1 DEF vars, TypeInv, Typed, OffInv, Settled
<1>2. ASSUME NEW c \in Callers, Call(c) \/ Multiply(c), Overlapping, UNCHANGED environment
      PROVE  TypeInv'
  BY <1>2, TypesStep, OffStep DEF TypeInv
<1> QED BY <1>1, <1>2, StepCases

LEMMA TypedIsTypeOK == TypeInv => TypeOK
<1> SUFFICES ASSUME TypeInv PROVE TypeOK
  OBVIOUS
<1>1. Settled \subseteq Callers /\ Cardinality(Settled) <= Cardinality(Callers)
      /\ Cardinality(Settled) \in Nat /\ Cardinality(Callers) \in Nat
  BY FS_Subset, FS_CardinalityType DEF Settled
<1>2. off \in 0..Cardinality(Callers)
  BY <1>1 DEF TypeInv, Typed, OffInv
<1> QED BY <1>2 DEF TypeInv, Typed, TypeOK, Contents, Positions, Outcomes
-----------------------------------------------------------------------------
(***************************************************************************)
(* Every step is the step of one caller.                                   *)
(***************************************************************************)
Steps(c) == Call(c) \/ Multiply(c)

LEMMA OneMoves ==
  ASSUME Typed, NEW c \in Callers, Steps(c)
  PROVE  /\ ~fault /\ nomem \subseteq nomem'
         /\ pc' = [pc EXCEPT ![c] = pc'[c]]
         /\ n' = [n EXCEPT ![c] = n'[c]]
         /\ out' = [out EXCEPT ![c] = out'[c]]
<1>0. /\ pc \in [Callers -> Position] /\ n \in [Callers -> Split]
      /\ out \in [Callers -> {"none", "right", "wrong", "freed", "silent", "oops"}]
  BY DEF Typed, Positions, Outcomes
<1>1. CASE Call(c) \/ Check(c) \/ NeedMult(c) \/ NeedLogs(c) \/ IlogMove(c)
  BY <1>0, <1>1 DEF Call, Check, NeedMult, NeedLogs, IlogMove, Go, At, Result
<1>2. CASE MultAlloc(c) \/ DivAlloc(c) \/ LogAlloc(c) \/ IlogAlloc(c)
  BY <1>0, <1>2 DEF MultAlloc, DivAlloc, LogAlloc, IlogAlloc, Silent, GiveUp, NoMemory, Result, Go, At
<1>3. CASE LogReset(c) \/ MultFill(c)
  BY <1>0, <1>3 DEF LogReset, MultFill, Oops, Result, Go, At
<1>4. CASE LogHalf(c, "lower", "upper") \/ LogHalf(c, "upper", "move")
  BY <1>0, <1>4 DEF LogHalf, Oops, GiveUp, Silent, Result, Go, At
<1>5. CASE SplitAlloc(c)
  BY <1>0, <1>5 DEF SplitAlloc, Silent, NoMemory, NextTable, Result, Go, At
<1>6. CASE SplitFill(c)
  BY <1>0, <1>6 DEF SplitFill, Oops, NextTable, Result, Go, At
<1>7. CASE Use(c)
  BY <1>0, <1>7 DEF Use, Oops, NextTable, Result, Go, At
<1>8. CASE \/ GiveUpFree(c, Mult, "freemult", "freediv") \/ GiveUpFree(c, Div, "freediv", "nullmult")
           \/ GiveUpReset(c, Mult, "nullmult") \/ GiveUpReset(c, Div, "nulldiv")
  BY <1>0, <1>8 DEF GiveUpFree, GiveUpReset, Oops, Silent, Result, Go, At
<1> QED BY <1>1, <1>2, <1>3, <1>4, <1>5, <1>6, <1>7, <1>8 DEF Steps, Multiply

(* The index of the split table is 1 until a caller gets to them.          *)
Unmoved == {"check"} \cup InMult
CountInv == \A c \in Callers : pc[c] \in Unmoved => n[c] = 1

LEMMA CountStep ==
  ASSUME Typed, CountInv, NEW c \in Callers, Steps(c)
  PROVE  CountInv'
<1>0. pc \in [Callers -> Position] /\ n \in [Callers -> Split]
  BY DEF Typed, Positions
<1>1. SUFFICES pc'[c] \in Unmoved => n'[c] = 1
  BY <1>0, OneMoves DEF CountInv
<1>2. CASE Call(c)
  BY <1>0, <1>2 DEF Call
<1>3. CASE Check(c) \/ NeedMult(c) \/ NeedLogs(c) \/ IlogMove(c)
  BY <1>0, <1>3 DEF Check, NeedMult, NeedLogs, IlogMove, Go, At, Unmoved, InMult, CountInv
<1>4. CASE MultAlloc(c) \/ DivAlloc(c) \/ LogAlloc(c) \/ IlogAlloc(c)
  BY <1>0, <1>4 DEF MultAlloc, DivAlloc, LogAlloc, IlogAlloc, Go, At, Unmoved, InMult, CountInv
<1>5. CASE LogReset(c) \/ MultFill(c)
  BY <1>0, <1>5 DEF LogReset, MultFill, Oops, Go, At, Unmoved, InMult, CountInv
<1>6. CASE LogHalf(c, "lower", "upper") \/ LogHalf(c, "upper", "move")
  BY <1>0, <1>6 DEF LogHalf, Oops, Go, At, Unmoved, InMult, CountInv
<1>7. CASE SplitAlloc(c) \/ SplitFill(c) \/ Use(c)
  BY <1>0, <1>7 DEF SplitAlloc, SplitFill, Use, Oops, Silent, NextTable, Go, At, Unmoved, InMult, GivingUp
<1>8. CASE \/ GiveUpFree(c, Mult, "freemult", "freediv") \/ GiveUpFree(c, Div, "freediv", "nullmult")
           \/ GiveUpReset(c, Mult, "nullmult") \/ GiveUpReset(c, Div, "nulldiv")
  BY <1>0, <1>8 DEF GiveUpFree, GiveUpReset, Oops, Go, At, Unmoved, InMult, GivingUp, CountInv
<1> QED BY <1>2, <1>3, <1>4, <1>5, <1>6, <1>7, <1>8 DEF Steps, Multiply

(* An active caller beside which another one is creating tables is marked. *)
Resting == {"idle", "returned"}
OverlapInv ==
  \A c, d \in Callers : c # d /\ pc[c] \notin Resting /\ pc[d] \in Creating => overlap[c]

LEMMA OverlapStep == Typed /\ Overlapping => OverlapInv'
BY DEF Typed, Overlapping, OverlapInv, Resting
-----------------------------------------------------------------------------
(***************************************************************************)
(* Creations at the same time.  Whoever set the pointer of a split table   *)
(* last will also fill the memory behind it.                               *)
(***************************************************************************)
Will(d, t) == \/ pc[d] = "alloc" /\ n[d] > t
              \/ pc[d] = "split" /\ n[d] <= t

Comes(t) == table[t] # "null" \/ \E d \in Callers : pc[d] = "alloc" /\ n[d] <= t

SplitFacts ==
  /\ \A t \in Split : table[t] \in {"null", "right"} \/ \E d \in Callers : Will(d, t)
  /\ \A c \in Callers, t \in Split : pc[c] = "alloc" /\ t < n[c] => table[t] # "null"
  /\ \A c \in Callers, t \in Split : pc[c] = "split" => table[t] # "null"
  /\ \A c \in Callers : pc[c] = "use" => table[1] # "null"
  /\ table[1] # "null" => \A t \in Split : Comes(t)

(* The exponentials follow the logarithms, and neither is ever used after  *)
(* it was freed.                                                           *)
LogFacts ==
  /\ table[Log] # "null" => table[Ilog] # "null" \/ \E d \in Callers : pc[d] = "ilog"
  /\ table[Log] # "freed" /\ table[Ilog] # "freed"

SplitInv == nomem = {} => SplitFacts /\ LogFacts

(* What a step outside the two loops over the split tables leaves alone.   *)
Elsewhere(c) ==
  /\ \A t \in Split : table'[t] = table[t] 
  /\ pc[c] \notin {"alloc", "split"} /\ pc'[c] # "split"
  /\ pc'[c] = "alloc" => n'[c] = 1
  /\ pc'[c] = "use" => table[1] # "null"

LEMMA OutsideSplit ==
  ASSUME Typed, SplitInv, CountInv, nomem' = {}, NEW c \in Callers, Steps(c)
  PROVE  SplitAlloc(c) \/ SplitFill(c) \/ Elsewhere(c)
<1> USE TableNames
<1>0. /\ pc \in [Callers -> Position] /\ n \in [Callers -> Split] /\ nomem = {}
  BY OneMoves DEF Typed, Positions
<1>f. \A t \in Tables : ~NotHad(t)
  BY DEF NotHad
<1>s. ASSUME NEW T, T \subseteq {Log, Ilog, Mult, Div}, Frame(T)
      PROVE  \A t \in Split : table'[t] = table[t]
  BY <1>s DEF Frame
<1>1. CASE Call(c) \/ Check(c) \/ NeedMult(c) \/ NeedLogs(c) \/ IlogMove(c)
  BY <1>0, <1>1 DEF Call, Check, NeedMult, NeedLogs, IlogMove, Created, Go, At, Elsewhere,
                    CountInv, Unmoved, InMult
<1>2. CASE MultAlloc(c)
  <2>1. \A t \in Split : table'[t] = table[t]
    BY <1>f, <1>s, <1>2, MultAllocEffect DEF Obtained, Failed
  <2> QED BY <1>0, <1>2, <2>1 DEF MultAlloc, Silent, Go, At, Elsewhere
<1>3. CASE DivAlloc(c)
  <2>1. \A t \in Split : table'[t] = table[t]
    BY <1>f, <1>s, <1>3, DivAllocEffect DEF Obtained, Failed
  <2> QED BY <1>0, <1>3, <2>1 DEF DivAlloc, Silent, Go, At, Elsewhere
<1>4. CASE LogAlloc(c)
  <2>1. \A t \in Split : table'[t] = table[t]
    BY <1>f, <1>s, <1>4, LogAllocEffect DEF Obtained, GivenUp
  <2> QED BY <1>0, <1>4, <2>1 DEF LogAlloc, GiveUp, Go, At, Elsewhere
<1>5. CASE IlogAlloc(c)
  <2>1. \A t \in Split : table'[t] = table[t]
    BY <1>f, <1>s, <1>5, IlogAllocEffect DEF Obtained, GivenUp
  <2> QED BY <1>0, <1>5, <2>1 DEF IlogAlloc, GiveUp, Go, At, Elsewhere
<1>6. CASE LogReset(c)
  <2>1. \A t \in Split : table'[t] = table[t]
    BY <1>s, <1>6, LogResetEffect DEF Crash
  <2> QED BY <1>0, <1>6, <2>1 DEF LogReset, Oops, Go, At, Elsewhere
<1>7. ASSUME NEW half \in {"lower", "upper"}, NEW next \in {"upper", "move"}, LogHalf(c, half, next)
      PROVE  Elsewhere(c)
  <2>1. \A t \in Split : table'[t] = table[t]
    BY <1>s, <1>7, LogHalfEffect DEF Crash
  <2> QED BY <1>0, <1>7, <2>1 DEF LogHalf, Oops, GiveUp, Go, At, Elsewhere
<1>8. CASE MultFill(c)
  <2>1. \A t \in Split : table'[t] = table[t]
    BY <1>s, <1>8, MultFillEffect DEF Crash
  <2> QED BY <1>0, <1>8, <2>1 DEF MultFill, Oops, Go, At, Elsewhere, CountInv, Unmoved, InMult
<1>9. CASE Use(c)
  <2>1. UNCHANGED table /\ pc'[c] \in {"use", "returned"} /\ pc[c] = "use"
    BY <1>0, <1>9 DEF Use, Oops, NextTable, Go, At
  <2> QED BY <1>0, <2>1 DEF Elsewhere, SplitInv, SplitFacts
<1>10. CASE GiveUpFree(c, Mult, "freemult", "freediv") \/ GiveUpFree(c, Div, "freediv", "nullmult")
  <2>1. \A t \in Split : table'[t] = table[t]
    BY <1>10, GiveUpFreeEffect DEF Crash, Undone
  <2> QED BY <1>0, <1>10, <2>1 DEF GiveUpFree, Oops, Go, At, Elsewhere
<1>11. CASE GiveUpReset(c, Mult, "nullmult") \/ GiveUpReset(c, Div, "nulldiv")
  <2>1. \A t \in Split : table'[t] = table[t]
    BY <1>11, GiveUpResetEffect DEF Undone
  <2> QED BY <1>0, <1>11, <2>1 DEF GiveUpReset, Silent, Go, At, Elsewhere
<1> QED BY <1>1, <1>2, <1>3, <1>4, <1>5, <1>6, <1>7, <1>8, <1>9, <1>10, <1>11 DEF Steps, Multiply

LEMMA ElsewhereKeeps ==
  ASSUME Typed, SplitFacts, NEW c \in Callers, Steps(c), Elsewhere(c)
  PROVE  SplitFacts'
<1> USE TableNames
<1>0. /\ pc \in [Callers -> Position] /\ n \in [Callers -> Split]
      /\ pc' = [pc EXCEPT ![c] = pc'[c]] /\ n' = [n EXCEPT ![c] = n'[c]]
      /\ \A t \in Split : t \in Nat /\ t >= 1
  BY OneMoves DEF Typed, Positions, Split
<1>1. \A d \in Callers : d # c => pc'[d] = pc[d] /\ n'[d] = n[d]
  BY <1>0
<1>2. \A t \in Split : table'[t] = table[t]
  BY DEF Elsewhere
<1>3. \A t \in Split : Comes(t) => Comes(t)'
  <2> SUFFICES ASSUME NEW t \in Split, NEW d \in Callers, pc[d] = "alloc" /\ n[d] <= t
               PROVE  Comes(t)'
    BY <1>2 DEF Comes
  <2> QED BY <1>1 DEF Comes, Elsewhere
<1>4. \A t \in Split : table'[t] \in {"null", "right"} \/ \E d \in Callers : Will(d, t)'
  <2> SUFFICES ASSUME NEW t \in Split, NEW d \in Callers, Will(d, t)
               PROVE  Will(d, t)'
    BY <1>2 DEF SplitFacts
  <2>1. d # c
    BY DEF Will, Elsewhere
  <2> QED BY <1>1, <2>1 DEF Will
<1>5. \A d \in Callers, t \in Split : pc'[d] = "alloc" /\ t < n'[d] => table'[t] # "null"
  BY <1>0, <1>1, <1>2 DEF SplitFacts, Elsewhere
<1>6. \A d \in Callers, t \in Split : pc'[d] = "split" => table'[t] # "null"
  BY <1>1, <1>2 DEF SplitFacts, Elsewhere
<1>7. \A d \in Callers : pc'[d] = "use" => table'[1] # "null"
  BY <1>1, <1>2 DEF SplitFacts, Elsewhere
<1> QED BY <1>2, <1>3, <1>4, <1>5, <1>6, <1>7 DEF SplitFacts

LEMMA NextTableMoves ==
  ASSUME Typed, NEW c \in Callers, NEW p, NEW q, NextTable(c, p, q)
  PROVE  \/ n[c] < NSplit /\ n'[c] = n[c] + 1 /\ pc'[c] = p
         \/ n[c] = NSplit /\ n'[c] = 1 /\ pc'[c] = q
<1>1. n[c] \in Nat /\ n[c] >= 1 /\ n[c] <= NSplit /\ n \in [Callers -> Split] /\ pc \in [Callers -> Position]
  BY DEF Typed, Positions, Split
<1>2. CASE MoreTables(n[c])
  BY <1>1, <1>2 DEF MoreTables, NextTable, Go
<1>3. CASE ~MoreTables(n[c])
  BY <1>1, <1>3 DEF MoreTables, NextTable, Go
<1> QED BY <1>2, <1>3

LEMMA SplitAllocKeeps ==
  ASSUME Typed, SplitFacts, NEW c \in Callers, SplitAlloc(c), nomem' = {}
  PROVE  SplitFacts'
<1> USE TableNames
<1> DEFINE u == n[c]
<1>0. /\ pc \in [Callers -> Position] /\ n \in [Callers -> Split] /\ pc[c] = "alloc"
      /\ pc' = [pc EXCEPT ![c] = pc'[c]] /\ n' = [n EXCEPT ![c] = n'[c]]
      /\ NSplit \in Nat
  BY OneMoves DEF Typed, Positions, Steps, Multiply, SplitAlloc, At
<1>1. \A d \in Callers : d # c => pc'[d] = pc[d] /\ n'[d] = n[d]
  BY <1>0
<1>2. NextTable(c, "alloc", "split") /\ Obtained(c, u)
  BY SplitAllocEffect DEF Failed, NotHad
<1>3. u \in Split /\ \A t \in Split : t \in Int /\ 1 <= t /\ t <= NSplit
  BY <1>0 DEF Split
<1>4. \/ u < NSplit /\ n'[c] = u + 1 /\ pc'[c] = "alloc"
      \/ u = NSplit /\ n'[c] = 1 /\ pc'[c] = "split"
  BY <1>2, NextTableMoves
<1>5. /\ table'[u] = "raw"
      /\ \A t \in Split : t # u => table'[t] = table[t]
  BY <1>2, <1>3 DEF Obtained, Frame
<1>12. \A t \in Split : t < u => table[t] # "null"
  BY <1>0 DEF SplitFacts
<1> HIDE DEF u
<1>6. \A t \in Split : table'[t] \in {"null", "right"} \/ \E d \in Callers : Will(d, t)'
  <2> SUFFICES ASSUME NEW t \in Split, table'[t] \notin {"null", "right"}
               PROVE  \E d \in Callers : Will(d, t)'
    OBVIOUS
  <2>1. CASE t = u
    BY <1>3, <1>4, <2>1 DEF Will
  <2>2. CASE t # u
    <3>1. PICK d \in Callers : Will(d, t)
      BY <1>5, <2>2 DEF SplitFacts
    <3>2. CASE d # c
      BY <1>1, <3>1, <3>2 DEF Will
    <3>3. CASE d = c
      <4>1. u > t
        BY <1>0, <3>1, <3>3 DEF Will, u
      <4> QED BY <1>3, <1>4, <4>1 DEF Will
    <3> QED BY <3>2, <3>3
  <2> QED BY <2>1, <2>2
<1>7. \A t \in Split : table[t] # "null" => table'[t] # "null"
  BY <1>5
<1>8. \A d \in Callers, t \in Split : pc'[d] = "alloc" /\ t < n'[d] => table'[t] # "null"
  <2> SUFFICES ASSUME NEW d \in Callers, NEW t \in Split, pc'[d] = "alloc", t < n'[d]
               PROVE  table'[t] # "null"
    OBVIOUS
  <2>1. CASE d # c
    BY <1>1, <1>7, <2>1 DEF SplitFacts
  <2>2. CASE d = c
    BY <1>3, <1>4, <1>5, <1>7, <1>12, <2>2
  <2> QED BY <2>1, <2>2
<1>9. \A d \in Callers, t \in Split : pc'[d] = "split" => table'[t] # "null"
  <2> SUFFICES ASSUME NEW d \in Callers, NEW t \in Split, pc'[d] = "split"
               PROVE  table'[t] # "null"
    OBVIOUS
  <2>1. CASE d # c
    BY <1>1, <1>7, <2>1 DEF SplitFacts
  <2>2. CASE d = c
    BY <1>3, <1>4, <1>5, <1>7, <1>12, <2>2
  <2> QED BY <2>1, <2>2
<1>10. \A d \in Callers : pc'[d] = "use" => table'[1] # "null"
  BY <1>1, <1>4, <1>7 DEF SplitFacts
<1>11. table'[1] # "null" => \A t \in Split : Comes(t)'
  <2> SUFFICES ASSUME NEW t \in Split, table'[1] # "null", table'[t] = "null"
               PROVE  \E d \in Callers : pc'[d] = "alloc" /\ n'[d] <= t
    BY DEF Comes
  <2>1. t # u /\ table[t] = "null"
    BY <1>5
  <2>2. CASE u = 1
    BY <1>3, <1>4, <2>1, <2>2
  <2>3. CASE u # 1
    <3>1. table[1] # "null"
      BY <1>5, <2>3
    <3>2. PICK d \in Callers : pc[d] = "alloc" /\ n[d] <= t
      BY <2>1, <3>1 DEF SplitFacts, Comes
    <3>3. CASE d # c
      BY <1>1, <3>2, <3>3
    <3>4. CASE d = c
      <4>1. u <= t
        BY <3>2, <3>4 DEF u
      <4> QED BY <1>3, <1>4, <2>1, <4>1
    <3> QED BY <3>3, <3>4
  <2> QED BY <2>2, <2>3
<1> QED BY <1>6, <1>8, <1>9, <1>10, <1>11 DEF SplitFacts

LEMMA SplitFillKeeps ==
  ASSUME Typed, SplitFacts, NEW c \in Callers, SplitFill(c)
  PROVE  SplitFacts'
<1> USE TableNames
<1> DEFINE u == n[c]
<1>0. /\ pc \in [Callers -> Position] /\ n \in [Callers -> Split] /\ pc[c] = "split"
      /\ pc' = [pc EXCEPT ![c] = pc'[c]] /\ n' = [n EXCEPT ![c] = n'[c]]
      /\ NSplit \in Nat
  BY OneMoves DEF Typed, Positions, Steps, Multiply, SplitFill, At
<1>1. \A d \in Callers : d # c => pc'[d] = pc[d] /\ n'[d] = n[d]
  BY <1>0
<1>2. \A t \in Split : table[t] # "null"
  BY <1>0 DEF SplitFacts
<1>3. u \in Split /\ \A t \in Split : t \in Int /\ 1 <= t /\ t <= NSplit
  BY <1>0 DEF Split
<1>4. /\ NextTable(c, "split", "use") /\ table'[u] = "right" /\ Frame({u})
  BY <1>0, <1>2, <1>3, SplitFillEffect
<1>5. \/ u < NSplit /\ n'[c] = u + 1 /\ pc'[c] = "split"
      \/ u = NSplit /\ n'[c] = 1 /\ pc'[c] = "use"
  BY <1>4, NextTableMoves
<1>6. \A t \in Split : t # u => table'[t] = table[t]
  BY <1>4 DEF Frame
<1>7. \A t \in Split : table'[t] # "null"
  BY <1>2, <1>4, <1>6
<1>8. \A t \in Split : table'[t] \in {"null", "right"} \/ \E d \in Callers : Will(d, t)'
  <2> SUFFICES ASSUME NEW t \in Split, t # u, NEW d \in Callers, Will(d, t)
               PROVE  Will(d, t)'
    BY <1>4, <1>6 DEF SplitFacts
  <2>1. CASE d # c
    BY <1>1, <2>1 DEF Will
  <2>2. CASE d = c
    <3>1. u <= t
      BY <1>0, <2>2 DEF Will
    <3> HIDE DEF u
    <3> QED BY <1>3, <1>5, <2>2, <3>1 DEF Will
  <2> QED BY <2>1, <2>2
<1> QED BY <1>7, <1>8 DEF SplitFacts, Comes

LEMMA LogFactsStep ==
  ASSUME Typed, SplitInv, NEW c \in Callers, Steps(c), nomem' = {}
  PROVE  LogFacts'
<1> USE TableNames
<1>0. /\ nomem = {} /\ LogFacts /\ pc \in [Callers -> Position]
      /\ pc' = [pc EXCEPT ![c] = pc'[c]]
  BY OneMoves DEF Typed, SplitInv, Positions
<1>f. \A t \in Tables : ~NotHad(t)
  BY DEF NotHad
<1>1. CASE LogAlloc(c)
  <2>1. Go(c, "ilog") /\ Obtained(c, Log)
    BY <1>f, <1>1, LogAllocEffect DEF GivenUp
  <2>2. pc'[c] = "ilog" /\ table'[Log] = "raw" /\ table'[Ilog] = table[Ilog]
    BY <1>0, <2>1 DEF Go, Obtained, Frame
  <2> QED BY <1>0, <2>2 DEF LogFacts
<1>2. CASE IlogAlloc(c)
  <2>1. Obtained(c, Ilog)
    BY <1>f, <1>2, IlogAllocEffect DEF GivenUp
  <2>2. table'[Ilog] = "raw" /\ table'[Log] = table[Log]
    BY <2>1 DEF Obtained, Frame
  <2> QED BY <1>0, <2>2 DEF LogFacts
<1>3. ASSUME table'[Log] = "null" <=> table[Log] = "null",
             table'[Ilog] = "null" <=> table[Ilog] = "null",
             table'[Log] # "freed", table'[Ilog] # "freed", pc[c] # "ilog"
      PROVE  LogFacts'
  <2>1. \A d \in Callers : pc[d] = "ilog" => pc'[d] = "ilog"
    BY <1>0, <1>3
  <2> QED BY <1>0, <1>3, <2>1 DEF LogFacts
<1>t. table[Log] # "freed" /\ table[Ilog] # "freed"
  BY <1>0 DEF LogFacts
<1>s. ASSUME NEW T, Log \notin T, Ilog \notin T, Frame(T), pc[c] # "ilog"
      PROVE  LogFacts'
  BY <1>3, <1>t, <1>s DEF Frame
<1>4. CASE Call(c) \/ Check(c) \/ NeedMult(c) \/ NeedLogs(c) \/ IlogMove(c) \/ Use(c)
  <2>1. UNCHANGED table /\ pc[c] # "ilog"
    BY <1>4 DEF Call, Check, NeedMult, NeedLogs, IlogMove, Use, Oops, At
  <2> QED BY <1>3, <1>t, <2>1
<1>5. CASE MultAlloc(c)
  BY <1>f, <1>s, <1>5, MultAllocEffect DEF MultAlloc, At, Obtained, Failed
<1>6. CASE DivAlloc(c)
  BY <1>f, <1>s, <1>6, DivAllocEffect DEF DivAlloc, At, Obtained, Failed
<1>7. CASE LogReset(c)
  <2>1. pc[c] # "ilog"
    BY <1>7 DEF LogReset, At
  <2> QED BY <1>3, <1>t, <1>7, <2>1, LogResetEffect DEF NoLogs, Crash
<1>8. ASSUME NEW half \in {"lower", "upper"}, NEW next \in {"upper", "move"}, LogHalf(c, half, next)
      PROVE  LogFacts'
  <2>1. \A m : m \notin {"null", "freed"} => Added(half, m) \notin {"null", "freed"}
    BY DEF Added
  <2>2. pc[c] # "ilog"
    BY <1>8 DEF LogHalf, At
  <2> QED BY <1>3, <1>t, <1>8, <2>1, <2>2, LogHalfEffect DEF NoLogs, Crash
<1>9. CASE MultFill(c)
  <2>1. pc[c] # "ilog"
    BY <1>9 DEF MultFill, At
  <2> QED BY <1>3, <1>t, <1>s, <1>9, <2>1, MultFillEffect DEF Crash
<1>10. CASE SplitAlloc(c)
  <2>1. n[c] \in Split /\ Obtained(c, n[c]) /\ pc[c] # "ilog"
    BY <1>f, <1>10, SplitAllocEffect DEF Failed, Typed, SplitAlloc, At
  <2> QED BY <1>s, <2>1 DEF Obtained
<1>11. CASE SplitFill(c)
  <2>1. n[c] \in Split /\ Frame({n[c]}) /\ pc[c] # "ilog"
    BY <1>11, SplitFillEffect DEF Typed, Crash, Frame, SplitFill, At
  <2> QED BY <1>s, <2>1
<1>12. CASE GiveUpFree(c, Mult, "freemult", "freediv") \/ GiveUpFree(c, Div, "freediv", "nullmult")
  <2>1. table'[Log] = table[Log] /\ table'[Ilog] = table[Ilog] /\ pc[c] # "ilog"
    BY <1>12, GiveUpFreeEffect DEF GiveUpFree, At, Crash, Undone
  <2> QED BY <1>3, <1>t, <2>1
<1>13. CASE GiveUpReset(c, Mult, "nullmult") \/ GiveUpReset(c, Div, "nulldiv")
  <2>1. table'[Log] = table[Log] /\ table'[Ilog] = table[Ilog] /\ pc[c] # "ilog"
    BY <1>13, GiveUpResetEffect DEF GiveUpReset, At, Undone
  <2> QED BY <1>3, <1>t, <2>1
<1> QED BY <1>1, <1>2, <1>4, <1>5, <1>6, <1>7, <1>8, <1>9, <1>10, <1>11, <1>12, <1>13 DEF Steps, Multiply

LEMMA SplitStep ==
  ASSUME Typed, SplitInv, CountInv, NEW c \in Callers, Steps(c)
  PROVE  SplitInv'
<1> SUFFICES ASSUME nomem' = {} PROVE SplitFacts' /\ LogFacts'
  BY DEF SplitInv
<1>1. SplitFacts
  BY OneMoves DEF SplitInv
<1>2. SplitFacts'
  BY <1>1, OutsideSplit, ElsewhereKeeps, SplitAllocKeeps, SplitFillKeeps
<1> QED BY <1>2, LogFactsStep
-----------------------------------------------------------------------------
(***************************************************************************)
(* A call beside which nobody creates tables finds the logarithms as it    *)
(* left them, and all split tables complete when it gets to them.          *)
(***************************************************************************)
WithLogs == {"ilog", "reset", "lower", "upper", "move", "fill"}
WithDiv == {"logs", "log"} \cup WithLogs
WithMult == {"div"} \cup WithDiv

Alone(c) ==
  /\ pc[c] \in {"check"} \cup Creating => out[c] = "none"
  /\ pc[c] = "use" => out[c] = "right" \/ (n[c] = 1 /\ out[c] = "none")
  /\ pc[c] = "returned" => out[c] = "right"
  /\ pc[c] \notin GivingUp
  /\ pc[c] \in WithMult => table[Mult] \notin {"null", "freed"}
  /\ pc[c] \in WithDiv => table[Div] \notin {"null", "freed"}
  /\ pc[c] \in WithLogs => table[Log] # "null"
  /\ pc[c] = "lower" => table[Log] = "reset"
  /\ pc[c] = "upper" => table[Log] = "lower"

AloneInv == nomem = {} => \A c \in Callers : ~overlap[c] => Alone(c)

LEMMA StillAlone ==
  ASSUME Typed, Overlapping, NEW c \in Callers, ~overlap'[c], pc'[c] # "idle",
         pc'[c] # "check" \/ pc[c] = "check"
  PROVE  ~overlap[c]
BY DEF Typed, Overlapping

LEMMA QuietStep ==
  ASSUME Typed, NEW c \in Callers, Steps(c), pc[c] \notin Creating, pc'[c] \notin Creating
  PROVE  UNCHANGED table
<1>1. pc[c] \notin {"mult", "multalloc", "div", "logs", "log", "ilog", "reset", "lower", "upper",
                    "move", "fill", "alloc", "split", "freemult", "freediv", "nullmult", "nulldiv"}
  BY DEF Creating, InMult, GivingUp
<1>2. Call(c) \/ Check(c) \/ Use(c)
  BY <1>1 DEF Steps, Multiply, At, NeedMult, MultAlloc, DivAlloc, NeedLogs, LogAlloc, IlogAlloc,
              LogReset, LogHalf, IlogMove, MultFill, SplitAlloc, SplitFill, GiveUpFree, GiveUpReset
<1> QED BY <1>2 DEF Call, Check, Use, Oops

LEMMA AloneOther ==
  ASSUME Typed, NEW c \in Callers, NEW d \in Callers, c # d, Steps(d), Overlapping,
         OverlapInv, ~overlap'[c], ~overlap[c] => Alone(c)
  PROVE  Alone(c)'
<1>0. /\ pc \in [Callers -> Position] /\ n \in [Callers -> Split]
      /\ pc'[c] = pc[c] /\ n'[c] = n[c] /\ out'[c] = out[c]
  BY OneMoves DEF Typed, Positions, Outcomes
<1>1. CASE pc[c] = "idle"
  BY <1>0, <1>1 DEF Alone, Creating, InMult, GivingUp, WithMult, WithDiv, WithLogs
<1>2. ASSUME pc[c] # "idle" PROVE Alone(c)
  BY <1>0, <1>2, StillAlone
<1>3. CASE pc[c] = "returned"
  BY <1>0, <1>2, <1>3 DEF Alone, Creating, InMult, GivingUp, WithMult, WithDiv, WithLogs
<1>4. CASE pc[c] \notin Resting
  <2>1. ~overlap[c]
    BY <1>0, <1>4, StillAlone DEF Resting
  <2>2. pc[d] \notin Creating /\ pc'[d] \notin Creating
    BY <1>0, <1>4, <2>1, OverlapStep DEF OverlapInv
  <2>3. UNCHANGED table
    BY <2>2, QuietStep
  <2>4. Alone(c)
    BY <1>2, <1>4 DEF Resting
  <2> QED BY <1>0, <2>3, <2>4 DEF Alone
<1> QED BY <1>1, <1>3, <1>4 DEF Resting

LEMMA AllRight ==
  ASSUME Typed, SplitFacts, NEW c \in Callers, pc[c] = "use", \A d \in Callers : pc[d] \notin Creating
  PROVE  \A t \in Split : table[t] = "right"
<1>0. {"alloc", "split"} \subseteq Creating
  BY DEF Creating
<1>1. table[1] # "null"
  BY DEF SplitFacts
<1>2. \A t \in Split : table[t] # "null"
  BY <1>0, <1>1 DEF SplitFacts, Comes
<1> QED BY <1>0, <1>2 DEF SplitFacts, Will

LEMMA AloneSelf ==
  ASSUME Typed, NEW c \in Callers, Multiply(c), nomem' = {}, SplitInv, CountInv, Alone(c),
         \A d \in Callers : d # c => pc[d] \notin Creating
  PROVE  Alone(c)'
<1> USE TableNames DEF Alone
<1>0. /\ pc \in [Callers -> Position] /\ n \in [Callers -> Split] /\ out \in Outcomes
      /\ nomem = {} /\ SplitFacts /\ LogFacts
  BY OneMoves DEF Typed, Positions, Steps, SplitInv
<1>f. \A t \in Tables : ~NotHad(t)
  BY DEF NotHad
<1> USE DEF Creating, InMult, GivingUp, WithMult, WithDiv, WithLogs
<1>1. pc[c] \in WithLogs \ {"ilog"} => ~NoLogs
  BY <1>0 DEF LogFacts, NoLogs
<1>2. CASE Check(c)
  <2>1. UNCHANGED <<table, n, out>> /\ pc[c] = "check" /\ pc'[c] \in {"use", "mult"}
    BY <1>0, <1>2 DEF Check, Go, At
  <2>2. n[c] = 1
    BY <2>1 DEF CountInv, Unmoved
  <2> QED BY <2>1, <2>2
<1>3. CASE NeedMult(c)
  <2>1. UNCHANGED <<table, out>> /\ pc[c] = "mult" /\ pc'[c] \in {"multalloc", "alloc"}
    BY <1>0, <1>3 DEF NeedMult, Go, At
  <2> QED BY <2>1
<1>4. CASE MultAlloc(c)
  <2>1. Go(c, "div") /\ Obtained(c, Mult)
    BY <1>f, <1>4, MultAllocEffect DEF Failed
  <2>2. pc[c] = "multalloc" /\ UNCHANGED out /\ pc'[c] = "div" /\ table'[Mult] = "raw"
    BY <1>0, <1>4, <2>1 DEF MultAlloc, At, Obtained, Go
  <2> QED BY <2>2
<1>5. CASE DivAlloc(c)
  <2>1. Go(c, "logs") /\ Obtained(c, Div)
    BY <1>f, <1>5, DivAllocEffect DEF Failed
  <2>2. pc[c] = "div" /\ UNCHANGED out /\ pc'[c] = "logs" /\ table'[Div] = "raw" /\ Frame({Div})
    BY <1>0, <1>5, <2>1 DEF DivAlloc, At, Obtained, Go
  <2> QED BY <2>2 DEF Frame
<1>6. CASE NeedLogs(c)
  <2>1. /\ UNCHANGED <<table, out>> /\ pc[c] = "logs"
        /\ pc'[c] = (IF table[Log] = "null" THEN "log" ELSE "fill")
    BY <1>0, <1>6 DEF NeedLogs, Go, At
  <2> QED BY <2>1
<1>7. CASE LogAlloc(c)
  <2>1. Go(c, "ilog") /\ Obtained(c, Log)
    BY <1>f, <1>7, LogAllocEffect DEF GivenUp
  <2>2. pc[c] = "log" /\ UNCHANGED out /\ pc'[c] = "ilog" /\ table'[Log] = "raw" /\ Frame({Log})
    BY <1>0, <1>7, <2>1 DEF LogAlloc, At, Obtained, Go
  <2> QED BY <2>2 DEF Frame
<1>8. CASE IlogAlloc(c)
  <2>1. Go(c, "reset") /\ Obtained(c, Ilog)
    BY <1>f, <1>8, IlogAllocEffect DEF GivenUp
  <2>2. pc[c] = "ilog" /\ UNCHANGED out /\ pc'[c] = "reset" /\ Frame({Ilog})
    BY <1>0, <1>8, <2>1 DEF IlogAlloc, At, Obtained, Go
  <2> QED BY <2>2 DEF Frame
<1>9. CASE LogReset(c)
  <2>1. pc[c] = "reset" /\ ~NoLogs
    BY <1>1, <1>9 DEF LogReset, At
  <2>2. UNCHANGED out /\ Go(c, "lower") /\ table'[Log] = "reset" /\ Frame({Log, Ilog})
    BY <1>9, <2>1, LogResetEffect
  <2>3. pc'[c] = "lower"
    BY <1>0, <2>2 DEF Go
  <2> QED BY <2>1, <2>2, <2>3 DEF Frame
<1>10. CASE LogHalf(c, "lower", "upper")
  <2>1. pc[c] = "lower" /\ table[Log] = "reset" /\ ~NoLogs
    BY <1>1, <1>10 DEF LogHalf, At
  <2>2. /\ UNCHANGED out /\ Go(c, "upper") /\ table'[Log] = Added("lower", "reset")
        /\ Frame({Log, Ilog})
    BY <1>10, <2>1, LogHalfEffect DEF Used
  <2>3. pc'[c] = "upper" /\ table'[Log] = "lower"
    BY <1>0, <2>2 DEF Go, Added
  <2> QED BY <2>1, <2>2, <2>3 DEF Frame
<1>11. CASE LogHalf(c, "upper", "move")
  <2>1. pc[c] = "upper" /\ table[Log] = "lower" /\ ~NoLogs
    BY <1>1, <1>11 DEF LogHalf, At
  <2>2. /\ UNCHANGED out /\ Go(c, "move") /\ table'[Log] = Added("upper", "lower")
        /\ Frame({Log, Ilog})
    BY <1>11, <2>1, LogHalfEffect DEF Used
  <2>3. pc'[c] = "move" /\ table'[Log] = "right"
    BY <1>0, <2>2 DEF Go, Added
  <2> QED BY <2>1, <2>2, <2>3 DEF Frame
<1>12. CASE IlogMove(c)
  <2>1. UNCHANGED <<table, out>> /\ pc[c] = "move" /\ pc'[c] = "fill"
    BY <1>0, <1>12 DEF IlogMove, Go, At
  <2> QED BY <2>1
<1>13. CASE MultFill(c)
  <2>1. pc[c] = "fill" /\ ~NoLogs
    BY <1>1, <1>13 DEF MultFill, At
  <2>2. /\ table[Mult] \notin {"null", "freed"} /\ table[Div] \notin {"null", "freed"}
        /\ table[Log] \notin {"null", "freed"} /\ table[Ilog] \notin {"null", "freed"}
    BY <1>0, <2>1 DEF LogFacts, NoLogs
  <2>3. UNCHANGED out /\ Go(c, "alloc")
    BY <1>13, <2>2, MultFillEffect
  <2>4. pc'[c] = "alloc"
    BY <1>0, <2>3 DEF Go
  <2> QED BY <2>1, <2>3, <2>4
<1>14. CASE SplitAlloc(c)
  <2>1. n[c] \in Tables
    BY <1>0
  <2>2. pc[c] = "alloc" /\ UNCHANGED out /\ NextTable(c, "alloc", "split")
    BY <1>f, <1>14, <2>1, SplitAllocEffect DEF SplitAlloc, At, Failed, Obtained
  <2>3. pc'[c] \in {"alloc", "split"}
    BY <2>2, NextTableMoves
  <2> QED BY <2>2, <2>3
<1>15. CASE SplitFill(c)
  <2>1. pc[c] = "split" /\ n[c] \in Split
    BY <1>0, <1>15 DEF SplitFill, At
  <2>4. table[n[c]] # "null"
    BY <1>0, <2>1 DEF SplitFacts
  <2>2. UNCHANGED out /\ NextTable(c, "split", "use")
    BY <1>15, <2>4, SplitFillEffect
  <2>3. \/ n[c] < NSplit /\ n'[c] = n[c] + 1 /\ pc'[c] = "split"
        \/ n[c] = NSplit /\ n'[c] = 1 /\ pc'[c] = "use"
    BY <2>2, NextTableMoves
  <2> QED BY <2>1, <2>2, <2>3
<1>16. CASE Use(c)
  <2>1. pc[c] = "use" /\ n[c] \in Split
    BY <1>0, <1>16 DEF Use, At
  <2>2. \A d \in Callers : pc[d] \notin Creating
    BY <2>1
  <2>3. table[n[c]] = "right"
    BY <1>0, <2>1, <2>2, AllRight
  <2>4. /\ NextTable(c, "use", "returned")
        /\ out' = [out EXCEPT ![c] = IF @ = "none" THEN "right" ELSE @]
    BY <1>16, <2>3 DEF Use
  <2>5. out'[c] = "right"
    BY <1>0, <2>1, <2>4 DEF Outcomes
  <2>6. pc'[c] \in {"use", "returned"}
    BY <2>4, NextTableMoves
  <2> QED BY <2>5, <2>6
<1>17. CASE \/ GiveUpFree(c, Mult, "freemult", "freediv") \/ GiveUpFree(c, Div, "freediv", "nullmult")
            \/ GiveUpReset(c, Mult, "nullmult") \/ GiveUpReset(c, Div, "nulldiv")
  BY <1>17 DEF GiveUpFree, GiveUpReset, At
<1> QED BY <1>2, <1>3, <1>4, <1>5, <1>6, <1>7, <1>8, <1>9, <1>10, <1>11, <1>12, <1>13, <1>14,
           <1>15, <1>16, <1>17 DEF Multiply

(* No step of a multiplication begins or ends before it.                   *)
LEMMA MovesOn ==
  ASSUME Typed, NEW c \in Callers, Multiply(c)
  PROVE  pc[c] \notin Resting /\ pc'[c] \notin {"idle", "check"}
<1> USE DEF Resting, Go, At
<1>0. pc \in [Callers -> Position]
  BY DEF Typed, Positions
<1>1. CASE Check(c) \/ NeedMult(c) \/ NeedLogs(c) \/ IlogMove(c)
  BY <1>0, <1>1 DEF Check, NeedMult, NeedLogs, IlogMove
<1>2. CASE MultAlloc(c) \/ DivAlloc(c) \/ LogAlloc(c) \/ IlogAlloc(c)
  BY <1>0, <1>2 DEF MultAlloc, DivAlloc, LogAlloc, IlogAlloc, GiveUp, Silent
<1>3. CASE LogReset(c) \/ MultFill(c)
  BY <1>0, <1>3 DEF LogReset, MultFill, Oops
<1>4. CASE LogHalf(c, "lower", "upper") \/ LogHalf(c, "upper", "move")
  BY <1>0, <1>4 DEF LogHalf, Oops, GiveUp
<1>5. CASE SplitAlloc(c) \/ SplitFill(c) \/ Use(c)
  BY <1>0, <1>5 DEF SplitAlloc, SplitFill, Use, NextTable, Oops, Silent
<1>6. CASE \/ GiveUpFree(c, Mult, "freemult", "freediv") \/ GiveUpFree(c, Div, "freediv", "nullmult")
           \/ GiveUpReset(c, Mult, "nullmult") \/ GiveUpReset(c, Div, "nulldiv")
  BY <1>0, <1>6 DEF GiveUpFree, GiveUpReset, Oops, Silent
<1> QED BY <1>1, <1>2, <1>3, <1>4, <1>5, <1>6 DEF Multiply

LEMMA AloneStep ==
  ASSUME Typed, NEW d \in Callers, Steps(d), Overlapping, SplitInv, CountInv, OverlapInv, AloneInv
  PROVE  AloneInv'
<1> SUFFICES ASSUME nomem' = {}, NEW c \in Callers, ~overlap'[c]
             PROVE  Alone(c)'
  BY DEF AloneInv
<1>0. pc \in [Callers -> Position] /\ out \in Outcomes /\ (~overlap[c] => Alone(c))
  BY OneMoves DEF Typed, Positions, AloneInv
<1>1. CASE c # d
  BY <1>0, <1>1, AloneOther
<1>2. CASE Call(c)
  <2>1. pc'[c] = "check" /\ out'[c] = "none"
    BY <1>0, <1>2 DEF Call, Go, Result, Outcomes
  <2> QED BY <2>1 DEF Alone, GivingUp, WithMult, WithDiv, WithLogs
<1>3. CASE c = d /\ Multiply(c)
  <2>1. pc[c] \notin Resting /\ pc'[c] \notin {"idle", "check"}
    BY <1>0, <1>3, MovesOn
  <2>2. ~overlap[c]
    BY <2>1, StillAlone
  <2>3. \A e \in Callers : e # c => pc[e] \notin Creating
    BY <2>1, <2>2 DEF OverlapInv
  <2> QED BY <1>0, <1>3, <2>2, <2>3, AloneSelf
<1> QED BY <1>1, <1>2, <1>3 DEF Steps
-----------------------------------------------------------------------------
(***************************************************************************)
(* Callers one after the other, with allocations that fail.                *)
(***************************************************************************)
LogsAre(m) == table[Log] = m /\ table[Ilog] = m
Missing == nomem \cap (Split \ {1})
Had(t) == table[t] \notin {"null", "freed"}

(* What the position of a caller says of the tables. *)
InOrder(c) ==
  /\ pc[c] \in WithMult \cup {"freemult"} => Had(Mult)
  /\ pc[c] \in WithDiv \cup {"freemult", "freediv"} => Had(Div)
  /\ pc[c] = "nulldiv" => table[Mult] = "null"
  /\ pc[c] = "log" => table[Log] = "null"
  /\ pc[c] \in {"ilog", "reset"} => table[Log] # "null"
  /\ pc[c] = "reset" => table[Ilog] # "null"
  /\ pc[c] = "lower" => LogsAre("reset")
  /\ pc[c] = "upper" => LogsAre("lower")
  /\ pc[c] \in {"move", "fill"} => LogsAre("right")
  /\ pc[c] \in {"reset", "lower", "upper", "move"} => off = 0
  /\ pc[c] = "fill" => off = 1
  /\ out[c] \in {"wrong", "freed", "oops"} => Missing # {}

InSplit(c) ==
  /\ pc[c] = "alloc" => \A t \in Split : t < n[c] => table[t] # "null"
  /\ pc[c] = "split" => \A t \in Split : table[t] # "null" /\ (t < n[c] => table[t] = "right")
  /\ pc[c] = "use" => table[1] # "null"

(* What the tables hold when the caller is not at work on them. *)
MultMade(c) ==
  pc[c] \notin WithMult \cup GivingUp /\ table[Mult] # "null" =>
    table[Mult] = "right" /\ table[Div] = "right"
LogMade(c) == pc[c] \notin WithLogs /\ table[Log] # "null" => LogsAre("right") /\ off = 1
SplitMade(c) ==
  pc[c] \notin {"alloc", "split"} /\ table[1] # "null" /\ Missing = {} =>
    \A t \in Split : table[t] = "right"

Facts(c) == InOrder(c) /\ InSplit(c) /\ MultMade(c) /\ LogMade(c) /\ SplitMade(c)

SerialFacts ==
  /\ \A c, d \in Callers : pc[c] \notin Resting /\ pc[d] \notin Resting => c = d
  /\ \A c \in Callers : (\A d \in Callers : d # c => pc[d] \in Resting) => Facts(c)
  /\ \A c \in Callers : out[c] \in {"wrong", "freed", "oops"} => Missing # {}
SerialInv == Serial => SerialFacts

LEMMA LogsOnly ==
  ASSUME Typed, NEW c \in Callers, Steps(c)
  PROVE  \/ SplitAlloc(c) \/ SplitFill(c)
         \/ (\A t \in Split : table'[t] = table[t]) /\ Missing' = Missing
<1> USE TableNames DEF Missing
<1>s. ASSUME NEW T, T \subseteq {Log, Ilog, Mult, Div}, Frame(T)
      PROVE  \A t \in Split : table'[t] = table[t]
  BY <1>s DEF Frame
<1>u. ASSUME NEW S, NEW R, S \cup R \subseteq {Log, Ilog, Mult, Div}, Undone(S, R)
      PROVE  \A t \in Split : table'[t] = table[t]
  BY <1>u DEF Undone
<1>1. CASE Call(c) \/ Check(c) \/ NeedMult(c) \/ NeedLogs(c) \/ IlogMove(c) \/ Use(c)
  BY <1>1 DEF Call, Check, NeedMult, NeedLogs, IlogMove, Use, Oops
<1>2. CASE MultAlloc(c)
  BY <1>s, <1>u, <1>2, MultAllocEffect DEF Obtained, Failed, NotHad
<1>3. CASE DivAlloc(c)
  BY <1>s, <1>u, <1>3, DivAllocEffect DEF Obtained, Failed, NotHad
<1>4. CASE LogAlloc(c)
  BY <1>s, <1>u, <1>4, LogAllocEffect DEF Obtained, GivenUp, NotHad
<1>5. CASE IlogAlloc(c)
  BY <1>s, <1>u, <1>5, IlogAllocEffect DEF Obtained, GivenUp, NotHad
<1>6. CASE LogReset(c)
  BY <1>s, <1>6, LogResetEffect DEF Crash
<1>7. ASSUME NEW half \in {"lower", "upper"}, NEW next \in {"upper", "move"}, LogHalf(c, half, next)
      PROVE  (\A t \in Split : table'[t] = table[t]) /\ Missing' = Missing
  BY <1>s, <1>7, LogHalfEffect DEF Crash
<1>8. CASE MultFill(c)
  BY <1>s, <1>8, MultFillEffect DEF Crash
<1>9. CASE GiveUpFree(c, Mult, "freemult", "freediv") \/ GiveUpFree(c, Div, "freediv", "nullmult")
  BY <1>u, <1>9, GiveUpFreeEffect DEF Crash
<1>10. CASE GiveUpReset(c, Mult, "nullmult") \/ GiveUpReset(c, Div, "nulldiv")
  BY <1>u, <1>10, GiveUpResetEffect
<1> QED BY <1>1, <1>2, <1>3, <1>4, <1>5, <1>6, <1>7, <1>8, <1>9, <1>10 DEF Steps, Multiply

(* The multiplication and logarithm tables, step by step.                  *)
LogOrder(c) == InOrder(c) /\ MultMade(c) /\ LogMade(c)

LEMMA LogOrderStep ==
  ASSUME Typed, NEW c \in Callers, Multiply(c), ~SplitAlloc(c), ~SplitFill(c), ~Use(c),
         LogOrder(c)
  PROVE  LogOrder(c)'
<1> USE TableNames DEF LogOrder, InOrder, MultMade, LogMade, LogsAre, Had, GivingUp, WithMult, WithDiv,
                       WithLogs
<1>0. pc \in [Callers -> Position] /\ out \in Outcomes
  BY DEF Typed, Positions
<1>m. Missing' = Missing
  BY LogsOnly DEF Steps
<1>f. ASSUME NEW t, NEW S, NEW R, Failed(c, t, S, R), Mult \in R, S \cup R \subseteq {Mult, Div},
             UNCHANGED off, table[Log] # "null" => LogsAre("right") /\ off = 1
      PROVE  LogOrder(c)'
  <2>1. pc'[c] = "returned" /\ out'[c] = "silent"
    BY <1>0, <1>f DEF Failed, Go, Result, Outcomes
  <2>2. table'[Mult] = "null" /\ table'[Log] = table[Log] /\ table'[Ilog] = table[Ilog]
    BY <1>f DEF Failed, Undone
  <2> QED BY <1>f, <2>1, <2>2
<1>g. ASSUME NEW t, NEW S, NEW R, GivenUp(c, t, S, R), Log \in R, S \cup R \subseteq {Log, Ilog},
             Had(Mult), Had(Div)
      PROVE  LogOrder(c)'
  <2>1. pc'[c] = "freemult" /\ UNCHANGED out
    BY <1>0, <1>g DEF GivenUp, Go
  <2>2. table'[Log] = "null" /\ table'[Mult] = table[Mult] /\ table'[Div] = table[Div]
    BY <1>g DEF GivenUp, Undone
  <2> QED BY <1>g, <1>m, <2>1, <2>2
<1>2. CASE Check(c) \/ NeedMult(c)
  <2>1. /\ UNCHANGED <<table, off, out>> /\ pc[c] \in {"check", "mult"}
        /\ pc'[c] \in {"use", "mult", "multalloc", "alloc"}
    BY <1>0, <1>2 DEF Check, NeedMult, Go, At
  <2> QED BY <1>m, <2>1
<1>3. CASE MultAlloc(c)
  <2>1. pc[c] = "multalloc" /\ UNCHANGED off
    BY <1>3 DEF MultAlloc, At
  <2>2. CASE Go(c, "div") /\ Obtained(c, Mult)
    BY <1>0, <1>m, <2>1, <2>2 DEF Frame, Go, Obtained
  <2>3. CASE Failed(c, Mult, {}, {Mult})
    BY <1>f, <2>1, <2>3
  <2> QED BY <1>3, <2>2, <2>3, MultAllocEffect
<1>4. CASE DivAlloc(c)
  <2>1. pc[c] = "div" /\ UNCHANGED off
    BY <1>4 DEF DivAlloc, At
  <2>2. CASE Go(c, "logs") /\ Obtained(c, Div)
    BY <1>0, <1>m, <2>1, <2>2 DEF Frame, Go, Obtained
  <2>3. CASE Failed(c, Div, {Mult}, {Div, Mult})
    BY <1>f, <2>1, <2>3
  <2> QED BY <1>4, <2>2, <2>3, DivAllocEffect
<1>5. CASE NeedLogs(c)
  <2>1. /\ UNCHANGED <<table, out, off>> /\ pc[c] = "logs"
        /\ pc'[c] = (IF table[Log] = "null" THEN "log" ELSE "fill")
    BY <1>0, <1>5 DEF NeedLogs, Go, At
  <2> QED BY <1>m, <2>1
<1>6. CASE LogAlloc(c)
  <2>1. pc[c] = "log" /\ UNCHANGED off
    BY <1>6 DEF LogAlloc, At
  <2>2. CASE Go(c, "ilog") /\ Obtained(c, Log)
    BY <1>0, <1>m, <2>1, <2>2 DEF Frame, Go, Obtained
  <2>3. CASE GivenUp(c, Log, {}, {Log})
    BY <1>g, <2>1, <2>3
  <2> QED BY <1>6, <2>2, <2>3, LogAllocEffect
<1>7. CASE IlogAlloc(c)
  <2>1. pc[c] = "ilog"
    BY <1>7 DEF IlogAlloc, At
  <2>2. CASE Go(c, "reset") /\ Obtained(c, Ilog) /\ off' = 0
    BY <1>0, <1>m, <2>1, <2>2 DEF Frame, Go, Obtained
  <2>3. CASE GivenUp(c, Ilog, {Log}, {Ilog, Log})
    BY <1>g, <2>1, <2>3
  <2> QED BY <1>7, <2>2, <2>3, IlogAllocEffect
<1>8. CASE LogReset(c)
  <2>1. pc[c] = "reset" /\ ~NoLogs
    BY <1>8 DEF LogReset, At, NoLogs
  <2>2. /\ Go(c, "lower") /\ UNCHANGED <<off, out>> /\ Frame({Log, Ilog})
        /\ table'[Log] = "reset" /\ table'[Ilog] = "reset"
    BY <1>8, <2>1, LogResetEffect
  <2>3. pc'[c] = "lower"
    BY <1>0, <2>2 DEF Go
  <2> QED BY <1>m, <2>1, <2>2, <2>3 DEF Frame
<1>9. CASE LogHalf(c, "lower", "upper")
  <2>1. pc[c] = "lower" /\ LogsAre("reset") /\ ~NoLogs
    BY <1>9 DEF LogHalf, At, NoLogs
  <2>2. /\ Go(c, "upper") /\ UNCHANGED <<off, out>> /\ Frame({Log, Ilog})
        /\ table'[Log] = Added("lower", "reset") /\ table'[Ilog] = Added("lower", "reset")
    BY <1>9, <2>1, LogHalfEffect DEF Used
  <2>3. pc'[c] = "upper" /\ LogsAre("lower")'
    BY <1>0, <2>2 DEF Go, Added
  <2> QED BY <1>m, <2>1, <2>2, <2>3 DEF Frame
<1>10. CASE LogHalf(c, "upper", "move")
  <2>1. pc[c] = "upper" /\ LogsAre("lower") /\ ~NoLogs
    BY <1>10 DEF LogHalf, At, NoLogs
  <2>2. /\ Go(c, "move") /\ UNCHANGED <<off, out>> /\ Frame({Log, Ilog})
        /\ table'[Log] = Added("upper", "lower") /\ table'[Ilog] = Added("upper", "lower")
    BY <1>10, <2>1, LogHalfEffect DEF Used
  <2>3. pc'[c] = "move" /\ LogsAre("right")'
    BY <1>0, <2>2 DEF Go, Added
  <2> QED BY <1>m, <2>1, <2>2, <2>3 DEF Frame
<1>11. CASE IlogMove(c)
  <2>1. UNCHANGED <<table, out>> /\ pc[c] = "move" /\ pc'[c] = "fill" /\ off' = off + 1
    BY <1>0, <1>11 DEF IlogMove, Go, At
  <2> QED BY <1>m, <2>1
<1>12. CASE MultFill(c)
  <2>1. pc[c] = "fill" /\ Had(Mult) /\ Had(Div) /\ LogsAre("right") /\ off = 1
    BY <1>12 DEF MultFill, At
  <2>2. /\ UNCHANGED <<off, out>> /\ Go(c, "alloc") /\ Frame({Mult, Div})
        /\ table'[Mult] = "right" /\ table'[Div] = "right"
    BY <1>12, <2>1, MultFillEffect DEF LogsRight
  <2>3. pc'[c] = "alloc"
    BY <1>0, <2>2 DEF Go
  <2> QED BY <1>m, <2>1, <2>2, <2>3 DEF Frame
<1>13. CASE GiveUpFree(c, Mult, "freemult", "freediv")
  <2>1. pc[c] = "freemult"
    BY <1>13 DEF GiveUpFree, At
  <2>2. Undone({Mult}, {}) /\ Go(c, "freediv") /\ UNCHANGED <<off, out>>
    BY <1>13, <2>1, GiveUpFreeEffect
  <2>3. pc'[c] = "freediv"
    BY <1>0, <2>2 DEF Go
  <2>4. \A x \in {Log, Ilog, Div} : table'[x] = table[x]
    BY <2>2 DEF Undone
  <2> QED BY <1>m, <2>1, <2>2, <2>3, <2>4
<1>14. CASE GiveUpFree(c, Div, "freediv", "nullmult")
  <2>1. pc[c] = "freediv"
    BY <1>14 DEF GiveUpFree, At
  <2>2. Undone({Div}, {}) /\ Go(c, "nullmult") /\ UNCHANGED <<off, out>>
    BY <1>14, <2>1, GiveUpFreeEffect
  <2>3. pc'[c] = "nullmult"
    BY <1>0, <2>2 DEF Go
  <2>4. \A x \in {Log, Ilog} : table'[x] = table[x]
    BY <2>2 DEF Undone
  <2> QED BY <1>m, <2>1, <2>2, <2>3, <2>4
<1>15. CASE GiveUpReset(c, Mult, "nullmult")
  <2>1. pc[c] = "nullmult"
    BY <1>15 DEF GiveUpReset, At
  <2>2. Undone({}, {Mult}) /\ Go(c, "nulldiv") /\ UNCHANGED <<off, out>>
    BY <1>15, GiveUpResetEffect
  <2>3. pc'[c] = "nulldiv"
    BY <1>0, <2>2 DEF Go
  <2>4. table'[Mult] = "null" /\ \A x \in {Log, Ilog} : table'[x] = table[x]
    BY <2>2 DEF Undone
  <2> QED BY <1>m, <2>1, <2>2, <2>3, <2>4
<1>16. CASE GiveUpReset(c, Div, "nulldiv")
  <2>1. pc[c] = "nulldiv"
    BY <1>16 DEF GiveUpReset, At
  <2>2. Undone({}, {Div}) /\ Go(c, "returned") /\ Result(c, "silent") /\ UNCHANGED off
    BY <1>16, GiveUpResetEffect
  <2>3. pc'[c] = "returned" /\ out'[c] = "silent"
    BY <1>0, <2>2 DEF Go, Result, Outcomes
  <2>4. \A x \in {Log, Ilog, Mult} : table'[x] = table[x]
    BY <2>2 DEF Undone
  <2> QED BY <2>1, <2>2, <2>3, <2>4
<1> QED BY <1>2, <1>3, <1>4, <1>5, <1>6, <1>7, <1>8, <1>9, <1>10, <1>11, <1>12, <1>13, <1>14,
           <1>15, <1>16 DEF Multiply

(* The split tables, step by step.                                         *)
LEMMA SplitOrderStep ==
  ASSUME Typed, CountInv, NEW c \in Callers, Multiply(c), ~SplitAlloc(c), ~SplitFill(c), ~Use(c),
         InSplit(c), SplitMade(c)
  PROVE  InSplit(c)' /\ SplitMade(c)'
<1> USE TableNames DEF Go, At
<1>0. /\ pc \in [Callers -> Position] /\ n \in [Callers -> Split]
      /\ \A t \in Split : t \in Nat /\ t >= 1
  BY DEF Typed, Positions, Split
<1>1. Missing' = Missing /\ \A t \in Split : table'[t] = table[t]
  BY LogsOnly DEF Steps
<1>2. /\ pc[c] \notin {"alloc", "split"} /\ pc'[c] # "split"
      /\ pc'[c] = "use" => table[1] # "null"
      /\ pc'[c] = "alloc" => NeedMult(c) \/ MultFill(c)
  <2>1. CASE Check(c) \/ NeedMult(c) \/ NeedLogs(c) \/ IlogMove(c)
    BY <1>0, <2>1 DEF Check, Created, NeedMult, NeedLogs, IlogMove
  <2>2. CASE MultAlloc(c) \/ DivAlloc(c) \/ LogAlloc(c) \/ IlogAlloc(c)
    BY <1>0, <2>2 DEF MultAlloc, DivAlloc, LogAlloc, IlogAlloc, GiveUp, Silent
  <2>3. CASE LogReset(c) \/ MultFill(c)
    BY <1>0, <2>3 DEF LogReset, MultFill, Oops
  <2>4. CASE LogHalf(c, "lower", "upper") \/ LogHalf(c, "upper", "move")
    BY <1>0, <2>4 DEF LogHalf, Oops, GiveUp
  <2>5. CASE \/ GiveUpFree(c, Mult, "freemult", "freediv") \/ GiveUpFree(c, Div, "freediv", "nullmult")
             \/ GiveUpReset(c, Mult, "nullmult") \/ GiveUpReset(c, Div, "nulldiv")
    BY <1>0, <2>5 DEF GiveUpFree, GiveUpReset, Oops, Silent
  <2> QED BY <2>1, <2>2, <2>3, <2>4, <2>5 DEF Multiply
<1>3. pc'[c] = "alloc" => n'[c] = 1
  <2>1. NeedMult(c) => n'[c] = 1
    BY DEF NeedMult, CountInv, Unmoved, InMult
  <2>2. MultFill(c) => n'[c] = 1
    BY DEF MultFill, Oops, CountInv, Unmoved, InMult
  <2> QED BY <1>2, <2>1, <2>2
<1>4. InSplit(c)'
  <2>1. pc'[c] = "alloc" => \A t \in Split : ~(t < n'[c])
    BY <1>0, <1>3
  <2>2. pc'[c] = "use" => table'[1] # "null"
    BY <1>1, <1>2
  <2> QED BY <1>2, <2>1, <2>2 DEF InSplit
<1>5. SplitMade(c)'
  BY <1>1, <1>2 DEF SplitMade
<1> QED BY <1>4, <1>5

LEMMA SplitAllocFacts ==
  ASSUME Typed, NEW c \in Callers, SplitAlloc(c), Facts(c)
  PROVE  Facts(c)'
<1> USE TableNames
<1> DEFINE u == n[c]
<1>0. /\ pc \in [Callers -> Position] /\ n \in [Callers -> Split] /\ out \in Outcomes
      /\ pc[c] = "alloc" /\ u \in Split /\ UNCHANGED off /\ NSplit \in Nat
      /\ \A t \in Split : t \in Int /\ 1 <= t /\ t <= NSplit
  BY DEF Typed, Positions, SplitAlloc, At, Split
<1>1. \A t \in Split : t < u => table[t] # "null"
  BY <1>0 DEF Facts, InSplit
<1>2. CASE NextTable(c, "alloc", "split") /\ Obtained(c, u)
  <2>1. \/ u < NSplit /\ n'[c] = u + 1 /\ pc'[c] = "alloc"
        \/ u = NSplit /\ n'[c] = 1 /\ pc'[c] = "split"
    BY <1>2, NextTableMoves
  <2>2. /\ table'[u] = "raw" /\ \A x \in Tables : x # u => table'[x] = table[x]
        /\ UNCHANGED <<out, nomem>>
    BY <1>2 DEF Obtained, Frame
  <2> HIDE DEF u
  <2>3. Missing' = Missing
    BY <2>2 DEF Missing
  <2>4. u \notin {Log, Ilog, Mult, Div}
    BY <1>0
  <2>5. InOrder(c)' /\ MultMade(c)' /\ LogMade(c)'
    BY <1>0, <2>1, <2>2, <2>3, <2>4 DEF Facts, InOrder, MultMade, LogMade, LogsAre, Had, GivingUp,
                                        WithMult, WithDiv, WithLogs
  <2>6. InSplit(c)' /\ SplitMade(c)'
    BY <1>0, <1>1, <2>1, <2>2 DEF InSplit, SplitMade
  <2> QED BY <2>5, <2>6 DEF Facts
<1>3. CASE Failed(c, u, 1..(u - 1), {u})
  <2>1. /\ pc'[c] = "returned" /\ out'[c] = "silent"
        /\ nomem' = nomem \cup {u}
        /\ Undone(1..(u - 1), {u})
    BY <1>0, <1>3 DEF Failed, NotHad, Go, Result, Outcomes
  <2> HIDE DEF u
  <2>2. \A x \in {Log, Ilog, Mult, Div} : x # u /\ x \notin 1..(u - 1)
    BY <1>0 DEF Log, Ilog, Mult, Div
  <2>3. \A x \in {Log, Ilog, Mult, Div} : table'[x] = table[x]
    BY <2>1, <2>2 DEF Undone
  <2>4. InOrder(c)' /\ MultMade(c)' /\ LogMade(c)'
    BY <1>0, <2>1, <2>3 DEF Facts, InOrder, MultMade, LogMade, LogsAre, Had, GivingUp,
                            WithMult, WithDiv, WithLogs
  <2>5. table'[1] = "null" \/ Missing' # {}
    BY <1>0, <2>1 DEF Missing, Undone
  <2> QED BY <2>1, <2>4, <2>5 DEF Facts, InSplit, SplitMade
<1> QED BY <1>2, <1>3, SplitAllocEffect

LEMMA SplitFillFacts ==
  ASSUME Typed, NEW c \in Callers, SplitFill(c), Facts(c)
  PROVE  Facts(c)'
<1> USE TableNames
<1> DEFINE u == n[c]
<1>0. /\ pc \in [Callers -> Position] /\ n \in [Callers -> Split] /\ out \in Outcomes
      /\ pc[c] = "split" /\ u \in Split /\ NSplit \in Nat
      /\ \A t \in Split : t \in Int /\ 1 <= t /\ t <= NSplit
  BY DEF Typed, Positions, SplitFill, At, Split
<1>1. \A t \in Split : table[t] # "null" /\ (t < u => table[t] = "right")
  BY <1>0 DEF Facts, InSplit
<1>2. /\ NextTable(c, "split", "use") /\ table'[u] = "right" /\ Frame({u})
      /\ UNCHANGED <<off, out, nomem>>
  BY <1>0, <1>1, SplitFillEffect
<1>3. \/ u < NSplit /\ n'[c] = u + 1 /\ pc'[c] = "split"
      \/ u = NSplit /\ n'[c] = 1 /\ pc'[c] = "use"
  BY <1>2, NextTableMoves
<1> HIDE DEF u
<1>4. u \notin {Log, Ilog, Mult, Div} /\ \A x \in Tables : x # u => table'[x] = table[x]
  BY <1>0, <1>2 DEF Frame
<1>5. Missing' = Missing
  BY <1>2 DEF Missing
<1>6. InOrder(c)' /\ MultMade(c)' /\ LogMade(c)'
  BY <1>0, <1>2, <1>3, <1>4, <1>5 DEF Facts, InOrder, MultMade, LogMade, LogsAre, Had, GivingUp,
                                      WithMult, WithDiv, WithLogs
<1>7. InSplit(c)' /\ SplitMade(c)'
  BY <1>0, <1>1, <1>2, <1>3, <1>4 DEF InSplit, SplitMade
<1> QED BY <1>6, <1>7 DEF Facts

LEMMA UseFacts ==
  ASSUME Typed, NEW c \in Callers, Use(c), Facts(c)
  PROVE  Facts(c)'
<1> USE TableNames
<1>0. /\ pc \in [Callers -> Position] /\ n \in [Callers -> Split] /\ out \in Outcomes
      /\ pc[c] = "use" /\ n[c] \in Split
  BY DEF Typed, Positions, Use, At
<1>1. UNCHANGED <<table, off, nomem>> /\ pc'[c] \in {"use", "returned"}
  BY <1>0 DEF Use, Oops, NextTable, Go
<1>2. UNCHANGED table /\ Missing' = Missing
  BY <1>1 DEF Missing
<1>3. out'[c] \in {"wrong", "freed", "oops"} => Missing # {}
  <2> SUFFICES ASSUME Missing = {} PROVE out'[c] \notin {"wrong", "freed", "oops"}
    OBVIOUS
  <2>1. table[n[c]] = "right"
    BY <1>0 DEF Facts, InSplit, SplitMade
  <2>2. out' = [out EXCEPT ![c] = IF @ = "none" THEN "right" ELSE @]
    BY <2>1 DEF Use
  <2>3. out[c] \notin {"wrong", "freed", "oops"}
    BY DEF Facts, InOrder
  <2> QED BY <1>0, <2>2, <2>3 DEF Outcomes
<1>4. InOrder(c)' /\ MultMade(c)' /\ LogMade(c)'
  BY <1>0, <1>1, <1>2, <1>3 DEF Facts, InOrder, MultMade, LogMade, LogsAre, Had, GivingUp,
                                WithMult, WithDiv, WithLogs
<1>5. InSplit(c)' /\ SplitMade(c)'
  BY <1>0, <1>1, <1>2 DEF Facts, InSplit, SplitMade
<1> QED BY <1>4, <1>5 DEF Facts

LEMMA CallFacts ==
  ASSUME Typed, NEW c \in Callers, Call(c), Facts(c)
  PROVE  Facts(c)'
<1>0. /\ pc \in [Callers -> Position] /\ out \in Outcomes
      /\ pc'[c] = "check" /\ out'[c] = "none" /\ pc[c] \in Resting
      /\ UNCHANGED <<table, off, nomem>>
  BY DEF Typed, Positions, Outcomes, Call, Go, Result, Resting
<1> QED BY <1>0 DEF Facts, InOrder, InSplit, MultMade, LogMade, SplitMade, LogsAre, Had, GivingUp,
                    Missing, WithMult, WithDiv, WithLogs, Resting

LEMMA FactsStep ==
  ASSUME Typed, CountInv, NEW c \in Callers, Steps(c), Facts(c)
  PROVE  Facts(c)'
<1>1. CASE Multiply(c) /\ ~SplitAlloc(c) /\ ~SplitFill(c) /\ ~Use(c)
  <2>1. InOrder(c)' /\ MultMade(c)' /\ LogMade(c)'
    BY <1>1, LogOrderStep DEF Facts, LogOrder
  <2>2. InSplit(c)' /\ SplitMade(c)'
    BY <1>1, SplitOrderStep DEF Facts
  <2> QED BY <2>1, <2>2 DEF Facts
<1> QED BY <1>1, SplitAllocFacts, SplitFillFacts, UseFacts, CallFacts DEF Steps

LEMMA SerialStep ==
  ASSUME Typed, CountInv, NEW c \in Callers, Steps(c), Serial, SerialFacts
  PROVE  SerialFacts'
<1>0. /\ pc \in [Callers -> Position] /\ out \in Outcomes
      /\ nomem \subseteq nomem'
      /\ \A d \in Callers : d # c => pc'[d] = pc[d] /\ out'[d] = out[d]
  BY OneMoves DEF Typed, Positions, Outcomes
<1>1. \A d \in Callers : d # c => pc[d] \in Resting
  <2>1. CASE Call(c)
    BY <2>1 DEF Call, Resting
  <2>2. CASE Multiply(c)
    <3>1. pc[c] \notin Resting
      BY <2>2, MovesOn
    <3> QED BY <3>1 DEF SerialFacts
  <2> QED BY <2>1, <2>2 DEF Steps
<1>2. Facts(c)'
  BY <1>1, FactsStep DEF SerialFacts
<1>3. \A d \in Callers : out'[d] \in {"wrong", "freed", "oops"} => Missing' # {}
  <2>1. Missing \subseteq Missing'
    BY <1>0 DEF Missing
  <2> QED BY <1>0, <1>2, <2>1 DEF SerialFacts, Facts, InOrder
<1>4. \A d, e \in Callers : pc'[d] \notin Resting /\ pc'[e] \notin Resting => d = e
  BY <1>0, <1>1
<1>5. ASSUME NEW d \in Callers, \A e \in Callers : e # d => pc'[e] \in Resting
      PROVE  Facts(d)'
  <2>1. CASE d = c
    BY <1>2, <2>1
  <2>2. CASE d # c
    <3>1. pc'[c] \in Resting /\ pc'[d] \in Resting
      BY <1>0, <1>1, <1>5, <2>2
    <3>2. \A e \in {c, d} : /\ pc'[e] \notin WithMult \cup GivingUp /\ pc'[e] \notin WithLogs
                            /\ pc'[e] \notin WithDiv
      BY <3>1 DEF Resting, GivingUp, WithMult, WithDiv, WithLogs
    <3>3. InOrder(d)' /\ InSplit(d)'
      BY <1>3, <3>1, <3>2 DEF InOrder, InSplit, Resting, GivingUp
    <3>4. MultMade(d)' /\ LogMade(d)' /\ SplitMade(d)'
      BY <1>2, <3>1, <3>2 DEF Facts, MultMade, LogMade, SplitMade, Resting
    <3> QED BY <3>3, <3>4 DEF Facts
  <2> QED BY <2>1, <2>2
<1> QED BY <1>3, <1>4, <1>5 DEF SerialFacts
-----------------------------------------------------------------------------
(***************************************************************************)
(* The inductive invariant and the theorems.                               *)
(***************************************************************************)
TablesInv == TypeInv /\ CountInv /\ SplitInv /\ OverlapInv /\ AloneInv /\ SerialInv

LEMMA TablesInit == Init => TablesInv
<1> SUFFICES ASSUME Init PROVE TablesInv
  OBVIOUS
<1> USE TableNames
<1>1. TypeInv
  BY TypesInit DEF TypeInv
<1>2. /\ \A c \in Callers : pc[c] = "idle" /\ n[c] = 1 /\ out[c] = "none"
      /\ \A t \in Tables : table[t] = "null"
  BY DEF Init
<1>3. CountInv /\ OverlapInv /\ SplitInv
  BY <1>2 DEF CountInv, Unmoved, InMult, OverlapInv, Resting, SplitInv, SplitFacts, LogFacts
<1>4. AloneInv
  BY <1>2 DEF AloneInv, Alone, Creating, InMult, GivingUp, WithMult, WithDiv, WithLogs
<1>5. SerialInv
  BY <1>2 DEF SerialInv, SerialFacts, Facts, InOrder, InSplit, MultMade, LogMade, SplitMade,
              Resting, GivingUp, WithMult, WithDiv, WithLogs
<1> QED BY <1>1, <1>3, <1>4, <1>5 DEF TablesInv

LEMMA TablesStep == TablesInv /\ [Next]_vars => TablesInv'
<1> SUFFICES ASSUME TablesInv, [Next]_vars PROVE TablesInv'
  OBVIOUS
<1>1. TypeInv'
  BY TypeStep DEF TablesInv
<1>2. CASE UNCHANGED vars
  <2>1. UNCHANGED table /\ Missing' = Missing
    BY <1>2 DEF vars, Missing
  <2>2. CountInv' /\ OverlapInv'
    BY <1>2 DEF vars, TablesInv, CountInv, OverlapInv
  <2>3. SplitInv'
    BY <1>2, <2>1 DEF vars, TablesInv, SplitInv, SplitFacts, LogFacts, Comes, Will
  <2>4. AloneInv'
    BY <1>2, <2>1 DEF vars, TablesInv, AloneInv, Alone
  <2>5. SerialInv'
    <3>1. \A c \in Callers : Facts(c) => Facts(c)'
      BY <1>2, <2>1 DEF vars, Facts, InOrder, InSplit, MultMade, LogMade, SplitMade, LogsAre, Had
    <3> QED BY <1>2, <2>1, <3>1 DEF vars, TablesInv, SerialInv, SerialFacts, Serial
  <2> QED BY <1>1, <2>2, <2>3, <2>4, <2>5 DEF TablesInv
<1>3. ASSUME NEW c \in Callers, Steps(c), Overlapping, UNCHANGED environment
      PROVE  TablesInv'
  <2>1. /\ Typed /\ CountInv /\ SplitInv /\ OverlapInv /\ AloneInv /\ SerialInv
    BY DEF TablesInv, TypeInv
  <2>2. CountInv' /\ SplitInv' /\ OverlapInv' /\ AloneInv'
    BY <1>3, <2>1, CountStep, SplitStep, OverlapStep, AloneStep
  <2>3. SerialInv'
    BY <1>3, <2>1, SerialStep DEF SerialInv, Serial
  <2> QED BY <1>1, <2>2, <2>3 DEF TablesInv
<1> QED BY <1>2, <1>3, StepCases DEF Steps

LEMMA InvComesRight == TablesInv => TablesComeRight
<1> SUFFICES ASSUME TablesInv PROVE TablesComeRight
  OBVIOUS
<1> USE TableNames
<1>1. TypeOK
  BY TypedIsTypeOK DEF TablesInv
<1>2. ASSUME Quiet, nomem = {}, Created, NEW t \in Split
      PROVE  table[t] = "right"
  <2>1. SplitFacts /\ table[1] # "null"
    BY <1>2 DEF TablesInv, SplitInv, Created
  <2>2. \A c \in Callers : pc[c] \notin {"alloc", "split"}
    BY <1>2 DEF Quiet, Creating
  <2>3. table[t] # "null"
    BY <2>1, <2>2 DEF SplitFacts, Comes
  <2> QED BY <2>1, <2>2, <2>3 DEF SplitFacts, Will
<1>3. \A c \in Callers : pc[c] = "returned" /\ ~overlap[c] /\ nomem = {} => out[c] = "right"
  BY DEF TablesInv, AloneInv, Alone
<1> QED BY <1>1, <1>2, <1>3 DEF TablesComeRight

LEMMA InvContained == TablesInv => FailuresContained
<1> SUFFICES ASSUME TablesInv, Serial PROVE FailuresContained
  BY DEF FailuresContained
<1> USE TableNames
<1>0. SerialFacts
  BY DEF TablesInv, SerialInv
<1>1. ASSUME Quiet
      PROVE  /\ table[Mult] # "null" => table[Mult] = "right" /\ table[Div] = "right"
             /\ table[Log] # "null" => LogsRight
  <2>1. PICK c \in Callers : \A d \in Callers : d # c => pc[d] \in Resting
    <3>1. CASE \E c \in Callers : pc[c] \notin Resting
      BY <1>0, <3>1 DEF SerialFacts
    <3> QED BY <3>1
  <2>2. MultMade(c) /\ LogMade(c)
    BY <1>0, <2>1 DEF SerialFacts, Facts
  <2>3. pc[c] \notin WithMult \cup GivingUp /\ pc[c] \notin WithLogs
    BY <1>1 DEF Quiet, Creating, InMult, GivingUp, WithMult, WithDiv, WithLogs
  <2> QED BY <1>0, <2>2, <2>3 DEF MultMade, LogMade, LogsAre, LogsRight
<1>3. \A c \in Callers : out[c] \in {"wrong", "freed", "oops"} => nomem \cap (Split \ {1}) # {}
  BY <1>0 DEF SerialFacts, Missing
<1> QED BY <1>1, <1>3 DEF FailuresContained

(* However many callers race to build the split tables, they are complete  *)
(* when the last creation is through, and a multiplication beside which    *)
(* nobody creates tables is right, unless memory ran out (galois.c:705,    *)
(* 776-803).                                                               *)
THEOREM RacesComeRight == Spec => []TablesComeRight
<1>1. TablesInv => TablesComeRight
  BY InvComesRight
<1> QED BY TablesInit, TablesStep, <1>1, PTL DEF Spec

(* With one caller after the other, a creation that fails leaves no half-made  *)
(* logarithm or multiplication table behind, and only a split table after the  *)
(* first that could not be had leads to a wrong product (galois.c:167-257,     *)
(* 782-786).                                                                   *)
THEOREM FailuresAreContained == Spec => []FailuresContained
<1>1. TablesInv => FailuresContained
  BY InvContained
<1> QED BY TablesInit, TablesStep, <1>1, PTL DEF Spec
=============================================================================
