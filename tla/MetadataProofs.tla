-------------------------- MODULE MetadataProofs --------------------------
(***************************************************************************)
(* Theorems about Metadata, for every ratio checkRatio accepts, whatever   *)
(* memory holds and whatever the devices do.                               *)
(***************************************************************************)
EXTENDS Metadata, FiniteSetTheorems, TLAPS

USE MetadataAssumption

(* Marking keeps a list of ids within the array. *)
LEMMA MarkTyped ==
  ASSUME NEW er \in Seq(Nat), Len(er) <= Size, NEW x \in Nat,
         num_entropy \in Nat, num_carrier \in Nat
  PROVE  Mark(er, x) \in Seq(Nat) /\ Len(Mark(er, x)) <= Size
BY DEF Mark, Size

(* Marking either adds the id to those listed or makes it the only one. *)
LEMMA MarkLists ==
  ASSUME NEW er \in Seq(Nat), NEW x \in Nat, num_entropy \in Nat, num_carrier \in Nat
  PROVE  /\ ListedIds(Mark(er, x)) \subseteq ListedIds(er) \cup {x}
         /\ x \in ListedIds(Mark(er, x))
         /\ Len(er) < Size => /\ ListedIds(Mark(er, x)) = ListedIds(er) \cup {x}
                              /\ Len(Mark(er, x)) = Len(er) + 1
         /\ Len(er) >= Size => ListedIds(Mark(er, x)) = {x}
<1>1. CASE Len(er) < Size
  <2>1. Mark(er, x) = Append(er, x) /\ Len(Append(er, x)) = Len(er) + 1
    BY <1>1 DEF Mark
  <2>2. \A n \in 1 .. Len(er) : Append(er, x)[n] = er[n]
    OBVIOUS
  <2>3. Append(er, x)[Len(er) + 1] = x
    OBVIOUS
  <2>4. ListedIds(Append(er, x)) = ListedIds(er) \cup {x}
    BY <2>2, <2>3 DEF ListedIds
  <2> QED BY <1>1, <2>1, <2>4 DEF Size
<1>2. CASE ~(Len(er) < Size)
  <2>1. Mark(er, x) = <<x>>
    BY <1>2 DEF Mark
  <2>2. ListedIds(<<x>>) = {x}
    BY DEF ListedIds
  <2> QED BY <1>2, <2>1, <2>2 DEF Size
<1> QED BY <1>1, <1>2

LEMMA ContextTyped ==
  ASSUME TypeOK
  PROVE  num_entropy \in Nat /\ num_carrier \in Nat /\ num_carrier < num_entropy + 1
BY DEF TypeOK

LEMMA TypeInit == Init => TypeOK
<1> SUFFICES ASSUME Init PROVE TypeOK
  OBVIOUS
<1>1. PICK r \in Ratios : num_entropy = r[1] /\ num_carrier = r[2]
  BY DEF Init
<1>2. r \in Nat \X Nat
  BY DEF MetadataAssumption
<1>3. r = <<num_entropy, num_carrier>> /\ num_entropy \in Nat /\ num_carrier \in Nat
  BY <1>1, <1>2
<1>4. <<1>> \in Seq(Nat) /\ Len(<<1>>) <= Size
  BY <1>3 DEF Size
<1> QED BY <1>1, <1>3, <1>4 DEF MetadataAssumption, Init, TypeOK, InitialList, Errors, Size

LEMMA TypeStep == TypeOK /\ [Next]_vars => TypeOK'
<1> SUFFICES ASSUME TypeOK, [Next]_vars PROVE TypeOK'
  OBVIOUS
<1>0. num_entropy \in Nat /\ num_carrier \in Nat /\ num_carrier < num_entropy + 1
  BY ContextTyped
<1>a. <<1>> \in Seq(Nat) /\ Len(<<1>>) <= Size
  BY <1>0 DEF Size
<1>1. ASSUME NEW c \in {"init", "check", "update"}, Start(c) PROVE TypeOK'
  BY <1>0, <1>a, <1>1 DEF MetadataAssumption, Start, At, TypeOK, InitialList, Errors, Size, context
<1>2. CASE InitBios
  BY <1>0, <1>a, <1>2 DEF InitBios, At, Return, Failed, TypeOK, InitialList, Errors, Size, context
<1>3. CASE ReadEntropy
  <2>1. CASE FirstCarrier /\ UNCHANGED <<ret, loaded>>
    <3>1. j' \in Nat /\ pc' \in {"mark", "verify"}
      BY <1>0, <2>1 DEF FirstCarrier, FirstMark
    <3> QED BY <1>3, <2>1, <3>1 DEF ReadEntropy, TypeOK, Size, context
  <2>2. CASE Return("EIO") /\ UNCHANGED j
    BY <1>3, <2>2 DEF ReadEntropy, Return, Failed, TypeOK, Errors, Size, context
  <2> QED BY <1>3, <2>1, <2>2 DEF ReadEntropy
<1>4. CASE MarkCarrier
  <2>1. erasures' \in Seq(Nat) /\ Len(erasures') <= Size
    BY <1>0, <1>4, MarkTyped DEF MarkCarrier, Marked, TypeOK
  <2> QED BY <1>0, <1>4, <2>1 DEF MarkCarrier, TypeOK, context, Size
<1>5. CASE ReadCarrier
  BY <1>5 DEF ReadCarrier, Outcomes, At, Return, Failed, TypeOK, Errors, Size, context
<1>6. CASE DecodeAccepted
  BY <1>6 DEF DecodeAccepted, TypeOK, Errors, Size, context
<1>7. CASE DecodeRefused
  <2>1. erasures' \in Seq(Nat) /\ Len(erasures') <= Size
    BY <1>0, <1>7, MarkTyped DEF DecodeRefused, TypeOK
  <2> QED BY <1>0, <1>7, <2>1 DEF DecodeRefused, FirstMark, TypeOK, Errors, context, Size
<1>8. CASE ExhaustedIter \/ StackOops
  BY <1>8 DEF ExhaustedIter, StackOops, Halt, TypeOK, Size, context
<1>9. CASE KeepHead \/ BadBlock
  BY <1>9 DEF KeepHead, BadBlock, Return, Failed, TypeOK, Errors, Size, context
<1>10. CASE NewHead
  BY <1>10 DEF NewHead, Formatted, Blocks, TypeOK, Size, context
<1>11. CASE WriteHead
  BY <1>11 DEF WriteHead, Outcomes, Return, Failed, TypeOK, Errors, Size, context
<1>12. CASE Check
  BY <1>12 DEF Check, CheckResult, Continue, Return, Failed, TypeOK, Errors, Size, context
<1>13. CASE Update \/ UpdateNext \/ UpdateEnd
  BY <1>13 DEF Update, Updated, UpdateNext, UpdateEnd, TypeOK, Errors, Size, context
<1>14. CASE Store
  BY <1>14 DEF Store, WriteBack, Outcomes, Return, Failed, TypeOK, Errors, Size, context
<1>15. CASE Link
  <2>1. page' \in Blocks
    BY <1>15 DEF Link, Linked, Blocks, TypeOK
  <2> QED BY <1>15, <2>1 DEF Link, WriteBack, Outcomes, Return, Failed, TypeOK, Errors, Size, context
<1>16. CASE UNCHANGED vars
  BY <1>16 DEF vars, context, TypeOK, Size
<1> QED BY <1>1, <1>2, <1>3, <1>4, <1>5, <1>6, <1>7, <1>8, <1>9, <1>10, <1>11, <1>12, <1>13,
           <1>14, <1>15, <1>16 DEF Next, Step

(* Every variable keeps its type and mio->erasures stays in its array.     *)
THEOREM MetadataTyped == Spec => []TypeOK
BY TypeInit, TypeStep, PTL DEF Spec
-----------------------------------------------------------------------------
LEMMA ListedFinite ==
  ASSUME NEW er \in Seq(Nat)
  PROVE  IsFiniteSet(ListedIds(er))
<1>1. er \in Surjection(1 .. Len(er), ListedIds(er))
  BY DEF ListedIds, Surjection
<1> QED BY <1>1, FS_Interval, FS_Surjection

(* the last entropy block's id and those of the carrier blocks *)
Full == num_entropy .. LastMark

(* A list that names all of them has M + 1 devices at least. *)
LEMMA FullTooMany ==
  ASSUME TypeOK, Full \subseteq ListedIds(erasures)
  PROVE  ~Decodable(erasures)
<1>1. num_entropy \in Nat /\ num_carrier \in Nat
  BY ContextTyped
<1>2. IsFiniteSet(ListedIds(erasures))
  BY ListedFinite DEF TypeOK
<1>3. Cardinality(Full) = num_carrier + 1
  <2>1. num_entropy \in Int /\ num_carrier + num_entropy \in Int
    BY <1>1
  <2> QED BY <1>1, <2>1, FS_Interval DEF Full, LastMark
<1>4. Cardinality(Full) <= Cardinality(ListedIds(erasures))
  BY <1>2, FS_Subset
<1>5. Cardinality(ListedIds(erasures)) \in Nat
  BY <1>2, FS_CardinalityType
<1> QED BY <1>1, <1>3, <1>4, <1>5 DEF Decodable

(* While the first carrier block is tried the list grows from its initial   *)
(* element without starting anew; afterwards it either still names all of   *)
(* Full or has lost the base block.                                         *)
Marking == pc \in {"mark", "read", "decode"}
Upto    == IF pc = "mark" THEN j - 1 ELSE LastMark

ListInv ==
  /\ pc = "entropy" => erasures = InitialList
  /\ Marking => i < num_carrier
  /\ pc = "mark" => FirstMark(i) <= j /\ j <= LastMark
  /\ Marking /\ i = 0 =>
       /\ Len(erasures) = 2 + Upto - num_entropy
       /\ num_entropy .. Upto \subseteq ListedIds(erasures)
       /\ 0 \notin ListedIds(erasures)
  /\ Marking /\ i # 0 => Full \subseteq ListedIds(erasures) \/ 0 \notin ListedIds(erasures)

LEMMA ListInit == Init => ListInv
BY DEF Init, ListInv, Marking

LEMMA ListKeeps ==
  ASSUME ListInv, UNCHANGED <<context, erasures, i, j>>, pc' = pc \/ (~Marking' /\ pc' # "entropy")
  PROVE  ListInv'
BY DEF ListInv, Marking, Upto, Full, LastMark, FirstMark, context

LEMMA ListMark ==
  ASSUME TypeOK, ListInv, MarkCarrier
  PROVE  ListInv'
<1>1. /\ num_entropy \in Nat /\ num_carrier \in Nat /\ num_carrier < num_entropy + 1
      /\ i \in Nat /\ j \in Nat /\ erasures \in Seq(Nat)
  BY ContextTyped DEF TypeOK
<1>2. /\ pc = "mark" /\ i < num_carrier /\ FirstMark(i) <= j /\ j <= LastMark
      /\ erasures' = Mark(erasures, j) /\ j' = j + 1 /\ i' = i
      /\ num_entropy' = num_entropy /\ num_carrier' = num_carrier
      /\ pc' = IF j < LastMark THEN "mark" ELSE "read"
  BY DEF MarkCarrier, At, Marked, ListInv, Marking, context
<1>3. num_entropy + i <= j /\ j <= num_entropy + num_carrier /\ j # 0
  BY <1>1, <1>2 DEF FirstMark, LastMark
<1>4. Marking' /\ pc' # "entropy" /\ Upto' = j
  BY <1>1, <1>2, <1>3 DEF Marking, Upto, LastMark
<1>5. pc' = "mark" => FirstMark(i)' <= j' /\ j' <= LastMark'
  BY <1>1, <1>2, <1>3 DEF FirstMark, LastMark
<1>6. CASE i = 0
  <2>1. /\ Len(erasures) = 1 + j - num_entropy
        /\ num_entropy .. j - 1 \subseteq ListedIds(erasures)
        /\ 0 \notin ListedIds(erasures)
    BY <1>1, <1>2, <1>6 DEF ListInv, Marking, Upto
  <2>2. Len(erasures) < Size
    BY <1>1, <1>2, <1>3, <1>6, <2>1 DEF Size
  <2>3. ListedIds(erasures') = ListedIds(erasures) \cup {j} /\ Len(erasures') = Len(erasures) + 1
    BY <1>1, <1>2, <2>2, MarkLists
  <2>4. num_entropy .. j \subseteq ListedIds(erasures')
    BY <1>1, <2>1, <2>3
  <2>5. /\ Len(erasures') = 2 + Upto' - num_entropy'
        /\ (num_entropy .. Upto)' \subseteq ListedIds(erasures')
        /\ 0 \notin ListedIds(erasures')
    BY <1>1, <1>2, <1>3, <1>4, <2>1, <2>3, <2>4
  <2> QED BY <1>2, <1>4, <1>5, <1>6, <2>5 DEF ListInv, ListedIds
<1>7. CASE i # 0
  <2>1. Full \subseteq ListedIds(erasures) \/ 0 \notin ListedIds(erasures)
    BY <1>2, <1>7 DEF ListInv, Marking
  <2>2. \/ ListedIds(erasures') = ListedIds(erasures) \cup {j}
        \/ ListedIds(erasures') = {j}
    BY <1>1, <1>2, MarkLists DEF Size
  <2>4. Full \subseteq ListedIds(erasures') \/ 0 \notin ListedIds(erasures')
    BY <1>3, <2>1, <2>2
  <2>3. Full' = Full
    BY <1>2 DEF Full, LastMark
  <2> QED BY <1>2, <1>4, <1>5, <1>7, <2>3, <2>4 DEF ListInv, ListedIds
<1> QED BY <1>6, <1>7

LEMMA ListRefused ==
  ASSUME TypeOK, ListInv, DecodeRefused
  PROVE  ListInv'
<1>1. /\ num_entropy \in Nat /\ num_carrier \in Nat /\ num_carrier < num_entropy + 1
      /\ i \in Nat /\ erasures \in Seq(Nat)
  BY ContextTyped DEF TypeOK
<1>2. /\ pc = "decode" /\ i < num_carrier
      /\ erasures' = Mark(erasures, i) /\ i' = i + 1 /\ j' = FirstMark(i + 1)
      /\ num_entropy' = num_entropy /\ num_carrier' = num_carrier
      /\ pc' = IF i + 1 < num_carrier THEN "mark" ELSE "verify"
  BY DEF DecodeRefused, At, ListInv, Marking, context
<1>3. CASE i + 1 < num_carrier
  <2>1. Full \subseteq ListedIds(erasures') \/ 0 \notin ListedIds(erasures')
    <3>1. CASE i = 0
      <4>1. Len(erasures) = 2 + num_carrier /\ Full \subseteq ListedIds(erasures)
        BY <1>1, <1>2, <3>1 DEF ListInv, Marking, Upto, LastMark, Full
      <4>2. Len(erasures) < Size
        BY <1>1, <1>3, <3>1, <4>1 DEF Size
      <4>3. ListedIds(erasures') = ListedIds(erasures) \cup {i}
        BY <1>1, <1>2, <4>2, MarkLists
      <4> QED BY <4>1, <4>3
    <3>2. CASE i # 0
      <4>1. Full \subseteq ListedIds(erasures) \/ 0 \notin ListedIds(erasures)
        BY <1>2, <3>2 DEF ListInv, Marking
      <4>2. \/ ListedIds(erasures') = ListedIds(erasures) \cup {i}
            \/ ListedIds(erasures') = {i}
        BY <1>1, <1>2, MarkLists DEF Size
      <4> QED BY <3>2, <4>1, <4>2
    <3> QED BY <3>1, <3>2
  <2>2. pc' = "mark" /\ i' # 0 /\ i' < num_carrier' /\ Full' = Full
    BY <1>1, <1>2, <1>3 DEF Full, LastMark
  <2>3. FirstMark(i)' <= j' /\ j' <= LastMark'
    BY <1>1, <1>2, <1>3 DEF FirstMark, LastMark
  <2> QED BY <2>1, <2>2, <2>3 DEF ListInv, ListedIds
<1>4. CASE ~(i + 1 < num_carrier)
  BY <1>2, <1>4 DEF ListInv, Marking
<1> QED BY <1>3, <1>4

LEMMA ListStep == TypeOK /\ ListInv /\ [Next]_vars => ListInv'
<1> SUFFICES ASSUME TypeOK, ListInv, [Next]_vars PROVE ListInv'
  OBVIOUS
<1>1. CASE \E c \in {"init", "check", "update"} : Start(c)
  BY <1>1 DEF Start, ListInv, Marking
<1>2. CASE InitBios
  BY <1>2 DEF InitBios, Return, ListInv, Marking
<1>3. CASE ReadEntropy
  <2>1. num_entropy \in Nat /\ num_carrier \in Nat /\ num_carrier < num_entropy + 1
    BY ContextTyped
  <2>2. pc = "entropy" /\ erasures = <<1>> /\ erasures' = <<1>> /\ i' = 0
        /\ num_entropy' = num_entropy /\ num_carrier' = num_carrier
    BY <1>3 DEF ReadEntropy, At, ListInv, InitialList, context
  <2>3. Len(<<1>>) = 1 /\ ListedIds(<<1>>) = {1}
    BY DEF ListedIds
  <2>4. CASE pc' = "mark"
    <3>1. j' = num_entropy /\ num_carrier > 0
      BY <1>3, <2>1, <2>4 DEF ReadEntropy, FirstCarrier, FirstMark, Return
    <3>2. num_entropy .. num_entropy - 1 = {}
      BY <2>1
    <3>3. ListedIds(erasures)' = {1} /\ Len(erasures') = 1
      BY <2>2, <2>3 DEF ListedIds
    <3> QED BY <2>1, <2>2, <2>4, <3>1, <3>2, <3>3 DEF ListInv, Marking, Upto, FirstMark, LastMark
  <2>5. CASE pc' # "mark"
    BY <1>3, <2>5 DEF ReadEntropy, FirstCarrier, Return, ListInv, Marking
  <2> QED BY <2>4, <2>5
<1>4. CASE MarkCarrier
  BY <1>4, ListMark
<1>5. CASE ReadCarrier
  BY <1>5 DEF ReadCarrier, At, Return, ListInv, Marking, Upto, Full, FirstMark, LastMark, ListedIds, context
<1>6. CASE DecodeRefused
  BY <1>6, ListRefused
<1>7. CASE DecodeAccepted
  BY <1>7, ListKeeps DEF DecodeAccepted, Marking
<1>8. CASE ExhaustedIter \/ StackOops
  BY <1>8, ListKeeps DEF ExhaustedIter, StackOops, Halt
<1>9. CASE KeepHead \/ NewHead \/ WriteHead \/ BadBlock
  BY <1>9, ListKeeps DEF KeepHead, NewHead, WriteHead, BadBlock, Return, Marking
<1>10. CASE Check
  BY <1>10, ListKeeps DEF Check, Continue, Return, Marking
<1>11. CASE Update \/ UpdateNext \/ UpdateEnd
  BY <1>11, ListKeeps DEF Update, UpdateNext, UpdateEnd, Marking
<1>12. CASE Store
  BY <1>12, ListKeeps DEF Store, Return, Marking
<1>13. CASE Link
  BY <1>13, ListKeeps DEF Link, Return, Marking
<1>14. CASE UNCHANGED vars
  BY <1>14, ListKeeps DEF vars
<1> QED BY <1>1, <1>2, <1>3, <1>4, <1>5, <1>6, <1>7, <1>8, <1>9, <1>10, <1>11, <1>12, <1>13,
           <1>14 DEF Next, Step

(* No decoding of a metadata block that jerasure accepts recovers the base  *)
(* block, for any ratio: nothing is ever read back from the carrier.        *)
THEOREM NothingEverRecovered == Spec => []NothingRecovered
<1>1. TypeOK /\ ListInv => NothingRecovered
  BY FullTooMany DEF ListInv, NothingRecovered, Marking
<1> QED BY <1>1, TypeInit, TypeStep, ListInit, ListStep, PTL DEF Spec
-----------------------------------------------------------------------------
(* What the running call and its position say of the error and the block.   *)
CallInv ==
  /\ pc = "link" => error = "fail"
  /\ pc # "extend"
  /\ pc \in {"store", "link"} => call = "update"
  /\ pc = "store" => page.valid /\ page.entry # "absent"
  /\ pc = "format" => call = "init"

LEMMA CallInit == Init => CallInv
BY DEF Init, CallInv

LEMMA CallStep == TypeOK /\ CallInv /\ [Next]_vars => CallInv'
<1> SUFFICES ASSUME TypeOK, CallInv, [Next]_vars PROVE CallInv'
  OBVIOUS
<1>1. CASE \E c \in {"init", "check", "update"} : Start(c)
  BY <1>1 DEF Start, CallInv
<1>2. CASE InitBios \/ ReadEntropy
  BY <1>2 DEF InitBios, ReadEntropy, FirstCarrier, Return, CallInv
<1>3. CASE MarkCarrier \/ ReadCarrier \/ DecodeAccepted \/ DecodeRefused
  BY <1>3 DEF MarkCarrier, ReadCarrier, DecodeAccepted, DecodeRefused, Return, CallInv
<1>4. CASE ExhaustedIter \/ StackOops
  BY <1>4 DEF ExhaustedIter, StackOops, Halt, CallInv
<1>5. CASE KeepHead \/ NewHead \/ WriteHead \/ BadBlock
  BY <1>5 DEF KeepHead, NewHead, WriteHead, BadBlock, Return, CallInv
<1>6. CASE Check
  BY <1>6 DEF Check, Continue, Return, CallInv
<1>7. CASE Update \/ UpdateNext \/ UpdateEnd
  BY <1>7 DEF Update, Updated, UpdateResult, UpdateNext, UpdateEnd, CallInv
<1>8. CASE Store
  BY <1>8 DEF Store, Return, CallInv
<1>9. CASE Link
  BY <1>9 DEF Link, At, WriteBack, Failed, Return, CallInv
<1>10. CASE UNCHANGED vars
  BY <1>10 DEF vars, CallInv
<1> QED BY <1>1, <1>2, <1>3, <1>4, <1>5, <1>6, <1>7, <1>8, <1>9, <1>10 DEF Next, Step

(* metadata_update_link always fails, so that the list keeps its blocks.    *)
THEOREM ListNeverGrows == Spec => []NoBlockAdded
<1>1. CallInv => NoBlockAdded
  BY DEF CallInv, NoBlockAdded
<1> QED BY <1>1, TypeInit, TypeStep, CallInit, CallStep, PTL DEF Spec

(* No update succeeds by recording a checksum: it succeeds when the buffer  *)
(* happens to hold a valid block with an entry, which it leaves as it is.   *)
THEOREM UpdatesRecordNothing == Spec => UpdateRecordsNothing
<1> DEFINE A == /\ call' = "update" /\ pc' = "idle" /\ pc # "idle" /\ ret' = "none"
                     => page.valid /\ page.entry # "absent"
                /\ pc = "verify" /\ call = "update" => page'.entry = page.entry
<1>1. TypeOK /\ CallInv /\ [Next]_vars => [A]_vars
  <2> SUFFICES ASSUME TypeOK, CallInv, Next PROVE A
    BY DEF vars
  <2>1. CASE \E c \in {"init", "check", "update"} : Start(c)
    BY <2>1 DEF Start, At
  <2>2. CASE InitBios \/ ReadEntropy
    BY <2>2 DEF InitBios, ReadEntropy, FirstCarrier, At, Return, Failed, TypeOK
  <2>3. CASE MarkCarrier \/ ReadCarrier \/ DecodeAccepted \/ DecodeRefused
    BY <2>3 DEF MarkCarrier, ReadCarrier, DecodeAccepted, DecodeRefused, At, Return, Failed
  <2>4. CASE ExhaustedIter \/ StackOops
    BY <2>4 DEF ExhaustedIter, StackOops, Halt
  <2>5. CASE KeepHead \/ NewHead \/ WriteHead \/ BadBlock
    BY <2>5 DEF KeepHead, NewHead, WriteHead, BadBlock, At, Return, CallInv
  <2>6. CASE Check
    BY <2>6 DEF Check, At
  <2>7. CASE Update \/ UpdateNext \/ UpdateEnd
    BY <2>7 DEF Update, Updated, UpdateNext, UpdateEnd, At
  <2>8. CASE Store
    BY <2>8 DEF Store, At, CallInv
  <2>9. CASE Link
    BY <2>9 DEF Link, At, Return, Failed
  <2> QED BY <2>1, <2>2, <2>3, <2>4, <2>5, <2>6, <2>7, <2>8, <2>9 DEF Next, Step
<1> QED BY <1>1, TypeInit, TypeStep, CallInit, CallStep, PTL DEF Spec, UpdateRecordsNothing
-----------------------------------------------------------------------------
(* With one carrier block the error of the only decoding stays in mio->error *)
(* until metadata_init returns it.                                           *)
LoadInv ==
  /\ loaded => num_carrier # 1
  /\ call = "init" /\ num_carrier = 1 /\ pc \in {"verify", "format"} => error # "none"

LEMMA LoadInit == Init => LoadInv
BY DEF Init, LoadInv

LEMMA LoadStep == TypeOK /\ ListInv /\ CallInv /\ LoadInv /\ [Next]_vars => LoadInv'
<1> SUFFICES ASSUME TypeOK, ListInv, CallInv, LoadInv, [Next]_vars PROVE LoadInv'
  OBVIOUS
<1>1. CASE \E c \in {"init", "check", "update"} : Start(c)
  BY <1>1 DEF Start, LoadInv, context
<1>2. CASE InitBios
  BY <1>2 DEF InitBios, Return, LoadInv, context
<1>3. CASE ReadEntropy
  <2>1. num_carrier = 1 => num_carrier > 0
    BY ContextTyped
  <2>2. CASE FirstCarrier /\ UNCHANGED <<ret, loaded>>
    BY <1>3, <2>1, <2>2 DEF ReadEntropy, FirstCarrier, LoadInv, context
  <2>3. CASE Return("EIO")
    BY <1>3, <2>3 DEF ReadEntropy, Return, Failed, LoadInv, context
  <2> QED BY <1>3, <2>2, <2>3 DEF ReadEntropy
<1>4. CASE MarkCarrier
  BY <1>4 DEF MarkCarrier, LoadInv, context
<1>5. CASE ReadCarrier
  BY <1>5 DEF ReadCarrier, Return, LoadInv, context
<1>6. CASE DecodeRefused
  BY <1>6 DEF DecodeRefused, LoadInv, context
<1>7. CASE DecodeAccepted
  <2>1. num_carrier # 1
    <3>1. SUFFICES ASSUME num_carrier = 1 PROVE FALSE
      OBVIOUS
    <3>2. i = 0
      BY <1>7, <3>1 DEF DecodeAccepted, At, ListInv, Marking, TypeOK
    <3>3. Full \subseteq ListedIds(erasures)
      BY <1>7, <3>2 DEF DecodeAccepted, At, ListInv, Marking, Upto, Full
    <3> QED BY <1>7, <3>3, FullTooMany DEF DecodeAccepted
  <2> QED BY <1>7, <2>1 DEF DecodeAccepted, LoadInv, context
<1>8. CASE ExhaustedIter \/ StackOops
  BY <1>8 DEF ExhaustedIter, StackOops, Halt, LoadInv, context
<1>9. CASE KeepHead \/ NewHead \/ BadBlock
  BY <1>9 DEF KeepHead, NewHead, BadBlock, At, Return, Failed, LoadInv, context
<1>10. CASE WriteHead
  BY <1>10 DEF WriteHead, At, Return, Failed, LoadInv, context
<1>11. CASE Check
  BY <1>11 DEF Check, Continue, Return, LoadInv, context
<1>12. CASE Update \/ UpdateNext \/ UpdateEnd
  BY <1>12 DEF Update, UpdateNext, UpdateEnd, LoadInv, context
<1>13. CASE Store \/ Link
  BY <1>13 DEF Store, Link, At, Return, CallInv, LoadInv, context
<1>14. CASE UNCHANGED vars
  BY <1>14 DEF vars, LoadInv, context
<1> QED BY <1>1, <1>2, <1>3, <1>4, <1>5, <1>6, <1>7, <1>8, <1>9, <1>10, <1>11, <1>12, <1>13,
           <1>14 DEF Next, Step

(* A target with one carrier block per request cannot be constructed,       *)
(* whatever its number of entropy blocks and whatever the carrier holds.    *)
THEOREM OneCarrierRefused == Spec => []OneCarrierNeverLoads
<1>1. LoadInv => OneCarrierNeverLoads
  BY DEF LoadInv, OneCarrierNeverLoads
<1> QED BY <1>1, TypeInit, TypeStep, ListInit, ListStep, CallInit, CallStep, LoadInit, LoadStep, PTL DEF Spec
===========================================================================
