----------------------------- MODULE Metadata -----------------------------
(***************************************************************************)
(* The list of checksum blocks (src/src/integrity.c): the constructor's    *)
(* matryoshka_metadata_init, then any sequence of                          *)
(* matryoshka_bio_integrity_update and _check, each on a struct            *)
(* metadata_io of its own.                                                 *)
(*                                                                         *)
(* A block is what a caller can tell about it: whether its checksum is     *)
(* right, whether it links to a next block, and its entry for the sector   *)
(* asked about.  The blocks of the list are decoded into the buffer of     *)
(* mio->base_bio, whose pages come from the pool as they are.              *)
(***************************************************************************)
EXTENDS Integers, Sequences, FiniteSets

CONSTANTS
  Ratios,      \* pairs <<num_entropy, num_carrier>> of the contexts
  Memory,      \* the blocks a recycled page may hold
  StackFree,   \* what kfree of the address of a local may do: "ok", "oops"
  Faults       \* what may go wrong around the module

Blocks == [valid : BOOLEAN, next : BOOLEAN, entry : {"absent", "stale", "right"}]
Errors == {"none", "fail", "more", "EIO", "other"}   \* 0, -1, 1, ...

(* checkRatio accepts exactly num_carrier < num_entropy + 1 *)
ASSUME MetadataAssumption ==
  /\ Ratios \subseteq {r \in Nat \X Nat : r[2] < r[1] + 1}
  /\ Memory \subseteq Blocks
  /\ StackFree \subseteq {"ok", "oops"}
  /\ Faults \subseteq {"device", "dirty", "consumed"}

VARIABLES
  num_entropy, num_carrier,  \* fields of the context
  loaded,                    \* metadata_init returned 0: the target exists
  call, pc,                  \* the running function and where it stands
  error, erasures, page,     \* mio->error, mio->erasures, base_bio's buffer
  i, j,                      \* loop indexes
  ret,                       \* the last call's result
  fault

context == <<num_entropy, num_carrier>>
vars    == <<context, loaded, call, pc, error, erasures, page, i, j, ret, fault>>
-----------------------------------------------------------------------------
(* Slips one could make in the decisions below, see MatryoshkaIO. *)

MarkUnbounded(er, x)  == Append(er, x)
DecodableWithOne(er)  == Cardinality({er[n] : n \in 1 .. Len(er)}) <= num_carrier + 1
MarkedOuter           == i
FailedButMore(e)      == e \notin {"none", "more"}
UpdatedEntry(b)       == [b EXCEPT !.entry = "right"]
WriteBackLast(e, r)   == r
-----------------------------------------------------------------------------
Failed(e) == e # "none"

(* mio_update_erasures: the array has 1+K+M entries.  With the terminator   *)
(* behind it no -1 is found, last stays 0, and the list starts anew.        *)
Size == 1 + num_entropy + num_carrier
Mark(er, x)   == IF Len(er) < Size THEN Append(er, x) ELSE <<x>>
ListedIds(er) == {er[n] : n \in 1 .. Len(er)}

(* jerasure_erasures_to_erased *)
Decodable(er) == Cardinality(ListedIds(er)) <= num_carrier

InitialList  == <<1>>
FirstMark(c) == c + num_entropy   \* the inner loop's start for carrier c
LastMark     == num_carrier + num_entropy
Marked       == j                 \* the index it marks

(* metadata_update on a block: an entry for the sector counts as updated    *)
(* but its checksum is copied out of the block, not into it ...             *)
UpdateResult(b) == IF b.entry # "absent" THEN "none" ELSE IF b.next THEN "more" ELSE "fail"
Updated(b)      == b

(* ... and metadata_check compares it *)
CheckResult(b) == IF b.entry = "right" THEN "none" ELSE IF b.next THEN "more" ELSE "fail"

(* if (!mio->error && ret): the first error of the block's writes, r being   *)
(* none or an error of the device; with M = 0 nothing is written            *)
WriteBack(e, r) == IF Failed(e) \/ num_carrier = 0 THEN e ELSE r

(* metadata_init: memset 1, so that the next block seems to be 0x01010101,  *)
(* and every entry is about that sector                                     *)
Formatted == [valid : {TRUE}, next : {TRUE}, entry : {"absent", "stale"}]
-----------------------------------------------------------------------------
Init ==
  /\ \E r \in Ratios : num_entropy = r[1] /\ num_carrier = r[2]
  /\ loaded = FALSE /\ call = "none" /\ pc = "idle" /\ error = "none"
  /\ erasures = InitialList /\ i = 0 /\ j = 0 /\ ret = "none" /\ fault = "none"
  /\ page \in Memory

At(step) == fault = "none" /\ pc = step

Halt(how) ==
  /\ fault' = how
  /\ UNCHANGED <<context, loaded, call, pc, error, erasures, page, i, j, ret>>

(* free_metadata_io; return e.  The constructor passes the result on. *)
Return(e) ==
  /\ ret' = e /\ pc' = "idle"
  /\ loaded' = IF call = "init" THEN ~Failed(e) ELSE loaded

Outcomes == IF "device" \in Faults THEN {"none", "EIO"} ELSE {"none"}

(* alloc_metadata_io leaves mio->error as kmalloc found it.  A table that    *)
(* was refused may be tried again.                                          *)
Start(c) ==
  /\ At("idle") /\ (loaded <=> c # "init")
  /\ call' = c /\ pc' = "bios"
  /\ error' \in IF "dirty" \in Faults THEN {"none", "other"} ELSE {"none"}
  /\ page' \in Memory
  /\ erasures' = InitialList /\ i' = 0 /\ j' = 0 /\ ret' = "none"
  /\ UNCHANGED <<context, loaded, fault>>

(* init_metadata_bios, then if (mio->error).  It marks the carriers without *)
(* a free cluster in the old list and allocates a new one.                  *)
InitBios ==
  /\ At("bios")
  /\ erasures' = InitialList
  /\ IF Failed(error) THEN Return(error) ELSE pc' = "entropy" /\ UNCHANGED <<ret, loaded>>
  /\ UNCHANGED <<context, call, error, page, i, j, fault>>

FirstCarrier == pc' = (IF num_carrier > 0 THEN "mark" ELSE "verify") /\ j' = FirstMark(0)

ReadEntropy ==
  /\ At("entropy")
  /\ \/ FirstCarrier /\ UNCHANGED <<ret, loaded>>
     \/ "device" \in Faults /\ num_entropy > 0 /\ Return("EIO") /\ UNCHANGED j
  /\ i' = 0
  /\ UNCHANGED <<context, call, error, erasures, page, fault>>

MarkCarrier ==
  /\ At("mark")
  /\ erasures' = Mark(erasures, Marked) /\ j' = j + 1
  /\ pc' = IF j < LastMark THEN "mark" ELSE "read"
  /\ UNCHANGED <<context, loaded, call, error, page, i, ret, fault>>

ReadCarrier ==
  /\ At("read")
  /\ \E r \in Outcomes :
       IF Failed(r) THEN Return(r) ELSE pc' = "decode" /\ UNCHANGED <<ret, loaded>>
  /\ UNCHANGED <<context, call, error, erasures, page, i, j, fault>>

(* metadata_erasure_decode fills base_bio only if its id, 0, is listed *)
DecodeAccepted ==
  /\ At("decode") /\ Decodable(erasures)
  /\ error' = "none" /\ pc' = "verify"
  /\ page' \in IF 0 \in ListedIds(erasures) THEN Blocks ELSE {page}
  /\ UNCHANGED <<context, loaded, call, erasures, i, j, ret, fault>>

DecodeRefused ==
  /\ At("decode") /\ ~Decodable(erasures)
  /\ error' = "fail" /\ erasures' = Mark(erasures, i)
  /\ i' = i + 1 /\ j' = FirstMark(i + 1)
  /\ pc' = IF i + 1 < num_carrier THEN "mark" ELSE "verify"
  /\ UNCHANGED <<context, loaded, call, page, ret, fault>>

(* A request-based device hands bios back with their iterators at the end;  *)
(* encoding takes pages from behind their segments.                         *)
ExhaustedIter ==
  /\ At("decode") \/ At("format") \/ At("store") \/ At("link")
  /\ "consumed" \in Faults /\ num_entropy > 0
  /\ Halt("wild")
-----------------------------------------------------------------------------
(* matryoshka_metadata_init *)

KeepHead ==
  /\ At("verify") /\ call = "init" /\ page.valid
  /\ Return(error)
  /\ UNCHANGED <<context, call, error, erasures, page, i, j, fault>>

NewHead ==
  /\ At("verify") /\ call = "init" /\ ~page.valid
  /\ page' \in Formatted /\ pc' = "format"
  /\ UNCHANGED <<context, loaded, call, error, erasures, i, j, ret, fault>>

WriteHead ==
  /\ At("format")
  /\ \E r \in Outcomes : Return(IF Failed(r) /\ num_carrier > 0 THEN r ELSE error)
  /\ UNCHANGED <<context, call, error, erasures, page, i, j, fault>>
-----------------------------------------------------------------------------
(* matryoshka_bio_integrity_check and _update *)

BadBlock ==
  /\ At("verify") /\ call # "init" /\ ~page.valid
  /\ Return("EIO")
  /\ UNCHANGED <<context, call, error, erasures, page, i, j, fault>>

(* do ... while (!reached_end_of_list): a link leads back to the top *)
Continue(e) == IF e = "more" THEN pc' = "bios" /\ UNCHANGED <<ret, loaded>> ELSE Return(e)

Check ==
  /\ At("verify") /\ call = "check" /\ page.valid
  /\ error' = CheckResult(page)
  /\ Continue(error')
  /\ UNCHANGED <<context, call, erasures, page, i, j, fault>>

(* metadata_update finds the sector: it frees the address of computed_crc *)
Update ==
  /\ At("verify") /\ call = "update" /\ page.valid /\ UpdateResult(page) = "none"
  /\ "ok" \in StackFree
  /\ error' = "none" /\ page' = Updated(page) /\ pc' = "store"
  /\ UNCHANGED <<context, loaded, call, erasures, i, j, ret, fault>>

UpdateNext ==
  /\ At("verify") /\ call = "update" /\ page.valid /\ UpdateResult(page) = "more"
  /\ error' = "more" /\ pc' = "bios"
  /\ UNCHANGED <<context, loaded, call, erasures, page, i, j, ret, fault>>

UpdateEnd ==
  /\ At("verify") /\ call = "update" /\ page.valid /\ UpdateResult(page) = "fail"
  /\ error' = "fail" /\ pc' = "link"
  /\ UNCHANGED <<context, loaded, call, erasures, page, i, j, ret, fault>>

(* metadata_update, or metadata_update_link, in kfree *)
StackOops ==
  /\ "oops" \in StackFree
  /\ \/ At("verify") /\ call = "update" /\ page.valid /\ UpdateResult(page) = "none"
     \/ At("link")
  /\ Halt("oops")

Store ==
  /\ At("store")
  /\ \E r \in Outcomes :
       LET e == WriteBack(error, r) IN error' = e /\ Return(e)
  /\ UNCHANGED <<context, call, erasures, page, i, j, fault>>

(* The random number of the next block goes into a block that had UINT_MAX   *)
(* there.  The checksum is not computed again: it is wrong from then on,     *)
(* unless the random number is UINT_MAX too.                                 *)
Linked(block) == {block, [block EXCEPT !.next = TRUE, !.valid = FALSE]}

(* metadata_update_link returns mio->error, which is metadata_update's -1;  *)
(* the code behind it that would write a new block is the step "extend".    *)
Link ==
  /\ At("link") /\ "ok" \in StackFree
  /\ page' \in Linked(page)
  /\ \E r \in Outcomes :
       LET e == WriteBack(error, r) IN
         /\ error' = e
         /\ IF Failed(e) THEN Return(e) ELSE pc' = "extend" /\ UNCHANGED <<ret, loaded>>
  /\ UNCHANGED <<context, call, erasures, i, j, fault>>
-----------------------------------------------------------------------------
Step ==
  \/ InitBios \/ ReadEntropy \/ MarkCarrier \/ ReadCarrier
  \/ DecodeAccepted \/ DecodeRefused \/ ExhaustedIter
  \/ KeepHead \/ NewHead \/ WriteHead \/ BadBlock \/ Check
  \/ Update \/ UpdateNext \/ UpdateEnd \/ StackOops \/ Store \/ Link

Next == Step \/ \E c \in {"init", "check", "update"} : Start(c)

(* A call, once begun, goes on; the devices answer. *)
Spec == Init /\ [][Next]_vars /\ WF_vars(Step)
-----------------------------------------------------------------------------
(* Every variable has its type; the list and its terminator overrun the     *)
(* array by at most the terminator.                                         *)
TypeOK ==
  /\ <<num_entropy, num_carrier>> \in Ratios
  /\ loaded \in BOOLEAN
  /\ call \in {"none", "init", "check", "update"}
  /\ pc \in {"idle", "bios", "entropy", "mark", "read", "decode", "verify",
             "format", "store", "link", "extend"}
  /\ error \in Errors /\ ret \in Errors /\ page \in Blocks
  /\ erasures \in Seq(Nat) /\ Len(erasures) <= Size
  /\ i \in Nat /\ j \in Nat
  /\ fault \in {"none", "oops", "wild"}

(* mio_update_erasures fills the list until it starts anew, and for some    *)
(* ratios what is left of it is short enough to be decoded.  But then the   *)
(* base block, the one to recover, is never among the erased ones: no       *)
(* metadata block is ever read back from the carrier, decoding only         *)
(* recomputes coding blocks from whatever the buffer held.                  *)
NothingRecovered == pc = "decode" /\ Decodable(erasures) => 0 \notin ListedIds(erasures)

(* With one carrier block the list is never short enough, its decoding      *)
(* error is what metadata_init returns, and no target can be constructed.   *)
OneCarrierNeverLoads == loaded => num_carrier # 1

(* The list never grows: the code that writes a new block is not reached,   *)
(* because metadata_update_link returns the -1 that led to it.              *)
NoBlockAdded == pc # "extend"

(* An update succeeds only if the pages it was given happen to hold a       *)
(* valid block with an entry for the sector; it leaves that entry's         *)
(* checksum as it was.                                                      *)
UpdateRecordsNothing ==
  [][/\ call' = "update" /\ pc' = "idle" /\ pc # "idle" /\ ret' = "none"
          => page.valid /\ page.entry # "absent"
     /\ pc = "verify" /\ call = "update" => page'.entry = page.entry]_vars

(* Every call returns or dies: although a block that links to a next one    *)
(* sends it back to the top, the result that did so ends it there.          *)
CallTerminates == pc # "idle" ~> pc = "idle" \/ fault # "none"

(* bin/dm_table.conf: a table with one entropy and one carrier block per    *)
(* request is what the scripts load.                                        *)
ShippedTableLoads ==
  num_entropy = 1 /\ num_carrier = 1 /\ call = "init" /\ pc = "idle" => loaded
===========================================================================
