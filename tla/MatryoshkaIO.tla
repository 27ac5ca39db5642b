--------------------------- MODULE MatryoshkaIO ---------------------------
(***************************************************************************)
(* The life of one block request inside dm-matryoshka (src/src/workqueue.c *)
(* with the helpers of src/src/utility.c and src/src/target.c): map queues *)
(* it, a worker reads the K entropy blocks, the completion handler of the  *)
(* last read encodes or decodes, writes or reads the carrier blocks, and   *)
(* whichever handler finishes frees everything and answers the bio.        *)
(*                                                                         *)
(* Every sub-bio has at most one end_io handler running.  Its program      *)
(* counter is run[d], and a step is the code between two accesses that     *)
(* another thread can see: the atomic counters, the error field and the    *)
(* erasure list under their mutex, one number a time, the submission of a  *)
(* bio, each release of memory.                                            *)
(*                                                                         *)
(* A bio is named by the id jerasure gives its block: 0 is the base bio,   *)
(* 1..K the entropy bios, K+1..K+M the carrier bios.  carrier_bios[i] is   *)
(* thus K+1+i, also for the indexes past the last carrier the READ path    *)
(* uses.                                                                   *)
(***************************************************************************)
EXTENDS Integers, Sequences, FiniteSets

CONSTANTS
  NumEntropy,    \* K, context->num_entropy
  NumCarrier,    \* M, context->num_carrier
  MaxSkip,       \* the literal 10: probes per carrier block
  Serial,        \* TRUE: the devices complete one bio at a time
  Faults,        \* what may go wrong around the driver
  MetaOutcomes   \* what matryoshka_bio_integrity_update may return

FaultKinds == {"entropy", "carrier", "used", "garbage", "stale", "nomem", "consumed"}
Errors     == {"ok", "EIO", "other"}

(* checkRatio accepts exactly M < K + 1 *)
ASSUME ConstantsAssumption ==
  /\ NumEntropy \in Nat
  /\ NumCarrier \in Nat /\ NumCarrier < NumEntropy + 1
  /\ MaxSkip \in Nat \ {0}
  /\ Serial \in BOOLEAN
  /\ Faults \subseteq FaultKinds
  /\ MetaOutcomes \subseteq Errors \cup {"oops"}

CarrierBio(i) == NumEntropy + 1 + i
PastEnd       == NumCarrier + NumEntropy + 1   \* i after the loop of the READ stage

Entropy == 1 .. NumEntropy
Carrier == CarrierBio(0) .. CarrierBio(NumCarrier - 1)
Wild    == {CarrierBio(NumCarrier), CarrierBio(PastEnd)}
Bio     == Entropy \cup Carrier \cup Wild

VARIABLES
  op,            \* bio_data_dir(base_bio), "none" before map
  mem,           \* the struct matryoshka_io: "none", "live", "freed"
  work,          \* where kmatryoshkad_do stands
  sub,           \* entropy bios it has submitted
  bio,           \* the slot entropy_bios[i] / carrier_bios[i] and its memory
  run,           \* the sub-bio's completion handler
  res,           \* bi_error of the sub-bio's last completion
  skip, idx, pos,               \* locals of the handler; pos: its loops' index
  entropy_done, carrier_done,   \* atomic counters of the io
  error, erasures,              \* fields of the io
  bi_error, ended,              \* the base bio: its result, calls of bio_endio
  fault                         \* "none", or how the kernel died

worker  == <<work, sub>>
locals  == <<skip, idx, pos>>
shared  == <<entropy_done, carrier_done, error, erasures>>
base    == <<op, bi_error, ended>>
vars    == <<worker, locals, shared, base, mem, bio, run, res, fault>>

Steps == {"idle", "inflight", "enter", "inc", "acc", "chkerr", "chkcnt", "encode",
          "search", "mark", "meta", "submit", "decode", "retry", "finish", "pages", "put", "free",
          "endio", "done"}
Running == Steps \ {"idle", "inflight", "done"}
-----------------------------------------------------------------------------
(* Slips one could make in the decisions below: each is the body of one of *)
(* them gone wrong, kept to show that the properties would notice.         *)

MoreEntropyOffByOne(n) == n <= NumEntropy
AllReadAny(n)          == n >= 1
AllWrittenLate(n)      == n > NumCarrier
AccumulateInverted(old, e) == IF old = "ok" THEN old ELSE e
MarkInverted(er, x)        == er
MarkUnbounded(er, x)       == Append(er, x)
StageMarksNext             == NumEntropy + 2
AdvanceNot(s)          == s
CleanTargetPasted(n)   == IF n <= NumCarrier THEN NumEntropy + n ELSE NumEntropy + n - NumCarrier
MoreToCleanShort(n)    == n < NumCarrier + NumEntropy - 1
IterationShort(i)      == IF i + 1 < NumCarrier THEN "search" ELSE "done"
-----------------------------------------------------------------------------
(* The decisions of the code, one operator each. *)

MoreEntropy(n) == n < NumEntropy      \* loop of kmatryoshkad_do
AllRead(n)     == n = NumEntropy      \* entropy_done == num_entropy
AllWritten(n)  == n = NumCarrier      \* carrier_done == num_carrier
Failed(e)      == e # "ok"            \* if (io->error)

(* io_accumulate_error: the first error stays, two different ones make EIO *)
Accumulate(old, e) ==
  IF old = "ok" THEN e ELSE IF old # e THEN "EIO" ELSE old

(* io_update_erasures.  The array has 1+K+M entries; the terminator may     *)
(* land one entry past it, after which no -1 is found and nothing appended. *)
HasRoom(er) == Len(er) < NumEntropy + NumCarrier + 1
Mark(er, x) == IF HasRoom(er) THEN Append(er, x) ELSE er

FirstOfStage    == NumEntropy + 1       \* where the marks of the READ stage begin
FirstOfRetry(i) == NumEntropy + i       \* and those of a retry with carrier_bios[i]
LastMark        == NumEntropy + NumCarrier

ListedIds(er) == {er[i] : i \in 1 .. Len(er)}

(* jerasure_erasures_to_erased refuses more than m distinct devices; with  *)
(* it jerasure_matrix_decode fails before it looks at any data.            *)
Decodable(er) == Cardinality(ListedIds(er)) <= NumCarrier

(* The clusters a search may stop at: the first free one from a on, b + 1  *)
(* when all are used.  Without "used" the first probe is free.             *)
Probes(a, b) == {s \in a .. b + 1 : "used" \notin Faults => s = a}

(* the retry loop of end_carrier_read steps past the sector it found *)
Advance(s) == s + 1

LastProbe == MaxSkip * NumCarrier

(* kmatryoshkad_cleanup: carrier bios first, then entropy bios *)
CleanTarget(n) == IF n <= NumCarrier THEN NumEntropy + n ELSE n - NumCarrier
MoreToClean(n) == n < NumCarrier + NumEntropy
-----------------------------------------------------------------------------
(* The kernel dies, or its memory is no longer what the model says: no     *)
(* further step is described.                                              *)
Halt(how) ==
  /\ fault' = how
  /\ UNCHANGED <<worker, locals, shared, base, mem, bio, run, res>>

Init ==
  /\ op = "none" /\ mem = "none" /\ work = "idle" /\ sub = 0
  /\ bio = [d \in Bio |-> "unset"]
  /\ run = [d \in Bio |-> "idle"]
  /\ res = [d \in Bio |-> "none"]
  /\ skip = [d \in Bio |-> -1]
  /\ idx = [d \in Bio |-> NumCarrier]
  /\ pos = [d \in Bio |-> 1]
  /\ entropy_done = 0 /\ carrier_done = 0
  /\ error = "ok" /\ erasures = <<>>
  /\ bi_error = "ok" /\ ended = 0
  /\ fault = "none"

(* matryoshka_map with init_matryoshka_io: io->error is whatever kmalloc   *)
(* left in the memory.                                                     *)
Map(o) ==
  /\ fault = "none" /\ op = "none"
  /\ op' = o /\ mem' = "live" /\ work' = "queued"
  /\ \E e \in IF "garbage" \in Faults THEN {"ok", "other"} ELSE {"ok"} : error' = e
  /\ erasures' = <<1>>
  /\ UNCHANGED <<sub, bio, run, res, locals, entropy_done, carrier_done,
                 bi_error, ended, fault>>

(* kmalloc of the io fails: map returns -ENOMEM and the core fails the bio *)
MapNoMem(o) ==
  /\ fault = "none" /\ op = "none" /\ "nomem" \in Faults
  /\ op' = o /\ bi_error' = "other" /\ ended' = 1
  /\ UNCHANGED <<worker, locals, shared, mem, bio, run, res, fault>>

(* kmalloc of io->erasures fails and io->erasures[0] = 1 is executed *)
MapOops(o) ==
  /\ fault = "none" /\ op = "none" /\ "nomem" \in Faults
  /\ op' = o /\ mem' = "live" /\ fault' = "oops"
  /\ UNCHANGED <<worker, locals, shared, bi_error, ended, bio, run, res>>
-----------------------------------------------------------------------------
(* kmatryoshkad_do *)

WorkerStart ==
  /\ fault = "none" /\ work = "queued" /\ mem = "live"
  /\ bio' = [d \in Bio |-> IF d \in Carrier THEN "live" ELSE bio[d]]
  /\ work' = "alloc"
  /\ UNCHANGED <<sub, locals, shared, base, mem, run, res, fault>>

WorkerAlloc ==
  /\ fault = "none" /\ work = "alloc" /\ mem = "live" /\ MoreEntropy(sub)
  /\ bio' = [bio EXCEPT ![sub + 1] = "live"]
  /\ work' = "submit"
  /\ UNCHANGED <<sub, locals, shared, base, mem, run, res, fault>>

WorkerSubmit ==
  /\ fault = "none" /\ work = "submit" /\ mem = "live" /\ bio[sub + 1] = "live"
  /\ run' = [run EXCEPT ![sub + 1] = "inflight"]
  /\ sub' = sub + 1 /\ work' = "alloc"
  /\ UNCHANGED <<locals, shared, base, mem, bio, res, fault>>

(* A handler that saw an error released the io, or the bio, under it *)
WorkerUseAfterFree ==
  /\ fault = "none"
  /\ \/ work = "alloc" /\ MoreEntropy(sub) /\ mem = "freed"
     \/ work = "submit" /\ (mem = "freed" \/ bio[sub + 1] # "live")
  /\ Halt("uaf")
-----------------------------------------------------------------------------
(* The block devices (external) *)

Outcomes(d) ==
  LET dev == IF d \in Entropy THEN "entropy" ELSE "carrier"
  IN  IF dev \in Faults THEN Errors ELSE {"ok"}

Complete(d) ==
  /\ fault = "none" /\ run[d] = "inflight" /\ bio[d] \in {"live", "stale"}
  /\ Serial => \A x \in Bio : run[x] \notin Running
  /\ \E r \in Outcomes(d) : res' = [res EXCEPT ![d] = r]
  /\ run' = [run EXCEPT ![d] = "enter"]
  /\ UNCHANGED <<worker, locals, shared, base, mem, bio, fault>>

(* the device transfers into pages the driver has already released *)
CompleteFreed(d) ==
  /\ fault = "none" /\ run[d] = "inflight" /\ bio[d] \notin {"live", "stale"}
  /\ Halt("uaf")
-----------------------------------------------------------------------------
(* The completion handlers.  Safe(d): the memory d's next step touches is  *)
(* still there.                                                            *)

Safe(d) ==
  /\ mem = "live" \/ run[d] = "endio"
  /\ run[d] \in {"enter", "acc", "meta"} => bio[d] # "freed"
  /\ run[d] \in {"encode", "decode"} =>
       \A x \in Entropy \cup Carrier : bio[x] = "live"

At(d, step) == fault = "none" /\ run[d] = step /\ Safe(d)

Goto(d, step) == run' = [run EXCEPT ![d] = step]

UseAfterFree(d) ==
  /\ fault = "none" /\ run[d] \in Running /\ ~Safe(d)
  /\ Halt("uaf")

(* end_entropy_read, first statement *)
EntropyEnter(d) ==
  /\ At(d, "enter") /\ d \in Entropy
  /\ entropy_done' = entropy_done + 1
  /\ Goto(d, "acc")
  /\ UNCHANGED <<worker, locals, carrier_done, error, erasures, base, mem, bio, res, fault>>

(* end_carrier_write, first statement *)
WriteEnter(d) ==
  /\ At(d, "enter") /\ d \notin Entropy /\ op = "WRITE"
  /\ carrier_done' = carrier_done + 1
  /\ Goto(d, "acc")
  /\ UNCHANGED <<worker, locals, entropy_done, error, erasures, base, mem, bio, res, fault>>

(* end_carrier_read keeps the probe number in carrier_done: it reads it ... *)
ReadEnter(d) ==
  /\ At(d, "enter") /\ d \notin Entropy /\ op = "READ"
  /\ skip' = [skip EXCEPT ![d] = carrier_done]
  /\ Goto(d, "inc")
  /\ UNCHANGED <<worker, idx, pos, shared, base, mem, bio, res, fault>>

(* ... and then increments it *)
ReadInc(d) ==
  /\ At(d, "inc")
  /\ carrier_done' = carrier_done + 1
  /\ Goto(d, "acc")
  /\ UNCHANGED <<worker, locals, entropy_done, error, erasures, base, mem, bio, res, fault>>

(* io_accumulate_error(io, bio->bi_error) *)
AccumulateError(d) ==
  /\ At(d, "acc")
  /\ error' = Accumulate(error, res[d])
  /\ Goto(d, IF op = "WRITE" /\ d \notin Entropy THEN "chkcnt" ELSE "chkerr")
  /\ UNCHANGED <<worker, locals, entropy_done, carrier_done, erasures, base, mem, bio,
                 res, fault>>

(* if (io->error): read outside the mutex *)
CheckError(d) ==
  /\ At(d, "chkerr")
  /\ Goto(d, IF Failed(error) THEN "finish"
             ELSE IF d \in Entropy THEN "chkcnt" ELSE "decode")
  /\ UNCHANGED <<worker, locals, shared, base, mem, bio, res, fault>>

(* if (atomic_read(&io->entropy_done) == mc->num_entropy): the last reader *)
(* is meant to pass, but the count is read apart from the increment.       *)
CheckEntropyCount(d) ==
  /\ At(d, "chkcnt") /\ d \in Entropy
  /\ Goto(d, IF ~AllRead(entropy_done) THEN "done"
             ELSE IF op = "READ" THEN "search" ELSE "encode")
  /\ UNCHANGED <<worker, locals, shared, base, mem, bio, res, fault>>

CheckCarrierCount(d) ==
  /\ At(d, "chkcnt") /\ d \notin Entropy
  /\ Goto(d, IF AllWritten(carrier_done) THEN "finish" ELSE "done")
  /\ UNCHANGED <<worker, locals, shared, base, mem, bio, res, fault>>
-----------------------------------------------------------------------------
(* The READ stage of end_entropy_read: probe for a free cluster, then mark *)
(* the carrier blocks as erased.  i is the index of the base block while it *)
(* probes and M+K+1 once they are marked, and that is the carrier_bios slot *)
(* it submits.                                                              *)

ReadStage(d) ==
  /\ At(d, "search") /\ op = "READ"
  /\ \E s \in Probes(0, MaxSkip) :
       /\ s <= MaxSkip
       /\ skip' = [skip EXCEPT ![d] = s]
  /\ pos' = [pos EXCEPT ![d] = FirstOfStage]
  /\ idx' = [idx EXCEPT ![d] = PastEnd]
  /\ Goto(d, "mark")
  /\ UNCHANGED <<worker, shared, base, mem, bio, res, fault>>

ReadStageFull(d) ==
  /\ At(d, "search") /\ op = "READ"
  /\ MaxSkip + 1 \in Probes(0, MaxSkip)
  /\ error' = Accumulate(error, "EIO")
  /\ Goto(d, "finish")
  /\ UNCHANGED <<worker, locals, entropy_done, carrier_done, erasures, base, mem, bio,
                 res, fault>>

(* io_update_erasures(mc, io, i), of this stage or of a retry: the mutex is *)
(* held for one number, so the marks of two handlers may alternate.         *)
MarkErasure(d) ==
  /\ At(d, "mark") /\ pos[d] <= LastMark
  /\ erasures' = Mark(erasures, pos[d])
  /\ pos' = [pos EXCEPT ![d] = @ + 1]
  /\ UNCHANGED <<worker, run, skip, idx, entropy_done, carrier_done, error, base, mem, bio,
                 res, fault>>

(* The stage stores skip in carrier_done after its marks, a retry before.   *)
EndMarks(d) ==
  /\ At(d, "mark") /\ pos[d] > LastMark
  /\ carrier_done' = IF d \in Entropy THEN skip[d] ELSE carrier_done
  /\ Goto(d, "submit")
  /\ UNCHANGED <<worker, locals, entropy_done, error, erasures, base, mem, bio, res, fault>>

(* end_carrier_read: a list that jerasure accepts is decoded, and what the  *)
(* integrity check then says of the block is not known here.                *)
Decode(d) ==
  /\ At(d, "decode")
  /\ \E step \in {"finish", "retry"} :
       /\ step = "finish" => Decodable(erasures)
       /\ Goto(d, step)
  /\ UNCHANGED <<worker, locals, shared, base, mem, bio, res, fault>>

(* erasure_decode reads the list without the mutex.  While another handler  *)
(* is between its number and the terminator behind it, what kmalloc left in *)
(* the next entry is read as a number of a block.                           *)
DecodeRaced(d) ==
  /\ At(d, "decode")
  /\ HasRoom(erasures) /\ \E e \in Bio \ {d} : run[e] = "mark" /\ pos[e] <= LastMark
  /\ Halt("wild")

(* "consumed": a request-based device gives a bio back with its iterator at *)
(* the end.  init_bvec copies it, and erasure_encode and erasure_decode     *)
(* take pages from behind the segments of the entropy bios.                 *)
ExhaustedIter(d) ==
  /\ At(d, "encode") \/ At(d, "decode")
  /\ "consumed" \in Faults
  /\ Halt("wild")

(* Decoding failed: go on probing where the sequence stopped.  A free      *)
(* cluster at the very last probe leaves skip past the limit, so that the  *)
(* request ends there, with no error recorded.                             *)
ReadRetry(d) ==
  /\ At(d, "retry")
  /\ \E s \in Probes(skip[d], LastProbe) :
       /\ s <= LastProbe
       /\ skip' = [skip EXCEPT ![d] = Advance(s)]
       /\ IF Advance(s) <= LastProbe
          THEN LET i == Advance(s) \div MaxSkip IN
               /\ carrier_done' = Advance(s)
               /\ pos' = [pos EXCEPT ![d] = FirstOfRetry(i)]
               /\ idx' = [idx EXCEPT ![d] = i]
               /\ Goto(d, "mark")
          ELSE Goto(d, "finish") /\ UNCHANGED <<carrier_done, pos, idx>>
  /\ UNCHANGED <<worker, entropy_done, error, erasures, base, mem, bio, res, fault>>

ReadGiveUp(d) ==
  /\ At(d, "retry")
  /\ LastProbe + 1 \in Probes(skip[d], LastProbe) \/ skip[d] > LastProbe
  /\ skip' = [skip EXCEPT ![d] = IF @ > LastProbe THEN @ ELSE LastProbe + 1]
  /\ error' = Accumulate(error, "EIO")
  /\ Goto(d, "finish")
  /\ UNCHANGED <<worker, idx, pos, entropy_done, carrier_done, erasures, base, mem, bio,
                 res, fault>>
-----------------------------------------------------------------------------
(* The WRITE stage: encode, then per carrier block probe, update the       *)
(* metadata, submit.  skip is not reset between the blocks.                *)

Iteration(i) == IF i < NumCarrier THEN "search" ELSE "done"

Encode(d) ==
  /\ At(d, "encode")
  /\ idx' = [idx EXCEPT ![d] = 0]
  /\ Goto(d, Iteration(0))
  /\ UNCHANGED <<worker, skip, pos, shared, base, mem, bio, res, fault>>

WriteSearch(d) ==
  /\ At(d, "search") /\ op = "WRITE"
  /\ \E s \in Probes(skip[d] + 1, MaxSkip) :
       /\ s <= MaxSkip
       /\ skip' = [skip EXCEPT ![d] = s]
  /\ Goto(d, "meta")
  /\ UNCHANGED <<worker, idx, pos, shared, base, mem, bio, res, fault>>

WriteSearchFull(d) ==
  /\ At(d, "search") /\ op = "WRITE"
  /\ MaxSkip + 1 \in Probes(skip[d] + 1, MaxSkip)
  /\ skip' = [skip EXCEPT ![d] = MaxSkip + 1]
  /\ error' = Accumulate(error, "EIO")
  /\ Goto(d, "finish")
  /\ UNCHANGED <<worker, idx, pos, entropy_done, carrier_done, erasures, base, mem, bio,
                 res, fault>>

(* matryoshka_bio_integrity_update, abstracted to what it returns *)
UpdateMetadata(d) ==
  /\ At(d, "meta")
  /\ \E r \in MetaOutcomes \ {"oops"} :
       /\ error' = IF r = "ok" THEN error ELSE Accumulate(error, r)
       /\ Goto(d, IF r = "ok" THEN "submit" ELSE "finish")
  /\ UNCHANGED <<worker, locals, entropy_done, carrier_done, erasures, base, mem, bio,
                 res, fault>>

(* ... or it dies in the kfree of an address on its own stack *)
UpdateMetadataOops(d) ==
  /\ At(d, "meta") /\ "oops" \in MetaOutcomes
  /\ Halt("oops")
-----------------------------------------------------------------------------
(* generic_make_request(io->carrier_bios[i]) of both stages *)

Target(d) == CarrierBio(idx[d])
Busy(c)   == run[c] \notin {"idle", "done"}
InLoop(d) == op = "WRITE" /\ idx[d] < NumCarrier
Return(d) == IF InLoop(d) THEN Iteration(idx[d] + 1) ELSE "done"

NextIteration(d) == idx' = [idx EXCEPT ![d] = IF InLoop(d) THEN @ + 1 ELSE @]

Submit(d) ==
  /\ At(d, "submit") /\ Target(d) \in Carrier
  /\ bio[Target(d)] = "live" /\ (Target(d) = d \/ ~Busy(Target(d)))
  /\ run' = [run EXCEPT ![d] = Return(d), ![Target(d)] = "inflight"]
  /\ NextIteration(d)
  /\ UNCHANGED <<worker, skip, pos, shared, base, mem, bio, res, fault>>

(* the slot was freed by the cleanup of another handler *)
SubmitFreed(d) ==
  /\ At(d, "submit") /\ Target(d) \in Carrier /\ bio[Target(d)] # "live"
  /\ Halt("uaf")

(* the bio is still owned by the device or by its own handler *)
SubmitTwice(d) ==
  /\ At(d, "submit") /\ Target(d) # d /\ Busy(Target(d))
  /\ Halt("resubmit")

(* A slot nobody ever wrote: the bytes kmalloc left there are used as a    *)
(* struct bio.                                                             *)
SubmitWild(d) ==
  /\ At(d, "submit") /\ Target(d) \in Wild
  /\ Halt("wild")

(* "stale": those bytes are a bio pointer of an earlier occupant of the    *)
(* memory (an io of a target with more carriers), and the device serves it. *)
SubmitStale(d) ==
  /\ At(d, "submit") /\ Target(d) \in Wild /\ "stale" \in Faults
  /\ Target(d) = d \/ ~Busy(Target(d))
  /\ bio' = [bio EXCEPT ![Target(d)] = "stale"]
  /\ run' = [run EXCEPT ![d] = Return(d), ![Target(d)] = "inflight"]
  /\ NextIteration(d)
  /\ UNCHANGED <<worker, skip, pos, shared, base, mem, res, fault>>
-----------------------------------------------------------------------------
(* Answering: bi_error = io->error, kmatryoshkad_cleanup, bio_endio.  The  *)
(* WRITE stage goes on with its loop afterwards.                           *)

Finish(d) ==
  /\ At(d, "finish")
  /\ bi_error' = error
  /\ pos' = [pos EXCEPT ![d] = 1]
  /\ Goto(d, "pages")
  /\ UNCHANGED <<worker, skip, idx, shared, op, ended, mem, bio, res, fault>>

FreePages(d) ==
  /\ At(d, "pages") /\ bio[CleanTarget(pos[d])] = "live"
  /\ bio' = [bio EXCEPT ![CleanTarget(pos[d])] = "nopages"]
  /\ Goto(d, "put")
  /\ UNCHANGED <<worker, locals, shared, base, mem, res, fault>>

(* matryoshka_free_buffer_pages on a bio it has no business with:          *)
(* BUG_ON(!bv->bv_page), a freed bio, a slot not yet allocated             *)
FreePagesFault(d) ==
  /\ At(d, "pages") /\ bio[CleanTarget(pos[d])] # "live"
  /\ Halt(CASE bio[CleanTarget(pos[d])] = "nopages" -> "bugon"
             [] bio[CleanTarget(pos[d])] = "unset"   -> "wild"
             [] OTHER                                -> "uaf")

PutBio(d) ==
  /\ At(d, "put") /\ bio[CleanTarget(pos[d])] # "freed"
  /\ bio' = [bio EXCEPT ![CleanTarget(pos[d])] = "freed"]
  /\ pos' = [pos EXCEPT ![d] = IF MoreToClean(@) THEN @ + 1 ELSE @]
  /\ Goto(d, IF MoreToClean(pos[d]) THEN "pages" ELSE "free")
  /\ UNCHANGED <<worker, skip, idx, shared, base, mem, res, fault>>

FreeIo(d) ==
  /\ At(d, "free")
  /\ mem' = "freed"
  /\ Goto(d, "endio")
  /\ UNCHANGED <<worker, locals, shared, base, bio, res, fault>>

EndIo(d) ==
  /\ At(d, "endio")
  /\ ended' = ended + 1
  /\ Goto(d, Return(d))
  /\ NextIteration(d)
  /\ UNCHANGED <<worker, skip, pos, shared, op, bi_error, mem, bio, res, fault>>
-----------------------------------------------------------------------------
Worker == WorkerStart \/ WorkerAlloc \/ WorkerSubmit \/ WorkerUseAfterFree

Device(d) == Complete(d) \/ CompleteFreed(d)

Handler(d) ==
  \/ UseAfterFree(d) \/ EntropyEnter(d) \/ WriteEnter(d) \/ ReadEnter(d) \/ ReadInc(d)
  \/ AccumulateError(d) \/ CheckError(d) \/ CheckEntropyCount(d) \/ CheckCarrierCount(d)
  \/ ReadStage(d) \/ ReadStageFull(d) \/ MarkErasure(d) \/ EndMarks(d)
  \/ Decode(d) \/ DecodeRaced(d) \/ ReadRetry(d) \/ ReadGiveUp(d)
  \/ ExhaustedIter(d) \/ Encode(d) \/ WriteSearch(d) \/ WriteSearchFull(d)
  \/ UpdateMetadata(d) \/ UpdateMetadataOops(d)
  \/ Submit(d) \/ SubmitFreed(d) \/ SubmitTwice(d) \/ SubmitWild(d) \/ SubmitStale(d)
  \/ Finish(d) \/ FreePages(d) \/ FreePagesFault(d) \/ PutBio(d) \/ FreeIo(d) \/ EndIo(d)

Next ==
  \/ \E o \in {"READ", "WRITE"} : Map(o) \/ MapNoMem(o) \/ MapOops(o)
  \/ Worker
  \/ \E d \in Bio : Device(d) \/ Handler(d)

(* The workqueue runs what is queued, a device completes what it accepted  *)
(* and a handler keeps running.  Nothing obliges anyone to submit a bio.   *)
Fairness == WF_vars(Worker) /\ \A d \in Bio : WF_vars(Device(d)) /\ WF_vars(Handler(d))

Spec == Init /\ [][Next]_vars /\ Fairness
-----------------------------------------------------------------------------
(* Every variable has its type; the worker's and the cleanup's loop indexes *)
(* stay inside the arrays they walk.                                        *)
TypeOK ==
  /\ op \in {"none", "READ", "WRITE"}
  /\ mem \in {"none", "live", "freed"}
  /\ work \in {"idle", "queued", "alloc", "submit"} /\ sub \in 0 .. NumEntropy
  /\ work = "submit" => sub < NumEntropy
  /\ bio \in [Bio -> {"unset", "live", "stale", "nopages", "freed"}]
  /\ run \in [Bio -> Steps]
  /\ res \in [Bio -> Errors \cup {"none"}]
  /\ skip \in [Bio -> Nat \cup {-1}]
  /\ idx \in [Bio -> 0 .. NumCarrier \cup {PastEnd}]
  /\ pos \in [Bio -> 1 .. NumEntropy + NumCarrier + 1]
  /\ entropy_done \in Nat /\ carrier_done \in Nat
  /\ error \in Errors /\ bi_error \in Errors /\ ended \in Nat
  /\ erasures \in Seq(Nat)
  /\ fault \in {"none", "uaf", "wild", "bugon", "resubmit", "oops"}

Entered == {e \in Entropy : run[e] \notin {"idle", "inflight", "enter"}}

Staging(d) == run[d] \in {"encode", "search", "mark", "meta", "submit", "decode", "retry"}

(* No handler enters the READ or WRITE stage, and no carrier bio is         *)
(* submitted, before every entropy block has been read: the barrier the     *)
(* count in end_entropy_read is there for holds in every interleaving, even *)
(* though the count is read apart from its increment.                       *)
JoinBarrier ==
  (\E d \in Bio : Staging(d) \/ (d \notin Entropy /\ run[d] # "idle"))
    => Entered = Entropy

(* No memory is used after it was freed, no page freed twice, no bio        *)
(* submitted while in flight; only a READ follows an uninitialised pointer. *)
MemorySafe ==
  /\ fault \notin {"uaf", "bugon", "resubmit"}
  /\ fault = "wild" => op = "READ"

(* When the devices complete one bio at a time, memory is misused on a      *)
(* WRITE only after the driver has decided to fail it: the cleanup of a     *)
(* request that fails half way, with bios in flight or not yet allocated    *)
(* and the loop of the WRITE stage still running, is the only culprit.      *)
MisuseOnlyAfterFailure == op = "WRITE" /\ fault # "none" => bi_error # "ok"

(* A WRITE answered with success has read all its entropy blocks and stored *)
(* all its carrier blocks.                                                  *)
AckMeansStored ==
  op = "WRITE" /\ ended > 0 /\ bi_error = "ok"
    => \A d \in Entropy \cup Carrier : res[d] = "ok"

(* Once a request that was queued is answered, its io and all its bios are  *)
(* freed, and nothing is in flight or running that could touch them.        *)
AnsweredMeansReleased ==
  ended > 0 /\ mem # "none" /\ fault = "none" =>
    /\ mem = "freed"
    /\ \A d \in Entropy \cup Carrier : bio[d] = "freed" /\ run[d] \in {"idle", "done"}

(* What the windows between a counter's increment, the error's accumulation *)
(* and the reads of both can do to a WRITE, in all interleavings: it is     *)
(* acknowledged although a block failed or was never stored only if two     *)
(* handlers both ran the WRITE stage, or if the handler of the failed block *)
(* counted itself in and has not yet copied the error to the base bio.      *)
Staged(e) == Staging(e) \/ skip[e] # -1

LostErrorOnlyInWindow ==
  op = "WRITE" /\ ended > 0 /\ bi_error = "ok" =>
    \/ \E e, f \in Entropy : e # f /\ Staged(e) /\ Staged(f)
    \/ \A d \in Entropy \cup Carrier :
         res[d] = "ok" \/ run[d] \in {"acc", "chkerr", "chkcnt", "finish"}

(* io_accumulate_error never forgets: an error may only turn into EIO.      *)
ErrorAbsorbing == [][error' = error \/ error = "ok" \/ error' = "EIO"]_vars

(* With completions handled one at a time, the erasure list names the first *)
(* entropy block and all M carrier blocks when end_carrier_read decodes,    *)
(* one device more than the code can correct: decoding never succeeds.      *)
DecodeAlwaysFails == \A d \in Bio : run[d] = "decode" => ~Decodable(erasures)

(* The erasure list and its terminator overrun the array of 1+K+M ints by   *)
(* at most the one entry of the terminator, however long the retries last.  *)
ErasuresBounded == Len(erasures) <= NumEntropy + NumCarrier + 1

(* With completions handled one at a time, a READ is answered with success, *)
(* although nothing was ever decoded, in exactly one way: the retry loop    *)
(* found its last probe free and stepped past the limit.                    *)
ReadOkOnlyPastLastProbe ==
  op = "READ" /\ ended > 0 /\ bi_error = "ok"
    => \E d \in Bio : skip[d] = LastProbe + 1 /\ run[d] = "done"

(* In every interleaving the list is short enough to be decoded only when   *)
(* two handlers both saw the last count and ran the READ stage: marking the *)
(* same blocks in turn they fill the array before all of them are listed.   *)
TwoStages == \E e, f \in Entropy : e # f /\ skip[e] # -1 /\ skip[f] # -1

DecodeNeedsTwoStages == (\E d \in Bio : run[d] = "decode" /\ Decodable(erasures)) => TwoStages

(* And so a READ answered with success either stepped past its last probe   *)
(* or was decoded from such a list.                                         *)
ReadOkExplained ==
  /\ DecodeNeedsTwoStages
  /\ ReadOkOnlyPastLastProbe \/ TwoStages

(* Every WRITE that map queues is answered. *)
WriteAnswered == op = "WRITE" /\ work = "queued" ~> ended > 0

(* The retries of a READ come to an end, in an answer or in a crash. *)
ReadTerminates == op = "READ" ~> (ended > 0 \/ fault # "none")

(* The BUG_ON in matryoshka_free_buffer_pages never fires. *)
NoPageFreedTwice == fault # "bugon"

(* jerasure.h: the erasures are the ids of erased devices.  When a READ is  *)
(* about to decode, no block that was read successfully is listed.          *)
ListedMeansErased ==
  \A d \in Bio : run[d] = "decode" =>
    \A x \in ListedIds(erasures) : res[x] # "ok"
-----------------------------------------------------------------------------
(* What the submitter of the bio sees of all this. *)
Promise == INSTANCE BlockRequest WITH
  phase  <- CASE ended = 1 -> "answered"
              [] ended > 1 -> "answered again"
              [] ended = 0 /\ fault # "none" -> "crashed"
              [] ended = 0 /\ fault = "none" -> IF op = "none" THEN "idle" ELSE "pending",
  kind   <- op,
  stored <- op = "WRITE" /\ \A d \in Carrier : res[d] = "ok",
  answer <- IF ended = 0 THEN "none" ELSE IF bi_error = "ok" THEN "ok" ELSE "error"

(* The request is answered exactly once, with success only for a WRITE      *)
(* whose carrier blocks are all stored, and is not left pending.            *)
ImplementsBlockRequest == Promise!Spec
=============================================================================
