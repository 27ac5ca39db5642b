# dm-matryoshka in TLA+

TLA+ modules for dm-matryoshka, a device-mapper target that hides a volume in
the free clusters of a FAT file system. A block written to the volume is
erasure-coded together with `K` blocks of an *entropy* device (`num_entropy`),
and the `M` coding blocks (`num_carrier`, `M < K + 1`) go to clusters of the
*carrier* device that its FAT marks free. To read the block back, the driver
reads the entropy blocks and probes for the carrier blocks. Paths below are
relative to the repository.

    cd tla
    tlc -workers 4 -config race22.cfg MCMatryoshkaIO     # any run
    tlc -workers 4 -config jerasure.cfg MCJerasure
    tlapm MatryoshkaIOProofs.tla                         # proofs, also the other *Proofs

## Inventory

| component | code | state | operations | status |
|---|---|---|---|---|
| I/O path | `src/workqueue.c` | `struct matryoshka_io`: base bio, entropy and carrier bios, two atomic counters, error, erasure list | `kmatryoshkad_do` (worker), `end_entropy_read`, `end_carrier_write`, `end_carrier_read` (completion handlers), `kmatryoshkad_cleanup` | modelled |
| io helpers | `src/utility.c` | fields of the io, page mempool, bioset | `init_matryoshka_io`, `io_update_erasures`, `io_accumulate_error`, `matryoshka_alloc_bio`, `matryoshka_free_buffer_pages`, `erasure_encode/decode`, `get_sector_in_sequence` | partly |
| target lifecycle | `src/target.c` | `struct matryoshka_context`, devices, workqueue, pools | `ctr`, `dtr`, `map`, module init and exit | modelled |
| metadata | `src/integrity.c` | list of checksum blocks on the carrier, `struct metadata_io` per call | `matryoshka_bio_integrity_update`, `_check`, `matryoshka_metadata_init` | modelled |
| FAT reader | `src/fs_fat.c`, `src/fs.c` | `struct fs_fat` | header parsing, `fat_is_cluster_used` | modelled |
| erasure codec | `lib/jerasure/{jerasure,reed_sol}.c` | none | coding matrices, inversion, encoding, decoding, schedules, their cache | modelled |
| Galois fields | `lib/jerasure/galois.c` | lazily built static tables | multiply, divide, invert, region operations, creation of the tables | modelled |
| Cauchy, liberation codes | `lib/jerasure/{cauchy,liberation}.c` | lazily filled static arrays | constructions of bitmatrices; linked, never called by the driver | partly |
| tables, examples, scripts | `cauchy_best_r6.c`, `Examples/`, `bin/` | | not part of the driver's behaviour | not modelled |

How they interact. Device-mapper calls `map` in the submitter's context. It
allocates an io, queues it and returns; `kmatryoshkad` (one worker per processor)
allocates all carrier bios and then, one by one, allocates and submits the entropy reads.
From there on the request is driven by completions. Each bio's `end_io` runs
whenever and wherever the device completes it, so the K entropy handlers run
concurrently with each other and with the worker. The last one to count itself
in is meant to encode and submit the carrier writes (WRITE) or to probe for and
submit one carrier read (READ). Each write updates the metadata list first,
with synchronous I/O. The last write's handler, or the read's, answers. Any
handler that sees `io->error` answers too: it releases every bio and the io,
and calls `bio_endio`.

Requests of one target share its page pool, the lock `bio_alloc_lock`, the
workqueue and the carrier device, whose own file system allocates clusters all the
while. All targets share the tables in `galois.c`, which whoever multiplies first
builds, without a lock. A target is removed when every bio it was given is
answered, which is not when all their completions are through.

What is hard here:

* the counters, the error field and the freeing of the io are separate steps of
  several handlers, and only the error field has a lock;
* a request that fails half way is torn down by whoever notices, while bios are
  in flight and other handlers, or the worker, still hold the io;
* one counter, `carrier_done`, counts completions on a WRITE and holds the probe
  number of the next attempt on a READ;
* loop variables are used after their loops (`carrier_bios[i]` in the READ
  stage), and fields are used before they are set (`io->error`);
* READs retry until an index runs out;
* pages are taken one by one from a bounded pool, with a lock held while waiting,
  by workers on several processors, and a second time by the request that holds
  the first ones;
* a handler looks at the context once more after its bio may have been the last one
  the answer waited for;
* the constructor has eleven steps that can fail and one label to undo them;
* a cluster is looked up, found free and written later, under a number that the
  file system gives to another one;
* header fields from the carrier are multiplied in 32 bits and divided by;
* tables are static, published before they are filled, and given up half way;
* the codec picks rows by which drives are lost, in several ways that must agree.

What makes each component correct:

* I/O path: every accepted bio is answered exactly once; success means that all
  carrier blocks are stored; nothing is used after it was released and nothing
  is left behind; the stages start only after all entropy blocks are there.
* io helpers: an error recorded is never forgotten; the erasure list stays in
  its array and names what is erased; pages go back to the pool once.
* target lifecycle: a failed constructor gives back what it took; accepted
  parameters are ones the I/O path can serve; nobody uses a released context.
* page pool: no page is lost, and nobody waits for ever for one.
* placement: a block of the volume goes to a free cluster, or the request fails.
* metadata: an update is recorded; the list is well-formed on disk after every
  step; `check` accepts exactly what `update` recorded; every call ends. (Only
  the last of these is true of the code, see `Metadata`.)
* FAT reader: the entry looked at is the entry of the cluster asked for.
* codec and fields: decoding inverts encoding for every set of at most M
  erasures; fields are fields; tables agree with the definition.

`PROJECT.json` lists the hazards with the line where each one bites and the
properties that cover it. A hazard without a property has a note saying why.

## Modules

| module | what it is |
|---|---|
| `BlockRequest` | abstract: what device-mapper is promised for one bio |
| `MatryoshkaIO` | one request in the driver, step by step; its properties; the refinement mapping to `BlockRequest` |
| `MCMatryoshkaIO` | the fault environments of its runs |
| `MatryoshkaIOProofs` | theorems about `MatryoshkaIO`: types, barrier, erasure list, errors; what a successful answer means, in all interleavings; decoding, memory and refinement when devices complete one bio at a time |
| `Metadata` | the list of checksum blocks: constructor, check and update calls, one after the other |
| `MCMetadata` | contexts and environments of its runs |
| `MCUpdates` | the calls of `Metadata`, or two WRITEs of `PagePool` with their updates, one of them per behaviour |
| `MetadataProofs` | theorems about `Metadata` |
| `Target`, `MCTarget` | constructor, destructor, requests as users of the context, module init and exit |
| `TargetProofs` | theorems about `Target` |
| `PagePool` | several WRITEs and their metadata updates on one page pool |
| `MCOverlap` | three WRITEs of `PagePool`, or the handlers of a larger READ of `MatryoshkaIO`, one of them per behaviour |
| `PagePoolProofs` | theorems about `PagePool` |
| `FatLayout` | the layout of the FAT, the entry looked at for a cluster, and where the clusters of the file system are, as operators |
| `Placement`, `MCPlacement` | where blocks of metadata and of a WRITE go, against a file system that allocates |
| `PlacementProofs` | theorems about `Placement` |
| `GaloisTables` | several callers that create and use the static tables |
| `GaloisTablesProofs` | theorems about `GaloisTables` |
| `GaloisField` | the arithmetic of `galois.c`, as operators |
| `Jerasure`, `ReedSol` | the matrix codec and its matrices, as operators |
| `BitMatrix`, `BitCodes` | the bitmatrix codec with its schedules, and the Cauchy and liberation codes, as operators |
| `FieldCases`, `WordCodec`, `BitCodec` | users of these operators, one case or one operation a step, and the properties |
| `JerasureProofs` | lemmas about the operators of `Jerasure` and `BitMatrix`, for every size: loops, elimination, decoding, schedules |
| `BitCodecProofs` | lemmas about `BitCodes`, and theorems about `BitCodec` |
| `MCJerasure` | the library: one of `GaloisTables`, `FieldCases`, `WordCodec`, `BitCodec` per behaviour |

A module uses another one through what that one shows. `MatryoshkaIO` takes one
result per metadata call, `MetaOutcomes`; `Metadata` shows which results there
are. `Target` takes from `Metadata` that one carrier block is refused
(`OneCarrierNeverLoads`), and from `MatryoshkaIO` that a failed request is answered
with bios in flight. `Placement` and `PagePool` refine what `MatryoshkaIO` leaves
open: where a probe points, and when an allocation returns. `Jerasure` multiplies
by shifting, with which `FieldCases` compares every other way.

### MatryoshkaIO and the code

A bio is named by the id jerasure gives its block: 0 is the base bio, `1..K` the
entropy bios, `K+1..K+M` the carrier bios, so that `carrier_bios[i]` is
`CarrierBio(i) = K+1+i`. Two more names, `Wild`, stand for the slots past the
last carrier that the READ path uses: `carrier_bios[M]` and
`carrier_bios[M+K+1]`.

| variable | code |
|---|---|
| `op`, `bi_error`, `ended` | direction of the base bio, its `bi_error`, how often `bio_endio` was called on it |
| `mem` | whether the `struct matryoshka_io` is allocated or freed |
| `work`, `sub` | where `kmatryoshkad_do` stands; entropy bios submitted so far |
| `bio` | per slot: not allocated, live, pages released, freed, or left over from an earlier io (`stale`) |
| `run` | program counter of the bio's completion handler (`idle`, `inflight` at the device, a step, `done`) |
| `res` | `bi_error` of its last completion |
| `skip`, `idx`, `pos` | handler locals: probe number, carrier index of the loop or of the submission, index of the loop that marks erasures or releases bios |
| `entropy_done`, `carrier_done`, `error`, `erasures` | the fields of the io |
| `fault` | how the kernel died, if it did; no step follows |

A step is the code between two accesses another thread can see. For instance
`end_entropy_read` is `EntropyEnter` (atomic_inc), `AccumulateError` (under the
mutex), `CheckError` (`if (io->error)`), `CheckEntropyCount` (atomic_read), then
on a READ `ReadStage`, `MarkErasure` per carrier block, `EndMarks` and `Submit`, and
on a WRITE `Encode`, `WriteSearch`, `UpdateMetadata`, `Submit` per carrier
block; `Finish`, `FreePages`, `PutBio`, `FreeIo`, `EndIo` are the answer.
`MarkErasure` is one call of `io_update_erasures`, which holds the mutex for one
number: the marks of two handlers may alternate. `erasure_decode` reads the list
without the mutex; if it does so while another handler stands between a number
and the terminator behind it, what it reads next is no number of a block
(`DecodeRaced`, a fault). A list that jerasure accepts ends the request or not, as the
integrity check decides (`Decode`). Each
use of memory that may be gone is guarded by `Safe(d)`; its negation is
`UseAfterFree`, an action that ends the behaviour with `fault = "uaf"`. In the
same way a double release of a page is `bugon`, submitting a bio still in flight
`resubmit`, following an uninitialised pointer, or the pages behind an iterator a
request-based device has used up (`ExhaustedIter`), `wild`, and a NULL dereference or
`kfree` of a stack address `oops`.

Undefined behaviour. A READ follows `carrier_bios[M+K+1]`, a slot nothing has
written. Either the bytes are garbage (`SubmitWild`, a fault) or, with `"stale"`
in `Faults`, they are a pointer to a bio from an earlier use of that memory,
which the device serves (`SubmitStale`). Likewise `io->error` starts as zero or,
with `"garbage"`, as a stray error.

Abstractions.

* One request. What requests share is in `PagePool` (pages, workers, lock),
  `Placement` (free clusters) and `Target` (context).
* Block contents: `erasure_encode` is the step `Encode`, which touches all
  buffers. Decoding is reduced to the test of its list, `Decodable`; what it does with
  a list that passes is in `Jerasure`.
* `get_sector_in_sequence` and `fat_is_cluster_used`: a search stops at any probe
  (with `"used"` in `Faults`) or at the first one. Sector collisions between the
  blocks of a request are not represented.
* `matryoshka_bio_integrity_update` is its result, one of `MetaOutcomes`. By
  `Metadata` it returns 0 only along a path with `kfree` of a local
  (`metadata_update`), and then the allocator decides what happens: `oops` is an
  outcome in `race22`; the other runs take a build in which the call survives it,
  since otherwise no WRITE gets further than its first carrier block.
* Errors are `ok`, `EIO` and one `other`: `io_accumulate_error` tells no more apart.
* Allocation of bios and pages succeeds. Only `map`'s two allocations may fail
  (`"nomem"`).

### Metadata and the code

Every call works on a `struct metadata_io` of its own, with synchronous I/O.

| variable | code |
|---|---|
| `num_entropy`, `num_carrier` | the ratio of the context, any pair of `Ratios` |
| `loaded` | `matryoshka_metadata_init` returned 0, so that the constructor succeeds |
| `call`, `pc` | the function that runs (`init`, `check`, `update`) and where it stands |
| `error`, `erasures`, `page` | `mio->error`, `mio->erasures`, the buffer of `mio->base_bio` |
| `i`, `j` | the indexes of the nested loops over the carriers and their erasures |
| `ret` | what the last call returned |
| `fault` | `oops` (kfree of a stack address) or `wild` (pages from behind a bio's segments) |

The three functions share the steps that read a block, from `InitBios` to
`DecodeAccepted` or `DecodeRefused`: `DecodeRefused` marks the carrier in the
list and goes on with the next one, as the loop does. `KeepHead`, `NewHead` and
`WriteHead` are the rest of the constructor, `Check` of the check, and `Update`,
`UpdateNext`, `UpdateEnd`, `Store` and `Link` of the update. The erasure list is
kept as `mio_update_erasures` builds it, including its restart at index 0 when
the array is full.

What a pool page holds when it is handed out is any block of `Memory`: the
constructor reads the block into the entropy and carrier bios, and decoding
fills the base bio only if jerasure takes it for erased. A block is reduced to
three facts: its checksum is right, its link is not `UINT_MAX`, and its entry
for the sector at hand is absent, right or stale. The comparison of checksums, the
scan of the entries and the place of the blocks on the devices are left out.
`metadata_update_link` writes the number of the next block into the buffer and does
not compute its checksum anew (`Linked`). The code behind it (`integrity.c:670-693`) is
the step `extend`, which nothing reaches.

Only one call runs at a time. Calls of concurrent requests share nothing but the
blocks on the devices, and by `NothingRecovered` no call ever reads one back.

### Target and the code

| variable | code |
|---|---|
| `pc` | where the table stands: `unloaded`, a step of `matryoshka_ctr`, `bad` (its label), `live`, `flush` and `release` (`matryoshka_dtr`) |
| `obj` | per object the constructor acquires (four kmallocs, two devices, pool, bioset, workqueue, passphrase): `none`, `held`, `freed` |
| `wq` | what `context->matryoshka_wq` holds: the constructor reads it on its error path even if it never got there |
| `args`, `num_carrier`, `num_entropy` | `argv[1]`, `argv[2]`; the fields after truncation to eight bits |
| `suspended`, `req` | device-mapper's side: no new bios; per bio its answer, its worker, its entropy and carrier bios in flight (`reads`, `writes`), their handlers counted in but not past their comparison (`counted`, `stored`), the handlers that found the count complete (`stages`), those still in the loop that submits (`loops`) and what they have to submit |
| `registered`, `loads` | `dm_register_target`; tables loaded so far |
| `lost`, `exits` | history: objects nothing points to any more, how constructors and destructors have ended |
| `fault` | a crash, if there was one |

After a failed constructor, and after `dtr`, device-mapper itself puts the devices
that are still in the table's list (`dm_table_destroy`), which is why `Bad` does.

A handler counts itself in without the context and compares with the numbers in it
afterwards; the loop that submits tests `mc->num_carrier` once more after its last
submission (`EndLoop`). Each of these is a step of its own, and `InContext` is a use
after free if the destructor ran before it. Two handlers may both find the count
complete; they share `toSubmit`, and how it divides among them is left open, so that
the loops end in every way they could.

No index is checked against the arrays, of which `entropy_bios` lies before
`carrier_bios`, both of `Room` entries (10 in the code). `SlotsFit` says when that is
harmless: entropy bios beyond their array fall into slots of carriers that
nobody uses, and nothing falls behind both. A ratio for which it fails has
a bio released twice, or a field behind the arrays taken for one
(`OverrunMetadata`); a ratio of no carrier blocks and up to `2 * Room` entropy blocks
goes live.

### PagePool and the code

`stage` is where a request stands, `bios` and `meta` how many bios of its
`matryoshka_io` and of its current `metadata_io` have all their pages, `part` the
pages of the bio being allocated, `holder` the owner of `bio_alloc_lock`, `free` what
is left of the mempool's reserve and `poolSize` that reserve. `cpu` is the processor
whose work list a request is in: `max_active` of a bound workqueue is a limit per
processor (`target.c:64`), so that one worker runs on each of `Cpus` and workers of
several processors allocate at once (`OneAtATime`). The page allocator
behind the mempool is exhausted throughout: that is what a mempool is for.
`mempool_alloc` then waits for `matryoshka_free_buffer_pages`, with the mutex held.
`Owned` is the set of the pages that requests own, `<<r, n>>` the n-th of request `r`;
its size is what `PagesConserved` adds to the pages left and those being collected.

### FatLayout, Placement and the code

A header is a record of the fields that `fat_parse_header` reads; `f` is it with what
`fat_compute_values` adds. The FAT is the set of the clusters whose entry is not
zero. `EntryRead` is the entry that `fat_is_cluster_used` really looks at. Sectors
of the sequence are pairs of cluster and offset, as the driver divides them: it counts
clusters from 0 and sectors from the start of the device. The file system
counts clusters from 2 and from its data area, behind header, FATs and root
directory, and begins at sector `start` of the device, the argument of the
constructor that `fat_get_header` adds and `fat_is_cluster_used` does not.
`FsCluster` and `Covered` say which clusters of the file system a block really reaches
into, `HoldsFat` whether a lookup reads a sector that is one of the FAT and still
holds it: blocks of the volume and of the metadata may have been written over
it (`Overwritten`). A lookup elsewhere may be answered either way (`Answers`).

| variable | code |
|---|---|
| `phase`, `skip` | position in constructor and WRITE loop; its local `skip` |
| `f`, `start` | `struct fs_fat`; `carrier->start` |
| `written` | first sectors of the blocks on the carrier, of this WRITE and of earlier ones |
| `mio` | `bi_sector` of the bios of a `metadata_io` after `init_metadata_bios` |
| `at` | the sector probed last, its counter, whether the hash could be computed and the FAT answered |
| `placed` | the carrier blocks submitted: their probe, and what they overwrite |
| `refusals`, `taken`, `failures` | history: probes answered by "used"; clusters the file system took since the last probe; hashes and reads that failed |

A header is what `mkfs` writes or blank (`HeaderAssumption`): the driver reads the
fields and checks none, but sector and cluster sizes other than FAT's do not occur
on a carrier. `init_metadata_bios` gives every bio of a `metadata_io` its sector
in one pass; `Direct` is that pass as one function of the bio.

Products of 32 bits wrap (`EntryOffset`, `MaxClusters`). `Hash` gives for each
counter the cluster and the offset that the HMAC leads to before reduction.
`Take` and `GiveBack` are the carrier's own file system. Failures of metadata
updates and of writes are left to `MatryoshkaIO`.

### The library and its modules

`GaloisTables`: `table` is, per static pointer of `galois.c`, what it leads to: nothing,
or memory that is fresh, filled in part, right, wrong or freed. Every access of the
code goes through the static pointer, so that memory another caller's allocation has
replaced there plays no part any more. `off` is how often `galois_ilog_tables[8]` was
advanced; `pc` and `n` the position of a caller and its index over the split tables.
A step is the code between two accesses to a shared pointer or table; the test for
the multiplication table and the allocation, which may sleep, are two (`NeedMult`,
`MultAlloc`), and so are the two releases and the two resets when the logarithms
could not be made (`GiveUpFree`, `GiveUpReset`). Filling the logarithms is cut in two
halves.

`GaloisField`: a word is the set of the positions of its ones, so that XOR is
symmetric difference. `FieldCases` has one case per behaviour: two words, or a
region with flags, or the loop of `galois_create_log_tables` pass by pass.

`Jerasure`, `ReedSol`: a matrix is a sequence of rows; a drive is one word, since
the codec treats all words of a region alike. `WordCodec` makes a matrix (`Make`),
encodes, loses a list of drives and decodes; `Select` and `DoubleInt` look at the
rows left, and at doubling, on their own.

`BitMatrix`, `BitCodes`: a row is the set of the columns with a one; a drive is a
sequence of packets, a packet a set of bits. `BitCodec` encodes by dot products or
by a schedule, loses a list of drives and decodes by dot products, by a schedule
made for that list, or by one out of the cache. `DoOperation` is one operation of a
schedule, `StripeDone` the end of the loop over the stripes. A caller says `row_k_ones`
only of a matrix for which it is so (`RowKOnes`, `jerasure.h:158`).

`MCJerasure` chooses one of these parts in its initial state (`running`). It extends
`GaloisTables` and `BitCodec` and has instances of `FieldCases` and `WordCodec`; the
parts share no state, and a step of one leaves the variables of the others alone, so
that what is proved of `BitSpec` or of the `Spec` of `GaloisTables` is true of a behaviour
of `LibSpec`.

## Runs

Twelve configurations. Deadlock checking is off in all of them: a request, a call,
a pool that is stuck or a codec at its end stops, and properties say in which
way it may.

| run | instance | environment | checks | shows |
|---|---|---|---|---|
| `serial22` | K = M = 2, 10 probes | completions one at a time; carrier device and `map`'s allocations fail | `TypeOK`, `MemorySafe`, `AnsweredMeansReleased`, `WriteAnswered`, `ImplementsBlockRequest` | join and cleanup are right when handlers do not overlap and no path fails before the writes; a READ never succeeds |
| `faulty22` | K = M = 2, 3 probes | completions one at a time; entropy and carrier errors, full volume, failed metadata, dirty memory, stale slots | `MisuseOnlyAfterFailure`, `AckMeansStored`, `DecodeAlwaysFails`, `ErasuresBounded`, `ReadOkOnlyPastLastProbe`, `ReadTerminates` | memory is misused on a WRITE only after the driver has begun to fail it, success still means stored; the READ path beyond its first submission |
| `race22` | K = M = 2, 2 probes; a READ up to its first retry | all interleavings, also with devices that consume the iterators, stale slots, and metadata that may oops | `JoinBarrier`, `LostErrorOnlyInWindow` | what the unlocked counters do and do not break |
| `bugon` | K = M = 2, 3 probes | all interleavings | `NoPageFreedTwice` | **violated**: two failing entropy reads |
| `erasuredoc` | K = M = 2, 3 probes | stale slots | `ListedMeansErased` | **violated**: the list names a block that was read |
| `metacalls` | all ratios with K, M <= 3; and two WRITEs, two processors, K = M = 2, 2 pages a bio | device errors, dirty allocations, consumed iterators, both fates of kfree; no pages but the reserve | `TypeOK`, `NothingRecovered`, `OneCarrierNeverLoads`, `NoBlockAdded`, `UpdateRecordsNothing`, `CallTerminates`, `WritesAnswered` | what the erasure list does to decoding; calls end; updates succeed without recording anything; which reserve is enough for requests and their updates |
| `metatable` | K = M = 1 | devices work, kfree is lenient | `ShippedTableLoads` | **violated**: `bin/dm_table.conf` cannot be loaded |
| `targetlife` | one request, two loads, arrays of three bios | any step of the constructor fails; handlers outlast answers | `LiveIsComplete`, `LossesExplained`, `ContextOutlivesUsers`, `UnloadEnds` | a live target owns all it uses, and which ratios get that far; what is lost and when; who uses a released context |
| `overlap` | three WRITEs, three processors, K = M = 2, 2 pages a bio; and a READ, K = M = 3, 1 probe, up to the first decoding | no pages but the reserve; all interleavings of the READ stage, stale slots | `PagesConserved`, `StuckExplained`, `ReadOkExplained` | no page is lost, and how requests get stuck below the reserve that is enough; the erasure list is decodable only after several handlers marked it in turn |
| `placing` | K = M = 2, nine kinds of carrier, whose file system begins at sector 0 or 1 | the file system takes and gives back clusters; one hash or read of the FAT fails | `OverwritesExplained`, `ProbesShared`, `LookupInsideFat`, `MetadataNeverPlaced`, `WriteDecided` | which clusters in use are overwritten and why; divisions by zero; where metadata goes |
| `fatlookup` | K = M = 1, FAT16 and FAT32 at sector 0 | the file system | `AnswerForSector` | **violated**: a cluster in use is reported as free |
| `jerasure` | see below | callers that overlap, or allocations that fail | `TablesComeRight`, `FailuresContained`, `FieldRight`, `WordMatricesRight`, `WordsRestored`, `BitMatricesRight`, `SchedulesRight`, `BitsRestored` | the tables come right; fields are fields; decoding inverts encoding |

Bounds of the driver's runs. Two entropy and two carrier blocks are the smallest
ratio with carrier blocks that the constructor accepts (`OneCarrierRefused`; with
M <= K, M = 2 needs K = 2), and the smallest with two handlers of each kind and
with a second iteration of the WRITE loop after a bio of the first is in flight. The
literal 10 of the probe loops is the constant `MaxSkip` of `MatryoshkaIO`: `serial22`
keeps 10, the others take 2 or 3, enough for a search that succeeds at once, one
that skips clusters and one that runs out, also on the second block, which
continues at the first one's `skip`; `placing` has the 10 of the code.
The ratios of `metacalls` cover lists shorter than, as long as and longer than
what the arrays take; `MetadataProofs` has the rest. Its second part, chosen in the
initial state (`running`), is the one run of `PagePool` with liveness: its
reserves are one request's need (18 pages), 26 and 33, in which two
requests do get stuck, and 34, the smallest `Sufficient` one.

`race22` follows WRITEs to the end and READs to the end of their first decoding
(`NoRetry`): the retries are `faulty22`'s subject, and their interleavings the theorems'.

The READ of `overlap`, whose part is chosen in the initial state (`running`), is one of
`MatryoshkaIO`. It needs three entropy blocks: the marks of three handlers overfill the array of
seven entries, and may do so before all carrier blocks are listed (1, 4, 5, 4, 5, 4,
5 is a list TLC finds), while those of two handlers always fit. Its constraint
`ToFirstDecode` stops at the first decoding and lets the entropy reads, which are
alike, complete in order; the theorem has neither bound.

`targetlife` scales the arrays of 10 bios to `Room = 3` and takes arguments around
each limit of that: none, 0, 1, 4 (too many for one array), 7 (for both) and 258
(which becomes 2); two loads show a second table after a failed, a removed and a
crashing first one. One request is enough for a context that outlives its table, and
two handlers of it may run the loop; `TargetProofs` has any set of requests.

The reserves of `overlap` are 18 and 19, in which three workers of three processors get stuck before any has all its
bios, 20, in which they no longer do (`WorkersFit`), 49, in which three requests get
stuck behind an update, and 50, which is `Sufficient`: both bounds in
`StuckExplained` are tight. Requests and processors are interchangeable, and the run has
no liveness property, so that its symmetry is sound. The code's reserve of 256 pages
serves few requests with bios of 64 KB clusters.

The carriers of `placing` are no file system at all, a FAT16 of one sector, of two, a
header with zero-sized clusters, small FAT32 ones and some around 2^25 clusters,
where products pass 32 bits. File systems begin at sector 0, where lookups go to the FAT,
or at sector 1, where those for its first sector fall short of it; an earlier block
lies over the second sector of the FAT (`Earlier`) or does not. The hashes fall on driver's
clusters whose entry is the first of a sector of the FAT, another one, one in the first
sector, beyond the end, and on the clusters 256 and 298 that the file system takes and
gives back, at their start or off it. `MaxRefusals` bounds a history
variable and is more than the eleven probes there are.

Bounds of `jerasure`. Three callers and two of the seven split tables: the first
table, which everybody asks for, and one that is not; three callers, so that two can
race through every table while a third one finds them in any state: made twice, freed
under each other, freed twice, advanced three times. All words up to 4 bits; of 5, 8, 16, 23
and 32 bits the single bits, which determine every product since multiplication
is linear in both words, zero, all ones and a mixed word. The logarithm
loop runs for all sizes up to 16 (the library allows tables to 22 and more).
Word codes are inverted for all sets of rows up to nine drives for small words,
and for 8, 16 and 32 bits up to eight; contents are one hot drive or all,
since the code is linear. Erasure lists are in order, backwards and with a drive
named twice. Bitmatrices are those of liberation codes for w = 3, 5, 7,
Blaum-Roth for 4 and 6, liber8tion for every k and a k too many, Cauchy matrices
for w up to 6 and 8; encoding runs over a smaller list (`BitShapes`) with a
region of two stripes, one that is not made of whole stripes, and w = 4, for which
the liberation construction is no code: decoding must then fail or be
meaningless, and nothing else may be written.

Faults that end a behaviour. After `fault # "none"` the model takes no step, so
safety properties speak about the steps before it, and liveness properties of
runs in which a crash is possible say "answered or crashed". `MemorySafe` and
`MisuseOnlyAfterFailure` say when no fault can happen at all. `race22` claims no
memory safety, since the code has none there (`bugon`).

Fairness. `MatryoshkaIO`: `WF(Worker)`, since `queue_work` guarantees that the queued
function runs; `WF(Device(d))`, since a block device completes every bio it accepted;
`WF(Handler(d))`, since a handler once entered keeps running and waits for nothing
but the io's mutex, which is held within one step. Nothing forces `map` to be
called. `Metadata`: `WF(Step)`, since a call once begun keeps running and
`submit_bio_wait` returns; nothing forces a call to begin. `Target`: weak fairness
of the constructor, of the removal and of what serves a request; nothing loads,
suspends or submits. `PagePool`: weak fairness of what a request does by itself,
strong fairness of taking the mutex and of the start of its work, since the
kernel's mutex and workqueue serve waiters in order; only the owner of the mutex
takes pages, so that weak fairness is enough for that.
`Placement`: the handler that searches keeps running; the file system may stop or
go on for ever. The library is sequential code without fairness.

`Serial` in `MatryoshkaIO` is a restriction of the environment (a device with one
completion context and no overlap), not something the code enforces. The two
runs under it separate what partial failure breaks from what concurrency
breaks. What they check is claimed under it only: that a READ never decodes
(`DecodeAlwaysFails`) and succeeds only past its last probe (`ReadOkOnlyPastLastProbe`), that an
acknowledged WRITE is stored (`AckMeansStored`), and the refinement.
`LostErrorOnlyInWindow` and `ReadOkExplained`, of which `DecodeNeedsTwoStages` is a
part, say what is left of it when
handlers overlap. The environments `overlap` and `failing` of `GaloisTables` do the same.

Each property of a passing run comes with a mutant in `PROJECT.json`: one of the
small operators that carry the code's decisions (`AllRead`, `Accumulate`,
`MoreToClean`, `EntryOffset`, `lastdrive`, ...) replaced by a plausible slip, defined
next to it in the module, under which that run finds the property violated.

### Refinement

`BlockRequest` is what a submitter sees: a bio is accepted or refused; a pending
one is stored, then succeeds, or fails; success at most once and only after
`Store`; a pending request is resolved eventually. It admits a crash in `map`
(unchecked allocation) and while serving a READ, and no successful READ.
`ImplementsBlockRequest` maps `phase` to `ended` and `fault`, `stored` to "all
carrier blocks completed without error", `answer` to `bi_error` at the first
`bio_endio`. The implementation holds in the environment of `serial22`. With entropy
errors or overlapping handlers it does not, by `bugon`.

### Findings

* `bugon`: `BUG_ON(!bv->bv_page)` in `matryoshka_free_buffer_pages`
  (`utility.c:168`) is reachable when two entropy reads of one request fail,
  because each handler that sees `io->error` runs the cleanup (`workqueue.c:139-144`).
* `erasuredoc`: `init_matryoshka_io` starts the erasure list with id 1
  (`utility.c:67`); in jerasure's numbering that is the first entropy block, which
  was read, and not the lost data block 0 (`jerasure.h:81-82`). With the M
  carrier ids appended the list has M+1 devices, and decoding refuses it whatever
  the data.
* `metatable`: README.md:42 points to the scripts in `bin`, whose table
  (`bin/dm_table.conf:1`) asks for one entropy and one carrier block. With one
  carrier block decoding is always refused, `matryoshka_metadata_init` keeps that
  status in `mio->error` while it writes a fresh head and then returns it
  (`integrity.c:764`, `799`), and the constructor fails (`target.c:181-186`).
* `fatlookup`: the usage in `fs_fat.c:98-104` asks whether the sector's cluster is
  free; `fat_is_cluster_used` reads the right sector of the FAT and then looks at its
  first entry (`fs_fat.c:121`, `129`). `OverwritesExplained` says what follows, together
  with the driver's own numbering of clusters: blocks go to clusters in use, of
  which none was looked at. What the reserved first entry of the FAT does keep free,
  as long as the FAT is what is read, are the driver's clusters with an entry in the
  first sector of the FAT.

Differences from comments that the properties take as they are, without a run of
their own:

* `convertStringToU8` truncates before `checkRatio` compares (`utility.c:24`,
  `target.c:98`): a ratio of 258 is served as 2 (`LiveIsComplete`).
* The start sector of the carrier is added for the header (`fs_fat.c:32`) and not for the
  FAT (`fs_fat.c:110`) nor for any block: see `LookupInsideFat`.
* A failed constructor, once it has a workqueue, releases only the four headers
  and the workqueue; before that it follows a pointer nobody set (`target.c:208`);
  see `LossesExplained`.
* `galois.h:90-106` leaves `add` without effect when `r2` is NULL; the region
  multiplication for w = 32 adds to the region itself, and for w = 16 with a zero
  factor leaves it (`galois.c:695`, `728`, `515`). `RegionRight` is stated for the
  calls that the codec makes, which never ask for that.
* `jerasure.h:64` lets a size be a multiple of `sizeof(long)`; schedules run to the
  end of the last stripe (`jerasure.c:1204`), and dot products refuse. Both are in
  `EncodedByMatrix`.
* The decoder that makes a schedule ignores that the rows left may not be
  invertible (`jerasure.c:874`), and reports success (`BitsRestored`).

## Proofs

Every safety property that a run checks of `MatryoshkaIO`, `Metadata`, `Target`,
`PagePool`, `Placement` and `GaloisTables` is a theorem; so are the safety half of
the refinement, and of `BitCodec` what schedules, encoding and decoding do. The
runs show the properties on the instances above; the theorems hold for every value
of the constants that the named assumptions admit. Each proof has the same shape:
an inductive invariant, one lemma that `Init` implies it, one that every step
preserves it (one case per action), and one that it implies the property. TLC finds the invariants of the driver's
modules to hold on the runs' instances as well.

`MatryoshkaIOProofs` holds for every `K`, every `M < K + 1` and every
`MaxSkip > 0`, all fault sets and `MetaOutcomes`, with and without `Serial`. The
only assumption is `ConstantsAssumption`; `M < K + 1` is what `checkRatio` enforces.

| theorem | statement | inductive invariant |
|---|---|---|
| `TypeCorrect` | `Spec => []TypeOK` | `TypeInv` |
| `ErasuresStayBounded` | `Spec => []ErasuresBounded` | `TypeInv` |
| `BarrierHolds` | `Spec => []JoinBarrier` | `TypeInv /\ JoinInv` |
| `DecodingNeedsTwoStages` | `Spec => []DecodeNeedsTwoStages` | `TypeInv /\ PlaceInv /\ JoinInv /\ ListInv` |
| `ErrorsNeverForgotten` | `Spec => ErrorAbsorbing`, a step at a time and in no run | `TypeInv /\ PlaceInv` |

* `TypeInv` adds to the types that a handler past its submission has a result
  (`HasResult`, needed for the type of `error`) and the bound on the erasure list
  (needed for `Mark` to return a list of bounded length).
* `JoinBarrier` is not inductive: it says nothing of the count. `JoinInv` says
  that `entropy_done` is the number of handlers that counted themselves in, that
  an entropy bio not yet submitted has no handler, and that a started stage
  implies all have entered. A handler passes `CheckEntropyCount` only if the
  cardinality of `Entered`, a subset of `1..K`, is K, hence `Entered = Entropy`;
  entered handlers never go back.
* `PlaceInv` relates the position of a handler to the kind of its bio and of the
  request: who marks erasures serves a READ, and so on.
* `ListInv` says of a READ that two handlers ran the stage (`TwoStages`, which lasts), or
  that the list is in order (`Listing`): it holds id 1 until a stage begins, `{1}`
  and the carriers up to the one at hand while its handler marks them, and
  `{1} \cup Carrier`, M+1 elements, from the submission on, in every handler of a
  carrier read. A list once full stays full, whoever appends to it. `M < K + 1` is
  used here: the array then has room for all of them.

`MetadataProofs` holds for every set of ratios with `num_carrier < num_entropy + 1`,
whatever is in memory and whatever fails (`MetadataAssumption`).

| theorem | statement | inductive invariant |
|---|---|---|
| `MetadataTyped` | `Spec => []TypeOK` | `TypeOK` |
| `NothingEverRecovered` | `Spec => []NothingRecovered` | `TypeOK /\ ListInv` |
| `OneCarrierRefused` | `Spec => []OneCarrierNeverLoads` | `TypeOK /\ ListInv /\ CallInv /\ LoadInv` |
| `ListNeverGrows` | `Spec => []NoBlockAdded` | `TypeOK /\ CallInv` |
| `UpdatesRecordNothing` | `Spec => UpdateRecordsNothing` | `TypeOK /\ CallInv` |

* `ListInv` follows the list through the two loops. At the first decoding it holds
  the ids K to K+M, the last entropy block's and the carriers', one too many
  (`FullTooMany`, by cardinality) and not yet 0, which only the refusal of carrier
  0 adds. From then on it either still holds `K..K+M`, so that decoding is refused
  again, or it has started anew, without 0, and 0 never comes back.
* `LoadInv` says that with M = 1, where there is one decoding only, `mio->error`
  is set when the constructor looks at the block.
* `CallInv` relates the position to the call: `link` only with the -1 of
  `metadata_update`, `store` only with a valid block that has an entry.

`MatryoshkaIOProofs`, second part: the answers. The assumption is the same: every
interleaving, every environment.

| theorem | statement | inductive invariant |
|---|---|---|
| `ReadSuccessExplained` | `Spec => []ReadOkExplained` | `TypeInv /\ PlaceInv /\ JoinInv /\ ListInv /\ ReadInv` |
| `LostErrorsOnlyInWindow` | `Spec => []LostErrorOnlyInWindow` | `TypeInv /\ PlaceInv /\ JoinInv /\ WriteInv` |

* `ReadInv` follows the success from the handler that finishes with a clear error
  field, to which only `ReadGiveUp` or a list made by several handlers leads, through the cleanup to the answer. It needs
  that memory once released stays released, since a handler that goes on would take
  its probe number back.
* `WriteInv` is about a WRITE that one handler stages, until two do (`Exempt`, which
  the property excuses and which lasts). Carrier bios are submitted once, by
  that handler's loop, so that `carrier_done` counts the carriers whose handlers
  were entered (`Counted`); who finishes with a clear error field read the full
  count, hence all are in (`FinishInv`); and whoever failed by then stands between
  its count and its accumulation (`Accounted`, `CommitInv`), which is the window.

`MatryoshkaIOProofs`, third part, assumes `Serial`, and more where the table says so. `CarrierOnly` is:
only the carrier devices and `map`'s allocations fail, updates of the metadata
return 0, and there are no more carrier blocks than probes. `serial22` satisfies
both hypotheses and checks what is proved under them. `faulty22` satisfies those of
the first four theorems.

| theorem | hypotheses | statement | inductive invariant, beside those above |
|---|---|---|---|
| `ReadsNeverDecode` | `Serial` | `Spec => []DecodeAlwaysFails` | `SerialInv` |
| `ReadsSucceedOnlyPastLastProbe` | `Serial` | `Spec => []ReadOkOnlyPastLastProbe` | `SerialInv` |
| `AcknowledgedIsStored` | `Serial` | `Spec => []AckMeansStored` | `SerialInv` |
| `MisuseFollowsFailure` | `Serial`, no `nomem`, no `consumed`, metadata does not oops | `Spec => []MisuseOnlyAfterFailure` | `SerialInv /\ CarrierInv /\ MemoryInv` |
| `MemoryStaysSafe` | `Serial`, `CarrierOnly` | `Spec => []MemorySafe` | and `QuietInv` |
| `AnsweredIsReleased` | `Serial`, `CarrierOnly` | `Spec => []AnsweredMeansReleased` | the same |
| `KeepsThePromise` | `Serial`, `CarrierOnly`, `NumCarrier > 0` | every step of `Spec` is a step of `BlockRequest` under the mapping, or a stutter | and `ResultInv` |

* `SerialInv`: one handler runs at a time, so that the one that finds the entropy count
  complete is the last one in, everybody else is done, and neither the race that
  `WriteInv` excuses nor the one that `ListInv` excuses is possible (`SerialStages`).
* `MemoryInv` says of a WRITE that nothing has failed yet that it is in one of three
  states: `Serving` (the io is live, every bio that runs is allocated, nothing released),
  `Cleaning(d)` (one carrier handler releases, and how far it got determines the
  state of every bio: `Remains`), or `AnsweredAll`. `Rank` is the order of the cleanup.
* `CarrierInv`: the handler that finishes is a carrier's, after all are in. Under
  `CarrierOnly` a probe never runs out (`Probing`) and an error means a carrier bio was
  submitted (`CarrierSeen`), so that the error path of an entropy handler is dead code.
* `QuietInv` says that a READ is served until it follows the slot nobody set.
* `NumCarrier > 0` is needed for the refinement: without carrier blocks "all are
  stored" holds from the start, which `BlockRequest` does not know. `checkRatio` lets a
  ratio of no carrier blocks pass; such a target writes nothing and never answers a
  WRITE whose entropy blocks it could read.
  The other theorems under `Serial` include it; `PagePoolProofs` and
  `PlacementProofs`, whose properties are about carrier blocks, leave it out.

`TargetProofs` holds for any set of requests, any arguments and any number of loads
(`TargetAssumption` only types the constants).

| theorem | statement | inductive invariant |
|---|---|---|
| `TypeCorrect` | `Spec => []TypeOK` | `Typed` |
| `LiveTargetsComplete` | `Spec => []LiveIsComplete` | `Typed /\ TableInv` |
| `LossesAreExplained` | `Spec => []LossesExplained` | `Typed /\ TableInv` |
| `ContextIsOutlived` | `Spec => []ContextOutlivesUsers` | `Typed /\ TableInv /\ RequestInv` |

* `TableInv` gives the set of the objects held at every step of the constructor
  (`OwnedInv`), when the queue pointer is set (`QueueInv`), when the ratio has been
  checked (`RatioInv`: one carrier block never gets to `live`), what label `bad` can
  still release, and, for every object lost, which exit lost it (`LostInv`).
  `RatioInv` also has the ratios that go live: `SlotsFit` for a number of carrier blocks
  other than 0 leaves no room beyond either array.
* `RequestInv`: a pending bio keeps the table loaded, since device-mapper waits for it;
  the rest of a request's life does not. With one stage, what is still to be
  submitted, in flight and counted is never more than `num_carrier`, so that
  an answer by the comparison comes when nothing is left of the first two.

`PagePoolProofs` holds for every finite set of requests, finite set of processors, every
ratio, size of a bio and size of the reserve (`PagePoolAssumption`; a workqueue holds
finitely many requests).

| theorem | statement | inductive invariant |
|---|---|---|
| `PagesAreConserved` | `PoolSpec => []PagesConserved` | `PoolInv` |
| `StuckIsExplained` | `PoolSpec => []StuckExplained` | `PoolInv` |

* `PoolInv` adds to the count that who holds the lock still has a bio to fill
  (`LockInv`), and that one worker of each processor allocates at a time and bios go
  with the stage (`StageInv`).
* The count of owned pages is a cardinality over requests and page numbers, so
  that a step that fills or frees one request's bios changes it by their pages
  (`HeldGrows`, `HeldChanges`). When all are stuck, nobody can have all its pages but
  one bio and the lock's owner lacks some; `RowsBound` turns that into the size
  that `Sufficient` names. If none of them is in an update, those that own pages are
  workers of different processors, and the same count over processors gives
  `WorkersFit` (`StuckWorkers`).

`PlacementProofs` holds for every header `mkfs` may have written or a blank one, every
hash, wherever the file system begins and whatever earlier blocks lie over it, for every
number of blocks and every behaviour of the carrier's file system
(`PlacementAssumption`; a file system never frees the two reserved entries).

| theorem | statement | inductive invariant |
|---|---|---|
| `OverwritesAreExplained` | `Spec => []OverwritesExplained` | `PlacementInv` |
| `ProbesAreShared` | `Spec => []ProbesShared` | `PlacementInv` |
| `LookupStaysInside` | `Spec => []LookupInsideFat` | `PlacementInv` |
| `MetadataIsNeverPlaced` | `Spec => []MetadataNeverPlaced` | `PlacementInv` |

* `LayoutInv` keeps the layout one that `fat_compute_values` returns for a header; lemmas
  about that function and the wrapping products give the bounds: the entry of a cluster
  below `totalClusters` lies inside the FAT, also where the product has wrapped, so
  that a lookup misses the FAT exactly by the sectors before the file system.
* `CountInv` relates the probe number to the blocks placed and the refusals,
  `FoundInv` keeps for the cluster found and those placed what the entry looked at said
  at the probe, whether it was one of the FAT, and what the file system took since.

`GaloisTablesProofs` holds for any finite set of callers and any number of split
tables (`GaloisTablesAssumption`).

| theorem | statement | inductive invariant |
|---|---|---|
| `RacesComeRight` | `Spec => []TablesComeRight` | `TablesInv` |
| `FailuresAreContained` | `Spec => []FailuresContained` | `TablesInv` |

* `SplitInv`, unless memory ran out: a split table that is neither missing nor complete
  will be filled by a caller that has not got to it yet (`Will`), and a table
  that is still missing will be allocated (`Comes`). That is why the races come right:
  the last one to set a pointer fills what it leads to. It also keeps the
  logarithms from being freed and the exponentials behind them (`LogFacts`), while
  multiplication tables may be freed under whoever fills them.
* `AloneInv`: beside a caller that is not marked `overlap` nobody creates, so that
  all tables are as it left them, and it gives up nowhere. It rests on
  `OverlapInv`. A caller in a race may crash, and the properties then say nothing of it.
* `SerialInv`, with callers one after the other: what the position of the only caller at
  work says of each table (`InOrder`, `InSplit`), and that the others are missing or
  complete (`MultMade`, `LogMade`, `SplitMade`).
* `off` is bounded by the number of callers, because a caller that advances the pointer
  has set it anew before (`OffInv`, by cardinality).

`BitCodecProofs` holds for every set of codes: each maker, any number of data and coding
drives, word size, number of stripes and packets behind them, any list of lost drives,
in any order. `BitCodecAssumption` says what the makers are asked for (those without a
parameter for it have two coding drives, liber8tion has words of eight bits), that
less than a stripe is left over, and of Cauchy codes that data is encoded with, that
no row of the bitmatrix is empty, which is field arithmetic; TLC evaluates it for the
codes of the run. No code is assumed to be able to lose drives: `BitsRestored` says
what happens when the drives that are left determine the others and when they do not.

| theorem | statement | inductive invariant |
|---|---|---|
| `SchedulesAlwaysRight` | `BitSpec => []SchedulesRight` | `CodeInv` |
| `BitsAlwaysRestored` | `BitSpec => []BitsRestored` | `BitInv` |

* Both rest on `JerasureProofs`. A loop of the code is a function from the number of
  passes to the variables. The library's induction theorems cannot be used
  with the provers at hand, which take no operator as a parameter; but induction
  over a set of numbers can be (`LeastNatural`, from `WFMin`), and gives that the
  function exists and what holds after each pass, for a loop whose pass is given as a
  function and what it keeps as a sequence of sets (`PassByPass`).
* Elimination: what is kept from row to row is that the rows of the inverse
  under way are the sums of rows of the matrix that the rows of the matrix under way are,
  and that the columns passed are cleared. Hence `jerasure_invert_bitmatrix` finds an inverse, and
  `jerasure_invertible_bitmatrix` says so, exactly if no sum of columns is zero
  (`InvertRight`, `InvertibleIff`).
* Decoding by dot products and decoding by a schedule name the same sources in different
  order, and each position is named once (`DmIdsRight`, `RowIdsRight`).
* `Sound` says of the operations done so far what a schedule guarantees: every packet
  begun by a copy is the sum of the columns of its row, or of the part done of it; the smart schedule
  may begin with a row that is complete. It is kept by both ways to make a schedule
  (`DumbSound`, `SmartSchedule`) and implies `ScheduleInOrder`, with the size of the array.
* `CodeInv` says that a schedule in use is `Sound` for the rows of the bitmatrix or
  those of the lost drives; neither property is inductive without it.
* `BitInv` adds what is on the drives: `Carried` gives every packet, after each operation of each
  stripe, as the sum of what the operations on it have contributed, each of which is a
  sum of packets of the first k pointers, which nothing writes to; `IsEncoded` that
  what was written is the code. A complete schedule contributes the whole row
  (`CarriedThrough`), and the rows give the lost drives back if they are determined
  (`DecodingDone`, `DotsDecodeRight`).

Only model-checked:

* Liveness, which is out of TLAPS's reach: `WriteAnswered`, `ReadTerminates`,
  `CallTerminates`, `UnloadEnds`, `WritesAnswered`, `WriteDecided`, and the fairness of
  `BlockRequest` in `ImplementsBlockRequest`.
* `FieldRight`, `WordMatricesRight`, `WordsRestored`, `BitMatricesRight`: that the words of
  each size are a field hangs on the polynomials of the table `prim_poly`, one by one, and that any m
  drives may be lost on properties of numbers and polynomials that no prover
  here knows. Sums of positions (`Value`, the counts of ones) are folds
  over data of any size.
* The four violations, of course: a counterexample is their proof.

## Not modelled

* `cauchy_best_r6.c`: two thousand lines of numbers, not linked into the kernel
  module (`src/Makefile:19`). The tables in `cauchy.c` for w from 7 to 11 are left
  out for their size; those up to 6 are checked entry by entry.
* `Examples/`: third-party demonstrations in user space. `bin/`: shell around
  `dmsetup`.
* Printing, `jerasure_get_stats`, names of file systems, `crc32le` and
  `get_32bit_random_number`.
* How `erasure_encode` and `erasure_decode` walk the segments of bios: what they
  give to the codec is one block per bio. The walk past a consumed iterator is
  the action `ExhaustedIter`.
* Values of the FAT's layout that nobody uses and that say nothing of where clusters
  are (`totalSize`, `dataSize`, `rootClusters`); the start sector of the entropy device,
  which the driver parses and never reads again.
* Two logical sectors whose sequences meet in one cluster: `Placement` follows one
  WRITE, and another request is to it like the carrier's file system.
* Concurrent metadata calls: they share nothing but the blocks on the devices,
  and by `NothingRecovered` no call ever reads one back.
* Failing allocations inside the library, except in the creation of tables; the
  static arrays that `reed_sol.c` and `cauchy.c` fill on first use.
* Lists that name a drive twice, in decoding by a schedule, and schedules for an
  empty list (`jerasure.c:838`, `988`, `1284`): the code reads rows that do not
  exist. `kfree` of the erasure list is missing from the cleanup
  (`workqueue.c:33`), which has no consequence in any state modelled.

## Plan

Done: every module of the tables above, and the theorems listed under Proofs. What is
left, in this order:

1. The word codec: `WordsRestored`, from laws of the field as a named assumption on the
   word sizes, along the lines of `JerasureProofs`, with the elimination over words in place of
   bits.
2. Memory safety of WRITEs when entropy reads fail one at a time, as far as it goes:
   `MisuseOnlyAfterFailure` names the failure as the cause, and a finer property would say
   which release is the first to go wrong.
