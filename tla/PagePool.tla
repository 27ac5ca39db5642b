------------------------------ MODULE PagePool ------------------------------
(***************************************************************************)
(* Several WRITEs on one target share its page mempool (target.c:50).  A   *)
(* request takes the pages of its M carrier and K entropy bios from it, in *)
(* the worker, and once the entropy blocks are read it takes, per carrier  *)
(* block, those of a struct metadata_io (1 + M + K bios) on top            *)
(* (integrity.c:17-42), in the handler of the last entropy read.  A bio is *)
(* allocated under bio_alloc_lock, page by page; mempool_alloc waits for a *)
(* page with the lock held.  Pages go back without the lock.               *)
(*                                                                         *)
(* The page allocator behind the mempool is taken to be exhausted, which   *)
(* is what the mempool is for: only its reserve of BIO_MAX_PAGES is left.  *)
(* Requests do not fail (MatryoshkaIO has those that do).                  *)
(***************************************************************************)
EXTENDS Integers, FiniteSets

CONSTANTS
  Requests,     \* WRITEs that may be in the driver at the same time
  K, M,         \* num_entropy and num_carrier
  BioPages,     \* pages of one bio: the cluster size over PAGE_SIZE
  PoolSizes,    \* what BIO_MAX_PAGES may be
  Cpus,         \* processors that give WRITEs to the target
  nobody, nowhere

ASSUME PagePoolAssumption ==
  /\ IsFiniteSet(Requests)
  /\ K \in Nat /\ M \in Nat \ {0} /\ M < K + 1
  /\ BioPages \in Nat \ {0}
  /\ PoolSizes \subseteq Nat
  /\ nobody \notin Requests
  /\ IsFiniteSet(Cpus) /\ nowhere \notin Cpus

VARIABLES
  stage,        \* per request: idle, queued, worker (allocating bios), reading
                \* (entropy reads in flight), update, writing
  cpu,          \* per request: the processor whose work queue it is in
  bios,         \* per request: bios of its matryoshka_io that have their pages
  meta,         \* per request: bios of the metadata_io of its update
  i,            \* per request: the carrier block its update is for
  part,         \* pages of the bio being allocated
  holder,       \* who holds bio_alloc_lock
  free,         \* pages in the mempool
  poolSize      \* its reserve

requestVars == <<stage, cpu, bios, meta, i, part, holder, free>>
poolVars == <<stage, cpu, bios, meta, i, part, holder, free, poolSize>>

\* matryoshka_io and metadata_io, in bios
IoBios == M + K
MetaBios == 1 + M + K

PoolTypeOK ==
  /\ stage \in [Requests -> {"idle", "queued", "worker", "reading", "update", "writing"}]
  /\ cpu \in [Requests -> Cpus \cup {nowhere}]
  /\ bios \in [Requests -> 0..IoBios]
  /\ meta \in [Requests -> 0..MetaBios]
  /\ i \in [Requests -> 0..M]
  /\ part \in 0..BioPages
  /\ holder \in Requests \cup {nobody}
  /\ poolSize \in PoolSizes
  /\ free \in 0..poolSize

PoolInit ==
  /\ stage = [r \in Requests |-> "idle"]
  /\ cpu = [r \in Requests |-> nowhere]
  /\ bios = [r \in Requests |-> 0]
  /\ meta = [r \in Requests |-> 0]
  /\ i = [r \in Requests |-> 0]
  /\ part = 0
  /\ holder = nobody
  /\ poolSize \in PoolSizes
  /\ free = poolSize

\* Where a request still has a bio to allocate
Wants(r) == \/ stage[r] = "worker" /\ bios[r] < IoBios
            \/ stage[r] = "update" /\ meta[r] < MetaBios
-----------------------------------------------------------------------------
\* matryoshka_map queues the work on the processor it runs on; the requests are
\* unlimited in the code, Requests bounds those that overlap.
MapWrite(r) ==
  /\ stage[r] = "idle"
  /\ stage' = [stage EXCEPT ![r] = "queued"]
  /\ \E c \in Cpus : cpu' = [cpu EXCEPT ![r] = c]
  /\ UNCHANGED <<bios, meta, i, part, holder, free>>

\* Mutant: max_active is 0, which means the default.
OneAtATimeNot(r) == TRUE

\* The workqueue has max_active = 1, per processor: it is a bound one, and
\* workers of several processors allocate at once.
OneAtATime(r) == \A s \in Requests : stage[s] = "worker" => cpu[s] # cpu[r]

StartWorker(r) ==
  /\ stage[r] = "queued" /\ OneAtATime(r)
  /\ stage' = [stage EXCEPT ![r] = "worker"]
  /\ UNCHANGED <<cpu, bios, meta, i, part, holder, free>>

\* matryoshka_alloc_bio
Lock(r) ==
  /\ holder = nobody /\ Wants(r)
  /\ holder' = r
  /\ UNCHANGED <<stage, cpu, bios, meta, i, part, free>>

TakePage(r) ==
  /\ holder = r /\ part < BioPages
  /\ free > 0
  /\ part' = part + 1
  /\ free' = free - 1
  /\ UNCHANGED <<stage, cpu, bios, meta, i, holder>>

Unlock(r) ==
  /\ holder = r /\ part = BioPages
  /\ part' = 0
  /\ holder' = nobody
  /\ IF stage[r] = "worker"
       THEN bios' = [bios EXCEPT ![r] = @ + 1] /\ UNCHANGED meta
       ELSE meta' = [meta EXCEPT ![r] = @ + 1] /\ UNCHANGED bios
  /\ UNCHANGED <<stage, cpu, i, free>>

\* The worker submits its last entropy read and turns to the next request.
WorkerEnd(r) ==
  /\ stage[r] = "worker" /\ bios[r] = IoBios
  /\ stage' = [stage EXCEPT ![r] = "reading"]
  /\ cpu' = [cpu EXCEPT ![r] = nowhere]
  /\ UNCHANGED <<bios, meta, i, part, holder, free>>

\* The last entropy read completes: the WRITE loop begins.
EntropyRead(r) ==
  /\ stage[r] = "reading"
  /\ stage' = [stage EXCEPT ![r] = "update"]
  /\ i' = [i EXCEPT ![r] = 0]
  /\ UNCHANGED <<cpu, bios, meta, part, holder, free>>

\* Mutant: one bio is forgotten.
FreeMetadataShort(n) == (n - 1) * BioPages

\* free_metadata_io: base, carrier and entropy bios
FreeMetadata(n) == n * BioPages

\* Mutant: i is not incremented.
NextBlockSame(n) == n

\* for (i = 0; i < mc->num_carrier; ++i)
MoreBlocks(n) == n < M
NextBlock(n) == n + 1

\* The metadata update of one carrier block has its bios, does its I/O and
\* frees them; then the block is submitted and the loop goes on.
UpdateEnd(r) ==
  /\ stage[r] = "update" /\ meta[r] = MetaBios
  /\ free' = free + FreeMetadata(meta[r])
  /\ meta' = [meta EXCEPT ![r] = 0]
  /\ i' = [i EXCEPT ![r] = NextBlock(@)]
  /\ stage' = [stage EXCEPT ![r] = IF MoreBlocks(NextBlock(i[r])) THEN "update" ELSE "writing"]
  /\ UNCHANGED <<cpu, bios, part, holder>>

\* The last write completes: kmatryoshkad_cleanup and bio_endio.
Answer(r) ==
  /\ stage[r] = "writing"
  /\ free' = free + bios[r] * BioPages
  /\ bios' = [bios EXCEPT ![r] = 0]
  /\ stage' = [stage EXCEPT ![r] = "idle"]
  /\ UNCHANGED <<cpu, meta, i, part, holder>>

Serve(r) == \/ StartWorker(r)
            \/ TakePage(r)
            \/ Unlock(r)
            \/ WorkerEnd(r)
            \/ EntropyRead(r)
            \/ UpdateEnd(r)
            \/ Answer(r)

PoolNext ==
  /\ \E r \in Requests : MapWrite(r) \/ Lock(r) \/ Serve(r)
  /\ UNCHANGED poolSize

\* Threads run and devices complete; a mutex is handed to every waiter in
\* the end, and the workqueue takes the works in turn.
PoolFairness ==
  \A r \in Requests : /\ WF_requestVars(Serve(r))
                      /\ SF_requestVars(Lock(r))
                      /\ SF_requestVars(StartWorker(r))

PoolSpec == PoolInit /\ [][PoolNext]_poolVars /\ PoolFairness
-----------------------------------------------------------------------------
(***************************************************************************)
(* Properties.                                                             *)
(***************************************************************************)
Pages(r) == (bios[r] + meta[r]) * BioPages

\* The pages of all bios: <<r, n>> is the n-th page of request r.
Owned == {p \in Requests \X (1..(IoBios + MetaBios) * BioPages) : p[2] <= Pages(p[1])}

\* Every page is in the pool or with exactly one bio, however the allocations of
\* requests and updates are mixed (utility.c:146, 169).
PagesConserved ==
  /\ PoolTypeOK
  /\ free + part + Cardinality(Owned) = poolSize

Active == {r \in Requests : stage[r] # "idle"}

\* Whether request r can do anything without a page from somebody else
Blocked(r) == \/ stage[r] = "queued" /\ ~OneAtATime(r)
              \/ /\ Wants(r)
                 /\ \/ holder \notin {r, nobody}
                    \/ holder = r /\ part < BioPages /\ free = 0

Stuck == Active # {} /\ \A r \in Active : Blocked(r)

\* The pool is large enough if it holds the bios of all requests, one update
\* short of a single bio in each of them, and one bio more.
Sufficient == poolSize >= (Cardinality(Requests) * (IoBios + MetaBios - 1) + 1) * BioPages

\* The same for the first bios of the requests in their workers alone
WorkersFit == poolSize >= (Cardinality(Cpus) * (IoBios - 1) + 1) * BioPages

Updating == \E r \in Requests : stage[r] = "update" /\ Wants(r)

\* All requests can block each other, because the lock is held across the wait for
\* a page (utility.c:135-157), but only in a smaller pool, one page less is enough,
\* and behind pages of other requests: one on its own always gets on.  Somebody
\* waits for the pages of an update, or, in a pool that is smaller still, workers
\* of several processors (target.c:64) hold what the others need for their first
\* bios.
StuckExplained ==
  Stuck /\ poolSize >= (IoBios + MetaBios) * BioPages =>
    /\ ~Sufficient
    /\ Cardinality({r \in Requests : bios[r] > 0}) >= 2
    /\ \A r \in Requests : stage[r] \notin {"reading", "writing"}
    /\ \/ Updating
       \/ /\ ~WorkersFit
          /\ \E r, s \in Requests : /\ stage[r] = "worker" /\ bios[r] > 0
                                   /\ stage[s] = "worker" /\ bios[s] > 0
                                   /\ cpu[r] # cpu[s]

\* Every WRITE accepted is answered, however the requests overlap, if the pool
\* is large enough.
WritesAnswered ==
  \A r \in Requests : (Sufficient /\ stage[r] = "queued") ~> stage[r] = "idle"
=============================================================================
