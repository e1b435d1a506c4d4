-------------------------------- MODULE Bdev --------------------------------
(***************************************************************************)
(* The block cache (kernel/bdev.c, kernel/bdevms.c, kernel/mm/pgcache.c) on *)
(* the IDE driver (kernel/drivers/ide.c).  io[t] is the frame of thread t   *)
(* in bdev_get_blk or bdev_write_blk; a caller starts a frame and goes on   *)
(* when the frame has returned "ok" or "nomem".  A section under pgcache_lock*)
(* or page->lock that does no I/O is one step, as is one under ide->lock.   *)
(***************************************************************************)
EXTENDS Naturals, Sequences, FiniteSets

CONSTANTS
  Threads,
  NULL,
  Disk0,              \* the blocks of the disk when the machine starts
  N_BLKS_PER_PAGE,
  MaxFails            \* bound on failed allocations

ASSUME BdevAssumption ==
  /\ N_BLKS_PER_PAGE \in Nat \ {0} /\ NULL \notin Threads /\ IsFiniteSet(Threads)
  /\ Disk0 = [b \in DOMAIN Disk0 |-> Disk0[b]]

VARIABLES
  disk,               \* what is on the disk
  hw,                 \* the command the controller works on
  ide,                \* ide->status
  request_queue,      \* threads whose request is queued
  bio,                \* status of each thread's bio
  mem,                \* the data of each block in its cached page
  cached,             \* pages in store->cached_pages
  pgcache_lock,
  nhdr,               \* block headers in each page's list
  ref,                \* bh->ref
  holder,             \* holder of bh->lock
  dirty,              \* pages with the dirty bit
  io,
  fails,              \* the allocations that failed, in order
  panic               \* the assertions and panics that were hit

ioVars == <<disk, hw, ide, request_queue, bio>>
cacheVars == <<mem, cached, pgcache_lock, nhdr, ref, holder, dirty>>
bdevVars == <<ioVars, cacheVars, io, fails, panic>>

Blks == DOMAIN Disk0
FIRST_BLK_IN_PAGE(b) == b - (b % N_BLKS_PER_PAGE)
PageOf(b) == b \div N_BLKS_PER_PAGE
BlksIn(p) == {b \in Blks : PageOf(b) = p}
Pages == {PageOf(b) : b \in Blks}
Idle == [at |-> "none", blk |-> 0, op |-> "READ"]
NoCommand == [op |-> "NONE", blk |-> 0, data |-> 0, done |-> FALSE]

\* bdev_alloc and ide_alloc: nothing cached, nothing requested.
Boot(d) ==
  /\ disk = d
  /\ hw = NoCommand
  /\ ide = "IDLE"
  /\ request_queue = <<>>
  /\ bio = [t \in Threads |-> "COMPLETE"]
  /\ mem = d
  /\ cached = {}
  /\ pgcache_lock = NULL
  /\ nhdr = [p \in Pages |-> 0]
  /\ ref = [b \in Blks |-> 0]
  /\ holder = [b \in Blks |-> NULL]
  /\ dirty = {}
  /\ io = [t \in Threads |-> Idle]

Goto(t, l) == [io EXCEPT ![t].at = l]
Start(t, l, b, op) == [io EXCEPT ![t] = [at |-> l, blk |-> b, op |-> op]]

\* An allocation for `what` fails: the call returns ERR_NOMEM (NULL for bdev_get_blk).
NoMem(t, what) ==
  /\ Len(fails) < MaxFails
  /\ fails' = Append(fails, what)
  /\ io' = Goto(t, "nomem")

\* pgcache_get_page: a hit, or a miss that keeps pgcache_lock while the page is read.
PgcacheHit(t) ==
  /\ io[t].at = "pgcache" /\ pgcache_lock = NULL
  /\ PageOf(io[t].blk) \in cached
  /\ io' = Goto(t, "headers")
  /\ UNCHANGED <<ioVars, cacheVars, fails, panic>>

\* A wrong miss: the page is read without pgcache_lock.
MissUnlocked(t) ==
  /\ io[t].at = "pgcache" /\ pgcache_lock = NULL
  /\ PageOf(io[t].blk) \notin cached
  /\ io' = Goto(t, "submit")
  /\ UNCHANGED <<ioVars, cacheVars, fails, panic>>

PgcacheMiss(t) ==
  /\ io[t].at = "pgcache" /\ pgcache_lock = NULL
  /\ PageOf(io[t].blk) \notin cached
  /\ pgcache_lock' = t
  /\ io' = Goto(t, "submit")
  /\ UNCHANGED <<ioVars, mem, cached, nhdr, ref, holder, dirty, fails, panic>>

\* pmem_alloc or bio_alloc fails for a page that is not cached.
PgcacheNoMem(t) ==
  /\ io[t].at = "pgcache" /\ pgcache_lock = NULL
  /\ PageOf(io[t].blk) \notin cached
  /\ NoMem(t, "page")
  /\ UNCHANGED <<ioVars, cacheVars, panic>>

\* bdev_make_request: the request is appended under queue_lock...
Submit(t) ==
  /\ io[t].at = "submit"
  /\ bio' = [bio EXCEPT ![t] = "PENDING"]
  /\ request_queue' = Append(request_queue, t)
  /\ io' = Goto(t, "kick")
  /\ UNCHANGED <<disk, hw, ide, cacheVars, fails, panic>>

\* ide_issue_cmd: the command for t's bio.  The data of a write is copied now.
Command(t) == [op   |-> io[t].op,
               blk  |-> IF io[t].op = "READ" THEN FIRST_BLK_IN_PAGE(io[t].blk) ELSE io[t].blk,
               data |-> mem[io[t].blk],
               done |-> FALSE]

StartsCommand == ide = "IDLE" /\ request_queue # <<>>

\* A wrong one: the caller's own request is started.
HandlerStartsOwn(t) ==
  /\ io[t].at = "kick"
  /\ IF StartsCommand
       THEN hw' = Command(t) /\ ide' = "BUSY"
       ELSE UNCHANGED <<hw, ide>>
  /\ io' = Goto(t, "wait")
  /\ UNCHANGED <<disk, request_queue, bio, cacheVars, fails, panic>>

\* ... and ide_request_handler starts the first request if the device is idle.
ide_request_handler(t) ==
  /\ io[t].at = "kick"
  /\ IF StartsCommand
       THEN hw' = Command(Head(request_queue)) /\ ide' = "BUSY"
       ELSE UNCHANGED <<hw, ide>>
  /\ io' = Goto(t, "wait")
  /\ UNCHANGED <<disk, request_queue, bio, cacheVars, fails, panic>>

\* The controller carries out its command and raises the interrupt (external).
Controller ==
  /\ hw.op # "NONE" /\ ~hw.done
  /\ disk' = IF hw.op = "WRITE" THEN [disk EXCEPT ![hw.blk] = hw.data] ELSE disk
  /\ hw' = [hw EXCEPT !.done = TRUE]
  /\ UNCHANGED <<ide, request_queue, bio, cacheVars, io, fails, panic>>

\* The first request is the active one; complete it and start the next.
ide_trap_handler ==
  /\ hw.op # "NONE" /\ hw.done /\ ide = "BUSY"
  /\ LET t == Head(request_queue)
         rest == Tail(request_queue)
         page == PageOf(io[t].blk)
     IN /\ mem' = IF io[t].op = "READ"
                    THEN [b \in Blks |-> IF PageOf(b) = page THEN disk[b] ELSE mem[b]]
                    ELSE mem
        /\ bio' = [bio EXCEPT ![t] = "COMPLETE"]
        /\ request_queue' = rest
        /\ IF rest # <<>>
             THEN hw' = Command(Head(rest)) /\ UNCHANGED ide
             ELSE hw' = NoCommand /\ ide' = "IDLE"
  /\ UNCHANGED <<disk, cached, pgcache_lock, nhdr, ref, holder, dirty, io, fails, panic>>

\* The wait for BIO_COMPLETE ends: a page read enters the cache, which panics
\* if the page is there already; a written block is clean.
RequestDone(t) ==
  /\ io[t].at = "wait" /\ bio[t] = "COMPLETE"
  /\ IF io[t].op = "READ"
       THEN /\ cached' = cached \cup {PageOf(io[t].blk)}
            /\ panic' = IF PageOf(io[t].blk) \in cached
                          THEN panic \cup {"node should not exist"} ELSE panic
            /\ pgcache_lock' = NULL
            /\ io' = Goto(t, "headers")
       ELSE io' = Goto(t, "ok") /\ UNCHANGED <<cached, pgcache_lock, panic>>
  /\ UNCHANGED <<ioVars, mem, nhdr, ref, holder, dirty, fails>>

\* init_blk_headers and the search for the block's header, under page->lock.
BlkHeader(t) ==
  /\ io[t].at = "headers"
  /\ LET b == io[t].blk
         p == PageOf(b)
         n == IF nhdr[p] = 0 THEN N_BLKS_PER_PAGE ELSE nhdr[p]
     IN /\ nhdr' = [nhdr EXCEPT ![p] = n]
        /\ IF b - FIRST_BLK_IN_PAGE(b) < n
             THEN /\ ref' = [ref EXCEPT ![b] = @ + 1]
                  /\ io' = Goto(t, "lock")
                  /\ UNCHANGED panic
             ELSE /\ io' = Goto(t, "panic")
                  /\ panic' = panic \cup {"bdev block not found in page"}
                  /\ UNCHANGED ref
  /\ UNCHANGED <<ioVars, mem, cached, pgcache_lock, holder, dirty, fails>>

\* init_blk_headers fails after k headers, which stay in the list.
BlkHeaderNoMem(t) ==
  /\ io[t].at = "headers"
  /\ nhdr[PageOf(io[t].blk)] = 0
  /\ NoMem(t, "headers")
  /\ \E k \in 0..(N_BLKS_PER_PAGE - 1) : nhdr' = [nhdr EXCEPT ![PageOf(io[t].blk)] = k]
  /\ UNCHANGED <<ioVars, mem, cached, pgcache_lock, ref, holder, dirty, panic>>

\* bdev_get_blk returns with bh->lock held.
BlkLock(t) ==
  /\ io[t].at = "lock" /\ holder[io[t].blk] = NULL
  /\ holder' = [holder EXCEPT ![io[t].blk] = t]
  /\ io' = Goto(t, "ok")
  /\ UNCHANGED <<ioVars, mem, cached, pgcache_lock, nhdr, ref, dirty, fails, panic>>

\* bio_alloc fails in bdev_write_blk, before the request.
WriteNoMem(t) ==
  /\ io[t].at = "submit" /\ io[t].op = "WRITE"
  /\ NoMem(t, "bio")
  /\ UNCHANGED <<ioVars, cacheVars, panic>>

\* A wrong bdev_release_blk: the lock is kept.
ReleaseLocked(b, r, S, p) ==
  /\ UNCHANGED holder
  /\ ref' = [r EXCEPT ![b] = IF @ > 0 THEN @ - 1 ELSE 0]
  /\ panic' = IF r[b] > 0 THEN p ELSE p \cup {"bh->ref > 0"}
  /\ nhdr' = IF PageOf(b) \notin S /\ \A c \in BlksIn(PageOf(b)) : ref'[c] = 0
               THEN [nhdr EXCEPT ![PageOf(b)] = 0] ELSE nhdr

\* bdev_release_blk: unlock, and free the headers of a clean page without references.
\* The header must have a reference.  r, S and p are the references, the dirty pages
\* and the failed assertions at that moment.
ReleaseBlk(b, r, S, p) ==
  /\ holder' = [holder EXCEPT ![b] = NULL]
  /\ ref' = [r EXCEPT ![b] = IF @ > 0 THEN @ - 1 ELSE 0]
  /\ panic' = IF r[b] > 0 THEN p ELSE p \cup {"bh->ref > 0"}
  /\ nhdr' = IF PageOf(b) \notin S /\ \A c \in BlksIn(PageOf(b)) : ref'[c] = 0
               THEN [nhdr EXCEPT ![PageOf(b)] = 0] ELSE nhdr

BdevStep(t) ==
  \/ PgcacheHit(t) \/ PgcacheMiss(t) \/ PgcacheNoMem(t)
  \/ Submit(t) \/ ide_request_handler(t) \/ RequestDone(t)
  \/ BlkHeader(t) \/ BlkHeaderNoMem(t) \/ BlkLock(t) \/ WriteNoMem(t)

Hardware == Controller \/ ide_trap_handler
=============================================================================
