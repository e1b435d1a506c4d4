--------------------------------- MODULE Jbd ---------------------------------
(***************************************************************************)
(* The journal (kernel/fs/jbd.c) on the block cache and the disk of Bdev,   *)
(* with writers that modify file system blocks in transactions and readers  *)
(* that read them outside.  The machine may stop at any step; only the disk *)
(* survives.  Block numbers: the file system's blocks, then the journal's   *)
(* header, map and data blocks.  The map is one block (BMAP_BLKS = 1).      *)
(***************************************************************************)
EXTENDS Bdev, Functions

CONSTANTS
  Writers, Readers,
  WriteBlks, ReadBlks, \* the file system blocks they use
  Calls,              \* the sequences of blocks a file system call logs, with their prefixes
  Vals,               \* contents of a file system block
  JStart,             \* s_journal_start
  JOURNAL_SIZE

VARIABLES
  pc,                 \* where each thread is in its file system call; halt after a panic
                      \* of the journal, off after a crash
  jstate,             \* journal->state
  datablks,           \* journal->datablks up to next_index
  stage, idx          \* step of commit_journal, and its loop index

jbdVars == <<pc, jstate, datablks, stage, idx>>
vars == <<bdevVars, jbdVars>>

FsBlks == {b \in Blks : b < JStart}
sfs_journal_bmap(lb) == JStart + lb
HEADER_BLK == 0
BMAP_START_BLK == 1
JDATA_START_BLK == 2

\* The disk comes from mkfs: its journal is empty and has room for a header, a map and
\* JOURNAL_SIZE data blocks.  How many blocks a transaction writes is not assumed.
ASSUME JbdAssumption ==
  /\ Threads = Writers \cup Readers /\ Writers \cap Readers = {}
  /\ Blks \subseteq Nat /\ JStart \in Nat /\ JOURNAL_SIZE \in Nat \ {0}
  /\ \A lb \in 0..(JOURNAL_SIZE + 1) : sfs_journal_bmap(lb) \in Blks
  /\ Disk0[sfs_journal_bmap(HEADER_BLK)] = 0
  /\ WriteBlks \subseteq FsBlks /\ ReadBlks \subseteq FsBlks

\* jbd_alloc_journal on a machine that has just started.
Mount ==
  /\ pc = [t \in Threads |-> "user"]
  /\ jstate = "IDLE"
  /\ datablks = <<>>
  /\ stage = "data" /\ idx = 0

Init == Boot(Disk0) /\ fails = <<>> /\ panic = {} /\ Mount

jbd_begin_txn(t) ==
  /\ pc[t] = "user" /\ jstate = "IDLE"
  /\ jstate' = "BUSY"
  /\ pc' = [pc EXCEPT ![t] = "txn"]
  /\ UNCHANGED <<bdevVars, datablks, stage, idx>>

\* In a transaction a block is fetched for modification; a reader fetches one to read.
bdev_get_blk(t, b) ==
  /\ pc[t] = IF t \in Writers THEN "txn" ELSE "user"
  /\ io[t].at = "none"
  /\ io' = Start(t, "pgcache", b, "READ")
  /\ pc' = [pc EXCEPT ![t] = IF t \in Writers THEN "modify" ELSE "read"]
  /\ UNCHANGED <<ioVars, cacheVars, fails, panic, jstate, datablks, stage, idx>>

\* A caller that gets NULL gives up: back to the transaction, or to the user.
GetFailed(t) ==
  /\ pc[t] \in {"modify", "read"} /\ io[t].at = "nomem"
  /\ io' = [io EXCEPT ![t] = Idle]
  /\ pc' = [pc EXCEPT ![t] = IF t \in Writers THEN "txn" ELSE "user"]
  /\ UNCHANGED <<ioVars, cacheVars, fails, panic, jstate, datablks, stage, idx>>

\* A wrong jbd_write_blk: one block of a page is recorded for all of them.
LogPage(b) == IF \E c \in BlksIn(PageOf(b)) : c \in Range(datablks) THEN datablks ELSE Append(datablks, b)
Log(b) == IF b \in Range(datablks) THEN datablks ELSE Append(datablks, b)

\* The assertion that a transaction is open.
NotBusy == {x \in {"journal->state == BUSY"} : jstate # "BUSY"}

\* The block gets its new content, is set dirty and logged (jbd_write_blk) and released.
jbd_write_blk(t, v) ==
  /\ pc[t] = "modify" /\ io[t].at = "ok"
  /\ LET b == io[t].blk
     IN /\ Len(Log(b)) <= JOURNAL_SIZE
        /\ mem' = [mem EXCEPT ![b] = v]
        /\ dirty' = dirty \cup {PageOf(b)}
        /\ datablks' = Log(b)
        /\ ReleaseBlk(b, [ref EXCEPT ![b] = @ + Len(Log(b)) - Len(datablks)], dirty',
                      panic \cup NotBusy)
  /\ io' = [io EXCEPT ![t] = Idle]
  /\ pc' = [pc EXCEPT ![t] = "txn"]
  /\ UNCHANGED <<ioVars, cached, pgcache_lock, fails, jstate, stage, idx>>

\* jbd_write_blk panics when the log has no place left: the thread stops for ever, with
\* the changed block locked and the transaction open.  The others go on.
JournalFull(t, v) ==
  /\ pc[t] = "modify" /\ io[t].at = "ok"
  /\ Len(Log(io[t].blk)) > JOURNAL_SIZE
  /\ mem' = [mem EXCEPT ![io[t].blk] = v]
  /\ dirty' = dirty \cup {PageOf(io[t].blk)}
  /\ panic' = panic \cup NotBusy \cup {"journal is filled up"}
  /\ pc' = [pc EXCEPT ![t] = "halt"]
  /\ UNCHANGED <<ioVars, cached, pgcache_lock, nhdr, ref, holder, io, fails,
                 jstate, datablks, stage, idx>>

ReadBlk(t) ==
  /\ pc[t] = "read" /\ io[t].at = "ok"
  /\ ReleaseBlk(io[t].blk, ref, dirty, panic)
  /\ io' = [io EXCEPT ![t] = Idle]
  /\ pc' = [pc EXCEPT ![t] = "user"]
  /\ UNCHANGED <<ioVars, mem, cached, pgcache_lock, dirty, fails, jstate, datablks, stage, idx>>

\* jbd_end_txn: an empty journal needs no commit, and the commit of a full one stops at
\* the assertion of write_journal_blks.
jbd_end_txn(t) ==
  /\ pc[t] = "txn"
  /\ IF datablks = <<>>
       THEN jstate' = "IDLE" /\ pc' = [pc EXCEPT ![t] = "user"]
       ELSE /\ UNCHANGED jstate
            /\ pc' = [pc EXCEPT ![t] = IF Len(datablks) < JOURNAL_SIZE THEN "get" ELSE "halt"]
  /\ stage' = "data" /\ idx' = 0
  /\ panic' = panic \cup NotBusy \cup {x \in {"next_index < JOURNAL_SIZE"} :
                                         Len(datablks) >= JOURNAL_SIZE}
  /\ UNCHANGED <<ioVars, cacheVars, io, fails, datablks>>

\* The journal block each stage of the commit writes, and what it writes there.
Target ==
  sfs_journal_bmap(CASE stage = "data" -> JDATA_START_BLK + idx
                     [] stage = "bmap" -> BMAP_START_BLK
                     [] OTHER -> HEADER_BLK)
Content ==
  CASE stage = "data" -> mem[datablks[idx + 1]]
    [] stage = "bmap" -> datablks
    [] OTHER -> Len(datablks)

\* The loops over the data blocks and over the logged blocks.
MoreBlks == stage \in {"data", "apply"} /\ idx + 1 < Len(datablks)

\* A wrong order of commit_journal: the header is written before the map.
HeaderBeforeMap ==
  IF MoreBlks THEN [stage |-> stage, idx |-> idx + 1]
  ELSE [stage |-> CASE stage = "data" -> "header"
                    [] stage = "header" -> "bmap"
                    [] stage = "bmap" /\ datablks # <<>> -> "apply"
                    [] OTHER -> "erase",
        idx |-> 0]

\* commit_journal: data blocks and map, header, apply, erase.
NextStage ==
  IF MoreBlks THEN [stage |-> stage, idx |-> idx + 1]
  ELSE [stage |-> CASE stage = "data" -> "bmap"
                    [] stage = "bmap" -> "header"
                    [] stage = "header" /\ datablks # <<>> -> "apply"
                    [] OTHER -> "erase",
        idx |-> 0]

\* write_journal_blks, write_journal_header: fetch the journal block...
CommitGet(t) ==
  /\ pc[t] = "get" /\ stage # "apply"
  /\ io' = Start(t, "pgcache", Target, "READ")
  /\ pc' = [pc EXCEPT ![t] = "fill"]
  /\ UNCHANGED <<ioVars, cacheVars, fails, panic, jstate, datablks, stage, idx>>

\* ... fill it, under the lock of the logged block if it is copied, and write it.
CommitFill(t) ==
  /\ pc[t] = "fill" /\ io[t].at = "ok"
  /\ stage = "data" => holder[datablks[idx + 1]] = NULL
  /\ mem' = [mem EXCEPT ![Target] = Content]
  /\ io' = Start(t, "submit", Target, "WRITE")
  /\ pc' = [pc EXCEPT ![t] = "release"]
  /\ UNCHANGED <<ioVars, cached, pgcache_lock, nhdr, ref, holder, dirty, fails, panic,
                 jstate, datablks, stage, idx>>

\* apply_journal: lock the logged block and write it in its place.
ApplyWrite(t) ==
  /\ pc[t] = "get" /\ stage = "apply"
  /\ LET b == datablks[idx + 1]
     IN /\ holder[b] = NULL
        /\ holder' = [holder EXCEPT ![b] = t]
        /\ io' = Start(t, "submit", b, "WRITE")
  /\ pc' = [pc EXCEPT ![t] = "release"]
  /\ UNCHANGED <<ioVars, mem, cached, pgcache_lock, nhdr, ref, dirty, fails, panic,
                 jstate, datablks, stage, idx>>

\* The write is done: release the block and go on.  Before the erase next_index is
\* reset; after it the journal is idle again and the waiters are woken.
CommitNext(t) ==
  /\ pc[t] = "release" /\ io[t].at = "ok"
  /\ ReleaseBlk(io[t].blk, ref, dirty, panic)
  /\ io' = [io EXCEPT ![t] = Idle]
  /\ IF stage = "erase"
       THEN /\ jstate' = "IDLE"
            /\ pc' = [pc EXCEPT ![t] = "user"]
            /\ UNCHANGED <<datablks, stage, idx>>
       ELSE /\ stage' = NextStage.stage /\ idx' = NextStage.idx
            /\ datablks' = IF NextStage.stage = "erase" THEN <<>> ELSE datablks
            /\ pc' = [pc EXCEPT ![t] = "get"]
            /\ UNCHANGED jstate
  /\ UNCHANGED <<ioVars, mem, cached, pgcache_lock, dirty, fails>>

\* A step of the commit fails.  commit_journal is called again from the start; what
\* the failed step had locked stays locked.
CommitRetry(t) ==
  /\ pc[t] \in {"fill", "release"} /\ io[t].at = "nomem"
  /\ io' = [io EXCEPT ![t] = Idle]
  /\ pc' = [pc EXCEPT ![t] = "get"]
  /\ stage' = IF datablks = <<>> THEN "header" ELSE "data"
  /\ idx' = 0
  /\ UNCHANGED <<ioVars, cacheVars, fails, panic, jstate, datablks>>

\* The machine stops: everything but the disk is lost.
Crash ==
  /\ \E t \in Threads : pc[t] # "off"
  /\ UNCHANGED disk
  /\ hw' = NoCommand /\ ide' = "IDLE" /\ request_queue' = <<>>
  /\ bio' = [t \in Threads |-> "COMPLETE"]
  /\ mem' = disk /\ cached' = {} /\ pgcache_lock' = NULL
  /\ nhdr' = [p \in Pages |-> 0]
  /\ ref' = [b \in Blks |-> 0] /\ holder' = [b \in Blks |-> NULL] /\ dirty' = {}
  /\ io' = [t \in Threads |-> Idle]
  /\ pc' = [t \in Threads |-> "off"]
  /\ jstate' = "IDLE" /\ datablks' = <<>> /\ stage' = "data" /\ idx' = 0
  /\ panic' = {}
  /\ UNCHANGED fails

WriterStep(t) ==
  \/ jbd_begin_txn(t)
  \/ \E b \in WriteBlks : Log(b) \in Calls /\ bdev_get_blk(t, b)
  \/ \E v \in Vals : jbd_write_blk(t, v) \/ JournalFull(t, v)
  \/ jbd_end_txn(t)
  \/ CommitGet(t) \/ CommitFill(t) \/ ApplyWrite(t) \/ CommitNext(t) \/ CommitRetry(t)

ReaderStep(t) == ReadBlk(t) \/ \E b \in ReadBlks : bdev_get_blk(t, b)

Next ==
  \/ \E t \in Writers : WriterStep(t)
  \/ \E t \in Readers : ReaderStep(t)
  \/ \E t \in Threads : GetFailed(t)
  \/ \E t \in Threads : BdevStep(t) /\ UNCHANGED jbdVars
  \/ Hardware /\ UNCHANGED jbdVars
  \/ Crash

Spec == Init /\ [][Next]_vars

\* Threads and device go on by themselves and a file system call modifies finitely
\* many blocks; a thread that waits for a lock gets it if it is free again and again.
Proceed(t) ==
  \/ BdevStep(t) /\ UNCHANGED jbdVars
  \/ GetFailed(t) \/ ReadBlk(t)
  \/ \E v \in Vals : jbd_write_blk(t, v) \/ JournalFull(t, v)
  \/ CommitGet(t) \/ CommitFill(t) \/ ApplyWrite(t) \/ CommitNext(t) \/ CommitRetry(t)

Fairness ==
  /\ WF_vars(Hardware /\ UNCHANGED jbdVars)
  /\ \A t \in Readers : WF_vars(Proceed(t))
  /\ \A t \in Writers : SF_vars(Proceed(t)) /\ SF_vars(jbd_end_txn(t))

FairSpec == Spec /\ Fairness

(***************************************************************************)
(* Properties.                                                             *)
(***************************************************************************)

\* The file system blocks a recovery from the journal on the disk d would restore:
\* the blocks in place, overwritten by the journal's if its header counts any.
Recovered(d) ==
  [b \in FsBlks |->
     LET n == d[sfs_journal_bmap(HEADER_BLK)]
         bmap == d[sfs_journal_bmap(BMAP_START_BLK)]
         at == {i \in 1..n : i <= Len(bmap) /\ bmap[i] = b}
     IN IF at = {} THEN d[b]
        ELSE d[sfs_journal_bmap(JDATA_START_BLK) + (CHOOSE i \in at : TRUE) - 1]]

\* The blocks written by the open transaction until its header is on the disk.
Uncommitted ==
  [b \in IF disk[sfs_journal_bmap(HEADER_BLK)] > 0 THEN {} ELSE Range(datablks) |-> mem[b]]

\* Whatever step the machine stops at, recovering from the journal yields all blocks
\* of a transaction or none: commit_journal's order of writes implements AtomicDisk.
Atomic == INSTANCE AtomicDisk WITH Blocks <- FsBlks, Store0 <- Recovered(Disk0),
                                   store <- Recovered(disk), txn <- Uncommitted
ImplementsAtomicDisk == Atomic!Spec

\* The controller always works on the first request of the queue, and writes the
\* block's present content: completing the first request completes the right one.
CommandIsFirst ==
  /\ (hw.op # "NONE") = (ide = "BUSY")
  /\ ide = "BUSY" => /\ request_queue # <<>>
                     /\ [hw EXCEPT !.done = FALSE] = Command(Head(request_queue))
                     /\ bio[Head(request_queue)] = "PENDING"

\* A cached block that no transaction has logged and nobody holds is as on the disk:
\* no change is lost or kept in memory only.
CacheCoherent ==
  \A b \in FsBlks :
    PageOf(b) \in cached /\ b \notin Range(datablks) /\ holder[b] = NULL => mem[b] = disk[b]

\* The panics and assertions of the block cache and the journal that can be reached, each
\* with its cause.  The journal's two are those of a transaction of JOURNAL_SIZE blocks,
\* which jbd_write_blk accepts and write_journal_blks does not.  A header is missing from
\* its page only after init_blk_headers has failed half-way.  No other one fails, whatever
\* allocation does: a page is inserted once, a header is released as often as it was got
\* (retried commits included), and only an open transaction writes or ends.
AssertionsHold ==
  /\ panic \subseteq {"journal is filled up", "next_index < JOURNAL_SIZE",
                      "bdev block not found in page"}
  /\ panic \cap {"journal is filled up", "next_index < JOURNAL_SIZE"} # {} =>
       Len(datablks) = JOURNAL_SIZE
  /\ "bdev block not found in page" \in panic => "headers" \in Range(fails)

\* A thread waits for a block's lock that it holds itself: commit_journal was called
\* again after bdev_write_blk failed.
SelfBlocked ==
  \E t \in Threads :
    \/ io[t].at = "lock" /\ holder[io[t].blk] = t
    \/ pc[t] = "fill" /\ stage = "data" /\ holder[datablks[idx + 1]] = t

\* jbd_end_txn: an open transaction ends, unless the machine stops, panics, or the
\* commit blocks on itself.
TxnEnds == (jstate = "BUSY") ~> (jstate = "IDLE" \/ panic # {} \/ SelfBlocked)
=============================================================================
