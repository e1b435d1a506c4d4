------------------------------- MODULE JbdInv -------------------------------
(***************************************************************************)
(* The inductive invariant of Jbd: how far each call, request and commit    *)
(* has come, and what is in memory and on the disk by then.                 *)
(***************************************************************************)
EXTENDS Jbd

\* The journal's header, map and i-th data block.
H == sfs_journal_bmap(HEADER_BLK)
M == sfs_journal_bmap(BMAP_START_BLK)
D(i) == sfs_journal_bmap(JDATA_START_BLK) + i - 1

Busy == {"submit", "kick", "wait"}
Labels == {"none", "pgcache", "headers", "lock", "ok", "nomem", "panic"} \cup Busy
Frames == [at : Labels, blk : Blks \cup {0}, op : {"READ", "WRITE"}]
Committing == {"get", "fill", "release"}
InTxn(t) == pc[t] \in {"txn", "modify", "halt"} \cup Committing

\* Type correctness of the disk, the cache, the frames and the journal.
JbdTypeOK ==
  /\ disk = [b \in Blks |-> disk[b]] /\ mem = [b \in Blks |-> mem[b]]
  /\ ide \in {"IDLE", "BUSY"}
  /\ hw = [op |-> hw.op, blk |-> hw.blk, data |-> hw.data, done |-> hw.done]
  /\ request_queue \in Seq(Threads)
  /\ bio \in [Threads -> {"PENDING", "COMPLETE"}]
  /\ pgcache_lock \in Threads \cup {NULL}
  /\ nhdr \in [Pages -> Nat]
  /\ holder \in [Blks -> Threads \cup {NULL}]
  /\ io \in [Threads -> Frames]
  /\ fails \in Seq({"page", "headers", "bio"})
  /\ pc \in [Threads -> {"user", "txn", "modify", "read", "halt", "off"} \cup Committing]
  /\ jstate \in {"IDLE", "BUSY"}
  /\ datablks \in Seq(WriteBlks)
  /\ stage \in {"data", "bmap", "header", "apply", "erase"} /\ idx \in Nat

\* The frame of t in the block cache is the one its place in the file system call needs.
FrameOK(t) ==
  /\ pc[t] \in {"user", "txn", "get", "off"} => io[t].at = "none"
  /\ io[t].at = "none" => pc[t] \in {"user", "txn", "get", "halt", "off"}
  /\ pc[t] = "halt" => io[t].at \in {"none", "ok"}
  /\ io[t].at # "none" => io[t].blk \in Blks
  /\ io[t].op = "WRITE" <=> pc[t] = "release"
  /\ pc[t] = "release" => io[t].at \in Busy \cup {"ok", "nomem"}
  /\ pc[t] = "modify" => io[t].blk \in WriteBlks
  /\ pc[t] = "fill" => stage # "apply" /\ io[t].blk = Target
  /\ pc[t] = "release" => io[t].blk = IF stage = "apply" THEN datablks[idx + 1] ELSE Target
  /\ IF t \in Writers THEN pc[t] # "read" ELSE pc[t] \in {"user", "read", "off"}

\* A transaction logs at most JOURNAL_SIZE blocks, fewer if it commits, that many if it
\* has panicked.
LogBound ==
  /\ Len(datablks) <= JOURNAL_SIZE
  /\ \A t \in Threads : pc[t] \in Committing => Len(datablks) < JOURNAL_SIZE
  /\ \A t \in Threads : pc[t] = "halt" => Len(datablks) = JOURNAL_SIZE

\* One transaction at a time; and the machine stops as a whole.
TxnAlone ==
  /\ \A t \in Threads : InTxn(t) => jstate = "BUSY"
  /\ \A t, u \in Threads : InTxn(t) /\ InTxn(u) => t = u
  /\ jstate = "IDLE" => datablks = <<>>
  /\ LogBound
  /\ \A t, u \in Threads : pc[t] = "off" => pc[u] = "off"

\* The request queue has the pending requests, each once.
QueueRight ==
  /\ IsInjective(request_queue)
  /\ \A t \in Threads : t \in Range(request_queue) <=> bio[t] = "PENDING"
  /\ \A t \in Threads : bio[t] = "PENDING" => io[t].at \in {"kick", "wait"}

\* The controller works on the first request, with the data of its block.
DeviceRight ==
  /\ hw.op # "NONE" <=> ide = "BUSY"
  /\ ide = "BUSY" =>
       /\ request_queue # <<>>
       /\ LET r == io[Head(request_queue)]
          IN hw.op = r.op /\ hw.blk = Command(Head(request_queue)).blk /\ hw.data = mem[r.blk]
       /\ hw.done \in BOOLEAN
       /\ hw.done /\ hw.op = "WRITE" => disk[hw.blk] = hw.data

\* The locks of t, and the page they stand for.
LockOK(t) ==
  /\ io[t].at \in Busy /\ io[t].op = "READ" =>
       pgcache_lock = t /\ PageOf(io[t].blk) \notin cached
  /\ io[t].op = "WRITE" \/ io[t].at = "ok" => holder[io[t].blk] = t
  /\ io[t].at \in {"headers", "lock"} => PageOf(io[t].blk) \in cached

\* A block that is locked or logged is in the cache.
InCache ==
  /\ \A b \in Blks : holder[b] # NULL => PageOf(b) \in cached
  /\ \A b \in Range(datablks) : PageOf(b) \in cached

\* What the request of t has moved when it is complete.
Served(t) == io[t].at \in {"kick", "wait"} /\ bio[t] = "COMPLETE"
MovedOK(t) ==
  /\ Served(t) /\ io[t].op = "READ" =>
       \A b \in Blks : PageOf(b) = PageOf(io[t].blk) => mem[b] = disk[b]
  /\ (Served(t) \/ io[t].at = "ok") /\ io[t].op = "WRITE" => mem[io[t].blk] = disk[io[t].blk]

\* A cached block that no transaction has logged is as on the disk, held or not, but for
\* the block that a full journal has stopped a thread with.
Stopped(b) == \E t \in Threads : pc[t] = "halt" /\ io[t].at = "ok" /\ io[t].blk = b
Coherent ==
  \A b \in FsBlks :
    PageOf(b) \in cached /\ b \notin Range(datablks) /\ ~Stopped(b) => mem[b] = disk[b]

\* A thread has stopped if a panic of the journal was hit.  Without a failure of
\* init_blk_headers no page has a short list of headers, and none is missing.  The
\* assertion on references is left to RefInv.
JournalPanics == {"journal is filled up", "next_index < JOURNAL_SIZE"}
ShortList == \E i \in 1..Len(fails) : fails[i] = "headers"
NoPanic ==
  /\ panic \subseteq JournalPanics \cup {"bdev block not found in page", "bh->ref > 0"}
  /\ panic \cap JournalPanics # {} => \E t \in Threads : pc[t] = "halt"
  /\ "bdev block not found in page" \in panic => ShortList
  /\ \A p \in Pages : nhdr[p] \in {0, N_BLKS_PER_PAGE} \/ ShortList

\* How far the commit has come.
Copied(n) == \A i \in 1..n : disk[D(i)] = mem[datablks[i]]
InPlace(n) == \A i \in 1..n : disk[datablks[i]] = mem[datablks[i]]
CommitOK(t) ==
  pc[t] \in Committing =>
    /\ stage \in {"data", "apply"} => idx < Len(datablks)
    /\ stage = "bmap" => datablks # <<>>
    /\ stage = "erase" => datablks = <<>>
    /\ stage = "data" => Copied(idx)
    /\ stage \in {"bmap", "header", "apply"} => Copied(Len(datablks))
    /\ stage \in {"header", "apply"} /\ datablks # <<>> => disk[M] = datablks
    /\ stage = "apply" => disk[H] = Len(datablks) /\ InPlace(idx)
    /\ pc[t] = "release" /\ stage # "apply" => mem[Target] = Content

\* What the journal on the disk says while the machine runs: nothing but during a
\* commit; then all that is logged, or what has been written in place already.
JournalRight ==
  /\ IsInjective(datablks) /\ disk[H] \in Nat
  /\ \A t \in Threads : pc[t] # "off" /\ disk[H] > 0 =>
       /\ \E u \in Threads : pc[u] \in Committing
       /\ datablks # <<>> => /\ disk[H] = Len(datablks) /\ disk[M] = datablks
                             /\ Copied(Len(datablks))
       /\ datablks = <<>> => /\ disk[M] \in Seq(FsBlks) /\ Len(disk[M]) = disk[H]
                             /\ IsInjective(disk[M])
                             /\ \A i \in 1..disk[H] : disk[disk[M][i]] = disk[D(i)]

JbdInv ==
  /\ JbdTypeOK /\ TxnAlone /\ QueueRight /\ DeviceRight /\ InCache /\ Coherent
  /\ NoPanic
  /\ \A t \in Threads : FrameOK(t) /\ LockOK(t) /\ MovedOK(t) /\ CommitOK(t)
  /\ JournalRight

\* The threads with a reference to block b's header, and the blocks the journal has one
\* to.  The write of a logged block in its place uses the journal's.
Uses(t, b) ==
  /\ io[t].blk = b
  /\ IF io[t].op = "READ" THEN io[t].at \in {"lock", "ok"} ELSE stage # "apply"
Users(b) == {t \in Threads : Uses(t, b)}

\* The journal's references are released one by one by apply_journal.  When that fails, the
\* committing thread keeps the block at that place locked and never gets past it again.
Stuck(i) == stage # "apply" /\ \E t \in Threads : pc[t] \in Committing /\ holder[datablks[i]] = t
Pinned == {datablks[i] : i \in {j \in 1..Len(datablks) :
             IF stage = "apply" THEN j > idx ELSE \A k \in 1..Len(datablks) : Stuck(k) => j >= k}}

\* Why t has locked block b: it uses it, it writes it in its place, or it is stuck with it.
HeldAs(t, b) ==
  \/ pc[t] \notin Committing /\ io[t].at = "ok" /\ io[t].blk = b
  \/ pc[t] = "release" /\ stage = "apply" /\ io[t].blk = b
  \/ /\ pc[t] \in Committing /\ stage = "data"
     /\ \E i \in 1..Len(datablks) :
          datablks[i] = b /\ idx < i /\ (pc[t] = "release" => idx + 1 < i)
HeldRight == \A b \in FsBlks : \A t \in Threads : holder[b] = t => HeldAs(t, b)

\* bh->ref counts at least them, and the assertion on it does not fail.
RefsRight ==
  /\ "bh->ref > 0" \notin panic
  /\ \A b \in Blks : ref[b] >= Cardinality(Users(b)) + IF b \in Pinned THEN 1 ELSE 0

\* A block with a reference has a header in its page's list.
HeadersThere ==
  \A b \in Blks : ref[b] > 0 => b - FIRST_BLK_IN_PAGE(b) < nhdr[PageOf(b)]

RefInv ==
  /\ ref \in [Blks -> Nat] /\ RefsRight /\ HeadersThere /\ HeldRight
  /\ stage = "apply" => \E t \in Threads : pc[t] \in Committing
=============================================================================
