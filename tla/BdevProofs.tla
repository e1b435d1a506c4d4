----------------------------- MODULE BdevProofs -----------------------------
(***************************************************************************)
(* The block cache and the disk keep JbdInv: facts about the journal's      *)
(* blocks, pages, queue and frames, then a lemma for each action of Bdev.   *)
(***************************************************************************)
EXTENDS JbdInv, TLAPS

(***************************************************************************)
(* Facts about block numbers, frames and the log.                           *)
(***************************************************************************)

\* The journal's blocks are on the disk, apart from each other and from the file
\* system's.
LEMMA JournalBlks ==
  /\ FsBlks \subseteq Blks /\ WriteBlks \subseteq FsBlks /\ ReadBlks \subseteq FsBlks
  /\ H \in Blks \ FsBlks /\ M \in Blks \ FsBlks /\ H # M
  /\ \A i \in 1..JOURNAL_SIZE : D(i) \in Blks \ FsBlks /\ D(i) # H /\ D(i) # M
  /\ \A i, j \in 1..JOURNAL_SIZE : D(i) = D(j) => i = j
<1>0. JOURNAL_SIZE \in Nat
  BY JbdAssumption
<1>1. FsBlks \subseteq Blks /\ WriteBlks \subseteq FsBlks /\ ReadBlks \subseteq FsBlks
  BY JbdAssumption, Zenon DEF FsBlks
<1>2. \A b \in Blks : b \in FsBlks <=> b < JStart
  BY Zenon DEF FsBlks
<1>3. H = JStart /\ M = JStart + 1 /\ \A i \in Nat : D(i) = JStart + 1 + i
  BY JbdAssumption DEF H, M, D, sfs_journal_bmap, HEADER_BLK, BMAP_START_BLK, JDATA_START_BLK
<1>4. \A lb \in 0..(JOURNAL_SIZE + 1) : JStart + lb \in Blks
  BY JbdAssumption, Zenon DEF sfs_journal_bmap
<1>5. \A lb \in 0..(JOURNAL_SIZE + 1) : JStart + lb \in Blks \ FsBlks
  BY <1>2, <1>4, JbdAssumption
<1>6. JStart + 0 = JStart /\ JStart \in Nat
  BY JbdAssumption
<1>7. H \in Blks \ FsBlks /\ M \in Blks \ FsBlks /\ H # M
  BY <1>0, <1>3, <1>5, <1>6
<1>8. ASSUME NEW i \in 1..JOURNAL_SIZE
      PROVE  i \in Nat /\ i + 1 \in 0..(JOURNAL_SIZE + 1) /\ D(i) = JStart + (i + 1)
  BY <1>0, <1>3, <1>6
<1>9. ASSUME NEW i \in 1..JOURNAL_SIZE
      PROVE  D(i) \in Blks \ FsBlks /\ D(i) # H /\ D(i) # M
  BY <1>0, <1>3, <1>5, <1>6, <1>8
<1>10. ASSUME NEW i \in 1..JOURNAL_SIZE, NEW j \in 1..JOURNAL_SIZE, D(i) = D(j)
       PROVE  i = j
  BY <1>8, <1>10, <1>6
<1> QED
  BY <1>1, <1>7, <1>9, <1>10, Zenon

\* A page number is a page; a block's place in its page is less than the page's size.
LEMMA PageFacts ==
  ASSUME NEW b \in Blks
  PROVE  PageOf(b) \in Pages /\ b - FIRST_BLK_IN_PAGE(b) < N_BLKS_PER_PAGE
<1>1. b \in Nat /\ N_BLKS_PER_PAGE \in Nat /\ N_BLKS_PER_PAGE > 0
  BY BdevAssumption, JbdAssumption
<1>2. (b % N_BLKS_PER_PAGE) \in 0..(N_BLKS_PER_PAGE - 1)
  BY <1>1
<1>3. b - (b - (b % N_BLKS_PER_PAGE)) < N_BLKS_PER_PAGE
  BY <1>1, <1>2
<1> QED
  BY <1>3, Zenon DEF Pages, FIRST_BLK_IN_PAGE

\* A request that is queued comes after the others.
LEMMA AppendFacts ==
  ASSUME NEW S, NEW s \in Seq(S), NEW x \in S, x \notin Range(s), IsInjective(s)
  PROVE  /\ Append(s, x) \in Seq(S) /\ IsInjective(Append(s, x))
         /\ Range(Append(s, x)) = Range(s) \cup {x}
         /\ Append(s, x) # <<>>
         /\ s # <<>> => Head(Append(s, x)) = Head(s)
<1>1. /\ Append(s, x) \in Seq(S) /\ DOMAIN Append(s, x) = 1..(Len(s) + 1)
      /\ \A i \in 1..Len(s) : Append(s, x)[i] = s[i]
      /\ Append(s, x)[Len(s) + 1] = x /\ Len(s) \in Nat /\ DOMAIN s = 1..Len(s)
  OBVIOUS
<1>2. IsInjective(Append(s, x))
  BY <1>1 DEF IsInjective, Range
<1>3. Range(Append(s, x)) = Range(s) \cup {x}
  BY <1>1 DEF Range
<1>4. Append(s, x) # <<>>
  <2>1. Len(Append(s, x)) = Len(s) + 1 /\ Len(s) \in Nat /\ Len(<<>>) = 0
    OBVIOUS
  <2> QED
    BY <2>1
<1>5. s # <<>> => Head(Append(s, x)) = Head(s)
  <2>1. ASSUME s # <<>>
        PROVE  1 \in 1..Len(s) /\ Head(s) = s[1]
    BY <2>1
  <2>2. Head(Append(s, x)) = Append(s, x)[1]
    BY <1>1, <1>4
  <2> QED
    BY <1>1, <2>1, <2>2, Zenon
<1> QED
  BY <1>1, <1>2, <1>3, <1>4, <1>5, Zenon

\* The first request leaves the queue.
LEMMA TailFacts ==
  ASSUME NEW S, NEW s \in Seq(S), s # <<>>, IsInjective(s)
  PROVE  /\ Tail(s) \in Seq(S) /\ IsInjective(Tail(s)) /\ Head(s) \in S
         /\ Head(s) \in Range(s) /\ Range(Tail(s)) = Range(s) \ {Head(s)}
         /\ Tail(s) # <<>> => Head(Tail(s)) \in Range(Tail(s))
<1>1. /\ Tail(s) \in Seq(S) /\ DOMAIN Tail(s) = 1..(Len(s) - 1)
      /\ \A i \in 1..(Len(s) - 1) : Tail(s)[i] = s[i + 1]
      /\ Len(s) \in Nat \ {0} /\ DOMAIN s = 1..Len(s) /\ Head(s) = s[1] /\ Head(s) \in S
  OBVIOUS
<1>2. ASSUME NEW x \in Range(Tail(s))
      PROVE  x \in Range(s) \ {Head(s)}
  <2>1. PICK i \in 1..(Len(s) - 1) : x = s[i + 1]
    BY <1>1, <1>2, Zenon DEF Range
  <2>2. i + 1 \in 1..Len(s) /\ 1 \in 1..Len(s) /\ i + 1 # 1
    BY <1>1
  <2> QED
    BY <1>1, <2>1, <2>2, Zenon DEF Range, IsInjective
<1>3. ASSUME NEW x \in Range(s) \ {Head(s)}
      PROVE  x \in Range(Tail(s))
  <2>1. PICK i \in 1..Len(s) : x = s[i]
    BY <1>1, <1>3, Zenon DEF Range
  <2>2. i - 1 \in 1..(Len(s) - 1) /\ (i - 1) + 1 = i
    BY <1>1, <1>3, <2>1
  <2> QED
    BY <1>1, <2>1, <2>2, Zenon DEF Range
<1>4. IsInjective(Tail(s))
  BY <1>1 DEF IsInjective
<1>5. Tail(s) # <<>> => Head(Tail(s)) \in Range(Tail(s))
  BY <1>1 DEF Range
<1>6. Head(s) \in Range(s)
  BY <1>1 DEF Range
<1> QED
  BY <1>1, <1>2, <1>3, <1>4, <1>5, <1>6, Zenon

\* A frame that moves on keeps its block and operation; the others are left alone.
LEMMA GotoIs ==
  ASSUME io \in [Threads -> Frames], NEW t \in Threads, NEW l \in Labels, io' = Goto(t, l)
  PROVE  /\ io' \in [Threads -> Frames]
         /\ io'[t].at = l /\ io'[t].blk = io[t].blk /\ io'[t].op = io[t].op
         /\ \A u \in Threads \ {t} : io'[u] = io[u]
  BY Zenon DEF Goto, Frames

\* A frame that starts.
LEMMA StartIs ==
  ASSUME io \in [Threads -> Frames], NEW t \in Threads, NEW l \in Labels,
         NEW b \in Blks, NEW op \in {"READ", "WRITE"}, io' = Start(t, l, b, op)
  PROVE  /\ io' \in [Threads -> Frames]
         /\ io'[t].at = l /\ io'[t].blk = b /\ io'[t].op = op
         /\ \A u \in Threads \ {t} : io'[u] = io[u]
  BY Zenon DEF Start, Frames

\* A frame that ends.
LEMMA IdleIs ==
  ASSUME io \in [Threads -> Frames], NEW t \in Threads, io' = [io EXCEPT ![t] = Idle]
  PROVE  /\ io' \in [Threads -> Frames]
         /\ io'[t].at = "none" /\ io'[t].op = "READ"
         /\ \A u \in Threads \ {t} : io'[u] = io[u]
  BY Zenon DEF Idle, Frames, Labels

(***************************************************************************)
(* What a step of one thread leaves alone.                                  *)
(***************************************************************************)

\* A step that touches neither the device nor the data, of a thread without a
\* pending request, keeps the queue, the command and what has been moved.
LEMMA LocalStep ==
  ASSUME JbdTypeOK, QueueRight, DeviceRight, \A u \in Threads : MovedOK(u),
         NEW t \in Threads, UNCHANGED <<ioVars, mem>>, bio[t] # "PENDING",
         io'[t].at \notin {"kick", "wait"},
         io'[t].at = "ok" /\ io'[t].op = "WRITE" => mem[io'[t].blk] = disk[io'[t].blk],
         \A u \in Threads \ {t} : io'[u] = io[u]
  PROVE  QueueRight' /\ DeviceRight' /\ \A u \in Threads : MovedOK(u)'
<1>0. UNCHANGED <<disk, hw, ide, request_queue, bio, mem>>
  BY Zenon DEF ioVars
<1>1. QueueRight'
  BY <1>0, Zenon DEF QueueRight
<1>2. DeviceRight'
  <2>1. CASE ide = "BUSY"
    <3>1. request_queue # <<>> /\ Head(request_queue) \in Range(request_queue)
      BY <2>1 DEF JbdTypeOK, DeviceRight, Range
    <3>2. Head(request_queue) \in Threads /\ bio[Head(request_queue)] = "PENDING"
      BY <3>1 DEF JbdTypeOK, QueueRight
    <3>3. io'[Head(request_queue)] = io[Head(request_queue)]
      BY <3>2, Zenon
    <3> QED
      BY <1>0, <3>3, Zenon DEF DeviceRight, Command
  <2>2. CASE ide # "BUSY"
    BY <1>0, <2>2, Zenon DEF DeviceRight
  <2> QED
    BY <2>1, <2>2, Zenon
<1>3. ASSUME NEW u \in Threads
      PROVE  MovedOK(u)'
  <2>1. CASE u = t
    BY <1>0, <2>1, Zenon DEF MovedOK, Served
  <2>2. CASE u # t
    <3>1. io'[u] = io[u] /\ MovedOK(u)
      BY <2>2, Zenon
    <3> QED
      BY <1>0, <3>1, Zenon DEF MovedOK, Served
  <2> QED
    BY <2>1, <2>2, Zenon
<1> QED
  BY <1>1, <1>2, <1>3, Zenon

\* The frames of the other threads stay right.
LEMMA OtherFrames ==
  ASSUME TxnAlone, NEW t \in Threads, NEW u \in Threads \ {t}, FrameOK(u),
         io'[u] = io[u] /\ pc'[u] = pc[u],
         UNCHANGED <<stage, idx, datablks>> \/ InTxn(t)
  PROVE  FrameOK(u)'
<1>1. CASE UNCHANGED <<stage, idx, datablks>>
  <2>1. Target' = Target
    BY <1>1, Zenon DEF Target, sfs_journal_bmap, HEADER_BLK, BMAP_START_BLK, JDATA_START_BLK
  <2> QED
    BY <1>1, <2>1, Zenon DEF FrameOK
<1>2. CASE InTxn(t)
  <2>1. ~InTxn(u)
    BY <1>2, Zenon DEF TxnAlone
  <2>2. pc[u] # "fill" /\ pc[u] # "release"
    BY <2>1, Zenon DEF InTxn, Committing
  <2> QED
    BY <2>2, Zenon DEF FrameOK
<1> QED
  BY <1>1, <1>2, Zenon

\* The locks of a thread whose frame is left alone stay right.
LEMMA LocksKept ==
  ASSUME NEW u \in Threads, FrameOK(u), LockOK(u), io'[u] = io[u],
         pgcache_lock = u => pgcache_lock' = u /\ cached' = cached,
         \A b \in Blks : holder[b] = u => holder'[b] = u,
         cached \subseteq cached'
  PROVE  LockOK(u)'
<1>1. io[u].op = "WRITE" \/ io[u].at = "ok" => io[u].blk \in Blks
  BY DEF FrameOK
<1> QED
  BY <1>1, Zenon DEF LockOK

\* A step of the block cache that moves no data keeps the transaction, the commit
\* and the journal.
LEMMA FrameStep ==
  ASSUME JbdInv, NEW t \in Threads, UNCHANGED <<disk, mem, jbdVars>>,
         NEW l \in Labels \ {"none"}, io' = Goto(t, l), io[t].at \notin {"none", "ok"},
         io[t].op = "WRITE" => l \in Busy \cup {"ok", "nomem"}
  PROVE  /\ TxnAlone' /\ JournalRight'
         /\ \A u \in Threads : FrameOK(u)' /\ CommitOK(u)'
<1>0. /\ UNCHANGED <<disk, mem, pc, jstate, datablks, stage, idx>>
      /\ Target' = Target /\ Content' = Content
  BY Zenon DEF jbdVars, Target, Content, sfs_journal_bmap, HEADER_BLK, BMAP_START_BLK,
               JDATA_START_BLK
<1>1. /\ io'[t].at = l /\ io'[t].blk = io[t].blk /\ io'[t].op = io[t].op
      /\ \A u \in Threads \ {t} : io'[u] = io[u]
  BY GotoIs, Zenon DEF JbdInv, JbdTypeOK
<1>2. TxnAlone'
  BY <1>0, Zenon DEF JbdInv, TxnAlone, LogBound, InTxn
<1>3. JournalRight'
  BY <1>0, Zenon DEF JbdInv, JournalRight, Copied, H, M, D
<1>4. ASSUME NEW u \in Threads
      PROVE  CommitOK(u)'
  BY <1>0, Zenon DEF JbdInv, CommitOK, Copied, InPlace, H, M, D
<1>5. ASSUME NEW u \in Threads
      PROVE  FrameOK(u)'
  <2>1. CASE u = t
    <3>1. FrameOK(t)
      BY Zenon DEF JbdInv
    <3>2. pc[t] # "halt" /\ l # "none"
      BY <3>1, Zenon DEF FrameOK
    <3> QED
      BY <1>0, <1>1, <2>1, <3>1, <3>2, Zenon DEF FrameOK
  <2>2. CASE u # t
    BY <1>0, <1>1, <2>2, OtherFrames, Zenon DEF JbdInv
  <2> QED
    BY <2>1, <2>2, Zenon
<1> QED
  BY <1>2, <1>3, <1>4, <1>5, Zenon

\* A step of the block cache that touches neither the device nor the data.
LEMMA CacheStep ==
  ASSUME JbdInv, NEW t \in Threads, UNCHANGED <<ioVars, mem, jbdVars>>, bio[t] # "PENDING",
         NEW l \in Labels \ {"none", "kick", "wait"}, io' = Goto(t, l), io[t].at \notin {"none", "ok"},
         io[t].op = "WRITE" => l \in {"ok", "nomem"},
         l = "ok" /\ io[t].op = "WRITE" => mem[io[t].blk] = disk[io[t].blk]
  PROVE  /\ TxnAlone' /\ QueueRight' /\ DeviceRight' /\ JournalRight'
         /\ \A u \in Threads : FrameOK(u)' /\ MovedOK(u)' /\ CommitOK(u)'
<1>0. UNCHANGED <<disk, mem, jbdVars>>
  BY Zenon DEF ioVars
<1>1. /\ io'[t].at = l /\ io'[t].blk = io[t].blk /\ io'[t].op = io[t].op
      /\ \A u \in Threads \ {t} : io'[u] = io[u]
  BY GotoIs, Zenon DEF JbdInv, JbdTypeOK
<1>2. QueueRight' /\ DeviceRight' /\ \A u \in Threads : MovedOK(u)'
  BY <1>1, LocalStep, Zenon DEF JbdInv
<1>3. /\ TxnAlone' /\ JournalRight'
      /\ \A u \in Threads : FrameOK(u)' /\ CommitOK(u)'
  BY <1>0, FrameStep, Zenon
<1> QED
  BY <1>2, <1>3, Zenon

\* A thread that has stopped with a block does no step.
LEMMA StoppedKept ==
  ASSUME NEW t \in Threads, pc[t] # "halt" \/ io[t].at # "ok",
         \A u \in Threads \ {t} : io'[u] = io[u] /\ pc'[u] = pc[u], NEW b, Stopped(b)
  PROVE  Stopped(b)'
  BY Zenon DEF Stopped

\* The same cache, the same data: what is cached stays right.
LEMMA CacheKept ==
  ASSUME InCache, Coherent, UNCHANGED <<disk, mem, cached, holder, datablks>>,
         NEW t \in Threads, pc[t] # "halt" \/ io[t].at # "ok",
         \A u \in Threads \ {t} : io'[u] = io[u] /\ pc'[u] = pc[u]
  PROVE  InCache' /\ Coherent'
  BY StoppedKept, Zenon DEF InCache, Coherent

(***************************************************************************)
(* The block cache.                                                         *)
(***************************************************************************)

\* pgcache_get_page finds the page.
LEMMA HitKeeps ==
  ASSUME JbdInv, NEW t \in Threads, PgcacheHit(t), UNCHANGED jbdVars
  PROVE  JbdInv'
<1>0. /\ io[t].at = "pgcache" /\ PageOf(io[t].blk) \in cached /\ io' = Goto(t, "headers")
      /\ UNCHANGED <<ioVars, mem, jbdVars>>
      /\ UNCHANGED <<disk, hw, ide, request_queue, bio>>
      /\ UNCHANGED <<mem, cached, pgcache_lock, nhdr, ref, holder, dirty, fails, panic>>
      /\ UNCHANGED <<pc, jstate, datablks, stage, idx>>
  BY Zenon DEF PgcacheHit, cacheVars, jbdVars, ioVars
<1>1. FrameOK(t) /\ bio[t] # "PENDING" /\ io[t].op = "READ" /\ "headers" \in Labels \ {"none", "kick", "wait"}
  BY <1>0, Zenon DEF JbdInv, FrameOK, QueueRight, JbdTypeOK, Frames, Labels, Busy
<1>2. /\ TxnAlone' /\ QueueRight' /\ DeviceRight' /\ JournalRight'
      /\ \A u \in Threads : FrameOK(u)' /\ MovedOK(u)' /\ CommitOK(u)'
  BY <1>0, <1>1, CacheStep, Zenon
<1>3. /\ io' \in [Threads -> Frames]
      /\ io'[t].at = "headers" /\ io'[t].blk = io[t].blk /\ io'[t].op = io[t].op
      /\ \A u \in Threads \ {t} : io'[u] = io[u]
  BY <1>0, <1>1, GotoIs, Zenon DEF JbdInv, JbdTypeOK
<1>4. JbdTypeOK'
  BY <1>0, <1>3, Zenon DEF JbdInv, JbdTypeOK
<1>5. ASSUME NEW u \in Threads
      PROVE  LockOK(u)'
  <2>1. CASE u = t
    BY <1>0, <1>1, <1>3, <2>1 DEF LockOK, Busy
  <2>2. CASE u # t
    BY <1>0, <1>3, <2>2, LocksKept, Zenon DEF JbdInv
  <2> QED
    BY <2>1, <2>2, Zenon
<1>6. InCache' /\ Coherent' /\ NoPanic'
  BY <1>0, <1>3, CacheKept, Zenon DEF JbdInv, NoPanic, ShortList
<1> QED
  BY <1>2, <1>4, <1>5, <1>6, Zenon DEF JbdInv

\* pgcache_get_page does not find it: it is read under pgcache_lock.
LEMMA MissKeeps ==
  ASSUME JbdInv, NEW t \in Threads, PgcacheMiss(t), UNCHANGED jbdVars
  PROVE  JbdInv'
<1>0. /\ io[t].at = "pgcache" /\ PageOf(io[t].blk) \notin cached /\ io' = Goto(t, "submit")
      /\ pgcache_lock = NULL /\ pgcache_lock' = t
      /\ UNCHANGED <<ioVars, mem, jbdVars>>
      /\ UNCHANGED <<disk, hw, ide, request_queue, bio>>
      /\ UNCHANGED <<mem, cached, nhdr, ref, holder, dirty, fails, panic>>
      /\ UNCHANGED <<pc, jstate, datablks, stage, idx>>
  BY Zenon DEF PgcacheMiss, jbdVars, ioVars
<1>1. FrameOK(t) /\ bio[t] # "PENDING" /\ io[t].op = "READ" /\ "submit" \in Labels \ {"none", "kick", "wait"}
  BY <1>0, Zenon DEF JbdInv, FrameOK, QueueRight, JbdTypeOK, Frames, Labels, Busy
<1>2. /\ TxnAlone' /\ QueueRight' /\ DeviceRight' /\ JournalRight'
      /\ \A u \in Threads : FrameOK(u)' /\ MovedOK(u)' /\ CommitOK(u)'
  BY <1>0, <1>1, CacheStep, Zenon
<1>3. /\ io' \in [Threads -> Frames]
      /\ io'[t].at = "submit" /\ io'[t].blk = io[t].blk /\ io'[t].op = io[t].op
      /\ \A u \in Threads \ {t} : io'[u] = io[u]
  BY <1>0, <1>1, GotoIs, Zenon DEF JbdInv, JbdTypeOK
<1>4. JbdTypeOK'
  <2>1. pgcache_lock' \in Threads \cup {NULL}
    BY <1>0, Zenon
  <2> QED
    BY <1>0, <1>3, <2>1, Zenon DEF JbdInv, JbdTypeOK
<1>5. ASSUME NEW u \in Threads
      PROVE  LockOK(u)'
  <2>1. CASE u = t
    BY <1>0, <1>1, <1>3, <2>1 DEF LockOK, Busy
  <2>2. CASE u # t
    <3>1. pgcache_lock # u
      BY <1>0, BdevAssumption, Zenon
    <3> QED
      BY <1>0, <1>3, <2>2, <3>1, LocksKept, Zenon DEF JbdInv
  <2> QED
    BY <2>1, <2>2, Zenon
<1>6. InCache' /\ Coherent' /\ NoPanic'
  BY <1>0, <1>3, CacheKept, Zenon DEF JbdInv, NoPanic, ShortList
<1> QED
  BY <1>2, <1>4, <1>5, <1>6, Zenon DEF JbdInv

\* An allocation fails: for the page, for the headers of its blocks, or for the bio
\* of a write.
LEMMA NoMemKeeps ==
  ASSUME JbdInv, NEW t \in Threads, UNCHANGED jbdVars,
         PgcacheNoMem(t) \/ BlkHeaderNoMem(t) \/ WriteNoMem(t)
  PROVE  JbdInv'
<1>0. /\ io[t].at \in {"pgcache", "headers", "submit"}
      /\ io[t].at = "submit" => io[t].op = "WRITE"
      /\ io' = Goto(t, "nomem")
      /\ UNCHANGED <<ioVars, mem, jbdVars>>
      /\ UNCHANGED <<disk, hw, ide, request_queue, bio>>
      /\ UNCHANGED <<mem, cached, pgcache_lock, ref, holder, dirty, panic>>
      /\ UNCHANGED <<pc, jstate, datablks, stage, idx>>
  BY Zenon DEF PgcacheNoMem, BlkHeaderNoMem, WriteNoMem, NoMem, cacheVars, jbdVars, ioVars
<1>1. FrameOK(t) /\ bio[t] # "PENDING" /\ "nomem" \in Labels \ {"none", "kick", "wait"}
  BY <1>0 DEF JbdInv, FrameOK, QueueRight, Labels
<1>2. /\ TxnAlone' /\ QueueRight' /\ DeviceRight' /\ JournalRight'
      /\ \A u \in Threads : FrameOK(u)' /\ MovedOK(u)' /\ CommitOK(u)'
  BY <1>0, <1>1, CacheStep
<1>3. /\ io' \in [Threads -> Frames]
      /\ io'[t].at = "nomem" /\ io'[t].blk = io[t].blk /\ io'[t].op = io[t].op
      /\ \A u \in Threads \ {t} : io'[u] = io[u]
  BY <1>0, <1>1, GotoIs, Zenon DEF JbdInv, JbdTypeOK
<1>a. PICK what \in {"page", "headers", "bio"} :
          fails' = Append(fails, what) /\ (nhdr' = nhdr \/ what = "headers")
  BY Zenon DEF PgcacheNoMem, BlkHeaderNoMem, WriteNoMem, NoMem, cacheVars
<1>c. /\ fails' \in Seq({"page", "headers", "bio"})
      /\ ShortList \/ what = "headers" => ShortList'
  <2>1. /\ fails \in Seq({"page", "headers", "bio"}) /\ Len(fails) \in Nat
        /\ fails' \in Seq({"page", "headers", "bio"}) /\ Len(fails') = Len(fails) + 1
        /\ \A i \in 1..Len(fails) : fails'[i] = fails[i]
        /\ fails'[Len(fails) + 1] = what
    BY <1>a DEF JbdInv, JbdTypeOK
  <2>2. 1..Len(fails) \subseteq 1..Len(fails') /\ Len(fails) + 1 \in 1..Len(fails')
    BY <2>1
  <2> QED
    BY <2>1, <2>2, Zenon DEF ShortList
<1>b. nhdr' \in [Pages -> Nat]
  <2>1. CASE nhdr' = nhdr
    BY <2>1, Zenon DEF JbdInv, JbdTypeOK
  <2>2. CASE BlkHeaderNoMem(t)
    <3>1. PICK k \in 0..(N_BLKS_PER_PAGE - 1) : nhdr' = [nhdr EXCEPT ![PageOf(io[t].blk)] = k]
      BY <2>2, Zenon DEF BlkHeaderNoMem
    <3>2. k \in Nat
      BY BdevAssumption
    <3> QED
      BY <3>1, <3>2, Zenon DEF JbdInv, JbdTypeOK
  <2> QED
    BY <2>1, <2>2, Zenon DEF PgcacheNoMem, WriteNoMem, cacheVars
<1>4. JbdTypeOK'
  BY <1>0, <1>3, <1>b, <1>c, Zenon DEF JbdInv, JbdTypeOK
<1>5. ASSUME NEW u \in Threads
      PROVE  LockOK(u)'
  <2>1. CASE u = t
    <3>1. LockOK(t)
      BY Zenon DEF JbdInv
    <3> QED
      BY <1>0, <1>3, <2>1, <3>1, Zenon DEF LockOK, Busy
  <2>2. CASE u # t
    BY <1>0, <1>3, <2>2, LocksKept, Zenon DEF JbdInv
  <2> QED
    BY <2>1, <2>2, Zenon
<1>6. InCache' /\ Coherent'
  BY <1>0, <1>3, CacheKept, Zenon DEF JbdInv
<1>7. NoPanic'
  BY <1>0, <1>a, <1>c, Zenon DEF JbdInv, NoPanic
<1> QED
  BY <1>2, <1>4, <1>5, <1>6, <1>7, Zenon DEF JbdInv

\* The wait for the bio ends: the page that was read enters the cache.
LEMMA ReadDoneKeeps ==
  ASSUME JbdInv, NEW t \in Threads, RequestDone(t), io[t].op = "READ", UNCHANGED jbdVars
  PROVE  JbdInv'
<1> DEFINE p == PageOf(io[t].blk)
<1>0. /\ io[t].at = "wait" /\ bio[t] = "COMPLETE" /\ io' = Goto(t, "headers")
      /\ cached' = cached \cup {p} /\ pgcache_lock' = NULL
      /\ p \notin cached => panic' = panic
      /\ UNCHANGED <<ioVars, mem, jbdVars>>
      /\ UNCHANGED <<disk, hw, ide, request_queue, bio>>
      /\ UNCHANGED <<mem, nhdr, ref, holder, dirty, fails>>
      /\ UNCHANGED <<pc, jstate, datablks, stage, idx>>
  BY Zenon DEF RequestDone, jbdVars, ioVars
<1>1. FrameOK(t) /\ LockOK(t) /\ MovedOK(t) /\ "headers" \in Labels \ {"none", "kick", "wait"}
  BY Zenon DEF JbdInv, Labels
<1>2. /\ TxnAlone' /\ QueueRight' /\ DeviceRight' /\ JournalRight'
      /\ \A u \in Threads : FrameOK(u)' /\ MovedOK(u)' /\ CommitOK(u)'
  BY <1>0, <1>1, CacheStep
<1>3. /\ io' \in [Threads -> Frames]
      /\ io'[t].at = "headers" /\ io'[t].blk = io[t].blk /\ io'[t].op = io[t].op
      /\ \A u \in Threads \ {t} : io'[u] = io[u]
  BY <1>0, <1>1, GotoIs, Zenon DEF JbdInv, JbdTypeOK
<1>a. pgcache_lock = t /\ p \notin cached /\ panic' = panic
  BY <1>0, <1>1, Zenon DEF LockOK, Busy
<1>b. \A b \in Blks : PageOf(b) = p => mem[b] = disk[b]
  BY <1>0, <1>1 DEF MovedOK, Served
<1>4. JbdTypeOK'
  BY <1>0, <1>3, Zenon DEF JbdInv, JbdTypeOK
<1>5. ASSUME NEW u \in Threads
      PROVE  LockOK(u)'
  <2>1. CASE u = t
    BY <1>0, <1>3, <2>1 DEF LockOK, Busy
  <2>2. CASE u # t
    <3>1. pgcache_lock # u /\ cached \subseteq cached'
      BY <1>0, <1>a, <2>2, Zenon
    <3> QED
      BY <1>0, <1>3, <2>2, <3>1, LocksKept, Zenon DEF JbdInv
  <2> QED
    BY <2>1, <2>2, Zenon
<1>6. InCache'
  BY <1>0, Zenon DEF JbdInv, InCache
<1>7. Coherent'
  <2>1. \A b \in FsBlks : Stopped(b) => Stopped(b)'
    BY <1>0, <1>3, StoppedKept, Zenon
  <2> QED
    BY <1>0, <1>b, <2>1, JournalBlks, Zenon DEF JbdInv, Coherent
<1>8. NoPanic'
  BY <1>0, <1>a, Zenon DEF JbdInv, NoPanic, ShortList
<1> QED
  BY <1>2, <1>4, <1>5, <1>6, <1>7, <1>8, Zenon DEF JbdInv

\* The wait for the bio ends: the block is written.
LEMMA WriteDoneKeeps ==
  ASSUME JbdInv, NEW t \in Threads, RequestDone(t), io[t].op # "READ", UNCHANGED jbdVars
  PROVE  JbdInv'
<1>0. /\ io[t].at = "wait" /\ bio[t] = "COMPLETE" /\ io' = Goto(t, "ok")
      /\ UNCHANGED <<ioVars, mem, jbdVars>>
      /\ UNCHANGED <<disk, hw, ide, request_queue, bio>>
      /\ UNCHANGED <<mem, cached, pgcache_lock, nhdr, ref, holder, dirty, fails, panic>>
      /\ UNCHANGED <<pc, jstate, datablks, stage, idx>>
  BY Zenon DEF RequestDone, jbdVars, ioVars
<1>1. /\ FrameOK(t) /\ LockOK(t) /\ MovedOK(t) /\ "ok" \in Labels \ {"none", "kick", "wait"}
      /\ io[t].op = "WRITE"
  BY Zenon DEF JbdInv, Labels, JbdTypeOK, Frames
<1>a. mem[io[t].blk] = disk[io[t].blk]
  BY <1>0, <1>1, ZenonT(40) DEF MovedOK, Served
<1>2. /\ TxnAlone' /\ QueueRight' /\ DeviceRight' /\ JournalRight'
      /\ \A u \in Threads : FrameOK(u)' /\ MovedOK(u)' /\ CommitOK(u)'
  BY <1>0, <1>1, <1>a, CacheStep
<1>3. /\ io' \in [Threads -> Frames]
      /\ io'[t].at = "ok" /\ io'[t].blk = io[t].blk /\ io'[t].op = io[t].op
      /\ \A u \in Threads \ {t} : io'[u] = io[u]
  BY <1>0, <1>1, GotoIs, Zenon DEF JbdInv, JbdTypeOK
<1>4. JbdTypeOK'
  BY <1>0, <1>3, Zenon DEF JbdInv, JbdTypeOK
<1>5. ASSUME NEW u \in Threads
      PROVE  LockOK(u)'
  <2>1. CASE u = t
    BY <1>0, <1>1, <1>3, <2>1, Zenon DEF LockOK, Busy
  <2>2. CASE u # t
    BY <1>0, <1>3, <2>2, LocksKept, Zenon DEF JbdInv
  <2> QED
    BY <2>1, <2>2, Zenon
<1>6. InCache' /\ Coherent' /\ NoPanic'
  BY <1>0, <1>3, CacheKept, Zenon DEF JbdInv, NoPanic, ShortList
<1> QED
  BY <1>2, <1>4, <1>5, <1>6, Zenon DEF JbdInv

\* init_blk_headers and the search: the header is found unless the list is short.
LEMMA BlkHeaderKeeps ==
  ASSUME JbdInv, NEW t \in Threads, BlkHeader(t), UNCHANGED jbdVars
  PROVE  JbdInv'
<1> DEFINE p == PageOf(io[t].blk)
           n == IF nhdr[p] = 0 THEN N_BLKS_PER_PAGE ELSE nhdr[p]
           found == io[t].blk - FIRST_BLK_IN_PAGE(io[t].blk) < n
<1>0. /\ io[t].at = "headers"
      /\ nhdr' = [nhdr EXCEPT ![p] = n]
      /\ found => io' = Goto(t, "lock") /\ panic' = panic
      /\ ~found => /\ io' = Goto(t, "panic")
                   /\ panic' = panic \cup {"bdev block not found in page"}
      /\ UNCHANGED <<ioVars, mem, jbdVars>>
      /\ UNCHANGED <<disk, hw, ide, request_queue, bio>>
      /\ UNCHANGED <<mem, cached, pgcache_lock, holder, dirty, fails>>
      /\ UNCHANGED <<pc, jstate, datablks, stage, idx>>
  BY Zenon DEF BlkHeader, jbdVars, ioVars
<1>1. /\ FrameOK(t) /\ LockOK(t) /\ bio[t] # "PENDING" /\ io[t].op = "READ"
      /\ {"lock", "panic"} \subseteq Labels \ {"none", "kick", "wait"}
  BY <1>0, Zenon DEF JbdInv, FrameOK, QueueRight, JbdTypeOK, Frames, Labels, Busy
<1>l. PICK l \in {"lock", "panic"} : io' = Goto(t, l)
  BY <1>0, Zenon
<1>m. l \in Labels \ {"none", "kick", "wait"} /\ l # "ok"
  BY <1>1, ZenonT(40)
<1>2. /\ TxnAlone' /\ QueueRight' /\ DeviceRight' /\ JournalRight'
      /\ \A u \in Threads : FrameOK(u)' /\ MovedOK(u)' /\ CommitOK(u)'
  BY <1>0, <1>1, <1>l, <1>m, CacheStep
<1>3. /\ io' \in [Threads -> Frames]
      /\ io'[t].at = l /\ io'[t].blk = io[t].blk /\ io'[t].op = io[t].op
      /\ \A u \in Threads \ {t} : io'[u] = io[u]
  BY <1>m, <1>l, GotoIs, Zenon DEF JbdInv, JbdTypeOK
<1>a. io[t].blk \in Blks /\ p \in Pages
  BY <1>0, <1>1, PageFacts DEF FrameOK
<1>b. nhdr[p] \in Nat /\ nhdr \in [Pages -> Nat]
  BY <1>a, Zenon DEF JbdInv, JbdTypeOK
<1>c. n \in Nat /\ nhdr' \in [Pages -> Nat]
  BY <1>0, <1>a, <1>b, BdevAssumption, Zenon
<1>4. JbdTypeOK'
  BY <1>0, <1>3, <1>c, Zenon DEF JbdInv, JbdTypeOK
<1>5. ASSUME NEW u \in Threads
      PROVE  LockOK(u)'
  <2>1. CASE u = t
    BY <1>0, <1>1, <1>l, <1>3, <2>1, Zenon DEF LockOK, Busy
  <2>2. CASE u # t
    BY <1>0, <1>3, <2>2, LocksKept, Zenon DEF JbdInv
  <2> QED
    BY <2>1, <2>2, Zenon
<1>6. InCache' /\ Coherent'
  BY <1>0, <1>3, CacheKept, Zenon DEF JbdInv
<1>7. NoPanic'
  <2>1. /\ panic \subseteq JournalPanics \cup {"bdev block not found in page", "bh->ref > 0"}
        /\ panic \cap JournalPanics # {} => \E u \in Threads : pc[u] = "halt"
        /\ "bdev block not found in page" \in panic => ShortList
        /\ \A q \in Pages : nhdr[q] \in {0, N_BLKS_PER_PAGE} \/ ShortList
    BY Zenon DEF JbdInv, NoPanic
  <2>2. ShortList' = ShortList
    BY <1>0, Zenon DEF ShortList
  <2>3. ~ShortList => n = N_BLKS_PER_PAGE
    BY <2>1, <1>a, Zenon
  <2>4. ~ShortList => found
    BY <2>3, <1>a, PageFacts, Zenon
  <2>5. \A q \in Pages : nhdr'[q] \in {0, N_BLKS_PER_PAGE} \/ ShortList
    BY <1>0, <1>b, <2>1, <2>3, Zenon
  <2>6. panic' = panic \/ (ShortList /\ panic' = panic \cup {"bdev block not found in page"})
    BY <1>0, <2>4, Zenon
  <2>7. "bdev block not found in page" \notin JournalPanics
    BY DEF JournalPanics
  <2>8. panic' \subseteq JournalPanics \cup {"bdev block not found in page", "bh->ref > 0"}
    BY <2>1, <2>6, Zenon
  <2>9. panic' \cap JournalPanics = panic \cap JournalPanics
    BY <2>6, <2>7, Zenon
  <2> QED
    BY <1>0, <2>1, <2>2, <2>5, <2>6, <2>8, <2>9, Zenon DEF NoPanic
<1> QED
  BY <1>2, <1>4, <1>5, <1>6, <1>7, Zenon DEF JbdInv

\* bdev_get_blk gets the block's lock.
LEMMA BlkLockKeeps ==
  ASSUME JbdInv, NEW t \in Threads, BlkLock(t), UNCHANGED jbdVars
  PROVE  JbdInv'
<1>0. /\ io[t].at = "lock" /\ holder[io[t].blk] = NULL /\ io' = Goto(t, "ok")
      /\ holder' = [holder EXCEPT ![io[t].blk] = t]
      /\ UNCHANGED <<ioVars, mem, jbdVars>>
      /\ UNCHANGED <<disk, hw, ide, request_queue, bio>>
      /\ UNCHANGED <<mem, cached, pgcache_lock, nhdr, ref, dirty, fails, panic>>
      /\ UNCHANGED <<pc, jstate, datablks, stage, idx>>
  BY Zenon DEF BlkLock, jbdVars, ioVars
<1>1. /\ FrameOK(t) /\ LockOK(t) /\ "ok" \in Labels \ {"none", "kick", "wait"}
      /\ io[t].op = "READ" /\ bio[t] # "PENDING" /\ io[t].blk \in Blks
  BY <1>0, Zenon DEF JbdInv, Labels, JbdTypeOK, Frames, FrameOK, QueueRight, Busy
<1>2. /\ TxnAlone' /\ QueueRight' /\ DeviceRight' /\ JournalRight'
      /\ \A u \in Threads : FrameOK(u)' /\ MovedOK(u)' /\ CommitOK(u)'
  BY <1>0, <1>1, CacheStep, Zenon
<1>3. /\ io' \in [Threads -> Frames]
      /\ io'[t].at = "ok" /\ io'[t].blk = io[t].blk /\ io'[t].op = io[t].op
      /\ \A u \in Threads \ {t} : io'[u] = io[u]
  BY <1>0, <1>1, GotoIs, Zenon DEF JbdInv, JbdTypeOK
<1>a. /\ holder' \in [Blks -> Threads \cup {NULL}] /\ holder'[io[t].blk] = t
      /\ \A b \in Blks \ {io[t].blk} : holder'[b] = holder[b]
  BY <1>0, <1>1, Zenon DEF JbdInv, JbdTypeOK
<1>4. JbdTypeOK'
  BY <1>0, <1>3, <1>a, Zenon DEF JbdInv, JbdTypeOK
<1>5. ASSUME NEW u \in Threads
      PROVE  LockOK(u)'
  <2>1. CASE u = t
    BY <1>0, <1>1, <1>3, <1>a, <2>1, Zenon DEF LockOK, Busy
  <2>2. CASE u # t
    <3>1. \A b \in Blks : holder[b] = u => holder'[b] = u
      BY <1>0, <1>a, BdevAssumption, Zenon
    <3> QED
      BY <1>0, <1>3, <2>2, <3>1, LocksKept, Zenon DEF JbdInv
  <2> QED
    BY <2>1, <2>2, Zenon
<1>6. InCache'
  <2>1. PageOf(io[t].blk) \in cached
    BY <1>0, <1>1 DEF LockOK
  <2> QED
    BY <1>0, <1>a, <2>1, Zenon DEF JbdInv, InCache
<1>7. Coherent' /\ NoPanic'
  <2>1. \A b \in FsBlks : Stopped(b) => Stopped(b)'
    BY <1>0, <1>3, StoppedKept, Zenon
  <2> QED
    BY <1>0, <2>1, Zenon DEF JbdInv, Coherent, NoPanic, ShortList
<1> QED
  BY <1>2, <1>4, <1>5, <1>6, <1>7, Zenon DEF JbdInv

(***************************************************************************)
(* The device.                                                              *)
(***************************************************************************)

\* The first request of a busy device belongs to a thread that waits for it.
LEMMA FirstPending ==
  ASSUME JbdTypeOK, QueueRight, request_queue # <<>>
  PROVE  LET h == Head(request_queue)
         IN h \in Threads /\ bio[h] = "PENDING" /\ io[h].at \in {"kick", "wait"}
<1>1. Head(request_queue) \in Threads /\ Head(request_queue) \in Range(request_queue)
  BY TailFacts DEF JbdTypeOK, QueueRight
<1> QED
  BY <1>1, Zenon DEF QueueRight

\* bdev_make_request queues the request.
LEMMA SubmitKeeps ==
  ASSUME JbdInv, NEW t \in Threads, Submit(t), UNCHANGED jbdVars
  PROVE  JbdInv'
<1>0. /\ io[t].at = "submit" /\ io' = Goto(t, "kick")
      /\ bio' = [bio EXCEPT ![t] = "PENDING"] /\ request_queue' = Append(request_queue, t)
      /\ UNCHANGED <<disk, mem, jbdVars>>
      /\ UNCHANGED <<disk, hw, ide>>
      /\ UNCHANGED <<mem, cached, pgcache_lock, nhdr, ref, holder, dirty, fails, panic>>
      /\ UNCHANGED <<pc, jstate, datablks, stage, idx>>
  BY Zenon DEF Submit, cacheVars, jbdVars
<1>1. /\ FrameOK(t) /\ LockOK(t) /\ "kick" \in Labels \ {"none"} /\ "kick" \in Busy
      /\ bio[t] # "PENDING" /\ t \notin Range(request_queue)
  BY <1>0 DEF JbdInv, Labels, Busy, QueueRight
<1>2. /\ TxnAlone' /\ JournalRight'
      /\ \A u \in Threads : FrameOK(u)' /\ CommitOK(u)'
  BY <1>0, <1>1, FrameStep
<1>3. /\ io' \in [Threads -> Frames]
      /\ io'[t].at = "kick" /\ io'[t].blk = io[t].blk /\ io'[t].op = io[t].op
      /\ \A u \in Threads \ {t} : io'[u] = io[u]
  BY <1>0, <1>1, GotoIs, Zenon DEF JbdInv, JbdTypeOK
<1>4. /\ bio' \in [Threads -> {"PENDING", "COMPLETE"}] /\ bio'[t] = "PENDING"
      /\ \A u \in Threads \ {t} : bio'[u] = bio[u]
  BY <1>0 DEF JbdInv, JbdTypeOK
<1>5. /\ request_queue' \in Seq(Threads) /\ IsInjective(request_queue')
      /\ Range(request_queue') = Range(request_queue) \cup {t}
      /\ request_queue' # <<>>
      /\ request_queue # <<>> => Head(request_queue') = Head(request_queue)
  <2>1. request_queue \in Seq(Threads) /\ IsInjective(request_queue)
    BY Zenon DEF JbdInv, JbdTypeOK, QueueRight
  <2> QED
    BY <1>0, <1>1, <2>1, AppendFacts
<1>6. JbdTypeOK'
  BY <1>0, <1>3, <1>4, <1>5, ZenonT(40) DEF JbdInv, JbdTypeOK
<1>7. QueueRight'
  <2>1. Range(request_queue)' = Range(request_queue')
    BY Zenon DEF Range
  <2>2. \A u \in Threads : u \in Range(request_queue') <=> bio'[u] = "PENDING"
    BY <1>4, <1>5, Zenon DEF JbdInv, QueueRight
  <2>3. \A u \in Threads : bio'[u] = "PENDING" => io'[u].at \in {"kick", "wait"}
    BY <1>3, <1>4, Zenon DEF JbdInv, QueueRight
  <2>4. IsInjective(request_queue)' = IsInjective(request_queue')
    BY Zenon DEF IsInjective
  <2> QED
    BY <1>5, <2>1, <2>2, <2>3, <2>4, Zenon DEF QueueRight
<1>8. DeviceRight'
  <2>1. CASE ide = "BUSY"
    <3> DEFINE h == Head(request_queue)
    <3>1. request_queue # <<>>
      BY <2>1, Zenon DEF JbdInv, DeviceRight
    <3>2. h \in Threads /\ bio[h] = "PENDING"
      BY <3>1, FirstPending, Zenon DEF JbdInv
    <3>3. Head(request_queue') = h /\ io'[h] = io[h]
      BY <1>1, <1>3, <1>5, <3>1, <3>2, Zenon
    <3> QED
      BY <1>0, <1>5, <2>1, <3>3, Zenon DEF JbdInv, DeviceRight, Command
  <2>2. CASE ide # "BUSY"
    BY <1>0, <2>2, Zenon DEF JbdInv, DeviceRight
  <2> QED
    BY <2>1, <2>2, Zenon
<1>9. ASSUME NEW u \in Threads
      PROVE  LockOK(u)' /\ MovedOK(u)'
  <2>1. CASE u = t
    <3>1. io[t].at \in Busy /\ io'[t].at \in Busy /\ io'[t].at # "ok" /\ ~Served(t)'
      BY <1>0, <1>3, <1>4, Zenon DEF Busy, Served
    <3>2. LockOK(t)'
      BY <1>0, <1>1, <1>3, <3>1, Zenon DEF LockOK, Busy
    <3> QED
      BY <2>1, <3>1, <3>2, Zenon DEF MovedOK
  <2>2. CASE u # t
    <3>1. io'[u] = io[u] /\ bio'[u] = bio[u] /\ MovedOK(u)
      BY <1>3, <1>4, <2>2, Zenon DEF JbdInv
    <3>2. MovedOK(u)'
      BY <1>0, <3>1, Zenon DEF MovedOK, Served
    <3> QED
      BY <1>0, <3>1, <3>2, LocksKept, Zenon DEF JbdInv
  <2> QED
    BY <2>1, <2>2, Zenon
<1>10. InCache' /\ Coherent' /\ NoPanic'
  BY <1>0, <1>3, CacheKept, Zenon DEF JbdInv, NoPanic, ShortList
<1> QED
  BY <1>2, <1>6, <1>7, <1>8, <1>9, <1>10, Zenon DEF JbdInv

\* ide_request_handler starts the first request when the device is idle.
LEMMA HandlerKeeps ==
  ASSUME JbdInv, NEW t \in Threads, ide_request_handler(t), UNCHANGED jbdVars
  PROVE  JbdInv'
<1>0. /\ io[t].at = "kick" /\ io' = Goto(t, "wait")
      /\ UNCHANGED <<disk, mem, jbdVars>>
      /\ UNCHANGED <<disk, request_queue, bio>>
      /\ UNCHANGED <<mem, cached, pgcache_lock, nhdr, ref, holder, dirty, fails, panic>>
      /\ UNCHANGED <<pc, jstate, datablks, stage, idx>>
  BY Zenon DEF ide_request_handler, cacheVars, jbdVars
<1>1. /\ FrameOK(t) /\ LockOK(t) /\ "wait" \in Labels \ {"none"} /\ "wait" \in Busy
  BY DEF JbdInv, Labels, Busy
<1>2. /\ TxnAlone' /\ JournalRight'
      /\ \A u \in Threads : FrameOK(u)' /\ CommitOK(u)'
  BY <1>0, <1>1, FrameStep
<1>3. /\ io' \in [Threads -> Frames]
      /\ io'[t].at = "wait" /\ io'[t].blk = io[t].blk /\ io'[t].op = io[t].op
      /\ \A u \in Threads \ {t} : io'[u] = io[u]
  BY <1>0, <1>1, GotoIs, Zenon DEF JbdInv, JbdTypeOK
<1>a. \A u \in Threads : io'[u].op = io[u].op /\ io'[u].blk = io[u].blk
  BY <1>3, Zenon
<1>4. QueueRight'
  BY <1>0, <1>3, Zenon DEF JbdInv, QueueRight
<1>5. DeviceRight' /\ ide' \in {"IDLE", "BUSY"}
      /\ hw' = [op |-> hw'.op, blk |-> hw'.blk, data |-> hw'.data, done |-> hw'.done]
  <2> DEFINE h == Head(request_queue)
  <2>1. CASE StartsCommand
    <3>1. hw' = Command(h) /\ ide' = "BUSY" /\ request_queue # <<>>
      BY <2>1, Zenon DEF ide_request_handler, StartsCommand
    <3>2. h \in Threads /\ io[h].op \in {"READ", "WRITE"}
      BY <3>1, FirstPending, Zenon DEF JbdInv, JbdTypeOK, Frames
    <3>3. /\ hw'.op = io[h].op /\ hw'.data = mem[io[h].blk] /\ hw'.done = FALSE
          /\ hw'.blk = Command(h).blk
          /\ hw' = [op |-> hw'.op, blk |-> hw'.blk, data |-> hw'.data, done |-> hw'.done]
      BY <3>1 DEF Command
    <3>4. Command(h)'.blk = Command(h).blk
      BY <1>0, <1>a, <3>2, Zenon DEF Command
    <3>5. hw'.op # "NONE"
      BY <3>2, <3>3, Zenon
    <3> QED
      BY <1>0, <1>a, <3>1, <3>2, <3>3, <3>4, <3>5, Zenon DEF DeviceRight
  <2>2. CASE ~StartsCommand
    <3>1. hw' = hw /\ ide' = ide
      BY <2>2, Zenon DEF ide_request_handler
    <3>2. CASE ide = "BUSY"
      <4>1. request_queue # <<>>
        BY <3>2, Zenon DEF JbdInv, DeviceRight
      <4>2. io'[h].op = io[h].op /\ io'[h].blk = io[h].blk
        BY <1>a, <4>1, FirstPending, Zenon DEF JbdInv
      <4> QED
        BY <1>0, <3>1, <4>2 DEF JbdInv, DeviceRight, Command, JbdTypeOK
    <3>3. CASE ide # "BUSY"
      BY <1>0, <3>1, <3>3, Zenon DEF JbdInv, DeviceRight, JbdTypeOK
    <3> QED
      BY <3>2, <3>3, Zenon
  <2> QED
    BY <2>1, <2>2, Zenon
<1>6. JbdTypeOK'
  BY <1>0, <1>3, <1>5, Zenon DEF JbdInv, JbdTypeOK
<1>7. ASSUME NEW u \in Threads
      PROVE  LockOK(u)' /\ MovedOK(u)'
  <2>1. CASE u = t
    <3>1. MovedOK(t)
      BY Zenon DEF JbdInv
    <3>2. LockOK(t)'
      BY <1>0, <1>1, <1>3, ZenonT(40) DEF LockOK, Busy
    <3>3. MovedOK(t)'
      BY <1>0, <1>3, <3>1 DEF MovedOK, Served
    <3> QED
      BY <2>1, <3>2, <3>3, Zenon
  <2>2. CASE u # t
    <3>1. io'[u] = io[u] /\ MovedOK(u)
      BY <1>3, <2>2, Zenon DEF JbdInv
    <3>2. MovedOK(u)'
      BY <1>0, <3>1, Zenon DEF MovedOK, Served
    <3> QED
      BY <1>0, <3>1, <3>2, LocksKept, Zenon DEF JbdInv
  <2> QED
    BY <2>1, <2>2, Zenon
<1>8. InCache' /\ Coherent' /\ NoPanic'
  BY <1>0, <1>3, CacheKept, Zenon DEF JbdInv, NoPanic, ShortList
<1> QED
  BY <1>2, <1>4, <1>5, <1>6, <1>7, <1>8, Zenon DEF JbdInv

\* The log fits in the journal and has cached file system blocks, each once.
LEMMA LogFacts ==
  ASSUME JbdInv
  PROVE  /\ Len(datablks) \in Nat /\ 1..Len(datablks) \subseteq 1..JOURNAL_SIZE
         /\ \A i \in 1..Len(datablks) : datablks[i] \in FsBlks /\ PageOf(datablks[i]) \in cached
         /\ \A i, j \in 1..Len(datablks) : datablks[i] = datablks[j] => i = j
<1>1. datablks \in Seq(WriteBlks) /\ IsInjective(datablks) /\ InCache
  BY Zenon DEF JbdInv, JbdTypeOK, JournalRight
<1>2. Len(datablks) <= JOURNAL_SIZE /\ JOURNAL_SIZE \in Nat
  BY JbdAssumption, Zenon DEF JbdInv, TxnAlone, LogBound
<1>3. /\ Len(datablks) \in Nat /\ DOMAIN datablks = 1..Len(datablks)
      /\ \A i \in 1..Len(datablks) : datablks[i] \in WriteBlks
  BY <1>1
<1>4. 1..Len(datablks) \subseteq 1..JOURNAL_SIZE
  BY <1>2, <1>3
<1>5. \A i \in 1..Len(datablks) : PageOf(datablks[i]) \in cached
  BY <1>1, <1>3, Zenon DEF InCache, Range
<1>6. \A i, j \in 1..Len(datablks) : datablks[i] = datablks[j] => i = j
  BY <1>1, <1>3, Zenon DEF IsInjective
<1> QED
  BY <1>3, <1>4, <1>5, <1>6, JournalBlks, Zenon

\* Where the write of the commit goes, and what it writes.
LEMMA TargetIs ==
  ASSUME JbdInv, NEW t \in Threads, pc[t] \in Committing
  PROVE  /\ stage \in {"data", "apply"} => idx + 1 \in 1..Len(datablks)
         /\ stage = "data" => Target = D(idx + 1) /\ Content = mem[datablks[idx + 1]]
         /\ stage = "bmap" => Target = M /\ Content = datablks
         /\ stage \in {"header", "erase"} => Target = H /\ Content = Len(datablks)
         /\ stage # "apply" => Target \in Blks \ FsBlks
<1>1. idx \in Nat /\ stage \in {"data", "bmap", "header", "apply", "erase"}
  BY Zenon DEF JbdInv, JbdTypeOK
<1>2. stage \in {"data", "apply"} => idx < Len(datablks)
  BY Zenon DEF JbdInv, CommitOK
<1>3. stage \in {"data", "apply"} => idx + 1 \in 1..Len(datablks)
  BY <1>1, <1>2, LogFacts
<1>4. stage = "data" => Target = D(idx + 1) /\ Content = mem[datablks[idx + 1]]
  <2>1. ASSUME stage = "data"
        PROVE  Target = JStart + (2 + idx) /\ Content = mem[datablks[idx + 1]]
    BY <2>1, Zenon DEF Target, Content, sfs_journal_bmap, JDATA_START_BLK
  <2>2. D(idx + 1) = JStart + 2 + (idx + 1) - 1
    BY Zenon DEF D, sfs_journal_bmap, JDATA_START_BLK
  <2> QED
    BY <1>1, <2>1, <2>2, JbdAssumption
<1>5. stage = "bmap" => Target = M /\ Content = datablks
  BY Zenon DEF Target, Content, M
<1>6. stage \in {"header", "erase"} => Target = H /\ Content = Len(datablks)
  BY Zenon DEF Target, Content, H
<1>7. stage # "apply" => Target \in Blks \ FsBlks
  <2>1. stage = "data" => idx + 1 \in 1..JOURNAL_SIZE
    BY <1>3, LogFacts
  <2>2. stage = "data" => Target \in Blks \ FsBlks
    BY <1>4, <2>1, JournalBlks, Zenon
  <2>3. stage \in {"bmap", "header", "erase"} => Target \in Blks \ FsBlks
    BY <1>5, <1>6, JournalBlks, Zenon
  <2> QED
    BY <1>1, <2>2, <2>3, Zenon
<1> QED
  BY <1>3, <1>4, <1>5, <1>6, <1>7, Zenon

\* The loops of the commit stay within the log; the log is empty if its length is zero.
LEMMA CommitIndex ==
  ASSUME JbdInv
  PROVE  /\ idx \in Nat /\ (datablks = <<>> => Len(datablks) = 0)
         /\ datablks # <<>> => 0 < Len(datablks)
         /\ \A t \in Threads : pc[t] \in Committing /\ stage \in {"data", "apply"} =>
              /\ datablks # <<>> /\ idx + 1 \in 1..Len(datablks)
              /\ 1..idx \subseteq 1..Len(datablks)
<1>1. idx \in Nat /\ datablks \in Seq(WriteBlks)
  BY Zenon DEF JbdInv, JbdTypeOK
<1>2. /\ datablks = <<>> => Len(datablks) = 0
      /\ datablks # <<>> => 0 < Len(datablks)
      /\ Len(datablks) \in Nat
  BY <1>1
<1>3. ASSUME NEW t \in Threads, pc[t] \in Committing, stage \in {"data", "apply"}
      PROVE  /\ datablks # <<>> /\ idx + 1 \in 1..Len(datablks)
             /\ 1..idx \subseteq 1..Len(datablks)
  <2>1. idx + 1 \in 1..Len(datablks)
    BY <1>3, TargetIs, Zenon
  <2> QED
    BY <1>1, <1>2, <2>1
<1> QED
  BY <1>1, <1>2, <1>3, Zenon

\* A page that is read in disturbs neither the commit nor the journal.
LEMMA MemKept ==
  ASSUME JbdInv, UNCHANGED <<disk, jbdVars>>,
         \A b \in Blks : PageOf(b) \in cached => mem'[b] = mem[b]
  PROVE  JournalRight' /\ \A u \in Threads : CommitOK(u)'
<1>0. UNCHANGED <<disk, pc, jstate, datablks, stage, idx>>
  BY Zenon DEF jbdVars
<1>1. \A i \in 1..Len(datablks) : mem'[datablks[i]] = mem[datablks[i]]
  BY LogFacts, JournalBlks, Zenon
<1>2. Copied(Len(datablks))' <=> Copied(Len(datablks))
  BY <1>0, <1>1, Zenon DEF Copied, D
<1>3. JournalRight'
  BY <1>0, <1>2, Zenon DEF JbdInv, JournalRight, H, M, D
<1>4. ASSUME NEW u \in Threads
      PROVE  CommitOK(u)'
  <2> SUFFICES ASSUME pc[u] \in Committing
               PROVE  CommitOK(u)'
    BY <1>0, Zenon DEF CommitOK
  <2>1. CommitOK(u) /\ FrameOK(u) /\ LockOK(u)
    BY Zenon DEF JbdInv
  <2>2. stage \in {"data", "apply"} => 1..idx \subseteq 1..Len(datablks)
    BY CommitIndex, Zenon
  <2>3. stage = "data" /\ Copied(idx) => Copied(idx)'
    BY <1>0, <1>1, <2>2 DEF Copied, D
  <2>a. stage = "apply" /\ InPlace(idx) => InPlace(idx)'
    BY <1>0, <1>1, <2>2, Zenon DEF InPlace
  <2>4. Target' = Target
    BY <1>0, Zenon DEF Target, sfs_journal_bmap, HEADER_BLK, BMAP_START_BLK, JDATA_START_BLK
  <2>5. stage # "apply" => Content' = Content
    <3>1. stage = "data" => mem'[datablks[idx + 1]] = mem[datablks[idx + 1]]
      BY <1>1, TargetIs, Zenon
    <3> QED
      BY <1>0, <3>1, Zenon DEF Content
  <2>6. pc[u] = "release" /\ stage # "apply" => mem'[Target] = mem[Target]
    <3> SUFFICES ASSUME pc[u] = "release", stage # "apply"
                 PROVE  mem'[Target] = mem[Target]
      OBVIOUS
    <3>1. holder[Target] = u /\ Target \in Blks
      BY <2>1, TargetIs, Zenon DEF FrameOK, LockOK
    <3>2. PageOf(Target) \in cached
      BY <3>1, BdevAssumption, Zenon DEF JbdInv, InCache
    <3> QED
      BY <3>1, <3>2, ZenonT(40)
  <2> QED
    BY <1>0, <1>2, <2>1, <2>3, <2>a, <2>4, <2>5, <2>6, Zenon DEF CommitOK, H, M
<1> QED
  BY <1>3, <1>4, Zenon

\* A write of the commit that reaches the disk takes the commit one step further.
LEMMA WriteReaches ==
  ASSUME JbdInv, NEW t \in Threads, pc[t] = "release", UNCHANGED <<mem, jbdVars>>,
         disk' = [disk EXCEPT ![io[t].blk] = mem[io[t].blk]]
  PROVE  JournalRight' /\ \A u \in Threads : CommitOK(u)'
<1> DEFINE b == io[t].blk
           n == Len(datablks)
<1>0. /\ UNCHANGED <<mem, pc, jstate, datablks, stage, idx>>
      /\ Target' = Target /\ Content' = Content
  BY Zenon DEF jbdVars, Target, Content, sfs_journal_bmap, HEADER_BLK, BMAP_START_BLK,
               JDATA_START_BLK
<1>1. pc[t] \in Committing /\ CommitOK(t) /\ FrameOK(t) /\ InTxn(t)
  BY Zenon DEF JbdInv, Committing, InTxn
<1>2. b \in Blks /\ (stage # "apply" => b = Target) /\ (stage = "apply" => b = datablks[idx + 1])
  BY <1>1, Zenon DEF FrameOK
<1>3. disk'[b] = mem[b] /\ \A c \in Blks \ {b} : disk'[c] = disk[c]
  BY <1>2 DEF JbdInv, JbdTypeOK
<1>4. /\ n \in Nat /\ 1..n \subseteq 1..JOURNAL_SIZE
      /\ \A i \in 1..n : datablks[i] \in FsBlks
      /\ \A i \in 1..n : D(i) \in Blks \ FsBlks /\ D(i) # H /\ D(i) # M
      /\ H \in Blks \ FsBlks /\ M \in Blks \ FsBlks /\ H # M /\ FsBlks \subseteq Blks
  BY LogFacts, JournalBlks
<1>5. stage # "apply" => mem[b] = Content
  BY <1>1, <1>2, Zenon DEF CommitOK
<1>6. H' = H /\ M' = M /\ Len(datablks)' = n
  BY <1>0, Zenon DEF H, M
<1>7. ASSUME stage \in {"data", "apply"}, NEW i \in 1..n, disk[D(i)] = mem[datablks[i]]
      PROVE  disk'[D(i)] = mem[datablks[i]]
  <2>1. CASE stage = "data"
    <3>1. b = D(idx + 1) /\ idx + 1 \in 1..n /\ mem[b] = mem[datablks[idx + 1]]
      BY <1>1, <1>2, <1>5, <2>1, TargetIs
    <3>2. D(i) = b => i = idx + 1
      BY <3>1, <1>4, JournalBlks, Zenon
    <3> QED
      BY <1>3, <1>4, <1>7, <3>1, <3>2, Zenon
  <2>2. CASE stage = "apply"
    <3>1. b \in FsBlks
      BY <1>1, <1>2, <1>4, <2>2, TargetIs
    <3> QED
      BY <1>3, <1>4, <1>7, <3>1, Zenon
  <2> QED
    BY <1>7, <2>1, <2>2
<1>8. stage \in {"bmap", "header", "erase"} /\ Copied(n) => Copied(n)'
  <2> SUFFICES ASSUME stage \in {"bmap", "header", "erase"}, Copied(n), NEW i \in 1..n
               PROVE  disk'[D(i)] = mem[datablks[i]]
    BY <1>0, Zenon DEF Copied, D
  <2>1. b \in {H, M}
    BY <1>1, <1>2, TargetIs
  <2> QED
    BY <1>3, <1>4, <2>1, Zenon DEF Copied
<1>9. QED
  <2>1. CASE stage = "data"
    <3>1. b = D(idx + 1) /\ idx + 1 \in 1..n /\ datablks # <<>>
      BY <1>1, <1>2, <2>1, TargetIs, CommitIndex, Zenon
    <3>2. disk'[H] = disk[H] /\ disk'[M] = disk[M] /\ datablks # <<>>
      BY <1>3, <1>4, <3>1, Zenon
    <3>3. Copied(idx)' /\ (Copied(n) => Copied(n)')
      <4>1. Copied(idx) /\ 1..idx \subseteq 1..n
        BY <1>1, <2>1, CommitIndex, Zenon DEF CommitOK
      <4>2. \A i \in 1..n : disk[D(i)] = mem[datablks[i]] => disk'[D(i)] = mem[datablks[i]]
        BY <1>7, <2>1, Zenon
      <4>3. \A i \in 1..idx : disk'[D(i)] = mem[datablks[i]]
        BY <4>1, <4>2, Zenon DEF Copied
      <4> QED
        BY <1>0, <4>2, <4>3, ZenonT(40) DEF Copied, D
    <3>4. JournalRight'
      BY <1>0, <1>6, <3>2, <3>3, Zenon DEF JbdInv, JournalRight
    <3>5. CommitOK(t)'
      BY <1>0, <1>1, <1>6, <2>1, <3>2, <3>3, ZenonT(40) DEF CommitOK
    <3>6. \A u \in Threads \ {t} : CommitOK(u)'
      BY <1>0, <1>1, ZenonT(40) DEF JbdInv, TxnAlone, InTxn, CommitOK
    <3> QED
      BY <3>4, <3>5, <3>6, Zenon
  <2>2. CASE stage = "bmap"
    <3>1. b = M /\ mem[b] = datablks /\ datablks # <<>>
      BY <1>1, <1>2, <1>5, <2>2, TargetIs, ZenonT(40) DEF CommitOK
    <3>2. disk'[H] = disk[H] /\ disk'[M] = datablks
      BY <1>3, <1>4, <3>1, ZenonT(40)
    <3>3. Copied(n)'
      BY <1>1, <1>8, <2>2 DEF CommitOK
    <3>4. JournalRight'
      BY <1>0, <1>6, <3>1, <3>2, <3>3, ZenonT(40) DEF JbdInv, JournalRight
    <3>5. CommitOK(t)'
      BY <1>0, <1>1, <1>6, <2>2, <3>1, <3>2, <3>3, ZenonT(40) DEF CommitOK
    <3>6. \A u \in Threads \ {t} : CommitOK(u)'
      BY <1>0, <1>1, ZenonT(40) DEF JbdInv, TxnAlone, InTxn, CommitOK
    <3> QED
      BY <3>4, <3>5, <3>6, Zenon
  <2>3. CASE stage = "header"
    <3>1. b = H /\ mem[b] = n
      BY <1>1, <1>2, <1>5, <2>3, TargetIs, ZenonT(40)
    <3>2. disk'[H] = n /\ disk'[M] = disk[M]
      BY <1>3, <1>4, <3>1
    <3>3. Copied(n)' /\ (datablks # <<>> => disk[M] = datablks)
      BY <1>1, <1>8, <2>3, Zenon DEF CommitOK
    <3>4. JournalRight'
      <4>1. datablks = <<>> => n = 0
        BY CommitIndex, Zenon
      <4>2. n > 0 => datablks # <<>>
        BY <4>1
      <4> QED
        BY <1>0, <1>1, <1>4, <1>6, <3>2, <3>3, <4>2, Zenon DEF JbdInv, JournalRight
    <3>5. CommitOK(t)'
      BY <1>0, <1>1, <1>6, <2>3, <3>2, <3>3, ZenonT(40) DEF CommitOK
    <3>6. \A u \in Threads \ {t} : CommitOK(u)'
      BY <1>0, <1>1, Zenon DEF JbdInv, TxnAlone, InTxn, CommitOK
    <3> QED
      BY <3>4, <3>5, <3>6, Zenon
  <2>4. CASE stage = "apply"
    <3>1. b = datablks[idx + 1] /\ idx + 1 \in 1..n /\ datablks # <<>> /\ b \in FsBlks
      BY <1>1, <1>2, <1>4, <2>4, TargetIs, CommitIndex, Zenon
    <3>2. disk'[H] = disk[H] /\ disk'[M] = disk[M] /\ datablks # <<>>
      BY <1>3, <1>4, <3>1, Zenon
    <3>3. Copied(n)'
      <4>1. Copied(n)
        BY <1>1, <2>4 DEF CommitOK
      <4>2. \A i \in 1..n : disk'[D(i)] = mem[datablks[i]]
        BY <1>7, <2>4, <4>1, Zenon DEF Copied
      <4> QED
        BY <1>0, <4>2, Zenon DEF Copied, D
    <3>a. InPlace(idx)'
      <4>1. InPlace(idx) /\ 1..idx \subseteq 1..n
        BY <1>1, <2>4, CommitIndex, Zenon DEF CommitOK
      <4>2. \A i \in 1..idx : disk'[datablks[i]] = mem[datablks[i]]
        BY <1>3, <1>4, <4>1, Zenon DEF InPlace
      <4> QED
        BY <1>0, <4>2, Zenon DEF InPlace
    <3>4. JournalRight'
      BY <1>0, <1>6, <3>2, <3>3, ZenonT(40) DEF JbdInv, JournalRight
    <3>5. CommitOK(t)'
      BY <1>0, <1>1, <1>6, <2>4, <3>2, <3>3, <3>a, ZenonT(40) DEF CommitOK
    <3>6. \A u \in Threads \ {t} : CommitOK(u)'
      BY <1>0, <1>1, Zenon DEF JbdInv, TxnAlone, InTxn, CommitOK
    <3> QED
      BY <3>4, <3>5, <3>6, Zenon
  <2>5. CASE stage = "erase"
    <3>1. b = H /\ mem[b] = n /\ datablks = <<>> /\ n = 0
      BY <1>1, <1>2, <1>5, <2>5, TargetIs, ZenonT(40) DEF CommitOK
    <3>2. disk'[H] = 0
      BY <1>3, <1>4, <3>1, ZenonT(40)
    <3>3. disk'[H] \in Nat /\ ~(disk'[H] > 0)
      BY <3>2
    <3>4. JournalRight'
      BY <1>0, <1>6, <3>3, Zenon DEF JbdInv, JournalRight
    <3>5. CommitOK(t)'
      BY <1>0, <1>1, <1>6, <2>5, <3>1, ZenonT(40) DEF CommitOK
    <3>6. \A u \in Threads \ {t} : CommitOK(u)'
      BY <1>0, <1>1, Zenon DEF JbdInv, TxnAlone, InTxn, CommitOK
    <3> QED
      BY <3>4, <3>5, <3>6, Zenon
  <2> QED
    BY <2>1, <2>2, <2>3, <2>4, <2>5 DEF JbdInv, JbdTypeOK

\* The controller carries out its command: only a write changes the disk, and it
\* writes what is in memory.
LEMMA ControllerKeeps ==
  ASSUME JbdInv, Controller, UNCHANGED jbdVars
  PROVE  JbdInv'
<1> DEFINE h == Head(request_queue)
           b == io[h].blk
<1>0. /\ hw.op # "NONE" /\ ~hw.done
      /\ disk' = IF hw.op = "WRITE" THEN [disk EXCEPT ![hw.blk] = hw.data] ELSE disk
      /\ hw' = [hw EXCEPT !.done = TRUE]
      /\ UNCHANGED <<ide, request_queue, bio, io, fails, panic>>
      /\ UNCHANGED <<mem, cached, pgcache_lock, nhdr, ref, holder, dirty>>
      /\ UNCHANGED <<pc, jstate, datablks, stage, idx>>
  BY Zenon DEF Controller, cacheVars, jbdVars
<1>1. ide = "BUSY" /\ request_queue # <<>>
  BY <1>0, Zenon DEF JbdInv, DeviceRight
<1>2. /\ h \in Threads /\ bio[h] = "PENDING" /\ io[h].at \in {"kick", "wait"}
      /\ FrameOK(h) /\ LockOK(h)
  BY <1>1, FirstPending, Zenon DEF JbdInv
<1>3. b \in Blks
  BY <1>2, Zenon DEF FrameOK
<1>4. /\ hw.op = io[h].op /\ hw.blk = Command(h).blk /\ hw.data = mem[b]
  BY <1>1, Zenon DEF JbdInv, DeviceRight
<1>5. hw.op = "WRITE" => hw.blk = b
  BY <1>4, Zenon DEF Command
<1>6. /\ hw'.op = hw.op /\ hw'.blk = hw.blk /\ hw'.data = hw.data /\ hw'.done = TRUE
      /\ hw' = [op |-> hw'.op, blk |-> hw'.blk, data |-> hw'.data, done |-> hw'.done]
  <2>1. hw = [op |-> hw.op, blk |-> hw.blk, data |-> hw.data, done |-> hw.done]
    BY Zenon DEF JbdInv, JbdTypeOK
  <2> HIDE DEF b, h
  <2>2. hw' = [op |-> hw.op, blk |-> hw.blk, data |-> hw.data, done |-> TRUE]
    BY <1>0, <2>1, Zenon
  <2> QED
    BY <2>2, Zenon
<1>7. /\ disk' = [c \in Blks |-> disk'[c]]
      /\ hw.op = "WRITE" => disk' = [disk EXCEPT ![b] = mem[b]] /\ disk'[b] = mem[b]
      /\ \A c \in Blks : disk'[c] = disk[c] \/ (hw.op = "WRITE" /\ c = b)
  <2>1. disk = [c \in Blks |-> disk[c]]
    BY Zenon DEF JbdInv, JbdTypeOK
  <2>2. CASE hw.op = "WRITE"
    <3>1. disk' = [disk EXCEPT ![b] = mem[b]]
      BY <1>0, <1>4, <1>5, <2>2, Zenon
    <3> QED
      BY <1>3, <2>1, <2>2, <3>1
  <2>3. CASE hw.op # "WRITE"
    BY <1>0, <2>1, <2>3, Zenon
  <2> QED
    BY <2>2, <2>3, Zenon
<1>8. hw.op = "WRITE" => pc[h] = "release" /\ holder[b] = h /\ PageOf(b) \in cached
  <2>1. hw.op = "WRITE" => pc[h] = "release" /\ holder[b] = h
    BY <1>2, <1>4, Zenon DEF FrameOK, LockOK
  <2> QED
    BY <1>2, <1>3, <2>1, BdevAssumption, Zenon DEF JbdInv, InCache
<1>9. JbdTypeOK'
  BY <1>0, <1>6, <1>7, Zenon DEF JbdInv, JbdTypeOK
<1>10. TxnAlone' /\ QueueRight' /\ NoPanic' /\ InCache'
  BY <1>0, ZenonT(40) DEF JbdInv, TxnAlone, LogBound, QueueRight, NoPanic, ShortList, InCache, InTxn
<1>11. DeviceRight'
  <2>1. Command(h)' = Command(h)
    BY <1>0, Zenon DEF Command
  <2> QED
    BY <1>0, <1>1, <1>4, <1>5, <1>6, <1>7, <2>1 DEF DeviceRight
<1>12. ASSUME NEW u \in Threads
       PROVE  FrameOK(u)' /\ LockOK(u)'
  <2>1. Target' = Target /\ FrameOK(u) /\ LockOK(u)
    BY <1>0, Zenon DEF JbdInv, Target, sfs_journal_bmap, HEADER_BLK, BMAP_START_BLK, JDATA_START_BLK
  <2>2. FrameOK(u)'
    BY <1>0, <2>1, Zenon DEF FrameOK
  <2> QED
    BY <1>0, <2>1, <2>2, Zenon DEF LockOK
<1>13. ASSUME NEW u \in Threads
       PROVE  MovedOK(u)'
  <2>1. MovedOK(u) /\ LockOK(u) /\ FrameOK(u)
    BY Zenon DEF JbdInv
  <2>2. ASSUME Served(u), io[u].op = "READ", NEW c \in Blks, PageOf(c) = PageOf(io[u].blk)
        PROVE  mem[c] = disk'[c]
    <3>1. PageOf(c) \notin cached /\ mem[c] = disk[c]
      BY <2>1, <2>2, Zenon DEF MovedOK, LockOK, Served, Busy
    <3> QED
      BY <1>7, <1>8, <3>1, Zenon
  <2>3. ASSUME Served(u) \/ io[u].at = "ok", io[u].op = "WRITE"
        PROVE  mem[io[u].blk] = disk'[io[u].blk]
    <3>1. io[u].blk \in Blks /\ mem[io[u].blk] = disk[io[u].blk]
      BY <2>1, <2>3 DEF MovedOK, FrameOK, Served
    <3> QED
      BY <1>7, <3>1, ZenonT(40)
  <2> QED
    BY <1>0, <2>2, <2>3, Zenon DEF MovedOK, Served
<1>14. Coherent'
  BY <1>0, <1>7, JournalBlks, Zenon DEF JbdInv, Coherent, Stopped
<1>15. JournalRight' /\ \A u \in Threads : CommitOK(u)'
  <2>1. CASE hw.op = "WRITE"
    BY <1>0, <1>2, <1>7, <1>8, <2>1, WriteReaches, Zenon
  <2>2. CASE hw.op # "WRITE"
    BY <1>0, <2>2, MemKept, Zenon
  <2> QED
    BY <2>1, <2>2, Zenon
<1> QED
  BY <1>9, <1>10, <1>11, <1>12, <1>13, <1>14, <1>15, Zenon DEF JbdInv

\* The interrupt: the page of a read is filled, the request is complete and the next
\* one is started.
LEMMA TrapKeeps ==
  ASSUME JbdInv, ide_trap_handler, UNCHANGED jbdVars
  PROVE  JbdInv'
<1> DEFINE h == Head(request_queue)
           rest == Tail(request_queue)
           page == PageOf(io[h].blk)
<1>0. /\ hw.op # "NONE" /\ hw.done /\ ide = "BUSY"
      /\ mem' = IF io[h].op = "READ"
                  THEN [b \in Blks |-> IF PageOf(b) = page THEN disk[b] ELSE mem[b]]
                  ELSE mem
      /\ bio' = [bio EXCEPT ![h] = "COMPLETE"]
      /\ request_queue' = rest
      /\ rest # <<>> => hw' = Command(Head(rest)) /\ ide' = ide
      /\ rest = <<>> => hw' = NoCommand /\ ide' = "IDLE"
      /\ UNCHANGED <<disk, cached, pgcache_lock, nhdr, ref, holder, dirty, io, fails, panic>>
      /\ UNCHANGED <<pc, jstate, datablks, stage, idx>>
  BY Zenon DEF ide_trap_handler, jbdVars
<1>1. request_queue # <<>> /\ request_queue \in Seq(Threads) /\ IsInjective(request_queue)
  BY <1>0, ZenonT(40) DEF JbdInv, DeviceRight, QueueRight, JbdTypeOK
<1>2. /\ h \in Threads /\ bio[h] = "PENDING" /\ io[h].at \in {"kick", "wait"}
      /\ FrameOK(h) /\ LockOK(h) /\ io[h].blk \in Blks
  <2>1. /\ h \in Threads /\ bio[h] = "PENDING" /\ io[h].at \in {"kick", "wait"}
        /\ FrameOK(h) /\ LockOK(h)
    BY <1>1, FirstPending, Zenon DEF JbdInv
  <2> QED
    BY <2>1 DEF FrameOK
<1>3. /\ rest \in Seq(Threads) /\ IsInjective(rest)
      /\ Range(rest) = Range(request_queue) \ {h}
      /\ rest # <<>> => Head(rest) \in Range(rest)
  BY <1>1, TailFacts, Zenon
<1>4. io[h].op = "READ" => pgcache_lock = h /\ page \notin cached
  BY <1>2 DEF LockOK, Busy
<1>5. /\ mem' = [b \in Blks |-> mem'[b]]
      /\ \A b \in Blks : PageOf(b) # page => mem'[b] = mem[b]
      /\ io[h].op # "READ" => mem' = mem
      /\ io[h].op = "READ" => \A b \in Blks : PageOf(b) = page => mem'[b] = disk[b]
  <2>1. mem = [b \in Blks |-> mem[b]]
    BY Zenon DEF JbdInv, JbdTypeOK
  <2>2. CASE io[h].op = "READ"
    BY <1>0, <2>2
  <2>3. CASE io[h].op # "READ"
    BY <1>0, <2>1, <2>3, Zenon
  <2> QED
    BY <2>2, <2>3, Zenon
<1>6. \A b \in Blks : PageOf(b) \in cached => mem'[b] = mem[b]
  BY <1>4, <1>5, Zenon
<1>7. /\ bio' \in [Threads -> {"PENDING", "COMPLETE"}] /\ bio'[h] = "COMPLETE"
      /\ \A u \in Threads \ {h} : bio'[u] = bio[u]
  BY <1>0, <1>2, ZenonT(40) DEF JbdInv, JbdTypeOK
<1>8. \A u \in Threads : u \in Range(rest) <=> bio'[u] = "PENDING"
  BY <1>3, <1>7 DEF JbdInv, QueueRight
<1>9. QueueRight'
  <2>1. /\ Range(request_queue)' = Range(rest)
        /\ IsInjective(request_queue)' = IsInjective(rest)
    BY <1>0, ZenonT(40) DEF Range, IsInjective
  <2>2. \A u \in Threads : bio'[u] = "PENDING" => io'[u].at \in {"kick", "wait"}
    BY <1>0, <1>2, <1>7, Zenon DEF JbdInv, QueueRight
  <2> QED
    BY <1>3, <1>8, <2>1, <2>2, Zenon DEF QueueRight
<1>10. DeviceRight' /\ ide' \in {"IDLE", "BUSY"}
       /\ hw' = [op |-> hw'.op, blk |-> hw'.blk, data |-> hw'.data, done |-> hw'.done]
  <2>1. CASE rest = <<>>
    BY <1>0, <2>1 DEF DeviceRight, NoCommand
  <2>2. CASE rest # <<>>
    <3> DEFINE g == Head(rest)
    <3>1. g \in Threads /\ bio'[g] = "PENDING" /\ g # h
      <4>1. g \in Range(rest) /\ g \in Threads
        BY <1>3, <2>2, SMTT(30)
      <4> QED
        BY <1>3, <1>8, <4>1, Zenon
    <3>2. /\ io[g].op \in {"READ", "WRITE"} /\ io[g].at \in {"kick", "wait"}
          /\ FrameOK(g) /\ LockOK(g) /\ io[g].blk \in Blks
      <4>1. /\ io[g].op \in {"READ", "WRITE"} /\ FrameOK(g) /\ LockOK(g)
        BY <3>1, Zenon DEF JbdInv, JbdTypeOK, Frames
      <4>2. io[g].at \in {"kick", "wait"}
        BY <1>0, <1>9, <3>1, Zenon DEF QueueRight
      <4> QED
        BY <4>1, <4>2, Zenon DEF FrameOK
    <3>3. mem'[io[g].blk] = mem[io[g].blk]
      <4>1. CASE io[g].op = "READ"
        <5>1. io[h].op # "READ"
          BY <1>4, <3>1, <3>2, <4>1, Zenon DEF LockOK, Busy
        <5> QED
          BY <1>5, <5>1, Zenon
      <4>2. CASE io[g].op = "WRITE"
        <5>1. holder[io[g].blk] = g
          BY <3>2, <4>2, Zenon DEF LockOK
        <5>2. PageOf(io[g].blk) \in cached
          BY <3>1, <3>2, <5>1, BdevAssumption, Zenon DEF JbdInv, InCache
        <5> QED
          BY <1>6, <3>2, <5>2, Zenon
      <4> QED
        BY <3>2, <4>1, <4>2, Zenon
    <3>4. /\ hw'.op = io[g].op /\ hw'.blk = Command(g).blk /\ hw'.data = mem[io[g].blk]
          /\ hw'.done = FALSE
          /\ hw' = [op |-> hw'.op, blk |-> hw'.blk, data |-> hw'.data, done |-> hw'.done]
      <4> HIDE DEF g
      <4>1. hw' = Command(g)
        BY <1>0, <2>2, Zenon DEF g
      <4> QED
        BY <4>1 DEF Command
    <3>5. Command(Head(request_queue))'.blk = Command(g).blk
      <4>1. Head(request_queue)' = g
        BY <1>0, Zenon
      <4>2. /\ Command(Head(request_queue))'.blk =
                 IF io'[g].op = "READ" THEN FIRST_BLK_IN_PAGE(io'[g].blk) ELSE io'[g].blk
        BY <4>1, Zenon DEF Command, FIRST_BLK_IN_PAGE
      <4> QED
        BY <1>0, <4>2, Zenon DEF Command
    <3>6. hw'.op # "NONE" /\ ide' = "BUSY" /\ request_queue' # <<>>
      BY <1>0, <2>2, <3>2, <3>4, Zenon
    <3> HIDE DEF g
    <3>7. Head(request_queue') = g
      BY <1>0, Zenon DEF g
    <3> QED
      BY <1>0, <3>3, <3>4, <3>5, <3>6, <3>7, Zenon DEF DeviceRight
  <2> QED
    BY <2>1, <2>2, Zenon
<1>11. JbdTypeOK'
  BY <1>0, <1>3, <1>5, <1>7, <1>10, ZenonT(40) DEF JbdInv, JbdTypeOK
<1>12. TxnAlone' /\ NoPanic' /\ InCache'
  BY <1>0, Zenon DEF JbdInv, TxnAlone, LogBound, NoPanic, ShortList, InCache, InTxn
<1>13. ASSUME NEW u \in Threads
       PROVE  FrameOK(u)' /\ LockOK(u)'
  <2>1. Target' = Target /\ FrameOK(u) /\ LockOK(u)
    BY <1>0, Zenon DEF JbdInv, Target, sfs_journal_bmap, HEADER_BLK, BMAP_START_BLK, JDATA_START_BLK
  <2>2. FrameOK(u)'
    BY <1>0, <2>1, Zenon DEF FrameOK
  <2> QED
    BY <1>0, <2>1, <2>2, Zenon DEF LockOK
<1>14. ASSUME NEW u \in Threads
       PROVE  MovedOK(u)'
  <2>1. CASE u = h
    <3>1. io[h].op = "WRITE" => mem'[io[h].blk] = disk[io[h].blk]
      <4>1. hw.op = io[h].op /\ hw.blk = Command(h).blk /\ hw.data = mem[io[h].blk]
            /\ (hw.op = "WRITE" => disk[hw.blk] = hw.data)
        BY <1>0, Zenon DEF JbdInv, DeviceRight
      <4>2. io[h].op = "WRITE" => Command(h).blk = io[h].blk
        BY Zenon DEF Command
      <4> QED
        BY <1>5, <4>1, <4>2
    <3> QED
      BY <1>0, <1>5, <2>1, <3>1, Zenon DEF MovedOK
  <2>2. CASE u # h
    <3>1. MovedOK(u) /\ LockOK(u) /\ FrameOK(u) /\ bio'[u] = bio[u] /\ (Served(u)' <=> Served(u))
      BY <1>0, <1>7, <2>2, Zenon DEF JbdInv, Served
    <3>2. Served(u) /\ io[u].op = "READ" => mem' = mem
      BY <1>4, <1>5, <2>2, <3>1, Zenon DEF LockOK, Busy, Served
    <3>3. io[u].op = "WRITE" => mem'[io[u].blk] = mem[io[u].blk]
      <4>1. io[u].op = "WRITE" => io[u].blk \in Blks /\ holder[io[u].blk] = u
        BY <3>1 DEF FrameOK, LockOK, Busy
      <4> QED
        BY <1>6, <4>1, BdevAssumption, ZenonT(40) DEF JbdInv, InCache
    <3> QED
      BY <1>0, <3>1, <3>2, <3>3, Zenon DEF MovedOK
  <2> QED
    BY <2>1, <2>2, Zenon
<1>15. Coherent'
  BY <1>0, <1>6, JournalBlks, Zenon DEF JbdInv, Coherent, Stopped
<1>16. JournalRight' /\ \A u \in Threads : CommitOK(u)'
  BY <1>0, <1>6, MemKept, Zenon
<1> QED
  BY <1>9, <1>10, <1>11, <1>12, <1>13, <1>14, <1>15, <1>16, Zenon DEF JbdInv
=============================================================================
