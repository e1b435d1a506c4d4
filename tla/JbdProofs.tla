------------------------------ MODULE JbdProofs ------------------------------
(***************************************************************************)
(* The journal keeps JbdInv: a lemma for each action of Jbd, the invariance *)
(* and what it says.                                                        *)
(***************************************************************************)
EXTENDS BdevProofs

(***************************************************************************)
(* What the journal's steps share.                                          *)
(***************************************************************************)

\* The place of one thread changes.
LEMMA PcIs ==
  ASSUME JbdTypeOK, NEW t \in Threads, NEW l, pc' = [pc EXCEPT ![t] = l]
  PROVE  pc'[t] = l /\ \A u \in Threads \ {t} : pc'[u] = pc[u]
  BY DEF JbdTypeOK

\* A thread's place after a step is a place.
LEMMA PcTyped ==
  ASSUME JbdTypeOK, NEW t \in Threads,
         NEW l \in {"user", "txn", "modify", "read", "halt", "off"} \cup Committing,
         pc' = [pc EXCEPT ![t] = l]
  PROVE  pc' \in [Threads -> {"user", "txn", "modify", "read", "halt", "off"} \cup Committing]
  BY Zenon DEF JbdTypeOK

\* Nothing is in the journal on the disk while nobody commits.
LEMMA JournalEmpty ==
  ASSUME JbdInv, NEW t \in Threads, pc[t] # "off", pc[t] \notin Committing,
         InTxn(t) \/ jstate = "IDLE"
  PROVE  disk[H] = 0 /\ \A u \in Threads : pc[u] \notin Committing
<1>1. \A u \in Threads : pc[u] \notin Committing
  BY DEF JbdInv, TxnAlone, InTxn
<1>2. ~(disk[H] > 0) /\ disk[H] \in Nat
  BY <1>1, Zenon DEF JbdInv, JournalRight
<1> QED
  BY <1>1, <1>2

\* A thread that neither commits nor begins to leaves commit and journal as they are.
LEMMA CommitKept ==
  ASSUME JbdInv, NEW t \in Threads, UNCHANGED <<disk, mem, datablks, stage, idx>>,
         NEW l, l # "off", pc' = [pc EXCEPT ![t] = l], pc[t] # "off",
         pc[t] \notin Committing, l \notin Committing
  PROVE  JournalRight' /\ \A u \in Threads : CommitOK(u)'
<1>1. pc'[t] = l /\ \A u \in Threads \ {t} : pc'[u] = pc[u]
  BY PcIs, Zenon DEF JbdInv
<1>2. /\ Target' = Target /\ Content' = Content
      /\ \A u \in Threads : pc'[u] \in Committing <=> pc[u] \in Committing
      /\ \A u \in Threads : pc'[u] \in Committing => pc'[u] = pc[u]
  BY <1>1, Zenon DEF Target, Content, sfs_journal_bmap, HEADER_BLK, BMAP_START_BLK,
                     JDATA_START_BLK
<1>3. JournalRight'
  BY <1>2, Zenon DEF JbdInv, JournalRight, Copied, H, M, D
<1>4. ASSUME NEW u \in Threads
      PROVE  CommitOK(u)'
  BY <1>2, Zenon DEF JbdInv, CommitOK, Copied, InPlace, H, M, D
<1> QED
  BY <1>3, <1>4, Zenon

\* A step that logs nothing, begins no commit and does not stop keeps the bounds of the log.
LEMMA LogKept ==
  ASSUME JbdInv, NEW t \in Threads, \A u \in Threads \ {t} : pc'[u] = pc[u], datablks' = datablks,
         pc'[t] \in Committing => pc[t] \in Committing, pc'[t] # "halt"
  PROVE  LogBound'
  BY Zenon DEF JbdInv, TxnAlone, LogBound

\* A step of a thread that has not stopped hits no new panic.
LEMMA PanicKept ==
  ASSUME JbdInv, NEW t \in Threads, pc[t] # "halt", \A u \in Threads \ {t} : pc'[u] = pc[u],
         fails' = fails, panic' \subseteq panic \cup {"bh->ref > 0"},
         \A p \in Pages : nhdr'[p] \in {0, nhdr[p]}
  PROVE  NoPanic'
<1>1. ShortList' = ShortList
  BY Zenon DEF ShortList
<1>2. "bh->ref > 0" \notin JournalPanics
  BY DEF JournalPanics
<1>3. panic' \cap JournalPanics \subseteq panic \cap JournalPanics
  BY <1>2, Zenon
<1>4. panic' \cap JournalPanics # {} => \E u \in Threads : pc'[u] = "halt"
  BY <1>3, Zenon DEF JbdInv, NoPanic
<1>5. "bdev block not found in page" \in panic' => "bdev block not found in page" \in panic
  BY Zenon
<1> QED
  BY <1>1, <1>4, <1>5, Zenon DEF JbdInv, NoPanic

\* A panic of the journal stops the thread.
LEMMA PanicHalts ==
  ASSUME JbdInv, NEW t \in Threads, pc'[t] = "halt", fails' = fails, nhdr' = nhdr,
         NEW m \in JournalPanics, panic' = panic \cup {m}
  PROVE  NoPanic'
<1>1. ShortList' = ShortList
  BY Zenon DEF ShortList
<1>2. "bdev block not found in page" \notin JournalPanics
  BY DEF JournalPanics
<1>3. "bdev block not found in page" \in panic' => "bdev block not found in page" \in panic
  BY <1>2, Zenon
<1> QED
  BY <1>1, <1>3, Zenon DEF JbdInv, NoPanic

\* A release: the block is unlocked, and its page may lose its headers.
LEMMA ReleaseIs ==
  ASSUME JbdTypeOK, NEW b \in Blks, holder' = [holder EXCEPT ![b] = NULL],
         nhdr' = nhdr \/ nhdr' = [nhdr EXCEPT ![PageOf(b)] = 0]
  PROVE  /\ holder' \in [Blks -> Threads \cup {NULL}] /\ holder'[b] = NULL
         /\ \A c \in Blks \ {b} : holder'[c] = holder[c]
         /\ nhdr' \in [Pages -> Nat] /\ \A p \in Pages : nhdr'[p] \in {0, nhdr[p]}
<1>1. /\ holder' \in [Blks -> Threads \cup {NULL}] /\ holder'[b] = NULL
      /\ \A c \in Blks \ {b} : holder'[c] = holder[c]
  BY DEF JbdTypeOK
<1>2. nhdr' \in [Pages -> Nat] /\ \A p \in Pages : nhdr'[p] \in {0, nhdr[p]}
  BY DEF JbdTypeOK
<1> QED
  BY <1>1, <1>2, Zenon

\* The data of a block changes under its lock: no request in progress is about it.
LEMMA DataStep ==
  ASSUME JbdInv, NEW t \in Threads, io[t].at = "ok", UNCHANGED ioVars,
         \A c \in Blks \ {io[t].blk} : mem'[c] = mem[c],
         io'[t].at \notin {"kick", "wait"}, io'[t].at = "ok" => io'[t].op = "READ",
         \A u \in Threads \ {t} : io'[u] = io[u]
  PROVE  QueueRight' /\ DeviceRight' /\ \A u \in Threads : MovedOK(u)'
<1> DEFINE b == io[t].blk
<1>0. UNCHANGED <<disk, hw, ide, request_queue, bio>>
  BY Zenon DEF ioVars
<1>1. holder[b] = t /\ b \in Blks /\ PageOf(b) \in cached /\ bio[t] # "PENDING"
  <2>1. holder[b] = t /\ b \in Blks /\ bio[t] # "PENDING"
    BY DEF JbdInv, LockOK, FrameOK, QueueRight
  <2> QED
    BY <2>1, BdevAssumption, Zenon DEF JbdInv, InCache
<1>2. ASSUME NEW u \in Threads \ {t}
      PROVE  /\ io[u].at \in Busy /\ io[u].op = "READ" =>
                  \A c \in Blks : PageOf(c) = PageOf(io[u].blk) => mem'[c] = mem[c]
             /\ io[u].op = "WRITE" => io[u].blk # b /\ mem'[io[u].blk] = mem[io[u].blk]
             /\ io[u].at \in Busy => mem'[io[u].blk] = mem[io[u].blk]
  <2>1. LockOK(u) /\ FrameOK(u) /\ io[u].op \in {"READ", "WRITE"}
    BY DEF JbdInv, JbdTypeOK, Frames
  <2>2. io[u].at \in Busy /\ io[u].op = "READ" =>
           \A c \in Blks : PageOf(c) = PageOf(io[u].blk) => mem'[c] = mem[c]
    BY <1>1, <2>1, Zenon DEF LockOK
  <2>3. io[u].at \in Busy \/ io[u].op = "WRITE" => io[u].blk \in Blks
    BY <2>1, Zenon DEF FrameOK, Busy
  <2>4. io[u].op = "WRITE" => io[u].blk # b /\ mem'[io[u].blk] = mem[io[u].blk]
    BY <1>1, <2>1, <2>3, Zenon DEF LockOK
  <2> QED
    BY <2>1, <2>2, <2>3, <2>4, Zenon
<1>3. QueueRight'
  BY <1>0, <1>1, Zenon DEF JbdInv, QueueRight
<1>4. DeviceRight'
  <2>1. CASE ide = "BUSY"
    <3> DEFINE h == Head(request_queue)
    <3>1. request_queue # <<>>
      BY <2>1, Zenon DEF JbdInv, DeviceRight
    <3>2. h \in Threads /\ bio[h] = "PENDING" /\ io[h].at \in Busy
      BY <3>1, FirstPending, Zenon DEF JbdInv, Busy
    <3>3. io'[h] = io[h] /\ mem'[io[h].blk] = mem[io[h].blk]
      BY <1>1, <1>2, <3>2, Zenon
    <3> QED
      BY <1>0, <3>3 DEF JbdInv, DeviceRight, Command
  <2>2. CASE ide # "BUSY"
    BY <1>0, <2>2, Zenon DEF JbdInv, DeviceRight
  <2> QED
    BY <2>1, <2>2, Zenon
<1>5. ASSUME NEW u \in Threads
      PROVE  MovedOK(u)'
  <2>1. CASE u = t
    BY <2>1 DEF MovedOK, Served
  <2>2. CASE u # t
    <3>1. io'[u] = io[u] /\ bio'[u] = bio[u] /\ MovedOK(u) /\ (Served(u)' <=> Served(u))
      BY <1>0, <2>2, Zenon DEF JbdInv, Served
    <3>2. Served(u) => io[u].at \in Busy
      BY DEF Served, Busy
    <3>3. /\ Served(u) /\ io[u].op = "READ" =>
               \A c \in Blks : PageOf(c) = PageOf(io[u].blk) => mem'[c] = mem[c]
          /\ io[u].op = "WRITE" => mem'[io[u].blk] = mem[io[u].blk]
      BY <1>2, <2>2, <3>2, Zenon
    <3> QED
      BY <1>0, <3>1, <3>3, Zenon DEF MovedOK
  <2> QED
    BY <2>1, <2>2, Zenon
<1> QED
  BY <1>3, <1>4, <1>5, Zenon

(***************************************************************************)
(* Transactions.                                                            *)
(***************************************************************************)

\* jbd_begin_txn waits until no transaction is open.
LEMMA BeginKeeps ==
  ASSUME JbdInv, NEW t \in Writers, jbd_begin_txn(t)
  PROVE  JbdInv'
<1>0. /\ t \in Threads /\ pc[t] = "user" /\ jstate = "IDLE" /\ jstate' = "BUSY"
      /\ pc' = [pc EXCEPT ![t] = "txn"]
      /\ UNCHANGED <<disk, hw, ide, request_queue, bio>> /\ UNCHANGED <<ioVars, mem>>
      /\ UNCHANGED <<mem, cached, pgcache_lock, nhdr, ref, holder, dirty>>
      /\ UNCHANGED <<io, fails, panic, datablks, stage, idx>>
      /\ UNCHANGED <<disk, mem, datablks, stage, idx>>
      /\ UNCHANGED <<disk, mem, cached, holder, datablks>>
  BY JbdAssumption, Zenon DEF jbd_begin_txn, bdevVars, ioVars, cacheVars
<1>1. pc'[t] = "txn" /\ \A u \in Threads \ {t} : pc'[u] = pc[u]
  BY <1>0, PcIs, Zenon DEF JbdInv
<1>2. pc' \in [Threads -> {"user", "txn", "modify", "read", "halt", "off"} \cup Committing]
  BY <1>0, PcTyped, Zenon DEF JbdInv
<1>3. JournalRight' /\ \A u \in Threads : CommitOK(u)'
  BY <1>0, CommitKept, Zenon DEF Committing
<1>4. \A u \in Threads : ~InTxn(u)
  BY <1>0, Zenon DEF JbdInv, TxnAlone
<1>5. TxnAlone'
  <2>1. \A u \in Threads : InTxn(u)' => u = t
    BY <1>1, <1>4, Zenon DEF InTxn
  <2>2. \A u \in Threads : pc'[u] # "off"
    BY <1>0, <1>1 DEF JbdInv, TxnAlone
  <2>3. LogBound'
    BY <1>0, <1>1, LogKept DEF Committing
  <2> QED
    BY <1>0, <2>1, <2>2, <2>3, Zenon DEF TxnAlone
<1>6. ASSUME NEW u \in Threads
      PROVE  FrameOK(u)' /\ LockOK(u)' /\ MovedOK(u)'
  <2>1. Target' = Target /\ FrameOK(u) /\ LockOK(u) /\ MovedOK(u)
    BY <1>0, Zenon DEF JbdInv, Target, sfs_journal_bmap, HEADER_BLK, BMAP_START_BLK, JDATA_START_BLK
  <2>2. LockOK(u)' /\ MovedOK(u)'
    BY <1>0, <2>1, Zenon DEF LockOK, MovedOK, Served
  <2>3. FrameOK(u)'
    BY <1>0, <1>1, <2>1, Zenon DEF FrameOK
  <2> QED
    BY <2>2, <2>3, Zenon
<1>7. JbdTypeOK'
  BY <1>0, <1>2, Zenon DEF JbdInv, JbdTypeOK
<1>8. QueueRight' /\ DeviceRight' /\ InCache' /\ Coherent' /\ NoPanic'
  <2>1. QueueRight' /\ DeviceRight'
    BY <1>0, Zenon DEF JbdInv, QueueRight, DeviceRight, Command
  <2>2. InCache' /\ Coherent'
    BY <1>0, <1>1, CacheKept, Zenon DEF JbdInv
  <2>3. NoPanic'
    BY <1>0, <1>1, PanicKept, Zenon
  <2> QED
    BY <2>1, <2>2, <2>3, Zenon
<1> QED
  BY <1>3, <1>5, <1>6, <1>7, <1>8, Zenon DEF JbdInv

\* A block is fetched, to modify it in a transaction or to read it.
LEMMA GetKeeps ==
  ASSUME JbdInv, NEW t \in Threads, NEW b \in FsBlks, t \in Writers => b \in WriteBlks,
         bdev_get_blk(t, b)
  PROVE  JbdInv'
<1> DEFINE l == IF t \in Writers THEN "modify" ELSE "read"
<1>0. /\ pc[t] = (IF t \in Writers THEN "txn" ELSE "user") /\ io[t].at = "none"
      /\ io' = Start(t, "pgcache", b, "READ")
      /\ pc' = [pc EXCEPT ![t] = l]
      /\ UNCHANGED <<disk, hw, ide, request_queue, bio>> /\ UNCHANGED <<ioVars, mem>>
      /\ UNCHANGED <<mem, cached, pgcache_lock, nhdr, ref, holder, dirty>>
      /\ UNCHANGED <<fails, panic, jstate, datablks, stage, idx>>
      /\ UNCHANGED <<disk, mem, datablks, stage, idx>>
      /\ UNCHANGED <<disk, mem, cached, holder, datablks>>
  BY Zenon DEF bdev_get_blk, ioVars, cacheVars
<1>1. pc'[t] = l /\ \A u \in Threads \ {t} : pc'[u] = pc[u]
  BY <1>0, PcIs, Zenon DEF JbdInv
<1>2. pc' \in [Threads -> {"user", "txn", "modify", "read", "halt", "off"} \cup Committing]
  BY <1>0, PcTyped, Zenon DEF JbdInv
<1>3. /\ io' \in [Threads -> Frames]
      /\ io'[t].at = "pgcache" /\ io'[t].blk = b /\ io'[t].op = "READ"
      /\ \A u \in Threads \ {t} : io'[u] = io[u]
  BY <1>0, StartIs, JournalBlks, Zenon DEF JbdInv, JbdTypeOK, Labels
<1>4. JournalRight' /\ \A u \in Threads : CommitOK(u)'
  BY <1>0, CommitKept, Zenon DEF Committing
<1>5. TxnAlone'
  <2>1. \A u \in Threads : (InTxn(u)' <=> InTxn(u)) /\ (pc'[u] = "off" <=> pc[u] = "off")
    BY <1>0, <1>1 DEF InTxn, Committing
  <2>2. LogBound'
    BY <1>0, <1>1, LogKept DEF Committing
  <2> QED
    BY <1>0, <2>1, <2>2, Zenon DEF JbdInv, TxnAlone
<1>6. ASSUME NEW u \in Threads
      PROVE  FrameOK(u)' /\ LockOK(u)'
  <2>1. CASE u = t
    <3>1. FrameOK(t)'
      BY <1>0, <1>1, <1>3, JournalBlks, SMTT(30) DEF JbdInv, FrameOK
    <3> QED
      BY <1>3, <2>1, <3>1, ZenonT(40) DEF LockOK, Busy
  <2>2. CASE u # t
    <3>1. FrameOK(u)'
      BY <1>0, <1>1, <1>3, <2>2, OtherFrames, Zenon DEF JbdInv
    <3> QED
      BY <1>0, <1>3, <2>2, <3>1, LocksKept, Zenon DEF JbdInv
  <2> QED
    BY <2>1, <2>2, Zenon
<1>7. QueueRight' /\ DeviceRight' /\ \A u \in Threads : MovedOK(u)'
  <2>1. bio[t] # "PENDING"
    BY <1>0 DEF JbdInv, QueueRight
  <2> QED
    BY <1>0, <1>3, <2>1, LocalStep, Zenon DEF JbdInv
<1>8. JbdTypeOK'
  BY <1>0, <1>2, <1>3, Zenon DEF JbdInv, JbdTypeOK
<1>9. InCache' /\ Coherent' /\ NoPanic'
  <2>1. pc[t] # "halt"
    BY <1>0
  <2>2. InCache' /\ Coherent'
    BY <1>0, <1>1, <1>3, <2>1, CacheKept, Zenon DEF JbdInv
  <2>3. NoPanic'
    BY <1>0, <1>1, <2>1, PanicKept, Zenon
  <2> QED
    BY <2>2, <2>3, Zenon
<1> QED
  BY <1>4, <1>5, <1>6, <1>7, <1>8, <1>9, Zenon DEF JbdInv

\* A caller whose fetch failed gives up.
LEMMA GetFailedKeeps ==
  ASSUME JbdInv, NEW t \in Threads, GetFailed(t)
  PROVE  JbdInv'
<1> DEFINE l == IF t \in Writers THEN "txn" ELSE "user"
<1>0. /\ pc[t] \in {"modify", "read"} /\ io[t].at = "nomem"
      /\ io' = [io EXCEPT ![t] = Idle]
      /\ pc' = [pc EXCEPT ![t] = l]
      /\ UNCHANGED <<disk, hw, ide, request_queue, bio>> /\ UNCHANGED <<ioVars, mem>>
      /\ UNCHANGED <<mem, cached, pgcache_lock, nhdr, ref, holder, dirty>>
      /\ UNCHANGED <<fails, panic, jstate, datablks, stage, idx>>
      /\ UNCHANGED <<disk, mem, datablks, stage, idx>>
      /\ UNCHANGED <<disk, mem, cached, holder, datablks>>
  BY Zenon DEF GetFailed, ioVars, cacheVars
<1>a. FrameOK(t) /\ (pc[t] = "modify" <=> t \in Writers)
  BY <1>0 DEF JbdInv, FrameOK
<1>1. pc'[t] = l /\ \A u \in Threads \ {t} : pc'[u] = pc[u]
  BY <1>0, PcIs, Zenon DEF JbdInv
<1>2. pc' \in [Threads -> {"user", "txn", "modify", "read", "halt", "off"} \cup Committing]
  BY <1>0, PcTyped, Zenon DEF JbdInv
<1>3. /\ io' \in [Threads -> Frames]
      /\ io'[t].at = "none" /\ io'[t].op = "READ"
      /\ \A u \in Threads \ {t} : io'[u] = io[u]
  BY <1>0, IdleIs, Zenon DEF JbdInv, JbdTypeOK
<1>4. JournalRight' /\ \A u \in Threads : CommitOK(u)'
  BY <1>0, CommitKept, Zenon DEF Committing
<1>5. TxnAlone'
  <2>1. \A u \in Threads : (InTxn(u)' <=> InTxn(u)) /\ (pc'[u] = "off" <=> pc[u] = "off")
    BY <1>0, <1>a, <1>1 DEF InTxn, Committing
  <2>2. LogBound'
    BY <1>0, <1>1, LogKept DEF Committing
  <2> QED
    BY <1>0, <2>1, <2>2, Zenon DEF JbdInv, TxnAlone
<1>6. ASSUME NEW u \in Threads
      PROVE  FrameOK(u)' /\ LockOK(u)'
  <2>1. CASE u = t
    <3>1. FrameOK(t)'
      BY <1>1, <1>3 DEF FrameOK
    <3> QED
      BY <1>3, <2>1, <3>1, Zenon DEF LockOK, Busy
  <2>2. CASE u # t
    <3>1. FrameOK(u)'
      BY <1>0, <1>1, <1>3, <2>2, OtherFrames, Zenon DEF JbdInv
    <3> QED
      BY <1>0, <1>3, <2>2, <3>1, LocksKept, Zenon DEF JbdInv
  <2> QED
    BY <2>1, <2>2, Zenon
<1>7. QueueRight' /\ DeviceRight' /\ \A u \in Threads : MovedOK(u)'
  <2>1. bio[t] # "PENDING"
    BY <1>0 DEF JbdInv, QueueRight
  <2> QED
    BY <1>0, <1>3, <2>1, LocalStep, Zenon DEF JbdInv
<1>8. JbdTypeOK'
  BY <1>0, <1>2, <1>3, Zenon DEF JbdInv, JbdTypeOK
<1>9. InCache' /\ Coherent' /\ NoPanic'
  <2>1. pc[t] # "halt"
    BY <1>0
  <2>2. InCache' /\ Coherent'
    BY <1>0, <1>1, <1>3, <2>1, CacheKept, Zenon DEF JbdInv
  <2>3. NoPanic'
    BY <1>0, <1>1, <2>1, PanicKept, Zenon
  <2> QED
    BY <2>2, <2>3, Zenon
<1> QED
  BY <1>4, <1>5, <1>6, <1>7, <1>8, <1>9, Zenon DEF JbdInv

\* A reader has read its block and releases it.
LEMMA ReadBlkKeeps ==
  ASSUME JbdInv, NEW t \in Threads, ReadBlk(t)
  PROVE  JbdInv'
<1> DEFINE b == io[t].blk
<1>0. /\ pc[t] = "read" /\ io[t].at = "ok"
      /\ holder' = [holder EXCEPT ![b] = NULL]
      /\ nhdr' = nhdr \/ nhdr' = [nhdr EXCEPT ![PageOf(b)] = 0]
      /\ io' = [io EXCEPT ![t] = Idle]
      /\ pc' = [pc EXCEPT ![t] = "user"]
      /\ UNCHANGED <<disk, hw, ide, request_queue, bio>> /\ UNCHANGED <<ioVars, mem>>
      /\ UNCHANGED <<mem, cached, pgcache_lock, dirty>>
      /\ UNCHANGED <<fails, jstate, datablks, stage, idx>>
      /\ UNCHANGED <<disk, mem, datablks, stage, idx>>
  BY Zenon DEF ReadBlk, ReleaseBlk, ioVars
<1>p. panic' \subseteq panic \cup {"bh->ref > 0"}
  BY Zenon DEF ReadBlk, ReleaseBlk
<1>a. FrameOK(t) /\ LockOK(t) /\ b \in Blks /\ holder[b] = t
  BY <1>0 DEF JbdInv, FrameOK, LockOK
<1>b. /\ holder' \in [Blks -> Threads \cup {NULL}] /\ holder'[b] = NULL
      /\ \A c \in Blks \ {b} : holder'[c] = holder[c]
      /\ nhdr' \in [Pages -> Nat] /\ \A p \in Pages : nhdr'[p] \in {0, nhdr[p]}
  BY <1>0, <1>a, ReleaseIs, Zenon DEF JbdInv
<1>1. pc'[t] = "user" /\ \A u \in Threads \ {t} : pc'[u] = pc[u]
  BY <1>0, PcIs, Zenon DEF JbdInv
<1>2. pc' \in [Threads -> {"user", "txn", "modify", "read", "halt", "off"} \cup Committing]
  BY <1>0, PcTyped, Zenon DEF JbdInv
<1>3. /\ io' \in [Threads -> Frames]
      /\ io'[t].at = "none" /\ io'[t].op = "READ"
      /\ \A u \in Threads \ {t} : io'[u] = io[u]
  BY <1>0, IdleIs, Zenon DEF JbdInv, JbdTypeOK
<1>4. JournalRight' /\ \A u \in Threads : CommitOK(u)'
  BY <1>0, CommitKept, Zenon DEF Committing
<1>5. TxnAlone'
  <2>1. \A u \in Threads : (InTxn(u)' <=> InTxn(u)) /\ (pc'[u] = "off" <=> pc[u] = "off")
    BY <1>0, <1>1, ZenonT(40) DEF InTxn, Committing
  <2>2. LogBound'
    BY <1>0, <1>1, LogKept DEF Committing
  <2> QED
    BY <1>0, <2>1, <2>2, Zenon DEF JbdInv, TxnAlone
<1>6. ASSUME NEW u \in Threads
      PROVE  FrameOK(u)' /\ LockOK(u)'
  <2>1. CASE u = t
    <3>1. FrameOK(t)'
      BY <1>0, <1>a, <1>1, <1>3, Zenon DEF FrameOK
    <3> QED
      BY <1>3, <2>1, <3>1, Zenon DEF LockOK, Busy
  <2>2. CASE u # t
    <3>1. FrameOK(u)'
      BY <1>0, <1>1, <1>3, <2>2, OtherFrames, Zenon DEF JbdInv
    <3>2. \A c \in Blks : holder[c] = u => holder'[c] = u
      BY <1>a, <1>b, <2>2, ZenonT(40)
    <3> QED
      BY <1>0, <1>3, <2>2, <3>1, <3>2, LocksKept, Zenon DEF JbdInv
  <2> QED
    BY <2>1, <2>2, Zenon
<1>7. QueueRight' /\ DeviceRight' /\ \A u \in Threads : MovedOK(u)'
  <2>1. bio[t] # "PENDING"
    BY <1>0, Zenon DEF JbdInv, QueueRight
  <2> QED
    BY <1>0, <1>3, <2>1, LocalStep DEF JbdInv
<1>8. JbdTypeOK'
  BY <1>0, <1>b, <1>2, <1>3, ZenonT(40) DEF JbdInv, JbdTypeOK
<1>9. InCache' /\ Coherent' /\ NoPanic'
  <2>1. InCache'
    BY <1>0, <1>b, Zenon DEF JbdInv, InCache
  <2>2. Coherent'
    <3>1. \A c \in FsBlks : Stopped(c) => Stopped(c)'
      BY <1>0, <1>1, <1>3, StoppedKept
    <3> QED
      BY <1>0, <3>1, Zenon DEF JbdInv, Coherent
  <2>3. NoPanic'
    BY <1>0, <1>1, <1>p, <1>b, PanicKept
  <2> QED
    BY <2>1, <2>2, <2>3, Zenon
<1> QED
  BY <1>4, <1>5, <1>6, <1>7, <1>8, <1>9, Zenon DEF JbdInv

\* A block is modified, logged once and released (jbd_write_blk).
LEMMA WriteBlkKeeps ==
  ASSUME JbdInv, NEW t \in Threads, NEW v, jbd_write_blk(t, v)
  PROVE  JbdInv'
<1> DEFINE b == io[t].blk
<1>0. /\ pc[t] = "modify" /\ io[t].at = "ok"
      /\ mem' = [mem EXCEPT ![b] = v]
      /\ datablks' = Log(b) /\ Len(Log(b)) <= JOURNAL_SIZE
      /\ holder' = [holder EXCEPT ![b] = NULL]
      /\ nhdr' = nhdr \/ nhdr' = [nhdr EXCEPT ![PageOf(b)] = 0]
      /\ io' = [io EXCEPT ![t] = Idle]
      /\ pc' = [pc EXCEPT ![t] = "txn"]
      /\ UNCHANGED <<disk, hw, ide, request_queue, bio>> /\ UNCHANGED ioVars
      /\ UNCHANGED <<cached, pgcache_lock, fails, jstate, stage, idx>>
  BY ZenonT(40) DEF jbd_write_blk, ReleaseBlk, ioVars
<1>p. jstate = "BUSY" => panic' \subseteq panic \cup {"bh->ref > 0"}
  BY ZenonT(40) DEF jbd_write_blk, ReleaseBlk, NotBusy
<1>a. /\ FrameOK(t) /\ LockOK(t) /\ b \in Blks /\ b \in WriteBlks /\ holder[b] = t
      /\ InTxn(t) /\ pc[t] \notin Committing
  BY <1>0 DEF JbdInv, FrameOK, LockOK, InTxn, Committing
<1>b. /\ holder' \in [Blks -> Threads \cup {NULL}] /\ holder'[b] = NULL
      /\ \A c \in Blks \ {b} : holder'[c] = holder[c]
      /\ nhdr' \in [Pages -> Nat] /\ \A p \in Pages : nhdr'[p] \in {0, nhdr[p]}
  BY <1>0, <1>a, ReleaseIs, Zenon DEF JbdInv
<1>c. PageOf(b) \in cached
  BY <1>a, BdevAssumption, Zenon DEF JbdInv, InCache
<1>d. mem' = [c \in Blks |-> mem'[c]] /\ \A c \in Blks \ {b} : mem'[c] = mem[c]
  <2>1. mem = [c \in Blks |-> mem[c]]
    BY Zenon DEF JbdInv, JbdTypeOK
  <2> QED
    BY <1>0, <2>1
<1>e. /\ datablks' \in Seq(WriteBlks) /\ IsInjective(datablks')
      /\ Range(datablks') = Range(datablks) \cup {b}
  <2>1. datablks \in Seq(WriteBlks) /\ IsInjective(datablks)
    BY Zenon DEF JbdInv, JbdTypeOK, JournalRight
  <2>2. CASE b \in Range(datablks)
    BY <1>0, <2>1, <2>2, Zenon DEF Log
  <2>3. CASE b \notin Range(datablks)
    BY <1>0, <1>a, <2>1, <2>3, AppendFacts, SMTT(30) DEF Log
  <2> QED
    BY <2>2, <2>3, Zenon
<1>f. panic' \subseteq panic \cup {"bh->ref > 0"} /\ jstate = "BUSY"
  <2>1. jstate = "BUSY"
    BY <1>a, Zenon DEF JbdInv, TxnAlone
  <2> QED
    BY <1>p, <2>1, Zenon
<1>1. pc'[t] = "txn" /\ \A u \in Threads \ {t} : pc'[u] = pc[u]
  BY <1>0, PcIs, Zenon DEF JbdInv
<1>2. pc' \in [Threads -> {"user", "txn", "modify", "read", "halt", "off"} \cup Committing]
  BY <1>0, PcTyped, Zenon DEF JbdInv
<1>3. /\ io' \in [Threads -> Frames]
      /\ io'[t].at = "none" /\ io'[t].op = "READ"
      /\ \A u \in Threads \ {t} : io'[u] = io[u]
  BY <1>0, IdleIs, Zenon DEF JbdInv, JbdTypeOK
<1>4. JournalRight' /\ \A u \in Threads : CommitOK(u)'
  <2>1. disk[H] = 0 /\ \A u \in Threads : pc[u] \notin Committing
    BY <1>0, <1>a, JournalEmpty, ZenonT(40)
  <2>2. \A u \in Threads : pc'[u] \notin Committing
    BY <1>1, <2>1 DEF Committing
  <2>3. disk'[H'] = 0 /\ 0 \in Nat /\ ~(0 > 0)
    BY <1>0, <2>1 DEF H
  <2>4. IsInjective(datablks)' = IsInjective(datablks')
    BY Zenon DEF IsInjective
  <2> QED
    BY <1>e, <2>2, <2>3, <2>4, Zenon DEF JournalRight, CommitOK
<1>5. TxnAlone'
  <2>1. \A u \in Threads : (InTxn(u)' <=> InTxn(u)) /\ (pc'[u] = "off" <=> pc[u] = "off")
    BY <1>0, <1>1 DEF InTxn, Committing
  <2>2. \A u \in Threads : pc'[u] \notin Committing /\ pc'[u] # "halt"
    <3>1. \A u \in Threads \ {t} : ~InTxn(u)
      BY <1>a, Zenon DEF JbdInv, TxnAlone
    <3> QED
      BY <1>1, <3>1 DEF InTxn, Committing
  <2>3. LogBound'
    BY <1>0, <2>2, Zenon DEF LogBound
  <2> QED
    BY <1>0, <1>f, <2>1, <2>3, ZenonT(40) DEF JbdInv, TxnAlone
<1>6. ASSUME NEW u \in Threads
      PROVE  FrameOK(u)' /\ LockOK(u)'
  <2>1. CASE u = t
    <3>1. FrameOK(t)'
      BY <1>0, <1>a, <1>1, <1>3 DEF FrameOK
    <3> QED
      BY <1>3, <2>1, <3>1, ZenonT(40) DEF LockOK, Busy
  <2>2. CASE u # t
    <3>1. FrameOK(u)'
      BY <1>a, <1>1, <1>3, <2>2, OtherFrames, Zenon DEF JbdInv
    <3>2. \A c \in Blks : holder[c] = u => holder'[c] = u
      BY <1>a, <1>b, <2>2, Zenon
    <3> QED
      BY <1>0, <1>3, <2>2, <3>1, <3>2, LocksKept, Zenon DEF JbdInv
  <2> QED
    BY <2>1, <2>2, Zenon
<1>7. QueueRight' /\ DeviceRight' /\ \A u \in Threads : MovedOK(u)'
  BY <1>0, <1>d, <1>3, DataStep, Zenon
<1>8. JbdTypeOK'
  BY <1>0, <1>b, <1>d, <1>e, <1>2, <1>3, Zenon DEF JbdInv, JbdTypeOK
<1>9. InCache' /\ Coherent' /\ NoPanic'
  <2>0. Range(datablks)' = Range(datablks')
    BY Zenon DEF Range
  <2>1. InCache'
    BY <1>0, <1>b, <1>c, <1>e, <2>0, Zenon DEF JbdInv, InCache
  <2>2. Coherent'
    <3>1. \A c \in FsBlks : Stopped(c) => Stopped(c)'
      BY <1>0, <1>1, <1>3, StoppedKept
    <3> QED
      BY <1>0, <1>d, <1>e, <2>0, <3>1, JournalBlks, Zenon DEF JbdInv, Coherent
  <2>3. NoPanic'
    BY <1>0, <1>1, <1>b, <1>f, PanicKept
  <2> QED
    BY <2>1, <2>2, <2>3, Zenon
<1> QED
  BY <1>4, <1>5, <1>6, <1>7, <1>8, <1>9, Zenon DEF JbdInv

\* jbd_write_blk panics: the log is full and the thread stops with the changed block.
LEMMA JournalFullKeeps ==
  ASSUME JbdInv, NEW t \in Threads, NEW v, JournalFull(t, v)
  PROVE  JbdInv'
<1> DEFINE b == io[t].blk
<1>0. /\ pc[t] = "modify" /\ io[t].at = "ok" /\ Len(Log(b)) > JOURNAL_SIZE
      /\ mem' = [mem EXCEPT ![b] = v]
      /\ pc' = [pc EXCEPT ![t] = "halt"]
      /\ UNCHANGED <<disk, hw, ide, request_queue, bio>> /\ UNCHANGED ioVars
      /\ UNCHANGED <<cached, pgcache_lock, nhdr, ref, holder, io, fails>>
      /\ UNCHANGED <<jstate, datablks, stage, idx>>
  BY Zenon DEF JournalFull, ioVars
<1>p. panic' = panic \cup NotBusy \cup {"journal is filled up"}
  BY Zenon DEF JournalFull
<1>a. /\ FrameOK(t) /\ LockOK(t) /\ b \in Blks /\ b \in WriteBlks /\ io[t].op = "READ"
      /\ InTxn(t) /\ pc[t] \notin Committing
  BY <1>0 DEF JbdInv, FrameOK, LockOK, InTxn, Committing, JbdTypeOK, Frames
<1>b. jstate = "BUSY" /\ \A u \in Threads \ {t} : ~InTxn(u)
  BY <1>a, Zenon DEF JbdInv, TxnAlone
<1>c. Len(datablks) = JOURNAL_SIZE
  <2>1. datablks \in Seq(WriteBlks) /\ Len(datablks) <= JOURNAL_SIZE /\ JOURNAL_SIZE \in Nat
    BY JbdAssumption, Zenon DEF JbdInv, JbdTypeOK, TxnAlone, LogBound
  <2>2. Len(Append(datablks, b)) = Len(datablks) + 1 /\ Len(datablks) \in Nat
    BY <1>a, <2>1
  <2>3. Log(b) = datablks \/ Log(b) = Append(datablks, b)
    BY Zenon DEF Log
  <2> QED
    BY <1>0, <2>1, <2>2, <2>3
<1>d. mem' = [c \in Blks |-> mem'[c]] /\ \A c \in Blks \ {b} : mem'[c] = mem[c]
  <2>1. mem = [c \in Blks |-> mem[c]]
    BY Zenon DEF JbdInv, JbdTypeOK
  <2> QED
    BY <1>0, <2>1
<1>1. pc'[t] = "halt" /\ \A u \in Threads \ {t} : pc'[u] = pc[u]
  BY <1>0, PcIs, Zenon DEF JbdInv
<1>2. pc' \in [Threads -> {"user", "txn", "modify", "read", "halt", "off"} \cup Committing]
  BY <1>0, PcTyped, Zenon DEF JbdInv
<1>3. JournalRight' /\ \A u \in Threads : CommitOK(u)'
  <2>1. disk[H] = 0 /\ \A u \in Threads : pc[u] \notin Committing
    BY <1>0, <1>a, JournalEmpty, ZenonT(40)
  <2>2. \A u \in Threads : pc'[u] \notin Committing
    BY <1>1, <2>1 DEF Committing
  <2>3. disk'[H'] = 0 /\ 0 \in Nat /\ ~(0 > 0)
    BY <1>0, <2>1 DEF H
  <2>4. IsInjective(datablks)'
    BY <1>0, Zenon DEF JbdInv, JournalRight
  <2> QED
    BY <2>2, <2>3, <2>4, Zenon DEF JournalRight, CommitOK
<1>4. TxnAlone'
  <2>1. \A u \in Threads : (InTxn(u)' <=> InTxn(u)) /\ pc'[u] # "off"
    <3>1. \A u \in Threads : pc[u] # "off"
      BY <1>0 DEF JbdInv, TxnAlone
    <3> QED
      BY <1>a, <1>1, <3>1 DEF InTxn
  <2>2. \A u \in Threads : pc'[u] \notin Committing
    BY <1>b, <1>1 DEF InTxn, Committing
  <2>3. LogBound'
    BY <1>0, <1>c, <2>2, JbdAssumption DEF LogBound
  <2> QED
    BY <1>0, <1>b, <2>1, <2>3, ZenonT(40) DEF JbdInv, TxnAlone
<1>5. ASSUME NEW u \in Threads
      PROVE  FrameOK(u)' /\ LockOK(u)'
  <2>1. FrameOK(u) /\ LockOK(u)
    BY Zenon DEF JbdInv
  <2>2. LockOK(u)'
    BY <1>0, <2>1, Zenon DEF LockOK
  <2>3. CASE u = t
    <3>1. FrameOK(t)'
      BY <1>0, <1>a, <1>1 DEF FrameOK
    <3> QED
      BY <2>2, <2>3, <3>1, Zenon
  <2>4. CASE u # t
    <3>1. FrameOK(u)'
      BY <1>0, <1>a, <1>1, <2>1, <2>4, OtherFrames, Zenon DEF JbdInv
    <3> QED
      BY <2>2, <3>1, Zenon
  <2> QED
    BY <2>3, <2>4, Zenon
<1>6. QueueRight' /\ DeviceRight' /\ \A u \in Threads : MovedOK(u)'
  BY <1>0, <1>a, <1>d, DataStep
<1>7. JbdTypeOK'
  BY <1>0, <1>d, <1>2, Zenon DEF JbdInv, JbdTypeOK
<1>8. InCache'
  BY <1>0, Zenon DEF JbdInv, InCache
<1>9. Coherent'
  <2>1. \A c \in FsBlks : Stopped(c) => Stopped(c)'
    BY <1>0, <1>1 DEF Stopped
  <2>2. ASSUME NEW c \in FsBlks, PageOf(c) \in cached, c \notin Range(datablks), ~Stopped(c)'
        PROVE  mem'[c] = disk[c]
    <3>1. c # b
      BY <1>0, <1>1, <2>2, Zenon DEF Stopped
    <3>2. ~Stopped(c) /\ c \in Blks
      BY <2>1, <2>2, JournalBlks, Zenon
    <3> QED
      BY <1>d, <2>2, <3>1, <3>2, Zenon DEF JbdInv, Coherent
  <2> QED
    BY <1>0, <2>2, Zenon DEF Coherent
<1>10. NoPanic'
  <2>1. panic' = panic \cup {"journal is filled up"}
    BY <1>p, <1>b, Zenon DEF NotBusy
  <2>2. "journal is filled up" \in JournalPanics
    BY DEF JournalPanics
  <2> QED
    BY <1>0, <1>1, <2>1, <2>2, PanicHalts, Zenon
<1> QED
  BY <1>3, <1>4, <1>5, <1>6, <1>7, <1>8, <1>9, <1>10, Zenon DEF JbdInv

\* jbd_end_txn: the commit begins, unless nothing was logged.
LEMMA EndKeeps ==
  ASSUME JbdInv, NEW t \in Writers, jbd_end_txn(t)
  PROVE  JbdInv'
<1> DEFINE fits == Len(datablks) < JOURNAL_SIZE
           l == IF datablks = <<>> THEN "user" ELSE IF fits THEN "get" ELSE "halt"
<1>j. t \in Threads /\ pc[t] = "txn" /\ jstate = "BUSY"
  <2>1. t \in Threads /\ pc[t] = "txn"
    BY JbdAssumption, Zenon DEF jbd_end_txn
  <2> QED
    BY <2>1, Zenon DEF JbdInv, TxnAlone, InTxn
<1>0. /\ t \in Threads /\ pc[t] = "txn" /\ jstate = "BUSY"
      /\ jstate' = IF datablks = <<>> THEN "IDLE" ELSE "BUSY"
      /\ pc' = [pc EXCEPT ![t] = l]
      /\ stage' = "data" /\ idx' = 0
      /\ UNCHANGED <<disk, hw, ide, request_queue, bio>> /\ UNCHANGED <<ioVars, mem>>
      /\ UNCHANGED <<mem, cached, pgcache_lock, nhdr, ref, holder, dirty>>
      /\ UNCHANGED <<io, fails, datablks>>
      /\ UNCHANGED <<disk, mem, cached, holder, datablks>>
  BY <1>j, ZenonT(40) DEF jbd_end_txn, ioVars, cacheVars
<1>p. panic' = panic \cup {x \in {"next_index < JOURNAL_SIZE"} : Len(datablks) >= JOURNAL_SIZE}
  BY <1>j, ZenonT(40) DEF jbd_end_txn, NotBusy
<1>1. pc'[t] = l /\ \A u \in Threads \ {t} : pc'[u] = pc[u]
  BY <1>0, PcIs, Zenon DEF JbdInv
<1>2. pc' \in [Threads -> {"user", "txn", "modify", "read", "halt", "off"} \cup Committing]
  <2>1. l \in {"user", "txn", "modify", "read", "halt", "off"} \cup Committing
    BY DEF Committing
  <2> QED
    BY <1>0, <2>1, PcTyped, Zenon DEF JbdInv
<1>a. /\ fits => panic' = panic
      /\ ~fits => /\ panic' = panic \cup {"next_index < JOURNAL_SIZE"}
                  /\ Len(datablks) = JOURNAL_SIZE /\ datablks # <<>>
  <2>1. /\ Len(datablks) <= JOURNAL_SIZE /\ Len(datablks) \in Nat /\ JOURNAL_SIZE \in Nat \ {0}
        /\ datablks = <<>> => Len(datablks) = 0
    BY LogFacts, CommitIndex, JbdAssumption, Zenon DEF JbdInv, TxnAlone, LogBound
  <2>2. fits <=> ~(Len(datablks) >= JOURNAL_SIZE)
    BY <2>1
  <2>3. ~fits => Len(datablks) = JOURNAL_SIZE /\ datablks # <<>>
    BY <2>1
  <2> QED
    BY <1>p, <2>2, <2>3, Zenon
<1>b. InTxn(t) /\ disk[H] = 0 /\ \A u \in Threads : pc[u] \notin Committing
  <2>1. InTxn(t) /\ pc[t] \notin Committing
    BY <1>0 DEF InTxn, Committing
  <2> QED
    BY <1>0, <2>1, JournalEmpty
<1>3. JournalRight'
  <2>1. disk'[H'] = 0 /\ 0 \in Nat /\ ~(0 > 0)
    BY <1>0, <1>b DEF H
  <2>2. IsInjective(datablks)'
    BY <1>0, Zenon DEF JbdInv, JournalRight
  <2> QED
    BY <2>1, <2>2, Zenon DEF JournalRight
<1>4. ASSUME NEW u \in Threads
      PROVE  CommitOK(u)'
  <2>1. CASE u = t /\ datablks # <<>> /\ fits
    <3>1. 0 < Len(datablks) /\ 1..0 = {}
      BY <2>1, CommitIndex
    <3>2. Copied(0)'
      BY <3>1, Zenon DEF Copied
    <3> QED
      BY <1>0, <1>1, <2>1, <3>1, <3>2 DEF CommitOK
  <2>2. CASE ~(u = t /\ datablks # <<>> /\ fits)
    <3>1. pc'[u] \notin Committing
      BY <1>1, <1>b, <2>2, Zenon DEF Committing
    <3> QED
      BY <3>1, Zenon DEF CommitOK
  <2> QED
    BY <2>1, <2>2, Zenon
<1>5. TxnAlone'
  <2>1. \A u \in Threads : InTxn(u)' => u = t /\ datablks # <<>>
    <3>1. \A u \in Threads : InTxn(u) => u = t
      BY <1>0, <1>b, Zenon DEF JbdInv, TxnAlone
    <3>2. InTxn(t)' => datablks # <<>>
      BY <1>1 DEF InTxn, Committing
    <3> QED
      BY <1>1, <3>1, <3>2, Zenon DEF InTxn
  <2>2. \A u \in Threads : pc'[u] # "off"
    BY <1>0, <1>1 DEF JbdInv, TxnAlone
  <2>3. LogBound'
    <3>1. \A u \in Threads \ {t} : pc'[u] \notin Committing /\ pc'[u] # "halt"
      BY <2>1, Zenon DEF InTxn
    <3>2. pc'[t] \in Committing => fits
      BY <1>1 DEF Committing
    <3>3. pc'[t] = "halt" => ~fits
      BY <1>1
    <3> QED
      BY <1>0, <1>a, <3>1, <3>2, <3>3, Zenon DEF JbdInv, TxnAlone, LogBound
  <2> QED
    BY <1>0, <2>1, <2>2, <2>3 DEF TxnAlone
<1>6. ASSUME NEW u \in Threads
      PROVE  FrameOK(u)' /\ LockOK(u)' /\ MovedOK(u)'
  <2>1. FrameOK(u) /\ LockOK(u) /\ MovedOK(u) /\ io'[u] = io[u]
    BY <1>0, Zenon DEF JbdInv
  <2>2. LockOK(u)' /\ MovedOK(u)'
    BY <1>0, <2>1, Zenon DEF LockOK, MovedOK, Served
  <2>3. CASE u = t
    <3>1. FrameOK(t)'
      BY <1>0, <1>1, <2>1, <2>3 DEF FrameOK
    <3> QED
      BY <2>2, <2>3, <3>1, Zenon
  <2>4. CASE u # t
    <3>1. FrameOK(u)'
      BY <1>0, <1>b, <1>1, <2>1, <2>4, OtherFrames, Zenon DEF JbdInv
    <3> QED
      BY <2>2, <3>1, Zenon
  <2> QED
    BY <2>3, <2>4, Zenon
<1>7. JbdTypeOK'
  <2>1. stage' \in {"data", "bmap", "header", "apply", "erase"} /\ idx' \in Nat
        /\ jstate' \in {"IDLE", "BUSY"}
    BY <1>0, Zenon
  <2> QED
    BY <1>0, <1>2, <2>1, Zenon DEF JbdInv, JbdTypeOK
<1>8. QueueRight' /\ DeviceRight' /\ InCache' /\ Coherent'
  <2>1. QueueRight' /\ DeviceRight'
    BY <1>0, Zenon DEF JbdInv, QueueRight, DeviceRight, Command
  <2>2. InCache' /\ Coherent'
    BY <1>0, <1>1, CacheKept DEF JbdInv
  <2> QED
    BY <2>1, <2>2, Zenon
<1>9. NoPanic'
  <2>1. CASE fits
    BY <1>0, <1>1, <1>a, <2>1, PanicKept
  <2>2. CASE ~fits
    <3>1. pc'[t] = "halt"
      BY <1>1, <1>a, <2>2, Zenon
    <3>2. "next_index < JOURNAL_SIZE" \in JournalPanics
      BY DEF JournalPanics
    <3> QED
      BY <1>0, <1>a, <2>2, <3>1, <3>2, PanicHalts, Zenon
  <2> QED
    BY <2>1, <2>2, Zenon
<1> QED
  BY <1>3, <1>4, <1>5, <1>6, <1>7, <1>8, <1>9, Zenon DEF JbdInv

(***************************************************************************)
(* The commit.                                                              *)
(***************************************************************************)

\* A step within the commit leaves the others where they are.
LEMMA CommitAlone ==
  ASSUME JbdInv, NEW t \in Threads, pc[t] \in Committing,
         NEW l \in Committing, pc' = [pc EXCEPT ![t] = l], UNCHANGED jstate,
         datablks' = datablks \/ datablks' = <<>>
  PROVE  /\ InTxn(t) /\ pc'[t] = l /\ \A u \in Threads \ {t} : pc'[u] = pc[u]
         /\ pc' \in [Threads -> {"user", "txn", "modify", "read", "halt", "off"} \cup Committing]
         /\ TxnAlone'
         /\ \A u \in Threads \ {t} : CommitOK(u)'
<1>1. pc'[t] = l /\ \A u \in Threads \ {t} : pc'[u] = pc[u]
  BY PcIs, Zenon DEF JbdInv
<1>2. pc' \in [Threads -> {"user", "txn", "modify", "read", "halt", "off"} \cup Committing]
  BY PcTyped, Zenon DEF JbdInv
<1>3. InTxn(t) /\ InTxn(t)' /\ jstate = "BUSY"
  BY <1>1, Zenon DEF JbdInv, TxnAlone, InTxn
<1>4. \A u \in Threads \ {t} : ~InTxn(u) /\ ~InTxn(u)' /\ pc'[u] \notin Committing
  BY <1>1, <1>3 DEF JbdInv, TxnAlone, InTxn
<1>5. \A u \in Threads : pc'[u] # "off"
  BY <1>1, Zenon DEF JbdInv, TxnAlone, Committing
<1>a. LogBound'
  <2>1. Len(datablks) < JOURNAL_SIZE /\ Len(<<>>) = 0 /\ JOURNAL_SIZE \in Nat \ {0}
    BY JbdAssumption DEF JbdInv, TxnAlone, LogBound
  <2>2. Len(datablks') < JOURNAL_SIZE /\ Len(datablks') <= JOURNAL_SIZE
    BY <2>1, LogFacts
  <2>3. \A u \in Threads : pc'[u] # "halt"
    BY <1>1, <1>4 DEF InTxn, Committing
  <2> QED
    BY <2>2, <2>3, Zenon DEF LogBound
<1>6. TxnAlone'
  BY <1>3, <1>4, <1>5, <1>a, Zenon DEF TxnAlone
<1> QED
  BY <1>1, <1>2, <1>3, <1>4, <1>6, Zenon DEF CommitOK

\* commit_journal fetches the journal block of its stage.
LEMMA CommitGetKeeps ==
  ASSUME JbdInv, NEW t \in Threads, CommitGet(t)
  PROVE  JbdInv'
<1>0. /\ pc[t] = "get" /\ stage # "apply"
      /\ io' = Start(t, "pgcache", Target, "READ")
      /\ pc' = [pc EXCEPT ![t] = "fill"]
      /\ UNCHANGED <<disk, hw, ide, request_queue, bio>> /\ UNCHANGED <<ioVars, mem>>
      /\ UNCHANGED <<mem, cached, pgcache_lock, nhdr, ref, holder, dirty>>
      /\ UNCHANGED <<fails, panic, jstate, datablks, stage, idx>>
      /\ UNCHANGED <<disk, mem, cached, holder, datablks>>
  BY Zenon DEF CommitGet, ioVars, cacheVars
<1>a. pc[t] \in Committing /\ "fill" \in Committing
  BY <1>0, Zenon DEF Committing
<1>b. Target \in Blks /\ Target' = Target
  BY <1>0, <1>a, TargetIs, Zenon DEF Target, sfs_journal_bmap, HEADER_BLK, BMAP_START_BLK, JDATA_START_BLK
<1>1. /\ InTxn(t) /\ pc'[t] = "fill" /\ \A u \in Threads \ {t} : pc'[u] = pc[u]
      /\ pc' \in [Threads -> {"user", "txn", "modify", "read", "halt", "off"} \cup Committing]
      /\ TxnAlone'
      /\ \A u \in Threads \ {t} : CommitOK(u)'
  BY <1>0, <1>a, CommitAlone, Zenon
<1>3. /\ io' \in [Threads -> Frames]
      /\ io'[t].at = "pgcache" /\ io'[t].blk = Target /\ io'[t].op = "READ"
      /\ \A u \in Threads \ {t} : io'[u] = io[u]
  <2>1. PICK b \in Blks : b = Target
    BY <1>b, Zenon
  <2>2. "pgcache" \in Labels /\ io \in [Threads -> Frames]
    BY DEF Labels, JbdInv, JbdTypeOK
  <2> QED
    BY <1>0, <2>1, <2>2, StartIs, Zenon
<1>4. JournalRight'
  BY <1>0, <1>a, <1>1, ZenonT(40) DEF JbdInv, JournalRight, Copied, H, M, D
<1>5. CommitOK(t)'
  BY <1>0, <1>a, <1>1, ZenonT(40) DEF JbdInv, CommitOK, Copied, InPlace, H, M, D
<1>6. ASSUME NEW u \in Threads
      PROVE  FrameOK(u)' /\ LockOK(u)'
  <2>1. CASE u = t
    <3>1. FrameOK(t) /\ FrameOK(t)'
      BY <1>0, <1>b, <1>1, <1>3, ZenonT(40) DEF FrameOK, JbdInv
    <3> QED
      BY <1>3, <2>1, <3>1, ZenonT(40) DEF LockOK, Busy
  <2>2. CASE u # t
    <3>1. FrameOK(u)'
      BY <1>0, <1>1, <1>3, <2>2, OtherFrames, ZenonT(40) DEF JbdInv
    <3> QED
      BY <1>0, <1>3, <2>2, <3>1, LocksKept, Zenon DEF JbdInv
  <2> QED
    BY <2>1, <2>2, Zenon
<1>7. QueueRight' /\ DeviceRight' /\ \A u \in Threads : MovedOK(u)'
  <2>1. bio[t] # "PENDING"
    BY <1>0 DEF JbdInv, QueueRight, FrameOK
  <2> QED
    BY <1>0, <1>3, <2>1, LocalStep, ZenonT(40) DEF JbdInv
<1>8. JbdTypeOK'
  BY <1>0, <1>1, <1>3, Zenon DEF JbdInv, JbdTypeOK
<1>9. InCache' /\ Coherent' /\ NoPanic'
  <2>1. pc[t] # "halt"
    BY <1>0
  <2>2. InCache' /\ Coherent'
    BY <1>0, <1>1, <1>3, <2>1, CacheKept, Zenon DEF JbdInv
  <2>3. NoPanic'
    BY <1>0, <1>1, <2>1, PanicKept, Zenon
  <2> QED
    BY <2>2, <2>3, Zenon
<1> QED
  BY <1>1, <1>4, <1>5, <1>6, <1>7, <1>8, <1>9, Zenon DEF JbdInv

\* The journal block gets its content, and its write begins.
LEMMA CommitFillKeeps ==
  ASSUME JbdInv, NEW t \in Threads, CommitFill(t)
  PROVE  JbdInv'
<1>0. /\ pc[t] = "fill" /\ io[t].at = "ok"
      /\ mem' = [mem EXCEPT ![Target] = Content]
      /\ io' = Start(t, "submit", Target, "WRITE")
      /\ pc' = [pc EXCEPT ![t] = "release"]
      /\ UNCHANGED <<disk, hw, ide, request_queue, bio>> /\ UNCHANGED ioVars
      /\ UNCHANGED <<cached, pgcache_lock, nhdr, ref, holder, dirty>>
      /\ UNCHANGED <<fails, panic, jstate, datablks, stage, idx>>
  BY Zenon DEF CommitFill, ioVars
<1>a. /\ pc[t] \in Committing /\ "release" \in Committing
      /\ FrameOK(t) /\ LockOK(t) /\ CommitOK(t)
  BY <1>0, Zenon DEF JbdInv, Committing
<1>b. /\ stage # "apply" /\ Target \in Blks \ FsBlks /\ Target = io[t].blk /\ holder[Target] = t
      /\ Target' = Target
  <2>1. stage # "apply" /\ Target = io[t].blk /\ holder[Target] = t
    BY <1>0, <1>a, Zenon DEF FrameOK, LockOK
  <2> QED
    BY <1>0, <1>a, <2>1, TargetIs, Zenon DEF Target, sfs_journal_bmap, HEADER_BLK, BMAP_START_BLK, JDATA_START_BLK
<1>1. /\ InTxn(t) /\ pc'[t] = "release" /\ \A u \in Threads \ {t} : pc'[u] = pc[u]
      /\ pc' \in [Threads -> {"user", "txn", "modify", "read", "halt", "off"} \cup Committing]
      /\ TxnAlone'
      /\ \A u \in Threads \ {t} : CommitOK(u)'
  BY <1>0, <1>a, CommitAlone, Zenon
<1>2. /\ mem' = [c \in Blks |-> mem'[c]] /\ mem'[Target] = Content
      /\ \A c \in Blks \ {Target} : mem'[c] = mem[c]
  <2>1. mem = [c \in Blks |-> mem[c]]
    BY Zenon DEF JbdInv, JbdTypeOK
  <2> HIDE DEF Target, Content
  <2> QED
    BY <1>0, <1>b, <2>1, ZenonT(40)
<1>3. /\ io' \in [Threads -> Frames]
      /\ io'[t].at = "submit" /\ io'[t].blk = Target /\ io'[t].op = "WRITE"
      /\ \A u \in Threads \ {t} : io'[u] = io[u]
  <2>1. PICK b \in Blks : b = Target
    BY <1>b, Zenon
  <2>2. "submit" \in Labels /\ io \in [Threads -> Frames]
    BY DEF Labels, Busy, JbdInv, JbdTypeOK
  <2> QED
    BY <1>0, <2>1, <2>2, StartIs, Zenon
<1>c. \A i \in 1..Len(datablks) : mem'[datablks[i]] = mem[datablks[i]]
  BY <1>b, <1>2, LogFacts, JournalBlks, Zenon
<1>d. Content' = Content
  <2>1. stage = "data" => mem'[datablks[idx + 1]] = mem[datablks[idx + 1]]
    BY <1>a, <1>c, TargetIs, Zenon
  <2> QED
    BY <1>0, <2>1, Zenon DEF Content
<1>e. Copied(Len(datablks)) => Copied(Len(datablks))'
  BY <1>0, <1>c, ZenonT(40) DEF Copied, D
<1>f. stage = "data" /\ Copied(idx) => Copied(idx)'
  <2>1. stage = "data" => 1..idx \subseteq 1..Len(datablks)
    BY <1>a, CommitIndex, Zenon
  <2> QED
    BY <1>0, <1>c, <2>1, ZenonT(40) DEF Copied, D
<1>4. JournalRight'
  BY <1>0, <1>a, <1>e, <1>1, Zenon DEF JbdInv, JournalRight, H, M, D
<1>5. CommitOK(t)'
  BY <1>0, <1>a, <1>b, <1>d, <1>e, <1>f, <1>1, <1>2, ZenonT(40) DEF CommitOK, H, M
<1>6. ASSUME NEW u \in Threads
      PROVE  FrameOK(u)' /\ LockOK(u)'
  <2>1. CASE u = t
    <3>1. FrameOK(t)'
      BY <1>0, <1>a, <1>b, <1>1, <1>3, Zenon DEF FrameOK, Busy
    <3> QED
      BY <1>0, <1>b, <1>3, <2>1, <3>1, ZenonT(40) DEF LockOK, Busy
  <2>2. CASE u # t
    <3>1. FrameOK(u)'
      BY <1>0, <1>1, <1>3, <2>2, OtherFrames, ZenonT(40) DEF JbdInv
    <3> QED
      BY <1>0, <1>3, <2>2, <3>1, LocksKept, Zenon DEF JbdInv
  <2> QED
    BY <2>1, <2>2, Zenon
<1>7. QueueRight' /\ DeviceRight' /\ \A u \in Threads : MovedOK(u)'
  BY <1>0, <1>b, <1>2, <1>3, DataStep, ZenonT(40)
<1>8. JbdTypeOK'
  BY <1>0, <1>1, <1>2, <1>3, Zenon DEF JbdInv, JbdTypeOK
<1>9. InCache' /\ Coherent' /\ NoPanic'
  <2>1. pc[t] # "halt"
    BY <1>0
  <2>2. \A c \in FsBlks : Stopped(c) => Stopped(c)'
    BY <1>1, <1>3, <2>1, StoppedKept, Zenon
  <2>3. InCache' /\ Coherent'
    BY <1>0, <1>b, <1>2, <2>2, JournalBlks, Zenon DEF JbdInv, InCache, Coherent
  <2>4. NoPanic'
    BY <1>0, <1>1, <2>1, PanicKept, Zenon
  <2> QED
    BY <2>3, <2>4, Zenon
<1> QED
  BY <1>1, <1>4, <1>5, <1>6, <1>7, <1>8, <1>9, Zenon DEF JbdInv

\* apply_journal locks a logged block and begins to write it in its place.
LEMMA ApplyWriteKeeps ==
  ASSUME JbdInv, NEW t \in Threads, ApplyWrite(t)
  PROVE  JbdInv'
<1> DEFINE b == datablks[idx + 1]
<1>0. /\ pc[t] = "get" /\ stage = "apply" /\ holder[b] = NULL
      /\ holder' = [holder EXCEPT ![b] = t]
      /\ io' = Start(t, "submit", b, "WRITE")
      /\ pc' = [pc EXCEPT ![t] = "release"]
      /\ UNCHANGED <<disk, hw, ide, request_queue, bio>> /\ UNCHANGED <<ioVars, mem>>
      /\ UNCHANGED <<mem, cached, pgcache_lock, nhdr, ref, dirty>>
      /\ UNCHANGED <<fails, panic, jstate, datablks, stage, idx>>
  BY Zenon DEF ApplyWrite, ioVars
<1>a. pc[t] \in Committing /\ "release" \in Committing /\ FrameOK(t) /\ CommitOK(t)
  BY <1>0 DEF Committing, JbdInv
<1>b. b \in Blks /\ PageOf(b) \in cached
  <2>1. idx + 1 \in 1..Len(datablks)
    BY <1>0, <1>a, TargetIs
  <2> QED
    BY <2>1, LogFacts, JournalBlks, Zenon
<1>1. /\ InTxn(t) /\ pc'[t] = "release" /\ \A u \in Threads \ {t} : pc'[u] = pc[u]
      /\ pc' \in [Threads -> {"user", "txn", "modify", "read", "halt", "off"} \cup Committing]
      /\ TxnAlone'
      /\ \A u \in Threads \ {t} : CommitOK(u)'
  BY <1>0, <1>a, CommitAlone, Zenon
<1>2. /\ holder' \in [Blks -> Threads \cup {NULL}] /\ holder'[b] = t
      /\ \A c \in Blks \ {b} : holder'[c] = holder[c]
  <2>1. holder \in [Blks -> Threads \cup {NULL}]
    BY Zenon DEF JbdInv, JbdTypeOK
  <2> HIDE DEF b
  <2> QED
    BY <1>0, <1>b, <2>1, Zenon
<1>3. /\ io' \in [Threads -> Frames]
      /\ io'[t].at = "submit" /\ io'[t].blk = b /\ io'[t].op = "WRITE"
      /\ \A u \in Threads \ {t} : io'[u] = io[u]
  <2>1. PICK c \in Blks : c = b
    BY <1>b, Zenon
  <2>2. "submit" \in Labels /\ io \in [Threads -> Frames]
    BY Zenon DEF Labels, Busy, JbdInv, JbdTypeOK
  <2> QED
    BY <1>0, <2>1, <2>2, StartIs
<1>4. JournalRight'
  BY <1>0, <1>a, <1>1, ZenonT(40) DEF JbdInv, JournalRight, Copied, H, M, D
<1>5. CommitOK(t)'
  BY <1>0, <1>a, <1>1 DEF CommitOK, Copied, InPlace, H, M, D
<1>6. ASSUME NEW u \in Threads
      PROVE  FrameOK(u)' /\ LockOK(u)'
  <2>1. CASE u = t
    <3>1. FrameOK(t)'
      BY <1>0, <1>a, <1>b, <1>1, <1>3, Zenon DEF FrameOK, Busy
    <3> QED
      BY <1>0, <1>2, <1>3, <2>1, <3>1, ZenonT(40) DEF LockOK, Busy
  <2>2. CASE u # t
    <3>1. FrameOK(u)'
      BY <1>0, <1>1, <1>3, <2>2, OtherFrames, Zenon DEF JbdInv
    <3>2. \A c \in Blks : holder[c] = u => holder'[c] = u
      BY <1>0, <1>2, BdevAssumption, Zenon
    <3> QED
      BY <1>0, <1>3, <2>2, <3>1, <3>2, LocksKept, Zenon DEF JbdInv
  <2> QED
    BY <2>1, <2>2, Zenon
<1>7. QueueRight' /\ DeviceRight' /\ \A u \in Threads : MovedOK(u)'
  <2>1. bio[t] # "PENDING"
    BY <1>0, <1>a, ZenonT(40) DEF JbdInv, QueueRight, FrameOK
  <2> QED
    BY <1>0, <1>3, <2>1, LocalStep, ZenonT(40) DEF JbdInv
<1>8. JbdTypeOK'
  BY <1>0, <1>1, <1>2, <1>3, ZenonT(40) DEF JbdInv, JbdTypeOK
<1>9. InCache' /\ Coherent' /\ NoPanic'
  <2>1. pc[t] # "halt"
    BY <1>0
  <2>2. \A c \in FsBlks : Stopped(c) => Stopped(c)'
    BY <1>1, <1>3, <2>1, StoppedKept, Zenon
  <2>3. InCache' /\ Coherent'
    BY <1>0, <1>b, <1>2, <2>2, Zenon DEF JbdInv, InCache, Coherent
  <2>4. NoPanic'
    BY <1>0, <1>1, <2>1, PanicKept, Zenon
  <2> QED
    BY <2>3, <2>4, Zenon
<1> QED
  BY <1>1, <1>4, <1>5, <1>6, <1>7, <1>8, <1>9, Zenon DEF JbdInv

\* A step of the commit failed: it starts again.
LEMMA CommitRetryKeeps ==
  ASSUME JbdInv, NEW t \in Threads, CommitRetry(t)
  PROVE  JbdInv'
<1>0. /\ pc[t] \in {"fill", "release"} /\ io[t].at = "nomem"
      /\ io' = [io EXCEPT ![t] = Idle]
      /\ pc' = [pc EXCEPT ![t] = "get"]
      /\ stage' = IF datablks = <<>> THEN "header" ELSE "data"
      /\ idx' = 0
      /\ UNCHANGED <<disk, hw, ide, request_queue, bio>> /\ UNCHANGED <<ioVars, mem>>
      /\ UNCHANGED <<mem, cached, pgcache_lock, nhdr, ref, holder, dirty>>
      /\ UNCHANGED <<fails, panic, jstate, datablks>>
      /\ UNCHANGED <<disk, mem, cached, holder, datablks>>
  BY Zenon DEF CommitRetry, ioVars, cacheVars
<1>a. pc[t] \in Committing /\ "get" \in Committing /\ FrameOK(t)
  BY <1>0 DEF Committing, JbdInv
<1>1. /\ InTxn(t) /\ pc'[t] = "get" /\ \A u \in Threads \ {t} : pc'[u] = pc[u]
      /\ pc' \in [Threads -> {"user", "txn", "modify", "read", "halt", "off"} \cup Committing]
      /\ TxnAlone'
      /\ \A u \in Threads \ {t} : CommitOK(u)'
  BY <1>0, <1>a, CommitAlone, Zenon
<1>3. /\ io' \in [Threads -> Frames]
      /\ io'[t].at = "none" /\ io'[t].op = "READ"
      /\ \A u \in Threads \ {t} : io'[u] = io[u]
  BY <1>0, IdleIs, Zenon DEF JbdInv, JbdTypeOK
<1>4. JournalRight'
  BY <1>0, <1>a, <1>1, ZenonT(40) DEF JbdInv, JournalRight, Copied, H, M, D
<1>5. CommitOK(t)'
  <2>1. CASE datablks = <<>>
    <3>1. Copied(Len(datablks))'
      <4>1. datablks' = datablks /\ 1..Len(datablks) = {}
        BY <1>0, <2>1
      <4> QED
        BY <4>1, Zenon DEF Copied
    <3> QED
      BY <1>0, <1>1, <2>1, <3>1, ZenonT(40) DEF CommitOK
  <2>2. CASE datablks # <<>>
    <3>1. 0 < Len(datablks) /\ Copied(idx)'
      <4>1. 0 < Len(datablks) /\ idx' = 0 /\ 1..0 = {}
        BY <1>0, <2>2, CommitIndex
      <4> QED
        BY <4>1, Zenon DEF Copied
    <3> QED
      BY <1>0, <1>1, <2>2, <3>1, ZenonT(40) DEF CommitOK
  <2> QED
    BY <2>1, <2>2, ZenonT(40)
<1>6. ASSUME NEW u \in Threads
      PROVE  FrameOK(u)' /\ LockOK(u)'
  <2>1. CASE u = t
    <3>1. FrameOK(t)'
      BY <1>0, <1>a, <1>1, <1>3 DEF FrameOK
    <3> QED
      BY <1>3, <2>1, <3>1, Zenon DEF LockOK, Busy
  <2>2. CASE u # t
    <3>1. FrameOK(u)'
      BY <1>0, <1>1, <1>3, <2>2, OtherFrames, Zenon DEF JbdInv
    <3> QED
      BY <1>0, <1>3, <2>2, <3>1, LocksKept, Zenon DEF JbdInv
  <2> QED
    BY <2>1, <2>2, Zenon
<1>7. QueueRight' /\ DeviceRight' /\ \A u \in Threads : MovedOK(u)'
  <2>1. bio[t] # "PENDING"
    BY <1>0 DEF JbdInv, QueueRight
  <2> QED
    BY <1>0, <1>3, <2>1, LocalStep, Zenon DEF JbdInv
<1>8. JbdTypeOK'
  <2>1. stage' \in {"data", "bmap", "header", "apply", "erase"} /\ idx' \in Nat
    BY <1>0
  <2> QED
    BY <1>0, <1>1, <1>3, <2>1, ZenonT(40) DEF JbdInv, JbdTypeOK
<1>9. InCache' /\ Coherent' /\ NoPanic'
  <2>1. pc[t] # "halt"
    BY <1>0
  <2>2. InCache' /\ Coherent'
    BY <1>0, <1>1, <1>3, <2>1, CacheKept, Zenon DEF JbdInv
  <2>3. NoPanic'
    BY <1>0, <1>1, <2>1, PanicKept, Zenon
  <2> QED
    BY <2>2, <2>3, Zenon
<1> QED
  BY <1>1, <1>4, <1>5, <1>6, <1>7, <1>8, <1>9, Zenon DEF JbdInv

\* The block of a stage has reached the disk: what the next stage relies on is there.
\* nst and ni are the next stage and index.
LEMMA NextStageRight ==
  ASSUME JbdInv, NEW t \in Threads, pc[t] = "release", io[t].at = "ok", stage # "erase",
         NEW nst, NEW ni, nst = NextStage.stage, ni = NextStage.idx
  PROVE  /\ nst \in {"data", "bmap", "header", "apply", "erase"} /\ ni \in Nat
         /\ nst \in {"data", "apply"} => ni < Len(datablks)
         /\ nst = "bmap" => datablks # <<>>
         /\ nst = "data" => \A i \in 1..ni : disk[D(i)] = mem[datablks[i]]
         /\ nst \in {"bmap", "header", "apply"} => Copied(Len(datablks))
         /\ nst \in {"header", "apply"} /\ datablks # <<>> => disk[M] = datablks
         /\ nst = "apply" => /\ disk[H] = Len(datablks)
                             /\ \A i \in 1..ni : disk[datablks[i]] = mem[datablks[i]]
         /\ nst = "erase" /\ datablks # <<>> =>
              /\ disk[H] = Len(datablks) /\ disk[M] = datablks /\ Copied(Len(datablks))
              /\ InPlace(Len(datablks))
<1> DEFINE n == Len(datablks)
<1>0. pc[t] \in Committing /\ CommitOK(t) /\ FrameOK(t) /\ MovedOK(t)
  BY DEF JbdInv, Committing
<1>1. io[t].op = "WRITE" /\ mem[io[t].blk] = disk[io[t].blk]
  BY <1>0, Zenon DEF FrameOK, MovedOK
<1>2. stage # "apply" => disk[Target] = Content
  BY <1>0, <1>1, ZenonT(40) DEF FrameOK, CommitOK
<1>3. n \in Nat /\ idx \in Nat /\ (datablks = <<>> => n = 0)
  BY LogFacts, CommitIndex, Zenon
<1>4. CASE stage = "data"
  <2>1. /\ idx + 1 \in 1..n /\ datablks # <<>>
        /\ \A i \in 1..(idx + 1) : disk[D(i)] = mem[datablks[i]]
    <3>1. idx + 1 \in 1..n /\ disk[D(idx + 1)] = mem[datablks[idx + 1]]
      BY <1>0, <1>2, <1>4, TargetIs, Zenon
    <3>2. \A i \in 1..idx : disk[D(i)] = mem[datablks[i]]
      BY <1>0, <1>4, ZenonT(40) DEF CommitOK, Copied
    <3>3. \A i \in 1..(idx + 1) : i \in 1..idx \/ i = idx + 1
      BY <1>3
    <3>4. datablks # <<>>
      BY <1>0, <1>4, CommitIndex, Zenon
    <3> QED
      BY <3>1, <3>2, <3>3, <3>4, ZenonT(40)
  <2>2. CASE idx + 1 < n
    <3>1. NextStage = [stage |-> stage, idx |-> idx + 1]
      BY <1>4, <2>2, Zenon DEF NextStage, MoreBlks
    <3>2. nst = "data" /\ ni = idx + 1
      BY <1>4, <3>1, Zenon
    <3> QED
      BY <1>3, <2>1, <2>2, <3>2, SMTT(30)
  <2>3. CASE ~(idx + 1 < n)
    <3>1. NextStage = [stage |-> "bmap", idx |-> 0]
      BY <1>4, <2>3, ZenonT(40) DEF NextStage, MoreBlks
    <3>2. nst = "bmap" /\ ni = 0 /\ idx + 1 = n
      BY <1>3, <2>1, <2>3, <3>1
    <3>3. Copied(n)
      BY <2>1, <3>2, Zenon DEF Copied
    <3> QED
      BY <2>1, <3>2, <3>3
  <2> QED
    BY <2>2, <2>3, Zenon
<1>5. CASE stage = "bmap"
  <2>1. NextStage = [stage |-> "header", idx |-> 0]
    BY <1>5, Zenon DEF NextStage, MoreBlks
  <2>2. nst = "header" /\ ni = 0
    BY <2>1, Zenon
  <2>3. disk[M] = datablks /\ Copied(n)
    BY <1>0, <1>2, <1>5, TargetIs, ZenonT(40) DEF CommitOK
  <2> QED
    BY <2>2, <2>3
<1>6. CASE stage = "header"
  <2>1. disk[H] = n /\ Copied(n) /\ (datablks # <<>> => disk[M] = datablks)
    BY <1>0, <1>2, <1>6, TargetIs, ZenonT(40) DEF CommitOK
  <2>2. CASE datablks # <<>>
    <3>1. NextStage = [stage |-> "apply", idx |-> 0]
      BY <1>6, <2>2, ZenonT(40) DEF NextStage, MoreBlks
    <3>2. nst = "apply" /\ ni = 0 /\ 0 < n
      BY <2>2, <3>1, CommitIndex, Zenon
    <3> QED
      BY <2>1, <2>2, <3>2
  <2>3. CASE datablks = <<>>
    <3>1. NextStage = [stage |-> "erase", idx |-> 0]
      BY <1>6, <2>3 DEF NextStage, MoreBlks
    <3>2. nst = "erase" /\ ni = 0
      BY <3>1
    <3> QED
      BY <2>3, <3>2
  <2> QED
    BY <2>2, <2>3, Zenon
<1>7. CASE stage = "apply"
  <2>1. /\ idx + 1 \in 1..n /\ datablks # <<>> /\ disk[H] = n /\ disk[M] = datablks /\ Copied(n)
        /\ \A i \in 1..(idx + 1) : disk[datablks[i]] = mem[datablks[i]]
    <3>1. idx + 1 \in 1..n /\ disk[datablks[idx + 1]] = mem[datablks[idx + 1]]
      <4>1. io[t].blk = datablks[idx + 1]
        BY <1>0, <1>7, Zenon DEF FrameOK
      <4> QED
        BY <1>0, <1>1, <1>7, <4>1, TargetIs, ZenonT(40)
    <3>2. \A i \in 1..idx : disk[datablks[i]] = mem[datablks[i]]
      BY <1>0, <1>7, Zenon DEF CommitOK, InPlace
    <3>3. \A i \in 1..(idx + 1) : i \in 1..idx \/ i = idx + 1
      BY <1>3
    <3>4. datablks # <<>>
      BY <1>0, <1>7, CommitIndex, Zenon
    <3>5. disk[H] = n /\ disk[M] = datablks /\ Copied(n)
      BY <1>0, <1>7, <3>4, ZenonT(40) DEF CommitOK
    <3> QED
      BY <3>1, <3>2, <3>3, <3>4, <3>5, ZenonT(40)
  <2>2. CASE idx + 1 < n
    <3>1. NextStage = [stage |-> "apply", idx |-> idx + 1]
      BY <1>7, <2>2, Zenon DEF NextStage, MoreBlks
    <3>2. nst = "apply" /\ ni = idx + 1
      BY <3>1, Zenon
    <3> QED
      BY <1>3, <2>1, <2>2, <3>2
  <2>3. CASE ~(idx + 1 < n)
    <3>1. NextStage = [stage |-> "erase", idx |-> 0]
      BY <1>7, <2>3, Zenon DEF NextStage, MoreBlks
    <3>2. nst = "erase" /\ ni = 0 /\ idx + 1 = n
      BY <1>3, <2>1, <2>3, <3>1
    <3>3. InPlace(n)
      BY <2>1, <3>2, Zenon DEF InPlace
    <3> QED
      BY <2>1, <3>2, <3>3
  <2> QED
    BY <2>2, <2>3, Zenon
<1> QED
  BY <1>4, <1>5, <1>6, <1>7, ZenonT(40) DEF JbdInv, JbdTypeOK

\* A block of the commit is written and released: to the next stage, or out.
LEMMA CommitNextKeeps ==
  ASSUME JbdInv, NEW t \in Threads, CommitNext(t)
  PROVE  JbdInv'
<1> DEFINE b == io[t].blk
<1>0. /\ pc[t] = "release" /\ io[t].at = "ok"
      /\ holder' = [holder EXCEPT ![b] = NULL]
      /\ nhdr' = nhdr \/ nhdr' = [nhdr EXCEPT ![PageOf(b)] = 0]
      /\ io' = [io EXCEPT ![t] = Idle]
      /\ UNCHANGED <<disk, hw, ide, request_queue, bio>> /\ UNCHANGED <<ioVars, mem>>
      /\ UNCHANGED <<mem, cached, pgcache_lock, dirty, fails>>
  BY ZenonT(40) DEF CommitNext, ReleaseBlk, ioVars
<1>p. panic' \subseteq panic \cup {"bh->ref > 0"}
  BY Zenon DEF CommitNext, ReleaseBlk
<1>a. /\ FrameOK(t) /\ LockOK(t) /\ CommitOK(t) /\ pc[t] \in Committing /\ "get" \in Committing
      /\ b \in Blks /\ holder[b] = t /\ InTxn(t)
  BY <1>0, Zenon DEF JbdInv, FrameOK, LockOK, Committing, InTxn
<1>b. /\ holder' \in [Blks -> Threads \cup {NULL}] /\ holder'[b] = NULL
      /\ \A c \in Blks \ {b} : holder'[c] = holder[c]
      /\ nhdr' \in [Pages -> Nat] /\ \A p \in Pages : nhdr'[p] \in {0, nhdr[p]}
  BY <1>0, <1>a, ReleaseIs, Zenon DEF JbdInv
<1>1. /\ io' \in [Threads -> Frames]
      /\ io'[t].at = "none" /\ io'[t].op = "READ"
      /\ \A u \in Threads \ {t} : io'[u] = io[u]
  BY <1>0, IdleIs, Zenon DEF JbdInv, JbdTypeOK
<1>2. QueueRight' /\ DeviceRight' /\ \A u \in Threads : MovedOK(u)'
  <2>1. bio[t] # "PENDING"
    BY <1>0, Zenon DEF JbdInv, QueueRight
  <2> QED
    BY <1>0, <1>1, <2>1, LocalStep, ZenonT(40) DEF JbdInv
<1>3. ASSUME NEW u \in Threads
      PROVE  LockOK(u)'
  <2>1. CASE u = t
    BY <1>1, <2>1, Zenon DEF LockOK, Busy
  <2>2. CASE u # t
    <3>1. \A c \in Blks : holder[c] = u => holder'[c] = u
      BY <1>a, <1>b, <2>2, Zenon
    <3> QED
      BY <1>0, <1>1, <2>2, <3>1, LocksKept, Zenon DEF JbdInv
  <2> QED
    BY <2>1, <2>2, Zenon
<1>c. pc[t] # "halt" /\ \A u \in Threads \ {t} : pc'[u] = pc[u]
  BY <1>0 DEF CommitNext, JbdInv, JbdTypeOK
<1>d. \A c \in FsBlks : Stopped(c) => Stopped(c)'
  BY <1>1, <1>c, StoppedKept, Zenon
<1>4. NoPanic' /\ \A c \in Blks : holder'[c] # NULL => PageOf(c) \in cached'
  <2>1. NoPanic'
    BY <1>0, <1>p, <1>b, <1>c, PanicKept, Zenon
  <2> QED
    BY <1>0, <1>b, <2>1, Zenon DEF JbdInv, InCache
<1>5. CASE stage = "erase"
  <2>0. /\ jstate' = "IDLE" /\ pc' = [pc EXCEPT ![t] = "user"]
        /\ UNCHANGED <<datablks, stage, idx>>
    BY <1>5, Zenon DEF CommitNext
  <2>1. pc'[t] = "user" /\ \A u \in Threads \ {t} : pc'[u] = pc[u]
    BY <2>0, PcIs, Zenon DEF JbdInv
  <2>2. pc' \in [Threads -> {"user", "txn", "modify", "read", "halt", "off"} \cup Committing]
    BY <2>0, PcTyped, Zenon DEF JbdInv
  <2>3. datablks = <<>> /\ disk[H] = 0
    <3>1. datablks = <<>> /\ mem[Target] = Content /\ b = Target
      BY <1>0, <1>a, <1>5, Zenon DEF CommitOK, FrameOK
    <3>2. Target = H /\ Content = 0
      BY <1>a, <1>5, <3>1, TargetIs, ZenonT(40)
    <3>3. mem[b] = disk[b]
      BY <1>0, <1>a, ZenonT(40) DEF JbdInv, MovedOK, FrameOK
    <3> QED
      BY <3>1, <3>2, <3>3, ZenonT(40)
  <2>4. \A u \in Threads : ~InTxn(u)' /\ pc'[u] # "off"
    <3>1. \A u \in Threads \ {t} : ~InTxn(u)
      BY <1>a, ZenonT(40) DEF JbdInv, TxnAlone
    <3>2. \A u \in Threads : pc[u] # "off"
      BY <1>0 DEF JbdInv, TxnAlone
    <3> QED
      BY <2>1, <3>1, <3>2, Zenon DEF InTxn, Committing
  <2>5. TxnAlone'
    <3>1. LogBound'
      BY <1>c, <2>0, <2>1, LogKept DEF Committing
    <3> QED
      BY <2>0, <2>3, <2>4, <3>1, Zenon DEF TxnAlone
  <2>6. \A u \in Threads : CommitOK(u)'
    BY <2>4, Zenon DEF CommitOK, InTxn
  <2>7. JournalRight'
    <3>1. disk'[H'] = 0 /\ 0 \in Nat /\ ~(0 > 0)
      BY <1>0, <2>3 DEF H
    <3>2. IsInjective(datablks)'
      BY <2>0, Zenon DEF JbdInv, JournalRight
    <3> QED
      BY <3>1, <3>2, Zenon DEF JournalRight
  <2>8. ASSUME NEW u \in Threads
        PROVE  FrameOK(u)'
    <3>1. CASE u = t
      BY <1>0, <1>a, <1>1, <2>1, <3>1, Zenon DEF FrameOK
    <3>2. CASE u # t
      BY <1>a, <1>1, <2>1, <3>2, OtherFrames, Zenon DEF JbdInv
    <3> QED
      BY <3>1, <3>2, Zenon
  <2>9. JbdTypeOK'
    BY <1>0, <1>b, <1>1, <2>0, <2>2, ZenonT(40) DEF JbdInv, JbdTypeOK
  <2>10. InCache' /\ Coherent'
    BY <1>0, <1>4, <1>d, <2>0, Zenon DEF JbdInv, InCache, Coherent
  <2> QED
    BY <1>2, <1>3, <1>4, <2>5, <2>6, <2>7, <2>8, <2>9, <2>10, Zenon DEF JbdInv
<1>6. CASE stage # "erase"
  <2>0. /\ stage' = NextStage.stage /\ idx' = NextStage.idx
        /\ stage' = "erase" => datablks' = <<>>
        /\ stage' # "erase" => datablks' = datablks
        /\ pc' = [pc EXCEPT ![t] = "get"] /\ jstate' = jstate
    BY <1>6, ZenonT(40) DEF CommitNext
  <2>1. /\ pc'[t] = "get" /\ \A u \in Threads \ {t} : pc'[u] = pc[u]
        /\ pc' \in [Threads -> {"user", "txn", "modify", "read", "halt", "off"} \cup Committing]
        /\ TxnAlone'
        /\ \A u \in Threads \ {t} : CommitOK(u)'
    BY <1>a, <2>0, CommitAlone, Zenon
  <2>2. PICK nst, ni : nst = NextStage.stage /\ ni = NextStage.idx
    BY Zenon
  <2>3. /\ nst \in {"data", "bmap", "header", "apply", "erase"} /\ ni \in Nat
        /\ nst \in {"data", "apply"} => ni < Len(datablks)
        /\ nst = "bmap" => datablks # <<>>
        /\ nst = "data" => \A i \in 1..ni : disk[D(i)] = mem[datablks[i]]
        /\ nst \in {"bmap", "header", "apply"} => Copied(Len(datablks))
        /\ nst \in {"header", "apply"} /\ datablks # <<>> => disk[M] = datablks
        /\ nst = "apply" => /\ disk[H] = Len(datablks)
                            /\ \A i \in 1..ni : disk[datablks[i]] = mem[datablks[i]]
        /\ nst = "erase" /\ datablks # <<>> =>
             /\ disk[H] = Len(datablks) /\ disk[M] = datablks /\ Copied(Len(datablks))
             /\ InPlace(Len(datablks))
    BY <1>0, <1>6, <2>2, NextStageRight, Zenon
  <2>4. stage' = nst /\ idx' = ni
    BY <2>0, <2>2, Zenon
  <2>5. /\ datablks' \in Seq(WriteBlks) /\ IsInjective(datablks')
        /\ Range(datablks') \subseteq Range(datablks)
    <3>1. CASE datablks' = datablks
      BY <3>1, Zenon DEF JbdInv, JbdTypeOK, JournalRight
    <3>2. CASE datablks' = <<>>
      BY <3>2 DEF IsInjective, Range
    <3> QED
      BY <2>0, <3>1, <3>2, Zenon
  <2>6. ASSUME NEW u \in Threads
        PROVE  FrameOK(u)'
    <3>1. CASE u = t
      BY <1>0, <1>a, <1>1, <2>1, <3>1, Zenon DEF FrameOK
    <3>2. CASE u # t
      BY <1>a, <1>1, <2>1, <3>2, OtherFrames, Zenon DEF JbdInv
    <3> QED
      BY <3>1, <3>2, Zenon
  <2>7. JbdTypeOK'
    <3>1. /\ stage' \in {"data", "bmap", "header", "apply", "erase"} /\ idx' \in Nat
          /\ datablks' \in Seq(WriteBlks) /\ jstate' \in {"IDLE", "BUSY"}
      BY <2>0, <2>3, <2>4, <2>5, ZenonT(40) DEF JbdInv, JbdTypeOK
    <3> QED
      BY <1>0, <1>b, <1>1, <2>1, <3>1, ZenonT(40) DEF JbdInv, JbdTypeOK
  <2>8. CASE nst # "erase"
    <3>1. datablks' = datablks
      BY <2>0, <2>4, <2>8, Zenon
    <3>2. CommitOK(t)'
      <4>1. Copied(Len(datablks))' <=> Copied(Len(datablks))
        BY <1>0, <3>1, Zenon DEF Copied, D
      <4>2. nst = "data" => Copied(idx)'
        BY <1>0, <2>3, <2>4, <3>1, Zenon DEF Copied, D
      <4>3. nst = "apply" => InPlace(idx)'
        BY <1>0, <2>3, <2>4, <3>1, Zenon DEF InPlace
      <4>4. H' = H /\ M' = M
        BY Zenon DEF H, M
      <4>5. pc'[t] # "release"
        BY <2>1
      <4> QED
        BY <1>0, <2>3, <2>4, <2>8, <3>1, <4>1, <4>2, <4>3, <4>4, <4>5, Zenon DEF CommitOK
    <3>3. JournalRight'
      BY <1>0, <1>a, <2>1, <3>1, ZenonT(40) DEF JbdInv, JournalRight, Copied, H, M, D
    <3>4. InCache' /\ Coherent'
      BY <1>0, <1>4, <1>d, <3>1, Zenon DEF JbdInv, InCache, Coherent
    <3> QED
      BY <1>2, <1>3, <1>4, <2>1, <2>6, <2>7, <3>2, <3>3, <3>4, Zenon DEF JbdInv
  <2>9. CASE nst = "erase"
    <3>1. datablks' = <<>> /\ stage' = "erase"
      BY <2>0, <2>4, <2>9, Zenon
    <3>2. CommitOK(t)'
      BY <2>1, <3>1, Zenon DEF CommitOK
    <3>3. JournalRight'
      <4>1. disk'[H'] \in Nat /\ disk'[H'] = disk[H] /\ disk'[M'] = disk[M] /\ disk' = disk
        BY <1>0, ZenonT(40) DEF JbdInv, JournalRight, H, M
      <4>2. \E u \in Threads : pc'[u] \in Committing
        BY <1>a, <2>1, Zenon
      <4>3. CASE datablks = <<>>
        <5>1. datablks' = datablks
          BY <3>1, <4>3, Zenon
        <5> QED
          BY <1>0, <1>a, <2>1, <5>1, Zenon DEF JbdInv, JournalRight, Copied, H, M, D
      <4>4. CASE datablks # <<>>
        <5>1. /\ disk[H] = Len(datablks) /\ disk[M] = datablks /\ Copied(Len(datablks))
              /\ InPlace(Len(datablks))
          BY <2>3, <2>9, <4>4, Zenon
        <5>2. \A i \in 1..disk[H] : disk[disk[M][i]] = disk[D(i)]
          BY <5>1, Zenon DEF Copied, InPlace
        <5>3. disk[M] \in Seq(FsBlks) /\ Len(disk[M]) = disk[H] /\ IsInjective(disk[M])
          <6>1. datablks \in Seq(WriteBlks) /\ IsInjective(datablks)
            BY Zenon DEF JbdInv, JbdTypeOK, JournalRight
          <6>2. datablks \in Seq(FsBlks)
            BY <6>1, JournalBlks
          <6> QED
            BY <5>1, <6>1, <6>2, ZenonT(40)
        <5>4. IsInjective(datablks)' /\ (IsInjective(disk[M]))' = IsInjective(disk[M])
          BY <2>5, <4>1, Zenon DEF IsInjective
        <5>5. (\A i \in 1..disk[H] : disk[disk[M][i]] = disk[D(i)])'
          BY <4>1, <5>2, Zenon DEF D
        <5> QED
          BY <3>1, <4>1, <4>2, <5>3, <5>4, <5>5, Zenon DEF JournalRight
      <4> QED
        BY <4>3, <4>4, Zenon
    <3>4. InCache'
      <4>1. Range(datablks)' = Range(datablks')
        BY Zenon DEF Range
      <4> QED
        BY <1>0, <1>4, <2>5, <4>1, Zenon DEF JbdInv, InCache
    <3>5. Coherent'
      <4>1. ASSUME NEW c \in Range(datablks)
            PROVE  mem[c] = disk[c]
        <5>1. PICK i \in 1..Len(datablks) : c = datablks[i]
          <6>1. datablks \in Seq(WriteBlks)
            BY Zenon DEF JbdInv, JbdTypeOK
          <6> QED
            BY <4>1, <6>1 DEF Range
        <5>2. datablks # <<>>
          BY <5>1
        <5> QED
          BY <2>3, <2>9, <5>1, <5>2, ZenonT(40) DEF InPlace
      <4> QED
        BY <1>0, <1>d, <4>1, Zenon DEF JbdInv, Coherent
    <3> QED
      BY <1>2, <1>3, <1>4, <2>1, <2>6, <2>7, <3>2, <3>3, <3>4, <3>5, Zenon DEF JbdInv
  <2> QED
    BY <2>8, <2>9, Zenon
<1> QED
  BY <1>5, <1>6, Zenon

\* The machine stops: memory is as after mounting, and nothing runs.
LEMMA CrashKeeps ==
  ASSUME JbdInv, Crash
  PROVE  JbdInv'
<1>0. /\ UNCHANGED disk
      /\ hw' = NoCommand /\ ide' = "IDLE" /\ request_queue' = <<>>
      /\ bio' = [t \in Threads |-> "COMPLETE"]
      /\ mem' = disk /\ cached' = {} /\ pgcache_lock' = NULL
      /\ nhdr' = [p \in Pages |-> 0] /\ holder' = [b \in Blks |-> NULL]
      /\ io' = [t \in Threads |-> Idle]
      /\ pc' = [t \in Threads |-> "off"]
      /\ jstate' = "IDLE" /\ datablks' = <<>> /\ stage' = "data" /\ idx' = 0
      /\ fails' = fails /\ panic' = {}
  BY Zenon DEF Crash
<1>1. \A t \in Threads : io'[t].at = "none" /\ io'[t].op = "READ" /\ pc'[t] = "off"
                         /\ bio'[t] = "COMPLETE"
  BY <1>0 DEF Idle
<1>2. JbdTypeOK'
  <2>1. disk' = [b \in Blks |-> disk'[b]] /\ mem' = [b \in Blks |-> mem'[b]]
    BY <1>0 DEF JbdInv, JbdTypeOK
  <2>2. io' \in [Threads -> Frames]
    BY <1>0, Zenon DEF Idle, Frames, Labels
  <2>3. hw' = [op |-> hw'.op, blk |-> hw'.blk, data |-> hw'.data, done |-> hw'.done]
    BY <1>0 DEF NoCommand
  <2>4. /\ request_queue' \in Seq(Threads) /\ datablks' \in Seq(WriteBlks)
        /\ stage' \in {"data", "bmap", "header", "apply", "erase"} /\ idx' \in Nat
        /\ jstate' \in {"IDLE", "BUSY"} /\ ide' \in {"IDLE", "BUSY"}
        /\ nhdr' \in [Pages -> Nat] /\ pgcache_lock' \in Threads \cup {NULL}
    BY <1>0
  <2>5. holder' \in [Blks -> Threads \cup {NULL}] /\ bio' \in [Threads -> {"PENDING", "COMPLETE"}]
        /\ pc' \in [Threads -> {"user", "txn", "modify", "read", "halt", "off"} \cup Committing]
    BY <1>0
  <2>6. fails' \in Seq({"page", "headers", "bio"})
    BY <1>0, Zenon DEF JbdInv, JbdTypeOK
  <2> QED
    BY <2>1, <2>2, <2>3, <2>4, <2>5, <2>6, ZenonT(40) DEF JbdTypeOK
<1>3. TxnAlone'
  <2>1. \A t \in Threads : pc'[t] # "halt" /\ pc'[t] \notin Committing
    BY <1>1 DEF Committing
  <2>2. LogBound'
    BY <1>0, <2>1, JbdAssumption DEF LogBound
  <2> QED
    BY <1>0, <1>1, <2>2, ZenonT(40) DEF TxnAlone, InTxn, Committing
<1>4. QueueRight' /\ DeviceRight'
  BY <1>0, <1>1 DEF QueueRight, DeviceRight, IsInjective, Range, NoCommand
<1>5. InCache' /\ Coherent' /\ NoPanic'
  <2>1. Range(datablks)' = {}
    BY <1>0 DEF Range
  <2>2. \A b \in Blks : holder'[b] = NULL
    BY <1>0
  <2>3. \A p \in Pages : nhdr'[p] = 0
    BY <1>0, Zenon
  <2> QED
    BY <1>0, <2>1, <2>2, <2>3, Zenon DEF InCache, Coherent, NoPanic, JbdInv
<1>6. ASSUME NEW t \in Threads
      PROVE  FrameOK(t)' /\ LockOK(t)' /\ MovedOK(t)' /\ CommitOK(t)'
  BY <1>1, Zenon DEF FrameOK, LockOK, MovedOK, CommitOK, Served, Busy, Committing
<1>7. JournalRight'
  <2>1. IsInjective(datablks)'
    BY <1>0 DEF IsInjective
  <2>2. disk'[H'] \in Nat
    BY <1>0, Zenon DEF JbdInv, JournalRight, H
  <2> QED
    BY <1>1, <2>1, <2>2, Zenon DEF JournalRight
<1> QED
  BY <1>2, <1>3, <1>4, <1>5, <1>6, <1>7, Zenon DEF JbdInv

\* The machine starts with a disk that mkfs made.
LEMMA InitKeeps ==
  ASSUME Init
  PROVE  JbdInv
<1>0. /\ disk = Disk0 /\ hw = NoCommand /\ ide = "IDLE" /\ request_queue = <<>>
      /\ bio = [t \in Threads |-> "COMPLETE"]
      /\ mem = Disk0 /\ cached = {} /\ pgcache_lock = NULL
      /\ nhdr = [p \in Pages |-> 0] /\ holder = [b \in Blks |-> NULL]
      /\ io = [t \in Threads |-> Idle]
      /\ pc = [t \in Threads |-> "user"]
      /\ jstate = "IDLE" /\ datablks = <<>> /\ stage = "data" /\ idx = 0
      /\ fails = <<>> /\ panic = {}
  BY Zenon DEF Init, Boot, Mount
<1>1. \A t \in Threads : io[t].at = "none" /\ io[t].op = "READ" /\ pc[t] = "user"
                         /\ bio[t] = "COMPLETE"
  BY <1>0 DEF Idle
<1>2. JbdTypeOK
  <2>1. disk = [b \in Blks |-> disk[b]] /\ mem = [b \in Blks |-> mem[b]]
    BY <1>0, BdevAssumption, Zenon DEF Blks
  <2>2. io \in [Threads -> Frames]
    BY <1>0 DEF Idle, Frames, Labels
  <2>3. hw = [op |-> hw.op, blk |-> hw.blk, data |-> hw.data, done |-> hw.done]
    BY <1>0, Zenon DEF NoCommand
  <2>4. /\ request_queue \in Seq(Threads) /\ datablks \in Seq(WriteBlks)
        /\ stage \in {"data", "bmap", "header", "apply", "erase"} /\ idx \in Nat
        /\ jstate \in {"IDLE", "BUSY"} /\ ide \in {"IDLE", "BUSY"} /\ fails \in Seq({"page", "headers", "bio"})
        /\ nhdr \in [Pages -> Nat] /\ pgcache_lock \in Threads \cup {NULL}
    BY <1>0
  <2>5. holder \in [Blks -> Threads \cup {NULL}] /\ bio \in [Threads -> {"PENDING", "COMPLETE"}]
        /\ pc \in [Threads -> {"user", "txn", "modify", "read", "halt", "off"} \cup Committing]
    BY <1>0
  <2> QED
    BY <2>1, <2>2, <2>3, <2>4, <2>5, Zenon DEF JbdTypeOK
<1>3. TxnAlone
  <2>1. \A t \in Threads : pc[t] # "halt" /\ pc[t] \notin Committing
    BY <1>1 DEF Committing
  <2>2. LogBound
    BY <1>0, <2>1, JbdAssumption DEF LogBound
  <2> QED
    BY <1>0, <1>1, <2>2, Zenon DEF TxnAlone, InTxn, Committing
<1>4. QueueRight /\ DeviceRight
  BY <1>0, <1>1 DEF QueueRight, DeviceRight, IsInjective, Range, NoCommand
<1>5. InCache /\ Coherent /\ NoPanic
  <2>1. Range(datablks) = {}
    BY <1>0 DEF Range
  <2>2. \A b \in Blks : holder[b] = NULL
    BY <1>0
  <2>3. \A p \in Pages : nhdr[p] = 0
    BY <1>0
  <2> QED
    BY <1>0, <2>1, <2>2, <2>3, Zenon DEF InCache, Coherent, NoPanic
<1>6. ASSUME NEW t \in Threads
      PROVE  FrameOK(t) /\ LockOK(t) /\ MovedOK(t) /\ CommitOK(t)
  BY <1>1, Zenon DEF FrameOK, LockOK, MovedOK, CommitOK, Served, Busy, Committing
<1>7. JournalRight
  <2>1. IsInjective(datablks)
    BY <1>0 DEF IsInjective
  <2>2. disk[H] = 0 /\ 0 \in Nat /\ ~(0 > 0)
    BY <1>0, JbdAssumption DEF H
  <2> QED
    BY <2>1, <2>2, Zenon DEF JournalRight
<1> QED
  BY <1>2, <1>3, <1>4, <1>5, <1>6, <1>7, Zenon DEF JbdInv

(***************************************************************************)
(* The invariant, and what it says.                                         *)
(***************************************************************************)

\* Every step keeps JbdInv.
LEMMA NextKeeps ==
  ASSUME JbdInv, [Next]_vars
  PROVE  JbdInv'
<1>0. Writers \subseteq Threads /\ Readers \subseteq Threads
      /\ \A t \in Readers : t \notin Writers
  BY JbdAssumption, Zenon
<1>1. ASSUME NEW t \in Writers, WriterStep(t)
      PROVE  JbdInv'
  <2>0. t \in Threads
    BY <1>0, Zenon
  <2>1. ASSUME NEW b \in WriteBlks, bdev_get_blk(t, b)
        PROVE  JbdInv'
    BY <2>0, <2>1, GetKeeps, JournalBlks
  <2> QED
    BY <1>1, <2>0, <2>1, BeginKeeps, WriteBlkKeeps, JournalFullKeeps, EndKeeps, CommitGetKeeps, CommitFillKeeps,
       ApplyWriteKeeps, CommitNextKeeps, CommitRetryKeeps, Zenon DEF WriterStep
<1>2. ASSUME NEW t \in Readers, ReaderStep(t)
      PROVE  JbdInv'
  <2>0. t \in Threads /\ t \notin Writers
    BY <1>0, Zenon
  <2>1. ASSUME NEW b \in ReadBlks, bdev_get_blk(t, b)
        PROVE  JbdInv'
    BY <2>0, <2>1, GetKeeps, JournalBlks
  <2> QED
    BY <1>2, <2>0, <2>1, ReadBlkKeeps, Zenon DEF ReaderStep
<1>3. ASSUME NEW t \in Threads, BdevStep(t), UNCHANGED jbdVars
      PROVE  JbdInv'
  BY <1>3, HitKeeps, MissKeeps, NoMemKeeps, SubmitKeeps, HandlerKeeps, ReadDoneKeeps,
     WriteDoneKeeps, BlkHeaderKeeps, BlkLockKeeps, Zenon DEF BdevStep
<1>4. ASSUME Hardware, UNCHANGED jbdVars
      PROVE  JbdInv'
  BY <1>4, ControllerKeeps, TrapKeeps, Zenon DEF Hardware
<1>5. ASSUME UNCHANGED vars
      PROVE  JbdInv'
  <2>1. /\ UNCHANGED <<disk, hw, ide, request_queue, bio>>
        /\ UNCHANGED <<mem, cached, pgcache_lock, nhdr, ref, holder, dirty, io, fails, panic>>
        /\ UNCHANGED <<pc, jstate, datablks, stage, idx>>
    BY <1>5, Zenon DEF vars, bdevVars, ioVars, cacheVars, jbdVars
  <2>2. /\ Target' = Target /\ Content' = Content
        /\ \A t \in Threads : Command(t)' = Command(t)
    BY <2>1, Zenon DEF Target, Content, Command, sfs_journal_bmap, HEADER_BLK, BMAP_START_BLK,
                       JDATA_START_BLK
  <2>3. JbdTypeOK' /\ TxnAlone' /\ QueueRight' /\ DeviceRight'
    BY <2>1, <2>2, ZenonT(40) DEF JbdInv, JbdTypeOK, TxnAlone, LogBound, QueueRight, DeviceRight, InTxn, Command
  <2>4. InCache' /\ Coherent' /\ NoPanic'
    BY <2>1, Zenon DEF JbdInv, InCache, Coherent, Stopped, NoPanic, ShortList
  <2>5. JournalRight'
    BY <2>1, Zenon DEF JbdInv, JournalRight, Copied, H, M, D
  <2>6. ASSUME NEW t \in Threads
        PROVE  FrameOK(t)' /\ LockOK(t)' /\ MovedOK(t)' /\ CommitOK(t)'
    <3>1. FrameOK(t)' /\ LockOK(t)' /\ MovedOK(t)'
      BY <2>1, <2>2, ZenonT(40) DEF JbdInv, FrameOK, LockOK, MovedOK, Served
    <3>2. CommitOK(t)'
      BY <2>1, <2>2, ZenonT(40) DEF JbdInv, CommitOK, Copied, InPlace, H, M, D
    <3> QED
      BY <3>1, <3>2, Zenon
  <2> QED
    BY <2>3, <2>4, <2>5, <2>6, Zenon DEF JbdInv
<1> QED
  BY <1>1, <1>2, <1>3, <1>4, <1>5, GetFailedKeeps, CrashKeeps, Zenon DEF Next

\* JbdInv holds in every state: how far each call, request and commit has come says
\* what is locked, in memory and on the disk.
THEOREM JbdInvariance == Spec => []JbdInv
<1>1. Init => JbdInv
  BY InitKeeps, Zenon
<1>2. JbdInv /\ [Next]_vars => JbdInv'
  BY NextKeeps, Zenon
<1> QED
  BY <1>1, <1>2, PTL DEF Spec

\* ide_trap_handler completes the request the controller has carried out.
THEOREM CommandsInOrder == Spec => []CommandIsFirst
<1>1. JbdInv => CommandIsFirst
  <2> SUFFICES ASSUME JbdInv
               PROVE  CommandIsFirst
    BY Zenon
  <2> DEFINE h == Head(request_queue)
  <2>1. (hw.op # "NONE") = (ide = "BUSY")
    BY DEF JbdInv, DeviceRight
  <2>2. ASSUME ide = "BUSY"
        PROVE  /\ request_queue # <<>> /\ [hw EXCEPT !.done = FALSE] = Command(h)
               /\ bio[h] = "PENDING"
    <3>1. request_queue # <<>>
      BY <2>2, Zenon DEF JbdInv, DeviceRight
    <3>2. bio[h] = "PENDING"
      BY <3>1, FirstPending, Zenon DEF JbdInv
    <3>3. hw.op = io[h].op /\ hw.blk = Command(h).blk /\ hw.data = mem[io[h].blk]
      BY <2>2, Zenon DEF JbdInv, DeviceRight
    <3>4. hw = [op |-> hw.op, blk |-> hw.blk, data |-> hw.data, done |-> hw.done]
      BY Zenon DEF JbdInv, JbdTypeOK
    <3> HIDE DEF h
    <3>5. [hw EXCEPT !.done = FALSE] = [op |-> hw.op, blk |-> hw.blk, data |-> hw.data, done |-> FALSE]
      <4>1. ASSUME NEW x, x = [hw EXCEPT !.done = FALSE]
            PROVE  x = [op |-> hw.op, blk |-> hw.blk, data |-> hw.data, done |-> FALSE]
        BY <3>4, <4>1, Zenon
      <4> QED
        BY <4>1, Zenon
    <3>6. Command(h) = [op |-> io[h].op, blk |-> Command(h).blk, data |-> mem[io[h].blk], done |-> FALSE]
      BY DEF Command
    <3>7. [hw EXCEPT !.done = FALSE] = Command(h)
      BY <3>3, <3>5, <3>6, Zenon
    <3> QED
      BY <3>1, <3>2, <3>7, Zenon DEF h
  <2> QED
    BY <2>1, <2>2, Zenon DEF CommandIsFirst
<1> QED
  BY <1>1, JbdInvariance, PTL

\* A cached block is as on the disk, unless an open transaction has logged it.
THEOREM CacheIsCoherent == Spec => []CacheCoherent
<1>1. JbdInv => CacheCoherent
  <2> SUFFICES ASSUME JbdInv, NEW b \in FsBlks, holder[b] = NULL
               PROVE  ~Stopped(b)
    BY ZenonT(40) DEF JbdInv, Coherent, CacheCoherent
  <2> QED
    BY BdevAssumption, Zenon DEF JbdInv, LockOK, Stopped
<1> QED
  BY <1>1, JbdInvariance, PTL
==============================================================================
