---------------------------- MODULE BlkRefProofs -----------------------------
(***************************************************************************)
(* The block headers' reference counts: bh->ref counts at least the threads *)
(* and the journal that use the header, so no header in use is freed; and   *)
(* what can make the block cache and the journal panic.                     *)
(***************************************************************************)
EXTENDS JbdProofs, FiniteSetTheorems

\* The users of a header are finitely many.
LEMMA UsersFinite ==
  ASSUME NEW b
  PROVE  IsFiniteSet(Users(b)) /\ Cardinality(Users(b)) \in Nat
<1>1. Users(b) \in SUBSET Threads /\ IsFiniteSet(Threads)
  BY BdevAssumption, Zenon DEF Users
<1>2. IsFiniteSet(Users(b))
  BY <1>1, FS_Subset, Zenon
<1> QED
  BY <1>2, FS_CardinalityType, Zenon

\* One thread stops using block b's header.
LEMMA UserLeaves ==
  ASSUME NEW t \in Threads, NEW b, Uses(t, b), ~Uses(t, b)',
         \A u \in Threads \ {t} : Uses(u, b)' <=> Uses(u, b)
  PROVE  Cardinality(Users(b)) > 0 /\ Cardinality(Users(b))' = Cardinality(Users(b)) - 1
<1>1. Users(b)' = Users(b) \ {t} /\ t \in Users(b)
  BY Zenon DEF Users
<1>2. IsFiniteSet(Users(b)) /\ Cardinality(Users(b)) \in Nat
  BY UsersFinite, Zenon
<1>3. Cardinality(Users(b) \ {t}) = Cardinality(Users(b)) - 1
  BY <1>1, <1>2, FS_RemoveElement, Zenon
<1>4. Cardinality(Users(b)) # 0
  BY <1>1, <1>2, FS_EmptySet, Zenon
<1>5. Cardinality(Users(b))' = Cardinality(Users(b)')
  OBVIOUS
<1> QED
  BY <1>1, <1>2, <1>3, <1>4, <1>5

\* One thread begins to use block b's header.
LEMMA UserJoins ==
  ASSUME NEW t \in Threads, NEW b, ~Uses(t, b), Uses(t, b)',
         \A u \in Threads \ {t} : Uses(u, b)' <=> Uses(u, b)
  PROVE  Cardinality(Users(b))' = Cardinality(Users(b)) + 1
<1>1. Users(b)' = Users(b) \cup {t} /\ t \notin Users(b)
  BY Zenon DEF Users
<1>2. IsFiniteSet(Users(b))
  BY UsersFinite, Zenon
<1>3. Cardinality(Users(b) \cup {t}) = Cardinality(Users(b)) + 1
  BY <1>1, <1>2, FS_AddElement, Zenon
<1>5. Cardinality(Users(b))' = Cardinality(Users(b)')
  OBVIOUS
<1> QED
  BY <1>1, <1>3, <1>5, Zenon

\* The use of a header by another thread depends on its frame, and on the stage of the
\* commit only if it writes, which only a thread in a transaction does.
LEMMA OthersUse ==
  ASSUME JbdInv, NEW t \in Threads, InTxn(t) \/ UNCHANGED stage,
         \A u \in Threads \ {t} : io'[u] = io[u]
  PROVE  \A u \in Threads \ {t} : \A b : Uses(u, b)' <=> Uses(u, b)
<1>1. ASSUME NEW u \in Threads \ {t}, InTxn(t)
      PROVE  io[u].op = "READ"
  <2>1. pc[u] # "release"
    BY <1>1 DEF JbdInv, TxnAlone, InTxn, Committing
  <2>2. io[u] \in Frames /\ io[u].op # "WRITE"
    BY <2>1, Zenon DEF JbdInv, FrameOK, JbdTypeOK
  <2> QED
    BY <2>2, Zenon DEF Frames
<1> QED
  BY <1>1, Zenon DEF Uses

\* What suffices for more suffices for fewer.
LEMMA Suffices ==
  ASSUME NEW r \in Nat, NEW m \in Nat, NEW n \in Nat, n <= m
  PROVE  /\ r >= m + 1 => r >= n + 1 /\ r >= n + 0
         /\ r >= m + 0 => r >= n + 0
  OBVIOUS

\* Fewer users and fewer logged blocks: the references still suffice.
LEMMA FewerUses ==
  ASSUME RefInv, UNCHANGED ref, "bh->ref > 0" \in panic' => "bh->ref > 0" \in panic,
         \A b : Users(b)' \subseteq Users(b), Pinned' \subseteq Pinned
  PROVE  RefsRight'
<1>1. ASSUME NEW b \in Blks
      PROVE  ref'[b] >= Cardinality(Users(b))' + IF b \in Pinned' THEN 1 ELSE 0
  <2>1. IsFiniteSet(Users(b)) /\ Cardinality(Users(b)) \in Nat
    BY UsersFinite, Zenon
  <2>2. /\ Cardinality(Users(b)') \in Nat /\ Cardinality(Users(b)') <= Cardinality(Users(b))
        /\ Cardinality(Users(b))' = Cardinality(Users(b)')
    <3>1. IsFiniteSet(Users(b)') /\ Cardinality(Users(b)') <= Cardinality(Users(b))
      BY <2>1, FS_Subset, Zenon
    <3> QED
      BY <3>1, FS_CardinalityType, Zenon
  <2>3. ref[b] >= Cardinality(Users(b)) + IF b \in Pinned THEN 1 ELSE 0
    BY Zenon DEF RefInv, RefsRight
  <2>4. ref[b] \in Nat /\ (b \in Pinned' => b \in Pinned)
    BY Zenon DEF RefInv
  <2>5. PICK m \in Nat, n \in Nat : m = Cardinality(Users(b)) /\ n = Cardinality(Users(b)')
    BY <2>1, <2>2, Zenon
  <2>7. PICK r \in Nat : r = ref[b]
    BY <2>4, Zenon
  <2>8. n <= m /\ r >= m + IF b \in Pinned THEN 1 ELSE 0
    BY <2>2, <2>3, <2>5, <2>7, Zenon
  <2>6. r >= n + IF b \in Pinned' THEN 1 ELSE 0
    <3>1. CASE b \in Pinned'
      <4>1. r >= m + 1
        BY <2>4, <2>8, <3>1, Zenon
      <4>2. r >= n + 1
        BY <2>8, <4>1, Suffices, Zenon
      <4> QED
        BY <3>1, <4>2, Zenon
    <3>2. CASE b \notin Pinned'
      <4>1. r >= n + 0
        BY <2>8, Suffices, Zenon
      <4> QED
        BY <3>2, <4>1, Zenon
    <3> QED
      BY <3>1, <3>2, Zenon
  <2> QED
    BY <2>2, <2>5, <2>6, <2>7, Zenon
<1> QED
  BY <1>1, Zenon DEF RefInv, RefsRight

\* The committing thread keeps what it is stuck with, and the journal its references.
LEMMA PinnedKept ==
  ASSUME UNCHANGED datablks, stage = "apply" <=> stage' = "apply",
         stage = "apply" => UNCHANGED idx, \A i \in 1..Len(datablks) : Stuck(i) => Stuck(i)'
  PROVE  Pinned' \subseteq Pinned
<1>1. CASE stage = "apply"
  BY <1>1, Zenon DEF Pinned
<1>2. CASE stage # "apply"
  <2>1. Pinned' = {datablks[i] : i \in {j \in 1..Len(datablks) :
                                          \A k \in 1..Len(datablks) : Stuck(k)' => j >= k}}
    BY <1>2, Zenon DEF Pinned
  <2>2. Pinned = {datablks[i] : i \in {j \in 1..Len(datablks) :
                                          \A k \in 1..Len(datablks) : Stuck(k) => j >= k}}
    BY <1>2, Zenon DEF Pinned
  <2> QED
    BY <2>1, <2>2, Zenon
<1> QED
  BY <1>1, <1>2, Zenon

\* A step of t may change which blocks t has locked, and why.
LEMMA HeldStep ==
  ASSUME JbdInv, RefInv, NEW t \in Threads, InTxn(t) \/ UNCHANGED <<datablks, stage, idx>>,
         \A u \in Threads \ {t} : io'[u] = io[u] /\ pc'[u] = pc[u],
         \A b \in FsBlks : holder'[b] \in {holder[b], NULL, t},
         \A b \in FsBlks : holder'[b] = t => HeldAs(t, b)'
  PROVE  HeldRight'
<1> SUFFICES ASSUME NEW b \in FsBlks, NEW u \in Threads \ {t}, holder'[b] = u
             PROVE  HeldAs(u, b)'
  BY Zenon DEF HeldRight
<1>1. HeldAs(u, b)
  <2>1. u # NULL /\ u # t
    BY BdevAssumption, Zenon
  <2>2. holder[b] = u
    BY <2>1, Zenon
  <2> QED
    BY <2>2, Zenon DEF RefInv, HeldRight
<1>2. CASE UNCHANGED <<datablks, stage, idx>>
  BY <1>1, <1>2, Zenon DEF HeldAs
<1>3. CASE InTxn(t)
  <2>1. pc[u] \notin Committing /\ pc[u] # "release"
    BY <1>3 DEF JbdInv, TxnAlone, InTxn, Committing
  <2> QED
    BY <1>1, <2>1, Zenon DEF HeldAs
<1> QED
  BY <1>2, <1>3, Zenon

\* A step that leaves the references and the locks alone, of a thread that neither begins
\* nor stops to use a header.
LEMMA RefKept ==
  ASSUME JbdInv, RefInv, NEW t \in Threads,
         UNCHANGED <<ref, holder, datablks, stage, idx>>, HeadersThere',
         "bh->ref > 0" \in panic' => "bh->ref > 0" \in panic,
         \A u \in Threads \ {t} : io'[u] = io[u] /\ pc'[u] = pc[u],
         \A b : Uses(t, b)' <=> Uses(t, b),
         \A b \in FsBlks : holder[b] = t /\ HeldAs(t, b) => HeldAs(t, b)',
         pc[t] \in Committing => pc'[t] \in Committing
  PROVE  RefInv'
<1>1. \A u \in Threads : \A b : Uses(u, b)' <=> Uses(u, b)
  BY OthersUse, Zenon
<1>2. \A b : Users(b)' \subseteq Users(b)
  BY <1>1, Zenon DEF Users
<1>3. Committing' = Committing /\ \A u \in Threads : pc[u] \in Committing => pc'[u] \in Committing
  BY Zenon DEF Committing
<1>4. Pinned' \subseteq Pinned
  <2>1. \A i \in 1..Len(datablks) : Stuck(i) => Stuck(i)'
    BY <1>3, Zenon DEF Stuck
  <2> QED
    BY <2>1, PinnedKept, Zenon
<1>5. RefsRight'
  BY <1>2, <1>4, FewerUses, Zenon
<1>6. HeldRight'
  <2>1. \A b \in FsBlks : holder'[b] = t => HeldAs(t, b)'
    BY Zenon DEF RefInv, HeldRight
  <2>2. \A b \in FsBlks : holder'[b] \in {holder[b], NULL, t}
    BY Zenon
  <2> QED
    BY <2>1, <2>2, HeldStep, Zenon
<1> QED
  BY <1>3, <1>5, <1>6, Zenon DEF RefInv

(***************************************************************************)
(* The block cache and the disk.                                            *)
(***************************************************************************)

\* A frame moves on, and uses a header before and after, or neither.
LEMMA RefGoto ==
  ASSUME JbdInv, RefInv, NEW t \in Threads, NEW l \in Labels, io' = Goto(t, l), io[t].at # "ok",
         io[t].op = "READ" => (io[t].at \in {"lock", "ok"} <=> l \in {"lock", "ok"}),
         UNCHANGED <<ref, holder, pc, datablks, stage, idx>>, HeadersThere',
         "bh->ref > 0" \in panic' => "bh->ref > 0" \in panic
  PROVE  RefInv'
<1>1. /\ io'[t].at = l /\ io'[t].blk = io[t].blk /\ io'[t].op = io[t].op
      /\ \A u \in Threads \ {t} : io'[u] = io[u]
  BY GotoIs, Zenon DEF JbdInv, JbdTypeOK
<1>2. \A b : Uses(t, b)' <=> Uses(t, b)
  BY <1>1, Zenon DEF Uses
<1>3. \A b \in FsBlks : HeldAs(t, b) => HeldAs(t, b)'
  BY <1>1, Zenon DEF HeldAs, Committing
<1> QED
  BY <1>1, <1>2, <1>3, RefKept, Zenon

\* A step that leaves the headers alone.
LEMMA HeadersStill ==
  ASSUME RefInv, UNCHANGED <<ref, nhdr>>
  PROVE  HeadersThere'
  BY Zenon DEF RefInv, HeadersThere

\* The steps of the block cache that neither take nor release a reference.
LEMMA RefCacheSteps ==
  ASSUME JbdInv, RefInv, NEW t \in Threads, UNCHANGED jbdVars,
         \/ PgcacheHit(t) \/ PgcacheMiss(t) \/ Submit(t) \/ ide_request_handler(t)
         \/ RequestDone(t)
  PROVE  RefInv'
<1>0. UNCHANGED <<pc, datablks, stage, idx>>
  BY Zenon DEF jbdVars
<1>l. {"headers", "submit", "kick", "wait", "ok"} \subseteq Labels
  BY DEF Labels, Busy
<1>1. CASE PgcacheHit(t)
  <2>1. /\ io[t].at = "pgcache" /\ io' = Goto(t, "headers")
        /\ UNCHANGED <<ref, nhdr, holder, panic>>
    BY <1>1, Zenon DEF PgcacheHit, cacheVars
  <2>2. HeadersThere' /\ io[t].at # "ok" /\ io[t].at \notin {"lock", "ok"}
    BY <2>1, HeadersStill
  <2> QED
    BY <1>0, <1>l, <2>1, <2>2, RefGoto
<1>2. CASE PgcacheMiss(t)
  <2>1. /\ io[t].at = "pgcache" /\ io' = Goto(t, "submit")
        /\ UNCHANGED <<ref, nhdr, holder, panic>>
    BY <1>2, Zenon DEF PgcacheMiss
  <2>2. HeadersThere' /\ io[t].at # "ok" /\ io[t].at \notin {"lock", "ok"}
    BY <2>1, HeadersStill
  <2> QED
    BY <1>0, <1>l, <2>1, <2>2, RefGoto
<1>3. CASE Submit(t)
  <2>1. /\ io[t].at = "submit" /\ io' = Goto(t, "kick")
        /\ UNCHANGED <<ref, nhdr, holder, panic>>
    BY <1>3, Zenon DEF Submit, cacheVars
  <2>2. HeadersThere' /\ io[t].at # "ok" /\ io[t].at \notin {"lock", "ok"}
    BY <2>1, HeadersStill
  <2> QED
    BY <1>0, <1>l, <2>1, <2>2, RefGoto
<1>4. CASE ide_request_handler(t)
  <2>1. /\ io[t].at = "kick" /\ io' = Goto(t, "wait")
        /\ UNCHANGED <<ref, nhdr, holder, panic>>
    BY <1>4, Zenon DEF ide_request_handler, cacheVars
  <2>2. HeadersThere' /\ io[t].at # "ok" /\ io[t].at \notin {"lock", "ok"}
    BY <2>1, HeadersStill
  <2> QED
    BY <1>0, <1>l, <2>1, <2>2, RefGoto
<1>5. CASE RequestDone(t)
  <2>1. /\ io[t].at = "wait" /\ UNCHANGED <<ref, nhdr, holder>>
        /\ io' = Goto(t, IF io[t].op = "READ" THEN "headers" ELSE "ok")
        /\ panic' \subseteq panic \cup {"node should not exist"}
    BY <1>5, Zenon DEF RequestDone
  <2>2. "bh->ref > 0" \in panic' => "bh->ref > 0" \in panic
    BY <2>1
  <2>5. HeadersThere' /\ io[t].at # "ok" /\ io[t].at \notin {"lock", "ok"}
    BY <2>1, HeadersStill
  <2>3. CASE io[t].op = "READ"
    BY <1>0, <1>l, <2>1, <2>2, <2>3, <2>5, RefGoto
  <2>4. CASE io[t].op # "READ"
    BY <1>0, <1>l, <2>1, <2>2, <2>4, <2>5, RefGoto
  <2> QED
    BY <2>3, <2>4, Zenon
<1> QED
  BY <1>1, <1>2, <1>3, <1>4, <1>5, Zenon

\* The lock of a block: the commit locks blocks of the journal this way, nobody's log.
LEMMA RefBlkLock ==
  ASSUME JbdInv, RefInv, NEW t \in Threads, UNCHANGED jbdVars, BlkLock(t)
  PROVE  RefInv'
<1>1. /\ io[t].op = "READ" /\ io[t].blk \in Blks /\ io[t].at = "lock"
      /\ pc[t] \in Committing => stage # "apply" /\ io[t].blk = Target
  <2>1. FrameOK(t) /\ io[t] \in Frames /\ io[t].at = "lock"
    BY Zenon DEF JbdInv, JbdTypeOK, BlkLock
  <2> QED
    BY <2>1 DEF FrameOK, Frames, Committing, Busy
<1>b. PICK b \in Blks : b = io[t].blk
  BY <1>1, Zenon
<1>0. /\ io' = Goto(t, "ok") /\ holder[b] = NULL /\ holder' = [holder EXCEPT ![b] = t]
      /\ UNCHANGED <<ref, nhdr, panic, pc, datablks, stage, idx>>
  BY <1>b, Zenon DEF BlkLock, jbdVars
<1>2. /\ io'[t].at = "ok" /\ io'[t].blk = io[t].blk /\ io'[t].op = io[t].op
      /\ \A u \in Threads \ {t} : io'[u] = io[u]
  BY <1>0, GotoIs DEF JbdInv, JbdTypeOK, Labels
<1>3. holder'[b] = t /\ \A c \in Blks \ {b} : holder'[c] = holder[c]
  BY <1>0, Zenon DEF JbdInv, JbdTypeOK
<1>4. \A u \in Threads : \A c : Uses(u, c)' <=> Uses(u, c)
  <2>1. \A c : Uses(t, c)' <=> Uses(t, c)
    BY <1>1, <1>2 DEF Uses
  <2> QED
    BY <1>0, <1>2, <2>1, OthersUse, Zenon
<1>5. Pinned' \subseteq Pinned
  <2>1. ASSUME NEW i \in 1..Len(datablks), Stuck(i)
        PROVE  Stuck(i)'
    <3>1. PICK u \in Threads : pc[u] \in Committing /\ holder[datablks[i]] = u /\ stage # "apply"
      BY <2>1, Zenon DEF Stuck
    <3>2. datablks[i] \in Blks /\ u # NULL
      BY LogFacts, JournalBlks, BdevAssumption, Zenon
    <3>3. holder'[datablks[i]] = u
      BY <1>0, <1>3, <3>1, <3>2, Zenon
    <3> QED
      BY <1>0, <3>1, <3>3, Zenon DEF Stuck, Committing
  <2> QED
    BY <1>0, <2>1, PinnedKept, Zenon
<1>6. RefsRight' /\ HeadersThere'
  <2>1. \A c : Users(c)' \subseteq Users(c)
    BY <1>4, Zenon DEF Users
  <2> QED
    BY <1>0, <1>5, <2>1, FewerUses, HeadersStill, Zenon
<1>7. HeldRight'
  <2>1. ASSUME NEW c \in FsBlks, holder'[c] = t
        PROVE  HeldAs(t, c)'
    <3>1. CASE c = b
      <4>1. pc[t] \notin Committing
        <5>1. pc[t] \in Committing => Target \notin FsBlks
          BY <1>1, TargetIs, JournalBlks, Zenon
        <5> QED
          BY <1>1, <1>b, <3>1, <5>1, Zenon
      <4> QED
        BY <1>0, <1>b, <1>2, <3>1, <4>1, Zenon DEF HeldAs, Committing
    <3>2. CASE c # b
      <4>1. holder[c] = t
        BY <1>3, <2>1, <3>2, JournalBlks, Zenon
      <4>2. HeldAs(t, c) /\ io[t].at # "ok"
        BY <1>1, <4>1 DEF RefInv, HeldRight
      <4> QED
        BY <1>0, <1>2, <4>2, Zenon DEF HeldAs, Committing
    <3> QED
      BY <3>1, <3>2, Zenon
  <2>2. \A c \in FsBlks : holder'[c] \in {holder[c], NULL, t}
    BY <1>3, JournalBlks, Zenon
  <2> QED
    BY <1>0, <1>2, <2>1, <2>2, HeldStep, Zenon
<1> QED
  BY <1>0, <1>6, <1>7, Zenon DEF RefInv, Committing

\* The page of a block with a reference has headers.
LEMMA RefHasHeader ==
  ASSUME JbdInv, RefInv, NEW b \in Blks, ref[b] > 0
  PROVE  PageOf(b) \in Pages /\ nhdr[PageOf(b)] # 0
<1>1. b - FIRST_BLK_IN_PAGE(b) < nhdr[PageOf(b)] /\ PageOf(b) \in Pages
  BY PageFacts, Zenon DEF RefInv, HeadersThere
<1>2. b \in Nat /\ N_BLKS_PER_PAGE \in Nat /\ N_BLKS_PER_PAGE > 0
  BY BdevAssumption, JbdAssumption
<1>3. (b % N_BLKS_PER_PAGE) \in 0..(N_BLKS_PER_PAGE - 1)
  BY <1>2
<1>4. b - FIRST_BLK_IN_PAGE(b) \in Nat
  BY <1>2, <1>3 DEF FIRST_BLK_IN_PAGE
<1> QED
  BY <1>1, <1>4

\* A failed allocation.  A page without headers has no references, so the short list
\* init_blk_headers leaves behind is in nobody's way.
LEMMA RefNoMem ==
  ASSUME JbdInv, RefInv, NEW t \in Threads, UNCHANGED jbdVars,
         PgcacheNoMem(t) \/ BlkHeaderNoMem(t) \/ WriteNoMem(t)
  PROVE  RefInv'
<1>0. /\ UNCHANGED <<pc, datablks, stage, idx, ref, holder, panic>> /\ io' = Goto(t, "nomem")
      /\ io[t].at \in {"pgcache", "headers", "submit"}
  BY Zenon DEF jbdVars, PgcacheNoMem, BlkHeaderNoMem, WriteNoMem, NoMem, cacheVars
<1>1. HeadersThere'
  <2>1. CASE BlkHeaderNoMem(t)
    <3>1. PICK k \in 0..(N_BLKS_PER_PAGE - 1) : nhdr' = [nhdr EXCEPT ![PageOf(io[t].blk)] = k]
      BY <2>1, Zenon DEF BlkHeaderNoMem
    <3>2. nhdr[PageOf(io[t].blk)] = 0 /\ nhdr \in [Pages -> Nat]
      BY <2>1, Zenon DEF BlkHeaderNoMem, JbdInv, JbdTypeOK
    <3>3. ASSUME NEW b \in Blks, ref[b] > 0
          PROVE  b - FIRST_BLK_IN_PAGE(b) < nhdr'[PageOf(b)]
      <4>1. b - FIRST_BLK_IN_PAGE(b) < nhdr[PageOf(b)] /\ PageOf(b) \in Pages
        BY <3>3, PageFacts, Zenon DEF RefInv, HeadersThere
      <4>2. nhdr[PageOf(b)] # 0
        BY <3>3, RefHasHeader, Zenon
      <4> QED
        BY <3>1, <3>2, <4>1, <4>2, Zenon
    <3> QED
      BY <1>0, <3>3, Zenon DEF HeadersThere
  <2>2. CASE PgcacheNoMem(t) \/ WriteNoMem(t)
    <3>1. UNCHANGED <<ref, nhdr>>
      BY <2>2, Zenon DEF PgcacheNoMem, WriteNoMem, cacheVars
    <3> QED
      BY <3>1, Zenon DEF RefInv, HeadersThere
  <2> QED
    BY <2>1, <2>2, Zenon
<1>2. "nomem" \in Labels /\ io[t].at # "ok" /\ io[t].at \notin {"lock", "ok"}
  BY <1>0 DEF Labels
<1>3. "nomem" \notin {"lock", "ok"}
  OBVIOUS
<1> QED
  BY <1>0, <1>1, <1>2, <1>3, RefGoto, Zenon

\* bdev_get_blk takes a reference to the header it finds.
LEMMA RefBlkHeader ==
  ASSUME JbdInv, RefInv, NEW t \in Threads, UNCHANGED jbdVars, BlkHeader(t)
  PROVE  RefInv'
<1>2. io[t].op = "READ" /\ io[t].blk \in Blks /\ {"lock", "panic"} \subseteq Labels
  <2>1. FrameOK(t) /\ io[t] \in Frames /\ io[t].at = "headers"
    BY Zenon DEF JbdInv, JbdTypeOK, BlkHeader
  <2> QED
    BY <2>1 DEF FrameOK, Frames, Busy, Labels
<1>b. PICK b \in Blks : b = io[t].blk
  BY <1>2, Zenon
<1> DEFINE q == PageOf(b)
           n == IF nhdr[q] = 0 THEN N_BLKS_PER_PAGE ELSE nhdr[q]
           found == b - FIRST_BLK_IN_PAGE(b) < n
<1>0. /\ io[t].at = "headers" /\ nhdr' = [nhdr EXCEPT ![q] = n] /\ UNCHANGED holder
      /\ found => /\ ref' = [ref EXCEPT ![b] = @ + 1] /\ io' = Goto(t, "lock")
                  /\ UNCHANGED panic
      /\ ~found => /\ io' = Goto(t, "panic") /\ UNCHANGED ref
                   /\ panic' = panic \cup {"bdev block not found in page"}
  BY <1>b, Zenon DEF BlkHeader
<1>1. UNCHANGED <<pc, datablks, stage, idx>> /\ Pinned' = Pinned
  <2>1. UNCHANGED <<pc, datablks, stage, idx>>
    BY Zenon DEF jbdVars
  <2>2. \A i : Stuck(i)' <=> Stuck(i)
    BY <1>0, <2>1, Zenon DEF Stuck, Committing
  <2> QED
    BY <2>1, <2>2, Zenon DEF Pinned
<1>3. q \in Pages /\ nhdr \in [Pages -> Nat] /\ ref \in [Blks -> Nat]
  BY PageFacts, Zenon DEF JbdInv, JbdTypeOK, RefInv
<1>4. \A c \in Blks : ref[c] > 0 => nhdr'[PageOf(c)] = nhdr[PageOf(c)]
  <2>1. \A c \in Blks : ref[c] > 0 => PageOf(c) \in Pages /\ nhdr[PageOf(c)] # 0
    BY RefHasHeader, Zenon
  <2> QED
    BY <1>0, <1>3, <2>1, Zenon
<1> HIDE DEF n
<1>5. CASE found
  <2>1. /\ io'[t].at = "lock" /\ io'[t].blk = b /\ io'[t].op = "READ"
        /\ \A u \in Threads \ {t} : io'[u] = io[u]
    BY <1>b, <1>0, <1>2, <1>5, GotoIs, Zenon DEF JbdInv, JbdTypeOK
  <2>2. \A u \in Threads \ {t} : \A c : Uses(u, c)' <=> Uses(u, c)
    BY <1>1, <2>1, OthersUse, Zenon
  <2>3. /\ Uses(t, b)' /\ \A c \in Blks : ~Uses(t, c)
        /\ \A c \in Blks \ {b} : ~Uses(t, c)'
    BY <1>0, <1>2, <2>1 DEF Uses
  <2>4. Cardinality(Users(b))' = Cardinality(Users(b)) + 1
    BY <2>2, <2>3, UserJoins, Zenon
  <2>5. \A c \in Blks \ {b} : Users(c)' = Users(c)
    BY <2>2, <2>3, Zenon DEF Users
  <2>6. /\ ref' \in [Blks -> Nat] /\ ref'[b] = ref[b] + 1
        /\ \A c \in Blks \ {b} : ref'[c] = ref[c]
    <3>1. ref' = [ref EXCEPT ![b] = @ + 1]
      BY <1>0, <1>5, Zenon
    <3> QED
      BY <1>3, <3>1
  <2>7. HeadersThere'
    <3>1. b - FIRST_BLK_IN_PAGE(b) < nhdr'[PageOf(b)]
      BY <1>0, <1>3, <1>5, Zenon
    <3> QED
      BY <1>4, <2>6, <3>1, Zenon DEF RefInv, HeadersThere
  <2>8. RefsRight'
    <3>1. /\ "bh->ref > 0" \notin panic
          /\ \A c \in Blks : ref[c] >= Cardinality(Users(c)) + IF c \in Pinned THEN 1 ELSE 0
      BY Zenon DEF RefInv, RefsRight
    <3>2. "bh->ref > 0" \notin panic'
      BY <1>0, <1>5, <3>1, Zenon
    <3>3. ref'[b] >= Cardinality(Users(b))' + IF b \in Pinned' THEN 1 ELSE 0
      <4>1. Cardinality(Users(b)) \in Nat /\ ref[b] \in Nat
        BY <1>3, UsersFinite, Zenon
      <4>2. ref[b] >= Cardinality(Users(b)) + IF b \in Pinned THEN 1 ELSE 0
        BY <3>1, Zenon
      <4> QED
        BY <1>1, <2>4, <2>6, <4>1, <4>2
    <3>4. \A c \in Blks \ {b} : ref'[c] >= Cardinality(Users(c))' + IF c \in Pinned' THEN 1 ELSE 0
      BY <1>1, <2>5, <2>6, <3>1, Zenon
    <3> QED
      BY <3>2, <3>3, <3>4, Zenon DEF RefsRight
  <2>9. HeldRight'
    <3>1. \A c \in FsBlks : HeldAs(t, c) => HeldAs(t, c)'
      <4>1. io[t].at # "ok"
        BY <1>0
      <4> QED
        BY <1>b, <1>1, <2>1, <4>1, Zenon DEF HeldAs, Committing
    <3>2. /\ \A c \in FsBlks : holder'[c] = t => HeldAs(t, c)'
          /\ \A c \in FsBlks : holder'[c] \in {holder[c], NULL, t}
      BY <1>0, <3>1, Zenon DEF RefInv, HeldRight
    <3> QED
      BY <1>1, <2>1, <3>2, HeldStep, Zenon
  <2> QED
    BY <1>1, <2>6, <2>7, <2>8, <2>9, Zenon DEF RefInv, Committing
<1>6. CASE ~found
  <2>1. io' = Goto(t, "panic") /\ UNCHANGED ref
    BY <1>0, <1>6, Zenon
  <2>2. HeadersThere'
    BY <1>0, <1>4, <1>6, Zenon DEF RefInv, HeadersThere
  <2>3. "bh->ref > 0" \in panic' => "bh->ref > 0" \in panic
    <3>1. panic' = panic \cup {"bdev block not found in page"}
      BY <1>0, <1>6, Zenon
    <3> QED
      BY <3>1
  <2>4. /\ io[t].at # "ok" /\ io[t].at \notin {"lock", "ok"}
        /\ "panic" \in Labels /\ "panic" \notin {"lock", "ok"}
    BY <1>0, <1>2
  <2> QED
    BY <1>0, <1>1, <2>1, <2>2, <2>3, <2>4, RefGoto, Zenon
<1> QED
  BY <1>5, <1>6, Zenon

\* A step that changes neither frames nor references nor the journal's place.
LEMMA RefStill ==
  ASSUME RefInv, UNCHANGED <<io, ref, nhdr, holder, panic, pc, datablks, stage, idx>>
  PROVE  RefInv'
<1>1. \A b : Users(b)' = Users(b)
  BY Zenon DEF Users, Uses
<1>2. Pinned' = Pinned
  BY Zenon DEF Pinned, Stuck, Committing
<1>3. HeldRight'
  <2>1. \A b, t : HeldAs(t, b)' <=> HeldAs(t, b)
    BY Zenon DEF HeldAs, Committing
  <2> QED
    BY <2>1, Zenon DEF RefInv, HeldRight
<1> QED
  BY <1>1, <1>2, <1>3, Zenon DEF RefInv, RefsRight, HeadersThere, Committing

(***************************************************************************)
(* The journal.                                                             *)
(***************************************************************************)

\* The blocks the journal refers to: all it has logged, until they are applied, or at most
\* those.
LEMMA PinnedIs ==
  ASSUME JbdInv
  PROVE  /\ stage # "apply" /\ (\A i \in 1..Len(datablks) : ~Stuck(i)) => Pinned = Range(datablks)
         /\ Pinned \subseteq Range(datablks)
         /\ datablks = <<>> => Pinned = {}
<1>1. /\ datablks \in Seq(WriteBlks) /\ Len(datablks) \in Nat /\ DOMAIN datablks = 1..Len(datablks)
      /\ datablks = <<>> => Len(datablks) = 0
  <2>1. datablks \in Seq(WriteBlks)
    BY Zenon DEF JbdInv, JbdTypeOK
  <2> QED
    BY <2>1
<1>3. stage # "apply" /\ (\A i \in 1..Len(datablks) : ~Stuck(i)) => Pinned = Range(datablks)
  BY <1>1, Zenon DEF Pinned, Range
<1>4. Pinned \subseteq Range(datablks)
  BY <1>1, Zenon DEF Pinned, Range
<1>5. datablks = <<>> => 1..Len(datablks) = {}
  BY <1>1
<1>6. datablks = <<>> => Pinned = {}
  BY <1>5, Zenon DEF Pinned
<1> QED
  BY <1>3, <1>4, <1>6, Zenon

\* A thread that used block b's header is done with it.
LEMMA CountsAfter ==
  ASSUME JbdInv, NEW t \in Threads, NEW b \in Blks, Uses(t, b), io'[t].at = "none",
         io'[t].op = "READ", \A u \in Threads \ {t} : io'[u] = io[u],
         InTxn(t) \/ UNCHANGED stage
  PROVE  /\ Cardinality(Users(b)) > 0 /\ Cardinality(Users(b))' = Cardinality(Users(b)) - 1
         /\ \A c \in Blks \ {b} : Users(c)' = Users(c)
<1>1. \A u \in Threads \ {t} : \A c : Uses(u, c)' <=> Uses(u, c)
  BY OthersUse, Zenon
<1>2. (\A c : ~Uses(t, c)') /\ \A c \in Blks \ {b} : ~Uses(t, c)
  BY DEF Uses
<1>3. Cardinality(Users(b)) > 0 /\ Cardinality(Users(b))' = Cardinality(Users(b)) - 1
  BY <1>1, <1>2, UserLeaves, Zenon
<1> QED
  BY <1>1, <1>2, <1>3, Zenon DEF Users

\* A release frees headers only of a page without references.
LEMMA HeadersAfter ==
  ASSUME JbdInv, RefInv, NEW b \in Blks,
         \/ nhdr' = nhdr
         \/ nhdr' = [nhdr EXCEPT ![PageOf(b)] = 0] /\ \A c \in BlksIn(PageOf(b)) : ref'[c] = 0,
         \A c \in Blks : ref'[c] > 0 => ref[c] > 0
  PROVE  HeadersThere'
<1>1. nhdr \in [Pages -> Nat] /\ \A c \in Blks : PageOf(c) \in Pages
  BY PageFacts, Zenon DEF JbdInv, JbdTypeOK
<1>2. ~(0 > 0)
  OBVIOUS
<1>3. \A c \in Blks : ref'[c] > 0 => nhdr'[PageOf(c)] = nhdr[PageOf(c)]
  BY <1>1, <1>2, Zenon DEF BlksIn
<1> QED
  BY <1>3, Zenon DEF RefInv, HeadersThere

\* The references of a block that one thread releases, and of one whose users stay.
LEMMA OneLess ==
  ASSUME NEW b \in Blks, ref \in [Blks -> Nat], ref[b] > 0 => ref'[b] = ref[b] - 1,
         Cardinality(Users(b)) > 0, Cardinality(Users(b))' = Cardinality(Users(b)) - 1,
         b \in Pinned' => b \in Pinned,
         ref[b] >= Cardinality(Users(b)) + IF b \in Pinned THEN 1 ELSE 0
  PROVE  ref[b] > 0 /\ ref'[b] >= Cardinality(Users(b))' + IF b \in Pinned' THEN 1 ELSE 0
<1>1. PICK r \in Nat, m \in Nat : r = ref[b] /\ m = Cardinality(Users(b))
  BY UsersFinite, Zenon
<1>2. m > 0 /\ r >= m + IF b \in Pinned THEN 1 ELSE 0
  BY <1>1, Zenon
<1>3. r > 0
  BY <1>2
<1>4. ref'[b] = r - 1 /\ Cardinality(Users(b))' = m - 1
  BY <1>1, <1>3, Zenon
<1>5. CASE b \in Pinned'
  <2>1. r >= m + 1
    BY <1>2, <1>5, Zenon
  <2>2. r - 1 >= (m - 1) + 1
    BY <1>2, <2>1
  <2> QED
    BY <1>1, <1>3, <1>4, <1>5, <2>2, Zenon
<1>6. CASE b \notin Pinned'
  <2>1. r - 1 >= (m - 1) + 0
    BY <1>2
  <2> QED
    BY <1>1, <1>3, <1>4, <1>6, <2>1, Zenon
<1> QED
  BY <1>5, <1>6, Zenon

LEMMA SameUsers ==
  ASSUME NEW b \in Blks, ref \in [Blks -> Nat], ref'[b] = ref[b], Users(b)' = Users(b),
         b \in Pinned' => b \in Pinned,
         ref[b] >= Cardinality(Users(b)) + IF b \in Pinned THEN 1 ELSE 0
  PROVE  ref'[b] >= Cardinality(Users(b))' + IF b \in Pinned' THEN 1 ELSE 0
<1>1. PICK r \in Nat, m \in Nat : r = ref[b] /\ m = Cardinality(Users(b))
  BY UsersFinite, Zenon
<1>2. r >= m + IF b \in Pinned THEN 1 ELSE 0
  BY <1>1, Zenon
<1>3. r >= m + 0
  BY <1>2
<1>4. ref'[b] = r /\ Cardinality(Users(b))' = m
  BY <1>1, Zenon
<1>5. CASE b \in Pinned'
  BY <1>2, <1>4, <1>5, Zenon
<1>6. CASE b \notin Pinned'
  BY <1>3, <1>4, <1>6, Zenon
<1> QED
  BY <1>5, <1>6, Zenon

\* Outside a commit a thread has locked no other block of the file system than that of
\* its frame.
LEMMA OnlyThat ==
  ASSUME JbdInv, RefInv, NEW t \in Threads, NEW b \in Blks, pc[t] \notin Committing,
         b = io[t].blk, holder' = [holder EXCEPT ![b] = NULL]
  PROVE  \A c \in FsBlks : holder'[c] # t /\ holder'[c] \in {holder[c], NULL, t}
<1>1. holder'[b] = NULL /\ \A c \in Blks \ {b} : holder'[c] = holder[c]
  BY Zenon DEF JbdInv, JbdTypeOK
<1>2. t # NULL /\ FsBlks \subseteq Blks /\ "release" \in Committing
  BY BdevAssumption, JournalBlks DEF Committing
<1>3. \A c \in FsBlks : holder[c] = t => c = b
  BY <1>2, Zenon DEF RefInv, HeldRight, HeldAs
<1> QED
  BY <1>1, <1>2, <1>3, Zenon

\* A reader releases its block.
LEMMA RefReadBlk ==
  ASSUME JbdInv, RefInv, NEW t \in Threads, ReadBlk(t)
  PROVE  RefInv'
<1>1. io[t].op = "READ" /\ io[t].blk \in Blks /\ pc[t] = "read" /\ io[t].at = "ok"
  <2>1. FrameOK(t) /\ io[t] \in Frames /\ pc[t] = "read" /\ io[t].at = "ok"
    BY Zenon DEF JbdInv, JbdTypeOK, ReadBlk
  <2> QED
    BY <2>1 DEF FrameOK, Frames
<1>b. PICK b \in Blks : b = io[t].blk
  BY <1>1, Zenon
<1>0. /\ ref' = [ref EXCEPT ![b] = IF @ > 0 THEN @ - 1 ELSE 0]
      /\ panic' = IF ref[b] > 0 THEN panic ELSE panic \cup {"bh->ref > 0"}
      /\ \/ nhdr' = nhdr
         \/ nhdr' = [nhdr EXCEPT ![PageOf(b)] = 0] /\ \A c \in BlksIn(PageOf(b)) : ref'[c] = 0
      /\ io' = [io EXCEPT ![t] = Idle] /\ pc' = [pc EXCEPT ![t] = "user"]
      /\ holder' = [holder EXCEPT ![b] = NULL] /\ UNCHANGED <<datablks, stage, idx>>
  BY <1>b, Zenon DEF ReadBlk, ReleaseBlk
<1>2. ref \in [Blks -> Nat]
  BY Zenon DEF RefInv
<1>3. /\ ref' \in [Blks -> Nat]
      /\ ref[b] > 0 => ref'[b] = ref[b] - 1
      /\ \A c \in Blks \ {b} : ref'[c] = ref[c]
      /\ \A c \in Blks : ref'[c] > 0 => ref[c] > 0
  <2>1. ref' = [ref EXCEPT ![b] = IF @ > 0 THEN @ - 1 ELSE 0]
    BY <1>0, Zenon
  <2> QED
    BY <1>2, <2>1
<1>4. /\ io'[t].at = "none" /\ io'[t].op = "READ"
      /\ \A u \in Threads \ {t} : io'[u] = io[u]
  BY <1>0, IdleIs, Zenon DEF JbdInv, JbdTypeOK
<1>5. /\ Cardinality(Users(b)) > 0 /\ Cardinality(Users(b))' = Cardinality(Users(b)) - 1
      /\ \A c \in Blks \ {b} : Users(c)' = Users(c)
  <2>1. Uses(t, b)
    BY <1>1, <1>b, Zenon DEF Uses
  <2> QED
    BY <1>0, <1>4, <2>1, CountsAfter, Zenon
<1>6. HeadersThere'
  BY <1>0, <1>3, HeadersAfter, Zenon
<1>p. /\ pc[t] \notin Committing /\ pc'[t] = "user" /\ pc'[t] \notin Committing
      /\ \A u \in Threads \ {t} : pc'[u] = pc[u]
  <2>1. pc'[t] = "user" /\ \A u \in Threads \ {t} : pc'[u] = pc[u]
    BY <1>0, PcIs, Zenon DEF JbdInv
  <2> QED
    BY <1>1, <2>1 DEF Committing
<1>h. /\ holder[b] = t /\ holder'[b] = NULL
      /\ \A c \in Blks \ {b} : holder'[c] = holder[c]
  <2>1. holder[b] = t
    BY <1>1, <1>b, Zenon DEF JbdInv, LockOK
  <2> QED
    BY <1>0, <2>1, Zenon DEF JbdInv, JbdTypeOK
<1>7. Pinned' \subseteq Pinned
  <2>1. ASSUME NEW i \in 1..Len(datablks), Stuck(i)
        PROVE  Stuck(i)'
    <3>1. PICK u \in Threads : pc[u] \in Committing /\ holder[datablks[i]] = u /\ stage # "apply"
      BY <2>1, Zenon DEF Stuck
    <3>2. datablks[i] \in Blks /\ u # t
      BY <1>p, <3>1, LogFacts, JournalBlks, Zenon
    <3>3. holder'[datablks[i]] = u /\ pc'[u] \in Committing
      BY <1>p, <1>h, <3>1, <3>2, Zenon
    <3> QED
      BY <1>0, <3>1, <3>3, Zenon DEF Stuck, Committing
  <2> QED
    BY <1>0, <2>1, PinnedKept, Zenon
<1>8. RefsRight'
  <2>1. /\ "bh->ref > 0" \notin panic
        /\ \A c \in Blks : ref[c] >= Cardinality(Users(c)) + IF c \in Pinned THEN 1 ELSE 0
    BY Zenon DEF RefInv, RefsRight
  <2>2. ref[b] > 0 /\ ref'[b] >= Cardinality(Users(b))' + IF b \in Pinned' THEN 1 ELSE 0
    BY <1>2, <1>3, <1>5, <1>7, <2>1, OneLess, Zenon
  <2>3. \A c \in Blks \ {b} : ref'[c] >= Cardinality(Users(c))' + IF c \in Pinned' THEN 1 ELSE 0
    <3> SUFFICES ASSUME NEW c \in Blks \ {b}
                 PROVE  ref'[c] >= Cardinality(Users(c))' + IF c \in Pinned' THEN 1 ELSE 0
      OBVIOUS
    <3> QED
      BY <1>2, <1>3, <1>5, <1>7, <2>1, SameUsers, Zenon
  <2>5. "bh->ref > 0" \notin panic'
    BY <1>0, <2>1, <2>2, Zenon
  <2> QED
    BY <2>2, <2>3, <2>5, Zenon DEF RefsRight
<1>9. HeldRight'
  <2>1. \A c \in FsBlks : holder'[c] # t
    BY <1>0, <1>1, <1>b, <1>p, OnlyThat, Zenon
  <2>2. \A c \in FsBlks : holder'[c] \in {holder[c], NULL, t}
    BY <1>h, JournalBlks, Zenon
  <2> QED
    BY <1>0, <1>4, <1>p, <2>1, <2>2, HeldStep, Zenon
<1>10. stage' = "apply" => \E u \in Threads : pc'[u] \in Committing
  BY <1>0, <1>p, Zenon DEF RefInv
<1> QED
  BY <1>3, <1>6, <1>8, <1>9, <1>10, Zenon DEF RefInv, Committing

\* The thread in the transaction is the only one that could commit.
LEMMA NobodyCommits ==
  ASSUME JbdInv, RefInv, NEW t \in Threads, InTxn(t), pc[t] \notin Committing
  PROVE  /\ stage # "apply" /\ \A u \in Threads : pc[u] \notin Committing
         /\ Pinned = Range(datablks)
<1>1. \A u \in Threads : pc[u] \notin Committing
  BY Zenon DEF JbdInv, TxnAlone, InTxn
<1>2. stage # "apply" /\ \A i : ~Stuck(i)
  BY <1>1, Zenon DEF RefInv, Stuck
<1> QED
  BY <1>1, <1>2, PinnedIs, Zenon

\* A writer logs its block, for which the journal takes a reference, and releases it.
LEMMA RefWriteBlk ==
  ASSUME JbdInv, RefInv, NEW t \in Threads, NEW v, jbd_write_blk(t, v)
  PROVE  RefInv'
<1>1. /\ io[t].op = "READ" /\ io[t].blk \in Blks /\ io[t].blk \in WriteBlks
      /\ pc[t] = "modify" /\ io[t].at = "ok" /\ InTxn(t) /\ pc[t] \notin Committing
      /\ jstate = "BUSY"
  <2>1. FrameOK(t) /\ io[t] \in Frames /\ pc[t] = "modify" /\ io[t].at = "ok"
    BY Zenon DEF JbdInv, JbdTypeOK, jbd_write_blk
  <2>2. InTxn(t) /\ pc[t] \notin Committing
    BY <2>1 DEF InTxn, Committing
  <2>3. jstate = "BUSY"
    BY <2>2, Zenon DEF JbdInv, TxnAlone
  <2> QED
    BY <2>1, <2>2, <2>3 DEF FrameOK, Frames
<1>b. PICK b \in Blks : b = io[t].blk
  BY <1>1, Zenon
<1> DEFINE r == ref[b] + Len(Log(b)) - Len(datablks)
<1>0. /\ datablks' = Log(b)
      /\ \/ nhdr' = nhdr
         \/ nhdr' = [nhdr EXCEPT ![PageOf(b)] = 0] /\ \A c \in BlksIn(PageOf(b)) : ref'[c] = 0
      /\ io' = [io EXCEPT ![t] = Idle] /\ pc' = [pc EXCEPT ![t] = "txn"]
      /\ holder' = [holder EXCEPT ![b] = NULL] /\ UNCHANGED <<jstate, stage, idx>>
  BY <1>b, Zenon DEF jbd_write_blk, ReleaseBlk
<1>2. ref \in [Blks -> Nat] /\ datablks \in Seq(WriteBlks) /\ IsInjective(datablks)
  BY Zenon DEF RefInv, JbdInv, JbdTypeOK, JournalRight
<1>3. /\ ref' = [[ref EXCEPT ![b] = r] EXCEPT ![b] = IF @ > 0 THEN @ - 1 ELSE 0]
      /\ r > 0 => panic' = panic \cup NotBusy
  <2>1. [ref EXCEPT ![b] = r][b] = r
    BY <1>2, Zenon
  <2> QED
    BY <1>b, <2>1, Zenon DEF jbd_write_blk, ReleaseBlk
<1>4. /\ Len(Log(b)) - Len(datablks) = IF b \in Range(datablks) THEN 0 ELSE 1
      /\ Len(Log(b)) \in Nat /\ Len(datablks) \in Nat
      /\ Range(Log(b)) = Range(datablks) \cup {b}
  <2>1. CASE b \in Range(datablks)
    <3>1. Log(b) = datablks
      BY <2>1, Zenon DEF Log
    <3>2. Len(datablks) \in Nat
      BY <1>2
    <3>3. Range(datablks) = Range(datablks) \cup {b}
      BY <2>1, Zenon
    <3>4. Len(datablks) - Len(datablks) = 0
      BY <3>2
    <3> QED
      BY <2>1, <3>1, <3>2, <3>3, <3>4, Zenon
  <2>2. CASE b \notin Range(datablks)
    <3>1. Log(b) = Append(datablks, b) /\ b \in WriteBlks
      BY <1>1, <1>b, <2>2, Zenon DEF Log
    <3>2. Range(Append(datablks, b)) = Range(datablks) \cup {b}
      BY <1>2, <2>2, <3>1, AppendFacts, SMTT(30)
    <3>3. Len(Append(datablks, b)) = Len(datablks) + 1 /\ Len(datablks) \in Nat
      BY <1>2, <3>1
    <3> QED
      BY <2>2, <3>1, <3>2, <3>3
  <2> QED
    BY <2>1, <2>2, Zenon
<1>5. /\ r = ref[b] + IF b \in Range(datablks) THEN 0 ELSE 1
      /\ r \in Nat /\ ref[b] \in Nat
  BY <1>2, <1>4
<1> HIDE DEF r
<1>6. /\ ref' \in [Blks -> Nat]
      /\ ref'[b] = IF r > 0 THEN r - 1 ELSE 0
      /\ \A c \in Blks \ {b} : ref'[c] = ref[c]
  <2>1. ref' = [[ref EXCEPT ![b] = r] EXCEPT ![b] = IF @ > 0 THEN @ - 1 ELSE 0]
    BY <1>3, Zenon
  <2>2. r \in Nat
    BY <1>5, Zenon
  <2>3. (IF r > 0 THEN r - 1 ELSE 0) \in Nat
    BY <2>2
  <2>4. ref' = [ref EXCEPT ![b] = IF r > 0 THEN r - 1 ELSE 0]
    BY <1>2, <2>1, Zenon
  <2> QED
    BY <1>2, <2>3, <2>4, Zenon
<1>7. \A c \in Blks : ref'[c] > 0 => ref[c] > 0
  <2>1. ref'[b] > 0 => ref[b] > 0
    BY <1>5, <1>6
  <2> QED
    BY <1>6, <2>1, Zenon
<1>8. HeadersThere'
  BY <1>0, <1>7, HeadersAfter, Zenon
<1>9. /\ io'[t].at = "none" /\ io'[t].op = "READ"
      /\ \A u \in Threads \ {t} : io'[u] = io[u]
  BY <1>0, IdleIs, Zenon DEF JbdInv, JbdTypeOK
<1>10. /\ Cardinality(Users(b)) > 0 /\ Cardinality(Users(b))' = Cardinality(Users(b)) - 1
       /\ \A c \in Blks \ {b} : Users(c)' = Users(c)
  <2>1. Uses(t, b)
    BY <1>1, <1>b, Zenon DEF Uses
  <2> QED
    BY <1>0, <1>9, <2>1, CountsAfter, Zenon
<1>11. stage # "apply" /\ stage' # "apply" /\ Pinned = Range(datablks)
  BY <1>0, <1>1, NobodyCommits, Zenon
<1>12. Pinned' \subseteq Pinned \cup {b}
  <2>2. DOMAIN Log(b) = 1..Len(Log(b))
    BY <1>2, <1>1, <1>b DEF Log
  <2>3. Pinned' \subseteq {Log(b)[i] : i \in 1..Len(Log(b))}
    BY <1>0, Zenon DEF Pinned
  <2>4. Pinned' \subseteq Range(Log(b))
    BY <2>2, <2>3, Zenon DEF Range
  <2> QED
    BY <1>4, <1>11, <2>4, Zenon
<1>13. RefsRight'
  <2>1. /\ "bh->ref > 0" \notin panic
        /\ \A c \in Blks : ref[c] >= Cardinality(Users(c)) + IF c \in Pinned THEN 1 ELSE 0
    BY Zenon DEF RefInv, RefsRight
  <2>2. r > 0 /\ ref'[b] >= Cardinality(Users(b))' + IF b \in Pinned' THEN 1 ELSE 0
    <3>1. PICK k \in Nat, m \in Nat : k = ref[b] /\ m = Cardinality(Users(b))
      BY <1>5, UsersFinite, Zenon
    <3>2. /\ k >= m + (IF b \in Range(datablks) THEN 1 ELSE 0) /\ m > 0
          /\ r = k + (IF b \in Range(datablks) THEN 0 ELSE 1)
      BY <1>5, <1>10, <1>11, <2>1, <3>1, Zenon
    <3>3. r >= m + 1 /\ r \in Nat
      BY <3>2
    <3>4. r > 0 /\ r - 1 >= (m - 1) + 1 /\ r - 1 >= (m - 1) + 0
      BY <3>2, <3>3
    <3>5. ref'[b] = r - 1 /\ Cardinality(Users(b))' = m - 1
      BY <1>6, <1>10, <3>1, <3>4, Zenon
    <3>6. CASE b \in Pinned'
      BY <3>4, <3>5, <3>6, Zenon
    <3>7. CASE b \notin Pinned'
      BY <3>4, <3>5, <3>7, Zenon
    <3> QED
      BY <3>6, <3>7, Zenon
  <2>3. \A c \in Blks \ {b} : ref'[c] >= Cardinality(Users(c))' + IF c \in Pinned' THEN 1 ELSE 0
    <3> SUFFICES ASSUME NEW c \in Blks \ {b}
                 PROVE  ref'[c] >= Cardinality(Users(c))' + IF c \in Pinned' THEN 1 ELSE 0
      OBVIOUS
    <3> QED
      BY <1>2, <1>6, <1>10, <1>12, <2>1, SameUsers, Zenon
  <2>5. "bh->ref > 0" \notin panic'
    <3>1. panic' = panic \cup NotBusy
      BY <1>3, <2>2, Zenon
    <3> QED
      BY <1>1, <2>1, <3>1, Zenon DEF NotBusy
  <2> QED
    BY <2>2, <2>3, <2>5, Zenon DEF RefsRight
<1>14. HeldRight'
  <2>1. pc'[t] \notin Committing /\ \A u \in Threads \ {t} : pc'[u] = pc[u]
    <3>1. pc'[t] = "txn" /\ \A u \in Threads \ {t} : pc'[u] = pc[u]
      BY <1>0, PcIs, Zenon DEF JbdInv
    <3> QED
      BY <3>1 DEF Committing
  <2>2. \A c \in FsBlks : holder'[c] # t /\ holder'[c] \in {holder[c], NULL, t}
    BY <1>0, <1>1, <1>b, OnlyThat, Zenon
  <2> QED
    BY <1>1, <1>9, <2>1, <2>2, HeldStep, Zenon
<1> QED
  BY <1>6, <1>8, <1>11, <1>13, <1>14, Zenon DEF RefInv

\* jbd_write_blk panics: nothing is released.
LEMMA RefJournalFull ==
  ASSUME JbdInv, RefInv, NEW t \in Threads, NEW v, JournalFull(t, v)
  PROVE  RefInv'
<1>0. /\ pc[t] = "modify" /\ pc' = [pc EXCEPT ![t] = "halt"]
      /\ UNCHANGED <<io, ref, nhdr, holder, datablks, stage, idx>>
      /\ panic' = panic \cup NotBusy \cup {"journal is filled up"}
  BY Zenon DEF JournalFull
<1>1. pc'[t] = "halt" /\ \A u \in Threads \ {t} : pc'[u] = pc[u]
  BY <1>0, PcIs, Zenon DEF JbdInv
<1>2. {"modify", "halt"} \cap Committing = {} /\ "release" \in Committing
  BY DEF Committing
<1>3. "bh->ref > 0" \in panic' => "bh->ref > 0" \in panic
  <2>1. "bh->ref > 0" \notin {"journal is filled up", "journal->state == BUSY"}
    OBVIOUS
  <2> QED
    BY <1>0, <2>1, Zenon DEF NotBusy
<1>4. \A b \in FsBlks : HeldAs(t, b) => HeldAs(t, b)'
  BY <1>0, <1>1, <1>2, Zenon DEF HeldAs, Committing
<1>5. (\A b : Uses(t, b)' <=> Uses(t, b)) /\ HeadersThere'
  BY <1>0, HeadersStill, Zenon DEF Uses
<1> QED
  BY <1>0, <1>1, <1>2, <1>3, <1>4, <1>5, RefKept, Zenon

\* A frame that starts or ends without a reference.
LEMMA RefFrame ==
  ASSUME JbdInv, RefInv, NEW t \in Threads, \A u \in Threads \ {t} : io'[u] = io[u],
         \A b : Uses(t, b)' <=> Uses(t, b),
         UNCHANGED <<ref, nhdr, holder, panic, datablks, stage, idx>>,
         NEW l, pc' = [pc EXCEPT ![t] = l], pc[t] \in Committing => l \in Committing,
         \A b \in FsBlks : holder[b] = t /\ HeldAs(t, b) => HeldAs(t, b)'
  PROVE  RefInv'
<1>1. pc'[t] = l /\ \A u \in Threads \ {t} : pc'[u] = pc[u]
  BY PcIs, Zenon DEF JbdInv
<1>2. HeadersThere'
  BY HeadersStill, Zenon
<1> QED
  BY <1>1, <1>2, RefKept, Zenon

\* A thread without a locked block, and outside a commit, has locked none.
LEMMA HoldsNone ==
  ASSUME NEW t, pc[t] \notin Committing, io[t].at # "ok"
  PROVE  \A b : ~HeldAs(t, b)
<1>1. "release" \in Committing
  BY DEF Committing
<1> QED
  BY <1>1, Zenon DEF HeldAs

\* The steps of transactions and commits that neither take nor release a reference.
LEMMA RefJournalSteps ==
  ASSUME JbdInv, RefInv, NEW t \in Threads,
         \/ jbd_begin_txn(t) \/ \E b \in Blks : bdev_get_blk(t, b)
         \/ GetFailed(t) \/ CommitGet(t) \/ CommitFill(t)
  PROVE  RefInv'
<1>f. FrameOK(t) /\ io[t] \in Frames /\ io \in [Threads -> Frames] /\ JbdTypeOK
  BY Zenon DEF JbdInv, JbdTypeOK
<1>l. {"pgcache", "submit"} \subseteq Labels /\ {"fill", "release"} \subseteq Committing
  BY DEF Labels, Busy, Committing
<1>1. CASE jbd_begin_txn(t)
  <2>1. /\ UNCHANGED <<io, ref, nhdr, holder, panic, datablks, stage, idx>>
        /\ pc[t] = "user" /\ pc' = [pc EXCEPT ![t] = "txn"]
    BY <1>1, Zenon DEF jbd_begin_txn, bdevVars, cacheVars
  <2>2. pc[t] \notin Committing
    BY <2>1 DEF Committing
  <2>3. (\A b : Uses(t, b)' <=> Uses(t, b)) /\ \A u \in Threads \ {t} : io'[u] = io[u]
    BY <2>1, Zenon DEF Uses
  <2>4. \A b : ~HeldAs(t, b)
    <3>1. io[t].at # "ok"
      BY <1>f, <2>1 DEF FrameOK
    <3> QED
      BY <2>2, <3>1, HoldsNone, Zenon
  <2> QED
    BY <2>1, <2>2, <2>3, <2>4, RefFrame, Zenon
<1>2. ASSUME NEW b \in Blks, bdev_get_blk(t, b)
      PROVE  RefInv'
  <2> DEFINE l == IF t \in Writers THEN "modify" ELSE "read"
  <2>1. /\ UNCHANGED <<ref, nhdr, holder, panic, datablks, stage, idx>>
        /\ io[t].at = "none" /\ io' = Start(t, "pgcache", b, "READ")
        /\ pc[t] \in {"txn", "user"} /\ pc' = [pc EXCEPT ![t] = l]
    BY <1>2, Zenon DEF bdev_get_blk, cacheVars
  <2>2. pc[t] \notin Committing /\ io[t].op = "READ"
    BY <1>f, <2>1 DEF Committing, FrameOK, Frames
  <2>3. /\ io'[t].at = "pgcache" /\ io'[t].op = "READ"
        /\ \A u \in Threads \ {t} : io'[u] = io[u]
    BY <1>f, <1>l, <2>1, StartIs, Zenon
  <2>4. \A c : Uses(t, c)' <=> Uses(t, c)
    BY <2>1, <2>2, <2>3 DEF Uses
  <2>5. \A c : ~HeldAs(t, c)
    BY <2>1, <2>2, HoldsNone
  <2> QED
    BY <2>1, <2>2, <2>3, <2>4, <2>5, RefFrame, Zenon
<1>3. CASE GetFailed(t)
  <2> DEFINE l == IF t \in Writers THEN "txn" ELSE "user"
  <2>1. /\ UNCHANGED <<ref, nhdr, holder, panic, datablks, stage, idx>>
        /\ io[t].at = "nomem" /\ io' = [io EXCEPT ![t] = Idle]
        /\ pc[t] \in {"modify", "read"} /\ pc' = [pc EXCEPT ![t] = l]
    BY <1>3, Zenon DEF GetFailed, cacheVars
  <2>2. pc[t] \notin Committing /\ io[t].op = "READ"
    BY <1>f, <2>1 DEF Committing, FrameOK, Frames
  <2>3. /\ io'[t].at = "none" /\ io'[t].op = "READ"
        /\ \A u \in Threads \ {t} : io'[u] = io[u]
    BY <1>f, <2>1, IdleIs, Zenon
  <2>4. \A c : Uses(t, c)' <=> Uses(t, c)
    BY <2>1, <2>2, <2>3 DEF Uses
  <2>5. \A c : ~HeldAs(t, c)
    BY <2>1, <2>2, HoldsNone
  <2> QED
    BY <2>1, <2>2, <2>3, <2>4, <2>5, RefFrame, Zenon
<1>4. CASE CommitGet(t)
  <2>1. /\ UNCHANGED <<ref, nhdr, holder, panic, datablks, stage, idx>>
        /\ io' = Start(t, "pgcache", Target, "READ") /\ stage # "apply"
        /\ pc[t] = "get" /\ pc' = [pc EXCEPT ![t] = "fill"]
    BY <1>4, Zenon DEF CommitGet, cacheVars
  <2>2. pc[t] \in Committing /\ io[t].op = "READ" /\ io[t].at = "none"
    BY <1>f, <2>1 DEF Committing, FrameOK, Frames
  <2>3. Target \in Blks
    BY <2>1, <2>2, TargetIs, Zenon
  <2>4. /\ io'[t].at = "pgcache" /\ io'[t].op = "READ"
        /\ \A u \in Threads \ {t} : io'[u] = io[u]
    BY <1>f, <1>l, <2>1, <2>3, StartIs, Zenon
  <2>5. \A c : Uses(t, c)' <=> Uses(t, c)
    BY <2>2, <2>4 DEF Uses
  <2>6. \A c : HeldAs(t, c) => HeldAs(t, c)'
    <3>1. pc'[t] = "fill" /\ pc'[t] # "release" /\ pc[t] # "release" /\ pc'[t] \in Committing
      <4>1. pc'[t] = "fill"
        BY <2>1, PcIs, Zenon DEF JbdInv
      <4> QED
        BY <2>1, <4>1 DEF Committing
    <3> QED
      BY <2>1, <2>2, <3>1, Zenon DEF HeldAs, Committing
  <2> QED
    BY <1>l, <2>1, <2>4, <2>5, <2>6, RefFrame, Zenon
<1>5. CASE CommitFill(t)
  <2>1. /\ UNCHANGED <<ref, nhdr, holder, panic, datablks, stage, idx>>
        /\ io[t].at = "ok" /\ io' = Start(t, "submit", Target, "WRITE")
        /\ pc[t] = "fill" /\ pc' = [pc EXCEPT ![t] = "release"]
    BY <1>5, Zenon DEF CommitFill
  <2>2. /\ pc[t] \in Committing /\ io[t].op = "READ" /\ io[t].blk = Target
        /\ stage # "apply" /\ io[t].blk \in Blks
    BY <1>f, <2>1 DEF Committing, FrameOK, Frames
  <2>4. /\ io'[t].at = "submit" /\ io'[t].op = "WRITE" /\ io'[t].blk = io[t].blk
        /\ \A u \in Threads \ {t} : io'[u] = io[u]
    BY <1>f, <1>l, <2>1, <2>2, StartIs, Zenon
  <2>5. \A c : Uses(t, c)' <=> Uses(t, c)
    <3>1. "WRITE" # "READ"
      OBVIOUS
    <3> QED
      BY <2>1, <2>2, <2>4, <3>1, Zenon DEF Uses
  <2>6. ASSUME NEW c \in FsBlks, holder[c] = t, HeldAs(t, c)
        PROVE  HeldAs(t, c)'
    <3>0. pc'[t] = "release" /\ pc'[t] \in Committing
      <4>1. pc'[t] = "release"
        BY <2>1, PcIs, Zenon DEF JbdInv
      <4> QED
        BY <4>1 DEF Committing
    <3>1. PICK i \in 1..Len(datablks) : stage = "data" /\ datablks[i] = c /\ idx < i
      BY <2>2, <2>6, Zenon DEF HeldAs
    <3>2. t # NULL /\ holder[datablks[idx + 1]] = NULL /\ idx \in Nat /\ Len(datablks) \in Nat
      BY <1>5, <3>1, BdevAssumption, LogFacts, Zenon DEF CommitFill, JbdInv, JbdTypeOK
    <3>3. i # idx + 1
      BY <2>6, <3>1, <3>2, Zenon
    <3>4. idx + 1 < i
      BY <3>1, <3>2, <3>3
    <3> QED
      BY <2>1, <3>0, <3>1, <3>4, Zenon DEF HeldAs, Committing
  <2> QED
    BY <1>l, <2>1, <2>4, <2>5, <2>6, RefFrame, Zenon
<1> QED
  BY <1>1, <1>2, <1>3, <1>4, <1>5, Zenon

\* apply_journal locks a block with the journal's reference to it.
LEMMA RefApplyWrite ==
  ASSUME JbdInv, RefInv, NEW t \in Threads, ApplyWrite(t)
  PROVE  RefInv'
<1>f. FrameOK(t) /\ io[t] \in Frames /\ io \in [Threads -> Frames] /\ JbdTypeOK
  BY Zenon DEF JbdInv, JbdTypeOK
<1>0. stage = "apply" /\ pc[t] = "get" /\ pc[t] \in Committing /\ InTxn(t)
  BY DEF ApplyWrite, Committing, InTxn
<1>1. datablks[idx + 1] \in Blks
  BY <1>0, TargetIs, LogFacts, JournalBlks, Zenon
<1>b. PICK b \in Blks : b = datablks[idx + 1]
  BY <1>1, Zenon
<1>2. /\ UNCHANGED <<ref, nhdr, panic, datablks, stage, idx>>
      /\ io' = Start(t, "submit", b, "WRITE") /\ pc' = [pc EXCEPT ![t] = "release"]
      /\ holder' = [holder EXCEPT ![b] = t]
  BY <1>b, Zenon DEF ApplyWrite
<1>3. /\ io[t].op = "READ" /\ io[t].at = "none" /\ "submit" \in Labels
  BY <1>f, <1>0 DEF FrameOK, Frames, Labels, Busy
<1>4. /\ io'[t].op = "WRITE" /\ io'[t].blk = b /\ \A u \in Threads \ {t} : io'[u] = io[u]
  BY <1>f, <1>2, <1>3, StartIs, Zenon
<1>5. pc'[t] = "release" /\ \A u \in Threads \ {t} : pc'[u] = pc[u]
  BY <1>2, PcIs, Zenon DEF JbdInv
<1>6. holder'[b] = t /\ \A c \in Blks \ {b} : holder'[c] = holder[c]
  BY <1>f, <1>2, Zenon DEF JbdTypeOK
<1>7. \A c : Users(c)' \subseteq Users(c)
  <2>1. \A u \in Threads \ {t} : \A c : Uses(u, c)' <=> Uses(u, c)
    BY <1>0, <1>4, OthersUse, Zenon
  <2>2. \A c : ~Uses(t, c)'
    BY <1>0, <1>2, <1>4 DEF Uses
  <2> QED
    BY <2>1, <2>2, Zenon DEF Users
<1>8. RefsRight' /\ HeadersThere'
  <2>1. Pinned' \subseteq Pinned
    BY <1>0, <1>2, Zenon DEF Pinned
  <2> QED
    BY <1>2, <1>7, <2>1, FewerUses, HeadersStill, Zenon
<1>9. HeldRight'
  <2>1. \A c \in FsBlks : holder[c] # t
    <3>1. \A c : ~HeldAs(t, c)
      BY <1>0 DEF HeldAs
    <3> QED
      BY <3>1, Zenon DEF RefInv, HeldRight
  <2>2. HeldAs(t, b)'
    BY <1>0, <1>2, <1>4, <1>5, Zenon DEF HeldAs
  <2>3. ASSUME NEW c \in FsBlks
        PROVE  /\ holder'[c] \in {holder[c], NULL, t}
               /\ holder'[c] = t => HeldAs(t, c)'
    <3>1. CASE c = b
      BY <1>6, <2>2, <3>1, Zenon
    <3>2. CASE c # b
      BY <1>6, <2>1, <3>2, JournalBlks, Zenon
    <3> QED
      BY <3>1, <3>2, Zenon
  <2> QED
    BY <1>0, <1>4, <1>5, <2>3, HeldStep, Zenon
<1> QED
  BY <1>2, <1>5, <1>8, <1>9, Zenon DEF RefInv, Committing

\* The journal gives up its reference to a block when the block is applied.
LEMMA PinnedNext ==
  ASSUME JbdInv, RefInv, NEW t \in Threads, CommitNext(t), NEW b \in Blks, b = io[t].blk
  PROVE  /\ stage # "apply" => Pinned' \subseteq Pinned
         /\ stage = "apply" => b \in Pinned /\ Pinned' = Pinned \ {b}
         /\ stage' = "apply" => stage # "erase"
<1> DEFINE n == Len(datablks)
<1>0. /\ pc[t] = "release" /\ io[t].at = "ok" /\ pc[t] \in Committing
      /\ stage = "erase" => UNCHANGED <<datablks, stage, idx>>
      /\ stage # "erase" => /\ stage' = NextStage.stage /\ idx' = NextStage.idx
                            /\ datablks' = IF NextStage.stage = "erase" THEN <<>> ELSE datablks
  BY Zenon DEF CommitNext, Committing
<1>1. /\ n \in Nat /\ idx \in Nat /\ stage \in {"data", "bmap", "header", "apply", "erase"}
      /\ datablks = <<>> => n = 0
      /\ \A i, j \in 1..n : datablks[i] = datablks[j] => i = j
  BY LogFacts, CommitIndex, Zenon DEF JbdInv, JbdTypeOK
<1>2. stage = "apply" => idx + 1 \in 1..n /\ b = datablks[idx + 1]
  <2>1. stage = "apply" => idx + 1 \in 1..n
    BY <1>0, TargetIs, Zenon
  <2>2. FrameOK(t)
    BY Zenon DEF JbdInv
  <2> QED
    BY <1>0, <2>1, <2>2, Zenon DEF FrameOK
<1>3. CASE stage = "erase"
  <2>1. datablks' = <<>>
    BY <1>0, <1>3, Zenon DEF JbdInv, CommitOK
  <2>2. 1..Len(datablks') = {}
    BY <2>1
  <2>3. Pinned' = {}
    BY <2>2, Zenon DEF Pinned
  <2>4. stage' # "apply" /\ stage # "apply"
    BY <1>0, <1>3
  <2> QED
    BY <2>3, <2>4, Zenon
<1>4. CASE stage \notin {"erase", "apply"}
  <2>1. datablks' = datablks
    <3>1. NextStage.stage = "erase" => datablks = <<>>
      BY <1>1, <1>4 DEF NextStage
    <3> QED
      BY <1>0, <1>4, <3>1, Zenon
  <2>2. CASE stage' = "apply"
    <3>1. stage = "header"
      <4>1. NextStage.stage = "apply" => stage = "header"
        BY <1>1, <1>4 DEF NextStage, MoreBlks
      <4> QED
        BY <1>0, <1>4, <2>2, <4>1, Zenon
    <3>2. \A i \in 1..n : ~Stuck(i)
      <4>1. stage # "data" /\ stage # "apply"
        BY <3>1
      <4> QED
        BY <4>1, LogFacts, Zenon DEF Stuck, RefInv, HeldRight, HeldAs
    <3>3. Pinned = {datablks[i] : i \in 1..n}
      BY <1>4, <3>2, Zenon DEF Pinned
    <3>4. Pinned' \subseteq {datablks[i] : i \in 1..n}
      BY <2>1, Zenon DEF Pinned
    <3> QED
      BY <1>4, <3>3, <3>4, Zenon
  <2>3. CASE stage' # "apply"
    <3>1. pc'[t] = "get" /\ \A u \in Threads \ {t} : pc'[u] = pc[u]
      <4>1. pc' = [pc EXCEPT ![t] = "get"]
        BY <1>4, Zenon DEF CommitNext
      <4> QED
        BY <4>1, PcIs, Zenon DEF JbdInv
    <3>2. b \notin FsBlks
      <4>1. b = Target
        BY <1>0, <1>4, Zenon DEF JbdInv, FrameOK
      <4> QED
        BY <1>0, <1>4, <4>1, TargetIs, Zenon
    <3>3. \A c \in Blks \ {b} : holder'[c] = holder[c]
      <4>1. holder' = [holder EXCEPT ![b] = NULL]
        BY Zenon DEF CommitNext, ReleaseBlk
      <4> QED
        BY <4>1, Zenon DEF JbdInv, JbdTypeOK
    <3>4. ASSUME NEW i \in 1..n, Stuck(i)
          PROVE  Stuck(i)'
      <4>1. PICK u \in Threads : pc[u] \in Committing /\ holder[datablks[i]] = u
        BY <3>4, Zenon DEF Stuck
      <4>2. pc'[u] \in Committing
        <5>1. "get" \in Committing
          BY DEF Committing
        <5> QED
          BY <3>1, <4>1, <5>1, Zenon
      <4>3. holder'[datablks[i]] = u
        <5>1. datablks[i] \in Blks /\ datablks[i] # b
          BY <3>2, LogFacts, JournalBlks, Zenon
        <5> QED
          BY <3>3, <4>1, <5>1, Zenon
      <4> QED
        BY <2>1, <2>3, <4>2, <4>3, Zenon DEF Stuck, Committing
    <3>5. Pinned' \subseteq Pinned
      BY <1>4, <2>1, <2>3, <3>4, PinnedKept, Zenon
    <3> QED
      BY <1>4, <2>3, <3>5, Zenon
  <2> QED
    BY <2>2, <2>3, Zenon
<1>5. CASE stage = "apply"
  <2>1. b \in Pinned
    <3>1. idx + 1 > idx
      BY <1>1
    <3> QED
      BY <1>2, <1>5, <3>1, Zenon DEF Pinned
  <2>2. CASE idx + 1 < n
    <3>1. NextStage = [stage |-> "apply", idx |-> idx + 1]
      BY <1>5, <2>2, Zenon DEF NextStage, MoreBlks
    <3>2. stage' = "apply" /\ idx' = idx + 1 /\ datablks' = datablks
      <4>1. NextStage.stage = "apply" /\ NextStage.idx = idx + 1
        BY <3>1
      <4>2. stage # "erase" /\ NextStage.stage # "erase"
        BY <1>5, <4>1
      <4> QED
        BY <1>0, <4>1, <4>2, Zenon
    <3>3. \A j \in 1..n : j > idx + 1 <=> j > idx /\ j # idx + 1
      BY <1>1
    <3>4. Pinned' = {datablks[i] : i \in {j \in 1..n : j > idx + 1}}
      BY <3>2, Zenon DEF Pinned
    <3>5. Pinned = {datablks[i] : i \in {j \in 1..n : j > idx}}
      BY <1>5, Zenon DEF Pinned
    <3>6. Pinned' = Pinned \ {b}
      <4>0. idx + 1 \in 1..n /\ b = datablks[idx + 1]
        BY <1>2, <1>5, Zenon
      <4>1. ASSUME NEW x \in Pinned'
            PROVE  x \in Pinned /\ x # b
        <5>1. PICK i \in 1..n : i > idx + 1 /\ x = datablks[i]
          BY <3>4, <4>1, Zenon
        <5>2. i > idx /\ i # idx + 1
          BY <3>3, <5>1, Zenon
        <5>3. x \in Pinned
          BY <3>5, <5>1, <5>2, Zenon
        <5> QED
          BY <1>1, <4>0, <5>1, <5>2, <5>3, Zenon
      <4>2. ASSUME NEW x \in Pinned, x # b
            PROVE  x \in Pinned'
        <5>1. PICK i \in 1..n : i > idx /\ x = datablks[i]
          BY <3>5, <4>2, Zenon
        <5>2. i > idx + 1
          BY <3>3, <4>0, <4>2, <5>1, Zenon
        <5> QED
          BY <3>4, <5>1, <5>2, Zenon
      <4> QED
        BY <4>1, <4>2, Zenon
    <3> QED
      BY <1>5, <2>1, <3>6
  <2>3. CASE ~(idx + 1 < n)
    <3>1. \A j \in 1..n : j > idx => j = idx + 1
      BY <1>1, <1>2, <1>5, <2>3
    <3>2. Pinned \subseteq {b}
      BY <1>2, <1>5, <3>1, Zenon DEF Pinned
    <3>3. NextStage.stage = "erase"
      BY <1>5, <2>3 DEF NextStage, MoreBlks
    <3>4. datablks' = <<>> /\ stage # "erase"
      BY <1>0, <1>5, <3>3
    <3>5. Pinned' = {}
      <4>1. 1..Len(datablks') = {}
        BY <3>4
      <4> QED
        BY <4>1, Zenon DEF Pinned
    <3> QED
      BY <1>5, <2>1, <3>2, <3>4, <3>5, Zenon
  <2> QED
    BY <2>2, <2>3, Zenon
<1> QED
  BY <1>1, <1>3, <1>4, <1>5, Zenon

\* The commit releases the block it has written.
LEMMA RefCommitNext ==
  ASSUME JbdInv, RefInv, NEW t \in Threads, CommitNext(t)
  PROVE  RefInv'
<1>1. /\ io[t].op = "WRITE" /\ io[t].blk \in Blks /\ pc[t] = "release" /\ io[t].at = "ok"
      /\ InTxn(t)
  <2>1. FrameOK(t) /\ pc[t] = "release" /\ io[t].at = "ok"
    BY Zenon DEF JbdInv, CommitNext
  <2> QED
    BY <2>1 DEF FrameOK, InTxn, Committing
<1>b. PICK b \in Blks : b = io[t].blk
  BY <1>1, Zenon
<1>0. /\ ref' = [ref EXCEPT ![b] = IF @ > 0 THEN @ - 1 ELSE 0]
      /\ panic' = IF ref[b] > 0 THEN panic ELSE panic \cup {"bh->ref > 0"}
      /\ \/ nhdr' = nhdr
         \/ nhdr' = [nhdr EXCEPT ![PageOf(b)] = 0] /\ \A c \in BlksIn(PageOf(b)) : ref'[c] = 0
      /\ io' = [io EXCEPT ![t] = Idle] /\ holder' = [holder EXCEPT ![b] = NULL]
  BY <1>b, Zenon DEF CommitNext, ReleaseBlk
<1>2. ref \in [Blks -> Nat]
  BY Zenon DEF RefInv
<1>3. /\ ref' \in [Blks -> Nat]
      /\ ref[b] > 0 => ref'[b] = ref[b] - 1
      /\ \A c \in Blks \ {b} : ref'[c] = ref[c]
      /\ \A c \in Blks : ref'[c] > 0 => ref[c] > 0
  <2>1. ref' = [ref EXCEPT ![b] = IF @ > 0 THEN @ - 1 ELSE 0]
    BY <1>0, Zenon
  <2> QED
    BY <1>2, <2>1
<1>4. /\ io'[t].at = "none" /\ io'[t].op = "READ"
      /\ \A u \in Threads \ {t} : io'[u] = io[u]
  BY <1>0, IdleIs, Zenon DEF JbdInv, JbdTypeOK
<1>5. HeadersThere'
  BY <1>0, <1>3, HeadersAfter, Zenon
<1>6. /\ stage # "apply" => Pinned' \subseteq Pinned
      /\ stage = "apply" => b \in Pinned /\ Pinned' = Pinned \ {b}
      /\ stage' = "apply" => stage # "erase"
  BY <1>b, PinnedNext, Zenon
<1>7. stage # "apply" =>
        /\ Cardinality(Users(b)) > 0 /\ Cardinality(Users(b))' = Cardinality(Users(b)) - 1
        /\ \A c \in Blks \ {b} : Users(c)' = Users(c)
  <2>1. stage # "apply" => Uses(t, b)
    <3>1. io[t].op # "READ"
      BY <1>1
    <3> QED
      BY <1>b, <3>1, Zenon DEF Uses
  <2> QED
    BY <1>1, <1>4, <2>1, CountsAfter, Zenon
<1>8. stage = "apply" => \A c : Users(c)' = Users(c)
  <2>1. \A u \in Threads \ {t} : \A c : Uses(u, c)' <=> Uses(u, c)
    BY <1>1, <1>4, OthersUse, Zenon
  <2>2. stage = "apply" => \A c : ~Uses(t, c) /\ ~Uses(t, c)'
    BY <1>1, <1>4 DEF Uses
  <2> QED
    BY <2>1, <2>2, Zenon DEF Users
<1>9. RefsRight'
  <2>1. /\ "bh->ref > 0" \notin panic
        /\ \A c \in Blks : ref[c] >= Cardinality(Users(c)) + IF c \in Pinned THEN 1 ELSE 0
    BY Zenon DEF RefInv, RefsRight
  <2>2. ref[b] > 0 /\ ref'[b] >= Cardinality(Users(b))' + IF b \in Pinned' THEN 1 ELSE 0
    <3>1. CASE stage # "apply"
      BY <1>2, <1>3, <1>6, <1>7, <2>1, <3>1, OneLess, Zenon
    <3>2. CASE stage = "apply"
      <4>1. Users(b)' = Users(b) /\ b \in Pinned /\ b \notin Pinned'
        BY <1>6, <1>8, <3>2, Zenon
      <4>2. PICK r \in Nat, m \in Nat : r = ref[b] /\ m = Cardinality(Users(b))
        BY <1>2, UsersFinite, Zenon
      <4>3. r >= m + 1
        BY <2>1, <4>1, <4>2, Zenon
      <4>4. r > 0 /\ r - 1 >= m + 0
        BY <4>3
      <4>5. ref'[b] = r - 1 /\ Cardinality(Users(b))' = m
        BY <1>3, <4>1, <4>2, <4>4, Zenon
      <4> QED
        BY <4>1, <4>2, <4>4, <4>5, Zenon
    <3> QED
      BY <3>1, <3>2, Zenon
  <2>3. \A c \in Blks \ {b} : ref'[c] >= Cardinality(Users(c))' + IF c \in Pinned' THEN 1 ELSE 0
    <3> SUFFICES ASSUME NEW c \in Blks \ {b}
                 PROVE  ref'[c] >= Cardinality(Users(c))' + IF c \in Pinned' THEN 1 ELSE 0
      OBVIOUS
    <3>1. Users(c)' = Users(c) /\ (c \in Pinned' => c \in Pinned)
      BY <1>6, <1>7, <1>8, Zenon
    <3> QED
      BY <1>2, <1>3, <2>1, <3>1, SameUsers, Zenon
  <2>6. "bh->ref > 0" \notin panic'
    BY <1>0, <2>1, <2>2, Zenon
  <2> QED
    BY <2>2, <2>3, <2>6, Zenon DEF RefsRight
<1>h. HeldRight'
  <2>0. holder'[b] = NULL /\ t # NULL /\ \A c \in Blks \ {b} : holder'[c] = holder[c]
    BY <1>0, BdevAssumption, Zenon DEF JbdInv, JbdTypeOK
  <2>1. ASSUME NEW c \in FsBlks, holder'[c] = t
        PROVE  HeldAs(t, c)'
    <3>1. c # b /\ holder[c] = t
      BY <2>0, <2>1, JournalBlks, Zenon
    <3>2. HeldAs(t, c) /\ pc[t] \in Committing
      BY <1>1, <3>1, Zenon DEF RefInv, HeldRight, Committing
    <3>3. PICK i \in 1..Len(datablks) : stage = "data" /\ datablks[i] = c /\ idx + 1 < i
      BY <1>1, <1>b, <3>1, <3>2, Zenon DEF HeldAs
    <3>4. idx + 1 < Len(datablks)
      <4>1. idx \in Nat /\ Len(datablks) \in Nat
        BY LogFacts, Zenon DEF JbdInv, JbdTypeOK
      <4> QED
        BY <3>3, <4>1
    <3>5. NextStage = [stage |-> "data", idx |-> idx + 1]
      BY <3>3, <3>4, Zenon DEF NextStage, MoreBlks
    <3>6. stage' = "data" /\ idx' = idx + 1 /\ datablks' = datablks /\ pc' = [pc EXCEPT ![t] = "get"]
      <4>1. NextStage.stage = "data" /\ NextStage.idx = idx + 1
        BY <3>5
      <4>2. stage # "erase" /\ NextStage.stage # "erase"
        BY <3>3, <4>1
      <4> QED
        BY <4>1, <4>2, Zenon DEF CommitNext
    <3>7. pc'[t] = "get" /\ pc'[t] \in Committing /\ pc'[t] # "release"
      <4>1. pc'[t] = "get"
        BY <3>6, PcIs, Zenon DEF JbdInv
      <4> QED
        BY <4>1 DEF Committing
    <3> QED
      BY <3>3, <3>6, <3>7, Zenon DEF HeldAs, Committing
  <2>2. \A c \in FsBlks : holder'[c] \in {holder[c], NULL, t}
    BY <2>0, JournalBlks, Zenon
  <2>3. \A u \in Threads \ {t} : pc'[u] = pc[u]
    BY DEF CommitNext, JbdInv, JbdTypeOK
  <2> QED
    BY <1>1, <1>4, <2>1, <2>2, <2>3, HeldStep, Zenon
<1>10. stage' = "apply" => \E u \in Threads : pc'[u] \in Committing
  <2>1. stage # "erase" => pc' = [pc EXCEPT ![t] = "get"]
    BY Zenon DEF CommitNext
  <2>2. stage # "erase" => pc'[t] = "get"
    BY <2>1, PcIs, Zenon DEF JbdInv
  <2> QED
    BY <1>6, <2>2, Zenon DEF Committing
<1> QED
  BY <1>3, <1>5, <1>9, <1>10, <1>h, Zenon DEF RefInv, Committing

\* A commit is tried again: a block whose write failed stays locked, and the log refers to
\* no more blocks than before.
LEMMA RefCommitRetry ==
  ASSUME JbdInv, RefInv, NEW t \in Threads, CommitRetry(t)
  PROVE  RefInv'
<1>0. /\ pc[t] \in {"fill", "release"} /\ io' = [io EXCEPT ![t] = Idle]
      /\ pc' = [pc EXCEPT ![t] = "get"] /\ UNCHANGED <<ref, nhdr, holder, panic, datablks>>
      /\ stage' = (IF datablks = <<>> THEN "header" ELSE "data") /\ idx' = 0
  BY Zenon DEF CommitRetry, cacheVars
<1>1. FrameOK(t) /\ LockOK(t) /\ pc[t] \in Committing /\ InTxn(t)
  BY <1>0 DEF JbdInv, InTxn, Committing
<1>2. /\ io'[t].at = "none" /\ io'[t].op = "READ"
      /\ \A u \in Threads \ {t} : io'[u] = io[u]
  BY <1>0, IdleIs, Zenon DEF JbdInv, JbdTypeOK
<1>3. /\ pc'[t] \in Committing /\ pc'[t] # "release" /\ \A u \in Threads \ {t} : pc'[u] = pc[u]
  <2>1. pc'[t] = "get" /\ \A u \in Threads \ {t} : pc'[u] = pc[u]
    BY <1>0, PcIs, Zenon DEF JbdInv
  <2> QED
    BY <2>1 DEF Committing
<1>4. stage' # "apply" /\ (datablks # <<>> => stage' = "data")
  BY <1>0
<1>5. \A c : Users(c)' \subseteq Users(c)
  <2>1. \A u \in Threads \ {t} : \A c : Uses(u, c)' <=> Uses(u, c)
    BY <1>1, <1>2, OthersUse, Zenon
  <2>2. \A c : ~Uses(t, c)'
    BY <1>2 DEF Uses
  <2> QED
    BY <2>1, <2>2, Zenon DEF Users
<1>6. /\ Len(datablks) \in Nat /\ idx \in Nat /\ (datablks = <<>> => 1..Len(datablks) = {})
      /\ \A i \in 1..Len(datablks) : 0 < i
  <2>1. Len(datablks) \in Nat /\ idx \in Nat /\ datablks \in Seq(WriteBlks)
    BY LogFacts, Zenon DEF JbdInv, JbdTypeOK
  <2> QED
    BY <2>1
<1>7. stage = "apply" => /\ idx + 1 \in 1..Len(datablks) /\ holder[datablks[idx + 1]] = t
                         /\ io[t].blk = datablks[idx + 1]
  <2>1. stage = "apply" => pc[t] = "release" /\ io[t].op = "WRITE" /\ io[t].blk = datablks[idx + 1]
    BY <1>0, <1>1 DEF FrameOK
  <2>2. stage = "apply" => idx + 1 \in 1..Len(datablks)
    BY <1>1, TargetIs, Zenon
  <2>3. stage = "apply" => holder[io[t].blk] = t
    BY <1>1, <2>1, Zenon DEF LockOK
  <2> QED
    BY <2>1, <2>2, <2>3, Zenon
<1>8. Pinned' \subseteq Pinned
  <2>1. CASE stage # "apply"
    <3>1. \A i \in 1..Len(datablks) : Stuck(i) => Stuck(i)'
      BY <1>0, <1>3, <1>4, Zenon DEF Stuck, Committing
    <3> QED
      BY <1>0, <1>4, <2>1, <3>1, PinnedKept, Zenon
  <2>2. CASE stage = "apply"
    <3>1. PICK k \in 1..Len(datablks) : k = idx + 1 /\ holder[datablks[k]] = t
      BY <1>7, <2>2, Zenon
    <3>2. Stuck(k)'
      BY <1>0, <1>3, <1>4, <3>1, Zenon DEF Stuck, Committing
    <3>3. Pinned' \subseteq {datablks[i] : i \in {j \in 1..Len(datablks) : j >= k}}
      BY <1>0, <1>4, <3>2, Zenon DEF Pinned
    <3>4. \A j \in 1..Len(datablks) : j >= k => j > idx
      BY <1>6, <3>1
    <3>5. Pinned = {datablks[i] : i \in {j \in 1..Len(datablks) : j > idx}}
      BY <2>2, Zenon DEF Pinned
    <3> QED
      BY <3>3, <3>4, <3>5, Zenon
  <2> QED
    BY <2>1, <2>2, Zenon
<1>9. RefsRight' /\ HeadersThere'
  BY <1>0, <1>5, <1>8, FewerUses, HeadersStill, Zenon
<1>10. HeldRight'
  <2>1. ASSUME NEW c \in FsBlks, holder[c] = t
        PROVE  HeldAs(t, c)'
    <3>1. HeldAs(t, c)
      BY <2>1, Zenon DEF RefInv, HeldRight
    <3>2. PICK i \in 1..Len(datablks) : datablks[i] = c
      BY <1>1, <1>7, <3>1, Zenon DEF HeldAs
    <3>3. stage' = "data" /\ idx' < i
      <4>1. datablks # <<>>
        BY <1>6, <3>2, Zenon
      <4> QED
        BY <1>0, <1>4, <1>6, <4>1, Zenon
    <3> QED
      BY <1>0, <1>3, <3>2, <3>3, Zenon DEF HeldAs, Committing
  <2>2. /\ \A c \in FsBlks : holder'[c] \in {holder[c], NULL, t}
        /\ \A c \in FsBlks : holder'[c] = t => HeldAs(t, c)'
    BY <1>0, <2>1, Zenon
  <2> QED
    BY <1>1, <1>2, <1>3, <2>2, HeldStep, Zenon
<1> QED
  BY <1>0, <1>4, <1>9, <1>10, Zenon DEF RefInv

\* The commit begins, or is refused: the log is what the journal refers to.
LEMMA RefEnd ==
  ASSUME JbdInv, RefInv, NEW t \in Threads, jbd_end_txn(t)
  PROVE  RefInv'
<1>0. /\ pc[t] = "txn" /\ UNCHANGED <<io, ref, nhdr, holder, datablks>> /\ stage' = "data"
      /\ \A u \in Threads \ {t} : pc'[u] = pc[u]
  BY DEF jbd_end_txn, cacheVars, JbdInv, JbdTypeOK
<1>1. InTxn(t) /\ pc[t] \notin Committing
  BY <1>0 DEF InTxn, Committing
<1>2. stage # "apply" /\ stage' # "apply" /\ Pinned = Range(datablks)
  BY <1>0, <1>1, NobodyCommits
<1>3. \A b : Users(b)' \subseteq Users(b)
  BY <1>0, <1>2, Zenon DEF Users, Uses
<1>4. Pinned' \subseteq Pinned
  <2>1. DOMAIN datablks = 1..Len(datablks)
    <3>1. datablks \in Seq(WriteBlks)
      BY Zenon DEF JbdInv, JbdTypeOK
    <3> QED
      BY <3>1
  <2> QED
    BY <1>0, <1>2, <2>1, Zenon DEF Pinned, Range
<1>5. "bh->ref > 0" \in panic' => "bh->ref > 0" \in panic
  <2>0. panic' = panic \cup NotBusy \cup {x \in {"next_index < JOURNAL_SIZE"} :
                                             Len(datablks) >= JOURNAL_SIZE}
    BY Zenon DEF jbd_end_txn
  <2>1. jstate = "BUSY"
    BY <1>1, Zenon DEF JbdInv, TxnAlone
  <2>2. "bh->ref > 0" \notin {x \in {"next_index < JOURNAL_SIZE"} : Len(datablks) >= JOURNAL_SIZE}
    OBVIOUS
  <2> QED
    BY <2>0, <2>1, <2>2, Zenon DEF NotBusy
<1>6. RefsRight' /\ HeadersThere'
  BY <1>0, <1>3, <1>4, <1>5, FewerUses, HeadersStill, Zenon
<1>7. HeldRight'
  <2>1. io[t].at # "ok"
    BY <1>0 DEF JbdInv, FrameOK
  <2>2. \A c \in FsBlks : holder'[c] # t /\ holder'[c] \in {holder[c], NULL, t}
    BY <1>0, <1>1, <2>1, HoldsNone, Zenon DEF RefInv, HeldRight
  <2> QED
    BY <1>0, <1>1, <2>2, HeldStep, Zenon
<1> QED
  BY <1>0, <1>2, <1>6, <1>7, Zenon DEF RefInv

\* After the machine has stopped there are no headers and no references.
LEMMA RefCrash ==
  ASSUME JbdInv, RefInv, Crash
  PROVE  RefInv'
<1>0. /\ ref' = [b \in Blks |-> 0] /\ io' = [t \in Threads |-> Idle] /\ panic' = {}
      /\ datablks' = <<>> /\ stage' = "data" /\ holder' = [b \in Blks |-> NULL]
  BY Zenon DEF Crash
<1>1. \A t \in Threads : io'[t].at = "none" /\ io'[t].op = "READ"
  BY <1>0 DEF Idle
<1>2. \A b : Users(b)' = {} /\ Cardinality(Users(b))' = 0
  <2>1. \A b : Users(b)' = {}
    <3>1. \A t \in Threads : \A b : ~Uses(t, b)'
      BY <1>1 DEF Uses
    <3> QED
      BY <3>1, Zenon DEF Users
  <2>2. \A b : Cardinality(Users(b))' = Cardinality(Users(b)')
    OBVIOUS
  <2> QED
    BY <2>1, <2>2, FS_EmptySet, Zenon
<1>3. Pinned' = {} /\ stage' # "apply"
  <2>1. 1..Len(datablks') = {} /\ stage' # "apply"
    BY <1>0
  <2> QED
    BY <2>1, Zenon DEF Pinned
<1>4. ref' \in [Blks -> Nat] /\ \A b \in Blks : ref'[b] = 0
  BY <1>0
<1>5. ~(0 > 0) /\ 0 >= 0 + 0
  OBVIOUS
<1>6. RefsRight'
  <2>1. "bh->ref > 0" \notin panic'
    BY <1>0, Zenon
  <2>2. \A b \in Blks : ref'[b] >= Cardinality(Users(b))' + IF b \in Pinned' THEN 1 ELSE 0
    BY <1>2, <1>3, <1>4, <1>5, Zenon
  <2> QED
    BY <2>1, <2>2, Zenon DEF RefsRight
<1>7. HeadersThere' /\ HeldRight'
  <2>1. \A b \in FsBlks : holder'[b] = NULL
    BY <1>0, JournalBlks, Zenon
  <2> QED
    BY <1>4, <1>5, <2>1, BdevAssumption, Zenon DEF HeadersThere, HeldRight
<1> QED
  BY <1>3, <1>4, <1>6, <1>7, Zenon DEF RefInv

\* At boot there are none either.
LEMMA RefInit ==
  ASSUME Init
  PROVE  RefInv
<1>0. /\ ref = [b \in Blks |-> 0] /\ io = [t \in Threads |-> Idle]
      /\ panic = {} /\ datablks = <<>> /\ stage = "data" /\ holder = [b \in Blks |-> NULL]
  BY Zenon DEF Init, Boot, Mount
<1>1. \A t \in Threads : io[t].at = "none" /\ io[t].op = "READ"
  BY <1>0 DEF Idle
<1>2. \A b : Cardinality(Users(b)) = 0
  <2>1. \A b : Users(b) = {}
    <3>1. \A t \in Threads : \A b : ~Uses(t, b)
      BY <1>1 DEF Uses
    <3> QED
      BY <3>1, Zenon DEF Users
  <2> QED
    BY <2>1, FS_EmptySet, Zenon
<1>3. Pinned = {} /\ stage # "apply"
  <2>1. 1..Len(datablks) = {} /\ stage # "apply"
    BY <1>0
  <2> QED
    BY <2>1, Zenon DEF Pinned
<1>4. ref \in [Blks -> Nat] /\ \A b \in Blks : ref[b] = 0
  BY <1>0
<1>5. ~(0 > 0) /\ 0 >= 0 + 0
  OBVIOUS
<1>6. RefsRight
  BY <1>0, <1>2, <1>3, <1>4, <1>5, Zenon DEF RefsRight
<1>7. HeadersThere /\ HeldRight
  <2>1. \A b \in FsBlks : holder[b] = NULL
    BY <1>0, JournalBlks, Zenon
  <2> QED
    BY <1>4, <1>5, <2>1, BdevAssumption, Zenon DEF HeadersThere, HeldRight
<1> QED
  BY <1>3, <1>4, <1>6, <1>7, Zenon DEF RefInv

\* Every step keeps the references counted.
LEMMA RefNext ==
  ASSUME JbdInv, RefInv, [Next]_vars
  PROVE  RefInv'
<1>0. Writers \subseteq Threads /\ Readers \subseteq Threads
      /\ WriteBlks \subseteq Blks /\ ReadBlks \subseteq Blks
  BY JbdAssumption, JournalBlks, Zenon
<1>1. ASSUME NEW t \in Writers, WriterStep(t)
      PROVE  RefInv'
  BY <1>0, <1>1, RefJournalSteps, RefWriteBlk, RefJournalFull, RefEnd, RefApplyWrite,
     RefCommitNext, RefCommitRetry, Zenon DEF WriterStep
<1>2. ASSUME NEW t \in Readers, ReaderStep(t)
      PROVE  RefInv'
  BY <1>0, <1>2, RefJournalSteps, RefReadBlk, Zenon DEF ReaderStep
<1>3. ASSUME NEW t \in Threads, BdevStep(t), UNCHANGED jbdVars
      PROVE  RefInv'
  BY <1>3, RefCacheSteps, RefNoMem, RefBlkHeader, RefBlkLock, Zenon DEF BdevStep
<1>4. ASSUME Hardware, UNCHANGED jbdVars
      PROVE  RefInv'
  <2>1. UNCHANGED <<io, ref, nhdr, holder, panic, pc, datablks, stage, idx>>
    BY <1>4, Zenon DEF Hardware, Controller, ide_trap_handler, cacheVars, jbdVars
  <2> QED
    BY <2>1, RefStill, Zenon
<1>5. ASSUME UNCHANGED vars
      PROVE  RefInv'
  <2>1. UNCHANGED <<io, ref, nhdr, holder, panic, pc, datablks, stage, idx>>
    BY <1>5, Zenon DEF vars, bdevVars, cacheVars, jbdVars
  <2> QED
    BY <2>1, RefStill, Zenon
<1> QED
  BY <1>1, <1>2, <1>3, <1>4, <1>5, RefJournalSteps, RefCrash, Zenon DEF Next

\* bh->ref counts at least the threads and the journal that use a block's header, whatever
\* allocation fails, and a header with a reference is in its page's list: free_blk_headers
\* frees none in use.
THEOREM ReferencesCounted == Spec => []RefInv
<1>1. Init => RefInv
  BY RefInit, Zenon
<1>2. JbdInv /\ RefInv /\ [Next]_vars => RefInv'
  BY RefNext, Zenon
<1> QED
  BY <1>1, <1>2, JbdInvariance, PTL DEF Spec

\* Of the assertions and panics of the block cache and the journal, those on bh->ref, on
\* the page cache and on the journal's state are never hit; those on the journal's size only
\* by a transaction that fills it, and bdev_get_blk misses a header only after
\* init_blk_headers has failed.
THEOREM PanicCauses == Spec => []AssertionsHold
<1>1. JbdInv /\ RefInv => AssertionsHold
  <2> SUFFICES ASSUME JbdInv, RefInv
               PROVE  AssertionsHold
    OBVIOUS
  <2>1. /\ panic \subseteq JournalPanics \cup {"bdev block not found in page"}
        /\ panic \cap JournalPanics # {} => \E t \in Threads : pc[t] = "halt"
        /\ "bdev block not found in page" \in panic => ShortList
    BY Zenon DEF JbdInv, NoPanic, RefInv, RefsRight
  <2>2. panic \cap JournalPanics # {} => Len(datablks) = JOURNAL_SIZE
    BY <2>1, Zenon DEF JbdInv, TxnAlone, LogBound
  <2>3. ShortList => "headers" \in Range(fails)
    <3>1. DOMAIN fails = 1..Len(fails)
      <4>1. fails \in Seq({"page", "headers", "bio"})
        BY Zenon DEF JbdInv, JbdTypeOK
      <4> QED
        BY <4>1
    <3> QED
      BY <3>1, Zenon DEF ShortList, Range
  <2>4. panic \subseteq {"journal is filled up", "next_index < JOURNAL_SIZE",
                         "bdev block not found in page"}
    BY <2>1, Zenon DEF JournalPanics
  <2> QED
    BY <2>1, <2>2, <2>3, <2>4, Zenon DEF AssertionsHold, JournalPanics
<1> QED
  BY <1>1, JbdInvariance, ReferencesCounted, PTL
==============================================================================
