-------------------------- MODULE AtomicDiskProofs --------------------------
(***************************************************************************)
(* The journal implements AtomicDisk, for any number of threads and any     *)
(* size of disk, page, journal and transaction: what a recovery from the    *)
(* disk of Jbd would restore has all of a transaction or nothing of it.     *)
(***************************************************************************)
EXTENDS JbdProofs

(***************************************************************************)
(* Recovery.                                                                *)
(***************************************************************************)

\* The journal counts no block: recovery leaves the disk as it is.
LEMMA RecoveredEmpty ==
  ASSUME NEW d, d[H] = 0
  PROVE  Recovered(d) = [b \in FsBlks |-> d[b]]
<1>1. \A b \in FsBlks : {i \in 1..d[H] : i <= Len(d[M]) /\ d[M][i] = b} = {}
  OBVIOUS
<1> QED
  BY <1>1, Zenon DEF Recovered, H, M

\* The journal counts n blocks: recovery takes these from the journal.
LEMMA RecoveredLogged ==
  ASSUME NEW d, NEW s \in Seq(FsBlks), IsInjective(s), d[H] = Len(s), d[M] = s
  PROVE  /\ Recovered(d) = [b \in FsBlks |-> Recovered(d)[b]]
         /\ \A i \in 1..Len(s) : Recovered(d)[s[i]] = d[D(i)]
         /\ \A b \in FsBlks \ Range(s) : Recovered(d)[b] = d[b]
<1> DEFINE at(b) == {i \in 1..d[H] : i <= Len(d[M]) /\ d[M][i] = b}
           rec(b) == IF at(b) = {} THEN d[b] ELSE d[D(CHOOSE i \in at(b) : TRUE)]
<1>1. Recovered(d) = [b \in FsBlks |-> rec(b)]
  BY Zenon DEF Recovered, H, M, D
<1>2. /\ Len(s) \in Nat /\ DOMAIN s = 1..Len(s)
      /\ \A i \in 1..Len(s) : s[i] \in FsBlks /\ i <= Len(s)
  OBVIOUS
<1>3. ASSUME NEW i \in 1..Len(s)
      PROVE  Recovered(d)[s[i]] = d[D(i)]
  <2>1. at(s[i]) = {i}
    BY <1>2, Zenon DEF IsInjective
  <2>2. (CHOOSE j \in {i} : TRUE) = i
    OBVIOUS
  <2>3. {i} # {}
    BY Zenon
  <2>4. rec(s[i]) = d[D(i)]
    BY <2>1, <2>2, <2>3, Zenon
  <2> QED
    BY <1>1, <1>2, <2>4, Zenon
<1>4. ASSUME NEW b \in FsBlks \ Range(s)
      PROVE  Recovered(d)[b] = d[b]
  <2>1. at(b) = {}
    BY <1>2, Zenon DEF Range
  <2> QED
    BY <1>1, <2>1, Zenon
<1>5. Recovered(d) = [b \in FsBlks |-> Recovered(d)[b]]
  BY <1>1, Zenon
<1> QED
  BY <1>3, <1>4, <1>5, Zenon

(***************************************************************************)
(* The journal implements AtomicDisk.                                       *)
(***************************************************************************)

\* Recovery and the open transaction, unfolded.
LEMMA MappingIs ==
  /\ Recovered(disk)' = Recovered(disk')
  /\ Uncommitted = [b \in IF disk[H] > 0 THEN {} ELSE Range(datablks) |-> mem[b]]
  /\ Uncommitted' = [b \in IF disk'[H] > 0 THEN {} ELSE Range(datablks') |-> mem'[b]]
  /\ DOMAIN Uncommitted = IF disk[H] > 0 THEN {} ELSE Range(datablks)
<1>1. Recovered(disk)' = Recovered(disk')
  BY Zenon DEF Recovered
<1>2. Uncommitted = [b \in IF disk[H] > 0 THEN {} ELSE Range(datablks) |-> mem[b]]
  BY Zenon DEF Uncommitted, H
<1>3. Uncommitted' = [b \in IF disk'[H] > 0 THEN {} ELSE Range(datablks') |-> mem'[b]]
  BY Zenon DEF Uncommitted, H, Range
<1>4. DOMAIN Uncommitted = IF disk[H] > 0 THEN {} ELSE Range(datablks)
  BY <1>2, Zenon
<1> QED
  BY <1>1, <1>2, <1>3, <1>4, Zenon

\* A step that changes neither the disk nor what is logged is invisible.
LEMMA Invisible ==
  ASSUME UNCHANGED <<disk, datablks>>, \A b \in Range(datablks) : mem'[b] = mem[b]
  PROVE  UNCHANGED <<Recovered(disk), Uncommitted>>
<1>1. disk' = disk /\ datablks' = datablks
  BY Zenon
<1>2. Uncommitted' = Uncommitted
  BY <1>1, MappingIs, Zenon
<1> QED
  BY <1>1, <1>2, MappingIs, Zenon

\* The members of a sequence.
LEMMA RangeIs ==
  ASSUME NEW S, NEW s \in Seq(S)
  PROVE  \A c \in Range(s) : \E i \in 1..Len(s) : c = s[i]
<1>1. DOMAIN s = 1..Len(s)
  OBVIOUS
<1> QED
  BY <1>1, Zenon DEF Range

\* jbd_write_blk writes one block of the transaction: the header counts none yet.
LEMMA WriteIsWrite ==
  ASSUME JbdInv, NEW t \in Threads, NEW v \in Vals, jbd_write_blk(t, v)
  PROVE  \E b \in FsBlks : Atomic!Write(b, v)
<1> DEFINE b == io[t].blk
<1>0. /\ pc[t] = "modify" /\ mem' = [mem EXCEPT ![b] = v] /\ datablks' = Log(b)
      /\ disk' = disk
  BY Zenon DEF jbd_write_blk, ioVars
<1>1. b \in WriteBlks /\ b \in FsBlks /\ b \in Blks
  <2>1. b \in WriteBlks
    BY <1>0, Zenon DEF JbdInv, FrameOK
  <2> QED
    BY <2>1, JournalBlks, Zenon
<1>2. disk[H] = 0
  BY <1>0, JournalEmpty DEF Committing, InTxn
<1>3. ~(disk[H] > 0)
  BY <1>2, SMTT(30)
<1>4. datablks \in Seq(WriteBlks) /\ IsInjective(datablks) /\ mem = [c \in Blks |-> mem[c]]
  BY Zenon DEF JbdInv, JbdTypeOK, JournalRight
<1>5. Range(datablks') = Range(datablks) \cup {b}
  <2>1. CASE b \in Range(datablks)
    BY <1>0, <2>1, Zenon DEF Log
  <2>2. CASE b \notin Range(datablks)
    <3>1. datablks' = Append(datablks, b)
      BY <1>0, <2>2, Zenon DEF Log
    <3>2. Range(Append(datablks, b)) = Range(datablks) \cup {b}
      BY <1>1, <1>4, <2>2, AppendFacts
    <3> QED
      BY <3>1, <3>2, Zenon
  <2> QED
    BY <2>1, <2>2, Zenon
<1>6. \A c \in Range(datablks) : c \in Blks
  BY <1>4, JournalBlks DEF Range
<1>7. mem'[b] = v /\ \A c \in Range(datablks) : c # b => mem'[c] = mem[c]
  BY <1>0, <1>1, <1>4, <1>6, Zenon
<1>8. Uncommitted = [c \in Range(datablks) |-> mem[c]] /\ DOMAIN Uncommitted = Range(datablks)
  BY <1>3, MappingIs, Zenon
<1>9. Uncommitted' = [c \in Range(datablks) \cup {b} |-> mem'[c]]
  BY <1>0, <1>3, <1>5, MappingIs, Zenon
<1>10. \A c \in Range(datablks) \cup {b} : mem'[c] = IF c = b THEN v ELSE Uncommitted[c]
  BY <1>7, <1>8, Zenon
<1>11. Uncommitted' = [c \in DOMAIN Uncommitted \cup {b} |-> IF c = b THEN v ELSE Uncommitted[c]]
  BY <1>8, <1>9, <1>10, Zenon
<1>12. Recovered(disk)' = Recovered(disk)
  BY <1>0, MappingIs, Zenon
<1> QED
  BY <1>1, <1>11, <1>12, Zenon DEF Atomic!Write

\* A write of the commit to the disk: the write of the header makes the transaction
\* permanent, and no other write can be seen after a recovery.
LEMMA WriteIsCommit ==
  ASSUME JbdInv, NEW t \in Threads, pc[t] = "release", UNCHANGED <<mem, jbdVars>>,
         disk'[io[t].blk] = mem[io[t].blk],
         \A c \in Blks : c # io[t].blk => disk'[c] = disk[c],
         disk[io[t].blk] = mem[io[t].blk] => disk' = disk
  PROVE  Atomic!Commit \/ UNCHANGED <<Recovered(disk), Uncommitted>>
<1> DEFINE b == io[t].blk
           n == Len(datablks)
<1>0. mem' = mem /\ datablks' = datablks
  BY Zenon DEF jbdVars
<1>1. /\ FrameOK(t) /\ CommitOK(t) /\ JournalRight /\ pc[t] \in Committing
      /\ stage \in {"data", "bmap", "header", "apply", "erase"}
      /\ disk = [c \in Blks |-> disk[c]] /\ datablks \in Seq(FsBlks)
  <2>1. datablks \in Seq(WriteBlks) /\ WriteBlks \subseteq FsBlks
    BY JournalBlks, Zenon DEF JbdInv, JbdTypeOK
  <2>2. datablks \in Seq(FsBlks)
    BY <2>1
  <2> QED
    BY <2>2, Zenon DEF JbdInv, JbdTypeOK, Committing
<1>2. /\ stage = "apply" => b = datablks[idx + 1] /\ idx + 1 \in 1..n
      /\ stage = "data" => b = D(idx + 1) /\ idx + 1 \in 1..n /\ mem[b] = mem[datablks[idx + 1]]
      /\ stage = "bmap" => b = M /\ mem[b] = datablks /\ n > 0
      /\ stage \in {"header", "erase"} => b = H /\ mem[b] = n
      /\ b \in Blks
  <2>1. /\ stage = "apply" => b = datablks[idx + 1]
        /\ stage # "apply" => b = Target /\ mem[b] = Content
    BY <1>1, Zenon DEF FrameOK, CommitOK
  <2>2. b \in Blks
    <3>1. stage # "apply" => b \in Blks
      BY <1>1, <2>1, TargetIs, Zenon
    <3>2. stage = "apply" => b \in Blks
      BY <1>1, <2>1, TargetIs, LogFacts, JournalBlks, Zenon
    <3> QED
      BY <3>1, <3>2, Zenon
  <2>3. stage = "bmap" => n > 0
    BY <1>1 DEF CommitOK
  <2> QED
    BY <1>1, <2>1, <2>2, <2>3, TargetIs, Zenon
<1>3. /\ disk[H] \in Nat /\ n \in Nat /\ 1..n \subseteq 1..JOURNAL_SIZE
      /\ IsInjective(datablks)
      /\ \A i \in 1..n : datablks[i] \in FsBlks
      /\ n = 0 <=> datablks = <<>>
  <2>1. n = 0 <=> datablks = <<>>
    BY <1>1
  <2> QED
    BY <1>1, <2>1, LogFacts, Zenon DEF JournalRight
<1>4. /\ disk[H] > 0 /\ n > 0 => disk[H] = n /\ disk[M] = datablks /\ Copied(n)
      /\ disk[H] > 0 /\ n = 0 => /\ disk[M] \in Seq(FsBlks) /\ Len(disk[M]) = disk[H]
                                 /\ IsInjective(disk[M])
                                 /\ \A i \in 1..disk[H] : disk[disk[M][i]] = disk[D(i)]
  <2>1. pc[t] # "off"
    BY <1>1, Zenon DEF Committing
  <2>2. n > 0 => datablks # <<>>
    BY <1>3
  <2> QED
    BY <1>1, <1>3, <2>1, <2>2, Zenon DEF JournalRight
<1>5. disk'[b] = mem[b] /\ \A c \in Blks : c # b => disk'[c] = disk[c]
  BY Zenon
<1>6. ASSUME disk[b] = mem[b]
      PROVE  UNCHANGED <<Recovered(disk), Uncommitted>>
  <2>1. disk' = disk
    BY <1>6, Zenon
  <2> QED
    BY <1>0, <2>1, Invisible, Zenon
<1>7. ASSUME Recovered(disk') = Recovered(disk), n = 0 \/ disk'[H] = disk[H]
      PROVE  UNCHANGED <<Recovered(disk), Uncommitted>>
  <2>1. n = 0 => Range(datablks) = {}
    BY <1>1 DEF Range
  <2>2. (IF disk'[H] > 0 THEN {} ELSE Range(datablks')) = (IF disk[H] > 0 THEN {} ELSE Range(datablks))
    BY <1>0, <1>7, <2>1, Zenon
  <2> QED
    BY <1>0, <1>7, <2>2, MappingIs, Zenon
<1>8. ASSUME disk[H] = 0, b \notin FsBlks, b # H
      PROVE  UNCHANGED <<Recovered(disk), Uncommitted>>
  <2>1. disk'[H] = 0 /\ \A c \in FsBlks : disk'[c] = disk[c]
    BY <1>5, <1>8, JournalBlks, Zenon
  <2>2. Recovered(disk') = [c \in FsBlks |-> disk'[c]] /\ Recovered(disk) = [c \in FsBlks |-> disk[c]]
    BY <1>8, <2>1, RecoveredEmpty, Zenon
  <2>3. Recovered(disk') = Recovered(disk)
    BY <2>1, <2>2, Zenon
  <2> QED
    BY <1>7, <1>8, <2>1, <2>3, Zenon
<1>9. CASE stage = "apply"
  <2>1. n > 0 /\ disk[H] = n
    BY <1>1, <1>2, <1>3, <1>9 DEF CommitOK
  <2>2. disk[H] > 0 /\ disk[M] = datablks
    BY <1>4, <2>1, Zenon
  <2>3. b \in FsBlks /\ b \in Range(datablks)
    BY <1>1, <1>2, <1>3, <1>9 DEF Range
  <2>4. /\ disk'[H] = n /\ disk'[M] = datablks
        /\ \A i \in 1..n : disk'[D(i)] = disk[D(i)]
        /\ \A c \in FsBlks \ Range(datablks) : disk'[c] = disk[c]
    BY <1>3, <1>5, <2>1, <2>2, <2>3, JournalBlks, Zenon
  <2>5. \A c \in FsBlks : Recovered(disk')[c] = Recovered(disk)[c]
    <3>1. \A i \in 1..n : Recovered(disk')[datablks[i]] = Recovered(disk)[datablks[i]]
      BY <1>1, <1>3, <2>1, <2>2, <2>4, RecoveredLogged, Zenon
    <3>2. \A c \in FsBlks \ Range(datablks) : Recovered(disk')[c] = Recovered(disk)[c]
      BY <1>1, <1>3, <2>1, <2>2, <2>4, RecoveredLogged, Zenon
    <3>3. \A c \in Range(datablks) : \E i \in 1..n : c = datablks[i]
      BY <1>1, RangeIs, Zenon
    <3>4. \A c \in Range(datablks) : Recovered(disk')[c] = Recovered(disk)[c]
      BY <3>1, <3>3, Zenon
    <3> QED
      BY <3>2, <3>4, Zenon
  <2>6. Recovered(disk') = Recovered(disk)
    BY <2>5, Zenon DEF Recovered
  <2> QED
    BY <1>7, <2>1, <2>4, <2>6, Zenon
<1>10. CASE stage = "data"
  <2>1. CASE disk[H] = 0
    BY <1>2, <1>3, <1>8, <1>10, <2>1, JournalBlks, Zenon
  <2>2. CASE disk[H] > 0
    <3>1. n > 0
      BY <1>2, <1>3, <1>10
    <3>2. disk[b] = mem[b]
      BY <1>2, <1>4, <1>10, <2>2, <3>1, Zenon DEF Copied
    <3> QED
      BY <1>6, <3>2, Zenon
  <2> QED
    BY <1>3, <2>1, <2>2
<1>11. CASE stage = "bmap"
  <2>1. CASE disk[H] = 0
    BY <1>2, <1>8, <1>11, <2>1, JournalBlks, Zenon
  <2>2. CASE disk[H] > 0
    BY <1>2, <1>4, <1>6, <1>11, <2>2, Zenon
  <2> QED
    BY <1>3, <2>1, <2>2
<1>12. CASE stage \in {"header", "erase"} /\ n > 0
  <2>0. stage = "header" /\ b = H /\ mem[b] = n
    <3>1. stage = "erase" => datablks = <<>>
      BY <1>1, Zenon DEF CommitOK
    <3> QED
      BY <1>2, <1>3, <1>12, <3>1
  <2>1. CASE disk[H] > 0
    BY <1>4, <1>6, <1>12, <2>0, <2>1, Zenon
  <2>2. CASE disk[H] = 0
    <3>1. disk[M] = datablks /\ Copied(n)
      <4>1. datablks # <<>>
        BY <1>3, <1>12
      <4> QED
        BY <1>1, <2>0, <4>1, Zenon DEF CommitOK
    <3>2. /\ disk'[H] = n /\ disk'[M] = datablks
          /\ \A i \in 1..n : disk'[D(i)] = mem[datablks[i]]
          /\ \A c \in FsBlks : disk'[c] = disk[c]
      <4>1. disk'[H] = n /\ disk'[M] = datablks /\ \A c \in FsBlks : disk'[c] = disk[c]
        BY <1>5, <2>0, <3>1, JournalBlks, Zenon
      <4>2. \A i \in 1..n : D(i) \in Blks /\ D(i) # b
        BY <1>3, <2>0, JournalBlks, Zenon
      <4> QED
        BY <1>5, <3>1, <4>1, <4>2, Zenon DEF Copied
    <3>3. /\ Uncommitted = [c \in Range(datablks) |-> mem[c]]
          /\ DOMAIN Uncommitted = Range(datablks)
      <4>1. ~(disk[H] > 0)
        BY <2>2
      <4> QED
        BY <4>1, MappingIs, Zenon
    <3>4. \A c \in FsBlks : Recovered(disk')[c] =
            IF c \in DOMAIN Uncommitted THEN Uncommitted[c] ELSE Recovered(disk)[c]
      <4>0. /\ \A i \in 1..n : Recovered(disk')[datablks[i]] = disk'[D(i)]
            /\ \A c \in FsBlks \ Range(datablks) : Recovered(disk')[c] = disk'[c]
        <5>0. /\ datablks \in Seq(FsBlks) /\ IsInjective(datablks)
              /\ disk'[H] = n /\ disk'[M] = datablks
          BY <1>1, <1>3, <3>2, Zenon
        <5>1. \A i \in 1..n : Recovered(disk')[datablks[i]] = disk'[D(i)]
          BY <5>0, RecoveredLogged, Zenon
        <5>2. \A c \in FsBlks \ Range(datablks) : Recovered(disk')[c] = disk'[c]
          BY <1>1, <1>3, <3>2, RecoveredLogged, ZenonT(40)
        <5> QED
          BY <5>1, <5>2, Zenon
      <4>1. \A i \in 1..n : Recovered(disk')[datablks[i]] = mem[datablks[i]]
        BY <3>2, <4>0, Zenon
      <4>2. \A c \in FsBlks \ Range(datablks) : Recovered(disk')[c] = Recovered(disk)[c]
        <5>1. Recovered(disk) = [c \in FsBlks |-> disk[c]]
          BY <2>2, RecoveredEmpty, Zenon
        <5> QED
          BY <3>2, <4>0, <5>1, Zenon
      <4>3. \A c \in Range(datablks) : \E i \in 1..n : c = datablks[i]
        BY <1>1, RangeIs, Zenon
      <4>4. \A c \in Range(datablks) : Recovered(disk')[c] = Uncommitted[c]
        BY <3>3, <4>1, <4>3, Zenon
      <4> QED
        BY <3>3, <4>2, <4>4, Zenon
    <3>5. Recovered(disk')
            = [c \in FsBlks |-> IF c \in DOMAIN Uncommitted THEN Uncommitted[c] ELSE Recovered(disk)[c]]
      <4>1. Recovered(disk') = [c \in FsBlks |-> Recovered(disk')[c]]
        BY <1>1, <1>3, <3>2, RecoveredLogged, Zenon
      <4> QED
        BY <3>4, <4>1, Zenon
    <3>6. Uncommitted' = Atomic!NoWrites
      <4>1. disk'[H] > 0
        BY <1>12, <3>2, Zenon
      <4>2. Uncommitted' = [c \in {} |-> mem'[c]]
        BY <4>1, MappingIs, Zenon
      <4> QED
        BY <4>2, Zenon DEF Atomic!NoWrites
    <3> QED
      BY <3>5, <3>6, MappingIs, Zenon DEF Atomic!Commit
  <2> QED
    BY <1>3, <2>1, <2>2
<1>13. CASE stage \in {"header", "erase"} /\ n = 0
  <2>0. b = H /\ mem[b] = 0
    BY <1>2, <1>13, Zenon
  <2>1. CASE disk[H] = 0
    BY <1>6, <2>0, <2>1, Zenon
  <2>2. CASE disk[H] > 0
    <3> DEFINE s == disk[M]
    <3>1. /\ s \in Seq(FsBlks) /\ Len(s) = disk[H] /\ IsInjective(s)
          /\ \A i \in 1..Len(s) : disk[s[i]] = disk[D(i)]
      BY <1>4, <1>13, <2>2, Zenon
    <3>2. disk'[H] = 0 /\ \A c \in FsBlks : disk'[c] = disk[c]
      BY <1>5, <2>0, JournalBlks, Zenon
    <3>3. Recovered(disk') = [c \in FsBlks |-> disk[c]]
      <4>1. Recovered(disk') = [c \in FsBlks |-> disk'[c]]
        BY <3>2, RecoveredEmpty, Zenon
      <4> QED
        BY <3>2, <4>1, Zenon
    <3>4. disk[H] = Len(s) /\ disk[M] = s
      BY <3>1, Zenon
    <3> HIDE DEF s
    <3>5. /\ Recovered(disk) = [c \in FsBlks |-> Recovered(disk)[c]]
          /\ \A i \in 1..Len(s) : Recovered(disk)[s[i]] = disk[D(i)]
          /\ \A c \in FsBlks \ Range(s) : Recovered(disk)[c] = disk[c]
      BY <3>1, <3>4, RecoveredLogged, ZenonT(40)
    <3>6. \A c \in Range(s) : \E i \in 1..Len(s) : c = s[i]
      BY <3>1, RangeIs, Zenon
    <3>7. \A c \in FsBlks : Recovered(disk)[c] = disk[c]
      <4>1. \A c \in Range(s) : Recovered(disk)[c] = disk[c]
        <5>1. \A i \in 1..Len(s) : Recovered(disk)[s[i]] = disk[s[i]]
          <6> SUFFICES ASSUME NEW i \in 1..Len(s)
                       PROVE  Recovered(disk)[s[i]] = disk[s[i]]
            BY Zenon
          <6>1. disk[s[i]] = disk[D(i)]
            BY <3>1, Zenon
          <6>2. Recovered(disk)[s[i]] = disk[D(i)]
            BY <3>5, Zenon
          <6> QED
            BY <6>1, <6>2, Zenon
        <5> QED
          BY <3>6, <5>1, Zenon
      <4> QED
        BY <3>5, <4>1, Zenon
    <3>8. Recovered(disk') = Recovered(disk)
      BY <3>3, <3>5, <3>7, Zenon
    <3> QED
      BY <1>7, <1>13, <3>8, Zenon
  <2> QED
    BY <1>3, <2>1, <2>2
<1> QED
  BY <1>1, <1>3, <1>9, <1>10, <1>11, <1>12, <1>13, SMTT(30)

\* Every step of the machine is a step of AtomicDisk or invisible to it: jbd_write_blk
\* writes, the write of the journal's header commits, the machine's stop aborts; a panic of
\* the journal leaves the log as it is.
LEMMA StepRefines ==
  ASSUME JbdInv, [Next]_vars
  PROVE  [Atomic!Next]_<<Recovered(disk), Uncommitted>>
<1>0. Writers \subseteq Threads /\ Readers \subseteq Threads
  BY JbdAssumption, Zenon
<1> DEFINE Same == UNCHANGED <<disk, datablks>> /\ \A b \in Range(datablks) : mem'[b] = mem[b]
<1>1. ASSUME Same
      PROVE  UNCHANGED <<Recovered(disk), Uncommitted>>
  BY <1>1, Invisible, Zenon
<1>2. ASSUME NEW t \in Writers, WriterStep(t)
      PROVE  Atomic!Next \/ UNCHANGED <<Recovered(disk), Uncommitted>>
  <2>0. t \in Threads
    BY <1>0, Zenon
  <2>1. CASE \E v \in Vals : jbd_write_blk(t, v)
    BY <2>0, <2>1, WriteIsWrite, Zenon DEF Atomic!Next
  <2>2. CASE CommitFill(t)
    <3>1. /\ UNCHANGED <<disk, datablks>> /\ mem' = [mem EXCEPT ![Target] = Content]
          /\ pc[t] = "fill" /\ FrameOK(t)
      BY <2>0, <2>2, Zenon DEF CommitFill, ioVars, JbdInv
    <3>2. Target \notin FsBlks
      <4>1. stage # "apply" /\ pc[t] \in Committing
        BY <3>1, Zenon DEF FrameOK, Committing
      <4> QED
        BY <2>0, <4>1, TargetIs, Zenon
    <3>3. mem = [b \in Blks |-> mem[b]] /\ datablks \in Seq(WriteBlks)
      BY Zenon DEF JbdInv, JbdTypeOK
    <3>4. \A b \in Range(datablks) : b \in FsBlks /\ b \in Blks
      BY <3>3, JournalBlks DEF Range
    <3>5. \A b \in Range(datablks) : b \in Blks /\ b # Target
      BY <3>2, <3>4, Zenon
    <3>6. \A b \in Range(datablks) : mem'[b] = mem[b]
      BY <3>1, <3>3, <3>5, Zenon
    <3> QED
      BY <1>1, <3>1, <3>6, Zenon
  <2>3. CASE CommitNext(t)
    <3>1. /\ pc[t] = "release" /\ UNCHANGED <<disk, mem>>
          /\ datablks' = datablks \/ (stage # "erase" /\ NextStage.stage = "erase" /\ datablks' = <<>>)
      BY <2>3, Zenon DEF CommitNext, ioVars
    <3>2. CASE datablks' = datablks
      BY <1>1, <3>1, <3>2, Zenon
    <3>3. CASE stage # "erase" /\ NextStage.stage = "erase" /\ datablks' = <<>> /\ datablks # <<>>
      <4>1. /\ CommitOK(t) /\ pc[t] \in Committing
            /\ stage \in {"data", "bmap", "header", "apply", "erase"}
            /\ idx \in Nat /\ Len(datablks) \in Nat
        BY <2>0, <3>1, LogFacts, Zenon DEF JbdInv, JbdTypeOK, Committing
      <4>2. stage = "apply"
        BY <3>3, <4>1 DEF NextStage
      <4>3. disk[H] > 0
        BY <4>1, <4>2 DEF CommitOK
      <4>4. disk'[H] > 0 /\ disk' = disk /\ mem' = mem
        BY <3>1, <4>3, Zenon
      <4>5. Uncommitted' = Uncommitted
        BY <4>3, <4>4, MappingIs, Zenon
      <4> QED
        BY <4>4, <4>5, MappingIs, Zenon
    <3> QED
      BY <3>1, <3>2, <3>3, Zenon
  <2>4. CASE jbd_begin_txn(t)
    BY <1>1, <2>4, Zenon DEF jbd_begin_txn, bdevVars, ioVars, cacheVars
  <2>5. CASE \E b \in WriteBlks : bdev_get_blk(t, b)
    BY <1>1, <2>5, Zenon DEF bdev_get_blk, ioVars, cacheVars
  <2>6. CASE jbd_end_txn(t)
    BY <1>1, <2>6, Zenon DEF jbd_end_txn, ioVars, cacheVars
  <2>7. CASE CommitGet(t) \/ ApplyWrite(t) \/ CommitRetry(t)
    BY <1>1, <2>7, Zenon DEF CommitGet, ApplyWrite, CommitRetry, ioVars, cacheVars
  <2>8. ASSUME NEW v \in Vals, JournalFull(t, v)
        PROVE  UNCHANGED <<Recovered(disk), Uncommitted>>
    <3>1. /\ UNCHANGED <<disk, datablks>> /\ mem' = [mem EXCEPT ![io[t].blk] = v]
          /\ Len(Log(io[t].blk)) > JOURNAL_SIZE
      BY <2>8, Zenon DEF JournalFull, ioVars
    <3>2. mem = [b \in Blks |-> mem[b]] /\ Len(datablks) <= JOURNAL_SIZE
      BY Zenon DEF JbdInv, JbdTypeOK, TxnAlone, LogBound
    <3>3. ~(Len(datablks) > JOURNAL_SIZE)
      BY <3>2, LogFacts, JbdAssumption
    <3>4. io[t].blk \notin Range(datablks)
      BY <3>1, <3>3, Zenon DEF Log
    <3>5. \A b \in Range(datablks) : b \in Blks
      <4>1. datablks \in Seq(WriteBlks)
        BY Zenon DEF JbdInv, JbdTypeOK
      <4> QED
        BY <4>1, JournalBlks DEF Range
    <3>6. \A b \in Range(datablks) : mem'[b] = mem[b]
      BY <3>1, <3>2, <3>4, <3>5, Zenon
    <3> QED
      BY <1>1, <3>1, <3>6, Zenon
  <2> QED
    BY <1>2, <2>1, <2>2, <2>3, <2>4, <2>5, <2>6, <2>7, <2>8, Zenon DEF WriterStep
<1>3. ASSUME NEW t \in Readers, ReaderStep(t)
      PROVE  UNCHANGED <<Recovered(disk), Uncommitted>>
  BY <1>1, <1>3, Zenon DEF ReaderStep, ReadBlk, bdev_get_blk, ioVars, cacheVars
<1>4. ASSUME NEW t \in Threads, GetFailed(t)
      PROVE  UNCHANGED <<Recovered(disk), Uncommitted>>
  BY <1>1, <1>4, Zenon DEF GetFailed, ioVars, cacheVars
<1>5. ASSUME NEW t \in Threads, BdevStep(t), UNCHANGED jbdVars
      PROVE  UNCHANGED <<Recovered(disk), Uncommitted>>
  <2>0. datablks' = datablks
    BY <1>5, Zenon DEF jbdVars
  <2>1. disk' = disk /\ mem' = mem
    BY <1>5, Zenon DEF BdevStep, PgcacheHit, PgcacheMiss, PgcacheNoMem, Submit,
         ide_request_handler, RequestDone, BlkHeader, BlkHeaderNoMem, BlkLock, WriteNoMem,
         ioVars, cacheVars
  <2> QED
    BY <1>1, <2>0, <2>1, Zenon
<1>6. ASSUME Controller, UNCHANGED jbdVars
      PROVE  Atomic!Next \/ UNCHANGED <<Recovered(disk), Uncommitted>>
  <2> DEFINE h == Head(request_queue)
             b == io[h].blk
  <2>0. /\ hw.op # "NONE" /\ UNCHANGED mem /\ datablks' = datablks
        /\ disk' = IF hw.op = "WRITE" THEN [disk EXCEPT ![hw.blk] = hw.data] ELSE disk
    BY <1>6, Zenon DEF Controller, cacheVars, jbdVars
  <2>1. CASE hw.op = "WRITE"
    <3>1. ide = "BUSY" /\ request_queue # <<>>
      BY <2>0, Zenon DEF JbdInv, DeviceRight
    <3>2. h \in Threads /\ io[h].at \in {"kick", "wait"} /\ FrameOK(h)
      BY <3>1, FirstPending, Zenon DEF JbdInv
    <3>3. hw.op = io[h].op /\ hw.blk = Command(h).blk /\ hw.data = mem[b]
      BY <3>1, Zenon DEF JbdInv, DeviceRight
    <3>4. hw.blk = b
      BY <2>1, <3>3, Zenon DEF Command
    <3>5. b \in Blks /\ pc[h] = "release"
      BY <2>1, <3>2, <3>3, ZenonT(40) DEF FrameOK
    <3>6. disk = [c \in Blks |-> disk[c]]
      BY Zenon DEF JbdInv, JbdTypeOK
    <3>7. disk' = [disk EXCEPT ![b] = mem[b]]
      BY <2>0, <2>1, <3>3, <3>4, Zenon
    <3> HIDE DEF h, b
    <3>8. /\ disk'[b] = mem[b] /\ \A c \in Blks : c # b => disk'[c] = disk[c]
          /\ disk[b] = mem[b] => disk' = disk
      BY <3>5, <3>6, <3>7
    <3> QED
      BY <1>6, <2>0, <3>2, <3>5, <3>8, WriteIsCommit, Zenon DEF b, Atomic!Next
  <2>2. CASE hw.op # "WRITE"
    BY <1>1, <2>0, <2>2, Zenon
  <2> QED
    BY <2>1, <2>2, Zenon
<1>7. ASSUME ide_trap_handler, UNCHANGED jbdVars
      PROVE  UNCHANGED <<Recovered(disk), Uncommitted>>
  <2> DEFINE h == Head(request_queue)
             page == PageOf(io[h].blk)
  <2>0. /\ ide = "BUSY" /\ disk' = disk /\ datablks' = datablks
        /\ mem' = IF io[h].op = "READ"
                    THEN [c \in Blks |-> IF PageOf(c) = page THEN disk[c] ELSE mem[c]]
                    ELSE mem
    BY <1>7, Zenon DEF ide_trap_handler, jbdVars
  <2>1. request_queue # <<>>
    BY <2>0, Zenon DEF JbdInv, DeviceRight
  <2>2. h \in Threads /\ io[h].at \in {"kick", "wait"} /\ LockOK(h)
    BY <2>1, FirstPending, Zenon DEF JbdInv
  <2>3. io[h].op = "READ" => page \notin cached
    BY <2>2 DEF LockOK, Busy
  <2>4. datablks \in Seq(WriteBlks) /\ \A c \in Range(datablks) : PageOf(c) \in cached
    BY Zenon DEF JbdInv, JbdTypeOK, InCache
  <2>5. \A c \in Range(datablks) : c \in Blks
    BY <2>4, JournalBlks DEF Range
  <2>6. \A c \in Range(datablks) : mem'[c] = mem[c]
    BY <2>0, <2>3, <2>4, <2>5, Zenon
  <2> QED
    BY <1>1, <2>0, <2>6, Zenon
<1>8. ASSUME Crash
      PROVE  Atomic!Crash
  <2>1. disk' = disk /\ datablks' = <<>>
    BY <1>8, Zenon DEF Crash
  <2>2. Range(datablks') = {}
    BY <2>1 DEF Range
  <2>3. Uncommitted' = [b \in {} |-> mem'[b]]
    BY <2>2, MappingIs, Zenon
  <2>4. Uncommitted' = Atomic!NoWrites
    BY <2>3, Zenon DEF Atomic!NoWrites
  <2> QED
    BY <2>1, <2>4, MappingIs, Zenon DEF Atomic!Crash
<1>9. ASSUME UNCHANGED vars
      PROVE  UNCHANGED <<Recovered(disk), Uncommitted>>
  BY <1>1, <1>9, Zenon DEF vars, bdevVars, ioVars, cacheVars, jbdVars
<1> QED
  BY <1>2, <1>3, <1>4, <1>5, <1>6, <1>7, <1>8, <1>9, Zenon DEF Next, Hardware, Atomic!Next

\* A transaction is on the disk as a whole or not at all, at whatever step the machine
\* stops: commit_journal's writes and a recovery from the journal implement AtomicDisk.
THEOREM TransactionsAtomic == Spec => ImplementsAtomicDisk
<1>1. Init => Atomic!Init
  <2> SUFFICES ASSUME Init
               PROVE  Atomic!Init
    OBVIOUS
  <2>1. disk = Disk0 /\ datablks = <<>>
    BY Zenon DEF Init, Boot, Mount
  <2>2. Range(datablks) = {}
    BY <2>1 DEF Range
  <2>3. Uncommitted = [b \in {} |-> mem[b]]
    BY <2>2, MappingIs, Zenon
  <2>4. Uncommitted = Atomic!NoWrites
    BY <2>3, Zenon DEF Atomic!NoWrites
  <2> QED
    BY <2>1, <2>4, Zenon DEF Atomic!Init
<1>2. JbdInv /\ [Next]_vars => [Atomic!Next]_<<Recovered(disk), Uncommitted>>
  BY StepRefines, Zenon
<1> QED
  BY <1>1, <1>2, JbdInvariance, PTL DEF Spec, ImplementsAtomicDisk, Atomic!Spec
==============================================================================
