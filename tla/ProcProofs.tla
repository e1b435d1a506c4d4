----------------------------- MODULE ProcProofs -----------------------------
(***************************************************************************)
(* The inductive invariant of Proc, for any number of struct procs and     *)
(* pids: it relates what the code keeps by address (parent, child, the     *)
(* table) to what the ghosts keep by pid.                                  *)
(***************************************************************************)
EXTENDS Proc, TLAPS

Statuses == {ALIVE} \cup (UNION {Status[i] : i \in Pids})
Results ==
  (Pids \cup {ERR_CHILD}) \X ({ALIVE, ANY_CHILD} \cup Pids \cup (UNION {Status[i] : i \in Pids}))

\* Type correctness of the process table and its processes.
ProcTypeOK ==
  /\ pool \in Seq(Slots)
  /\ pid \in [Slots -> Pids]
  /\ parent \in [Slots -> Slots \cup {NULL}]
  /\ has_exited \in [Slots -> BOOLEAN]
  /\ exit_status \in [Slots -> Statuses]
  /\ pid_allocator \in 1..MaxPid
  /\ ptable \in Seq(Slots)
  /\ ptable_lock \in Slots \cup {NULL}
  /\ pc \in [Slots -> {"user", "new", "fork", "spawn", "start", "wait", "scan", "exit", "gone"}]
  /\ child \in [Slots -> Slots \cup {NULL}]
  /\ target \in [Slots -> Pids \cup {ANY_CHILD, NULL}]
  /\ pos \in [Slots -> Nat \ {0}]
  /\ found \in [Slots -> BOOLEAN]
  /\ result \in [Slots -> Results \cup {NULL}]
  /\ creator \in [Pids -> Pids \cup {NULL}]
  /\ said \in [Pids -> Statuses]
  /\ reaper \in [Pids -> Seq(Pids)]

\* A free struct is in the pool once and has no thread; the others have different pids.
StructsSound ==
  /\ IsInjective(pool)
  /\ \A s \in Slots \ allocated : pc[s] = "gone"
  /\ \A s \in allocated : pid[s] < pid_allocator
  /\ \A s, u \in allocated : pid[s] = pid[u] => s = u

\* How far exit has come: the status is there before the flag, and only then.
ExitsRight ==
  /\ \A s \in Slots : has_exited[s] => pc[s] = "gone"
  /\ \A s \in allocated : has_exited[s] \/ pc[s] = "exit" =>
       exit_status[s] = said[pid[s]] /\ said[pid[s]] # ALIVE
  /\ \A s \in allocated : pc[s] \notin {"exit", "gone"} => said[pid[s]] = ALIVE
  /\ \A i \in Pids : i >= pid_allocator => said[i] = ALIVE

Making(p) == pc[p] \in {"fork", "spawn", "start"}

\* The child being made is there, unfinished and nobody else's.
ChildrenSound ==
  /\ \A p \in Slots : Making(p) =>
       /\ child[p] \in allocated /\ child[p] # p
       /\ creator[pid[child[p]]] = pid[p]
       /\ pc[p] \in {"fork", "spawn"} => child[p] \notin Range(ptable)
       /\ pc[p] = "fork" => parent[child[p]] = p
       /\ pc[p] \in {"spawn", "start"} => pc[child[p]] = "new"
       /\ pc[p] = "start" => child[p] \in Range(ptable)
  /\ \A p, q \in Slots : Making(p) /\ Making(q) /\ child[p] = child[q] => p = q

\* A child nobody has waited for is in the table and knows its parent, or is being made.
IsAt(c, p, i) ==
  /\ pid[c] = i
  /\ parent[c] = p \/ (pc[p] \in {"spawn", "start"} /\ child[p] = c)
  /\ c \in Range(ptable) \/ (pc[p] \in {"fork", "spawn"} /\ child[p] = c)

FamiliesKnown ==
  /\ \A p \in allocated, i \in Pids : Unreaped(p, i) => \E c \in allocated : IsAt(c, p, i)
  /\ \A i \in Pids : creator[i] # NULL => i < pid_allocator /\ creator[i] < pid_allocator
  /\ \A i \in Pids : i >= pid_allocator => reaper[i] = <<>>

\* A pass over the table holds its lock and has missed nothing so far.
ScansRight ==
  /\ \A p \in Slots : pc[p] = "scan" =>
       /\ ptable_lock = p
       /\ found[p] \/ \A k \in 1..Len(ptable) : k < pos[p] => ~IsChild(ptable[k], p)
  /\ \A p \in Slots : pc[p] \in {"wait", "scan"} => target[p] \in Pids \cup {ANY_CHILD}
  /\ \A p \in Slots : pc[p] # "scan" => pos[p] = 1 /\ found[p] = FALSE

\* The inductive invariant.
ProcInv ==
  /\ ProcTypeOK /\ StructsSound /\ PtableSound /\ ExitsRight /\ ChildrenSound
  /\ StatusExact /\ FamiliesKnown /\ ScansRight /\ ErrChildRight

-----------------------------------------------------------------------------
(* The pool and the table as sequences.                                    *)

\* Appending to the table (list_append).
LEMMA SeqAppend ==
  ASSUME NEW S, NEW s \in Seq(S), NEW x \in S
  PROVE  /\ Append(s, x) \in Seq(S) /\ Len(Append(s, x)) = Len(s) + 1
         /\ \A k \in 1..Len(s) : Append(s, x)[k] = s[k]
         /\ Range(Append(s, x)) = Range(s) \cup {x}
         /\ IsInjective(s) /\ x \notin Range(s) => IsInjective(Append(s, x))
<1>1. /\ Append(s, x) \in Seq(S)
      /\ Len(Append(s, x)) = Len(s) + 1
      /\ \A i \in 1..Len(s) : Append(s, x)[i] = s[i]
      /\ Append(s, x)[Len(s) + 1] = x
      /\ Len(s) \in Nat
      /\ DOMAIN s = 1..Len(s) /\ DOMAIN Append(s, x) = 1..(Len(s) + 1)
  OBVIOUS
<1>2. Range(Append(s, x)) = Range(s) \cup {x}
  BY <1>1 DEF Range
<1>3. IsInjective(s) /\ x \notin Range(s) => IsInjective(Append(s, x))
  BY <1>1 DEF IsInjective, Range
<1> QED
  BY <1>1, <1>2, <1>3, Zenon

\* Taking the first struct of the pool (kmem_cache_alloc).
LEMMA SeqTail ==
  ASSUME NEW S, NEW s \in Seq(S), s # <<>>, IsInjective(s)
  PROVE  /\ Tail(s) \in Seq(S) /\ Head(s) \in S /\ Head(s) \in Range(s)
         /\ Range(Tail(s)) = Range(s) \ {Head(s)}
         /\ IsInjective(Tail(s))
<1>1. /\ Tail(s) \in Seq(S)
      /\ Len(s) \in Nat \ {0}
      /\ Len(Tail(s)) = Len(s) - 1
      /\ \A i \in 1..(Len(s) - 1) : Tail(s)[i] = s[i + 1]
      /\ Head(s) = s[1] /\ Head(s) \in S
      /\ DOMAIN s = 1..Len(s) /\ DOMAIN Tail(s) = 1..(Len(s) - 1)
  OBVIOUS
<1>2. Head(s) \in Range(s)
  BY <1>1 DEF Range
<1>3. ASSUME NEW x \in Range(Tail(s))
      PROVE  x \in Range(s) \ {Head(s)}
  <2>1. PICK i \in 1..(Len(s) - 1) : x = s[i + 1]
    BY <1>1, <1>3, Zenon DEF Range
  <2>2. i + 1 \in 1..Len(s) /\ 1 \in 1..Len(s) /\ i + 1 # 1
    BY <1>1
  <2> QED
    BY <1>1, <2>1, <2>2, Zenon DEF Range, IsInjective
<1>4. ASSUME NEW x \in Range(s) \ {Head(s)}
      PROVE  x \in Range(Tail(s))
  <2>1. PICK i \in 1..Len(s) : x = s[i]
    BY <1>1, <1>4, Zenon DEF Range
  <2>2. i - 1 \in 1..(Len(s) - 1) /\ (i - 1) + 1 = i
    BY <1>1, <1>4, <2>1
  <2> QED
    BY <1>1, <2>1, <2>2, Zenon DEF Range
<1>5. IsInjective(Tail(s))
  BY <1>1 DEF IsInjective
<1> QED
  BY <1>1, <1>2, <1>3, <1>4, <1>5, Zenon

\* Putting a struct back as the first of the pool (kmem_cache_free).
LEMMA SeqCons ==
  ASSUME NEW S, NEW s \in Seq(S), NEW x \in S, IsInjective(s), x \notin Range(s)
  PROVE  /\ <<x>> \o s \in Seq(S)
         /\ Range(<<x>> \o s) = Range(s) \cup {x}
         /\ IsInjective(<<x>> \o s)
<1>1. /\ <<x>> \o s \in Seq(S)
      /\ Len(s) \in Nat
      /\ Len(<<x>> \o s) = Len(s) + 1
      /\ \A i \in 1..Len(s) : (<<x>> \o s)[i + 1] = s[i]
      /\ (<<x>> \o s)[1] = x
      /\ DOMAIN s = 1..Len(s) /\ DOMAIN (<<x>> \o s) = 1..(Len(s) + 1)
  OBVIOUS
<1> DEFINE c == <<x>> \o s
<1>2. /\ c[1] = x /\ DOMAIN c = 1..(Len(s) + 1) /\ Len(s) \in Nat /\ DOMAIN s = 1..Len(s)
      /\ \A k \in 2..(Len(s) + 1) : k - 1 \in 1..Len(s) /\ c[k] = s[k - 1]
  BY <1>1
<1> HIDE DEF c
<1>3. Range(c) = Range(s) \cup {x}
  <2>1. ASSUME NEW y \in Range(c)
        PROVE  y \in Range(s) \cup {x}
    BY <1>2, <2>1 DEF Range
  <2>2. ASSUME NEW y \in Range(s)
        PROVE  y \in Range(c)
    <3>1. PICK i \in 1..Len(s) : y = s[i]
      BY <1>2, <2>2, Zenon DEF Range
    <3>2. i + 1 \in 2..(Len(s) + 1) /\ (i + 1) - 1 = i
      BY <1>2
    <3>3. y = c[i + 1] /\ i + 1 \in DOMAIN c
      BY <1>2, <3>1, <3>2
    <3> QED
      BY <3>3, Zenon DEF Range
  <2>3. x \in Range(c)
    BY <1>2 DEF Range
  <2> QED
    BY <2>1, <2>2, <2>3, Zenon
<1>4. IsInjective(c)
  <2> SUFFICES ASSUME NEW a \in 1..(Len(s) + 1), NEW b \in 1..(Len(s) + 1), c[a] = c[b]
               PROVE  a = b
    BY <1>2, Zenon DEF IsInjective
  <2>1. CASE a = 1 \/ b = 1
    BY <1>2, <2>1 DEF Range
  <2>2. CASE a # 1 /\ b # 1
    <3>1. a \in 2..(Len(s) + 1) /\ b \in 2..(Len(s) + 1)
      BY <1>2, <2>2
    <3>2. s[a - 1] = s[b - 1] /\ a - 1 \in DOMAIN s /\ b - 1 \in DOMAIN s
      BY <1>2, <3>1, Zenon
    <3> QED
      BY <3>1, <3>2 DEF IsInjective
  <2> QED
    BY <2>1, <2>2, Zenon
<1> QED
  BY <1>1, <1>3, <1>4, Zenon DEF c

\* Taking an entry out of the table (list_remove).
LEMMA SeqRemove ==
  ASSUME NEW S, NEW s \in Seq(S), NEW n \in 1..Len(s), IsInjective(s)
  PROVE  /\ list_remove(s, n) \in Seq(S)
         /\ Range(list_remove(s, n)) = Range(s) \ {s[n]}
         /\ IsInjective(list_remove(s, n))
<1> DEFINE r == list_remove(s, n)
           f == SubSeq(s, 1, n - 1)
           g == SubSeq(s, n + 1, Len(s))
<1>1. /\ f \in Seq(S) /\ Len(f) = n - 1
      /\ \A i \in 1..(n - 1) : f[i] = s[i]
  OBVIOUS
<1>2. /\ g \in Seq(S) /\ Len(g) = Len(s) - n
      /\ \A i \in 1..(Len(s) - n) : g[i] = s[n + i]
  OBVIOUS
<1>3. r = f \o g
  BY Zenon DEF list_remove
<1> HIDE DEF f, g, r
<1>4. /\ r \in Seq(S) /\ Len(r) = Len(s) - 1 /\ DOMAIN r = 1..(Len(s) - 1)
      /\ DOMAIN s = 1..Len(s) /\ Len(s) \in Nat
  BY <1>1, <1>2, <1>3
<1>5. /\ \A i \in 1..(n - 1) : r[i] = s[i]
      /\ \A i \in n..(Len(s) - 1) : r[i] = s[i + 1]
  <2>1. \A i \in 1..(Len(s) - 1) : r[i] = IF i <= n - 1 THEN f[i] ELSE g[i - (n - 1)]
    BY <1>1, <1>2, <1>3, <1>4
  <2>2. ASSUME NEW i \in 1..(n - 1)
        PROVE  r[i] = s[i]
    BY <1>1, <1>4, <2>1, <2>2
  <2>3. ASSUME NEW i \in n..(Len(s) - 1)
        PROVE  r[i] = s[i + 1]
    <3>1. /\ i - (n - 1) \in 1..(Len(s) - n) /\ n + (i - (n - 1)) = i + 1
          /\ i \in 1..(Len(s) - 1) /\ ~(i <= n - 1)
      BY <1>4, <2>3
    <3>2. r[i] = g[i - (n - 1)]
      BY <2>1, <3>1, Zenon
    <3>3. g[i - (n - 1)] = s[n + (i - (n - 1))]
      BY <1>2, <3>1, Zenon
    <3> QED
      BY <3>1, <3>2, <3>3, Zenon
  <2> QED
    BY <2>2, <2>3, Zenon
<1>6. Range(r) = Range(s) \ {s[n]}
  <2>1. ASSUME NEW y \in Range(r)
        PROVE  y \in Range(s) \ {s[n]}
    <3>1. PICK i \in 1..(Len(s) - 1) : y = r[i]
      BY <1>4, <2>1, Zenon DEF Range
    <3>2. PICK j \in 1..Len(s) : j # n /\ y = s[j]
      BY <1>4, <1>5, <3>1
    <3> QED
      BY <1>4, <3>2, Zenon DEF Range, IsInjective
  <2>2. ASSUME NEW y \in Range(s) \ {s[n]}
        PROVE  y \in Range(r)
    <3>1. PICK j \in 1..Len(s) : y = s[j] /\ j # n
      BY <1>4, <2>2, Zenon DEF Range
    <3>2. CASE j < n
      <4>1. j \in 1..(n - 1) /\ j \in 1..(Len(s) - 1)
        BY <1>4, <3>2
      <4>2. y = r[j] /\ j \in DOMAIN r
        BY <1>4, <1>5, <3>1, <4>1, Zenon
      <4> QED
        BY <4>2, Zenon DEF Range
    <3>3. CASE j > n
      <4>1. j - 1 \in n..(Len(s) - 1) /\ (j - 1) + 1 = j /\ j - 1 \in 1..(Len(s) - 1)
        BY <1>4, <3>3
      <4>2. y = r[j - 1] /\ j - 1 \in DOMAIN r
        BY <1>4, <1>5, <3>1, <4>1, Zenon
      <4> QED
        BY <4>2, Zenon DEF Range
    <3> QED
      BY <3>1, <3>2, <3>3
  <2> QED
    BY <2>1, <2>2, Zenon
<1>7. IsInjective(r)
  <2> SUFFICES ASSUME NEW a \in 1..(Len(s) - 1), NEW b \in 1..(Len(s) - 1), r[a] = r[b]
               PROVE  a = b
    BY <1>4, Zenon DEF IsInjective
  <2> DEFINE h(k) == IF k < n THEN k ELSE k + 1
  <2>1. r[a] = s[h(a)] /\ r[b] = s[h(b)]
    BY <1>4, <1>5
  <2>2. h(a) \in DOMAIN s /\ h(b) \in DOMAIN s
    BY <1>4
  <2>3. h(a) = h(b)
    BY <2>1, <2>2, Zenon DEF IsInjective
  <2> QED
    BY <1>4, <2>3
<1> QED
  BY <1>4, <1>6, <1>7, Zenon DEF r

-----------------------------------------------------------------------------
(* What each part of the invariant depends on.                             *)

\* The three kinds of results are different.
LEMMA ResultsApart ==
  ASSUME NEW i \in Pids, NEW st \in Statuses
  PROVE  /\ NULL # <<i, st>> /\ NULL \notin Pids /\ ERR_CHILD # i /\ ANY_CHILD # i
         /\ \A x : <<ERR_CHILD, x>> # <<i, st>>
         /\ \A x \in Pids \cup {ANY_CHILD} : NULL # <<ERR_CHILD, x>>
<1>1. NULL \notin Results
  BY ProcAssumption, Zenon DEF Results, Statuses, Pids
<1>2. Pids \subseteq 0..MaxPid
  BY ProcAssumption DEF Pids
<1>3. ERR_CHILD # i /\ ANY_CHILD # i /\ NULL \notin Pids
  BY <1>2, ProcAssumption, Zenon
<1>4. <<i, st>> \in Results /\ \A x \in Pids \cup {ANY_CHILD} : <<ERR_CHILD, x>> \in Results
  BY Zenon DEF Results, Statuses
<1> QED
  BY <1>1, <1>3, <1>4, Zenon

\* StatusExact: only a result that tells a status, and what was said, matter.
LEMMA StatusKept ==
  ASSUME StatusExact, said' = said,
         \A q \in Slots : \/ result'[q] = result[q] \/ result'[q] = NULL
                          \/ \E x \in Pids \cup {ANY_CHILD} : result'[q] = <<ERR_CHILD, x>>
  PROVE  StatusExact'
<1> SUFFICES ASSUME NEW q \in Slots, NEW i \in Pids, NEW st \in Statuses, result'[q] = <<i, st>>
             PROVE  st # ALIVE /\ st = said[i]
  BY DEF StatusExact, Statuses
<1>1. result[q] = <<i, st>>
  BY ResultsApart, Zenon
<1> QED
  BY <1>1, Zenon DEF StatusExact, Statuses

\* ChildrenSound, when only a process that neither makes a child nor waits to be started goes on.
LEMMA ChildrenKept ==
  ASSUME ChildrenSound, NEW p \in Slots, allocated' = allocated,
         UNCHANGED <<pid, parent, ptable, child, creator>>,
         pc[p] # "new", ~Making(p)', \A q \in Slots : q # p => pc'[q] = pc[q]
  PROVE  ChildrenSound'
<1>1. \A q \in Slots : Making(q)' => Making(q) /\ pc'[q] = pc[q]
  BY Zenon DEF Making
<1>2. \A q \in Slots : Making(q) => child[q] \in Slots
  BY Zenon DEF ChildrenSound, allocated
<1>3. \A q \in Slots : Making(q)' /\ pc'[q] \in {"spawn", "start"} => pc'[child'[q]] = "new"
  BY <1>1, <1>2, Zenon DEF ChildrenSound
<1>4. Range(ptable)' = Range(ptable)
  BY Zenon DEF Range
<1>5. ASSUME NEW q \in Slots, Making(q)'
      PROVE  /\ child'[q] \in allocated' /\ child'[q] # q
             /\ creator'[pid'[child'[q]]] = pid'[q]
             /\ pc'[q] \in {"fork", "spawn"} => child'[q] \notin Range(ptable)'
             /\ pc'[q] = "fork" => parent'[child'[q]] = q
             /\ pc'[q] \in {"spawn", "start"} => pc'[child'[q]] = "new"
             /\ pc'[q] = "start" => child'[q] \in Range(ptable)'
  BY <1>1, <1>3, <1>4, <1>5 DEF ChildrenSound
<1>6. \A q, r \in Slots : Making(q)' /\ Making(r)' /\ child'[q] = child'[r] => q = r
  BY <1>1, Zenon DEF ChildrenSound
<1> QED
  BY <1>5, <1>6, Zenon DEF ChildrenSound

\* FamiliesKnown, when nobody is created or reaped and nobody who makes a child goes on.
LEMMA FamiliesKept ==
  ASSUME FamiliesKnown, allocated' = allocated,
         UNCHANGED <<pid, parent, pid_allocator, ptable, child, creator, reaper>>,
         \A q \in Slots : Making(q) => pc'[q] = pc[q]
  PROVE  FamiliesKnown'
<1>1. ASSUME NEW q \in allocated, NEW i \in Pids, Unreaped(q, i)'
      PROVE  \E c \in allocated : IsAt(c, q, i)'
  <2>1. Unreaped(q, i)
    BY <1>1, Zenon DEF Unreaped
  <2>2. PICK c \in allocated : IsAt(c, q, i)
    BY <2>1, Zenon DEF FamiliesKnown
  <2>3. q \in Slots
    BY Zenon DEF allocated
  <2>4. IsAt(c, q, i)'
    BY <2>2, <2>3, Zenon DEF IsAt, Making
  <2> QED
    BY <2>4, Zenon
<1>2. /\ \A i \in Pids : creator'[i] # NULL => i < pid_allocator' /\ creator'[i] < pid_allocator'
      /\ \A i \in Pids : i >= pid_allocator' => reaper'[i] = <<>>
  BY Zenon DEF FamiliesKnown
<1> QED
  BY <1>1, <1>2, Zenon DEF FamiliesKnown

\* ScansRight, when the table stays, no pass starts or ends, and nobody in it becomes a
\* child of a process that is in a pass.
LEMMA ScansKept ==
  ASSUME ScansRight, UNCHANGED <<ptable, ptable_lock, pos, found>>, ptable \in Seq(Slots),
         \A q \in Slots : pc'[q] = "scan" <=> pc[q] = "scan",
         \A q \in Slots : pc[q] = "scan" => target'[q] = target[q],
         \A q \in Slots : pc'[q] = "wait" => target'[q] \in Pids \cup {ANY_CHILD},
         \A q \in Slots, c \in Range(ptable) :
           pc[q] = "scan" => pid'[c] = pid[c] /\ (parent'[c] = q => parent[c] = q)
  PROVE  ScansRight'
<1>1. ASSUME NEW q \in Slots, pc'[q] = "scan"
      PROVE  /\ ptable_lock' = q
             /\ found'[q] \/ \A k \in 1..Len(ptable') : k < pos'[q] => ~IsChild(ptable[k], q)'
  <2>1. /\ pc[q] = "scan" /\ ptable_lock = q
        /\ found[q] \/ \A k \in 1..Len(ptable) : k < pos[q] => ~IsChild(ptable[k], q)
    BY <1>1, Zenon DEF ScansRight
  <2>2. ASSUME NEW k \in 1..Len(ptable), ~IsChild(ptable[k], q)
        PROVE  ~IsChild(ptable[k], q)'
    <3>1. ptable[k] \in Range(ptable)
      BY DEF Range
    <3> QED
      BY <2>1, <2>2, <3>1, Zenon DEF IsChild
  <2> QED
    BY <2>1, <2>2, Zenon
<1>2. \A q \in Slots : pc'[q] \in {"wait", "scan"} => target'[q] \in Pids \cup {ANY_CHILD}
  BY Zenon DEF ScansRight
<1>3. \A q \in Slots : pc'[q] # "scan" => pos'[q] = 1 /\ found'[q] = FALSE
  BY Zenon DEF ScansRight
<1> QED
  BY <1>1, <1>2, <1>3, Zenon DEF ScansRight

\* ErrChildRight, when nobody is created and no result is made.
LEMMA ErrKept ==
  ASSUME ErrChildRight, allocated' = allocated, UNCHANGED <<pid, creator, reaper>>,
         \A q \in Slots : result'[q] = result[q] \/ result'[q] = NULL
  PROVE  ErrChildRight'
<1> SUFFICES ASSUME NEW q \in allocated, NEW i \in Pids,
                    result'[q] \in {<<ERR_CHILD, ANY_CHILD>>, <<ERR_CHILD, i>>}
             PROVE  ~Unreaped(q, i)'
  BY Zenon DEF ErrChildRight
<1>1. q \in Slots /\ result'[q] # NULL
  <2>1. ALIVE \in Statuses
    BY Zenon DEF Statuses
  <2> QED
    BY <2>1, ResultsApart, Zenon DEF allocated
<1>2. ~Unreaped(q, i)
  BY <1>1, Zenon DEF ErrChildRight
<1> QED
  BY <1>2, Zenon DEF Unreaped

-----------------------------------------------------------------------------
(* Every step keeps the invariant.                                         *)

\* proc_wait is called.
LEMMA WaitCallKeeps ==
  ASSUME ProcInv, NEW p \in Slots, NEW i \in Pids \cup {ANY_CHILD}, proc_wait(p, i)
  PROVE  ProcInv'
<1> USE DEF ProcInv, fields, waitVars, ghosts
<1>0. allocated' = allocated
  BY Zenon DEF proc_wait, allocated
<1>a. /\ pc[p] = "user" /\ pc' = [pc EXCEPT ![p] = "wait"] /\ pc'[p] = "wait"
      /\ \A q \in Slots : q # p => pc'[q] = pc[q]
      /\ \A q \in Slots : result'[q] = result[q] \/ result'[q] = NULL
      /\ target'[p] = i /\ \A q \in Slots : q # p => target'[q] = target[q]
  BY Zenon DEF proc_wait, ProcTypeOK
<1>1. ProcTypeOK'
  BY <1>0, ProcAssumption, Zenon DEF ProcTypeOK, proc_wait, Results, Statuses, Pids
<1>2. StructsSound'
  BY <1>0, ProcAssumption DEF StructsSound, ProcTypeOK, proc_wait
<1>3. PtableSound'
  BY <1>0, ProcAssumption, Zenon DEF PtableSound, ProcTypeOK, proc_wait
<1>4. ExitsRight'
  BY <1>0, ProcAssumption DEF ExitsRight, ProcTypeOK, proc_wait
<1>5. ChildrenSound'
  BY <1>0, <1>a, ChildrenKept, Zenon DEF proc_wait, Making
<1>6. StatusExact'
  BY <1>0, <1>1, <1>a, StatusKept, Zenon DEF proc_wait
<1>7. FamiliesKnown'
  BY <1>0, <1>1, <1>a, FamiliesKept, Zenon DEF proc_wait, Making
<1>8. ScansRight'
  <2>1. \A q \in Slots : pc'[q] = "wait" => target'[q] \in Pids \cup {ANY_CHILD}
    BY <1>a, Zenon DEF ScansRight
  <2> QED
    BY <1>a, <2>1, ScansKept, Zenon DEF proc_wait, ProcTypeOK
<1>9. ErrChildRight'
  BY <1>0, <1>1, <1>a, ErrKept, Zenon DEF proc_wait
<1> QED
  BY <1>1, <1>2, <1>3, <1>4, <1>5, <1>6, <1>7, <1>8, <1>9, Zenon

\* A pass starts with the lock free, so nobody else is in one.
LEMMA WaitLockKeeps ==
  ASSUME ProcInv, NEW p \in Slots, WaitLock(p)
  PROVE  ProcInv'
<1> USE DEF ProcInv, fields, waitVars, ghosts
<1>0. allocated' = allocated
  BY Zenon DEF WaitLock, allocated
<1>a. /\ pc[p] = "wait" /\ pc' = [pc EXCEPT ![p] = "scan"] /\ pc'[p] = "scan"
      /\ \A q \in Slots : q # p => pc'[q] = pc[q]
  BY Zenon DEF WaitLock, ProcTypeOK
<1>1. ProcTypeOK'
  BY <1>0, ProcAssumption, Zenon DEF ProcTypeOK, WaitLock, Results, Statuses, Pids
<1>2. StructsSound'
  BY <1>0, ProcAssumption DEF StructsSound, ProcTypeOK, WaitLock
<1>3. PtableSound'
  BY <1>0, ProcAssumption, Zenon DEF PtableSound, ProcTypeOK, WaitLock
<1>4. ExitsRight'
  BY <1>0, ProcAssumption DEF ExitsRight, ProcTypeOK, WaitLock
<1>5. ChildrenSound'
  BY <1>0, <1>a, ChildrenKept, Zenon DEF WaitLock, Making
<1>6. StatusExact'
  BY <1>0, <1>1, <1>a, StatusKept, Zenon DEF WaitLock
<1>7. FamiliesKnown'
  BY <1>0, <1>1, <1>a, FamiliesKept, Zenon DEF WaitLock, Making
<1>8. ScansRight'
  <2>1. \A q \in Slots : pc[q] # "scan"
    BY ProcAssumption, Zenon DEF WaitLock, ScansRight
  <2>2. pos[p] = 1 /\ \A k \in 1..Len(ptable) : ~(k < 1)
    BY <1>a, <2>1 DEF ScansRight, ProcTypeOK
  <2> QED
    BY <1>a, <2>1, <2>2, Zenon DEF ScansRight, WaitLock, ProcTypeOK
<1>9. ErrChildRight'
  BY <1>0, <1>1, <1>a, ErrKept, Zenon DEF WaitLock
<1> QED
  BY <1>1, <1>2, <1>3, <1>4, <1>5, <1>6, <1>7, <1>8, <1>9, Zenon

\* The flag follows the status.
LEMMA ExitFlagKeeps ==
  ASSUME ProcInv, NEW p \in Slots, ExitFlag(p)
  PROVE  ProcInv'
<1> USE DEF ProcInv, fields, waitVars, ghosts
<1>0. allocated' = allocated
  BY Zenon DEF ExitFlag, allocated
<1>a. /\ pc[p] = "exit" /\ pc' = [pc EXCEPT ![p] = "gone"] /\ pc'[p] = "gone"
      /\ \A q \in Slots : q # p => pc'[q] = pc[q]
  BY Zenon DEF ExitFlag, ProcTypeOK
<1>1. ProcTypeOK'
  BY <1>0, ProcAssumption, Zenon DEF ProcTypeOK, ExitFlag, Results, Statuses, Pids
<1>2. StructsSound'
  BY <1>0, ProcAssumption, Zenon DEF StructsSound, ProcTypeOK, ExitFlag
<1>3. PtableSound'
  BY <1>0, ProcAssumption, Zenon DEF PtableSound, ProcTypeOK, ExitFlag
<1>4. ExitsRight'
  BY <1>0, ProcAssumption DEF ExitsRight, ProcTypeOK, ExitFlag
<1>5. ChildrenSound'
  BY <1>0, <1>a, ChildrenKept, Zenon DEF ExitFlag, Making
<1>6. StatusExact'
  BY <1>0, <1>1, <1>a, StatusKept, Zenon DEF ExitFlag
<1>7. FamiliesKnown'
  BY <1>0, <1>1, <1>a, FamiliesKept, Zenon DEF ExitFlag, Making
<1>8. ScansRight'
  <2>1. \A q \in Slots : pc'[q] = "wait" => target'[q] \in Pids \cup {ANY_CHILD}
    BY <1>a, Zenon DEF ScansRight, ExitFlag
  <2> QED
    BY <1>a, <2>1, ScansKept, Zenon DEF ExitFlag, ProcTypeOK
<1>9. ErrChildRight'
  BY <1>0, <1>1, <1>a, ErrKept, Zenon DEF ExitFlag
<1> QED
  BY <1>1, <1>2, <1>3, <1>4, <1>5, <1>6, <1>7, <1>8, <1>9, Zenon

\* A process without a parent stops.
LEMMA ExitParentlessKeeps ==
  ASSUME ProcInv, NEW p \in Slots, ExitParentless(p)
  PROVE  ProcInv'
<1> USE DEF ProcInv, fields, waitVars, ghosts
<1>0. allocated' = allocated
  BY Zenon DEF ExitParentless, allocated
<1>a. /\ pc[p] = "user" /\ pc' = [pc EXCEPT ![p] = "gone"] /\ pc'[p] = "gone"
      /\ \A q \in Slots : q # p => pc'[q] = pc[q]
  BY Zenon DEF ExitParentless, ProcTypeOK
<1>1. ProcTypeOK'
  BY <1>0, ProcAssumption, Zenon DEF ProcTypeOK, ExitParentless, Results, Statuses, Pids
<1>2. StructsSound'
  BY <1>0, ProcAssumption DEF StructsSound, ProcTypeOK, ExitParentless
<1>3. PtableSound'
  BY <1>0, ProcAssumption, Zenon DEF PtableSound, ProcTypeOK, ExitParentless
<1>4. ExitsRight'
  BY <1>0, ProcAssumption DEF ExitsRight, ProcTypeOK, ExitParentless
<1>5. ChildrenSound'
  BY <1>0, <1>a, ChildrenKept, Zenon DEF ExitParentless, Making
<1>6. StatusExact'
  BY <1>0, <1>1, <1>a, StatusKept, Zenon DEF ExitParentless
<1>7. FamiliesKnown'
  BY <1>0, <1>1, <1>a, FamiliesKept, Zenon DEF ExitParentless, Making
<1>8. ScansRight'
  <2>1. \A q \in Slots : pc'[q] = "wait" => target'[q] \in Pids \cup {ANY_CHILD}
    BY <1>a, Zenon DEF ScansRight, ExitParentless
  <2> QED
    BY <1>a, <2>1, ScansKept, Zenon DEF ExitParentless, ProcTypeOK
<1>9. ErrChildRight'
  BY <1>0, <1>1, <1>a, ErrKept, Zenon DEF ExitParentless
<1> QED
  BY <1>1, <1>2, <1>3, <1>4, <1>5, <1>6, <1>7, <1>8, <1>9, Zenon

\* The status of a process that was running, known to nobody yet.
LEMMA ExitKeeps ==
  ASSUME ProcInv, NEW p \in Slots, NEW st \in Status[pid[p]], proc_exit(p, st)
  PROVE  ProcInv'
<1> USE DEF ProcInv, fields, waitVars, ghosts
<1>0. allocated' = allocated
  BY Zenon DEF proc_exit, allocated
<1>a. /\ pc[p] = "user" /\ pc' = [pc EXCEPT ![p] = "exit"] /\ pc'[p] = "exit" /\ pid[p] \in Pids
      /\ \A q \in Slots : q # p => pc'[q] = pc[q]
      /\ \A q \in Slots : result'[q] = result[q] \/ result'[q] = NULL
  BY Zenon DEF proc_exit, ProcTypeOK
<1>b. st \in Statuses /\ st # ALIVE
  BY <1>a, ProcAssumption, Zenon DEF Statuses, Pids
<1>c. p \in allocated /\ pid[p] < pid_allocator
  BY <1>a, Zenon DEF StructsSound
<1>d. said[pid[p]] = ALIVE /\ said'[pid[p]] = st /\ exit_status'[p] = st
      /\ \A i \in Pids : i # pid[p] => said'[i] = said[i]
      /\ \A q \in Slots : q # p => exit_status'[q] = exit_status[q]
  <2>1. said[pid[p]] = ALIVE
    BY <1>a, <1>c, Zenon DEF ExitsRight
  <2>2. said'[pid[p]] = st /\ \A i \in Pids : i # pid[p] => said'[i] = said[i]
    BY <1>a, Zenon DEF proc_exit, ProcTypeOK
  <2>3. exit_status'[p] = st /\ \A q \in Slots : q # p => exit_status'[q] = exit_status[q]
    BY Zenon DEF proc_exit, ProcTypeOK
  <2> QED
    BY <2>1, <2>2, <2>3, Zenon
<1>1. ProcTypeOK'
  BY <1>b, Zenon DEF ProcTypeOK, proc_exit
<1>2. StructsSound'
  BY <1>0, ProcAssumption DEF StructsSound, ProcTypeOK, proc_exit
<1>3. PtableSound'
  BY <1>0, ProcAssumption, Zenon DEF PtableSound, ProcTypeOK, proc_exit
<1>4. ExitsRight'
  <2>1. \A q \in allocated : q \in Slots /\ (q # p => pid[q] # pid[p]) /\ pid[q] \in Pids
    BY <1>c, Zenon DEF StructsSound, allocated, ProcTypeOK
  <2>2. has_exited' = has_exited /\ pid' = pid /\ pid_allocator' = pid_allocator
    BY Zenon DEF proc_exit
  <2>3. \A s \in Slots : has_exited'[s] => pc'[s] = "gone"
    BY <1>a, <2>2, Zenon DEF ExitsRight
  <2>4. \A s \in allocated : has_exited[s] \/ pc'[s] = "exit" =>
          exit_status'[s] = said'[pid[s]] /\ said'[pid[s]] # ALIVE
    BY <1>a, <1>b, <1>d, <2>1 DEF ExitsRight
  <2>5. \A s \in allocated : pc'[s] \notin {"exit", "gone"} => said'[pid[s]] = ALIVE
    BY <1>a, <1>d, <2>1 DEF ExitsRight
  <2>6. \A i \in Pids : i >= pid_allocator => said'[i] = ALIVE
    BY <1>a, <1>c, <1>d DEF ExitsRight, ProcTypeOK, Pids
  <2> QED
    BY <1>0, <2>2, <2>3, <2>4, <2>5, <2>6, Zenon DEF ExitsRight
<1>5. ChildrenSound'
  BY <1>0, <1>a, ChildrenKept, Zenon DEF proc_exit, Making
<1>6. StatusExact'
  <2> SUFFICES ASSUME NEW q \in Slots, NEW i \in Pids, NEW s \in Statuses,
                      result'[q] = <<i, s>>
               PROVE  s # ALIVE /\ s = said'[i]
    BY Zenon DEF StatusExact, Statuses
  <2>1. result[q] = <<i, s>>
    BY <1>a, ResultsApart, Zenon
  <2>2. s # ALIVE /\ s = said[i]
    BY <2>1, Zenon DEF StatusExact, Statuses
  <2> QED
    BY <1>d, <2>2, Zenon
<1>7. FamiliesKnown'
  BY <1>0, <1>1, <1>a, FamiliesKept, Zenon DEF proc_exit, Making
<1>8. ScansRight'
  <2>1. \A q \in Slots : pc'[q] = "wait" => target'[q] \in Pids \cup {ANY_CHILD}
    BY <1>a, Zenon DEF ScansRight, proc_exit
  <2> QED
    BY <1>a, <2>1, ScansKept, Zenon DEF proc_exit, ProcTypeOK
<1>9. ErrChildRight'
  BY <1>0, <1>1, <1>a, ErrKept, Zenon DEF proc_exit
<1> QED
  BY <1>1, <1>2, <1>3, <1>4, <1>5, <1>6, <1>7, <1>8, <1>9, Zenon

\* proc_spawn tells the child its parent and starts it.
LEMMA SpawnStartKeeps ==
  ASSUME ProcInv, NEW p \in Slots, SpawnStart(p)
  PROVE  ProcInv'
<1> USE DEF ProcInv, fields, waitVars, ghosts
<1>0. allocated' = allocated
  BY Zenon DEF SpawnStart, allocated
<1> DEFINE d == child[p]
<1>a. /\ pc[p] = "start" /\ d \in allocated /\ d \in Slots /\ d # p /\ pc[d] = "new"
      /\ d \in Range(ptable) /\ creator[pid[d]] = pid[p] /\ p \in allocated
  BY Zenon DEF SpawnStart, ChildrenSound, Making, allocated, StructsSound
<1>b. \A q \in Slots : Making(q) /\ q # p => child[q] # d
  BY <1>a, Zenon DEF ChildrenSound, Making
<1>c. /\ pc'[p] = "user" /\ pc'[d] = "user" /\ child'[p] = NULL /\ parent'[d] = p
      /\ \A q \in Slots \ {p, d} : pc'[q] = pc[q]
      /\ \A q \in Slots \ {p} : child'[q] = child[q]
      /\ \A q \in Slots \ {d} : parent'[q] = parent[q]
  BY <1>a, Zenon DEF SpawnStart, ProcTypeOK
<1>e. UNCHANGED <<pool, pid, has_exited, exit_status, pid_allocator, ptable, ptable_lock,
                  target, pos, found, result, creator, said, reaper>>
  BY Zenon DEF SpawnStart
<1> HIDE DEF d
<1>1. ProcTypeOK'
  BY <1>a, Zenon DEF ProcTypeOK, SpawnStart, d
<1>2. StructsSound'
  BY <1>0, <1>a, <1>c, <1>e DEF StructsSound, allocated
<1>3. PtableSound'
  BY <1>0, <1>e, Zenon DEF PtableSound
<1>4. ExitsRight'
  BY <1>0, <1>a, <1>c, <1>e DEF ExitsRight, allocated
<1>5. ChildrenSound'
  <2>1. \A q \in Slots : Making(q)' => Making(q) /\ q # p /\ q # d /\ child'[q] = child[q]
    BY <1>a, <1>c, Zenon DEF Making
  <2>2. ASSUME NEW q \in Slots, Making(q)'
        PROVE  /\ child'[q] \in allocated' /\ child'[q] # q
               /\ creator'[pid'[child'[q]]] = pid'[q]
               /\ pc'[q] \in {"fork", "spawn"} => child'[q] \notin Range(ptable)'
               /\ pc'[q] = "fork" => parent'[child'[q]] = q
               /\ pc'[q] \in {"spawn", "start"} => pc'[child'[q]] = "new"
               /\ pc'[q] = "start" => child'[q] \in Range(ptable)'
    <3>1. /\ Making(q) /\ q # p /\ q # d /\ child'[q] = child[q] /\ child[q] # d /\ pc'[q] = pc[q]
      BY <1>b, <1>c, <2>1, <2>2, Zenon
    <3>2. child[q] \in allocated /\ child[q] \in Slots
      BY <3>1, Zenon DEF ChildrenSound, allocated
    <3>3. pc[q] \in {"spawn", "start"} => pc'[child[q]] = "new"
      BY <1>a, <1>c, <3>1, <3>2 DEF ChildrenSound
    <3> QED
      BY <1>0, <1>c, <1>e, <3>1, <3>2, <3>3 DEF ChildrenSound
  <2>3. \A q, r \in Slots : Making(q)' /\ Making(r)' /\ child'[q] = child'[r] => q = r
    BY <2>1 DEF ChildrenSound
  <2> QED
    BY <2>2, <2>3, Zenon DEF ChildrenSound
<1>6. StatusExact'
  BY <1>e, StatusKept, Zenon
<1>7. FamiliesKnown'
  <2>1. ASSUME NEW q \in allocated, NEW i \in Pids, Unreaped(q, i)'
        PROVE  \E c \in allocated : IsAt(c, q, i)'
    <3>1. Unreaped(q, i) /\ q \in Slots
      BY <1>e, <2>1, Zenon DEF Unreaped, allocated
    <3>2. PICK c \in allocated : IsAt(c, q, i)
      BY <3>1, Zenon DEF FamiliesKnown
    <3>3. c \in Slots
      BY Zenon DEF allocated
    <3>4. CASE c = d
      <4>1. q = p
        BY <1>a, <3>1, <3>2, <3>4, Zenon DEF IsAt, Unreaped, StructsSound
      <4> QED
        BY <1>a, <1>c, <1>e, <3>2, <3>4, <4>1, Zenon DEF IsAt
    <3>5. CASE c # d
      <4>1. CASE q = p
        BY <1>a, <1>c, <1>e, <3>2, <3>3, <3>5, <4>1, Zenon DEF IsAt, d
      <4>2. CASE q # p
        BY <1>a, <1>c, <1>e, <3>1, <3>2, <3>3, <3>5, <4>2, Zenon DEF IsAt
      <4> QED
        BY <4>1, <4>2, Zenon
    <3> QED
      BY <3>4, <3>5, Zenon
  <2> QED
    BY <1>0, <1>e, <2>1, Zenon DEF FamiliesKnown
<1>8. ScansRight'
  <2>1. \A q \in Slots : pc'[q] = "wait" => target'[q] \in Pids \cup {ANY_CHILD}
    BY <1>a, <1>c, <1>e, Zenon DEF ScansRight
  <2>2. \A q \in Slots : pc'[q] = "scan" <=> pc[q] = "scan"
    BY <1>a, <1>c, Zenon
  <2>3. \A q \in Slots, c \in Range(ptable) :
          pc[q] = "scan" => pid'[c] = pid[c] /\ (parent'[c] = q => parent[c] = q)
    <3>1. Range(ptable) \subseteq Slots
      BY Zenon DEF PtableSound, allocated
    <3> QED
      BY <1>a, <1>c, <1>e, <3>1, Zenon
  <2> QED
    BY <1>e, <2>1, <2>2, <2>3, ScansKept, Zenon DEF ProcTypeOK
<1>9. ErrChildRight'
  BY <1>0, <1>e, ErrKept, Zenon
<1> QED
  BY <1>1, <1>2, <1>3, <1>4, <1>5, <1>6, <1>7, <1>8, <1>9, Zenon

\* The end of a pass: all entries have been looked at.
LEMMA PassEndKeeps ==
  ASSUME ProcInv, NEW p \in Slots, WaitPassEnd(p)
  PROVE  ProcInv'
<1> USE DEF ProcInv, fields, waitVars, ghosts
<1>0. allocated' = allocated
  BY Zenon DEF WaitPassEnd, PassOver, allocated
<1>b. UNCHANGED <<pool, pid, parent, has_exited, exit_status, pid_allocator, ptable, child, creator,
                  said, reaper>>
  BY Zenon DEF WaitPassEnd, PassOver
<1>a. /\ pc[p] = "scan" /\ pos[p] > Len(ptable) /\ ptable_lock' = NULL /\ ptable_lock = p
      /\ pc'[p] \in {"wait", "user"} /\ pos'[p] = 1 /\ found'[p] = FALSE
      /\ \A q \in Slots \ {p} : /\ pc'[q] = pc[q] /\ pos'[q] = pos[q] /\ found'[q] = found[q]
                               /\ result'[q] = result[q] /\ target'[q] = target[q]
      /\ p \in allocated /\ target[p] \in Pids \cup {ANY_CHILD}
  BY Zenon DEF WaitPassEnd, PassOver, ProcTypeOK, ScansRight, StructsSound
<1>c. \/ found[p] = TRUE /\ result'[p] = NULL /\ pc'[p] = "wait" /\ target'[p] = target[p]
      \/ found[p] = FALSE /\ result'[p] = <<ERR_CHILD, target[p]>>
         /\ pc'[p] = "user" /\ target'[p] = NULL
  <2>1. <<ERR_CHILD, target[p]>> # NULL
    <3>1. 0 \in Pids /\ ALIVE \in Statuses
      BY ProcAssumption DEF Pids, Statuses
    <3> QED
      BY <1>a, <3>1, ResultsApart, Zenon
  <2>2. CASE found[p] = TRUE
    BY <2>2, Zenon DEF WaitPassEnd, PassOver, ProcTypeOK
  <2>3. CASE found[p] = FALSE
    BY <2>1, <2>3, Zenon DEF WaitPassEnd, PassOver, ProcTypeOK
  <2> QED
    BY <2>2, <2>3, Zenon DEF ProcTypeOK
<1>1. ProcTypeOK'
  <2>1. <<ERR_CHILD, target[p]>> \in Results
    BY <1>a, Zenon DEF Results
  <2>2. /\ pc' \in [Slots -> {"user", "new", "fork", "spawn", "start", "wait", "scan", "exit", "gone"}]
        /\ pos' \in [Slots -> Nat \ {0}] /\ found' \in [Slots -> BOOLEAN]
        /\ target' \in [Slots -> Pids \cup {ANY_CHILD, NULL}]
    BY DEF ProcTypeOK, WaitPassEnd, PassOver
  <2>3. result' \in [Slots -> Results \cup {NULL}]
    BY <2>1, Zenon DEF ProcTypeOK, WaitPassEnd, PassOver
  <2> QED
    BY <1>a, <1>b, <2>2, <2>3, Zenon DEF ProcTypeOK
<1>2. StructsSound'
  BY <1>0, <1>a, <1>b, Zenon DEF StructsSound, allocated
<1>3. PtableSound'
  BY <1>0, <1>b, Zenon DEF PtableSound
<1>4. ExitsRight'
  BY <1>0, <1>a, <1>b DEF ExitsRight, allocated
<1>5. ChildrenSound'
  <2>1. \A q \in Slots : Making(q)' => Making(q) /\ q # p /\ pc'[q] = pc[q]
    BY <1>a, Zenon DEF Making
  <2>2. \A q \in Slots : pc[q] = "new" => pc'[q] = "new"
    BY <1>a, Zenon
  <2>3. \A q \in Slots : Making(q) => child[q] \in Slots
    BY Zenon DEF ChildrenSound, allocated
  <2> QED
    BY <1>0, <1>b, <2>1, <2>2, <2>3 DEF ChildrenSound
<1>6. StatusExact'
  BY <1>a, <1>b, <1>c, StatusKept, Zenon
<1>7. FamiliesKnown'
  BY <1>0, <1>a, <1>b, FamiliesKept, Zenon DEF Making
<1>8. ScansRight'
  <2>1. \A q \in Slots : pc'[q] # "scan"
    BY <1>a, Zenon DEF ScansRight
  <2>2. \A q \in Slots : pc'[q] = "wait" => target'[q] \in Pids \cup {ANY_CHILD}
    BY <1>a, <1>c, Zenon DEF ScansRight
  <2>3. \A q \in Slots : pos'[q] = 1 /\ found'[q] = FALSE
    BY <1>a, Zenon DEF ScansRight
  <2> QED
    BY <2>1, <2>2, <2>3, Zenon DEF ScansRight
<1>9. ErrChildRight'
  <2> SUFFICES ASSUME NEW q \in allocated, NEW i \in Pids, Unreaped(q, i),
                      result'[q] \in {<<ERR_CHILD, ANY_CHILD>>, <<ERR_CHILD, i>>}
               PROVE  FALSE
    BY <1>0, <1>b, Zenon DEF ErrChildRight, Unreaped
  <2>1. q \in Slots
    BY Zenon DEF allocated
  <2>2. CASE q # p
    BY <1>a, <2>1, <2>2, Zenon DEF ErrChildRight
  <2>3. CASE q = p
    <3>1. result'[p] # NULL
      <4>1. ALIVE \in Statuses
        BY Zenon DEF Statuses
      <4> QED
        BY <2>3, <4>1, ResultsApart, Zenon
    <3>2. found[p] = FALSE /\ target[p] \in {ANY_CHILD, i}
      BY <1>c, <2>3, <3>1
    <3>3. PICK c \in allocated : IsAt(c, p, i)
      BY <2>3, Zenon DEF FamiliesKnown
    <3>4. c \in Range(ptable) /\ IsChild(c, p)
      BY <1>a, <3>2, <3>3, Zenon DEF IsAt, IsChild
    <3>5. PICK k \in 1..Len(ptable) : c = ptable[k]
      BY <3>4 DEF Range, ProcTypeOK
    <3>6. k < pos[p]
      BY <1>a DEF ProcTypeOK
    <3> QED
      BY <1>a, <3>2, <3>4, <3>5, <3>6, Zenon DEF ScansRight
  <2> QED
    BY <2>2, <2>3, Zenon
<1> QED
  BY <1>1, <1>2, <1>3, <1>4, <1>5, <1>6, <1>7, <1>8, <1>9, Zenon

\* One entry of the table.
LEMMA LookKeeps ==
  ASSUME ProcInv, NEW p \in Slots, WaitLook(p)
  PROVE  ProcInv'
<1> USE DEF ProcInv, fields, waitVars, ghosts
<1>0. allocated' = allocated
  BY Zenon DEF WaitLook, allocated
<1> DEFINE c == ptable[pos[p]]
<1>b. UNCHANGED <<pool, pid, parent, has_exited, exit_status, pid_allocator, ptable, ptable_lock, pc,
                  child, target, result, creator, said, reaper>>
  BY Zenon DEF WaitLook
<1>a. /\ pc[p] = "scan" /\ pos[p] <= Len(ptable) /\ pos'[p] = pos[p] + 1
      /\ pos[p] \in 1..Len(ptable) /\ c \in Slots
      /\ \A q \in Slots \ {p} : pos'[q] = pos[q] /\ found'[q] = found[q]
      /\ found'[p] = (found[p] \/ IsChild(c, p))
  BY DEF WaitLook, ProcTypeOK
<1> HIDE DEF c
<1>1. ProcTypeOK'
  <2>1. pos' \in [Slots -> Nat \ {0}]
    <3>1. pos' = [pos EXCEPT ![p] = pos[p] + 1]
      BY Zenon DEF WaitLook
    <3>2. pos \in [Slots -> Nat \ {0}] /\ pos[p] + 1 \in Nat \ {0}
      BY DEF ProcTypeOK
    <3> QED
      BY <3>1, <3>2, Zenon
  <2>2. (found[p] \/ IsChild(c, p)) \in BOOLEAN
    BY Zenon DEF ProcTypeOK
  <2>3. found' \in [Slots -> BOOLEAN]
    BY <2>2, Zenon DEF ProcTypeOK, WaitLook, c
  <2> QED
    BY <1>b, <2>1, <2>3, Zenon DEF ProcTypeOK
<1>2. StructsSound'
  BY <1>0, <1>b, Zenon DEF StructsSound
<1>3. PtableSound'
  BY <1>0, <1>b, Zenon DEF PtableSound
<1>4. ExitsRight'
  BY <1>0, <1>b, Zenon DEF ExitsRight
<1>5. ChildrenSound'
  BY <1>0, <1>b, Zenon DEF ChildrenSound, Making
<1>6. StatusExact'
  BY <1>b, StatusKept, Zenon
<1>7. FamiliesKnown'
  BY <1>0, <1>b, FamiliesKept, Zenon
<1>8. ScansRight'
  <2>1. ASSUME NEW q \in Slots, pc[q] = "scan"
        PROVE  /\ ptable_lock = q
               /\ found'[q] \/ \A k \in 1..Len(ptable) : k < pos'[q] => ~IsChild(ptable[k], q)
    <3>1. /\ ptable_lock = q
          /\ found[q] \/ \A k \in 1..Len(ptable) : k < pos[q] => ~IsChild(ptable[k], q)
      BY <2>1, Zenon DEF ScansRight
    <3>2. q = p
      BY <1>a, <2>1, Zenon DEF ScansRight
    <3>3. CASE found[p] \/ IsChild(c, p)
      <4>1. found'[p]
        BY <1>a, <3>3, Zenon
      <4> QED
        BY <3>1, <3>2, <4>1, Zenon
    <3>4. CASE ~found[p] /\ ~IsChild(c, p)
      <4>1. ASSUME NEW k \in 1..Len(ptable), k < pos'[p]
            PROVE  ~IsChild(ptable[k], p)
        <5>1. k < pos[p] \/ k = pos[p]
          BY <1>a, <4>1
        <5> QED
          BY <3>1, <3>2, <3>4, <5>1, Zenon DEF c
      <4> QED
        BY <3>1, <3>2, <4>1, Zenon
    <3> QED
      BY <3>3, <3>4, Zenon
  <2>2. \A q \in Slots : \A k : IsChild(ptable[k], q)' <=> IsChild(ptable'[k], q)
    BY <1>b, Zenon DEF IsChild
  <2>3. \A q \in Slots : pc'[q] # "scan" => pos'[q] = 1 /\ found'[q] = FALSE
    BY <1>a, <1>b, Zenon DEF ScansRight
  <2> QED
    BY <1>b, <2>1, <2>2, <2>3, Zenon DEF ScansRight, IsChild
<1>9. ErrChildRight'
  BY <1>0, <1>b, ErrKept, Zenon
<1> QED
  BY <1>1, <1>2, <1>3, <1>4, <1>5, <1>6, <1>7, <1>8, <1>9, Zenon

-----------------------------------------------------------------------------
(* Creating a process, adding it to the table and reaping it.              *)

\* proc_fork and proc_spawn: a struct of the pool, a new pid, a child that nobody else knows.
LEMMA NewKeeps ==
  ASSUME ProcInv, NEW p \in Slots, NEW c \in Slots, NEW par, NEW next, NEW at,
         NewProc(p, c, par, next, at),
         \/ par = p /\ next = "fork" /\ at = "user"
         \/ par = NULL /\ next = "spawn" /\ at = "new"
  PROVE  ProcInv'
<1> USE DEF ProcInv, fields, waitVars, ghosts
<1> DEFINE n == pid_allocator
<1>a. /\ pc[p] = "user" /\ p \in allocated /\ n \in Pids /\ n + 1 \in 1..MaxPid
      /\ pid[p] < n /\ pid[p] \in Pids /\ n \in 1..MaxPid
  <2>1. pc[p] = "user" /\ n < MaxPid
    BY Zenon DEF NewProc
  <2>2. p \in allocated
    BY <2>1, Zenon DEF StructsSound
  <2>3. n \in 1..MaxPid /\ MaxPid \in Nat /\ pid[p] \in Pids /\ pid[p] < n
    BY <2>2, ProcAssumption, Zenon DEF StructsSound, ProcTypeOK
  <2> HIDE DEF n, ProcInv
  <2> QED
    BY <2>1, <2>2, <2>3 DEF Pids
<1>b. /\ pool' \in Seq(Slots) /\ IsInjective(pool') /\ allocated' = allocated \cup {c}
      /\ c \notin allocated
  <2>1. pool \in Seq(Slots) /\ pool # <<>> /\ IsInjective(pool) /\ c = Head(pool) /\ pool' = Tail(pool)
    BY Zenon DEF NewProc, ProcTypeOK, StructsSound
  <2>2. /\ pool' \in Seq(Slots) /\ IsInjective(pool') /\ c \in Range(pool)
        /\ Range(pool') = Range(pool) \ {c}
    BY <2>1, SeqTail, Zenon
  <2>3. Range(pool)' = Range(pool')
    BY Zenon DEF Range
  <2> QED
    BY <2>2, <2>3, Zenon DEF allocated
<1>c. c # p /\ pc[c] = "gone"
  BY <1>a, <1>b, Zenon DEF StructsSound
<1>d. /\ pid' = [pid EXCEPT ![c] = n] /\ n' = n + 1 /\ parent' = [parent EXCEPT ![c] = par]
      /\ has_exited' = [has_exited EXCEPT ![c] = FALSE]
      /\ exit_status' = [exit_status EXCEPT ![c] = ALIVE]
      /\ pc' = [pc EXCEPT ![p] = next, ![c] = at] /\ child' = [child EXCEPT ![p] = c]
      /\ result' = [result EXCEPT ![p] = NULL, ![c] = NULL]
      /\ creator' = [creator EXCEPT ![n] = pid[p]]
  BY Zenon DEF NewProc
<1>e. UNCHANGED <<ptable, ptable_lock, target, pos, found, said, reaper>>
  BY Zenon DEF NewProc
<1>f. /\ pid'[c] = n /\ parent'[c] = par /\ has_exited'[c] = FALSE /\ exit_status'[c] = ALIVE
      /\ \A q \in Slots \ {c} : /\ pid'[q] = pid[q] /\ parent'[q] = parent[q]
                               /\ has_exited'[q] = has_exited[q]
                               /\ exit_status'[q] = exit_status[q]
  BY <1>d, Zenon DEF ProcTypeOK
<1>g. /\ pc'[p] = next /\ pc'[c] = at /\ child'[p] = c /\ result'[p] = NULL /\ result'[c] = NULL
      /\ \A q \in Slots \ {p, c} : pc'[q] = pc[q] /\ result'[q] = result[q]
      /\ \A q \in Slots \ {p} : child'[q] = child[q]
  BY <1>c, <1>d, Zenon DEF ProcTypeOK
<1>h. creator'[n] = pid[p] /\ \A i \in Pids \ {n} : creator'[i] = creator[i]
  BY <1>a, <1>d, Zenon DEF ProcTypeOK
<1>i. c \notin Range(ptable) /\ Range(ptable)' = Range(ptable)
  BY <1>b, <1>e, Zenon DEF PtableSound, Range
<1>j. n' = n + 1
  BY <1>d, Zenon
<1> HIDE DEF n
<1>1. ProcTypeOK'
  <2>1. ALIVE \in Statuses
    BY Zenon DEF Statuses
  <2>2. /\ pid' \in [Slots -> Pids] /\ parent' \in [Slots -> Slots \cup {NULL}]
        /\ exit_status' \in [Slots -> Statuses]
    BY <1>a, <1>d, <2>1, Zenon DEF ProcTypeOK
  <2>3. has_exited' \in [Slots -> BOOLEAN]
    BY <1>d, Zenon DEF ProcTypeOK
  <2>4. /\ pc' \in [Slots -> {"user", "new", "fork", "spawn", "start", "wait", "scan", "exit", "gone"}]
        /\ child' \in [Slots -> Slots \cup {NULL}] /\ result' \in [Slots -> Results \cup {NULL}]
    BY <1>d, Zenon DEF ProcTypeOK
  <2>5. creator' \in [Pids -> Pids \cup {NULL}] /\ pid_allocator' \in 1..MaxPid
    BY <1>a, <1>d, Zenon DEF ProcTypeOK, n
  <2> QED
    BY <1>b, <1>e, <2>2, <2>3, <2>4, <2>5, Zenon DEF ProcTypeOK
<1>2. StructsSound'
  <2>1. \A s \in allocated : s \in Slots /\ s # c /\ pid'[s] = pid[s] /\ pid[s] < n /\ pid[s] \in Pids
    BY <1>b, <1>f, Zenon DEF StructsSound, allocated, ProcTypeOK, n
  <2>2. \A s \in Slots \ allocated' : pc'[s] = "gone"
    BY <1>a, <1>b, <1>g DEF StructsSound
  <2>3. \A s \in allocated' : pid'[s] < n + 1
    BY <1>a, <1>b, <1>f, <2>1 DEF Pids
  <2>4. \A s, u \in allocated' : pid'[s] = pid'[u] => s = u
    BY <1>a, <1>b, <1>f, <2>1 DEF StructsSound, Pids
  <2> QED
    BY <1>b, <1>j, <2>2, <2>3, <2>4, Zenon DEF StructsSound, n
<1>3. PtableSound'
  BY <1>b, <1>e, <1>i, Zenon DEF PtableSound
<1>4. ExitsRight'
  <2>1. \A s \in allocated : s \in Slots /\ s # c /\ pid'[s] = pid[s]
    BY <1>b, <1>f, Zenon DEF allocated
  <2>2. said[n] = ALIVE
    BY <1>a DEF ExitsRight, n
  <2>3. \A s \in Slots : has_exited'[s] => pc'[s] = "gone"
    BY <1>a, <1>c, <1>f, <1>g DEF ExitsRight
  <2>4. \A s \in allocated' : has_exited'[s] \/ pc'[s] = "exit" =>
          exit_status'[s] = said'[pid'[s]] /\ said'[pid'[s]] # ALIVE
    BY <1>a, <1>b, <1>e, <1>f, <1>g, <2>1 DEF ExitsRight
  <2>5. \A s \in allocated' : pc'[s] \notin {"exit", "gone"} => said'[pid'[s]] = ALIVE
    BY <1>a, <1>b, <1>e, <1>f, <1>g, <2>1, <2>2 DEF ExitsRight
  <2>6. \A i \in Pids : i >= n + 1 => said'[i] = ALIVE
    BY <1>a, <1>e DEF ExitsRight, Pids, n
  <2> QED
    BY <1>j, <2>3, <2>4, <2>5, <2>6, Zenon DEF ExitsRight, n
<1>5. ChildrenSound'
  <2>1. \A q \in Slots : Making(q) => /\ q # p /\ q # c /\ child[q] \in allocated
                                  /\ child[q] \in Slots /\ child[q] # c
                                  /\ (pc[q] # "fork" => child[q] # p)
    <3>1. \A q \in Slots : Making(q) => q # p /\ q # c /\ child[q] \in allocated
      BY <1>a, <1>c, Zenon DEF ChildrenSound, Making
    <3>2. \A q \in Slots : Making(q) /\ pc[q] # "fork" => child[q] # p
      BY <1>a, <3>1, Zenon DEF ChildrenSound, Making, StructsSound
    <3> QED
      BY <1>b, <3>1, <3>2, Zenon DEF allocated
  <2>2. \A q \in Slots : Making(q)' /\ q # p => /\ Making(q) /\ pc'[q] = pc[q]
                                            /\ child'[q] = child[q]
    BY <1>g, Zenon DEF Making
  <2>3. ASSUME NEW q \in Slots, Making(q)'
        PROVE  /\ child'[q] \in allocated' /\ child'[q] # q
               /\ creator'[pid'[child'[q]]] = pid'[q]
               /\ pc'[q] \in {"fork", "spawn"} => child'[q] \notin Range(ptable)'
               /\ pc'[q] = "fork" => parent'[child'[q]] = q
               /\ pc'[q] \in {"spawn", "start"} => pc'[child'[q]] = "new"
               /\ pc'[q] = "start" => child'[q] \in Range(ptable)'
    <3>1. CASE q = p
      BY <1>b, <1>c, <1>f, <1>g, <1>h, <1>i, <3>1, Zenon
    <3>2. CASE q # p
      <4>1. /\ Making(q) /\ q # c /\ child'[q] = child[q] /\ pc'[q] = pc[q]
            /\ child[q] \in allocated /\ child[q] \in Slots /\ child[q] # c
            /\ (pc[q] # "fork" => child[q] # p)
        BY <2>1, <2>2, <2>3, <3>2, Zenon
      <4>2. creator'[pid[child[q]]] = creator[pid[child[q]]]
        <5>1. pid[child[q]] \in Pids /\ pid[child[q]] < n /\ n \in Nat
          BY <1>a, <4>1 DEF StructsSound, ProcTypeOK, Pids, n
        <5> QED
          BY <1>h, <5>1 DEF Pids
      <4> QED
        BY <1>b, <1>f, <1>g, <1>i, <4>1, <4>2 DEF ChildrenSound
    <3> QED
      BY <3>1, <3>2, Zenon
  <2>4. \A q, r \in Slots : Making(q)' /\ Making(r)' /\ child'[q] = child'[r] => q = r
    BY <1>g, <2>1, <2>2 DEF ChildrenSound
  <2> QED
    BY <2>3, <2>4, Zenon DEF ChildrenSound
<1>6. StatusExact'
  BY <1>e, <1>g, StatusKept, Zenon
<1>7. FamiliesKnown'
  <2>1. ASSUME NEW q \in allocated', NEW i \in Pids, Unreaped(q, i)'
        PROVE  \E d \in allocated' : IsAt(d, q, i)'
    <3>1. CASE i = n
      <4>1. q = p
        <5>1. pid'[q] = pid[p] /\ pid'[p] = pid[p] /\ p \in allocated'
          BY <1>a, <1>b, <1>c, <1>f, <1>h, <2>1, <3>1, Zenon DEF Unreaped
        <5> QED
          BY <1>2, <5>1, Zenon DEF StructsSound
      <4>2. IsAt(c, p, i)'
        BY <1>f, <1>g, <3>1, Zenon DEF IsAt
      <4> QED
        BY <1>b, <4>1, <4>2, Zenon
    <3>2. CASE i # n
      <4>1. creator[i] = pid'[q] /\ reaper[i] = <<>>
        BY <1>e, <1>h, <2>1, <3>2, Zenon DEF Unreaped
      <4>2. q # c
        <5>1. creator[i] # NULL => creator[i] < n
          BY Zenon DEF FamiliesKnown, n
        <5>2. n # NULL
          BY <1>a, ProcAssumption DEF Pids
        <5> QED
          BY <1>a, <1>f, <4>1, <5>1, <5>2 DEF Pids
      <4>3. q \in allocated /\ q \in Slots /\ Unreaped(q, i)
        BY <1>b, <1>f, <4>1, <4>2, Zenon DEF Unreaped, allocated
      <4>4. PICK d \in allocated : IsAt(d, q, i)
        BY <4>3, Zenon DEF FamiliesKnown
      <4>5. d # c /\ d \in Slots /\ d \in allocated'
        BY <1>b, Zenon DEF allocated
      <4>6. IsAt(d, q, i)'
        <5>1. CASE q = p
          BY <1>a, <1>f, <1>i, <4>3, <4>4, <4>5, <5>1, Zenon DEF IsAt
        <5>2. CASE q # p
          BY <1>f, <1>g, <1>i, <4>2, <4>3, <4>4, <4>5, <5>2, Zenon DEF IsAt
        <5> QED
          BY <5>1, <5>2, Zenon
      <4> QED
        BY <4>5, <4>6, Zenon
    <3> QED
      BY <3>1, <3>2, Zenon
  <2>2. \A i \in Pids : creator'[i] # NULL => i < n + 1 /\ creator'[i] < n + 1
    <3>1. \A i \in Pids : creator[i] # NULL => i < n /\ creator[i] < n /\ creator[i] \in Pids
      BY Zenon DEF FamiliesKnown, ProcTypeOK, n
    <3> QED
      BY <1>a, <1>h, <3>1 DEF Pids
  <2>3. \A i \in Pids : i >= n + 1 => reaper'[i] = <<>>
    BY <1>a, <1>e DEF FamiliesKnown, Pids, n
  <2> QED
    BY <1>j, <2>1, <2>2, <2>3, Zenon DEF FamiliesKnown, n
<1>8. ScansRight'
  <2>1. \A q \in Slots : pc'[q] = "wait" => target'[q] \in Pids \cup {ANY_CHILD}
    BY <1>e, <1>g, Zenon DEF ScansRight
  <2>2. \A q \in Slots : pc'[q] = "scan" <=> pc[q] = "scan"
    BY <1>a, <1>c, <1>g, Zenon
  <2>3. \A q \in Slots, d \in Range(ptable) :
          pc[q] = "scan" => pid'[d] = pid[d] /\ (parent'[d] = q => parent[d] = q)
    <3>1. Range(ptable) \subseteq Slots
      BY Zenon DEF PtableSound, allocated
    <3> QED
      BY <1>f, <1>i, <3>1, Zenon
  <2> QED
    BY <1>e, <2>1, <2>2, <2>3, ScansKept, Zenon DEF ProcTypeOK
<1>9. ErrChildRight'
  <2> SUFFICES ASSUME NEW q \in allocated', NEW i \in Pids, Unreaped(q, i)',
                      result'[q] \in {<<ERR_CHILD, ANY_CHILD>>, <<ERR_CHILD, i>>}
               PROVE  FALSE
    BY Zenon DEF ErrChildRight
  <2>1. result'[q] # NULL
    <3>1. ALIVE \in Statuses
      BY Zenon DEF Statuses
    <3> QED
      BY <3>1, ResultsApart, Zenon
  <2>2. q # p /\ q # c /\ q \in allocated /\ q \in Slots
    BY <1>b, <1>g, <2>1, Zenon DEF allocated
  <2>3. i # n
    BY <1>a, <1>f, <1>h, <1>c, <2>2 DEF Unreaped, StructsSound
  <2>4. Unreaped(q, i)
    BY <1>e, <1>f, <1>h, <2>2, <2>3, Zenon DEF Unreaped
  <2> QED
    BY <1>g, <2>2, <2>4, Zenon DEF ErrChildRight
<1> QED
  BY <1>1, <1>2, <1>3, <1>4, <1>5, <1>6, <1>7, <1>8, <1>9, Zenon

\* The child is in the table once, and nobody is in a pass over it.
LEMMA AppendKeeps ==
  ASSUME ProcInv, NEW p \in Slots, PtableAppend(p)
  PROVE  ProcInv'
<1> USE DEF ProcInv, fields, waitVars, ghosts
<1>0. allocated' = allocated
  BY Zenon DEF PtableAppend, allocated
<1> DEFINE d == child[p]
<1>a. /\ pc[p] \in {"fork", "spawn"} /\ Making(p) /\ ptable_lock = NULL
      /\ d \in allocated /\ d \in Slots /\ d # p /\ d \notin Range(ptable)
  BY Zenon DEF PtableAppend, ChildrenSound, Making, allocated
<1>b. UNCHANGED <<pool, pid, parent, has_exited, exit_status, pid_allocator, ptable_lock, target, pos,
                  found, result, creator, said, reaper>>
  BY Zenon DEF PtableAppend
<1>c. /\ pc[p] = "fork" => pc'[p] = "user"
      /\ pc[p] = "spawn" => pc'[p] = "start" /\ child'[p] = d
      /\ \A q \in Slots \ {p} : pc'[q] = pc[q] /\ child'[q] = child[q]
  BY Zenon DEF PtableAppend, ProcTypeOK
<1>d. /\ ptable' \in Seq(Slots) /\ IsInjective(ptable')
      /\ Range(ptable)' = Range(ptable) \cup {d}
  <2>1. ptable' = Append(ptable, d) /\ ptable \in Seq(Slots) /\ IsInjective(ptable)
    BY Zenon DEF PtableAppend, ProcTypeOK, PtableSound
  <2>2. Range(ptable)' = Range(ptable')
    BY Zenon DEF Range
  <2> QED
    BY <1>a, <2>1, <2>2, SeqAppend
<1>e. \A q \in Slots : pc[q] # "scan"
  BY <1>a, ProcAssumption, Zenon DEF ScansRight
<1> HIDE DEF d
<1>1. ProcTypeOK'
  <2>1. /\ pc' \in [Slots -> {"user", "new", "fork", "spawn", "start", "wait", "scan", "exit", "gone"}]
        /\ child' \in [Slots -> Slots \cup {NULL}]
    BY Zenon DEF ProcTypeOK, PtableAppend
  <2> QED
    BY <1>b, <1>d, <2>1, Zenon DEF ProcTypeOK
<1>2. StructsSound'
  BY <1>0, <1>a, <1>b, <1>c, Zenon DEF StructsSound, allocated
<1>3. PtableSound'
  BY <1>0, <1>a, <1>d, Zenon DEF PtableSound
<1>4. ExitsRight'
  BY <1>0, <1>a, <1>b, <1>c DEF ExitsRight, allocated
<1>5. ChildrenSound'
  <2>1. \A q \in Slots : Making(q)' => Making(q) /\ child'[q] = child[q] /\ (pc'[q] = pc[q] \/ q = p)
    BY <1>a, <1>c, Zenon DEF Making, d
  <2>2. \A q \in Slots : Making(q) /\ q # p => child[q] # d
    BY <1>a, Zenon DEF ChildrenSound, d
  <2>3. \A q \in Slots : pc[q] = "new" => pc'[q] = "new"
    BY <1>a, <1>c, Zenon
  <2>4. ASSUME NEW q \in Slots, Making(q)'
        PROVE  /\ child'[q] \in allocated' /\ child'[q] # q
               /\ creator'[pid'[child'[q]]] = pid'[q]
               /\ pc'[q] \in {"fork", "spawn"} => child'[q] \notin Range(ptable)'
               /\ pc'[q] = "fork" => parent'[child'[q]] = q
               /\ pc'[q] \in {"spawn", "start"} => pc'[child'[q]] = "new"
               /\ pc'[q] = "start" => child'[q] \in Range(ptable)'
    <3>1. Making(q) /\ child'[q] = child[q] /\ child[q] \in allocated /\ child[q] \in Slots
      BY <2>1, <2>4, Zenon DEF ChildrenSound, allocated
    <3>2. CASE q = p
      <4>1. pc[p] = "spawn" /\ pc'[p] = "start"
        BY <1>a, <1>c, <2>4, <3>2 DEF Making
      <4>2. /\ child[p] # p /\ creator[pid[child[p]]] = pid[p] /\ pc[child[p]] = "new"
        BY <3>1, <3>2, <4>1, Zenon DEF ChildrenSound
      <4> QED
        BY <1>0, <1>b, <1>d, <2>3, <3>1, <3>2, <4>1, <4>2 DEF d
    <3>3. CASE q # p
      <4>1. pc'[q] = pc[q] /\ child[q] # d
        BY <1>c, <2>2, <3>1, <3>3, Zenon
      <4> QED
        BY <1>0, <1>b, <1>d, <2>3, <3>1, <4>1, Zenon DEF ChildrenSound
    <3> QED
      BY <3>2, <3>3, Zenon
  <2>5. \A q, r \in Slots : Making(q)' /\ Making(r)' /\ child'[q] = child'[r] => q = r
    BY <2>1 DEF ChildrenSound
  <2> QED
    BY <2>4, <2>5, Zenon DEF ChildrenSound
<1>6. StatusExact'
  BY <1>b, StatusKept, Zenon
<1>7. FamiliesKnown'
  <2>1. ASSUME NEW q \in allocated, NEW i \in Pids, Unreaped(q, i)'
        PROVE  \E c \in allocated : IsAt(c, q, i)'
    <3>1. Unreaped(q, i) /\ q \in Slots
      BY <1>b, <2>1, Zenon DEF Unreaped, allocated
    <3>2. PICK c \in allocated : IsAt(c, q, i)
      BY <3>1, Zenon DEF FamiliesKnown
    <3>3. CASE q # p
      BY <1>b, <1>c, <1>d, <3>1, <3>2, <3>3, Zenon DEF IsAt
    <3>4. CASE q = p
      BY <1>a, <1>b, <1>c, <1>d, <3>1, <3>2, <3>4, Zenon DEF IsAt, d
    <3> QED
      BY <3>3, <3>4, Zenon
  <2> QED
    BY <1>0, <1>b, <2>1, Zenon DEF FamiliesKnown
<1>8. ScansRight'
  <2>1. \A q \in Slots : pc'[q] # "scan" /\ (pc'[q] = "wait" => pc[q] = "wait")
    BY <1>a, <1>c, <1>e, Zenon
  <2> QED
    BY <1>b, <1>e, <2>1, Zenon DEF ScansRight
<1>9. ErrChildRight'
  BY <1>0, <1>b, ErrKept, Zenon
<1> QED
  BY <1>1, <1>2, <1>3, <1>4, <1>5, <1>6, <1>7, <1>8, <1>9, Zenon

\* An exited child leaves the table and its struct returns to the pool.
LEMMA ReapKeeps ==
  ASSUME ProcInv, NEW p \in Slots, WaitReap(p)
  PROVE  ProcInv'
<1> USE DEF ProcInv, fields, waitVars, ghosts
<1> DEFINE c == ptable[pos[p]]
<1>a. /\ pc[p] = "scan" /\ pos[p] \in 1..Len(ptable) /\ c \in Slots /\ c \in Range(ptable)
      /\ c \in allocated /\ has_exited[c] /\ pc[c] = "gone" /\ c # p
      /\ p \in allocated /\ ptable_lock = p
  <2>1. pc[p] = "scan" /\ pos[p] \in 1..Len(ptable) /\ has_exited[c]
    BY DEF WaitReap, ProcTypeOK
  <2>2. c \in Slots /\ c \in Range(ptable)
    BY <2>1 DEF ProcTypeOK, Range
  <2> QED
    BY <2>1, <2>2, Zenon DEF PtableSound, ExitsRight, ScansRight, StructsSound
<1>b. UNCHANGED <<pid_allocator, child, creator, said>>
  BY Zenon DEF WaitReap, PassOver
<1>c. /\ pid' = [pid EXCEPT ![c] = 0] /\ parent' = [parent EXCEPT ![c] = NULL]
      /\ has_exited' = [has_exited EXCEPT ![c] = FALSE]
      /\ exit_status' = [exit_status EXCEPT ![c] = ALIVE]
      /\ ptable_lock' = NULL
      /\ result' = [result EXCEPT ![p] = <<pid[c], exit_status[c]>>]
  BY Zenon DEF WaitReap, proc_free, PassOver
<1>k. /\ pool' = <<c>> \o pool /\ ptable' = list_remove(ptable, pos[p])
      /\ reaper' = [reaper EXCEPT ![pid[c]] = Append(@, pid[p])]
  BY Zenon DEF WaitReap, proc_free, PassOver
<1> HIDE DEF c
<1>d. /\ pid[c] \in Pids /\ exit_status[c] \in Statuses /\ pid[p] \in Pids
      /\ exit_status[c] = said[pid[c]] /\ said[pid[c]] # ALIVE
  BY <1>a DEF ProcTypeOK, ExitsRight
<1>e. /\ pc' = [pc EXCEPT ![p] = "user"] /\ target' = [target EXCEPT ![p] = NULL]
      /\ pos' = [pos EXCEPT ![p] = 1] /\ found' = [found EXCEPT ![p] = FALSE]
  <2>1. <<pid[c], exit_status[c]>> # NULL
    BY <1>d, ResultsApart, Zenon
  <2>2. PassOver(p, <<pid[c], exit_status[c]>>)
    BY Zenon DEF WaitReap, c
  <2> DEFINE res == <<pid[c], exit_status[c]>>
  <2> HIDE DEF res
  <2>3. res # NULL /\ PassOver(p, res)
    BY <2>1, <2>2, Zenon DEF res
  <2> QED
    BY <2>3, Zenon DEF PassOver
<1>f. /\ ptable' \in Seq(Slots) /\ IsInjective(ptable')
      /\ Range(ptable)' = Range(ptable) \ {c}
  <2>1. Range(ptable)' = Range(ptable')
    BY Zenon DEF Range
  <2>2. ptable \in Seq(Slots) /\ IsInjective(ptable) /\ c = ptable[pos[p]]
    BY Zenon DEF ProcTypeOK, PtableSound, c
  <2>3. /\ list_remove(ptable, pos[p]) \in Seq(Slots) /\ IsInjective(list_remove(ptable, pos[p]))
        /\ Range(list_remove(ptable, pos[p])) = Range(ptable) \ {ptable[pos[p]]}
    BY <1>a, <2>2, SeqRemove
  <2> QED
    BY <1>k, <2>1, <2>2, <2>3, Zenon
<1>g. /\ pool' \in Seq(Slots) /\ IsInjective(pool') /\ allocated' = allocated \ {c}
  <2>1. Range(pool)' = Range(pool') /\ c \notin Range(pool)
    BY <1>a, Zenon DEF Range, allocated
  <2>2. pool' \in Seq(Slots) /\ IsInjective(pool') /\ Range(pool)' = Range(pool) \cup {c}
    BY <1>a, <1>k, <2>1, SeqCons DEF ProcTypeOK, StructsSound
  <2> QED
    BY <2>2, Zenon DEF allocated
<1>h. /\ \A q \in Slots \ {c} : /\ pid'[q] = pid[q] /\ parent'[q] = parent[q]
                               /\ has_exited'[q] = has_exited[q]
                               /\ exit_status'[q] = exit_status[q]
      /\ has_exited'[c] = FALSE
      /\ pc'[p] = "user" /\ pc'[c] = "gone" /\ \A q \in Slots \ {p} : pc'[q] = pc[q]
      /\ pos'[p] = 1 /\ found'[p] = FALSE
      /\ \A q \in Slots \ {p} : /\ pos'[q] = pos[q] /\ found'[q] = found[q]
                               /\ target'[q] = target[q] /\ result'[q] = result[q]
      /\ result'[p] = <<pid[c], exit_status[c]>>
  BY <1>a, <1>c, <1>e, Zenon DEF ProcTypeOK
<1>i. /\ reaper'[pid[c]] # <<>> /\ reaper'[pid[c]] \in Seq(Pids)
      /\ \A i \in Pids : i # pid[c] => reaper'[i] = reaper[i]
  <2>1. reaper[pid[c]] \in Seq(Pids) /\ reaper'[pid[c]] = Append(reaper[pid[c]], pid[p])
    BY <1>k, <1>d, Zenon DEF ProcTypeOK
  <2>2. \A i \in Pids : i # pid[c] => reaper'[i] = reaper[i]
    BY <1>k, Zenon DEF ProcTypeOK
  <2> QED
    BY <1>d, <2>1, <2>2
<1>j. \A q \in Slots \ {p} : pc[q] # "scan"
  BY <1>a, Zenon DEF ScansRight
<1>1. ProcTypeOK'
  <2>1. <<pid[c], exit_status[c]>> \in Results
    BY <1>d, Zenon DEF Results, Statuses
  <2>2. /\ pid' \in [Slots -> Pids] /\ parent' \in [Slots -> Slots \cup {NULL}]
        /\ has_exited' \in [Slots -> BOOLEAN] /\ exit_status' \in [Slots -> Statuses]
    <3>1. 0 \in Pids /\ ALIVE \in Statuses
      BY ProcAssumption DEF Pids, Statuses
    <3>2. pid' \in [Slots -> Pids] /\ parent' \in [Slots -> Slots \cup {NULL}]
      BY <1>c, <3>1, Zenon DEF ProcTypeOK
    <3>3. has_exited' \in [Slots -> BOOLEAN]
      BY <1>c, Zenon DEF ProcTypeOK
    <3>4. exit_status' \in [Slots -> Statuses]
      BY <1>c, <3>1, Zenon DEF ProcTypeOK
    <3> QED
      BY <3>2, <3>3, <3>4, Zenon
  <2>3. /\ pc' \in [Slots -> {"user", "new", "fork", "spawn", "start", "wait", "scan", "exit", "gone"}]
        /\ pos' \in [Slots -> Nat \ {0}] /\ found' \in [Slots -> BOOLEAN]
        /\ target' \in [Slots -> Pids \cup {ANY_CHILD, NULL}]
    BY <1>e DEF ProcTypeOK
  <2>4. result' \in [Slots -> Results \cup {NULL}]
    BY <1>c, <2>1, Zenon DEF ProcTypeOK
  <2>5. reaper' \in [Pids -> Seq(Pids)]
    <3>1. reaper \in [Pids -> Seq(Pids)] /\ Append(reaper[pid[c]], pid[p]) \in Seq(Pids)
      BY <1>d DEF ProcTypeOK
    <3>2. reaper' = [reaper EXCEPT ![pid[c]] = Append(reaper[pid[c]], pid[p])]
      BY <1>k, Zenon
    <3> QED
      BY <3>1, <3>2, Zenon
  <2> QED
    BY <1>b, <1>c, <1>f, <1>g, <2>2, <2>3, <2>4, <2>5, Zenon DEF ProcTypeOK
<1>2. StructsSound'
  <2>1. \A s \in Slots \ allocated' : pc'[s] = "gone"
    BY <1>a, <1>g, <1>h DEF StructsSound
  <2>2. \A s \in allocated' : s \in allocated /\ s \in Slots /\ pid'[s] = pid[s]
    BY <1>g, <1>h, Zenon DEF allocated
  <2> QED
    BY <1>b, <1>g, <2>1, <2>2 DEF StructsSound
<1>3. PtableSound'
  BY <1>f, <1>g, Zenon DEF PtableSound
<1>4. ExitsRight'
  <2>1. \A s \in allocated' : /\ s \in allocated /\ s \in Slots /\ s # c /\ pid'[s] = pid[s]
                              /\ has_exited'[s] = has_exited[s] /\ exit_status'[s] = exit_status[s]
    BY <1>g, <1>h, Zenon DEF allocated
  <2>2. \A s \in Slots : has_exited'[s] => pc'[s] = "gone"
    BY <1>a, <1>h DEF ExitsRight
  <2>3. \A s \in allocated' : has_exited'[s] \/ pc'[s] = "exit" =>
          exit_status'[s] = said'[pid'[s]] /\ said'[pid'[s]] # ALIVE
    BY <1>b, <1>h, <2>1 DEF ExitsRight
  <2>4. \A s \in allocated' : pc'[s] \notin {"exit", "gone"} => said'[pid'[s]] = ALIVE
    BY <1>a, <1>b, <1>h, <2>1 DEF ExitsRight
  <2> QED
    BY <1>b, <2>2, <2>3, <2>4, Zenon DEF ExitsRight
<1>5. ChildrenSound'
  <2>1. \A q \in Slots : Making(q)' => Making(q) /\ q # p /\ q # c /\ pc'[q] = pc[q]
    BY <1>a, <1>h, Zenon DEF Making
  <2>2. ASSUME NEW q \in Slots, Making(q)'
        PROVE  /\ child'[q] \in allocated' /\ child'[q] # q
               /\ creator'[pid'[child'[q]]] = pid'[q]
               /\ pc'[q] \in {"fork", "spawn"} => child'[q] \notin Range(ptable)'
               /\ pc'[q] = "fork" => parent'[child'[q]] = q
               /\ pc'[q] \in {"spawn", "start"} => pc'[child'[q]] = "new"
               /\ pc'[q] = "start" => child'[q] \in Range(ptable)'
    <3>1. Making(q) /\ q # p /\ q # c /\ pc'[q] = pc[q]
      BY <2>1, <2>2, Zenon
    <3>2. child[q] # c
      BY <1>a, <3>1, Zenon DEF ChildrenSound, Making
    <3>3. child[q] \in allocated /\ child[q] \in Slots
      BY <3>1, Zenon DEF ChildrenSound, allocated
    <3>4. pc[child[q]] = "new" => pc'[child[q]] = "new"
      BY <1>a, <1>h, <3>3, Zenon
    <3> QED
      BY <1>b, <1>f, <1>g, <1>h, <3>1, <3>2, <3>3, <3>4 DEF ChildrenSound
  <2>3. \A q, r \in Slots : Making(q)' /\ Making(r)' /\ child'[q] = child'[r] => q = r
    BY <1>b, <2>1, Zenon DEF ChildrenSound
  <2> QED
    BY <2>2, <2>3, Zenon DEF ChildrenSound
<1>6. StatusExact'
  <2> SUFFICES ASSUME NEW q \in Slots, NEW i \in Pids, NEW st \in Statuses,
                      result'[q] = <<i, st>>
               PROVE  st # ALIVE /\ st = said[i]
    BY <1>b DEF StatusExact, Statuses
  <2>1. CASE q = p
    BY <1>d, <1>h, <2>1
  <2>2. CASE q # p
    BY <1>h, <2>2 DEF StatusExact, Statuses
  <2> QED
    BY <2>1, <2>2, Zenon
<1>7. FamiliesKnown'
  <2>1. ASSUME NEW q \in allocated', NEW i \in Pids, Unreaped(q, i)'
        PROVE  \E d \in allocated' : IsAt(d, q, i)'
    <3>1. q \in allocated /\ q \in Slots /\ q # c /\ pid'[q] = pid[q]
      BY <1>g, <1>h, Zenon DEF allocated
    <3>2. i # pid[c] /\ Unreaped(q, i)
      BY <1>b, <1>i, <2>1, <3>1, Zenon DEF Unreaped
    <3>3. PICK d \in allocated : IsAt(d, q, i)
      BY <3>1, <3>2, Zenon DEF FamiliesKnown
    <3>4. d # c /\ d \in allocated' /\ d \in Slots
      BY <1>g, <3>2, <3>3, Zenon DEF IsAt, allocated
    <3>5. IsAt(d, q, i)'
      BY <1>a, <1>b, <1>f, <1>h, <3>1, <3>3, <3>4 DEF IsAt
    <3> QED
      BY <3>4, <3>5, Zenon
  <2>2. \A i \in Pids : creator'[i] # NULL => i < pid_allocator' /\ creator'[i] < pid_allocator'
    BY <1>b, Zenon DEF FamiliesKnown
  <2>3. \A i \in Pids : i >= pid_allocator' => reaper'[i] = <<>>
    <3>1. pid[c] < pid_allocator /\ pid_allocator' = pid_allocator /\ pid_allocator \in Nat
      BY <1>a, <1>b DEF StructsSound, ProcTypeOK
    <3>2. \A i \in Pids : i >= pid_allocator => i # pid[c] /\ reaper[i] = <<>>
      BY <1>d, <3>1 DEF FamiliesKnown, Pids
    <3> QED
      BY <1>i, <3>1, <3>2, Zenon
  <2> QED
    BY <2>1, <2>2, <2>3, Zenon DEF FamiliesKnown
<1>8. ScansRight'
  <2>1. \A q \in Slots : pc'[q] # "scan"
    BY <1>h, <1>j, Zenon
  <2>2. \A q \in Slots : pc'[q] = "wait" => target'[q] \in Pids \cup {ANY_CHILD}
    BY <1>h, Zenon DEF ScansRight
  <2>3. \A q \in Slots : pos'[q] = 1 /\ found'[q] = FALSE
    BY <1>h, <1>j, Zenon DEF ScansRight
  <2> QED
    BY <2>1, <2>2, <2>3, Zenon DEF ScansRight
<1>9. ErrChildRight'
  <2> SUFFICES ASSUME NEW q \in allocated', NEW i \in Pids, Unreaped(q, i)',
                      result'[q] \in {<<ERR_CHILD, ANY_CHILD>>, <<ERR_CHILD, i>>}
               PROVE  FALSE
    BY Zenon DEF ErrChildRight
  <2>1. q \in allocated /\ q \in Slots /\ q # c /\ pid'[q] = pid[q]
    BY <1>g, <1>h, Zenon DEF allocated
  <2>2. Unreaped(q, i)
    BY <1>b, <1>i, <2>1, Zenon DEF Unreaped
  <2>3. CASE q = p
    BY <1>d, <1>h, <2>3, ResultsApart
  <2>4. CASE q # p
    BY <1>h, <2>1, <2>2, <2>4, Zenon DEF ErrChildRight
  <2> QED
    BY <2>3, <2>4, Zenon
<1> QED
  BY <1>1, <1>2, <1>3, <1>4, <1>5, <1>6, <1>7, <1>8, <1>9, Zenon

\* The first process, alone.
LEMMA ProcInit == Init => ProcInv
<1> SUFFICES ASSUME Init
             PROVE  ProcInv
  BY Zenon
<1> USE DEF Init
<1>b. allocated = {Init_proc} /\ Init_proc \in Slots /\ pool \in Seq(Slots) /\ IsInjective(pool)
  BY ProcAssumption, Zenon DEF allocated
<1>c. /\ 0 \in Pids /\ ALIVE \in Statuses /\ 1 \in 1..MaxPid /\ \A i \in Pids : i \in Nat /\ i # NULL
      /\ NULL \notin Slots
  <2>1. MaxPid \in Nat \ {0} /\ NULL \notin Slots /\ NULL \notin 0..MaxPid
    BY ProcAssumption, Zenon
  <2> QED
    BY <2>1 DEF Pids, Statuses
<1>d. Range(ptable) = {Init_proc} /\ IsInjective(ptable) /\ ptable \in Seq(Slots) /\ Len(ptable) = 1
  BY <1>b DEF Range, IsInjective
<1>1. ProcTypeOK
  <2>1. reaper \in [Pids -> Seq(Pids)]
    OBVIOUS
  <2>2. /\ pid \in [Slots -> Pids] /\ parent \in [Slots -> Slots \cup {NULL}]
        /\ exit_status \in [Slots -> Statuses] /\ said \in [Pids -> Statuses]
        /\ creator \in [Pids -> Pids \cup {NULL}]
    BY <1>c, Zenon
  <2>3. /\ has_exited \in [Slots -> BOOLEAN] /\ found \in [Slots -> BOOLEAN]
    BY Zenon
  <2>4. /\ pc \in [Slots -> {"user", "new", "fork", "spawn", "start", "wait", "scan", "exit", "gone"}]
        /\ child \in [Slots -> Slots \cup {NULL}]
        /\ target \in [Slots -> Pids \cup {ANY_CHILD, NULL}]
        /\ pos \in [Slots -> Nat \ {0}] /\ result \in [Slots -> Results \cup {NULL}]
    OBVIOUS
  <2> QED
    BY <1>b, <1>c, <1>d, <2>1, <2>2, <2>3, <2>4, Zenon DEF ProcTypeOK
<1>2. StructsSound
  BY <1>b, <1>c DEF StructsSound
<1>3. PtableSound
  BY <1>b, <1>d, Zenon DEF PtableSound
<1>4. ExitsRight
  BY <1>b, <1>c, Zenon DEF ExitsRight
<1>5. ChildrenSound
  BY Zenon DEF ChildrenSound, Making
<1>6. StatusExact
  <2> SUFFICES ASSUME NEW q \in Slots, NEW i \in Pids, NEW st \in Statuses, result[q] = <<i, st>>
               PROVE  FALSE
    BY Zenon DEF StatusExact, Statuses
  <2>1. result[q] = NULL
    BY Zenon
  <2> QED
    BY <2>1, ResultsApart, Zenon
<1>7. FamiliesKnown
  <2>1. \A q \in allocated, i \in Pids : ~Unreaped(q, i)
    BY <1>b, <1>c, Zenon DEF Unreaped
  <2> QED
    BY <2>1, Zenon DEF FamiliesKnown
<1>8. ScansRight
  BY Zenon DEF ScansRight
<1>9. ErrChildRight
  <2>1. \A q \in allocated, i \in Pids : ~Unreaped(q, i)
    BY <1>b, <1>c, Zenon DEF Unreaped
  <2> QED
    BY <2>1, Zenon DEF ErrChildRight
<1> QED
  BY <1>1, <1>2, <1>3, <1>4, <1>5, <1>6, <1>7, <1>8, <1>9, Zenon DEF ProcInv

\* A step of nobody.
LEMMA ProcStutter == ProcInv /\ UNCHANGED vars => ProcInv'
<1> SUFFICES ASSUME ProcInv, UNCHANGED vars
             PROVE  ProcInv'
  BY Zenon
<1> USE DEF ProcInv, vars, fields, waitVars, ghosts
<1>0. allocated' = allocated
  BY Zenon DEF allocated
<1>1. ProcTypeOK'
  BY Zenon DEF ProcTypeOK
<1>2. StructsSound' /\ PtableSound' /\ ExitsRight'
  BY <1>0, Zenon DEF StructsSound, PtableSound, ExitsRight
<1>3. ChildrenSound' /\ FamiliesKnown'
  BY <1>0, FamiliesKept, Zenon DEF ChildrenSound, Making
<1>4. StatusExact' /\ ErrChildRight'
  BY <1>0, StatusKept, ErrKept, Zenon
<1>5. ScansRight'
  BY Zenon DEF ScansRight, IsChild
<1> QED
  BY <1>1, <1>2, <1>3, <1>4, <1>5, Zenon

\* The inductive invariant holds for any number of struct procs and pids.
THEOREM ProcInvariance == Spec => []ProcInv
<1>1. ASSUME ProcInv, Next
      PROVE  ProcInv'
  <2>1. PICK p \in Slots :
          \/ \E c \in Slots : proc_fork(p, c) \/ proc_spawn(p, c)
          \/ \E i \in Pids \cup {ANY_CHILD} : proc_wait(p, i)
          \/ \E st \in Status[pid[p]] : proc_exit(p, st)
          \/ ExitParentless(p)
          \/ Locking(p) \/ Going(p)
    BY <1>1, Zenon DEF Next
  <2>2. CASE \E c \in Slots : proc_fork(p, c) \/ proc_spawn(p, c)
    BY <1>1, <2>2, NewKeeps, Zenon DEF proc_fork, proc_spawn
  <2>3. CASE \E i \in Pids \cup {ANY_CHILD} : proc_wait(p, i)
    BY <1>1, <2>3, WaitCallKeeps, Zenon
  <2>4. CASE (\E st \in Status[pid[p]] : proc_exit(p, st)) \/ ExitParentless(p)
    BY <1>1, <2>4, ExitKeeps, ExitParentlessKeeps, Zenon
  <2>5. CASE Locking(p)
    BY <1>1, <2>5, AppendKeeps, WaitLockKeeps, Zenon DEF Locking
  <2>6. CASE Going(p)
    BY <1>1, <2>6, SpawnStartKeeps, LookKeeps, ReapKeeps, PassEndKeeps, ExitFlagKeeps, Zenon DEF Going
  <2> QED
    BY <2>1, <2>2, <2>3, <2>4, <2>5, <2>6, Zenon
<1> QED
  BY <1>1, ProcInit, ProcStutter, PTL DEF Spec

\* The process table has every struct once and none that was freed (proc_wait).
THEOREM TableSound == Spec => []PtableSound
<1>1. ProcInv => PtableSound
  BY Zenon DEF ProcInv
<1> QED
  BY <1>1, ProcInvariance, PTL

\* No thread uses a struct proc that has been freed (proc_fork, proc_spawn, proc_exit).
THEOREM StructsNotUsedAfterFree == Spec => []NoUseAfterFree
<1>1. ProcInv => NoUseAfterFree
  BY Zenon DEF ProcInv, NoUseAfterFree, StructsSound, ChildrenSound, Making
<1> QED
  BY <1>1, ProcInvariance, PTL

\* wait tells the status that was passed to exit (proc_exit, proc_wait).
THEOREM StatusesExact == Spec => []StatusExact
<1>1. ProcInv => StatusExact
  BY Zenon DEF ProcInv
<1> QED
  BY <1>1, ProcInvariance, PTL

\* wait says ERR_CHILD only to a process without such a child left (proc_wait).
THEOREM ErrChildOnlyWithoutChild == Spec => []ErrChildRight
<1>1. ProcInv => ErrChildRight
  BY Zenon DEF ProcInv
<1> QED
  BY <1>1, ProcInvariance, PTL
=============================================================================
