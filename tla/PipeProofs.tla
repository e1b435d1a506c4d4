----------------------------- MODULE PipeProofs -----------------------------
(***************************************************************************)
(* For any number of threads, items and slots: bbq.c implements a           *)
(* first-in first-out queue, and no sleeper is forgotten.  For any number   *)
(* of processes and descriptors: no end of a pipe on such a queue is closed *)
(* under a process that has it open, and end of file is final.  The counters*)
(* are natural numbers here; BBQ bounds them where it is model-checked.     *)
(***************************************************************************)
EXTENDS Pipe, FiniteSetTheorems, TLAPS

\* The threads in a list of waiters, and that each is in it once.
Waiters(cv) == {cv[i] : i \in 1..Len(cv)}
Distinct(cv) == \A i, j \in 1..Len(cv) : cv[i] = cv[j] => i = j

\* The threads inside a function and not asleep in it.
Awake(o) == {t \in Threads : op[t] = o /\ t \notin Asleep}

\* Type correctness of the queue, and its size between none and all slots.
BBQTypeOK ==
  /\ items \in [Slots -> Items \cup {NULL}]
  /\ front \in Nat /\ next_empty \in Nat
  /\ front <= next_empty /\ next_empty <= front + MAX_BBQ_SIZE
  /\ item_added \in Seq(Threads) /\ item_removed \in Seq(Threads)
  /\ op \in [Threads -> {"none", "insert", "remove"}]
  /\ item \in [Threads -> Items \cup {NULL}]

\* Whoever sleeps for an item is in bbq_remove, whoever sleeps for room in bbq_insert.
SleepersRight ==
  /\ Distinct(item_added) /\ \A t \in Waiters(item_added) : op[t] = "remove"
  /\ Distinct(item_removed) /\ \A t \in Waiters(item_removed) : op[t] = "insert"

\* The inductive invariant.
BBQInv == BBQTypeOK /\ SleepersRight /\ NoSleeperForgotten

-----------------------------------------------------------------------------
(* Lists of waiters.                                                       *)

\* A thread that waits is linked at the end of the list (condvar_wait).
LEMMA AppendWaiter ==
  ASSUME NEW S, NEW cv \in Seq(S), NEW t \in S, t \notin Waiters(cv), Distinct(cv)
  PROVE  /\ Append(cv, t) \in Seq(S)
         /\ Append(cv, t) # <<>>
         /\ Waiters(Append(cv, t)) = Waiters(cv) \cup {t}
         /\ Distinct(Append(cv, t))
<1>1. /\ Append(cv, t) \in Seq(S)
      /\ Len(Append(cv, t)) = Len(cv) + 1
      /\ \A i \in 1..Len(cv) : Append(cv, t)[i] = cv[i]
      /\ Append(cv, t)[Len(cv) + 1] = t
      /\ Len(cv) \in Nat
  OBVIOUS
<1>2. Waiters(Append(cv, t)) = Waiters(cv) \cup {t}
  BY <1>1 DEF Waiters
<1>3. Distinct(Append(cv, t))
  BY <1>1 DEF Waiters, Distinct
<1> QED
  BY <1>1, <1>2, <1>3

\* A signal takes the first waiter out of the list (condvar_signal).
LEMMA SignalWaiter ==
  ASSUME NEW S, NEW cv \in Seq(S), Distinct(cv), cv # <<>>
  PROVE  /\ Signalled(cv) \in Seq(S)
         /\ Head(cv) \in Waiters(cv)
         /\ Waiters(Signalled(cv)) = Waiters(cv) \ {Head(cv)}
         /\ Distinct(Signalled(cv))
<1>1. /\ Tail(cv) \in Seq(S)
      /\ Len(cv) \in Nat \ {0}
      /\ Len(Tail(cv)) = Len(cv) - 1
      /\ \A i \in 1..(Len(cv) - 1) : Tail(cv)[i] = cv[i + 1]
      /\ Head(cv) = cv[1]
  OBVIOUS
<1>2. Head(cv) \in Waiters(cv)
  BY <1>1 DEF Waiters
<1>3. Waiters(Tail(cv)) = Waiters(cv) \ {Head(cv)}
  <2>1. ASSUME NEW x \in Waiters(Tail(cv))
        PROVE  x \in Waiters(cv) \ {Head(cv)}
    <3>1. PICK i \in 1..(Len(cv) - 1) : x = cv[i + 1]
      BY <1>1, <2>1, Zenon DEF Waiters
    <3>2. i + 1 \in 1..Len(cv) /\ 1 \in 1..Len(cv) /\ i + 1 # 1
      BY <1>1
    <3> QED
      BY <1>1, <3>1, <3>2, Zenon DEF Waiters, Distinct
  <2>2. ASSUME NEW x \in Waiters(cv) \ {Head(cv)}
        PROVE  x \in Waiters(Tail(cv))
    <3>1. PICK i \in 1..Len(cv) : x = cv[i]
      BY <2>2, Zenon DEF Waiters
    <3>2. i - 1 \in 1..(Len(cv) - 1) /\ (i - 1) + 1 = i
      BY <1>1, <2>2, <3>1
    <3> QED
      BY <1>1, <3>1, <3>2, Zenon DEF Waiters
  <2> QED
    BY <2>1, <2>2, Zenon
<1>4. Distinct(Tail(cv))
  BY <1>1 DEF Distinct
<1> QED
  BY <1>1, <1>2, <1>3, <1>4, Zenon DEF Signalled

\* Asleep is the union of the two lists.
LEMMA AsleepLists == Asleep = Waiters(item_added) \cup Waiters(item_removed)
  BY Zenon DEF Asleep, Waiters

\* In the next state too.
LEMMA AsleepListsPrime == Asleep' = Waiters(item_added') \cup Waiters(item_removed')
  BY Zenon DEF Asleep, Waiters

-----------------------------------------------------------------------------
(* The circular array.                                                     *)

\* Quotient and remainder by the number of slots.
LEMMA DivMod ==
  ASSUME NEW n \in Nat \ {0}, NEW a \in Nat
  PROVE  /\ a % n \in 0..(n - 1)
         /\ a \div n \in Nat
         /\ a = n * (a \div n) + (a % n)
  OBVIOUS

\* Two positions less than a round apart are two slots.
LEMMA ModDistinct ==
  ASSUME NEW n \in Nat \ {0}, NEW a \in Nat, NEW b \in Nat, a < b, b < a + n
  PROVE  a % n # b % n
<1>1. SUFFICES ASSUME a % n = b % n
               PROVE  FALSE
  BY Zenon
<1> DEFINE q == a \div n
           r == b \div n
           m == a % n
<1>a. a % n \in 0..(n - 1) /\ q \in Nat /\ a = n * q + m
  BY DivMod, Zenon
<1>b. r \in Nat /\ b = n * r + (b % n)
  BY DivMod, Zenon
<1>c. b = n * r + m
  BY <1>1, <1>b, Zenon
<1> HIDE DEF q, r
<1>2. /\ a = n * q + m /\ b = n * r + m
      /\ q \in Nat /\ r \in Nat /\ m \in Nat
  BY <1>a, <1>b, <1>c
<1> HIDE DEF m
<1>3. b - a = n * (r - q)
  BY <1>2
<1>4. CASE r <= q
  BY <1>2, <1>3, <1>4
<1>5. CASE r >= q + 1
  BY <1>2, <1>3, <1>5
<1> QED
  BY <1>2, <1>4, <1>5
-----------------------------------------------------------------------------
(* The invariant.                                                          *)

\* The sets of threads inside a function are finite.
LEMMA AwakeFinite ==
  ASSUME NEW S \in SUBSET Threads
  PROVE  IsFiniteSet(S) /\ Cardinality(S) \in Nat
  BY BBQAssumption, FS_Subset, FS_CardinalityType, Zenon

\* One thread more, or one thread less.
LEMMA OneMore ==
  ASSUME NEW S \in SUBSET Threads, NEW t \in Threads
  PROVE  /\ t \notin S => Cardinality(S \cup {t}) = Cardinality(S) + 1
         /\ t \in S => Cardinality(S \ {t}) = Cardinality(S) - 1
         /\ Cardinality(S) \in Nat
  BY AwakeFinite, FS_AddElement, FS_RemoveElement, Zenon

\* The queue is empty at first.
LEMMA BBQInit == bbq_init => BBQInv
<1> SUFFICES ASSUME bbq_init
             PROVE  BBQInv
  BY Zenon
<1>1. BBQTypeOK
  BY BBQAssumption DEF bbq_init, BBQTypeOK, Slots
<1>2. SleepersRight
  BY DEF bbq_init, SleepersRight, Distinct, Waiters
<1>3. NoSleeperForgotten
  BY Zenon DEF bbq_init, NoSleeperForgotten
<1> QED
  BY <1>1, <1>2, <1>3, Zenon DEF BBQInv

\* Every call starts awake.
LEMMA CallsKeep ==
  ASSUME BBQInv, NEW t \in Threads, (\E x \in Items : CallInsert(t, x)) \/ CallRemove(t)
  PROVE  BBQInv'
<1> USE DEF BBQInv
<1>1. BBQTypeOK'
  BY DEF BBQTypeOK, CallInsert, CallRemove
<1>2. t \notin Asleep
  BY AsleepLists, Zenon DEF SleepersRight, CallInsert, CallRemove
<1>3. SleepersRight' /\ Asleep' = Asleep
  BY <1>2, AsleepLists, AsleepListsPrime
  DEF SleepersRight, CallInsert, CallRemove, BBQTypeOK, Distinct, Waiters
<1>4. /\ Awake("remove") \subseteq Awake("remove")'
      /\ Awake("insert") \subseteq Awake("insert")'
  BY <1>2, <1>3, Zenon DEF Awake, CallInsert, CallRemove, BBQTypeOK
<1>5. /\ Cardinality(Awake("remove")) <= Cardinality(Awake("remove")')
      /\ Cardinality(Awake("insert")) <= Cardinality(Awake("insert")')
  BY <1>4, AwakeFinite, FS_Subset, Zenon DEF Awake
<1>6. /\ Cardinality(Awake("remove")) \in Nat /\ Cardinality(Awake("remove")') \in Nat
      /\ Cardinality(Awake("insert")) \in Nat /\ Cardinality(Awake("insert")') \in Nat
  BY AwakeFinite, Zenon DEF Awake
<1>7. NoSleeperForgotten'
  BY <1>5, <1>6, BBQAssumption
  DEF NoSleeperForgotten, Awake, CallInsert, CallRemove, BBQTypeOK
<1> QED
  BY <1>1, <1>3, <1>7, Zenon
\* A thread goes to sleep only when there is nothing for it: bbq_insert waits for room.
LEMMA InsertWaitKeeps ==
  ASSUME BBQInv, NEW t \in Threads, InsertWait(t)
  PROVE  BBQInv'
<1> USE DEF BBQInv
<1>1. t \notin Waiters(item_removed) /\ t \notin Waiters(item_added)
  BY AsleepLists, Zenon DEF InsertWait
<1>2. /\ item_removed' = Append(item_removed, t) /\ item_removed' \in Seq(Threads)
      /\ Waiters(item_removed') = Waiters(item_removed) \cup {t}
      /\ Distinct(item_removed')
  BY <1>1, AppendWaiter DEF InsertWait, BBQTypeOK, SleepersRight
<1>3. BBQTypeOK'
  BY <1>2, Zenon DEF BBQTypeOK, InsertWait
<1>4. SleepersRight'
  BY <1>2 DEF SleepersRight, InsertWait, BBQTypeOK, Distinct, Waiters
<1>5. Asleep' = Asleep \cup {t}
  BY <1>2, AsleepLists, AsleepListsPrime, Zenon DEF InsertWait, Waiters
<1>6. Awake("remove")' = Awake("remove")
  BY <1>5, Zenon DEF Awake, InsertWait
<1>7. Cardinality(Awake("insert")') \in Nat
  BY AwakeFinite, Zenon DEF Awake
<1>8. NoSleeperForgotten'
  <2>1. NoSleeperForgotten' <=>
          /\ item_added' # <<>> => next_empty' - front' <= Cardinality(Awake("remove")')
          /\ item_removed' # <<>> =>
               MAX_BBQ_SIZE - (next_empty' - front') <= Cardinality(Awake("insert")')
    BY Zenon DEF NoSleeperForgotten, Awake
  <2>2. /\ item_added # <<>> => next_empty - front <= Cardinality(Awake("remove"))
        /\ item_removed # <<>> =>
             MAX_BBQ_SIZE - (next_empty - front) <= Cardinality(Awake("insert"))
    BY Zenon DEF NoSleeperForgotten, Awake
  <2> QED
    BY <1>6, <1>7, <2>1, <2>2, BBQAssumption
    DEF InsertWait, BBQTypeOK, bbq_is_full, bbq_is_empty
<1> QED
  BY <1>3, <1>4, <1>8, Zenon

\* A thread goes to sleep only when there is nothing for it: bbq_remove waits for an item.
LEMMA RemoveWaitKeeps ==
  ASSUME BBQInv, NEW t \in Threads, RemoveWait(t)
  PROVE  BBQInv'
<1> USE DEF BBQInv
<1>1. t \notin Waiters(item_added) /\ t \notin Waiters(item_removed)
  BY AsleepLists, Zenon DEF RemoveWait
<1>2. /\ item_added' = Append(item_added, t) /\ item_added' \in Seq(Threads)
      /\ Waiters(item_added') = Waiters(item_added) \cup {t}
      /\ Distinct(item_added')
  BY <1>1, AppendWaiter DEF RemoveWait, BBQTypeOK, SleepersRight
<1>3. BBQTypeOK'
  BY <1>2, Zenon DEF BBQTypeOK, RemoveWait
<1>4. SleepersRight'
  BY <1>2 DEF SleepersRight, RemoveWait, BBQTypeOK, Distinct, Waiters
<1>5. Asleep' = Asleep \cup {t}
  BY <1>2, AsleepLists, AsleepListsPrime, Zenon DEF RemoveWait, Waiters
<1>6. Awake("insert")' = Awake("insert")
  BY <1>5, Zenon DEF Awake, RemoveWait
<1>7. Cardinality(Awake("remove")') \in Nat
  BY AwakeFinite DEF Awake
<1>8. NoSleeperForgotten'
  <2>1. NoSleeperForgotten' <=>
          /\ item_added' # <<>> => next_empty' - front' <= Cardinality(Awake("remove")')
          /\ item_removed' # <<>> =>
               MAX_BBQ_SIZE - (next_empty' - front') <= Cardinality(Awake("insert")')
    BY Zenon DEF NoSleeperForgotten, Awake
  <2>2. /\ item_added # <<>> => next_empty - front <= Cardinality(Awake("remove"))
        /\ item_removed # <<>> =>
             MAX_BBQ_SIZE - (next_empty - front) <= Cardinality(Awake("insert"))
    BY Zenon DEF NoSleeperForgotten, Awake
  <2> QED
    BY <1>6, <1>7, <2>1, <2>2, BBQAssumption
    DEF RemoveWait, BBQTypeOK, bbq_is_full, bbq_is_empty
<1> QED
  BY <1>3, <1>4, <1>8, Zenon

\* bbq_insert takes one thread out of those on their way, and its signal adds one on the way
\* to what it left, if any sleeps.
LEMMA InsertKeeps ==
  ASSUME BBQInv, NEW t \in Threads, bbq_insert(t)
  PROVE  BBQInv'
<1> USE DEF BBQInv
<1>1. /\ t \notin Asleep /\ op[t] = "insert" /\ op' = [op EXCEPT ![t] = "none"]
      /\ item_removed' = item_removed /\ item_added' = Signalled(item_added)
  BY Zenon DEF bbq_insert
<1>2. MAX_BBQ_SIZE \in Nat \ {0} /\ next_empty % MAX_BBQ_SIZE \in Slots
      /\ front % MAX_BBQ_SIZE \in Slots
  BY BBQAssumption, DivMod, Zenon DEF BBQTypeOK, Slots
<1>3. /\ item_added' \in Seq(Threads) /\ Distinct(item_added')
      /\ Waiters(item_added') \subseteq Waiters(item_added)
  BY <1>1, SignalWaiter, Zenon DEF BBQTypeOK, SleepersRight, Signalled
<1>4. BBQTypeOK'
  BY <1>2, <1>3 DEF BBQTypeOK, bbq_insert, bbq_is_full, bbq_is_empty
<1>5. SleepersRight'
  BY <1>1, <1>3, AsleepLists DEF SleepersRight, BBQTypeOK
<1>6. Asleep' \subseteq Asleep
  BY <1>1, <1>3, AsleepLists, AsleepListsPrime, Zenon DEF Waiters
<1>7. Awake("insert")' = Awake("insert") \ {t} /\ t \in Awake("insert")
  <2>1. \A u \in Threads : u \in Asleep \ Asleep' => op[u] = "remove"
    BY <1>1, AsleepLists, AsleepListsPrime, Zenon DEF SleepersRight, Waiters
  <2> QED
    BY <1>1, <1>6, <2>1, Zenon DEF Awake, BBQTypeOK
<1>8. Cardinality(Awake("insert")') = Cardinality(Awake("insert")) - 1
      /\ Cardinality(Awake("insert")) \in Nat
  BY <1>7, OneMore, Zenon DEF Awake
<1>9. ASSUME item_added # <<>>
      PROVE  Cardinality(Awake("remove")') = Cardinality(Awake("remove")) + 1
             /\ Cardinality(Awake("remove")) \in Nat
  <2> DEFINE h == Head(item_added)
  <2>1. /\ h \in Waiters(item_added) /\ h \in Threads
        /\ Waiters(item_added') = Waiters(item_added) \ {h}
    BY <1>1, <1>9, SignalWaiter DEF BBQTypeOK, SleepersRight
  <2>2. op[h] = "remove" /\ h \notin Waiters(item_removed)
    BY <2>1, Zenon DEF SleepersRight
  <2>3. Asleep' = Asleep \ {h} /\ h \in Asleep
    BY <1>1, <2>1, <2>2, AsleepLists, AsleepListsPrime, Zenon DEF Waiters
  <2> HIDE DEF h
  <2>4. Awake("remove")' = Awake("remove") \cup {h} /\ h \notin Awake("remove")
    BY <1>1, <2>1, <2>2, <2>3, Zenon DEF Awake, BBQTypeOK
  <2> QED
    BY <2>1, <2>4, OneMore, Zenon DEF Awake
<1>10. item_added' # <<>> => item_added # <<>>
  BY <1>1, Zenon DEF Signalled
<1>11. NoSleeperForgotten'
  BY <1>1, <1>8, <1>9, <1>10, BBQAssumption
  DEF NoSleeperForgotten, Awake, bbq_insert, BBQTypeOK
<1> QED
  BY <1>4, <1>5, <1>11, Zenon

\* bbq_remove takes one thread out of those on their way, and its signal adds one on the way
\* to what it left, if any sleeps.
LEMMA RemoveKeeps ==
  ASSUME BBQInv, NEW t \in Threads, bbq_remove(t)
  PROVE  BBQInv'
<1> USE DEF BBQInv
<1>1. /\ t \notin Asleep /\ op[t] = "remove" /\ op' = [op EXCEPT ![t] = "none"]
      /\ item_added' = item_added /\ item_removed' = Signalled(item_removed)
  BY Zenon DEF bbq_remove
<1>2. MAX_BBQ_SIZE \in Nat \ {0} /\ next_empty % MAX_BBQ_SIZE \in Slots
      /\ front % MAX_BBQ_SIZE \in Slots
  BY BBQAssumption, DivMod, Zenon DEF BBQTypeOK, Slots
<1>3. /\ item_removed' \in Seq(Threads) /\ Distinct(item_removed')
      /\ Waiters(item_removed') \subseteq Waiters(item_removed)
  BY <1>1, SignalWaiter, Zenon DEF BBQTypeOK, SleepersRight, Signalled
<1>4. BBQTypeOK'
  BY <1>2, <1>3 DEF BBQTypeOK, bbq_remove, bbq_is_full, bbq_is_empty
<1>5. SleepersRight'
  BY <1>1, <1>3, AsleepLists DEF SleepersRight, BBQTypeOK
<1>6. Asleep' \subseteq Asleep
  BY <1>1, <1>3, AsleepLists, AsleepListsPrime, Zenon DEF Waiters
<1>7. Awake("remove")' = Awake("remove") \ {t} /\ t \in Awake("remove")
  <2>1. \A u \in Threads : u \in Asleep \ Asleep' => op[u] = "insert"
    BY <1>1, AsleepLists, AsleepListsPrime, Zenon DEF SleepersRight, Waiters
  <2> QED
    BY <1>1, <1>6, <2>1, Zenon DEF Awake, BBQTypeOK
<1>8. Cardinality(Awake("remove")') = Cardinality(Awake("remove")) - 1
      /\ Cardinality(Awake("remove")) \in Nat
  BY <1>7, OneMore, Zenon DEF Awake
<1>9. ASSUME item_removed # <<>>
      PROVE  Cardinality(Awake("insert")') = Cardinality(Awake("insert")) + 1
             /\ Cardinality(Awake("insert")) \in Nat
  <2> DEFINE h == Head(item_removed)
  <2>1. /\ h \in Waiters(item_removed) /\ h \in Threads
        /\ Waiters(item_removed') = Waiters(item_removed) \ {h}
    BY <1>1, <1>9, SignalWaiter DEF BBQTypeOK, SleepersRight
  <2>2. op[h] = "insert" /\ h \notin Waiters(item_added)
    BY <2>1, Zenon DEF SleepersRight
  <2>3. Asleep' = Asleep \ {h} /\ h \in Asleep
    BY <1>1, <2>1, <2>2, AsleepLists, AsleepListsPrime, Zenon DEF Waiters
  <2> HIDE DEF h
  <2>4. Awake("insert")' = Awake("insert") \cup {h} /\ h \notin Awake("insert")
    BY <1>1, <2>1, <2>2, <2>3, Zenon DEF Awake, BBQTypeOK
  <2> QED
    BY <2>1, <2>4, OneMore, Zenon DEF Awake
<1>10. item_removed' # <<>> => item_removed # <<>>
  BY <1>1, Zenon DEF Signalled
<1>11. NoSleeperForgotten'
  BY <1>1, <1>8, <1>9, <1>10, BBQAssumption
  DEF NoSleeperForgotten, Awake, bbq_remove, BBQTypeOK
<1> QED
  BY <1>4, <1>5, <1>11, Zenon

\* The inductive invariant of the queue holds for any number of threads and slots.
THEOREM BBQInvariance == BBQSpec => []BBQInv
<1>1. ASSUME BBQInv, BBQNext
      PROVE  BBQInv'
  <2>1. PICK t \in Threads :
          \/ \E x \in Items : CallInsert(t, x)
          \/ CallRemove(t)
          \/ Step(t)
    BY <1>1, Zenon DEF BBQNext
  <2>2. CASE \E x \in Items : CallInsert(t, x)
    BY <1>1, <2>2, CallsKeep, Zenon
  <2>3. CASE CallRemove(t)
    BY <1>1, <2>3, CallsKeep, Zenon
  <2>4. CASE Step(t)
    BY <1>1, <2>4, InsertWaitKeeps, InsertKeeps, RemoveWaitKeeps, RemoveKeeps, Zenon DEF Step
  <2> QED
    BY <2>1, <2>2, <2>3, <2>4, Zenon
<1>2. ASSUME BBQInv, UNCHANGED bbqVars
      PROVE  BBQInv'
  BY <1>2 DEF BBQInv, BBQTypeOK, SleepersRight, NoSleeperForgotten, bbqVars, Distinct,
              Waiters, Asleep
<1> QED
  BY <1>1, <1>2, BBQInit, PTL DEF BBQSpec

\* No wakeup is lost: while threads sleep for an item (for room), as many threads as there
\* are items (free slots) are awake and on their way to take them.
THEOREM SleepersNotForgotten == BBQSpec => []NoSleeperForgotten
<1>1. BBQInv => NoSleeperForgotten
  BY Zenon DEF BBQInv
<1> QED
  BY <1>1, BBQInvariance, PTL
-----------------------------------------------------------------------------
(* The queue implements FifoQueue.                                         *)

\* The items between front and next_empty are a sequence.
LEMMA ContentsSeq ==
  ASSUME BBQTypeOK
  PROVE  /\ Contents \in Seq(Items \cup {NULL})
         /\ Len(Contents) = next_empty - front
         /\ \A i \in 1..(next_empty - front) :
              Contents[i] = items[(front + i - 1) % MAX_BBQ_SIZE]
<1>1. MAX_BBQ_SIZE \in Nat \ {0}
  BY BBQAssumption, Zenon
<1>2. \A i \in 1..(next_empty - front) : (front + i - 1) % MAX_BBQ_SIZE \in Slots
  BY <1>1, DivMod DEF BBQTypeOK, Slots
<1>3. next_empty - front \in Nat
  BY DEF BBQTypeOK
<1>4. Contents \in [1..(next_empty - front) -> Items \cup {NULL}]
  BY <1>2, Zenon DEF Contents, BBQTypeOK
<1> QED
  BY <1>3, <1>4 DEF Contents

\* bbq_insert appends to the queue: the slot it writes holds no item of it.
LEMMA InsertAppends ==
  ASSUME BBQTypeOK, BBQTypeOK', NEW t \in Threads, bbq_insert(t)
  PROVE  Contents' = Append(Contents, item[t])
<1> DEFINE n == next_empty - front
<1>1. /\ n \in Nat /\ n < MAX_BBQ_SIZE /\ MAX_BBQ_SIZE \in Nat \ {0}
      /\ next_empty' - front' = n + 1 /\ front' = front
  BY BBQAssumption DEF BBQTypeOK, bbq_insert, bbq_is_full
<1>2. next_empty % MAX_BBQ_SIZE \in Slots
  BY <1>1, DivMod, Zenon DEF BBQTypeOK, Slots
<1>3. ASSUME NEW i \in 1..n
      PROVE  items'[(front + i - 1) % MAX_BBQ_SIZE] = items[(front + i - 1) % MAX_BBQ_SIZE]
  <2>1. /\ front + i - 1 \in Nat /\ front + i - 1 < next_empty
        /\ next_empty < (front + i - 1) + MAX_BBQ_SIZE
    BY <1>1, <1>3 DEF BBQTypeOK
  <2>2. (front + i - 1) % MAX_BBQ_SIZE # next_empty % MAX_BBQ_SIZE
    BY <1>1, <2>1, ModDistinct, Zenon DEF BBQTypeOK
  <2>3. (front + i - 1) % MAX_BBQ_SIZE \in Slots
    BY <1>1, <2>1, DivMod, Zenon DEF Slots
  <2> QED
    BY <2>2, <2>3, Zenon DEF bbq_insert, BBQTypeOK
<1>4. items'[(front + (n + 1) - 1) % MAX_BBQ_SIZE] = item[t]
  <2>1. front + (n + 1) - 1 = next_empty
    BY DEF BBQTypeOK
  <2> QED
    BY <1>2, <2>1, Zenon DEF bbq_insert, BBQTypeOK
<1>5. /\ Contents \in Seq(Items \cup {NULL}) /\ Len(Contents) = n
      /\ \A i \in 1..n : Contents[i] = items[(front + i - 1) % MAX_BBQ_SIZE]
  BY ContentsSeq, Zenon
<1>6. Contents' = [i \in 1..(n + 1) |-> items'[(front + i - 1) % MAX_BBQ_SIZE]]
  BY <1>1, Zenon DEF Contents
<1> HIDE DEF n
<1>7. item[t] \in Items \cup {NULL}
  BY Zenon DEF BBQTypeOK
<1>8. /\ Append(Contents, item[t]) = [i \in 1..(n + 1) |-> Append(Contents, item[t])[i]]
      /\ \A i \in 1..n : Append(Contents, item[t])[i] = Contents[i]
      /\ Append(Contents, item[t])[n + 1] = item[t]
  BY <1>1, <1>5, <1>7
<1>9. ASSUME NEW i \in 1..(n + 1)
      PROVE  items'[(front + i - 1) % MAX_BBQ_SIZE] = Append(Contents, item[t])[i]
  <2>1. i \in 1..n \/ i = n + 1
    BY <1>1
  <2>2. CASE i \in 1..n
    BY <1>3, <1>5, <1>8, <2>2, Zenon
  <2>3. CASE i = n + 1
    BY <1>4, <1>8, <2>3, Zenon
  <2> QED
    BY <2>1, <2>2, <2>3, Zenon
<1> QED
  BY <1>6, <1>8, <1>9, Zenon

\* bbq_remove takes the oldest item.
LEMMA RemoveTakesHead ==
  ASSUME BBQTypeOK, BBQTypeOK', NEW t \in Threads, bbq_remove(t)
  PROVE  /\ Contents # <<>> /\ Contents' = Tail(Contents)
         /\ items[front % MAX_BBQ_SIZE] = Head(Contents)
<1> DEFINE n == next_empty - front
<1>1. n \in Nat \ {0} /\ next_empty' - front' = n - 1 /\ front' = front + 1
  BY DEF BBQTypeOK, bbq_remove, bbq_is_empty
<1>2. /\ Contents \in Seq(Items \cup {NULL}) /\ Len(Contents) = n
      /\ \A i \in 1..n : Contents[i] = items[(front + i - 1) % MAX_BBQ_SIZE]
  BY ContentsSeq, Zenon
<1>3. Contents' = [i \in 1..(n - 1) |-> items[(front + 1 + i - 1) % MAX_BBQ_SIZE]]
  BY <1>1, Zenon DEF Contents, bbq_remove
<1>4. \A i \in 1..(n - 1) : front + 1 + i - 1 = front + (i + 1) - 1
  BY <1>1 DEF BBQTypeOK
<1>5. front + 1 - 1 = front
  BY DEF BBQTypeOK
<1> HIDE DEF n
<1>6. /\ Tail(Contents) = [i \in 1..(n - 1) |-> Contents[i + 1]]
      /\ Head(Contents) = Contents[1] /\ Contents # <<>>
  <2> DEFINE c == Contents
  <2>1. c \in Seq(Items \cup {NULL}) /\ Len(c) = n
    BY <1>2, Zenon
  <2> HIDE DEF c
  <2>2. c # <<>>
    BY <1>1, <2>1, Zenon
  <2>3. /\ Head(c) = c[1] /\ Tail(c) \in Seq(Items \cup {NULL}) /\ Len(Tail(c)) = n - 1
        /\ \A i \in 1..(n - 1) : Tail(c)[i] = c[i + 1]
    BY <1>1, <2>1, <2>2
  <2>4. Tail(c) = [i \in 1..(n - 1) |-> Tail(c)[i]]
    <3>1. \A d \in Seq(Items \cup {NULL}) : d = [i \in 1..Len(d) |-> d[i]]
      OBVIOUS
    <3> QED
      BY <2>3, <3>1, Zenon
  <2> QED
    BY <2>2, <2>3, <2>4, Zenon DEF c
<1>7. \A i \in 1..(n - 1) :
        Contents[i + 1] = items[(front + 1 + i - 1) % MAX_BBQ_SIZE]
  BY <1>1, <1>2, <1>4
<1>8. Contents[1] = items[front % MAX_BBQ_SIZE]
  BY <1>1, <1>2, <1>5
<1> QED
  BY <1>3, <1>6, <1>7, <1>8, Zenon

\* A step that leaves the array and its two indices alone leaves the queue alone.
LEMMA ContentsSame ==
  ASSUME UNCHANGED <<items, front, next_empty>>
  PROVE  Contents' = Contents
  BY Zenon DEF Contents

\* Every step of the circular array is a step of the abstract queue or none.
LEMMA StepImplements ==
  ASSUME BBQInv, BBQInv', NEW t \in Threads,
         (\E x \in Items : CallInsert(t, x)) \/ CallRemove(t) \/ Step(t)
  PROVE  Fifo!Next \/ UNCHANGED Fifo!vars
<1> USE DEF BBQInv
<1>1. CASE (\E x \in Items : CallInsert(t, x)) \/ CallRemove(t)
  <2>1. Contents' = Contents
    BY <1>1, ContentsSame, Zenon DEF CallInsert, CallRemove
  <2>2. Fifo!Call(t)
    BY <1>1, <2>1, Zenon DEF CallInsert, CallRemove, Fifo!Call
  <2> QED
    BY <2>2, Zenon DEF Fifo!Next
<1>2. CASE InsertWait(t) \/ RemoveWait(t)
  <2>1. Contents' = Contents
    BY <1>2, ContentsSame, Zenon DEF InsertWait, RemoveWait
  <2> QED
    BY <1>2, <2>1, Zenon DEF InsertWait, RemoveWait, Fifo!vars
<1>3. CASE bbq_insert(t)
  <2>1. Contents' = Append(Contents, item[t])
    BY <1>3, InsertAppends, Zenon
  <2>2. Len(Contents) < MAX_BBQ_SIZE
    <3>1. Len(Contents) = next_empty - front
      BY ContentsSeq, Zenon
    <3>2. next_empty - front < MAX_BBQ_SIZE
      BY <1>3, BBQAssumption DEF BBQTypeOK, bbq_insert, bbq_is_full
    <3> QED
      BY <3>1, <3>2, Zenon
  <2>3. Fifo!Put(t)
    BY <1>3, <2>1, <2>2, Zenon DEF bbq_insert, Fifo!Put
  <2> QED
    BY <2>3, Zenon DEF Fifo!Next
<1>4. CASE bbq_remove(t)
  <2>1. Fifo!Get(t)
    BY <1>4, RemoveTakesHead, Zenon DEF bbq_remove, Fifo!Get
  <2> QED
    BY <2>1, Zenon DEF Fifo!Next
<1> QED
  BY <1>1, <1>2, <1>3, <1>4, Zenon DEF Step

\* The array starts as the empty queue.
LEMMA InitImplements ==
  ASSUME bbq_init
  PROVE  Fifo!Init
<1>1. Contents = [i \in 1..0 |-> items[(front + i - 1) % MAX_BBQ_SIZE]]
  BY DEF bbq_init, Contents
<1>2. Contents = <<>>
  BY <1>1
<1> QED
  BY <1>2, Zenon DEF bbq_init, Fifo!Init

\* bbq.c implements the first-in first-out queue, for any number of threads and any size:
\* the safety part of ImplementsFifo.
THEOREM QueueIsFifo == BBQSpec => Fifo!Spec
<1>1. BBQInv /\ BBQInv' /\ [BBQNext]_bbqVars => [Fifo!Next]_(Fifo!vars)
  <2>1. ASSUME UNCHANGED bbqVars
        PROVE  UNCHANGED Fifo!vars
    BY <2>1, ContentsSame, Zenon DEF bbqVars, Fifo!vars
  <2>2. ASSUME BBQInv, BBQInv', BBQNext
        PROVE  Fifo!Next \/ UNCHANGED Fifo!vars
    BY <2>2, StepImplements, Zenon DEF BBQNext
  <2> QED
    BY <2>1, <2>2, Zenon
<1>2. bbq_init => Fifo!Init
  BY InitImplements, Zenon
<1> QED
  BY <1>1, <1>2, BBQInvariance, PTL DEF BBQSpec, Fifo!Spec

-----------------------------------------------------------------------------
(* The pipe on the queue.                                                  *)

\* The processes that have end e open.
HoldersOf(e) == {p \in Threads : e \in ends[p]}

\* Type correctness of the processes' part.
PipeTypeOK ==
  /\ born \subseteq Threads
  /\ ends \in [Threads -> SUBSET Ends]
  /\ f_ref \in [Ends -> Nat]
  /\ open \subseteq Ends
  /\ call \in [Threads -> {"none", "read", "drain", "write", "close_r", "close_w"}]
  /\ left \in [Threads -> Nat]
  /\ done \in [Threads -> Nat]
  /\ eof \subseteq Threads

\* f_ref is the number of descriptors; an end that is closed, or being closed by
\* whoever gave up the last one, has none.
FilesRight ==
  /\ \A e \in Ends : f_ref[e] = Cardinality(HoldersOf(e))
  /\ \A e \in Ends : e \notin open => HoldersOf(e) = {}
  /\ \A p \in Threads, e \in Ends : call[p] = Closing(e) => HoldersOf(e) = {}
  /\ \A p \in Threads \ born : ends[p] = {}

\* A process in a read or a write has that end open, is in the queue for it only, and
\* has moved or is still to move a byte; the drain began with the write end closed.
CallsRight ==
  \A p \in Threads :
    /\ call[p] \in {"read", "drain"} => "r" \in ends[p]
    /\ call[p] = "write" => "w" \in ends[p]
    /\ call[p] = "drain" => "w" \notin open
    /\ op[p] = "insert" => call[p] = "write" /\ left[p] > 0
    /\ op[p] = "remove" => call[p] \in {"read", "drain"} /\ left[p] > 0
    /\ call[p] \in {"read", "drain"} => left[p] + done[p] > 0

\* The inductive invariant.
PipeInv == BBQInv /\ PipeTypeOK /\ FilesRight /\ CallsRight /\ EofFinal

-----------------------------------------------------------------------------
\* The number of processes that have an end open changes by one with each of them.
LEMMA HoldersCount ==
  ASSUME NEW S \in SUBSET Threads
  PROVE  /\ Cardinality(S) \in Nat
         /\ Cardinality(S) = 0 <=> S = {}
         /\ \A t \in Threads : t \notin S => Cardinality(S \cup {t}) = Cardinality(S) + 1
         /\ \A t \in S : Cardinality(S \ {t}) = Cardinality(S) - 1
  BY AwakeFinite, OneMore, FS_EmptySet, Zenon

\* The two codes of pipe_close's caller tell the two ends apart.
LEMMA ClosingApart ==
  /\ \A e \in Ends : Closing(e) \in {"close_r", "close_w"}
  /\ \A e, d \in Ends : Closing(e) = Closing(d) => e = d
  BY Zenon DEF Ends, Closing

\* With the write end closed nobody writes: no process is in pipe_write or bbq_insert.
LEMMA NoWriter ==
  ASSUME PipeInv, "w" \notin open
  PROVE  \A p \in Threads : /\ call[p] # "write" /\ "w" \notin ends[p]
                            /\ op[p] # "insert"
<1>1. HoldersOf("w") = {}
  BY Zenon DEF PipeInv, FilesRight, Ends
<1> QED
  BY <1>1, Zenon DEF PipeInv, CallsRight, HoldersOf

\* sys_pipe.
LEMMA PipeInit == Init => PipeInv
<1> SUFFICES ASSUME Init
             PROVE  PipeInv
  BY Zenon
<1>1. BBQInv
  BY BBQInit, Zenon DEF Init
<1>2. PipeTypeOK
  BY PipeAssumption, Zenon DEF Init, PipeTypeOK, Ends
<1>3. FilesRight
  <2>1. ASSUME NEW e \in Ends
        PROVE  HoldersOf(e) = {Creator}
    BY PipeAssumption, Zenon DEF Init, HoldersOf, Ends
  <2>2. Cardinality({Creator}) = 1
    BY FS_Singleton, Zenon
  <2>3. \A p \in Threads, e \in Ends : call[p] # Closing(e)
    BY ClosingApart, Zenon DEF Init
  <2> QED
    BY <2>1, <2>2, <2>3, Zenon DEF Init, FilesRight
<1>4. CallsRight
  BY Zenon DEF Init, CallsRight, bbq_init
<1>5. EofFinal
  BY Zenon DEF Init, EofFinal
<1> QED
  BY <1>1, <1>2, <1>3, <1>4, <1>5, Zenon DEF PipeInv

\* A step of the processes alone leaves the queue's invariant.
LEMMA QueueKept ==
  ASSUME BBQInv, UNCHANGED bbqVars
  PROVE  BBQInv'
  BY DEF BBQInv, BBQTypeOK, SleepersRight, NoSleeperForgotten, bbqVars, Distinct,
         Waiters, Asleep

\* fork gives the child a reference for each descriptor it copies.
LEMMA ForkKeeps ==
  ASSUME PipeInv, NEW p \in Threads, NEW q \in Threads, fork(p, q)
  PROVE  PipeInv'
<1> USE DEF PipeInv
<1>1. BBQInv'
  BY QueueKept, Zenon DEF fork
<1>2. PipeTypeOK'
  BY DEF PipeTypeOK, fork
<1>3. ends[q] = {} /\ q # p
  BY Zenon DEF fork, FilesRight
<1>4. ASSUME NEW e \in Ends
      PROVE  HoldersOf(e)' = IF e \in ends[p] THEN HoldersOf(e) \cup {q} ELSE HoldersOf(e)
  BY <1>3, Zenon DEF HoldersOf, fork, PipeTypeOK
<1>5. FilesRight'
  <2>1. ASSUME NEW e \in Ends
        PROVE  f_ref'[e] = Cardinality(HoldersOf(e)')
    <3>1. q \notin HoldersOf(e) /\ HoldersOf(e) \in SUBSET Threads
      BY <1>3, Zenon DEF HoldersOf
    <3>2. Cardinality(HoldersOf(e) \cup {q}) = Cardinality(HoldersOf(e)) + 1
      BY <3>1, HoldersCount, Zenon
    <3>3. f_ref'[e] = IF e \in ends[p] THEN f_ref[e] + 1 ELSE f_ref[e]
      BY Zenon DEF fork
    <3>4. f_ref[e] = Cardinality(HoldersOf(e))
      BY Zenon DEF FilesRight
    <3> QED
      BY <1>4, <3>2, <3>3, <3>4, Zenon
  <2>2. ASSUME NEW e \in Ends, HoldersOf(e) = {}
        PROVE  HoldersOf(e)' = {}
    BY <1>4, <2>2, Zenon DEF HoldersOf
  <2>3. open' = open /\ call' = call /\ born' = born \cup {q}
        /\ \A t \in Threads \ {q} : ends'[t] = ends[t]
    BY Zenon DEF fork, PipeTypeOK
  <2> QED
    BY <2>1, <2>2, <2>3, Zenon DEF FilesRight
<1>6. CallsRight'
  <2>1. \A t \in Threads : ends[t] \subseteq ends'[t]
    BY <1>3, Zenon DEF fork, PipeTypeOK
  <2>2. UNCHANGED <<open, call, left, done, op>>
    BY Zenon DEF fork, bbqVars
  <2> QED
    BY <2>1, <2>2, Zenon DEF CallsRight
<1>7. EofFinal'
  <2>1. UNCHANGED <<open, call, eof, front, next_empty>>
    BY Zenon DEF fork, bbqVars
  <2>2. \A t \in Threads : ends'[t] = ends[t] \/ ends'[t] = ends[p]
    BY Zenon DEF fork, PipeTypeOK
  <2> QED
    BY <2>1, <2>2, Zenon DEF EofFinal, bbq_is_empty
<1> QED
  BY <1>1, <1>2, <1>5, <1>6, <1>7, Zenon

\* fs_close_file gives one reference up; whoever gives up the last goes on to pipe_close.
LEMMA CloseKeeps ==
  ASSUME PipeInv, NEW p \in Threads, NEW e \in Ends, fs_close_file(p, e)
  PROVE  PipeInv'
<1> USE DEF PipeInv
<1>1. BBQInv'
  BY QueueKept, Zenon DEF fs_close_file
<1>2. /\ p \in HoldersOf(e) /\ HoldersOf(e) \in SUBSET Threads
      /\ f_ref[e] = Cardinality(HoldersOf(e)) /\ f_ref[e] \in Nat
      /\ Cardinality(HoldersOf(e) \ {p}) = f_ref[e] - 1
      /\ f_ref[e] - 1 = 0 <=> HoldersOf(e) \ {p} = {}
  <2>1. p \in HoldersOf(e) /\ HoldersOf(e) \in SUBSET Threads
        /\ f_ref[e] = Cardinality(HoldersOf(e)) /\ f_ref[e] \in Nat
    BY Zenon DEF fs_close_file, HoldersOf, FilesRight, PipeTypeOK
  <2>2. Cardinality(HoldersOf(e) \ {p}) = f_ref[e] - 1
    BY <2>1, HoldersCount
  <2>3. HoldersOf(e) \ {p} \in SUBSET Threads
    BY <2>1, Zenon
  <2> QED
    BY <2>1, <2>2, <2>3, HoldersCount, Zenon
<1>3. f_ref[e] > 0
  BY <1>2, HoldersCount
<1>4. PipeTypeOK'
  BY <1>3 DEF PipeTypeOK, fs_close_file, Closing
<1>5. /\ HoldersOf(e)' = HoldersOf(e) \ {p}
      /\ \A d \in Ends \ {e} : HoldersOf(d)' = HoldersOf(d)
  BY Zenon DEF HoldersOf, fs_close_file, PipeTypeOK
<1>6. FilesRight'
  <2>1. \A d \in Ends : f_ref'[d] = Cardinality(HoldersOf(d)')
    <3>1. f_ref'[e] = Cardinality(HoldersOf(e)')
      BY <1>2, <1>5, Zenon DEF fs_close_file, PipeTypeOK
    <3>2. ASSUME NEW d \in Ends \ {e}
          PROVE  f_ref'[d] = Cardinality(HoldersOf(d)')
      BY <1>5, Zenon DEF fs_close_file, PipeTypeOK, FilesRight
    <3> QED
      BY <3>1, <3>2, Zenon
  <2>2. \A d \in Ends : HoldersOf(d) = {} => HoldersOf(d)' = {}
    BY <1>5, Zenon
  <2>3. \A t \in Threads, d \in Ends : call'[t] = Closing(d) => HoldersOf(d)' = {}
    <3>1. ASSUME NEW d \in Ends, call'[p] = Closing(d)
          PROVE  HoldersOf(d)' = {}
      <4>1. call'[p] = IF f_ref[e] = 1 THEN Closing(e) ELSE "none"
        BY Zenon DEF fs_close_file, PipeTypeOK
      <4>2. f_ref[e] = 1 /\ d = e
        BY <3>1, <4>1, ClosingApart, Zenon
      <4> QED
        BY <1>2, <1>5, <4>2
    <3>2. \A t \in Threads \ {p} : call'[t] = call[t]
      BY Zenon DEF fs_close_file, PipeTypeOK
    <3> QED
      BY <2>2, <3>1, <3>2, Zenon DEF FilesRight
  <2>4. \A t \in Threads : ends'[t] \subseteq ends[t]
    BY Zenon DEF fs_close_file, PipeTypeOK
  <2> QED
    BY <2>1, <2>2, <2>3, <2>4, Zenon DEF FilesRight, fs_close_file
<1>7. /\ UNCHANGED <<open, left, done, op, front, next_empty, eof>>
      /\ \A t \in Threads \ {p} : call'[t] = call[t] /\ ends'[t] = ends[t]
      /\ call[p] = "none" /\ call'[p] \in {"none", "close_r", "close_w"}
      /\ ends'[p] \subseteq ends[p]
  BY Zenon DEF fs_close_file, PipeTypeOK, bbqVars, Closing
<1>8. CallsRight'
  BY <1>7, Zenon DEF CallsRight
<1>9. EofFinal'
  BY <1>7, Zenon DEF EofFinal, bbq_is_empty
<1> QED
  BY <1>1, <1>4, <1>6, <1>8, <1>9

\* pipe_close clears the pointer of an end that nobody has open.
LEMMA PipeCloseKeeps ==
  ASSUME PipeInv, NEW p \in Threads, NEW e \in Ends, pipe_close(p, e)
  PROVE  PipeInv'
<1> USE DEF PipeInv
<1>1. BBQInv'
  BY QueueKept, Zenon DEF pipe_close
<1>2. PipeTypeOK'
  BY Zenon DEF PipeTypeOK, pipe_close
<1>3. HoldersOf(e) = {} /\ \A d \in Ends : HoldersOf(d)' = HoldersOf(d)
  BY Zenon DEF FilesRight, pipe_close, HoldersOf
<1>4. \A t \in Threads \ {p} : call'[t] = call[t]
  BY Zenon DEF pipe_close, PipeTypeOK
<1>5. call'[p] = "none" /\ op[p] = "none"
  BY ClosingApart DEF pipe_close, PipeTypeOK, CallsRight, BBQInv, BBQTypeOK
<1>6. FilesRight'
  BY <1>3, <1>4, <1>5, ClosingApart, Zenon DEF FilesRight, pipe_close
<1>7. UNCHANGED <<ends, left, done, op, front, next_empty, eof>> /\ open' \subseteq open
  BY Zenon DEF pipe_close, bbqVars
<1>8. CallsRight'
  BY <1>4, <1>5, <1>7, Zenon DEF CallsRight
<1>9. EofFinal'
  BY <1>4, <1>5, <1>7, Zenon DEF EofFinal, bbq_is_empty
<1> QED
  BY <1>1, <1>2, <1>6, <1>8, <1>9, Zenon

\* A read that finds the write end closed only drains; a read and a write move a byte
\* or more.
LEMMA BeginKeeps ==
  ASSUME PipeInv, NEW p \in Threads, NEW n \in 1..MaxCount,
         pipe_read(p, n) \/ pipe_write(p, n)
  PROVE  PipeInv'
<1> USE DEF PipeInv
<1>0. n \in Nat /\ n > 0
  BY PipeAssumption
<1>1. BBQInv'
  BY QueueKept, Zenon DEF pipe_read, pipe_write
<1>2. PipeTypeOK'
  BY <1>0 DEF PipeTypeOK, pipe_read, pipe_write
<1>3. /\ UNCHANGED <<ends, born, f_ref, open, op, front, next_empty>>
      /\ eof' \subseteq eof
      /\ \A t \in Threads \ {p} : UNCHANGED <<call[t], left[t], done[t]>>
      /\ call[p] = "none" /\ left'[p] = n /\ done'[p] = 0
  BY Zenon DEF pipe_read, pipe_write, PipeTypeOK, bbqVars
<1>4. /\ \/ call'[p] \in {"read", "drain"} /\ "r" \in ends[p]
         \/ call'[p] = "write" /\ "w" \in ends[p]
      /\ call'[p] = "drain" => "w" \notin open
  BY Zenon DEF pipe_read, pipe_write, PipeTypeOK
<1>5. op[p] = "none"
  BY <1>3, Zenon DEF CallsRight, BBQInv, BBQTypeOK
<1>6. FilesRight'
  <2>1. \A e \in Ends : HoldersOf(e)' = HoldersOf(e) /\ call'[p] # Closing(e)
    BY <1>3, <1>4, ClosingApart, Zenon DEF HoldersOf
  <2> QED
    BY <1>3, <2>1 DEF FilesRight
<1>7. CallsRight'
  BY <1>0, <1>3, <1>4, <1>5 DEF CallsRight
<1>8. EofFinal'
  BY <1>3, <1>4, Zenon DEF EofFinal, bbq_is_empty
<1> QED
  BY <1>1, <1>2, <1>6, <1>7, <1>8, Zenon

\* The loop tests: a read removes from the queue, a write inserts into it.
LEMMA MoreKeeps ==
  ASSUME PipeInv, NEW p \in Threads, ReadMore(p) \/ \E x \in Items : WriteMore(p, x)
  PROVE  PipeInv'
<1> USE DEF PipeInv
<1>1. BBQInv'
  BY CallsKeep, Zenon DEF ReadMore, WriteMore
<1>2. UNCHANGED <<born, ends, f_ref, open, call, left, done, eof>>
      /\ UNCHANGED <<front, next_empty>>
  BY Zenon DEF ReadMore, WriteMore, pipeVars, CallInsert, CallRemove
<1>3. PipeTypeOK'
  BY <1>2, Zenon DEF PipeTypeOK
<1>4. FilesRight'
  BY <1>2, Zenon DEF FilesRight, HoldersOf
<1>5. /\ \A t \in Threads \ {p} : op'[t] = op[t]
      /\ \/ op'[p] = "remove" /\ call[p] \in {"read", "drain"}
         \/ op'[p] = "insert" /\ call[p] = "write"
      /\ left[p] > 0
  BY Zenon DEF ReadMore, WriteMore, CallInsert, CallRemove, BBQInv, BBQTypeOK
<1>6. CallsRight'
  BY <1>2, <1>5, Zenon DEF CallsRight
<1>7. EofFinal'
  BY <1>2, Zenon DEF EofFinal, bbq_is_empty
<1> QED
  BY <1>1, <1>3, <1>4, <1>6, <1>7, Zenon

\* A read that returns 0 found the write end closed when it began and the queue empty
\* at the end; nobody can write any more.
LEMMA ReturnKeeps ==
  ASSUME PipeInv, NEW p \in Threads, ReadReturn(p) \/ WriteReturn(p)
  PROVE  PipeInv'
<1> USE DEF PipeInv
<1>1. BBQInv'
  BY QueueKept, Zenon DEF ReadReturn, WriteReturn
<1>2. PipeTypeOK'
  BY Zenon DEF PipeTypeOK, ReadReturn, WriteReturn
<1>3. /\ UNCHANGED <<born, ends, f_ref, open, left, done, op, front, next_empty>>
      /\ \A t \in Threads \ {p} : call'[t] = call[t]
      /\ call'[p] = "none" /\ op[p] = "none"
  BY Zenon DEF ReadReturn, WriteReturn, PipeTypeOK, bbqVars
<1>4. FilesRight'
  BY <1>3, ClosingApart DEF FilesRight, HoldersOf
<1>5. CallsRight'
  BY <1>3, Zenon DEF CallsRight
<1>6. EofFinal'
  <2>1. CASE eof' \subseteq eof
    BY <1>3, <2>1, Zenon DEF EofFinal, bbq_is_empty
  <2>2. CASE ~(eof' \subseteq eof)
    <3>1. ReadReturn(p) /\ done[p] = 0
      BY <2>2, Zenon DEF ReadReturn, WriteReturn
    <3>2. left[p] \in Nat /\ left[p] + 0 > 0
      BY <3>1, Zenon DEF CallsRight, PipeTypeOK, ReadReturn
    <3>3. call[p] = "drain" /\ bbq_is_empty
      BY <3>1, <3>2 DEF ReadReturn
    <3>4. "w" \notin open
      BY <3>3, Zenon DEF CallsRight
    <3> QED
      BY <1>3, <3>3, <3>4, NoWriter, Zenon DEF EofFinal, bbq_is_empty
  <2> QED
    BY <2>1, <2>2, Zenon
<1> QED
  BY <1>1, <1>2, <1>4, <1>5, <1>6, Zenon

\* A wait changes the queue's lists only; a move takes one byte off the request.
LEMMA QueueStepKeeps ==
  ASSUME PipeInv, NEW p \in Threads, Wait(p) \/ Move(p)
  PROVE  PipeInv'
<1> USE DEF PipeInv
<1>1. BBQInv'
  BY InsertWaitKeeps, InsertKeeps, RemoveWaitKeeps, RemoveKeeps, Zenon DEF Wait, Move
<1>2. UNCHANGED <<born, ends, f_ref, open, call, eof>>
  BY Zenon DEF Wait, Move, pipeVars
<1>3. FilesRight'
  BY <1>2, Zenon DEF FilesRight, HoldersOf
<1>4. CASE Wait(p)
  <2>1. UNCHANGED <<left, done, op, front, next_empty>>
    BY <1>4 DEF Wait, pipeVars, InsertWait, RemoveWait
  <2>2. PipeTypeOK' /\ CallsRight' /\ EofFinal'
    BY <1>2, <2>1 DEF PipeTypeOK, CallsRight, EofFinal, bbq_is_empty
  <2> QED
    BY <1>1, <1>3, <2>2, Zenon
<1>5. CASE Move(p)
  <2>1. /\ op[p] \in {"insert", "remove"} /\ op' = [op EXCEPT ![p] = "none"]
        /\ left' = [left EXCEPT ![p] = @ - 1] /\ done' = [done EXCEPT ![p] = @ + 1]
    BY <1>5, Zenon DEF Move, bbq_insert, bbq_remove
  <2>2. left[p] \in Nat /\ left[p] > 0 /\ done[p] \in Nat
    BY <2>1, Zenon DEF CallsRight, PipeTypeOK
  <2>3. PipeTypeOK'
    BY <1>2, <2>1, <2>2 DEF PipeTypeOK
  <2>4. CallsRight'
    <3>1. /\ op'[p] = "none" /\ left'[p] + done'[p] > 0
          /\ \A t \in Threads \ {p} : UNCHANGED <<op[t], left[t], done[t]>>
      BY <2>1, <2>2 DEF PipeTypeOK, BBQInv, BBQTypeOK
    <3> QED
      BY <1>2, <3>1, Zenon DEF CallsRight
  <2>5. EofFinal'
    <3>1. ASSUME eof # {}
          PROVE  FALSE
      <4>1. "w" \notin open /\ bbq_is_empty
        BY <3>1, Zenon DEF EofFinal
      <4>2. op[p] # "insert"
        BY <4>1, NoWriter
      <4> QED
        BY <1>5, <4>1, <4>2, Zenon DEF Move, bbq_insert, bbq_remove
    <3> QED
      BY <1>2, <3>1, Zenon DEF EofFinal
  <2> QED
    BY <1>1, <1>3, <2>3, <2>4, <2>5, Zenon
<1> QED
  BY <1>4, <1>5, Zenon

\* The inductive invariant of the pipe holds for any number of processes.
THEOREM PipeInvariance == Spec => []PipeInv
<1>1. ASSUME PipeInv, Next
      PROVE  PipeInv'
  <2>1. PICK p \in Threads :
          \/ \E q \in Threads : fork(p, q)
          \/ \E e \in Ends : fs_close_file(p, e)
          \/ \E n \in 1..MaxCount : pipe_read(p, n) \/ pipe_write(p, n)
          \/ Busy(p)
    BY <1>1 DEF Next
  <2>2. CASE Busy(p)
    BY <1>1, <2>2, PipeCloseKeeps, MoreKeeps, ReturnKeeps, QueueStepKeeps DEF Busy
  <2> QED
    BY <1>1, <2>1, <2>2, ForkKeeps, CloseKeeps, BeginKeeps, Zenon
<1>2. ASSUME PipeInv, UNCHANGED vars
      PROVE  PipeInv'
  <2>1. BBQInv'
    BY <1>2, QueueKept, Zenon DEF PipeInv, vars
  <2> QED
    BY <1>2, <2>1 DEF PipeInv, PipeTypeOK, FilesRight, HoldersOf, CallsRight, EofFinal,
                      bbq_is_empty, vars, pipeVars, bbqVars
<1> QED
  BY <1>1, <1>2, PipeInit, PTL DEF Spec

\* An end that some process has open is not closed under it, for any number of
\* processes and descriptors (fs_close_file, pipe_close, fork).
THEOREM EndsStayOpen == Spec => []OpenWhileHeld
<1>1. PipeInv => OpenWhileHeld
  BY Zenon DEF PipeInv, PipeTypeOK, FilesRight, HoldersOf, OpenWhileHeld
<1> QED
  BY <1>1, PipeInvariance, PTL

\* When a read has returned 0 the write end is closed, no write is in progress and no
\* byte is left (pipe_read, pipe_write).
THEOREM EofIsFinal == Spec => []EofFinal
<1>1. PipeInv => EofFinal
  BY Zenon DEF PipeInv
<1> QED
  BY <1>1, PipeInvariance, PTL

\* The processes use the queue as threads do: what a pipe delivers is what was written,
\* in order and once, and no process sleeps on a byte or on room that nobody else is on
\* the way to.
THEOREM PipeIsFifo == Spec => Fifo!Spec /\ []NoSleeperForgotten
<1>1. Init => Fifo!Init
  BY InitImplements, Zenon DEF Init
<1>2. PipeInv /\ PipeInv' /\ [Next]_vars => [Fifo!Next]_(Fifo!vars)
  <2>1. ASSUME UNCHANGED bbqVars
        PROVE  UNCHANGED Fifo!vars
    BY <2>1, ContentsSame, Zenon DEF bbqVars, Fifo!vars
  <2>2. ASSUME PipeInv, PipeInv', Next
        PROVE  Fifo!Next \/ UNCHANGED Fifo!vars
    <3>1. PICK p \in Threads :
            \/ UNCHANGED bbqVars
            \/ (\E x \in Items : CallInsert(p, x)) \/ CallRemove(p) \/ Step(p)
      BY <2>2, Zenon DEF Next, Busy, fork, fs_close_file, pipe_close, pipe_read, pipe_write, ReadMore,
                  ReadReturn, WriteMore, WriteReturn, Wait, Move, Step
    <3> QED
      BY <2>1, <2>2, <3>1, StepImplements, Zenon DEF PipeInv
  <2> QED
    BY <2>1, <2>2, Zenon DEF vars
<1>3. PipeInv => NoSleeperForgotten
  BY Zenon DEF PipeInv, BBQInv
<1> QED
  BY <1>1, <1>2, <1>3, PipeInvariance, PTL DEF Spec, Fifo!Spec
=============================================================================
