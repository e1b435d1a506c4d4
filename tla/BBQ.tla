-------------------------------- MODULE BBQ --------------------------------
(***************************************************************************)
(* The bounded blocking queue of kernel/bbq.c, shared by any number of      *)
(* threads.  What a thread does between taking and releasing q->lock is one *)
(* step; it ends by waiting on a condition variable, which releases the     *)
(* lock, or by leaving.  A signal moves the first waiter out of the list;   *)
(* that thread takes the lock again, and tests again, in a later step of    *)
(* its own, so others may come in between.                                 *)
(***************************************************************************)
EXTENDS Naturals, Sequences, FiniteSets

CONSTANTS
  Threads,
  Items,         \* what is stored: the bytes
  MAX_BBQ_SIZE,
  MaxInserts,    \* bound on next_empty, an int that must not overflow
  NULL

ASSUME BBQAssumption ==
  /\ MAX_BBQ_SIZE \in Nat \ {0}
  /\ MaxInserts \in Nat
  /\ NULL \notin Threads \cup Items
  /\ IsFiniteSet(Threads)

VARIABLES
  items,         \* q->items
  front,         \* q->front
  next_empty,    \* q->next_empty
  item_added,    \* threads waiting for an item
  item_removed,  \* threads waiting for room
  op,            \* the function each thread is in, "none" when in neither
  item           \* its argument, or its last result

bbqVars == <<items, front, next_empty, item_added, item_removed, op, item>>

Slots == 0..(MAX_BBQ_SIZE - 1)

bbq_init ==
  /\ items \in [Slots -> {NULL}]
  /\ front = 0
  /\ next_empty = 0
  /\ item_added = <<>>
  /\ item_removed = <<>>
  /\ op = [t \in Threads |-> "none"]
  /\ item = [t \in Threads |-> NULL]

\* condvar_signal: the first waiter, if any, is let go.
Signalled(cv) == IF cv = <<>> THEN cv ELSE Tail(cv)

Asleep == {item_added[i] : i \in 1..Len(item_added)}
            \cup {item_removed[i] : i \in 1..Len(item_removed)}

bbq_is_empty == front = next_empty

bbq_is_full == next_empty - front = MAX_BBQ_SIZE

CallInsert(t, x) ==
  /\ op[t] = "none"
  /\ op' = [op EXCEPT ![t] = "insert"]
  /\ item' = [item EXCEPT ![t] = x]
  /\ UNCHANGED <<items, front, next_empty, item_added, item_removed>>

CallRemove(t) ==
  /\ op[t] = "none"
  /\ op' = [op EXCEPT ![t] = "remove"]
  /\ item' = [item EXCEPT ![t] = NULL]
  /\ UNCHANGED <<items, front, next_empty, item_added, item_removed>>

\* A thread that finds no room, or nothing, waits.
InsertWait(t) ==
  /\ op[t] = "insert" /\ t \notin Asleep
  /\ bbq_is_full
  /\ item_removed' = Append(item_removed, t)
  /\ UNCHANGED <<items, front, next_empty, item_added, op, item>>

\* A wrong bbq_insert: it signals only when the queue was empty.
InsertSignalIfEmpty(t) ==
  /\ op[t] = "insert" /\ t \notin Asleep
  /\ ~bbq_is_full
  /\ items' = [items EXCEPT ![next_empty % MAX_BBQ_SIZE] = item[t]]
  /\ next_empty' = next_empty + 1
  /\ item_added' = IF bbq_is_empty THEN Signalled(item_added) ELSE item_added
  /\ op' = [op EXCEPT ![t] = "none"]
  /\ UNCHANGED <<front, item_removed, item>>

bbq_insert(t) ==
  /\ op[t] = "insert" /\ t \notin Asleep
  /\ ~bbq_is_full
  /\ items' = [items EXCEPT ![next_empty % MAX_BBQ_SIZE] = item[t]]
  /\ next_empty' = next_empty + 1
  /\ item_added' = Signalled(item_added)
  /\ op' = [op EXCEPT ![t] = "none"]
  /\ UNCHANGED <<front, item_removed, item>>

RemoveWait(t) ==
  /\ op[t] = "remove" /\ t \notin Asleep
  /\ bbq_is_empty
  /\ item_added' = Append(item_added, t)
  /\ UNCHANGED <<items, front, next_empty, item_removed, op, item>>

\* A wrong bbq_remove: front is advanced before the item is read.
RemoveAdvanced(t) ==
  /\ op[t] = "remove" /\ t \notin Asleep
  /\ ~bbq_is_empty
  /\ item' = [item EXCEPT ![t] = items[(front + 1) % MAX_BBQ_SIZE]]
  /\ front' = front + 1
  /\ item_removed' = Signalled(item_removed)
  /\ op' = [op EXCEPT ![t] = "none"]
  /\ UNCHANGED <<items, next_empty, item_added>>

bbq_remove(t) ==
  /\ op[t] = "remove" /\ t \notin Asleep
  /\ ~bbq_is_empty
  /\ item' = [item EXCEPT ![t] = items[front % MAX_BBQ_SIZE]]
  /\ front' = front + 1
  /\ item_removed' = Signalled(item_removed)
  /\ op' = [op EXCEPT ![t] = "none"]
  /\ UNCHANGED <<items, next_empty, item_added>>

-----------------------------------------------------------------------------
Inserting == Cardinality({t \in Threads : op[t] = "insert"})

Step(t) == InsertWait(t) \/ bbq_insert(t) \/ RemoveWait(t) \/ bbq_remove(t)

BBQNext ==
  \E t \in Threads :
    \/ next_empty + Inserting < MaxInserts /\ \E x \in Items : CallInsert(t, x)
    \/ CallRemove(t)
    \/ Step(t)

BBQSpec == bbq_init /\ [][BBQNext]_bbqVars

\* A thread that is awake gets the lock: it is held for a bounded time only.
BBQFairSpec == BBQSpec /\ \A t \in Threads : WF_bbqVars(Step(t))

-----------------------------------------------------------------------------
\* The items between front and next_empty, oldest first.
Contents == [i \in 1..(next_empty - front) |-> items[(front + i - 1) % MAX_BBQ_SIZE]]

\* bbq.c implements a first-in first-out queue: every removal returns the oldest item
\* inserted and not yet removed, with any interleaving of the threads, and when there
\* is room (an item) for a thread that wants to insert (remove), somebody does.
Fifo == INSTANCE FifoQueue WITH queue <- Contents, Size <- MAX_BBQ_SIZE
ImplementsFifo == Fifo!FairSpec

\* No wakeup is lost although each signal wakes one thread and others may overtake it:
\* while threads sleep for an item there are no more items than awake threads on their
\* way to take one, and the same for room (bbq_insert, bbq_remove, the two condvars).
NoSleeperForgotten ==
  /\ item_added # <<>> =>
       next_empty - front <= Cardinality({t \in Threads : op[t] = "remove" /\ t \notin Asleep})
  /\ item_removed # <<>> =>
       MAX_BBQ_SIZE - (next_empty - front)
         <= Cardinality({t \in Threads : op[t] = "insert" /\ t \notin Asleep})
=============================================================================
