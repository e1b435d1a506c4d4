----------------------------- MODULE FifoQueue -----------------------------
(***************************************************************************)
(* What the bounded blocking queue of kernel/bbq.c promises its callers: a  *)
(* first-in first-out queue of at most Size items, on which an insertion    *)
(* takes effect when there is room and a removal when there is an item.     *)
(***************************************************************************)
EXTENDS Naturals, Sequences

CONSTANTS Threads, Items, Size, NULL

VARIABLES
  queue,  \* the items, oldest first
  op,     \* the call each thread is in
  item    \* the argument of the call or, after a removal, its result

vars == <<queue, op, item>>

Init ==
  /\ queue = <<>>
  /\ op = [t \in Threads |-> "none"]
  /\ item = [t \in Threads |-> NULL]

Call(t) ==
  /\ op[t] = "none"
  /\ \/ \E x \in Items : op' = [op EXCEPT ![t] = "insert"] /\ item' = [item EXCEPT ![t] = x]
     \/ op' = [op EXCEPT ![t] = "remove"] /\ item' = [item EXCEPT ![t] = NULL]
  /\ UNCHANGED queue

Put(t) ==
  /\ op[t] = "insert"
  /\ Len(queue) < Size
  /\ queue' = Append(queue, item[t])
  /\ op' = [op EXCEPT ![t] = "none"]
  /\ UNCHANGED item

Get(t) ==
  /\ op[t] = "remove"
  /\ queue # <<>>
  /\ queue' = Tail(queue)
  /\ item' = [item EXCEPT ![t] = Head(queue)]
  /\ op' = [op EXCEPT ![t] = "none"]

Next == \E t \in Threads : Call(t) \/ Put(t) \/ Get(t)

Spec == Init /\ [][Next]_vars

\* Somebody makes progress; which of several waiting threads is left open.
FairSpec ==
  /\ Spec
  /\ WF_vars(\E t \in Threads : Put(t))
  /\ WF_vars(\E t \in Threads : Get(t))
=============================================================================
