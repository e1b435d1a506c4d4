----------------------------- MODULE AtomicDisk -----------------------------
(***************************************************************************)
(* What a journalled disk promises: the blocks written by a transaction     *)
(* become permanent together or, when the machine stops first, not at all.  *)
(***************************************************************************)
CONSTANTS Blocks, Vals, Store0

VARIABLES
  store,     \* the permanent blocks
  txn        \* the blocks written by the open transaction

NoWrites == [b \in {} |-> b]

Init == store = Store0 /\ txn = NoWrites

Write(b, v) ==
  /\ txn' = [c \in DOMAIN txn \cup {b} |-> IF c = b THEN v ELSE txn[c]]
  /\ UNCHANGED store

Commit ==
  /\ store' = [b \in Blocks |-> IF b \in DOMAIN txn THEN txn[b] ELSE store[b]]
  /\ txn' = NoWrites

Crash == txn' = NoWrites /\ UNCHANGED store

Next == (\E b \in Blocks, v \in Vals : Write(b, v)) \/ Commit \/ Crash

Spec == Init /\ [][Next]_<<store, txn>>
=============================================================================
