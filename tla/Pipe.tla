-------------------------------- MODULE Pipe --------------------------------
(***************************************************************************)
(* One pipe (kernel/pipe.c) and the processes that share its two ends: the  *)
(* open-file counts of fs_reopen_file and fs_close_file, the read and write *)
(* system calls, and under them the queue of BBQ.  An element of Threads is *)
(* the thread of one process.  The bytes are Items.                        *)
(***************************************************************************)
EXTENDS BBQ, FiniteSetsExt

CONSTANT
  Creator,       \* the process that called pipe()
  MaxCount       \* bound on the count of one read or write

ASSUME PipeAssumption == Creator \in Threads /\ MaxCount \in Nat \ {0}

VARIABLES
  born,          \* processes that exist
  ends,          \* which ends each process has open
  f_ref,         \* reference count of the struct file of each end
  open,          \* the ends whose pointer in the pipe (read_file, write_file) is set
  call,          \* where each process is in a system call on the pipe
  left,          \* bytes of the request still to be moved
  done,          \* bytes moved so far: bytesRead, bytesWritten
  eof            \* processes whose last read returned 0

pipeVars == <<born, ends, f_ref, open, call, left, done, eof>>
vars == <<bbqVars, pipeVars>>

Ends == {"r", "w"}
Closing(e) == IF e = "r" THEN "close_r" ELSE "close_w"

\* sys_pipe in Creator: both files have one reference and both pointers are set.
Init ==
  /\ bbq_init
  /\ born = {Creator}
  /\ ends = [p \in Threads |-> IF p = Creator THEN Ends ELSE {}]
  /\ f_ref = [e \in Ends |-> 1]
  /\ open = Ends
  /\ call = [p \in Threads |-> "none"]
  /\ left = [p \in Threads |-> 0]
  /\ done = [p \in Threads |-> 0]
  /\ eof = {}

\* A wrong duplicate_process_state: the child's descriptors take no reference.
ForkNoReopen(p, q) ==
  /\ p \in born /\ call[p] = "none" /\ q \notin born
  /\ born' = born \cup {q}
  /\ ends' = [ends EXCEPT ![q] = ends[p]]
  /\ UNCHANGED <<bbqVars, f_ref, open, call, left, done, eof>>

\* The child gets the parent's descriptors, each with a reference of its own.
fork(p, q) ==
  /\ p \in born /\ call[p] = "none" /\ q \notin born
  /\ born' = born \cup {q}
  /\ ends' = [ends EXCEPT ![q] = ends[p]]
  /\ f_ref' = [e \in Ends |-> IF e \in ends[p] THEN f_ref[e] + 1 ELSE f_ref[e]]
  /\ UNCHANGED <<bbqVars, open, call, left, done, eof>>

\* fs_close_file up to the release of f_lock; the last reference goes on to pipe_close.
fs_close_file(p, e) ==
  /\ call[p] = "none" /\ e \in ends[p]
  /\ ends' = [ends EXCEPT ![p] = @ \ {e}]
  /\ f_ref' = [f_ref EXCEPT ![e] = @ - 1]
  /\ call' = [call EXCEPT ![p] = IF f_ref[e] = 1 THEN Closing(e) ELSE "none"]
  /\ UNCHANGED <<bbqVars, born, open, left, done, eof>>

pipe_close(p, e) ==
  /\ call[p] = Closing(e)
  /\ open' = open \ {e}
  /\ call' = [call EXCEPT ![p] = "none"]
  /\ UNCHANGED <<bbqVars, born, ends, f_ref, left, done, eof>>

-----------------------------------------------------------------------------
\* A wrong pipe_read: it returns what there is without looking at write_file.
ReadAlwaysDrains(p, n) ==
  /\ call[p] = "none" /\ "r" \in ends[p]
  /\ call' = [call EXCEPT ![p] = "drain"]
  /\ left' = [left EXCEPT ![p] = n]
  /\ done' = [done EXCEPT ![p] = 0]
  /\ eof' = eof \ {p}
  /\ UNCHANGED <<bbqVars, born, ends, f_ref, open>>

\* Entry of pipe_read: write_file is looked at once, and decides which loop runs.
pipe_read(p, n) ==
  /\ call[p] = "none" /\ "r" \in ends[p]
  /\ call' = [call EXCEPT ![p] = IF "w" \in open THEN "read" ELSE "drain"]
  /\ left' = [left EXCEPT ![p] = n]
  /\ done' = [done EXCEPT ![p] = 0]
  /\ eof' = eof \ {p}
  /\ UNCHANGED <<bbqVars, born, ends, f_ref, open>>

\* The loop tests, made without q->lock.
ReadMore(p) ==
  /\ op[p] = "none" /\ left[p] > 0
  /\ \/ call[p] = "read"
     \/ call[p] = "drain" /\ ~bbq_is_empty
  /\ CallRemove(p)
  /\ UNCHANGED pipeVars

\* A wrong end of the loop: the drain stops at count only.
ReadReturnAtCount(p) ==
  /\ op[p] = "none"
  /\ call[p] \in {"read", "drain"} /\ left[p] = 0
  /\ call' = [call EXCEPT ![p] = "none"]
  /\ eof' = IF done[p] = 0 THEN eof \cup {p} ELSE eof
  /\ UNCHANGED <<bbqVars, born, ends, f_ref, open, left, done>>

ReadReturn(p) ==
  /\ op[p] = "none"
  /\ \/ call[p] = "read" /\ left[p] = 0
     \/ call[p] = "drain" /\ (left[p] = 0 \/ bbq_is_empty)
  /\ call' = [call EXCEPT ![p] = "none"]
  /\ eof' = IF done[p] = 0 THEN eof \cup {p} ELSE eof
  /\ UNCHANGED <<bbqVars, born, ends, f_ref, open, left, done>>

\* Entry of pipe_write: ERR_END when there is no reader.
pipe_write(p, n) ==
  /\ call[p] = "none" /\ "w" \in ends[p]
  /\ "r" \in open
  /\ call' = [call EXCEPT ![p] = "write"]
  /\ left' = [left EXCEPT ![p] = n]
  /\ done' = [done EXCEPT ![p] = 0]
  /\ UNCHANGED <<bbqVars, born, ends, f_ref, open, eof>>

WriteMore(p, x) ==
  /\ call[p] = "write" /\ op[p] = "none" /\ left[p] > 0
  /\ CallInsert(p, x)
  /\ UNCHANGED pipeVars

WriteReturn(p) ==
  /\ call[p] = "write" /\ op[p] = "none" /\ left[p] = 0
  /\ call' = [call EXCEPT ![p] = "none"]
  /\ UNCHANGED <<bbqVars, born, ends, f_ref, open, left, done, eof>>

Wait(p) == (InsertWait(p) \/ RemoveWait(p)) /\ UNCHANGED pipeVars

Move(p) ==
  /\ bbq_insert(p) \/ bbq_remove(p)
  /\ left' = [left EXCEPT ![p] = @ - 1]
  /\ done' = [done EXCEPT ![p] = @ + 1]
  /\ UNCHANGED <<born, ends, f_ref, open, call, eof>>

-----------------------------------------------------------------------------
\* Bytes still owed by the writes in progress: with next_empty, within MaxInserts.
Owed == MapThenSumSet(LAMBDA p : left[p], {p \in Threads : call[p] = "write"})

Busy(p) ==
  \/ \E e \in Ends : pipe_close(p, e)
  \/ ReadMore(p) \/ ReadReturn(p)
  \/ WriteReturn(p) \/ \E x \in Items : WriteMore(p, x)
  \/ Wait(p) \/ Move(p)

Next ==
  \E p \in Threads :
    \/ \E q \in Threads : fork(p, q)
    \/ \E e \in Ends : fs_close_file(p, e)
    \/ \E n \in 1..MaxCount :
         \/ pipe_read(p, n)
         \/ next_empty + Owed + n <= MaxInserts /\ pipe_write(p, n)
    \/ Busy(p)

Spec == Init /\ [][Next]_vars

\* A process in a system call goes on with it; which calls it makes is up to it.
FairSpec == Spec /\ \A p \in Threads : WF_vars(Busy(p))

-----------------------------------------------------------------------------
\* An end that some process has open is not closed under it (f_ref and pipe_close): the
\* pointers in the pipe are cleared only when the last descriptor is gone.
OpenWhileHeld == \A p \in Threads : ends[p] \subseteq open

\* End of file is final: when a read has returned 0 the write end is closed for good,
\* no write is in progress and no byte is left, for any number of readers and writers
\* (pipe_read tests write_file and bbq_is_empty without a lock).
EofFinal ==
  eof # {} => /\ "w" \notin open
              /\ bbq_is_empty
              /\ \A p \in Threads : call[p] # "write" /\ "w" \notin ends[p]

\* A read that starts after the write end is closed returns, provided no other process
\* has the read end open (the loop at pipe_read's end tests bbq_is_empty first).  Another
\* reader may take the last byte between that test and bbq_remove.
DrainReturns ==
  \A p \in Threads :
    (/\ call[p] = "drain" /\ op[p] = "none"
     /\ \A q \in Threads \ {p} : "r" \notin ends[q]) ~> call[p] = "none"

\* What the documents say.  A read of a pipe with no open write end returns:
\* test/designdoc3.md:111.
ReadReturnsAtEof ==
  \A p \in Threads :
    (call[p] \in {"read", "drain"} /\ "w" \notin open) ~> call[p] = "none"
=============================================================================
