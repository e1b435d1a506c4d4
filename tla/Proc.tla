-------------------------------- MODULE Proc --------------------------------
(***************************************************************************)
(* Life and death of processes (kernel/proc.c): spawn, fork, wait and exit, *)
(* the process table and its spinlock, and the struct procs themselves,     *)
(* which are freed and allocated again.  A process has one thread, which is *)
(* named by the address of its struct proc.  Ghost variables remember what  *)
(* the addresses forget: who created whom, who exited with what, and who    *)
(* was told.                                                                *)
(***************************************************************************)
EXTENDS Naturals, Sequences, Functions

CONSTANTS
  Slots,      \* addresses of struct proc
  Init_proc,  \* the address of the first process
  Slab,       \* the other ones, in the order proc_allocator hands them out
  Status,     \* of each pid, the statuses that process may exit with
  ALIVE,      \* STATUS_ALIVE
  ANY_CHILD,
  ERR_CHILD,
  NULL,
  MaxPid      \* bound on pid_allocator

ASSUME ProcAssumption ==
  /\ Init_proc \in Slots /\ NULL \notin Slots
  /\ Slab \in Seq(Slots) /\ Range(Slab) = Slots \ {Init_proc} /\ IsInjective(Slab)
  /\ \A i \in 0..(MaxPid - 1) : ALIVE \notin Status[i]
  /\ MaxPid \in Nat \ {0}
  /\ {ANY_CHILD, ERR_CHILD, NULL} \cap (0..MaxPid) = {}
  /\ NULL \notin ((0..(MaxPid - 1)) \cup {ERR_CHILD})
                  \X ({ALIVE, ANY_CHILD} \cup (0..(MaxPid - 1))
                      \cup (UNION {Status[i] : i \in 0..(MaxPid - 1)}))

VARIABLES
  pool,         \* the free struct procs of the slab, the one freed last first
  pid,          \* fields of each struct proc
  parent,
  has_exited,
  exit_status,
  pid_allocator,
  ptable,       \* struct procs in the process table, in order
  ptable_lock,  \* its holder, NULL when free
  pc,           \* where the thread of each process is
  child,        \* proc_fork, proc_spawn: the new struct proc
  target,       \* proc_wait: the pid asked for
  pos,          \* proc_wait: next entry of ptable to look at
  found,        \* proc_wait: found_child
  result,       \* the last result of wait: <<pid, status>> or <<ERR_CHILD, pid asked for>>
  creator,      \* ghost: for each pid, the pid of the process that created it
  said,         \* ghost: for each pid, the status passed to exit
  reaper        \* ghost: for each pid, the pids whose wait returned it, in order

fields == <<pid, parent, has_exited, exit_status>>
ghosts == <<creator, said, reaper>>
waitVars == <<target, pos, found, result>>
vars == <<pool, fields, pid_allocator, ptable, ptable_lock, pc, child, waitVars, ghosts>>

Pids == 0..(MaxPid - 1)
allocated == Slots \ Range(pool)

\* A list without its i-th element.
list_remove(s, i) == SubSeq(s, 1, i - 1) \o SubSeq(s, i + 1, Len(s))

\* The first process, spawned by the kernel: it has no parent.
Init ==
  /\ pool = Slab
  /\ pid = [s \in Slots |-> 0]
  /\ parent = [s \in Slots |-> NULL]
  /\ has_exited = [s \in Slots |-> FALSE]
  /\ exit_status = [s \in Slots |-> ALIVE]
  /\ pid_allocator = 1
  /\ ptable = <<Init_proc>>
  /\ ptable_lock = NULL
  /\ pc = [s \in Slots |-> IF s = Init_proc THEN "user" ELSE "gone"]
  /\ child = [s \in Slots |-> NULL]
  /\ target = [s \in Slots |-> NULL]
  /\ pos = [s \in Slots |-> 1]
  /\ found = [s \in Slots |-> FALSE]
  /\ result = [s \in Slots |-> NULL]
  /\ creator = [i \in Pids |-> NULL]
  /\ said = [i \in Pids |-> ALIVE]
  /\ reaper = [i \in Pids |-> <<>>]

-----------------------------------------------------------------------------
\* proc_alloc and proc_init, and with them the parent and the thread: a child made by
\* fork runs as soon as thread_start_context is done, one made by spawn does not yet.
NewProc(p, c, par, next, at) ==
  /\ pc[p] = "user"
  /\ pool # <<>> /\ c = Head(pool) /\ pid_allocator < MaxPid
  /\ pool' = Tail(pool)
  /\ pid' = [pid EXCEPT ![c] = pid_allocator]
  /\ pid_allocator' = pid_allocator + 1
  /\ parent' = [parent EXCEPT ![c] = par]
  /\ has_exited' = [has_exited EXCEPT ![c] = FALSE]
  /\ exit_status' = [exit_status EXCEPT ![c] = ALIVE]
  /\ pc' = [pc EXCEPT ![p] = next, ![c] = at]
  /\ child' = [child EXCEPT ![p] = c]
  /\ result' = [result EXCEPT ![p] = NULL, ![c] = NULL]
  /\ creator' = [creator EXCEPT ![pid_allocator] = pid[p]]
  /\ UNCHANGED <<ptable, ptable_lock, target, pos, found, said, reaper>>

proc_fork(p, c) == NewProc(p, c, p, "fork", "user")

proc_spawn(p, c) == NewProc(p, c, NULL, "spawn", "new")

\* The append under ptable_lock.  proc_fork returns; proc_spawn sets the parent and
\* starts the child afterwards.
PtableAppend(p) ==
  /\ pc[p] \in {"fork", "spawn"} /\ ptable_lock = NULL
  /\ ptable' = Append(ptable, child[p])
  /\ pc' = [pc EXCEPT ![p] = IF @ = "fork" THEN "user" ELSE "start"]
  /\ child' = [child EXCEPT ![p] = IF pc[p] = "fork" THEN NULL ELSE @]
  /\ UNCHANGED <<pool, fields, pid_allocator, ptable_lock, waitVars, ghosts>>

SpawnStart(p) ==
  /\ pc[p] = "start"
  /\ parent' = [parent EXCEPT ![child[p]] = p]
  /\ pc' = [pc EXCEPT ![p] = "user", ![child[p]] = "user"]
  /\ child' = [child EXCEPT ![p] = NULL]
  /\ UNCHANGED <<pool, pid, has_exited, exit_status, pid_allocator, ptable, ptable_lock,
                 waitVars, ghosts>>

-----------------------------------------------------------------------------
\* proc_wait is called, and takes the lock for a pass over the table.
proc_wait(p, i) ==
  /\ pc[p] = "user"
  /\ target' = [target EXCEPT ![p] = i]
  /\ result' = [result EXCEPT ![p] = NULL]
  /\ pc' = [pc EXCEPT ![p] = "wait"]
  /\ UNCHANGED <<pool, fields, pid_allocator, ptable, ptable_lock, child, pos, found, ghosts>>

WaitLock(p) ==
  /\ pc[p] = "wait" /\ ptable_lock = NULL
  /\ ptable_lock' = p
  /\ pc' = [pc EXCEPT ![p] = "scan"]
  /\ UNCHANGED <<pool, fields, pid_allocator, ptable, child, waitVars, ghosts>>

IsChild(c, p) == parent[c] = p /\ target[p] \in {ANY_CHILD, pid[c]}

\* The lock is released and the locals of the pass, and at a return those of the call,
\* are no more.
PassOver(p, res) ==
  /\ ptable_lock' = NULL
  /\ result' = [result EXCEPT ![p] = res]
  /\ pc' = [pc EXCEPT ![p] = IF res = NULL THEN "wait" ELSE "user"]
  /\ target' = [target EXCEPT ![p] = IF res = NULL THEN @ ELSE NULL]
  /\ pos' = [pos EXCEPT ![p] = 1]
  /\ found' = [found EXCEPT ![p] = FALSE]
  /\ UNCHANGED <<pid_allocator, child, creator, said>>

\* proc_free overwrites the struct.
proc_free(c) ==
  /\ pool' = <<c>> \o pool
  /\ pid' = [pid EXCEPT ![c] = 0]
  /\ parent' = [parent EXCEPT ![c] = NULL]
  /\ has_exited' = [has_exited EXCEPT ![c] = FALSE]
  /\ exit_status' = [exit_status EXCEPT ![c] = ALIVE]

\* One entry that does not end the pass.
WaitLook(p) ==
  /\ pc[p] = "scan" /\ pos[p] <= Len(ptable)
  /\ LET c == ptable[pos[p]] IN
       /\ ~(IsChild(c, p) /\ has_exited[c])
       /\ found' = [found EXCEPT ![p] = @ \/ IsChild(c, p)]
  /\ pos' = [pos EXCEPT ![p] = @ + 1]
  /\ UNCHANGED <<pool, fields, pid_allocator, ptable, ptable_lock, pc, child,
                 target, result, ghosts>>

\* A wrong proc_wait: the child is freed and left in the table.
ReapNoRemove(p) ==
  /\ pc[p] = "scan" /\ pos[p] <= Len(ptable)
  /\ LET c == ptable[pos[p]] IN
       /\ IsChild(c, p) /\ has_exited[c]
       /\ reaper' = [reaper EXCEPT ![pid[c]] = Append(@, pid[p])]
       /\ proc_free(c)
       /\ PassOver(p, <<pid[c], exit_status[c]>>)
  /\ UNCHANGED ptable

\* An exited child: its status is taken, it leaves the table and is freed.
WaitReap(p) ==
  /\ pc[p] = "scan" /\ pos[p] <= Len(ptable)
  /\ LET c == ptable[pos[p]] IN
       /\ IsChild(c, p) /\ has_exited[c]
       /\ ptable' = list_remove(ptable, pos[p])
       /\ reaper' = [reaper EXCEPT ![pid[c]] = Append(@, pid[p])]
       /\ proc_free(c)
       /\ PassOver(p, <<pid[c], exit_status[c]>>)

\* A wrong end of a pass: it gives up when no child has exited yet.
PassGivesUp(p) ==
  /\ pc[p] = "scan" /\ pos[p] > Len(ptable)
  /\ PassOver(p, <<ERR_CHILD, target[p]>>)
  /\ UNCHANGED <<pool, fields, ptable, reaper>>

\* The end of a pass: ERR_CHILD if no entry matched, else once more.
WaitPassEnd(p) ==
  /\ pc[p] = "scan" /\ pos[p] > Len(ptable)
  /\ PassOver(p, IF found[p] THEN NULL ELSE <<ERR_CHILD, target[p]>>)
  /\ UNCHANGED <<pool, fields, ptable, reaper>>

-----------------------------------------------------------------------------
\* A wrong proc_exit: the parent is notified before the status is there.
ExitFlagFirst(p, st) ==
  /\ pc[p] = "user" /\ parent[p] # NULL
  /\ has_exited' = [has_exited EXCEPT ![p] = TRUE]
  /\ said' = [said EXCEPT ![pid[p]] = st]
  /\ pc' = [pc EXCEPT ![p] = "exit"]
  /\ result' = [result EXCEPT ![p] = NULL]
  /\ UNCHANGED <<pool, pid, parent, exit_status, pid_allocator, ptable, ptable_lock,
                 child, target, pos, found, creator, reaper>>

\* proc_exit writes exit_status, then has_exited, without a lock.
proc_exit(p, st) ==
  /\ pc[p] = "user" /\ parent[p] # NULL
  /\ exit_status' = [exit_status EXCEPT ![p] = st]
  /\ said' = [said EXCEPT ![pid[p]] = st]
  /\ pc' = [pc EXCEPT ![p] = "exit"]
  /\ result' = [result EXCEPT ![p] = NULL]
  /\ UNCHANGED <<pool, pid, parent, has_exited, pid_allocator, ptable, ptable_lock,
                 child, target, pos, found, creator, reaper>>

\* A wrong one: the flag is not written.
ExitNoFlag(p) ==
  /\ pc[p] = "exit"
  /\ pc' = [pc EXCEPT ![p] = "gone"]
  /\ UNCHANGED <<pool, fields, pid_allocator, ptable, ptable_lock, child, waitVars, ghosts>>

ExitFlag(p) ==
  /\ pc[p] = "exit"
  /\ has_exited' = [has_exited EXCEPT ![p] = TRUE]
  /\ pc' = [pc EXCEPT ![p] = "gone"]
  /\ UNCHANGED <<pool, pid, parent, exit_status, pid_allocator, ptable, ptable_lock,
                 child, waitVars, ghosts>>

\* The process without a parent tells nobody.
ExitParentless(p) ==
  /\ pc[p] = "user" /\ parent[p] = NULL
  /\ pc' = [pc EXCEPT ![p] = "gone"]
  /\ UNCHANGED <<pool, fields, pid_allocator, ptable, ptable_lock, child, waitVars, ghosts>>

-----------------------------------------------------------------------------
Locking(p) == PtableAppend(p) \/ WaitLock(p)
Going(p) == SpawnStart(p) \/ WaitLook(p) \/ WaitReap(p) \/ WaitPassEnd(p) \/ ExitFlag(p)

Next ==
  \E p \in Slots :
    \/ \E c \in Slots : proc_fork(p, c) \/ proc_spawn(p, c)
    \/ \E i \in Pids \cup {ANY_CHILD} : proc_wait(p, i)
    \/ \E st \in Status[pid[p]] : proc_exit(p, st)
    \/ ExitParentless(p)
    \/ Locking(p) \/ Going(p)

Spec == Init /\ [][Next]_vars

\* A call in progress goes on, and a thread that spins for ptable_lock gets it in the end
\* if it is free again and again.  Which calls a process makes is up to it.
FairSpec == Spec /\ \A p \in Slots : WF_vars(Going(p)) /\ SF_vars(Locking(p))

-----------------------------------------------------------------------------
\* The process table holds every struct proc at most once and none that has been freed
\* (the append after the child was started, and the removal in proc_wait).
PtableSound ==
  /\ Range(ptable) \subseteq allocated
  /\ IsInjective(ptable)

\* No thread uses a struct proc that may have been freed: one whose struct is gone has
\* nothing left to do in it, and the child being made by fork or spawn is still there.
NoUseAfterFree ==
  /\ \A s \in Slots \ allocated : pc[s] = "gone"
  /\ \A p \in Slots : pc[p] \in {"fork", "spawn", "start"} => child[p] \in allocated

\* wait reports the status the child passed to exit, although exit_status and has_exited
\* are written without the lock under which proc_wait reads them.
StatusExact ==
  \A p \in Slots, i \in Pids, st \in {ALIVE} \cup (UNION {Status[j] : j \in Pids}) :
    result[p] = <<i, st>> => st # ALIVE /\ st = said[i]

Unreaped(p, i) == creator[i] = pid[p] /\ reaper[i] = <<>>

\* wait returns ERR_CHILD only when the caller has no such child that it has not yet
\* waited for, wherever its children are in fork, spawn or exit.
ErrChildRight ==
  \A p \in allocated, i \in Pids :
    result[p] \in {<<ERR_CHILD, ANY_CHILD>>, <<ERR_CHILD, i>>} => ~Unreaped(p, i)

\* wait returns once a child it waits for has exited.
WaitReturns ==
  \A p \in Slots :
    (/\ pc[p] \in {"wait", "scan"}
     /\ \E i \in Pids : target[p] \in {ANY_CHILD, i} /\ Unreaped(p, i) /\ said[i] # ALIVE)
      ~> pc[p] = "user"
=============================================================================
