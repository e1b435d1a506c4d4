------------------------------- MODULE Sched -------------------------------
(***************************************************************************)
(* Threads, processors, interrupts and locks of the kernel: kernel/sched.c, *)
(* kernel/synch.c, kernel/thread.c, the timer interrupt of kernel/timer.c   *)
(* and the processor state of arch/x86_64 (intr_set_level, the switch).     *)
(*                                                                         *)
(* Every processor runs one thread.  Worker threads use one sleeplock, whose*)
(* spinlock lk protects its list of waiters; sched_lock protects the ready  *)
(* queue and the thread states.  A step is an access to shared memory or a  *)
(* change of a processor's interrupt state.  What a thread does under a     *)
(* spinlock on data only that lock protects is one step; waiting for a      *)
(* spinlock, releasing one lock while holding another, and the switch are   *)
(* steps of their own.                                                     *)
(***************************************************************************)
EXTENDS Naturals, Sequences, FiniteSets

CONSTANTS
  Cpus,     \* the processors; a processor also names its own idle thread
  Workers,  \* the thread structures the thread allocator can hand out
  CanTry,   \* the workers that also use sleeplock_try_acquire
  NULL

ASSUME ConstantsAssumption ==
  /\ Cpus \cap Workers = {}
  /\ CanTry \subseteq Workers
  /\ NULL \notin Cpus \cup Workers

Threads == Cpus \cup Workers

VARIABLES
  cpu,          \* struct x86_64_cpu and the interrupt level of each processor
  state,        \* thread->state, "UNSET" from the allocation of the structure on
  ready_queue,  \* the scheduler's list of runnable threads
  sched_lock,   \* holder of the scheduler's spinlock, or NULL
  lk,           \* holder of the sleeplock's inner spinlock, or NULL
  waiters,      \* the sleeplock's condition variable: threads in arrival order
  holder,       \* holder of the sleeplock, or NULL
  pc,           \* where each thread is in its own code
  sp,           \* where each thread is inside sched_sched ("out": not inside)
  arg,          \* the next_state argument of the thread's sched_sched call
  woken,        \* the argument of the thread's sched_ready call
  dying,        \* zombies the thread has been handed and not yet cleaned up
  irq           \* the threads inside the timer interrupt handler

vars == <<cpu, state, ready_queue, sched_lock, lk, waiters, holder,
          pc, sp, arg, woken, dying, irq>>

lockVars   == <<lk, waiters, holder>>
schedVars  == <<state, ready_queue, sched_lock>>

States == {"UNSET", "READY", "RUNNING", "SLEEPING", "ZOMBIE"}

\* The labels at which a thread spins for lk, holds it, or owns the sleeplock.
SpinLk  == {"sa_spin", "ta_spin", "sr_spin"}
HoldLk  == {"sa_test", "ta_test", "sr_signal", "sr_ready", "sr_unlock"}
Owning  == {"crit", "sr_spin", "sr_signal"}
Labels  == SpinLk \cup HoldLk \cup Owning
             \cup {"none", "fresh", "run", "sa_again", "cr_ready", "exited"}

-----------------------------------------------------------------------------
(* Processors: intr_set_level nests, counting in num_disabled.             *)

CpuOff == [thread |-> NULL, num_disabled |-> 0, intr_enabled |-> 0, level |-> "OFF"]

IntrOff(p) ==
  [thread       |-> p.thread,
   num_disabled |-> p.num_disabled + 1,
   intr_enabled |-> IF p.num_disabled # 0 THEN p.intr_enabled ELSE IF p.level = "ON" THEN 1 ELSE 0,
   level        |-> "OFF"]

IntrOn(p) ==
  IF p.num_disabled = 0
  THEN [p EXCEPT !.level = "ON"]
  ELSE [thread       |-> p.thread,
        num_disabled |-> p.num_disabled - 1,
        intr_enabled |-> p.intr_enabled,
        level        |-> IF p.num_disabled = 1 /\ p.intr_enabled = 1 THEN "ON" ELSE "OFF"]

Off(c) == cpu' = [cpu EXCEPT ![c] = IntrOff(@)]
On(c)  == cpu' = [cpu EXCEPT ![c] = IntrOn(@)]

\* Thread t runs on processor c, at label l of its own code: not in the timer
\* handler, not inside sched_sched and with no zombie left to clean up.
At(c, t, l) ==
  /\ cpu[c].thread = t
  /\ sp[t] = "out"
  /\ dying[t] = {}
  /\ t \notin irq
  /\ pc[t] = l

Goto(t, l) == pc' = [pc EXCEPT ![t] = l]

-----------------------------------------------------------------------------
(* sched_sched: the scheduler.  sched_lock is taken by the thread that goes *)
(* away and released by the thread that comes in.                          *)

\* Entering sched_sched(next, lock): spinlock_acquire(&sched_lock) first turns
\* interrupts off, from then on the thread spins.
EnterSched(c, t, next) ==
  /\ sp' = [sp EXCEPT ![t] = "spin"]
  /\ arg' = [arg EXCEPT ![t] = next]
  /\ Off(c)

\* A wrong Requeue: a preempted thread goes to the front of the ready queue.
RequeueFirst(c, t) ==
  IF arg[t] = "READY" /\ t # c THEN <<t>> \o ready_queue ELSE ready_queue

\* A preempted thread goes to the end of the ready queue, an idle thread never does.
Requeue(c, t) == IF arg[t] = "READY" /\ t # c THEN Append(ready_queue, t) ELSE ready_queue

SchedAcquire(c, t) ==
  /\ cpu[c].thread = t
  /\ sp[t] = "spin"
  /\ sched_lock = NULL
  /\ sched_lock' = t
  /\ ready_queue' = Requeue(c, t)
  /\ state' = [state EXCEPT ![t] = arg[t]]
  /\ sp' = [sp EXCEPT ![t] = IF arg[t] = "SLEEPING" THEN "unlock" ELSE "pick"]
  /\ UNCHANGED <<cpu, lockVars, pc, arg, woken, dying, irq>>

\* The lock given to condvar_wait is released only now, under sched_lock.
SchedUnlock(c, t) ==
  /\ cpu[c].thread = t
  /\ sp[t] = "unlock"
  /\ lk' = NULL
  /\ On(c)
  /\ sp' = [sp EXCEPT ![t] = "pick"]
  /\ UNCHANGED <<schedVars, waiters, holder, pc, arg, woken, dying, irq>>

\* The next thread of processor c, and the ready queue without it.
NextThread(c) == IF ready_queue # <<>> THEN Head(ready_queue) ELSE c

Popped == IF ready_queue # <<>> THEN Tail(ready_queue) ELSE ready_queue

\* A wrong Handover: every thread switched from is reclaimed.
HandoverAlways(t, next) ==
  IF next # t /\ pc[next] # "fresh" THEN [dying EXCEPT ![next] = @ \cup {t}] ELSE dying

\* The thread switched to returns from its own call of sched() and finds out there
\* whether its predecessor is a zombie; a fresh thread starts in thread_start
\* instead, which does not look.
Handover(t, next) ==
  IF next # t /\ state[t] = "ZOMBIE" /\ pc[next] # "fresh"
  THEN [dying EXCEPT ![next] = @ \cup {t}] ELSE dying

\* sched() and cpu_switch_thread.
SchedPick(c, t) ==
  LET next == NextThread(c) IN
  /\ cpu[c].thread = t
  /\ sp[t] = "pick"
  /\ ready_queue' = Popped
  /\ state' = [state EXCEPT ![next] = "RUNNING"]
  /\ sp' = [sp EXCEPT ![t] = "ret"]
  /\ cpu' = IF next = t THEN cpu
            ELSE [cpu EXCEPT ![c] = [@ EXCEPT !.thread = next, !.intr_enabled = 1]]
  /\ dying' = Handover(t, next)
  /\ UNCHANGED <<sched_lock, lockVars, pc, arg, woken, irq>>

SchedRelease(c, t) ==
  /\ cpu[c].thread = t
  /\ sp[t] = "ret"
  /\ sched_lock' = NULL
  /\ On(c)
  /\ sp' = [sp EXCEPT ![t] = "out"]
  /\ UNCHANGED <<state, ready_queue, lockVars, pc, arg, woken, dying, irq>>

thread_start(c, t) ==
  /\ cpu[c].thread = t
  /\ pc[t] = "fresh"
  /\ sched_lock' = NULL
  /\ On(c)
  /\ Goto(t, "run")
  /\ UNCHANGED <<state, ready_queue, lockVars, sp, arg, woken, dying, irq>>

\* A wrong thread_cleanup: the zombie stays with the thread, to be freed again.
CleanupTwice(c, t, z) ==
  /\ cpu[c].thread = t
  /\ sp[t] = "out"
  /\ z \in dying[t]
  /\ state' = [state EXCEPT ![z] = "UNSET"]
  /\ Goto(z, "none")
  /\ sp' = [sp EXCEPT ![z] = "out"]
  /\ UNCHANGED <<cpu, ready_queue, sched_lock, lockVars, arg, woken, dying, irq>>

\* The tail of sched_sched: the zombie's stack and structure are freed.
thread_cleanup(c, t, z) ==
  /\ cpu[c].thread = t
  /\ sp[t] = "out"
  /\ z \in dying[t]
  /\ dying' = [dying EXCEPT ![t] = @ \ {z}]
  /\ state' = [state EXCEPT ![z] = "UNSET"]
  /\ Goto(z, "none")
  /\ sp' = [sp EXCEPT ![z] = "out"]
  /\ UNCHANGED <<cpu, ready_queue, sched_lock, lockVars, arg, woken, irq>>

-----------------------------------------------------------------------------
(* The timer interrupt.  The gate clears the interrupt flag; the handler    *)
(* then calls sched_sched(READY, NULL) on the stack of the thread it hit.   *)

timer_trap_handler(c, t) ==
  /\ cpu[c].thread = t
  /\ cpu[c].level = "ON"
  /\ irq' = irq \cup {t}
  /\ sp' = [sp EXCEPT ![t] = "spin"]
  /\ arg' = [arg EXCEPT ![t] = "READY"]
  /\ cpu' = [cpu EXCEPT ![c] = IntrOff([@ EXCEPT !.level = "OFF"])]
  /\ UNCHANGED <<schedVars, lockVars, pc, woken, dying>>

\* The handler has returned: iret restores the interrupt flag.
trapret(c, t) ==
  /\ cpu[c].thread = t
  /\ t \in irq
  /\ sp[t] = "out"
  /\ dying[t] = {}
  /\ irq' = irq \ {t}
  /\ cpu' = [cpu EXCEPT ![c].level = "ON"]
  /\ UNCHANGED <<schedVars, lockVars, pc, sp, arg, woken, dying>>

-----------------------------------------------------------------------------
(* The sleeplock and its condition variable.                               *)

\* The calls, up to spinlock_acquire(&lock->lk) turning interrupts off.
CallLk(c, t, from, to) ==
  /\ At(c, t, from)
  /\ Off(c)
  /\ Goto(t, to)
  /\ UNCHANGED <<schedVars, lockVars, sp, arg, woken, dying, irq>>

sleeplock_acquire(c, t) == t \in Workers /\ CallLk(c, t, "run", "sa_spin")

sleeplock_try_acquire(c, t) == t \in CanTry /\ CallLk(c, t, "run", "ta_spin")

sleeplock_release(c, t) == CallLk(c, t, "crit", "sr_spin")

\* condvar_wait after the switch back: lock_acquire(lock).
Reacquire(c, t) == CallLk(c, t, "sa_again", "sa_spin")

spinlock_acquire(c, t) ==
  /\ \E l \in SpinLk :
       /\ At(c, t, l)
       /\ Goto(t, CASE l = "sa_spin" -> "sa_test"
                    [] l = "ta_spin" -> "ta_test"
                    [] l = "sr_spin" -> "sr_signal")
  /\ lk = NULL
  /\ lk' = t
  /\ UNCHANGED <<cpu, schedVars, waiters, holder, sp, arg, woken, dying, irq>>

\* A wrong Take: the holder is not tested (after a wait, as if signal handed over).
TakeUntested(c, t) ==
  /\ At(c, t, "sa_test") \/ At(c, t, "ta_test")
  /\ holder' = t
  /\ lk' = NULL
  /\ On(c)
  /\ Goto(t, "crit")
  /\ UNCHANGED <<schedVars, waiters, sp, arg, woken, dying, irq>>

\* sleeplock_acquire and sleeplock_try_acquire when the lock is free.
Take(c, t) ==
  /\ At(c, t, "sa_test") \/ At(c, t, "ta_test")
  /\ holder = NULL
  /\ holder' = t
  /\ lk' = NULL
  /\ On(c)
  /\ Goto(t, "crit")
  /\ UNCHANGED <<schedVars, waiters, sp, arg, woken, dying, irq>>

\* sleeplock_try_acquire when it is not: ERR_LOCK_BUSY.
Busy(c, t) ==
  /\ At(c, t, "ta_test")
  /\ holder # NULL
  /\ lk' = NULL
  /\ On(c)
  /\ Goto(t, "run")
  /\ UNCHANGED <<schedVars, waiters, holder, sp, arg, woken, dying, irq>>

\* A wrong condvar_wait: lk is released before sched_sched is called.
CondvarWaitEarlyRelease(c, t) ==
  /\ At(c, t, "sa_test")
  /\ holder # NULL
  /\ waiters' = Append(waiters, t)
  /\ EnterSched(c, t, "SLEEPING")
  /\ lk' = NULL
  /\ Goto(t, "sa_again")
  /\ UNCHANGED <<schedVars, holder, woken, dying, irq>>

condvar_wait(c, t) ==
  /\ At(c, t, "sa_test")
  /\ holder # NULL
  /\ waiters' = Append(waiters, t)
  /\ EnterSched(c, t, "SLEEPING")
  /\ Goto(t, "sa_again")
  /\ UNCHANGED <<schedVars, lk, holder, woken, dying, irq>>

\* A wrong condvar_signal: the last waiter is woken.
CondvarSignalLast(c, t) ==
  /\ At(c, t, "sr_signal")
  /\ holder' = NULL
  /\ \/ /\ waiters = <<>>
        /\ Goto(t, "sr_unlock")
        /\ UNCHANGED <<waiters, woken, cpu>>
     \/ /\ waiters # <<>>
        /\ waiters' = SubSeq(waiters, 1, Len(waiters) - 1)
        /\ woken' = [woken EXCEPT ![t] = waiters[Len(waiters)]]
        /\ Off(c)
        /\ Goto(t, "sr_ready")
  /\ UNCHANGED <<schedVars, lk, sp, arg, dying, irq>>

\* sleeplock_release under lk: the holder is cleared and condvar_signal takes
\* the first waiter, if any, on its way to sched_ready.
condvar_signal(c, t) ==
  /\ At(c, t, "sr_signal")
  /\ holder' = NULL
  /\ \/ /\ waiters = <<>>
        /\ Goto(t, "sr_unlock")
        /\ UNCHANGED <<waiters, woken, cpu>>
     \/ /\ waiters # <<>>
        /\ waiters' = Tail(waiters)
        /\ woken' = [woken EXCEPT ![t] = Head(waiters)]
        /\ Off(c)
        /\ Goto(t, "sr_ready")
  /\ UNCHANGED <<schedVars, lk, sp, arg, dying, irq>>

\* A wrong sched_ready: the thread is linked but its state is not set.
SchedReadyNoState(c, t) ==
  /\ \/ At(c, t, "sr_ready") /\ Goto(t, "sr_unlock")
     \/ At(c, t, "cr_ready") /\ Goto(t, "run")
  /\ sched_lock = NULL
  /\ ready_queue' = Append(ready_queue, woken[t])
  /\ On(c)
  /\ woken' = [woken EXCEPT ![t] = NULL]
  /\ UNCHANGED <<state, sched_lock, lockVars, sp, arg, dying, irq>>

\* sched_ready: from condvar_signal, and from thread_start_context.
sched_ready(c, t) ==
  /\ \/ At(c, t, "sr_ready") /\ Goto(t, "sr_unlock")
     \/ At(c, t, "cr_ready") /\ Goto(t, "run")
  /\ sched_lock = NULL
  /\ state' = [state EXCEPT ![woken[t]] = "READY"]
  /\ ready_queue' = Append(ready_queue, woken[t])
  /\ On(c)
  /\ woken' = [woken EXCEPT ![t] = NULL]
  /\ UNCHANGED <<sched_lock, lockVars, sp, arg, dying, irq>>

spinlock_release(c, t) ==
  /\ At(c, t, "sr_unlock")
  /\ lk' = NULL
  /\ On(c)
  /\ Goto(t, "run")
  /\ UNCHANGED <<schedVars, waiters, holder, sp, arg, woken, dying, irq>>

-----------------------------------------------------------------------------
(* Thread creation and exit, and the start of the other processors.        *)

thread_create(c, t, n) ==
  /\ t \in Workers
  /\ At(c, t, "run")
  /\ pc[n] = "none"
  /\ pc' = [pc EXCEPT ![t] = "cr_ready", ![n] = "fresh"]
  /\ woken' = [woken EXCEPT ![t] = n]
  /\ Off(c)
  /\ UNCHANGED <<schedVars, lockVars, sp, arg, dying, irq>>

thread_exit(c, t) ==
  /\ t \in Workers
  /\ At(c, t, "run")
  /\ EnterSched(c, t, "ZOMBIE")
  /\ Goto(t, "exited")
  /\ UNCHANGED <<schedVars, lockVars, woken, dying, irq>>

\* main_ap: processor c comes up running its idle thread, whose state stays unset.
sched_start_ap(c) ==
  /\ cpu[c].thread = NULL
  /\ cpu' = [cpu EXCEPT ![c] = IntrOn([@ EXCEPT !.thread = c])]
  /\ Goto(c, "run")
  /\ UNCHANGED <<schedVars, lockVars, sp, arg, woken, dying, irq>>

-----------------------------------------------------------------------------
\* main after sched_start and thread_start_context: the boot processor runs its
\* idle thread, the first worker waits in the ready queue.
Init ==
  \E boot \in Cpus, first \in Workers :
    /\ cpu = [c \in Cpus |-> IF c = boot THEN IntrOn([CpuOff EXCEPT !.thread = boot]) ELSE CpuOff]
    /\ state = [t \in Threads |-> IF t = first THEN "READY" ELSE "UNSET"]
    /\ pc = [t \in Threads |-> CASE t = boot -> "run" [] t = first -> "fresh"
                                 [] OTHER -> "none"]
    /\ ready_queue = <<first>>
    /\ sched_lock = NULL
    /\ lk = NULL
    /\ waiters = <<>>
    /\ holder = NULL
    /\ sp = [t \in Threads |-> "out"]
    /\ arg = [t \in Threads |-> "READY"]
    /\ woken = [t \in Threads |-> NULL]
    /\ dying = [t \in Threads |-> {}]
    /\ irq = {}

\* The scheduler's own steps, on behalf of the thread of processor c.
SchedStep(c, t) ==
  \/ SchedAcquire(c, t)
  \/ SchedUnlock(c, t)
  \/ SchedPick(c, t)
  \/ SchedRelease(c, t)
  \/ thread_start(c, t)
  \/ \E z \in Workers : thread_cleanup(c, t, z)
  \/ trapret(c, t)

\* The steps of a lock operation once it is called, but for spinning on lk.
LockStep(c, t) ==
  \/ Reacquire(c, t)
  \/ Take(c, t)
  \/ Busy(c, t)
  \/ condvar_wait(c, t)
  \/ sleeplock_release(c, t)
  \/ condvar_signal(c, t)
  \/ sched_ready(c, t)
  \/ spinlock_release(c, t)

\* What a worker chooses to call next.
Choice(c, t) ==
  \/ sleeplock_acquire(c, t)
  \/ sleeplock_try_acquire(c, t)
  \/ thread_exit(c, t)
  \/ \E n \in Workers : thread_create(c, t, n)

Next ==
  \/ \E c \in Cpus : sched_start_ap(c)
  \/ \E c \in Cpus, t \in Threads :
       \/ SchedStep(c, t)
       \/ LockStep(c, t)
       \/ spinlock_acquire(c, t)
       \/ Choice(c, t)
       \/ timer_trap_handler(c, t)

Spec == Init /\ [][Next]_vars

(* Fairness.  A processor whose interrupts are off goes on, and spinning on *)
(* sched_lock, held for a few instructions per tick, comes to an end;        *)
(* spinning on lk is only weakly fair: the test-and-set favours nobody.  A   *)
(* tick that comes while interrupts are off stays pending until they are on. *)
(* The timer's period is long against one step, so a thread that is run      *)
(* again and again also gets to execute the steps at which a tick may come   *)
(* first.  Nobody has to call anything, but a critical section ends.  No     *)
(* other processor has to come up.                                          *)
Fairness ==
  /\ \A c \in Cpus :
       /\ SF_vars(\E t \in Threads : timer_trap_handler(c, t))
       /\ SF_vars(\E t \in Threads : SchedAcquire(c, t) \/ sched_ready(c, t))
       /\ WF_vars(\E t \in Threads :
                    \/ SchedUnlock(c, t) \/ SchedPick(c, t) \/ SchedRelease(c, t) \/ thread_start(c, t)
                    \/ Take(c, t) \/ Busy(c, t) \/ condvar_wait(c, t) \/ condvar_signal(c, t)
                    \/ spinlock_release(c, t))
  /\ \A t \in Workers :
       /\ SF_vars(\E c \in Cpus : trapret(c, t) \/ \E z \in Workers : thread_cleanup(c, t, z))
       /\ SF_vars(\E c \in Cpus : sleeplock_release(c, t) \/ Reacquire(c, t))
       /\ WF_vars(\E c \in Cpus : spinlock_acquire(c, t))

FairSpec == Spec /\ Fairness

-----------------------------------------------------------------------------
(* Properties.                                                             *)

TypeOK ==
  /\ cpu \in [Cpus -> [thread : Threads \cup {NULL}, num_disabled : Nat,
                       intr_enabled : {0, 1}, level : {"ON", "OFF"}]]
  /\ state \in [Threads -> States]
  /\ ready_queue \in Seq(Workers)
  /\ sched_lock \in Threads \cup {NULL}
  /\ lk \in Workers \cup {NULL}
  /\ waiters \in Seq(Workers)
  /\ holder \in Workers \cup {NULL}
  /\ pc \in [Threads -> Labels]
  /\ sp \in [Threads -> {"out", "spin", "unlock", "pick", "ret"}]
  /\ arg \in [Threads -> {"READY", "SLEEPING", "ZOMBIE"}]
  /\ woken \in [Threads -> Workers \cup {NULL}]
  /\ dying \in [Threads -> SUBSET Workers]
  /\ irq \in SUBSET Threads

\* Threads t and u never both own the sleeplock (synch.c, sleeplock_acquire and
\* sleeplock_release): whoever is past the acquire and has not yet cleared the
\* holder is the holder, which is what sleeplock_release's kassert relies on.
MutualExclusion == \A t \in Workers : pc[t] \in Owning => holder = t

\* Processor c is inside the scheduler with sched_lock: its thread is on the way
\* out, or has just come in.
Switching(c) ==
  LET t == cpu[c].thread IN
  t # NULL /\ (sp[t] \in {"unlock", "pick", "ret"} \/ pc[t] = "fresh")

\* A thread that holds a spinlock is on a processor whose interrupts are off, so
\* it cannot be preempted while others spin for that lock (spinlock_acquire calls
\* intr_set_level before it takes the lock).  sched_lock is held by exactly the
\* processor that is switching, across the change of thread.
HolderRuns ==
  /\ lk # NULL => \E c \in Cpus : cpu[c].thread = lk /\ cpu[c].level = "OFF"
  /\ sched_lock # NULL => \E c \in Cpus : Switching(c)
  /\ \A c \in Cpus : Switching(c) => sched_lock # NULL /\ cpu[c].level = "OFF"
  /\ \A c, d \in Cpus : Switching(c) /\ Switching(d) => c = d

\* The number of spinlocks that a running thread holds or spins for, from its label,
\* its place in sched_sched and the argument of that call: lk from its own code, lk
\* inside condvar_wait, and sched_lock.
SpinDepth(l, s, a) ==
  (IF l \in SpinLk \cup HoldLk THEN 1 ELSE 0)
  + (IF s \in {"spin", "unlock"} /\ a = "SLEEPING" THEN 1 ELSE 0)
  + (IF s # "out" \/ l \in {"fresh", "sr_ready", "cr_ready"} THEN 1 ELSE 0)

\* num_disabled counts exactly the spinlocks that the thread now on the processor
\* holds or spins for, also after a switch to a thread that last ran elsewhere
\* (intr_set_level nests per processor, locks belong to threads).
NestingExact ==
  \A c \in Cpus : LET t == cpu[c].thread IN t # NULL =>
    /\ cpu[c].num_disabled = SpinDepth(pc[t], sp[t], arg[t])
    /\ cpu[c].num_disabled > 0 => cpu[c].level = "OFF"

\* The threads linked, through thread->node, in the ready queue, among the waiters,
\* and those unlinked by a waker that has not yet put them into the ready queue.
Elems(s)   == {s[i] : i \in 1..Len(s)}
NoRepeat(s) == \A i, j \in 1..Len(s) : s[i] = s[j] => i = j
Ready      == Elems(ready_queue)
Waiting    == Elems(waiters)
InHand     == {woken[u] : u \in Threads} \ {NULL}

\* thread->node is in one list at a time: a thread is linked once in the ready
\* queue, or once among the waiters, or is in the hands of one waker; a zombie and
\* a free structure are in no list (condvar_wait, condvar_signal, sched_ready).
OneList ==
  /\ NoRepeat(ready_queue)
  /\ NoRepeat(waiters)
  /\ \A u, v \in Threads : woken[u] = woken[v] /\ woken[u] # NULL => u = v
  /\ Ready \cap Waiting = {} /\ Ready \cap InHand = {} /\ Waiting \cap InHand = {}
  /\ \A t \in Ready \cup Waiting : state[t] \notin {"ZOMBIE", "UNSET"}

\* A thread is on one processor at a time; one that is linked in the ready queue is
\* still on a processor only while that processor, holding sched_lock, switches
\* away from it: no other processor can pick it up meanwhile.
OneProcessor ==
  \A c, d \in Cpus :
    LET t == cpu[c].thread IN
    /\ (t # NULL /\ t = cpu[d].thread) => c = d
    /\ t \in Ready => sp[t] = "pick"

\* No lost wakeup (condvar_wait hands its lock to sched_sched, which releases it
\* under sched_lock): a sleeping thread is among the waiters or in the hands of its
\* waker, and threads left waiting for a free lock have somebody awake ahead of
\* them who will take the lock or has not finished signalling.
NoLostWakeup ==
  /\ \A t \in Workers : state[t] = "SLEEPING" => t \in Waiting \cup InHand
  /\ (holder = NULL /\ waiters # <<>>) =>
       \E t \in Workers :
         /\ t \notin Waiting
         /\ pc[t] \in {"sa_again", "sa_spin", "sa_test", "ta_spin", "ta_test", "sr_ready"}

\* A zombie handed over for cleanup is off every processor, in no list, and handed
\* to one thread only, so thread_cleanup frees a stack nobody uses, once
\* (thread_cleanup's kassert and its comment on why freeing is safe).
CleanupSafe ==
  \A t \in Threads : \A z \in dying[t] :
    /\ state[z] = "ZOMBIE" /\ z \notin Ready \cup Waiting \cup InHand
    /\ \A c \in Cpus : cpu[c].thread # z
    /\ \A u \in Threads \ {t} : z \notin dying[u]

\* The remaining kernel assertions on these paths hold: a spinner does not already
\* hold the lock (synch.c:36), the head of the ready queue is READY (sched.c:98),
\* interrupts are off in the switch (cpu.c:41) and in thread_start (thread.c:98).
KassertsHold ==
  \A c \in Cpus : LET t == cpu[c].thread IN t # NULL =>
    /\ pc[t] \in SpinLk /\ sp[t] = "out" => lk # t
    /\ sp[t] = "spin" => sched_lock # t
    /\ pc[t] \in HoldLk /\ sp[t] = "out" /\ t \notin irq => lk = t
    /\ sp[t] = "pick" => /\ cpu[c].level = "OFF"
                         /\ ready_queue # <<>> => state[Head(ready_queue)] = "READY"
    /\ pc[t] = "fresh" => cpu[c].level = "OFF"

\* A thread that waits for the sleeplock is eventually woken, however many others come
\* to wait after it and wait again (sleeplock_release signals the first waiter each time).
WaiterWoken ==
  \A t \in Workers : t \in Waiting ~> t \notin Waiting

\* A thread in the ready queue eventually runs although the others are preempted and
\* queued again: the timer preempts whoever runs, also a thread that takes and releases
\* locks all the time, and the queue is first in, first out (sched_sched, sched).
ReadyRuns ==
  \A t \in Workers : t \in Ready ~> \E c \in Cpus : cpu[c].thread = t
=============================================================================
