------------------------------ MODULE SchedInv ------------------------------
(***************************************************************************)
(* The inductive invariant of Sched: where each thread can be, and what     *)
(* each lock and each processor's interrupt state say about it.             *)
(***************************************************************************)
EXTENDS Sched

Running(t) == \E c \in Cpus : cpu[c].thread = t

\* Labels a thread passes with interrupts off: always on a processor.
Masked == SpinLk \cup HoldLk \cup {"cr_ready"}

\* A processor runs its own idle thread or a worker, no two run the same thread, and
\* its interrupt state fits what its thread is doing.
CpuInv ==
  /\ \A c \in Cpus :
       /\ cpu[c].thread \in Workers \cup {c, NULL}
       /\ cpu[c].thread = NULL <=> pc[c] = "none"
       /\ cpu[c].thread = NULL => cpu[c].num_disabled = 0
  /\ \A c, d \in Cpus : cpu[c].thread = cpu[d].thread /\ cpu[c].thread # NULL => c = d

\* Where a thread is in its own code and what called sched_sched on its behalf: the
\* timer handler, condvar_wait or thread_exit.
ContextInv ==
  \A t \in Threads :
    /\ t \in Cpus => pc[t] \in {"none", "run"} /\ (sp[t] # "out" => t \in irq)
    /\ pc[t] \in Masked \cup {"none", "fresh"} => sp[t] = "out"
    /\ pc[t] \in Masked \cup {"none", "fresh", "exited"} => t \notin irq /\ dying[t] = {}
    /\ pc[t] = "exited" => sp[t] \in {"spin", "pick", "ret"}
    /\ sp[t] # "out" => \/ t \in irq /\ arg[t] = "READY"
                        \/ t \notin irq /\ pc[t] = "sa_again" /\ arg[t] = "SLEEPING"
                        \/ t \notin irq /\ pc[t] = "exited" /\ arg[t] = "ZOMBIE"
    /\ sp[t] = "unlock" => arg[t] = "SLEEPING"

\* On and off the processors.
PlaceInv ==
  \A t \in Threads :
    /\ Running(t) => pc[t] # "none"
    /\ t \in Workers /\ Running(t) /\ sp[t] \in {"out", "spin", "ret"} => state[t] = "RUNNING"
    /\ ~Running(t) => sp[t] = "ret" \/ pc[t] \in {"none", "fresh"}
    /\ Running(t) /\ sp[t] = "ret" => pc[t] # "exited"
    /\ sp[t] \in {"unlock", "pick"} => state[t] = arg[t]

\* A thread in the ready queue: off the processors, or just being switched out.
ReadyInv ==
  \A t \in Ready :
    /\ state[t] = "READY" /\ pc[t] \notin {"none", "exited"}
    /\ Running(t) => sp[t] = "pick"

\* A thread among the waiters: inside condvar_wait, up to where it sleeps.
WaitingInv ==
  /\ \A t \in Waiting :
       /\ pc[t] = "sa_again" /\ t \notin irq /\ sp[t] # "out"
       /\ sp[t] = "ret" => ~Running(t) /\ state[t] = "SLEEPING"
  /\ \A t \in Threads :
       sp[t] \in {"spin", "unlock"} /\ arg[t] = "SLEEPING" => t \in Waiting

\* A thread in the hands of a waker: new, or asleep and past the release of lk.
HandInv ==
  \A u \in Threads :
    /\ woken[u] # NULL <=> pc[u] \in {"sr_ready", "cr_ready"}
    /\ pc[u] = "cr_ready" => pc[woken[u]] = "fresh" /\ ~Running(woken[u])
    /\ pc[u] = "sr_ready" =>
         /\ pc[woken[u]] = "sa_again" /\ woken[u] \notin irq
         /\ sp[woken[u]] \in {"pick", "ret"} /\ state[woken[u]] = "SLEEPING"
         /\ Running(woken[u]) => sp[woken[u]] = "pick"

\* sched_lock is held while, and only while, one processor switches.
SchedLockInv ==
  /\ sched_lock # NULL <=> \E c \in Cpus : Switching(c)
  /\ \A c, d \in Cpus : Switching(c) /\ Switching(d) => c = d
  /\ sched_lock # NULL => sp[sched_lock] \in {"unlock", "pick", "ret"}
  /\ \A t \in Threads : sp[t] \in {"unlock", "pick"} => sched_lock = t

\* lk is held from the test-and-set to the release, inside condvar_wait up to the
\* release under sched_lock; the sleeplock from Take to the signal.
HoldsLk(t) ==
  pc[t] \in HoldLk \/ (sp[t] \in {"spin", "unlock"} /\ arg[t] = "SLEEPING")

LkInv ==
  \A t \in Workers :
    /\ lk = t <=> HoldsLk(t)
    /\ holder = t <=> pc[t] \in Owning

\* Zombies handed over for cleanup.
DyingInv ==
  \A t \in Threads : \A z \in dying[t] :
    /\ pc[z] = "exited" /\ sp[z] = "ret" /\ state[z] = "ZOMBIE" /\ ~Running(z)
    /\ \A u \in Threads : z \in dying[u] => u = t
    /\ sched_lock = z => sp[t] = "ret"

\* The lists: OneList without the thread states, which ReadyInv and WaitingInv give.
DisjointInv ==
  /\ NoRepeat(ready_queue) /\ NoRepeat(waiters)
  /\ \A u, v \in Threads : woken[u] = woken[v] /\ woken[u] # NULL => u = v
  /\ Ready \cap Waiting = {} /\ Ready \cap InHand = {} /\ Waiting \cap InHand = {}

\* The inductive invariant behind every safety property of Sched.
IInv ==
  /\ TypeOK
  /\ CpuInv
  /\ NestingExact
  /\ ContextInv
  /\ PlaceInv
  /\ ReadyInv
  /\ WaitingInv
  /\ HandInv
  /\ SchedLockInv
  /\ LkInv
  /\ DyingInv
  /\ NoLostWakeup
  /\ DisjointInv
=============================================================================
