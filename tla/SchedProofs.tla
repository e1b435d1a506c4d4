---------------------------- MODULE SchedProofs -----------------------------
(***************************************************************************)
(* The creation and the exit of a thread, the timer interrupt, the start of *)
(* a processor, the steps of sched_sched, the start of a thread and the     *)
(* cleanup of zombies keep IInv, and with SchedLockProofs every step of     *)
(* Sched does.  The safety properties of Sched, for any sets of processors  *)
(* and worker threads.                                                      *)
(***************************************************************************)
EXTENDS SchedLockProofs

\* thread_exit enters the scheduler for the last time.
LEMMA ExitStep ==
  ASSUME IInv, NEW c \in Cpus, NEW t \in Workers, thread_exit(c, t)
  PROVE  IInv'
<1> USE ConstantsAssumption DEF IInv, Threads
<1>1. /\ cpu[c].thread = t /\ sp[t] = "out" /\ dying[t] = {} /\ t \notin irq /\ pc[t] = "run" /\ sp' = [sp EXCEPT ![t] = "spin"]
      /\ arg' = [arg EXCEPT ![t] = "ZOMBIE"] /\ Off(c) /\ pc' = [pc EXCEPT ![t] = "exited"]
      /\ UNCHANGED <<state, ready_queue, sched_lock, lk, waiters, holder, woken, dying, irq>>
  BY Zenon DEF thread_exit, At, Goto, EnterSched, schedVars, lockVars
<1>2. /\ cpu' \in [Cpus -> CpuRecord]
      /\ \A d \in Cpus : cpu'[d].thread = cpu[d].thread
      /\ \A d \in Cpus : d # c => cpu'[d] = cpu[d]
      /\ cpu'[c].num_disabled = cpu[c].num_disabled + 1
      /\ cpu'[c].level = "OFF"
  BY <1>1, OffFacts, Zenon
<1>3. \A u \in Threads : Running(u)' <=> Running(u)
  BY <1>2, RunningFrame, Zenon
<1>8. t \notin Ready /\ t \notin Waiting /\ t \notin InHand
  BY <1>1, InHandFacts, Zenon DEF ReadyInv, WaitingInv, Running
<1>4. /\ Ready' = Ready /\ Waiting' = Waiting /\ InHand' = InHand
      /\ Ready \subseteq Workers /\ Waiting \subseteq Workers /\ InHand \subseteq Workers
  <2>1. Ready' = Ready /\ Waiting' = Waiting
    BY <1>1, Zenon DEF Ready, Waiting
  <2>2. InHand' = InHand
    BY <1>1, Zenon DEF InHand
  <2> QED
    BY <2>1, <2>2, ListTypes, Zenon
<1>5. /\ cpu[c].thread = t /\ t \in Threads
      /\ cpu[c].num_disabled = SpinDepth(pc[t], sp[t], arg[t])
      /\ cpu[c].num_disabled > 0 => cpu[c].level = "OFF"
      /\ cpu[c].num_disabled \in Nat
  BY <1>1, Zenon DEF NestingExact, TypeOK
<1>6. /\ cpu'[c].num_disabled = SpinDepth(pc'[t], sp'[t], arg'[t])
      /\ cpu'[c].num_disabled > 0 => cpu'[c].level = "OFF"
  BY <1>1, <1>2, <1>5 DEF SpinDepth, TypeOK, CpuRecord, SpinLk, HoldLk
<1>7. \A u \in Threads : u # t => pc'[u] = pc[u] /\ sp'[u] = sp[u] /\ arg'[u] = arg[u]
  BY <1>1, Zenon DEF TypeOK
<1>20. TypeOK'
  BY <1>1, <1>2, Zenon DEF TypeOK, CpuRecord, Labels, SpinLk, HoldLk, Owning
<1>21. CpuInv'
  BY <1>1, <1>2, CpuFrame DEF TypeOK
<1>22. NestingExact'
  BY <1>2, <1>5, <1>6, <1>7, NestingFrame
<1>23. ContextInv'
  BY <1>1 DEF ContextInv, TypeOK, Masked, SpinLk, HoldLk, Owning
<1>24. PlaceInv'
  BY <1>1, <1>3, Zenon DEF PlaceInv, TypeOK
<1>25. ReadyInv'
  BY <1>1, <1>3, <1>4, <1>8 DEF ReadyInv, TypeOK
<1>26. WaitingInv'
  BY <1>1, <1>3, <1>4, <1>8 DEF WaitingInv, TypeOK
<1>27. HandInv'
  BY <1>1, <1>3, <1>4 DEF HandInv, TypeOK
<1>28. SchedLockInv'
  BY <1>1, <1>2, SchedLockFrame, Zenon DEF TypeOK
<1>29. LkInv'
  BY <1>1, Zenon DEF LkInv, HoldsLk, TypeOK, HoldLk, Owning
<1>30. DyingInv'
  BY <1>1, <1>3 DEF DyingInv, TypeOK
<1>31. NoLostWakeup'
  BY <1>1, <1>4, Zenon DEF NoLostWakeup, TypeOK
<1>32. DisjointInv'
  <2>1. ready_queue' = ready_queue /\ waiters' = waiters /\ woken' = woken
    BY <1>1, Zenon
  <2> QED
    BY <1>4, <2>1, Zenon DEF DisjointInv
<1> QED
  BY <1>20, <1>21, <1>22, <1>23, <1>24, <1>25, <1>26, <1>27, <1>28, <1>29, <1>30, <1>31, <1>32, Zenon

\* thread_create: a free structure becomes a new thread, in the hands of its creator.
LEMMA CreateStep ==
  ASSUME IInv, NEW c \in Cpus, NEW t \in Workers, NEW n \in Workers, thread_create(c, t, n)
  PROVE  IInv'
<1> USE ConstantsAssumption DEF IInv, Threads
<1>1. /\ cpu[c].thread = t /\ sp[t] = "out" /\ dying[t] = {} /\ t \notin irq /\ pc[t] = "run" /\ pc[n] = "none"
      /\ pc' = [pc EXCEPT ![t] = "cr_ready", ![n] = "fresh"] /\ Off(c)
      /\ woken' = [woken EXCEPT ![t] = n]
      /\ UNCHANGED <<state, ready_queue, sched_lock, lk, waiters, holder, sp, arg, dying, irq>>
  BY Zenon DEF thread_create, At, schedVars, lockVars
<1>2. /\ cpu' \in [Cpus -> CpuRecord]
      /\ \A d \in Cpus : cpu'[d].thread = cpu[d].thread
      /\ \A d \in Cpus : d # c => cpu'[d] = cpu[d]
      /\ cpu'[c].num_disabled = cpu[c].num_disabled + 1
      /\ cpu'[c].level = "OFF"
  BY <1>1, OffFacts, Zenon
<1>3. \A u \in Threads : Running(u)' <=> Running(u)
  BY <1>2, RunningFrame, Zenon
<1>8. /\ n # t /\ ~Running(n) /\ n \notin Ready /\ n \notin Waiting /\ n \notin InHand
      /\ sp[n] = "out" /\ n \notin irq /\ dying[n] = {} /\ woken[n] = NULL
  BY <1>1, InHandFacts DEF PlaceInv, ReadyInv, WaitingInv, ContextInv, HandInv
<1>14. woken[t] = NULL /\ woken' = [woken EXCEPT ![t] = n]
  BY <1>1, Zenon DEF HandInv
<1>9. InHand' = InHand \cup {n}
  BY <1>14, InHandSet, Zenon
<1>15. /\ sp' = sp /\ arg' = arg /\ dying' = dying /\ irq' = irq /\ state' = state
       /\ sched_lock' = sched_lock /\ pc[t] = "run" /\ sp[t] = "out" /\ dying[t] = {} /\ t \notin irq
       /\ lk' = lk /\ waiters' = waiters /\ holder' = holder /\ ready_queue' = ready_queue
  BY <1>1, Zenon
<1>10. pc'[t] = "cr_ready" /\ pc'[n] = "fresh" /\ \A u \in Threads : u # t /\ u # n => pc'[u] = pc[u]
  BY <1>1, <1>8, Zenon DEF TypeOK
<1>4. /\ Ready' = Ready /\ Waiting' = Waiting
      /\ Ready \subseteq Workers /\ Waiting \subseteq Workers /\ InHand \subseteq Workers
  BY <1>1, ListTypes, Zenon DEF Ready, Waiting
<1>11. \A u \in Threads : u # t => woken'[u] = woken[u]
  BY <1>1, Zenon DEF TypeOK
<1>12. woken'[t] = n
  BY <1>1, Zenon DEF TypeOK
<1>13. \A u \in Threads : woken[u] # n
  BY <1>8, Zenon DEF InHand
<1>5. /\ cpu[c].thread = t /\ t \in Threads
      /\ cpu[c].num_disabled = SpinDepth(pc[t], sp[t], arg[t])
      /\ cpu[c].num_disabled > 0 => cpu[c].level = "OFF"
      /\ cpu[c].num_disabled \in Nat
  BY <1>1, Zenon DEF NestingExact, TypeOK
<1>6. /\ cpu'[c].num_disabled = SpinDepth(pc'[t], sp'[t], arg'[t])
      /\ cpu'[c].num_disabled > 0 => cpu'[c].level = "OFF"
  BY <1>2, <1>5, <1>10, <1>15 DEF SpinDepth, TypeOK, CpuRecord, SpinLk, HoldLk
<1>7. \A u \in Threads : u # t /\ Running(u) => pc'[u] = pc[u] /\ sp'[u] = sp[u] /\ arg'[u] = arg[u]
  BY <1>8, <1>10, <1>15, Zenon
<1>20. TypeOK'
  BY <1>1, <1>2, Zenon DEF TypeOK, CpuRecord, Labels, SpinLk, HoldLk, Owning
<1>21. CpuInv'
  BY <1>1, <1>2, <1>10, CpuFrame DEF TypeOK
<1>22. NestingExact'
  BY <1>2, <1>5, <1>6, <1>7, NestingFrame
<1>23. ContextInv'
  <2>1. \A u \in Threads : u # t /\ u # n => pc'[u] = pc[u]
    BY <1>10, Zenon
  <2>2. t \notin Cpus /\ n \notin Cpus
    BY Zenon
  <2> QED
    BY <1>8, <1>10, <1>15, <2>1, <2>2 DEF ContextInv, Masked, SpinLk, HoldLk, Owning
<1>24. PlaceInv'
  BY <1>3, <1>8, <1>10, <1>15, Zenon DEF PlaceInv
<1>25. ReadyInv'
  BY <1>3, <1>4, <1>8, <1>10, <1>15, Zenon DEF ReadyInv
<1>26. WaitingInv'
  BY <1>3, <1>4, <1>8, <1>10, <1>15, Zenon DEF WaitingInv
<1>27. HandInv'
  <2> SUFFICES ASSUME NEW u \in Threads, NEW v, v = woken'[u]
               PROVE  /\ v # NULL <=> pc'[u] \in {"sr_ready", "cr_ready"}
                      /\ pc'[u] = "cr_ready" => pc'[v] = "fresh" /\ ~Running(v)'
                      /\ pc'[u] = "sr_ready" =>
                           /\ pc'[v] = "sa_again" /\ v \notin irq'
                           /\ sp'[v] \in {"pick", "ret"} /\ state'[v] = "SLEEPING"
                           /\ Running(v)' => sp'[v] = "pick"
    BY Zenon DEF HandInv
  <2>1. CASE u = t
    BY <1>3, <1>8, <1>10, <1>12, <2>1, Zenon
  <2>2. CASE u = n
    BY <1>8, <1>10, <1>11, <2>2, Zenon
  <2>3. CASE u # t /\ u # n
    <3>1. v = woken[u] /\ pc'[u] = pc[u]
      BY <1>10, <1>11, <2>3, Zenon
    <3>2. v # NULL => v \in Threads /\ v \in InHand /\ v # n
      BY <3>1, <1>8 DEF InHand, TypeOK
    <3>3. v # NULL => pc'[v] = pc[v]
      BY <1>10, <1>15, <3>2, InHandFacts, Zenon
    <3> QED
      BY <1>3, <1>15, <3>1, <3>2, <3>3 DEF HandInv
  <2> QED
    BY <2>1, <2>2, <2>3, Zenon
<1>28. SchedLockInv'
  BY <1>2, <1>8, <1>10, <1>15, SchedLockFrame, Zenon
<1>29. LkInv'
  <2>1. \A u \in Workers : (pc'[u] \in HoldLk <=> pc[u] \in HoldLk) /\ (pc'[u] \in Owning <=> pc[u] \in Owning)
    <3> SUFFICES ASSUME NEW u \in Workers
                 PROVE  (pc'[u] \in HoldLk <=> pc[u] \in HoldLk) /\ (pc'[u] \in Owning <=> pc[u] \in Owning)
      BY Zenon
    <3>1. pc'[u] = pc[u] \/ (pc[u] = "run" /\ pc'[u] = "cr_ready") \/ (pc[u] = "none" /\ pc'[u] = "fresh")
      BY <1>1, <1>10, Zenon
    <3> QED
      BY <3>1, Zenon DEF HoldLk, Owning
  <2> QED
    BY <1>15, <2>1, Zenon DEF LkInv, HoldsLk
<1>30. DyingInv'
  <2>1. \A u \in Threads : \A z \in dying[u] : z \in Threads /\ z # t /\ z # n
    BY <1>1 DEF DyingInv, TypeOK
  <2> QED
    BY <1>3, <1>10, <1>15, <2>1 DEF DyingInv
<1>31. NoLostWakeup'
  <2>1. \A u \in Workers : state'[u] = "SLEEPING" => u \in Waiting' \cup InHand'
    BY <1>4, <1>9, <1>15, Zenon DEF NoLostWakeup
  <2>2. ASSUME holder' = NULL, waiters' # <<>>
        PROVE  \E u \in Workers :
                 /\ u \notin Waiting'
                 /\ pc'[u] \in {"sa_again", "sa_spin", "sa_test", "ta_spin", "ta_test", "sr_ready"}
    <3>1. PICK u \in Workers :
            /\ u \notin Waiting
            /\ pc[u] \in {"sa_again", "sa_spin", "sa_test", "ta_spin", "ta_test", "sr_ready"}
      BY <1>15, <2>2, Zenon DEF NoLostWakeup
    <3>2. u # t /\ u # n
      BY <1>1, <3>1, Zenon
    <3> QED
      BY <1>4, <1>10, <3>1, <3>2, Zenon
  <2> QED
    BY <2>1, <2>2, Zenon DEF NoLostWakeup
<1>32. DisjointInv'
  BY <1>4, <1>8, <1>9, <1>11, <1>12, <1>13, <1>15 DEF DisjointInv
<1> QED
  BY <1>20, <1>21, <1>22, <1>23, <1>24, <1>25, <1>26, <1>27, <1>28, <1>29, <1>30, <1>31, <1>32, Zenon

\* The timer interrupt hits a thread, which holds no spinlock since interrupts were on.
LEMMA TimerStep ==
  ASSUME IInv, NEW c \in Cpus, NEW t \in Threads, timer_trap_handler(c, t)
  PROVE  IInv'
<1> USE ConstantsAssumption DEF IInv, Threads
<1>1. /\ cpu[c].thread = t /\ cpu[c].level = "ON"
      /\ irq' = irq \cup {t} /\ sp' = [sp EXCEPT ![t] = "spin"] /\ arg' = [arg EXCEPT ![t] = "READY"]
      /\ cpu' = [cpu EXCEPT ![c] = IntrOff([cpu[c] EXCEPT !.level = "OFF"])]
      /\ UNCHANGED <<state, ready_queue, sched_lock, lk, waiters, holder, pc, woken, dying>>
  BY Zenon DEF timer_trap_handler, schedVars, lockVars
<1>2. /\ cpu' \in [Cpus -> CpuRecord]
      /\ \A d \in Cpus : cpu'[d].thread = cpu[d].thread
      /\ \A d \in Cpus : d # c => cpu'[d] = cpu[d]
      /\ cpu'[c].num_disabled = cpu[c].num_disabled + 1
      /\ cpu'[c].level = "OFF"
  <2> DEFINE p == [cpu[c] EXCEPT !.level = "OFF"]
  <2>1. cpu \in [Cpus -> CpuRecord] /\ cpu[c] \in CpuRecord
    BY Zenon DEF TypeOK, CpuRecord
  <2>2. p \in CpuRecord /\ p.thread = cpu[c].thread /\ p.num_disabled = cpu[c].num_disabled
    BY <2>1, Zenon DEF CpuRecord
  <2>3. cpu' = [cpu EXCEPT ![c] = IntrOff(p)]
    BY <1>1, Zenon
  <2> HIDE DEF p
  <2>4. /\ IntrOff(p) \in CpuRecord /\ IntrOff(p).thread = p.thread
        /\ IntrOff(p).num_disabled = p.num_disabled + 1 /\ IntrOff(p).level = "OFF"
    BY <2>2, IntrOffFacts, Zenon
  <2>5. cpu'[c] = IntrOff(p) /\ \A d \in Cpus : d # c => cpu'[d] = cpu[d]
    BY <2>1, <2>3, Zenon
  <2>6. cpu' \in [Cpus -> CpuRecord]
    BY <2>1, <2>3, <2>4, Zenon
  <2> QED
    BY <2>2, <2>4, <2>5, <2>6, Zenon
<1>3. \A u \in Threads : Running(u)' <=> Running(u)
  BY <1>2, RunningFrame, Zenon
<1>13. cpu[c].num_disabled = 0 /\ SpinDepth(pc[t], sp[t], arg[t]) = 0
  <2>1. /\ cpu[c].num_disabled = SpinDepth(pc[t], sp[t], arg[t])
        /\ cpu[c].num_disabled > 0 => cpu[c].level = "OFF"
        /\ cpu[c].num_disabled \in Nat
    BY <1>1, Zenon DEF NestingExact, TypeOK
  <2> QED
    BY <1>1, <2>1
<1>9. sp[t] = "out" /\ pc[t] \notin Masked /\ pc[t] # "fresh"
  BY <1>13 DEF SpinDepth, Masked, SpinLk, HoldLk
<1>10. Running(t) /\ pc[t] \in {"run", "crit", "sa_again"}
  <2>1. Running(t) /\ pc[t] # "none" /\ pc[t] # "exited"
    BY <1>1, <1>9 DEF PlaceInv, ContextInv, Running
  <2> QED
    BY <1>9, <2>1, Zenon DEF TypeOK, Labels, Masked, Owning, SpinLk, HoldLk
<1>8. t \notin Ready /\ t \notin Waiting /\ t \notin InHand
  BY <1>9, <1>10, InHandFacts, Zenon DEF ReadyInv, WaitingInv
<1>11. /\ sp'[t] = "spin" /\ arg'[t] = "READY" /\ irq' = irq \cup {t}
       /\ \A u \in Threads : u # t => sp'[u] = sp[u] /\ arg'[u] = arg[u]
  BY <1>1, Zenon DEF TypeOK
<1>12. /\ pc' = pc /\ state' = state /\ dying' = dying /\ woken' = woken /\ sched_lock' = sched_lock
       /\ lk' = lk /\ waiters' = waiters /\ holder' = holder
  BY <1>1, Zenon
<1>4. /\ Ready' = Ready /\ Waiting' = Waiting /\ InHand' = InHand
      /\ Ready \subseteq Workers /\ Waiting \subseteq Workers /\ InHand \subseteq Workers
  <2>1. Ready' = Ready /\ Waiting' = Waiting
    BY <1>1, Zenon DEF Ready, Waiting
  <2>2. InHand' = InHand
    BY <1>1, Zenon DEF InHand
  <2> QED
    BY <2>1, <2>2, ListTypes, Zenon
<1>5. /\ cpu[c].thread = t /\ t \in Threads
      /\ cpu[c].num_disabled = SpinDepth(pc[t], sp[t], arg[t])
      /\ cpu[c].num_disabled > 0 => cpu[c].level = "OFF"
      /\ cpu[c].num_disabled \in Nat
  BY <1>1, Zenon DEF NestingExact, TypeOK
<1>6. /\ cpu'[c].num_disabled = SpinDepth(pc'[t], sp'[t], arg'[t])
      /\ cpu'[c].num_disabled > 0 => cpu'[c].level = "OFF"
  BY <1>1, <1>2, <1>5 DEF SpinDepth, TypeOK, CpuRecord, SpinLk, HoldLk
<1>7. \A u \in Threads : u # t => pc'[u] = pc[u] /\ sp'[u] = sp[u] /\ arg'[u] = arg[u]
  BY <1>1, Zenon DEF TypeOK
<1>20. TypeOK'
  BY <1>1, <1>2 DEF TypeOK, CpuRecord, Labels, SpinLk, HoldLk, Owning
<1>21. CpuInv'
  BY <1>2, <1>5, <1>12, CpuFrame, Zenon
<1>22. NestingExact'
  BY <1>2, <1>5, <1>6, <1>7, NestingFrame
<1>23. ContextInv'
  BY <1>9, <1>10, <1>11, <1>12 DEF ContextInv, Masked, SpinLk, HoldLk
<1>24. PlaceInv'
  BY <1>3, <1>9, <1>10, <1>11, <1>12 DEF PlaceInv
<1>25. ReadyInv'
  BY <1>3, <1>4, <1>8, <1>11, <1>12, Zenon DEF ReadyInv
<1>26. WaitingInv'
  BY <1>3, <1>4, <1>8, <1>11, <1>12, Zenon DEF WaitingInv
<1>27. HandInv'
  <2> SUFFICES ASSUME NEW u \in Threads, NEW v, v = woken'[u]
               PROVE  /\ v # NULL <=> pc'[u] \in {"sr_ready", "cr_ready"}
                      /\ pc'[u] = "cr_ready" => pc'[v] = "fresh" /\ ~Running(v)'
                      /\ pc'[u] = "sr_ready" =>
                           /\ pc'[v] = "sa_again" /\ v \notin irq'
                           /\ sp'[v] \in {"pick", "ret"} /\ state'[v] = "SLEEPING"
                           /\ Running(v)' => sp'[v] = "pick"
    BY Zenon DEF HandInv
  <2>1. v = woken[u] /\ (v # NULL => v \in Threads /\ v # t)
    BY <1>8, <1>12, Zenon DEF InHand, TypeOK
  <2> QED
    BY <1>3, <1>11, <1>12, <2>1 DEF HandInv
<1>28. SchedLockInv'
  BY <1>2, <1>9, <1>11, <1>12, SchedLockFrame, Zenon
<1>29. LkInv'
  BY <1>9, <1>11, <1>12, Zenon DEF LkInv, HoldsLk, HoldLk, Owning
<1>30. DyingInv'
  BY <1>3, <1>9, <1>11, <1>12 DEF DyingInv, TypeOK
<1>31. NoLostWakeup'
  BY <1>4, <1>12, Zenon DEF NoLostWakeup
<1>32. DisjointInv'
  <2>1. ready_queue' = ready_queue /\ waiters' = waiters /\ woken' = woken
    BY <1>1, Zenon
  <2> QED
    BY <1>4, <2>1, Zenon DEF DisjointInv
<1> QED
  BY <1>20, <1>21, <1>22, <1>23, <1>24, <1>25, <1>26, <1>27, <1>28, <1>29, <1>30, <1>31, <1>32, Zenon

\* The interrupted thread resumes its own code.
LEMMA TrapretStep ==
  ASSUME IInv, NEW c \in Cpus, NEW t \in Threads, trapret(c, t)
  PROVE  IInv'
<1> USE ConstantsAssumption DEF IInv, Threads
<1>1. /\ cpu[c].thread = t /\ t \in irq /\ sp[t] = "out" /\ dying[t] = {}
      /\ irq' = irq \ {t} /\ cpu' = [cpu EXCEPT ![c].level = "ON"]
      /\ UNCHANGED <<state, ready_queue, sched_lock, lk, waiters, holder, pc, sp, arg, woken, dying>>
  BY Zenon DEF trapret, schedVars, lockVars
<1>2. /\ cpu' \in [Cpus -> CpuRecord]
      /\ \A d \in Cpus : cpu'[d].thread = cpu[d].thread
      /\ \A d \in Cpus : d # c => cpu'[d] = cpu[d]
      /\ cpu'[c].num_disabled = cpu[c].num_disabled
  BY <1>1 DEF TypeOK, CpuRecord
<1>3. \A u \in Threads : Running(u)' <=> Running(u)
  BY <1>2, RunningFrame, Zenon
<1>4. /\ Ready' = Ready /\ Waiting' = Waiting /\ InHand' = InHand
      /\ Ready \subseteq Workers /\ Waiting \subseteq Workers /\ InHand \subseteq Workers
  <2>1. Ready' = Ready /\ Waiting' = Waiting
    BY <1>1, Zenon DEF Ready, Waiting
  <2>2. InHand' = InHand
    BY <1>1, Zenon DEF InHand
  <2> QED
    BY <2>1, <2>2, ListTypes, Zenon
<1>8. pc[t] \notin Masked \cup {"none", "fresh", "exited"}
  BY <1>1, Zenon DEF ContextInv
<1>9. SpinDepth(pc[t], sp[t], arg[t]) = 0
  BY <1>1, <1>8 DEF SpinDepth, Masked, SpinLk, HoldLk
<1>20. TypeOK'
  BY <1>1, <1>2, Zenon DEF TypeOK, CpuRecord, Labels, SpinLk, HoldLk, Owning
<1>21. CpuInv'
  BY <1>1, <1>2, CpuFrame DEF TypeOK
<1>22. NestingExact'
  <2>1. cpu[c].thread = t /\ cpu[c].num_disabled = 0
    BY <1>1, <1>9, Zenon DEF NestingExact
  <2>2. /\ cpu'[c].num_disabled = SpinDepth(pc'[t], sp'[t], arg'[t])
        /\ cpu'[c].num_disabled > 0 => cpu'[c].level = "OFF"
    BY <1>1, <1>2, <1>9, <2>1
  <2>3. \A u \in Threads : u # t /\ Running(u) => pc'[u] = pc[u] /\ sp'[u] = sp[u] /\ arg'[u] = arg[u]
    BY <1>1, Zenon
  <2> QED
    BY <1>2, <2>1, <2>2, <2>3, NestingFrame
<1>23. ContextInv'
  BY <1>1, <1>8, Zenon DEF ContextInv
<1>24. PlaceInv'
  BY <1>1, <1>3, Zenon DEF PlaceInv, TypeOK
<1>25. ReadyInv'
  BY <1>1, <1>3, <1>4, Zenon DEF ReadyInv, TypeOK
<1>26. WaitingInv'
  BY <1>1, <1>3, <1>4 DEF WaitingInv, TypeOK
<1>27. HandInv'
  BY <1>1, <1>3, <1>4 DEF HandInv, TypeOK
<1>28. SchedLockInv'
  BY <1>1, <1>2, SchedLockFrame, Zenon DEF TypeOK
<1>29. LkInv'
  BY <1>1, Zenon DEF LkInv, HoldsLk, TypeOK, HoldLk, Owning
<1>30. DyingInv'
  BY <1>1, <1>3 DEF DyingInv, TypeOK
<1>31. NoLostWakeup'
  BY <1>1, <1>4, Zenon DEF NoLostWakeup, TypeOK
<1>32. DisjointInv'
  <2>1. ready_queue' = ready_queue /\ waiters' = waiters /\ woken' = woken
    BY <1>1, Zenon
  <2> QED
    BY <1>4, <2>1, Zenon DEF DisjointInv
<1> QED
  BY <1>20, <1>21, <1>22, <1>23, <1>24, <1>25, <1>26, <1>27, <1>28, <1>29, <1>30, <1>31, <1>32, Zenon

\* Another processor comes up.
LEMMA StartApStep ==
  ASSUME IInv, NEW c \in Cpus, sched_start_ap(c)
  PROVE  IInv'
<1> USE ConstantsAssumption DEF IInv, Threads
<1>1. /\ cpu[c].thread = NULL /\ cpu' = [cpu EXCEPT ![c] = IntrOn([cpu[c] EXCEPT !.thread = c])]
      /\ pc' = [pc EXCEPT ![c] = "run"]
      /\ UNCHANGED <<state, ready_queue, sched_lock, lk, waiters, holder, sp, arg, woken, dying, irq>>
  BY Zenon DEF sched_start_ap, Goto, schedVars, lockVars
<1>8. pc[c] = "none" /\ sp[c] = "out" /\ cpu[c].num_disabled = 0 /\ c \notin irq /\ dying[c] = {}
  BY <1>1, Zenon DEF CpuInv, ContextInv
<1>2. /\ cpu' \in [Cpus -> CpuRecord]
      /\ \A d \in Cpus : d # c => cpu'[d] = cpu[d]
      /\ cpu'[c].thread = c /\ cpu'[c].num_disabled = 0
  <2> DEFINE p == [cpu[c] EXCEPT !.thread = c]
  <2>1. cpu \in [Cpus -> CpuRecord] /\ cpu[c] \in CpuRecord
    BY Zenon DEF TypeOK, CpuRecord
  <2>2. p \in CpuRecord /\ p.thread = c /\ p.num_disabled = 0
    BY <1>8, <2>1, Zenon DEF CpuRecord
  <2>3. cpu' = [cpu EXCEPT ![c] = IntrOn(p)]
    BY <1>1, Zenon
  <2> HIDE DEF p
  <2>4. IntrOn(p) \in CpuRecord /\ IntrOn(p).thread = c /\ IntrOn(p).num_disabled = 0
    BY <2>2, IntrOnFacts, Zenon
  <2> QED
    BY <2>1, <2>3, <2>4, Zenon
<1>3. \A u \in Threads : Running(u)' <=> (Running(u) \/ u = c)
  BY <1>1, <1>2, Zenon DEF Running
<1>4. /\ Ready' = Ready /\ Waiting' = Waiting /\ InHand' = InHand
      /\ Ready \subseteq Workers /\ Waiting \subseteq Workers /\ InHand \subseteq Workers
  <2>1. Ready' = Ready /\ Waiting' = Waiting
    BY <1>1, Zenon DEF Ready, Waiting
  <2>2. InHand' = InHand
    BY <1>1, Zenon DEF InHand
  <2> QED
    BY <2>1, <2>2, ListTypes, Zenon
<1>9. /\ state' = state /\ pc'[c] = "run" /\ ~Running(c)
      /\ \A u \in Threads : u # c => pc'[u] = pc[u]
  BY <1>1, <1>8, Zenon DEF TypeOK, PlaceInv
<1>10. /\ sp' = sp /\ arg' = arg /\ dying' = dying /\ woken' = woken /\ irq' = irq
       /\ sched_lock' = sched_lock /\ lk' = lk /\ waiters' = waiters /\ holder' = holder
  BY <1>1, Zenon
<1>11. c \notin Workers /\ c # NULL
  BY Zenon
<1>20. TypeOK'
  BY <1>1, <1>2, Zenon DEF TypeOK, CpuRecord, Labels, States
<1>21. CpuInv'
  BY <1>2, <1>8, <1>9 DEF CpuInv
<1>22. NestingExact'
  <2> SUFFICES ASSUME NEW d \in Cpus, NEW u, u = cpu'[d].thread, u # NULL
               PROVE  /\ cpu'[d].num_disabled = SpinDepth(pc'[u], sp'[u], arg'[u])
                      /\ cpu'[d].num_disabled > 0 => cpu'[d].level = "OFF"
    BY Zenon DEF NestingExact
  <2>1. CASE d = c
    BY <1>2, <1>8, <1>9, <1>10, <2>1 DEF SpinDepth, SpinLk, HoldLk
  <2>2. CASE d # c
    <3>1. u = cpu[d].thread /\ u \in Threads /\ Running(u) /\ cpu'[d] = cpu[d]
      BY <1>2, <2>2 DEF TypeOK, Running
    <3>2. pc'[u] = pc[u] /\ sp'[u] = sp[u] /\ arg'[u] = arg[u]
      BY <1>9, <1>10, <3>1, Zenon
    <3> QED
      BY <3>1, <3>2, Zenon DEF NestingExact
  <2> QED
    BY <2>1, <2>2, Zenon
<1>23. ContextInv'
  BY <1>8, <1>9, <1>10 DEF ContextInv, Masked, SpinLk, HoldLk
<1>24. PlaceInv'
  BY <1>3, <1>8, <1>9, <1>10, <1>11, Zenon DEF PlaceInv
<1>25. ReadyInv'
  BY <1>3, <1>4, <1>9, <1>10, <1>11, Zenon DEF ReadyInv
<1>26. WaitingInv'
  BY <1>3, <1>4, <1>8, <1>9, <1>10, <1>11, Zenon DEF WaitingInv
<1>27. HandInv'
  <2> SUFFICES ASSUME NEW u \in Threads, NEW v, v = woken'[u]
               PROVE  /\ v # NULL <=> pc'[u] \in {"sr_ready", "cr_ready"}
                      /\ pc'[u] = "cr_ready" => pc'[v] = "fresh" /\ ~Running(v)'
                      /\ pc'[u] = "sr_ready" =>
                           /\ pc'[v] = "sa_again" /\ v \notin irq'
                           /\ sp'[v] \in {"pick", "ret"} /\ state'[v] = "SLEEPING"
                           /\ Running(v)' => sp'[v] = "pick"
    BY Zenon DEF HandInv
  <2>1. v = woken[u] /\ (v # NULL => v \in Threads /\ v # c)
    BY <1>10, <1>11, Zenon DEF TypeOK
  <2> QED
    BY <1>3, <1>8, <1>9, <1>10, <2>1 DEF HandInv
<1>28. SchedLockInv'
  <2>1. \A d \in Cpus : Switching(d)' <=> Switching(d)
    <3> SUFFICES ASSUME NEW d \in Cpus PROVE Switching(d)' <=> Switching(d)
      BY Zenon
    <3>1. CASE d = c
      BY <1>1, <1>2, <1>8, <1>9, <1>10, <3>1, Zenon DEF Switching
    <3>2. CASE d # c
      <4>1. cpu'[d].thread = cpu[d].thread /\ (cpu[d].thread # NULL => Running(cpu[d].thread) /\ cpu[d].thread \in Threads)
        BY <1>2, <3>2, Zenon DEF TypeOK, Running
      <4> QED
        BY <1>9, <1>10, <4>1, Zenon DEF Switching
    <3> QED
      BY <3>1, <3>2, Zenon
  <2> QED
    BY <1>10, <2>1, Zenon DEF SchedLockInv
<1>29. LkInv'
  BY <1>9, <1>10, <1>11, Zenon DEF LkInv, HoldsLk
<1>30. DyingInv'
  BY <1>3, <1>8, <1>9, <1>10 DEF DyingInv, TypeOK
<1>31. NoLostWakeup'
  BY <1>4, <1>9, <1>10, <1>11, Zenon DEF NoLostWakeup
<1>32. DisjointInv'
  BY <1>1, <1>4, Zenon DEF DisjointInv
<1> QED
  BY <1>20, <1>21, <1>22, <1>23, <1>24, <1>25, <1>26, <1>27, <1>28, <1>29, <1>30, <1>31, <1>32, Zenon

-----------------------------------------------------------------------------
(* sched_sched, the start of a thread and the cleanup of zombies.          *)

\* sched_sched takes sched_lock and files the thread under its new state.
LEMMA SchedAcquireStep ==
  ASSUME IInv, NEW c \in Cpus, NEW t \in Threads, SchedAcquire(c, t)
  PROVE  IInv'
<1> USE ConstantsAssumption DEF IInv, Threads
<1>1. /\ cpu[c].thread = t /\ sp[t] = "spin" /\ sched_lock = NULL /\ sched_lock' = t /\ cpu' = cpu
      /\ ready_queue' = IF arg[t] = "READY" /\ t # c THEN Append(ready_queue, t) ELSE ready_queue
      /\ state' = [state EXCEPT ![t] = arg[t]]
      /\ sp' = [sp EXCEPT ![t] = IF arg[t] = "SLEEPING" THEN "unlock" ELSE "pick"]
      /\ UNCHANGED <<lk, waiters, holder, pc, arg, woken, dying, irq>>
  BY Zenon DEF SchedAcquire, Requeue, lockVars
<1>2. /\ cpu' = cpu /\ cpu' \in [Cpus -> CpuRecord]
      /\ \A d \in Cpus : cpu'[d].thread = cpu[d].thread
  BY <1>1, Zenon DEF TypeOK, CpuRecord
<1>3. \A u \in Threads : Running(u)' <=> Running(u)
  BY <1>2, RunningFrame, Zenon
<1>8. /\ Running(t) /\ t \in Workers \cup {c} /\ t # NULL
      /\ \A d \in Cpus : cpu[d].thread = t => d = c
  BY <1>1, Zenon DEF Running, CpuInv
<1>9. \/ t \in irq /\ arg[t] = "READY" /\ pc[t] \notin Masked \cup {"none", "fresh", "exited"}
      \/ t \notin irq /\ pc[t] = "sa_again" /\ arg[t] = "SLEEPING"
      \/ t \notin irq /\ pc[t] = "exited" /\ arg[t] = "ZOMBIE"
  BY <1>1, Zenon DEF ContextInv
<1>10. /\ t \notin Ready /\ t \notin InHand /\ (arg[t] = "READY" => t \notin Waiting)
       /\ (arg[t] = "SLEEPING" => t \in Waiting)
  BY <1>1, <1>8, <1>9, InHandFacts, Zenon DEF ReadyInv, WaitingInv
<1>11. /\ sp'[t] = (IF arg[t] = "SLEEPING" THEN "unlock" ELSE "pick") /\ state'[t] = arg[t]
       /\ \A u \in Threads : u # t => sp'[u] = sp[u] /\ state'[u] = state[u]
  BY <1>1, Zenon DEF TypeOK
<1>12. /\ pc' = pc /\ arg' = arg /\ dying' = dying /\ woken' = woken /\ irq' = irq /\ sched_lock' = t
       /\ lk' = lk /\ waiters' = waiters /\ holder' = holder /\ sp[t] = "spin" /\ sched_lock = NULL
  BY <1>1, Zenon
<1>13. /\ ready_queue' \in Seq(Workers) /\ NoRepeat(ready_queue')
       /\ Ready' = IF arg[t] = "READY" /\ t # c THEN Ready \cup {t} ELSE Ready
  <2>1. ready_queue \in Seq(Workers) /\ NoRepeat(ready_queue) /\ t \notin Elems(ready_queue)
    BY <1>10, Zenon DEF TypeOK, DisjointInv, Ready
  <2>2. CASE arg[t] = "READY" /\ t # c
    <3>1. ready_queue' = Append(ready_queue, t) /\ t \in Workers
      BY <1>1, <1>8, <2>2, Zenon
    <3> QED
      BY <2>1, <2>2, <3>1, ElemsAppend DEF Ready
  <2>3. CASE ~(arg[t] = "READY" /\ t # c)
    BY <1>1, <2>1, <2>3, Zenon DEF Ready
  <2> QED
    BY <2>2, <2>3, Zenon
<1>4. /\ Waiting' = Waiting /\ InHand' = InHand
      /\ Ready \subseteq Workers /\ Waiting \subseteq Workers /\ InHand \subseteq Workers
  BY <1>12, ListTypes, Zenon DEF Waiting, InHand
<1>20. TypeOK'
  <2>1. state' \in [Threads -> States]
    BY <1>1, Zenon DEF TypeOK, States
  <2>2. sp' \in [Threads -> {"out", "spin", "unlock", "pick", "ret"}]
    BY <1>1, Zenon DEF TypeOK
  <2> QED
    BY <1>2, <1>12, <1>13, <2>1, <2>2, Zenon DEF TypeOK, CpuRecord
<1>21. CpuInv'
  BY <1>2, <1>12, CpuFrame, Zenon
<1>22. NestingExact'
  <2>1. /\ cpu[c].thread = t /\ cpu[c].num_disabled = SpinDepth(pc[t], sp[t], arg[t])
        /\ cpu[c].num_disabled > 0 => cpu[c].level = "OFF"
    BY <1>1, <1>8, Zenon DEF NestingExact
  <2>2. SpinDepth(pc'[t], sp'[t], arg'[t]) = SpinDepth(pc[t], sp[t], arg[t])
    BY <1>9, <1>11, <1>12, Zenon DEF SpinDepth
  <2>3. \A u \in Threads : u # t => pc'[u] = pc[u] /\ sp'[u] = sp[u] /\ arg'[u] = arg[u]
    BY <1>11, <1>12, Zenon
  <2> QED
    BY <1>2, <2>1, <2>2, <2>3, NestingFrame
<1>23. ContextInv'
  BY <1>9, <1>11, <1>12 DEF ContextInv, Masked, SpinLk, HoldLk
<1>24. PlaceInv'
  BY <1>3, <1>8, <1>11, <1>12 DEF PlaceInv
<1>25. ReadyInv'
  BY <1>3, <1>9, <1>10, <1>11, <1>12, <1>13, <1>4, Zenon DEF ReadyInv
<1>26. WaitingInv'
  BY <1>3, <1>4, <1>9, <1>10, <1>11, <1>12, Zenon DEF WaitingInv
<1>27. HandInv'
  <2> SUFFICES ASSUME NEW u \in Threads, NEW v, v = woken'[u]
               PROVE  /\ v # NULL <=> pc'[u] \in {"sr_ready", "cr_ready"}
                      /\ pc'[u] = "cr_ready" => pc'[v] = "fresh" /\ ~Running(v)'
                      /\ pc'[u] = "sr_ready" =>
                           /\ pc'[v] = "sa_again" /\ v \notin irq'
                           /\ sp'[v] \in {"pick", "ret"} /\ state'[v] = "SLEEPING"
                           /\ Running(v)' => sp'[v] = "pick"
    BY Zenon DEF HandInv
  <2>1. v = woken[u] /\ (v # NULL => v \in Threads /\ v # t)
    BY <1>10, <1>12 DEF InHand, TypeOK
  <2> QED
    BY <1>3, <1>11, <1>12, <2>1 DEF HandInv
<1>28. SchedLockInv'
  <2>1. \A d \in Cpus : ~Switching(d)
    BY <1>12, Zenon DEF SchedLockInv
  <2>2. Switching(c)'
    BY <1>2, <1>1, <1>8, <1>11, Zenon DEF Switching
  <2>3. \A d \in Cpus : d # c => ~Switching(d)'
    <3> SUFFICES ASSUME NEW d \in Cpus, d # c, cpu[d].thread # NULL PROVE ~Switching(d)'
      BY <1>2, Zenon DEF Switching
    <3>1. cpu[d].thread \in Threads /\ cpu[d].thread # t
      BY <1>8, Zenon DEF TypeOK
    <3> QED
      BY <1>2, <1>11, <1>12, <2>1, <3>1, Zenon DEF Switching
  <2>4. \A u \in Threads : u # t => sp[u] \notin {"unlock", "pick"}
    BY <1>12, Zenon DEF SchedLockInv
  <2> QED
    BY <1>8, <1>11, <1>12, <2>2, <2>3, <2>4, Zenon DEF SchedLockInv
<1>29. LkInv'
  BY <1>11, <1>12 DEF LkInv, HoldsLk
<1>30. DyingInv'
  BY <1>3, <1>8, <1>11, <1>12 DEF DyingInv, TypeOK
<1>31. NoLostWakeup'
  BY <1>4, <1>10, <1>11, <1>12, Zenon DEF NoLostWakeup
<1>32. DisjointInv'
  BY <1>4, <1>10, <1>12, <1>13 DEF DisjointInv
<1> QED
  BY <1>20, <1>21, <1>22, <1>23, <1>24, <1>25, <1>26, <1>27, <1>28, <1>29, <1>30, <1>31, <1>32, Zenon

\* sched_sched releases the lock given to condvar_wait, under sched_lock.
LEMMA SchedUnlockStep ==
  ASSUME IInv, NEW c \in Cpus, NEW t \in Threads, SchedUnlock(c, t)
  PROVE  IInv'
<1> USE ConstantsAssumption DEF IInv, Threads
<1>1. /\ cpu[c].thread = t /\ sp[t] = "unlock" /\ lk' = NULL /\ On(c) /\ sp' = [sp EXCEPT ![t] = "pick"]
      /\ UNCHANGED <<state, ready_queue, sched_lock, waiters, holder, pc, arg, woken, dying, irq>>
  BY Zenon DEF SchedUnlock, schedVars
<1>2. /\ cpu' \in [Cpus -> CpuRecord]
      /\ \A d \in Cpus : cpu'[d].thread = cpu[d].thread
      /\ \A d \in Cpus : d # c => cpu'[d] = cpu[d]
      /\ cpu[c].num_disabled # 0 => cpu'[c].num_disabled = cpu[c].num_disabled - 1
      /\ cpu'[c].num_disabled # 0 => cpu'[c].level = "OFF"
  BY <1>1, OnFacts, Zenon
<1>3. \A u \in Threads : Running(u)' <=> Running(u)
  BY <1>2, RunningFrame, Zenon
<1>8. Running(t) /\ t # NULL
  BY <1>1, Zenon DEF Running
<1>9. t \in Workers /\ t \notin irq /\ pc[t] = "sa_again" /\ arg[t] = "SLEEPING" /\ sched_lock = t
  BY <1>1, Zenon DEF ContextInv, SchedLockInv
<1>10. t \notin InHand /\ lk = t
  BY <1>1, <1>9, InHandFacts, Zenon DEF LkInv, HoldsLk
<1>11. /\ sp'[t] = "pick" /\ sp[t] = "unlock"
       /\ \A u \in Threads : u # t => sp'[u] = sp[u]
  BY <1>1, Zenon DEF TypeOK
<1>12. /\ pc' = pc /\ arg' = arg /\ dying' = dying /\ woken' = woken /\ irq' = irq
       /\ sched_lock' = sched_lock /\ state' = state /\ ready_queue' = ready_queue
       /\ lk' = NULL /\ waiters' = waiters /\ holder' = holder
  BY <1>1, Zenon
<1>4. /\ Ready' = Ready /\ Waiting' = Waiting /\ InHand' = InHand
      /\ Ready \subseteq Workers /\ Waiting \subseteq Workers /\ InHand \subseteq Workers
  <2>1. Ready' = Ready /\ Waiting' = Waiting
    BY <1>1, Zenon DEF Ready, Waiting
  <2>2. InHand' = InHand
    BY <1>1 DEF InHand
  <2> QED
    BY <2>1, <2>2, ListTypes, Zenon
<1>5. /\ cpu[c].thread = t /\ t \in Threads
      /\ cpu[c].num_disabled = SpinDepth(pc[t], sp[t], arg[t])
      /\ cpu[c].num_disabled > 0 => cpu[c].level = "OFF"
      /\ cpu[c].num_disabled \in Nat
  BY <1>1, Zenon DEF NestingExact, TypeOK
<1>6. /\ cpu'[c].num_disabled = SpinDepth(pc'[t], sp'[t], arg'[t])
      /\ cpu'[c].num_disabled > 0 => cpu'[c].level = "OFF"
  BY <1>2, <1>5, <1>9, <1>11, <1>12 DEF SpinDepth, TypeOK, CpuRecord, SpinLk, HoldLk
<1>7. \A u \in Threads : u # t => pc'[u] = pc[u] /\ sp'[u] = sp[u] /\ arg'[u] = arg[u]
  BY <1>1, Zenon DEF TypeOK
<1>20. TypeOK'
  BY <1>1, <1>2, Zenon DEF TypeOK, CpuRecord, Labels, SpinLk, HoldLk, Owning
<1>21. CpuInv'
  BY <1>2, <1>5, <1>12, CpuFrame, Zenon
<1>22. NestingExact'
  BY <1>2, <1>5, <1>6, <1>7, NestingFrame
<1>23. ContextInv'
  BY <1>9, <1>11, <1>12 DEF ContextInv, Masked, SpinLk, HoldLk
<1>24. PlaceInv'
  BY <1>3, <1>8, <1>11, <1>12, Zenon DEF PlaceInv
<1>25. ReadyInv'
  BY <1>3, <1>4, <1>11, <1>12, Zenon DEF ReadyInv
<1>26. WaitingInv'
  BY <1>3, <1>4, <1>11, <1>12, Zenon DEF WaitingInv
<1>27. HandInv'
  <2> SUFFICES ASSUME NEW u \in Threads, NEW v, v = woken'[u]
               PROVE  /\ v # NULL <=> pc'[u] \in {"sr_ready", "cr_ready"}
                      /\ pc'[u] = "cr_ready" => pc'[v] = "fresh" /\ ~Running(v)'
                      /\ pc'[u] = "sr_ready" =>
                           /\ pc'[v] = "sa_again" /\ v \notin irq'
                           /\ sp'[v] \in {"pick", "ret"} /\ state'[v] = "SLEEPING"
                           /\ Running(v)' => sp'[v] = "pick"
    BY Zenon DEF HandInv
  <2>1. v = woken[u] /\ (v # NULL => v \in Threads /\ v # t)
    BY <1>10, <1>12, Zenon DEF InHand, TypeOK
  <2> QED
    BY <1>3, <1>11, <1>12, <2>1 DEF HandInv
<1>28. SchedLockInv'
  <2>1. \A d \in Cpus : Switching(d)' <=> Switching(d)
    <3> SUFFICES ASSUME NEW d \in Cpus PROVE Switching(d)' <=> Switching(d)
      BY Zenon
    <3>1. cpu[d].thread = cpu'[d].thread /\ cpu[d].thread \in Threads \cup {NULL}
      BY <1>2, Zenon DEF TypeOK
    <3> QED
      BY <1>11, <1>12, <3>1, Zenon DEF Switching
  <2> QED
    BY <1>9, <1>11, <1>12, <2>1, Zenon DEF SchedLockInv
<1>29. LkInv'
  BY <1>9, <1>10, <1>11, <1>12, Zenon DEF LkInv, HoldsLk, HoldLk
<1>30. DyingInv'
  <2>1. \A u \in Threads, z \in Threads : z \in dying[u] => z # t
    BY <1>8 DEF DyingInv
  <2> QED
    BY <1>3, <1>11, <1>12, <2>1 DEF DyingInv, TypeOK
<1>31. NoLostWakeup'
  BY <1>4, <1>12, Zenon DEF NoLostWakeup
<1>32. DisjointInv'
  <2>1. ready_queue' = ready_queue /\ waiters' = waiters /\ woken' = woken
    BY <1>1, Zenon
  <2> QED
    BY <1>4, <2>1, Zenon DEF DisjointInv
<1> QED
  BY <1>20, <1>21, <1>22, <1>23, <1>24, <1>25, <1>26, <1>27, <1>28, <1>29, <1>30, <1>31, <1>32, Zenon

\* The thread that came in releases sched_lock.
LEMMA SchedReleaseStep ==
  ASSUME IInv, NEW c \in Cpus, NEW t \in Threads, SchedRelease(c, t)
  PROVE  IInv'
<1> USE ConstantsAssumption DEF IInv, Threads
<1>1. /\ cpu[c].thread = t /\ sp[t] = "ret" /\ sched_lock' = NULL /\ On(c) /\ sp' = [sp EXCEPT ![t] = "out"]
      /\ UNCHANGED <<state, ready_queue, lk, waiters, holder, pc, arg, woken, dying, irq>>
  BY Zenon DEF SchedRelease, lockVars
<1>2. /\ cpu' \in [Cpus -> CpuRecord]
      /\ \A d \in Cpus : cpu'[d].thread = cpu[d].thread
      /\ \A d \in Cpus : d # c => cpu'[d] = cpu[d]
      /\ cpu[c].num_disabled # 0 => cpu'[c].num_disabled = cpu[c].num_disabled - 1
      /\ cpu'[c].num_disabled # 0 => cpu'[c].level = "OFF"
  BY <1>1, OnFacts, Zenon
<1>3. \A u \in Threads : Running(u)' <=> Running(u)
  BY <1>2, RunningFrame, Zenon
<1>8. /\ Running(t) /\ t # NULL /\ pc[t] \notin Masked \cup {"none", "fresh", "exited"}
      /\ \A d \in Cpus : cpu[d].thread = t => d = c
  BY <1>1 DEF Running, CpuInv, PlaceInv, ContextInv
<1>9. Switching(c)
  BY <1>1, <1>8, Zenon DEF Switching
<1>10. t \notin InHand /\ t \notin Waiting /\ t \notin Ready
  BY <1>1, <1>8, InHandFacts, Zenon DEF WaitingInv, ReadyInv
<1>11. /\ sp'[t] = "out" /\ sp[t] = "ret"
       /\ \A u \in Threads : u # t => sp'[u] = sp[u]
  BY <1>1, Zenon DEF TypeOK
<1>12. /\ pc' = pc /\ arg' = arg /\ dying' = dying /\ woken' = woken /\ irq' = irq
       /\ sched_lock' = NULL /\ state' = state /\ ready_queue' = ready_queue
       /\ lk' = lk /\ waiters' = waiters /\ holder' = holder
  BY <1>1, Zenon
<1>4. /\ Ready' = Ready /\ Waiting' = Waiting /\ InHand' = InHand
      /\ Ready \subseteq Workers /\ Waiting \subseteq Workers /\ InHand \subseteq Workers
  <2>1. Ready' = Ready /\ Waiting' = Waiting
    BY <1>1, Zenon DEF Ready, Waiting
  <2>2. InHand' = InHand
    BY <1>1, Zenon DEF InHand
  <2> QED
    BY <2>1, <2>2, ListTypes, Zenon
<1>5. /\ cpu[c].thread = t /\ t \in Threads
      /\ cpu[c].num_disabled = SpinDepth(pc[t], sp[t], arg[t])
      /\ cpu[c].num_disabled > 0 => cpu[c].level = "OFF"
      /\ cpu[c].num_disabled \in Nat
  BY <1>1, Zenon DEF NestingExact, TypeOK
<1>6. /\ cpu'[c].num_disabled = SpinDepth(pc'[t], sp'[t], arg'[t])
      /\ cpu'[c].num_disabled > 0 => cpu'[c].level = "OFF"
  BY <1>2, <1>5, <1>8, <1>11, <1>12 DEF SpinDepth, TypeOK, CpuRecord, SpinLk, HoldLk, ContextInv, Masked
<1>7. \A u \in Threads : u # t => pc'[u] = pc[u] /\ sp'[u] = sp[u] /\ arg'[u] = arg[u]
  BY <1>1, Zenon DEF TypeOK
<1>20. TypeOK'
  BY <1>1, <1>2, Zenon DEF TypeOK, CpuRecord, Labels, SpinLk, HoldLk, Owning
<1>21. CpuInv'
  BY <1>2, <1>5, <1>12, CpuFrame, Zenon
<1>22. NestingExact'
  BY <1>2, <1>5, <1>6, <1>7, NestingFrame
<1>23. ContextInv'
  BY <1>8, <1>11, <1>12 DEF ContextInv, Masked, SpinLk, HoldLk
<1>24. PlaceInv'
  BY <1>3, <1>8, <1>11, <1>12, Zenon DEF PlaceInv
<1>25. ReadyInv'
  BY <1>3, <1>4, <1>10, <1>11, <1>12, Zenon DEF ReadyInv
<1>26. WaitingInv'
  BY <1>3, <1>4, <1>10, <1>11, <1>12, Zenon DEF WaitingInv
<1>27. HandInv'
  <2> SUFFICES ASSUME NEW u \in Threads, NEW v, v = woken'[u]
               PROVE  /\ v # NULL <=> pc'[u] \in {"sr_ready", "cr_ready"}
                      /\ pc'[u] = "cr_ready" => pc'[v] = "fresh" /\ ~Running(v)'
                      /\ pc'[u] = "sr_ready" =>
                           /\ pc'[v] = "sa_again" /\ v \notin irq'
                           /\ sp'[v] \in {"pick", "ret"} /\ state'[v] = "SLEEPING"
                           /\ Running(v)' => sp'[v] = "pick"
    BY Zenon DEF HandInv
  <2>1. v = woken[u] /\ (v # NULL => v \in Threads /\ v # t)
    BY <1>10, <1>12, Zenon DEF InHand, TypeOK
  <2> QED
    BY <1>3, <1>11, <1>12, <2>1 DEF HandInv
<1>28. SchedLockInv'
  <2>1. \A d \in Cpus : d # c => ~Switching(d)
    BY <1>9, Zenon DEF SchedLockInv
  <2>2. \A d \in Cpus : ~Switching(d)'
    <3> SUFFICES ASSUME NEW d \in Cpus, cpu[d].thread # NULL PROVE ~Switching(d)'
      BY <1>2, Zenon DEF Switching
    <3>1. CASE d = c
      BY <1>1, <1>2, <1>8, <1>11, <1>12, <3>1, Zenon DEF Switching
    <3>2. CASE d # c
      <4>1. cpu[d].thread \in Threads /\ cpu[d].thread # t
        BY <1>8, <3>2, Zenon DEF TypeOK
      <4> QED
        BY <1>2, <1>11, <1>12, <2>1, <3>2, <4>1 DEF Switching
    <3> QED
      BY <3>1, <3>2, Zenon
  <2>3. \A u \in Threads : u # t => sp[u] \notin {"unlock", "pick"}
    <3> SUFFICES ASSUME NEW u \in Threads, u # t, sp[u] \in {"unlock", "pick"} PROVE FALSE
      BY Zenon
    <3>1. PICK d \in Cpus : cpu[d].thread = u
      BY Zenon DEF PlaceInv, ContextInv, Running
    <3>2. d # c /\ Switching(d)
      BY <1>1, <3>1 DEF Switching
    <3> QED
      BY <2>1, <3>2, Zenon
  <2> QED
    BY <1>11, <1>12, <2>2, <2>3, Zenon DEF SchedLockInv
<1>29. LkInv'
  BY <1>11, <1>12 DEF LkInv, HoldsLk
<1>30. DyingInv'
  <2>1. \A u \in Threads, z \in Threads : z \in dying[u] => z # t
    BY <1>8 DEF DyingInv
  <2>2. NULL \notin Threads
    BY Zenon
  <2> QED
    BY <1>3, <1>11, <1>12, <2>1, <2>2 DEF DyingInv, TypeOK
<1>31. NoLostWakeup'
  BY <1>4, <1>12, Zenon DEF NoLostWakeup
<1>32. DisjointInv'
  <2>1. ready_queue' = ready_queue /\ waiters' = waiters /\ woken' = woken
    BY <1>1, Zenon
  <2> QED
    BY <1>4, <2>1, Zenon DEF DisjointInv
<1> QED
  BY <1>20, <1>21, <1>22, <1>23, <1>24, <1>25, <1>26, <1>27, <1>28, <1>29, <1>30, <1>31, <1>32, Zenon

\* A fresh thread releases sched_lock.
LEMMA ThreadStartStep ==
  ASSUME IInv, NEW c \in Cpus, NEW t \in Threads, thread_start(c, t)
  PROVE  IInv'
<1> USE ConstantsAssumption DEF IInv, Threads
<1>1. /\ cpu[c].thread = t /\ pc[t] = "fresh" /\ sched_lock' = NULL /\ On(c) /\ pc' = [pc EXCEPT ![t] = "run"]
      /\ UNCHANGED <<state, ready_queue, lk, waiters, holder, sp, arg, woken, dying, irq>>
  BY Zenon DEF thread_start, Goto, lockVars
<1>2. /\ cpu' \in [Cpus -> CpuRecord]
      /\ \A d \in Cpus : cpu'[d].thread = cpu[d].thread
      /\ \A d \in Cpus : d # c => cpu'[d] = cpu[d]
      /\ cpu[c].num_disabled # 0 => cpu'[c].num_disabled = cpu[c].num_disabled - 1
      /\ cpu'[c].num_disabled # 0 => cpu'[c].level = "OFF"
  BY <1>1, OnFacts, Zenon
<1>3. \A u \in Threads : Running(u)' <=> Running(u)
  BY <1>2, RunningFrame, Zenon
<1>8. /\ Running(t) /\ t # NULL /\ sp[t] = "out" /\ t \notin irq /\ dying[t] = {} /\ t \in Workers
      /\ \A d \in Cpus : cpu[d].thread = t => d = c
  BY <1>1 DEF Running, CpuInv, ContextInv
<1>9. Switching(c)
  BY <1>1, <1>8, Zenon DEF Switching
<1>10. t \notin InHand /\ t \notin Waiting /\ t \notin Ready
  BY <1>1, <1>8, InHandFacts, Zenon DEF WaitingInv, ReadyInv
<1>11. /\ pc'[t] = "run" /\ pc[t] = "fresh"
       /\ \A u \in Threads : u # t => pc'[u] = pc[u]
  BY <1>1, Zenon DEF TypeOK
<1>12. /\ sp' = sp /\ arg' = arg /\ dying' = dying /\ woken' = woken /\ irq' = irq
       /\ sched_lock' = NULL /\ state' = state /\ ready_queue' = ready_queue
       /\ lk' = lk /\ waiters' = waiters /\ holder' = holder
  BY <1>1, Zenon
<1>4. /\ Ready' = Ready /\ Waiting' = Waiting /\ InHand' = InHand
      /\ Ready \subseteq Workers /\ Waiting \subseteq Workers /\ InHand \subseteq Workers
  <2>1. Ready' = Ready /\ Waiting' = Waiting
    BY <1>1, Zenon DEF Ready, Waiting
  <2>2. InHand' = InHand
    BY <1>1, Zenon DEF InHand
  <2> QED
    BY <2>1, <2>2, ListTypes, Zenon
<1>5. /\ cpu[c].thread = t /\ t \in Threads
      /\ cpu[c].num_disabled = SpinDepth(pc[t], sp[t], arg[t])
      /\ cpu[c].num_disabled > 0 => cpu[c].level = "OFF"
      /\ cpu[c].num_disabled \in Nat
  BY <1>1, Zenon DEF NestingExact, TypeOK
<1>6. /\ cpu'[c].num_disabled = SpinDepth(pc'[t], sp'[t], arg'[t])
      /\ cpu'[c].num_disabled > 0 => cpu'[c].level = "OFF"
  BY <1>2, <1>5, <1>8, <1>11, <1>12 DEF SpinDepth, TypeOK, CpuRecord, SpinLk, HoldLk
<1>7. \A u \in Threads : u # t => pc'[u] = pc[u] /\ sp'[u] = sp[u] /\ arg'[u] = arg[u]
  BY <1>1, Zenon DEF TypeOK
<1>20. TypeOK'
  BY <1>1, <1>2, Zenon DEF TypeOK, CpuRecord, Labels, SpinLk, HoldLk, Owning
<1>21. CpuInv'
  <2>1. \A d \in Cpus : pc'[d] = "none" <=> pc[d] = "none"
    BY <1>11, Zenon
  <2> QED
    BY <1>2, <1>5, <2>1, CpuFrame, Zenon
<1>22. NestingExact'
  BY <1>2, <1>5, <1>6, <1>7, NestingFrame
<1>23. ContextInv'
  BY <1>8, <1>11, <1>12 DEF ContextInv, Masked, SpinLk, HoldLk
<1>24. PlaceInv'
  BY <1>3, <1>8, <1>11, <1>12, Zenon DEF PlaceInv
<1>25. ReadyInv'
  BY <1>3, <1>4, <1>10, <1>11, <1>12, Zenon DEF ReadyInv
<1>26. WaitingInv'
  BY <1>3, <1>4, <1>10, <1>11, <1>12, Zenon DEF WaitingInv
<1>27. HandInv'
  <2> SUFFICES ASSUME NEW u \in Threads, NEW v, v = woken'[u]
               PROVE  /\ v # NULL <=> pc'[u] \in {"sr_ready", "cr_ready"}
                      /\ pc'[u] = "cr_ready" => pc'[v] = "fresh" /\ ~Running(v)'
                      /\ pc'[u] = "sr_ready" =>
                           /\ pc'[v] = "sa_again" /\ v \notin irq'
                           /\ sp'[v] \in {"pick", "ret"} /\ state'[v] = "SLEEPING"
                           /\ Running(v)' => sp'[v] = "pick"
    BY Zenon DEF HandInv
  <2>1. v = woken[u] /\ (v # NULL => v \in Threads /\ v # t)
    BY <1>10, <1>12 DEF InHand, TypeOK
  <2> QED
    BY <1>3, <1>11, <1>12, <2>1 DEF HandInv
<1>28. SchedLockInv'
  <2>1. \A d \in Cpus : d # c => ~Switching(d)
    BY <1>9, Zenon DEF SchedLockInv
  <2>2. \A d \in Cpus : ~Switching(d)'
    <3> SUFFICES ASSUME NEW d \in Cpus, cpu[d].thread # NULL PROVE ~Switching(d)'
      BY <1>2, Zenon DEF Switching
    <3>1. CASE d = c
      BY <1>1, <1>2, <1>8, <1>11, <1>12, <3>1, Zenon DEF Switching
    <3>2. CASE d # c
      <4>1. cpu[d].thread \in Threads /\ cpu[d].thread # t
        BY <1>8, <3>2, Zenon DEF TypeOK
      <4> QED
        BY <1>2, <1>11, <1>12, <2>1, <3>2, <4>1 DEF Switching
    <3> QED
      BY <3>1, <3>2, Zenon
  <2>3. \A u \in Threads : u # t => sp[u] \notin {"unlock", "pick"}
    <3> SUFFICES ASSUME NEW u \in Threads, u # t, sp[u] \in {"unlock", "pick"} PROVE FALSE
      BY Zenon
    <3>1. PICK d \in Cpus : cpu[d].thread = u
      BY Zenon DEF PlaceInv, ContextInv, Running
    <3>2. d # c /\ Switching(d)
      BY <1>1, <3>1, Zenon DEF Switching
    <3> QED
      BY <2>1, <3>2, Zenon
  <2> QED
    BY <1>8, <1>12, <2>2, <2>3, Zenon DEF SchedLockInv
<1>29. LkInv'
  BY <1>11, <1>12 DEF LkInv, HoldsLk, HoldLk, Owning
<1>30. DyingInv'
  <2>2. NULL \notin Threads
    BY Zenon
  <2> QED
    BY <1>3, <1>11, <1>12, <2>2 DEF DyingInv, TypeOK
<1>31. NoLostWakeup'
  BY <1>4, <1>11, <1>12, Zenon DEF NoLostWakeup
<1>32. DisjointInv'
  <2>1. ready_queue' = ready_queue /\ waiters' = waiters /\ woken' = woken
    BY <1>1, Zenon
  <2> QED
    BY <1>4, <2>1, Zenon DEF DisjointInv
<1> QED
  BY <1>20, <1>21, <1>22, <1>23, <1>24, <1>25, <1>26, <1>27, <1>28, <1>29, <1>30, <1>31, <1>32, Zenon

\* thread_cleanup frees a zombie.
LEMMA CleanupStep ==
  ASSUME IInv, NEW c \in Cpus, NEW t \in Threads, NEW z \in Workers, thread_cleanup(c, t, z)
  PROVE  IInv'
<1> USE ConstantsAssumption DEF IInv, Threads
<1>1. /\ cpu[c].thread = t /\ sp[t] = "out" /\ z \in dying[t] /\ cpu' = cpu
      /\ dying' = [dying EXCEPT ![t] = dying[t] \ {z}] /\ state' = [state EXCEPT ![z] = "UNSET"]
      /\ pc' = [pc EXCEPT ![z] = "none"] /\ sp' = [sp EXCEPT ![z] = "out"]
      /\ UNCHANGED <<ready_queue, sched_lock, lk, waiters, holder, arg, woken, irq>>
  BY Zenon DEF thread_cleanup, Goto, lockVars
<1>2. /\ cpu' = cpu /\ cpu' \in [Cpus -> CpuRecord]
      /\ \A d \in Cpus : cpu'[d].thread = cpu[d].thread
  BY <1>1, Zenon DEF TypeOK, CpuRecord
<1>3. \A u \in Threads : Running(u)' <=> Running(u)
  BY <1>2, RunningFrame
<1>8. /\ pc[z] = "exited" /\ sp[z] = "ret" /\ ~Running(z) /\ Running(t) /\ z # t
      /\ sched_lock # z /\ z \notin irq /\ dying[z] = {} /\ z \notin Cpus
      /\ \A u \in Threads : u # t => z \notin dying[u]
  BY <1>1 DEF DyingInv, Running, ContextInv
<1>9. z \notin Ready /\ z \notin Waiting /\ z \notin InHand /\ woken[z] = NULL
  BY <1>8, InHandFacts, Zenon DEF ReadyInv, WaitingInv, HandInv
<1>11. /\ sp'[z] = "out" /\ state'[z] = "UNSET" /\ pc'[z] = "none"
       /\ \A u \in Threads : u # z => sp'[u] = sp[u] /\ state'[u] = state[u] /\ pc'[u] = pc[u]
  BY <1>1, Zenon DEF TypeOK
<1>12. /\ arg' = arg /\ woken' = woken /\ irq' = irq /\ sched_lock' = sched_lock
       /\ lk' = lk /\ waiters' = waiters /\ holder' = holder
  BY <1>1, Zenon
<1>13. dying'[t] = dying[t] \ {z} /\ \A u \in Threads : u # t => dying'[u] = dying[u]
  BY <1>1, Zenon DEF TypeOK
<1>4. /\ Ready' = Ready /\ Waiting' = Waiting /\ InHand' = InHand
      /\ Ready \subseteq Workers /\ Waiting \subseteq Workers /\ InHand \subseteq Workers
  <2>1. Ready' = Ready /\ Waiting' = Waiting
    BY <1>1, Zenon DEF Ready, Waiting
  <2>2. InHand' = InHand
    BY <1>1, Zenon DEF InHand
  <2> QED
    BY <2>1, <2>2, ListTypes, Zenon
<1>20. TypeOK'
  BY <1>1, <1>2, Zenon DEF TypeOK, CpuRecord, Labels, States
<1>21. CpuInv'
  <2>1. \A d \in Cpus : pc'[d] = "none" <=> pc[d] = "none"
    BY <1>8, <1>11, Zenon
  <2> QED
    BY <1>2, <2>1, CpuFrame, Zenon
<1>22. NestingExact'
  <2>1. /\ cpu[c].thread = t /\ cpu[c].num_disabled = SpinDepth(pc[t], sp[t], arg[t])
        /\ cpu[c].num_disabled > 0 => cpu[c].level = "OFF"
    BY <1>1, Zenon DEF NestingExact
  <2>2. \A u \in Threads : Running(u) => pc'[u] = pc[u] /\ sp'[u] = sp[u] /\ arg'[u] = arg[u]
    BY <1>8, <1>11, <1>12, Zenon
  <2>3. pc'[t] = pc[t] /\ sp'[t] = sp[t] /\ arg'[t] = arg[t]
    BY <1>8, <2>2, Zenon
  <2> QED
    BY <1>2, <2>1, <2>2, <2>3, NestingFrame
<1>23. ContextInv'
  BY <1>8, <1>11, <1>12, <1>13 DEF ContextInv, Masked, SpinLk, HoldLk
<1>24. PlaceInv'
  BY <1>3, <1>8, <1>11, <1>12 DEF PlaceInv
<1>25. ReadyInv'
  BY <1>3, <1>4, <1>9, <1>11, Zenon DEF ReadyInv
<1>26. WaitingInv'
  BY <1>3, <1>4, <1>9, <1>11, <1>12 DEF WaitingInv
<1>27. HandInv'
  <2> SUFFICES ASSUME NEW u \in Threads, NEW v, v = woken'[u]
               PROVE  /\ v # NULL <=> pc'[u] \in {"sr_ready", "cr_ready"}
                      /\ pc'[u] = "cr_ready" => pc'[v] = "fresh" /\ ~Running(v)'
                      /\ pc'[u] = "sr_ready" =>
                           /\ pc'[v] = "sa_again" /\ v \notin irq'
                           /\ sp'[v] \in {"pick", "ret"} /\ state'[v] = "SLEEPING"
                           /\ Running(v)' => sp'[v] = "pick"
    BY Zenon DEF HandInv
  <2>1. v = woken[u] /\ (v # NULL => v \in Threads /\ v # z)
    BY <1>9, <1>12 DEF InHand, TypeOK
  <2> QED
    BY <1>3, <1>9, <1>11, <1>12, <2>1 DEF HandInv
<1>28. SchedLockInv'
  <2>1. \A d \in Cpus : Switching(d)' <=> Switching(d)
    <3> SUFFICES ASSUME NEW d \in Cpus PROVE Switching(d)' <=> Switching(d)
      BY Zenon
    <3>1. /\ cpu[d].thread = cpu'[d].thread /\ cpu[d].thread \in Threads \cup {NULL}
          /\ cpu[d].thread # z
      BY <1>2, <1>8, Zenon DEF TypeOK, Running
    <3> QED
      BY <1>11, <3>1, Zenon DEF Switching
  <2>2. sched_lock \in Threads \cup {NULL}
    BY Zenon DEF TypeOK
  <2> QED
    BY <1>8, <1>11, <1>12, <2>1, <2>2, Zenon DEF SchedLockInv
<1>29. LkInv'
  BY <1>8, <1>11, <1>12, Zenon DEF LkInv, HoldsLk, HoldLk, Owning
<1>30. DyingInv'
  <2> SUFFICES ASSUME NEW u \in Threads, NEW y \in dying'[u]
               PROVE  /\ pc'[y] = "exited" /\ sp'[y] = "ret" /\ state'[y] = "ZOMBIE" /\ ~Running(y)'
                      /\ \A v \in Threads : y \in dying'[v] => v = u
                      /\ sched_lock' = y => sp'[u] = "ret"
    BY Zenon DEF DyingInv
  <2>1. y \in dying[u] /\ y # z /\ y \in Threads
    <3>1. y \in dying[u] /\ y # z
      BY <1>8, <1>13, Zenon
    <3> QED
      BY <3>1, Zenon DEF TypeOK
  <2>2. u # z
    BY <1>8, <2>1, Zenon
  <2>3. \A v \in Threads : y \in dying'[v] => y \in dying[v]
    BY <1>13, Zenon
  <2> QED
    BY <1>3, <1>11, <1>12, <2>1, <2>2, <2>3 DEF DyingInv
<1>31. NoLostWakeup'
  BY <1>4, <1>8, <1>11, <1>12, Zenon DEF NoLostWakeup
<1>32. DisjointInv'
  <2>1. ready_queue' = ready_queue /\ waiters' = waiters /\ woken' = woken
    BY <1>1, Zenon
  <2> QED
    BY <1>4, <2>1, Zenon DEF DisjointInv
<1> QED
  BY <1>20, <1>21, <1>22, <1>23, <1>24, <1>25, <1>26, <1>27, <1>28, <1>29, <1>30, <1>31, <1>32, Zenon

\* The switch: the head of the ready queue, or else the idle thread, comes in.
LEMMA SchedPickStep ==
  ASSUME IInv, NEW c \in Cpus, NEW t \in Threads, SchedPick(c, t)
  PROVE  IInv'
<1> USE ConstantsAssumption DEF IInv, Threads
<1>1. /\ cpu[c].thread = t /\ sp[t] = "pick" /\ sp' = [sp EXCEPT ![t] = "ret"]
      /\ UNCHANGED <<sched_lock, lk, waiters, holder, pc, arg, woken, irq>>
  BY Zenon DEF SchedPick, lockVars
<1>18. PICK next : next = IF ready_queue # <<>> THEN Head(ready_queue) ELSE c
  BY Zenon
<1>8. /\ ready_queue' = (IF ready_queue # <<>> THEN Tail(ready_queue) ELSE ready_queue)
      /\ state' = [state EXCEPT ![next] = "RUNNING"]
      /\ cpu' = (IF next = t THEN cpu
                 ELSE [cpu EXCEPT ![c] = [cpu[c] EXCEPT !.thread = next, !.intr_enabled = 1]])
      /\ dying' = (IF next # t /\ state[t] = "ZOMBIE" /\ pc[next] # "fresh"
                   THEN [dying EXCEPT ![next] = dying[next] \cup {t}] ELSE dying)
  BY <1>18 DEF SchedPick, NextThread, Popped, Handover
<1>9. /\ Running(t) /\ t # NULL /\ t \in Workers \cup {c} /\ sched_lock = t /\ state[t] = arg[t]
      /\ \A d \in Cpus : cpu[d].thread = t => d = c
      /\ Switching(c) /\ pc[c] = "run"
  BY <1>1 DEF Running, CpuInv, SchedLockInv, PlaceInv, Switching, ContextInv
<1>10. \/ t \in irq /\ arg[t] = "READY" /\ pc[t] \notin Masked \cup {"none", "fresh", "exited"}
       \/ t \in Workers /\ t \notin irq /\ pc[t] = "sa_again" /\ arg[t] = "SLEEPING"
       \/ t \in Workers /\ t \notin irq /\ pc[t] = "exited" /\ arg[t] = "ZOMBIE"
  BY <1>1, Zenon DEF ContextInv
<1>11. /\ ready_queue' \in Seq(Workers) /\ NoRepeat(ready_queue') /\ Ready' = Ready \ {next}
       /\ next \in Ready \/ next = c
  <2>1. ready_queue \in Seq(Workers) /\ NoRepeat(ready_queue)
    BY Zenon DEF TypeOK, DisjointInv
  <2>2. CASE ready_queue = <<>>
    BY <1>8, <1>18, <2>1, <2>2, ListTypes, Zenon DEF Ready
  <2>3. CASE ready_queue # <<>>
    <3>1. ready_queue' = Tail(ready_queue) /\ next = Head(ready_queue)
      BY <1>8, <1>18, <2>3, Zenon
    <3> QED
      BY <2>1, <2>3, <3>1, ElemsTail, Zenon DEF Ready
  <2> QED
    BY <2>2, <2>3, Zenon
<1>12. /\ next \in Workers \cup {c} /\ next \in Threads /\ next # NULL
       /\ next \notin Waiting /\ next \notin InHand
       /\ pc[next] \notin {"none", "exited"}
       /\ (next # t => ~Running(next)) /\ (next = t => arg[t] = "READY")
  <2>1. CASE next \in Ready
    <3>1. Running(next) => next = t
      BY <1>9, <2>1, ListTypes, Zenon DEF ReadyInv, SchedLockInv
    <3> QED
      BY <1>9, <2>1, <3>1, ListTypes, Zenon DEF ReadyInv, DisjointInv
  <2>2. CASE next = c
    <3>1. c # t => ~Running(c)
      BY <1>1 DEF Running, CpuInv
    <3>2. c = t => arg[t] = "READY"
      BY <1>10, Zenon
    <3> QED
      BY <1>9, <2>2, <3>1, <3>2, ListTypes, Zenon
  <2> QED
    BY <1>11, <2>1, <2>2, Zenon
<1>13. next # t => \/ sp[next] = "ret" /\ pc[next] \notin Masked \cup {"none", "fresh", "exited"}
                   \/ sp[next] = "out" /\ pc[next] = "fresh"
  BY <1>12, Zenon DEF PlaceInv, ContextInv
<1>2. /\ cpu' \in [Cpus -> CpuRecord]
      /\ cpu'[c].thread = next /\ cpu'[c].num_disabled = cpu[c].num_disabled
      /\ cpu'[c].level = cpu[c].level
      /\ \A d \in Cpus : d # c => cpu'[d] = cpu[d]
  <2>1. cpu \in [Cpus -> CpuRecord] /\ cpu[c] \in CpuRecord
    BY Zenon DEF TypeOK, CpuRecord
  <2>2. CASE next = t
    BY <1>1, <1>8, <2>1, <2>2, Zenon
  <2>3. CASE next # t
    <3> DEFINE p == [cpu[c] EXCEPT !.thread = next, !.intr_enabled = 1]
    <3>1. /\ p \in CpuRecord /\ p.thread = next /\ p.num_disabled = cpu[c].num_disabled
          /\ p.level = cpu[c].level
      BY <1>12, <2>1, Zenon DEF CpuRecord
    <3>2. cpu' = [cpu EXCEPT ![c] = p]
      BY <1>8, <2>3, Zenon
    <3> HIDE DEF p
    <3> QED
      BY <2>1, <3>1, <3>2, Zenon
  <2> QED
    BY <2>2, <2>3, Zenon
<1>14. /\ sp'[t] = "ret" /\ sp[t] = "pick"
       /\ \A u \in Threads : u # t => sp'[u] = sp[u]
  BY <1>1, Zenon DEF TypeOK
<1>15. state'[next] = "RUNNING" /\ \A u \in Threads : u # next => state'[u] = state[u]
  BY <1>8, <1>12, Zenon DEF TypeOK
<1>16. /\ pc' = pc /\ arg' = arg /\ woken' = woken /\ irq' = irq
       /\ sched_lock' = sched_lock /\ lk' = lk /\ waiters' = waiters /\ holder' = holder
  BY <1>1, Zenon
<1>17. /\ \A u \in Threads : u # next => dying'[u] = dying[u]
       /\ \/ dying'[next] = dying[next]
          \/ /\ dying'[next] = dying[next] \cup {t} /\ next # t
             /\ state[t] = "ZOMBIE" /\ pc[next] # "fresh"
  BY <1>8, <1>12, Zenon DEF TypeOK
<1>3. \A u \in Threads : Running(u)' <=> (u = next \/ (Running(u) /\ u # t))
  BY <1>1, <1>2, <1>9 DEF Running
<1>4. /\ Waiting' = Waiting /\ InHand' = InHand
      /\ Ready \subseteq Workers /\ Waiting \subseteq Workers /\ InHand \subseteq Workers
  BY <1>16, ListTypes DEF Waiting, InHand
<1>20. TypeOK'
  <2>1. state' \in [Threads -> States]
    BY <1>8, <1>12 DEF TypeOK, States
  <2>2. sp' \in [Threads -> {"out", "spin", "unlock", "pick", "ret"}]
    BY <1>1, Zenon DEF TypeOK
  <2>3. dying' \in [Threads -> SUBSET Workers]
    <3>1. state[t] = "ZOMBIE" => t \in Workers
      BY <1>9, <1>10, Zenon
    <3> QED
      BY <1>8, <1>12, <3>1 DEF TypeOK
  <2> QED
    BY <1>2, <1>11, <1>16, <2>1, <2>2, <2>3, Zenon DEF TypeOK, CpuRecord
<1>21. CpuInv'
  <2>1. \A d \in Cpus : d # c => cpu[d].thread # next
    BY <1>9, <1>12, Zenon DEF Running
  <2> QED
    BY <1>2, <1>9, <1>12, <1>16, <2>1 DEF CpuInv
<1>22. NestingExact'
  <2> SUFFICES ASSUME NEW d \in Cpus, NEW u, u = cpu'[d].thread, u # NULL
               PROVE  /\ cpu'[d].num_disabled = SpinDepth(pc'[u], sp'[u], arg'[u])
                      /\ cpu'[d].num_disabled > 0 => cpu'[d].level = "OFF"
    BY Zenon DEF NestingExact
  <2>1. CASE d = c
    <3>1. /\ cpu[c].num_disabled = SpinDepth(pc[t], sp[t], arg[t])
          /\ cpu[c].num_disabled > 0 => cpu[c].level = "OFF"
      BY <1>1, <1>9, Zenon DEF NestingExact
    <3>2. SpinDepth(pc[t], sp[t], arg[t]) = 1
      BY <1>10, <1>14 DEF SpinDepth, Masked, SpinLk, HoldLk
    <3>3. u = next /\ SpinDepth(pc'[u], sp'[u], arg'[u]) = 1
      BY <1>2, <1>10, <1>12, <1>13, <1>14, <1>16, <2>1 DEF SpinDepth, Masked, SpinLk, HoldLk
    <3> QED
      BY <1>2, <2>1, <3>1, <3>2, <3>3, Zenon
  <2>2. CASE d # c
    <3>1. u = cpu[d].thread /\ u \in Threads /\ u # t /\ cpu'[d] = cpu[d]
      BY <1>2, <1>9, <2>2 DEF TypeOK
    <3>2. pc'[u] = pc[u] /\ sp'[u] = sp[u] /\ arg'[u] = arg[u]
      BY <1>14, <1>16, <3>1, Zenon
    <3> QED
      BY <3>1, <3>2, Zenon DEF NestingExact
  <2> QED
    BY <2>1, <2>2, Zenon
<1>23. ContextInv'
  <2>1. \A u \in Threads : dying'[u] # {} =>
                \/ dying[u] # {}
                \/ u = next /\ pc[next] \notin Masked \cup {"none", "fresh", "exited"}
    BY <1>12, <1>13, <1>17, Zenon
  <2> QED
    BY <1>14, <1>16, <2>1 DEF ContextInv, Masked, SpinLk, HoldLk
<1>24. PlaceInv'
  <2>1. \A u \in Threads : u # t /\ u # next => /\ sp'[u] = sp[u] /\ state'[u] = state[u]
                                               /\ (Running(u)' <=> Running(u))
    BY <1>3, <1>14, <1>15, Zenon
  <2>2. Running(next)' /\ state'[next] = "RUNNING" /\ sp'[next] \in {"ret", "out"}
    BY <1>3, <1>12, <1>13, <1>14, <1>15, Zenon
  <2>3. next # t => ~Running(t)' /\ sp'[t] = "ret"
    BY <1>3, <1>14, Zenon
  <2> SUFFICES ASSUME NEW u \in Threads
               PROVE  /\ Running(u)' => pc'[u] # "none"
                      /\ u \in Workers /\ Running(u)' /\ sp'[u] \in {"out", "spin", "ret"} => state'[u] = "RUNNING"
                      /\ ~Running(u)' => sp'[u] = "ret" \/ pc'[u] \in {"none", "fresh"}
                      /\ Running(u)' /\ sp'[u] = "ret" => pc'[u] # "exited"
                      /\ sp'[u] \in {"unlock", "pick"} => state'[u] = arg'[u]
    BY Zenon DEF PlaceInv
  <2>4. CASE u = next
    BY <1>12, <1>16, <2>2, <2>4, Zenon
  <2>5. CASE u = t /\ u # next
    BY <2>3, <2>5
  <2>6. CASE u # t /\ u # next
    BY <1>16, <2>1, <2>6, Zenon DEF PlaceInv
  <2> QED
    BY <2>4, <2>5, <2>6, Zenon
<1>25. ReadyInv'
  BY <1>3, <1>4, <1>11, <1>14, <1>15, <1>16, Zenon DEF ReadyInv
<1>26. WaitingInv'
  <2>1. t \in Waiting => next # t /\ state'[t] = "SLEEPING" /\ ~Running(t)'
    BY <1>3, <1>9, <1>10, <1>12, <1>15, Zenon DEF WaitingInv
  <2>2. \A u \in Waiting : u # t => sp'[u] = sp[u] /\ state'[u] = state[u] /\ (Running(u)' <=> Running(u))
    BY <1>3, <1>4, <1>12, <1>14, <1>15, Zenon
  <2>3. \A u \in Threads : sp'[u] \in {"spin", "unlock"} => sp[u] \in {"spin", "unlock"}
    BY <1>14, Zenon
  <2> QED
    BY <1>4, <1>14, <1>16, <2>1, <2>2, <2>3 DEF WaitingInv
<1>27. HandInv'
  <2> SUFFICES ASSUME NEW u \in Threads, NEW v, v = woken'[u]
               PROVE  /\ v # NULL <=> pc'[u] \in {"sr_ready", "cr_ready"}
                      /\ pc'[u] = "cr_ready" => pc'[v] = "fresh" /\ ~Running(v)'
                      /\ pc'[u] = "sr_ready" =>
                           /\ pc'[v] = "sa_again" /\ v \notin irq'
                           /\ sp'[v] \in {"pick", "ret"} /\ state'[v] = "SLEEPING"
                           /\ Running(v)' => sp'[v] = "pick"
    BY Zenon DEF HandInv
  <2>1. v = woken[u] /\ (v # NULL => v \in Threads /\ v # next)
    BY <1>12, <1>16 DEF InHand, TypeOK
  <2>2. v # NULL => state'[v] = state[v] /\ (Running(v)' <=> (Running(v) /\ v # t))
    BY <1>3, <1>15, <2>1, Zenon
  <2>3. v # NULL /\ v # t => sp'[v] = sp[v]
    BY <1>14, <2>1, Zenon
  <2>4. woken[u] # NULL <=> pc[u] \in {"sr_ready", "cr_ready"}
    BY Zenon DEF HandInv
  <2>5. CASE v = NULL
    BY <1>16, <2>1, <2>4, <2>5, Zenon
  <2>6. CASE v # NULL
    BY <1>14, <1>16, <2>1, <2>2, <2>3, <2>6 DEF HandInv
  <2> QED
    BY <2>5, <2>6, Zenon
<1>28. SchedLockInv'
  <2>1. \A d \in Cpus : d # c => ~Switching(d)
    BY <1>9, Zenon DEF SchedLockInv
  <2>2. Switching(c)'
    BY <1>2, <1>12, <1>13, <1>14, <1>16, Zenon DEF Switching
  <2>3. \A d \in Cpus : d # c => ~Switching(d)'
    <3> SUFFICES ASSUME NEW d \in Cpus, d # c, cpu[d].thread # NULL PROVE ~Switching(d)'
      BY <1>2 DEF Switching
    <3>1. cpu[d].thread \in Threads /\ cpu[d].thread # t /\ cpu'[d].thread = cpu[d].thread
      BY <1>2, <1>9, Zenon DEF TypeOK
    <3> QED
      BY <1>14, <1>16, <2>1, <3>1, Zenon DEF Switching
  <2>4. \A u \in Threads : sp'[u] \notin {"unlock", "pick"}
    BY <1>9, <1>14, Zenon DEF SchedLockInv
  <2> QED
    BY <1>9, <1>14, <1>16, <2>2, <2>3, <2>4, Zenon DEF SchedLockInv
<1>29. LkInv'
  BY <1>14, <1>16, Zenon DEF LkInv, HoldsLk
<1>30. DyingInv'
  <2> SUFFICES ASSUME NEW u \in Threads, NEW y \in dying'[u]
               PROVE  /\ pc'[y] = "exited" /\ sp'[y] = "ret" /\ state'[y] = "ZOMBIE" /\ ~Running(y)'
                      /\ \A v \in Threads : y \in dying'[v] => v = u
                      /\ sched_lock' = y => sp'[u] = "ret"
    BY Zenon DEF DyingInv
  <2>1. \A v \in Threads : t \notin dying[v]
    BY <1>9, Zenon DEF DyingInv
  <2>2. \A v \in Threads : \A x \in dying'[v] : x \in dying[v] \/ (x = t /\ v = next)
    BY <1>17, Zenon
  <2>3. CASE y = t
    <3>1. u = next /\ next # t /\ state[t] = "ZOMBIE" /\ pc[next] # "fresh"
      BY <1>17, <2>1, <2>2, <2>3, Zenon
    <3>2. pc[t] = "exited" /\ state'[t] = "ZOMBIE" /\ ~Running(t)'
      BY <1>3, <1>9, <1>10, <1>15, <3>1, Zenon
    <3>3. sp'[u] = "ret"
      BY <1>12, <1>13, <1>14, <3>1, Zenon
    <3> QED
      BY <1>14, <1>16, <2>1, <2>2, <2>3, <3>1, <3>2, <3>3, Zenon
  <2>4. CASE y # t
    <3>1. y \in dying[u] /\ y \in Threads /\ \A v \in Threads : y \in dying'[v] => y \in dying[v]
      BY <2>2, <2>4, Zenon DEF TypeOK
    <3>2. /\ pc[y] = "exited" /\ sp[y] = "ret" /\ state[y] = "ZOMBIE" /\ ~Running(y)
          /\ \A v \in Threads : y \in dying[v] => v = u
      BY <3>1, Zenon DEF DyingInv
    <3>3. y # next
      BY <1>12, <3>2, Zenon
    <3> QED
      BY <1>3, <1>9, <1>14, <1>15, <1>16, <2>4, <3>1, <3>2, <3>3
  <2> QED
    BY <2>3, <2>4, Zenon
<1>31. NoLostWakeup'
  BY <1>4, <1>15, <1>16, Zenon DEF NoLostWakeup
<1>32. DisjointInv'
  BY <1>4, <1>11, <1>16, Zenon DEF DisjointInv
<1> QED
  BY <1>20, <1>21, <1>22, <1>23, <1>24, <1>25, <1>26, <1>27, <1>28, <1>29, <1>30, <1>31, <1>32, Zenon

-----------------------------------------------------------------------------
(* The invariant holds initially and is preserved by every step.           *)

\* Booting: one processor up on its idle thread, one new thread in the ready queue.
LEMMA InitInv ==
  ASSUME Init
  PROVE  IInv
<1> USE ConstantsAssumption DEF Threads
<1>1. PICK boot \in Cpus, first \in Workers :
        /\ cpu = [c \in Cpus |-> IF c = boot THEN IntrOn([CpuOff EXCEPT !.thread = boot]) ELSE CpuOff]
        /\ state = [t \in Threads |-> IF t = first THEN "READY" ELSE "UNSET"]
        /\ pc = [t \in Threads |-> CASE t = boot -> "run" [] t = first -> "fresh"
                                     [] OTHER -> "none"]
        /\ ready_queue = <<first>> /\ sched_lock = NULL /\ lk = NULL /\ waiters = <<>>
        /\ holder = NULL /\ sp = [t \in Threads |-> "out"] /\ arg = [t \in Threads |-> "READY"]
        /\ woken = [t \in Threads |-> NULL] /\ dying = [t \in Threads |-> {}] /\ irq = {}
  BY DEF Init
<1>2. /\ boot # first /\ boot \notin Workers /\ first \notin Cpus
      /\ pc[boot] = "run" /\ state[boot] = "UNSET"
      /\ pc[first] = "fresh" /\ state[first] = "READY"
      /\ \A t \in Threads : t # boot /\ t # first => pc[t] = "none" /\ state[t] = "UNSET"
  BY <1>1, Zenon
<1>3. /\ cpu \in [Cpus -> CpuRecord]
      /\ cpu[boot].thread = boot /\ cpu[boot].num_disabled = 0
      /\ \A c \in Cpus : c # boot => cpu[c].thread = NULL /\ cpu[c].num_disabled = 0
  <2> DEFINE p == [CpuOff EXCEPT !.thread = boot]
  <2>1. CpuOff \in CpuRecord /\ CpuOff.thread = NULL /\ CpuOff.num_disabled = 0
    BY Zenon DEF CpuOff, CpuRecord
  <2>2. p \in CpuRecord /\ p.thread = boot /\ p.num_disabled = 0
    BY Zenon DEF CpuOff, CpuRecord
  <2>3. cpu = [c \in Cpus |-> IF c = boot THEN IntrOn(p) ELSE CpuOff]
    BY <1>1, Zenon
  <2> HIDE DEF p
  <2>4. IntrOn(p) \in CpuRecord /\ IntrOn(p).thread = boot /\ IntrOn(p).num_disabled = 0
    BY <2>2, IntrOnFacts, Zenon
  <2> QED
    BY <2>1, <2>3, <2>4, Zenon
<1>4. \A t \in Threads : sp[t] = "out" /\ arg[t] = "READY" /\ woken[t] = NULL /\ dying[t] = {}
  BY <1>1, Zenon
<1>5. Ready = {first} /\ Waiting = {} /\ InHand = {}
  <2>1. Ready = {first} /\ Waiting = {}
    BY <1>1 DEF Ready, Waiting, Elems
  <2>2. InHand = {}
    BY <1>4, Zenon DEF InHand
  <2> QED
    BY <2>1, <2>2, Zenon
<1>6. \A t \in Threads : Running(t) <=> t = boot
  BY <1>3, Zenon DEF Running
<1>7. \A c \in Cpus : ~Switching(c)
  BY <1>2, <1>3, <1>4 DEF Switching
<1>10. TypeOK
  <2>1. state \in [Threads -> States]
    BY <1>1, Zenon DEF States
  <2>2. pc \in [Threads -> Labels]
    BY <1>1, Zenon DEF Labels
  <2>3. ready_queue \in Seq(Workers) /\ waiters \in Seq(Workers)
    BY <1>1
  <2> QED
    BY <1>1, <1>3, <2>1, <2>2, <2>3, Zenon DEF TypeOK, CpuRecord
<1>11. CpuInv
  BY <1>2, <1>3, Zenon DEF CpuInv
<1>12. NestingExact
  BY <1>2, <1>3, <1>4 DEF NestingExact, SpinDepth, SpinLk, HoldLk
<1>13. ContextInv
  BY <1>1, <1>2, <1>4 DEF ContextInv
<1>14. PlaceInv
  BY <1>2, <1>4, <1>6, Zenon DEF PlaceInv
<1>15. ReadyInv
  BY <1>2, <1>5, <1>6, Zenon DEF ReadyInv
<1>16. WaitingInv
  BY <1>4, <1>5, Zenon DEF WaitingInv
<1>17. HandInv
  <2>1. \A t \in Threads : pc[t] \notin {"sr_ready", "cr_ready"}
    BY <1>2, Zenon
  <2> QED
    BY <1>4, <2>1, Zenon DEF HandInv
<1>18. SchedLockInv
  BY <1>1, <1>4, <1>7, Zenon DEF SchedLockInv
<1>19. LkInv
  <2>1. \A t \in Workers : pc[t] \notin HoldLk \cup Owning /\ t # NULL /\ sp[t] = "out"
    BY <1>2, <1>4, Zenon DEF HoldLk, Owning
  <2> QED
    BY <1>1, <2>1, Zenon DEF LkInv, HoldsLk
<1>20. DyingInv
  BY <1>4, Zenon DEF DyingInv
<1>21. NoLostWakeup
  <2>1. \A t \in Threads : state[t] # "SLEEPING"
    BY <1>2, Zenon
  <2> QED
    BY <1>1, <2>1, Zenon DEF NoLostWakeup
<1>22. DisjointInv
  <2>1. NoRepeat(ready_queue) /\ NoRepeat(waiters)
    BY <1>1 DEF NoRepeat
  <2> QED
    BY <1>4, <1>5, <2>1, Zenon DEF DisjointInv
<1> QED
  BY <1>10, <1>11, <1>12, <1>13, <1>14, <1>15, <1>16, <1>17, <1>18, <1>19, <1>20, <1>21, <1>22, Zenon DEF IInv

\* A thread inside a lock operation or in thread_create is a worker.
LEMMA WorkerAt ==
  ASSUME IInv, NEW c \in Cpus, NEW t \in Threads, NEW l, At(c, t, l), l \notin {"none", "run"}
  PROVE  t \in Workers
  BY Zenon DEF IInv, ContextInv, At, Threads

\* The scheduler's steps preserve the invariant.
LEMMA SchedStepInv ==
  ASSUME IInv, NEW c \in Cpus, NEW t \in Threads, SchedStep(c, t)
  PROVE  IInv'
<1>1. CASE SchedAcquire(c, t)
  BY <1>1, SchedAcquireStep, Zenon
<1>2. CASE SchedUnlock(c, t)
  BY <1>2, SchedUnlockStep, Zenon
<1>3. CASE SchedPick(c, t)
  BY <1>3, SchedPickStep, Zenon
<1>4. CASE SchedRelease(c, t)
  BY <1>4, SchedReleaseStep, Zenon
<1>5. CASE thread_start(c, t)
  BY <1>5, ThreadStartStep, Zenon
<1>6. CASE \E z \in Workers : thread_cleanup(c, t, z)
  BY <1>6, CleanupStep, Zenon
<1>7. CASE trapret(c, t)
  BY <1>7, TrapretStep, Zenon
<1> QED
  BY <1>1, <1>2, <1>3, <1>4, <1>5, <1>6, <1>7, Zenon DEF SchedStep

\* The steps of the lock operations preserve the invariant.
LEMMA LockStepInv ==
  ASSUME IInv, NEW c \in Cpus, NEW t \in Threads, LockStep(c, t) \/ spinlock_acquire(c, t)
  PROVE  IInv'
<1>1. CASE Reacquire(c, t)
  <2>1. t \in Workers
    BY <1>1, WorkerAt, Zenon DEF Reacquire, CallLk
  <2> QED
    BY <1>1, <2>1, CallLkStep, Zenon DEF Reacquire
<1>2. CASE Take(c, t)
  <2>1. t \in Workers
    BY <1>2, WorkerAt, Zenon DEF Take
  <2> QED
    BY <1>2, <2>1, TakeStep, Zenon
<1>3. CASE Busy(c, t)
  <2>1. t \in Workers
    BY <1>3, WorkerAt, Zenon DEF Busy
  <2> QED
    BY <1>3, <2>1, BusyStep, Zenon
<1>4. CASE condvar_wait(c, t)
  <2>1. t \in Workers
    BY <1>4, WorkerAt, Zenon DEF condvar_wait
  <2> QED
    BY <1>4, <2>1, WaitStep, Zenon
<1>5. CASE sleeplock_release(c, t)
  <2>1. t \in Workers
    BY <1>5, WorkerAt, Zenon DEF sleeplock_release, CallLk
  <2> QED
    BY <1>5, <2>1, CallLkStep, Zenon DEF sleeplock_release
<1>6. CASE condvar_signal(c, t)
  <2>1. t \in Workers
    BY <1>6, WorkerAt, Zenon DEF condvar_signal
  <2>2. CASE waiters = <<>>
    BY <1>6, <2>1, <2>2, SignalNoneStep, Zenon DEF condvar_signal
  <2>3. CASE waiters # <<>>
    BY <1>6, <2>1, <2>3, SignalStep, Zenon DEF condvar_signal
  <2> QED
    BY <2>2, <2>3, Zenon
<1>7. CASE sched_ready(c, t)
  <2>1. t \in Workers
    BY <1>7, WorkerAt, Zenon DEF sched_ready
  <2>2. CASE At(c, t, "sr_ready") /\ Goto(t, "sr_unlock")
    BY <1>7, <2>1, <2>2, ReadyStep, Zenon DEF sched_ready
  <2>3. CASE At(c, t, "cr_ready") /\ Goto(t, "run")
    BY <1>7, <2>1, <2>3, ReadyStep, Zenon DEF sched_ready
  <2> QED
    BY <1>7, <2>2, <2>3, Zenon DEF sched_ready
<1>8. CASE spinlock_release(c, t)
  <2>1. t \in Workers
    BY <1>8, WorkerAt, Zenon DEF spinlock_release
  <2> QED
    BY <1>8, <2>1, UnlockStep, Zenon
<1>9. CASE spinlock_acquire(c, t)
  <2>1. PICK l \in SpinLk :
          /\ At(c, t, l)
          /\ Goto(t, CASE l = "sa_spin" -> "sa_test"
                       [] l = "ta_spin" -> "ta_test"
                       [] l = "sr_spin" -> "sr_signal")
    BY <1>9, Zenon DEF spinlock_acquire
  <2>2. t \in Workers
    BY <2>1, WorkerAt, Zenon DEF SpinLk
  <2>3. /\ lk = NULL /\ lk' = t
        /\ UNCHANGED <<cpu, schedVars, waiters, holder, sp, arg, woken, dying, irq>>
    BY <1>9, Zenon DEF spinlock_acquire
  <2>4. CASE l = "sa_spin"
    <3>1. At(c, t, "sa_spin") /\ Goto(t, "sa_test")
      BY <2>1, <2>4, Zenon
    <3> QED
      BY <2>2, <2>3, <3>1, AcquireStep, Zenon
  <2>5. CASE l = "ta_spin"
    <3>1. At(c, t, "ta_spin") /\ Goto(t, "ta_test")
      BY <2>1, <2>5, Zenon
    <3> QED
      BY <2>2, <2>3, <3>1, AcquireStep, Zenon
  <2>6. CASE l = "sr_spin"
    <3>1. At(c, t, "sr_spin") /\ Goto(t, "sr_signal")
      BY <2>1, <2>6, Zenon
    <3> QED
      BY <2>2, <2>3, <3>1, AcquireStep, Zenon
  <2> QED
    BY <2>1, <2>4, <2>5, <2>6, Zenon DEF SpinLk
<1> QED
  BY <1>1, <1>2, <1>3, <1>4, <1>5, <1>6, <1>7, <1>8, <1>9, Zenon DEF LockStep

\* The calls a worker chooses to make preserve the invariant.
LEMMA ChoiceInv ==
  ASSUME IInv, NEW c \in Cpus, NEW t \in Threads, Choice(c, t)
  PROVE  IInv'
<1>1. CASE sleeplock_acquire(c, t)
  BY <1>1, CallLkStep, Zenon DEF sleeplock_acquire
<1>2. CASE sleeplock_try_acquire(c, t)
  BY <1>2, CallLkStep, ConstantsAssumption, Zenon DEF sleeplock_try_acquire
<1>3. CASE thread_exit(c, t)
  <2>1. t \in Workers
    BY <1>3, Zenon DEF thread_exit
  <2> QED
    BY <1>3, <2>1, ExitStep, Zenon
<1>4. CASE \E n \in Workers : thread_create(c, t, n)
  <2>1. PICK n \in Workers : thread_create(c, t, n)
    BY <1>4, Zenon
  <2>2. t \in Workers
    BY <2>1, Zenon DEF thread_create
  <2> QED
    BY <2>1, <2>2, CreateStep, Zenon
<1> QED
  BY <1>1, <1>2, <1>3, <1>4, Zenon DEF Choice

\* A stuttering step preserves the invariant.
LEMMA StutterInv ==
  ASSUME IInv, UNCHANGED vars
  PROVE  IInv'
<1> USE DEF IInv
<1>1. TypeOK'
  BY Zenon DEF vars, TypeOK
<1>2. CpuInv' /\ NestingExact'
  BY Zenon DEF vars, CpuInv, NestingExact
<1>3. ContextInv' /\ PlaceInv'
  BY DEF vars, ContextInv, PlaceInv, Running
<1>4. Ready' = Ready /\ Waiting' = Waiting /\ InHand' = InHand
  BY Zenon DEF vars, Ready, Waiting, InHand
<1>5. ReadyInv' /\ WaitingInv' /\ HandInv'
  BY <1>4 DEF vars, ReadyInv, WaitingInv, HandInv, Running
<1>6. SchedLockInv'
  BY Zenon DEF vars, SchedLockInv, Switching
<1>7. LkInv' /\ DyingInv'
  BY DEF vars, LkInv, HoldsLk, DyingInv, Running
<1>8. NoLostWakeup' /\ DisjointInv'
  BY <1>4, Zenon DEF vars, NoLostWakeup, DisjointInv
<1> QED
  BY <1>1, <1>2, <1>3, <1>5, <1>6, <1>7, <1>8, Zenon

-----------------------------------------------------------------------------
\* Every state the kernel reaches, with any number of processors and threads,
\* satisfies the inductive invariant: sched.c, synch.c, thread.c and the timer keep
\* lists, locks, thread states and interrupt nesting consistent with each other.
THEOREM Invariance == Spec => []IInv
<1>1. Init => IInv
  BY InitInv, Zenon
<1>2. IInv /\ [Next]_vars => IInv'
  <2> SUFFICES ASSUME IInv, [Next]_vars PROVE IInv'
    BY Zenon
  <2>1. CASE UNCHANGED vars
    BY <2>1, StutterInv, Zenon
  <2>2. CASE \E c \in Cpus : sched_start_ap(c)
    BY <2>2, StartApStep, Zenon
  <2>3. CASE \E c \in Cpus, t \in Threads :
               \/ SchedStep(c, t) \/ LockStep(c, t) \/ spinlock_acquire(c, t)
               \/ Choice(c, t) \/ timer_trap_handler(c, t)
    BY <2>3, SchedStepInv, LockStepInv, ChoiceInv, TimerStep, Zenon
  <2> QED
    BY <2>1, <2>2, <2>3, Zenon DEF Next
<1> QED
  BY <1>1, <1>2, PTL DEF Spec

\* The state variables keep their types.
THEOREM TypeCorrect == Spec => []TypeOK
<1>1. IInv => TypeOK
  BY Zenon DEF IInv
<1> QED
  BY <1>1, Invariance, PTL

\* At most one thread owns the sleeplock (sleeplock_acquire, sleeplock_release).
THEOREM SleeplockExclusive == Spec => []MutualExclusion
<1>1. IInv => MutualExclusion
  BY Zenon DEF IInv, LkInv, MutualExclusion
<1> QED
  BY <1>1, Invariance, PTL

\* num_disabled of a processor is the number of spinlocks its current thread holds
\* or spins for, across preemption and migration (intr_set_level).
THEOREM InterruptNesting == Spec => []NestingExact
<1>1. IInv => NestingExact
  BY Zenon DEF IInv
<1> QED
  BY <1>1, Invariance, PTL

\* A sleeping thread can still be woken, and a free sleeplock with waiters has a
\* waker under way (condvar_wait, condvar_signal, sched_sched).
THEOREM NoWakeupLost == Spec => []NoLostWakeup
<1>1. IInv => NoLostWakeup
  BY Zenon DEF IInv
<1> QED
  BY <1>1, Invariance, PTL

\* A processor that holds a spinlock has its interrupts off.
LEMMA HolderMasked ==
  ASSUME IInv, NEW c \in Cpus, NEW t \in Threads, cpu[c].thread = t,
         \/ pc[t] \in SpinLk \cup HoldLk \cup {"fresh", "cr_ready"}
         \/ sp[t] # "out"
  PROVE  cpu[c].level = "OFF"
<1>1. /\ cpu[c].num_disabled = SpinDepth(pc[t], sp[t], arg[t])
      /\ cpu[c].num_disabled > 0 => cpu[c].level = "OFF"
  BY ConstantsAssumption, Zenon DEF IInv, NestingExact, Threads
<1>2. SpinDepth(pc[t], sp[t], arg[t]) > 0
  BY DEF SpinDepth
<1> QED
  BY <1>1, <1>2, Zenon

\* Whoever holds a spinlock is on a processor with interrupts off, and sched_lock is
\* held by exactly the processor that is switching (spinlock_acquire, sched_sched).
THEOREM SpinlockHolderRuns == Spec => []HolderRuns
<1>1. IInv => HolderRuns
  <2> SUFFICES ASSUME IInv PROVE HolderRuns
    BY Zenon
  <2> USE ConstantsAssumption DEF IInv, Threads
  <2>1. lk # NULL => \E c \in Cpus : cpu[c].thread = lk /\ cpu[c].level = "OFF"
    <3> SUFFICES ASSUME lk # NULL PROVE \E c \in Cpus : cpu[c].thread = lk /\ cpu[c].level = "OFF"
      BY Zenon
    <3>1. lk \in Workers /\ (pc[lk] \in HoldLk \/ sp[lk] \in {"spin", "unlock"})
      BY Zenon DEF TypeOK, LkInv, HoldsLk
    <3>2. Running(lk)
      BY <3>1, Zenon DEF PlaceInv, ContextInv, Masked, HoldLk
    <3>3. PICK c \in Cpus : cpu[c].thread = lk
      BY <3>2, Zenon DEF Running
    <3> QED
      BY <3>1, <3>3, HolderMasked, Zenon
  <2>2. \A c \in Cpus : Switching(c) => cpu[c].level = "OFF"
    <3> SUFFICES ASSUME NEW c \in Cpus, Switching(c) PROVE cpu[c].level = "OFF"
      BY Zenon
    <3>1. /\ cpu[c].thread \in Threads
          /\ sp[cpu[c].thread] # "out" \/ pc[cpu[c].thread] = "fresh"
      BY Zenon DEF Switching, TypeOK
    <3> QED
      BY <3>1, HolderMasked, Zenon
  <2> QED
    BY <2>1, <2>2, Zenon DEF HolderRuns, SchedLockInv
<1> QED
  BY <1>1, Invariance, PTL

\* A thread structure is linked in at most one list, once, and never as a zombie or
\* a free structure (thread->node in sched.c and synch.c).
THEOREM ListsDisjoint == Spec => []OneList
<1>1. IInv => OneList
  <2> SUFFICES ASSUME IInv PROVE OneList
    BY Zenon
  <2> USE ConstantsAssumption DEF IInv, Threads
  <2>1. \A t \in Ready : state[t] \notin {"ZOMBIE", "UNSET"}
    BY Zenon DEF ReadyInv
  <2>2. \A t \in Waiting : state[t] \notin {"ZOMBIE", "UNSET"}
    <3> SUFFICES ASSUME NEW t \in Waiting PROVE state[t] \in {"RUNNING", "SLEEPING"}
      BY Zenon
    <3>1. t \in Workers /\ pc[t] = "sa_again" /\ t \notin irq /\ sp[t] \in {"spin", "unlock", "pick", "ret"}
      BY ListTypes DEF WaitingInv, TypeOK
    <3>2. arg[t] = "SLEEPING"
      BY <3>1, Zenon DEF ContextInv
    <3> QED
      BY <3>1, <3>2, Zenon DEF PlaceInv, WaitingInv
  <2> QED
    BY <2>1, <2>2, Zenon DEF OneList, DisjointInv
<1> QED
  BY <1>1, Invariance, PTL

\* A thread is on one processor at a time (sched_sched, cpu_switch_thread).
THEOREM ThreadOnOneProcessor == Spec => []OneProcessor
<1>1. IInv => OneProcessor
  <2> SUFFICES ASSUME IInv, NEW c \in Cpus, NEW d \in Cpus
               PROVE  /\ (cpu[c].thread # NULL /\ cpu[c].thread = cpu[d].thread) => c = d
                      /\ cpu[c].thread \in Ready => sp[cpu[c].thread] = "pick"
    BY Zenon DEF OneProcessor
  <2> QED
    BY Zenon DEF IInv, CpuInv, ReadyInv, Running
<1> QED
  BY <1>1, Invariance, PTL

\* thread_cleanup frees a stack that nobody uses, once.
THEOREM ZombieCleanupSafe == Spec => []CleanupSafe
<1>1. IInv => CleanupSafe
  <2> SUFFICES ASSUME IInv, NEW t \in Threads, NEW z \in dying[t]
               PROVE  /\ state[z] = "ZOMBIE" /\ z \notin Ready \cup Waiting \cup InHand
                      /\ \A c \in Cpus : cpu[c].thread # z
                      /\ \A u \in Threads \ {t} : z \notin dying[u]
    BY Zenon DEF CleanupSafe
  <2> USE DEF IInv
  <2>1. /\ state[z] = "ZOMBIE" /\ pc[z] = "exited" /\ ~Running(z)
        /\ \A u \in Threads : z \in dying[u] => u = t
    BY Zenon DEF DyingInv
  <2>2. z \notin Ready /\ z \notin Waiting /\ z \notin InHand
    BY <2>1, InHandFacts, Zenon DEF ReadyInv, WaitingInv
  <2> QED
    BY <2>1, <2>2, Zenon DEF Running
<1> QED
  BY <1>1, Invariance, PTL

\* The assertions of spinlock_acquire, spinlock_release, sched, cpu_switch_thread and
\* thread_start never fail.
THEOREM AssertionsHold == Spec => []KassertsHold
<1>1. IInv => KassertsHold
  <2> SUFFICES ASSUME IInv, NEW c \in Cpus, NEW t, t = cpu[c].thread, t # NULL
               PROVE  /\ pc[t] \in SpinLk /\ sp[t] = "out" => lk # t
                      /\ sp[t] = "spin" => sched_lock # t
                      /\ pc[t] \in HoldLk /\ sp[t] = "out" /\ t \notin irq => lk = t
                      /\ sp[t] = "pick" => /\ cpu[c].level = "OFF"
                                           /\ ready_queue # <<>> => state[Head(ready_queue)] = "READY"
                      /\ pc[t] = "fresh" => cpu[c].level = "OFF"
    BY Zenon DEF KassertsHold
  <2> USE ConstantsAssumption DEF IInv, Threads
  <2>1. t \in Threads
    BY Zenon DEF TypeOK
  <2>2. pc[t] \in SpinLk /\ sp[t] = "out" => lk # t
    <3>1. lk = t => t \in Workers
      BY Zenon DEF TypeOK
    <3> QED
      BY <3>1, Zenon DEF LkInv, HoldsLk, SpinLk, HoldLk
  <2>3. sp[t] = "spin" => sched_lock # t
    BY Zenon DEF SchedLockInv
  <2>4. pc[t] \in HoldLk => lk = t
    <3>1. pc[t] \in HoldLk => t \in Workers
      BY <2>1, Zenon DEF ContextInv, HoldLk
    <3> QED
      BY <3>1, Zenon DEF LkInv, HoldsLk
  <2>5. sp[t] = "pick" \/ pc[t] = "fresh" => cpu[c].level = "OFF"
    BY <2>1, HolderMasked, Zenon
  <2>6. ready_queue # <<>> => state[Head(ready_queue)] = "READY"
    <3>1. ready_queue # <<>> => Head(ready_queue) \in Ready
      BY ElemsTail, Zenon DEF TypeOK, DisjointInv, Ready
    <3> QED
      BY <3>1, Zenon DEF ReadyInv
  <2> QED
    BY <2>2, <2>3, <2>4, <2>5, <2>6, Zenon
<1> QED
  BY <1>1, Invariance, PTL
=============================================================================
