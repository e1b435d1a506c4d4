-------------------------- MODULE SchedLockProofs ---------------------------
(***************************************************************************)
(* Lemmas about lists, processors and what a step leaves alone; the         *)
(* operations of Sched on lk and the sleeplock, waiting on the condition    *)
(* variable and the wakeup of a waiter keep IInv.                           *)
(***************************************************************************)
EXTENDS SchedInv, TLAPS

(* Lists of threads as sets.                                               *)

\* Appending to a list of threads, as list_append does on the ready queue and the waiters.
LEMMA ElemsAppend ==
  ASSUME NEW S, NEW s \in Seq(S), NEW x \in S
  PROVE  /\ Append(s, x) \in Seq(S)
         /\ Elems(Append(s, x)) = Elems(s) \cup {x}
         /\ Append(s, x) # <<>>
         /\ NoRepeat(s) /\ x \notin Elems(s) => NoRepeat(Append(s, x))
<1>1. /\ Append(s, x) \in Seq(S)
      /\ Len(Append(s, x)) = Len(s) + 1
      /\ \A i \in 1..Len(s) : Append(s, x)[i] = s[i]
      /\ Append(s, x)[Len(s) + 1] = x
      /\ Len(s) \in Nat
  OBVIOUS
<1>2. Append(s, x) # <<>>
  BY <1>1
<1>3. Elems(Append(s, x)) = Elems(s) \cup {x}
  BY <1>1 DEF Elems
<1>4. NoRepeat(s) /\ x \notin Elems(s) => NoRepeat(Append(s, x))
  BY <1>1 DEF Elems, NoRepeat
<1> QED
  BY <1>1, <1>2, <1>3, <1>4, Zenon

\* Taking the first element off a list of threads.
LEMMA ElemsTail ==
  ASSUME NEW S, NEW s \in Seq(S), s # <<>>, NoRepeat(s)
  PROVE  /\ Head(s) \in S /\ Head(s) \in Elems(s)
         /\ Tail(s) \in Seq(S)
         /\ Elems(Tail(s)) = Elems(s) \ {Head(s)}
         /\ NoRepeat(Tail(s))
<1>1. /\ Len(s) \in Nat /\ Len(s) # 0
      /\ Head(s) = s[1] /\ Head(s) \in S
      /\ Tail(s) \in Seq(S)
      /\ Len(Tail(s)) = Len(s) - 1
      /\ \A i \in 1..(Len(s) - 1) : Tail(s)[i] = s[i + 1]
  OBVIOUS
<1>2. Head(s) \in Elems(s)
  BY <1>1 DEF Elems
<1>3. NoRepeat(Tail(s))
  BY <1>1 DEF NoRepeat
<1>4. Elems(Tail(s)) \subseteq Elems(s) \ {Head(s)}
  BY <1>1 DEF Elems, NoRepeat
<1>5. Elems(s) \ {Head(s)} \subseteq Elems(Tail(s))
  <2> SUFFICES ASSUME NEW i \in 1..Len(s), s[i] # Head(s)
               PROVE  s[i] \in Elems(Tail(s))
    BY Zenon DEF Elems
  <2>1. i # 1 /\ i - 1 \in 1..(Len(s) - 1)
    BY <1>1
  <2>2. Tail(s)[i - 1] = s[i]
    BY <1>1, <2>1
  <2> QED
    BY <1>1, <2>1, <2>2, Zenon DEF Elems
<1> QED
  BY <1>1, <1>2, <1>3, <1>4, <1>5, Zenon

\* The elements of a list of threads.
LEMMA ElemsType ==
  ASSUME NEW S, NEW s \in Seq(S)
  PROVE  Elems(s) \subseteq S /\ (s = <<>> <=> Elems(s) = {})
<1>1. Len(s) \in Nat /\ \A i \in 1..Len(s) : s[i] \in S
  OBVIOUS
<1>2. Elems(s) \subseteq S
  BY <1>1, Zenon DEF Elems
<1>3. s # <<>> => s[1] \in Elems(s)
  BY <1>1 DEF Elems
<1>4. s = <<>> => Elems(s) = {}
  BY DEF Elems
<1> QED
  BY <1>2, <1>3, <1>4, Zenon

-----------------------------------------------------------------------------
(* Processors.                                                             *)

\* The values of a processor's structure.
CpuRecord == [thread : Threads \cup {NULL}, num_disabled : Nat,
              intr_enabled : {0, 1}, level : {"ON", "OFF"}]

\* intr_set_level(INTR_OFF) adds one to the nesting and leaves interrupts off.
LEMMA IntrOffFacts ==
  ASSUME NEW p \in CpuRecord
  PROVE  /\ IntrOff(p) \in CpuRecord
         /\ IntrOff(p).thread = p.thread
         /\ IntrOff(p).num_disabled = p.num_disabled + 1
         /\ IntrOff(p).level = "OFF"
<1>1. CASE p.num_disabled # 0
  BY <1>1 DEF IntrOff, CpuRecord
<1>2. CASE p.num_disabled = 0
  BY <1>2 DEF IntrOff, CpuRecord
<1> QED
  BY <1>1, <1>2, Zenon

\* intr_set_level(INTR_ON) takes one off the nesting; interrupts stay off while it nests.
LEMMA IntrOnFacts ==
  ASSUME NEW p \in CpuRecord
  PROVE  /\ IntrOn(p) \in CpuRecord
         /\ IntrOn(p).thread = p.thread
         /\ p.num_disabled # 0 => IntrOn(p).num_disabled = p.num_disabled - 1
         /\ p.num_disabled = 0 => IntrOn(p).num_disabled = 0 /\ IntrOn(p).level = "ON"
         /\ IntrOn(p).num_disabled # 0 => IntrOn(p).level = "OFF"
<1>1. CASE p.num_disabled = 0
  BY <1>1, Zenon DEF IntrOn, CpuRecord
<1>2. CASE p.num_disabled # 0 /\ p.num_disabled = 1 /\ p.intr_enabled = 1
  BY <1>2 DEF IntrOn, CpuRecord
<1>3. CASE p.num_disabled # 0 /\ ~(p.num_disabled = 1 /\ p.intr_enabled = 1)
  BY <1>3 DEF IntrOn, CpuRecord
<1> QED
  BY <1>1, <1>2, <1>3, Zenon

\* What intr_set_level(INTR_OFF) on processor c changes, and what it does not.
LEMMA OffFacts ==
  ASSUME TypeOK, NEW c \in Cpus, Off(c)
  PROVE  /\ cpu' \in [Cpus -> CpuRecord]
         /\ \A d \in Cpus : cpu'[d].thread = cpu[d].thread
         /\ \A d \in Cpus : d # c => cpu'[d] = cpu[d]
         /\ cpu'[c].num_disabled = cpu[c].num_disabled + 1
         /\ cpu'[c].level = "OFF"
<1>1. cpu \in [Cpus -> CpuRecord] /\ cpu[c] \in CpuRecord
  BY Zenon DEF TypeOK, CpuRecord
<1>2. cpu' = [cpu EXCEPT ![c] = IntrOff(cpu[c])]
  BY Zenon DEF Off
<1>3. IntrOff(cpu[c]) \in CpuRecord
  BY <1>1, IntrOffFacts, Zenon
<1> QED
  BY <1>1, <1>2, <1>3, IntrOffFacts, Zenon

\* What intr_set_level(INTR_ON) on processor c changes, and what it does not.
LEMMA OnFacts ==
  ASSUME TypeOK, NEW c \in Cpus, On(c)
  PROVE  /\ cpu' \in [Cpus -> CpuRecord]
         /\ \A d \in Cpus : cpu'[d].thread = cpu[d].thread
         /\ \A d \in Cpus : d # c => cpu'[d] = cpu[d]
         /\ cpu[c].num_disabled # 0 => cpu'[c].num_disabled = cpu[c].num_disabled - 1
         /\ cpu'[c].num_disabled # 0 => cpu'[c].level = "OFF"
<1>1. cpu \in [Cpus -> CpuRecord] /\ cpu[c] \in CpuRecord
  BY Zenon DEF TypeOK, CpuRecord
<1>2. cpu' = [cpu EXCEPT ![c] = IntrOn(cpu[c])]
  BY Zenon DEF On
<1>3. IntrOn(cpu[c]) \in CpuRecord
  BY <1>1, IntrOnFacts, Zenon
<1> QED
  BY <1>1, <1>2, <1>3, IntrOnFacts, Zenon

\* The same threads are on the processors when no processor changes its thread.
LEMMA RunningFrame ==
  ASSUME \A d \in Cpus : cpu'[d].thread = cpu[d].thread
  PROVE  \A t \in Threads : Running(t)' <=> Running(t)
  BY Zenon DEF Running

\* Only workers are in the lists of threads; a list is empty when it has no elements.
LEMMA ListTypes ==
  ASSUME TypeOK
  PROVE  /\ Ready \subseteq Workers /\ Waiting \subseteq Workers /\ InHand \subseteq Workers
         /\ ready_queue = <<>> <=> Ready = {}
         /\ waiters = <<>> <=> Waiting = {}
  BY ElemsType DEF TypeOK, Ready, Waiting, InHand

(* What a step of thread t on processor c leaves alone.                    *)

\* CpuInv is kept by a step that changes no processor's thread and starts none.
LEMMA CpuFrame ==
  ASSUME CpuInv,
         \A d \in Cpus : cpu'[d].thread = cpu[d].thread,
         \A d \in Cpus : cpu[d].thread = NULL => cpu'[d] = cpu[d],
         \A d \in Cpus : pc'[d] = "none" <=> pc[d] = "none"
  PROVE  CpuInv'
  BY DEF CpuInv

\* NestingExact is kept by a step of thread t on processor c that changes the
\* nesting of c together with the spinlocks of t.
LEMMA NestingFrame ==
  ASSUME TypeOK, CpuInv, NestingExact, NEW c \in Cpus, NEW t \in Threads, cpu[c].thread = t,
         \A d \in Cpus : cpu'[d].thread = cpu[d].thread,
         \A d \in Cpus : d # c => cpu'[d] = cpu[d],
         \A u \in Threads : u # t /\ Running(u) =>
                              pc'[u] = pc[u] /\ sp'[u] = sp[u] /\ arg'[u] = arg[u],
         cpu'[c].num_disabled = SpinDepth(pc'[t], sp'[t], arg'[t]),
         cpu'[c].num_disabled > 0 => cpu'[c].level = "OFF"
  PROVE  NestingExact'
<1> SUFFICES ASSUME NEW d \in Cpus, NEW u, u = cpu'[d].thread, u # NULL
             PROVE  /\ cpu'[d].num_disabled = SpinDepth(pc'[u], sp'[u], arg'[u])
                    /\ cpu'[d].num_disabled > 0 => cpu'[d].level = "OFF"
  BY Zenon DEF NestingExact
<1>1. CASE d = c
  BY <1>1, Zenon
<1>2. CASE d # c
  <2>1. cpu'[d] = cpu[d] /\ u # t /\ u \in Threads /\ Running(u)
    BY <1>2 DEF CpuInv, Threads, Running
  <2> QED
    BY <2>1 DEF NestingExact
<1> QED
  BY <1>1, <1>2, Zenon

\* SchedLockInv is kept by a step outside the section that sched_lock protects.
LEMMA SchedLockFrame ==
  ASSUME TypeOK, SchedLockInv, UNCHANGED sched_lock,
         \A d \in Cpus : cpu'[d].thread = cpu[d].thread,
         \A u \in Threads : sp'[u] # sp[u] => sp[u] \in {"out", "spin"} /\ sp'[u] \in {"out", "spin"},
         \A u \in Threads : Running(u) => (pc'[u] = "fresh" <=> pc[u] = "fresh")
  PROVE  SchedLockInv'
<1>1. \A d \in Cpus : Switching(d)' <=> Switching(d)
  <2> SUFFICES ASSUME NEW d \in Cpus PROVE Switching(d)' <=> Switching(d)
    BY Zenon
  <2>1. CASE cpu[d].thread = NULL
    BY <2>1, Zenon DEF Switching
  <2>2. CASE cpu[d].thread # NULL
    <3>1. cpu[d].thread \in Threads /\ Running(cpu[d].thread)
      BY <2>2 DEF TypeOK, Running
    <3> QED
      BY <3>1, Zenon DEF Switching
  <2> QED
    BY <2>1, <2>2, Zenon
<1>2. sched_lock # NULL => sched_lock \in Threads
  BY Zenon DEF TypeOK
<1> QED
  BY <1>1, <1>2, Zenon DEF SchedLockInv

\* A thread in the hands of a waker is new, or asleep and past the release of lk.
LEMMA InHandFacts ==
  ASSUME TypeOK, HandInv, NEW z \in InHand
  PROVE  /\ z \in Workers
         /\ pc[z] \in {"fresh", "sa_again"}
         /\ pc[z] = "fresh" => ~Running(z)
         /\ pc[z] = "sa_again" => /\ sp[z] \in {"pick", "ret"} /\ z \notin irq
                                  /\ state[z] = "SLEEPING"
                                  /\ Running(z) => sp[z] = "pick"
<1>1. PICK u \in Threads : woken[u] = z /\ z # NULL
  BY Zenon DEF InHand
<1> QED
  BY <1>1 DEF HandInv, TypeOK

\* woken[t] is set (condvar_signal, thread_create).
LEMMA InHandSet ==
  ASSUME TypeOK, NEW t \in Threads, NEW w \in Workers, woken[t] = NULL,
         NULL \notin Workers, woken' = [woken EXCEPT ![t] = w]
  PROVE  InHand' = InHand \cup {w}
  BY DEF InHand, TypeOK

\* woken[t] is cleared (sched_ready).
LEMMA InHandClear ==
  ASSUME TypeOK, DisjointInv, NEW t \in Threads, woken[t] # NULL,
         woken' = [woken EXCEPT ![t] = NULL]
  PROVE  InHand' = InHand \ {woken[t]} /\ woken[t] \in InHand
  BY DEF InHand, TypeOK, DisjointInv

-----------------------------------------------------------------------------
(* One lemma per action: the action preserves the invariant.               *)

\* Calling a lock operation: the caller stops on a spin label, interrupts off.
LEMMA CallLkStep ==
  ASSUME IInv, NEW c \in Cpus, NEW t \in Workers, NEW from, NEW to,
         CallLk(c, t, from, to),
         \/ from = "run" /\ to \in {"sa_spin", "ta_spin"}
         \/ from = "crit" /\ to = "sr_spin"
         \/ from = "sa_again" /\ to = "sa_spin"
  PROVE  IInv'
<1> USE ConstantsAssumption DEF IInv, Threads
<1>1. /\ cpu[c].thread = t /\ sp[t] = "out" /\ dying[t] = {} /\ t \notin irq /\ pc[t] = from
      /\ pc' = [pc EXCEPT ![t] = to] /\ Off(c)
      /\ UNCHANGED <<state, ready_queue, sched_lock, lk, waiters, holder, sp, arg, woken, dying, irq>>
  BY Zenon DEF CallLk, At, Goto, schedVars, lockVars
<1>2. /\ cpu' \in [Cpus -> CpuRecord]
      /\ \A d \in Cpus : cpu'[d].thread = cpu[d].thread
      /\ \A d \in Cpus : d # c => cpu'[d] = cpu[d]
      /\ cpu'[c].num_disabled = cpu[c].num_disabled + 1
      /\ cpu'[c].level = "OFF"
  BY <1>1, OffFacts, Zenon
<1>3. \A u \in Threads : Running(u)' <=> Running(u)
  BY <1>2, RunningFrame, Zenon
<1>4. /\ Ready' = Ready /\ Waiting' = Waiting /\ InHand' = InHand
      /\ Ready \subseteq Workers /\ Waiting \subseteq Workers /\ InHand \subseteq Workers
  <2>1. Ready' = Ready /\ Waiting' = Waiting
    BY <1>1, Zenon DEF Ready, Waiting
  <2>2. InHand' = InHand
    BY <1>1, Zenon DEF InHand
  <2> QED
    BY <2>1, <2>2, ListTypes, Zenon
<1>5. /\ cpu[c].thread = t /\ t \in Threads
      /\ cpu[c].num_disabled = SpinDepth(pc[t], sp[t], arg[t])
      /\ cpu[c].num_disabled > 0 => cpu[c].level = "OFF"
      /\ cpu[c].num_disabled \in Nat
  BY <1>1, Zenon DEF NestingExact, TypeOK
<1>6. /\ cpu'[c].num_disabled = SpinDepth(pc'[t], sp'[t], arg'[t])
      /\ cpu'[c].num_disabled > 0 => cpu'[c].level = "OFF"
  BY <1>1, <1>2, <1>5 DEF SpinDepth, TypeOK, CpuRecord, SpinLk, HoldLk
<1>7. \A u \in Threads : u # t => pc'[u] = pc[u] /\ sp'[u] = sp[u] /\ arg'[u] = arg[u]
  BY <1>1, Zenon DEF TypeOK
<1>20. TypeOK'
  BY <1>1, <1>2, Zenon DEF TypeOK, CpuRecord, Labels, SpinLk, HoldLk, Owning
<1>21. CpuInv'
  BY <1>1, <1>2, CpuFrame DEF TypeOK
<1>22. NestingExact'
  BY <1>2, <1>5, <1>6, <1>7, NestingFrame
<1>23. ContextInv'
  BY <1>1 DEF ContextInv, TypeOK, Masked, SpinLk, HoldLk, Owning
<1>24. PlaceInv'
  BY <1>1, <1>3, Zenon DEF PlaceInv, TypeOK
<1>25. ReadyInv'
  BY <1>1, <1>3, <1>4, Zenon DEF ReadyInv, TypeOK
<1>26. WaitingInv'
  BY <1>1, <1>3, <1>4, Zenon DEF WaitingInv, TypeOK
<1>27. HandInv'
  BY <1>1, <1>3, <1>4 DEF HandInv, TypeOK
<1>28. SchedLockInv'
  BY <1>1, <1>2, SchedLockFrame, Zenon DEF TypeOK
<1>29. LkInv'
  BY <1>1, Zenon DEF LkInv, HoldsLk, TypeOK, HoldLk, Owning
<1>30. DyingInv'
  BY <1>1, <1>3 DEF DyingInv, TypeOK
<1>31. NoLostWakeup'
  BY <1>1, <1>4, Zenon DEF NoLostWakeup, TypeOK
<1>32. DisjointInv'
  <2>1. ready_queue' = ready_queue /\ waiters' = waiters /\ woken' = woken
    BY <1>1, Zenon
  <2> QED
    BY <1>4, <2>1, Zenon DEF DisjointInv
<1> QED
  BY <1>20, <1>21, <1>22, <1>23, <1>24, <1>25, <1>26, <1>27, <1>28, <1>29, <1>30, <1>31, <1>32, Zenon

\* The test-and-set on lk succeeds.
LEMMA AcquireStep ==
  ASSUME IInv, NEW c \in Cpus, NEW t \in Workers, NEW from, NEW to, At(c, t, from),
         lk = NULL, lk' = t, Goto(t, to),
         UNCHANGED <<cpu, schedVars, waiters, holder, sp, arg, woken, dying, irq>>,
         \/ from = "sa_spin" /\ to = "sa_test"
         \/ from = "ta_spin" /\ to = "ta_test"
         \/ from = "sr_spin" /\ to = "sr_signal"
  PROVE  IInv'
<1> USE ConstantsAssumption DEF IInv, Threads
<1>1. /\ cpu[c].thread = t /\ sp[t] = "out" /\ dying[t] = {} /\ t \notin irq /\ pc[t] = from
      /\ lk = NULL /\ lk' = t /\ cpu' = cpu /\ pc' = [pc EXCEPT ![t] = to]
      /\ UNCHANGED <<state, ready_queue, sched_lock, waiters, holder, sp, arg, woken, dying, irq>>
  BY Zenon DEF At, Goto, schedVars
<1>2. /\ cpu' = cpu /\ cpu' \in [Cpus -> CpuRecord]
      /\ \A d \in Cpus : cpu'[d].thread = cpu[d].thread
  BY <1>1, Zenon DEF TypeOK, CpuRecord
<1>3. \A u \in Threads : Running(u)' <=> Running(u)
  BY <1>2, RunningFrame, Zenon
<1>4. /\ Ready' = Ready /\ Waiting' = Waiting /\ InHand' = InHand
      /\ Ready \subseteq Workers /\ Waiting \subseteq Workers /\ InHand \subseteq Workers
  <2>1. Ready' = Ready /\ Waiting' = Waiting
    BY <1>1, Zenon DEF Ready, Waiting
  <2>2. InHand' = InHand
    BY <1>1, Zenon DEF InHand
  <2> QED
    BY <2>1, <2>2, ListTypes, Zenon
<1>5. /\ cpu[c].thread = t /\ t \in Threads
      /\ cpu[c].num_disabled = SpinDepth(pc[t], sp[t], arg[t])
      /\ cpu[c].num_disabled > 0 => cpu[c].level = "OFF"
      /\ cpu[c].num_disabled \in Nat
  BY <1>1, Zenon DEF NestingExact, TypeOK
<1>6. /\ cpu'[c].num_disabled = SpinDepth(pc'[t], sp'[t], arg'[t])
      /\ cpu'[c].num_disabled > 0 => cpu'[c].level = "OFF"
  BY <1>1, <1>2, <1>5, Zenon DEF SpinDepth, TypeOK, CpuRecord, SpinLk, HoldLk
<1>7. \A u \in Threads : u # t => pc'[u] = pc[u] /\ sp'[u] = sp[u] /\ arg'[u] = arg[u]
  BY <1>1, Zenon DEF TypeOK
<1>20. TypeOK'
  BY <1>1, <1>2 DEF TypeOK, CpuRecord, Labels, SpinLk, HoldLk, Owning
<1>21. CpuInv'
  BY <1>1, <1>2, CpuFrame, Zenon DEF TypeOK
<1>22. NestingExact'
  BY <1>2, <1>5, <1>6, <1>7, NestingFrame
<1>23. ContextInv'
  BY <1>1 DEF ContextInv, TypeOK, Masked, SpinLk, HoldLk, Owning
<1>24. PlaceInv'
  BY <1>1, <1>3 DEF PlaceInv, TypeOK
<1>25. ReadyInv'
  BY <1>1, <1>3, <1>4 DEF ReadyInv, TypeOK
<1>26. WaitingInv'
  BY <1>1, <1>3, <1>4, Zenon DEF WaitingInv, TypeOK
<1>27. HandInv'
  BY <1>1, <1>3, <1>4 DEF HandInv, TypeOK
<1>28. SchedLockInv'
  BY <1>1, <1>2, SchedLockFrame, Zenon DEF TypeOK
<1>29. LkInv'
  BY <1>1 DEF LkInv, HoldsLk, TypeOK, HoldLk, Owning
<1>30. DyingInv'
  BY <1>1, <1>3 DEF DyingInv, TypeOK
<1>31. NoLostWakeup'
  BY <1>1, <1>4, Zenon DEF NoLostWakeup, TypeOK
<1>32. DisjointInv'
  <2>1. ready_queue' = ready_queue /\ waiters' = waiters /\ woken' = woken
    BY <1>1, Zenon
  <2> QED
    BY <1>4, <2>1, Zenon DEF DisjointInv
<1> QED
  BY <1>20, <1>21, <1>22, <1>23, <1>24, <1>25, <1>26, <1>27, <1>28, <1>29, <1>30, <1>31, <1>32, Zenon

\* The sleeplock is free and is taken, lk is released.
LEMMA TakeStep ==
  ASSUME IInv, NEW c \in Cpus, NEW t \in Workers, Take(c, t)
  PROVE  IInv'
<1> USE ConstantsAssumption DEF IInv, Threads
<1>1. /\ cpu[c].thread = t /\ sp[t] = "out" /\ dying[t] = {} /\ t \notin irq /\ pc[t] \in {"sa_test", "ta_test"}
      /\ holder = NULL /\ holder' = t /\ lk' = NULL /\ On(c) /\ pc' = [pc EXCEPT ![t] = "crit"]
      /\ UNCHANGED <<state, ready_queue, sched_lock, waiters, sp, arg, woken, dying, irq>>
  BY Zenon DEF Take, At, Goto, schedVars
<1>2. /\ cpu' \in [Cpus -> CpuRecord]
      /\ \A d \in Cpus : cpu'[d].thread = cpu[d].thread
      /\ \A d \in Cpus : d # c => cpu'[d] = cpu[d]
      /\ cpu[c].num_disabled # 0 => cpu'[c].num_disabled = cpu[c].num_disabled - 1
      /\ cpu'[c].num_disabled # 0 => cpu'[c].level = "OFF"
  BY <1>1, OnFacts, Zenon
<1>3. \A u \in Threads : Running(u)' <=> Running(u)
  BY <1>2, RunningFrame, Zenon
<1>4. /\ Ready' = Ready /\ Waiting' = Waiting /\ InHand' = InHand
      /\ Ready \subseteq Workers /\ Waiting \subseteq Workers /\ InHand \subseteq Workers
  <2>1. Ready' = Ready /\ Waiting' = Waiting
    BY <1>1, Zenon DEF Ready, Waiting
  <2>2. InHand' = InHand
    BY <1>1, Zenon DEF InHand
  <2> QED
    BY <2>1, <2>2, ListTypes, Zenon
<1>5. /\ cpu[c].thread = t /\ t \in Threads
      /\ cpu[c].num_disabled = SpinDepth(pc[t], sp[t], arg[t])
      /\ cpu[c].num_disabled > 0 => cpu[c].level = "OFF"
      /\ cpu[c].num_disabled \in Nat
  BY <1>1, Zenon DEF NestingExact, TypeOK
<1>6. /\ cpu'[c].num_disabled = SpinDepth(pc'[t], sp'[t], arg'[t])
      /\ cpu'[c].num_disabled > 0 => cpu'[c].level = "OFF"
  BY <1>1, <1>2, <1>5 DEF SpinDepth, TypeOK, CpuRecord, SpinLk, HoldLk
<1>7. \A u \in Threads : u # t => pc'[u] = pc[u] /\ sp'[u] = sp[u] /\ arg'[u] = arg[u]
  BY <1>1, Zenon DEF TypeOK
<1>20. TypeOK'
  BY <1>1, <1>2, Zenon DEF TypeOK, CpuRecord, Labels, SpinLk, HoldLk, Owning
<1>21. CpuInv'
  BY <1>1, <1>2, CpuFrame DEF TypeOK
<1>22. NestingExact'
  BY <1>2, <1>5, <1>6, <1>7, NestingFrame
<1>23. ContextInv'
  BY <1>1 DEF ContextInv, TypeOK, Masked, SpinLk, HoldLk, Owning
<1>24. PlaceInv'
  BY <1>1, <1>3, Zenon DEF PlaceInv, TypeOK
<1>25. ReadyInv'
  BY <1>1, <1>3, <1>4, Zenon DEF ReadyInv, TypeOK
<1>26. WaitingInv'
  BY <1>1, <1>3, <1>4, Zenon DEF WaitingInv, TypeOK
<1>27. HandInv'
  BY <1>1, <1>3, <1>4 DEF HandInv, TypeOK
<1>28. SchedLockInv'
  BY <1>1, <1>2, SchedLockFrame, Zenon DEF TypeOK
<1>29. LkInv'
  BY <1>1 DEF LkInv, HoldsLk, TypeOK, HoldLk, Owning
<1>30. DyingInv'
  BY <1>1, <1>3 DEF DyingInv, TypeOK
<1>31. NoLostWakeup'
  BY <1>1, <1>4, Zenon DEF NoLostWakeup, TypeOK
<1>32. DisjointInv'
  <2>1. ready_queue' = ready_queue /\ waiters' = waiters /\ woken' = woken
    BY <1>1, Zenon
  <2> QED
    BY <1>4, <2>1, Zenon DEF DisjointInv
<1> QED
  BY <1>20, <1>21, <1>22, <1>23, <1>24, <1>25, <1>26, <1>27, <1>28, <1>29, <1>30, <1>31, <1>32, Zenon

\* sleeplock_try_acquire fails.
LEMMA BusyStep ==
  ASSUME IInv, NEW c \in Cpus, NEW t \in Workers, Busy(c, t)
  PROVE  IInv'
<1> USE ConstantsAssumption DEF IInv, Threads
<1>1. /\ cpu[c].thread = t /\ sp[t] = "out" /\ dying[t] = {} /\ t \notin irq /\ pc[t] = "ta_test"
      /\ holder # NULL /\ lk' = NULL /\ On(c) /\ pc' = [pc EXCEPT ![t] = "run"]
      /\ UNCHANGED <<state, ready_queue, sched_lock, waiters, holder, sp, arg, woken, dying, irq>>
  BY Zenon DEF Busy, At, Goto, schedVars
<1>2. /\ cpu' \in [Cpus -> CpuRecord]
      /\ \A d \in Cpus : cpu'[d].thread = cpu[d].thread
      /\ \A d \in Cpus : d # c => cpu'[d] = cpu[d]
      /\ cpu[c].num_disabled # 0 => cpu'[c].num_disabled = cpu[c].num_disabled - 1
      /\ cpu'[c].num_disabled # 0 => cpu'[c].level = "OFF"
  BY <1>1, OnFacts, Zenon
<1>3. \A u \in Threads : Running(u)' <=> Running(u)
  BY <1>2, RunningFrame, Zenon
<1>4. /\ Ready' = Ready /\ Waiting' = Waiting /\ InHand' = InHand
      /\ Ready \subseteq Workers /\ Waiting \subseteq Workers /\ InHand \subseteq Workers
  <2>1. Ready' = Ready /\ Waiting' = Waiting
    BY <1>1, Zenon DEF Ready, Waiting
  <2>2. InHand' = InHand
    BY <1>1, Zenon DEF InHand
  <2> QED
    BY <2>1, <2>2, ListTypes, Zenon
<1>5. /\ cpu[c].thread = t /\ t \in Threads
      /\ cpu[c].num_disabled = SpinDepth(pc[t], sp[t], arg[t])
      /\ cpu[c].num_disabled > 0 => cpu[c].level = "OFF"
      /\ cpu[c].num_disabled \in Nat
  BY <1>1, Zenon DEF NestingExact, TypeOK
<1>6. /\ cpu'[c].num_disabled = SpinDepth(pc'[t], sp'[t], arg'[t])
      /\ cpu'[c].num_disabled > 0 => cpu'[c].level = "OFF"
  BY <1>1, <1>2, <1>5 DEF SpinDepth, TypeOK, CpuRecord, SpinLk, HoldLk
<1>7. \A u \in Threads : u # t => pc'[u] = pc[u] /\ sp'[u] = sp[u] /\ arg'[u] = arg[u]
  BY <1>1, Zenon DEF TypeOK
<1>20. TypeOK'
  BY <1>1, <1>2, Zenon DEF TypeOK, CpuRecord, Labels, SpinLk, HoldLk, Owning
<1>21. CpuInv'
  BY <1>1, <1>2, CpuFrame DEF TypeOK
<1>22. NestingExact'
  BY <1>2, <1>5, <1>6, <1>7, NestingFrame
<1>23. ContextInv'
  BY <1>1 DEF ContextInv, TypeOK, Masked, SpinLk, HoldLk, Owning
<1>24. PlaceInv'
  BY <1>1, <1>3, Zenon DEF PlaceInv, TypeOK
<1>25. ReadyInv'
  BY <1>1, <1>3, <1>4, Zenon DEF ReadyInv, TypeOK
<1>26. WaitingInv'
  BY <1>1, <1>3, <1>4, Zenon DEF WaitingInv, TypeOK
<1>27. HandInv'
  BY <1>1, <1>3, <1>4 DEF HandInv, TypeOK
<1>28. SchedLockInv'
  BY <1>1, <1>2, SchedLockFrame, Zenon DEF TypeOK
<1>29. LkInv'
  BY <1>1 DEF LkInv, HoldsLk, TypeOK, HoldLk, Owning
<1>30. DyingInv'
  BY <1>1, <1>3 DEF DyingInv, TypeOK
<1>31. NoLostWakeup'
  BY <1>1, <1>4, Zenon DEF NoLostWakeup, TypeOK
<1>32. DisjointInv'
  <2>1. ready_queue' = ready_queue /\ waiters' = waiters /\ woken' = woken
    BY <1>1, Zenon
  <2> QED
    BY <1>4, <2>1, Zenon DEF DisjointInv
<1> QED
  BY <1>20, <1>21, <1>22, <1>23, <1>24, <1>25, <1>26, <1>27, <1>28, <1>29, <1>30, <1>31, <1>32, Zenon

\* The end of sleeplock_release.
LEMMA UnlockStep ==
  ASSUME IInv, NEW c \in Cpus, NEW t \in Workers, spinlock_release(c, t)
  PROVE  IInv'
<1> USE ConstantsAssumption DEF IInv, Threads
<1>1. /\ cpu[c].thread = t /\ sp[t] = "out" /\ dying[t] = {} /\ t \notin irq /\ pc[t] = "sr_unlock"
      /\ lk' = NULL /\ On(c) /\ pc' = [pc EXCEPT ![t] = "run"]
      /\ UNCHANGED <<state, ready_queue, sched_lock, waiters, holder, sp, arg, woken, dying, irq>>
  BY Zenon DEF spinlock_release, At, Goto, schedVars
<1>2. /\ cpu' \in [Cpus -> CpuRecord]
      /\ \A d \in Cpus : cpu'[d].thread = cpu[d].thread
      /\ \A d \in Cpus : d # c => cpu'[d] = cpu[d]
      /\ cpu[c].num_disabled # 0 => cpu'[c].num_disabled = cpu[c].num_disabled - 1
      /\ cpu'[c].num_disabled # 0 => cpu'[c].level = "OFF"
  BY <1>1, OnFacts, Zenon
<1>3. \A u \in Threads : Running(u)' <=> Running(u)
  BY <1>2, RunningFrame, Zenon
<1>4. /\ Ready' = Ready /\ Waiting' = Waiting /\ InHand' = InHand
      /\ Ready \subseteq Workers /\ Waiting \subseteq Workers /\ InHand \subseteq Workers
  <2>1. Ready' = Ready /\ Waiting' = Waiting
    BY <1>1, Zenon DEF Ready, Waiting
  <2>2. InHand' = InHand
    BY <1>1, Zenon DEF InHand
  <2> QED
    BY <2>1, <2>2, ListTypes, Zenon
<1>5. /\ cpu[c].thread = t /\ t \in Threads
      /\ cpu[c].num_disabled = SpinDepth(pc[t], sp[t], arg[t])
      /\ cpu[c].num_disabled > 0 => cpu[c].level = "OFF"
      /\ cpu[c].num_disabled \in Nat
  BY <1>1, Zenon DEF NestingExact, TypeOK
<1>6. /\ cpu'[c].num_disabled = SpinDepth(pc'[t], sp'[t], arg'[t])
      /\ cpu'[c].num_disabled > 0 => cpu'[c].level = "OFF"
  BY <1>1, <1>2, <1>5 DEF SpinDepth, TypeOK, CpuRecord, SpinLk, HoldLk
<1>7. \A u \in Threads : u # t => pc'[u] = pc[u] /\ sp'[u] = sp[u] /\ arg'[u] = arg[u]
  BY <1>1, Zenon DEF TypeOK
<1>20. TypeOK'
  BY <1>1, <1>2, Zenon DEF TypeOK, CpuRecord, Labels, SpinLk, HoldLk, Owning
<1>21. CpuInv'
  BY <1>1, <1>2, CpuFrame DEF TypeOK
<1>22. NestingExact'
  BY <1>2, <1>5, <1>6, <1>7, NestingFrame
<1>23. ContextInv'
  BY <1>1 DEF ContextInv, TypeOK, Masked, SpinLk, HoldLk, Owning
<1>24. PlaceInv'
  BY <1>1, <1>3, Zenon DEF PlaceInv, TypeOK
<1>25. ReadyInv'
  BY <1>1, <1>3, <1>4, Zenon DEF ReadyInv, TypeOK
<1>26. WaitingInv'
  BY <1>1, <1>3, <1>4, Zenon DEF WaitingInv, TypeOK
<1>27. HandInv'
  BY <1>1, <1>3, <1>4 DEF HandInv, TypeOK
<1>28. SchedLockInv'
  BY <1>1, <1>2, SchedLockFrame, Zenon DEF TypeOK
<1>29. LkInv'
  BY <1>1 DEF LkInv, HoldsLk, TypeOK, HoldLk, Owning
<1>30. DyingInv'
  BY <1>1, <1>3 DEF DyingInv, TypeOK
<1>31. NoLostWakeup'
  BY <1>1, <1>4, Zenon DEF NoLostWakeup, TypeOK
<1>32. DisjointInv'
  <2>1. ready_queue' = ready_queue /\ waiters' = waiters /\ woken' = woken
    BY <1>1, Zenon
  <2> QED
    BY <1>4, <2>1, Zenon DEF DisjointInv
<1> QED
  BY <1>20, <1>21, <1>22, <1>23, <1>24, <1>25, <1>26, <1>27, <1>28, <1>29, <1>30, <1>31, <1>32, Zenon

-----------------------------------------------------------------------------
(* Waiting on the condition variable, and the wakeup of a waiter.          *)

\* condvar_wait: the thread links itself among the waiters and enters the scheduler.
LEMMA WaitStep ==
  ASSUME IInv, NEW c \in Cpus, NEW t \in Workers, condvar_wait(c, t)
  PROVE  IInv'
<1> USE ConstantsAssumption DEF IInv, Threads
<1>1. /\ cpu[c].thread = t /\ sp[t] = "out" /\ dying[t] = {} /\ t \notin irq /\ pc[t] = "sa_test" /\ holder # NULL
      /\ waiters' = Append(waiters, t) /\ sp' = [sp EXCEPT ![t] = "spin"]
      /\ arg' = [arg EXCEPT ![t] = "SLEEPING"] /\ Off(c) /\ pc' = [pc EXCEPT ![t] = "sa_again"]
      /\ UNCHANGED <<state, ready_queue, sched_lock, lk, holder, woken, dying, irq>>
  BY Zenon DEF condvar_wait, At, Goto, EnterSched, schedVars
<1>2. /\ cpu' \in [Cpus -> CpuRecord]
      /\ \A d \in Cpus : cpu'[d].thread = cpu[d].thread
      /\ \A d \in Cpus : d # c => cpu'[d] = cpu[d]
      /\ cpu'[c].num_disabled = cpu[c].num_disabled + 1
      /\ cpu'[c].level = "OFF"
  BY <1>1, OffFacts, Zenon
<1>3. \A u \in Threads : Running(u)' <=> Running(u)
  BY <1>2, RunningFrame, Zenon
<1>8. t \notin Ready /\ t \notin Waiting /\ t \notin InHand
  BY <1>1, InHandFacts, Zenon DEF ReadyInv, WaitingInv, Running
<1>9. waiters \in Seq(Workers)
  BY Zenon DEF TypeOK
<1>4. /\ Ready' = Ready /\ Waiting' = Waiting \cup {t} /\ InHand' = InHand
      /\ Ready \subseteq Workers /\ Waiting \subseteq Workers /\ InHand \subseteq Workers
  <2>1. ready_queue' = ready_queue /\ woken' = woken /\ waiters' = Append(waiters, t)
    BY <1>1, Zenon
  <2>2. Ready' = Ready /\ InHand' = InHand
    BY <2>1, Zenon DEF Ready, InHand
  <2>3. Waiting' = Waiting \cup {t}
    BY <1>9, <2>1, ElemsAppend, Zenon DEF Waiting
  <2> QED
    BY <2>2, <2>3, ListTypes, Zenon
<1>5. /\ cpu[c].thread = t /\ t \in Threads
      /\ cpu[c].num_disabled = SpinDepth(pc[t], sp[t], arg[t])
      /\ cpu[c].num_disabled > 0 => cpu[c].level = "OFF"
      /\ cpu[c].num_disabled \in Nat
  BY <1>1, Zenon DEF NestingExact, TypeOK
<1>6. /\ cpu'[c].num_disabled = SpinDepth(pc'[t], sp'[t], arg'[t])
      /\ cpu'[c].num_disabled > 0 => cpu'[c].level = "OFF"
  BY <1>1, <1>2, <1>5 DEF SpinDepth, TypeOK, CpuRecord, SpinLk, HoldLk
<1>7. \A u \in Threads : u # t => pc'[u] = pc[u] /\ sp'[u] = sp[u] /\ arg'[u] = arg[u]
  BY <1>1, Zenon DEF TypeOK
<1>20. TypeOK'
  BY <1>1, <1>2, <1>9, ElemsAppend, Zenon DEF TypeOK, CpuRecord, Labels
<1>21. CpuInv'
  BY <1>1, <1>2, CpuFrame DEF TypeOK
<1>22. NestingExact'
  BY <1>2, <1>5, <1>6, <1>7, NestingFrame
<1>23. ContextInv'
  BY <1>1 DEF ContextInv, TypeOK, Masked, SpinLk, HoldLk, Owning
<1>24. PlaceInv'
  BY <1>1, <1>3, Zenon DEF PlaceInv, TypeOK
<1>25. ReadyInv'
  BY <1>1, <1>3, <1>4, Zenon DEF ReadyInv, TypeOK
<1>26. WaitingInv'
  BY <1>1, <1>3, <1>4 DEF WaitingInv, TypeOK
<1>27. HandInv'
  BY <1>1, <1>3, <1>4 DEF HandInv, TypeOK
<1>28. SchedLockInv'
  BY <1>1, <1>2, SchedLockFrame, Zenon DEF TypeOK
<1>29. LkInv'
  BY <1>1, Zenon DEF LkInv, HoldsLk, TypeOK, HoldLk, Owning
<1>30. DyingInv'
  BY <1>1, <1>3 DEF DyingInv, TypeOK
<1>31. NoLostWakeup'
  BY <1>1, <1>4, <1>8, Zenon DEF NoLostWakeup, TypeOK
<1>32. DisjointInv'
  BY <1>1, <1>4, <1>8, <1>9, ElemsAppend DEF DisjointInv, Waiting, NoRepeat
<1> QED
  BY <1>20, <1>21, <1>22, <1>23, <1>24, <1>25, <1>26, <1>27, <1>28, <1>29, <1>30, <1>31, <1>32, Zenon

\* sleeplock_release with nobody waiting.
LEMMA SignalNoneStep ==
  ASSUME IInv, NEW c \in Cpus, NEW t \in Workers, At(c, t, "sr_signal"), holder' = NULL, waiters = <<>>, Goto(t, "sr_unlock"),
         UNCHANGED <<cpu, schedVars, lk, waiters, sp, arg, woken, dying, irq>>
  PROVE  IInv'
<1> USE ConstantsAssumption DEF IInv, Threads
<1>1. /\ cpu[c].thread = t /\ sp[t] = "out" /\ dying[t] = {} /\ t \notin irq /\ pc[t] = "sr_signal" /\ holder' = NULL /\ waiters = <<>>
      /\ pc' = [pc EXCEPT ![t] = "sr_unlock"] /\ cpu' = cpu
      /\ UNCHANGED <<state, ready_queue, sched_lock, lk, waiters, sp, arg, woken, dying, irq>>
  BY Zenon DEF At, Goto, schedVars
<1>2. /\ cpu' = cpu /\ cpu' \in [Cpus -> CpuRecord]
      /\ \A d \in Cpus : cpu'[d].thread = cpu[d].thread
  BY <1>1, Zenon DEF TypeOK, CpuRecord
<1>3. \A u \in Threads : Running(u)' <=> Running(u)
  BY <1>2, RunningFrame, Zenon
<1>4. /\ Ready' = Ready /\ Waiting' = Waiting /\ InHand' = InHand
      /\ Ready \subseteq Workers /\ Waiting \subseteq Workers /\ InHand \subseteq Workers
  <2>1. Ready' = Ready /\ Waiting' = Waiting
    BY <1>1, Zenon DEF Ready, Waiting
  <2>2. InHand' = InHand
    BY <1>1, Zenon DEF InHand
  <2> QED
    BY <2>1, <2>2, ListTypes, Zenon
<1>5. /\ cpu[c].thread = t /\ t \in Threads
      /\ cpu[c].num_disabled = SpinDepth(pc[t], sp[t], arg[t])
      /\ cpu[c].num_disabled > 0 => cpu[c].level = "OFF"
      /\ cpu[c].num_disabled \in Nat
  BY <1>1, Zenon DEF NestingExact, TypeOK
<1>6. /\ cpu'[c].num_disabled = SpinDepth(pc'[t], sp'[t], arg'[t])
      /\ cpu'[c].num_disabled > 0 => cpu'[c].level = "OFF"
  BY <1>1, <1>2, <1>5, Zenon DEF SpinDepth, TypeOK, CpuRecord, SpinLk, HoldLk
<1>7. \A u \in Threads : u # t => pc'[u] = pc[u] /\ sp'[u] = sp[u] /\ arg'[u] = arg[u]
  BY <1>1, Zenon DEF TypeOK
<1>20. TypeOK'
  BY <1>1, <1>2, Zenon DEF TypeOK, CpuRecord, Labels, SpinLk, HoldLk, Owning
<1>21. CpuInv'
  BY <1>1, <1>2, CpuFrame, Zenon DEF TypeOK
<1>22. NestingExact'
  BY <1>2, <1>5, <1>6, <1>7, NestingFrame
<1>23. ContextInv'
  BY <1>1 DEF ContextInv, TypeOK, Masked, SpinLk, HoldLk, Owning
<1>24. PlaceInv'
  BY <1>1, <1>3 DEF PlaceInv, TypeOK
<1>25. ReadyInv'
  BY <1>1, <1>3, <1>4 DEF ReadyInv, TypeOK
<1>26. WaitingInv'
  BY <1>1, <1>3, <1>4, Zenon DEF WaitingInv, TypeOK
<1>27. HandInv'
  BY <1>1, <1>3, <1>4 DEF HandInv, TypeOK
<1>28. SchedLockInv'
  BY <1>1, <1>2, SchedLockFrame, Zenon DEF TypeOK
<1>29. LkInv'
  BY <1>1 DEF LkInv, HoldsLk, TypeOK, HoldLk, Owning
<1>30. DyingInv'
  BY <1>1, <1>3 DEF DyingInv, TypeOK
<1>31. NoLostWakeup'
  BY <1>1, <1>4, Zenon DEF NoLostWakeup, TypeOK
<1>32. DisjointInv'
  <2>1. ready_queue' = ready_queue /\ waiters' = waiters /\ woken' = woken
    BY <1>1, Zenon
  <2> QED
    BY <1>4, <2>1, Zenon DEF DisjointInv
<1> QED
  BY <1>20, <1>21, <1>22, <1>23, <1>24, <1>25, <1>26, <1>27, <1>28, <1>29, <1>30, <1>31, <1>32, Zenon

\* sleeplock_release unlinks the first waiter.
LEMMA SignalStep ==
  ASSUME IInv, NEW c \in Cpus, NEW t \in Workers, At(c, t, "sr_signal"), holder' = NULL, waiters # <<>>,
         waiters' = Tail(waiters), woken' = [woken EXCEPT ![t] = Head(waiters)], Off(c),
         Goto(t, "sr_ready"), UNCHANGED <<schedVars, lk, sp, arg, dying, irq>>
  PROVE  IInv'
<1> USE ConstantsAssumption DEF IInv, Threads
<1>1. /\ cpu[c].thread = t /\ sp[t] = "out" /\ dying[t] = {} /\ t \notin irq /\ pc[t] = "sr_signal" /\ holder' = NULL /\ waiters # <<>>
      /\ waiters' = Tail(waiters) /\ woken' = [woken EXCEPT ![t] = Head(waiters)] /\ Off(c)
      /\ pc' = [pc EXCEPT ![t] = "sr_ready"]
      /\ UNCHANGED <<state, ready_queue, sched_lock, lk, sp, arg, dying, irq>>
  BY Zenon DEF At, Goto, schedVars
<1>2. /\ cpu' \in [Cpus -> CpuRecord]
      /\ \A d \in Cpus : cpu'[d].thread = cpu[d].thread
      /\ \A d \in Cpus : d # c => cpu'[d] = cpu[d]
      /\ cpu'[c].num_disabled = cpu[c].num_disabled + 1
      /\ cpu'[c].level = "OFF"
  BY <1>1, OffFacts, Zenon
<1>3. \A u \in Threads : Running(u)' <=> Running(u)
  BY <1>2, RunningFrame, Zenon
<1> DEFINE w == Head(waiters)
<1>8. /\ waiters \in Seq(Workers) /\ NoRepeat(waiters) /\ w \in Workers /\ w \in Waiting
      /\ Waiting' = Waiting \ {w} /\ waiters' \in Seq(Workers) /\ NoRepeat(waiters')
  BY <1>1, ElemsTail DEF TypeOK, DisjointInv, Waiting
<1>9. woken[t] = NULL /\ woken' = [woken EXCEPT ![t] = w]
  BY <1>1, Zenon DEF HandInv
<1> HIDE DEF w
<1>10. lk = t
  BY <1>1, Zenon DEF LkInv, HoldsLk, HoldLk
<1>11. /\ w # t /\ pc[w] = "sa_again" /\ w \notin irq /\ sp[w] \in {"pick", "ret"}
       /\ state[w] = "SLEEPING"
       /\ Running(w) => sp[w] = "pick"
  <2>1. pc[w] = "sa_again" /\ w \notin irq /\ sp[w] # "out"
    BY <1>8, Zenon DEF WaitingInv
  <2>2. arg[w] = "SLEEPING" /\ w # t
    BY <2>1, <1>1, <1>8, Zenon DEF ContextInv
  <2>3. sp[w] \in {"pick", "ret"}
    BY <2>1, <2>2, <1>8, <1>10, Zenon DEF LkInv, HoldsLk, TypeOK
  <2> QED
    BY <2>1, <2>2, <2>3, <1>8, Zenon DEF WaitingInv, PlaceInv
<1>12. InHand' = InHand \cup {w}
  BY <1>8, <1>9, InHandSet, Zenon
<1>13. Ready' = Ready
  BY <1>1, Zenon DEF Ready
<1>4. /\ Ready' = Ready /\ w \notin Ready /\ w \notin InHand
      /\ Ready \subseteq Workers /\ Waiting \subseteq Workers /\ InHand \subseteq Workers
  BY <1>8, <1>13, ListTypes, Zenon DEF DisjointInv
<1>5. /\ cpu[c].thread = t /\ t \in Threads
      /\ cpu[c].num_disabled = SpinDepth(pc[t], sp[t], arg[t])
      /\ cpu[c].num_disabled > 0 => cpu[c].level = "OFF"
      /\ cpu[c].num_disabled \in Nat
  BY <1>1 DEF NestingExact, TypeOK
<1>6. /\ cpu'[c].num_disabled = SpinDepth(pc'[t], sp'[t], arg'[t])
      /\ cpu'[c].num_disabled > 0 => cpu'[c].level = "OFF"
  BY <1>1, <1>2, <1>5 DEF SpinDepth, TypeOK, CpuRecord, SpinLk, HoldLk
<1>7. \A u \in Threads : u # t => pc'[u] = pc[u] /\ sp'[u] = sp[u] /\ arg'[u] = arg[u]
  BY <1>1, Zenon DEF TypeOK
<1>20. TypeOK'
  BY <1>1, <1>2, <1>8, <1>9 DEF TypeOK, CpuRecord, Labels, HoldLk
<1>21. CpuInv'
  BY <1>1, <1>2, CpuFrame DEF TypeOK
<1>22. NestingExact'
  BY <1>2, <1>5, <1>6, <1>7, NestingFrame
<1>23. ContextInv'
  BY <1>1 DEF ContextInv, TypeOK, Masked, SpinLk, HoldLk, Owning
<1>24. PlaceInv'
  BY <1>1, <1>3 DEF PlaceInv, TypeOK
<1>25. ReadyInv'
  BY <1>1, <1>3, <1>4 DEF ReadyInv, TypeOK
<1>26. WaitingInv'
  BY <1>1, <1>3, <1>4, <1>8, <1>10 DEF WaitingInv, LkInv, HoldsLk, TypeOK, ContextInv
<1>27. HandInv'
  <2> SUFFICES ASSUME NEW u \in Threads, NEW v, v = woken'[u]
               PROVE  /\ v # NULL <=> pc'[u] \in {"sr_ready", "cr_ready"}
                      /\ pc'[u] = "cr_ready" => pc'[v] = "fresh" /\ ~Running(v)'
                      /\ pc'[u] = "sr_ready" =>
                           /\ pc'[v] = "sa_again" /\ v \notin irq'
                           /\ sp'[v] \in {"pick", "ret"} /\ state'[v] = "SLEEPING"
                           /\ Running(v)' => sp'[v] = "pick"
    BY Zenon DEF HandInv
  <2>0. sp' = sp /\ state' = state /\ irq' = irq /\ \A x \in Threads : x # t => pc'[x] = pc[x]
    BY <1>1, Zenon DEF TypeOK
  <2>1. CASE u = t
    <3>1. woken'[u] = w /\ pc'[u] = "sr_ready" /\ w # NULL /\ w \in Threads
      BY <1>1, <1>8, <1>9, <2>1 DEF TypeOK
    <3> QED
      BY <1>3, <1>11, <2>0, <3>1, Zenon
  <2>2. CASE u # t
    <3>1. woken'[u] = woken[u] /\ pc'[u] = pc[u]
      BY <1>9, <2>0, <2>2, Zenon DEF TypeOK
    <3>2. woken[u] # NULL <=> pc[u] \in {"sr_ready", "cr_ready"}
      BY Zenon DEF HandInv
    <3>3. CASE woken[u] = NULL
      BY <3>1, <3>2, <3>3, Zenon
    <3>4. CASE woken[u] # NULL
      <4>1. woken[u] \in Threads /\ woken[u] \in InHand
        BY <3>4, Zenon DEF InHand, TypeOK
      <4>2. pc'[woken[u]] = pc[woken[u]]
        BY <1>1, <2>0, <4>1, InHandFacts, Zenon
      <4> QED
        BY <1>3, <2>0, <3>1, <3>2, <4>1, <4>2 DEF HandInv
    <3> QED
      BY <3>3, <3>4, Zenon
  <2> QED
    BY <2>1, <2>2, Zenon
<1>28. SchedLockInv'
  BY <1>1, <1>2, SchedLockFrame, Zenon DEF TypeOK
<1>29. LkInv'
  BY <1>1 DEF LkInv, HoldsLk, TypeOK, HoldLk, Owning
<1>30. DyingInv'
  BY <1>1, <1>3 DEF DyingInv, TypeOK
<1>31. NoLostWakeup'
  <2>1. t \notin Waiting'
    BY <1>1, <1>8, Zenon DEF WaitingInv
  <2> QED
    BY <1>1, <1>4, <1>8, <1>12, <2>1, Zenon DEF NoLostWakeup, TypeOK
<1>32. DisjointInv'
  <2>1. \A u \in Threads : woken[u] # w
    BY <1>4, <1>8, Zenon DEF InHand
  <2> QED
    BY <1>1, <1>4, <1>8, <1>9, <1>12, <2>1 DEF DisjointInv, TypeOK, NoRepeat
<1> QED
  BY <1>20, <1>21, <1>22, <1>23, <1>24, <1>25, <1>26, <1>27, <1>28, <1>29, <1>30, <1>31, <1>32, Zenon

\* sched_ready puts the thread in hand into the ready queue.
LEMMA ReadyStep ==
  ASSUME IInv, NEW c \in Cpus, NEW t \in Workers, NEW from, NEW to, At(c, t, from),
         Goto(t, to), sched_lock = NULL, state' = [state EXCEPT ![woken[t]] = "READY"],
         ready_queue' = Append(ready_queue, woken[t]), On(c), woken' = [woken EXCEPT ![t] = NULL],
         UNCHANGED <<sched_lock, lockVars, sp, arg, dying, irq>>,
         \/ from = "sr_ready" /\ to = "sr_unlock"
         \/ from = "cr_ready" /\ to = "run"
  PROVE  IInv'
<1> USE ConstantsAssumption DEF IInv, Threads
<1>1. /\ cpu[c].thread = t /\ sp[t] = "out" /\ dying[t] = {} /\ t \notin irq /\ pc[t] = from /\ pc' = [pc EXCEPT ![t] = to]
      /\ sched_lock = NULL /\ state' = [state EXCEPT ![woken[t]] = "READY"]
      /\ ready_queue' = Append(ready_queue, woken[t]) /\ On(c) /\ woken' = [woken EXCEPT ![t] = NULL]
      /\ UNCHANGED <<sched_lock, lk, waiters, holder, sp, arg, dying, irq>>
  BY Zenon DEF At, Goto, lockVars
<1>2. /\ cpu' \in [Cpus -> CpuRecord]
      /\ \A d \in Cpus : cpu'[d].thread = cpu[d].thread
      /\ \A d \in Cpus : d # c => cpu'[d] = cpu[d]
      /\ cpu[c].num_disabled # 0 => cpu'[c].num_disabled = cpu[c].num_disabled - 1
      /\ cpu'[c].num_disabled # 0 => cpu'[c].level = "OFF"
  BY <1>1, OnFacts, Zenon
<1>3. \A u \in Threads : Running(u)' <=> Running(u)
  BY <1>2, RunningFrame, Zenon
<1> DEFINE w == woken[t]
<1>14. w # NULL /\ w \in Workers /\ ready_queue \in Seq(Workers)
  BY <1>1 DEF HandInv, TypeOK
<1>8. /\ w # NULL /\ w \in Workers /\ ready_queue \in Seq(Workers)
      /\ InHand' = InHand \ {w} /\ w \in InHand
  BY <1>1, <1>14, InHandClear, Zenon
<1>9. /\ w \notin Ready /\ w \notin Waiting /\ NoRepeat(ready_queue)
      /\ state' = [state EXCEPT ![w] = "READY"] /\ ready_queue' = Append(ready_queue, w)
  BY <1>1, <1>8, Zenon DEF DisjointInv
<1>10. /\ from = "sr_ready" => pc[w] = "sa_again"
       /\ from = "cr_ready" => pc[w] = "fresh"
  BY <1>1, Zenon DEF HandInv
<1> HIDE DEF w
<1>11. w # t /\ ~Running(w) /\ pc[w] \in {"fresh", "sa_again"}
  <2>1. \A d \in Cpus : ~Switching(d)
    BY <1>1, Zenon DEF SchedLockInv
  <2>2. Running(w) => sp[w] # "pick"
    BY <2>1, <1>8, Zenon DEF Switching, Running
  <2> QED
    BY <2>2, <1>8, <1>1, InHandFacts, Zenon
<1>4. /\ Waiting' = Waiting /\ Ready' = Ready \cup {w}
      /\ ready_queue' \in Seq(Workers) /\ NoRepeat(ready_queue')
      /\ Ready \subseteq Workers /\ Waiting \subseteq Workers /\ InHand \subseteq Workers
  <2>1. Waiting' = Waiting
    BY <1>1, Zenon DEF Waiting
  <2>2. /\ ready_queue' \in Seq(Workers) /\ NoRepeat(ready_queue')
        /\ Elems(ready_queue') = Elems(ready_queue) \cup {w}
    BY <1>8, <1>9, ElemsAppend DEF Ready
  <2> QED
    BY <2>1, <2>2, ListTypes, Zenon DEF Ready
<1>15. /\ sp' = sp /\ arg' = arg /\ dying' = dying /\ irq' = irq /\ sched_lock' = sched_lock
       /\ lk' = lk /\ waiters' = waiters /\ holder' = holder
  BY <1>1, Zenon
<1>16. /\ pc' = [pc EXCEPT ![t] = to] /\ pc[t] = from
       /\ (from = "sr_ready" /\ to = "sr_unlock") \/ (from = "cr_ready" /\ to = "run")
       /\ dying[t] = {} /\ t \notin irq /\ sp[t] = "out"
  BY <1>1, Zenon
<1>5. /\ cpu[c].thread = t /\ t \in Threads
      /\ cpu[c].num_disabled = SpinDepth(pc[t], sp[t], arg[t])
      /\ cpu[c].num_disabled > 0 => cpu[c].level = "OFF"
      /\ cpu[c].num_disabled \in Nat
  BY <1>1 DEF NestingExact, TypeOK
<1>6. /\ cpu'[c].num_disabled = SpinDepth(pc'[t], sp'[t], arg'[t])
      /\ cpu'[c].num_disabled > 0 => cpu'[c].level = "OFF"
  BY <1>1, <1>2, <1>5 DEF SpinDepth, TypeOK, CpuRecord, SpinLk, HoldLk
<1>7. \A u \in Threads : u # t => pc'[u] = pc[u] /\ sp'[u] = sp[u] /\ arg'[u] = arg[u]
  BY <1>1, Zenon DEF TypeOK
<1>20. TypeOK'
  <2>1. state' \in [Threads -> States]
    BY <1>8, <1>9, Zenon DEF TypeOK, States
  <2>3. woken' \in [Threads -> Workers \cup {NULL}]
    BY <1>1, Zenon DEF TypeOK
  <2>2. pc' \in [Threads -> Labels]
    BY <1>1, Zenon DEF TypeOK, Labels, HoldLk
  <2> QED
    BY <1>2, <1>4, <1>15, <2>1, <2>2, <2>3 DEF TypeOK, CpuRecord
<1>21. CpuInv'
  BY <1>1, <1>2, CpuFrame DEF TypeOK
<1>22. NestingExact'
  BY <1>2, <1>5, <1>6, <1>7, NestingFrame
<1>23. ContextInv'
  BY <1>15, <1>16 DEF ContextInv, TypeOK, Masked, SpinLk, HoldLk, Owning
<1>24. PlaceInv'
  <2>1. \A u \in Threads : u # w => state'[u] = state[u]
    BY <1>9, Zenon DEF TypeOK
  <2>2. sp[w] \notin {"unlock", "pick"}
    BY <1>8, <1>11, Zenon DEF PlaceInv, ContextInv
  <2> QED
    BY <1>1, <1>3, <1>8, <1>11, <2>1, <2>2 DEF PlaceInv, TypeOK
<1>25. ReadyInv'
  BY <1>1, <1>3, <1>4, <1>8, <1>9, <1>11 DEF ReadyInv, TypeOK
<1>26. WaitingInv'
  BY <1>1, <1>3, <1>4, <1>8, <1>9, <1>11 DEF WaitingInv, TypeOK
<1>27. HandInv'
  BY <1>1, <1>3, <1>4, <1>8, <1>9, <1>11 DEF HandInv, TypeOK, DisjointInv
<1>28. SchedLockInv'
  BY <1>1, <1>2, SchedLockFrame, Zenon DEF TypeOK
<1>29. LkInv'
  BY <1>1 DEF LkInv, HoldsLk, TypeOK, HoldLk, Owning
<1>30. DyingInv'
  BY <1>1, <1>3, <1>8, <1>9, <1>11 DEF DyingInv, TypeOK
<1>31. NoLostWakeup'
  BY <1>1, <1>4, <1>8, <1>9, <1>10, Zenon DEF NoLostWakeup, TypeOK
<1>32. DisjointInv'
  BY <1>1, <1>4, <1>8, <1>9 DEF DisjointInv, TypeOK
<1> QED
  BY <1>20, <1>21, <1>22, <1>23, <1>24, <1>25, <1>26, <1>27, <1>28, <1>29, <1>30, <1>31, <1>32, Zenon
=============================================================================
