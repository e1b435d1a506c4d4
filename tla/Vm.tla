--------------------------------- MODULE Vm ---------------------------------
(***************************************************************************)
(* Address spaces: regions (kernel/mm/vm.c), page tables                    *)
(* (arch/x86_64/kernel/mm/vpmap.c), page faults (kernel/pgfault.c), and     *)
(* the calls that build, copy, grow, use and destroy them (kernel/proc.c,   *)
(* kernel/syscall.c).  An address space has one thread, so an operation on  *)
(* it is one step; the k-th allocation or file read of the operation fails, *)
(* for any k.  An address is a number below WORD, a page has PG addresses   *)
(* and one cell of data; the root table has 4 entries, the others FAN = 2.  *)
(***************************************************************************)
EXTENDS Integers, Sequences, FiniteSets, FiniteSetsExt, SequencesExt, Functions, TLC, Outcome

CONSTANTS
  Procs,
  NFRAMES,                 \* the physical pages
  PG, USTACK_PAGES,
  Programs,                \* <<[vaddr, filesz, memsz, perm], ...>>: the loadable segments
  FILL,                    \* the fill of a new object, read as an address
  Probes,                  \* the addresses that are used
  Incs,                    \* the increments of sbrk
  Vals, CODE,              \* what a user writes and what a file holds; 0 is a zeroed page
  MaxFail

VARIABLES
  vm,                      \* frames, address spaces and the state of the call
  want                     \* history: what each process should see in each page

vars == <<vm, want>>

FAN == 2
Pages == 0..31
WORD == 32 * PG
USTACK_UPPERBOUND == 31 * PG
USTACK_LOWERBOUND == USTACK_UPPERBOUND - USTACK_PAGES * PG
Page(a) == a \div PG
pg_round_down(a) == a - (a % PG)
pg_round_up(a) == pg_round_down((a + PG - 1) % WORD)
PagesOf(r) == {Page(r.start) + k : k \in 0..((r.end - r.start + PG - 1) \div PG - 1)}

NoFrame == <<>>
NoSpace == [root |-> NoFrame, tab |-> <<>>, pte |-> <<>>, regions |-> <<>>, heap |-> 0]
Live(s, p) == s.as[p].root # NoFrame

-----------------------------------------------------------------------------
\* Physical pages.  Which of the free ones is taken makes no difference: a frame is named
\* for the use it is taken for, with a number in case an earlier one of that name was lost.
\* What it holds then is anything.
JUNK == -2
Take(s, use) ==
  LET f(n) == Append(use, n)
      got(g) == Val([s EXCEPT !.data = @ @@ (g :> JUNK)], g)
  IN got(f(Min({n \in 0..NFRAMES : f(n) \notin DOMAIN s.data})))
pmem_alloc(s, use) ==
  Then(Try(s, "NOMEM"),
       LAMBDA t : IF Cardinality(DOMAIN t.data) = NFRAMES THEN Err(t, "NOMEM") ELSE Take(t, use))
pmem_free(s, fs) ==
  [Check(s, fs \subseteq DOMAIN s.data, "freed twice") EXCEPT !.data = Restrict(@, DOMAIN @ \ fs)]

\* Kernel objects.
kmem_cache_alloc(s) == Then(Try(s, "NOMEM"), LAMBDA t : [t EXCEPT !.objs = @ + 1])
kmem_cache_free(s, n) == [s EXCEPT !.objs = @ - n]
memset(s, f, v) == [s EXCEPT !.data[f] = v]

\* An error path that gives back less than was taken.
Lose(s) == [s EXCEPT !.lossy = TRUE]

-----------------------------------------------------------------------------
\* The walk: table l of the path to page v is entry v \div FAN^(4 - l) of level l.
Entry(l, v) == <<l, v \div FAN^(4 - l)>>
Index(l, v) == (v \div FAN^(4 - l)) % (IF l = 1 THEN 4 ELSE FAN)
Table(s, p, l, v) ==
  IF Entry(l, v) \in DOMAIN s.as[p].tab THEN Err(s, "OK")
  ELSE Then(pmem_alloc(s, <<p>> \o Entry(l, v)), LAMBDA t : [t EXCEPT !.as[p].tab = @ @@ (Entry(l, v) :> t.val)])

\* find_pte(.., 1): tables made before one cannot be had are kept.
find_pte(s, p, v) ==
  Then(Table(s, p, 1, v), LAMBDA t : Then(Table(t, p, 2, v), LAMBDA u : Table(u, p, 3, v)))

vpmap_map(s, p, v, f, perm) ==
  Then(find_pte(s, p, v),
       LAMBDA t : [t EXCEPT !.as[p].pte = (v :> [frame |-> f, perm |-> perm]) @@ @])

\* unmap_pages, unmap_pdpt, unmap_pd: the entry of level l on the path to v is visited.
\* A level starts at start's index under the first entry of the level above and at 0 under
\* the others; it goes up to the index of end, or to the end of the table.
First(l, v, start) ==
  LET low[k \in 1..4] == IF k = 1 THEN Index(1, start)
                         ELSE IF Index(k - 1, v) = low[k - 1] THEN Index(k, start) ELSE 0
  IN low[l]
Limit(l, v, start, end) ==
  IF First(l, v, start) < Index(l, end) THEN FAN - 1 ELSE Index(l, end)
Visited(l, v, start, end) ==
  /\ Index(1, v) \in Index(1, start)..Index(1, end - 1)
  /\ \A k \in 2..l : Index(k, v) \in First(k, v, start)..Limit(k, v, start, end)

\* clear_pte drops the only reference to the frame.
ClearPtes(s, p, start, end) ==
  LET gone == {v \in DOMAIN s.as[p].pte : Visited(4, v, start, end)}
  IN [pmem_free(s, {s.as[p].pte[v].frame : v \in gone})
        EXCEPT !.as[p].pte = Restrict(@, DOMAIN @ \ gone)]

vpmap_create(s, p) ==
  Then(kmem_cache_alloc(s),
       LAMBDA t : Cases(pmem_alloc(t, <<p, 0, 0>>), LAMBDA u : [u EXCEPT !.as[p].root = u.val], Lose))

\* Mutant: the tables stay behind.
DestroyKeepsTables(s, p) ==
  LET t == ClearPtes(s, p, 0, Page(USTACK_UPPERBOUND))
  IN kmem_cache_free([pmem_free(t, {t.as[p].root}) EXCEPT !.as[p].tab = <<>>, !.as[p].root = NoFrame], 1)

vpmap_destroy(s, p) ==
  LET t == ClearPtes(s, p, 0, Page(USTACK_UPPERBOUND))
      gone == {e \in DOMAIN t.as[p].tab : Visited(e[1], e[2] * FAN^(4 - e[1]), 0, Page(USTACK_UPPERBOUND))}
  IN kmem_cache_free([pmem_free(t, {t.as[p].tab[e] : e \in gone} \cup {t.as[p].root})
                        EXCEPT !.as[p].tab = <<>>, !.as[p].root = NoFrame], 1)

\* One page of vpmap_copy: a page the source has is copied to a new frame.
CopyPage(s, src, dst, v, perm) ==
  IF v \notin DOMAIN s.as[src].pte THEN Err(s, "OK")
  ELSE Then(find_pte(s, dst, v),
            LAMBDA t : IF v \in DOMAIN t.as[dst].pte THEN Err(t, "VPMAP_MAP")
                       ELSE Then(pmem_alloc(t, <<dst, 4, v>>),
                                 LAMBDA u : vpmap_map(memset(u, u.val, u.data[u.as[src].pte[v].frame]),
                                                      dst, v, u.val, perm)))
vpmap_copy(s, src, dst, r) ==
  FoldLeft(LAMBDA t, v : Then(t, LAMBDA u : CopyPage(u, src, dst, v, r.perm)),
           Err(s, "OK"), [k \in 1..Cardinality(PagesOf(r)) |-> Page(r.start) + k - 1])

-----------------------------------------------------------------------------
\* memregion_find_internal: the regions that hold size addresses from a on.
Find(s, p, a, size) ==
  {r \in Range(s.as[p].regions) : a >= r.start /\ (a + size) % WORD <= pg_round_up(r.end)}

\* memregion_comparator, list_append_ordered: the new region goes before the first one that
\* starts at or above its end, which is not set yet.
Place(rs, r) ==
  LET k == SelectInSeq(rs, LAMBDA q : q.start >= FILL)
  IN IF k = 0 THEN Append(rs, r) ELSE InsertAt(rs, k, r)

memregion_map_internal(s, p, a, size, perm) ==
  IF Find(s, p, a, (a + size) % WORD) # {} THEN Err(s, "NOMEM")
  ELSE Then(kmem_cache_alloc(s),
            LAMBDA t : [t EXCEPT !.as[p].regions =
                                   Place(@, [start |-> a, end |-> a + size, perm |-> perm])])

memregion_unmap_internal(s, p, r) ==
  LET n == Cardinality(PagesOf(r))
      t == IF Live(s, p) /\ n > 0 THEN ClearPtes(s, p, Page(r.start), Page(r.start) + n) ELSE s
  IN kmem_cache_free([t EXCEPT !.as[p].regions = SelectSeq(@, LAMBDA q : q # r)], 1)

memregion_copy_internal(s, src, dst, r) ==
  Then(memregion_map_internal(s, dst, r.start, r.end - r.start, r.perm),
       LAMBDA t : Else(vpmap_copy(t, src, dst, r), LAMBDA u : memregion_unmap_internal(u, dst, r)))

as_init(s, p) == vpmap_create(s, p)

as_destroy(s, p) ==
  FoldLeft(LAMBDA t, r : memregion_unmap_internal(t, p, r), vpmap_destroy(s, p), s.as[p].regions)

as_copy_as(s, src, dst) ==
  FoldLeft(LAMBDA t, r : Then(t, LAMBDA u : memregion_copy_internal(u, src, dst, r)),
           [s EXCEPT !.as[dst].heap = s.as[src].heap], s.as[src].regions)


memregion_extend(s, p, h, inc) ==
  LET end == (h.end + inc) % WORD
      overlaps(q) == \/ q.start < end /\ q.start >= h.start
                     \/ h.start < q.end /\ h.start >= q.start
  IN IF inc = 0 THEN Err(s, "OK")
     ELSE IF end < h.start THEN Err(s, "VM_INVALID")
     ELSE IF \E q \in Range(s.as[p].regions) \ {h} : overlaps(q) THEN Err(s, "VM_BOUND")
     ELSE [s EXCEPT !.err = "OK", !.as[p].regions =
                      [k \in DOMAIN @ |-> IF @[k] = h THEN [h EXCEPT !.end = end] ELSE @[k]]]

\* as.heap is a pointer; no two regions of a process start at the same address.
Heap(s, p) == CHOOSE r \in Range(s.as[p].regions) : r.start = s.as[p].heap

-----------------------------------------------------------------------------
\* A page of a segment is zeroed, read from the file as far as that goes, and mapped; the
\* frame is not freed if it cannot be.
LoadPage(s, p, g, k) ==
  LET fromFile == k * PG < g.filesz + (g.vaddr % PG) /\ g.filesz > 0
  IN Then(pmem_alloc(s, <<p, 4, Page(g.vaddr) + k>>),
          LAMBDA t : Then(IF fromFile THEN Else(Try(t, "INVAL"), Lose) ELSE t,
                          LAMBDA u : Else(vpmap_map(memset(u, t.val, IF fromFile THEN CODE ELSE 0), p,
                                                    Page(g.vaddr) + k, t.val, g.perm), Lose)))

LoadSegment(s, p, g) ==
  LET size == pg_round_up(g.memsz + (g.vaddr % PG))
  IN Then(memregion_map_internal(s, p, pg_round_down(g.vaddr), size, g.perm),
          LAMBDA t : FoldLeft(LAMBDA u, k : Then(u, LAMBDA w : LoadPage(w, p, g, k - 1)),
                              Val(t, 0), [k \in 1..(size \div PG) |-> k]))

proc_load(s, p, prog) ==
  LET g == prog[Len(prog)]
      end == pg_round_down(g.vaddr) + pg_round_up(g.memsz + (g.vaddr % PG))
  IN Then(FoldLeft(LAMBDA t, q : Then(t, LAMBDA u : Then(Try(u, "INVAL"), LAMBDA w : LoadSegment(w, p, q))),
                   Try(s, "INVAL"), prog),
          LAMBDA t : Then(memregion_map_internal(t, p, end, 0, "URW"),
                          LAMBDA u : [u EXCEPT !.as[p].heap = end]))

stack_setup(s, p) ==
  Then(pmem_alloc(s, <<p, 4, Page(USTACK_UPPERBOUND) - 1>>),
       LAMBDA t : Else(Then(memregion_map_internal(memset(t, t.val, 0), p, USTACK_LOWERBOUND,
                                                   USTACK_PAGES * PG, "URW"),
                            LAMBDA u : vpmap_map(u, p, Page(USTACK_UPPERBOUND) - 1, t.val, "URW")),
                       LAMBDA u : pmem_free(u, {t.val})))

\* proc_init: the address space, then the root directory as the working directory.
proc_init(s, p) ==
  Then(as_init(s, p), LAMBDA t : Else(Try(t, "NOMEM"), LAMBDA u : as_destroy(u, p)))

\* thread_create comes last, in both.
proc_spawn(s, p, prog) ==
  Then(proc_init(s, p),
       LAMBDA t : Else(Then(proc_load(t, p, prog),
                            LAMBDA u : Then(stack_setup(u, p), LAMBDA w : Try(w, "NOMEM"))),
                       LAMBDA u : as_destroy(u, p)))

\* A copy that failed half-way is not destroyed: only the process structure is freed.
proc_fork(s, p, c) ==
  Then(proc_init(s, c),
       LAMBDA t : Cases(as_copy_as(t, p, c),
                        LAMBDA u : Else(Try(u, "NOMEM"), LAMBDA w : as_destroy(w, c)),
                        Lose))

\* Mutant: the page is mapped as it was left by its last owner.
FaultNotZeroed(s, p, a) ==
  IF \/ a >= USTACK_LOWERBOUND /\ a < USTACK_UPPERBOUND
     \/ a >= Heap(s, p).start /\ a < Heap(s, p).end
    THEN Then(pmem_alloc(s, <<p, 4, Page(a)>>),
              LAMBDA t : Else(vpmap_map(t, p, Page(a), t.val, "URW"), LAMBDA u : pmem_free(u, {t.val})))
    ELSE Err(s, "FAULT")

\* A fault of the process itself: a page of the stack or of the heap is added; anything
\* else ends the process.
handle_page_fault(s, p, a) ==
  IF \/ a >= USTACK_LOWERBOUND /\ a < USTACK_UPPERBOUND
     \/ a >= Heap(s, p).start /\ a < Heap(s, p).end
    THEN Then(pmem_alloc(s, <<p, 4, Page(a)>>),
              LAMBDA t : Else(vpmap_map(memset(t, t.val, 0), p, Page(a), t.val, "URW"),
                              LAMBDA u : pmem_free(u, {t.val})))
    ELSE Err(s, "FAULT")

Allowed(s, p, a, write) ==
  Page(a) \in DOMAIN s.as[p].pte /\ (write => s.as[p].pte[Page(a)].perm = "URW")
Store(s, p, a, x) == memset(s, s.as[p].pte[Page(a)].frame, x)

validate_ptr(s, p, a, size) == a + size < WORD /\ Find(s, p, a, size) # {}

-----------------------------------------------------------------------------
Read == -1

Init ==
  /\ vm = [data |-> <<>>, as |-> [p \in Procs |-> NoSpace],
           objs |-> 0, lossy |-> FALSE, err |-> "OK", val |-> 0, panic |-> "none", fail |-> 0]
  /\ want = [p \in Procs |-> [v \in Pages |-> 0]]

\* Bound: what follows a failure that loses memory is the same with less memory.
Ready == vm.panic = "none" /\ ~vm.lossy
Begin(k) == [vm EXCEPT !.fail = k]

\* The state a call leaves, without what only the call needed.
End(s) ==
  [s EXCEPT !.fail = 0, !.err = "OK", !.val = 0,
            !.as = [p \in Procs |-> IF @[p].root = NoFrame THEN NoSpace ELSE @[p]]]

Spawn(p, prog, k) ==
  LET s == proc_spawn(Begin(k), p, prog)
  IN /\ Ready /\ ~Live(vm, p)
     /\ vm' = End(s)
     /\ want' = [want EXCEPT ![p] = [v \in Pages |->
          IF \E g \in Range(prog) : g.filesz > 0 /\ v \in Page(g.vaddr)..Page(g.vaddr + g.filesz - 1)
            THEN CODE ELSE 0]]

Forget(s, c) == IF s.err = "OK" THEN s ELSE [s EXCEPT !.as[c] = NoSpace]

Fork(p, c, k) ==
  LET s == proc_fork(Begin(k), p, c)
  IN /\ Ready /\ Live(vm, p) /\ ~Live(vm, c)
     /\ vm' = End(Forget(s, c))
     /\ want' = [want EXCEPT ![c] = [v \in Pages |->
          IF \E r \in Range(vm.as[p].regions) : v \in PagesOf(r) THEN want[p][v] ELSE 0]]

proc_exit(p) ==
  /\ Ready /\ Live(vm, p)
  /\ vm' = End(as_destroy(vm, p))
  /\ UNCHANGED want

\* An instruction of the process, run again after a fault that was mended.
Access(p, a, x, k) ==
  LET s == IF Allowed(vm, p, a, x # Read) THEN Begin(k) ELSE handle_page_fault(Begin(k), p, a)
  IN /\ Ready /\ Live(vm, p)
     /\ IF s.err = "OK"
          THEN /\ vm' = End(IF x = Read THEN s ELSE Store(s, p, a, x))
               /\ want' = IF x = Read THEN want ELSE [want EXCEPT ![p][Page(a)] = x]
          ELSE vm' = End(as_destroy(s, p)) /\ UNCHANGED want

\* The kernel reads or writes a buffer of the process during a call: it has no way to mend
\* a fault of its own.
CopyInOut(p, a, size, x) ==
  /\ Ready /\ Live(vm, p) /\ validate_ptr(vm, p, a, size)
  /\ IF \A b \in a..(a + size - 1) : Allowed(vm, p, b, x # Read)
       THEN /\ x # Read
            /\ vm' = End(FoldSet(LAMBDA b, s : Store(s, p, b, x), vm, a..(a + size - 1)))
            /\ want' = [want EXCEPT ![p] = [v \in Pages |-> IF v \in Page(a)..Page(a + size - 1) THEN x ELSE @[v]]]
       ELSE vm' = Panic(vm, "kernel fault") /\ UNCHANGED want

sys_sbrk(p, inc) ==
  /\ Ready /\ Live(vm, p)
  /\ vm' = End(memregion_extend(vm, p, Heap(vm, p), inc))
  /\ UNCHANGED want

Next ==
  \/ \E p \in Procs, prog \in Programs, k \in 0..MaxFail : Spawn(p, prog, k)
  \/ \E p \in Procs, c \in Procs, k \in 0..MaxFail : Fork(p, c, k)
  \/ \E p \in Procs : proc_exit(p)
  \/ \E p \in Procs, a \in Probes, x \in Vals \cup {Read}, k \in 0..4 : Access(p, a, x, k)
  \/ \E p \in Procs, a \in Probes, n \in 1..PG, x \in Vals \cup {Read} : CopyInOut(p, a, n, x)
  \/ \E p \in Procs, inc \in Incs : sys_sbrk(p, inc)

Spec == Init /\ [][Next]_vars

-----------------------------------------------------------------------------
Owned(p) == {vm.as[p].root} \cup Range(vm.as[p].tab) \cup {e.frame : e \in Range(vm.as[p].pte)}
Uses(p) == 1 + Cardinality(DOMAIN vm.as[p].tab) + Cardinality(DOMAIN vm.as[p].pte)
LiveProcs == {p \in Procs : Live(vm, p)}

\* Every physical page is free, or is one root, one table or one page of one address space,
\* and no page is freed twice; none is lost, nor is a vpmap or a region, unless one of the error paths that keep what
\* they took has run (vpmap_create, proc_load's page, the failed copy of fork).
MemoryExact ==
  LET owned == UNION {Owned(p) : p \in LiveProcs}
  IN /\ vm.panic # "freed twice"
     /\ owned \subseteq DOMAIN vm.data
     /\ Cardinality(owned) = MapThenSumSet(Uses, LiveProcs)
     /\ ~vm.lossy => /\ owned = DOMAIN vm.data
                     /\ vm.objs = MapThenSumSet(LAMBDA p : 1 + Len(vm.as[p].regions), LiveProcs)

\* A process sees in each page what it last wrote there, what its file or its parent at the
\* fork had there, or zero: pages are copied, zeroed and freed so that no other process
\* and no former owner shows through.
Isolated ==
  \A p \in LiveProcs, v \in Pages :
    want[p][v] = IF v \in DOMAIN vm.as[p].pte THEN vm.data[vm.as[p].pte[v].frame] ELSE 0


\* A buffer that validate_ptr accepted can be used by the kernel.
BuffersUsable == vm.panic # "kernel fault"
=============================================================================
