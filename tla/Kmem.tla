-------------------------------- MODULE Kmem --------------------------------
(***************************************************************************)
(* Kernel memory: the boot allocator and the buddy allocator of physical    *)
(* pages (kernel/mm/pmem.c), and the slab allocator of objects on top of it *)
(* (kernel/mm/kmalloc.c).  Every operation runs under its spinlock, so it   *)
(* is one step.  A page is its number.                                      *)
(***************************************************************************)
EXTENDS Integers, Sequences, FiniteSets, FiniteSetsExt, SequencesExt, Functions, TLC, Outcome

CONSTANTS
  START, END,              \* pmem_start and pmem_end, in pages
  MAX_ORDER,
  BITMAP_PAGES, PAGEMAP_PAGES,
  Caches, Allocator,       \* the object caches; Allocator's objects are the others
  SlabPages, SlabObjs,     \* of each cache: pages of a slab, objects in it
  MaxBoot, MaxBlocks, MaxObjs, MaxRef

VARIABLES
  m,                       \* bitmap, pagemap, free lists, slabs and caches
  boot,                    \* history: the pages taken before pmem_init
  held,                    \* history: the blocks handed out, with the references to each
  objs                     \* history: the objects handed out, as <<slab, index>>

vars == <<m, boot, held, objs>>

PageNos == 0..(END - 1)
NBITS == END - START
ITOP(i) == START + i
None == -1
Order(s, p) == s.page[p].order
Block(p, k) == p..(p + 2^k - 1)

-----------------------------------------------------------------------------
\* The boot allocator.  contig is bitmap_contig_start: no page is taken from there on.
bitmap_alloc(s, i, n) ==
  [Check(s, i + n <= NBITS /\ i..(i + n - 1) \cap s.bits = {}, "bitmap_alloc")
     EXCEPT !.bits = @ \cup i..(i + n - 1), !.contig = Max({@, i + n})]

bitmap_free(s, i, n) ==
  LET bits == s.bits \ i..(i + n - 1)
  IN [Check(s, i..(i + n - 1) \subseteq s.bits, "bitmap_free")
        EXCEPT !.bits = bits,
               !.contig = IF i + n = @ THEN Max({j + 1 : j \in {b \in bits : b < i}} \cup {0}) ELSE @]

\* The scan counts the pages taken before the run that it finds.
bitmap_find(s, n) ==
  LET scan == FoldLeft(LAMBDA r, i :
                         IF r.found # None THEN r
                         ELSE IF i \in s.bits THEN [r EXCEPT !.run = 0, !.first = @ + 1]
                         ELSE IF r.run + 1 >= n THEN [r EXCEPT !.found = r.first]
                         ELSE [r EXCEPT !.run = @ + 1],
                       [first |-> 0, run |-> 0, found |-> None], [i \in 1..NBITS |-> i - 1])
  IN scan.found

BootAlloc(s, n) ==
  LET i == bitmap_find(s, n)
  IN IF i = None THEN Err(s, "NOMEM") ELSE Val(bitmap_alloc(s, i, n), ITOP(i))

-----------------------------------------------------------------------------
\* The buddy allocator.
get_max_page_order(a, b) ==
  Max({0} \cup {k \in 1..MAX_ORDER : a % 2^k = 0 /\ a + 2^k <= b})
get_min_page_order(n) == Min({k \in 0..MAX_ORDER : 2^k >= n})

freeblocks_insert(s, p) ==
  [s EXCEPT !.page[p].ref = 0, !.list[Order(s, p)] = Append(@, p)]

freeblocks_remove(s, p) ==
  [Check(s, s.page[p].ref = 0, "freeblocks_remove")
     EXCEPT !.list[Order(s, p)] = SelectSeq(@, LAMBDA q : q # p)]

RECURSIVE freeblocks_insert_range(_, _, _)
freeblocks_insert_range(s, a, b) ==
  IF a >= b THEN s
  ELSE LET k == get_max_page_order(a, b)
       IN freeblocks_insert_range(freeblocks_insert([s EXCEPT !.page[a].order = k], a), a + 2^k, b)

find_buddy(s, p) ==
  LET k == Order(s, p)
      b == IF (p \div 2^k) % 2 = 1 THEN p - 2^k ELSE p + 2^k
  IN IF b >= END THEN None ELSE b

\* A block of the lowest order that has one is halved down to the order asked for; each
\* upper half goes on its list.
RECURSIVE SplitTo(_, _, _)
SplitTo(s, p, k) ==
  IF Order(s, p) = k THEN Val(s, p)
  ELSE LET t == [s EXCEPT !.page[p].order = @ - 1]
           b == find_buddy(t, p)
       IN SplitTo(freeblocks_insert([t EXCEPT !.page[b].order = t.page[p].order], b), p, k)

find_freeblock(s, k) ==
  LET orders == {j \in k..MAX_ORDER : s.list[j] # <<>>}
  IN IF orders = {} THEN Err(s, "NOMEM")
     ELSE LET p == Head(s.list[Min(orders)]) IN SplitTo(freeblocks_remove(s, p), p, k)

\* Mutant: a buddy that is itself split counts as free.
RECURSIVE MergeAnyOrder(_, _)
MergeAnyOrder(s, p) ==
  LET b == find_buddy(s, p)
      low == Min({p, b})
  IN IF Order(s, p) = MAX_ORDER \/ b = None THEN Val(s, p)
     ELSE IF s.page[b].ref # 0 THEN Val(s, p)
     ELSE MergeAnyOrder([freeblocks_remove(s, b) EXCEPT !.page[low].order = @ + 1], low)

RECURSIVE merge_block(_, _)
merge_block(s, p) ==
  LET b == find_buddy(s, p)
      low == Min({p, b})
  IN IF Order(s, p) = MAX_ORDER \/ b = None THEN Val(s, p)
     ELSE IF s.page[b].ref # 0 \/ Order(s, b) # Order(s, p) THEN Val(s, p)
     ELSE merge_block([freeblocks_remove(s, b) EXCEPT !.page[low].order = @ + 1], low)

pmem_nalloc(s, n) ==
  Then(find_freeblock(s, get_min_page_order(n)),
       LAMBDA t : [Check(t, t.page[t.val].ref = 0, "pmem_nalloc")
                     EXCEPT !.page[t.val].ref = 1, !.page[t.val].slab = None])

\* The whole block is freed, whatever number of pages the caller says.
pmem_nfree(s, p) ==
  LET t == merge_block([s EXCEPT !.page[p].ref = 0], p) IN freeblocks_insert(t, t.val)

\* pmem_init: the pagemap is taken, the bitmap's own pages are freed, every page taken so
\* far is a block of one page, and the others are made into blocks.
MarkTaken(s) ==
  [s EXCEPT !.page = [p \in PageNos |->
     IF p < START \/ (p - START) \in s.bits THEN [@[p] EXCEPT !.ref = 1, !.order = 0] ELSE @[p]]]
FreeRuns(s) ==
  {r \in (0..s.contig) \X (0..s.contig) :
     /\ r[1] < r[2] /\ r[1]..(r[2] - 1) \cap s.bits = {}
     /\ r[1] - 1 \in s.bits \cup {-1} /\ r[2] \in s.bits}
freeblocks_init(s) ==
  LET t == MarkTaken(bitmap_free(s, 0, BITMAP_PAGES))
      runs == SetToSortSeq(FreeRuns(t), LAMBDA a, b : a[1] < b[1])
  IN freeblocks_insert_range(FoldLeft(LAMBDA u, r : freeblocks_insert_range(u, ITOP(r[1]), ITOP(r[2])), t, runs),
                             ITOP(t.contig), END)

-----------------------------------------------------------------------------
\* The slab allocator.  A slab is named by its first page; free heads the chain of its free
\* objects through arr.
slab_create(s, c) ==
  Then(pmem_nalloc(s, SlabPages[c]),
       LAMBDA t : [t EXCEPT
         !.slab = (t.val :> [cache |-> c, free |-> 0,
                             arr |-> [i \in 0..(SlabObjs[c] - 1) |-> IF i = SlabObjs[c] - 1 THEN None ELSE i + 1]]) @@ @,
         !.page = [p \in PageNos |-> IF p \in t.val..(t.val + SlabPages[c] - 1)
                                       THEN [@[p] EXCEPT !.slab = t.val] ELSE @[p]],
         !.cache[c].free = Append(@, t.val)])

\* The first free object of slab b; a slab without another one moves to the full list.
TakeObj(s, c, b) ==
  LET i == s.slab[b].free
      last == s.slab[b].arr[i] = None
  IN Val([Check(s, i # None, "slab") EXCEPT
            !.slab[b].free = s.slab[b].arr[i],
            !.cache[c].free = IF last THEN SelectSeq(@, LAMBDA q : q # b) ELSE @,
            !.cache[c].full = IF last THEN Append(@, b) ELSE @], <<b, i>>)
kmem_cache_alloc(s, c) ==
  Then(IF s.cache[c].free = <<>> THEN slab_create(s, c) ELSE Err(s, "OK"),
       LAMBDA t : TakeObj(t, c, Head(t.cache[c].free)))

\* Object <<b, i>> lies in the page that slab b's layout puts it in; the slab is found
\* through that page.
PageOfObj(s, o) == o[1] + (o[2] * SlabPages[s.slab[o[1]].cache]) \div SlabObjs[s.slab[o[1]].cache]

\* Mutant: a full slab that gets an object back stays on the full list.
FreeStaysFull(s, o) ==
  LET b == s.page[PageOfObj(s, o)].slab
  IN [Check(s, b # None, "kmem_cache_free") EXCEPT !.slab[b].arr[o[2]] = s.slab[b].free, !.slab[b].free = o[2]]

kmem_cache_free(s, o) ==
  LET b == s.page[PageOfObj(s, o)].slab
      c == s.slab[b].cache
      full == s.slab[b].free = None
  IN [Check(s, b # None, "kmem_cache_free") EXCEPT
        !.slab[b].arr[o[2]] = s.slab[b].free,
        !.slab[b].free = o[2],
        !.cache[c].full = IF full THEN SelectSeq(@, LAMBDA q : q # b) ELSE @,
        !.cache[c].free = IF full THEN Append(@, b) ELSE @]

slab_list_destroy(s, bs) ==
  FoldLeft(LAMBDA t, b : [pmem_nfree(t, b) EXCEPT !.slab = Restrict(@, DOMAIN @ \ {b})], s, bs)

\* The cache itself is an object of the allocator.
kmem_cache_create(s, c) ==
  Then(kmem_cache_alloc(s, Allocator), LAMBDA t : [t EXCEPT !.cache[c] = [self |-> t.val, free |-> <<>>, full |-> <<>>]])
kmem_cache_destroy(s, c) ==
  [kmem_cache_free(slab_list_destroy(slab_list_destroy(s, s.cache[c].free), s.cache[c].full), s.cache[c].self)
     EXCEPT !.cache[c] = [self |-> <<>>, free |-> <<>>, full |-> <<>>]]

-----------------------------------------------------------------------------
Init ==
  /\ m = bitmap_alloc([phase |-> "boot", bits |-> {}, contig |-> 0,
                       page |-> [p \in PageNos |-> [ref |-> 0, order |-> 0, slab |-> None]],
                       list |-> [k \in 0..MAX_ORDER |-> <<>>],
                       slab |-> <<>>, cache |-> [c \in Caches |-> [self |-> <<>>, free |-> <<>>, full |-> <<>>]],
                       err |-> "OK", val |-> None, panic |-> "none", fail |-> 0], 0, BITMAP_PAGES)
  /\ boot = {} /\ held = <<>> /\ objs = {}

End(s) == [s EXCEPT !.err = "OK", !.val = None]
Running == m.phase = "run" /\ m.panic = "none"
Result(s, onOk(_)) ==
  m' = End(s) /\ UNCHANGED boot /\ IF s.err = "OK" THEN onOk(s.val) ELSE UNCHANGED <<held, objs>>

BootTakes(n) ==
  LET s == BootAlloc(m, n)
  IN /\ m.phase = "boot" /\ Cardinality(boot) < MaxBoot
     /\ m' = End(s)
     /\ boot' = IF s.err = "OK" THEN boot \cup s.val..(s.val + n - 1) ELSE boot
     /\ UNCHANGED <<held, objs>>

\* Memory is large enough for the pagemap: the kernel does not start otherwise.
pmem_init ==
  LET s == BootAlloc(m, PAGEMAP_PAGES)
  IN /\ m.phase = "boot" /\ s.err = "OK"
     /\ m' = [freeblocks_init(End(s)) EXCEPT !.phase = "run", !.bits = {}, !.contig = 0]
     /\ boot' = boot \cup s.val..(s.val + PAGEMAP_PAGES - 1)
     /\ UNCHANGED <<held, objs>>

Alloc(n) ==
  /\ Running /\ Cardinality(DOMAIN held) < MaxBlocks
  /\ Result(pmem_nalloc(m, n), LAMBDA p : held' = held @@ (p :> 1) /\ UNCHANGED objs)

Free(p) ==
  /\ Running /\ held[p] = 1
  /\ m' = End(pmem_nfree(m, p))
  /\ held' = Restrict(held, DOMAIN held \ {p})
  /\ UNCHANGED <<boot, objs>>

pmem_inc_refcnt(p) ==
  /\ Running /\ Order(m, p) = 0 /\ held[p] < MaxRef
  /\ m' = [m EXCEPT !.page[p].ref = @ + 1]
  /\ held' = [held EXCEPT ![p] = @ + 1]
  /\ UNCHANGED <<boot, objs>>

pmem_dec_refcnt(p) ==
  LET s == [m EXCEPT !.page[p].ref = @ - 1]
  IN /\ Running /\ Order(m, p) = 0
     /\ m' = End(IF s.page[p].ref = 0 THEN pmem_nfree(s, p) ELSE s)
     /\ held' = IF held[p] = 1 THEN Restrict(held, DOMAIN held \ {p}) ELSE [held EXCEPT ![p] = @ - 1]
     /\ UNCHANGED <<boot, objs>>

Created(c) == m.cache[c].self # <<>>

CreateCache(c) ==
  /\ Running /\ c # Allocator /\ ~Created(c)
  /\ Result(kmem_cache_create(m, c), LAMBDA o : objs' = objs \cup {o} /\ UNCHANGED held)

DestroyCache(c) ==
  /\ Running /\ Created(c)
  /\ m' = End(kmem_cache_destroy(m, c))
  /\ objs' = {o \in objs : m.slab[o[1]].cache # c /\ o # m.cache[c].self}
  /\ UNCHANGED <<boot, held>>

AllocObj(c) ==
  /\ Running /\ Created(c) /\ Cardinality(objs) < MaxObjs
  /\ Result(kmem_cache_alloc(m, c), LAMBDA o : objs' = objs \cup {o} /\ UNCHANGED held)

FreeObj(o) ==
  /\ Running /\ m.slab[o[1]].cache # Allocator
  /\ m' = kmem_cache_free(m, o)
  /\ objs' = objs \ {o}
  /\ UNCHANGED <<boot, held>>

Next ==
  \/ \E n \in 1..2 : BootTakes(n)
  \/ pmem_init
  \/ \E n \in 1..2^MAX_ORDER : Alloc(n)
  \/ \E p \in DOMAIN held : Free(p)
  \/ \E p \in DOMAIN held : pmem_inc_refcnt(p)
  \/ \E p \in DOMAIN held : pmem_dec_refcnt(p)
  \/ \E c \in Caches : CreateCache(c)
  \/ \E c \in Caches : DestroyCache(c)
  \/ \E c \in Caches : AllocObj(c)
  \/ \E o \in objs : FreeObj(o)

Spec == Init /\ [][Next]_vars

-----------------------------------------------------------------------------
InLists(k) == Range(m.list[k])
FreePages == UNION {Block(p, k) : <<p, k>> \in {b \in PageNos \X (0..MAX_ORDER) : b[1] \in InLists(b[2])}}
Used == DOMAIN held \cup DOMAIN m.slab

\* The blocks on the free lists, the blocks handed out and the slabs never overlap, no page
\* of memory is forgotten but for those that boot took, reference counts are exact, and
\* every free run that could be one block is part of one: a request for 2^k pages fails
\* only if no aligned run of 2^k pages is free.
BlocksExact ==
  m.phase = "run" =>
    LET used == UNION {Block(p, Order(m, p)) : p \in Used}
    IN /\ m.panic = "none"
       /\ FreePages \cap (used \cup boot) = {} /\ used \cap boot = {}
       /\ FreePages \cup used \cup boot = START..(END - 1)
       /\ Cardinality(used) = MapThenSumSet(LAMBDA p : 2^Order(m, p), Used)
       /\ Cardinality(FreePages) = MapThenSumSet(LAMBDA k : 2^k * Len(m.list[k]), 0..MAX_ORDER)
       /\ \A p \in DOMAIN held : m.page[p].ref = held[p]
       /\ \A k \in 0..MAX_ORDER, p \in PageNos :
            p % 2^k = 0 /\ Block(p, k) \subseteq FreePages =>
              \E j \in k..MAX_ORDER : \E q \in InLists(j) : Block(p, k) \subseteq Block(q, j)

\* The objects of a slab that are not handed out are those on its free chain, each once, and
\* the slab is on the full list of its cache exactly when there is none.
Chain(b) ==
  LET after[n \in 0..SlabObjs[m.slab[b].cache]] ==
        IF n = 0 THEN m.slab[b].free ELSE IF after[n - 1] = None THEN None ELSE m.slab[b].arr[after[n - 1]]
  IN {after[n] : n \in DOMAIN after}
SlabsExact ==
  \A b \in DOMAIN m.slab :
    LET c == m.slab[b].cache
        free == {i \in 0..(SlabObjs[c] - 1) : <<b, i>> \notin objs}
    IN /\ Chain(b) = free \cup {None}
       /\ (b \in Range(m.cache[c].full)) <=> (free = {})
       /\ (b \in Range(m.cache[c].free)) <=> (free # {})
=============================================================================
