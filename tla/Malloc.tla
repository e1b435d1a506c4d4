------------------------------- MODULE Malloc -------------------------------
(***************************************************************************)
(* The user-level allocator (lib/malloc.c) on sbrk.  Addresses count        *)
(* headers; base is the static header, below the heap.  free list nodes are *)
(* in a circle by address: ptr and size are the fields of each header.      *)
(***************************************************************************)
EXTENDS Integers, Sequences, FiniteSets, FiniteSetsExt, Functions, TLC

CONSTANTS
  HEAP,                    \* where the heap starts
  LIMIT,                   \* where the stack's region starts
  MINCORE,                 \* the least that morecore asks for (4096)
  Sizes,                   \* the requests, in units without the header
  MaxAllocs

VARIABLES
  heap,                    \* ptr and size by address, freep, the break, dead
  given                    \* history: the blocks handed out, address -> units

mallocVars == <<heap, given>>

base == 0
NoBlock == -1

\* Where bp goes: after the p that the search from freep stops at.
RECURSIVE Seek(_, _, _)
Seek(h, bp, p) ==
  LET q == h.ptr[p]
  IN IF (bp > p /\ bp < q) \/ (p >= q /\ (bp > p \/ bp < q)) THEN p ELSE Seek(h, bp, q)

\* Mutant: the block is not joined to the one below it.
FreeNoJoin(h, bp) ==
  LET p == Seek(h, bp, h.freep)
      q == h.ptr[p]
  IN [h EXCEPT !.ptr = (p :> bp) @@ (bp :> q) @@ @, !.freep = p]

Free(h, bp) ==
  LET p == Seek(h, bp, h.freep)
      q == h.ptr[p]
      up == bp + h.size[bp] = q
      size == IF up THEN h.size[bp] + h.size[q] ELSE h.size[bp]
      next == IF up THEN h.ptr[q] ELSE q
      ptr == (bp :> next) @@ Restrict(h.ptr, DOMAIN h.ptr \ (IF up THEN {q} ELSE {}))
      sizes == (bp :> size) @@ Restrict(h.size, DOMAIN h.size \ (IF up THEN {q} ELSE {}))
      down == p + h.size[p] = bp
  IN IF down THEN [h EXCEPT !.ptr = (p :> next) @@ Restrict(ptr, DOMAIN ptr \ {bp}),
                            !.size = (p :> h.size[p] + size) @@ Restrict(sizes, DOMAIN sizes \ {bp}),
                            !.freep = p]
     ELSE [h EXCEPT !.ptr = (p :> bp) @@ ptr, !.size = sizes, !.freep = p]

\* sbrk returns the old break, also when the heap could not grow (sys_sbrk); the header that
\* is then written lies outside the heap.
morecore(h, nu) ==
  LET n == Max({nu, MINCORE})
  IN IF h.brk + n > LIMIT THEN [h EXCEPT !.dead = TRUE]
     ELSE Free([h EXCEPT !.brk = @ + n, !.size = (h.brk :> n) @@ @], h.brk)

\* The first block that is large enough, from freep on; its upper part is handed out.
RECURSIVE Fit(_, _, _, _)
Fit(h, n, prev, p) ==
  IF h.size[p] = n
    THEN [heap |-> [h EXCEPT !.ptr = (prev :> h.ptr[p]) @@ Restrict(@, DOMAIN @ \ {p}), !.freep = prev], at |-> p]
  ELSE IF h.size[p] > n
    THEN [heap |-> [h EXCEPT !.size = (p :> h.size[p] - n) @@ (p + h.size[p] - n :> n) @@ @, !.freep = prev],
          at |-> p + h.size[p] - n]
  ELSE IF p = h.freep
    THEN LET g == morecore(h, n) IN IF g.dead THEN [heap |-> g, at |-> NoBlock] ELSE Fit(g, n, g.freep, g.ptr[g.freep])
  ELSE Fit(h, n, p, h.ptr[p])

MallocInit ==
  /\ heap = [ptr |-> (base :> base), size |-> (base :> 0), freep |-> base, brk |-> HEAP, dead |-> FALSE]
  /\ given = <<>>

malloc(n) ==
  LET r == Fit(heap, n + 1, heap.freep, heap.ptr[heap.freep])
  IN /\ ~heap.dead /\ Cardinality(DOMAIN given) < MaxAllocs
     /\ heap' = r.heap
     /\ given' = IF r.at = NoBlock THEN given ELSE given @@ (r.at :> n + 1)

free(bp) ==
  /\ ~heap.dead
  /\ heap' = Free(heap, bp)
  /\ given' = Restrict(given, DOMAIN given \ {bp})

MallocNext ==
  \/ \E n \in Sizes : malloc(n)
  \/ \E bp \in DOMAIN given : free(bp)

MallocSpec == MallocInit /\ [][MallocNext]_mallocVars

-----------------------------------------------------------------------------
Units(a, n) == a..(a + n - 1)

\* The blocks handed out and the blocks on the free list do not overlap and fill the heap, a
\* block keeps the size that was asked for while it is in use, the free list goes round by
\* address through every free block, and free neighbours are one block.
HeapExact ==
  LET nodes == DOMAIN heap.ptr \ {base}
      after(a) == {b \in nodes : b > a}
  IN ~heap.dead =>
     /\ UNION {Units(a, heap.size[a]) : a \in nodes} \cup UNION {Units(a, given[a]) : a \in DOMAIN given}
          = HEAP..(heap.brk - 1)
     /\ MapThenSumSet(LAMBDA a : heap.size[a], nodes) + MapThenSumSet(LAMBDA a : given[a], DOMAIN given)
          = heap.brk - HEAP
     /\ \A a \in DOMAIN given : heap.size[a] = given[a]
     /\ \A a \in DOMAIN heap.ptr : heap.ptr[a] = IF after(a) = {} THEN base ELSE Min(after(a))
     /\ \A a \in nodes : a + heap.size[a] \notin nodes
     /\ heap.freep \in DOMAIN heap.ptr
=============================================================================
