---------------------------- MODULE MCStructures ----------------------------
(***************************************************************************)
(* Four machines that share nothing, side by side: kernel memory, the radix *)
(* tree, console input, and the user-level allocator.  A behaviour is one   *)
(* of one of them, as the constant variable focus says.                     *)
(***************************************************************************)
EXTENDS Naturals

CONSTANTS NEWLINE, EOF, RETURN, BACKSPACE, KILL, a

VARIABLES focus, m, boot, held, objs, tree, table, input, reader, cv, heap, given

Caches == {"allocator", "cache"}
Kmem == INSTANCE Kmem WITH
  START <- 3, END <- 13, MAX_ORDER <- 2, BITMAP_PAGES <- 1, PAGEMAP_PAGES <- 2,
  Allocator <- "allocator", SlabPages <- [allocator |-> 1, cache |-> 2],
  SlabObjs <- [c \in Caches |-> 2], MaxBoot <- 2, MaxBlocks <- 3, MaxObjs <- 4, MaxRef <- 2
Tree == INSTANCE RadixTree WITH
  RADIX_TREE_WIDTH <- 2, Irqs <- {0, 1, 2, 5, 7}, Handlers <- {1, 2}, MaxAllocFail <- 5
Con == INSTANCE Console WITH
  BUF_LEN <- 3, WRAP <- 6, Readers <- {"reader"}, MaxRead <- 2, Chars <- {a, NEWLINE, EOF}
User == INSTANCE Malloc WITH
  HEAP <- 4, LIMIT <- 16, MINCORE <- 4, Sizes <- {1, 2, 4}, MaxAllocs <- 3

kmemVars == <<m, boot, held, objs>>
treeVars == <<tree, table>>
conVars == <<input, reader, cv>>
userVars == <<heap, given>>

Init ==
  /\ focus \in {"kmem", "tree", "console", "malloc"}
  /\ Kmem!Init /\ Tree!TreeInit /\ Con!ConInit /\ User!MallocInit

Next ==
  \/ focus = "kmem" /\ Kmem!Next /\ UNCHANGED <<focus, treeVars, conVars, userVars>>
  \/ focus = "tree" /\ Tree!TreeNext /\ UNCHANGED <<focus, kmemVars, conVars, userVars>>
  \/ focus = "console" /\ Con!ConNext /\ UNCHANGED <<focus, kmemVars, treeVars, userVars>>
  \/ focus = "malloc" /\ User!MallocNext /\ UNCHANGED <<focus, kmemVars, treeVars, conVars>>

Spec == Init /\ [][Next]_<<focus, kmemVars, treeVars, conVars, userVars>>

\* pmem: no page is lost or handed out twice, and free buddies are merged.
BlocksExact == Kmem!BlocksExact

\* kmalloc: a slab's free chain holds exactly the objects that are not handed out.
SlabsExact == Kmem!SlabsExact

\* trap: the handler found for an irq is the one registered, through growth and removal.
TableExact == Tree!TableExact

\* console: the ring with its three indices behaves as a line buffer.
ImplementsLineBuffer == Con!ImplementsLineBuffer

\* console: the reader does not sleep while an ended line waits.
NoSleepOnLine == Con!NoSleepOnLine

\* malloc: used and free blocks fill the heap, apart, in address order and merged.
HeapExact == User!HeapExact
=============================================================================
