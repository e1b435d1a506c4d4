----------------------------- MODULE RadixTree -----------------------------
(***************************************************************************)
(* The radix tree (kernel/radix_tree.c) with its user, the table of trap    *)
(* handlers (kernel/trap.c), whose lock makes each call one step.  A node   *)
(* is named <<level, prefix>>, level 0 being the one above the leaves: the  *)
(* name stays when a level is added, as the old root becomes child 0.       *)
(***************************************************************************)
EXTENDS Integers, Sequences, FiniteSets, FiniteSetsExt, SequencesExt, Functions, TLC, Outcome

CONSTANTS
  RADIX_TREE_WIDTH,
  Irqs, Handlers,          \* numbers; handlers are above 0
  MaxAllocFail             \* the allocations of a call that may fail

VARIABLES
  tree,                    \* height, nodes and the state of the call
  table                    \* history: the handler registered for each irq, 0 if none

treeVars == <<tree, table>>

NULL == 0
CHILD == -1                \* a slot with a node
NewNode == [count |-> 0, slots |-> [i \in 0..(RADIX_TREE_WIDTH - 1) |-> NULL]]
Prefix(index, level) == index \div RADIX_TREE_WIDTH^(level + 1)
Node(index, level) == <<level, Prefix(index, level)>>
radix_tree_max_index(t) == IF t.height = 0 THEN -1 ELSE RADIX_TREE_WIDTH^t.height - 1
radix_tree_level_index(index, level) == (index \div RADIX_TREE_WIDTH^level) % RADIX_TREE_WIDTH

radix_tree_node_create(t, n) ==
  Then(Try(t, "RADIX_TREE_ALLOC"), LAMBDA u : [u EXCEPT !.nodes = (n :> NewNode) @@ @])

radix_tree_add_child(t, n, i, child) ==
  IF t.nodes[n].slots[i] # NULL THEN Err(t, "RADIX_TREE_NODE_EXIST")
  ELSE [t EXCEPT !.nodes[n].slots[i] = child, !.nodes[n].count = @ + 1, !.err = "OK"]

\* The old root, if any, is the first child of the new one.
radix_tree_add_level(t) ==
  LET root == <<t.height, 0>>
  IN Then(radix_tree_node_create(t, root),
          LAMBDA u : [IF t.height > 0 THEN radix_tree_add_child(u, root, 0, CHILD) ELSE u EXCEPT !.height = @ + 1])

\* The nodes on the way down are made where they are missing, and kept if a later one
\* cannot be had.
AddPath(t, index) ==
  FoldLeft(LAMBDA u, level :
             Then(u, LAMBDA w :
               IF w.nodes[Node(index, level)].slots[radix_tree_level_index(index, level)] # NULL THEN w
               ELSE Then(radix_tree_node_create(w, Node(index, level - 1)),
                         LAMBDA x : radix_tree_add_child(x, Node(index, level),
                                                         radix_tree_level_index(index, level), CHILD))),
           Err(t, "OK"), [k \in 1..(t.height - 1) |-> t.height - k])

RECURSIVE AddLevels(_, _)
AddLevels(t, index) ==
  IF index <= radix_tree_max_index(t) \/ t.err # "OK" THEN t ELSE AddLevels(radix_tree_add_level(t), index)

radix_tree_insert(t, index, leaf) ==
  Then(AddLevels(Err(t, "OK"), index),
       LAMBDA u : Then(AddPath(u, index),
                       LAMBDA w : radix_tree_add_child(w, Node(index, 0), radix_tree_level_index(index, 0), leaf)))

radix_tree_lookup(t, index) ==
  IF index > radix_tree_max_index(t) \/ Node(index, 0) \notin DOMAIN t.nodes THEN NULL
  ELSE t.nodes[Node(index, 0)].slots[radix_tree_level_index(index, 0)]

\* Mutant: the node goes although other slots of it are in use.
RemoveDropsNode(t, index) ==
  [t EXCEPT !.nodes = Restrict(@, DOMAIN @ \ {Node(index, 0)}),
            !.height = IF @ = 1 THEN 0 ELSE @]

\* From the leaf upwards, a slot is cleared in a node as long as the one below is freed.
RECURSIVE ClearUp(_, _, _)
ClearUp(t, index, level) ==
  LET n == Node(index, level)
      u == [t EXCEPT !.nodes[n].count = @ - 1, !.nodes[n].slots[radix_tree_level_index(index, level)] = NULL]
  IN IF level = t.height THEN [t EXCEPT !.height = 0]
     ELSE IF u.nodes[n].count > 0 THEN u
     ELSE ClearUp([u EXCEPT !.nodes = Restrict(@, DOMAIN @ \ {n})], index, level + 1)

\* An index beyond the tree's is not refused: its higher digits are ignored, and the leaf
\* removed is that of another index.  trap.c looks the index up before, and fs.c removes
\* what it has inserted.
radix_tree_remove(t, index) ==
  LET i == index % RADIX_TREE_WIDTH^t.height
  IN IF Node(i, 0) \notin DOMAIN t.nodes THEN t
     ELSE IF t.nodes[Node(i, 0)].slots[radix_tree_level_index(i, 0)] = NULL THEN t
     ELSE ClearUp(t, i, 0)

-----------------------------------------------------------------------------
TreeInit ==
  /\ tree = [height |-> 0, nodes |-> <<>>, err |-> "OK", val |-> 0, panic |-> "none", fail |-> 0]
  /\ table = [q \in Irqs |-> NULL]

EndTree(t) == [t EXCEPT !.err = "OK", !.fail = 0]

trap_register_handler(q, h, k) ==
  LET t == radix_tree_insert([tree EXCEPT !.fail = k], q, h)
  IN /\ tree' = EndTree(t)
     /\ table' = IF t.err = "OK" THEN [table EXCEPT ![q] = h] ELSE table

trap_unregister_handler(q) ==
  /\ radix_tree_lookup(tree, q) # NULL
  /\ tree' = EndTree(radix_tree_remove(tree, q))
  /\ table' = [table EXCEPT ![q] = NULL]

TreeNext ==
  \/ \E q \in Irqs, h \in Handlers, k \in 0..MaxAllocFail : trap_register_handler(q, h, k)
  \/ \E q \in Irqs : trap_unregister_handler(q)

TreeSpec == TreeInit /\ [][TreeNext]_treeVars

-----------------------------------------------------------------------------
\* The handler found for an irq (trap_invoke_handler) is the one registered first and not
\* unregistered since, whatever else was added, removed or failed half-way; the count of a
\* node is the number of its slots in use, every node can be reached, and no leaf hides
\* below a node that a removal took away.
TableExact ==
  LET top == <<tree.height - 1, 0>>
      used(n) == {i \in 0..(RADIX_TREE_WIDTH - 1) : tree.nodes[n].slots[i] # NULL}
  IN /\ \A q \in Irqs : radix_tree_lookup(tree, q) = table[q]
     /\ (tree.height = 0) <=> (DOMAIN tree.nodes = {})
     /\ \A n \in DOMAIN tree.nodes :
          /\ tree.nodes[n].count = Cardinality(used(n))
          /\ n = top \/ LET up == <<n[1] + 1, n[2] \div RADIX_TREE_WIDTH>>
                        IN up \in DOMAIN tree.nodes /\ tree.nodes[up].slots[n[2] % RADIX_TREE_WIDTH] = CHILD
          /\ n[1] > 0 => \A i \in used(n) : <<n[1] - 1, n[2] * RADIX_TREE_WIDTH + i>> \in DOMAIN tree.nodes
=============================================================================
