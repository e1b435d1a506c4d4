------------------------------ MODULE MCFiles ------------------------------
EXTENDS Files, TLC

CONSTANTS a, b, long

Abs(elems) == [abs |-> TRUE, elems |-> elems]
Rela(elems) == [abs |-> FALSE, elems |-> elems]

MCArgs == [open |-> {Abs(<<>>)}, creat |-> {Abs(<<a, b>>), Abs(<<long>>)},
           unlink |-> {Abs(<<>>), Abs(<<a>>)}, mkdir |-> {Rela(<<long>>)},
           rmdir |-> {Abs(<<a>>)}, chdir |-> {Abs(<<a>>)}, spawn |-> {Rela(<<b>>)}]
MCStored == [n \in Names |-> IF n = long THEN b ELSE n]
MCLinks == {<<Abs(<<a>>), Rela(<<b>>)>>}

\* A file a; an empty directory a.
MCTrees == {[ftype |-> <<"dir", t, "none">>,
             ent |-> <<[n \in Names |-> IF n = a THEN <<2>> ELSE <<>>], NoEnt, NoEnt>>] : t \in {"file", "dir"}}

Symmetry == Permutations(Objs) \cup Permutations(Running)
=============================================================================
