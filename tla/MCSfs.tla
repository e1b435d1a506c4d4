------------------------------- MODULE MCSfs -------------------------------
(* A disk with one file, names of which one is too long to be stored, and      *)
(* files that reach the indirect block.                                       *)
EXTENDS Sfs
CONSTANTS fileA, fileB, long
MCImages == {<<[name |-> fileA, data |-> <<1, 1, 1>>]>>,
             <<[name |-> fileA, data |-> <<>>],
               [name |-> fileB, data |-> <<1, 1, 1, 1, 1>>]>>}
MCStored == [n \in Names |-> IF n = long THEN fileB ELSE n]
=============================================================================
