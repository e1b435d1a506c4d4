----------------------------- MODULE FileStore -----------------------------
(***************************************************************************)
(* What a file system promises: names in directories, which refer to       *)
(* inodes, and for each file the data last written to it.  A call that      *)
(* reports an error has changed nothing, except that a write may be cut     *)
(* short.                                                                   *)
(***************************************************************************)
EXTENDS Naturals, Sequences

CONSTANTS Inums, Writes, Names0, Data0

VARIABLES
  names,     \* <<directory, name, inode>>
  data,      \* per inode
  err        \* of the last call

vars == <<names, data, err>>

Init == names = Names0 /\ data = Data0 /\ err = "OK"

Add(x) == names' = names \cup {x}

\* The inode that loses its name is not a directory with names in it.
Remove(x) ==
  /\ names' = names \ {x}
  /\ \A y \in names : y[1] # x[3]

\* A part of the data is replaced, or data is added at the end.
Write(i, ofs, v) ==
  data' = [data EXCEPT ![i] = SubSeq(@, 1, ofs) \o v \o SubSeq(@, ofs + Len(v) + 1, Len(@))]

Next ==
  \/ UNCHANGED <<names, data>>
  \/ /\ UNCHANGED data /\ err' = "OK"
     /\ (\E x \in names' : Add(x)) \/ (\E x \in names : Remove(x))
  \/ /\ UNCHANGED names
     /\ \E i \in Inums : \E ofs \in 0..Len(data[i]), v \in Writes : Write(i, ofs, v)

Spec == Init /\ [][Next]_vars
=============================================================================
