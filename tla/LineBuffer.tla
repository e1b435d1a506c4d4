----------------------------- MODULE LineBuffer -----------------------------
(***************************************************************************)
(* What console input promises: keys edit a line until it is ended, ended   *)
(* lines are read in the order they were typed, a read gives no more than   *)
(* one line, and end-of-file is seen by a read that has nothing else.       *)
(***************************************************************************)
EXTENDS Integers, Sequences, SequencesExt

CONSTANTS BUF_LEN, Readers, Chars, NEWLINE, EOF

VARIABLES line, edit, got

Ended(c) == c \in {NEWLINE, EOF}

Store(c) ==
  /\ Len(line) + Len(edit) < BUF_LEN
  /\ IF Ended(c) \/ Len(line) + Len(edit) + 1 = BUF_LEN
       THEN line' = line \o Append(edit, c) /\ edit' = <<>>
       ELSE line' = line /\ edit' = Append(edit, c)
  /\ UNCHANGED got

Erase(n) == edit' = SubSeq(edit, 1, n) /\ UNCHANGED <<line, got>>

Begin(r) == got' = [got EXCEPT ![r] = <<>>] /\ UNCHANGED <<line, edit>>

Take(r, k) ==
  /\ \A i \in 1..(k - 1) : ~Ended(line[i])
  /\ line[k] # EOF
  /\ got[r] = <<>> \/ ~Ended(Last(got[r]))
  /\ got' = [got EXCEPT ![r] = @ \o SubSeq(line, 1, k)]
  /\ line' = SubSeq(line, k + 1, Len(line))
  /\ UNCHANGED edit

TakeEof(r) ==
  /\ line # <<>> /\ Head(line) = EOF /\ got[r] = <<>>
  /\ line' = Tail(line)
  /\ UNCHANGED <<edit, got>>

Init == line = <<>> /\ edit = <<>> /\ got = [r \in Readers |-> <<>>]

Next ==
  \/ \E c \in Chars : Store(c)
  \/ \E n \in {0, Len(edit) - 1} : n >= 0 /\ Erase(n)
  \/ \E r \in Readers : Begin(r) \/ TakeEof(r) \/ \E k \in 1..Len(line) : Take(r, k)

Spec == Init /\ [][Next]_<<line, edit, got>>
=============================================================================
