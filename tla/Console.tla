------------------------------ MODULE Console ------------------------------
(***************************************************************************)
(* Console input (kernel/console.c), fed by the serial line                 *)
(* (kernel/drivers/uart.c).  Both ends run under the console lock, so a     *)
(* character stored is one step, and a read is one from each wake-up to the *)
(* next wait.  The indices wrap at WRAP, a multiple of BUF_LEN as 2^32 is.  *)
(***************************************************************************)
EXTENDS Integers, Sequences, SequencesExt

CONSTANTS
  BUF_LEN, WRAP,
  Readers, MaxRead,        \* the readers and the largest count
  Chars, NEWLINE, EOF, RETURN, BACKSPACE, KILL

VARIABLES
  input,                   \* buf and the indices r, w, e
  reader,                  \* of each reader: where it is, the count, what it has so far
  cv                       \* the readers asleep on read_cv, in order

conVars == <<input, reader, cv>>

At(k) == input.buf[k % BUF_LEN]
Up(k, n) == (k + n) % WRAP
Dist(a, b) == (b - a) % WRAP

ConInit ==
  /\ input = [buf |-> [k \in 0..(BUF_LEN - 1) |-> NEWLINE], r |-> 0, w |-> 0, e |-> 0]
  /\ reader = [q \in Readers |-> [at |-> "out", size |-> 0, got |-> <<>>]]
  /\ cv = <<>>

\* condvar_signal: the first of the sleepers goes on.
Signal ==
  IF cv = <<>> THEN UNCHANGED <<reader, cv>>
  ELSE reader' = [reader EXCEPT ![Head(cv)].at = "in"] /\ cv' = Tail(cv)

RECURSIVE KillTo(_)
KillTo(e) ==
  IF e = input.w THEN e ELSE IF At(Up(e, -1)) = NEWLINE THEN e ELSE KillTo(Up(e, -1))

\* Mutant: a full buffer does not end the line.
StoreNoFull(c) ==
  LET d == IF c = RETURN THEN NEWLINE ELSE c
      e == Up(input.e, 1)
  IN /\ Dist(input.r, input.e) < BUF_LEN
     /\ input' = [input EXCEPT !.buf[input.e % BUF_LEN] = d, !.e = e,
                               !.w = IF d \in {NEWLINE, EOF} THEN e ELSE @]
     /\ Signal

\* Mutant: only the end of a line wakes the reader.
StoreSignalsLine(c) ==
  LET d == IF c = RETURN THEN NEWLINE ELSE c
      e == Up(input.e, 1)
      full == e = Up(input.r, BUF_LEN)
  IN /\ Dist(input.r, input.e) < BUF_LEN
     /\ input' = [input EXCEPT !.buf[input.e % BUF_LEN] = d, !.e = e,
                               !.w = IF d \in {NEWLINE, EOF} \/ full THEN e ELSE @]
     /\ IF d = NEWLINE THEN Signal ELSE UNCHANGED <<reader, cv>>

\* The default case of console_storec; a character for which there is no room is dropped.
StoreChar(c) ==
  LET d == IF c = RETURN THEN NEWLINE ELSE c
      e == Up(input.e, 1)
      full == e = Up(input.r, BUF_LEN)
  IN /\ Dist(input.r, input.e) < BUF_LEN
     /\ input' = [input EXCEPT !.buf[input.e % BUF_LEN] = d, !.e = e,
                               !.w = IF d \in {NEWLINE, EOF} \/ full THEN e ELSE @]
     /\ Signal

console_storec(c) ==
  \/ c = KILL /\ input' = [input EXCEPT !.e = KillTo(@)] /\ UNCHANGED <<reader, cv>>
  \/ c = BACKSPACE /\ input.e # input.w /\ input' = [input EXCEPT !.e = Up(@, -1)] /\ UNCHANGED <<reader, cv>>
  \/ c \notin {KILL, BACKSPACE} /\ StoreChar(c)

\* The loop of console_read from one check of the buffer to the next wait or the return.
RECURSIVE Loop(_, _, _)
Loop(r, size, got) ==
  IF Len(got) = size THEN [r |-> r, got |-> got, done |-> TRUE]
  ELSE IF r = input.w THEN [r |-> r, got |-> got, done |-> FALSE]
  ELSE IF At(r) = EOF THEN [r |-> IF got = <<>> THEN Up(r, 1) ELSE r, got |-> got, done |-> TRUE]
  ELSE IF At(r) = NEWLINE THEN [r |-> Up(r, 1), got |-> Append(got, NEWLINE), done |-> TRUE]
  ELSE Loop(Up(r, 1), size, Append(got, At(r)))

BeginRead(q, size) ==
  /\ reader[q].at = "out"
  /\ reader' = [reader EXCEPT ![q] = [at |-> "in", size |-> size, got |-> <<>>]]
  /\ UNCHANGED <<input, cv>>

console_read(q) ==
  LET t == Loop(input.r, reader[q].size, reader[q].got)
  IN /\ reader[q].at = "in"
     /\ input' = [input EXCEPT !.r = t.r]
     /\ reader' = [reader EXCEPT ![q].got = t.got, ![q].at = IF t.done THEN "out" ELSE "wait"]
     /\ cv' = IF t.done THEN cv ELSE Append(cv, q)

ConNext ==
  \/ \E c \in Chars \cup {RETURN, BACKSPACE, KILL} : console_storec(c)
  \/ \E q \in Readers, size \in 1..MaxRead : BeginRead(q, size)
  \/ \E q \in Readers : console_read(q)

ConSpec == ConInit /\ [][ConNext]_conVars

-----------------------------------------------------------------------------
Between(a, b) == [k \in 1..Dist(a, b) |-> At(a + k - 1)]
Lines == INSTANCE LineBuffer WITH
  line <- Between(input.r, input.w), edit <- Between(input.w, input.e), got <- [q \in Readers |-> reader[q].got]

\* The ring with its three indices is a line buffer: nothing typed is lost, doubled or
\* reordered across the wrap of the indices, editing never reaches an ended line, and a
\* read stops at the end of one.
ImplementsLineBuffer == Lines!Spec

\* A reader does not sleep while there is an ended line to read (with one reader: the
\* signal wakes one, and a reader that leaves part of a line wakes nobody).
NoSleepOnLine == cv # <<>> => input.r = input.w
=============================================================================
