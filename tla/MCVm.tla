-------------------------------- MODULE MCVm --------------------------------
(***************************************************************************)
(* A program with a read-only page and two writable ones, the second bss    *)
(* only; its heap starts at page 12 and the stack is pages 25 to 30.  Two   *)
(* steps of sbrk bring the heap up to the stack, a third would cross it.    *)
(***************************************************************************)
EXTENDS Vm

MCIncs == {13, -13}

MCPrograms ==
  {<<[vaddr |-> 18, filesz |-> 2, memsz |-> 2, perm |-> "UR"],
     [vaddr |-> 21, filesz |-> 1, memsz |-> 3, perm |-> "URW"]>>}
=============================================================================
