------------------------------- MODULE MCProc -------------------------------
(***************************************************************************)
(* Three struct procs and four pids: a struct is used again while a child   *)
(* of its former owner is still alive.  No two processes exit with the same *)
(* status.                                                                  *)
(***************************************************************************)
EXTENDS Proc

CONSTANTS s1, s2, s3

MCSlab == <<s2, s3>>
MCStatus == [i \in 0..(MaxPid - 1) |-> {i}]
=============================================================================
