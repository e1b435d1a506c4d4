------------------------------ MODULE Outcome ------------------------------
(***************************************************************************)
(* C functions that return an err_t, as operators from a state to a state.  *)
(* The state is a record with the fields err, val (what the call returns),  *)
(* panic (the first failed assertion) and fail (the calls to go until the   *)
(* one that the environment lets fail; 0 if none will).                     *)
(***************************************************************************)
LOCAL INSTANCE Integers

Val(s, v) == [s EXCEPT !.val = v, !.err = "OK"]
Err(s, e) == [s EXCEPT !.err = e]

\* if (err == ERR_OK) ... else ...; if (err != ERR_OK) return err; if (err != ERR_OK) ...
Cases(s, Ok(_), Fail(_)) == IF s.err = "OK" THEN Ok(s) ELSE Fail(s)
Then(s, Ok(_)) == IF s.err = "OK" THEN Ok(s) ELSE s
Else(s, Fail(_)) == IF s.err = "OK" THEN s ELSE Fail(s)

Panic(s, why) == [s EXCEPT !.panic = IF @ = "none" THEN why ELSE @]
Check(s, c, why) == IF c THEN s ELSE Panic(s, why)

\* A call that can fail for want of memory or of a device.
Try(s, e) ==
  IF s.fail = 1 THEN [s EXCEPT !.fail = 0, !.err = e]
  ELSE [s EXCEPT !.fail = IF @ = 0 THEN 0 ELSE @ - 1, !.err = "OK"]
=============================================================================
