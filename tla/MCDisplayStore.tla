---------------------------- MODULE MCDisplayStore ----------------------------
(* DisplayStore with two frames, a generation counter whose cycle is nine    *)
(* stages long and at most three stages between commits, so that a run goes *)
(* round the counter many times.  No bound on commits, errors or reboots.   *)
EXTENDS DisplayStore
=============================================================================
