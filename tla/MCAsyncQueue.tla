---------------------------- MODULE MCAsyncQueue ----------------------------
(* Instance of AsyncQueue for TLC: a lane shared by hooks that disagree on  *)
(* its concurrency, and the lane of an event.                               *)
EXTENDS AsyncQueue

CONSTANTS j1, j2, j3, j4, j5, s1, group, event

MCLaneOf == [j \in Job |-> IF j = s1 THEN event ELSE group]

MCConcurrency == [j \in Job |-> CASE j = j1 -> 2 [] j = j2 -> 3 [] OTHER -> 1]
=============================================================================
