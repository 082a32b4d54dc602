----------------------------- MODULE MCAdapter -----------------------------
(***************************************************************************)
(* Adapter for TLC: two sessions, entered three times, two calls with room *)
(* for one, and two runs of the agent.                                     *)
(***************************************************************************)
EXTENDS Adapter, TLC

MCSymmetry == Permutations(Sessions) \cup Permutations(Calls)
=============================================================================
