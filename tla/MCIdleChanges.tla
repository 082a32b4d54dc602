--------------------------- MODULE MCIdleChanges ---------------------------
(* Instance of IdleChanges for TLC.                                        *)
EXTENDS IdleChanges, TLC

CONSTANTS a, b, i1, i2, i3, old, new

\* The reload from old to new drops the idle hook.
MCHooks == [m \in HookMap |-> [k \in Key |-> IF m = old THEN 1 ELSE 0]]

\* Changes and idle events are told apart by nothing but their names.
MCSymmetry == Permutations(Change) \cup Permutations(Idle)
=============================================================================
