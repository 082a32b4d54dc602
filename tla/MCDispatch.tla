----------------------------- MODULE MCDispatch -----------------------------
(* Instance of Dispatch for TLC: one blocking and one ordinary key.        *)
(* The assumptions of RecursionGuard check what guards a single action.     *)
EXTENDS Dispatch, RecursionGuard

CONSTANTS b1, b2, b3, n1, n2, before, idle, old, new

MCKeyOf == [r \in Request |-> IF r \in {b1, b2, b3} THEN before ELSE idle]

\* The reload from old to new drops the hooks of the ordinary
\* key and adds one to the blocking key.
MCHooks == [m \in HookMap |->
              [k \in Key |-> CASE k = before /\ m = old -> 1
                               [] k = before /\ m = new -> 2
                               [] k = idle /\ m = old -> 2
                               [] OTHER -> 0]]
=============================================================================
