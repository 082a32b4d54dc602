--------------------------- MODULE MCSessionStore ---------------------------
(* Instance of SessionStore for TLC: a session and its parent, and two      *)
(* sessions whose files name each other as parents, and one only heard of  *)
(* when it is deleted.  Lineage and PendingCalls check with their           *)
(* assumptions how parents are found, and the other map of the store.       *)
EXTENDS SessionStore, Lineage, PendingCalls

CONSTANTS main, child, left, right, other, null, undefined, w1, w2

MCAncestors == [s \in Session |-> CASE s \in {main, other} -> {}
                                    [] s = child            -> {main}
                                    [] s = left             -> {right}
                                    [] s = right            -> {left}]

MCRoot == [s \in Session |-> CASE s \in {left, right} -> left
                               [] s = other            -> other
                               [] OTHER                -> main]

MCAsks == [w \in Lookup |-> IF w = w1 THEN {child, left} ELSE {child, right}]
=============================================================================
