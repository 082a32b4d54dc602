--------------------------- MODULE RecursionGuard ---------------------------
(***************************************************************************)
(* withActionRecursionGuard, src/core/runtime/recursion-guard.ts: an action *)
(* runs under the key of what it does; within its asynchronous context the  *)
(* same key runs at most once, and at most cap actions run at a time.       *)
(*                                                                          *)
(* A guard is what one outermost action and everything it started share:    *)
(* running, its frames [key, meta, root]; activeKeys, the set in the        *)
(* context; depthOf, the objects of recursionDepthByStore by number; and    *)
(* meta, the number of the object the set is mapped to, or 0.  A frame      *)
(* holds the object it found, and the outermost frame holds none.  A number *)
(* nothing refers to is used again.                                         *)
(***************************************************************************)
EXTENDS Naturals, FiniteSets

\* The outermost action begins: a set with its key, and depth 1.
Root(key) ==
    [running |-> {[key |-> key, meta |-> 0, root |-> TRUE]}, activeKeys |-> {key},
     meta |-> 1, depthOf |-> [n \in 1 .. 1 |-> 1]]

Numbers(g) == {f.meta : f \in g.running} \cup {g.meta}

Fresh(g) == CHOOSE n \in 1 .. Cardinality(Numbers(g)) + 1 : n \notin Numbers(g)

\* The object an action finds, with its depth: a new one if the set has none.
Found(g)  == IF g.meta = 0 THEN Fresh(g) ELSE g.meta
DepthIn(g) == IF g.meta = 0 THEN 0 ELSE g.depthOf[g.meta]

\* An action that may not run returns undefined.
Skipped(g, key, cap) == key \in g.activeKeys \/ DepthIn(g) >= cap

Enter(g, key) ==
    LET n == Found(g)
    IN  [running |-> g.running \cup {[key |-> key, meta |-> n, root |-> FALSE]},
         activeKeys |-> g.activeKeys \cup {key}, meta |-> n,
         depthOf |-> [i \in DOMAIN g.depthOf \cup {n} |->
                         IF i = n THEN DepthIn(g) + 1 ELSE g.depthOf[i]]]

\* The finally clauses.  The outermost action unmaps the set whatever still
\* runs in its context; another one takes itself off the object it holds, and
\* unmaps the set when that object came to 0.
Leave(g, f) ==
    LET left == [g.depthOf EXCEPT ![f.meta] = @ - 1]
        rest == [g EXCEPT !.running = @ \ {f}, !.activeKeys = @ \ {f.key}]
    IN  IF f.root THEN [rest EXCEPT !.meta = 0]
        ELSE [rest EXCEPT !.depthOf = left, !.meta = IF left[f.meta] = 0 THEN 0 ELSE @]

-----------------------------------------------------------------------------
(* Checks: everything that can run within an outermost action, before and   *)
(* after its end.  A request parked in it is drained in its context later   *)
(* (dispatch.ts:302), which is how actions begin after it.                  *)

Keys == {"a", "b", "c", "d"}

RunningAtMost == 2

\* Objects that no frame and no set refers to are forgotten.
Kept(g) == [g EXCEPT !.depthOf = [n \in (DOMAIN @) \cap Numbers(g) |-> @[n]]]

NextGuards(g, keys, cap) ==
    {Kept(Enter(g, k)) : k \in {k \in keys : ~Skipped(g, k, cap)}}
    \cup {Kept(Leave(g, f)) : f \in g.running}

GuardsWithin ==
    LET reach[n \in 0 .. 7] ==
            IF n = 0 THEN {Root("a")}
            ELSE reach[n - 1] \cup UNION {NextGuards(g, Keys, RunningAtMost) : g \in reach[n - 1]}
    IN  reach[7]

HasRoot(g) == \E f \in g.running : f.root

\* The actions the object of the set counts.
Counted(g) == {f \in g.running : f.root \/ f.meta = g.meta}

\* No action runs twice at a time in a context, also when the outermost one is
\* over: the keys are those of what runs.
KeysAreExact(g) ==
    /\ g.activeKeys = {f.key : f \in g.running}
    /\ \A f, h \in g.running : f.key = h.key => f = h

\* Until the outermost action ends, the depth is the number of actions that
\* run, and the cap holds.
DepthIsExact(g, cap) ==
    HasRoot(g) => DepthIn(g) = Cardinality(g.running) /\ Cardinality(g.running) <= cap

\* Afterwards what it left behind is not counted any more, and what begins then
\* is, to the cap again.
DepthRestarts(g, cap) ==
    ~HasRoot(g) => /\ DepthIn(g) = Cardinality({f \in Counted(g) : g.meta # 0})
                   /\ DepthIn(g) <= cap

ASSUME KeysAreOfWhatRuns == \A g \in GuardsWithin : KeysAreExact(g)

ASSUME DepthIsExactUnderTheRoot == \A g \in GuardsWithin : DepthIsExact(g, RunningAtMost)

\* More actions than the cap can run at once then.
ASSUME DepthRestartsAfterTheRoot ==
    /\ \A g \in GuardsWithin : DepthRestarts(g, RunningAtMost)
    /\ \E g \in GuardsWithin : Cardinality(g.running) > RunningAtMost
=============================================================================
