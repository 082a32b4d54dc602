----------------------------- MODULE MCHookRun -----------------------------
(***************************************************************************)
(* HookRun for TLC: lists of one or two hooks that bring every kind of     *)
(* action together with a refusal or a revision after or before it.  What  *)
(* decides that a hook runs, and what is kept of its output, is checked by *)
(* the assumptions of the other modules.                                   *)
(***************************************************************************)
EXTENDS HookRun, PathConditions, OutputCap

Act(kind, timeout) == [kind |-> kind, timeout |-> timeout]
Sync(actions, on)  == [actions |-> actions, on |-> on, async |-> FALSE]

MCHookLists ==
    { <<Sync(<<Act("bash", 3), Act("bash", 2)>>, "modify")>>,
      <<Sync(<<Act("bash", 2)>>, "modify"), Sync(<<Act("confirm", 0)>>, "stop")>>,
      <<Sync(<<Act("confirm", 0), Act("bash", 3)>>, "none")>>,
      <<Sync(<<Act("notify", 0), Act("tool", 0), Act("command", 0)>>, "none"),
        [actions |-> <<Act("bash", 2)>>, on |-> "stop", async |-> TRUE],
        Sync(<<Act("setStatus", 0), Act("bash", 2)>>, "stop")>> }

MCBudgets == {0, 3}
MCBudgetsOrNone == MCBudgets \cup {None}
MCCode    == {0, 1, 2}
MCSizes   == {1, 2}
=============================================================================
