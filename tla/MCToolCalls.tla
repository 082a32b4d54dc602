---------------------------- MODULE MCToolCalls ----------------------------
(* Instance of ToolCalls for TLC: two overlapping edits of one session, one *)
(* of them during a reload and with a result that does not say what it did, *)
(* and a call of another session where no hook is registered.  What a call  *)
(* says of the files it changes is checked by the assumptions of ToolPaths. *)
EXTENDS ToolCalls, ToolPaths

CONSTANTS edit1, edit2, look, shell, main, side, edit, read, bash, old, new

MCSessionOf == [c \in Calls |-> IF c = look THEN side ELSE main]

MCToolOf == [c \in Calls |-> CASE c = shell -> bash [] c = look -> read [] OTHER -> edit]

MCLoaded == [c \in Calls |-> IF c = edit1 THEN HookMap ELSE {old}]

\* The reload from old to new drops the hooks of edit and adds wildcard hooks
\* for what happens after a tool.
MCHooks == [m \in HookMap |-> [k \in Key |->
    CASE k[1] = side                    -> 0
      [] k[2][2] = bash                 -> 0
      [] k[2] = <<"tool.after", "*">>   -> IF m = new THEN 1 ELSE 0
      [] k[2][2] = edit                 -> IF m = old THEN 1 ELSE 0
      [] OTHER                          -> 1]]
=============================================================================
