----------------------------- MODULE HookSchema -----------------------------
(***************************************************************************)
(* What one entry of a hooks list becomes, src/core/hooks/schema.ts: a      *)
(* hook, an override of a hook of an earlier file, or nothing, with the     *)
(* errors found on the way.  Composition takes the entries of a file from   *)
(* here.                                                                    *)
(*                                                                          *)
(* A definition is a record with one field per key of the YAML entry, or    *)
(* NotAnObject.  Missing is a key that is not there and Wrong a value its   *)
(* key does not take.  Of an event the model keeps the family that the      *)
(* rules tell apart; of an action the keys it has among the six kinds and   *)
(* whether their values are well formed; of a list of conditions their      *)
(* kinds, and of a concurrency that is no positive integer only that it is  *)
(* negative.  The texts of messages are left out.                           *)
(***************************************************************************)
EXTENDS Composition

Missing     == "missing"
Wrong       == "wrong"
NotAnObject == [object |-> FALSE]

Given(value)  == value # Missing
WellMade(value) == value \notin {Missing, Wrong}

ErrorIf(condition, code, index) ==
    IF condition THEN <<HookError(code, index)>> ELSE <<>>

-----------------------------------------------------------------------------
(* The fields                                                               *)

\* parseHookId: an id is reserved by the first entry that bears it, even when
\* that entry is refused for another reason.
IdErrors(id, seen, index) ==
    ErrorIf(id = Wrong, "invalid_hook", index)
    \o ErrorIf(WellMade(id) /\ id \in seen, "duplicate_hook_id", index)

\* parseOverrideTarget
OverrideErrors(d, index) ==
    ErrorIf(d.override = Wrong, "invalid_override", index)
    \o ErrorIf(d.disable = Wrong, "invalid_override", index)

IsDisable(d) ==
    WellMade(d.override) /\ d.disable = "true" /\ OverrideErrors(d, 0) = <<>>

\* normalizeAsyncConfig: false and a missing key are no queue; an object with
\* neither key is the same as true.
AsyncValue(a) ==
    CASE a.mode \in {"missing", "false"} -> NoAsync
      [] a.mode = "true"                 -> Own
      [] a.mode = "lane"                 ->
            IF a.group = NoGroup /\ a.concurrency = Unset THEN Own
            ELSE [mode |-> "lane", group |-> a.group, concurrency |-> a.concurrency]

AsyncMalformed(a) ==
    \/ a.mode = "wrong"
    \/ a.mode = "lane" /\ (a.group = Wrong \/ a.concurrency < 0 \/ a.extra)

AsyncOff(a) == ~AsyncMalformed(a) /\ AsyncValue(a) = NoAsync
AsyncOn(a)  == ~AsyncMalformed(a) /\ AsyncValue(a) # NoAsync

ActionKinds == {"bash", "command", "tool", "notify", "confirm", "setStatus"}

Uses(actions, kinds) == \E i \in DOMAIN actions : actions[i].keys \cap kinds # {}

SyncEvents == {"tool.before", "session.idle", "user.prompt.submit"}

\* parseAsync: the first rule an async hook breaks is the one reported.
AsyncErrors(d, index) ==
    CASE AsyncMalformed(d.async)        -> <<HookError("invalid_async", index)>>
      [] AsyncOff(d.async)              -> <<>>
      [] AsyncOn(d.async) /\ d.event \in SyncEvents -> <<HookError("invalid_async", index)>>
      [] OTHER ->
            IF WellMade(d.action) THEN <<HookError("invalid_hook_action", index)>>
            ELSE ErrorIf(Uses(d.actions, ActionKinds \ {"bash"}), "invalid_async", index)

\* parseHookAction
BehaviorErrors(d, index) ==
    ErrorIf(Given(d.action) /\ (d.action = Wrong \/ d.event # "tool.before"),
            "invalid_hook_action", index)

\* parseConditions: one error at most, for the first condition that is not
\* supported; path conditions need an event that carries paths.
PathEvents == {"file.changed", "session.idle", "tool.after"}

ConditionErrors(d, index) ==
    ErrorIf(\/ d.conditions.list = FALSE
            \/ \E i \in DOMAIN d.conditions.of :
                  \/ d.conditions.of[i] = Wrong
                  \/ d.conditions.of[i] = "path" /\ d.event \notin PathEvents,
            "invalid_conditions", index)

\* parseActions: every action that is not exactly one well-formed kind has an
\* error of its own; the others are kept.
GoodAction(a) == Cardinality(a.keys) = 1 /\ a.wellFormed

GoodActions(actions) == SelectSeq(actions, GoodAction)

ActionErrors(actions, index) ==
    IF actions = <<>> THEN <<HookError("invalid_actions", index)>>
    ELSE LET bad == SelectSeq(actions, LAMBDA a : ~GoodAction(a))
         IN  [i \in DOMAIN bad |-> HookError("invalid_action", index)]

\* validatePromptActions looks at the actions that were kept.
PromptErrors(d, index) ==
    ErrorIf(d.event = "user.prompt.submit"
            /\ \E i \in DOMAIN GoodActions(d.actions) : GoodActions(d.actions)[i].keys # {"bash"},
            "invalid_action", index)

-----------------------------------------------------------------------------
(* The entry                                                                *)

Entry(kind, value, errors) == [kind |-> kind, value |-> value, errors |-> errors]

ParsedHook(d, index) ==
    [event |-> d.event, id |-> IF WellMade(d.id) THEN d.id ELSE NoId,
     async |-> AsyncValue(d.async), tag |-> index,
     action |-> d.action, conditions |-> d.conditions.of, actions |-> d.actions]

\* parseHookDefinition: a disable needs no body, and its target is disabled
\* even when the id of the entry is at fault; everything else counts only
\* when no rule is broken.
ParseHook(d, index, seen) ==
    IF d = NotAnObject THEN Entry("none", "", <<HookError("invalid_hook", index)>>)
    ELSE LET first == IdErrors(d.id, seen, index) \o OverrideErrors(d, index)
             body  == first \o ErrorIf(d.scope = Wrong, "invalid_scope", index)
                      \o ErrorIf(d.runIn = Wrong, "invalid_run_in", index)
                      \o BehaviorErrors(d, index) \o AsyncErrors(d, index)
                      \o ConditionErrors(d, index) \o ActionErrors(d.actions, index)
                      \o PromptErrors(d, index)
         IN  IF IsDisable(d)
             THEN Entry("override", [target |-> d.override, disable |-> TRUE], first)
             ELSE IF d.event = Wrong
             THEN Entry("none", "", Append(first, HookError("invalid_event", index)))
             ELSE IF body # <<>> THEN Entry("none", "", body)
             ELSE IF WellMade(d.override)
             THEN Entry("override", [target |-> d.override, disable |-> FALSE,
                                     replacement |-> ParsedHook(d, index)], <<>>)
             ELSE Entry("hook", ParsedHook(d, index), <<>>)

\* The entries of a file, each parsed with the ids the ones before it reserved.
ParseEntries(defs) ==
    LET ids(i) == {defs[j].id : j \in {k \in 1 .. i - 1 : defs[k] # NotAnObject}}
    IN  [i \in DOMAIN defs |-> ParseHook(defs[i], i, ids(i) \ {Missing, Wrong})]

-----------------------------------------------------------------------------
(* Checks                                                                   *)

AnyEvent == {"tool.before", "tool.after", "file.changed", "session.idle",
             "session.created", "user.prompt.submit", Wrong}

AnyAsync == [mode : {"missing", "false", "true", "wrong"}]
            \cup [mode : {"lane"}, group : {NoGroup, "g", Wrong},
                  concurrency : {-1, Unset, 2}, extra : BOOLEAN]

OneAction(keys) == [keys |-> keys, wellFormed |-> TRUE]

AnyActions == {<<>>, <<OneAction({"bash"})>>, <<OneAction({"tool"})>>,
               <<[keys |-> {"bash"}, wellFormed |-> FALSE]>>,
               <<OneAction({"bash"}), OneAction({})>>,
               <<OneAction({"bash"}), OneAction({"confirm"})>>,
               <<OneAction({"bash", "notify"})>>}

AnyConditions == {[list |-> FALSE, of |-> <<>>]}
                 \cup [list : {TRUE}, of : {<<>>, <<"code">>, <<"code", "path">>, <<Wrong>>}]

Plain == [id |-> Missing, override |-> Missing, disable |-> Missing,
          event |-> "session.created", scope |-> Missing, runIn |-> Missing,
          action |-> Missing, async |-> [mode |-> "missing"],
          conditions |-> [list |-> TRUE, of |-> <<>>], actions |-> <<OneAction({"bash"})>>]

\* The bodies: every combination of what the rules of one body relate.
Bodies ==
    {[Plain EXCEPT !.event = e, !.action = b, !.async = a, !.conditions = c, !.actions = as] :
        e \in AnyEvent, b \in {Missing, Wrong, "stop"}, a \in AnyAsync,
        c \in AnyConditions, as \in AnyActions}

\* What the rest of the program may rely on: bash is all that runs later or
\* before a prompt, only a hook before a tool may stop it, and paths are looked
\* at only where there are some.
Runnable(d) ==
    LET bashOnly == \A i \in DOMAIN d.actions : d.actions[i].keys = {"bash"}
    IN  /\ d.event # Wrong
        /\ d.action = "stop" => d.event = "tool.before"
        /\ d.action # Wrong
        /\ d.conditions.list /\ Wrong \notin Range(d.conditions.of)
        /\ "path" \in Range(d.conditions.of) => d.event \in PathEvents
        /\ d.actions # <<>> /\ \A i \in DOMAIN d.actions : GoodAction(d.actions[i])
        /\ d.event = "user.prompt.submit" => bashOnly
        /\ ~AsyncMalformed(d.async)
        /\ AsyncOn(d.async) => bashOnly /\ d.event \notin SyncEvents

\* An entry becomes a hook exactly when it is runnable, and an entry that
\* becomes none says why.
ASSUME AcceptedIsRunnable ==
    \A d \in Bodies : LET e == ParseHook(d, 1, {}) IN
        /\ e.kind = "hook" <=> Runnable(d)
        /\ e.kind = "none" <=> e.errors # <<>>

\* Within one file an id belongs to one hook or replacement at most, and only
\* a disable takes effect in spite of an error.
ASSUME IdsAreUniqueInAFile ==
    LET heads == {[Plain EXCEPT !.id = i, !.override = o, !.disable = off, !.scope = s] :
                     i \in {Missing, Wrong, "a"}, o \in {Missing, Wrong, "t"},
                     off \in {Missing, Wrong, "true", "false"}, s \in {Missing, Wrong}}
                  \cup {NotAnObject}
        idOf(e) == IF e.kind = "hook" THEN e.value.id
                   ELSE IF e.kind = "override" /\ ~e.value.disable THEN e.value.replacement.id
                   ELSE NoId
    IN  \A d1, d2 \in heads : LET es == ParseEntries(<<d1, d2>>) IN
            /\ idOf(es[1]) = idOf(es[2]) => idOf(es[1]) = NoId
            /\ \A i \in 1 .. 2 : es[i].errors # <<>> /\ es[i].kind # "none" =>
                   es[i].kind = "override" /\ es[i].value.disable
=============================================================================
