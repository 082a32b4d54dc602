---------------------------- MODULE Composition ----------------------------
(***************************************************************************)
(* How the hooks of several files become one map, src/core/hooks/           *)
(* composition.ts.  A hook map is a JavaScript Map from events to lists,    *)
(* kept in the order in which events were first inserted; it is modelled    *)
(* by the sequence flattenHookMap returns, the lists one after the other.   *)
(*                                                                          *)
(* A hook is a record [event, id, async, tag]: id is NoId when it has none, *)
(* async is NoAsync, Own (async: true) or [mode, group, concurrency], where  *)
(* NoGroup and Unset stand for a missing key; tag tells hooks apart.  An override   *)
(* is [target, disable, replacement].  The file and index a message names   *)
(* are left out, so an error is [code, subject].                            *)
(*                                                                          *)
(* These are pure functions: the assumptions at the end compare them with   *)
(* plainer definitions over small inputs, and TLC evaluates them in the run *)
(* that extends this module.                                                *)
(***************************************************************************)
EXTENDS Integers, Sequences, SequencesExt, FiniteSetsExt

NoId    == "no id"
NoGroup == "no group"
Unset   == 0
NoAsync == [mode |-> "none"]
Own     == [mode |-> "own"]

HookError(code, subject) == [code |-> code, subject |-> subject]

-----------------------------------------------------------------------------
(* Maps                                                                     *)

FirstSeen(s) == SelectSeq([i \in DOMAIN s |-> <<i, s[i]>>],
                          LAMBDA p : \A j \in 1 .. p[1] - 1 : s[j] # p[2])

\* The values of s without repetitions, at the place of their first one.
KeepFirst(s) == LET firsts == FirstSeen(s) IN [i \in DOMAIN firsts |-> firsts[i][2]]

\* toHookMap: events in the order of their first hook, hooks in order under
\* each event.
ToHookMap(hooks) ==
    FlattenSeq([i \in DOMAIN KeepFirst([j \in DOMAIN hooks |-> hooks[j].event]) |->
        SelectSeq(hooks, LAMBDA h : h.event =
                             KeepFirst([j \in DOMAIN hooks |-> hooks[j].event])[i])])

\* mergeHookMapsInto: the lists of source follow those of target, and events
\* new to target come last.
MergeInto(target, source) == ToHookMap(target \o source)

-----------------------------------------------------------------------------
(* Overrides                                                                *)

\* idIndex before the first override: the last hook that bears an id owns it.
IdIndex(hooks) ==
    [id \in {hooks[i].id : i \in DOMAIN hooks} \ {NoId} |->
        Max({i \in DOMAIN hooks : hooks[i].id = id})]

\* One error for each hook that bears the id of an earlier one (listed here by
\* hook, in the code by id).
DuplicateErrors(hooks) ==
    LET again == SelectSeq([i \in DOMAIN hooks |-> i],
                     LAMBDA i : /\ hooks[i].id # NoId
                                /\ \E j \in 1 .. i - 1 : hooks[j].id = hooks[i].id)
    IN  [k \in DOMAIN again |-> HookError("duplicate_hook_id", hooks[again[k]].tag)]

\* One turn of the loop over the overrides; r holds the list, the index and
\* the errors so far.
ApplyOverride(r, o) ==
    IF o.target \notin DOMAIN r.index
    THEN [r EXCEPT !.errors = Append(@, HookError("override_target_not_found", o.target))]
    ELSE LET at     == r.index[o.target]
             others == DOMAIN r.index \ {o.target}
         IN  IF o.disable
             THEN [r EXCEPT !.hooks = RemoveAt(@, at),
                            !.index = [id \in others |->
                                          IF @[id] > at THEN @[id] - 1 ELSE @[id]]]
             ELSE LET new == o.replacement.id IN
                  [r EXCEPT !.hooks[at] = o.replacement,
                            !.index = [id \in others \cup ({new} \ {NoId}) |->
                                          IF id = new THEN at ELSE @[id]]]

\* resolveOverrides: the loop over the overrides, and what it returns.
Overridden(hooks, overrides) ==
    FoldLeft(ApplyOverride,
             [hooks |-> hooks, index |-> IdIndex(hooks), errors |-> DuplicateErrors(hooks)],
             overrides)

ResolveOverrides(hooks, overrides) ==
    LET r == Overridden(hooks, overrides)
    IN  [hooks |-> ToHookMap(r.hooks), errors |-> r.errors]

-----------------------------------------------------------------------------
(* Async queues                                                             *)

\* validateAsyncQueueConfigs; seen maps a group to the concurrency of the
\* first hook that named it.
CheckAsync(r, h) ==
    IF h.async.mode # "lane" THEN r
    ELSE LET a      == h.async
             actual == IF a.concurrency = Unset THEN 1 ELSE a.concurrency
             lonely == IF a.concurrency # Unset /\ a.group = NoGroup
                       THEN <<HookError("invalid_async", h.tag)>> ELSE <<>>
         IN  IF a.group = NoGroup THEN [r EXCEPT !.errors = @ \o lonely]
             ELSE IF a.group \in DOMAIN r.seen
             THEN IF r.seen[a.group] = actual THEN r
                  ELSE [r EXCEPT !.errors = Append(@, HookError("invalid_async", h.tag))]
             ELSE [r EXCEPT !.seen = [g \in DOMAIN @ \cup {a.group} |->
                                         IF g = a.group THEN actual ELSE @[g]]]

LanesChecked(hooks) == FoldLeft(CheckAsync, [seen |-> <<>>, errors |-> <<>>], hooks)

ValidateAsync(hooks) == LanesChecked(hooks).errors

-----------------------------------------------------------------------------
(* Files                                                                    *)

\* parseHooksObject, for the body of a file: listed is false when it has no
\* list of hooks; otherwise each entry gave a hook, an override or neither,
\* with its errors (HookSchema), and unsupported is the set of tags of the hooks
\* that the policy of the host refuses: they are dropped and reported.
ParseHooks(listed, entries, unsupported) ==
    IF ~listed
    THEN [hooks |-> <<>>, overrides |-> <<>>, errors |-> <<HookError("no_list", "")>>]
    ELSE LET of(kind)  == SelectSeq(entries, LAMBDA e : e.kind = kind)
             values(s) == [i \in DOMAIN s |-> s[i].value]
             parsed    == ToHookMap(values(of("hook")))
             refused   == SelectSeq(parsed, LAMBDA h : h.tag \in unsupported)
         IN  [hooks     |-> SelectSeq(parsed, LAMBDA h : h.tag \notin unsupported),
              overrides |-> values(of("override")),
              errors    |-> KeepFirst(
                  FlattenSeq([i \in DOMAIN entries |-> entries[i].errors])
                  \o ValidateAsync(parsed)
                  \o [i \in DOMAIN refused |-> HookError("unsupported_on_pi", refused[i].tag)])]

\* The loop of loadDiscoveredHooksFromSnapshots over the files in the order
\* imports.ts gives them: the overrides of a file see the hooks of the files
\* before it, and its own hooks join the map after that.
LoadFile(r, file) ==
    LET resolved == ResolveOverrides(r.hooks, file.overrides)
    IN  [hooks  |-> MergeInto(resolved.hooks, file.hooks),
         errors |-> r.errors \o resolved.errors \o file.errors]

Compose(files) ==
    LET r == FoldLeft(LoadFile, [hooks |-> <<>>, errors |-> <<>>], files)
    IN  [hooks  |-> r.hooks,
         errors |-> KeepFirst(r.errors \o ValidateAsync(r.hooks))]

-----------------------------------------------------------------------------
(* Checks                                                                   *)

SmallHook(e, i, a, t) == [event |-> e, id |-> i, async |-> a, tag |-> t]

SmallEvents == {"e", "f"}

SmallLists(n) == [1 .. n -> SmallEvents]

\* Merging file by file gives the map of all hooks taken together: no order of
\* events or of hooks under one event depends on where a file ends.
ASSUME MergeIsRegrouping ==
    \A s \in SmallLists(3), t \in SmallLists(3) :
        LET S == [i \in 1 .. 3 |-> SmallHook(s[i], NoId, NoAsync, i)]
            T == [i \in 1 .. 3 |-> SmallHook(t[i], NoId, NoAsync, i + 3)]
        IN  MergeInto(ToHookMap(S), ToHookMap(T)) = ToHookMap(S \o T)

\* A definition of overrides without indices: every hook has a slot, at most
\* one slot owns an id, and slots never move.
SlotOverride(r, o) ==
    IF ~\E i \in DOMAIN r.slots : r.slots[i].owns = o.target
    THEN [r EXCEPT !.errors = Append(@, HookError("override_target_not_found", o.target))]
    ELSE [r EXCEPT !.slots = [i \in DOMAIN @ |->
            IF @[i].owns = o.target
            THEN IF o.disable THEN [@[i] EXCEPT !.live = FALSE, !.owns = NoId]
                 ELSE [hook |-> o.replacement, live |-> TRUE, owns |-> o.replacement.id]
            ELSE IF ~o.disable /\ @[i].owns = o.replacement.id
            THEN [@[i] EXCEPT !.owns = NoId]
            ELSE @[i]]]

SlotResolve(hooks, overrides) ==
    LET start(i) == [hook |-> hooks[i], live |-> TRUE,
                     owns |-> IF \E j \in DOMAIN hooks : j > i /\ hooks[j].id = hooks[i].id
                              THEN NoId ELSE hooks[i].id]
        r    == FoldLeft(SlotOverride,
                         [slots |-> [i \in DOMAIN hooks |-> start(i)],
                          errors |-> DuplicateErrors(hooks)], overrides)
        live == SelectSeq(r.slots, LAMBDA s : s.live)
    IN  [hooks |-> ToHookMap([i \in DOMAIN live |-> live[i].hook]), errors |-> r.errors]

SmallOverrides ==
    {[target |-> t, disable |-> TRUE] : t \in {"a", "b"}} \cup
    {[target |-> t, disable |-> FALSE, replacement |-> SmallHook(e, i, NoAsync, "new")] :
        t \in {"a", "b"}, e \in SmallEvents, i \in {NoId, "a", "b"}}

\* What the index says of an id is true: the hook it names bears it.
IndexIsTrue(r) ==
    \A id \in DOMAIN r.index :
        /\ id # NoId /\ r.index[id] \in DOMAIN r.hooks
        /\ r.hooks[r.index[id]].id = id

\* The index kept up to date through splices and replacements finds the hook
\* the slots find, whatever the ids and the overrides before.
ASSUME IndexFollowsSplices ==
    \A ids \in [1 .. 3 -> {NoId, "a", "b"}], k \in 0 .. 3 :
        LET hooks == [i \in 1 .. 3 |->
                         SmallHook(IF i <= k THEN "e" ELSE "f", ids[i], NoAsync, i)]
        IN  \A os \in SmallOverrides \X SmallOverrides \X SmallOverrides :
                k = 2 \/ os[3] = os[2] =>
                    /\ ResolveOverrides(hooks, os) = SlotResolve(hooks, os)
                    /\ IndexIsTrue(Overridden(hooks, os))

\* Every hook with a concurrency names a group and the hooks of a group agree.
LanesAgree(hooks) ==
    LET lanes == {i \in DOMAIN hooks : hooks[i].async.mode = "lane"}
        width(i) == IF hooks[i].async.concurrency = Unset THEN 1 ELSE hooks[i].async.concurrency
    IN  /\ \A i \in lanes : hooks[i].async.group = NoGroup => hooks[i].async.concurrency = Unset
        /\ \A i, j \in lanes :
              hooks[i].async.group = hooks[j].async.group /\ hooks[i].async.group # NoGroup
                  => width(i) = width(j)

\* No error is reported exactly when every hook with a concurrency names a
\* group and the hooks of a group agree on it.
ASSUME AsyncErrorsAreDisagreements ==
    LET configs == {NoAsync, Own} \cup 
                   [mode : {"lane"}, group : {NoGroup, "g", "h"}, concurrency : {Unset, 1, 2}]
    IN  \A as \in [1 .. 3 -> configs] :
            LET hooks == [i \in 1 .. 3 |-> SmallHook("e", NoId, as[i], i)]
            IN  ValidateAsync(hooks) = <<>> <=> LanesAgree(hooks)

\* A hook the policy refuses is reported and dropped, and dropping it moves no
\* other hook of its event.
ASSUME RefusedHooksAreReported ==
    \A s \in SmallLists(3), unsupported \in SUBSET (1 .. 3) :
        LET hooks    == [i \in 1 .. 3 |-> SmallHook(s[i], NoId, NoAsync, i)]
            entry(i) == [kind |-> "hook", value |-> hooks[i], errors |-> <<>>]
            r        == ParseHooks(TRUE, [i \in 1 .. 3 |-> entry(i)], unsupported)
        IN  /\ ToSet(r.errors) = {HookError("unsupported_on_pi", i) : i \in unsupported}
            /\ \A e \in SmallEvents :
                  SelectSeq(r.hooks, LAMBDA h : h.event = e) =
                      SelectSeq(hooks, LAMBDA h : h.event = e /\ h.tag \notin unsupported)

\* What the loader misses: an id that the last file repeats is not reported,
\* because duplicates are looked for before a file's own hooks join the map.
\* The comment at composition.ts:180 has every such pair reported.
ASSUME LastFileEscapesDuplicates ==
    LET file(t) == [hooks |-> <<SmallHook("e", "a", NoAsync, t)>>, overrides |-> <<>>,
                    errors |-> <<>>]
        empty   == [hooks |-> <<>>, overrides |-> <<>>, errors |-> <<>>]
    IN  /\ Compose(<<file(1), file(2)>>).errors = <<>>
        /\ Compose(<<file(1), file(2), empty>>).errors = <<HookError("duplicate_hook_id", 2)>>
=============================================================================
