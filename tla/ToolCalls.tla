----------------------------- MODULE ToolCalls -----------------------------
(***************************************************************************)
(* The tool-call handlers of core/runtime.ts (tool.execute.before,         *)
(* tool.execute.after, user.bash.before) over the dispatcher: every call   *)
(* runs the wildcard hooks and then the hooks of its own tool, before the  *)
(* tool and after it, and a result that changed files runs the             *)
(* file.changed hooks.  Calls of one session overlap and share keys.       *)
(*                                                                         *)
(* The arguments of a call are remembered for its result, which may come   *)
(* after its session was left.  core/session-state.ts forgets those of a   *)
(* deleted session, those that are five minutes old and, of too many, the  *)
(* oldest; PendingCalls has its map in detail.                             *)
(*                                                                         *)
(* Each action is the code of a handler between two awaits.  The request   *)
(* of call c for stage s is <<c, s>>.                                      *)
(***************************************************************************)
EXTENDS Naturals, Sequences, FiniteSets

CONSTANTS
    Calls,        \* the tool calls, and the shell commands a user types
    UserBash,     \* the latter (user.bash.before): no result event follows
    Mutating,     \* the calls whose arguments describe file changes
    WithInput,    \* the calls whose result event has the arguments, too
    MaxPending,   \* MAX_PENDING_TOOL_CALLS
    Session, SessionOf,
    Tool, ToolOf, \* canonical tool names
    HookMap,      \* the hook maps loaded over time
    Hooks,        \* [HookMap -> [Key -> Nat]], as in Dispatch
    Loaded,       \* bound: [Calls -> SUBSET HookMap], those loaded at its events
    Ending,       \* bound: the calls whose tool ends
    Slow,         \* bound: the calls that may take five minutes
    Left,         \* bound: the sessions that are left
    NoRequest

Stage == {"wildBefore", "ownBefore", "fileChanged", "wildAfter", "ownAfter"}

Request == Calls \X Stage

\* The event of a stage: its family, and a tool name or "*".
EventOf(c, s) ==
    CASE s = "wildBefore"  -> <<"tool.before", "*">>
      [] s = "ownBefore"   -> <<"tool.before", ToolOf[c]>>
      [] s = "fileChanged" -> <<"file.changed", "*">>
      [] s = "wildAfter"   -> <<"tool.after", "*">>
      [] s = "ownAfter"    -> <<"tool.after", ToolOf[c]>>

Key == {<<SessionOf[r[1]], EventOf(r[1], r[2])>> : r \in Request}

KeyOf == [r \in Request |-> <<SessionOf[r[1]], EventOf(r[1], r[2])>>]

\* canBlock: phase === "before"
Blocking == {k \in Key : k[2][1] = "tool.before"}

ASSUME ToolCallsAssumption ==
    /\ UserBash \subseteq Calls
    /\ Mutating \subseteq Calls \ UserBash
    /\ WithInput \subseteq Calls \ UserBash
    /\ MaxPending \in Nat \ {0}
    /\ SessionOf \in [Calls -> Session]
    /\ ToolOf \in [Calls -> Tool]
    /\ Hooks \in [HookMap -> [Key -> Nat]]
    /\ Loaded \in [Calls -> SUBSET HookMap]
    /\ NoRequest \notin Request

VARIABLES
    at,           \* [Calls -> Place]: where the handlers of a call stand
    mapOf,        \* [Calls -> HookMap]: what refreshHooks gave the running handler
    pendingArgs,  \* the calls with an entry in pendingToolCalls
    behind,       \* [Calls -> Nat]: how many were placed after the entry of a call
    expired,      \* the calls whose entry is older than the time to live
    excused,      \* history: the calls whose arguments may be gone at their result
    pending, runner, current, nextHook, verdict, hookMap, called, served, answer

D == INSTANCE Dispatch

argVars == <<pendingArgs, behind, expired, excused>>
toolVars == <<at, mapOf, argVars>>
dispatchVars == <<pending, runner, current, nextHook, verdict, hookMap, called, served, answer>>
vars == <<toolVars, dispatchVars>>

\* A stage: the handler awaits that dispatch.  "crashed": the before handler
\* threw without a block; the adapter refuses the tool in that case too.
Place == Stage \cup {"idle", "allowed", "refused", "crashed", "ran", "done", "failed"}

TypeOK ==
    /\ D!TypeOK
    /\ at \in [Calls -> Place]
    /\ mapOf \in [Calls -> HookMap \cup {D!NotYet}]
    /\ pendingArgs \subseteq Calls \ UserBash
    /\ behind \in [Calls -> Nat]
    /\ expired \subseteq pendingArgs
    /\ excused \subseteq Calls \ UserBash

Init ==
    /\ D!Init
    /\ at = [c \in Calls |-> "idle"]
    /\ mapOf = [c \in Calls |-> D!NotYet]
    /\ pendingArgs = {}
    /\ behind = [c \in Calls |-> 0]
    /\ expired = {} /\ excused = {}

------------------------------------------------------------------------------
(* The remembered arguments. *)

\* The map has entries for the calls in S only.
EntriesBecome(S) ==
    /\ pendingArgs' = S
    /\ behind' = [c \in Calls |-> IF c \in S THEN behind[c] ELSE 0]
    /\ expired' = expired \cap S

\* Variant: all that expired goes, and all that is younger.
SweptAll == IF expired = {} THEN pendingArgs ELSE {}

\* sweepExpiredPendingToolCalls: entries go up to the first not expired.
Swept == {c \in pendingArgs : \E d \in pendingArgs \ expired : behind[d] >= behind[c]}

\* The entry that was placed first.
Oldest(S) == {c \in S : \A d \in S : behind[d] <= behind[c]}

\* What is kept of the map when one more is set.
Kept == IF Cardinality(Swept) >= MaxPending THEN Swept \ Oldest(Swept) ELSE Swept

\* A tool that may still run, or whose result has not come.
Waiting == {c \in Calls : at[c] \in {"wildBefore", "ownBefore", "allowed", "ran"}}

\* setPendingToolCall; every call has an id of its own.  Expired arguments may
\* go now, and those that MaxPending calls came after.
SetPendingToolCall(c) ==
    /\ pendingArgs' = Kept \cup {c}
    /\ behind' = [d \in Calls |-> IF d \in Kept THEN behind[d] + 1 ELSE 0]
    /\ expired' = expired \cap Kept
    /\ excused' = excused \cup {d \in Waiting \cap pendingArgs :
                                  d \in expired \/ behind[d] + 1 >= MaxPending}

\* consumePendingToolCall
ConsumePendingToolCall(c) == EntriesBecome(pendingArgs \ {c})

\* Five minutes have passed since the entry of c was placed, and so since the
\* older ones were.
EntryExpires(c) ==
    /\ c \in Slow
    /\ c \in pendingArgs \ expired
    /\ \A d \in pendingArgs \ expired : behind[d] <= behind[c]
    /\ expired' = expired \cup {c}
    /\ UNCHANGED <<at, mapOf, pendingArgs, behind, excused, dispatchVars>>

\* session.deleted: the arguments of its calls are dropped, though their results
\* may still come.  The hooks of that event have a key no call shares.
DeleteSession(s) ==
    /\ s \in Left /\ \E c \in pendingArgs : SessionOf[c] = s
    /\ EntriesBecome({c \in pendingArgs : SessionOf[c] # s})
    /\ excused' = excused \cup {c \in Waiting \cap pendingArgs : SessionOf[c] = s}
    /\ UNCHANGED <<at, mapOf, dispatchVars>>

------------------------------------------------------------------------------
(* The handlers. *)

\* dispatchHooks is called for stage s of c with hook map m.
Ask(c, s, m) ==
    /\ at' = [at EXCEPT ![c] = s]
    /\ D!Call(<<c, s>>, m)

\* What the awaited dispatch of c resolved to.
Answered(c, o) == at[c] \in Stage /\ answer[<<c, at[c]>>] = o

\* No dispatch is awaited any more: the handler's hook map goes with it.
MoveTo(c, place) ==
    /\ at' = [at EXCEPT ![c] = place]
    /\ mapOf' = [mapOf EXCEPT ![c] = D!NotYet]
    /\ UNCHANGED dispatchVars

\* tool.execute.before (or user.bash.before) starts with the hooks just
\* refreshed; the arguments are remembered before the first hook runs.
Before(c, m) ==
    /\ at[c] = "idle"
    /\ mapOf' = [mapOf EXCEPT ![c] = m]
    /\ IF c \in UserBash THEN UNCHANGED argVars ELSE SetPendingToolCall(c)
    /\ Ask(c, "wildBefore", m)

\* Variant: dispatchToolHooks does not look at wildcardResult.blocked.
OwnBeforeUngated(c) ==
    /\ at[c] = "wildBefore"
    /\ answer[<<c, at[c]>>] \in {"ok", "blocked"}
    /\ Ask(c, "ownBefore", mapOf[c])
    /\ UNCHANGED <<mapOf, argVars>>

\* The wildcard hooks passed: the hooks of the tool are asked.
OwnBefore(c) ==
    /\ at[c] = "wildBefore"
    /\ Answered(c, "ok")
    /\ Ask(c, "ownBefore", mapOf[c])
    /\ UNCHANGED <<mapOf, argVars>>

\* Variant: the handler reports a pass in a way the adapter does not know.
PassUnknown(c) ==
    /\ at[c] = "ownBefore"
    /\ Answered(c, "ok")
    /\ MoveTo(c, "passed")
    /\ UNCHANGED argVars

\* The before handler returns: the tool may run.
Pass(c) ==
    /\ at[c] = "ownBefore"
    /\ Answered(c, "ok")
    /\ MoveTo(c, "allowed")
    /\ UNCHANGED argVars

\* Variant: a hook that failed counts as a block.
RefuseOnError(c) ==
    /\ at[c] \in {"wildBefore", "ownBefore"}
    /\ Answered(c, "blocked") \/ Answered(c, "error")
    /\ MoveTo(c, "refused")
    /\ ConsumePendingToolCall(c)
    /\ excused' = excused \ {c}

\* A hook blocked: the arguments are dropped and the handler throws.
Refuse(c) ==
    /\ at[c] \in {"wildBefore", "ownBefore"}
    /\ Answered(c, "blocked")
    /\ MoveTo(c, "refused")
    /\ ConsumePendingToolCall(c)
    /\ excused' = excused \ {c}

\* The dispatch rejected: the handler throws at once and runs no later stage.
\* Before the tool this keeps the arguments it remembered.
Fail(c) ==
    /\ Answered(c, "error")
    /\ MoveTo(c, IF at[c] \in {"wildBefore", "ownBefore"} THEN "crashed" ELSE "failed")
    /\ UNCHANGED <<pendingArgs, behind, expired>>
    /\ excused' = excused \ {c}

\* The host runs the tool only if the before handler returned; the tool ends.
RunTool(c) ==
    /\ at[c] = "allowed" /\ c \in Ending
    /\ MoveTo(c, "ran")
    /\ UNCHANGED argVars

\* resolveToolArgs: the calls whose arguments are known if the result comes now.
Resolved == WithInput \cup pendingArgs

\* tool.execute.after: the arguments are consumed, the file changes read off
\* them come first.
After(c, m) ==
    /\ at[c] = "ran"
    /\ c \notin UserBash
    /\ mapOf' = [mapOf EXCEPT ![c] = m]
    /\ ConsumePendingToolCall(c)
    /\ excused' = excused \ ({c} \cap Resolved)
    /\ Ask(c, IF c \in Mutating \cap Resolved THEN "fileChanged" ELSE "wildAfter", m)

NextAfter(c) ==
    /\ Answered(c, "ok")
    /\ \/ at[c] = "fileChanged" /\ Ask(c, "wildAfter", mapOf[c]) /\ UNCHANGED mapOf
       \/ at[c] = "wildAfter"   /\ Ask(c, "ownAfter", mapOf[c])  /\ UNCHANGED mapOf
       \/ at[c] = "ownAfter"    /\ MoveTo(c, "done")
    /\ UNCHANGED argVars

\* A handler resumes when the dispatch it awaits has resolved.
Resume(c) == OwnBefore(c) \/ Pass(c) \/ Refuse(c) \/ Fail(c) \/ NextAfter(c)

\* The dispatcher moves on by itself.
Work(k) == (D!RunHook(k) \/ D!Settle(k)) /\ UNCHANGED toolVars

Finished(c) ==
    \/ at[c] \in {"refused", "crashed", "done", "failed"}
    \/ at[c] = "ran" /\ c \in UserBash
    \/ at[c] = "allowed" /\ c \notin Ending

\* Every call is over and the dispatcher has nothing left to do.
Rest ==
    /\ \A c \in Calls : Finished(c)
    /\ \A k \in Key : current[k] = NoRequest
    /\ UNCHANGED vars

Next ==
    \/ \E c \in Calls :
          \/ \E m \in Loaded[c] : Before(c, m) \/ After(c, m)
          \/ Resume(c) \/ RunTool(c) \/ EntryExpires(c)
    \/ \E s \in Session : DeleteSession(s)
    \/ \E k \in Key : Work(k)
    \/ Rest

Spec == Init /\ [][Next]_vars

\* The event loop does not stop while a handler can resume or a hook action
\* ends; which goes first is open.  Nothing makes the host start a call, run the
\* tool, deliver its result or leave a session.
Fairness == WF_vars((\E c \in Calls : Resume(c)) \/ (\E k \in Key : Work(k)))

FairSpec == Spec /\ Fairness

------------------------------------------------------------------------------
(* Properties. *)

\* A tool is let through only if both its wildcard and its own pre-tool hooks
\* ran for this very call and neither blocked nor failed, whoever executed
\* them; and its own hooks are not even asked before the wildcard ones passed.
GateHolds ==
    \A c \in Calls :
        /\ (at[c] \in {"allowed", "ran", "fileChanged", "wildAfter", "ownAfter", "done", "failed"}) =>
              served[<<c, "wildBefore">>] = "ok" /\ served[<<c, "ownBefore">>] = "ok"
        /\ (<<c, "ownBefore">> \in called) => served[<<c, "wildBefore">>] = "ok"

\* A call is refused as blocked only if a hook blocked this very call, and its
\* handler throws otherwise only if one of its own dispatches failed: what
\* happens to one call of a session is no other's reason.
RefusedForCause ==
    \A c \in Calls :
        /\ at[c] = "refused" => \E s \in {"wildBefore", "ownBefore"} : served[<<c, s>>] = "blocked"
        /\ at[c] = "crashed" => \E s \in {"wildBefore", "ownBefore"} : served[<<c, s>>] = "error"
        /\ at[c] = "failed"  => \E s \in Stage : served[<<c, s>>] = "error"

\* The arguments of a tool that may still run are there when its result arrives,
\* unless its session was deleted, another call came when they had expired, or
\* MaxPending calls came after it.  A call that was blocked, or whose result was
\* handled, has left none, and there are never more than MaxPending.
ArgsKept ==
    /\ \A c \in Calls \ UserBash :
          /\ at[c] \in {"wildBefore", "ownBefore", "allowed", "ran"} =>
                c \in pendingArgs \cup excused
          /\ at[c] \in {"refused", "fileChanged", "wildAfter", "ownAfter", "done", "failed"} =>
                c \notin pendingArgs
    /\ Cardinality(pendingArgs) <= MaxPending

\* No handler hangs: each one that starts returns or throws.
HandlersReturn == \A c \in Calls : (at[c] \in Stage) ~> (at[c] \notin Stage)

\* Every result whose handler returned is seen by the post-tool hooks and, if
\* it changed files, by the file.changed hooks, also when other results of the
\* session were being dispatched or the session was left -- unless the result
\* does not say what was done and that could be forgotten.
ResultReported ==
    \A c \in Calls :
        (at[c] = "done") ~>
            /\ served[<<c, "wildAfter">>] # D!NotYet
            /\ served[<<c, "ownAfter">>] # D!NotYet
            /\ c \in Mutating /\ (c \in WithInput \/ c \notin excused) =>
                  served[<<c, "fileChanged">>] # D!NotYet

\* What docs/hooks-reference.md says of file.changed: synthesized after the
\* post-tool hooks.
FileChangedAfterPostToolHooks ==
    \A c \in Calls : <<c, "fileChanged">> \in called => <<c, "ownAfter">> \in called
=============================================================================
