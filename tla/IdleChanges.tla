---------------------------- MODULE IdleChanges ----------------------------
(***************************************************************************)
(* The file changes of one session and the idle dispatches that report     *)
(* them: tool.execute.after adds to the pending changes, the session.idle  *)
(* handler of core/runtime.ts takes a snapshot, has the idle hooks run on  *)
(* it and then removes it, except for what was changed again meanwhile.    *)
(* The adapter of pi/register-adapter.ts decides when an idle event is     *)
(* sent: at most once per agent run.                                       *)
(***************************************************************************)
EXTENDS Naturals, Sequences

CONSTANTS
    Change,       \* serialized file changes (operation and paths)
    Idle,         \* the session.idle events of the session
    Overlap,      \* TRUE: an idle event may come while an earlier one is handled
    MaxRuns,      \* bound on agent runs
    HookMap, Hooks, NoRequest

Key == {"session.idle"}
KeyOf == [i \in Idle |-> "session.idle"]

ASSUME IdleAssumption ==
    /\ Hooks \in [HookMap -> [Key -> Nat]]
    /\ NoRequest \notin Idle
    /\ Overlap \in BOOLEAN
    /\ MaxRuns \in Nat

VARIABLES
    running,      \* the agent runs
    runs,         \* agent runs so far
    dispatched,   \* sessionIdleDispatched
    changes,      \* record.changes
    active,       \* record.activeIdleDispatchKeys; undefined acts as {}
    replayed,     \* record.replayedDuringIdleKeys
    snapshot,     \* [Idle -> SUBSET Change]: local to a handler
    handler,      \* [Idle -> {"new", "waiting", "over"}]
    owed,         \* changes no settled idle dispatch has accounted for (history)
    since,        \* [Idle -> SUBSET Change]: made since its snapshot (history)
    pending, runner, current, nextHook, verdict, hookMap, called, served, answer

D == INSTANCE Dispatch WITH Request <- Idle, Blocking <- {}

dispatchVars == <<pending, runner, current, nextHook, verdict, hookMap, called, served, answer>>
agentVars    == <<running, runs, dispatched>>
recordVars   == <<changes, active, replayed>>
handlerVars  == <<snapshot, handler>>
ghostVars    == <<owed, since>>
vars == <<agentVars, recordVars, handlerVars, ghostVars, dispatchVars>>

TypeOK ==
    /\ D!TypeOK
    /\ running \in BOOLEAN /\ runs \in 0..MaxRuns /\ dispatched \in BOOLEAN
    /\ changes \subseteq Change
    /\ active \subseteq Change
    /\ replayed \subseteq Change
    /\ snapshot \in [Idle -> SUBSET Change]
    /\ handler \in [Idle -> {"new", "waiting", "over"}]
    /\ owed \subseteq Change
    /\ since \in [Idle -> SUBSET Change]

Init ==
    /\ D!Init
    /\ running = FALSE /\ runs = 0 /\ dispatched = FALSE
    /\ changes = {} /\ active = {} /\ replayed = {}
    /\ snapshot = [i \in Idle |-> {}]
    /\ handler = [i \in Idle |-> "new"]
    /\ owed = {}
    /\ since = [i \in Idle |-> {}]

------------------------------------------------------------------------------
Waiting == {i \in Idle : handler[i] = "waiting"}

\* When the host may act.  Idle events that overlap are studied with handlers
\* that resume before the next event of the host, as promises do; without
\* overlap a handler may take as long as it likes.
HostMayAct == Overlap => \A i \in Waiting : answer[i] = D!NotYet

\* agent_start re-arms the idle event.
AgentStart ==
    /\ HostMayAct
    /\ ~running
    /\ runs < MaxRuns
    /\ running' = TRUE
    /\ runs' = runs + 1
    /\ dispatched' = FALSE
    /\ UNCHANGED <<recordVars, handlerVars, ghostVars, dispatchVars>>

\* The host has stopped the agent: isIdle() holds.
AgentStop ==
    /\ HostMayAct
    /\ running
    /\ running' = FALSE
    /\ UNCHANGED <<runs, dispatched, recordVars, handlerVars, ghostVars, dispatchVars>>

\* Variant: the change is not marked as replayed.
AddFileChangesUnmarked(C) ==
    /\ changes' = changes \cup C
    /\ UNCHANGED <<active, replayed>>

\* addFileChanges: what an idle dispatch is reporting right now is marked.
AddFileChanges(C) ==
    /\ changes' = changes \cup C
    /\ replayed' = replayed \cup (C \cap active)
    /\ UNCHANGED active

\* tool.execute.after of a tool that changed C.
ToolChanged(C) ==
    /\ HostMayAct
    /\ running
    /\ C # {}
    /\ AddFileChanges(C)
    /\ owed' = owed \cup C
    /\ since' = [i \in Idle |-> IF i \in Waiting THEN since[i] \cup C ELSE since[i]]
    /\ UNCHANGED <<agentVars, handlerVars, dispatchVars>>

BeginIdleDispatch(C) ==
    /\ active' = C
    /\ replayed' = {}
    /\ UNCHANGED changes

\* dispatchSessionIdle of the adapter and the session.idle handler up to its
\* await: the snapshot is taken, tracking begins, the hooks are dispatched.
IdleEvent(i, m) ==
    /\ HostMayAct
    /\ ~running /\ runs > 0
    /\ ~dispatched
    /\ Overlap \/ Waiting = {}
    /\ handler[i] = "new"
    /\ dispatched' = TRUE
    /\ handler' = [handler EXCEPT ![i] = "waiting"]
    /\ snapshot' = [snapshot EXCEPT ![i] = changes]
    /\ since' = [since EXCEPT ![i] = {}]
    /\ BeginIdleDispatch(changes)
    /\ D!Call(i, m)
    /\ UNCHANGED <<running, runs, owed>>

\* consumeFileChanges: the snapshot leaves the pending changes, unless marked.
ConsumeFileChanges(C) ==
    /\ changes' = (changes \ C) \cup (C \cap replayed)
    /\ active' = {}
    /\ replayed' = {}

CancelIdleDispatch ==
    /\ active' = {}
    /\ replayed' = {}
    /\ UNCHANGED changes

\* Variant: a way to end that nothing else knows.
OverFailed(i) ==
    /\ handler' = [handler EXCEPT ![i] = "failed"]
    /\ UNCHANGED <<snapshot, since, agentVars, dispatchVars>>

\* The handler of i is over.
Over(i) ==
    /\ handler' = [handler EXCEPT ![i] = "over"]
    /\ UNCHANGED <<snapshot, since, agentVars, dispatchVars>>

\* The dispatch resolved, or rejected for a failing hook: consumed.
Consume(i) ==
    /\ handler[i] = "waiting"
    /\ answer[i] # D!NotYet
    /\ ConsumeFileChanges(snapshot[i])
    /\ owed' = owed \ (snapshot[i] \ since[i])
    /\ Over(i)

\* The dispatch rejected because the host died: everything is kept.
HostDied(i) ==
    /\ handler[i] = "waiting"
    /\ answer[i] = "error"
    /\ CancelIdleDispatch
    /\ UNCHANGED owed
    /\ Over(i)

\* The dispatcher moves on by itself.
Work(k) ==
    /\ D!RunHook(k) \/ D!Settle(k)
    /\ UNCHANGED <<agentVars, recordVars, handlerVars, ghostVars>>

\* The user has left, and every idle event was handled.
Rest ==
    /\ runs = MaxRuns /\ ~running /\ Waiting = {}
    /\ dispatched \/ \A i \in Idle : handler[i] # "new"
    /\ UNCHANGED vars

Next ==
    \/ AgentStart \/ AgentStop
    \/ \E C \in SUBSET Change : ToolChanged(C)
    \/ \E i \in Idle :
          \/ \E m \in HookMap : IdleEvent(i, m)
          \/ Consume(i) \/ HostDied(i)
    \/ \E k \in Key : Work(k)
    \/ Rest

Spec == Init /\ [][Next]_vars

------------------------------------------------------------------------------
(* Properties. *)

\* While idle dispatches do not overlap, the pending changes are exactly those
\* no idle dispatch has accounted for: a change made while its dispatch runs is
\* offered again, one whose dispatch found the host dead is kept, and what the
\* idle hooks have dealt with is not offered a second time.
ChangesAreOwed == changes = owed

\* What the comment in consumeFileChanges says: a change made again during an
\* idle dispatch survives its consumption and is replayed on the next one.  So
\* a change still owed is pending, or a dispatch that began after it has it.
ReplaySurvives ==
    owed \subseteq changes \cup UNION {snapshot[i] \ since[i] : i \in Waiting}
=============================================================================
