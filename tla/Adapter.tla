------------------------------- MODULE Adapter -------------------------------
(***************************************************************************)
(* pi/register-adapter.ts: the tool calls and the idle events of a host    *)
(* whose sessions come and go as in SessionLifecycle.                      *)
(*                                                                         *)
(* A tool result may come after its session was left: the adapter keeps    *)
(* the session of every call in a map with a time to live and a cap.       *)
(* Pi is idle when an agent has ended or settled, OMP only when it said    *)
(* session_stop in the same run and session before.                        *)
(***************************************************************************)
EXTENDS SessionLifecycle, Sequences, SequencesExt

CONSTANTS
    Calls,        \* tool calls, each with an id of its own
    MaxEntries,   \* TOOL_CALL_SESSION_MAX_ENTRIES
    MaxRuns       \* bound: how often the agent starts

ASSUME AdapterAssumption == MaxEntries \in Nat \ {0} /\ MaxRuns \in Nat /\ None \notin Calls

VARIABLES
    at,           \* of a call: "new", "asked", "running", "resulting" or "over"
    entries,      \* callIdsToSessionIds: sequence of [call, session, expired]
    home,         \* history: the session a call was made in
    routed,       \* history: the session its result was dispatched to
    lost,         \* history: calls whose entry expired or fell out
    generation,   \* sessionIdleGeneration
    idleSent,     \* sessionIdleDispatched
    candidate,    \* idleCandidate: [session, generation] or None
    stopped,      \* history: sessions that stopped in this run of the agent
    idles         \* history: sessions told that they are idle in this run

callVars == <<at, entries, home, routed, lost>>
idleVars == <<generation, idleSent, candidate, stopped, idles>>
vars == <<lifecycleVars, callVars, idleVars>>

Entry == [call : Calls, session : Sessions, expired : BOOLEAN]

TypeOK ==
    /\ LifecycleTypeOK
    /\ at \in [Calls -> {"new", "asked", "running", "resulting", "over"}]
    /\ entries \in Seq(Entry) /\ Len(entries) <= MaxEntries
    /\ home \in [Calls -> Sessions \cup {None}]
    /\ routed \in [Calls -> Sessions \cup {None}]
    /\ lost \subseteq Calls
    /\ generation \in 0..MaxRuns
    /\ idleSent \in BOOLEAN
    /\ candidate = None \/ candidate \in [session : Sessions, generation : 0..MaxRuns]
    /\ stopped \subseteq Sessions
    /\ idles \in Seq(Sessions)

Init ==
    /\ LifecycleInit
    /\ at = [c \in Calls |-> "new"]
    /\ entries = <<>>
    /\ home = [c \in Calls |-> None] /\ routed = [c \in Calls |-> None]
    /\ lost = {}
    /\ generation = 0 /\ idleSent = FALSE /\ candidate = None
    /\ stopped = {} /\ idles = <<>>

------------------------------------------------------------------------------
(* Tool calls. *)

PlacesOf(c) == {i \in 1..Len(entries) : entries[i].call = c}

EntryOf(c) == {entries[i] : i \in PlacesOf(c)}

\* callIdsToSessionIds.delete: a call has one entry at most.
Without(c) == IF PlacesOf(c) = {} THEN entries
              ELSE RemoveAt(entries, CHOOSE i \in PlacesOf(c) : TRUE)

\* lookupToolCallSession: an entry that has expired is no answer.
LookedUp(c) == {e \in EntryOf(c) : ~e.expired}

\* Variant: there is no cap.
RememberedAll(c) == Append(entries, [call |-> c, session |-> live, expired |-> FALSE])

\* rememberToolCallSession: expired entries go, which are the oldest, then the
\* oldest beyond the cap.
Remembered(c) ==
    LET expired == {i \in 1..Len(entries) : entries[i].expired}
        kept == SubSeq(entries, Cardinality(expired) + 1, Len(entries))
        all  == Append(kept, [call |-> c, session |-> live, expired |-> FALSE])
    IN  IF Len(all) > MaxEntries THEN Tail(all) ELSE all

\* tool_call: the session is remembered, and the before hooks are asked.
ToolCall(c) ==
    /\ at[c] = "new" /\ phase \in {"on", "asked"}
    /\ at' = [at EXCEPT ![c] = "asked"]
    /\ home' = [home EXCEPT ![c] = live]
    /\ entries' = Remembered(c)
    /\ lost' = lost \cup {e.call : e \in {entries[i] : i \in 1..Len(entries)}
                                       \ {entries'[i] : i \in 1..Len(entries')}}
    /\ UNCHANGED <<lifecycleVars, routed, idleVars>>

\* Its hooks let it run.
ToolPasses(c) ==
    /\ at[c] = "asked"
    /\ at' = [at EXCEPT ![c] = "running"]
    /\ UNCHANGED <<lifecycleVars, entries, home, routed, lost, idleVars>>

\* The histories of a call that is over are not needed any more.
Over(c) ==
    /\ at' = [at EXCEPT ![c] = "over"]
    /\ home' = [home EXCEPT ![c] = None]
    /\ routed' = [routed EXCEPT ![c] = None]
    /\ lost' = lost \ {c}

\* Its hooks block it or fail: there will be no result.
ToolBlocked(c) ==
    /\ at[c] = "asked"
    /\ Over(c)
    /\ entries' = Without(c)
    /\ UNCHANGED <<lifecycleVars, idleVars>>

\* Variant: the session of the context is preferred.
SourceLive(c) == live

\* The session that is remembered, or else that of the context.
Source(c) == IF LookedUp(c) # {} THEN (CHOOSE e \in LookedUp(c) : TRUE).session ELSE live

\* tool_result: its after hooks are asked.
ToolResult(c) ==
    /\ at[c] = "running"
    /\ at' = [at EXCEPT ![c] = "resulting"]
    /\ routed' = [routed EXCEPT ![c] = Source(c)]
    /\ entries' = IF LookedUp(c) # {} THEN entries ELSE Without(c)
    /\ UNCHANGED <<lifecycleVars, home, lost, idleVars>>

\* The after hooks are over.
ToolDone(c) ==
    /\ at[c] = "resulting"
    /\ Over(c)
    /\ entries' = Without(c)
    /\ UNCHANGED <<lifecycleVars, idleVars>>

\* Five minutes pass for the oldest entries.
EntryExpires(c) ==
    /\ \E i \in 1..Len(entries) :
          /\ entries[i].call = c /\ ~entries[i].expired
          /\ \A j \in 1..i - 1 : entries[j].expired
          /\ entries' = [entries EXCEPT ![i].expired = TRUE]
    /\ lost' = lost \cup {c}
    /\ UNCHANGED <<lifecycleVars, at, home, routed, idleVars>>

Tools == \E c \in Calls :
    ToolCall(c) \/ ToolPasses(c) \/ ToolBlocked(c) \/ ToolResult(c) \/ ToolDone(c) \/ EntryExpires(c)

------------------------------------------------------------------------------
(* Idle events. *)

AgentStart ==
    /\ phase = "on" /\ generation < MaxRuns
    /\ generation' = generation + 1
    /\ idleSent' = FALSE
    /\ stopped' = {} /\ idles' = <<>>
    /\ UNCHANGED <<lifecycleVars, callVars, candidate>>

\* session_stop on OMP: other extensions may still continue the run.
SessionStop ==
    /\ host = "omp" /\ phase \in {"on", "asked"} /\ generation > 0
    /\ candidate' = [session |-> live, generation |-> generation]
    /\ stopped' = stopped \cup {live}
    /\ UNCHANGED <<lifecycleVars, callVars, generation, idleSent, idles>>

\* dispatchSessionIdle, when the host says that it is idle and nothing is queued.
DispatchIdle ==
    /\ idleSent' = TRUE
    /\ idles' = IF idleSent THEN idles ELSE Append(idles, live)

\* agent_end and agent_settled on Pi.
PiAgentEnd ==
    /\ host = "pi" /\ phase \in {"on", "asked"} /\ generation > 0
    /\ DispatchIdle
    /\ UNCHANGED <<lifecycleVars, callVars, generation, candidate, stopped>>

\* Variant: a candidate counts in whatever run it was named.
CurrentInAnyRun(c) == c # None /\ c.session = live

\* The candidate was named in this run of the agent, by this session.
Current(c) == c # None /\ c.generation = generation /\ c.session = live

\* agent_end on OMP uses the candidate up; busy or queued, the host is not idle.
OmpAgentEnd ==
    /\ host = "omp" /\ phase \in {"on", "asked"} /\ generation > 0
    /\ candidate' = None
    /\ \/ Current(candidate) /\ DispatchIdle
       \/ UNCHANGED <<idleSent, idles>>
    /\ UNCHANGED <<lifecycleVars, callVars, generation, stopped>>

Idling == AgentStart \/ SessionStop \/ PiAgentEnd \/ OmpAgentEnd

Next ==
    \/ Lifecycle /\ UNCHANGED <<callVars, idleVars>>
    \/ Tools
    \/ Idling

Spec == Init /\ [][Next]_vars
------------------------------------------------------------------------------
(* Properties. *)

\* A result reaches the session that made the call, also after switches and
\* beside other calls, unless its entry has expired or fell out of the map; and
\* a call that is over has left nothing in the map.
ResultsGoHome ==
    \A c \in Calls :
       /\ routed[c] # None /\ c \notin lost => routed[c] = home[c]
       /\ at[c] = "over" => EntryOf(c) = {}

\* A run of the agent sends at most one idle event, and on OMP only for a session
\* that stopped in this very run.
IdleOncePerRun ==
    /\ Len(idles) <= 1
    /\ host = "omp" => \A i \in 1..Len(idles) : idles[i] \in stopped
=============================================================================
