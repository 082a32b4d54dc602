--------------------------- MODULE SessionLifecycle ---------------------------
(***************************************************************************)
(* pi/session-lifecycle.ts: what becomes of the session events of a host.  *)
(*                                                                         *)
(* Pi says before_switch and shutdown of the session it leaves and start,  *)
(* with a reason, of the one it enters.  OMP says before_switch, which may *)
(* be cancelled, perhaps shutdown, then switch, and start without a reason *)
(* any number of times.  The host awaits each handler; the hooks of a      *)
(* deletion may run longer than its mark lasts.                            *)
(***************************************************************************)
EXTENDS Naturals, FiniteSets

CONSTANTS
    None,         \* no session
    Sessions,
    Hosts,        \* the kinds of host considered, of "pi" and "omp"
    MaxVisits     \* bound: how often a session is entered

ASSUME SessionLifecycleAssumption ==
    /\ None \notin Sessions
    /\ Hosts \subseteq {"pi", "omp"} /\ Hosts # {}
    /\ MaxVisits \in Nat

VARIABLES
    host,           \* hostKind
    live,           \* the session of the host
    phase,          \* "off", "on", "asked", "closing" or "over"
    visits,         \* how many sessions were entered so far
    why,            \* of a session: how it was entered last
    deletedIds,     \* deletedSessionIds
    lastHandled,    \* lastLifecycleHandledOmpSessionId
    pendingSwitch,  \* pendingOmpSwitch: the session, or None
    created,        \* history: created events of a session since it was entered
    deleted,        \* history: deleted events of a session since it was entered
    raced           \* history: its mark was older, or expired, while it was live

lifecycleVars == <<host, live, phase, visits, why, deletedIds, lastHandled, pendingSwitch,
                   created, deleted, raced>>

Reasons == {"startup", "new", "resume", "fork", "reload"}

LifecycleTypeOK ==
    /\ host \in Hosts
    /\ live \in Sessions \cup {None}
    /\ phase \in {"off", "on", "asked", "closing", "over"}
    /\ live = None <=> phase = "off"
    /\ visits \in 0..MaxVisits
    /\ why \in [Sessions -> Reasons \cup {"never"}]
    /\ deletedIds \subseteq Sessions
    /\ {lastHandled, pendingSwitch} \subseteq Sessions \cup {None}
    /\ host = "pi" => lastHandled = None /\ pendingSwitch = None
    /\ pendingSwitch # None => pendingSwitch = live
    /\ created \in [Sessions -> 0..2] /\ deleted \in [Sessions -> 0..2]
    /\ raced \in [Sessions -> BOOLEAN]

LifecycleInit ==
    /\ host \in Hosts
    /\ live = None /\ phase = "off" /\ visits = 0
    /\ why = [s \in Sessions |-> "never"]
    /\ deletedIds = {}
    /\ lastHandled = None /\ pendingSwitch = None
    /\ created = [s \in Sessions |-> 0] /\ deleted = [s \in Sessions |-> 0]
    /\ raced = [s \in Sessions |-> FALSE]

------------------------------------------------------------------------------
(* The dispatches. *)

\* Variant: the mark is there but not asked.
MarksAlways(s) == s # None

\* markSessionDeleted: nothing if the session is marked already.
Marks(s) == s # None /\ s \notin deletedIds

\* The histories count to two.
Counted(n) == IF n < 2 THEN n + 1 ELSE n

\* dispatchSessionDeleted, of a session or of none.
DispatchDeleted(s) ==
    /\ deletedIds' = IF Marks(s) THEN deletedIds \cup {s} ELSE deletedIds
    /\ deleted' = IF Marks(s) THEN [deleted EXCEPT ![s] = Counted(@)] ELSE deleted

HandledAfter(s) == IF Marks(s) /\ lastHandled = s THEN None ELSE lastHandled

\* dispatchSessionCreated: on OMP only for a session that is not handled yet.
Creates(s) == host = "pi" \/ HandledAfter(pendingSwitch) # s

\* The host enters a session: its histories start again.
Enter(s, reason, creates) ==
    /\ visits < MaxVisits /\ visits' = visits + 1
    /\ live' = s
    /\ phase' = "on"
    /\ why' = [why EXCEPT ![s] = reason]
    /\ created' = [created EXCEPT ![s] = IF creates THEN 1 ELSE 0]
    /\ raced' = [raced EXCEPT ![s] = s \in deletedIds]

\* The mark of a deletion is dropped after five seconds.
Expire(s) ==
    /\ s \in deletedIds
    /\ deletedIds' = deletedIds \ {s}
    /\ raced' = [raced EXCEPT ![s] = @ \/ (s = live /\ phase # "over")]
    /\ UNCHANGED <<host, live, phase, visits, why, lastHandled, pendingSwitch, created, deleted>>

------------------------------------------------------------------------------
(* The events of the host. *)

\* session_start at startup.
Startup(s) ==
    /\ phase = "off"
    /\ Enter(s, "startup", TRUE)
    /\ lastHandled' = IF host = "omp" THEN s ELSE None
    /\ UNCHANGED <<host, deletedIds, pendingSwitch, deleted>>

\* session_start without a reason, again.
StartAgain ==
    /\ host = "omp" /\ phase = "on"
    /\ created' = IF lastHandled # live THEN [created EXCEPT ![live] = Counted(@)] ELSE created
    /\ lastHandled' = live
    /\ UNCHANGED <<host, live, phase, visits, why, deletedIds, pendingSwitch, deleted, raced>>

\* session_before_switch: OMP can still be cancelled, so its deletion waits.
BeforeSwitch ==
    /\ phase = "on"
    /\ phase' = "asked"
    /\ \/ /\ host = "omp"
          /\ pendingSwitch' = live
          /\ UNCHANGED <<deletedIds, deleted>>
       \/ /\ host = "pi"
          /\ DispatchDeleted(live)
          /\ UNCHANGED pendingSwitch
    /\ UNCHANGED <<host, live, visits, why, lastHandled, created, raced>>

\* Another extension cancels the switch; the adapter is not told.
SwitchCancelled ==
    /\ phase = "asked"
    /\ phase' = "on"
    /\ UNCHANGED <<host, live, visits, why, deletedIds, lastHandled, pendingSwitch,
                   created, deleted, raced>>

\* session_shutdown, before a switch (always on Pi) or a reload, or at the end.
Shutdown(then) ==
    /\ phase \in {"on", "asked"}
    /\ phase' = then
    /\ pendingSwitch' = IF pendingSwitch = live THEN None ELSE pendingSwitch
    /\ DispatchDeleted(live)
    /\ lastHandled' = HandledAfter(live)
    /\ UNCHANGED <<host, live, visits, why, created, raced>>

\* The host has replaced its manager: session_start on Pi.
PiSwitch(s, reason) ==
    /\ host = "pi" /\ phase = "closing" /\ s # live
    /\ Enter(s, reason, reason = "new")
    /\ deleted' = [deleted EXCEPT ![s] = 0]
    /\ UNCHANGED <<host, deletedIds, lastHandled, pendingSwitch>>

\* Variant: a session that is resumed or forked is not marked as handled.
HandledIfNew(s, reason) == IF reason = "new" THEN s ELSE HandledAfter(pendingSwitch)

\* What is handled after a switch: the session entered, created or not.
Handled(s, reason) == s

\* session_switch on OMP: the deletion that waited, then the new session.
OmpSwitch(s, reason) ==
    /\ host = "omp" /\ phase \in {"asked", "closing"} /\ s # live
    /\ Enter(s, reason, reason = "new" /\ Creates(s))
    /\ pendingSwitch' = None
    /\ deletedIds' = IF Marks(pendingSwitch) THEN deletedIds \cup {pendingSwitch} ELSE deletedIds
    /\ deleted' = [x \in Sessions |-> IF x = s THEN 0
                      ELSE IF x = pendingSwitch /\ Marks(x) THEN Counted(deleted[x]) ELSE deleted[x]]
    /\ lastHandled' = Handled(s, reason)
    /\ UNCHANGED host

\* session_start with the reason reload, after the shutdown.
Reload ==
    /\ phase = "closing"
    /\ Enter(live, "reload", FALSE)
    /\ deleted' = [deleted EXCEPT ![live] = 0]
    /\ lastHandled' = IF host = "omp" THEN live ELSE None
    /\ UNCHANGED <<host, deletedIds, pendingSwitch>>

\* New sessions are new, and old ones are resumed.
Switch(s) ==
    \/ why[s] = "never" /\ \E reason \in {"new", "fork"} : PiSwitch(s, reason) \/ OmpSwitch(s, reason)
    \/ why[s] # "never" /\ (PiSwitch(s, "resume") \/ OmpSwitch(s, "resume"))

Lifecycle ==
    \/ \E s \in Sessions : Startup(s) \/ Switch(s) \/ Expire(s)
    \/ StartAgain \/ BeforeSwitch \/ SwitchCancelled \/ Reload
    \/ Shutdown("closing") \/ Shutdown("over")

------------------------------------------------------------------------------
(* Properties. *)

\* "Duplicate switch and shutdown signals collapse into one dispatch"
\* (docs/hooks-reference.md): a visit that ended was told exactly once, unless a
\* mark of five seconds decided otherwise; on OMP a session that goes on because
\* its switch was cancelled is not told at all.
DeletedOncePerVisit ==
    \A s \in Sessions : why[s] # "never" /\ ~raced[s] =>
       /\ s # live \/ phase \in {"closing", "over"} => deleted[s] = 1
       /\ s = live /\ phase \in {"on", "asked"} =>
             deleted[s] <= IF host = "omp" THEN 0 ELSE 1

\* A session is created at most once for each time it is entered, and only when it
\* is entered as a new one, whatever starts without a reason follow.
CreatedOnce ==
    \A s \in Sessions :
       created[s] = IF why[s] \in {"startup", "new"} THEN 1 ELSE 0
=============================================================================
