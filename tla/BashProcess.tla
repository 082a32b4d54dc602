----------------------------- MODULE BashProcess -----------------------------
(***************************************************************************)
(* One shell command of core/bash-executor.ts: the child process, what its *)
(* descendants do to its output pipes, the timeout with SIGTERM and the    *)
(* grace period before SIGKILL, and the result that is settled once.       *)
(*                                                                         *)
(* Time is a counter.  A timer that is due, and a close event that may be  *)
(* delivered, happen before the clock moves on: the event loop is not      *)
(* blocked for a unit of time.                                             *)
(***************************************************************************)
EXTENDS Naturals

CONSTANTS
    None,       \* no timer, no code, no result yet
    Signal,     \* the "code" of a process ended by a signal
    Code,       \* exit codes: 0, 2 and some other
    Grace       \* KILL_GRACE_PERIOD_MS

\* What executeBashProcess resolves with.
Result == [exit : Code \cup {124, 127}, timedOut : BOOLEAN, truncated : BOOLEAN]

ASSUME BashProcessAssumption ==
    /\ Signal \notin Code /\ None \notin Code \cup {Signal} \cup Result
    /\ {0, 2} \subseteq Code
    /\ Grace \in Nat \ {0}

VARIABLES
    now,        \* the clock
    child,      \* "none", "running" or "exited"
    code,       \* how the child exited
    held,       \* who keeps its output open: "no", "group" or "escaped"
    timerAt,    \* when the timeout fires
    killAt,     \* when SIGKILL is sent
    timedOut,
    result,     \* what it resolved with
    inTime,     \* history: the child exited before the timeout
    escaped     \* history: a descendant left the process group with the output

procVars == <<child, code, held, timerAt, killAt, timedOut, result, inTime, escaped>>

ProcTypeOK ==
    /\ now \in Nat
    /\ child \in {"none", "running", "exited"}
    /\ code \in Code \cup {Signal, None}
    /\ held \in {"no", "group", "escaped"}
    /\ timerAt \in Nat \cup {None} /\ killAt \in Nat \cup {None}
    /\ {timedOut, inTime, escaped} \subseteq BOOLEAN
    /\ result \in Result \cup {None}

Settled == result # None

NoProcess ==
    /\ child = "none" /\ code = None /\ held = "no"
    /\ timerAt = None /\ killAt = None
    /\ timedOut = FALSE /\ result = None
    /\ inTime = FALSE /\ escaped = FALSE

\* finalize: the first result counts, and both timers are cleared.
Finalize(r) ==
    /\ ~Settled
    /\ result' = r
    /\ timerAt' = None /\ killAt' = None

\* The child is started; the timeout runs from here.
Spawn(timeout) ==
    /\ child' = "running" /\ code' = None /\ held' = "no"
    /\ timerAt' = now + timeout /\ killAt' = None
    /\ timedOut' = FALSE /\ result' = None
    /\ inTime' = FALSE
    /\ UNCHANGED <<now, escaped>>

\* There is no such executable or directory: the error event.
SpawnError ==
    /\ child' = "exited" /\ code' = None /\ held' = "no"
    /\ timedOut' = FALSE
    /\ result' = [exit |-> 127, timedOut |-> FALSE, truncated |-> FALSE]
    /\ timerAt' = None /\ killAt' = None
    /\ inTime' = FALSE
    /\ UNCHANGED <<now, escaped>>

\* The command exits; what it left in the background may keep the pipes open.
Exit(c) ==
    /\ child = "running"
    /\ child' = "exited" /\ code' = c
    /\ held' \in {"no", "group", "escaped"}
    /\ inTime' = ~timedOut
    /\ escaped' = (escaped \/ held' = "escaped")
    /\ UNCHANGED <<now, timerAt, killAt, timedOut, result>>

DescendantEnds ==
    /\ held # "no"
    /\ held' = "no"
    /\ UNCHANGED <<now, child, code, timerAt, killAt, timedOut, result, inTime, escaped>>

\* SIGTERM to the process group and to the child, which may ignore it.
TimeoutFires ==
    /\ ~Settled /\ timerAt # None /\ timerAt <= now
    /\ timedOut' = TRUE
    /\ timerAt' = None /\ killAt' = now + Grace
    /\ UNCHANGED <<now, child, code, held, result, inTime, escaped>>

\* Variant: SIGKILL reaches the shell only, and not its process group.
KillsChildOnly ==
    /\ ~Settled /\ killAt # None /\ killAt <= now
    /\ killAt' = None
    /\ child' = "exited"
    /\ code' = IF child = "running" THEN Signal ELSE code
    /\ UNCHANGED <<now, held, timerAt, timedOut, result, inTime, escaped>>

\* SIGKILL: the group is gone, the descendants that left it are not.
KillFires ==
    /\ ~Settled /\ killAt # None /\ killAt <= now
    /\ killAt' = None
    /\ child' = "exited"
    /\ code' = IF child = "running" THEN Signal ELSE code
    /\ held' \in IF child = "running" THEN {"no", "escaped"}
                 ELSE {IF held = "escaped" THEN held ELSE "no"}
    /\ escaped' = (escaped \/ held' = "escaped")
    /\ UNCHANGED <<now, timerAt, timedOut, result, inTime>>

\* The exit code that is reported; a process without a code counts as 127.
ExitCode(c) == IF timedOut THEN 124 ELSE IF c = Signal THEN 127 ELSE c

\* The close event: the child has exited and nobody holds its output.
CanClose == child = "exited" /\ held = "no" /\ ~Settled

Close ==
    /\ CanClose
    /\ \E cut \in BOOLEAN :
          Finalize([exit |-> ExitCode(code), timedOut |-> timedOut, truncated |-> cut])
    /\ UNCHANGED <<now, child, code, held, timedOut, inTime, escaped>>

\* Something happens before the clock moves on.
Due ==
    \/ CanClose
    \/ ~Settled /\ timerAt # None /\ timerAt <= now
    \/ ~Settled /\ killAt # None /\ killAt <= now

ProcStep ==
    \/ \E c \in Code : Exit(c)
    \/ DescendantEnds
    \/ TimeoutFires
    \/ KillFires
    \/ Close

\* mapBashProcessResultToHookResult.
Status(r, canBlock) ==
    CASE r.timedOut                                -> "timed_out"
      [] ~r.timedOut /\ r.exit = 0                 -> "success"
      [] ~r.timedOut /\ r.exit = 2 /\ canBlock     -> "blocked"
      [] ~r.timedOut /\ r.exit \notin {0, 2}       -> "failed"
      [] ~r.timedOut /\ r.exit = 2 /\ ~canBlock    -> "failed"
=============================================================================
