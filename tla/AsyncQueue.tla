----------------------------- MODULE AsyncQueue -----------------------------
(***************************************************************************)
(* enqueueAsyncHook of core/runtime/async-queue.ts: async hooks run in     *)
(* lanes, each with a count of running jobs and a bounded queue.  A job    *)
(* carries the concurrency its own hook is configured with, and hooks of   *)
(* one lane need not agree on it.                                          *)
(*                                                                         *)
(* asyncQueues has an entry for lane l iff present[l].  Each action is     *)
(* synchronous code; a job's hook actions run between its start and Done.  *)
(***************************************************************************)
EXTENDS Naturals, Sequences, FiniteSets

CONSTANTS
    Job,          \* the hook executions queued in a run
    Lane,         \* queue keys: an event or a group, of a session
    LaneOf,       \* [Job -> Lane]
    Concurrency,  \* [Job -> Nat]: the concurrency of the job's hook
    MaxPending    \* the pending cap of a lane

ASSUME AsyncQueueAssumption ==
    /\ LaneOf \in [Job -> Lane]
    /\ Concurrency \in [Job -> Nat \ {0}]
    /\ MaxPending \in Nat \ {0}

VARIABLES
    present,      \* [Lane -> BOOLEAN]
    pending,      \* [Lane -> Seq(Job)]
    activeCount,  \* [Lane -> Nat]
    limit,        \* [Job -> Nat]: concurrency in the closure that started it
    job,          \* [Job -> State]
    accepted      \* [Lane -> Seq(Job)]: the jobs accepted, in order (history)

vars == <<present, pending, activeCount, limit, job, accepted>>

State == {"new", "queued", "running", "over", "dropped"}

TypeOK ==
    /\ present \in [Lane -> BOOLEAN]
    /\ pending \in [Lane -> Seq(Job)]
    /\ activeCount \in [Lane -> Nat]
    /\ limit \in [Job -> Nat]
    /\ job \in [Job -> State]
    /\ accepted \in [Lane -> Seq(Job)]

Init ==
    /\ present = [l \in Lane |-> FALSE]
    /\ pending = [l \in Lane |-> <<>>]
    /\ activeCount = [l \in Lane |-> 0]
    /\ limit = [j \in Job |-> 0]
    /\ job = [j \in Job |-> "new"]
    /\ accepted = [l \in Lane |-> <<>>]

------------------------------------------------------------------------------
\* Variant: the loop tests the counter after the increment.
StartsOneMore(active, c, q) ==
    IF active > c THEN 0
    ELSE IF Len(q) < c + 1 - active THEN Len(q) ELSE c + 1 - active

\* How many jobs startNext starts: while activeCount is below its concurrency
\* c and the queue q is not empty.
Starts(active, c, q) ==
    IF active >= c THEN 0
    ELSE IF Len(q) < c - active THEN Len(q) ELSE c - active

\* startNext of concurrency c, on lane l holding q with `active' jobs running,
\* in job states js.  Whatever it starts will call the same closure when done.
StartNext(l, c, active, q, js) ==
    LET n == Starts(active, c, q)
        started == {q[i] : i \in 1..n}
    IN  /\ pending' = [pending EXCEPT ![l] = SubSeq(q, n + 1, Len(q))]
        /\ activeCount' = [activeCount EXCEPT ![l] = active + n]
        /\ job' = [j \in Job |-> IF j \in started THEN "running" ELSE js[j]]
        /\ limit' = [j \in Job |-> IF j \in started THEN c ELSE limit[j]]

\* The lane is full: the job is dropped with a warning.
Drop(j) ==
    /\ Len(pending[LaneOf[j]]) >= MaxPending
    /\ job' = [job EXCEPT ![j] = "dropped"]
    /\ UNCHANGED <<pending, activeCount, limit, accepted>>

\* Variant: the job is pushed and nothing is started while others run.
AcceptLazily(j) ==
    LET l == LaneOf[j] IN
    /\ Len(pending[l]) < MaxPending
    /\ accepted' = [accepted EXCEPT ![l] = Append(@, j)]
    /\ pending' = [pending EXCEPT ![l] = Append(@, j)]
    /\ job' = [job EXCEPT ![j] = "queued"]
    /\ UNCHANGED <<activeCount, limit>>

\* Variant: the job goes to the front of the lane.
AcceptInFront(j) ==
    LET l == LaneOf[j] IN
    /\ Len(pending[l]) < MaxPending
    /\ accepted' = [accepted EXCEPT ![l] = Append(@, j)]
    /\ StartNext(l, Concurrency[j], activeCount[l],
                 <<j>> \o pending[l], [job EXCEPT ![j] = "queued"])

\* The job is pushed and the lane is started.
Accept(j) ==
    LET l == LaneOf[j] IN
    /\ Len(pending[l]) < MaxPending
    /\ accepted' = [accepted EXCEPT ![l] = Append(@, j)]
    /\ StartNext(l, Concurrency[j], activeCount[l],
                 Append(pending[l], j), [job EXCEPT ![j] = "queued"])

Enqueue(j) ==
    /\ job[j] = "new"
    /\ present' = [present EXCEPT ![LaneOf[j]] = TRUE]
    /\ Drop(j) \/ Accept(j)

\* Variant: the lane goes when its counter is zero, whatever is queued.
DoneForgets(j) ==
    LET l == LaneOf[j]
        active == activeCount[l] - 1
    IN  /\ job[j] = "running"
        /\ UNCHANGED accepted
        /\ IF active = 0
           THEN /\ present' = [present EXCEPT ![l] = FALSE]
                /\ activeCount' = [activeCount EXCEPT ![l] = 0]
                /\ job' = [job EXCEPT ![j] = "over"]
                /\ UNCHANGED <<pending, limit>>
           ELSE /\ StartNext(l, limit[j], active, pending[l], [job EXCEPT ![j] = "over"])
                /\ UNCHANGED present

\* Variant: only a job that did not fail gives its place back.
DoneUnlessFailed(j) ==
    LET l == LaneOf[j]
        active == activeCount[l] - 1
    IN  /\ job[j] = "running"
        /\ UNCHANGED accepted
        /\ \/ /\ job' = [job EXCEPT ![j] = "over"]
              /\ UNCHANGED <<present, pending, activeCount, limit>>
           \/ /\ StartNext(l, limit[j], active, pending[l], [job EXCEPT ![j] = "over"])
              /\ present' = [present EXCEPT ![l] = active > 0 \/ pending[l] # <<>>]

\* Variant: catch and finally both give the place back.
DoneTwice(j) ==
    LET l == LaneOf[j]
        active == activeCount[l] - 2
    IN  /\ job[j] = "running"
        /\ UNCHANGED accepted
        /\ StartNext(l, limit[j], active, pending[l], [job EXCEPT ![j] = "over"])
        /\ present' = [present EXCEPT ![l] = active > 0 \/ pending[l] # <<>>]

\* A job ends, well or not: the finally handler gives its place back and
\* deletes the lane or lets the closure that started the job go on.
Done(j) ==
    LET l == LaneOf[j]
        active == activeCount[l] - 1
    IN  /\ job[j] = "running"
        /\ UNCHANGED accepted
        /\ IF active = 0 /\ pending[l] = <<>>
           THEN /\ present' = [present EXCEPT ![l] = FALSE]
                /\ activeCount' = [activeCount EXCEPT ![l] = 0]
                /\ job' = [job EXCEPT ![j] = "over"]
                /\ UNCHANGED <<pending, limit>>
           ELSE /\ StartNext(l, limit[j], active, pending[l], [job EXCEPT ![j] = "over"])
                /\ UNCHANGED present

Rest == (\A j \in Job : job[j] \in {"over", "dropped"}) /\ UNCHANGED vars

Next == (\E j \in Job : Enqueue(j) \/ Done(j)) \/ Rest

Spec == Init /\ [][Next]_vars

\* Every hook execution ends: async hooks are bash hooks, and the bash
\* executor ends what exceeds its timeout.  Nothing makes a hook be queued.
Fairness == \A j \in Job : WF_vars(Done(j))

FairSpec == Spec /\ Fairness

------------------------------------------------------------------------------
(* Properties. *)

InLane(l, states) == {j \in Job : LaneOf[j] = l /\ job[j] \in states}

\* The counter of a lane is the number of its jobs that run, and its queue
\* holds its queued jobs and no other: a job that fails gives its place back.
CountersExact ==
    \A l \in Lane :
        /\ activeCount[l] = Cardinality(InLane(l, {"running"}))
        /\ {pending[l][i] : i \in 1..Len(pending[l])} = InLane(l, {"queued"})
        /\ Len(pending[l]) = Cardinality(InLane(l, {"queued"}))

\* A lane never runs more jobs than the most permissive of the hooks that used
\* it allows, and never queues more than the cap.
WithinLimits ==
    \A l \in Lane :
        /\ activeCount[l] > 0 =>
             \E i \in 1..Len(accepted[l]) : activeCount[l] <= Concurrency[accepted[l][i]]
        /\ Len(pending[l]) <= MaxPending

\* A lane with work has someone who will look at the queue, and is there: the
\* deletion of an idle lane never leaves a job behind, and no lane leaks.
NeverStalls ==
    \A l \in Lane :
        /\ pending[l] # <<>> => activeCount[l] > 0
        /\ present[l] <=> activeCount[l] > 0

\* Jobs of a lane start in the order they were accepted.
StartInOrder ==
    \A l \in Lane : \A i, k \in 1..Len(accepted[l]) :
        i < k /\ job[accepted[l][k]] # "queued" => job[accepted[l][i]] # "queued"

\* Every accepted job runs to its end.
AcceptedRuns == \A j \in Job : (job[j] = "queued") ~> (job[j] = "over")
=============================================================================
