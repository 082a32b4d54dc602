------------------------------- MODULE HookRun -------------------------------
(***************************************************************************)
(* The synchronous execution of one request: executeDispatchRequest and    *)
(* executeHook of core/runtime/dispatch.ts, the actions of runtime/        *)
(* actions.ts with the host calls of pi/host-adapter.ts, and the shell     *)
(* commands of BashProcess.                                                *)
(*                                                                         *)
(* A request is one event: a tool before it runs, a submitted prompt or    *)
(* any other.  On OMP its actions share a time budget.                     *)
(***************************************************************************)
EXTENDS BashProcess, Sequences, FiniteSets

CONSTANTS
    HookLists,   \* sequences of hooks [actions, on, async]
    Budgets,     \* the budgets of a request, or None (Pi)
    ConfirmMax,  \* the longest a confirmation may stay open on OMP
    Sizes,       \* sizes of what a prompt hook prints
    MaxContext   \* MAX_PROMPT_CONTEXT_BYTES

VARIABLES
    event,       \* "before", "prompt" or "other"
    hooks,       \* hooksForEvent
    budget,      \* synchronousBashBudgetMs
    h, a,        \* the hook and the action that is next
    stage,       \* "hook", "action", "bash", "confirm" or "over"
    answerBy,    \* the deadline of the open confirmation
    args,        \* the actions whose revision of the arguments is applied
    context,     \* [from, size] of what is added to the prompt
    verdict,     \* "none", "passed", "blocked", "stopped" or "error"
    ran          \* history: [h, a, out, was] of the actions executed

runVars == <<event, hooks, budget, h, a, stage, answerBy, args, context, verdict, ran>>
vars == <<now, procVars, runVars>>

Kinds == {"command", "tool", "notify", "setStatus", "confirm", "bash"}

Action == [kind : Kinds, timeout : Nat]
Hook   == [actions : Seq(Action) \ {<<>>}, on : {"none", "stop", "modify"}, async : BOOLEAN]
Place  == Nat \X Nat

\* What a confirmation or a command came to.
Histories == {"nobody", "yes", "no", "late", "two", "two held", "clean", "bad"}

ASSUME HookRunAssumption ==
    /\ \A list \in HookLists : list \in Seq(Hook)
    /\ \A n \in Budgets : n \in Nat \/ n = None
    /\ ConfirmMax \in Nat /\ MaxContext \in Nat
    /\ Sizes \subseteq Nat
    /\ None \notin Histories

CanBlock == event = "before"

\* The request arrives at time 0.
Deadline == budget

Left == IF now < Deadline THEN Deadline - now ELSE 0

TypeOK ==
    /\ ProcTypeOK
    /\ event \in {"before", "prompt", "other"}
    /\ hooks \in HookLists /\ budget \in Budgets
    /\ h \in 1..Len(hooks) + 1 /\ a \in Nat
    /\ stage \in {"hook", "action", "bash", "confirm", "over"}
    /\ answerBy \in Nat \cup {None}
    /\ args \in Seq(Place)
    /\ context \in Seq([from : Place, size : Sizes])
    /\ verdict \in {"none", "passed", "blocked", "stopped", "error"}
    /\ stage = "over" <=> verdict # "none"
    /\ stage = "bash" => child # "none"

Init ==
    /\ now = 0 /\ NoProcess
    /\ event \in {"before", "prompt", "other"}
    /\ hooks \in HookLists
    /\ budget \in Budgets
    /\ h = 1 /\ a = 1
    /\ stage = "hook"
    /\ answerBy = None
    /\ args = <<>> /\ context = <<>>
    /\ verdict = "none"
    /\ ran = <<>>

------------------------------------------------------------------------------
(* One hook after the other. *)

Used(c) == LET upTo[i \in 0..Len(c)] == IF i = 0 THEN 0 ELSE upTo[i-1] + c[i].size
           IN  upTo[Len(c)]

\* enforcePromptContextBudget, as the contributions come: one that does not
\* fit is left out and a later one may still fit.
Fits(x) == Used(context) + x.size <= MaxContext

\* Variant: the loop is left without the result of the hook that ended it.
OverUnsaid(v) ==
    /\ stage' = "over"
    /\ UNCHANGED <<h, a, verdict>>

Over(v) ==
    /\ stage' = "over" /\ verdict' = v
    /\ UNCHANGED <<h, a>>

\* Skipped, enqueued, or through: on to the next hook.
NextHook ==
    /\ h' = h + 1 /\ a' = 1
    /\ stage' = "hook"
    /\ UNCHANGED verdict

\* The hooks are through and nobody blocked.
Finish ==
    /\ stage = "hook" /\ h > Len(hooks)
    /\ Over("passed")
    /\ UNCHANGED <<now, procVars, event, hooks, budget, answerBy, args, context, ran>>

\* The conditions of the hook fail, or their evaluation throws; or the hook is
\* asynchronous and goes to its lane.
SkipHook ==
    /\ stage = "hook" /\ h <= Len(hooks)
    /\ NextHook
    /\ UNCHANGED <<now, procVars, event, hooks, budget, answerBy, args, context, ran>>

MatchHook ==
    /\ stage = "hook" /\ h <= Len(hooks) /\ ~hooks[h].async
    /\ stage' = "action"
    /\ UNCHANGED <<now, procVars, event, hooks, budget, h, a, answerBy, args, context, verdict, ran>>

------------------------------------------------------------------------------
(* Actions. *)

Current == hooks[h].actions[a]

Starts(kind) == stage = "action" /\ Current.kind = kind

\* Variant: a block does not end the hook.
AfterRunsOn(blocked) ==
    IF a < Len(hooks[h].actions)
    THEN h' = h /\ a' = a + 1 /\ stage' = "action" /\ UNCHANGED verdict
    ELSE IF blocked /\ CanBlock
         THEN Over(IF hooks[h].on = "stop" THEN "stopped" ELSE "blocked")
         ELSE NextHook

\* What follows an action: a block ends the request, where the event can block.
After(blocked) ==
    IF blocked /\ CanBlock
    THEN Over(IF hooks[h].on = "stop" THEN "stopped" ELSE "blocked")
    ELSE IF a < Len(hooks[h].actions)
         THEN h' = h /\ a' = a + 1 /\ stage' = "action" /\ UNCHANGED verdict
         ELSE NextHook

Record(out, was) == ran' = Append(ran, [h |-> h, a |-> a, out |-> out, was |-> was])

\* A block drops the revisions of the arguments made so far.
Revise(revised, blocked) ==
    args' = IF blocked /\ CanBlock THEN <<>>
            ELSE IF revised THEN Append(args, <<h, a>>) ELSE args

\* command, tool, notify and setStatus: skipped, delivered, degraded or failed,
\* they never block.
Deliver ==
    /\ stage = "action" /\ Current.kind \in {"command", "tool", "notify", "setStatus"}
    /\ \E out \in IF Current.kind = "command" THEN {"failed"}
                  ELSE {"accepted", "degraded", "failed"}
                       \cup (IF Current.kind = "tool" THEN {"skipped"} ELSE {}) :
          Record(out, None)
    /\ After(FALSE)
    /\ UNCHANGED <<now, procVars, event, hooks, budget, answerBy, args, context>>

\* A confirmation: nothing is left of the budget, there is no user interface,
\* or the user is asked.
ConfirmAtOnce ==
    /\ Starts("confirm")
    /\ \E approved \in BOOLEAN :
          /\ (budget # None /\ Left = 0) => ~approved
          /\ Record(IF approved THEN "passed" ELSE "denied", "nobody")
          /\ After(~approved)
          /\ Revise(FALSE, ~approved)
    /\ UNCHANGED <<now, procVars, event, hooks, budget, answerBy, context>>

Ask ==
    /\ Starts("confirm")
    /\ budget # None => Left > 0
    /\ stage' = "confirm"
    /\ answerBy' = IF budget = None THEN None
                   ELSE now + (IF Left < ConfirmMax THEN Left ELSE ConfirmMax)
    /\ UNCHANGED <<now, procVars, event, hooks, budget, h, a, args, context, verdict, ran>>

Answered(approved, was) ==
    /\ stage = "confirm"
    /\ Record(IF approved THEN "passed" ELSE "denied", was)
    /\ After(~approved)
    /\ Revise(FALSE, ~approved)
    /\ answerBy' = None
    /\ UNCHANGED <<now, procVars, event, hooks, budget, context>>

\* The user answers, or the dialogue throws, which counts as no.
UserAnswers == \E yes \in BOOLEAN : Answered(yes, IF yes THEN "yes" ELSE "no")

\* The deadline wins the race; a later answer finds the race decided.
DeadlinePasses ==
    /\ answerBy # None /\ answerBy <= now
    /\ Answered(FALSE, "late")

\* Variant: a configured timeout is not cut to what is left of the budget.
TimeoutUncut == Current.timeout

\* The time a command gets: at least one unit, however late it is.
Timeout ==
    IF budget = None THEN Current.timeout
    ELSE LET left == IF Left = 0 THEN 1 ELSE Left
         IN  IF Current.timeout < left THEN Current.timeout ELSE left

StartBash ==
    /\ Starts("bash")
    /\ Spawn(Timeout) \/ SpawnError
    /\ stage' = "bash"
    /\ UNCHANGED <<event, hooks, budget, h, a, answerBy, args, context, verdict, ran>>

\* spawn itself throws: handleBash rejects and with it the request.
SpawnThrows ==
    /\ Starts("bash")
    /\ Over("error")
    /\ Record("error", None)
    /\ args' = <<>>
    /\ UNCHANGED <<now, procVars, event, hooks, budget, answerBy, context>>

\* Variant: what a command that failed has printed is used as well.
UsableAlways(status) == TRUE

\* Its output may be used: it succeeded and nothing was cut off.
Usable(status) == status = "success" /\ ~result.truncated

\* History: what the command did, whatever the executor made of it.
Was ==
    IF code = 0 /\ inTime /\ ~result.truncated THEN "clean"
    ELSE IF code = 2 /\ inTime THEN (IF timedOut THEN "two held" ELSE "two")
    ELSE "bad"

\* handleBash resumes with the result: a block, a revision or a contribution,
\* if the command printed one.
BashReturns ==
    LET status  == Status(result, CanBlock)
        blocked == status = "blocked"
        prints  == event = "prompt" /\ Usable(status)
        revises == CanBlock /\ ~blocked /\ hooks[h].on = "modify" /\ Usable(status)
    IN  /\ stage = "bash" /\ Settled
        /\ Record(status, Was)
        /\ After(blocked)
        /\ \/ Revise(FALSE, blocked) /\ UNCHANGED context
           \/ revises /\ Revise(TRUE, blocked) /\ UNCHANGED context
           \/ /\ prints
              /\ \E size \in Sizes :
                    LET x == [from |-> <<h, a>>, size |-> size]
                    IN  context' = IF Fits(x) THEN Append(context, x) ELSE context
              /\ UNCHANGED args
        /\ UNCHANGED <<now, procVars, event, hooks, budget, answerBy>>

\* A command that runs.
Process == stage = "bash" /\ ProcStep /\ UNCHANGED runVars

\* The clock moves when nothing is left to do at this time, and only counts while
\* a timer is running.
Tick ==
    /\ \/ stage = "bash" /\ {timerAt, killAt} # {None} /\ ~Settled /\ ~Due
       \/ stage = "confirm" /\ answerBy # None /\ answerBy > now
    /\ now' = now + 1
    /\ UNCHANGED <<procVars, runVars>>

Proceed ==
    \/ Finish \/ SkipHook \/ MatchHook
    \/ Deliver
    \/ ConfirmAtOnce \/ Ask \/ DeadlinePasses
    \/ StartBash \/ SpawnThrows \/ BashReturns

Next == Proceed \/ UserAnswers \/ Process \/ Tick

Spec == Init /\ [][Next]_vars

\* The event loop goes on, timers and close events are delivered, and time
\* passes.  On Pi a confirmation has no deadline: the user answers at last.
Fairness ==
    /\ WF_vars(Proceed)
    /\ WF_vars(stage = "bash" /\ (TimeoutFires \/ KillFires \/ Close) /\ UNCHANGED runVars)
    /\ WF_vars(Tick)
    /\ WF_vars(budget = None /\ UserAnswers)

FairSpec == Spec /\ Fairness
------------------------------------------------------------------------------
(* Properties. *)

\* A request that can block does so exactly for its last action, and exactly
\* when that refused: the user said no or not in time, nobody could be asked, or
\* a command exited with 2 and its output was closed before the timeout.  No
\* action runs after a refusal.
Refused(x) == x.was \in {"no", "late", "two"} \/ (x.was = "nobody" /\ x.out = "denied")

HonestVerdict ==
    /\ \A i \in 1..Len(ran) : CanBlock /\ Refused(ran[i]) =>
          i = Len(ran) /\ verdict \in {"blocked", "stopped"}
    /\ verdict \in {"blocked", "stopped"} =>
          CanBlock /\ ran # <<>> /\ Refused(ran[Len(ran)])

\* What is applied to the arguments or added to the prompt was printed in full by
\* a command that exited with 0 before its timeout; the prompt grows by no more
\* than the limit; and a tool that is refused has no arguments revised.
CleanContributions ==
    LET clean(p) == \E i \in 1..Len(ran) :
                       <<ran[i].h, ran[i].a>> = p /\ ran[i].was = "clean"
    IN  /\ \A i \in 1..Len(args) : clean(args[i])
        /\ \A i \in 1..Len(context) : clean(context[i].from)
        /\ Used(context) <= MaxContext
        /\ verdict \notin {"none", "passed"} => args = <<>>

\* On OMP a request overruns its deadline by no more than a unit and a grace
\* period for each command, unless a descendant took the output out of reach of
\* SIGKILL: commands that start after the deadline still run, and one that
\* ignores SIGTERM is killed.
Commands == Cardinality({i \in 1..Len(ran) : ran[i].was \in {"two", "two held", "clean", "bad"}})
            + (IF stage = "bash" THEN 1 ELSE 0)

OverrunIsBounded ==
    budget # None /\ ~escaped => now <= Deadline + Commands * (Grace + 1)

\* Every request ends, unless a descendant escapes with the output: commands may
\* ignore SIGTERM or leave others behind that hold their output, and on OMP the
\* user need not answer.
RequestEnds == <>(stage = "over" \/ escaped)

\* "On tool.before.*, exit code 2 blocks the tool" (docs/hooks-reference.md):
\* also when a descendant holds the output until the timeout.
ExitTwoBlocks ==
    \A i \in 1..Len(ran) :
       CanBlock /\ ran[i].was \in {"two", "two held"} => verdict \in {"blocked", "stopped"}
=============================================================================
