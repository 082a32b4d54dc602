---------------------------- MODULE HookRunProofs ----------------------------
(***************************************************************************)
(* Proofs about HookRun, for every list of hooks, budget and exit code,    *)
(* and whatever the processes and the user do: the verdict is that of the  *)
(* actions, what is contributed was printed in full and in time and fits,  *)
(* and the budget is overrun by a bounded time.                            *)
(*                                                                         *)
(* The time is bounded by following the timer that is running: a command   *)
(* starts at most one unit after what the ones before it may have taken,   *)
(* its timeout is never later, SIGKILL follows after the grace period, and *)
(* the clock does not pass a timer that is due.                            *)
(*                                                                         *)
(* An action runs under a guard, RecursionGuard: its keys and its depth    *)
(* are exact, whatever begins and ends in the context they are kept in.    *)
(* What is kept of an output, OutputCap, is its beginning, and a text stays *)
(* a text. Conditions see a file under one name, PathConditions.            *)
(***************************************************************************)
EXTENDS HookRun, RecursionGuard, OutputCap, PathConditions, FiniteSetTheorems,
        SequenceTheorems, WellFoundedInduction, TLAPS

(* Induction over the numbers, from the well-foundedness of finite sets. *)

LEMMA LeastNumber ==
  ASSUME NEW T \in SUBSET Nat, T # {}
  PROVE  \E n \in T : \A m \in T : n <= m
<1> DEFINE U == {1..n : n \in T}
<1>1. U \subseteq FiniteSubsetsOf(Nat) /\ U # {}
  <2>1. \A n \in T : 1..n \subseteq Nat /\ IsFiniteSet(1..n)
    BY FS_Interval
  <2> QED  BY <2>1 DEF FiniteSubsetsOf
<1>2. IsWellFoundedOn(StrictSubsetOrdering(Nat), FiniteSubsetsOf(Nat))
  BY FS_StrictSubsetOrderingWellFounded
<1>3. PICK x \in U : \A y \in U : ~ (<<y, x>> \in StrictSubsetOrdering(Nat))
  <2> HIDE DEF U
  <2> QED BY <1>1, <1>2, WFMin
<1>4. PICK n \in T : x = 1..n
  BY <1>3
<1>5. ASSUME NEW m \in T
      PROVE  n <= m
  <2>1. <<1..m, 1..n>> \notin StrictSubsetOrdering(Nat)
    BY <1>3, <1>4
  <2>2. SUFFICES ASSUME m < n
                 PROVE  FALSE
    OBVIOUS
  <2>3. 1..m \subseteq 1..n /\ n \in 1..n /\ n \notin 1..m /\ 1..n \subseteq Nat
    BY <2>2
  <2> QED  BY <2>1, <2>3 DEF StrictSubsetOrdering
<1> QED  BY <1>4, <1>5

LEMMA Induction ==
  ASSUME NEW S, 0 \in S, \A n \in Nat : n \in S => n + 1 \in S
  PROVE  Nat \subseteq S
<1> SUFFICES ASSUME Nat \ S # {}
             PROVE  FALSE
  OBVIOUS
<1>1. PICK n \in Nat \ S : \A m \in Nat \ S : n <= m
  <2>1. Nat \ S \in SUBSET Nat
    OBVIOUS
  <2> QED  BY <2>1, LeastNumber
<1>2. n - 1 \in Nat /\ n - 1 \in S
  BY <1>1
<1> QED  BY <1>1, <1>2

------------------------------------------------------------------------------
(* The verdict. *)

USE BashProcessAssumption, HookRunAssumption DEF BashProcessAssumption, HookRunAssumption

Statuses == {"success", "blocked", "failed", "timed_out"}

Outs == Statuses \cup {"accepted", "degraded", "skipped", "passed", "denied", "error"}
Pasts == Histories \cup {None}

Outcome == [h : Nat, a : Nat, out : Outs, was : Pasts]

Shape ==
    /\ h \in Nat /\ a \in Nat
    /\ ran \in Seq(Outcome)
    /\ stage \in {"hook", "action", "bash", "confirm", "over"}
    /\ verdict \in {"none", "passed", "blocked", "stopped", "error"}
    /\ verdict # "none" => stage = "over"
    /\ stage = "over" => verdict # "none"

\* What a command is said to have done is what it did: an exit with 2 that was
\* closed in time is reported as such, and nothing else is.
ResultIsTrue ==
    /\ timedOut \in BOOLEAN /\ inTime \in BOOLEAN
    /\ code = 2 /\ ~timedOut => inTime
    /\ Settled => /\ child # "running"
                  /\ result.timedOut = timedOut
                  /\ ~timedOut => (result.exit = 2 <=> code = 2)

VerdictInv == Shape /\ ResultIsTrue /\ HonestVerdict

------------------------------------------------------------------------------

\* One more outcome: refused for what it was, and over for no other reason.
LEMMA Executed ==
  ASSUME Shape, HonestVerdict, stage # "over", NEW x \in Outcome, NEW blocked \in BOOLEAN,
         ran' = Append(ran, x), event' = event, After(blocked),
         CanBlock => (blocked <=> Refused(x))
  PROVE  Shape' /\ HonestVerdict'
<1>1. verdict = "none"
  BY DEF Shape
<1>2. /\ Len(ran') = Len(ran) + 1 /\ ran' \in Seq(Outcome) /\ Len(ran) \in Nat
      /\ ran'[Len(ran')] = x
      /\ \A i \in 1..Len(ran) : ran'[i] = ran[i]
  BY DEF Shape
<1>3. CanBlock => \A i \in 1..Len(ran) : ~Refused(ran[i])
  BY <1>1 DEF HonestVerdict
<1>4. CASE blocked /\ CanBlock
  <2>1. stage' = "over" /\ verdict' \in {"blocked", "stopped"} /\ h' = h /\ a' = a
    BY <1>4 DEF After, Over
  <2>2. Shape'
    BY <1>2, <2>1 DEF Shape
  <2>3. Refused(x) /\ CanBlock'
    BY <1>4 DEF CanBlock
  <2>4. ASSUME NEW i \in 1..Len(ran'), Refused(ran'[i])
        PROVE  i = Len(ran')
    BY <1>2, <1>3, <1>4, <2>4 DEF Refused
  <2>5. ran' # <<>>
    BY <1>2
  <2> QED  BY <1>2, <2>1, <2>2, <2>3, <2>4, <2>5 DEF HonestVerdict, Refused
<1>5. CASE ~(blocked /\ CanBlock)
  <2>1. stage' \in {"action", "hook"} /\ verdict' = "none" /\ h' \in Nat /\ a' \in Nat
    BY <1>1, <1>5 DEF After, NextHook, Shape
  <2>2. Shape'
    BY <1>2, <2>1 DEF Shape
  <2>3. ASSUME CanBlock, NEW i \in 1..Len(ran')
        PROVE  ~Refused(ran'[i])
    BY <1>2, <1>3, <1>5, <2>3 DEF Refused
  <2> QED  BY <2>1, <2>2, <2>3 DEF HonestVerdict, CanBlock, Refused
<1> QED  BY <1>4, <1>5

LEMMA Recorded ==
  ASSUME Shape, NEW out \in Outs, NEW was \in Pasts, Record(out, was)
  PROVE  \E x \in Outcome : x.out = out /\ x.was = was /\ ran' = Append(ran, x)
<1> DEFINE x == [h |-> h, a |-> a, out |-> out, was |-> was]
<1>1. x \in Outcome
  BY DEF Outcome, Shape
<1> QED  BY <1>1 DEF Record

\* Steps that execute no action.
LEMMA Quiet ==
  ASSUME Shape, HonestVerdict, UNCHANGED <<event, ran>>,
         h' \in Nat, a' \in Nat, stage # "over",
         \/ stage' \in {"hook", "action", "bash", "confirm"} /\ verdict' = verdict
         \/ stage' = "over" /\ verdict' = "passed"
  PROVE  Shape' /\ HonestVerdict'
<1>1. verdict = "none" /\ verdict' \notin {"blocked", "stopped"}
  BY DEF Shape
<1>2. Shape'
  BY <1>1 DEF Shape
<1>3. HonestVerdict'
  BY <1>1 DEF HonestVerdict, CanBlock, Refused
<1> QED  BY <1>2, <1>3

LEMMA Delivering ==
  ASSUME VerdictInv, Deliver
  PROVE  Shape' /\ HonestVerdict'
<1>1. PICK out \in Outs : Record(out, None)
  <2>1. PICK out \in {"accepted", "degraded", "failed", "skipped"} : Record(out, None)
    BY DEF Deliver
  <2>2. out \in Outs
    BY DEF Outs, Statuses
  <2> QED  BY <2>1, <2>2
<1>2. None \in Pasts
  BY DEF Pasts, Histories
<1>3. PICK x \in Outcome : x.was = None /\ ran' = Append(ran, x)
  BY <1>1, <1>2, Recorded DEF VerdictInv
<1>4. ~Refused(x)
  BY <1>3 DEF Refused, Histories
<1> QED  BY <1>3, <1>4, Executed DEF Deliver, VerdictInv

LEMMA NotAsking ==
  ASSUME VerdictInv, ConfirmAtOnce
  PROVE  Shape' /\ HonestVerdict'
<1>1. PICK approved \in BOOLEAN :
         Record(IF approved THEN "passed" ELSE "denied", "nobody") /\ After(~approved)
  BY DEF ConfirmAtOnce
<1> DEFINE out == IF approved THEN "passed" ELSE "denied"
<1>2. out \in Outs /\ (out = "denied" <=> ~approved)
  BY DEF Outs
<1>3. Record(out, "nobody")
  BY <1>1
<1> HIDE DEF out
<1>4. PICK x \in Outcome : x.out = out /\ x.was = "nobody" /\ ran' = Append(ran, x)
  BY <1>2, <1>3, Recorded DEF VerdictInv, Pasts, Histories
<1>5. ~approved <=> Refused(x)
  BY <1>2, <1>4 DEF Refused
<1>6. stage # "over" /\ event' = event /\ (~approved) \in BOOLEAN
  BY DEF ConfirmAtOnce, Starts
<1> QED  BY <1>1, <1>4, <1>5, <1>6, Executed DEF VerdictInv

LEMMA Answering ==
  ASSUME VerdictInv, NEW approved \in BOOLEAN, NEW was \in {"yes", "no", "late"},
         Answered(approved, was), approved <=> was = "yes"
  PROVE  Shape' /\ HonestVerdict'
<1> DEFINE out == IF approved THEN "passed" ELSE "denied"
<1>1. out \in Outs /\ was \in Pasts
  BY DEF Outs, Pasts, Histories
<1>2. Record(out, was)
  BY DEF Answered
<1> HIDE DEF out
<1>3. PICK x \in Outcome : x.was = was /\ ran' = Append(ran, x)
  BY <1>1, <1>2, Recorded DEF VerdictInv
<1>4. ~approved <=> Refused(x)
  BY <1>3 DEF Refused
<1>5. stage # "over" /\ event' = event /\ After(~approved)
  BY DEF Answered
<1>6. (~approved) \in BOOLEAN
  OBVIOUS
<1> QED  BY <1>3, <1>4, <1>5, <1>6, Executed DEF VerdictInv

LEMMA Throwing ==
  ASSUME VerdictInv, SpawnThrows
  PROVE  Shape' /\ HonestVerdict'
<1>1. PICK x \in Outcome : x.was = None /\ ran' = Append(ran, x)
  <2>1. Record("error", None) /\ "error" \in Outs /\ None \in Pasts
    BY DEF SpawnThrows, Outs, Pasts, Histories
  <2> QED  BY <2>1, Recorded DEF VerdictInv
<1>2. /\ stage' = "over" /\ verdict' = "error" /\ verdict = "none"
      /\ h' = h /\ a' = a /\ event' = event
  BY DEF SpawnThrows, Over, Starts, VerdictInv, Shape
<1>3. /\ Len(ran') = Len(ran) + 1 /\ ran' \in Seq(Outcome) /\ Len(ran) \in Nat
      /\ ran'[Len(ran')] = x
      /\ \A i \in 1..Len(ran) : ran'[i] = ran[i]
  BY <1>1 DEF VerdictInv, Shape
<1>4. Shape'
  BY <1>2, <1>3 DEF VerdictInv, Shape
<1>5. ASSUME CanBlock, NEW i \in 1..Len(ran')
      PROVE  ~Refused(ran'[i])
  <2>1. CASE i = Len(ran')
    BY <1>1, <1>3, <2>1 DEF Refused, Histories
  <2>2. CASE i # Len(ran')
    BY <1>2, <1>3, <1>5, <2>2 DEF VerdictInv, HonestVerdict
  <2> QED  BY <2>1, <2>2
<1> QED  BY <1>2, <1>4, <1>5 DEF HonestVerdict, CanBlock, Refused

\* The executor's result and what the command did agree on a refusal.
LEMMA StatusIsTrue ==
  ASSUME ResultIsTrue, Settled
  PROVE  /\ Status(result, CanBlock) \in Statuses
         /\ CanBlock => (Status(result, CanBlock) = "blocked" <=> Was = "two")
         /\ Was \in {"two", "two held", "clean", "bad"}
<1>1. result.timedOut = timedOut /\ timedOut \in BOOLEAN
  BY DEF ResultIsTrue
<1>2. CanBlock \in BOOLEAN
  BY DEF CanBlock
<1>3. CASE timedOut
  BY <1>1, <1>2, <1>3 DEF Status, Statuses, Was
<1>4. CASE ~timedOut
  BY <1>1, <1>2, <1>4 DEF Status, Statuses, Was, ResultIsTrue
<1> QED  BY <1>1, <1>3, <1>4

LEMMA Returning ==
  ASSUME VerdictInv, BashReturns
  PROVE  Shape' /\ HonestVerdict'
<1> DEFINE status == Status(result, CanBlock)
<1>1. /\ stage = "bash" /\ Settled /\ Record(status, Was) /\ After(status = "blocked")
      /\ event' = event
  BY DEF BashReturns
<1>2. /\ status \in Statuses /\ Was \in {"two", "two held", "clean", "bad"}
      /\ CanBlock => (status = "blocked" <=> Was = "two")
  BY <1>1, StatusIsTrue DEF VerdictInv
<1> DEFINE was == Was
<1> HIDE DEF status, was
<1>3. was = Was /\ Record(status, was)
  BY <1>1 DEF was
<1>4. status \in Outs /\ was \in Pasts
  BY <1>2, <1>3 DEF Outs, Pasts, Histories
<1>5. PICK x \in Outcome : x.was = was /\ ran' = Append(ran, x)
  BY <1>3, <1>4, Recorded DEF VerdictInv
<1>6. CanBlock => (status = "blocked" <=> Refused(x))
  BY <1>2, <1>5, <1>3 DEF Refused
<1>7. (status = "blocked") \in BOOLEAN
  OBVIOUS
<1> QED  BY <1>1, <1>5, <1>6, <1>7, Executed DEF VerdictInv

LEMMA ProcessIsTrue ==
  ASSUME ResultIsTrue, ProcStep
  PROVE  ResultIsTrue'
<1>1. ASSUME NEW c \in Code, Exit(c)
      PROVE  ResultIsTrue'
  <2>1. ~Settled /\ result' = result /\ timedOut' = timedOut /\ inTime' = ~timedOut
    BY <1>1 DEF Exit, ResultIsTrue
  <2> QED  BY <2>1 DEF ResultIsTrue, Settled
<1>2. CASE DescendantEnds
  BY <1>2 DEF DescendantEnds, ResultIsTrue, Settled
<1>3. CASE TimeoutFires
  BY <1>3 DEF TimeoutFires, ResultIsTrue, Settled
<1>4. CASE KillFires
  BY <1>4 DEF KillFires, ResultIsTrue, Settled
<1>5. CASE Close
  <2>1. PICK cut \in BOOLEAN :
           result' = [exit |-> ExitCode(code), timedOut |-> timedOut, truncated |-> cut]
    BY <1>5 DEF Close, Finalize
  <2>2. /\ result'.timedOut = timedOut
        /\ ~timedOut => (result'.exit = 2 <=> code = 2)
    BY <2>1 DEF ExitCode
  <2> QED  BY <1>5, <2>2 DEF Close, CanClose, ResultIsTrue
<1> QED  BY <1>1, <1>2, <1>3, <1>4, <1>5 DEF ProcStep

LEMMA VerdictKept ==
  ASSUME VerdictInv, [Next]_vars
  PROVE  VerdictInv'
<1>1. CASE Finish \/ SkipHook \/ MatchHook \/ Ask
  <2>1. Shape' /\ HonestVerdict'
    BY <1>1, Quiet DEF Finish, SkipHook, MatchHook, Ask, Starts, Over, NextHook, VerdictInv, Shape
  <2>2. UNCHANGED procVars
    BY <1>1 DEF Finish, SkipHook, MatchHook, Ask
  <2> QED  BY <2>1, <2>2 DEF VerdictInv, ResultIsTrue, Settled, procVars
<1>2. CASE Deliver \/ ConfirmAtOnce \/ SpawnThrows \/ BashReturns
  <2>1. UNCHANGED procVars
    BY <1>2 DEF Deliver, ConfirmAtOnce, SpawnThrows, BashReturns
  <2> QED  BY <1>2, <2>1, Delivering, NotAsking, Throwing, Returning
           DEF VerdictInv, ResultIsTrue, Settled, procVars
<1>3. CASE UserAnswers \/ DeadlinePasses
  <2>1. PICK approved \in BOOLEAN, was \in {"yes", "no", "late"} :
           Answered(approved, was) /\ (approved <=> was = "yes")
    BY <1>3 DEF UserAnswers, DeadlinePasses
  <2>2. UNCHANGED procVars
    BY <2>1 DEF Answered
  <2> QED  BY <2>1, <2>2, Answering DEF VerdictInv, ResultIsTrue, Settled, procVars
<1>4. CASE StartBash
  <2>1. Shape' /\ HonestVerdict'
    BY <1>4, Quiet DEF StartBash, Starts, VerdictInv, Shape
  <2>2. CASE Spawn(Timeout)
    BY <2>1, <2>2 DEF Spawn, VerdictInv, ResultIsTrue, Settled
  <2>3. CASE SpawnError
    <3>1. /\ result'.timedOut = FALSE /\ result'.exit # 2 /\ code' # 2
          /\ timedOut' = FALSE /\ inTime' = FALSE /\ child' # "running"
      BY <2>3 DEF SpawnError
    <3> QED  BY <2>1, <3>1 DEF VerdictInv, ResultIsTrue
  <2> QED  BY <1>4, <2>2, <2>3 DEF StartBash
<1>5. CASE Process
  <2>1. Shape' /\ HonestVerdict'
    BY <1>5 DEF Process, runVars, VerdictInv, Shape, HonestVerdict, CanBlock, Refused
  <2> QED  BY <1>5, <2>1, ProcessIsTrue DEF Process, VerdictInv
<1>6. CASE Tick \/ UNCHANGED vars
  BY <1>6 DEF Tick, vars, procVars, runVars, VerdictInv, Shape, HonestVerdict, CanBlock, Refused,
              ResultIsTrue, Settled
<1> QED  BY <1>1, <1>2, <1>3, <1>4, <1>5, <1>6 DEF Next, Proceed

------------------------------------------------------------------------------
(* Sums: the recursive function of Used, by induction over its domain. *)

Contribution  == [from : Place, size : Sizes]
Contributions == Seq(Contribution)

SumOf(g, c) == g = [i \in 0..Len(c) |-> IF i = 0 THEN 0 ELSE g[i-1] + c[i].size]

\* The sums of the first n.
SumsTo(g, c, n) ==
    g \in [0..n -> Nat] /\ g[0] = 0 /\ \A i \in 1..n : g[i] = g[i-1] + c[i].size

LEMMA OneMoreSum ==
  ASSUME NEW c \in Contributions, NEW n \in Nat, n + 1 <= Len(c), NEW g, SumsTo(g, c, n)
  PROVE  \E x : SumsTo(x, c, n + 1)
<1> DEFINE x == [i \in 0..(n + 1) |-> IF i = n + 1 THEN g[n] + c[n + 1].size ELSE g[i]]
<1>1. c[n + 1].size \in Nat
  <2>1. n + 1 \in 1..Len(c)
    BY DEF Contributions
  <2>2. c[n + 1] \in Contribution
    BY <2>1 DEF Contributions
  <2> QED  BY <2>2 DEF Contribution
<1>2. x \in [0..(n + 1) -> Nat]
  BY <1>1 DEF SumsTo
<1>3. x[0] = 0 /\ \A i \in 1..(n + 1) : x[i] = x[i-1] + c[i].size
  BY DEF SumsTo
<1> HIDE DEF x
<1> QED  BY <1>2, <1>3 DEF SumsTo

LEMMA SumExists ==
  ASSUME NEW c \in Contributions
  PROVE  \E g : SumOf(g, c)
<1> DEFINE S == {n \in Nat : n <= Len(c) => \E g : SumsTo(g, c, n)}
<1>1. Len(c) \in Nat
  BY DEF Contributions
<1>2. 0 \in S
  <2> DEFINE g == [i \in 0..0 |-> 0]
  <2>1. SumsTo(g, c, 0)
    BY DEF SumsTo
  <2> QED  BY <2>1
<1>3. ASSUME NEW n \in Nat, n \in S
      PROVE  n + 1 \in S
  BY <1>1, <1>3, OneMoreSum
<1> HIDE DEF S
<1>4. Len(c) \in S
  BY <1>1, <1>2, <1>3, Induction
<1>5. PICK g : SumsTo(g, c, Len(c))
  BY <1>4 DEF S
<1>6. g = [i \in 0..Len(c) |-> IF i = 0 THEN 0 ELSE g[i-1] + c[i].size]
  BY <1>1, <1>5 DEF SumsTo
<1> QED  BY <1>6 DEF SumOf

\* Sums agree on what the sequences have in common.
LEMMA SumsAgree ==
  ASSUME NEW c \in Contributions, NEW d \in Contributions, NEW n \in Nat,
         n <= Len(c), n <= Len(d), \A i \in 1..n : c[i] = d[i],
         NEW g, NEW k, SumOf(g, c), SumOf(k, d)
  PROVE  g[n] = k[n]
<1> DEFINE S == {i \in Nat : i <= n => g[i] = k[i]}
<1>1. /\ \A i \in 0..Len(c) : g[i] = IF i = 0 THEN 0 ELSE g[i-1] + c[i].size
      /\ \A i \in 0..Len(d) : k[i] = IF i = 0 THEN 0 ELSE k[i-1] + d[i].size
  BY Zenon DEF SumOf
<1>2. Len(c) \in Nat /\ Len(d) \in Nat
  BY DEF Contributions
<1>3. 0 \in S
  BY <1>1, <1>2
<1>4. ASSUME NEW i \in Nat, i \in S
      PROVE  i + 1 \in S
  BY <1>1, <1>2, <1>4
<1> HIDE DEF S
<1>5. n \in S
  BY <1>3, <1>4, Induction
<1> QED  BY <1>5 DEF S

LEMMA UsedIsSum ==
  ASSUME NEW c \in Contributions
  PROVE  \E g : SumOf(g, c) /\ Used(c) = g[Len(c)]
<1> DEFINE x == CHOOSE g : g = [i \in 0..Len(c) |-> IF i = 0 THEN 0 ELSE g[i-1] + c[i].size]
<1>1. SumOf(x, c)
  BY SumExists, Zenon DEF SumOf
<1>2. Used(c) = x[Len(c)]
  BY Zenon DEF Used
<1> HIDE DEF x
<1> QED  BY <1>1, <1>2

LEMMA UsedOfNone == Used(<<>>) = 0
<1>1. <<>> \in Contributions /\ Len(<<>>) = 0
  BY DEF Contributions
<1>2. PICK g : SumOf(g, <<>>) /\ Used(<<>>) = g[0]
  BY <1>1, UsedIsSum
<1>3. g = [i \in 0..0 |-> IF i = 0 THEN 0 ELSE g[i-1] + <<>>[i].size]
  BY <1>1, <1>2 DEF SumOf
<1> QED  BY <1>2, <1>3

LEMMA UsedOfOneMore ==
  ASSUME NEW c \in Contributions, NEW x \in Contribution
  PROVE  Used(Append(c, x)) = Used(c) + x.size
<1> DEFINE d == Append(c, x)
<1>1. /\ d \in Contributions /\ Len(c) \in Nat /\ Len(d) = Len(c) + 1
      /\ \A i \in 1..Len(c) : c[i] = d[i]
      /\ d[Len(c) + 1] = x
  BY DEF Contributions
<1> HIDE DEF d
<1>2. PICK g : SumOf(g, c) /\ Used(c) = g[Len(c)]
  BY UsedIsSum
<1>3. PICK k : SumOf(k, d) /\ Used(d) = k[Len(d)]
  BY <1>1, UsedIsSum
<1>4. g[Len(c)] = k[Len(c)]
  BY <1>1, <1>2, <1>3, SumsAgree
<1>5. \A i \in 0..Len(d) : k[i] = IF i = 0 THEN 0 ELSE k[i-1] + d[i].size
  BY <1>3, Zenon DEF SumOf
<1>6. k[Len(d)] = k[Len(c)] + x.size
  BY <1>1, <1>5
<1> QED  BY <1>2, <1>3, <1>4, <1>6 DEF d

------------------------------------------------------------------------------
(* What is known of a request while it runs. *)

\* An action that runs has its place in the hooks.
PlaceInv ==
    /\ event \in {"before", "prompt", "other"} /\ hooks \in HookLists /\ budget \in Budgets
    /\ h \in 1..(Len(hooks) + 1)
    /\ stage = "hook" => a = 1
    /\ stage \in {"action", "confirm", "bash"} =>
          h \in 1..Len(hooks) /\ a \in 1..Len(hooks[h].actions)
    /\ answerBy \in Nat \cup {None}

\* What is settled is the exit of a child, and no timer is left.
ProcInv ==
    /\ ProcTypeOK
    /\ stage = "bash" => child # "none"
    /\ child = "exited" /\ ~Settled => code # None
    /\ code = 0 /\ ~timedOut => inTime
    /\ Settled => /\ timerAt = None /\ killAt = None
                  /\ ~timedOut => (result.exit = 0 <=> code = 0)

Clean(outcomes, p) ==
    \E i \in 1..Len(outcomes) : <<outcomes[i].h, outcomes[i].a>> = p /\ outcomes[i].was = "clean"

ContribInv ==
    /\ args \in Seq(Place) /\ \A i \in 1..Len(args) : Clean(ran, args[i])
    /\ context \in Contributions /\ \A i \in 1..Len(context) : Clean(ran, context[i].from)
    /\ Used(context) <= MaxContext
    /\ verdict \notin {"none", "passed"} => args = <<>>

\* The commands that have ended.
Ended(outcomes) ==
    {i \in 1..Len(outcomes) : outcomes[i].was \in {"two", "two held", "clean", "bad"}}

EndedSoFar   == Cardinality(Ended(ran))
Allowance(n) == n * (Grace + 1)

\* When the next action starts at the latest.
Late == Deadline + Allowance(EndedSoFar)

TimeInv ==
    budget # None =>
       /\ stage \in {"hook", "action", "over"} => now <= Late
       /\ stage = "confirm" => answerBy \in Nat /\ now <= answerBy /\ answerBy <= Deadline
       /\ stage = "bash" =>
             /\ now <= Late + 1 + Grace
             /\ timerAt # None => killAt = None /\ now <= timerAt /\ timerAt <= Late + 1
             /\ killAt # None => timerAt = None /\ now <= killAt /\ killAt <= Late + 1 + Grace

------------------------------------------------------------------------------

HooksAt == hooks \in Seq(Hook) /\ \A i \in 1..Len(hooks) :
              hooks[i].actions \in Seq(Action) /\ Len(hooks[i].actions) \in Nat \ {0}

LEMMA HooksHaveActions ==
  ASSUME PlaceInv
  PROVE  HooksAt
<1>1. hooks \in Seq(Hook)
  BY DEF PlaceInv
<1>2. ASSUME NEW i \in 1..Len(hooks)
      PROVE  hooks[i].actions \in Seq(Action) /\ Len(hooks[i].actions) \in Nat \ {0}
  <2>1. hooks[i] \in Hook
    BY <1>1
  <2>2. hooks[i].actions \in Seq(Action) /\ hooks[i].actions # <<>>
    BY <2>1 DEF Hook
  <2> QED  BY <2>2
<1> QED  BY <1>1, <1>2 DEF HooksAt

\* After an action the next one is in its place.
LEMMA PlaceAfter ==
  ASSUME PlaceInv, stage \in {"action", "confirm", "bash"}, NEW blocked, After(blocked),
         UNCHANGED <<event, hooks, budget>>, answerBy' \in Nat \cup {None}
  PROVE  PlaceInv' /\ stage' \in {"action", "hook", "over"}
<1>1. HooksAt
  BY HooksHaveActions
<1>2. h \in 1..Len(hooks) /\ a \in 1..Len(hooks[h].actions)
  BY DEF PlaceInv
<1>3. Len(hooks) \in Nat /\ Len(hooks[h].actions) \in Nat
  BY <1>1, <1>2 DEF HooksAt
<1>4. CASE stage' = "over" /\ h' = h /\ a' = a
  BY <1>4 DEF PlaceInv
<1>5. CASE a < Len(hooks[h].actions) /\ h' = h /\ a' = a + 1 /\ stage' = "action"
  BY <1>2, <1>3, <1>5 DEF PlaceInv
<1>6. CASE h' = h + 1 /\ a' = 1 /\ stage' = "hook"
  BY <1>2, <1>3, <1>6 DEF PlaceInv
<1> QED  BY <1>4, <1>5, <1>6 DEF After, Over, NextHook

LEMMA PlacesKept ==
  ASSUME PlaceInv, now \in Nat, [Next]_vars
  PROVE  PlaceInv'
<1>1. HooksAt
  BY HooksHaveActions
<1>2. CASE Finish \/ SpawnThrows
  BY <1>2 DEF Finish, SpawnThrows, Over, Starts, PlaceInv
<1>3. CASE SkipHook
  <2>1. h' = h + 1 /\ a' = 1 /\ stage' = "hook" /\ h <= Len(hooks)
        /\ UNCHANGED <<event, hooks, budget, answerBy>>
    BY <1>3 DEF SkipHook, NextHook
  <2> QED  BY <1>1, <2>1 DEF PlaceInv, HooksAt
<1>4. CASE MatchHook
  <2>1. stage' = "action" /\ a = 1 /\ h \in 1..Len(hooks)
        /\ UNCHANGED <<event, hooks, budget, h, a, answerBy>>
    BY <1>1, <1>4 DEF MatchHook, PlaceInv, HooksAt
  <2> QED  BY <1>1, <2>1 DEF PlaceInv, HooksAt
<1>5. CASE Deliver
  BY <1>5, PlaceAfter DEF Deliver, PlaceInv
<1>6. CASE ConfirmAtOnce
  <2>1. PICK approved \in BOOLEAN : After(~approved)
    BY <1>6 DEF ConfirmAtOnce
  <2> QED  BY <1>6, <2>1, PlaceAfter DEF ConfirmAtOnce, Starts, PlaceInv
<1>7. CASE UserAnswers \/ DeadlinePasses
  <2>1. PICK approved \in BOOLEAN, was \in {"yes", "no", "late"} : Answered(approved, was)
    BY <1>7 DEF UserAnswers, DeadlinePasses
  <2> QED  BY <2>1, PlaceAfter DEF Answered
<1>8. CASE Ask
  <2>1. answerBy' \in Nat \cup {None}
    <3>1. CASE budget = None
      BY <1>8, <3>1 DEF Ask
    <3>2. CASE budget # None
      BY <1>8, <3>2 DEF Ask, Left, Deadline, PlaceInv
    <3> QED  BY <3>1, <3>2
  <2> QED  BY <1>8, <2>1 DEF Ask, Starts, PlaceInv
<1>9. CASE StartBash
  BY <1>9 DEF StartBash, Starts, PlaceInv
<1>10. CASE BashReturns
  <2>1. After(Status(result, CanBlock) = "blocked") /\ stage = "bash"
        /\ UNCHANGED <<event, hooks, budget, answerBy>>
    BY <1>10 DEF BashReturns
  <2> QED  BY <2>1, PlaceAfter DEF PlaceInv
<1>11. CASE Process \/ Tick \/ UNCHANGED vars
  BY <1>11 DEF Process, Tick, vars, runVars, PlaceInv
<1> QED  BY <1>2, <1>3, <1>4, <1>5, <1>6, <1>7, <1>8, <1>9, <1>10, <1>11 DEF Next, Proceed

------------------------------------------------------------------------------
(* The process. *)

Codes == Code \cup {Signal}

LEMMA ActionAt ==
  ASSUME PlaceInv, stage = "action"
  PROVE  Current \in Action
<1>1. HooksAt /\ h \in 1..Len(hooks) /\ a \in 1..Len(hooks[h].actions)
  BY HooksHaveActions DEF PlaceInv
<1>2. hooks[h].actions \in Seq(Action)
  BY <1>1 DEF HooksAt
<1> QED  BY <1>1, <1>2 DEF Current

\* What the command gets is a time, and at least it is not late by more than a unit.
LEMMA TimeoutBound ==
  ASSUME PlaceInv, stage = "action", now \in Nat
  PROVE  /\ Timeout \in Nat
         /\ budget # None => /\ Deadline \in Nat
                             /\ now + Timeout <= Deadline \/ now + Timeout <= now + 1
<1>1. Current.timeout \in Nat
  BY ActionAt DEF Action
<1>2. CASE budget = None
  BY <1>1, <1>2 DEF Timeout
<1>3. CASE budget # None
  <2>1. Deadline \in Nat
    BY <1>3 DEF Deadline, PlaceInv
  <2> QED  BY <1>1, <1>3, <2>1 DEF Timeout, Left
<1> QED  BY <1>2, <1>3

LEMMA Starting ==
  ASSUME ProcInv, PlaceInv, StartBash
  PROVE  ProcInv'
<1>1. stage = "action" /\ now \in Nat /\ stage' = "bash"
  BY DEF StartBash, Starts, ProcInv, ProcTypeOK
<1>2. CASE Spawn(Timeout)
  <2>1. timerAt' \in Nat
    BY <1>1, <1>2, TimeoutBound DEF Spawn
  <2> QED  BY <1>1, <1>2, <2>1 DEF Spawn, ProcInv, ProcTypeOK, Settled
<1>3. CASE SpawnError
  <2> DEFINE r == [exit |-> 127, timedOut |-> FALSE, truncated |-> FALSE]
  <2>1. r \in Result /\ r # None /\ r.exit # 0
    <3>1. r \in Result
      BY DEF Result
    <3>2. None \notin Result
      OBVIOUS
    <3>3. r.exit # 0
      OBVIOUS
    <3> HIDE DEF r
    <3> QED  BY <3>1, <3>2, <3>3
  <2> QED  BY <1>1, <1>3, <2>1 DEF SpawnError, ProcInv, ProcTypeOK, Settled
<1> QED  BY <1>2, <1>3 DEF StartBash

LEMMA Running ==
  ASSUME ProcInv, ResultIsTrue, stage = "bash", stage' = stage, ProcStep
  PROVE  ProcInv'
<1>0. ProcTypeOK
  BY DEF ProcInv
<1>1. ASSUME NEW c \in Code, Exit(c)
      PROVE  ProcInv'
  <2>1. /\ child = "running" /\ child' = "exited" /\ code' = c /\ held' \in {"no", "group", "escaped"}
        /\ inTime' = ~timedOut /\ escaped' = (escaped \/ held' = "escaped")
        /\ UNCHANGED <<now, timerAt, killAt, timedOut, result>>
    BY <1>1 DEF Exit
  <2>2. ~Settled
    BY <2>1 DEF ResultIsTrue
  <2>3. inTime' \in BOOLEAN /\ escaped' \in BOOLEAN
    BY <1>0, <2>1 DEF ProcTypeOK
  <2>4. ProcTypeOK'
    BY <1>0, <2>1, <2>3 DEF ProcTypeOK
  <2>5. code' # None
    BY <2>1
  <2> QED  BY <2>1, <2>2, <2>4, <2>5 DEF ProcInv, Settled
<1>2. CASE DescendantEnds
  BY <1>2 DEF DescendantEnds, ProcInv, ProcTypeOK, Settled
<1>3. CASE TimeoutFires
  BY <1>3 DEF TimeoutFires, ProcInv, ProcTypeOK, Settled
<1>4. CASE KillFires
  <2>1. /\ killAt' = None /\ child' = "exited" /\ ~Settled
        /\ code' = IF child = "running" THEN Signal ELSE code
        /\ held' \in {"no", "group", "escaped"} /\ escaped' = (escaped \/ held' = "escaped")
        /\ UNCHANGED <<now, timerAt, timedOut, result, inTime>>
    BY <1>4 DEF KillFires
  <2>2. escaped' \in BOOLEAN
    BY <1>0, <2>1 DEF ProcTypeOK
  <2>3. (code' \in Codes /\ code' # 0) \/ code' = code
    BY <2>1 DEF Codes
  <2>4. code' # None
    BY <1>0, <2>1 DEF ProcInv, ProcTypeOK
  <2>5. ProcTypeOK'
    BY <1>0, <2>1, <2>2, <2>3 DEF ProcTypeOK, Codes
  <2> QED  BY <2>1, <2>3, <2>4, <2>5 DEF ProcInv, Settled
<1>5. CASE Close
  <2>1. PICK cut \in BOOLEAN :
           result' = [exit |-> ExitCode(code), timedOut |-> timedOut, truncated |-> cut]
    BY <1>5 DEF Close, Finalize
  <2>2. code \in Code \cup {Signal}
    BY <1>0, <1>5 DEF Close, CanClose, ProcInv, ProcTypeOK
  <2>3. ExitCode(code) \in Code \cup {124, 127} /\ (~timedOut => (ExitCode(code) = 0 <=> code = 0))
    BY <2>2 DEF ExitCode
  <2>4. result' \in Result
    BY <1>0, <2>1, <2>3 DEF Result, ProcTypeOK
  <2>5. UNCHANGED <<now, child, code, held, timedOut, inTime, escaped>>
        /\ timerAt' = None /\ killAt' = None
    BY <1>5 DEF Close, Finalize
  <2>6. ProcTypeOK'
    BY <1>0, <2>4, <2>5 DEF ProcTypeOK
  <2>7. ~timedOut' => (result'.exit = 0 <=> code' = 0)
    BY <2>1, <2>3, <2>5
  <2> QED  BY <1>5, <2>4, <2>5, <2>6, <2>7 DEF ProcInv, Settled, CanClose, Close
<1> QED  BY <1>1, <1>2, <1>3, <1>4, <1>5 DEF ProcStep

LEMMA ProcKept ==
  ASSUME ProcInv, PlaceInv, ResultIsTrue, [Next]_vars
  PROVE  ProcInv'
<1>1. CASE UNCHANGED <<now, procVars>> /\ (stage' = "bash" => stage = "bash")
  BY <1>1 DEF ProcInv, ProcTypeOK, Settled, procVars
<1>2. CASE StartBash
  BY <1>2, Starting
<1>3. CASE Process
  BY <1>3, Running DEF Process, runVars
<1>4. CASE Tick
  BY <1>4 DEF Tick, procVars, runVars, ProcInv, ProcTypeOK, Settled
<1>5. ASSUME NEW blocked, After(blocked)
      PROVE  stage' # "bash"
  BY <1>5 DEF After, Over, NextHook
<1>6. CASE Finish \/ SkipHook \/ MatchHook \/ SpawnThrows \/ Ask
  BY <1>1, <1>6 DEF Finish, SkipHook, MatchHook, SpawnThrows, Ask, Over, NextHook
<1>7. CASE Deliver \/ BashReturns
  BY <1>1, <1>5, <1>7 DEF Deliver, BashReturns
<1>8. CASE ConfirmAtOnce
  <2>1. PICK approved \in BOOLEAN : After(~approved)
    BY <1>8 DEF ConfirmAtOnce
  <2> QED  BY <1>1, <1>5, <1>8, <2>1 DEF ConfirmAtOnce
<1>9. CASE UserAnswers \/ DeadlinePasses
  <2>1. PICK approved \in BOOLEAN, was \in {"yes", "no", "late"} : Answered(approved, was)
    BY <1>9 DEF UserAnswers, DeadlinePasses
  <2> QED  BY <1>1, <1>5, <2>1 DEF Answered
<1>10. CASE UNCHANGED vars
  BY <1>1, <1>10 DEF vars, runVars
<1> QED  BY <1>2, <1>3, <1>4, <1>6, <1>7, <1>8, <1>9, <1>10 DEF Next, Proceed

------------------------------------------------------------------------------
(* What is applied to the arguments and added to the prompt. *)

\* An outcome more leaves the ones before it.
LEMMA CleanStays ==
  ASSUME NEW outcomes \in Seq(Outcome), NEW x \in Outcome, NEW p
  PROVE  /\ Clean(outcomes, p) => Clean(Append(outcomes, x), p)
         /\ x.was = "clean" /\ <<x.h, x.a>> = p => Clean(Append(outcomes, x), p)
<1> DEFINE all == Append(outcomes, x)
<1>1. /\ Len(all) = Len(outcomes) + 1 /\ Len(outcomes) \in Nat
      /\ \A i \in 1..Len(outcomes) : all[i] = outcomes[i]
      /\ all[Len(all)] = x
  OBVIOUS
<1> HIDE DEF all
<1>2. Clean(outcomes, p) => Clean(all, p)
  BY <1>1 DEF Clean
<1>3. Len(all) \in 1..Len(all)
  BY <1>1
<1>4. x.was = "clean" /\ <<x.h, x.a>> = p => Clean(all, p)
  BY <1>1, <1>3 DEF Clean
<1> QED  BY <1>2, <1>4 DEF all

LEMMA CleanAfter ==
  ASSUME Shape, ContribInv, NEW out \in Outs, NEW was \in Pasts, Record(out, was)
  PROVE  /\ \A i \in 1..Len(args) : Clean(ran', args[i])
         /\ \A i \in 1..Len(context) : Clean(ran', context[i].from)
         /\ was = "clean" => Clean(ran', <<h, a>>)
<1> DEFINE x == [h |-> h, a |-> a, out |-> out, was |-> was]
<1>1. x \in Outcome /\ ran \in Seq(Outcome)
  BY DEF Outcome, Shape
<1>2. ran' = Append(ran, x)
  BY DEF Record
<1>3. x.was = was /\ <<x.h, x.a>> = <<h, a>>
  OBVIOUS
<1> HIDE DEF x
<1> QED  BY <1>1, <1>2, <1>3, CleanStays DEF ContribInv

\* Steps that apply and add nothing.
LEMMA Keeping ==
  ASSUME Shape, ContribInv, context' = context, args' \in {args, <<>>},
         \/ UNCHANGED ran
         \/ \E out \in Outs, was \in Pasts : Record(out, was),
         verdict' \notin {"none", "passed"} => args' = <<>>
  PROVE  ContribInv'
<1>1. /\ \A i \in 1..Len(args) : Clean(ran', args[i])
      /\ \A i \in 1..Len(context) : Clean(ran', context[i].from)
  <2>1. CASE UNCHANGED ran
    BY <2>1 DEF ContribInv
  <2>2. ASSUME NEW out \in Outs, NEW was \in Pasts, Record(out, was)
        PROVE  /\ \A i \in 1..Len(args) : Clean(ran', args[i])
               /\ \A i \in 1..Len(context) : Clean(ran', context[i].from)
    BY <2>2, CleanAfter
  <2> QED  BY <2>1, <2>2
<1>2. args' \in Seq(Place) /\ \A i \in 1..Len(args') : Clean(ran', args'[i])
  <2>1. CASE args' = args
    BY <1>1, <2>1 DEF ContribInv
  <2>2. CASE args' = <<>>
    BY <2>2
  <2> QED  BY <2>1, <2>2
<1>3. context' \in Contributions /\ Used(context') <= MaxContext
  BY DEF ContribInv
<1> QED  BY <1>1, <1>2, <1>3 DEF ContribInv, Clean

\* The verdict of a request that an action ends.
LEMMA VerdictAfter ==
  ASSUME Shape, stage # "over", NEW blocked, After(blocked), ~(blocked /\ CanBlock)
  PROVE  verdict' \in {"none", "passed"}
BY DEF After, NextHook, Shape

LEMMA ReviseFalse ==
  ASSUME NEW blocked, Revise(FALSE, blocked)
  PROVE  args' \in {args, <<>>} /\ (blocked /\ CanBlock => args' = <<>>)
BY DEF Revise

\* A command's output counts only if it ended well and in time.
LEMMA UsableIsClean ==
  ASSUME ResultIsTrue, ProcInv, Settled, Usable(Status(result, CanBlock))
  PROVE  Was = "clean"
<1>1. result \in Result
  BY DEF ProcInv, ProcTypeOK, Settled
<1>2. timedOut \in BOOLEAN /\ result.timedOut = timedOut /\ CanBlock \in BOOLEAN
  BY DEF ResultIsTrue, CanBlock
<1>3. ~timedOut
  BY <1>2, Zenon DEF Usable, Status
<1>4. result.exit = 0
  <2>1. CASE result.exit = 2
    BY <1>2, <1>3, <2>1 DEF Usable, Status
  <2>2. CASE result.exit \notin {0, 2}
    BY <1>2, <1>3, <2>2 DEF Usable, Status
  <2> QED  BY <2>1, <2>2
<1>5. code = 0 /\ inTime /\ ~result.truncated
  BY <1>3, <1>4 DEF ProcInv, Usable
<1> QED  BY <1>5 DEF Was

\* What a sequence with one more element consists of.
OneMore(S, s, x, t) ==
    t \in Seq(S) /\ \A i \in 1..Len(t) : t[i] = x \/ (i \in 1..Len(s) /\ t[i] = s[i])

LEMMA Appended ==
  ASSUME NEW S, NEW s \in Seq(S), NEW x \in S, NEW t, t = Append(s, x)
  PROVE  OneMore(S, s, x, t)
<1>1. t \in Seq(S) /\ Len(s) \in Nat /\ Len(t) = Len(s) + 1
  OBVIOUS
<1>2. t[Len(t)] = x /\ \A i \in 1..Len(s) : t[i] = s[i]
  OBVIOUS
<1>3. \A i \in 1..Len(t) : i = Len(t) \/ i \in 1..Len(s)
  BY <1>1
<1> QED  BY <1>1, <1>2, <1>3 DEF OneMore

LEMMA ReturnedClean ==
  ASSUME VerdictInv, PlaceInv, ProcInv, ContribInv, BashReturns
  PROVE  ContribInv'
<1> DEFINE status == Status(result, CanBlock)
           blocked == status = "blocked"
<1>1. /\ stage = "bash" /\ Settled /\ Record(status, Was) /\ After(blocked)
  BY DEF BashReturns
<1>2. Shape /\ ResultIsTrue
  BY DEF VerdictInv
<1>3. status \in Outs /\ Was \in Pasts
  <2>1. status \in Statuses /\ Was \in {"two", "two held", "clean", "bad"}
    BY <1>1, <1>2, StatusIsTrue
  <2> QED  BY <2>1 DEF Outs, Pasts, Histories
<1>4. <<h, a>> \in Place
  BY <1>2 DEF Shape, Place
<1>5. CASE Revise(FALSE, blocked) /\ UNCHANGED context
  <2>1. args' \in {args, <<>>} /\ (blocked /\ CanBlock => args' = <<>>)
    BY <1>5, ReviseFalse
  <2>2. ~(blocked /\ CanBlock) => verdict' \in {"none", "passed"}
    BY <1>1, <1>2, VerdictAfter
  <2> HIDE DEF status, blocked
  <2> QED  BY <1>1, <1>2, <1>3, <1>5, <2>1, <2>2, Keeping
<1> DEFINE was == Was
<1> HIDE DEF was
<1>6. Usable(status) => /\ \A i \in 1..Len(args) : Clean(ran', args[i])
                        /\ \A i \in 1..Len(context) : Clean(ran', context[i].from)
                        /\ Clean(ran', <<h, a>>)
  <2>1. Usable(status) => was = "clean"
    BY <1>1, <1>2, UsableIsClean DEF was
  <2>2. Record(status, was) /\ was \in Pasts
    BY <1>1, <1>3 DEF was
  <2> HIDE DEF status
  <2> QED  BY <1>2, <1>3, <2>1, <2>2, CleanAfter
<1>7. ASSUME ~blocked
      PROVE  verdict' \in {"none", "passed"}
  <2>1. stage # "over" /\ After(blocked) /\ ~(blocked /\ CanBlock)
    BY <1>1, <1>7
  <2> HIDE DEF status, blocked
  <2> QED  BY <1>2, <2>1, VerdictAfter
<1>8. CASE ~blocked /\ Usable(status) /\ Revise(TRUE, blocked) /\ UNCHANGED context
  <2>1. args' = Append(args, <<h, a>>) /\ args \in Seq(Place)
    BY <1>8 DEF Revise, ContribInv
  <2>2. args' \in Seq(Place) /\ \A i \in 1..Len(args') : args'[i] = <<h, a>> \/ (i \in 1..Len(args) /\ args'[i] = args[i])
    <3>1. OneMore(Place, args, <<h, a>>, args')
      BY <1>4, <2>1, Appended
    <3> QED  BY <3>1 DEF OneMore
  <2>3. \A i \in 1..Len(args') : Clean(ran', args'[i])
    BY <1>6, <1>8, <2>2
  <2>4. (\A i \in 1..Len(args) : Clean(ran, args[i]))'
    BY <2>3 DEF Clean
  <2>5. (\A i \in 1..Len(context) : Clean(ran, context[i].from))'
    BY <1>6, <1>8 DEF Clean
  <2>6. context' \in Contributions /\ Used(context') <= MaxContext
    BY <1>8 DEF ContribInv
  <2>7. verdict' \in {"none", "passed"}
    BY <1>7, <1>8
  <2> QED  BY <2>2, <2>4, <2>5, <2>6, <2>7 DEF ContribInv
<1>9. ASSUME Usable(status), NEW size \in Sizes, UNCHANGED args,
             context' = IF Fits([from |-> <<h, a>>, size |-> size])
                        THEN Append(context, [from |-> <<h, a>>, size |-> size]) ELSE context
      PROVE  ContribInv'
  <2> DEFINE x == [from |-> <<h, a>>, size |-> size]
  <2>1. x \in Contribution /\ x.from = <<h, a>>
    BY <1>4 DEF Contribution
  <2>2. context \in Contributions
    BY DEF ContribInv
  <2>3. context' \in Contributions /\ Used(context') <= MaxContext
    <3>1. CASE Fits(x)
      <4>1. context' = Append(context, x)
        BY <1>9, <3>1
      <4> HIDE DEF x
      <4>2. Used(context') = Used(context) + x.size
        BY <2>1, <2>2, <4>1, UsedOfOneMore
      <4> QED  BY <2>1, <2>2, <3>1, <4>1, <4>2 DEF Fits, Contributions
    <3>2. CASE ~Fits(x)
      BY <1>9, <3>2 DEF ContribInv
    <3> QED  BY <3>1, <3>2
  <2>4. \A i \in 1..Len(context') : context'[i] = x \/ (i \in 1..Len(context) /\ context'[i] = context[i])
    <3>1. context' = Append(context, x) \/ context' = context
      BY <1>9
    <3> HIDE DEF x
    <3>2. CASE context' = Append(context, x)
      BY <2>1, <2>2, <3>2, Appended DEF Contributions, OneMore
    <3>3. CASE context' = context
      BY <3>3
    <3> QED  BY <3>1, <3>2, <3>3
  <2> HIDE DEF x
  <2>5. \A i \in 1..Len(context') : Clean(ran', context'[i].from)
    BY <1>6, <1>9, <2>1, <2>4
  <2>6. status # "blocked"
    BY <1>9 DEF Usable
  <2>7. args' = args /\ verdict' \in {"none", "passed"}
    BY <1>7, <1>9, <2>6
  <2> HIDE DEF status, blocked
  <2>8. (\A i \in 1..Len(args) : Clean(ran, args[i]))'
    BY <1>6, <1>9, <2>7 DEF Clean
  <2>9. (\A i \in 1..Len(context) : Clean(ran, context[i].from))'
    BY <2>5 DEF Clean
  <2>10. args' \in Seq(Place)
    BY <2>7 DEF ContribInv
  <2> QED  BY <2>3, <2>7, <2>8, <2>9, <2>10 DEF ContribInv
<1>10. \/ Revise(FALSE, blocked) /\ UNCHANGED context
       \/ ~blocked /\ Usable(status) /\ Revise(TRUE, blocked) /\ UNCHANGED context
       \/ /\ Usable(status) /\ UNCHANGED args
          /\ \E size \in Sizes :
                context' = IF Fits([from |-> <<h, a>>, size |-> size])
                           THEN Append(context, [from |-> <<h, a>>, size |-> size]) ELSE context
  BY DEF BashReturns
<1> QED  BY <1>5, <1>8, <1>9, <1>10

LEMMA ContributionsKept ==
  ASSUME VerdictInv, PlaceInv, ProcInv, ContribInv, [Next]_vars
  PROVE  ContribInv'
<1>0. Shape /\ None \in Pasts /\ "nobody" \in Pasts
  BY DEF VerdictInv, Pasts, Histories
<1>1. CASE UNCHANGED <<args, context, ran>> /\ verdict' \in {verdict, "passed"}
  <2>1. verdict' \notin {"none", "passed"} => args' = <<>>
    BY <1>1 DEF ContribInv
  <2> QED  BY <1>0, <1>1, <2>1, Keeping
<1>2. CASE Finish \/ SkipHook \/ MatchHook \/ Ask \/ StartBash \/ Process \/ Tick \/ UNCHANGED vars
  BY <1>1, <1>2 DEF Finish, SkipHook, MatchHook, Ask, StartBash, Process, Tick, Over, NextHook, vars, runVars
<1>3. CASE Deliver
  <2>1. PICK out \in Outs : Record(out, None)
    <3>1. PICK out \in {"accepted", "degraded", "failed", "skipped"} : Record(out, None)
      BY <1>3 DEF Deliver
    <3> QED  BY <3>1 DEF Outs, Statuses
  <2>2. verdict' \in {"none", "passed"} /\ args' = args /\ context' = context
    BY <1>0, <1>3, VerdictAfter DEF Deliver
  <2> QED  BY <1>0, <2>1, <2>2, Keeping
<1>4. ASSUME NEW approved \in BOOLEAN, NEW was \in Pasts,
             Record(IF approved THEN "passed" ELSE "denied", was), After(~approved),
             Revise(FALSE, ~approved), UNCHANGED context, stage # "over"
      PROVE  ContribInv'
  <2>1. args' \in {args, <<>>} /\ (~approved /\ CanBlock => args' = <<>>)
    BY <1>4, ReviseFalse
  <2>2. ~(~approved /\ CanBlock) => verdict' \in {"none", "passed"}
    BY <1>0, <1>4, VerdictAfter
  <2>3. PICK out \in Outs : Record(out, was)
    BY <1>4 DEF Outs
  <2> QED  BY <1>0, <1>4, <2>1, <2>2, <2>3, Keeping
<1>5. CASE ConfirmAtOnce
  BY <1>0, <1>4, <1>5 DEF ConfirmAtOnce, Starts
<1>6. CASE UserAnswers \/ DeadlinePasses
  <2>1. PICK approved \in BOOLEAN, was \in Pasts : Answered(approved, was)
    BY <1>6 DEF UserAnswers, DeadlinePasses, Pasts, Histories
  <2> QED  BY <1>4, <2>1 DEF Answered
<1>7. CASE SpawnThrows
  <2>1. Record("error", None) /\ "error" \in Outs /\ args' = <<>> /\ context' = context
    BY <1>7 DEF SpawnThrows, Outs
  <2> QED  BY <1>0, <2>1, Keeping
<1>8. CASE BashReturns
  BY <1>8, ReturnedClean
<1> QED  BY <1>2, <1>3, <1>4, <1>5, <1>6, <1>7, <1>8 DEF Next, Proceed

------------------------------------------------------------------------------
(* Time. *)

LEMMA Allowances ==
  ASSUME NEW n \in Nat
  PROVE  Allowance(n) \in Nat /\ Allowance(n + 1) = Allowance(n) + (Grace + 1)
<1>1. \A k, g \in Nat : k * (g + 1) \in Nat /\ (k + 1) * (g + 1) = k * (g + 1) + (g + 1)
  OBVIOUS
<1> QED  BY <1>1 DEF Allowance

LEMMA EndedIsFinite ==
  ASSUME NEW outcomes \in Seq(Outcome)
  PROVE  /\ Ended(outcomes) \subseteq 1..Len(outcomes)
         /\ IsFiniteSet(Ended(outcomes)) /\ Cardinality(Ended(outcomes)) \in Nat
<1>1. Ended(outcomes) \subseteq 1..Len(outcomes)
  BY Zenon DEF Ended
<1>2. IsFiniteSet(1..Len(outcomes))
  <2>1. Len(outcomes) \in Int /\ 1 \in Int
    OBVIOUS
  <2> QED  BY <2>1, FS_Interval
<1>3. IsFiniteSet(Ended(outcomes))
  BY <1>1, <1>2, FS_Subset
<1> QED  BY <1>1, <1>3, FS_CardinalityType

\* A command counts, anything else does not.
OfCommand(was) == was \in {"two", "two held", "clean", "bad"}

LEMMA OneMoreEnded ==
  ASSUME NEW outcomes \in Seq(Outcome), NEW x \in Outcome
  PROVE  /\ OfCommand(x.was) => Cardinality(Ended(Append(outcomes, x))) = Cardinality(Ended(outcomes)) + 1
         /\ ~OfCommand(x.was) => Ended(Append(outcomes, x)) = Ended(outcomes)
<1> DEFINE t == Append(outcomes, x)
           n == Len(outcomes)
<1>1. /\ n \in Nat /\ Len(t) = n + 1 /\ t[n + 1] = x
      /\ \A i \in 1..n : t[i] = outcomes[i]
  OBVIOUS
<1> HIDE DEF t
<1>2. Ended(outcomes) \subseteq 1..n /\ IsFiniteSet(Ended(outcomes))
  BY EndedIsFinite
<1> HIDE DEF n
<1>3. n + 1 \notin Ended(outcomes)
  BY <1>1, <1>2
<1>4. \A i : i \in 1..(n + 1) <=> i \in 1..n \/ i = n + 1
  BY <1>1
<1>5. Ended(t) = {i \in 1..(n + 1) : OfCommand(t[i].was)} /\ Ended(outcomes) = {i \in 1..n : OfCommand(outcomes[i].was)}
  BY <1>1, Zenon DEF Ended, OfCommand, n
<1>6. OfCommand(x.was) => Ended(t) = Ended(outcomes) \cup {n + 1}
  BY <1>1, <1>4, <1>5
<1>7. ~OfCommand(x.was) => Ended(t) = Ended(outcomes)
  BY <1>1, <1>4, <1>5
<1>8. Cardinality(Ended(outcomes) \cup {n + 1}) = Cardinality(Ended(outcomes)) + 1
  BY <1>2, <1>3, FS_AddElement
<1> QED  BY <1>6, <1>7, <1>8 DEF t

LEMMA LateIsNat ==
  ASSUME Shape, PlaceInv, budget # None
  PROVE  Late \in Nat /\ Deadline \in Nat /\ Deadline <= Late
<1>1. Deadline \in Nat
  BY DEF PlaceInv, Deadline
<1>2. EndedSoFar \in Nat
  BY EndedIsFinite DEF EndedSoFar, Shape
<1>3. Allowance(EndedSoFar) \in Nat
  BY <1>2, Allowances
<1> QED  BY <1>1, <1>3 DEF Late

\* An outcome puts off what is late by one command or not at all.
LEMMA Later ==
  ASSUME Shape, PlaceInv, budget # None, UNCHANGED budget,
         NEW out \in Outs, NEW was \in Pasts, Record(out, was)
  PROVE  /\ OfCommand(was) => Late' = Late + (Grace + 1)
         /\ ~OfCommand(was) => Late' = Late
<1> DEFINE x == [h |-> h, a |-> a, out |-> out, was |-> was]
<1>1. x \in Outcome /\ ran \in Seq(Outcome) /\ x.was = was /\ ran' = Append(ran, x)
  BY DEF Outcome, Shape, Record
<1> HIDE DEF x
<1>2. EndedSoFar \in Nat
  BY <1>1, EndedIsFinite DEF EndedSoFar
<1>3. Late = Deadline + Allowance(EndedSoFar) /\ Late' = Deadline + Allowance(EndedSoFar')
  BY DEF Late, EndedSoFar, Deadline, Allowance
<1>4. Deadline \in Nat /\ Allowance(EndedSoFar) \in Nat
  BY <1>2, Allowances DEF PlaceInv, Deadline
<1>5. CASE OfCommand(was)
  <2>1. EndedSoFar' = EndedSoFar + 1
    BY <1>1, <1>5, OneMoreEnded DEF EndedSoFar
  <2>2. Allowance(EndedSoFar') = Allowance(EndedSoFar) + (Grace + 1)
    BY <1>2, <2>1, Allowances
  <2> QED  BY <1>3, <1>4, <1>5, <2>2
<1>6. CASE ~OfCommand(was)
  BY <1>1, <1>3, <1>6, OneMoreEnded DEF EndedSoFar
<1> QED  BY <1>5, <1>6

\* After an action that took no time.
LEMMA TimeAfter ==
  ASSUME Shape, PlaceInv, budget # None, UNCHANGED budget, now' = now, now \in Nat,
         stage' \in {"action", "hook", "over"},
         NEW out \in Outs, NEW was \in Pasts, Record(out, was),
         now <= Late \/ (OfCommand(was) /\ now <= Late + 1 + Grace)
  PROVE  TimeInv'
<1>1. Late \in Nat /\ Grace \in Nat
  BY LateIsNat
<1>2. /\ OfCommand(was) => Late' = Late + (Grace + 1)
      /\ ~OfCommand(was) => Late' = Late
  BY Later
<1>3. now' <= Late'
  <2>1. CASE OfCommand(was)
    BY <1>1, <1>2, <2>1
  <2>2. CASE ~OfCommand(was)
    BY <1>1, <1>2, <2>2
  <2> QED  BY <2>1, <2>2
<1> QED  BY <1>3 DEF TimeInv

\* Steps that execute no action leave what is late.
LEMMA LateStays ==
  ASSUME UNCHANGED <<budget, ran>>
  PROVE  Late' = Late
BY DEF Late, Deadline, EndedSoFar, Allowance

LEMMA TimeKept ==
  ASSUME VerdictInv, PlaceInv, ProcInv, TimeInv, [Next]_vars
  PROVE  TimeInv'
<1> SUFFICES ASSUME budget' # None
             PROVE  TimeInv'
  BY DEF TimeInv
<1>0. Shape /\ ResultIsTrue
  BY DEF VerdictInv
<1>1. budget' = budget /\ budget # None
  BY DEF Next, Proceed, Finish, SkipHook, MatchHook, Deliver, ConfirmAtOnce, Ask, DeadlinePasses,
         UserAnswers, Answered, StartBash, SpawnThrows, BashReturns, Process, Tick, runVars, vars
<1>2. Late \in Nat /\ Deadline \in Nat /\ Deadline <= Late /\ Grace \in Nat \ {0} /\ now \in Nat
  BY <1>0, <1>1, LateIsNat DEF ProcInv, ProcTypeOK
<1>3. /\ stage \in {"hook", "action", "over"} => now <= Late
      /\ stage = "confirm" => answerBy \in Nat /\ now <= answerBy /\ answerBy <= Deadline
      /\ stage = "bash" =>
            /\ now <= Late + 1 + Grace
            /\ timerAt # None => killAt = None /\ now <= timerAt /\ timerAt <= Late + 1
            /\ killAt # None => timerAt = None /\ now <= killAt /\ killAt <= Late + 1 + Grace
  BY <1>1 DEF TimeInv
<1>4. None \in Pasts /\ "nobody" \in Pasts /\ ~OfCommand(None) /\ ~OfCommand("nobody")
  BY DEF Pasts, Histories, OfCommand
<1>5. ASSUME NEW blocked, After(blocked)
      PROVE  stage' \in {"action", "hook", "over"}
  BY <1>5 DEF After, Over, NextHook
<1>6. CASE Finish \/ SkipHook \/ MatchHook
  <2>1. /\ stage = "hook" /\ stage' \in {"hook", "action", "over"}
        /\ now' = now /\ ran' = ran
    BY <1>6 DEF Finish, SkipHook, MatchHook, Over, NextHook
  <2> QED  BY <1>1, <1>3, <2>1, LateStays DEF TimeInv
<1>7. CASE Deliver
  <2>1. PICK out \in Outs : Record(out, None)
    <3>1. PICK out \in {"accepted", "degraded", "failed", "skipped"} : Record(out, None)
      BY <1>7 DEF Deliver
    <3> QED  BY <3>1 DEF Outs, Statuses
  <2>2. stage' \in {"action", "hook", "over"} /\ now' = now /\ stage = "action"
    BY <1>5, <1>7 DEF Deliver
  <2> QED  BY <1>0, <1>1, <1>2, <1>3, <1>4, <2>1, <2>2, TimeAfter
<1>8. CASE ConfirmAtOnce
  <2>1. PICK approved \in BOOLEAN :
           Record(IF approved THEN "passed" ELSE "denied", "nobody") /\ After(~approved)
    BY <1>8 DEF ConfirmAtOnce
  <2>2. PICK out \in Outs : Record(out, "nobody")
    BY <2>1 DEF Outs
  <2>3. stage' \in {"action", "hook", "over"} /\ now' = now /\ stage = "action"
    BY <1>5, <1>8, <2>1 DEF ConfirmAtOnce, Starts
  <2> QED  BY <1>0, <1>1, <1>2, <1>3, <1>4, <2>2, <2>3, TimeAfter
<1>9. CASE UserAnswers \/ DeadlinePasses
  <2>1. PICK approved \in BOOLEAN, was \in {"yes", "no", "late"} : Answered(approved, was)
    BY <1>9 DEF UserAnswers, DeadlinePasses
  <2>2. PICK out \in Outs : Record(out, was)
    BY <2>1 DEF Answered, Outs
  <2>3. stage' \in {"action", "hook", "over"} /\ now' = now /\ stage = "confirm"
    BY <1>5, <2>1 DEF Answered
  <2>4. was \in Pasts
    BY DEF Pasts, Histories
  <2>5. now <= Late
    BY <1>2, <1>3, <2>3
  <2> QED  BY <1>0, <1>1, <1>2, <2>2, <2>3, <2>4, <2>5, TimeAfter
<1>10. CASE SpawnThrows
  <2>1. Record("error", None) /\ "error" \in Outs /\ stage' = "over" /\ now' = now /\ stage = "action"
    BY <1>10 DEF SpawnThrows, Outs, Starts, Over
  <2> QED  BY <1>0, <1>1, <1>2, <1>3, <1>4, <2>1, TimeAfter
<1>11. CASE BashReturns
  <2> DEFINE status == Status(result, CanBlock)
             was == Was
  <2>1. Record(status, was) /\ Settled /\ stage = "bash" /\ now' = now /\ After(status = "blocked")
    BY <1>11 DEF BashReturns
  <2>2. status \in Outs /\ was \in Pasts /\ OfCommand(was)
    <3>1. status \in Statuses /\ was \in {"two", "two held", "clean", "bad"}
      BY <1>0, <2>1, StatusIsTrue
    <3> QED  BY <3>1 DEF Outs, Pasts, Histories, OfCommand
  <2> HIDE DEF status, was
  <2>3. stage' \in {"action", "hook", "over"} /\ now <= Late + 1 + Grace
    BY <1>3, <1>5, <2>1
  <2> QED  BY <1>0, <1>1, <1>2, <2>1, <2>2, <2>3, TimeAfter
<1>12. CASE Ask
  <2>1. /\ stage' = "confirm" /\ Left > 0 /\ now' = now
        /\ answerBy' = now + (IF Left < ConfirmMax THEN Left ELSE ConfirmMax)
    BY <1>1, <1>12 DEF Ask
  <2>2. now < Deadline /\ Left = Deadline - now
    BY <1>2, <2>1 DEF Left
  <2>3. answerBy' \in Nat /\ now <= answerBy' /\ answerBy' <= Deadline
    BY <1>2, <2>1, <2>2
  <2>4. Deadline' = Deadline
    BY <1>1 DEF Deadline
  <2> QED  BY <2>1, <2>3, <2>4 DEF TimeInv
<1>13. CASE StartBash
  <2>1. stage = "action" /\ stage' = "bash" /\ now' = now /\ ran' = ran /\ killAt' = None
        /\ timerAt' \in {now + Timeout, None}
    BY <1>13 DEF StartBash, Starts, Spawn, SpawnError
  <2>2. /\ Timeout \in Nat
        /\ now + Timeout <= Deadline \/ now + Timeout <= now + 1
    BY <1>1, <1>2, <2>1, TimeoutBound
  <2>3. now <= Late /\ Late' = Late
    BY <1>1, <1>3, <2>1, LateStays
  <2>4. timerAt' # None => now <= timerAt' /\ timerAt' <= Late + 1
    BY <1>2, <2>1, <2>2, <2>3
  <2>5. now <= Late + 1 + Grace
    BY <1>2, <2>3
  <2> QED  BY <2>1, <2>3, <2>4, <2>5 DEF TimeInv
<1>14. CASE Process
  <2>1. stage = "bash" /\ stage' = "bash" /\ now' = now /\ ran' = ran /\ Late' = Late /\ ProcStep
    BY <1>1, <1>14, LateStays DEF Process, runVars, ProcStep, Exit, DescendantEnds, TimeoutFires, KillFires, Close
  <2>2. CASE UNCHANGED <<timerAt, killAt>>
    BY <1>3, <2>1, <2>2 DEF TimeInv
  <2>3. CASE TimeoutFires
    <3>1. /\ timerAt # None /\ timerAt <= now /\ timerAt' = None /\ killAt' = now + Grace
      BY <2>3 DEF TimeoutFires
    <3>2. now <= killAt' /\ killAt' <= Late + 1 + Grace
      <4>1. timerAt \in Nat
        BY <3>1 DEF ProcInv, ProcTypeOK
      <4> QED  BY <1>2, <1>3, <2>1, <3>1, <4>1
    <3> QED  BY <1>3, <2>1, <3>1, <3>2 DEF TimeInv
  <2>4. CASE KillFires \/ Close
    <3>1. killAt' = None /\ (timerAt' = None \/ timerAt' = timerAt)
      BY <2>4 DEF KillFires, Close, Finalize
    <3> QED  BY <1>3, <2>1, <3>1 DEF TimeInv
  <2> QED  BY <2>1, <2>2, <2>3, <2>4 DEF ProcStep, Exit, DescendantEnds
<1>15. CASE Tick
  <2>1. /\ now' = now + 1 /\ UNCHANGED <<stage, ran, timerAt, killAt, answerBy, budget>>
        /\ \/ stage = "bash" /\ {timerAt, killAt} # {None} /\ ~Settled /\ ~Due
           \/ stage = "confirm" /\ answerBy # None /\ answerBy > now
    BY <1>15 DEF Tick, procVars, runVars
  <2>2. Late' = Late /\ Deadline' = Deadline
    BY <2>1, LateStays DEF Deadline
  <2>3. CASE stage = "confirm"
    BY <1>2, <1>3, <2>1, <2>2, <2>3 DEF TimeInv
  <2>4. CASE stage = "bash"
    <3>1. /\ timerAt # None \/ killAt # None
          /\ timerAt # None => ~(timerAt <= now)
          /\ killAt # None => ~(killAt <= now)
      BY <2>1, <2>4 DEF Due
    <3>2. timerAt \in Nat \cup {None} /\ killAt \in Nat \cup {None}
      BY DEF ProcInv, ProcTypeOK
    <3>3. /\ now + 1 <= Late + 1 + Grace
          /\ timerAt # None => killAt = None /\ now + 1 <= timerAt /\ timerAt <= Late + 1
          /\ killAt # None => timerAt = None /\ now + 1 <= killAt /\ killAt <= Late + 1 + Grace
      BY <1>2, <1>3, <2>4, <3>1, <3>2
    <3> QED  BY <2>1, <2>2, <2>4, <3>3 DEF TimeInv
  <2> QED  BY <2>1, <2>3, <2>4
<1>16. CASE UNCHANGED vars
  <2>1. UNCHANGED <<now, stage, ran, timerAt, killAt, answerBy, budget>>
    BY <1>16 DEF vars, procVars, runVars
  <2>2. Late' = Late /\ Deadline' = Deadline
    BY <2>1, LateStays DEF Deadline
  <2> QED  BY <1>3, <2>1, <2>2 DEF TimeInv
<1> QED  BY <1>6, <1>7, <1>8, <1>9, <1>10, <1>11, <1>12, <1>13, <1>14, <1>15, <1>16 DEF Next, Proceed

------------------------------------------------------------------------------

IInv == VerdictInv /\ PlaceInv /\ ProcInv /\ ContribInv /\ TimeInv

LEMMA Beginning == Init => IInv
<1> SUFFICES ASSUME Init
             PROVE  IInv
  OBVIOUS
<1>1. ran = <<>> /\ Len(ran) = 0 /\ ran \in Seq(Outcome)
  BY DEF Init
<1>2. Shape /\ HonestVerdict
  BY <1>1 DEF Init, Shape, HonestVerdict
<1>3. ResultIsTrue
  BY DEF Init, NoProcess, ResultIsTrue, Settled
<1>4. PlaceInv
  <2>1. hooks \in Seq(Hook) /\ Len(hooks) \in Nat
    BY DEF Init
  <2> QED  BY <2>1 DEF Init, PlaceInv
<1>5. ProcInv
  BY DEF Init, NoProcess, ProcInv, ProcTypeOK, Settled
<1>6. ContribInv
  <2>1. <<>> \in Contributions /\ <<>> \in Seq(Place) /\ Len(<<>>) = 0
    BY DEF Contributions
  <2> QED  BY <2>1, UsedOfNone DEF Init, ContribInv
<1>7. TimeInv
  <2>1. budget # None => Late \in Nat
    BY <1>2, <1>4, LateIsNat
  <2> QED  BY <2>1 DEF Init, TimeInv
<1> QED  BY <1>2, <1>3, <1>4, <1>5, <1>6, <1>7 DEF IInv, VerdictInv

THEOREM Inductive == Spec => []IInv
<1>1. IInv /\ [Next]_vars => IInv'
  <2> SUFFICES ASSUME IInv, [Next]_vars
               PROVE  IInv'
    OBVIOUS
  <2>1. VerdictInv /\ PlaceInv /\ ProcInv /\ ContribInv /\ TimeInv
    BY DEF IInv
  <2>2. ResultIsTrue /\ now \in Nat
    BY <2>1 DEF VerdictInv, ProcInv, ProcTypeOK
  <2>3. VerdictInv' /\ PlaceInv' /\ ProcInv'
    BY <2>1, <2>2, VerdictKept, PlacesKept, ProcKept
  <2>4. ContribInv' /\ TimeInv'
    BY <2>1, ContributionsKept, TimeKept
  <2> QED  BY <2>3, <2>4 DEF IInv
<1> QED  BY <1>1, Beginning, PTL DEF Spec

------------------------------------------------------------------------------

\* A request blocks exactly for its last action, and exactly when that refused,
\* whatever the processes, the timers and the user do, in any order.
THEOREM Verdicts == Spec => []HonestVerdict
<1>1. IInv => HonestVerdict
  BY DEF IInv, VerdictInv
<1> QED  BY <1>1, Inductive, PTL

\* What reaches the arguments and the prompt was printed in full by a command
\* that ended well and in time, and stays within the limit.
THEOREM Contributing == Spec => []CleanContributions
<1>1. IInv => CleanContributions
  BY DEF IInv, ContribInv, Clean, CleanContributions
<1> QED  BY <1>1, Inductive, PTL

\* The deadline is overrun by no more than a unit and a grace period for each
\* command, whatever the commands do about SIGTERM and however many there are.
THEOREM Overrun == Spec => []OverrunIsBounded
<1>1. IInv => OverrunIsBounded
  <2> SUFFICES ASSUME IInv, budget # None
               PROVE  now <= Deadline + Allowance(Commands)
    BY DEF OverrunIsBounded, Allowance
  <2>0. Shape /\ PlaceInv /\ ProcInv /\ TimeInv
    BY DEF IInv, VerdictInv
  <2>1. /\ Late \in Nat /\ Deadline \in Nat /\ now \in Nat
        /\ EndedSoFar \in Nat
    <3>1. EndedSoFar \in Nat
      BY <2>0, EndedIsFinite DEF EndedSoFar, Shape
    <3> QED  BY <2>0, <3>1, LateIsNat DEF ProcInv, ProcTypeOK
  <2>2. Commands = EndedSoFar + (IF stage = "bash" THEN 1 ELSE 0)
    BY DEF Commands, EndedSoFar, Ended
  <2>3. Allowance(EndedSoFar) \in Nat /\ Allowance(EndedSoFar + 1) = Allowance(EndedSoFar) + (Grace + 1)
    BY <2>1, Allowances
  <2>4. Late = Deadline + Allowance(EndedSoFar)
    BY DEF Late
  <2>5. CASE stage = "bash"
    <3>1. Commands = EndedSoFar + 1
      BY <2>2, <2>5
    <3>2. now <= Late + 1 + Grace
      BY <2>0, <2>5 DEF TimeInv
    <3>3. Allowance(Commands) = Allowance(EndedSoFar) + (Grace + 1)
      BY <2>3, <3>1
    <3> QED  BY <2>1, <2>3, <2>4, <3>2, <3>3
  <2>6. CASE stage # "bash"
    <3>1. Commands = EndedSoFar
      BY <2>1, <2>2, <2>6
    <3>2. now <= Late
      <4>1. stage \in {"hook", "action", "over"} => now <= Late
        BY <2>0 DEF TimeInv
      <4>2. stage = "confirm" => answerBy \in Nat /\ now <= answerBy /\ answerBy <= Deadline
        BY <2>0 DEF TimeInv
      <4>3. Deadline <= Late
        BY <2>0, LateIsNat
      <4>4. stage = "confirm" => now <= Late
        BY <2>1, <4>2, <4>3
      <4> QED  BY <2>0, <2>6, <4>1, <4>4 DEF Shape
    <3>3. Allowance(Commands) = Allowance(EndedSoFar)
      BY <3>1
    <3> QED  BY <2>1, <2>3, <2>4, <3>2, <3>3
  <2> QED  BY <2>5, <2>6
<1> QED  BY <1>1, Inductive, PTL

\* Results have an exit code, hooks and actions are in their lists, and a request
\* is over exactly when it has a verdict.
THEOREM TypeCorrect == Spec => []TypeOK
<1>1. IInv => TypeOK
  <2> SUFFICES ASSUME IInv
               PROVE  TypeOK
    OBVIOUS
  <2>1. Shape /\ PlaceInv /\ ProcInv /\ ContribInv
    BY DEF IInv, VerdictInv
  <2>2. verdict \in {"none", "passed", "blocked", "stopped", "error"}
    BY <2>1 DEF Shape
  <2>3. context \in Seq([from : Place, size : Sizes]) /\ args \in Seq(Place)
    BY <2>1 DEF ContribInv, Contributions, Contribution
  <2> QED  BY <2>1, <2>2, <2>3 DEF TypeOK, Shape, PlaceInv, ProcInv
<1> QED  BY <1>1, Inductive, PTL

-----------------------------------------------------------------------------
(* The guard of an action.                                                 *)

Frame(K) == [key : K, meta : Nat, root : BOOLEAN]

GuardType(K) ==
    [running : SUBSET Frame(K), activeKeys : SUBSET K, meta : Nat,
     depthOf : UNION {[D -> Nat] : D \in SUBSET Nat}]

\* The frames that hold an object.
Holders(g, n) == {f \in g.running : f.meta = n}

\* The outermost frame is one at most and holds no object; while it is there,
\* the others hold the one the set is mapped to.
RootInv(g) ==
    /\ \A f \in g.running : f.root <=> f.meta = 0
    /\ \A f, after \in g.running : f.root /\ after.root => f = after
    /\ HasRoot(g) => g.meta # 0 /\ \A f \in g.running : ~f.root => f.meta = g.meta

\* The object of the set counts the outermost frame and those that hold it.  An
\* object the set has lost still counts the outermost frame, so it never comes
\* to 0 while it is held, and does not unmap the set a second time.
DepthInv(g, cap) ==
    /\ \A f \in g.running : ~f.root => f.meta \in DOMAIN g.depthOf
    /\ g.meta # 0 => /\ g.meta \in DOMAIN g.depthOf
                     /\ g.depthOf[g.meta] = Cardinality(Counted(g))
                     /\ g.depthOf[g.meta] <= cap
    /\ \A n \in DOMAIN g.depthOf \ {0, g.meta} :
          Holders(g, n) # {} => g.depthOf[n] > Cardinality(Holders(g, n))

GuardInv(g, K, cap) ==
    /\ g \in GuardType(K) /\ IsFiniteSet(g.running)
    /\ KeysAreExact(g) /\ RootInv(g) /\ DepthInv(g, cap)

\* A number that is taken for a new object is not in use.
LEMMA FreshIsNew ==
  ASSUME NEW K, NEW g \in GuardType(K), IsFiniteSet(g.running)
  PROVE  Fresh(g) \in Nat \ {0} /\ Fresh(g) \notin Numbers(g)
<1> DEFINE objects == {f.meta : f \in g.running}
           N    == Numbers(g)
<1>1. IsFiniteSet(objects)
  <2> DEFINE meta == [f \in g.running |-> f.meta]
  <2>1. meta \in Surjection(g.running, objects)
    BY DEF Surjection
  <2> QED  BY <2>1, FS_Surjection DEF ExistsSurjection
<1>2. IsFiniteSet(N) /\ Cardinality(N) \in Nat
  <2>1. N = objects \cup {g.meta}
    BY DEF Numbers
  <2> HIDE DEF N, objects
  <2>2. IsFiniteSet(N)
    BY <1>1, <2>1, FS_AddElement
  <2> QED  BY <2>2, FS_CardinalityType
<1>3. \E n \in 1 .. Cardinality(N) + 1 : n \notin N
  <2> SUFFICES ASSUME 1 .. Cardinality(N) + 1 \subseteq N
               PROVE  FALSE
    OBVIOUS
  <2> DEFINE I == 1 .. Cardinality(N) + 1
  <2>1. Cardinality(I) = Cardinality(N) + 1
    BY <1>2, FS_Interval
  <2>2. Cardinality(I) <= Cardinality(N)
    BY <1>2, FS_Subset
  <2> HIDE DEF I
  <2> QED  BY <1>2, <2>1, <2>2
<1>4. Fresh(g) \in 1 .. Cardinality(N) + 1 /\ Fresh(g) \notin N
  BY <1>3 DEF Fresh
<1> QED  BY <1>2, <1>4

\* The outermost action begins with one frame, which it counts.
LEMMA GuardInit ==
  ASSUME NEW K, NEW key \in K, NEW cap \in Nat \ {0}
  PROVE  GuardInv(Root(key), K, cap)
<1> DEFINE g == Root(key)
           f == [key |-> key, meta |-> 0, root |-> TRUE]
<1>1. /\ g.running = {f} /\ g.activeKeys = {key} /\ g.meta = 1
      /\ g.depthOf = [n \in 1 .. 1 |-> 1]
  BY DEF Root
<1>2. g \in GuardType(K)
  <2>1. g.depthOf \in [1 .. 1 -> Nat] /\ 1 .. 1 \in SUBSET Nat
    BY <1>1
  <2>2. f \in Frame(K)
    BY DEF Frame
  <2> QED  BY <1>1, <2>1, <2>2 DEF GuardType, Root
<1>3. IsFiniteSet(g.running) /\ Cardinality({f}) = 1
  <2>1. IsFiniteSet({f}) /\ Cardinality({f}) = 1
    <3> HIDE DEF f
    <3> QED  BY FS_Singleton
  <2> QED  BY <1>1, <2>1
<1>4. KeysAreExact(g) /\ RootInv(g)
  BY <1>1 DEF KeysAreExact, RootInv, HasRoot
<1>5. Counted(g) = {f}
  BY <1>1 DEF Counted
<1>6. DepthInv(g, cap)
  BY <1>1, <1>3, <1>5 DEF DepthInv
<1> HIDE DEF g
<1> QED  BY <1>2, <1>3, <1>4, <1>6 DEF GuardInv, g

\* An action that may run is counted by the object it finds.
LEMMA EnterKeepsGuard ==
  ASSUME NEW K, NEW key \in K, NEW cap \in Nat \ {0}, NEW g, GuardInv(g, K, cap),
         ~Skipped(g, key, cap)
  PROVE  GuardInv(Enter(g, key), K, cap)
<1> DEFINE n == Found(g)
           after == Enter(g, key)
           f == [key |-> key, meta |-> n, root |-> FALSE]
           D == DOMAIN g.depthOf
<1>1. /\ g \in GuardType(K) /\ IsFiniteSet(g.running) /\ KeysAreExact(g) /\ RootInv(g)
      /\ DepthInv(g, cap)
  BY DEF GuardInv
<1>2. /\ g.running \in SUBSET Frame(K) /\ g.activeKeys \in SUBSET K /\ g.meta \in Nat
      /\ D \in SUBSET Nat /\ g.depthOf \in [D -> Nat]
  BY <1>1 DEF GuardType
<1>3. n \in Nat \ {0}
  BY <1>1, <1>2, FreshIsNew DEF Found
<1>4. /\ after.running = g.running \cup {f}
      /\ after.activeKeys = g.activeKeys \cup {key} /\ after.meta = n
      /\ after.depthOf = [i \in D \cup {n} |-> IF i = n THEN DepthIn(g) + 1 ELSE g.depthOf[i]]
  BY DEF Enter
<1>5. key \notin g.activeKeys /\ DepthIn(g) \in Nat /\ DepthIn(g) < cap
  <2>1. DepthIn(g) \in Nat
    BY <1>1, <1>2 DEF DepthIn, DepthInv
  <2> QED  BY <2>1 DEF Skipped
<1>6. f \notin g.running /\ \A e \in g.running : e.key # key
  BY <1>1, <1>5 DEF KeysAreExact
<1>7. after \in GuardType(K)
  <2>1. D \cup {n} \in SUBSET Nat /\ after.depthOf \in [D \cup {n} -> Nat]
    BY <1>2, <1>3, <1>4, <1>5
  <2>2. f \in Frame(K)
    BY <1>3 DEF Frame
  <2>3. after.depthOf \in UNION {[E -> Nat] : E \in SUBSET Nat}
    BY <2>1
  <2>4. after = [running |-> after.running, activeKeys |-> after.activeKeys,
                 meta |-> after.meta, depthOf |-> after.depthOf]
    BY DEF Enter
  <2> HIDE DEF after, f
  <2> QED  BY <1>2, <1>3, <1>4, <2>2, <2>3, <2>4 DEF GuardType
<1>8. IsFiniteSet(after.running)
  <2>1. after.running = g.running \cup {f}
    BY <1>4
  <2> HIDE DEF after, f
  <2>2. IsFiniteSet(g.running)
    BY <1>1
  <2>3. IsFiniteSet(g.running \cup {f})
    <3> HIDE DEF n
    <3> QED  BY <2>2, FS_AddElement
  <2> QED  BY <2>1, <2>3
<1>9. KeysAreExact(after)
  <2>1. f.key = key
    OBVIOUS
  <2> HIDE DEF after, f
  <2> QED  BY <1>1, <1>4, <1>6, <2>1 DEF KeysAreExact
<1>10. RootInv(after)
  <2>1. HasRoot(after) <=> HasRoot(g)
    BY <1>4 DEF HasRoot
  <2>2. HasRoot(g) => n = g.meta
    BY <1>1 DEF RootInv, Found
  <2> QED  BY <1>1, <1>3, <1>4, <2>1, <2>2 DEF RootInv
<1>11. Cardinality(Counted(after)) = DepthIn(g) + 1
  <2>1. CASE g.meta # 0
    <3>1. n = g.meta
      BY <2>1 DEF Found
    <3>2. Counted(after) = Counted(g) \cup {f} /\ f \notin Counted(g)
      BY <1>4, <1>6, <3>1 DEF Counted
    <3>3. IsFiniteSet(Counted(g))
      BY <1>1, FS_Subset DEF Counted
    <3> QED  BY <1>1, <2>1, <3>2, <3>3, FS_AddElement DEF DepthInv, DepthIn
  <2>2. CASE g.meta = 0
    <3>1. n \notin {e.meta : e \in g.running}
      BY <1>1, <2>2, FreshIsNew DEF Found, Numbers
    <3>2. \A e \in g.running : ~e.root
      BY <1>1, <2>2 DEF RootInv, HasRoot
    <3>3. Counted(after) = {f}
      BY <1>4, <3>1, <3>2 DEF Counted
    <3>4. Cardinality({f}) = 1
      <4> HIDE DEF f
      <4> QED  BY FS_Singleton
    <3> QED  BY <2>2, <3>3, <3>4 DEF DepthIn
  <2> QED  BY <2>1, <2>2
<1>12. DepthInv(after, cap)
  <2>1. DOMAIN after.depthOf = D \cup {n} /\ after.depthOf[n] = DepthIn(g) + 1
    BY <1>4
  <2>2. \A e \in after.running : ~e.root => e.meta \in D \cup {n}
    BY <1>1, <1>4 DEF DepthInv
  <2>3. ASSUME NEW i \in (D \cup {n}) \ {0, n}, Holders(after, i) # {}
        PROVE  after.depthOf[i] > Cardinality(Holders(after, i))
    <3>1. Holders(after, i) = Holders(g, i) /\ after.depthOf[i] = g.depthOf[i]
      BY <1>4, <2>3 DEF Holders
    <3>2. i # g.meta
      BY <2>3 DEF Found
    <3> QED  BY <1>1, <2>3, <3>1, <3>2 DEF DepthInv
  <2>4. DepthIn(g) + 1 <= cap
    BY <1>5
  <2> HIDE DEF after, n, D
  <2> QED  BY <1>4, <1>11, <2>1, <2>2, <2>3, <2>4 DEF DepthInv
<1> HIDE DEF after
<1> QED  BY <1>7, <1>8, <1>9, <1>10, <1>12 DEF GuardInv, after

\* The outermost action ends: what it left behind is counted one short of what
\* its object says.
LEMMA RootLeaves ==
  ASSUME NEW K, NEW cap \in Nat \ {0}, NEW g, GuardInv(g, K, cap),
         NEW f \in g.running, f.root
  PROVE  GuardInv(Leave(g, f), K, cap)
<1> DEFINE after == Leave(g, f)
           D == DOMAIN g.depthOf
<1>1. /\ g \in GuardType(K) /\ IsFiniteSet(g.running) /\ KeysAreExact(g) /\ RootInv(g)
      /\ DepthInv(g, cap)
  BY DEF GuardInv
<1>2. /\ g.running \in SUBSET Frame(K) /\ g.activeKeys \in SUBSET K /\ g.meta \in Nat
      /\ D \in SUBSET Nat /\ g.depthOf \in [D -> Nat]
  BY <1>1 DEF GuardType
<1>3. /\ after \in GuardType(K) /\ after.running = g.running \ {f} /\ after.meta = 0
      /\ after.activeKeys = g.activeKeys \ {f.key} /\ after.depthOf = g.depthOf
  BY <1>1 DEF Leave, GuardType
<1>4. HasRoot(g) /\ ~HasRoot(after)
  BY <1>1, <1>3 DEF RootInv, HasRoot
<1>5. KeysAreExact(after) /\ RootInv(after) /\ IsFiniteSet(after.running)
  <2>1. KeysAreExact(after)
    BY <1>1, <1>3 DEF KeysAreExact
  <2>2. RootInv(after)
    BY <1>1, <1>3, <1>4 DEF RootInv
  <2>3. IsFiniteSet(after.running)
    BY <1>1, <1>3, FS_RemoveElement
  <2> QED  BY <2>1, <2>2, <2>3
<1>6. ASSUME NEW i \in D \ {0}, Holders(after, i) # {}
      PROVE  after.depthOf[i] > Cardinality(Holders(after, i))
  <2>1. i = g.meta
    BY <1>1, <1>3, <1>4, <1>6 DEF RootInv, Holders
  <2>2. Holders(after, i) = Counted(g) \ {f} /\ f \in Counted(g)
    BY <1>1, <1>3, <1>4, <2>1 DEF RootInv, Holders, Counted
  <2>3. IsFiniteSet(Counted(g))
    BY <1>1, FS_Subset DEF Counted
  <2>4. /\ Cardinality(Holders(after, i)) = Cardinality(Counted(g)) - 1
        /\ Cardinality(Counted(g)) \in Nat
    BY <2>2, <2>3, FS_RemoveElement, FS_CardinalityType
  <2> QED  BY <1>1, <1>3, <1>4, <2>1, <2>4 DEF DepthInv, RootInv
<1>7. DepthInv(after, cap)
  BY <1>1, <1>3, <1>6 DEF DepthInv
<1> QED  BY <1>3, <1>5, <1>7 DEF GuardInv

\* Another action ends: the object it holds counts one less, and comes to 0 only
\* if the set is mapped to it and it was the last it counted.
LEMMA NestedLeaves ==
  ASSUME NEW K, NEW cap \in Nat \ {0}, NEW g, GuardInv(g, K, cap),
         NEW f \in g.running, ~f.root
  PROVE  GuardInv(Leave(g, f), K, cap)
<1> DEFINE after == Leave(g, f)
           D == DOMAIN g.depthOf
           m == f.meta
           left == [g.depthOf EXCEPT ![m] = @ - 1]
<1>1. /\ g \in GuardType(K) /\ IsFiniteSet(g.running) /\ KeysAreExact(g) /\ RootInv(g)
      /\ DepthInv(g, cap)
  BY DEF GuardInv
<1>2. /\ g.running \in SUBSET Frame(K) /\ g.activeKeys \in SUBSET K /\ g.meta \in Nat
      /\ D \in SUBSET Nat /\ g.depthOf \in [D -> Nat]
  BY <1>1 DEF GuardType
<1>3. m \in D /\ m \in Nat \ {0} /\ f \in Holders(g, m)
  BY <1>1, <1>2 DEF DepthInv, RootInv, Frame, Holders
<1>4. /\ IsFiniteSet(Counted(g)) /\ IsFiniteSet(Holders(g, m))
      /\ Cardinality(Counted(g)) \in Nat /\ Cardinality(Holders(g, m)) \in Nat
      /\ Cardinality(Counted(g)) = 0 <=> Counted(g) = {}
      /\ Cardinality(Holders(g, m) \ {f}) = Cardinality(Holders(g, m)) - 1
      /\ Cardinality(Holders(g, m)) > 0
  <2>1. IsFiniteSet(Counted(g)) /\ IsFiniteSet(Holders(g, m))
    BY <1>1, FS_Subset DEF Counted, Holders
  <2>2. Cardinality(Counted(g)) \in Nat /\ Cardinality(Holders(g, m)) \in Nat
    BY <2>1, FS_CardinalityType
  <2>3. Cardinality(Counted(g)) = 0 <=> Counted(g) = {}
    BY <2>1, FS_EmptySet
  <2>4. Cardinality(Holders(g, m)) # 0
    BY <1>3, <2>1, FS_EmptySet
  <2>5. Cardinality(Holders(g, m) \ {f}) = Cardinality(Holders(g, m)) - 1
    BY <1>3, <2>1, FS_RemoveElement
  <2> QED  BY <2>1, <2>2, <2>3, <2>4, <2>5
<1>5. m = g.meta => /\ f \in Counted(g) /\ Cardinality(Counted(g)) > 0
                    /\ Cardinality(Counted(g) \ {f}) = Cardinality(Counted(g)) - 1
                    /\ IsFiniteSet(Counted(g) \ {f})
  <2> SUFFICES ASSUME m = g.meta
               PROVE  /\ f \in Counted(g) /\ Cardinality(Counted(g)) > 0
                      /\ Cardinality(Counted(g) \ {f}) = Cardinality(Counted(g)) - 1
                      /\ IsFiniteSet(Counted(g) \ {f})
    OBVIOUS
  <2>1. f \in Counted(g)
    BY DEF Counted
  <2>2. Cardinality(Counted(g)) > 0
    BY <1>4, <2>1
  <2> QED  BY <1>4, <2>1, <2>2, FS_RemoveElement
<1>6. g.depthOf[m] \in Nat /\ g.depthOf[m] > 0 /\ (m # g.meta => g.depthOf[m] > 1)
  <2>1. m # g.meta => g.depthOf[m] > Cardinality(Holders(g, m))
    BY <1>1, <1>3 DEF DepthInv
  <2>2. m = g.meta => g.depthOf[m] = Cardinality(Counted(g))
    BY <1>1, <1>3 DEF DepthInv
  <2>3. g.depthOf[m] \in Nat
    BY <1>2, <1>3
  <2> HIDE DEF m
  <2> QED  BY <1>4, <1>5, <2>1, <2>2, <2>3
<1>7. left \in [D -> Nat] /\ left[m] = g.depthOf[m] - 1 /\ \A i \in D \ {m} : left[i] = g.depthOf[i]
  BY <1>2, <1>3, <1>6
<1>8. /\ after.running = g.running \ {f} /\ after.activeKeys = g.activeKeys \ {f.key}
      /\ after.depthOf = left /\ after.meta = IF left[m] = 0 THEN 0 ELSE g.meta
      /\ after = [running |-> after.running, activeKeys |-> after.activeKeys,
                  meta |-> after.meta, depthOf |-> after.depthOf]
  BY <1>1 DEF Leave, GuardType
<1> HIDE DEF after, left
<1>9. after \in GuardType(K)
  <2>1. after.depthOf \in UNION {[E -> Nat] : E \in SUBSET Nat}
    BY <1>2, <1>7, <1>8
  <2>2. after.running \in SUBSET Frame(K) /\ after.activeKeys \in SUBSET K /\ after.meta \in Nat
    BY <1>2, <1>8
  <2> QED  BY <1>8, <2>1, <2>2 DEF GuardType
<1>10. KeysAreExact(after) /\ IsFiniteSet(after.running)
  <2>1. KeysAreExact(after)
    BY <1>1, <1>8 DEF KeysAreExact
  <2>2. IsFiniteSet(after.running)
    BY <1>1, <1>8, FS_RemoveElement
  <2> QED  BY <2>1, <2>2
<1>11. HasRoot(after) => HasRoot(g)
  BY <1>8 DEF HasRoot
<1>12. left[m] = 0 => m = g.meta /\ Counted(g) = {f}
  <2> SUFFICES ASSUME left[m] = 0
               PROVE  m = g.meta /\ Counted(g) = {f}
    OBVIOUS
  <2>1. m = g.meta /\ g.depthOf[m] = 1
    BY <1>6, <1>7
  <2>2. Cardinality(Counted(g)) = 1
    BY <1>1, <1>3, <2>1 DEF DepthInv
  <2>3. Counted(g) \ {f} = {}
    BY <1>5, <2>1, <2>2, FS_EmptySet
  <2> QED  BY <1>5, <2>1, <2>3
<1>13. RootInv(after)
  <2>1. HasRoot(after) => left[m] # 0
    BY <1>8, <1>12 DEF HasRoot, Counted
  <2> QED  BY <1>1, <1>8, <1>11, <2>1 DEF RootInv
<1>14. DepthInv(after, cap)
  <2>1. \A e \in after.running : ~e.root => e.meta \in DOMAIN after.depthOf
    BY <1>1, <1>7, <1>8 DEF DepthInv
  <2>2. ASSUME after.meta # 0
        PROVE  /\ after.meta \in DOMAIN after.depthOf
               /\ after.depthOf[after.meta] = Cardinality(Counted(after))
               /\ after.depthOf[after.meta] <= cap
    <3>1. after.meta = g.meta /\ g.meta # 0 /\ g.meta \in D
      BY <1>1, <1>8, <2>2 DEF DepthInv
    <3>2. /\ g.depthOf[g.meta] = Cardinality(Counted(g)) /\ g.depthOf[g.meta] <= cap
      BY <1>1, <3>1 DEF DepthInv
    <3>3. CASE m = g.meta
      <4>1. Counted(after) = Counted(g) \ {f}
        BY <1>8, <3>1 DEF Counted
      <4>2. after.depthOf[after.meta] = g.depthOf[g.meta] - 1
        BY <1>7, <1>8, <3>1, <3>3
      <4>3. after.depthOf[after.meta] = Cardinality(Counted(after))
        BY <1>5, <3>2, <3>3, <4>1, <4>2
      <4>4. after.meta \in DOMAIN after.depthOf
        BY <1>7, <1>8, <3>1
      <4>5. g.depthOf[g.meta] - 1 <= cap
        BY <1>6, <3>2, <3>3
      <4> QED  BY <4>2, <4>3, <4>4, <4>5
    <3>4. CASE m # g.meta
      <4>1. Counted(after) = Counted(g)
        BY <1>8, <3>1, <3>4 DEF Counted
      <4>2. after.depthOf[after.meta] = g.depthOf[g.meta] /\ after.meta \in DOMAIN after.depthOf
        BY <1>7, <1>8, <3>1, <3>4
      <4> QED  BY <3>2, <4>1, <4>2
    <3> QED  BY <3>3, <3>4
  <2>3. ASSUME NEW i \in DOMAIN after.depthOf \ {0, after.meta}, Holders(after, i) # {}
        PROVE  after.depthOf[i] > Cardinality(Holders(after, i))
    <3>1. i \in D /\ i # 0
      BY <1>7, <1>8, <2>3
    <3>2. i # g.meta
      <4> SUFFICES ASSUME i = g.meta
                   PROVE  FALSE
        OBVIOUS
      <4>1. left[m] = 0
        BY <1>8, <2>3
      <4>2. Holders(after, i) = {}
        BY <1>8, <1>12, <4>1 DEF Holders, Counted
      <4> QED  BY <2>3, <4>2
    <3>3. CASE i = m
      <4>1. Holders(after, i) = Holders(g, m) \ {f}
        BY <1>8, <3>3 DEF Holders
      <4>2. g.depthOf[m] > Cardinality(Holders(g, m))
        BY <1>1, <1>3, <3>2, <3>3 DEF DepthInv
      <4>3. after.depthOf[i] = g.depthOf[m] - 1
        BY <1>7, <1>8, <3>3
      <4> QED  BY <1>4, <1>6, <4>1, <4>2, <4>3
    <3>4. CASE i # m
      <4>1. Holders(after, i) = Holders(g, i)
        BY <1>8, <3>4 DEF Holders
      <4>2. after.depthOf[i] = g.depthOf[i]
        BY <1>7, <1>8, <3>1, <3>4
      <4> QED  BY <1>1, <2>3, <3>1, <3>2, <4>1, <4>2 DEF DepthInv
    <3> QED  BY <3>3, <3>4
  <2> QED  BY <2>1, <2>2, <2>3 DEF DepthInv
<1> QED  BY <1>9, <1>10, <1>13, <1>14 DEF GuardInv, after

\* An object nothing refers to may be forgotten.
LEMMA ForgettingKeepsGuard ==
  ASSUME NEW K, NEW cap \in Nat \ {0}, NEW g, GuardInv(g, K, cap)
  PROVE  GuardInv(Kept(g), K, cap)
<1> DEFINE after == Kept(g)
           D == DOMAIN g.depthOf
           E == D \cap Numbers(g)
<1>1. /\ g \in GuardType(K) /\ IsFiniteSet(g.running) /\ KeysAreExact(g) /\ RootInv(g)
      /\ DepthInv(g, cap)
  BY DEF GuardInv
<1>2. D \in SUBSET Nat /\ g.depthOf \in [D -> Nat]
  BY <1>1 DEF GuardType
<1>3. /\ after.running = g.running /\ after.activeKeys = g.activeKeys /\ after.meta = g.meta
      /\ after.depthOf = [n \in E |-> g.depthOf[n]]
      /\ after = [running |-> after.running, activeKeys |-> after.activeKeys,
                  meta |-> after.meta, depthOf |-> after.depthOf]
  BY <1>1 DEF Kept, GuardType
<1> HIDE DEF after
<1>4. after \in GuardType(K)
  <2>1. after.depthOf \in [E -> Nat] /\ E \in SUBSET Nat
    BY <1>2, <1>3
  <2>2. after.depthOf \in UNION {[F -> Nat] : F \in SUBSET Nat}
    BY <2>1
  <2> QED  BY <1>1, <1>3, <2>2 DEF GuardType
<1>5. Counted(after) = Counted(g) /\ \A n : Holders(after, n) = Holders(g, n)
  BY <1>3 DEF Counted, Holders
<1>6. KeysAreExact(after) /\ RootInv(after) /\ IsFiniteSet(after.running)
  BY <1>1, <1>3 DEF KeysAreExact, RootInv, HasRoot
<1>7. DepthInv(after, cap)
  BY <1>1, <1>3, <1>5 DEF DepthInv, Numbers
<1> QED  BY <1>4, <1>6, <1>7 DEF GuardInv, after

\* What the invariant says of the guard an action finds.
LEMMA GuardSays ==
  ASSUME NEW K, NEW cap \in Nat \ {0}, NEW g, GuardInv(g, K, cap)
  PROVE  KeysAreExact(g) /\ DepthIsExact(g, cap) /\ DepthRestarts(g, cap)
<1>1. KeysAreExact(g) /\ RootInv(g) /\ DepthInv(g, cap)
  BY DEF GuardInv
<1>2. DepthIsExact(g, cap)
  <2> SUFFICES ASSUME HasRoot(g)
               PROVE  DepthIn(g) = Cardinality(g.running) /\ Cardinality(g.running) <= cap
    BY DEF DepthIsExact
  <2>1. Counted(g) = g.running /\ g.meta # 0
    BY <1>1 DEF RootInv, Counted
  <2> QED  BY <1>1, <2>1 DEF DepthInv, DepthIn
<1>3. DepthRestarts(g, cap)
  <2> DEFINE C == {f \in Counted(g) : g.meta # 0}
  <2>1. CASE g.meta = 0
    <3>1. C = {}
      BY <2>1
    <3>2. Cardinality(C) = 0
      BY <3>1, FS_EmptySet
    <3> QED  BY <2>1, <3>2 DEF DepthIn, DepthRestarts
  <2>2. CASE g.meta # 0
    <3>1. C = Counted(g)
      BY <2>2
    <3>2. DepthIn(g) = Cardinality(C) /\ DepthIn(g) <= cap
      BY <1>1, <2>2, <3>1 DEF DepthInv, DepthIn
    <3> QED  BY <3>2 DEF DepthRestarts
  <2> QED  BY <2>1, <2>2
<1> QED  BY <1>1, <1>2, <1>3

\* Whatever actions begin and end in the context of an outermost one, before and
\* after its end, under any cap: no key runs twice at a time; the depth is the
\* number of actions that run until the outermost one ends, and the cap holds;
\* afterwards the depth is that of the actions begun since (withActionRecursionGuard).
THEOREM Guarded ==
  ASSUME NEW K, NEW key \in K, NEW cap \in Nat \ {0}, NEW guards,
         guards[0] = Root(key),
         \A n \in Nat : guards[n + 1] \in NextGuards(guards[n], K, cap) \cup {guards[n]}
  PROVE  \A n \in Nat : /\ KeysAreExact(guards[n])
                        /\ DepthIsExact(guards[n], cap)
                        /\ DepthRestarts(guards[n], cap)
<1> DEFINE S == {n \in Nat : GuardInv(guards[n], K, cap)}
<1>1. 0 \in S
  BY GuardInit
<1>2. ASSUME NEW n \in Nat, n \in S
      PROVE  n + 1 \in S
  <2> DEFINE g == guards[n]
             after == guards[n + 1]
  <2>1. GuardInv(g, K, cap)
    BY <1>2
  <2>2. CASE after = g
    BY <2>1, <2>2
  <2>3. ASSUME NEW k \in K, ~Skipped(g, k, cap), after = Kept(Enter(g, k))
        PROVE  GuardInv(after, K, cap)
    BY <2>1, <2>3, EnterKeepsGuard, ForgettingKeepsGuard
  <2>4. ASSUME NEW f \in g.running, after = Kept(Leave(g, f))
        PROVE  GuardInv(after, K, cap)
    <3>1. GuardInv(Leave(g, f), K, cap)
      BY <2>1, RootLeaves, NestedLeaves
    <3> QED  BY <2>4, <3>1, ForgettingKeepsGuard
  <2>5. \/ after = g
        \/ \E k \in K : ~Skipped(g, k, cap) /\ after = Kept(Enter(g, k))
        \/ \E f \in g.running : after = Kept(Leave(g, f))
    BY DEF NextGuards
  <2>6. GuardInv(after, K, cap)
    <3> HIDE DEF g, after
    <3> QED  BY <2>1, <2>2, <2>3, <2>4, <2>5
  <2> QED  BY <2>6
<1>3. Nat \subseteq S
  <2> HIDE DEF S
  <2> QED  BY <1>1, <1>2, Induction
<1>4. \A n \in Nat : GuardInv(guards[n], K, cap)
  BY <1>3
<1> QED  BY <1>4, GuardSays

-----------------------------------------------------------------------------
(* What is kept of an output.                                               *)

Byte == 0 .. Bad

OneByteOf == 0 .. 4

\* A set of numbers with a bound has a largest member.
LEMMA LargestUpTo ==
  ASSUME NEW n \in Nat, NEW S \in SUBSET (0 .. n), S # {}
  PROVE  Max(S) \in S /\ \A i \in S : i <= Max(S)
<1> DEFINE T == {n - i : i \in S}
<1>1. PICK t \in T : \A u \in T : t <= u
  <2>1. \A i \in S : i \in 0 .. n /\ n - i \in Nat
    OBVIOUS
  <2>2. T \in SUBSET Nat /\ T # {}
    BY <2>1
  <2> HIDE DEF T
  <2> QED  BY <2>2, LeastNumber
<1>2. PICK x \in S : t = n - x
  BY <1>1
<1>3. \A i \in S : x >= i
  <2> SUFFICES ASSUME NEW i \in S
               PROVE  x >= i
    OBVIOUS
  <2>1. n - x <= n - i
    BY <1>1, <1>2
  <2> QED  BY <2>1
<1>4. \E y \in S : \A i \in S : y >= i
  BY <1>3
<1>5. Max(S) \in S /\ \A i \in S : Max(S) >= i
  <2> DEFINE y == CHOOSE z \in S : \A i \in S : z >= i
  <2>1. y \in S /\ \A i \in S : y >= i
    BY <1>4
  <2> QED  BY <2>1 DEF Max
<1> QED  BY <1>5

LEMMA LargestOf ==
  ASSUME NEW n \in Nat, NEW S \in SUBSET (1 .. n), S # {}
  PROVE  Max(S) \in S /\ \A i \in S : i <= Max(S)
<1>1. S \in SUBSET (0 .. n)
  OBVIOUS
<1> QED  BY <1>1, LargestUpTo

\* The room is the limit where the chunk is longer.
LEMMA LimitOf ==
  ASSUME NEW s \in Nat, NEW b \in Nat
  PROVE  Min({s, b}) = IF s <= b THEN s ELSE b
<1> DEFINE m == IF s <= b THEN s ELSE b
           y == CHOOSE z \in {s, b} : \A i \in {s, b} : z <= i
<1>1. m \in {s, b} /\ \A i \in {s, b} : m <= i
  OBVIOUS
<1>2. y \in {s, b} /\ \A i \in {s, b} : y <= i
  BY <1>1
<1>3. y = m
  BY <1>1, <1>2
<1> QED  BY <1>3 DEF Min

\* What is kept of a chunk fits and is part of it, whatever its bytes are.
LEMMA CutFits ==
  ASSUME NEW chunk \in Seq(Byte), NEW room \in Nat
  PROVE  TrimToBoundary(chunk, room) \in 0 .. room /\ TrimToBoundary(chunk, room) <= Len(chunk)
<1> DEFINE limit == Min({room, Len(chunk)})
           firsts == {i \in 1 .. limit : chunk[i] # 0}
           last == Max(firsts)
           cut == TrimToBoundary(chunk, room)
<1>1. limit \in Nat /\ limit <= room /\ limit <= Len(chunk)
  <2>1. Len(chunk) \in Nat
    OBVIOUS
  <2> QED  BY <2>1, LimitOf
<1>2. cut = IF limit <= 0 \/ firsts = {} THEN 0
            ELSE IF chunk[last] # Bad /\ last - 1 + chunk[last] <= limit
            THEN last - 1 + chunk[last] ELSE last - 1
  BY DEF TrimToBoundary
<1> HIDE DEF limit, cut
<1>3. CASE limit <= 0 \/ firsts = {}
  <2>1. cut = 0
    BY <1>2, <1>3
  <2>2. Len(chunk) \in Nat
    OBVIOUS
  <2> QED  BY <2>1, <2>2 DEF cut
<1>4. CASE ~(limit <= 0 \/ firsts = {})
  <2>1. last \in firsts
    <3>1. firsts \in SUBSET (1 .. limit) /\ firsts # {}
      BY <1>4
    <3> HIDE DEF firsts
    <3> QED  BY <1>1, <3>1, LargestOf
  <2>2. last \in 1 .. limit /\ chunk[last] \in Nat
    <3>1. last \in 1 .. limit
      BY <2>1
    <3>2. \A i \in 1 .. Len(chunk) : chunk[i] \in Byte
      OBVIOUS
    <3> HIDE DEF last
    <3> QED  BY <1>1, <3>1, <3>2 DEF Byte, Bad
  <2> HIDE DEF last
  <2>3. cut = last - 1 \/ (cut = last - 1 + chunk[last] /\ cut <= limit)
    BY <1>2, <1>4
  <2>4. Len(chunk) \in Nat
    OBVIOUS
  <2> HIDE DEF firsts
  <2>5. cut \in 0 .. limit
    BY <1>1, <2>2, <2>3
  <2> QED  BY <1>1, <2>4, <2>5 DEF cut
<1> QED  BY <1>3, <1>4 DEF cut

\* A text cut where it is longer than the room is a text, and less than a
\* character's room is left.
LEMMA CutText ==
  ASSUME NEW chunk \in Seq(OneByteOf), IsText(chunk), NEW room \in Nat, room < Len(chunk)
  PROVE  LET cut == TrimToBoundary(chunk, room)
         IN  cut \in 0 .. room /\ cut > room - 4 /\ IsText(SubSeq(chunk, 1, cut))
<1> DEFINE firsts == {i \in 1 .. room : chunk[i] # 0}
           last == Max(firsts)
           cut == TrimToBoundary(chunk, room)
           kept == SubSeq(chunk, 1, cut)
           n == Len(chunk)
<1>1. /\ n \in Nat /\ \A i \in 1 .. n : chunk[i] \in 0 .. 4
      /\ \A i \in 1 .. n : chunk[i] # 0 =>
            /\ i - 1 + chunk[i] <= n
            /\ \A j \in i + 1 .. i - 1 + chunk[i] : chunk[j] = 0
      /\ \A j \in 1 .. n : chunk[j] = 0 =>
            \E i \in 1 .. j - 1 : chunk[i] # 0 /\ j <= i - 1 + chunk[i]
  BY DEF IsText, Whole, OneByteOf
<1>2. Min({room, n}) = room
  BY <1>1, LimitOf
<1>3. cut = IF room <= 0 \/ firsts = {} THEN 0
            ELSE IF chunk[last] # Bad /\ last - 1 + chunk[last] <= room
            THEN last - 1 + chunk[last] ELSE last - 1
  BY <1>2 DEF TrimToBoundary
<1>4. ASSUME NEW c \in 0 .. room,
             \A i \in 1 .. c : chunk[i] # 0 => i - 1 + chunk[i] <= c
      PROVE  IsText(SubSeq(chunk, 1, c))
  <2> DEFINE k == SubSeq(chunk, 1, c)
  <2>1. Len(k) = c /\ DOMAIN k = 1 .. c /\ \A i \in 1 .. c : k[i] = chunk[i]
    BY <1>1
  <2> HIDE DEF k
  <2>2. Whole(k)
    <3> SUFFICES ASSUME NEW i \in 1 .. c, k[i] # 0
                 PROVE  /\ i - 1 + k[i] <= c
                        /\ \A j \in i + 1 .. i - 1 + k[i] : k[j] = 0
      BY <2>1 DEF Whole
    <3>1. i \in 1 .. n /\ k[i] = chunk[i] /\ chunk[i] \in 0 .. 4 /\ i - 1 + chunk[i] <= c
      BY <1>1, <1>4, <2>1
    <3>2. ASSUME NEW j \in i + 1 .. i - 1 + k[i]
          PROVE  k[j] = 0
      <4>1. j \in 1 .. c
        BY <3>1
      <4> QED  BY <1>1, <2>1, <3>1, <4>1
    <3> QED  BY <3>1, <3>2
  <2>3. ASSUME NEW j \in 1 .. c, k[j] = 0
        PROVE  \E i \in 1 .. j - 1 : k[i] # 0 /\ j <= i - 1 + k[i]
    <3>1. PICK i \in 1 .. j - 1 : chunk[i] # 0 /\ j <= i - 1 + chunk[i]
      BY <1>1, <2>1, <2>3
    <3>2. i \in 1 .. c
      OBVIOUS
    <3> QED  BY <2>1, <3>1, <3>2
  <2> QED  BY <2>1, <2>2, <2>3 DEF IsText, k
<1> HIDE DEF cut
<1>5. CASE room = 0
  <2>1. cut = 0
    BY <1>3, <1>5
  <2> QED  BY <1>4, <1>5, <2>1 DEF cut
<1>6. CASE room > 0
  <2>1. 1 \in firsts
    <3>1. chunk[1] # 0
      BY <1>1
    <3> QED  BY <1>6, <3>1
  <2>2. last \in firsts /\ \A i \in firsts : i <= last
    <3>1. firsts \in SUBSET (1 .. room)
      OBVIOUS
    <3> HIDE DEF firsts
    <3> QED  BY <2>1, <3>1, LargestOf
  <2>3. last \in 1 .. room /\ chunk[last] \in 1 .. 4 /\ \A i \in 1 .. room : i > last => chunk[i] = 0
    <3>1. last \in 1 .. room /\ chunk[last] # 0
      BY <2>2
    <3>2. \A i \in 1 .. room : chunk[i] # 0 => i <= last
      BY <2>2
    <3> HIDE DEF last
    <3> QED  BY <1>1, <3>1, <3>2
  <2>4. cut = IF last - 1 + chunk[last] <= room THEN last - 1 + chunk[last] ELSE last - 1
    BY <1>3, <1>6, <2>1, <2>3 DEF Bad
  <2> HIDE DEF last, firsts
  <2>5. ASSUME NEW i \in 1 .. last - 1, chunk[i] # 0
        PROVE  i - 1 + chunk[i] < last
    <3>1. \A j \in i + 1 .. i - 1 + chunk[i] : chunk[j] = 0
      BY <1>1, <2>3, <2>5
    <3>2. chunk[i] \in 0 .. 4
      BY <1>1, <2>3
    <3> QED  BY <2>3, <3>1, <3>2
  <2>6. CASE last - 1 + chunk[last] <= room
    <3>1. cut = last - 1 + chunk[last] /\ cut \in 1 .. room
      BY <2>3, <2>4, <2>6
    <3>2. cut = room
      <4> SUFFICES ASSUME cut + 1 \in 1 .. room
                   PROVE  FALSE
        BY <3>1
      <4>1. chunk[cut + 1] = 0
        BY <2>3, <3>1
      <4>2. PICK i \in 1 .. cut : chunk[i] # 0 /\ cut + 1 <= i - 1 + chunk[i]
        <5>1. cut + 1 \in 1 .. n /\ (cut + 1) - 1 = cut
          BY <1>1, <3>1
        <5>2. \E i \in 1 .. (cut + 1) - 1 : chunk[i] # 0 /\ cut + 1 <= i - 1 + chunk[i]
          BY <1>1, <4>1, <5>1
        <5> QED  BY <5>1, <5>2
      <4>3. chunk[i] \in 0 .. 4
        BY <1>1, <3>1
      <4>4. CASE i < last
        <5>1. i \in 1 .. last - 1
          BY <2>3, <3>1, <4>4
        <5>2. i - 1 + chunk[i] < last
          BY <2>5, <4>2, <5>1
        <5>3. last <= cut
          BY <2>3, <3>1
        <5> QED  BY <2>3, <3>1, <4>2, <4>3, <5>2, <5>3
      <4>5. CASE i = last
        BY <2>3, <3>1, <4>2, <4>5
      <4>6. CASE i > last
        BY <2>3, <3>1, <4>2, <4>6
      <4> QED  BY <2>3, <4>4, <4>5, <4>6
    <3>3. ASSUME NEW i \in 1 .. cut, chunk[i] # 0
          PROVE  i - 1 + chunk[i] <= cut
      <4>1. chunk[i] \in 0 .. 4 /\ i <= last
        BY <1>1, <2>3, <3>1, <3>3
      <4>2. CASE i < last
        BY <2>3, <2>5, <3>1, <3>3, <4>1, <4>2
      <4>3. CASE i = last
        BY <3>1, <4>3
      <4> QED  BY <2>3, <4>1, <4>2, <4>3
    <3>4. IsText(SubSeq(chunk, 1, cut))
      BY <1>4, <3>1, <3>3
    <3> QED  BY <3>1, <3>2, <3>4 DEF cut
  <2>7. CASE ~(last - 1 + chunk[last] <= room)
    <3>1. cut = last - 1 /\ cut \in 0 .. room /\ cut > room - 4
      BY <2>3, <2>4, <2>7
    <3>2. \A i \in 1 .. cut : chunk[i] # 0 => i - 1 + chunk[i] <= cut
      <4> SUFFICES ASSUME NEW i \in 1 .. cut, chunk[i] # 0
                   PROVE  i - 1 + chunk[i] <= cut
        OBVIOUS
      <4>1. chunk[i] \in 0 .. 4
        BY <1>1, <2>3, <3>1
      <4> QED  BY <2>3, <2>5, <3>1, <4>1
    <3>3. IsText(SubSeq(chunk, 1, cut))
      BY <1>4, <3>1, <3>2
    <3> QED  BY <3>1, <3>3 DEF cut
  <2> QED  BY <2>6, <2>7
<1> QED  BY <1>5, <1>6

\* A text after a text is a text.
LEMMA TextAfterText ==
  ASSUME NEW s \in Seq(OneByteOf), NEW b \in Seq(OneByteOf), IsText(s), IsText(b)
  PROVE  IsText(s \o b)
<1> DEFINE c == s \o b
           m == Len(s)
           n == Len(b)
<1>1. /\ m \in Nat /\ n \in Nat /\ Len(c) = m + n /\ DOMAIN c = 1 .. m + n
      /\ \A i \in 1 .. m : c[i] = s[i]
      /\ \A i \in 1 .. n : c[m + i] = b[i]
  OBVIOUS
<1>2. /\ \A i \in 1 .. m : s[i] \in 0 .. 4
      /\ \A i \in 1 .. m : s[i] # 0 =>
            i - 1 + s[i] <= m /\ \A j \in i + 1 .. i - 1 + s[i] : s[j] = 0
      /\ \A j \in 1 .. m : s[j] = 0 => \E i \in 1 .. j - 1 : s[i] # 0 /\ j <= i - 1 + s[i]
  BY DEF IsText, Whole, OneByteOf
<1>3. /\ \A i \in 1 .. n : b[i] \in 0 .. 4
      /\ \A i \in 1 .. n : b[i] # 0 =>
            i - 1 + b[i] <= n /\ \A j \in i + 1 .. i - 1 + b[i] : b[j] = 0
      /\ \A j \in 1 .. n : b[j] = 0 => \E i \in 1 .. j - 1 : b[i] # 0 /\ j <= i - 1 + b[i]
  BY DEF IsText, Whole, OneByteOf
<1> HIDE DEF c, m, n
<1>4. ASSUME NEW i \in 1 .. m + n, c[i] # 0
      PROVE  i - 1 + c[i] <= m + n /\ \A j \in i + 1 .. i - 1 + c[i] : c[j] = 0
  <2>1. CASE i \in 1 .. m
    <3>1. c[i] = s[i] /\ s[i] \in 0 .. 4 /\ i - 1 + s[i] <= m
      BY <1>1, <1>2, <1>4, <2>1
    <3>2. ASSUME NEW j \in i + 1 .. i - 1 + c[i]
          PROVE  c[j] = 0
      <4>1. j \in 1 .. m /\ j \in i + 1 .. i - 1 + s[i]
        BY <1>1, <2>1, <3>1
      <4> QED  BY <1>1, <1>2, <1>4, <2>1, <3>1, <4>1
    <3> QED  BY <1>1, <3>1, <3>2
  <2>2. CASE i \notin 1 .. m
    <3> DEFINE k == i - m
    <3>1. k \in 1 .. n /\ m + k = i
      BY <1>1, <2>2
    <3> HIDE DEF k
    <3>2. c[i] = b[k] /\ b[k] \in 0 .. 4 /\ k - 1 + b[k] <= n
      BY <1>1, <1>3, <1>4, <3>1
    <3>3. ASSUME NEW j \in i + 1 .. i - 1 + c[i]
          PROVE  c[j] = 0
      <4>1. PICK l \in Nat : j = m + l
        <5>1. j \in Int /\ j >= m + k + 1
          BY <1>1, <3>1, <3>2
        <5>2. j - m \in Nat /\ j = m + (j - m)
          BY <1>1, <3>1, <5>1
        <5> QED  BY <5>2
      <4>2. j <= i - 1 + b[k] /\ i + 1 <= j
        BY <1>1, <3>1, <3>2
      <4>3. l \in 1 .. n /\ l \in k + 1 .. k - 1 + b[k]
        <5> DEFINE x == b[k]
        <5>1. /\ x \in Int /\ k - 1 + x <= n
              /\ m + l <= (m + k) - 1 + x /\ (m + k) + 1 <= m + l
          BY <3>1, <3>2, <4>1, <4>2
        <5> HIDE DEF x
        <5>2. l <= k - 1 + x /\ k + 1 <= l /\ l <= n
          BY <1>1, <3>1, <5>1
        <5>3. l \in 1 .. n /\ l \in k + 1 .. k - 1 + x
          BY <1>1, <3>1, <4>1, <5>1, <5>2
        <5> QED  BY <5>3 DEF x
      <4>4. b[l] = 0
        BY <1>3, <1>4, <3>1, <3>2, <4>3
      <4> QED  BY <1>1, <4>1, <4>3, <4>4
    <3> QED  BY <1>1, <3>1, <3>2, <3>3
  <2> QED  BY <2>1, <2>2
<1>5. ASSUME NEW j \in 1 .. m + n, c[j] = 0
      PROVE  \E i \in 1 .. j - 1 : c[i] # 0 /\ j <= i - 1 + c[i]
  <2>1. CASE j \in 1 .. m
    <3>1. PICK i \in 1 .. j - 1 : s[i] # 0 /\ j <= i - 1 + s[i]
      BY <1>1, <1>2, <1>5, <2>1
    <3>2. c[i] = s[i]
      BY <1>1, <2>1
    <3> QED  BY <3>1, <3>2
  <2>2. CASE j \notin 1 .. m
    <3> DEFINE k == j - m
    <3>1. k \in 1 .. n /\ m + k = j
      BY <1>1, <2>2
    <3> HIDE DEF k
    <3>2. PICK i \in 1 .. k - 1 : b[i] # 0 /\ k <= i - 1 + b[i]
      BY <1>1, <1>3, <1>5, <3>1
    <3>3. i \in 1 .. n /\ b[i] \in 0 .. 4
      BY <1>1, <1>3, <3>1
    <3>4. m + i \in 1 .. j - 1 /\ c[m + i] = b[i]
      <4>1. c[m + i] = b[i]
        BY <1>1, <3>3
      <4>2. i \in Nat /\ 1 <= i /\ i <= k - 1
        BY <3>1, <3>3
      <4>3. 1 <= m + i /\ m + i <= j - 1 /\ m + i \in Int
        BY <1>1, <3>1, <4>2
      <4> QED  BY <1>1, <3>1, <4>1, <4>3
    <3>5. j <= (m + i) - 1 + c[m + i]
      <4>1. k <= i - 1 + b[i] /\ j = m + k /\ b[i] \in Nat /\ c[m + i] = b[i]
        BY <3>1, <3>2, <3>3, <3>4
      <4> DEFINE x == b[i]
      <4>2. x \in Nat /\ c[m + i] = x /\ k <= i - 1 + x /\ j = m + k
        BY <4>1
      <4>3. i \in Nat
        BY <3>3
      <4> HIDE DEF x
      <4>4. m + k <= (m + i) - 1 + x
        BY <1>1, <3>1, <4>2, <4>3
      <4> QED  BY <4>2, <4>4
    <3> QED  BY <3>2, <3>4, <3>5
  <2> QED  BY <2>1, <2>2
<1>6. Whole(c)
  BY <1>1, <1>4 DEF Whole
<1>7. IsText(c)
  BY <1>1, <1>5, <1>6 DEF IsText
<1> QED  BY <1>7 DEF c

\* A process writes its output in chunks: written is all of it, buffer what is
\* kept of it so far.
Buffers(buffer, written, chunks, cap) ==
    /\ buffer[0] = [kept |-> <<>>, truncated |-> FALSE] /\ written[0] = <<>>
    /\ \A n \in Nat : /\ buffer[n + 1] = AppendOutput(buffer[n], chunks[n], cap)
                      /\ written[n + 1] = written[n] \o chunks[n]

\* What is kept begins what was written, is all of it unless truncated, and fits.
Begins(r, w, cap) ==
    /\ r \in [kept : Seq(Byte), truncated : BOOLEAN] /\ w \in Seq(Byte)
    /\ Len(r.kept) <= cap /\ IsPrefix(r.kept, w)
    /\ ~r.truncated => r.kept = w

\* It is a text, and less than a character is wasted.
KeepsText(r, cap) ==
    /\ r.kept \in Seq(OneByteOf) /\ IsText(r.kept)
    /\ r.truncated => Len(r.kept) > cap - 4

\* A prefix stays one when something is added to the whole.
LEMMA PrefixOfMore ==
  ASSUME NEW s \in Seq(Byte), NEW w \in Seq(Byte), NEW b \in Seq(Byte), IsPrefix(s, w)
  PROVE  IsPrefix(s, w \o b)
<1>1. Len(s) <= Len(w) /\ \A i \in 1 .. Len(s) : s[i] = w[i]
  <2>1. Len(s) <= Len(w) /\ SubSeq(s, 1, Len(s)) = SubSeq(w, 1, Len(s))
    BY DEF IsPrefix
  <2>2. \A i \in 1 .. Len(s) : SubSeq(s, 1, Len(s))[i] = s[i] /\ SubSeq(w, 1, Len(s))[i] = w[i]
    BY <2>1
  <2> QED  BY <2>1, <2>2
<1>2. /\ Len(w \o b) = Len(w) + Len(b) /\ w \o b \in Seq(Byte)
      /\ \A i \in 1 .. Len(w) : (w \o b)[i] = w[i]
  OBVIOUS
<1> DEFINE x == SubSeq(s, 1, Len(s))
           y == SubSeq(w \o b, 1, Len(s))
<1>3. x \in Seq(Byte) /\ y \in Seq(Byte) /\ Len(x) = Len(s) /\ Len(y) = Len(s)
  BY <1>1, <1>2
<1>4. \A i \in 1 .. Len(s) : x[i] = y[i]
  BY <1>1, <1>2
<1>5. x = y
  <2> HIDE DEF x, y
  <2> QED  BY <1>3, <1>4, SeqEqual
<1> QED  BY <1>1, <1>2, <1>5 DEF IsPrefix

\* The beginning of a sequence after another begins both.
LEMMA PrefixOfBoth ==
  ASSUME NEW s \in Seq(Byte), NEW b \in Seq(Byte), NEW c \in 0 .. Len(b)
  PROVE  IsPrefix(s \o SubSeq(b, 1, c), s \o b)
<1> DEFINE k == SubSeq(b, 1, c)
           x == SubSeq(s \o k, 1, Len(s \o k))
           y == SubSeq(s \o b, 1, Len(s \o k))
<1>1. k \in Seq(Byte) /\ Len(k) = c /\ \A i \in 1 .. c : k[i] = b[i]
  OBVIOUS
<1> HIDE DEF k
<1>2. Len(s \o k) = Len(s) + c /\ Len(s \o b) = Len(s) + Len(b)
  BY <1>1
<1>3. s \o k \in Seq(Byte) /\ s \o b \in Seq(Byte)
  BY <1>1
<1>4. \A i \in 1 .. Len(s) + c : (s \o k)[i] = (s \o b)[i]
  BY <1>1
<1>5. x \in Seq(Byte) /\ y \in Seq(Byte) /\ Len(x) = Len(s) + c /\ Len(y) = Len(s) + c
  BY <1>1, <1>2, <1>3
<1>6. \A i \in 1 .. Len(s) + c : x[i] = y[i]
  BY <1>2, <1>3, <1>4
<1>7. x = y
  <2> HIDE DEF x, y
  <2> QED  BY <1>5, <1>6, SeqEqual
<1> QED  BY <1>2, <1>7 DEF IsPrefix, k

\* A chunk leaves the buffer as it should be.
LEMMA AppendFits ==
  ASSUME NEW cap \in Nat, NEW r, NEW w, Begins(r, w, cap), NEW chunk \in Seq(Byte)
  PROVE  Begins(AppendOutput(r, chunk, cap), w \o chunk, cap)
<1> DEFINE after == AppendOutput(r, chunk, cap)
<1>1. /\ r \in [kept : Seq(Byte), truncated : BOOLEAN] /\ w \in Seq(Byte)
      /\ Len(r.kept) <= cap /\ IsPrefix(r.kept, w) /\ (~r.truncated => r.kept = w)
  BY DEF Begins
<1>2. w \o chunk \in Seq(Byte) /\ r.kept \in Seq(Byte) /\ Len(r.kept) \in Nat /\ Len(chunk) \in Nat
  BY <1>1
<1>3. CASE r.truncated
  <2>1. after = r
    BY <1>3 DEF AppendOutput
  <2>2. IsPrefix(r.kept, w \o chunk)
    BY <1>1, <1>2, PrefixOfMore
  <2> QED  BY <1>1, <1>2, <1>3, <2>1, <2>2 DEF Begins
<1>4. CASE ~r.truncated /\ Len(r.kept) + Len(chunk) <= cap
  <2>1. after = [r EXCEPT !.kept = @ \o chunk]
    BY <1>4 DEF AppendOutput
  <2>2. after.kept = w \o chunk /\ after \in [kept : Seq(Byte), truncated : BOOLEAN]
    BY <1>1, <1>2, <1>4, <2>1
  <2>3. Len(after.kept) <= cap
    BY <1>1, <1>2, <1>4, <2>2
  <2>4. IsPrefix(after.kept, w \o chunk)
    <3> HIDE DEF after
    <3> QED  BY <2>2, <1>2 DEF IsPrefix
  <2> HIDE DEF after
  <2> QED  BY <1>2, <2>2, <2>3, <2>4 DEF Begins, after
<1>5. CASE ~r.truncated /\ ~(Len(r.kept) + Len(chunk) <= cap)
  <2> DEFINE c == TrimToBoundary(chunk, cap - Len(r.kept))
             k == SubSeq(chunk, 1, c)
  <2>1. c \in 0 .. cap - Len(r.kept) /\ c <= Len(chunk)
    <3>1. cap - Len(r.kept) \in Nat
      BY <1>1, <1>2
    <3> QED  BY <3>1, CutFits
  <2>2. after = [kept |-> r.kept \o k, truncated |-> TRUE]
    BY <1>5 DEF AppendOutput
  <2> HIDE DEF c
  <2>3. k \in Seq(Byte) /\ Len(k) = c
    BY <1>2, <2>1
  <2>4. after.kept \in Seq(Byte) /\ Len(after.kept) <= cap
    <3> HIDE DEF k
    <3>1. Len(r.kept \o k) = Len(r.kept) + c /\ r.kept \o k \in Seq(Byte)
      BY <1>2, <2>3, ConcatProperties
    <3> QED  BY <1>2, <2>1, <2>2, <3>1
  <2>5. IsPrefix(after.kept, w \o chunk)
    <3>1. c \in 0 .. Len(chunk)
      BY <1>2, <2>1
    <3> QED  BY <1>1, <1>2, <1>5, <2>2, <3>1, PrefixOfBoth
  <2>6. after \in [kept : Seq(Byte), truncated : BOOLEAN] /\ after.truncated
    BY <2>2, <2>4
  <2> HIDE DEF after
  <2> QED  BY <1>2, <2>4, <2>5, <2>6 DEF Begins, after
<1> QED  BY <1>3, <1>4, <1>5

LEMMA AppendKeepsText ==
  ASSUME NEW cap \in Nat, NEW r, NEW w, Begins(r, w, cap), KeepsText(r, cap),
         NEW chunk \in Seq(OneByteOf), IsText(chunk)
  PROVE  KeepsText(AppendOutput(r, chunk, cap), cap)
<1> DEFINE after == AppendOutput(r, chunk, cap)
<1>1. /\ r \in [kept : Seq(Byte), truncated : BOOLEAN] /\ Len(r.kept) <= cap
      /\ r.kept \in Seq(OneByteOf) /\ IsText(r.kept)
      /\ r.truncated => Len(r.kept) > cap - 4
  BY DEF Begins, KeepsText
<1>2. Len(r.kept) \in Nat /\ Len(chunk) \in Nat
  BY <1>1
<1>3. CASE r.truncated
  <2>1. after = r
    BY <1>3 DEF AppendOutput
  <2> QED  BY <2>1
<1>4. CASE ~r.truncated /\ Len(r.kept) + Len(chunk) <= cap
  <2>1. after = [r EXCEPT !.kept = @ \o chunk]
    BY <1>4 DEF AppendOutput
  <2>2. after.kept = r.kept \o chunk /\ ~after.truncated
    BY <1>1, <1>4, <2>1
  <2>3. IsText(r.kept \o chunk) /\ r.kept \o chunk \in Seq(OneByteOf)
    BY <1>1, TextAfterText
  <2> HIDE DEF after
  <2> QED  BY <2>2, <2>3 DEF KeepsText, after
<1>5. CASE ~r.truncated /\ ~(Len(r.kept) + Len(chunk) <= cap)
  <2> DEFINE room == cap - Len(r.kept)
             c == TrimToBoundary(chunk, room)
             k == SubSeq(chunk, 1, c)
  <2>1. after = [kept |-> r.kept \o k, truncated |-> TRUE]
    BY <1>5 DEF AppendOutput
  <2>2. room \in Nat /\ room < Len(chunk) /\ cap = Len(r.kept) + room
    BY <1>1, <1>2, <1>5
  <2> HIDE DEF room
  <2>3. c \in 0 .. room /\ c > room - 4 /\ IsText(k)
    BY <2>2, CutText
  <2> HIDE DEF c
  <2>4. k \in Seq(OneByteOf) /\ Len(k) = c
    BY <1>2, <2>2, <2>3
  <2> HIDE DEF k
  <2>5. IsText(r.kept \o k) /\ r.kept \o k \in Seq(OneByteOf)
    BY <1>1, <2>3, <2>4, TextAfterText
  <2>6. Len(r.kept \o k) = Len(r.kept) + c
    <3> DEFINE q == r.kept
    <3>1. q \in Seq(OneByteOf)
      BY <1>1
    <3> HIDE DEF q
    <3>2. Len(q \o k) = Len(q) + c
      BY <2>4, <3>1, ConcatProperties
    <3> QED  BY <3>2 DEF q
  <2>7. Len(r.kept \o k) > cap - 4
    BY <1>2, <2>2, <2>3, <2>6
  <2>8. after.kept = r.kept \o k
    BY <2>1
  <2> HIDE DEF after
  <2> QED  BY <2>5, <2>7, <2>8 DEF KeepsText, after
<1> QED  BY <1>3, <1>4, <1>5

\* Whatever a process writes, in chunks of any bytes: what is kept of it never
\* passes the cap, and is its beginning, all of it unless it is said to be
\* truncated (CappedOutputBuffer.append).
THEOREM OutputIsCapped ==
  ASSUME NEW cap \in Nat, NEW buffer, NEW written, NEW chunks,
         Buffers(buffer, written, chunks, cap),
         \A n \in Nat : chunks[n] \in Seq(Byte)
  PROVE  \A n \in Nat : Begins(buffer[n], written[n], cap)
<1> DEFINE S == {n \in Nat : Begins(buffer[n], written[n], cap)}
<1>1. 0 \in S
  <2>1. Begins([kept |-> <<>>, truncated |-> FALSE], <<>>, cap)
    BY DEF Begins, IsPrefix
  <2> QED  BY <2>1 DEF Buffers
<1>2. ASSUME NEW n \in Nat, n \in S
      PROVE  n + 1 \in S
  <2>1. Begins(AppendOutput(buffer[n], chunks[n], cap), written[n] \o chunks[n], cap)
    BY <1>2, AppendFits
  <2>2. /\ buffer[n + 1] = AppendOutput(buffer[n], chunks[n], cap)
        /\ written[n + 1] = written[n] \o chunks[n]
    BY DEF Buffers
  <2>3. Begins(buffer[n + 1], written[n + 1], cap)
    BY <2>1, <2>2
  <2> QED  BY <2>3
<1>3. Nat \subseteq S
  <2> HIDE DEF S
  <2> QED  BY <1>1, <1>2, Induction
<1> QED  BY <1>3

\* If every chunk ends with a character, no character is cut, and a truncated
\* output wastes less than one character of the cap (trimToUtf8Boundary).
THEOREM TextStaysText ==
  ASSUME NEW cap \in Nat, NEW buffer, NEW written, NEW chunks,
         Buffers(buffer, written, chunks, cap),
         \A n \in Nat : chunks[n] \in Seq(OneByteOf) /\ IsText(chunks[n])
  PROVE  \A n \in Nat : KeepsText(buffer[n], cap)
<1> DEFINE S == {n \in Nat : KeepsText(buffer[n], cap)}
<1>1. OneByteOf \subseteq Byte /\ \A n \in Nat : chunks[n] \in Seq(Byte)
  <2>1. OneByteOf \subseteq Byte
    BY DEF OneByteOf, Byte, Bad
  <2> QED  BY <2>1
<1>2. \A n \in Nat : Begins(buffer[n], written[n], cap)
  BY <1>1, OutputIsCapped
<1>3. 0 \in S
  <2>1. KeepsText([kept |-> <<>>, truncated |-> FALSE], cap)
    BY DEF KeepsText, IsText, Whole
  <2> QED  BY <2>1 DEF Buffers
<1>4. ASSUME NEW n \in Nat, n \in S
      PROVE  n + 1 \in S
  <2>1. KeepsText(AppendOutput(buffer[n], chunks[n], cap), cap)
    BY <1>2, <1>4, AppendKeepsText
  <2>2. buffer[n + 1] = AppendOutput(buffer[n], chunks[n], cap)
    BY DEF Buffers
  <2>3. KeepsText(buffer[n + 1], cap)
    BY <2>1, <2>2
  <2> QED  BY <2>3
<1>5. Nat \subseteq S
  <2> HIDE DEF S
  <2> QED  BY <1>3, <1>4, Induction
<1> QED  BY <1>5

------------------------------------------------------------------------------

(* Under which name conditions see a file.                                  *)

HIDE DEF BashProcessAssumption, HookRunAssumption

\* The smaller of two numbers.
LEMMA LeastOfTwo ==
  ASSUME NEW j \in Nat, NEW k \in Nat
  PROVE  Min({j, k}) = IF j <= k THEN j ELSE k
<1> DEFINE m == CHOOSE x \in {j, k} : \A y \in {j, k} : x =< y
<1>1. \E x \in {j, k} : \A y \in {j, k} : x =< y
  OBVIOUS
<1>2. m \in {j, k} /\ \A y \in {j, k} : m =< y
  BY <1>1
<1>3. m = IF j <= k THEN j ELSE k
  BY <1>2
<1> QED  BY <1>3 DEF Min

\* So many steps out of a directory.
StepsOut(k) == [i \in 1 .. k |-> ".."]

\* Two paths part after c names: they are equal up to there, and differ in the
\* next name when both have one.
PartAfter(c, from, to) ==
    /\ c <= Len(from) /\ c <= Len(to)
    /\ \A i \in 1 .. c : from[i] = to[i]
    /\ c < Len(from) /\ c < Len(to) => from[c + 1] # to[c + 1]

LEMMA PathsPart ==
  ASSUME NEW N, NEW from \in Seq(N), NEW to \in Seq(N)
  PROVE  \E c \in Nat :
            /\ PartAfter(c, from, to)
            /\ RelativeNames(from, to) = StepsOut(Len(from) - c) \o SubSeq(to, c + 1, Len(to))
<1> DEFINE m == Min({Len(from), Len(to)})
           S == {k \in 0 .. m : SubSeq(from, 1, k) = SubSeq(to, 1, k)}
           c == Max(S)
<1>1. Len(from) \in Nat /\ Len(to) \in Nat
  OBVIOUS
<1>2. m \in Nat /\ m <= Len(from) /\ m <= Len(to) /\ (m = Len(from) \/ m = Len(to))
  <2> HIDE DEF m
  <2>1. m = IF Len(from) <= Len(to) THEN Len(from) ELSE Len(to)
    BY <1>1, LeastOfTwo DEF m
  <2> QED  BY <1>1, <2>1
<1> HIDE DEF m
<1>3. ASSUME NEW k \in 0 .. m
      PROVE  SubSeq(from, 1, k) = SubSeq(to, 1, k) <=> \A i \in 1 .. k : from[i] = to[i]
  <2>1. k \in Nat /\ k <= Len(from) /\ k <= Len(to)
    BY <1>1, <1>2
  <2>2. /\ SubSeq(from, 1, k) \in Seq(N) /\ Len(SubSeq(from, 1, k)) = k
        /\ \A i \in 1 .. k : SubSeq(from, 1, k)[i] = from[i]
    BY <2>1
  <2>3. /\ SubSeq(to, 1, k) \in Seq(N) /\ Len(SubSeq(to, 1, k)) = k
        /\ \A i \in 1 .. k : SubSeq(to, 1, k)[i] = to[i]
    BY <2>1
  <2>4. ASSUME \A i \in 1 .. k : from[i] = to[i]
        PROVE  SubSeq(from, 1, k) = SubSeq(to, 1, k)
    BY <2>2, <2>3, <2>4, SeqEqual
  <2> QED  BY <2>2, <2>3, <2>4
<1>4. 0 \in S
  <2>1. 0 \in 0 .. m /\ \A i \in 1 .. 0 : from[i] = to[i]
    BY <1>2
  <2> QED  BY <1>3, <2>1
<1>5. c \in S /\ \A k \in S : k <= c
  <2>1. S \in SUBSET (0 .. m) /\ S # {}
    BY <1>4
  <2> HIDE DEF S
  <2> QED  BY <1>2, <2>1, LargestUpTo
<1>6. RelativeNames(from, to) = StepsOut(Len(from) - c) \o SubSeq(to, c + 1, Len(to))
  BY DEF RelativeNames, StepsOut, m
<1>7. c \in 0 .. m /\ \A i \in 1 .. c : from[i] = to[i]
  <2>1. c \in 0 .. m /\ SubSeq(from, 1, c) = SubSeq(to, 1, c)
    BY <1>5
  <2> HIDE DEF c
  <2> QED  BY <1>3, <2>1
<1>8. \A k \in 0 .. m : (\A i \in 1 .. k : from[i] = to[i]) => k <= c
  <2> HIDE DEF c
  <2> QED  BY <1>3, <1>5
<1> HIDE DEF c, S
<1>9. ASSUME c < Len(from), c < Len(to), from[c + 1] = to[c + 1]
      PROVE  FALSE
  <2>1. c + 1 \in 0 .. m
    BY <1>1, <1>2, <1>7, <1>9
  <2>2. \A i \in 1 .. c + 1 : i \in 1 .. c \/ i = c + 1
    BY <1>7, <2>1
  <2>3. \A i \in 1 .. c + 1 : from[i] = to[i]
    BY <1>7, <1>9, <2>2
  <2>4. c + 1 <= c
    BY <1>8, <2>1, <2>3
  <2> QED  BY <1>2, <1>7, <2>4
<1>10. c \in Nat /\ c <= Len(from) /\ c <= Len(to)
  BY <1>1, <1>2, <1>7
<1>11. PartAfter(c, from, to)
  BY <1>7, <1>9, <1>10 DEF PartAfter
<1> QED  BY <1>6, <1>10, <1>11

\* A prefix, name by name.
LEMMA PrefixMeans ==
  ASSUME NEW N, NEW s \in Seq(N), NEW t \in Seq(N)
  PROVE  IsPrefix(s, t) <=> Len(s) <= Len(t) /\ \A i \in 1 .. Len(s) : s[i] = t[i]
<1> DEFINE n == Len(s)
<1>1. n \in Nat /\ Len(t) \in Nat
  OBVIOUS
<1>2. SubSeq(s, 1, n) = s
  BY <1>1
<1>3. ASSUME n <= Len(t)
      PROVE  SubSeq(t, 1, n) \in Seq(N) /\ Len(SubSeq(t, 1, n)) = n
             /\ \A i \in 1 .. n : SubSeq(t, 1, n)[i] = t[i]
  BY <1>1, <1>3
<1>4. ASSUME n <= Len(t), \A i \in 1 .. n : s[i] = t[i]
      PROVE  s = SubSeq(t, 1, n)
  BY <1>3, <1>4, SeqEqual
<1> QED  BY <1>2, <1>3, <1>4 DEF IsPrefix

\* All but the last name.
LEMMA FrontIs ==
  ASSUME NEW N, NEW s \in Seq(N), s # <<>>
  PROVE  /\ Front(s) \in Seq(N) /\ Len(Front(s)) = Len(s) - 1
         /\ \A i \in 1 .. Len(s) - 1 : Front(s)[i] = s[i]
<1> DEFINE k == Len(s) - 1
<1>1. k \in Nat /\ Len(s) = k + 1
  <2>1. Len(s) \in Nat \ {0}
    BY EmptySeq
  <2> QED  BY <2>1
<1>2. Front(s) = SubSeq(s, 1, k)
  BY DEF Front
<1> HIDE DEF k
<1>3. SubSeq(s, 1, k) \in Seq(N) /\ Len(SubSeq(s, 1, k)) = k
      /\ \A i \in 1 .. k : SubSeq(s, 1, k)[i] = s[i]
  BY <1>1
<1> QED  BY <1>2, <1>3 DEF k

\* Whatever the project directory and the file, conditions see it under the name
\* NameSeen gives it (normalizeConditionPath).
THEOREM FilesHaveOneName ==
  ASSUME NEW N, ".." \notin N, NEW project \in Seq(N), NEW names \in Seq(N)
  PROVE  NormalizeConditionPath(project, [abs |-> TRUE, names |-> names])
            = NameSeen(project, names)
<1>1. Len(project) \in Nat /\ Len(names) \in Nat
  OBVIOUS
<1>2. PICK c \in Nat :
         /\ PartAfter(c, project, names)
         /\ RelativeNames(project, names) =
               StepsOut(Len(project) - c) \o SubSeq(names, c + 1, Len(names))
  BY PathsPart
<1> DEFINE n == Len(project)
           l == Len(names)
           file == [abs |-> TRUE, names |-> names]
           r == RelativeNames(project, names)
           outside == Len(r) > 1 /\ r[1] = ".."
           seen == NormalizeConditionPath(project, file)
<1>0. /\ c <= n /\ c <= l
      /\ \A i \in 1 .. c : project[i] = names[i]
      /\ c < n /\ c < l => project[c + 1] # names[c + 1]
  BY <1>2 DEF PartAfter
<1>3. seen = IF r # <<>> /\ ~outside THEN [abs |-> FALSE, names |-> r] ELSE file
  BY DEF NormalizeConditionPath
<1> DEFINE ups == StepsOut(n - c)
           downs == SubSeq(names, c + 1, l)
           M == N \cup {".."}
<1>4. /\ ups \in Seq(M) /\ Len(ups) = n - c
      /\ downs \in Seq(M) /\ Len(downs) = l - c
      /\ \A i \in 1 .. n - c : ups[i] = ".."
      /\ \A i \in 1 .. l - c : downs[i] = names[c + i]
  <2>1. n - c \in Nat /\ l - c \in Nat
    BY <1>1, <1>0
  <2>2. ups \in Seq(M) /\ Len(ups) = n - c /\ \A i \in 1 .. n - c : ups[i] = ".."
    BY <2>1 DEF StepsOut
  <2>3. downs \in Seq(N) /\ Len(downs) = l - c /\ \A i \in 1 .. l - c : downs[i] = names[c + i]
    BY <1>1, <1>0
  <2> HIDE DEF ups, downs
  <2>4. downs \in Seq(M)
    BY <2>3
  <2> QED  BY <2>2, <2>3, <2>4
<1> HIDE DEF ups, downs, r, seen, outside, M
<1>5. /\ r = ups \o downs /\ r \in Seq(M) /\ Len(r) = (n - c) + (l - c)
      /\ \A i \in 1 .. Len(r) : r[i] = IF i <= n - c THEN ups[i] ELSE downs[i - (n - c)]
  <2>1. r = ups \o downs
    BY <1>2 DEF ups, downs, r
  <2>2. n - c \in Nat /\ l - c \in Nat
    BY <1>1, <1>0
  <2> HIDE DEF n, l
  <2>3. /\ ups \o downs \in Seq(M) /\ Len(ups \o downs) = Len(ups) + Len(downs)
        /\ \A i \in 1 .. Len(ups) + Len(downs) :
              (ups \o downs)[i] = IF i <= Len(ups) THEN ups[i] ELSE downs[i - Len(ups)]
    BY <1>4, ConcatProperties
  <2> QED  BY <1>4, <2>1, <2>2, <2>3
<1>6. IsPrefix(project, names) <=> c = n
  <2>1. IsPrefix(project, names) <=> n <= l /\ \A i \in 1 .. n : project[i] = names[i]
    BY PrefixMeans
  <2>2. c < n /\ n <= l => c + 1 \in 1 .. n /\ project[c + 1] # names[c + 1]
    BY <1>1, <1>0
  <2> QED  BY <1>1, <1>0, <2>1, <2>2
<1>7. CASE IsStrictPrefix(project, names)
  <2>1. c = n /\ project # names
    BY <1>6, <1>7 DEF IsStrictPrefix
  <2>2. n < l
    <3>1. SUFFICES ASSUME n = l
                   PROVE  FALSE
      BY <1>1, <1>0, <2>1
    <3>2. \A i \in 1 .. Len(project) : project[i] = names[i]
      BY <1>0, <2>1
    <3> QED  BY <2>1, <3>1, <3>2, SeqEqual
  <2>3. ups = <<>>
    BY <1>1, <1>4, <2>1
  <2>4. r = downs
    BY <1>4, <1>5, <2>3
  <2>5. 1 \in 1 .. l - c /\ c + 1 \in 1 .. l
    BY <1>1, <2>1, <2>2
  <2>6. downs[1] \in N /\ Len(downs) > 0
    BY <1>1, <1>4, <2>1, <2>2, <2>5
  <2>7. r # <<>> /\ ~outside
    BY <2>4, <2>6 DEF outside
  <2> QED  BY <1>3, <1>7, <2>1, <2>4, <2>7 DEF NameSeen, downs, seen
<1>8. CASE project = names
  <2>1. c = n
    <3>1. IsPrefix(project, names)
      BY <1>1, <1>8, PrefixMeans
    <3> QED  BY <1>6, <3>1
  <2>2. Len(r) = 0
    BY <1>1, <1>5, <1>8, <2>1
  <2>3. r = <<>>
    BY <1>5, <2>2
  <2>4. names # Front(project) \/ project = <<>>
    <3>1. SUFFICES ASSUME project # <<>>, names = Front(project)
                   PROVE  FALSE
      OBVIOUS
    <3>2. Len(Front(project)) = n - 1
      BY <3>1, FrontIs
    <3>3. l = n - 1
      BY <3>1, <3>2
    <3> QED  BY <1>1, <1>8, <3>3
  <2> QED  BY <1>3, <1>8, <2>3, <2>4 DEF NameSeen, IsStrictPrefix, seen
<1>9. CASE ~IsStrictPrefix(project, names) /\ project # names
  <2>1. c < n
    BY <1>1, <1>0, <1>6, <1>9 DEF IsStrictPrefix
  <2>2. project # <<>>
    BY <1>0, <2>1
  <2>3. r[1] = ".." /\ Len(r) >= 1 /\ r # <<>>
    <3>1. 1 \in 1 .. Len(r) /\ 1 \in 1 .. n - c /\ Len(r) >= 1
      BY <1>1, <1>0, <1>5, <2>1
    <3>2. r[1] = ".."
      BY <1>4, <1>5, <3>1
    <3> QED  BY <1>5, <3>1, <3>2
  <2>4. Front(project) \in Seq(N) /\ Len(Front(project)) = n - 1
        /\ \A i \in 1 .. n - 1 : Front(project)[i] = project[i]
    BY <2>2, FrontIs
  <2>5. names = Front(project) <=> l = c /\ n = c + 1
    <3>1. ASSUME names = Front(project)
          PROVE  l = c /\ n = c + 1
      <4>1. l = n - 1 /\ \A i \in 1 .. l : names[i] = project[i]
        BY <2>4, <3>1
      <4>2. c < l => c + 1 \in 1 .. l /\ project[c + 1] # names[c + 1]
        BY <1>1, <1>0, <2>1
      <4> QED  BY <1>1, <1>0, <4>1, <4>2
    <3>2. ASSUME l = c, n = c + 1
          PROVE  names = Front(project)
      <4>1. Len(Front(project)) = l /\ \A i \in 1 .. Len(names) : names[i] = Front(project)[i]
        BY <1>1, <1>0, <2>4, <3>2
      <4> QED  BY <2>4, <4>1, SeqEqual
    <3> QED  BY <3>1, <3>2
  <2>6. CASE names = Front(project)
    <3>1. Len(r) = 1 /\ r = <<"..">>
      <4>1. l = c /\ n = c + 1 /\ Len(r) = (n - c) + (l - c)
        BY <1>5, <2>5, <2>6
      <4>2. Len(r) = 1
        BY <1>1, <4>1
      <4>3. r \in Seq(M) /\ r[1] = ".." /\ <<"..">> \in Seq(M) /\ Len(<<"..">>) = 1
        BY <1>5, <2>3 DEF M
      <4>4. \A i \in 1 .. Len(r) : r[i] = <<"..">>[i]
        BY <4>2, <4>3
      <4> QED  BY <4>2, <4>3, <4>4, SeqEqual
    <3>2. ~outside
      BY <3>1 DEF outside
    <3> QED  BY <1>3, <1>9, <2>2, <2>3, <2>6, <3>1, <3>2 DEF NameSeen, seen
  <2>7. CASE names # Front(project)
    <3>1. outside
      <4>1. Len(r) > 1
        BY <1>1, <1>0, <1>5, <2>1, <2>5, <2>7
      <4> QED  BY <2>3, <4>1 DEF outside
    <3> QED  BY <1>3, <1>9, <2>7, <3>1 DEF NameSeen, seen
  <2> QED  BY <2>6, <2>7
<1> QED  BY <1>7, <1>8, <1>9

=============================================================================
