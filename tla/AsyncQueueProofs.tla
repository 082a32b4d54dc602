-------------------------- MODULE AsyncQueueProofs --------------------------
(***************************************************************************)
(* Proofs about AsyncQueue, for every set of jobs and lanes, every          *)
(* concurrency of their hooks and every cap: the lanes are well typed,      *)
(* their counters are exact, their limits hold, no lane stalls, and the     *)
(* jobs of a lane start in order.                                           *)
(***************************************************************************)
EXTENDS AsyncQueue, TLAPS, FiniteSetTheorems, SequenceTheorems

(* What a lane is, apart from the state: its queue q, its counter, and the  *)
(* states js of all jobs.                                                   *)

Running(l, js) == {j \in Job : LaneOf[j] = l /\ js[j] = "running"}

InQueue(j, q) == \E i \in 1..Len(q) : q[i] = j

NoRepeats(q) == \A i, k \in 1..Len(q) : q[i] = q[k] => i = k

\* The queue holds the queued jobs of the lane, each once.
QueueExact(l, q, js) ==
    /\ q \in Seq(Job)
    /\ NoRepeats(q)
    /\ \A j \in Job : InQueue(j, q) <=> (LaneOf[j] = l /\ js[j] = "queued")

\* The counter counts the running jobs of the lane.
CounterExact(l, n, js) ==
    /\ n \in Nat
    /\ IsFiniteSet(Running(l, js))
    /\ Cardinality(Running(l, js)) = n

\* The queue is the end of what the lane accepted; nothing before it is queued
\* and nothing accepted is new.
QueueIsTheEnd(l, q, acc, js) ==
    /\ acc \in Seq(Job)
    /\ \A i \in 1..Len(acc) : LaneOf[acc[i]] = l
    /\ Len(q) <= Len(acc)
    /\ \A i \in 1..Len(q) : q[i] = acc[Len(acc) - Len(q) + i]
    /\ \A i \in 1..(Len(acc) - Len(q)) : js[acc[i]] # "queued"
    /\ \A i \in 1..Len(acc) : js[acc[i]] # "new"

\* A running job continues its lane with the concurrency of an accepted job.
LimitsKnown ==
    \A j \in Job : job[j] = "running" =>
        \E i \in 1..Len(accepted[LaneOf[j]]) : limit[j] = Concurrency[accepted[LaneOf[j]][i]]

LaneInv(l) ==
    /\ QueueExact(l, pending[l], job)
    /\ CounterExact(l, activeCount[l], job)
    /\ QueueIsTheEnd(l, pending[l], accepted[l], job)

\* The inductive invariant.
IInv ==
    /\ TypeOK
    /\ \A l \in Lane : LaneInv(l)
    /\ LimitsKnown
    /\ NeverStalls
    /\ WithinLimits

------------------------------------------------------------------------------
(* Sequences without repetition. *)

LEMMA Prefixes ==
  ASSUME NEW q \in Seq(Job), NoRepeats(q), NEW n \in 0..Len(q)
  PROVE  /\ IsFiniteSet({q[i] : i \in 1..n})
         /\ Cardinality({q[i] : i \in 1..n}) = n
<1> DEFINE S == {q[i] : i \in 1..n}
           f == [i \in 1..n |-> q[i]]
<1>1. f \in Bijection(1..n, S)
  BY DEF NoRepeats, Bijection, Injection, Surjection, IsInjective
<1>2. ExistsBijection(1..n, S)
  BY <1>1 DEF ExistsBijection
<1> HIDE DEF S
<1>3. IsFiniteSet(S)
  BY <1>2, FS_NatBijection
<1>4. Cardinality(S) = n
  BY <1>2, FS_CountingElements
<1> QED  BY <1>3, <1>4 DEF S

\* What the loop of startNext starts fits the queue and the concurrency.
LEMMA StartsBounds ==
  ASSUME NEW a \in Nat, NEW c \in Nat, NEW q \in Seq(Job)
  PROVE  LET n == Starts(a, c, q)
         IN  /\ n \in 0..Len(q)
             /\ a + n <= c \/ n = 0
             /\ c > a /\ Len(q) > 0 => n > 0
BY DEF Starts

\* A place in what is left of m elements, without the first k, is a place among m.
LEMMA ShiftedPlace ==
  ASSUME NEW m \in Nat, NEW k \in Nat, k <= m, NEW i \in 1..(m - k)
  PROVE  i + k \in 1..m /\ ~(i + k <= k)
OBVIOUS

\* The loop keeps what a lane is, whatever jobs it starts.
LEMMA LoopKeepsLane ==
  ASSUME AsyncQueueAssumption, TypeOK,
         NEW l \in Lane, NEW c \in Nat, NEW a \in Nat, NEW q, NEW acc, NEW js \in [Job -> State],
         QueueExact(l, q, js), CounterExact(l, a, js), QueueIsTheEnd(l, q, acc, js),
         StartNext(l, c, a, q, js)
  PROVE  /\ QueueExact(l, pending'[l], job')
         /\ CounterExact(l, activeCount'[l], job')
         /\ QueueIsTheEnd(l, pending'[l], acc, job')
<1> DEFINE n == Starts(a, c, q)
           started == {q[i] : i \in 1..n}
           rest == SubSeq(q, n + 1, Len(q))
<1>1. q \in Seq(Job) /\ n \in 0..Len(q)
  BY StartsBounds DEF QueueExact
<1>2. /\ pending'[l] = rest
      /\ activeCount'[l] = a + n
      /\ job' = [j \in Job |-> IF j \in started THEN "running" ELSE js[j]]
  BY DEF StartNext, TypeOK
<1> HIDE DEF n
<1>3. /\ rest \in Seq(Job) /\ Len(rest) = Len(q) - n
      /\ \A i \in 1..Len(rest) : rest[i] = q[i + n]
  <2>1. \A i \in (n + 1)..Len(q) : q[i] \in Job
    BY <1>1
  <2>2. /\ rest \in Seq(Job)
        /\ Len(rest) = IF n + 1 <= Len(q) THEN Len(q) - (n + 1) + 1 ELSE 0
        /\ \A i \in 1..(Len(q) - (n + 1) + 1) : rest[i] = q[(n + 1) + i - 1]
    BY <1>1, <2>1, SubSeqProperties
  <2> HIDE DEF rest
  <2>3. Len(q) \in Nat /\ n \in Nat /\ n <= Len(q)
    BY <1>1
  <2>4. Len(rest) = Len(q) - n
    BY <2>2, <2>3
  <2>5. ASSUME NEW i \in 1..Len(rest)
        PROVE  rest[i] = q[i + n]
    <3>1. i \in 1..(Len(q) - (n + 1) + 1) /\ (n + 1) + i - 1 = i + n
      BY <2>3, <2>4
    <3> QED  BY <2>2, <3>1
  <2> QED  BY <2>2, <2>4, <2>5
<1> HIDE DEF rest
<1>3a. Len(q) \in Nat /\ n \in Nat /\ n <= Len(q) /\ Len(rest) \in Nat
  BY <1>1, <1>3
<1>3b. ASSUME NEW i \in 1..Len(rest)
       PROVE  i + n \in 1..Len(q) /\ ~(i + n <= n) /\ rest[i] = q[i + n]
  <2>1. i \in 1..(Len(q) - n) /\ rest[i] = q[i + n]
    BY <1>3
  <2> QED  BY <2>1, <1>3a, ShiftedPlace
<1>4. \A i \in 1..Len(q) : q[i] \in started <=> i <= n
  BY <1>1 DEF QueueExact, NoRepeats
<1>5. \A j \in started : j \in Job /\ LaneOf[j] = l /\ js[j] = "queued"
  <2> SUFFICES ASSUME NEW i \in 1..n
               PROVE  q[i] \in Job /\ LaneOf[q[i]] = l /\ js[q[i]] = "queued"
    OBVIOUS
  <2>1. i \in 1..Len(q) /\ q[i] \in Job
    BY <1>1
  <2> QED  BY <2>1 DEF QueueExact, InQueue
<1>6. QueueExact(l, rest, job')
  <2>1. NoRepeats(rest)
    <3> SUFFICES ASSUME NEW i \in 1..Len(rest), NEW k \in 1..Len(rest), rest[i] = rest[k]
                 PROVE  i = k
      BY DEF NoRepeats
    <3>1. i + n \in 1..Len(q) /\ k + n \in 1..Len(q) /\ q[i + n] = q[k + n]
      BY <1>3b
    <3>2. i + n = k + n
      BY <3>1 DEF QueueExact, NoRepeats
    <3> QED  BY <3>2, <1>3a
  <2>2. ASSUME NEW j \in Job
        PROVE  InQueue(j, rest) <=> (LaneOf[j] = l /\ job'[j] = "queued")
    <3>1. CASE j \in started
      <4>1. ~ InQueue(j, rest)
        <5> SUFFICES ASSUME NEW i \in 1..Len(rest), rest[i] = j
                     PROVE  FALSE
          BY DEF InQueue
        <5>1. i + n \in 1..Len(q) /\ ~(i + n <= n) /\ q[i + n] = j
          BY <1>3b
        <5> QED  BY <5>1, <3>1, <1>4
      <4> QED  BY <3>1, <4>1, <1>2
    <3>2. CASE j \notin started
      <4>1. InQueue(j, rest) <=> InQueue(j, q)
        <5>1. ASSUME NEW i \in 1..Len(rest), rest[i] = j
              PROVE  InQueue(j, q)
          <6>1. i + n \in 1..Len(q) /\ q[i + n] = j
            BY <5>1, <1>3b
          <6> QED  BY <6>1 DEF InQueue
        <5>2. ASSUME NEW i \in 1..Len(q), q[i] = j
              PROVE  InQueue(j, rest)
          <6>1. ~(i <= n)
            BY <5>2, <3>2, <1>4
          <6>2. i - n \in 1..Len(rest) /\ (i - n) + n = i
            BY <6>1, <1>3, <1>3a
          <6>3. rest[i - n] = q[i]
            BY <6>2, <1>3b
          <6> QED  BY <6>2, <6>3, <5>2 DEF InQueue
        <5> QED  BY <5>1, <5>2 DEF InQueue
      <4> QED  BY <3>2, <4>1, <1>2 DEF QueueExact
    <3> QED  BY <3>1, <3>2
  <2> QED  BY <1>3, <2>1, <2>2 DEF QueueExact
<1>7. CounterExact(l, a + n, job')
  <2>1. Running(l, job') = Running(l, js) \cup started
    BY <1>2, <1>5 DEF Running
  <2>2. Running(l, js) \cap started = {}
    BY <1>5 DEF Running
  <2>3. IsFiniteSet(started) /\ Cardinality(started) = n
    BY <1>1, Prefixes DEF QueueExact
  <2>4. IsFiniteSet(Running(l, js)) /\ Cardinality(Running(l, js)) = a
    BY DEF CounterExact
  <2> HIDE DEF started
  <2>5. /\ IsFiniteSet(Running(l, js) \cup started)
        /\ Cardinality(Running(l, js) \cup started) = a + n - Cardinality({})
    BY <2>2, <2>3, <2>4, FS_Union
  <2>6. Cardinality({}) = 0
    BY FS_EmptySet
  <2> QED  BY <2>1, <2>5, <2>6, <1>1 DEF CounterExact
<1>8. QueueIsTheEnd(l, rest, acc, job')
  <2>1. /\ acc \in Seq(Job) /\ Len(q) <= Len(acc) /\ Len(rest) <= Len(acc)
        /\ \A i \in 1..Len(acc) : acc[i] \in Job /\ LaneOf[acc[i]] = l
    BY <1>1, <1>3 DEF QueueIsTheEnd
  <2>2. ASSUME NEW i \in 1..Len(rest)
        PROVE  rest[i] = acc[Len(acc) - Len(rest) + i]
    <3>1. i + n \in 1..Len(q) /\ rest[i] = q[i + n]
      BY <1>3b
    <3>2. q[i + n] = acc[Len(acc) - Len(q) + (i + n)]
      BY <3>1 DEF QueueIsTheEnd
    <3>3. Len(acc) - Len(q) + (i + n) = Len(acc) - Len(rest) + i
      <4>1. Len(acc) \in Nat /\ Len(rest) = Len(q) - n
        BY <1>3, <2>1
      <4> QED  BY <4>1, <1>3a
    <3> QED  BY <3>1, <3>2, <3>3
  <2>3. ASSUME NEW i \in 1..(Len(acc) - Len(rest))
        PROVE  job'[acc[i]] # "queued"
    <3>1. i \in 1..Len(acc)
      BY <1>3a, <2>1
    <3>2. CASE i <= Len(acc) - Len(q)
      BY <3>1, <3>2, <1>1, <1>2, <2>1 DEF QueueIsTheEnd
    <3>3. CASE i > Len(acc) - Len(q)
      <4> DEFINE k == i - (Len(acc) - Len(q))
      <4>1. k \in 1..n /\ k \in 1..Len(q) /\ Len(acc) - Len(q) + k = i
        BY <3>3, <1>3, <1>3a, <2>1
      <4> HIDE DEF k
      <4>2. q[k] = acc[i]
        BY <4>1 DEF QueueIsTheEnd
      <4>3. acc[i] \in started
        BY <4>1, <4>2
      <4> QED  BY <4>3, <1>2, <1>5
    <3> QED  BY <3>1, <3>2, <3>3, <1>1, <2>1
  <2>4. \A i \in 1..Len(acc) : job'[acc[i]] # "new"
    BY <1>2, <2>1 DEF QueueIsTheEnd
  <2> QED  BY <2>1, <2>2, <2>3, <2>4 DEF QueueIsTheEnd
<1> QED  BY <1>2, <1>6, <1>7, <1>8

\* What else the loop does: it touches its lane only, stays within the
\* concurrency of its closure, and leaves a queue only to a running job.
LEMMA LoopBounds ==
  ASSUME TypeOK,
         NEW l \in Lane, NEW c \in Nat \ {0}, NEW a \in Nat, NEW q, NEW js \in [Job -> State],
         QueueExact(l, q, js),
         StartNext(l, c, a, q, js)
  PROVE  /\ pending' \in [Lane -> Seq(Job)] /\ activeCount' \in [Lane -> Nat]
         /\ job' \in [Job -> State] /\ limit' \in [Job -> Nat]
         /\ \A m \in Lane \ {l} : pending'[m] = pending[m] /\ activeCount'[m] = activeCount[m]
         /\ \A j \in Job : LaneOf[j] # l => job'[j] = js[j]
         /\ \A j \in Job : job'[j] = "running" =>
               (js[j] = "running" /\ limit'[j] = limit[j]) \/ (LaneOf[j] = l /\ limit'[j] = c)
         /\ activeCount'[l] <= c \/ activeCount'[l] = a
         /\ Len(pending'[l]) <= Len(q)
         /\ Len(q) > 0 \/ a > 0 => activeCount'[l] > 0
<1> DEFINE n == Starts(a, c, q)
           started == {q[i] : i \in 1..n}
           rest == SubSeq(q, n + 1, Len(q))
<1>1. /\ q \in Seq(Job) /\ n \in 0..Len(q)
      /\ a + n <= c \/ n = 0
      /\ c > a /\ Len(q) > 0 => n > 0
  BY StartsBounds DEF QueueExact
<1>2. /\ pending' = [pending EXCEPT ![l] = rest]
      /\ activeCount' = [activeCount EXCEPT ![l] = a + n]
      /\ job' = [j \in Job |-> IF j \in started THEN "running" ELSE js[j]]
      /\ limit' = [j \in Job |-> IF j \in started THEN c ELSE limit[j]]
  BY DEF StartNext
<1> HIDE DEF n
<1>3. rest \in Seq(Job) /\ Len(rest) <= Len(q)
  <2>1. \A i \in (n + 1)..Len(q) : q[i] \in Job
    BY <1>1
  <2>2. /\ rest \in Seq(Job)
        /\ Len(rest) = IF n + 1 <= Len(q) THEN Len(q) - (n + 1) + 1 ELSE 0
    BY <1>1, <2>1, SubSeqProperties
  <2> QED  BY <1>1, <2>2
<1>4. \A j \in started : LaneOf[j] = l
  <2> SUFFICES ASSUME NEW i \in 1..n
               PROVE  LaneOf[q[i]] = l
    OBVIOUS
  <2>1. i \in 1..Len(q) /\ q[i] \in Job
    BY <1>1
  <2> QED  BY <2>1 DEF QueueExact, InQueue
<1> HIDE DEF rest, started
<1>5. pending' \in [Lane -> Seq(Job)] /\ activeCount' \in [Lane -> Nat]
  BY <1>1, <1>2, <1>3 DEF TypeOK
<1>6. job' \in [Job -> State] /\ limit' \in [Job -> Nat]
  BY <1>2 DEF TypeOK, State
<1>7. \A m \in Lane \ {l} : pending'[m] = pending[m] /\ activeCount'[m] = activeCount[m]
  BY <1>2 DEF TypeOK
<1>8. \A j \in Job : LaneOf[j] # l => job'[j] = js[j]
  BY <1>2, <1>4
<1>9. \A j \in Job : job'[j] = "running" =>
          (js[j] = "running" /\ limit'[j] = limit[j]) \/ (LaneOf[j] = l /\ limit'[j] = c)
  BY <1>2, <1>4
<1>10. pending'[l] = rest /\ activeCount'[l] = a + n
  BY <1>2 DEF TypeOK
<1>11. Len(q) > 0 \/ a > 0 => a + n > 0
  BY <1>1
<1>12. a + n <= c \/ a + n = a
  BY <1>1
<1> QED  BY <1>3, <1>5, <1>6, <1>7, <1>8, <1>9, <1>10, <1>11, <1>12

\* A lane of which nothing changes stays what it is.
LEMMA OtherLanes ==
  ASSUME NEW m \in Lane, LaneInv(m),
         pending'[m] = pending[m], activeCount'[m] = activeCount[m], accepted'[m] = accepted[m],
         \A j \in Job : LaneOf[j] = m => job'[j] = job[j]
  PROVE  LaneInv(m)'
<1>1. QueueExact(m, pending'[m], job')
  BY DEF LaneInv, QueueExact
<1>2. CounterExact(m, activeCount'[m], job')
  <2>1. Running(m, job') = Running(m, job)
    BY DEF Running
  <2> QED  BY <2>1 DEF LaneInv, CounterExact
<1>3. QueueIsTheEnd(m, pending'[m], accepted'[m], job')
  <2>1. \A i \in 1..Len(accepted[m]) : accepted[m][i] \in Job /\ LaneOf[accepted[m][i]] = m
    BY DEF LaneInv, QueueIsTheEnd
  <2>2. \A i \in 1..Len(accepted[m]) : job'[accepted[m][i]] = job[accepted[m][i]]
    BY <2>1
  <2>3. Len(accepted[m]) \in Nat /\ Len(pending[m]) \in Nat
    BY DEF LaneInv, QueueIsTheEnd, QueueExact
  <2>4. \A i \in 1..(Len(accepted[m]) - Len(pending[m])) : i \in 1..Len(accepted[m])
    BY <2>3
  <2>5. QueueIsTheEnd(m, pending[m], accepted[m], job)
    BY DEF LaneInv
  <2>6. /\ \A i \in 1..(Len(accepted[m]) - Len(pending[m])) : job'[accepted[m][i]] # "queued"
        /\ \A i \in 1..Len(accepted[m]) : job'[accepted[m][i]] # "new"
    BY <2>2, <2>4, <2>5 DEF QueueIsTheEnd
  <2>7. QueueIsTheEnd(m, pending[m], accepted[m], job')
    <3> HIDE DEF LaneInv
    <3> QED  BY <2>5, <2>6 DEF QueueIsTheEnd
  <2> QED  BY <2>7
<1> QED  BY <1>1, <1>2, <1>3 DEF LaneInv

------------------------------------------------------------------------------
(* One lemma per action. *)

LEMMA Starting ==
  ASSUME AsyncQueueAssumption, Init
  PROVE  IInv
<1>1. TypeOK
  BY DEF Init, TypeOK, State
<1>2. ASSUME NEW l \in Lane
      PROVE  LaneInv(l)
  <2>1. pending[l] = <<>> /\ accepted[l] = <<>> /\ activeCount[l] = 0
    BY DEF Init
  <2>2. Running(l, job) = {}
    BY DEF Init, Running
  <2>3. QueueExact(l, pending[l], job)
    BY <2>1 DEF Init, QueueExact, NoRepeats, InQueue
  <2>4. CounterExact(l, activeCount[l], job)
    BY <2>1, <2>2, FS_EmptySet DEF CounterExact
  <2>5. QueueIsTheEnd(l, pending[l], accepted[l], job)
    BY <2>1 DEF QueueIsTheEnd
  <2> QED  BY <2>3, <2>4, <2>5 DEF LaneInv
<1>3. LimitsKnown
  BY DEF Init, LimitsKnown
<1>4. NeverStalls /\ WithinLimits
  BY DEF Init, NeverStalls, WithinLimits, AsyncQueueAssumption
<1> QED  BY <1>1, <1>2, <1>3, <1>4 DEF IInv

LEMMA Dropping ==
  ASSUME AsyncQueueAssumption, IInv, NEW j \in Job, job[j] = "new", Drop(j),
         present' = [present EXCEPT ![LaneOf[j]] = TRUE]
  PROVE  IInv'
<1> DEFINE l == LaneOf[j]
<1>1. l \in Lane
  BY DEF AsyncQueueAssumption
<1>2. activeCount[l] > 0
  <2>1. pending[l] # <<>>
    BY DEF Drop, AsyncQueueAssumption
  <2> QED  BY <1>1, <2>1 DEF IInv, NeverStalls
<1>3. TypeOK'
  BY <1>1 DEF IInv, TypeOK, Drop, State
<1>4. job' = [job EXCEPT ![j] = "dropped"] /\ job \in [Job -> State]
  BY DEF Drop, IInv, TypeOK
<1>5. \A m \in Lane : pending'[m] = pending[m] /\ activeCount'[m] = activeCount[m]
                      /\ accepted'[m] = accepted[m]
  BY DEF Drop
<1>6. ASSUME NEW m \in Lane
      PROVE  LaneInv(m)'
  <2>1. LaneInv(m)
    BY DEF IInv
  <2>2. QueueExact(m, pending[m], job')
    BY <2>1, <1>4 DEF LaneInv, QueueExact
  <2>3. Running(m, job') = Running(m, job)
    BY <1>4 DEF Running
  <2>4. CounterExact(m, activeCount[m], job')
    BY <2>1, <2>3 DEF LaneInv, CounterExact
  <2>5. QueueIsTheEnd(m, pending[m], accepted[m], job')
    <3>1. Len(accepted[m]) \in Nat /\ Len(pending[m]) \in Nat
      BY <2>1 DEF LaneInv, QueueIsTheEnd, QueueExact
    <3>2. \A i \in 1..(Len(accepted[m]) - Len(pending[m])) : i \in 1..Len(accepted[m])
      BY <3>1
    <3>3. \A i \in 1..Len(accepted[m]) : accepted[m][i] \in Job
      BY <2>1 DEF LaneInv, QueueIsTheEnd
    <3> QED  BY <2>1, <1>4, <3>2, <3>3 DEF LaneInv, QueueIsTheEnd
  <2> QED  BY <1>5, <2>2, <2>4, <2>5 DEF LaneInv
<1>7. LimitsKnown'
  BY <1>4 DEF IInv, LimitsKnown, Drop
<1>8. NeverStalls'
  BY <1>2, <1>1 DEF IInv, NeverStalls, Drop, TypeOK
<1>9. WithinLimits'
  BY DEF IInv, WithinLimits, Drop
<1> QED  BY <1>3, <1>6, <1>7, <1>8, <1>9 DEF IInv

LEMMA Accepting ==
  ASSUME AsyncQueueAssumption, IInv, NEW j \in Job, job[j] = "new", Accept(j),
         present' = [present EXCEPT ![LaneOf[j]] = TRUE]
  PROVE  IInv'
<1> DEFINE l == LaneOf[j]
           c == Concurrency[j]
           a == activeCount[l]
           q == Append(pending[l], j)
           js == [job EXCEPT ![j] = "queued"]
           acc == Append(accepted[l], j)
           n == Len(pending[l])
           p == Len(accepted[l])
<1>1. /\ l \in Lane /\ c \in Nat \ {0} /\ a \in Nat /\ TypeOK /\ LaneInv(l)
      /\ pending[l] \in Seq(Job) /\ accepted[l] \in Seq(Job)
      /\ js \in [Job -> State] /\ Len(pending[l]) < MaxPending
      /\ accepted' = [accepted EXCEPT ![l] = acc]
      /\ StartNext(l, c, a, q, js)
  BY DEF AsyncQueueAssumption, IInv, TypeOK, State, Accept
<1>2. /\ n \in Nat /\ q \in Seq(Job) /\ Len(q) = n + 1 /\ q[n + 1] = j
      /\ \A i \in 1..n : q[i] = pending[l][i]
  BY <1>1
<1>3. /\ p \in Nat /\ acc \in Seq(Job) /\ Len(acc) = p + 1 /\ acc[p + 1] = j
      /\ \A i \in 1..p : acc[i] = accepted[l][i]
  BY <1>1
<1>4. \A k \in Job : js[k] = IF k = j THEN "queued" ELSE job[k]
  BY DEF IInv, TypeOK
<1>a. QueueExact(l, pending[l], job) /\ QueueIsTheEnd(l, pending[l], accepted[l], job)
  BY <1>1 DEF LaneInv
<1> HIDE DEF q, js, acc, c
<1>5. QueueExact(l, q, js)
  <2>1. \A i \in 1..n : pending[l][i] # j
    BY <1>a DEF QueueExact, InQueue
  <2>2. ASSUME NEW i \in 1..Len(q), NEW k \in 1..Len(q), q[i] = q[k]
        PROVE  i = k
    <3>1. CASE i = n + 1 /\ k = n + 1
      BY <3>1
    <3>2. CASE i \in 1..n /\ k \in 1..n
      BY <3>2, <2>2, <1>2, <1>a DEF QueueExact, NoRepeats
    <3>3. CASE i \in 1..n /\ k = n + 1
      BY <3>3, <2>1, <2>2, <1>2
    <3>4. CASE i = n + 1 /\ k \in 1..n
      BY <3>4, <2>1, <2>2, <1>2
    <3>5. (i \in 1..n \/ i = n + 1) /\ (k \in 1..n \/ k = n + 1)
      BY <1>2
    <3> QED  BY <3>1, <3>2, <3>3, <3>4, <3>5
  <2>3. ASSUME NEW k \in Job
        PROVE  InQueue(k, q) <=> k = j \/ InQueue(k, pending[l])
    <3>1. ASSUME NEW i \in 1..Len(q), q[i] = k, k # j
          PROVE  InQueue(k, pending[l])
      <4>1. i \in 1..n
        BY <3>1, <1>2
      <4> QED  BY <3>1, <4>1, <1>2 DEF InQueue
    <3>2. ASSUME NEW i \in 1..n, pending[l][i] = k
          PROVE  InQueue(k, q)
      <4>1. i \in 1..Len(q) /\ q[i] = k
        BY <3>2, <1>2
      <4> QED  BY <4>1 DEF InQueue
    <3>3. InQueue(j, q)
      <4>1. n + 1 \in 1..Len(q) /\ q[n + 1] = j
        BY <1>2
      <4> QED  BY <4>1 DEF InQueue
    <3> QED  BY <3>1, <3>2, <3>3 DEF InQueue
  <2>4. \A k \in Job : InQueue(k, q) <=> (LaneOf[k] = l /\ js[k] = "queued")
    BY <1>a, <1>4, <2>3 DEF QueueExact
  <2>5. NoRepeats(q)
    BY <2>2 DEF NoRepeats
  <2> QED  BY <1>2, <2>4, <2>5 DEF QueueExact
<1>6. CounterExact(l, a, js)
  <2>1. Running(l, js) = Running(l, job)
    BY <1>4 DEF Running
  <2> QED  BY <1>1, <2>1 DEF LaneInv, CounterExact
<1>7. QueueIsTheEnd(l, q, acc, js)
  <2>1. n <= p
    BY <1>a DEF QueueIsTheEnd
  <2>a. \A i \in 1..p : accepted[l][i] \in Job
    BY <1>1
  <2>b. \A i \in 1..p : LaneOf[accepted[l][i]] = l /\ job[accepted[l][i]] # "new"
    BY <1>a DEF QueueIsTheEnd
  <2>c. \A i \in 1..n : pending[l][i] = accepted[l][p - n + i]
    BY <1>a DEF QueueIsTheEnd
  <2>d. \A i \in 1..(p - n) : job[accepted[l][i]] # "queued"
    BY <1>a DEF QueueIsTheEnd
  <2> HIDE DEF n, p
  <2>2. ASSUME NEW i \in 1..Len(acc)
        PROVE  LaneOf[acc[i]] = l /\ js[acc[i]] # "new"
    <3>1. CASE i = p + 1
      BY <3>1, <1>3, <1>4
    <3>2. CASE i # p + 1
      <4>1. i \in 1..p
        BY <3>2, <1>3
      <4>2. acc[i] = accepted[l][i]
        BY <4>1, <1>3
      <4> QED  BY <4>1, <4>2, <1>4, <2>a, <2>b
    <3> QED  BY <3>1, <3>2
  <2>3. ASSUME NEW i \in 1..Len(q)
        PROVE  q[i] = acc[Len(acc) - Len(q) + i]
    <3>1. CASE i = n + 1
      <4>1. Len(acc) - Len(q) + i = p + 1
        BY <3>1, <1>2, <1>3
      <4> QED  BY <3>1, <4>1, <1>2, <1>3
    <3>2. CASE i # n + 1
      <4>1. i \in 1..n
        BY <3>2, <1>2
      <4>2. p - n + i \in 1..p
        BY <4>1, <1>2, <1>3, <2>1
      <4>3. Len(acc) - Len(q) + i = p - n + i
        BY <4>1, <1>2, <1>3
      <4> QED  BY <4>1, <4>2, <4>3, <2>c, <1>2, <1>3
    <3> QED  BY <3>1, <3>2
  <2>4. ASSUME NEW i \in 1..(Len(acc) - Len(q))
        PROVE  js[acc[i]] # "queued"
    <3>1. i \in 1..p /\ i \in 1..(p - n)
      BY <1>2, <1>3, <2>1
    <3>2. acc[i] = accepted[l][i]
      BY <3>1, <1>3
    <3> QED  BY <3>1, <3>2, <1>4, <2>a, <2>b, <2>d
  <2>5. Len(q) <= Len(acc)
    BY <1>2, <1>3, <2>1
  <2> QED  BY <1>3, <2>2, <2>3, <2>4, <2>5 DEF QueueIsTheEnd
<1>8. /\ QueueExact(l, pending'[l], job') /\ CounterExact(l, activeCount'[l], job')
      /\ QueueIsTheEnd(l, pending'[l], acc, job')
  BY <1>1, <1>5, <1>6, <1>7, LoopKeepsLane
<1>9. /\ pending' \in [Lane -> Seq(Job)] /\ activeCount' \in [Lane -> Nat]
      /\ job' \in [Job -> State] /\ limit' \in [Job -> Nat]
      /\ \A m \in Lane \ {l} : pending'[m] = pending[m] /\ activeCount'[m] = activeCount[m]
      /\ \A k \in Job : LaneOf[k] # l => job'[k] = js[k]
      /\ \A k \in Job : job'[k] = "running" =>
            (js[k] = "running" /\ limit'[k] = limit[k]) \/ (LaneOf[k] = l /\ limit'[k] = c)
      /\ activeCount'[l] <= c \/ activeCount'[l] = a
      /\ Len(pending'[l]) <= Len(q)
      /\ Len(q) > 0 \/ a > 0 => activeCount'[l] > 0
  BY <1>1, <1>5, LoopBounds
<1>10. /\ accepted' \in [Lane -> Seq(Job)] /\ accepted'[l] = acc
       /\ \A m \in Lane \ {l} : accepted'[m] = accepted[m]
       /\ present' \in [Lane -> BOOLEAN] /\ present'[l] = TRUE
       /\ \A m \in Lane \ {l} : present'[m] = present[m]
  BY <1>1, <1>3 DEF TypeOK
<1>11. TypeOK'
  BY <1>9, <1>10 DEF TypeOK
<1>12. ASSUME NEW m \in Lane
       PROVE  LaneInv(m)'
  <2>1. CASE m = l
    BY <2>1, <1>8, <1>10 DEF LaneInv
  <2>2. CASE m # l
    <3>1. LaneInv(m)
      BY DEF IInv
    <3>2. \A k \in Job : LaneOf[k] = m => job'[k] = job[k]
      BY <2>2, <1>4, <1>9
    <3> QED  BY <2>2, <3>1, <3>2, <1>9, <1>10, OtherLanes
  <2> QED  BY <2>1, <2>2
<1>13. LimitsKnown'
  <2> SUFFICES ASSUME NEW k \in Job, job'[k] = "running"
               PROVE  \E i \in 1..Len(accepted'[LaneOf[k]]) :
                          limit'[k] = Concurrency[accepted'[LaneOf[k]][i]]
    BY DEF LimitsKnown
  <2>1. CASE LaneOf[k] = l /\ limit'[k] = c
    <3>1. p + 1 \in 1..Len(accepted'[l]) /\ accepted'[l][p + 1] = j
      BY <1>3, <1>10
    <3> QED  BY <2>1, <3>1 DEF c
  <2>2. CASE js[k] = "running" /\ limit'[k] = limit[k]
    <3>1. PICK i \in 1..Len(accepted[LaneOf[k]]) : limit[k] = Concurrency[accepted[LaneOf[k]][i]]
      BY <2>2, <1>4 DEF IInv, LimitsKnown
    <3>2. LaneOf[k] \in Lane
      BY DEF AsyncQueueAssumption
    <3>3. CASE LaneOf[k] = l
      <4>1. i \in 1..Len(accepted'[l]) /\ accepted'[l][i] = accepted[l][i]
        BY <3>1, <3>3, <1>3, <1>10
      <4> QED  BY <2>2, <3>1, <3>3, <4>1
    <3>4. CASE LaneOf[k] # l
      BY <2>2, <3>1, <3>2, <3>4, <1>10
    <3> QED  BY <3>3, <3>4
  <2> QED  BY <2>1, <2>2, <1>9
<1>14. NeverStalls'
  <2>1. activeCount'[l] > 0 /\ present'[l] = TRUE
    <3>1. Len(q) > 0
      BY <1>2
    <3>2. Len(q) > 0 \/ a > 0 => activeCount'[l] > 0
      BY <1>9
    <3> QED  BY <3>1, <3>2, <1>10
  <2>2. ASSUME NEW m \in Lane, m # l
        PROVE  pending'[m] = pending[m] /\ activeCount'[m] = activeCount[m]
               /\ present'[m] = present[m]
    BY <2>2, <1>9, <1>10
  <2>3. NeverStalls
    BY DEF IInv
  <2> QED  BY <2>1, <2>2, <2>3 DEF NeverStalls
<1>15. WithinLimits'
  <2> SUFFICES ASSUME NEW m \in Lane
               PROVE  /\ activeCount'[m] > 0 =>
                            \E i \in 1..Len(accepted'[m]) :
                                activeCount'[m] <= Concurrency[accepted'[m][i]]
                      /\ Len(pending'[m]) <= MaxPending
    BY DEF WithinLimits
  <2>1. CASE m # l
    <3>1. /\ pending'[m] = pending[m] /\ activeCount'[m] = activeCount[m]
          /\ accepted'[m] = accepted[m]
      BY <2>1, <1>9, <1>10
    <3>2. WithinLimits
      BY DEF IInv
    <3> QED  BY <3>1, <3>2 DEF WithinLimits
  <2>2. CASE m = l
    <3>1. Len(pending'[l]) <= MaxPending
      <4>1. pending'[l] \in Seq(Job) /\ MaxPending \in Nat
        BY <1>1, <1>9 DEF AsyncQueueAssumption
      <4>2. Len(pending'[l]) \in Nat
        BY <4>1
      <4>3. Len(pending'[l]) <= n + 1
        BY <1>2, <1>9
      <4>4. n < MaxPending
        BY <1>1
      <4> HIDE DEF n
      <4> QED  BY <4>1, <4>2, <4>3, <4>4, <1>2
    <3>2. CASE activeCount'[l] <= c
      <4>1. p + 1 \in 1..Len(accepted'[l]) /\ accepted'[l][p + 1] = j
        BY <1>3, <1>10
      <4> QED  BY <2>2, <3>1, <3>2, <4>1 DEF c
    <3>3. CASE activeCount'[l] = a
      <4>1. \A i \in 1..p : i \in 1..Len(accepted'[l]) /\ accepted'[l][i] = accepted[l][i]
        BY <1>3, <1>10
      <4>2. a > 0 => \E i \in 1..p : a <= Concurrency[accepted[l][i]]
        BY <1>1 DEF IInv, WithinLimits
      <4> QED  BY <2>2, <3>1, <3>3, <4>1, <4>2
    <3> QED  BY <3>2, <3>3, <1>9
  <2> QED  BY <2>1, <2>2
<1> QED  BY <1>11, <1>12, <1>13, <1>14, <1>15 DEF IInv

LEMMA Ending ==
  ASSUME AsyncQueueAssumption, IInv, NEW j \in Job, Done(j)
  PROVE  IInv'
<1> DEFINE l == LaneOf[j]
           a == activeCount[l] - 1
           js == [job EXCEPT ![j] = "over"]
           c == limit[j]
<1>1. /\ TypeOK /\ l \in Lane /\ job[j] = "running" /\ job \in [Job -> State]
      /\ js \in [Job -> State] /\ accepted' = accepted
      /\ QueueExact(l, pending[l], job) /\ CounterExact(l, activeCount[l], job)
      /\ QueueIsTheEnd(l, pending[l], accepted[l], job)
  BY DEF AsyncQueueAssumption, IInv, LaneInv, TypeOK, State, Done
<1>2. \A k \in Job : js[k] = IF k = j THEN "over" ELSE job[k]
  BY <1>1
<1> HIDE DEF js
\* The job gives its place back, which leaves the queue alone.
<1>3. a \in Nat /\ activeCount[l] = a + 1 /\ CounterExact(l, a, js)
  <2>1. Running(l, js) = Running(l, job) \ {j} /\ j \in Running(l, job)
    BY <1>1, <1>2 DEF Running
  <2>2. /\ IsFiniteSet(Running(l, job)) /\ Cardinality(Running(l, job)) = activeCount[l]
        /\ activeCount[l] \in Nat
    BY <1>1 DEF CounterExact
  <2>3. activeCount[l] # 0
    BY <2>1, <2>2, FS_EmptySet
  <2>4. IsFiniteSet(Running(l, js)) /\ Cardinality(Running(l, js)) = a
    BY <2>1, <2>2, FS_RemoveElement
  <2>5. a \in Nat /\ activeCount[l] = a + 1
    BY <2>2, <2>3
  <2> QED  BY <2>4, <2>5 DEF CounterExact
<1>4. QueueExact(l, pending[l], js)
  BY <1>1, <1>2 DEF QueueExact
<1>5. QueueIsTheEnd(l, pending[l], accepted[l], js)
  <2>1. Len(accepted[l]) \in Nat /\ Len(pending[l]) \in Nat
    BY <1>1 DEF TypeOK
  <2>2. \A i \in 1..(Len(accepted[l]) - Len(pending[l])) : i \in 1..Len(accepted[l])
    BY <2>1
  <2>3. \A i \in 1..Len(accepted[l]) : accepted[l][i] \in Job
    BY <1>1 DEF TypeOK
  <2> QED  BY <1>1, <1>2, <2>2, <2>3 DEF QueueIsTheEnd
<1>6. PICK e \in 1..Len(accepted[l]) : c = Concurrency[accepted[l][e]]
  BY <1>1 DEF IInv, LimitsKnown
<1>7. c \in Nat \ {0}
  BY <1>1, <1>6 DEF AsyncQueueAssumption, TypeOK
\* In both cases the lane stays what it is, others are untouched, and nobody
\* starts but jobs of the lane under the same limit.
<1>8. /\ QueueExact(l, pending'[l], job') /\ CounterExact(l, activeCount'[l], job')
      /\ QueueIsTheEnd(l, pending'[l], accepted[l], job')
      /\ TypeOK'
      /\ \A m \in Lane \ {l} : /\ pending'[m] = pending[m] /\ activeCount'[m] = activeCount[m]
                               /\ present'[m] = present[m]
      /\ \A k \in Job : LaneOf[k] # l => job'[k] = js[k]
      /\ \A k \in Job : job'[k] = "running" =>
            (js[k] = "running" /\ limit'[k] = limit[k]) \/ (LaneOf[k] = l /\ limit'[k] = c)
      /\ activeCount'[l] <= c \/ activeCount'[l] = a
      /\ Len(pending'[l]) <= Len(pending[l])
      /\ pending'[l] # <<>> => activeCount'[l] > 0
      /\ present'[l] <=> activeCount'[l] > 0
  <2>1. CASE a = 0 /\ pending[l] = <<>>
    <3>1. /\ present' = [present EXCEPT ![l] = FALSE]
          /\ activeCount' = [activeCount EXCEPT ![l] = 0]
          /\ job' = js /\ pending' = pending /\ limit' = limit
      BY <2>1 DEF Done, js
    <3>2. activeCount'[l] = 0 /\ present'[l] = FALSE
      BY <3>1, <1>1 DEF TypeOK
    <3>3. TypeOK'
      BY <3>1, <1>1 DEF TypeOK
    <3>4. \A m \in Lane \ {l} : /\ pending'[m] = pending[m] /\ activeCount'[m] = activeCount[m]
                                /\ present'[m] = present[m]
      BY <3>1, <1>1 DEF TypeOK
    <3>5. Len(pending'[l]) <= Len(pending[l]) /\ pending'[l] = <<>>
      BY <3>1, <2>1
    <3> QED  BY <2>1, <3>1, <3>2, <3>3, <3>4, <3>5, <1>3, <1>4, <1>5
  <2>2. CASE ~(a = 0 /\ pending[l] = <<>>)
    <3>1. StartNext(l, c, a, pending[l], js) /\ present' = present
      BY <2>2 DEF Done, js
    <3>2. /\ QueueExact(l, pending'[l], job') /\ CounterExact(l, activeCount'[l], job')
          /\ QueueIsTheEnd(l, pending'[l], accepted[l], job')
      BY <3>1, <1>1, <1>3, <1>4, <1>5, <1>7, LoopKeepsLane
    <3>3. /\ pending' \in [Lane -> Seq(Job)] /\ activeCount' \in [Lane -> Nat]
          /\ job' \in [Job -> State] /\ limit' \in [Job -> Nat]
          /\ \A m \in Lane \ {l} : pending'[m] = pending[m] /\ activeCount'[m] = activeCount[m]
          /\ \A k \in Job : LaneOf[k] # l => job'[k] = js[k]
          /\ \A k \in Job : job'[k] = "running" =>
                (js[k] = "running" /\ limit'[k] = limit[k]) \/ (LaneOf[k] = l /\ limit'[k] = c)
          /\ activeCount'[l] <= c \/ activeCount'[l] = a
          /\ Len(pending'[l]) <= Len(pending[l])
          /\ Len(pending[l]) > 0 \/ a > 0 => activeCount'[l] > 0
      BY <3>1, <1>1, <1>3, <1>4, <1>7, LoopBounds
    <3>4. pending[l] \in Seq(Job)
      BY <1>1 DEF TypeOK
    <3>5. Len(pending[l]) > 0 \/ a > 0
      BY <2>2, <3>4, <1>3
    <3>6. activeCount[l] > 0
      BY <1>3
    <3>7. present[l]
      BY <3>6, <1>1 DEF IInv, NeverStalls
    <3>8. TypeOK'
      BY <3>1, <3>3, <1>1 DEF TypeOK
    <3> QED  BY <3>1, <3>2, <3>3, <3>5, <3>7, <3>8
  <2> QED  BY <2>1, <2>2
<1>9. ASSUME NEW m \in Lane
      PROVE  LaneInv(m)'
  <2>1. CASE m = l
    BY <2>1, <1>1, <1>8 DEF LaneInv
  <2>2. CASE m # l
    <3>1. LaneInv(m)
      BY DEF IInv
    <3>2. \A k \in Job : LaneOf[k] = m => job'[k] = job[k]
      BY <2>2, <1>2, <1>8
    <3> QED  BY <2>2, <3>1, <3>2, <1>1, <1>8, OtherLanes
  <2> QED  BY <2>1, <2>2
<1>10. LimitsKnown'
  <2> SUFFICES ASSUME NEW k \in Job, job'[k] = "running"
               PROVE  \E i \in 1..Len(accepted[LaneOf[k]]) :
                          limit'[k] = Concurrency[accepted[LaneOf[k]][i]]
    BY <1>1 DEF LimitsKnown
  <2>1. CASE LaneOf[k] = l /\ limit'[k] = c
    BY <2>1, <1>6
  <2>2. CASE js[k] = "running" /\ limit'[k] = limit[k]
    BY <2>2, <1>2 DEF IInv, LimitsKnown
  <2> QED  BY <2>1, <2>2, <1>8
<1>11. NeverStalls'
  BY <1>8 DEF IInv, NeverStalls
<1>12. WithinLimits'
  <2> SUFFICES ASSUME NEW m \in Lane
               PROVE  /\ activeCount'[m] > 0 =>
                            \E i \in 1..Len(accepted[m]) :
                                activeCount'[m] <= Concurrency[accepted[m][i]]
                      /\ Len(pending'[m]) <= MaxPending
    BY <1>1 DEF WithinLimits
  <2>1. CASE m # l
    BY <2>1, <1>8 DEF IInv, WithinLimits
  <2>2. CASE m = l
    <3>1. Len(pending'[l]) <= MaxPending
      <4>1. pending[l] \in Seq(Job) /\ pending'[l] \in Seq(Job) /\ MaxPending \in Nat
        BY <1>1, <1>8 DEF TypeOK, AsyncQueueAssumption
      <4>2. Len(pending[l]) \in Nat /\ Len(pending'[l]) \in Nat
        BY <4>1
      <4>3. Len(pending[l]) <= MaxPending
        BY <1>1 DEF IInv, WithinLimits
      <4> QED  BY <4>1, <4>2, <4>3, <1>8
    <3>2. CASE activeCount'[l] <= c
      BY <2>2, <3>1, <3>2, <1>6
    <3>3. CASE activeCount'[l] = a
      <4>a. activeCount[l] > 0
        BY <1>3
      <4>1. PICK i \in 1..Len(accepted[l]) : activeCount[l] <= Concurrency[accepted[l][i]]
        BY <4>a, <1>1 DEF IInv, WithinLimits
      <4>b. accepted[l] \in Seq(Job) /\ accepted[l][i] \in Job
        BY <1>1 DEF TypeOK
      <4>2. Concurrency[accepted[l][i]] \in Nat
        BY <4>b DEF AsyncQueueAssumption
      <4>3. a <= Concurrency[accepted[l][i]]
        BY <4>1, <4>2, <1>3
      <4> QED  BY <2>2, <3>1, <3>3, <4>1, <4>3
    <3> QED  BY <3>2, <3>3, <1>8
  <2> QED  BY <2>1, <2>2
<1> QED  BY <1>8, <1>9, <1>10, <1>11, <1>12 DEF IInv

LEMMA Stuttering ==
  ASSUME IInv, UNCHANGED vars
  PROVE  IInv'
<1>1. /\ present' = present /\ pending' = pending /\ activeCount' = activeCount
      /\ limit' = limit /\ job' = job /\ accepted' = accepted
  BY DEF vars
<1>2. TypeOK'
  BY <1>1 DEF IInv, TypeOK
<1>3. ASSUME NEW l \in Lane
      PROVE  LaneInv(l)'
  BY <1>1, OtherLanes DEF IInv
<1>4. LimitsKnown'
  BY <1>1 DEF IInv, LimitsKnown
<1>5. NeverStalls' /\ WithinLimits'
  BY <1>1 DEF IInv, NeverStalls, WithinLimits
<1> QED  BY <1>2, <1>3, <1>4, <1>5 DEF IInv

------------------------------------------------------------------------------
(* The theorems. *)

\* IInv is inductive.
THEOREM Inductive == Spec => []IInv
<1>1. Init => IInv
  BY AsyncQueueAssumption, Starting
<1>2. IInv /\ [Next]_vars => IInv'
  <2> SUFFICES ASSUME IInv, [Next]_vars
               PROVE  IInv'
    OBVIOUS
  <2>1. ASSUME NEW j \in Job, Enqueue(j)
        PROVE  IInv'
    <3>1. CASE Drop(j)
      BY <2>1, <3>1, AsyncQueueAssumption, Dropping DEF Enqueue
    <3>2. CASE Accept(j)
      BY <2>1, <3>2, AsyncQueueAssumption, Accepting DEF Enqueue
    <3> QED  BY <2>1, <3>1, <3>2 DEF Enqueue
  <2>2. ASSUME NEW j \in Job, Done(j)
        PROVE  IInv'
    BY <2>2, AsyncQueueAssumption, Ending
  <2>3. ASSUME Rest \/ UNCHANGED vars
        PROVE  IInv'
    BY <2>3, Stuttering DEF Rest
  <2> QED  BY <2>1, <2>2, <2>3 DEF Next
<1> QED  BY <1>1, <1>2, PTL DEF Spec

\* Every reachable state is well typed.
THEOREM TypeCorrect == Spec => []TypeOK
<1>1. IInv => TypeOK
  BY DEF IInv
<1> QED  BY <1>1, Inductive, PTL

\* The counter of a lane is the number of its jobs that run and its queue holds
\* exactly its queued jobs, however jobs arrive, end and are dropped.
THEOREM Counters == Spec => []CountersExact
<1>1. IInv => CountersExact
  <2> SUFFICES ASSUME IInv, NEW l \in Lane
               PROVE  /\ activeCount[l] = Cardinality(InLane(l, {"running"}))
                      /\ {pending[l][i] : i \in 1..Len(pending[l])} = InLane(l, {"queued"})
                      /\ Len(pending[l]) = Cardinality(InLane(l, {"queued"}))
    BY DEF CountersExact
  <2>1. QueueExact(l, pending[l], job) /\ CounterExact(l, activeCount[l], job)
    BY DEF IInv, LaneInv
  <2>2. InLane(l, {"running"}) = Running(l, job)
    BY DEF InLane, Running
  <2>3. {pending[l][i] : i \in 1..Len(pending[l])} = InLane(l, {"queued"})
    BY <2>1 DEF QueueExact, InQueue, InLane
  <2>4. Cardinality({pending[l][i] : i \in 1..Len(pending[l])}) = Len(pending[l])
    <3>1. pending[l] \in Seq(Job) /\ NoRepeats(pending[l]) /\ Len(pending[l]) \in 0..Len(pending[l])
      BY <2>1 DEF QueueExact
    <3> QED  BY <3>1, Prefixes
  <2> QED  BY <2>1, <2>2, <2>3, <2>4 DEF CounterExact
<1> QED  BY <1>1, Inductive, PTL

\* A lane with work has a running job that will look at the queue, and exists
\* exactly as long as it has one.
THEOREM LanesGoOn == Spec => []NeverStalls
<1>1. IInv => NeverStalls
  BY DEF IInv
<1> QED  BY <1>1, Inductive, PTL

\* A lane never exceeds the cap of its queue nor the most permissive of the
\* concurrencies its jobs ask for.
THEOREM Limits == Spec => []WithinLimits
<1>1. IInv => WithinLimits
  BY DEF IInv
<1> QED  BY <1>1, Inductive, PTL

\* The jobs of a lane start in the order in which they were accepted.
THEOREM Order == Spec => []StartInOrder
<1>1. IInv => StartInOrder
  <2> SUFFICES ASSUME IInv, NEW l \in Lane,
                      NEW i \in 1..Len(accepted[l]), NEW k \in 1..Len(accepted[l]),
                      i < k, job[accepted[l][k]] # "queued"
               PROVE  job[accepted[l][i]] # "queued"
    BY DEF StartInOrder
  <2> DEFINE n == Len(pending[l])
             p == Len(accepted[l])
  <2>1. /\ QueueExact(l, pending[l], job) /\ QueueIsTheEnd(l, pending[l], accepted[l], job)
        /\ n \in Nat /\ p \in Nat /\ n <= p
    BY DEF IInv, LaneInv, TypeOK, QueueIsTheEnd
  <2>a. /\ \A y \in 1..n : pending[l][y] = accepted[l][p - n + y]
        /\ \A y \in 1..(p - n) : job[accepted[l][y]] # "queued"
    BY <2>1 DEF QueueIsTheEnd
  <2>d. \A y \in 1..n : pending[l][y] \in Job
    <3>1. pending[l] \in Seq(Job)
      BY <2>1 DEF QueueExact
    <3> QED  BY <3>1
  <2>b. \A y \in 1..n : job[pending[l][y]] = "queued"
    BY <2>1, <2>d DEF QueueExact, InQueue
  <2>c. i \in 1..p /\ k \in 1..p
    OBVIOUS
  <2> HIDE DEF n, p
  <2>2. CASE k <= p - n
    <3>1. i \in 1..(p - n)
      BY <2>1, <2>2, <2>c
    <3> QED  BY <2>a, <3>1
  <2>3. CASE k > p - n
    <3> DEFINE x == k - (p - n)
    <3>1. x \in 1..n /\ p - n + x = k
      BY <2>1, <2>3, <2>c
    <3> HIDE DEF x
    <3> QED  BY <2>a, <2>b, <3>1
  <2> QED  BY <2>1, <2>2, <2>3, <2>c
<1> QED  BY <1>1, Inductive, PTL
=============================================================================
