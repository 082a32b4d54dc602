--------------------------- MODULE DispatchProofs ---------------------------
(***************************************************************************)
(* Proofs about Dispatch, for every set of requests, keys and hook maps:   *)
(* its types, the conservation of requests, and that it implements         *)
(* HookService.                                                            *)
(***************************************************************************)
EXTENDS Dispatch, SequenceTheorems, TLAPS

(* The strengthening.  None of the properties is inductive as it stands:   *)
(* that a parked request is not served twice needs to know that the queue  *)
(* has no repetition, which needs that a parked request was called, which  *)
(* needs that nothing is known of a request before its call.               *)

\* The entry of a key is there while a request of it executes, and only then;
\* only an event that can block has blocked.
EntryInv(k) ==
    /\ runner[k] = NoRequest <=> current[k] = NoRequest
    /\ current[k] = NoRequest => pending[k] = <<>>
    /\ runner[k] # NoRequest => hookMap[k] \in HookMap
    /\ verdict[k] = "blocked" => k \in Blocking

\* The queue of a key holds called, unserved requests of that key, each once.
QueueInv(k) ==
    /\ \A i \in 1..Len(pending[k]) :
          LET r == pending[k][i] IN
          /\ KeyOf[r] = k /\ r \in called /\ served[r] = NotYet /\ r # current[k]
    /\ \A i, j \in 1..Len(pending[k]) : pending[k][i] = pending[k][j] => i = j

\* The executing request and the runner belong to the key; the runner's caller
\* is not answered before the queue is drained.
RunnerInv(k) ==
    /\ current[k] # NoRequest =>
         KeyOf[current[k]] = k /\ current[k] \in called /\ served[current[k]] = NotYet
    /\ runner[k] # NoRequest =>
         /\ KeyOf[runner[k]] = k /\ runner[k] \in called /\ answer[runner[k]] = NotYet
         /\ runner[k] = current[k] \/ served[runner[k]] # NotYet

RequestInv(r) ==
    /\ r \notin called => served[r] = NotYet /\ answer[r] = NotYet
    /\ r \in called /\ served[r] = NotYet =>
         \/ current[KeyOf[r]] = r
         \/ \E i \in 1..Len(pending[KeyOf[r]]) : pending[KeyOf[r]][i] = r

IInv ==
    /\ TypeOK
    /\ \A k \in Key : EntryInv(k) /\ QueueInv(k) /\ RunnerInv(k)
    /\ \A r \in Request : RequestInv(r)
    /\ HonestAnswer

------------------------------------------------------------------------------
(* Sequences as queues. *)

\* The head of a nonempty queue is its first element, and shifting moves every
\* other element one place to the front.
LEMMA Shift ==
    ASSUME NEW S, NEW s \in Seq(S), s # <<>>
    PROVE  /\ Head(s) \in S /\ Head(s) = s[1]
           /\ Tail(s) \in Seq(S)
           /\ Len(s) \in Nat /\ Len(s) > 0
           /\ Len(Tail(s)) = Len(s) - 1
           /\ \A i \in 1..Len(Tail(s)) : Tail(s)[i] = s[i + 1]
  OBVIOUS

\* Putting one element before a queue.
LEMMA Cons ==
    ASSUME NEW S, NEW c \in S, NEW s \in Seq(S)
    PROVE  /\ <<c>> \o s \in Seq(S)
           /\ Len(<<c>> \o s) = Len(s) + 1
           /\ (<<c>> \o s)[1] = c
           /\ \A i \in 1..Len(s) : (<<c>> \o s)[i + 1] = s[i]
           /\ Head(<<c>> \o s) = c
           /\ <<c>> \o s # <<>>
  OBVIOUS

\* A request arriving behind the served one arrives at the end of the line.
LEMMA AppendBehind ==
    ASSUME NEW S, NEW c \in S, NEW s \in Seq(S), NEW r \in S
    PROVE  Append(<<c>> \o s, r) = <<c>> \o Append(s, r)
  <1>1. Append(<<c>> \o s, r) \in Seq(S) /\ <<c>> \o Append(s, r) \in Seq(S)
    BY Cons
  <1>2. Len(Append(<<c>> \o s, r)) = Len(<<c>> \o Append(s, r))
    BY Cons
  <1>3. \A i \in 1..Len(Append(<<c>> \o s, r)) :
           Append(<<c>> \o s, r)[i] = (<<c>> \o Append(s, r))[i]
    OBVIOUS
  <1>. QED BY <1>1, <1>2, <1>3, SeqEqual

\* Serving the head leaves what waits behind it.
LEMMA TailBehind ==
    ASSUME NEW S, NEW c \in S, NEW s \in Seq(S)
    PROVE  Tail(<<c>> \o s) = s
  <1>1. Tail(<<c>> \o s) \in Seq(S) /\ Len(Tail(<<c>> \o s)) = Len(s)
    BY Cons
  <1>2. \A i \in 1..Len(s) : Tail(<<c>> \o s)[i] = s[i]
    BY Cons
  <1>. QED BY <1>1, <1>2, SeqEqual

\* A nonempty queue is its head followed by its tail.
LEMMA HeadThenTail ==
    ASSUME NEW S, NEW s \in Seq(S), s # <<>>
    PROVE  <<Head(s)>> \o Tail(s) = s
  <1>1. Head(s) \in S /\ Tail(s) \in Seq(S) /\ Len(s) \in Nat \ {0}
    BY Shift
  <1>2. <<Head(s)>> \o Tail(s) \in Seq(S) /\ Len(<<Head(s)>> \o Tail(s)) = Len(s)
    BY <1>1, Shift, Cons
  <1>3. \A i \in 1..Len(s) : (<<Head(s)>> \o Tail(s))[i] = s[i]
    BY <1>1
  <1>. QED BY <1>2, <1>3, SeqEqual

------------------------------------------------------------------------------
(* The inductive invariant. *)

\* A step that leaves a queue and the status of its requests alone keeps it.
LEMMA QueueFrame ==
    ASSUME NEW k \in Key, QueueInv(k),
           pending'[k] = pending[k], current'[k] = current[k], called \subseteq called',
           \A i \in 1..Len(pending[k]) : served'[pending[k][i]] = served[pending[k][i]]
    PROVE  QueueInv(k)'
  <1>1. ASSUME NEW i \in 1..Len(pending[k])
        PROVE  /\ KeyOf[pending[k][i]] = k /\ pending[k][i] \in called'
               /\ served'[pending[k][i]] = NotYet /\ pending[k][i] # current'[k]
    BY <1>1 DEF QueueInv
  <1>2. \A i, j \in 1..Len(pending[k]) : pending[k][i] = pending[k][j] => i = j
    BY DEF QueueInv
  <1>. QED BY <1>1, <1>2 DEF QueueInv

LEMMA InitInv == Init => IInv
  <1>. SUFFICES ASSUME Init PROVE IInv
    OBVIOUS
  <1>. USE DispatchAssumption DEF Init
  <1>1. TypeOK
    BY DEF TypeOK, Outcome
  <1>2. ASSUME NEW k \in Key PROVE EntryInv(k) /\ QueueInv(k) /\ RunnerInv(k)
    BY DEF EntryInv, QueueInv, RunnerInv
  <1>3. ASSUME NEW r \in Request PROVE RequestInv(r)
    BY DEF RequestInv
  <1>4. HonestAnswer
    BY DEF HonestAnswer
  <1>. QED BY <1>1, <1>2, <1>3, <1>4 DEF IInv

LEMMA SkipInv ==
    ASSUME IInv, NEW r \in Request, NEW m \in HookMap,
           r \notin called, called' = called \cup {r}, Skip(r, m)
    PROVE  IInv'
  <1>. USE DispatchAssumption DEF IInv, Skip
  <1>1. TypeOK'
    BY DEF TypeOK, Outcome
  <1>2. ASSUME NEW k \in Key PROVE (EntryInv(k) /\ QueueInv(k) /\ RunnerInv(k))'
    <2>1. \A i \in 1..Len(pending[k]) : pending[k][i] \in Request
      BY DEF TypeOK
    <2>2. \A x \in called : served'[x] = served[x] /\ answer'[x] = answer[x]
      BY DEF TypeOK
    <2>3. EntryInv(k)'
      BY DEF EntryInv
    <2>4. QueueInv(k)'
      BY <2>1, <2>2 DEF QueueInv
    <2>5. RunnerInv(k)'
      BY <2>2 DEF RunnerInv
    <2>. QED BY <2>3, <2>4, <2>5
  <1>3. ASSUME NEW x \in Request PROVE RequestInv(x)'
    BY DEF RequestInv, TypeOK, NotYet
  <1>4. HonestAnswer'
    BY DEF HonestAnswer, TypeOK
  <1>. QED BY <1>1, <1>2, <1>3, <1>4

LEMMA ParkInv ==
    ASSUME IInv, NEW r \in Request, NEW m \in HookMap,
           r \notin called, called' = called \cup {r}, Park(r, m)
    PROVE  IInv'
  <1>. USE DispatchAssumption DEF IInv, Park
  <1>. DEFINE q == KeyOf[r]
  <1>0. q \in Key /\ pending[q] \in Seq(Request) /\ current[q] \in Request
    BY DEF TypeOK, EntryInv
  <1>1. TypeOK'
    BY DEF TypeOK, Outcome
  <1>2. ASSUME NEW k \in Key PROVE (EntryInv(k) /\ QueueInv(k) /\ RunnerInv(k))'
    <2>1. EntryInv(k)'
      BY DEF EntryInv, TypeOK
    <2>2. QueueInv(k)'
      <3>1. CASE k # q
        <4>1. pending'[k] = pending[k]
          BY <3>1 DEF TypeOK
        <4>. QED BY <4>1, QueueFrame
      <3>2. CASE k = q
        <4>1. /\ Len(pending'[k]) = Len(pending[k]) + 1
              /\ pending'[k][Len(pending[k]) + 1] = r
              /\ \A i \in 1..Len(pending[k]) : pending'[k][i] = pending[k][i]
              /\ Len(pending[k]) \in Nat
          BY <1>0, <3>2 DEF TypeOK
        <4>2. r # current[k] /\ served[r] = NotYet
          BY <1>0, <3>2 DEF RunnerInv, RequestInv, TypeOK
        <4>3. \A i \in 1..Len(pending[k]) : pending[k][i] # r
          BY DEF QueueInv
        <4>4. ASSUME NEW i \in 1..Len(pending'[k])
              PROVE  /\ KeyOf[pending'[k][i]] = k /\ pending'[k][i] \in called'
                     /\ served'[pending'[k][i]] = NotYet /\ pending'[k][i] # current'[k]
          <5>1. CASE i = Len(pending[k]) + 1
            BY <5>1, <4>1, <4>2, <3>2
          <5>2. CASE i # Len(pending[k]) + 1
            <6>1. i \in 1..Len(pending[k]) /\ pending'[k][i] = pending[k][i]
              BY <5>2, <4>1
            <6>. QED BY <6>1 DEF QueueInv
          <5>. QED BY <5>1, <5>2
        <4>5. ASSUME NEW i \in 1..Len(pending'[k]), NEW j \in 1..Len(pending'[k]),
                     pending'[k][i] = pending'[k][j]
              PROVE  i = j
          <5>1. \A a, b \in 1..Len(pending[k]) : pending[k][a] = pending[k][b] => a = b
            BY DEF QueueInv
          <5>. QED BY <5>1, <4>1, <4>3, <4>5
        <4>. QED BY <4>4, <4>5 DEF QueueInv
      <3>. QED BY <3>1, <3>2
    <2>3. RunnerInv(k)'
      BY DEF RunnerInv, TypeOK
    <2>. QED BY <2>1, <2>2, <2>3
  <1>3. ASSUME NEW x \in Request PROVE RequestInv(x)'
    <2>1. /\ Len(pending'[q]) = Len(pending[q]) + 1
          /\ pending'[q][Len(pending[q]) + 1] = r
          /\ \A i \in 1..Len(pending[q]) : pending'[q][i] = pending[q][i]
          /\ Len(pending[q]) \in Nat
      BY <1>0 DEF TypeOK
    <2>2. x \notin called' => served'[x] = NotYet /\ answer'[x] = NotYet
      BY DEF RequestInv, TypeOK
    <2>3. ASSUME x \in called', served'[x] = NotYet
          PROVE  \/ current'[KeyOf[x]] = x
                 \/ \E i \in 1..Len(pending'[KeyOf[x]]) : pending'[KeyOf[x]][i] = x
      <3>1. CASE x = r
        BY <3>1, <2>1
      <3>2. CASE x # r /\ KeyOf[x] = q
        <4>1. \/ current[q] = x
              \/ \E i \in 1..Len(pending[q]) : pending[q][i] = x
          <5>1. x \in called /\ served[x] = NotYet
            BY <3>2, <2>3
          <5>2. RequestInv(x)
            OBVIOUS
          <5>. QED BY <5>1, <5>2, <3>2 DEF RequestInv
        <4>2. current' = current
          OBVIOUS
        <4>3. ASSUME NEW i \in 1..Len(pending[q]), pending[q][i] = x
              PROVE  i \in 1..Len(pending'[q]) /\ pending'[q][i] = x
          BY <4>3, <2>1
        <4>. QED BY <4>1, <4>2, <4>3, <3>2
      <3>3. CASE x # r /\ KeyOf[x] # q
        BY <3>3, <2>3 DEF RequestInv, TypeOK
      <3>. QED BY <3>1, <3>2, <3>3
    <2>. QED BY <2>2, <2>3 DEF RequestInv
  <1>4. HonestAnswer'
    BY DEF HonestAnswer, TypeOK
  <1>. QED BY <1>1, <1>2, <1>3, <1>4

LEMMA StartInv ==
    ASSUME IInv, NEW r \in Request, NEW m \in HookMap,
           r \notin called, called' = called \cup {r}, Start(r, m)
    PROVE  IInv'
  <1>. USE DispatchAssumption DEF IInv, Start
  <1>. DEFINE q == KeyOf[r]
  <1>0. /\ q \in Key /\ pending[q] = <<>> /\ current[q] = NoRequest
        /\ served[r] = NotYet /\ answer[r] = NotYet
    BY DEF TypeOK, EntryInv, RequestInv
  <1>1. TypeOK'
    BY DEF TypeOK, Outcome
  <1>2. ASSUME NEW k \in Key PROVE (EntryInv(k) /\ QueueInv(k) /\ RunnerInv(k))'
    <2>1. EntryInv(k)'
      BY DEF EntryInv, TypeOK
    <2>2. QueueInv(k)'
      <3>1. CASE k # q
        <4>1. pending'[k] = pending[k] /\ current'[k] = current[k]
          BY <3>1 DEF TypeOK
        <4>. QED BY <4>1 DEF QueueInv
      <3>2. CASE k = q
        BY <1>0, <3>2 DEF QueueInv
      <3>. QED BY <3>1, <3>2
    <2>3. RunnerInv(k)'
      BY <1>0 DEF RunnerInv, TypeOK
    <2>. QED BY <2>1, <2>2, <2>3
  <1>3. ASSUME NEW x \in Request PROVE RequestInv(x)'
    BY <1>0 DEF RequestInv, TypeOK
  <1>4. HonestAnswer'
    BY DEF HonestAnswer, TypeOK
  <1>. QED BY <1>1, <1>2, <1>3, <1>4

LEMMA RunHookInv ==
    ASSUME IInv, NEW k \in Key, RunHook(k)
    PROVE  IInv'
  <1>. USE DispatchAssumption DEF IInv, RunHook
  <1>1. TypeOK'
    BY DEF TypeOK, Outcome
  <1>2. ASSUME NEW j \in Key PROVE (EntryInv(j) /\ QueueInv(j) /\ RunnerInv(j))'
    <2>1. QueueInv(j)'
      BY QueueFrame
    <2>2. EntryInv(j)' /\ RunnerInv(j)'
      BY DEF EntryInv, RunnerInv
    <2>. QED BY <2>1, <2>2
  <1>3. ASSUME NEW x \in Request PROVE RequestInv(x)'
    BY DEF RequestInv
  <1>4. HonestAnswer'
    BY DEF HonestAnswer
  <1>. QED BY <1>1, <1>2, <1>3, <1>4

\* What settling the current request changes besides the queue: it is served
\* now, and only callers whose own request is served are told.
LEMMA ConcludeFacts ==
    ASSUME IInv, NEW k \in Key, Conclude(k)
    PROVE  /\ current[k] \in Request /\ runner[k] \in Request
           /\ KeyOf[current[k]] = k /\ KeyOf[runner[k]] = k
           /\ current[k] \in called /\ served[current[k]] = NotYet
           /\ runner[k] \in called
           /\ served' \in [Request -> Outcome \cup {NotYet}]
           /\ answer' \in [Request -> Outcome \cup {NotYet}]
           /\ served'[current[k]] = verdict[k] /\ verdict[k] # NotYet
           /\ \A x \in Request \ {current[k]} : served'[x] = served[x]
           /\ \A x \in Told(k) : /\ x \in called /\ KeyOf[x] = k /\ answer[x] = NotYet
                                  /\ served'[x] # NotYet /\ answer'[x] = served'[x]
           /\ \A x \in Request \ Told(k) : answer'[x] = answer[x]
           /\ Told(k) \subseteq {current[k], runner[k]}
           /\ called' = called
  <1>. USE DispatchAssumption DEF IInv, Conclude
  <1>1. /\ current[k] \in Request /\ runner[k] \in Request
        /\ KeyOf[current[k]] = k /\ KeyOf[runner[k]] = k
        /\ current[k] \in called /\ served[current[k]] = NotYet
        /\ runner[k] \in called /\ answer[runner[k]] = NotYet
        /\ runner[k] = current[k] \/ served[runner[k]] # NotYet
    BY DEF TypeOK, EntryInv, RunnerInv
  <1>2. /\ served' \in [Request -> Outcome \cup {NotYet}]
        /\ served'[current[k]] = verdict[k] /\ verdict[k] # NotYet
        /\ \A x \in Request \ {current[k]} : served'[x] = served[x]
    BY <1>1 DEF TypeOK, Outcome, NotYet
  <1>3. Told(k) \subseteq {current[k], runner[k]}
    BY DEF Told
  <1>4. /\ \A x \in Told(k) : answer'[x] = served'[x]
        /\ \A x \in Request \ Told(k) : answer'[x] = answer[x]
        /\ answer' \in [Request -> Outcome \cup {NotYet}]
    <2>1. answer' = [x \in Request |-> IF x \in Told(k) THEN served'[x] ELSE answer[x]]
      OBVIOUS
    <2>2. Told(k) \subseteq Request
      BY <1>1, <1>3
    <2>3. answer \in [Request -> Outcome \cup {NotYet}]
      BY DEF TypeOK
    <2>. QED BY ONLY <1>2, <2>1, <2>2, <2>3
  <1>5. k \in Blocking => answer[current[k]] = NotYet
    BY <1>1 DEF HonestAnswer
  <1>6. \A x \in Told(k) : answer[x] = NotYet
    BY <1>1, <1>5 DEF Told
  <1>7. served'[runner[k]] # NotYet
    BY <1>1, <1>2
  <1>. QED BY <1>1, <1>2, <1>3, <1>4, <1>6, <1>7

LEMMA SettleInv ==
    ASSUME IInv, NEW k \in Key, Settle(k)
    PROVE  IInv'
  <1>. USE DispatchAssumption DEF IInv
  <1>0. Conclude(k)
    BY DEF Settle
  <1>1. HonestAnswer'
    <2>. SUFFICES ASSUME NEW x \in Request, KeyOf[x] \in Blocking, answer'[x] # NotYet
                  PROVE  answer'[x] = served'[x]
      BY DEF HonestAnswer
    <2>1. CASE x \in Told(k)
      BY <2>1, <1>0, ConcludeFacts
    <2>2. CASE x \notin Told(k)
      <3>1. answer[x] # NotYet /\ answer[x] = served[x]
        BY <2>2, <1>0, ConcludeFacts DEF HonestAnswer
      <3>. QED BY <3>1, <2>2, <1>0, ConcludeFacts
    <2>. QED BY <2>1, <2>2
  <1>2. CASE pending[k] = <<>>
    <2>1. Release(k)
      BY <1>2 DEF Settle
    <2>2. TypeOK'
      BY <1>0, <2>1, ConcludeFacts DEF TypeOK, Conclude, Release, Outcome
    <2>3. ASSUME NEW j \in Key PROVE (EntryInv(j) /\ QueueInv(j) /\ RunnerInv(j))'
      <3>1. CASE j = k
        <4>1. verdict'[k] = "ok"
          BY <1>0 DEF Conclude, TypeOK
        <4>2. /\ runner'[k] = NoRequest /\ current'[k] = NoRequest /\ pending'[k] = <<>>
          BY <1>2, <2>1 DEF Release, TypeOK
        <4>. QED BY <4>1, <4>2, <3>1 DEF EntryInv, QueueInv, RunnerInv
      <3>2. CASE j # k
        <4>1. /\ pending'[j] = pending[j] /\ current'[j] = current[j]
              /\ runner'[j] = runner[j] /\ hookMap'[j] = hookMap[j] /\ called' = called
              /\ verdict'[j] = verdict[j]
          BY <3>2, <1>0, <2>1 DEF Release, TypeOK, Conclude
        <4>2. \A x \in Request : KeyOf[x] = j =>
                 served'[x] = served[x] /\ answer'[x] = answer[x]
          BY <3>2, <1>0, ConcludeFacts
        <4>3. \A i \in 1..Len(pending[j]) : pending[j][i] \in Request /\ KeyOf[pending[j][i]] = j
          BY DEF TypeOK, QueueInv
        <4>4. EntryInv(j)'
          BY <4>1 DEF EntryInv
        <4>5. QueueInv(j)'
          BY <4>1, <4>2, <4>3, QueueFrame
        <4>6. RunnerInv(j)'
          BY <4>1, <4>2 DEF RunnerInv, TypeOK
        <4>. QED BY <4>4, <4>5, <4>6
      <3>. QED BY <3>1, <3>2
    <2>4. ASSUME NEW x \in Request PROVE RequestInv(x)'
      BY <1>0, <1>2, <2>1, ConcludeFacts DEF RequestInv, Release, TypeOK
    <2>. QED BY <1>1, <2>2, <2>3, <2>4
  <1>3. CASE pending[k] # <<>>
    <2>. DEFINE n == pending[k][1]
    <2>0. /\ pending[k] \in Seq(Request) /\ n \in Request /\ Head(pending[k]) = n
          /\ Len(pending[k]) \in Nat /\ Len(pending[k]) > 0
      BY <1>3, Shift DEF TypeOK
    <2>1. /\ current' = [current EXCEPT ![k] = n]
          /\ pending' = [pending EXCEPT ![k] = Tail(pending[k])]
          /\ runner' = runner /\ hookMap' = hookMap
      BY <1>3, <2>0 DEF Settle
    <2>2. /\ pending'[k] = Tail(pending[k])
          /\ current'[k] = n
          /\ Len(pending'[k]) = Len(pending[k]) - 1
          /\ \A i \in 1..Len(pending'[k]) : pending'[k][i] = pending[k][i + 1]
      BY <1>3, <2>0, <2>1, Shift DEF TypeOK
    <2>3. KeyOf[n] = k /\ n \in called /\ served[n] = NotYet /\ n # current[k]
      BY <2>0 DEF QueueInv
    <2>4. TypeOK'
      BY <1>0, <1>3, <2>0, <2>1, ConcludeFacts, Shift DEF TypeOK, Conclude, Outcome
    <2>5. ASSUME NEW j \in Key, j # k PROVE (EntryInv(j) /\ QueueInv(j) /\ RunnerInv(j))'
      <3>1. /\ pending'[j] = pending[j] /\ current'[j] = current[j]
            /\ runner'[j] = runner[j] /\ hookMap'[j] = hookMap[j] /\ called' = called
            /\ verdict'[j] = verdict[j]
        BY <2>5, <1>0, <2>1 DEF TypeOK, Conclude
      <3>2. \A x \in Request : KeyOf[x] = j =>
               served'[x] = served[x] /\ answer'[x] = answer[x]
        BY <2>5, <1>0, ConcludeFacts
      <3>3. \A i \in 1..Len(pending[j]) : pending[j][i] \in Request /\ KeyOf[pending[j][i]] = j
        BY DEF TypeOK, QueueInv
      <3>4. EntryInv(j)'
        BY <3>1 DEF EntryInv
      <3>5. QueueInv(j)'
        BY <3>1, <3>2, <3>3, QueueFrame
      <3>6. RunnerInv(j)'
        BY <3>1, <3>2 DEF RunnerInv, TypeOK
      <3>. QED BY <3>4, <3>5, <3>6
    <2>6. (EntryInv(k) /\ QueueInv(k) /\ RunnerInv(k))'
      <3>1. EntryInv(k)'
        BY <1>0, <2>0, <2>1, <2>2, ConcludeFacts DEF EntryInv, Conclude
      <3>2. QueueInv(k)'
        <4>1. ASSUME NEW i \in 1..Len(pending'[k])
              PROVE  LET r == pending'[k][i] IN
                     /\ KeyOf[r] = k /\ r \in called' /\ served'[r] = NotYet
                     /\ r # current'[k]
          <5>1. /\ i + 1 \in 1..Len(pending[k]) /\ 1 \in 1..Len(pending[k]) /\ i + 1 # 1
                /\ pending'[k][i] = pending[k][i + 1] /\ pending[k][i + 1] \in Request
            BY <4>1, <2>0, <2>2
          <5>2. pending[k][i + 1] # n
            BY <5>1 DEF QueueInv
          <5>. QED BY <5>1, <5>2, <2>2, <1>0, ConcludeFacts DEF QueueInv
        <4>2. ASSUME NEW i \in 1..Len(pending'[k]), NEW j \in 1..Len(pending'[k]),
                     pending'[k][i] = pending'[k][j]
              PROVE  i = j
          <5>1. /\ i + 1 \in 1..Len(pending[k]) /\ j + 1 \in 1..Len(pending[k])
                /\ pending[k][i + 1] = pending[k][j + 1]
            BY <4>2, <2>0, <2>2
          <5>. QED BY <5>1 DEF QueueInv
        <4>. QED BY <4>1, <4>2 DEF QueueInv
      <3>3. RunnerInv(k)'
        <4>1. served'[n] = NotYet /\ called' = called
          BY <1>0, <2>0, <2>3, ConcludeFacts
        <4>2. /\ runner[k] \in Request /\ KeyOf[runner[k]] = k /\ runner[k] \in called
              /\ served'[runner[k]] # NotYet
          BY <1>0, ConcludeFacts DEF RunnerInv, EntryInv, Conclude
        <4>3. answer'[runner[k]] = NotYet
          <5>1. runner[k] \notin Told(k)
            BY <1>3 DEF Told
          <5>. QED BY <5>1, <4>2, <1>0, ConcludeFacts DEF RunnerInv, EntryInv, Conclude
        <4>. QED BY <4>1, <4>2, <4>3, <2>0, <2>1, <2>2, <2>3 DEF RunnerInv
      <3>. QED BY <3>1, <3>2, <3>3
    <2>7. ASSUME NEW x \in Request PROVE RequestInv(x)'
      <3>1. x \notin called' => served'[x] = NotYet /\ answer'[x] = NotYet
        <4>. SUFFICES ASSUME x \notin called'
                      PROVE  served'[x] = NotYet /\ answer'[x] = NotYet
          OBVIOUS
        <4>1. x \notin called /\ served[x] = NotYet /\ answer[x] = NotYet
          BY <1>0, ConcludeFacts DEF RequestInv
        <4>2. x # current[k] /\ x \notin Told(k)
          BY <4>1, <1>0, ConcludeFacts
        <4>. QED BY <4>1, <4>2, <1>0, ConcludeFacts
      <3>2. ASSUME x \in called', served'[x] = NotYet
            PROVE  \/ current'[KeyOf[x]] = x
                   \/ \E i \in 1..Len(pending'[KeyOf[x]]) : pending'[KeyOf[x]][i] = x
        <4>1. x # current[k] /\ x \in called /\ served[x] = NotYet
          BY <3>2, <1>0, ConcludeFacts
        <4>2. CASE KeyOf[x] # k
          BY <4>1, <4>2, <2>1 DEF RequestInv, TypeOK
        <4>3. CASE KeyOf[x] = k
          <5>1. PICK i \in 1..Len(pending[k]) : pending[k][i] = x
            BY <4>1, <4>3 DEF RequestInv
          <5>2. CASE i = 1
            BY <5>1, <5>2, <2>2, <4>3
          <5>3. CASE i # 1
            <6>1. i - 1 \in 1..Len(pending'[k]) /\ pending'[k][i - 1] = x
              BY <5>1, <5>3, <2>0, <2>2
            <6>. QED BY <6>1, <4>3
          <5>. QED BY <5>2, <5>3
        <4>. QED BY <4>2, <4>3
      <3>. QED BY <3>1, <3>2 DEF RequestInv
    <2>. QED BY <1>1, <2>4, <2>5, <2>6, <2>7
  <1>. QED BY <1>2, <1>3

------------------------------------------------------------------------------
(* The theorems. *)

LEMMA NextInv == IInv /\ [Next]_vars => IInv'
  <1>. SUFFICES ASSUME IInv, [Next]_vars PROVE IInv'
    OBVIOUS
  <1>1. ASSUME NEW r \in Request, NEW m \in HookMap, Call(r, m) PROVE IInv'
    BY <1>1, SkipInv, ParkInv, StartInv DEF Call
  <1>2. ASSUME NEW k \in Key, RunHook(k) PROVE IInv'
    BY <1>2, RunHookInv
  <1>3. ASSUME NEW k \in Key, Settle(k) PROVE IInv'
    BY <1>3, SettleInv
  <1>4. CASE UNCHANGED vars
    BY <1>4 DEF vars, IInv, TypeOK, EntryInv, QueueInv, RunnerInv, RequestInv, HonestAnswer
  <1>. QED BY <1>1, <1>2, <1>3, <1>4 DEF Next, Rest

THEOREM Invariance == Spec => []IInv
  BY InitInv, NextInv, PTL DEF Spec

\* Every variable of the dispatch layer keeps its type.
THEOREM TypeCorrect == Spec => []TypeOK
  <1>1. IInv => TypeOK
    BY DEF IInv
  <1>. QED BY <1>1, Invariance, PTL

\* A call of dispatchHooks is never lost and never held twice: it is parked at
\* one position, executing, or served, for any number of keys and callers.
THEOREM Conservation == Spec => []ExactlyOnePlace
  <1>1. ASSUME IInv PROVE ExactlyOnePlace
    <2>. SUFFICES ASSUME NEW r \in Request
                  PROVE  LET running == current[KeyOf[r]] = r
                             done    == served[r] # NotYet
                         IN  /\ r \in called =>
                                  \/ running /\ ~done /\ Parked(r) = {}
                                  \/ ~running /\ done /\ Parked(r) = {}
                                  \/ /\ ~running /\ ~done
                                     /\ \E i \in Parked(r) : Parked(r) = {i}
                             /\ r \notin called => ~running /\ ~done /\ Parked(r) = {}
      BY DEF ExactlyOnePlace
    <2>. DEFINE k == KeyOf[r]
    <2>0. k \in Key /\ r # NoRequest
      BY DispatchAssumption
    <2>1. ASSUME NEW i \in Parked(r)
          PROVE  /\ r \in called /\ served[r] = NotYet /\ current[k] # r
                 /\ Parked(r) = {i}
      BY <1>1, <2>0, <2>1 DEF IInv, QueueInv, Parked
    <2>2. current[k] = r => r \in called /\ served[r] = NotYet
      BY <1>1, <2>0 DEF IInv, RunnerInv
    <2>3. r \in called /\ served[r] = NotYet => current[k] = r \/ Parked(r) # {}
      BY <1>1 DEF IInv, RequestInv, Parked
    <2>4. r \notin called => served[r] = NotYet
      BY <1>1 DEF IInv, RequestInv
    <2>. QED BY <2>1, <2>2, <2>3, <2>4
  <1>. QED BY <1>1, Invariance, PTL

\* No request ever waits under a key whose dispatch entry has been deleted.
THEOREM NoStranding == Spec => []NobodyStranded
  <1>1. IInv => NobodyStranded
    BY DEF IInv, EntryInv, NobodyStranded
  <1>. QED BY <1>1, Invariance, PTL

\* A pre-tool caller gets the outcome of its own hooks and nothing else.
THEOREM AnswersAreHonest == Spec => []HonestAnswer
  <1>1. IInv => HonestAnswer
    BY DEF IInv
  <1>. QED BY <1>1, Invariance, PTL

------------------------------------------------------------------------------
(* What users of the dispatcher rely on besides its invariant.             *)

\* Once served, a request stays served with the same outcome, and once made, a
\* call stays made.
LEMMA OutcomesStand ==
    ASSUME IInv, [Next]_vars, NEW r \in Request
    PROVE  /\ served[r] # NotYet => served'[r] = served[r]
           /\ r \in called => r \in called'
  <1>1. ASSUME NEW x \in Request, NEW m \in HookMap, Call(x, m)
        PROVE  /\ served[r] # NotYet => served'[r] = served[r]
               /\ r \in called => r \in called'
    <2>1. x \notin called /\ served[x] = NotYet
      BY <1>1 DEF Call, IInv, RequestInv
    <2>. QED BY <1>1, <2>1 DEF Call, Skip, Park, Start, IInv, TypeOK
  <1>2. ASSUME NEW k \in Key, RunHook(k) \/ Settle(k)
        PROVE  /\ served[r] # NotYet => served'[r] = served[r]
               /\ r \in called => r \in called'
    <2>1. CASE RunHook(k)
      BY <2>1 DEF RunHook
    <2>2. CASE Settle(k)
      BY <2>2, ConcludeFacts DEF Settle
    <2>. QED BY <1>2, <2>1, <2>2
  <1>3. CASE Rest \/ UNCHANGED vars
    BY <1>3 DEF Rest, vars
  <1>. QED BY <1>1, <1>2, <1>3 DEF Next

\* A caller is told of an error only if its own request failed, on any key.
OwnErrors == \A r \in Request : answer[r] = "error" => served[r] = "error"

\* An error of one request of a key reaches no other caller, parked or not.
THEOREM ErrorsAreOwn == Spec => []OwnErrors
  <1>1. Init => OwnErrors
    BY DEF Init, OwnErrors, NotYet
  <1>2. ASSUME IInv, OwnErrors, [Next]_vars PROVE OwnErrors'
    <2>. SUFFICES ASSUME NEW r \in Request, answer'[r] = "error"
                  PROVE  served'[r] = "error"
      BY DEF OwnErrors
    <2>1. CASE answer[r] = "error"
      BY <1>2, <2>1, OutcomesStand DEF OwnErrors, NotYet
    <2>2. CASE answer[r] # "error"
      <3>1. ASSUME NEW x \in Request, NEW m \in HookMap, Call(x, m) PROVE FALSE
        BY <1>2, <2>2, <3>1 DEF Call, Skip, Park, Start, IInv, TypeOK
      <3>2. ASSUME NEW k \in Key, RunHook(k) PROVE FALSE
        BY <2>2, <3>2 DEF RunHook
      <3>3. CASE UNCHANGED vars
        BY <2>2, <3>3 DEF vars
      <3>4. ASSUME NEW k \in Key, Settle(k) PROVE served'[r] = "error"
        <4>1. Conclude(k)
          BY <3>4 DEF Settle
        <4>2. r \in Told(k)
          BY <1>2, <2>2, <4>1, ConcludeFacts
        <4>. QED BY <1>2, <4>1, <4>2, ConcludeFacts
      <3>. QED BY <1>2, <3>1, <3>2, <3>3, <3>4 DEF Next, Rest
    <2>. QED BY <2>1, <2>2
  <1>. QED BY <1>1, <1>2, Invariance, PTL DEF Spec

------------------------------------------------------------------------------
(* The refinement. *)

LEMMA LineFacts ==
    ASSUME IInv, NEW k \in Key
    PROVE  /\ current[k] = NoRequest => Line[k] = <<>>
           /\ current[k] # NoRequest =>
                /\ current[k] \in Request /\ pending[k] \in Seq(Request)
                /\ Line[k] = <<current[k]>> \o pending[k]
                /\ Line[k] # <<>>
                /\ Head(Line[k]) = current[k]
                /\ Tail(Line[k]) = pending[k]
  <1>1. current[k] # NoRequest => current[k] \in Request /\ pending[k] \in Seq(Request)
    BY DEF IInv, TypeOK
  <1>2. Line[k] = IF current[k] = NoRequest THEN <<>> ELSE <<current[k]>> \o pending[k]
    BY DEF Line
  <1>3. ASSUME current[k] # NoRequest
        PROVE  /\ <<current[k]>> \o pending[k] # <<>>
               /\ Head(<<current[k]>> \o pending[k]) = current[k]
               /\ Tail(<<current[k]>> \o pending[k]) = pending[k]
    <2>1. <<current[k]>> \o pending[k] # <<>> /\ Head(<<current[k]>> \o pending[k]) = current[k]
      BY <1>1, <1>3, Cons
    <2>2. Tail(<<current[k]>> \o pending[k]) = pending[k]
      BY <1>1, <1>3, TailBehind
    <2>. QED BY <2>1, <2>2
  <1>. QED BY <1>1, <1>2, <1>3

\* A request that was not called is unknown to the service.
LEMMA UncalledUnknown ==
    ASSUME IInv, NEW r \in Request, r \notin called
    PROVE  Service!Unknown(r) /\ answer[r] = "none"
  <1>. DEFINE k == KeyOf[r]
  <1>1. k \in Key /\ served[r] = "none" /\ answer[r] = "none"
    BY DispatchAssumption DEF IInv, RequestInv, NotYet
  <1>2. current[k] # r /\ \A i \in 1..Len(pending[k]) : pending[k][i] # r
    BY <1>1, DispatchAssumption DEF IInv, QueueInv, RunnerInv
  <1>3. \A i \in 1..Len(Line[k]) : Line[k][i] # r
    <2>1. CASE current[k] = NoRequest
      <3>1. Line[k] = <<>>
        BY <2>1, <1>1, LineFacts
      <3>. QED BY <3>1
    <2>2. CASE current[k] # NoRequest
      <3>1. /\ Line[k] = <<current[k]>> \o pending[k]
            /\ current[k] \in Request /\ pending[k] \in Seq(Request)
        BY <2>2, <1>1, LineFacts
      <3>2. ASSUME NEW i \in 1..Len(Line[k]) PROVE Line[k][i] # r
        <4>1. CASE i = 1
          BY <4>1, <3>1, <1>2
        <4>2. CASE i # 1
          <5>1. i - 1 \in 1..Len(pending[k]) /\ Line[k][i] = pending[k][i - 1]
            BY <4>2, <3>1
          <5>. QED BY <5>1, <1>2
        <4>. QED BY <4>1, <4>2
      <3>. QED BY <3>2
    <2>. QED BY <2>1, <2>2
  <1>. QED BY <1>1, <1>3 DEF Service!Unknown

LEMMA CallArrives ==
    ASSUME IInv, IInv', NEW r \in Request, NEW m \in HookMap, Call(r, m)
    PROVE  Service!Decline(r) \/ Service!Arrive(r)
  <1>. DEFINE k == KeyOf[r]
  <1>0. /\ k \in Key /\ r \notin called
        /\ Service!Unknown(r) /\ answer[r] = "none"
    BY UncalledUnknown, DispatchAssumption DEF Call
  <1>1. CASE Skip(r, m)
    <2>1. Line' = Line
      BY <1>1 DEF Skip, Line
    <2>. QED BY <1>0, <1>1, <2>1 DEF Skip, Service!Decline
  <1>2. CASE Park(r, m)
    <2>1. /\ current' = current /\ served' = served /\ current[k] # NoRequest
          /\ pending' = [pending EXCEPT ![k] = Append(pending[k], r)]
      BY <1>0, <1>2 DEF Park, IInv, EntryInv
    <2>2. Line' = [Line EXCEPT ![k] = Append(Line[k], r)]
      <3>1. current[k] \in Request /\ pending[k] \in Seq(Request)
        BY <1>0, <2>1, LineFacts
      <3>2. Line'[k] = Append(Line[k], r)
        <4>1. pending'[k] = Append(pending[k], r) /\ current'[k] = current[k]
          BY <1>0, <2>1 DEF IInv, TypeOK
        <4>2. Line'[k] = <<current[k]>> \o Append(pending[k], r)
          BY <1>0, <2>1, <4>1 DEF Line
        <4>3. Line[k] = <<current[k]>> \o pending[k]
          BY <1>0, <2>1, LineFacts
        <4>4. Append(<<current[k]>> \o pending[k], r) = <<current[k]>> \o Append(pending[k], r)
          BY <3>1, AppendBehind
        <4>. QED BY <4>2, <4>3, <4>4
      <3>3. ASSUME NEW j \in Key, j # k PROVE Line'[j] = Line[j]
        BY <2>1, <3>3 DEF Line, IInv, TypeOK
      <3>. QED BY <1>0, <3>2, <3>3 DEF Line
    <2>3. Line[k] # <<>>
      BY <1>0, <2>1, LineFacts
    <2>4. answer' = IF k \in Blocking THEN answer ELSE [answer EXCEPT ![r] = "ok"]
      BY <1>2 DEF Park
    <2>. QED BY <1>0, <2>1, <2>2, <2>3, <2>4 DEF Service!Arrive
  <1>3. CASE Start(r, m)
    <2>1. /\ served' = served /\ answer' = answer /\ pending' = pending
          /\ current[k] = NoRequest /\ pending[k] = <<>>
          /\ current' = [current EXCEPT ![k] = r]
      BY <1>0, <1>3 DEF Start, IInv, EntryInv
    <2>2. Line' = [Line EXCEPT ![k] = Append(Line[k], r)]
      <3>1. Line[k] = <<>>
        BY <1>0, <2>1, LineFacts
      <3>2. Line'[k] = <<r>> \o <<>>
        BY <1>0, <2>1, DispatchAssumption DEF Line, IInv, TypeOK
      <3>3. <<r>> \o <<>> = Append(<<>>, r)
        OBVIOUS
      <3>4. ASSUME NEW j \in Key, j # k PROVE Line'[j] = Line[j]
        BY <2>1, <3>4 DEF Line, IInv, TypeOK
      <3>. QED BY <1>0, <3>1, <3>2, <3>3, <3>4 DEF Line
    <2>. QED BY <1>0, <2>1, <2>2 DEF Service!Arrive
  <1>. QED BY <1>1, <1>2, <1>3 DEF Call

LEMMA SettleServes ==
    ASSUME IInv, IInv', NEW k \in Key, Settle(k)
    PROVE  Service!Serve(k)
  <1>0. Conclude(k) /\ current[k] # NoRequest
    BY DEF Settle, Conclude
  <1>1. /\ current[k] \in Request /\ pending[k] \in Seq(Request)
        /\ Line[k] # <<>> /\ Head(Line[k]) = current[k] /\ Tail(Line[k]) = pending[k]
    BY <1>0, LineFacts
  <1>2. /\ verdict[k] \in Outcome
        /\ served' = [served EXCEPT ![Head(Line[k])] = verdict[k]]
    BY <1>0, <1>1 DEF Conclude, IInv, TypeOK
  <1>3. verdict[k] = "blocked" => k \in Blocking
    BY DEF IInv, EntryInv
  <1>4. Line' = [Line EXCEPT ![k] = Tail(Line[k])]
    <2>1. Line'[k] = Tail(Line[k])
      <3>1. CASE pending[k] = <<>>
        <4>1. current'[k] = NoRequest
          BY <3>1 DEF Settle, Release, IInv, TypeOK
        <4>. QED BY <4>1, <3>1, <1>1 DEF Line
      <3>2. CASE pending[k] # <<>>
        <4>1. current'[k] = Head(pending[k]) /\ pending'[k] = Tail(pending[k])
          BY <3>2 DEF Settle, IInv, TypeOK
        <4>2. Head(pending[k]) # NoRequest
          BY <3>2, <1>1, Shift, DispatchAssumption
        <4>3. Line'[k] = <<Head(pending[k])>> \o Tail(pending[k])
          BY <4>1, <4>2 DEF Line
        <4>. QED BY <4>3, <3>2, <1>1, HeadThenTail
      <3>. QED BY <3>1, <3>2
    <2>2. ASSUME NEW j \in Key, j # k PROVE Line'[j] = Line[j]
      <3>1. current'[j] = current[j] /\ pending'[j] = pending[j]
        BY <2>2 DEF Settle, Release, IInv, TypeOK
      <3>. QED BY <3>1 DEF Line
    <2>. QED BY <2>1, <2>2 DEF Line
  <1>5. Service!Reply(Told(k))
    <2>1. Told(k) \subseteq {r \in Request : served'[r] # "none" /\ answer[r] = "none"}
      BY <1>0, ConcludeFacts DEF NotYet
    <2>2. answer' = [r \in Request |-> IF r \in Told(k) THEN served'[r] ELSE answer[r]]
      BY <1>0 DEF Conclude
    <2>. QED BY <2>1, <2>2 DEF Service!Reply
  <1>6. Told(k) \in SUBSET Request
    BY <1>0, ConcludeFacts
  <1>7. \E o \in Service!Outcome :
           /\ o = "blocked" => k \in Blocking
           /\ served' = [served EXCEPT ![Head(Line[k])] = o]
    BY <1>2, <1>3 DEF Outcome, Service!Outcome
  <1>. QED BY <1>1, <1>4, <1>5, <1>6, <1>7 DEF Service!Serve

\* The single-flight mechanism implements the service: requests of a key are
\* served in arrival order, one at a time, each once, and answers are those of
\* the service.
THEOREM Implementation == Spec => ImplementsService
  <1>1. Init => Service!SInit
    <2>. SUFFICES ASSUME Init PROVE Service!SInit
      OBVIOUS
    <2>1. Line = [k \in Key |-> <<>>]
      BY DEF Init, Line
    <2>. QED BY <2>1 DEF Init, Service!SInit, NotYet
  <1>2. ASSUME IInv, IInv', [Next]_vars PROVE [Service!SNext]_(Service!svars)
    <2>1. ASSUME NEW r \in Request, NEW m \in HookMap, Call(r, m)
          PROVE  Service!SNext
      BY <2>1, <1>2, CallArrives DEF Service!SNext
    <2>2. ASSUME NEW k \in Key, Settle(k) PROVE Service!SNext
      BY <2>2, <1>2, SettleServes DEF Service!SNext
    <2>3. ASSUME NEW k \in Key, RunHook(k) PROVE UNCHANGED Service!svars
      BY <2>3 DEF RunHook, Service!svars, Line
    <2>4. CASE UNCHANGED vars
      BY <2>4 DEF vars, Service!svars, Line
    <2>. QED BY <1>2, <2>1, <2>2, <2>3, <2>4 DEF Next, Rest
  <1>. QED BY <1>1, <1>2, Invariance, PTL DEF Spec, ImplementsService, Service!SSpec
=============================================================================
