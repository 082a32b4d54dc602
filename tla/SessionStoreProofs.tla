------------------------- MODULE SessionStoreProofs -------------------------
(***************************************************************************)
(* Proofs about SessionStore, for every family of sessions, number of       *)
(* lookups, and cap of tombstones: a deletion is forgotten only when as many *)
(* others came after it as the cap allows, a lookup brings no session back,  *)
(* and the root it names is the root of its session as far as the host told  *)
(* it.                                                                       *)
(*                                                                          *)
(* The last rests on what records say being true of the sessions they were  *)
(* made for, and on the levels of a lookup descending from one another, for *)
(* chains of any length: those that are followed without awaiting are       *)
(* values of a recursive function, hence the induction.                     *)
(*                                                                          *)
(* The arguments of tool calls, PendingCalls: setting those of a call keeps *)
(* one entry per call and the cap, and drops only what is old.              *)
(***************************************************************************)
EXTENDS SessionStore, PendingCalls, TLAPS, SequenceTheorems, FiniteSetTheorems, WellFoundedInduction

\* The types of records, tombstones and of who asked.
Shape ==
    /\ sessions \in [Session -> 0..MaxRecords]
    /\ tombs \in Seq(Session) /\ Len(tombs) <= MaxTombs
    /\ later \in [Session -> 0..MaxTombs]
    /\ gone \subseteq Session
    /\ asked \in [Lookup -> Session \cup {Undefined}]
    /\ DOMAIN stack = Lookup

\* A tombstone is counted by those before it; without one, a session has seen
\* the whole set go by.
Remembering ==
    /\ \A i \in 1..Len(tombs) : later[tombs[i]] >= Len(tombs) - i
    /\ \A x \in Session : HasTombstone(x) \/ later[x] = MaxTombs

\* The inductive invariant.
IInv == Shape /\ Remembering

------------------------------------------------------------------------------
(* Lookups. *)

\* Returning and asking the host change the levels of this lookup only.
OnlyStack(w) == \E levels : stack' = [stack EXCEPT ![w] = levels]

LEMMA ConcludingStack ==
  ASSUME NEW w, NEW levels, NEW s, NEW h, Concludes(w, levels, s, h)
  PROVE  OnlyStack(w)
BY DEF Concludes, Returns, AsksHost, OnlyStack

LEMMA ResolvingStack ==
  ASSUME NEW w, NEW levels, NEW s, NEW h, Resolves(w, levels, s, h)
  PROVE  OnlyStack(w)
BY ConcludingStack DEF Resolves

\* A record is made for the session named, and for no other.
LEMMA RecordMade ==
  ASSUME SessionStoreAssumption, Shape, NEW s \in Session, GetOrCreateSession(s)
  PROVE  /\ sessions' \in [Session -> 0..MaxRecords] /\ sessions'[s] # 0
         /\ \A x \in Session \ {s} : sessions'[x] = sessions[x]
<1>1. Made(s) \in 0..MaxRecords /\ Made(s) # 0
  <2>1. CASE Live(s)
    BY <2>1 DEF Made, Live, Shape
  <2>2. CASE ~Live(s)
    <3>1. Free(s) # {} /\ Free(s) \subseteq 1..MaxRecords
      BY <2>2 DEF GetOrCreateSession, Free
    <3>2. Made(s) \in Free(s)
      BY <2>2, <3>1 DEF Made
    <3> QED  BY <3>1, <3>2 DEF SessionStoreAssumption
  <2> QED  BY <2>1, <2>2
<1> QED  BY <1>1 DEF GetOrCreateSession, Shape

LEMMA LookupStarts ==
  ASSUME SessionStoreAssumption, Shape, NEW w \in Lookup, NEW s \in Session, StartLookup(w, s)
  PROVE  /\ GetOrCreateSession(s) /\ OnlyStack(w) /\ mode[w] = "new"
         /\ asked' = [asked EXCEPT ![w] = s]
         /\ tombs' = tombs /\ gone' = gone /\ later' = later
<1>1. OnlyStack(w)
  BY ResolvingStack DEF StartLookup, AsksHost, OnlyStack
<1> QED  BY <1>1 DEF StartLookup

LEMMA LookupGoesOn ==
  ASSUME NEW w \in Lookup, ParentResolved(w) \/ LevelResumes(w)
  PROVE  OnlyStack(w) /\ UNCHANGED <<sessions, tombs, gone, asked, later>>
<1>1. ASSUME NEW a, HostAnswers(w, a)
      PROVE  OnlyStack(w) /\ UNCHANGED <<sessions, tombs, gone, asked, later>>
  BY <1>1, ResolvingStack DEF HostAnswers, Returns, OnlyStack
<1>2. CASE ParentResolved(w)
  BY <1>1, <1>2 DEF ParentResolved
<1>3. CASE LevelResumes(w)
  BY <1>3 DEF LevelResumes, Returns, OnlyStack
<1> QED  BY <1>2, <1>3

------------------------------------------------------------------------------
(* The invariant is kept. *)

LEMMA Created ==
  ASSUME SessionStoreAssumption, IInv, NEW s \in Session, GetOrCreateSession(s),
         UNCHANGED <<tombs, later>>, gone' \subseteq gone, DOMAIN stack' = Lookup,
         asked' \in [Lookup -> Session \cup {Undefined}]
  PROVE  IInv'
<1>1. sessions' \in [Session -> 0..MaxRecords]
  BY RecordMade DEF IInv
<1>2. Shape'
  BY <1>1 DEF IInv, Shape
<1>3. Remembering'
  BY DEF IInv, Remembering, HasTombstone
<1> QED  BY <1>2, <1>3 DEF IInv

\* A tombstone at the end, and the first one gone when there is no room.
LEMMA TombstonePut ==
  ASSUME SessionStoreAssumption, IInv, NEW s \in Session, DeleteSession(s), ~HasTombstone(s)
  PROVE  /\ tombs' \in Seq(Session) /\ Len(tombs') <= MaxTombs
         /\ later' \in [Session -> 0..MaxTombs]
         /\ Remembering'
<1> DEFINE n == Len(tombs)
           q == Append(tombs, s)
<1>1. /\ tombs' = IF Len(q) > MaxTombs THEN Tail(q) ELSE q
      /\ later' = [x \in Session |-> IF x = s THEN 0
                                     ELSE IF later[x] < MaxTombs THEN later[x] + 1 ELSE MaxTombs]
  BY DEF DeleteSession, RecordTombstone
<1>2. /\ tombs \in Seq(Session) /\ n \in Nat /\ n <= MaxTombs /\ MaxTombs \in Nat \ {0}
      /\ later \in [Session -> 0..MaxTombs]
  BY DEF IInv, Shape, SessionStoreAssumption
<1>3. /\ q \in Seq(Session) /\ Len(q) = n + 1 /\ q[n + 1] = s
      /\ \A i \in 1..n : q[i] = tombs[i] /\ tombs[i] \in Session /\ tombs[i] # s
  BY <1>2 DEF HasTombstone
<1>4. later' \in [Session -> 0..MaxTombs]
  <2>1. \A x \in Session : later[x] \in 0..MaxTombs
    BY <1>2
  <2>2. \A x \in Session : (IF x = s THEN 0
                            ELSE IF later[x] < MaxTombs THEN later[x] + 1 ELSE MaxTombs) \in 0..MaxTombs
    BY <2>1, <1>2
  <2> QED  BY <2>2, <1>1
\* One more came after those that were there.
<1>5. \A i \in 1..(n + 1) : later'[q[i]] >= n + 1 - i
  <2> SUFFICES ASSUME NEW i \in 1..(n + 1)
               PROVE  later'[q[i]] >= n + 1 - i
    OBVIOUS
  <2>1. CASE i = n + 1
    BY <2>1, <1>1, <1>2, <1>3
  <2>2. CASE i \in 1..n
    <3>1. q[i] = tombs[i] /\ tombs[i] \in Session /\ tombs[i] # s
      BY <2>2, <1>3
    <3>2. later[tombs[i]] >= n - i
      BY <2>2 DEF IInv, Remembering
    <3>3. later[tombs[i]] \in Nat
      BY <3>1, <1>2
    <3>4. later'[tombs[i]] = IF later[tombs[i]] < MaxTombs THEN later[tombs[i]] + 1 ELSE MaxTombs
      BY <3>1, <1>1
    <3> QED  BY <2>2, <3>1, <3>2, <3>3, <3>4, <1>2
  <2> QED  BY <2>1, <2>2, <1>2
\* Those without a tombstone stay counted to the full.
<1>6. \A x \in Session : ~HasTombstone(x) /\ x # s => later'[x] = MaxTombs
  BY <1>1, <1>2 DEF IInv, Remembering
<1> HIDE DEF q
<1>7. CASE n < MaxTombs
  <2>1. tombs' = q
    BY <1>7, <1>1, <1>2, <1>3
  <2>2. \A x \in Session : HasTombstone(x) => HasTombstone(x)'
    BY <2>1, <1>2, <1>3 DEF HasTombstone
  <2>3. HasTombstone(s)'
    BY <2>1, <1>2, <1>3 DEF HasTombstone
  <2>4. Remembering'
    BY <2>1, <2>2, <2>3, <1>3, <1>5, <1>6 DEF Remembering
  <2> QED  BY <2>1, <2>4, <1>2, <1>3, <1>4, <1>7
<1>8. CASE n = MaxTombs
  <2>1. tombs' = Tail(q)
    BY <1>8, <1>1, <1>2, <1>3
  <2>2. q # <<>>
    BY <1>2, <1>3
  <2>3. /\ tombs' \in Seq(Session) /\ Len(tombs') = n
        /\ \A i \in 1..n : tombs'[i] = q[i + 1]
    BY <2>1, <2>2, <1>2, <1>3, HeadTailProperties
  <2>4. \A i \in 1..n : later'[tombs'[i]] >= n - i
    <3> SUFFICES ASSUME NEW i \in 1..n
                 PROVE  later'[tombs'[i]] >= n - i
      OBVIOUS
    <3>1. i + 1 \in 1..(n + 1) /\ tombs'[i] = q[i + 1]
      BY <2>3, <1>2
    <3>2. later'[q[i + 1]] >= n + 1 - (i + 1)
      BY <3>1, <1>5
    <3>3. n + 1 - (i + 1) = n - i
      BY <1>2
    <3> QED  BY <3>1, <3>2, <3>3
  <2>5. ASSUME NEW x \in Session, ~HasTombstone(x)'
        PROVE  later'[x] = MaxTombs
    <3>1. \A i \in 1..n : q[i + 1] # x
      BY <2>3, <2>5 DEF HasTombstone
    <3>2. x # s
      BY <3>1, <1>2, <1>3, <1>8
    <3>3. CASE ~HasTombstone(x)
      BY <3>2, <3>3, <1>6
    \* The oldest one, that went: all the others came after it.
    <3>4. CASE HasTombstone(x)
      <4>1. PICK i \in 1..n : tombs[i] = x
        BY <3>4 DEF HasTombstone
      <4>2. CASE i = 1
        <5>1. later'[q[1]] >= n + 1 - 1 /\ q[1] = x
          BY <4>1, <4>2, <1>2, <1>3, <1>5
        <5>2. later'[x] \in 0..MaxTombs
          BY <1>4
        <5> QED  BY <5>1, <5>2, <1>2, <1>8
      <4>3. CASE i # 1
        <5>1. i - 1 \in 1..n /\ (i - 1) + 1 = i
          BY <4>1, <4>3, <1>2
        <5> QED  BY <5>1, <4>1, <3>1, <1>3
      <4> QED  BY <4>2, <4>3
    <3> QED  BY <3>3, <3>4
  <2>6. Remembering'
    BY <2>3, <2>4, <2>5 DEF Remembering
  <2> QED  BY <2>3, <2>6, <1>2, <1>4
<1> QED  BY <1>7, <1>8, <1>2

LEMMA Deleted ==
  ASSUME SessionStoreAssumption, IInv, NEW s \in Session, DeleteSession(s)
  PROVE  IInv'
<1>1. /\ sessions' = [sessions EXCEPT ![s] = 0] /\ gone' = gone \cup {s}
      /\ stack' = stack /\ asked' = asked
  BY DEF DeleteSession
<1>2. MaxTombs \in Nat \ {0} /\ tombs \in Seq(Session) /\ Len(tombs) <= MaxTombs /\ Len(tombs) \in Nat
  BY DEF IInv, Shape, SessionStoreAssumption
<1>3. /\ tombs' \in Seq(Session) /\ Len(tombs') <= MaxTombs
      /\ later' \in [Session -> 0..MaxTombs]
      /\ Remembering'
  <2>1. CASE HasTombstone(s)
    <3>1. tombs' = tombs /\ later' = later
      BY <2>1, <1>2 DEF DeleteSession, RecordTombstone
    <3> QED  BY <3>1 DEF IInv, Shape, Remembering, HasTombstone
  <2>2. CASE ~HasTombstone(s)
    BY <2>2, TombstonePut
  <2> QED  BY <2>1, <2>2
<1>4. sessions' \in [Session -> 0..MaxRecords] /\ gone' \subseteq Session
  BY <1>1 DEF IInv, Shape, SessionStoreAssumption
<1> QED  BY <1>1, <1>3, <1>4 DEF IInv, Shape

LEMMA Steps ==
  ASSUME SessionStoreAssumption, IInv, [Next]_vars
  PROVE  IInv'
<1>1. ASSUME NEW s \in Changing, NEW p, RememberSession(s, p)
      PROVE  IInv'
  <2>1. /\ s \in Session /\ GetOrCreateSession(s) /\ UNCHANGED <<tombs, later>> /\ gone' \subseteq gone
        /\ stack' = stack /\ asked' = asked
    BY <1>1 DEF RememberSession, SessionStoreAssumption
  <2> QED  BY <2>1, Created DEF IInv, Shape
<1>2. ASSUME NEW s \in Leaving, DeleteSession(s)
      PROVE  IInv'
  BY <1>2, Deleted DEF SessionStoreAssumption
<1>3. ASSUME NEW s \in Changing, Touch(s)
      PROVE  IInv'
  <2>1. /\ s \in Session /\ GetOrCreateSession(s) /\ UNCHANGED <<tombs, later>> /\ gone' = gone
        /\ stack' = stack /\ asked' = asked
    BY <1>3 DEF Touch, SessionStoreAssumption
  <2> QED  BY <2>1, Created DEF IInv, Shape
<1>4. ASSUME NEW w \in Lookup, NEW s \in Asks[w], StartLookup(w, s)
      PROVE  IInv'
  <2>1. s \in Session
    BY DEF SessionStoreAssumption
  <2>2. /\ GetOrCreateSession(s) /\ OnlyStack(w) /\ UNCHANGED <<tombs, later>> /\ gone' = gone
        /\ asked' = [asked EXCEPT ![w] = s]
    BY <1>4, <2>1, LookupStarts DEF IInv
  <2>3. DOMAIN stack' = Lookup /\ asked' \in [Lookup -> Session \cup {Undefined}]
    BY <2>1, <2>2 DEF OnlyStack, IInv, Shape
  <2> QED  BY <2>1, <2>2, <2>3, Created
<1>5. ASSUME NEW w \in Lookup, ParentResolved(w) \/ LevelResumes(w)
      PROVE  IInv'
  <2>1. OnlyStack(w) /\ UNCHANGED <<sessions, tombs, gone, asked, later>>
    BY <1>5, LookupGoesOn
  <2> QED  BY <2>1 DEF OnlyStack, IInv, Shape, Remembering, HasTombstone
<1>6. CASE UNCHANGED vars
  BY <1>6 DEF vars, IInv, Shape, Remembering, HasTombstone
<1> QED  BY <1>1, <1>2, <1>3, <1>4, <1>5, <1>6 DEF Next

THEOREM Inductive == Spec => []IInv
<1>1. Init => IInv
  <2> SUFFICES ASSUME Init
               PROVE  IInv
    OBVIOUS
  <2>1. MaxRecords \in Nat /\ MaxTombs \in Nat
    BY SessionStoreAssumption DEF SessionStoreAssumption
  <2> QED  BY <2>1 DEF Init, IInv, Shape, Remembering
<1>2. IInv /\ [Next]_vars => IInv'
  BY SessionStoreAssumption, Steps
<1> QED  BY <1>1, <1>2, PTL DEF Spec

------------------------------------------------------------------------------
(* Deletions and creations. *)

\* A deleted session is known to be one until it has a record again, or as many
\* other sessions got a tombstone since its own as MAX_DELETED_TOMBSTONES allows:
\* recordTombstone drops no tombstone early, in whatever order deletions come.
THEOREM Forgetting == Spec => []DeletionsRemembered
<1>1. IInv => DeletionsRemembered
  BY DEF IInv, Shape, Remembering, DeletionsRemembered, IsDeleted
<1> QED  BY <1>1, Inductive, PTL

\* resolveRootSessionID walks through parents without creating their records: the
\* one record a lookup may create is that of the session it was asked for.
THEOREM WalksCreateNothing == Spec => LookupsCreateNothing
<1>1. ASSUME SessionStoreAssumption, IInv, [Next]_vars
      PROVE  [\A s \in Session, w \in Lookup :
                ~Live(s) /\ Live(s)' /\ stack'[w] # stack[w] =>
                    mode[w] = "new" /\ asked'[w] = s]_vars
  <2> SUFFICES ASSUME NEW s \in Session, NEW w \in Lookup,
                      ~Live(s), Live(s)', stack'[w] # stack[w], Next
               PROVE  mode[w] = "new" /\ asked'[w] = s
    BY <1>1 DEF vars, Live
  <2> USE DEF Live
  <2>1. ASSUME NEW x, (\E p : RememberSession(x, p)) \/ DeleteSession(x) \/ Touch(x)
        PROVE  FALSE
    BY <2>1 DEF RememberSession, DeleteSession, Touch
  <2>2. ASSUME NEW x \in Lookup, ParentResolved(x) \/ LevelResumes(x)
        PROVE  FALSE
    BY <2>2, LookupGoesOn
  <2>3. ASSUME NEW x \in Lookup, NEW y \in Asks[x], StartLookup(x, y)
        PROVE  mode[w] = "new" /\ asked'[w] = s
    <3>1. y \in Session
      BY <1>1 DEF SessionStoreAssumption
    <3>2. /\ GetOrCreateSession(y) /\ OnlyStack(x) /\ mode[x] = "new"
          /\ asked' = [asked EXCEPT ![x] = y]
      BY <1>1, <2>3, <3>1, LookupStarts DEF IInv
    <3>3. y = s
      BY <1>1, <3>1, <3>2, RecordMade DEF IInv
    <3>4. x = w
      BY <1>1, <3>2 DEF OnlyStack, IInv, Shape
    <3> QED  BY <1>1, <3>2, <3>3, <3>4 DEF IInv, Shape
  <2> QED  BY <2>1, <2>2, <2>3 DEF Next
<1>2. IInv /\ [Next]_vars => [\A s \in Session, w \in Lookup :
                ~Live(s) /\ Live(s)' /\ stack'[w] # stack[w] =>
                    mode[w] = "new" /\ asked'[w] = s]_vars
  BY <1>1, SessionStoreAssumption
<1> QED  BY <1>2, Inductive, PTL DEF Spec, LookupsCreateNothing

------------------------------------------------------------------------------
(* What lookups know.  M is what the host misled the lookups about. *)

\* The walk from s may come to v.
Leads(s, v, M) ==
    /\ v \in Session
    /\ s \in Rooted => Root[v] = Root[s] /\ (v = Root[s] \/ v \in M)

\* What a record of s says is true: its parent is an ancestor of s or, if it is
\* said to have none, s may be a root; and its root is one that s leads to.
TrueRecord(s, r, M) ==
    /\ r.parentID \in Ancestors[s] \cup {Null, Undefined}
    /\ r.parentID = Null => Leads(s, s, M)
    /\ r.rootSessionID \in Session \cup {Undefined}
    /\ r.rootSessionID # Undefined => Leads(s, r.rootSessionID, M)

Fields == [parentID : Session \cup {Null, Undefined}, rootSessionID : Session \cup {Undefined}]

TrueHeap(h, M) ==
    /\ h \in [Record -> Fields]
    /\ \A r \in Record : TrueRecord(r[1], h[r], M)

\* Levels of a lookup of s: they all have its root and, if their chain ends,
\* each descends from all above it.
Line(levels, s) ==
    /\ levels \in Seq(Ref)
    /\ \A i \in 1..Len(levels) : Root[levels[i][1]] = Root[s]
    /\ s \in Rooted => \A i, j \in 1..Len(levels) :
                          i < j => levels[j][1] \in Ancestors[levels[i][1]]

Modes == {"new", "host", "level", "over"}

\* A lookup of s with these levels that awaits m and came to v.
OnItsWay(s, levels, m, v, M) ==
    /\ Line(levels, s)
    /\ m = "new" => levels = <<>>
    /\ m # "new" => s \in Session
    /\ m \in {"host", "level"} => levels # <<>>
    /\ m \in {"level", "over"} => Leads(s, v, M)

WalkInv ==
    /\ stack \in [Lookup -> Seq(Ref)]
    /\ mode  \in [Lookup -> Modes]
    /\ value \in [Lookup -> Session \cup {Undefined}]
    /\ misled \subseteq Session
    /\ TrueHeap(heap, misled)
    /\ \A w \in Lookup : OnItsWay(asked[w], stack[w], mode[w], value[w], misled)

LEMMA Higher ==
  ASSUME SessionStoreAssumption, NEW s \in Session, NEW a \in Ancestors[s]
  PROVE  /\ a \in Session /\ a # s /\ Root[a] = Root[s]
         /\ s \in Rooted => a \in Rooted /\ Ancestors[a] \subseteq Ancestors[s]
BY DEF SessionStoreAssumption, Rooted

LEMMA SameRoot ==
  ASSUME NEW s \in Session, NEW a \in Session, Root[a] = Root[s], NEW v, NEW M, Leads(a, v, M)
  PROVE  Leads(s, v, M)
BY DEF Leads, Rooted

\* Roots lead to themselves, and so does whoever the host misled them about.
LEMMA OwnRoot ==
  ASSUME SessionStoreAssumption, NEW s \in Session, NEW M, Ancestors[s] = {} \/ s \in M
  PROVE  Leads(s, s, M)
BY DEF SessionStoreAssumption, Leads

LEMMA TopRef ==
  ASSUME Shape, NEW s \in Session
  PROVE  RefOf(s) \in Ref /\ RefOf(s)[1] = s
BY DEF Shape, RefOf, Ref

LEMMA RecordOfRef ==
  ASSUME SessionStoreAssumption, NEW ref \in Ref, ref[2] # 0
  PROVE  ref \in Record
BY DEF SessionStoreAssumption, Ref, Record

LEMMA TrueRef ==
  ASSUME SessionStoreAssumption, NEW M, TrueHeap(heap, M), NEW ref \in Ref
  PROVE  /\ ParentIn(ref) \in Ancestors[ref[1]] \cup {Null, Undefined}
         /\ ParentIn(ref) = Null => Leads(ref[1], ref[1], M)
         /\ RootIn(ref) \in Session \cup {Undefined}
         /\ RootIn(ref) # Undefined => Leads(ref[1], RootIn(ref), M)
<1>1. CASE ref[2] = 0
  BY <1>1 DEF ParentIn, RootIn, SessionStoreAssumption
<1>2. CASE ref[2] # 0
  <2>1. TrueRecord(ref[1], heap[ref], M)
    BY <1>2, RecordOfRef DEF TrueHeap
  <2> QED  BY <1>2, <2>1 DEF TrueRecord, ParentIn, RootIn
<1> QED  BY <1>1, <1>2

LEMMA SessionsOfRef ==
  ASSUME NEW ref \in Ref
  PROVE  ref[1] \in Session
BY DEF Ref

LEMMA ParentWritten ==
  ASSUME SessionStoreAssumption, NEW h, NEW M, TrueHeap(h, M), NEW ref \in Ref,
         NEW p \in Ancestors[ref[1]] \cup {Null}, p = Null => Leads(ref[1], ref[1], M)
  PROVE  TrueHeap(WithParent(h, ref, p), M)
<1>1. CASE ref[2] = 0
  BY <1>1 DEF WithParent
<1>2. CASE ref[2] # 0
  <2> DEFINE k == [h EXCEPT ![ref].parentID = p]
  <2>1. ref \in Record /\ ref[1] \in Session
    BY <1>2, RecordOfRef, SessionsOfRef
  <2>2. p \in Session \cup {Null}
    BY <2>1 DEF SessionStoreAssumption
  <2>3. h \in [Record -> Fields]
    BY DEF TrueHeap
  <2>4. k \in [Record -> Fields]
    BY <2>1, <2>2, <2>3 DEF Fields
  <2>5. ASSUME NEW r \in Record
        PROVE  TrueRecord(r[1], k[r], M)
    <3>1. TrueRecord(r[1], h[r], M)
      BY DEF TrueHeap
    <3>2. CASE r = ref
      <4>1. k[r].parentID = p /\ k[r].rootSessionID = h[r].rootSessionID
        BY <2>1, <2>3, <3>2 DEF Fields
      <4> QED  BY <3>1, <3>2, <4>1 DEF TrueRecord
    <3>3. CASE r # ref
      BY <2>3, <3>1, <3>3
    <3> QED  BY <3>2, <3>3
  <2> QED  BY <1>2, <2>4, <2>5 DEF WithParent, TrueHeap
<1> QED  BY <1>1, <1>2

LEMMA RootWritten ==
  ASSUME SessionStoreAssumption, NEW h, NEW M, TrueHeap(h, M), NEW ref \in Ref,
         NEW v \in Session \cup {Undefined}, v # Undefined => Leads(ref[1], v, M)
  PROVE  TrueHeap(WithRoot(h, ref, v), M)
<1>1. CASE ref[2] = 0
  BY <1>1 DEF WithRoot
<1>2. CASE ref[2] # 0
  <2> DEFINE k == [h EXCEPT ![ref].rootSessionID = v]
  <2>1. ref \in Record
    BY <1>2, RecordOfRef
  <2>2. h \in [Record -> Fields]
    BY DEF TrueHeap
  <2>3. k \in [Record -> Fields]
    BY <2>1, <2>2 DEF Fields
  <2>4. ASSUME NEW r \in Record
        PROVE  TrueRecord(r[1], k[r], M)
    <3>1. TrueRecord(r[1], h[r], M)
      BY DEF TrueHeap
    <3>2. CASE r = ref
      <4>1. k[r].rootSessionID = v /\ k[r].parentID = h[r].parentID
        BY <2>1, <2>2, <3>2 DEF Fields
      <4> QED  BY <3>1, <3>2, <4>1 DEF TrueRecord
    <3>3. CASE r # ref
      BY <2>2, <3>1, <3>3
    <3> QED  BY <3>2, <3>3
  <2> QED  BY <1>2, <2>3, <2>4 DEF WithRoot, TrueHeap
<1> QED  BY <1>1, <1>2

LEMMA MoreMisled ==
  ASSUME NEW h, NEW M, NEW N, M \subseteq N, TrueHeap(h, M)
  PROVE  TrueHeap(h, N)
BY DEF TrueHeap, TrueRecord, Leads

\* A record that nothing refers to says nothing.
LEMMA Swept ==
  ASSUME NEW h, NEW M, TrueHeap(h, M), HeapBecomes(h), Null # Undefined
  PROVE  TrueHeap(heap', M)
<1>1. Blank \in Fields /\ \A s : TrueRecord(s, Blank, M)
  BY DEF Blank, Fields, TrueRecord
<1>2. h \in [Record -> Fields] /\ \A r \in Record : TrueRecord(r[1], h[r], M)
  BY DEF TrueHeap
<1>3. /\ heap' = [r \in Record |-> heap'[r]]
      /\ \A r \in Record : heap'[r] = h[r] \/ heap'[r] = Blank
  BY DEF HeapBecomes
<1>4. heap' \in [Record -> Fields]
  BY <1>1, <1>2, <1>3
<1> QED  BY <1>1, <1>2, <1>3, <1>4 DEF TrueHeap

------------------------------------------------------------------------------
(* Levels. *)

LEMMA LineGrows ==
  ASSUME SessionStoreAssumption, NEW s \in Session, NEW levels, Line(levels, s),
         levels # <<>>, NEW ref \in Ref, ref[1] \in Ancestors[levels[Len(levels)][1]]
  PROVE  Line(Append(levels, ref), s)
<1> DEFINE n == Len(levels)
           more == Append(levels, ref)
<1>1. levels \in Seq(Ref) /\ n \in Nat /\ n > 0
  BY DEF Line
<1>2. /\ more \in Seq(Ref) /\ Len(more) = n + 1 /\ more[n + 1] = ref
      /\ \A i \in 1..n : more[i] = levels[i] /\ levels[i] \in Ref
  BY <1>1
<1> HIDE DEF more
<1>3. levels[n][1] \in Session /\ Root[levels[n][1]] = Root[s]
  BY <1>1, <1>2, SessionsOfRef DEF Line
<1>4. Root[ref[1]] = Root[s]
  BY <1>3, Higher
<1>5. ASSUME NEW i \in 1..n, s \in Rooted
      PROVE  ref[1] \in Ancestors[levels[i][1]]
  <2>1. levels[i][1] \in Session /\ Root[levels[i][1]] = Root[s]
    BY <1>2, SessionsOfRef DEF Line
  <2>2. levels[i][1] \in Rooted
    BY <1>5, <2>1 DEF Rooted
  <2>3. CASE i = n
    BY <2>3
  <2>4. CASE i # n
    <3>1. levels[n][1] \in Ancestors[levels[i][1]]
      BY <1>1, <1>5, <2>4 DEF Line
    <3> QED  BY <2>1, <2>2, <3>1, Higher
  <2> QED  BY <2>3, <2>4
<1>6. \A i \in 1..n+1 : Root[more[i][1]] = Root[s]
  BY <1>1, <1>2, <1>4 DEF Line
<1>7. ASSUME s \in Rooted, NEW i \in 1..n+1, NEW j \in 1..n+1, i < j
      PROVE  more[j][1] \in Ancestors[more[i][1]]
  <2>1. i \in 1..n
    BY <1>1, <1>7
  <2>2. CASE j = n + 1
    BY <1>2, <1>5, <1>7, <2>1, <2>2
  <2>3. CASE j # n + 1
    <3>1. j \in 1..n
      BY <1>1, <2>3
    <3> QED  BY <1>2, <1>7, <2>1, <3>1 DEF Line
  <2> QED  BY <2>2, <2>3
<1> QED  BY <1>2, <1>6, <1>7 DEF Line, more

LEMMA LineBegins ==
  ASSUME SessionStoreAssumption, NEW s \in Session, NEW ref \in Ref, ref[1] = s
  PROVE  Line(<<ref>>, s)
BY DEF Line

LEMMA Prefix ==
  ASSUME NEW s, NEW levels, Line(levels, s), NEW lower \in Seq(Ref),
         Len(lower) <= Len(levels), \A i \in 1..Len(lower) : lower[i] = levels[i]
  PROVE  Line(lower, s)
<1>1. levels \in Seq(Ref) /\ Len(levels) \in Nat /\ Len(lower) \in Nat
  BY DEF Line
<1>2. ASSUME NEW i \in 1..Len(lower)
      PROVE  i \in 1..Len(levels) /\ lower[i] = levels[i]
  BY <1>1
<1>3. \A i \in 1..Len(lower) : Root[lower[i][1]] = Root[s]
  BY <1>2 DEF Line
<1>4. s \in Rooted => \A i, j \in 1..Len(lower) :
                         i < j => lower[j][1] \in Ancestors[lower[i][1]]
  BY <1>2 DEF Line
<1> QED  BY <1>3, <1>4 DEF Line

LEMMA LineBelow ==
  ASSUME NEW s, NEW levels, Line(levels, s), levels # <<>>
  PROVE  Line(Below(levels), s)
<1>1. levels \in Seq(Ref) /\ Len(levels) \in Nat \ {0}
  BY DEF Line
<1>2. /\ Below(levels) \in Seq(Ref) /\ Len(Below(levels)) = Len(levels) - 1
      /\ \A i \in 1..Len(levels)-1 : Below(levels)[i] = levels[i]
  <2> DEFINE n == Len(levels) - 1
  <2>1. n \in Nat /\ n \in Int /\ \A i \in 1..n : levels[i] \in Ref
    BY <1>1
  <2> HIDE DEF n
  <2>2. /\ SubSeq(levels, 1, n) \in Seq(Ref) /\ Len(SubSeq(levels, 1, n)) = n
        /\ \A i \in 1..n : SubSeq(levels, 1, n)[i] = levels[i]
    BY <2>1, SubSeqProperties
  <2> QED  BY <2>2 DEF Below, n
<1> QED  BY <1>1, <1>2, Prefix

LEMMA LineBefore ==
  ASSUME NEW s, NEW levels \in Seq(Ref), NEW ref, Line(Append(levels, ref), s)
  PROVE  Line(levels, s)
<1> DEFINE more == Append(levels, ref)
<1>1. /\ Len(more) = Len(levels) + 1 /\ Len(levels) \in Nat
      /\ \A i \in 1..Len(levels) : levels[i] = more[i]
  OBVIOUS
<1>2. Line(more, s) /\ Len(levels) <= Len(more)
  BY <1>1
<1> HIDE DEF more
<1> QED  BY <1>1, <1>2, Prefix

LEMMA Top ==
  ASSUME NEW s, NEW levels, Line(levels, s), levels # <<>>
  PROVE  /\ levels[Len(levels)] \in Ref /\ levels[Len(levels)][1] \in Session
         /\ Root[levels[Len(levels)][1]] = Root[s]
<1>1. levels \in Seq(Ref) /\ Len(levels) \in 1..Len(levels)
  BY DEF Line
<1> QED  BY <1>1, SessionsOfRef DEF Line

\* A session of a chain that ends is not met twice.
LEMMA NotVisited ==
  ASSUME SessionStoreAssumption, NEW s \in Rooted, NEW levels \in Seq(Ref), NEW ref \in Ref,
         Line(Append(levels, ref), s)
  PROVE  ~Visited(levels, ref[1])
<1> DEFINE more == Append(levels, ref)
<1>1. /\ Len(more) = Len(levels) + 1 /\ Len(levels) \in Nat
      /\ \A i \in 1..Len(levels) : levels[i] = more[i] /\ levels[i] \in Ref
      /\ more[Len(levels) + 1] = ref
  OBVIOUS
<1> HIDE DEF more
<1>2. ASSUME NEW i \in 1..Len(levels)
      PROVE  levels[i][1] # ref[1]
  <2>1. ref[1] \in Ancestors[levels[i][1]]
    BY <1>1 DEF Line, more
  <2>2. levels[i][1] \in Session
    BY <1>1, SessionsOfRef
  <2> QED  BY <2>1, <2>2, Higher
<1> QED  BY <1>2 DEF Visited

------------------------------------------------------------------------------
(* The ways of a lookup. *)

\* The lookup w, which was asked for s, goes on.
Moves(w, s, M) ==
    \E levels \in Seq(Ref), m \in Modes, v \in Session \cup {Undefined} :
       /\ stack' = [stack EXCEPT ![w] = levels]
       /\ mode' = [mode EXCEPT ![w] = m]
       /\ value' = [value EXCEPT ![w] = v]
       /\ OnItsWay(s, levels, m, v, M)

LEMMA Returning ==
  ASSUME NEW w, NEW s \in Session, NEW levels, NEW v, NEW M,
         Line(levels, s), Leads(s, v, M), Returns(w, levels, v)
  PROVE  Moves(w, s, M)
<1> DEFINE m == IF levels = <<>> THEN "over" ELSE "level"
<1>1. levels \in Seq(Ref) /\ m \in Modes /\ v \in Session
  BY DEF Line, Leads, Modes
<1>2. OnItsWay(s, levels, m, v, M)
  BY DEF OnItsWay
<1> QED  BY <1>1, <1>2 DEF Moves, Returns

LEMMA Asking ==
  ASSUME NEW w \in Lookup, NEW s \in Session, NEW levels, NEW M,
         value \in [Lookup -> Session \cup {Undefined}],
         Line(levels, s), levels # <<>>, AsksHost(w, levels)
  PROVE  Moves(w, s, M)
<1>1. levels \in Seq(Ref) /\ "host" \in Modes /\ value[w] \in Session \cup {Undefined}
  BY DEF Line, Modes
<1>2. OnItsWay(s, levels, "host", value[w], M)
  BY DEF OnItsWay
<1>3. value' = [value EXCEPT ![w] = value[w]]
  BY DEF AsksHost
<1> QED  BY <1>1, <1>2, <1>3 DEF Moves, AsksHost

LEMMA Concluding ==
  ASSUME SessionStoreAssumption, Shape, value \in [Lookup -> Session \cup {Undefined}],
         NEW M, TrueHeap(heap, M), NEW h, TrueHeap(h, M), NEW w \in Lookup,
         NEW s \in Session, NEW x \in Session, NEW levels \in Seq(Ref),
         Line(Append(levels, RefOf(x)), s), Concludes(w, levels, x, h)
  PROVE  Moves(w, s, M) /\ TrueHeap(heap', M)
<1> DEFINE ref == RefOf(x)
           p == ParentIn(ref)
           more == Append(levels, ref)
<1>1. ref \in Ref /\ ref[1] = x
  BY TopRef
<1>2. Line(levels, s) /\ more # <<>>
  BY LineBefore
<1>3. Root[x] = Root[s]
  <2>1. more[Len(more)] = ref /\ Line(more, s)
    BY <1>1
  <2> HIDE DEF more
  <2> QED  BY <1>1, <1>2, <2>1, Top
<1>4. Null # Undefined
  BY DEF SessionStoreAssumption
<1>5. CASE Visited(levels, x) /\ Returns(w, levels, x) /\ HeapBecomes(h)
  <2>1. Leads(s, x, M)
    BY <1>1, <1>5, NotVisited DEF Leads
  <2> QED  BY <1>2, <1>4, <1>5, <2>1, Returning, Swept
<1>6. CASE AsksHost(w, more) /\ HeapBecomes(h)
  BY <1>2, <1>4, <1>6, Asking, Swept
<1>7. CASE p = Null /\ Returns(w, levels, x) /\ HeapBecomes(WithRoot(h, ref, x))
  <2>1. Leads(x, x, M)
    BY <1>1, <1>7, TrueRef
  <2>2. Leads(s, x, M)
    BY <1>3, <2>1, SameRoot
  <2>3. TrueHeap(WithRoot(h, ref, x), M)
    BY <1>1, <2>1, RootWritten
  <2> QED  BY <1>2, <1>4, <1>7, <2>2, <2>3, Returning, Swept
<1>8. CASE Cached(ref, p) /\ Returns(w, levels, RootIn(ref)) /\ HeapBecomes(h)
  <2>1. Leads(x, RootIn(ref), M)
    BY <1>1, <1>8, TrueRef DEF Cached
  <2>2. Leads(s, RootIn(ref), M)
    BY <1>3, <2>1, SameRoot
  <2> QED  BY <1>2, <1>4, <1>8, <2>2, Returning, Swept
<1> QED  BY <1>5, <1>6, <1>7, <1>8 DEF Concludes

------------------------------------------------------------------------------
(* Induction over the numbers, from the well-foundedness of finite sets. *)

LEMMA LeastNumber ==
  ASSUME NEW T \in SUBSET Nat, T # {}
  PROVE  \E n \in T : \A m \in T : n <= m
<1> DEFINE U == {1..n : n \in T}
<1>1. U \subseteq FiniteSubsetsOf(Nat) /\ U # {}
  <2>1. \A n \in T : 1..n \subseteq Nat /\ IsFiniteSet(1..n)
    BY FS_Interval
  <2> QED  BY <2>1 DEF FiniteSubsetsOf
<1>2. IsWellFoundedOn(StrictSubsetOrdering(Nat), FiniteSubsetsOf(Nat))
  BY FS_StrictSubsetOrderingWellFounded
<1>3. PICK x \in U : \A y \in U : ~ (<<y, x>> \in StrictSubsetOrdering(Nat))
  <2> HIDE DEF U
  <2> QED BY <1>1, <1>2, WFMin
<1>4. PICK n \in T : x = 1..n
  BY <1>3
<1>5. ASSUME NEW m \in T
      PROVE  n <= m
  <2>1. <<1..m, 1..n>> \notin StrictSubsetOrdering(Nat)
    BY <1>3, <1>4
  <2>2. SUFFICES ASSUME m < n
                 PROVE  FALSE
    OBVIOUS
  <2>3. 1..m \subseteq 1..n /\ n \in 1..n /\ n \notin 1..m /\ 1..n \subseteq Nat
    BY <2>2
  <2> QED  BY <2>1, <2>3 DEF StrictSubsetOrdering
<1> QED  BY <1>4, <1>5

LEMMA Induction ==
  ASSUME NEW S, 0 \in S, \A n \in Nat : n \in S => n + 1 \in S
  PROVE  Nat \subseteq S
<1> SUFFICES ASSUME Nat \ S # {}
             PROVE  FALSE
  OBVIOUS
<1>1. PICK n \in Nat \ S : \A m \in Nat \ S : n <= m
  <2>1. Nat \ S \in SUBSET Nat
    OBVIOUS
  <2> QED  BY <2>1, LeastNumber
<1>2. n - 1 \in Nat /\ n - 1 \in S
  BY <1>1
<1> QED  BY <1>1, <1>2

------------------------------------------------------------------------------
(* The chain followed without awaiting: a recursive function. *)

NextAbove(x) == IF Stops(x) THEN x ELSE ParentIn(RefOf(x))

IsAbove(up, s) == up = [i \in 0..Cardinality(Session) |->
                          IF i = 0 THEN s
                          ELSE IF Stops(up[i - 1]) THEN up[i - 1] ELSE ParentIn(RefOf(up[i - 1]))]

\* The first n of them.
AboveTo(up, s, n) ==
    up = [i \in 0..n |-> up[i]] /\ up[0] = s /\ \A i \in 1..n : up[i] = NextAbove(up[i - 1])

LEMMA OneAbove ==
  ASSUME NEW s, NEW n \in Nat, NEW up, AboveTo(up, s, n)
  PROVE  \E x : AboveTo(x, s, n + 1)
<1> DEFINE x == [i \in 0..(n + 1) |-> IF i = n + 1 THEN NextAbove(up[n]) ELSE up[i]]
<1>1. x = [i \in 0..(n + 1) |-> x[i]]
  OBVIOUS
<1>2. x[0] = s /\ x[n + 1] = NextAbove(up[n]) /\ \A i \in 0..n : x[i] = up[i]
  BY DEF AboveTo
<1> HIDE DEF x
<1>3. ASSUME NEW i \in 1..(n + 1)
      PROVE  x[i] = NextAbove(x[i - 1])
  <2>1. CASE i = n + 1
    BY <1>2, <2>1
  <2>2. CASE i # n + 1
    <3>1. i \in 0..n /\ i \in 1..n /\ i - 1 \in 0..n
      BY <2>2
    <3>2. x[i] = up[i] /\ x[i - 1] = up[i - 1]
      BY <1>2, <3>1
    <3> QED  BY <3>1, <3>2 DEF AboveTo
  <2> QED  BY <2>1, <2>2
<1> QED  BY <1>1, <1>2, <1>3 DEF AboveTo

LEMMA AboveExists ==
  ASSUME NEW s, NEW N \in Nat
  PROVE  \E up : AboveTo(up, s, N)
<1> DEFINE S == {n \in Nat : \E up : AboveTo(up, s, n)}
<1>1. 0 \in S
  <2> DEFINE up == [i \in 0..0 |-> s]
  <2>1. AboveTo(up, s, 0)
    BY DEF AboveTo
  <2> QED  BY <2>1
<1>2. ASSUME NEW n \in Nat, n \in S
      PROVE  n + 1 \in S
  BY <1>2, OneAbove
<1> HIDE DEF S
<1>3. N \in S
  BY <1>1, <1>2, Induction
<1> QED  BY <1>3 DEF S

LEMMA AboveIs ==
  ASSUME SessionStoreAssumption, NEW s
  PROVE  AboveTo(Above(s), s, Cardinality(Session))
<1> DEFINE N == Cardinality(Session)
<1>1. N \in Nat
  BY FS_CardinalityType DEF SessionStoreAssumption
<1>2. \E up : IsAbove(up, s)
  <2>1. PICK up : AboveTo(up, s, N)
    BY <1>1, AboveExists
  <2>2. up = [i \in 0..N |-> IF i = 0 THEN s ELSE NextAbove(up[i - 1])]
    <3>1. ASSUME NEW i \in 0..N
          PROVE  up[i] = IF i = 0 THEN s ELSE NextAbove(up[i - 1])
      <4>1. up[0] = s /\ \A k \in 1..N : up[k] = NextAbove(up[k - 1])
        BY <2>1, Zenon DEF AboveTo
      <4> HIDE DEF N
      <4> QED  BY <1>1, <4>1
    <3>2. up = [i \in 0..N |-> up[i]]
      BY <2>1, Zenon DEF AboveTo
    <3>3. [i \in 0..N |-> up[i]] = [i \in 0..N |-> IF i = 0 THEN s ELSE NextAbove(up[i - 1])]
      BY <3>1, Zenon
    <3> QED  BY <3>2, <3>3, Zenon
  <2> QED  BY <2>2, Zenon DEF IsAbove, NextAbove
<1>3. IsAbove(Above(s), s)
  BY <1>2, Zenon DEF IsAbove, Above
<1>4. Above(s) = [i \in 0..N |-> IF i = 0 THEN s ELSE NextAbove(Above(s)[i - 1])]
  BY <1>3, Zenon DEF IsAbove, NextAbove
<1>5. \A i \in 0..N : Above(s)[i] = IF i = 0 THEN s ELSE NextAbove(Above(s)[i - 1])
  BY <1>4, Zenon
<1>6. Above(s)[0] = s /\ \A i \in 1..N : Above(s)[i] = NextAbove(Above(s)[i - 1])
  <2> HIDE DEF N
  <2> QED  BY <1>1, <1>5
<1>7. Above(s) = [i \in 0..N |-> Above(s)[i]]
  BY <1>4, <1>5, Zenon
<1> QED  BY <1>6, <1>7, Zenon DEF AboveTo

\* Levels of sessions are levels; one more session is one more level.
LEMMA LevelsGrow ==
  ASSUME Shape, NEW levels \in Seq(Ref), NEW up, NEW i \in Nat, \A j \in 0..i : up[j] \in Session
  PROVE  /\ levels \o Levels(up, i) \in Seq(Ref)
         /\ levels \o Levels(up, i + 1) = Append(levels \o Levels(up, i), RefOf(up[i]))
<1>1. ASSUME NEW n \in {i, i + 1}
      PROVE  Levels(up, n) \in Seq(Ref) /\ Len(Levels(up, n)) = n
  <2>1. n \in Nat
    BY <1>1
  <2>2. ASSUME NEW j \in 1..n
        PROVE  RefOf(up[j - 1]) \in Ref
    <3>1. j - 1 \in 0..i
      BY <1>1, <2>2
    <3> QED  BY <3>1, TopRef
  <2> QED  BY <2>1, <2>2 DEF Levels
<1> DEFINE a == Levels(up, i)
           b == Levels(up, i + 1)
           r == RefOf(up[i])
<1>2. /\ a \in Seq(Ref) /\ b \in Seq(Ref) /\ Len(a) = i /\ Len(b) = i + 1
      /\ \A j \in 1..i : b[j] = a[j]
      /\ b[i + 1] = r /\ r \in Ref
  <2>1. \A j \in 1..i : b[j] = a[j]
    BY DEF Levels
  <2>2. b[i + 1] = r
    BY DEF Levels
  <2>3. r \in Ref
    BY TopRef
  <2> QED  BY <1>1, <2>1, <2>2, <2>3
<1> HIDE DEF a, b, r
<1> DEFINE p == levels \o b
           q == Append(levels \o a, r)
<1>3. levels \o a \in Seq(Ref) /\ Len(levels \o a) = Len(levels) + i /\ Len(levels) \in Nat
  BY <1>2
<1>4. p \in Seq(Ref) /\ q \in Seq(Ref) /\ Len(p) = Len(levels) + i + 1 /\ Len(q) = Len(p)
  BY <1>2, <1>3
<1>5. ASSUME NEW k \in 1..Len(p)
      PROVE  p[k] = q[k]
  <2>1. CASE k <= Len(levels)
    BY <1>2, <1>3, <1>4, <2>1
  <2>2. CASE k > Len(levels) /\ k <= Len(levels) + i
    <3>1. k - Len(levels) \in 1..i
      BY <1>3, <1>4, <2>2
    <3>2. p[k] = b[k - Len(levels)] /\ q[k] = a[k - Len(levels)]
      BY <1>2, <1>3, <1>4, <2>2, <3>1
    <3> QED  BY <1>2, <3>1, <3>2
  <2>3. CASE k = Len(levels) + i + 1
    <3>1. p[k] = b[i + 1] /\ q[k] = r
      BY <1>2, <1>3, <1>4, <2>3
    <3> QED  BY <1>2, <3>1
  <2>4. k \in Nat /\ k <= Len(levels) + i + 1
    BY <1>3, <1>4
  <2> HIDE DEF p, q
  <2> QED  BY <1>3, <2>1, <2>2, <2>3, <2>4
<1> HIDE DEF p, q
<1>6. p = q
  BY <1>4, <1>5
<1> QED  BY <1>3, <1>6 DEF p, q, a, b, r

LEMMA Resolving ==
  ASSUME SessionStoreAssumption, Shape, value \in [Lookup -> Session \cup {Undefined}],
         NEW M, TrueHeap(heap, M), NEW h, TrueHeap(h, M), NEW w \in Lookup,
         NEW s \in Session, NEW x \in Session, NEW levels \in Seq(Ref),
         Line(Append(levels, RefOf(x)), s), Resolves(w, levels, x, h)
  PROVE  Moves(w, s, M) /\ TrueHeap(heap', M)
<1> DEFINE N == Cardinality(Session)
           up == Above(x)
           upTo(i) == levels \o Levels(up, i)
           T(i) == /\ \A j \in 0..i : up[j] \in Session
                   /\ Line(Append(upTo(i), RefOf(up[i])), s)
<1>1. N \in Nat
  BY FS_CardinalityType DEF SessionStoreAssumption
<1>2. AboveTo(up, x, N)
  BY AboveIs
<1>3. PICK n \in 0..N : (\A i \in 0..n-1 : ~Stops(up[i])) /\ Concludes(w, upTo(n), up[n], h)
  BY DEF Resolves
<1> DEFINE S == {i \in Nat : i <= n => T(i)}
<1> HIDE DEF N, up
<1>4. 0 \in S
  <2>1. up[0] = x
    BY <1>2 DEF AboveTo
  <2>2. upTo(0) = levels
    <3>1. Levels(up, 0) = <<>>
      BY DEF Levels
    <3> QED  BY <3>1
  <2>3. Line(Append(upTo(0), RefOf(up[0])), s)
    BY <2>1, <2>2
  <2>4. \A j \in 0..0 : up[j] \in Session
    BY <2>1
  <2> QED  BY <2>3, <2>4
<1>5. ASSUME NEW i \in Nat, i \in S
      PROVE  i + 1 \in S
  <2> SUFFICES ASSUME i + 1 <= n
               PROVE  T(i + 1)
    OBVIOUS
  <2> DEFINE top == RefOf(up[i])
             lower == Append(upTo(i), top)
             y == up[i + 1]
  <2>1. T(i) /\ i \in 0..n-1 /\ i \in 0..i /\ i + 1 \in 1..N
    BY <1>1, <1>3, <1>5
  <2>2. up[i] \in Session /\ ~Stops(up[i]) /\ y = ParentIn(top)
    <3>1. up[i] \in Session /\ ~Stops(up[i])
      BY <1>3, <2>1
    <3>2. up[i + 1] = NextAbove(up[i])
      <4>1. \A k \in 1..N : up[k] = NextAbove(up[k - 1])
        BY <1>2 DEF AboveTo
      <4> QED  BY <2>1, <4>1
    <3> QED  BY <3>1, <3>2 DEF NextAbove
  <2>3. top \in Ref /\ top[1] = up[i]
    BY <2>2, TopRef
  <2>4. y \in Ancestors[up[i]] /\ y \in Session
    <3>1. y \in Ancestors[up[i]] \cup {Null, Undefined}
      BY <2>2, <2>3, TrueRef
    <3>2. y \notin {Null, Undefined}
      BY <2>2 DEF Stops
    <3> QED  BY <2>2, <3>1, <3>2, Higher
  <2>5. /\ upTo(i) \in Seq(Ref) /\ upTo(i + 1) = lower
    BY <2>1, LevelsGrow
  <2>6. Line(lower, s) /\ lower # <<>> /\ lower[Len(lower)] = top
    <3>1. Line(lower, s)
      BY <2>1
    <3>2. lower # <<>> /\ lower[Len(lower)] = top
      <4> HIDE DEF upTo, top
      <4>1. upTo(i) \in Seq(Ref) /\ top \in Ref
        BY <2>3, <2>5
      <4>2. lower # <<>> /\ Len(lower) = Len(upTo(i)) + 1 /\ lower[Len(upTo(i)) + 1] = top
        BY <4>1, AppendProperties
      <4> HIDE DEF lower
      <4> QED  BY <4>2
    <3> QED  BY <3>1, <3>2
  <2>7. RefOf(y) \in Ref /\ RefOf(y)[1] = y
    BY <2>4, TopRef
  <2>8. Line(Append(lower, RefOf(y)), s)
    <3> HIDE DEF lower, top, y
    <3> QED  BY <2>3, <2>4, <2>6, <2>7, LineGrows
  <2>9. \A j \in 0..i+1 : up[j] \in Session
    BY <2>1, <2>4
  <2> QED  BY <2>5, <2>8, <2>9
<1> HIDE DEF S
<1>6. n \in S /\ n \in Nat
  BY <1>1, <1>4, <1>5, Induction
<1>7. T(n) /\ up[n] \in Session
  BY <1>6 DEF S
<1>8. upTo(n) \in Seq(Ref)
  BY <1>6, <1>7, LevelsGrow
<1> HIDE DEF upTo
<1> QED  BY <1>3, <1>7, <1>8, Concluding

------------------------------------------------------------------------------
(* Every step keeps records and lookups true. *)

LEMMA LeadsOn ==
  ASSUME NEW s, NEW v, NEW M, NEW N, M \subseteq N, Leads(s, v, M)
  PROVE  Leads(s, v, N)
BY DEF Leads

LEMMA LookupMoved ==
  ASSUME WalkInv, NEW w \in Lookup, NEW s \in Session, asked'[w] = s,
         \A x \in Lookup \ {w} : asked'[x] = asked[x],
         misled \subseteq misled', misled' \subseteq Session,
         Moves(w, s, misled'), TrueHeap(heap', misled')
  PROVE  WalkInv'
<1>1. PICK levels \in Seq(Ref), m \in Modes, v \in Session \cup {Undefined} :
          /\ stack' = [stack EXCEPT ![w] = levels]
          /\ mode' = [mode EXCEPT ![w] = m]
          /\ value' = [value EXCEPT ![w] = v]
          /\ OnItsWay(s, levels, m, v, misled')
  BY DEF Moves
<1>2. /\ stack' \in [Lookup -> Seq(Ref)] /\ mode' \in [Lookup -> Modes]
      /\ value' \in [Lookup -> Session \cup {Undefined}]
      /\ stack'[w] = levels /\ mode'[w] = m /\ value'[w] = v
      /\ \A x \in Lookup \ {w} : stack'[x] = stack[x] /\ mode'[x] = mode[x] /\ value'[x] = value[x]
  BY <1>1 DEF WalkInv
<1>3. ASSUME NEW x \in Lookup
      PROVE  OnItsWay(asked'[x], stack'[x], mode'[x], value'[x], misled')
  <2>1. CASE x = w
    BY <1>1, <1>2, <2>1
  <2>2. CASE x # w
    <3>1. OnItsWay(asked[x], stack[x], mode[x], value[x], misled)
      BY DEF WalkInv
    <3>2. OnItsWay(asked[x], stack[x], mode[x], value[x], misled')
      BY <3>1, LeadsOn DEF OnItsWay
    <3> QED  BY <1>2, <2>2, <3>2
  <2> QED  BY <2>1, <2>2
<1> QED  BY <1>2, <1>3 DEF WalkInv

LEMMA LookupsStay ==
  ASSUME WalkInv, UNCHANGED <<asked, stack, mode, value, misled>>, TrueHeap(heap', misled)
  PROVE  WalkInv'
<1>1. ASSUME NEW w \in Lookup
      PROVE  OnItsWay(asked'[w], stack'[w], mode'[w], value'[w], misled')
  <2>1. OnItsWay(asked[w], stack[w], mode[w], value[w], misled)
    BY DEF WalkInv
  <2> QED  BY <2>1
<1> QED  BY <1>1 DEF WalkInv

LEMMA RecordRef ==
  ASSUME SessionStoreAssumption, Shape, NEW s \in Session, GetOrCreateSession(s)
  PROVE  <<s, Made(s)>> \in Ref
<1>1. sessions'[s] = Made(s) /\ sessions' \in [Session -> 0..MaxRecords]
  BY RecordMade DEF GetOrCreateSession, Shape
<1> QED  BY <1>1 DEF Ref

LEMMA RememberedTrue ==
  ASSUME SessionStoreAssumption, Shape, WalkInv, NEW s \in Session,
         NEW p \in {Undefined} \cup Ancestors[s], RememberSession(s, p)
  PROVE  WalkInv'
<1> DEFINE ref == <<s, Made(s)>>
           inherited == RootIn(RefOf(p))
           h == WithRoot(WithParent(heap, ref, p), ref, inherited)
<1>1. TrueHeap(heap, misled) /\ Null # Undefined /\ Undefined \notin Session
  BY DEF WalkInv, SessionStoreAssumption
<1>2. UNCHANGED <<asked, stack, mode, value, misled>>
  BY DEF RememberSession
<1>3. CASE p = Undefined
  <2>1. HeapBecomes(heap)
    BY <1>3 DEF RememberSession
  <2> QED  BY <1>1, <1>2, <2>1, Swept, LookupsStay
<1>4. CASE p # Undefined
  <2>1. p \in Ancestors[s] /\ p \in Session /\ Root[p] = Root[s]
    BY <1>4, Higher
  <2>2. p # Null
    BY <2>1 DEF SessionStoreAssumption
  <2>3. ref \in Ref /\ ref[1] = s
    BY RecordRef DEF RememberSession
  <2>4. RefOf(p) \in Ref /\ RefOf(p)[1] = p
    BY <2>1, TopRef
  <2>5. /\ inherited \in Session \cup {Undefined}
        /\ inherited # Undefined => Leads(p, inherited, misled)
    BY <1>1, <2>4, TrueRef
  <2>6. HeapBecomes(h)
    BY <1>4 DEF RememberSession
  <2> HIDE DEF ref, inherited
  <2>7. inherited # Undefined => Leads(s, inherited, misled)
    BY <2>1, <2>5, SameRoot
  <2>8. TrueHeap(WithParent(heap, ref, p), misled)
    BY <1>1, <2>1, <2>2, <2>3, ParentWritten
  <2>9. TrueHeap(h, misled)
    BY <2>3, <2>5, <2>7, <2>8, RootWritten
  <2> QED  BY <1>1, <1>2, <2>6, <2>9, Swept, LookupsStay
<1> QED  BY <1>3, <1>4

LEMMA StartedTrue ==
  ASSUME SessionStoreAssumption, Shape, WalkInv, NEW w \in Lookup, NEW s \in Session,
         StartLookup(w, s)
  PROVE  WalkInv'
<1>1. /\ value \in [Lookup -> Session \cup {Undefined}]
      /\ TrueHeap(heap, misled) /\ Null # Undefined /\ misled' = misled /\ misled \subseteq Session
  BY DEF WalkInv, SessionStoreAssumption, StartLookup
<1>2. asked'[w] = s /\ \A x \in Lookup \ {w} : asked'[x] = asked[x]
  BY DEF StartLookup, Shape
<1>3. Moves(w, s, misled) /\ TrueHeap(heap', misled)
  <2>1. CASE Live(s)
    <3>1. Resolves(w, <<>>, s, heap)
      BY <2>1 DEF StartLookup
    <3>2. RefOf(s) \in Ref /\ RefOf(s)[1] = s
      BY TopRef
    <3>3. Line(<<RefOf(s)>>, s)
      BY <3>2, LineBegins
    <3>4. Append(<<>>, RefOf(s)) = <<RefOf(s)>> /\ <<>> \in Seq(Ref)
      BY <3>2
    <3>5. Line(Append(<<>>, RefOf(s)), s)
      BY <3>3, <3>4
    <3> QED  BY <1>1, <3>1, <3>4, <3>5, Resolving
  <2>2. CASE ~Live(s)
    <3> DEFINE ref == <<s, Made(s)>>
    <3>1. AsksHost(w, <<ref>>) /\ HeapBecomes(heap)
      BY <2>2 DEF StartLookup
    <3>2. ref \in Ref /\ ref[1] = s
      BY RecordRef DEF StartLookup
    <3> HIDE DEF ref
    <3>3. Line(<<ref>>, s) /\ <<ref>> # <<>>
      BY <3>2, LineBegins
    <3> QED  BY <1>1, <3>1, <3>3, Asking, Swept
  <2> QED  BY <2>1, <2>2
<1> QED  BY <1>1, <1>2, <1>3, LookupMoved

\* What a lookup that awaits has: a level to resume.
LEMMA Resumable ==
  ASSUME WalkInv, NEW w \in Lookup, mode[w] \in {"host", "level"}
  PROVE  /\ asked[w] \in Session /\ Line(stack[w], asked[w]) /\ stack[w] # <<>>
         /\ stack[w] \in Seq(Ref)
         /\ stack[w][Len(stack[w])] \in Ref
         /\ stack[w][Len(stack[w])][1] \in Session
         /\ Root[stack[w][Len(stack[w])][1]] = Root[asked[w]]
         /\ Line(Below(stack[w]), asked[w])
<1>1. OnItsWay(asked[w], stack[w], mode[w], value[w], misled) /\ stack[w] \in Seq(Ref)
  BY DEF WalkInv
<1>2. asked[w] \in Session /\ Line(stack[w], asked[w]) /\ stack[w] # <<>>
  BY <1>1 DEF OnItsWay
<1> QED  BY <1>1, <1>2, Top, LineBelow

LEMMA AnsweredTrue ==
  ASSUME SessionStoreAssumption, Shape, WalkInv, NEW w \in Lookup, mode[w] = "host",
         NEW N, misled \subseteq N,
         NEW a \in Ancestors[stack[w][Len(stack[w])][1]] \cup {Null},
         a = Null => Leads(stack[w][Len(stack[w])][1], stack[w][Len(stack[w])][1], N),
         HostAnswers(w, a)
  PROVE  Moves(w, asked[w], N) /\ TrueHeap(heap', N)
<1> DEFINE levels == stack[w]
           ref == levels[Len(levels)]
           x == ref[1]
           s == asked[w]
           h == WithParent(heap, ref, a)
<1>1. /\ s \in Session /\ Line(levels, s) /\ levels # <<>> /\ levels \in Seq(Ref)
      /\ ref \in Ref /\ x \in Session /\ Root[x] = Root[s] /\ Line(Below(levels), s)
  BY Resumable
<1>2. /\ value \in [Lookup -> Session \cup {Undefined}]
      /\ TrueHeap(heap, N) /\ Null # Undefined /\ Null \notin Session
  BY MoreMisled DEF WalkInv, SessionStoreAssumption
<1>3. TrueHeap(h, N)
  BY <1>1, <1>2, ParentWritten
<1>4. \/ a = Null /\ Returns(w, Below(levels), x) /\ HeapBecomes(WithRoot(h, ref, x))
      \/ a \in Session /\ Cached(ref, a) /\ Returns(w, Below(levels), RootIn(ref)) /\ HeapBecomes(h)
      \/ a \in Session /\ Resolves(w, levels, a, h)
  BY DEF HostAnswers
<1>5. a = Null => Leads(x, x, N)
  OBVIOUS
<1>6. a \in Ancestors[x] \cup {Null}
  OBVIOUS
<1> HIDE DEF h, x, ref, levels, s
<1>7. CASE a = Null /\ Returns(w, Below(levels), x) /\ HeapBecomes(WithRoot(h, ref, x))
  <2>1. Leads(ref[1], x, N)
    BY <1>5, <1>7 DEF x
  <2>2. Leads(s, x, N)
    BY <1>1, <1>5, <1>7, SameRoot
  <2>3. TrueHeap(WithRoot(h, ref, x), N)
    BY <1>1, <1>3, <2>1, RootWritten
  <2> QED  BY <1>1, <1>2, <1>7, <2>2, <2>3, Returning, Swept DEF s
<1>8. CASE Cached(ref, a) /\ Returns(w, Below(levels), RootIn(ref)) /\ HeapBecomes(h)
  <2>1. Leads(x, RootIn(ref), N)
    BY <1>1, <1>2, <1>8, TrueRef DEF Cached, x
  <2>2. Leads(s, RootIn(ref), N)
    BY <1>1, <2>1, SameRoot
  <2> QED  BY <1>1, <1>2, <1>3, <1>8, <2>2, Returning, Swept DEF s
<1>9. CASE a \in Session /\ Resolves(w, levels, a, h)
  <2>1. a \in Ancestors[x]
    BY <1>2, <1>6, <1>9
  <2>2. RefOf(a) \in Ref /\ RefOf(a)[1] = a
    BY <1>9, TopRef
  <2>3. Line(Append(levels, RefOf(a)), s)
    BY <1>1, <2>1, <2>2, LineGrows DEF x, ref
  <2> QED  BY <1>1, <1>2, <1>3, <1>9, <2>3, Resolving DEF s
<1> QED  BY <1>4, <1>7, <1>8, <1>9

LEMMA ResolvedTrue ==
  ASSUME SessionStoreAssumption, Shape, WalkInv, NEW w \in Lookup, ParentResolved(w)
  PROVE  WalkInv'
<1> DEFINE x == stack[w][Len(stack[w])][1]
<1>1. mode[w] = "host" /\ misled \subseteq Session
  BY DEF ParentResolved, WalkInv
<1>2. asked[w] \in Session /\ x \in Session
  BY <1>1, Resumable
<1>3. PICK a \in Ancestors[x] \cup {Null} :
         /\ HostAnswers(w, a)
         /\ \/ a # Null /\ misled' = misled
            \/ a = Null /\ misled' = IF Ancestors[x] = {} THEN misled ELSE misled \cup {x}
  <2>1. \A a \in Ancestors[x] : a # Null
    BY <1>2 DEF SessionStoreAssumption
  <2> QED  BY <2>1 DEF ParentResolved
<1>4. misled \subseteq misled' /\ misled' \subseteq Session
  BY <1>1, <1>2, <1>3
<1>5. a = Null => Leads(x, x, misled')
  <2>1. a = Null => Ancestors[x] = {} \/ x \in misled'
    BY <1>3
  <2> HIDE DEF x
  <2> QED  BY <1>2, <2>1, OwnRoot
<1>6. asked' = asked
  BY <1>3 DEF HostAnswers
<1>7. Moves(w, asked[w], misled') /\ TrueHeap(heap', misled')
  BY <1>1, <1>3, <1>4, <1>5, AnsweredTrue
<1> QED  BY <1>2, <1>4, <1>6, <1>7, LookupMoved

LEMMA ResumedTrue ==
  ASSUME SessionStoreAssumption, Shape, WalkInv, NEW w \in Lookup, LevelResumes(w)
  PROVE  WalkInv'
<1> DEFINE levels == stack[w]
           ref == levels[Len(levels)]
           s == asked[w]
           v == value[w]
           h == WithRoot(heap, ref, v)
<1>1. /\ mode[w] = "level" /\ asked' = asked /\ misled' = misled
      /\ Returns(w, Below(levels), v) /\ HeapBecomes(h)
  BY DEF LevelResumes
<1>2. s \in Session /\ ref \in Ref /\ ref[1] \in Session /\ Root[ref[1]] = Root[s]
      /\ Line(Below(levels), s)
  BY <1>1, Resumable
<1>3. Leads(s, v, misled) /\ TrueHeap(heap, misled) /\ misled \subseteq Session
  BY <1>1 DEF WalkInv, OnItsWay
<1>4. v \in Session /\ Leads(ref[1], v, misled) /\ Null # Undefined
  BY <1>2, <1>3, SameRoot DEF Leads, SessionStoreAssumption
<1>5. TrueHeap(h, misled)
  BY <1>2, <1>3, <1>4, RootWritten
<1>6. Moves(w, s, misled) /\ TrueHeap(heap', misled)
  BY <1>1, <1>2, <1>3, <1>4, <1>5, Returning, Swept
<1> QED  BY <1>1, <1>2, <1>3, <1>6, LookupMoved

LEMMA WalkSteps ==
  ASSUME SessionStoreAssumption, Shape, WalkInv, [Next]_vars
  PROVE  WalkInv'
<1>1. /\ TrueHeap(heap, misled) /\ Null # Undefined
      /\ Changing \subseteq Session /\ Leaving \subseteq Session
      /\ \A w \in Lookup : Asks[w] \subseteq Session
  BY DEF WalkInv, SessionStoreAssumption
<1>2. ASSUME NEW s \in Changing, NEW p \in {Undefined} \cup Ancestors[s], RememberSession(s, p)
      PROVE  WalkInv'
  BY <1>1, <1>2, RememberedTrue
<1>3. ASSUME NEW s \in Session, DeleteSession(s) \/ Touch(s)
      PROVE  WalkInv'
  <2>1. HeapBecomes(heap) /\ UNCHANGED <<asked, stack, mode, value, misled>>
    BY <1>3 DEF DeleteSession, Touch
  <2> QED  BY <1>1, <2>1, Swept, LookupsStay
<1>4. ASSUME NEW w \in Lookup, NEW s \in Asks[w], StartLookup(w, s)
      PROVE  WalkInv'
  BY <1>1, <1>4, StartedTrue
<1>5. ASSUME NEW w \in Lookup, ParentResolved(w) \/ LevelResumes(w)
      PROVE  WalkInv'
  BY <1>5, ResolvedTrue, ResumedTrue
<1>6. CASE UNCHANGED vars
  BY <1>1, <1>6, LookupsStay DEF vars
<1> QED  BY <1>2, <1>3, <1>4, <1>5, <1>6 DEF Next

LEMMA WalkBegins ==
  ASSUME SessionStoreAssumption, Init
  PROVE  WalkInv
<1>1. /\ stack \in [Lookup -> Seq(Ref)] /\ mode \in [Lookup -> Modes]
      /\ value \in [Lookup -> Session \cup {Undefined}] /\ misled = {}
  BY DEF Init, Modes
<1>2. TrueHeap(heap, misled)
  <2>1. Blank \in Fields /\ \A s : TrueRecord(s, Blank, misled)
    BY DEF Blank, Fields, TrueRecord, SessionStoreAssumption
  <2> QED  BY <2>1 DEF Init, TrueHeap
<1>3. ASSUME NEW w \in Lookup
      PROVE  OnItsWay(asked[w], stack[w], mode[w], value[w], misled)
  BY DEF Init, OnItsWay, Line
<1> QED  BY <1>1, <1>2, <1>3 DEF WalkInv

THEOREM Walking == Spec => []WalkInv
<1>1. Init => WalkInv
  BY SessionStoreAssumption, WalkBegins
<1>2. IInv /\ WalkInv /\ [Next]_vars => WalkInv'
  BY SessionStoreAssumption, WalkSteps DEF IInv
<1> QED  BY <1>1, <1>2, Inductive, PTL DEF Spec

\* getRootSessionID names the root of the family, or a session of it whose
\* parent the host failed to name, whatever deletions and other lookups did to
\* the records meanwhile.
THEOREM Roots == Spec => []RootsAreTrue
<1>1. WalkInv => RootsAreTrue
  <2> SUFFICES ASSUME WalkInv, NEW w \in Lookup, mode[w] = "over", asked[w] \in Rooted
               PROVE  /\ value[w] = Root[asked[w]] \/ value[w] \in misled
                      /\ Root[value[w]] = Root[asked[w]]
    BY DEF RootsAreTrue
  <2>1. Leads(asked[w], value[w], misled)
    BY DEF WalkInv, OnItsWay
  <2> QED  BY <2>1 DEF Leads
<1> QED  BY <1>1, Walking, PTL

\* Records, levels of lookups and tombstones keep their types.
THEOREM TypeCorrect == Spec => []TypeOK
<1>1. IInv /\ WalkInv => TypeOK
  BY DEF IInv, Shape, WalkInv, TrueHeap, Fields, Modes, TypeOK
<1> QED  BY <1>1, Inductive, Walking, PTL

------------------------------------------------------------------------------
(* The arguments of tool calls. *)

PendingEntry(C, S, A) == [call : C, session : S, age : Nat, args : A]

\* The first of some numbers is the least.
LEMMA FirstOf ==
  ASSUME NEW T \in SUBSET Nat, T # {}
  PROVE  LET first == CHOOSE i \in T : \A k \in T : i <= k
         IN  first \in T /\ \A k \in T : first <= k
BY LeastNumber

\* A sweep drops a first part of the map, all of it expired, and stops at an
\* entry that is not.
LEMMA SweepDrops ==
  ASSUME NEW E, NEW entries \in Seq(E), \A e \in E : e.age \in Nat, NEW ttl \in Nat
  PROVE  \E k \in 0 .. Len(entries) :
            /\ Sweep(entries, ttl) = SubSeq(entries, k + 1, Len(entries))
            /\ \A i \in 1 .. k : entries[i].age > ttl
            /\ k < Len(entries) => entries[k + 1].age <= ttl
<1> DEFINE n == Len(entries)
           young == {i \in 1 .. n : entries[i].age <= ttl}
           first == CHOOSE i \in young : \A k \in young : i <= k
<1>1. n \in Nat /\ \A i \in 1 .. n : entries[i].age \in Nat
  OBVIOUS
<1>2. CASE young = {}
  <2>1. \A i \in 1 .. n : entries[i].age > ttl
    BY <1>1, <1>2
  <2>2. SubSeq(entries, n + 1, n) = <<>>
    BY <1>1, SubSeqEmpty
  <2>3. Sweep(entries, ttl) = <<>>
    BY <1>2 DEF Sweep
  <2> HIDE DEF n
  <2>4. /\ Sweep(entries, ttl) = SubSeq(entries, n + 1, n)
        /\ n \in 0 .. n /\ ~(n < n)
    BY <1>1, <2>2, <2>3
  <2> QED  BY <2>1, <2>4 DEF n
<1>3. CASE young # {}
  <2>1. first \in young /\ \A k \in young : first <= k
    <3>1. young \in SUBSET Nat
      BY <1>1
    <3> HIDE DEF young
    <3> QED  BY <1>3, <3>1, FirstOf
  <2>2. Sweep(entries, ttl) = SubSeq(entries, first, n)
    BY <1>3 DEF Sweep
  <2>3. first \in 1 .. n /\ entries[first].age <= ttl
    BY <2>1
  <2>4. \A i \in 1 .. n : entries[i].age <= ttl => first <= i
    BY <2>1
  <2> HIDE DEF first, n
  <2>5. \A i \in 1 .. first - 1 : entries[i].age > ttl
    BY <1>1, <2>3, <2>4
  <2>6. first - 1 \in 0 .. n /\ (first - 1) + 1 = first
    BY <1>1, <2>3
  <2> QED  BY <2>2, <2>3, <2>5, <2>6 DEF n
<1> QED  BY <1>2, <1>3

\* Before it places an entry, a call has swept the map and made room for one.
LEMMA RoomIsMade ==
  ASSUME NEW E, NEW entries \in Seq(E), \A e \in E : e.age \in Nat,
         NEW bounds \in [ttl : Nat, cap : Nat \ {0}], Len(entries) <= bounds.cap
  PROVE  LET swept == Sweep(entries, bounds.ttl)
             room  == IF Len(swept) >= bounds.cap THEN Tail(swept) ELSE swept
         IN  \E k \in 0 .. Len(entries) :
                /\ room = SubSeq(entries, k + 1, Len(entries))
                /\ Len(entries) - k < bounds.cap
                /\ \A i \in 1 .. k : \/ entries[i].age > bounds.ttl
                                     \/ i = k /\ Len(entries) - k = bounds.cap - 1
                /\ (k < Len(entries) /\ OldestFirst(entries)) =>
                      entries[k + 1].age <= bounds.ttl
<1> DEFINE swept == Sweep(entries, bounds.ttl)
           room  == IF Len(swept) >= bounds.cap THEN Tail(swept) ELSE swept
           n     == Len(entries)
           ttl   == bounds.ttl
           cap   == bounds.cap
           LeavesRoom(k) ==
              /\ room = SubSeq(entries, k + 1, n)
              /\ n - k < cap
              /\ \A i \in 1 .. k : entries[i].age > ttl \/ (i = k /\ n - k = cap - 1)
              /\ (k < n /\ OldestFirst(entries)) => entries[k + 1].age <= ttl
<1> SUFFICES \E k \in 0 .. n : LeavesRoom(k)
  OBVIOUS
<1>1. ttl \in Nat /\ cap \in Nat \ {0} /\ n \in Nat /\ \A i \in 1 .. n : entries[i].age \in Nat
  OBVIOUS
<1>2. PICK k \in 0 .. n : /\ swept = SubSeq(entries, k + 1, n)
                          /\ \A i \in 1 .. k : entries[i].age > ttl
                          /\ k < n => entries[k + 1].age <= ttl
  BY <1>1, SweepDrops
<1>3. Len(swept) = n - k /\ swept \in Seq(E) /\ \A i \in 1 .. n - k : swept[i] = entries[k + i]
  <2>1. /\ SubSeq(entries, k + 1, n) \in Seq(E)
        /\ Len(SubSeq(entries, k + 1, n)) = n - k
        /\ \A i \in 1 .. n - k : SubSeq(entries, k + 1, n)[i] = entries[k + i]
    BY <1>1, <1>2
  <2> QED  BY <1>2, <2>1
<1>4. CASE n - k < cap
  <2>1. room = swept
    BY <1>1, <1>3, <1>4
  <2> HIDE DEF room, swept, n, ttl, cap
  <2>2. LeavesRoom(k)
    BY <1>2, <1>4, <2>1
  <2> QED  BY <2>2
<1>5. CASE ~(n - k < cap)
  <2>1. k = 0 /\ n = cap
    BY <1>1, <1>5
  <2>2. room = Tail(swept) /\ swept # <<>>
    BY <1>1, <1>3, <1>5, <2>1
  <2>3. swept = entries
    <3>1. SubSeq(entries, 1, n) = entries
      BY <1>1
    <3> QED  BY <1>2, <2>1, <3>1
  <2>4. room = SubSeq(entries, 2, n)
    BY <2>2, <2>3, TailIsSubSeq
  <2>5. (1 < n /\ OldestFirst(entries)) => entries[2].age <= ttl
    <3> SUFFICES ASSUME 1 < n, OldestFirst(entries)
                 PROVE  entries[2].age <= ttl
      OBVIOUS
    <3>1. entries[1].age <= ttl /\ entries[1].age \in Nat /\ entries[2].age \in Nat
      BY <1>1, <1>2, <2>1
    <3>2. entries[2].age <= entries[1].age
      BY <1>1 DEF OldestFirst
    <3> QED  BY <1>1, <3>1, <3>2
  <2> HIDE DEF room, swept, n, ttl, cap
  <2>6. LeavesRoom(1)
    BY <1>1, <2>1, <2>4, <2>5
  <2>7. 1 \in 0 .. n
    BY <1>1, <2>1
  <2> QED  BY <2>6, <2>7
<1> QED  BY <1>4, <1>5

\* Setting the arguments of a call, in any map that has one entry per call and
\* is within its cap, leaves such a map, and the call finds what it set
\* (setPendingToolCall).
THEOREM PendingIsSet ==
  ASSUME NEW C, NEW S, NEW A, NEW entries \in Seq(PendingEntry(C, S, A)),
         NEW c \in C, NEW s \in S, NEW x \in A,
         NEW bounds \in [ttl : Nat, cap : Nat \ {0}], OneEntryEach(entries, bounds.cap)
  PROVE  LET after == SetPendingToolCall(entries, c, s, x, bounds)
         IN  /\ after \in Seq(PendingEntry(C, S, A))
             /\ OneEntryEach(after, bounds.cap) /\ IsFound(after, c, s, x)
<1> DEFINE E == PendingEntry(C, S, A)
           n == Len(entries)
           entry == [call |-> c, session |-> s, age |-> 0, args |-> x]
           swept == Sweep(entries, bounds.ttl)
           room  == IF Len(swept) >= bounds.cap THEN Tail(swept) ELSE swept
           after == SetPendingToolCall(entries, c, s, x, bounds)
<1>1. entry \in E /\ \A e \in E : e.age \in Nat
  BY DEF PendingEntry
<1>2. /\ n \in Nat /\ n <= bounds.cap /\ bounds.cap \in Nat \ {0}
      /\ \A i \in 1 .. n : entries[i] \in E
      /\ \A i, j \in 1 .. n : entries[i].call = entries[j].call => i = j
  BY DEF OneEntryEach
<1> HIDE DEF E, entry
<1>3. PICK k \in 0 .. n : room = SubSeq(entries, k + 1, n) /\ n - k < bounds.cap
  BY <1>1, <1>2, RoomIsMade DEF E
<1>4. room \in Seq(E) /\ Len(room) = n - k /\ \A i \in 1 .. n - k : room[i] = entries[k + i]
  <2>1. /\ SubSeq(entries, k + 1, n) \in Seq(E)
        /\ Len(SubSeq(entries, k + 1, n)) = n - k
        /\ \A i \in 1 .. n - k : SubSeq(entries, k + 1, n)[i] = entries[k + i]
    BY <1>2, <1>3 DEF E
  <2> QED  BY <1>3, <2>1
<1>0. /\ Len(room) \in Nat /\ Len(room) = n - k
      /\ \A i \in 1 .. Len(room) : i \in 1 .. n - k /\ k + i \in 1 .. n
  <2>1. n \in Nat /\ k \in 0 .. n /\ Len(room) = n - k
    BY <1>2, <1>4
  <2> QED  BY <2>1
<1>5. after = Place(room, entry)
  BY DEF SetPendingToolCall, entry
<1> HIDE DEF room, after
<1>6. \A i, j \in 1 .. Len(room) : room[i].call = room[j].call => i = j
  <2> SUFFICES ASSUME NEW i \in 1 .. Len(room), NEW j \in 1 .. Len(room),
                      room[i].call = room[j].call
               PROVE  i = j
    OBVIOUS
  <2>1. i \in 1 .. n - k /\ j \in 1 .. n - k /\ k + i \in 1 .. n /\ k + j \in 1 .. n
    BY <1>0
  <2>2. entries[k + i].call = entries[k + j].call
    BY <1>4, <2>1
  <2>3. k + i = k + j
    BY <1>2, <2>1, <2>2
  <2> QED  BY <1>3, <2>1, <2>3
<1>7. entry.call = c
  BY DEF entry
<1>8. CASE c \in CallsOf(room)
  <2>1. after = [i \in 1 .. Len(room) |-> IF room[i].call = c THEN entry ELSE room[i]]
    BY <1>5, <1>7, <1>8 DEF Place
  <2>2. /\ after \in Seq(E) /\ Len(after) = Len(room)
        /\ \A i \in 1 .. Len(room) : after[i] = IF room[i].call = c THEN entry ELSE room[i]
    <3> DEFINE m == Len(room)
    <3>1. m \in Nat /\ \A i \in 1 .. m : room[i] \in E
      BY <1>4
    <3> HIDE DEF m
    <3>2. after = [i \in 1 .. m |-> IF room[i].call = c THEN entry ELSE room[i]]
      BY <2>1 DEF m
    <3>3. after \in [1 .. m -> E]
      BY <1>1, <3>1, <3>2
    <3>4. after \in Seq(E) /\ Len(after) = m
      BY <3>1, <3>3
    <3> QED  BY <3>2, <3>4 DEF m
  <2>3. \A i \in 1 .. Len(after) : after[i].call = room[i].call
    BY <1>7, <2>2
  <2>4. OneEntryEach(after, bounds.cap)
    <3>1. Len(after) <= bounds.cap
      BY <1>2, <1>3, <1>4, <2>2
    <3>2. \A i, j \in 1 .. Len(after) : after[i].call = after[j].call => i = j
      BY <1>6, <2>2, <2>3
    <3> QED  BY <3>1, <3>2 DEF OneEntryEach
  <2>5. \E i \in 1 .. Len(after) : after[i] = entry
    BY <1>8, <2>2 DEF CallsOf
  <2> QED  BY <2>2, <2>4, <2>5 DEF IsFound, after, entry, E
<1>9. CASE c \notin CallsOf(room)
  <2>1. after = Append(room, entry)
    BY <1>5, <1>7, <1>9 DEF Place
  <2>2. /\ after \in Seq(E) /\ Len(after) = Len(room) + 1 /\ after[Len(room) + 1] = entry
        /\ \A i \in 1 .. Len(room) : after[i] = room[i]
    BY <1>1, <1>4, <2>1
  <2>3. \A i \in 1 .. Len(room) : room[i].call # c
    BY <1>9 DEF CallsOf
  <2>4. Len(room) \in Nat /\ Len(after) <= bounds.cap
    BY <1>2, <1>3, <1>4, <2>2
  <2>5. ASSUME NEW i \in 1 .. Len(after), NEW j \in 1 .. Len(after), after[i].call = after[j].call
        PROVE  i = j
    <3>1. i \in 1 .. Len(room) \/ i = Len(room) + 1
      BY <2>2, <2>4
    <3>2. j \in 1 .. Len(room) \/ j = Len(room) + 1
      BY <2>2, <2>4
    <3> QED  BY <1>6, <1>7, <2>2, <2>3, <2>5, <3>1, <3>2
  <2>6. OneEntryEach(after, bounds.cap)
    BY <2>4, <2>5 DEF OneEntryEach
  <2>7. \E i \in 1 .. Len(after) : after[i] = entry
    BY <2>2, <2>4
  <2> QED  BY <2>2, <2>6, <2>7 DEF IsFound, after, entry, E
<1> QED  BY <1>8, <1>9

\* Setting a call that has no entry, in any map whose oldest entries come first,
\* drops what expired and nothing else, except the oldest entry of a full map,
\* and leaves the oldest first (sweepExpiredPendingToolCalls, setPendingToolCall).
THEOREM PendingGoByAge ==
  ASSUME NEW C, NEW S, NEW A, NEW entries \in Seq(PendingEntry(C, S, A)),
         NEW c \in C, NEW s \in S, NEW x \in A,
         NEW bounds \in [ttl : Nat, cap : Nat \ {0}], OneEntryEach(entries, bounds.cap),
         OldestFirst(entries), c \notin CallsOf(entries)
  PROVE  LET entry == [call |-> c, session |-> s, age |-> 0, args |-> x]
             after == SetPendingToolCall(entries, c, s, x, bounds)
         IN  /\ \E k \in 0 .. Len(entries) : OnlyOldGo(entries, after, entry, k, bounds)
             /\ OldestFirst(after)
<1> DEFINE E == PendingEntry(C, S, A)
           n == Len(entries)
           entry == [call |-> c, session |-> s, age |-> 0, args |-> x]
           swept == Sweep(entries, bounds.ttl)
           room  == IF Len(swept) >= bounds.cap THEN Tail(swept) ELSE swept
           after == SetPendingToolCall(entries, c, s, x, bounds)
<1>1. entry \in E /\ entry.age = 0 /\ entry.call = c /\ \A e \in E : e.age \in Nat
  BY DEF PendingEntry
<1>2. /\ n \in Nat /\ n <= bounds.cap /\ bounds.ttl \in Nat
      /\ \A i \in 1 .. n : entries[i] \in E /\ entries[i].age \in Nat
      /\ \A i, j \in 1 .. n : i < j => entries[j].age <= entries[i].age
      /\ \A i \in 1 .. n : entries[i].call # c
  BY <1>1 DEF OneEntryEach, OldestFirst, CallsOf
<1> HIDE DEF E, entry
<1>3. PICK k \in 0 .. n : /\ room = SubSeq(entries, k + 1, n)
                          /\ \A i \in 1 .. k : \/ entries[i].age > bounds.ttl
                                               \/ i = k /\ n - k = bounds.cap - 1
                          /\ k < n => entries[k + 1].age <= bounds.ttl
  BY <1>1, <1>2, RoomIsMade DEF E
<1>4. room \in Seq(E) /\ Len(room) = n - k /\ \A i \in 1 .. n - k : room[i] = entries[k + i]
  <2>1. /\ SubSeq(entries, k + 1, n) \in Seq(E)
        /\ Len(SubSeq(entries, k + 1, n)) = n - k
        /\ \A i \in 1 .. n - k : SubSeq(entries, k + 1, n)[i] = entries[k + i]
    BY <1>2, <1>3 DEF E
  <2> QED  BY <1>3, <2>1
<1>0. /\ Len(room) \in Nat /\ Len(room) = n - k
      /\ \A i \in 1 .. Len(room) : i \in 1 .. n - k /\ k + i \in 1 .. n
  <2>1. n \in Nat /\ k \in 0 .. n /\ Len(room) = n - k
    BY <1>2, <1>4
  <2> QED  BY <2>1
<1>5. after = Place(room, entry)
  BY DEF SetPendingToolCall, entry
<1> HIDE DEF room, after
<1>6. c \notin CallsOf(room)
  <2>1. ASSUME NEW i \in 1 .. Len(room)
        PROVE  room[i].call # c
    <3>1. i \in 1 .. n - k /\ k + i \in 1 .. n
      BY <1>0
    <3> QED  BY <1>2, <1>4, <3>1
  <2> QED  BY <2>1 DEF CallsOf
<1>7. after = Append(room, entry)
  BY <1>1, <1>5, <1>6 DEF Place
<1>8. \A i \in k + 1 .. n : entries[i].age <= bounds.ttl
  <2> SUFFICES ASSUME NEW i \in k + 1 .. n
               PROVE  entries[i].age <= bounds.ttl
    OBVIOUS
  <2>1. k < n /\ k + 1 \in 1 .. n /\ i \in 1 .. n
    BY <1>2, <1>3
  <2>2. entries[i].age <= entries[k + 1].age
    BY <1>2, <2>1
  <2> QED  BY <1>2, <1>3, <2>1, <2>2
<1>9. OnlyOldGo(entries, after, entry, k, bounds)
  BY <1>3, <1>7, <1>8 DEF OnlyOldGo
<1>10. OldestFirst(after)
  <2>1. /\ Len(after) = Len(room) + 1 /\ after[Len(room) + 1] = entry
        /\ \A i \in 1 .. Len(room) : after[i] = room[i]
    BY <1>1, <1>4, <1>7
  <2>2. \A i \in 1 .. n - k : k + i \in 1 .. n /\ room[i].age \in Nat
    BY <1>2, <1>3, <1>4
  <2> SUFFICES ASSUME NEW i \in 1 .. Len(after), NEW j \in 1 .. Len(after), i < j
               PROVE  after[j].age <= after[i].age
    BY DEF OldestFirst
  <2>3. i \in 1 .. Len(room) /\ i \in 1 .. n - k
    BY <1>2, <1>3, <1>4, <2>1
  <2>4. CASE j = Len(room) + 1
    BY <1>1, <2>1, <2>2, <2>3, <2>4
  <2>5. CASE j # Len(room) + 1
    <3>1. j \in 1 .. Len(room) /\ j \in 1 .. n - k /\ k + i < k + j
      <4> DEFINE m == Len(room)
      <4>1. m = n - k /\ m \in Nat /\ Len(after) = m + 1
        BY <1>2, <1>3, <1>4, <2>1
      <4> HIDE DEF m
      <4>2. j \in 1 .. m + 1 /\ j # m + 1 /\ i \in 1 .. m + 1
        BY <2>5, <4>1 DEF m
      <4>3. k \in Nat
        BY <1>2, <1>3
      <4>4. j \in 1 .. m /\ k + i < k + j
        BY <4>1, <4>2, <4>3
      <4> QED  BY <4>1, <4>4 DEF m
    <3>2. entries[k + j].age <= entries[k + i].age
      BY <1>2, <2>2, <2>3, <3>1
    <3> QED  BY <1>4, <2>1, <2>3, <3>1, <3>2
  <2> QED  BY <2>4, <2>5
<1> QED  BY <1>9, <1>10 DEF after, entry
=============================================================================
