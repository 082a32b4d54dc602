---------------------------- MODULE SessionStore ----------------------------
(***************************************************************************)
(* The session records of core/session-state.ts: sessions are remembered,  *)
(* deleted, created on demand, and their root is looked up through a chain *)
(* of parents, some of which only the host knows.                          *)
(*                                                                         *)
(* A lookup awaits the host and, going back, every level of the chain; the *)
(* records it read may be deleted or replaced meanwhile.  So records are   *)
(* objects: a session refers to its record, a level of a lookup to the one *)
(* it read, and <<s, n>> names a record made for s.  A name nothing refers *)
(* to is used again.  Each action is the code between two awaits.          *)
(***************************************************************************)
EXTENDS Naturals, Sequences, FiniteSets

CONSTANTS
    Session,
    Null,         \* no parent
    Undefined,    \* a field that was never set
    Ancestors,    \* [Session -> SUBSET Session]: those it descends from
    Root,         \* [Session -> Session]: the one they all descend from
    Lookup,       \* the calls of getRootSessionID
    Asks,         \* [Lookup -> SUBSET Session]: what each may be asked
    Changing,     \* bound: the sessions that are created and that results name
    Leaving,      \* bound: the sessions that are deleted
    MaxTombs,     \* MAX_DELETED_TOMBSTONES
    MaxRecords    \* bound on the records of a session that exist at a time

\* The sessions whose chain of parents ends.
Rooted == {s \in Session : Ancestors[Root[s]] = {}}

ASSUME SessionStoreAssumption ==
    /\ Null \notin Session /\ Undefined \notin Session /\ Null # Undefined
    /\ Ancestors \in [Session -> SUBSET Session]
    /\ Root \in [Session -> Session]
    /\ Asks \in [Lookup -> SUBSET Session]
    /\ \A s \in Session :
          /\ s \notin Ancestors[s]
          /\ Ancestors[s] = {} => Root[s] = s
          /\ \A a \in Ancestors[s] :
                Root[a] = Root[s] /\ (s \in Rooted => Ancestors[a] \subseteq Ancestors[s])
    /\ IsFiniteSet(Session) /\ Changing \subseteq Session /\ Leaving \subseteq Session
    /\ MaxTombs \in Nat \ {0}
    /\ MaxRecords \in Nat \ {0}

VARIABLES
    sessions,     \* [Session -> 0..MaxRecords]: its record, 0 if it has none
    heap,         \* [Record -> [parentID, rootSessionID]]
    tombs,        \* Seq(Session): deletedTombstones in insertion order
    asked,        \* [Lookup -> Session]: what a lookup was asked
    stack,        \* [Lookup -> Seq(Ref)]: its levels, the asked session first
    mode,         \* [Lookup -> {"new", "host", "level", "over"}]: what it awaits
    value,        \* [Lookup -> Session]: what the awaited level came to
    gone,         \* the sessions last heard of by their deletion (history)
    later,        \* [Session -> 0..MaxTombs]: how many tombstones were put since
                  \* that of a session, at most MaxTombs (history)
    misled        \* the sessions the host took for roots, wrongly (history)

vars == <<sessions, heap, tombs, asked, stack, mode, value, gone, later, misled>>

Record == Session \X (1..MaxRecords)

\* What a level of a lookup holds: a session, and its record or 0.
Ref == Session \X (0..MaxRecords)

Blank == [parentID |-> Undefined, rootSessionID |-> Undefined]

TypeOK ==
    /\ sessions \in [Session -> 0..MaxRecords]
    /\ heap \in [Record -> [parentID : Session \cup {Null, Undefined},
                            rootSessionID : Session \cup {Undefined}]]
    /\ tombs \in Seq(Session)
    /\ asked \in [Lookup -> Session \cup {Undefined}]
    /\ stack \in [Lookup -> Seq(Ref)]
    /\ mode  \in [Lookup -> {"new", "host", "level", "over"}]
    /\ value \in [Lookup -> Session \cup {Undefined}]
    /\ gone \subseteq Session /\ misled \subseteq Session
    /\ later \in [Session -> 0..MaxTombs]

Init ==
    /\ sessions = [s \in Session |-> 0]
    /\ heap  = [r \in Record |-> Blank]
    /\ tombs = <<>>
    /\ asked = [w \in Lookup |-> Undefined]
    /\ stack = [w \in Lookup |-> <<>>]
    /\ mode  = [w \in Lookup |-> "new"]
    /\ value = [w \in Lookup |-> Undefined]
    /\ gone = {} /\ misled = {}
    /\ later = [s \in Session |-> MaxTombs]

------------------------------------------------------------------------------
(* Records. *)

Live(s) == sessions[s] # 0

RefOf(s) == <<s, sessions[s]>>

Held(r) == \E w \in Lookup : \E i \in 1..Len(stack[w]) : stack[w][i] = r

Free(s) == {n \in 1..MaxRecords : ~Held(<<s, n>>)}

\* Variant: the wrong field of the record is read.
RootInParent(ref) == IF ref[2] = 0 THEN Undefined ELSE heap[ref].parentID

\* The fields of what a level holds; a level without a record knows nothing.
ParentIn(ref) == IF ref[2] = 0 THEN Undefined ELSE heap[ref].parentID
RootIn(ref)   == IF ref[2] = 0 THEN Undefined ELSE heap[ref].rootSessionID

WithParent(h, ref, p) == IF ref[2] = 0 THEN h ELSE [h EXCEPT ![ref].parentID = p]
WithRoot(h, ref, r)   == IF ref[2] = 0 THEN h ELSE [h EXCEPT ![ref].rootSessionID = r]

\* The heap becomes h, less the records nothing refers to after the step.
HeapBecomes(h) ==
    heap' = [r \in Record |->
               IF sessions'[r[1]] = r[2] \/ Held(r)' THEN h[r] ELSE Blank]

\* getOrCreateSession leaves s with the record named Made(s).
Made(s) == IF Live(s) THEN sessions[s] ELSE CHOOSE n \in Free(s) : TRUE

GetOrCreateSession(s) ==
    /\ Live(s) \/ Free(s) # {}
    /\ sessions' = [sessions EXCEPT ![s] = Made(s)]

\* rememberSession for session.created; the host may or may not name the
\* parent p.  The root is copied from the parent's record, if there is one.
RememberSession(s, p) ==
    LET ref == <<s, Made(s)>>
        inherited == IF p = Undefined THEN Undefined ELSE RootIn(RefOf(p))
    IN  /\ GetOrCreateSession(s)
        /\ gone' = gone \ {s}
        /\ UNCHANGED <<tombs, asked, stack, mode, value, later, misled>>
        /\ HeapBecomes(IF p = Undefined THEN heap
                       ELSE WithRoot(WithParent(heap, ref, p), ref, inherited))

HasTombstone(s) == \E i \in 1..Len(tombs) : tombs[i] = s

\* Variant: the oldest tombstone goes when the set is full, not over-full.
RecordTombstoneEarly(s) ==
    LET added == IF HasTombstone(s) THEN tombs ELSE Append(tombs, s)
    IN  tombs' = IF Len(added) >= MaxTombs THEN Tail(added) ELSE added

\* recordTombstone: adding an id that is there does not move it.
RecordTombstone(s) ==
    LET added == IF HasTombstone(s) THEN tombs ELSE Append(tombs, s)
    IN  tombs' = IF Len(added) > MaxTombs THEN Tail(added) ELSE added

\* session.deleted: rememberSession, without a parent, then deleteSession.
DeleteSession(s) ==
    /\ sessions' = [sessions EXCEPT ![s] = 0]
    /\ RecordTombstone(s)
    /\ gone' = gone \cup {s}
    /\ later' = IF HasTombstone(s) THEN later
                ELSE [x \in Session |-> IF x = s THEN 0
                                        ELSE IF later[x] < MaxTombs THEN later[x] + 1 ELSE MaxTombs]
    /\ UNCHANGED <<asked, stack, mode, value, misled>>
    /\ HeapBecomes(heap)

\* addFileChanges or beginIdleDispatch for s.
Touch(s) ==
    /\ GetOrCreateSession(s)
    /\ UNCHANGED <<tombs, asked, stack, mode, value, gone, later, misled>>
    /\ HeapBecomes(heap)

IsDeleted(s) == ~Live(s) /\ HasTombstone(s)

------------------------------------------------------------------------------
(* resolveRootSessionID. *)

\* A record's own root is trusted when the record of parent p agrees on it.
Cached(ref, p) == RootIn(ref) # Undefined /\ RootIn(RefOf(p)) = RootIn(ref)

\* A level for s that needs no further level: its parent must be asked for,
\* or there is none, or the cached root will do.
Stops(s) ==
    LET p == ParentIn(RefOf(s))
    IN  p \in {Undefined, Null} \/ Cached(RefOf(s), p)

Visited(levels, s) == \E i \in 1..Len(levels) : levels[i][1] = s

Below(levels) == SubSeq(levels, 1, Len(levels) - 1)

\* The top level ended with v: the level under it, if any, will be resumed.
Returns(w, levels, v) ==
    /\ stack' = [stack EXCEPT ![w] = levels]
    /\ value' = [value EXCEPT ![w] = v]
    /\ mode' = [mode EXCEPT ![w] = IF levels = <<>> THEN "over" ELSE "level"]

AsksHost(w, levels) ==
    /\ stack' = [stack EXCEPT ![w] = levels]
    /\ mode' = [mode EXCEPT ![w] = "host"]
    /\ UNCHANGED value

\* The level for s, above `levels', ends or awaits the host; the heap was h.
Concludes(w, levels, s, h) ==
    LET ref == RefOf(s)
        p   == ParentIn(ref)
    IN  \/ Visited(levels, s) /\ Returns(w, levels, s) /\ HeapBecomes(h)
        \/ /\ ~Visited(levels, s)
           /\ \/ p = Undefined /\ AsksHost(w, Append(levels, ref)) /\ HeapBecomes(h)
              \/ p = Null /\ Returns(w, levels, s) /\ HeapBecomes(WithRoot(h, ref, s))
              \/ p \in Session /\ Cached(ref, p) /\ Returns(w, levels, RootIn(ref)) /\ HeapBecomes(h)

\* The sessions from s upwards, through records that know their parent, up to
\* the first that needs no further level.
Above(s) ==
    LET up[i \in 0..Cardinality(Session)] ==
            IF i = 0 THEN s
            ELSE IF Stops(up[i - 1]) THEN up[i - 1] ELSE ParentIn(RefOf(up[i - 1]))
    IN  up

\* The levels of the first i of them.
Levels(up, i) == [j \in 1..i |-> RefOf(up[j - 1])]

\* A call for s above `levels': the chain is followed up to a level that
\* concludes.  Nothing is awaited.
Resolves(w, levels, s, h) ==
    LET up == Above(s)
        upTo(i) == levels \o Levels(up, i)
    IN  \E n \in 0..Cardinality(Session) :
          /\ \A i \in 0..n-1 : ~Stops(up[i]) /\ ~Visited(upTo(i), up[i])
          /\ Concludes(w, upTo(n), up[n], h)

\* getRootSessionID of s.  Only here may a record be created: the first level
\* is for the session that is evaluated.
StartLookup(w, s) ==
    /\ mode[w] = "new"
    /\ asked' = [asked EXCEPT ![w] = s]
    /\ GetOrCreateSession(s)
    /\ UNCHANGED <<tombs, gone, later, misled>>
    /\ IF Live(s) THEN Resolves(w, <<>>, s, heap)
       ELSE AsksHost(w, << <<s, Made(s)>> >>) /\ HeapBecomes(heap)

\* Variant: the record of the parent is got or created.
HostAnswersCreating(w, a) ==
    LET ref == stack[w][Len(stack[w])]
    IN  /\ IF a = Null
           THEN /\ Returns(w, Below(stack[w]), ref[1])
                /\ UNCHANGED sessions
                /\ HeapBecomes(WithRoot(WithParent(heap, ref, a), ref, ref[1]))
           ELSE /\ GetOrCreateSession(a)
                /\ Resolves(w, stack[w], a, WithParent(heap, ref, a))
        /\ UNCHANGED <<tombs, asked, gone, later>>

\* Variant: the host is asked until it names a parent.
HostAnswersAgain(w, a) ==
    LET h == WithParent(heap, stack[w][Len(stack[w])], a)
    IN  UNCHANGED <<sessions, tombs, asked, gone, later>> /\ a # Null /\ Resolves(w, stack[w], a, h)

\* The await of resolveParentID resumes with a: it is written to the record
\* held, in the map or not, and the level goes on from where it was.
HostAnswers(w, a) ==
    LET levels == stack[w]
        ref    == levels[Len(levels)]
        h      == WithParent(heap, ref, a)
    IN  /\ UNCHANGED <<sessions, tombs, asked, gone, later>>
        /\ \/ a = Null /\ Returns(w, Below(levels), ref[1]) /\ HeapBecomes(WithRoot(h, ref, ref[1]))
           \/ a \in Session /\ Cached(ref, a) /\ Returns(w, Below(levels), RootIn(ref)) /\ HeapBecomes(h)
           \/ a \in Session /\ ~Cached(ref, a) /\ Resolves(w, levels, a, h)

\* The host is asked for the root.  Its walk through the session files may end
\* early: it names some ancestor, or the session itself, which means no parent.
ParentResolved(w) ==
    /\ mode[w] = "host"
    /\ LET s == stack[w][Len(stack[w])][1] IN
       \/ \E a \in Ancestors[s] : HostAnswers(w, a) /\ UNCHANGED misled
       \/ /\ HostAnswers(w, Null)
          /\ misled' = IF Ancestors[s] = {} THEN misled ELSE misled \cup {s}

\* Variant: the level returns its session, not the root it was given.
LevelResumesSelf(w) ==
    /\ mode[w] = "level"
    /\ UNCHANGED <<sessions, tombs, asked, gone, later, misled>>
    /\ Returns(w, Below(stack[w]), stack[w][Len(stack[w])][1])
    /\ HeapBecomes(WithRoot(heap, stack[w][Len(stack[w])], value[w]))

\* A level resumes with the root that the level above it found.
LevelResumes(w) ==
    /\ mode[w] = "level"
    /\ UNCHANGED <<sessions, tombs, asked, gone, later, misled>>
    /\ Returns(w, Below(stack[w]), value[w])
    /\ HeapBecomes(WithRoot(heap, stack[w][Len(stack[w])], value[w]))

------------------------------------------------------------------------------
Next ==
    \/ \E s \in Changing :
          \/ \E p \in {Undefined} \cup Ancestors[s] : RememberSession(s, p)
          \/ Touch(s)
    \/ \E s \in Leaving : DeleteSession(s)
    \/ \E w \in Lookup :
          \/ \E s \in Asks[w] : StartLookup(w, s)
          \/ ParentResolved(w)
          \/ LevelResumes(w)

Spec == Init /\ [][Next]_vars

\* The host answers, and settled awaits resume.
Fairness == \A w \in Lookup : WF_vars(ParentResolved(w) \/ LevelResumes(w))

FairSpec == Spec /\ Fairness

------------------------------------------------------------------------------
(* Properties. *)

\* A lookup that ends names the root of the session it was asked for, or stops
\* at a session of that family whose parent the host failed to name: no
\* interleaving of lookups, deletions and recreated records leaves a root in a
\* record that belongs to another chain.
RootsAreTrue ==
    \A w \in Lookup :
        mode[w] = "over" /\ asked[w] \in Rooted =>
            /\ value[w] = Root[asked[w]] \/ value[w] \in misled
            /\ Root[value[w]] = Root[asked[w]]

\* Walking through a parent never brings its session back: a lookup creates no
\* record but that of the session it starts from.
LookupsCreateNothing ==
    [][\A s \in Session, w \in Lookup :
          ~Live(s) /\ Live(s)' /\ stack'[w] # stack[w] => mode[w] = "new" /\ asked'[w] = s]_vars

\* A deleted session without a record is known to be deleted, unless MaxTombs
\* other sessions got a tombstone since it got its own.
DeletionsRemembered ==
    \A s \in gone : Live(s) \/ IsDeleted(s) \/ later[s] = MaxTombs

\* Every lookup ends, cycles of parents included.
LookupsEnd == \A w \in Lookup : mode[w] \in {"host", "level"} ~> mode[w] = "over"
=============================================================================
