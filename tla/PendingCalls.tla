---------------------------- MODULE PendingCalls ----------------------------
(***************************************************************************)
(* The arguments remembered between the two events of a tool call,          *)
(* src/core/session-state.ts: a map in order of insertion with a time to    *)
(* live and a cap.                                                          *)
(*                                                                          *)
(* pendingToolCalls is a sequence of [call, session, age, args], the entry  *)
(* placed longest ago first.  ToolCalls has the events that use it.         *)
(***************************************************************************)
EXTENDS Naturals, Sequences, FiniteSets

\* sweepExpiredPendingToolCalls: drop entries up to the first one that is not
\* older than the time to live.
Sweep(entries, ttl) ==
    LET young == {i \in 1 .. Len(entries) : entries[i].age <= ttl}
        first == CHOOSE i \in young : \A k \in young : i <= k
    IN  IF young = {} THEN <<>> ELSE SubSeq(entries, first, Len(entries))

\* The calls with an entry.
CallsOf(entries) == {entries[i].call : i \in 1 .. Len(entries)}

\* Map.set: the entry of a call that has one is replaced where it stands.
Place(entries, entry) ==
    IF entry.call \in CallsOf(entries)
    THEN [i \in 1 .. Len(entries) |-> IF entries[i].call = entry.call THEN entry ELSE entries[i]]
    ELSE Append(entries, entry)

\* setPendingToolCall.  bounds are [ttl, cap], five minutes and 1000.
SetPendingToolCall(entries, call, session, args, bounds) ==
    LET swept == Sweep(entries, bounds.ttl)
        room  == IF Len(swept) >= bounds.cap THEN Tail(swept) ELSE swept
    IN  Place(room, [call |-> call, session |-> session, age |-> 0, args |-> args])

\* consumePendingToolCall: what is left.  The caller gets the entry of the call.
ConsumePendingToolCall(entries, call) == SelectSeq(entries, LAMBDA e : e.call # call)

\* What deleteSession does to the map.
DropCallsOf(entries, session) == SelectSeq(entries, LAMBDA e : e.session # session)

-----------------------------------------------------------------------------
(* What a map should be                                                     *)

OneEntryEach(entries, cap) ==
    /\ Len(entries) <= cap
    /\ \A i, j \in 1 .. Len(entries) : entries[i].call = entries[j].call => i = j

OldestFirst(entries) ==
    \A i, j \in 1 .. Len(entries) : i < j => entries[j].age <= entries[i].age

\* What is set last is found.
IsFound(entries, call, session, args) ==
    \E i \in 1 .. Len(entries) :
        entries[i] = [call |-> call, session |-> session, age |-> 0, args |-> args]

\* after is entries without its first k and with entry last: all that go expired
\* but for the k-th, which may have to make room in a full map; none that stays
\* did.
OnlyOldGo(entries, after, entry, k, bounds) ==
    /\ after = Append(SubSeq(entries, k + 1, Len(entries)), entry)
    /\ \A i \in 1 .. k : \/ entries[i].age > bounds.ttl
                         \/ i = k /\ Len(entries) - k = bounds.cap - 1
    /\ \A i \in k + 1 .. Len(entries) : entries[i].age <= bounds.ttl

-----------------------------------------------------------------------------
(* Checks: every map that AtMostSteps operations of four calls of two sessions   *)
(* and the passing of time can make, for a time to live of 1.               *)

CallIds == {"a", "b", "c", "d"}

SessionOf(call) == IF call \in {"c", "d"} THEN "other" ELSE "one"

AtMostSteps == 6

Bounded == [ttl |-> 1, cap |-> 3]

\* Ages beyond the time to live are alike.
Later(entries) ==
    [i \in 1 .. Len(entries) |-> [entries[i] EXCEPT !.age = IF @ > Bounded.ttl THEN @ ELSE @ + 1]]

\* The maps one operation away; again says whether a call that has an entry may
\* set another, as a host does that uses an id twice.
NextMaps(entries, again) ==
    {Later(entries)}
    \cup {SetPendingToolCall(entries, c, SessionOf(c), args, Bounded) :
             c \in CallIds \ (IF again THEN {} ELSE CallsOf(entries)), args \in {"x", "y"}}
    \cup {ConsumePendingToolCall(entries, c) : c \in CallIds}
    \cup {DropCallsOf(entries, s) : s \in {"one", "other"}}

MapsWithin(again) ==
    LET reach[n \in 0 .. AtMostSteps] ==
            IF n = 0 THEN {<<>>}
            ELSE reach[n - 1] \cup UNION {NextMaps(m, again) : m \in reach[n - 1]}
    IN  reach[AtMostSteps]

\* Entries too old to be kept.
ExpiredIn(entries) == {i \in 1 .. Len(entries) : entries[i].age > Bounded.ttl}

\* A call has one entry, the cap is never exceeded, what was set last is what
\* is found, and a deleted session leaves nothing behind.
ASSUME OneEntryPerCall ==
    \A m \in MapsWithin(TRUE) :
        /\ OneEntryEach(m, Bounded.cap)
        /\ \A s \in {"one", "other"} :
              \A i \in 1 .. Len(DropCallsOf(m, s)) : DropCallsOf(m, s)[i].session # s
        /\ \A c \in CallIds, x \in {"x", "y"} :
              IsFound(SetPendingToolCall(m, c, SessionOf(c), x, Bounded), c, SessionOf(c), x)

\* Where no id is set twice, setting a call drops every entry that expired and
\* one other at most, the oldest, and only when the map is full.
ASSUME OnlyTheOldGo ==
    \A m \in MapsWithin(FALSE) :
        /\ OldestFirst(m)
        /\ \A c \in CallIds \ CallsOf(m) :
              LET entry == [call |-> c, session |-> SessionOf(c), age |-> 0, args |-> "x"]
                  after == SetPendingToolCall(m, c, SessionOf(c), "x", Bounded)
              IN  \E k \in 0 .. Len(m) : OnlyOldGo(m, after, entry, k, Bounded)

\* An id that is set again keeps its place with a new time.  The sweep stops
\* there, and an entry behind it outlives its time; and a full map drops its
\* first entry to set a call that has one, though nothing is added.
ASSUME SetAgainKeepsItsPlace ==
    /\ \E m \in MapsWithin(TRUE), c \in CallIds :
          ExpiredIn(SetPendingToolCall(m, c, SessionOf(c), "x", Bounded)) # {}
    /\ \E m \in MapsWithin(TRUE) : \E c \in CallsOf(m) :
          /\ ExpiredIn(m) = {}
          /\ Len(SetPendingToolCall(m, c, SessionOf(c), "x", Bounded)) < Len(m)
=============================================================================
