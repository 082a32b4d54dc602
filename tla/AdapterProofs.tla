---------------------------- MODULE AdapterProofs ----------------------------
(***************************************************************************)
(* Proofs about Adapter and the session lifecycle it extends, for every set *)
(* of sessions and calls and every number of visits and agent runs.         *)
(***************************************************************************)
EXTENDS Adapter, FiniteSetTheorems, SequenceTheorems, TLAPS

USE SessionLifecycleAssumption, AdapterAssumption DEF SessionLifecycleAssumption, AdapterAssumption

\* On OMP, only the session of the host is taken for handled, and it is while it
\* goes on: so starts without a reason create nothing.
HandledIsLive ==
    host = "omp" => /\ lastHandled \in {None, live}
                    /\ phase \in {"on", "asked"} => lastHandled = live

\* A deletion waits while OMP may cancel the switch, and not after a shutdown.
SwitchWaits ==
    /\ host = "omp" /\ phase = "asked" => pendingSwitch = live
    /\ phase \in {"closing", "over"} => pendingSwitch = None

NeverEntered ==
    \A s \in Sessions : /\ why[s] = "never" => s # live /\ deleted[s] = 0
                        /\ phase = "off" => why[s] = "never"

\* DeletedOncePerVisit, with what the mark of a live session says.
Told ==
    \A s \in Sessions : why[s] # "never" /\ ~raced[s] =>
       /\ s # live \/ phase \in {"closing", "over"} => deleted[s] = 1
       /\ s = live /\ phase \in {"on", "asked"} =>
             /\ deleted[s] = IF s \in deletedIds THEN 1 ELSE 0
             /\ host = "omp" => s \notin deletedIds

LInv ==
    /\ LifecycleTypeOK /\ HandledIsLive /\ SwitchWaits
    /\ NeverEntered /\ CreatedOnce /\ Told

------------------------------------------------------------------------------

LEMMA LifecycleStarts == LifecycleInit => LInv
BY DEF LifecycleInit, LInv, LifecycleTypeOK, HandledIsLive, SwitchWaits, NeverEntered,
       CreatedOnce, Told, Reasons

LEMMA Starting ==
  ASSUME LInv, NEW s \in Sessions, Startup(s)
  PROVE  LInv'
<1> USE DEF LInv, Startup, Enter
<1>1. LifecycleTypeOK'
  BY DEF LifecycleTypeOK, Reasons
<1>2. HandledIsLive' /\ SwitchWaits'
  BY DEF LifecycleTypeOK, HandledIsLive, SwitchWaits
<1>3. NeverEntered' /\ CreatedOnce'
  BY DEF LifecycleTypeOK, NeverEntered, CreatedOnce
<1>4. Told'
  <2>1. \A x \in Sessions : x # s => why'[x] = "never"
    BY DEF LifecycleTypeOK, NeverEntered
  <2>2. raced'[s] = (s \in deletedIds) /\ deleted'[s] = 0
    BY DEF LifecycleTypeOK, NeverEntered
  <2> QED  BY <2>1, <2>2 DEF Told
<1> QED  BY <1>1, <1>2, <1>3, <1>4

LEMMA StartingAgain ==
  ASSUME LInv, StartAgain
  PROVE  LInv'
<1>1. lastHandled = live /\ UNCHANGED lifecycleVars
  BY DEF LInv, StartAgain, HandledIsLive, lifecycleVars
<1> QED  BY <1>1 DEF LInv, LifecycleTypeOK, HandledIsLive, SwitchWaits, NeverEntered,
                     CreatedOnce, Told, lifecycleVars

LEMMA AskingToSwitch ==
  ASSUME LInv, BeforeSwitch
  PROVE  LInv'
<1>1. live \in Sessions /\ live # None
  BY DEF LInv, LifecycleTypeOK, BeforeSwitch
<1>2. CASE host = "omp"
  BY <1>1, <1>2 DEF BeforeSwitch, LInv, LifecycleTypeOK, HandledIsLive, SwitchWaits,
                    NeverEntered, CreatedOnce, Told
<1>3. CASE host = "pi"
  <2> USE <1>1, <1>3 DEF BeforeSwitch, DispatchDeleted, Marks, Counted, LInv
  <2>1. LifecycleTypeOK'
    BY DEF LifecycleTypeOK
  <2>2. HandledIsLive' /\ SwitchWaits' /\ CreatedOnce'
    BY DEF HandledIsLive, SwitchWaits, CreatedOnce
  <2>3. NeverEntered'
    BY DEF LifecycleTypeOK, NeverEntered
  <2>4. Told'
    BY DEF LifecycleTypeOK, Told
  <2> QED  BY <2>1, <2>2, <2>3, <2>4
<1> QED  BY <1>2, <1>3 DEF LInv, LifecycleTypeOK

LEMMA Cancelling ==
  ASSUME LInv, SwitchCancelled
  PROVE  LInv'
BY DEF SwitchCancelled, LInv, LifecycleTypeOK, HandledIsLive, SwitchWaits, NeverEntered,
       CreatedOnce, Told

LEMMA ShuttingDown ==
  ASSUME LInv, NEW then \in {"closing", "over"}, Shutdown(then)
  PROVE  LInv'
<1>1. live \in Sessions /\ live # None
  BY DEF LInv, LifecycleTypeOK, Shutdown
<1> USE <1>1 DEF Shutdown, DispatchDeleted, Marks, Counted, LInv
<1>2. LifecycleTypeOK'
  BY DEF LifecycleTypeOK, HandledAfter
<1>3. HandledIsLive' /\ SwitchWaits' /\ CreatedOnce'
  BY DEF LifecycleTypeOK, HandledIsLive, SwitchWaits, CreatedOnce, HandledAfter
<1>4. NeverEntered'
  BY DEF LifecycleTypeOK, NeverEntered
<1>5. Told'
  BY DEF LifecycleTypeOK, Told
<1> QED  BY <1>2, <1>3, <1>4, <1>5

LEMMA SwitchingPi ==
  ASSUME LInv, NEW s \in Sessions, NEW reason \in {"new", "fork", "resume"}, PiSwitch(s, reason)
  PROVE  LInv'
<1> USE DEF PiSwitch, Enter, LInv
<1>1. LifecycleTypeOK'
  BY DEF LifecycleTypeOK, Reasons, SwitchWaits
<1>2. HandledIsLive' /\ SwitchWaits' /\ CreatedOnce'
  BY DEF LifecycleTypeOK, HandledIsLive, SwitchWaits, CreatedOnce
<1>3. NeverEntered'
  BY DEF LifecycleTypeOK, NeverEntered
<1>4. Told'
  BY DEF LifecycleTypeOK, Told
<1> QED  BY <1>1, <1>2, <1>3, <1>4

LEMMA SwitchingOmp ==
  ASSUME LInv, NEW s \in Sessions, NEW reason \in {"new", "fork", "resume"}, OmpSwitch(s, reason)
  PROVE  LInv'
<1>1. /\ live \in Sessions /\ live # None /\ s # live
      /\ phase = "asked" => pendingSwitch = live
      /\ phase = "closing" => pendingSwitch = None
      /\ lastHandled \in {None, live}
  BY DEF OmpSwitch, LInv, LifecycleTypeOK, HandledIsLive, SwitchWaits
<1>2. Creates(s)
  BY <1>1 DEF OmpSwitch, Creates, HandledAfter
<1> USE <1>1, <1>2 DEF OmpSwitch, Enter, Handled, LInv
<1>3. LifecycleTypeOK'
  BY DEF LifecycleTypeOK, Reasons, Marks, Counted
<1>4. HandledIsLive' /\ SwitchWaits' /\ CreatedOnce'
  BY DEF LifecycleTypeOK, HandledIsLive, SwitchWaits, CreatedOnce
<1>5. NeverEntered'
  BY DEF LifecycleTypeOK, NeverEntered
<1>6. Told'
  <2> SUFFICES ASSUME NEW x \in Sessions, why'[x] # "never", ~raced'[x]
               PROVE  /\ x # s => deleted'[x] = 1
                      /\ x = s => deleted'[x] = 0 /\ x \notin deletedIds'
    BY DEF Told
  <2>1. CASE x = s
    BY <2>1 DEF LifecycleTypeOK, Marks
  <2>2. CASE x # s
    <3>1. why[x] # "never" /\ ~raced[x]
      BY <2>2 DEF LifecycleTypeOK
    <3>2. CASE x = live /\ phase = "asked"
      <4>1. deleted[x] = 0 /\ x = pendingSwitch /\ Marks(x)
        BY <3>1, <3>2 DEF Told, Marks
      <4> QED  BY <2>2, <4>1 DEF Counted
    <3>3. CASE ~(x = live /\ phase = "asked")
      BY <2>2, <3>1, <3>3 DEF Told, Marks
    <3> QED  BY <3>2, <3>3
  <2> QED  BY <2>1, <2>2
<1> QED  BY <1>3, <1>4, <1>5, <1>6

LEMMA Reloading ==
  ASSUME LInv, Reload
  PROVE  LInv'
<1>1. live \in Sessions
  BY DEF LInv, LifecycleTypeOK, Reload
<1> USE <1>1 DEF Reload, Enter, LInv
<1>2. LifecycleTypeOK'
  BY DEF LifecycleTypeOK, Reasons
<1>3. HandledIsLive' /\ SwitchWaits' /\ CreatedOnce'
  BY DEF LifecycleTypeOK, HandledIsLive, SwitchWaits, CreatedOnce
<1>4. NeverEntered'
  BY DEF LifecycleTypeOK, NeverEntered
<1>5. Told'
  BY DEF LifecycleTypeOK, Told
<1> QED  BY <1>2, <1>3, <1>4, <1>5

LEMMA Expiring ==
  ASSUME LInv, NEW s \in Sessions, Expire(s)
  PROVE  LInv'
<1> USE DEF Expire, LInv
<1>1. LifecycleTypeOK'
  BY DEF LifecycleTypeOK
<1>2. HandledIsLive' /\ SwitchWaits' /\ CreatedOnce' /\ NeverEntered'
  BY DEF HandledIsLive, SwitchWaits, CreatedOnce, NeverEntered
<1>3. Told'
  BY DEF LifecycleTypeOK, Told
<1> QED  BY <1>1, <1>2, <1>3

LEMMA LifecycleKeeps ==
  ASSUME LInv, Lifecycle
  PROVE  LInv'
<1>1. ASSUME NEW s \in Sessions, Switch(s)
      PROVE  LInv'
  BY <1>1, SwitchingPi, SwitchingOmp DEF Switch
<1> QED  BY <1>1, Starting, Expiring, StartingAgain, AskingToSwitch, Cancelling, Reloading,
            ShuttingDown DEF Lifecycle
------------------------------------------------------------------------------
(* Tool calls: the map of their sessions. *)

\* A call has one entry at most.
OneEach(s) == \A i, j \in 1..Len(s) : s[i].call = s[j].call => i = j

\* The entries that have expired are the oldest.
OldestFirst(s) == \E n \in 0..Len(s) : \A i \in 1..Len(s) : s[i].expired <=> i <= n

\* An entry is that of a call that goes on, and names the session it was made in.
EntryIsTrue(e) ==
    /\ at[e.call] \in {"asked", "running", "resulting"}
    /\ e.session = home[e.call]
    /\ e.expired => e.call \in lost

\* What the map knows, and what it has forgotten.
CallInv ==
    /\ at \in [Calls -> {"new", "asked", "running", "resulting", "over"}]
    /\ home \in [Calls -> Sessions \cup {None}]
    /\ routed \in [Calls -> Sessions \cup {None}]
    /\ lost \subseteq Calls
    /\ entries \in Seq(Entry) /\ Len(entries) <= MaxEntries
    /\ OneEach(entries) /\ OldestFirst(entries)
    /\ \A i \in 1..Len(entries) : EntryIsTrue(entries[i])
    /\ \A c \in Calls :
          /\ at[c] \in {"asked", "running"} /\ c \notin lost =>
                \E i \in 1..Len(entries) : entries[i].call = c
          /\ routed[c] # None =>
                at[c] = "resulting" /\ (c \notin lost => routed[c] = home[c])

LEMMA ReplacedEntry ==
  ASSUME NEW S, NEW s \in Seq(S), NEW i \in 1..Len(s), NEW x \in S
  PROVE  /\ [s EXCEPT ![i] = x] \in Seq(S) /\ Len([s EXCEPT ![i] = x]) = Len(s)
         /\ [s EXCEPT ![i] = x][i] = x
         /\ \A j \in 1..Len(s) : j # i => [s EXCEPT ![i] = x][j] = s[j]
OBVIOUS

LEMMA Removing ==
  ASSUME NEW S, NEW s \in Seq(S), NEW i \in 1..Len(s)
  PROVE  /\ RemoveAt(s, i) \in Seq(S) /\ Len(RemoveAt(s, i)) = Len(s) - 1
         /\ \A j \in 1..(Len(s) - 1) : RemoveAt(s, i)[j] = s[IF j < i THEN j ELSE j + 1]
<1> DEFINE l == SubSeq(s, 1, i - 1)
           r == SubSeq(s, i + 1, Len(s))
<1>1. Len(s) \in Nat /\ i \in Nat /\ i <= Len(s) /\ i >= 1
  OBVIOUS
<1>2. l \in Seq(S) /\ Len(l) = i - 1 /\ \A j \in 1..(i - 1) : l[j] = s[j]
  BY <1>1, SubSeqProperties
<1>3. r \in Seq(S) /\ Len(r) = Len(s) - i /\ \A j \in 1..(Len(s) - i) : r[j] = s[i + j]
  <2>1. /\ r \in Seq(S)
        /\ Len(r) = IF i + 1 <= Len(s) THEN Len(s) - (i + 1) + 1 ELSE 0
        /\ \A j \in 1..(Len(s) - (i + 1) + 1) : r[j] = s[(i + 1) + j - 1]
    BY <1>1, SubSeqProperties
  <2> HIDE DEF r
  <2> QED  BY <1>1, <2>1
<1>4. RemoveAt(s, i) = l \o r
  BY DEF RemoveAt
<1> HIDE DEF l, r
<1>5. l \o r \in Seq(S) /\ Len(l \o r) = Len(s) - 1
  <2>1. l \o r \in Seq(S) /\ Len(l \o r) = Len(l) + Len(r)
    BY <1>2, <1>3, ConcatProperties
  <2> QED  BY <1>1, <1>2, <1>3, <2>1
<1>6. ASSUME NEW j \in 1..(Len(s) - 1)
      PROVE  (l \o r)[j] = s[IF j < i THEN j ELSE j + 1]
  <2>1. CASE j < i
    <3>1. j \in 1..(Len(l) + Len(r)) /\ j <= Len(l) /\ j \in 1..(i - 1)
      BY <1>1, <1>2, <1>3, <2>1
    <3>2. (l \o r)[j] = l[j]
      BY <1>2, <1>3, <3>1, ConcatProperties
    <3> QED  BY <1>2, <2>1, <3>1, <3>2
  <2>2. CASE ~(j < i)
    <3>1. j - (i - 1) \in 1..(Len(s) - i) /\ i + (j - (i - 1)) = j + 1 /\ j \in 1..(Len(l) + Len(r))
          /\ ~(j <= Len(l))
      BY <1>1, <1>2, <1>3, <2>2
    <3>2. (l \o r)[j] = r[j - Len(l)]
      BY <1>2, <1>3, <3>1, ConcatProperties
    <3> QED  BY <1>2, <1>3, <2>2, <3>1, <3>2
  <2> QED  BY <2>1, <2>2
<1> QED  BY <1>4, <1>5, <1>6

\* What is left when the entry of a call is taken out, or the expired ones are.
LEMMA Forgetting ==
  ASSUME entries \in Seq(Entry), OneEach(entries), OldestFirst(entries), NEW c \in Calls
  PROVE  /\ Without(c) \in Seq(Entry) /\ Len(Without(c)) <= Len(entries)
         /\ OneEach(Without(c)) /\ OldestFirst(Without(c))
         /\ \A i \in 1..Len(Without(c)) :
               Without(c)[i].call # c /\ \E j \in 1..Len(entries) : Without(c)[i] = entries[j]
         /\ \A j \in 1..Len(entries) :
               entries[j].call # c => \E i \in 1..Len(Without(c)) : Without(c)[i] = entries[j]
<1> DEFINE w == Without(c)
<1>1. CASE PlacesOf(c) = {}
  <2>1. w = entries /\ \A i \in 1..Len(entries) : entries[i].call # c
    BY <1>1 DEF Without, PlacesOf
  <2> HIDE DEF w
  <2> QED  BY <2>1 DEF w
<1>2. CASE PlacesOf(c) # {}
  <2>1. PICK i \in PlacesOf(c) : w = RemoveAt(entries, i)
    BY <1>2 DEF Without
  <2>2. i \in 1..Len(entries) /\ entries[i].call = c /\ Len(entries) \in Nat
    BY <2>1 DEF PlacesOf
  <2>3. /\ w \in Seq(Entry) /\ Len(w) = Len(entries) - 1
        /\ \A j \in 1..(Len(entries) - 1) : w[j] = entries[IF j < i THEN j ELSE j + 1]
    BY <2>1, <2>2, Removing
  <2> HIDE DEF w
  <2>4. \A j \in 1..Len(w) : (IF j < i THEN j ELSE j + 1) \in 1..Len(entries) \ {i}
    BY <2>2, <2>3
  <2>5. OneEach(w)
    <3> SUFFICES ASSUME NEW a \in 1..Len(w), NEW b \in 1..Len(w), w[a].call = w[b].call
                 PROVE  a = b
      BY DEF OneEach
    <3>1. (IF a < i THEN a ELSE a + 1) = (IF b < i THEN b ELSE b + 1)
      BY <2>3, <2>4 DEF OneEach
    <3> QED  BY <2>2, <2>3, <3>1
  <2>6. OldestFirst(w)
    <3>1. PICK n \in 0..Len(entries) : \A j \in 1..Len(entries) : entries[j].expired <=> j <= n
      BY DEF OldestFirst
    <3>2. (IF i <= n THEN n - 1 ELSE n) \in 0..Len(w)
      BY <2>2, <2>3
    <3>3. ASSUME NEW j \in 1..Len(w)
          PROVE  w[j].expired <=> j <= IF i <= n THEN n - 1 ELSE n
      <4>1. w[j].expired <=> (IF j < i THEN j ELSE j + 1) <= n
        BY <2>3, <2>4, <3>1
      <4> QED  BY <2>2, <2>3, <4>1
    <3> QED  BY <3>2, <3>3 DEF OldestFirst
  <2>7. \A j \in 1..Len(w) : w[j].call # c /\ \E k \in 1..Len(entries) : w[j] = entries[k]
    BY <2>2, <2>3, <2>4 DEF OneEach
  <2>8. ASSUME NEW k \in 1..Len(entries), entries[k].call # c
        PROVE  \E j \in 1..Len(w) : w[j] = entries[k]
    <3> DEFINE j == IF k < i THEN k ELSE k - 1
    <3>1. k # i
      BY <2>2, <2>8
    <3>2. j \in 1..Len(w) /\ (IF j < i THEN j ELSE j + 1) = k
      BY <2>2, <2>3, <3>1
    <3> QED  BY <2>3, <3>2
  <2> QED  BY <2>2, <2>3, <2>5, <2>6, <2>7, <2>8 DEF w
<1> QED  BY <1>1, <1>2

LEMMA Remembering ==
  ASSUME entries \in Seq(Entry), Len(entries) <= MaxEntries, OneEach(entries), OldestFirst(entries),
         NEW c \in Calls, live \in Sessions,
         \A i \in 1..Len(entries) : entries[i].call # c
  PROVE  /\ Remembered(c) \in Seq(Entry) /\ Len(Remembered(c)) <= MaxEntries
         /\ OneEach(Remembered(c)) /\ OldestFirst(Remembered(c))
         /\ \A i \in 1..Len(Remembered(c)) :
               \/ Remembered(c)[i] = [call |-> c, session |-> live, expired |-> FALSE]
               \/ \E j \in 1..Len(entries) : Remembered(c)[i] = entries[j] /\ ~entries[j].expired
         /\ \E i \in 1..Len(Remembered(c)) :
               Remembered(c)[i] = [call |-> c, session |-> live, expired |-> FALSE]
<1> DEFINE new == [call |-> c, session |-> live, expired |-> FALSE]
           expired == {i \in 1..Len(entries) : entries[i].expired}
           kept == SubSeq(entries, Cardinality(expired) + 1, Len(entries))
           all == Append(kept, new)
<1>1. PICK n \in 0..Len(entries) : \A j \in 1..Len(entries) : entries[j].expired <=> j <= n
  BY DEF OldestFirst
<1>2. Len(entries) \in Nat /\ n \in Nat /\ n <= Len(entries) /\ new \in Entry
  BY DEF Entry
<1>3. expired = 1..n /\ Cardinality(expired) = n
  <2>1. expired = 1..n
    BY <1>1, <1>2
  <2>2. Cardinality(1..n) = IF 1 > n THEN 0 ELSE n - 1 + 1
    BY <1>2, FS_Interval
  <2> HIDE DEF expired
  <2> QED  BY <1>2, <2>1, <2>2
<1>4. Remembered(c) = IF Len(all) > MaxEntries THEN Tail(all) ELSE all
  BY DEF Remembered
<1>5. /\ kept \in Seq(Entry) /\ Len(kept) = Len(entries) - n
      /\ \A j \in 1..Len(kept) : kept[j] = entries[n + j]
  <2> DEFINE k == SubSeq(entries, n + 1, Len(entries))
  <2>1. /\ k \in Seq(Entry)
        /\ Len(k) = IF n + 1 <= Len(entries) THEN Len(entries) - (n + 1) + 1 ELSE 0
        /\ \A j \in 1..(Len(entries) - (n + 1) + 1) : k[j] = entries[(n + 1) + j - 1]
    BY <1>2, SubSeqProperties
  <2>2. kept = k
    BY <1>3
  <2> HIDE DEF k, kept
  <2> HIDE DEF expired
  <2> QED  BY <1>2, <2>1, <2>2
<1> HIDE DEF kept, expired, new
<1>6. /\ all \in Seq(Entry) /\ Len(all) = Len(entries) - n + 1
      /\ \A j \in 1..Len(kept) : all[j] = entries[n + j]
      /\ all[Len(kept) + 1] = new
  BY <1>2, <1>5, AppendProperties
<1> HIDE DEF all
<1> DEFINE r == Remembered(c)
<1>7. PICK d \in {0, 1} : /\ r \in Seq(Entry) /\ Len(r) = Len(entries) - n + 1 - d /\ Len(r) <= MaxEntries
                         /\ Len(r) >= 1
                         /\ \A j \in 1..Len(r) : r[j] = all[j + d]
  <2>1. CASE Len(all) > MaxEntries
    <3>1. r = Tail(all) /\ all # <<>>
      BY <1>4, <1>6, <2>1
    <3>2. /\ r \in Seq(Entry) /\ Len(r) = Len(all) - 1
          /\ \A j \in 1..Len(r) : r[j] = all[j + 1]
      BY <1>6, <3>1, HeadTailProperties
    <3> HIDE DEF r
    <3>3. Len(r) = Len(entries) - n /\ Len(r) <= MaxEntries /\ Len(r) >= 1
      BY <1>2, <1>6, <2>1, <3>2
    <3>4. Len(r) = Len(entries) - n + 1 - 1
      BY <1>2, <3>3
    <3> QED  BY <3>2, <3>3, <3>4
  <2>2. CASE ~(Len(all) > MaxEntries)
    <3>1. r = all
      BY <1>4, <2>2
    <3> HIDE DEF r
    <3> QED  BY <1>2, <1>6, <2>2, <3>1
  <2> QED  BY <2>1, <2>2
<1> HIDE DEF r
<1>8. ASSUME NEW j \in 1..Len(r)
      PROVE  /\ j = Len(r) => r[j] = new
             /\ j # Len(r) => n + d + j \in 1..Len(entries) /\ r[j] = entries[n + d + j]
                              /\ ~entries[n + d + j].expired
  <2>1. CASE j = Len(r)
    <3>1. j + d = Len(kept) + 1
      BY <1>2, <1>5, <1>7, <2>1
    <3> QED  BY <1>6, <1>7, <2>1, <3>1
  <2>2. CASE j # Len(r)
    <3>1. /\ j + d \in 1..Len(kept) /\ n + d + j \in 1..Len(entries)
          /\ ~(n + d + j <= n) /\ n + (j + d) = n + d + j
      BY <1>2, <1>5, <1>7, <2>2
    <3> QED  BY <1>1, <1>6, <1>7, <2>2, <3>1
  <2> QED  BY <2>1, <2>2
<1>9. OneEach(r)
  <2> SUFFICES ASSUME NEW a \in 1..Len(r), NEW b \in 1..Len(r), r[a].call = r[b].call
               PROVE  a = b
    BY DEF OneEach
  <2>1. new.call = c
    BY DEF new
  <2>2. a = Len(r) <=> b = Len(r)
    BY <1>8, <2>1
  <2>3. CASE a # Len(r)
    <3> DEFINE x == n + d + a
               y == n + d + b
    <3>0. x \in 1..Len(entries) /\ r[a] = entries[x] /\ y \in 1..Len(entries) /\ r[b] = entries[y]
      BY <1>8, <2>2, <2>3
    <3>1. x = y
      <4> HIDE DEF x, y
      <4> QED  BY <3>0 DEF OneEach
    <3> QED  BY <1>2, <1>7, <3>1
  <2> QED  BY <2>2, <2>3
<1>10. OldestFirst(r)
  <2>1. \A j \in 1..Len(r) : ~r[j].expired
    BY <1>8 DEF new
  <2>2. 0 \in 0..Len(r) /\ \A j \in 1..Len(r) : ~(j <= 0)
    BY <1>7
  <2> QED  BY <2>1, <2>2 DEF OldestFirst
<1>11. Len(r) \in 1..Len(r)
  BY <1>2, <1>7
<1> QED  BY <1>7, <1>8, <1>9, <1>10, <1>11 DEF r, new

------------------------------------------------------------------------------

LEMMA CallStarts == Init => CallInv
<1> SUFFICES ASSUME Init
             PROVE  CallInv
  OBVIOUS
<1>1. entries = <<>> /\ entries \in Seq(Entry) /\ Len(entries) = 0
  BY DEF Init
<1>2. OneEach(entries) /\ OldestFirst(entries)
  BY <1>1 DEF OneEach, OldestFirst
<1> QED  BY <1>1, <1>2 DEF Init, CallInv

LEMMA Asking ==
  ASSUME CallInv, LifecycleTypeOK, NEW c \in Calls, ToolCall(c)
  PROVE  CallInv'
<1>1. live \in Sessions /\ at[c] = "new"
  BY DEF ToolCall, LifecycleTypeOK
<1>2. \A i \in 1..Len(entries) : entries[i] \in Entry /\ entries[i].call # c
  BY <1>1 DEF CallInv, EntryIsTrue
<1> DEFINE new == [call |-> c, session |-> live, expired |-> FALSE]
<1>3. /\ entries' \in Seq(Entry) /\ Len(entries') <= MaxEntries
      /\ OneEach(entries') /\ OldestFirst(entries')
      /\ \A i \in 1..Len(entries') :
            \/ entries'[i] = new
            \/ \E j \in 1..Len(entries) : entries'[i] = entries[j] /\ ~entries[j].expired
      /\ \E i \in 1..Len(entries') : entries'[i] = new
  BY <1>1, <1>2, Remembering DEF ToolCall, CallInv
<1>4. new.call = c /\ new.session = live /\ new.expired = FALSE
  OBVIOUS
<1> HIDE DEF new
<1>5. lost' \subseteq Calls /\ lost \subseteq lost'
  BY <1>2 DEF ToolCall, CallInv, Entry
<1>6. (\A i \in 1..Len(entries) : EntryIsTrue(entries[i]))'
  <2> SUFFICES ASSUME NEW i \in 1..Len(entries')
               PROVE  EntryIsTrue(entries[i])'
    OBVIOUS
  <2>1. CASE entries'[i] = new
    BY <1>1, <1>4, <2>1 DEF ToolCall, CallInv, EntryIsTrue
  <2>2. ASSUME NEW j \in 1..Len(entries), entries'[i] = entries[j]
        PROVE  EntryIsTrue(entries[i])'
    <3>1. EntryIsTrue(entries[j]) /\ entries[j].call \in Calls \ {c}
      BY <1>2 DEF CallInv, Entry
    <3> QED  BY <1>5, <2>2, <3>1 DEF ToolCall, CallInv, EntryIsTrue
  <2> QED  BY <1>3, <2>1, <2>2
<1>7. ASSUME NEW d \in Calls, at'[d] \in {"asked", "running"}, d \notin lost'
      PROVE  \E i \in 1..Len(entries') : entries'[i].call = d
  <2>1. CASE d = c
    BY <1>3, <1>4, <2>1
  <2>2. CASE d # c
    <3>1. at[d] \in {"asked", "running"} /\ d \notin lost
      BY <1>5, <1>7, <2>2 DEF ToolCall, CallInv
    <3>2. PICK j \in 1..Len(entries) : entries[j].call = d
      BY <3>1 DEF CallInv
    <3>3. \E i \in 1..Len(entries') : entries'[i] = entries[j]
      BY <1>7, <3>2 DEF ToolCall
    <3> QED  BY <3>2, <3>3
  <2> QED  BY <2>1, <2>2
<1>8. \A d \in Calls : routed'[d] # None =>
         at'[d] = "resulting" /\ (d \notin lost' => routed'[d] = home'[d])
  BY <1>1, <1>5 DEF ToolCall, CallInv
<1>9. at' \in [Calls -> {"new", "asked", "running", "resulting", "over"}]
      /\ home' \in [Calls -> Sessions \cup {None}] /\ routed' \in [Calls -> Sessions \cup {None}]
  BY <1>1 DEF ToolCall, CallInv
<1>10. entries' \in Seq(Entry) /\ Len(entries') <= MaxEntries /\ (OneEach(entries) /\ OldestFirst(entries))'
  BY <1>3 DEF OneEach, OldestFirst
<1> QED  BY <1>5, <1>6, <1>7, <1>8, <1>9, <1>10 DEF CallInv

LEMMA Passing ==
  ASSUME CallInv, NEW c \in Calls, ToolPasses(c)
  PROVE  CallInv'
BY DEF CallInv, ToolPasses, EntryIsTrue, OneEach, OldestFirst

\* A call that is over leaves the map and the histories.
LEMMA Ending ==
  ASSUME CallInv, NEW c \in Calls, Over(c), entries' = Without(c)
  PROVE  CallInv'
<1>1. /\ entries' \in Seq(Entry) /\ Len(entries') <= Len(entries)
      /\ OneEach(entries') /\ OldestFirst(entries')
      /\ \A i \in 1..Len(entries') :
            entries'[i].call # c /\ \E j \in 1..Len(entries) : entries'[i] = entries[j]
      /\ \A j \in 1..Len(entries) :
            entries[j].call # c => \E i \in 1..Len(entries') : entries'[i] = entries[j]
  <2>1. entries \in Seq(Entry) /\ OneEach(entries) /\ OldestFirst(entries)
    BY DEF CallInv
  <2>2. entries' = Without(c)
    OBVIOUS
  <2> QED  BY <2>1, <2>2, Forgetting
<1>2. Len(entries') <= MaxEntries
  BY <1>1 DEF CallInv
<1>3. (\A i \in 1..Len(entries) : EntryIsTrue(entries[i]))'
  <2> SUFFICES ASSUME NEW i \in 1..Len(entries')
               PROVE  EntryIsTrue(entries[i])'
    OBVIOUS
  <2>1. PICK j \in 1..Len(entries) : entries'[i] = entries[j]
    BY <1>1
  <2>2. entries[j] \in Entry /\ EntryIsTrue(entries[j])
    BY DEF CallInv
  <2>3. entries[j].call \in Calls \ {c}
    BY <1>1, <2>1, <2>2 DEF Entry
  <2> QED  BY <2>1, <2>2, <2>3 DEF Over, CallInv, EntryIsTrue
<1>4. ASSUME NEW d \in Calls, at'[d] \in {"asked", "running"}, d \notin lost'
      PROVE  \E i \in 1..Len(entries') : entries'[i].call = d
  <2>1. d # c /\ at[d] \in {"asked", "running"} /\ d \notin lost
    BY <1>4 DEF Over, CallInv
  <2>2. PICK j \in 1..Len(entries) : entries[j].call = d
    BY <2>1 DEF CallInv
  <2> QED  BY <1>1, <2>1, <2>2
<1>5. \A d \in Calls : routed'[d] # None =>
         at'[d] = "resulting" /\ (d \notin lost' => routed'[d] = home'[d])
  BY DEF Over, CallInv
<1>6. /\ at' \in [Calls -> {"new", "asked", "running", "resulting", "over"}] /\ lost' \subseteq Calls
      /\ home' \in [Calls -> Sessions \cup {None}] /\ routed' \in [Calls -> Sessions \cup {None}]
  BY DEF Over, CallInv
<1>7. (OneEach(entries) /\ OldestFirst(entries))'
  BY <1>1 DEF OneEach, OldestFirst
<1> QED  BY <1>1, <1>2, <1>3, <1>4, <1>5, <1>6, <1>7 DEF CallInv

\* The entry found for a call that is not lost is that of its session.
LEMMA Finding ==
  ASSUME CallInv, LifecycleTypeOK, NEW c \in Calls, at[c] = "running"
  PROVE  /\ Source(c) \in Sessions \cup {None}
         /\ c \notin lost => LookedUp(c) # {} /\ Source(c) = home[c]
<1>1. \A e \in LookedUp(c) : e.session \in Sessions /\ e.session = home[c]
  <2>1. \A i \in 1..Len(entries) : entries[i] \in Entry /\ EntryIsTrue(entries[i])
    BY DEF CallInv
  <2> QED  BY <2>1 DEF LookedUp, EntryOf, PlacesOf, EntryIsTrue, Entry
<1>2. c \notin lost => LookedUp(c) # {}
  <2> SUFFICES ASSUME c \notin lost
               PROVE  LookedUp(c) # {}
    OBVIOUS
  <2>1. PICK i \in 1..Len(entries) : entries[i].call = c
    BY DEF CallInv
  <2>2. ~entries[i].expired
    BY <2>1 DEF CallInv, EntryIsTrue
  <2> QED  BY <2>1, <2>2 DEF LookedUp, EntryOf, PlacesOf
<1>3. live \in Sessions \cup {None}
  BY DEF LifecycleTypeOK
<1> QED  BY <1>1, <1>2, <1>3 DEF Source

LEMMA Resulting ==
  ASSUME CallInv, LifecycleTypeOK, NEW c \in Calls, ToolResult(c)
  PROVE  CallInv'
<1>1. at[c] = "running" /\ UNCHANGED <<home, lost>>
  BY DEF ToolResult
<1>2. /\ Source(c) \in Sessions \cup {None}
      /\ c \notin lost => LookedUp(c) # {} /\ Source(c) = home[c]
  BY <1>1, Finding
<1>3. /\ entries' \in Seq(Entry) /\ Len(entries') <= MaxEntries
      /\ (OneEach(entries) /\ OldestFirst(entries))'
      /\ \A i \in 1..Len(entries') : \E j \in 1..Len(entries) : entries'[i] = entries[j]
      /\ \A j \in 1..Len(entries) :
            entries[j].call # c => \E i \in 1..Len(entries') : entries'[i] = entries[j]
  <2>1. CASE entries' = entries
    <3>1. Len(entries') = Len(entries)
      BY <2>1
    <3> QED  BY <2>1, <3>1 DEF CallInv, OneEach, OldestFirst
  <2>2. CASE entries' = Without(c)
    <3>1. entries \in Seq(Entry) /\ Len(entries) <= MaxEntries /\ OneEach(entries) /\ OldestFirst(entries)
      BY DEF CallInv
    <3>2. /\ entries' \in Seq(Entry) /\ Len(entries') <= Len(entries)
          /\ OneEach(entries') /\ OldestFirst(entries')
          /\ \A i \in 1..Len(entries') :
                entries'[i].call # c /\ \E j \in 1..Len(entries) : entries'[i] = entries[j]
          /\ \A j \in 1..Len(entries) :
                entries[j].call # c => \E i \in 1..Len(entries') : entries'[i] = entries[j]
      <4>1. entries' = Without(c)
        BY <2>2
      <4> QED  BY <3>1, <4>1, Forgetting
    <3>3. (OneEach(entries) /\ OldestFirst(entries))'
      BY <3>2 DEF OneEach, OldestFirst
    <3>4. Len(entries') <= MaxEntries
      BY <3>1, <3>2
    <3> QED  BY <3>2, <3>3, <3>4
  <2> QED  BY <2>1, <2>2 DEF ToolResult
<1>4. /\ \A d \in Calls : at'[d] = IF d = c THEN "resulting" ELSE at[d]
      /\ \A d \in Calls : routed'[d] = IF d = c THEN Source(c) ELSE routed[d]
  BY DEF ToolResult, CallInv
<1>5. (\A i \in 1..Len(entries) : EntryIsTrue(entries[i]))'
  <2> SUFFICES ASSUME NEW i \in 1..Len(entries')
               PROVE  EntryIsTrue(entries[i])'
    OBVIOUS
  <2>1. PICK j \in 1..Len(entries) : entries'[i] = entries[j]
    BY <1>3
  <2>2. entries[j] \in Entry /\ EntryIsTrue(entries[j])
    BY DEF CallInv
  <2>3. entries[j].call \in Calls
    BY <2>2 DEF Entry
  <2> QED  BY <1>1, <1>4, <2>1, <2>2, <2>3 DEF EntryIsTrue
<1>6. ASSUME NEW d \in Calls, at'[d] \in {"asked", "running"}, d \notin lost'
      PROVE  \E i \in 1..Len(entries') : entries'[i].call = d
  <2>1. d # c /\ at[d] \in {"asked", "running"} /\ d \notin lost
    BY <1>1, <1>4, <1>6
  <2>2. PICK j \in 1..Len(entries) : entries[j].call = d
    BY <2>1 DEF CallInv
  <2> QED  BY <1>3, <2>1, <2>2
<1>7. \A d \in Calls : routed'[d] # None =>
         at'[d] = "resulting" /\ (d \notin lost' => routed'[d] = home'[d])
  BY <1>1, <1>2, <1>4 DEF CallInv
<1>8. /\ at' \in [Calls -> {"new", "asked", "running", "resulting", "over"}] /\ lost' \subseteq Calls
      /\ home' \in [Calls -> Sessions \cup {None}] /\ routed' \in [Calls -> Sessions \cup {None}]
  BY <1>1, <1>2 DEF ToolResult, CallInv
<1> QED  BY <1>3, <1>5, <1>6, <1>7, <1>8 DEF CallInv

LEMMA EntryExpiring ==
  ASSUME CallInv, NEW c \in Calls, EntryExpires(c)
  PROVE  CallInv'
<1>1. PICK i \in 1..Len(entries) :
        /\ entries[i].call = c /\ ~entries[i].expired
        /\ \A j \in 1..i - 1 : entries[j].expired
        /\ entries' = [entries EXCEPT ![i].expired = TRUE]
  BY DEF EntryExpires
<1>2. lost' = lost \cup {c} /\ UNCHANGED <<at, home, routed>>
  BY DEF EntryExpires
<1>3. /\ entries \in Seq(Entry) /\ Len(entries) \in Nat
      /\ \A j \in 1..Len(entries) : entries[j] \in Entry /\ EntryIsTrue(entries[j])
  BY DEF CallInv
<1>4. [entries[i] EXCEPT !.expired = TRUE] \in Entry
  BY <1>3 DEF Entry
<1>5. /\ entries' \in Seq(Entry) /\ Len(entries') = Len(entries)
      /\ entries'[i] = [entries[i] EXCEPT !.expired = TRUE]
      /\ \A j \in 1..Len(entries) : j # i => entries'[j] = entries[j]
  <2> DEFINE e == [entries[i] EXCEPT !.expired = TRUE]
  <2>1. entries' = [entries EXCEPT ![i] = e]
    BY <1>1
  <2>2. e \in Entry /\ entries \in Seq(Entry)
    BY <1>3, <1>4
  <2> HIDE DEF e
  <2>3. /\ [entries EXCEPT ![i] = e] \in Seq(Entry) /\ Len([entries EXCEPT ![i] = e]) = Len(entries)
        /\ [entries EXCEPT ![i] = e][i] = e
        /\ \A j \in 1..Len(entries) : j # i => [entries EXCEPT ![i] = e][j] = entries[j]
    BY <2>2, ReplacedEntry
  <2>4. /\ entries' \in Seq(Entry) /\ Len(entries') = Len(entries)
        /\ entries'[i] = e
        /\ \A j \in 1..Len(entries) : j # i => entries'[j] = entries[j]
    BY <2>1, <2>3
  <2> QED  BY <2>4 DEF e
<1>6. \A j \in 1..Len(entries) :
         /\ entries'[j].call = entries[j].call /\ entries'[j].session = entries[j].session
         /\ entries'[j].expired <=> j = i \/ entries[j].expired
  BY <1>3, <1>5 DEF Entry
<1>7. OneEach(entries')
  BY <1>5, <1>6 DEF CallInv, OneEach
<1>8. OldestFirst(entries')
  <2>1. PICK n \in 0..Len(entries) : \A j \in 1..Len(entries) : entries[j].expired <=> j <= n
    BY DEF CallInv, OldestFirst
  <2>2. i = n + 1
    <3>1. ~(i <= n)
      BY <1>1, <2>1
    <3>2. i - 1 <= n
      <4>1. CASE i = 1
        BY <4>1
      <4>2. CASE i # 1
        <5>1. i - 1 \in 1..i - 1 /\ i - 1 \in 1..Len(entries)
          BY <1>3, <4>2
        <5> QED  BY <1>1, <2>1, <5>1
      <4> QED  BY <4>1, <4>2
    <3> QED  BY <1>3, <3>1, <3>2
  <2>3. i \in 0..Len(entries) /\ \A j \in 1..Len(entries) : entries'[j].expired <=> j <= i
    BY <1>3, <1>6, <2>1, <2>2
  <2> QED  BY <1>5, <2>3 DEF OldestFirst
<1>9. (OneEach(entries) /\ OldestFirst(entries))'
  BY <1>7, <1>8 DEF OneEach, OldestFirst
<1>10. (\A j \in 1..Len(entries) : EntryIsTrue(entries[j]))'
  BY <1>1, <1>2, <1>3, <1>5, <1>6 DEF EntryIsTrue, Entry
<1>11. \A d \in Calls :
         /\ at'[d] \in {"asked", "running"} /\ d \notin lost' =>
                \E j \in 1..Len(entries') : entries'[j].call = d
         /\ routed'[d] # None =>
                at'[d] = "resulting" /\ (d \notin lost' => routed'[d] = home'[d])
  BY <1>2, <1>5, <1>6 DEF CallInv
<1>12. /\ at' \in [Calls -> {"new", "asked", "running", "resulting", "over"}] /\ lost' \subseteq Calls
       /\ home' \in [Calls -> Sessions \cup {None}] /\ routed' \in [Calls -> Sessions \cup {None}]
       /\ Len(entries') <= MaxEntries
  BY <1>2, <1>5 DEF CallInv
<1> QED  BY <1>5, <1>9, <1>10, <1>11, <1>12 DEF CallInv

LEMMA ToolsKeep ==
  ASSUME CallInv, LifecycleTypeOK, Tools
  PROVE  CallInv'
<1>1. ASSUME NEW c \in Calls, ToolBlocked(c) \/ ToolDone(c)
      PROVE  CallInv'
  <2>1. Over(c) /\ entries' = Without(c)
    BY <1>1 DEF ToolBlocked, ToolDone
  <2> QED  BY <2>1, Ending
<1> QED  BY <1>1, Asking, Passing, Resulting, EntryExpiring DEF Tools

LEMMA CallsElsewhere ==
  ASSUME CallInv, UNCHANGED callVars
  PROVE  CallInv'
BY DEF CallInv, callVars, EntryIsTrue, OneEach, OldestFirst

LEMMA Homes == CallInv => ResultsGoHome
<1> SUFFICES ASSUME CallInv, NEW c \in Calls
             PROVE  /\ routed[c] # None /\ c \notin lost => routed[c] = home[c]
                    /\ at[c] = "over" => EntryOf(c) = {}
  BY DEF ResultsGoHome
<1> QED  BY DEF CallInv, EntryIsTrue, EntryOf, PlacesOf
------------------------------------------------------------------------------
(* Idle events. *)

\* What a run of the agent sent is what its flag says, and a candidate that is
\* current names a session that stopped in this run.
IdleInv ==
    /\ generation \in 0..MaxRuns /\ idleSent \in BOOLEAN
    /\ stopped \subseteq Sessions
    /\ idles = <<>> \/ \E s \in Sessions : idles = <<s>> /\ (host = "omp" => s \in stopped)
    /\ ~idleSent => idles = <<>>
    /\ candidate # None =>
          /\ candidate \in [session : Sessions, generation : Nat]
          /\ candidate.generation <= generation
          /\ candidate.generation = generation => candidate.session \in stopped

IInv == LInv /\ CallInv /\ IdleInv

LEMMA SendingIdle ==
  ASSUME IdleInv, live \in Sessions, DispatchIdle, host = "omp" => live \in stopped
  PROVE  /\ idleSent' = TRUE
         /\ \/ idles' = idles
            \/ \E s \in Sessions : idles' = <<s>> /\ (host = "omp" => s \in stopped)
<1>1. CASE idleSent
  BY <1>1 DEF DispatchIdle
<1>2. CASE ~idleSent
  <2>1. idles' = <<live>>
    BY <1>2 DEF DispatchIdle, IdleInv
  <2> QED  BY <2>1 DEF DispatchIdle
<1> QED  BY <1>1, <1>2 DEF IdleInv

LEMMA IdlingKeeps ==
  ASSUME LInv, IdleInv, Idling
  PROVE  LInv' /\ IdleInv'
<1>1. UNCHANGED lifecycleVars
  BY DEF Idling, AgentStart, SessionStop, PiAgentEnd, OmpAgentEnd
<1>2. LInv' /\ host' = host
  BY <1>1 DEF LInv, LifecycleTypeOK, HandledIsLive, SwitchWaits, NeverEntered, CreatedOnce, Told,
              lifecycleVars
<1>3. phase \in {"on", "asked"} => live \in Sessions
  BY DEF LInv, LifecycleTypeOK
<1>4. CASE AgentStart
  <2>1. generation' \in 0..MaxRuns /\ generation' > generation
    BY <1>4 DEF AgentStart, IdleInv
  <2>2. candidate # None => candidate'.generation < generation' /\ candidate' = candidate
    BY <1>4, <2>1 DEF AgentStart, IdleInv
  <2>3. stopped' = {} /\ idles' = <<>> /\ idleSent' = FALSE
    BY <1>4 DEF AgentStart
  <2>4. candidate # None =>
          /\ candidate' = candidate /\ candidate \in [session : Sessions, generation : Nat]
          /\ candidate.generation \in Nat /\ candidate.generation < generation'
    BY <2>2 DEF IdleInv
  <2>5. IdleInv'
    <3>1. candidate' # None => candidate # None
      BY <1>4 DEF AgentStart
    <3>2. candidate' # None =>
            /\ candidate' \in [session : Sessions, generation : Nat]
            /\ candidate'.generation <= generation'
            /\ candidate'.generation # generation'
      BY <2>1, <2>4, <3>1
    <3> QED  BY <2>1, <2>3, <3>2 DEF IdleInv
  <2> QED  BY <1>2, <2>5
<1>5. CASE SessionStop
  BY <1>2, <1>3, <1>5 DEF SessionStop, IdleInv
<1>6. CASE PiAgentEnd
  BY <1>2, <1>3, <1>6, SendingIdle DEF PiAgentEnd, IdleInv
<1>7. CASE OmpAgentEnd
  <2>1. CASE Current(candidate) /\ DispatchIdle
    <3>1. live \in Sessions /\ live \in stopped
      BY <1>3, <1>7, <2>1 DEF OmpAgentEnd, Current, IdleInv
    <3> QED  BY <1>2, <1>7, <2>1, <3>1, SendingIdle DEF OmpAgentEnd, IdleInv
  <2>2. CASE UNCHANGED <<idleSent, idles>>
    BY <1>2, <1>7, <2>2 DEF OmpAgentEnd, IdleInv
  <2> QED  BY <1>7, <2>1, <2>2 DEF OmpAgentEnd
<1> QED  BY <1>2, <1>4, <1>5, <1>6, <1>7 DEF Idling

LEMMA Elsewhere ==
  ASSUME IdleInv, UNCHANGED <<host, idleVars>>
  PROVE  IdleInv'
BY DEF IdleInv, idleVars

THEOREM Inductive == Spec => []IInv
<1>1. Init => IInv
  <2>1. Init => LInv /\ CallInv
    BY LifecycleStarts, CallStarts DEF Init
  <2>2. Init => IdleInv
    <3> SUFFICES ASSUME Init
                 PROVE  IdleInv
      OBVIOUS
    <3>1. generation \in 0..MaxRuns /\ idleSent \in BOOLEAN /\ stopped \subseteq Sessions
      <4>1. generation = 0 /\ idleSent = FALSE /\ stopped = {}
        BY DEF Init
      <4>2. 0 \in 0..MaxRuns
        OBVIOUS
      <4> QED  BY <4>1, <4>2, Zenon
    <3>2. idles = <<>> /\ candidate = None
      BY DEF Init
    <3> QED  BY <3>1, <3>2, Zenon DEF IdleInv
  <2> QED  BY <2>1, <2>2 DEF IInv
<1>2. IInv /\ [Next]_vars => IInv'
  <2> SUFFICES ASSUME IInv, [Next]_vars
               PROVE  IInv'
    OBVIOUS
  <2>1. CASE Lifecycle /\ UNCHANGED <<callVars, idleVars>>
    <3>1. host' = host
      BY <2>1 DEF Lifecycle, Startup, Switch, PiSwitch, OmpSwitch, Expire, StartAgain,
                  BeforeSwitch, SwitchCancelled, Reload, Shutdown
    <3> QED  BY <2>1, <3>1, LifecycleKeeps, CallsElsewhere, Elsewhere DEF IInv
  <2>2. CASE Tools
    <3>1. UNCHANGED <<lifecycleVars, idleVars>>
      BY <2>2 DEF Tools, ToolCall, ToolPasses, ToolBlocked, ToolResult, ToolDone, EntryExpires
    <3>2. LInv'
      BY <3>1 DEF IInv, LInv, LifecycleTypeOK, HandledIsLive, SwitchWaits, NeverEntered,
                  CreatedOnce, Told, lifecycleVars
    <3>3. CallInv'
      BY <2>2, ToolsKeep DEF IInv, LInv
    <3>4. IdleInv'
      BY <3>1, Elsewhere DEF IInv, lifecycleVars
    <3> QED  BY <3>2, <3>3, <3>4 DEF IInv
  <2>3. CASE Idling
    <3>1. UNCHANGED callVars
      BY <2>3 DEF Idling, AgentStart, SessionStop, PiAgentEnd, OmpAgentEnd
    <3> QED  BY <2>3, <3>1, IdlingKeeps, CallsElsewhere DEF IInv
  <2>4. CASE UNCHANGED vars
    BY <2>4, Elsewhere, CallsElsewhere DEF IInv, LInv, LifecycleTypeOK, HandledIsLive, SwitchWaits,
                NeverEntered, CreatedOnce, Told, vars, lifecycleVars
  <2> QED  BY <2>1, <2>2, <2>3, <2>4 DEF Next
<1> QED  BY <1>1, <1>2, PTL DEF Spec

------------------------------------------------------------------------------

\* The adapter's variables keep their types: the map of calls to sessions never
\* holds more than its cap, and a candidate is of a run there has been.
THEOREM TypeCorrect == Spec => []TypeOK
<1>1. IInv => TypeOK
  <2> SUFFICES ASSUME IInv
               PROVE  TypeOK
    OBVIOUS
  <2>1. idles \in Seq(Sessions)
    <3>1. idles = <<>> \/ \E s \in Sessions : idles = <<s>>
      BY Zenon DEF IInv, IdleInv
    <3>2. <<>> \in Seq(Sessions) /\ \A s \in Sessions : <<s>> \in Seq(Sessions)
      OBVIOUS
    <3> QED  BY <3>1, <3>2, Zenon
  <2>2. candidate = None \/ candidate \in [session : Sessions, generation : 0..MaxRuns]
    <3>1. CASE candidate # None
      <4>1. /\ candidate \in [session : Sessions, generation : Nat]
            /\ candidate.generation <= generation /\ generation \in 0..MaxRuns
        BY <3>1 DEF IInv, IdleInv
      <4>2. candidate.generation \in 0..MaxRuns
        BY <4>1
      <4> QED  BY <4>1, <4>2
    <3> QED  BY <3>1
  <2> QED  BY <2>1, <2>2 DEF IInv, LInv, CallInv, IdleInv, TypeOK
<1> QED  BY <1>1, Inductive, PTL

\* A tool result is dispatched to the session that made the call, whatever
\* switches happened in between and whichever calls ran beside it, unless its
\* entry expired or fell out; a call that is over left no entry.
THEOREM ResultsReachHome == Spec => []ResultsGoHome
<1>1. IInv => ResultsGoHome
  BY Homes DEF IInv
<1> QED  BY <1>1, Inductive, PTL

\* However a host switches, cancels, forks, reloads and shuts down, the end of a
\* visit is told exactly once, unless a mark of five seconds decided otherwise.
THEOREM EndsAreToldOnce == Spec => []DeletedOncePerVisit
<1>1. IInv => DeletedOncePerVisit
  BY DEF IInv, LInv, LifecycleTypeOK, Told, DeletedOncePerVisit
<1> QED  BY <1>1, Inductive, PTL

\* A session is created once when it is entered as a new one, and by no other
\* event of the host.
THEOREM Creations == Spec => []CreatedOnce
<1>1. IInv => CreatedOnce
  BY DEF IInv, LInv
<1> QED  BY <1>1, Inductive, PTL

\* A run of the agent is idle once at most, for a session that stopped in it.
THEOREM IdleOnce == Spec => []IdleOncePerRun
<1>1. IInv => IdleOncePerRun
  <2> SUFFICES ASSUME IdleInv
               PROVE  IdleOncePerRun
    BY DEF IInv
  <2>1. CASE idles = <<>>
    BY <2>1 DEF IdleOncePerRun
  <2>2. ASSUME NEW s \in Sessions, idles = <<s>>, host = "omp" => s \in stopped
        PROVE  IdleOncePerRun
    <3>1. Len(idles) = 1 /\ idles[1] = s
      BY <2>2
    <3> QED  BY <2>2, <3>1 DEF IdleOncePerRun
  <2> QED  BY <2>1, <2>2 DEF IdleInv
<1> QED  BY <1>1, Inductive, PTL
=============================================================================
