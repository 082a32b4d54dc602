-------------------------- MODULE HookReloadProofs --------------------------
(***************************************************************************)
(* Proofs about HookReload, for every set of projects, directories and     *)
(* edits, and every size of the caches.                                    *)
(*                                                                         *)
(* The trust list: commands that run at once, fail or die never undo what  *)
(* another one has written.                                                *)
(*                                                                         *)
(* The loads: what is cached, prepared and running was made from one disk; *)
(* it has hooks of the project only with a fingerprint of its file, so not *)
(* after a load that found no trust; and, as long as no write races a      *)
(* load, the disk it was made from is the one that its stats describe.     *)
(*                                                                         *)
(* The overrides of the hooks that were loaded: the index they are found   *)
(* through stays true, however many are applied; and the validation of     *)
(* lanes, which reports every disagreement.                                *)
(***************************************************************************)
EXTENDS HookReload, Composition, FiniteSetTheorems, SequenceTheorems, WellFoundedInduction,
        TLAPS

(* The trust list. *)

TrustShape ==
    /\ DOMAIN disk = Files
    /\ cmd \in [Commands -> [phase : {"waiting", "writing", "over"}, read : SUBSET Anchors]]
    /\ disk["trust"].trusts \subseteq Anchors
    /\ granted \subseteq Anchors /\ lock \in Commands \cup {None}

\* Who writes holds the lock, so nobody else does, and has read everything
\* that was granted.
WriterIsAlone ==
    \A p \in Commands :
        cmd[p].phase = "writing" => lock = p /\ granted \subseteq cmd[p].read

TrustInv == TrustShape /\ GrantsKept /\ WriterIsAlone

------------------------------------------------------------------------------

LEMMA Editing ==
  ASSUME HookReloadAssumption, TrustInv, NEW e \in Edits, Edit(e[1], e[2])
  PROVE  TrustInv'
<1> DEFINE f == e[1]
           kind == e[2]
           new == IF kind = "absent" THEN Absent
                  ELSE [stamp |-> writes + 1, kind |-> kind,
                        trusts |-> IF f = "trust" /\ kind = "valid" THEN {Here} ELSE {}]
<1>1. f \in Files
  BY DEF HookReloadAssumption, Files, HookFiles
<1>2. /\ disk' = [disk EXCEPT ![f] = new]
      /\ granted' = IF f = "trust" THEN {} ELSE granted
      /\ lock' = lock /\ cmd' = cmd
  BY DEF Edit, Put
<1>3. new.trusts \subseteq Anchors
  BY DEF HookReloadAssumption, Absent
<1> HIDE DEF new
<1>4. CASE f = "trust"
  BY <1>1, <1>2, <1>3, <1>4 DEF TrustInv, TrustShape, GrantsKept, WriterIsAlone
<1>5. CASE f # "trust"
  <2>1. disk'["trust"] = disk["trust"] /\ DOMAIN disk' = Files
    BY <1>1, <1>2, <1>5 DEF TrustInv, TrustShape, Files
  <2> QED  BY <1>2, <1>5, <2>1 DEF TrustInv, TrustShape, GrantsKept, WriterIsAlone
<1> QED  BY <1>4, <1>5

LEMMA Locking ==
  ASSUME HookReloadAssumption, TrustInv, NEW p \in Commands, Lock(p)
  PROVE  TrustInv'
<1> DEFINE trust == disk["trust"]
           usable == trust.kind # "broken"
           present == p \in trust.trusts
<1>1. /\ lock = None /\ disk' = disk
      /\ cmd' = [cmd EXCEPT ![p] = IF usable /\ ~present
                                   THEN [phase |-> "writing", read |-> trust.trusts]
                                   ELSE [phase |-> "over", read |-> {}]]
      /\ lock' = IF usable /\ ~present THEN p ELSE lock
      /\ granted' = IF usable /\ present THEN granted \cup {p} ELSE granted
  BY DEF Lock, ReadTrust, fileVars
<1>2. \A q \in Commands : cmd[q].phase # "writing"
  BY <1>1 DEF TrustInv, WriterIsAlone, HookReloadAssumption, Commands
<1>3. TrustShape'
  BY <1>1 DEF TrustInv, TrustShape, Commands
<1>4. GrantsKept'
  BY <1>1 DEF TrustInv, GrantsKept
<1>5. WriterIsAlone'
  <2> SUFFICES ASSUME NEW q \in Commands, cmd'[q].phase = "writing"
               PROVE  lock' = q /\ granted' \subseteq cmd'[q].read
    BY DEF WriterIsAlone
  <2>1. q = p
    BY <1>1, <1>2 DEF TrustInv, TrustShape
  <2>2. usable /\ ~present /\ cmd'[p].read = trust.trusts
    BY <1>1, <2>1 DEF TrustInv, TrustShape
  <2> QED  BY <1>1, <2>1, <2>2 DEF TrustInv, GrantsKept
<1> QED  BY <1>3, <1>4, <1>5 DEF TrustInv

LEMMA Writing ==
  ASSUME HookReloadAssumption, TrustInv, NEW p \in Commands, WriteTrust(p)
  PROVE  TrustInv'
<1>1. /\ cmd[p].phase = "writing"
      /\ disk' = [disk EXCEPT !["trust"] =
                     [stamp |-> writes + 1, kind |-> "valid", trusts |-> cmd[p].read \cup {p}]]
      /\ cmd' = [cmd EXCEPT ![p] = [phase |-> "over", read |-> {}]]
      /\ lock' \in {None, lock} /\ granted' = granted \cup {p}
  BY DEF WriteTrust, Put
<1>2. lock = p /\ granted \subseteq cmd[p].read /\ cmd[p].read \subseteq Anchors
  BY <1>1 DEF TrustInv, WriterIsAlone, TrustShape
<1>3. disk'["trust"].trusts = cmd[p].read \cup {p} /\ DOMAIN disk' = Files
  BY <1>1 DEF TrustInv, TrustShape, Files
<1>4. \A q \in Commands : cmd'[q].phase # "writing"
  <2> TAKE q \in Commands
  <2>1. CASE q = p
    BY <1>1, <2>1 DEF TrustInv, TrustShape
  <2>2. CASE q # p
    BY <1>1, <1>2, <2>2 DEF TrustInv, TrustShape, WriterIsAlone
  <2> QED  BY <2>1, <2>2
<1>5. cmd' \in [Commands -> [phase : {"waiting", "writing", "over"}, read : SUBSET Anchors]]
  BY <1>1 DEF TrustInv, TrustShape
<1>6. p \in Anchors
  BY DEF Commands
<1> QED  BY <1>1, <1>2, <1>3, <1>4, <1>5, <1>6 DEF TrustInv, TrustShape, GrantsKept, WriterIsAlone

LEMMA Leaving ==
  ASSUME TrustInv, NEW p \in Commands, GiveUp(p) \/ Die(p)
  PROVE  TrustInv'
<1>1. /\ UNCHANGED <<disk, lock, granted>>
      /\ cmd' \in [Commands -> [phase : {"waiting", "writing", "over"}, read : SUBSET Anchors]]
      /\ \A q \in Commands : cmd'[q].phase = "writing" => cmd'[q] = cmd[q]
  BY DEF GiveUp, Die, fileVars, TrustInv, TrustShape
<1> QED  BY <1>1 DEF TrustInv, TrustShape, GrantsKept, WriterIsAlone

LEMMA TrustElsewhere ==
  ASSUME TrustInv, UNCHANGED <<fileVars, trustVars>>
  PROVE  TrustInv'
BY DEF TrustInv, TrustShape, GrantsKept, WriterIsAlone, fileVars, trustVars

------------------------------------------------------------------------------
(* Maps that keep the most recent: their keys stay unique. *)

LEMMA Removing ==
  ASSUME NEW S, NEW s \in Seq(S), NEW i \in 1..Len(s)
  PROVE  /\ RemoveAt(s, i) \in Seq(S) /\ Len(RemoveAt(s, i)) = Len(s) - 1
         /\ \A j \in 1..(Len(s) - 1) : RemoveAt(s, i)[j] = s[IF j < i THEN j ELSE j + 1]
<1> DEFINE l == SubSeq(s, 1, i - 1)
           r == SubSeq(s, i + 1, Len(s))
<1>1. Len(s) \in Nat /\ i \in Nat /\ i <= Len(s) /\ i >= 1
  OBVIOUS
<1>2. l \in Seq(S) /\ Len(l) = i - 1 /\ \A j \in 1..(i - 1) : l[j] = s[j]
  BY <1>1, SubSeqProperties
<1>3. r \in Seq(S) /\ Len(r) = Len(s) - i /\ \A j \in 1..(Len(s) - i) : r[j] = s[i + j]
  <2>1. /\ r \in Seq(S)
        /\ Len(r) = IF i + 1 <= Len(s) THEN Len(s) - (i + 1) + 1 ELSE 0
        /\ \A j \in 1..(Len(s) - (i + 1) + 1) : r[j] = s[(i + 1) + j - 1]
    BY <1>1, SubSeqProperties
  <2> HIDE DEF r
  <2> QED  BY <1>1, <2>1
<1>4. RemoveAt(s, i) = l \o r
  BY DEF RemoveAt
<1> HIDE DEF l, r
<1>5. l \o r \in Seq(S) /\ Len(l \o r) = Len(s) - 1
  <2>1. l \o r \in Seq(S) /\ Len(l \o r) = Len(l) + Len(r)
    BY <1>2, <1>3, ConcatProperties
  <2> QED  BY <1>1, <1>2, <1>3, <2>1
<1>6. ASSUME NEW j \in 1..(Len(s) - 1)
      PROVE  (l \o r)[j] = s[IF j < i THEN j ELSE j + 1]
  <2>1. CASE j < i
    <3>1. j \in 1..(Len(l) + Len(r)) /\ j <= Len(l) /\ j \in 1..(i - 1)
      BY <1>1, <1>2, <1>3, <2>1
    <3>2. (l \o r)[j] = l[j]
      BY <1>2, <1>3, <3>1, ConcatProperties
    <3> QED  BY <1>2, <2>1, <3>1, <3>2
  <2>2. CASE ~(j < i)
    <3>1. j - (i - 1) \in 1..(Len(s) - i) /\ i + (j - (i - 1)) = j + 1 /\ j \in 1..(Len(l) + Len(r))
          /\ ~(j <= Len(l))
      BY <1>1, <1>2, <1>3, <2>2
    <3>2. (l \o r)[j] = r[j - Len(l)]
      BY <1>2, <1>3, <3>1, ConcatProperties
    <3> QED  BY <1>2, <1>3, <2>2, <3>1, <3>2
  <2> QED  BY <2>1, <2>2
<1> QED  BY <1>4, <1>5, <1>6

\* Everything left in a map was in it before, at a place of its own, and not at
\* the place of the key that was taken out.
Remains(S, s, places, r) ==
    /\ r \in Seq(S) /\ Len(r) <= Len(s)
    /\ \E was \in [1..Len(r) -> (1..Len(s)) \ places] :
          /\ \A i \in 1..Len(r) : r[i] = s[was[i]]
          /\ \A i, j \in 1..Len(r) : was[i] = was[j] => i = j

\* The same, with x behind it, and not more than n in all.
Follows(S, s, places, x, n, r) ==
    /\ r \in Seq(S) /\ Len(r) \in 1..n /\ r[Len(r)] = x
    /\ \E was \in [1..(Len(r) - 1) -> (1..Len(s)) \ places] :
          /\ \A i \in 1..(Len(r) - 1) : r[i] = s[was[i]]
          /\ \A i, j \in 1..(Len(r) - 1) : was[i] = was[j] => i = j

LEMMA Deleting ==
  ASSUME NEW S, NEW s \in Seq(S), NEW places \in SUBSET (1..Len(s)),
         \A i, j \in places : i = j
  PROVE  Remains(S, s, places, Without(s, places))
<1> DEFINE w == Without(s, places)
<1>1. CASE places = {}
  <2>1. w = s
    BY <1>1 DEF Without
  <2> HIDE DEF w
  <2> DEFINE was == [i \in 1..Len(s) |-> i]
  <2>2. /\ was \in [1..Len(w) -> (1..Len(s)) \ places]
        /\ \A i \in 1..Len(w) : w[i] = s[was[i]]
        /\ \A i, j \in 1..Len(w) : was[i] = was[j] => i = j
    BY <1>1, <2>1
  <2>3. w \in Seq(S) /\ Len(w) <= Len(s)
    BY <2>1
  <2> HIDE DEF was
  <2> QED  BY <2>2, <2>3 DEF w, Remains
<1>2. CASE places # {}
  <2>1. PICK i \in places : w = RemoveAt(s, i) /\ places = {i}
    BY <1>2 DEF Without
  <2>2. i \in 1..Len(s) /\ Len(s) \in Nat
    BY <2>1
  <2>3. /\ w \in Seq(S) /\ Len(w) = Len(s) - 1
        /\ \A j \in 1..(Len(s) - 1) : w[j] = s[IF j < i THEN j ELSE j + 1]
    BY <2>1, <2>2, Removing
  <2> HIDE DEF w
  <2> DEFINE was == [j \in 1..Len(w) |-> IF j < i THEN j ELSE j + 1]
  <2>4. was \in [1..Len(w) -> (1..Len(s)) \ places]
    BY <2>1, <2>2, <2>3
  <2>5. \A a, b \in 1..Len(w) : was[a] = was[b] => a = b
    BY <2>2, <2>3
  <2>6. \A j \in 1..Len(w) : w[j] = s[was[j]]
    BY <2>2, <2>3
  <2>7. Len(w) <= Len(s)
    BY <2>2, <2>3
  <2> HIDE DEF was
  <2> QED  BY <2>3, <2>4, <2>5, <2>6, <2>7 DEF w, Remains
<1> QED  BY <1>1, <1>2

LEMMA Setting ==
  ASSUME NEW S, NEW s \in Seq(S), NEW places \in SUBSET (1..Len(s)),
         \A i, j \in places : i = j, NEW x \in S, NEW n \in Nat \ {0}
  PROVE  Follows(S, s, places, x, n, Latest(s, places, x, n))
<1> DEFINE w == Without(s, places)
           a == Append(w, x)
           r == Latest(s, places, x, n)
<1>0. Remains(S, s, places, w)
  BY Deleting
<1>1. w \in Seq(S) /\ Len(w) \in Nat
  BY <1>0 DEF Remains
<1>2. PICK was \in [1..Len(w) -> (1..Len(s)) \ places] :
        /\ \A i \in 1..Len(w) : w[i] = s[was[i]]
        /\ \A i, j \in 1..Len(w) : was[i] = was[j] => i = j
  BY <1>0 DEF Remains
<1>3. r = IF Len(a) > n THEN SubSeq(a, Len(a) - n + 1, Len(a)) ELSE a
  BY DEF Latest, Newest
<1> HIDE DEF w
<1>4. /\ a \in Seq(S) /\ Len(a) = Len(w) + 1 /\ a[Len(w) + 1] = x
      /\ \A i \in 1..Len(w) : a[i] = w[i]
  BY <1>1, AppendProperties
<1> HIDE DEF a
<1>5. PICK d \in 0..Len(w) : /\ r \in Seq(S) /\ Len(r) = Len(a) - d /\ Len(r) <= n
                             /\ \A i \in 1..Len(r) : r[i] = a[i + d]
  <2>1. CASE Len(a) > n
    <3> DEFINE d == Len(a) - n
    <3>1. d \in 0..Len(w) /\ d + 1 \in Int /\ 1 <= d + 1 /\ d + 1 <= Len(a)
      BY <1>1, <1>4, <2>1
    <3>2. r = SubSeq(a, d + 1, Len(a))
      BY <1>3, <2>1
    <3> HIDE DEF d, r
    <3>3. /\ r \in Seq(S) /\ Len(r) = Len(a) - (d + 1) + 1
          /\ \A i \in 1..(Len(a) - (d + 1) + 1) : r[i] = a[(d + 1) + i - 1]
      BY <1>1, <1>4, <3>1, <3>2, SubSeqProperties
    <3>4. Len(r) = Len(a) - d
      BY <1>1, <1>4, <3>1, <3>3
    <3>5. \A i \in 1..Len(r) : r[i] = a[i + d]
      BY <1>1, <1>4, <3>1, <3>3
    <3>6. Len(r) <= n
      BY <1>1, <1>4, <3>4 DEF d
    <3> QED  BY <3>1, <3>3, <3>4, <3>5, <3>6
  <2>2. CASE ~(Len(a) > n)
    <3>1. r = a
      BY <1>3, <2>2
    <3> HIDE DEF r
    <3>2. Len(r) = Len(a) - 0 /\ Len(r) <= n /\ 0 \in 0..Len(w) /\ \A i \in 1..Len(r) : r[i] = a[i + 0]
      BY <1>1, <1>4, <2>2, <3>1
    <3> QED  BY <1>4, <3>1, <3>2
  <2> QED  BY <2>1, <2>2
<1> HIDE DEF r
<1>6. Len(r) \in 1..n /\ Len(r) = Len(w) + 1 - d
  BY <1>1, <1>4, <1>5
<1>7. r[Len(r)] = x
  <2>1. Len(r) + d = Len(w) + 1 /\ Len(r) \in 1..Len(r)
    BY <1>1, <1>6
  <2> QED  BY <1>4, <1>5, <2>1
<1> DEFINE old == [i \in 1..(Len(r) - 1) |-> was[i + d]]
<1>8. \A i \in 1..(Len(r) - 1) : i + d \in 1..Len(w) /\ i \in 1..Len(r)
  BY <1>1, <1>6
<1>9. old \in [1..(Len(r) - 1) -> (1..Len(s)) \ places]
  BY <1>2, <1>8
<1>10. \A i \in 1..(Len(r) - 1) : r[i] = s[old[i]]
  BY <1>2, <1>4, <1>5, <1>8
<1>11. \A i, j \in 1..(Len(r) - 1) : old[i] = old[j] => i = j
  <2> SUFFICES ASSUME NEW i \in 1..(Len(r) - 1), NEW j \in 1..(Len(r) - 1), old[i] = old[j]
               PROVE  i = j
    OBVIOUS
  <2>1. i + d = j + d
    BY <1>2, <1>8
  <2> QED  BY <1>5, <2>1
<1> HIDE DEF old
<1> QED  BY <1>5, <1>6, <1>7, <1>9, <1>10, <1>11 DEF r, Follows

------------------------------------------------------------------------------
(* What a load makes of the disk. *)

Disks == [Files -> Content]

Snapshots     == [key : SUBSET HookFiles, sig : Looks, result : Loaded]
PreparedLoads == [dir : Dirs, result : Loaded, sig : Looks]
Runtimes      == [hooks : HookSets, sig : Looks, watch : SUBSET Files, stats : Looks]

\* What is loaded without reading the file of the project comes from the global file.
GlobalOnly(result) ==
    "project" \notin result.watch =>
        result.files \subseteq {"global"} /\ \A x \in result.hooks : x[1] = "global"

LEMMA Looking ==
  ASSUME NEW d \in Disks, NEW X \in SUBSET Files
  PROVE  [f \in X |-> d[f]] \in Looks /\ DOMAIN [f \in X |-> d[f]] = X
<1>1. [f \in X |-> d[f]] \in [X -> Content]
  BY DEF Disks
<1> QED  BY <1>1 DEF Looks

\* A look finds the same only in the same files with the same contents.
LEMMA SameLook ==
  ASSUME NEW d, NEW e, NEW X, NEW Y, [f \in X |-> d[f]] = [f \in Y |-> e[f]]
  PROVE  X = Y /\ \A f \in X : d[f] = e[f]
<1>1. X = Y
  <2>1. DOMAIN [f \in X |-> d[f]] = DOMAIN [f \in Y |-> e[f]]
    OBVIOUS
  <2> QED  BY <2>1
<1>2. ASSUME NEW f \in X
      PROVE  d[f] = e[f]
  <2>1. [g \in X |-> d[g]][f] = [g \in Y |-> e[g]][f]
    OBVIOUS
  <2> QED  BY <1>1, <2>1
<1> QED  BY <1>1, <1>2

LEMMA Results ==
  ASSUME NEW d \in Disks
  PROVE  /\ Result(d) \in Loaded /\ GlobalOnly(Result(d)) /\ Entries(d) \in SUBSET HookFiles
         /\ Result(d).watch = Entries(d) \cup Imports(d)
         /\ ~Trusted(d) => "project" \notin Result(d).watch
<1> DEFINE reached == Entries(d) \cup Imports(d)
           read == {f \in reached : d[f].kind # "absent"}
           hooks == {<<f, d[f].stamp>> : f \in {g \in read : d[g].kind = "valid"}}
           errors == \E f \in reached : d[f].kind # "valid"
<1>1. Result(d) = [hooks |-> hooks, errors |-> errors, files |-> read, watch |-> reached]
  BY DEF Result
<1>2. reached \subseteq HookFiles /\ Entries(d) \subseteq {"global", "project"}
      /\ ("project" \notin reached => reached \subseteq {"global"})
  BY DEF Entries, Imports, HookFiles
<1>3. \A f \in HookFiles : d[f].stamp \in 0..MaxWrites
  BY DEF Disks, Content, Files
<1>4. read \subseteq reached /\ errors \in BOOLEAN
  OBVIOUS
<1>5. hooks \in HookSets /\ \A x \in hooks : x[1] \in read
  BY <1>2, <1>3, <1>4 DEF HookSets
<1>6. ~Trusted(d) => "project" \notin reached
  BY DEF Entries, Imports
<1> HIDE DEF reached, read, hooks, errors
<1>7. Result(d) \in Loaded
  BY <1>1, <1>2, <1>4, <1>5 DEF Loaded
<1>8. GlobalOnly(Result(d))
  BY <1>1, <1>2, <1>4, <1>5 DEF GlobalOnly
<1>9. Result(d).watch = Entries(d) \cup Imports(d) /\ (~Trusted(d) => "project" \notin Result(d).watch)
  BY <1>1, <1>6 DEF reached
<1> QED  BY <1>2, <1>7, <1>8, <1>9 DEF HookFiles

\* A load depends on the discovered files and on the contents of what it reaches.
LEMMA SameResult ==
  ASSUME NEW d \in Disks, NEW e \in Disks, Entries(d) = Entries(e),
         \A f \in Result(d).watch : d[f] = e[f]
  PROVE  Result(d) = Result(e)
<1>1. Result(d).watch = Entries(d) \cup Imports(d)
  BY Results
<1>2. Imports(d) = Imports(e)
  BY <1>1 DEF Imports
<1> DEFINE reached == Entries(d) \cup Imports(d)
           read(x) == {f \in reached : x[f].kind # "absent"}
           hooks(x) == {<<f, x[f].stamp>> : f \in {g \in read(x) : x[g].kind = "valid"}}
           errors(x) == \E f \in reached : x[f].kind # "valid"
<1>3. \A f \in reached : d[f] = e[f]
  BY <1>1
<1>4. read(d) = read(e)
  BY <1>3
<1>5. hooks(d) = hooks(e)
  BY <1>3, <1>4
<1>6. errors(d) = errors(e)
  BY <1>3
<1>7. /\ Result(d) = [hooks |-> hooks(d), errors |-> errors(d), files |-> read(d), watch |-> reached]
      /\ Result(e) = [hooks |-> hooks(e), errors |-> errors(e), files |-> read(e), watch |-> reached]
  BY <1>2 DEF Result
<1> HIDE DEF read, hooks, errors
<1> QED  BY <1>4, <1>5, <1>6, <1>7

\* Fingerprints determine what was loaded.
LEMMA SameSignature ==
  ASSUME NEW d \in Disks, NEW e \in Disks,
         [f \in Result(d).watch |-> d[f]] = [f \in Result(e).watch |-> e[f]]
  PROVE  Result(d) = Result(e)
<1>1. Result(d).watch = Result(e).watch /\ \A f \in Result(d).watch : d[f] = e[f]
  BY SameLook
<1>2. /\ Result(d).watch = Entries(d) \cup Imports(d)
      /\ Result(e).watch = Entries(e) \cup Imports(e)
  BY Results
<1>3. Entries(d) = Entries(e)
  BY <1>1, <1>2 DEF Entries, Imports
<1> QED  BY <1>1, <1>3, SameResult

\* And so do the watched files.
LEMMA SameStats ==
  ASSUME NEW d \in Disks, NEW e \in Disks, \A f \in Watch(Result(d)) : d[f] = e[f]
  PROVE  Result(d) = Result(e)
<1>1. d["global"] = e["global"] /\ d["project"] = e["project"] /\ d["trust"] = e["trust"]
      /\ \A f \in Result(d).watch : d[f] = e[f]
  BY DEF Watch
<1>2. Entries(d) = Entries(e)
  BY <1>1 DEF Entries, Trusted
<1> QED  BY <1>1, <1>2, SameResult

------------------------------------------------------------------------------
(* What is kept of the loads. *)

DiskShape == disk \in Disks /\ writes \in 0..MaxWrites

\* Fingerprints cover what was reached.
Kept(result, sig) ==
    /\ result \in Loaded /\ sig \in Looks
    /\ DOMAIN sig = result.watch /\ GlobalOnly(result)

\* A load of the directory has read its files.
InLoad(c) == load # None /\ load.dir = c /\ load.phase # "read"

CacheInv ==
    /\ cache \in Seq(Snapshots) /\ Len(cache) <= CacheMax
    /\ \A i, j \in 1..Len(cache) : cache[i].key = cache[j].key => i = j
    /\ \A i \in 1..Len(cache) : Kept(cache[i].result, cache[i].sig)

ContextInv ==
    /\ contexts \in Seq(Dirs) /\ Len(contexts) <= MaxRuntimes
    /\ \A i, j \in 1..Len(contexts) : contexts[i] = contexts[j] => i = j

\* A directory with a runtime has nothing prepared, and what is prepared was read
\* when the project was as trusted as it was seen last.
PreparedInv ==
    /\ prepared \in Seq(PreparedLoads) /\ Len(prepared) <= MaxRuntimes
    /\ \A i, j \in 1..Len(prepared) : prepared[i].dir = prepared[j].dir => i = j
    /\ \A i \in 1..Len(prepared) :
          /\ Kept(prepared[i].result, prepared[i].sig)
          /\ runtime[prepared[i].dir] = None
          /\ ~trustSeen[prepared[i].dir] /\ ~InLoad(prepared[i].dir) =>
                "project" \notin prepared[i].result.watch

\* Hooks of the project are there only with a fingerprint of its file.
Sound(r) ==
    /\ r \in Runtimes /\ DOMAIN r.stats = r.watch
    /\ "project" \notin DOMAIN r.sig => \A x \in r.hooks : x[1] = "global"

RuntimeInv ==
    /\ runtime \in [Dirs -> Runtimes \cup {None}]
    /\ good \in [Dirs -> SUBSET HookSets] /\ trustSeen \in [Dirs -> BOOLEAN]
    /\ \A c \in Dirs : runtime[c] # None =>
          /\ Sound(runtime[c])
          /\ \E i \in 1..Len(contexts) : contexts[i] = c
          /\ \E set \in good[c] : runtime[c].hooks \subseteq set
          /\ ~trustSeen[c] /\ ~(InLoad(c) /\ load.why = "refresh") =>
                "project" \notin DOMAIN runtime[c].sig

LoadInv ==
    load # None =>
       /\ load \in Loads
       /\ load.why = "create" =>
             /\ runtime[load.dir] = None /\ \A i \in 1..Len(prepared) : prepared[i].dir # load.dir
             /\ \E i \in 1..Len(contexts) : contexts[i] = load.dir
       /\ load.why = "refresh" => runtime[load.dir] # None
       /\ load.phase = "sign" => load.read \in Disks /\ load.result = Result(load.read)
       /\ load.phase = "prime" => load.why # "prompt" /\ Kept(load.result, load.sig)
       /\ load.phase # "read" /\ ~trustSeen[load.dir]
             /\ ~(load.why = "prompt" /\ runtime[load.dir] # None) =>
                   "project" \notin load.result.watch

\* What is kept arose from one disk, when no write raced a load; what is still to
\* be used is that of the disk as it is.
SnapshotOf(e, d) ==
    e.key = Entries(d) /\ e.result = Result(d) /\ e.sig = [f \in Result(d).watch |-> d[f]]

RuntimeOf(r, d) ==
    /\ r.sig = [f \in Result(d).watch |-> d[f]]
    /\ r.watch = Watch(Result(d)) /\ r.stats = [f \in Watch(Result(d)) |-> d[f]]
    /\ ~Result(d).errors => r.hooks = Result(d).hooks

Current(result, sig) == result = Result(disk) /\ sig = Look(Result(disk).watch)

KeptFresh ==
    /\ \A i \in 1..Len(cache) : \E d \in Disks : SnapshotOf(cache[i], d)
    /\ \A c \in Dirs : runtime[c] # None => \E d \in Disks : RuntimeOf(runtime[c], d)

PendingFresh ==
    /\ \A i \in 1..Len(prepared) : Current(prepared[i].result, prepared[i].sig)
    /\ load # None => /\ load.phase = "sign" => load.read = disk
                      /\ load.phase = "prime" => Current(load.result, load.sig)

FreshInv == ~late => KeptFresh /\ PendingFresh

LoadingInv ==
    /\ DiskShape /\ CacheInv /\ ContextInv /\ PreparedInv /\ RuntimeInv /\ LoadInv /\ FreshInv

------------------------------------------------------------------------------

LEMMA LoadingStarts == Init => LoadingInv
<1> SUFFICES ASSUME Init
             PROVE  LoadingInv
  OBVIOUS
<1>1. DiskShape
  <2>1. writes = 0 /\ 0 \in 0..MaxWrites
    BY HookReloadAssumption DEF Init, HookReloadAssumption
  <2>2. Here \in Anchors
    BY HookReloadAssumption DEF HookReloadAssumption
  <2> QED  BY <2>1, <2>2 DEF Init, DiskShape, Disks, Content
<1>2. /\ cache = <<>> /\ contexts = <<>> /\ prepared = <<>> /\ load = None
      /\ runtime = [c \in Dirs |-> None] /\ trustSeen = [c \in Dirs |-> FALSE]
      /\ good = [c \in Dirs |-> {}]
  BY DEF Init
<1>3. MaxRuntimes \in Nat /\ CacheMax \in Nat
  BY HookReloadAssumption DEF HookReloadAssumption
<1>4. CacheInv /\ ContextInv /\ PreparedInv
  BY <1>2, <1>3 DEF CacheInv, ContextInv, PreparedInv
<1>5. RuntimeInv /\ LoadInv /\ FreshInv
  BY <1>2 DEF RuntimeInv, LoadInv, FreshInv, KeptFresh, PendingFresh
<1> QED  BY <1>1, <1>4, <1>5 DEF LoadingInv

\* A write leaves what was loaded, and is late for what is still to be used.
LEMMA Putting ==
  ASSUME LoadingInv, NEW f \in Files, NEW kind \in {"absent", "valid", "broken"},
         NEW trusts \in SUBSET Anchors, Put(f, kind, trusts), UNCHANGED loadVars
  PROVE  LoadingInv'
<1> DEFINE new == IF kind = "absent" THEN Absent
                  ELSE [stamp |-> writes + 1, kind |-> kind, trusts |-> trusts]
<1>1. /\ writes < MaxWrites /\ writes' = writes + 1
      /\ disk' = [disk EXCEPT ![f] = new]
      /\ late' = (late \/ prepared # <<>> \/ (load # None /\ load.phase \in {"sign", "prime"}))
  BY DEF Put
<1>2. writes \in 0..MaxWrites /\ MaxWrites \in Nat
  BY HookReloadAssumption DEF LoadingInv, DiskShape, HookReloadAssumption
<1>3. new \in Content
  BY <1>1, <1>2 DEF Content, Absent
<1> HIDE DEF new
<1>4. DiskShape'
  BY <1>1, <1>2, <1>3 DEF LoadingInv, DiskShape, Disks
<1>5. (CacheInv /\ ContextInv)'
  BY DEF LoadingInv, CacheInv, ContextInv, loadVars
<1>6. (PreparedInv /\ RuntimeInv /\ LoadInv)'
  BY DEF LoadingInv, PreparedInv, RuntimeInv, LoadInv, InLoad, loadVars
<1>7. FreshInv'
  <2> SUFFICES ASSUME ~late'
               PROVE  KeptFresh' /\ PendingFresh'
    BY DEF FreshInv
  <2>1. ~late /\ prepared = <<>> /\ (load # None => load.phase # "sign" /\ load.phase # "prime")
    BY <1>1
  <2>2. KeptFresh'
    BY <2>1 DEF LoadingInv, FreshInv, KeptFresh, loadVars
  <2>3. PendingFresh'
    BY <2>1 DEF PendingFresh, loadVars
  <2> QED  BY <2>2, <2>3
<1> QED  BY <1>4, <1>5, <1>6, <1>7 DEF LoadingInv

LEMMA LoadsElsewhere ==
  ASSUME LoadingInv, UNCHANGED <<fileVars, loadVars, late>>
  PROVE  LoadingInv'
<1>1. (DiskShape /\ CacheInv /\ ContextInv)'
  BY DEF LoadingInv, DiskShape, CacheInv, ContextInv, fileVars, loadVars
<1>2. (PreparedInv /\ RuntimeInv /\ LoadInv)'
  BY DEF LoadingInv, PreparedInv, RuntimeInv, LoadInv, InLoad, loadVars
<1>3. FreshInv'
  BY DEF LoadingInv, FreshInv, KeptFresh, PendingFresh, Current, Look, fileVars, loadVars
<1> QED  BY <1>1, <1>2, <1>3 DEF LoadingInv

\* An event makes its directory the latest; the others keep their runtimes or lose them.
LEMMA Remembering ==
  ASSUME LoadingInv, NEW c \in Dirs, Remember(c)
  PROVE  /\ ContextInv'
         /\ \E i \in 1..Len(contexts') : contexts'[i] = c
         /\ runtime' \in [Dirs -> Runtimes \cup {None}] /\ runtime'[c] = runtime[c]
         /\ \A d \in Dirs : runtime'[d] # None =>
               runtime'[d] = runtime[d] /\ \E i \in 1..Len(contexts') : contexts'[i] = d
<1>1. /\ contexts \in Seq(Dirs) /\ MaxRuntimes \in Nat \ {0}
      /\ \A i, j \in 1..Len(contexts) : contexts[i] = contexts[j] => i = j
  BY HookReloadAssumption DEF LoadingInv, ContextInv, HookReloadAssumption
<1>2. /\ ContextOf(c) \in SUBSET (1..Len(contexts))
      /\ \A i, j \in ContextOf(c) : i = j
  BY <1>1 DEF ContextOf
<1>3. /\ contexts' = Latest(contexts, ContextOf(c), c, MaxRuntimes)
      /\ runtime' = [d \in Dirs |-> IF d \in Range(contexts') THEN runtime[d] ELSE None]
  BY DEF Remember
<1>4. Follows(Dirs, contexts, ContextOf(c), c, MaxRuntimes, contexts')
  BY <1>1, <1>2, <1>3, Setting
<1>5. PICK was \in [1..(Len(contexts') - 1) -> (1..Len(contexts)) \ ContextOf(c)] :
         /\ \A i \in 1..(Len(contexts') - 1) : contexts'[i] = contexts[was[i]]
         /\ \A i, j \in 1..(Len(contexts') - 1) : was[i] = was[j] => i = j
  BY <1>4 DEF Follows
<1>6. \A i \in 1..(Len(contexts') - 1) : contexts'[i] # c /\ was[i] \in 1..Len(contexts)
  <2> TAKE i \in 1..(Len(contexts') - 1)
  <2>1. was[i] \in (1..Len(contexts)) \ ContextOf(c) /\ contexts'[i] = contexts[was[i]]
    BY <1>5
  <2> QED  BY <2>1 DEF ContextOf
<1>7. /\ contexts' \in Seq(Dirs) /\ Len(contexts') \in 1..MaxRuntimes
       /\ contexts'[Len(contexts')] = c
  BY <1>4 DEF Follows
<1>8. \A i \in 1..Len(contexts') : i = Len(contexts') \/ i \in 1..(Len(contexts') - 1)
  BY <1>1, <1>7
<1>9. ContextInv'
  <2>1. ASSUME NEW i \in 1..Len(contexts'), NEW j \in 1..Len(contexts'), contexts'[i] = contexts'[j]
        PROVE  i = j
    <3>1. CASE i = Len(contexts') \/ j = Len(contexts')
      BY <1>7, <1>6, <1>8, <2>1, <3>1
    <3>2. CASE i # Len(contexts') /\ j # Len(contexts')
      <4>0. i \in 1..(Len(contexts') - 1) /\ j \in 1..(Len(contexts') - 1)
        BY <1>8, <3>2
      <4>1. was[i] = was[j]
        <5>1. contexts'[i] = contexts[was[i]] /\ contexts'[j] = contexts[was[j]]
          BY <1>5, <4>0
        <5> QED  BY <1>1, <1>6, <2>1, <4>0, <5>1
      <4> QED  BY <1>5, <1>8, <3>2, <4>1
    <3> QED  BY <3>1, <3>2
  <2>2. Len(contexts') <= MaxRuntimes
    BY <1>1, <1>7
  <2> QED  BY <1>7, <2>1, <2>2 DEF ContextInv
<1>10. \A d : d \in Range(contexts') <=> \E i \in 1..Len(contexts') : contexts'[i] = d
  BY <1>7 DEF Range
<1>11. c \in Range(contexts')
  BY <1>7, <1>10
<1>12. runtime \in [Dirs -> Runtimes \cup {None}]
  BY DEF LoadingInv, RuntimeInv
<1> QED  BY <1>3, <1>9, <1>10, <1>11, <1>12

------------------------------------------------------------------------------

\* The arrival of an event leaves the loads that are kept.
LEMMA Arriving ==
  ASSUME LoadingInv, NEW c \in Dirs, load = None, Remember(c),
         UNCHANGED <<fileVars, cache, trustSeen, good, late>>
  PROVE  /\ DiskShape' /\ CacheInv' /\ ContextInv' /\ RuntimeInv' /\ (~late' => KeptFresh')
         /\ \A d \in Dirs : runtime[d] = None => runtime'[d] = None
         /\ runtime'[c] = runtime[c] /\ \E i \in 1..Len(contexts') : contexts'[i] = c
<1>1. /\ ContextInv' /\ \E i \in 1..Len(contexts') : contexts'[i] = c
      /\ runtime' \in [Dirs -> Runtimes \cup {None}] /\ runtime'[c] = runtime[c]
      /\ \A d \in Dirs : runtime'[d] # None =>
            runtime'[d] = runtime[d] /\ \E i \in 1..Len(contexts') : contexts'[i] = d
  BY Remembering
<1>2. DiskShape' /\ CacheInv'
  BY DEF LoadingInv, DiskShape, CacheInv, fileVars
<1>3. RuntimeInv'
  <2>1. \A d \in Dirs : ~InLoad(d)
    BY DEF InLoad
  <2>2. ASSUME NEW d \in Dirs, runtime'[d] # None
        PROVE  /\ Sound(runtime'[d])
               /\ \E i \in 1..Len(contexts') : contexts'[i] = d
               /\ \E set \in good'[d] : runtime'[d].hooks \subseteq set
               /\ ~trustSeen'[d] => "project" \notin DOMAIN runtime'[d].sig
    BY <1>1, <2>1, <2>2 DEF LoadingInv, RuntimeInv
  <2>3. good' \in [Dirs -> SUBSET HookSets] /\ trustSeen' \in [Dirs -> BOOLEAN]
    BY DEF LoadingInv, RuntimeInv
  <2> QED  BY <1>1, <2>2, <2>3 DEF RuntimeInv, Sound
<1>4. ~late' => KeptFresh'
  BY <1>1 DEF LoadingInv, FreshInv, KeptFresh
<1> QED  BY <1>1, <1>2, <1>3, <1>4

LEMMA PreparedDirs ==
  ASSUME LoadingInv
  PROVE  \A i \in 1..Len(prepared) : prepared[i].dir \in Dirs
<1>1. \A i \in 1..Len(prepared) : prepared[i] \in PreparedLoads
  BY DEF LoadingInv, PreparedInv
<1> QED  BY <1>1 DEF PreparedLoads

LEMMA PreparedElsewhere ==
  ASSUME LoadingInv, load = None, UNCHANGED <<prepared, trustSeen>>,
         \A d \in Dirs : runtime[d] = None => runtime'[d] = None
  PROVE  PreparedInv'
<1>1. \A i \in 1..Len(prepared) : prepared[i].dir \in Dirs
  BY PreparedDirs
<1>2. ASSUME NEW i \in 1..Len(prepared)
      PROVE  /\ Kept(prepared[i].result, prepared[i].sig)
             /\ runtime'[prepared[i].dir] = None
             /\ ~trustSeen'[prepared[i].dir] => "project" \notin prepared[i].result.watch
  <2>1. /\ Kept(prepared[i].result, prepared[i].sig)
        /\ runtime[prepared[i].dir] = None
        /\ ~trustSeen[prepared[i].dir] => "project" \notin prepared[i].result.watch
    BY DEF LoadingInv, PreparedInv, InLoad
  <2> QED  BY <1>1, <2>1
<1> QED  BY <1>2 DEF LoadingInv, PreparedInv

LEMMA Unchanging ==
  ASSUME LoadingInv, NEW c \in Dirs, EventUnchanged(c)
  PROVE  LoadingInv'
<1>1. /\ load = None /\ load' = None /\ Remember(c)
      /\ UNCHANGED <<fileVars, cache, prepared, trustSeen, good, late>>
  BY DEF EventUnchanged
<1>2. /\ DiskShape' /\ CacheInv' /\ ContextInv' /\ RuntimeInv' /\ (~late' => KeptFresh')
      /\ \A d \in Dirs : runtime[d] = None => runtime'[d] = None
  BY <1>1, Arriving
<1>3. PreparedInv'
  BY <1>1, <1>2, PreparedElsewhere
<1>4. LoadInv' /\ (~late' => PendingFresh')
  BY <1>1 DEF LoadingInv, LoadInv, FreshInv, PendingFresh, Current, Look, fileVars
<1> QED  BY <1>2, <1>3, <1>4 DEF LoadingInv, FreshInv

LEMMA Beginnings ==
  ASSUME NEW c \in Dirs, NEW why \in {"refresh", "create", "prompt"}
  PROVE  /\ Begun(c, why) \in Loads /\ Begun(c, why).phase = "read"
         /\ Begun(c, why).dir = c /\ Begun(c, why).why = why
BY DEF Begun, Loads

LEMMA Changing ==
  ASSUME LoadingInv, NEW c \in Dirs, EventChanged(c)
  PROVE  LoadingInv'
<1>1. /\ load = None /\ load' = Begun(c, "refresh") /\ Remember(c) /\ runtime[c] # None
      /\ UNCHANGED <<fileVars, cache, prepared, trustSeen, good, late>>
  BY DEF EventChanged
<1>2. /\ DiskShape' /\ CacheInv' /\ ContextInv' /\ RuntimeInv' /\ (~late' => KeptFresh')
      /\ \A d \in Dirs : runtime[d] = None => runtime'[d] = None
      /\ runtime'[c] = runtime[c]
  BY <1>1, Arriving
<1>3. load' \in Loads /\ load'.phase = "read" /\ load'.dir = c /\ load'.why = "refresh"
  BY <1>1, Beginnings
<1>4. PreparedInv'
  BY <1>1, <1>2, PreparedElsewhere
<1>5. LoadInv'
  BY <1>1, <1>2, <1>3 DEF LoadInv
<1>6. ~late' => PendingFresh'
  BY <1>1, <1>3 DEF LoadingInv, FreshInv, PendingFresh, Current, Look, fileVars
<1> QED  BY <1>2, <1>4, <1>5, <1>6 DEF LoadingInv, FreshInv

LEMMA Prompting ==
  ASSUME LoadingInv, NEW c \in Dirs, Prompt(c)
  PROVE  LoadingInv'
<1>1. /\ load = None /\ load' = Begun(c, "prompt")
      /\ UNCHANGED <<fileVars, cache, contexts, prepared, runtime, trustSeen, good, late>>
  BY DEF Prompt
<1>2. load' \in Loads /\ load'.phase = "read" /\ load'.dir = c /\ load'.why = "prompt"
  BY <1>1, Beginnings
<1>3. (DiskShape /\ CacheInv /\ ContextInv)'
  BY <1>1 DEF LoadingInv, DiskShape, CacheInv, ContextInv, fileVars
<1>4. PreparedInv' /\ RuntimeInv' /\ LoadInv'
  BY <1>1, <1>2 DEF LoadingInv, PreparedInv, RuntimeInv, LoadInv, InLoad
<1>5. FreshInv'
  BY <1>1, <1>2 DEF LoadingInv, FreshInv, KeptFresh, PendingFresh, Current, Look, fileVars
<1> QED  BY <1>3, <1>4, <1>5 DEF LoadingInv

\* A directory has one place among the prepared loads.
LEMMA PreparedPlaces ==
  ASSUME LoadingInv, NEW c \in Dirs
  PROVE  /\ prepared \in Seq(PreparedLoads) /\ Prepared(c) \in SUBSET (1..Len(prepared))
         /\ \A i, j \in Prepared(c) : i = j
BY DEF LoadingInv, PreparedInv, Prepared

\* What remains of the prepared loads are others, with what held of them.
LEMMA Forgetting ==
  ASSUME LoadingInv, NEW c \in Dirs, prepared' = Without(prepared, Prepared(c))
  PROVE  /\ prepared' \in Seq(PreparedLoads) /\ Len(prepared') <= MaxRuntimes
         /\ \A i, j \in 1..Len(prepared') : prepared'[i].dir = prepared'[j].dir => i = j
         /\ \A i \in 1..Len(prepared') :
               prepared'[i].dir # c /\ \E j \in 1..Len(prepared) : prepared'[i] = prepared[j]
<1>1. Remains(PreparedLoads, prepared, Prepared(c), prepared')
  BY PreparedPlaces, Deleting
<1>2. PICK was \in [1..Len(prepared') -> (1..Len(prepared)) \ Prepared(c)] :
         /\ \A i \in 1..Len(prepared') : prepared'[i] = prepared[was[i]]
         /\ \A i, j \in 1..Len(prepared') : was[i] = was[j] => i = j
  BY <1>1 DEF Remains
<1>3. prepared' \in Seq(PreparedLoads) /\ Len(prepared') <= MaxRuntimes
  <2>1. MaxRuntimes \in Nat /\ Len(prepared) <= MaxRuntimes /\ Len(prepared) \in Nat
    BY PreparedPlaces, HookReloadAssumption DEF LoadingInv, PreparedInv, HookReloadAssumption
  <2>2. prepared' \in Seq(PreparedLoads) /\ Len(prepared') <= Len(prepared)
    BY <1>1 DEF Remains
  <2> QED  BY <2>1, <2>2
<1>4. \A i \in 1..Len(prepared') :
         was[i] \in 1..Len(prepared) /\ prepared'[i] = prepared[was[i]] /\ prepared'[i].dir # c
  <2> TAKE i \in 1..Len(prepared')
  <2>1. was[i] \in (1..Len(prepared)) \ Prepared(c) /\ prepared'[i] = prepared[was[i]]
    BY <1>2
  <2> QED  BY <2>1 DEF Prepared
<1>5. ASSUME NEW i \in 1..Len(prepared'), NEW j \in 1..Len(prepared'),
             prepared'[i].dir = prepared'[j].dir
      PROVE  i = j
  <2>1. was[i] = was[j]
    BY <1>4, <1>5 DEF LoadingInv, PreparedInv
  <2> QED  BY <1>2, <2>1
<1> QED  BY <1>3, <1>4, <1>5

LEMMA FirstEvent ==
  ASSUME LoadingInv, NEW c \in Dirs, EventFirst(c)
  PROVE  LoadingInv'
<1>1. /\ load = None /\ runtime[c] = None /\ Remember(c)
      /\ prepared' = Without(prepared, Prepared(c))
      /\ UNCHANGED <<fileVars, cache, trustSeen, good, late>>
  BY DEF EventFirst
<1>2. /\ DiskShape' /\ CacheInv' /\ ContextInv' /\ RuntimeInv' /\ (~late' => KeptFresh')
      /\ \A d \in Dirs : runtime[d] = None => runtime'[d] = None
      /\ \E i \in 1..Len(contexts') : contexts'[i] = c
  BY <1>1, Arriving
<1>3. /\ prepared' \in Seq(PreparedLoads) /\ Len(prepared') <= MaxRuntimes
      /\ \A i, j \in 1..Len(prepared') : prepared'[i].dir = prepared'[j].dir => i = j
      /\ \A i \in 1..Len(prepared') :
            prepared'[i].dir # c /\ \E j \in 1..Len(prepared) : prepared'[i] = prepared[j]
  BY <1>1, Forgetting
<1>4. \A j \in 1..Len(prepared) :
         /\ Kept(prepared[j].result, prepared[j].sig) /\ prepared[j].dir \in Dirs
         /\ runtime[prepared[j].dir] = None
         /\ ~trustSeen[prepared[j].dir] => "project" \notin prepared[j].result.watch
  <2>1. \A j \in 1..Len(prepared) : prepared[j].dir \in Dirs
    BY PreparedDirs
  <2> QED  BY <1>1, <2>1 DEF LoadingInv, PreparedInv, InLoad
<1>5. PreparedInv'
  <2>1. ASSUME NEW i \in 1..Len(prepared')
        PROVE  /\ Kept(prepared'[i].result, prepared'[i].sig)
               /\ runtime'[prepared'[i].dir] = None
               /\ ~trustSeen'[prepared'[i].dir] => "project" \notin prepared'[i].result.watch
    <3>1. PICK j \in 1..Len(prepared) : prepared'[i] = prepared[j]
      BY <1>3
    <3> QED  BY <1>1, <1>2, <1>4, <3>1
  <2> QED  BY <1>3, <2>1 DEF PreparedInv, Kept
<1>6. CASE Prepared(c) = {}
  <2>1. load' = Begun(c, "create")
    BY <1>6 DEF EventFirst
  <2>2. load' \in Loads /\ load'.phase = "read" /\ load'.dir = c /\ load'.why = "create"
    BY <2>1, Beginnings
  <2>3. LoadInv'
    BY <1>1, <1>2, <1>3, <2>2 DEF LoadInv
  <2>4. ~late' => PendingFresh'
    <3> SUFFICES ASSUME ~late'
                 PROVE  PendingFresh'
      OBVIOUS
    <3>1. \A i \in 1..Len(prepared') : Current(prepared'[i].result, prepared'[i].sig)
      BY <1>1, <1>3 DEF LoadingInv, FreshInv, PendingFresh
    <3>2. (\A i \in 1..Len(prepared) : Current(prepared[i].result, prepared[i].sig))'
      BY <1>1, <3>1 DEF Current, Look, fileVars
    <3> QED  BY <2>2, <3>2 DEF PendingFresh
  <2> QED  BY <1>2, <1>5, <2>3, <2>4 DEF LoadingInv, FreshInv
<1>7. CASE Prepared(c) # {}
  <2>1. PICK j \in Prepared(c) :
           load' = [Begun(c, "create") EXCEPT !.phase = "prime", !.result = prepared[j].result,
                                              !.sig = prepared[j].sig]
    <3>1. {prepared[i] : i \in Prepared(c)} # {}
      BY <1>7
    <3>2. PICK x \in {prepared[i] : i \in Prepared(c)} :
             load' = [Begun(c, "create") EXCEPT !.phase = "prime", !.result = x.result, !.sig = x.sig]
      BY <3>1 DEF EventFirst
    <3> QED  BY <3>2
  <2>2. j \in 1..Len(prepared) /\ prepared[j].dir = c
    BY <2>1 DEF Prepared
  <2>3. /\ Kept(prepared[j].result, prepared[j].sig)
        /\ ~trustSeen[c] => "project" \notin prepared[j].result.watch
    BY <1>4, <2>2
  <2>4. /\ load'.phase = "prime" /\ load'.dir = c /\ load'.why = "create"
        /\ load'.result = prepared[j].result /\ load'.sig = prepared[j].sig
    BY <2>1 DEF Begun
  <2>5. load' \in Loads
    BY <2>1, <2>3 DEF Begun, Loads, Kept
  <2>6. LoadInv'
    BY <1>1, <1>2, <1>3, <2>3, <2>4, <2>5 DEF LoadInv, Kept
  <2>7. ~late' => PendingFresh'
    <3> SUFFICES ASSUME ~late'
                 PROVE  PendingFresh'
      OBVIOUS
    <3>1. /\ \A i \in 1..Len(prepared') : Current(prepared'[i].result, prepared'[i].sig)
          /\ Current(load'.result, load'.sig)
      BY <1>1, <1>3, <2>2, <2>4 DEF LoadingInv, FreshInv, PendingFresh
    <3>2. (\A i \in 1..Len(prepared) : Current(prepared[i].result, prepared[i].sig))'
      BY <1>1, <3>1 DEF Current, Look, fileVars
    <3>3. Current(load.result, load.sig)'
      BY <1>1, <3>1 DEF Current, Look, fileVars
    <3> QED  BY <2>4, <3>2, <3>3 DEF PendingFresh
  <2> QED  BY <1>2, <1>5, <2>6, <2>7 DEF LoadingInv, FreshInv
<1> QED  BY <1>6, <1>7

------------------------------------------------------------------------------

\* The files are read, and with them the list of trust.
LEMMA Reading ==
  ASSUME LoadingInv, ReadFiles
  PROVE  LoadingInv'
<1> DEFINE c == load.dir
<1>1. /\ load # None /\ load.phase = "read"
      /\ load' = [load EXCEPT !.read = disk, !.result = Result(disk), !.phase = "sign"]
      /\ trustSeen' = IF load.why = "prompt" /\ runtime[c] # None THEN trustSeen
                      ELSE [trustSeen EXCEPT ![c] = Trusted(disk)]
      /\ UNCHANGED <<fileVars, cache, contexts, prepared, runtime, good, late>>
  BY DEF ReadFiles
<1>2. load \in Loads /\ c \in Dirs /\ disk \in Disks
  BY <1>1 DEF LoadingInv, LoadInv, DiskShape, Loads
<1>3. /\ Result(disk) \in Loaded
      /\ ~Trusted(disk) => "project" \notin Result(disk).watch
  BY <1>2, Results
<1>4. /\ load' \in Loads /\ load'.phase = "sign" /\ load'.dir = c /\ load'.why = load.why
      /\ load'.read = disk /\ load'.result = Result(disk)
  BY <1>1, <1>2, <1>3 DEF Loads, Disks
<1>5. load' # None
  BY <1>4, NoneIsNoLoad
<1>6. trustSeen \in [Dirs -> BOOLEAN] /\ Trusted(disk) \in BOOLEAN
  BY DEF LoadingInv, RuntimeInv, Trusted
<1>7. /\ trustSeen' \in [Dirs -> BOOLEAN]
      /\ \A d \in Dirs : d # c => trustSeen'[d] = trustSeen[d]
      /\ trustSeen'[c] = IF load.why = "prompt" /\ runtime[c] # None THEN trustSeen[c]
                         ELSE Trusted(disk)
  BY <1>1, <1>2, <1>6
<1>8. (DiskShape /\ CacheInv /\ ContextInv)'
  BY <1>1 DEF LoadingInv, DiskShape, CacheInv, ContextInv, fileVars
<1>9. PreparedInv'
  <2>1. ASSUME NEW i \in 1..Len(prepared)
        PROVE  /\ Kept(prepared[i].result, prepared[i].sig)
               /\ runtime[prepared[i].dir] = None
               /\ ~trustSeen'[prepared[i].dir] /\ prepared[i].dir # c =>
                     "project" \notin prepared[i].result.watch
    <3>1. prepared[i].dir \in Dirs
      BY PreparedDirs
    <3>2. /\ Kept(prepared[i].result, prepared[i].sig)
          /\ runtime[prepared[i].dir] = None
          /\ ~trustSeen[prepared[i].dir] /\ ~InLoad(prepared[i].dir) =>
                "project" \notin prepared[i].result.watch
      BY DEF LoadingInv, PreparedInv
    <3>3. ~InLoad(prepared[i].dir)
      BY <1>1 DEF InLoad
    <3> QED  BY <1>7, <3>1, <3>2, <3>3
  <2>2. \A i \in 1..Len(prepared) : prepared[i].dir = c => InLoad(prepared[i].dir)'
    BY <1>1, <1>4, <1>5 DEF InLoad
  <2> QED  BY <1>1, <2>1, <2>2 DEF LoadingInv, PreparedInv
<1>10. RuntimeInv'
  <2>1. ASSUME NEW d \in Dirs, runtime[d] # None
        PROVE  ~trustSeen'[d] /\ ~(InLoad(d)' /\ load'.why = "refresh") =>
                  "project" \notin DOMAIN runtime[d].sig
    <3>1. ~InLoad(d)
      BY <1>1 DEF InLoad
    <3>2. ~trustSeen[d] => "project" \notin DOMAIN runtime[d].sig
      BY <2>1, <3>1 DEF LoadingInv, RuntimeInv
    <3>3. CASE d # c
      BY <1>7, <3>2, <3>3
    <3>4. CASE d = c
      <4>1. load.why # "create"
        BY <1>1, <2>1, <3>4 DEF LoadingInv, LoadInv
      <4>2. CASE load.why = "prompt"
        BY <1>7, <2>1, <3>2, <3>4, <4>2
      <4>3. CASE load.why = "refresh"
        BY <1>4, <1>5, <3>4, <4>3 DEF InLoad
      <4> QED  BY <1>2, <4>1, <4>2, <4>3 DEF Loads
    <3> QED  BY <3>3, <3>4
  <2> QED  BY <1>1, <1>7, <2>1 DEF LoadingInv, RuntimeInv
<1>11. LoadInv'
  BY <1>1, <1>2, <1>3, <1>4, <1>7 DEF LoadingInv, LoadInv
<1>12. FreshInv'
  BY <1>1, <1>4 DEF LoadingInv, FreshInv, KeptFresh, PendingFresh, Current, Look, fileVars
<1> QED  BY <1>8, <1>9, <1>10, <1>11, <1>12 DEF LoadingInv

------------------------------------------------------------------------------
(* The fingerprints are taken. *)

Signature == Look(load.result.watch)
Hits      == {i \in 1..Len(cache) : cache[i].key = Key(load.read) /\ cache[i].sig = Signature}
Chosen    == IF Hits = {} THEN load.result ELSE cache[CHOOSE i \in Hits : TRUE].result

\* Whether it was just made or was cached, the result fits the fingerprints, has
\* reached what was read, and is that of the disk unless a write came between.
LEMMA Choosing ==
  ASSUME LoadingInv, load # None, load.phase = "sign"
  PROVE  /\ Kept(Chosen, Signature) /\ Chosen.watch = load.result.watch
         /\ Key(load.read) \in SUBSET HookFiles
         /\ ~late => Current(Chosen, Signature) /\ load.read = disk
<1>1. load.read \in Disks /\ load.result = Result(load.read) /\ disk \in Disks
  BY DEF LoadingInv, LoadInv, DiskShape
<1>2. /\ load.result \in Loaded /\ GlobalOnly(load.result) /\ Key(load.read) \in SUBSET HookFiles
  BY <1>1, Results DEF Key
<1>3. load.result.watch \in SUBSET Files
  BY <1>2 DEF Loaded, Files
<1>4. Signature \in Looks /\ DOMAIN Signature = load.result.watch
  BY <1>1, <1>3, Looking DEF Signature, Look
<1>5. CASE Hits = {}
  <2>1. Chosen = load.result
    BY <1>5 DEF Chosen
  <2>2. ~late => Current(load.result, Signature) /\ load.read = disk
    BY <1>1 DEF LoadingInv, FreshInv, PendingFresh, Current, Signature
  <2> QED  BY <1>2, <1>4, <2>1, <2>2 DEF Kept
<1>6. CASE Hits # {}
  <2>1. PICK i \in Hits : Chosen = cache[i].result
    BY <1>6 DEF Chosen
  <2>2. i \in 1..Len(cache) /\ cache[i].key = Key(load.read) /\ cache[i].sig = Signature
    BY <2>1 DEF Hits
  <2>3. Kept(Chosen, Signature)
    BY <2>1, <2>2 DEF LoadingInv, CacheInv
  <2>4. Chosen.watch = load.result.watch
    BY <1>4, <2>3 DEF Kept
  <2>5. ASSUME ~late
        PROVE  Current(Chosen, Signature) /\ load.read = disk
    <3>1. load.read = disk
      BY <2>5 DEF LoadingInv, FreshInv, PendingFresh
    <3>2. PICK d \in Disks : SnapshotOf(cache[i], d)
      BY <2>2, <2>5 DEF LoadingInv, FreshInv, KeptFresh
    <3>3. [f \in Result(d).watch |-> d[f]] = [f \in Result(disk).watch |-> disk[f]]
      BY <1>1, <2>2, <3>1, <3>2 DEF SnapshotOf, Signature, Look
    <3>4. Result(d) = Result(disk)
      BY <1>1, <3>3, SameSignature
    <3> QED  BY <1>1, <2>1, <3>1, <3>2, <3>4 DEF SnapshotOf, Current, Signature
  <2> QED  BY <1>2, <2>3, <2>4, <2>5
<1> QED  BY <1>5, <1>6

LEMMA Caching ==
  ASSUME LoadingInv, load # None, load.phase = "sign",
         cache' = Latest(cache, {i \in 1..Len(cache) : cache[i].key = Key(load.read)},
                         [key |-> Key(load.read), sig |-> Signature, result |-> Chosen], CacheMax)
  PROVE  /\ CacheInv'
         /\ ~late => \A i \in 1..Len(cache') : \E d \in Disks : SnapshotOf(cache'[i], d)
<1> DEFINE key == Key(load.read)
           same == {i \in 1..Len(cache) : cache[i].key = key}
           entry == [key |-> key, sig |-> Signature, result |-> Chosen]
<1>1. /\ Kept(Chosen, Signature) /\ key \in SUBSET HookFiles
      /\ ~late => Current(Chosen, Signature) /\ load.read = disk
  BY Choosing
<1>2. entry \in Snapshots /\ entry.key = key /\ entry.sig = Signature /\ entry.result = Chosen
  BY <1>1 DEF Snapshots, Kept
<1>3. /\ cache \in Seq(Snapshots) /\ CacheMax \in Nat \ {0}
      /\ same \in SUBSET (1..Len(cache)) /\ \A i, j \in same : i = j
  BY HookReloadAssumption DEF LoadingInv, CacheInv, HookReloadAssumption
<1>4. cache' = Latest(cache, same, entry, CacheMax)
  OBVIOUS
<1>5. \A i \in (1..Len(cache)) \ same : cache[i].key # key
  OBVIOUS
<1> HIDE DEF entry, same, key
<1>6. Follows(Snapshots, cache, same, entry, CacheMax, cache')
  BY <1>2, <1>3, <1>4, Setting
<1>7. /\ cache' \in Seq(Snapshots) /\ Len(cache') \in 1..CacheMax /\ cache'[Len(cache')] = entry
  BY <1>6 DEF Follows
<1>8. PICK was \in [1..(Len(cache') - 1) -> (1..Len(cache)) \ same] :
         /\ \A i \in 1..(Len(cache') - 1) : cache'[i] = cache[was[i]]
         /\ \A i, j \in 1..(Len(cache') - 1) : was[i] = was[j] => i = j
  BY <1>6 DEF Follows
<1>9. ASSUME NEW i \in 1..Len(cache')
      PROVE  \/ i = Len(cache') /\ cache'[i] = entry
             \/ /\ i \in 1..(Len(cache') - 1) /\ was[i] \in 1..Len(cache)
                /\ cache'[i] = cache[was[i]] /\ cache'[i].key # key
  <2>1. CASE i = Len(cache')
    BY <1>7, <2>1
  <2>2. CASE i # Len(cache')
    <3>1. i \in 1..(Len(cache') - 1)
      BY <1>7, <2>2
    <3>2. was[i] \in (1..Len(cache)) \ same /\ cache'[i] = cache[was[i]]
      BY <1>8, <3>1
    <3> QED  BY <1>5, <3>1, <3>2
  <2> QED  BY <2>1, <2>2
<1>10. ASSUME NEW i \in 1..Len(cache'), NEW j \in 1..Len(cache'), cache'[i].key = cache'[j].key
       PROVE  i = j
  <2>1. CASE i = Len(cache') \/ j = Len(cache')
    <3>1. cache'[i].key = key /\ cache'[j].key = key
      BY <1>2, <1>7, <1>10, <2>1
    <3> QED  BY <1>9, <3>1
  <2>2. CASE i # Len(cache') /\ j # Len(cache')
    <3>1. /\ i \in 1..(Len(cache') - 1) /\ was[i] \in 1..Len(cache) /\ cache'[i] = cache[was[i]]
          /\ j \in 1..(Len(cache') - 1) /\ was[j] \in 1..Len(cache) /\ cache'[j] = cache[was[j]]
      BY <1>9, <2>2
    <3>2. was[i] = was[j]
      BY <1>10, <3>1 DEF LoadingInv, CacheInv
    <3> QED  BY <1>8, <3>1, <3>2
  <2> QED  BY <2>1, <2>2
<1>11. \A i \in 1..Len(cache') : Kept(cache'[i].result, cache'[i].sig)
  BY <1>1, <1>2, <1>9 DEF LoadingInv, CacheInv
<1>12. Len(cache') <= CacheMax
  BY <1>3, <1>7
<1>13. CacheInv'
  BY <1>7, <1>10, <1>11, <1>12 DEF CacheInv, Kept
<1>14. ASSUME ~late, NEW i \in 1..Len(cache')
       PROVE  \E d \in Disks : SnapshotOf(cache'[i], d)
  <2>1. SnapshotOf(entry, disk) /\ disk \in Disks
    BY <1>1, <1>2, <1>14 DEF SnapshotOf, Current, Look, Key, key, LoadingInv, DiskShape
  <2> QED  BY <1>9, <1>14, <2>1 DEF LoadingInv, FreshInv, KeptFresh
<1> QED  BY <1>13, <1>14

\* The new prepared load of a directory takes the place of the old one.
LEMMA Preparing ==
  ASSUME LoadingInv, NEW c \in Dirs, NEW x \in PreparedLoads, x.dir = c,
         prepared' = Latest(prepared, Prepared(c), x, MaxRuntimes)
  PROVE  /\ prepared' \in Seq(PreparedLoads) /\ Len(prepared') <= MaxRuntimes
         /\ \A i, j \in 1..Len(prepared') : prepared'[i].dir = prepared'[j].dir => i = j
         /\ \A i \in 1..Len(prepared') :
               \/ prepared'[i] = x
               \/ prepared'[i].dir # c /\ \E j \in 1..Len(prepared) : prepared'[i] = prepared[j]
<1>1. /\ prepared \in Seq(PreparedLoads) /\ MaxRuntimes \in Nat \ {0}
      /\ Prepared(c) \in SUBSET (1..Len(prepared)) /\ \A i, j \in Prepared(c) : i = j
  BY PreparedPlaces, HookReloadAssumption DEF HookReloadAssumption
<1>2. Follows(PreparedLoads, prepared, Prepared(c), x, MaxRuntimes, prepared')
  BY <1>1, Setting
<1>3. /\ prepared' \in Seq(PreparedLoads) /\ Len(prepared') \in 1..MaxRuntimes
      /\ prepared'[Len(prepared')] = x
  BY <1>2 DEF Follows
<1>4. PICK was \in [1..(Len(prepared') - 1) -> (1..Len(prepared)) \ Prepared(c)] :
         /\ \A i \in 1..(Len(prepared') - 1) : prepared'[i] = prepared[was[i]]
         /\ \A i, j \in 1..(Len(prepared') - 1) : was[i] = was[j] => i = j
  BY <1>2 DEF Follows
<1>5. ASSUME NEW i \in 1..Len(prepared')
      PROVE  \/ i = Len(prepared') /\ prepared'[i] = x
             \/ /\ i \in 1..(Len(prepared') - 1) /\ was[i] \in 1..Len(prepared)
                /\ prepared'[i] = prepared[was[i]] /\ prepared'[i].dir # c
  <2>1. CASE i = Len(prepared')
    BY <1>3, <2>1
  <2>2. CASE i # Len(prepared')
    <3>1. i \in 1..(Len(prepared') - 1)
      BY <1>3, <2>2
    <3>2. was[i] \in (1..Len(prepared)) \ Prepared(c) /\ prepared'[i] = prepared[was[i]]
      BY <1>4, <3>1
    <3> QED  BY <3>1, <3>2 DEF Prepared
  <2> QED  BY <2>1, <2>2
<1>6. ASSUME NEW i \in 1..Len(prepared'), NEW j \in 1..Len(prepared'),
             prepared'[i].dir = prepared'[j].dir
      PROVE  i = j
  <2>1. CASE i = Len(prepared') \/ j = Len(prepared')
    <3>1. prepared'[i].dir = c /\ prepared'[j].dir = c
      BY <1>3, <1>6, <2>1
    <3> QED  BY <1>5, <3>1
  <2>2. CASE i # Len(prepared') /\ j # Len(prepared')
    <3>1. /\ i \in 1..(Len(prepared') - 1) /\ was[i] \in 1..Len(prepared)
          /\ prepared'[i] = prepared[was[i]]
          /\ j \in 1..(Len(prepared') - 1) /\ was[j] \in 1..Len(prepared)
          /\ prepared'[j] = prepared[was[j]]
      BY <1>5, <2>2
    <3>2. was[i] = was[j]
      BY <1>6, <3>1 DEF LoadingInv, PreparedInv
    <3> QED  BY <1>4, <3>1, <3>2
  <2> QED  BY <2>1, <2>2
<1>7. Len(prepared') <= MaxRuntimes
  BY <1>1, <1>3
<1> QED  BY <1>3, <1>5, <1>6, <1>7

\* What holds of the prepared loads of other directories after a load was signed.
LEMMA OthersPrepared ==
  ASSUME LoadingInv, load # None, load.phase = "sign", NEW j \in 1..Len(prepared),
         prepared[j].dir # load.dir
  PROVE  /\ Kept(prepared[j].result, prepared[j].sig) /\ prepared[j].dir \in Dirs
         /\ runtime[prepared[j].dir] = None
         /\ ~trustSeen[prepared[j].dir] => "project" \notin prepared[j].result.watch
         /\ ~late => Current(prepared[j].result, prepared[j].sig)
<1>1. prepared[j].dir \in Dirs /\ ~InLoad(prepared[j].dir)
  BY PreparedDirs DEF InLoad
<1> QED  BY <1>1 DEF LoadingInv, PreparedInv, FreshInv, PendingFresh

\* An event of the directory that was loading, or none.
LEMMA Following ==
  ASSUME LoadingInv, load # None, load.phase = "sign",
         Remember(load.dir) \/ UNCHANGED <<contexts, runtime>>
  PROVE  /\ ContextInv' /\ (Remember(load.dir) => \E i \in 1..Len(contexts') : contexts'[i] = load.dir)
         /\ runtime' \in [Dirs -> Runtimes \cup {None}] /\ runtime'[load.dir] = runtime[load.dir]
         /\ \A d \in Dirs : runtime'[d] # None =>
               runtime'[d] = runtime[d] /\ \E i \in 1..Len(contexts') : contexts'[i] = d
<1>1. load.dir \in Dirs
  BY DEF LoadingInv, LoadInv, Loads
<1>2. CASE Remember(load.dir)
  BY <1>1, <1>2, Remembering
<1>3. CASE ~Remember(load.dir)
  <2>1. ContextInv'
    BY <1>3 DEF LoadingInv, ContextInv
  <2>2. /\ runtime \in [Dirs -> Runtimes \cup {None}]
        /\ \A d \in Dirs : runtime[d] # None => \E i \in 1..Len(contexts) : contexts[i] = d
    BY DEF LoadingInv, RuntimeInv
  <2>3. contexts' = contexts /\ runtime' = runtime
    BY <1>3
  <2>4. \A d \in Dirs : runtime'[d] # None =>
           runtime'[d] = runtime[d] /\ \E i \in 1..Len(contexts') : contexts'[i] = d
    BY <2>2, <2>3
  <2> QED  BY <1>3, <2>1, <2>2, <2>3, <2>4
<1> QED  BY <1>2, <1>3

\* The parts of Sign in the words of the lemmas.
LEMMA SignParts ==
  ASSUME Sign
  PROVE  /\ load # None /\ load.phase = "sign"
         /\ cache' = Latest(cache, {i \in 1..Len(cache) : cache[i].key = Key(load.read)},
                         [key |-> Key(load.read), sig |-> Signature, result |-> Chosen], CacheMax)
         /\ UNCHANGED <<fileVars, trustVars, trustSeen, good, late>>
         /\ \/ /\ load.why # "prompt"
               /\ load' = [load EXCEPT !.why = load.why, !.result = Chosen, !.sig = Signature,
                                        !.read = None, !.phase = "prime"]
               /\ UNCHANGED <<contexts, runtime, prepared>>
            \/ /\ load.why = "prompt" /\ runtime[load.dir] = None
               /\ load' = [load EXCEPT !.why = "create", !.result = Chosen, !.sig = Signature,
                                        !.read = None, !.phase = "prime"]
               /\ Remember(load.dir)
               /\ prepared' = Without(prepared, Prepared(load.dir))
            \/ /\ load.why = "prompt" /\ runtime[load.dir] = None
               /\ load' = None /\ Remember(load.dir)
               /\ prepared' = Latest(prepared, Prepared(load.dir),
                                     [dir |-> load.dir, result |-> Chosen, sig |-> Signature],
                                     MaxRuntimes)
            \/ /\ load.why = "prompt" /\ runtime[load.dir] # None
               /\ load' = None /\ Remember(load.dir) /\ UNCHANGED prepared
BY DEF Sign, Signature, Hits, Chosen

LEMMA Signing ==
  ASSUME LoadingInv, Sign
  PROVE  LoadingInv'
<1>0. load \in Loads /\ load.dir \in Dirs
  BY SignParts DEF LoadingInv, LoadInv, Loads
<1> PICK c \in Dirs : c = load.dir
  BY <1>0
<1> DEFINE new == [dir |-> c, result |-> Chosen, sig |-> Signature]
<1>1. /\ load # None /\ load.phase = "sign"
      /\ cache' = Latest(cache, {i \in 1..Len(cache) : cache[i].key = Key(load.read)},
                         [key |-> Key(load.read), sig |-> Signature, result |-> Chosen], CacheMax)
      /\ UNCHANGED <<fileVars, trustVars, trustSeen, good, late>>
      /\ \/ /\ load.why # "prompt"
            /\ load' = [load EXCEPT !.why = load.why, !.result = Chosen, !.sig = Signature,
                                     !.read = None, !.phase = "prime"]
            /\ UNCHANGED <<contexts, runtime, prepared>>
         \/ /\ load.why = "prompt" /\ runtime[c] = None
            /\ load' = [load EXCEPT !.why = "create", !.result = Chosen, !.sig = Signature,
                                     !.read = None, !.phase = "prime"]
            /\ Remember(c)
            /\ prepared' = Without(prepared, Prepared(c))
         \/ /\ load.why = "prompt" /\ runtime[c] = None
            /\ load' = None /\ Remember(c)
            /\ prepared' = Latest(prepared, Prepared(c), new, MaxRuntimes)
         \/ /\ load.why = "prompt" /\ runtime[c] # None
            /\ load' = None /\ Remember(c) /\ UNCHANGED prepared
  BY SignParts
<1>2. /\ Kept(Chosen, Signature) /\ Chosen.watch = load.result.watch
      /\ ~late => Current(Chosen, Signature)
  BY <1>1, Choosing
<1>3. load \in Loads /\ c = load.dir
  BY <1>0
<1>4. /\ ContextInv' /\ (load.why = "prompt" => \E i \in 1..Len(contexts') : contexts'[i] = c)
      /\ runtime' \in [Dirs -> Runtimes \cup {None}] /\ runtime'[c] = runtime[c]
      /\ \A d \in Dirs : runtime'[d] # None =>
            runtime'[d] = runtime[d] /\ \E i \in 1..Len(contexts') : contexts'[i] = d
  BY <1>1, Following
<1>5. DiskShape' /\ CacheInv' /\ (~late' => KeptFresh')
  <2>1. /\ CacheInv'
        /\ ~late => \A i \in 1..Len(cache') : \E d \in Disks : SnapshotOf(cache'[i], d)
    BY <1>1, Caching
  <2>2. ~late => \A d \in Dirs : runtime[d] # None => \E e \in Disks : RuntimeOf(runtime[d], e)
    BY DEF LoadingInv, FreshInv, KeptFresh
  <2>3. DiskShape'
    BY <1>1 DEF LoadingInv, DiskShape, fileVars
  <2>4. ASSUME ~late, NEW d \in Dirs, runtime'[d] # None
        PROVE  \E e \in Disks : RuntimeOf(runtime'[d], e)
    BY <1>4, <2>2, <2>4
  <2>5. ~late' => KeptFresh'
    BY <1>1, <2>1, <2>4 DEF KeptFresh, SnapshotOf, RuntimeOf
  <2> QED  BY <2>1, <2>3, <2>5
<1>6. ASSUME NEW why \in {"refresh", "create"},
             load' = [load EXCEPT !.why = why, !.result = Chosen, !.sig = Signature,
                                  !.read = None, !.phase = "prime"]
      PROVE  /\ load' \in Loads /\ load' # None /\ load'.dir = c /\ load'.why = why
             /\ load'.phase = "prime" /\ load'.result = Chosen /\ load'.sig = Signature
  <2>1. load' \in Loads
    BY <1>2, <1>3, <1>6 DEF Loads, Kept
  <2>2. /\ load'.dir = c /\ load'.why = why
        /\ load'.phase = "prime" /\ load'.result = Chosen /\ load'.sig = Signature
    BY <1>3, <1>6 DEF Loads
  <2> QED  BY <2>1, <2>2, NoneIsNoLoad
<1>7. load.phase # "read" /\ ~trustSeen[c] /\ ~(load.why = "prompt" /\ runtime[c] # None) =>
         "project" \notin Chosen.watch
  BY <1>1, <1>2 DEF LoadingInv, LoadInv
<1>8. \A d \in Dirs : runtime[d] # None =>
         /\ Sound(runtime[d])
         /\ \E set \in good[d] : runtime[d].hooks \subseteq set
         /\ ~trustSeen[d] /\ ~(d = c /\ load.why = "refresh") => "project" \notin DOMAIN runtime[d].sig
  BY DEF LoadingInv, RuntimeInv, InLoad
<1>9. load.why = "refresh" => runtime[c] # None /\ InLoad(c)' /\ load'.why = "refresh"
  <2> SUFFICES ASSUME load.why = "refresh"
               PROVE  runtime[c] # None /\ InLoad(c)' /\ load'.why = "refresh"
    OBVIOUS
  <2>1. load' # None /\ load'.dir = c /\ load'.why = "refresh" /\ load'.phase = "prime"
    BY <1>1, <1>6
  <2> QED  BY <1>1, <2>1 DEF InLoad, LoadingInv, LoadInv
<1>10. RuntimeInv'
  <2>1. ASSUME NEW d \in Dirs, runtime'[d] # None
        PROVE  /\ Sound(runtime'[d])
               /\ \E i \in 1..Len(contexts') : contexts'[i] = d
               /\ \E set \in good'[d] : runtime'[d].hooks \subseteq set
               /\ ~trustSeen'[d] /\ ~(InLoad(d)' /\ load'.why = "refresh") =>
                     "project" \notin DOMAIN runtime'[d].sig
    <3>1. runtime[d] # None /\ runtime'[d] = runtime[d]
      BY <1>4, <2>1
    <3> QED  BY <1>1, <1>4, <1>8, <1>9, <2>1, <3>1
  <2>2. good' \in [Dirs -> SUBSET HookSets] /\ trustSeen' \in [Dirs -> BOOLEAN]
    BY <1>1 DEF LoadingInv, RuntimeInv
  <2> QED  BY <1>4, <2>1, <2>2 DEF RuntimeInv, Sound
\* The load is to be used by a refresh or by a new runtime.
<1>11. CASE load.why # "prompt"
  <2>1. /\ load' = [load EXCEPT !.why = load.why, !.result = Chosen, !.sig = Signature,
                                 !.read = None, !.phase = "prime"]
        /\ load.why \in {"refresh", "create"} /\ UNCHANGED <<contexts, runtime, prepared>>
    BY <1>1, <1>3, <1>11 DEF Loads
  <2>2. /\ load' \in Loads /\ load' # None /\ load'.dir = c /\ load'.why = load.why
        /\ load'.phase = "prime" /\ load'.result = Chosen /\ load'.sig = Signature
    BY <1>6, <2>1
  <2>3. LoadInv'
    BY <1>1, <1>2, <1>3, <1>7, <1>11, <2>1, <2>2 DEF LoadingInv, LoadInv, Kept
  <2>4. PreparedInv'
    <3>1. \A d \in Dirs : InLoad(d)' <=> InLoad(d)
      BY <1>1, <1>3, <2>2 DEF InLoad
    <3> QED  BY <1>1, <2>1, <3>1, PreparedDirs DEF LoadingInv, PreparedInv
  <2>5. ~late' => PendingFresh'
    BY <1>1, <1>2, <2>1, <2>2 DEF LoadingInv, FreshInv, PendingFresh, Current, Look, fileVars
  <2> QED  BY <1>4, <1>5, <1>10, <2>3, <2>4, <2>5 DEF LoadingInv, FreshInv
<1>12. CASE /\ load.why = "prompt" /\ runtime[c] = None
            /\ load' = [load EXCEPT !.why = "create", !.result = Chosen, !.sig = Signature,
                                     !.read = None, !.phase = "prime"]
            /\ prepared' = Without(prepared, Prepared(c))
  <2>1. /\ load' \in Loads /\ load' # None /\ load'.dir = c /\ load'.why = "create"
        /\ load'.phase = "prime" /\ load'.result = Chosen /\ load'.sig = Signature
    BY <1>6, <1>12
  <2>2. /\ prepared' \in Seq(PreparedLoads) /\ Len(prepared') <= MaxRuntimes
        /\ \A i, j \in 1..Len(prepared') : prepared'[i].dir = prepared'[j].dir => i = j
        /\ \A i \in 1..Len(prepared') :
              prepared'[i].dir # c /\ \E j \in 1..Len(prepared) : prepared'[i] = prepared[j]
    BY <1>12, Forgetting
  <2>3. ASSUME NEW i \in 1..Len(prepared')
        PROVE  /\ Kept(prepared'[i].result, prepared'[i].sig)
               /\ runtime'[prepared'[i].dir] = None
               /\ ~trustSeen'[prepared'[i].dir] => "project" \notin prepared'[i].result.watch
               /\ ~late => Current(prepared'[i].result, prepared'[i].sig)
    <3>1. PICK j \in 1..Len(prepared) : prepared'[i] = prepared[j] /\ prepared[j].dir # load.dir
      BY <1>3, <2>2
    <3>2. /\ Kept(prepared[j].result, prepared[j].sig) /\ prepared[j].dir \in Dirs
          /\ runtime[prepared[j].dir] = None
          /\ ~trustSeen[prepared[j].dir] => "project" \notin prepared[j].result.watch
          /\ ~late => Current(prepared[j].result, prepared[j].sig)
      BY <1>1, <3>1, OthersPrepared
    <3> QED  BY <1>1, <1>4, <3>1, <3>2
  <2>4. PreparedInv'
    BY <2>2, <2>3 DEF PreparedInv, Kept
  <2>5. LoadInv'
    BY <1>1, <1>2, <1>4, <1>7, <1>12, <2>1, <2>2 DEF LoadInv, Kept
  <2>6. ~late' => PendingFresh'
    BY <1>1, <1>2, <2>1, <2>3 DEF PendingFresh, Current, Look, fileVars
  <2> QED  BY <1>4, <1>5, <1>10, <2>4, <2>5, <2>6 DEF LoadingInv, FreshInv
\* The load is left prepared, for a prompt without a session.
<1>13. CASE /\ load.why = "prompt" /\ runtime[c] = None /\ load' = None
            /\ prepared' = Latest(prepared, Prepared(c), new, MaxRuntimes)
  <2>1. new \in PreparedLoads /\ new.dir = c /\ new.result = Chosen /\ new.sig = Signature
    BY <1>2 DEF PreparedLoads, Kept
  <2> HIDE DEF new
  <2>2. /\ prepared' \in Seq(PreparedLoads) /\ Len(prepared') <= MaxRuntimes
        /\ \A i, j \in 1..Len(prepared') : prepared'[i].dir = prepared'[j].dir => i = j
        /\ \A i \in 1..Len(prepared') :
              \/ prepared'[i] = new
              \/ prepared'[i].dir # c /\ \E j \in 1..Len(prepared) : prepared'[i] = prepared[j]
    BY <1>13, <2>1, Preparing
  <2>3. ASSUME NEW i \in 1..Len(prepared')
        PROVE  /\ Kept(prepared'[i].result, prepared'[i].sig)
               /\ runtime'[prepared'[i].dir] = None
               /\ ~trustSeen'[prepared'[i].dir] => "project" \notin prepared'[i].result.watch
               /\ ~late => Current(prepared'[i].result, prepared'[i].sig)
    <3>1. CASE prepared'[i] = new
      BY <1>1, <1>2, <1>4, <1>7, <1>13, <2>1, <3>1
    <3>2. ASSUME prepared'[i].dir # c, NEW j \in 1..Len(prepared), prepared'[i] = prepared[j]
          PROVE  /\ Kept(prepared'[i].result, prepared'[i].sig)
                 /\ runtime'[prepared'[i].dir] = None
                 /\ ~trustSeen'[prepared'[i].dir] => "project" \notin prepared'[i].result.watch
                 /\ ~late => Current(prepared'[i].result, prepared'[i].sig)
      <4>1. /\ Kept(prepared[j].result, prepared[j].sig) /\ prepared[j].dir \in Dirs
            /\ runtime[prepared[j].dir] = None
            /\ ~trustSeen[prepared[j].dir] => "project" \notin prepared[j].result.watch
            /\ ~late => Current(prepared[j].result, prepared[j].sig)
        BY <1>1, <1>3, <3>2, OthersPrepared
      <4> QED  BY <1>1, <1>4, <3>2, <4>1
    <3> QED  BY <2>2, <3>1, <3>2
  <2>4. PreparedInv'
    BY <2>2, <2>3 DEF PreparedInv, Kept
  <2>5. LoadInv' /\ (~late' => PendingFresh')
    BY <1>1, <1>13, <2>3 DEF LoadInv, PendingFresh, Current, Look, fileVars
  <2> QED  BY <1>4, <1>5, <1>10, <2>4, <2>5 DEF LoadingInv, FreshInv
\* The runtime keeps what it has.
<1>14. CASE load.why = "prompt" /\ runtime[c] # None /\ load' = None /\ UNCHANGED prepared
  <2>1. \A i \in 1..Len(prepared) : prepared[i].dir # load.dir
    BY <1>3, <1>14 DEF LoadingInv, PreparedInv
  <2>2. ASSUME NEW i \in 1..Len(prepared)
        PROVE  /\ Kept(prepared[i].result, prepared[i].sig)
               /\ runtime'[prepared[i].dir] = None
               /\ ~trustSeen'[prepared[i].dir] => "project" \notin prepared[i].result.watch
               /\ ~late => Current(prepared[i].result, prepared[i].sig)
    <3>1. /\ Kept(prepared[i].result, prepared[i].sig) /\ prepared[i].dir \in Dirs
          /\ runtime[prepared[i].dir] = None
          /\ ~trustSeen[prepared[i].dir] => "project" \notin prepared[i].result.watch
          /\ ~late => Current(prepared[i].result, prepared[i].sig)
      BY <1>1, <2>1, OthersPrepared
    <3> QED  BY <1>1, <1>4, <3>1
  <2>3. PreparedInv'
    BY <1>14, <2>2 DEF LoadingInv, PreparedInv, Kept
  <2>4. LoadInv' /\ (~late' => PendingFresh')
    BY <1>1, <1>14, <2>2 DEF LoadInv, PendingFresh, Current, Look, fileVars
  <2> QED  BY <1>4, <1>5, <1>10, <2>3, <2>4 DEF LoadingInv, FreshInv
<1> QED  BY <1>1, <1>11, <1>12, <1>13, <1>14

------------------------------------------------------------------------------
(* The result is adopted. *)

\* The hooks of the runtime afterwards.
Adopted(old) ==
    IF load.why = "create" THEN load.result.hooks
    ELSE IF load.sig = old.sig THEN old.hooks
    ELSE IF load.result.errors THEN Retain(old.hooks, load.result)
    ELSE load.result.hooks

\* Hooks of the project need its fingerprint, also when some are retained.
LEMMA AdoptedSoundly ==
  ASSUME NEW old, Kept(load.result, load.sig), load.why # "create" => Sound(old)
  PROVE  /\ Adopted(old) \in HookSets
         /\ "project" \notin DOMAIN load.sig => \A x \in Adopted(old) : x[1] = "global"
<1>1. load.result.hooks \in HookSets /\ DOMAIN load.sig = load.result.watch
      /\ ("project" \notin load.result.watch =>
             load.result.files \subseteq {"global"} /\ \A x \in load.result.hooks : x[1] = "global")
  BY DEF Kept, Loaded, GlobalOnly
<1>2. CASE load.why = "create"
  BY <1>1, <1>2 DEF Adopted
<1>3. CASE load.why # "create"
  <2>1. old.hooks \in HookSets /\ ("project" \notin DOMAIN old.sig => \A x \in old.hooks : x[1] = "global")
    BY <1>3 DEF Sound, Runtimes
  <2>2. Retain(old.hooks, load.result) \in HookSets
        /\ \A x \in Retain(old.hooks, load.result) : x[1] \in load.result.files
    BY <2>1 DEF Retain, HookSets
  <2> QED  BY <1>1, <1>3, <2>1, <2>2 DEF Adopted
<1> QED  BY <1>2, <1>3

\* And when no write raced, those of the disk, unless it has errors.
LEMMA AdoptedFreshly ==
  ASSUME LoadingInv, ~late, NEW old, Current(load.result, load.sig),
         load.why # "create" => \E d \in Disks : RuntimeOf(old, d),
         NEW new, new = [hooks |-> Adopted(old), sig |-> load.sig, watch |-> Watch(load.result),
                         stats |-> Look(Watch(load.result))]
  PROVE  RuntimeOf(new, disk)
<1>1. disk \in Disks /\ load.result = Result(disk)
      /\ load.sig = [f \in Result(disk).watch |-> disk[f]]
  BY DEF LoadingInv, DiskShape, Current, Look
<1>2. ~Result(disk).errors => Adopted(old) = Result(disk).hooks
  <2>1. CASE load.why # "create" /\ load.sig = old.sig
    <3>1. PICK d \in Disks : RuntimeOf(old, d)
      BY <2>1
    <3>2. [f \in Result(d).watch |-> d[f]] = [f \in Result(disk).watch |-> disk[f]]
      BY <1>1, <2>1, <3>1 DEF RuntimeOf
    <3>3. Result(d) = Result(disk)
      BY <1>1, <3>2, SameSignature
    <3> QED  BY <2>1, <3>1, <3>3 DEF RuntimeOf, Adopted
  <2>2. CASE ~(load.why # "create" /\ load.sig = old.sig)
    BY <1>1, <2>2 DEF Adopted
  <2> QED  BY <2>1, <2>2
<1> QED  BY <1>1, <1>2 DEF RuntimeOf, Look

LEMMA Priming ==
  ASSUME LoadingInv, Prime
  PROVE  LoadingInv'
<1>0. load # None /\ load \in Loads /\ load.dir \in Dirs
  BY DEF Prime, LoadingInv, LoadInv, Loads
<1> PICK c \in Dirs : c = load.dir
  BY <1>0
<1> DEFINE new == [hooks |-> Adopted(runtime[c]), sig |-> load.sig, watch |-> Watch(load.result),
                   stats |-> Look(Watch(load.result))]
<1>1. /\ load.phase = "prime" /\ load' = None
      /\ runtime' = [runtime EXCEPT ![c] = new]
      /\ good' = [good EXCEPT ![c] = IF load.why = "create" THEN {load.result.hooks}
                                     ELSE IF load.result.errors THEN good[c]
                                     ELSE good[c] \cup {load.result.hooks}]
      /\ UNCHANGED <<fileVars, cache, contexts, prepared, trustSeen, late>>
  BY DEF Prime, Adopted
<1>2. /\ load.why \in {"create", "refresh"} /\ Kept(load.result, load.sig)
      /\ load.why = "refresh" => runtime[c] # None
      /\ ~trustSeen[c] => "project" \notin load.result.watch
      /\ load.why = "create" => \A i \in 1..Len(prepared) : prepared[i].dir # c
  BY <1>0, <1>1 DEF LoadingInv, LoadInv, Loads
<1>3. load.why = "refresh" => /\ Sound(runtime[c])
                              /\ \E set \in good[c] : runtime[c].hooks \subseteq set
  BY <1>2 DEF LoadingInv, RuntimeInv
<1>4. /\ Adopted(runtime[c]) \in HookSets
      /\ "project" \notin DOMAIN load.sig => \A x \in Adopted(runtime[c]) : x[1] = "global"
  BY <1>2, <1>3, AdoptedSoundly
<1>5. disk \in Disks /\ Watch(load.result) \in SUBSET Files
  BY <1>2 DEF LoadingInv, DiskShape, Kept, Loaded, Watch, Files, HookFiles
<1>6. Look(Watch(load.result)) \in Looks /\ DOMAIN Look(Watch(load.result)) = Watch(load.result)
  BY <1>5, Looking DEF Look
<1>7. new \in Runtimes /\ Sound(new)
  BY <1>2, <1>4, <1>5, <1>6 DEF Runtimes, Sound, Kept
<1>8. "project" \notin load.result.watch => "project" \notin DOMAIN new.sig
  BY <1>2 DEF Kept
<1>9. \E set \in good'[c] : new.hooks \subseteq set
  <2> DEFINE after == IF load.why = "create" THEN {load.result.hooks}
                      ELSE IF load.result.errors THEN good[c]
                      ELSE good[c] \cup {load.result.hooks}
  <2>1. good'[c] = after
    BY <1>1 DEF LoadingInv, RuntimeInv
  <2> HIDE DEF after
  <2>2. \E set \in after : Adopted(runtime[c]) \subseteq set
    <3>1. Retain(runtime[c].hooks, load.result) \subseteq runtime[c].hooks
      BY DEF Retain
    <3>2. CASE load.why = "create"
      BY <3>2 DEF Adopted, after
    <3>3. CASE load.why # "create"
      BY <1>2, <1>3, <3>1, <3>3 DEF Adopted, after
    <3> QED  BY <3>2, <3>3
  <2> QED  BY <2>1, <2>2
<1>10. ~late => RuntimeOf(new, disk)
  <2> SUFFICES ASSUME ~late
               PROVE  RuntimeOf(new, disk)
    OBVIOUS
  <2>1. /\ Current(load.result, load.sig)
        /\ load.why # "create" => \E d \in Disks : RuntimeOf(runtime[c], d)
    BY <1>0, <1>1, <1>2 DEF LoadingInv, FreshInv, KeptFresh, PendingFresh
  <2> QED  BY <2>1, AdoptedFreshly
<1> HIDE DEF new
<1>11. /\ runtime' \in [Dirs -> Runtimes \cup {None}] /\ runtime'[c] = new
       /\ \A d \in Dirs : d # c => runtime'[d] = runtime[d] /\ good'[d] = good[d]
  BY <1>1, <1>7 DEF LoadingInv, RuntimeInv
<1>12. good' \in [Dirs -> SUBSET HookSets]
  BY <1>1, <1>2 DEF LoadingInv, RuntimeInv, Kept, Loaded
<1>13. \E i \in 1..Len(contexts) : contexts[i] = c
  BY <1>0, <1>2 DEF LoadingInv, LoadInv, RuntimeInv
<1>14. RuntimeInv'
  <2>1. ASSUME NEW d \in Dirs, runtime'[d] # None
        PROVE  /\ Sound(runtime'[d])
               /\ \E i \in 1..Len(contexts) : contexts[i] = d
               /\ \E set \in good'[d] : runtime'[d].hooks \subseteq set
               /\ ~trustSeen[d] => "project" \notin DOMAIN runtime'[d].sig
    <3>1. CASE d = c
      BY <1>2, <1>7, <1>8, <1>9, <1>11, <1>13, <3>1
    <3>2. CASE d # c
      <4>1. ~InLoad(d)
        BY <3>2 DEF InLoad
      <4> QED  BY <1>11, <2>1, <3>2, <4>1 DEF LoadingInv, RuntimeInv
    <3> QED  BY <3>1, <3>2
  <2>2. trustSeen \in [Dirs -> BOOLEAN]
    BY DEF LoadingInv, RuntimeInv
  <2> QED  BY <1>1, <1>11, <1>12, <2>1, <2>2 DEF RuntimeInv, Sound
<1>15. PreparedInv'
  <2>1. \A i \in 1..Len(prepared) : prepared[i].dir # c
    <3>1. load.why = "refresh" => runtime[c] # None
      BY <1>2
    <3> QED  BY <1>2, <3>1 DEF LoadingInv, PreparedInv
  <2>2. ASSUME NEW i \in 1..Len(prepared)
        PROVE  /\ Kept(prepared[i].result, prepared[i].sig)
               /\ runtime'[prepared[i].dir] = None
               /\ ~trustSeen[prepared[i].dir] => "project" \notin prepared[i].result.watch
    <3>1. prepared[i].dir \in Dirs /\ prepared[i].dir # c /\ ~InLoad(prepared[i].dir)
      BY <2>1, PreparedDirs DEF InLoad
    <3> QED  BY <1>11, <3>1 DEF LoadingInv, PreparedInv
  <2> QED  BY <1>1, <2>2 DEF LoadingInv, PreparedInv, Kept
<1>16. (DiskShape /\ CacheInv /\ ContextInv /\ LoadInv)'
  BY <1>1 DEF LoadingInv, DiskShape, CacheInv, ContextInv, LoadInv, fileVars
<1>17. FreshInv'
  <2> SUFFICES ASSUME ~late
               PROVE  KeptFresh' /\ PendingFresh'
    BY <1>1 DEF FreshInv
  <2>1. KeptFresh /\ PendingFresh
    BY DEF LoadingInv, FreshInv
  <2>2. KeptFresh'
    <3>1. ASSUME NEW d \in Dirs, runtime'[d] # None
          PROVE  \E e \in Disks : RuntimeOf(runtime'[d], e)
      BY <1>5, <1>10, <1>11, <2>1, <3>1 DEF KeptFresh
    <3> QED  BY <1>1, <2>1, <3>1 DEF KeptFresh, SnapshotOf, RuntimeOf
  <2>3. PendingFresh'
    BY <1>1, <2>1 DEF PendingFresh, Current, Look, fileVars
  <2> QED  BY <2>2, <2>3
<1> QED  BY <1>14, <1>15, <1>16, <1>17 DEF LoadingInv

------------------------------------------------------------------------------

LEMMA StaysOut == LoadingInv => RevokedStaysOut
<1> SUFFICES ASSUME LoadingInv, NEW c \in Dirs, Resting(c), ~trustSeen[c]
             PROVE  \A x \in runtime[c].hooks : x[1] = "global"
  BY DEF RevokedStaysOut
<1>1. runtime[c] # None /\ ~InLoad(c)
  BY DEF Resting, InLoad
<1> QED  BY <1>1 DEF LoadingInv, RuntimeInv, Sound

LEMMA FromOne == LoadingInv => OneLoadOnly
BY DEF LoadingInv, RuntimeInv, OneLoadOnly

LEMMA Fresh == LoadingInv => FreshUnlessRaced
<1> SUFFICES ASSUME LoadingInv, NEW c \in Dirs, Resting(c), ~late,
                    Look(runtime[c].watch) = runtime[c].stats, ~Result(disk).errors
             PROVE  runtime[c].hooks = Result(disk).hooks
  BY DEF FreshUnlessRaced
<1>1. disk \in Disks /\ runtime[c] # None
  BY DEF LoadingInv, DiskShape, Resting
<1>2. PICK d \in Disks : RuntimeOf(runtime[c], d)
  BY <1>1 DEF LoadingInv, FreshInv, KeptFresh
<1>3. [f \in Watch(Result(d)) |-> d[f]] = [f \in Watch(Result(d)) |-> disk[f]]
  BY <1>2 DEF RuntimeOf, Look
<1>4. \A f \in Watch(Result(d)) : d[f] = disk[f]
  BY <1>3, SameLook
<1>5. Result(d) = Result(disk)
  BY <1>1, <1>4, SameStats
<1> QED  BY <1>2, <1>5 DEF RuntimeOf

------------------------------------------------------------------------------

IInv == TrustInv /\ LoadingInv

LEMMA Edited ==
  ASSUME LoadingInv, NEW e \in Edits, Edit(e[1], e[2])
  PROVE  LoadingInv'
<1>1. /\ e[1] \in Files /\ e[2] \in {"absent", "valid", "broken"} /\ Here \in Anchors
  BY HookReloadAssumption DEF HookReloadAssumption, Files, HookFiles
<1>2. PICK trusts \in SUBSET Anchors : Put(e[1], e[2], trusts)
  BY <1>1 DEF Edit
<1>3. UNCHANGED loadVars
  BY DEF Edit
<1> QED  BY <1>1, <1>2, <1>3, Putting

LEMMA Granting ==
  ASSUME IInv, NEW p \in Commands, Lock(p) \/ GiveUp(p) \/ WriteTrust(p) \/ Die(p)
  PROVE  LoadingInv'
<1>1. CASE WriteTrust(p)
  <2>1. cmd[p].read \cup {p} \in SUBSET Anchors
    BY DEF IInv, TrustInv, TrustShape, Commands
  <2>2. "trust" \in Files /\ Put("trust", "valid", cmd[p].read \cup {p}) /\ UNCHANGED loadVars
    BY <1>1 DEF WriteTrust, Files
  <2> QED  BY <2>1, <2>2, Putting DEF IInv
<1>2. CASE Lock(p) \/ GiveUp(p) \/ Die(p)
  BY <1>2, LoadsElsewhere DEF Lock, ReadTrust, GiveUp, Die, IInv
<1> QED  BY <1>1, <1>2

THEOREM Inductive == Spec => []IInv
<1>1. Init => IInv
  <2> SUFFICES ASSUME Init
               PROVE  TrustInv
    BY LoadingStarts DEF IInv
  <2>1. disk["trust"].trusts = {Here} /\ DOMAIN disk = Files
    BY DEF Init, Files
  <2>2. Here \in Anchors
    BY HookReloadAssumption DEF HookReloadAssumption
  <2> QED  BY <2>1, <2>2 DEF Init, TrustInv, TrustShape, GrantsKept, WriterIsAlone
<1>2. IInv /\ [Next]_vars => IInv'
  <2> SUFFICES ASSUME IInv, [Next]_vars
               PROVE  TrustInv' /\ LoadingInv'
    BY DEF IInv
  <2>0. TrustInv /\ LoadingInv
    BY DEF IInv
  <2>1. ASSUME NEW e \in Edits, Edit(e[1], e[2])
        PROVE  TrustInv' /\ LoadingInv'
    BY <2>0, <2>1, HookReloadAssumption, Editing, Edited
  <2>2. CASE Trusting
    <3> PICK p \in Commands : Lock(p) \/ GiveUp(p) \/ WriteTrust(p) \/ Die(p)
      BY <2>2 DEF Trusting
    <3>1. LoadingInv'
      BY Granting
    <3>2. TrustInv'
      BY <2>0, HookReloadAssumption, Locking, Writing, Leaving
    <3> QED  BY <3>1, <3>2
  <2>3. ASSUME NEW c \in Dirs, EventUnchanged(c) \/ EventChanged(c) \/ EventFirst(c) \/ Prompt(c)
        PROVE  TrustInv' /\ LoadingInv'
    <3>1. UNCHANGED <<fileVars, trustVars>>
      BY <2>3 DEF EventUnchanged, EventChanged, EventFirst, Prompt
    <3> QED  BY <2>0, <2>3, <3>1, TrustElsewhere, Unchanging, Changing, FirstEvent, Prompting
  <2>4. CASE Loading
    <3>1. UNCHANGED <<fileVars, trustVars>>
      BY <2>4 DEF Loading, ReadFiles, Sign, Prime
    <3>2. TrustInv'
      BY <2>0, <3>1, TrustElsewhere
    <3>3. LoadingInv'
      BY <2>0, <2>4, Reading, Signing, Priming DEF Loading
    <3> QED  BY <3>2, <3>3
  <2>5. CASE UNCHANGED vars
    BY <2>0, <2>5, TrustElsewhere, LoadsElsewhere DEF vars
  <2> QED  BY <2>1, <2>2, <2>3, <2>4, <2>5 DEF Next
<1> QED  BY <1>1, <1>2, PTL DEF Spec

------------------------------------------------------------------------------

\* The lock of the trust command does its work: an anchor that a command has
\* written or found stays in the list until somebody edits it by hand.
THEOREM NoGrantIsLost == Spec => []GrantsKept
<1>1. IInv => GrantsKept
  BY DEF IInv, TrustInv
<1> QED  BY <1>1, Inductive, PTL

\* A runtime whose last read found the project untrusted has no hooks of the
\* project, whatever it kept, found in the cache or had prepared.
THEOREM RevocationHolds == Spec => []RevokedStaysOut
<1>1. IInv => RevokedStaysOut
  BY StaysOut DEF IInv
<1> QED  BY <1>1, Inductive, PTL

\* A reload with errors retains hooks of the old set and adds none of its own.
THEOREM OneLoad == Spec => []OneLoadOnly
<1>1. IInv => OneLoadOnly
  BY FromOne DEF IInv
<1> QED  BY <1>1, Inductive, PTL

\* The cached result that is preferred to the one just made is no older than it:
\* without a write between two looks of a load, stats that match vouch for the hooks.
THEOREM FreshHooks == Spec => []FreshUnlessRaced
<1>1. IInv => FreshUnlessRaced
  BY Fresh DEF IInv
<1> QED  BY <1>1, Inductive, PTL

LEMMA Alike ==
  ASSUME NEW x \in Looks
  PROVE  IsLook(x)
BY DEF Looks, IsLook

LEMMA OnePrepared ==
  ASSUME PreparedInv, NEW c \in Dirs
  PROVE  Cardinality(Prepared(c)) <= 1
<1>1. \A i, j \in Prepared(c) : i = j
  BY DEF PreparedInv, Prepared
<1>2. CASE Prepared(c) = {}
  BY <1>2, FS_EmptySet
<1>3. CASE Prepared(c) # {}
  <2> PICK i \in Prepared(c) : TRUE
    BY <1>3
  <2>1. Prepared(c) = {i}
    BY <1>1
  <2> QED  BY <2>1, FS_Singleton
<1> QED  BY <1>2, <1>3

LEMMA Typed == IInv => TypeOK
<1> SUFFICES ASSUME IInv
             PROVE  TypeOK
  OBVIOUS
<1>0. /\ DiskShape /\ CacheInv /\ ContextInv /\ PreparedInv /\ RuntimeInv /\ LoadInv
      /\ TrustShape
  BY DEF IInv, TrustInv, LoadingInv
<1>1. disk \in [Files -> Content] /\ writes \in 0..MaxWrites
  BY <1>0 DEF DiskShape, Disks
<1>2. /\ Len(cache) <= CacheMax
      /\ \A i \in 1..Len(cache) : cache[i].result \in Loaded /\ IsLook(cache[i].sig)
      /\ \A i, j \in 1..Len(cache) : cache[i].key = cache[j].key => i = j
  BY <1>0, Alike DEF CacheInv, Kept
<1>3. contexts \in Seq(Dirs) /\ Len(contexts) <= MaxRuntimes
  BY <1>0 DEF ContextInv
<1>4. /\ Len(prepared) <= MaxRuntimes
      /\ \A i \in 1..Len(prepared) : prepared[i].result \in Loaded /\ IsLook(prepared[i].sig)
      /\ \A c \in Dirs : Cardinality(Prepared(c)) <= 1
  BY <1>0, Alike, OnePrepared DEF PreparedInv, Kept
<1>5. ASSUME NEW c \in Dirs, runtime[c] # None
      PROVE  /\ runtime[c].hooks \in HookSets
             /\ IsLook(runtime[c].sig) /\ IsLook(runtime[c].stats)
             /\ DOMAIN runtime[c].stats = runtime[c].watch
             /\ c \in Range(contexts)
  <2>1. Sound(runtime[c]) /\ \E i \in 1..Len(contexts) : contexts[i] = c
    BY <1>0, <1>5 DEF RuntimeInv
  <2>2. c \in Range(contexts)
    BY <1>3, <2>1 DEF Range
  <2> QED  BY <2>1, <2>2, Alike DEF Sound, Runtimes
<1>6. load # None => load.dir \in Dirs /\ load.phase \in {"read", "sign", "prime"}
  BY <1>0 DEF LoadInv, Loads
<1>7. /\ lock \in Commands \cup {None} /\ granted \subseteq Anchors
      /\ cmd \in [Commands -> [phase : {"waiting", "writing", "over"}, read : SUBSET Anchors]]
  BY <1>0 DEF TrustShape
<1> QED  BY <1>1, <1>2, <1>3, <1>4, <1>5, <1>6, <1>7 DEF TypeOK

\* The caches stay within their sizes with one entry per key, and a directory
\* that falls out of the registry leaves no runtime behind.
THEOREM TypeCorrect == Spec => []TypeOK
<1> QED  BY Typed, Inductive, PTL

------------------------------------------------------------------------------

(* The overrides of the hooks that were loaded (Composition).                *)

\* A set of numbers has a least member.
LEMMA LeastNumber ==
  ASSUME NEW T \in SUBSET Nat, T # {}
  PROVE  \E n \in T : \A m \in T : n <= m
<1> DEFINE U == {1..n : n \in T}
<1>1. U \subseteq FiniteSubsetsOf(Nat) /\ U # {}
  <2>1. \A n \in T : 1..n \subseteq Nat /\ IsFiniteSet(1..n)
    BY FS_Interval
  <2> QED  BY <2>1 DEF FiniteSubsetsOf
<1>2. IsWellFoundedOn(StrictSubsetOrdering(Nat), FiniteSubsetsOf(Nat))
  BY FS_StrictSubsetOrderingWellFounded
<1>3. PICK x \in U : \A y \in U : ~ (<<y, x>> \in StrictSubsetOrdering(Nat))
  <2> HIDE DEF U
  <2> QED BY <1>1, <1>2, WFMin
<1>4. PICK n \in T : x = 1..n
  BY <1>3
<1>5. ASSUME NEW m \in T
      PROVE  n <= m
  <2>1. <<1..m, 1..n>> \notin StrictSubsetOrdering(Nat)
    BY <1>3, <1>4
  <2>2. SUFFICES ASSUME m < n
                 PROVE  FALSE
    OBVIOUS
  <2>3. 1..m \subseteq 1..n /\ n \in 1..n /\ n \notin 1..m /\ 1..n \subseteq Nat
    BY <2>2
  <2> QED  BY <2>1, <2>3 DEF StrictSubsetOrdering
<1> QED  BY <1>4, <1>5

\* A set with zero that holds the successor of each member holds every number.
LEMMA Induction ==
  ASSUME NEW S, 0 \in S, \A n \in Nat : n \in S => n + 1 \in S
  PROVE  Nat \subseteq S
<1> SUFFICES ASSUME Nat \ S # {}
             PROVE  FALSE
  OBVIOUS
<1>1. PICK n \in Nat \ S : \A m \in Nat \ S : n <= m
  <2>1. Nat \ S \in SUBSET Nat
    OBVIOUS
  <2> QED  BY <2>1, LeastNumber
<1>2. n - 1 \in Nat /\ n - 1 \in S
  BY <1>1
<1> QED  BY <1>1, <1>2

\* A set of numbers with a bound has a largest member.
LEMMA LargestOf ==
  ASSUME NEW n \in Nat, NEW S \in SUBSET (1 .. n), S # {}
  PROVE  Max(S) \in S /\ \A i \in S : i <= Max(S)
<1> DEFINE T == {n - i : i \in S}
<1>1. PICK t \in T : \A u \in T : t <= u
  <2>1. \A i \in S : i \in 1 .. n /\ n - i \in Nat
    OBVIOUS
  <2>2. T \in SUBSET Nat /\ T # {}
    BY <2>1
  <2> HIDE DEF T
  <2> QED  BY <2>2, LeastNumber
<1>2. PICK x \in S : t = n - x
  BY <1>1
<1>3. \A i \in S : x >= i
  <2> SUFFICES ASSUME NEW i \in S
               PROVE  x >= i
    OBVIOUS
  <2>1. n - x <= n - i
    BY <1>1, <1>2
  <2> QED  BY <2>1
<1>4. \E y \in S : \A i \in S : y >= i
  BY <1>3
<1>5. Max(S) \in S /\ \A i \in S : Max(S) >= i
  <2> DEFINE y == CHOOSE z \in S : \A i \in S : z >= i
  <2>1. y \in S /\ \A i \in S : y >= i
    BY <1>4
  <2> QED  BY <2>1 DEF Max
<1> QED  BY <1>5

\* The numbers up to k without the last of them.
LEMMA WithoutLast ==
  ASSUME NEW k \in Nat, NEW s \in SUBSET (1 .. k), s # {}
  PROVE  Max(s) \in 1 .. k /\ s \ {Max(s)} \in SUBSET (1 .. k - 1)
<1>1. Max(s) \in s /\ \A i \in s : i <= Max(s)
  BY LargestOf
<1> DEFINE x == Max(s)
<1>2. x \in 1 .. k /\ \A i \in s : i \in 1 .. k /\ i <= x
  BY <1>1
<1> HIDE DEF x
<1>3. \A i \in s \ {x} : i \in 1 .. k - 1
  BY <1>2
<1>4. x \in 1 .. k /\ s \ {x} \in SUBSET (1 .. k - 1)
  BY <1>2, <1>3
<1> QED  BY <1>4 DEF x

\* The turns of the loop over the overrides are the values of the fold, one by one.
LEMMA OverrideTurns ==
  ASSUME NEW hooks, NEW seq, NEW n \in Nat, DOMAIN seq = 1 .. n
  PROVE  \E g : /\ g[0] = [hooks |-> hooks, index |-> IdIndex(hooks),
                            errors |-> DuplicateErrors(hooks)]
                /\ g[n] = Overridden(hooks, seq)
                /\ \A k \in 1 .. n : g[k] = ApplyOverride(g[k - 1], seq[k])
<1> DEFINE base == [hooks |-> hooks, index |-> IdIndex(hooks), errors |-> DuplicateErrors(hooks)]
           Body(f, s) == IF s = {} THEN base ELSE ApplyOverride(f[s \ {Max(s)}], seq[Max(s)])
           Folds(f, k) == f = [s \in SUBSET (1 .. k) |-> Body(f, s)]
           N == {k \in Nat : \E f : Folds(f, k)}
<1>1. \A k \in Nat : \A s \in SUBSET (1 .. k) : s # {} =>
         Max(s) \in 1 .. k /\ s \ {Max(s)} \in SUBSET (1 .. k - 1)
  BY WithoutLast
<1>2. 0 \in N
  <2> DEFINE f == [s \in SUBSET (1 .. 0) |-> base]
  <2>1. \A s \in SUBSET (1 .. 0) : s = {}
    <3>1. 1 .. 0 = {}
      OBVIOUS
    <3> QED  BY <3>1
  <2>2. ASSUME NEW s \in SUBSET (1 .. 0)
        PROVE  base = Body(f, s)
    <3>1. s = {}
      BY <2>1
    <3> QED  BY <3>1
  <2>3. Folds(f, 0)
    <3> HIDE DEF Body
    <3> QED  BY <2>2
  <2> HIDE DEF Folds, f
  <2> QED  BY <2>3
<1>3. ASSUME NEW k \in Nat, k \in N
      PROVE  k + 1 \in N
  <2>1. PICK f : Folds(f, k)
    BY <1>3
  <2> DEFINE h == [s \in SUBSET (1 .. k + 1) |-> Body(f, s)]
  <2>2. SUBSET (1 .. k) \subseteq SUBSET (1 .. k + 1)
    <3>1. 1 .. k \subseteq 1 .. k + 1
      OBVIOUS
    <3> QED  BY <3>1
  <2>3. \A s \in SUBSET (1 .. k) : h[s] = f[s]
    BY <2>1, <2>2
  <2>4. \A s \in SUBSET (1 .. k + 1) : Body(f, s) = Body(h, s)
    <3> SUFFICES ASSUME NEW s \in SUBSET (1 .. k + 1), s # {}
                 PROVE  f[s \ {Max(s)}] = h[s \ {Max(s)}]
      OBVIOUS
    <3> HIDE DEF h
    <3>1. k + 1 \in Nat /\ (k + 1) - 1 = k
      OBVIOUS
    <3>2. s \ {Max(s)} \in SUBSET (1 .. k)
      BY <1>1, <3>1
    <3> QED  BY <2>3, <3>2
  <2>5. Folds(h, k + 1)
    <3> HIDE DEF Body
    <3> QED  BY <2>4
  <2> HIDE DEF Folds, h
  <2> QED  BY <2>5
<1>4. Nat \subseteq N
  <2> HIDE DEF N
  <2> QED  BY <1>2, <1>3, Induction
<1> DEFINE iter == CHOOSE f : Folds(f, n)
<1>5. Folds(iter, n)
  <2>1. \E f : Folds(f, n)
    <3> HIDE DEF Folds
    <3> QED  BY <1>4
  <2> HIDE DEF Folds
  <2> QED  BY <2>1
<1>6. Overridden(hooks, seq) = iter[1 .. n]
  BY DEF Overridden, FoldLeft, MapThenFoldSet
<1> HIDE DEF iter, base
<1>7. \A s \in SUBSET (1 .. n) : iter[s] = Body(iter, s)
  BY <1>5
<1> DEFINE g == [k \in 0 .. n |-> iter[1 .. k]]
<1>8. g[0] = base
  <2>1. 1 .. 0 = {} /\ {} \in SUBSET (1 .. n)
    OBVIOUS
  <2>2. iter[{}] = base
    BY <1>7, <2>1
  <2> QED  BY <2>1, <2>2
<1>9. ASSUME NEW k \in 1 .. n
      PROVE  g[k] = ApplyOverride(g[k - 1], seq[k])
  <2> DEFINE s == 1 .. k
  <2>1. s \in SUBSET (1 .. n) /\ s # {} /\ k \in Nat /\ k - 1 \in 0 .. n /\ k \in 0 .. n
    <3> HIDE DEF g
    <3>1. n \in Nat
      OBVIOUS
    <3>2. k \in Nat /\ k - 1 \in 0 .. n /\ k \in 0 .. n
      BY <3>1
    <3>3. \A i \in s : i \in 1 .. n
      BY <3>1
    <3>4. k \in s
      BY <3>2
    <3> HIDE DEF s
    <3>5. s \in SUBSET (1 .. n)
      BY <3>3
    <3> QED  BY <3>2, <3>4, <3>5
  <2>2. Max(s) = k
    <3>1. s \in SUBSET (1 .. k) /\ k \in s
      OBVIOUS
    <3>2. Max(s) \in s /\ \A i \in s : i <= Max(s)
      BY <2>1, <3>1, LargestOf
    <3> QED  BY <3>1, <3>2
  <2>3. s \ {k} = 1 .. k - 1
    <3>1. \A i : i \in (1 .. k) \ {k} <=> i \in 1 .. k - 1
      BY <2>1
    <3> QED  BY <3>1
  <2>4. iter[s] = ApplyOverride(iter[s \ {Max(s)}], seq[Max(s)])
    <3> HIDE DEF s
    <3> QED  BY <1>7, <2>1
  <2>5. iter[1 .. k] = ApplyOverride(iter[1 .. k - 1], seq[k])
    BY <2>2, <2>3, <2>4
  <2> QED  BY <2>1, <2>5
<1>10. g[n] = iter[1 .. n]
  OBVIOUS
<1> HIDE DEF g
<1> QED  BY <1>6, <1>8, <1>9, <1>10 DEF base

\* The list, the index and the errors of the loop over the overrides.
ResolvingInv(r, H) ==
    /\ r = [hooks |-> r.hooks, index |-> r.index, errors |-> r.errors]
    /\ r.hooks \in Seq(H)
    /\ r.index = [id \in DOMAIN r.index |-> r.index[id]]
    /\ IndexIsTrue(r)

\* The last hook that bears an id is in the list and bears it.
LEMMA FirstIndexIsTrue ==
  ASSUME NEW H, NEW hooks \in Seq(H), NEW errors
  PROVE  LET r == [hooks |-> hooks, index |-> IdIndex(hooks), errors |-> errors]
         IN  ResolvingInv(r, H)
<1> DEFINE n == Len(hooks)
           ids == {hooks[i].id : i \in DOMAIN hooks} \ {NoId}
           bearers(id) == {i \in DOMAIN hooks : hooks[i].id = id}
           r == [hooks |-> hooks, index |-> IdIndex(hooks), errors |-> errors]
<1>1. r.hooks = hooks /\ r.index = [id \in ids |-> Max(bearers(id))]
  BY DEF IdIndex
<1>2. n \in Nat /\ DOMAIN hooks = 1 .. n
  OBVIOUS
<1>3. ASSUME NEW id \in ids
      PROVE  Max(bearers(id)) \in bearers(id)
  <2>1. bearers(id) \in SUBSET (1 .. n) /\ bearers(id) # {}
    BY <1>2
  <2> HIDE DEF bearers, n
  <2> QED  BY <1>2, <2>1, LargestOf
<1> HIDE DEF r
<1>4. IndexIsTrue(r)
  <2> SUFFICES ASSUME NEW id \in ids
               PROVE  /\ id # NoId /\ r.index[id] \in DOMAIN r.hooks
                      /\ r.hooks[r.index[id]].id = id
    BY <1>1 DEF IndexIsTrue
  <2> HIDE DEF bearers, ids
  <2>1. r.index[id] \in bearers(id)
    BY <1>1, <1>3
  <2> QED  BY <1>1, <2>1 DEF bearers, ids
<1>5. r.index = [id \in DOMAIN r.index |-> r.index[id]]
  BY <1>1
<1>6. r = [hooks |-> r.hooks, index |-> r.index, errors |-> r.errors]
  BY DEF r
<1>7. ResolvingInv(r, H)
  BY <1>1, <1>4, <1>5, <1>6 DEF ResolvingInv
<1> QED  BY <1>7 DEF r

\* A splice moves the hooks behind it one place to the front.
LEMMA Splice ==
  ASSUME NEW H, NEW hooks \in Seq(H), NEW at \in 1 .. Len(hooks)
  PROVE  /\ RemoveAt(hooks, at) \in Seq(H) /\ Len(RemoveAt(hooks, at)) = Len(hooks) - 1
         /\ \A i \in 1 .. at - 1 : RemoveAt(hooks, at)[i] = hooks[i]
         /\ \A i \in at + 1 .. Len(hooks) : RemoveAt(hooks, at)[i - 1] = hooks[i]
<1> DEFINE n == Len(hooks)
           a == SubSeq(hooks, 1, at - 1)
           b == SubSeq(hooks, at + 1, n)
<1>1. n \in Nat /\ at \in 1 .. n
  OBVIOUS
<1>2. a \in Seq(H) /\ Len(a) = at - 1 /\ \A i \in 1 .. at - 1 : a[i] = hooks[i]
  BY <1>1
<1>3. b \in Seq(H) /\ Len(b) = n - at /\ \A i \in 1 .. n - at : b[i] = hooks[at + i]
  BY <1>1
<1>4. RemoveAt(hooks, at) = a \o b
  BY DEF RemoveAt
<1> HIDE DEF a, b, n
<1>5. /\ a \o b \in Seq(H) /\ Len(a \o b) = n - 1
      /\ \A i \in 1 .. n - 1 : (a \o b)[i] = IF i <= at - 1 THEN a[i] ELSE b[i - (at - 1)]
  <2>1. Len(a) + Len(b) = n - 1
    BY <1>1, <1>2, <1>3
  <2> QED  BY <1>2, <1>3, <2>1, ConcatProperties
<1>6. \A i \in 1 .. at - 1 : (a \o b)[i] = hooks[i]
  <2>1. \A i \in 1 .. at - 1 : i \in 1 .. n - 1 /\ i <= at - 1
    BY <1>1
  <2> QED  BY <1>2, <1>5, <2>1
<1>7. ASSUME NEW i \in at + 1 .. n
      PROVE  (a \o b)[i - 1] = hooks[i]
  <2>1. /\ i - 1 \in 1 .. n - 1 /\ ~(i - 1 <= at - 1) /\ (i - 1) - (at - 1) = i - at
        /\ i - at \in 1 .. n - at /\ at + (i - at) = i
    BY <1>1
  <2> QED  BY <1>3, <1>5, <2>1
<1> QED  BY <1>4, <1>5, <1>6, <1>7 DEF n

\* An override keeps the index true: behind a hook it removes the index moves
\* with the list, and of a hook it replaces only the id it had and the id it has
\* change.
LEMMA OverrideKeepsIndex ==
  ASSUME NEW H, NEW r, ResolvingInv(r, H),
         NEW o, o.disable \in BOOLEAN, ~o.disable => o.replacement \in H
  PROVE  ResolvingInv(ApplyOverride(r, o), H)
<1> DEFINE q == ApplyOverride(r, o)
           at == r.index[o.target]
           I == DOMAIN r.index
           others == I \ {o.target}
           n == Len(r.hooks)
<1>1. /\ r = [hooks |-> r.hooks, index |-> r.index, errors |-> r.errors]
      /\ r.hooks \in Seq(H) /\ r.index = [id \in I |-> r.index[id]]
      /\ n \in Nat /\ DOMAIN r.hooks = 1 .. n
  BY DEF ResolvingInv
<1>2. \A id \in I : id # NoId /\ r.index[id] \in 1 .. n /\ r.hooks[r.index[id]].id = id
  BY <1>1 DEF ResolvingInv, IndexIsTrue
<1>3. CASE o.target \notin I
  <2>1. q = [r EXCEPT !.errors = Append(@, HookError("override_target_not_found", o.target))]
    BY <1>3 DEF ApplyOverride
  <2>2. q.hooks = r.hooks /\ q.index = r.index
        /\ q = [hooks |-> q.hooks, index |-> q.index, errors |-> q.errors]
    BY <1>1, <2>1
  <2> HIDE DEF q
  <2> QED  BY <1>1, <2>2 DEF ResolvingInv, IndexIsTrue, q
<1>4. CASE o.target \in I /\ o.disable
  <2>1. /\ q.hooks = RemoveAt(r.hooks, at)
        /\ q.index = [id \in others |->
                         IF r.index[id] > at THEN r.index[id] - 1 ELSE r.index[id]]
        /\ q = [hooks |-> q.hooks, index |-> q.index, errors |-> q.errors]
    <3>1. q = [r EXCEPT !.hooks = RemoveAt(@, at),
                        !.index = [id \in others |->
                                      IF @[id] > at THEN @[id] - 1 ELSE @[id]]]
      BY <1>4 DEF ApplyOverride
    <3> QED  BY <1>1, <3>1
  <2>2. at \in 1 .. n /\ r.hooks[at].id = o.target
    BY <1>2, <1>4
  <2> HIDE DEF q, at, n, I
  <2>3. /\ q.hooks \in Seq(H) /\ Len(q.hooks) = n - 1
        /\ \A i \in 1 .. at - 1 : q.hooks[i] = r.hooks[i]
        /\ \A i \in at + 1 .. n : q.hooks[i - 1] = r.hooks[i]
    BY <1>1, <2>1, <2>2, Splice DEF n
  <2>4. ASSUME NEW id \in others
        PROVE  /\ id # NoId /\ q.index[id] \in 1 .. n - 1
               /\ q.hooks[q.index[id]].id = id
    <3>1. id # NoId /\ r.index[id] \in 1 .. n /\ r.hooks[r.index[id]].id = id
      BY <1>2
    <3>2. r.index[id] # at
      BY <2>2, <2>4, <3>1
    <3>3. CASE r.index[id] > at
      <4>1. q.index[id] = r.index[id] - 1
        BY <2>1, <3>3
      <4>2. r.index[id] \in at + 1 .. n /\ r.index[id] - 1 \in 1 .. n - 1
        BY <1>1, <2>2, <3>1, <3>3
      <4> QED  BY <2>3, <3>1, <4>1, <4>2
    <3>4. CASE ~(r.index[id] > at)
      <4>1. q.index[id] = r.index[id]
        BY <2>1, <3>4
      <4>2. r.index[id] \in 1 .. at - 1 /\ r.index[id] \in 1 .. n - 1
        BY <1>1, <2>2, <3>1, <3>2, <3>4
      <4> QED  BY <2>3, <3>1, <4>1, <4>2
    <3> QED  BY <3>3, <3>4
  <2>5. DOMAIN q.index = others /\ DOMAIN q.hooks = 1 .. n - 1
    BY <2>1, <2>3
  <2>6. q.index = [id \in DOMAIN q.index |-> q.index[id]]
    BY <2>1
  <2>7. IndexIsTrue(q)
    BY <2>4, <2>5 DEF IndexIsTrue
  <2> QED  BY <2>1, <2>3, <2>6, <2>7 DEF ResolvingInv, q
<1>5. CASE o.target \in I /\ ~o.disable
  <2> DEFINE new == o.replacement.id
             J == others \cup ({new} \ {NoId})
  <2>1. /\ q.hooks = [r.hooks EXCEPT ![at] = o.replacement]
        /\ q.index = [id \in J |-> IF id = new THEN at ELSE r.index[id]]
        /\ q = [hooks |-> q.hooks, index |-> q.index, errors |-> q.errors]
    <3>1. q = [r EXCEPT !.hooks[at] = o.replacement,
                        !.index = [id \in J |-> IF id = new THEN at ELSE @[id]]]
      BY <1>5 DEF ApplyOverride
    <3> QED  BY <1>1, <3>1
  <2>2. at \in 1 .. n /\ r.hooks[at].id = o.target /\ o.replacement \in H
    BY <1>2, <1>5
  <2> HIDE DEF q, at, n, I
  <2>3. /\ q.hooks \in Seq(H) /\ DOMAIN q.hooks = 1 .. n
        /\ q.hooks[at] = o.replacement
        /\ \A i \in 1 .. n : i # at => q.hooks[i] = r.hooks[i]
    BY <1>1, <2>1, <2>2
  <2>4. ASSUME NEW id \in J
        PROVE  /\ id # NoId /\ q.index[id] \in 1 .. n
               /\ q.hooks[q.index[id]].id = id
    <3>1. CASE id = new
      <4>1. id # NoId
        BY <1>2, <2>4, <3>1
      <4> QED  BY <2>1, <2>2, <2>3, <3>1, <4>1
    <3>2. CASE id # new
      <4>1. id \in I /\ id # o.target /\ q.index[id] = r.index[id]
        BY <2>1, <3>2
      <4>2. id # NoId /\ r.index[id] \in 1 .. n /\ r.hooks[r.index[id]].id = id
        BY <1>2, <4>1
      <4>3. r.index[id] # at
        BY <2>2, <4>1, <4>2
      <4> QED  BY <2>3, <4>1, <4>2, <4>3
    <3> QED  BY <3>1, <3>2
  <2>5. DOMAIN q.index = J
    BY <2>1
  <2>6. q.index = [id \in DOMAIN q.index |-> q.index[id]]
    BY <2>1
  <2>7. IndexIsTrue(q)
    BY <2>3, <2>4, <2>5 DEF IndexIsTrue
  <2> QED  BY <2>1, <2>3, <2>6, <2>7 DEF ResolvingInv, q
<1> QED  BY <1>3, <1>4, <1>5

\* However many overrides of whatever ids are applied, in whatever order, the
\* index names for each id it has a hook that bears it, so that an override
\* removes or replaces the hook it means (resolveOverrides).
THEOREM OverridesHitTheirTarget ==
  ASSUME NEW H, NEW hooks \in Seq(H), NEW O, NEW overrides \in Seq(O),
         \A o \in O : o.disable \in BOOLEAN /\ (~o.disable => o.replacement \in H)
  PROVE  IndexIsTrue(Overridden(hooks, overrides))
<1> DEFINE n == Len(overrides)
           base == [hooks |-> hooks, index |-> IdIndex(hooks), errors |-> DuplicateErrors(hooks)]
<1>1. n \in Nat /\ DOMAIN overrides = 1 .. n /\ \A k \in 1 .. n : overrides[k] \in O
  OBVIOUS
<1>2. PICK g : /\ g[0] = base /\ g[n] = Overridden(hooks, overrides)
               /\ \A k \in 1 .. n : g[k] = ApplyOverride(g[k - 1], overrides[k])
  <2>1. n \in Nat /\ DOMAIN overrides = 1 .. n
    BY <1>1
  <2> HIDE DEF n
  <2>2. \E g : /\ g[0] = base /\ g[n] = Overridden(hooks, overrides)
               /\ \A k \in 1 .. n : g[k] = ApplyOverride(g[k - 1], overrides[k])
    BY <2>1, OverrideTurns
  <2> QED  BY <2>2
<1>3. ResolvingInv(base, H)
  BY FirstIndexIsTrue
<1> HIDE DEF base, n
<1> DEFINE S == {k \in Nat : k <= n => ResolvingInv(g[k], H)}
<1>4. 0 \in S
  BY <1>2, <1>3
<1>5. ASSUME NEW k \in Nat, k \in S
      PROVE  k + 1 \in S
  <2> SUFFICES ASSUME k + 1 <= n
               PROVE  ResolvingInv(g[k + 1], H)
    OBVIOUS
  <2>1. k + 1 \in 1 .. n /\ k <= n /\ (k + 1) - 1 = k
    BY <1>1
  <2>2. ResolvingInv(g[k], H) /\ overrides[k + 1] \in O
    BY <1>1, <1>5, <2>1
  <2>3. g[k + 1] = ApplyOverride(g[k], overrides[k + 1])
    BY <1>2, <2>1
  <2> QED  BY <2>2, <2>3, OverrideKeepsIndex
<1>6. Nat \subseteq S
  <2> HIDE DEF S
  <2> QED  BY <1>4, <1>5, Induction
<1>7. ResolvingInv(g[n], H)
  BY <1>1, <1>6
<1>8. Overridden(hooks, overrides) = g[n]
  BY <1>2
<1> QED  BY <1>7, <1>8 DEF ResolvingInv

------------------------------------------------------------------------------

(* The lanes of the hooks that were loaded (Composition).                    *)

\* The turns of the loop over the hooks are the values of the fold, one by one.
LEMMA CheckTurns ==
  ASSUME NEW seq, NEW n \in Nat, DOMAIN seq = 1 .. n
  PROVE  \E g : /\ g[0] = [seen |-> <<>>, errors |-> <<>>]
                /\ g[n] = LanesChecked(seq)
                /\ \A k \in 1 .. n : g[k] = CheckAsync(g[k - 1], seq[k])
<1> DEFINE base == [seen |-> <<>>, errors |-> <<>>]
           Body(f, s) == IF s = {} THEN base ELSE CheckAsync(f[s \ {Max(s)}], seq[Max(s)])
           Folds(f, k) == f = [s \in SUBSET (1 .. k) |-> Body(f, s)]
           N == {k \in Nat : \E f : Folds(f, k)}
<1>1. \A k \in Nat : \A s \in SUBSET (1 .. k) : s # {} =>
         Max(s) \in 1 .. k /\ s \ {Max(s)} \in SUBSET (1 .. k - 1)
  BY WithoutLast
<1>2. 0 \in N
  <2> DEFINE f == [s \in SUBSET (1 .. 0) |-> base]
  <2>1. \A s \in SUBSET (1 .. 0) : s = {}
    <3>1. 1 .. 0 = {}
      OBVIOUS
    <3> QED  BY <3>1
  <2>2. ASSUME NEW s \in SUBSET (1 .. 0)
        PROVE  base = Body(f, s)
    <3>1. s = {}
      BY <2>1
    <3> QED  BY <3>1
  <2>3. Folds(f, 0)
    <3> HIDE DEF Body
    <3> QED  BY <2>2
  <2> HIDE DEF Folds, f
  <2> QED  BY <2>3
<1>3. ASSUME NEW k \in Nat, k \in N
      PROVE  k + 1 \in N
  <2>1. PICK f : Folds(f, k)
    BY <1>3
  <2> DEFINE h == [s \in SUBSET (1 .. k + 1) |-> Body(f, s)]
  <2>2. SUBSET (1 .. k) \subseteq SUBSET (1 .. k + 1)
    <3>1. 1 .. k \subseteq 1 .. k + 1
      OBVIOUS
    <3> QED  BY <3>1
  <2>3. \A s \in SUBSET (1 .. k) : h[s] = f[s]
    BY <2>1, <2>2
  <2>4. \A s \in SUBSET (1 .. k + 1) : Body(f, s) = Body(h, s)
    <3> SUFFICES ASSUME NEW s \in SUBSET (1 .. k + 1), s # {}
                 PROVE  f[s \ {Max(s)}] = h[s \ {Max(s)}]
      OBVIOUS
    <3> HIDE DEF h
    <3>1. k + 1 \in Nat /\ (k + 1) - 1 = k
      OBVIOUS
    <3>2. s \ {Max(s)} \in SUBSET (1 .. k)
      BY <1>1, <3>1
    <3> QED  BY <2>3, <3>2
  <2>5. Folds(h, k + 1)
    <3> HIDE DEF Body
    <3> QED  BY <2>4
  <2> HIDE DEF Folds, h
  <2> QED  BY <2>5
<1>4. Nat \subseteq N
  <2> HIDE DEF N
  <2> QED  BY <1>2, <1>3, Induction
<1> DEFINE iter == CHOOSE f : Folds(f, n)
<1>5. Folds(iter, n)
  <2>1. \E f : Folds(f, n)
    <3> HIDE DEF Folds
    <3> QED  BY <1>4
  <2> HIDE DEF Folds
  <2> QED  BY <2>1
<1>6. LanesChecked(seq) = iter[1 .. n]
  BY DEF LanesChecked, FoldLeft, MapThenFoldSet
<1> HIDE DEF iter, base
<1>7. \A s \in SUBSET (1 .. n) : iter[s] = Body(iter, s)
  BY <1>5
<1> DEFINE g == [k \in 0 .. n |-> iter[1 .. k]]
<1>8. g[0] = base
  <2>1. 1 .. 0 = {} /\ {} \in SUBSET (1 .. n)
    OBVIOUS
  <2>2. iter[{}] = base
    BY <1>7, <2>1
  <2> QED  BY <2>1, <2>2
<1>9. ASSUME NEW k \in 1 .. n
      PROVE  g[k] = CheckAsync(g[k - 1], seq[k])
  <2> DEFINE s == 1 .. k
  <2>1. s \in SUBSET (1 .. n) /\ s # {} /\ k \in Nat /\ k - 1 \in 0 .. n /\ k \in 0 .. n
    <3> HIDE DEF g
    <3>1. n \in Nat
      OBVIOUS
    <3>2. k \in Nat /\ k - 1 \in 0 .. n /\ k \in 0 .. n
      BY <3>1
    <3>3. \A i \in s : i \in 1 .. n
      BY <3>1
    <3>4. k \in s
      BY <3>2
    <3> HIDE DEF s
    <3>5. s \in SUBSET (1 .. n)
      BY <3>3
    <3> QED  BY <3>2, <3>4, <3>5
  <2>2. Max(s) = k
    <3>1. s \in SUBSET (1 .. k) /\ k \in s
      OBVIOUS
    <3>2. Max(s) \in s /\ \A i \in s : i <= Max(s)
      BY <2>1, <3>1, LargestOf
    <3> QED  BY <3>1, <3>2
  <2>3. s \ {k} = 1 .. k - 1
    <3>1. \A i : i \in (1 .. k) \ {k} <=> i \in 1 .. k - 1
      BY <2>1
    <3> QED  BY <3>1
  <2>4. iter[s] = CheckAsync(iter[s \ {Max(s)}], seq[Max(s)])
    <3> HIDE DEF s
    <3> QED  BY <1>7, <2>1
  <2>5. iter[1 .. k] = CheckAsync(iter[1 .. k - 1], seq[k])
    BY <2>2, <2>3, <2>4
  <2> QED  BY <2>1, <2>5
<1>10. g[n] = iter[1 .. n]
  OBVIOUS
<1> HIDE DEF g
<1> QED  BY <1>6, <1>8, <1>9, <1>10 DEF base

Width(h) == IF h.async.concurrency = Unset THEN 1 ELSE h.async.concurrency

InLane(h) == h.async.mode = "lane"

Lonely(h) == h.async.group = NoGroup /\ h.async.concurrency # Unset

Differ(h, i) ==
    h.async.group = i.async.group /\ h.async.group # NoGroup /\ Width(h) # Width(i)

WrongAmong(hooks, k) ==
    \E i \in 1 .. k : /\ InLane(hooks[i])
                      /\ \/ Lonely(hooks[i])
                         \/ \E j \in 1 .. k : InLane(hooks[j]) /\ Differ(hooks[i], hooks[j])

\* The concurrency of a group is that of a hook that was seen.
SeenIsNamed(seen, hooks, k) ==
    \A g \in DOMAIN seen :
        \E i \in 1 .. k : /\ InLane(hooks[i]) /\ hooks[i].async.group = g
                          /\ g # NoGroup /\ Width(hooks[i]) = seen[g]

FollowsGroup(h, seen) ==
    /\ ~Lonely(h)
    /\ h.async.group # NoGroup =>
          h.async.group \in DOMAIN seen /\ seen[h.async.group] = Width(h)

\* The loop over the hooks after k of them: without an error each of them follows
\* its group, and with one some of them is wrong.
CheckingInv(r, hooks, k, E) ==
    /\ r = [seen |-> r.seen, errors |-> r.errors]
    /\ r.errors \in Seq(E)
    /\ SeenIsNamed(r.seen, hooks, k)
    /\ r.errors = <<>> => \A i \in 1 .. k : InLane(hooks[i]) => FollowsGroup(hooks[i], r.seen)
    /\ r.errors # <<>> => WrongAmong(hooks, k)

\* One hook more is checked.
LEMMA OneMoreChecked ==
  ASSUME NEW E, NEW hooks, NEW k \in Nat, NEW r, CheckingInv(r, hooks, k, E),
         HookError("invalid_async", hooks[k + 1].tag) \in E
  PROVE  CheckingInv(CheckAsync(r, hooks[k + 1]), hooks, k + 1, E)
<1> DEFINE h == hooks[k + 1]
           q == CheckAsync(r, h)
           e == HookError("invalid_async", h.tag)
           g == h.async.group
<1>1. /\ r = [seen |-> r.seen, errors |-> r.errors] /\ r.errors \in Seq(E)
      /\ SeenIsNamed(r.seen, hooks, k)
      /\ r.errors = <<>> => \A i \in 1 .. k : InLane(hooks[i]) => FollowsGroup(hooks[i], r.seen)
      /\ r.errors # <<>> => WrongAmong(hooks, k)
  BY DEF CheckingInv
<1>2. 1 .. k \subseteq 1 .. k + 1 /\ k + 1 \in 1 .. k + 1
      /\ \A i \in 1 .. k + 1 : i \in 1 .. k \/ i = k + 1
  OBVIOUS
<1>3. SeenIsNamed(r.seen, hooks, k + 1) /\ (WrongAmong(hooks, k) => WrongAmong(hooks, k + 1))
  BY <1>1, <1>2 DEF SeenIsNamed, WrongAmong
<1>4. ASSUME r.errors = <<>>, InLane(h) => FollowsGroup(h, r.seen)
      PROVE  \A i \in 1 .. k + 1 : InLane(hooks[i]) => FollowsGroup(hooks[i], r.seen)
  BY <1>1, <1>2, <1>4
<1>5. ASSUME q = r, r.errors = <<>> => (InLane(h) => FollowsGroup(h, r.seen))
      PROVE  CheckingInv(q, hooks, k + 1, E)
  <2> HIDE DEF q
  <2>1. r.errors = <<>> =>
           \A i \in 1 .. k + 1 : InLane(hooks[i]) => FollowsGroup(hooks[i], r.seen)
    BY <1>4, <1>5
  <2>2. CheckingInv(r, hooks, k + 1, E)
    BY <1>1, <1>3, <2>1 DEF CheckingInv
  <2> QED  BY <1>5, <2>2
<1>6. ASSUME q = [r EXCEPT !.errors = Append(@, e)], WrongAmong(hooks, k + 1)
      PROVE  CheckingInv(q, hooks, k + 1, E)
  <2>1. q = [seen |-> r.seen, errors |-> Append(r.errors, e)] /\ e \in E
    BY <1>1, <1>6
  <2> HIDE DEF q, e
  <2>2. q.seen = r.seen /\ q.errors = Append(r.errors, e)
        /\ q = [seen |-> q.seen, errors |-> q.errors]
    BY <2>1
  <2>3. q.errors \in Seq(E) /\ Len(q.errors) = Len(r.errors) + 1 /\ Len(r.errors) \in Nat
    BY <1>1, <2>1, <2>2
  <2>4. q.errors # <<>>
    <3>1. Len(<<>>) = 0
      OBVIOUS
    <3> QED  BY <2>3, <3>1
  <2> QED  BY <1>3, <1>6, <2>2, <2>3, <2>4 DEF CheckingInv
<1>7. CASE ~InLane(h)
  <2>1. q = r
    BY <1>7 DEF CheckAsync, InLane
  <2> QED  BY <1>5, <1>7, <2>1
<1>8. CASE InLane(h) /\ g = NoGroup /\ h.async.concurrency # Unset
  <2>1. q = [r EXCEPT !.errors = @ \o <<e>>]
    BY <1>8 DEF CheckAsync, InLane
  <2>2. r.errors \o <<e>> = Append(r.errors, e)
    BY <1>1
  <2>3. q = [r EXCEPT !.errors = Append(@, e)]
    <3> HIDE DEF e, q
    <3> QED  BY <2>1, <2>2
  <2>4. WrongAmong(hooks, k + 1)
    <3>1. InLane(hooks[k + 1]) /\ Lonely(hooks[k + 1])
      BY <1>8 DEF Lonely
    <3> QED  BY <1>2, <3>1 DEF WrongAmong
  <2> QED  BY <1>6, <2>3, <2>4
<1>9. CASE InLane(h) /\ g = NoGroup /\ ~(h.async.concurrency # Unset)
  <2>1. q = [r EXCEPT !.errors = @ \o <<>>]
    BY <1>9 DEF CheckAsync, InLane
  <2>2. q = r
    <3>1. r.errors \o <<>> = r.errors
      BY <1>1
    <3> HIDE DEF q
    <3> QED  BY <1>1, <2>1, <3>1
  <2>3. FollowsGroup(h, r.seen)
    BY <1>9 DEF FollowsGroup, Lonely
  <2> QED  BY <1>5, <2>2, <2>3
<1>10. CASE InLane(h) /\ g # NoGroup /\ g \in DOMAIN r.seen /\ r.seen[g] = Width(h)
  <2>1. q = r
    BY <1>10 DEF CheckAsync, InLane, Width
  <2>2. FollowsGroup(h, r.seen)
    BY <1>10 DEF FollowsGroup, Lonely
  <2> QED  BY <1>5, <2>1, <2>2
<1>11. CASE InLane(h) /\ g # NoGroup /\ g \in DOMAIN r.seen /\ r.seen[g] # Width(h)
  <2>1. q = [r EXCEPT !.errors = Append(@, e)]
    BY <1>11 DEF CheckAsync, InLane, Width
  <2>2. PICK i \in 1 .. k : InLane(hooks[i]) /\ hooks[i].async.group = g
                            /\ Width(hooks[i]) = r.seen[g]
    BY <1>1, <1>11 DEF SeenIsNamed
  <2>3. Differ(hooks[i], h)
    BY <1>11, <2>2 DEF Differ
  <2>4. WrongAmong(hooks, k + 1)
    BY <1>2, <1>11, <2>2, <2>3 DEF WrongAmong
  <2> QED  BY <1>6, <2>1, <2>4
<1>12. CASE InLane(h) /\ g # NoGroup /\ g \notin DOMAIN r.seen
  <2> DEFINE seen == [f \in DOMAIN r.seen \cup {g} |-> IF f = g THEN Width(h) ELSE r.seen[f]]
  <2>1. q = [r EXCEPT !.seen = seen]
    BY <1>12 DEF CheckAsync, InLane, Width
  <2> HIDE DEF q
  <2>2. q.seen = seen /\ q.errors = r.errors /\ q = [seen |-> q.seen, errors |-> q.errors]
    BY <1>1, <2>1
  <2>3. /\ DOMAIN seen = DOMAIN r.seen \cup {g} /\ seen[g] = Width(h)
        /\ \A f \in DOMAIN r.seen : seen[f] = r.seen[f]
    BY <1>12
  <2> HIDE DEF seen
  <2>4. SeenIsNamed(seen, hooks, k + 1)
    <3> SUFFICES ASSUME NEW f \in DOMAIN seen
                 PROVE  \E i \in 1 .. k + 1 :
                           /\ InLane(hooks[i]) /\ hooks[i].async.group = f
                           /\ f # NoGroup /\ Width(hooks[i]) = seen[f]
      BY DEF SeenIsNamed
    <3>1. CASE f = g
      BY <1>2, <1>12, <2>3, <3>1
    <3>2. CASE f # g
      BY <1>3, <2>3, <3>2 DEF SeenIsNamed
    <3> QED  BY <3>1, <3>2
  <2>5. ASSUME r.errors = <<>>, NEW i \in 1 .. k + 1, InLane(hooks[i])
        PROVE  FollowsGroup(hooks[i], seen)
    <3>1. CASE i = k + 1
      BY <1>12, <2>3, <3>1 DEF FollowsGroup, Lonely
    <3>2. CASE i \in 1 .. k
      <4>1. FollowsGroup(hooks[i], r.seen)
        BY <1>1, <2>5, <3>2
      <4> QED  BY <2>3, <4>1 DEF FollowsGroup
    <3> QED  BY <1>2, <3>1, <3>2
  <2>6. q.errors = <<>> =>
           \A i \in 1 .. k + 1 : InLane(hooks[i]) => FollowsGroup(hooks[i], q.seen)
    BY <2>2, <2>5
  <2>7. SeenIsNamed(q.seen, hooks, k + 1) /\ q.errors \in Seq(E)
        /\ (q.errors # <<>> => WrongAmong(hooks, k + 1))
    BY <1>1, <1>3, <2>2, <2>4
  <2>8. CheckingInv(q, hooks, k + 1, E)
    BY <2>2, <2>6, <2>7 DEF CheckingInv
  <2> QED  BY <2>8 DEF q
<1> QED  BY <1>7, <1>8, <1>9, <1>10, <1>11, <1>12 DEF q

\* For every list of hooks, validating it reports nothing exactly when every
\* asynchronous hook with a concurrency names a group and the hooks of a group
\* agree on it (validateAsyncQueueConfigs).
THEOREM LanesAreChecked ==
  ASSUME NEW H, NEW hooks \in Seq(H)
  PROVE  ValidateAsync(hooks) = <<>> <=> LanesAgree(hooks)
<1> DEFINE n == Len(hooks)
           E == {HookError("invalid_async", hooks[i].tag) : i \in 1 .. n}
<1>1. n \in Nat /\ DOMAIN hooks = 1 .. n
  OBVIOUS
<1>2. PICK g : /\ g[0] = [seen |-> <<>>, errors |-> <<>>] /\ g[n] = LanesChecked(hooks)
               /\ \A k \in 1 .. n : g[k] = CheckAsync(g[k - 1], hooks[k])
  <2>1. n \in Nat /\ DOMAIN hooks = 1 .. n
    BY <1>1
  <2> HIDE DEF n
  <2>2. \E g : /\ g[0] = [seen |-> <<>>, errors |-> <<>>] /\ g[n] = LanesChecked(hooks)
               /\ \A k \in 1 .. n : g[k] = CheckAsync(g[k - 1], hooks[k])
    BY <2>1, CheckTurns
  <2> QED  BY <2>2
<1>3. CheckingInv(g[0], hooks, 0, E)
  <2>1. g[0].seen = <<>> /\ g[0].errors = <<>> /\ g[0] = [seen |-> g[0].seen, errors |-> g[0].errors]
    BY <1>2
  <2>2. DOMAIN g[0].seen = {} /\ 1 .. 0 = {}
    BY <2>1
  <2> HIDE DEF E
  <2>3. g[0].errors \in Seq(E)
    BY <2>1
  <2> QED  BY <2>1, <2>2, <2>3 DEF CheckingInv, SeenIsNamed
<1> DEFINE S == {k \in Nat : k <= n => CheckingInv(g[k], hooks, k, E)}
<1>4. 0 \in S
  BY <1>3
<1>5. ASSUME NEW k \in Nat, k \in S
      PROVE  k + 1 \in S
  <2> SUFFICES ASSUME k + 1 <= n
               PROVE  CheckingInv(g[k + 1], hooks, k + 1, E)
    OBVIOUS
  <2>1. k + 1 \in 1 .. n /\ k <= n /\ (k + 1) - 1 = k
    BY <1>1
  <2>2. HookError("invalid_async", hooks[k + 1].tag) \in E /\ CheckingInv(g[k], hooks, k, E)
    BY <1>5, <2>1
  <2>3. g[k + 1] = CheckAsync(g[k], hooks[k + 1])
    BY <1>2, <2>1
  <2> HIDE DEF E
  <2> QED  BY <2>2, <2>3, OneMoreChecked
<1>6. Nat \subseteq S
  <2> HIDE DEF S
  <2> QED  BY <1>4, <1>5, Induction
<1>7. CheckingInv(g[n], hooks, n, E)
  <2>1. n \in S
    BY <1>1, <1>6
  <2> HIDE DEF E, n
  <2> QED  BY <1>1, <2>1
<1>8. ValidateAsync(hooks) = g[n].errors
  BY <1>2 DEF ValidateAsync
<1> HIDE DEF n, E
<1>9. ASSUME g[n].errors = <<>>
      PROVE  LanesAgree(hooks)
  <2>1. \A i \in DOMAIN hooks : InLane(hooks[i]) => FollowsGroup(hooks[i], g[n].seen)
    BY <1>1, <1>7, <1>9 DEF CheckingInv
  <2> QED  BY <2>1 DEF LanesAgree, InLane, FollowsGroup, Lonely, Width
<1>10. ASSUME LanesAgree(hooks)
       PROVE  g[n].errors = <<>>
  <2>1. ~WrongAmong(hooks, n)
    BY <1>1, <1>10 DEF LanesAgree, WrongAmong, InLane, Lonely, Differ, Width
  <2> QED  BY <1>7, <2>1 DEF CheckingInv
<1> QED  BY <1>8, <1>9, <1>10

=============================================================================
