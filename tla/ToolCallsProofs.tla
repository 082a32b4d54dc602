-------------------------- MODULE ToolCallsProofs --------------------------
(***************************************************************************)
(* Proofs about ToolCalls, for every set of calls, tools, sessions and     *)
(* hook maps: it uses the dispatcher only through its operations, a tool   *)
(* passes only its own gate, a call is refused only for its own hooks, and *)
(* the remembered arguments are forgotten only for age, number or the end  *)
(* of their session.                                                       *)
(***************************************************************************)
EXTENDS ToolCalls, FiniteSetTheorems, WellFoundedInduction, TLAPS

DP == INSTANCE DispatchProofs

(* The dispatcher underneath. *)

LEMMA KeyOfType == KeyOf \in [Request -> Key]
  BY DEF KeyOf, Key

LEMMA DispatchConstants == DP!DispatchAssumption
  BY ToolCallsAssumption, KeyOfType DEF DP!DispatchAssumption, Blocking

\* The pre-tool stages are dispatched so that they can block.
LEMMA BeforeBlocks ==
    ASSUME NEW c \in Calls, NEW s \in {"wildBefore", "ownBefore"}
    PROVE  <<c, s>> \in Request /\ KeyOf[<<c, s>>] \in Blocking
<1>1. <<c, s>> \in Request
  BY DEF Request, Stage
<1>2. KeyOf[<<c, s>>] = <<SessionOf[c], EventOf(c, s)>>
  BY <1>1 DEF KeyOf
<1>3. EventOf(c, s)[1] = "tool.before"
  BY DEF EventOf
<1> QED  BY <1>1, <1>2, <1>3, KeyOfType DEF Blocking

------------------------------------------------------------------------------
(* The remembered arguments are in the order in which they were placed: no *)
(* two have as many behind them, and those that expired are the oldest.    *)
(* So an entry is evicted only when MaxPending calls came after it, and    *)
(* swept only when it expired.                                             *)

InOrder ==
    /\ IsFiniteSet(pendingArgs)
    /\ pendingArgs \subseteq Calls
    /\ behind \in [Calls -> Nat]
    /\ expired \subseteq pendingArgs
    /\ \A c, d \in pendingArgs : behind[c] = behind[d] => c = d
    /\ \A c \in expired, d \in pendingArgs : behind[d] >= behind[c] => d \in expired

\* Of any entries one was placed first.
LEMMA OneIsOldest ==
    ASSUME InOrder, NEW S \in SUBSET pendingArgs, S # {}
    PROVE  \E o \in S : Oldest(S) = {o} /\ \A d \in S : behind[d] <= behind[o]
<1> DEFINE Older(c) == {d \in S : behind[d] > behind[c]}
           U == {Older(c) : c \in S}
<1>1. U \subseteq FiniteSubsetsOf(S) /\ U # {}
  <2>1. IsFiniteSet(S)
    BY FS_Subset DEF InOrder
  <2>2. ASSUME NEW c \in S
        PROVE  IsFiniteSet(Older(c)) /\ Older(c) \in SUBSET S
    BY <2>1, FS_Subset
  <2> QED  BY <2>2 DEF FiniteSubsetsOf
<1>2. IsWellFoundedOn(StrictSubsetOrdering(S), FiniteSubsetsOf(S))
  BY FS_StrictSubsetOrderingWellFounded
<1>3. PICK x \in U : \A y \in U : ~ (<<y, x>> \in StrictSubsetOrdering(S))
  <2> HIDE DEF U
  <2> QED  BY <1>1, <1>2, WFMin
<1>4. PICK o \in S : x = Older(o)
  BY <1>3
<1>5. ASSUME NEW d \in S
      PROVE  behind[d] <= behind[o]
  <2>1. <<Older(d), Older(o)>> \notin StrictSubsetOrdering(S)
    BY <1>3, <1>4
  <2>2. SUFFICES ASSUME behind[d] > behind[o]
                 PROVE  FALSE
    BY DEF InOrder
  <2>3. behind[d] \in Nat /\ behind[o] \in Nat /\ \A e \in S : behind[e] \in Nat
    BY DEF InOrder
  <2>4. Older(d) \subseteq Older(o) /\ d \in Older(o) /\ d \notin Older(d) /\ Older(o) \subseteq S
    BY <2>2, <2>3
  <2> HIDE DEF Older
  <2> QED  BY <2>1, <2>4 DEF StrictSubsetOrdering
<1>6. ASSUME NEW d \in Oldest(S)
      PROVE  d = o
  <2>1. d \in S /\ behind[o] <= behind[d] /\ behind[d] <= behind[o]
    BY <1>5 DEF Oldest
  <2> QED  BY <2>1 DEF InOrder
<1> QED  BY <1>5, <1>6 DEF Oldest

\* Its entry has all the others behind it.
LEMMA OthersAreBehind ==
    ASSUME InOrder, NEW S \in SUBSET pendingArgs, NEW o \in S,
           \A d \in S : behind[d] <= behind[o]
    PROVE  Cardinality(S) <= behind[o] + 1
<1> DEFINE T == 0 .. behind[o]
           f == [d \in S |-> behind[d]]
<1>1. behind[o] \in Nat /\ \A d \in S : behind[d] \in T
  BY DEF InOrder
<1>2. f \in Injection(S, T)
  BY <1>1 DEF InOrder, Injection, IsInjective
<1>3. IsFiniteSet(T) /\ Cardinality(T) = behind[o] + 1
  BY <1>1, FS_Interval
<1> HIDE DEF f, T
<1> QED  BY <1>2, <1>3, FS_Injection

\* There is room for one more, and what had to go had expired or has
\* MaxPending entries after it.
LEMMA RoomIsMade ==
    ASSUME InOrder, Cardinality(pendingArgs) <= MaxPending
    PROVE  /\ Kept \subseteq pendingArgs /\ IsFiniteSet(Kept)
           /\ Cardinality(Kept) < MaxPending
           /\ \A d \in pendingArgs \ Kept : d \in expired \/ behind[d] + 1 >= MaxPending
<1>1. Swept \in SUBSET pendingArgs /\ IsFiniteSet(Swept) /\ Cardinality(Swept) <= MaxPending
  <2>1. Swept \in SUBSET pendingArgs
    BY DEF Swept
  <2>2. IsFiniteSet(Swept) /\ Cardinality(Swept) <= Cardinality(pendingArgs)
    BY <2>1, FS_Subset DEF InOrder
  <2>3. Cardinality(Swept) \in Nat /\ Cardinality(pendingArgs) \in Nat
    BY <2>2, FS_CardinalityType DEF InOrder
  <2> QED  BY <2>1, <2>2, <2>3, ToolCallsAssumption
<1>2. Cardinality(Swept) \in Nat
  BY <1>1, FS_CardinalityType
<1>3. \A d \in pendingArgs \ Swept : d \in expired
  BY DEF Swept, InOrder
<1>4. CASE Cardinality(Swept) >= MaxPending
  <2>1. Swept # {}
    <3>1. Cardinality({}) = 0
      BY FS_EmptySet
    <3>2. MaxPending \in Nat /\ MaxPending > 0
      BY ToolCallsAssumption
    <3>3. Cardinality(Swept) > 0
      BY <1>2, <1>4, <3>2
    <3> QED  BY <1>2, <3>1, <3>3
  <2>2. PICK o \in Swept : Oldest(Swept) = {o} /\ \A d \in Swept : behind[d] <= behind[o]
    BY <1>1, <2>1, OneIsOldest
  <2>3. Kept = Swept \ {o}
    BY <1>4, <2>2 DEF Kept
  <2>4. IsFiniteSet(Kept) /\ Cardinality(Kept) = Cardinality(Swept) - 1
    BY <1>1, <2>2, <2>3, FS_RemoveElement
  <2>5. Cardinality(Swept) <= behind[o] + 1 /\ behind[o] \in Nat
    BY <1>1, <2>2, OthersAreBehind DEF InOrder
  <2>6. behind[o] + 1 >= MaxPending /\ Cardinality(Kept) < MaxPending
    BY <1>1, <1>2, <1>4, <2>4, <2>5, ToolCallsAssumption
  <2>7. \A d \in pendingArgs \ Kept : d \in pendingArgs \ Swept \/ d = o
    BY <2>3
  <2> QED  BY <1>1, <1>3, <2>3, <2>4, <2>6, <2>7
<1>5. CASE ~ (Cardinality(Swept) >= MaxPending)
  <2>1. Kept = Swept
    BY <1>5 DEF Kept
  <2> QED  BY <1>1, <1>2, <1>3, <1>5, <2>1, ToolCallsAssumption
<1> QED  BY <1>4, <1>5

\* Setting a call keeps the order.
LEMMA SetKeepsOrder ==
    ASSUME InOrder, Cardinality(pendingArgs) <= MaxPending, NEW c \in Calls,
           SetPendingToolCall(c)
    PROVE  InOrder' /\ Cardinality(pendingArgs') <= MaxPending
<1> USE DEF SetPendingToolCall
<1>1. /\ Kept \subseteq pendingArgs /\ IsFiniteSet(Kept)
      /\ Cardinality(Kept) < MaxPending /\ Cardinality(Kept) \in Nat
  BY RoomIsMade, FS_CardinalityType
<1>2. IsFiniteSet(pendingArgs') /\ Cardinality(pendingArgs') <= MaxPending
  <2>1. pendingArgs' = Kept \cup {c}
    OBVIOUS
  <2>2. /\ IsFiniteSet(Kept \cup {c})
        /\ Cardinality(Kept \cup {c}) \in {Cardinality(Kept), Cardinality(Kept) + 1}
    BY <1>1, FS_AddElement
  <2> QED  BY <1>1, <2>1, <2>2, ToolCallsAssumption
<1>3. pendingArgs' \subseteq Calls /\ expired' \subseteq pendingArgs' /\ behind' \in [Calls -> Nat]
  BY <1>1 DEF InOrder
<1>4. \A d \in Kept : behind[d] \in Nat /\ behind'[d] = behind[d] + 1
  BY <1>1 DEF InOrder
<1>5. c \notin Kept => behind'[c] = 0
  OBVIOUS
<1>6. ASSUME NEW d \in pendingArgs', NEW e \in pendingArgs', behind'[d] = behind'[e]
      PROVE  d = e
  <2>1. CASE d \in Kept /\ e \in Kept
    BY <1>1, <1>4, <1>6, <2>1 DEF InOrder
  <2>2. CASE d \notin Kept \/ e \notin Kept
    BY <1>4, <1>5, <1>6, <2>2
  <2> QED  BY <2>1, <2>2
<1>7. ASSUME NEW d \in expired', NEW e \in pendingArgs', behind'[e] >= behind'[d]
      PROVE  e \in expired'
  <2>1. d \in Kept /\ d \in expired
    OBVIOUS
  <2>2. e \in Kept
    BY <1>4, <1>5, <1>7, <2>1
  <2>3. behind[e] >= behind[d]
    BY <1>4, <1>7, <2>1, <2>2
  <2> QED  BY <1>1, <2>1, <2>2, <2>3 DEF InOrder
<1> QED  BY <1>2, <1>3, <1>6, <1>7 DEF InOrder

\* So does dropping calls.
LEMMA DropKeepsOrder ==
    ASSUME InOrder, Cardinality(pendingArgs) <= MaxPending,
           NEW S \in SUBSET pendingArgs, EntriesBecome(S)
    PROVE  InOrder' /\ Cardinality(pendingArgs') <= MaxPending
<1> USE DEF EntriesBecome
<1>1. IsFiniteSet(S) /\ Cardinality(S) <= Cardinality(pendingArgs)
  BY FS_Subset DEF InOrder
<1>2. Cardinality(S) \in Nat /\ Cardinality(pendingArgs) \in Nat
  BY <1>1, FS_CardinalityType DEF InOrder
<1>3. \A c \in S : behind'[c] = behind[c]
  BY DEF InOrder
<1>4. behind' \in [Calls -> Nat] /\ pendingArgs' \subseteq Calls
  BY DEF InOrder
<1> QED  BY <1>1, <1>2, <1>3, <1>4, ToolCallsAssumption DEF InOrder

------------------------------------------------------------------------------
(* The handlers' own state: its types, that a handler awaiting a dispatch  *)
(* still has the hooks its event was given, and where the arguments are.   *)
(* None of it depends on what the dispatcher answers.                      *)

OwnTypeOK ==
    /\ at \in [Calls -> Place]
    /\ mapOf \in [Calls -> HookMap \cup {D!NotYet}]
    /\ pendingArgs \subseteq Calls \ UserBash
    /\ behind \in [Calls -> Nat]
    /\ expired \subseteq pendingArgs
    /\ excused \subseteq Calls \ UserBash

MapHeld == \A c \in Calls : at[c] \in Stage => mapOf[c] \in HookMap

OwnInv == OwnTypeOK /\ MapHeld /\ InOrder /\ ArgsKept

LEMMA BeforeOwn ==
    ASSUME OwnInv, NEW c \in Calls, NEW m \in HookMap, Before(c, m)
    PROVE  OwnInv'
<1>1. /\ at[c] = "idle"
      /\ at' = [at EXCEPT ![c] = "wildBefore"]
      /\ mapOf' = [mapOf EXCEPT ![c] = m]
  BY DEF Before, Ask
<1>2. at' \in [Calls -> Place] /\ mapOf' \in [Calls -> HookMap \cup {D!NotYet}] /\ MapHeld'
  BY <1>1 DEF OwnInv, OwnTypeOK, MapHeld, Place, Stage
<1>3. CASE c \in UserBash
  <2>1. UNCHANGED argVars
    BY <1>3 DEF Before
  <2> QED  BY <1>1, <1>2, <1>3, <2>1 DEF OwnInv, OwnTypeOK, ArgsKept, InOrder, argVars
<1>4. CASE c \notin UserBash
  <2>1. SetPendingToolCall(c)
    BY <1>4 DEF Before
  <2>2. InOrder' /\ Cardinality(pendingArgs') <= MaxPending
    BY <2>1, SetKeepsOrder DEF OwnInv, ArgsKept
  <2>3. /\ Kept \subseteq pendingArgs
        /\ \A d \in pendingArgs \ Kept : d \in expired \/ behind[d] + 1 >= MaxPending
    BY RoomIsMade DEF OwnInv, ArgsKept
  <2>4. OwnTypeOK'
    BY <1>2, <1>4, <2>1, <2>2, <2>3 DEF SetPendingToolCall, OwnInv, OwnTypeOK, InOrder
  <2>5. \A d \in Waiting \cap pendingArgs : d \in pendingArgs' \cup excused'
    BY <2>1, <2>3 DEF SetPendingToolCall
  <2>6. ASSUME NEW d \in Calls \ UserBash
        PROVE  /\ at'[d] \in {"wildBefore", "ownBefore", "allowed", "ran"} =>
                      d \in pendingArgs' \cup excused'
               /\ at'[d] \in {"refused", "fileChanged", "wildAfter", "ownAfter", "done", "failed"} =>
                      d \notin pendingArgs'
    <3>1. CASE d = c
      BY <1>1, <2>1, <3>1 DEF SetPendingToolCall, OwnInv, OwnTypeOK
    <3>2. CASE d # c
      BY <1>1, <2>1, <2>3, <2>5, <3>2 DEF SetPendingToolCall, OwnInv, OwnTypeOK, ArgsKept, Waiting
    <3> QED  BY <3>1, <3>2
  <2> QED  BY <1>2, <2>2, <2>4, <2>6 DEF OwnInv, ArgsKept
<1> QED  BY <1>3, <1>4

\* A step of call c that may drop its entry, and no other.
LEMMA EntryDropped ==
    ASSUME OwnInv, NEW c \in Calls, NEW p \in Place, at' = [at EXCEPT ![c] = p],
           UNCHANGED <<pendingArgs, behind, expired>> \/ ConsumePendingToolCall(c),
           excused' \subseteq excused, excused \ {c} \subseteq excused',
           p \in {"wildBefore", "ownBefore", "allowed", "ran"} => c \in UserBash \/ c \in pendingArgs' \cup excused',
           p \in {"refused", "fileChanged", "wildAfter", "ownAfter", "done", "failed"} => c \notin pendingArgs'
    PROVE  InOrder' /\ ArgsKept' /\ pendingArgs' \subseteq pendingArgs
<1>1. InOrder' /\ Cardinality(pendingArgs') <= MaxPending /\ pendingArgs' \subseteq pendingArgs
      /\ pendingArgs \ {c} \subseteq pendingArgs'
  <2>1. CASE UNCHANGED <<pendingArgs, behind, expired>>
    BY <2>1 DEF OwnInv, InOrder, ArgsKept
  <2>2. CASE ConsumePendingToolCall(c)
    <3>1. EntriesBecome(pendingArgs \ {c})
      BY <2>2 DEF ConsumePendingToolCall
    <3>2. InOrder' /\ Cardinality(pendingArgs') <= MaxPending
      BY <3>1, DropKeepsOrder DEF OwnInv, ArgsKept
    <3> QED  BY <3>1, <3>2 DEF EntriesBecome
  <2> QED  BY <2>1, <2>2
<1>2. ASSUME NEW d \in Calls \ UserBash
      PROVE  /\ at'[d] \in {"wildBefore", "ownBefore", "allowed", "ran"} =>
                    d \in pendingArgs' \cup excused'
             /\ at'[d] \in {"refused", "fileChanged", "wildAfter", "ownAfter", "done", "failed"} =>
                    d \notin pendingArgs'
  <2>1. CASE d = c
    BY <2>1 DEF OwnInv, OwnTypeOK
  <2>2. CASE d # c
    BY <1>1, <2>2 DEF OwnInv, OwnTypeOK, ArgsKept
  <2> QED  BY <2>1, <2>2
<1> QED  BY <1>1, <1>2 DEF ArgsKept

LEMMA AfterOwn ==
    ASSUME OwnInv, NEW c \in Calls, NEW m \in HookMap, After(c, m)
    PROVE  OwnInv'
<1> DEFINE s == IF c \in Mutating \cap Resolved THEN "fileChanged" ELSE "wildAfter"
<1>1. /\ at' = [at EXCEPT ![c] = s]
      /\ mapOf' = [mapOf EXCEPT ![c] = m]
      /\ ConsumePendingToolCall(c)
      /\ excused' = excused \ ({c} \cap Resolved)
      /\ s \in {"fileChanged", "wildAfter"}
  BY DEF After, Ask
<1> HIDE DEF s
<1>2. s \in Place /\ c \notin pendingArgs'
  BY <1>1 DEF Place, Stage, ConsumePendingToolCall, EntriesBecome
<1>3. InOrder' /\ ArgsKept' /\ pendingArgs' \subseteq pendingArgs
  BY <1>1, <1>2, EntryDropped
<1>4. OwnTypeOK' /\ MapHeld'
  BY <1>1, <1>2, <1>3 DEF OwnInv, OwnTypeOK, MapHeld, InOrder
<1> QED  BY <1>3, <1>4 DEF OwnInv

LEMMA ResumeOwn ==
    ASSUME OwnInv, NEW c \in Calls, Resume(c)
    PROVE  OwnInv'
<1>1. ASSUME NEW p \in Place, at' = [at EXCEPT ![c] = p],
             \/ mapOf' = mapOf /\ at[c] \in Stage
             \/ mapOf' = [mapOf EXCEPT ![c] = D!NotYet] /\ p \notin Stage,
             UNCHANGED <<pendingArgs, behind, expired>> \/ ConsumePendingToolCall(c),
             excused' = excused \/ excused' = excused \ {c},
             p \in {"wildBefore", "ownBefore", "allowed", "ran"} => c \in UserBash \/ c \in pendingArgs' \cup excused',
             p \in {"refused", "fileChanged", "wildAfter", "ownAfter", "done", "failed"} => c \notin pendingArgs'
      PROVE  OwnInv'
  <2>1. InOrder' /\ ArgsKept' /\ pendingArgs' \subseteq pendingArgs
    BY <1>1, EntryDropped
  <2>2. OwnTypeOK' /\ MapHeld'
    BY <1>1, <2>1 DEF OwnInv, OwnTypeOK, MapHeld, InOrder
  <2> QED  BY <2>1, <2>2 DEF OwnInv
<1> USE DEF Place, Stage
<1>2. CASE OwnBefore(c)
  <2>1. /\ at[c] = "wildBefore" /\ at' = [at EXCEPT ![c] = "ownBefore"]
        /\ mapOf' = mapOf /\ UNCHANGED argVars
    BY <1>2 DEF OwnBefore, Ask
  <2>2. c \in UserBash \/ c \in pendingArgs' \cup excused'
    BY <2>1 DEF argVars, OwnInv, ArgsKept
  <2> QED  BY <1>1, <2>1, <2>2 DEF argVars
<1>3. CASE Pass(c)
  BY <1>1, <1>3 DEF Pass, MoveTo, argVars, OwnInv, ArgsKept
<1>4. CASE Refuse(c)
  <2>1. c \notin pendingArgs'
    BY <1>4 DEF Refuse, ConsumePendingToolCall, EntriesBecome
  <2> QED  BY <1>1, <1>4, <2>1 DEF Refuse, MoveTo
<1>5. CASE Fail(c)
  <2> DEFINE p == IF at[c] \in {"wildBefore", "ownBefore"} THEN "crashed" ELSE "failed"
  <2>1. p = "failed" => c \notin pendingArgs'
    <3>1. at[c] \in Stage /\ pendingArgs' = pendingArgs
      BY <1>5 DEF Fail, Answered
    <3>2. c \in UserBash => c \notin pendingArgs
      BY DEF OwnInv, OwnTypeOK
    <3> QED  BY <3>1, <3>2 DEF OwnInv, ArgsKept
  <2>2. /\ at' = [at EXCEPT ![c] = p] /\ mapOf' = [mapOf EXCEPT ![c] = D!NotYet]
        /\ UNCHANGED <<pendingArgs, behind, expired>> /\ excused' = excused \ {c}
        /\ p \in {"crashed", "failed"}
    BY <1>5 DEF Fail, MoveTo
  <2> HIDE DEF p
  <2> QED  BY <1>1, <2>1, <2>2
<1>6. CASE NextAfter(c)
  <2>1. c \in UserBash => c \notin pendingArgs
    BY DEF OwnInv, OwnTypeOK
  <2>2. UNCHANGED argVars /\ at[c] \in {"fileChanged", "wildAfter", "ownAfter"}
    BY <1>6 DEF NextAfter
  <2>3. c \notin pendingArgs'
    BY <2>1, <2>2 DEF argVars, OwnInv, ArgsKept
  <2>4. \/ /\ \E p \in {"wildAfter", "ownAfter"} : at' = [at EXCEPT ![c] = p]
           /\ mapOf' = mapOf
        \/ /\ at' = [at EXCEPT ![c] = "done"]
           /\ mapOf' = [mapOf EXCEPT ![c] = D!NotYet]
    BY <1>6 DEF NextAfter, Ask, MoveTo
  <2> QED  BY <1>1, <2>2, <2>3, <2>4 DEF argVars
<1> QED  BY <1>2, <1>3, <1>4, <1>5, <1>6 DEF Resume

LEMMA RunToolOwn ==
    ASSUME OwnInv, NEW c \in Calls, RunTool(c)
    PROVE  OwnInv'
<1>1. /\ at[c] = "allowed" /\ at' = [at EXCEPT ![c] = "ran"]
      /\ mapOf' = [mapOf EXCEPT ![c] = D!NotYet] /\ UNCHANGED argVars
  BY DEF RunTool, MoveTo
<1> QED  BY <1>1 DEF OwnInv, OwnTypeOK, MapHeld, InOrder, ArgsKept, argVars, Place, Stage

LEMMA ExpiryOwn ==
    ASSUME OwnInv, NEW c \in Calls, EntryExpires(c)
    PROVE  OwnInv'
<1>1. InOrder'
  BY DEF EntryExpires, OwnInv, InOrder
<1>2. OwnTypeOK' /\ MapHeld' /\ ArgsKept'
  BY DEF EntryExpires, OwnInv, OwnTypeOK, MapHeld, ArgsKept
<1> QED  BY <1>1, <1>2 DEF OwnInv

LEMMA DeleteOwn ==
    ASSUME OwnInv, NEW s \in Session, DeleteSession(s)
    PROVE  OwnInv'
<1> DEFINE S == {c \in pendingArgs : SessionOf[c] # s}
<1>1. EntriesBecome(S) /\ at' = at /\ mapOf' = mapOf
      /\ excused' = excused \cup {c \in Waiting \cap pendingArgs : SessionOf[c] = s}
  BY DEF DeleteSession
<1>2. InOrder' /\ Cardinality(pendingArgs') <= MaxPending
  BY <1>1, DropKeepsOrder DEF OwnInv, ArgsKept
<1>3. OwnTypeOK' /\ MapHeld'
  BY <1>1, <1>2 DEF OwnInv, OwnTypeOK, MapHeld, InOrder, EntriesBecome
<1>4. ArgsKept'
  BY <1>1, <1>2 DEF OwnInv, ArgsKept, EntriesBecome, Waiting
<1> QED  BY <1>2, <1>3, <1>4 DEF OwnInv

LEMMA OwnInvariant == Spec => []OwnInv
<1>1. Init => OwnInv
  <2> SUFFICES ASSUME Init
               PROVE  OwnInv
    OBVIOUS
  <2>1. IsFiniteSet(pendingArgs) /\ Cardinality(pendingArgs) <= MaxPending
    BY FS_EmptySet, ToolCallsAssumption DEF Init
  <2> QED  BY <2>1 DEF Init, OwnInv, OwnTypeOK, MapHeld, InOrder, ArgsKept, Place, Stage
<1>2. OwnInv /\ [Next]_vars => OwnInv'
  <2> SUFFICES ASSUME OwnInv, [Next]_vars
               PROVE  OwnInv'
    OBVIOUS
  <2>1. ASSUME NEW c \in Calls, NEW m \in Loaded[c], Before(c, m) \/ After(c, m)
        PROVE  OwnInv'
    <3>1. m \in HookMap
      BY ToolCallsAssumption
    <3> QED  BY <2>1, <3>1, BeforeOwn, AfterOwn
  <2>2. ASSUME NEW c \in Calls, Resume(c) \/ RunTool(c) \/ EntryExpires(c)
        PROVE  OwnInv'
    BY <2>2, ResumeOwn, RunToolOwn, ExpiryOwn
  <2>3. ASSUME NEW s \in Session, DeleteSession(s)
        PROVE  OwnInv'
    BY <2>3, DeleteOwn
  <2>4. CASE (\E k \in Key : Work(k)) \/ Rest \/ UNCHANGED vars
    BY <2>4 DEF Work, Rest, vars, toolVars, argVars, OwnInv, OwnTypeOK, MapHeld, InOrder, ArgsKept
  <2> QED  BY <2>1, <2>2, <2>3, <2>4 DEF Next
<1> QED  BY <1>1, <1>2, PTL DEF Spec

\* The arguments of a tool that may still run are there when its result
\* arrives unless its session was deleted, they expired before another call, or
\* MaxPending calls came after it; a call blocked or reported leaves none
\* behind, and there are never more than MaxPending.
THEOREM ArgumentsKept == Spec => []ArgsKept
  BY OwnInvariant, PTL DEF OwnInv

------------------------------------------------------------------------------
(* The handlers use the dispatcher only through its operations. *)

LEMMA AskCalls ==
    ASSUME NEW c \in Calls, NEW s \in Stage, NEW m \in HookMap, Ask(c, s, m)
    PROVE  DP!Next
<1>1. <<c, s>> \in Request
  BY DEF Request
<1>2. DP!Call(<<c, s>>, m)
  BY DEF Ask, D!Call, DP!Call, D!Skip, DP!Skip, D!Park, DP!Park, D!Start, DP!Start
<1> QED  BY <1>1, <1>2 DEF DP!Next

LEMMA DispatcherStep ==
    ASSUME OwnInv, [Next]_vars
    PROVE  [DP!Next]_(DP!vars)
<1> USE DEF dispatchVars
<1>1. ASSUME NEW c \in Calls, NEW m \in HookMap, Before(c, m) \/ After(c, m)
      PROVE  DP!Next
  BY <1>1, AskCalls DEF Before, After, Stage
<1>2. ASSUME NEW c \in Calls, OwnBefore(c) \/ NextAfter(c)
      PROVE  DP!Next \/ UNCHANGED DP!vars
  <2>1. CASE at[c] = "ownAfter"
    BY <1>2, <2>1 DEF OwnBefore, NextAfter, MoveTo, DP!vars
  <2>2. CASE at[c] # "ownAfter"
    <3>1. mapOf[c] \in HookMap
      BY <1>2, <2>2 DEF OwnInv, MapHeld, OwnBefore, NextAfter, Answered
    <3>2. \E s \in Stage : Ask(c, s, mapOf[c])
      BY <1>2, <2>2 DEF OwnBefore, NextAfter, Stage
    <3> QED  BY <3>1, <3>2, AskCalls
  <2> QED  BY <2>1, <2>2
<1>3. ASSUME NEW k \in Key, Work(k)
      PROVE  DP!Next
  <2>1. DP!RunHook(k) \/ DP!Settle(k)
    BY <1>3 DEF Work, D!RunHook, DP!RunHook, D!Settle, DP!Settle, D!Executing, DP!Executing,
         D!Bucket, DP!Bucket, D!Conclude, DP!Conclude, D!Release, DP!Release,
         D!Told, DP!Told, D!Outcome, DP!Outcome, D!NotYet, DP!NotYet
  <2> QED  BY <2>1 DEF DP!Next
<1>4. ASSUME \/ \E c \in Calls : Pass(c) \/ Refuse(c) \/ Fail(c) \/ RunTool(c) \/ EntryExpires(c)
             \/ \E s \in Session : DeleteSession(s)
             \/ Rest \/ UNCHANGED vars
      PROVE  UNCHANGED DP!vars
  BY <1>4 DEF Pass, Refuse, Fail, RunTool, EntryExpires, DeleteSession, MoveTo, Rest, vars, DP!vars
<1> QED  BY <1>1, <1>2, <1>3, <1>4, ToolCallsAssumption DEF Next, Resume

\* Every behaviour of the handlers is one of the dispatcher, so what is proved
\* of Dispatch holds here.
THEOREM UsesDispatch == Spec => DP!Spec
<1>1. Init => DP!Init
  BY DEF Init, D!Init, DP!Init, D!NotYet, DP!NotYet
<1> QED  BY <1>1, DispatcherStep, OwnInvariant, PTL DEF Spec, DP!Spec

\* Every reachable state of the handlers and of the dispatcher under them is
\* well typed.
THEOREM TypeCorrect == Spec => []TypeOK
<1>1. Spec => []DP!TypeOK
  BY UsesDispatch, DispatchConstants, DP!TypeCorrect, PTL
<1>2. DP!TypeOK /\ OwnInv => TypeOK
  BY DEF OwnInv, TypeOK, OwnTypeOK, D!TypeOK, DP!TypeOK, D!Outcome, DP!Outcome, D!NotYet, DP!NotYet
<1> QED  BY <1>1, <1>2, OwnInvariant, PTL

------------------------------------------------------------------------------
(* The gate.  It is not inductive as it stands: that the tool's own hooks  *)
(* passed says nothing of the wildcard hooks unless it is known, while the *)
(* handler awaits the former, that the latter passed.                      *)

GateInv ==
    /\ GateHolds
    /\ \A c \in Calls : at[c] = "ownBefore" => served[<<c, "wildBefore">>] = "ok"

\* The answer a before handler resumes with is what its own hooks gave.
LEMMA OwnAnswer ==
    ASSUME DP!HonestAnswer, NEW c \in Calls, at[c] \in {"wildBefore", "ownBefore"},
           NEW o \in {"ok", "blocked", "error"}, Answered(c, o)
    PROVE  served[<<c, at[c]>>] = o
<1>1. <<c, at[c]>> \in Request /\ KeyOf[<<c, at[c]>>] \in Blocking
  BY BeforeBlocks
<1> QED  BY <1>1 DEF Answered, DP!HonestAnswer, DP!NotYet

\* A step never rewrites what the hooks of a request came to.
LEMMA RecordGrows ==
    ASSUME OwnInv, DP!IInv, [Next]_vars
    PROVE  \A r \in Request : served[r] # "none" => served'[r] = served[r]
  BY DispatcherStep, DispatchConstants, DP!OutcomesStand DEF DP!NotYet

\* Where a handler that passed the gate may stand.
Past == {"allowed", "ran", "fileChanged", "wildAfter", "ownAfter", "done", "failed"}

LEMMA GateStep ==
    ASSUME OwnInv, DP!IInv, GateInv, [Next]_vars
    PROVE  GateInv'
<1>1. \A c \in Calls, s \in Stage : served[<<c, s>>] # "none" => served'[<<c, s>>] = served[<<c, s>>]
  BY RecordGrows DEF Request
<1>2. DP!HonestAnswer
  BY DEF DP!IInv
<1>3. at \in [Calls -> Place]
  BY DEF OwnInv, OwnTypeOK
<1>4. ASSUME NEW d \in Calls
      PROVE  /\ served[<<d, "wildBefore">>] = "ok" => served'[<<d, "wildBefore">>] = "ok"
             /\ served[<<d, "ownBefore">>] = "ok" => served'[<<d, "ownBefore">>] = "ok"
  BY <1>1 DEF Stage
<1>5. ASSUME NEW c \in Calls,
             \A d \in Calls \ {c} :
                at'[d] = at[d] /\ (<<d, "ownBefore">> \in called' => <<d, "ownBefore">> \in called),
             at'[c] \in Past => at[c] \in Past \/ (served[<<c, "wildBefore">>] = "ok" /\ served[<<c, "ownBefore">>] = "ok"),
             at'[c] = "ownBefore" => served[<<c, "wildBefore">>] = "ok",
             <<c, "ownBefore">> \in called' => <<c, "ownBefore">> \in called \/ served[<<c, "wildBefore">>] = "ok"
      PROVE  GateInv'
  <2>1. ASSUME NEW d \in Calls
        PROVE  /\ at'[d] \in Past => served'[<<d, "wildBefore">>] = "ok" /\ served'[<<d, "ownBefore">>] = "ok"
               /\ <<d, "ownBefore">> \in called' => served'[<<d, "wildBefore">>] = "ok"
               /\ at'[d] = "ownBefore" => served'[<<d, "wildBefore">>] = "ok"
    <3>1. CASE d = c
      BY <1>4, <1>5, <3>1 DEF GateInv, GateHolds, Past
    <3>2. CASE d # c
      BY <1>4, <1>5, <3>2 DEF GateInv, GateHolds, Past
    <3> QED  BY <3>1, <3>2
  <2> QED  BY <2>1 DEF GateInv, GateHolds, Past
<1>6. ASSUME at' = at, called' = called
      PROVE  GateInv'
  BY <1>4, <1>6 DEF GateInv, GateHolds
<1>7. ASSUME NEW c \in Calls, NEW m \in HookMap, Before(c, m) \/ After(c, m)
      PROVE  GateInv'
  <2>1. at[c] \in {"idle", "ran"} /\ (at[c] = "idle" => at'[c] = "wildBefore")
    BY <1>3, <1>7 DEF Before, After, Ask
  <2>2. \E s \in Stage \ {"ownBefore"} : at' = [at EXCEPT ![c] = s] /\ called' = called \cup {<<c, s>>}
    BY <1>7 DEF Before, After, Ask, D!Call, Stage
  <2>3. PICK s \in Stage \ {"ownBefore"} : at' = [at EXCEPT ![c] = s] /\ called' = called \cup {<<c, s>>}
    BY <2>2
  <2> QED  BY <1>3, <1>5, <2>1, <2>3 DEF Past
<1>8. ASSUME NEW c \in Calls, OwnBefore(c)
      PROVE  GateInv'
  <2>1. served[<<c, "wildBefore">>] = "ok"
    BY <1>2, <1>8, OwnAnswer DEF OwnBefore
  <2>2. at' = [at EXCEPT ![c] = "ownBefore"] /\ called' = called \cup {<<c, "ownBefore">>}
    BY <1>8 DEF OwnBefore, Ask, D!Call
  <2> QED  BY <1>3, <1>5, <2>1, <2>2 DEF Past
<1>9. ASSUME NEW c \in Calls, Pass(c)
      PROVE  GateInv'
  <2>1. served[<<c, "ownBefore">>] = "ok" /\ served[<<c, "wildBefore">>] = "ok"
    BY <1>2, <1>9, OwnAnswer DEF Pass, GateInv
  <2>2. at' = [at EXCEPT ![c] = "allowed"] /\ called' = called
    BY <1>9 DEF Pass, MoveTo, dispatchVars
  <2> QED  BY <1>3, <1>5, <2>1, <2>2 DEF Past
<1>10. ASSUME NEW c \in Calls, Refuse(c)
       PROVE  GateInv'
  <2>1. at' = [at EXCEPT ![c] = "refused"] /\ called' = called
    BY <1>10 DEF Refuse, MoveTo, dispatchVars
  <2> QED  BY <1>3, <1>5, <2>1 DEF Past
<1>11. ASSUME NEW c \in Calls, RunTool(c)
       PROVE  GateInv'
  <2>1. at[c] = "allowed" /\ at' = [at EXCEPT ![c] = "ran"] /\ called' = called
    BY <1>11 DEF RunTool, MoveTo, dispatchVars
  <2> QED  BY <1>3, <1>5, <2>1 DEF Past
<1>12. ASSUME NEW c \in Calls, Fail(c)
       PROVE  GateInv'
  <2>1. at[c] \in Stage /\ called' = called
    BY <1>12 DEF Fail, Answered, MoveTo, dispatchVars
  <2>2. at' = [at EXCEPT ![c] = IF at[c] \in {"wildBefore", "ownBefore"} THEN "crashed" ELSE "failed"]
    BY <1>12 DEF Fail, MoveTo
  <2>3. at[c] \notin {"wildBefore", "ownBefore"} => at[c] \in Past
    BY <2>1 DEF Stage, Past
  <2> QED  BY <1>3, <1>5, <2>1, <2>2, <2>3 DEF Past
<1>13. ASSUME NEW c \in Calls, NextAfter(c)
       PROVE  GateInv'
  <2>1. /\ at[c] \in Past
        /\ \E p \in Past : at' = [at EXCEPT ![c] = p]
        /\ called' = called \cup {<<c, "wildAfter">>} \/ called' = called \cup {<<c, "ownAfter">>} \/ called' = called
    BY <1>13 DEF NextAfter, Ask, MoveTo, D!Call, dispatchVars, Past
  <2> QED  BY <1>3, <1>5, <2>1 DEF Past
<1>14. ASSUME NEW k \in Key, Work(k)
       PROVE  GateInv'
  <2>1. at' = at /\ called' = called
    BY <1>14 DEF Work, toolVars, D!RunHook, D!Settle, D!Conclude
  <2> QED  BY <1>6, <2>1
<1>15. CASE \/ \E c \in Calls : EntryExpires(c)
            \/ \E s \in Session : DeleteSession(s)
            \/ Rest \/ UNCHANGED vars
  <2>1. at' = at /\ called' = called
    BY <1>15 DEF EntryExpires, DeleteSession, Rest, vars, toolVars, dispatchVars
  <2> QED  BY <1>6, <2>1
<1> QED  BY <1>7, <1>8, <1>9, <1>10, <1>11, <1>12, <1>13, <1>14, <1>15, ToolCallsAssumption
         DEF Next, Resume

\* A tool runs only if its wildcard hooks and its own hooks ran for this very
\* call and passed, however many calls of the session overlap.
THEOREM Gate == Spec => []GateHolds
<1>1. Init => GateInv
  BY DEF Init, GateInv, GateHolds, D!Init
<1>2. Spec => []DP!IInv
  BY UsesDispatch, DispatchConstants, DP!Invariance, PTL
<1>3. GateInv => GateHolds
  BY DEF GateInv
<1> QED  BY <1>1, <1>2, <1>3, OwnInvariant, GateStep, PTL DEF Spec

------------------------------------------------------------------------------
(* Refusals. *)

Because(c) ==
    /\ at[c] = "refused" => \E s \in {"wildBefore", "ownBefore"} : served[<<c, s>>] = "blocked"
    /\ at[c] = "crashed" => \E s \in {"wildBefore", "ownBefore"} : served[<<c, s>>] = "error"
    /\ at[c] = "failed"  => \E s \in Stage : served[<<c, s>>] = "error"

\* A step that does not end the handler of call d keeps what it is because of.
LEMMA BecauseStands ==
    ASSUME OwnInv, DP!IInv, [Next]_vars, NEW d \in Calls, Because(d),
           at'[d] = at[d] \/ at'[d] \notin {"refused", "crashed", "failed"}
    PROVE  Because(d)'
<1>1. \A s \in Stage : served[<<d, s>>] # "none" => served'[<<d, s>>] = served[<<d, s>>]
  BY RecordGrows DEF Request
<1>2. CASE at'[d] = at[d]
  <2>1. ASSUME at[d] = "refused"
        PROVE  \E s \in {"wildBefore", "ownBefore"} : served'[<<d, s>>] = "blocked"
    BY <1>1, <2>1 DEF Because, Stage
  <2>2. ASSUME at[d] = "crashed"
        PROVE  \E s \in {"wildBefore", "ownBefore"} : served'[<<d, s>>] = "error"
    BY <1>1, <2>2 DEF Because, Stage
  <2>3. ASSUME at[d] = "failed"
        PROVE  \E s \in Stage : served'[<<d, s>>] = "error"
    BY <1>1, <2>3 DEF Because
  <2> QED  BY <1>2, <2>1, <2>2, <2>3 DEF Because
<1>3. CASE at'[d] \notin {"refused", "crashed", "failed"}
  BY <1>3 DEF Because
<1> QED  BY <1>2, <1>3

LEMMA CauseStep ==
    ASSUME OwnInv, DP!IInv, DP!OwnErrors, RefusedForCause, [Next]_vars
    PROVE  RefusedForCause'
<1> SUFFICES ASSUME NEW d \in Calls
             PROVE  Because(d)'
  BY DEF RefusedForCause, Because
<1>1. Because(d)
  BY DEF RefusedForCause, Because
<1> USE DEF OwnInv, OwnTypeOK
<1>2. ASSUME NEW c \in Calls, NEW m \in HookMap, Before(c, m) \/ After(c, m)
      PROVE  Because(d)'
  BY <1>1, <1>2, BecauseStands DEF Before, After, Ask
<1>3. ASSUME NEW c \in Calls, OwnBefore(c) \/ Pass(c) \/ RunTool(c)
      PROVE  Because(d)'
  BY <1>1, <1>3, BecauseStands DEF OwnBefore, Ask, Pass, RunTool, MoveTo
<1>4. ASSUME NEW c \in Calls, NextAfter(c)
      PROVE  Because(d)'
  BY <1>1, <1>4, BecauseStands DEF NextAfter, Ask, MoveTo
<1>5. ASSUME NEW c \in Calls, Refuse(c)
      PROVE  Because(d)'
  <2>1. served[<<c, at[c]>>] = "blocked" /\ at[c] \in {"wildBefore", "ownBefore"}
    BY <1>5, OwnAnswer DEF Refuse, DP!IInv
  <2>2. at'[c] = "refused" /\ served' = served
    BY <1>5 DEF Refuse, MoveTo, dispatchVars
  <2>3. CASE d = c
    BY <2>1, <2>2, <2>3 DEF Because
  <2>4. CASE d # c
    BY <1>1, <1>5, <2>4, BecauseStands DEF Refuse, MoveTo
  <2> QED  BY <2>3, <2>4
<1>6. ASSUME NEW c \in Calls, Fail(c)
      PROVE  Because(d)'
  <2>1. at[c] \in Stage /\ served[<<c, at[c]>>] = "error"
    BY <1>6 DEF Fail, Answered, DP!OwnErrors, Request
  <2>2. /\ at'[c] = IF at[c] \in {"wildBefore", "ownBefore"} THEN "crashed" ELSE "failed"
        /\ served' = served
    BY <1>6 DEF Fail, MoveTo, dispatchVars
  <2>3. CASE d = c
    BY <2>1, <2>2, <2>3 DEF Because
  <2>4. CASE d # c
    BY <1>1, <1>6, <2>4, BecauseStands DEF Fail, MoveTo
  <2> QED  BY <2>3, <2>4
<1>7. CASE \/ \E c \in Calls : EntryExpires(c)
           \/ \E s \in Session : DeleteSession(s)
           \/ \E k \in Key : Work(k)
           \/ Rest \/ UNCHANGED vars
  BY <1>1, <1>7, BecauseStands DEF EntryExpires, DeleteSession, Work, Rest, vars, toolVars
<1> QED  BY <1>2, <1>3, <1>4, <1>5, <1>6, <1>7, ToolCallsAssumption DEF Next, Resume

\* A call is refused, or its handler throws, only for what its own hooks did:
\* a failing hook of one call of a session breaks no other call.
THEOREM Causes == Spec => []RefusedForCause
<1>1. Init => RefusedForCause
  BY DEF Init, RefusedForCause
<1>2. Spec => []DP!IInv /\ []DP!OwnErrors
  BY UsesDispatch, DispatchConstants, DP!Invariance, DP!ErrorsAreOwn, PTL
<1> QED  BY <1>1, <1>2, OwnInvariant, CauseStep, PTL DEF Spec
=============================================================================
