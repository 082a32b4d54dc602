------------------------- MODULE IdleChangesProofs -------------------------
(***************************************************************************)
(* Proofs about IdleChanges, for every set of changes, idle events, hook   *)
(* maps and number of agent runs: it uses the dispatcher only through its  *)
(* operations, it is well typed, and idle events that do not overlap never *)
(* lose nor repeat a change.                                               *)
(***************************************************************************)
EXTENDS IdleChanges, TLAPS

DP == INSTANCE DispatchProofs WITH Request <- Idle, Blocking <- {}

(* The dispatcher underneath. *)

LEMMA DispatchConstants == DP!DispatchAssumption
  BY IdleAssumption DEF DP!DispatchAssumption, Key, KeyOf

\* Every step of the session is a step of the dispatcher or none at all, so
\* what is proved of Dispatch holds here.
THEOREM UsesDispatch == Spec => DP!Spec
<1>1. Init => DP!Init
  BY DEF Init, D!Init, DP!Init, D!NotYet, DP!NotYet
<1>2. [Next]_vars => [DP!Next]_(DP!vars)
  <2> SUFFICES ASSUME [Next]_vars
               PROVE  [DP!Next]_(DP!vars)
    OBVIOUS
  <2> USE DEF dispatchVars
  <2>1. ASSUME NEW i \in Idle, NEW m \in HookMap, IdleEvent(i, m)
        PROVE  DP!Next
    <3>1. DP!Call(i, m)
      BY <2>1 DEF IdleEvent, D!Call, DP!Call, D!Skip, DP!Skip, D!Park, DP!Park, D!Start, DP!Start
    <3> QED  BY <3>1 DEF DP!Next
  <2>2. ASSUME NEW k \in Key, Work(k)
        PROVE  DP!Next
    <3>1. DP!RunHook(k) \/ DP!Settle(k)
      BY <2>2 DEF Work, D!RunHook, DP!RunHook, D!Settle, DP!Settle, D!Executing, DP!Executing,
           D!Bucket, DP!Bucket, D!Conclude, DP!Conclude, D!Release, DP!Release,
           D!Told, DP!Told, D!Outcome, DP!Outcome, D!NotYet, DP!NotYet
    <3> QED  BY <3>1 DEF DP!Next
  <2>3. ASSUME \/ AgentStart \/ AgentStop
               \/ \E C \in SUBSET Change : ToolChanged(C)
               \/ \E i \in Idle : Consume(i) \/ HostDied(i)
               \/ Rest \/ UNCHANGED vars
        PROVE  UNCHANGED DP!vars
    BY <2>3 DEF AgentStart, AgentStop, ToolChanged, Consume, HostDied, Over, Rest, vars, DP!vars
  <2> QED  BY <2>1, <2>2, <2>3 DEF Next
<1> QED  BY <1>1, <1>2, PTL DEF Spec, DP!Spec

------------------------------------------------------------------------------
(* The types of the module's own state. *)

OwnTypeOK ==
    /\ running \in BOOLEAN /\ runs \in 0..MaxRuns /\ dispatched \in BOOLEAN
    /\ changes \subseteq Change
    /\ active \subseteq Change
    /\ replayed \subseteq Change
    /\ snapshot \in [Idle -> SUBSET Change]
    /\ handler \in [Idle -> {"new", "waiting", "over"}]
    /\ owed \subseteq Change
    /\ since \in [Idle -> SUBSET Change]

LEMMA InitTypes == Init => OwnTypeOK
<1> SUFFICES ASSUME Init PROVE OwnTypeOK
  OBVIOUS
<1>1. runs \in 0..MaxRuns
  BY IdleAssumption, SMT DEF Init
<1>2. running \in BOOLEAN /\ dispatched \in BOOLEAN
  BY Zenon DEF Init
<1>3. /\ changes \subseteq Change /\ active \subseteq Change /\ replayed \subseteq Change
      /\ snapshot \in [Idle -> SUBSET Change]
      /\ handler \in [Idle -> {"new", "waiting", "over"}]
      /\ owed \subseteq Change
      /\ since \in [Idle -> SUBSET Change]
  BY SMT DEF Init
<1> QED  BY <1>1, <1>2, <1>3 DEF OwnTypeOK

LEMMA OwnTypes == Spec => []OwnTypeOK
<1>1. Init => OwnTypeOK
  BY InitTypes
<1>2. OwnTypeOK /\ [Next]_vars => OwnTypeOK'
  <2> SUFFICES ASSUME OwnTypeOK, [Next]_vars
               PROVE  OwnTypeOK'
    OBVIOUS
  <2> USE DEF OwnTypeOK, recordVars, handlerVars, ghostVars, agentVars
  <2>1. CASE AgentStart
    <3>1. runs' \in 0..MaxRuns
      BY <2>1, IdleAssumption, SMT DEF AgentStart
    <3>2. running' \in BOOLEAN /\ dispatched' \in BOOLEAN
      BY <2>1, Zenon DEF AgentStart
    <3>3. UNCHANGED <<recordVars, handlerVars, ghostVars>>
      BY <2>1 DEF AgentStart
    <3> QED  BY <3>1, <3>2, <3>3
  <2>2. CASE AgentStop
    BY <2>2 DEF AgentStop
  <2>3. ASSUME NEW C \in SUBSET Change, ToolChanged(C)
        PROVE  OwnTypeOK'
    BY <2>3 DEF ToolChanged, AddFileChanges
  <2>4. ASSUME NEW i \in Idle, NEW m \in HookMap, IdleEvent(i, m)
        PROVE  OwnTypeOK'
    BY <2>4 DEF IdleEvent, BeginIdleDispatch
  <2>5. ASSUME NEW i \in Idle, Consume(i)
        PROVE  OwnTypeOK'
    BY <2>5 DEF Consume, ConsumeFileChanges, Over
  <2>6. ASSUME NEW i \in Idle, HostDied(i)
        PROVE  OwnTypeOK'
    BY <2>6 DEF HostDied, CancelIdleDispatch, Over
  <2>7. ASSUME NEW k \in Key, Work(k)
        PROVE  OwnTypeOK'
    BY <2>7 DEF Work
  <2>8. CASE Rest \/ UNCHANGED vars
    BY <2>8 DEF Rest, vars
  <2> QED  BY <2>1, <2>2, <2>3, <2>4, <2>5, <2>6, <2>7, <2>8 DEF Next
<1> QED  BY <1>1, <1>2, PTL DEF Spec

\* Every reachable state of the idle protocol and of the dispatcher under it
\* is well typed.
THEOREM TypeCorrect == Spec => []TypeOK
<1>1. Spec => []DP!TypeOK
  BY UsesDispatch, DispatchConstants, DP!TypeCorrect, PTL
<1>2. DP!TypeOK /\ OwnTypeOK => TypeOK
  BY DEF TypeOK, OwnTypeOK, D!TypeOK, DP!TypeOK, D!Outcome, DP!Outcome, D!NotYet, DP!NotYet
<1> QED  BY <1>1, <1>2, OwnTypes, PTL

------------------------------------------------------------------------------
(* The changes.  That the pending changes are those owed is not inductive: *)
(* to consume a snapshot correctly, the marks must be exactly what was     *)
(* changed since it was taken.                                             *)

\* There is at most one idle dispatch; it tracks its own snapshot, which is
\* still pending, and has marked what was changed again.
Tracking ==
    /\ \A i, j \in Waiting : i = j
    /\ \A i \in Waiting :
          /\ snapshot[i] = active
          /\ active \subseteq changes
          /\ replayed = since[i] \cap active
    /\ Waiting = {} => active = {} /\ replayed = {}

IInv == OwnTypeOK /\ ChangesAreOwed /\ Tracking

\* Idle events that do not overlap: every change is offered to the idle hooks
\* until one dispatch that began after it has settled, and no longer.
THEOREM NothingLostNorRepeated ==
    ASSUME ~Overlap
    PROVE  Spec => []ChangesAreOwed
<1>1. Init => IInv
  BY InitTypes, SMT DEF Init, IInv, ChangesAreOwed, Tracking, Waiting
<1>2. IInv /\ OwnTypeOK' /\ [Next]_vars => IInv'
  <2> SUFFICES ASSUME IInv, OwnTypeOK', [Next]_vars
               PROVE  (ChangesAreOwed /\ Tracking)'
    BY DEF IInv
  <2> USE DEF IInv, ChangesAreOwed, Tracking, Waiting, recordVars, handlerVars, ghostVars
  <2>1. CASE AgentStart \/ AgentStop
    BY <2>1 DEF AgentStart, AgentStop
  <2>2. ASSUME NEW C \in SUBSET Change, ToolChanged(C)
        PROVE  (ChangesAreOwed /\ Tracking)'
    BY <2>2 DEF ToolChanged, AddFileChanges, OwnTypeOK
  <2>3. ASSUME NEW i \in Idle, NEW m \in HookMap, IdleEvent(i, m)
        PROVE  (ChangesAreOwed /\ Tracking)'
    <3>1. Waiting = {}
      BY <2>3 DEF IdleEvent
    <3>2. \A j \in Idle : handler'[j] = "waiting" => j = i
      BY <2>3, <3>1 DEF IdleEvent, OwnTypeOK
    <3>3. snapshot'[i] = changes /\ since'[i] = {} /\ active' = changes /\ replayed' = {}
      BY <2>3 DEF IdleEvent, BeginIdleDispatch, OwnTypeOK
    <3>4. changes' = changes /\ owed' = owed /\ handler'[i] = "waiting"
      BY <2>3 DEF IdleEvent, BeginIdleDispatch, OwnTypeOK
    <3> QED  BY <3>2, <3>3, <3>4
  <2>4. ASSUME NEW i \in Idle, Consume(i)
        PROVE  (ChangesAreOwed /\ Tracking)'
    <3>1. i \in Waiting /\ Waiting' = {}
      BY <2>4 DEF Consume, Over, OwnTypeOK
    <3>2. changes' = (changes \ active) \cup (active \cap replayed)
      BY <2>4, <3>1 DEF Consume, ConsumeFileChanges
    <3>3. owed' = owed \ (active \ since[i])
      BY <2>4, <3>1 DEF Consume
    <3>4. changes' = owed'
      BY <3>1, <3>2, <3>3
    <3>5. active' = {} /\ replayed' = {}
      BY <2>4 DEF Consume, ConsumeFileChanges
    <3> QED  BY <3>1, <3>4, <3>5
  <2>5. ASSUME NEW i \in Idle, HostDied(i)
        PROVE  (ChangesAreOwed /\ Tracking)'
    <3>1. i \in Waiting /\ Waiting' = {}
      BY <2>5 DEF HostDied, Over, OwnTypeOK
    <3> QED  BY <2>5, <3>1 DEF HostDied, CancelIdleDispatch
  <2>6. CASE (\E k \in Key : Work(k)) \/ Rest \/ UNCHANGED vars
    BY <2>6 DEF Work, Rest, vars
  <2> QED  BY <2>1, <2>2, <2>3, <2>4, <2>5, <2>6 DEF Next
<1>3. IInv => ChangesAreOwed
  BY DEF IInv
<1> QED  BY <1>1, <1>2, <1>3, OwnTypes, PTL DEF Spec
=============================================================================
