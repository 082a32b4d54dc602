------------------------------ MODULE Dispatch ------------------------------
(***************************************************************************)
(* dispatchHooks of core/runtime/dispatch.ts: single flight per dispatch   *)
(* key with a queue of parked requests, drained by the call that started.  *)
(*                                                                         *)
(* JavaScript runs one piece of code at a time and other code runs only at *)
(* an await, so each action below is the code between two awaits.          *)
(* dispatchStates has an entry for key k, with active set, iff             *)
(* runner[k] # NoRequest; the entry's pending array is pending[k].         *)
(***************************************************************************)
EXTENDS Naturals, Sequences

CONSTANTS
    Request,      \* every call of dispatchHooks made in a run
    Key,          \* dispatch keys, `${event}:${sessionID}`
    KeyOf,        \* [Request -> Key]
    Blocking,     \* keys dispatched with options.canBlock (tool.before.*)
    HookMap,      \* the hook maps loaded over time
    Hooks,        \* [HookMap -> [Key -> Nat]]: size of each event's bucket
    NoRequest

ASSUME DispatchAssumption ==
    /\ KeyOf \in [Request -> Key]
    /\ Blocking \subseteq Key
    /\ Hooks \in [HookMap -> [Key -> Nat]]
    /\ NoRequest \notin Request

VARIABLES
    pending,      \* [Key -> Seq(Request)]: parked requests
    runner,       \* [Key -> Request]: the call that owns the active entry
    current,      \* [Key -> Request]: the request being executed
    nextHook,     \* [Key -> Nat]: hooks of the current request already run
    verdict,      \* [Key -> Outcome]: what they came to so far
    hookMap,      \* [Key -> HookMap]: the map the runner was called with
    called,       \* the calls made so far (history)
    served,       \* [Request -> Outcome]: what executing the request gave
    answer        \* [Request -> Outcome]: what the caller's promise resolved to

vars == <<pending, runner, current, nextHook, verdict, hookMap, called, served, answer>>

Outcome == {"ok", "blocked", "error"}

NotYet == "none"

TypeOK ==
    /\ pending  \in [Key -> Seq(Request)]
    /\ runner   \in [Key -> Request \cup {NoRequest}]
    /\ current  \in [Key -> Request \cup {NoRequest}]
    /\ nextHook \in [Key -> Nat]
    /\ verdict  \in [Key -> Outcome]
    /\ hookMap  \in [Key -> HookMap \cup {NotYet}]
    /\ called   \subseteq Request
    /\ served   \in [Request -> Outcome \cup {NotYet}]
    /\ answer   \in [Request -> Outcome \cup {NotYet}]

Init ==
    /\ pending  = [k \in Key |-> <<>>]
    /\ runner   = [k \in Key |-> NoRequest]
    /\ current  = [k \in Key |-> NoRequest]
    /\ nextHook = [k \in Key |-> 0]
    /\ verdict  = [k \in Key |-> "ok"]
    /\ hookMap  = [k \in Key |-> NotYet]
    /\ called   = {}
    /\ served   = [r \in Request |-> NotYet]
    /\ answer   = [r \in Request |-> NotYet]

\* The bucket captured by the closure that runs the requests of key k: the
\* one selected by the call that started, for drained requests as well.
Bucket(k) == Hooks[hookMap[k]][k]

------------------------------------------------------------------------------
\* dispatchHooks up to its first await, called with hook map m.

\* No hook is registered for the event: nothing is touched.
Skip(r, m) ==
    /\ Hooks[m][KeyOf[r]] = 0
    /\ served' = [served EXCEPT ![r] = "ok"]
    /\ answer' = [answer EXCEPT ![r] = "ok"]
    /\ UNCHANGED <<pending, runner, current, nextHook, verdict, hookMap>>

\* Variant: every parked call is answered at once, blocking or not.
ParkWithoutPromise(r, m) ==
    LET k == KeyOf[r] IN
    /\ Hooks[m][k] > 0
    /\ runner[k] # NoRequest
    /\ pending' = [pending EXCEPT ![k] = Append(@, r)]
    /\ answer' = [answer EXCEPT ![r] = "ok"]
    /\ UNCHANGED <<runner, current, nextHook, verdict, hookMap, served>>

\* Variant: a busy key drops what nobody waits for.
ParkDrops(r, m) ==
    LET k == KeyOf[r] IN
    /\ Hooks[m][k] > 0
    /\ runner[k] # NoRequest
    /\ pending' = IF k \in Blocking THEN [pending EXCEPT ![k] = Append(@, r)] ELSE pending
    /\ answer' = IF k \in Blocking THEN answer ELSE [answer EXCEPT ![r] = "ok"]
    /\ UNCHANGED <<runner, current, nextHook, verdict, hookMap, served>>

\* The key is active: park.  Only a blocking call gets a promise to wait on.
Park(r, m) ==
    LET k == KeyOf[r] IN
    /\ Hooks[m][k] > 0
    /\ runner[k] # NoRequest
    /\ pending' = [pending EXCEPT ![k] = Append(@, r)]
    /\ answer' = IF k \in Blocking THEN answer ELSE [answer EXCEPT ![r] = "ok"]
    /\ UNCHANGED <<runner, current, nextHook, verdict, hookMap, served>>

Start(r, m) ==
    LET k == KeyOf[r] IN
    /\ Hooks[m][k] > 0
    /\ runner[k] = NoRequest
    /\ runner'   = [runner EXCEPT ![k] = r]
    /\ hookMap'  = [hookMap EXCEPT ![k] = m]
    /\ current'  = [current EXCEPT ![k] = r]
    /\ nextHook' = [nextHook EXCEPT ![k] = 0]
    /\ verdict'  = [verdict EXCEPT ![k] = "ok"]
    /\ UNCHANGED <<pending, served, answer>>

Call(r, m) ==
    /\ r \notin called
    /\ called' = called \cup {r}
    /\ Skip(r, m) \/ Park(r, m) \/ Start(r, m)

------------------------------------------------------------------------------
\* executeDispatchRequest: the hooks run in order until one blocks (where
\* that is allowed) or an action rejects.
Executing(k) ==
    /\ current[k] # NoRequest
    /\ verdict[k] = "ok"
    /\ nextHook[k] < Bucket(k)

\* Variant: the hook counter runs the wrong way.
RunHookBackwards(k) ==
    /\ Executing(k)
    /\ nextHook' = [nextHook EXCEPT ![k] = @ - 1]
    /\ UNCHANGED <<pending, runner, current, hookMap, verdict, called, served, answer>>

RunHook(k) ==
    /\ Executing(k)
    /\ nextHook' = [nextHook EXCEPT ![k] = @ + 1]
    /\ \E o \in Outcome :
          /\ o = "blocked" => k \in Blocking
          /\ verdict' = [verdict EXCEPT ![k] = o]
    /\ UNCHANGED <<pending, runner, current, hookMap, called, served, answer>>

\* Variant: a parked caller whose hooks reject is not told.
ToldWithoutReject(k) ==
    (IF current[k] # runner[k] /\ k \in Blocking /\ verdict[k] # "error"
     THEN {current[k]} ELSE {})
      \cup (IF pending[k] = <<>> THEN {runner[k]} ELSE {})

\* The callers told the result when the current request of k settles: the one
\* parked with a promise, and the runner itself once the queue is drained.
Told(k) ==
    (IF current[k] # runner[k] /\ k \in Blocking THEN {current[k]} ELSE {})
      \cup (IF pending[k] = <<>> THEN {runner[k]} ELSE {})

\* The current request of k settles and whoever waits for it is told.
Conclude(k) ==
    /\ current[k] # NoRequest
    /\ ~Executing(k)
    /\ served' = [served EXCEPT ![current[k]] = verdict[k]]
    /\ answer' = [x \in Request |-> IF x \in Told(k) THEN served'[x] ELSE answer[x]]
    /\ nextHook' = [nextHook EXCEPT ![k] = 0]
    /\ verdict'  = [verdict EXCEPT ![k] = "ok"]
    /\ UNCHANGED called

\* The dispatch entry of k is deleted.
Release(k) ==
    /\ runner'  = [runner EXCEPT ![k] = NoRequest]
    /\ current' = [current EXCEPT ![k] = NoRequest]
    /\ hookMap' = [hookMap EXCEPT ![k] = NotYet]
    /\ UNCHANGED pending

\* Variant: the entry is deleted although requests parked meanwhile.
SettleDeletesEarly(k) == Conclude(k) /\ Release(k)

\* Variant: the next request is read but not shifted off the queue.
SettlePeeks(k) ==
    /\ Conclude(k)
    /\ IF pending[k] = <<>> \/ current[k] # runner[k]
       THEN Release(k)
       ELSE /\ current' = [current EXCEPT ![k] = Head(pending[k])]
            /\ UNCHANGED <<runner, hookMap, pending>>

\* Variant: the queue is popped from the wrong end.
SettlePops(k) ==
    /\ Conclude(k)
    /\ IF pending[k] = <<>>
       THEN Release(k)
       ELSE LET n == Len(pending[k]) IN
            /\ current' = [current EXCEPT ![k] = pending[k][n]]
            /\ pending' = [pending EXCEPT ![k] = SubSeq(@, 1, n - 1)]
            /\ UNCHANGED <<runner, hookMap>>

\* The await of executeDispatchRequest resumes: the request settles and the
\* next parked one is shifted and started, or the entry is deleted and the
\* runner returns (rethrowing its own error only).
Settle(k) ==
    /\ Conclude(k)
    /\ IF pending[k] = <<>>
       THEN Release(k)
       ELSE /\ current' = [current EXCEPT ![k] = Head(pending[k])]
            /\ pending' = [pending EXCEPT ![k] = Tail(@)]
            /\ UNCHANGED <<runner, hookMap>>

------------------------------------------------------------------------------
AllAnswered == \A r \in Request : served[r] # NotYet /\ answer[r] # NotYet

\* The environment has no further event: the program rests.
Rest == AllAnswered /\ UNCHANGED vars

Next ==
    \/ \E r \in Request, m \in HookMap : Call(r, m)
    \/ \E k \in Key : RunHook(k) \/ Settle(k)
    \/ Rest

Spec == Init /\ [][Next]_vars

\* Every hook action ends (bash has a timeout, host calls return) and an
\* await whose promise is settled resumes: the event loop is fair to both.
\* Nothing makes the environment call.
Fairness == \A k \in Key : WF_vars(RunHook(k)) /\ WF_vars(Settle(k))

FairSpec == Spec /\ Fairness

------------------------------------------------------------------------------
(* Properties. *)

\* Where request r is: it is parked at most once, and only under its own key.
Parked(r) == {i \in 1..Len(pending[KeyOf[r]]) : pending[KeyOf[r]][i] = r}

\* Conservation: a call that was made is in exactly one place -- parked at one
\* position, being executed, or served -- so the park, shift and delete steps
\* of dispatchHooks neither lose nor repeat a request.
ExactlyOnePlace ==
    \A r \in Request :
        LET running == current[KeyOf[r]] = r
            done    == served[r] # NotYet
        IN  /\ r \in called =>
                 \/ running /\ ~done /\ Parked(r) = {}
                 \/ ~running /\ done /\ Parked(r) = {}
                 \/ /\ ~running /\ ~done
                    /\ \E i \in Parked(r) : Parked(r) = {i}
            /\ r \notin called => ~running /\ ~done /\ Parked(r) = {}

\* No request waits under a key whose entry is gone: the deletion of the
\* dispatch state never strands one that parked before it.
NobodyStranded ==
    \A k \in Key : pending[k] # <<>> => runner[k] # NoRequest /\ current[k] # NoRequest

\* A pre-tool caller is never let through, nor refused, on anything but what
\* its own hooks gave; an error of one request reaches no other caller.
HonestAnswer ==
    \A r \in Request :
        (KeyOf[r] \in Blocking /\ answer[r] # NotYet) => answer[r] = served[r]

\* Every call is served and its caller answered, whatever the hooks of other
\* requests of the key do.
EveryCallServed ==
    \A r \in Request : (r \in called) ~> (served[r] # NotYet /\ answer[r] # NotYet)

------------------------------------------------------------------------------
(* Refinement: the line of a key is the request being executed followed by *)
(* the parked ones.                                                        *)
Line == [k \in Key |-> IF current[k] = NoRequest
                       THEN <<>>
                       ELSE <<current[k]>> \o pending[k]]

Service == INSTANCE HookService WITH line <- Line

ImplementsService == Service!SSpec
=============================================================================
