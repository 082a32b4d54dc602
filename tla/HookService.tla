---------------------------- MODULE HookService ----------------------------
(***************************************************************************)
(* What dispatchHooks promises its callers, with its mechanism left out.   *)
(*                                                                         *)
(* For every key (an event of a session) there is one waiting line.  A     *)
(* request joins the end of the line of its key, the head of the line is   *)
(* served and leaves, and nothing else changes a line: requests of one key *)
(* are served one at a time, in arrival order, each exactly once.  Who     *)
(* asked gets one answer.  On a blocking key (tool.before) the answer is   *)
(* what serving the request gave; on any other key a caller who found      *)
(* someone else being served is told "ok" at once and not made to wait.    *)
(***************************************************************************)
EXTENDS Naturals, Sequences

CONSTANTS
    Request,      \* every call of dispatchHooks
    Key,          \* event:sessionID
    KeyOf,        \* [Request -> Key]
    Blocking      \* the keys whose event can block (tool.before)

Outcome == {"ok", "blocked", "error"}

VARIABLES
    line,         \* [Key -> Seq(Request)]: the head is being served
    served,       \* [Request -> Outcome \cup {"none"}]
    answer        \* [Request -> Outcome \cup {"none"}]

svars == <<line, served, answer>>

SInit ==
    /\ line   = [k \in Key |-> <<>>]
    /\ served = [r \in Request |-> "none"]
    /\ answer = [r \in Request |-> "none"]

Unknown(r) ==
    /\ served[r] = "none"
    /\ \A i \in 1..Len(line[KeyOf[r]]) : line[KeyOf[r]][i] # r

\* A request that no hook is configured for is answered without being served.
Decline(r) ==
    /\ Unknown(r)
    /\ answer[r] = "none"
    /\ served' = [served EXCEPT ![r] = "ok"]
    /\ answer' = [answer EXCEPT ![r] = "ok"]
    /\ UNCHANGED line

\* A request joins the line.  Only a non-blocking one may be answered now.
Arrive(r) ==
    /\ Unknown(r)
    /\ answer[r] = "none"
    /\ line' = [line EXCEPT ![KeyOf[r]] = Append(@, r)]
    /\ answer' \in {answer} \cup
         (IF KeyOf[r] \in Blocking \/ line[KeyOf[r]] = <<>>
          THEN {} ELSE {[answer EXCEPT ![r] = "ok"]})
    /\ UNCHANGED served

\* The callers in A get the result of their own, already served, request.
Reply(A) ==
    /\ A \subseteq {r \in Request : served'[r] # "none" /\ answer[r] = "none"}
    /\ answer' = [r \in Request |-> IF r \in A THEN served'[r] ELSE answer[r]]

\* The head of a line is served; only a blocking key may report "blocked".
Serve(k) ==
    /\ line[k] # <<>>
    /\ \E o \in Outcome :
          /\ o = "blocked" => k \in Blocking
          /\ served' = [served EXCEPT ![Head(line[k])] = o]
    /\ line' = [line EXCEPT ![k] = Tail(@)]
    /\ \E A \in SUBSET Request : Reply(A)

SNext ==
    \/ \E r \in Request : Decline(r) \/ Arrive(r)
    \/ \E k \in Key : Serve(k)

SSpec == SInit /\ [][SNext]_svars
=============================================================================
