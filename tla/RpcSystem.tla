----------------------------- MODULE RpcSystem -----------------------------
(* A client's session table, servers that run the requests, and a network     *)
(* between them that loses, repeats, delays and reorders what it is given:    *)
(* RpcSessionManager with the other end of its calls. The client's process    *)
(* may die and start again, while the messages of its former life are still   *)
(* on their way.                                                              *)
EXTENDS RpcSessionManager

CONSTANTS
  RestartSeqs,  \* the sequence parts Init may draw when the client restarts
  MaxRestarts   \* bound

ASSUME RestartAssumption == /\ RestartSeqs \subseteq 0 .. SeqSpan - 1
                            /\ MaxRestarts \in Nat

VARIABLES
  requests,   \* the requests ever sent: the call, and the endpoint's index
  responses,  \* the responses ever sent, each with the call it answers
  restarts,   \* how often the client has restarted (history)
  first,      \* next_rpc_id as Init left it (history)
  former,     \* the ids drawn before the last restart (history)
  clash,      \* an id was drawn again before the last restart (history)
  abandoned   \* calls that were open when the client died (history)

network == <<requests, responses>>
lives == <<restarts, first, former, clash, abandoned>>
systemVars == <<vars, network, lives>>

-----------------------------------------------------------------------------
Issued(c) == idOf[c] # 0
DrawnIds == {CoreBase + ((first - CoreBase + k) % SeqSpan) : k \in 1 .. drawn}

\* No id was drawn twice, in one life of the client or in two.
IdsDistinct == ~clash /\ former \cap DrawnIds = {} /\ drawn <= SeqSpan

SystemInit ==
  /\ Init
  /\ requests = {}
  /\ responses = {}
  /\ restarts = 0
  /\ first = next_rpc_id
  /\ former = {}
  /\ clash = FALSE
  /\ abandoned = {}

\* What on_send_request_ was called for in this step goes out.
OnOutgoingRpcSend ==
  requests' = requests \cup
    {[call |-> c, endpoint |-> tried'[c][Len(tried'[c])]] :
       c \in {d \in Calls : tried'[d] # tried[d]}}

\* The client's own steps. FinishDone is the end of the handler before it.
ClientStep ==
  /\ \/ \E c \in Calls : AddSession(c) \/ SendEnds(c) \/ OnSendRequestFailed(c)
     \/ \E due \in SUBSET armed : Tick(due)
     \/ \E n \in Nodes : OnSessionTimeout(n)
     \/ FinishDone
  /\ OnOutgoingRpcSend
  /\ UNCHANGED <<responses, lives>>

\* A server receives a request, runs the service and answers: at once, much
\* later, or again.
Serve(request, result) ==
  /\ responses' = responses \cup {[call |-> request.call, result |-> result]}
  /\ UNCHANGED <<vars, requests, lives>>

\* A response arrives. One that lacks a required field does not parse.
Deliver(r) ==
  /\ \E parses \in BOOLEAN : OnRecvResponse(r.call, parses, r.result)
  /\ UNCHANGED <<network, lives>>

\* The client's process dies and starts again: the pool, the timers and the
\* sends in progress are gone, and Init draws another start.
Restart ==
  /\ restarts < MaxRestarts
  /\ \E s \in RestartSeqs : next_rpc_id' = CoreBase + s
  /\ first' = next_rpc_id'
  /\ restarts' = restarts + 1
  /\ former' = former \cup DrawnIds
  /\ clash' = ~IdsDistinct
  /\ abandoned' = abandoned \cup {c \in Calls : Issued(c) /\ outcome[c] = << >>}
  /\ drawn' = 0
  /\ pool' = [n \in Nodes |-> [rpc_id |-> 0, call |-> NoCall, endpoint_index |-> 0]]
  /\ armed' = {}
  /\ fired' = {}
  /\ completing' = Idle
  /\ inflight' = {}
  /\ UNCHANGED <<called, idOf, tried, outcome, response, expired, network>>

SystemNext ==
  \/ ClientStep
  \/ \E request \in requests, result \in PeerResults : Serve(request, result)
  \/ \E r \in responses : Deliver(r)
  \/ Restart

SystemSpec == SystemInit /\ [][SystemNext]_systemVars

-----------------------------------------------------------------------------
(* Properties *)

\* While ids are distinct, a call is never ended by the response to another
\* one, not even to a call of the process that died.
RepliesMatchAcrossLives ==
  IdsDistinct =>
    \A c \in Calls : \A k \in 1 .. Len(outcome[c]) :
      outcome[c][k].by \in {NoCall, c}

-----------------------------------------------------------------------------
(* The inductive invariant behind RepliesMatchAcrossLives and the promise     *)
(* below, next to the session table's own IInv.                               *)

SystemTypeOK ==
  /\ requests \subseteq [call : Calls, endpoint : 0 .. IndexSpan - 1]
  /\ responses \subseteq [call : Calls, result : PeerResults]
  /\ restarts \in Nat
  /\ first \in RpcIds
  /\ former \subseteq RpcIds
  /\ clash \in BOOLEAN
  /\ abandoned \subseteq Calls

\* The last id drawn is as far from the first as draws were made.
CountedFromFirst == next_rpc_id = CoreBase + ((first - CoreBase + drawn) % SeqSpan)

\* A call's id was drawn, in this life or in a former one.
IdsWereDrawn == \A c \in Calls : Issued(c) => idOf[c] \in former \cup DrawnIds

CallsHaveOwnIds ==
  IdsDistinct => \A c, d \in Calls : Issued(c) /\ idOf[c] = idOf[d] => c = d

\* Only calls with an id are served and answered.
ServedCallsIssued == \A m \in requests \cup responses : Issued(m.call)

\* A call that died with its process has an id, no outcome and no node.
AbandonedStayOpen ==
  /\ \A c \in abandoned : Issued(c) /\ outcome[c] = << >>
  /\ \A n \in Nodes : Occupied(n) => pool[n].call \notin abandoned

\* Only a restart forgets a call: in every life of the client, calls that are
\* neither decided nor abandoned have a node and a timer that will end them.
OnlyRestartForgets == Forgotten \subseteq abandoned

\* Ids, messages and abandoned calls of all lives of the client agree with what
\* its session table drew, sent and lost in a restart.
SystemInv ==
  /\ SystemTypeOK
  /\ CountedFromFirst
  /\ IdsWereDrawn
  /\ CallsHaveOwnIds
  /\ ServedCallsIssued
  /\ AbandonedStayOpen
  /\ OnlyRestartForgets
  /\ RepliesMatchAcrossLives

-----------------------------------------------------------------------------
StateOf(c) ==
  CASE c \in abandoned -> "abandoned"
    [] outcome[c] # << >> -> IF Issued(c) THEN "ended" ELSE "refused"
    [] OTHER -> IF Issued(c) THEN "open" ELSE "idle"

States == [c \in Calls |-> StateOf(c)]
Produced == [c \in Calls |-> {r.result : r \in {q \in responses : q.call = c}}]

Remote == INSTANCE RemoteCall WITH
  state <- States, produced <- Produced, verdict <- Verdict

\* The client and the servers keep RemoteCall's promise, until the client draws
\* an id again.
ImplementsRemoteCall ==
  Remote!Init /\ [][Remote!Next \/ ~IdsDistinct]_(Remote!vars)
=============================================================================
