-------------------------- MODULE RpcSessionManager --------------------------
(* One worker's table of outgoing calls (rpc_session_manager.{h,cc}): a pool  *)
(* of nodes indexed by the low bits of the rpc id, one timer per node, and    *)
(* the four events that move a session: AddSession, a failed send, a          *)
(* response, the session timer.                                               *)
(*                                                                            *)
(* Everything here runs in one worker thread, so a handler is atomic except   *)
(* at one point: done(result) runs the application's closure, which may call  *)
(* AddSession again before the handler cancels the timer and frees the node.  *)
(* A handler that calls done is therefore two actions, the second one being   *)
(* FinishDone.                                                                *)
EXTENDS Integers, Sequences, FiniteSets

CONSTANTS
  Calls,        \* the calls the application may issue, each at most once
  NoCall,       \* the call of an empty node
  Endpoints,    \* Endpoints[c]: how many endpoints routing found for c
  Method,       \* Method[c]: the service and method name c calls
  PeerResults,  \* the results a server may answer with
  PoolSize,     \* 1 << pool_size_order_
  SeqSpan,      \* 1 << kRpcIdSeqPartBits (2^48)
  IndexSpan,    \* range of the uint16_t endpoint_index, and the longest list
                \* AddSession accepts: the source writes 65536 for both
  CoreId,       \* rpc_core_id of this worker
  StartSeqs,    \* the sequence parts Init may draw at random
  NestedCalls   \* whether a done closure may issue a call

Results == {"kSuccess", "kFailure", "kNoRoute", "kTimeout", "kNotImpl", "kInError"}

ASSUME CallsAssumption == NoCall \notin Calls
ASSUME EndpointsAssumption == Endpoints \in [Calls -> Nat \ {0}]
ASSUME PeerAssumption == PeerResults \subseteq Results
ASSUME PoolAssumption == PoolSize \in Nat \ {0}
ASSUME SpanAssumption == SeqSpan \in Nat \ {0} /\ IndexSpan \in Nat \ {0}
ASSUME CoreAssumption == CoreId \in Nat
ASSUME StartAssumption == StartSeqs \subseteq 0 .. SeqSpan - 1
ASSUME NestedAssumption == NestedCalls \in BOOLEAN
\* Both are powers of two, the pool's order being at most kRpcIdSeqPartBits.
ASSUME PowersAssumption == PoolSize <= SeqSpan /\ SeqSpan % PoolSize = 0

Nodes == 0 .. PoolSize - 1
NoNode == PoolSize

CoreBase == (CoreId + 1) * SeqSpan
RpcIds == CoreBase .. CoreBase + SeqSpan - 1

\* The core whose table OnRecvPacket looks a response's id up in.
DstCoreOf(id) == id \div SeqSpan - 1

VARIABLES
  next_rpc_id,  \* the last id drawn
  pool,         \* sess_pool_; rpc_id = 0 stands for an empty node
  armed,        \* nodes whose timer waits in the wheel
  fired,        \* nodes whose timer the current tick has collected: their
                \* closures will run, Cancel and ResetTimer come too late
  completing,   \* the node whose done closure is running, if any
  called,       \* calls handed to AddSession
  idOf,         \* id given to each call, 0 before
  tried,        \* endpoint indices each call's request was sent to, in order
  inflight,     \* calls with a send whose outcome hudp has not reported
  outcome,      \* the runs of each call's done closure, in order
  response,     \* what was done to each call's response message
  expired,      \* calls whose own timer was collected (history)
  drawn         \* how many ids were drawn (history)

vars == <<next_rpc_id, pool, armed, fired, completing, called, idOf, tried,
          inflight, outcome, response, expired, drawn>>

NodeState == [rpc_id : {0} \cup RpcIds, call : Calls \cup {NoCall},
              endpoint_index : 0 .. IndexSpan - 1]
\* by: the call whose response ended the session, NoCall if none did.
Outcomes == [result : Results, by : Calls \cup {NoCall}]

TypeOK ==
  /\ next_rpc_id \in RpcIds
  /\ pool \in [Nodes -> NodeState]
  /\ armed \subseteq Nodes
  /\ fired \subseteq Nodes
  /\ completing \in [node : Nodes \cup {NoNode}, cancel : BOOLEAN]
  /\ called \subseteq Calls
  /\ idOf \in [Calls -> {0} \cup RpcIds]
  /\ tried \in [Calls -> Seq(0 .. IndexSpan - 1)]
  /\ inflight \subseteq Calls
  /\ outcome \in [Calls -> Seq(Outcomes)]
  /\ response \in [Calls -> {"untouched", "garbled", "parsed"}]
  /\ expired \subseteq Calls
  /\ drawn \in Nat

-----------------------------------------------------------------------------
Idle == [node |-> NoNode, cancel |-> FALSE]
InDone == completing.node # NoNode
Occupied(n) == pool[n].rpc_id # 0

(* Operators named ...Slip are plausible slips of the definition that follows  *)
(* them. No specification uses one: they show that a property can fail.       *)

\* NextRpcId without its mask.
RpcIdAfterSlip(k) == next_rpc_id + k

\* NextRpcId, k times: the carry never reaches the core id's bits.
RpcIdAfter(k) == CoreBase + ((next_rpc_id - CoreBase + k) % SeqSpan)

\* rpc_id & pool_size_mask_
NodeOf(id) == id % PoolSize

\* An occupied node taken for the session, its id not compared.
FindSessionNodeSlip(id) == IF Occupied(NodeOf(id)) THEN NodeOf(id) ELSE NoNode

FindSessionNode(id) ==
  IF pool[NodeOf(id)].rpc_id = id THEN NodeOf(id) ELSE NoNode

\* A scan that leaves one node out.
ScanLengthSlip == PoolSize - 1

\* The scan of AllocSessionNode: it draws at most ScanLength ids and stops at
\* the first whose node is empty.
ScanLength == PoolSize
EmptyAt(k) == ~ Occupied(NodeOf(RpcIdAfter(k)))
FirstEmpty(k) == EmptyAt(k) /\ \A j \in 1 .. k - 1 : ~ EmptyAt(j)

\* The ResetTimer branch forgotten: a node used before gets no timer.
StartTimerSlip(n) ==
  IF \E c \in Calls : idOf[c] # 0 /\ NodeOf(idOf[c]) = n
    THEN armed ELSE armed \cup {n}

\* AddTimer on a node's first session, ResetTimer later: both leave it armed.
StartTimer(n) == armed \cup {n}

\* uint16_t increment
NextIndex(n) == (pool[n].endpoint_index + 1) % IndexSpan
\* <= for <, and the last endpoint left out.
HasNextEndpointSlip(n) == NextIndex(n) <= Endpoints[pool[n].call]
GivesUpEarlySlip(n) == NextIndex(n) + 1 < Endpoints[pool[n].call]

HasNextEndpoint(n) == NextIndex(n) < Endpoints[pool[n].call]

\* The node's rpc_id left as it is.
FreeSessionNodeSlip(n) == [pool EXCEPT ![n].endpoint_index = 0]

FreeSessionNode(n) ==
  [pool EXCEPT ![n] = [rpc_id |-> 0, call |-> NoCall,
                       endpoint_index |-> @.endpoint_index]]

\* done(result) starts on node n; what follows it in the handler is FinishDone.
RunDone(n, result, by, cancel) ==
  /\ outcome' = [outcome EXCEPT ![pool[n].call] =
                   Append(@, [result |-> result, by |-> by])]
  /\ completing' = [node |-> n, cancel |-> cancel]

-----------------------------------------------------------------------------
Init ==
  /\ next_rpc_id \in {CoreBase + s : s \in StartSeqs}
  /\ pool = [n \in Nodes |->
               [rpc_id |-> 0, call |-> NoCall, endpoint_index |-> 0]]
  /\ armed = {}
  /\ fired = {}
  /\ completing = Idle
  /\ called = {}
  /\ idOf = [c \in Calls |-> 0]
  /\ tried = [c \in Calls |-> << >>]
  /\ inflight = {}
  /\ outcome = [c \in Calls |-> << >>]
  /\ response = [c \in Calls |-> "untouched"]
  /\ expired = {}
  /\ drawn = 0

\* A worker runs one callback at a time: between the timer closures of a tick
\* nothing new starts, except from inside a done closure.
MayCall(c) ==
  /\ c \notin called
  /\ IF InDone THEN NestedCalls ELSE fired = {}

\* endpoint_list.size() > 65536: return false, done is never run.
RejectOversize(c) ==
  /\ MayCall(c)
  /\ Endpoints[c] > IndexSpan
  /\ called' = called \cup {c}
  /\ UNCHANGED <<next_rpc_id, pool, armed, fired, completing, idOf, tried,
                 inflight, outcome, response, expired, drawn>>

\* The request sent before a node is found for it.
PoolExhaustedSlip(c) ==
  /\ MayCall(c)
  /\ Endpoints[c] <= IndexSpan
  /\ \A k \in 1 .. ScanLength : ~ EmptyAt(k)
  /\ called' = called \cup {c}
  /\ next_rpc_id' = RpcIdAfter(ScanLength)
  /\ drawn' = drawn + ScanLength
  /\ outcome' = [outcome EXCEPT ![c] =
                   Append(@, [result |-> "kInError", by |-> NoCall])]
  /\ tried' = [tried EXCEPT ![c] = Append(@, 0)]
  /\ UNCHANGED <<pool, armed, fired, completing, idOf, inflight, response,
                 expired>>

\* The scan found no empty node: done(kInError).
PoolExhausted(c) ==
  /\ MayCall(c)
  /\ Endpoints[c] <= IndexSpan
  /\ \A k \in 1 .. ScanLength : ~ EmptyAt(k)
  /\ called' = called \cup {c}
  /\ next_rpc_id' = RpcIdAfter(ScanLength)
  /\ drawn' = drawn + ScanLength
  /\ outcome' = [outcome EXCEPT ![c] =
                   Append(@, [result |-> "kInError", by |-> NoCall])]
  /\ UNCHANGED <<pool, armed, fired, completing, idOf, tried, inflight,
                 response, expired>>

OpenSession(c, k) ==
  LET id == RpcIdAfter(k)
      n  == NodeOf(id)
  IN /\ MayCall(c)
     /\ Endpoints[c] <= IndexSpan
     /\ FirstEmpty(k)
     /\ called' = called \cup {c}
     /\ next_rpc_id' = id
     /\ drawn' = drawn + k
     /\ pool' = [pool EXCEPT ![n] =
                   [rpc_id |-> id, call |-> c, endpoint_index |-> 0]]
     /\ armed' = StartTimer(n)
     /\ idOf' = [idOf EXCEPT ![c] = id]
     /\ tried' = [tried EXCEPT ![c] = Append(@, 0)]
     /\ inflight' = inflight \cup {c}
     /\ UNCHANGED <<fired, completing, outcome, response, expired>>

AddSession(c) ==
  \/ RejectOversize(c)
  \/ PoolExhausted(c)
  \/ \E k \in 1 .. ScanLength : OpenSession(c, k)

\* hudp reports that the request sent for c was delivered, or nothing at all.
SendEnds(c) ==
  /\ c \in inflight
  /\ inflight' = inflight \ {c}
  /\ UNCHANGED <<next_rpc_id, pool, armed, fired, completing, called, idOf,
                 tried, outcome, response, expired, drawn>>

\* hudp reports that a send of c failed; this too may be a timer closure of
\* the same tick, so it may run while other timers are already collected.
NoSession(c) ==
  /\ FindSessionNode(idOf[c]) = NoNode
  /\ inflight' = inflight \ {c}
  /\ UNCHANGED <<pool, completing, tried, outcome>>

TryNextEndpoint(c) ==
  LET n == FindSessionNode(idOf[c])
      d == pool[n].call
  IN /\ n # NoNode
     /\ HasNextEndpoint(n)
     /\ pool' = [pool EXCEPT ![n].endpoint_index = NextIndex(n)]
     /\ tried' = [tried EXCEPT ![d] = Append(@, NextIndex(n))]
     /\ inflight' = (inflight \ {c}) \cup {d}
     /\ UNCHANGED <<completing, outcome>>

AllEndpointsFailed(c) ==
  LET n == FindSessionNode(idOf[c])
  IN /\ n # NoNode
     /\ ~ HasNextEndpoint(n)
     /\ pool' = [pool EXCEPT ![n].endpoint_index = NextIndex(n)]
     /\ RunDone(n, "kTimeout", NoCall, TRUE)
     /\ inflight' = inflight \ {c}
     /\ UNCHANGED tried

OnSendRequestFailed(c) ==
  /\ ~ InDone
  /\ c \in inflight
  /\ NoSession(c) \/ TryNextEndpoint(c) \/ AllEndpointsFailed(c)
  /\ UNCHANGED <<next_rpc_id, armed, fired, called, idOf, response, expired,
                 drawn>>

\* A response to c arrives: any number of times, however late. It is looked at
\* only if its id and its names are those of an open session.
NamesMatchSlip(c, n) == TRUE
NamesMatch(c, n) == Method[pool[n].call] = Method[c]

OnRecvResponse(c, parses, result) ==
  LET n == FindSessionNode(idOf[c])
  IN /\ ~ InDone
     /\ fired = {}
     /\ idOf[c] # 0
     /\ n # NoNode
     /\ NamesMatch(c, n)
     /\ IF parses
          THEN /\ response' = [response EXCEPT ![pool[n].call] = "parsed"]
               /\ RunDone(n, result, c, TRUE)
          ELSE /\ response' = [response EXCEPT ![pool[n].call] = "garbled"]
               /\ UNCHANGED <<outcome, completing>>
     /\ UNCHANGED <<next_rpc_id, pool, armed, fired, called, idOf, tried,
                    inflight, expired, drawn>>

\* The wheel collects the timers that are due, then runs their closures.
Tick(due) ==
  /\ ~ InDone
  /\ fired = {}
  /\ due # {}
  /\ armed' = armed \ due
  /\ fired' = due
  /\ expired' = expired \cup {pool[n].call : n \in {m \in due : Occupied(m)}}
  /\ UNCHANGED <<next_rpc_id, pool, completing, called, idOf, tried, inflight,
                 outcome, response, drawn>>

OnSessionTimeout(n) ==
  /\ ~ InDone
  /\ n \in fired
  /\ fired' = fired \ {n}
  /\ IF Occupied(n)
       THEN RunDone(n, "kTimeout", NoCall, FALSE)
       ELSE UNCHANGED <<outcome, completing>>
  /\ UNCHANGED <<next_rpc_id, pool, armed, called, idOf, tried, inflight,
                 response, expired, drawn>>

\* A timed-out session's node not freed.
FinishDoneSlip ==
  LET n == completing.node
  IN /\ InDone
     /\ armed' = IF completing.cancel THEN armed \ {n} ELSE armed
     /\ pool' = IF completing.cancel THEN FreeSessionNode(n) ELSE pool
     /\ completing' = Idle
     /\ UNCHANGED <<next_rpc_id, fired, called, idOf, tried, inflight, outcome,
                    response, expired, drawn>>

\* The rest of a handler whose done closure has returned.
FinishDone ==
  LET n == completing.node
  IN /\ InDone
     /\ armed' = IF completing.cancel THEN armed \ {n} ELSE armed
     /\ pool' = FreeSessionNode(n)
     /\ completing' = Idle
     /\ UNCHANGED <<next_rpc_id, fired, called, idOf, tried, inflight, outcome,
                    response, expired, drawn>>

Next ==
  \/ \E c \in Calls : AddSession(c)
  \/ \E c \in Calls : SendEnds(c)
  \/ \E c \in Calls : OnSendRequestFailed(c)
  \/ \E c \in Calls, parses \in BOOLEAN, result \in PeerResults :
       OnRecvResponse(c, parses, result)
  \/ \E due \in SUBSET armed : Tick(due)
  \/ \E n \in Nodes : OnSessionTimeout(n)
  \/ FinishDone

Spec == Init /\ [][Next]_vars

\* The worker loop: a timer that waits is collected at some tick, what a tick
\* collected runs, and a done closure returns. The network owes nothing.
Fairness ==
  /\ \A n \in Nodes :
       /\ WF_vars(\E due \in SUBSET armed : n \in due /\ Tick(due))
       /\ WF_vars(OnSessionTimeout(n))
  /\ WF_vars(FinishDone)

FairSpec == Spec /\ Fairness
-----------------------------------------------------------------------------
(* Properties *)

\* A call's done closure runs at most once, whatever the order of responses,
\* duplicates, failures and timeouts: a synchronous caller's closure refers to
\* a stack frame that is gone after the first run (hyperrpc.cc, CallMethod).
DoneAtMostOnce == \A c \in Calls : Len(outcome[c]) <= 1

\* Until the sequence part has been drawn round once, a call ends with its own
\* response or with none: late answers for a node's earlier sessions are not
\* given to its present one (FindSessionNode's comparison of whole ids).
RepliesMatch ==
  drawn <= SeqSpan =>
    \A c \in Calls : \A i \in 1 .. Len(outcome[c]) :
      outcome[c][i].by \in {NoCall, c}

\* Even after ids repeat, a call is answered only by a response of the method
\* it calls: the bytes are never parsed into a message of another type.
AnsweredByOwnMethod ==
  \A c \in Calls : \A i \in 1 .. Len(outcome[c]) :
    outcome[c][i].by \in Calls => Method[outcome[c][i].by] = Method[c]

\* Every session that waits for an outcome has a timer that will run: without
\* one a session whose request and response are lost would pend for ever.
PendingHasTimer ==
  \A n \in Nodes :
    Occupied(n) /\ n # completing.node => n \in armed \cup fired

\* Calls that AddSession accepted, whose done has not run, and that no taken node
\* with a timer waiting or collected stands for: nothing would ever end them.
HeldBy(n, c) == Occupied(n) /\ pool[n].call = c
Forgotten == {c \in called : /\ Endpoints[c] <= IndexSpan /\ outcome[c] = << >>
                             /\ ~ \E n \in armed \cup fired : HeldBy(n, c)}

\* No handler forgets a call: not when a node or a timer is used again, nor
\* when a done closure issues a call before its own node is free.
NoCallForgotten == Forgotten = {}

\* Retries go through the endpoint list in order, one send each, never past
\* its end. Lists as long as the index range are left out: AddSession accepts
\* one, after whose last endpoint the index wraps to the first.
RetriesInOrder ==
  \A c \in Calls :
    Endpoints[c] < IndexSpan =>
      /\ Len(tried[c]) <= Endpoints[c]
      /\ \A i \in 1 .. Len(tried[c]) : tried[c][i] = i - 1

\* A call the framework ends with kTimeout has waited its own timeout or has
\* run out of endpoints ("rpc timeout in the end").
HonestTimeout ==
  \A c \in Calls : \A i \in 1 .. Len(outcome[c]) :
    outcome[c][i] = [result |-> "kTimeout", by |-> NoCall] =>
      c \in expired \/ Len(tried[c]) = Endpoints[c]

\* Once done has begun to run for a call, the framework neither writes its
\* response, nor sends its request, nor runs done again: the closure may have
\* deleted both messages.
NoTouchAfterDone ==
  [][\A c \in Calls : outcome[c] # << >> =>
       /\ response'[c] = response[c]
       /\ tried'[c] = tried[c]
       /\ outcome'[c] = outcome[c]]_vars

\* A call whose list AddSession accepts has its done closure run.
AcceptedCallEnds ==
  \A c \in Calls :
    c \in called /\ Endpoints[c] <= IndexSpan ~> outcome[c] # << >>

-----------------------------------------------------------------------------
(* The inductive invariants behind these properties: IInv for all but         *)
(* RepliesMatch, which stands on IdInv as well.                               *)

\* A taken node holds the id its call was given, which leads back to the node:
\* no call has two nodes.
NodesHoldCalls ==
  \A n \in Nodes : Occupied(n) =>
    /\ NodeOf(pool[n].rpc_id) = n
    /\ pool[n].call \in called
    /\ idOf[pool[n].call] = pool[n].rpc_id

\* hudp has no send of a call without an id: FindSessionNode(0) would take an
\* empty node for a session.
SentCallsHaveIds == \A c \in inflight : idOf[c] # 0

\* done has not run for a session that waits, and has run once for the session
\* whose closure is running.
OutcomeOfNode ==
  \A n \in Nodes : Occupied(n) =>
    IF n = completing.node THEN Len(outcome[pool[n].call]) = 1
                           ELSE outcome[pool[n].call] = << >>

RunningNodeTaken == InDone => Occupied(completing.node)

NotCalledYet == \A c \in Calls \ called : outcome[c] = << >>

NotSentYet == \A c \in Calls \ called : tried[c] = << >> /\ idOf[c] = 0

\* A session that waits has been sent to the endpoints up to its index, which
\* lies in the list. A list as long as the index range never runs out.
SentUpToIndex ==
  \A n \in Nodes : Occupied(n) =>
    LET c == pool[n].call
    IN /\ Endpoints[c] <= IndexSpan
       /\ Endpoints[c] < IndexSpan /\ n # completing.node =>
            /\ pool[n].endpoint_index < Endpoints[c]
            /\ Len(tried[c]) = pool[n].endpoint_index + 1

\* A collected timer is that of the session its node holds, as long as no done
\* closure issues a call into a node freed since.
FiredAreExpired ==
  ~ NestedCalls => \A n \in fired : Occupied(n) => pool[n].call \in expired

\* The pool, its timers and the calls agree: what every handler of a session may
\* rely on and has to restore.
IInv ==
  /\ TypeOK
  /\ NodesHoldCalls
  /\ SentCallsHaveIds
  /\ OutcomeOfNode
  /\ RunningNodeTaken
  /\ NotCalledYet
  /\ DoneAtMostOnce
  /\ PendingHasTimer
  /\ NotSentYet
  /\ SentUpToIndex
  /\ RetriesInOrder
  /\ AnsweredByOwnMethod
  /\ FiredAreExpired
  /\ ~ NestedCalls => HonestTimeout

\* How many ids are drawn from this one on until the last one.
DrawsFrom(id, last) == IF id <= last THEN last - id ELSE last - id + SeqSpan

\* Until the sequence part has been drawn round once, the ids of the calls are
\* ids drawn, all different.
IdsOfCallsDiffer ==
  drawn <= SeqSpan =>
    /\ \A c \in Calls : idOf[c] # 0 => DrawsFrom(idOf[c], next_rpc_id) < drawn
    /\ \A c, d \in Calls : idOf[c] # 0 /\ idOf[c] = idOf[d] => c = d

\* Ids differ as long as NextRpcId has not come round, and replies match.
IdInv == IdsOfCallsDiffer /\ RepliesMatch

-----------------------------------------------------------------------------
(* The session table this implements. A call is open from its node's          *)
(* allocation until the node is freed, after done has returned: a call issued *)
(* from inside a done closure finds the node still taken.                     *)
OpenCalls == {pool[n].call : n \in {m \in Nodes : Occupied(m)}}
Verdict == [c \in Calls |-> IF outcome[c] = << >>
                              THEN "none"
                              ELSE outcome[c][Len(outcome[c])].result]

Table == INSTANCE SessionTable WITH open <- OpenCalls, verdict <- Verdict,
                                    Capacity <- PoolSize

\* The pool behaves as a table of PoolSize sessions: AddSession fails only when
\* every node is taken, wherever in the id sequence the scan starts, and every
\* session ends once before its node is used again.
ImplementsTable == Table!Spec

=============================================================================
