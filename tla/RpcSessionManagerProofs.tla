----------------------- MODULE RpcSessionManagerProofs -----------------------
(* What holds of RpcSessionManager for every pool, id range and set of calls. *)
EXTENDS RpcSessionManager, TLAPS

\* An id's node is one of the pool's: the mask keeps the index in range.
LEMMA NodeOfIsNode == ASSUME NEW id \in Nat PROVE NodeOf(id) \in Nodes
BY PoolAssumption DEF NodeOf, Nodes

\* Drawing ids never leaves the core's range: the carry stays below its bits.
LEMMA RpcIdInRange ==
  ASSUME next_rpc_id \in RpcIds, NEW k \in Nat
  PROVE  RpcIdAfter(k) \in RpcIds
<1> DEFINE s == next_rpc_id - CoreBase + k
<1>1. CoreBase \in Nat
  BY SpanAssumption, CoreAssumption DEF CoreBase
<1>2. s \in Nat
  BY <1>1, SpanAssumption DEF RpcIds
<1> HIDE DEF s
<1>3. s % SeqSpan \in 0 .. SeqSpan - 1
  BY <1>2, SpanAssumption
<1>4. CoreBase + (s % SeqSpan) \in RpcIds
  BY <1>1, <1>3, SpanAssumption DEF RpcIds
<1> QED BY <1>4 DEF s, RpcIdAfter

\* No id is 0, the mark of an empty node.
LEMMA RpcIdsArePositive == RpcIds \subseteq Nat \ {0}
<1>1. CoreBase \in Nat /\ CoreBase >= 1
  BY SpanAssumption, CoreAssumption DEF CoreBase
<1> QED BY <1>1, SpanAssumption DEF RpcIds

\* What FindSessionNode returns is a taken node, or none.
LEMMA FoundNodeIsTaken ==
  ASSUME TypeOK, NEW id \in Nat, FindSessionNode(id) # NoNode, id # 0
  PROVE  /\ FindSessionNode(id) \in Nodes
         /\ Occupied(FindSessionNode(id))
BY NodeOfIsNode DEF FindSessionNode, Occupied

\* uint16_t arithmetic stays in its range.
LEMMA NextIndexInRange ==
  ASSUME TypeOK, NEW n \in Nodes
  PROVE  NextIndex(n) \in 0 .. IndexSpan - 1
<1>1. pool[n].endpoint_index + 1 \in Nat
  BY DEF TypeOK, NodeState
<1> QED BY <1>1, SpanAssumption DEF NextIndex

\* Freeing a node keeps the pool well formed.
LEMMA FreedPoolType ==
  ASSUME TypeOK, NEW n \in Nodes
  PROVE  FreeSessionNode(n) \in [Nodes -> NodeState]
<1>1. pool[n].endpoint_index \in 0 .. IndexSpan - 1
  BY DEF TypeOK, NodeState
<1>2. [rpc_id |-> 0, call |-> NoCall,
       endpoint_index |-> pool[n].endpoint_index] \in NodeState
  BY <1>1 DEF NodeState
<1> QED BY <1>2 DEF TypeOK, FreeSessionNode

-----------------------------------------------------------------------------
\* RpcSessionManager::Init leaves the table well formed.
LEMMA InitTypeOK == Init => TypeOK
<1> SUFFICES ASSUME Init PROVE TypeOK
  OBVIOUS
<1>1. next_rpc_id \in RpcIds
  <2>1. CoreBase \in Nat
    BY SpanAssumption, CoreAssumption DEF CoreBase
  <2> QED BY <2>1, StartAssumption, SpanAssumption DEF Init, RpcIds
<1>2. pool \in [Nodes -> NodeState]
  BY SpanAssumption DEF Init, NodeState
<1> QED BY <1>1, <1>2 DEF Init, TypeOK, Idle

\* An empty pool satisfies every part of the invariant.
LEMMA InitIInv == Init => IInv
<1> SUFFICES ASSUME Init PROVE IInv
  OBVIOUS
<1>1. TypeOK
  BY InitTypeOK
<1>2. \A n \in Nodes : ~ Occupied(n)
  BY DEF Init, Occupied
<1>3. ~ InDone
  BY DEF Init, InDone, Idle
<1>4. \A c \in Calls : outcome[c] = << >>
  BY DEF Init
<1>5. /\ NodesHoldCalls /\ SentCallsHaveIds /\ OutcomeOfNode /\ RunningNodeTaken
      /\ NotCalledYet /\ DoneAtMostOnce /\ PendingHasTimer
  BY <1>1, <1>2, <1>3, <1>4
     DEF Init, NodesHoldCalls, SentCallsHaveIds, OutcomeOfNode, RunningNodeTaken,
         NotCalledYet, DoneAtMostOnce, PendingHasTimer
<1>6. NotSentYet /\ SentUpToIndex /\ FiredAreExpired
  BY <1>2 DEF Init, NotSentYet, SentUpToIndex, FiredAreExpired
<1>7. RetriesInOrder
  BY EndpointsAssumption DEF Init, RetriesInOrder
<1>8. AnsweredByOwnMethod /\ HonestTimeout
  BY <1>4 DEF AnsweredByOwnMethod, HonestTimeout
<1> QED BY <1>1, <1>5, <1>6, <1>7, <1>8 DEF IInv

-----------------------------------------------------------------------------
(* The conjuncts of IInv about which call a node holds and whether it has     *)
(* ended.                                                                     *)
Sessions ==
  /\ NodesHoldCalls
  /\ SentCallsHaveIds
  /\ OutcomeOfNode
  /\ RunningNodeTaken
  /\ NotCalledYet
  /\ DoneAtMostOnce
  /\ PendingHasTimer

SamePool == \A n \in Nodes : /\ pool'[n].rpc_id = pool[n].rpc_id
                             /\ pool'[n].call = pool[n].call

\* A taken node's call is one of Calls, never NoCall.
LEMMA TakenNodeHasCall ==
  ASSUME TypeOK, Sessions, NEW n \in Nodes, Occupied(n)
  PROVE  pool[n].call \in Calls
BY DEF TypeOK, Sessions, NodesHoldCalls

\* Two nodes never hold the same call.
LEMMA OneNodePerCall ==
  ASSUME TypeOK, Sessions, NEW m \in Nodes, NEW n \in Nodes,
         Occupied(m), Occupied(n), pool[m].call = pool[n].call
  PROVE  m = n
<1>1. pool[m].rpc_id = pool[n].rpc_id
  BY DEF Sessions, NodesHoldCalls
<1> QED BY <1>1 DEF Sessions, NodesHoldCalls

\* The handlers that run no closure and move no node.
LEMMA QuietStep ==
  ASSUME TypeOK, Sessions, SamePool,
         UNCHANGED <<completing, outcome, idOf>>,
         called' = called,
         SentCallsHaveIds',
         \A n \in Nodes : Occupied(n) /\ n \in armed \cup fired
                            => n \in armed' \cup fired'
  PROVE  Sessions'
<1>1. NodesHoldCalls'
  BY DEF Sessions, SamePool, NodesHoldCalls, Occupied
<1>2. OutcomeOfNode'
  BY DEF Sessions, SamePool, OutcomeOfNode, Occupied
<1>3. RunningNodeTaken'
  <2>1. SUFFICES ASSUME InDone PROVE Occupied(completing.node)'
    BY DEF RunningNodeTaken, InDone
  <2>2. CASE completing.node \in Nodes
    BY <2>1, <2>2 DEF Sessions, SamePool, RunningNodeTaken, Occupied
  <2> QED BY <2>1, <2>2 DEF TypeOK, InDone
<1>4. NotCalledYet' /\ DoneAtMostOnce'
  BY DEF Sessions, NotCalledYet, DoneAtMostOnce
<1>5. PendingHasTimer'
  BY DEF Sessions, SamePool, PendingHasTimer, Occupied
<1> QED BY <1>1, <1>2, <1>3, <1>4, <1>5 DEF Sessions

\* The handlers that end a session, up to the call of done.
LEMMA EndingStep ==
  ASSUME TypeOK, Sessions, ~ InDone, SamePool,
         NEW n \in Nodes, Occupied(n),
         NEW result \in Results, NEW by \in Calls \cup {NoCall},
         NEW cancel \in BOOLEAN,
         RunDone(n, result, by, cancel),
         called' = called, idOf' = idOf, inflight' \subseteq inflight,
         \A m \in Nodes : m # n /\ m \in armed \cup fired
                            => m \in armed' \cup fired'
  PROVE  /\ completing' \in [node : Nodes \cup {NoNode}, cancel : BOOLEAN]
         /\ outcome' \in [Calls -> Seq(Outcomes)]
         /\ Sessions'
<1> DEFINE c == pool[n].call
           o == [result |-> result, by |-> by]
<1>1. c \in Calls /\ c \in called
  BY TakenNodeHasCall DEF Sessions, NodesHoldCalls
<1>2. completing.node = NoNode /\ n # NoNode
  BY PoolAssumption DEF InDone, Nodes, NoNode
<1>3. completing' = [node |-> n, cancel |-> cancel]
  BY DEF RunDone
<1>4. outcome' = [outcome EXCEPT ![c] = Append(@, o)]
  BY DEF RunDone
<1>5. outcome[c] = << >>
  BY <1>2 DEF Sessions, OutcomeOfNode
<1>6. outcome' \in [Calls -> Seq(Outcomes)]
  <2>1. o \in Outcomes
    BY DEF Outcomes
  <2>2. Append(outcome[c], o) \in Seq(Outcomes)
    BY <1>1, <2>1 DEF TypeOK
  <2> QED BY <1>1, <1>4, <2>2 DEF TypeOK
<1>7. outcome'[c] = << o >> /\ \A d \in Calls \ {c} : outcome'[d] = outcome[d]
  BY <1>1, <1>4, <1>5 DEF TypeOK
<1>8. Len(outcome'[c]) = 1
  BY <1>7
<1> HIDE DEF c, o
<1>9. NodesHoldCalls' /\ SentCallsHaveIds'
  BY DEF Sessions, SamePool, NodesHoldCalls, SentCallsHaveIds, Occupied
<1>10. OutcomeOfNode'
  <2> SUFFICES ASSUME NEW m \in Nodes, Occupied(m)'
               PROVE  IF m = n THEN Len(outcome'[pool[m].call]) = 1
                               ELSE outcome'[pool[m].call] = << >>
    BY <1>3 DEF OutcomeOfNode, SamePool
  <2>1. Occupied(m)
    BY DEF SamePool, Occupied
  <2>2. CASE m = n
    BY <1>8, <2>2 DEF c
  <2>3. CASE m # n
    <3>1. pool[m].call # c /\ pool[m].call \in Calls
      BY <2>1, <2>3, TakenNodeHasCall, OneNodePerCall DEF c
    <3>2. outcome[pool[m].call] = << >>
      BY <1>2, <2>1 DEF Sessions, OutcomeOfNode, NoNode, Nodes
    <3> QED BY <1>7, <2>3, <3>1, <3>2
  <2> QED BY <2>2, <2>3
<1>11. RunningNodeTaken'
  BY <1>3 DEF RunningNodeTaken, SamePool, Occupied
<1>12. NotCalledYet' /\ DoneAtMostOnce'
  <2>1. ASSUME NEW d \in Calls PROVE Len(outcome'[d]) <= 1
    <3>1. CASE d = c
      <4>1. Len(outcome'[d]) = 1
        BY <1>8, <3>1
      <4> QED BY <4>1
    <3>2. CASE d # c
      BY <1>7, <3>2 DEF Sessions, DoneAtMostOnce
    <3> QED BY <3>1, <3>2
  <2>2. \A d \in Calls \ called : outcome'[d] = << >>
    BY <1>1, <1>7 DEF Sessions, NotCalledYet
  <2> QED BY <2>1, <2>2 DEF NotCalledYet, DoneAtMostOnce
<1>13. PendingHasTimer'
  BY <1>2, <1>3 DEF Sessions, SamePool, PendingHasTimer, Occupied, Nodes, NoNode
<1> QED BY <1>3, <1>6, <1>9, <1>10, <1>11, <1>12, <1>13 DEF Sessions

-----------------------------------------------------------------------------
(* AddSession                                                                 *)

\* A call turned away with kInError had no outcome before, so it has one now;
\* no node is touched.
LEMMA PoolExhaustedStep ==
  ASSUME TypeOK, Sessions, NEW c \in Calls, PoolExhausted(c)
  PROVE  TypeOK' /\ Sessions'
<1>1. c \notin called /\ called' = called \cup {c}
  BY DEF PoolExhausted, MayCall
<1>2. outcome[c] = << >>
  BY <1>1 DEF Sessions, NotCalledYet
<1>3. outcome' = [outcome EXCEPT ![c] =
                    Append(@, [result |-> "kInError", by |-> NoCall])]
  BY DEF PoolExhausted
<1>4. outcome' \in [Calls -> Seq(Outcomes)]
  <2>1. [result |-> "kInError", by |-> NoCall] \in Outcomes
    BY DEF Outcomes, Results
  <2>2. Append(outcome[c], [result |-> "kInError", by |-> NoCall]) \in Seq(Outcomes)
    BY <2>1 DEF TypeOK
  <2> QED BY <1>3, <2>2 DEF TypeOK
<1>5. Len(outcome'[c]) = 1 /\ \A d \in Calls \ {c} : outcome'[d] = outcome[d]
  BY <1>2, <1>3 DEF TypeOK
<1>6. TypeOK'
  <2>1. ScanLength \in Nat
    BY PoolAssumption DEF ScanLength
  <2>2. next_rpc_id' \in RpcIds
    BY <2>1, RpcIdInRange DEF PoolExhausted, TypeOK
  <2> QED BY <1>1, <1>4, <2>1, <2>2 DEF PoolExhausted, TypeOK
<1>7. /\ NodesHoldCalls' /\ SentCallsHaveIds'
      /\ RunningNodeTaken' /\ PendingHasTimer'
  BY <1>1 DEF PoolExhausted, Sessions, NodesHoldCalls, SentCallsHaveIds,
              RunningNodeTaken, PendingHasTimer, Occupied, InDone
<1>8. OutcomeOfNode'
  <2> SUFFICES ASSUME NEW n \in Nodes, Occupied(n)
               PROVE  outcome'[pool[n].call] = outcome[pool[n].call]
    BY DEF PoolExhausted, Sessions, OutcomeOfNode, Occupied
  <2>1. pool[n].call \in Calls /\ pool[n].call # c
    BY <1>1, TakenNodeHasCall DEF Sessions, NodesHoldCalls
  <2> QED BY <1>5, <2>1
<1>9. NotCalledYet'
  BY <1>1, <1>5 DEF Sessions, NotCalledYet
<1>10. DoneAtMostOnce'
  <2> SUFFICES ASSUME NEW d \in Calls PROVE Len(outcome'[d]) <= 1
    BY DEF DoneAtMostOnce
  <2>1. CASE d = c
    <3>1. Len(outcome'[d]) = 1
      BY <1>5, <2>1
    <3> QED BY <3>1
  <2>2. CASE d # c
    BY <1>5, <2>2 DEF Sessions, DoneAtMostOnce
  <2> QED BY <2>1, <2>2
<1> QED BY <1>6, <1>7, <1>8, <1>9, <1>10 DEF Sessions

\* The node AllocSessionNode picks was empty, is not the one whose done closure
\* is running, and gets an armed timer.
LEMMA OpenSessionStep ==
  ASSUME TypeOK, Sessions,
         NEW c \in Calls, NEW k \in 1 .. ScanLength, OpenSession(c, k)
  PROVE  TypeOK' /\ Sessions'
<1> DEFINE id == RpcIdAfter(k)
           n  == NodeOf(id)
<1>1. k \in Nat
  BY PoolAssumption DEF ScanLength
<1>2. id \in RpcIds /\ id \in Nat \ {0}
  BY <1>1, RpcIdInRange, RpcIdsArePositive DEF TypeOK
<1>3. n \in Nodes /\ ~ Occupied(n) /\ NodeOf(id) = n
  BY <1>2, NodeOfIsNode DEF OpenSession, FirstEmpty, EmptyAt
<1>4. /\ c \notin called /\ called' = called \cup {c}
      /\ next_rpc_id' = id
      /\ pool' = [pool EXCEPT ![n] =
                    [rpc_id |-> id, call |-> c, endpoint_index |-> 0]]
      /\ armed' = armed \cup {n}
      /\ idOf' = [idOf EXCEPT ![c] = id]
      /\ tried' = [tried EXCEPT ![c] = Append(@, 0)]
      /\ inflight' = inflight \cup {c}
      /\ drawn' = drawn + k
      /\ UNCHANGED <<fired, completing, outcome, response, expired>>
  BY DEF OpenSession, MayCall, StartTimer
<1> HIDE DEF id, n
<1>5. TypeOK'
  <2>1. 0 \in 0 .. IndexSpan - 1
    BY SpanAssumption
  <2>2. pool' \in [Nodes -> NodeState]
    BY <1>2, <1>3, <1>4, <2>1 DEF NodeState, TypeOK
  <2>3. tried' \in [Calls -> Seq(0 .. IndexSpan - 1)]
    BY <1>4, <2>1 DEF TypeOK
  <2> QED BY <1>1, <1>2, <1>3, <1>4, <2>2, <2>3 DEF TypeOK
<1>6. /\ pool'[n].rpc_id = id /\ pool'[n].call = c
      /\ \A m \in Nodes \ {n} : pool'[m] = pool[m]
  BY <1>3, <1>4 DEF TypeOK
<1>7. \A m \in Nodes \ {n} : Occupied(m) => pool[m].call \in called
  BY DEF Sessions, NodesHoldCalls
<1>8. NodesHoldCalls'
  <2> SUFFICES ASSUME NEW m \in Nodes, Occupied(m)'
               PROVE  /\ NodeOf(pool'[m].rpc_id) = m
                      /\ pool'[m].call \in called'
                      /\ idOf'[pool'[m].call] = pool'[m].rpc_id
    BY DEF NodesHoldCalls
  <2>1. CASE m = n
    BY <1>3, <1>4, <1>6, <2>1 DEF TypeOK
  <2>2. CASE m # n
    <3>1. Occupied(m) /\ pool[m].call \in Calls /\ pool[m].call # c
      BY <1>4, <1>6, <1>7, <2>2, TakenNodeHasCall DEF Occupied
    <3> QED BY <1>4, <1>6, <2>2, <3>1 DEF Sessions, NodesHoldCalls, TypeOK
  <2> QED BY <2>1, <2>2
<1>9. SentCallsHaveIds'
  BY <1>2, <1>4 DEF Sessions, SentCallsHaveIds, TypeOK
<1>10. n # completing.node
  BY <1>3 DEF Sessions, RunningNodeTaken, InDone, Nodes, NoNode
<1>11. OutcomeOfNode'
  <2> SUFFICES ASSUME NEW m \in Nodes, Occupied(m)'
               PROVE  IF m = completing.node
                        THEN Len(outcome[pool'[m].call]) = 1
                        ELSE outcome[pool'[m].call] = << >>
    BY <1>4 DEF OutcomeOfNode
  <2>1. CASE m = n
    BY <1>4, <1>6, <1>10, <2>1 DEF Sessions, NotCalledYet
  <2>2. CASE m # n
    BY <1>6, <2>2 DEF Sessions, OutcomeOfNode, Occupied
  <2> QED BY <2>1, <2>2
<1>12. RunningNodeTaken'
  <2> SUFFICES ASSUME InDone PROVE Occupied(completing.node)'
    BY <1>4 DEF RunningNodeTaken, InDone
  <2>1. completing.node \in Nodes /\ Occupied(completing.node)
    BY DEF Sessions, RunningNodeTaken, TypeOK, InDone
  <2> QED BY <1>4, <1>6, <1>10, <2>1 DEF Occupied
<1>13. NotCalledYet' /\ DoneAtMostOnce'
  BY <1>4 DEF Sessions, NotCalledYet, DoneAtMostOnce
<1>14. PendingHasTimer'
  BY <1>4, <1>6 DEF Sessions, PendingHasTimer, Occupied
<1> QED BY <1>5, <1>8, <1>9, <1>11, <1>12, <1>13, <1>14 DEF Sessions

\* AddSession, by its three ways out.
LEMMA AddSessionStep ==
  ASSUME TypeOK, Sessions, NEW c \in Calls, AddSession(c)
  PROVE  TypeOK' /\ Sessions'
<1>1. CASE RejectOversize(c)
  <2>1. TypeOK'
    BY <1>1 DEF RejectOversize, TypeOK
  <2>2. Sessions'
    BY <1>1 DEF RejectOversize, Sessions, NodesHoldCalls, SentCallsHaveIds,
                OutcomeOfNode, RunningNodeTaken, NotCalledYet, DoneAtMostOnce,
                PendingHasTimer, Occupied, InDone
  <2> QED BY <2>1, <2>2
<1>2. CASE PoolExhausted(c)
  BY <1>2, PoolExhaustedStep
<1>3. CASE \E k \in 1 .. ScanLength : OpenSession(c, k)
  BY <1>3, OpenSessionStep
<1> QED BY <1>1, <1>2, <1>3 DEF AddSession

-----------------------------------------------------------------------------
(* Send outcomes, responses, timers                                           *)

\* A send reported as delivered changes no session.
LEMMA SendEndsStep ==
  ASSUME TypeOK, Sessions, NEW c \in Calls, SendEnds(c)
  PROVE  TypeOK' /\ Sessions'
<1>1. TypeOK'
  BY DEF SendEnds, TypeOK
<1>2. Sessions'
  BY QuietStep DEF SendEnds, SamePool, Sessions, SentCallsHaveIds
<1> QED BY <1>1, <1>2

\* A failed send finds no session, moves one to its next endpoint, or ends it.
LEMMA OnSendRequestFailedStep ==
  ASSUME TypeOK, Sessions, NEW c \in Calls, OnSendRequestFailed(c)
  PROVE  TypeOK' /\ Sessions'
<1> DEFINE n == FindSessionNode(idOf[c])
<1>1. /\ ~ InDone
      /\ called' = called
      /\ UNCHANGED <<next_rpc_id, armed, fired, called, idOf, response,
                     expired, drawn>>
  BY DEF OnSendRequestFailed
<1>2. ASSUME n # NoNode
      PROVE  /\ n \in Nodes /\ Occupied(n)
             /\ pool[n].call \in Calls
             /\ NextIndex(n) \in 0 .. IndexSpan - 1
  <2>1. idOf[c] \in Nat \ {0}
    BY RpcIdsArePositive DEF TypeOK, OnSendRequestFailed, Sessions, SentCallsHaveIds
  <2>2. n \in Nodes /\ Occupied(n)
    BY <1>2, <2>1, FoundNodeIsTaken
  <2> QED BY <2>2, NextIndexInRange, TakenNodeHasCall
<1>3. ASSUME n # NoNode, pool' = [pool EXCEPT ![n].endpoint_index = NextIndex(n)]
      PROVE  SamePool /\ pool' \in [Nodes -> NodeState]
  <2> HIDE DEF n
  <2> DEFINE i == NextIndex(n)
  <2>1. pool' \in [Nodes -> NodeState]
    <3>1. pool[n] \in NodeState /\ i \in 0 .. IndexSpan - 1
      BY <1>2, <1>3 DEF TypeOK
    <3> HIDE DEF i
    <3>2. [pool[n] EXCEPT !.endpoint_index = i] \in NodeState
      BY <3>1 DEF NodeState
    <3>3. pool' = [pool EXCEPT ![n] = [pool[n] EXCEPT !.endpoint_index = i]]
      BY <1>2, <1>3 DEF TypeOK, i
    <3> QED BY <1>2, <1>3, <3>2, <3>3 DEF TypeOK
  <2>2. SamePool
    BY <1>2, <1>3 DEF TypeOK, NodeState, SamePool
  <2> QED BY <2>1, <2>2
<1>4. CASE NoSession(c)
  <2>1. TypeOK'
    BY <1>1, <1>4 DEF NoSession, TypeOK
  <2>2. Sessions'
    BY <1>1, <1>4, QuietStep DEF NoSession, SamePool, Sessions, SentCallsHaveIds
  <2> QED BY <2>1, <2>2
<1>5. CASE TryNextEndpoint(c)
  <2> DEFINE d == pool[n].call
             i == NextIndex(n)
  <2>1. /\ n # NoNode
        /\ pool' = [pool EXCEPT ![n].endpoint_index = i]
        /\ tried' = [tried EXCEPT ![d] = Append(@, i)]
        /\ inflight' = (inflight \ {c}) \cup {d}
        /\ UNCHANGED <<completing, outcome>>
    BY <1>5 DEF TryNextEndpoint
  <2>2. d \in Calls /\ i \in 0 .. IndexSpan - 1 /\ idOf[d] # 0
    BY <1>2, <2>1 DEF Sessions, NodesHoldCalls, Occupied
  <2>3. SamePool /\ pool' \in [Nodes -> NodeState]
    BY <1>3, <2>1
  <2> HIDE DEF n, d, i
  <2>4. tried' \in [Calls -> Seq(0 .. IndexSpan - 1)]
    <3>1. Append(tried[d], i) \in Seq(0 .. IndexSpan - 1)
      BY <2>2 DEF TypeOK
    <3> QED BY <2>1, <2>2, <3>1 DEF TypeOK
  <2>5. TypeOK'
    BY <1>1, <2>1, <2>2, <2>3, <2>4 DEF TypeOK
  <2>6. SentCallsHaveIds'
    BY <1>1, <2>1, <2>2 DEF Sessions, SentCallsHaveIds
  <2>7. Sessions'
    BY <1>1, <2>1, <2>3, <2>6, QuietStep
  <2> QED BY <2>5, <2>7
<1>6. CASE AllEndpointsFailed(c)
  <2>1. /\ n # NoNode
        /\ pool' = [pool EXCEPT ![n].endpoint_index = NextIndex(n)]
        /\ RunDone(n, "kTimeout", NoCall, TRUE)
        /\ inflight' = inflight \ {c}
        /\ tried' = tried
    BY <1>6 DEF AllEndpointsFailed
  <2>2. SamePool /\ pool' \in [Nodes -> NodeState]
    BY <1>3, <2>1
  <2>3. n \in Nodes /\ Occupied(n)
    BY <1>2, <2>1
  <2> HIDE DEF n
  <2>4. "kTimeout" \in Results
    BY DEF Results
  <2>5. /\ completing' \in [node : Nodes \cup {NoNode}, cancel : BOOLEAN]
        /\ outcome' \in [Calls -> Seq(Outcomes)]
        /\ Sessions'
    BY <1>1, <2>1, <2>2, <2>3, <2>4, EndingStep
  <2>6. TypeOK'
    BY <1>1, <2>1, <2>2, <2>5 DEF TypeOK
  <2> QED BY <2>5, <2>6
<1> QED BY <1>4, <1>5, <1>6 DEF OnSendRequestFailed

\* A response that parses ends the session it finds; one that does not leaves
\* it waiting.
LEMMA OnRecvResponseStep ==
  ASSUME TypeOK, Sessions, NEW c \in Calls, NEW parses \in BOOLEAN,
         NEW result \in PeerResults, OnRecvResponse(c, parses, result)
  PROVE  TypeOK' /\ Sessions'
<1> DEFINE n == FindSessionNode(idOf[c])
<1>1. /\ ~ InDone /\ idOf[c] # 0 /\ n # NoNode
      /\ called' = called
      /\ UNCHANGED <<next_rpc_id, pool, armed, fired, called, idOf, tried,
                     inflight, expired, drawn>>
  BY DEF OnRecvResponse
<1>2. idOf[c] \in Nat
  <2>1. idOf[c] \in RpcIds
    BY <1>1 DEF TypeOK
  <2> QED BY <2>1, RpcIdsArePositive
<1>3. n \in Nodes /\ Occupied(n) /\ pool[n].call \in Calls
  BY <1>1, <1>2, FoundNodeIsTaken, TakenNodeHasCall
<1>4. SamePool
  BY <1>1 DEF SamePool
<1>5. CASE parses
  <2>1. /\ response' = [response EXCEPT ![pool[n].call] = "parsed"]
        /\ RunDone(n, result, c, TRUE)
    BY <1>5 DEF OnRecvResponse
  <2> HIDE DEF n
  <2>2. result \in Results
    BY PeerAssumption
  <2>3. /\ completing' \in [node : Nodes \cup {NoNode}, cancel : BOOLEAN]
        /\ outcome' \in [Calls -> Seq(Outcomes)]
        /\ Sessions'
    BY <1>1, <1>3, <1>4, <2>1, <2>2, EndingStep
  <2>4. TypeOK'
    BY <1>1, <1>3, <2>1, <2>3 DEF TypeOK
  <2> QED BY <2>3, <2>4
<1>6. CASE ~ parses
  <2>1. /\ response' = [response EXCEPT ![pool[n].call] = "garbled"]
        /\ UNCHANGED <<outcome, completing>>
    BY <1>6 DEF OnRecvResponse
  <2> HIDE DEF n
  <2>2. TypeOK'
    BY <1>1, <1>3, <2>1 DEF TypeOK
  <2>3. Sessions'
    BY <1>1, <1>4, <2>1, QuietStep DEF Sessions, SentCallsHaveIds
  <2> QED BY <2>2, <2>3
<1> QED BY <1>5, <1>6

\* A timer the wheel collects stays due to run: its node is not left untimed.
LEMMA TickStep ==
  ASSUME TypeOK, Sessions, NEW due \in SUBSET armed, Tick(due)
  PROVE  TypeOK' /\ Sessions'
<1>1. {pool[n].call : n \in {m \in due : Occupied(m)}} \subseteq Calls
  BY TakenNodeHasCall DEF TypeOK
<1>2. TypeOK'
  BY <1>1 DEF Tick, TypeOK
<1>3. \A n \in armed \cup fired : n \in armed' \cup fired'
  BY DEF Tick
<1>4. Sessions'
  BY <1>3, QuietStep DEF Tick, SamePool, Sessions, SentCallsHaveIds
<1> QED BY <1>2, <1>4

\* A timer closure ends the session its node holds now, whichever that is.
LEMMA OnSessionTimeoutStep ==
  ASSUME TypeOK, Sessions, NEW n \in Nodes, OnSessionTimeout(n)
  PROVE  TypeOK' /\ Sessions'
<1>1. /\ ~ InDone /\ fired' = fired \ {n} /\ called' = called
      /\ UNCHANGED <<next_rpc_id, pool, armed, called, idOf, tried, inflight,
                     response, expired, drawn>>
  BY DEF OnSessionTimeout
<1>2. SamePool
  BY <1>1 DEF SamePool
<1>3. CASE Occupied(n)
  <2>1. RunDone(n, "kTimeout", NoCall, FALSE)
    BY <1>3 DEF OnSessionTimeout
  <2>2. "kTimeout" \in Results
    BY DEF Results
  <2>3. /\ completing' \in [node : Nodes \cup {NoNode}, cancel : BOOLEAN]
        /\ outcome' \in [Calls -> Seq(Outcomes)]
        /\ Sessions'
    BY <1>1, <1>2, <1>3, <2>1, <2>2, EndingStep
  <2>4. TypeOK'
    BY <1>1, <2>3 DEF TypeOK
  <2> QED BY <2>3, <2>4
<1>4. CASE ~ Occupied(n)
  <2>1. UNCHANGED <<outcome, completing>>
    BY <1>4 DEF OnSessionTimeout
  <2>2. TypeOK'
    BY <1>1, <2>1 DEF TypeOK
  <2>3. Sessions'
    BY <1>1, <1>2, <1>4, <2>1, QuietStep DEF Sessions, SentCallsHaveIds
  <2> QED BY <2>2, <2>3
<1> QED BY <1>3, <1>4

\* After done the node is freed: its call keeps its single outcome.
LEMMA FinishDoneStep ==
  ASSUME TypeOK, Sessions, FinishDone
  PROVE  TypeOK' /\ Sessions'
<1> DEFINE n == completing.node
<1>1. /\ n \in Nodes /\ Occupied(n)
      /\ armed \ {n} \subseteq armed' /\ armed' \subseteq Nodes
      /\ pool' = FreeSessionNode(n)
      /\ completing' = Idle
      /\ UNCHANGED <<next_rpc_id, fired, called, idOf, tried, inflight, outcome,
                     response, expired, drawn>>
  BY DEF FinishDone, TypeOK, InDone, Sessions, RunningNodeTaken
<1>2. completing'.node = NoNode
  BY <1>1 DEF Idle
<1> HIDE DEF n
<1>3. /\ pool'[n].rpc_id = 0
      /\ \A m \in Nodes \ {n} : pool'[m] = pool[m]
  BY <1>1 DEF FreeSessionNode, TypeOK
<1>4. TypeOK'
  <2>1. pool' \in [Nodes -> NodeState]
    BY <1>1, FreedPoolType
  <2> QED BY <1>1, <2>1 DEF TypeOK, Idle
<1>5. NodesHoldCalls' /\ SentCallsHaveIds' /\ NotCalledYet' /\ DoneAtMostOnce'
  BY <1>1, <1>3 DEF Sessions, NodesHoldCalls, SentCallsHaveIds, NotCalledYet,
                    DoneAtMostOnce, Occupied
<1>6. RunningNodeTaken'
  BY <1>2 DEF RunningNodeTaken, InDone
<1>7. \A m \in Nodes : Occupied(m)' => m # n /\ Occupied(m)
  BY <1>3 DEF Occupied
<1>8. OutcomeOfNode'
  <2> SUFFICES ASSUME NEW m \in Nodes, Occupied(m)'
               PROVE  outcome'[pool'[m].call] = << >>
    BY <1>2 DEF OutcomeOfNode, Nodes, NoNode
  <2> QED BY <1>1, <1>3, <1>7 DEF Sessions, OutcomeOfNode, n
<1>9. PendingHasTimer'
  BY <1>1, <1>7 DEF Sessions, PendingHasTimer, n
<1> QED BY <1>4, <1>5, <1>6, <1>8, <1>9 DEF Sessions

-----------------------------------------------------------------------------
\* Whatever handler runs, the table of sessions stays consistent.
LEMMA SessionsStep ==
  ASSUME TypeOK, Sessions, [Next]_vars PROVE TypeOK' /\ Sessions'
<1>1. ASSUME NEW c \in Calls, AddSession(c) PROVE TypeOK' /\ Sessions'
  BY <1>1, AddSessionStep
<1>2. ASSUME NEW c \in Calls, SendEnds(c) PROVE TypeOK' /\ Sessions'
  BY <1>2, SendEndsStep
<1>3. ASSUME NEW c \in Calls, OnSendRequestFailed(c) PROVE TypeOK' /\ Sessions'
  BY <1>3, OnSendRequestFailedStep
<1>4. ASSUME NEW c \in Calls, NEW parses \in BOOLEAN, NEW result \in PeerResults,
             OnRecvResponse(c, parses, result)
      PROVE  TypeOK' /\ Sessions'
  BY <1>4, OnRecvResponseStep
<1>5. ASSUME NEW due \in SUBSET armed, Tick(due) PROVE TypeOK' /\ Sessions'
  BY <1>5, TickStep
<1>6. ASSUME NEW n \in Nodes, OnSessionTimeout(n) PROVE TypeOK' /\ Sessions'
  BY <1>6, OnSessionTimeoutStep
<1>7. CASE FinishDone
  BY <1>7, FinishDoneStep
<1>8. CASE UNCHANGED vars
  BY <1>8 DEF vars, TypeOK, Sessions, NodesHoldCalls, SentCallsHaveIds,
              OutcomeOfNode, RunningNodeTaken, NotCalledYet, DoneAtMostOnce,
              PendingHasTimer, Occupied, InDone
<1> QED BY <1>1, <1>2, <1>3, <1>4, <1>5, <1>6, <1>7, <1>8 DEF Next

-----------------------------------------------------------------------------
(* The conjuncts of IInv about what was sent for a call, and what ended it.   *)
Progress ==
  /\ NotSentYet
  /\ SentUpToIndex
  /\ RetriesInOrder
  /\ AnsweredByOwnMethod
  /\ FiredAreExpired
  /\ ~ NestedCalls => HonestTimeout

\* Outside a done closure, a taken node's call has had no outcome yet: an event
\* that writes to a taken node's call writes to no finished call.
LEMMA TakenIsUndecided ==
  ASSUME TypeOK, Sessions, ~ InDone, NEW n \in Nodes, Occupied(n)
  PROVE  pool[n].call \in Calls /\ outcome[pool[n].call] = << >>
<1>1. n # completing.node
  BY DEF InDone, Nodes, NoNode
<1> QED BY <1>1, TakenNodeHasCall DEF Sessions, OutcomeOfNode

\* The session an event about c finds, by c's id, is a live one.
LEMMA FoundIsUndecided ==
  ASSUME TypeOK, Sessions, ~ InDone, NEW c \in Calls, idOf[c] # 0,
         FindSessionNode(idOf[c]) # NoNode
  PROVE  LET n == FindSessionNode(idOf[c])
         IN  /\ n \in Nodes /\ Occupied(n)
             /\ pool[n].call \in Calls /\ outcome[pool[n].call] = << >>
<1>1. idOf[c] \in RpcIds
  BY DEF TypeOK
<1>2. idOf[c] \in Nat
  BY <1>1, RpcIdsArePositive
<1> QED BY <1>2, FoundNodeIsTaken, TakenIsUndecided

\* The steps that send nothing, end nothing and move no node.
LEMMA QuietProgress ==
  ASSUME TypeOK, Sessions, Progress, called \subseteq called',
         UNCHANGED <<pool, completing, tried, outcome, idOf>>,
         expired \subseteq expired',
         FiredAreExpired'
  PROVE  Progress'
<1>1. NotSentYet' /\ SentUpToIndex' /\ RetriesInOrder' /\ AnsweredByOwnMethod'
  BY DEF Progress, NotSentYet, SentUpToIndex, RetriesInOrder,
         AnsweredByOwnMethod, Occupied
<1>2. HonestTimeout => HonestTimeout'
  BY DEF HonestTimeout
<1> QED BY <1>1, <1>2 DEF Progress

\* One more outcome, of a call that had none and keeps what was sent for it.
LEMMA OutcomeProgress ==
  ASSUME TypeOK, Progress, NEW c \in Calls, outcome[c] = << >>,
         NEW o \in Outcomes,
         outcome' = [outcome EXCEPT ![c] = Append(@, o)],
         tried' = tried, expired' = expired,
         o.by \in Calls => Method[o.by] = Method[c],
         ~ NestedCalls /\ o = [result |-> "kTimeout", by |-> NoCall]
           => c \in expired \/ Len(tried[c]) = Endpoints[c]
  PROVE  AnsweredByOwnMethod' /\ (~ NestedCalls => HonestTimeout')
<1>1. /\ outcome'[c] = << o >>
      /\ \A d \in Calls \ {c} : outcome'[d] = outcome[d]
  BY DEF TypeOK
<1>2. Len(outcome'[c]) = 1 /\ outcome'[c][1] = o
  BY <1>1
<1>3. AnsweredByOwnMethod'
  <2> SUFFICES ASSUME NEW d \in Calls, NEW i \in 1 .. Len(outcome'[d]),
                      outcome'[d][i].by \in Calls
               PROVE  Method[outcome'[d][i].by] = Method[d]
    BY DEF AnsweredByOwnMethod
  <2>1. CASE d = c
    BY <1>2, <2>1
  <2>2. CASE d # c
    BY <1>1, <2>2 DEF Progress, AnsweredByOwnMethod
  <2> QED BY <2>1, <2>2
<1>4. ASSUME ~ NestedCalls PROVE HonestTimeout'
  <2> SUFFICES ASSUME NEW d \in Calls, NEW i \in 1 .. Len(outcome'[d]),
                      outcome'[d][i] = [result |-> "kTimeout", by |-> NoCall]
               PROVE  d \in expired \/ Len(tried[d]) = Endpoints[d]
    BY DEF HonestTimeout
  <2>1. CASE d = c
    BY <1>2, <1>4, <2>1
  <2>2. CASE d # c
    BY <1>1, <1>4, <2>2 DEF Progress, HonestTimeout
  <2> QED BY <2>1, <2>2
<1> QED BY <1>3, <1>4

\* The handlers that end a session, up to the call of done.
LEMMA EndingProgress ==
  ASSUME TypeOK, Sessions, Progress, ~ InDone, SamePool,
         NEW n \in Nodes, Occupied(n),
         NEW result \in Results, NEW by \in Calls \cup {NoCall},
         NEW cancel \in BOOLEAN,
         RunDone(n, result, by, cancel),
         \A m \in Nodes \ {n} : pool'[m] = pool[m],
         UNCHANGED <<called, idOf, tried, expired>>, fired' \subseteq fired,
         by \in Calls => Method[by] = Method[pool[n].call],
         ~ NestedCalls /\ result = "kTimeout" /\ by = NoCall =>
           \/ pool[n].call \in expired
           \/ Len(tried[pool[n].call]) = Endpoints[pool[n].call]
  PROVE  Progress'
<1> DEFINE c == pool[n].call
           o == [result |-> result, by |-> by]
<1>1. c \in Calls /\ outcome[c] = << >>
  BY TakenIsUndecided
<1>2. completing'.node = n
  BY DEF RunDone
<1>3. completing.node = NoNode
  BY DEF InDone
<1>4. AnsweredByOwnMethod' /\ (~ NestedCalls => HonestTimeout')
  <2>1. outcome' = [outcome EXCEPT ![c] = Append(@, o)]
    BY DEF RunDone
  <2>2. o \in Outcomes /\ o.by = by
    BY DEF Outcomes
  <2>3. ~ NestedCalls /\ o = [result |-> "kTimeout", by |-> NoCall]
          => c \in expired \/ Len(tried[c]) = Endpoints[c]
    OBVIOUS
  <2> HIDE DEF o, c
  <2>4. o.by \in Calls => Method[o.by] = Method[c]
    BY <2>2 DEF c
  <2> QED BY <1>1, <2>1, <2>2, <2>3, <2>4, OutcomeProgress
<1>5. SentUpToIndex'
  BY <1>2, <1>3 DEF Progress, SentUpToIndex, SamePool, Occupied, Nodes, NoNode
<1>6. NotSentYet' /\ RetriesInOrder'
  BY DEF Progress, NotSentYet, RetriesInOrder
<1>7. FiredAreExpired'
  BY DEF Progress, FiredAreExpired, SamePool, Occupied, TypeOK
<1> QED BY <1>4, <1>5, <1>6, <1>7 DEF Progress

\* AddSession opens a session at the first endpoint, or sends nothing.
LEMMA AddSessionProgress ==
  ASSUME TypeOK, Sessions, Progress, NEW c \in Calls, AddSession(c)
  PROVE  Progress'
<1>1. c \notin called
  BY DEF AddSession, RejectOversize, PoolExhausted, OpenSession, MayCall
<1>2. outcome[c] = << >> /\ tried[c] = << >>
  BY <1>1 DEF Sessions, NotCalledYet, Progress, NotSentYet
<1>3. CASE RejectOversize(c)
  <2>1. FiredAreExpired'
    BY <1>3 DEF RejectOversize, Progress, FiredAreExpired, Occupied
  <2> QED BY <1>3, <2>1, QuietProgress DEF RejectOversize
<1>4. CASE PoolExhausted(c)
  <2> DEFINE o == [result |-> "kInError", by |-> NoCall]
  <2>1. /\ called \subseteq called'
        /\ UNCHANGED <<pool, completing, tried, idOf, fired, expired>>
        /\ outcome' = [outcome EXCEPT ![c] = Append(@, o)]
    BY <1>4 DEF PoolExhausted
  <2>2. /\ o \in Outcomes /\ o.by \notin Calls
        /\ o # [result |-> "kTimeout", by |-> NoCall]
    BY CallsAssumption DEF Outcomes, Results
  <2> HIDE DEF o
  <2>3. AnsweredByOwnMethod' /\ (~ NestedCalls => HonestTimeout')
    BY <1>2, <2>1, <2>2, OutcomeProgress
  <2>4. NotSentYet' /\ SentUpToIndex' /\ RetriesInOrder' /\ FiredAreExpired'
    BY <2>1 DEF Progress, NotSentYet, SentUpToIndex, RetriesInOrder,
                FiredAreExpired, Occupied
  <2> QED BY <2>3, <2>4 DEF Progress
<1>5. ASSUME NEW k \in 1 .. ScanLength, OpenSession(c, k) PROVE Progress'
  <2> DEFINE id == RpcIdAfter(k)
             n  == NodeOf(id)
  <2>1. k \in Nat
    BY PoolAssumption DEF ScanLength
  <2>2. id \in Nat /\ n \in Nodes
    BY <2>1, RpcIdInRange, RpcIdsArePositive, NodeOfIsNode DEF TypeOK
  <2>3. ~ NestedCalls => fired = {}
    BY <1>5 DEF OpenSession, MayCall
  <2>4. /\ Endpoints[c] <= IndexSpan
        /\ called' = called \cup {c}
        /\ pool' = [pool EXCEPT ![n] =
                      [rpc_id |-> id, call |-> c, endpoint_index |-> 0]]
        /\ idOf' = [idOf EXCEPT ![c] = id]
        /\ tried' = [tried EXCEPT ![c] = Append(@, 0)]
        /\ UNCHANGED <<fired, completing, outcome, expired>>
    BY <1>5 DEF OpenSession
  <2> HIDE DEF id, n
  <2>5. /\ pool'[n] = [rpc_id |-> id, call |-> c, endpoint_index |-> 0]
        /\ \A m \in Nodes \ {n} : pool'[m] = pool[m]
    BY <2>2, <2>4 DEF TypeOK
  <2>6. /\ tried'[c] = << 0 >>
        /\ \A d \in Calls \ {c} : tried'[d] = tried[d]
    BY <1>2, <2>4 DEF TypeOK
  <2>7. NotSentYet'
    BY <2>4, <2>6 DEF Progress, NotSentYet, TypeOK
  <2>8. SentUpToIndex'
    <3> SUFFICES ASSUME NEW m \in Nodes, Occupied(m)'
                 PROVE  LET d == pool'[m].call
                        IN /\ Endpoints[d] <= IndexSpan
                           /\ Endpoints[d] < IndexSpan /\ m # completing'.node =>
                                /\ pool'[m].endpoint_index < Endpoints[d]
                                /\ Len(tried'[d]) = pool'[m].endpoint_index + 1
      BY DEF SentUpToIndex
    <3>1. CASE m = n
      <4>1. /\ Len(tried'[c]) = 1
            /\ Endpoints[c] \in Nat /\ 0 < Endpoints[c]
        BY <2>6, EndpointsAssumption
      <4>2. pool'[m].call = c /\ pool'[m].endpoint_index = 0
        BY <2>5, <3>1
      <4>3. Endpoints[c] <= IndexSpan
        BY <2>4
      <4> QED BY <4>1, <4>2, <4>3
    <3>2. CASE m # n
      <4>1. Occupied(m) /\ pool'[m] = pool[m]
        BY <2>5, <3>2 DEF Occupied
      <4>2. pool[m].call \in Calls \ {c}
        BY <1>1, <4>1, TakenNodeHasCall DEF Sessions, NodesHoldCalls
      <4> QED BY <2>4, <2>6, <4>1, <4>2 DEF Progress, SentUpToIndex
    <3> QED BY <3>1, <3>2
  <2>9. RetriesInOrder'
    <3> SUFFICES ASSUME NEW d \in Calls, Endpoints[d] < IndexSpan
                 PROVE  /\ Len(tried'[d]) <= Endpoints[d]
                        /\ \A i \in 1 .. Len(tried'[d]) : tried'[d][i] = i - 1
      BY DEF RetriesInOrder
    <3>1. CASE d = c
      <4>1. Len(tried'[d]) = 1 /\ tried'[d][1] = 0
        BY <2>6, <3>1
      <4>2. Endpoints[d] \in Nat \ {0}
        BY EndpointsAssumption
      <4> QED BY <4>1, <4>2
    <3>2. CASE d # c
      BY <2>6, <3>2 DEF Progress, RetriesInOrder
    <3> QED BY <3>1, <3>2
  <2>10. AnsweredByOwnMethod' /\ FiredAreExpired'
    BY <2>3, <2>4 DEF Progress, AnsweredByOwnMethod, FiredAreExpired
  <2>11. HonestTimeout => HonestTimeout'
    BY <1>2, <2>4, <2>6 DEF HonestTimeout
  <2> QED BY <2>7, <2>8, <2>9, <2>10, <2>11 DEF Progress
<1> QED BY <1>3, <1>4, <1>5 DEF AddSession

\* A retry goes to the next index; a session that ends for want of endpoints
\* has been sent to all of them.
LEMMA OnSendRequestFailedProgress ==
  ASSUME TypeOK, Sessions, Progress, NEW c \in Calls, OnSendRequestFailed(c)
  PROVE  Progress'
<1> DEFINE n == FindSessionNode(idOf[c])
           d == pool[n].call
           i == NextIndex(n)
<1>1. /\ ~ InDone /\ idOf[c] # 0
      /\ UNCHANGED <<armed, fired, called, idOf, expired>>
  BY DEF OnSendRequestFailed, Sessions, SentCallsHaveIds
<1>2. completing.node = NoNode
  BY <1>1 DEF InDone
<1>3. ASSUME n # NoNode
      PROVE  /\ n \in Nodes /\ Occupied(n) /\ d \in Calls /\ outcome[d] = << >>
             /\ Endpoints[d] <= IndexSpan /\ Endpoints[d] \in Nat
             /\ Endpoints[d] < IndexSpan =>
                  /\ pool[n].endpoint_index < Endpoints[d]
                  /\ Len(tried[d]) = pool[n].endpoint_index + 1
                  /\ i = pool[n].endpoint_index + 1
             /\ i \in 0 .. IndexSpan - 1
  <2>1. n \in Nodes /\ Occupied(n) /\ d \in Calls /\ outcome[d] = << >>
    BY <1>1, <1>3, FoundIsUndecided
  <2> HIDE DEF n
  <2>2. n # completing.node
    BY <1>2, <1>3
  <2>3. /\ Endpoints[d] <= IndexSpan
        /\ Endpoints[d] < IndexSpan =>
             /\ pool[n].endpoint_index < Endpoints[d]
             /\ Len(tried[d]) = pool[n].endpoint_index + 1
    BY <2>1, <2>2 DEF Progress, SentUpToIndex
  <2>4. i \in 0 .. IndexSpan - 1
    BY <2>1, NextIndexInRange
  <2>5. Endpoints[d] \in Nat /\ pool[n].endpoint_index \in 0 .. IndexSpan - 1
    BY <2>1, EndpointsAssumption DEF TypeOK, NodeState
  <2>6. ASSUME Endpoints[d] < IndexSpan PROVE i = pool[n].endpoint_index + 1
    <3>1. pool[n].endpoint_index + 1 \in 0 .. IndexSpan - 1
      BY <2>3, <2>5, <2>6, SpanAssumption
    <3> QED BY <3>1, SpanAssumption DEF NextIndex
  <2> QED BY <2>1, <2>3, <2>4, <2>5, <2>6
<1>4. CASE NoSession(c)
  <2>1. FiredAreExpired'
    BY <1>1, <1>4 DEF NoSession, Progress, FiredAreExpired, Occupied
  <2> QED BY <1>1, <1>4, <2>1, QuietProgress DEF NoSession
<1>5. CASE TryNextEndpoint(c)
  <2>1. /\ n # NoNode /\ i < Endpoints[d]
        /\ pool' = [pool EXCEPT ![n].endpoint_index = i]
        /\ tried' = [tried EXCEPT ![d] = Append(@, i)]
        /\ UNCHANGED <<completing, outcome>>
    BY <1>5 DEF TryNextEndpoint, HasNextEndpoint
  <2>2. /\ n \in Nodes /\ Occupied(n) /\ d \in Calls /\ outcome[d] = << >>
        /\ Endpoints[d] <= IndexSpan
        /\ Endpoints[d] < IndexSpan => Len(tried[d]) = i
        /\ i \in 0 .. IndexSpan - 1
    BY <1>3, <2>1
  <2> HIDE DEF n, d, i
  <2>3. /\ pool'[n].endpoint_index = i
        /\ \A m \in Nodes \ {n} : pool'[m] = pool[m]
        /\ \A m \in Nodes : /\ pool'[m].call = pool[m].call
                            /\ pool'[m].rpc_id = pool[m].rpc_id
    BY <2>1, <2>2 DEF TypeOK, NodeState
  <2>4. /\ Len(tried'[d]) = Len(tried[d]) + 1
        /\ \A j \in 1 .. Len(tried[d]) : tried'[d][j] = tried[d][j]
        /\ tried'[d][Len(tried[d]) + 1] = i
        /\ \A e \in Calls \ {d} : tried'[e] = tried[e]
    BY <2>1, <2>2 DEF TypeOK
  <2>5. d \in called
    BY <2>2 DEF Sessions, NodesHoldCalls, d
  <2>6. NotSentYet'
    BY <1>1, <2>4, <2>5 DEF Progress, NotSentYet
  <2>7. SentUpToIndex'
    <3> SUFFICES ASSUME NEW m \in Nodes, Occupied(m)'
                 PROVE  LET e == pool[m].call
                        IN /\ Endpoints[e] <= IndexSpan
                           /\ Endpoints[e] < IndexSpan /\ m # completing.node =>
                                /\ pool'[m].endpoint_index < Endpoints[e]
                                /\ Len(tried'[e]) = pool'[m].endpoint_index + 1
      BY <2>1, <2>3 DEF SentUpToIndex
    <3>1. CASE m = n
      BY <2>1, <2>2, <2>3, <2>4, <3>1 DEF d
    <3>2. CASE m # n
      <4>1. Occupied(m)
        BY <2>3 DEF Occupied
      <4>2. pool[m].call \in Calls \ {d}
        BY <2>2, <3>2, <4>1, TakenNodeHasCall, OneNodePerCall DEF d
      <4> QED BY <2>3, <2>4, <3>2, <4>1, <4>2 DEF Progress, SentUpToIndex
    <3> QED BY <3>1, <3>2
  <2>8. RetriesInOrder'
    <3> SUFFICES ASSUME NEW e \in Calls, Endpoints[e] < IndexSpan
                 PROVE  /\ Len(tried'[e]) <= Endpoints[e]
                        /\ \A j \in 1 .. Len(tried'[e]) : tried'[e][j] = j - 1
      BY DEF RetriesInOrder
    <3>1. CASE e = d
      BY <2>1, <2>2, <2>4, <3>1, EndpointsAssumption DEF Progress, RetriesInOrder
    <3>2. CASE e # d
      BY <2>4, <3>2 DEF Progress, RetriesInOrder
    <3> QED BY <3>1, <3>2
  <2>9. AnsweredByOwnMethod'
    BY <2>1 DEF Progress, AnsweredByOwnMethod
  <2>10. FiredAreExpired'
    BY <1>1, <2>3 DEF Progress, FiredAreExpired, Occupied, TypeOK
  <2>11. HonestTimeout => HonestTimeout'
    BY <1>1, <2>1, <2>2, <2>4 DEF HonestTimeout
  <2> QED BY <2>6, <2>7, <2>8, <2>9, <2>10, <2>11 DEF Progress
<1>6. CASE AllEndpointsFailed(c)
  <2>1. /\ n # NoNode /\ ~ (i < Endpoints[d])
        /\ pool' = [pool EXCEPT ![n].endpoint_index = i]
        /\ RunDone(n, "kTimeout", NoCall, TRUE)
        /\ tried' = tried
    BY <1>6 DEF AllEndpointsFailed, HasNextEndpoint
  <2>2. n \in Nodes /\ Occupied(n) /\ Len(tried[d]) = Endpoints[d]
    BY <1>3, <2>1, SpanAssumption DEF TypeOK, NodeState
  <2> HIDE DEF n, d, i
  <2>3. SamePool /\ \A m \in Nodes \ {n} : pool'[m] = pool[m]
    BY <2>1, <2>2 DEF SamePool, TypeOK, NodeState
  <2>4. "kTimeout" \in Results /\ NoCall \notin Calls
    BY CallsAssumption DEF Results
  <2>5. Len(tried[pool[n].call]) = Endpoints[pool[n].call]
    BY <2>2 DEF d
  <2> QED BY <1>1, <2>1, <2>2, <2>3, <2>4, <2>5, EndingProgress
<1> QED BY <1>4, <1>5, <1>6 DEF OnSendRequestFailed

\* A response is of the method its session's call was made to.
LEMMA OnRecvResponseProgress ==
  ASSUME TypeOK, Sessions, Progress, NEW c \in Calls, NEW parses \in BOOLEAN,
         NEW result \in PeerResults, OnRecvResponse(c, parses, result)
  PROVE  Progress'
<1> DEFINE n == FindSessionNode(idOf[c])
<1>1. /\ ~ InDone /\ idOf[c] # 0 /\ n # NoNode
      /\ Method[pool[n].call] = Method[c]
      /\ UNCHANGED <<pool, fired, called, idOf, tried, expired>>
  BY DEF OnRecvResponse, NamesMatch
<1>2. n \in Nodes /\ Occupied(n)
  BY <1>1, FoundIsUndecided
<1>3. CASE parses
  <2>1. RunDone(n, result, c, TRUE)
    BY <1>3 DEF OnRecvResponse
  <2>2. result \in Results /\ c # NoCall
    BY PeerAssumption, CallsAssumption
  <2>3. SamePool
    BY <1>1 DEF SamePool
  <2> HIDE DEF n
  <2> QED BY <1>1, <1>2, <2>1, <2>2, <2>3, EndingProgress
<1>4. CASE ~ parses
  <2>1. UNCHANGED <<outcome, completing>>
    BY <1>4 DEF OnRecvResponse
  <2>2. FiredAreExpired'
    BY <1>1 DEF Progress, FiredAreExpired, Occupied
  <2> QED BY <1>1, <2>1, <2>2, QuietProgress
<1> QED BY <1>3, <1>4

\* A timer closure finds the session whose timer it is.
LEMMA OnSessionTimeoutProgress ==
  ASSUME TypeOK, Sessions, Progress, NEW n \in Nodes, OnSessionTimeout(n)
  PROVE  Progress'
<1>1. /\ ~ InDone /\ n \in fired /\ fired' \subseteq fired
      /\ UNCHANGED <<pool, called, idOf, tried, expired>>
  BY DEF OnSessionTimeout
<1>2. SamePool
  BY <1>1 DEF SamePool
<1>3. CASE Occupied(n)
  <2>1. RunDone(n, "kTimeout", NoCall, FALSE)
    BY <1>3 DEF OnSessionTimeout
  <2>2. "kTimeout" \in Results /\ NoCall \notin Calls
    BY CallsAssumption DEF Results
  <2>3. ~ NestedCalls => pool[n].call \in expired
    BY <1>1, <1>3 DEF Progress, FiredAreExpired
  <2> QED BY <1>1, <1>2, <1>3, <2>1, <2>2, <2>3, EndingProgress
<1>4. CASE ~ Occupied(n)
  <2>1. UNCHANGED <<outcome, completing>>
    BY <1>4 DEF OnSessionTimeout
  <2>2. FiredAreExpired'
    BY <1>1 DEF Progress, FiredAreExpired, Occupied
  <2> QED BY <1>1, <2>1, <2>2, QuietProgress
<1> QED BY <1>3, <1>4

\* The tick's timers are those of the sessions its nodes hold.
LEMMA TickProgress ==
  ASSUME TypeOK, Sessions, Progress, NEW due \in SUBSET armed, Tick(due)
  PROVE  Progress'
<1>1. FiredAreExpired'
  BY DEF Tick, FiredAreExpired, Occupied
<1> QED BY <1>1, QuietProgress DEF Tick

\* The node is freed, nothing else.
LEMMA FinishDoneProgress ==
  ASSUME TypeOK, Sessions, Progress, FinishDone
  PROVE  Progress'
<1> DEFINE n == completing.node
<1>1. /\ n \in Nodes
      /\ pool' = FreeSessionNode(n) /\ completing' = Idle
      /\ UNCHANGED <<fired, called, idOf, tried, outcome, expired>>
  BY DEF FinishDone, TypeOK, InDone
<1>2. \A m \in Nodes : Occupied(m)' => m # n /\ Occupied(m) /\ pool'[m] = pool[m]
  BY <1>1 DEF FreeSessionNode, TypeOK, Occupied
<1>3. SentUpToIndex'
  BY <1>1, <1>2 DEF Progress, SentUpToIndex
<1>4. FiredAreExpired'
  BY <1>1, <1>2 DEF Progress, FiredAreExpired, TypeOK
<1>5. NotSentYet' /\ RetriesInOrder' /\ AnsweredByOwnMethod'
  BY <1>1 DEF Progress, NotSentYet, RetriesInOrder, AnsweredByOwnMethod
<1>6. HonestTimeout => HonestTimeout'
  BY <1>1 DEF HonestTimeout
<1> QED BY <1>3, <1>4, <1>5, <1>6 DEF Progress

\* Whatever handler runs, what was sent and what ended a call stay in keeping.
LEMMA ProgressStep ==
  ASSUME TypeOK, Sessions, Progress, [Next]_vars PROVE Progress'
<1>1. ASSUME NEW c \in Calls, SendEnds(c) PROVE Progress'
  <2>1. FiredAreExpired'
    BY <1>1 DEF SendEnds, Progress, FiredAreExpired, Occupied
  <2> QED BY <1>1, <2>1, QuietProgress DEF SendEnds
<1>2. CASE UNCHANGED vars
  <2>1. FiredAreExpired'
    BY <1>2 DEF vars, Progress, FiredAreExpired, Occupied
  <2> QED BY <1>2, <2>1, QuietProgress DEF vars
<1> QED BY <1>1, <1>2, AddSessionProgress, OnSendRequestFailedProgress,
           OnRecvResponseProgress, TickProgress, OnSessionTimeoutProgress,
           FinishDoneProgress DEF Next

-----------------------------------------------------------------------------
\* The conjuncts together keep themselves, whatever handler runs.
LEMMA StepIInv == IInv /\ [Next]_vars => IInv'
<1>1. IInv <=> TypeOK /\ Sessions /\ Progress
  BY DEF IInv, Sessions, Progress
<1>2. IInv' <=> TypeOK' /\ Sessions' /\ Progress'
  BY DEF IInv, Sessions, Progress
<1> QED BY <1>1, <1>2, SessionsStep, ProgressStep

\* The session table is in a consistent state at every moment.
THEOREM Consistent == Spec => []IInv
BY InitIInv, StepIInv, PTL DEF Spec

\* Every variable keeps its type: ids stay in the core's range, the index in
\* its 16 bits, the lookup in the pool.
THEOREM TypeCorrect == Spec => []TypeOK
<1>1. IInv => TypeOK
  BY DEF IInv
<1> QED BY <1>1, Consistent, PTL

\* No call's done closure runs twice, whatever responses, failures and timers
\* arrive, in whatever order and however ids repeat.
THEOREM DoneOnce == Spec => []DoneAtMostOnce
<1>1. IInv => DoneAtMostOnce
  BY DEF IInv
<1> QED BY <1>1, Consistent, PTL

\* No waiting session is ever without a timer: the one thing that ends it when
\* the network says nothing.
THEOREM NeverUntimed == Spec => []PendingHasTimer
<1>1. IInv => PendingHasTimer
  BY DEF IInv
<1> QED BY <1>1, Consistent, PTL

\* Each retry goes to the next endpoint of the list, and none past its end.
THEOREM Retries == Spec => []RetriesInOrder
<1>1. IInv => RetriesInOrder
  BY DEF IInv
<1> QED BY <1>1, Consistent, PTL

\* A response of another method's call ends no call, even if ids repeat.
THEOREM OwnMethod == Spec => []AnsweredByOwnMethod
<1>1. IInv => AnsweredByOwnMethod
  BY DEF IInv
<1> QED BY <1>1, Consistent, PTL

\* If no done closure issues calls, a call the framework times out has waited
\* its own timeout or has run out of endpoints. (If one does, a timer that was
\* collected for the call before it may end the new one.)
THEOREM Honest == ASSUME ~ NestedCalls PROVE Spec => []HonestTimeout
<1>1. IInv => HonestTimeout
  BY DEF IInv
<1> QED BY <1>1, Consistent, PTL

-----------------------------------------------------------------------------
(* RepliesMatch                                                               *)

\* One subtraction brings a sum of two sequence parts back into range.
LEMMA ModOnce ==
  ASSUME NEW S \in Nat \ {0}, NEW x \in 0 .. 2 * S - 1
  PROVE  x % S = IF x < S THEN x ELSE x - S
<1>1. CASE x >= S
  <2>1. x - S \in 0 .. S - 1
    BY <1>1
  <2> QED BY <1>1, <2>1
<1> QED BY <1>1

\* The id drawn after k draws, the carry taken off by hand.
LEMMA RpcIdAfterOnce ==
  ASSUME next_rpc_id \in RpcIds, NEW k \in 1 .. ScanLength
  PROVE  RpcIdAfter(k) = IF next_rpc_id + k < CoreBase + SeqSpan
                           THEN next_rpc_id + k
                           ELSE next_rpc_id + k - SeqSpan
<1> DEFINE x == next_rpc_id - CoreBase + k
<1>1. CoreBase \in Nat
  BY SpanAssumption, CoreAssumption DEF CoreBase
<1>2. k <= SeqSpan
  BY PoolAssumption, SpanAssumption, PowersAssumption DEF ScanLength
<1>3. x \in 0 .. 2 * SeqSpan - 1
  BY <1>1, <1>2, PoolAssumption, SpanAssumption DEF RpcIds, ScanLength
<1> HIDE DEF x
<1>4. x % SeqSpan = IF x < SeqSpan THEN x ELSE x - SeqSpan
  BY <1>3, ModOnce, SpanAssumption
<1> QED BY <1>1, <1>4, PoolAssumption, SpanAssumption
        DEF x, RpcIdAfter, RpcIds, ScanLength

\* From one id to another is a number of draws.
LEMMA DrawsFromNat ==
  ASSUME NEW id \in RpcIds, NEW last \in RpcIds PROVE DrawsFrom(id, last) \in Nat
<1>1. CoreBase \in Nat
  BY SpanAssumption, CoreAssumption DEF CoreBase
<1> QED BY <1>1, SpanAssumption DEF DrawsFrom, RpcIds

\* Drawing k ids puts each earlier one k further behind, and the new one last.
LEMMA DrawsFromAfter ==
  ASSUME next_rpc_id \in RpcIds, NEW k \in 1 .. ScanLength,
         next_rpc_id' = RpcIdAfter(k)
  PROVE  /\ DrawsFrom(next_rpc_id', next_rpc_id') = 0
         /\ \A id \in RpcIds : DrawsFrom(id, next_rpc_id) + k < SeqSpan =>
              DrawsFrom(id, next_rpc_id') = DrawsFrom(id, next_rpc_id) + k
<1>1. CoreBase \in Nat /\ SeqSpan \in Nat \ {0} /\ k \in Nat \ {0}
  BY SpanAssumption, CoreAssumption, PoolAssumption DEF CoreBase, ScanLength
<1>2. next_rpc_id' = IF next_rpc_id + k < CoreBase + SeqSpan
                       THEN next_rpc_id + k
                       ELSE next_rpc_id + k - SeqSpan
  BY RpcIdAfterOnce
<1> QED BY <1>1, <1>2 DEF DrawsFrom, RpcIds

\* A new id is none of those drawn for earlier calls.
LEMMA OpenSessionIds ==
  ASSUME TypeOK, Progress, IdsOfCallsDiffer, NEW c \in Calls,
         NEW k \in 1 .. ScanLength, OpenSession(c, k)
  PROVE  IdsOfCallsDiffer'
<1> DEFINE id == RpcIdAfter(k)
<1>1. k \in Nat \ {0} /\ drawn \in Nat /\ SeqSpan \in Nat
  BY PoolAssumption, SpanAssumption DEF ScanLength, TypeOK
<1>2. /\ c \notin called
      /\ next_rpc_id' = id /\ drawn' = drawn + k
      /\ idOf' = [idOf EXCEPT ![c] = id]
  BY DEF OpenSession, MayCall
<1>3. idOf'[c] = id /\ \A d \in Calls \ {c} : idOf'[d] = idOf[d]
  BY <1>2 DEF TypeOK
<1>4. SUFFICES ASSUME drawn' <= SeqSpan
               PROVE  /\ \A d \in Calls : idOf'[d] # 0 => DrawsFrom(idOf'[d], next_rpc_id') < drawn'
                      /\ \A d, e \in Calls : idOf'[d] # 0 /\ idOf'[d] = idOf'[e] => d = e
  BY DEF IdsOfCallsDiffer
<1>5. /\ \A d \in Calls : idOf[d] # 0 => DrawsFrom(idOf[d], next_rpc_id) < drawn
      /\ \A d, e \in Calls : idOf[d] # 0 /\ idOf[d] = idOf[e] => d = e
  BY <1>1, <1>2, <1>4 DEF IdsOfCallsDiffer
<1>6. DrawsFrom(id, next_rpc_id') = 0
  BY <1>2, DrawsFromAfter DEF TypeOK
<1> HIDE DEF id
<1>7. ASSUME NEW d \in Calls \ {c}, idOf[d] # 0
      PROVE  DrawsFrom(idOf'[d], next_rpc_id') < drawn' /\ idOf[d] # id
  <2>1. idOf[d] \in RpcIds /\ next_rpc_id \in RpcIds
    BY <1>7 DEF TypeOK
  <2>2. DrawsFrom(idOf[d], next_rpc_id) < drawn
    BY <1>5, <1>7
  <2>3. DrawsFrom(idOf[d], next_rpc_id) \in Nat
    BY <2>1, DrawsFromNat
  <2>4. DrawsFrom(idOf[d], next_rpc_id) + k < SeqSpan
    BY <1>1, <1>2, <1>4, <2>2, <2>3
  <2>5. \A i \in RpcIds : DrawsFrom(i, next_rpc_id) + k < SeqSpan =>
          DrawsFrom(i, next_rpc_id') = DrawsFrom(i, next_rpc_id) + k
    BY <1>2, <2>1, DrawsFromAfter DEF id
  <2>6. idOf'[d] = idOf[d]
    BY <1>3
  <2> QED BY <1>1, <1>2, <1>6, <2>1, <2>2, <2>3, <2>4, <2>5, <2>6
<1> QED BY <1>1, <1>2, <1>3, <1>5, <1>6, <1>7

\* One more outcome, by the call's own response or by none.
LEMMA OneMoreReply ==
  ASSUME TypeOK, RepliesMatch, drawn' \in Nat, drawn <= drawn',
         NEW c \in Calls, outcome[c] = << >>, NEW o,
         drawn' <= SeqSpan => o.by \in {NoCall, c},
         outcome' = [outcome EXCEPT ![c] = Append(@, o)]
  PROVE  RepliesMatch'
<1>2. /\ outcome'[c] = << o >>
      /\ \A d \in Calls \ {c} : outcome'[d] = outcome[d]
  BY DEF TypeOK
<1>3. Len(outcome'[c]) = 1 /\ outcome'[c][1] = o
  BY <1>2
<1> SUFFICES ASSUME drawn' <= SeqSpan,
                    NEW d \in Calls, NEW i \in 1 .. Len(outcome'[d])
             PROVE  outcome'[d][i].by \in {NoCall, d}
  BY DEF RepliesMatch
<1>4. CASE d = c
  BY <1>3, <1>4
<1>5. CASE d # c
  BY <1>2, <1>5, SpanAssumption DEF RepliesMatch, TypeOK
<1> QED BY <1>4, <1>5

\* The same of a handler that runs done.
LEMMA DoneReply ==
  ASSUME TypeOK, RepliesMatch, drawn' = drawn,
         NEW n, pool[n].call \in Calls, outcome[pool[n].call] = << >>,
         NEW result, NEW by, NEW cancel, RunDone(n, result, by, cancel),
         drawn <= SeqSpan => by \in {NoCall, pool[n].call}
  PROVE  RepliesMatch'
<1> DEFINE c == pool[n].call
           o == [result |-> result, by |-> by]
<1>1. o.by = by /\ outcome' = [outcome EXCEPT ![c] = Append(@, o)]
  BY DEF RunDone
<1>2. drawn' \in Nat /\ drawn <= drawn'
  BY DEF TypeOK
<1> HIDE DEF c, o
<1>3. c \in Calls /\ outcome[c] = << >> /\ (drawn' <= SeqSpan => o.by \in {NoCall, c})
  BY <1>1 DEF c
<1> QED BY <1>1, <1>2, <1>3, OneMoreReply

\* A step that ends no call leaves the replies as they are.
LEMMA NoMoreReply ==
  ASSUME TypeOK, RepliesMatch, drawn' \in Nat, drawn <= drawn', outcome' = outcome
  PROVE  RepliesMatch'
BY SpanAssumption DEF RepliesMatch, TypeOK

\* While ids differ, a response's id leads to the call it answers.
LEMMA ResponseFindsOwnCall ==
  ASSUME TypeOK, Sessions, IdsOfCallsDiffer, drawn <= SeqSpan, ~ InDone,
         NEW c \in Calls, idOf[c] # 0, FindSessionNode(idOf[c]) # NoNode
  PROVE  pool[FindSessionNode(idOf[c])].call = c
<1> DEFINE n == FindSessionNode(idOf[c])
<1>1. n \in Nodes /\ Occupied(n) /\ pool[n].call \in Calls
  BY FoundIsUndecided
<1>2. pool[n].rpc_id = idOf[c]
  BY DEF FindSessionNode
<1>3. idOf[pool[n].call] = idOf[c]
  BY <1>1, <1>2 DEF Sessions, NodesHoldCalls
<1> HIDE DEF n
<1>4. pool[n].call = c
  BY <1>1, <1>3 DEF IdsOfCallsDiffer
<1> QED BY <1>4 DEF n

\* An empty table has drawn no id.
LEMMA InitIdInv == Init => IdInv
BY SpanAssumption DEF Init, IdInv, IdsOfCallsDiffer, RepliesMatch

\* Ids keep differing, and so replies keep matching, until they repeat.
LEMMA StepIdInv ==
  ASSUME TypeOK, TypeOK', Sessions, Progress, IdInv, [Next]_vars
  PROVE  IdInv'
<1> USE DEF IdInv
<1>1. drawn \in Nat /\ drawn' \in Nat /\ SeqSpan \in Nat
  BY SpanAssumption DEF TypeOK
<1>2. ASSUME NEW c \in Calls, AddSession(c) PROVE IdInv'
  <2>1. CASE RejectOversize(c)
    BY <1>1, <2>1, NoMoreReply DEF RejectOversize, IdsOfCallsDiffer, DrawsFrom
  <2>2. CASE PoolExhausted(c)
    <3>1. /\ drawn <= drawn' /\ drawn' = drawn + ScanLength
          /\ next_rpc_id' = RpcIdAfter(ScanLength) /\ idOf' = idOf
          /\ outcome' = [outcome EXCEPT ![c] =
                           Append(@, [result |-> "kInError", by |-> NoCall])]
      BY <1>1, <2>2, PoolAssumption DEF PoolExhausted, ScanLength
    <3>2. outcome[c] = << >>
      BY <2>2 DEF PoolExhausted, MayCall, Sessions, NotCalledYet
    <3>3. RepliesMatch'
      <4> DEFINE o == [result |-> "kInError", by |-> NoCall]
      <4>1. o.by = NoCall /\ outcome' = [outcome EXCEPT ![c] = Append(@, o)]
        BY <3>1
      <4> HIDE DEF o
      <4> QED BY <1>1, <3>1, <3>2, <4>1, OneMoreReply
    <3>4. IdsOfCallsDiffer'
      <4>1. SUFFICES ASSUME drawn' <= SeqSpan, NEW d \in Calls, idOf[d] # 0
                     PROVE  DrawsFrom(idOf'[d], next_rpc_id') < drawn'
        BY <1>1, <3>1 DEF IdsOfCallsDiffer
      <4>2. DrawsFrom(idOf[d], next_rpc_id) < drawn
        BY <1>1, <3>1, <4>1 DEF IdsOfCallsDiffer
      <4>3. ScanLength \in 1 .. ScanLength
        BY PoolAssumption DEF ScanLength
      <4>4. idOf[d] \in RpcIds
        BY <4>1 DEF TypeOK
      <4>5. DrawsFrom(idOf[d], next_rpc_id) \in Nat
        BY <4>4, DrawsFromNat DEF TypeOK
      <4>6. \A id \in RpcIds : DrawsFrom(id, next_rpc_id) + ScanLength < SeqSpan =>
              DrawsFrom(id, next_rpc_id') = DrawsFrom(id, next_rpc_id) + ScanLength
        BY <3>1, <4>3, DrawsFromAfter DEF TypeOK
      <4> QED BY <1>1, <3>1, <4>1, <4>2, <4>3, <4>4, <4>5, <4>6
    <3> QED BY <3>3, <3>4
  <2>3. ASSUME NEW k \in 1 .. ScanLength, OpenSession(c, k) PROVE IdInv'
    <3>1. drawn <= drawn' /\ outcome' = outcome
      BY <1>1, <2>3, PoolAssumption DEF OpenSession, ScanLength
    <3> QED BY <1>1, <2>3, <3>1, OpenSessionIds, NoMoreReply
  <2> QED BY <1>2, <2>1, <2>2, <2>3 DEF AddSession
<1>3. ASSUME UNCHANGED <<next_rpc_id, idOf, drawn>> PROVE IdsOfCallsDiffer'
  BY <1>3 DEF IdsOfCallsDiffer, DrawsFrom
<1>4. ASSUME NEW c \in Calls, SendEnds(c) PROVE IdInv'
  BY <1>1, <1>3, <1>4, NoMoreReply DEF SendEnds
<1>5. ASSUME NEW c \in Calls, OnSendRequestFailed(c) PROVE IdInv'
  <2> DEFINE n == FindSessionNode(idOf[c])
  <2>1. /\ ~ InDone /\ idOf[c] # 0
        /\ UNCHANGED <<next_rpc_id, idOf, drawn>>
    BY <1>5 DEF OnSendRequestFailed, Sessions, SentCallsHaveIds
  <2>2. CASE outcome' = outcome
    BY <1>1, <1>3, <2>1, <2>2, NoMoreReply
  <2>3. CASE AllEndpointsFailed(c)
    <3>1. n # NoNode /\ RunDone(n, "kTimeout", NoCall, TRUE)
      BY <2>3 DEF AllEndpointsFailed
    <3>2. pool[n].call \in Calls /\ outcome[pool[n].call] = << >>
      BY <2>1, <3>1, FoundIsUndecided
    <3> HIDE DEF n
    <3>3. RepliesMatch'
      BY <1>1, <2>1, <3>1, <3>2, DoneReply
    <3> QED BY <1>3, <2>1, <3>3
  <2> QED BY <1>5, <2>2, <2>3 DEF OnSendRequestFailed, NoSession, TryNextEndpoint
<1>6. ASSUME NEW c \in Calls, NEW parses \in BOOLEAN, NEW result \in PeerResults,
             OnRecvResponse(c, parses, result)
      PROVE  IdInv'
  <2> DEFINE n == FindSessionNode(idOf[c])
  <2>1. /\ ~ InDone /\ idOf[c] # 0 /\ n # NoNode
        /\ UNCHANGED <<next_rpc_id, idOf, drawn>>
    BY <1>6 DEF OnRecvResponse
  <2>2. CASE outcome' = outcome
    BY <1>1, <1>3, <2>1, <2>2, NoMoreReply
  <2>3. CASE RunDone(n, result, c, TRUE)
    <3>1. pool[n].call \in Calls /\ outcome[pool[n].call] = << >>
      BY <2>1, FoundIsUndecided
    <3>2. drawn <= SeqSpan => pool[n].call = c
      BY <2>1, ResponseFindsOwnCall
    <3> HIDE DEF n
    <3>3. RepliesMatch'
      BY <1>1, <2>1, <2>3, <3>1, <3>2, DoneReply
    <3> QED BY <1>3, <2>1, <3>3
  <2> QED BY <1>6, <2>2, <2>3 DEF OnRecvResponse
<1>7. ASSUME NEW due \in SUBSET armed, Tick(due) PROVE IdInv'
  BY <1>1, <1>3, <1>7, NoMoreReply DEF Tick
<1>8. ASSUME NEW n \in Nodes, OnSessionTimeout(n) PROVE IdInv'
  <2>1. ~ InDone /\ UNCHANGED <<next_rpc_id, idOf, drawn>>
    BY <1>8 DEF OnSessionTimeout
  <2>2. CASE outcome' = outcome
    BY <1>1, <1>3, <2>1, <2>2, NoMoreReply
  <2>3. CASE Occupied(n) /\ RunDone(n, "kTimeout", NoCall, FALSE)
    <3>1. pool[n].call \in Calls /\ outcome[pool[n].call] = << >>
      BY <2>1, <2>3, TakenIsUndecided
    <3>2. RepliesMatch'
      BY <1>1, <2>1, <2>3, <3>1, DoneReply
    <3> QED BY <1>3, <2>1, <3>2
  <2> QED BY <1>8, <2>2, <2>3 DEF OnSessionTimeout
<1>9. CASE FinishDone
  BY <1>1, <1>3, <1>9, NoMoreReply DEF FinishDone
<1>10. CASE UNCHANGED vars
  BY <1>1, <1>3, <1>10, NoMoreReply DEF vars
<1> QED BY <1>2, <1>4, <1>5, <1>6, <1>7, <1>8, <1>9, <1>10 DEF Next

\* Until the sequence part of the id has been drawn round once, no two calls
\* have the same id, and no call is ended by a response to another one.
THEOREM IdsAndReplies == Spec => []IdInv
<1>1. IInv => TypeOK /\ Sessions /\ Progress
  BY DEF IInv, Sessions, Progress
<1>2. IInv /\ IInv' /\ IdInv /\ [Next]_vars => IdInv'
  <2>1. IInv' => TypeOK'
    BY DEF IInv
  <2> QED BY <1>1, <2>1, StepIdInv
<1> QED BY <1>2, Consistent, InitIdInv, PTL DEF Spec

\* Until the ids have been drawn round once, a call's done closure is run by
\* its own response or by none, however late and however often answers come.
THEOREM OwnReply == Spec => []RepliesMatch
<1>1. IdInv => RepliesMatch
  BY DEF IdInv
<1> QED BY <1>1, IdsAndReplies, PTL

-----------------------------------------------------------------------------
(* NoTouchAfterDone                                                           *)

Untouched(c) == /\ response'[c] = response[c]
                /\ tried'[c] = tried[c]
                /\ outcome'[c] = outcome[c]

\* No handler writes anything of a call whose done has begun to run.
LEMMA StepUntouched ==
  ASSUME TypeOK, Sessions, [Next]_vars, NEW c \in Calls, outcome[c] # << >>
  PROVE  Untouched(c)
<1> USE DEF Untouched
<1>1. c \in called
  BY DEF Sessions, NotCalledYet
<1>2. ASSUME NEW d \in Calls, AddSession(d) PROVE Untouched(c)
  <2>1. d # c
    BY <1>1, <1>2 DEF AddSession, RejectOversize, PoolExhausted, OpenSession,
                      MayCall
  <2>2. CASE RejectOversize(d)
    BY <2>2 DEF RejectOversize
  <2>3. CASE PoolExhausted(d)
    BY <2>1, <2>3 DEF PoolExhausted, TypeOK
  <2>4. CASE \E k \in 1 .. ScanLength : OpenSession(d, k)
    BY <2>1, <2>4 DEF OpenSession, TypeOK
  <2> QED BY <1>2, <2>2, <2>3, <2>4 DEF AddSession
<1>3. ASSUME NEW d \in Calls, SendEnds(d) PROVE Untouched(c)
  BY <1>3 DEF SendEnds
<1>4. ASSUME NEW d \in Calls, OnSendRequestFailed(d) PROVE Untouched(c)
  <2> DEFINE n == FindSessionNode(idOf[d])
  <2>1. ~ InDone /\ idOf[d] # 0 /\ response' = response
    BY <1>4 DEF OnSendRequestFailed, Sessions, SentCallsHaveIds
  <2>2. n # NoNode => pool[n].call # c
    BY <2>1, FoundIsUndecided
  <2>3. CASE NoSession(d)
    BY <2>1, <2>3 DEF NoSession
  <2>4. CASE TryNextEndpoint(d)
    BY <2>1, <2>2, <2>4 DEF TryNextEndpoint, TypeOK
  <2>5. CASE AllEndpointsFailed(d)
    BY <2>1, <2>2, <2>5 DEF AllEndpointsFailed, RunDone, TypeOK
  <2> QED BY <1>4, <2>3, <2>4, <2>5 DEF OnSendRequestFailed
<1>5. ASSUME NEW d \in Calls, NEW parses \in BOOLEAN, NEW result \in PeerResults,
             OnRecvResponse(d, parses, result)
      PROVE  Untouched(c)
  <2> DEFINE n == FindSessionNode(idOf[d])
  <2>1. ~ InDone /\ idOf[d] # 0 /\ n # NoNode /\ tried' = tried
    BY <1>5 DEF OnRecvResponse
  <2>2. pool[n].call # c
    BY <2>1, FoundIsUndecided
  <2> QED BY <1>5, <2>1, <2>2 DEF OnRecvResponse, RunDone, TypeOK
<1>6. ASSUME NEW due \in SUBSET armed, Tick(due) PROVE Untouched(c)
  BY <1>6 DEF Tick
<1>7. ASSUME NEW n \in Nodes, OnSessionTimeout(n) PROVE Untouched(c)
  <2>1. ~ InDone /\ response' = response /\ tried' = tried
    BY <1>7 DEF OnSessionTimeout
  <2>2. CASE Occupied(n)
    <3>1. pool[n].call # c
      BY <2>1, <2>2, TakenIsUndecided
    <3> QED BY <1>7, <2>1, <2>2, <3>1 DEF OnSessionTimeout, RunDone, TypeOK
  <2>3. CASE ~ Occupied(n)
    BY <1>7, <2>1, <2>3 DEF OnSessionTimeout
  <2> QED BY <2>2, <2>3
<1>8. CASE FinishDone
  BY <1>8 DEF FinishDone
<1>9. CASE UNCHANGED vars
  BY <1>9 DEF vars
<1> QED BY <1>2, <1>3, <1>4, <1>5, <1>6, <1>7, <1>8, <1>9 DEF Next

\* After done has begun to run for a call, no handler writes its response,
\* sends its request or runs done again.
THEOREM HandsOff == Spec => NoTouchAfterDone
<1>1. IInv /\ [Next]_vars
        => [\A c \in Calls : outcome[c] # << >> =>
              /\ response'[c] = response[c]
              /\ tried'[c] = tried[c]
              /\ outcome'[c] = outcome[c]]_vars
  BY StepUntouched DEF IInv, Sessions, Untouched
<1> QED BY <1>1, Consistent, PTL DEF Spec, NoTouchAfterDone

-----------------------------------------------------------------------------
(* NoCallForgotten                                                            *)

HasNode(c) == \E n \in Nodes : HeldBy(n, c)

\* The node of a call whose done has not run waits with a timer.
LEMMA HeldIsTimed ==
  ASSUME TypeOK, Sessions, NEW c \in Calls, outcome[c] = << >>,
         NEW n \in Nodes, HeldBy(n, c)
  PROVE  n \in armed \cup fired
<1>1. n # completing.node
  BY DEF HeldBy, Sessions, OutcomeOfNode
<1> QED BY <1>1 DEF HeldBy, Sessions, PendingHasTimer

\* The calls nothing stands for are those without a node.
LEMMA ForgottenHasNoNode ==
  ASSUME TypeOK, Sessions, NEW c
  PROVE  c \in Forgotten <=> /\ c \in called /\ Endpoints[c] <= IndexSpan
                             /\ outcome[c] = << >> /\ ~ HasNode(c)
<1>1. called \subseteq Calls /\ armed \cup fired \subseteq Nodes
  BY DEF TypeOK
<1> QED BY <1>1, HeldIsTimed DEF Forgotten, HasNode

\* A failed send leaves every node with its session.
LEMMA OnSendRequestFailedPool ==
  ASSUME TypeOK, Sessions, NEW c \in Calls, OnSendRequestFailed(c)
  PROVE  SamePool
<1> DEFINE n == FindSessionNode(idOf[c])
<1>1. ~ InDone /\ idOf[c] # 0
  BY DEF OnSendRequestFailed, Sessions, SentCallsHaveIds
<1>2. n # NoNode => n \in Nodes
  BY <1>1, FoundIsUndecided
<1>3. CASE NoSession(c)
  BY <1>3 DEF NoSession, SamePool
<1>4. ASSUME n # NoNode, pool' = [pool EXCEPT ![n].endpoint_index = NextIndex(n)]
      PROVE  SamePool
  <2> DEFINE i == NextIndex(n)
  <2>1. n \in Nodes /\ pool' = [pool EXCEPT ![n].endpoint_index = i]
    BY <1>2, <1>4
  <2> HIDE DEF i, n
  <2> QED BY <2>1 DEF TypeOK, NodeState, SamePool
<1> QED BY <1>3, <1>4 DEF OnSendRequestFailed, TryNextEndpoint, AllEndpointsFailed

\* A call keeps its node until its done has run.
LEMMA StepHolds ==
  ASSUME TypeOK, Sessions, [Next]_vars,
         NEW c \in called', Endpoints[c] <= IndexSpan, outcome'[c] = << >>,
         c \in called => outcome[c] = << >> /\ HasNode(c)
  PROVE  HasNode(c)'
<1>1. ASSUME c \in called, SamePool PROVE HasNode(c)'
  BY <1>1 DEF HasNode, HeldBy, SamePool, Occupied
<1>2. ASSUME NEW d \in Calls, AddSession(d) PROVE HasNode(c)'
  <2>1. d \notin called
    BY <1>2 DEF AddSession, RejectOversize, PoolExhausted, OpenSession, MayCall
  <2>2. CASE RejectOversize(d)
    <3>1. Endpoints[d] > IndexSpan /\ Endpoints[d] \in Nat /\ called' = called \cup {d} /\ pool' = pool
      BY <2>2, EndpointsAssumption DEF RejectOversize
    <3>2. c # d
      BY <3>1, SpanAssumption
    <3>3. c \in called
      BY <3>1, <3>2
    <3> QED BY <1>1, <3>1, <3>3 DEF SamePool
  <2>3. CASE PoolExhausted(d)
    <3> DEFINE o == [result |-> "kInError", by |-> NoCall]
    <3>1. /\ outcome' = [outcome EXCEPT ![d] = Append(@, o)]
          /\ called' = called \cup {d} /\ pool' = pool
      BY <2>3 DEF PoolExhausted
    <3> HIDE DEF o
    <3>2. outcome'[d] = Append(outcome[d], o) /\ outcome[d] \in Seq(Outcomes)
      BY <3>1 DEF TypeOK
    <3>3. outcome'[d] # << >>
      BY <3>2
    <3>4. c # d
      BY <3>3
    <3> QED BY <1>1, <3>1, <3>4 DEF SamePool
  <2>4. ASSUME NEW k \in 1 .. ScanLength, OpenSession(d, k) PROVE HasNode(c)'
    <3> DEFINE n == NodeOf(RpcIdAfter(k))
    <3>1. k \in Nat \ {0}
      BY PoolAssumption DEF ScanLength
    <3>2. RpcIdAfter(k) \in Nat \ {0} /\ n \in Nodes
      BY <3>1, RpcIdInRange, RpcIdsArePositive, NodeOfIsNode DEF TypeOK
    <3>3. /\ ~ Occupied(n) /\ called' = called \cup {d}
          /\ pool' = [pool EXCEPT ![n] = [rpc_id |-> RpcIdAfter(k), call |-> d,
                                         endpoint_index |-> 0]]
      BY <2>4 DEF OpenSession, FirstEmpty, EmptyAt
    <3> HIDE DEF n
    <3>4. CASE c = d
      <4>1. pool'[n].rpc_id = RpcIdAfter(k) /\ pool'[n].call = d
        BY <3>2, <3>3 DEF TypeOK
      <4> QED BY <3>2, <3>4, <4>1 DEF HasNode, HeldBy, Occupied
    <3>5. CASE c # d
      <4>1. PICK m \in Nodes : HeldBy(m, c)
        BY <3>3, <3>5 DEF HasNode
      <4>2. m # n /\ pool'[m] = pool[m]
        BY <3>3, <4>1 DEF HeldBy, TypeOK
      <4> QED BY <4>1, <4>2 DEF HasNode, HeldBy, Occupied
    <3> QED BY <3>4, <3>5
  <2> QED BY <1>2, <2>2, <2>3, <2>4 DEF AddSession
<1>3. ASSUME called' = called, SamePool PROVE HasNode(c)'
  BY <1>1, <1>3
<1>4. ASSUME NEW d \in Calls, SendEnds(d) PROVE HasNode(c)'
  BY <1>3, <1>4 DEF SendEnds, SamePool
<1>5. ASSUME NEW d \in Calls, OnSendRequestFailed(d) PROVE HasNode(c)'
  <2>1. called' = called
    BY <1>5 DEF OnSendRequestFailed
  <2>2. SamePool
    BY <1>5, OnSendRequestFailedPool
  <2> QED BY <1>3, <2>1, <2>2
<1>6. ASSUME NEW d \in Calls, NEW parses \in BOOLEAN, NEW result \in PeerResults,
             OnRecvResponse(d, parses, result)
      PROVE  HasNode(c)'
  BY <1>3, <1>6 DEF OnRecvResponse, SamePool
<1>7. ASSUME NEW due \in SUBSET armed, Tick(due) PROVE HasNode(c)'
  BY <1>3, <1>7 DEF Tick, SamePool
<1>8. ASSUME NEW n \in Nodes, OnSessionTimeout(n) PROVE HasNode(c)'
  BY <1>3, <1>8 DEF OnSessionTimeout, SamePool
<1>9. CASE FinishDone
  <2> DEFINE n == completing.node
  <2>1. /\ n \in Nodes /\ Occupied(n) /\ pool' = FreeSessionNode(n)
        /\ outcome' = outcome /\ called' = called
    BY <1>9 DEF FinishDone, TypeOK, InDone, Sessions, RunningNodeTaken
  <2>2. Len(outcome[pool[n].call]) = 1
    BY <2>1 DEF Sessions, OutcomeOfNode
  <2> HIDE DEF n
  <2>3. PICK m \in Nodes : HeldBy(m, c)
    BY <2>1 DEF HasNode
  <2>4. m # n
    <3>1. pool[m].call = c /\ outcome[c] = << >>
      BY <2>1, <2>3 DEF HeldBy
    <3>2. pool[n].call # c
      <4>1. Len(<< >>) = 0
        OBVIOUS
      <4>2. Len(outcome[c]) = 0
        BY <3>1, <4>1, Zenon
      <4>3. Len(outcome[pool[n].call]) # Len(outcome[c])
        BY ONLY <2>2, <4>2
      <4> QED BY ONLY <4>3, Zenon
    <3> QED BY ONLY <3>1, <3>2
  <2>5. pool'[m] = pool[m]
    BY <2>1, <2>4 DEF FreeSessionNode, TypeOK
  <2> QED BY <2>3, <2>5 DEF HasNode, HeldBy, Occupied
<1>10. CASE UNCHANGED vars
  BY <1>3, <1>10 DEF vars, SamePool
<1> QED BY <1>2, <1>4, <1>5, <1>6, <1>7, <1>8, <1>9, <1>10 DEF Next

\* No step of the table forgets a call it had not forgotten.
LEMMA StepForgetsNone ==
  ASSUME TypeOK, TypeOK', Sessions, Sessions', [Next]_vars
  PROVE  Forgotten' \subseteq Forgotten
<1> SUFFICES ASSUME NEW c \in Forgotten', c \notin Forgotten PROVE FALSE
  OBVIOUS
<1>1. /\ c \in called' /\ Endpoints[c] <= IndexSpan
      /\ outcome'[c] = << >> /\ ~ HasNode(c)'
  <2>1. /\ c \in called' /\ Endpoints[c] <= IndexSpan /\ outcome'[c] = << >>
        /\ ~ \E n \in armed' \cup fired' : HeldBy(n, c)'
    BY DEF Forgotten
  <2>2. \A n \in Nodes : HeldBy(n, c)' => n \in armed' \cup fired'
    BY <2>1 DEF HeldBy, Sessions, OutcomeOfNode, PendingHasTimer
  <2> QED BY <2>1, <2>2 DEF HasNode
<1>2. c \in called => outcome[c] = << >>
  BY <1>1, StepUntouched DEF Untouched, TypeOK
<1>3. c \in called => HasNode(c)
  BY <1>1, <1>2, ForgottenHasNoNode
<1> QED BY <1>1, <1>2, <1>3, StepHolds

\* No call that AddSession accepted is left without an outcome and without a
\* node whose timer will give it one.
THEOREM NothingForgotten == Spec => []NoCallForgotten
<1>1. Init => NoCallForgotten
  BY DEF Init, NoCallForgotten, Forgotten
<1>2. IInv /\ IInv' /\ NoCallForgotten /\ [Next]_vars => NoCallForgotten'
  <2>1. IInv => TypeOK /\ Sessions
    BY DEF IInv, Sessions
  <2>2. IInv' => TypeOK' /\ Sessions'
    BY DEF IInv, Sessions
  <2> QED BY <2>1, <2>2, StepForgetsNone DEF NoCallForgotten
<1> QED BY <1>1, <1>2, Consistent, PTL DEF Spec

-----------------------------------------------------------------------------
(* Whose ids they are.                                                        *)

\* The high bits of an id drawn are the core's number and one, wherever its
\* sequence number has got to.
LEMMA IdsOfCore == ASSUME NEW id \in RpcIds PROVE DstCoreOf(id) = CoreId /\ id # 0
<1> DEFINE S == SeqSpan
           q == CoreId + 1
           r == id - q * S
<1>1. S \in Nat \ {0} /\ q \in Nat \ {0}
  BY SpanAssumption, CoreAssumption
<1>2. q * S \in Nat /\ q * S >= S
  <2>1. q * S = CoreId * S + S
    BY SpanAssumption, CoreAssumption
  <2>2. CoreId * S \in Nat
    BY SpanAssumption, CoreAssumption
  <2> QED BY <1>1, <2>1, <2>2
<1>3. id \in q * S .. q * S + S - 1
  BY DEF RpcIds, CoreBase
<1> HIDE DEF S, q
<1>4. r \in 0 .. S - 1 /\ id = q * S + r /\ id # 0
  BY <1>1, <1>2, <1>3
<1> HIDE DEF r
<1>5. (q * S + r) \div S = q
  BY ONLY <1>1, <1>4
<1> USE DEF q, S
<1> QED BY <1>4, <1>5, CoreAssumption DEF DstCoreOf

\* Whatever response or failure report names a call of this table, the id in it
\* leads OnRecvPacket and OnSendPacketFailed to this core: the table that gave the
\* id out is the only one it is looked up in.
IdsLeadHome ==
  /\ \A c \in Calls : idOf[c] # 0 => DstCoreOf(idOf[c]) = CoreId
  /\ \A n \in Nodes : pool[n].rpc_id # 0 => DstCoreOf(pool[n].rpc_id) = CoreId

THEOREM IdsNameTheirCore == Spec => []IdsLeadHome
<1>1. ASSUME TypeOK PROVE IdsLeadHome
  <2>1. \A c \in Calls : idOf[c] \in {0} \cup RpcIds
    BY <1>1 DEF TypeOK
  <2>2. \A n \in Nodes : pool[n].rpc_id \in {0} \cup RpcIds
    BY <1>1 DEF TypeOK, NodeState
  <2> QED BY <2>1, <2>2, IdsOfCore DEF IdsLeadHome
<1>2. TypeOK => IdsLeadHome
  BY <1>1
<1> QED BY <1>2, TypeCorrect, PTL
=============================================================================
