-------------------------- MODULE RpcSystemProofs --------------------------
(* What a client, its servers and the network between them promise, in every  *)
(* life of the client: RpcSystem keeps the session table's invariant across   *)
(* restarts, gives no call the response to another, and keeps RemoteCall's    *)
(* promise.                                                                   *)
EXTENDS RpcSystem, RpcSessionTableProofs

-----------------------------------------------------------------------------
(* The session table inside the system.                                       *)

\* A step of the system is a step of the session table, none, or a restart.
LEMMA TableSteps ==
  ASSUME SystemTypeOK, [SystemNext]_systemVars
  PROVE  [Next]_vars \/ Restart
<1>1. CASE ClientStep
  BY <1>1 DEF ClientStep, Next
<1>2. ASSUME NEW request \in requests, NEW result \in PeerResults,
             Serve(request, result)
      PROVE  UNCHANGED vars
  BY <1>2 DEF Serve
<1>3. ASSUME NEW r \in responses, Deliver(r) PROVE Next
  <2>1. r.call \in Calls /\ r.result \in PeerResults
    BY DEF SystemTypeOK
  <2> QED BY <1>3, <2>1 DEF Deliver, Next
<1>4. CASE UNCHANGED systemVars
  BY <1>4 DEF systemVars
<1> QED BY <1>1, <1>2, <1>3, <1>4 DEF SystemNext

\* The empty table of a new life is consistent with the calls of the former.
LEMMA RestartIInv == ASSUME IInv, Restart PROVE IInv'
<1>1. next_rpc_id' \in RpcIds
  <2>1. CoreBase \in Nat
    BY SpanAssumption, CoreAssumption DEF CoreBase
  <2> QED BY <2>1, RestartAssumption, SpanAssumption DEF Restart, RpcIds
<1>2. pool' \in [Nodes -> NodeState]
  BY SpanAssumption DEF Restart, NodeState
<1>3. TypeOK'
  BY <1>1, <1>2 DEF Restart, IInv, TypeOK, Idle
<1>4. \A n \in Nodes : ~ Occupied(n)'
  BY DEF Restart, Occupied
<1>5. ~ InDone'
  BY DEF Restart, InDone, Idle
<1>6. /\ NodesHoldCalls' /\ SentCallsHaveIds' /\ OutcomeOfNode' /\ RunningNodeTaken'
      /\ PendingHasTimer' /\ SentUpToIndex' /\ FiredAreExpired'
  BY <1>4, <1>5
     DEF Restart, NodesHoldCalls, SentCallsHaveIds, OutcomeOfNode, RunningNodeTaken,
         PendingHasTimer, SentUpToIndex, FiredAreExpired
<1>7. /\ NotCalledYet' /\ DoneAtMostOnce' /\ NotSentYet' /\ RetriesInOrder'
      /\ AnsweredByOwnMethod' /\ (~ NestedCalls => HonestTimeout')
  BY DEF Restart, IInv, NotCalledYet, DoneAtMostOnce, NotSentYet, RetriesInOrder,
         AnsweredByOwnMethod, HonestTimeout
<1> QED BY <1>3, <1>6, <1>7 DEF IInv

\* The table's invariant survives every step of the system.
LEMMA SystemStepIInv ==
  ASSUME IInv, SystemTypeOK, [SystemNext]_systemVars PROVE IInv'
BY TableSteps, RestartIInv, StepIInv

-----------------------------------------------------------------------------
(* The ids drawn.                                                             *)

\* A number is its quotient's multiple and its remainder.
LEMMA Division ==
  ASSUME NEW S \in Nat \ {0}, NEW n \in Nat
  PROVE  n \div S \in Nat /\ n % S \in 0 .. S - 1 /\ n = (n \div S) * S + (n % S)
OBVIOUS

\* Remainders add up.
LEMMA ModAdd ==
  ASSUME NEW S \in Nat \ {0}, NEW a \in Nat, NEW k \in Nat
  PROVE  ((a % S) + k) % S = (a + k) % S
<1> DEFINE q == a \div S
           b == (a % S) + k
           p == b \div S
           r == b % S
<1>1. q \in Nat /\ a % S \in 0 .. S - 1 /\ a = q * S + (a % S)
  BY Division
<1>2. b \in Nat /\ a + k = q * S + b
  BY <1>1
<1> HIDE DEF b, q
<1>3. p \in Nat /\ r \in 0 .. S - 1 /\ b = p * S + r
  BY <1>2
<1> HIDE DEF p, r
<1>4. a + k = (q + p) * S + r /\ q + p \in Nat
  BY <1>1, <1>2, <1>3
<1>5. (a + k) % S = r
  BY <1>3, <1>4, Remainder
<1> QED BY <1>5 DEF b, r

\* Fewer draws apart than the span, two draws differ.
LEMMA DifferentDraws ==
  ASSUME NEW S \in Nat \ {0}, NEW f \in Nat, NEW i \in Nat, NEW j \in Nat,
         i < j, j - i < S
  PROVE  (f + i) % S # (f + j) % S
<1> SUFFICES ASSUME (f + i) % S = (f + j) % S PROVE FALSE
  OBVIOUS
<1> DEFINE a == (f + i) \div S
           b == (f + j) \div S
<1>1. /\ a \in Nat /\ b \in Nat /\ (f + i) % S \in Nat
      /\ f + i = a * S + ((f + i) % S)
      /\ f + j = b * S + ((f + j) % S)
  <2>1. f + i \in Nat /\ f + j \in Nat
    OBVIOUS
  <2>2. f + i = a * S + ((f + i) % S) /\ a \in Nat /\ (f + i) % S \in 0 .. S - 1
    BY ONLY <2>1, S \in Nat \ {0}, Division
  <2>3. f + j = b * S + ((f + j) % S) /\ b \in Nat
    BY ONLY <2>1, S \in Nat \ {0}, Division
  <2> HIDE DEF a, b
  <2> QED BY <2>2, <2>3
<1> HIDE DEF a, b
<1>2. j - i = b * S - a * S
  BY <1>1
<1>3. j - i = (b - a) * S
  BY <1>1, <1>2
<1>4. CASE b - a >= 1
  <2>1. (b - a) * S >= S
    BY <1>1, <1>4
  <2> QED BY <1>3, <2>1
<1>5. CASE b - a <= 0
  <2>1. (b - a) * S <= 0
    BY <1>1, <1>5
  <2> QED BY <1>3, <2>1
<1> QED BY <1>1, <1>4, <1>5

\* The ids of the system, next to the ids of the table.
Ids == CountedFromFirst /\ IdsWereDrawn /\ CallsHaveOwnIds

\* The first id's distance from the core's base, as a number.
LEMMA IdNumbers ==
  ASSUME SystemTypeOK
  PROVE  /\ SeqSpan \in Nat \ {0} /\ CoreBase \in Nat
         /\ first - CoreBase \in Nat
<1>1. CoreBase \in Nat
  BY SpanAssumption, CoreAssumption DEF CoreBase
<1> QED BY <1>1, SpanAssumption DEF SystemTypeOK, RpcIds

\* No draw leaves the first id.
LEMMA NoDraw ==
  ASSUME NEW id \in RpcIds
  PROVE  id = CoreBase + ((id - CoreBase + 0) % SeqSpan)
<1> DEFINE f == id - CoreBase
<1>1. CoreBase \in Nat /\ SeqSpan \in Nat \ {0}
  BY SpanAssumption, CoreAssumption DEF CoreBase
<1>2. f \in 0 .. SeqSpan - 1 /\ id = CoreBase + f
  BY <1>1 DEF RpcIds
<1> HIDE DEF f
<1>3. (f + 0) % SeqSpan = f
  BY <1>1, <1>2
<1> QED BY <1>2, <1>3 DEF f

\* Drawing k ids more.
LEMMA Draws ==
  ASSUME TypeOK, SystemTypeOK, CountedFromFirst, NEW k \in Nat \ {0},
         next_rpc_id' = RpcIdAfter(k), drawn' = drawn + k, first' = first
  PROVE  /\ CountedFromFirst'
         /\ DrawnIds \subseteq DrawnIds'
         /\ next_rpc_id' \in DrawnIds'
         /\ drawn' <= SeqSpan => next_rpc_id' \notin DrawnIds
<1> DEFINE f == first - CoreBase
<1>1. SeqSpan \in Nat \ {0} /\ CoreBase \in Nat /\ f \in Nat /\ drawn \in Nat
  BY IdNumbers DEF TypeOK
<1>2. next_rpc_id - CoreBase = (f + drawn) % SeqSpan
  BY <1>1 DEF CountedFromFirst
<1>3. next_rpc_id' = CoreBase + ((((f + drawn) % SeqSpan) + k) % SeqSpan)
  BY <1>2 DEF RpcIdAfter
<1> DEFINE a == f + drawn
<1>4. a \in Nat /\ a + k = f + drawn'
  BY <1>1
<1>5. ((a % SeqSpan) + k) % SeqSpan = (a + k) % SeqSpan
  BY <1>1, <1>4, ModAdd
<1>6. next_rpc_id' = CoreBase + ((f + drawn') % SeqSpan)
  BY <1>3, <1>4, <1>5
<1> HIDE DEF a
<1>7. drawn' \in Nat /\ drawn' \in 1 .. drawn' /\ (1 .. drawn) \subseteq 1 .. drawn'
  BY <1>1
<1>8. /\ DrawnIds = {CoreBase + ((f + i) % SeqSpan) : i \in 1 .. drawn}
      /\ DrawnIds' = {CoreBase + ((f + i) % SeqSpan) : i \in 1 .. drawn'}
  BY DEF DrawnIds
<1>9. CountedFromFirst'
  BY <1>6 DEF CountedFromFirst
<1>10. ASSUME drawn' <= SeqSpan PROVE next_rpc_id' \notin DrawnIds
  <2> SUFFICES ASSUME NEW i \in 1 .. drawn
               PROVE  next_rpc_id' # CoreBase + ((f + i) % SeqSpan)
    BY <1>8
  <2>1. i \in Nat /\ i < drawn' /\ drawn' - i < SeqSpan
    BY <1>1, <1>10
  <2>2. (f + i) % SeqSpan # (f + drawn') % SeqSpan
    BY <1>1, <1>7, <2>1, DifferentDraws
  <2>3. (f + i) % SeqSpan \in Nat /\ (f + drawn') % SeqSpan \in Nat
    BY <1>1, <1>7
  <2> HIDE DEF f
  <2> QED BY <1>1, <1>6, <2>2, <2>3
<1> HIDE DEF f
<1> QED BY <1>6, <1>7, <1>8, <1>9, <1>10

\* Steps that draw no id and give none.
LEMMA QuietIds ==
  ASSUME Ids, UNCHANGED <<next_rpc_id, idOf, drawn, first, former, clash>>
  PROVE  Ids' /\ (IdsDistinct' => IdsDistinct)
<1>1. DrawnIds' = DrawnIds
  BY DEF DrawnIds
<1>2. IdsDistinct' = IdsDistinct
  BY <1>1 DEF IdsDistinct
<1>3. CountedFromFirst'
  BY DEF Ids, CountedFromFirst
<1>4. IdsWereDrawn' /\ CallsHaveOwnIds'
  BY <1>1, <1>2 DEF Ids, IdsWereDrawn, CallsHaveOwnIds, Issued
<1> QED BY <1>2, <1>3, <1>4 DEF Ids

\* Distinct now means distinct before, while ids are only added.
LEMMA DistinctBefore ==
  ASSUME TypeOK, NEW k \in Nat, drawn' = drawn + k, DrawnIds \subseteq DrawnIds',
         UNCHANGED <<former, clash>>
  PROVE  IdsDistinct' => IdsDistinct
<1>1. drawn' <= SeqSpan => drawn <= SeqSpan
  BY SpanAssumption DEF TypeOK
<1> QED BY <1>1 DEF IdsDistinct

\* A scan that opens no session gives no id.
LEMMA RefusedIds ==
  ASSUME TypeOK, SystemTypeOK, Ids, NEW c \in Calls, PoolExhausted(c),
         UNCHANGED lives
  PROVE  Ids' /\ (IdsDistinct' => IdsDistinct)
<1>1. /\ ScanLength \in Nat \ {0} /\ next_rpc_id' = RpcIdAfter(ScanLength)
      /\ drawn' = drawn + ScanLength /\ idOf' = idOf
      /\ first' = first /\ former' = former /\ clash' = clash
  BY PoolAssumption DEF PoolExhausted, ScanLength, lives
<1>2. CountedFromFirst' /\ DrawnIds \subseteq DrawnIds'
  BY <1>1, Draws DEF Ids
<1>3. IdsDistinct' => IdsDistinct
  BY <1>1, <1>2, DistinctBefore
<1>4. IdsWereDrawn' /\ CallsHaveOwnIds'
  BY <1>1, <1>2, <1>3 DEF Ids, IdsWereDrawn, CallsHaveOwnIds, Issued
<1> QED BY <1>2, <1>3, <1>4 DEF Ids

\* A new session's id is none of the earlier calls', unless ids repeat.
LEMMA IssuedIds ==
  ASSUME TypeOK, SystemTypeOK, Ids, NEW c \in Calls, NEW k \in 1 .. ScanLength,
         OpenSession(c, k), UNCHANGED lives
  PROVE  Ids' /\ (IdsDistinct' => IdsDistinct)
<1> DEFINE id == RpcIdAfter(k)
<1>1. /\ k \in Nat \ {0} /\ next_rpc_id' = RpcIdAfter(k) /\ next_rpc_id' = id
      /\ drawn' = drawn + k /\ idOf' = [idOf EXCEPT ![c] = id]
      /\ first' = first /\ former' = former /\ clash' = clash
  BY PoolAssumption DEF OpenSession, ScanLength, lives
<1>2. /\ CountedFromFirst' /\ DrawnIds \subseteq DrawnIds' /\ id \in DrawnIds'
      /\ drawn' <= SeqSpan => id \notin DrawnIds
  BY <1>1, Draws DEF Ids
<1>3. IdsDistinct' => IdsDistinct
  BY <1>1, <1>2, DistinctBefore
<1> HIDE DEF id
<1>4. idOf'[c] = id /\ \A d \in Calls \ {c} : idOf'[d] = idOf[d]
  BY <1>1 DEF TypeOK
<1>5. IdsWereDrawn'
  BY <1>1, <1>2, <1>4 DEF Ids, IdsWereDrawn, Issued
<1>6. CallsHaveOwnIds'
  <2> SUFFICES ASSUME IdsDistinct', NEW d \in Calls, NEW e \in Calls,
                      idOf'[d] # 0, idOf'[d] = idOf'[e]
               PROVE  d = e
    BY DEF CallsHaveOwnIds, Issued
  <2>1. id \notin former \cup DrawnIds
    BY <1>1, <1>2 DEF IdsDistinct
  <2>2. \A x \in Calls : idOf[x] # 0 => idOf[x] # id
    BY <2>1 DEF Ids, IdsWereDrawn, Issued
  <2>3. \A x, y \in Calls : idOf[x] # 0 /\ idOf[x] = idOf[y] => x = y
    BY <1>3 DEF Ids, CallsHaveOwnIds, Issued
  <2> QED BY <1>4, <2>2, <2>3
<1> QED BY <1>2, <1>3, <1>5, <1>6 DEF Ids

\* A restart remembers what was drawn, and whether it was distinct.
LEMMA RestartIds ==
  ASSUME TypeOK, SystemTypeOK, Ids, Restart
  PROVE  Ids' /\ (IdsDistinct' => IdsDistinct) /\ SystemTypeOK'
<1>1. SeqSpan \in Nat \ {0} /\ CoreBase \in Nat
  BY IdNumbers
<1>2. /\ drawn' = 0 /\ idOf' = idOf /\ former' = former \cup DrawnIds
      /\ clash' = ~ IdsDistinct /\ first' = next_rpc_id'
  BY DEF Restart
<1>3. first' \in RpcIds
  BY <1>1, RestartAssumption DEF Restart, RpcIds
<1>4. CountedFromFirst'
  <2>1. first' = CoreBase + ((first' - CoreBase + 0) % SeqSpan)
    BY <1>3, NoDraw
  <2> QED BY <1>2, <2>1 DEF CountedFromFirst
<1>5. IdsDistinct' => IdsDistinct
  BY <1>2 DEF IdsDistinct
<1>6. IdsWereDrawn' /\ CallsHaveOwnIds'
  BY <1>2, <1>5 DEF Ids, IdsWereDrawn, CallsHaveOwnIds, Issued
<1>7. DrawnIds \subseteq RpcIds
  <2> SUFFICES ASSUME NEW i \in 1 .. drawn
               PROVE  CoreBase + ((first - CoreBase + i) % SeqSpan) \in RpcIds
    BY DEF DrawnIds
  <2> DEFINE x == first - CoreBase + i
  <2>1. x \in Nat
    BY IdNumbers DEF TypeOK
  <2> HIDE DEF x
  <2>2. x % SeqSpan \in 0 .. SeqSpan - 1
    BY <1>1, <2>1
  <2> QED BY <1>1, <2>2 DEF RpcIds, x
<1>8. abandoned' \subseteq Calls
  BY DEF Restart, SystemTypeOK
<1>9. SystemTypeOK'
  BY <1>2, <1>3, <1>7, <1>8 DEF Restart, SystemTypeOK, network
<1> QED BY <1>4, <1>5, <1>6, <1>9 DEF Ids

-----------------------------------------------------------------------------
(* What a step does to a call.                                                *)

\* The call of node n ends: by a timer or a failed send, or by the response to
\* a call whose id leads to n.
Ends(n, result, by, cancel) ==
  /\ ~ InDone
  /\ Occupied(n)
  /\ RunDone(n, result, by, cancel)
  /\ \/ by = NoCall /\ result = "kTimeout"
     \/ /\ by \in Calls /\ idOf[by] # 0 /\ FindSessionNode(idOf[by]) = n
        /\ [call |-> by, result |-> result] \in responses
  /\ UNCHANGED <<next_rpc_id, drawn, idOf>>
  /\ SamePool

\* No call begins or ends.
Rests ==
  /\ UNCHANGED <<next_rpc_id, drawn, idOf, outcome>>
  /\ \A n \in Nodes : Occupied(n)' => Occupied(n) /\ pool'[n].call = pool[n].call

\* A failed send ends its node's call, or tries another endpoint.
LEMMA FailedSendCases ==
  ASSUME TypeOK, Sessions, NEW c \in Calls, OnSendRequestFailed(c)
  PROVE  Rests \/ \E n \in Nodes : Ends(n, "kTimeout", NoCall, TRUE)
<1> DEFINE n == FindSessionNode(idOf[c])
<1>1. /\ ~ InDone /\ idOf[c] # 0
      /\ UNCHANGED <<next_rpc_id, drawn, idOf>>
  BY DEF OnSendRequestFailed, Sessions, SentCallsHaveIds
<1>2. n # NoNode => n \in Nodes /\ Occupied(n)
  BY <1>1, FoundIsUndecided
<1>3. SamePool
  BY OnSendRequestFailedPool
<1>4. CASE outcome' = outcome
  BY <1>1, <1>3, <1>4 DEF Rests, SamePool, Occupied
<1>5. CASE AllEndpointsFailed(c)
  <2>1. n # NoNode /\ RunDone(n, "kTimeout", NoCall, TRUE)
    BY <1>5 DEF AllEndpointsFailed
  <2> HIDE DEF n
  <2> QED BY <1>1, <1>2, <1>3, <2>1 DEF Ends
<1> QED BY <1>4, <1>5 DEF OnSendRequestFailed, NoSession, TryNextEndpoint

\* A timer ends its node's call, if it has one.
LEMMA TimeoutCases ==
  ASSUME TypeOK, Sessions, NEW n \in Nodes, OnSessionTimeout(n)
  PROVE  Rests \/ Ends(n, "kTimeout", NoCall, FALSE)
BY DEF OnSessionTimeout, Rests, Ends, SamePool, Occupied

\* A response ends its node's call, or spoils its message.
LEMMA ResponseCases ==
  ASSUME TypeOK, Sessions, SystemTypeOK, NEW r \in responses, Deliver(r)
  PROVE  Rests \/ \E n \in Nodes : Ends(n, r.result, r.call, TRUE)
<1> DEFINE c == r.call
           n == FindSessionNode(idOf[c])
<1>1. c \in Calls /\ r.result \in PeerResults /\ r = [call |-> c, result |-> r.result]
  BY DEF SystemTypeOK
<1>2. PICK parses \in BOOLEAN : OnRecvResponse(c, parses, r.result)
  BY DEF Deliver
<1>3. /\ ~ InDone /\ idOf[c] # 0 /\ n # NoNode
      /\ UNCHANGED <<next_rpc_id, drawn, idOf, pool>>
  BY <1>2 DEF OnRecvResponse
<1>4. n \in Nodes /\ Occupied(n)
  BY <1>1, <1>3, FoundIsUndecided
<1>5. SamePool
  BY <1>3 DEF SamePool
<1>6. CASE outcome' = outcome
  BY <1>3, <1>6 DEF Rests, Occupied
<1>7. CASE RunDone(n, r.result, c, TRUE)
  <2>1. [call |-> c, result |-> r.result] \in responses
    BY <1>1
  <2>2. n = FindSessionNode(idOf[c])
    OBVIOUS
  <2> HIDE DEF n
  <2>3. Ends(n, r.result, c, TRUE)
    BY <1>1, <1>3, <1>4, <1>5, <1>7, <2>1, <2>2 DEF Ends
  <2> QED BY <1>4, <2>3
<1> QED BY <1>2, <1>6, <1>7 DEF OnRecvResponse

\* Freeing a node opens and ends nothing.
LEMMA FinishDoneRests == ASSUME TypeOK, Sessions, FinishDone PROVE Rests
<1> DEFINE n == completing.node
<1>1. n \in Nodes /\ pool' = FreeSessionNode(n)
  BY DEF FinishDone, InDone, TypeOK
<1> HIDE DEF n
<1>2. \A m \in Nodes : Occupied(m)' => Occupied(m) /\ pool'[m].call = pool[m].call
  BY <1>1 DEF FreeSessionNode, TypeOK, Occupied
<1> QED BY <1>2 DEF FinishDone, Rests

\* A step within a life issues a call, refuses one, ends one or rests.
LEMMA StepCases ==
  ASSUME TypeOK, Sessions, SystemTypeOK, [SystemNext]_systemVars, ~ Restart
  PROVE  /\ UNCHANGED lives
         /\ \/ \E c \in Calls, k \in 1 .. ScanLength : OpenSession(c, k)
            \/ \E c \in Calls : PoolExhausted(c)
            \/ \E n \in Nodes, result \in Results, by \in Calls \cup {NoCall},
                  cancel \in BOOLEAN : Ends(n, result, by, cancel)
            \/ Rests
<1>1. UNCHANGED lives
  BY DEF SystemNext, systemVars, ClientStep, Serve, Deliver
<1>2. ASSUME UNCHANGED <<next_rpc_id, drawn, idOf, outcome, pool>> PROVE Rests
  BY <1>2 DEF Rests, Occupied
<1>3. ASSUME NEW c \in Calls, RejectOversize(c) PROVE Rests
  BY <1>2, <1>3 DEF RejectOversize
<1>4. ASSUME NEW c \in Calls, SendEnds(c) PROVE Rests
  BY <1>2, <1>4 DEF SendEnds
<1>5. ASSUME NEW due \in SUBSET armed, Tick(due) PROVE Rests
  BY <1>2, <1>5 DEF Tick
<1>6. ASSUME UNCHANGED vars PROVE Rests
  BY <1>2, <1>6 DEF vars
<1>7. "kTimeout" \in Results /\ \A r \in responses : r.call \in Calls /\ r.result \in Results
  BY PeerAssumption DEF Results, SystemTypeOK
<1>8. CASE ClientStep
  BY <1>1, <1>3, <1>4, <1>5, <1>7, <1>8, FailedSendCases, TimeoutCases,
     FinishDoneRests DEF ClientStep, AddSession
<1>9. ASSUME NEW r \in responses, Deliver(r)
      PROVE  Rests \/ \E n \in Nodes, result \in Results, by \in Calls \cup {NoCall},
                          cancel \in BOOLEAN : Ends(n, result, by, cancel)
  BY <1>7, <1>9, ResponseCases
<1>10. CASE (\E request \in requests, result \in PeerResults : Serve(request, result))
            \/ UNCHANGED systemVars
  BY <1>6, <1>10 DEF Serve, systemVars
<1> QED BY <1>1, <1>8, <1>9, <1>10 DEF SystemNext

-----------------------------------------------------------------------------
(* What is on the network.                                                    *)

\* The last element of a sequence is one of its elements.
LEMMA LastOfSeq ==
  ASSUME NEW S, NEW s \in Seq(S), Len(s) \in 1 .. Len(s) PROVE s[Len(s)] \in S
OBVIOUS

\* Every send is of a call that has an id.
LEMMA SentCallsIssued ==
  ASSUME TypeOK, Sessions, NEW d \in Calls, tried'[d] # tried[d],
         NEW c \in Calls, AddSession(c) \/ OnSendRequestFailed(c)
  PROVE  idOf'[d] # 0 /\ \E i : tried'[d] = Append(tried[d], i)
<1>1. CASE RejectOversize(c) \/ PoolExhausted(c)
  BY <1>1 DEF RejectOversize, PoolExhausted
<1>2. ASSUME NEW k \in 1 .. ScanLength, OpenSession(c, k)
      PROVE  idOf'[d] # 0 /\ \E i : tried'[d] = Append(tried[d], i)
  <2>1. RpcIdAfter(k) # 0
    BY RpcIdInRange, RpcIdsArePositive, PoolAssumption DEF TypeOK, ScanLength
  <2>2. /\ idOf' = [idOf EXCEPT ![c] = RpcIdAfter(k)]
        /\ tried' = [tried EXCEPT ![c] = Append(@, 0)]
    BY <1>2 DEF OpenSession
  <2>3. d = c /\ tried'[d] = Append(tried[d], 0)
    BY <2>2 DEF TypeOK
  <2>4. idOf'[d] = RpcIdAfter(k)
    BY <2>2, <2>3 DEF TypeOK
  <2> QED BY <2>1, <2>3, <2>4
<1>3. CASE OnSendRequestFailed(c)
  <2> DEFINE n == FindSessionNode(idOf[c])
             i == NextIndex(n)
  <2>1. ~ InDone /\ idOf[c] # 0 /\ idOf' = idOf
    BY <1>3 DEF OnSendRequestFailed, Sessions, SentCallsHaveIds
  <2>2. n # NoNode /\ tried' = [tried EXCEPT ![pool[n].call] = Append(@, i)]
    BY <1>3 DEF OnSendRequestFailed, NoSession, TryNextEndpoint, AllEndpointsFailed
  <2>3. n \in Nodes /\ Occupied(n) /\ pool[n].call \in Calls
    BY <2>1, <2>2, FoundIsUndecided
  <2> HIDE DEF n, i
  <2>4. d = pool[n].call /\ tried'[d] = Append(tried[d], i)
    BY <2>2, <2>3 DEF TypeOK
  <2>5. idOf[d] # 0
    BY <2>3, <2>4 DEF Sessions, NodesHoldCalls, Occupied
  <2> QED BY <2>1, <2>4, <2>5
<1> QED BY <1>1, <1>2, <1>3 DEF AddSession

\* Messages stay messages of issued calls.
LEMMA NetworkStep ==
  ASSUME TypeOK, TypeOK', Sessions, SystemTypeOK, ServedCallsIssued,
         [SystemNext]_systemVars, ~ Restart
  PROVE  SystemTypeOK' /\ ServedCallsIssued'
<1>1. UNCHANGED lives
  BY StepCases
<1>2. \A c \in Calls : Issued(c) => Issued(c)'
  <2>1. ASSUME NEW c \in Calls, NEW k \in 1 .. ScanLength, OpenSession(c, k)
        PROVE  \A d \in Calls : Issued(d) => Issued(d)'
    <3>1. RpcIdAfter(k) # 0
      BY RpcIdInRange, RpcIdsArePositive, PoolAssumption DEF TypeOK, ScanLength
    <3>2. idOf' = [idOf EXCEPT ![c] = RpcIdAfter(k)]
      BY <2>1 DEF OpenSession
    <3> QED BY <3>1, <3>2 DEF TypeOK, Issued
  <2>2. ASSUME idOf' = idOf PROVE \A d \in Calls : Issued(d) => Issued(d)'
    BY <2>2 DEF Issued
  <2> QED BY <2>1, <2>2, StepCases DEF PoolExhausted, Ends, Rests
<1>3. ASSUME requests' \subseteq [call : Calls, endpoint : 0 .. IndexSpan - 1],
             responses' \subseteq [call : Calls, result : PeerResults]
      PROVE  SystemTypeOK'
  BY <1>1, <1>3 DEF SystemTypeOK, lives
<1>4. CASE ClientStep
  <2>1. ASSUME NEW d \in Calls, tried'[d] # tried[d]
        PROVE  idOf'[d] # 0 /\ tried'[d][Len(tried'[d])] \in 0 .. IndexSpan - 1
    <3>1. \E c \in Calls : AddSession(c) \/ OnSendRequestFailed(c)
      BY <1>4, <2>1 DEF ClientStep, SendEnds, Tick, OnSessionTimeout, FinishDone
    <3>2. idOf'[d] # 0 /\ \E i : tried'[d] = Append(tried[d], i)
      BY <2>1, <3>1, SentCallsIssued
    <3>3. tried[d] \in Seq(0 .. IndexSpan - 1) /\ tried'[d] \in Seq(0 .. IndexSpan - 1)
      BY DEF TypeOK
    <3>4. Len(tried'[d]) \in 1 .. Len(tried'[d])
      BY <3>2, <3>3
    <3>5. tried'[d][Len(tried'[d])] \in 0 .. IndexSpan - 1
      BY <3>3, <3>4, LastOfSeq
    <3> QED BY <3>2, <3>5
  <2>2. ASSUME NEW m \in requests'
        PROVE  m \in requests \/ /\ m \in [call : Calls, endpoint : 0 .. IndexSpan - 1]
                                 /\ idOf'[m.call] # 0
    BY <1>4, <2>1 DEF ClientStep, OnOutgoingRpcSend
  <2>3. responses' = responses
    BY <1>4 DEF ClientStep
  <2>4. SystemTypeOK'
    BY <1>3, <2>2, <2>3 DEF SystemTypeOK
  <2>5. ServedCallsIssued'
    BY <1>2, <2>2, <2>3 DEF ServedCallsIssued, Issued, SystemTypeOK
  <2> QED BY <2>4, <2>5
<1>5. ASSUME NEW request \in requests, NEW result \in PeerResults,
             Serve(request, result)
      PROVE  SystemTypeOK' /\ ServedCallsIssued'
  <2> DEFINE m == [call |-> request.call, result |-> result]
  <2>1. request.call \in Calls /\ Issued(request.call)
    BY DEF SystemTypeOK, ServedCallsIssued
  <2>2. m \in [call : Calls, result : PeerResults] /\ m.call = request.call
    BY <2>1
  <2>3. responses' = responses \cup {m} /\ requests' = requests /\ idOf' = idOf
    BY <1>5 DEF Serve, vars
  <2> HIDE DEF m
  <2>4. SystemTypeOK'
    BY <1>3, <2>2, <2>3 DEF SystemTypeOK
  <2>5. ServedCallsIssued'
    BY <2>1, <2>2, <2>3 DEF ServedCallsIssued, Issued
  <2> QED BY <2>4, <2>5
<1>6. CASE UNCHANGED network
  <2>1. SystemTypeOK'
    BY <1>3, <1>6 DEF network, SystemTypeOK
  <2>2. ServedCallsIssued'
    BY <1>2, <1>6 DEF network, ServedCallsIssued, SystemTypeOK
  <2> QED BY <2>1, <2>2
<1> QED BY <1>4, <1>5, <1>6 DEF SystemNext, systemVars, Deliver

-----------------------------------------------------------------------------
(* How calls end.                                                             *)

\* The call that ends is a live one, and while ids differ the one answered.
LEMMA EndedCall ==
  ASSUME TypeOK, Sessions, SystemTypeOK, Ids, AbandonedStayOpen,
         NEW n \in Nodes, NEW result \in Results, NEW by \in Calls \cup {NoCall},
         NEW cancel, Ends(n, result, by, cancel)
  PROVE  /\ pool[n].call \in Calls \ abandoned
         /\ outcome[pool[n].call] = << >>
         /\ Issued(pool[n].call)
         /\ IdsDistinct /\ by # NoCall => by = pool[n].call
<1> DEFINE c == pool[n].call
<1>1. c \in Calls /\ outcome[c] = << >> /\ c \notin abandoned
  BY TakenIsUndecided DEF Ends, AbandonedStayOpen
<1>2. idOf[c] = pool[n].rpc_id /\ pool[n].rpc_id # 0
  BY DEF Ends, Sessions, NodesHoldCalls, Occupied
<1>3. ASSUME IdsDistinct, by # NoCall PROVE by = c
  <2>1. by \in Calls /\ idOf[by] # 0 /\ FindSessionNode(idOf[by]) = n
    BY <1>3 DEF Ends
  <2>2. pool[n].rpc_id = idOf[by]
    BY <2>1 DEF FindSessionNode, Nodes, NoNode
  <2> HIDE DEF c
  <2> QED BY <1>1, <1>2, <1>3, <2>1, <2>2 DEF Ids, CallsHaveOwnIds, Issued
<1> QED BY <1>1, <1>2, <1>3 DEF Issued

\* The runs of done that a step adds.
LEMMA OutcomeAfter ==
  ASSUME TypeOK, NEW c \in Calls, outcome[c] = << >>, NEW o,
         outcome' = [outcome EXCEPT ![c] = Append(@, o)]
  PROVE  /\ outcome'[c] = << o >> /\ Len(outcome'[c]) = 1 /\ outcome'[c][1] = o
         /\ outcome'[c] # << >>
         /\ \A d \in Calls \ {c} : outcome'[d] = outcome[d]
<1>1. outcome'[c] = << o >> /\ \A d \in Calls \ {c} : outcome'[d] = outcome[d]
  BY DEF TypeOK
<1> QED BY <1>1

Replies == \A c \in Calls : \A k \in 1 .. Len(outcome[c]) :
             outcome[c][k].by \in {NoCall, c}

\* A call that ends with its own answer, or with none, keeps Replies.
LEMMA RepliesAfter ==
  ASSUME TypeOK, Replies, NEW c \in Calls, outcome[c] = << >>, NEW o \in Outcomes,
         o.by \in {NoCall, c},
         outcome' = [outcome EXCEPT ![c] = Append(@, o)]
  PROVE  Replies'
<1>1. /\ Len(outcome'[c]) = 1 /\ outcome'[c][1] = o
      /\ \A d \in Calls \ {c} : outcome'[d] = outcome[d]
  BY OutcomeAfter
<1> SUFFICES ASSUME NEW d \in Calls, NEW i \in 1 .. Len(outcome'[d])
             PROVE  outcome'[d][i].by \in {NoCall, d}
  BY DEF Replies
<1>2. CASE d = c
  BY <1>1, <1>2
<1>3. CASE d # c
  BY <1>1, <1>3 DEF Replies
<1> QED BY <1>2, <1>3

\* Calls that died stay without an outcome, and replies keep matching.
LEMMA CallsStep ==
  ASSUME TypeOK, Sessions, Progress, SystemTypeOK, Ids, AbandonedStayOpen,
         RepliesMatchAcrossLives, IdsDistinct' => IdsDistinct,
         [SystemNext]_systemVars, ~ Restart
  PROVE  AbandonedStayOpen' /\ RepliesMatchAcrossLives'
<1> USE DEF Issued
<1>1. abandoned' = abandoned
  BY StepCases DEF lives
<1>2. ASSUME Replies => Replies' PROVE RepliesMatchAcrossLives'
  BY <1>2 DEF RepliesMatchAcrossLives, Replies
<1>3. ASSUME NEW c \in Calls, NEW k \in 1 .. ScanLength, OpenSession(c, k)
      PROVE  AbandonedStayOpen' /\ RepliesMatchAcrossLives'
  <2> DEFINE id == RpcIdAfter(k)
             n  == NodeOf(id)
  <2>1. k \in Nat
    BY PoolAssumption DEF ScanLength
  <2>2. id \in Nat \ {0} /\ n \in Nodes
    BY <2>1, RpcIdInRange, RpcIdsArePositive, NodeOfIsNode DEF TypeOK
  <2>3. /\ outcome' = outcome /\ idOf' = [idOf EXCEPT ![c] = id] /\ c \notin called
        /\ pool' = [pool EXCEPT ![n] =
                      [rpc_id |-> id, call |-> c, endpoint_index |-> 0]]
    BY <1>3 DEF OpenSession, MayCall
  <2> HIDE DEF id, n
  <2>4. c \notin abandoned
    BY <2>3 DEF Progress, NotSentYet, AbandonedStayOpen
  <2>5. \A d \in abandoned : idOf'[d] = idOf[d]
    BY <2>3, <2>4 DEF TypeOK, SystemTypeOK
  <2>6. pool'[n].call = c /\ \A m \in Nodes \ {n} : pool'[m] = pool[m]
    BY <2>2, <2>3 DEF TypeOK
  <2>7. AbandonedStayOpen'
    BY <1>1, <2>3, <2>4, <2>5, <2>6 DEF AbandonedStayOpen, Occupied
  <2> QED BY <1>2, <2>3, <2>7 DEF Replies
<1>4. ASSUME NEW c \in Calls, PoolExhausted(c)
      PROVE  AbandonedStayOpen' /\ RepliesMatchAcrossLives'
  <2> DEFINE o == [result |-> "kInError", by |-> NoCall]
  <2>1. /\ o \in Outcomes /\ o.by = NoCall
        /\ c \notin called /\ idOf' = idOf /\ pool' = pool
        /\ outcome' = [outcome EXCEPT ![c] = Append(@, o)]
    BY <1>4 DEF PoolExhausted, MayCall, Outcomes, Results
  <2> HIDE DEF o
  <2>2. outcome[c] = << >> /\ c \notin abandoned
    BY <2>1 DEF Progress, NotSentYet, Sessions, NotCalledYet, AbandonedStayOpen
  <2>3. AbandonedStayOpen'
    BY <1>1, <2>1, <2>2, OutcomeAfter DEF AbandonedStayOpen, Occupied, SystemTypeOK
  <2>4. ASSUME Replies PROVE Replies'
    <3>1. o.by \in {NoCall, c}
      BY <2>1
    <3> QED BY <2>1, <2>2, <2>4, <3>1, RepliesAfter
  <2> QED BY <1>2, <2>3, <2>4
<1>5. ASSUME NEW n \in Nodes, NEW result \in Results, NEW by \in Calls \cup {NoCall},
             NEW cancel \in BOOLEAN, Ends(n, result, by, cancel)
      PROVE  AbandonedStayOpen' /\ RepliesMatchAcrossLives'
  <2> DEFINE c == pool[n].call
             o == [result |-> result, by |-> by]
  <2>1. /\ c \in Calls \ abandoned /\ outcome[c] = << >>
        /\ IdsDistinct => by \in {NoCall, c}
    BY <1>5, EndedCall
  <2>2. /\ o \in Outcomes /\ o.by = by /\ idOf' = idOf
        /\ outcome' = [outcome EXCEPT ![c] = Append(@, o)]
    BY <1>5 DEF Ends, RunDone, Outcomes
  <2>3. \A m \in Nodes : (Occupied(m)' <=> Occupied(m)) /\ pool'[m].call = pool[m].call
    BY <1>5 DEF Ends, SamePool, Occupied
  <2> HIDE DEF c, o
  <2>4. AbandonedStayOpen'
    BY <1>1, <2>1, <2>2, <2>3, OutcomeAfter DEF AbandonedStayOpen, SystemTypeOK
  <2>5. ASSUME IdsDistinct, Replies PROVE Replies'
    <3>1. c \in Calls /\ o.by \in {NoCall, c}
      BY <2>1, <2>2, <2>5
    <3> QED BY <2>1, <2>2, <2>5, <3>1, RepliesAfter
  <2> QED BY <2>4, <2>5 DEF RepliesMatchAcrossLives, Replies
<1>6. CASE Rests
  <2>1. AbandonedStayOpen'
    BY <1>1, <1>6 DEF Rests, AbandonedStayOpen
  <2> QED BY <1>2, <1>6, <2>1 DEF Rests, Replies
<1> QED BY <1>3, <1>4, <1>5, <1>6, StepCases

-----------------------------------------------------------------------------
(* The invariants of the system.                                              *)

\* Before the first call.
LEMMA InitSystemInv == SystemInit => IInv /\ SystemInv
<1> SUFFICES ASSUME SystemInit PROVE IInv /\ SystemInv
  OBVIOUS
<1>1. IInv /\ TypeOK
  BY InitIInv, InitTypeOK DEF SystemInit
<1>2. first = next_rpc_id /\ first \in RpcIds /\ drawn = 0
  BY <1>1 DEF SystemInit, Init, TypeOK
<1>3. CountedFromFirst
  <2>1. first = CoreBase + ((first - CoreBase + 0) % SeqSpan)
    BY <1>2, NoDraw
  <2> QED BY <1>2, <2>1 DEF CountedFromFirst
<1>4. SystemTypeOK
  BY <1>2 DEF SystemInit, SystemTypeOK
<1>5. IdsWereDrawn /\ CallsHaveOwnIds /\ ServedCallsIssued
  BY DEF SystemInit, Init, IdsWereDrawn, CallsHaveOwnIds, ServedCallsIssued, Issued
<1>6. AbandonedStayOpen
  BY DEF SystemInit, Init, AbandonedStayOpen, Occupied
<1>7. RepliesMatchAcrossLives
  BY DEF SystemInit, Init, RepliesMatchAcrossLives
<1>8. OnlyRestartForgets
  BY DEF SystemInit, Init, OnlyRestartForgets, Forgotten
<1> QED BY <1>1, <1>3, <1>4, <1>5, <1>6, <1>7, <1>8 DEF SystemInv

\* Within a life, ids are drawn by AddSession only.
LEMMA IdsStep ==
  ASSUME TypeOK, Sessions, SystemTypeOK, Ids, [SystemNext]_systemVars, ~ Restart
  PROVE  Ids' /\ (IdsDistinct' => IdsDistinct)
<1>1. UNCHANGED lives
  BY StepCases
<1>2. ASSUME UNCHANGED <<next_rpc_id, drawn, idOf>>
      PROVE  Ids' /\ (IdsDistinct' => IdsDistinct)
  BY <1>1, <1>2, QuietIds DEF lives
<1> QED BY <1>1, <1>2, StepCases, IssuedIds, RefusedIds DEF Ends, Rests

\* A restart forgets the calls that were open, and no others: they had an id.
LEMMA RestartForgets ==
  ASSUME TypeOK, Sessions, OnlyRestartForgets, Restart
  PROVE  OnlyRestartForgets'
<1> SUFFICES ASSUME NEW c \in called, Endpoints[c] <= IndexSpan, outcome[c] = << >>,
                    c \notin abandoned
             PROVE  c \in abandoned'
  BY DEF Restart, OnlyRestartForgets, Forgotten
<1>1. c \in Calls
  BY DEF TypeOK
<1>2. PICK n \in Nodes : HeldBy(n, c)
  BY ForgottenHasNoNode DEF OnlyRestartForgets, HasNode
<1>3. Issued(c)
  BY <1>2 DEF HeldBy, Sessions, NodesHoldCalls, Occupied, Issued
<1> QED BY <1>1, <1>3 DEF Restart

\* The client, the servers, the network and a restart keep the invariant.
LEMMA StepSystemInv ==
  ASSUME IInv, IInv', SystemInv, [SystemNext]_systemVars PROVE SystemInv'
<1>1. TypeOK /\ TypeOK' /\ Sessions /\ Progress
  BY DEF IInv, Sessions, Progress
<1>2. SystemTypeOK /\ Ids
  BY DEF SystemInv, Ids
<1>3. CASE Restart
  <2>1. SystemTypeOK' /\ Ids' /\ (IdsDistinct' => IdsDistinct)
    BY <1>1, <1>2, <1>3, RestartIds
  <2>2. ServedCallsIssued'
    BY <1>3 DEF Restart, network, SystemInv, ServedCallsIssued, Issued
  <2>3. AbandonedStayOpen'
    BY <1>3 DEF Restart, SystemInv, AbandonedStayOpen, Issued, Occupied
  <2>4. RepliesMatchAcrossLives'
    BY <1>3, <2>1 DEF Restart, SystemInv, RepliesMatchAcrossLives
  <2>5. OnlyRestartForgets'
    BY <1>1, <1>3, RestartForgets DEF SystemInv
  <2> QED BY <2>1, <2>2, <2>3, <2>4, <2>5 DEF SystemInv, Ids
<1>4. CASE ~ Restart
  <2>1. Ids' /\ (IdsDistinct' => IdsDistinct)
    BY <1>1, <1>2, <1>4, IdsStep
  <2>2. SystemTypeOK' /\ ServedCallsIssued'
    BY <1>1, <1>2, <1>4, NetworkStep DEF SystemInv
  <2>3. AbandonedStayOpen' /\ RepliesMatchAcrossLives'
    BY <1>1, <1>2, <1>4, <2>1, CallsStep DEF SystemInv
  <2>4. OnlyRestartForgets'
    <3>1. [Next]_vars /\ Sessions'
      BY <1>2, <1>4, TableSteps DEF IInv, Sessions
    <3>2. Forgotten' \subseteq Forgotten
      BY <1>1, <3>1, StepForgetsNone
    <3>3. abandoned' = abandoned
      BY <1>1, <1>2, <1>4, StepCases DEF lives
    <3> QED BY <3>2, <3>3 DEF SystemInv, OnlyRestartForgets
  <2> QED BY <2>1, <2>2, <2>3, <2>4 DEF SystemInv, Ids
<1> QED BY <1>3, <1>4

\* The client's table and what surrounds it stay consistent, whatever the
\* network does and however often the client dies.
THEOREM SystemConsistent == SystemSpec => [](IInv /\ SystemInv)
<1>1. IInv /\ SystemInv /\ [SystemNext]_systemVars => (IInv /\ SystemInv)'
  <2> SUFFICES ASSUME IInv, SystemInv, [SystemNext]_systemVars
               PROVE  IInv' /\ SystemInv'
    OBVIOUS
  <2>1. IInv'
    BY SystemStepIInv DEF SystemInv
  <2> QED BY <2>1, StepSystemInv
<1> QED BY <1>1, InitSystemInv, PTL DEF SystemSpec

\* No call is ended by the response to another one, in whichever life of the
\* client it was sent, until the client draws an id again.
THEOREM RepliesMatchEver == SystemSpec => []RepliesMatchAcrossLives
<1>1. SystemInv => RepliesMatchAcrossLives
  BY DEF SystemInv
<1> QED BY <1>1, SystemConsistent, PTL

\* A response is never parsed into a message of another method, even after ids
\* repeat and after restarts.
THEOREM OwnMethodEver == SystemSpec => []AnsweredByOwnMethod
<1>1. IInv => AnsweredByOwnMethod
  BY DEF IInv
<1> QED BY <1>1, SystemConsistent, PTL

\* No done closure runs twice, in one life of the client or in two.
THEOREM DoneOnceEver == SystemSpec => []DoneAtMostOnce
<1>1. IInv => DoneAtMostOnce
  BY DEF IInv
<1> QED BY <1>1, SystemConsistent, PTL

\* In every life of the client, a call that was accepted and is neither decided
\* nor lost with a former life has a node, and a timer that will end it.
THEOREM OnlyRestartsForget == SystemSpec => []OnlyRestartForgets
<1>1. SystemInv => OnlyRestartForgets
  BY DEF SystemInv
<1> QED BY <1>1, SystemConsistent, PTL

\* After done has begun to run for a call, nothing touches its messages or runs
\* done again, in that life of the client or a later one.
THEOREM HandsOffEver == SystemSpec => NoTouchAfterDone
<1>1. IInv /\ SystemInv /\ [SystemNext]_systemVars
        => [\A c \in Calls : outcome[c] # << >> =>
              /\ response'[c] = response[c]
              /\ tried'[c] = tried[c]
              /\ outcome'[c] = outcome[c]]_vars
  <2> SUFFICES ASSUME IInv, SystemInv, [SystemNext]_systemVars,
                      NEW c \in Calls, outcome[c] # << >>
               PROVE  Untouched(c)
    BY DEF Untouched
  <2>1. CASE Restart
    BY <2>1 DEF Restart, Untouched
  <2>2. CASE [Next]_vars
    BY <2>2, StepUntouched DEF IInv, Sessions
  <2> QED BY <2>1, <2>2, TableSteps DEF SystemInv
<1> QED BY <1>1, SystemConsistent, PTL DEF SystemSpec, NoTouchAfterDone

\* If no done closure issues calls, a call the framework times out has waited
\* its own timeout or has run out of endpoints, restarts or not.
THEOREM HonestEver == ASSUME ~ NestedCalls PROVE SystemSpec => []HonestTimeout
<1>1. IInv => HonestTimeout
  BY DEF IInv
<1> QED BY <1>1, SystemConsistent, PTL

-----------------------------------------------------------------------------
(* RemoteCall's promise.                                                      *)

\* Where a call stands, by what the mapping looks at.
LEMMA StateIs ==
  ASSUME SystemInv, NEW c \in Calls
  PROVE  /\ c \in abandoned => StateOf(c) = "abandoned"
         /\ c \notin abandoned /\ outcome[c] # << >> /\ Issued(c) => StateOf(c) = "ended"
         /\ c \notin abandoned /\ outcome[c] # << >> /\ ~ Issued(c) => StateOf(c) = "refused"
         /\ c \notin abandoned /\ outcome[c] = << >> /\ Issued(c) => StateOf(c) = "open"
         /\ c \notin abandoned /\ outcome[c] = << >> /\ ~ Issued(c) => StateOf(c) = "idle"
BY DEF StateOf, SystemInv, AbandonedStayOpen

\* The mapped state of one call changes, the others keep theirs.
LEMMA OneStateChanges ==
  ASSUME NEW c \in Calls, \A d \in Calls \ {c} : StateOf(d)' = StateOf(d)
  PROVE  States' = [States EXCEPT ![c] = StateOf(c)']
BY DEF States

\* Steps within a life that leave the responses.
LEMMA OpenSessionPromise ==
  ASSUME TypeOK, Sessions, Progress, SystemInv, SystemInv', UNCHANGED <<lives, responses>>,
         NEW c \in Calls, NEW k \in 1 .. ScanLength, OpenSession(c, k)
  PROVE  Remote!Next
<1> DEFINE id == RpcIdAfter(k)
<1>1. id # 0
  BY RpcIdInRange, RpcIdsArePositive, PoolAssumption DEF TypeOK, ScanLength
<1>2. c \notin called /\ outcome' = outcome /\ idOf' = [idOf EXCEPT ![c] = id]
  BY DEF OpenSession, MayCall
<1>3. outcome[c] = << >> /\ idOf[c] = 0
  BY <1>2 DEF Sessions, NotCalledYet, Progress, NotSentYet
<1> HIDE DEF id
<1>4. idOf'[c] = id /\ \A d \in Calls \ {c} : idOf'[d] = idOf[d]
  BY <1>2 DEF TypeOK
<1>5. abandoned' = abandoned /\ c \notin abandoned
  BY <1>3 DEF lives, SystemInv, AbandonedStayOpen, Issued
<1>6. StateOf(c) = "idle"
  BY <1>3, <1>5, StateIs DEF Issued
<1>7. StateOf(c)' = "open"
  BY <1>1, <1>2, <1>3, <1>4, <1>5 DEF StateOf, Issued
<1>8. \A d \in Calls \ {c} : StateOf(d)' = StateOf(d)
  BY <1>2, <1>4, <1>5 DEF StateOf, Issued
<1>9. States[c] = "idle" /\ States' = [States EXCEPT ![c] = "open"]
  BY <1>6, <1>7, <1>8, OneStateChanges DEF States
<1>10. Produced' = Produced /\ Verdict' = Verdict
  BY <1>2 DEF Produced, Verdict
<1>11. Remote!Issue(c)
  BY <1>9, <1>10 DEF Remote!Issue
<1> QED BY <1>11 DEF Remote!Next

\* A call that found no empty node was never sent, and is told so.
LEMMA RefusedPromise ==
  ASSUME TypeOK, Sessions, Progress, SystemInv, UNCHANGED <<lives, responses>>,
         NEW c \in Calls, PoolExhausted(c)
  PROVE  Remote!Next
<1> DEFINE o == [result |-> "kInError", by |-> NoCall]
<1>1. /\ c \notin called /\ idOf' = idOf /\ o.result = "kInError"
      /\ outcome' = [outcome EXCEPT ![c] = Append(@, o)]
  BY DEF PoolExhausted, MayCall
<1> HIDE DEF o
<1>2. outcome[c] = << >> /\ idOf[c] = 0
  BY <1>1 DEF Sessions, NotCalledYet, Progress, NotSentYet
<1>3. abandoned' = abandoned /\ c \notin abandoned
  BY <1>2 DEF lives, SystemInv, AbandonedStayOpen, Issued
<1>4. StateOf(c) = "idle"
  BY <1>2, <1>3, StateIs DEF Issued
<1>5. outcome'[c] # << >> /\ \A d \in Calls \ {c} : outcome'[d] = outcome[d]
  BY <1>1, <1>2, OutcomeAfter
<1>6. StateOf(c)' = "refused"
  BY <1>1, <1>2, <1>3, <1>5 DEF StateOf, Issued
<1>7. \A d \in Calls \ {c} : StateOf(d)' = StateOf(d)
  BY <1>1, <1>3, <1>5 DEF StateOf, Issued
<1>8. States[c] = "idle" /\ States' = [States EXCEPT ![c] = "refused"]
  BY <1>4, <1>6, <1>7, OneStateChanges DEF States
<1>9. Verdict' = [Verdict EXCEPT ![c] = "kInError"]
  BY <1>1, <1>2, FirstVerdict
<1>10. Produced' = Produced
  BY DEF Produced
<1>11. Remote!Refuse(c)
  BY <1>8, <1>9, <1>10 DEF Remote!Refuse
<1> QED BY <1>11 DEF Remote!Next

\* A call that ends is given a result a server produced for it, or kTimeout.
LEMMA EndedPromise ==
  ASSUME TypeOK, Sessions, SystemInv, IdsDistinct, UNCHANGED <<lives, responses>>,
         NEW n \in Nodes, NEW result \in Results, NEW by \in Calls \cup {NoCall},
         NEW cancel, Ends(n, result, by, cancel)
  PROVE  Remote!Next
<1> DEFINE o == [result |-> result, by |-> by]
<1>1. PICK c \in Calls \ abandoned :
        /\ c = pool[n].call /\ outcome[c] = << >> /\ Issued(c)
        /\ by # NoCall => by = c
  BY EndedCall DEF SystemInv, Ids
<1>2. /\ idOf' = idOf /\ o.result = result
      /\ outcome' = [outcome EXCEPT ![c] = Append(@, o)]
  BY <1>1 DEF Ends, RunDone
<1>3. result \in Produced[c] \cup {"kTimeout"} /\ result \in PeerResults \cup {"kTimeout"}
  <2>1. CASE by = NoCall
    BY <2>1, CallsAssumption DEF Ends
  <2>2. CASE by # NoCall
    <3> DEFINE m == [call |-> c, result |-> result]
    <3>1. m \in responses
      BY <1>1, <2>2 DEF Ends
    <3>2. m.call = c /\ m.result = result
      OBVIOUS
    <3>3. m.result \in PeerResults
      BY <3>1 DEF SystemInv, SystemTypeOK
    <3>4. Produced[c] = {r.result : r \in {q \in responses : q.call = c}}
      BY <1>1 DEF Produced
    <3> HIDE DEF m
    <3> QED BY <3>1, <3>2, <3>3, <3>4
  <2> QED BY <2>1, <2>2
<1> HIDE DEF o
<1>4. abandoned' = abandoned
  BY DEF lives
<1>5. StateOf(c) = "open"
  BY <1>1, StateIs
<1>6. outcome'[c] # << >> /\ \A d \in Calls \ {c} : outcome'[d] = outcome[d]
  BY <1>1, <1>2, OutcomeAfter
<1>7. StateOf(c)' = "ended"
  BY <1>1, <1>2, <1>4, <1>6 DEF StateOf, Issued
<1>8. \A d \in Calls \ {c} : StateOf(d)' = StateOf(d)
  BY <1>2, <1>4, <1>6 DEF StateOf, Issued
<1>9. States[c] = "open" /\ States' = [States EXCEPT ![c] = "ended"]
  BY <1>1, <1>5, <1>7, <1>8, OneStateChanges DEF States
<1>10. Verdict' = [Verdict EXCEPT ![c] = result]
  BY <1>1, <1>2, FirstVerdict
<1>11. Produced' = Produced
  BY DEF Produced
<1>12. Remote!End(c, result)
  BY <1>3, <1>9, <1>10, <1>11 DEF Remote!End
<1> QED BY <1>1, <1>3, <1>12 DEF Remote!Next

\* A server answers a call that was issued: open, ended or abandoned.
LEMMA ServePromise ==
  ASSUME SystemInv, NEW request \in requests, NEW result \in PeerResults,
         Serve(request, result)
  PROVE  Remote!Next
<1> DEFINE c == request.call
           m == [call |-> c, result |-> result]
<1>1. c \in Calls /\ Issued(c)
  BY DEF SystemInv, SystemTypeOK, ServedCallsIssued
<1>2. /\ responses' = responses \cup {m} /\ m.call = c /\ m.result = result
      /\ UNCHANGED <<idOf, outcome, abandoned>>
  BY DEF Serve, vars, lives
<1> HIDE DEF c, m
<1>3. States' = States /\ Verdict' = Verdict
  BY <1>2 DEF States, StateOf, Issued, Verdict
<1>4. States[c] \in {"open", "ended", "abandoned"}
  BY <1>1, StateIs DEF States
<1>5. Produced' = [Produced EXCEPT ![c] = @ \cup {result}]
  <2>1. \A d \in Calls \ {c} : Produced'[d] = Produced[d]
    BY <1>2 DEF Produced
  <2>2. Produced'[c] = Produced[c] \cup {result}
    <3>1. Produced'[c] = {r.result : r \in {q \in responses' : q.call = c}}
      BY <1>1 DEF Produced
    <3>2. Produced[c] = {r.result : r \in {q \in responses : q.call = c}}
      BY <1>1 DEF Produced
    <3> QED BY <1>2, <3>1, <3>2
  <2>3. Produced' = [d \in Calls |-> Produced'[d]]
    BY DEF Produced
  <2>4. Produced = [d \in Calls |-> Produced[d]]
    BY DEF Produced
  <2> HIDE DEF Produced
  <2> QED BY <1>1, <2>1, <2>2, <2>3, <2>4
<1>6. Remote!Execute(c, result)
  BY <1>3, <1>4, <1>5 DEF Remote!Execute
<1> QED BY <1>1, <1>6 DEF Remote!Next

\* The client dies: what was open is abandoned, the rest stays.
LEMMA RestartPromise ==
  ASSUME SystemInv, Restart
  PROVE  Remote!Next
<1>1. /\ UNCHANGED <<idOf, outcome, responses>>
      /\ abandoned' = abandoned \cup {c \in Calls : Issued(c) /\ outcome[c] = << >>}
  BY DEF Restart, network
<1>2. Produced' = Produced /\ Verdict' = Verdict
  BY <1>1 DEF Produced, Verdict
<1>3. ASSUME NEW c \in Calls
      PROVE  StateOf(c)' = IF StateOf(c) = "open" THEN "abandoned" ELSE StateOf(c)
  <2>1. CASE c \in abandoned
    BY <1>1, <2>1, StateIs DEF StateOf
  <2>2. CASE c \notin abandoned /\ Issued(c) /\ outcome[c] = << >>
    BY <1>1, <2>2, StateIs DEF StateOf
  <2>3. CASE c \notin abandoned /\ ~ (Issued(c) /\ outcome[c] = << >>)
    <3>1. c \notin abandoned'
      BY <1>1, <2>3
    <3>2. StateOf(c)' = StateOf(c)
      BY <1>1, <2>3, <3>1 DEF StateOf, Issued
    <3>3. StateOf(c) # "open"
      BY <2>3, StateIs
    <3> QED BY <3>2, <3>3
  <2> QED BY <2>1, <2>2, <2>3
<1>4. States' = [c \in Calls |-> IF States[c] = "open" THEN "abandoned" ELSE States[c]]
  BY <1>3 DEF States
<1>5. Remote!Crash
  BY <1>2, <1>4 DEF Remote!Crash
<1> QED BY <1>5 DEF Remote!Next

\* Every step keeps the promise, as long as no id was drawn twice.
LEMMA StepPromise ==
  ASSUME IInv, SystemInv, IInv', SystemInv', [SystemNext]_systemVars
  PROVE  Remote!Next \/ ~ IdsDistinct \/ UNCHANGED Remote!vars
<1>1. TypeOK /\ Sessions /\ Progress /\ SystemTypeOK
  BY DEF IInv, Sessions, Progress, SystemInv
<1>2. CASE Restart
  BY <1>2, RestartPromise
<1>3. ASSUME NEW request \in requests, NEW result \in PeerResults,
             Serve(request, result)
      PROVE  Remote!Next
  BY <1>3, ServePromise
<1>4. ASSUME Rests, UNCHANGED <<lives, responses>> PROVE UNCHANGED Remote!vars
  <2>1. UNCHANGED <<idOf, outcome, abandoned, responses>>
    BY <1>4 DEF Rests, lives
  <2>2. States' = States /\ Verdict' = Verdict /\ Produced' = Produced
    BY <2>1 DEF States, StateOf, Issued, Verdict, Produced
  <2> QED BY <2>2 DEF Remote!vars
<1>5. CASE ~ Restart /\ responses' = responses
  <2>1. UNCHANGED <<lives, responses>>
    BY <1>1, <1>5, StepCases
  <2>2. ASSUME IdsDistinct PROVE Remote!Next \/ Rests
    BY <1>1, <1>5, <2>1, <2>2, StepCases, OpenSessionPromise, RefusedPromise, EndedPromise
  <2> QED BY <1>4, <2>1, <2>2
<1> QED BY <1>2, <1>3, <1>5
    DEF SystemNext, systemVars, ClientStep, Deliver, network

\* A call is given at most one result: one a server produced for it, or
\* kTimeout, or kInError if it was never sent; the client's death leaves its
\* open calls without any. So it is until the client draws an id again.
THEOREM Promise == SystemSpec => ImplementsRemoteCall
<1>1. SystemInit => Remote!Init
  <2> SUFFICES ASSUME SystemInit PROVE Remote!Init
    OBVIOUS
  <2>1. States = [c \in Calls |-> "idle"]
    BY DEF SystemInit, Init, States, StateOf, Issued
  <2>2. Produced = [c \in Calls |-> {}]
    BY DEF SystemInit, Produced
  <2>3. Verdict = [c \in Calls |-> "none"]
    BY DEF SystemInit, Init, Verdict
  <2> QED BY <2>1, <2>2, <2>3 DEF Remote!Init
<1>2. /\ IInv /\ SystemInv /\ (IInv /\ SystemInv)' /\ [SystemNext]_systemVars
      => [Remote!Next \/ ~ IdsDistinct]_(Remote!vars)
  BY StepPromise
<1> QED BY <1>1, <1>2, SystemConsistent, PTL DEF SystemSpec, ImplementsRemoteCall
=============================================================================
