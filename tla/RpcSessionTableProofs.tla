----------------------- MODULE RpcSessionTableProofs -----------------------
(* RpcSessionManager implements SessionTable: the pool of nodes, its scan and  *)
(* its timers behave as a bounded set of calls that each end once.            *)
EXTENDS RpcSessionManagerProofs, FiniteSetTheorems

-----------------------------------------------------------------------------
(* The scan visits every node, because the pool's size divides the range of   *)
(* the sequence part: the carry keeps the step from node to node.             *)

\* A multiple of the size more does not change the remainder.
LEMMA Remainder ==
  ASSUME NEW P \in Nat \ {0}, NEW q \in Nat, NEW r \in 0 .. P - 1
  PROVE  (q * P + r) % P = r
OBVIOUS

\* One of the next PoolSize ids leads to the node, across the wrap too.
LEMMA ScanReaches ==
  ASSUME next_rpc_id \in RpcIds, NEW n \in Nodes
  PROVE  \E k \in 1 .. ScanLength : NodeOf(RpcIdAfter(k)) = n
<1> DEFINE P == PoolSize
           M == SeqSpan \div P
           s == next_rpc_id - CoreBase
           r == s % P
           k == IF n > r THEN n - r ELSE n - r + P
<1>1. /\ P \in Nat \ {0} /\ SeqSpan \in Nat \ {0} /\ CoreId \in Nat
      /\ CoreBase \in Nat
  BY PoolAssumption, SpanAssumption, CoreAssumption DEF CoreBase
<1>2. M \in Nat /\ SeqSpan = M * P
  BY <1>1, PowersAssumption
<1>3. s \in 0 .. SeqSpan - 1
  BY <1>1 DEF RpcIds
<1>4. r \in 0 .. P - 1 /\ s \div P \in Nat /\ s = (s \div P) * P + r
  BY <1>1, <1>3
<1>5. k \in 1 .. P
  BY <1>1, <1>4 DEF Nodes
<1>6. \E q \in Nat : s + k = q * P + n
  <2>1. CASE n > r
    <3>1. s + k = (s \div P) * P + n
      BY <1>1, <1>3, <1>4, <2>1 DEF Nodes
    <3> QED BY <1>4, <3>1
  <2>2. CASE ~ (n > r)
    <3>1. s + k = (s \div P + 1) * P + n
      BY <1>1, <1>3, <1>4, <2>2 DEF Nodes
    <3> QED BY <1>4, <3>1
  <2> QED BY <2>1, <2>2
<1> HIDE DEF P, M, s, r, k
<1>7. RpcIdAfter(k) = CoreBase + ((s + k) % SeqSpan)
  BY DEF RpcIdAfter, s
<1>8. \E q \in Nat : (s + k) % SeqSpan = q * P + n
  <2>1. PICK q \in Nat : s + k = q * P + n
    BY <1>6
  <2>2. s + k \in 0 .. 2 * SeqSpan - 1
    BY <1>1, <1>3, <1>5, PowersAssumption DEF P
  <2>3. CASE s + k < SeqSpan
    BY <1>1, <2>1, <2>2, <2>3, ModOnce
  <2>4. CASE s + k >= SeqSpan
    <3>1. (s + k) % SeqSpan = (q - M) * P + n
      BY <1>1, <1>2, <2>1, <2>2, <2>4, ModOnce DEF Nodes
    <3>2. q - M \in Nat
      <4>1. n \in 0 .. P - 1
        BY DEF Nodes, P
      <4>2. q * P + n >= M * P
        BY <1>2, <2>1, <2>4
      <4> QED BY <1>1, <1>2, <4>1, <4>2
    <3> QED BY <3>1, <3>2
  <2> QED BY <1>1, <2>2, <2>3, <2>4
<1>9. \E q \in Nat : RpcIdAfter(k) = q * P + n
  <2>1. PICK q \in Nat : (s + k) % SeqSpan = q * P + n
    BY <1>8
  <2>2. CoreBase = ((CoreId + 1) * M) * P
    BY <1>1, <1>2 DEF CoreBase
  <2>3. RpcIdAfter(k) = ((CoreId + 1) * M + q) * P + n
    BY <1>1, <1>2, <1>7, <2>1, <2>2 DEF Nodes
  <2>4. (CoreId + 1) * M + q \in Nat
    BY <1>1, <1>2
  <2> QED BY <2>3, <2>4
<1>10. NodeOf(RpcIdAfter(k)) = n
  BY <1>1, <1>9, Remainder DEF NodeOf, Nodes, P
<1> QED BY <1>5, <1>10 DEF ScanLength, P

-----------------------------------------------------------------------------
(* The number of open calls is the number of taken nodes.                     *)
Taken == {n \in Nodes : Occupied(n)}

\* No two nodes hold the same call.
LEMMA TakenAreCounted ==
  ASSUME TypeOK, Sessions
  PROVE  /\ IsFiniteSet(Taken)
         /\ Cardinality(OpenCalls) = Cardinality(Taken)
<1> DEFINE f == [n \in Taken |-> pool[n].call]
<1>1. IsFiniteSet(Nodes)
  BY FS_Interval, PoolAssumption DEF Nodes
<1>2. IsFiniteSet(Taken)
  BY <1>1, FS_Subset DEF Taken
<1>3. f \in Surjection(Taken, OpenCalls)
  BY DEF Surjection, OpenCalls, Taken
<1>4. f \in Injection(Taken, OpenCalls)
  BY <1>3, OneNodePerCall DEF Injection, IsInjective, Surjection, Taken
<1> QED BY <1>2, <1>3, <1>4, FS_Surjection

\* A table with an empty node has room, one without has none.
LEMMA RoomInTable ==
  ASSUME TypeOK, Sessions
  PROVE  /\ (\A n \in Nodes : Occupied(n)) => Cardinality(OpenCalls) = PoolSize
         /\ (\E n \in Nodes : ~ Occupied(n)) => Cardinality(OpenCalls) < PoolSize
<1>1. IsFiniteSet(Nodes) /\ Cardinality(Nodes) = PoolSize
  BY FS_Interval, PoolAssumption DEF Nodes
<1>2. /\ IsFiniteSet(Taken) /\ Cardinality(Taken) \in Nat
      /\ Cardinality(OpenCalls) = Cardinality(Taken)
  BY TakenAreCounted, FS_CardinalityType
<1>3. ASSUME \A n \in Nodes : Occupied(n) PROVE Taken = Nodes
  BY <1>3 DEF Taken
<1>4. ASSUME NEW n \in Nodes, ~ Occupied(n)
      PROVE  Cardinality(Taken) < PoolSize
  <2>1. Taken \in SUBSET Nodes /\ Taken # Nodes
    BY <1>4 DEF Taken
  <2>2. /\ Cardinality(Taken) <= Cardinality(Nodes)
        /\ Cardinality(Nodes) # Cardinality(Taken)
    BY <1>1, <2>1, FS_Subset
  <2> QED BY <1>1, <1>2, <2>2, PoolAssumption
<1> QED BY <1>1, <1>2, <1>3, <1>4

-----------------------------------------------------------------------------
(* What a step does to the mapped variables.                                  *)

\* The table counts its calls with the same operator.
LEMMA SameCount == \A S : Table!Cardinality(S) = Cardinality(S)
BY DEF Table!Cardinality, Cardinality

\* A call has a verdict once its done has run.
LEMMA VerdictOf ==
  ASSUME TypeOK, NEW c \in Calls
  PROVE  Verdict[c] = Table!Undecided <=> outcome[c] = << >>
<1>1. CASE outcome[c] = << >>
  BY <1>1 DEF Verdict, Table!Undecided
<1>2. CASE outcome[c] # << >>
  <2>1. outcome[c][Len(outcome[c])] \in Outcomes
    BY <1>2 DEF TypeOK
  <2>2. outcome[c][Len(outcome[c])].result \in Results
    BY <2>1 DEF Outcomes
  <2> QED BY <1>2, <2>2 DEF Verdict, Table!Undecided, Results
<1> QED BY <1>1, <1>2

\* The first outcome of a call is its verdict.
LEMMA FirstVerdict ==
  ASSUME TypeOK, NEW c \in Calls, outcome[c] = << >>, NEW o,
         outcome' = [outcome EXCEPT ![c] = Append(@, o)]
  PROVE  Verdict' = [Verdict EXCEPT ![c] = o.result]
<1>1. /\ outcome'[c] = << o >>
      /\ \A d \in Calls \ {c} : outcome'[d] = outcome[d]
  BY DEF TypeOK
<1>2. outcome'[c] # << >> /\ outcome'[c][Len(outcome'[c])] = o
  BY <1>1
<1>3. Verdict'[c] = o.result
  BY <1>2 DEF Verdict
<1>4. ASSUME NEW d \in Calls \ {c} PROVE Verdict'[d] = Verdict[d]
  BY <1>1 DEF Verdict
<1>5. Verdict \in [Calls -> {Verdict[d] : d \in Calls}]
  BY DEF Verdict
<1>6. Verdict' = [d \in Calls |-> Verdict'[d]]
  BY DEF Verdict
<1> QED BY <1>3, <1>4, <1>5, <1>6

\* The calls the nodes hold.
LEMMA SameOpenCalls == SamePool => OpenCalls' = OpenCalls
BY DEF SamePool, OpenCalls, Occupied

\* A handler that runs done ends the call of its node.
LEMMA RunDoneEnds ==
  ASSUME TypeOK, Sessions, ~ InDone, SamePool,
         NEW n \in Nodes, Occupied(n), NEW result \in Results,
         NEW by, NEW cancel, RunDone(n, result, by, cancel)
  PROVE  Table!Next
<1> DEFINE c == pool[n].call
           o == [result |-> result, by |-> by]
<1>1. c \in Calls /\ outcome[c] = << >>
  BY TakenIsUndecided
<1>2. c \in OpenCalls
  BY DEF OpenCalls
<1>3. Verdict[c] = Table!Undecided
  BY <1>1, VerdictOf
<1>4. Verdict' = [Verdict EXCEPT ![c] = result]
  <2>1. o.result = result /\ outcome' = [outcome EXCEPT ![c] = Append(@, o)]
    BY DEF RunDone
  <2> HIDE DEF c, o
  <2> QED BY <1>1, <2>1, FirstVerdict
<1>5. OpenCalls' = OpenCalls
  BY SameOpenCalls
<1>6. Table!End(c, result)
  BY <1>2, <1>3, <1>4, <1>5 DEF Table!End
<1> QED BY <1>1, <1>6 DEF Table!Next

\* AddSession turns a call away only if no node was empty, else opens it.
LEMMA AddSessionMaps ==
  ASSUME TypeOK, Sessions, NEW c \in Calls, AddSession(c)
  PROVE  Table!Next \/ UNCHANGED <<OpenCalls, Verdict>>
<1>1. c \notin called
  BY DEF AddSession, RejectOversize, PoolExhausted, OpenSession, MayCall
<1>2. outcome[c] = << >> /\ Verdict[c] = Table!Undecided
  BY <1>1, VerdictOf DEF Sessions, NotCalledYet
<1>3. c \notin OpenCalls
  BY <1>1 DEF OpenCalls, Sessions, NodesHoldCalls
<1>4. CASE RejectOversize(c)
  <2>1. pool' = pool /\ outcome' = outcome
    BY <1>4 DEF RejectOversize
  <2> QED BY <2>1, SameOpenCalls DEF SamePool, Verdict
<1>5. CASE PoolExhausted(c)
  <2> DEFINE o == [result |-> "kInError", by |-> NoCall]
  <2>1. /\ o.result = "kInError" /\ pool' = pool
        /\ outcome' = [outcome EXCEPT ![c] = Append(@, o)]
    BY <1>5 DEF PoolExhausted
  <2> HIDE DEF o
  <2>2. \A n \in Nodes : Occupied(n)
    <3>1. \A k \in 1 .. ScanLength : Occupied(NodeOf(RpcIdAfter(k)))
      BY <1>5 DEF PoolExhausted, EmptyAt
    <3> QED BY <3>1, ScanReaches DEF TypeOK
  <2>3. Cardinality(OpenCalls) = PoolSize
    BY <2>2, RoomInTable
  <2>4. Verdict' = [Verdict EXCEPT ![c] = "kInError"]
    BY <1>2, <2>1, FirstVerdict
  <2>5. OpenCalls' = OpenCalls
    BY <2>1, SameOpenCalls DEF SamePool
  <2>6. Table!TurnAway(c)
    BY <1>2, <1>3, <2>3, <2>4, <2>5, SameCount DEF Table!TurnAway, Table!Outside
  <2> QED BY <2>6 DEF Table!Next
<1>6. ASSUME NEW k \in 1 .. ScanLength, OpenSession(c, k) PROVE Table!Next
  <2> DEFINE id == RpcIdAfter(k)
             n  == NodeOf(id)
  <2>1. k \in Nat
    BY PoolAssumption DEF ScanLength
  <2>2. id \in Nat \ {0} /\ n \in Nodes /\ ~ Occupied(n)
    BY <1>6, <2>1, RpcIdInRange, RpcIdsArePositive, NodeOfIsNode
       DEF TypeOK, OpenSession, FirstEmpty, EmptyAt
  <2>3. /\ outcome' = outcome
        /\ pool' = [pool EXCEPT ![n] =
                      [rpc_id |-> id, call |-> c, endpoint_index |-> 0]]
    BY <1>6 DEF OpenSession
  <2> HIDE DEF id, n
  <2>4. /\ pool'[n].rpc_id # 0 /\ pool'[n].call = c
        /\ \A m \in Nodes \ {n} : pool'[m] = pool[m]
    BY <2>2, <2>3 DEF TypeOK
  <2>5. OpenCalls' = OpenCalls \cup {c}
    BY <2>2, <2>4 DEF OpenCalls, Occupied
  <2>6. Cardinality(OpenCalls) < PoolSize
    BY <2>2, RoomInTable
  <2>7. Verdict' = Verdict
    BY <2>3 DEF Verdict
  <2>8. Table!Open(c)
    BY <1>2, <1>3, <2>5, <2>6, <2>7, SameCount DEF Table!Open, Table!Outside
  <2> QED BY <2>8 DEF Table!Next
<1> QED BY <1>4, <1>5, <1>6 DEF AddSession

\* A failed send ends a call, or changes nothing the table shows.
LEMMA OnSendRequestFailedMaps ==
  ASSUME TypeOK, Sessions, NEW c \in Calls, OnSendRequestFailed(c)
  PROVE  Table!Next \/ UNCHANGED <<OpenCalls, Verdict>>
<1> DEFINE n == FindSessionNode(idOf[c])
<1>1. ~ InDone /\ idOf[c] # 0
  BY DEF OnSendRequestFailed, Sessions, SentCallsHaveIds
<1>2. n # NoNode => n \in Nodes /\ Occupied(n)
  BY <1>1, FoundIsUndecided
<1>3. SamePool
  BY OnSendRequestFailedPool
<1>4. CASE outcome' = outcome
  BY <1>3, <1>4, SameOpenCalls DEF Verdict
<1>5. CASE AllEndpointsFailed(c)
  <2>1. n # NoNode /\ RunDone(n, "kTimeout", NoCall, TRUE)
    BY <1>5 DEF AllEndpointsFailed
  <2>2. "kTimeout" \in Results
    BY DEF Results
  <2> HIDE DEF n
  <2> QED BY <1>1, <1>2, <1>3, <2>1, <2>2, RunDoneEnds
<1> QED BY <1>4, <1>5 DEF OnSendRequestFailed, NoSession, TryNextEndpoint

\* A response ends the call of the node it finds, or only spoils its message.
LEMMA OnRecvResponseMaps ==
  ASSUME TypeOK, Sessions, NEW c \in Calls, NEW parses \in BOOLEAN,
         NEW result \in PeerResults, OnRecvResponse(c, parses, result)
  PROVE  Table!Next \/ UNCHANGED <<OpenCalls, Verdict>>
<1> DEFINE n == FindSessionNode(idOf[c])
<1>1. ~ InDone /\ idOf[c] # 0 /\ n # NoNode /\ pool' = pool
  BY DEF OnRecvResponse
<1>2. n \in Nodes /\ Occupied(n)
  BY <1>1, FoundIsUndecided
<1>3. SamePool
  BY <1>1 DEF SamePool
<1>4. CASE outcome' = outcome
  BY <1>3, <1>4, SameOpenCalls DEF Verdict
<1>5. CASE RunDone(n, result, c, TRUE)
  <2>1. result \in Results
    BY PeerAssumption
  <2> HIDE DEF n
  <2> QED BY <1>1, <1>2, <1>3, <1>5, <2>1, RunDoneEnds
<1> QED BY <1>4, <1>5 DEF OnRecvResponse

\* A timer closure ends the call of its node, if it holds one.
LEMMA OnSessionTimeoutMaps ==
  ASSUME TypeOK, Sessions, NEW n \in Nodes, OnSessionTimeout(n)
  PROVE  Table!Next \/ UNCHANGED <<OpenCalls, Verdict>>
<1>1. ~ InDone /\ pool' = pool
  BY DEF OnSessionTimeout
<1>2. SamePool
  BY <1>1 DEF SamePool
<1>3. CASE outcome' = outcome
  BY <1>2, <1>3, SameOpenCalls DEF Verdict
<1>4. CASE Occupied(n) /\ RunDone(n, "kTimeout", NoCall, FALSE)
  <2>1. "kTimeout" \in Results
    BY DEF Results
  <2> QED BY <1>1, <1>2, <1>4, <2>1, RunDoneEnds
<1> QED BY <1>3, <1>4 DEF OnSessionTimeout

\* The call whose done has returned leaves the table.
LEMMA FinishDoneMaps ==
  ASSUME TypeOK, Sessions, FinishDone
  PROVE  Table!Next
<1> DEFINE n == completing.node
           c == pool[n].call
<1>1. /\ n \in Nodes /\ Occupied(n)
      /\ pool' = FreeSessionNode(n) /\ outcome' = outcome
  BY DEF FinishDone, InDone, TypeOK, Sessions, RunningNodeTaken
<1>2. c \in Calls /\ c \in OpenCalls
  BY <1>1, TakenNodeHasCall DEF OpenCalls
<1>3. outcome[c] # << >>
  <2>1. Len(outcome[c]) = 1
    BY <1>1 DEF Sessions, OutcomeOfNode
  <2> HIDE DEF c
  <2>2. Len(<< >>) = 0
    OBVIOUS
  <2> QED BY <2>1, <2>2
<1>4. Verdict[c] # Table!Undecided /\ Verdict' = Verdict
  BY <1>1, <1>2, <1>3, VerdictOf DEF Verdict
<1> HIDE DEF n
<1>5. \A m \in Nodes : /\ Occupied(m)' <=> Occupied(m) /\ m # n
                       /\ m # n => pool'[m] = pool[m]
  BY <1>1 DEF FreeSessionNode, TypeOK, Occupied
<1>6. OpenCalls' = OpenCalls \ {c}
  BY <1>1, <1>5, OneNodePerCall DEF OpenCalls
<1>7. Table!Close(c)
  BY <1>2, <1>4, <1>6 DEF Table!Close
<1> QED BY <1>2, <1>7 DEF Table!Next

\* Every step is a step of the table, or none.
LEMMA StepMaps ==
  ASSUME TypeOK, Sessions, [Next]_vars
  PROVE  Table!Next \/ UNCHANGED <<OpenCalls, Verdict>>
<1>1. ASSUME pool' = pool, outcome' = outcome
      PROVE  UNCHANGED <<OpenCalls, Verdict>>
  BY <1>1, SameOpenCalls DEF SamePool, Verdict
<1>2. ASSUME NEW c \in Calls, SendEnds(c) PROVE UNCHANGED <<OpenCalls, Verdict>>
  BY <1>1, <1>2 DEF SendEnds
<1>3. ASSUME NEW due \in SUBSET armed, Tick(due)
      PROVE  UNCHANGED <<OpenCalls, Verdict>>
  BY <1>1, <1>3 DEF Tick
<1>4. CASE UNCHANGED vars
  BY <1>1, <1>4 DEF vars
<1> QED BY <1>2, <1>3, <1>4, AddSessionMaps, OnSendRequestFailedMaps,
           OnRecvResponseMaps, OnSessionTimeoutMaps, FinishDoneMaps DEF Next

\* The pool of nodes is a table of PoolSize calls: a call is turned away only
\* when every node is taken, wherever the scan starts, and a call that was let
\* in ends once, and leaves after it has ended.
THEOREM Implementation == Spec => ImplementsTable
<1>1. Init => Table!Init
  <2> SUFFICES ASSUME Init PROVE OpenCalls = {} /\ Verdict = [c \in Calls |-> "none"]
    BY DEF Table!Init, Table!Undecided
  <2> QED BY DEF Init, OpenCalls, Occupied, Verdict
<1>2. IInv /\ [Next]_vars => [Table!Next]_(Table!vars)
  BY StepMaps DEF IInv, Sessions, Table!vars
<1> QED BY <1>1, <1>2, Consistent, PTL DEF Spec, ImplementsTable, Table!Spec
=============================================================================
