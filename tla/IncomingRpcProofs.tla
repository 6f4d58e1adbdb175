------------------------- MODULE IncomingRpcProofs -------------------------
(* What holds of IncomingRpc for every set of threads, requests, services and *)
(* lengths: each request is answered once, with its own id, and no message is *)
(* used after it was deleted.                                                 *)
EXTENDS IncomingRpc, FiniteSetTheorems, WellFoundedInduction, TLAPS

\* A number of registrations has a last one.
LEMMA LastRegistration ==
  ASSUME NEW n \in Nat, NEW S \in SUBSET (1 .. n), S # {}
  PROVE  \E i \in S : \A j \in S : j <= i
<1> DEFINE T == {n - i : i \in S}
<1>1. T \subseteq Nat /\ T # {}
  <2>1. \A i \in S : n - i \in Nat
    OBVIOUS
  <2>2. PICK i \in S : TRUE
    OBVIOUS
  <2>3. n - i \in T
    OBVIOUS
  <2> QED BY <2>1, <2>3
<1>2. IsWellFoundedOn(OpToRel(<, Nat), Nat)
  BY NatLessThanWellFounded
<1> HIDE DEF T
<1>3. PICK x \in T : \A y \in T : ~ (<<y, x>> \in OpToRel(<, Nat))
  BY <1>1, <1>2, WFMin
<1>4. \A y \in T : ~ (y < x)
  BY <1>1, <1>3 DEF OpToRel
<1>5. PICK i \in S : x = n - i
  BY DEF T
<1>6. \A j \in S : n - j \in T
  BY DEF T
<1> QED BY <1>4, <1>5, <1>6

\* OnFindService returns the last service registered under the name, or none.
LEMMA FoundIsLast ==
  ASSUME NEW name, FindService(name) # NoService
  PROVE  \E i \in {i \in DOMAIN Registered : NameOf[Registered[i]] = name} :
           /\ Registered[i] = FindService(name)
           /\ \A j \in {j \in DOMAIN Registered : NameOf[Registered[j]] = name} : j <= i
<1> DEFINE named == {i \in DOMAIN Registered : NameOf[Registered[i]] = name}
<1>1. Len(Registered) \in Nat /\ named \in SUBSET (1 .. Len(Registered))
  BY RegisteredAssumption
<1>2. named # {}
  BY DEF FindService
<1> DEFINE i == CHOOSE i \in named : \A j \in named : j <= i
<1>3. FindService(name) = Registered[i]
  BY <1>2 DEF FindService
<1> HIDE DEF named
<1>4. i \in named /\ \A j \in named : j <= i
  BY <1>1, <1>2, LastRegistration
<1> HIDE DEF i
<1> QED BY <1>3, <1>4 DEF named

\* What Accepts lets through is cut where it was put together.
LEMMA AcceptedCut ==
  ASSUME NEW h \in Nat, NEW b \in Nat, Accepts(SendMessage(h, b))
  PROVE  Cut(SendMessage(h, b)) = <<h, b>>
<1> DEFINE x == h % HeaderSpan
           y == b % BodySpan
<1>1. x \in Nat /\ x <= h /\ y \in Nat /\ y <= b
  BY FieldAssumption
<1>2. Overhead + h + b = Overhead + x + y
  BY DEF Accepts, SendMessage
<1> HIDE DEF x, y
<1>3. x = h /\ y = b
  BY <1>1, <1>2, OverheadAssumption
<1> USE DEF x, y
<1> QED BY <1>3 DEF Cut, SendMessage

-----------------------------------------------------------------------------
\* Before anything is received.
LEMMA InitInv == Init => IInv
<1> SUFFICES ASSUME Init PROVE IInv
  OBVIOUS
<1>1. Len(runs) = 0 /\ runs \in Seq(Run) /\ 1 .. Len(runs) = {}
  BY DEF Init
<1>2. TypeOK
  BY <1>1, BoundAssumption DEF Init, TypeOK, Header, Results, Runs
<1>3. /\ OneThreadAnswers /\ AnswererHoldsHeader /\ SentAfterAnswer /\ SentOnce
      /\ MemoryAccounted
  BY DEF Init, OneThreadAnswers, AnswererHoldsHeader, SentAfterAnswer, SentOnce,
         MemoryAccounted
<1>4. NoUseAfterDelete /\ AcceptedAsSent /\ ServesAsCalled /\ BaseAnswersNotImpl
  BY <1>1 DEF NoUseAfterDelete, AcceptedAsSent, ServesAsCalled, BaseAnswersNotImpl
<1> QED BY <1>2, <1>3, <1>4 DEF IInv

\* Where no context is created, answered or deleted nothing else changes either.
LEMMA SameContexts ==
  ASSUME IInv, TypeOK', UNCHANGED <<runs, heap, pending, header, answering, sent>>
  PROVE  IInv'
<1>1. OneThreadAnswers' /\ AnswererHoldsHeader'
  BY DEF IInv, OneThreadAnswers, AnswererHoldsHeader
<1>2. SentAfterAnswer'
  BY DEF IInv, SentAfterAnswer, Answering
<1>3. SentOnce'
  BY DEF IInv, SentOnce
<1>4. NoUseAfterDelete'
  BY DEF IInv, NoUseAfterDelete, Answering, New
<1>5. MemoryAccounted' /\ AcceptedAsSent'
  BY DEF IInv, MemoryAccounted, Accounted, Answering, AcceptedAsSent
<1>6. ServesAsCalled'
  BY DEF IInv, ServesAsCalled
<1>7. BaseAnswersNotImpl'
  BY DEF IInv, BaseAnswersNotImpl, AnswersAtOnce
<1> QED BY <1>1, <1>2, <1>3, <1>4, <1>5, <1>6, <1>7 DEF IInv

\* A packet that is accepted adds one run, with everything it needs.
LEMMA ReceiveStep ==
  ASSUME IInv, NEW w \in Workers, NEW r \in Requests, OnRecvPacket(w, r)
  PROVE  IInv'
<1> DEFINE p == SendMessage(HeaderLen[r], BodyLen[r])
           service == FindService(Called[r].service)
           run == [of |-> r, service |-> service, by |-> w, cut |-> Cut(p)]
           k == Len(runs) + 1
<1>1. /\ Accepts(p) /\ OnRecvRequestMessage(w, r, p) /\ received' = received \cup {r}
      /\ UNCHANGED <<header, answering, sent>>
  BY DEF OnRecvPacket
<1>2. CASE UNCHANGED <<runs, heap, pending>>
  <2>1. TypeOK'
    BY <1>1, <1>2 DEF IInv, TypeOK
  <2> QED BY <1>1, <1>2, <2>1, SameContexts
<1>3. CASE /\ Declares(service, Called[r].method) /\ k \in Runs
           /\ runs' = Append(runs, run) /\ heap' = heap \cup New(k)
           /\ pending' = IF r \in BodyParses THEN pending \cup {k} ELSE pending
  <2>1. /\ Cut(p) = <<HeaderLen[r], BodyLen[r]>>
        /\ HeaderLen[r] \in Nat /\ BodyLen[r] \in Nat
    BY <1>1, LengthAssumption, AcceptedCut
  <2>2. /\ Called[r].method \in Methods[service]
        /\ \E i \in {i \in DOMAIN Registered : NameOf[Registered[i]] = Called[r].service} :
             /\ Registered[i] = service
             /\ \A j \in {j \in DOMAIN Registered :
                            NameOf[Registered[j]] = Called[r].service} : j <= i
    BY <1>3, FoundIsLast DEF Declares
  <2>3. /\ run \in Run /\ run.of = r /\ run.cut = <<HeaderLen[r], BodyLen[r]>>
        /\ run.service = service
    BY <2>1, <2>2 DEF Run, Services
  <2> HIDE DEF run, p, service
  <2>4. runs \in Seq(Run) /\ Len(runs) \in Nat /\ k <= MaxRuns
    BY <1>3, BoundAssumption DEF IInv, TypeOK, Runs
  <2>5. /\ runs' \in Seq(Run) /\ Len(runs') = k /\ runs'[k] = run
        /\ \A j \in 1 .. Len(runs) : runs'[j] = runs[j]
    BY <1>3, <2>3, <2>4
  <2>6. 1 .. k = (1 .. Len(runs)) \cup {k} /\ k \notin 1 .. Len(runs)
    BY <2>4
  <2>7. /\ heap \subseteq Objects \X (1 .. Len(runs)) /\ pending \subseteq 1 .. Len(runs)
        /\ answering \in [Threads -> 0 .. Len(runs)]
    BY DEF IInv, TypeOK
  <2> HIDE DEF k
  <2>8. New(k) \subseteq Objects \X (1 .. k)
    BY <2>6 DEF New
  <2>9. 0 .. Len(runs) \subseteq 0 .. k
    BY <2>4 DEF k
  <2>10. TypeOK'
    <3>1. heap' \subseteq Objects \X (1 .. Len(runs'))
      BY <1>3, <2>5, <2>6, <2>7, <2>8
    <3>2. pending' \subseteq 1 .. Len(runs')
      BY <1>3, <2>5, <2>6, <2>7
    <3>3. answering' \in [Threads -> 0 .. Len(runs')]
      BY <1>1, <2>5, <2>7, <2>9
    <3> QED BY <1>1, <2>4, <2>5, <3>1, <3>2, <3>3 DEF IInv, TypeOK
  <2>11. \A t \in Threads : answering[t] # k
    BY <2>4, <2>7 DEF k
  <2>12. OneThreadAnswers' /\ SentOnce'
    BY <1>1 DEF IInv, OneThreadAnswers, SentOnce
  <2>13. AnswererHoldsHeader'
    BY <1>1, <1>3, <2>11 DEF IInv, AnswererHoldsHeader
  <2>14. SentAfterAnswer'
    <3> SUFFICES ASSUME NEW j \in Runs, j \in pending' \/ Answering(j)' \/ j > k
                 PROVE  sent[j] = {}
      BY <1>1, <2>5 DEF SentAfterAnswer
    <3>1. j \in pending \/ Answering(j) \/ j > Len(runs)
      BY <1>1, <1>3, <2>4 DEF Answering, Runs, k
    <3> QED BY <3>1 DEF IInv, SentAfterAnswer
  <2>15. NoUseAfterDelete'
    <3> SUFFICES ASSUME NEW j \in 1 .. k, j \in pending' \/ Answering(j)'
                 PROVE  New(j) \subseteq heap'
      BY <2>5 DEF NoUseAfterDelete, New
    <3>1. CASE j = k
      BY <1>3, <3>1
    <3>2. CASE j # k
      <4>1. j \in 1 .. Len(runs) /\ (j \in pending \/ Answering(j))
        BY <1>1, <1>3, <2>6, <3>2 DEF Answering
      <4> QED BY <1>3, <4>1 DEF IInv, NoUseAfterDelete
    <3> QED BY <3>1, <3>2
  <2>16. MemoryAccounted'
    <3> SUFFICES ASSUME NEW o \in heap' PROVE Accounted(o[1], o[2])'
      BY DEF MemoryAccounted
    <3>1. CASE o \in heap
      <4>1. Accounted(o[1], o[2]) /\ o[2] \in 1 .. Len(runs)
        BY <2>7, <3>1 DEF IInv, MemoryAccounted
      <4>2. runs'[o[2]] = runs[o[2]]
        BY <2>5, <4>1
      <4> QED BY <1>1, <1>3, <4>1, <4>2 DEF Accounted, Answering
    <3>2. CASE o \in New(k)
      <4>1. o[2] = k
        BY <3>2 DEF New
      <4> QED BY <1>3, <2>3, <2>5, <4>1 DEF Accounted
    <3> QED BY <1>3, <3>1, <3>2
  <2>17. AcceptedAsSent'
    BY <2>3, <2>5, <2>6 DEF IInv, AcceptedAsSent
  <2>18. ServesAsCalled'
    BY <2>2, <2>3, <2>5, <2>6 DEF IInv, ServesAsCalled
  <2>19. BaseAnswersNotImpl'
    <3>1. k \in Runs /\ k > Len(runs)
      BY <1>3, <2>4 DEF k
    <3>2. sent[k] = {}
      BY <3>1 DEF IInv, SentAfterAnswer
    <3>3. \A j \in 1 .. Len(runs) : AnswersAtOnce(j)' <=> AnswersAtOnce(j)
      BY <2>5 DEF AnswersAtOnce
    <3>4. \A j \in 1 .. k : j = k \/ j \in 1 .. Len(runs)
      BY <2>6
    <3> QED BY <1>1, <2>5, <2>11, <3>2, <3>3, <3>4 DEF IInv, BaseAnswersNotImpl
  <2> QED BY <2>10, <2>12, <2>13, <2>14, <2>15, <2>16, <2>17, <2>18, <2>19 DEF IInv
<1> QED BY <1>1, <1>2, <1>3 DEF OnRecvRequestMessage

\* The closure of a pending run starts in a thread that runs no other.
LEMMA DoneStep ==
  ASSUME IInv, NEW t \in Threads, NEW k \in 1 .. Len(runs), OnIncomingRpcDone(t, k)
  PROVE  IInv'
<1>1. /\ k \in pending /\ answering[t] = 0 /\ pending' = pending \ {k}
      /\ answering' = [answering EXCEPT ![t] = k]
      /\ UNCHANGED <<received, runs, heap, sent>>
  BY DEF OnIncomingRpcDone
<1>2. PICK result \in Results :
        /\ header' = [header EXCEPT ![t] = [run |-> k, result |-> result]]
        /\ AnswersAtOnce(k) => result = "kNotImpl"
  BY DEF OnIncomingRpcDone, FillHeader, Results
<1>3. Len(runs) \in Nat /\ k \in Runs /\ k # 0
  BY BoundAssumption DEF IInv, TypeOK, Runs
<1>4. /\ answering \in [Threads -> 0 .. Len(runs)] /\ header \in [Threads -> Header]
      /\ pending \subseteq 1 .. Len(runs)
  BY DEF IInv, TypeOK
<1>5. /\ answering'[t] = k /\ header'[t].run = k /\ header'[t].result = result
      /\ \A u \in Threads \ {t} : answering'[u] = answering[u] /\ header'[u] = header[u]
  BY <1>1, <1>2, <1>4
<1>6. \A u \in Threads : answering[u] # k
  BY <1>1, <1>3 DEF IInv, AnswererHoldsHeader
<1>7. TypeOK'
  <2>1. [run |-> k, result |-> result] \in Header
    BY <1>3 DEF Header
  <2>2. header' \in [Threads -> Header]
    BY <1>2, <1>4, <2>1
  <2>3. answering' \in [Threads -> 0 .. Len(runs)]
    BY <1>1, <1>3, <1>4
  <2> QED BY <1>1, <2>2, <2>3 DEF IInv, TypeOK
<1>8. OneThreadAnswers'
  BY <1>5, <1>6 DEF IInv, OneThreadAnswers
<1>9. AnswererHoldsHeader'
  BY <1>1, <1>5 DEF IInv, AnswererHoldsHeader
<1>10. \A j \in Runs : j \in pending' \/ Answering(j)' => j \in pending \/ Answering(j)
  BY <1>1, <1>5 DEF Answering
<1>11. SentAfterAnswer' /\ SentOnce'
  BY <1>1, <1>10 DEF IInv, SentAfterAnswer, SentOnce
<1>12. NoUseAfterDelete'
  <2>1. 1 .. Len(runs) \subseteq Runs
    BY <1>3, BoundAssumption DEF IInv, TypeOK, Runs
  <2> QED BY <1>1, <1>10, <2>1 DEF IInv, NoUseAfterDelete, New
<1>13. MemoryAccounted'
  <2>1. \A j \in 1 .. Len(runs) :
          j \in pending \/ Answering(j) => j \in pending' \/ Answering(j)'
    BY <1>1, <1>5 DEF Answering
  <2>2. \A o \in heap : o[2] \in 1 .. Len(runs)
    BY DEF IInv, TypeOK
  <2> QED BY <1>1, <2>1, <2>2 DEF IInv, MemoryAccounted, Accounted
<1>14. AcceptedAsSent'
  BY <1>1 DEF IInv, AcceptedAsSent
<1>15. ServesAsCalled'
  BY <1>1 DEF IInv, ServesAsCalled
<1>16. BaseAnswersNotImpl'
  <2> SUFFICES ASSUME NEW j \in 1 .. Len(runs), AnswersAtOnce(j)
               PROVE  /\ \A u \in Threads : answering'[u] = j => header'[u].result = "kNotImpl"
                      /\ \A head \in sent[j] : head.result = "kNotImpl"
    BY <1>1 DEF BaseAnswersNotImpl, AnswersAtOnce
  <2>1. /\ \A u \in Threads : answering[u] = j => header[u].result = "kNotImpl"
        /\ \A head \in sent[j] : head.result = "kNotImpl"
    BY DEF IInv, BaseAnswersNotImpl
  <2> QED BY <1>2, <1>5, <2>1
<1> QED BY <1>7, <1>8, <1>9, <1>11, <1>12, <1>13, <1>14, <1>15, <1>16 DEF IInv

\* The response goes out with its header, and the context is deleted.
LEMMA SendStep ==
  ASSUME IInv, NEW t \in Threads, SendResponse(t) PROVE IInv'
<1> DEFINE k == answering[t]
           head == header[t]
<1>1. /\ k # 0 /\ k \in 0 .. Len(runs) /\ Len(runs) \in Nat /\ Len(runs) <= MaxRuns
      /\ head \in Header /\ head.run = k /\ k \notin pending
  BY DEF IInv, TypeOK, SendResponse, AnswererHoldsHeader
<1>2. k \in 1 .. Len(runs) /\ k \in Runs
  BY <1>1, BoundAssumption DEF Runs
<1>3. /\ sent' = [sent EXCEPT ![k] = @ \cup {head}]
      /\ heap' = Delete(heap, k)
      /\ answering' = [answering EXCEPT ![t] = 0]
      /\ UNCHANGED <<received, runs, pending, header>>
  BY DEF SendResponse
<1>4. /\ answering \in [Threads -> 0 .. Len(runs)]
      /\ heap \subseteq Objects \X (1 .. Len(runs)) /\ pending \subseteq 1 .. Len(runs)
      /\ sent \in [Runs -> SUBSET Header]
  BY DEF IInv, TypeOK
<1>5. \A u \in Threads \ {t} : answering[u] # k
  BY <1>1 DEF IInv, OneThreadAnswers
<1>6. sent[k] = {}
  BY <1>2 DEF IInv, SentAfterAnswer, Answering
<1>7. PICK j \in Runs : j = k
  BY <1>2
<1>8. PICK h \in Header : h = head
  BY <1>1
<1> HIDE DEF k, head
<1>9. /\ answering'[t] = 0
      /\ \A u \in Threads \ {t} : answering'[u] = answering[u]
  BY <1>3, <1>4
<1>10. /\ sent'[j] = {h} /\ h.run = j
       /\ \A i \in Runs \ {j} : sent'[i] = sent[i]
  BY <1>1, <1>3, <1>4, <1>6, <1>7, <1>8
<1>11. \A i \in Runs : i \in pending' \/ Answering(i)'
                      => i # j /\ (i \in pending \/ Answering(i))
  BY <1>1, <1>3, <1>5, <1>7, <1>9 DEF Answering, Runs
<1>12. \A i \in 1 .. Len(runs) : i # j /\ (i \in pending \/ Answering(i))
                               => i \in pending' \/ Answering(i)'
  BY <1>3, <1>7, <1>9 DEF Answering, k
<1>13. heap' = heap \ (IF runs[j].service \in ArenaEnabled
                         THEN New(j) ELSE {<<"context", j>>})
  BY <1>3, <1>7 DEF Delete
<1>14. TypeOK'
  <2>1. heap' \subseteq heap
    BY <1>13
  <2>2. sent' \in [Runs -> SUBSET Header]
    BY <1>3, <1>4, <1>7, <1>8
  <2>3. answering' \in [Threads -> 0 .. Len(runs)]
    BY <1>1, <1>3, <1>4
  <2> QED BY <1>3, <1>4, <2>1, <2>2, <2>3 DEF IInv, TypeOK
<1>15. OneThreadAnswers' /\ AnswererHoldsHeader'
  BY <1>3, <1>9 DEF IInv, OneThreadAnswers, AnswererHoldsHeader
<1>16. SentAfterAnswer'
  <2> SUFFICES ASSUME NEW i \in Runs, i \in pending' \/ Answering(i)' \/ i > Len(runs)
               PROVE  sent'[i] = {}
    BY <1>3 DEF SentAfterAnswer
  <2>1. i # j /\ (i \in pending \/ Answering(i) \/ i > Len(runs))
    BY <1>1, <1>2, <1>7, <1>11 DEF Runs
  <2> QED BY <1>10, <2>1 DEF IInv, SentAfterAnswer
<1>17. SentOnce'
  BY <1>10 DEF IInv, SentOnce
<1>18. NoUseAfterDelete'
  <2> SUFFICES ASSUME NEW i \in 1 .. Len(runs), i \in pending' \/ Answering(i)'
               PROVE  New(i) \subseteq heap'
    BY <1>3 DEF NoUseAfterDelete, New
  <2>1. i \in Runs
    BY <1>1, BoundAssumption DEF Runs
  <2>2. i # j /\ (i \in pending \/ Answering(i))
    BY <1>11, <2>1
  <2>3. New(i) \subseteq heap
    BY <2>2 DEF IInv, NoUseAfterDelete
  <2> QED BY <1>13, <2>2, <2>3 DEF New
<1>19. MemoryAccounted'
  <2> SUFFICES ASSUME NEW o \in heap' PROVE Accounted(o[1], o[2])'
    BY DEF MemoryAccounted
  <2>1. o \in heap /\ Accounted(o[1], o[2])
    BY <1>13 DEF IInv, MemoryAccounted
  <2>2. o = <<o[1], o[2]>> /\ o[1] \in Objects /\ o[2] \in 1 .. Len(runs)
    BY <1>4, <2>1
  <2>3. CASE o[2] = j
    BY <1>3, <1>13, <2>2, <2>3 DEF New, Accounted
  <2>4. CASE o[2] # j
    BY <1>3, <1>12, <2>1, <2>2, <2>4 DEF Accounted
  <2> QED BY <2>3, <2>4
<1>20. AcceptedAsSent'
  BY <1>3 DEF IInv, AcceptedAsSent
<1>21. ServesAsCalled'
  BY <1>3 DEF IInv, ServesAsCalled
<1>22. BaseAnswersNotImpl'
  <2> SUFFICES ASSUME NEW i \in 1 .. Len(runs), AnswersAtOnce(i)
               PROVE  /\ \A u \in Threads : answering'[u] = i => header[u].result = "kNotImpl"
                      /\ \A other \in sent'[i] : other.result = "kNotImpl"
    BY <1>3 DEF BaseAnswersNotImpl, AnswersAtOnce
  <2>1. /\ \A u \in Threads : answering[u] = i => header[u].result = "kNotImpl"
        /\ \A other \in sent[i] : other.result = "kNotImpl"
    BY DEF IInv, BaseAnswersNotImpl
  <2>2. i \in Runs /\ i # 0
    BY <1>1, BoundAssumption DEF Runs
  <2>3. i = j => h.result = "kNotImpl"
    BY <1>7, <1>8, <2>1 DEF k, head
  <2> QED BY <1>9, <1>10, <2>1, <2>2, <2>3
<1> QED BY <1>14, <1>15, <1>16, <1>17, <1>18, <1>19, <1>20, <1>21, <1>22 DEF IInv

\* Receptions, answers and sends keep the invariant.
LEMMA StepInv == IInv /\ [Next]_vars => IInv'
<1> SUFFICES ASSUME IInv, [Next]_vars PROVE IInv'
  OBVIOUS
<1>1. CASE UNCHANGED vars
  <2>1. TypeOK'
    BY <1>1 DEF vars, IInv, TypeOK
  <2> QED BY <1>1, <2>1, SameContexts DEF vars
<1> QED BY <1>1, ReceiveStep, DoneStep, SendStep DEF Next

-----------------------------------------------------------------------------
\* The contexts, the closures and the headers stay consistent.
THEOREM IncomingConsistent == Spec => []IInv
BY InitInv, StepInv, PTL DEF Spec

\* A request's response goes out once, with the request's id and result,
\* whichever threads run done closures at the same time.
THEOREM AnswersOwnRequest == Spec => []AnswersMatch
<1>1. ASSUME IInv, NEW k \in Runs PROVE Cardinality(sent[k]) <= 1
  <2>1. CASE sent[k] = {}
    BY <2>1, FS_EmptySet
  <2>2. ASSUME NEW head, sent[k] = {head} PROVE Cardinality(sent[k]) <= 1
    <3>1. Cardinality({head}) = 1
      BY FS_Singleton
    <3> QED BY <2>2, <3>1
  <2> QED BY <1>1, <2>1, <2>2 DEF IInv, SentOnce
<1>2. IInv => AnswersMatch
  BY <1>1 DEF IInv, SentOnce, SentAfterAnswer, AnswersMatch
<1> QED BY <1>2, IncomingConsistent, PTL

\* A service and the thread that answers for it find the context and both
\* messages allocated.
THEOREM NothingUsedAfterDelete == Spec => []NoUseAfterDelete
<1>1. IInv => NoUseAfterDelete
  BY DEF IInv
<1> QED BY <1>1, IncomingConsistent, PTL

\* Nothing else stays allocated than what MemoryAccounted lists.
THEOREM NothingElseAllocated == Spec => []MemoryAccounted
<1>1. IInv => MemoryAccounted
  BY DEF IInv
<1> QED BY <1>1, IncomingConsistent, PTL

\* Contexts and messages are deleted by the step that sends their response, and
\* an answered request is over.
THEOREM AnsweredOnceForAll == Spec => DeletedWhenAnswered
<1> DEFINE Goal(k) ==
             /\ ~ New(k) \cap heap \subseteq heap' =>
                  Answering(k) /\ sent[k] = {} /\ sent'[k] # {}
             /\ sent[k] # {} =>
                  sent'[k] = sent[k] /\ New(k) \cap heap' \subseteq heap /\ k \notin pending'
<1>1. ASSUME IInv, IInv', [Next]_vars, NEW k \in Runs PROVE Goal(k)
  <2>1. sent[k] # {} => /\ k \notin pending /\ ~ Answering(k)
                        /\ ~ (k > Len(runs))
    BY <1>1 DEF IInv, SentAfterAnswer
  <2>2. /\ Len(runs) \in Nat /\ k \in Nat
        /\ answering \in [Threads -> 0 .. Len(runs)] /\ sent \in [Runs -> SUBSET Header]
    BY <1>1, BoundAssumption DEF IInv, TypeOK, Runs
  <2>3. ASSUME NEW w \in Workers, NEW r \in Requests, OnRecvPacket(w, r) PROVE Goal(k)
    <3> DEFINE j == Len(runs) + 1
    <3>1. /\ sent' = sent
          /\ \/ heap' = heap /\ pending' = pending
             \/ heap' = heap \cup New(j) /\ pending' \subseteq pending \cup {j}
      BY <2>3 DEF OnRecvPacket, OnRecvRequestMessage
    <3>2. sent[k] # {} => k # j
      BY <2>1, <2>2
    <3> HIDE DEF j
    <3>3. k # j => New(k) \cap New(j) = {}
      BY DEF New
    <3>4. heap \subseteq heap'
      BY <3>1
    <3>5. sent[k] # {} => New(k) \cap heap' \subseteq heap
      BY <3>1, <3>2, <3>3
    <3>6. sent[k] # {} => k \notin pending'
      BY <2>1, <3>1, <3>2
    <3> QED BY <3>1, <3>4, <3>5, <3>6
  <2>4. ASSUME NEW t \in Threads, NEW j \in 1 .. Len(runs), OnIncomingRpcDone(t, j)
        PROVE  Goal(k)
    BY <2>1, <2>4 DEF OnIncomingRpcDone
  <2>5. ASSUME NEW t \in Threads, SendResponse(t) PROVE Goal(k)
    <3> DEFINE j == answering[t]
    <3>1. /\ j # 0 /\ sent' = [sent EXCEPT ![j] = @ \cup {header[t]}]
          /\ heap' = Delete(heap, j) /\ pending' = pending
      BY <2>5 DEF SendResponse
    <3>2. heap' \subseteq heap /\ heap \ heap' \subseteq New(j)
      BY <3>1 DEF Delete, New, Objects
    <3>3. CASE k = j
      <4>1. Answering(k)
        BY <3>3 DEF Answering
      <4>2. sent[k] = {} /\ header[t] \in sent'[k]
        BY <2>1, <2>2, <3>1, <3>3, <4>1
      <4> QED BY <4>1, <4>2
    <3>4. CASE k # j
      <4>1. New(k) \cap New(j) = {}
        BY <3>4 DEF New
      <4>2. sent'[k] = sent[k]
        BY <2>2, <3>1, <3>4
      <4> QED BY <2>1, <3>1, <3>2, <4>1, <4>2
    <3> QED BY <3>3, <3>4
  <2>6. CASE UNCHANGED vars
    BY <2>1, <2>6 DEF vars
  <2> HIDE DEF Goal
  <2> QED BY <1>1, <2>3, <2>4, <2>5, <2>6 DEF Next
<1>2. IInv /\ IInv' /\ [Next]_vars => [\A k \in Runs : Goal(k)]_vars
  BY <1>1
<1> QED BY <1>2, IncomingConsistent, PTL DEF Spec, DeletedWhenAnswered

\* For all lengths and field widths, a message that passes OnRecvPacket's
\* checks is cut where SendMessage joined its parts.
THEOREM CutAsSent == Spec => []AcceptedAsSent
<1>1. IInv => AcceptedAsSent
  BY DEF IInv
<1> QED BY <1>1, IncomingConsistent, PTL

\* A call is served by the last service registered under its name, which declares
\* its method; one that names no such service or method is never answered.
UnknownIsDropped ==
  \A k \in 1 .. Len(runs) : sent[k] # {} =>
    LET called == Called[runs[k].of]
    IN Declares(FindService(called.service), called.method)

THEOREM ServedAsCalled == Spec => [](ServesAsCalled /\ UnknownIsDropped)
<1>1. ASSUME IInv PROVE UnknownIsDropped
  <2> SUFFICES ASSUME NEW k \in 1 .. Len(runs)
               PROVE  Declares(FindService(Called[runs[k].of].service),
                               Called[runs[k].of].method)
    BY DEF UnknownIsDropped
  <2> DEFINE called == Called[runs[k].of]
             named == {i \in DOMAIN Registered : NameOf[Registered[i]] = called.service}
             last == CHOOSE i \in named : \A j \in named : j <= i
  <2>1. PICK i \in named : /\ Registered[i] = runs[k].service
                           /\ \A j \in named : j <= i
    BY <1>1 DEF IInv, ServesAsCalled
  <2>2. called.method \in Methods[runs[k].service]
    BY <1>1 DEF IInv, ServesAsCalled
  <2>3. named \in SUBSET Nat
    BY RegisteredAssumption
  <2>4. FindService(called.service) = Registered[last]
    BY <2>1 DEF FindService
  <2>5. Registered[i] # NoService
    BY <2>1, ServicesAssumption
  <2> HIDE DEF named, called
  <2>6. last \in named /\ \A j \in named : j <= last
    BY <2>1
  <2> HIDE DEF last
  <2>7. last = i
    BY <2>1, <2>3, <2>6
  <2> QED BY <2>1, <2>2, <2>4, <2>5, <2>7 DEF Declares, called
<1>2. IInv => ServesAsCalled /\ UnknownIsDropped
  BY <1>1 DEF IInv
<1> QED BY <1>2, IncomingConsistent, PTL

\* A method left to the base class is answered kNotImpl and with nothing else,
\* whichever results other threads put in their response headers meanwhile.
THEOREM BaseMethodNotImpl == Spec => []BaseAnswersNotImpl
<1>1. IInv => BaseAnswersNotImpl
  BY DEF IInv
<1> QED BY <1>1, IncomingConsistent, PTL
=============================================================================
