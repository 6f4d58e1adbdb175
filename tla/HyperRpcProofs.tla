--------------------------- MODULE HyperRpcProofs ---------------------------
(* What holds of HyperRpc for every number of workers, queue size, pool size, *)
(* set of threads, calls and requests: a done closure runs once, an event     *)
(* finds its session, and a waiting thread is woken for its own call.         *)
EXTENDS HyperRpc, FiniteSetTheorems, TLAPS

-----------------------------------------------------------------------------
(* Lemmas on the queues.                                                      *)

\* What is in a sequence with an element added, ...
LEMMA AppendElements ==
  ASSUME NEW S, NEW s \in Seq(S), NEW e \in S
  PROVE  /\ Append(s, e) \in Seq(S) /\ Len(Append(s, e)) = Len(s) + 1
         /\ Append(s, e)[Len(s) + 1] = e
         /\ \A n \in 1 .. Len(s) : Append(s, e)[n] = s[n]
         /\ Len(s) \in Nat
OBVIOUS

\* ... and in one whose first element was taken.
LEMMA TailElements ==
  ASSUME NEW S, NEW s \in Seq(S), s # << >>
  PROVE  /\ Tail(s) \in Seq(S) /\ Len(Tail(s)) = Len(s) - 1
         /\ Head(s) = s[1] /\ Head(s) \in S
         /\ \A n \in 1 .. Len(s) - 1 : Tail(s)[n] = s[n + 1]
         /\ Len(s) \in Nat \ {0}
OBVIOUS

Kinds == {"call", "request", "response", "misfit", "failed"}
Queues == [Workers -> Seq(Task)]

\* A task posted: one more in that queue, the others as they were.
LEMMA PostedTo ==
  ASSUME queue \in Queues, NEW w \in Workers, NEW task \in Task,
         queue' = Enqueue(queue, w, task)
  PROVE  /\ queue' \in Queues
         /\ Len(queue'[w]) = Len(queue[w]) + 1
         /\ queue'[w][Len(queue[w]) + 1] = task
         /\ \A n \in 1 .. Len(queue[w]) : queue'[w][n] = queue[w][n]
         /\ \A v \in Workers : v # w => queue'[v] = queue[v]
<1>1. queue[w] \in Seq(Task)
  BY DEF Queues
<1>2. queue'[w] = Append(queue[w], task) /\ queue' \in Queues
  BY <1>1, AppendElements DEF Enqueue, Queues
<1>3. \A v \in Workers : v # w => queue'[v] = queue[v]
  BY DEF Enqueue, Queues
<1> QED BY <1>1, <1>2, <1>3, AppendElements

\* A task taken: one less, the others one place further ahead.
LEMMA TakenFrom ==
  ASSUME queue \in Queues, NEW w \in Workers, queue[w] # << >>,
         queue' = [queue EXCEPT ![w] = Tail(@)]
  PROVE  /\ queue' \in Queues
         /\ Len(queue'[w]) = Len(queue[w]) - 1
         /\ Len(queue[w]) \in Nat \ {0}
         /\ Head(queue[w]) = queue[w][1] /\ Head(queue[w]) \in Task
         /\ \A n \in 1 .. Len(queue[w]) - 1 : queue'[w][n] = queue[w][n + 1]
         /\ \A v \in Workers : v # w => queue'[v] = queue[v]
<1>1. queue[w] \in Seq(Task)
  BY DEF Queues
<1>2. queue'[w] = Tail(queue[w]) /\ queue' \in Queues
  <2>1. Tail(queue[w]) \in Seq(Task)
    BY <1>1, TailElements
  <2> QED BY <2>1 DEF Queues
<1>3. \A v \in Workers : v # w => queue'[v] = queue[v]
  BY DEF Queues
<1>4. /\ Len(Tail(queue[w])) = Len(queue[w]) - 1
      /\ Head(queue[w]) = queue[w][1] /\ Head(queue[w]) \in Task
      /\ \A n \in 1 .. Len(queue[w]) - 1 : Tail(queue[w])[n] = queue[w][n + 1]
      /\ Len(queue[w]) \in Nat \ {0}
  BY <1>1, TailElements
<1> QED BY <1>2, <1>3, <1>4

\* What is queued after a post, ...
LEMMA QueuedAfterPost ==
  ASSUME queue \in Queues, NEW w \in Workers, NEW task \in Task,
         queue' = Enqueue(queue, w, task),
         NEW v \in Workers, NEW kind, NEW of
  PROVE  Queued(v, kind, of)' <=>
           Queued(v, kind, of) \/ (v = w /\ task = [kind |-> kind, of |-> of])
<1>1. \A u \in Workers : Len(queue[u]) \in Nat
  BY DEF Queues
<1>2. CASE v # w
  BY <1>2, PostedTo DEF Queued
<1>3. CASE v = w
  <2>1. 1 .. Len(queue'[w]) = (1 .. Len(queue[w])) \cup {Len(queue[w]) + 1}
    BY <1>1, PostedTo
  <2>2. /\ queue'[w][Len(queue[w]) + 1] = task
        /\ \A n \in 1 .. Len(queue[w]) : queue'[w][n] = queue[w][n]
    BY PostedTo
  <2>3. Queued(v, kind, of)' <=>
          \E n \in 1 .. Len(queue'[w]) : queue'[w][n] = [kind |-> kind, of |-> of]
    BY <1>3 DEF Queued
  <2>4. Queued(v, kind, of) <=>
          \E n \in 1 .. Len(queue[w]) : queue[w][n] = [kind |-> kind, of |-> of]
    BY <1>3 DEF Queued
  <2> QED BY ONLY <1>3, <2>1, <2>2, <2>3, <2>4
<1> QED BY <1>2, <1>3

\* ... and after the oldest task was taken.
LEMMA QueuedAfterTake ==
  ASSUME queue \in Queues, NEW w \in Workers, queue[w] # << >>,
         queue' = [queue EXCEPT ![w] = Tail(@)],
         NEW v \in Workers, NEW kind, NEW of
  PROVE  /\ Queued(v, kind, of)' => Queued(v, kind, of)
         /\ Queued(v, kind, of)
              => \/ Queued(v, kind, of)'
                 \/ v = w /\ Head(queue[w]) = [kind |-> kind, of |-> of]
         /\ Head(queue[w]) = [kind |-> kind, of |-> of] => Queued(w, kind, of)
<1>1. \A u \in Workers : Len(queue[u]) \in Nat
  BY DEF Queues
<1>2. ASSUME v # w PROVE Queued(v, kind, of)' <=> Queued(v, kind, of)
  BY <1>2, TakenFrom DEF Queued
<1>3. Queued(w, kind, of)' => Queued(w, kind, of)
  BY <1>1, TakenFrom DEF Queued
<1>4. Queued(w, kind, of)
        => Queued(w, kind, of)' \/ Head(queue[w]) = [kind |-> kind, of |-> of]
  <2> SUFFICES ASSUME NEW n \in 1 .. Len(queue[w]), n # 1,
                      queue[w][n] = [kind |-> kind, of |-> of]
               PROVE  Queued(w, kind, of)'
    BY TakenFrom DEF Queued
  <2>1. PICK m \in 1 .. Len(queue[w]) - 1 : n = m + 1
    <3>1. n - 1 \in 1 .. Len(queue[w]) - 1 /\ n = (n - 1) + 1
      BY <1>1
    <3> QED BY <3>1
  <2>2. queue'[w][m] = [kind |-> kind, of |-> of] /\ m \in 1 .. Len(queue'[w])
    BY <1>1, <2>1, TakenFrom
  <2> QED BY <2>2 DEF Queued
<1>5. Head(queue[w]) = [kind |-> kind, of |-> of] => Queued(w, kind, of)
  BY TakenFrom DEF Queued
<1> QED BY <1>2, <1>3, <1>4, <1>5

-----------------------------------------------------------------------------
(* Typing.                                                                    *)

\* Before anything is called.
LEMMA TypeInit == Init => TypeOK
<1> SUFFICES ASSUME Init PROVE TypeOK
  OBVIOUS
<1>1. queue \in [Workers -> Seq(Task)] /\ \A w \in Workers : Len(queue[w]) <= QueueSize
  <2>1. << >> \in Seq(Task) /\ Len(<< >>) = 0
    OBVIOUS
  <2> QED BY <2>1, QueueAssumption DEF Init
<1>2. "kSuccess" \in Results /\ << >> \in Seq(Results) /\ << >> \in Seq(Workers)
  BY DEF Results
<1> QED BY <1>1, <1>2 DEF Init, TypeOK

\* A done closure that runs, or does not, leaves results and counts.
LEMMA DoneTyped ==
  ASSUME TypeOK,
         \/ NoDone
         \/ \E c \in Calls, result \in Results : RunDone(c, result)
  PROVE  /\ rpc_result' \in [Calls -> Results]
         /\ evfd' \in [AppThreads -> Nat]
         /\ outcome' \in [Calls -> Seq(Results)]
<1>1. CASE NoDone
  BY <1>1 DEF NoDone, TypeOK
<1>2. ASSUME NEW c \in Calls, NEW result \in Results, RunDone(c, result)
      PROVE  /\ rpc_result' \in [Calls -> Results]
             /\ evfd' \in [AppThreads -> Nat]
             /\ outcome' \in [Calls -> Seq(Results)]
  <2>1. Append(outcome[c], result) \in Seq(Results)
    BY AppendElements DEF TypeOK
  <2>2. outcome' \in [Calls -> Seq(Results)]
    BY <1>2, <2>1 DEF RunDone, TypeOK
  <2>3. CASE Synchronous(c)
    <3>1. CallerOf[c] \in AppThreads
      BY <2>3, CallerAssumption DEF Synchronous
    <3>2. /\ rpc_result' = [rpc_result EXCEPT ![c] = result]
          /\ evfd' = [evfd EXCEPT ![CallerOf[c]] = @ + 1]
      BY <1>2, <2>3 DEF RunDone
    <3> QED BY <2>2, <3>1, <3>2 DEF TypeOK
  <2>4. CASE ~Synchronous(c)
    BY <1>2, <2>2, <2>4 DEF RunDone, TypeOK
  <2> QED BY <2>3, <2>4
<1> QED BY <1>1, <1>2

\* So does a task posted, dropped or taken.
LEMMA QueueTyped ==
  ASSUME TypeOK, NEW w \in Workers, NEW task \in Task,
         \/ Redirect(queue, w, task)
         \/ Room(queue, w) /\ queue' = Enqueue(queue, w, task)
  PROVE  /\ queue' \in [Workers -> Seq(Task)]
         /\ \A v \in Workers : Len(queue'[v]) <= QueueSize
<1>1. queue \in Queues /\ \A v \in Workers : Len(queue[v]) \in Nat
  BY DEF TypeOK, Queues
<1>2. CASE queue' = queue
  BY <1>2 DEF TypeOK
<1>3. CASE Room(queue, w) /\ queue' = Enqueue(queue, w, task)
  <2>1. queue' \in Queues
    BY <1>1, <1>3, PostedTo
  <2>2. ASSUME NEW v \in Workers PROVE Len(queue'[v]) <= QueueSize
    <3>1. CASE v = w
      BY <1>1, <1>3, <3>1, PostedTo, QueueAssumption DEF Room
    <3>2. CASE v # w
      BY <1>1, <1>3, <3>2, PostedTo DEF TypeOK
    <3> QED BY <3>1, <3>2
  <2> QED BY <2>1, <2>2 DEF Queues
<1> QED BY <1>2, <1>3 DEF Redirect

CoreTypeOK ==
  /\ rpc_result \in [Calls -> Results]
  /\ evfd \in [AppThreads -> Nat]
  /\ outcome \in [Calls -> Seq(Results)]
  /\ open \in [Workers -> SUBSET Calls]
  /\ owner \in [Calls -> Workers \cup {NoWorker}]
  /\ inflight \subseteq Calls
  /\ tries \in [Calls -> Nat]
  /\ served \in [Requests -> Seq(Workers)]

\* Every way through RpcCore::CallMethod keeps the types, ...
LEMMA CallTyped ==
  ASSUME TypeOK, NEW w \in Workers, NEW c \in Calls,
         CoreCallMethod(w, c), UNCHANGED served
  PROVE  CoreTypeOK'
<1>1. \/ NoDone
      \/ \E result \in Results : RunDone(c, result)
  BY DEF CoreCallMethod, Results
<1>2. /\ open' \in [Workers -> SUBSET Calls]
      /\ owner' \in [Calls -> Workers \cup {NoWorker}]
      /\ inflight' \subseteq Calls
      /\ tries' \in [Calls -> Nat]
  <2>1. CASE UNCHANGED <<open, owner, inflight, tries>>
    BY <2>1 DEF TypeOK
  <2>2. CASE /\ open' = [open EXCEPT ![w] = @ \cup {c}]
             /\ owner' = [owner EXCEPT ![c] = w]
             /\ inflight' = inflight \cup {c}
             /\ tries' = [tries EXCEPT ![c] = 1]
    <3>1. open[w] \cup {c} \in SUBSET Calls
      BY DEF TypeOK
    <3> QED BY <2>2, <3>1 DEF TypeOK
  <2> QED BY <2>1, <2>2 DEF CoreCallMethod
<1> QED BY <1>1, <1>2, DoneTyped DEF CoreTypeOK, TypeOK

\* ... through RpcCore::OnRecvPacket ...
LEMMA PacketTyped ==
  ASSUME TypeOK, NEW w \in Workers, NEW p \in Task,
         p.kind \in {"request", "response", "misfit"},
         CoreRecvPacket(w, p), UNCHANGED <<owner, inflight, tries>>
  PROVE  CoreTypeOK'
<1>1. CASE p.kind = "request"
  <2>1. p.of \in Requests
    BY <1>1 DEF Task
  <2>2. served' \in [Requests -> Seq(Workers)]
    <3>1. Append(served[p.of], w) \in Seq(Workers)
      BY <2>1, AppendElements DEF TypeOK
    <3>2. served' = served \/ served' = [served EXCEPT ![p.of] = Append(@, w)]
      BY DEF CoreRecvPacket
    <3> QED BY <2>1, <3>1, <3>2 DEF TypeOK
  <2>3. NoDone /\ UNCHANGED open
    BY <1>1 DEF CoreRecvPacket
  <2> QED BY <2>2, <2>3, DoneTyped DEF CoreTypeOK, TypeOK
<1>2. CASE p.kind = "response"
  <2>1. p.of \in Calls
    BY <1>2 DEF Task
  <2>2. \/ NoDone
        \/ \E result \in Results : RunDone(p.of, result)
    BY PeerAssumption DEF CoreRecvPacket
  <2>3. open' \in [Workers -> SUBSET Calls] /\ served' = served
    <3>1. open[w] \ {p.of} \in SUBSET Calls
      BY DEF TypeOK
    <3> QED BY <1>2, <3>1 DEF CoreRecvPacket, TypeOK
  <2> QED BY <2>1, <2>2, <2>3, DoneTyped DEF CoreTypeOK, TypeOK
<1>3. CASE p.kind = "misfit"
  <2>1. NoDone /\ UNCHANGED <<open, served>>
    BY <1>3 DEF CoreRecvPacket
  <2> QED BY <2>1, DoneTyped DEF CoreTypeOK, TypeOK
<1> QED BY <1>1, <1>2, <1>3

\* ... and through RpcCore::OnSendPacketFailed.
LEMMA FailedTyped ==
  ASSUME TypeOK, NEW w \in Workers, NEW c \in Calls, NEW f \in SUBSET Calls,
         CoreSendFailed(w, c, f), UNCHANGED <<owner, served>>
  PROVE  CoreTypeOK'
<1>1. \/ NoDone
      \/ \E result \in Results : RunDone(c, result)
  BY DEF CoreSendFailed, Results
<1>2. open' \in [Workers -> SUBSET Calls]
  BY DEF CoreSendFailed, TypeOK
<1>3. inflight' \subseteq Calls
  BY DEF CoreSendFailed
<1>4. tries' \in [Calls -> Nat]
  <2>1. tries' = tries \/ tries' = [tries EXCEPT ![c] = @ + 1]
    BY DEF CoreSendFailed
  <2>2. tries \in [Calls -> Nat]
    BY DEF TypeOK
  <2> QED BY <2>1, <2>2
<1> QED BY <1>1, <1>2, <1>3, <1>4, DoneTyped DEF CoreTypeOK, TypeOK

\* What was sent has an owner.
LEMMA SentHasOwner ==
  ASSUME TypeOK, SendsReported, NEW c \in Calls, tries[c] > 0 \/ c \in inflight
  PROVE  owner[c] \in Workers
<1>1. tries[c] \in Nat /\ failures[c] \in Nat /\ owner[c] \in Workers \cup {NoWorker}
  BY DEF TypeOK
<1> QED BY <1>1 DEF SendsReported, Reported

\* A misfit posted to its owner, or dropped, changes nothing else.
LEMMA MisfitEffect ==
  ASSUME TypeOK, SendsReported, NEW w \in Workers, NEW c \in Calls, RecvMisfit(w, c)
  PROVE  /\ UNCHANGED <<caller, returned, rpc_result, evfd, open, owner, outcome,
                       inflight, tries, failures, heard, served, received, overflowed>>
         /\ \/ queue' = queue
            \/ \E v \in Workers : Room(queue, v)
                   /\ queue' = Enqueue(queue, v, [kind |-> "misfit", of |-> c])
<1> DEFINE p == [kind |-> "misfit", of |-> c]
<1>1. p.kind = "misfit" /\ p.of = c
  OBVIOUS
<1>2. NoDone /\ UNCHANGED <<open, served>>
  BY <1>1 DEF RecvMisfit, RecvPacket, CoreRecvPacket
<1>3. CASE CoreToRedirectTo(w, p) # w
  <2>1. owner[c] \in Workers
    BY SentHasOwner DEF RecvMisfit
  <2>2. 0 \in Workers
    BY WorkerNumAssumption DEF Workers
  <2>3. PICK v \in Workers : CoreToRedirectTo(w, p) = v
    BY <1>1, <2>1, <2>2 DEF CoreToRedirectTo
  <2>4. Redirect(queue, v, p)
    BY <1>3, <2>3 DEF RecvMisfit, RecvPacket
  <2>5. overflowed' = overflowed
    BY <1>1, <2>4 DEF Redirect, LostBy
  <2> QED BY <1>2, <2>4, <2>5 DEF RecvMisfit, RecvPacket, NoDone, Redirect
<1>4. CASE CoreToRedirectTo(w, p) = w
  BY <1>2, <1>4 DEF RecvMisfit, RecvPacket, NoDone
<1> QED BY <1>3, <1>4

\* Every action keeps the types.
LEMMA TypeStep == TypeOK /\ SendsReported /\ [Next]_vars => TypeOK'
<1> SUFFICES ASSUME TypeOK, SendsReported, [Next]_vars
             PROVE  TypeOK'
  OBVIOUS
<1> DEFINE CallerTypeOK == /\ caller \in [Calls -> {"idle", "waiting", "returned"}]
                           /\ returned \in [Calls -> Results]
           QueueTypeOK == /\ queue \in [Workers -> Seq(Task)]
                          /\ \A w \in Workers : Len(queue[w]) <= QueueSize
           EventTypeOK == /\ failures \in [Calls -> Nat]
                          /\ heard \in [Calls -> Nat]
                          /\ received \in [Requests -> Seq(Workers)]
                          /\ overflowed \subseteq Calls
<1> SUFFICES CallerTypeOK' /\ QueueTypeOK' /\ EventTypeOK' /\ CoreTypeOK'
  BY DEF TypeOK, CoreTypeOK
<1>0. CallerTypeOK /\ QueueTypeOK /\ EventTypeOK /\ CoreTypeOK
  BY DEF TypeOK, CoreTypeOK
<1>a. queue \in Queues /\ \A w \in Workers : Len(queue[w]) \in Nat
  BY DEF TypeOK, Queues
<1>1. CASE UNCHANGED vars
  BY <1>0, <1>1 DEF vars, CoreTypeOK
<1>2. ASSUME NEW c \in Calls, WakeUp(c)
      PROVE  CallerTypeOK' /\ QueueTypeOK' /\ EventTypeOK' /\ CoreTypeOK'
  <2>1. CallerTypeOK'
    BY <1>0, <1>2 DEF WakeUp, CoreTypeOK
  <2>2. evfd' \in [AppThreads -> Nat]
    BY <1>0, <1>2 DEF WakeUp, CoreTypeOK
  <2> QED BY <1>0, <1>2, <2>1, <2>2 DEF WakeUp, CoreTypeOK
<1>3. ASSUME NEW c \in Calls, SentOk(c)
      PROVE  CallerTypeOK' /\ QueueTypeOK' /\ EventTypeOK' /\ CoreTypeOK'
  BY <1>0, <1>3 DEF SentOk, CoreTypeOK
<1>4. ASSUME NEW w \in Workers, RunTask(w)
      PROVE  CallerTypeOK' /\ QueueTypeOK' /\ EventTypeOK' /\ CoreTypeOK'
  <2> DEFINE task == Head(queue[w])
  <2>1. queue[w] # << >> /\ queue' = [queue EXCEPT ![w] = Tail(@)]
    BY <1>4 DEF RunTask
  <2>2. task \in Task /\ queue' \in Queues
    BY <1>a, <2>1, TakenFrom
  <2>3. \A v \in Workers : Len(queue'[v]) <= QueueSize
    <3>1. TAKE v \in Workers
    <3>2. CASE v = w
      BY <1>0, <1>a, <2>1, <3>2, TakenFrom, QueueAssumption
    <3>3. CASE v # w
      BY <1>0, <1>a, <2>1, <3>3, TakenFrom
    <3> QED BY <3>2, <3>3
  <2>4. CoreTypeOK'
    <3>1. CASE task.kind = "call" /\ RunCall(w, task.of)
      <4>1. task.of \in Calls
        BY <2>2, <3>1 DEF Task
      <4> QED BY <3>1, <4>1, CallTyped DEF RunCall
    <3>2. CASE task.kind \in {"request", "response", "misfit"} /\ RunPacket(w, task)
      BY <2>2, <3>2, PacketTyped DEF RunPacket
    <3>3. CASE task.kind = "failed" /\ RunFailed(w, task.of)
      <4>1. task.of \in Calls /\ inflight \in SUBSET Calls
        BY <1>0, <2>2, <3>3 DEF Task, CoreTypeOK
      <4> QED BY <3>3, <4>1, FailedTyped DEF RunFailed
    <3> QED BY <1>4, <3>1, <3>2, <3>3 DEF RunTask
  <2> QED BY <1>0, <1>4, <2>2, <2>3, <2>4 DEF RunTask, Queues
<1>5. ASSUME NEW w \in Workers, NEW r \in Requests, RecvRequest(w, r)
      PROVE  CallerTypeOK' /\ QueueTypeOK' /\ EventTypeOK' /\ CoreTypeOK'
  <2> DEFINE p == [kind |-> "request", of |-> r]
  <2>1. p \in Task /\ p.kind = "request" /\ p.of = r
    BY DEF Task
  <2>2. CoreTypeOK'
    BY <1>5, <2>1, PacketTyped DEF RecvRequest, RecvPacket
  <2>3. CASE CoreToRedirectTo(w, p) # w
    <3>1. 0 \in Workers /\ CoreToRedirectTo(w, p) = 0
      BY <2>1, WorkerNumAssumption DEF CoreToRedirectTo, HandlesHere, Workers
    <3>2. Redirect(queue, 0, p)
      BY <1>5, <2>3, <3>1 DEF RecvRequest, RecvPacket
    <3>3. QueueTypeOK'
      BY <2>1, <3>1, <3>2, QueueTyped
    <3>4. overflowed' \subseteq Calls
      BY <1>0, <3>2 DEF Redirect, LostBy
    <3>5. received' \in [Requests -> Seq(Workers)]
      BY <1>0, <1>5, AppendElements DEF RecvRequest
    <3> QED BY <1>0, <1>5, <2>2, <3>3, <3>4, <3>5 DEF RecvRequest, RecvPacket
  <2>4. CASE CoreToRedirectTo(w, p) = w
    <3>1. received' \in [Requests -> Seq(Workers)]
      BY <1>0, <1>5, AppendElements DEF RecvRequest
    <3> QED BY <1>0, <1>5, <2>2, <2>4, <3>1 DEF RecvRequest, RecvPacket
  <2> QED BY <2>3, <2>4
<1>6. ASSUME NEW w \in Workers, NEW c \in Calls, CallFromApp(c, w)
      PROVE  CallerTypeOK' /\ QueueTypeOK' /\ EventTypeOK' /\ CoreTypeOK'
  <2>1. CallerTypeOK'
    BY <1>0, <1>6 DEF CallFromApp, Return, Results
  <2>2. CASE Room(queue, w)
    <3>1. [kind |-> "call", of |-> c] \in Task
      BY DEF Task
    <3>2. QueueTypeOK'
      BY <1>6, <2>2, <3>1, QueueTyped DEF CallFromApp
    <3>3. NoDone
      BY <1>6, <2>2 DEF CallFromApp
    <3> QED BY <1>0, <1>6, <2>1, <3>2, <3>3, DoneTyped DEF CallFromApp, CoreTypeOK
  <2>3. CASE ~Room(queue, w)
    <3>1. RunDone(c, "kInError") /\ "kInError" \in Results
      BY <1>6, <2>3 DEF CallFromApp, Results
    <3>2. queue' = queue
      BY <1>6, <2>3 DEF CallFromApp
    <3> QED BY <1>0, <1>6, <2>1, <3>1, <3>2, DoneTyped DEF CallFromApp, CoreTypeOK
  <2> QED BY <2>2, <2>3
<1>7. ASSUME NEW w \in Workers, NEW c \in Calls, CallFromWorker(c, w)
      PROVE  CallerTypeOK' /\ QueueTypeOK' /\ EventTypeOK' /\ CoreTypeOK'
  <2>1. CallerTypeOK'
    BY <1>0, <1>7 DEF CallFromWorker, Return, Results
  <2>2. CoreTypeOK'
    <3>1. CASE c \in SyncCalls
      BY <1>0, <1>7, <3>1, DoneTyped DEF CallFromWorker, CoreTypeOK
    <3>2. CASE c \notin SyncCalls
      BY <1>7, <3>2, CallTyped DEF CallFromWorker
    <3> QED BY <3>1, <3>2
  <2> QED BY <1>0, <1>7, <2>1, <2>2 DEF CallFromWorker
<1>8. ASSUME NEW w \in Workers, NEW c \in Calls, RecvResponse(w, c)
      PROVE  CallerTypeOK' /\ QueueTypeOK' /\ EventTypeOK' /\ CoreTypeOK'
  <2> DEFINE p == [kind |-> "response", of |-> c]
  <2>1. p \in Task /\ p.kind = "response" /\ p.of = c
    BY DEF Task
  <2>2. CoreTypeOK'
    BY <1>8, <2>1, PacketTyped DEF RecvResponse, RecvPacket
  <2>3. heard' \in [Calls -> Nat]
    BY <1>0, <1>8, LimitAssumption DEF RecvResponse
  <2>4. CASE CoreToRedirectTo(w, p) # w
    <3>1. owner[c] \in Workers
      BY <1>8, SentHasOwner DEF RecvResponse
    <3>2. 0 \in Workers
      BY WorkerNumAssumption DEF Workers
    <3>3. PICK v \in Workers : CoreToRedirectTo(w, p) = v
      BY <2>1, <3>1, <3>2 DEF CoreToRedirectTo
    <3>4. Redirect(queue, v, p)
      BY <1>8, <2>4, <3>3 DEF RecvResponse, RecvPacket
    <3>5. QueueTypeOK'
      BY <2>1, <3>4, QueueTyped
    <3>6. overflowed' \subseteq Calls
      BY <1>0, <2>1, <3>4 DEF Redirect, LostBy
    <3> QED BY <1>0, <1>8, <2>2, <2>3, <3>5, <3>6 DEF RecvResponse, RecvPacket
  <2>5. CASE CoreToRedirectTo(w, p) = w
    BY <1>0, <1>8, <2>2, <2>3, <2>5 DEF RecvResponse, RecvPacket
  <2> QED BY <2>4, <2>5
<1>9. ASSUME NEW w \in Workers, NEW c \in Calls, SentFailed(w, c)
      PROVE  CallerTypeOK' /\ QueueTypeOK' /\ EventTypeOK' /\ CoreTypeOK'
  <2>1. failures' \in [Calls -> Nat]
    BY <1>0, <1>9 DEF SentFailed
  <2>2. CASE owner[c] = w
    <3>1. inflight \ {c} \in SUBSET Calls
      BY <1>0 DEF CoreTypeOK
    <3>2. CoreTypeOK'
      BY <1>9, <2>2, <3>1, FailedTyped DEF SentFailed
    <3> QED BY <1>0, <1>9, <2>1, <2>2, <3>2 DEF SentFailed
  <2>3. CASE owner[c] # w
    <3> DEFINE task == [kind |-> "failed", of |-> c]
    <3>1. task \in Task /\ owner[c] \in Workers
      BY <1>9, SentHasOwner DEF SentFailed, Task
    <3>2. Redirect(queue, owner[c], task)
      BY <1>9, <2>3 DEF SentFailed
    <3>3. QueueTypeOK'
      BY <3>1, <3>2, QueueTyped
    <3>4. overflowed' \subseteq Calls
      BY <1>0, <3>2 DEF Redirect, LostBy
    <3>5. CoreTypeOK'
      BY <1>0, <1>9, <2>3, DoneTyped DEF SentFailed, CoreTypeOK
    <3> QED BY <1>0, <1>9, <2>1, <3>3, <3>4, <3>5 DEF SentFailed
  <2> QED BY <2>2, <2>3
<1>10. ASSUME NEW w \in Workers, NEW c \in Calls, SessionTimeout(w, c)
       PROVE  CallerTypeOK' /\ QueueTypeOK' /\ EventTypeOK' /\ CoreTypeOK'
  <2>1. RunDone(c, "kTimeout") /\ "kTimeout" \in Results
    BY <1>10 DEF SessionTimeout, Results
  <2>2. open' \in [Workers -> SUBSET Calls]
    BY <1>0, <1>10 DEF SessionTimeout, CoreTypeOK
  <2> QED BY <1>0, <1>10, <2>1, <2>2, DoneTyped DEF SessionTimeout, CoreTypeOK
<1>11. ASSUME NEW w \in Workers, NEW c \in Calls, RecvMisfit(w, c)
       PROVE  CallerTypeOK' /\ QueueTypeOK' /\ EventTypeOK' /\ CoreTypeOK'
  <2>1. [kind |-> "misfit", of |-> c] \in Task
    BY DEF Task
  <2>2. QueueTypeOK'
    <3>1. CASE queue' = queue
      BY <1>0, <3>1
    <3>2. ASSUME NEW v \in Workers, Room(queue, v),
                 queue' = Enqueue(queue, v, [kind |-> "misfit", of |-> c])
          PROVE  QueueTypeOK'
      BY <2>1, <3>2, QueueTyped
    <3> QED BY <1>11, <3>1, <3>2, MisfitEffect
  <2>3. UNCHANGED <<caller, returned, rpc_result, evfd, open, owner, outcome,
                    inflight, tries, failures, heard, served, received, overflowed>>
    BY <1>11, MisfitEffect
  <2> QED BY <1>0, <2>2, <2>3 DEF CoreTypeOK
<1> HIDE DEF CallerTypeOK, QueueTypeOK, EventTypeOK
<1> QED
  BY <1>1, <1>2, <1>3, <1>4, <1>5, <1>6, <1>7, <1>8, <1>9, <1>10, <1>11 DEF Next

-----------------------------------------------------------------------------
(* A call is in one place.                                                    *)

\* A task posted, or dropped: what was queued stays, and a response or a report is
\* queued unless its call lost one.
LEMMA AfterRedirect ==
  ASSUME TypeOK, NEW w \in Workers, NEW task \in Task, Redirect(queue, w, task)
  PROVE  /\ queue' = queue \/ queue' = Enqueue(queue, w, task)
         /\ \A v \in Workers, kind \in Kinds, of \in Calls \cup Requests :
              /\ Queued(v, kind, of) => Queued(v, kind, of)'
              /\ Queued(v, kind, of)' =>
                   Queued(v, kind, of) \/ task = [kind |-> kind, of |-> of]
         /\ \A c \in Calls : \A kind \in {"response", "failed"} :
              task = [kind |-> kind, of |-> c] => c \in overflowed' \/ Queued(w, kind, c)'
         /\ overflowed \subseteq overflowed'
<1>1. queue \in Queues
  BY DEF TypeOK, Queues
<1>2. CASE queue' = Enqueue(queue, w, task) /\ overflowed' = overflowed
  BY <1>1, <1>2, QueuedAfterPost
<1>3. CASE queue' = queue /\ overflowed' = overflowed \cup LostBy(task)
  <2>1. \A v \in Workers, kind \in Kinds, of \in Calls \cup Requests :
          Queued(v, kind, of)' <=> Queued(v, kind, of)
    BY <1>3 DEF Queued
  <2>2. \A c \in Calls : \A kind \in {"response", "failed"} :
          task = [kind |-> kind, of |-> c] => c \in LostBy(task)
    BY DEF LostBy
  <2> QED BY <1>3, <2>1, <2>2
<1> QED BY <1>2, <1>3 DEF Redirect

\* A call task taken was the only one of its call.
LEMMA TakenOnce ==
  ASSUME TypeOK, NEW w \in Workers, NEW c \in Calls, CarriedOnce(c),
         queue[w] # << >>, Head(queue[w]) = CallTask(c),
         queue' = [queue EXCEPT ![w] = Tail(@)]
  PROVE  \A v \in Workers : ~Queued(v, "call", c)'
<1>1. queue \in Queues /\ \A v \in Workers : Len(queue[v]) \in Nat
  BY DEF TypeOK, Queues
<1>2. 1 \in 1 .. Len(queue[w]) /\ queue[w][1] = CallTask(c)
  BY <1>1, TakenFrom
<1> SUFFICES ASSUME NEW v \in Workers, NEW n \in 1 .. Len(queue'[v]),
                    queue'[v][n] = CallTask(c)
             PROVE  FALSE
  BY DEF Queued, CallTask
<1>3. CASE v = w
  <2>1. n \in 1 .. Len(queue[w]) - 1 /\ queue'[w][n] = CallTask(c)
    BY <1>1, <1>3, TakenFrom
  <2>2. queue[w][n + 1] = CallTask(c)
    BY <1>1, <2>1, TakenFrom
  <2>3. n + 1 \in 1 .. Len(queue[w]) /\ n + 1 # 1
    BY <1>1, <2>1
  <2> QED BY <1>2, <2>2, <2>3 DEF CarriedOnce
<1>4. CASE v # w
  <2>1. n \in 1 .. Len(queue[v]) /\ queue[v][n] = CallTask(c)
    BY <1>1, <1>4, TakenFrom
  <2> QED BY <1>2, <1>4, <2>1 DEF CarriedOnce
<1> QED BY <1>3, <1>4

\* Taking a task doubles none, ...
LEMMA CarriedAfterTake ==
  ASSUME TypeOK, NEW w \in Workers, NEW c \in Calls, CarriedOnce(c),
         queue[w] # << >>, queue' = [queue EXCEPT ![w] = Tail(@)]
  PROVE  CarriedOnce(c)'
<1>1. queue \in Queues /\ \A v \in Workers : Len(queue[v]) \in Nat
  BY DEF TypeOK, Queues
<1> SUFFICES ASSUME NEW u \in Workers, NEW v \in Workers,
                    NEW m \in 1 .. Len(queue'[u]), NEW n \in 1 .. Len(queue'[v]),
                    queue'[u][m] = CallTask(c), queue'[v][n] = CallTask(c)
             PROVE  u = v /\ m = n
  BY DEF CarriedOnce, CallTask
<1> DEFINE Was(z, k) == IF z = w THEN k + 1 ELSE k
<1>2. ASSUME NEW z \in Workers, NEW k \in 1 .. Len(queue'[z]),
             queue'[z][k] = CallTask(c)
      PROVE  Was(z, k) \in 1 .. Len(queue[z]) /\ queue[z][Was(z, k)] = CallTask(c)
  <2>1. CASE z = w
    <3>1. k \in 1 .. Len(queue[w]) - 1 /\ queue'[w][k] = CallTask(c)
      BY <1>1, <1>2, <2>1, TakenFrom
    <3>2. queue[w][k + 1] = CallTask(c)
      BY <1>1, <3>1, TakenFrom
    <3> QED BY <1>1, <2>1, <3>1, <3>2
  <2>2. CASE z # w
    BY <1>1, <1>2, <2>2, TakenFrom
  <2> QED BY <2>1, <2>2
<1>3. /\ Was(u, m) \in 1 .. Len(queue[u]) /\ queue[u][Was(u, m)] = CallTask(c)
      /\ Was(v, n) \in 1 .. Len(queue[v]) /\ queue[v][Was(v, n)] = CallTask(c)
  BY <1>2
<1>4. u = v /\ Was(u, m) = Was(v, n)
  <2> HIDE DEF Was
  <2> QED BY <1>3 DEF CarriedOnce
<1> QED BY <1>4

\* ... nor does posting one of a call that had none.
LEMMA CarriedAfterPost ==
  ASSUME TypeOK, NEW w \in Workers, NEW task \in Task, NEW c \in Calls,
         CarriedOnce(c), queue' = Enqueue(queue, w, task),
         task = CallTask(c) => \A v \in Workers : ~Queued(v, "call", c)
  PROVE  CarriedOnce(c)'
<1>1. queue \in Queues /\ \A v \in Workers : Len(queue[v]) \in Nat
  BY DEF TypeOK, Queues
<1>2. CASE task = CallTask(c)
  <2>1. ASSUME NEW v \in Workers, NEW n \in 1 .. Len(queue'[v]),
               queue'[v][n] = CallTask(c)
        PROVE  v = w /\ n = Len(queue[w]) + 1
    <3>1. ~(n \in 1 .. Len(queue[v]) /\ queue[v][n] = CallTask(c))
      BY <1>2 DEF Queued, CallTask
    <3> QED BY <1>1, <2>1, <3>1, PostedTo
  <2> SUFFICES ASSUME NEW u \in Workers, NEW v \in Workers,
                      NEW m \in 1 .. Len(queue'[u]), NEW n \in 1 .. Len(queue'[v]),
                      queue'[u][m] = CallTask(c), queue'[v][n] = CallTask(c)
               PROVE  u = v /\ m = n
    BY DEF CarriedOnce, CallTask
  <2> QED BY <2>1
<1>3. CASE task # CallTask(c)
  <2>1. ASSUME NEW v \in Workers, NEW n \in 1 .. Len(queue'[v]),
               queue'[v][n] = CallTask(c)
        PROVE  n \in 1 .. Len(queue[v]) /\ queue[v][n] = CallTask(c)
    BY <1>1, <1>3, <2>1, PostedTo
  <2> SUFFICES ASSUME NEW u \in Workers, NEW v \in Workers,
                      NEW m \in 1 .. Len(queue'[u]), NEW n \in 1 .. Len(queue'[v]),
                      queue'[u][m] = CallTask(c), queue'[v][n] = CallTask(c)
               PROVE  u = v /\ m = n
    BY DEF CarriedOnce, CallTask
  <2>2. /\ m \in 1 .. Len(queue[u]) /\ queue[u][m] = CallTask(c)
        /\ n \in 1 .. Len(queue[v]) /\ queue[v][n] = CallTask(c)
    BY <2>1
  <2> QED BY <2>2 DEF CarriedOnce
<1> QED BY <1>2, <1>3

\* A misfit leaves everything else in the queues where it was.
LEMMA MisfitQueued ==
  ASSUME TypeOK, SendsReported, NEW w \in Workers, NEW c \in Calls, RecvMisfit(w, c)
  PROVE  /\ \A v \in Workers, kind \in Kinds \ {"misfit"}, of \in Calls \cup Requests :
              Queued(v, kind, of)' <=> Queued(v, kind, of)
         /\ OneTask => OneTask'
<1> DEFINE task == [kind |-> "misfit", of |-> c]
<1>1. queue \in Queues /\ task \in Task
  BY DEF TypeOK, Queues, Task
<1>2. CASE queue' = queue
  BY <1>2 DEF Queued, OneTask, CarriedOnce, CallTask
<1>3. ASSUME NEW u \in Workers, queue' = Enqueue(queue, u, task)
      PROVE  /\ \A v \in Workers, kind \in Kinds \ {"misfit"}, of \in Calls \cup Requests :
                  Queued(v, kind, of)' <=> Queued(v, kind, of)
             /\ OneTask => OneTask'
  <2>1. ASSUME NEW v \in Workers, NEW kind \in Kinds \ {"misfit"},
               NEW of \in Calls \cup Requests
        PROVE  Queued(v, kind, of)' <=> Queued(v, kind, of)
    <3>1. task # [kind |-> kind, of |-> of]
      <4>1. task.kind = "misfit" /\ [kind |-> kind, of |-> of].kind # "misfit"
        OBVIOUS
      <4> HIDE DEF task
      <4> QED BY <4>1
    <3> HIDE DEF task
    <3> QED BY <1>1, <1>3, <3>1, QueuedAfterPost
  <2>2. ASSUME OneTask PROVE OneTask'
    <3>1. ASSUME NEW d \in Calls PROVE CarriedOnce(d)'
      <4>1. CarriedOnce(d) /\ task # CallTask(d)
        BY <2>2 DEF OneTask, CallTask
      <4> HIDE DEF task
      <4> QED BY <1>1, <1>3, <4>1, CarriedAfterPost
    <3> QED BY <3>1 DEF OneTask
  <2> QED BY <2>1, <2>2
<1> QED BY <1>2, <1>3, MisfitEffect

\* A done closure runs that has not run, of a call that was issued.
RunsOnce ==
  \/ NoDone
  \/ \E c \in Calls, result \in Results :
       RunDone(c, result) /\ outcome[c] = << >> /\ caller'[c] # "idle"

\* A closure that runs concerns its own call only.
LEMMA OthersOutcome ==
  ASSUME TypeOK, NEW c \in Calls, NEW d \in Calls, d # c,
         NoDone \/ \E result \in Results : RunDone(c, result)
  PROVE  outcome'[d] = outcome[d]
<1>1. outcome \in [Calls -> Seq(Results)]
  BY DEF TypeOK
<1> QED BY <1>1 DEF NoDone, RunDone

\* A call that came to its core from the place it was in is in one place.
LEMMA CallPlaced ==
  ASSUME TypeOK, OnePlace, NEW w \in Workers, NEW c \in Calls,
         CoreCallMethod(w, c), caller'[c] # "idle",
         owner[c] = NoWorker, outcome[c] = << >>,
         \A v \in Workers : ~Queued(v, "call", c)',
         \A d \in Calls : d # c => caller'[d] = caller[d],
         \A d \in Calls : \A v \in Workers : Queued(v, "call", d)' =>
           d = c \/ Queued(v, "call", d)
  PROVE  OnePlace' /\ RunsOnce
<1>1. \/ NoDone
      \/ \E result \in Results : RunDone(c, result)
  BY DEF CoreCallMethod, Results
<1>2. \/ UNCHANGED <<open, owner>>
      \/ /\ open' = [open EXCEPT ![w] = @ \cup {c}]
         /\ owner' = [owner EXCEPT ![c] = w]
         /\ NoDone
  BY DEF CoreCallMethod
<1>3. w # NoWorker /\ \A v \in Workers : c \notin open[v]
  BY DEF OnePlace, InOnePlace, Workers, NoWorker
<1>4. open \in [Workers -> SUBSET Calls] /\ owner \in [Calls -> Workers \cup {NoWorker}]
  BY DEF TypeOK
<1>5. ASSUME NEW d \in Calls, d # c PROVE InOnePlace(d)'
  <2>1. outcome'[d] = outcome[d]
    BY <1>1, <1>5, OthersOutcome
  <2>2. owner'[d] = owner[d]
    BY <1>2, <1>4, <1>5
  <2>3. \A v \in Workers : d \in open'[v] => d \in open[v]
    BY <1>2, <1>4, <1>5
  <2>4. InOnePlace(d)
    BY DEF OnePlace
  <2> QED BY <1>5, <2>1, <2>2, <2>3, <2>4 DEF InOnePlace
<1>6. InOnePlace(c)'
  <2>1. \A v \in Workers : c \in open'[v] => owner'[c] = v /\ outcome'[c] = << >>
    BY <1>2, <1>3, <1>4 DEF NoDone
  <2> QED BY <2>1 DEF InOnePlace
<1>7. OnePlace'
  BY <1>5, <1>6 DEF OnePlace
<1> QED BY <1>1, <1>7 DEF RunsOnce

\* So is a call whose session ends, and the others.
LEMMA EndPlaced ==
  ASSUME TypeOK, OnePlace, NEW w \in Workers, NEW c \in Calls,
         owner' = owner, caller' = caller,
         \A d \in Calls : \A v \in Workers : Queued(v, "call", d)' => Queued(v, "call", d),
         \/ open' = open /\ NoDone
         \/ /\ c \in open[w] /\ open' = [open EXCEPT ![w] = @ \ {c}]
            /\ \E result \in Results : RunDone(c, result)
  PROVE  OnePlace' /\ RunsOnce
<1>1. open \in [Workers -> SUBSET Calls] /\ outcome \in [Calls -> Seq(Results)]
  BY DEF TypeOK
<1>2. \A d \in Calls : InOnePlace(d)
  BY DEF OnePlace
<1>3. CASE open' = open /\ NoDone
  <2>1. ASSUME NEW d \in Calls PROVE InOnePlace(d)'
    BY <1>2, <1>3 DEF InOnePlace, NoDone
  <2> QED BY <1>3, <2>1 DEF OnePlace, RunsOnce
<1>4. CASE /\ c \in open[w] /\ open' = [open EXCEPT ![w] = @ \ {c}]
           /\ \E result \in Results : RunDone(c, result)
  <2>1. owner[c] = w /\ outcome[c] = << >> /\ w # NoWorker
    BY <1>2, <1>4 DEF InOnePlace, Workers, NoWorker
  <2>2. caller[c] # "idle" /\ \A v \in Workers : ~Queued(v, "call", c)
    BY <1>2, <2>1 DEF InOnePlace
  <2>3. ASSUME NEW d \in Calls, d # c PROVE InOnePlace(d)'
    <3>1. outcome'[d] = outcome[d]
      BY <1>4, <2>3, OthersOutcome
    <3>2. \A v \in Workers : d \in open'[v] => d \in open[v]
      BY <1>1, <1>4
    <3>3. InOnePlace(d)
      BY <1>2
    <3> QED BY <3>1, <3>2, <3>3 DEF InOnePlace
  <2>4. InOnePlace(c)'
    <3>1. \A v \in Workers : c \notin open'[v]
      <4>1. \A v \in Workers : v # w => c \notin open[v]
        BY <1>2, <2>1 DEF InOnePlace
      <4> QED BY <1>1, <1>4, <4>1
    <3> QED BY <2>2, <3>1 DEF InOnePlace
  <2>5. OnePlace'
    BY <2>3, <2>4 DEF OnePlace
  <2> QED BY <1>4, <2>1, <2>2, <2>5 DEF RunsOnce
<1> QED BY <1>3, <1>4

\* Every action leaves each call in one place, and runs no closure again.
LEMMA PlaceStep ==
  TypeOK /\ OneTask /\ OnePlace /\ SendsReported /\ [Next]_vars =>
    /\ OneTask' /\ OnePlace'
    /\ RunsOnce \/ \E c \in Calls : WakeUp(c)
<1> SUFFICES ASSUME TypeOK, OneTask, OnePlace, SendsReported, [Next]_vars
             PROVE  /\ OneTask' /\ OnePlace'
                    /\ RunsOnce \/ \E c \in Calls : WakeUp(c)
  OBVIOUS
<1>a. queue \in Queues
  BY DEF TypeOK, Queues
<1>b. ASSUME queue' = queue
      PROVE  /\ OneTask'
             /\ \A d \in Calls : \A v \in Workers :
                  Queued(v, "call", d)' => Queued(v, "call", d)
  BY <1>b DEF OneTask, CarriedOnce, CallTask, Queued
<1>c. ASSUME NEW w \in Workers, NEW task \in Task, task.kind # "call",
             Redirect(queue, w, task)
      PROVE  /\ OneTask'
             /\ \A d \in Calls : \A v \in Workers :
                  Queued(v, "call", d)' => Queued(v, "call", d)
  <2>1. \A d \in Calls : task # CallTask(d)
    BY <1>c DEF CallTask
  <2>2. CASE queue' = queue
    BY <1>b, <2>2
  <2>3. CASE queue' = Enqueue(queue, w, task)
    <3>1. OneTask'
      BY <2>1, <2>3, CarriedAfterPost DEF OneTask
    <3>2. ASSUME NEW d \in Calls, NEW v \in Workers, Queued(v, "call", d)'
          PROVE  Queued(v, "call", d)
      BY <1>a, <2>1, <2>3, <3>2, QueuedAfterPost DEF CallTask
    <3> QED BY <3>1, <3>2
  <2> QED BY <2>2, <2>3, <1>c, AfterRedirect
<1>1. CASE UNCHANGED vars
  <2>1. OneTask' /\ NoDone
    BY <1>1, <1>b DEF vars, NoDone
  <2>2. OnePlace'
    BY <1>1 DEF vars, OnePlace, InOnePlace, Queued
  <2> QED BY <2>1, <2>2 DEF RunsOnce
<1>2. ASSUME NEW c \in Calls, WakeUp(c) PROVE OneTask' /\ OnePlace'
  <2>1. OneTask'
    BY <1>2, <1>b DEF WakeUp
  <2>2. ASSUME NEW d \in Calls PROVE InOnePlace(d)'
    <3>1. caller'[d] = "idle" => caller[d] = "idle"
      BY <1>2 DEF WakeUp, TypeOK
    <3>2. caller[d] # "idle" => caller'[d] # "idle"
      BY <1>2 DEF WakeUp, TypeOK
    <3>3. InOnePlace(d)
      BY DEF OnePlace
    <3> QED BY <1>2, <3>1, <3>2, <3>3 DEF WakeUp, InOnePlace, Queued
  <2> QED BY <2>1, <2>2 DEF OnePlace
<1>3. ASSUME NEW c \in Calls, SentOk(c) PROVE OneTask' /\ OnePlace' /\ RunsOnce
  <2>1. OneTask' /\ NoDone
    BY <1>3, <1>b DEF SentOk, NoDone
  <2>2. OnePlace'
    BY <1>3 DEF SentOk, OnePlace, InOnePlace, Queued
  <2> QED BY <2>1, <2>2 DEF RunsOnce
<1>4. ASSUME NEW w \in Workers, RunTask(w) PROVE OneTask' /\ OnePlace' /\ RunsOnce
  <2> DEFINE task == Head(queue[w])
  <2>1. queue[w] # << >> /\ queue' = [queue EXCEPT ![w] = Tail(@)]
    BY <1>4 DEF RunTask
  <2>2. task \in Task /\ caller' = caller
    BY <1>4, <1>a, <2>1, TakenFrom DEF RunTask
  <2>3. OneTask'
    BY <2>1, CarriedAfterTake DEF OneTask
  <2>4. \A d \in Calls : \A v \in Workers :
          Queued(v, "call", d)' => Queued(v, "call", d)
    BY <1>a, <2>1, QueuedAfterTake
  <2>5. CASE task.kind = "call" /\ RunCall(w, task.of)
    <3>1. PICK c \in Calls : task = CallTask(c)
      BY <2>2, <2>5 DEF Task, CallTask
    <3>2. Queued(w, "call", c)
      BY <1>a, <2>1, <3>1, QueuedAfterTake DEF CallTask
    <3>3. caller[c] # "idle" /\ owner[c] = NoWorker /\ outcome[c] = << >>
      BY <3>2 DEF OnePlace, InOnePlace
    <3>4. \A v \in Workers : ~Queued(v, "call", c)'
      BY <2>1, <3>1, TakenOnce DEF OneTask
    <3>5. CoreCallMethod(w, c)
      BY <2>5, <3>1 DEF RunCall, CallTask
    <3> QED BY <2>2, <2>3, <2>4, <3>3, <3>4, <3>5, CallPlaced
  <2>6. CASE task.kind \in {"request", "response", "misfit"} /\ RunPacket(w, task)
    <3>1. owner' = owner /\ CoreRecvPacket(w, task)
      BY <2>6 DEF RunPacket
    <3>2. CASE NoDone /\ open' = open
      <4>1. OnePlace'
        BY <2>2, <2>4, <3>1, <3>2 DEF OnePlace, InOnePlace, NoDone
      <4> QED BY <2>3, <3>2, <4>1 DEF RunsOnce
    <3>3. CASE /\ task.kind = "response" /\ task.of \in open[w]
               /\ open' = [open EXCEPT ![w] = @ \ {task.of}]
               /\ \E result \in PeerResults : RunDone(task.of, result)
      <4>1. PICK c \in Calls : c = task.of
        BY <2>2, <3>3 DEF Task
      <4>2. \E result \in Results : RunDone(c, result)
        BY <3>3, <4>1, PeerAssumption
      <4> HIDE DEF task
      <4> QED BY <2>2, <2>3, <2>4, <3>1, <3>3, <4>1, <4>2, EndPlaced
    <3> QED BY <3>1, <3>2, <3>3 DEF CoreRecvPacket
  <2>7. CASE task.kind = "failed" /\ RunFailed(w, task.of)
    <3>1. PICK c \in Calls : c = task.of
      BY <2>2, <2>7 DEF Task
    <3>2. owner' = owner /\ CoreSendFailed(w, c, inflight)
      BY <2>7, <3>1 DEF RunFailed
    <3>3. \/ open' = open /\ NoDone
          \/ /\ c \in open[w] /\ open' = [open EXCEPT ![w] = @ \ {c}]
             /\ \E result \in Results : RunDone(c, result)
      BY <3>2 DEF CoreSendFailed, Results
    <3> QED BY <2>2, <2>3, <2>4, <3>2, <3>3, EndPlaced
  <2> QED BY <1>4, <2>5, <2>6, <2>7 DEF RunTask
<1>5. ASSUME NEW w \in Workers, NEW r \in Requests, RecvRequest(w, r)
      PROVE  OneTask' /\ OnePlace' /\ RunsOnce
  <2> DEFINE p == [kind |-> "request", of |-> r]
  <2>1. p \in Task /\ p.kind = "request" /\ 0 \in Workers
    BY WorkerNumAssumption DEF Task, Workers
  <2>2. queue' = queue \/ Redirect(queue, 0, p)
    BY <1>5, <2>1 DEF RecvRequest, RecvPacket, CoreToRedirectTo, HandlesHere
  <2>3. /\ OneTask'
        /\ \A d \in Calls : \A v \in Workers :
             Queued(v, "call", d)' => Queued(v, "call", d)
    BY <1>b, <1>c, <2>1, <2>2
  <2>4. NoDone /\ open' = open /\ owner' = owner /\ caller' = caller
    BY <1>5 DEF RecvRequest, RecvPacket, CoreRecvPacket
  <2>5. OnePlace'
    BY <2>3, <2>4 DEF OnePlace, InOnePlace, NoDone
  <2> QED BY <2>3, <2>4, <2>5 DEF RunsOnce
<1>6. ASSUME NEW w \in Workers, NEW c \in Calls, CallFromApp(c, w)
      PROVE  OneTask' /\ OnePlace' /\ RunsOnce
  <2>1. caller[c] = "idle" /\ caller'[c] # "idle"
    BY <1>6 DEF CallFromApp, Return, TypeOK
  <2>2. \A d \in Calls : d # c => caller'[d] = caller[d]
    BY <1>6 DEF CallFromApp, Return, TypeOK
  <2>3. /\ owner[c] = NoWorker /\ outcome[c] = << >>
        /\ \A v \in Workers : ~Queued(v, "call", c) /\ c \notin open[v]
    BY <2>1 DEF OnePlace, InOnePlace, Workers, NoWorker
  <2>4. open' = open /\ owner' = owner
    BY <1>6 DEF CallFromApp
  <2>5. CASE Room(queue, w)
    <3>1. /\ queue' = Enqueue(queue, w, CallTask(c)) /\ NoDone
          /\ CallTask(c) \in Task
      BY <1>6, <2>5 DEF CallFromApp, CallTask, Task
    <3>2. OneTask'
      <4>1. \A d \in Calls : CallTask(c) = CallTask(d) => c = d
        BY DEF CallTask
      <4> QED BY <2>3, <3>1, <4>1, CarriedAfterPost DEF OneTask
    <3>3. ASSUME NEW d \in Calls, d # c, NEW v \in Workers, Queued(v, "call", d)'
          PROVE  Queued(v, "call", d)
      <4>1. CallTask(c) # [kind |-> "call", of |-> d]
        BY <3>3 DEF CallTask
      <4> QED BY <1>a, <3>1, <3>3, <4>1, QueuedAfterPost
    <3>4. ASSUME NEW d \in Calls PROVE InOnePlace(d)'
      <4>1. InOnePlace(d)
        BY DEF OnePlace
      <4>2. CASE d = c
        BY <2>1, <2>3, <2>4, <3>1, <4>2 DEF InOnePlace, NoDone
      <4>3. CASE d # c
        BY <2>2, <2>4, <3>1, <3>3, <4>1, <4>3 DEF InOnePlace, NoDone
      <4> QED BY <4>2, <4>3
    <3> QED BY <3>1, <3>2, <3>4 DEF OnePlace, RunsOnce
  <2>6. CASE ~Room(queue, w)
    <3>1. queue' = queue /\ RunDone(c, "kInError") /\ "kInError" \in Results
      BY <1>6, <2>6 DEF CallFromApp, Results
    <3>2. ASSUME NEW d \in Calls PROVE InOnePlace(d)'
      <4>1. InOnePlace(d)
        BY DEF OnePlace
      <4>2. CASE d = c
        BY <1>b, <2>1, <2>3, <2>4, <3>1, <4>2 DEF InOnePlace
      <4>3. CASE d # c
        <5>1. outcome'[d] = outcome[d]
          BY <3>1, <4>3, OthersOutcome
        <5> QED BY <1>b, <2>2, <2>4, <3>1, <4>1, <4>3, <5>1 DEF InOnePlace
      <4> QED BY <4>2, <4>3
    <3> QED BY <1>b, <2>1, <2>3, <3>1, <3>2 DEF OnePlace, RunsOnce
  <2> QED BY <2>5, <2>6
<1>7. ASSUME NEW w \in Workers, NEW c \in Calls, CallFromWorker(c, w)
      PROVE  OneTask' /\ OnePlace' /\ RunsOnce
  <2>1. caller[c] = "idle" /\ caller'[c] # "idle"
    BY <1>7 DEF CallFromWorker, Return, TypeOK
  <2>2. \A d \in Calls : d # c => caller'[d] = caller[d]
    BY <1>7 DEF CallFromWorker, Return, TypeOK
  <2>3. /\ owner[c] = NoWorker /\ outcome[c] = << >>
        /\ \A v \in Workers : ~Queued(v, "call", c) /\ c \notin open[v]
    BY <2>1 DEF OnePlace, InOnePlace, Workers, NoWorker
  <2>4. queue' = queue
    BY <1>7 DEF CallFromWorker
  <2>5. \A d \in Calls : \A v \in Workers : Queued(v, "call", d)' => Queued(v, "call", d)
    BY <1>b, <2>4
  <2>6. CASE c \in SyncCalls
    <3>1. NoDone /\ UNCHANGED <<open, owner>>
      BY <1>7, <2>6 DEF CallFromWorker
    <3>2. ASSUME NEW d \in Calls PROVE InOnePlace(d)'
      <4>1. InOnePlace(d)
        BY DEF OnePlace
      <4>2. CASE d = c
        BY <2>1, <2>3, <2>5, <3>1, <4>2 DEF InOnePlace
      <4>3. CASE d # c
        BY <2>2, <2>5, <3>1, <4>1, <4>3 DEF InOnePlace, NoDone
      <4> QED BY <4>2, <4>3
    <3> QED BY <1>b, <2>4, <3>1, <3>2 DEF OnePlace, RunsOnce
  <2>7. CASE c \notin SyncCalls
    <3>1. CoreCallMethod(w, c)
      BY <1>7, <2>7 DEF CallFromWorker
    <3> QED BY <1>b, <2>1, <2>2, <2>3, <2>4, <2>5, <3>1, CallPlaced
  <2> QED BY <2>6, <2>7
<1>8. ASSUME NEW w \in Workers, NEW c \in Calls, RecvResponse(w, c)
      PROVE  OneTask' /\ OnePlace' /\ RunsOnce
  <2> DEFINE p == [kind |-> "response", of |-> c]
  <2>1. p \in Task /\ p.kind = "response" /\ p.of = c
    BY DEF Task
  <2>2. owner[c] \in Workers /\ 0 \in Workers
    BY <1>8, SentHasOwner, WorkerNumAssumption DEF RecvResponse, Workers
  <2>3. queue' = queue \/ Redirect(queue, owner[c], p) \/ Redirect(queue, 0, p)
    BY <1>8, <2>1 DEF RecvResponse, RecvPacket, CoreToRedirectTo
  <2>4. /\ OneTask'
        /\ \A d \in Calls : \A v \in Workers :
             Queued(v, "call", d)' => Queued(v, "call", d)
    BY <1>b, <1>c, <2>1, <2>2, <2>3
  <2>5. owner' = owner /\ caller' = caller /\ CoreRecvPacket(w, p)
    BY <1>8 DEF RecvResponse, RecvPacket
  <2>6. \/ open' = open /\ NoDone
        \/ /\ c \in open[w] /\ open' = [open EXCEPT ![w] = @ \ {c}]
           /\ \E result \in Results : RunDone(c, result)
    BY <2>1, <2>5, PeerAssumption DEF CoreRecvPacket
  <2> QED BY <2>4, <2>5, <2>6, EndPlaced
<1>9. ASSUME NEW w \in Workers, NEW c \in Calls, SentFailed(w, c)
      PROVE  OneTask' /\ OnePlace' /\ RunsOnce
  <2> DEFINE task == [kind |-> "failed", of |-> c]
  <2>1. task \in Task /\ task.kind = "failed"
    BY DEF Task
  <2>2. owner[c] \in Workers
    BY <1>9, SentHasOwner DEF SentFailed
  <2>3. queue' = queue \/ Redirect(queue, owner[c], task)
    BY <1>9 DEF SentFailed
  <2>4. /\ OneTask'
        /\ \A d \in Calls : \A v \in Workers :
             Queued(v, "call", d)' => Queued(v, "call", d)
    BY <1>b, <1>c, <2>1, <2>2, <2>3
  <2>5. owner' = owner /\ caller' = caller
    BY <1>9 DEF SentFailed
  <2>6. \/ open' = open /\ NoDone
        \/ /\ c \in open[w] /\ open' = [open EXCEPT ![w] = @ \ {c}]
           /\ \E result \in Results : RunDone(c, result)
    BY <1>9 DEF SentFailed, CoreSendFailed, Results
  <2> QED BY <2>4, <2>5, <2>6, EndPlaced
<1>10. ASSUME NEW w \in Workers, NEW c \in Calls, SessionTimeout(w, c)
       PROVE  OneTask' /\ OnePlace' /\ RunsOnce
  <2>1. /\ OneTask'
        /\ \A d \in Calls : \A v \in Workers :
             Queued(v, "call", d)' => Queued(v, "call", d)
    BY <1>10, <1>b DEF SessionTimeout
  <2>2. /\ owner' = owner /\ caller' = caller
        /\ c \in open[w] /\ open' = [open EXCEPT ![w] = @ \ {c}]
        /\ \E result \in Results : RunDone(c, result)
    BY <1>10 DEF SessionTimeout, Results
  <2> QED BY <2>1, <2>2, EndPlaced
<1>11. ASSUME NEW w \in Workers, NEW c \in Calls, RecvMisfit(w, c)
       PROVE  OneTask' /\ OnePlace' /\ RunsOnce
  <2>1. /\ OneTask'
        /\ \A d \in Calls : \A v \in Workers : Queued(v, "call", d)' <=> Queued(v, "call", d)
    BY <1>11, MisfitQueued DEF Kinds
  <2>2. UNCHANGED <<caller, rpc_result, evfd, open, owner, outcome>>
    BY <1>11, MisfitEffect
  <2>3. OnePlace'
    BY <2>1, <2>2 DEF OnePlace, InOnePlace
  <2> QED BY <2>1, <2>2, <2>3 DEF RunsOnce, NoDone
<1> QED
  BY <1>1, <1>2, <1>3, <1>4, <1>5, <1>6, <1>7, <1>8, <1>9, <1>10, <1>11 DEF Next

-----------------------------------------------------------------------------
(* Where a call is until it is over.                                          *)

\* A closure that runs decides its call and takes no decision back.
LEMMA DoneDecides ==
  ASSUME TypeOK, NEW c \in Calls, NEW result \in Results, RunDone(c, result)
  PROVE  /\ outcome'[c] # << >>
         /\ \A d \in Calls : outcome'[d] = << >> => outcome[d] = << >>
<1>1. outcome \in [Calls -> Seq(Results)]
  BY DEF TypeOK
<1>2. outcome'[c] = Append(outcome[c], result) /\ outcome[c] \in Seq(Results)
  BY <1>1 DEF RunDone
<1>3. Len(Append(outcome[c], result)) = Len(outcome[c]) + 1 /\ Len(outcome[c]) \in Nat
  BY <1>2, AppendElements
<1>4. outcome'[c] # << >>
  <2> SUFFICES ASSUME Append(outcome[c], result) = << >> PROVE FALSE
    BY <1>2
  <2>1. Len(Append(outcome[c], result)) = 0
    OBVIOUS
  <2> HIDE DEF TypeOK, RunDone
  <2> QED BY ONLY <1>3, <2>1
<1>5. \A d \in Calls : d # c => outcome'[d] = outcome[d]
  BY <1>1 DEF RunDone
<1> QED BY <1>4, <1>5

\* A call no step takes from where it is stays kept, ...
LEMMA StaysKept ==
  ASSUME NoCallLost, NEW d \in Calls,
         caller'[d] # "idle" => caller[d] # "idle",
         outcome'[d] = << >> => outcome[d] = << >>,
         \A v \in Workers : Queued(v, "call", d) => Queued(v, "call", d)',
         outcome'[d] # << >> \/ \A v \in Workers : d \in open[v] => d \in open'[v]
  PROVE  Kept(d)'
<1>1. Kept(d)
  BY DEF NoCallLost
<1> QED BY <1>1 DEF Kept, Underway

\* ... so does one that came to its core, by whichever way through CallMethod, ...
LEMMA CallKept ==
  ASSUME TypeOK, NoCallLost, NEW w \in Workers, NEW c \in Calls,
         CoreCallMethod(w, c),
         \A d \in Calls : d # c => caller'[d] = caller[d],
         \A d \in Calls : \A v \in Workers :
           d # c /\ Queued(v, "call", d) => Queued(v, "call", d)'
  PROVE  NoCallLost'
<1>1. open \in [Workers -> SUBSET Calls]
  BY DEF TypeOK
<1>2. \A d \in Calls, v \in Workers : d \in open[v] => d \in open'[v]
  BY <1>1 DEF CoreCallMethod
<1>3. \/ NoDone
      \/ \E result \in Results : RunDone(c, result)
  BY DEF CoreCallMethod, Results
<1>4. \A d \in Calls : outcome'[d] = << >> => outcome[d] = << >>
  BY <1>3, DoneDecides DEF NoDone
<1>5. ASSUME NEW d \in Calls, d # c PROVE Kept(d)'
  BY <1>2, <1>4, <1>5, StaysKept
<1>6. Kept(c)'
  <2>1. CASE \E result \in Results : RunDone(c, result)
    BY <2>1, DoneDecides DEF Kept
  <2>2. CASE RouteOf[c] = "oversize"
    BY <2>2 DEF Kept
  <2>3. CASE open' = [open EXCEPT ![w] = @ \cup {c}]
    <3>1. c \in open'[w]
      BY <1>1, <2>3
    <3> QED BY <3>1 DEF Kept, Underway
  <2> QED BY <2>1, <2>2, <2>3 DEF CoreCallMethod, Results
<1> QED BY <1>5, <1>6 DEF NoCallLost

\* ... and one whose session ends is over, the others being where they were.
LEMMA EndKept ==
  ASSUME TypeOK, NoCallLost, NEW w \in Workers, NEW c \in Calls,
         \A d \in Calls : caller'[d] # "idle" => caller[d] # "idle",
         \A d \in Calls : \A v \in Workers : Queued(v, "call", d) => Queued(v, "call", d)',
         \/ open' = open /\ outcome' = outcome
         \/ /\ open' = [open EXCEPT ![w] = @ \ {c}]
            /\ \E result \in Results : RunDone(c, result)
  PROVE  NoCallLost'
<1>1. open \in [Workers -> SUBSET Calls]
  BY DEF TypeOK
<1>2. CASE open' = open /\ outcome' = outcome
  <2>1. ASSUME NEW d \in Calls PROVE Kept(d)'
    BY <1>2, StaysKept
  <2> QED BY <2>1 DEF NoCallLost
<1>3. CASE /\ open' = [open EXCEPT ![w] = @ \ {c}]
           /\ \E result \in Results : RunDone(c, result)
  <2>1. /\ outcome'[c] # << >>
        /\ \A d \in Calls : outcome'[d] = << >> => outcome[d] = << >>
    BY <1>3, DoneDecides
  <2>2. \A d \in Calls, v \in Workers : d # c /\ d \in open[v] => d \in open'[v]
    BY <1>1, <1>3
  <2>3. ASSUME NEW d \in Calls PROVE Kept(d)'
    BY <2>1, <2>2, StaysKept
  <2> QED BY <2>3 DEF NoCallLost
<1> QED BY <1>2, <1>3

\* Every action keeps each call until it is over.
LEMMA KeptStep == TypeOK /\ SendsReported /\ NoCallLost /\ [Next]_vars => NoCallLost'
<1> SUFFICES ASSUME TypeOK, SendsReported, NoCallLost, [Next]_vars
             PROVE  NoCallLost'
  OBVIOUS
<1>a. queue \in Queues
  BY DEF TypeOK, Queues
<1>b. ASSUME \/ queue' = queue
             \/ \E w \in Workers, task \in Task : Redirect(queue, w, task)
      PROVE  \A d \in Calls : \A v \in Workers :
               Queued(v, "call", d) => Queued(v, "call", d)'
  <2>1. CASE queue' = queue
    BY <2>1 DEF Queued
  <2>2. CASE \E w \in Workers, task \in Task : Redirect(queue, w, task)
    BY <2>2, AfterRedirect DEF Kinds
  <2> QED BY <1>b, <2>1, <2>2
<1>1. CASE \/ UNCHANGED vars
           \/ \E c \in Calls : WakeUp(c) \/ SentOk(c)
  <2>1. /\ open' = open /\ outcome' = outcome /\ queue' = queue
        /\ \A d \in Calls : caller'[d] # "idle" => caller[d] # "idle"
    BY <1>1 DEF vars, WakeUp, SentOk, TypeOK
  <2>2. ASSUME NEW d \in Calls PROVE Kept(d)'
    BY <1>b, <2>1, StaysKept
  <2> QED BY <2>2 DEF NoCallLost
<1>2. ASSUME NEW w \in Workers, RunTask(w) PROVE NoCallLost'
  <2> DEFINE task == Head(queue[w])
  <2>1. queue[w] # << >> /\ queue' = [queue EXCEPT ![w] = Tail(@)]
    BY <1>2 DEF RunTask
  <2>2. task \in Task /\ caller' = caller
    BY <1>2, <1>a, <2>1, TakenFrom DEF RunTask
  <2>3. \A d \in Calls : \A v \in Workers :
          Queued(v, "call", d) /\ task # CallTask(d) => Queued(v, "call", d)'
    BY <1>a, <2>1, QueuedAfterTake DEF CallTask
  <2>4. CASE task.kind = "call" /\ RunCall(w, task.of)
    <3>1. PICK c \in Calls : task = CallTask(c)
      BY <2>2, <2>4 DEF Task, CallTask
    <3>2. \A d \in Calls : d # c => task # CallTask(d)
      BY <3>1 DEF CallTask
    <3>3. CoreCallMethod(w, c)
      BY <2>4, <3>1 DEF RunCall, CallTask
    <3> HIDE DEF task
    <3> QED BY <2>2, <2>3, <3>2, <3>3, CallKept
  <2>5. CASE task.kind # "call"
    <3>1. \A d \in Calls : \A v \in Workers :
            Queued(v, "call", d) => Queued(v, "call", d)'
      <4>1. \A d \in Calls : CallTask(d).kind = "call"
        BY DEF CallTask
      <4>2. \A d \in Calls : task # CallTask(d)
        BY <2>5, <4>1
      <4> HIDE DEF task
      <4> QED BY <2>3, <4>2
    <3>2. PICK c : c = task.of
      OBVIOUS
    <3>3. \/ open' = open /\ NoDone
          \/ /\ c \in Calls /\ open' = [open EXCEPT ![w] = @ \ {c}]
             /\ \E result \in Results : RunDone(c, result)
      <4>1. CASE task.kind \in {"request", "response", "misfit"} /\ RunPacket(w, task)
        BY <2>2, <3>2, <4>1, PeerAssumption DEF RunPacket, CoreRecvPacket, Task
      <4>2. CASE task.kind = "failed" /\ RunFailed(w, task.of)
        BY <2>2, <3>2, <4>2 DEF RunFailed, CoreSendFailed, Task, Results
      <4> QED BY <1>2, <2>5, <4>1, <4>2 DEF RunTask
    <3>4. CASE open' = open /\ NoDone
      <4>1. ASSUME NEW d \in Calls PROVE Kept(d)'
        BY <2>2, <3>1, <3>4, StaysKept DEF NoDone
      <4> QED BY <4>1 DEF NoCallLost
    <3> HIDE DEF task
    <3> QED BY <2>2, <3>1, <3>3, <3>4, EndKept
  <2> QED BY <1>2, <2>4, <2>5 DEF RunTask
<1>3. ASSUME NEW w \in Workers, NEW r \in Requests, RecvRequest(w, r)
      PROVE  NoCallLost'
  <2> DEFINE p == [kind |-> "request", of |-> r]
  <2>1. p \in Task /\ p.kind = "request" /\ 0 \in Workers
    BY WorkerNumAssumption DEF Task, Workers
  <2>2. queue' = queue \/ Redirect(queue, 0, p)
    BY <1>3, <2>1 DEF RecvRequest, RecvPacket, CoreToRedirectTo, HandlesHere
  <2>3. \A d \in Calls : \A v \in Workers : Queued(v, "call", d) => Queued(v, "call", d)'
    BY <1>b, <2>1, <2>2
  <2>4. outcome' = outcome /\ open' = open /\ caller' = caller
    BY <1>3 DEF RecvRequest, RecvPacket, CoreRecvPacket, NoDone
  <2>5. ASSUME NEW d \in Calls PROVE Kept(d)'
    BY <2>3, <2>4, StaysKept
  <2> QED BY <2>5 DEF NoCallLost
<1>4. ASSUME NEW w \in Workers, NEW c \in Calls, RecvResponse(w, c)
      PROVE  NoCallLost'
  <2> DEFINE p == [kind |-> "response", of |-> c]
  <2>1. p \in Task /\ p.kind = "response" /\ p.of = c
    BY DEF Task
  <2>2. owner[c] \in Workers
    BY <1>4, SentHasOwner DEF RecvResponse
  <2>3. CoreToRedirectTo(w, p) # w => CoreToRedirectTo(w, p) \in Workers
    BY <2>2, <2>1, WorkerNumAssumption DEF CoreToRedirectTo, Workers
  <2>4. \A d \in Calls : \A v \in Workers : Queued(v, "call", d) => Queued(v, "call", d)'
    BY <1>4, <1>b, <2>1, <2>3 DEF RecvResponse, RecvPacket
  <2>5. caller' = caller
    BY <1>4 DEF RecvResponse, RecvPacket
  <2>6. \/ open' = open /\ outcome' = outcome
        \/ /\ open' = [open EXCEPT ![w] = @ \ {c}]
           /\ \E result \in Results : RunDone(c, result)
    BY <1>4, <2>1, PeerAssumption DEF RecvResponse, RecvPacket, CoreRecvPacket, NoDone
  <2> QED BY <2>4, <2>5, <2>6, EndKept
<1>5. ASSUME NEW w \in Workers, NEW c \in Calls, SentFailed(w, c)
      PROVE  NoCallLost'
  <2> DEFINE task == [kind |-> "failed", of |-> c]
  <2>1. task \in Task /\ owner[c] \in Workers
    BY <1>5, SentHasOwner DEF SentFailed, Task
  <2>2. queue' = queue \/ Redirect(queue, owner[c], task)
    BY <1>5 DEF SentFailed
  <2>3. \A d \in Calls : \A v \in Workers : Queued(v, "call", d) => Queued(v, "call", d)'
    BY <1>b, <2>1, <2>2
  <2>4. caller' = caller
    BY <1>5 DEF SentFailed
  <2>5. \/ open' = open /\ outcome' = outcome
        \/ /\ open' = [open EXCEPT ![w] = @ \ {c}]
           /\ \E result \in Results : RunDone(c, result)
    BY <1>5 DEF SentFailed, CoreSendFailed, NoDone, Results
  <2> QED BY <2>3, <2>4, <2>5, EndKept
<1>6. ASSUME NEW w \in Workers, NEW c \in Calls, SessionTimeout(w, c)
      PROVE  NoCallLost'
  <2>1. /\ queue' = queue /\ caller' = caller
        /\ open' = [open EXCEPT ![w] = @ \ {c}]
        /\ \E result \in Results : RunDone(c, result)
    BY <1>6 DEF SessionTimeout, Results
  <2> QED BY <1>b, <2>1, EndKept
<1>7. ASSUME NEW w \in Workers, NEW c \in Calls, CallFromApp(c, w)
      PROVE  NoCallLost'
  <2>1. \A d \in Calls : d # c => caller'[d] = caller[d]
    BY <1>7 DEF CallFromApp, Return, TypeOK
  <2>2. open' = open
    BY <1>7 DEF CallFromApp
  <2>3. CASE Room(queue, w)
    <3>1. /\ queue' = Enqueue(queue, w, CallTask(c)) /\ outcome' = outcome
          /\ CallTask(c) \in Task
      BY <1>7, <2>3 DEF CallFromApp, CallTask, Task, NoDone
    <3>2. Queued(w, "call", c)'
      BY <1>a, <3>1, QueuedAfterPost DEF CallTask
    <3>3. \A d \in Calls : \A v \in Workers : Queued(v, "call", d) => Queued(v, "call", d)'
      BY <1>a, <3>1, QueuedAfterPost
    <3>4. ASSUME NEW d \in Calls PROVE Kept(d)'
      <4>1. CASE d = c
        BY <3>2, <4>1 DEF Kept, Underway
      <4>2. CASE d # c
        BY <2>1, <2>2, <3>1, <3>3, <4>2, StaysKept
      <4> QED BY <4>1, <4>2
    <3> QED BY <3>4 DEF NoCallLost
  <2>4. CASE ~Room(queue, w)
    <3>1. queue' = queue /\ \E result \in Results : RunDone(c, result)
      BY <1>7, <2>4 DEF CallFromApp, Results
    <3>2. /\ outcome'[c] # << >>
          /\ \A d \in Calls : outcome'[d] = << >> => outcome[d] = << >>
      BY <3>1, DoneDecides
    <3>3. ASSUME NEW d \in Calls PROVE Kept(d)'
      <4>1. CASE d = c
        BY <3>2, <4>1 DEF Kept
      <4>2. CASE d # c
        BY <1>b, <2>1, <2>2, <3>1, <3>2, <4>2, StaysKept
      <4> QED BY <4>1, <4>2
    <3> QED BY <3>3 DEF NoCallLost
  <2> QED BY <2>3, <2>4
<1>8. ASSUME NEW w \in Workers, NEW c \in Calls, CallFromWorker(c, w)
      PROVE  NoCallLost'
  <2>1. \A d \in Calls : d # c => caller'[d] = caller[d]
    BY <1>8 DEF CallFromWorker, Return, TypeOK
  <2>2. queue' = queue
    BY <1>8 DEF CallFromWorker
  <2>3. CASE c \in SyncCalls
    <3>1. open' = open /\ outcome' = outcome /\ Refused(c)
      BY <1>8, <2>3 DEF CallFromWorker, NoDone, Refused
    <3>2. ASSUME NEW d \in Calls PROVE Kept(d)'
      <4>1. CASE d = c
        BY <3>1, <4>1 DEF Kept, Refused
      <4>2. CASE d # c
        BY <1>b, <2>1, <2>2, <3>1, <4>2, StaysKept
      <4> QED BY <4>1, <4>2
    <3> QED BY <3>2 DEF NoCallLost
  <2>4. CASE c \notin SyncCalls
    <3>1. CoreCallMethod(w, c)
      BY <1>8, <2>4 DEF CallFromWorker
    <3> QED BY <1>b, <2>1, <2>2, <3>1, CallKept
  <2> QED BY <2>3, <2>4
<1>9. ASSUME NEW w \in Workers, NEW c \in Calls, RecvMisfit(w, c)
      PROVE  NoCallLost'
  <2>1. \A d \in Calls : \A v \in Workers : Queued(v, "call", d) => Queued(v, "call", d)'
    BY <1>9, MisfitQueued DEF Kinds
  <2>2. caller' = caller /\ open' = open /\ outcome' = outcome
    BY <1>9, MisfitEffect
  <2> QED BY <2>1, <2>2, EndKept
<1> QED BY <1>1, <1>2, <1>3, <1>4, <1>5, <1>6, <1>7, <1>8, <1>9 DEF Next

-----------------------------------------------------------------------------
(* The tables.                                                                *)

\* A step leaves the tables alone, adds one call to one that has room, or takes
\* one out.
LEMMA TableChanges ==
  ASSUME [Next]_vars
  PROVE  \/ open' = open
         \/ \E w \in Workers : \E c :
              /\ Cardinality(open[w]) < SessionLimit
              /\ open' = [open EXCEPT ![w] = @ \cup {c}]
         \/ \E w \in Workers : \E c : open' = [open EXCEPT ![w] = @ \ {c}]
<1> DEFINE Changed == \/ open' = open
                      \/ \E w \in Workers : \E c :
                           /\ Cardinality(open[w]) < SessionLimit
                           /\ open' = [open EXCEPT ![w] = @ \cup {c}]
                      \/ \E w \in Workers : \E c : open' = [open EXCEPT ![w] = @ \ {c}]
<1>1. ASSUME NEW w \in Workers, NEW c, CoreCallMethod(w, c) PROVE Changed
  BY <1>1 DEF CoreCallMethod
<1>2. ASSUME NEW w \in Workers, NEW p, CoreRecvPacket(w, p) PROVE Changed
  BY <1>2 DEF CoreRecvPacket
<1>3. ASSUME NEW w \in Workers, NEW c, NEW f, CoreSendFailed(w, c, f) PROVE Changed
  BY <1>3 DEF CoreSendFailed
<1>4. ASSUME open' = open PROVE Changed
  BY <1>4
<1> HIDE DEF Changed
<1>5. ASSUME NEW w \in Workers, RunTask(w) PROVE Changed
  BY <1>5, <1>1, <1>2, <1>3 DEF RunTask, RunCall, RunPacket, RunFailed
<1>6. ASSUME NEW w \in Workers, NEW r \in Requests, RecvRequest(w, r) PROVE Changed
  BY <1>6, <1>2 DEF RecvRequest, RecvPacket
<1>7. ASSUME NEW w \in Workers, NEW c \in Calls, RecvResponse(w, c) PROVE Changed
  BY <1>7, <1>2 DEF RecvResponse, RecvPacket
<1>8. ASSUME NEW w \in Workers, NEW c \in Calls, SentFailed(w, c) PROVE Changed
  BY <1>8, <1>3, <1>4 DEF SentFailed
<1>9. ASSUME NEW w \in Workers, NEW c \in Calls, CallFromWorker(c, w) PROVE Changed
  BY <1>9, <1>1, <1>4 DEF CallFromWorker
<1>10. ASSUME NEW w \in Workers, NEW c \in Calls, SessionTimeout(w, c) PROVE Changed
  BY <1>10 DEF SessionTimeout, Changed
<1>11. ASSUME NEW w \in Workers, NEW c \in Calls, CallFromApp(c, w) PROVE Changed
  BY <1>11, <1>4 DEF CallFromApp
<1>12. ASSUME UNCHANGED vars \/ \E c \in Calls : WakeUp(c) \/ SentOk(c) PROVE Changed
  BY <1>12, <1>4 DEF vars, WakeUp, SentOk
<1>13. ASSUME NEW w \in Workers, NEW c \in Calls, RecvMisfit(w, c) PROVE Changed
  BY <1>13, <1>2 DEF RecvMisfit, RecvPacket
<1>14. Changed
  BY <1>5, <1>6, <1>7, <1>8, <1>9, <1>10, <1>11, <1>12, <1>13 DEF Next
<1> QED BY <1>14 DEF Changed

\* No action fills a table past its pool.
LEMMA TablesStep == TypeOK /\ TablesHold /\ [Next]_vars => TablesHold'
<1> SUFFICES ASSUME TypeOK, TablesHold, [Next]_vars, NEW v \in Workers
             PROVE  IsFiniteSet(open'[v]) /\ Cardinality(open'[v]) <= SessionLimit
  BY DEF TablesHold
<1>1. /\ IsFiniteSet(open[v]) /\ Cardinality(open[v]) <= SessionLimit
      /\ Cardinality(open[v]) \in Nat
  BY FS_CardinalityType DEF TablesHold
<1>2. open \in [Workers -> SUBSET Calls]
  BY DEF TypeOK
<1>3. CASE open'[v] = open[v]
  BY <1>1, <1>3
<1>4. ASSUME NEW c, Cardinality(open[v]) < SessionLimit, open'[v] = open[v] \cup {c}
      PROVE  IsFiniteSet(open'[v]) /\ Cardinality(open'[v]) <= SessionLimit
  <2>1. /\ IsFiniteSet(open[v] \cup {c})
        /\ \/ Cardinality(open[v] \cup {c}) = Cardinality(open[v])
           \/ Cardinality(open[v] \cup {c}) = Cardinality(open[v]) + 1
    BY <1>1, FS_AddElement
  <2> QED BY <1>1, <1>4, <2>1, LimitAssumption
<1>5. ASSUME NEW c, open'[v] = open[v] \ {c}
      PROVE  IsFiniteSet(open'[v]) /\ Cardinality(open'[v]) <= SessionLimit
  <2>1. open[v] \ {c} \in SUBSET open[v]
    OBVIOUS
  <2>2. /\ IsFiniteSet(open[v] \ {c})
        /\ Cardinality(open[v] \ {c}) \in Nat
        /\ Cardinality(open[v] \ {c}) <= Cardinality(open[v])
    BY <1>1, <2>1, FS_Subset, FS_CardinalityType
  <2> QED BY <1>1, <1>5, <2>2, LimitAssumption
<1>6. \/ open'[v] = open[v]
      \/ \E c : Cardinality(open[v]) < SessionLimit /\ open'[v] = open[v] \cup {c}
      \/ \E c : open'[v] = open[v] \ {c}
  <2>1. CASE open' = open
    BY <2>1
  <2>2. ASSUME NEW w \in Workers, NEW c, Cardinality(open[w]) < SessionLimit,
               open' = [open EXCEPT ![w] = @ \cup {c}]
        PROVE  \/ open'[v] = open[v]
               \/ Cardinality(open[v]) < SessionLimit /\ open'[v] = open[v] \cup {c}
    BY <1>2, <2>2
  <2>3. ASSUME NEW w \in Workers, NEW c, open' = [open EXCEPT ![w] = @ \ {c}]
        PROVE  open'[v] = open[v] \/ open'[v] = open[v] \ {c}
    BY <1>2, <2>3
  <2> QED BY <2>1, <2>2, <2>3, TableChanges
<1> QED BY <1>3, <1>4, <1>5, <1>6

-----------------------------------------------------------------------------
(* An event reaches its session.                                              *)

SendsOK(c) == Reported(c) /\ EventsReach(c)
Events == {"response", "failed"}

\* A step that neither sends nor hears for a call leaves its events where they
\* were, or ends its session.
LEMMA SameSends ==
  ASSUME NEW d \in Calls, SendsOK(d),
         tries'[d] = tries[d], failures'[d] = failures[d], heard'[d] = heard[d],
         d \in inflight' => d \in inflight,
         owner'[d] = NoWorker => owner[d] = NoWorker,
         overflowed \subseteq overflowed',
         \A v \in Workers : d \in open'[v] =>
           /\ d \in open[v]
           /\ \A kind \in Events : Queued(v, kind, d) => Queued(v, kind, d)'
  PROVE  SendsOK(d)'
<1>1. Reported(d)'
  BY DEF SendsOK, Reported
<1>2. EventsReach(d)'
  BY DEF SendsOK, EventsReach, Events
<1> QED BY <1>1, <1>2 DEF SendsOK

\* What RpcCore::CallMethod does to the events of any call.
LEMMA CallSends ==
  ASSUME TypeOK, OnePlace, NEW w \in Workers, NEW c \in Calls,
         CoreCallMethod(w, c), owner[c] = NoWorker,
         UNCHANGED <<failures, heard, overflowed>>,
         \A d \in Calls : \A v \in Workers : \A kind \in Events :
           Queued(v, kind, d) => Queued(v, kind, d)',
         \A d \in Calls : SendsOK(d)
  PROVE  \A d \in Calls : SendsOK(d)'
<1>1. CASE UNCHANGED <<open, owner, inflight, tries>>
  BY <1>1, SameSends
<1>2. CASE /\ open' = [open EXCEPT ![w] = @ \cup {c}]
           /\ owner' = [owner EXCEPT ![c] = w]
           /\ inflight' = inflight \cup {c}
           /\ tries' = [tries EXCEPT ![c] = 1]
  <2>1. /\ open \in [Workers -> SUBSET Calls] /\ tries \in [Calls -> Nat]
        /\ owner \in [Calls -> Workers \cup {NoWorker}] /\ failures \in [Calls -> Nat]
    BY DEF TypeOK
  <2>2. ASSUME NEW d \in Calls, d # c PROVE SendsOK(d)'
    BY <1>2, <2>1, <2>2, SameSends
  <2>3. SendsOK(c)'
    <3>1. tries[c] = 0 /\ heard[c] = 0 /\ failures[c] = 0
      BY <2>1 DEF SendsOK, Reported
    <3>2. tries'[c] = 1 /\ heard'[c] = 0 /\ failures'[c] = 0 /\ owner'[c] = w
      BY <1>2, <2>1, <3>1
    <3>3. w # NoWorker
      BY DEF Workers, NoWorker
    <3> QED BY <3>2, <3>3 DEF SendsOK, Reported, EventsReach
  <2> QED BY <2>2, <2>3
<1> QED BY <1>1, <1>2 DEF CoreCallMethod

\* A retry of RpcCore::OnSendPacketFailed is one more endpoint than failed; a
\* report that comes too late changes nothing but what is in flight.
LEMMA FailedSends ==
  ASSUME TypeOK, NEW w \in Workers, NEW c \in Calls, NEW f \in SUBSET inflight,
         CoreSendFailed(w, c, f), UNCHANGED <<owner, heard, overflowed>>,
         \A d \in Calls : d # c => failures'[d] = failures[d],
         failures'[c] = failures[c] \/ (failures'[c] = failures[c] + 1 /\ c \in inflight),
         failures'[c] = failures[c] \/ c \notin f,
         failures'[c] = failures[c] \/ owner[c] = w,
         \A d \in Calls : \A v \in Workers : \A kind \in Events :
           Queued(v, kind, d) =>
             \/ Queued(v, kind, d)'
             \/ v = w /\ kind = "failed" /\ d = c,
         OnePlace, \A d \in Calls : SendsOK(d)
  PROVE  \A d \in Calls : SendsOK(d)'
<1>1. /\ open \in [Workers -> SUBSET Calls] /\ tries \in [Calls -> Nat]
      /\ failures \in [Calls -> Nat]
  BY DEF TypeOK
<1>2. \A v \in Workers : c \in open[v] => owner[c] = v
  BY DEF OnePlace, InOnePlace
<1>3. ASSUME NEW d \in Calls, d # c PROVE SendsOK(d)'
  <2>1. tries'[d] = tries[d] /\ (d \in inflight' => d \in inflight)
    BY <1>1, <1>3 DEF CoreSendFailed
  <2>2. \A v \in Workers : d \in open'[v] => d \in open[v]
    BY <1>1, <1>3 DEF CoreSendFailed
  <2>3. \A v \in Workers : \A kind \in Events : Queued(v, kind, d) => Queued(v, kind, d)'
    BY <1>3
  <2> QED BY <1>3, <2>1, <2>2, <2>3, SameSends
<1>4. SendsOK(c)'
  <2>1. failures[c] <= tries[c] /\ (c \in inflight => failures[c] < tries[c])
    BY DEF SendsOK, Reported
  <2>2. failures'[c] <= tries[c] /\ (c \in f => failures'[c] < tries[c])
    BY <1>1, <2>1
  <2>3. CASE /\ owner[c] # w \/ c \notin open[w]
             /\ inflight' = f /\ UNCHANGED <<open, tries>>
    <3>1. Reported(c)'
      BY <2>2, <2>3 DEF SendsOK, Reported
    <3>2. \A v \in Workers : c \in open[v] =>
            v # w /\ failures'[c] = failures[c]
      BY <1>2, <2>3
    <3>3. EventsReach(c)'
      BY <2>3, <3>2 DEF SendsOK, EventsReach, Events
    <3> QED BY <3>1, <3>3 DEF SendsOK
  <2>4. CASE /\ owner[c] = w /\ c \in open[w]
             /\ tries' = [tries EXCEPT ![c] = @ + 1]
             /\ inflight' = f \cup {c} /\ UNCHANGED open
    <3>1. tries'[c] = tries[c] + 1 /\ failures'[c] \in Nat
      BY <1>1, <2>4
    <3>2. failures'[c] < tries'[c]
      BY <1>1, <2>2, <3>1
    <3>3. w # NoWorker
      BY DEF Workers, NoWorker
    <3>4. Reported(c)'
      BY <1>1, <2>4, <3>1, <3>2, <3>3 DEF Reported
    <3>5. EventsReach(c)'
      BY <1>1, <2>4, <3>1, <3>2 DEF SendsOK, EventsReach, Events
    <3> QED BY <3>4, <3>5 DEF SendsOK
  <2>5. CASE /\ owner[c] = w /\ c \in open[w]
             /\ open' = [open EXCEPT ![w] = @ \ {c}]
             /\ inflight' = f /\ UNCHANGED tries
    <3>1. Reported(c)'
      BY <2>2, <2>5 DEF SendsOK, Reported
    <3>2. \A v \in Workers : c \notin open'[v]
      BY <1>1, <1>2, <2>5
    <3> QED BY <3>1, <3>2 DEF SendsOK, EventsReach
  <2> QED BY <2>3, <2>4, <2>5 DEF CoreSendFailed
<1> QED BY <1>3, <1>4

\* Every action leaves every event on its way to the session it is about.
LEMMA SendsStep ==
  ASSUME TypeOK, OnePlace, SendsReported, EventsReachOwner, [Next]_vars
  PROVE  SendsReported' /\ EventsReachOwner'
<1> SUFFICES \A d \in Calls : SendsOK(d)'
  BY DEF SendsOK, SendsReported, EventsReachOwner
<1>a. \A d \in Calls : SendsOK(d)
  BY DEF SendsOK, SendsReported, EventsReachOwner
<1>b. queue \in Queues
  BY DEF TypeOK, Queues
<1>c. \A c \in Calls : \A w \in Workers : c \in open[w] => owner[c] = w
  BY DEF OnePlace, InOnePlace
<1>d. open \in [Workers -> SUBSET Calls]
  BY DEF TypeOK
<1>e. ASSUME queue' = queue
      PROVE  \A d \in Calls : \A v \in Workers : \A kind \in Events :
               Queued(v, kind, d) => Queued(v, kind, d)'
  BY <1>e DEF Queued
<1>f. ASSUME NEW w \in Workers, NEW task \in Task, Redirect(queue, w, task)
      PROVE  /\ \A d \in Calls : \A v \in Workers : \A kind \in Events :
                  Queued(v, kind, d) => Queued(v, kind, d)'
             /\ overflowed \subseteq overflowed'
  BY <1>f, AfterRedirect DEF Events, Kinds
<1>1. CASE UNCHANGED vars
  BY <1>a, <1>1, <1>e, SameSends DEF vars
<1>2. ASSUME NEW c \in Calls, WakeUp(c) PROVE \A d \in Calls : SendsOK(d)'
  BY <1>a, <1>2, <1>e, SameSends DEF WakeUp
<1>3. ASSUME NEW c \in Calls, SentOk(c) PROVE \A d \in Calls : SendsOK(d)'
  BY <1>a, <1>3, <1>e, SameSends DEF SentOk
<1>4. ASSUME NEW w \in Workers, RunTask(w) PROVE \A d \in Calls : SendsOK(d)'
  <2> DEFINE task == Head(queue[w])
  <2>1. queue[w] # << >> /\ queue' = [queue EXCEPT ![w] = Tail(@)]
    BY <1>4 DEF RunTask
  <2>2. task \in Task /\ UNCHANGED <<failures, heard, overflowed>>
    BY <1>4, <1>b, <2>1, TakenFrom DEF RunTask
  <2>3. \A d \in Calls : \A v \in Workers : \A kind \in Events :
          Queued(v, kind, d) =>
            \/ Queued(v, kind, d)'
            \/ v = w /\ task = [kind |-> kind, of |-> d]
    BY <1>b, <2>1, QueuedAfterTake
  <2>4. CASE task.kind = "call" /\ RunCall(w, task.of)
    <3>1. PICK c \in Calls : task = CallTask(c)
      BY <2>2, <2>4 DEF Task, CallTask
    <3>2. Queued(w, "call", c)
      BY <1>b, <2>1, <3>1, QueuedAfterTake DEF CallTask
    <3>3. owner[c] = NoWorker
      BY <3>2 DEF OnePlace, InOnePlace
    <3>4. CoreCallMethod(w, c)
      BY <2>4, <3>1 DEF RunCall, CallTask
    <3>5. \A d \in Calls : \A v \in Workers : \A kind \in Events :
            Queued(v, kind, d) => Queued(v, kind, d)'
      <4> SUFFICES ASSUME NEW d \in Calls, NEW v \in Workers, NEW kind \in Events
                   PROVE  task # [kind |-> kind, of |-> d]
        BY <2>3
      <4>1. kind # "call"
        BY DEF Events
      <4> QED BY <3>1, <4>1 DEF CallTask
    <3> QED BY <1>a, <2>2, <3>3, <3>4, <3>5, CallSends
  <2>5. CASE task.kind \in {"request", "response", "misfit"} /\ RunPacket(w, task)
    <3>1. UNCHANGED <<owner, inflight, tries>> /\ CoreRecvPacket(w, task)
      BY <2>5 DEF RunPacket
    <3>2. ASSUME NEW d \in Calls, NEW v \in Workers, d \in open'[v]
          PROVE  /\ d \in open[v]
                 /\ \A kind \in Events : Queued(v, kind, d) => Queued(v, kind, d)'
      <4>1. d \in open[v]
        BY <1>d, <3>1, <3>2 DEF CoreRecvPacket
      <4>2. ASSUME v = w, NEW kind \in Events, task = [kind |-> kind, of |-> d]
            PROVE  FALSE
        <5>1. task.kind = "response" /\ task.of = d
          BY <2>5, <4>2 DEF Events
        <5>2. owner[d] = w
          BY <1>c, <4>1, <4>2
        <5>3. open' = [open EXCEPT ![w] = @ \ {d}]
          BY <3>1, <4>1, <4>2, <5>1, <5>2 DEF CoreRecvPacket, HandlesHere
        <5> QED BY <1>d, <3>2, <4>2, <5>3
      <4> QED BY <2>3, <4>1, <4>2
    <3> QED BY <1>a, <2>2, <3>1, <3>2, SameSends
  <2>6. CASE task.kind = "failed" /\ RunFailed(w, task.of)
    <3>1. PICK c \in Calls : c = task.of
      BY <2>2, <2>6 DEF Task
    <3>2. owner' = owner /\ CoreSendFailed(w, c, inflight)
      BY <2>6, <3>1 DEF RunFailed
    <3>3. \A d \in Calls : \A v \in Workers : \A kind \in Events :
            Queued(v, kind, d) =>
              \/ Queued(v, kind, d)'
              \/ v = w /\ kind = "failed" /\ d = c
      <4> SUFFICES ASSUME NEW d \in Calls, NEW v \in Workers, NEW kind \in Events,
                          task = [kind |-> kind, of |-> d]
                   PROVE  kind = "failed" /\ d = c
        BY <2>3
      <4>1. task.kind = kind /\ task.of = d
        OBVIOUS
      <4> QED BY <2>6, <3>1, <4>1
    <3> HIDE DEF task
    <3> QED BY <1>a, <2>2, <3>2, <3>3, FailedSends
  <2> QED BY <1>4, <2>4, <2>5, <2>6 DEF RunTask
<1>5. ASSUME NEW w \in Workers, NEW r \in Requests, RecvRequest(w, r)
      PROVE  \A d \in Calls : SendsOK(d)'
  <2> DEFINE p == [kind |-> "request", of |-> r]
  <2>1. p \in Task /\ p.kind = "request" /\ 0 \in Workers
    BY WorkerNumAssumption DEF Task, Workers
  <2>2. (queue' = queue /\ overflowed' = overflowed) \/ Redirect(queue, 0, p)
    BY <1>5, <2>1 DEF RecvRequest, RecvPacket, CoreToRedirectTo, HandlesHere
  <2>3. open' = open /\ UNCHANGED <<owner, inflight, tries, failures, heard>>
    BY <1>5 DEF RecvRequest, RecvPacket, CoreRecvPacket
  <2> QED BY <1>a, <1>e, <1>f, <2>1, <2>2, <2>3, SameSends
<1>6. ASSUME NEW w \in Workers, NEW c \in Calls, CallFromApp(c, w)
      PROVE  \A d \in Calls : SendsOK(d)'
  <2>1. UNCHANGED <<open, owner, inflight, tries, failures, heard, overflowed>>
    BY <1>6 DEF CallFromApp
  <2>2. \A d \in Calls : \A v \in Workers : \A kind \in Events :
          Queued(v, kind, d) => Queued(v, kind, d)'
    <3>1. CASE queue' = queue
      BY <1>e, <3>1
    <3>2. CASE queue' = Enqueue(queue, w, CallTask(c))
      <4>1. CallTask(c) \in Task
        BY DEF CallTask, Task
      <4> QED BY <1>b, <3>2, <4>1, QueuedAfterPost
    <3> QED BY <1>6, <3>1, <3>2 DEF CallFromApp, CallTask
  <2> QED BY <1>a, <2>1, <2>2, SameSends
<1>7. ASSUME NEW w \in Workers, NEW c \in Calls, CallFromWorker(c, w)
      PROVE  \A d \in Calls : SendsOK(d)'
  <2>1. queue' = queue /\ UNCHANGED <<failures, heard, overflowed>>
    BY <1>7 DEF CallFromWorker
  <2>2. CASE UNCHANGED <<open, owner, inflight, tries>>
    BY <1>a, <1>e, <2>1, <2>2, SameSends
  <2>3. CASE CoreCallMethod(w, c)
    <3>1. owner[c] = NoWorker
      BY <1>7 DEF CallFromWorker, OnePlace, InOnePlace
    <3> QED BY <1>a, <1>e, <2>1, <2>3, <3>1, CallSends
  <2> QED BY <1>7, <2>2, <2>3 DEF CallFromWorker
<1>8. ASSUME NEW w \in Workers, NEW c \in Calls, RecvResponse(w, c)
      PROVE  \A d \in Calls : SendsOK(d)'
  <2> DEFINE p == [kind |-> "response", of |-> c]
  <2>1. p \in Task /\ p.kind = "response" /\ p.of = c
    BY DEF Task
  <2>2. owner[c] \in Workers /\ 0 \in Workers
    BY <1>8, SentHasOwner, WorkerNumAssumption DEF RecvResponse, Workers
  <2>3. \/ queue' = queue /\ overflowed' = overflowed
        \/ Redirect(queue, owner[c], p) \/ Redirect(queue, 0, p)
    BY <1>8, <2>1 DEF RecvResponse, RecvPacket, CoreToRedirectTo
  <2>4. /\ \A d \in Calls : \A v \in Workers : \A kind \in Events :
             Queued(v, kind, d) => Queued(v, kind, d)'
        /\ overflowed \subseteq overflowed'
    BY <1>e, <1>f, <2>1, <2>2, <2>3
  <2>5. UNCHANGED <<owner, inflight, tries, failures>> /\ CoreRecvPacket(w, p)
    BY <1>8 DEF RecvResponse, RecvPacket
  <2>6. heard \in [Calls -> Nat] /\ heard' = [heard EXCEPT ![c] = @ + 1]
    BY <1>8 DEF RecvResponse, TypeOK
  <2>7. \A v \in Workers : \A d \in Calls : d \in open'[v] => d \in open[v]
    BY <1>d, <2>5 DEF CoreRecvPacket
  <2>8. ASSUME NEW d \in Calls, d # c PROVE SendsOK(d)'
    BY <1>a, <2>4, <2>5, <2>6, <2>7, <2>8, SameSends
  <2>9. SendsOK(c)'
    <3>1. SendsOK(c)
      BY <1>a
    <3>2. owner[c] # NoWorker
      BY <2>2 DEF Workers, NoWorker
    <3>3. Reported(c)'
      BY <2>5, <3>1, <3>2 DEF SendsOK, Reported
    <3>4. ASSUME NEW v \in Workers, c \in open'[v], c \notin overflowed'
          PROVE  Queued(v, "response", c)'
      <4>1. c \in open[v] /\ owner[c] = v
        BY <1>c, <2>7, <3>4
      <4>2. v # w
        <5>1. SUFFICES ASSUME v = w PROVE FALSE
          OBVIOUS
        <5>2. open' = [open EXCEPT ![w] = @ \ {c}]
          BY <2>1, <2>5, <4>1, <5>1 DEF CoreRecvPacket, HandlesHere
        <5> QED BY <1>d, <3>4, <5>1, <5>2
      <4>3. CoreToRedirectTo(w, p) = v
        BY <2>1, <4>1, <4>2 DEF CoreToRedirectTo, HandlesHere
      <4>4. Redirect(queue, v, p)
        BY <1>8, <4>2, <4>3 DEF RecvResponse, RecvPacket
      <4> QED BY <2>1, <3>4, <4>4, AfterRedirect
    <3>5. EventsReach(c)'
      <4> SUFFICES ASSUME NEW v \in Workers, c \in open'[v], c \notin overflowed'
                   PROVE  failures'[c] = tries'[c] => Queued(v, "failed", c)'
        BY <3>4 DEF EventsReach
      <4>1. c \in open[v] /\ c \notin overflowed
        BY <2>4, <2>7
      <4> QED BY <2>4, <2>5, <3>1, <4>1 DEF SendsOK, EventsReach, Events
    <3> QED BY <3>3, <3>5 DEF SendsOK
  <2> QED BY <2>8, <2>9
<1>9. ASSUME NEW w \in Workers, NEW c \in Calls, SentFailed(w, c)
      PROVE  \A d \in Calls : SendsOK(d)'
  <2> DEFINE task == [kind |-> "failed", of |-> c]
  <2>1. task \in Task
    BY DEF Task
  <2>2. owner[c] \in Workers
    BY <1>9, SentHasOwner DEF SentFailed
  <2>3. /\ failures \in [Calls -> Nat] /\ failures' = [failures EXCEPT ![c] = @ + 1]
        /\ UNCHANGED <<owner, heard>> /\ c \in inflight
    BY <1>9 DEF SentFailed, TypeOK
  <2>4. failures'[c] = failures[c] + 1 /\ \A d \in Calls : d # c => failures'[d] = failures[d]
    BY <2>3
  <2>5. CASE owner[c] = w
    <3>1. CoreSendFailed(w, c, inflight \ {c}) /\ UNCHANGED <<queue, overflowed>>
      BY <1>9, <2>5 DEF SentFailed
    <3>2. inflight \ {c} \in SUBSET inflight /\ c \notin inflight \ {c}
      OBVIOUS
    <3> QED BY <1>a, <1>e, <2>3, <2>4, <2>5, <3>1, <3>2, FailedSends
  <2>6. CASE owner[c] # w
    <3>1. /\ Redirect(queue, owner[c], task) /\ UNCHANGED <<open, tries>>
          /\ inflight' = inflight \ {c}
      BY <1>9, <2>6 DEF SentFailed
    <3>2. /\ \A d \in Calls : \A v \in Workers : \A kind \in Events :
               Queued(v, kind, d) => Queued(v, kind, d)'
          /\ overflowed \subseteq overflowed'
      BY <1>f, <2>1, <2>2, <3>1
    <3>3. ASSUME NEW d \in Calls, d # c PROVE SendsOK(d)'
      BY <1>a, <2>3, <2>4, <3>1, <3>2, <3>3, SameSends
    <3>4. SendsOK(c)'
      <4>1. SendsOK(c) /\ tries[c] \in Nat /\ failures[c] \in Nat
        BY <1>a DEF TypeOK
      <4>2. Reported(c)'
        BY <2>3, <2>4, <3>1, <4>1 DEF SendsOK, Reported
      <4>3. PICK u \in Workers : u = owner[c]
        BY <2>2
      <4>4. c \in overflowed' \/ Queued(u, "failed", c)'
        BY <2>1, <3>1, <4>3, AfterRedirect
      <4>5. EventsReach(c)'
        <5> SUFFICES ASSUME NEW v \in Workers, c \in open'[v], c \notin overflowed'
                     PROVE  /\ heard'[c] > 0 => Queued(v, "response", c)'
                            /\ Queued(v, "failed", c)'
          BY DEF EventsReach
        <5>1. c \in open[v] /\ owner[c] = v /\ c \notin overflowed
          BY <1>c, <3>1, <3>2
        <5>2. heard'[c] > 0 => Queued(v, "response", c)'
          BY <2>3, <3>2, <4>1, <5>1 DEF SendsOK, EventsReach, Events
        <5> QED BY <4>3, <4>4, <5>1, <5>2
      <4> QED BY <4>2, <4>5 DEF SendsOK
    <3> QED BY <3>3, <3>4
  <2> QED BY <2>5, <2>6
<1>10. ASSUME NEW w \in Workers, NEW c \in Calls, SessionTimeout(w, c)
       PROVE  \A d \in Calls : SendsOK(d)'
  <2>1. /\ open' = [open EXCEPT ![w] = @ \ {c}] /\ queue' = queue
        /\ UNCHANGED <<owner, inflight, tries, failures, heard, overflowed>>
    BY <1>10 DEF SessionTimeout
  <2>2. \A v \in Workers : \A d \in Calls : d \in open'[v] => d \in open[v]
    BY <1>d, <2>1
  <2> QED BY <1>a, <1>e, <2>1, <2>2, SameSends
<1>11. ASSUME NEW w \in Workers, NEW c \in Calls, RecvMisfit(w, c)
       PROVE  \A d \in Calls : SendsOK(d)'
  <2>1. UNCHANGED <<open, owner, inflight, tries, failures, heard, overflowed>>
    BY <1>11, MisfitEffect
  <2>2. \A d \in Calls : \A v \in Workers : \A kind \in Events :
          Queued(v, kind, d) => Queued(v, kind, d)'
    BY <1>11, MisfitQueued DEF Events, Kinds
  <2> QED BY <1>a, <2>1, <2>2, SameSends
<1> QED
  BY <1>1, <1>2, <1>3, <1>4, <1>5, <1>6, <1>7, <1>8, <1>9, <1>10, <1>11 DEF Next

-----------------------------------------------------------------------------
(* A thread waits for its own call.                                           *)

WaitOK == OneWait /\ SyncReturnsOutcome /\ NotifiedForThisCall

\* A thread with nobody waiting has no count on its EventFd.
LEMMA FreeHasNoCount ==
  ASSUME TypeOK, WaitOK, NEW t \in AppThreads,
         \A d \in Calls : CallerOf[d] = t /\ caller[d] = "waiting" => Len(outcome[d]) # 1
  PROVE  evfd[t] = 0
<1>1. evfd[t] \in Nat
  BY DEF TypeOK
<1> QED BY <1>1 DEF WaitOK, NotifiedForThisCall

\* A closure that runs while nothing else moves notifies the thread that waits.
LEMMA WaitAfterDone ==
  ASSUME TypeOK, WaitOK, RunsOnce, UNCHANGED <<caller, returned>>
  PROVE  WaitOK'
<1>1. CASE NoDone
  BY <1>1 DEF NoDone, WaitOK, OneWait, SyncReturnsOutcome, NotifiedForThisCall
<1>2. ASSUME NEW c \in Calls, NEW result \in Results, RunDone(c, result),
             outcome[c] = << >>, caller'[c] # "idle"
      PROVE  WaitOK'
  <2>1. /\ outcome \in [Calls -> Seq(Results)] /\ rpc_result \in [Calls -> Results]
        /\ evfd \in [AppThreads -> Nat]
        /\ caller \in [Calls -> {"idle", "waiting", "returned"}]
    BY DEF TypeOK
  <2>2. outcome'[c] = <<result>> /\ \A d \in Calls : d # c => outcome'[d] = outcome[d]
    BY <1>2, <2>1 DEF RunDone
  <2>3. CASE ~Synchronous(c)
    <3>1. rpc_result' = rpc_result /\ evfd' = evfd
      BY <1>2, <2>3 DEF RunDone
    <3>2. caller[c] # "waiting"
      BY <2>3 DEF WaitOK, OneWait
    <3>3. OneWait'
      BY <2>2, <3>1, <3>2 DEF WaitOK, OneWait
    <3>4. SyncReturnsOutcome'
      BY <2>2, <2>3 DEF WaitOK, SyncReturnsOutcome
    <3>5. NotifiedForThisCall'
      BY <2>2, <3>1, <3>2 DEF WaitOK, NotifiedForThisCall
    <3> QED BY <3>3, <3>4, <3>5 DEF WaitOK
  <2>4. CASE Synchronous(c)
    <3>1. CallerOf[c] \in AppThreads
      BY <2>4, CallerAssumption DEF Synchronous
    <3>2. caller[c] = "waiting"
      <4>1. caller[c] # "returned"
        <5>1. caller[c] = "returned" => outcome[c] = <<returned[c]>>
          BY <2>4 DEF WaitOK, SyncReturnsOutcome
        <5> QED BY <1>2, <5>1
      <4> QED BY <1>2, <2>1, <4>1
    <3>3. \A d \in Calls :
            CallerOf[d] = CallerOf[c] /\ caller[d] = "waiting" => d = c
      BY <3>2 DEF WaitOK, OneWait
    <3>4. evfd[CallerOf[c]] = 0
      BY <1>2, <3>1, <3>3, FreeHasNoCount
    <3>5. /\ rpc_result'[c] = result /\ evfd'[CallerOf[c]] = 1
          /\ \A d \in Calls : d # c => rpc_result'[d] = rpc_result[d]
          /\ \A t \in AppThreads : t # CallerOf[c] => evfd'[t] = evfd[t]
      BY <1>2, <2>1, <2>4, <3>1, <3>4 DEF RunDone
    <3>6. OneWait'
      <4>1. ASSUME NEW d \in Calls, caller'[d] = "waiting", outcome'[d] # << >>
            PROVE  outcome'[d] = <<rpc_result'[d]>> /\ evfd'[CallerOf[d]] = 1
        <5>1. CASE d = c
          BY <2>2, <3>5, <5>1
        <5>2. CASE d # c
          <6>1. CallerOf[d] # CallerOf[c] /\ CallerOf[d] \in AppThreads
            BY <3>3, <4>1, <5>2, CallerAssumption DEF WaitOK, OneWait, Synchronous
          <6> QED BY <2>2, <3>5, <4>1, <5>2, <6>1 DEF WaitOK, OneWait
        <5> QED BY <5>1, <5>2
      <4> QED BY <4>1 DEF WaitOK, OneWait
    <3>7. SyncReturnsOutcome'
      BY <2>2, <3>2 DEF WaitOK, SyncReturnsOutcome
    <3>8. NotifiedForThisCall'
      <4> SUFFICES ASSUME NEW t \in AppThreads, evfd'[t] > 0
                   PROVE  /\ evfd'[t] = 1
                          /\ \E d \in Calls : /\ CallerOf[d] = t /\ caller'[d] = "waiting"
                                              /\ Len(outcome'[d]) = 1
        BY DEF NotifiedForThisCall
      <4>1. CASE t = CallerOf[c]
        BY <2>2, <3>2, <3>5, <4>1
      <4>2. CASE t # CallerOf[c]
        BY <2>2, <3>5, <4>2 DEF WaitOK, NotifiedForThisCall
      <4> QED BY <4>1, <4>2
    <3> QED BY <3>6, <3>7, <3>8 DEF WaitOK
  <2> QED BY <2>3, <2>4
<1> QED BY <1>1, <1>2 DEF RunsOnce

\* Every action leaves each thread waiting for one call, with its result.
LEMMA WaitStep ==
  ASSUME TypeOK, OneTask, OnePlace, SendsReported, WaitOK, [Next]_vars
  PROVE  WaitOK'
<1>a. /\ outcome \in [Calls -> Seq(Results)] /\ rpc_result \in [Calls -> Results]
      /\ evfd \in [AppThreads -> Nat] /\ returned \in [Calls -> Results]
      /\ caller \in [Calls -> {"idle", "waiting", "returned"}]
  BY DEF TypeOK
<1>b. CASE RunsOnce /\ UNCHANGED <<caller, returned>>
  BY <1>b, WaitAfterDone
<1>1. ASSUME NEW c \in Calls, WakeUp(c) PROVE WaitOK'
  <2>1. caller[c] = "waiting" /\ Synchronous(c) /\ CallerOf[c] \in AppThreads
    BY <1>1, CallerAssumption DEF WakeUp, WaitOK, OneWait, Synchronous
  <2>2. \A d \in Calls : CallerOf[d] = CallerOf[c] /\ caller[d] = "waiting" => d = c
    BY <2>1 DEF WaitOK, OneWait
  <2>3. outcome[c] = <<rpc_result[c]>>
    <3>1. Len(outcome[c]) = 1
      BY <1>1, <2>1, <2>2 DEF WakeUp, WaitOK, NotifiedForThisCall
    <3>2. outcome[c] # << >>
      <4>1. outcome[c] \in Seq(Results)
        BY <1>a
      <4> QED BY <3>1, <4>1
    <3> QED BY <2>1, <3>2 DEF WaitOK, OneWait
  <2>4. /\ evfd'[CallerOf[c]] = 0 /\ caller'[c] = "returned"
        /\ returned'[c] = rpc_result[c]
        /\ \A t \in AppThreads : t # CallerOf[c] => evfd'[t] = evfd[t]
        /\ \A d \in Calls : d # c => caller'[d] = caller[d] /\ returned'[d] = returned[d]
        /\ rpc_result' = rpc_result /\ outcome' = outcome
    BY <1>1, <1>a, <2>1 DEF WakeUp
  <2>5. OneWait'
    <3>1. ASSUME NEW d \in Calls, caller'[d] = "waiting"
          PROVE  /\ Synchronous(d) /\ d # c
                 /\ outcome'[d] # << >> =>
                      outcome'[d] = <<rpc_result'[d]>> /\ evfd'[CallerOf[d]] = 1
      <4>1. d # c /\ caller[d] = "waiting" /\ CallerOf[d] # CallerOf[c]
        BY <2>2, <2>4, <3>1
      <4>2. Synchronous(d) /\ CallerOf[d] \in AppThreads
        BY <4>1, CallerAssumption DEF WaitOK, OneWait, Synchronous
      <4> QED BY <2>4, <4>1, <4>2 DEF WaitOK, OneWait
    <3> QED BY <2>4, <3>1 DEF WaitOK, OneWait
  <2>6. SyncReturnsOutcome'
    BY <2>3, <2>4 DEF WaitOK, SyncReturnsOutcome
  <2>7. NotifiedForThisCall'
    <3> SUFFICES ASSUME NEW t \in AppThreads, evfd'[t] > 0
                 PROVE  /\ evfd'[t] = 1
                        /\ \E d \in Calls : /\ CallerOf[d] = t /\ caller'[d] = "waiting"
                                            /\ Len(outcome'[d]) = 1
      BY DEF NotifiedForThisCall
    <3>1. t # CallerOf[c] /\ evfd'[t] = evfd[t]
      BY <2>4
    <3>2. PICK d \in Calls : /\ CallerOf[d] = t /\ caller[d] = "waiting"
                             /\ Len(outcome[d]) = 1
      BY <3>1 DEF WaitOK, NotifiedForThisCall
    <3> QED BY <2>4, <3>1, <3>2 DEF WaitOK, NotifiedForThisCall
  <2> QED BY <2>5, <2>6, <2>7 DEF WaitOK
<1>2. ASSUME NEW w \in Workers, NEW c \in Calls, CallFromApp(c, w) PROVE WaitOK'
  <2>1. /\ CallerOf[c] \in AppThreads /\ caller[c] = "idle"
        /\ \A d \in Calls : CallerOf[d] = CallerOf[c] => caller[d] # "waiting"
    BY <1>2 DEF CallFromApp, Free
  <2>2. outcome[c] = << >>
    BY <2>1 DEF OnePlace, InOnePlace
  <2>3. evfd[CallerOf[c]] = 0
    BY <2>1, FreeHasNoCount
  <2>4. \A d \in Calls : d # c => caller'[d] = caller[d] /\ returned'[d] = returned[d]
    BY <1>2, <1>a DEF CallFromApp, Return
  <2>5. CASE ~Synchronous(c)
    <3>1. caller'[c] = "returned"
      BY <1>2, <1>a, <2>5 DEF CallFromApp, Return
    <3>2. evfd' = evfd /\ rpc_result' = rpc_result
      BY <1>2, <2>5 DEF CallFromApp, RunDone, NoDone
    <3>3. \A d \in Calls : d # c => outcome'[d] = outcome[d]
      BY <1>2, <1>a DEF CallFromApp, RunDone, NoDone
    <3>4. OneWait'
      BY <2>4, <3>1, <3>2, <3>3 DEF WaitOK, OneWait
    <3>5. SyncReturnsOutcome'
      BY <2>4, <2>5, <3>3 DEF WaitOK, SyncReturnsOutcome
    <3>6. NotifiedForThisCall'
      <4>1. \A d \in Calls : caller[d] = "waiting" => d # c
        BY <2>1
      <4> QED BY <2>4, <3>2, <3>3, <4>1 DEF WaitOK, NotifiedForThisCall
    <3> QED BY <3>4, <3>5, <3>6 DEF WaitOK
  <2>6. CASE Synchronous(c)
    <3>1. caller'[c] = "waiting"
      BY <1>2, <1>a, <2>6 DEF CallFromApp, Return
    <3>2. \/ NoDone
          \/ /\ outcome'[c] = <<"kInError">> /\ rpc_result'[c] = "kInError"
             /\ evfd'[CallerOf[c]] = 1
             /\ \A d \in Calls : d # c =>
                  outcome'[d] = outcome[d] /\ rpc_result'[d] = rpc_result[d]
             /\ \A t \in AppThreads : t # CallerOf[c] => evfd'[t] = evfd[t]
      <4>1. CASE Room(queue, w)
        BY <1>2, <4>1 DEF CallFromApp
      <4>2. CASE ~Room(queue, w)
        <5>1. RunDone(c, "kInError")
          BY <1>2, <4>2 DEF CallFromApp
        <5> QED BY <1>a, <2>1, <2>2, <2>3, <2>6, <5>1 DEF RunDone
      <4> QED BY <4>1, <4>2
    <3>3. \A d \in Calls : d # c =>
            outcome'[d] = outcome[d] /\ rpc_result'[d] = rpc_result[d]
      BY <3>2 DEF NoDone
    <3>4. \A t \in AppThreads : t # CallerOf[c] => evfd'[t] = evfd[t]
      BY <3>2 DEF NoDone
    <3>5. OneWait'
      <4>1. ASSUME NEW d \in Calls, d # c, caller'[d] = "waiting"
            PROVE  /\ Synchronous(d) /\ CallerOf[d] # CallerOf[c]
                   /\ outcome'[d] # << >> =>
                        outcome'[d] = <<rpc_result'[d]>> /\ evfd'[CallerOf[d]] = 1
        <5>1. caller[d] = "waiting" /\ CallerOf[d] # CallerOf[c]
          BY <2>1, <2>4, <4>1
        <5>2. Synchronous(d) /\ CallerOf[d] \in AppThreads
          BY <5>1, CallerAssumption DEF WaitOK, OneWait, Synchronous
        <5> QED BY <3>3, <3>4, <4>1, <5>1, <5>2 DEF WaitOK, OneWait
      <4>2. outcome'[c] # << >> =>
              outcome'[c] = <<rpc_result'[c]>> /\ evfd'[CallerOf[c]] = 1
        BY <2>2, <3>2 DEF NoDone
      <4>3. \A d, e \in Calls :
              caller'[d] = "waiting" /\ caller'[e] = "waiting" /\ CallerOf[d] = CallerOf[e]
                => d = e
        BY <2>1, <2>4 DEF WaitOK, OneWait
      <4> QED BY <2>6, <4>1, <4>2, <4>3 DEF OneWait
    <3>6. SyncReturnsOutcome'
      BY <2>4, <3>1, <3>3 DEF WaitOK, SyncReturnsOutcome
    <3>7. NotifiedForThisCall'
      <4> SUFFICES ASSUME NEW t \in AppThreads, evfd'[t] > 0
                   PROVE  /\ evfd'[t] = 1
                          /\ \E d \in Calls : /\ CallerOf[d] = t /\ caller'[d] = "waiting"
                                              /\ Len(outcome'[d]) = 1
        BY DEF NotifiedForThisCall
      <4>1. CASE t = CallerOf[c]
        <5>1. outcome'[c] = <<"kInError">> /\ evfd'[t] = 1
          BY <2>3, <3>2, <4>1 DEF NoDone
        <5>2. Len(outcome'[c]) = 1
          BY <5>1
        <5> QED BY <3>1, <4>1, <5>1, <5>2
      <4>2. CASE t # CallerOf[c]
        <5>1. PICK d \in Calls : /\ CallerOf[d] = t /\ caller[d] = "waiting"
                                 /\ Len(outcome[d]) = 1
          BY <3>4, <4>2 DEF WaitOK, NotifiedForThisCall
        <5> QED BY <2>1, <2>4, <3>3, <3>4, <4>2, <5>1 DEF WaitOK, NotifiedForThisCall
      <4> QED BY <4>1, <4>2
    <3> QED BY <3>5, <3>6, <3>7 DEF WaitOK
  <2> QED BY <2>5, <2>6
<1>3. ASSUME NEW w \in Workers, NEW c \in Calls, CallFromWorker(c, w) PROVE WaitOK'
  <2>1. caller[c] = "idle" /\ ~Synchronous(c)
    BY <1>3 DEF CallFromWorker, Synchronous
  <2>2. caller'[c] = "returned"
    BY <1>3, <1>a, <2>1 DEF CallFromWorker, Return
  <2>3. \A d \in Calls : d # c => caller'[d] = caller[d] /\ returned'[d] = returned[d]
    BY <1>3, <1>a DEF CallFromWorker, Return
  <2>4. NoDone \/ \E result \in Results : RunDone(c, result)
    BY <1>3 DEF CallFromWorker, CoreCallMethod, Results
  <2>5. evfd' = evfd /\ rpc_result' = rpc_result
    BY <2>1, <2>4 DEF RunDone, NoDone
  <2>6. \A d \in Calls : d # c => outcome'[d] = outcome[d]
    BY <2>4, OthersOutcome
  <2>7. OneWait'
    BY <2>2, <2>3, <2>5, <2>6 DEF WaitOK, OneWait
  <2>8. SyncReturnsOutcome'
    BY <2>1, <2>3, <2>6 DEF WaitOK, SyncReturnsOutcome
  <2>9. NotifiedForThisCall'
    <3>1. \A d \in Calls : caller[d] = "waiting" => d # c
      BY <2>1
    <3> QED BY <2>3, <2>5, <2>6, <3>1 DEF WaitOK, NotifiedForThisCall
  <2> QED BY <2>7, <2>8, <2>9 DEF WaitOK
<1>4. \/ RunsOnce \/ \E c \in Calls : WakeUp(c)
  BY PlaceStep
<1>5. ASSUME NEW w \in Workers, RunTask(w) \/ \E r \in Requests : RecvRequest(w, r)
      PROVE  UNCHANGED <<caller, returned>>
  BY <1>5 DEF RunTask, RecvRequest, RecvPacket
<1>6. ASSUME NEW w \in Workers, NEW c \in Calls,
             \/ RecvResponse(w, c) \/ RecvMisfit(w, c)
             \/ SentFailed(w, c) \/ SessionTimeout(w, c)
      PROVE  UNCHANGED <<caller, returned>>
  BY <1>6 DEF RecvResponse, RecvMisfit, RecvPacket, SentFailed, SessionTimeout
<1>7. ASSUME NEW c \in Calls, SentOk(c) PROVE UNCHANGED <<caller, returned>>
  BY <1>7 DEF SentOk
<1>8. CASE UNCHANGED vars
  BY <1>8 DEF vars, WaitOK, OneWait, SyncReturnsOutcome, NotifiedForThisCall
<1> QED BY <1>b, <1>1, <1>2, <1>3, <1>4, <1>5, <1>6, <1>7, <1>8 DEF Next

-----------------------------------------------------------------------------
(* A reception is served.                                                     *)

\* Places in a sequence are counted.
LEMMA PlacesCounted ==
  ASSUME NEW n \in Nat, NEW T \in SUBSET (1 .. n)
  PROVE  IsFiniteSet(T) /\ Cardinality(T) \in Nat
<1>1. IsFiniteSet(1 .. n)
  BY FS_Interval
<1>2. IsFiniteSet(T)
  BY <1>1, FS_Subset
<1> QED BY <1>2, FS_CardinalityType

\* Posting a request adds it to those that wait at worker 0, ...
LEMMA WaitingAfterPost ==
  ASSUME TypeOK, NEW w \in Workers, NEW task \in Task, NEW r \in Requests,
         queue' = Enqueue(queue, w, task)
  PROVE  Cardinality(Waiting(r)') <=
           Cardinality(Waiting(r)) + (IF task = RequestTask(r) THEN 1 ELSE 0)
<1>1. queue \in Queues /\ \A v \in Workers : Len(queue[v]) \in Nat
  BY DEF TypeOK, Queues
<1>2. 0 \in Workers
  BY WorkerNumAssumption DEF Workers
<1>3. IsFiniteSet(Waiting(r)) /\ Cardinality(Waiting(r)) \in Nat
  <2>1. Len(queue[0]) \in Nat /\ Waiting(r) \in SUBSET (1 .. Len(queue[0]))
    BY <1>1, <1>2 DEF Waiting
  <2> QED BY <2>1, PlacesCounted
<1>4. CASE w # 0
  <2>1. Waiting(r)' = Waiting(r)
    BY <1>1, <1>2, <1>4, PostedTo DEF Waiting, RequestTask
  <2> QED BY <1>3, <2>1
<1>5. CASE w = 0
  <2>1. /\ Len(queue'[0]) = Len(queue[0]) + 1
        /\ queue'[0][Len(queue[0]) + 1] = task
        /\ \A n \in 1 .. Len(queue[0]) : queue'[0][n] = queue[0][n]
    BY <1>1, <1>5, PostedTo
  <2>2. CASE task = RequestTask(r)
    <3>1. Waiting(r)' = Waiting(r) \cup {Len(queue[0]) + 1}
      BY <1>1, <1>2, <2>1, <2>2 DEF Waiting, RequestTask
    <3>2. Len(queue[0]) + 1 \notin Waiting(r)
      BY <1>1, <1>2 DEF Waiting
    <3>3. Cardinality(Waiting(r) \cup {Len(queue[0]) + 1}) = Cardinality(Waiting(r)) + 1
      BY <1>3, <3>2, FS_AddElement
    <3> QED BY <1>3, <2>2, <3>1, <3>3
  <2>3. CASE task # RequestTask(r)
    <3>1. Waiting(r)' = Waiting(r)
      BY <1>1, <1>2, <2>1, <2>3 DEF Waiting, RequestTask
    <3> QED BY <1>3, <2>3, <3>1
  <2> QED BY <2>2, <2>3
<1> QED BY <1>4, <1>5

\* ... and taking it leaves one less.
LEMMA WaitingAfterTake ==
  ASSUME TypeOK, NEW w \in Workers, NEW r \in Requests,
         queue[w] # << >>, queue' = [queue EXCEPT ![w] = Tail(@)]
  PROVE  /\ Cardinality(Waiting(r)') <= Cardinality(Waiting(r))
         /\ w = 0 /\ Head(queue[w]) = RequestTask(r) =>
              Cardinality(Waiting(r)') <= Cardinality(Waiting(r)) - 1
<1>1. queue \in Queues /\ \A v \in Workers : Len(queue[v]) \in Nat
  BY DEF TypeOK, Queues
<1>2. 0 \in Workers
  BY WorkerNumAssumption DEF Workers
<1>3. IsFiniteSet(Waiting(r)) /\ Cardinality(Waiting(r)) \in Nat
  <2>1. Len(queue[0]) \in Nat /\ Waiting(r) \in SUBSET (1 .. Len(queue[0]))
    BY <1>1, <1>2 DEF Waiting
  <2> QED BY <2>1, PlacesCounted
<1>4. CASE w # 0
  <2>1. Waiting(r)' = Waiting(r)
    BY <1>1, <1>2, <1>4, TakenFrom DEF Waiting, RequestTask
  <2> QED BY <1>3, <1>4, <2>1
<1>5. CASE w = 0
  <2> DEFINE S == Waiting(r)'
             T == Waiting(r) \ {1}
             f == [n \in S |-> n + 1]
  <2>1. /\ Len(queue'[0]) = Len(queue[0]) - 1 /\ Head(queue[0]) = queue[0][1]
        /\ Len(queue[0]) \in Nat \ {0}
        /\ \A n \in 1 .. Len(queue[0]) - 1 : queue'[0][n] = queue[0][n + 1]
    BY <1>1, <1>5, TakenFrom
  <2>2. ASSUME NEW n \in S PROVE n \in Nat /\ n + 1 \in T
    <3>1. n \in 1 .. Len(queue[0]) - 1 /\ queue'[0][n] = RequestTask(r)
      BY <2>1 DEF Waiting, RequestTask
    <3>2. queue[0][n + 1] = RequestTask(r)
      BY <2>1, <3>1
    <3> QED BY <2>1, <3>1, <3>2 DEF Waiting
  <2>3. f \in Injection(S, T)
    <3>1. f \in [S -> T]
      BY <2>2
    <3>2. \A m, n \in S : f[m] = f[n] => m = n
      BY <2>2
    <3> HIDE DEF S, T, f
    <3> QED BY <3>1, <3>2 DEF Injection, IsInjective
  <2>4. IsFiniteSet(T) /\ Cardinality(T) <= Cardinality(Waiting(r)) /\ Cardinality(T) \in Nat
    BY <1>3, FS_Subset, FS_CardinalityType
  <2>5. IsFiniteSet(S) /\ Cardinality(S) <= Cardinality(T)
    <3> HIDE DEF S, T, f
    <3> QED BY <2>3, <2>4, FS_Injection
  <2>6. Cardinality(S) \in Nat
    BY <2>5, FS_CardinalityType
  <2>7. Head(queue[w]) = RequestTask(r) => Cardinality(T) = Cardinality(Waiting(r)) - 1
    <3> SUFFICES ASSUME Head(queue[w]) = RequestTask(r)
                 PROVE  Cardinality(T) = Cardinality(Waiting(r)) - 1
      OBVIOUS
    <3>1. 1 \in Waiting(r)
      BY <1>5, <2>1 DEF Waiting
    <3> QED BY <1>3, <3>1, FS_RemoveElement
  <2> HIDE DEF T
  <2> QED BY <1>3, <2>4, <2>5, <2>6, <2>7
<1> QED BY <1>4, <1>5

\* A reception adds to those from abroad when it was not in worker 0.
LEMMA AbroadAfterReception ==
  ASSUME TypeOK, NEW w \in Workers, NEW r \in Requests,
         received' = [received EXCEPT ![r] = Append(@, w)]
  PROVE  /\ Len(received'[r]) = Len(received[r]) + 1
         /\ Cardinality(Abroad(r)') = Cardinality(Abroad(r)) + (IF w # 0 THEN 1 ELSE 0)
         /\ Cardinality(Abroad(r)) \in Nat
<1>1. received[r] \in Seq(Workers) /\ received \in [Requests -> Seq(Workers)]
  BY DEF TypeOK
<1>2. received'[r] = Append(received[r], w)
  BY <1>1
<1>3. /\ Len(received'[r]) = Len(received[r]) + 1 /\ Len(received[r]) \in Nat
      /\ received'[r][Len(received[r]) + 1] = w
      /\ \A n \in 1 .. Len(received[r]) : received'[r][n] = received[r][n]
  BY <1>1, <1>2, AppendElements
<1>4. IsFiniteSet(Abroad(r)) /\ Cardinality(Abroad(r)) \in Nat
  <2>1. Abroad(r) \in SUBSET (1 .. Len(received[r]))
    BY DEF Abroad
  <2> QED BY <1>3, <2>1, PlacesCounted
<1>5. CASE w = 0
  <2>1. Abroad(r)' = Abroad(r)
    BY <1>3, <1>5 DEF Abroad
  <2> QED BY <1>3, <1>4, <1>5, <2>1
<1>6. CASE w # 0
  <2>1. Abroad(r)' = Abroad(r) \cup {Len(received[r]) + 1}
    BY <1>3, <1>6 DEF Abroad
  <2>2. Len(received[r]) + 1 \notin Abroad(r)
    BY <1>3 DEF Abroad
  <2>3. Cardinality(Abroad(r) \cup {Len(received[r]) + 1}) = Cardinality(Abroad(r)) + 1
    BY <1>4, <2>2, FS_AddElement
  <2> QED BY <1>3, <1>4, <1>6, <2>1, <2>3
<1> QED BY <1>5, <1>6

ServesEnough(r) ==
  /\ IF r \in Servable THEN Len(received[r]) <= Len(served[r]) ELSE served[r] = << >>
  /\ Len(served[r]) + Cardinality(Waiting(r)) <=
       Len(received[r]) + Cardinality(Abroad(r))

\* Every action serves what it received, and posts requests to worker 0 only.
LEMMA ServeStep ==
  ASSUME TypeOK, SendsReported, OnlyToFirst, [Next]_vars
  PROVE  OnlyToFirst'
<1>a. queue \in Queues /\ \A v \in Workers : Len(queue[v]) \in Nat
  BY DEF TypeOK, Queues
<1>b. 0 \in Workers
  BY WorkerNumAssumption DEF Workers
<1>c. ASSUME NEW r \in Requests
      PROVE  /\ ServesEnough(r)
             /\ Len(received[r]) \in Nat /\ Len(served[r]) \in Nat
             /\ Cardinality(Abroad(r)) \in Nat /\ Cardinality(Waiting(r)) \in Nat
  <2>1. received[r] \in Seq(Workers) /\ served[r] \in Seq(Workers)
    BY DEF TypeOK
  <2>2. Len(received[r]) \in Nat /\ Len(served[r]) \in Nat /\ Len(queue[0]) \in Nat
    BY <1>a, <1>b, <2>1
  <2>3. /\ Abroad(r) \in SUBSET (1 .. Len(received[r]))
        /\ Waiting(r) \in SUBSET (1 .. Len(queue[0]))
    BY DEF Abroad, Waiting
  <2>4. Cardinality(Abroad(r)) \in Nat /\ Cardinality(Waiting(r)) \in Nat
    BY <2>2, <2>3, PlacesCounted
  <2> QED BY <2>2, <2>4 DEF OnlyToFirst, ServesEnough
<1>d. \A w \in Workers \ {0} : \A r \in Requests : ~Queued(w, "request", r)
  BY DEF OnlyToFirst
<1>e. ASSUME queue' = queue, served' = served, received' = received
      PROVE  OnlyToFirst'
  BY <1>e DEF OnlyToFirst, Queued, Waiting, Abroad, RequestTask
<1>f. ASSUME NEW w \in Workers, NEW task \in Task, task.kind # "request",
             queue' = queue \/ queue' = Enqueue(queue, w, task),
             served' = served, received' = received
      PROVE  OnlyToFirst'
  <2>1. CASE queue' = queue
    BY <1>e, <1>f, <2>1
  <2>2. CASE queue' = Enqueue(queue, w, task)
    <3>1. \A r \in Requests : task # RequestTask(r)
      BY <1>f DEF RequestTask
    <3>2. \A v \in Workers \ {0} : \A r \in Requests : ~Queued(v, "request", r)'
      BY <1>a, <1>d, <2>2, <3>1, QueuedAfterPost DEF RequestTask
    <3>3. ASSUME NEW r \in Requests PROVE ServesEnough(r)'
      <4>1. Cardinality(Waiting(r)') <= Cardinality(Waiting(r)) + 0
        BY <2>2, <3>1, WaitingAfterPost
      <4>2. Cardinality(Waiting(r)') \in Nat
        <5>1. Len(queue'[0]) \in Nat
          BY <1>a, <1>b, <2>2, PostedTo DEF Queues
        <5>2. Waiting(r)' \in SUBSET (1 .. Len(queue'[0]))
          BY DEF Waiting
        <5> QED BY <5>1, <5>2, PlacesCounted
      <4> QED BY <1>c, <1>f, <4>1, <4>2 DEF ServesEnough, Abroad
    <3> QED BY <3>2, <3>3 DEF OnlyToFirst, ServesEnough
  <2> QED BY <1>f, <2>1, <2>2
<1>1. ASSUME NEW w \in Workers, RunTask(w) PROVE OnlyToFirst'
  <2> DEFINE task == Head(queue[w])
  <2>1. queue[w] # << >> /\ queue' = [queue EXCEPT ![w] = Tail(@)]
    BY <1>1 DEF RunTask
  <2>2. task \in Task /\ received' = received
    BY <1>1, <1>a, <2>1, TakenFrom DEF RunTask
  <2>3. \A v \in Workers \ {0} : \A r \in Requests : ~Queued(v, "request", r)'
    BY <1>a, <1>d, <2>1, QueuedAfterTake
  <2>4. \A r \in Requests : Cardinality(Waiting(r)') \in Nat
    <3>1. TAKE r \in Requests
    <3>2. Len(queue'[0]) \in Nat
      BY <1>a, <1>b, <2>1, TakenFrom DEF Queues
    <3>3. Waiting(r)' \in SUBSET (1 .. Len(queue'[0]))
      BY DEF Waiting
    <3> QED BY <3>2, <3>3, PlacesCounted
  <2>5. ASSUME NEW r \in Requests, served'[r] = served[r] PROVE ServesEnough(r)'
    <3>1. Cardinality(Waiting(r)') <= Cardinality(Waiting(r))
      BY <2>1, WaitingAfterTake
    <3>2. Abroad(r)' = Abroad(r)
      BY <2>2 DEF Abroad
    <3>3. Cardinality(Waiting(r)') \in Nat
      BY <2>4
    <3>4. Len(served'[r]) = Len(served[r]) /\ Len(received'[r]) = Len(received[r])
      BY <2>2, <2>5
    <3> HIDE DEF task
    <3> QED BY <1>c, <3>1, <3>2, <3>3, <3>4 DEF ServesEnough
  <2>6. CASE task.kind # "request"
    <3>1. served' = served
      BY <1>1, <2>6 DEF RunTask, RunCall, RunPacket, RunFailed, CoreRecvPacket
    <3> QED BY <2>3, <2>5, <3>1 DEF OnlyToFirst, ServesEnough
  <2>7. CASE task.kind = "request"
    <3>1. PICK q \in Requests : task = RequestTask(q)
      BY <2>2, <2>7 DEF Task, RequestTask
    <3>2. Queued(w, "request", q)
      BY <1>a, <2>1, <3>1, QueuedAfterTake DEF RequestTask
    <3>3. w = 0
      BY <1>d, <3>2
    <3>4. served' = IF q \in Servable THEN [served EXCEPT ![q] = Append(@, w)] ELSE served
      BY <1>1, <2>7, <3>1 DEF RunTask, RunPacket, CoreRecvPacket, RequestTask
    <3>5. served \in [Requests -> Seq(Workers)]
      BY DEF TypeOK
    <3>6. \A r \in Requests : r # q \/ q \notin Servable => served'[r] = served[r]
      BY <3>4, <3>5
    <3>7. ASSUME q \in Servable PROVE ServesEnough(q)'
      <4>1. Cardinality(Waiting(q)') <= Cardinality(Waiting(q)) - 1
        BY <2>1, <3>1, <3>3, WaitingAfterTake
      <4>2. served'[q] = Append(served[q], w) /\ served[q] \in Seq(Workers)
        BY <3>4, <3>5, <3>7
      <4>3. Len(served'[q]) = Len(served[q]) + 1
        BY <4>2, AppendElements
      <4>4. Abroad(q)' = Abroad(q) /\ Len(received'[q]) = Len(received[q])
        BY <2>2 DEF Abroad
      <4>5. Cardinality(Waiting(q)') \in Nat
        BY <2>4
      <4> HIDE DEF task
      <4> QED BY <1>c, <3>7, <4>1, <4>3, <4>4, <4>5 DEF ServesEnough
    <3>8. \A r \in Requests : ServesEnough(r)'
      BY <2>5, <3>6, <3>7
    <3> QED BY <2>3, <3>8 DEF OnlyToFirst, ServesEnough
  <2> QED BY <2>6, <2>7
<1>2. ASSUME NEW w \in Workers, NEW r \in Requests, RecvRequest(w, r)
      PROVE  OnlyToFirst'
  <2> DEFINE p == RequestTask(r)
  <2>1. p \in Task /\ p.kind = "request" /\ p.of = r
    BY DEF Task, RequestTask
  <2>2. /\ received' = [received EXCEPT ![r] = Append(@, w)]
        /\ served' = IF r \in Servable THEN [served EXCEPT ![r] = Append(@, w)] ELSE served
    BY <1>2 DEF RecvRequest, RecvPacket, CoreRecvPacket
  <2>3. \/ w = 0 /\ queue' = queue
        \/ w # 0 /\ (queue' = queue \/ queue' = Enqueue(queue, 0, p))
    BY <1>2, <2>1 DEF RecvRequest, RecvPacket, CoreToRedirectTo, HandlesHere, Redirect,
       RequestTask
  <2>4. served \in [Requests -> Seq(Workers)] /\ received \in [Requests -> Seq(Workers)]
    BY DEF TypeOK
  <2>5. \A q \in Requests : q # r => served'[q] = served[q] /\ received'[q] = received[q]
    BY <2>2, <2>4
  <2>6. IF r \in Servable THEN Len(served'[r]) = Len(served[r]) + 1
                          ELSE served'[r] = served[r]
    <3>1. CASE r \in Servable
      <4>1. served'[r] = Append(served[r], w) /\ served[r] \in Seq(Workers)
        BY <2>2, <2>4, <3>1
      <4> QED BY <3>1, <4>1, AppendElements
    <3>2. CASE r \notin Servable
      BY <2>2, <3>2
    <3> QED BY <3>1, <3>2
  <2>7. /\ Len(received'[r]) = Len(received[r]) + 1
        /\ Cardinality(Abroad(r)') = Cardinality(Abroad(r)) + (IF w # 0 THEN 1 ELSE 0)
    BY <2>2, AbroadAfterReception
  <2>8. ASSUME NEW q \in Requests
        PROVE  /\ Cardinality(Waiting(q)') \in Nat
               /\ q # r => Cardinality(Waiting(q)') <= Cardinality(Waiting(q))
               /\ Cardinality(Waiting(q)') <=
                    Cardinality(Waiting(q)) + (IF w # 0 THEN 1 ELSE 0)
    <3>1. CASE queue' = queue
      <4>1. Waiting(q)' = Waiting(q)
        BY <3>1 DEF Waiting, RequestTask
      <4> QED BY <1>c, <4>1
    <3>2. CASE w # 0 /\ queue' = Enqueue(queue, 0, p)
      <4>1. q # r => p # RequestTask(q)
        BY DEF RequestTask
      <4>2. Cardinality(Waiting(q)') <=
              Cardinality(Waiting(q)) + (IF p = RequestTask(q) THEN 1 ELSE 0)
        BY <1>b, <2>1, <3>2, WaitingAfterPost
      <4>3. Cardinality(Waiting(q)') \in Nat
        <5>1. Len(queue'[0]) \in Nat
          BY <1>a, <1>b, <2>1, <3>2, PostedTo DEF Queues
        <5>2. Waiting(q)' \in SUBSET (1 .. Len(queue'[0]))
          BY DEF Waiting
        <5> QED BY <5>1, <5>2, PlacesCounted
      <4> HIDE DEF p
      <4> QED BY <1>c, <3>2, <4>1, <4>2, <4>3
    <3> QED BY <2>3, <3>1, <3>2
  <2>9. ASSUME NEW q \in Requests PROVE ServesEnough(q)'
    <3>1. CASE q = r
      <4>1. /\ Cardinality(Waiting(r)') \in Nat
            /\ Cardinality(Waiting(r)') <=
                 Cardinality(Waiting(r)) + (IF w # 0 THEN 1 ELSE 0)
        BY <2>8
      <4>2. ServesEnough(r)'
        <5> HIDE DEF p
        <5>1. /\ ServesEnough(r)
              /\ Len(received[r]) \in Nat /\ Len(served[r]) \in Nat
              /\ Cardinality(Abroad(r)) \in Nat /\ Cardinality(Waiting(r)) \in Nat
          BY <1>c
        <5>2. IF r \in Servable THEN Len(received'[r]) <= Len(served'[r])
                                ELSE served'[r] = << >>
          BY <2>6, <2>7, <5>1 DEF ServesEnough
        <5>3. Len(served'[r]) + Cardinality(Waiting(r)') <=
                Len(received'[r]) + Cardinality(Abroad(r)')
          <6> DEFINE ran == Len(served[r])
                     ran1 == Len(served'[r])
                     waits == Cardinality(Waiting(r))
                     waits1 == Cardinality(Waiting(r)')
                     came == Len(received[r])
                     came1 == Len(received'[r])
                     abroad == Cardinality(Abroad(r))
                     abroad1 == Cardinality(Abroad(r)')
          <6>1. /\ ran \in Nat /\ waits \in Nat /\ came \in Nat /\ abroad \in Nat
                /\ waits1 \in Nat
                /\ ran + waits <= came + abroad
                /\ (ran1 = ran + 1 \/ ran1 = ran) /\ came1 = came + 1
            BY <2>6, <2>7, <4>1, <5>1 DEF ServesEnough
          <6>2. \/ abroad1 = abroad /\ waits1 <= waits
                \/ abroad1 = abroad + 1 /\ waits1 <= waits + 1
            BY <2>7, <4>1, <5>1
          <6>3. ran1 + waits1 <= came1 + abroad1
            <7> HIDE DEF ran, ran1, waits, waits1, came, came1, abroad, abroad1
            <7> QED BY ONLY <6>1, <6>2
          <6> QED BY <6>3
        <5> QED BY <5>2, <5>3 DEF ServesEnough
      <4> QED BY <3>1, <4>2
    <3>2. CASE q # r
      <4>1. Abroad(q)' = Abroad(q)
        BY <2>5, <3>2 DEF Abroad
      <4>2. /\ Cardinality(Waiting(q)') \in Nat
            /\ Cardinality(Waiting(q)') <= Cardinality(Waiting(q))
        BY <2>8, <3>2
      <4>3. served'[q] = served[q] /\ received'[q] = received[q]
        BY <2>5, <3>2
      <4>4. /\ ServesEnough(q)
            /\ Len(received[q]) \in Nat /\ Len(served[q]) \in Nat
            /\ Cardinality(Abroad(q)) \in Nat /\ Cardinality(Waiting(q)) \in Nat
        BY <1>c
      <4> QED BY ONLY <4>1, <4>2, <4>3, <4>4 DEF ServesEnough
    <3> QED BY <3>1, <3>2
  <2>10. \A v \in Workers \ {0} : \A q \in Requests : ~Queued(v, "request", q)'
    <3>1. CASE queue' = queue
      BY <1>d, <3>1 DEF Queued
    <3>2. CASE queue' = Enqueue(queue, 0, p)
      BY <1>a, <1>b, <1>d, <2>1, <3>2, QueuedAfterPost
    <3> QED BY <2>3, <3>1, <3>2
  <2> QED BY <2>9, <2>10 DEF OnlyToFirst, ServesEnough
<1>3. ASSUME NEW w \in Workers, NEW c \in Calls, CallFromApp(c, w) PROVE OnlyToFirst'
  <2>1. CallTask(c) \in Task /\ CallTask(c).kind # "request"
    BY DEF CallTask, Task
  <2>2. queue' = queue \/ queue' = Enqueue(queue, w, CallTask(c))
    BY <1>3 DEF CallFromApp, CallTask
  <2>3. served' = served /\ received' = received
    BY <1>3 DEF CallFromApp
  <2> QED BY <1>f, <2>1, <2>2, <2>3
<1>4. ASSUME NEW w \in Workers, NEW c \in Calls, RecvResponse(w, c) PROVE OnlyToFirst'
  <2> DEFINE p == [kind |-> "response", of |-> c]
  <2>1. p \in Task /\ p.kind = "response" /\ p.of = c
    BY DEF Task
  <2>2. owner[c] \in Workers
    BY <1>4, SentHasOwner DEF RecvResponse
  <2>3. PICK v \in Workers : v = CoreToRedirectTo(w, p)
    BY <1>b, <2>1, <2>2 DEF CoreToRedirectTo
  <2>4. queue' = queue \/ queue' = Enqueue(queue, v, p)
    BY <1>4, <2>3 DEF RecvResponse, RecvPacket, Redirect
  <2>5. served' = served /\ received' = received
    BY <1>4, <2>1 DEF RecvResponse, RecvPacket, CoreRecvPacket
  <2>6. p.kind # "request"
    BY <2>1
  <2> HIDE DEF p
  <2> QED BY <1>f, <2>1, <2>4, <2>5, <2>6
<1>5. ASSUME NEW w \in Workers, NEW c \in Calls, SentFailed(w, c) PROVE OnlyToFirst'
  <2> DEFINE task == [kind |-> "failed", of |-> c]
  <2>1. task \in Task /\ task.kind # "request" /\ owner[c] \in Workers
    BY <1>5, SentHasOwner DEF SentFailed, Task
  <2>2. PICK v \in Workers : v = owner[c]
    BY <2>1
  <2>3. queue' = queue \/ queue' = Enqueue(queue, v, task)
    BY <1>5, <2>2 DEF SentFailed, Redirect
  <2>4. served' = served /\ received' = received
    BY <1>5 DEF SentFailed
  <2> HIDE DEF task
  <2> QED BY <1>f, <2>1, <2>3, <2>4
<1>6. ASSUME NEW w \in Workers, NEW c \in Calls,
             CallFromWorker(c, w) \/ SessionTimeout(w, c)
      PROVE  OnlyToFirst'
  <2>1. queue' = queue /\ served' = served /\ received' = received
    BY <1>6 DEF CallFromWorker, SessionTimeout
  <2> QED BY <1>e, <2>1
<1>7. ASSUME NEW c \in Calls, WakeUp(c) \/ SentOk(c) PROVE OnlyToFirst'
  <2>1. queue' = queue /\ served' = served /\ received' = received
    BY <1>7 DEF WakeUp, SentOk
  <2> QED BY <1>e, <2>1
<1>8. CASE UNCHANGED vars
  BY <1>e, <1>8 DEF vars
<1>9. ASSUME NEW w \in Workers, NEW c \in Calls, RecvMisfit(w, c) PROVE OnlyToFirst'
  <2> DEFINE task == [kind |-> "misfit", of |-> c]
  <2>1. task \in Task /\ task.kind # "request"
    BY DEF Task
  <2>2. queue' = queue \/ \E v \in Workers : queue' = Enqueue(queue, v, task)
    BY <1>9, MisfitEffect
  <2>3. served' = served /\ received' = received
    BY <1>9, MisfitEffect
  <2> HIDE DEF task
  <2> QED BY <1>e, <1>f, <2>1, <2>2, <2>3
<1> QED BY <1>1, <1>2, <1>3, <1>4, <1>5, <1>6, <1>7, <1>8, <1>9 DEF Next

-----------------------------------------------------------------------------
(* The invariant, and what it says of every behaviour.                        *)

\* A new object.
LEMMA InitInv == Init => IInv
<1> SUFFICES ASSUME Init PROVE IInv
  OBVIOUS
<1>1. TypeOK
  BY TypeInit
<1>2. \A w \in Workers : Len(queue[w]) = 0
  BY DEF Init
<1>3. \A w \in Workers : 1 .. Len(queue[w]) = {}
  BY <1>2
<1>4. \A w \in Workers : \A kind, of : ~Queued(w, kind, of)
  BY <1>3 DEF Queued
<1>5. OneTask
  BY <1>3 DEF OneTask, CarriedOnce
<1>6. DoneAtMostOnce /\ OnePlace /\ SendsReported /\ EventsReachOwner
  <2>1. \A c \in Calls : Len(outcome[c]) = 0
    BY DEF Init
  <2> QED BY <1>4, <2>1 DEF Init, DoneAtMostOnce, OnePlace, InOnePlace, SendsReported,
             Reported, EventsReachOwner, EventsReach
<1>7. OneWait /\ SyncReturnsOutcome /\ NotifiedForThisCall /\ NoCallLost
  BY DEF Init, OneWait, SyncReturnsOutcome, NotifiedForThisCall, NoCallLost, Kept
<1>9. TablesHold
  <2>1. \A w \in Workers : open[w] = {}
    BY DEF Init
  <2> QED BY <2>1, FS_EmptySet, LimitAssumption DEF TablesHold
<1>8. OnlyToFirst
  <2>1. ASSUME NEW r \in Requests
        PROVE  /\ Len(received[r]) = 0 /\ Len(served[r]) = 0 /\ served[r] = << >>
               /\ Waiting(r) = {} /\ Abroad(r) = {}
    <3>1. Len(received[r]) = 0 /\ Len(served[r]) = 0 /\ served[r] = << >>
      BY DEF Init
    <3>2. 0 \in Workers
      BY WorkerNumAssumption DEF Workers
    <3> QED BY <1>3, <3>1, <3>2 DEF Waiting, Abroad
  <2>2. Cardinality({}) = 0
    BY FS_EmptySet
  <2>3. \A r \in Requests : Cardinality(Waiting(r)) = 0 /\ Cardinality(Abroad(r)) = 0
    BY <2>1, <2>2
  <2> QED BY <1>4, <2>1, <2>3 DEF OnlyToFirst
<1> QED BY <1>1, <1>5, <1>6, <1>7, <1>8, <1>9 DEF IInv

\* A closure that runs once has run once.
LEMMA OnceStep ==
  ASSUME TypeOK, DoneAtMostOnce, RunsOnce \/ \E c \in Calls : WakeUp(c)
  PROVE  DoneAtMostOnce'
<1>1. CASE NoDone \/ \E c \in Calls : WakeUp(c)
  BY <1>1 DEF NoDone, WakeUp, DoneAtMostOnce
<1>2. ASSUME NEW c \in Calls, NEW result \in Results,
             RunDone(c, result), outcome[c] = << >>
      PROVE  DoneAtMostOnce'
  <2>1. outcome \in [Calls -> Seq(Results)]
    BY DEF TypeOK
  <2>2. outcome'[c] = <<result>> /\ \A d \in Calls : d # c => outcome'[d] = outcome[d]
    BY <1>2, <2>1 DEF RunDone
  <2>3. ASSUME NEW d \in Calls PROVE Len(outcome'[d]) <= 1
    <3>1. CASE d = c
      <4>1. Len(<<result>>) = 1 /\ 1 <= 1
        OBVIOUS
      <4>2. outcome'[d] = <<result>>
        BY <2>2, <3>1
      <4>3. Len(outcome'[d]) = 1
        BY <4>1, <4>2, Zenon
      <4> QED BY <4>1, <4>3
    <3>2. CASE d # c
      BY <2>2, <3>2 DEF DoneAtMostOnce
    <3> QED BY <3>1, <3>2
  <2> QED BY <2>3 DEF DoneAtMostOnce
<1> QED BY <1>1, <1>2 DEF RunsOnce

\* Every action keeps the invariant.
LEMMA StepInv == IInv /\ [Next]_vars => IInv'
<1> SUFFICES ASSUME IInv, [Next]_vars PROVE IInv'
  OBVIOUS
<1>1. TypeOK'
  BY TypeStep DEF IInv
<1>2. OneTask' /\ OnePlace' /\ (RunsOnce \/ \E c \in Calls : WakeUp(c))
  BY PlaceStep DEF IInv
<1>3. DoneAtMostOnce'
  BY <1>2, OnceStep DEF IInv
<1>4. SendsReported' /\ EventsReachOwner'
  BY SendsStep DEF IInv
<1>5. OneWait' /\ SyncReturnsOutcome' /\ NotifiedForThisCall'
  BY WaitStep DEF IInv, WaitOK
<1>6. OnlyToFirst'
  BY ServeStep DEF IInv
<1>7. NoCallLost' /\ TablesHold'
  BY KeptStep, TablesStep DEF IInv
<1> QED BY <1>1, <1>2, <1>3, <1>4, <1>5, <1>6, <1>7 DEF IInv

\* The invariant holds in every reachable state, whatever the numbers of
\* workers, queue places, nodes, threads, calls and requests.
THEOREM DispatchConsistent == Spec => []IInv
BY InitInv, StepInv, PTL DEF Spec

\* Through queues, redirects and tables, each done closure runs at most once.
THEOREM DoneOnceInWorkers == Spec => []DoneAtMostOnce
<1>1. IInv => DoneAtMostOnce
  BY DEF IInv
<1> QED BY <1>1, DispatchConsistent, PTL

\* A response or failure report gets to its session's worker unless a queue was
\* full.
THEOREM EventsFindSession == Spec => []EventsReachOwner
<1>1. IInv => EventsReachOwner
  BY DEF IInv
<1> QED BY <1>1, DispatchConsistent, PTL

\* A synchronous CallMethod returns the result its own done was given.
THEOREM SyncGetsOutcome == Spec => []SyncReturnsOutcome
<1>1. IInv => SyncReturnsOutcome
  BY DEF IInv
<1> QED BY <1>1, DispatchConsistent, PTL

\* A thread is woken for the call it waits on.
THEOREM WokenForOwnCall == Spec => []NotifiedForThisCall
<1>1. IInv => NotifiedForThisCall
  BY DEF IInv
<1> QED BY <1>1, DispatchConsistent, PTL

\* No worker's table grows past its pool, through calls, answers and timers.
THEOREM TablesNeverOverflow == Spec => []TablesHold
<1>1. IInv => TablesHold
  BY DEF IInv
<1> QED BY <1>1, DispatchConsistent, PTL

\* No call is lost between CallMethod and its done: until the closure runs, the
\* call is in a queue or in a table, whichever worker it came through, unless
\* CallMethod refused it or AddSession did not take its endpoint list.
THEOREM CallsAreKept == Spec => []NoCallLost
<1>1. IInv => NoCallLost
  BY DEF IInv
<1> QED BY <1>1, DispatchConsistent, PTL

\* A thread blocked in a synchronous CallMethod is blocked on something: its own
\* call is queued or open, or its EventFd holds the count that wakes it.
WaitsForSomething ==
  \A c \in Calls : caller[c] = "waiting" /\ RouteOf[c] # "oversize" =>
    Underway(c) \/ evfd[CallerOf[c]] > 0

THEOREM NoneWaitsInVain == Spec => []WaitsForSomething
<1>1. ASSUME IInv PROVE WaitsForSomething
  <2> SUFFICES ASSUME NEW c \in Calls, caller[c] = "waiting", RouteOf[c] # "oversize"
               PROVE  Underway(c) \/ evfd[CallerOf[c]] > 0
    BY DEF WaitsForSomething
  <2>1. Synchronous(c) /\ (outcome[c] # << >> => evfd[CallerOf[c]] = 1)
    BY <1>1 DEF IInv, OneWait
  <2>2. Kept(c) /\ ~Refused(c)
    BY <1>1, <2>1 DEF IInv, NoCallLost, Synchronous, Refused
  <2> QED BY <2>1, <2>2 DEF Kept
<1>2. IInv => WaitsForSomething
  BY <1>1
<1> QED BY <1>2, DispatchConsistent, PTL

\* A call that is over is sent no more: a task, a report or a table that could send
\* it would have it in a second place.
LEMMA SentBeforeDone ==
  ASSUME IInv, [Next]_vars, NEW c \in Calls, outcome[c] # << >>
  PROVE  tries'[c] = tries[c]
<1>1. tries \in [Calls -> Nat] /\ queue \in Queues
  BY DEF IInv, TypeOK, Queues
<1>2. InOnePlace(c)
  BY DEF IInv, OnePlace
<1>3. ASSUME NEW w \in Workers, NEW d \in Calls, CoreCallMethod(w, d), outcome[d] = << >>
      PROVE  tries'[c] = tries[c]
  BY <1>1, <1>3 DEF CoreCallMethod
<1>4. ASSUME NEW w \in Workers, NEW d \in Calls, NEW f, CoreSendFailed(w, d, f)
      PROVE  tries'[c] = tries[c]
  <2>1. CASE d = c
    <3>1. c \notin open[w]
      BY <1>2 DEF InOnePlace
    <3> QED BY <1>4, <2>1, <3>1 DEF CoreSendFailed
  <2>2. CASE d # c
    BY <1>1, <1>4, <2>2 DEF CoreSendFailed
  <2> QED BY <2>1, <2>2
<1>5. ASSUME NEW w \in Workers, RunTask(w) PROVE tries'[c] = tries[c]
  <2> DEFINE task == Head(queue[w])
  <2>1. queue[w] # << >> /\ queue' = [queue EXCEPT ![w] = Tail(@)]
    BY <1>5 DEF RunTask
  <2>2. task \in Task
    BY <1>1, <2>1, TakenFrom
  <2>3. CASE task.kind = "call" /\ RunCall(w, task.of)
    <3>1. PICK d \in Calls : task = CallTask(d)
      BY <2>2, <2>3 DEF Task, CallTask
    <3>2. Queued(w, "call", d)
      BY <1>1, <2>1, <3>1, QueuedAfterTake DEF CallTask
    <3>3. outcome[d] = << >>
      BY <3>2 DEF IInv, OnePlace, InOnePlace
    <3>4. CoreCallMethod(w, d)
      BY <2>3, <3>1 DEF RunCall, CallTask
    <3> QED BY <1>3, <3>3, <3>4
  <2>4. CASE task.kind \in {"request", "response", "misfit"} /\ RunPacket(w, task)
    BY <2>4 DEF RunPacket
  <2>5. CASE task.kind = "failed" /\ RunFailed(w, task.of)
    <3>1. PICK d \in Calls : task.of = d
      BY <2>2, <2>5 DEF Task
    <3>2. CoreSendFailed(w, d, inflight)
      BY <2>5, <3>1 DEF RunFailed
    <3> QED BY <1>4, <3>2
  <2> QED BY <1>5, <2>3, <2>4, <2>5 DEF RunTask
<1>6. ASSUME NEW w \in Workers, NEW d \in Calls, CallFromWorker(d, w)
      PROVE  tries'[c] = tries[c]
  <2>1. outcome[d] = << >>
    BY <1>6 DEF CallFromWorker, IInv, OnePlace, InOnePlace
  <2> QED BY <1>3, <1>6, <2>1 DEF CallFromWorker
<1>7. ASSUME NEW w \in Workers, NEW d \in Calls, SentFailed(w, d)
      PROVE  tries'[c] = tries[c]
  BY <1>4, <1>7 DEF SentFailed
<1>8. CASE \/ UNCHANGED vars
           \/ \E d \in Calls : WakeUp(d) \/ SentOk(d)
           \/ \E w \in Workers, r \in Requests : RecvRequest(w, r)
           \/ \E w \in Workers, d \in Calls :
                \/ RecvResponse(w, d) \/ RecvMisfit(w, d)
                \/ CallFromApp(d, w) \/ SessionTimeout(w, d)
  BY <1>8 DEF vars, WakeUp, SentOk, RecvRequest, RecvResponse, RecvMisfit, RecvPacket,
     CallFromApp, SessionTimeout
<1> QED BY <1>5, <1>6, <1>7, <1>8 DEF Next

\* Once done has run for a call, no worker runs it again, writes the caller's stack
\* variable, sends the request again or opens a session for the call.
THEOREM HandsOffInWorkers == Spec => NoTouchAfterDone
<1>1. ASSUME IInv, IInv', [Next]_vars, NEW c \in Calls, outcome[c] # << >>
      PROVE  /\ outcome'[c] = outcome[c] /\ rpc_result'[c] = rpc_result[c]
             /\ tries'[c] = tries[c] /\ \A w \in Workers : c \notin open'[w]
  <2>1. RunsOnce \/ \E d \in Calls : WakeUp(d)
    BY <1>1, PlaceStep DEF IInv
  <2>2. /\ outcome \in [Calls -> Seq(Results)] /\ rpc_result \in [Calls -> Results]
    BY <1>1 DEF IInv, TypeOK
  <2>3. outcome'[c] = outcome[c] /\ rpc_result'[c] = rpc_result[c]
    <3>1. CASE NoDone \/ \E d \in Calls : WakeUp(d)
      BY <3>1 DEF NoDone, WakeUp
    <3>2. ASSUME NEW d \in Calls, NEW result \in Results, RunDone(d, result),
                 outcome[d] = << >>
          PROVE  outcome'[c] = outcome[c] /\ rpc_result'[c] = rpc_result[c]
      BY <1>1, <2>2, <3>2 DEF RunDone
    <3> QED BY <2>1, <3>1, <3>2 DEF RunsOnce
  <2>4. \A w \in Workers : c \notin open'[w]
    BY <1>1, <2>3 DEF IInv, OnePlace, InOnePlace
  <2> QED BY <1>1, <2>3, <2>4, SentBeforeDone
<1>2. IInv /\ IInv' /\ [Next]_vars =>
        [\A c \in Calls : outcome[c] # << >> =>
           /\ outcome'[c] = outcome[c] /\ rpc_result'[c] = rpc_result[c]
           /\ tries'[c] = tries[c] /\ \A w \in Workers : c \notin open'[w]]_vars
  BY <1>1
<1> QED BY <1>2, DispatchConsistent, PTL DEF Spec, NoTouchAfterDone

\* Each reception of a request that parses and names a service and method found
\* here runs the service, and at most once more when the packet came to another
\* worker than 0; any other request never runs one.
THEOREM EachReceptionServed == Spec => []ServedPerReception
<1>1. ASSUME IInv PROVE ServedPerReception
  <2> SUFFICES ASSUME NEW r \in Requests
               PROVE  IF r \in Servable
                        THEN /\ Len(received[r]) <= Len(served[r])
                             /\ Len(served[r]) <= Len(received[r]) + Cardinality(Abroad(r))
                        ELSE served[r] = << >>
    BY DEF ServedPerReception, Abroad
  <2>1. /\ received[r] \in Seq(Workers) /\ served[r] \in Seq(Workers)
        /\ queue \in Queues /\ 0 \in Workers
    BY <1>1, WorkerNumAssumption DEF IInv, TypeOK, Queues, Workers
  <2>2. Len(received[r]) \in Nat /\ Len(served[r]) \in Nat /\ Len(queue[0]) \in Nat
    BY <2>1 DEF Queues
  <2>3. /\ Abroad(r) \in SUBSET (1 .. Len(received[r]))
        /\ Waiting(r) \in SUBSET (1 .. Len(queue[0]))
    BY DEF Abroad, Waiting
  <2>4. Cardinality(Abroad(r)) \in Nat /\ Cardinality(Waiting(r)) \in Nat
    BY <2>2, <2>3, PlacesCounted
  <2> QED BY <1>1, <2>2, <2>4 DEF IInv, OnlyToFirst
<1>2. IInv => ServedPerReception
  BY <1>1
<1> QED BY <1>2, DispatchConsistent, PTL
=============================================================================
