------------------------------ MODULE HyperRpc ------------------------------
(* The threads of one HyperRpc object (hyperrpc.cc, rpc_core.cc): application *)
(* threads that issue calls, worker threads that each own an RpcCore and its  *)
(* session table, and the bounded task queues between them. A worker handles  *)
(* one task or event at a time. The session table is the one SessionTable     *)
(* promises: a bounded set of open calls.                                     *)
EXTENDS Integers, Sequences, FiniteSets

CONSTANTS
  Calls,         \* the calls issued, each once
  Requests,      \* the requests of remote callers
  Servable,      \* those that parse and name a service and method found here
  AppThreads,    \* threads outside the worker group
  InWorker,      \* stands for "issued by a callback running in a worker"
  CallerOf,      \* CallerOf[c]: the thread that issues c, or InWorker
  SyncCalls,     \* the calls issued without a done closure
  RouteOf,       \* what on_service_routing yields: "none", "found", "oversize"
  PeerResults,   \* the results a response may carry
  Endpoints,     \* Endpoints[c]: length of the list it yields
  WorkerNum,     \* worker_num
  QueueSize,     \* worker_queue_size
  SessionLimit,  \* nodes in one worker's pool
  Misfitted,     \* bound: the calls to which misfits come, any number of them
  MaxCopies      \* bound: how often the network delivers a response or request

Results == {"kSuccess", "kFailure", "kNoRoute", "kTimeout", "kNotImpl", "kInError"}
Workers == 0 .. WorkerNum - 1
NoWorker == WorkerNum

ASSUME WorkerNumAssumption == WorkerNum \in Nat \ {0}
ASSUME QueueAssumption == QueueSize \in Nat \ {0}
ASSUME LimitAssumption == /\ SessionLimit \in Nat \ {0} /\ Misfitted \subseteq Calls
                          /\ MaxCopies \in [Calls \cup Requests -> Nat]
ASSUME ServableAssumption == Servable \subseteq Requests
ASSUME PeerAssumption == PeerResults \subseteq Results
ASSUME CallerAssumption == /\ InWorker \notin AppThreads
                           /\ CallerOf \in [Calls -> AppThreads \cup {InWorker}]
                           /\ SyncCalls \subseteq Calls
ASSUME RouteAssumption == /\ RouteOf \in [Calls -> {"none", "found", "oversize"}]
                          /\ Endpoints \in [Calls -> Nat \ {0}]

VARIABLES
  queue,       \* queue[w]: the tasks posted to worker w
  caller,      \* where each call's CallMethod stands
  returned,    \* what CallMethod returned
  rpc_result,  \* the caller's stack variable a synchronous done writes
  evfd,        \* evfd[t]: the count of thread t's EventFd
  open,        \* open[w]: the calls in worker w's session table
  owner,       \* the core id in each call's rpc id
  outcome,     \* the runs of each call's done closure
  inflight,    \* calls with a send whose outcome hudp has not reported
  tries,       \* how many endpoints each call's request was sent to
  failures,    \* how many of them hudp reported as failed
  heard,       \* how often a response its session accepts was received
  served,      \* served[r]: the workers that ran the service for r, in order
  received,    \* received[r]: the workers hudp handed r to, in order
  overflowed   \* calls that lost an event to a full queue (history)

vars == <<queue, caller, returned, rpc_result, evfd, open, owner, outcome,
          inflight, tries, failures, heard, served, received, overflowed>>

\* of is the call a task is about, or the request it carries. A misfit is a
\* response that carries the call's id and that no session accepts: its result is
\* none, its names are not the call's, or its body does not parse.
Task == [kind : {"call", "response", "misfit", "failed"}, of : Calls]
          \cup [kind : {"request"}, of : Requests]

Synchronous(c) == c \in SyncCalls /\ CallerOf[c] # InWorker

TypeOK ==
  /\ queue \in [Workers -> Seq(Task)]
  /\ \A w \in Workers : Len(queue[w]) <= QueueSize
  /\ caller \in [Calls -> {"idle", "waiting", "returned"}]
  /\ returned \in [Calls -> Results]
  /\ rpc_result \in [Calls -> Results]
  /\ evfd \in [AppThreads -> Nat]
  /\ open \in [Workers -> SUBSET Calls]
  /\ owner \in [Calls -> Workers \cup {NoWorker}]
  /\ outcome \in [Calls -> Seq(Results)]
  /\ inflight \subseteq Calls
  /\ tries \in [Calls -> Nat]
  /\ failures \in [Calls -> Nat]
  /\ heard \in [Calls -> Nat]
  /\ served \in [Requests -> Seq(Workers)]
  /\ received \in [Requests -> Seq(Workers)]
  /\ overflowed \subseteq Calls

-----------------------------------------------------------------------------
(* The closure done, the queues, and RpcCore::CallMethod. In what follows q   *)
(* is the queues as the running task or event found them. Operators named     *)
(* ...Slip are plausible slips of the definition that follows them.           *)

\* The caller notified, the result not stored.
RunDoneSlip(c, result) ==
  /\ outcome' = [outcome EXCEPT ![c] = Append(@, result)]
  /\ evfd' = IF Synchronous(c) THEN [evfd EXCEPT ![CallerOf[c]] = @ + 1] ELSE evfd
  /\ UNCHANGED rpc_result

\* A synchronous call's closure stores the result and notifies the caller.
RunDone(c, result) ==
  /\ outcome' = [outcome EXCEPT ![c] = Append(@, result)]
  /\ IF Synchronous(c)
       THEN /\ rpc_result' = [rpc_result EXCEPT ![c] = result]
            /\ evfd' = [evfd EXCEPT ![CallerOf[c]] = @ + 1]
       ELSE UNCHANGED <<rpc_result, evfd>>

NoDone == UNCHANGED <<outcome, rpc_result, evfd>>

RoomSlip(q, w) == Len(q[w]) <= QueueSize
Room(q, w) == Len(q[w]) < QueueSize
Enqueue(q, w, task) == [q EXCEPT ![w] = Append(@, task)]

\* The call whose end is put off when a task is dropped.
LostBy(task) == IF task.kind \in {"response", "failed"} THEN {task.of} ELSE {}

\* PostTask of a packet or failure report: dropped when the queue is full.
Redirect(q, w, task) ==
  IF Room(q, w)
    THEN queue' = Enqueue(q, w, task) /\ UNCHANGED overflowed
    ELSE queue' = q /\ overflowed' = overflowed \cup LostBy(task)

\* No route found, done not run.
CoreCallMethodSlip(w, c) ==
  /\ NoDone
  /\ IF RouteOf[c] # "none" /\ Cardinality(open[w]) < SessionLimit
       THEN /\ open' = [open EXCEPT ![w] = @ \cup {c}]
            /\ owner' = [owner EXCEPT ![c] = w]
            /\ inflight' = inflight \cup {c}
            /\ tries' = [tries EXCEPT ![c] = 1]
       ELSE UNCHANGED <<open, owner, inflight, tries>>

CoreCallMethod(w, c) ==
  \/ /\ RouteOf[c] = "none"
     /\ RunDone(c, "kNoRoute")
     /\ UNCHANGED <<open, owner, inflight, tries>>
  \/ /\ RouteOf[c] = "oversize"    \* AddSession's false is not looked at
     /\ NoDone
     /\ UNCHANGED <<open, owner, inflight, tries>>
  \/ /\ RouteOf[c] = "found"
     /\ Cardinality(open[w]) = SessionLimit
     /\ RunDone(c, "kInError")
     /\ UNCHANGED <<open, owner, inflight, tries>>
  \/ /\ RouteOf[c] = "found"
     /\ Cardinality(open[w]) < SessionLimit
     /\ open' = [open EXCEPT ![w] = @ \cup {c}]
     /\ owner' = [owner EXCEPT ![c] = w]
     /\ inflight' = inflight \cup {c}
     /\ tries' = [tries EXCEPT ![c] = 1]
     /\ NoDone

\* RpcCore::OnRecvPacket in core w; a response is looked at only in the core
\* whose number its rpc id carries.
HandlesHere(w, p) == p.kind = "request" \/ owner[p.of] = w

\* The session not looked up: a response ends its call again.
CoreRecvPacketSlip(w, p) ==
  /\ IF p.kind = "response" /\ HandlesHere(w, p)
       THEN /\ \E result \in PeerResults : RunDone(p.of, result)
            /\ open' = [open EXCEPT ![w] = @ \ {p.of}]
       ELSE NoDone /\ UNCHANGED open
  /\ served' = IF p.kind = "request" /\ p.of \in Servable
                 THEN [served EXCEPT ![p.of] = Append(@, w)]
                 ELSE served

\* A request that is not servable is dropped, and so is a misfit in its own core.
CoreRecvPacket(w, p) ==
  /\ IF p.kind = "response" /\ HandlesHere(w, p) /\ p.of \in open[w]
       THEN /\ \E result \in PeerResults : RunDone(p.of, result)
            /\ open' = [open EXCEPT ![w] = @ \ {p.of}]
       ELSE NoDone /\ UNCHANGED open
  /\ served' = IF p.kind = "request" /\ p.of \in Servable
                 THEN [served EXCEPT ![p.of] = Append(@, w)]
                 ELSE served

\* The owner's number not returned, and "return true" for "return 0".
NoRedirectSlip(w, p) == 0
ReturnTrueSlip(w, p) == IF HandlesHere(w, p) THEN 1 ELSE owner[p.of]

\* What RpcCore::OnRecvPacket returns: "return 0" after a message was handled, or
\* dropped by its handler.
CoreToRedirectTo(w, p) == IF HandlesHere(w, p) THEN 0 ELSE owner[p.of]

\* RpcCore::OnSendPacketFailed in core w: the session's next endpoint, or its
\* end. f is the set of sends whose outcome is not reported yet.
CoreSendFailed(w, c, f) ==
  \/ /\ owner[c] # w \/ c \notin open[w]
     /\ inflight' = f
     /\ NoDone
     /\ UNCHANGED <<open, tries>>
  \/ /\ owner[c] = w /\ c \in open[w] /\ tries[c] < Endpoints[c]
     /\ tries' = [tries EXCEPT ![c] = @ + 1]
     /\ inflight' = f \cup {c}
     /\ NoDone
     /\ UNCHANGED open
  \/ /\ owner[c] = w /\ c \in open[w] /\ tries[c] = Endpoints[c]
     /\ RunDone(c, "kTimeout")
     /\ open' = [open EXCEPT ![w] = @ \ {c}]
     /\ inflight' = f
     /\ UNCHANGED tries

-----------------------------------------------------------------------------
Init ==
  /\ queue = [w \in Workers |-> << >>]
  /\ caller = [c \in Calls |-> "idle"]
  /\ returned = [c \in Calls |-> "kSuccess"]
  /\ rpc_result = [c \in Calls |-> "kSuccess"]
  /\ evfd = [t \in AppThreads |-> 0]
  /\ open = [w \in Workers |-> {}]
  /\ owner = [c \in Calls |-> NoWorker]
  /\ outcome = [c \in Calls |-> << >>]
  /\ inflight = {}
  /\ tries = [c \in Calls |-> 0]
  /\ failures = [c \in Calls |-> 0]
  /\ heard = [c \in Calls |-> 0]
  /\ served = [r \in Requests |-> << >>]
  /\ received = [r \in Requests |-> << >>]
  /\ overflowed = {}

Free(t) == \A c \in Calls : CallerOf[c] = t => caller[c] # "waiting"

\* CallMethod's last step: a synchronous caller goes on to wait.
Return(c, result) ==
  IF Synchronous(c)
    THEN caller' = [caller EXCEPT ![c] = "waiting"] /\ UNCHANGED returned
    ELSE /\ caller' = [caller EXCEPT ![c] = "returned"]
         /\ returned' = [returned EXCEPT ![c] = result]

\* A full queue: the caller leaves without taking the count off its EventFd.
LeavesEarlySlip(c, w) ==
  /\ CallerOf[c] \in AppThreads
  /\ caller[c] = "idle" /\ Free(CallerOf[c])
  /\ IF Room(queue, w)
       THEN /\ queue' = Enqueue(queue, w, [kind |-> "call", of |-> c]) /\ NoDone
            /\ Return(c, "kSuccess")
       ELSE /\ RunDone(c, "kInError")
            /\ caller' = [caller EXCEPT ![c] = "returned"]
            /\ returned' = [returned EXCEPT ![c] = "kInError"]
            /\ UNCHANGED queue
  /\ UNCHANGED <<open, owner, inflight, tries, failures, heard, served,
                 received, overflowed>>

\* A full queue: done not run.
ForgetsDoneSlip(c, w) ==
  /\ CallerOf[c] \in AppThreads
  /\ caller[c] = "idle" /\ Free(CallerOf[c])
  /\ queue' = IF Room(queue, w)
                THEN Enqueue(queue, w, [kind |-> "call", of |-> c]) ELSE queue
  /\ NoDone
  /\ Return(c, "kSuccess")
  /\ UNCHANGED <<open, owner, inflight, tries, failures, heard, served,
                 received, overflowed>>

\* Impl::CallMethod outside the workers: the group gives the task to one of
\* them, or refuses it because that one's queue is full.
CallFromApp(c, w) ==
  /\ CallerOf[c] \in AppThreads
  /\ caller[c] = "idle" /\ Free(CallerOf[c])
  /\ IF Room(queue, w)
       THEN queue' = Enqueue(queue, w, [kind |-> "call", of |-> c]) /\ NoDone
       ELSE RunDone(c, "kInError") /\ UNCHANGED queue
  /\ Return(c, "kSuccess")
  /\ UNCHANGED <<open, owner, inflight, tries, failures, heard, served,
                 received, overflowed>>

\* Impl::CallMethod in a worker, from a closure or a service it runs.
CallFromWorker(c, w) ==
  /\ CallerOf[c] = InWorker
  /\ caller[c] = "idle"
  /\ IF c \in SyncCalls
       THEN Return(c, "kInError") /\ NoDone
            /\ UNCHANGED <<open, owner, inflight, tries>>
       ELSE Return(c, "kSuccess") /\ CoreCallMethod(w, c)
  /\ UNCHANGED <<queue, failures, heard, served, received, overflowed>>

\* evfd.GetWait() returns and takes the count.
WakeUp(c) ==
  /\ caller[c] = "waiting"
  /\ evfd[CallerOf[c]] > 0
  /\ evfd' = [evfd EXCEPT ![CallerOf[c]] = 0]
  /\ caller' = [caller EXCEPT ![c] = "returned"]
  /\ returned' = [returned EXCEPT ![c] = rpc_result[c]]
  /\ UNCHANGED <<queue, rpc_result, open, owner, outcome, inflight, tries,
                 failures, heard, served, received, overflowed>>

\* A worker runs the oldest task of its queue.
RunCall(w, c) ==
  /\ CoreCallMethod(w, c)
  /\ UNCHANGED served

RunPacket(w, p) ==
  /\ CoreRecvPacket(w, p)
  /\ UNCHANGED <<owner, inflight, tries>>

RunFailed(w, c) ==
  /\ CoreSendFailed(w, c, inflight)
  /\ UNCHANGED <<owner, served>>

RunTask(w) ==
  /\ queue[w] # << >>
  /\ queue' = [queue EXCEPT ![w] = Tail(@)]
  /\ LET task == Head(queue[w])
     IN \/ task.kind = "call" /\ RunCall(w, task.of)
        \/ task.kind \in {"request", "response", "misfit"} /\ RunPacket(w, task)
        \/ task.kind = "failed" /\ RunFailed(w, task.of)
  /\ UNCHANGED <<caller, returned, failures, heard, received, overflowed>>

\* hudp hands worker w a packet: Impl::OnRecvPacket.
RecvPacket(w, p) ==
  /\ CoreRecvPacket(w, p)
  /\ IF CoreToRedirectTo(w, p) # w
       THEN Redirect(queue, CoreToRedirectTo(w, p), p)
       ELSE UNCHANGED <<queue, overflowed>>
  /\ UNCHANGED <<caller, returned, owner, inflight, tries, failures>>

RecvRequest(w, r) ==
  /\ Len(received[r]) < MaxCopies[r]
  /\ received' = [received EXCEPT ![r] = Append(@, w)]
  /\ RecvPacket(w, [kind |-> "request", of |-> r])
  /\ UNCHANGED heard

\* A response can come once the request was sent, late or twice as well, ...
RecvResponse(w, c) ==
  /\ tries[c] > 0
  /\ heard[c] < MaxCopies[c]
  /\ heard' = [heard EXCEPT ![c] = @ + 1]
  /\ RecvPacket(w, [kind |-> "response", of |-> c])
  /\ UNCHANGED received

\* ... and so can a misfit, which leaves the session to its timer.
RecvMisfit(w, c) ==
  /\ c \in Misfitted /\ tries[c] > 0
  /\ RecvPacket(w, [kind |-> "misfit", of |-> c])
  /\ UNCHANGED <<heard, received>>

\* hudp reports a send's outcome in any worker: Impl::OnSentResult.
SentOk(c) ==
  /\ c \in inflight
  /\ inflight' = inflight \ {c}
  /\ UNCHANGED <<queue, caller, returned, rpc_result, evfd, open, owner, outcome,
                 tries, failures, heard, served, received, overflowed>>

SentFailed(w, c) ==
  /\ c \in inflight
  /\ failures' = [failures EXCEPT ![c] = @ + 1]
  /\ IF owner[c] = w
       THEN /\ CoreSendFailed(w, c, inflight \ {c})
            /\ UNCHANGED <<queue, overflowed>>
       ELSE /\ Redirect(queue, owner[c], [kind |-> "failed", of |-> c])
            /\ inflight' = inflight \ {c}
            /\ NoDone
            /\ UNCHANGED <<open, tries>>
  /\ UNCHANGED <<caller, returned, owner, heard, served, received>>

SessionTimeout(w, c) ==
  /\ c \in open[w]
  /\ RunDone(c, "kTimeout")
  /\ open' = [open EXCEPT ![w] = @ \ {c}]
  /\ UNCHANGED <<queue, caller, returned, owner, inflight, tries, failures,
                 heard, served, received, overflowed>>

Next ==
  \/ \E c \in Calls : WakeUp(c) \/ SentOk(c)
  \/ \E w \in Workers : RunTask(w)
  \/ \E w \in Workers, r \in Requests : RecvRequest(w, r)
  \/ \E w \in Workers, c \in Calls : CallFromApp(c, w)
  \/ \E w \in Workers, c \in Calls : CallFromWorker(c, w)
  \/ \E w \in Workers, c \in Calls : RecvResponse(w, c)
  \/ \E w \in Workers, c \in Calls : RecvMisfit(w, c)
  \/ \E w \in Workers, c \in Calls : SentFailed(w, c)
  \/ \E w \in Workers, c \in Calls : SessionTimeout(w, c)

Spec == Init /\ [][Next]_vars

\* Workers run what is posted to them, session timers run, and a notified
\* thread wakes up. Nothing is asked of the network.
Fairness ==
  /\ \A w \in Workers : WF_vars(RunTask(w))
  /\ \A w \in Workers, c \in Calls : WF_vars(SessionTimeout(w, c))
  /\ \A c \in Calls : WF_vars(WakeUp(c))

FairSpec == Spec /\ Fairness

-----------------------------------------------------------------------------
(* Properties *)

Queued(w, kind, of) ==
  \E i \in 1 .. Len(queue[w]) : queue[w][i] = [kind |-> kind, of |-> of]

\* Through queues, redirects and tables, done still runs at most once.
DoneAtMostOnce == \A c \in Calls : Len(outcome[c]) <= 1

\* Once a call's done has run, no late response, failure report, timer or task in
\* any worker runs it again, writes the variable on the caller's stack, which may
\* be gone, sends the request again or opens a session for it.
NoTouchAfterDone ==
  [][\A c \in Calls : outcome[c] # << >> =>
       /\ outcome'[c] = outcome[c] /\ rpc_result'[c] = rpc_result[c]
       /\ tries'[c] = tries[c] /\ \A w \in Workers : c \notin open'[w]]_vars

\* Whichever worker hudp hands a failure report, or a response that its session
\* accepts, the event reaches the session: it is not left behind unless a queue
\* was full. A misfit reaches the owner too, and leaves the call open there.
EventsReach(c) ==
  \A w \in Workers : c \in open[w] /\ c \notin overflowed =>
    /\ heard[c] > 0 => Queued(w, "response", c)
    /\ failures[c] = tries[c] => Queued(w, "failed", c)
EventsReachOwner == \A c \in Calls : EventsReach(c)

\* A synchronous CallMethod returns what its own done was given, even though
\* calls of one thread share an EventFd.
SyncReturnsOutcome ==
  \A c \in Calls :
    Synchronous(c) /\ caller[c] = "returned" => outcome[c] = <<returned[c]>>

\* A thread's EventFd holds a count only for the call the thread waits on: the
\* next call would otherwise return before its own done has run, and done would
\* then write to a stack frame that is gone.
NotifiedForThisCall ==
  \A t \in AppThreads : evfd[t] > 0 =>
    /\ evfd[t] = 1
    /\ \E c \in Calls : /\ CallerOf[c] = t /\ caller[c] = "waiting"
                        /\ Len(outcome[c]) = 1

\* Each reception of a request that parses and names a service and method of this
\* object runs the service at least once and, however packets are redirected, at
\* most once more, if worker 0 did not receive it; any other request is never run.
ServedPerReception ==
  \A r \in Requests :
    LET abroad == {i \in 1 .. Len(received[r]) : received[r][i] # 0}
    IN IF r \in Servable
         THEN /\ Len(received[r]) <= Len(served[r])
              /\ Len(served[r]) <= Len(received[r]) + Cardinality(abroad)
         ELSE served[r] = << >>

\* "dispatch incoming rpc within receiving worker-thread": each reception runs
\* the service once, in the worker that received the packet.
ServedWhereReceived == \A r \in Servable : served[r] = received[r]

\* An issued call ends: its done runs, or CallMethod refuses it.
RoutedCallEnds ==
  \A c \in Calls :
    caller[c] # "idle" /\ RouteOf[c] # "oversize" ~>
      outcome[c] # << >> \/ returned[c] = "kInError"

\* "wait for done if sync call": a synchronous caller gets to return.
SyncCallReturns ==
  \A c \in Calls : caller[c] = "waiting" ~> caller[c] = "returned"

\* The same for the calls whose endpoint list AddSession takes.
RoutedSyncCallReturns ==
  \A c \in Calls :
    caller[c] = "waiting" /\ RouteOf[c] # "oversize" ~> caller[c] = "returned"

-----------------------------------------------------------------------------
(* What the properties rest on: an inductive invariant.                       *)

CallTask(c) == [kind |-> "call", of |-> c]

\* One task carries a call to the worker that opens it, ...
CarriedOnce(c) ==
  \A w, v \in Workers :
    \A m \in 1 .. Len(queue[w]), n \in 1 .. Len(queue[v]) :
      queue[w][m] = CallTask(c) /\ queue[v][n] = CallTask(c) => w = v /\ m = n
OneTask == \A c \in Calls : CarriedOnce(c)

\* ... and a call is not issued, carried, open in its owner's table, or over.
InOnePlace(c) ==
  /\ caller[c] = "idle" => owner[c] = NoWorker /\ outcome[c] = << >>
  /\ \A w \in Workers :
       /\ Queued(w, "call", c) =>
            caller[c] # "idle" /\ owner[c] = NoWorker /\ outcome[c] = << >>
       /\ c \in open[w] => owner[c] = w /\ outcome[c] = << >>
OnePlace == \A c \in Calls : InOnePlace(c)

\* Nor is it nowhere: from CallMethod until its done runs, a call is on its way
\* to a worker or open in one, where a timer will end it. What CallMethod refuses
\* in a worker and lists too long for AddSession never get there.
Refused(c) == c \in SyncCalls /\ CallerOf[c] = InWorker
Underway(c) == \E w \in Workers : Queued(w, "call", c) \/ c \in open[w]
Kept(c) == caller[c] # "idle" /\ outcome[c] = << >> =>
             Refused(c) \/ RouteOf[c] = "oversize" \/ Underway(c)
NoCallLost == \A c \in Calls : Kept(c)

\* No worker's table holds more calls than its pool has nodes, so RpcCore::CallMethod
\* never finds it in a state that is neither full nor has room.
TablesHold ==
  \A w \in Workers : IsFiniteSet(open[w]) /\ Cardinality(open[w]) <= SessionLimit

\* What the network was given of a call and what it reported. Without a session
\* there is neither.
Reported(c) ==
  /\ failures[c] <= tries[c]
  /\ c \in inflight => failures[c] < tries[c]
  /\ owner[c] = NoWorker => tries[c] = 0 /\ heard[c] = 0
SendsReported == \A c \in Calls : Reported(c)

\* A thread waits for one call, with the result its done stored.
OneWait ==
  /\ \A c \in Calls : caller[c] = "waiting" =>
       /\ Synchronous(c)
       /\ outcome[c] # << >> =>
            outcome[c] = <<rpc_result[c]>> /\ evfd[CallerOf[c]] = 1
  /\ \A c, d \in Calls :
       caller[c] = "waiting" /\ caller[d] = "waiting" /\ CallerOf[c] = CallerOf[d]
         => c = d

RequestTask(r) == [kind |-> "request", of |-> r]
Waiting(r) == {n \in 1 .. Len(queue[0]) : queue[0][n] = RequestTask(r)}
Abroad(r) == {n \in 1 .. Len(received[r]) : received[r][n] # 0}

\* Requests are posted to worker 0 only, and each that is came from another one.
OnlyToFirst ==
  /\ \A w \in Workers \ {0} : \A r \in Requests : ~Queued(w, "request", r)
  /\ \A r \in Requests :
       /\ IF r \in Servable THEN Len(received[r]) <= Len(served[r]) ELSE served[r] = << >>
       /\ Len(served[r]) + Cardinality(Waiting(r)) <=
            Len(received[r]) + Cardinality(Abroad(r))

\* At every moment a call is idle, in one task, open in its owner's table or over,
\* and in no second place; its synchronous caller knows of that outcome only, and
\* each packet is where OnRecvPacket put it.
IInv == /\ TypeOK
        /\ DoneAtMostOnce /\ OneTask /\ OnePlace /\ NoCallLost /\ TablesHold
        /\ SendsReported /\ EventsReachOwner
        /\ OneWait /\ SyncReturnsOutcome /\ NotifiedForThisCall
        /\ OnlyToFirst
=============================================================================
