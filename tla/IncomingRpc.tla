---------------------------- MODULE IncomingRpc ----------------------------
(* An incoming RPC, from the packet a worker receives to the response         *)
(* (rpc_core.cc, rpc_context.cc): the context and its messages live on the    *)
(* heap until the service's done closure has sent the response. The service   *)
(* may run done in the worker, or hand it to any other thread.                *)
EXTENDS RpcPacket, Sequences, FiniteSets

CONSTANTS
  Workers,      \* the worker threads
  AppThreads,   \* threads services hand their closures to
  Requests,     \* the requests clients send
  HeaderLen,    \* HeaderLen[r], BodyLen[r]: sizes of r's header and body
  BodyLen,
  BodyParses,   \* the requests whose body parses as their method's input
  Called,       \* Called[r]: the [service, method] names in r's header
  Registered,   \* the service objects given to InitAsServer, in order
  NameOf,       \* NameOf[s]: s's service name, without its package
  Methods,      \* Methods[s]: the methods its descriptor declares
  Overridden,   \* Overridden[s]: those the application implements
  ArenaEnabled, \* services whose messages have cc_enable_arenas
  ServiceResults, \* what an implementation may pass to done
  NoService,
  MaxRuns       \* bound: contexts created

Threads == Workers \cup AppThreads

ASSUME ThreadsAssumption == Workers \cap AppThreads = {}
ASSUME BoundAssumption == MaxRuns \in Nat
ASSUME ServicesAssumption == \A i \in DOMAIN Registered :
  /\ Registered[i] # NoService
  /\ Overridden[Registered[i]] \subseteq Methods[Registered[i]]
ASSUME LengthAssumption == /\ HeaderLen \in [Requests -> Nat]
                           /\ BodyLen \in [Requests -> Nat]

VARIABLES
  received,   \* the requests some worker has received whole
  runs,       \* runs[k]: the k-th reception that created a context
  heap,       \* the objects allocated and not deleted
  pending,    \* runs whose service holds a done closure it has not run
  header,     \* header[t]: the thread_local response header of thread t
  answering,  \* answering[t]: the run whose done closure thread t is in, or 0
  sent        \* sent[k]: the responses that carry the body of run k

vars == <<received, runs, heap, pending, header, answering, sent>>

Runs == 1 .. MaxRuns
Services == {Registered[i] : i \in DOMAIN Registered}
ASSUME RegisteredAssumption == Registered \in Seq(Services)
Results == ServiceResults \cup {"kNotImpl"}
Objects == {"context", "request", "response"}
Run == [of : Requests, service : Services, by : Workers, cut : Nat \X Nat]
Header == [run : {0} \cup Runs, result : Results]

TypeOK ==
  /\ received \subseteq Requests
  /\ runs \in Seq(Run)
  /\ Len(runs) <= MaxRuns
  /\ heap \subseteq Objects \X (1 .. Len(runs))
  /\ pending \subseteq 1 .. Len(runs)
  /\ header \in [Threads -> Header]
  /\ answering \in [Threads -> 0 .. Len(runs)]
  /\ sent \in [Runs -> SUBSET Header]

-----------------------------------------------------------------------------
(* Operators named ...Slip are plausible slips of the definition after them.  *)

\* InitAsServer fills service_map_ in order: a later service of the same name
\* takes the place of an earlier one. OnFindService looks the name up.
FindService(name) ==
  LET named == {i \in DOMAIN Registered : NameOf[Registered[i]] = name}
  IN IF named = {} THEN NoService
     ELSE Registered[CHOOSE i \in named : \A j \in named : j <= i]

Declares(service, method) == service # NoService /\ method \in Methods[service]

\* IncomingRpcContext::Init, or its override in ArenaIncomingRpcContext.
New(k) == {<<object, k>> : object \in Objects}

\* "delete ctx" forgotten.
DeleteSlip(h, k) == h

\* delete ctx: messages allocated in the context's arena go with it, the
\* others are not deleted by ~IncomingRpcContext.
Delete(h, k) ==
  h \ IF runs[k].service \in ArenaEnabled THEN New(k) ELSE {<<"context", k>>}

\* The base class answers kNotImpl inside CallMethod, before the worker goes on.
AnswersAtOnce(k) == Called[runs[k].of].method \notin Overridden[runs[k].service]

Busy(t) ==
  \/ answering[t] # 0
  \/ \E k \in pending : runs[k].by = t /\ AnswersAtOnce(k)

-----------------------------------------------------------------------------
Init ==
  /\ received = {}
  /\ runs = << >>
  /\ heap = {}
  /\ pending = {}
  /\ header = [t \in Threads |-> [run |-> 0, result |-> "kNotImpl"]]
  /\ answering = [t \in Threads |-> 0]
  /\ sent = [k \in Runs |-> {}]

\* OnRecvPacket and OnRecvRequestMessage, up to the service's CallMethod. A
\* name that is not found, or a body that does not parse, ends it there.
OnRecvRequestMessage(w, r, p) ==
  LET service == FindService(Called[r].service)
      k == Len(runs) + 1
  IN IF Declares(service, Called[r].method)
       THEN /\ k \in Runs
            /\ runs' = Append(runs, [of |-> r, service |-> service,
                                     by |-> w, cut |-> Cut(p)])
            /\ heap' = heap \cup New(k)
            /\ pending' = IF r \in BodyParses THEN pending \cup {k} ELSE pending
       ELSE UNCHANGED <<runs, heap, pending>>

OnRecvPacket(w, r) ==
  LET p == SendMessage(HeaderLen[r], BodyLen[r])
  IN /\ ~Busy(w)
     /\ Accepts(p)
     /\ OnRecvRequestMessage(w, r, p)
     /\ received' = received \cup {r}
     /\ UNCHANGED <<header, answering, sent>>

\* The response header static, but shared by all threads.
FillHeaderSlip(t, k, result) ==
  header' = [u \in Threads |-> [run |-> k, result |-> result]]

\* OnIncomingRpcDone sets every field of its thread's header from ctx.
FillHeader(t, k, result) ==
  header' = [header EXCEPT ![t] = [run |-> k, result |-> result]]

\* "delete ctx" before the response is sent.
OnIncomingRpcDoneSlip(t, k) ==
  /\ k \in pending /\ answering[t] = 0
  /\ IF AnswersAtOnce(k)
       THEN t = runs[k].by /\ FillHeader(t, k, "kNotImpl")
       ELSE ~Busy(t) /\ \E result \in ServiceResults : FillHeader(t, k, result)
  /\ pending' = pending \ {k}
  /\ answering' = [answering EXCEPT ![t] = k]
  /\ heap' = Delete(heap, k)
  /\ UNCHANGED <<received, runs, sent>>

\* A done closure runs in thread t: OnIncomingRpcDone fills the header.
OnIncomingRpcDone(t, k) ==
  /\ k \in pending /\ answering[t] = 0
  /\ IF AnswersAtOnce(k)
       THEN t = runs[k].by /\ FillHeader(t, k, "kNotImpl")
       ELSE ~Busy(t) /\ \E result \in ServiceResults : FillHeader(t, k, result)
  /\ pending' = pending \ {k}
  /\ answering' = [answering EXCEPT ![t] = k]
  /\ UNCHANGED <<received, runs, heap, sent>>

\* It sends header and response together, then deletes the context.
SendResponse(t) ==
  LET k == answering[t]
  IN /\ k # 0
     /\ sent' = [sent EXCEPT ![k] = @ \cup {header[t]}]
     /\ heap' = Delete(heap, k)
     /\ answering' = [answering EXCEPT ![t] = 0]
     /\ UNCHANGED <<received, runs, pending, header>>

Next ==
  \/ \E w \in Workers, r \in Requests : OnRecvPacket(w, r)
  \/ \E t \in Threads, k \in 1 .. Len(runs) : OnIncomingRpcDone(t, k)
  \/ \E t \in Threads : SendResponse(t)

Spec == Init /\ [][Next]_vars

-----------------------------------------------------------------------------
(* Properties *)

Answering(k) == \E t \in Threads : answering[t] = k

\* However threads interleave in OnIncomingRpcDone, a response goes out with
\* the id and result of the request its body answers, and goes out once.
AnswersMatch ==
  \A k \in Runs : /\ \A head \in sent[k] : head.run = k
                  /\ Cardinality(sent[k]) <= 1
                  /\ sent[k] # {} => k \notin pending /\ ~Answering(k)

\* While a service may still use its request and response, or a thread sends
\* them, the context and both messages are allocated.
NoUseAfterDelete ==
  \A k \in 1 .. Len(runs) : k \in pending \/ Answering(k) => New(k) \subseteq heap

\* What stays allocated is accounted for: calls in progress, contexts of
\* requests that did not parse, and the messages no arena owns.
Accounted(object, k) ==
  \/ k \in pending \/ Answering(k)
  \/ runs[k].of \notin BodyParses
  \/ runs[k].service \notin ArenaEnabled /\ object # "context"
MemoryAccounted == \A o \in heap : Accounted(o[1], o[2])

\* A message OnRecvPacket accepts is cut where SendMessage put its header's
\* end, also when a length did not fit its field.
AcceptedAsSent ==
  \A k \in 1 .. Len(runs) :
    runs[k].cut = <<HeaderLen[runs[k].of], BodyLen[runs[k].of]>>

\* A context or a message is deleted by no step but the one that sends its own
\* response, and what was answered is not answered, allocated or given to a
\* service again.
DeletedWhenAnswered ==
  [][\A k \in Runs :
       /\ ~ New(k) \cap heap \subseteq heap' =>
            Answering(k) /\ sent[k] = {} /\ sent'[k] # {}
       /\ sent[k] # {} =>
            sent'[k] = sent[k] /\ New(k) \cap heap' \subseteq heap /\ k \notin pending']_vars

-----------------------------------------------------------------------------
(* The inductive invariant behind these properties.                           *)

\* A closure runs in one thread, and the header it filled stays until sent.
OneThreadAnswers ==
  \A t, u \in Threads : answering[t] # 0 /\ answering[t] = answering[u] => t = u

AnswererHoldsHeader ==
  \A t \in Threads : answering[t] # 0 => /\ header[t].run = answering[t]
                                        /\ answering[t] \notin pending

\* Nothing was sent for a run that has yet to be answered.
SentAfterAnswer ==
  \A k \in Runs : k \in pending \/ Answering(k) \/ k > Len(runs) => sent[k] = {}

SentOnce ==
  \A k \in Runs : sent[k] = {} \/ \E head \in Header : sent[k] = {head} /\ head.run = k

\* The last service registered under the called name serves the call, and only if
\* it declares the method: a request that names neither gets no context and so no
\* answer, and a service that was replaced gets no more calls.
ServesAsCalled ==
  \A k \in 1 .. Len(runs) :
    LET called == Called[runs[k].of]
        named == {i \in DOMAIN Registered : NameOf[Registered[i]] = called.service}
    IN /\ called.method \in Methods[runs[k].service]
       /\ \E i \in named : /\ Registered[i] = runs[k].service
                          /\ \A j \in named : j <= i

\* A method the service leaves to its base class is answered kNotImpl and with
\* nothing else, whatever results other threads put in their headers meanwhile.
BaseAnswersNotImpl ==
  \A k \in 1 .. Len(runs) : AnswersAtOnce(k) =>
    /\ \A t \in Threads : answering[t] = k => header[t].result = "kNotImpl"
    /\ \A head \in sent[k] : head.result = "kNotImpl"

\* Whatever OnRecvPacket and OnIncomingRpcDone have done so far, each context is
\* with its service, with one thread that answers, or given up as accounted.
IInv ==
  /\ TypeOK
  /\ OneThreadAnswers
  /\ AnswererHoldsHeader
  /\ SentAfterAnswer
  /\ SentOnce
  /\ NoUseAfterDelete
  /\ MemoryAccounted
  /\ AcceptedAsSent
  /\ ServesAsCalled
  /\ BaseAnswersNotImpl
=============================================================================
