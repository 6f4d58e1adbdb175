-------------------------- MODULE GeneratedService --------------------------
(* The code the protoc plugin generates for the services of one .proto file   *)
(* (cpp_file.cc, cpp_service.cc), as a client and a server built from         *)
(* versions of the file that may order or miss methods run it: descriptors    *)
(* assigned once per process while threads race for them, stubs that name a   *)
(* method by its index, and the server's switch on the index of its own file. *)
EXTENDS Integers, Sequences, FiniteSets

CONSTANTS
  Clients, Servers,  \* the threads of the client and of the server process
  ServiceCount,      \* file_->service_count()
  ClientFile,        \* ClientFile[i]: the method names of service i in the
  ServerFile,        \* client's, and in the server's, version of the file
  Overridden,        \* Overridden[i]: methods the server's application has
  NoThread,
  MaxRequests        \* bound: requests on the wire

Threads == Clients \cup Servers
Processes == {"client", "server"}
ProcessOf(t) == IF t \in Clients THEN "client" ELSE "server"
Services == 1 .. ServiceCount

ASSUME ThreadAssumption == Clients \cap Servers = {} /\ NoThread \notin Threads
ASSUME FileAssumption == /\ ServiceCount \in Nat \ {0} /\ MaxRequests \in Nat
                         /\ DOMAIN ClientFile = Services
                         /\ DOMAIN ServerFile = Services

VARIABLES
  once,      \* once[p]: who is inside p's GoogleOnceInit, and whether it ended
  assigned,  \* assigned[p]: how many of p's descriptors are not NULL any more
  at,        \* where each thread stands
  work,      \* work[t]: what t does once it has the descriptor
  wire,      \* the requests the stubs have sent
  ran        \* what the server's CallMethod did with them

vars == <<once, assigned, at, work, wire, ran>>

Request == UNION {[service : {i}, index : DOMAIN ClientFile[i],
                   method : {ClientFile[i][k] : k \in DOMAIN ClientFile[i]}]
                    : i \in Services}
NoWork == [service |-> 0, index |-> 0, method |-> ""]

TypeOK ==
  /\ once \in [Processes -> [by : Threads \cup {NoThread}, done : BOOLEAN]]
  /\ assigned \in [Processes -> 0 .. ServiceCount]
  /\ at \in [Threads -> {"idle", "once", "descriptor"}]
  /\ work \in [Threads -> Request \cup {NoWork}]
  /\ wire \subseteq Request
  /\ \A e \in ran : e.request \in wire

-----------------------------------------------------------------------------
\* InitAsServer has called GetDescriptor for each service it registered.
Init ==
  /\ once = [p \in Processes |-> [by |-> NoThread, done |-> p = "server"]]
  /\ assigned = [p \in Processes |-> IF p = "server" THEN ServiceCount ELSE 0]
  /\ at = [t \in Threads |-> "idle"]
  /\ work = [t \in Threads |-> NoWork]
  /\ wire = {}
  /\ ran = {}

\* descriptor() and GetDescriptor() begin with AssignDescriptorsOnce.
GetDescriptor(t, request) ==
  /\ at[t] = "idle"
  /\ at' = [at EXCEPT ![t] = "once"]
  /\ work' = [work EXCEPT ![t] = request]
  /\ UNCHANGED <<once, assigned, wire, ran>>

\* A stub method: its index in the client's file is all it holds.
StubMethod(t, i, k) ==
  /\ Cardinality(wire) < MaxRequests
  /\ GetDescriptor(t, [service |-> i, index |-> k, method |-> ClientFile[i][k]])

\* The server receives a request, at once, late or again.
RecvRequest(t, request) == GetDescriptor(t, request)

EnterOnce(t) ==
  LET p == ProcessOf(t)
  IN /\ at[t] = "once"
     /\ once[p].by = NoThread /\ ~once[p].done
     /\ once' = [once EXCEPT ![p].by = t]
     /\ UNCHANGED <<assigned, at, work, wire, ran>>

\* One assignment too many.
AssignDescriptorSlip(t) ==
  LET p == ProcessOf(t)
  IN /\ once[p].by = t /\ assigned[p] <= ServiceCount
     /\ assigned' = [assigned EXCEPT ![p] = @ + 1]
     /\ UNCHANGED <<once, at, work, wire, ran>>

\* The next of the generated "..._descriptor_ = file->service(index)".
AssignDescriptor(t) ==
  LET p == ProcessOf(t)
  IN /\ once[p].by = t /\ assigned[p] < ServiceCount
     /\ assigned' = [assigned EXCEPT ![p] = @ + 1]
     /\ UNCHANGED <<once, at, work, wire, ran>>

\* The first thread's way out not recorded.
LeaveOnceSlip(t) ==
  LET p == ProcessOf(t)
  IN /\ at[t] = "once" /\ once[p].by = t /\ assigned[p] = ServiceCount
     /\ at' = [at EXCEPT ![t] = "descriptor"]
     /\ UNCHANGED <<once, assigned, work, wire, ran>>

LeaveOnce(t) ==
  LET p == ProcessOf(t)
  IN /\ at[t] = "once" /\ once[p].by = t /\ assigned[p] = ServiceCount
     /\ once' = [once EXCEPT ![p] = [by |-> NoThread, done |-> TRUE]]
     /\ at' = [at EXCEPT ![t] = "descriptor"]
     /\ UNCHANGED <<assigned, work, wire, ran>>

\* A flag for the once object: it is set while the descriptors are assigned.
OnceIsOverSlip(t) ==
  once[ProcessOf(t)].by \notin {t, NoThread} \/ once[ProcessOf(t)].done

\* The other threads wait until the first is done.
OnceIsOver(t) == once[ProcessOf(t)].done

PassOnce(t) ==
  /\ at[t] = "once" /\ OnceIsOver(t)
  /\ at' = [at EXCEPT ![t] = "descriptor"]
  /\ UNCHANGED <<once, assigned, work, wire, ran>>

\* descriptor()->method(index), whose names go into the request's header.
SendRequest(t) ==
  /\ t \in Clients /\ at[t] = "descriptor"
  /\ wire' = wire \cup {work[t]}
  /\ at' = [at EXCEPT ![t] = "idle"]
  /\ work' = [work EXCEPT ![t] = NoWork]
  /\ UNCHANGED <<once, assigned, ran>>

\* The client's index taken for the server's.
FindMethodByNameSlip(request) ==
  {k \in DOMAIN ServerFile[request.service] : k = request.index}

\* FindMethodByName in the server's descriptor: no method, or one index.
FindMethodByName(request) ==
  {k \in DOMAIN ServerFile[request.service] :
     ServerFile[request.service][k] = request.method}

\* The generated CallMethod: case k runs the k-th method of the file, in the
\* application's class or in the generated base class.
CallMethod(t) ==
  LET request == work[t]
      service == request.service
      executed == {[request |-> request, method |-> ServerFile[service][k],
                    result |-> IF ServerFile[service][k] \in Overridden[service]
                                 THEN "served" ELSE "kNotImpl"]
                     : k \in FindMethodByName(request)}
  IN /\ t \in Servers /\ at[t] = "descriptor"
     /\ ran' = ran \cup executed
     /\ at' = [at EXCEPT ![t] = "idle"]
     /\ work' = [work EXCEPT ![t] = NoWork]
     /\ UNCHANGED <<once, assigned, wire>>

InOnce(t) ==
  EnterOnce(t) \/ AssignDescriptor(t) \/ LeaveOnce(t) \/ PassOnce(t)

Next ==
  \/ \E t \in Clients, i \in Services :
       \E k \in DOMAIN ClientFile[i] : StubMethod(t, i, k)
  \/ \E t \in Servers : \E request \in wire : RecvRequest(t, request)
  \/ \E t \in Threads : InOnce(t) \/ SendRequest(t) \/ CallMethod(t)

Spec == Init /\ [][Next]_vars

\* A thread inside GoogleOnceInit runs on.
FairSpec == Spec /\ \A t \in Threads : WF_vars(InOnce(t))

-----------------------------------------------------------------------------
(* Properties *)

\* No thread goes on with a descriptor another thread has not assigned yet: the
\* check of method->service() in CallMethod and GetRequestPrototype would fail,
\* and descriptor()->method() would read through NULL.
DescriptorsReady ==
  \A t \in Threads : at[t] = "descriptor" =>
    assigned[ProcessOf(t)] >= work[t].service

\* The method the server runs has the name of the one the client's stub was
\* called for, whatever its index in either file, and kNotImpl comes only from
\* a method the application has not overridden.
RunsNamedMethod ==
  \A e \in ran : LET stub == ClientFile[e.request.service][e.request.index]
                 IN /\ e.method = stub
                    /\ e.result = "kNotImpl" <=> stub \notin Overridden[e.request.service]

\* A thread that asks for a descriptor gets it: no one is left in the once.
DescriptorObtained == \A t \in Threads : at[t] = "once" ~> at[t] = "descriptor"

-----------------------------------------------------------------------------
(* The inductive invariant behind the first two.                              *)

\* A request carries the name of the method whose stub made it.
NamesItsStub(request) ==
  request \in Request /\ request.method = ClientFile[request.service][request.index]
RequestsNameStubs ==
  /\ \A request \in wire : NamesItsStub(request)
  /\ \A t \in Threads : at[t] # "idle" => NamesItsStub(work[t])
  /\ \A t \in Servers : at[t] # "idle" => work[t] \in wire

\* The once is over when all descriptors are assigned, and nobody has one
\* before that.
OnceAssignsAll ==
  /\ \A p \in Processes : once[p].done => assigned[p] = ServiceCount
  /\ \A t \in Threads : at[t] = "descriptor" => once[ProcessOf(t)].done

\* Who holds the once is in it, in its own process, and will leave it: the threads
\* behind it wait for a step that can be taken.
OnceHeld ==
  \A p \in Processes : LET t == once[p].by
                      IN t # NoThread => /\ ~ once[p].done
                                         /\ ProcessOf(t) = p /\ at[t] = "once"

\* Descriptors are assigned once and for all, and a request keeps the name its
\* stub put into it until the server's switch has run that method.
IInv ==
  /\ TypeOK
  /\ RequestsNameStubs
  /\ OnceAssignsAll
  /\ OnceHeld
  /\ RunsNamedMethod
=============================================================================
