----------------------- MODULE GeneratedServiceProofs -----------------------
(* What holds of the generated code for every set of threads and every two    *)
(* versions of the .proto file.                                               *)
EXTENDS GeneratedService, TLAPS

\* A thread belongs to one of the two processes.
LEMMA ProcessIsOne == ASSUME NEW t \in Threads PROVE ProcessOf(t) \in Processes
BY DEF ProcessOf, Processes

\* Every request is of a service of the file.
LEMMA RequestHasService ==
  ASSUME NEW request \in Request
  PROVE  request.service \in 1 .. ServiceCount
BY DEF Request, Services

\* Before any thread runs.
LEMMA InitInv == Init => IInv
<1> SUFFICES ASSUME Init PROVE IInv
  OBVIOUS
<1>1. TypeOK
  BY FileAssumption DEF Init, TypeOK
<1>2. RequestsNameStubs /\ RunsNamedMethod
  BY DEF Init, RequestsNameStubs, RunsNamedMethod, Threads
<1>3. OnceAssignsAll
  BY DEF Init, OnceAssignsAll
<1>4. OnceHeld
  BY DEF Init, OnceHeld
<1> QED BY <1>1, <1>2, <1>3, <1>4 DEF IInv

\* Steps of a thread that is not in the once leave who holds it alone.
LEMMA HeldByOthers ==
  ASSUME IInv, NEW t \in Threads, at[t] # "once" \/ once[ProcessOf(t)].done,
         once' = once, \A u \in Threads \ {t} : at'[u] = at[u]
  PROVE  OnceHeld'
<1> SUFFICES ASSUME NEW p \in Processes, once[p].by # NoThread
             PROVE  /\ ~ once[p].done
                    /\ ProcessOf(once[p].by) = p /\ at'[once[p].by] = "once"
  BY DEF OnceHeld
<1>1. /\ ~ once[p].done /\ ProcessOf(once[p].by) = p /\ at[once[p].by] = "once"
      /\ once[p].by \in Threads
  BY DEF IInv, TypeOK, OnceHeld
<1>2. once[p].by # t
  BY <1>1
<1> QED BY <1>1, <1>2

\* A thread asks for a descriptor, to send a request or to run one.
LEMMA GetDescriptorStep ==
  ASSUME IInv, NEW t \in Threads, NEW request, GetDescriptor(t, request),
         NamesItsStub(request), t \in Servers => request \in wire
  PROVE  IInv'
<1>1. /\ at' = [at EXCEPT ![t] = "once"] /\ work' = [work EXCEPT ![t] = request]
      /\ UNCHANGED <<once, assigned, wire, ran>>
  BY DEF GetDescriptor
<1>2. /\ at'[t] = "once" /\ work'[t] = request
      /\ \A u \in Threads \ {t} : at'[u] = at[u] /\ work'[u] = work[u]
  BY <1>1 DEF IInv, TypeOK
<1>3. TypeOK'
  BY <1>1 DEF IInv, TypeOK, NamesItsStub
<1>4. RequestsNameStubs'
  BY <1>1, <1>2 DEF IInv, RequestsNameStubs, NamesItsStub, Threads
<1>5. OnceAssignsAll'
  BY <1>1, <1>2 DEF IInv, OnceAssignsAll
<1>6. RunsNamedMethod'
  BY <1>1 DEF IInv, RunsNamedMethod
<1>7. OnceHeld'
  BY <1>1, <1>2, HeldByOthers DEF GetDescriptor
<1> QED BY <1>3, <1>4, <1>5, <1>6, <1>7 DEF IInv

\* The steps inside GoogleOnceInit.
LEMMA InOnceStep == ASSUME IInv, NEW t \in Threads, InOnce(t) PROVE IInv'
<1> DEFINE p == ProcessOf(t)
<1>1. p \in Processes
  BY ProcessIsOne
<1>2. /\ once \in [Processes -> [by : Threads \cup {NoThread}, done : BOOLEAN]]
      /\ assigned \in [Processes -> 0 .. ServiceCount]
      /\ at \in [Threads -> {"idle", "once", "descriptor"}]
  BY DEF IInv, TypeOK
<1>3. UNCHANGED <<work, wire, ran>>
  BY DEF InOnce, EnterOnce, AssignDescriptor, LeaveOnce, PassOnce
<1>4. /\ at' = at \/ (at[t] = "once" /\ at' = [at EXCEPT ![t] = "descriptor"])
  BY DEF InOnce, EnterOnce, AssignDescriptor, LeaveOnce, PassOnce
<1>5. RequestsNameStubs' /\ RunsNamedMethod'
  <2>1. \A u \in Threads : at'[u] # "idle" => at[u] # "idle"
    BY <1>2, <1>4
  <2> QED BY <1>3, <2>1 DEF IInv, RequestsNameStubs, NamesItsStub, RunsNamedMethod, Threads
<1>6. CASE EnterOnce(t)
  <2>1. /\ once' = [once EXCEPT ![p].by = t] /\ assigned' = assigned /\ at' = at
    BY <1>6 DEF EnterOnce
  <2> HIDE DEF p
  <2>2. \A q \in Processes : once'[q].done = once[q].done
    BY <1>1, <1>2, <2>1
  <2>3. TypeOK'
    BY <1>1, <1>2, <1>3, <2>1 DEF IInv, TypeOK
  <2>4. OnceAssignsAll'
    BY <2>1, <2>2, ProcessIsOne DEF IInv, OnceAssignsAll
  <2>5. OnceHeld'
    <3>1. /\ ~ once[p].done /\ at[t] = "once" /\ p = ProcessOf(t)
      BY <1>6 DEF EnterOnce, p
    <3>2. /\ once'[p].by = t /\ ~ once'[p].done
          /\ \A q \in Processes \ {p} : once'[q] = once[q]
      BY <1>1, <1>2, <2>1, <3>1
    <3> QED BY <2>1, <3>1, <3>2 DEF IInv, OnceHeld
  <2> QED BY <1>5, <2>3, <2>4, <2>5 DEF IInv
<1>7. CASE AssignDescriptor(t)
  <2>1. /\ assigned[p] < ServiceCount /\ assigned' = [assigned EXCEPT ![p] = @ + 1]
        /\ once' = once /\ at' = at
    BY <1>7 DEF AssignDescriptor
  <2> HIDE DEF p
  <2>2. assigned' \in [Processes -> 0 .. ServiceCount]
    BY <1>1, <1>2, <2>1, FileAssumption
  <2>3. TypeOK'
    BY <1>3, <2>1, <2>2 DEF IInv, TypeOK
  <2>4. OnceAssignsAll'
    <3>1. ~ once[p].done
      BY <1>1, <1>2, <2>1, FileAssumption DEF IInv, OnceAssignsAll
    <3>2. \A q \in Processes \ {p} : assigned'[q] = assigned[q]
      BY <1>2, <2>1
    <3> QED BY <2>1, <3>1, <3>2 DEF IInv, OnceAssignsAll
  <2>5. OnceHeld'
    BY <2>1 DEF IInv, OnceHeld
  <2> QED BY <1>5, <2>3, <2>4, <2>5 DEF IInv
<1>8. CASE LeaveOnce(t)
  <2>1. /\ assigned[p] = ServiceCount /\ assigned' = assigned
        /\ once' = [once EXCEPT ![p] = [by |-> NoThread, done |-> TRUE]]
        /\ at' = [at EXCEPT ![t] = "descriptor"]
    BY <1>8 DEF LeaveOnce
  <2>2. p = ProcessOf(t)
    OBVIOUS
  <2> HIDE DEF p
  <2>3. once'[p].done /\ \A q \in Processes \ {p} : once'[q] = once[q]
    BY <1>1, <1>2, <2>1
  <2>4. TypeOK'
    BY <1>1, <1>2, <1>3, <2>1 DEF IInv, TypeOK
  <2>5. OnceAssignsAll'
    BY <1>2, <2>1, <2>2, <2>3, ProcessIsOne DEF IInv, OnceAssignsAll
  <2>6. OnceHeld'
    <3>1. once'[p].by = NoThread
      BY <1>1, <1>2, <2>1
    <3>2. \A u \in Threads \ {t} : at'[u] = at[u]
      BY <1>2, <2>1
    <3>3. \A q \in Processes \ {p} : once[q].by # NoThread => once[q].by \in Threads \ {t}
      BY <1>2, <2>2 DEF IInv, OnceHeld
    <3> QED BY <2>3, <3>1, <3>2, <3>3 DEF IInv, OnceHeld
  <2> QED BY <1>5, <2>4, <2>5, <2>6 DEF IInv
<1>9. CASE PassOnce(t)
  <2>1. /\ once[p].done /\ once' = once /\ assigned' = assigned
        /\ at' = [at EXCEPT ![t] = "descriptor"]
    BY <1>9 DEF PassOnce, OnceIsOver
  <2>2. TypeOK'
    BY <1>2, <1>3, <2>1 DEF IInv, TypeOK
  <2>3. OnceAssignsAll'
    BY <1>2, <2>1 DEF IInv, OnceAssignsAll
  <2>4. OnceHeld'
    <3>1. \A u \in Threads \ {t} : at'[u] = at[u]
      BY <1>2, <2>1
    <3> QED BY <2>1, <3>1, HeldByOthers
  <2> QED BY <1>5, <2>2, <2>3, <2>4 DEF IInv
<1> QED BY <1>6, <1>7, <1>8, <1>9 DEF InOnce

\* The stub's request goes out.
LEMMA SendRequestStep ==
  ASSUME IInv, NEW t \in Threads, SendRequest(t) PROVE IInv'
<1>1. /\ t \in Clients /\ at[t] = "descriptor" /\ wire' = wire \cup {work[t]}
      /\ at' = [at EXCEPT ![t] = "idle"] /\ work' = [work EXCEPT ![t] = NoWork]
      /\ UNCHANGED <<once, assigned, ran>>
  BY DEF SendRequest
<1>2. /\ at'[t] = "idle"
      /\ \A u \in Threads \ {t} : at'[u] = at[u] /\ work'[u] = work[u]
  BY <1>1 DEF IInv, TypeOK
<1>3. NamesItsStub(work[t])
  BY <1>1 DEF IInv, RequestsNameStubs
<1>4. TypeOK'
  BY <1>1, <1>3 DEF IInv, TypeOK, NamesItsStub
<1>5. RequestsNameStubs'
  BY <1>1, <1>2, <1>3 DEF IInv, RequestsNameStubs, NamesItsStub, Threads
<1>6. OnceAssignsAll'
  BY <1>1, <1>2 DEF IInv, OnceAssignsAll
<1>7. RunsNamedMethod'
  BY <1>1 DEF IInv, RunsNamedMethod
<1>8. OnceHeld'
  BY <1>1, <1>2, HeldByOthers
<1> QED BY <1>4, <1>5, <1>6, <1>7, <1>8 DEF IInv

\* The server runs the request's method, if its file has one of that name.
LEMMA CallMethodStep ==
  ASSUME IInv, NEW t \in Threads, CallMethod(t) PROVE IInv'
<1> DEFINE request == work[t]
           service == request.service
<1>1. /\ t \in Servers /\ at[t] = "descriptor"
      /\ at' = [at EXCEPT ![t] = "idle"] /\ work' = [work EXCEPT ![t] = NoWork]
      /\ UNCHANGED <<once, assigned, wire>>
  BY DEF CallMethod
<1>2. /\ at'[t] = "idle"
      /\ \A u \in Threads \ {t} : at'[u] = at[u] /\ work'[u] = work[u]
  BY <1>1 DEF IInv, TypeOK
<1>3. request \in wire /\ NamesItsStub(request)
  BY <1>1 DEF IInv, RequestsNameStubs
<1>4. ASSUME NEW e \in ran', e \notin ran
      PROVE  /\ e.request = request
             /\ e.method = request.method
             /\ e.result = "kNotImpl" <=> request.method \notin Overridden[service]
  <2>1. PICK k \in FindMethodByName(request) :
          e = [request |-> request, method |-> ServerFile[service][k],
               result |-> IF ServerFile[service][k] \in Overridden[service]
                            THEN "served" ELSE "kNotImpl"]
    BY <1>4 DEF CallMethod
  <2>2. ServerFile[service][k] = request.method
    BY DEF FindMethodByName
  <2> QED BY <2>1, <2>2
<1>5. TypeOK'
  BY <1>1, <1>3, <1>4 DEF IInv, TypeOK
<1>6. RequestsNameStubs'
  BY <1>1, <1>2 DEF IInv, RequestsNameStubs, NamesItsStub, Threads
<1>7. OnceAssignsAll'
  BY <1>1, <1>2 DEF IInv, OnceAssignsAll
<1>8. RunsNamedMethod'
  <2> SUFFICES ASSUME NEW e \in ran'
               PROVE  LET stub == ClientFile[e.request.service][e.request.index]
                      IN /\ e.method = stub
                         /\ e.result = "kNotImpl"
                              <=> stub \notin Overridden[e.request.service]
    BY DEF RunsNamedMethod
  <2>1. CASE e \in ran
    BY <2>1 DEF IInv, RunsNamedMethod
  <2>2. CASE e \notin ran
    BY <1>3, <1>4, <2>2 DEF NamesItsStub
  <2> QED BY <2>1, <2>2
<1>9. OnceHeld'
  BY <1>1, <1>2, HeldByOthers
<1> QED BY <1>5, <1>6, <1>7, <1>8, <1>9 DEF IInv

\* Every step of a client or a server keeps the invariant.
LEMMA StepInv == IInv /\ [Next]_vars => IInv'
<1> SUFFICES ASSUME IInv, [Next]_vars PROVE IInv'
  OBVIOUS
<1>1. ASSUME NEW t \in Clients, NEW i \in Services, NEW k \in DOMAIN ClientFile[i],
             StubMethod(t, i, k)
      PROVE  IInv'
  <2> DEFINE request == [service |-> i, index |-> k, method |-> ClientFile[i][k]]
  <2>1. NamesItsStub(request)
    BY DEF NamesItsStub, Request
  <2>2. GetDescriptor(t, request)
    BY <1>1 DEF StubMethod
  <2>3. t \in Threads /\ t \notin Servers
    BY ThreadAssumption DEF Threads
  <2> HIDE DEF request
  <2> QED BY <2>1, <2>2, <2>3, GetDescriptorStep
<1>2. ASSUME NEW t \in Servers, NEW request \in wire, RecvRequest(t, request)
      PROVE  IInv'
  <2>1. NamesItsStub(request) /\ t \in Threads
    BY DEF IInv, RequestsNameStubs, Threads
  <2> QED BY <1>2, <2>1, GetDescriptorStep DEF RecvRequest
<1>3. CASE UNCHANGED vars
  BY <1>3 DEF vars, IInv, TypeOK, RequestsNameStubs, NamesItsStub, OnceAssignsAll,
     OnceHeld, RunsNamedMethod
<1> QED BY <1>1, <1>2, <1>3, InOnceStep, SendRequestStep, CallMethodStep DEF Next

-----------------------------------------------------------------------------
\* The once objects, the threads' requests and the server's runs fit together.
THEOREM GeneratedConsistent == Spec => []IInv
BY InitInv, StepInv, PTL DEF Spec

\* However threads race for GoogleOnceInit, none goes on before the descriptor
\* it needs is assigned.
THEOREM DescriptorsAlwaysReady == Spec => []DescriptorsReady
<1>1. IInv => DescriptorsReady
  <2> SUFFICES ASSUME IInv, NEW t \in Threads, at[t] = "descriptor"
               PROVE  assigned[ProcessOf(t)] >= work[t].service
    BY DEF DescriptorsReady
  <2>1. assigned[ProcessOf(t)] = ServiceCount
    BY ProcessIsOne DEF IInv, OnceAssignsAll
  <2>2. work[t].service \in 1 .. ServiceCount
    BY RequestHasService DEF IInv, RequestsNameStubs, NamesItsStub
  <2> QED BY <2>1, <2>2, FileAssumption
<1> QED BY <1>1, GeneratedConsistent, PTL

\* While a thread is in the once, the guard of one of its process's steps holds:
\* the once is over or free, or its holder has a descriptor to assign or a way out.
SomeoneGoesOn ==
  \A t \in Threads : at[t] = "once" =>
    \E u \in Threads :
      LET p == ProcessOf(u)
      IN /\ p = ProcessOf(t) /\ at[u] = "once"
         /\ \/ once[p].done
            \/ once[p].by = NoThread
            \/ once[p].by = u /\ assigned[p] \in 0 .. ServiceCount

THEOREM NoneStuckInOnce == Spec => []SomeoneGoesOn
<1>1. IInv => SomeoneGoesOn
  <2> SUFFICES ASSUME IInv, NEW t \in Threads, at[t] = "once"
               PROVE  \E u \in Threads :
                        LET p == ProcessOf(u)
                        IN /\ p = ProcessOf(t) /\ at[u] = "once"
                           /\ \/ once[p].done
                              \/ once[p].by = NoThread
                              \/ once[p].by = u /\ assigned[p] \in 0 .. ServiceCount
    BY DEF SomeoneGoesOn
  <2> DEFINE q == ProcessOf(t)
  <2>1. q \in Processes
    BY ProcessIsOne
  <2>2. CASE once[q].done \/ once[q].by = NoThread
    BY <2>2
  <2>3. CASE once[q].by # NoThread
    <3>1. /\ once[q].by \in Threads /\ assigned[q] \in 0 .. ServiceCount
          /\ ProcessOf(once[q].by) = q /\ at[once[q].by] = "once"
      BY <2>1, <2>3 DEF IInv, TypeOK, OnceHeld
    <3> QED BY <3>1
  <2> QED BY <2>2, <2>3
<1> QED BY <1>1, GeneratedConsistent, PTL

\* Once GoogleOnceInit is over no descriptor of the process is assigned again, and
\* nothing makes the once start over.
AssignedForGood ==
  [][\A p \in Processes :
       once[p].done => once'[p].done /\ assigned'[p] = assigned[p]]_vars

THEOREM DescriptorsStay == Spec => AssignedForGood
<1>1. ASSUME IInv, [Next]_vars, NEW p \in Processes, once[p].done
      PROVE  once'[p].done /\ assigned'[p] = assigned[p]
  <2>1. /\ once \in [Processes -> [by : Threads \cup {NoThread}, done : BOOLEAN]]
        /\ assigned \in [Processes -> 0 .. ServiceCount]
        /\ assigned[p] = ServiceCount
    BY <1>1 DEF IInv, TypeOK, OnceAssignsAll
  <2>2. CASE once' = once /\ assigned' = assigned
    BY <1>1, <2>2
  <2>3. ASSUME NEW t \in Threads, InOnce(t)
        PROVE  once'[p].done /\ assigned'[p] = assigned[p]
    <3> DEFINE q == ProcessOf(t)
    <3>1. q \in Processes
      BY ProcessIsOne
    <3>2. CASE EnterOnce(t)
      <4>1. /\ once' = [once EXCEPT ![q].by = t] /\ assigned' = assigned
            /\ ~ once[q].done
        BY <3>2 DEF EnterOnce
      <4>2. q # p
        BY <1>1, <4>1
      <4> HIDE DEF q
      <4> QED BY <1>1, <2>1, <3>1, <4>1, <4>2
    <3>3. CASE AssignDescriptor(t)
      <4>1. /\ once' = once /\ assigned' = [assigned EXCEPT ![q] = @ + 1]
            /\ assigned[q] < ServiceCount
        BY <3>3 DEF AssignDescriptor
      <4>2. q # p
        BY <2>1, <4>1, FileAssumption
      <4> HIDE DEF q
      <4> QED BY <1>1, <2>1, <3>1, <4>1, <4>2
    <3>4. CASE LeaveOnce(t)
      <4>1. /\ once' = [once EXCEPT ![q] = [by |-> NoThread, done |-> TRUE]]
            /\ assigned' = assigned
        BY <3>4 DEF LeaveOnce
      <4> HIDE DEF q
      <4> QED BY <1>1, <2>1, <3>1, <4>1
    <3>5. CASE PassOnce(t)
      BY <1>1, <3>5 DEF PassOnce
    <3> QED BY <2>3, <3>2, <3>3, <3>4, <3>5 DEF InOnce
  <2> QED BY <1>1, <2>2, <2>3 DEF Next, StubMethod, RecvRequest, GetDescriptor,
             SendRequest, CallMethod, vars
<1>2. IInv /\ [Next]_vars =>
        [\A p \in Processes :
           once[p].done => once'[p].done /\ assigned'[p] = assigned[p]]_vars
  BY <1>1
<1> QED BY <1>2, GeneratedConsistent, PTL DEF Spec, AssignedForGood

\* Client and server built from different versions of the .proto file agree on
\* the method by its name, whatever its index in either.
THEOREM NamedMethodRuns == Spec => []RunsNamedMethod
<1>1. IInv => RunsNamedMethod
  BY DEF IInv
<1> QED BY <1>1, GeneratedConsistent, PTL
=============================================================================
