----------------------------- MODULE Lifecycle -----------------------------
(* One HyperRpc object from its options to its destruction (hyperrpc.cc): the *)
(* application's thread sets the options, makes the object, builds the cores  *)
(* and starts hudp, whose workers call back from then on and open calls in    *)
(* their core's pool, until the destructor takes the members apart.           *)
EXTENDS Options, Sequences, FiniteSets

CONSTANTS
  Routings,   \* the routing closures InitAsClient may be given
  NoRouting,  \* on_service_routing_ before InitAsClient
  NoOptions,  \* no object was made yet
  MaxStarts   \* bound: how often Start is tried

ASSUME StartsAssumption == MaxStarts \in Nat
ASSUME RoutingAssumption == NoRouting \notin Routings
ASSUME OptionsAssumption == NoOptions \notin Opt

VARIABLES
  options,             \* the Options the object was made with
  at,                  \* where the application's thread stands
  i,                   \* Start's loop variable
  starts,              \* calls of Start (history)
  on_service_routing,
  rpc_core_vec,        \* the cores: id, closure, and pending calls of each
  is_initialized,
  running,             \* hudp's workers
  handling,            \* what each worker is in
  refused              \* how many were pending when a core refused one (history)

startVars == <<at, i, starts, on_service_routing, is_initialized>>
workerVars == <<running, handling>>
vars == <<builderVars, options, startVars, workerVars, rpc_core_vec, refused>>

Workers == IF options = NoOptions THEN {} ELSE 0 .. options.worker_num - 1

NoId == -1
RpcCore == [id : Workers \cup {NoId}, routing : Routings \cup {NoRouting},
            pending : Nat]
NewCore == [id |-> NoId, routing |-> NoRouting, pending |-> 0]

TypeOK ==
  /\ BuilderOK
  /\ options \in Opt \cup {NoOptions}
  /\ at \in {"builder", "idle", "cores", "hudp", "hudp runs", "destructor", "gone",
            "aborted"}
  /\ i \in {0} \cup {w + 1 : w \in Workers}
  /\ starts \in 0 .. MaxStarts
  /\ on_service_routing \in Routings \cup {NoRouting}
  /\ rpc_core_vec \in Seq(RpcCore) /\ Len(rpc_core_vec) <= i
  /\ is_initialized \in BOOLEAN
  /\ running \subseteq Workers
  /\ handling \in [Workers -> {"nothing", "packet", "call"}]
  /\ \A w \in Workers : handling[w] # "nothing" => w \in running
  /\ refused \subseteq Nat

-----------------------------------------------------------------------------
Init ==
  /\ BuilderInit
  /\ options = NoOptions
  /\ at = "builder"
  /\ i = 0
  /\ starts = 0
  /\ on_service_routing = NoRouting
  /\ rpc_core_vec = << >>
  /\ is_initialized = FALSE
  /\ running = {}
  /\ handling = [w \in Workers |-> "nothing"]
  /\ refused = {}

SetOptions ==
  /\ at = "builder"
  /\ Build \/ \E name \in Names : CallSetter(name)
  /\ UNCHANGED <<options, startVars, workerVars, rpc_core_vec, refused>>

\* HyperRpc{builder.Build()}. The builder is not used again.
Construct ==
  /\ at = "builder" /\ ~BuildNow.threw
  /\ options' = BuildNow.opt
  /\ builder' = NewBuilder /\ chosen' = Defaults
  /\ at' = "idle"
  /\ handling' = [w \in 0 .. options'.worker_num - 1 |-> "nothing"]
  /\ UNCHANGED <<flags, i, starts, on_service_routing, is_initialized, running,
                 rpc_core_vec, refused>>

\* The cores keep the closure they were given: a call after Start comes late.
InitAsClient ==
  /\ at = "idle"
  /\ \E routing \in Routings : on_service_routing' = routing
  /\ UNCHANGED <<builderVars, options, at, i, starts, is_initialized, workerVars,
                 rpc_core_vec, refused>>

\* HRPC_ASSERT(!is_initialized_): Start may be tried again after it failed.
Start ==
  /\ at = "idle" /\ ~is_initialized
  /\ starts < MaxStarts
  /\ starts' = starts + 1
  /\ i' = 0
  /\ at' = "cores"
  /\ UNCHANGED <<builderVars, options, on_service_routing, is_initialized, workerVars,
                 rpc_core_vec, refused>>

\* One round of the loop: a core appended, and the i-th initialized.
AddCore ==
  /\ at = "cores" /\ i < options.worker_num
  /\ rpc_core_vec' =
       [Append(rpc_core_vec, NewCore) EXCEPT
          ![i + 1].id = i, ![i + 1].routing = on_service_routing]
  /\ i' = i + 1
  /\ UNCHANGED <<builderVars, options, at, starts, on_service_routing,
                 is_initialized, workerVars, refused>>

GoTo(where) ==
  /\ at' = where
  /\ UNCHANGED <<builderVars, options, i, starts, on_service_routing,
                 is_initialized, workerVars, refused>>

\* hudp started after the first core.
LoopEndsSlip ==
  /\ at = "cores" /\ i > 0
  /\ GoTo("hudp")
  /\ UNCHANGED rpc_core_vec

LoopEnds ==
  /\ at = "cores" /\ i = options.worker_num
  /\ GoTo("hudp")
  /\ UNCHANGED rpc_core_vec

\* hyper_udp_.Init fails, the cores kept.
HudpInitFailsSlip == at = "hudp" /\ GoTo("idle") /\ UNCHANGED rpc_core_vec

\* hyper_udp_.Init fails, say because the address is taken.
HudpInitFails == at = "hudp" /\ GoTo("idle") /\ rpc_core_vec' = << >>

\* hyper_udp_.Init starts the workers, one by one, and then returns true.
HudpInit ==
  \/ /\ at = "hudp"
     /\ running' = {0} /\ at' = "hudp runs"
     /\ UNCHANGED is_initialized
  \/ /\ at = "hudp runs" /\ running # Workers
     /\ \E w \in Workers \ running : running' = running \cup {w}
     /\ UNCHANGED <<at, is_initialized>>
  \/ /\ at = "hudp runs" /\ running = Workers
     /\ is_initialized' = TRUE /\ at' = "idle"
     /\ UNCHANGED running

StartHudp ==
  /\ HudpInit
  /\ UNCHANGED <<builderVars, options, i, starts, on_service_routing, handling,
                 rpc_core_vec, refused>>

\* The members go in reverse order of their declaration: first the cores, ...
Destruct ==
  /\ at = "idle"
  /\ rpc_core_vec' = << >>
  /\ GoTo("destructor")

\* ... last hyper_udp_, which stops its workers when their callbacks are over.
StopHudp ==
  /\ at = "destructor"
  /\ \A w \in Workers : handling[w] = "nothing"
  /\ running' = {}
  /\ at' = "gone"
  /\ UNCHANGED <<builderVars, options, i, starts, on_service_routing,
                 is_initialized, handling, rpc_core_vec, refused>>

\* A worker goes from one place to another.
Handle(w, from, to) ==
  /\ w \in running
  /\ handling[w] = from
  /\ handling' = [handling EXCEPT ![w] = to]
  /\ UNCHANGED <<builderVars, options, startVars, running>>

\* Impl::OnRecvPacket or OnSentResult is entered and left, and so is CallMethod,
\* by a service or closure that runs in the worker.
RecvPacket(w) == Handle(w, "nothing", "packet") /\ UNCHANGED <<rpc_core_vec, refused>>
CallFromService(w) == Handle(w, "packet", "call") /\ UNCHANGED <<rpc_core_vec, refused>>
Leave(w) == Handle(w, "packet", "nothing") /\ UNCHANGED <<rpc_core_vec, refused>>

PendingIn(w) == rpc_core_vec[w + 1].pending

\* A callback calls before Start has returned, or OnRecvPacket finds no core under
\* the worker's id any more: HRPC_ASSERT aborts the process.
AssertionFails(w) ==
  /\ w \in running
  /\ \/ handling[w] = "call" /\ ~is_initialized
     \/ handling[w] = "packet" /\ w >= Len(rpc_core_vec)
  /\ at' = "aborted"
  /\ running' = {}
  /\ handling' = [v \in Workers |-> "nothing"]
  /\ UNCHANGED <<builderVars, options, i, starts, on_service_routing,
                 is_initialized, rpc_core_vec, refused>>

\* The call reaches the worker's core: a node of its pool, or kInError. Past
\* the assertions of CallMethod, there is a core.
OpenCall(w) ==
  /\ is_initialized /\ w < Len(rpc_core_vec)
  /\ Handle(w, "call", "packet")
  /\ IF PendingIn(w) < PoolSize(options)
       THEN /\ rpc_core_vec' = [rpc_core_vec EXCEPT ![w + 1].pending = @ + 1]
            /\ UNCHANGED refused
       ELSE /\ refused' = refused \cup {PendingIn(w)}
            /\ UNCHANGED rpc_core_vec

\* A response, or a timer, ends a session.
EndCall(w) ==
  /\ w < Len(rpc_core_vec) /\ PendingIn(w) > 0
  /\ Handle(w, "packet", "nothing")
  /\ rpc_core_vec' = [rpc_core_vec EXCEPT ![w + 1].pending = @ - 1]
  /\ UNCHANGED refused

Next ==
  \/ SetOptions \/ Construct \/ InitAsClient \/ Start \/ AddCore \/ LoopEnds
  \/ HudpInitFails \/ StartHudp \/ Destruct \/ StopHudp
  \/ \E w \in Workers : RecvPacket(w) \/ CallFromService(w) \/ Leave(w)
  \/ \E w \in Workers : OpenCall(w) \/ EndCall(w) \/ AssertionFails(w)

Spec == Init /\ [][Next]_vars

-----------------------------------------------------------------------------
(* Properties *)

\* Whatever the order of setters, failed setters and repeated Builds: the
\* object gets the flag where there is one, else the setter's last valid value.
FlagsWin ==
  [][Construct =>
       \A name \in Names : options'[name] =
         IF flags[name] = NoFlag THEN chosen[name] ELSE flags[name]]_vars

\* A core refuses a call only when its share of max_rpc_sessions is pending.
RefusedOnlyAtShare ==
  \A n \in refused : n >= options.max_rpc_sessions \div options.worker_num

\* Ninths and powers of two make of max_rpc_sessions at most 20/9 of it, or one
\* session per core.
PendingCalls == UNION {{k} \X (1 .. rpc_core_vec[k].pending) : k \in DOMAIN rpc_core_vec}
PendingBounded ==
  options # NoOptions =>
    Cardinality(PendingCalls) <=
      Max({(20 * options.max_rpc_sessions) \div 9, options.worker_num})

HasOwnCore(w) ==
  /\ w < Len(rpc_core_vec)
  /\ rpc_core_vec[w + 1].id = w

\* Until the destructor runs, a worker that calls back finds its own core
\* under its id, however early it does.
CoreFoundUntilDestructor ==
  \A w \in Workers :
    handling[w] # "nothing" /\ at # "destructor" => HasOwnCore(w)

\* A started object has one core per worker the options ask for, numbered as
\* the workers are, and all of them route alike, also when Start failed before.
StartedComplete ==
  is_initialized /\ at = "idle" =>
    /\ Len(rpc_core_vec) = options.worker_num
    /\ \A w \in Workers : /\ HasOwnCore(w)
                          /\ rpc_core_vec[w + 1].routing = rpc_core_vec[1].routing

\* HRPC_ASSERT(cur_core_id < rpc_core_vec_.size()) in OnRecvPacket.
CoreInRange ==
  \A w \in Workers : handling[w] = "packet" => w < Len(rpc_core_vec)

-----------------------------------------------------------------------------
(* What the properties rest on: an inductive invariant.                       *)

\* The object is made with a worker, and the options do not change after.
MadeOnce ==
  /\ at = "builder" <=> options = NoOptions
  /\ options = NoOptions => refused = {}
  /\ options # NoOptions => options.worker_num > 0 /\ options.max_rpc_sessions \in AnySessions

CoresUpTo(n) == /\ Len(rpc_core_vec) = n
                /\ \A k \in 1 .. n : rpc_core_vec[k].id = k - 1
RouteAlike(routing) ==
  \A k \in 1 .. Len(rpc_core_vec) : rpc_core_vec[k].routing = routing

\* Start builds the cores one by one, and nothing stays of one that failed.
CoresInPlace ==
  /\ at = "builder" \/ (at = "idle" /\ ~is_initialized) => rpc_core_vec = << >>
  /\ at = "cores" =>
       i <= options.worker_num /\ CoresUpTo(i) /\ RouteAlike(on_service_routing)
  /\ at \in {"hudp", "hudp runs"} \/ (at = "idle" /\ is_initialized) =>
       CoresUpTo(options.worker_num) /\ \E routing \in Routings \cup {NoRouting} : RouteAlike(routing)

\* hudp's workers run when there are cores for them, or in the destructor.
RunInTime ==
  /\ is_initialized => at \in {"idle", "destructor", "gone", "aborted"}
  /\ running # {} => at \in {"hudp runs", "destructor"} \/ (at = "idle" /\ is_initialized)

\* A core's pending calls each have a node of its pool.
PoolsHold == \A k \in DOMAIN rpc_core_vec : rpc_core_vec[k].pending <= PoolSize(options)

\* The builder, the object and hudp's workers are in step with where the
\* application's thread stands in InitAsClient, Start or the destructor.
IInv == /\ TypeOK /\ HoldsChosen
        /\ MadeOnce /\ CoresInPlace /\ RunInTime /\ PoolsHold
        /\ RefusedOnlyAtShare /\ CoreFoundUntilDestructor /\ StartedComplete
=============================================================================
