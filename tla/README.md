# HyperRpc specifications

TLA+ specifications of HyperRpc, a C++ RPC framework that runs protobuf
services over UDP (`src/src/hyperrpc`). They say what a call goes through from
the client's stub to the server's answer and back, and what the objects it
passes do: session table, worker threads, contexts, options, life cycle,
generated code. They are checked with TLC on small instances, and the
safety properties and the three refinements are proved with TLAPS for every
instance. `PROJECT.json` lists the runs and the theorems, and maps each
definition to the lines it models.

## The system

A `HyperRpc` object is a client, a server, or both. It owns a group of worker
threads (hudp's, built on ccbase). Each worker owns one `RpcCore`, and each core
one `RpcSessionManager`. Workers share nothing but their bounded task queues.

| component | source | state | operations |
|---|---|---|---|
| session table | `rpc_session_manager.{h,cc}` | pool of nodes (id, call, endpoint index, timer), `next_rpc_id_` | `AddSession`, `OnSendRequestFailed`, `OnRecvResponse`, `OnSessionTimeout` |
| rpc core | `rpc_core.{h,cc}` | its number; the session table | `CallMethod`, `OnRecvPacket`, `OnSendPacketFailed`, `OnIncomingRpcDone` |
| worker dispatch | `hyperrpc.{h,cc}` (`Impl`) | the cores, the services, `is_initialized_`, an `EventFd` per calling thread | `InitAsClient/Server`, `Start`, `CallMethod`, `OnRecvPacket`, `OnSentResult`, destructor |
| endpoint list | `endpoint_list.{h,cc}`, `route_info_builder.{h,cc}` | size, a cache in the object, a heap array | `PushBack`, `Clear`, copy, move, `GetEndpoint` |
| incoming context | `rpc_context.{h,cc}`, `rpc_core.cc` | method, id, address, request, response, arena | `OnRecvRequestMessage`, `OnIncomingRpcDone` |
| options | `options.{h,cc}` | hudp's builder, the options, the command line | setters, `Build` |
| environment | `env.{h,cc}` | options, access to the timer wheel, allocator, log | pass-through |
| generated code | `compiler/` (a protoc plugin prints it) | descriptor pointers, a once flag | stubs, `GetDescriptor`, `CallMethod`, prototypes |
| hudp, ccbase | external | UDP transport, worker group, timer wheel, `EventFd` | used through closures |

**An outgoing call.** `Impl::CallMethod` runs in an application thread or in a
worker. From an application thread it posts a task to a worker (or runs
`done(kInError)` itself if that worker's queue is full); a synchronous caller
then waits on its thread's `EventFd`. In the worker, `RpcCore::CallMethod` asks
the routing callback for endpoints and calls `AddSession`, which takes a node,
starts its timer and sends to the first endpoint. From there on the session
waits for one of three events: a response, the report that the send failed
(next endpoint, or the end), or its timer. Each ends in `done`, a closure of the
application, which may itself issue calls.

**Packets.** hudp hands a packet, or a send's outcome, to any worker. The rpc id
holds the owning core's number in its top 16 bits; a core that does not own the
session returns the owner's number and `Impl` posts a copy of the event to the
owner's queue, dropping it if the queue is full. Requests run their service in
the worker that received them: `OnRecvRequestMessage` finds the service and the
method by name, creates a context with both messages and calls the service,
which runs the `done` it was given in any thread and at any time; `done` sends
the response and deletes the context.

**Life cycle.** An application builds `Options`, makes a `HyperRpc` object,
gives it a routing closure and services, and calls `Start`, which creates the
cores and then hudp's workers. The destructor takes the members apart in
reverse order.

**What is hard.** A handler runs application code (`done`) before it has put its
own state in order. Timer closures collected in one tick run after a `Cancel`
that came too late. Node positions are reused, ids are finite, and responses
and failure reports may arrive at any later time, twice, in any order, in any
worker. Queues are bounded. A synchronous caller's stack frame is written by a
worker. `PROJECT.json` lists these hazards line by line.

**What makes each component correct.**

- *Session table:* `done` runs at most once per call, and once it began nothing
  of the call is touched; no call is forgotten, and an accepted call ends; an event reaches only the
  session it belongs to; endpoints are tried in order; a full table, and only a
  full table, turns calls away; `kTimeout` means a timeout.
- *Dispatch and core:* no call is lost between threads; events reach the owner or a full queue; a synchronous
  call returns its own result and does return; a request that parses and names a
  service and method here is run once per reception, where it was received, any other never.
- *Endpoint list:* never reads or writes past its array; one owner per array;
  behaves as a value.
- *Context:* deleted once, after the response was sent, with its own id and
  result; nothing leaks that is not listed.
- *Packets:* what `OnRecvPacket` accepts is what `SendMessage` meant.
- *Options:* flags win over setters, setters over defaults, in whatever order;
  every core gets a pool of at least its share.
- *Life cycle:* a worker that calls back finds its core.
- *Generated code:* no descriptor is used before it is assigned; the server runs
  the method the client named.
- *The whole:* a caller is given at most one result, and one its own call's
  service produced, or `kTimeout`, or `kInError` for a call never sent.

## The modules

```
SessionTable  <--implements--  RpcSessionManager  <--EXTENDS--  MCRpcSessionManager

HyperRpc  <--EXTENDS--  MCHyperRpc      (its tables are those SessionTable promises)

RemoteCall  <--implements--  RpcSystem  --EXTENDS-->  RpcSessionManager
                                 ^
                                 +--EXTENDS-- MCRpcSystem

Options  <--EXTENDS--  Lifecycle  <--EXTENDS--  MCLifecycle

RpcPacket  <--EXTENDS--  IncomingRpc  <--EXTENDS--  MCIncomingRpc
GeneratedService  <--EXTENDS--  MCGeneratedService

EndpointSeqs  <--implements--  EndpointList
```

`EndpointList` needs no MC module: a `.cfg` can write its constants. Proofs have
modules of their own, `<module>Proofs`, which extend the module they are about;
`RpcSessionTableProofs` (the refinement of `SessionTable`) and `RpcSystemProofs`
extend `RpcSessionManagerProofs`, since a system's behaviours are the table's with
more steps.

Definitions named `...Slip` are plausible mistakes in the definition that
follows them (a dropped guard, a missing reset). No specification uses one.
Replacing the definition by its slip makes the property named with it in
`PROJECT.json` fail, which shows that the property depends on the code.

### RpcSessionManager

One worker's table. A worker runs one callback at a time, so each handler is one
action, except that a handler which calls `done` is two: the first runs up to
the call of `done` (`RunDone` sets `completing`), the second, `FinishDone`, is
what follows it (`Cancel`, `FreeSessionNode`). Between them only `AddSession`
may happen, from inside the closure, any number of times.

| model | code |
|---|---|
| `pool[n]` | `sess_pool_[n]`; `rpc_id = 0` marks an empty node |
| `next_rpc_id`, `RpcIdAfter(k)` | `next_rpc_id_`, `k` calls of `NextRpcId` with its mask |
| `NodeOf`, `FindSessionNode` | `rpc_id & pool_size_mask_` and the comparison of whole ids |
| `armed`, `fired` | timers in the wheel; timers the current tick has collected |
| `completing` | where a handler stands between `done` and its last line |
| `RejectOversize`, `PoolExhausted`, `OpenSession` | the three ways out of `AddSession` |
| `NoSession`, `TryNextEndpoint`, `AllEndpointsFailed` | those of `OnSendRequestFailed` |
| `OnRecvResponse` | the handler of that name; a response that does not parse leaves the session waiting, its message written over |
| `Tick`, `OnSessionTimeout` | the timer wheel (external), and the timer's closure |
| `SendEnds` | a successful send result, which the code ignores; or none at all |
| `called`, `idOf`, `tried`, `outcome`, `response` | what the application and the network see of each call |
| `expired`, `drawn` | history, read by properties only |

A call stands for the triple method, request and response given to
`AddSession`; a response's payload is whether it parses. `FreeSessionNode` keeps
the node's stale `endpoint_index`, as the code does.

Two assumptions are about external code. *Timer wheel:* closures of timers that
fall due in one tick are collected first and then run, so `Cancel` and
`ResetTimer` do not stop a collected closure; the comment at
`rpc_session_manager.cc:154-157` says so. *hudp:* every send is reported at most
once, as delivered or failed, never from inside `Send`; reports of failure are
timer callbacks of the same wheel and may run between the closures of a tick.

### SessionTable

What the pool promises: at most `Capacity` open calls; a call is turned away
with `kInError` only when all are in use; an open call gets one verdict, then
closes. `RpcSessionManager` implements it with `open` the calls of taken nodes
and `verdict` the result `done` was given. This says in particular that the
scan of `AllocSessionNode` finds an empty node if there is one, wherever in the
id sequence it starts and across the wrap.

### HyperRpc

The threads of one object. A task of a worker, an event from hudp and a call of
`CallMethod` are actions; `CallMethod` of a synchronous call is two, posting and
waking up (`WakeUp` is `EventFd::GetWait`, which takes the whole count).

| model | code |
|---|---|
| `queue[w]` | worker `w`'s task queue |
| `CallFromApp`, `CallFromWorker` | the two branches of `Impl::CallMethod` |
| `caller`, `returned`, `rpc_result`, `evfd` | where a caller stands, its stack variable, its thread's `EventFd` |
| `CoreCallMethod` | `RpcCore::CallMethod` with `AddSession` |
| `RecvRequest`, `RecvResponse`, `RecvMisfit`, `CoreRecvPacket`, `CoreToRedirectTo` | `Impl::OnRecvPacket`, `RpcCore::OnRecvPacket` and the number it returns |
| `SentOk`, `SentFailed`, `CoreSendFailed` | `Impl::OnSentResult`, `RpcCore::OnSendPacketFailed` |
| `RunTask` | the lambdas given to `PostTask` |
| `SessionTimeout` | a session's end by its timer |
| `failures`, `overflowed`, `received` | history, read by properties and for bounds only |

The table of a worker is the set `open[w]` of its open calls, as `SessionTable`
describes it. Ids do not repeat here and `done` is atomic with the closing of
its session; wrap-around, collected timers and calls nested in `done` are
RpcSessionManager's subject. `CallFromWorker` stands for a call any callback in
the worker issues and may happen whenever the worker is between tasks. Two
events of the same worker are never concurrent, so an action per event is
enough; two workers interleave freely.

What a packet holds is told apart as far as `RpcCore` does. A request is `Servable`
if it names a service and a method of this object and its body parses; any other is
dropped by `OnRecvRequestMessage`, in each worker it comes to. A response is a
*misfit* if its result is none, its names are not those of the call or its body does
not parse: it carries the call's id and travels to the owner, where
`OnRecvResponseMessage` or the session manager ignores it and leaves the session to
its timer. Packets that are not cut as `SendMessage` cuts them are IncomingRpc's subject.

The core's number returned after a packet was *handled*, or dropped by its handler,
is 0 (`rpc_core.cc:130`). The model keeps that: `Impl` posts such a packet to worker 0 again whenever the
receiving worker is another one.

### EndpointList and EndpointSeqs

Objects with an inline part and a heap array whose length (`Len(block[b])`) is
known to the allocator only, since the code infers it from the size.
`PushBack` is the four branches of the code; `CopyAssign`, `MoveAssign` and
`AssignToItself` are `operator=` (destructor, then constructor in place).
Array sizes are the members of `PowersOfTwo`, which ends at 2^30, and lists are
no longer than that; the code's largest list is 65536.
Memory that was never written holds `Junk`; a copy leaves cache cells past its
size as they were. `EndpointSeqs` says that lists are independent sequences,
that moving empties the source, and that a self-assignment empties the list
(the code clears before it reads).

### RpcSystem and RemoteCall

The client's table of RpcSessionManager with the other end of its calls.
`requests` and `responses` are sets from which nothing is taken: a message is
delivered never, late, again, or in any order. A step of the client puts the
sends it made (`tried`) on the wire (`OnOutgoingRpcSend`); `Serve` is a server
that receives a request, runs the service and answers; `Deliver` is
`OnRecvResponseMessage`. `Restart` kills the client's process and starts it again: pool,
timers and sends are lost, messages on the wire are not, and `Init` draws another start
of the ids (`RestartSeqs`); `clash` remembers for good that an id was drawn twice. A response names its call; the id it carries is that call's, and
the table looks the id up as the code does.

`RemoteCall` is the promise: a service may run any number of times for a call,
also after the call has ended; a call that has been issued is given a result at most once, one of
those its own service produced or `kTimeout`; `kInError` only to calls that were not issued,
whose service therefore never runs; a crash leaves open calls without result.

### Options and Lifecycle

`Options` is `OptionsBuilder`: hudp's builder keeps workers and queue size,
`hrpc_opt_` has only the copy the last `Build` made, with which `MaxRpcSessions`
compares. A setter or a flag may throw, which leaves what was set before. The
module also has the arithmetic of the pools, `CalcSessionPoolSize` and the
alignment of `RpcSessionManager::Init`; `PowersOfTwo` ends at 2^30, and
`SizeAssumption` keeps sizes below that; the code's cap is 2^48. What a builder holds
is what was stored (`WithHudp` is the copy of hudp's options): nothing says the
workers' queue size is not zero, because no setter refuses zero.

`Lifecycle` goes on from there: the application's thread sets options, makes the
object, calls `InitAsClient` and `Start` and destroys it, against workers that may enter a
callback as soon as hudp has started them and open and end calls in their core's pool.
`AddCore` is a round of Start's loop, with the push and the `Init` by index.
`Destruct` destroys the members declared after `hyper_udp_`, `StopHudp` the rest.
`AssertionFails` is the end of the process by `HRPC_ASSERT`, when a service calls before
`is_initialized_` is set or a packet finds no core under its worker's number.
Assumed of hudp: options no builder made have no workers; its workers run before `Init`
returns; a failed `Init` leaves none; its destructor waits for callbacks that are
running.

### RpcPacket and IncomingRpc

`RpcPacket` is `SendMessage`'s layout, with the casts of the lengths to 16 and 32 bits,
and `OnRecvPacket`'s checks. `IncomingRpc` is a server's side of a
call: reception by a worker, lookup of service and method by name, a context
with or without arena (`New`), and `done` in whatever thread the service hands
it to. `OnIncomingRpcDone` is two steps, filling the thread's header and sending
it with the context's response, then deleting the context. `heap` is what is
allocated: it shows who owns which memory. A method the application does not override
answers `kNotImpl` before the worker goes on (`AnswersAtOnce`).

### GeneratedService

The code the plugin prints, run by a client and a server process whose `.proto`
files may differ. `once` is `GoogleOnceInit`, `assigned` counts the descriptor
pointers already set, in the order of the generated assignments. A stub knows a method by its
index in the client's file; the header carries its name; the server looks the
name up in its own file and switches on that index.

## The runs

All bounds are constants in the `.cfg` files.

| run | question | bounds |
|---|---|---|
| `session` | do the table's safety properties and the invariant of their proof hold, is no call forgotten, is `SessionTable` implemented, does every accepted call end | 4 calls, one whose list is too long, 2 nodes, 1-2 endpoints, 16 ids starting at 13, index range 3, nested calls, fair |
| `session_stale_timer` | is `kTimeout` honest if `done` closures issue calls? **violated** | 3 calls, 2 nodes, 1-2 endpoints |
| `workers` | do events reach their owner, through queues that overflow; does any worker touch a call after its `done`; how often are requests served | 2 workers, queues of 1, pools of 1, 1 synchronous call of a thread on 2 endpoints, 1 call from a worker, 2 requests, one of them not to be served, one response twice, misfits for the same call |
| `sync_calls` | does a synchronous call return its own result, do calls end and callers return if all packets are lost or unfit | 2 such calls of a thread, one without route, 1 refused in a worker, 1 asynchronous from a worker that hears only misfits, full queues and pools, late answers, fair |
| `served_twice` | is a request run once, where it was received? **violated** | 1 call, 1 request, 1 copy |
| `sync_hang` | does a synchronous caller always return? **violated** | its list is too long |
| `system` | are answers of a former life kept apart, is `kTimeout` honest if closures issue no calls, what holds once ids repeat; is `RemoteCall` implemented | 3 calls, 2 nodes, 1-2 endpoints, 8 ids starting at 6, 1 restart starting at 7 |
| `incoming` | do answers match, is memory used only while allocated, are packets cut as sent | 2 workers, 1 application thread, 5 requests (no arena, base-class method, bad body, long header, unknown method), 3 contexts |
| `generated_code` | are descriptors ready, is the named method run | 2 client and 2 server threads, 2 services, reordered methods, 2 requests, fair |
| `lifecycle` | which value wins, does every callback find its core, is a started object complete, when is a call refused | 4 command lines, 1-3 workers, 1-7 sessions, 2 routing closures, 2 starts |
| `destructor` | may packets arrive while the object is destroyed? **violated** | the same without flags |
| `endpoint_list` | do arrays fit, have one owner, and do lists behave as sequences | 2 lists, 2 endpoints, cache 1, first array 2, up to 6 elements, 3 arrays |

*Why the bounds are enough.* With three calls on two nodes the table is full,
empty and refilled; a node is used again while its former session's response,
failure report and collected timer are still to come; and a closure can issue a
call into the node another event just freed. `StartSeqs = {13}` with 16 ids
lets a scan start in the middle and cross the wrap. In `system` the second life
starts one after the first: if the first life
drew two ids the second draws one of them again and a late answer meets a session
that is not its own; if it drew one, no id repeats.
Two workers with a queue of one task reach every combination of owner and
receiver, worker 0 and another, room and overflow. `MaxCopies` doubles the response of one
call, whose session is then gone or, with the misfits, still there; misfits come any number
of times. A request is received once, which is enough to be run twice; for more receptions
there is `EachReceptionServed`. `incoming` has two workers and a third thread fill headers at
once, and three contexts alive. `lifecycle` has shares of 0 to 7 sessions, so
that the ninth rounds down and pools have 1, 2, 4 and 8 nodes.
Six elements over a cache of one grow the array twice (2 to 4 to 8) and copy
lists whose heap part is 0 to 5 long, hence below, at and past a power of two.

Where a module has an inductive invariant (`IInv`, `SystemInv`), its run checks
that invariant, types included: it is what the theorems below start from.

`IndexSpan` (65536 in the code) and `SeqSpan` (2^48) are scaled down; the code
writes 65536 both as the largest list and, in the width of `uint16_t`, as the
index range, so one constant stands for both.

*Deadlock* is not checked: every instance issues finitely many calls and then
stops.

*Fairness.* `session` assumes of the worker loop that a timer in the wheel is
collected at some tick, that collected closures run, and that a `done` closure
returns. `sync_calls` assumes that each worker keeps running its queue, that session
timers run, and that a notified thread wakes up. `generated_code` assumes that a thread
inside the once runs on. All are weak fairness of what hudp's workers and the system's threads
do in their loop. Nothing is assumed of the network: no response, no send
result has to come.

## What the code does that its sources say otherwise

Four statements of the sources do not hold of the code; each has a run whose
counterexample shows it and an entry in `PROJECT.json`.

1. `session_stale_timer`: a collected timer closure is recognised as stale by
   `rpc_id == 0` only (`rpc_session_manager.cc:159`). If the node was freed and
   taken again within the tick, by a call issued in another session's `done`,
   the closure ends the *new* session with `kTimeout` at once.
2. `served_twice`: `RpcCore::OnRecvPacket` returns 0 for a handled message, which
   `Impl` takes for a redirect to core 0: a request received by another worker
   is run there and once more in worker 0.
3. `sync_hang`: `AddSession` drops `done` when the list is too long and its result is
   ignored, so a synchronous `CallMethod` waits for ever.
4. `destructor`: the cores are destroyed before hudp's workers stop; a packet
   received in between fails `OnRecvPacket`'s assertion.

The models do as the code does in these places too, and the properties are
stated so that they hold; no run of its own shows them:

- a list of exactly 65536 endpoints is accepted, and the `uint16_t` index wraps to the
  first endpoint after the last (`RetriesInOrder` is about shorter lists);
- a request for a service or method the server does not have is dropped, though
  `hyperrpc.h:75` has `kNotImpl` for "not implemented by server"; only methods
  the generated base class declares answer it (`AnswersAtOnce`);
- workers run before `Start` sets `is_initialized_`: a call a service issues then
  fails `CallMethod`'s assertion and ends the process (`AssertionFails`);
- a response whose body does not parse is ignored, its result with it: an answer `kNotImpl`
  or `kFailure` whose empty message lacks required fields becomes `kTimeout`;
- more calls may be pending than `max_rpc_sessions`, "max number of pending RPC
  sessions": `PendingBounded` has the bound that holds, 20/9 of it or one per core;
- `MaxRpcSessions` means to refuse fewer sessions than workers, but compares
  with the workers of the last `Build`, none before the first.

## What is proved

Eight modules hold theorems. A theorem holds for every value of the constants
that meets the named `ASSUME`s: any number of calls, nodes, workers, threads,
requests, lists, options. Each module has one inductive invariant, checked by its
run, and theorems that follow from it. All proofs of invariants have the same
shape: a lemma for `Init`, one lemma or step per action, under it one step per
conjunct the action can disturb, and a `Step...` lemma that collects the actions.

| module | theorem | says |
|---|---|---|
| `RpcSessionManagerProofs` | `Consistent`, `TypeCorrect` | `IInv`; ids never carry into the core's bits, indices and nodes stay in range |
| | `DoneOnce` | no call's `done` runs twice, whatever arrives, also when ids repeat |
| | `NeverUntimed`, `NothingForgotten` | a waiting session always has a timer armed or collected; a call that was accepted and has not ended is in such a session |
| | `Retries`, `OwnMethod`, `Honest` | `RetriesInOrder`, `AnsweredByOwnMethod`, and `HonestTimeout` if `~NestedCalls` |
| | `IdsAndReplies`, `OwnReply` | until ids come round, ids differ and no call gets another one's response |
| | `HandsOff` | once `done` began for a call, nothing is written, sent or run for it |
| | `IdsNameTheirCore` | every id leads `OnRecvPacket` back to the core that drew it |
| `RpcSessionTableProofs` | `Implementation` | the table implements `SessionTable` |
| `RpcSystemProofs` | `SystemConsistent` | `IInv` and `SystemInv`, through restarts |
| | `RepliesMatchEver`, `OwnMethodEver`, `DoneOnceEver`, `HandsOffEver`, `HonestEver` | the same properties across lives of the client |
| | `OnlyRestartsForget` | a call not ended and not abandoned by a restart has a node and a timer |
| | `Promise` | the system implements `RemoteCall`, until an id is drawn again |
| `IncomingRpcProofs` | `IncomingConsistent`, `AnswersOwnRequest`, `NothingUsedAfterDelete`, `NothingElseAllocated`, `CutAsSent` | `IInv`, `AnswersMatch`, `NoUseAfterDelete`, `MemoryAccounted`, `AcceptedAsSent` |
| | `ServedAsCalled`, `BaseMethodNotImpl` | the service registered last under a name serves its calls, what names no service or method is never answered, and what is left to the base class is answered `kNotImpl` |
| | `AnsweredOnceForAll` | memory is deleted only by the step that sends its response, and what was answered is over (`DeletedWhenAnswered`) |
| `GeneratedServiceProofs` | `GeneratedConsistent`, `DescriptorsAlwaysReady`, `NamedMethodRuns` | `IInv`, `DescriptorsReady`, `RunsNamedMethod` |
| | `NoneStuckInOnce`, `DescriptorsStay` | while a thread is at the once, one of them has a step to take; nothing is assigned after it |
| `HyperRpcProofs` | `DispatchConsistent`, `DoneOnceInWorkers`, `EventsFindSession`, `EachReceptionServed` | `IInv`, `DoneAtMostOnce`, `EventsReachOwner`, `ServedPerReception` |
| | `SyncGetsOutcome`, `WokenForOwnCall` | `SyncReturnsOutcome`, `NotifiedForThisCall` |
| | `HandsOffInWorkers` | after a call's `done` no worker writes, sends, opens or runs anything for it |
| | `TablesNeverOverflow`, `CallsAreKept`, `NoneWaitsInVain` | no table outgrows its pool; until it ends a call is in a queue or a table (`NoCallLost`); who waits, waits for such a call or a notification that is there |
| `LifecycleProofs` | `LifecycleConsistent`, `FlagsOverride`, `RefusedAtShare`, `CoreAlwaysFound`, `StartedHasAllCores` | `IInv`, `FlagsWin`, `RefusedOnlyAtShare`, `CoreFoundUntilDestructor`, `StartedComplete` |
| | `PendingAtMost` | the calls pending in all cores together stay within `PendingBounded` |
| `EndpointListProofs` | `ListsConsistent`, `NeverPastTheEnd`, `OneOwner`, `ListsAreSequences` | `IInv`, `HeapPartFits`, `OneOwnerPerArray`, and that `EndpointList` implements `EndpointSeqs` |

### The arguments

**Session table.** `DoneAtMostOnce` is not inductive, since a taken node says nothing about
whether its call is finished. `IInv` adds that a taken node holds a call whose id leads
back to that node (`NodesHoldCalls`, hence no call has two nodes), that a waiting node's
call has no outcome and the completing node's exactly one (`OutcomeOfNode`),
that the completing node stays taken until `FinishDone` (`RunningNodeTaken`:
a nested `AddSession` must not get it), that calls not yet issued have no outcome,
and that hudp has no send of a call without id (`SentCallsHaveIds`; id 0 would "find" an
empty node). `SentUpToIndex` ties the endpoints tried to the node's index, which is what
`RetriesInOrder` needs, and excepts lists as long as the index range, whose index never runs out.
`FiredAreExpired` is why `kTimeout` is honest without nested calls: nobody can take a node
between the collection of its timer and the closure. The proof has two halves, `Sessions`
(who holds which node, who is finished) and `Progress` (what was sent and why it ended), and in each
a lemma for handlers that move no node and one for those that call `done`.
`HandsOff` follows from the invariant: an event only touches the call of a taken node,
and that call is undecided.
`NothingForgotten` is the converse, a call that is undecided has a node: the step that
ends a session decides its call, every other keeps the node, and `FinishDone` frees a node
only after its call was decided, whatever `done` issued in between.
`IdsNameTheirCore` is arithmetic: the sequence part stays below `SeqSpan`, so dividing by it
gives the core back.

`RepliesMatch` needs more, since a response is matched by id. `IdsOfCallsDiffer` measures an id by
how many draws it lies back (`DrawsFrom`): it was drawn fewer than `drawn` draws ago, a fresh
one lies ahead of all of them while `drawn <= SeqSpan`, so no two calls share one.

**Refinement of `SessionTable`.** The hard step is the refused call: the abstract table
refuses only when full. `ScanReaches` shows that `PoolSize` consecutive ids meet every node, across the
wrap too, because `SeqSpan` is a multiple of `PoolSize`; so a scan that finds nothing
has seen every node taken. `TakenAreCounted` makes the taken nodes the open calls, one for one.

**System.** A restart forgets `next_rpc_id`, so `DrawsFrom` no longer measures. `SystemInv` counts
from the first id of the life (`CountedFromFirst`): the ids drawn are the interval behind it
(`IdsWereDrawn`), fresh while `IdsDistinct`. `ServedCallsIssued` says that every message on
the wire is of a call with an id, `AbandonedStayOpen` that the table never touches a call
of a former life again. `OnlyRestartForgets` is `NoCallForgotten` less
the abandoned calls; a restart abandons exactly those that would be forgotten. `Promise` then maps each step: `AddSession` to an issue or a refusal, the ends of
a session to a verdict that the call's own responses contain (by `RepliesMatchAcrossLives`),
`Serve` to a production, `Restart` to the crash that abandons the open calls.

**Incoming.** `OneThreadAnswers` and `AnswererHoldsHeader` say that between `FillHeader` and
`SendResponse` the run has one thread and the thread's header is the run's, which no other
run in that thread can overwrite; `SentAfterAnswer` that nothing has been sent before. `AcceptedAsSent`
is an arithmetic fact about the packet: both length fields reduced modulo their width and
the sum compared with the size, a truncation cannot add up.
`ServesAsCalled` follows the lookup by name, and `BaseAnswersNotImpl` the result from the
base class's `done` through the thread's header, by `OneThreadAnswers`.
`DeletedWhenAnswered` then reads off the invariant which step can take memory away.

**Generated code.** `OnceAssignsAll` and `RequestsNameStubs`: a request carries its stub's
name from the client's thread over the wire to the server's switch. `OnceHeld` says that who holds
the once is in it, in its own process, so the threads behind it wait for a step that can be taken.

**Dispatch.** A call is idle, carried by exactly one task, open in its owner's table or over (`OneTask`,
`OnePlace`); hudp has reported no more sends than were made, and a call without session has none (`SendsReported`);
a waiting thread waits for one call, whose result is in its stack variable when the `EventFd` counts one (`OneWait`).
`OnlyToFirst` is the observed redirect of handled requests to worker 0; it counts the runs of a
servable request and its copies in that worker's queue against its receptions elsewhere, and
says that no other request has run. A misfit changes nothing but a queue (`MisfitEffect`).
`NoCallLost` says where an unfinished call is: each task that is taken from a queue ends its call, opens it
or leaves it where `OnePlace` has it; `TablesHold` bounds the tables. `HandsOffInWorkers`
uses `OnePlace` from the other side, a call that is over is in no task and no table, so that no step can reach it;
that includes the variable on its caller's stack, which may be gone.

**Life cycle.** `CoresInPlace` follows `Start`'s loop and its failures; `RunInTime` says at which
steps hudp's workers may run. `MadeOnce` and `HoldsChosen` connect the object's options with the builder's,
from which `FlagsWin` and the share in `RefusedOnlyAtShare` follow. That `Aligned` is at least the size it is given uses that the
powers of two up to 2^30 have a least member above it (`SizeAssumption`).
For `PendingBounded` the sum over the cores is the size of a set of pairs (core, pending call), which lies in
the product of cores and nodes of a pool (`PoolsHold`); a pool is at most twice the
size it was rounded up from, so workers times pool size is at most 20/9 of the sessions, or a pool is one node.

**Endpoint list.** `HeapPartFits` is not inductive alone: `ArraySizes` says an array's size is a power of two not
below the first, so that a heap part which is not such a power leaves room in it (`Powers`) and
growing at a power doubles it exactly. The refinement computes the contents after each
operation; the branches of `PushBack` all append.

### The assumptions

Each is what the code or its build fixes.

- *Session table:* positive pool, id and index ranges; the range of ids is a multiple of the pool size
  (`PowersAssumption`; both are powers of two and the pool's order is capped, `rpc_session_manager.cc:55`);
  `StartSeqs` and `RestartSeqs` within the id range; results among the enumeration.
- *Incoming:* services are registered as a sequence (`RegisteredAssumption`) of existing ones, and override only methods they have; lengths are naturals,
  the widths of the length fields positive; workers and application threads are disjoint.
- *Generated code:* both files have the same services; clients and servers are different threads.
- *Dispatch:* at least one worker, room for one task and one session; every call has one caller and at least one endpoint;
  servable requests are requests, and `MaxCopies` and `Misfitted` are arbitrary bounds of what the network does.
- *Options, life cycle:* values are naturals, the worker count is not zero, flags have values a
  setter may be given; the default timeout is one the setter accepts (`DefaultAssumption`); a pool fits in 2^30 (`SizeAssumption`);
  `NoOptions` is no options object (`OptionsAssumption`).
- *Endpoint list:* the cache is not empty, the first array's size is a power of two (`HeapAssumption`), lists are no longer than 2^30.

`Honest` and `HonestEver` assume `~NestedCalls`; without it the property is false, which
is the counterexample of `session_stale_timer`.

### Only model-checked

- *Liveness:* `AcceptedCallEnds`, `RoutedCallEnds`, `RoutedSyncCallReturns`, `DescriptorObtained`. The
  prover has no rule for fairness and `ENABLED`.
- The counterexamples of the four `violation` runs above are TLC's.

All safety properties of the runs that pass are proved. Some formulas that are proved belong to no run
and were tried with TLC before: `HyperRpc`'s `IInv` on the instance of `sync_calls` too, `IdInv` on that of `session`,
and `DeletedWhenAnswered` on that of `incoming`.

## Not modelled

- *The plugin's text.* Indentation, namespaces, include guards and declarations
  it prints have no state; a compiler checks them.
- *Chance.* That two lives of a client start with ids far enough apart is a matter of
  `rand_r`; the models say what holds while no id is drawn twice.
- *The destructor's pending calls.* Nothing ends them, nothing says it should.
- *Concurrent use of one `EndpointList` or one `OptionsBuilder`*, which the code does not do.
- *Several `HyperRpc` objects in a process.* A synchronous call is refused in the
  object's own workers only, so two objects whose services call through each
  other can block for ever; nothing in the code looks for that.
- *Env, logging, example programs*: pass-through and load generators.
- *hudp and ccbase* beyond the assumptions named above.

## Plan

The modules planned are written, and the safety properties of all runs are proved. What could follow:

1. `HyperRpc`'s tables as a step-by-step refinement of `SessionTable`. What that would promise is proved as
   `TablesHold`, `OnePlace` and `NoCallLost`; the steps do not match as they are, because `done` and the closing of its session
   are one step in `HyperRpc` and two in `SessionTable`, and a call that ends without a route
   or in a full queue has no step there.
2. Several objects in one process, for synchronous calls that go round in a circle.
3. The destructor's pending calls, should the code come to end them.
