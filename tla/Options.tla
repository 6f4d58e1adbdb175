------------------------------ MODULE Options ------------------------------
(* OptionsBuilder (options.cc): setters, command line flags that override     *)
(* them, and the Options object Build returns; and the size the options give  *)
(* the session pool of each core (rpc_core.cc, rpc_session_manager.cc). The   *)
(* workers and their queues belong to hudp's builder, and hrpc_opt_ holds     *)
(* only the copy of them the last Build made.                                 *)
EXTENDS Integers, FiniteSetsExt

CONSTANTS
  WorkerNums, QueueSizes, MaxSessions, Timeouts,  \* values given to setters
  CommandLines,    \* the flags the process may have been started with
  NoFlag,          \* a flag left at its default
  TimeoutSpan,     \* range of the uint32_t a timeout must fit in
  DefaultHudp,     \* hudp's defaults, for its builder
  BlankHudp,       \* ... and of a hudp::Options no builder made
  DefaultSessions, DefaultTimeout   \* OptionsBuilder's

Names == {"worker_num", "worker_queue_size", "max_rpc_sessions", "default_rpc_timeout"}
HudpNames == {"worker_num", "worker_queue_size"}
Values == [worker_num |-> WorkerNums, worker_queue_size |-> QueueSizes,
           max_rpc_sessions |-> MaxSessions, default_rpc_timeout |-> Timeouts]

ASSUME ValuesAssumption == /\ \A name \in Names : Values[name] \subseteq Nat
                           /\ 0 \notin WorkerNums
                           /\ DefaultHudp \in [HudpNames -> Nat \ {0}]
                           /\ BlankHudp \in [HudpNames -> Nat]
ASSUME FlagAssumption ==
  \A line \in CommandLines : \A name \in Names : line[name] \in Values[name] \cup {NoFlag}
ASSUME DefaultAssumption == /\ DefaultSessions \in Nat /\ TimeoutSpan \in Nat
                            /\ DefaultTimeout \in 1 .. TimeoutSpan - 1

\* Values of max_rpc_sessions an object can be made with, and their bound.
AnySessions == MaxSessions \cup {DefaultSessions}
ASSUME SizeAssumption == \A n \in AnySessions : (n * 10) \div 9 <= 2 ^ 30

VARIABLES
  flags,     \* the command line
  builder,   \* hudp: hudp_opt_builder_, opt: hrpc_opt_; threw: the last call did
  chosen     \* what setters that returned have been given (history)

builderVars == <<flags, builder, chosen>>

Opt == [Names -> Nat]

BuilderOK ==
  /\ flags \in CommandLines
  /\ builder \in [hudp : [HudpNames -> Nat], opt : Opt, threw : BOOLEAN]
  /\ builder.hudp.worker_num # 0
  /\ builder.opt.default_rpc_timeout \in 1 .. TimeoutSpan - 1
  /\ chosen \in Opt

-----------------------------------------------------------------------------
(* The setters. An operator named ...Slip is a plausible slip of the next.    *)

Store(b, name, n) == [b EXCEPT !.opt[name] = n]

\* The timeout's lower bound forgotten.
ValidSlip(b, name, n) ==
  CASE name = "max_rpc_sessions" -> n >= b.opt.worker_num
    [] name = "default_rpc_timeout" -> n < TimeoutSpan
    [] OTHER -> TRUE

\* What MaxRpcSessions and DefaultRpcTimeout check before they store.
Valid(b, name, n) ==
  CASE name = "max_rpc_sessions" -> n >= b.opt.worker_num
    [] name = "default_rpc_timeout" -> n \in 1 .. TimeoutSpan - 1
    [] OTHER -> TRUE

Set(b, name, n) ==
  IF ~Valid(b, name, n) THEN [b EXCEPT !.threw = TRUE]
  ELSE IF name \in HudpNames THEN [b EXCEPT !.hudp[name] = n]
  ELSE Store(b, name, n)

\* GFLAGS_MAY_OVERRIDE: a throw ends Build, what was set before stays.
MayOverride(b, name) ==
  IF b.threw \/ flags[name] = NoFlag THEN b ELSE Set(b, name, flags[name])

\* The options with hudp's own in the place of the copy.
WithHudp(hudp, opt) ==
  [name \in Names |-> IF name \in HudpNames THEN hudp[name] ELSE opt[name]]

\* hudp's options taken before the flags of the workers were looked at.
BuiltSlip(b) ==
  LET s == MayOverride(MayOverride(b, "max_rpc_sessions"), "default_rpc_timeout")
      t == MayOverride(MayOverride(s, "worker_num"), "worker_queue_size")
  IN IF s.threw THEN s ELSE [t EXCEPT !.opt = WithHudp(s.hudp, s.opt)]

\* The builder after Build, whose last step copies hudp's options.
Built(b) ==
  LET s == MayOverride(MayOverride(b, "worker_num"), "worker_queue_size")
      t == MayOverride(MayOverride(s, "max_rpc_sessions"), "default_rpc_timeout")
  IN IF t.threw THEN t ELSE [t EXCEPT !.opt = WithHudp(t.hudp, t.opt)]

-----------------------------------------------------------------------------
(* The pools *)

\* One ninth taken off instead of added.
CalcSessionPoolSizeSlip(opt) ==
  LET size_per_core == opt.max_rpc_sessions \div opt.worker_num
  IN (size_per_core * 9) \div 10

\* Every core given room for all of max_rpc_sessions.
UndividedSlip(opt) == (opt.max_rpc_sessions * 10) \div 9

\* RpcCore's share of max_rpc_sessions, and a ninth more.
CalcSessionPoolSize(opt) ==
  LET size_per_core == opt.max_rpc_sessions \div opt.worker_num
  IN (size_per_core * 10) \div 9

PowersOfTwo == {2 ^ order : order \in 0 .. 30}

\* RpcSessionManager::Init aligns the size to a power of two.
Aligned(size) == Min({p \in PowersOfTwo : p >= size})

PoolSize(opt) == Aligned(CalcSessionPoolSize(opt))

-----------------------------------------------------------------------------
OwnDefaults == [name \in Names \ HudpNames |->
                  IF name = "max_rpc_sessions" THEN DefaultSessions ELSE DefaultTimeout]
NewBuilder == [hudp |-> DefaultHudp, threw |-> FALSE,
               opt |-> WithHudp(BlankHudp, OwnDefaults)]
Defaults == WithHudp(DefaultHudp, OwnDefaults)

BuilderInit ==
  /\ flags \in CommandLines
  /\ builder = NewBuilder
  /\ chosen = Defaults

\* WorkerNumber, WorkerQueueSize, MaxRpcSessions or DefaultRpcTimeout.
CallSetter(name) ==
  /\ \E n \in Values[name] :
       LET b == Set([builder EXCEPT !.threw = FALSE], name, n)
       IN /\ builder' = b
          /\ chosen' = IF b.threw THEN chosen ELSE [chosen EXCEPT ![name] = n]
  /\ UNCHANGED flags

\* What a builder holds under a name, and what it holds where there is no flag.
Held(b, name) == IF name \in HudpNames THEN b.hudp[name] ELSE b.opt[name]
HoldsChosen ==
  /\ \A name \in Names : flags[name] = NoFlag => Held(builder, name) = chosen[name]
  /\ builder.opt.max_rpc_sessions \in AnySessions

\* What a Build at this point leaves and, if it does not throw, returns.
BuildNow == Built([builder EXCEPT !.threw = FALSE])

\* Build, its result thrown away: examples and tests keep a builder.
Build == builder' = BuildNow /\ UNCHANGED <<flags, chosen>>
=============================================================================
