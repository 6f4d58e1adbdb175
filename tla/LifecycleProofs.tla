-------------------------- MODULE LifecycleProofs --------------------------
(* What holds of Lifecycle for every set of values and flags, number of       *)
(* workers and order of calls: flags win over setters, a worker that calls    *)
(* back finds its core, and a core refuses a call only when its share of the  *)
(* sessions is pending.                                                       *)
EXTENDS Lifecycle, FiniteSetTheorems, WellFoundedInduction, TLAPS

-----------------------------------------------------------------------------
(* The builder.                                                               *)

Builders == [hudp : [HudpNames -> Nat], opt : Opt, threw : BOOLEAN]

Good(b) ==
  /\ b \in Builders
  /\ b.hudp.worker_num # 0
  /\ b.opt.default_rpc_timeout \in 1 .. TimeoutSpan - 1
  /\ b.opt.max_rpc_sessions \in AnySessions

\* What setters may be given.
LEMMA ValueTypes ==
  ASSUME NEW name \in Names
  PROVE  /\ Values[name] \subseteq Nat
         /\ name = "worker_num" => 0 \notin Values[name]
         /\ name = "max_rpc_sessions" => Values[name] \subseteq AnySessions
<1>1. Values[name] \subseteq Nat
  BY ValuesAssumption
<1>2. Values["worker_num"] = WorkerNums /\ Values["max_rpc_sessions"] = MaxSessions
  BY DEF Values
<1> QED BY <1>1, <1>2, ValuesAssumption DEF AnySessions

\* A setter that throws stores nothing; one that returns stores what it was
\* given, and only that.
LEMMA SetStores ==
  ASSUME NEW b \in Builders, Good(b), NEW name \in Names, NEW n \in Values[name]
  PROVE  /\ Good(Set(b, name, n))
         /\ ~Valid(b, name, n) =>
              /\ Set(b, name, n).threw
              /\ \A other \in Names : Held(Set(b, name, n), other) = Held(b, other)
         /\ Valid(b, name, n) =>
              /\ Set(b, name, n).threw = b.threw
              /\ Held(Set(b, name, n), name) = n
              /\ \A other \in Names \ {name} :
                   Held(Set(b, name, n), other) = Held(b, other)
<1>1. /\ b.hudp \in [HudpNames -> Nat] /\ b.opt \in [Names -> Nat] /\ b.threw \in BOOLEAN
      /\ b = [hudp |-> b.hudp, opt |-> b.opt, threw |-> b.threw]
  BY DEF Builders, Opt
<1>2. n \in Nat /\ HudpNames \subseteq Names
  BY ValueTypes DEF HudpNames, Names
<1>3. CASE ~Valid(b, name, n)
  <2> DEFINE c == [b EXCEPT !.threw = TRUE]
  <2>1. Set(b, name, n) = c
    BY <1>3 DEF Set
  <2>2. c.hudp = b.hudp /\ c.opt = b.opt /\ c.threw = TRUE /\ c \in Builders
    BY DEF Builders
  <2> HIDE DEF c
  <2> QED BY <1>3, <2>1, <2>2 DEF Good, Held
<1>4. CASE Valid(b, name, n) /\ name \in HudpNames
  <2> DEFINE c == [b EXCEPT !.hudp[name] = n]
  <2>1. Set(b, name, n) = c
    BY <1>4 DEF Set
  <2>2. /\ c.hudp = [b.hudp EXCEPT ![name] = n] /\ c.opt = b.opt /\ c.threw = b.threw
        /\ c = [hudp |-> c.hudp, opt |-> c.opt, threw |-> c.threw]
    BY <1>1
  <2> HIDE DEF c
  <2>3. c.hudp \in [HudpNames -> Nat] /\ c.hudp[name] = n
    BY <1>1, <1>2, <1>4, <2>2
  <2>4. \A other \in HudpNames \ {name} : c.hudp[other] = b.hudp[other]
    BY <1>1, <2>2
  <2>5. c \in Builders
    BY <1>1, <2>2, <2>3 DEF Builders, Opt
  <2>6. c.hudp.worker_num # 0
    <3>1. "worker_num" \in HudpNames
      BY DEF HudpNames
    <3>2. CASE name = "worker_num"
      BY <2>3, <3>2, ValueTypes
    <3>3. CASE name # "worker_num"
      BY <2>4, <3>1, <3>3 DEF Good
    <3> QED BY <3>2, <3>3
  <2>7. Good(c)
    BY <2>2, <2>5, <2>6 DEF Good
  <2>8. Held(c, name) = n /\ \A other \in Names \ {name} : Held(c, other) = Held(b, other)
    BY <1>4, <2>2, <2>3, <2>4 DEF Held
  <2> QED BY <1>4, <2>1, <2>2, <2>7, <2>8
<1>5. CASE Valid(b, name, n) /\ name \notin HudpNames
  <2> DEFINE c == [b EXCEPT !.opt[name] = n]
  <2>1. Set(b, name, n) = c
    BY <1>5 DEF Set, Store
  <2>2. /\ c.opt = [b.opt EXCEPT ![name] = n] /\ c.hudp = b.hudp /\ c.threw = b.threw
        /\ c = [hudp |-> c.hudp, opt |-> c.opt, threw |-> c.threw]
    BY <1>1
  <2> HIDE DEF c
  <2>3. c.opt \in [Names -> Nat] /\ c.opt[name] = n
    BY <1>1, <1>2, <2>2
  <2>4. \A other \in Names \ {name} : c.opt[other] = b.opt[other]
    BY <1>1, <2>2
  <2>5. c \in Builders
    BY <1>1, <2>2, <2>3 DEF Builders, Opt
  <2>6. c.opt.default_rpc_timeout \in 1 .. TimeoutSpan - 1
    <3>1. "default_rpc_timeout" \in Names
      BY DEF Names
    <3>2. CASE name = "default_rpc_timeout"
      BY <1>5, <2>3, <3>2 DEF Valid
    <3>3. CASE name # "default_rpc_timeout"
      BY <2>4, <3>1, <3>3 DEF Good
    <3> QED BY <3>2, <3>3
  <2>7. c.opt.max_rpc_sessions \in AnySessions
    <3>1. "max_rpc_sessions" \in Names
      BY DEF Names
    <3>2. CASE name = "max_rpc_sessions"
      BY <2>3, <3>2, ValueTypes
    <3>3. CASE name # "max_rpc_sessions"
      BY <2>4, <3>1, <3>3 DEF Good
    <3> QED BY <3>2, <3>3
  <2>8. Good(c)
    BY <2>2, <2>5, <2>6, <2>7 DEF Good
  <2>9. Held(c, name) = n /\ \A other \in Names \ {name} : Held(c, other) = Held(b, other)
    BY <1>5, <2>2, <2>3, <2>4 DEF Held
  <2> QED BY <1>5, <2>1, <2>2, <2>8, <2>9
<1> QED BY <1>3, <1>4, <1>5

\* A flag overrides what its setter was given, unless an earlier one threw.
LEMMA OverrideStores ==
  ASSUME flags \in CommandLines, NEW b \in Builders, Good(b), NEW name \in Names
  PROVE  /\ Good(MayOverride(b, name))
         /\ b.threw => MayOverride(b, name) = b
         /\ flags[name] = NoFlag => MayOverride(b, name) = b
         /\ \A other \in Names \ {name} : Held(MayOverride(b, name), other) = Held(b, other)
         /\ flags[name] # NoFlag /\ ~MayOverride(b, name).threw =>
              Held(MayOverride(b, name), name) = flags[name]
<1>1. CASE b.threw \/ flags[name] = NoFlag
  BY <1>1 DEF MayOverride
<1>2. CASE ~b.threw /\ flags[name] # NoFlag
  <2>1. flags[name] \in Values[name]
    BY <1>2, FlagAssumption
  <2>2. MayOverride(b, name) = Set(b, name, flags[name])
    BY <1>2 DEF MayOverride
  <2> QED BY <1>2, <2>1, <2>2, SetStores
<1> QED BY <1>1, <1>2

\* Build: where there is no flag a name keeps its value, and the Options it
\* returns have the flags where there are any.
LEMMA BuiltOptions ==
  ASSUME flags \in CommandLines, NEW b \in Builders, Good(b), ~b.threw
  PROVE  /\ Good(Built(b))
         /\ \A name \in Names : flags[name] = NoFlag =>
              Held(Built(b), name) = Held(b, name)
         /\ ~Built(b).threw => \A name \in Names :
              Built(b).opt[name] =
                IF flags[name] = NoFlag THEN Held(b, name) ELSE flags[name]
         /\ ~Built(b).threw => Built(b).opt.worker_num > 0
<1> DEFINE b1 == MayOverride(b, "worker_num")
           b2 == MayOverride(b1, "worker_queue_size")
           b3 == MayOverride(b2, "max_rpc_sessions")
           b4 == MayOverride(b3, "default_rpc_timeout")
<1>1. Names = {"worker_num", "worker_queue_size", "max_rpc_sessions", "default_rpc_timeout"}
  BY DEF Names
<1>2. b1 \in Builders /\ Good(b1)
  BY <1>1, OverrideStores DEF Good
<1>3. b2 \in Builders /\ Good(b2)
  <2> HIDE DEF b1
  <2> QED BY <1>1, <1>2, OverrideStores DEF Good
<1>4. b3 \in Builders /\ Good(b3)
  <2> HIDE DEF b2
  <2> QED BY <1>1, <1>3, OverrideStores DEF Good
<1>5. b4 \in Builders /\ Good(b4)
  <2> HIDE DEF b3
  <2> QED BY <1>1, <1>4, OverrideStores DEF Good
<1>6. ASSUME NEW name \in Names, flags[name] = NoFlag
      PROVE  Held(b4, name) = Held(b, name)
  <2>1. Held(b1, name) = Held(b, name)
    BY <1>1, <1>6, OverrideStores
  <2>2. Held(b2, name) = Held(b1, name)
    <3> HIDE DEF b1
    <3> QED BY <1>1, <1>2, <1>6, OverrideStores
  <2>3. Held(b3, name) = Held(b2, name)
    <3> HIDE DEF b2
    <3> QED BY <1>1, <1>3, <1>6, OverrideStores
  <2>4. Held(b4, name) = Held(b3, name)
    <3> HIDE DEF b3
    <3> QED BY <1>1, <1>4, <1>6, OverrideStores
  <2> HIDE DEF b1, b2, b3, b4
  <2> QED BY <2>1, <2>2, <2>3, <2>4
<1>7. ASSUME ~b4.threw PROVE ~b3.threw /\ ~b2.threw /\ ~b1.threw
  <2>1. ~b3.threw
    <3> HIDE DEF b3
    <3> QED BY <1>1, <1>4, <1>7, OverrideStores
  <2>2. ~b2.threw
    <3> HIDE DEF b2
    <3> QED BY <1>1, <1>3, <2>1, OverrideStores
  <2>3. ~b1.threw
    <3> HIDE DEF b1
    <3> QED BY <1>1, <1>2, <2>2, OverrideStores
  <2> QED BY <2>1, <2>2, <2>3
<1>8. ASSUME ~b4.threw, NEW name \in Names, flags[name] # NoFlag
      PROVE  Held(b4, name) = flags[name]
  <2>1. name = "worker_num" => Held(b1, name) = flags[name]
    BY <1>1, <1>7, <1>8, OverrideStores
  <2>2. /\ name # "worker_queue_size" => Held(b2, name) = Held(b1, name)
        /\ name = "worker_queue_size" => Held(b2, name) = flags[name]
    <3> HIDE DEF b1
    <3> QED BY <1>1, <1>2, <1>7, <1>8, OverrideStores
  <2>3. /\ name # "max_rpc_sessions" => Held(b3, name) = Held(b2, name)
        /\ name = "max_rpc_sessions" => Held(b3, name) = flags[name]
    <3> HIDE DEF b2
    <3> QED BY <1>1, <1>3, <1>7, <1>8, OverrideStores
  <2>4. /\ name # "default_rpc_timeout" => Held(b4, name) = Held(b3, name)
        /\ name = "default_rpc_timeout" => Held(b4, name) = flags[name]
    <3> HIDE DEF b3
    <3> QED BY <1>1, <1>4, <1>8, OverrideStores
  <2> HIDE DEF b1, b2, b3, b4
  <2> QED BY <1>1, <2>1, <2>2, <2>3, <2>4
<1> DEFINE c == [b4 EXCEPT !.opt = WithHudp(b4.hudp, b4.opt)]
<1>9. Built(b) = IF b4.threw THEN b4 ELSE c
  BY DEF Built
<1>10. CASE b4.threw
  <2> HIDE DEF b4
  <2> QED BY <1>5, <1>6, <1>9, <1>10
<1>11. CASE ~b4.threw
  <2>1. ~b4.threw => \A name \in Names : flags[name] # NoFlag => Held(b4, name) = flags[name]
    BY <1>8
  <2> HIDE DEF b4
  <2>2. /\ b4.hudp \in [HudpNames -> Nat] /\ b4.opt \in [Names -> Nat] /\ b4.threw \in BOOLEAN
        /\ b4 = [hudp |-> b4.hudp, opt |-> b4.opt, threw |-> b4.threw]
    BY <1>5 DEF Builders, Opt
  <2>3. /\ c.hudp = b4.hudp /\ c.opt = WithHudp(b4.hudp, b4.opt) /\ c.threw = b4.threw
        /\ c = [hudp |-> c.hudp, opt |-> c.opt, threw |-> c.threw]
    BY <2>2
  <2> HIDE DEF c
  <2>4. /\ c.opt \in [Names -> Nat]
        /\ \A name \in Names : c.opt[name] = Held(b4, name) /\ Held(c, name) = Held(b4, name)
    BY <2>2, <2>3 DEF WithHudp, Held
  <2>5. c \in Builders
    BY <2>2, <2>3, <2>4 DEF Builders, Opt
  <2>6. Good(c)
    <3>1. /\ c.opt["default_rpc_timeout"] = b4.opt["default_rpc_timeout"]
          /\ c.opt["max_rpc_sessions"] = b4.opt["max_rpc_sessions"]
      BY <2>3 DEF WithHudp, Names, HudpNames
    <3> QED BY <1>5, <2>3, <2>5, <3>1 DEF Good
  <2>7. c.opt["worker_num"] = b4.hudp["worker_num"]
    BY <2>3 DEF WithHudp, Names, HudpNames
  <2>8. c.opt.worker_num > 0
    <3>1. b4.hudp["worker_num"] \in Nat
      BY <2>2 DEF HudpNames
    <3> QED BY <1>5, <2>7, <3>1 DEF Good
  <2>9. Built(b) = c
    BY <1>9, <1>11
  <2> QED BY <1>6, <1>11, <2>1, <2>4, <2>6, <2>8, <2>9
<1> QED BY <1>10, <1>11

\* The last Build's answer does not carry over to the next call.
LEMMA FreshCall ==
  ASSUME NEW b \in Builders, Good(b)
  PROVE  LET c == [b EXCEPT !.threw = FALSE]
         IN  /\ c \in Builders /\ Good(c) /\ ~c.threw
             /\ \A name \in Names : Held(c, name) = Held(b, name)
<1> DEFINE c == [b EXCEPT !.threw = FALSE]
<1>1. c \in Builders /\ c.hudp = b.hudp /\ c.opt = b.opt /\ c.threw = FALSE
  BY DEF Builders
<1> HIDE DEF c
<1>2. Good(c) /\ \A name \in Names : Held(c, name) = Held(b, name)
  BY <1>1 DEF Good, Held
<1> QED BY <1>1, <1>2 DEF c

BuilderInv == BuilderOK /\ HoldsChosen

\* The parts of the invariant about the builder.
LEMMA BuilderGood == BuilderInv <=> /\ flags \in CommandLines /\ Good(builder) /\ chosen \in Opt
                                    /\ \A name \in Names :
                                         flags[name] = NoFlag => Held(builder, name) = chosen[name]
BY DEF BuilderInv, BuilderOK, HoldsChosen, Good, Builders

\* A builder before anything is called.
LEMMA NewBuilderGood ==
  /\ Good(NewBuilder) /\ ~NewBuilder.threw
  /\ Defaults \in Opt
  /\ \A name \in Names : Held(NewBuilder, name) = Defaults[name]
<1>1. OwnDefaults \in [Names \ HudpNames -> Nat]
  BY DefaultAssumption DEF OwnDefaults
<1>2. DefaultHudp \in [HudpNames -> Nat] /\ BlankHudp \in [HudpNames -> Nat]
  BY ValuesAssumption
<1>3. WithHudp(BlankHudp, OwnDefaults) \in Opt /\ Defaults \in Opt
  BY <1>1, <1>2 DEF WithHudp, Opt, Defaults
<1>4. /\ NewBuilder.hudp = DefaultHudp /\ NewBuilder.opt = WithHudp(BlankHudp, OwnDefaults)
      /\ NewBuilder.threw = FALSE
  BY DEF NewBuilder
<1>5. NewBuilder \in Builders
  BY <1>2, <1>3 DEF NewBuilder, Builders
<1>6. \A name \in Names : Held(NewBuilder, name) = Defaults[name]
  BY <1>4 DEF Held, Defaults, WithHudp
<1>7. NewBuilder.opt["max_rpc_sessions"] = DefaultSessions
  BY <1>4 DEF WithHudp, OwnDefaults, Names, HudpNames
<1>8. NewBuilder.opt["default_rpc_timeout"] = DefaultTimeout
  BY <1>4 DEF WithHudp, OwnDefaults, Names, HudpNames
<1>9. NewBuilder.hudp["worker_num"] # 0
  BY <1>4, ValuesAssumption DEF HudpNames
<1> QED BY <1>3, <1>4, <1>5, <1>6, <1>7, <1>8, <1>9, DefaultAssumption DEF Good, AnySessions

\* Setters and Builds keep what the builder holds and what was chosen in step.
LEMMA BuilderStep ==
  ASSUME BuilderInv, Build \/ \E name \in Names : CallSetter(name)
  PROVE  BuilderInv'
<1> DEFINE fresh == [builder EXCEPT !.threw = FALSE]
<1>1. /\ flags \in CommandLines /\ Good(builder) /\ builder \in Builders /\ chosen \in Opt
      /\ \A name \in Names : flags[name] = NoFlag => Held(builder, name) = chosen[name]
  BY BuilderGood DEF Good
<1>2. /\ fresh \in Builders /\ Good(fresh) /\ ~fresh.threw
      /\ \A name \in Names : Held(fresh, name) = Held(builder, name)
  BY <1>1, FreshCall
<1> SUFFICES /\ flags' \in CommandLines /\ Good(builder)' /\ chosen' \in Opt
             /\ \A name \in Names :
                  flags'[name] = NoFlag => Held(builder, name)' = chosen'[name]
  BY DEF BuilderInv, BuilderOK, HoldsChosen, Good, Builders
<1>3. CASE Build
  <2>1. builder' = Built(fresh) /\ flags' = flags /\ chosen' = chosen
    BY <1>3 DEF Build, BuildNow
  <2>2. /\ Good(Built(fresh))
        /\ \A name \in Names : flags[name] = NoFlag =>
             Held(Built(fresh), name) = Held(fresh, name)
    <3> HIDE DEF fresh
    <3> QED BY <1>1, <1>2, BuiltOptions
  <2> HIDE DEF fresh
  <2> QED BY <1>1, <1>2, <2>1, <2>2 DEF Good, Held
<1>4. ASSUME NEW name \in Names, CallSetter(name)
      PROVE  /\ flags' \in CommandLines /\ Good(builder)' /\ chosen' \in Opt
             /\ \A other \in Names :
                  flags'[other] = NoFlag => Held(builder, other)' = chosen'[other]
  <2> DEFINE stored(n) == Set(fresh, name, n)
  <2>1. PICK n \in Values[name] :
          /\ builder' = stored(n) /\ flags' = flags
          /\ chosen' = IF stored(n).threw THEN chosen ELSE [chosen EXCEPT ![name] = n]
    BY <1>4 DEF CallSetter
  <2>2. /\ Good(stored(n))
        /\ ~Valid(fresh, name, n) =>
             /\ stored(n).threw
             /\ \A other \in Names : Held(stored(n), other) = Held(fresh, other)
        /\ Valid(fresh, name, n) =>
             /\ stored(n).threw = fresh.threw
             /\ Held(stored(n), name) = n
             /\ \A other \in Names \ {name} :
                  Held(stored(n), other) = Held(fresh, other)
    <3> HIDE DEF fresh
    <3> QED BY <1>2, SetStores
  <2>3. n \in Nat /\ chosen \in [Names -> Nat]
    BY <1>1, ValueTypes DEF Opt
  <2> HIDE DEF fresh, stored
  <2>4. chosen' \in Opt
    BY <2>1, <2>3 DEF Opt
  <2>5. \A other \in Names : Held(builder, other)' = Held(stored(n), other)
    BY <2>1 DEF Held
  <2>6. Good(builder)'
    BY <2>1, <2>2 DEF Good
  <2>7. CASE Valid(fresh, name, n)
    <3>1. chosen' = [chosen EXCEPT ![name] = n]
      BY <1>2, <2>1, <2>2, <2>7
    <3> QED BY <1>1, <1>2, <2>1, <2>2, <2>3, <2>4, <2>5, <2>6, <2>7, <3>1
  <2>8. CASE ~Valid(fresh, name, n)
    <3>1. chosen' = chosen
      BY <2>1, <2>2, <2>8
    <3> QED BY <1>1, <1>2, <2>1, <2>2, <2>4, <2>5, <2>6, <2>8, <3>1
  <2> QED BY <2>7, <2>8
<1> QED BY <1>3, <1>4

\* What a Build gives to the object.
LEMMA BuildNowOptions ==
  ASSUME BuilderInv, ~BuildNow.threw
  PROVE  /\ BuildNow.opt \in Opt /\ BuildNow.opt.worker_num > 0
         /\ BuildNow.opt.max_rpc_sessions \in AnySessions
         /\ \A name \in Names : BuildNow.opt[name] =
              IF flags[name] = NoFlag THEN chosen[name] ELSE flags[name]
<1> DEFINE fresh == [builder EXCEPT !.threw = FALSE]
<1>1. /\ flags \in CommandLines /\ Good(builder) /\ builder \in Builders
      /\ \A name \in Names : flags[name] = NoFlag => Held(builder, name) = chosen[name]
  BY BuilderGood DEF Good
<1>2. /\ fresh \in Builders /\ Good(fresh) /\ ~fresh.threw
      /\ \A name \in Names : Held(fresh, name) = Held(builder, name)
  BY <1>1, FreshCall
<1>3. BuildNow = Built(fresh)
  BY DEF BuildNow
<1> HIDE DEF fresh
<1>4. Good(Built(fresh))
  BY <1>1, <1>2, BuiltOptions
<1>5. /\ Built(fresh).opt.worker_num > 0
      /\ \A name \in Names : Built(fresh).opt[name] =
           IF flags[name] = NoFlag THEN Held(fresh, name) ELSE flags[name]
  BY <1>1, <1>2, <1>3, BuiltOptions
<1>6. Built(fresh).opt \in Opt /\ Built(fresh).opt.max_rpc_sessions \in AnySessions
  BY <1>4 DEF Good, Builders
<1> QED BY <1>1, <1>2, <1>3, <1>5, <1>6

-----------------------------------------------------------------------------
(* The pools.                                                                 *)

\* A quotient by a positive number, and one by nine tenths.
LEMMA Quotients ==
  ASSUME NEW n \in Nat, NEW d \in Nat, d > 0
  PROVE  /\ n \div d \in Nat /\ n \div d <= n
         /\ n <= (n * 10) \div 9
<1>1. n \div d \in Int
  OBVIOUS
<1> DEFINE q == n \div d
<1>2. d * q <= n /\ n < d * q + d
  OBVIOUS
<1>3. q \in Int
  BY <1>1
<1> HIDE DEF q
<1>4. q >= 0 /\ q <= d * q
  <2>1. CASE q < 0
    <3>1. d * q + d <= 0
      BY <1>3, <2>1
    <3>2. d * q + d \in Int
      BY <1>3
    <3> QED BY <1>2, <3>1, <3>2
  <2>2. CASE q >= 0
    <3>1. d * q = q + (d - 1) * q
      BY <1>3
    <3>2. (d - 1) * q >= 0
      BY <1>3, <2>2
    <3> QED BY <1>3, <2>2, <3>1, <3>2
  <2> QED BY <1>3, <2>1, <2>2
<1>5. n <= (n * 10) \div 9
  OBVIOUS
<1>6. d * q \in Int
  BY <1>3
<1>7. q \in Nat /\ q <= n
  BY <1>2, <1>3, <1>4, <1>6
<1> QED BY <1>5, <1>7 DEF q

\* Aligned finds a power of two that is large enough.
LEMMA AlignedHolds ==
  ASSUME NEW size \in Nat, size <= 2 ^ 30
  PROVE  Aligned(size) \in Nat /\ Aligned(size) >= size
<1> DEFINE S == {p \in PowersOfTwo : p >= size}
<1>1. PowersOfTwo \subseteq Nat /\ 2 ^ 30 \in PowersOfTwo
  BY DEF PowersOfTwo
<1>2. S \subseteq Nat /\ S # {}
  BY <1>1
<1>3. IsWellFoundedOn(OpToRel(<, Nat), Nat)
  BY NatLessThanWellFounded
<1>4. \A p \in S : p >= size
  OBVIOUS
<1>5. Aligned(size) = Min(S)
  BY DEF Aligned
<1> HIDE DEF S
<1>6. PICK x \in S : \A y \in S : ~ (<<y, x>> \in OpToRel(<, Nat))
  BY <1>2, <1>3, WFMin
<1>7. \A y \in S : x <= y
  <2>1. \A y \in S : ~ (y < x)
    BY <1>2, <1>6 DEF OpToRel
  <2> QED BY <1>2, <2>1
<1>8. Min(S) \in S
  BY <1>7 DEF Min
<1> QED BY <1>2, <1>4, <1>5, <1>8

\* Each power of two PowersOfTwo has is twice the one before it.
LEMMA PowersDouble ==
  ASSUME NEW order \in 1 .. 30
  PROVE  2 ^ order = 2 * 2 ^ (order - 1) /\ 2 ^ order > 0
<1> DEFINE Doubles(k) == 2 ^ k = 2 * 2 ^ (k - 1) /\ 2 ^ k > 0
<1>1. /\ Doubles(1) /\ Doubles(2) /\ Doubles(3) /\ Doubles(4) /\ Doubles(5) /\ Doubles(6)
      /\ Doubles(7) /\ Doubles(8) /\ Doubles(9) /\ Doubles(10) /\ Doubles(11) /\ Doubles(12)
      /\ Doubles(13) /\ Doubles(14) /\ Doubles(15) /\ Doubles(16) /\ Doubles(17) /\ Doubles(18)
      /\ Doubles(19) /\ Doubles(20) /\ Doubles(21) /\ Doubles(22) /\ Doubles(23) /\ Doubles(24)
      /\ Doubles(25) /\ Doubles(26) /\ Doubles(27) /\ Doubles(28) /\ Doubles(29) /\ Doubles(30)
  OBVIOUS
<1>2. Doubles(order)
  <2> HIDE DEF Doubles
  <2> QED BY <1>1
<1> QED BY <1>2

\* The power of two Aligned finds is less than twice what was asked for.
LEMMA AlignedBelowTwice ==
  ASSUME NEW size \in Nat, size <= 2 ^ 30
  PROVE  Aligned(size) \in Nat /\ (Aligned(size) <= 1 \/ Aligned(size) <= 2 * size)
<1> DEFINE S == {p \in PowersOfTwo : p >= size}
<1>1. PowersOfTwo \subseteq Nat /\ 2 ^ 30 \in PowersOfTwo
  BY DEF PowersOfTwo
<1>2. S \subseteq Nat /\ S # {}
  BY <1>1
<1>3. IsWellFoundedOn(OpToRel(<, Nat), Nat)
  BY NatLessThanWellFounded
<1>4. Aligned(size) = Min(S) /\ S \subseteq PowersOfTwo
  BY DEF Aligned
<1>5. \A p \in PowersOfTwo : p >= size => p \in S
  OBVIOUS
<1> HIDE DEF S
<1>6. PICK x \in S : \A y \in S : ~ (<<y, x>> \in OpToRel(<, Nat))
  BY <1>2, <1>3, WFMin
<1>7. \A y \in S : x <= y
  <2>1. \A y \in S : ~ (y < x)
    BY <1>2, <1>6 DEF OpToRel
  <2> QED BY <1>2, <2>1
<1> DEFINE a == Min(S)
<1>8. a \in S /\ \A y \in S : a <= y
  BY <1>7 DEF Min
<1> HIDE DEF a
<1>9. PICK order \in 0 .. 30 : a = 2 ^ order
  BY <1>4, <1>8 DEF PowersOfTwo
<1>10. CASE order = 0
  BY <1>2, <1>4, <1>8, <1>9, <1>10 DEF a
<1>11. CASE order # 0
  <2> DEFINE half == 2 ^ (order - 1)
  <2>1. order - 1 \in 0 .. 30 /\ a = 2 * half /\ a > 0
    <3>1. order \in 1 .. 30 /\ order - 1 \in 0 .. 30
      BY <1>11
    <3>2. 2 ^ order = 2 * 2 ^ (order - 1) /\ 2 ^ order > 0
      BY ONLY <3>1, PowersDouble
    <3>3. a = 2 * half /\ a > 0
      BY <1>9, <3>2, Zenon
    <3> QED BY <3>1, <3>3
  <2>2. half \in PowersOfTwo /\ half \in Nat
    BY <1>1, <2>1 DEF PowersOfTwo
  <2> HIDE DEF half
  <2>3. half >= size => a <= half
    BY <1>5, <1>8, <2>2
  <2>4. half < size
    BY <2>1, <2>2, <2>3
  <2> QED BY <1>2, <1>4, <1>8, <2>1, <2>2, <2>4 DEF a
<1> QED BY <1>10, <1>11

\* A core's pool has room for its share of max_rpc_sessions.
LEMMA PoolHoldsShare ==
  ASSUME NEW opt \in Opt, opt.worker_num > 0, opt.max_rpc_sessions \in AnySessions
  PROVE  /\ opt.max_rpc_sessions \div opt.worker_num \in Nat
         /\ PoolSize(opt) \in Nat
         /\ PoolSize(opt) >= opt.max_rpc_sessions \div opt.worker_num
<1> DEFINE n == opt.max_rpc_sessions
           share == n \div opt.worker_num
           size == (share * 10) \div 9
<1>1. n \in Nat /\ opt.worker_num \in Nat
  BY DEF Opt, Names
<1>2. share \in Nat /\ share <= n
  BY <1>1, Quotients
<1>3. (n * 10) \div 9 <= 2 ^ 30
  BY SizeAssumption
<1>4. PoolSize(opt) = Aligned(size)
  BY DEF PoolSize, CalcSessionPoolSize
<1> HIDE DEF share
<1>5. share <= size /\ size \in Nat /\ size <= (n * 10) \div 9
  <2> HIDE DEF n
  <2> QED BY <1>1, <1>2
<1>6. 2 ^ 30 \in Nat
  OBVIOUS
<1> HIDE DEF size, n
<1>7. size <= 2 ^ 30
  BY <1>1, <1>3, <1>5, <1>6
<1> QED BY <1>2, <1>4, <1>5, <1>7, AlignedHolds DEF share, n

-----------------------------------------------------------------------------
(* The vector of the cores.                                                   *)

Cores(Ids, Rs) == [id : Ids, routing : Rs, pending : Nat]

\* The cores after one round of Start's loop.
WithCore(v, routing) == [Append(v, NewCore) EXCEPT ![Len(v) + 1].id = Len(v),
                                                   ![Len(v) + 1].routing = routing]

\* One round of Start's loop leaves the cores before it alone.
LEMMA CoreAdded ==
  ASSUME NEW Ids, NEW Rs, NEW v \in Seq(Cores(Ids, Rs)), NEW routing \in Rs,
         Len(v) \in Ids, NoId \in Ids, NoRouting \in Rs,
         NEW u, u = WithCore(v, routing)
  PROVE  /\ u \in Seq(Cores(Ids, Rs)) /\ Len(u) = Len(v) + 1
         /\ u[Len(v) + 1].id = Len(v) /\ u[Len(v) + 1].routing = routing
         /\ u[Len(v) + 1].pending = 0
         /\ \A k \in 1 .. Len(v) : u[k] = v[k]
<1> DEFINE C == Cores(Ids, Rs)
           core == [id |-> Len(v), routing |-> routing, pending |-> 0]
           a == Append(v, NewCore)
<1>1. NewCore \in C /\ core \in C
  BY DEF NewCore, Cores
<1>2. v \in Seq(C)
  OBVIOUS
<1> HIDE DEF C, core
<1>3. a \in Seq(C) /\ Len(a) = Len(v) + 1 /\ a[Len(v) + 1] = NewCore
      /\ \A k \in 1 .. Len(v) : a[k] = v[k]
  BY <1>1, <1>2
<1> HIDE DEF a
<1>4. [[NewCore EXCEPT !.id = Len(v)] EXCEPT !.routing = routing] = core
  <2>1. [NewCore EXCEPT !.id = Len(v)] = [id |-> Len(v), routing |-> NoRouting, pending |-> 0]
    BY DEF NewCore
  <2>2. [[id |-> Len(v), routing |-> NoRouting, pending |-> 0] EXCEPT !.routing = routing]
           = core
    BY DEF core
  <2> QED BY <2>1, <2>2
<1>5. u = [a EXCEPT ![Len(v) + 1] = core]
  BY <1>3, <1>4 DEF a, WithCore
<1>6. Len(v) + 1 \in 1 .. Len(a) /\ Len(v) \in Nat
  BY <1>2, <1>3
<1>7. u \in Seq(C) /\ Len(u) = Len(a)
  BY <1>1, <1>3, <1>5, <1>6
<1>8. u[Len(v) + 1] = core /\ \A k \in 1 .. Len(v) : u[k] = a[k]
  BY <1>3, <1>5, <1>6
<1>9. core.id = Len(v) /\ core.routing = routing /\ core.pending = 0
  BY DEF core
<1> QED BY <1>3, <1>7, <1>8, <1>9 DEF C

\* A call that opens or ends changes only how many are pending.
LEMMA PendingChanged ==
  ASSUME NEW Ids, NEW Rs, NEW v \in Seq(Cores(Ids, Rs)), NEW k \in 1 .. Len(v),
         NEW n \in Nat, NEW u, u = [v EXCEPT ![k].pending = n]
  PROVE  /\ u \in Seq(Cores(Ids, Rs)) /\ Len(u) = Len(v)
         /\ \A j \in 1 .. Len(v) : u[j].id = v[j].id /\ u[j].routing = v[j].routing
         /\ u[k].pending = n /\ \A j \in (1 .. Len(v)) \ {k} : u[j] = v[j]
<1> DEFINE C == Cores(Ids, Rs)
           core == [v[k] EXCEPT !.pending = n]
<1>1. v[k] \in C /\ v \in Seq(C)
  OBVIOUS
<1>2. core \in C /\ core.id = v[k].id /\ core.routing = v[k].routing /\ core.pending = n
  BY <1>1 DEF Cores
<1>3. u = [v EXCEPT ![k] = core]
  OBVIOUS
<1> HIDE DEF C, core
<1> QED BY <1>1, <1>2, <1>3 DEF C

-----------------------------------------------------------------------------
(* The object.                                                                *)

\* TypeOK without the builder.
ObjectOK ==
  /\ options \in Opt \cup {NoOptions}
  /\ at \in {"builder", "idle", "cores", "hudp", "hudp runs", "destructor", "gone",
            "aborted"}
  /\ i \in {0} \cup {w + 1 : w \in Workers}
  /\ starts \in 0 .. MaxStarts
  /\ on_service_routing \in Routings \cup {NoRouting}
  /\ rpc_core_vec \in Seq(RpcCore) /\ Len(rpc_core_vec) <= i
  /\ is_initialized \in BOOLEAN
  /\ running \subseteq Workers
  /\ handling \in [Workers -> {"nothing", "packet", "call"}]
  /\ \A w \in Workers : handling[w] # "nothing" => w \in running
  /\ refused \subseteq Nat

ObjectInv == ObjectOK /\ MadeOnce /\ CoresInPlace /\ RunInTime /\ RefusedOnlyAtShare

\* The conjuncts of IInv that the others do not imply.
Core == BuilderInv /\ ObjectInv

\* The workers are those of the options, numbered from 0.
LEMMA WorkersOf ==
  ASSUME options \in Opt
  PROVE  /\ options # NoOptions /\ options.worker_num \in Nat
         /\ options.max_rpc_sessions \in Nat
         /\ Workers = 0 .. options.worker_num - 1
<1>1. options # NoOptions
  BY OptionsAssumption
<1>2. options.worker_num \in Nat /\ options.max_rpc_sessions \in Nat
  BY DEF Opt, Names
<1> QED BY <1>1, <1>2 DEF Workers

\* A worker that calls back is running, and hudp runs no worker while the cores
\* are being built; a started object has them all.
LEMMA CoreImplies == Core /\ PoolsHold => IInv
<1> SUFFICES ASSUME Core, PoolsHold PROVE IInv
  OBVIOUS
<1> USE DEF Core, ObjectInv
<1>1. TypeOK /\ HoldsChosen
  BY DEF BuilderInv, ObjectOK, TypeOK
<1>2. CoreFoundUntilDestructor
  <2> SUFFICES ASSUME NEW w \in Workers, handling[w] # "nothing", at # "destructor"
               PROVE  HasOwnCore(w)
    BY DEF CoreFoundUntilDestructor
  <2>1. w \in running
    BY DEF ObjectOK
  <2>2. at = "hudp runs" \/ (at = "idle" /\ is_initialized)
    BY <2>1 DEF RunInTime
  <2>3. options \in Opt
    BY <2>2 DEF ObjectOK, MadeOnce
  <2>4. w \in 0 .. options.worker_num - 1 /\ options.worker_num \in Nat
    BY <2>3, WorkersOf
  <2>5. CoresUpTo(options.worker_num)
    BY <2>2 DEF CoresInPlace
  <2> QED BY <2>4, <2>5 DEF CoresUpTo, HasOwnCore
<1>3. StartedComplete
  <2> SUFFICES ASSUME is_initialized, at = "idle"
               PROVE  /\ Len(rpc_core_vec) = options.worker_num
                      /\ \A w \in Workers :
                           /\ HasOwnCore(w)
                           /\ rpc_core_vec[w + 1].routing = rpc_core_vec[1].routing
    BY DEF StartedComplete
  <2>1. options \in Opt
    BY DEF ObjectOK, MadeOnce
  <2>2. CoresUpTo(options.worker_num)
    BY DEF CoresInPlace
  <2>3. PICK routing \in Routings \cup {NoRouting} : RouteAlike(routing)
    BY DEF CoresInPlace
  <2>4. Workers = 0 .. options.worker_num - 1 /\ options.worker_num \in Nat
    BY <2>1, WorkersOf
  <2>5. ASSUME NEW w \in Workers
        PROVE  HasOwnCore(w) /\ rpc_core_vec[w + 1].routing = rpc_core_vec[1].routing
    <3>1. w + 1 \in 1 .. Len(rpc_core_vec) /\ 1 \in 1 .. Len(rpc_core_vec) /\ w \in Nat
      BY <2>2, <2>4 DEF CoresUpTo
    <3>2. rpc_core_vec[w + 1].id = w
      BY <2>2, <3>1 DEF CoresUpTo
    <3> QED BY <2>2, <2>3, <3>1, <3>2 DEF RouteAlike, HasOwnCore
  <2> QED BY <2>2, <2>5 DEF CoresUpTo
<1> QED BY <1>1, <1>2, <1>3 DEF IInv

\* Before anything is called.
LEMMA InitCore == Init => Core
<1> SUFFICES ASSUME Init PROVE Core
  OBVIOUS
<1>1. BuilderInv
  <2>1. /\ flags \in CommandLines /\ Good(builder) /\ chosen \in Opt
        /\ \A name \in Names : Held(builder, name) = chosen[name]
    BY NewBuilderGood DEF Init, BuilderInit
  <2> QED BY <2>1, BuilderGood
<1>2. Workers = {}
  BY DEF Init, Workers
<1>3. rpc_core_vec = << >> /\ << >> \in Seq(RpcCore) /\ Len(<< >>) = 0
  BY DEF Init
<1>4. ObjectOK
  <2>1. /\ handling \in [Workers -> {"nothing", "packet", "call"}]
        /\ \A w \in Workers : handling[w] # "nothing" => w \in running
    BY DEF Init
  <2>2. rpc_core_vec \in Seq(RpcCore) /\ Len(rpc_core_vec) <= i
    BY <1>3 DEF Init
  <2>3. starts \in 0 .. MaxStarts
    BY StartsAssumption DEF Init
  <2> QED BY <2>1, <2>2, <2>3 DEF Init, ObjectOK
<1>5. MadeOnce /\ CoresInPlace /\ RunInTime /\ RefusedOnlyAtShare
  BY DEF Init, MadeOnce, CoresInPlace, RunInTime, RefusedOnlyAtShare
<1> QED BY <1>1, <1>4, <1>5 DEF Core, ObjectInv

-----------------------------------------------------------------------------
(* The steps of the application's thread.                                     *)

\* What depends on the options alone stays when they do.
LEMMA SameOptions ==
  ASSUME options' = options
  PROVE  Workers' = Workers /\ RpcCore' = RpcCore
BY DEF Workers, RpcCore

\* The builder's steps do not touch an object.
LEMMA BuilderKept ==
  ASSUME BuilderInv, UNCHANGED builderVars
  PROVE  BuilderInv'
BY DEF BuilderInv, BuilderOK, HoldsChosen, Held, builderVars

\* Setters and Builds: there is no object yet.
LEMMA SetOptionsStep == Core /\ SetOptions => Core'
<1> SUFFICES ASSUME Core, SetOptions PROVE Core'
  OBVIOUS
<1>1. BuilderInv'
  BY BuilderStep DEF Core, SetOptions
<1>2. UNCHANGED <<options, startVars, workerVars, rpc_core_vec, refused>>
  BY DEF SetOptions
<1>3. Workers' = Workers /\ RpcCore' = RpcCore
  BY <1>2, SameOptions
<1>4. ObjectOK'
  BY <1>2, <1>3 DEF Core, ObjectInv, ObjectOK, startVars, workerVars
<1>5. MadeOnce' /\ CoresInPlace' /\ RunInTime' /\ RefusedOnlyAtShare'
  BY <1>2 DEF Core, ObjectInv, startVars, workerVars, MadeOnce, CoresInPlace, CoresUpTo,
              RouteAlike, RunInTime, RefusedOnlyAtShare
<1> QED BY <1>1, <1>4, <1>5 DEF Core, ObjectInv

\* The object is made from a Build that returned.
LEMMA ConstructStep == Core /\ Construct => Core'
<1> SUFFICES ASSUME Core, Construct PROVE Core'
  OBVIOUS
<1>1. BuilderInv'
  <2>1. /\ flags' \in CommandLines /\ Good(NewBuilder) /\ Defaults \in Opt
        /\ builder' = NewBuilder /\ chosen' = Defaults
        /\ \A name \in Names : Held(NewBuilder, name) = Defaults[name]
    BY NewBuilderGood DEF Core, Construct, BuilderInv, BuilderOK
  <2> QED BY <2>1 DEF BuilderInv, BuilderOK, HoldsChosen, Good, Builders, Held
<1>2. /\ options' \in Opt /\ options'.worker_num > 0
      /\ options'.max_rpc_sessions \in AnySessions
  BY BuildNowOptions DEF Core, Construct
<1>3. options' # NoOptions /\ options'.worker_num \in Nat
  BY <1>2, OptionsAssumption DEF Opt, Names
<1>4. Workers' = 0 .. options'.worker_num - 1
  BY <1>3 DEF Workers
<1>5. options = NoOptions /\ refused = {} /\ rpc_core_vec = << >> /\ at = "builder"
  BY DEF Core, ObjectInv, Construct, MadeOnce, CoresInPlace
<1>6. i = 0 /\ running = {} /\ ~is_initialized
  BY <1>5 DEF Core, ObjectInv, ObjectOK, Workers, RunInTime
<1>7. << >> \in Seq(RpcCore') /\ Len(<< >>) = 0
  OBVIOUS
<1>8. UNCHANGED <<i, starts, on_service_routing, is_initialized, running, rpc_core_vec, refused>>
  BY DEF Construct
<1>9. ObjectOK'
  <2>1. handling' = [w \in Workers' |-> "nothing"]
    BY <1>4 DEF Construct
  <2>2. handling' \in [Workers' -> {"nothing", "packet", "call"}]
        /\ \A w \in Workers' : handling'[w] = "nothing"
    BY <2>1
  <2> QED BY <1>2, <1>5, <1>6, <1>7, <1>8, <2>2 DEF Core, ObjectInv, Construct, ObjectOK
<1>10. MadeOnce' /\ CoresInPlace' /\ RunInTime' /\ RefusedOnlyAtShare'
  BY <1>2, <1>3, <1>5, <1>6, <1>8
     DEF Construct, MadeOnce, CoresInPlace, RunInTime, RefusedOnlyAtShare
<1> QED BY <1>1, <1>9, <1>10 DEF Core, ObjectInv

\* The steps after the object was made.
LEMMA MadeAlready ==
  ASSUME Core, at # "builder", UNCHANGED <<builderVars, options>>
  PROVE  /\ BuilderInv' /\ options \in Opt /\ options # NoOptions
         /\ options.worker_num \in Nat \ {0}
         /\ Workers = 0 .. options.worker_num - 1 /\ Workers' = Workers
         /\ RpcCore' = RpcCore /\ RpcCore = Cores(Workers \cup {NoId}, Routings \cup {NoRouting})
<1>1. BuilderInv'
  BY BuilderKept DEF Core
<1>2. options \in Opt /\ options.worker_num > 0
  BY DEF Core, ObjectInv, ObjectOK, MadeOnce
<1>3. Workers' = Workers /\ RpcCore' = RpcCore
  BY SameOptions
<1>4. RpcCore = Cores(Workers \cup {NoId}, Routings \cup {NoRouting})
  BY DEF RpcCore, Cores
<1>5. /\ options # NoOptions /\ options.worker_num \in Nat
      /\ Workers = 0 .. options.worker_num - 1
  BY <1>2, WorkersOf
<1> QED BY <1>1, <1>2, <1>3, <1>4, <1>5

\* InitAsClient: there are no cores yet, or they keep the closure they have.
LEMMA InitAsClientStep == Core /\ InitAsClient => Core'
<1> SUFFICES ASSUME Core, InitAsClient PROVE Core'
  OBVIOUS
<1>1. /\ BuilderInv' /\ options \in Opt /\ options # NoOptions
      /\ Workers' = Workers /\ RpcCore' = RpcCore
  BY MadeAlready DEF InitAsClient
<1>2. ObjectOK'
  BY <1>1 DEF Core, ObjectInv, InitAsClient, ObjectOK, workerVars
<1>3. MadeOnce' /\ CoresInPlace' /\ RunInTime' /\ RefusedOnlyAtShare'
  BY DEF Core, ObjectInv, InitAsClient, workerVars, MadeOnce, CoresInPlace, CoresUpTo,
         RouteAlike, RunInTime, RefusedOnlyAtShare
<1> QED BY <1>1, <1>2, <1>3 DEF Core, ObjectInv

\* Start is entered.
LEMMA StartStep == Core /\ Start => Core'
<1> SUFFICES ASSUME Core, Start PROVE Core'
  OBVIOUS
<1>1. /\ BuilderInv' /\ options \in Opt /\ options # NoOptions
      /\ options.worker_num \in Nat
      /\ Workers' = Workers /\ RpcCore' = RpcCore
  BY MadeAlready DEF Start
<1>2. rpc_core_vec = << >> /\ Len(rpc_core_vec) = 0
  BY DEF Core, ObjectInv, Start, CoresInPlace
<1>3. starts' \in 0 .. MaxStarts
  BY StartsAssumption DEF Core, ObjectInv, ObjectOK, Start
<1>4. ObjectOK'
  BY <1>1, <1>2, <1>3 DEF Core, ObjectInv, Start, ObjectOK, workerVars
<1>5. CoresInPlace'
  <2>1. i' = 0 /\ at' = "cores" /\ rpc_core_vec' = rpc_core_vec /\ options' = options
    BY DEF Start
  <2>2. CoresUpTo(0)' /\ RouteAlike(on_service_routing)'
    BY <1>2, <2>1 DEF CoresUpTo, RouteAlike
  <2> QED BY <1>1, <2>1, <2>2 DEF CoresInPlace, CoresUpTo
<1>6. MadeOnce' /\ RunInTime' /\ RefusedOnlyAtShare'
  BY DEF Core, ObjectInv, Start, workerVars, MadeOnce, RunInTime, RefusedOnlyAtShare
<1> QED BY <1>1, <1>4, <1>5, <1>6 DEF Core, ObjectInv

\* A core is appended and takes its number and the closure of the moment.
LEMMA AddCoreStep == Core /\ AddCore => Core'
<1> SUFFICES ASSUME Core, AddCore PROVE Core'
  OBVIOUS
<1>1. /\ BuilderInv' /\ options \in Opt /\ options # NoOptions
      /\ options.worker_num \in Nat
      /\ Workers = 0 .. options.worker_num - 1
      /\ Workers' = Workers /\ RpcCore' = RpcCore
      /\ RpcCore = Cores(Workers \cup {NoId}, Routings \cup {NoRouting})
  BY MadeAlready DEF AddCore
<1>2. /\ Len(rpc_core_vec) = i /\ CoresUpTo(i) /\ RouteAlike(on_service_routing)
      /\ i < options.worker_num
  BY DEF Core, ObjectInv, AddCore, CoresInPlace, CoresUpTo
<1>3. /\ rpc_core_vec \in Seq(Cores(Workers \cup {NoId}, Routings \cup {NoRouting}))
      /\ on_service_routing \in Routings \cup {NoRouting}
  BY <1>1 DEF Core, ObjectInv, ObjectOK
<1>4. i \in Nat /\ i \in Workers
  <2>1. Len(rpc_core_vec) \in Nat
    BY <1>3
  <2> QED BY <1>1, <1>2, <2>1
<1>5. /\ at = "cores" /\ at' = at /\ i' = i + 1 /\ on_service_routing' = on_service_routing
      /\ rpc_core_vec' = [Append(rpc_core_vec, NewCore) EXCEPT
                           ![i + 1].id = i, ![i + 1].routing = on_service_routing]
      /\ UNCHANGED <<options, starts, is_initialized, workerVars, refused>>
  BY DEF AddCore
<1>6. /\ rpc_core_vec' \in Seq(RpcCore) /\ Len(rpc_core_vec') = i + 1
      /\ rpc_core_vec'[i + 1].id = i /\ rpc_core_vec'[i + 1].routing = on_service_routing
      /\ \A k \in 1 .. i : rpc_core_vec'[k] = rpc_core_vec[k]
  <2> DEFINE Ids == Workers \cup {NoId}
             Rs == Routings \cup {NoRouting}
  <2>1. /\ rpc_core_vec \in Seq(Cores(Ids, Rs)) /\ on_service_routing \in Rs
        /\ Len(rpc_core_vec) \in Ids /\ NoId \in Ids /\ NoRouting \in Rs
        /\ RpcCore = Cores(Ids, Rs)
    BY <1>1, <1>2, <1>3, <1>4
  <2>2. rpc_core_vec' = WithCore(rpc_core_vec, on_service_routing)
    BY <1>2, <1>5 DEF WithCore
  <2> HIDE DEF Ids, Rs
  <2>3. /\ rpc_core_vec' \in Seq(Cores(Ids, Rs)) /\ Len(rpc_core_vec') = Len(rpc_core_vec) + 1
        /\ rpc_core_vec'[Len(rpc_core_vec) + 1].id = Len(rpc_core_vec)
        /\ rpc_core_vec'[Len(rpc_core_vec) + 1].routing = on_service_routing
        /\ \A k \in 1 .. Len(rpc_core_vec) : rpc_core_vec'[k] = rpc_core_vec[k]
    BY <2>1, <2>2, CoreAdded
  <2> QED BY <1>2, <2>1, <2>3
<1>7. ObjectOK'
  <2>1. i' \in {0} \cup {w + 1 : w \in Workers'}
    BY <1>1, <1>4, <1>5
  <2>2. rpc_core_vec' \in Seq(RpcCore') /\ Len(rpc_core_vec') <= i'
    <3>1. rpc_core_vec' \in Seq(RpcCore')
      BY <1>1, <1>6, Zenon
    <3>2. Len(rpc_core_vec') <= i'
      BY <1>4, <1>5, <1>6
    <3> QED BY <3>1, <3>2
  <2> QED BY <1>1, <1>5, <2>1, <2>2 DEF Core, ObjectInv, ObjectOK, workerVars
<1>8. CoresInPlace'
  <2>1. \A k \in 1 .. i + 1 : /\ rpc_core_vec'[k].id = k - 1
                              /\ rpc_core_vec'[k].routing = on_service_routing
    <3>1. \A k \in 1 .. i : /\ rpc_core_vec[k].id = k - 1
                            /\ rpc_core_vec[k].routing = on_service_routing
      BY <1>2 DEF CoresUpTo, RouteAlike
    <3> QED BY <1>4, <1>6, <3>1
  <2>2. CoresUpTo(i)'
    BY <1>5, <1>6, <2>1 DEF CoresUpTo
  <2>3. RouteAlike(on_service_routing)'
    BY <1>5, <1>6, <2>1 DEF RouteAlike
  <2>4. i' <= options'.worker_num
    BY <1>1, <1>2, <1>4, <1>5
  <2> QED BY <1>5, <2>2, <2>3, <2>4 DEF CoresInPlace
<1>9. MadeOnce' /\ RunInTime' /\ RefusedOnlyAtShare'
  BY <1>5 DEF Core, ObjectInv, workerVars, MadeOnce, RunInTime, RefusedOnlyAtShare
<1> QED BY <1>1, <1>7, <1>8, <1>9 DEF Core, ObjectInv

\* The loop is over: the cores are as many as the workers will be.
LEMMA LoopEndsStep == Core /\ LoopEnds => Core'
<1> SUFFICES ASSUME Core, LoopEnds PROVE Core'
  OBVIOUS
<1>1. /\ BuilderInv' /\ options # NoOptions /\ Workers' = Workers /\ RpcCore' = RpcCore
  BY MadeAlready DEF LoopEnds, GoTo
<1>2. /\ at = "cores" /\ at' = "hudp" /\ i = options.worker_num
      /\ UNCHANGED <<options, i, starts, on_service_routing, is_initialized,
                     running, handling, rpc_core_vec, refused>>
  BY DEF LoopEnds, GoTo, workerVars
<1>3. ObjectOK'
  BY <1>1, <1>2 DEF Core, ObjectInv, ObjectOK
<1>4. CoresInPlace'
  <2>1. CoresUpTo(options.worker_num) /\ RouteAlike(on_service_routing)
    BY <1>2 DEF Core, ObjectInv, CoresInPlace
  <2>2. on_service_routing \in Routings \cup {NoRouting}
    BY DEF Core, ObjectInv, ObjectOK
  <2>3. CoresUpTo(options.worker_num)' /\ \E routing \in Routings \cup {NoRouting} : RouteAlike(routing)'
    BY <1>2, <2>1, <2>2 DEF CoresUpTo, RouteAlike
  <2> QED BY <1>2, <2>3 DEF CoresInPlace
<1>5. MadeOnce' /\ RunInTime' /\ RefusedOnlyAtShare'
  BY <1>2 DEF Core, ObjectInv, MadeOnce, RunInTime, RefusedOnlyAtShare
<1> QED BY <1>1, <1>3, <1>4, <1>5 DEF Core, ObjectInv

\* Start fails, and Destruct begins: the cores are gone.
LEMMA CoresGoStep ==
  Core /\ (HudpInitFails \/ Destruct) => Core'
<1> SUFFICES ASSUME Core, HudpInitFails \/ Destruct PROVE Core'
  OBVIOUS
<1>1. /\ at \in {"hudp", "idle"} /\ at' \in {"idle", "destructor"} /\ rpc_core_vec' = << >>
      /\ at' = "idle" => at = "hudp"
      /\ UNCHANGED <<builderVars, options, i, starts, on_service_routing, is_initialized,
                     running, handling, refused>>
  BY DEF HudpInitFails, Destruct, GoTo, workerVars
<1>2. /\ BuilderInv' /\ options # NoOptions /\ Workers' = Workers /\ RpcCore' = RpcCore
      /\ Workers = 0 .. options.worker_num - 1 /\ options.worker_num \in Nat
  BY <1>1, MadeAlready
<1>3. rpc_core_vec' \in Seq(RpcCore') /\ Len(rpc_core_vec') = 0
  BY <1>1
<1>4. i \in Nat
  <2>1. i \in {0} \cup {w + 1 : w \in Workers}
    BY DEF Core, ObjectInv, ObjectOK
  <2>2. \A w \in Workers : w + 1 \in Nat
    BY <1>2
  <2> QED BY <2>1, <2>2
<1>5. ObjectOK'
  <2>1. rpc_core_vec' \in Seq(RpcCore') /\ Len(rpc_core_vec') <= i'
    BY <1>1, <1>3, <1>4
  <2> QED BY <1>1, <1>2, <2>1 DEF Core, ObjectInv, ObjectOK
<1>6. RunInTime' /\ (at' = "idle" => ~is_initialized')
  BY <1>1 DEF Core, ObjectInv, RunInTime
<1>7. CoresInPlace'
  BY <1>1, <1>6 DEF CoresInPlace
<1>8. MadeOnce' /\ RefusedOnlyAtShare'
  BY <1>1 DEF Core, ObjectInv, MadeOnce, RefusedOnlyAtShare
<1> QED BY <1>2, <1>5, <1>6, <1>7, <1>8 DEF Core, ObjectInv

\* hudp starts its workers when all cores are there, or stops them.
LEMMA HudpStep ==
  Core /\ (StartHudp \/ StopHudp) => Core'
<1> SUFFICES ASSUME Core, StartHudp \/ StopHudp PROVE Core'
  OBVIOUS
<1>1. /\ UNCHANGED <<builderVars, options, i, starts, on_service_routing, handling,
                     rpc_core_vec, refused>>
      /\ at \in {"hudp", "hudp runs", "destructor"}
  BY DEF StartHudp, HudpInit, StopHudp
<1>2. /\ BuilderInv' /\ options # NoOptions /\ Workers' = Workers /\ RpcCore' = RpcCore
      /\ Workers = 0 .. options.worker_num - 1 /\ options.worker_num \in Nat \ {0}
  BY <1>1, MadeAlready
<1>3. /\ running' \subseteq Workers /\ is_initialized' \in BOOLEAN
      /\ at' \in {"hudp runs", "idle", "gone"}
      /\ \A w \in Workers : handling[w] # "nothing" => w \in running'
      /\ RunInTime'
  <2>1. running \subseteq Workers /\ \A w \in Workers : handling[w] # "nothing" => w \in running
    BY DEF Core, ObjectInv, ObjectOK
  <2>2. at # "destructor" => ~is_initialized
    BY <1>1 DEF Core, ObjectInv, RunInTime
  <2>3. at = "hudp" => running = {}
    BY DEF Core, ObjectInv, RunInTime
  <2>4. is_initialized \in BOOLEAN
    BY DEF Core, ObjectInv, ObjectOK
  <2>5. CASE StartHudp /\ at = "hudp"
    <3>1. running' = {0} /\ at' = "hudp runs" /\ is_initialized' = is_initialized
      BY <2>5 DEF StartHudp, HudpInit
    <3>2. 0 \in Workers
      BY <1>2
    <3>3. \A w \in Workers : handling[w] = "nothing"
      BY <2>1, <2>3, <2>5
    <3> QED BY <2>2, <2>4, <2>5, <3>1, <3>2, <3>3 DEF RunInTime
  <2>6. CASE StartHudp /\ at = "hudp runs" /\ running # Workers
    <3>1. PICK w \in Workers \ running : running' = running \cup {w}
      BY <2>6 DEF StartHudp, HudpInit
    <3>2. at' = at /\ is_initialized' = is_initialized
      BY <2>6 DEF StartHudp, HudpInit
    <3> QED BY <2>1, <2>2, <2>4, <2>6, <3>1, <3>2 DEF RunInTime
  <2>7. CASE StartHudp /\ at = "hudp runs" /\ running = Workers
    <3>1. running' = running /\ is_initialized' = TRUE /\ at' = "idle"
      BY <2>7 DEF StartHudp, HudpInit
    <3> QED BY <2>1, <3>1 DEF RunInTime
  <2>8. CASE StopHudp
    <3>1. /\ \A w \in Workers : handling[w] = "nothing"
          /\ running' = {} /\ at' = "gone" /\ is_initialized' = is_initialized
      BY <2>8 DEF StopHudp
    <3> QED BY <2>4, <3>1 DEF RunInTime
  <2> QED BY <2>5, <2>6, <2>7, <2>8 DEF StartHudp, HudpInit
<1>4. ObjectOK'
  BY <1>1, <1>2, <1>3 DEF Core, ObjectInv, ObjectOK
<1>5. CoresInPlace'
  <2>1. CASE StartHudp
    <3>1. at' \in {"hudp runs", "idle"} /\ (at' = "idle" => is_initialized')
      BY <2>1 DEF StartHudp, HudpInit
    <3>2. CoresUpTo(options.worker_num) /\ \E routing \in Routings \cup {NoRouting} : RouteAlike(routing)
      BY <2>1 DEF Core, ObjectInv, CoresInPlace, StartHudp, HudpInit
    <3> QED BY <1>1, <3>1, <3>2 DEF CoresInPlace, CoresUpTo, RouteAlike
  <2>2. CASE StopHudp
    BY <2>2 DEF StopHudp, CoresInPlace
  <2> QED BY <2>1, <2>2
<1>6. MadeOnce' /\ RefusedOnlyAtShare'
  BY <1>1, <1>3 DEF Core, ObjectInv, MadeOnce, RefusedOnlyAtShare
<1> QED BY <1>2, <1>3, <1>4, <1>5, <1>6 DEF Core, ObjectInv

-----------------------------------------------------------------------------
(* The steps of the workers.                                                  *)

\* What a worker is in changes; the cores keep their numbers and closures.
LEMMA WorkerMoves ==
  ASSUME Core, NEW w \in Workers, NEW from, NEW to \in {"nothing", "packet", "call"},
         Handle(w, from, to),
         rpc_core_vec' \in Seq(RpcCore), Len(rpc_core_vec') = Len(rpc_core_vec),
         \A k \in 1 .. Len(rpc_core_vec) :
           /\ rpc_core_vec'[k].id = rpc_core_vec[k].id
           /\ rpc_core_vec'[k].routing = rpc_core_vec[k].routing,
         refused' \subseteq Nat, RefusedOnlyAtShare'
  PROVE  Core'
<1>1. /\ w \in running /\ handling' = [handling EXCEPT ![w] = to]
      /\ UNCHANGED <<builderVars, options, at, i, starts, on_service_routing,
                     is_initialized, running>>
  BY DEF Handle, startVars
<1>2. at = "hudp runs" \/ at = "destructor" \/ (at = "idle" /\ is_initialized)
  BY <1>1 DEF Core, ObjectInv, RunInTime
<1>3. /\ BuilderInv' /\ options # NoOptions /\ Workers' = Workers /\ RpcCore' = RpcCore
      /\ options.worker_num \in Nat
  BY <1>1, <1>2, MadeAlready
<1>4. ObjectOK'
  <2>1. handling \in [Workers -> {"nothing", "packet", "call"}]
        /\ \A v \in Workers : handling[v] # "nothing" => v \in running
    BY DEF Core, ObjectInv, ObjectOK
  <2>2. handling' \in [Workers -> {"nothing", "packet", "call"}]
        /\ \A v \in Workers : handling'[v] # "nothing" => v \in running
    BY <1>1, <2>1
  <2>3. rpc_core_vec' \in Seq(RpcCore') /\ Len(rpc_core_vec') <= i
    BY <1>3 DEF Core, ObjectInv, ObjectOK
  <2> QED BY <1>1, <1>3, <2>2, <2>3 DEF Core, ObjectInv, ObjectOK
<1>5. CoresInPlace'
  <2>1. CASE at = "destructor"
    BY <1>1, <2>1 DEF CoresInPlace
  <2>2. CASE at # "destructor"
    <3>1. CoresUpTo(options.worker_num)
      BY <1>2, <2>2 DEF Core, ObjectInv, CoresInPlace
    <3>2. PICK routing \in Routings \cup {NoRouting} : RouteAlike(routing)
      BY <1>2, <2>2 DEF Core, ObjectInv, CoresInPlace
    <3>3. CoresUpTo(options.worker_num)'
      BY <1>1, <3>1 DEF CoresUpTo
    <3>4. RouteAlike(routing)'
      BY <3>2 DEF RouteAlike
    <3> QED BY <1>1, <1>2, <3>3, <3>4 DEF CoresInPlace
  <2> QED BY <2>1, <2>2
<1>6. RunInTime'
  BY <1>1 DEF Core, ObjectInv, RunInTime
<1>7. MadeOnce'
  BY <1>1, <1>2 DEF Core, ObjectInv, MadeOnce
<1> QED BY <1>3, <1>4, <1>5, <1>6, <1>7 DEF Core, ObjectInv

\* A callback or a call is entered or left.
LEMMA HandleStep ==
  ASSUME Core, NEW w \in Workers, RecvPacket(w) \/ CallFromService(w) \/ Leave(w)
  PROVE  Core'
<1>1. PICK from, to \in {"nothing", "packet", "call"} : Handle(w, from, to)
  BY DEF RecvPacket, CallFromService, Leave
<1>2. UNCHANGED <<rpc_core_vec, refused>> /\ options' = options
  BY <1>1 DEF RecvPacket, CallFromService, Leave, Handle
<1>3. rpc_core_vec \in Seq(RpcCore) /\ refused \subseteq Nat /\ RefusedOnlyAtShare
  BY DEF Core, ObjectInv, ObjectOK
<1>4. RefusedOnlyAtShare'
  BY <1>2, <1>3 DEF RefusedOnlyAtShare
<1> QED BY <1>1, <1>2, <1>3, <1>4, WorkerMoves

\* A worker's core, and what is pending in it.
LEMMA PendingOfCore ==
  ASSUME Core, NEW w \in Workers, w < Len(rpc_core_vec), at # "builder"
  PROVE  /\ w + 1 \in 1 .. Len(rpc_core_vec) /\ PendingIn(w) \in Nat
         /\ rpc_core_vec \in Seq(Cores(Workers \cup {NoId}, Routings \cup {NoRouting}))
         /\ RpcCore = Cores(Workers \cup {NoId}, Routings \cup {NoRouting})
<1>1. RpcCore = Cores(Workers \cup {NoId}, Routings \cup {NoRouting})
  BY DEF RpcCore, Cores
<1>2. rpc_core_vec \in Seq(RpcCore)
  BY DEF Core, ObjectInv, ObjectOK
<1>3. w \in Nat
  <2>1. options \in Opt
    BY DEF Core, ObjectInv, ObjectOK, MadeOnce
  <2> QED BY <2>1, WorkersOf
<1>4. w + 1 \in 1 .. Len(rpc_core_vec)
  BY <1>2, <1>3
<1>5. rpc_core_vec[w + 1] \in RpcCore
  BY <1>2, <1>4
<1>6. PendingIn(w) \in Nat
  BY <1>5 DEF PendingIn, RpcCore
<1> QED BY <1>1, <1>2, <1>4, <1>6

\* A core that refuses a call has no free node, so its share is pending.
LEMMA OpenCallStep ==
  ASSUME Core, NEW w \in Workers, OpenCall(w)
  PROVE  Core'
<1>1. /\ w < Len(rpc_core_vec) /\ Handle(w, "call", "packet") /\ options' = options
  BY DEF OpenCall, Handle
<1>2. at # "builder" /\ options \in Opt
  BY DEF Core, ObjectInv, ObjectOK, OpenCall, RunInTime, MadeOnce
<1>3. /\ w + 1 \in 1 .. Len(rpc_core_vec) /\ PendingIn(w) \in Nat
      /\ rpc_core_vec \in Seq(Cores(Workers \cup {NoId}, Routings \cup {NoRouting}))
      /\ RpcCore = Cores(Workers \cup {NoId}, Routings \cup {NoRouting})
  BY <1>1, <1>2, PendingOfCore
<1>4. refused \subseteq Nat /\ RefusedOnlyAtShare
  BY DEF Core, ObjectInv, ObjectOK
<1>5. CASE PendingIn(w) < PoolSize(options)
  <2>1. /\ rpc_core_vec' = [rpc_core_vec EXCEPT ![w + 1].pending = PendingIn(w) + 1]
        /\ refused' = refused
    BY <1>5 DEF OpenCall, PendingIn
  <2>2. PendingIn(w) + 1 \in Nat
    BY <1>3
  <2>3. /\ rpc_core_vec' \in Seq(RpcCore) /\ Len(rpc_core_vec') = Len(rpc_core_vec)
        /\ \A k \in 1 .. Len(rpc_core_vec) :
             /\ rpc_core_vec'[k].id = rpc_core_vec[k].id
             /\ rpc_core_vec'[k].routing = rpc_core_vec[k].routing
    BY <1>3, <2>1, <2>2, PendingChanged
  <2>4. RefusedOnlyAtShare'
    BY <1>1, <1>4, <2>1 DEF RefusedOnlyAtShare
  <2> QED BY <1>1, <1>4, <2>1, <2>3, <2>4, WorkerMoves
<1>6. CASE ~ (PendingIn(w) < PoolSize(options))
  <2>1. refused' = refused \cup {PendingIn(w)} /\ rpc_core_vec' = rpc_core_vec
    BY <1>6 DEF OpenCall
  <2>2. options.worker_num > 0 /\ options.max_rpc_sessions \in AnySessions
    BY <1>2, WorkersOf DEF Core, ObjectInv, MadeOnce
  <2>3. /\ options.max_rpc_sessions \div options.worker_num \in Nat
        /\ PoolSize(options) \in Nat
        /\ PoolSize(options) >= options.max_rpc_sessions \div options.worker_num
    BY <1>2, <2>2, PoolHoldsShare
  <2>4. PendingIn(w) >= options.max_rpc_sessions \div options.worker_num
    BY <1>3, <1>6, <2>3
  <2>5. RefusedOnlyAtShare'
    BY <1>1, <1>4, <2>1, <2>4 DEF RefusedOnlyAtShare
  <2>6. refused' \subseteq Nat
    BY <1>3, <1>4, <2>1
  <2> QED BY <1>1, <1>3, <2>1, <2>5, <2>6, WorkerMoves
<1> QED BY <1>5, <1>6

\* A session ends.
LEMMA EndCallStep ==
  ASSUME Core, NEW w \in Workers, EndCall(w)
  PROVE  Core'
<1>1. /\ w < Len(rpc_core_vec) /\ Handle(w, "packet", "nothing") /\ options' = options
      /\ PendingIn(w) > 0 /\ refused' = refused
      /\ rpc_core_vec' = [rpc_core_vec EXCEPT ![w + 1].pending = PendingIn(w) - 1]
  BY DEF EndCall, Handle, PendingIn
<1>2. at # "builder"
  <2>1. w \in running
    BY <1>1 DEF Handle
  <2> QED BY <2>1 DEF Core, ObjectInv, RunInTime
<1>3. /\ w + 1 \in 1 .. Len(rpc_core_vec) /\ PendingIn(w) \in Nat
      /\ rpc_core_vec \in Seq(Cores(Workers \cup {NoId}, Routings \cup {NoRouting}))
      /\ RpcCore = Cores(Workers \cup {NoId}, Routings \cup {NoRouting})
  BY <1>1, <1>2, PendingOfCore
<1>4. refused \subseteq Nat /\ RefusedOnlyAtShare
  BY DEF Core, ObjectInv, ObjectOK
<1>5. PendingIn(w) - 1 \in Nat
  BY <1>1, <1>3
<1>6. /\ rpc_core_vec' \in Seq(RpcCore) /\ Len(rpc_core_vec') = Len(rpc_core_vec)
      /\ \A k \in 1 .. Len(rpc_core_vec) :
           /\ rpc_core_vec'[k].id = rpc_core_vec[k].id
           /\ rpc_core_vec'[k].routing = rpc_core_vec[k].routing
  BY <1>1, <1>3, <1>5, PendingChanged
<1>7. RefusedOnlyAtShare'
  BY <1>1, <1>4 DEF RefusedOnlyAtShare
<1> QED BY <1>1, <1>4, <1>6, <1>7, WorkerMoves

\* The process is gone, and with it the workers.
LEMMA AbortStep ==
  ASSUME Core, NEW w \in Workers, AssertionFails(w)
  PROVE  Core'
<1>1. /\ UNCHANGED <<builderVars, options, i, starts, on_service_routing, is_initialized,
                     rpc_core_vec, refused>>
      /\ at' = "aborted" /\ running' = {} /\ handling' = [v \in Workers |-> "nothing"]
      /\ w \in running
  BY DEF AssertionFails
<1>2. at # "builder"
  BY <1>1 DEF Core, ObjectInv, RunInTime
<1>3. BuilderInv' /\ options # NoOptions /\ Workers' = Workers /\ RpcCore' = RpcCore
  BY <1>1, <1>2, MadeAlready
<1>4. ObjectOK'
  BY <1>1, <1>3 DEF Core, ObjectInv, ObjectOK
<1>5. CoresInPlace' /\ RunInTime'
  BY <1>1 DEF CoresInPlace, RunInTime
<1>6. MadeOnce' /\ RefusedOnlyAtShare'
  BY <1>1, <1>2 DEF Core, ObjectInv, MadeOnce, RefusedOnlyAtShare
<1> QED BY <1>3, <1>4, <1>5, <1>6 DEF Core, ObjectInv

\* A step that changes nothing.
LEMMA StutterStep == Core /\ UNCHANGED vars => Core'
<1> SUFFICES ASSUME Core, UNCHANGED vars PROVE Core'
  OBVIOUS
<1>1. /\ UNCHANGED <<builderVars, options, at, i, starts, on_service_routing,
                     is_initialized, running, handling, rpc_core_vec, refused>>
  BY DEF vars, startVars, workerVars
<1>2. BuilderInv' /\ Workers' = Workers /\ RpcCore' = RpcCore
  BY <1>1, BuilderKept, SameOptions DEF Core
<1>3. ObjectOK'
  BY <1>1, <1>2 DEF Core, ObjectInv, ObjectOK
<1>4. MadeOnce' /\ CoresInPlace' /\ RunInTime' /\ RefusedOnlyAtShare'
  BY <1>1 DEF Core, ObjectInv, MadeOnce, CoresInPlace, CoresUpTo, RouteAlike, RunInTime,
              RefusedOnlyAtShare
<1> QED BY <1>2, <1>3, <1>4 DEF Core, ObjectInv

\* Every step keeps the invariant.
LEMMA StepCore == Core /\ [Next]_vars => Core'
<1> SUFFICES ASSUME Core, [Next]_vars PROVE Core'
  OBVIOUS
<1>1. ASSUME NEW w \in Workers, RecvPacket(w) \/ CallFromService(w) \/ Leave(w)
      PROVE  Core'
  BY <1>1, HandleStep
<1>2. ASSUME NEW w \in Workers, OpenCall(w) \/ EndCall(w)
      PROVE  Core'
  BY <1>2, OpenCallStep, EndCallStep
<1>3. ASSUME NEW w \in Workers, AssertionFails(w)
      PROVE  Core'
  BY <1>3, AbortStep
<1> QED BY <1>1, <1>2, <1>3, SetOptionsStep, ConstructStep, InitAsClientStep, StartStep, AddCoreStep,
           LoopEndsStep, CoresGoStep, HudpStep, StutterStep DEF Next

-----------------------------------------------------------------------------
(* The pending calls.                                                         *)

\* No step puts more calls into a core than its pool has nodes.
LEMMA PoolsStep == Core /\ PoolsHold /\ [Next]_vars => PoolsHold'
<1> SUFFICES ASSUME Core, PoolsHold, [Next]_vars PROVE PoolsHold'
  OBVIOUS
<1>1. CASE UNCHANGED <<options, rpc_core_vec>>
  BY <1>1 DEF PoolsHold
<1>2. CASE rpc_core_vec' = << >>
  BY <1>2 DEF PoolsHold
<1>3. CASE Construct
  <2>1. rpc_core_vec' = << >>
    BY <1>3 DEF Core, ObjectInv, Construct, CoresInPlace
  <2> QED BY <2>1, <1>2
<1>4. rpc_core_vec \in Seq(RpcCore)
  BY DEF Core, ObjectInv, ObjectOK
<1>5. CASE AddCore
  <2>1. /\ options \in Opt /\ options' = options /\ Workers = 0 .. options.worker_num - 1
        /\ options.worker_num \in Nat
        /\ RpcCore = Cores(Workers \cup {NoId}, Routings \cup {NoRouting})
    BY <1>5, MadeAlready DEF AddCore
  <2>2. Len(rpc_core_vec) = i /\ i < options.worker_num
    BY <1>5 DEF Core, ObjectInv, AddCore, CoresInPlace, CoresUpTo
  <2>3. i \in Workers
    <3>1. Len(rpc_core_vec) \in Nat
      BY <1>4
    <3> QED BY <2>1, <2>2, <3>1
  <2>4. options.worker_num > 0 /\ options.max_rpc_sessions \in AnySessions
    BY <1>5, <2>1, OptionsAssumption DEF Core, ObjectInv, MadeOnce
  <2>5. PoolSize(options) \in Nat
    BY <2>1, <2>4, PoolHoldsShare
  <2>6. rpc_core_vec' = WithCore(rpc_core_vec, on_service_routing)
    BY <1>5, <2>2 DEF AddCore, WithCore
  <2>7. on_service_routing \in Routings \cup {NoRouting}
    BY DEF Core, ObjectInv, ObjectOK
  <2>8. /\ rpc_core_vec' \in Seq(RpcCore) /\ Len(rpc_core_vec') = Len(rpc_core_vec) + 1
        /\ rpc_core_vec'[Len(rpc_core_vec) + 1].pending = 0
        /\ \A k \in 1 .. Len(rpc_core_vec) : rpc_core_vec'[k] = rpc_core_vec[k]
    <3> DEFINE Ids == Workers \cup {NoId}
               Rs == Routings \cup {NoRouting}
    <3>1. /\ rpc_core_vec \in Seq(Cores(Ids, Rs)) /\ on_service_routing \in Rs
          /\ Len(rpc_core_vec) \in Ids /\ NoId \in Ids /\ NoRouting \in Rs
          /\ RpcCore = Cores(Ids, Rs)
      BY <1>4, <2>1, <2>2, <2>3, <2>7
    <3> HIDE DEF Ids, Rs
    <3> QED BY <2>6, <3>1, CoreAdded
  <2>9. \A k \in DOMAIN rpc_core_vec' : rpc_core_vec'[k].pending <= PoolSize(options)
    <3> SUFFICES ASSUME NEW k \in 1 .. Len(rpc_core_vec) + 1
                 PROVE  rpc_core_vec'[k].pending <= PoolSize(options)
      BY <2>8
    <3>1. CASE k = Len(rpc_core_vec) + 1
      BY <2>5, <2>8, <3>1
    <3>2. CASE k # Len(rpc_core_vec) + 1
      <4>1. k \in 1 .. Len(rpc_core_vec) /\ k \in DOMAIN rpc_core_vec
        BY <1>4, <3>2
      <4> QED BY <2>8, <4>1 DEF PoolsHold
    <3> QED BY <3>1, <3>2
  <2> QED BY <2>1, <2>9 DEF PoolsHold
<1>6. ASSUME NEW w \in Workers, NEW n \in Nat, w < Len(rpc_core_vec), at # "builder",
             options' = options,
             rpc_core_vec' = [rpc_core_vec EXCEPT ![w + 1].pending = n],
             n <= PoolSize(options)
      PROVE  PoolsHold'
  <2>1. /\ w + 1 \in 1 .. Len(rpc_core_vec)
        /\ rpc_core_vec \in Seq(Cores(Workers \cup {NoId}, Routings \cup {NoRouting}))
    BY <1>6, PendingOfCore
  <2>2. /\ rpc_core_vec' \in Seq(Cores(Workers \cup {NoId}, Routings \cup {NoRouting}))
        /\ Len(rpc_core_vec') = Len(rpc_core_vec)
        /\ rpc_core_vec'[w + 1].pending = n
        /\ \A j \in (1 .. Len(rpc_core_vec)) \ {w + 1} : rpc_core_vec'[j] = rpc_core_vec[j]
    BY <1>6, <2>1, PendingChanged
  <2>3. DOMAIN rpc_core_vec' = 1 .. Len(rpc_core_vec) /\ DOMAIN rpc_core_vec = 1 .. Len(rpc_core_vec)
    BY <1>4, <2>2
  <2> QED BY <1>6, <2>2, <2>3 DEF PoolsHold
<1>7. ASSUME NEW w \in Workers, OpenCall(w) \/ EndCall(w)
      PROVE  PoolsHold'
  <2>1. options' = options /\ w < Len(rpc_core_vec) /\ w \in running
    BY <1>7 DEF OpenCall, EndCall, Handle
  <2>2. at # "builder" /\ options \in Opt
    BY <2>1 DEF Core, ObjectInv, ObjectOK, RunInTime, MadeOnce
  <2>3. PendingIn(w) \in Nat /\ w + 1 \in DOMAIN rpc_core_vec
    BY <1>4, <2>1, <2>2, PendingOfCore
  <2>4. PendingIn(w) <= PoolSize(options)
    BY <2>3 DEF PoolsHold, PendingIn
  <2>5. PoolSize(options) \in Nat
    <3>1. options.worker_num > 0 /\ options.max_rpc_sessions \in AnySessions
      BY <2>2, WorkersOf DEF Core, ObjectInv, MadeOnce
    <3> QED BY <2>2, <3>1, PoolHoldsShare
  <2>6. CASE OpenCall(w) /\ PendingIn(w) < PoolSize(options)
    <3>1. rpc_core_vec' = [rpc_core_vec EXCEPT ![w + 1].pending = PendingIn(w) + 1]
      BY <2>6 DEF OpenCall, PendingIn
    <3>2. PendingIn(w) + 1 \in Nat /\ PendingIn(w) + 1 <= PoolSize(options)
      BY <2>3, <2>5, <2>6
    <3> QED BY <1>6, <2>1, <2>2, <3>1, <3>2
  <2>7. CASE OpenCall(w) /\ ~ (PendingIn(w) < PoolSize(options))
    BY <1>1, <2>1, <2>7 DEF OpenCall
  <2>8. CASE EndCall(w)
    <3>1. /\ rpc_core_vec' = [rpc_core_vec EXCEPT ![w + 1].pending = PendingIn(w) - 1]
          /\ PendingIn(w) > 0
      BY <2>8 DEF EndCall, PendingIn
    <3>2. PendingIn(w) - 1 \in Nat /\ PendingIn(w) - 1 <= PoolSize(options)
      BY <2>3, <2>4, <2>5, <3>1
    <3> QED BY <1>6, <2>1, <2>2, <3>1, <3>2
  <2> QED BY <1>7, <2>6, <2>7, <2>8
<1>8. ASSUME NEW w \in Workers,
             \/ RecvPacket(w) \/ CallFromService(w) \/ Leave(w) \/ AssertionFails(w)
      PROVE  UNCHANGED <<options, rpc_core_vec>>
  BY <1>8 DEF RecvPacket, CallFromService, Leave, Handle, AssertionFails
<1>9. CASE SetOptions \/ InitAsClient \/ Start \/ LoopEnds \/ StartHudp \/ StopHudp \/ UNCHANGED vars
  BY <1>1, <1>9 DEF SetOptions, InitAsClient, Start, LoopEnds, GoTo, StartHudp, StopHudp, vars
<1>10. CASE HudpInitFails \/ Destruct
  BY <1>2, <1>10 DEF HudpInitFails, Destruct
<1> QED BY <1>1, <1>3, <1>5, <1>7, <1>8, <1>9, <1>10 DEF Next

\* Pools of a power of two, as many as there are workers: at most 20/9 of
\* max_rpc_sessions, unless each is of one node.
LEMMA PoolsBounded ==
  ASSUME NEW opt \in Opt, opt.worker_num > 0, opt.max_rpc_sessions \in AnySessions
  PROVE  /\ PoolSize(opt) \in Nat
         /\ \/ opt.worker_num * PoolSize(opt) <= opt.worker_num
            \/ opt.worker_num * PoolSize(opt) <= (20 * opt.max_rpc_sessions) \div 9
<1> DEFINE n == opt.max_rpc_sessions
           d == opt.worker_num
           share == n \div d
           size == (share * 10) \div 9
           p == PoolSize(opt)
<1>1. n \in Nat /\ d \in Nat /\ d > 0
  BY DEF Opt, Names
<1>2. share \in Nat /\ share <= n /\ d * share <= n
  <2>1. share \in Nat /\ share <= n
    BY <1>1, Quotients
  <2>2. d * share <= n
    <3> HIDE DEF n, d
    <3> QED BY <1>1
  <2> QED BY <2>1, <2>2
<1>3. (n * 10) \div 9 <= 2 ^ 30
  BY SizeAssumption
<1>4. p = Aligned(size)
  BY DEF PoolSize, CalcSessionPoolSize
<1> HIDE DEF share, p
<1>5. size \in Nat /\ size <= (n * 10) \div 9 /\ 9 * size <= 10 * share
  <2> HIDE DEF n
  <2> QED BY <1>1, <1>2
<1>6. 2 ^ 30 \in Nat
  OBVIOUS
<1> HIDE DEF size, n, d
<1>7. p \in Nat /\ (p <= 1 \/ p <= 2 * size)
  <2>1. size <= 2 ^ 30
    BY <1>1, <1>3, <1>5, <1>6
  <2> QED BY <1>4, <1>5, <2>1, AlignedBelowTwice
<1>8. CASE p <= 1
  <2>1. d * p <= d
    <3>1. p = 0 \/ p = 1
      BY <1>7, <1>8
    <3> QED BY <1>1, <3>1
  <2> QED BY <1>7, <2>1 DEF d, p
<1>9. CASE p <= 2 * size
  <2>1. 9 * p <= 20 * share
    BY <1>2, <1>5, <1>7, <1>9
  <2>2. d * (9 * p) <= d * (20 * share)
    <3> DEFINE e == 20 * share - 9 * p
    <3>1. e \in Nat
      BY <1>2, <1>7, <2>1
    <3>2. d * (20 * share) = d * (9 * p) + d * e
      BY <1>1, <1>2, <1>7
    <3>3. d * e \in Nat
      <4> HIDE DEF e
      <4> QED BY <1>1, <3>1
    <3> HIDE DEF e
    <3>4. d * (9 * p) \in Int
      BY <1>1, <1>7
    <3> QED BY <3>2, <3>3, <3>4
  <2>3. d * (9 * p) = 9 * (d * p) /\ d * (20 * share) = 20 * (d * share)
    BY <1>1, <1>2, <1>7
  <2> DEFINE dp == d * p
             ds == d * share
  <2>4. dp \in Nat /\ ds \in Nat
    BY <1>1, <1>2, <1>7
  <2>5. 9 * dp <= 20 * ds /\ ds <= n
    BY <1>2, <2>2, <2>3
  <2> HIDE DEF dp, ds
  <2>6. dp <= (20 * n) \div 9
    BY <1>1, <2>4, <2>5
  <2> QED BY <1>7, <2>6 DEF dp, d, p, n
<1> QED BY <1>7, <1>8, <1>9

\* The cores are at most as many as the workers.
LEMMA CoresForWorkers ==
  ASSUME Core, options \in Opt
  PROVE  /\ rpc_core_vec \in Seq(RpcCore)
         /\ Len(rpc_core_vec) \in Nat /\ Len(rpc_core_vec) <= options.worker_num
<1>1. rpc_core_vec \in Seq(RpcCore) /\ Len(rpc_core_vec) <= i /\ i \in {0} \cup {w + 1 : w \in Workers}
  BY DEF Core, ObjectInv, ObjectOK
<1>2. Workers = 0 .. options.worker_num - 1 /\ options.worker_num \in Nat
  BY WorkersOf
<1>3. i \in Nat /\ i <= options.worker_num
  <2>1. CASE i = 0
    BY <1>2, <2>1
  <2>2. ASSUME NEW w \in Workers, i = w + 1
        PROVE  i \in Nat /\ i <= options.worker_num
    BY <1>2, <2>2
  <2> QED BY <1>1, <2>1, <2>2
<1>4. Len(rpc_core_vec) \in Nat
  BY <1>1
<1> QED BY <1>1, <1>2, <1>3, <1>4

\* So many rows of so many nodes.
LEMMA GridSize ==
  ASSUME NEW d \in Nat, NEW p \in Nat
  PROVE  /\ IsFiniteSet((1 .. d) \X (1 .. p))
         /\ Cardinality((1 .. d) \X (1 .. p)) = d * p
<1>1. \A n \in Nat : IsFiniteSet(1 .. n) /\ Cardinality(1 .. n) = n
  BY ONLY FS_Interval
<1> DEFINE Rows == 1 .. d
           Columns == 1 .. p
<1>2. IsFiniteSet(Rows) /\ IsFiniteSet(Columns) /\ Cardinality(Rows) = d /\ Cardinality(Columns) = p
  BY <1>1
<1> HIDE DEF Rows, Columns
<1>3. IsFiniteSet(Rows \X Columns) /\ Cardinality(Rows \X Columns) = Cardinality(Rows) * Cardinality(Columns)
  BY ONLY <1>2, FS_Product
<1> QED BY <1>2, <1>3 DEF Rows, Columns

\* The pending calls of all cores have a node each, and there are no more.
LEMMA PendingCounted ==
  ASSUME Core, PoolsHold
  PROVE  PendingBounded
<1> SUFFICES ASSUME options # NoOptions
             PROVE  Cardinality(PendingCalls) <=
                      Max({(20 * options.max_rpc_sessions) \div 9, options.worker_num})
  BY DEF PendingBounded
<1> DEFINE d == options.worker_num
           p == PoolSize(options)
           bound == (20 * options.max_rpc_sessions) \div 9
           Nodes == (1 .. d) \X (1 .. p)
<1>1. /\ options \in Opt /\ d > 0 /\ options.max_rpc_sessions \in AnySessions
  BY DEF Core, ObjectInv, ObjectOK, MadeOnce
<1>2. d \in Nat /\ options.max_rpc_sessions \in Nat
  BY <1>1, WorkersOf
<1>3. p \in Nat /\ (d * p <= d \/ d * p <= bound)
  BY <1>1, PoolsBounded
<1>4. bound \in Int
  BY <1>2
<1>5. /\ rpc_core_vec \in Seq(RpcCore)
      /\ Len(rpc_core_vec) \in Nat /\ Len(rpc_core_vec) <= d
  BY <1>1, CoresForWorkers
<1>6. \A k \in DOMAIN rpc_core_vec : /\ k \in 1 .. d
                                     /\ rpc_core_vec[k].pending \in Nat
                                     /\ rpc_core_vec[k].pending <= p
  <2> SUFFICES ASSUME NEW k \in DOMAIN rpc_core_vec
               PROVE  /\ k \in 1 .. d
                      /\ rpc_core_vec[k].pending \in Nat
                      /\ rpc_core_vec[k].pending <= p
    OBVIOUS
  <2>1. rpc_core_vec[k].pending <= p
    BY DEF PoolsHold
  <2> HIDE DEF d, p
  <2>2. k \in 1 .. d
    BY <1>2, <1>5 DEF d
  <2>3. rpc_core_vec[k] \in RpcCore
    BY <1>5
  <2> QED BY <2>1, <2>2, <2>3 DEF RpcCore
<1> HIDE DEF d, p, bound
<1>7. IsFiniteSet(Nodes) /\ Cardinality(Nodes) = d * p
  BY <1>2, <1>3, GridSize DEF d
<1>8. PendingCalls \subseteq Nodes
  <2> SUFFICES ASSUME NEW k \in DOMAIN rpc_core_vec,
                      NEW n \in 1 .. rpc_core_vec[k].pending
               PROVE  <<k, n>> \in Nodes
    BY DEF PendingCalls
  <2>1. n \in 1 .. p
    BY <1>3, <1>6
  <2> QED BY <1>6, <2>1
<1> HIDE DEF Nodes
<1>9. Cardinality(PendingCalls) \in Nat /\ Cardinality(PendingCalls) <= d * p
  <2>1. /\ IsFiniteSet(PendingCalls)
        /\ Cardinality(PendingCalls) <= Cardinality(Nodes)
    BY <1>7, <1>8, FS_Subset
  <2>2. Cardinality(PendingCalls) \in Nat
    BY <2>1, FS_CardinalityType
  <2> QED BY <1>7, <2>1, <2>2
<1> DEFINE m == Max({bound, d})
<1>10. m \in Int /\ m >= bound /\ m >= d
  <2>1. \E x \in {bound, d} : \A y \in {bound, d} : x >= y
    BY <1>2, <1>4 DEF d
  <2> QED BY <1>2, <1>4, <2>1 DEF Max, d
<1>11. d * p \in Nat
  BY <1>2, <1>3 DEF d
<1> HIDE DEF m
<1>12. Cardinality(PendingCalls) <= m
  BY <1>2, <1>3, <1>4, <1>9, <1>10, <1>11 DEF d
<1> QED BY <1>12 DEF m, bound, d

-----------------------------------------------------------------------------
(* What is proved of the object.                                              *)

\* Before anything is called, and after every step.
LEMMA CoreAndPools == Spec => [](Core /\ PoolsHold)
<1>1. Init => PoolsHold
  BY DEF Init, PoolsHold
<1> QED BY <1>1, InitCore, StepCore, PoolsStep, PTL DEF Spec

\* The builder, the options and the cores stay consistent however the setters,
\* Builds, Starts and calls follow each other.
THEOREM LifecycleConsistent == Spec => []IInv
<1>1. Core /\ PoolsHold => IInv
  BY CoreImplies
<1> QED BY <1>1, CoreAndPools, PTL

\* Build gives an object the flag where there is one, else the last value a
\* setter accepted, whatever setters or Builds threw before.
THEOREM FlagsOverride == Spec => FlagsWin
<1>1. IInv /\ [Next]_vars =>
        [Construct => \A name \in Names : options'[name] =
           IF flags[name] = NoFlag THEN chosen[name] ELSE flags[name]]_vars
  <2> SUFFICES ASSUME IInv, Construct
               PROVE  \A name \in Names : options'[name] =
                        IF flags[name] = NoFlag THEN chosen[name] ELSE flags[name]
    OBVIOUS
  <2>1. BuilderInv
    BY DEF IInv, TypeOK, BuilderInv
  <2> QED BY <2>1, BuildNowOptions DEF Construct
<1> QED BY <1>1, LifecycleConsistent, PTL DEF Spec, FlagsWin

\* However ninths are rounded and pools aligned, a core has room for its share
\* of max_rpc_sessions.
THEOREM RefusedAtShare == Spec => []RefusedOnlyAtShare
<1>1. IInv => RefusedOnlyAtShare
  BY DEF IInv
<1> QED BY <1>1, LifecycleConsistent, PTL

\* Ninths and powers of two never let more than 20/9 of max_rpc_sessions be
\* pending in all cores together, or one session per core.
THEOREM PendingAtMost == Spec => []PendingBounded
<1>1. Core /\ PoolsHold => PendingBounded
  BY PendingCounted
<1> QED BY <1>1, CoreAndPools, PTL

\* Before the destructor, OnRecvPacket, OnSentResult and CallMethod find the
\* core of the worker they run in, also while Start has not returned.
THEOREM CoreAlwaysFound == Spec => []CoreFoundUntilDestructor
<1>1. IInv => CoreFoundUntilDestructor
  BY DEF IInv
<1> QED BY <1>1, LifecycleConsistent, PTL

\* After Start returns the cores are complete and route alike, however often
\* Start failed before.
THEOREM StartedHasAllCores == Spec => []StartedComplete
<1>1. IInv => StartedComplete
  BY DEF IInv
<1> QED BY <1>1, LifecycleConsistent, PTL
=============================================================================
