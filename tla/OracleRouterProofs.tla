--------------------------- MODULE OracleRouterProofs --------------------------
(***************************************************************************)
(* The breaker's guarantees for any feeds, markets, prices and settings,   *)
(* as long as operators pass each feed with a market of its own.           *)
(***************************************************************************)
EXTENDS OracleRouter, TLAPS

\* No two feeds share a market and no feed has two.
OneToOne == \A p, q \in Routing : (p[1] = q[1]) <=> (p[2] = q[2])

\* The breaker's own count of time and quotes is the history's while it is
\* active, and there is nothing to wait for while it is not.
BreakerRemembers ==
    IF circuit_breaker_active
    THEN since_jump = since_trip /\ good_since_jump = good_price_count
    ELSE since_jump = MAX_COOLDOWN /\ good_since_jump = MAX_COUNT

LEMMA OneMoreType == \A n \in 0 .. MAX_COUNT : OneMore(n) \in 0 .. MAX_COUNT
BY OracleAssumption DEF OneMore

LEMMA LaterType == \A n \in 0 .. MAX_COOLDOWN : Later(n) \in 0 .. MAX_COOLDOWN
BY OracleAssumption DEF Later

\* What a push can do: which part of the state it leaves alone, and how the
\* breaker and the history move together.
LEMMA PushFacts ==
    ASSUME TypeOK, NEW f \in Feeds, Push(f)
    PROVE  /\ UNCHANGED <<roles, breaker_params, feed_active, feed_params, engine_open>>
           /\ \E m \in Markets, q \in Quotes :
                 /\ <<f, m>> \in Routing
                 /\ \/ /\ Jumps(f, q) /\ Trip(f, q)
                       /\ since_jump' = 0 /\ good_since_jump' = 0
                    \/ /\ ~Jumps(f, q) /\ Wait
                       /\ since_jump' = since_jump
                       /\ good_since_jump' = OneMore(good_since_jump)
                    \/ /\ ~Jumps(f, q) /\ Forward(f, m, q) /\ Settled
<1>1. PICK key \in Keys, m \in Markets, q \in Quotes :
          <<f, m>> \in Routing /\ PushPrice(key, f, m, q) /\ RecordPush(f, q)
    BY DEF Push
<1>2. UNCHANGED <<roles, breaker_params, feed_active, feed_params, engine_open>>
    BY <1>1 DEF PushPrice
<1>3. CASE Jumps(f, q)
    <2>1. Trip(f, q) /\ since_jump' = 0 /\ good_since_jump' = 0
        BY <1>1, <1>3 DEF PushPrice, RecordPush, Jumps
    <2>2. QED
        BY <1>1, <1>2, <1>3, <2>1
<1>4. CASE ~Jumps(f, q) /\ Wait
    <2>1. circuit_breaker_active'
        BY <1>4 DEF Wait
    <2>2. /\ since_jump' = since_jump
          /\ good_since_jump' = OneMore(good_since_jump)
        BY <1>1, <1>4, <2>1 DEF RecordPush, Jumps, OneMore
    <2>3. QED
        BY <1>1, <1>2, <1>4, <2>2
<1>5. CASE ~Jumps(f, q) /\ Forward(f, m, q)
    <2>1. ~circuit_breaker_active'
        BY <1>5 DEF Forward
    <2>2. Settled
        BY <1>1, <1>5, <2>1 DEF RecordPush, Jumps
    <2>3. QED
        BY <1>1, <1>2, <1>5, <2>2
<1>6. QED
    BY <1>1, <1>3, <1>4, <1>5 DEF PushPrice

--------------------------------------------------------------------------------
(* Types *)

LEMMA Bounds == MAX_COOLDOWN \in 0 .. MAX_COOLDOWN /\ 0 \in 0 .. MAX_COOLDOWN
                /\ MAX_COUNT \in 0 .. MAX_COUNT /\ 0 \in 0 .. MAX_COUNT
BY OracleAssumption

LEMMA InitTypes == Init => TypeOK
<1> SUFFICES ASSUME Init PROVE TypeOK
    OBVIOUS
<1>1. /\ owner \in Keys /\ pending_owner \in Keys \cup {NoKey} /\ operators \subseteq Keys
      /\ circuit_breaker_active \in BOOLEAN /\ engine_open \in BOOLEAN
    BY DEF Init
<1>2. /\ since_trip \in 0 .. MAX_COOLDOWN /\ since_jump \in 0 .. MAX_COOLDOWN
      /\ good_price_count \in 0 .. MAX_COUNT /\ good_since_jump \in 0 .. MAX_COUNT
    BY Bounds DEF Init
<1>3. /\ feed_active \in [Feeds -> BOOLEAN]
      /\ feed_params \in [Feeds -> FeedParams \cup {Unlisted}]
      /\ last_price \in [Feeds -> Nat] /\ mark_price \in [Markets -> Nat]
    BY DEF Init
<1>4. cooldown \in MIN_COOLDOWN .. MAX_COOLDOWN /\ max_change \in MIN_CHANGE .. MAX_CHANGE
    BY OracleAssumption DEF Init, LegalBreaker
<1>5. QED
    BY <1>1, <1>2, <1>3, <1>4 DEF TypeOK

LEMMA PushTypes ==
    ASSUME TypeOK, NEW f \in Feeds, Push(f)
    PROVE  TypeOK'
<1>1. PICK m \in Markets, q \in Quotes :
          /\ <<f, m>> \in Routing
          /\ \/ /\ Jumps(f, q) /\ Trip(f, q)
                /\ since_jump' = 0 /\ good_since_jump' = 0
             \/ /\ ~Jumps(f, q) /\ Wait
                /\ since_jump' = since_jump
                /\ good_since_jump' = OneMore(good_since_jump)
             \/ /\ ~Jumps(f, q) /\ Forward(f, m, q) /\ Settled
    BY PushFacts
<1>2. UNCHANGED <<roles, breaker_params, feed_active, feed_params, engine_open>>
    BY PushFacts
<1>3. q.mark \in Nat
    BY OracleAssumption
<1>4. /\ circuit_breaker_active' \in BOOLEAN
      /\ since_trip' \in 0 .. MAX_COOLDOWN /\ good_price_count' \in 0 .. MAX_COUNT
      /\ since_jump' \in 0 .. MAX_COOLDOWN /\ good_since_jump' \in 0 .. MAX_COUNT
    <2>1. CASE Trip(f, q) /\ since_jump' = 0 /\ good_since_jump' = 0
        BY <2>1, Bounds DEF Trip
    <2>2. CASE Wait /\ since_jump' = since_jump /\ good_since_jump' = OneMore(good_since_jump)
        BY <2>2, OneMoreType DEF Wait, TypeOK
    <2>3. CASE Forward(f, m, q) /\ Settled
        <3>1. /\ circuit_breaker_active' \in BOOLEAN
              /\ since_jump' \in 0 .. MAX_COOLDOWN /\ good_since_jump' \in 0 .. MAX_COUNT
              /\ since_trip' \in 0 .. MAX_COOLDOWN
            BY <2>3, Bounds DEF Forward, Settled, TypeOK
        <3>2. good_price_count' \in 0 .. MAX_COUNT
            BY <2>3, OneMoreType DEF Forward, TypeOK
        <3>3. QED
            BY <3>1, <3>2
    <2>4. QED
        BY <1>1, <2>1, <2>2, <2>3
<1>5. last_price' \in [Feeds -> Nat] /\ mark_price' \in [Markets -> Nat]
    BY <1>1, <1>3 DEF TypeOK, Trip, Wait, Forward
<1>6. QED
    BY <1>2, <1>4, <1>5 DEF TypeOK, roles, breaker_params

LEMMA AdministerTypes ==
    ASSUME TypeOK, NEW key \in Keys, Administer(key)
    PROVE  TypeOK'
<1>1. ASSUME NEW f \in Feeds, NEW params \in FeedParams, ConfigureFeed(key, f, params),
             UNCHANGED history
      PROVE  TypeOK'
    BY <1>1 DEF ConfigureFeed, TypeOK, roles, breaker, breaker_params, engine, history
<1>2. ASSUME NEW f \in Feeds, DeactivateFeed(key, f), UNCHANGED history
      PROVE  TypeOK'
    BY <1>2 DEF DeactivateFeed, TypeOK, roles, breaker, breaker_params, engine, history
<1>3. ASSUME NEW secs \in Cooldowns, NEW bps \in Changes,
             SetCircuitBreakerParams(key, secs, bps), UNCHANGED history
      PROVE  TypeOK'
    <2>1. cooldown' \in MIN_COOLDOWN .. MAX_COOLDOWN /\ max_change' \in MIN_CHANGE .. MAX_CHANGE
        BY <1>3, OracleAssumption DEF SetCircuitBreakerParams, LegalBreaker
    <2>2. UNCHANGED <<roles, breaker, feeds, engine, history>>
        BY <1>3 DEF SetCircuitBreakerParams
    <2>3. QED
        BY <2>1, <2>2 DEF TypeOK, roles, breaker, feeds, engine, history
<1>4. ASSUME NEW operator \in Keys, NEW status \in BOOLEAN,
             SetOperator(key, operator, status), UNCHANGED history
      PROVE  TypeOK'
    BY <1>4 DEF SetOperator, TypeOK, breaker, breaker_params, feeds, engine, history
<1>5. ASSUME NEW new_owner \in Keys, TransferOwnership(key, new_owner), UNCHANGED history
      PROVE  TypeOK'
    BY <1>5 DEF TransferOwnership, TypeOK, breaker, breaker_params, feeds, engine, history
<1>6. ASSUME AcceptOwnership(key), UNCHANGED history
      PROVE  TypeOK'
    BY <1>6 DEF AcceptOwnership, TypeOK, breaker, breaker_params, feeds, engine, history
<1>7. ASSUME ResetCircuitBreaker(key), Settled
      PROVE  TypeOK'
    <2>1. /\ since_jump' \in 0 .. MAX_COOLDOWN /\ good_since_jump' \in 0 .. MAX_COUNT
          /\ good_price_count' \in 0 .. MAX_COUNT /\ circuit_breaker_active' \in BOOLEAN
        BY <1>7, Bounds DEF ResetCircuitBreaker, Settled
    <2>2. UNCHANGED <<roles, since_trip, breaker_params, feeds, engine>>
        BY <1>7 DEF ResetCircuitBreaker
    <2>3. QED
        BY <2>1, <2>2 DEF TypeOK, roles, breaker_params, feeds, engine
<1>8. QED
    BY <1>1, <1>2, <1>3, <1>4, <1>5, <1>6, <1>7 DEF Administer

LEMMA TypeStep == TypeOK /\ [Next]_vars => TypeOK'
<1> SUFFICES ASSUME TypeOK, [Next]_vars PROVE TypeOK'
    OBVIOUS
<1>1. ASSUME NEW f \in Feeds, Push(f) PROVE TypeOK'
    BY <1>1, PushTypes
<1>2. ASSUME NEW key \in Keys, Administer(key) PROVE TypeOK'
    BY <1>2, AdministerTypes
<1>3. ASSUME Elapse PROVE TypeOK'
    BY <1>3, LaterType
    DEF Elapse, Tick, TypeOK, roles, breaker_params, feeds, engine
<1>4. ASSUME NEW open \in BOOLEAN, SetEngineOpen(open), UNCHANGED history PROVE TypeOK'
    BY <1>4 DEF SetEngineOpen, TypeOK, roles, breaker, breaker_params, feeds, history
<1>5. CASE UNCHANGED vars
    BY <1>5 DEF vars, TypeOK, roles, breaker, breaker_params, feeds, engine, history
<1>6. QED
    BY <1>1, <1>2, <1>3, <1>4, <1>5 DEF Next

\* Every setting, counter and price stays within its type: the settings of
\* the breaker legal, the counter of good quotes within its width.
THEOREM OracleTypes == Spec => []TypeOK
BY InitTypes, TypeStep, PTL DEF Spec

--------------------------------------------------------------------------------
(* The engine mirrors the feeds *)

LEMMA MirrorStep ==
    ASSUME OneToOne, TypeOK, EngineMirrorsFeeds, [Next]_vars
    PROVE  EngineMirrorsFeeds'
<1>1. ASSUME NEW f \in Feeds, Push(f) PROVE EngineMirrorsFeeds'
    <2>1. PICK m \in Markets, q \in Quotes :
              /\ <<f, m>> \in Routing
              /\ \/ /\ Jumps(f, q) /\ Trip(f, q)
                    /\ since_jump' = 0 /\ good_since_jump' = 0
                 \/ /\ ~Jumps(f, q) /\ Wait
                    /\ since_jump' = since_jump
                    /\ good_since_jump' = OneMore(good_since_jump)
                 \/ /\ ~Jumps(f, q) /\ Forward(f, m, q) /\ Settled
        BY <1>1, PushFacts
    <2>2. CASE UNCHANGED <<last_price, mark_price>>
        BY <2>2 DEF EngineMirrorsFeeds
    <2>3. CASE Forward(f, m, q)
        <3>1. /\ last_price' = [last_price EXCEPT ![f] = q.mark]
              /\ mark_price' = [mark_price EXCEPT ![m] = q.mark]
            BY <2>3 DEF Forward
        <3> SUFFICES ASSUME NEW pair \in Routing
                     PROVE  mark_price'[pair[2]] = last_price'[pair[1]]
            BY DEF EngineMirrorsFeeds
        <3>2. pair[1] \in Feeds /\ pair[2] \in Markets
            BY OracleAssumption
        <3>3. pair[1] = f <=> pair[2] = m
            BY <2>1 DEF OneToOne
        <3>4. mark_price[pair[2]] = last_price[pair[1]]
            BY DEF EngineMirrorsFeeds
        <3>5. QED
            BY <3>1, <3>2, <3>3, <3>4 DEF TypeOK
    <2>4. QED
        BY <2>1, <2>2, <2>3 DEF Trip, Wait
<1>2. ASSUME NEW key \in Keys, Administer(key) PROVE EngineMirrorsFeeds'
    <2>1. UNCHANGED <<last_price, mark_price>>
        BY <1>2 DEF Administer, ConfigureFeed, DeactivateFeed, SetCircuitBreakerParams,
                    SetOperator, TransferOwnership, AcceptOwnership, ResetCircuitBreaker,
                    feeds, engine
    <2>2. QED
        BY <2>1 DEF EngineMirrorsFeeds
<1>3. CASE Elapse
    BY <1>3 DEF Elapse, Tick, EngineMirrorsFeeds, feeds, engine
<1>4. CASE \E open \in BOOLEAN : SetEngineOpen(open) /\ UNCHANGED history
    BY <1>4 DEF SetEngineOpen, EngineMirrorsFeeds, feeds
<1>5. CASE UNCHANGED vars
    BY <1>5 DEF vars, EngineMirrorsFeeds, feeds, engine
<1>6. QED
    BY <1>1, <1>2, <1>3, <1>4, <1>5 DEF Next

LEMMA InitMirrors == Init => EngineMirrorsFeeds
BY OracleAssumption DEF Init, EngineMirrorsFeeds

\* Whatever is pushed, dropped, refused, reset or reconfigured, and for any
\* number of feeds, the engine's price is the last price of its feed.
THEOREM EngineAlwaysMirrors == OneToOne => (Spec => []EngineMirrorsFeeds)
<1> SUFFICES ASSUME OneToOne PROVE Spec => []EngineMirrorsFeeds
    OBVIOUS
<1>1. TypeOK /\ EngineMirrorsFeeds /\ [Next]_vars => EngineMirrorsFeeds'
    BY MirrorStep
<1>2. QED
    BY <1>1, InitMirrors, OracleTypes, PTL DEF Spec

\* The router's settings stay in their bounds while the engine follows.
THEOREM OracleBooks == OneToOne => (Spec => []OracleInv)
BY OracleTypes, EngineAlwaysMirrors, PTL DEF OracleInv

--------------------------------------------------------------------------------
(* Quiet after a jump *)

LEMMA BreakerStep ==
    ASSUME TypeOK, BreakerRemembers, [Next]_vars
    PROVE  BreakerRemembers'
<1>1. ASSUME NEW f \in Feeds, Push(f) PROVE BreakerRemembers'
    <2>1. PICK m \in Markets, q \in Quotes :
              \/ /\ Trip(f, q)
                 /\ since_jump' = 0 /\ good_since_jump' = 0
              \/ /\ Wait
                 /\ since_jump' = since_jump
                 /\ good_since_jump' = OneMore(good_since_jump)
              \/ Forward(f, m, q) /\ Settled
        BY <1>1, PushFacts
    <2>2. QED
        BY <2>1 DEF BreakerRemembers, Trip, Wait, Forward, Settled
<1>2. ASSUME NEW key \in Keys, Administer(key) PROVE BreakerRemembers'
    <2>1. CASE ResetCircuitBreaker(key) /\ Settled
        BY <2>1 DEF ResetCircuitBreaker, Settled, BreakerRemembers
    <2>2. CASE UNCHANGED <<breaker, history>>
        BY <2>2 DEF BreakerRemembers, breaker, history
    <2>3. QED
        BY <1>2, <2>1, <2>2
        DEF Administer, ConfigureFeed, DeactivateFeed, SetCircuitBreakerParams, SetOperator,
            TransferOwnership, AcceptOwnership
<1>3. CASE Elapse
    <2>1. /\ since_trip' = Later(since_trip) /\ since_jump' = Later(since_jump)
          /\ UNCHANGED <<circuit_breaker_active, good_price_count, good_since_jump>>
        BY <1>3 DEF Elapse, Tick
    <2>2. Later(MAX_COOLDOWN) = MAX_COOLDOWN
        BY OracleAssumption DEF Later
    <2>3. QED
        BY <2>1, <2>2 DEF BreakerRemembers
<1>4. CASE \E open \in BOOLEAN : SetEngineOpen(open) /\ UNCHANGED history
    BY <1>4 DEF SetEngineOpen, BreakerRemembers, breaker, history
<1>5. CASE UNCHANGED vars
    BY <1>5 DEF vars, BreakerRemembers, breaker, history
<1>6. QED
    BY <1>1, <1>2, <1>3, <1>4, <1>5 DEF Next

LEMMA QuietStep ==
    ASSUME TypeOK, BreakerRemembers, [Next]_vars, mark_price' # mark_price
    PROVE  since_jump >= cooldown /\ OneMore(good_since_jump) >= RequiredGood
<1>1. PICK f \in Feeds : Push(f)
    BY DEF Next, Administer, ConfigureFeed, DeactivateFeed, SetCircuitBreakerParams, SetOperator,
           TransferOwnership, AcceptOwnership, ResetCircuitBreaker, Elapse, Tick, SetEngineOpen,
           vars, engine
<1>2. PICK m \in Markets, q \in Quotes : Forward(f, m, q)
    BY <1>1, PushFacts DEF Trip, Wait
<1>3. CASE circuit_breaker_active
    BY <1>2, <1>3 DEF Forward, Recovered, BreakerRemembers
<1>4. CASE ~circuit_breaker_active
    <2>1. since_jump = MAX_COOLDOWN /\ good_since_jump = MAX_COUNT
        BY <1>4 DEF BreakerRemembers
    <2>2. MAX_COOLDOWN >= cooldown /\ OneMore(MAX_COUNT) >= RequiredGood
        BY OracleAssumption DEF TypeOK, OneMore
    <2>3. QED
        BY <2>1, <2>2
<1>5. QED
    BY <1>3, <1>4

\* Unless the owner resets the breaker, a jump on any feed keeps every price
\* from the engine until the cooldown has passed and enough good quotes came.
THEOREM BreakerKeepsQuiet == Spec => QuietAfterJump
<1>1. Init => BreakerRemembers
    BY DEF Init, BreakerRemembers
<1>2. TypeOK /\ BreakerRemembers /\ [Next]_vars => BreakerRemembers'
    BY BreakerStep
<1>3. TypeOK /\ BreakerRemembers /\ [Next]_vars =>
          [mark_price' # mark_price =>
               since_jump >= cooldown /\ OneMore(good_since_jump) >= RequiredGood]_vars
    BY QuietStep
<1>4. QED
    BY <1>1, <1>2, <1>3, OracleTypes, PTL DEF Spec, QuietAfterJump

--------------------------------------------------------------------------------
(* Gentle moves *)

LEMMA GentleStep ==
    ASSUME OneToOne, TypeOK, EngineMirrorsFeeds, [Next]_vars,
           NEW n \in Markets, mark_price[n] > 0, mark_price'[n] # mark_price[n]
    PROVE  Deviation(mark_price'[n], mark_price[n]) <= max_change
<1>1. PICK f \in Feeds : Push(f)
    BY DEF Next, Administer, ConfigureFeed, DeactivateFeed, SetCircuitBreakerParams, SetOperator,
           TransferOwnership, AcceptOwnership, ResetCircuitBreaker, Elapse, Tick, SetEngineOpen,
           vars, engine
<1>2. PICK m \in Markets, q \in Quotes :
          <<f, m>> \in Routing /\ ~Jumps(f, q) /\ Forward(f, m, q)
    BY <1>1, PushFacts DEF Trip, Wait
<1>3. mark_price' = [mark_price EXCEPT ![m] = q.mark]
    BY <1>2 DEF Forward
<1>4. n = m /\ mark_price'[n] = q.mark
    BY <1>3 DEF TypeOK
<1>5. mark_price[n] = last_price[f]
    BY <1>2, <1>4 DEF EngineMirrorsFeeds
<1>6. ~(Deviation(q.mark, last_price[f]) > max_change)
    BY <1>2, <1>5 DEF Jumps
<1>7. last_price[f] \in Nat /\ q.mark \in Nat /\ max_change \in Nat
    BY OracleAssumption DEF TypeOK
<1>8. Deviation(q.mark, last_price[f]) \in Int
    BY <1>7, OracleAssumption DEF Deviation
<1>9. QED
    BY <1>4, <1>5, <1>6, <1>7, <1>8

\* Whatever happens between two pushes, the engine's price moves by no more
\* than the breaker's limit at once.
THEOREM EngineMovesGently == OneToOne => (Spec => GentleMoves)
<1> SUFFICES ASSUME OneToOne PROVE Spec => GentleMoves
    OBVIOUS
<1>1. TypeOK /\ EngineMirrorsFeeds /\ [Next]_vars =>
          [\A m \in Markets : mark_price[m] > 0 /\ mark_price'[m] # mark_price[m] =>
               Deviation(mark_price'[m], mark_price[m]) <= max_change]_vars
    BY GentleStep
<1>2. QED
    BY <1>1, EngineAlwaysMirrors, OracleTypes, PTL DEF Spec, GentleMoves
================================================================================
