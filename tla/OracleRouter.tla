------------------------------ MODULE OracleRouter -----------------------------
(***************************************************************************)
(* oracle_router: prices checked and forwarded to perp_engine.             *)
(*                                                                         *)
(* An operator pushes a quote for a feed.  A quote that fails a check is   *)
(* refused and changes nothing.  One that jumps too far trips the circuit  *)
(* breaker, which is one for all feeds, and the quote is dropped.  While   *)
(* the breaker is active good quotes are counted and dropped; the first    *)
(* one that finds the cooldown over and enough good quotes counted closes  *)
(* the breaker and is forwarded.  Forwarding calls the engine inside the   *)
(* instruction: if the engine refuses, the push changes nothing.           *)
(*                                                                         *)
(* Of the clock the program uses two differences: the age of a quote and   *)
(* the time since the breaker was tripped.  They are modelled instead of   *)
(* the clock, the second up to the longest cooldown an owner can choose.   *)
(* pyth_feed, last_price_timestamp and the engine's index price are never  *)
(* read back and are left out.                                             *)
(***************************************************************************)
EXTENDS Integers

CONSTANTS
    Feeds, Markets,
    Routing,                \* <<feed, market>>: the accounts operators pass together
    Keys, NoKey,
    MIN_COOLDOWN, MAX_COOLDOWN, MIN_CHANGE, MAX_CHANGE, BPS,
    PYTH, DUAL,             \* the sources 0 and 2, which have checks of their own
    MAX_COUNT,              \* the largest value of the counter of good quotes
    RequiredGood,           \* required_good_prices_for_reset, fixed at initialize
    Cooldowns, Changes,     \* inputs: breaker settings, legal or not
    FeedParams,             \* inputs: settings of a feed
    Quotes,                 \* inputs: what operators push
    Unlisted                \* the settings of a feed that was never configured

ASSUME OracleAssumption ==
    /\ Routing \subseteq Feeds \X Markets
    /\ NoKey \notin Keys
    /\ MIN_COOLDOWN \in Nat /\ MAX_COOLDOWN \in Nat /\ MIN_CHANGE \in Nat \ {0}
    /\ BPS \in Nat \ {0}
    /\ MAX_CHANGE \in Nat
    /\ MAX_COUNT \in Nat /\ RequiredGood \in 0 .. MAX_COUNT
    /\ Cooldowns \subseteq Int /\ Changes \subseteq Nat
    /\ FeedParams \subseteq [max_staleness : Int, max_deviation_bps : Nat, max_confidence_bps : Nat]
    /\ Quotes \subseteq [mark : Nat, index : Nat, source : Int, age : Int, confidence : Nat]

VARIABLES
    owner, pending_owner, operators,
    circuit_breaker_active, since_trip, good_price_count,
    cooldown, max_change,
    feed_active, feed_params, last_price,
    mark_price,         \* the engine's, per market
    engine_open,        \* the engine is running and lists the router as operator
    since_jump, good_since_jump     \* history: the last jump, and quotes since

roles == <<owner, pending_owner, operators>>
breaker == <<circuit_breaker_active, since_trip, good_price_count>>
breaker_params == <<cooldown, max_change>>
feeds == <<feed_active, feed_params, last_price>>
engine == <<mark_price, engine_open>>
history == <<since_jump, good_since_jump>>
vars == <<roles, breaker, breaker_params, feeds, engine, history>>

LegalBreaker(secs, bps) ==
    /\ MIN_COOLDOWN <= secs /\ secs <= MAX_COOLDOWN
    /\ MIN_CHANGE <= bps /\ bps <= MAX_CHANGE

TypeOK ==
    /\ owner \in Keys /\ pending_owner \in Keys \cup {NoKey} /\ operators \subseteq Keys
    /\ circuit_breaker_active \in BOOLEAN
    /\ since_trip \in 0 .. MAX_COOLDOWN
    /\ good_price_count \in 0 .. MAX_COUNT
    /\ cooldown \in MIN_COOLDOWN .. MAX_COOLDOWN /\ max_change \in MIN_CHANGE .. MAX_CHANGE
    /\ feed_active \in [Feeds -> BOOLEAN]
    /\ feed_params \in [Feeds -> FeedParams \cup {Unlisted}]
    /\ last_price \in [Feeds -> Nat]
    /\ mark_price \in [Markets -> Nat]
    /\ engine_open \in BOOLEAN
    /\ since_jump \in 0 .. MAX_COOLDOWN /\ good_since_jump \in 0 .. MAX_COUNT

Init ==
    /\ owner \in Keys /\ pending_owner = NoKey /\ operators = {}
    /\ circuit_breaker_active = FALSE
    /\ since_trip = MAX_COOLDOWN        \* triggered_at is 0, long ago
    /\ good_price_count = 0
    /\ cooldown \in Cooldowns /\ max_change \in Changes
    /\ LegalBreaker(cooldown, max_change)
    /\ feed_active = [f \in Feeds |-> FALSE]
    /\ feed_params = [f \in Feeds |-> Unlisted]
    /\ last_price = [f \in Feeds |-> 0]
    /\ mark_price = [m \in Markets |-> 0]
    /\ engine_open = TRUE
    /\ since_jump = MAX_COOLDOWN /\ good_since_jump = MAX_COUNT

--------------------------------------------------------------------------------
(* Checks on a quote *)

Deviation(a, b) ==
    LET gap == IF a > b THEN a - b ELSE b - a
        average == a \div 2 + b \div 2
    IN  IF a = 0 \/ b = 0 \/ average = 0 THEN BPS ELSE (gap * BPS) \div average

Acceptable(f, q) ==
    LET limits == feed_params[f]
    IN  /\ feed_active[f]
        /\ q.mark > 0
        /\ 0 <= q.age /\ q.age <= limits.max_staleness
        /\ limits.max_confidence_bps > 0 /\ q.source = PYTH =>
               q.confidence <= limits.max_confidence_bps
        /\ q.source = DUAL /\ limits.max_deviation_bps > 0 =>
               Deviation(q.mark, q.index) <= limits.max_deviation_bps

JumpsUnlessActive(f, q) ==      \* a mutant: no check while the breaker is active
    /\ ~circuit_breaker_active
    /\ last_price[f] > 0 /\ Deviation(q.mark, last_price[f]) > max_change

Jumps(f, q) == last_price[f] > 0 /\ Deviation(q.mark, last_price[f]) > max_change

\* The counter after one more good quote.
OneMore(count) == IF count < MAX_COUNT THEN count + 1 ELSE MAX_COUNT

Recovered == since_trip >= cooldown /\ OneMore(good_price_count) >= RequiredGood

--------------------------------------------------------------------------------
(* The three ways a push ends *)

TripOnce(f, q) ==       \* a mutant: a second jump does not restart the cooldown
    /\ circuit_breaker_active' = TRUE
    /\ since_trip' = IF circuit_breaker_active THEN since_trip ELSE 0
    /\ good_price_count' = 0
    /\ UNCHANGED <<last_price, mark_price>>

TripAdoptsPrice(f, q) ==    \* a mutant: the price that jumped becomes the last one
    /\ circuit_breaker_active' = TRUE
    /\ since_trip' = 0
    /\ good_price_count' = 0
    /\ last_price' = [last_price EXCEPT ![f] = q.mark]
    /\ UNCHANGED mark_price

Trip(f, q) ==
    /\ circuit_breaker_active' = TRUE
    /\ since_trip' = 0
    /\ good_price_count' = 0
    /\ UNCHANGED <<last_price, mark_price>>

WaitRestartsCooldown ==     \* a mutant: every dropped quote restarts the cooldown
    /\ circuit_breaker_active /\ ~Recovered
    /\ good_price_count' = OneMore(good_price_count)
    /\ since_trip' = 0
    /\ UNCHANGED <<circuit_breaker_active, last_price, mark_price>>

Wait ==
    /\ circuit_breaker_active /\ ~Recovered
    /\ good_price_count' = OneMore(good_price_count)
    /\ UNCHANGED <<circuit_breaker_active, since_trip, last_price, mark_price>>

Forward(f, m, q) ==
    /\ circuit_breaker_active => Recovered
    /\ engine_open
    /\ circuit_breaker_active' = FALSE
    /\ good_price_count' = IF circuit_breaker_active THEN OneMore(good_price_count)
                           ELSE good_price_count
    /\ last_price' = [last_price EXCEPT ![f] = q.mark]
    /\ mark_price' = [mark_price EXCEPT ![m] = q.mark]
    /\ UNCHANGED since_trip

PushPrice(key, f, m, q) ==
    /\ key \in operators
    /\ Acceptable(f, q)
    /\ IF Jumps(f, q) THEN Trip(f, q) ELSE Wait \/ Forward(f, m, q)
    /\ UNCHANGED <<roles, breaker_params, feed_active, feed_params, engine_open>>

--------------------------------------------------------------------------------
(* The owner's settings *)

ConfigureFeed(key, f, params) ==
    /\ key = owner
    /\ feed_params' = [feed_params EXCEPT ![f] = params]
    /\ feed_active' = [feed_active EXCEPT ![f] = TRUE]
    /\ UNCHANGED <<roles, breaker, breaker_params, last_price, engine>>

DeactivateFeed(key, f) ==
    /\ key = owner
    /\ feed_params[f] # Unlisted
    /\ feed_active' = [feed_active EXCEPT ![f] = FALSE]
    /\ UNCHANGED <<roles, breaker, breaker_params, feed_params, last_price, engine>>

SetCircuitBreakerParams(key, secs, bps) ==
    /\ key = owner
    /\ LegalBreaker(secs, bps)
    /\ cooldown' = secs /\ max_change' = bps
    /\ UNCHANGED <<roles, breaker, feeds, engine>>

ResetCircuitBreaker(key) ==
    /\ key = owner
    /\ circuit_breaker_active' = FALSE
    /\ good_price_count' = 0
    /\ UNCHANGED <<roles, since_trip, breaker_params, feeds, engine>>

SetOperator(key, operator, status) ==
    /\ key = owner
    /\ operators' = IF status THEN operators \cup {operator} ELSE operators \ {operator}
    /\ UNCHANGED <<owner, pending_owner, breaker, breaker_params, feeds, engine>>

TransferOwnership(key, new_owner) ==
    /\ key = owner
    /\ pending_owner' = new_owner
    /\ UNCHANGED <<owner, operators, breaker, breaker_params, feeds, engine>>

AcceptOwnership(key) ==
    /\ key = pending_owner
    /\ owner' = key
    /\ pending_owner' = NoKey
    /\ UNCHANGED <<operators, breaker, breaker_params, feeds, engine>>

--------------------------------------------------------------------------------
(* Around the program *)

Later(elapsed) == IF elapsed < MAX_COOLDOWN THEN elapsed + 1 ELSE MAX_COOLDOWN

Tick ==
    /\ since_trip' = Later(since_trip)
    /\ UNCHANGED <<roles, circuit_breaker_active, good_price_count, breaker_params,
                   feeds, engine>>

\* The engine is paused or resumed, or its market is, or the router loses or
\* regains its operator account there.
SetEngineOpen(open) ==
    /\ engine_open' = open
    /\ UNCHANGED <<roles, breaker, breaker_params, feeds, mark_price>>

--------------------------------------------------------------------------------
(* History: when a quote last jumped, and how many good ones came since.   *)
(* A forwarded price and the owner's reset settle the matter.              *)

Settled == since_jump' = MAX_COOLDOWN /\ good_since_jump' = MAX_COUNT

RecordPush(f, q) ==
    LET jumped == last_price[f] > 0 /\ Deviation(q.mark, last_price[f]) > max_change
    IN  \/ /\ jumped
           /\ since_jump' = 0 /\ good_since_jump' = 0
        \/ /\ ~jumped /\ circuit_breaker_active'
           /\ UNCHANGED since_jump
           /\ good_since_jump' = IF good_since_jump < MAX_COUNT THEN good_since_jump + 1
                                ELSE MAX_COUNT
        \/ /\ ~jumped /\ ~circuit_breaker_active'
           /\ Settled

Push(f) ==
    \E key \in Keys, m \in Markets, q \in Quotes :
        <<f, m>> \in Routing /\ PushPrice(key, f, m, q) /\ RecordPush(f, q)

Administer(key) ==
    \/ /\ \/ \E f \in Feeds : \/ \E params \in FeedParams : ConfigureFeed(key, f, params)
                              \/ DeactivateFeed(key, f)
          \/ \E secs \in Cooldowns, bps \in Changes : SetCircuitBreakerParams(key, secs, bps)
          \/ \E operator \in Keys, status \in BOOLEAN : SetOperator(key, operator, status)
          \/ \E new_owner \in Keys : TransferOwnership(key, new_owner)
          \/ AcceptOwnership(key)
       /\ UNCHANGED history
    \/ ResetCircuitBreaker(key) /\ Settled

Elapse == Tick /\ since_jump' = Later(since_jump) /\ UNCHANGED good_since_jump

Next ==
    \/ \E f \in Feeds : Push(f)
    \/ \E key \in Keys : Administer(key)
    \/ Elapse
    \/ \E open \in BOOLEAN : SetEngineOpen(open) /\ UNCHANGED history

Spec == Init /\ [][Next]_vars

--------------------------------------------------------------------------------
(* Properties.  They are about operators who pass each feed with a market  *)
(* of its own: the program does not bind the two.                          *)

\* The engine's mark price is the last price of its feed: quotes that trip
\* the breaker, quotes dropped while it is active and pushes the engine
\* refuses leave both alone, whatever the owner does meanwhile.
EngineMirrorsFeeds == \A pair \in Routing : mark_price[pair[2]] = last_price[pair[1]]

\* Settings and counters stay in their bounds while the engine follows.
OracleInv == TypeOK /\ EngineMirrorsFeeds

\* Once it has a price, the engine's mark never moves by more than the
\* breaker's limit at once: not after the cooldown, a reset by the owner, a
\* reconfigured feed or a long silence either.
GentleMoves ==
    [][\A m \in Markets : mark_price[m] > 0 /\ mark_price'[m] # mark_price[m] =>
            Deviation(mark_price'[m], mark_price[m]) <= max_change]_vars

\* Unless the owner resets the breaker, no price of any feed reaches the
\* engine after a jump on any feed until the cooldown has passed since the
\* last jump and enough good quotes have come after it.
QuietAfterJump ==
    [][mark_price' # mark_price =>
            since_jump >= cooldown /\ OneMore(good_since_jump) >= RequiredGood]_vars
================================================================================
