------------------------------ MODULE OracleKeeper -----------------------------
(***************************************************************************)
(* oracle_router and the operator that feeds it.                           *)
(*                                                                         *)
(* The operator is honest and keeps pushing: every quote carries the true  *)
(* price of the feed, fresh, with no index to compare.  The true prices    *)
(* move as they like.  The owner may change the breaker's settings and     *)
(* reset it at any time; the engine stays open and the feeds configured.   *)
(* The question is whether the engine follows the world.                   *)
(***************************************************************************)
EXTENDS OracleRouter

CONSTANTS
    Operator,       \* the key that owns the router and operates it
    WorldPrices,
    Settings        \* the feeds' settings

VARIABLE world      \* the true price of each feed

keeper_vars == <<vars, world>>

TrueQuote(f) ==
    [mark |-> world[f], index |-> 0, source |-> 1, age |-> 0, confidence |-> 0]

\* The router initialized and its feeds configured, no price pushed yet.
KeeperInit ==
    /\ Init
    /\ owner = Operator
    /\ world \in [Feeds -> WorldPrices]

Configure(f) ==
    /\ ~feed_active[f]
    /\ ConfigureFeed(Operator, f, Settings)
    /\ UNCHANGED <<history, world>>

Authorize ==
    /\ Operator \notin operators
    /\ SetOperator(Operator, Operator, TRUE)
    /\ UNCHANGED <<history, world>>

PushTrue(f) ==
    /\ \E m \in Markets : <<f, m>> \in Routing /\ PushPrice(Operator, f, m, TrueQuote(f))
    /\ RecordPush(f, TrueQuote(f))
    /\ UNCHANGED world

TimePasses == Elapse /\ UNCHANGED world

WorldMoves ==
    /\ \E f \in Feeds, p \in WorldPrices : world' = [world EXCEPT ![f] = p]
    /\ UNCHANGED vars

Reset ==
    /\ circuit_breaker_active
    /\ ResetCircuitBreaker(Operator) /\ Settled
    /\ UNCHANGED world

ChangeParams ==
    /\ \E secs \in Cooldowns, bps \in Changes : SetCircuitBreakerParams(Operator, secs, bps)
    /\ UNCHANGED <<history, world>>

KeeperNext ==
    \/ \E f \in Feeds : Configure(f) \/ PushTrue(f)
    \/ Authorize \/ TimePasses \/ WorldMoves \/ Reset \/ ChangeParams

\* The operator keeps pushing every feed and time passes; nobody has to
\* reset the breaker, change its settings or calm the world.
KeeperFairness ==
    /\ \A f \in Feeds : WF_keeper_vars(Configure(f)) /\ WF_keeper_vars(PushTrue(f))
    /\ WF_keeper_vars(Authorize)
    /\ WF_keeper_vars(TimePasses)

KeeperSpec == KeeperInit /\ [][KeeperNext]_keeper_vars /\ KeeperFairness

--------------------------------------------------------------------------------
Reachable(f) == last_price[f] = 0 \/ Deviation(world[f], last_price[f]) <= max_change

EngineFollows == \A pair \in Routing : mark_price[pair[2]] = world[pair[1]]

\* However often the breaker was tripped before: when the true prices stay
\* where they are, all within the breaker's limit of the last price of their
\* feed, the breaker recovers by itself and the engine gets the true prices.
Recovers ==
    <>[][world' = world]_world /\ <>[](\A f \in Feeds : Reachable(f)) => <>[]EngineFollows
================================================================================
