------------------------------- MODULE DarkPool --------------------------------
(***************************************************************************)
(* a2a_darkpool: agents trade with each other without an operator.  One    *)
(* posts an intent, others respond with a price inside its range, and the  *)
(* intent's agent accepts one response, which fills both sides at the      *)
(* engine and charges both a fee in one transaction.                       *)
(*                                                                         *)
(* Agents race: a response is cancelled or expires while it is being       *)
(* accepted, several responses stand against one intent, positions change  *)
(* under both, the owner changes the fee, the market's price goes stale.   *)
(* Ids count up from 1 and so are positions in a sequence.  Nothing ever   *)
(* writes the statuses Expired: expiry is only looked at when it matters.  *)
(***************************************************************************)
EXTENDS TradeRouting, Sequences

CONSTANTS
    dp,             \* the program's authority account, an operator of the engine
    Owners,         \* keys that may own the program
    IntentTerms,    \* pairs of an agent and what it may ask for
    Durations,      \* for how long a response may stand
    MIN_INTENT_DURATION, MAX_INTENT_DURATION, RESPONSE_COOLDOWN,   \* set once by initialize
    REPUTATION_PRECISION, NEW_AGENT_SCORE,
    DefaultPolicy,  \* fee_bps and the two large-trade parameters initialize sets
    Fees,     \* fees the owner may set
    Thresholds,     \* notionals the owner may call large
    Scores,         \* reputations the owner may ask of a large trade
    Budgets,        \* ages of a price the owner may allow
    Recipients,  \* rows fees may go to
    Waits,          \* how much time may pass between two steps
    MaxIntents, MaxResponses    \* bounds

Agents == Traders

Asks == [market_id : Markets, is_buy : BOOLEAN, size : U64, min_price : U64, max_price : U64,
          duration : Nat]

ASSUME DarkPoolAssumption ==
    /\ dp \in Keys
    /\ IntentTerms \subseteq Agents \X Asks
    /\ Durations \subseteq Nat
    /\ {MIN_INTENT_DURATION, REPUTATION_PRECISION} \subseteq Nat \ {0}
    /\ MAX_INTENT_DURATION \in Nat /\ MIN_INTENT_DURATION <= MAX_INTENT_DURATION
    /\ RESPONSE_COOLDOWN \in Nat /\ NEW_AGENT_SCORE \in 0 .. REPUTATION_PRECISION
    /\ Fees \cup Thresholds \cup Scores \subseteq Nat
    /\ DefaultPolicy \in Fees \X Thresholds \X Scores
    /\ Budgets \subseteq Nat \ {0}
    /\ Recipients \subseteq Accounts
    /\ Waits \subseteq Nat \ {0}
    /\ {MaxIntents, MaxResponses} \subseteq Nat

\* config is DarkPoolConfig without the constants and the next ids.
VARIABLES
    max_settlement_price_age,   \* FreshnessConfig, 0 until it is created
    intent,         \* the intents by id
    response,       \* the responses by id
    reputation,     \* AgentReputation of every agent
    priced_at       \* last_price_update of every market of the engine

pool == <<config, max_settlement_price_age, intent, response, reputation, priced_at, now>>
dvars == <<vars, venue_authorized, pool, changes>>

IntentRecords ==
    [agent : Agents, market_id : Markets, is_buy : BOOLEAN, size : U64 \ {0},
     min_price : U64, max_price : U64, expires_at : Nat,
     status : {"Open", "Filled", "Cancelled"}, filled_response_id : Nat, fee_bps_at_post : Fees]
ResponseRecords ==
    [intent_id : Nat \ {0}, agent : Agents, price : U64, expires_at : Nat,
     status : {"Pending", "Accepted", "Cancelled"}]

NewAgent == [completed_trades |-> 0, total_volume |-> 0, expired_intents |-> 0,
             cancelled_responses |-> 0, last_response_time |-> 0]

DarkTypeOK ==
    /\ TypeOK
    /\ venue_authorized \in BOOLEAN
    /\ config \in [owner : Owners, pending_owner : Owners \cup {NoKey}, paused : BOOLEAN,
                   fee_bps : Fees, fee_recipient : Recipients,
                   large_trade_threshold : Thresholds, large_trade_min_reputation : Scores]
    /\ max_settlement_price_age \in Budgets \cup {0}
    /\ intent \in Seq(IntentRecords)
    /\ response \in Seq(ResponseRecords)
    /\ reputation \in [Agents -> [completed_trades : Nat, total_volume : U64,
                                  expired_intents : Nat, cancelled_responses : Nat,
                                  last_response_time : 0 .. now]]
    /\ priced_at \in [Markets -> 0 .. now]
    /\ now \in Now
    /\ changes \in 0 .. MaxChanges

\* initialize, after the deployment has wired the program to the engine and
\* the vault.  The freshness account is a later instruction of its own.
DarkInit ==
    /\ venue_authorized = TRUE
    /\ \E key \in Owners, recipient \in Recipients :
          config = [owner |-> key, pending_owner |-> NoKey, paused |-> FALSE,
                    fee_bps |-> DefaultPolicy[1], fee_recipient |-> recipient,
                    large_trade_threshold |-> DefaultPolicy[2],
                    large_trade_min_reputation |-> DefaultPolicy[3]]
    /\ max_settlement_price_age = 0
    /\ intent = <<>>
    /\ response = <<>>
    /\ reputation = [a \in Agents |-> NewAgent]
    /\ priced_at = [m \in Markets |-> 0]
    /\ now = 1
    /\ changes = 0

--------------------------------------------------------------------------------
\* Intents and responses

\* get_score
Score(rep) ==
    LET total == rep.completed_trades + rep.expired_intents + rep.cancelled_responses
    IN  IF total = 0 THEN NEW_AGENT_SCORE
        ELSE (rep.completed_trades * REPUTATION_PRECISION) \div total

PostIntent(agent, terms) ==
    /\ ~ config.paused
    /\ terms.size > 0
    /\ terms.min_price <= terms.max_price
    /\ terms.duration \in MIN_INTENT_DURATION .. MAX_INTENT_DURATION
    /\ Notional(terms.size, terms.max_price) > config.large_trade_threshold
          => Score(reputation[agent]) >= config.large_trade_min_reputation
    /\ Len(intent) < MaxIntents
    /\ intent' = Append(intent,
          [agent |-> agent, market_id |-> terms.market_id, is_buy |-> terms.is_buy,
           size |-> terms.size, min_price |-> terms.min_price, max_price |-> terms.max_price,
           expires_at |-> now + terms.duration, status |-> "Open", filled_response_id |-> 0,
           fee_bps_at_post |-> config.fee_bps])
    /\ UNCHANGED <<vars, venue_authorized, config, max_settlement_price_age, response,
                   reputation, priced_at, now>>

PostResponse(responder, i, price, duration) ==
    /\ ~ config.paused
    /\ intent[i].status = "Open"
    /\ now <= intent[i].expires_at
    /\ intent[i].agent # responder
    /\ price \in intent[i].min_price .. intent[i].max_price
    /\ duration > 0
    /\ now >= reputation[responder].last_response_time + RESPONSE_COOLDOWN
    /\ Len(response) < MaxResponses
    /\ reputation' = [reputation EXCEPT ![responder].last_response_time = now]
    /\ response' = Append(response,
          [intent_id |-> i, agent |-> responder, price |-> price,
           expires_at |-> now + duration, status |-> "Pending"])
    /\ UNCHANGED <<vars, venue_authorized, config, max_settlement_price_age, intent,
                   priced_at, now>>

\* Cancelling works while the program is paused, and after expiry.
CancelIntent(agent, i) ==
    /\ intent[i].agent = agent
    /\ intent[i].status = "Open"
    /\ intent' = [intent EXCEPT ![i].status = "Cancelled"]
    /\ reputation' = [reputation EXCEPT ![agent].expired_intents = @ + 1]
    /\ UNCHANGED <<vars, venue_authorized, config, max_settlement_price_age, response,
                   priced_at, now>>

CancelResponse(responder, r) ==
    /\ response[r].agent = responder
    /\ response[r].status = "Pending"
    /\ response' = [response EXCEPT ![r].status = "Cancelled"]
    /\ reputation' = [reputation EXCEPT ![responder].cancelled_responses = @ + 1]
    /\ UNCHANGED <<vars, venue_authorized, config, max_settlement_price_age, intent,
                   priced_at, now>>

--------------------------------------------------------------------------------
\* Accept and settle

StandingIntentOnly(i, r) == now <= intent[i].expires_at   \* a mutant: responses stand for ever
Standing(i, r) ==
    /\ now <= intent[i].expires_at
    /\ now <= response[r].expires_at

\* The engine's mark is recent.  It is not the price of the trade.
Fresh(m) ==
    /\ max_settlement_price_age > 0
    /\ now >= priced_at[m]
    /\ now - priced_at[m] <= max_settlement_price_age

Buyer(i, r) == IF intent[i].is_buy THEN intent[i].agent ELSE response[r].agent
Seller(i, r) == IF intent[i].is_buy THEN response[r].agent ELSE intent[i].agent

TradeNotional(i, r) == Notional(intent[i].size, response[r].price)
FeePerSideInForce(i, r) == Share(config.fee_bps, TradeNotional(i, r))   \* a mutant: today's fee
FeePerSide(i, r) == Share(intent[i].fee_bps_at_post, TradeNotional(i, r))

FilledStaysOpen(i, r) ==        \* a mutant: the intent's status is not written
    [intent EXCEPT ![i].filled_response_id = r]
Filled(i, r) == [intent EXCEPT ![i].status = "Filled", ![i].filled_response_id = r]

\* The two fees, out of what the two sides leave.
FeesPayable(led, i, r) ==
    LET fee == FeePerSide(i, r)
    IN  /\ FeePayable(led, Buyer(i, r), config.fee_recipient, fee)
        /\ FeePayable(Paid(led, Buyer(i, r), config.fee_recipient, fee),
                      Seller(i, r), config.fee_recipient, fee)
BothCharged(led, i, r) ==
    LET fee == FeePerSide(i, r)
    IN  Paid(Paid(led, Buyer(i, r), config.fee_recipient, fee),
             Seller(i, r), config.fee_recipient, fee)

EarnedByCreator(i, r) ==        \* a mutant: the responder gets no credit
    [reputation EXCEPT
        ![intent[i].agent].completed_trades = @ + 1,
        ![intent[i].agent].total_volume = SatAdd(@, TradeNotional(i, r))]

\* update_reputation, of both agents
Earned(i, r) ==
    [a \in Agents |->
        IF a \in {intent[i].agent, response[r].agent}
        THEN [reputation[a] EXCEPT !.completed_trades = @ + 1,
                                   !.total_volume = SatAdd(@, TradeNotional(i, r))]
        ELSE reputation[a]]

AcceptOneSided(agent, i, r) ==
    \* a mutant: when the seller's side is refused the buyer's stands
    LET m == intent[i].market_id
        size == intent[i].size
        price == response[r].price
    IN  /\ ~ config.paused
        /\ intent[i].agent = agent /\ intent[i].status = "Open"
        /\ response[r].intent_id = i /\ response[r].status = "Pending"
        /\ Standing(i, r) /\ Fresh(m)
        /\ LegAllowed(Books, dp, m, Buyer(i, r), size, price)
        /\ Becomes(Leg(Books, m, Buyer(i, r), size, price))
        /\ intent' = Filled(i, r)
        /\ response' = [response EXCEPT ![r].status = "Accepted"]
        /\ reputation' = Earned(i, r)
        /\ UNCHANGED <<admin, engine_pool, vault_gate, venue_authorized, config,
                       max_settlement_price_age, priced_at, now>>

\* accept_and_settle: the buyer's side, the seller's side, then the two fees
\* out of what is left.
AcceptAndSettle(agent, i, r) ==
    LET m == intent[i].market_id
        size == intent[i].size
        price == response[r].price
    IN  /\ ~ config.paused
        /\ intent[i].agent = agent /\ intent[i].status = "Open"
        /\ response[r].intent_id = i /\ response[r].status = "Pending"
        /\ Standing(i, r)
        /\ Fresh(m)
        /\ {FeePerSide(i, r), TradeNotional(i, r)} \subseteq U64 /\ size \in I64
        /\ LegAllowed(Books, dp, m, Buyer(i, r), size, price)
        /\ \E half \in {Leg(Books, m, Buyer(i, r), size, price)} :
              /\ LegAllowed(half, dp, m, Seller(i, r), -size, price)
              /\ \E b \in {Leg(half, m, Seller(i, r), -size, price)} :
                    /\ FeesPayable(b.ledger, i, r)
                    /\ Becomes(WithLedger(b, BothCharged(b.ledger, i, r)))
        /\ intent' = Filled(i, r)
        /\ response' = [response EXCEPT ![r].status = "Accepted"]
        /\ reputation' = Earned(i, r)
        /\ UNCHANGED <<admin, engine_pool, vault_gate, venue_authorized, config,
                       max_settlement_price_age, priced_at, now>>

--------------------------------------------------------------------------------
\* The owner, the clock and the rest of the system

PolicySet(key, new_config) ==
    /\ key = config.owner
    /\ config' = new_config
    /\ UNCHANGED <<vars, venue_authorized, max_settlement_price_age, intent, response,
                   reputation, priced_at, now>>

SetFeeBps(key, new_fee_bps) == PolicySet(key, [config EXCEPT !.fee_bps = new_fee_bps])
SetPoolFeeRecipient(key, recipient) == PolicySet(key, [config EXCEPT !.fee_recipient = recipient])
SetLargeTradeThreshold(key, threshold) ==
    PolicySet(key, [config EXCEPT !.large_trade_threshold = threshold])
SetLargeTradeMinReputation(key, min_rep) ==
    PolicySet(key, [config EXCEPT !.large_trade_min_reputation = min_rep])
\* pause and unpause, which never fail
SetPoolPaused(key, is_paused) == PolicySet(key, [config EXCEPT !.paused = is_paused])
TransferPool(key, new_owner) == PolicySet(key, [config EXCEPT !.pending_owner = new_owner])

AcceptPool(key) ==
    /\ key = config.pending_owner
    /\ config' = [config EXCEPT !.owner = key, !.pending_owner = NoKey]
    /\ UNCHANGED <<vars, venue_authorized, max_settlement_price_age, intent, response,
                   reputation, priced_at, now>>

BudgetIs(key, secs) ==
    /\ key = config.owner
    /\ secs > 0
    /\ max_settlement_price_age' = secs
    /\ UNCHANGED <<vars, venue_authorized, config, intent, response, reputation, priced_at, now>>

InitFreshnessConfig(key, secs) == max_settlement_price_age = 0 /\ BudgetIs(key, secs)
SetMaxSettlementPriceAge(key, secs) == max_settlement_price_age # 0 /\ BudgetIs(key, secs)

TimePasses ==
    /\ \E wait \in Waits : now' = now + wait
    /\ now' <= LastTime
    /\ UNCHANGED <<vars, venue_authorized, config, max_settlement_price_age, intent, response,
                   reputation, priced_at>>

\* The vault's owner revokes the venue's authority, or restores it.
SetPoolAuthorized(status) ==
    /\ venue_authorized' = status
    /\ UNCHANGED <<vars, pool>>

\* What the rest of the system does to marks and positions meanwhile.
Reprice(m, price) ==
    /\ UpdateMarkPrice(dp, m, price)
    /\ priced_at' = [priced_at EXCEPT ![m] = now]
    /\ UNCHANGED <<venue_authorized, config, max_settlement_price_age, intent, response,
                   reputation, now>>
Liquidated(m, t) ==
    /\ \E keeper \in Recipients : LiquidatePosition(dp, m, t, keeper, Insurance)
    /\ UNCHANGED <<venue_authorized, pool>>

--------------------------------------------------------------------------------
AgentStep ==
    \E agent \in Agents :
        \/ \E terms \in {a[2] : a \in {b \in IntentTerms : b[1] = agent}} : PostIntent(agent, terms)
        \/ \E i \in DOMAIN intent :
              \/ CancelIntent(agent, i)
              \/ \E price \in Prices, duration \in Durations :
                    PostResponse(agent, i, price, duration)
              \/ \E r \in DOMAIN response : AcceptAndSettle(agent, i, r)
        \/ \E r \in DOMAIN response : CancelResponse(agent, r)

MarketStep ==
    \E m \in Markets :
        \/ \E price \in Prices : Reprice(m, price)
        \/ \E t \in Traders : Liquidated(m, t)

PoolOwnerStep ==
    \E key \in Owners :
        \/ \E fee \in Fees : SetFeeBps(key, fee)
        \/ \E recipient \in Recipients : SetPoolFeeRecipient(key, recipient)
        \/ \E threshold \in Thresholds : SetLargeTradeThreshold(key, threshold)
        \/ \E min_rep \in Scores : SetLargeTradeMinReputation(key, min_rep)
        \/ \E flag \in BOOLEAN : SetPoolPaused(key, flag)
        \/ \E secs \in Budgets : SetMaxSettlementPriceAge(key, secs)
        \/ \E new_owner \in Owners : TransferPool(key, new_owner)

GovernanceStep ==
    /\ changes < MaxChanges
    /\ \/ PoolOwnerStep
       \/ \E status \in BOOLEAN : SetPoolAuthorized(status)
    /\ changes' = IF UNCHANGED <<config, max_settlement_price_age, venue_authorized>>
                  THEN changes ELSE changes + 1

DarkNext ==
    \/ /\ \/ AgentStep
          \/ MarketStep
          \/ TimePasses
          \/ \E key \in Owners : AcceptPool(key)
          \/ \E key \in Owners, secs \in Budgets : InitFreshnessConfig(key, secs)
       /\ UNCHANGED changes
    \/ GovernanceStep

\* The deployment lists the markets before this program is initialized.
DarkStart == Deployed(Markets) /\ DarkInit

DarkSpec == DarkStart /\ [][DarkNext]_dvars

--------------------------------------------------------------------------------
(* Properties *)

Agreed == \E r \in DOMAIN response : response[r].status # response'[r].status
                                          /\ response'[r].status = "Accepted"

\* However agents race, an intent is filled by one response, one that was made
\* to it, and that response alone is accepted.
FilledOnce ==
    /\ \A r \in DOMAIN response : response[r].intent_id \in DOMAIN intent
    /\ \A i \in DOMAIN intent : intent[i].filled_response_id \in 0 .. Len(response)
    /\ \A i \in DOMAIN intent :
          intent[i].status = "Filled" <=> intent[i].filled_response_id # 0
    /\ \A r \in DOMAIN response :
          response[r].status = "Accepted"
              <=> \E i \in DOMAIN intent : intent[i].filled_response_id = r
    /\ \A r \in DOMAIN response, i \in DOMAIN intent :
          intent[i].filled_response_id = r => response[r].intent_id = i

\* The pool's records: typed, and every fill matched to one response.
DarkInv == DarkTypeOK /\ FilledOnce

\* What agent a has settled and withdrawn, by the records of the pool.
SettledBy(a, r) ==
    /\ response[r].status = "Accepted"
    /\ a \in {response[r].agent, intent[response[r].intent_id].agent}
TradesOf(a) == [r \in DOMAIN response |-> IF SettledBy(a, r) THEN 1 ELSE 0]
VolumesOf(a) == [r \in DOMAIN response |->
                    IF SettledBy(a, r) THEN TradeNotional(response[r].intent_id, r) ELSE 0]
IntentsWithdrawnBy(a) ==
    [i \in DOMAIN intent |-> IF intent[i].agent = a /\ intent[i].status = "Cancelled" THEN 1 ELSE 0]
ResponsesWithdrawnBy(a) ==
    [r \in DOMAIN response |->
        IF response[r].agent = a /\ response[r].status = "Cancelled" THEN 1 ELSE 0]

\* A reputation is earned: it counts the agent's settled trades and their
\* volume, and what the agent withdrew, each once.
ReputationEarned ==
    \A a \in Agents :
        /\ reputation[a].completed_trades = SumTo(TradesOf(a), Len(response))
        /\ reputation[a].total_volume = AtMost(MaxU64, SumTo(VolumesOf(a), Len(response)))
        /\ reputation[a].expired_intents = SumTo(IntentsWithdrawnBy(a), Len(intent))
        /\ reputation[a].cancelled_responses = SumTo(ResponsesWithdrawnBy(a), Len(response))

\* What an agent withdrew or what was settled stays so, and the terms of an
\* intent or a response never change.
StatusesFinal ==
    [][/\ \A i \in DOMAIN intent :
             /\ intent[i].status # "Open" => intent'[i] = intent[i]
             /\ intent'[i] = [intent[i] EXCEPT !.status = intent'[i].status,
                                 !.filled_response_id = intent'[i].filled_response_id]
       /\ \A r \in DOMAIN response :
             /\ response[r].status # "Pending" => response'[r] = response[r]
             /\ response'[r] = [response[r] EXCEPT !.status = response'[r].status]]_dvars

\* A settlement moves exactly two positions, those of the two agents of one
\* standing intent and one standing response to it, by the intent's size in
\* opposite directions, and a position it opens is entered at a price within
\* the intent's range.
AgreedTermsKept ==
    [][Agreed =>
        \E r \in DOMAIN response :
            LET i == response[r].intent_id
                signed == IF intent[i].is_buy THEN intent[i].size ELSE -intent[i].size
            IN  /\ intent[i].status = "Open" /\ response[r].status = "Pending"
                /\ now <= intent[i].expires_at /\ now <= response[r].expires_at
                /\ \A m \in Markets, t \in Traders :
                      LET old == position[m][t]
                          new == position'[m][t]
                      IN  /\ new.size - old.size =
                                IF m # intent[i].market_id THEN 0
                                ELSE IF t = intent[i].agent THEN signed
                                ELSE IF t = response[r].agent THEN -signed ELSE 0
                          /\ old.size = 0 /\ new.size # 0
                                => new.entry_price \in intent[i].min_price .. intent[i].max_price
      ]_dvars

\* What two agents agreed is what happens, once, and nothing they withdrew.
AgreementsHold == AgreedTermsKept /\ StatusesFinal

\* A fee the owner sets binds later intents only: a settlement charges both
\* sides alike, at the fee in force when its intent was posted.  The row that
\* fees go to holds nothing else of the trade.
FeesAsPosted ==
    [][(Agreed /\ config.fee_recipient \notin Traders \cup {Pool}) =>
        \E r \in DOMAIN response :
            /\ response'[r].status # response[r].status
            /\ Spendable(ledger', config.fee_recipient) - Spendable(ledger, config.fee_recipient)
                  = 2 * Share(intent[response[r].intent_id].fee_bps_at_post,
                              TradeNotional(response[r].intent_id, r))]_dvars

\* The sizes of a market always add up to what they did before a settlement,
\* and no value is created in the vault.
BothSidesOrNone ==
    [][Agreed =>
          /\ \A m \in Markets : NetSize(position', m) = NetSize(position, m)
          /\ TotalBalance(ledger') = TotalBalance(ledger)
          /\ TotalCollateral(ledger') = TotalCollateral(ledger)]_dvars
================================================================================
