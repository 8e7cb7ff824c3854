-------------------------- MODULE InsuranceFundProofs --------------------------
(***************************************************************************)
(* What the insurance fund's records say is true, and no 24 hours see more *)
(* than twice a daily cap: for every number of markets, every width, every *)
(* history of rewards and every value the caps are set to.                 *)
(***************************************************************************)
EXTENDS InsuranceFund, VaultLedgerProofs

Rewards == [at : Nat, amount : U64, cap : U64]

\* The rewards number i to j of a history: each one's amount, and their total.
Row(p, i, j) == [k \in 1 .. Len(p) |-> IF k \in i .. j THEN p[k].amount ELSE 0]
Total(p, i, j) == SumTo(Row(p, i, j), Len(p))

\* Rewards s to j came out of one window of the counter, which the cap that
\* was in force at the last of them covers.
Covered(p, s, j) == p[j].cap > 0 => Total(p, s, j) <= p[j].cap

\* The window before the one that reward s began was covered, too, and began
\* a day or more earlier.
Follows(p, s) ==
    s > 1 => \E r \in 1 .. s - 1 : Covered(p, r, s - 1) /\ p[r].at + ONE_DAY_SECS <= p[s].at

InOrder(p) == \A i, j \in 1 .. Len(p) : i <= j => p[i].at <= p[j].at

\* Every reward belongs to a window that some reward began.
Windows == \A j \in 1 .. Len(payments) :
              \E s \in 1 .. j : Covered(payments, s, j) /\ Follows(payments, s)

\* Reward s began the running window.
Running(s) ==
    /\ payments[s].at = daily_reward_reset_timestamp
    /\ daily_keeper_rewards_paid = Total(payments, s, Len(payments))
    /\ \A k \in 1 .. Len(payments) : payments[k].at >= daily_reward_reset_timestamp <=> k >= s
    /\ Covered(payments, s, Len(payments))
    /\ Follows(payments, s)

\* The window that is running: the last reward falls into it.  Until there is
\* a reward, none runs, and the first call starts one.
LastWindow ==
    IF payments = <<>>
    THEN daily_keeper_rewards_paid = 0 /\ WindowIsOver
    ELSE \E s \in 1 .. Len(payments) : Running(s)

InThePast == \A k \in 1 .. Len(payments) :
                /\ payments[k].at <= now
                /\ payments[k].at < daily_reward_reset_timestamp + ONE_DAY_SECS

\* The inductive invariant.
IInv == /\ TypeOK
        /\ BadDebtAddsUp
        /\ InOrder(payments)
        /\ InThePast
        /\ Windows
        /\ LastWindow

--------------------------------------------------------------------------------
(* Totals of a history *)

LEMMA RewardTypes ==
    ASSUME NEW p \in Seq(Rewards)
    PROVE  /\ Len(p) \in Nat
           /\ \A k \in 1 .. Len(p) : p[k].at \in Nat /\ p[k].amount \in Nat /\ p[k].cap \in Nat
<1>1. \A k \in 1 .. Len(p) : p[k] \in Rewards
    OBVIOUS
<1>2. \A e \in Rewards : e.at \in Nat /\ e.amount \in Nat /\ e.cap \in Nat
    BY LedgerAssumption DEF Rewards, U64
<1>3. QED
    BY <1>1, <1>2

LEMMA RowType ==
    ASSUME NEW p \in Seq(Rewards), NEW i \in Int, NEW j \in Int
    PROVE  /\ Len(p) \in Nat
           /\ Row(p, i, j) \in [1 .. Len(p) -> Nat]
           /\ Row(p, i, j) \in [1 .. Len(p) -> Int]
           /\ Total(p, i, j) \in Nat
<1>1. \A k \in 1 .. Len(p) : p[k].amount \in Nat
    BY RewardTypes
<1>2. Row(p, i, j) \in [1 .. Len(p) -> Nat]
    BY <1>1 DEF Row
<1>3. Total(p, i, j) \in Nat
    BY <1>2, SumBound DEF Total
<1>4. QED
    BY <1>2, <1>3

\* A new reward changes no total of earlier ones, and adds to the total up to it.
LEMMA TotalAppend ==
    ASSUME NEW p \in Seq(Rewards), NEW e \in Rewards, NEW q, q = Append(p, e),
           NEW s \in 1 .. Len(p) + 1
    PROVE  /\ \A j \in 1 .. Len(p) : Total(q, s, j) = Total(p, s, j)
           /\ Total(q, s, Len(q)) = Total(p, s, Len(p)) + e.amount
<1> DEFINE n == Len(p)
<1>1. /\ n \in Nat /\ Len(q) = n + 1 /\ q \in Seq(Rewards)
      /\ q[n + 1] = e /\ \A k \in 1 .. n : q[k] = p[k]
    OBVIOUS
<1>2. e.amount \in Nat
    BY LedgerAssumption DEF Rewards, U64
<1>3. ASSUME NEW j \in 1 .. n PROVE Total(q, s, j) = Total(p, s, j)
    <2> DEFINE f == Row(p, s, j)
               g == Row(q, s, j)
    <2>1. f \in [1 .. n -> Int] /\ g \in [1 .. (n + 1) -> Int]
        <3>1. s \in Int /\ j \in Int /\ n + 1 \in Int /\ q \in Seq(Rewards)
            BY <1>1
        <3>2. f \in [1 .. Len(p) -> Int]
            BY <3>1, RowType
        <3>3. g \in [1 .. Len(q) -> Int]
            BY <3>1, RowType
        <3>4. QED
            BY <1>1, <3>2, <3>3
    <2>2. /\ \A k \in 1 .. n : g[k] = f[k]
          /\ g[n + 1] = 0
        BY <1>1 DEF Row
    <2> HIDE DEF f, g, n
    <2>3. SumTo(g, n + 1) = SumTo(f, n) + g[n + 1] /\ SumTo(f, n) \in Int
        BY <1>1, <2>1, <2>2, SumExtend, SumType
    <2>4. SumTo(g, n + 1) = SumTo(f, n)
        BY <2>2, <2>3
    <2>5. QED
        BY <1>1, <2>4 DEF Total, f, g, n
<1>4. Total(q, s, Len(q)) = Total(p, s, Len(p)) + e.amount
    <2> DEFINE f == Row(p, s, n)
               g == Row(q, s, n + 1)
    <2>1. f \in [1 .. n -> Int] /\ g \in [1 .. (n + 1) -> Int]
        <3>1. s \in Int /\ n \in Int /\ n + 1 \in Int /\ q \in Seq(Rewards)
            BY <1>1
        <3>2. f \in [1 .. Len(p) -> Int]
            BY <3>1, RowType
        <3>3. g \in [1 .. Len(q) -> Int]
            BY <3>1, RowType
        <3>4. QED
            BY <1>1, <3>2, <3>3
    <2>2. /\ \A k \in 1 .. n : g[k] = f[k]
          /\ g[n + 1] = e.amount
        BY <1>1 DEF Row
    <2> HIDE DEF f, g, n
    <2>3. SumTo(g, n + 1) = SumTo(f, n) + g[n + 1]
        BY <1>1, <2>1, <2>2, SumExtend
    <2>4. QED
        BY <1>1, <2>2, <2>3 DEF Total, f, g, n
<1>5. QED
    BY <1>3, <1>4

LEMMA TotalSplit ==
    ASSUME NEW p \in Seq(Rewards), NEW i \in Int, NEW m \in Int, NEW j \in Int, i <= m + 1, m <= j
    PROVE  Total(p, i, j) = Total(p, i, m) + Total(p, m + 1, j)
<1> DEFINE n == Len(p)
           f == Row(p, i, m)
           g == Row(p, m + 1, j)
           h == Row(p, i, j)
<1>1. n \in Nat /\ f \in [1 .. n -> Int] /\ g \in [1 .. n -> Int] /\ h \in [1 .. n -> Int]
    BY RowType
<1>2. \A k \in 1 .. n : h[k] = f[k] + g[k]
    <2>1. \A k \in 1 .. n : p[k].amount \in Int
        BY RewardTypes
    <2>2. QED
        BY <2>1 DEF Row
<1> HIDE DEF n, f, g, h
<1>3. SumTo(h, n) = SumTo(f, n) + SumTo(g, n)
    BY <1>1, <1>2, SumAdd
<1>4. QED
    BY <1>3 DEF Total, n, f, g, h

LEMMA TotalMonotone ==
    ASSUME NEW p \in Seq(Rewards), NEW s \in Int, NEW i \in Int, NEW j \in Int, s <= i
    PROVE  Total(p, i, j) <= Total(p, s, j)
<1> DEFINE n == Len(p)
           f == Row(p, i, j)
           g == Row(p, s, j)
<1>1. n \in Nat /\ f \in [1 .. n -> Int] /\ g \in [1 .. n -> Int]
    BY RowType
<1>2. \A k \in 1 .. n : f[k] <= g[k]
    <2>1. \A k \in 1 .. n : p[k].amount \in Nat
        BY RewardTypes
    <2>2. QED
        BY <2>1 DEF Row
<1> HIDE DEF n, f, g
<1>3. SumTo(f, n) <= SumTo(g, n)
    BY <1>1, <1>2, SumMonotone
<1>4. QED
    BY <1>3 DEF Total, n, f, g

--------------------------------------------------------------------------------
(* What the invariant gives *)

\* The counter is the total since the running window began.
LEMMA InvariantCounter == IInv => DailyCounterExact
<1> SUFFICES ASSUME IInv PROVE DailyCounterExact
    OBVIOUS
<1>1. payments \in Seq(Rewards)
    BY DEF IInv, TypeOK, Rewards
<1> DEFINE n == Len(payments)
           since == [k \in 1 .. n |-> IF payments[k].at >= daily_reward_reset_timestamp
                                      THEN payments[k].amount ELSE 0]
<1>2. n \in Nat
    BY <1>1
<1>3. CASE payments = <<>>
    <2>1. daily_keeper_rewards_paid = 0 /\ n = 0
        BY <1>3 DEF IInv, LastWindow
    <2>2. since \in [1 .. n -> Int] /\ \A k \in 1 .. n : since[k] = 0
        BY <2>1
    <2> HIDE DEF since, n
    <2>3. SumTo(since, n) = 0
        BY <1>2, <2>2, SumZero
    <2>4. QED
        BY <2>1, <2>3 DEF DailyCounterExact, since, n
<1>4. CASE payments # <<>>
    <2>1. PICK s \in 1 .. n : Running(s)
        BY <1>4 DEF IInv, LastWindow
    <2>2. \A k \in 1 .. n : payments[k].at >= daily_reward_reset_timestamp <=> k \in s .. n
        BY <2>1 DEF Running
    <2>3. since = Row(payments, s, n)
        BY <2>2 DEF Row
    <2>4. QED
        BY <2>1, <2>3 DEF DailyCounterExact, Running, Total
<1>5. QED
    BY <1>3, <1>4

\* A span of less than a day meets at most two windows: rewards of a third
\* would have begun a day before the last.
LEMMA InvariantTwice == IInv => TwiceTheCap
<1> SUFFICES ASSUME IInv, NEW i \in 1 .. Len(payments), NEW j \in 1 .. Len(payments),
                    NEW cap \in Caps, WithinOneDay(i, j), CappedBy(i, j, cap)
             PROVE  PaidBetween(i, j) <= 2 * cap
    BY DEF TwiceTheCap
<1> DEFINE p == payments
<1>1. /\ p \in Seq(Rewards) /\ cap \in Nat
      /\ Len(p) \in Nat /\ i \in 1 .. Len(p) /\ j \in 1 .. Len(p)
    BY FundAssumption, LedgerAssumption DEF IInv, TypeOK, Rewards, U64
<1>2. PaidBetween(i, j) = Total(p, i, j)
    BY DEF PaidBetween, Total, Row
<1>3. /\ i <= j /\ p[j].at - p[i].at < ONE_DAY_SECS
      /\ \A k \in i .. j : p[k].cap \in 1 .. cap
    BY DEF WithinOneDay, CappedBy
<1>4. \A k \in 1 .. Len(p) : p[k].at \in Nat
    BY <1>1, RewardTypes
<1>5. PICK s \in 1 .. j : Covered(p, s, j) /\ Follows(p, s)
    BY DEF IInv, Windows
<1>5a. InOrder(p)
    BY DEF IInv
<1> HIDE DEF p
<1>6. Total(p, s, j) <= cap /\ Total(p, s, j) \in Nat
    <2>1. p[j].cap \in 1 .. cap
        BY <1>1, <1>3
    <2>2. Total(p, s, j) \in Nat
        BY <1>1, RowType
    <2>3. QED
        BY <1>1, <1>5, <2>1, <2>2 DEF Covered
<1>7. Total(p, i, j) \in Nat
    BY <1>1, RowType
<1>8. CASE s <= i
    <2>1. Total(p, i, j) <= Total(p, s, j)
        BY <1>1, <1>8, TotalMonotone
    <2>2. QED
        BY <1>1, <1>2, <1>6, <1>7, <2>1
<1>9. CASE s > i
    <2>1. PICK r \in 1 .. s - 1 : Covered(p, r, s - 1) /\ p[r].at + ONE_DAY_SECS <= p[s].at
        BY <1>1, <1>5, <1>9 DEF Follows
    <2>2. s - 1 \in i .. j /\ s - 1 \in Int /\ s \in 1 .. Len(p) /\ r \in 1 .. Len(p)
        BY <1>1, <1>9
    <2>3. r <= i
        <3>1. SUFFICES ASSUME i <= r PROVE r <= i
            BY <1>1
        <3>2. p[i].at <= p[r].at /\ p[s].at <= p[j].at
            BY <1>1, <1>5a, <2>2, <3>1 DEF InOrder
        <3>3. /\ p[i].at \in Nat /\ p[r].at \in Nat /\ p[s].at \in Nat /\ p[j].at \in Nat
              /\ ONE_DAY_SECS \in Nat
            BY <1>1, <1>4, <2>2, FundAssumption
        <3> DEFINE ti == p[i].at
                   tr == p[r].at
                   ts == p[s].at
                   tj == p[j].at
        <3>4. /\ ti \in Nat /\ tr \in Nat /\ ts \in Nat /\ tj \in Nat
              /\ ti <= tr /\ tr + ONE_DAY_SECS <= ts /\ ts <= tj
              /\ tj - ti < ONE_DAY_SECS
            BY <1>3, <2>1, <3>2, <3>3
        <3> HIDE DEF ti, tr, ts, tj
        <3>5. QED
            BY <3>3, <3>4
    <2>4. Total(p, r, s - 1) <= cap /\ Total(p, r, s - 1) \in Nat
        <3>1. p[s - 1].cap \in 1 .. cap
            BY <1>3, <2>2
        <3>2. Total(p, r, s - 1) \in Nat
            BY <1>1, <2>2, RowType
        <3>3. QED
            BY <1>1, <2>1, <3>1, <3>2 DEF Covered
    <2>5. Total(p, i, s - 1) <= Total(p, r, s - 1) /\ Total(p, i, s - 1) \in Nat
        BY <1>1, <2>2, <2>3, TotalMonotone, RowType
    <2>6. Total(p, i, j) = Total(p, i, s - 1) + Total(p, s, j)
        <3>1. s - 1 + 1 = s /\ i <= s - 1 + 1 /\ s - 1 <= j
            BY <1>1, <1>9
        <3>2. Total(p, i, j) = Total(p, i, s - 1) + Total(p, s - 1 + 1, j)
            BY <1>1, <2>2, <3>1, TotalSplit
        <3>3. QED
            BY <3>1, <3>2
    <2>7. QED
        BY <1>1, <1>2, <1>6, <2>4, <2>5, <2>6
<1>10. QED
    BY <1>1, <1>5, <1>8, <1>9

--------------------------------------------------------------------------------
(* The invariant is kept *)

LEMMA TotalOfNone ==
    ASSUME NEW p \in Seq(Rewards), NEW i \in Int, NEW j \in Int, j < i
    PROVE  Total(p, i, j) = 0
<1> DEFINE n == Len(p)
           f == Row(p, i, j)
<1>1. n \in Nat /\ f \in [1 .. n -> Int]
    BY RowType
<1>2. \A k \in 1 .. n : f[k] = 0
    BY DEF Row
<1> HIDE DEF n, f
<1>3. SumTo(f, n) = 0
    BY <1>1, <1>2, SumZero
<1>4. QED
    BY <1>3 DEF Total, n, f

\* What a reward does to the history and the window: either the window goes
\* on, or it is over and the reward begins the next.
LEMMA HistoryStep ==
    ASSUME IInv, NEW op, NEW from, NEW to, NEW amount \in Nat,
           PayKeeperReward(op, from, to, amount), TypeOK'
    PROVE  InOrder(payments)' /\ InThePast' /\ Windows' /\ LastWindow'
<1> DEFINE p == payments
           e == [at |-> now, amount |-> amount, cap |-> max_daily_keeper_rewards]
           q == Append(p, e)
           n == Len(p)
           reset == daily_reward_reset_timestamp
<1>1. /\ payments' = q /\ now' = now
      /\ daily_reward_reset_timestamp' = WindowStart
      /\ daily_keeper_rewards_paid' = PaidInWindow + amount
      /\ max_daily_keeper_rewards > 0 => PaidInWindow + amount <= max_daily_keeper_rewards
    BY DEF PayKeeperReward
<1>2. /\ p \in Seq(Rewards) /\ q \in Seq(Rewards)
      /\ now \in Nat /\ reset \in Nat /\ reset <= now
      /\ ONE_DAY_SECS \in Nat /\ ONE_DAY_SECS > 0
    BY <1>1, FundAssumption DEF IInv, TypeOK, Rewards
<1>3. e \in Rewards
    <2>1. q[n + 1] = e /\ n + 1 \in 1 .. Len(q)
        BY <1>2
    <2>2. QED
        BY <1>2, <2>1
<1>4. /\ n \in Nat /\ Len(q) = n + 1
      /\ q[n + 1] = e /\ e.at = now /\ e.amount = amount /\ e.cap = max_daily_keeper_rewards
      /\ \A k \in 1 .. n : q[k] = p[k] /\ p[k].at \in Nat
    BY <1>2, <1>3, RewardTypes
<1>5. /\ InOrder(p) /\ Windows
      /\ \A k \in 1 .. n : p[k].at <= now /\ p[k].at < reset + ONE_DAY_SECS
      /\ p = <<>> => WindowIsOver
      /\ p # <<>> => \E r \in 1 .. n : Running(r)
    BY DEF IInv, InThePast, LastWindow
<1> HIDE DEF e, q
<1>6. \A r \in 1 .. n + 1 :
          /\ \A j \in 1 .. n : Total(q, r, j) = Total(p, r, j)
          /\ Total(q, r, n + 1) = Total(p, r, n) + amount
    <2> SUFFICES ASSUME NEW r \in 1 .. n + 1
                 PROVE  /\ \A j \in 1 .. n : Total(q, r, j) = Total(p, r, j)
                        /\ Total(q, r, Len(q)) = Total(p, r, Len(p)) + e.amount
        BY <1>4
    <2>1. q = Append(p, e)
        BY DEF q
    <2>2. QED
        BY <1>2, <1>3, <2>1, TotalAppend, ZenonT(60)
<1>7. \A j \in 1 .. n : \A r \in 1 .. j : Covered(p, r, j) => Covered(q, r, j)
    BY <1>4, <1>6 DEF Covered
<1>8. \A r \in 1 .. n : Follows(p, r) => Follows(q, r)
    <2> SUFFICES ASSUME NEW r \in 1 .. n, Follows(p, r), r > 1 PROVE Follows(q, r)
        BY DEF Follows
    <2>1. PICK b \in 1 .. r - 1 : Covered(p, b, r - 1) /\ p[b].at + ONE_DAY_SECS <= p[r].at
        BY DEF Follows
    <2>2. r - 1 \in 1 .. n /\ b \in 1 .. n
        BY <1>4
    <2>3. Covered(q, b, r - 1) /\ q[b].at + ONE_DAY_SECS <= q[r].at
        BY <1>4, <1>7, <2>1, <2>2
    <2>4. QED
        BY <2>3 DEF Follows
\* The reward that began the window this one falls into.
<1>9. PICK s \in 1 .. n + 1 : /\ WindowIsOver => s = n + 1
                              /\ ~ WindowIsOver => s \in 1 .. n /\ Running(s)
    <2>1. CASE WindowIsOver
        <3>1. n + 1 \in 1 .. n + 1
            BY <1>4
        <3>2. QED
            BY <2>1, <3>1
    <2>2. CASE ~ WindowIsOver
        <3>1. PICK r \in 1 .. n : Running(r)
            BY <1>5, <2>2
        <3>2. r \in 1 .. n + 1
            BY <1>4
        <3>3. QED
            BY <2>2, <3>1, <3>2
    <2>3. QED
        BY <2>1, <2>2
<1>10. Total(q, s, n + 1) = PaidInWindow + amount
    <2>1. CASE WindowIsOver
        <3>1. Total(p, n + 1, n) = 0
            BY <1>2, <1>4, TotalOfNone
        <3>2. QED
            BY <1>4, <1>6, <1>9, <2>1, <3>1 DEF PaidInWindow
    <2>2. CASE ~ WindowIsOver
        BY <1>6, <1>9, <2>2 DEF PaidInWindow, Running
    <2>3. QED
        BY <2>1, <2>2
<1>11. Covered(q, s, n + 1)
    BY <1>1, <1>4, <1>10 DEF Covered
<1>12. Follows(q, s)
    <2>1. CASE WindowIsOver
        <3>1. SUFFICES ASSUME n + 1 > 1
                       PROVE  \E r \in 1 .. n : Covered(q, r, n) /\ q[r].at + ONE_DAY_SECS <= now
            BY <1>4, <1>9, <2>1 DEF Follows
        <3>2. PICK r \in 1 .. n : Running(r)
            BY <1>4, <1>5, <3>1
        <3>3. Covered(p, r, n) /\ p[r].at = reset
            BY <3>2 DEF Running
        <3>4. n \in 1 .. n
            BY <1>4, <3>1
        <3>5. Covered(q, r, n)
            BY <1>7, <3>3, <3>4
        <3>6. q[r].at + ONE_DAY_SECS <= now
            BY <1>2, <1>4, <2>1, <3>3 DEF WindowIsOver
        <3>7. QED
            BY <3>5, <3>6
    <2>2. CASE ~ WindowIsOver
        BY <1>8, <1>9, <2>2 DEF Running
    <2>3. QED
        BY <2>1, <2>2
<1>13. InOrder(q)
    <2> SUFFICES ASSUME NEW i \in 1 .. n + 1, NEW j \in 1 .. n + 1, i <= j
                 PROVE  q[i].at <= q[j].at
        BY <1>4 DEF InOrder
    <2>1. CASE j = n + 1
        BY <1>2, <1>4, <1>5, <2>1
    <2>2. CASE j # n + 1
        BY <1>4, <1>5, <2>2 DEF InOrder
    <2>3. QED
        BY <2>1, <2>2
<1>14. ASSUME NEW k \in 1 .. n + 1
       PROVE  /\ q[k].at <= now
              /\ q[k].at < WindowStart + ONE_DAY_SECS
              /\ q[k].at >= WindowStart <=> k >= s
    <2>1. CASE k = n + 1 /\ WindowIsOver
        BY <1>2, <1>4, <1>9, <2>1 DEF WindowStart
    <2>2. CASE k = n + 1 /\ ~ WindowIsOver
        <3>1. now < reset + ONE_DAY_SECS
            BY <1>2, <2>2 DEF WindowIsOver
        <3>2. QED
            BY <1>2, <1>4, <1>9, <2>2, <3>1 DEF WindowStart
    <2>3. CASE k # n + 1 /\ WindowIsOver
        <3>1. k \in 1 .. n /\ q[k].at = p[k].at /\ p[k].at \in Nat
            BY <1>4, <2>3
        <3>2. p[k].at < now /\ p[k].at < now + ONE_DAY_SECS
            BY <1>2, <1>5, <2>3, <3>1 DEF WindowIsOver
        <3>3. QED
            BY <1>2, <1>4, <1>9, <2>3, <3>1, <3>2 DEF WindowStart
    <2>4. CASE k # n + 1 /\ ~ WindowIsOver
        <3>1. k \in 1 .. n /\ q[k].at = p[k].at /\ p[k].at \in Nat
            BY <1>4, <2>4
        <3>2. p[k].at >= reset <=> k >= s
            BY <1>9, <2>4, <3>1 DEF Running
        <3>3. QED
            BY <1>5, <2>4, <3>1, <3>2 DEF WindowStart
    <2>5. QED
        BY <2>1, <2>2, <2>3, <2>4
<1>15. q[s].at = WindowStart
    <2>1. CASE WindowIsOver
        BY <1>4, <1>9, <2>1 DEF WindowStart
    <2>2. CASE ~ WindowIsOver
        BY <1>4, <1>9, <2>2 DEF WindowStart, Running
    <2>3. QED
        BY <2>1, <2>2
<1>16. InOrder(payments)'
    BY <1>1, <1>13 DEF InOrder
<1>17. InThePast'
    BY <1>1, <1>4, <1>14 DEF InThePast
<1>18. Windows'
    <2> SUFFICES ASSUME NEW j \in 1 .. n + 1
                 PROVE  \E r \in 1 .. j : Covered(q, r, j) /\ Follows(q, r)
        BY <1>1, <1>4 DEF Windows
    <2>1. CASE j = n + 1
        BY <1>11, <1>12, <2>1
    <2>2. CASE j # n + 1
        <3>1. j \in 1 .. n
            BY <1>4, <2>2
        <3>2. PICK r \in 1 .. j : Covered(p, r, j) /\ Follows(p, r)
            BY <1>5, <3>1 DEF Windows
        <3>3. r \in 1 .. n
            BY <1>4, <3>1
        <3>4. QED
            BY <1>7, <1>8, <3>1, <3>2, <3>3
    <2>3. QED
        BY <2>1, <2>2
<1>19. LastWindow'
    <2>1. payments' # <<>>
        BY <1>1, <1>4
    <2>2. Running(s)'
        BY <1>1, <1>4, <1>10, <1>11, <1>12, <1>14, <1>15 DEF Running
    <2>3. s \in 1 .. Len(payments')
        BY <1>1, <1>4
    <2>4. QED
        BY <2>1, <2>2, <2>3 DEF LastWindow
<1>20. QED
    BY <1>16, <1>17, <1>18, <1>19

LEMMA RewardTypeOK ==
    ASSUME TypeOK, NEW op, NEW from \in Accounts, NEW to \in Accounts, NEW amount \in Amounts,
           PayKeeperReward(op, from, to, amount)
    PROVE  TypeOK' /\ amount \in Nat
<1>1. /\ amount \in U64 /\ amount \in Nat /\ MaxTxTransfer \in U64 /\ U64 \subseteq Nat
      /\ now \in Nat /\ ledger \in Ledgers
    BY FundAssumption, LedgerAssumption DEF TypeOK, U64
<1>2. /\ TransferAllowed(ledger, from, to, amount, MaxTxTransfer)
      /\ total_keeper_rewards_paid + amount <= MaxU64
      /\ PaidInWindow + amount <= MaxU64
      /\ ledger' = Transferred(ledger, from, to, amount)
      /\ daily_reward_reset_timestamp' = WindowStart
      /\ daily_keeper_rewards_paid' = PaidInWindow + amount
      /\ total_keeper_rewards_paid' = total_keeper_rewards_paid + amount
      /\ payments' = Append(payments,
             [at |-> now, amount |-> amount, cap |-> max_daily_keeper_rewards])
      /\ UNCHANGED <<roles, caps, debts, vault_open, now>>
    BY DEF PayKeeperReward
<1>3. ledger' \in Ledgers
    BY <1>1, <1>2, TransferFacts
<1>4. total_keeper_rewards_paid' \in U64 /\ daily_keeper_rewards_paid' \in U64
    <2>1. total_keeper_rewards_paid \in Nat /\ PaidInWindow \in Nat /\ MaxU64 \in Nat
        BY LedgerAssumption DEF TypeOK, PaidInWindow, U64
    <2>2. QED
        BY <1>1, <1>2, <2>1 DEF U64
<1>5. daily_reward_reset_timestamp' \in 0 .. now
    BY <1>1, <1>2 DEF TypeOK, WindowStart
<1>6. payments' \in Seq([at : Nat, amount : U64, cap : U64])
    <2>1. [at |-> now, amount |-> amount, cap |-> max_daily_keeper_rewards]
              \in [at : Nat, amount : U64, cap : U64]
        BY <1>1 DEF TypeOK
    <2>2. payments \in Seq([at : Nat, amount : U64, cap : U64])
        BY DEF TypeOK
    <2>3. QED
        BY <1>2, <2>1, <2>2
<1>7. QED
    BY <1>1, <1>2, <1>3, <1>4, <1>5, <1>6 DEF TypeOK, roles, caps, debts

\* Steps that pay no reward, while the clock may go on.
LEMMA QuietStep ==
    ASSUME IInv, TypeOK', BadDebtAddsUp', UNCHANGED rewards, now' \in Nat, now' >= now
    PROVE  IInv'
<1>1. /\ UNCHANGED <<daily_keeper_rewards_paid, daily_reward_reset_timestamp, payments>>
      /\ payments \in Seq(Rewards)
      /\ now \in Nat /\ daily_reward_reset_timestamp \in Nat /\ ONE_DAY_SECS \in Nat
    BY FundAssumption DEF rewards, IInv, TypeOK, Rewards
<1>2. \A k \in 1 .. Len(payments) : payments[k].at \in Nat
    BY <1>1, RewardTypes
<1>3. InThePast'
    BY <1>1, <1>2 DEF IInv, InThePast
<1>4. LastWindow'
    <2>1. WindowIsOver => WindowIsOver'
        BY <1>1 DEF WindowIsOver
    <2>2. QED
        BY <1>1, <2>1 DEF IInv, LastWindow, Running
<1>5. InOrder(payments)' /\ Windows'
    BY <1>1 DEF IInv, InOrder, Windows
<1>6. QED
    BY <1>3, <1>4, <1>5 DEF IInv

LEMMA DebtKeeps ==
    ASSUME IInv, NEW op, NEW m \in Markets, NEW amount \in Amounts, RecordBadDebt(op, m, amount)
    PROVE  IInv'
<1>1. /\ cumulative_bad_debt[m] + amount <= MaxU64
      /\ total_bad_debt + amount <= MaxU64
      /\ total_liquidations + 1 <= MaxU64
      /\ cumulative_bad_debt' = [cumulative_bad_debt EXCEPT ![m] = cumulative_bad_debt[m] + amount]
      /\ total_bad_debt' = total_bad_debt + amount
      /\ total_liquidations' = total_liquidations + 1
      /\ UNCHANGED <<roles, caps, rewards, ledger, vault_open, now>>
    BY DEF RecordBadDebt
<1>2. /\ amount \in Nat /\ U64 \subseteq Nat /\ MaxU64 \in Nat /\ NumMarkets \in Nat
      /\ cumulative_bad_debt \in [Markets -> U64]
      /\ total_bad_debt \in Nat /\ total_liquidations \in Nat
    BY FundAssumption, LedgerAssumption DEF IInv, TypeOK, U64
<1> DEFINE v == cumulative_bad_debt[m] + amount
<1>3. v \in U64 /\ v \in Int /\ cumulative_bad_debt[m] \in Nat
    BY <1>1, <1>2 DEF U64
<1>4. /\ cumulative_bad_debt \in [1 .. NumMarkets -> Int] /\ m \in 1 .. NumMarkets
    <2>1. U64 \subseteq Int
        BY <1>2
    <2>2. \A x \in 1 .. NumMarkets : cumulative_bad_debt[x] \in Int
        BY <1>2, <2>1 DEF Markets
    <2>3. QED
        BY <1>2, <2>2 DEF Markets
<1> HIDE DEF v
<1>5. SumTo([cumulative_bad_debt EXCEPT ![m] = v], NumMarkets)
          = SumTo(cumulative_bad_debt, NumMarkets) - cumulative_bad_debt[m] + v
      /\ SumTo(cumulative_bad_debt, NumMarkets) \in Int
    BY <1>2, <1>3, <1>4, SumUpdate, SumType
<1>6. BadDebtAddsUp'
    <2>1. cumulative_bad_debt' = [cumulative_bad_debt EXCEPT ![m] = v]
        BY <1>1 DEF v
    <2>2. total_bad_debt = SumTo(cumulative_bad_debt, NumMarkets)
        BY DEF IInv, BadDebtAddsUp
    <2>3. total_bad_debt' = SumTo([cumulative_bad_debt EXCEPT ![m] = v], NumMarkets)
        BY <1>1, <1>2, <1>3, <1>5, <2>2 DEF v
    <2>4. QED
        BY <2>1, <2>3 DEF BadDebtAddsUp
<1>7. TypeOK'
    <2>1. cumulative_bad_debt' \in [Markets -> U64]
        BY <1>1, <1>2, <1>3 DEF v
    <2>2. total_bad_debt' \in U64 /\ total_liquidations' \in U64
        BY <1>1, <1>2 DEF U64
    <2>3. QED
        BY <1>1, <2>1, <2>2 DEF IInv, TypeOK, roles, caps, rewards
<1>8. UNCHANGED rewards /\ now' \in Nat /\ now' >= now
    BY <1>1 DEF IInv, TypeOK
<1>9. QED
    BY <1>6, <1>7, <1>8, QuietStep

LEMMA OwnerKeeps ==
    ASSUME IInv, OwnerStep
    PROVE  IInv'
<1>1. UNCHANGED <<debts, rewards, vault_open, now>>
    BY DEF OwnerStep, BootstrapInsurancePool, Pause, Unpause, SetMaxKeeperRewardPerCall,
           SetMaxDailyKeeperRewards, SetOperator, TransferOwnership, AcceptOwnership
<1>2. ledger' \in Ledgers
    <2>1. ASSUME NEW key \in Keys, NEW amount \in Amounts, BootstrapInsurancePool(key, amount)
          PROVE  ledger' \in Ledgers
        <3>1. /\ ledger' = [ledger EXCEPT !.balance[Fund] = @ + amount]
              /\ ledger.balance[Fund] + amount <= MaxU64
            BY <2>1 DEF BootstrapInsurancePool
        <3>2. amount \in Nat /\ Fund \in Accounts /\ ledger \in Ledgers
            BY FundAssumption, LedgerAssumption DEF IInv, TypeOK, U64
        <3>3. QED
            BY <3>1, <3>2, LedgerAssumption DEF Ledgers, U64
    <2>2. ASSUME UNCHANGED ledger PROVE ledger' \in Ledgers
        BY <2>2 DEF IInv, TypeOK
    <2>3. QED
        BY <2>1, <2>2 DEF OwnerStep, Pause, Unpause, SetMaxKeeperRewardPerCall,
                          SetMaxDailyKeeperRewards, SetOperator, TransferOwnership, AcceptOwnership
<1>3. /\ owner' \in Keys /\ pending_owner' \in Keys \cup {NoKey}
      /\ paused' \in BOOLEAN /\ operators' \subseteq Keys
      /\ max_keeper_reward_per_call' \in U64 /\ max_daily_keeper_rewards' \in U64
    BY FundAssumption DEF IInv, TypeOK, roles, caps,
           OwnerStep, BootstrapInsurancePool, Pause, Unpause, SetMaxKeeperRewardPerCall,
           SetMaxDailyKeeperRewards, SetOperator, TransferOwnership, AcceptOwnership
<1>4. TypeOK'
    BY <1>1, <1>2, <1>3 DEF IInv, TypeOK, debts, rewards
<1>5. BadDebtAddsUp'
    BY <1>1 DEF IInv, BadDebtAddsUp, debts
<1>6. now' \in Nat /\ now' >= now
    BY <1>1 DEF IInv, TypeOK
<1>7. QED
    BY <1>1, <1>4, <1>5, <1>6, QuietStep

LEMMA InitIInv == Init => IInv
<1> SUFFICES ASSUME Init PROVE IInv
    OBVIOUS
<1>1. 0 \in U64 /\ EmptyLedger \in Ledgers /\ NumMarkets \in Nat
    BY FundAssumption, LedgerAssumption DEF U64, EmptyLedger, Ledgers
<1>2. TypeOK
    <2>1. /\ owner \in Keys /\ pending_owner \in Keys \cup {NoKey}
          /\ paused \in BOOLEAN /\ operators \subseteq Keys
          /\ ledger \in Ledgers /\ vault_open \in BOOLEAN
        BY <1>1 DEF Init
    <2>2. /\ max_keeper_reward_per_call \in U64 /\ max_daily_keeper_rewards \in U64
          /\ total_bad_debt = 0 /\ total_keeper_rewards_paid = 0
          /\ total_liquidations = 0 /\ daily_keeper_rewards_paid = 0
        BY FundAssumption DEF Init
    <2>3. now \in Nat /\ daily_reward_reset_timestamp \in 0 .. now
        BY FundAssumption DEF Init
    <2>4. cumulative_bad_debt \in [Markets -> U64]
        BY <1>1 DEF Init
    <2>5. payments \in Seq([at : Nat, amount : U64, cap : U64])
        BY DEF Init
    <2>6. QED
        BY <1>1, <2>1, <2>2, <2>3, <2>4, <2>5 DEF TypeOK
<1>3. BadDebtAddsUp
    <2>1. /\ cumulative_bad_debt \in [1 .. NumMarkets -> Int]
          /\ \A m \in 1 .. NumMarkets : cumulative_bad_debt[m] = 0
        BY DEF Init, Markets
    <2>2. SumTo(cumulative_bad_debt, NumMarkets) = 0
        BY <1>1, <2>1, SumZero
    <2>3. QED
        BY <2>2 DEF Init, BadDebtAddsUp
<1>4. payments = <<>> /\ Len(payments) = 0
    BY DEF Init
<1>5. InOrder(payments) /\ InThePast /\ Windows
    BY <1>4 DEF InOrder, InThePast, Windows
<1>6. LastWindow
    BY FundAssumption DEF Init, LastWindow, WindowIsOver
<1>7. QED
    BY <1>2, <1>3, <1>5, <1>6 DEF IInv

LEMMA NextIInv == IInv /\ [Next]_vars => IInv'
<1> SUFFICES ASSUME IInv, [Next]_vars PROVE IInv'
    OBVIOUS
<1>1. CASE RewardStep
    <2>1. PICK op \in Keys, from \in Accounts, to \in Accounts, amount \in Amounts :
              PayKeeperReward(op, from, to, amount)
        BY <1>1 DEF RewardStep
    <2>2. TypeOK' /\ amount \in Nat
        BY <2>1, RewardTypeOK DEF IInv
    <2>3. InOrder(payments)' /\ InThePast' /\ Windows' /\ LastWindow'
        BY <2>1, <2>2, HistoryStep
    <2>4. BadDebtAddsUp'
        BY <2>1 DEF IInv, BadDebtAddsUp, PayKeeperReward, debts
    <2>5. QED
        BY <2>2, <2>3, <2>4 DEF IInv
<1>2. CASE DebtStep
    BY <1>2, DebtKeeps DEF DebtStep
<1>3. CASE OwnerStep
    BY <1>3, OwnerKeeps
<1>4. CASE Tick \/ (\E open \in BOOLEAN : SetVaultOpen(open)) \/ UNCHANGED vars
    <2>1. /\ UNCHANGED <<roles, caps, debts, rewards, ledger>>
          /\ now' \in {now, now + 1} /\ vault_open' \in BOOLEAN
        BY <1>4 DEF Tick, SetVaultOpen, vars, IInv, TypeOK
    <2>2. now \in Nat
        BY DEF IInv, TypeOK
    <2>3. now' \in Nat /\ now' >= now
        BY <2>1, <2>2
    <2>4. TypeOK'
        BY <2>1, <2>2, <2>3 DEF IInv, TypeOK, roles, caps, debts, rewards
    <2>5. BadDebtAddsUp'
        BY <2>1 DEF IInv, BadDebtAddsUp, debts
    <2>6. QED
        BY <2>1, <2>3, <2>4, <2>5, QuietStep
<1>5. QED
    BY <1>1, <1>2, <1>3, <1>4 DEF Next

LEMMA Invariance == Spec => []IInv
BY InitIInv, NextIInv, PTL DEF Spec

--------------------------------------------------------------------------------
(* The theorems *)

\* The fund's records stay within their widths, the total of the bad debt is
\* what the markets recorded, and the day's counter is what was paid since
\* the window began.
THEOREM FundBooks == Spec => []FundInv
<1>1. IInv => FundInv
    BY InvariantCounter DEF IInv, FundInv
<1>2. QED
    BY <1>1, Invariance, PTL

\* Rewards paid within less than a day, each under a daily cap of at most some
\* value, add up to at most twice that value: the span meets two windows of
\* the counter, and each of them is covered by the cap of its last reward.
THEOREM NeverMoreThanTwiceTheCap == Spec => []TwiceTheCap
BY Invariance, InvariantTwice, PTL
================================================================================
