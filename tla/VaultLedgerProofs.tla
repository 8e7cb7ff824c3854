--------------------------- MODULE VaultLedgerProofs ---------------------------
(***************************************************************************)
(* What a total over a table is, and how it moves when one row moves, for  *)
(* tables of every length; then what internal_transfer does to the two     *)
(* columns, for every number of accounts and every integer width.  The     *)
(* inductions are arguments on a least counterexample, which needs no      *)
(* induction schema.                                                       *)
(***************************************************************************)
EXTENDS VaultLedger, WellFoundedInduction, TLAPS

--------------------------------------------------------------------------------
(* Totals *)

\* Every non-empty set of natural numbers has a least element.
LEMMA LeastElement ==
    ASSUME NEW T \in SUBSET Nat, T # {}
    PROVE  \E m \in T : \A k \in T : m <= k
<1> DEFINE R == OpToRel(<, Nat)
<1>1. IsWellFoundedOn(R, Nat)
    BY NatLessThanWellFounded
<1>2. PICK m \in T : \A k \in T : ~ (<<k, m>> \in R)
    BY <1>1, WFMin
<1>3. ASSUME NEW k \in T PROVE m <= k
    <2>1. k < m => <<k, m>> \in R
        BY DEF OpToRel
    <2>2. ~ (k < m)
        BY <1>2, <2>1
    <2>3. k \in Nat /\ m \in Nat
        OBVIOUS
    <2>4. QED
        BY <2>2, <2>3
<1>4. QED
    BY <1>3

\* p satisfies the recursive equation of PrefixSums.
IsPrefix(p, f, n) == p = [i \in 0 .. n |-> IF i = 0 THEN 0 ELSE p[i - 1] + f[i]]

\* The recursive equation has a solution, so PrefixSums is well defined.
LEMMA PrefixExists ==
    ASSUME NEW f, NEW n \in Nat
    PROVE  \E p : IsPrefix(p, f, n)
<1> DEFINE T == {m \in Nat : ~ \E p : IsPrefix(p, f, m)}
<1>1. SUFFICES ASSUME T # {} PROVE FALSE
    OBVIOUS
<1>2. PICK m \in T : \A k \in T : m <= k
    BY <1>1, LeastElement
<1>3. m # 0
    <2>1. IsPrefix([i \in 0 .. 0 |-> 0], f, 0)
        BY DEF IsPrefix
    <2>2. QED
        BY <2>1
<1>4. PICK p : IsPrefix(p, f, m - 1)
    BY <1>2, <1>3
<1> DEFINE q == [i \in 0 .. m |-> IF i = m THEN p[m - 1] + f[m] ELSE p[i]]
<1>5. \A i \in 0 .. (m - 1) : p[i] = IF i = 0 THEN 0 ELSE p[i - 1] + f[i]
    BY <1>4 DEF IsPrefix
<1>6. \A i \in 0 .. m : q[i] = IF i = 0 THEN 0 ELSE q[i - 1] + f[i]
    BY <1>3, <1>5
<1>7. IsPrefix(q, f, m)
    BY <1>6 DEF IsPrefix
<1>8. QED
    BY <1>7

\* PrefixSums(f, n) satisfies its equation.
LEMMA PrefixEquation ==
    ASSUME NEW f, NEW n \in Nat
    PROVE  IsPrefix(PrefixSums(f, n), f, n)
<1>1. \E p : p = [i \in 0 .. n |-> IF i = 0 THEN 0 ELSE p[i - 1] + f[i]]
    BY PrefixExists DEF IsPrefix
<1>2. QED
    BY <1>1 DEF PrefixSums, IsPrefix

\* A statement about 0 .. n holds when its least counterexample is impossible.
LEMMA LeastCounterexample ==
    ASSUME NEW n \in Nat, NEW Good,
           0 \in Good,
           \A i \in 1 .. n : i - 1 \in Good => i \in Good
    PROVE  \A i \in 0 .. n : i \in Good
<1> DEFINE T == {i \in 0 .. n : i \notin Good}
<1>1. SUFFICES ASSUME T # {} PROVE FALSE
    OBVIOUS
<1>2. PICK m \in T : \A k \in T : m <= k
    BY <1>1, LeastElement, T \in SUBSET Nat
<1>3. m \in 1 .. n /\ m - 1 \in 0 .. n /\ m - 1 \notin T
    BY <1>2
<1>4. QED
    BY <1>3

\* The two cases of the equation, and the type of every partial sum.
LEMMA PrefixValues ==
    ASSUME NEW n \in Nat, NEW f \in [1 .. n -> Int]
    PROVE  /\ PrefixSums(f, n)[0] = 0
           /\ \A i \in 1 .. n : PrefixSums(f, n)[i] = PrefixSums(f, n)[i - 1] + f[i]
           /\ \A i \in 0 .. n : PrefixSums(f, n)[i] \in Int
<1> DEFINE p == PrefixSums(f, n)
<1>1. IsPrefix(p, f, n)
    BY PrefixEquation
<1> HIDE DEF p
<1>2. p[0] = 0
    BY <1>1 DEF IsPrefix
<1>3. \A i \in 1 .. n : p[i] = p[i - 1] + f[i]
    BY <1>1 DEF IsPrefix
<1> DEFINE Good == {i \in 0 .. n : p[i] \in Int}
<1>4. 0 \in Good
    BY <1>2
<1>5. \A i \in 1 .. n : i - 1 \in Good => i \in Good
    BY <1>3
<1> HIDE DEF Good
<1>6. \A i \in 0 .. n : i \in Good
    BY <1>4, <1>5, LeastCounterexample
<1>7. QED
    BY <1>2, <1>3, <1>6 DEF p, Good

LEMMA SumType ==
    ASSUME NEW n \in Nat, NEW f \in [1 .. n -> Int]
    PROVE  SumTo(f, n) \in Int
BY PrefixValues DEF SumTo

\* A table of zeros sums to zero.
LEMMA SumZero ==
    ASSUME NEW n \in Nat, NEW f \in [1 .. n -> Int], \A i \in 1 .. n : f[i] = 0
    PROVE  SumTo(f, n) = 0
<1> DEFINE p == PrefixSums(f, n)
           Good == {i \in 0 .. n : p[i] = 0}
<1>1. /\ p[0] = 0
      /\ \A i \in 1 .. n : p[i] = p[i - 1] + f[i]
    BY PrefixValues
<1> HIDE DEF p
<1>2. 0 \in Good
    BY <1>1
<1>3. \A i \in 1 .. n : i - 1 \in Good => i \in Good
    BY <1>1
<1> HIDE DEF Good
<1>4. n \in Good
    BY <1>2, <1>3, LeastCounterexample
<1>5. QED
    BY <1>4 DEF Good, SumTo, p

\* Changing one row changes the total by the change of the row.
LEMMA SumUpdate ==
    ASSUME NEW n \in Nat, NEW f \in [1 .. n -> Int],
           NEW a \in 1 .. n, NEW v \in Int
    PROVE  SumTo([f EXCEPT ![a] = v], n) = SumTo(f, n) - f[a] + v
<1> DEFINE g == [f EXCEPT ![a] = v]
           p == PrefixSums(f, n)
           q == PrefixSums(g, n)
           Good == {i \in 0 .. n : q[i] = IF i < a THEN p[i] ELSE p[i] - f[a] + v}
<1>1. g \in [1 .. n -> Int] /\ f[a] \in Int
    OBVIOUS
<1>2. /\ p[0] = 0
      /\ \A i \in 1 .. n : p[i] = p[i - 1] + f[i]
      /\ \A i \in 0 .. n : p[i] \in Int
    BY PrefixValues
<1>3. /\ q[0] = 0
      /\ \A i \in 1 .. n : q[i] = q[i - 1] + g[i]
    <2> HIDE DEF g
    <2>1. QED
        BY <1>1, PrefixValues
<1>4. \A i \in 1 .. n : g[i] = IF i = a THEN v ELSE f[i]
    OBVIOUS
<1> HIDE DEF p, q, g
<1>5. 0 \in Good
    BY <1>2, <1>3
<1>6. ASSUME NEW i \in 1 .. n, i - 1 \in Good PROVE i \in Good
    <2>1. /\ i - 1 \in 0 .. n
          /\ p[i - 1] \in Int
          /\ q[i - 1] = IF i - 1 < a THEN p[i - 1] ELSE p[i - 1] - f[a] + v
        BY <1>6, <1>2
    <2>2. /\ p[i] = p[i - 1] + f[i]
          /\ q[i] = q[i - 1] + g[i]
        BY <1>2, <1>3
    <2>3. f[i] \in Int
        OBVIOUS
    <2>4. CASE i < a
        BY <2>1, <2>2, <2>3, <2>4, <1>4
    <2>5. CASE i = a
        BY <2>1, <2>2, <2>3, <2>5, <1>4
    <2>6. CASE i > a
        BY <2>1, <2>2, <2>3, <2>6, <1>1, <1>4
    <2>7. QED
        BY <2>4, <2>5, <2>6
<1>6a. \A i \in 1 .. n : i - 1 \in Good => i \in Good
    BY <1>6
<1> HIDE DEF Good
<1>6b. \A i \in 0 .. n : i \in Good
    BY <1>5, <1>6a, LeastCounterexample
<1>7. n \in Good
    BY <1>6b
<1>8. q[n] = p[n] - f[a] + v
    BY <1>7 DEF Good
<1>9. QED
    BY <1>8 DEF SumTo, p, q, g

\* In a table without negative rows the total is at least every row.
LEMMA SumBound ==
    ASSUME NEW n \in Nat, NEW f \in [1 .. n -> Nat]
    PROVE  /\ SumTo(f, n) \in Nat
           /\ \A a \in 1 .. n : f[a] <= SumTo(f, n)
<1> DEFINE p == PrefixSums(f, n)
           Good == {i \in 0 .. n : p[i] >= 0 /\ \A a \in 1 .. i : f[a] <= p[i]}
<1>1. /\ p[0] = 0
      /\ \A i \in 1 .. n : p[i] = p[i - 1] + f[i]
      /\ \A i \in 0 .. n : p[i] \in Int
    <2>1. f \in [1 .. n -> Int]
        OBVIOUS
    <2>2. QED
        BY <2>1, PrefixValues
<1> HIDE DEF p
<1>2. 0 \in Good
    BY <1>1
<1>3. ASSUME NEW i \in 1 .. n, i - 1 \in Good PROVE i \in Good
    <2>1. /\ p[i - 1] \in Int
          /\ p[i - 1] >= 0
          /\ \A a \in 1 .. (i - 1) : f[a] <= p[i - 1]
          /\ p[i] = p[i - 1] + f[i]
        BY <1>1, <1>3
    <2>2. p[i] >= p[i - 1] /\ p[i] >= f[i] /\ p[i] \in Int
        BY <2>1
    <2>3. ASSUME NEW a \in 1 .. i PROVE f[a] <= p[i]
        <3>1. CASE a = i
            BY <3>1, <2>2
        <3>2. CASE a # i
            <4>1. a \in 1 .. (i - 1)
                BY <3>2
            <4>2. f[a] \in Nat /\ f[a] <= p[i - 1]
                BY <4>1, <2>1
            <4>3. QED
                BY <4>2, <2>1, <2>2
        <3>3. QED
            BY <3>1, <3>2
    <2>4. QED
        BY <2>1, <2>2, <2>3
<1>3a. \A i \in 1 .. n : i - 1 \in Good => i \in Good
    BY <1>3
<1> HIDE DEF Good
<1>3b. \A i \in 0 .. n : i \in Good
    BY <1>2, <1>3a, LeastCounterexample
<1>4. n \in Good
    BY <1>3b
<1>5. QED
    BY <1>1, <1>4 DEF Good, SumTo, p

\* In a table whose rows are at most c the total is at most n times c.
LEMMA SumCap ==
    ASSUME NEW n \in Nat, NEW f \in [1 .. n -> Nat], NEW c \in Nat,
           \A i \in 1 .. n : f[i] <= c
    PROVE  SumTo(f, n) <= n * c
<1> DEFINE p == PrefixSums(f, n)
           Good == {i \in 0 .. n : p[i] <= i * c}
<1>1. /\ p[0] = 0
      /\ \A i \in 1 .. n : p[i] = p[i - 1] + f[i]
      /\ \A i \in 0 .. n : p[i] \in Int
    <2>1. f \in [1 .. n -> Int]
        OBVIOUS
    <2>2. QED
        BY <2>1, PrefixValues
<1> HIDE DEF p
<1>2. 0 \in Good
    BY <1>1
<1>3. ASSUME NEW i \in 1 .. n, i - 1 \in Good PROVE i \in Good
    <2>1. /\ p[i - 1] \in Int /\ p[i] \in Int
          /\ p[i - 1] <= (i - 1) * c
          /\ p[i] = p[i - 1] + f[i]
          /\ f[i] \in Nat /\ f[i] <= c
        BY <1>1, <1>3
    <2>2. (i - 1) * c + c = i * c /\ (i - 1) * c \in Int /\ i * c \in Int
        OBVIOUS
    <2>3. p[i] <= i * c
        BY <2>1, <2>2
    <2>4. QED
        BY <2>3
<1>4. \A i \in 1 .. n : i - 1 \in Good => i \in Good
    BY <1>3
<1> HIDE DEF Good
<1>5. \A i \in 0 .. n : i \in Good
    BY <1>2, <1>4, LeastCounterexample
<1>6. n \in Good
    BY <1>5
<1>7. QED
    BY <1>6 DEF Good, SumTo, p

\* One more row adds its value to the total.
LEMMA SumExtend ==
    ASSUME NEW n \in Nat, NEW f \in [1 .. n -> Int], NEW g \in [1 .. (n + 1) -> Int],
           \A i \in 1 .. n : g[i] = f[i]
    PROVE  SumTo(g, n + 1) = SumTo(f, n) + g[n + 1]
<1> DEFINE p == PrefixSums(f, n)
           q == PrefixSums(g, n + 1)
           Good == {i \in 0 .. n : q[i] = p[i]}
<1>1. /\ p[0] = 0
      /\ \A i \in 1 .. n : p[i] = p[i - 1] + f[i]
    BY PrefixValues
<1>2. /\ q[0] = 0
      /\ \A i \in 1 .. (n + 1) : q[i] = q[i - 1] + g[i]
    BY n + 1 \in Nat, PrefixValues
<1> HIDE DEF p, q
<1>3. 0 \in Good
    BY <1>1, <1>2
<1>4. \A i \in 1 .. n : i - 1 \in Good => i \in Good
    BY <1>1, <1>2
<1> HIDE DEF Good
<1>5. \A i \in 0 .. n : i \in Good
    BY <1>3, <1>4, LeastCounterexample
<1>6. q[n] = p[n]
    BY <1>5 DEF Good
<1>7. q[n + 1] = q[n] + g[n + 1]
    BY <1>2
<1>8. QED
    BY <1>6, <1>7 DEF SumTo, p, q

\* Totals of two tables add up row by row.
LEMMA SumAdd ==
    ASSUME NEW n \in Nat, NEW f \in [1 .. n -> Int], NEW g \in [1 .. n -> Int],
           NEW h \in [1 .. n -> Int], \A i \in 1 .. n : h[i] = f[i] + g[i]
    PROVE  SumTo(h, n) = SumTo(f, n) + SumTo(g, n)
<1> DEFINE p == PrefixSums(f, n)
           q == PrefixSums(g, n)
           r == PrefixSums(h, n)
           Good == {i \in 0 .. n : r[i] = p[i] + q[i]}
<1>1. /\ p[0] = 0 /\ q[0] = 0 /\ r[0] = 0
      /\ \A i \in 1 .. n : p[i] = p[i - 1] + f[i]
      /\ \A i \in 1 .. n : q[i] = q[i - 1] + g[i]
      /\ \A i \in 1 .. n : r[i] = r[i - 1] + h[i]
      /\ \A i \in 0 .. n : p[i] \in Int
      /\ \A i \in 0 .. n : q[i] \in Int
    BY PrefixValues
<1> HIDE DEF p, q, r
<1>2. 0 \in Good
    BY <1>1
<1>3. ASSUME NEW i \in 1 .. n, i - 1 \in Good PROVE i \in Good
    <2>1. /\ i - 1 \in 0 .. n /\ p[i - 1] \in Int /\ q[i - 1] \in Int
          /\ f[i] \in Int /\ g[i] \in Int
          /\ r[i - 1] = p[i - 1] + q[i - 1]
        BY <1>1, <1>3
    <2>2. r[i] = p[i] + q[i]
        BY <1>1, <2>1
    <2>3. QED
        BY <2>2
<1>4. \A i \in 1 .. n : i - 1 \in Good => i \in Good
    BY <1>3
<1> HIDE DEF Good
<1>5. \A i \in 0 .. n : i \in Good
    BY <1>2, <1>4, LeastCounterexample
<1>6. r[n] = p[n] + q[n]
    BY <1>5 DEF Good
<1>7. QED
    BY <1>6 DEF SumTo, p, q, r

\* A table that is nowhere larger has no larger total.
LEMMA SumMonotone ==
    ASSUME NEW n \in Nat, NEW f \in [1 .. n -> Int], NEW g \in [1 .. n -> Int],
           \A i \in 1 .. n : f[i] <= g[i]
    PROVE  SumTo(f, n) <= SumTo(g, n)
<1> DEFINE h == [i \in 1 .. n |-> g[i] - f[i]]
<1>1. /\ h \in [1 .. n -> Nat] /\ h \in [1 .. n -> Int]
      /\ \A i \in 1 .. n : g[i] = f[i] + h[i]
    OBVIOUS
<1> HIDE DEF h
<1>2. SumTo(g, n) = SumTo(f, n) + SumTo(h, n)
    BY <1>1, SumAdd
<1>3. SumTo(h, n) \in Nat /\ SumTo(f, n) \in Int
    BY <1>1, SumBound, SumType
<1>4. QED
    BY <1>2, <1>3

--------------------------------------------------------------------------------
(* Transfers *)

\* Moving a covered amount between two rows keeps the rows non-negative and
\* keeps their sum.
LEMMA MoveFacts ==
    ASSUME NEW column \in [Accounts -> Nat],
           NEW from \in Accounts, NEW to \in Accounts, from # to,
           NEW x \in Nat, x <= column[from]
    PROVE  /\ Move(column, from, to, x) \in [Accounts -> Nat]
           /\ SumTo(Move(column, from, to, x), NumAccounts) = SumTo(column, NumAccounts)
           /\ \A a \in Accounts :
                Move(column, from, to, x)[a] =
                    IF a = from THEN column[a] - x
                    ELSE IF a = to THEN column[a] + x ELSE column[a]
<1> USE LedgerAssumption DEF Accounts
<1> DEFINE debited == [column EXCEPT ![from] = column[from] - x]
           moved == [debited EXCEPT ![to] = debited[to] + x]
<1>1. Move(column, from, to, x) = moved
    BY DEF Move
<1>2. /\ column \in [1 .. NumAccounts -> Int]
      /\ debited \in [1 .. NumAccounts -> Int]
      /\ column[from] - x \in Int /\ debited[to] + x \in Int
      /\ debited[to] = column[to]
    OBVIOUS
<1>3. SumTo(debited, NumAccounts) = SumTo(column, NumAccounts) - column[from] + (column[from] - x)
    <2> DEFINE rest == column[from] - x
    <2>1. rest \in Int /\ from \in 1 .. NumAccounts /\ NumAccounts \in Nat
        BY <1>2
    <2> HIDE DEF rest
    <2>2. SumTo([column EXCEPT ![from] = rest], NumAccounts)
              = SumTo(column, NumAccounts) - column[from] + rest
        BY <1>2, <2>1, SumUpdate
    <2>3. QED
        BY <2>2 DEF rest
<1>4. SumTo(moved, NumAccounts) = SumTo(debited, NumAccounts) - debited[to] + (debited[to] + x)
    <2> HIDE DEF debited
    <2>1. QED
        BY <1>2, SumUpdate
<1>5. SumTo(column, NumAccounts) \in Int
    BY <1>2, SumType
<1>6. SumTo(moved, NumAccounts) = SumTo(column, NumAccounts)
    <2>1. column[from] \in Int /\ debited[to] \in Int
        OBVIOUS
    <2> HIDE DEF debited, moved
    <2>2. QED
        BY <1>3, <1>4, <1>5, <2>1
<1>7. moved \in [1 .. NumAccounts -> Nat]
    OBVIOUS
<1>8. QED
    BY <1>1, <1>6, <1>7

\* A permitted transfer leads from ledger to ledger, conserves each column,
\* and moves exactly the amount of spendable value.
LEMMA TransferFacts ==
    ASSUME NEW led \in Ledgers,
           NEW from \in Accounts, NEW to \in Accounts,
           NEW amount \in Nat, NEW max_per_tx \in U64,
           TransferAllowed(led, from, to, amount, max_per_tx)
    PROVE  /\ Transferred(led, from, to, amount) \in Ledgers
           /\ TotalBalance(Transferred(led, from, to, amount)) = TotalBalance(led)
           /\ TotalCollateral(Transferred(led, from, to, amount)) = TotalCollateral(led)
           /\ DepositPart(led, from, amount) \in U64
           /\ amount - DepositPart(led, from, amount) \in U64
           /\ DepositPart(led, from, amount) <= led.balance[from]
           /\ amount - DepositPart(led, from, amount) <= led.collateral_balance[from]
           /\ \A a \in Accounts :
                Spendable(Transferred(led, from, to, amount), a) =
                    IF a = from THEN Spendable(led, a) - amount
                    ELSE IF a = to THEN Spendable(led, a) + amount ELSE Spendable(led, a)
<1> DEFINE fd == DepositPart(led, from, amount)
           b == Move(led.balance, from, to, fd)
           c == Move(led.collateral_balance, from, to, amount - fd)
<1>1. /\ led.balance \in [Accounts -> U64]
      /\ led.collateral_balance \in [Accounts -> U64]
    BY DEF Ledgers
<1>2. MaxU64 \in Nat
    BY LedgerAssumption
<1>3. /\ led.balance \in [Accounts -> Nat]
      /\ led.collateral_balance \in [Accounts -> Nat]
      /\ \A a \in Accounts : led.balance[a] <= MaxU64 /\ led.collateral_balance[a] <= MaxU64
    BY <1>1, <1>2 DEF U64
<1>4. /\ from # to
      /\ amount <= led.balance[from] + led.collateral_balance[from]
      /\ led.balance[to] + fd <= MaxU64
      /\ led.collateral_balance[to] + (amount - fd) <= MaxU64
    BY DEF TransferAllowed, Spendable
<1>5. /\ fd \in Nat /\ fd <= led.balance[from] /\ fd <= amount
      /\ amount - fd \in Nat /\ amount - fd <= led.collateral_balance[from]
    BY <1>3, <1>4 DEF DepositPart
<1> HIDE DEF fd
<1>6. /\ b \in [Accounts -> Nat]
      /\ SumTo(b, NumAccounts) = SumTo(led.balance, NumAccounts)
      /\ \A a \in Accounts : b[a] = IF a = from THEN led.balance[a] - fd
                                    ELSE IF a = to THEN led.balance[a] + fd ELSE led.balance[a]
    BY <1>3, <1>4, <1>5, MoveFacts
<1>7. /\ c \in [Accounts -> Nat]
      /\ SumTo(c, NumAccounts) = SumTo(led.collateral_balance, NumAccounts)
      /\ \A a \in Accounts : c[a] = IF a = from THEN led.collateral_balance[a] - (amount - fd)
                                    ELSE IF a = to THEN led.collateral_balance[a] + (amount - fd)
                                    ELSE led.collateral_balance[a]
    BY <1>3, <1>4, <1>5, MoveFacts
<1>8. Transferred(led, from, to, amount) = [balance |-> b, collateral_balance |-> c]
    BY DEF Transferred, fd
<1> HIDE DEF b, c
<1>9. b \in [Accounts -> U64] /\ c \in [Accounts -> U64]
    <2>1. ASSUME NEW a \in Accounts PROVE b[a] \in 0 .. MaxU64 /\ c[a] \in 0 .. MaxU64
        <3>1. /\ led.balance[a] \in Nat /\ led.collateral_balance[a] \in Nat
              /\ led.balance[a] <= MaxU64 /\ led.collateral_balance[a] <= MaxU64
            BY <1>3
        <3>2. b[a] \in Nat /\ c[a] \in Nat
            BY <1>6, <1>7
        <3>3. b[a] <= MaxU64
            BY <1>2, <1>4, <1>5, <1>6, <3>1, <3>2
        <3>4. c[a] <= MaxU64
            BY <1>2, <1>4, <1>5, <1>7, <3>1, <3>2
        <3>5. QED
            BY <1>2, <3>2, <3>3, <3>4
    <2>2. QED
        BY <1>6, <1>7, <2>1 DEF U64
<1>10. Transferred(led, from, to, amount) \in Ledgers
    BY <1>8, <1>9 DEF Ledgers
<1>11. /\ TotalBalance(Transferred(led, from, to, amount)) = TotalBalance(led)
       /\ TotalCollateral(Transferred(led, from, to, amount)) = TotalCollateral(led)
    BY <1>6, <1>7, <1>8 DEF TotalBalance, TotalCollateral
<1>12. fd \in U64 /\ amount - fd \in U64
    <2>1. fd <= MaxU64 /\ amount - fd <= MaxU64
        BY <1>2, <1>3, <1>5
    <2>2. QED
        BY <1>2, <1>5, <2>1 DEF U64
<1>13. ASSUME NEW a \in Accounts
       PROVE  Spendable(Transferred(led, from, to, amount), a) =
                  IF a = from THEN Spendable(led, a) - amount
                  ELSE IF a = to THEN Spendable(led, a) + amount ELSE Spendable(led, a)
    <2>1. Spendable(Transferred(led, from, to, amount), a) = b[a] + c[a]
        BY <1>8 DEF Spendable
    <2>2. led.balance[a] \in Nat /\ led.collateral_balance[a] \in Nat
        BY <1>3
    <2>3. QED
        BY <1>5, <1>6, <1>7, <2>1, <2>2 DEF Spendable
<1>14. QED
    BY <1>5, <1>10, <1>11, <1>12, <1>13 DEF fd

\* Two entries of a table of non-negative numbers are at most its sum.
LEMMA TwoOfSum ==
    ASSUME NEW n \in Nat, NEW f \in [1 .. n -> Nat], NEW i \in 1 .. n, NEW j \in 1 .. n, i # j
    PROVE  f[i] + f[j] <= SumTo(f, n)
<1> DEFINE g == [f EXCEPT ![i] = 0]
<1>1. g \in [1 .. n -> Nat] /\ g[j] = f[j] /\ f \in [1 .. n -> Int]
      /\ f[i] \in Nat /\ f[j] \in Nat
    OBVIOUS
<1>2. SumTo(g, n) = SumTo(f, n) - f[i] + 0
    <2>1. PICK z \in Int : z = 0
        OBVIOUS
    <2>2. SumTo([f EXCEPT ![i] = z], n) = SumTo(f, n) - f[i] + z
        BY <1>1, SumUpdate
    <2>3. QED
        BY <2>1, <2>2
<1> HIDE DEF g
<1>3. g[j] <= SumTo(g, n) /\ SumTo(g, n) \in Nat /\ SumTo(f, n) \in Int
    BY <1>1, SumBound, SumType
<1>4. QED
    BY <1>1, <1>2, <1>3

\* All the value in a ledger.
Supply(led) == TotalBalance(led) + TotalCollateral(led)

\* A row may pay what it has to any other, when one transfer is not limited: no
\* row can overflow when the whole supply is within a row's width.
LEMMA WhateverIsThere ==
    ASSUME NEW led \in Ledgers, NEW from \in Accounts, NEW to \in Accounts, from # to,
           NEW amount \in Nat, amount > 0, amount <= Spendable(led, from),
           Supply(led) <= MaxU64,
           NEW max_per_tx, max_per_tx = 0
    PROVE  TransferAllowed(led, from, to, amount, max_per_tx)
<1> DEFINE b == led.balance
           c == led.collateral_balance
           fd == DepositPart(led, from, amount)
<1>1. /\ NumAccounts \in Nat /\ Accounts = 1 .. NumAccounts
      /\ b \in [1 .. NumAccounts -> Nat] /\ c \in [1 .. NumAccounts -> Nat] /\ MaxU64 \in Nat
    BY LedgerAssumption DEF Ledgers, U64, Accounts
<1>2. Supply(led) = SumTo(b, NumAccounts) + SumTo(c, NumAccounts)
    BY DEF Supply, TotalBalance, TotalCollateral
<1>3. Spendable(led, from) = b[from] + c[from]
    BY DEF Spendable
<1>4. fd = IF amount <= b[from] THEN amount ELSE b[from]
    BY DEF DepositPart
<1>5. /\ led.balance[to] = b[to] /\ led.collateral_balance[to] = c[to]
    OBVIOUS
<1> HIDE DEF b, c, fd
<1>6. /\ b[from] + b[to] <= SumTo(b, NumAccounts) /\ c[from] + c[to] <= SumTo(c, NumAccounts)
      /\ b[from] <= SumTo(b, NumAccounts) /\ c[from] <= SumTo(c, NumAccounts)
      /\ SumTo(b, NumAccounts) \in Nat /\ SumTo(c, NumAccounts) \in Nat
    BY <1>1, TwoOfSum, SumBound
<1>7. b[from] \in Nat /\ b[to] \in Nat /\ c[from] \in Nat /\ c[to] \in Nat
    BY <1>1
<1>8. /\ fd \in Nat /\ fd <= b[from] /\ amount - fd <= c[from]
    BY <1>3, <1>4, <1>7
<1>9. /\ Spendable(led, from) <= MaxU64
      /\ b[to] + fd <= MaxU64 /\ c[to] + (amount - fd) <= MaxU64
    <2> DEFINE sb == SumTo(b, NumAccounts)
               sc == SumTo(c, NumAccounts)
               bf == b[from]
               bt == b[to]
               cf == c[from]
               ct == c[to]
    <2>1. /\ sb \in Nat /\ sc \in Nat /\ sb + sc <= MaxU64
          /\ bf + bt <= sb /\ cf + ct <= sc
          /\ bf \in Nat /\ bt \in Nat /\ cf \in Nat /\ ct \in Nat
          /\ fd <= bf /\ amount - fd <= cf
        BY <1>2, <1>6, <1>7, <1>8
    <2> HIDE DEF sb, sc, bf, bt, cf, ct
    <2>2. bf + cf <= MaxU64 /\ bt + fd <= MaxU64 /\ ct + (amount - fd) <= MaxU64
        BY <1>1, <1>8, <2>1
    <2>3. QED
        BY <1>3, <2>2 DEF bf, bt, cf, ct
<1>10. QED
    BY <1>5, <1>9 DEF TransferAllowed, fd
================================================================================
