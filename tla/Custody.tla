-------------------------------- MODULE Custody --------------------------------
(***************************************************************************)
(* What the vault promises, without its books.  A custodian holds money    *)
(* against claims; next to the claims it records credits that no money of  *)
(* its own stands behind.  Value is taken in, paid out to its claimant,    *)
(* granted and revoked as credit, and reassigned between two parties --    *)
(* each kind to the same kind, in whatever mix.  PerpVault implements this *)
(* with a fixed mix (deposits first), limits, a pause and running totals.  *)
(***************************************************************************)
EXTENDS Integers, Sums

CONSTANTS
    NumParties,     \* a natural number
    Amounts         \* the amounts that can change hands, natural numbers

Parties == 1 .. NumParties

VARIABLES custody, claims, credits

vars == <<custody, claims, credits>>

Init ==
    /\ custody = 0
    /\ claims = [p \in Parties |-> 0]
    /\ credits = [p \in Parties |-> 0]

TakeIn(p, x) ==
    /\ custody' = custody + x
    /\ claims' = [claims EXCEPT ![p] = @ + x]
    /\ UNCHANGED credits

PayOut(p, x) ==
    /\ x <= claims[p]
    /\ custody' = custody - x
    /\ claims' = [claims EXCEPT ![p] = @ - x]
    /\ UNCHANGED credits

Gift(x) ==
    /\ custody' = custody + x
    /\ UNCHANGED <<claims, credits>>

Grant(p, x) ==
    /\ credits' = [credits EXCEPT ![p] = @ + x]
    /\ UNCHANGED <<custody, claims>>

Revoke(p, x) ==
    /\ x <= credits[p]
    /\ credits' = [credits EXCEPT ![p] = @ - x]
    /\ UNCHANGED <<custody, claims>>

\* Move the claim part d and the credit part c from p to another party q.
Reassign(p, q, d, c) ==
    /\ p # q
    /\ d <= claims[p] /\ c <= credits[p]
    /\ claims' = [claims EXCEPT ![p] = @ - d, ![q] = @ + d]
    /\ credits' = [credits EXCEPT ![p] = @ - c, ![q] = @ + c]
    /\ UNCHANGED custody

Next ==
    \/ \E x \in Amounts : Gift(x)
    \/ \E p \in Parties, x \in Amounts :
          TakeIn(p, x) \/ PayOut(p, x) \/ Grant(p, x) \/ Revoke(p, x)
    \/ \E p, q \in Parties, d, c \in Amounts : Reassign(p, q, d, c)

Spec == Init /\ [][Next]_vars

\* Every claim is backed by money held.
Backed == SumTo(claims, NumParties) <= custody
================================================================================
