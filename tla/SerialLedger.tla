---------------------------- MODULE SerialLedger ----------------------------
(***************************************************************************)
(* What the programs are written against: a ledger that executes one       *)
(* transaction at a time.  The ledger is the set of writes applied so far, *)
(* each a pair of an account and the mark of the handler that assigned it. *)
(***************************************************************************)
CONSTANTS Lanes,             \* the senders, one transaction each
          Transactions,
          Named(_),          \* the accounts a transaction lists
          Intended(_, _)     \* the writes the handlers of a lane's transaction mean to make

VARIABLES ledger, outcome

vars == <<ledger, outcome>>

None == [tx |-> <<>>, saw |-> {}]

\* The part of a set of writes that is about the accounts of K.
About(writes, K) == {w \in writes : w[1] \in K}

Init == ledger = {} /\ outcome = [l \in Lanes |-> None]

\* The whole transaction at once: it sees every earlier one and loses nothing of its own.
Execute(l) ==
  /\ outcome[l] = None
  /\ \E t \in Transactions :
       /\ outcome'[l].tx = t
       /\ outcome' = [outcome EXCEPT ![l] = [tx |-> t, saw |-> About(ledger, Named(t))]]
       /\ ledger' = ledger \cup Intended(l, t)

Next == \E l \in Lanes : Execute(l)

Spec == Init /\ [][Next]_vars
=============================================================================
