------------------------------ MODULE Sealevel ------------------------------
(***************************************************************************)
(* The parallel runtime the programs run in.  A transaction locks the      *)
(* accounts it lists, exclusively those it lists as writable, and reads    *)
(* them when it starts; transactions without a conflicting lock run side   *)
(* by side; at the end only the accounts listed as writable are stored.    *)
(* Nothing in a program guards against a handler that assigns an account   *)
(* it did not list as writable: the assignment is simply not stored.       *)
(***************************************************************************)
CONSTANTS Lanes, Transactions, Named(_), Intended(_, _),
          Writes(_),            \* the accounts a transaction lists as writable
          Outdated,             \* the transactions built from a configuration read too early
          Legal(_),             \* no check of the runtime or of Anchor rejects it
          Stored(_, _)          \* the assignments that are left when the handlers return

VARIABLES ledger, lane

vars == <<ledger, lane>>

About(writes, K) == {w \in writes : w[1] \in K}

Idle == [status |-> "idle", tx |-> <<>>, view |-> {}]

Running(l) == lane[l].status = "running"

\* As if a read took no lock.
CompatibleWriters(t, u) == Writes(t) \cap Writes(u) = {}

\* Two transactions may run together when neither writes what the other lists.
Compatible(t, u) == Writes(t) \cap Named(u) = {} /\ Writes(u) \cap Named(t) = {}

Init == ledger = {} /\ lane = [l \in Lanes |-> Idle]

Begin(l, t) ==
  /\ lane[l] = Idle
  /\ \A m \in Lanes : Running(m) => Compatible(t, lane[m].tx)
  /\ lane' = [lane EXCEPT ![l] =
                [status |-> "running", tx |-> t, view |-> About(ledger, Named(t))]]
  /\ UNCHANGED ledger

Commit(l) ==
  /\ Running(l)
  /\ Legal(lane[l].tx)
  /\ LET t == lane[l].tx
     IN  ledger' = {w \in ledger : w[1] \notin Writes(t)}
                     \cup About(lane[l].view \cup Stored(l, t), Writes(t))
  /\ lane' = [lane EXCEPT ![l].status = "committed"]

\* A failed check undoes the whole transaction.
Reject(l) ==
  /\ Running(l)
  /\ ~Legal(lane[l].tx)
  /\ lane' = [lane EXCEPT ![l].status = "rejected"]
  /\ UNCHANGED ledger

Next == \E l \in Lanes : (\E t \in Transactions : Begin(l, t)) \/ Commit(l) \/ Reject(l)

Spec == Init /\ [][Next]_vars

-----------------------------------------------------------------------------
outcome ==
  [l \in Lanes |-> IF lane[l].status = "committed"
                   THEN [tx |-> lane[l].tx, saw |-> lane[l].view]
                   ELSE [tx |-> <<>>, saw |-> {}]]

Serial == INSTANCE SerialLedger

\* Running transactions side by side, each on the copy it started from, is
\* indistinguishable from running them one after the other: no write a handler
\* means to make is lost, no handler works on an account another one changes.
ImplementsSerial == Serial!Spec

Committed == {l \in Lanes : lane[l].status = "committed"}

\* What the programs owe the runtime: whatever a handler assigns, itself or
\* through a call, is listed as writable by the transaction and survives the
\* return of every handler above it.
Declared(l, t) ==
  /\ Writes(t) \subseteq Named(t)
  /\ About(Stored(l, t), Writes(t)) = Intended(l, t)

WellDeclared == \A l \in Lanes, t \in Transactions : Legal(t) => Declared(l, t)

\* No write of a committed transaction was lost on the way: not to a list that
\* forgot the writable flag, not to the write-back of a calling handler's copy.
CommittedDeclared == \A l \in Committed : Declared(l, lane[l].tx)

\* A lane is idle or holds a transaction of the client; what the ledger holds was
\* assigned by a committed one.
TypeOK ==
  /\ \A l \in Lanes : \/ lane[l] = Idle
                      \/ /\ lane[l].status \in {"running", "committed", "rejected"}
                         /\ lane[l].tx \in Transactions
  /\ \A w \in ledger : \E l \in Committed : w \in Intended(l, lane[l].tx)

\* A transaction is turned down exactly when its sender was overtaken: every
\* other list, of a client or of a calling program, has the accounts and
\* privileges the called program insists on, no call needs more than its caller
\* has, no program is entered again under another one; and what was built from
\* a configuration read too early never executes.
RejectedIffOutdated ==
  \A l \in Lanes : /\ lane[l].status = "rejected" => lane[l].tx \in Outdated
                   /\ lane[l].status = "committed" => lane[l].tx \notin Outdated

\* No instruction of the client fails for want of an account or a privilege,
\* and none that succeeds loses a write.
RuntimeInv == TypeOK /\ CommittedDeclared /\ RejectedIffOutdated
=============================================================================
