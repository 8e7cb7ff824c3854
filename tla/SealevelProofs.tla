--------------------------- MODULE SealevelProofs ---------------------------
(***************************************************************************)
(* Programs whose instructions declare what they write cannot tell the     *)
(* parallel runtime from a serial one, whatever the instructions are and   *)
(* however many senders there are.                                         *)
(***************************************************************************)
EXTENDS Sealevel, TLAPS

\* Every lane is a record of the three fields.
Shaped ==
  /\ DOMAIN lane = Lanes
  /\ lane = [l \in Lanes |-> [status |-> lane[l].status, tx |-> lane[l].tx,
                              view |-> lane[l].view]]
  /\ \A l \in Lanes : Running(l) => lane[l].tx \in Transactions

\* The locks: running transactions do not touch each other's accounts ...
Locked ==
  \A l, m \in Lanes : l # m /\ Running(l) /\ Running(m) => Compatible(lane[l].tx, lane[m].tx)

\* ... so that what each of them started from is still what the ledger says.
Fresh == \A l \in Lanes : Running(l) => lane[l].view = About(ledger, Named(lane[l].tx))

IInv == Shaped /\ Locked /\ Fresh

LEMMA InitInv == Init => IInv
BY DEF Init, IInv, Shaped, Locked, Fresh, Running, Idle

LEMMA BeginInv ==
  ASSUME IInv, NEW l \in Lanes, NEW t \in Transactions, Begin(l, t)
  PROVE  IInv' /\ ledger' = ledger /\ outcome' = outcome
<1> DEFINE new == [status |-> "running", tx |-> t, view |-> About(ledger, Named(t))]
<1>1. ~Running(l) /\ lane[l].status = "idle" /\ ledger' = ledger
  BY DEF Begin, Running, Idle
<1>2. DOMAIN lane' = Lanes /\ lane'[l] = new /\ \A m \in Lanes \ {l} : lane'[m] = lane[m]
  BY DEF Begin, IInv, Shaped
<1>3. lane' = [m \in Lanes |-> [status |-> lane'[m].status, tx |-> lane'[m].tx,
                                view |-> lane'[m].view]]
  <2>1. lane' = [m \in Lanes |-> lane'[m]]
    BY <1>2 DEF Begin, IInv, Shaped
  <2>2. \A m \in Lanes : lane'[m] = [status |-> lane'[m].status, tx |-> lane'[m].tx,
                                     view |-> lane'[m].view]
    BY <1>2 DEF IInv, Shaped
  <2> QED BY <2>1, <2>2
<1>4. Shaped'
  BY <1>2, <1>3 DEF IInv, Shaped, Running
<1>5. Locked'
  BY <1>2, <1>1 DEF IInv, Locked, Running, Compatible, Begin
<1>6. Fresh'
  BY <1>2, <1>1 DEF IInv, Fresh, Running
<1>7. outcome' = outcome
  BY <1>1, <1>2 DEF outcome
<1> QED BY <1>1, <1>4, <1>5, <1>6, <1>7 DEF IInv

\* The writes that are stored are those the handlers mean to make: the ledger grows by them.
LEMMA CommitLedger ==
  ASSUME IInv, WellDeclared, NEW l \in Lanes, Commit(l)
  PROVE  /\ ledger' = ledger \cup Intended(l, lane[l].tx)
         /\ \A w \in Intended(l, lane[l].tx) : w[1] \in Writes(lane[l].tx)
<1> DEFINE t == lane[l].tx
<1>1. t \in Transactions /\ Legal(t) /\ lane[l].view = About(ledger, Named(t))
  BY DEF Commit, IInv, Shaped, Fresh
<1>2. Writes(t) \subseteq Named(t) /\ About(Stored(l, t), Writes(t)) = Intended(l, t)
  BY <1>1 DEF WellDeclared, Declared
<1>3. ledger' = {w \in ledger : w[1] \notin Writes(t)}
                  \cup About(lane[l].view \cup Stored(l, t), Writes(t))
  BY DEF Commit
<1>4. About(lane[l].view \cup Stored(l, t), Writes(t))
        = {w \in ledger : w[1] \in Writes(t)} \cup Intended(l, t)
  BY <1>1, <1>2 DEF About
<1> QED BY <1>2, <1>3, <1>4 DEF About

LEMMA CommitInv ==
  ASSUME IInv, WellDeclared, NEW l \in Lanes, Commit(l)
  PROVE  IInv' /\ Serial!Execute(l)
<1> DEFINE t == lane[l].tx
<1>1. Running(l) /\ t \in Transactions /\ lane[l].view = About(ledger, Named(t))
  BY DEF Commit, IInv, Shaped, Fresh
<1>2. /\ DOMAIN lane' = Lanes
      /\ lane'[l] = [status |-> "committed", tx |-> t, view |-> lane[l].view]
      /\ \A m \in Lanes \ {l} : lane'[m] = lane[m]
  BY DEF Commit, IInv, Shaped
<1>3. lane' = [m \in Lanes |-> [status |-> lane'[m].status, tx |-> lane'[m].tx,
                                view |-> lane'[m].view]]
  <2>1. lane' = [m \in Lanes |-> lane'[m]]
    BY <1>2 DEF Commit, IInv, Shaped
  <2>2. \A m \in Lanes : lane'[m] = [status |-> lane'[m].status, tx |-> lane'[m].tx,
                                     view |-> lane'[m].view]
    BY <1>2 DEF IInv, Shaped
  <2> QED BY <2>1, <2>2
<1>4. Shaped'
  BY <1>2, <1>3 DEF IInv, Shaped, Running
<1>5. Locked'
  BY <1>2 DEF IInv, Locked, Running, Compatible
<1>6. /\ ledger' = ledger \cup Intended(l, t)
      /\ \A w \in Intended(l, t) : w[1] \in Writes(t)
  BY CommitLedger
<1>7. Fresh'
  <2> SUFFICES ASSUME NEW m \in Lanes, Running(m)'
               PROVE  lane'[m].view = About(ledger', Named(lane'[m].tx))
    BY DEF Fresh, About
  <2>1. m # l /\ Running(m) /\ lane'[m] = lane[m]
    BY <1>2 DEF Running
  <2>2. Writes(t) \cap Named(lane[m].tx) = {}
    BY <2>1, <1>1 DEF IInv, Locked, Compatible
  <2>3. About(ledger', Named(lane[m].tx)) = About(ledger, Named(lane[m].tx))
    BY <2>2, <1>6 DEF About
  <2> QED BY <2>1, <2>3 DEF IInv, Fresh
<1>8. /\ outcome[l] = Serial!None
      /\ outcome' = [outcome EXCEPT ![l] = [tx |-> t, saw |-> About(ledger, Named(t))]]
  <2>1. outcome[l] = Serial!None
    BY <1>1 DEF outcome, Running, Serial!None
  <2>2. outcome'[l] = [tx |-> t, saw |-> About(ledger, Named(t))]
    BY <1>1, <1>2 DEF outcome
  <2>3. \A m \in Lanes \ {l} : outcome'[m] = outcome[m]
    BY <1>2 DEF outcome
  <2>4. outcome' = [m \in Lanes |-> outcome'[m]] /\ outcome = [m \in Lanes |-> outcome[m]]
    BY DEF outcome
  <2> QED BY <2>1, <2>2, <2>3, <2>4
<1>9. outcome'[l].tx = t
  BY <1>8, <1>2 DEF outcome
<1>10. Serial!Execute(l)
  BY <1>1, <1>6, <1>8, <1>9 DEF Serial!Execute, About, Serial!About
<1> QED BY <1>4, <1>5, <1>7, <1>10 DEF IInv

LEMMA RejectInv ==
  ASSUME IInv, NEW l \in Lanes, Reject(l)
  PROVE  IInv' /\ ledger' = ledger /\ outcome' = outcome
<1>1. /\ DOMAIN lane' = Lanes /\ Running(l) /\ ledger' = ledger
      /\ lane'[l] = [status |-> "rejected", tx |-> lane[l].tx, view |-> lane[l].view]
      /\ \A m \in Lanes \ {l} : lane'[m] = lane[m]
  BY DEF Reject, IInv, Shaped
<1>2. lane' = [m \in Lanes |-> [status |-> lane'[m].status, tx |-> lane'[m].tx,
                                view |-> lane'[m].view]]
  <2>1. lane' = [m \in Lanes |-> lane'[m]]
    BY <1>1 DEF Reject, IInv, Shaped
  <2>2. \A m \in Lanes : lane'[m] = [status |-> lane'[m].status, tx |-> lane'[m].tx,
                                     view |-> lane'[m].view]
    BY <1>1 DEF IInv, Shaped
  <2> QED BY <2>1, <2>2
<1>3. Shaped'
  BY <1>1, <1>2 DEF IInv, Shaped, Running
<1>4. Locked' /\ Fresh'
  BY <1>1 DEF IInv, Locked, Fresh, Running, Compatible
<1>5. outcome' = outcome
  BY <1>1 DEF outcome, Running
<1> QED BY <1>1, <1>3, <1>4, <1>5 DEF IInv

LEMMA StepInv ==
  ASSUME IInv, WellDeclared, [Next]_vars
  PROVE  IInv' /\ [Serial!Next]_(Serial!vars)
<1>1. CASE UNCHANGED vars
  BY <1>1 DEF vars, IInv, Shaped, Locked, Fresh, Running, Serial!vars, outcome
<1>2. ASSUME NEW l \in Lanes, NEW t \in Transactions, Begin(l, t)
      PROVE  IInv' /\ [Serial!Next]_(Serial!vars)
  BY <1>2, BeginInv DEF Serial!vars
<1>3. ASSUME NEW l \in Lanes, Commit(l)
      PROVE  IInv' /\ [Serial!Next]_(Serial!vars)
  BY <1>3, CommitInv DEF Serial!Next
<1>4. ASSUME NEW l \in Lanes, Reject(l)
      PROVE  IInv' /\ [Serial!Next]_(Serial!vars)
  BY <1>4, RejectInv DEF Serial!vars
<1> QED BY <1>1, <1>2, <1>3, <1>4 DEF Next

(***************************************************************************)
(* If every instruction lists what it writes as writable and loses none of *)
(* it to a caller's write-back, transactions running side by side leave    *)
(* exactly what they would have left one after the other, and each saw     *)
(* exactly what it would have seen: what the other modules of this         *)
(* project rest on when they model an instruction as one atomic step.      *)
(***************************************************************************)
THEOREM SideBySideIsSerial ==
  ASSUME WellDeclared
  PROVE  Spec => ImplementsSerial
<1>1. Init => Serial!Init
  BY DEF Init, Serial!Init, outcome, Idle, Serial!None
<1>2. IInv /\ [Next]_vars => IInv' /\ [Serial!Next]_(Serial!vars)
  BY StepInv
<1> QED BY <1>1, <1>2, InitInv, PTL DEF Spec, Serial!Spec, ImplementsSerial

\* A transaction's fate is the verdict of the checks, and the ledger holds
\* nothing but what committed transactions meant to write.
Judged ==
  \A l \in Lanes : /\ lane[l].status = "committed" => Legal(lane[l].tx)
                   /\ lane[l].status = "rejected" => ~Legal(lane[l].tx)
JInv == IInv /\ TypeOK /\ Judged

LEMMA InitJInv == Init => JInv
BY InitInv DEF Init, JInv, TypeOK, Judged, Idle

LEMMA BeginJInv ==
  ASSUME JInv, NEW l \in Lanes, NEW t \in Transactions, Begin(l, t)
  PROVE  JInv'
<1>1. IInv' /\ ledger' = ledger
  BY BeginInv DEF JInv
<1>2. /\ lane[l].status = "idle"
      /\ lane'[l].status = "running" /\ lane'[l].tx = t
      /\ \A m \in Lanes \ {l} : lane'[m] = lane[m]
  BY DEF Begin, JInv, IInv, Shaped, Idle
<1>3. Committed' = Committed
  BY <1>2 DEF Committed
<1>4. \A w \in ledger : \E m \in Committed : w \in Intended(m, lane'[m].tx)
  <2> SUFFICES ASSUME NEW w \in ledger
               PROVE  \E m \in Committed : w \in Intended(m, lane'[m].tx)
    OBVIOUS
  <2>1. PICK m \in Committed : w \in Intended(m, lane[m].tx)
    BY DEF JInv, TypeOK
  <2>2. m # l /\ m \in Lanes
    BY <1>2 DEF Committed
  <2> QED BY <1>2, <2>1, <2>2
<1>5. TypeOK'
  BY <1>1, <1>2, <1>3, <1>4 DEF TypeOK, JInv
<1>6. Judged'
  BY <1>2 DEF Judged, JInv
<1> QED BY <1>1, <1>5, <1>6 DEF JInv

LEMMA CommitJInv ==
  ASSUME JInv, WellDeclared, NEW l \in Lanes, Commit(l)
  PROVE  JInv'
<1>1. IInv' /\ ledger' = ledger \cup Intended(l, lane[l].tx)
  BY CommitInv, CommitLedger DEF JInv
<1>2. /\ Legal(lane[l].tx) /\ lane[l].tx \in Transactions
      /\ lane'[l].status = "committed" /\ lane'[l].tx = lane[l].tx
      /\ \A m \in Lanes \ {l} : lane'[m] = lane[m]
  BY DEF Commit, JInv, IInv, Shaped
<1>3. Committed' = Committed \cup {l}
  BY <1>2 DEF Committed
<1>4. \A w \in ledger' : \E m \in Committed' : w \in Intended(m, lane'[m].tx)
  <2>1. ASSUME NEW w \in Intended(l, lane[l].tx)
        PROVE  \E m \in Committed' : w \in Intended(m, lane'[m].tx)
    BY <1>2, <1>3
  <2>2. ASSUME NEW w \in ledger
        PROVE  \E m \in Committed' : w \in Intended(m, lane'[m].tx)
    <3>1. PICK m \in Committed : w \in Intended(m, lane[m].tx)
      BY DEF JInv, TypeOK
    <3>2. m \in Lanes /\ lane'[m].tx = lane[m].tx
      BY <1>2 DEF Committed
    <3> QED BY <1>3, <3>1, <3>2
  <2> QED BY <1>1, <2>1, <2>2
<1>5. TypeOK'
  BY <1>2, <1>4 DEF TypeOK, JInv
<1>6. Judged'
  BY <1>2 DEF Judged, JInv
<1> QED BY <1>1, <1>5, <1>6 DEF JInv

LEMMA RejectJInv ==
  ASSUME JInv, NEW l \in Lanes, Reject(l)
  PROVE  JInv'
<1>1. IInv' /\ ledger' = ledger
  BY RejectInv DEF JInv
<1>2. /\ ~Legal(lane[l].tx) /\ lane[l].tx \in Transactions
      /\ lane[l].status = "running"
      /\ lane'[l].status = "rejected" /\ lane'[l].tx = lane[l].tx
      /\ \A m \in Lanes \ {l} : lane'[m] = lane[m]
  BY DEF Reject, Running, JInv, IInv, Shaped
<1>3. Committed' = Committed
  BY <1>2 DEF Committed
<1>4. \A m \in Lanes : lane'[m].tx = lane[m].tx
  BY <1>2
<1>5. TypeOK'
  BY <1>1, <1>2, <1>3, <1>4 DEF TypeOK, JInv, Committed
<1>6. Judged'
  BY <1>2 DEF Judged, JInv
<1> QED BY <1>1, <1>5, <1>6 DEF JInv

LEMMA JudgedInvariance ==
  ASSUME WellDeclared
  PROVE  Spec => []JInv
<1>1. JInv /\ [Next]_vars => JInv'
  <2> SUFFICES ASSUME JInv, [Next]_vars PROVE JInv'
    OBVIOUS
  <2>1. CASE UNCHANGED vars
    BY <2>1 DEF vars, JInv, IInv, Shaped, Locked, Fresh, Running, TypeOK, Judged, Committed
  <2>2. ASSUME NEW l \in Lanes, NEW t \in Transactions, Begin(l, t) PROVE JInv'
    BY <2>2, BeginJInv
  <2>3. ASSUME NEW l \in Lanes, Commit(l) PROVE JInv'
    BY <2>3, CommitJInv
  <2>4. ASSUME NEW l \in Lanes, Reject(l) PROVE JInv'
    BY <2>4, RejectJInv
  <2> QED BY <2>1, <2>2, <2>3, <2>4 DEF Next
<1> QED BY <1>1, InitJInv, PTL DEF Spec

(***************************************************************************)
(* If moreover the checks turn down exactly the transactions built from an *)
(* outdated configuration, then in every schedule the ledger holds only    *)
(* what committed transactions meant to write, each of them lost none of   *)
(* its writes, and only the overtaken senders are turned down.             *)
(***************************************************************************)
THEOREM OnlyTheOvertakenFail ==
  ASSUME WellDeclared, \A t \in Transactions : Legal(t) <=> t \notin Outdated
  PROVE  Spec => []RuntimeInv
<1>1. JInv => RuntimeInv
  <2> SUFFICES ASSUME JInv PROVE RuntimeInv
    OBVIOUS
  <2>1. ASSUME NEW l \in Lanes, lane[l].status \in {"committed", "rejected"}
        PROVE  /\ lane[l].tx \in Transactions
               /\ lane[l].status = "committed" <=> Legal(lane[l].tx)
    <3>1. lane[l].tx \in Transactions
      BY <2>1 DEF JInv, TypeOK, Idle
    <3>2. lane[l].status = "committed" <=> Legal(lane[l].tx)
      BY <2>1 DEF JInv, Judged
    <3> QED BY <3>1, <3>2
  <2>2. CommittedDeclared
    <3> SUFFICES ASSUME NEW l \in Lanes, lane[l].status = "committed"
                 PROVE  Declared(l, lane[l].tx)
      BY DEF CommittedDeclared, Committed
    <3> QED BY <2>1 DEF WellDeclared
  <2>3. RejectedIffOutdated
    <3> SUFFICES ASSUME NEW l \in Lanes, lane[l].status \in {"committed", "rejected"}
                 PROVE  lane[l].status = "rejected" <=> lane[l].tx \in Outdated
      BY DEF RejectedIffOutdated
    <3> QED BY <2>1
  <2> QED BY <2>2, <2>3 DEF RuntimeInv, JInv
<1> QED BY <1>1, JudgedInvariance, PTL
=============================================================================
