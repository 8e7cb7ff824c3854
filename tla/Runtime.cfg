\* Any two of the instructions of the eleven programs, side by side.
CONSTANTS
  Lanes = {L1, L2}
  Transactions <- MCTransactions
  Named <- MCNamed
  Intended <- MCIntended
  Writes <- MCWrites
  Outdated <- MCOutdated
  Legal <- MCLegal
  Stored <- MCStored
SYMMETRY Senders
SPECIFICATION Spec
INVARIANTS RuntimeInv
PROPERTIES ImplementsSerial
\* Every sender has sent its one transaction.
CHECK_DEADLOCK FALSE
