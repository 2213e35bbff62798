\* Every message is processed at least once, with one redelivery; the services may fail.
SPECIFICATION Spec
CONSTANTS
  t1 = t1
  t2 = t2
  Tickets <- TwoTickets
  Faults <- EveryFault
  MaxKeys = 4
  MaxRedeliveries = 1
  MaxRefunds = 2
INVARIANTS
  TypeOK
  SagaInv
  CompensatesOnlyWhatHappened
  RollbackComplete
  RefundsAwaitConfirmations
PROPERTY FinalizedIsStable
SYMMETRY Symmetry
CHECK_DEADLOCK FALSE
