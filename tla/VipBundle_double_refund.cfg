\* The taxi call may fail; nothing is redelivered.
SPECIFICATION Spec
CONSTANTS
  t1 = t1
  t2 = t2
  Tickets <- TwoTickets
  Faults <- ServiceFaults
  MaxKeys = 3
  MaxRedeliveries = 0
  MaxRefunds = 2
INVARIANT OneRefundPerTicket
CHECK_DEADLOCK FALSE
