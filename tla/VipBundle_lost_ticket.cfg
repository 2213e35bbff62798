\* No fault and no redelivery: two handlers update the row at once.
SPECIFICATION Spec
CONSTANTS
  t1 = t1
  t2 = t2
  Tickets <- TwoTickets
  Faults = {}
  MaxKeys = 3
  MaxRedeliveries = 0
  MaxRefunds = 2
INVARIANT ConfirmedTicketsRecorded
CHECK_DEADLOCK FALSE
