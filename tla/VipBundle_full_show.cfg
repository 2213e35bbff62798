\* The show has not enough seats; nothing else goes wrong.
SPECIFICATION FairSpec
CONSTANTS
  t1 = t1
  t2 = t2
  Tickets <- TwoTickets
  Faults <- FullShow
  MaxKeys = 3
  MaxRedeliveries = 0
  MaxRefunds = 2
PROPERTY FullShowFailsBundle
CHECK_DEADLOCK FALSE
