\* No service fails; one crash, error or lost ack.
SPECIFICATION FairSpec
CONSTANTS
  t1 = t1
  t2 = t2
  Tickets <- TwoTickets
  Faults = {}
  MaxKeys = 5
  MaxRedeliveries = 1
  MaxRefunds = 1
PROPERTY BundleCompletes
CHECK_DEADLOCK FALSE
