\* Two tickets; nothing fails.
SPECIFICATION Spec
CONSTANTS
  t1 = t1
  t2 = t2
  Tickets <- TwoTickets
  TicketKinds <- TwoKinds
  MaxFaults = 0
PROPERTY UpdatesAreNotOverridden
CHECK_DEADLOCK FALSE
