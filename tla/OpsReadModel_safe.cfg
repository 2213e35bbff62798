\* Two tickets; events come in any order, concurrent writes are refused, and a handler
\* may fail or an ack may be lost.
SPECIFICATION FairSpec
CONSTANTS
  t1 = t1
  t2 = t2
  Tickets <- TwoTickets
  TicketKinds <- TwoKinds
  MaxFaults = 1
INVARIANTS
  TypeOK
  ReadModelInv
  ShownIsAnnounced
PROPERTIES
  TicketsStay
  EventsAreHandled
  TicketsAreShown
CHECK_DEADLOCK FALSE
