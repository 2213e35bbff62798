\* One ticket is confirmed, cancelled and refunded by a request that may be repeated.
SPECIFICATION FairSpec
CONSTANTS
  t1 = t1
  r1 = r1
  r2 = r2
  TicketIDs = {t1}
  Requests = {r1, r2}
  Content <- ContentMC
  Refunds <- RefundsMC
  MaxAttempts <- MaxAttemptsMC
  MaxFaults = 1
INVARIANTS
  TypeOK
  PassedIsPublished
  OneReceiptPerRequest
  EventsTellTheTruth
PROPERTIES
  TicketsAreProcessed
  CanceledIsRemoved
CHECK_DEADLOCK FALSE
