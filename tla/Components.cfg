\* Each of the small components alone.
CONSTANTS
  Products = {"p1", "p2"}
  Orders = {"o1", "o2"}
  Requests = {"r1", "r2", "r3"}
  OrderOf <- MCOrderOf
  Quantity <- MCQuantity
  InitialStock <- MCInitialStock
  Deliveries <- MCDeliveries
  Commands = {"c"}
  CommandQuantity <- MCCommandQuantity
  Messages = {"m1", "m2"}
  MaxCommands = 3
  LakeEvents <- MCLakeEvents
  MaxRuns = 2
  Alerts = {"a1", "a2"}
  MaxVersion = 3
  Payments = {"payment1", "payment2"}
  AmountOf <- MCAmountOf
  Tickets = {"t1", "t2"}
  Players = {"player1", "player2", "player3"}
  TeamOf <- MCTeamOf
  MaxReadings = 4
  MaxFaults <- MCMaxFaults
SPECIFICATION FairSpec
INVARIANTS
  TypeOK
  StockIsAccounted
  OrdersMatchProducts
  NothingIsLost
  ReportsAreTrue
  ReplayIsTruthful
  UpdatesAreInOrder
  InvoiceMatchesEvents
  RollbackUndoesAll
  PlayersAreInTheirTeam
  AlarmFollowsSensor
PROPERTIES
  WorkEnds
CHECK_DEADLOCK FALSE
