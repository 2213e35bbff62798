\* HTTP requests and commands book at the same time; the service may crash.
SPECIFICATION FairSpec
CONSTANTS
  theatre = theatre
  club = club
  h1 = h1
  h2 = h2
  h3 = h3
  v1 = v1
  v2 = v2
  Shows <- TwoShows
  HttpBookings <- ThreeHttp
  VipBookings <- TwoVip
  ShowOf <- ShowOfAll
  TicketsOf <- TicketsOfAll
  Seats <- SeatCount
  Faults = {}
  MaxCrashes = 1
INVARIANTS
  TypeOK
  BookingsInv
  LostOnlyToAnother
PROPERTIES
  BooksAtomically
  CommandIsAcked
CHECK_DEADLOCK FALSE
