----------------------------- MODULE ShowSeats -----------------------------
(***************************************************************************)
(* What the tickets service promises about the seats of its shows: a show  *)
(* is put up once, and a booking takes all of its seats in one step, at    *)
(* most once, and only while the show has that many seats left.            *)
(***************************************************************************)
EXTENDS Integers

CONSTANTS
  Shows,     \* the shows
  Bookings,  \* the bookings anyone may ask for
  ShowOf,    \* the show of a booking
  TicketsOf, \* the number of tickets of a booking
  Seats      \* the number of seats of a show

VARIABLES
  shows,    \* the shows put up so far
  bookings, \* the bookings made
  sold      \* tickets sold, per show

Init ==
  /\ shows = {}
  /\ bookings = {}
  /\ sold = [s \in Shows |-> 0]

PutUp(s) ==
  /\ s \notin shows
  /\ shows' = shows \cup {s}
  /\ UNCHANGED <<bookings, sold>>

HasSeats(id) ==
  /\ ShowOf[id] \in shows
  /\ Seats[ShowOf[id]] - sold[ShowOf[id]] >= TicketsOf[id]

Book(id) ==
  /\ id \notin bookings
  /\ HasSeats(id)
  /\ bookings' = bookings \cup {id}
  /\ sold' = [sold EXCEPT ![ShowOf[id]] = @ + TicketsOf[id]]
  /\ UNCHANGED shows

Next ==
  \/ \E s \in Shows : PutUp(s)
  \/ \E id \in Bookings : Book(id)

Spec == Init /\ [][Next]_<<shows, bookings, sold>>

=============================================================================
