----------------------------- MODULE MCBookings -----------------------------
(***************************************************************************)
(* Instances of Bookings: a theatre that the bookings fill to the last     *)
(* seat and beyond, and a club they share the bookings table with.         *)
(***************************************************************************)
EXTENDS Bookings

CONSTANTS theatre, club, h1, h2, h3, v1, v2

TwoShows   == {theatre, club}
ThreeHttp  == {h1, h2, h3}
TwoVip     == {v1, v2}

\* h3 and v2 compete in the club, the others in the theatre.
BookedShow(ids)  == [id \in ids |-> IF id \in {h3, v2} THEN club ELSE theatre]
TicketCount(ids) == [id \in ids |-> IF id \in {h1, v2} THEN 2 ELSE 1]
SeatCount        == [s \in TwoShows |-> IF s = theatre THEN 3 ELSE 2]

ShowOfAll    == BookedShow(ThreeHttp \cup TwoVip)
TicketsOfAll == TicketCount(ThreeHttp \cup TwoVip)

=============================================================================
