---------------------------- MODULE MCComponents ----------------------------
(***************************************************************************)
(* Instances of the small components for TLC.                              *)
(***************************************************************************)
EXTENDS Components

(* Two orders: one of a product of which there are two, and of another that is delivered
   later, placed by two requests, one of them with a negative quantity; one of both, of
   which the second is too few.  A command of the removed saga takes one more.         *)
Two(a, b) == [p \in {"p1", "p2"} |-> IF p = "p1" THEN a ELSE b]
MCOrderOf == [r \in {"r1", "r2", "r3"} |-> IF r = "r2" THEN "o2" ELSE "o1"]
MCQuantity == [r \in {"r1", "r2", "r3"} |->
                CASE r = "r1" -> Two(1, 1) [] r = "r2" -> Two(1, 2) [] r = "r3" -> Two(1, -1)]
MCInitialStock == [p \in {"p1"} |-> 2]
MCDeliveries == {[product |-> "p2", quantity |-> 1]}
MCCommandQuantity == [c \in {"c"} |-> [p \in {"p1"} |-> 1]]

Stored(k, t, v) == [kind |-> k, ticket |-> t, version |-> v]
MCLakeEvents ==
  {Stored("made", "-", "v0"), Stored("confirmed", "t1", "v0"), Stored("receipt", "t1", "v0"),
   Stored("confirmed", "t2", "v0"), Stored("printed", "t2", "v0"),
   Stored("refunded", "t1", "v1")}

MCAmountOf == [p \in {"payment1", "payment2"} |-> IF p = "payment1" THEN 1 ELSE 2]

MCTeamOf ==
  [p \in {"player1", "player2", "player3"} |-> IF p = "player3" THEN "blue" ELSE "red"]

MCMaxFaults ==
  [c \in Components |-> IF c \in {"invoices", "teams", "sensor"} THEN 2 ELSE 1]

=============================================================================
