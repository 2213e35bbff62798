----------------------------- MODULE MCTickets ------------------------------
(***************************************************************************)
(* A request that confirms a ticket and cancels it, and may be sent twice; *)
(* a request with a status that does not exist; and one refund.            *)
(***************************************************************************)
EXTENDS Tickets

CONSTANTS t1, r1, r2

Item(t, s) == [ticket |-> t, status |-> s]
ContentMC == [r \in {r1, r2} |->
               IF r = r1 THEN <<Item(t1, "confirmed"), Item(t1, "canceled")>>
               ELSE <<Item(t1, "other")>>]
RefundsMC == {[id |-> 1, ticket |-> t1]}
MaxAttemptsMC == [r \in {r1, r2} |-> IF r = r1 THEN 2 ELSE 1]
=============================================================================
