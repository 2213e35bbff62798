-------------------------- MODULE MCEventPipeline ---------------------------
(***************************************************************************)
(* An instance of EventPipeline with four events: the BookingMade_v1 of a  *)
(* VIP bundle and of a plain booking (from the outbox), a                  *)
(* TicketBookingConfirmed_v1 (from POST /tickets-status), and the          *)
(* TicketReceiptIssued_v1 that the handler of it publishes.                *)
(***************************************************************************)
EXTENDS EventPipeline

CONSTANTS vip, plain, ticket, receipt

OutboxEventsMC == {vip, plain}
DirectEventsMC == {ticket}
FollowUpsMC    == {receipt}
HandlersMC     == {"OnBookingMade", "IssueReceipt"}
SubscribesMC   == [h \in HandlersMC |->
                    IF h = "OnBookingMade" THEN {vip, plain} ELSE {ticket}]
EmitsMC        == [h \in HandlersMC |->
                    [e \in OutboxEventsMC \cup DirectEventsMC \cup FollowUpsMC |->
                      IF h = "IssueReceipt" /\ e = ticket THEN <<receipt>> ELSE <<>>]]
FailsMC        == {<<"OnBookingMade", plain>>}
=============================================================================
