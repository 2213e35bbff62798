--------------------------- MODULE MCOpsReadModel ---------------------------
(* Instances of OpsReadModel: a booking of two tickets, the one whose confirmation
   is written back and the one that it concerns; two of the three kinds of event
   that follow a confirmation, whose handlers differ in nothing but the field
   they set. *)
EXTENDS OpsReadModel

CONSTANTS t1, t2

TwoTickets == {t1, t2}
TwoKinds   == {"receipt", "refunded"}
=============================================================================
