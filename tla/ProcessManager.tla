--------------------------- MODULE ProcessManager ---------------------------
(***************************************************************************)
(* 21-sagas-and-process-managers/03-modeling-process-manager: the process  *)
(* manager of a VIP bundle over the in-memory repository of its tests,     *)
(* whose updates are atomic, and a command bus that is given new           *)
(* idempotency keys with every command.                                    *)
(*                                                                         *)
(* Handlers of different events run concurrently.  A handler updates the   *)
(* bundle and then sends from the copy that it got back: as nobody can     *)
(* tell when exactly a command was sent, both are one step; a rollback,    *)
(* which reads, sends and then updates, is two.  A handler that fails, or  *)
(* whose ack is lost, gets its event again and does everything again.      *)
(***************************************************************************)
EXTENDS Naturals, Sequences, SequencesExt, FiniteSets, Functions

CONSTANTS
  Tickets,   \* the tickets of the booking; there are NumberOfTickets of them
  MaxFaults  \* bound: commands that cannot be sent, acks that are lost

NumberOfTickets == Cardinality(Tickets)

VARIABLES
  vb,        \* the bundle; its flights are the numbers of the commands that booked them
  sent,      \* all commands, in the order they were sent
  pending,   \* the numbers of those that no service has handled
  published, \* the events
  inbox,     \* the events not acked
  rollingBack, \* the events whose rollback has sent its commands
  sagaFaults \* faults so far (bounds the model)

vars == <<vb, sent, pending, published, inbox, rollingBack, sagaFaults>>

Flights == {"inbound", "return"}
None == "none"

Command(name, of, booking) == [name |-> name, of |-> of, booking |-> booking]
Event(name, of, booking) == [name |-> name, of |-> of, booking |-> booking]
CommandNames == {"BookShowTickets", "BookFlight", "BookTaxi", "CancelFlightTickets",
                 "RefundTicket"}
EventNames == {"VipBundleInitialized", "BookingMade", "BookingFailed", "TicketBookingConfirmed",
               "FlightBooked", "FlightBookingFailed", "TaxiBooked", "TaxiBookingFailed",
               "VipBundleFinalized"}
Objects == Tickets \cup Flights \cup {None}

TypeOK ==
  /\ vb \in [made : BOOLEAN, tickets : Seq(Tickets), flights : [Flights -> Nat],
             taxi : BOOLEAN, finalized : BOOLEAN, failed : BOOLEAN]
  /\ \A i \in DOMAIN sent :
       sent[i].name \in CommandNames /\ sent[i].of \in Objects /\ sent[i].booking \in Nat
  /\ pending \subseteq DOMAIN sent
  /\ \A e \in published : e.name \in EventNames /\ e.of \in Objects /\ e.booking \in Nat
  /\ inbox \subseteq published
  /\ rollingBack \subseteq inbox
  /\ sagaFaults \in 0..MaxFaults

Fault == sagaFaults < MaxFaults /\ sagaFaults' = sagaFaults + 1

-----------------------------------------------------------------------------
(* The services (external) *)

Publish(events) ==
  /\ published' = published \cup events
  /\ inbox' = inbox \cup (events \ published)

\* What the service that gets the command may publish.  A show is booked once.
Outcomes(i) ==
  CASE sent[i].name = "BookShowTickets" ->
         IF \E e \in published : e.name \in {"BookingMade", "BookingFailed"} THEN {{}}
         ELSE {{Event("BookingFailed", None, 0)},
               {Event("BookingMade", None, 0)}
                 \cup {Event("TicketBookingConfirmed", t, 0) : t \in Tickets}}
    [] sent[i].name = "BookFlight" ->
         {{Event("FlightBooked", sent[i].of, i)}, {Event("FlightBookingFailed", sent[i].of, i)}}
    [] sent[i].name = "BookTaxi" ->
         {{Event("TaxiBooked", None, i)}, {Event("TaxiBookingFailed", None, i)}}
    [] OTHER -> {{}}

Serve(i) ==
  /\ i \in pending
  /\ pending' = pending \ {i}
  /\ \E events \in Outcomes(i) : Publish(events)
  /\ UNCHANGED <<vb, sent, rollingBack, sagaFaults>>

-----------------------------------------------------------------------------
(* The handlers *)

Send(commands) ==
  /\ sent' = sent \o commands
  /\ pending' = pending \cup ((Len(sent) + 1)..(Len(sent) + Len(commands)))

\* The handler has done everything: its event is acked, unless that is lost.
Ack(e) ==
  \/ inbox' = inbox \ {e} /\ UNCHANGED sagaFaults
  \/ Fault /\ UNCHANGED inbox

\* The bundle is updated, then the command is sent, or cannot be.
UpdateAndSend(e, bundle, commands) ==
  /\ vb' = bundle
  /\ \/ Send(commands) /\ Ack(e)
     \/ commands # <<>> /\ Fault /\ UNCHANGED <<sent, pending, inbox>>
  /\ UNCHANGED <<published, rollingBack>>

OnVipBundleInitialized(e) ==
  /\ e.name = "VipBundleInitialized"
  /\ UpdateAndSend(e, vb, <<Command("BookShowTickets", None, 0)>>)

OnBookingMade(e) ==
  /\ e.name = "BookingMade"
  /\ UpdateAndSend(e, [vb EXCEPT !.made = TRUE], <<Command("BookFlight", "inbound", 0)>>)

\* The loop that looks for a ticket that is stored already only continues itself.
OnTicketBookingConfirmed(e) ==
  /\ e.name = "TicketBookingConfirmed"
  /\ UpdateAndSend(e, [vb EXCEPT !.tickets = Append(@, e.of)], <<>>)

\* The command after a flight was booked; the inbound flight always was.
AfterFlight(bundle) ==
  IF bundle.flights["return"] = 0 THEN <<Command("BookFlight", "return", 0)>>
                                  ELSE <<Command("BookTaxi", None, 0)>>

OnFlightBooked(e) ==
  /\ e.name = "FlightBooked"
  /\ LET bundle == [vb EXCEPT !.flights[e.of] = e.booking] IN
       UpdateAndSend(e, bundle, AfterFlight(bundle))

\* VipBundleFinalized is published after the update, or cannot be.
OnTaxiBooked(e) ==
  /\ e.name = "TaxiBooked"
  /\ vb' = [vb EXCEPT !.taxi = TRUE, !.finalized = TRUE]
  /\ \/ /\ published' = published \cup {Event("VipBundleFinalized", None, 0)}
        /\ Ack(e)
     \/ Fault /\ UNCHANGED <<published, inbox>>
  /\ UNCHANGED <<sent, pending, rollingBack>>

Failures == {"BookingFailed", "FlightBookingFailed", "TaxiBookingFailed"}

Cancellations(bundle) ==
  LET Cancel(flight) ==
        IF bundle.flights[flight] = 0 THEN <<>>
        ELSE <<Command("CancelFlightTickets", flight, bundle.flights[flight])>>
  IN  Cancel("inbound") \o Cancel("return")

\* A refund of every ticket, if there are tickets, and the cancellations.
Compensations(bundle) ==
  (IF bundle.made
   THEN [i \in 1..Len(bundle.tickets) |-> Command("RefundTicket", bundle.tickets[i], 0)]
   ELSE <<>>) \o Cancellations(bundle)

\* Mutant: the number of tickets is not checked.
CanRollBack_Always == TRUE

\* Not all confirmations were handled: the handler fails, to be tried again.
CanRollBack == vb.made => Len(vb.tickets) = NumberOfTickets

RollbackSend(e) ==
  /\ e.name \in Failures
  /\ e \notin rollingBack
  /\ CanRollBack
  /\ \/ /\ Send(Compensations(vb))
        /\ rollingBack' = rollingBack \cup {e}
        /\ UNCHANGED sagaFaults
     \/ /\ Fault
        /\ \E n \in 0..Len(Compensations(vb)) : Send(SubSeq(Compensations(vb), 1, n))
        /\ UNCHANGED rollingBack
  /\ UNCHANGED <<vb, published, inbox>>

RollbackUpdate(e) ==
  /\ e \in rollingBack
  /\ vb' = [vb EXCEPT !.finalized = TRUE, !.failed = TRUE]
  /\ rollingBack' = rollingBack \ {e}
  /\ Ack(e)
  /\ UNCHANGED <<sent, pending, published>>

-----------------------------------------------------------------------------
\* NewVipBundle was added to the repository, and VipBundleInitialized published.
Init ==
  /\ vb = [made |-> FALSE, tickets |-> <<>>, flights |-> [f \in Flights |-> 0],
           taxi |-> FALSE, finalized |-> FALSE, failed |-> FALSE]
  /\ sent = <<>>
  /\ pending = {}
  /\ published = {Event("VipBundleInitialized", None, 0)}
  /\ inbox = published
  /\ rollingBack = {}
  /\ sagaFaults = 0

Handle(e) ==
  \/ OnVipBundleInitialized(e) \/ OnBookingMade(e) \/ OnTicketBookingConfirmed(e)
  \/ OnFlightBooked(e) \/ OnTaxiBooked(e)
  \/ RollbackSend(e) \/ RollbackUpdate(e)

Next ==
  \/ \E i \in pending : Serve(i)
  \/ \E e \in inbox : Handle(e)

Spec == Init /\ [][Next]_vars

\* Some command that waits is answered, or some event that can be handled is.
Fairness == WF_vars(Next)

-----------------------------------------------------------------------------
(* Properties *)

TimesSent(name, of, booking) ==
  Cardinality({i \in DOMAIN sent : sent[i] = Command(name, of, booking)})

\* Unless something was sent or delivered twice, a rollback that is complete has refunded
\* every ticket and cancelled every flight that was booked, each once, and leaves no taxi.
RollbackUndoesAll ==
  sagaFaults = 0 /\ vb.failed =>
    /\ \A e \in published :
         /\ e.name = "TicketBookingConfirmed" => TimesSent("RefundTicket", e.of, 0) = 1
         /\ e.name = "FlightBooked" => TimesSent("CancelFlightTickets", e.of, e.booking) = 1
         /\ e.name # "TaxiBooked"

\* Every bundle ends, booked or rolled back, unless something failed (a ticket that is
\* appended twice keeps a rollback from ever starting).
BundleEnds ==
  (\E e \in published : e.name = "VipBundleInitialized") ~> vb.finalized \/ sagaFaults > 0

=============================================================================
