----------------------------- MODULE VipBundle -----------------------------
(***************************************************************************)
(* One VIP bundle of the tickets service (project/): the process manager   *)
(* that books a show, an inbound flight, a return flight and a taxi, and   *)
(* compensates what it booked when a step fails, together with the command *)
(* handlers that carry out its steps.                                      *)
(*                                                                         *)
(* Every handler has a consumer group of its own, so it works on one       *)
(* message at a time, concurrently with all other handlers.  A message in  *)
(* a group leaves inbox[h] only when handler h acks it.  A command is sent *)
(* to its group; an event is published on the stream "events", from which  *)
(* the splitter copies it to the groups of its handlers.  The splitter has *)
(* no group: events published while it is not subscribed, and those it had *)
(* not copied when the service crashed, are lost.                          *)
(*                                                                         *)
(* The update of a bundle by VipBundleRepository.UpdateByID reads the row  *)
(* outside of the transaction that writes it, hence a step for the read    *)
(* and a step for the write.                                               *)
(*                                                                         *)
(* What the services answer is chosen among the outcomes Faults allows.    *)
(***************************************************************************)
EXTENDS Integers, Sequences, FiniteSets

CONSTANTS
  Tickets,         \* the tickets Dead Nation confirms for the booking
  Faults,          \* the faults the environment may produce
  MaxKeys,         \* bound: idempotency keys drawn for flights and taxis
  MaxRedeliveries, \* bound: crashes, handler errors and lost acks
  MaxRefunds       \* bound: RefundTicket commands per ticket

AllFaults ==
  { "show_full",          \* the show has not enough seats left, ever
    "commit_lost",        \* the commit of a booking may fail
    "flight_unavailable", \* the transport API may answer 409 to a flight
    "taxi_error" }        \* the call to book a taxi may return an error

ASSUME ConstantsAssumption ==
  /\ IsFiniteSet(Tickets)
  /\ Tickets # {}
  /\ Faults \subseteq AllFaults
  /\ MaxKeys \in Nat
  /\ MaxRedeliveries \in Nat
  /\ MaxRefunds \in Nat

NumberOfTickets == Cardinality(Tickets)

VARIABLES
  added,            \* progress of VipBundleRepository.Add
  bundle,           \* the payload of the row in vip_bundles
  inbox,            \* messages not acked yet, per handler
  unread,           \* those of them the splitter has still to copy, per topic
  listening,        \* the splitter is subscribed to the stream "events"
  lost,             \* an event was published that no handler will ever see
  proc,             \* what each handler of the process manager is doing
  nextKey,          \* idempotency keys drawn so far, plus one
  showBooked,       \* the row in bookings exists
  confirmed,        \* tickets Dead Nation has confirmed
  flightsBooked,    \* flights booked with the transport API, with their keys
  flightsCancelled, \* keys of the flight bookings the API was asked to delete
  taxisBooked,      \* keys of the taxis booked with the transport API
  refunds,          \* RefundTicket commands sent, per ticket
  finalizedEvents,  \* VipBundleFinalized_v1 was published
  redeliveries      \* failures so far (bounds the model)

saga     == <<added, bundle, proc>>
stream   == <<unread, listening, lost>>
booking  == <<showBooked, confirmed>>
transport == <<flightsBooked, flightsCancelled, taxisBooked>>
services == <<booking, transport>>
outputs  == <<refunds, finalizedEvents>>
vars     == <<saga, inbox, stream, nextKey, services, outputs, redeliveries>>

-----------------------------------------------------------------------------
(* Data *)

Keys    == 1..MaxKeys
NoKey   == 0          \* a nil BookedAt field and no ticket ids
Flights == {"inbound", "return"}

\* A flight's BookedAt and TicketsIDs are set together: one field holds the
\* key of the booking they came from.
Bundle ==
  [ bookingMade   : BOOLEAN,
    ticketIDs     : Seq(Tickets),
    inboundFlight : Keys \cup {NoKey},
    returnFlight  : Keys \cup {NoKey},
    taxi          : Keys \cup {NoKey},
    isFinalized   : BOOLEAN,
    failed        : BOOLEAN,
    passengers    : BOOLEAN ]  \* the list of passengers is not empty

NewVipBundle ==
  [ bookingMade   |-> FALSE,
    ticketIDs     |-> <<>>,
    inboundFlight |-> NoKey,
    returnFlight  |-> NoKey,
    taxi          |-> NoKey,
    isFinalized   |-> FALSE,
    failed        |-> FALSE,
    passengers    |-> TRUE ]

RollbackHandlers ==
  {"OnBookingFailed", "OnFlightBookingFailed", "OnTaxiBookingFailed"}
SagaHandlers ==
  RollbackHandlers \cup {"OnBookingMade", "OnFlightBooked", "OnTaxiBooked"}
Handlers ==
  SagaHandlers \cup
  { "OnVipBundleInitialized", "OnTicketBookingConfirmed", "DeadNation",
    "BookShowTickets", "BookFlight", "BookTaxi", "CancelFlightTickets" }

\* The handlers of events, and those whose events come out of the outbox.
EventHandlers ==
  SagaHandlers \cup {"OnVipBundleInitialized", "OnTicketBookingConfirmed", "DeadNation"}
OutboxHandlers == {"OnVipBundleInitialized", "OnBookingMade", "DeadNation"}

\* A topic bears the name of its handler in the process manager.  The handler
\* that tells Dead Nation of a booking reads BookingMade_v1, too.
Topics   == EventHandlers \ {"DeadNation"}
Topic(h) == IF h = "DeadNation" THEN "OnBookingMade" ELSE h

\* A message is what it is about and an idempotency key.  The remaining
\* commands of a rollback are messages too: tickets to refund, flight tickets
\* to cancel.
Message ==
  (Tickets \cup Flights \cup {"bundle", "taxi", "flight tickets"})
    \X (Keys \cup {NoKey})

Signal             == <<"bundle", NoKey>>
Ticket(t)          == <<t, NoKey>>
Flight(flight, k)  == <<flight, k>>
Taxi(k)            == <<"taxi", k>>
FlightTickets(k)   == <<"flight tickets", k>>

\* What a handler of the process manager remembers between its steps: its
\* message, its copy of the row, the commands it has still to send.
Process ==
  [ pc   : {"idle", "write", "send", "compensate"},
    msg  : Message,
    vb   : Bundle,
    todo : Seq(Message) ]

Idle == [pc |-> "idle", msg |-> Signal, vb |-> NewVipBundle, todo |-> <<>>]

TypeOK ==
  /\ added \in {"no", "inserted", "yes", "lost"}
  /\ bundle \in Bundle
  /\ inbox \in [Handlers -> SUBSET Message]
  /\ unread \in [Topics -> SUBSET Message]
  /\ listening \in BOOLEAN
  /\ lost \in BOOLEAN
  /\ proc \in [SagaHandlers -> Process]
  /\ nextKey \in 1..(MaxKeys + 1)
  /\ showBooked \in BOOLEAN
  /\ confirmed \subseteq Tickets
  /\ flightsBooked \subseteq Flights \X Keys
  /\ flightsCancelled \subseteq Keys
  /\ taxisBooked \subseteq Keys
  /\ refunds \in [Tickets -> 0..MaxRefunds]
  /\ finalizedEvents \in BOOLEAN
  /\ redeliveries \in 0..MaxRedeliveries

-----------------------------------------------------------------------------
(* Delivery *)

Deliver(box, h, m) == [box EXCEPT ![h] = @ \cup {m}]

\* What an event handler finds in its group.
Offered(h) == inbox[h] \ unread[Topic(h)]

\* Without a subscriber, what is published on the stream reaches nobody.  A
\* command goes to its group, and an event in the outbox waits there.
Heard(box) ==
  [h \in Handlers |-> IF ~listening /\ h \in EventHandlers \ OutboxHandlers
                      THEN box[h] \cap inbox[h] ELSE box[h]]

\* box is inbox with the messages of this step.  An event published twice before
\* it is acked is delivered once.
Send(box) ==
  /\ inbox' = Heard(box)
  /\ unread' = [topic \in Topics |->
                  unread[topic] \cup (inbox'[topic] \ inbox[topic])]
  /\ lost' = (lost \/ inbox' # box)
  /\ UNCHANGED listening

\* Handler h returned nil for m: the router acks m, unless the ack is lost and m
\* is delivered again.  box is inbox with the messages h sent.
Ack(h, m, box) ==
  \/ /\ Send([box EXCEPT ![h] = @ \ {m}])
     /\ UNCHANGED redeliveries
  \/ /\ redeliveries < MaxRedeliveries
     /\ redeliveries' = redeliveries + 1
     /\ Send(box)

\* A panic or an error of handler h: what it had read is gone, and its message
\* stays in the group to be delivered again.
HandlerFails(h) ==
  /\ proc[h].pc # "idle"
  /\ redeliveries < MaxRedeliveries
  /\ redeliveries' = redeliveries + 1
  /\ proc' = [proc EXCEPT ![h] = Idle]
  /\ UNCHANGED <<added, bundle, inbox, stream, nextKey, services, outputs>>

\* The splitter copies an event from the stream to the topic of its name.
Splitter(topic) ==
  /\ listening
  /\ \E m \in unread[topic] : unread' = [unread EXCEPT ![topic] = @ \ {m}]
  /\ UNCHANGED <<saga, inbox, listening, lost, nextKey, services, outputs,
                 redeliveries>>

\* The service is running again.
SplitterSubscribes ==
  /\ ~listening
  /\ listening' = TRUE
  /\ UNCHANGED <<saga, inbox, unread, lost, nextKey, services, outputs, redeliveries>>

\* What the splitter has not copied to these topics is gone.
Lose(topics) ==
  /\ inbox' = [h \in Handlers |->
                 IF h \in EventHandlers /\ Topic(h) \in topics THEN Offered(h)
                                                             ELSE inbox[h]]
  /\ unread' = [topic \in Topics |-> IF topic \in topics THEN {} ELSE unread[topic]]
  /\ lost' = (lost \/ inbox' # inbox)

\* The service dies in the middle of whatever its handlers and its requests are
\* doing.  The outbox, the groups and the row are kept.
Crash ==
  /\ redeliveries < MaxRedeliveries
  /\ redeliveries' = redeliveries + 1
  /\ listening' = FALSE
  /\ Lose(Topics \ OutboxHandlers)
  /\ proc' = [h \in SagaHandlers |-> Idle]
  /\ added' = IF added = "inserted" THEN "lost" ELSE added
  /\ UNCHANGED <<bundle, nextKey, services, outputs>>

\* The forwarder had published an event of the outbox before the crash, or is
\* subscribed again before the splitter is.
ForwardedUnheard(topic) ==
  /\ ~listening
  /\ topic \in OutboxHandlers /\ unread[topic] # {}
  /\ Lose({topic})
  /\ UNCHANGED <<saga, listening, nextKey, services, outputs, redeliveries>>

-----------------------------------------------------------------------------
(* Creating the bundle: POST /book-vip-bundle and VipBundleRepository.Add *)
(* The HTTP server runs only while all handlers are subscribed.            *)

\* The INSERT runs on the connection pool, outside of Add's transaction.
AddInsert ==
  /\ listening
  /\ added = "no"
  /\ added' = "inserted"
  /\ UNCHANGED <<bundle, proc, inbox, stream, nextKey, services, outputs, redeliveries>>

\* The transaction commits, and with it the event in the outbox.
AddCommit ==
  /\ added = "inserted"
  /\ added' = "yes"
  /\ Send(Deliver(inbox, "OnVipBundleInitialized", Signal))
  /\ UNCHANGED <<bundle, proc, nextKey, services, outputs, redeliveries>>

\* The transaction fails: a row without its event.
AddFails ==
  /\ added = "inserted"
  /\ redeliveries < MaxRedeliveries
  /\ redeliveries' = redeliveries + 1
  /\ added' = "lost"
  /\ UNCHANGED <<bundle, proc, inbox, stream, nextKey, services, outputs>>

-----------------------------------------------------------------------------
(* The process manager *)

OnVipBundleInitialized ==
  /\ Signal \in Offered("OnVipBundleInitialized")
  /\ Ack("OnVipBundleInitialized", Signal, Deliver(inbox, "BookShowTickets", Signal))
  /\ UNCHANGED <<saga, nextKey, services, outputs>>

\* UpdateByBookingID reads inside of its serializable transaction: one step.
OnBookingMade ==
  /\ proc["OnBookingMade"].pc = "idle"
  /\ Signal \in Offered("OnBookingMade")
  /\ bundle' = [bundle EXCEPT !.bookingMade = TRUE]
  /\ proc' = [proc EXCEPT !["OnBookingMade"] =
                [Idle EXCEPT !.pc = "send"]]
  /\ UNCHANGED <<added, inbox, stream, nextKey, services, outputs, redeliveries>>

OnBookingMadeSend ==
  /\ proc["OnBookingMade"].pc = "send"
  /\ nextKey <= MaxKeys
  /\ nextKey' = nextKey + 1
  /\ Ack("OnBookingMade", Signal,
         Deliver(inbox, "BookFlight", Flight("inbound", nextKey)))
  /\ proc' = [proc EXCEPT !["OnBookingMade"] = Idle]
  /\ UNCHANGED <<added, bundle, services, outputs>>

\* The loop over TicketIDs that should recognise a re-delivery does nothing.
OnTicketBookingConfirmed(t) ==
  /\ Ticket(t) \in Offered("OnTicketBookingConfirmed")
  /\ bundle' = [bundle EXCEPT !.ticketIDs = Append(@, t)]
  /\ Ack("OnTicketBookingConfirmed", Ticket(t), inbox)
  /\ UNCHANGED <<added, proc, nextKey, services, outputs>>

\* Mutant: every flight is taken for the inbound one.
RecordFlight_Inbound(vb, flight, key) == [vb EXCEPT !.inboundFlight = key]

\* The update function of OnFlightBooked.
RecordFlight(vb, flight, key) ==
  IF flight = "inbound" THEN [vb EXCEPT !.inboundFlight = key]
                        ELSE [vb EXCEPT !.returnFlight = key]

\* UpdateByID: reads the row and applies the update to what it read.
OnFlightBookedRead(flight, key) ==
  /\ proc["OnFlightBooked"].pc = "idle"
  /\ Flight(flight, key) \in Offered("OnFlightBooked")
  /\ proc' = [proc EXCEPT !["OnFlightBooked"] =
                [Idle EXCEPT !.pc = "write", !.msg = Flight(flight, key),
                             !.vb = RecordFlight(bundle, flight, key)]]
  /\ UNCHANGED <<added, bundle, inbox, stream, nextKey, services, outputs, redeliveries>>

\* Mutant: the command carries a key that was not drawn.
NextCommand_OtherKey(vb, key) == Deliver(inbox, "BookTaxi", Taxi(key + 1))

\* Mutant: the taxi is ordered as soon as the inbound flight is booked.
NextCommand_NoReturnCheck(vb, key) == Deliver(inbox, "BookTaxi", Taxi(key))

\* Both legs are booked: order the taxi. Only the inbound one: order the return.
NextCommand(vb, key) ==
  IF vb.returnFlight = NoKey THEN Deliver(inbox, "BookFlight", Flight("return", key))
                             ELSE Deliver(inbox, "BookTaxi", Taxi(key))

\* Without an inbound flight the handler fails with "unsupported state"; the name
\* for the taxi is that of the first passenger, and without one it panics.
HasNextCommand(vb) ==
  /\ vb.inboundFlight # NoKey
  /\ vb.returnFlight # NoKey => vb.passengers

OnFlightBookedSend ==
  LET me == proc["OnFlightBooked"] IN
  /\ me.pc = "send"
  /\ IF HasNextCommand(me.vb)
     THEN /\ nextKey <= MaxKeys
          /\ nextKey' = nextKey + 1
          /\ Ack("OnFlightBooked", me.msg, NextCommand(me.vb, nextKey))
     ELSE UNCHANGED <<nextKey, inbox, stream, redeliveries>>
  /\ proc' = [proc EXCEPT !["OnFlightBooked"] = Idle]
  /\ UNCHANGED <<added, bundle, services, outputs>>

\* Mutant: the bundle is not marked final.
RecordTaxi_NotFinal(vb, key) == [vb EXCEPT !.taxi = key]

\* The update function of OnTaxiBooked.
RecordTaxi(vb, key) == [vb EXCEPT !.taxi = key, !.isFinalized = TRUE]

OnTaxiBookedRead(key) ==
  /\ proc["OnTaxiBooked"].pc = "idle"
  /\ Taxi(key) \in Offered("OnTaxiBooked")
  /\ proc' = [proc EXCEPT !["OnTaxiBooked"] =
                [Idle EXCEPT !.pc = "write", !.msg = Taxi(key),
                             !.vb = RecordTaxi(bundle, key)]]
  /\ UNCHANGED <<added, bundle, inbox, stream, nextKey, services, outputs, redeliveries>>

OnTaxiBookedPublish ==
  /\ proc["OnTaxiBooked"].pc = "send"
  /\ finalizedEvents' = TRUE
  /\ Ack("OnTaxiBooked", proc["OnTaxiBooked"].msg, inbox)
  /\ proc' = [proc EXCEPT !["OnTaxiBooked"] = Idle]
  /\ UNCHANGED <<added, bundle, nextKey, services, refunds>>

\* UpdateByID overwrites the row with the copy the handler read.
UpdateByIDWrite(h) ==
  /\ h \in {"OnFlightBooked", "OnTaxiBooked"}
  /\ proc[h].pc = "write"
  /\ bundle' = proc[h].vb
  /\ proc' = [proc EXCEPT ![h].pc = "send"]
  /\ UNCHANGED <<added, inbox, stream, nextKey, services, outputs, redeliveries>>

-----------------------------------------------------------------------------
(* Rollback: OnBookingFailed, OnFlightBookingFailed, OnTaxiBookingFailed *)

Refunds(vb) ==
  [i \in 1..Len(vb.ticketIDs) |-> Ticket(vb.ticketIDs[i])]
Cancellation(key) == IF key = NoKey THEN <<>> ELSE <<FlightTickets(key)>>

\* Mutant: only the flight booked last is cancelled.
Compensations_LastFlight(vb) ==
  (IF vb.bookingMade THEN Refunds(vb) ELSE <<>>)
    \o Cancellation(IF vb.returnFlight = NoKey THEN vb.inboundFlight
                                               ELSE vb.returnFlight)

Compensations(vb) ==
  (IF vb.bookingMade THEN Refunds(vb) ELSE <<>>)
    \o Cancellation(vb.inboundFlight) \o Cancellation(vb.returnFlight)

\* Mutant: no length check.
CanRollBack_Always(vb) == TRUE

\* The rollback fails, to be tried again, while confirmations are missing.
CanRollBack(vb) == vb.bookingMade => Len(vb.ticketIDs) = NumberOfTickets

RollbackGet(h) ==
  /\ proc[h].pc = "idle"
  /\ Signal \in Offered(h)
  /\ CanRollBack(bundle)
  /\ proc' = [proc EXCEPT ![h] =
                [Idle EXCEPT !.pc = "compensate",
                             !.todo = Compensations(bundle)]]
  /\ UNCHANGED <<added, bundle, inbox, stream, nextKey, services, outputs, redeliveries>>

\* Every run of the rollback draws new idempotency keys for its refunds.
RollbackSend(h) ==
  /\ proc[h].pc = "compensate"
  /\ proc[h].todo # <<>>
  /\ \/ \E t \in Tickets :
          /\ Head(proc[h].todo) = Ticket(t)
          /\ refunds[t] < MaxRefunds
          /\ refunds' = [refunds EXCEPT ![t] = @ + 1]
          /\ UNCHANGED <<inbox, stream>>
     \/ \E key \in Keys :
          /\ Head(proc[h].todo) = FlightTickets(key)
          /\ Send(Deliver(inbox, "CancelFlightTickets", FlightTickets(key)))
          /\ UNCHANGED refunds
  /\ proc' = [proc EXCEPT ![h].todo = Tail(@)]
  /\ UNCHANGED <<added, bundle, nextKey, services, finalizedEvents, redeliveries>>

RollbackRead(h) ==
  /\ proc[h].pc = "compensate"
  /\ proc[h].todo = <<>>
  /\ proc' = [proc EXCEPT ![h].pc = "write",
                ![h].vb = [bundle EXCEPT !.isFinalized = TRUE, !.failed = TRUE]]
  /\ UNCHANGED <<added, bundle, inbox, stream, nextKey, services, outputs, redeliveries>>

RollbackWrite(h) ==
  /\ proc[h].pc = "write"
  /\ bundle' = proc[h].vb
  /\ Ack(h, Signal, inbox)
  /\ proc' = [proc EXCEPT ![h] = Idle]
  /\ UNCHANGED <<added, nextKey, services, outputs>>

-----------------------------------------------------------------------------
(* The command handlers and the services they call *)

\* BookingRepository.Create commits the booking and, in the outbox,
\* BookingMade_v1.  When the show is full or the booking exists already (a
\* re-delivery), Create returns an error the handler does not recognise, and
\* the command is tried again: no step.
BookShowTickets ==
  /\ Signal \in inbox["BookShowTickets"]
  /\ ~showBooked
  /\ "show_full" \notin Faults
  /\ showBooked' = TRUE
  /\ Ack("BookShowTickets", Signal,
         Deliver(Deliver(inbox, "OnBookingMade", Signal), "DeadNation", Signal))
  /\ UNCHANGED <<saga, nextKey, confirmed, transport, outputs>>

\* Create drops the error of its deferred Commit: the command is acked.
BookShowTicketsCommitLost ==
  /\ "commit_lost" \in Faults
  /\ Signal \in inbox["BookShowTickets"]
  /\ ~showBooked
  /\ "show_full" \notin Faults
  /\ Send([inbox EXCEPT !["BookShowTickets"] = @ \ {Signal}])
  /\ UNCHANGED <<saga, nextKey, services, outputs, redeliveries>>

\* Dead Nation, told of the booking by the handler of BookingMade_v1, confirms
\* each of its tickets once: POST /tickets-status.
DeadNationConfirms(t) ==
  /\ Signal \in Offered("DeadNation")
  /\ listening
  /\ t \notin confirmed
  /\ confirmed' = confirmed \cup {t}
  /\ Send(Deliver(inbox, "OnTicketBookingConfirmed", Ticket(t)))
  /\ UNCHANGED <<saga, nextKey, showBooked, transport, outputs, redeliveries>>

\* Mutant: the event is published before the flight is booked.
BookFlight_PublishFirst(flight, key) ==
  /\ Flight(flight, key) \in inbox["BookFlight"]
  /\ \/ /\ flightsBooked' = flightsBooked \cup {<<flight, key>>}
        /\ Ack("BookFlight", Flight(flight, key),
               Deliver(inbox, "OnFlightBooked", Flight(flight, key)))
     \/ /\ redeliveries < MaxRedeliveries
        /\ redeliveries' = redeliveries + 1
        /\ Send(Deliver(inbox, "OnFlightBooked", Flight(flight, key)))
        /\ UNCHANGED flightsBooked
  /\ UNCHANGED <<saga, nextKey, booking, flightsCancelled, taxisBooked, outputs>>

\* The transport API is idempotent per key.  The handler may die after its
\* call and before its event is published.
BookFlight(flight, key) ==
  /\ Flight(flight, key) \in inbox["BookFlight"]
  /\ flightsBooked' = flightsBooked \cup {<<flight, key>>}
  /\ \/ Ack("BookFlight", Flight(flight, key),
            Deliver(inbox, "OnFlightBooked", Flight(flight, key)))
     \/ /\ redeliveries < MaxRedeliveries
        /\ redeliveries' = redeliveries + 1
        /\ UNCHANGED <<inbox, stream>>
  /\ UNCHANGED <<saga, nextKey, booking, flightsCancelled, taxisBooked, outputs>>

\* 409 from the transport API: publish FlightBookingFailed_v1 and ack.
BookFlightUnavailable(flight, key) ==
  /\ "flight_unavailable" \in Faults
  /\ Flight(flight, key) \in inbox["BookFlight"]
  /\ <<flight, key>> \notin flightsBooked
  /\ Ack("BookFlight", Flight(flight, key),
         Deliver(inbox, "OnFlightBookingFailed", Signal))
  /\ UNCHANGED <<saga, nextKey, services, outputs>>

\* Here, too, the handler may die between its call and its event.
BookTaxi(key) ==
  /\ Taxi(key) \in inbox["BookTaxi"]
  /\ taxisBooked' = taxisBooked \cup {key}
  /\ \/ Ack("BookTaxi", Taxi(key), Deliver(inbox, "OnTaxiBooked", Taxi(key)))
     \/ /\ redeliveries < MaxRedeliveries
        /\ redeliveries' = redeliveries + 1
        /\ UNCHANGED <<inbox, stream>>
  /\ UNCHANGED <<saga, nextKey, booking, flightsBooked, flightsCancelled, outputs>>

\* Any error of the call (the taxi may be booked all the same): publish
\* TaxiBookingFailed_v1 AND return the error, so that the command is retried.
BookTaxiError(key) ==
  /\ "taxi_error" \in Faults
  /\ Taxi(key) \in inbox["BookTaxi"]
  /\ taxisBooked' \in {taxisBooked, taxisBooked \cup {key}}
  /\ Send(Deliver(inbox, "OnTaxiBookingFailed", Signal))
  /\ UNCHANGED <<saga, nextKey, booking, flightsBooked, flightsCancelled, outputs,
                 redeliveries>>

\* Whatever the API answers, the tickets count as deleted.
CancelFlightTickets(key) ==
  /\ FlightTickets(key) \in inbox["CancelFlightTickets"]
  /\ flightsCancelled' = flightsCancelled \cup {key}
  /\ Ack("CancelFlightTickets", FlightTickets(key), inbox)
  /\ UNCHANGED <<saga, nextKey, booking, flightsBooked, taxisBooked, outputs>>

-----------------------------------------------------------------------------
Init ==
  /\ added = "no"
  /\ \E passengers \in BOOLEAN :
       bundle = [NewVipBundle EXCEPT !.passengers = passengers]
  /\ inbox = [h \in Handlers |-> {}]
  /\ unread = [topic \in Topics |-> {}]
  /\ listening = TRUE
  /\ lost = FALSE
  /\ proc = [h \in SagaHandlers |-> Idle]
  /\ nextKey = 1
  /\ showBooked = FALSE
  /\ confirmed = {}
  /\ flightsBooked = {}
  /\ flightsCancelled = {}
  /\ taxisBooked = {}
  /\ refunds = [t \in Tickets |-> 0]
  /\ finalizedEvents = FALSE
  /\ redeliveries = 0

Add == AddInsert \/ AddCommit \/ AddFails

OnFlightBooked ==
  \/ \E flight \in Flights, key \in Keys : OnFlightBookedRead(flight, key)
  \/ UpdateByIDWrite("OnFlightBooked")
  \/ OnFlightBookedSend

OnTaxiBooked ==
  \/ \E key \in Keys : OnTaxiBookedRead(key)
  \/ UpdateByIDWrite("OnTaxiBooked")
  \/ OnTaxiBookedPublish

Rollback(h) ==
  RollbackGet(h) \/ RollbackSend(h) \/ RollbackRead(h) \/ RollbackWrite(h)

FlightCommand ==
  \E flight \in Flights, key \in Keys :
    BookFlight(flight, key) \/ BookFlightUnavailable(flight, key)

TaxiCommand == \E key \in Keys : BookTaxi(key) \/ BookTaxiError(key)

StreamMoves ==
  \/ \E topic \in Topics : Splitter(topic) \/ ForwardedUnheard(topic)
  \/ Crash \/ SplitterSubscribes

Next ==
  \/ Add
  \/ OnVipBundleInitialized
  \/ OnBookingMade \/ OnBookingMadeSend
  \/ \E t \in Tickets : OnTicketBookingConfirmed(t) \/ DeadNationConfirms(t)
  \/ OnFlightBooked
  \/ OnTaxiBooked
  \/ \E h \in RollbackHandlers : Rollback(h)
  \/ \E h \in SagaHandlers : HandlerFails(h)
  \/ StreamMoves
  \/ BookShowTickets \/ BookShowTicketsCommitLost
  \/ FlightCommand
  \/ TaxiCommand
  \/ \E key \in Keys : CancelFlightTickets(key)

Spec == Init /\ [][Next]_vars

(* Every handler, and the splitter, runs in a goroutine of the router and takes
   the next message as soon as it is idle; a message in a group is offered again
   until it is acked.  After a crash the service is started again.  Nothing
   forces a fault.                                                          *)
Fairness ==
  /\ WF_vars(AddCommit)
  /\ WF_vars(SplitterSubscribes)
  /\ \A topic \in Topics : WF_vars(Splitter(topic))
  /\ WF_vars(OnVipBundleInitialized)
  /\ WF_vars(OnBookingMade)
  /\ WF_vars(OnBookingMadeSend)
  /\ WF_vars(OnFlightBooked)
  /\ WF_vars(OnTaxiBooked)
  /\ WF_vars(BookShowTickets)
  /\ \A t \in Tickets :
       WF_vars(OnTicketBookingConfirmed(t)) /\ WF_vars(DeadNationConfirms(t))
  /\ \A h \in RollbackHandlers : WF_vars(Rollback(h))
  /\ WF_vars(FlightCommand)
  /\ WF_vars(TaxiCommand)
  /\ \A key \in Keys : WF_vars(CancelFlightTickets(key))

FairSpec == Spec /\ Fairness

-----------------------------------------------------------------------------
(* Properties *)

Booked(flight) == \E key \in Keys : Flight(flight, key) \in flightsBooked

\* A command or event of the process is on its way.
FlightRequested(flight) ==
  \E key \in Keys : Flight(flight, key) \in flightsBooked \cup inbox["BookFlight"]
CancelRequested(key) ==
  key \in flightsCancelled \/ FlightTickets(key) \in inbox["CancelFlightTickets"]
TaxiRequested == taxisBooked # {} \/ inbox["BookTaxi"] # {}

\* The saga takes no step before the one it builds on has really happened at
\* its service, whatever is lost, repeated or overwritten on the way: no flight
\* before the show, no return flight before the inbound one, and no taxi (the
\* switch of OnFlightBooked) before both flights.
SagaOrder ==
  /\ \A flight \in Flights : FlightRequested(flight) => showBooked
  /\ FlightRequested("return") => Booked("inbound")
  /\ TaxiRequested => Booked("inbound") /\ Booked("return")

\* What a copy of the row claims to be booked was booked.
RealBookings(vb) ==
  /\ vb.inboundFlight # NoKey => Flight("inbound", vb.inboundFlight) \in flightsBooked
  /\ vb.returnFlight # NoKey => Flight("return", vb.returnFlight) \in flightsBooked
  /\ vb.taxi # NoKey => taxisBooked # {}

\* The inductive invariant behind SagaOrder: no message, no copy of the row held
\* by a handler and no row overwritten by such a copy ever claims a booking that
\* was not made at its service.
SagaInv ==
  /\ inbox["OnFlightBooked"] \subseteq flightsBooked
  /\ inbox["OnTaxiBooked"] # {} => taxisBooked # {}
  /\ inbox["OnBookingMade"] # {} => showBooked
  /\ RealBookings(bundle)
  /\ \A h \in SagaHandlers : RealBookings(proc[h].vb)
  /\ proc["OnBookingMade"].pc # "idle" => showBooked
  /\ proc["OnTaxiBooked"].pc # "idle" => taxisBooked # {}
  /\ finalizedEvents => taxisBooked # {}
  /\ SagaOrder

\* VipBundleFinalized_v1 is published, and the row says that a taxi is booked,
\* only when every part of the bundle was booked at its service.
FinalizedMeansBooked ==
  finalizedEvents \/ bundle.taxi # NoKey =>
    /\ showBooked
    /\ Booked("inbound") /\ Booked("return")
    /\ taxisBooked # {}

\* The rollback undoes only what was done: it cancels flight tickets of bookings
\* that were made (the ids travel from the transport API through FlightBooked_v1,
\* the row and the rollback's copy of it back to the API), and it refunds tickets
\* that were confirmed.
CompensatesOnlyWhatHappened ==
  /\ \A key \in Keys : CancelRequested(key) =>
       \E flight \in Flights : Flight(flight, key) \in flightsBooked
  /\ \A t \in Tickets : refunds[t] > 0 => t \in confirmed

\* While nothing is redelivered: once a bundle is marked failed, the rollback
\* has asked to cancel every flight ever booked for it and refunded every one
\* of its tickets.
RollbackComplete ==
  redeliveries = 0 /\ bundle.failed =>
    /\ \A flight \in Flights, key \in Keys :
         Flight(flight, key) \in flightsBooked => CancelRequested(key)
    /\ \A t \in Tickets : refunds[t] > 0

\* While nothing is redelivered: the rollback refunds no ticket before Dead
\* Nation has confirmed all of them (the length check of rollbackTickets).
RefundsAwaitConfirmations ==
  redeliveries = 0 /\ (\E t \in Tickets : refunds[t] > 0) =>
    confirmed = Tickets /\ inbox["OnTicketBookingConfirmed"] = {}

\* While nothing is redelivered: a bundle that is final stays final, although
\* UpdateByID may write back a copy that is out of date.
FinalizedIsStable ==
  [][redeliveries' = 0 /\ bundle.isFinalized => bundle'.isFinalized]_<<bundle, redeliveries>>

\* With this bundle alone in the system and no service failing, a bundle whose
\* creation was committed is completed: errors and panics of handlers, lost acks
\* and crashes of the service delay VipBundleFinalized_v1 but cannot stop it.
\* Two things do, and are the only ones: an event that is lost on the stream
\* "events" around a crash, and a bundle without passengers, which POST
\* /book-vip-bundle accepts and OnFlightBooked panics on.
BundleCompletes == added = "yes" /\ bundle.passengers ~> finalizedEvents \/ lost

-----------------------------------------------------------------------------
(* Statements of the repository's tests and comments that the code refutes *)

\* Once every TicketBookingConfirmed_v1 was handled, the row lists the tickets
\* ("require.Len(t, vbFromRepo.TicketIDs, 3)").  A stale write of UpdateByID
\* drops a ticket that was recorded after its read.
ConfirmedTicketsRecorded ==
  confirmed = Tickets /\ inbox["OnTicketBookingConfirmed"] = {} =>
    Len(bundle.ticketIDs) >= NumberOfTickets

\* A failed taxi booking sends one RefundTicket per ticket ("require.Len(t,
\* commands, 5)").  Every retry of BookTaxi fails the bundle once more.
OneRefundPerTicket == \A t \in Tickets : refunds[t] <= 1

\* A bundle whose show cannot be booked becomes final and failed ("assert.True(
\* t, vbFromRepo.Failed)").  BookingFailed_v1 is never published.
FullShowFailsBundle == added = "yes" ~> bundle.failed

=============================================================================
