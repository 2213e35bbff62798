-------------------------- MODULE VipBundle_proofs --------------------------
(***************************************************************************)
(* For every number of tickets, every set of faults and every number of    *)
(* crashes, redeliveries and idempotency keys: the types of VipBundle, the *)
(* order of the saga's steps, what a finalized bundle means and what a     *)
(* rollback compensates.  Last, the bundles whose messages are all handled *)
(* once: what a failed bundle has undone, and that a final one stays so.   *)
(***************************************************************************)
EXTENDS VipBundle, SequenceTheorems, FiniteSetTheorems, FunctionTheorems, TLAPS

Inboxes == [Handlers -> SUBSET Message]

StreamType ==
  /\ unread \in [Topics -> SUBSET Message]
  /\ listening \in BOOLEAN
  /\ lost \in BOOLEAN

\* What a group offers is what is in it and was copied by the splitter.
USE DEF Offered

-----------------------------------------------------------------------------
(* Types *)

\* The messages the handlers build are messages.
LEMMA MessageTypes ==
  /\ Signal \in Message
  /\ \A t \in Tickets : Ticket(t) \in Message
  /\ \A flight \in Flights, key \in Keys : Flight(flight, key) \in Message
  /\ \A key \in Keys : Taxi(key) \in Message /\ FlightTickets(key) \in Message
BY DEF Message, Signal, Ticket, Flight, Taxi, FlightTickets, NoKey, Flights

\* Sending a message keeps the inboxes inboxes.
LEMMA DeliverType ==
  ASSUME NEW box \in Inboxes, NEW h \in Handlers, NEW m \in Message
  PROVE  Deliver(box, h, m) \in Inboxes
BY DEF Deliver, Inboxes

\* Topics are named after handlers.
LEMMA TopicsAreHandlers == Topics \subseteq Handlers
BY DEF Topics, EventHandlers, Handlers

\* So does what is heard of them, and the stream holds messages.
LEMMA SendType ==
  ASSUME inbox \in Inboxes, StreamType, NEW box \in Inboxes, Send(box)
  PROVE  inbox' \in Inboxes /\ StreamType'
<1>1. Heard(box) \in Inboxes
  BY DEF Heard, Inboxes
<1> QED
  BY <1>1, TopicsAreHandlers DEF Send, StreamType, Inboxes

\* Of what is sent, nothing is heard twice, and all of it while the splitter listens.
LEMMA SendContents ==
  ASSUME NEW box \in Inboxes, Send(box)
  PROVE  /\ \A h \in Handlers : inbox'[h] \subseteq box[h]
         /\ listening => inbox' = box
<1>1. \A h \in Handlers : inbox'[h] \subseteq box[h]
  BY DEF Send, Heard, Inboxes
<1>2. ASSUME listening PROVE inbox' = box
  <2>1. Heard(box) = [h \in Handlers |-> box[h]]
    BY <1>2 DEF Heard
  <2> QED
    BY <2>1 DEF Send, Inboxes
<1> QED
  BY <1>1, <1>2

\* So does an ack, whether it gets through or is lost.
LEMMA AckType ==
  ASSUME inbox \in Inboxes, StreamType, redeliveries \in 0..MaxRedeliveries,
         NEW box \in Inboxes, NEW h \in Handlers, NEW m, Ack(h, m, box)
  PROVE  /\ inbox' \in Inboxes
         /\ redeliveries' \in 0..MaxRedeliveries
         /\ StreamType'
<1>1. [box EXCEPT ![h] = @ \ {m}] \in Inboxes
  BY DEF Inboxes
<1>2. redeliveries' \in 0..MaxRedeliveries
  BY ConstantsAssumption DEF Ack
<1> QED
  BY <1>1, <1>2, SendType DEF Ack

\* Losing what the splitter has not copied keeps the inboxes inboxes.
LEMMA LoseType ==
  ASSUME inbox \in Inboxes, StreamType, NEW topics, Lose(topics),
         listening' \in BOOLEAN
  PROVE  inbox' \in Inboxes /\ StreamType'
BY DEF Lose, StreamType, Inboxes

\* When the stream moves, neither the row nor the services do, nothing is sent, and
\* the handlers go on or forget what they were doing.
LEMMA StreamStep ==
  ASSUME TypeOK, StreamMoves
  PROVE  /\ UNCHANGED <<bundle, nextKey, services, outputs>>
         /\ inbox' \in Inboxes /\ StreamType'
         /\ \A h \in Handlers : inbox'[h] \subseteq inbox[h]
         /\ proc' = proc \/ proc' = [h \in SagaHandlers |-> Idle]
         /\ added' \in {"no", "inserted", "yes", "lost"}
         /\ added = "yes" => added' = "yes"
         /\ redeliveries' \in 0..MaxRedeliveries
         /\ redeliveries' = redeliveries \/ redeliveries' = redeliveries + 1
<1>h. inbox \in Inboxes /\ StreamType
  BY DEF TypeOK, Inboxes, StreamType
<1>1. ASSUME NEW topics, Lose(topics)
      PROVE  \A h \in Handlers : inbox'[h] \subseteq inbox[h]
  BY <1>1 DEF Lose
<1>2. ASSUME NEW topic \in Topics, Splitter(topic) PROVE StreamType' /\ inbox' = inbox
  BY <1>2, <1>h DEF Splitter, StreamType
<1>3. ASSUME NEW topic \in Topics, ForwardedUnheard(topic)
      PROVE  Lose({topic}) /\ listening' \in BOOLEAN
  BY <1>3, <1>h DEF ForwardedUnheard, StreamType
<1>4. ASSUME Crash PROVE Lose(Topics \ OutboxHandlers) /\ listening' \in BOOLEAN
  BY <1>4 DEF Crash
<1>5. ASSUME SplitterSubscribes PROVE StreamType' /\ inbox' = inbox
  BY <1>5, <1>h DEF SplitterSubscribes, StreamType
<1>6. /\ inbox' \in Inboxes /\ StreamType'
      /\ \A h \in Handlers : inbox'[h] \subseteq inbox[h]
  BY <1>h, <1>1, <1>2, <1>3, <1>4, <1>5, LoseType DEF StreamMoves
<1>7. /\ UNCHANGED <<bundle, nextKey, services, outputs>>
      /\ proc' = proc \/ proc' = [h \in SagaHandlers |-> Idle]
      /\ added' \in {"no", "inserted", "yes", "lost"}
      /\ added = "yes" => added' = "yes"
  BY DEF StreamMoves, Splitter, ForwardedUnheard, Crash, SplitterSubscribes, saga, TypeOK
<1>8. \/ redeliveries' = redeliveries
      \/ redeliveries < MaxRedeliveries /\ redeliveries' = redeliveries + 1
  BY DEF StreamMoves, Splitter, ForwardedUnheard, Crash, SplitterSubscribes
<1>9. redeliveries' \in 0..MaxRedeliveries
  BY <1>8, ConstantsAssumption DEF TypeOK
<1> QED
  BY <1>6, <1>7, <1>8, <1>9

\* The command whose commit is lost is gone, and nothing else.
LEMMA CommitLostStep ==
  ASSUME inbox \in Inboxes, BookShowTicketsCommitLost
  PROVE  /\ \A h \in Handlers : inbox'[h] \subseteq inbox[h]
         /\ listening => \A h \in Handlers \ {"BookShowTickets"} : inbox'[h] = inbox[h]
<1> DEFINE box == [inbox EXCEPT !["BookShowTickets"] = @ \ {Signal}]
<1>1. box \in Inboxes
  BY DEF Inboxes
<1>2. Send(box)
  BY DEF BookShowTicketsCommitLost
<1>3. /\ \A h \in Handlers : box[h] \subseteq inbox[h]
      /\ \A h \in Handlers \ {"BookShowTickets"} : box[h] = inbox[h]
  BY DEF Inboxes
<1> HIDE DEF box
<1> QED
  BY <1>1, <1>2, <1>3, SendContents

\* A new bundle is a bundle, and an idle handler holds well-typed values.
LEMMA IdleType == NewVipBundle \in Bundle /\ Idle \in Process
<1>1. NewVipBundle \in Bundle
  BY DEF NewVipBundle, Bundle, NoKey
<1> QED
  BY <1>1, MessageTypes DEF Idle, Process

\* The commands of a rollback are messages.
LEMMA CompensationsType ==
  ASSUME NEW vb \in Bundle
  PROVE  Compensations(vb) \in Seq(Message)
<1>1. Refunds(vb) \in Seq(Message)
  BY MessageTypes DEF Refunds, Bundle
<1>2. \A key \in Keys \cup {NoKey} : Cancellation(key) \in Seq(Message)
  BY MessageTypes DEF Cancellation
<1>3. /\ vb.inboundFlight \in Keys \cup {NoKey}
      /\ vb.returnFlight \in Keys \cup {NoKey}
  BY DEF Bundle
<1>4. <<>> \in Seq(Message)
  OBVIOUS
<1> QED
  BY <1>1, <1>2, <1>3, <1>4 DEF Compensations

\* Writing back the copy a handler holds.
LEMMA UpdateByIDType ==
  ASSUME TypeOK, NEW h, UpdateByIDWrite(h)
  PROVE  bundle' \in Bundle /\ proc' \in [SagaHandlers -> Process]
<1>1. h \in SagaHandlers
  BY DEF UpdateByIDWrite, SagaHandlers
<1>2. proc[h] \in Process
  BY <1>1 DEF TypeOK
<1>3. bundle' \in Bundle
  BY <1>2 DEF UpdateByIDWrite, Process
<1>4. [proc[h] EXCEPT !.pc = "send"] \in Process
  BY <1>2 DEF Process
<1>5. proc' = [proc EXCEPT ![h] = [proc[h] EXCEPT !.pc = "send"]]
  BY DEF UpdateByIDWrite
<1> QED
  BY <1>1, <1>3, <1>4, <1>5 DEF TypeOK

\* Every action keeps every variable within its type.
LEMMA TypeStep == TypeOK /\ [Next]_vars => TypeOK'
<1> SUFFICES ASSUME TypeOK, [Next]_vars
             PROVE  TypeOK'
  OBVIOUS
<1> USE ConstantsAssumption DEF TypeOK, stream
<1>h. inbox \in Inboxes /\ StreamType
  BY DEF Inboxes, StreamType, StreamType
<1>1. ASSUME Add PROVE TypeOK'
  <2>1. CASE AddInsert
    BY <2>1 DEF AddInsert, services, booking, transport, outputs
  <2>2. CASE AddCommit
    <3>1. Deliver(inbox, "OnVipBundleInitialized", Signal) \in Inboxes
      BY <1>h, MessageTypes, DeliverType DEF Handlers
    <3> QED
      BY <1>h, <2>2, <3>1, SendType
      DEF AddCommit, Inboxes, StreamType, services, booking, transport, outputs
  <2>3. CASE AddFails
    BY <2>3 DEF AddFails, services, booking, transport, outputs
  <2> QED
    BY <1>1, <2>1, <2>2, <2>3 DEF Add
<1>2. ASSUME OnVipBundleInitialized PROVE TypeOK'
  <2>1. Deliver(inbox, "BookShowTickets", Signal) \in Inboxes
    BY <1>h, MessageTypes, DeliverType DEF Handlers
  <2>2. inbox' \in Inboxes /\ redeliveries' \in 0..MaxRedeliveries /\ StreamType'
    BY <1>h, <1>2, <2>1, AckType DEF OnVipBundleInitialized, Handlers
  <2> QED
    BY <1>2, <2>2
    DEF OnVipBundleInitialized, Inboxes, StreamType, saga, services, booking,
                      transport, outputs
<1>3. ASSUME OnBookingMade PROVE TypeOK'
  BY <1>3, IdleType DEF OnBookingMade, Bundle, Process, SagaHandlers, services,
                        booking, transport, outputs
<1>4. ASSUME OnBookingMadeSend PROVE TypeOK'
  <2>1. nextKey \in Keys
    BY <1>4 DEF OnBookingMadeSend, Keys
  <2>2. Deliver(inbox, "BookFlight", Flight("inbound", nextKey)) \in Inboxes
    BY <1>h, <2>1, MessageTypes, DeliverType DEF Handlers, Flights
  <2>3. inbox' \in Inboxes /\ redeliveries' \in 0..MaxRedeliveries /\ StreamType'
    BY <1>h, <1>4, <2>2, AckType DEF OnBookingMadeSend, Handlers, SagaHandlers
  <2>4. nextKey' \in 1..(MaxKeys + 1)
    BY <1>4 DEF OnBookingMadeSend
  <2>5. proc' \in [SagaHandlers -> Process]
    BY <1>4, IdleType DEF OnBookingMadeSend
  <2> QED
    BY <1>4, <2>3, <2>4, <2>5
    DEF OnBookingMadeSend, Inboxes, StreamType, services, booking,
                                transport, outputs
<1>5. ASSUME NEW t \in Tickets, OnTicketBookingConfirmed(t) PROVE TypeOK'
  <2>1. inbox' \in Inboxes /\ redeliveries' \in 0..MaxRedeliveries /\ StreamType'
    BY <1>5, <1>h, AckType DEF OnTicketBookingConfirmed, Handlers
  <2>2. bundle' \in Bundle
    <3>1. Append(bundle.ticketIDs, t) \in Seq(Tickets)
      BY DEF Bundle
    <3> QED
      BY <1>5, <3>1 DEF OnTicketBookingConfirmed, Bundle
  <2> QED
    BY <1>5, <2>1, <2>2
    DEF OnTicketBookingConfirmed, Inboxes, StreamType, services, booking,
                            transport, outputs
<1>6. ASSUME NEW t \in Tickets, DeadNationConfirms(t) PROVE TypeOK'
  <2>1. Deliver(inbox, "OnTicketBookingConfirmed", Ticket(t)) \in Inboxes
    BY <1>h, MessageTypes, DeliverType DEF Handlers
  <2> QED
    BY <1>h, <1>6, <2>1, SendType
    DEF DeadNationConfirms, Inboxes, StreamType, saga, transport, outputs
<1>7. ASSUME OnFlightBooked PROVE TypeOK'
  <2>1. ASSUME NEW flight \in Flights, NEW key \in Keys,
               OnFlightBookedRead(flight, key)
        PROVE  TypeOK'
    <3>1. RecordFlight(bundle, flight, key) \in Bundle
      BY DEF RecordFlight, Bundle
    <3>2. [Idle EXCEPT !.pc = "write", !.msg = Flight(flight, key),
                       !.vb = RecordFlight(bundle, flight, key)] \in Process
      BY <3>1, IdleType, MessageTypes DEF Process
    <3> QED
      BY <2>1, <3>2 DEF OnFlightBookedRead, services, booking, transport, outputs
  <2>2. CASE UpdateByIDWrite("OnFlightBooked")
    BY <2>2, UpdateByIDType DEF UpdateByIDWrite, services, booking, transport,
                                outputs
  <2>3. CASE OnFlightBookedSend
    <3> DEFINE me == proc["OnFlightBooked"]
    <3>1. proc' \in [SagaHandlers -> Process]
      BY <2>3, IdleType DEF OnFlightBookedSend
    <3>2. CASE HasNextCommand(me.vb)
      <4>1. nextKey \in Keys
        BY <2>3, <3>2 DEF OnFlightBookedSend, Keys
      <4>2. NextCommand(me.vb, nextKey) \in Inboxes
        BY <1>h, <4>1, MessageTypes, DeliverType DEF NextCommand, Handlers, Flights
      <4>3. inbox' \in Inboxes /\ redeliveries' \in 0..MaxRedeliveries /\ StreamType'
        BY <1>h, <2>3, <3>2, <4>2, AckType DEF OnFlightBookedSend, Handlers, SagaHandlers
      <4> QED
        BY <2>3, <3>1, <3>2, <4>3 DEF OnFlightBookedSend, Inboxes, StreamType, services,
                                      booking, transport, outputs
    <3>3. CASE ~HasNextCommand(me.vb)
      BY <2>3, <3>1, <3>3 DEF OnFlightBookedSend, services, booking, transport,
                              outputs
    <3> QED
      BY <3>2, <3>3
  <2> QED
    BY <1>7, <2>1, <2>2, <2>3 DEF OnFlightBooked
<1>8. ASSUME OnTaxiBooked PROVE TypeOK'
  <2>1. ASSUME NEW key \in Keys, OnTaxiBookedRead(key) PROVE TypeOK'
    <3>1. RecordTaxi(bundle, key) \in Bundle
      BY DEF RecordTaxi, Bundle
    <3>2. [Idle EXCEPT !.pc = "write", !.msg = Taxi(key),
                       !.vb = RecordTaxi(bundle, key)] \in Process
      BY <3>1, IdleType, MessageTypes DEF Process
    <3> QED
      BY <2>1, <3>2 DEF OnTaxiBookedRead, services, booking, transport, outputs
  <2>2. CASE UpdateByIDWrite("OnTaxiBooked")
    BY <2>2, UpdateByIDType DEF UpdateByIDWrite, services, booking, transport,
                                outputs
  <2>3. CASE OnTaxiBookedPublish
    <3>1. inbox' \in Inboxes /\ redeliveries' \in 0..MaxRedeliveries /\ StreamType'
      BY <1>h, <2>3, AckType DEF OnTaxiBookedPublish, Handlers, SagaHandlers
    <3> QED
      BY <2>3, <3>1, IdleType
      DEF OnTaxiBookedPublish, Inboxes, StreamType, services, booking,
                                  transport
  <2> QED
    BY <1>8, <2>1, <2>2, <2>3 DEF OnTaxiBooked
<1>9. ASSUME NEW h \in RollbackHandlers, Rollback(h) PROVE TypeOK'
  <2>h. h \in SagaHandlers /\ h \in Handlers
    BY DEF SagaHandlers, Handlers
  <2>1. CASE RollbackGet(h)
    <3>1. [Idle EXCEPT !.pc = "compensate", !.todo = Compensations(bundle)]
            \in Process
      BY IdleType, CompensationsType DEF Process
    <3> QED
      BY <2>1, <2>h, <3>1 DEF RollbackGet, services, booking, transport, outputs
  <2>2. CASE RollbackSend(h)
    <3>1. proc' \in [SagaHandlers -> Process]
      <4>1. proc[h] \in Process
        BY <2>h
      <4>2. Tail(proc[h].todo) \in Seq(Message)
        BY <2>2, <4>1 DEF RollbackSend, Process
      <4>3. [proc[h] EXCEPT !.todo = Tail(proc[h].todo)] \in Process
        BY <4>1, <4>2 DEF Process
      <4> QED
        BY <2>2, <2>h, <4>3 DEF RollbackSend
    <3>2. /\ inbox' \in Inboxes /\ StreamType'
          /\ refunds' \in [Tickets -> 0..MaxRefunds]
      <4>1. \A key \in Keys :
              Deliver(inbox, "CancelFlightTickets", FlightTickets(key)) \in Inboxes
        BY <1>h, MessageTypes, DeliverType DEF Handlers
      <4> QED
        BY <1>h, <2>2, <4>1, SendType DEF RollbackSend, StreamType
    <3> QED
      BY <2>2, <3>1, <3>2
      DEF RollbackSend, Inboxes, StreamType, services, booking, transport
  <2>3. CASE RollbackRead(h)
    <3>1. [bundle EXCEPT !.isFinalized = TRUE, !.failed = TRUE] \in Bundle
      BY DEF Bundle
    <3> QED
      BY <2>3, <2>h, <3>1 DEF RollbackRead, Process, services, booking, transport,
                              outputs
  <2>4. CASE RollbackWrite(h)
    <3>1. inbox' \in Inboxes /\ redeliveries' \in 0..MaxRedeliveries /\ StreamType'
      BY <1>h, <2>4, <2>h, AckType DEF RollbackWrite
    <3>2. bundle' \in Bundle /\ proc' \in [SagaHandlers -> Process]
      BY <2>4, <2>h, IdleType DEF RollbackWrite, Process
    <3> QED
      BY <2>4, <3>1, <3>2 DEF RollbackWrite, Inboxes, StreamType, services, booking,
                              transport, outputs
  <2> QED
    BY <1>9, <2>1, <2>2, <2>3, <2>4 DEF Rollback
<1>10. ASSUME NEW h \in SagaHandlers, HandlerFails(h) PROVE TypeOK'
  BY <1>10, IdleType DEF HandlerFails, services, booking, transport, outputs
<1>11. ASSUME BookShowTickets PROVE TypeOK'
  <2>1. Deliver(Deliver(inbox, "OnBookingMade", Signal), "DeadNation", Signal)
          \in Inboxes
    BY <1>h, MessageTypes, DeliverType DEF Handlers, SagaHandlers
  <2>2. inbox' \in Inboxes /\ redeliveries' \in 0..MaxRedeliveries /\ StreamType'
    BY <1>h, <1>11, <2>1, AckType DEF BookShowTickets, Handlers
  <2> QED
    BY <1>11, <2>2 DEF BookShowTickets, Inboxes, StreamType, saga, transport, outputs
<1>12. ASSUME BookShowTicketsCommitLost PROVE TypeOK'
  <2>1. [inbox EXCEPT !["BookShowTickets"] = @ \ {Signal}] \in Inboxes
    BY <1>h DEF Inboxes
  <2> QED
    BY <1>h, <1>12, <2>1, SendType
    DEF BookShowTicketsCommitLost, Inboxes, StreamType, saga, services, booking,
        transport, outputs
<1>13. ASSUME FlightCommand PROVE TypeOK'
  <2>0. PICK flight \in Flights, key \in Keys :
          BookFlight(flight, key) \/ BookFlightUnavailable(flight, key)
    BY <1>13 DEF FlightCommand
  <2>1. CASE BookFlight(flight, key)
    <3>1. Deliver(inbox, "OnFlightBooked", Flight(flight, key)) \in Inboxes
      BY <1>h, MessageTypes, DeliverType DEF Handlers, SagaHandlers
    <3>2. inbox' \in Inboxes /\ redeliveries' \in 0..MaxRedeliveries /\ StreamType'
      BY <1>h, <2>1, <3>1, AckType DEF BookFlight, StreamType, Handlers
    <3> QED
      BY <2>1, <3>2 DEF BookFlight, Inboxes, StreamType, saga, booking, outputs
  <2>2. CASE BookFlightUnavailable(flight, key)
    <3>1. Deliver(inbox, "OnFlightBookingFailed", Signal) \in Inboxes
      BY <1>h, MessageTypes, DeliverType DEF Handlers, SagaHandlers, RollbackHandlers
    <3>2. inbox' \in Inboxes /\ redeliveries' \in 0..MaxRedeliveries /\ StreamType'
      BY <1>h, <2>2, <3>1, AckType DEF BookFlightUnavailable, Handlers
    <3> QED
      BY <2>2, <3>2
      DEF BookFlightUnavailable, Inboxes, StreamType, saga, services, booking,
                        transport, outputs
  <2> QED
    BY <2>0, <2>1, <2>2
<1>14. ASSUME TaxiCommand PROVE TypeOK'
  <2>0. PICK key \in Keys : BookTaxi(key) \/ BookTaxiError(key)
    BY <1>14 DEF TaxiCommand
  <2>1. CASE BookTaxi(key)
    <3>1. Deliver(inbox, "OnTaxiBooked", Taxi(key)) \in Inboxes
      BY <1>h, MessageTypes, DeliverType DEF Handlers, SagaHandlers
    <3>2. inbox' \in Inboxes /\ redeliveries' \in 0..MaxRedeliveries /\ StreamType'
      <4>1. CASE Ack("BookTaxi", Taxi(key), Deliver(inbox, "OnTaxiBooked", Taxi(key)))
        BY <1>h, <3>1, <4>1, AckType DEF Handlers
      <4>2. CASE redeliveries < MaxRedeliveries /\ redeliveries' = redeliveries + 1
                 /\ UNCHANGED <<inbox, stream>>
        BY <1>h, <4>2 DEF StreamType
      <4> QED
        BY <2>1, <4>1, <4>2 DEF BookTaxi
    <3> QED
      BY <2>1, <3>2 DEF BookTaxi, Inboxes, StreamType, saga, booking, outputs
  <2>2. CASE BookTaxiError(key)
    <3>1. Deliver(inbox, "OnTaxiBookingFailed", Signal) \in Inboxes
      BY <1>h, MessageTypes, DeliverType DEF Handlers, SagaHandlers, RollbackHandlers
    <3> QED
      BY <1>h, <2>2, <3>1, SendType
      DEF BookTaxiError, Inboxes, StreamType, saga, booking, outputs
  <2> QED
    BY <2>0, <2>1, <2>2
<1>15. ASSUME NEW key \in Keys, CancelFlightTickets(key) PROVE TypeOK'
  <2>1. inbox' \in Inboxes /\ redeliveries' \in 0..MaxRedeliveries /\ StreamType'
    BY <1>h, <1>15, AckType DEF CancelFlightTickets, Handlers
  <2> QED
    BY <1>15, <2>1 DEF CancelFlightTickets, Inboxes, StreamType, saga, booking, outputs
<1>16. ASSUME StreamMoves PROVE TypeOK'
  BY <1>16, StreamStep, IdleType
  DEF Inboxes, StreamType, services, booking, transport, outputs
<1>17. CASE UNCHANGED vars
  BY <1>17 DEF vars, saga, services, booking, transport, outputs
<1> QED
  BY <1>1, <1>2, <1>3, <1>4, <1>5, <1>6, <1>7, <1>8, <1>9, <1>10, <1>11, <1>12,
     <1>13, <1>14, <1>15, <1>16, <1>17 DEF Next

\* Type correctness.
THEOREM TypeCorrect == Spec => []TypeOK
<1>1. Init => TypeOK
  <2> SUFFICES ASSUME Init PROVE TypeOK
    OBVIOUS
  <2>1. bundle \in Bundle /\ proc \in [SagaHandlers -> Process]
    BY IdleType DEF Init, Bundle
  <2>2. nextKey \in 1..(MaxKeys + 1) /\ redeliveries \in 0..MaxRedeliveries
    BY ConstantsAssumption DEF Init
  <2>3. refunds \in [Tickets -> 0..MaxRefunds]
    BY ConstantsAssumption DEF Init
  <2> QED
    BY <2>1, <2>2, <2>3 DEF Init, TypeOK
<1> QED
  BY <1>1, TypeStep, PTL DEF Spec

-----------------------------------------------------------------------------
(* The order of the saga *)

\* An ack removes messages and adds none.
LEMMA AckContents ==
  ASSUME NEW box \in Inboxes, NEW h \in Handlers, NEW m, Ack(h, m, box)
  PROVE  \A g \in Handlers : inbox'[g] \subseteq box[g]
BY DEF Ack, Send, Heard, Inboxes

\* Sending m2 to h2 and acking adds m2 to the inbox of h2 and nothing else.
LEMMA SendAndAck ==
  ASSUME inbox \in Inboxes, NEW h2 \in Handlers, NEW m2 \in Message,
         NEW h \in Handlers, NEW m, Ack(h, m, Deliver(inbox, h2, m2))
  PROVE  /\ inbox'[h2] \subseteq inbox[h2] \cup {m2}
         /\ \A g \in Handlers : g # h2 => inbox'[g] \subseteq inbox[g]
<1>1. Deliver(inbox, h2, m2) \in Inboxes
  BY DeliverType
<1>2. \A g \in Handlers : inbox'[g] \subseteq Deliver(inbox, h2, m2)[g]
  BY <1>1, AckContents
<1> QED
  BY <1>2 DEF Deliver, Inboxes

\* The inboxes SagaInv speaks of.
LEMMA NamesOfHandlers ==
  /\ SagaHandlers \subseteq Handlers
  /\ RollbackHandlers \subseteq SagaHandlers
  /\ {"BookFlight", "BookTaxi", "OnFlightBooked", "OnTaxiBooked", "OnBookingMade",
      "OnVipBundleInitialized", "OnTicketBookingConfirmed", "DeadNation",
      "BookShowTickets", "CancelFlightTickets"} \subseteq Handlers
  /\ {"OnFlightBooked", "OnTaxiBooked", "OnBookingMade"} \subseteq SagaHandlers
BY DEF Handlers, SagaHandlers

\* A step that books nothing, sends nothing the invariant watches, and leaves
\* the row and the handlers' copies of it with real bookings keeps the invariant.
LEMMA QuietStep ==
  ASSUME TypeOK, SagaInv,
         UNCHANGED <<showBooked, flightsBooked, taxisBooked>>,
         \A g \in {"BookFlight", "BookTaxi", "OnFlightBooked", "OnTaxiBooked",
                   "OnBookingMade"} : inbox'[g] \subseteq inbox[g],
         RealBookings(bundle)',
         \A h \in SagaHandlers : RealBookings(proc[h].vb)',
         proc'["OnBookingMade"].pc # "idle" => showBooked,
         proc'["OnTaxiBooked"].pc # "idle" => taxisBooked # {},
         finalizedEvents' => taxisBooked # {}
  PROVE  SagaInv'
<1>1. SagaOrder'
  BY DEF SagaInv, SagaOrder, FlightRequested, TaxiRequested, Booked, Flight
<1> QED
  BY <1>1 DEF SagaInv

\* The same when the row and all copies of it stay as they are.
LEMMA QuietStepSameRows ==
  ASSUME TypeOK, SagaInv,
         UNCHANGED <<showBooked, flightsBooked, taxisBooked>>,
         \A g \in {"BookFlight", "BookTaxi", "OnFlightBooked", "OnTaxiBooked",
                   "OnBookingMade"} : inbox'[g] \subseteq inbox[g],
         UNCHANGED <<bundle, proc, finalizedEvents>>
  PROVE  SagaInv'
<1>1. RealBookings(bundle)' /\ \A h \in SagaHandlers : RealBookings(proc[h].vb)'
  BY DEF SagaInv, RealBookings
<1> QED
  BY <1>1, QuietStep DEF SagaInv

\* A handler's copy of the row may be replaced by one with real bookings.
LEMMA CopyReplaced ==
  ASSUME TypeOK, SagaInv,
         UNCHANGED <<flightsBooked, taxisBooked>>,
         NEW h \in SagaHandlers, NEW p \in Process, RealBookings(p.vb),
         proc' = [proc EXCEPT ![h] = p]
  PROVE  \A g \in SagaHandlers : RealBookings(proc[g].vb)'
<1> SUFFICES ASSUME NEW g \in SagaHandlers PROVE RealBookings(proc[g].vb)'
  OBVIOUS
<1>1. proc'[g].vb = p.vb \/ proc'[g].vb = proc[g].vb
  BY DEF TypeOK
<1>2. RealBookings(proc[g].vb)
  BY DEF SagaInv
<1> QED
  BY <1>1, <1>2 DEF RealBookings

\* An idle handler claims no booking.
LEMMA IdleReal == Idle.vb = NewVipBundle /\ Idle.pc = "idle" /\ RealBookings(Idle.vb)
BY DEF Idle, NewVipBundle, RealBookings, NoKey

\* Writing back a stale copy of the row claims no booking that was not made.
LEMMA UpdateByIDStep ==
  ASSUME TypeOK, SagaInv, NEW h, UpdateByIDWrite(h)
  PROVE  SagaInv'
<1>1. h \in SagaHandlers
  BY DEF UpdateByIDWrite, SagaHandlers
<1>2. /\ UNCHANGED <<showBooked, flightsBooked, taxisBooked, inbox, finalizedEvents>>
      /\ bundle' = proc[h].vb
      /\ proc' = [proc EXCEPT ![h] = [proc[h] EXCEPT !.pc = "send"]]
  BY DEF UpdateByIDWrite, services, booking, transport, outputs
<1>3. RealBookings(bundle)'
  BY <1>1, <1>2 DEF SagaInv, RealBookings
<1>4. /\ [proc[h] EXCEPT !.pc = "send"] \in Process
      /\ [proc[h] EXCEPT !.pc = "send"].vb = proc[h].vb
  BY <1>1 DEF TypeOK, Process
<1>5. \A g \in SagaHandlers : RealBookings(proc[g].vb)'
  BY <1>1, <1>2, <1>4, CopyReplaced DEF SagaInv
<1>6. \A g \in SagaHandlers : proc[g].pc = "idle" => proc'[g].pc = "idle"
  BY <1>1, <1>2 DEF UpdateByIDWrite, TypeOK
<1>7. h # "OnBookingMade"
  BY DEF UpdateByIDWrite
<1>8. /\ proc'["OnBookingMade"] = proc["OnBookingMade"]
      /\ proc'["OnTaxiBooked"].pc # "idle" => taxisBooked # {}
  BY <1>2, <1>6, <1>7, NamesOfHandlers DEF TypeOK, SagaInv
<1> QED
  BY <1>2, <1>3, <1>5, <1>8, QuietStep DEF SagaInv

\* The saga takes its steps in order, one action at a time.
LEMMA SagaStep == TypeOK /\ SagaInv /\ [Next]_vars => SagaInv'
<1> SUFFICES ASSUME TypeOK, SagaInv, [Next]_vars
             PROVE  SagaInv'
  OBVIOUS
<1>h. inbox \in Inboxes
  BY DEF TypeOK, Inboxes
<1>1. ASSUME Add PROVE SagaInv'
  <2>1. UNCHANGED <<showBooked, flightsBooked, taxisBooked, bundle, proc,
                    finalizedEvents>>
    BY <1>1 DEF Add, AddInsert, AddCommit, AddFails, services, booking, transport,
                outputs
  <2>2. \A g \in Handlers :
          g # "OnVipBundleInitialized" => inbox'[g] \subseteq inbox[g]
    BY <1>1, <1>h DEF Add, AddInsert, AddCommit, AddFails, Send, Heard, Deliver, Inboxes
  <2> QED
    BY <2>1, <2>2, QuietStepSameRows, NamesOfHandlers
<1>2. ASSUME OnVipBundleInitialized PROVE SagaInv'
  <2>1. UNCHANGED <<showBooked, flightsBooked, taxisBooked, bundle, proc,
                    finalizedEvents>>
    BY <1>2 DEF OnVipBundleInitialized, saga, services, booking, transport, outputs
  <2>4. \A g \in Handlers :
          g # "BookShowTickets" => inbox'[g] \subseteq inbox[g]
    BY <1>2, <1>h, SendAndAck, MessageTypes, NamesOfHandlers
       DEF OnVipBundleInitialized
  <2> QED
    BY <2>1, <2>4, QuietStepSameRows, NamesOfHandlers
<1>3. ASSUME OnBookingMade PROVE SagaInv'
  <2>1. /\ UNCHANGED <<showBooked, flightsBooked, taxisBooked, inbox, finalizedEvents>>
        /\ showBooked
    BY <1>3 DEF OnBookingMade, SagaInv, services, booking, transport, outputs
  <2>2. RealBookings(bundle)'
    BY <1>3, <2>1 DEF OnBookingMade, SagaInv, RealBookings, TypeOK, Bundle
  <2>3. [Idle EXCEPT !.pc = "send"] \in Process /\ RealBookings([Idle EXCEPT !.pc = "send"].vb)
    BY IdleType, IdleReal DEF Process
  <2>4. \A g \in SagaHandlers : RealBookings(proc[g].vb)'
    BY <1>3, <2>1, <2>3, CopyReplaced, NamesOfHandlers DEF OnBookingMade
  <2>5. proc'["OnTaxiBooked"] = proc["OnTaxiBooked"]
    BY <1>3, NamesOfHandlers DEF OnBookingMade, TypeOK
  <2> QED
    BY <2>1, <2>2, <2>4, <2>5, QuietStep DEF SagaInv
<1>4. ASSUME OnBookingMadeSend PROVE SagaInv'
  <2> DEFINE m == Flight("inbound", nextKey)
  <2>1. /\ UNCHANGED <<showBooked, flightsBooked, taxisBooked, bundle, finalizedEvents>>
        /\ showBooked
    BY <1>4 DEF OnBookingMadeSend, SagaInv, services, booking, transport, outputs
  <2>2. m \in Message
    BY <1>4, MessageTypes DEF OnBookingMadeSend, TypeOK, Keys, Flights
  <2>4. /\ inbox'["BookFlight"] \subseteq inbox["BookFlight"] \cup {m}
        /\ \A g \in Handlers : g # "BookFlight" => inbox'[g] \subseteq inbox[g]
    BY <1>4, <1>h, <2>2, SendAndAck, NamesOfHandlers DEF OnBookingMadeSend
  <2>5. RealBookings(bundle)' /\ \A h \in SagaHandlers : RealBookings(proc[h].vb)'
    BY <1>4, <2>1, IdleType, IdleReal, CopyReplaced, NamesOfHandlers
       DEF OnBookingMadeSend, SagaInv, RealBookings
  <2>6. /\ proc'["OnTaxiBooked"] = proc["OnTaxiBooked"]
        /\ proc'["OnBookingMade"].pc = "idle"
    BY <1>4, IdleReal, NamesOfHandlers DEF OnBookingMadeSend, TypeOK
  <2>7. SagaOrder'
    <3>1. \A flight \in Flights : FlightRequested(flight)' => showBooked'
      BY <2>1
    <3>2. FlightRequested("return")' => FlightRequested("return")
      BY <2>1, <2>4, NamesOfHandlers DEF FlightRequested, Flight
    <3>3. TaxiRequested' => TaxiRequested
      BY <2>1, <2>4, NamesOfHandlers DEF TaxiRequested
    <3> QED
      BY <2>1, <3>1, <3>2, <3>3 DEF SagaInv, SagaOrder, Booked
  <2> QED
    BY <2>1, <2>4, <2>5, <2>6, <2>7, NamesOfHandlers DEF SagaInv
<1>5. ASSUME NEW t \in Tickets, OnTicketBookingConfirmed(t) PROVE SagaInv'
  <2>1. /\ UNCHANGED <<showBooked, flightsBooked, taxisBooked, proc, finalizedEvents>>
        /\ bundle' = [bundle EXCEPT !.ticketIDs = Append(@, t)]
    BY <1>5 DEF OnTicketBookingConfirmed, services, booking, transport, outputs
  <2>2. \A g \in Handlers : inbox'[g] \subseteq inbox[g]
    BY <1>5, <1>h, AckContents, NamesOfHandlers DEF OnTicketBookingConfirmed
  <2>3. RealBookings(bundle)'
    BY <2>1 DEF SagaInv, RealBookings, TypeOK, Bundle
  <2>4. \A h \in SagaHandlers : RealBookings(proc[h].vb)'
    BY <2>1 DEF SagaInv, RealBookings
  <2> QED
    BY <2>1, <2>2, <2>3, <2>4, QuietStep, NamesOfHandlers DEF SagaInv
<1>6. ASSUME NEW t \in Tickets, DeadNationConfirms(t) PROVE SagaInv'
  <2>1. UNCHANGED <<showBooked, flightsBooked, taxisBooked, bundle, proc,
                    finalizedEvents>>
    BY <1>6 DEF DeadNationConfirms, saga, transport, outputs
  <2>2. \A g \in Handlers :
          g # "OnTicketBookingConfirmed" => inbox'[g] \subseteq inbox[g]
    BY <1>6, <1>h DEF DeadNationConfirms, Send, Heard, Deliver, Inboxes
  <2> QED
    BY <2>1, <2>2, QuietStepSameRows, NamesOfHandlers
<1>7. ASSUME OnFlightBooked PROVE SagaInv'
  <2>1. ASSUME NEW flight \in Flights, NEW key \in Keys,
               OnFlightBookedRead(flight, key)
        PROVE  SagaInv'
    <3> DEFINE p == [Idle EXCEPT !.pc = "write", !.msg = Flight(flight, key),
                                 !.vb = RecordFlight(bundle, flight, key)]
    <3>1. /\ UNCHANGED <<showBooked, flightsBooked, taxisBooked, bundle, inbox,
                         finalizedEvents>>
          /\ proc' = [proc EXCEPT !["OnFlightBooked"] = p]
          /\ Flight(flight, key) \in flightsBooked
      BY <2>1 DEF OnFlightBookedRead, SagaInv, services, booking, transport, outputs
    <3>2. RecordFlight(bundle, flight, key) \in Bundle
      BY DEF RecordFlight, Bundle, TypeOK
    <3>3. RealBookings(RecordFlight(bundle, flight, key))
      BY <3>1 DEF RecordFlight, RealBookings, SagaInv, TypeOK, Bundle, Flights
    <3>4. p \in Process /\ p.vb = RecordFlight(bundle, flight, key)
      BY <3>2, IdleType, MessageTypes DEF Process
    <3>5. \A g \in SagaHandlers : RealBookings(proc[g].vb)'
      <4> HIDE DEF p
      <4> QED
        BY <3>1, <3>3, <3>4, CopyReplaced, NamesOfHandlers
    <3>6. /\ proc'["OnTaxiBooked"] = proc["OnTaxiBooked"]
          /\ proc'["OnBookingMade"] = proc["OnBookingMade"]
      BY <3>1, NamesOfHandlers DEF TypeOK
    <3>7. RealBookings(bundle)'
      BY <3>1 DEF SagaInv, RealBookings
    <3> QED
      BY <3>1, <3>5, <3>6, <3>7, QuietStep DEF SagaInv
  <2>2. ASSUME UpdateByIDWrite("OnFlightBooked") PROVE SagaInv'
    BY <2>2, UpdateByIDStep
  <2>3. ASSUME OnFlightBookedSend PROVE SagaInv'
    <3> DEFINE vb == proc["OnFlightBooked"].vb
    <3>1. UNCHANGED <<showBooked, flightsBooked, taxisBooked, bundle, finalizedEvents>>
      BY <2>3 DEF OnFlightBookedSend, services, booking, transport, outputs
    <3>2. /\ RealBookings(bundle)' /\ \A h \in SagaHandlers : RealBookings(proc[h].vb)'
          /\ proc'["OnTaxiBooked"] = proc["OnTaxiBooked"]
          /\ proc'["OnBookingMade"] = proc["OnBookingMade"]
      BY <2>3, <3>1, IdleType, IdleReal, CopyReplaced, NamesOfHandlers
         DEF OnFlightBookedSend, SagaInv, RealBookings, TypeOK
    <3>3. CASE ~HasNextCommand(vb)
      BY <2>3, <3>1, <3>2, <3>3, QuietStep DEF OnFlightBookedSend, SagaInv
    <3>4. CASE HasNextCommand(vb)
      <4>1. nextKey \in Keys /\ vb \in Bundle
        BY <2>3, <3>4, NamesOfHandlers DEF OnFlightBookedSend, TypeOK, Keys, Process
      <4>2. RealBookings(vb)
        BY NamesOfHandlers DEF SagaInv
      <4>3. Booked("inbound") /\ showBooked
        <5>1. Flight("inbound", vb.inboundFlight) \in flightsBooked
          BY <3>4, <4>2 DEF RealBookings, HasNextCommand
        <5>2. Booked("inbound")
          BY <3>4, <4>1, <5>1 DEF Booked, Bundle, HasNextCommand
        <5> QED
          BY <5>2 DEF SagaInv, SagaOrder, Booked, FlightRequested, Flights
      <4>4. CASE vb.returnFlight = NoKey
        <5> DEFINE m == Flight("return", nextKey)
        <5>1. m \in Message
          BY <4>1, MessageTypes DEF Flights
        <5>2. Ack("OnFlightBooked", proc["OnFlightBooked"].msg,
                  Deliver(inbox, "BookFlight", m))
          BY <2>3, <3>4, <4>4 DEF OnFlightBookedSend, NextCommand
        <5>3. /\ inbox'["BookFlight"] \subseteq inbox["BookFlight"] \cup {m}
              /\ \A g \in Handlers : g # "BookFlight" => inbox'[g] \subseteq inbox[g]
          BY <1>h, <5>1, <5>2, SendAndAck, NamesOfHandlers
        <5>4. SagaOrder'
          <6>1. TaxiRequested' => TaxiRequested
            BY <3>1, <5>3, NamesOfHandlers DEF TaxiRequested
          <6> QED
            BY <3>1, <4>3, <6>1 DEF SagaInv, SagaOrder, Booked
        <5> QED
          BY <3>1, <3>2, <5>3, <5>4, NamesOfHandlers DEF SagaInv
      <4>5. CASE vb.returnFlight # NoKey
        <5> DEFINE m == Taxi(nextKey)
        <5>1. m \in Message
          BY <4>1, MessageTypes
        <5>2. Ack("OnFlightBooked", proc["OnFlightBooked"].msg,
                  Deliver(inbox, "BookTaxi", m))
          BY <2>3, <3>4, <4>5 DEF OnFlightBookedSend, NextCommand
        <5>3. \A g \in Handlers : g # "BookTaxi" => inbox'[g] \subseteq inbox[g]
          BY <1>h, <5>1, <5>2, SendAndAck, NamesOfHandlers
        <5>4. Flight("return", vb.returnFlight) \in flightsBooked
          BY <4>2, <4>5 DEF RealBookings
        <5>5. Booked("return")
          BY <4>1, <4>5, <5>4 DEF Booked, Bundle
        <5>6. SagaOrder'
          BY <3>1, <4>3, <5>5 DEF SagaOrder, Booked
        <5> QED
          BY <3>1, <3>2, <5>3, <5>6, NamesOfHandlers DEF SagaInv
      <4> QED
        BY <4>4, <4>5
    <3> QED
      BY <3>3, <3>4
  <2> QED
    BY <1>7, <2>1, <2>2, <2>3 DEF OnFlightBooked
<1>8. ASSUME OnTaxiBooked PROVE SagaInv'
  <2>1. ASSUME NEW key \in Keys, OnTaxiBookedRead(key) PROVE SagaInv'
    <3> DEFINE p == [Idle EXCEPT !.pc = "write", !.msg = Taxi(key),
                                 !.vb = RecordTaxi(bundle, key)]
    <3>1. /\ UNCHANGED <<showBooked, flightsBooked, taxisBooked, bundle, inbox,
                         finalizedEvents>>
          /\ proc' = [proc EXCEPT !["OnTaxiBooked"] = p]
          /\ taxisBooked # {}
      BY <2>1 DEF OnTaxiBookedRead, SagaInv, services, booking, transport, outputs
    <3>2. RecordTaxi(bundle, key) \in Bundle
      BY DEF RecordTaxi, Bundle, TypeOK
    <3>3. RealBookings(RecordTaxi(bundle, key))
      BY <3>1 DEF RecordTaxi, RealBookings, SagaInv, TypeOK, Bundle
    <3>4. p \in Process /\ p.vb = RecordTaxi(bundle, key)
      BY <3>2, IdleType, MessageTypes DEF Process
    <3>5. \A g \in SagaHandlers : RealBookings(proc[g].vb)'
      <4> HIDE DEF p
      <4> QED
        BY <3>1, <3>3, <3>4, CopyReplaced, NamesOfHandlers
    <3>6. proc'["OnBookingMade"] = proc["OnBookingMade"]
      BY <3>1, NamesOfHandlers DEF TypeOK
    <3>7. RealBookings(bundle)'
      BY <3>1 DEF SagaInv, RealBookings
    <3> QED
      BY <3>1, <3>5, <3>6, <3>7, QuietStep DEF SagaInv
  <2>2. ASSUME UpdateByIDWrite("OnTaxiBooked") PROVE SagaInv'
    BY <2>2, UpdateByIDStep
  <2>3. ASSUME OnTaxiBookedPublish PROVE SagaInv'
    <3>1. /\ UNCHANGED <<showBooked, flightsBooked, taxisBooked, bundle>>
          /\ taxisBooked # {}
          /\ proc' = [proc EXCEPT !["OnTaxiBooked"] = Idle]
      BY <2>3 DEF OnTaxiBookedPublish, SagaInv, services, booking, transport
    <3>2. \A g \in Handlers : inbox'[g] \subseteq inbox[g]
      BY <2>3, <1>h, AckContents, NamesOfHandlers DEF OnTaxiBookedPublish
    <3>3. /\ RealBookings(bundle)' /\ \A h \in SagaHandlers : RealBookings(proc[h].vb)'
          /\ proc'["OnBookingMade"] = proc["OnBookingMade"]
      BY <3>1, IdleType, IdleReal, CopyReplaced, NamesOfHandlers
         DEF SagaInv, RealBookings, TypeOK
    <3> QED
      BY <3>1, <3>2, <3>3, QuietStep, NamesOfHandlers DEF SagaInv
  <2> QED
    BY <1>8, <2>1, <2>2, <2>3 DEF OnTaxiBooked
<1>9. ASSUME NEW h \in RollbackHandlers, Rollback(h) PROVE SagaInv'
  <2>h. h \in SagaHandlers /\ h \in Handlers /\ h # "OnBookingMade" /\ h # "OnTaxiBooked"
    BY DEF SagaHandlers, Handlers, RollbackHandlers
  <2>1. UNCHANGED <<showBooked, flightsBooked, taxisBooked, finalizedEvents>>
    BY <1>9 DEF Rollback, RollbackGet, RollbackSend, RollbackRead, RollbackWrite,
                services, booking, transport, outputs
  <2>2. \A g \in Handlers :
          g # "CancelFlightTickets" => inbox'[g] \subseteq inbox[g]
    <3>1. CASE RollbackSend(h)
      BY <1>h, <3>1 DEF RollbackSend, Send, Heard, Deliver, Inboxes
    <3>2. CASE RollbackWrite(h)
      BY <1>h, <2>h, <3>2, AckContents DEF RollbackWrite
    <3> QED
      BY <1>9, <3>1, <3>2 DEF Rollback, RollbackGet, RollbackRead
  <2>3. PICK p \in Process :
          /\ proc' = [proc EXCEPT ![h] = p]
          /\ RealBookings(p.vb)
    <3>0. proc[h] \in Process /\ RealBookings(proc[h].vb) /\ RealBookings(bundle)
      BY <2>h DEF TypeOK, SagaInv
    <3>1. CASE RollbackGet(h)
      <4> DEFINE p == [Idle EXCEPT !.pc = "compensate", !.todo = Compensations(bundle)]
      <4>1. p \in Process /\ p.vb = Idle.vb
        BY IdleType, CompensationsType DEF Process, TypeOK
      <4>2. proc' = [proc EXCEPT ![h] = p]
        BY <3>1 DEF RollbackGet
      <4> HIDE DEF p
      <4> QED
        BY <4>1, <4>2, IdleReal
    <3>2. CASE RollbackSend(h)
      <4> DEFINE p == [proc[h] EXCEPT !.todo = Tail(proc[h].todo)]
      <4>1. Tail(proc[h].todo) \in Seq(Message)
        BY <3>0, <3>2 DEF RollbackSend, Process
      <4>2. p \in Process /\ p.vb = proc[h].vb
        BY <3>0, <4>1 DEF Process
      <4>3. proc' = [proc EXCEPT ![h] = p]
        BY <3>2 DEF RollbackSend
      <4> HIDE DEF p
      <4> QED
        BY <3>0, <4>2, <4>3
    <3>3. CASE RollbackRead(h)
      <4> DEFINE vb == [bundle EXCEPT !.isFinalized = TRUE, !.failed = TRUE]
                 p  == [proc[h] EXCEPT !.pc = "write", !.vb = vb]
      <4>1. vb \in Bundle /\ RealBookings(vb)
        BY <3>0 DEF Bundle, RealBookings, TypeOK
      <4> HIDE DEF vb
      <4>2. p \in Process /\ p.vb = vb
        BY <3>0, <4>1 DEF Process
      <4>3. proc' = [proc EXCEPT ![h] = p]
        BY <2>h, <3>3 DEF RollbackRead, vb, TypeOK
      <4> HIDE DEF p
      <4> QED
        BY <4>1, <4>2, <4>3
    <3>4. CASE RollbackWrite(h)
      BY <3>4, IdleType, IdleReal DEF RollbackWrite
    <3> QED
      BY <1>9, <3>1, <3>2, <3>3, <3>4 DEF Rollback
  <2>4. \A g \in SagaHandlers : RealBookings(proc[g].vb)'
    BY <2>h, <2>1, <2>3, CopyReplaced
  <2>5. /\ proc'["OnBookingMade"] = proc["OnBookingMade"]
        /\ proc'["OnTaxiBooked"] = proc["OnTaxiBooked"]
    BY <2>h, <2>3, NamesOfHandlers DEF TypeOK
  <2>6. RealBookings(bundle)'
    <3>1. bundle' = bundle \/ bundle' = proc[h].vb
      BY <1>9 DEF Rollback, RollbackGet, RollbackSend, RollbackRead, RollbackWrite
    <3> QED
      BY <2>h, <2>1, <3>1 DEF SagaInv, RealBookings
  <2> QED
    BY <2>1, <2>2, <2>4, <2>5, <2>6, QuietStep, NamesOfHandlers DEF SagaInv
<1>10. ASSUME NEW h \in SagaHandlers, HandlerFails(h) PROVE SagaInv'
  <2>1. /\ UNCHANGED <<showBooked, flightsBooked, taxisBooked, bundle, inbox,
                       finalizedEvents>>
        /\ proc' = [proc EXCEPT ![h] = Idle]
    BY <1>10 DEF HandlerFails, services, booking, transport, outputs
  <2>2. /\ RealBookings(bundle)'
        /\ \A g \in SagaHandlers : RealBookings(proc[g].vb)'
    BY <2>1, IdleType, IdleReal, CopyReplaced DEF SagaInv, RealBookings
  <2>3. \A g \in SagaHandlers : proc[g].pc = "idle" => proc'[g].pc = "idle"
    BY <2>1, IdleReal DEF TypeOK
  <2> QED
    BY <2>1, <2>2, <2>3, QuietStep, NamesOfHandlers DEF SagaInv
<1>11. ASSUME BookShowTickets PROVE SagaInv'
  <2>1. /\ UNCHANGED <<flightsBooked, taxisBooked, bundle, proc, finalizedEvents>>
        /\ showBooked'
    BY <1>11 DEF BookShowTickets, saga, transport, outputs
  <2>2. \A g \in Handlers :
          g \notin {"OnBookingMade", "DeadNation"} => inbox'[g] \subseteq inbox[g]
    BY <1>11, <1>h DEF BookShowTickets, Ack, Send, Heard, Deliver, Inboxes
  <2>3. SagaOrder'
    <3>1. /\ FlightRequested("return")' => FlightRequested("return")
          /\ TaxiRequested' => TaxiRequested
      BY <2>1, <2>2, NamesOfHandlers DEF FlightRequested, TaxiRequested
    <3> QED
      BY <2>1, <3>1 DEF SagaInv, SagaOrder, Booked
  <2> QED
    BY <2>1, <2>2, <2>3, NamesOfHandlers DEF SagaInv, RealBookings
<1>12. ASSUME BookShowTicketsCommitLost PROVE SagaInv'
  BY <1>12, <1>h, CommitLostStep, QuietStepSameRows, NamesOfHandlers
     DEF BookShowTicketsCommitLost, saga, services, booking, transport, outputs
<1>13. ASSUME FlightCommand PROVE SagaInv'
  <2>0. PICK flight \in Flights, key \in Keys :
          BookFlight(flight, key) \/ BookFlightUnavailable(flight, key)
    BY <1>13 DEF FlightCommand
  <2> DEFINE m == Flight(flight, key)
  <2>1. CASE BookFlight(flight, key)
    <3>1. /\ UNCHANGED <<showBooked, taxisBooked, bundle, proc, finalizedEvents>>
          /\ m \in inbox["BookFlight"]
          /\ flightsBooked' = flightsBooked \cup {m}
      BY <2>1 DEF BookFlight, Flight, saga, booking, outputs
    <3>2. /\ inbox'["OnFlightBooked"] \subseteq inbox["OnFlightBooked"] \cup {m}
          /\ \A g \in Handlers :
               g # "OnFlightBooked" => inbox'[g] \subseteq inbox[g]
      BY <2>1, <1>h, SendAndAck, MessageTypes, NamesOfHandlers DEF BookFlight
    <3>3. SagaOrder'
      <4>1. /\ \A f \in Flights : FlightRequested(f)' => FlightRequested(f)
            /\ \A f \in Flights : Booked(f) => Booked(f)'
            /\ TaxiRequested' => TaxiRequested
        BY <3>1, <3>2, NamesOfHandlers DEF FlightRequested, TaxiRequested, Booked
      <4> QED
        BY <3>1, <4>1 DEF SagaInv, SagaOrder, Flights
    <3>4. RealBookings(bundle)' /\ \A h \in SagaHandlers : RealBookings(proc[h].vb)'
      BY <3>1 DEF SagaInv, RealBookings
    <3> QED
      BY <3>1, <3>2, <3>3, <3>4, NamesOfHandlers DEF SagaInv
  <2>2. CASE BookFlightUnavailable(flight, key)
    <3>1. UNCHANGED <<showBooked, flightsBooked, taxisBooked, bundle, proc,
                      finalizedEvents>>
      BY <2>2 DEF BookFlightUnavailable, saga, services, booking, transport, outputs
    <3>2. \A g \in Handlers :
            g # "OnFlightBookingFailed" => inbox'[g] \subseteq inbox[g]
      BY <2>2, <1>h, SendAndAck, MessageTypes, NamesOfHandlers
         DEF BookFlightUnavailable, RollbackHandlers
    <3> QED
      BY <3>1, <3>2, QuietStepSameRows, NamesOfHandlers
  <2> QED
    BY <2>0, <2>1, <2>2
<1>14. ASSUME TaxiCommand PROVE SagaInv'
  <2>0. PICK key \in Keys : BookTaxi(key) \/ BookTaxiError(key)
    BY <1>14 DEF TaxiCommand
  <2>1. /\ UNCHANGED <<showBooked, flightsBooked, bundle, proc, finalizedEvents>>
        /\ taxisBooked \subseteq taxisBooked'
        /\ TaxiRequested
    BY <2>0 DEF BookTaxi, BookTaxiError, TaxiRequested, saga, booking, outputs
  <2>2. /\ \A g \in Handlers :
             g \notin {"OnTaxiBooked", "OnTaxiBookingFailed"}
               => inbox'[g] \subseteq inbox[g]
        /\ inbox'["OnTaxiBooked"] # {} => taxisBooked' # {}
    <3>1. CASE BookTaxi(key)
      BY <1>h, <3>1, SendAndAck, MessageTypes, NamesOfHandlers DEF BookTaxi
    <3>2. CASE BookTaxiError(key)
      <4>1. \A g \in Handlers :
              inbox'[g] \subseteq Deliver(inbox, "OnTaxiBookingFailed", Signal)[g]
        BY <1>h, <3>2, MessageTypes, DeliverType, SendContents, NamesOfHandlers
        DEF BookTaxiError, RollbackHandlers
      <4>2. \A g \in Handlers :
              g # "OnTaxiBookingFailed" => inbox'[g] \subseteq inbox[g]
        BY <1>h, <4>1 DEF Deliver, Inboxes
      <4> QED
        BY <2>1, <3>2, <4>2, NamesOfHandlers DEF BookTaxiError, SagaInv
    <3> QED
      BY <2>0, <3>1, <3>2
  <2>3. SagaOrder'
    <3>1. \A f \in Flights : FlightRequested(f)' => FlightRequested(f)
      BY <2>1, <2>2, NamesOfHandlers DEF FlightRequested
    <3> QED
      BY <2>1, <3>1 DEF SagaInv, SagaOrder, Booked, Flights
  <2>4. RealBookings(bundle)' /\ \A h \in SagaHandlers : RealBookings(proc[h].vb)'
    BY <2>1 DEF SagaInv, RealBookings
  <2> QED
    BY <2>1, <2>2, <2>3, <2>4, NamesOfHandlers DEF SagaInv
<1>15. ASSUME NEW key \in Keys, CancelFlightTickets(key) PROVE SagaInv'
  <2>1. UNCHANGED <<showBooked, flightsBooked, taxisBooked, bundle, proc,
                    finalizedEvents>>
    BY <1>15 DEF CancelFlightTickets, saga, booking, outputs
  <2>2. \A g \in Handlers : inbox'[g] \subseteq inbox[g]
    BY <1>15, <1>h, AckContents, NamesOfHandlers DEF CancelFlightTickets
  <2> QED
    BY <2>1, <2>2, QuietStepSameRows, NamesOfHandlers
<1>16. ASSUME UNCHANGED vars PROVE SagaInv'
  BY <1>16, QuietStepSameRows DEF vars, saga, services, booking, transport, outputs
<1>17. ASSUME StreamMoves PROVE SagaInv'
  <2>1. /\ UNCHANGED <<showBooked, flightsBooked, taxisBooked, bundle, finalizedEvents>>
        /\ \A g \in Handlers : inbox'[g] \subseteq inbox[g]
        /\ proc' = proc \/ proc' = [h \in SagaHandlers |-> Idle]
    BY <1>17, StreamStep DEF services, booking, transport, outputs
  <2>2. CASE proc' = proc
    BY <2>1, <2>2, QuietStepSameRows, NamesOfHandlers
  <2>3. CASE proc' = [h \in SagaHandlers |-> Idle]
    <3>1. /\ RealBookings(bundle)'
          /\ \A g \in SagaHandlers : RealBookings(proc[g].vb)'
      BY <2>1, <2>3, IdleReal DEF SagaInv, RealBookings
    <3>2. \A g \in SagaHandlers : proc'[g].pc = "idle"
      BY <2>3, IdleReal
    <3> QED
      BY <2>1, <3>1, <3>2, QuietStep, NamesOfHandlers DEF SagaInv
  <2> QED
    BY <2>1, <2>2, <2>3
<1> QED
  BY <1>1, <1>2, <1>3, <1>4, <1>5, <1>6, <1>7, <1>8, <1>9, <1>10, <1>11, <1>12,
     <1>13, <1>14, <1>15, <1>16, <1>17 DEF Next

\* No message and no copy of the row ever claims a booking that was not made.
THEOREM SagaInvariant == Spec => []SagaInv
<1>1. Init => SagaInv
  <2> SUFFICES ASSUME Init PROVE SagaInv
    OBVIOUS
  <2>1. RealBookings(bundle) /\ \A h \in SagaHandlers : RealBookings(proc[h].vb)
    BY DEF Init, RealBookings, Idle, NewVipBundle, NoKey
  <2>2. \A g \in Handlers : inbox[g] = {}
    BY DEF Init
  <2>3. \A h \in SagaHandlers : proc[h].pc = "idle"
    BY DEF Init, Idle
  <2>4. SagaOrder
    BY <2>2, NamesOfHandlers DEF Init, SagaOrder, FlightRequested, TaxiRequested
  <2> QED
    BY <2>1, <2>2, <2>3, <2>4, NamesOfHandlers DEF Init, SagaInv
<1> QED
  BY <1>1, SagaStep, TypeCorrect, PTL DEF Spec

\* The saga takes no step before the one it builds on.
THEOREM SagaOrderHolds == Spec => []SagaOrder
<1>1. SagaInv => SagaOrder
  BY DEF SagaInv
<1> QED
  BY <1>1, SagaInvariant, PTL

\* A finalized bundle was really booked, all parts of it.
THEOREM FinalizedMeansBookedHolds == Spec => []FinalizedMeansBooked
<1>1. SagaInv => FinalizedMeansBooked
  <2> SUFFICES ASSUME SagaInv, finalizedEvents \/ bundle.taxi # NoKey
               PROVE  /\ showBooked
                      /\ Booked("inbound") /\ Booked("return")
                      /\ taxisBooked # {}
    BY DEF FinalizedMeansBooked
  <2>1. taxisBooked # {}
    BY DEF SagaInv, RealBookings
  <2>2. Booked("inbound") /\ Booked("return")
    BY <2>1 DEF SagaInv, SagaOrder, TaxiRequested
  <2>3. FlightRequested("inbound")
    BY <2>2 DEF Booked, FlightRequested
  <2> QED
    BY <2>1, <2>2, <2>3 DEF SagaInv, SagaOrder, Flights
<1> QED
  BY <1>1, SagaInvariant, PTL

-----------------------------------------------------------------------------
(* What the rollback undoes *)

\* What a rollback may undo: the tickets that were confirmed and the flights that were
\* booked.
ToUndo ==
  {Ticket(t) : t \in confirmed} \cup
  {FlightTickets(key) : key \in {k \in Keys : \E flight \in Flights :
                                                Flight(flight, k) \in flightsBooked}}

\* The inductive invariant behind CompensatesOnlyWhatHappened: all that the row, the
\* copies of it, the commands a rollback has still to send and those under way name is
\* there to be undone.
UndoInv ==
  /\ inbox["OnTicketBookingConfirmed"] \subseteq ToUndo
  /\ inbox["CancelFlightTickets"] \subseteq ToUndo
  /\ bundle.ticketIDs \in Seq(confirmed)
  /\ \A h \in SagaHandlers :
       proc[h].vb.ticketIDs \in Seq(confirmed) /\ proc[h].todo \in Seq(ToUndo)
  /\ CompensatesOnlyWhatHappened

\* A ticket and a cancellation are never the same message: only the latter has a key.
LEMMA UndoElements ==
  /\ \A t \in Tickets : Ticket(t) \in ToUndo => t \in confirmed
  /\ \A key \in Keys : FlightTickets(key) \in ToUndo =>
       \E flight \in Flights : Flight(flight, key) \in flightsBooked
<1>1. ASSUME NEW key \in Keys, NEW t
      PROVE  FlightTickets(key) # Ticket(t)
  <2>1. key # NoKey
    BY ConstantsAssumption DEF Keys, NoKey
  <2>2. FlightTickets(key)[2] = key /\ Ticket(t)[2] = NoKey
    BY DEF FlightTickets, Ticket
  <2> QED
    BY <2>1, <2>2
<1>2. \A t, u : Ticket(t) = Ticket(u) => t = u
  BY DEF Ticket
<1>3. \A k, key : FlightTickets(k) = FlightTickets(key) => k = key
  BY DEF FlightTickets
<1>4. ASSUME NEW t \in Tickets, Ticket(t) \in ToUndo
      PROVE  t \in confirmed
  BY <1>1, <1>2, <1>4 DEF ToUndo
<1>5. ASSUME NEW key \in Keys, FlightTickets(key) \in ToUndo
      PROVE  \E flight \in Flights : Flight(flight, key) \in flightsBooked
  BY <1>1, <1>3, <1>5 DEF ToUndo
<1> QED
  BY <1>4, <1>5

\* A step that undoes nothing and sends no cancellation keeps the invariant, as
\* confirmations and flights are never taken back by their services.
LEMMA UndoQuiet ==
  ASSUME TypeOK, UndoInv,
         confirmed \subseteq confirmed', flightsBooked \subseteq flightsBooked',
         UNCHANGED <<refunds, flightsCancelled>>,
         inbox'["OnTicketBookingConfirmed"] \subseteq ToUndo',
         inbox'["CancelFlightTickets"] \subseteq inbox["CancelFlightTickets"],
         bundle'.ticketIDs \in Seq(confirmed),
         \A h \in SagaHandlers :
           proc'[h].vb.ticketIDs \in Seq(confirmed) /\ proc'[h].todo \in Seq(ToUndo)
  PROVE  UndoInv'
<1>1. ToUndo \subseteq ToUndo'
  BY DEF ToUndo
<1>2. bundle'.ticketIDs \in Seq(confirmed')
  BY SeqMonotonic
<1>3. \A h \in SagaHandlers :
        proc'[h].vb.ticketIDs \in Seq(confirmed') /\ proc'[h].todo \in Seq(ToUndo')
  BY <1>1, SeqMonotonic
<1>4. CompensatesOnlyWhatHappened'
  BY DEF UndoInv, CompensatesOnlyWhatHappened, CancelRequested
<1> QED
  BY <1>1, <1>2, <1>3, <1>4 DEF UndoInv

\* A handler may take up another copy and other commands.
LEMMA UndoReplaced ==
  ASSUME TypeOK, UndoInv, NEW h \in SagaHandlers, NEW p,
         p.vb.ticketIDs \in Seq(confirmed), p.todo \in Seq(ToUndo),
         proc' = [proc EXCEPT ![h] = p]
  PROVE  \A g \in SagaHandlers :
           proc'[g].vb.ticketIDs \in Seq(confirmed) /\ proc'[g].todo \in Seq(ToUndo)
<1> SUFFICES ASSUME NEW g \in SagaHandlers
             PROVE  proc'[g].vb.ticketIDs \in Seq(confirmed) /\ proc'[g].todo \in Seq(ToUndo)
  OBVIOUS
<1>1. proc'[g] = p \/ proc'[g] = proc[g]
  BY DEF TypeOK
<1> QED
  BY <1>1 DEF UndoInv

\* An idle handler has nothing to undo.
LEMMA IdleUndo == Idle.vb.ticketIDs = <<>> /\ Idle.todo = <<>>
BY DEF Idle, NewVipBundle

\* The commands of a rollback are there to be undone: its tickets were confirmed, and
\* the bookings of its flights were made.
LEMMA CompensationsUndo ==
  ASSUME NEW vb \in Bundle, RealBookings(vb), vb.ticketIDs \in Seq(confirmed)
  PROVE  Compensations(vb) \in Seq(ToUndo)
<1>1. Refunds(vb) \in Seq(ToUndo)
  BY DEF Refunds, ToUndo
<1>2. Cancellation(vb.inboundFlight) \in Seq(ToUndo)
  <2>1. vb.inboundFlight # NoKey => FlightTickets(vb.inboundFlight) \in ToUndo
    BY DEF Bundle, RealBookings, ToUndo, Flights
  <2> QED
    BY <2>1 DEF Cancellation
<1>3. Cancellation(vb.returnFlight) \in Seq(ToUndo)
  <2>1. vb.returnFlight # NoKey => FlightTickets(vb.returnFlight) \in ToUndo
    BY DEF Bundle, RealBookings, ToUndo, Flights
  <2> QED
    BY <2>1 DEF Cancellation
<1>4. <<>> \in Seq(ToUndo)
  OBVIOUS
<1> QED
  BY <1>1, <1>2, <1>3, <1>4 DEF Compensations

\* One action at a time.
LEMMA UndoStep == TypeOK /\ SagaInv /\ UndoInv /\ [Next]_vars => UndoInv'
<1> SUFFICES ASSUME TypeOK, SagaInv, UndoInv, [Next]_vars
             PROVE  UndoInv'
  OBVIOUS
<1>h. inbox \in Inboxes /\ {"OnTicketBookingConfirmed", "CancelFlightTickets"} \subseteq Handlers
  BY NamesOfHandlers DEF TypeOK, Inboxes
<1> DEFINE Same  == UNCHANGED <<bundle, proc, confirmed, refunds, flightsCancelled>>
           Boxes == \A g \in {"OnTicketBookingConfirmed", "CancelFlightTickets"} :
                      inbox'[g] \subseteq inbox[g]
           Services == UNCHANGED <<confirmed, flightsBooked, refunds, flightsCancelled>>
<1>s. Same /\ Boxes /\ flightsBooked \subseteq flightsBooked' => UndoInv'
  <2> SUFFICES ASSUME Same, Boxes, flightsBooked \subseteq flightsBooked'
               PROVE  UndoInv'
    OBVIOUS
  <2>1. ToUndo \subseteq ToUndo'
    BY DEF ToUndo
  <2> QED
    BY <2>1, UndoQuiet DEF UndoInv
<1>p. ASSUME NEW h \in SagaHandlers, NEW p, proc' = [proc EXCEPT ![h] = p],
             p.vb.ticketIDs \in Seq(confirmed), p.todo \in Seq(ToUndo),
             Services, Boxes, bundle'.ticketIDs \in Seq(confirmed)
      PROVE  UndoInv'
  <2>1. ToUndo' = ToUndo
    BY <1>p DEF ToUndo
  <2>2. \A g \in SagaHandlers :
          proc'[g].vb.ticketIDs \in Seq(confirmed) /\ proc'[g].todo \in Seq(ToUndo)
    BY <1>p, UndoReplaced
  <2> QED
    BY <1>p, <2>1, <2>2, UndoQuiet DEF UndoInv
<1>e. <<>> \in Seq(confirmed) /\ <<>> \in Seq(ToUndo)
  OBVIOUS
<1>i. Idle.vb.ticketIDs \in Seq(confirmed) /\ Idle.todo \in Seq(ToUndo)
  BY <1>e, IdleUndo
<1>1. ASSUME Add PROVE UndoInv'
  <2>1. Same /\ flightsBooked' = flightsBooked
    BY <1>1 DEF Add, AddInsert, AddCommit, AddFails, services, booking, transport, outputs
  <2>2. Boxes
    BY <1>1, <1>h DEF Add, AddInsert, AddCommit, AddFails, Send, Heard, Deliver, Inboxes
  <2> QED
    BY <2>1, <2>2, <1>s
<1>2. ASSUME OnVipBundleInitialized PROVE UndoInv'
  <2>1. Same /\ flightsBooked' = flightsBooked
    BY <1>2 DEF OnVipBundleInitialized, saga, services, booking, transport, outputs
  <2>2. Boxes
    BY <1>2, <1>h DEF OnVipBundleInitialized, Ack, Send, Heard, Deliver, Inboxes
  <2> QED
    BY <2>1, <2>2, <1>s
<1>3. ASSUME OnBookingMade PROVE UndoInv'
  <2> DEFINE p == [Idle EXCEPT !.pc = "send"]
  <2>1. Services /\ Boxes /\ proc' = [proc EXCEPT !["OnBookingMade"] = p]
    BY <1>3 DEF OnBookingMade, services, booking, transport, outputs
  <2>2. bundle'.ticketIDs = bundle.ticketIDs
    BY <1>3 DEF OnBookingMade, TypeOK, Bundle
  <2>3. p.vb = Idle.vb /\ p.todo = Idle.todo
    BY IdleType DEF Process
  <2> HIDE DEF p
  <2> QED
    BY <2>1, <2>2, <2>3, <1>i, <1>p, NamesOfHandlers DEF UndoInv
<1>4. ASSUME OnBookingMadeSend PROVE UndoInv'
  <2>1. Services /\ UNCHANGED bundle /\ proc' = [proc EXCEPT !["OnBookingMade"] = Idle]
    BY <1>4 DEF OnBookingMadeSend, services, booking, transport, outputs
  <2>2. Boxes
    BY <1>4, <1>h DEF OnBookingMadeSend, Ack, Send, Heard, Deliver, Inboxes
  <2> QED
    BY <2>1, <2>2, <1>i, <1>p, NamesOfHandlers DEF UndoInv
<1>5. ASSUME NEW t \in Tickets, OnTicketBookingConfirmed(t) PROVE UndoInv'
  <2>1. Services /\ UNCHANGED proc
    BY <1>5 DEF OnTicketBookingConfirmed, services, booking, transport, outputs
  <2>2. Boxes
    BY <1>5, <1>h DEF OnTicketBookingConfirmed, Ack, Send, Heard, Inboxes
  <2>3. t \in confirmed
    BY <1>5, UndoElements DEF OnTicketBookingConfirmed, UndoInv
  <2>4. bundle'.ticketIDs = Append(bundle.ticketIDs, t)
    BY <1>5 DEF OnTicketBookingConfirmed, TypeOK, Bundle
  <2>5. bundle'.ticketIDs \in Seq(confirmed)
    BY <2>3, <2>4 DEF UndoInv
  <2>6. ToUndo' = ToUndo
    BY <2>1 DEF ToUndo
  <2> QED
    BY <2>1, <2>2, <2>5, <2>6, UndoQuiet DEF UndoInv
<1>6. ASSUME NEW t \in Tickets, DeadNationConfirms(t) PROVE UndoInv'
  <2>1. /\ UNCHANGED <<bundle, proc, refunds, flightsCancelled, flightsBooked>>
        /\ confirmed' = confirmed \cup {t}
        /\ inbox' = Deliver(inbox, "OnTicketBookingConfirmed", Ticket(t))
    BY <1>6, <1>h, SendContents, DeliverType, MessageTypes, NamesOfHandlers
    DEF DeadNationConfirms, saga, transport, outputs
  <2>2. ToUndo \subseteq ToUndo' /\ Ticket(t) \in ToUndo'
    BY <2>1 DEF ToUndo
  <2>3. /\ inbox'["OnTicketBookingConfirmed"] \subseteq ToUndo'
        /\ inbox'["CancelFlightTickets"] = inbox["CancelFlightTickets"]
    BY <2>1, <2>2, <1>h DEF Deliver, Inboxes, UndoInv
  <2> QED
    BY <2>1, <2>3, UndoQuiet DEF UndoInv
<1>w. ASSUME NEW h \in SagaHandlers, UpdateByIDWrite(h) PROVE UndoInv'
  <2> DEFINE p == [proc[h] EXCEPT !.pc = "send"]
  <2>1. Services /\ Boxes /\ bundle' = proc[h].vb /\ proc' = [proc EXCEPT ![h] = p]
    BY <1>w DEF UpdateByIDWrite, services, booking, transport, outputs
  <2>2. p.vb = proc[h].vb /\ p.todo = proc[h].todo
    BY DEF TypeOK, Process
  <2> HIDE DEF p
  <2> QED
    BY <2>1, <2>2, <1>p DEF UndoInv
<1>7. ASSUME OnFlightBooked PROVE UndoInv'
  <2>1. ASSUME NEW flight \in Flights, NEW key \in Keys, OnFlightBookedRead(flight, key)
        PROVE  UndoInv'
    <3> DEFINE p == [Idle EXCEPT !.pc = "write", !.msg = Flight(flight, key),
                                 !.vb = RecordFlight(bundle, flight, key)]
    <3>1. /\ Services /\ Boxes /\ UNCHANGED bundle
          /\ proc' = [proc EXCEPT !["OnFlightBooked"] = p]
      BY <2>1 DEF OnFlightBookedRead, services, booking, transport, outputs
    <3>2. RecordFlight(bundle, flight, key).ticketIDs = bundle.ticketIDs
      BY DEF RecordFlight, TypeOK, Bundle
    <3>3. p.vb.ticketIDs = bundle.ticketIDs /\ p.todo = Idle.todo
      BY <3>2, IdleType DEF Process
    <3> HIDE DEF p
    <3> QED
      BY <3>1, <3>3, <1>i, <1>p, NamesOfHandlers DEF UndoInv
  <2>2. CASE UpdateByIDWrite("OnFlightBooked")
    BY <2>2, <1>w, NamesOfHandlers
  <2>3. CASE OnFlightBookedSend
    <3>1. Services /\ UNCHANGED bundle /\ proc' = [proc EXCEPT !["OnFlightBooked"] = Idle]
      BY <2>3 DEF OnFlightBookedSend, services, booking, transport, outputs
    <3>2. Boxes
      BY <2>3, <1>h
      DEF OnFlightBookedSend, NextCommand, Ack, Send, Heard, Deliver, Inboxes
    <3> QED
      BY <3>1, <3>2, <1>i, <1>p, NamesOfHandlers DEF UndoInv
  <2> QED
    BY <1>7, <2>1, <2>2, <2>3 DEF OnFlightBooked
<1>8. ASSUME OnTaxiBooked PROVE UndoInv'
  <2>1. ASSUME NEW key \in Keys, OnTaxiBookedRead(key) PROVE UndoInv'
    <3> DEFINE p == [Idle EXCEPT !.pc = "write", !.msg = Taxi(key),
                                 !.vb = RecordTaxi(bundle, key)]
    <3>1. /\ Services /\ Boxes /\ UNCHANGED bundle
          /\ proc' = [proc EXCEPT !["OnTaxiBooked"] = p]
      BY <2>1 DEF OnTaxiBookedRead, services, booking, transport, outputs
    <3>2. RecordTaxi(bundle, key).ticketIDs = bundle.ticketIDs
      BY DEF RecordTaxi, TypeOK, Bundle
    <3>3. p.vb.ticketIDs = bundle.ticketIDs /\ p.todo = Idle.todo
      BY <3>2, IdleType DEF Process
    <3> HIDE DEF p
    <3> QED
      BY <3>1, <3>3, <1>i, <1>p, NamesOfHandlers DEF UndoInv
  <2>2. CASE UpdateByIDWrite("OnTaxiBooked")
    BY <2>2, <1>w, NamesOfHandlers
  <2>3. CASE OnTaxiBookedPublish
    <3>1. Services /\ UNCHANGED bundle /\ proc' = [proc EXCEPT !["OnTaxiBooked"] = Idle]
      BY <2>3 DEF OnTaxiBookedPublish, services, booking, transport
    <3>2. Boxes
      BY <2>3, <1>h DEF OnTaxiBookedPublish, Ack, Send, Heard, Inboxes
    <3> QED
      BY <3>1, <3>2, <1>i, <1>p, NamesOfHandlers DEF UndoInv
  <2> QED
    BY <1>8, <2>1, <2>2, <2>3 DEF OnTaxiBooked
<1>9. ASSUME NEW h \in RollbackHandlers, Rollback(h) PROVE UndoInv'
  <2>h. h \in SagaHandlers /\ proc[h] \in Process
    BY NamesOfHandlers DEF TypeOK
  <2>1. CASE RollbackGet(h)
    <3> DEFINE p == [Idle EXCEPT !.pc = "compensate", !.todo = Compensations(bundle)]
    <3>1. Services /\ Boxes /\ UNCHANGED bundle /\ proc' = [proc EXCEPT ![h] = p]
      BY <2>1 DEF RollbackGet, services, booking, transport, outputs
    <3>2. Compensations(bundle) \in Seq(ToUndo)
      BY CompensationsUndo DEF TypeOK, SagaInv, UndoInv
    <3>3. p.vb = Idle.vb /\ p.todo = Compensations(bundle)
      BY IdleType DEF Process
    <3> HIDE DEF p
    <3> QED
      BY <2>h, <3>1, <3>2, <3>3, <1>i, <1>p DEF UndoInv
  <2>2. CASE RollbackSend(h)
    <3> DEFINE p == [proc[h] EXCEPT !.todo = Tail(proc[h].todo)]
    <3>1. /\ UNCHANGED <<bundle, confirmed, flightsBooked, flightsCancelled>>
          /\ proc' = [proc EXCEPT ![h] = p]
      BY <2>2 DEF RollbackSend, services, booking, transport
    <3>2. Head(proc[h].todo) \in ToUndo /\ Tail(proc[h].todo) \in Seq(ToUndo)
      BY <2>2, <2>h DEF RollbackSend, UndoInv
    <3>3. p.vb = proc[h].vb /\ p.todo = Tail(proc[h].todo)
      BY <2>h DEF Process
    <3>4. ToUndo' = ToUndo
      BY <3>1 DEF ToUndo
    <3> HIDE DEF p
    <3>5. \A g \in SagaHandlers :
            proc'[g].vb.ticketIDs \in Seq(confirmed) /\ proc'[g].todo \in Seq(ToUndo)
      BY <2>h, <3>1, <3>2, <3>3, UndoReplaced DEF UndoInv
    <3>6. /\ inbox'["OnTicketBookingConfirmed"] \subseteq ToUndo
          /\ inbox'["CancelFlightTickets"] \subseteq ToUndo
      BY <2>2, <3>2, <1>h DEF RollbackSend, Send, Heard, Deliver, Inboxes, UndoInv
    <3>7. CompensatesOnlyWhatHappened'
      <4>1. ASSUME NEW key \in Keys, CancelRequested(key)'
            PROVE  \E flight \in Flights : Flight(flight, key) \in flightsBooked
        BY <3>1, <3>6, <4>1, UndoElements
        DEF CancelRequested, UndoInv, CompensatesOnlyWhatHappened
      <4>2. ASSUME NEW t \in Tickets, refunds'[t] > 0
            PROVE  t \in confirmed
        <5>1. CASE refunds[t] > 0
          BY <5>1 DEF UndoInv, CompensatesOnlyWhatHappened
        <5>2. CASE ~(refunds[t] > 0)
          <6>1. Head(proc[h].todo) = Ticket(t)
            BY <2>2, <4>2, <5>2 DEF RollbackSend, TypeOK
          <6> QED
            BY <3>2, <6>1, UndoElements
        <5> QED
          BY <5>1, <5>2
      <4> QED
        BY <3>1, <4>1, <4>2 DEF CompensatesOnlyWhatHappened
    <3> QED
      BY <3>1, <3>4, <3>5, <3>6, <3>7 DEF UndoInv
  <2>3. CASE RollbackRead(h)
    <3> DEFINE vb == [bundle EXCEPT !.isFinalized = TRUE, !.failed = TRUE]
               p  == [proc[h] EXCEPT !.pc = "write", !.vb = vb]
    <3>1. Services /\ Boxes /\ UNCHANGED bundle
      BY <2>3 DEF RollbackRead, services, booking, transport, outputs
    <3>2. proc' = [proc EXCEPT ![h] = p]
      BY <2>3, <2>h DEF RollbackRead, TypeOK
    <3>3. vb.ticketIDs = bundle.ticketIDs
      BY DEF TypeOK, Bundle
    <3> HIDE DEF vb
    <3>4. p.vb = vb /\ p.todo = proc[h].todo
      BY <2>h DEF Process
    <3> HIDE DEF p
    <3> QED
      BY <2>h, <3>1, <3>2, <3>3, <3>4, <1>p DEF UndoInv
  <2>4. CASE RollbackWrite(h)
    <3>1. Services /\ bundle' = proc[h].vb /\ proc' = [proc EXCEPT ![h] = Idle]
      BY <2>4 DEF RollbackWrite, services, booking, transport, outputs
    <3>2. Boxes
      BY <2>4, <2>h, <1>h, NamesOfHandlers DEF RollbackWrite, Ack, Send, Heard, Inboxes
    <3> QED
      BY <2>h, <3>1, <3>2, <1>i, <1>p DEF UndoInv
  <2> QED
    BY <1>9, <2>1, <2>2, <2>3, <2>4 DEF Rollback
<1>10. ASSUME NEW h \in SagaHandlers, HandlerFails(h) PROVE UndoInv'
  <2>1. Services /\ Boxes /\ UNCHANGED bundle /\ proc' = [proc EXCEPT ![h] = Idle]
    BY <1>10 DEF HandlerFails, services, booking, transport, outputs
  <2> QED
    BY <2>1, <1>i, <1>p DEF UndoInv
<1>11. ASSUME BookShowTickets \/ BookShowTicketsCommitLost PROVE UndoInv'
  <2>1. Same /\ flightsBooked' = flightsBooked
    BY <1>11 DEF BookShowTickets, BookShowTicketsCommitLost, saga, services, booking,
                 transport, outputs
  <2>2. Boxes
    BY <1>11, <1>h
    DEF BookShowTickets, BookShowTicketsCommitLost, Ack, Send, Heard, Deliver, Inboxes
  <2> QED
    BY <2>1, <2>2, <1>s
<1>12. ASSUME FlightCommand PROVE UndoInv'
  <2>1. Same /\ flightsBooked \subseteq flightsBooked'
    BY <1>12 DEF FlightCommand, BookFlight, BookFlightUnavailable, saga, services,
                 booking, transport, outputs
  <2>2. Boxes
    BY <1>12, <1>h
    DEF FlightCommand, BookFlight, BookFlightUnavailable, Ack, Send, Heard, Deliver,
                       Inboxes
  <2> QED
    BY <2>1, <2>2, <1>s
<1>13. ASSUME TaxiCommand PROVE UndoInv'
  <2>1. Same /\ flightsBooked' = flightsBooked
    BY <1>13 DEF TaxiCommand, BookTaxi, BookTaxiError, saga, booking, outputs
  <2>2. Boxes
    BY <1>13, <1>h
    DEF TaxiCommand, BookTaxi, BookTaxiError, Ack, Send, Heard, Deliver, Inboxes
  <2> QED
    BY <2>1, <2>2, <1>s
<1>14. ASSUME NEW key \in Keys, CancelFlightTickets(key) PROVE UndoInv'
  <2>1. /\ UNCHANGED <<bundle, proc, confirmed, flightsBooked, refunds>>
        /\ flightsCancelled' = flightsCancelled \cup {key}
        /\ FlightTickets(key) \in inbox["CancelFlightTickets"]
    BY <1>14 DEF CancelFlightTickets, saga, booking, outputs
  <2>2. Boxes
    BY <1>14, <1>h DEF CancelFlightTickets, Ack, Send, Heard, Inboxes
  <2>3. ToUndo' = ToUndo
    BY <2>1 DEF ToUndo
  <2>4. \A k \in Keys : CancelRequested(k)' => CancelRequested(k)
    BY <2>1, <2>2 DEF CancelRequested
  <2>5. CompensatesOnlyWhatHappened'
    BY <2>1, <2>4 DEF UndoInv, CompensatesOnlyWhatHappened
  <2> QED
    BY <2>1, <2>2, <2>3, <2>5 DEF UndoInv
<1>15. CASE UNCHANGED vars
  BY <1>15, <1>s DEF vars, saga, services, booking, transport, outputs
<1>16. ASSUME StreamMoves PROVE UndoInv'
  <2>1. /\ UNCHANGED <<bundle, confirmed, flightsBooked, refunds, flightsCancelled>>
        /\ \A g \in Handlers : inbox'[g] \subseteq inbox[g]
        /\ proc' = proc \/ proc' = [h \in SagaHandlers |-> Idle]
    BY <1>16, StreamStep DEF services, booking, transport, outputs
  <2>2. \A h \in SagaHandlers :
          proc'[h].vb.ticketIDs \in Seq(confirmed) /\ proc'[h].todo \in Seq(ToUndo)
    <3>1. <<>> \in Seq(confirmed) /\ <<>> \in Seq(ToUndo)
      OBVIOUS
    <3> QED
      BY <2>1, <3>1, IdleUndo DEF UndoInv
  <2>3. ToUndo' = ToUndo
    BY <2>1 DEF ToUndo
  <2>4. /\ inbox'["OnTicketBookingConfirmed"] \subseteq ToUndo'
        /\ inbox'["CancelFlightTickets"] \subseteq inbox["CancelFlightTickets"]
        /\ bundle'.ticketIDs \in Seq(confirmed)
    BY <2>1, <2>3, NamesOfHandlers DEF UndoInv
  <2> QED
    BY <2>1, <2>2, <2>4, UndoQuiet
<1> QED
  BY <1>1, <1>2, <1>3, <1>4, <1>5, <1>6, <1>7, <1>8, <1>9, <1>10, <1>11, <1>12,
     <1>13, <1>14, <1>15, <1>16 DEF Next

\* UndoInv is an invariant.
LEMMA UndoInvariant == Spec => []UndoInv
<1>1. Init => UndoInv
  <2> SUFFICES ASSUME Init PROVE UndoInv
    OBVIOUS
  <2>1. inbox["OnTicketBookingConfirmed"] = {} /\ inbox["CancelFlightTickets"] = {}
    BY NamesOfHandlers DEF Init
  <2>2. /\ bundle.ticketIDs = <<>>
        /\ \A h \in SagaHandlers : proc[h] = Idle
    BY DEF Init, NewVipBundle
  <2>3. CompensatesOnlyWhatHappened
    <3>1. flightsCancelled = {} /\ refunds = [t \in Tickets |-> 0]
      BY DEF Init
    <3> QED
      BY <2>1, <3>1 DEF CompensatesOnlyWhatHappened, CancelRequested
  <2>4. <<>> \in Seq(confirmed) /\ <<>> \in Seq(ToUndo)
    OBVIOUS
  <2> QED
    BY <2>1, <2>2, <2>3, <2>4, IdleUndo DEF UndoInv
<1> QED
  BY <1>1, UndoStep, TypeCorrect, SagaInvariant, PTL DEF Spec

\* However often its handlers are repeated, and whatever copy of the row they use, a
\* rollback cancels only flights that were booked and refunds only confirmed tickets.
THEOREM CompensatesOnlyWhatHappenedHolds == Spec => []CompensatesOnlyWhatHappened
<1>1. UndoInv => CompensatesOnlyWhatHappened
  BY DEF UndoInv
<1> QED
  BY <1>1, UndoInvariant, PTL

-----------------------------------------------------------------------------
(* The first run of a bundle: nothing was redelivered, no handler failed          *)
(*                                                                              *)
(* RollbackComplete, RefundsAwaitConfirmations and FinalizedIsStable speak of   *)
(* the bundles whose messages were all handled once.  What they need is said in *)
(* five parts, each an invariant while redeliveries = 0: OneAtATime (the saga   *)
(* is at one of its steps only), AtWork (a handler at work holds its message),  *)
(* RowIsComplete (the row knows of each flight, or the handler that will tell   *)
(* it is about to), ListedInv (the row lists no ticket twice) and RollbackInv   *)
(* (what a rollback has sent and has still to send undoes everything).          *)

\* The inboxes of the handlers that lead to the booking of both flights.
FlightInboxes ==
  {"OnVipBundleInitialized", "BookShowTickets", "OnBookingMade", "BookFlight", "OnFlightBooked"}

\* The bundle was created, its show booked, and nothing is on its way that could book one
\* more flight.
FlightsOver ==
  /\ added = "yes" /\ showBooked
  /\ \A h \in FlightInboxes : inbox[h] = {}

\* The taxi or the rollback has begun.
AfterFlights ==
  \/ \E h \in {"BookTaxi", "OnTaxiBooked"} \cup RollbackHandlers : inbox[h] # {}
  \/ \E h \in {"OnTaxiBooked"} \cup RollbackHandlers : proc[h].pc # "idle"
  \/ bundle.isFinalized

\* The show is asked for and booked once, and each inbox before the flights holds one
\* message at most.
ShowOnce ==
  /\ \A h \in FlightInboxes : \A m, n \in inbox[h] : m = n
  /\ added # "yes" => inbox["OnVipBundleInitialized"] = {}
  /\ added # "yes" \/ inbox["OnVipBundleInitialized"] # {} =>
       inbox["BookShowTickets"] = {} /\ ~showBooked
  /\ inbox["BookShowTickets"] # {} => ~showBooked

\* One flight command or event is under way at a time, a leg is booked once, and the
\* event of the inbound flight is handled before the return flight is booked.
FlightOnce ==
  /\ inbox["BookFlight"] \subseteq Flights \X Keys
  /\ inbox["OnBookingMade"] # {} => inbox["BookFlight"] = {} /\ flightsBooked = {}
  /\ inbox["BookFlight"] # {} => inbox["OnFlightBooked"] = {}
  /\ \A flight \in Flights, key, other \in Keys :
       Flight(flight, other) \in flightsBooked =>
         /\ Flight(flight, key) \notin inbox["BookFlight"]
         /\ Flight(flight, key) \in flightsBooked => key = other
  /\ \A key, other \in Keys :
       Flight("inbound", key) \in inbox["OnFlightBooked"] =>
         Flight("return", other) \notin flightsBooked

\* The saga is at one of its steps: creating the bundle, booking the show, one flight,
\* the other, or what comes after the flights.
OneAtATime == ShowOnce /\ FlightOnce /\ (AfterFlights => FlightsOver)

\* A handler that is at work has its message still in its inbox.
AtWork ==
  /\ proc["OnBookingMade"].pc # "idle" =>
       Signal \in inbox["OnBookingMade"] /\ bundle.bookingMade
  /\ \A h \in {"OnFlightBooked", "OnTaxiBooked"} :
       proc[h].pc # "idle" => proc[h].pc # "compensate" /\ proc[h].msg \in inbox[h]
  /\ proc["OnFlightBooked"].pc # "idle" => ~proc["OnFlightBooked"].vb.isFinalized
  /\ \A h \in RollbackHandlers : proc[h].pc # "send"
  /\ \A h \in {"OnTaxiBooked"} \cup RollbackHandlers :
       proc[h].pc = "write" => proc[h].vb.isFinalized

\* The key under which a copy of the row has recorded a flight.
KeyOf(vb, flight) ==
  IF flight = "inbound" THEN vb.inboundFlight ELSE vb.returnFlight

\* The copy knows of the booking and of every flight that was booked.
Complete(vb) ==
  /\ vb.bookingMade
  /\ \A flight \in Flights, key \in Keys :
       Flight(flight, key) \in flightsBooked => KeyOf(vb, flight) = key

\* The row knows of the booking once a flight was asked for, and of every flight booked,
\* except for the one whose event is being handled; copies written back know of all.
RowIsComplete ==
  /\ inbox["BookFlight"] # {} \/ flightsBooked # {} \/ AfterFlights => bundle.bookingMade
  /\ \A flight \in Flights, key \in Keys :
       Flight(flight, key) \in flightsBooked =>
         \/ KeyOf(bundle, flight) = key
         \/ /\ Flight(flight, key) \in inbox["OnFlightBooked"]
            /\ proc["OnFlightBooked"].pc # "send"
  /\ proc["OnFlightBooked"].pc # "idle" => Complete(proc["OnFlightBooked"].vb)
  /\ \A h \in {"OnTaxiBooked"} \cup RollbackHandlers :
       proc[h].pc = "write" => Complete(proc[h].vb)

\* While nothing is redelivered an ack gets through.
LEMMA FirstAck ==
  ASSUME TypeOK, listening, redeliveries' = 0, NEW h \in Handlers, NEW n,
         NEW box \in Inboxes, Ack(h, n, box)
  PROVE  /\ redeliveries = 0
         /\ inbox' = [box EXCEPT ![h] = @ \ {n}]
         /\ inbox'[h] = box[h] \ {n}
         /\ \A f \in Handlers \ {h} : inbox'[f] = box[f]
<1>1. redeliveries = 0 /\ Send([box EXCEPT ![h] = @ \ {n}])
  BY DEF Ack, TypeOK
<1>2. [box EXCEPT ![h] = @ \ {n}] \in Inboxes
  BY DEF Inboxes
<1>3. inbox' = [box EXCEPT ![h] = @ \ {n}]
  BY <1>1, <1>2, SendContents
<1> QED
  BY <1>1, <1>3 DEF Inboxes

\* While nothing is redelivered, a handler that sends one message and acks its own
\* changes the two inboxes exactly so.
LEMMA FirstSend ==
  ASSUME TypeOK, listening, redeliveries' = 0, NEW g \in Handlers, NEW m \in Message,
         NEW h \in Handlers \ {g}, NEW n, Ack(h, n, Deliver(inbox, g, m))
  PROVE  /\ redeliveries = 0
         /\ inbox'[g] = inbox[g] \cup {m}
         /\ inbox'[h] = inbox[h] \ {n}
         /\ \A f \in Handlers \ {g, h} : inbox'[f] = inbox[f]
<1>1. inbox \in Inboxes /\ Deliver(inbox, g, m) \in Inboxes
  BY DEF TypeOK, Inboxes, Deliver
<1>2. /\ Deliver(inbox, g, m)[g] = inbox[g] \cup {m}
      /\ \A f \in Handlers \ {g} : Deliver(inbox, g, m)[f] = inbox[f]
  BY <1>1 DEF Deliver, Inboxes
<1>3. /\ redeliveries = 0
      /\ inbox'[h] = Deliver(inbox, g, m)[h] \ {n}
      /\ \A f \in Handlers \ {h} : inbox'[f] = Deliver(inbox, g, m)[f]
  BY <1>1, FirstAck
<1> QED
  BY <1>2, <1>3

\* FlightsOver lasts, and a step that sends none of the messages before it keeps the order.
LEMMA QuietOnce ==
  ASSUME TypeOK, OneAtATime, UNCHANGED <<added, showBooked, flightsBooked>>,
         \A h \in FlightInboxes : inbox'[h] \subseteq inbox[h],
         AfterFlights' => AfterFlights \/ FlightsOver'
  PROVE  OneAtATime'
<1>1. ShowOnce'
  BY DEF OneAtATime, ShowOnce, FlightInboxes
<1>2. FlightOnce'
  BY DEF OneAtATime, FlightOnce, FlightInboxes
<1>3. FlightsOver => FlightsOver'
  BY DEF FlightsOver
<1> QED
  BY <1>1, <1>2, <1>3 DEF OneAtATime

\* Once a flight was asked for, what comes before the flights is over.
LEMMA FlightsBegun ==
  ASSUME TypeOK, SagaInv, OneAtATime, flightsBooked # {} \/ inbox["BookFlight"] # {}
  PROVE  /\ added = "yes" /\ showBooked
         /\ inbox["OnVipBundleInitialized"] = {} /\ inbox["BookShowTickets"] = {}
         /\ inbox["OnBookingMade"] = {}
<1>1. PICK m \in Flights \X Keys : m \in flightsBooked \cup inbox["BookFlight"]
  BY DEF TypeOK, OneAtATime, FlightOnce
<1>2. PICK flight \in Flights, key \in Keys : m = Flight(flight, key)
  BY DEF Flight
<1>3. showBooked
  BY <1>1, <1>2 DEF SagaInv, SagaOrder, FlightRequested
<1> QED
  BY <1>3 DEF OneAtATime, ShowOnce, FlightOnce, TypeOK

\* Every action keeps the saga at one step.
LEMMA OneAtATimeStep ==
  ASSUME TypeOK, SagaInv, OneAtATime, AtWork, RowIsComplete, Next, ~StreamMoves,
         listening, redeliveries' = 0
  PROVE  OneAtATime'
<1>h. inbox \in Inboxes /\ proc \in [SagaHandlers -> Process]
  BY DEF TypeOK, Inboxes
<1>n. /\ FlightInboxes \subseteq Handlers
      /\ RollbackHandlers \subseteq SagaHandlers /\ SagaHandlers \subseteq Handlers
      /\ \A h \in {"OnTicketBookingConfirmed", "DeadNation", "BookTaxi",
                   "CancelFlightTickets", "OnTaxiBooked"} \cup RollbackHandlers :
           h \in Handlers \ FlightInboxes
  BY DEF FlightInboxes, Handlers, SagaHandlers, RollbackHandlers
<1>i. Idle.pc = "idle"
  BY DEF Idle
<1>p. \A h \in SagaHandlers : proc' = [proc EXCEPT ![h] = Idle] =>
        \A g \in SagaHandlers : proc[g].pc = "idle" => proc'[g].pc = "idle"
  BY <1>h, <1>i
<1>1. ASSUME Add PROVE OneAtATime'
  <2>1. CASE AddInsert
    BY <2>1, <1>h
    DEF AddInsert, services, booking, transport, OneAtATime, ShowOnce, FlightOnce,
        AfterFlights, FlightsOver
  <2>2. CASE AddCommit
    BY <2>2, <1>h, <1>n
    DEF AddCommit, services, booking, transport, OneAtATime, ShowOnce, FlightOnce,
        AfterFlights, FlightsOver, Send, Heard, Deliver, Inboxes, Handlers, RollbackHandlers,
        FlightInboxes, SagaHandlers
  <2>3. CASE AddFails
    BY <2>3 DEF AddFails, TypeOK
  <2> QED
    BY <1>1, <2>1, <2>2, <2>3 DEF Add
<1>2. ASSUME OnVipBundleInitialized PROVE OneAtATime'
  <2>1. /\ inbox'["BookShowTickets"] = inbox["BookShowTickets"] \cup {Signal}
        /\ inbox'["OnVipBundleInitialized"] = inbox["OnVipBundleInitialized"] \ {Signal}
        /\ \A f \in Handlers \ {"BookShowTickets", "OnVipBundleInitialized"} :
             inbox'[f] = inbox[f]
    BY <1>2, NamesOfHandlers, FirstSend, MessageTypes DEF OnVipBundleInitialized
  <2>2. /\ UNCHANGED <<added, bundle, proc, showBooked, flightsBooked>>
        /\ Signal \in inbox["OnVipBundleInitialized"]
    BY <1>2 DEF OnVipBundleInitialized, services, booking, transport, saga
  <2>3. ShowOnce'
    BY <2>1, <2>2, <1>n DEF OneAtATime, ShowOnce, FlightInboxes
  <2>4. FlightOnce'
    BY <2>1, <2>2, <1>n DEF OneAtATime, FlightOnce, FlightInboxes
  <2>5. ~AfterFlights'
    BY <2>1, <2>2, <1>n DEF OneAtATime, FlightInboxes, AfterFlights, FlightsOver
  <2> QED
    BY <2>3, <2>4, <2>5 DEF OneAtATime
<1>3. ASSUME OnBookingMade PROVE OneAtATime'
  <2>1. /\ UNCHANGED <<added, inbox, showBooked, flightsBooked>>
        /\ bundle'.isFinalized = bundle.isFinalized
        /\ \A h \in SagaHandlers \ {"OnBookingMade"} : proc'[h] = proc[h]
    BY <1>3, <1>h DEF OnBookingMade, services, booking, transport, TypeOK, Bundle
  <2>2. AfterFlights' => AfterFlights
    BY <2>1, NamesOfHandlers DEF AfterFlights, RollbackHandlers
  <2> QED
    BY <2>1, <2>2, QuietOnce
<1>4. ASSUME OnBookingMadeSend PROVE OneAtATime'
  <2> DEFINE m == Flight("inbound", nextKey)
  <2>1. m \in Message
    BY <1>4, MessageTypes DEF OnBookingMadeSend, TypeOK, Keys, Flights
  <2>2. /\ inbox'["BookFlight"] = inbox["BookFlight"] \cup {m}
        /\ inbox'["OnBookingMade"] = inbox["OnBookingMade"] \ {Signal}
        /\ \A f \in Handlers \ {"BookFlight", "OnBookingMade"} : inbox'[f] = inbox[f]
    BY <1>4, <2>1, NamesOfHandlers, FirstSend DEF OnBookingMadeSend
  <2>3. /\ UNCHANGED <<added, bundle, showBooked, flightsBooked>>
        /\ \A h \in SagaHandlers \ {"OnBookingMade"} : proc'[h] = proc[h]
        /\ Signal \in inbox["OnBookingMade"]
    BY <1>4, <1>h, NamesOfHandlers
    DEF OnBookingMadeSend, services, booking, transport, AtWork
  <2>4. inbox["OnBookingMade"] = {Signal}
    BY <2>3 DEF OneAtATime, ShowOnce, FlightInboxes
  <2>5. ~AfterFlights'
    BY <2>2, <2>3, <1>n, NamesOfHandlers
    DEF OneAtATime, FlightInboxes, AfterFlights, FlightsOver, RollbackHandlers
  <2>6. ShowOnce'
    BY <2>2, <2>3, <2>4, <1>n DEF OneAtATime, ShowOnce, FlightOnce, FlightInboxes
  <2>7. FlightOnce'
    <3>1. /\ inbox'["BookFlight"] = {m} /\ inbox'["OnBookingMade"] = {} /\ flightsBooked = {}
          /\ inbox'["OnFlightBooked"] = {}
      BY <2>2, <2>3, <2>4, <1>n DEF OneAtATime, FlightOnce, FlightInboxes, SagaInv
    <3>2. m \in Flights \X Keys
      BY <1>4 DEF OnBookingMadeSend, TypeOK, Keys, Flights, Flight
    <3> QED
      BY <2>3, <3>1, <3>2 DEF FlightOnce
  <2> QED
    BY <2>5, <2>6, <2>7 DEF OneAtATime
<1>5. ASSUME NEW t \in Tickets, OnTicketBookingConfirmed(t) PROVE OneAtATime'
  <2>1. \A f \in Handlers \ {"OnTicketBookingConfirmed"} : inbox'[f] = inbox[f]
    BY <1>5, <1>h, NamesOfHandlers, FirstAck DEF OnTicketBookingConfirmed
  <2>2. /\ UNCHANGED <<added, proc, showBooked, flightsBooked>>
        /\ bundle'.isFinalized = bundle.isFinalized
    BY <1>5 DEF OnTicketBookingConfirmed, services, booking, transport, TypeOK, Bundle
  <2> QED
    BY <2>1, <2>2, <1>n, QuietOnce DEF AfterFlights, RollbackHandlers, FlightInboxes
<1>6. ASSUME NEW t \in Tickets, DeadNationConfirms(t) PROVE OneAtATime'
  <2>1. /\ UNCHANGED <<added, proc, bundle, showBooked, flightsBooked>>
        /\ \A f \in Handlers \ {"OnTicketBookingConfirmed"} : inbox'[f] = inbox[f]
    BY <1>6, <1>h DEF DeadNationConfirms, saga, transport, Send, Heard, Deliver, Inboxes
  <2> QED
    BY <2>1, <1>n, QuietOnce DEF AfterFlights, RollbackHandlers, FlightInboxes
<1>7. ASSUME NEW flight \in Flights, NEW key \in Keys, OnFlightBookedRead(flight, key)
      PROVE  OneAtATime'
  <2>1. /\ UNCHANGED <<added, inbox, bundle, showBooked, flightsBooked>>
        /\ \A h \in SagaHandlers \ {"OnFlightBooked"} : proc'[h] = proc[h]
    BY <1>7, <1>h DEF OnFlightBookedRead, services, booking, transport
  <2> QED
    BY <2>1, NamesOfHandlers, QuietOnce DEF AfterFlights, RollbackHandlers
<1>8. ASSUME UpdateByIDWrite("OnFlightBooked") PROVE OneAtATime'
  <2>1. /\ UNCHANGED <<added, inbox, showBooked, flightsBooked>>
        /\ \A h \in SagaHandlers \ {"OnFlightBooked"} : proc'[h] = proc[h]
        /\ bundle' = proc["OnFlightBooked"].vb
        /\ proc["OnFlightBooked"].pc # "idle"
    BY <1>8, <1>h DEF UpdateByIDWrite, services, booking, transport
  <2>2. ~proc["OnFlightBooked"].vb.isFinalized
    BY <2>1 DEF AtWork
  <2> QED
    BY <2>1, <2>2, NamesOfHandlers, QuietOnce DEF AfterFlights, RollbackHandlers
<1>9. ASSUME OnFlightBookedSend PROVE OneAtATime'
  <2> DEFINE me == proc["OnFlightBooked"]
  <2>1. /\ UNCHANGED <<added, bundle, showBooked, flightsBooked>>
        /\ \A h \in SagaHandlers \ {"OnFlightBooked"} : proc'[h] = proc[h]
        /\ me.msg \in inbox["OnFlightBooked"]
        /\ me.pc # "idle"
    BY <1>9, <1>h, NamesOfHandlers
    DEF OnFlightBookedSend, services, booking, transport, AtWork
  <2>b. /\ added = "yes" /\ showBooked
        /\ \A h \in FlightInboxes \ {"OnFlightBooked"} : inbox[h] = {}
        /\ inbox["OnFlightBooked"] = {me.msg}
    <3>1. me.msg \in flightsBooked
      BY <2>1 DEF SagaInv
    <3> QED
      BY <2>1, <3>1, FlightsBegun DEF OneAtATime, ShowOnce, FlightOnce, FlightInboxes
  <2>2. CASE ~HasNextCommand(me.vb)
    BY <1>9, <2>1, <2>2, NamesOfHandlers, QuietOnce
    DEF OnFlightBookedSend, AfterFlights, RollbackHandlers
  <2>3. CASE HasNextCommand(me.vb) /\ me.vb.returnFlight # NoKey
    <3>1. nextKey \in Keys
      BY <1>9, <2>3 DEF OnFlightBookedSend, TypeOK, Keys
    <3>2. /\ inbox'["BookTaxi"] = inbox["BookTaxi"] \cup {Taxi(nextKey)}
          /\ inbox'["OnFlightBooked"] = inbox["OnFlightBooked"] \ {me.msg}
          /\ \A f \in Handlers \ {"BookTaxi", "OnFlightBooked"} : inbox'[f] = inbox[f]
      BY <1>9, <2>3, <3>1, MessageTypes, NamesOfHandlers, FirstSend
      DEF OnFlightBookedSend, NextCommand
    <3>3. FlightsOver'
      <4>1. \A f \in FlightInboxes \ {"OnFlightBooked"} : inbox'[f] = {}
        BY <3>2, <2>b, <1>n
      <4>2. inbox'["OnFlightBooked"] = {}
        BY <3>2, <2>b
      <4> QED
        BY <2>1, <2>b, <4>1, <4>2 DEF FlightsOver
    <3> QED
      <4>1. \A f \in FlightInboxes : inbox'[f] \subseteq inbox[f]
        BY <3>2, <1>n DEF FlightInboxes
      <4> QED
        BY <2>1, <3>3, <4>1, QuietOnce
  <2>4. CASE HasNextCommand(me.vb) /\ me.vb.returnFlight = NoKey
    <3> DEFINE m == Flight("return", nextKey)
    <3>1. m \in Message
      BY <1>9, <2>4, MessageTypes DEF OnFlightBookedSend, TypeOK, Keys, Flights
    <3>2. /\ inbox'["BookFlight"] = inbox["BookFlight"] \cup {m}
          /\ inbox'["OnFlightBooked"] = inbox["OnFlightBooked"] \ {me.msg}
          /\ \A f \in Handlers \ {"BookFlight", "OnFlightBooked"} : inbox'[f] = inbox[f]
      BY <1>9, <2>4, <3>1, NamesOfHandlers, FirstSend DEF OnFlightBookedSend, NextCommand
    <3>3. ~AfterFlights'
      BY <2>1, <3>2, <1>n, NamesOfHandlers
      DEF OneAtATime, FlightInboxes, AfterFlights, FlightsOver, RollbackHandlers
    <3>4. ShowOnce'
      BY <2>1, <2>b, <3>2, <1>n DEF OneAtATime, ShowOnce, FlightInboxes
    <3>5. \A key \in Keys : Flight("return", key) \notin flightsBooked
      BY <2>1, <2>4, ConstantsAssumption
      DEF RowIsComplete, Complete, KeyOf, Flights, Keys, NoKey
    <3>6. FlightOnce'
      <4>1. /\ inbox'["BookFlight"] = {m} /\ inbox'["OnFlightBooked"] = {}
            /\ inbox'["OnBookingMade"] = {}
        BY <2>b, <3>2, <1>n DEF FlightInboxes
      <4>2. m \in Flights \X Keys
        BY <1>9, <2>4 DEF OnFlightBookedSend, TypeOK, Keys, Flights, Flight
      <4> QED
        BY <2>1, <4>1, <4>2, <3>5 DEF OneAtATime, FlightOnce, Flight
    <3> QED
      BY <3>3, <3>4, <3>6 DEF OneAtATime
  <2> QED
    BY <2>2, <2>3, <2>4
<1>10. ASSUME OnTaxiBooked PROVE OneAtATime'
  <2>1. ASSUME NEW key \in Keys, OnTaxiBookedRead(key) PROVE OneAtATime'
    <3>1. /\ UNCHANGED <<added, inbox, bundle, showBooked, flightsBooked>>
          /\ inbox["OnTaxiBooked"] # {}
      BY <2>1 DEF OnTaxiBookedRead, services, booking, transport
    <3>2. AfterFlights
      BY <3>1 DEF AfterFlights
    <3> QED
      BY <3>1, <3>2, QuietOnce
  <2>2. CASE UpdateByIDWrite("OnTaxiBooked")
    <3>1. /\ UNCHANGED <<added, inbox, showBooked, flightsBooked>>
          /\ proc["OnTaxiBooked"].pc # "idle"
      BY <2>2 DEF UpdateByIDWrite, services, booking, transport
    <3>2. AfterFlights
      BY <3>1 DEF AfterFlights
    <3> QED
      BY <3>1, <3>2, QuietOnce
  <2>3. CASE OnTaxiBookedPublish
    <3>1. /\ UNCHANGED <<added, bundle, showBooked, flightsBooked>>
          /\ proc["OnTaxiBooked"].pc # "idle"
          /\ \A f \in Handlers \ {"OnTaxiBooked"} : inbox'[f] = inbox[f]
      BY <2>3, <1>h, NamesOfHandlers, FirstAck
      DEF OnTaxiBookedPublish, services, booking, transport
    <3>2. AfterFlights
      BY <3>1 DEF AfterFlights
    <3> QED
      BY <3>1, <3>2, <1>n, QuietOnce DEF FlightInboxes
  <2> QED
    BY <1>10, <2>1, <2>2, <2>3 DEF OnTaxiBooked
<1>11. ASSUME NEW h \in RollbackHandlers, Rollback(h) PROVE OneAtATime'
  <2>1. /\ UNCHANGED <<added, showBooked, flightsBooked>>
        /\ \A f \in FlightInboxes : inbox'[f] = inbox[f]
    <3>1. CASE RollbackWrite(h)
      <4>1. \A f \in Handlers \ {h} : inbox'[f] = inbox[f]
        BY <3>1, <1>h, <1>n, FirstAck DEF RollbackWrite
      <4> QED
        BY <3>1, <4>1, <1>n DEF RollbackWrite, services, booking, transport
    <3>2. CASE RollbackGet(h) \/ RollbackRead(h)
      BY <3>2 DEF RollbackGet, RollbackRead, services, booking, transport
    <3>3. CASE RollbackSend(h)
      <4>1. /\ UNCHANGED <<added, showBooked, flightsBooked>>
            /\ inbox' = inbox \/ \E m : inbox' = Deliver(inbox, "CancelFlightTickets", m)
        BY <3>3, <1>h, SendContents, DeliverType, MessageTypes, NamesOfHandlers
        DEF RollbackSend, services, booking, transport
      <4> QED
        BY <4>1, <1>h, <1>n DEF Deliver, Inboxes
    <3> QED
      BY <1>11, <3>1, <3>2, <3>3 DEF Rollback
  <2>2. AfterFlights
    BY <1>11
    DEF Rollback, RollbackGet, RollbackSend, RollbackRead, RollbackWrite, AfterFlights
  <2> QED
    BY <2>1, <2>2, QuietOnce
<1>12. ASSUME NEW h \in SagaHandlers, HandlerFails(h) PROVE OneAtATime'
  BY <1>12 DEF HandlerFails, TypeOK
<1>13. ASSUME BookShowTickets PROVE OneAtATime'
  <2>1. /\ UNCHANGED <<added, bundle, proc, flightsBooked>>
        /\ showBooked' = TRUE /\ ~showBooked
        /\ Signal \in inbox["BookShowTickets"]
    BY <1>13 DEF BookShowTickets, saga, transport
  <2>2. /\ inbox'["BookShowTickets"] = inbox["BookShowTickets"] \ {Signal}
        /\ inbox'["OnBookingMade"] = inbox["OnBookingMade"] \cup {Signal}
        /\ \A f \in Handlers \ {"BookShowTickets", "OnBookingMade", "DeadNation"} : inbox'[f] = inbox[f]
    <3> DEFINE box == Deliver(Deliver(inbox, "OnBookingMade", Signal), "DeadNation", Signal)
    <3>1. box \in Inboxes
      BY <1>h, MessageTypes, DeliverType, NamesOfHandlers
    <3>2. /\ box["OnBookingMade"] = inbox["OnBookingMade"] \cup {Signal}
          /\ \A f \in Handlers \ {"OnBookingMade", "DeadNation"} : box[f] = inbox[f]
      BY <1>h, <1>n DEF Deliver, Inboxes, Handlers, SagaHandlers
    <3>3. Ack("BookShowTickets", Signal, box)
      BY <1>13 DEF BookShowTickets
    <3> HIDE DEF box
    <3>4. /\ inbox'["BookShowTickets"] = box["BookShowTickets"] \ {Signal}
          /\ \A f \in Handlers \ {"BookShowTickets"} : inbox'[f] = box[f]
      BY <3>1, <3>3, <1>n, FirstAck DEF FlightInboxes
    <3> QED
      BY <3>2, <3>4, <1>n DEF FlightInboxes
  <2>3. /\ inbox["BookFlight"] = {} /\ flightsBooked = {} /\ inbox["OnBookingMade"] = {}
        /\ inbox["OnFlightBooked"] = {} /\ ~AfterFlights
        /\ inbox["BookShowTickets"] = {Signal}
        /\ added = "yes" /\ inbox["OnVipBundleInitialized"] = {}
    <3>1. /\ ~AfterFlights /\ inbox["BookShowTickets"] = {Signal} /\ added = "yes"
          /\ inbox["OnVipBundleInitialized"] = {} /\ inbox["OnBookingMade"] = {}
      BY <2>1 DEF OneAtATime, ShowOnce, FlightInboxes, FlightsOver, SagaInv
    <3>2. \A flight \in Flights : ~FlightRequested(flight)
      BY <2>1 DEF SagaInv, SagaOrder
    <3>3. inbox["BookFlight"] \subseteq Flights \X Keys
      BY DEF OneAtATime, FlightOnce
    <3> QED
      BY <3>1, <3>2, <3>3 DEF FlightRequested, Flight, SagaInv, TypeOK
  <2>4. ShowOnce'
    BY <2>1, <2>2, <2>3, <1>n DEF OneAtATime, ShowOnce, FlightInboxes
  <2>5. FlightOnce'
    BY <2>1, <2>2, <2>3, <1>n DEF OneAtATime, FlightOnce, FlightInboxes
  <2>6. ~AfterFlights'
    BY <2>1, <2>2, <2>3, <1>n DEF AfterFlights, RollbackHandlers
  <2> QED
    BY <2>4, <2>5, <2>6 DEF OneAtATime
<1>14. ASSUME BookShowTicketsCommitLost PROVE OneAtATime'
  <2>1. /\ UNCHANGED <<added, bundle, proc, showBooked, flightsBooked>>
        /\ \A f \in Handlers : inbox'[f] \subseteq inbox[f]
    BY <1>14, <1>h, CommitLostStep
    DEF BookShowTicketsCommitLost, saga, services, booking, transport
  <2> QED
    BY <2>1, <1>n, QuietOnce DEF AfterFlights
<1>15. ASSUME NEW flight \in Flights, NEW key \in Keys, BookFlight(flight, key)
       PROVE  OneAtATime'
  <2> DEFINE m == Flight(flight, key)
  <2>1. /\ UNCHANGED <<added, bundle, proc, showBooked>>
        /\ flightsBooked' = flightsBooked \cup {m}
        /\ m \in inbox["BookFlight"]
    BY <1>15 DEF BookFlight, saga, booking, Flight
  <2>2. /\ inbox'["OnFlightBooked"] = inbox["OnFlightBooked"] \cup {m}
        /\ inbox'["BookFlight"] = inbox["BookFlight"] \ {m}
        /\ \A f \in Handlers \ {"OnFlightBooked", "BookFlight"} : inbox'[f] = inbox[f]
    <3>1. Ack("BookFlight", m, Deliver(inbox, "OnFlightBooked", m))
      BY <1>15 DEF BookFlight, TypeOK
    <3> QED
      BY <3>1, MessageTypes, NamesOfHandlers, FirstSend
  <2>3. /\ inbox["BookFlight"] = {m} /\ inbox["OnFlightBooked"] = {}
        /\ showBooked /\ ~AfterFlights
        /\ \A f \in FlightInboxes \ {"BookFlight"} : inbox[f] = {}
    BY <2>1, FlightsBegun DEF OneAtATime, ShowOnce, FlightOnce, FlightsOver, FlightInboxes
  <2>4. ShowOnce'
    BY <2>1, <2>2, <2>3, <1>n DEF OneAtATime, ShowOnce, FlightInboxes
  <2>5. FlightOnce'
    <3>1. /\ inbox'["OnFlightBooked"] = {m}
          /\ inbox'["BookFlight"] = {} /\ inbox'["OnBookingMade"] = {}
          /\ \A other \in Flights, k \in Keys :
               Flight(other, k) \in inbox["BookFlight"] => Flight(other, k) = m
      BY <2>2, <2>3, <1>n DEF FlightInboxes
    <3>2. \A k \in Keys : Flight(flight, k) \notin flightsBooked
      BY <2>1 DEF OneAtATime, FlightOnce
    <3>3. \A other \in Flights, k, l \in Keys :
            Flight(other, k) \in flightsBooked' /\ Flight(other, l) \in flightsBooked' => k = l
      BY <2>1, <3>2 DEF OneAtATime, FlightOnce, Flight
    <3>4. flight = "inbound" => \A k \in Keys : Flight("return", k) \notin flightsBooked
      <4>1. ASSUME flight = "inbound", NEW k \in Keys, Flight("return", k) \in flightsBooked
            PROVE  FALSE
        <5>1. Booked("inbound")
          BY <4>1 DEF SagaInv, SagaOrder, FlightRequested, Flights
        <5> QED
          BY <4>1, <5>1, <3>2 DEF Booked
      <4> QED
        BY <4>1
    <3> QED
      BY <2>1, <3>1, <3>3, <3>4 DEF FlightOnce, Flight
  <2>6. ~AfterFlights'
    BY <2>1, <2>2, <2>3, <1>n DEF AfterFlights, RollbackHandlers
  <2> QED
    BY <2>4, <2>5, <2>6 DEF OneAtATime
<1>16. ASSUME NEW flight \in Flights, NEW key \in Keys, BookFlightUnavailable(flight, key)
       PROVE  OneAtATime'
  <2> DEFINE m == Flight(flight, key)
  <2>1. /\ UNCHANGED <<added, bundle, proc, showBooked, flightsBooked>>
        /\ m \in inbox["BookFlight"]
    BY <1>16 DEF BookFlightUnavailable, saga, services, booking, transport
  <2>2. /\ inbox'["BookFlight"] = inbox["BookFlight"] \ {m}
        /\ \A f \in Handlers \ {"OnFlightBookingFailed", "BookFlight"} : inbox'[f] = inbox[f]
    BY <1>16, MessageTypes, NamesOfHandlers, FirstSend
    DEF BookFlightUnavailable, RollbackHandlers
  <2>3. FlightsOver'
    <3>1. \A f \in FlightInboxes \ {"BookFlight"} : inbox[f] = {}
      BY <2>1, FlightsBegun DEF OneAtATime, FlightOnce, FlightInboxes
    <3>2. inbox["BookFlight"] = {m}
      BY <2>1 DEF OneAtATime, ShowOnce, FlightInboxes
    <3>3. \A f \in FlightInboxes : inbox'[f] = {}
      BY <2>2, <3>1, <3>2, <1>n DEF RollbackHandlers
    <3> QED
      BY <2>1, <3>3, FlightsBegun DEF FlightsOver
  <2> QED
    <3>1. \A f \in FlightInboxes : inbox'[f] \subseteq inbox[f]
      BY <2>2, <1>n DEF RollbackHandlers
    <3> QED
      BY <2>1, <2>3, <3>1, QuietOnce
<1>17. ASSUME NEW key \in Keys, BookTaxi(key) \/ BookTaxiError(key) PROVE OneAtATime'
  <2>1. /\ UNCHANGED <<added, bundle, proc, showBooked, flightsBooked>>
        /\ inbox["BookTaxi"] # {}
    BY <1>17 DEF BookTaxi, BookTaxiError, saga, booking
  <2>2. \A f \in FlightInboxes : inbox'[f] = inbox[f]
    <3>1. CASE BookTaxi(key)
      <4>1. Ack("BookTaxi", Taxi(key), Deliver(inbox, "OnTaxiBooked", Taxi(key)))
        BY <3>1 DEF BookTaxi, TypeOK
      <4> QED
        BY <4>1, <1>n, MessageTypes, NamesOfHandlers, FirstSend
    <3>2. CASE BookTaxiError(key)
      <4>1. inbox' = Deliver(inbox, "OnTaxiBookingFailed", Signal)
        BY <3>2, <1>h, SendContents, DeliverType, MessageTypes, NamesOfHandlers
        DEF BookTaxiError, RollbackHandlers
      <4> QED
        BY <4>1, <1>h DEF Deliver, FlightInboxes, Inboxes
    <3> QED
      BY <1>17, <3>1, <3>2
  <2>3. AfterFlights
    BY <2>1 DEF AfterFlights
  <2> QED
    BY <2>1, <2>2, <2>3, QuietOnce
<1>18. ASSUME NEW key \in Keys, CancelFlightTickets(key) PROVE OneAtATime'
  <2>1. /\ UNCHANGED <<added, bundle, proc, showBooked, flightsBooked>>
        /\ \A f \in Handlers \ {"CancelFlightTickets"} : inbox'[f] = inbox[f]
    BY <1>18, <1>h, NamesOfHandlers, FirstAck DEF CancelFlightTickets, saga, booking
  <2> QED
    BY <2>1, <1>n, QuietOnce DEF AfterFlights, RollbackHandlers, FlightInboxes
<1> QED
  BY <1>1, <1>2, <1>3, <1>4, <1>5, <1>6, <1>7, <1>8, <1>9, <1>10, <1>11, <1>12, <1>13,
     <1>14, <1>15, <1>16, <1>17, <1>18
  DEF Next, OnFlightBooked, FlightCommand, TaxiCommand

\* The handlers whose messages AtWork speaks of.
WorkInboxes == {"OnBookingMade", "OnFlightBooked", "OnTaxiBooked"}

\* A step of no handler of the process manager that acks none of their messages.
LEMMA QuietWork ==
  ASSUME AtWork, UNCHANGED proc, bundle.bookingMade => bundle'.bookingMade,
         \A h \in WorkInboxes : inbox[h] \subseteq inbox'[h]
  PROVE  AtWork'
BY DEF AtWork, WorkInboxes

\* A handler becomes idle and acks nothing but its own message.
LEMMA IdleWork ==
  ASSUME TypeOK, AtWork, NEW h \in SagaHandlers, proc' = [proc EXCEPT ![h] = Idle],
         bundle.bookingMade => bundle'.bookingMade,
         \A f \in WorkInboxes \ {h} : inbox[f] \subseteq inbox'[f]
  PROVE  AtWork'
<1>1. /\ proc'[h].pc = "idle"
      /\ \A f \in SagaHandlers \ {h} : proc'[f] = proc[f]
  BY DEF TypeOK, Idle
<1> QED
  BY <1>1, NamesOfHandlers DEF AtWork, WorkInboxes

\* While nothing is redelivered, the inbox of a handler loses no message but by its own ack.
LEMMA FirstAckKeeps ==
  ASSUME TypeOK, listening, redeliveries' = 0, NEW box \in Inboxes, NEW h \in Handlers, NEW n,
         Ack(h, n, box), \A f \in Handlers : inbox[f] \subseteq box[f]
  PROVE  \A f \in Handlers \ {h} : inbox[f] \subseteq inbox'[f]
BY FirstAck

\* A message that is sent replaces no other.
LEMMA DeliverKeeps ==
  ASSUME NEW box \in Inboxes, NEW h \in Handlers, NEW m
  PROVE  \A f \in Handlers : box[f] \subseteq Deliver(box, h, m)[f]
BY DEF Deliver, Inboxes

\* Every action leaves the handlers at work with their messages.
LEMMA AtWorkStep ==
  ASSUME TypeOK, OneAtATime, AtWork, RowIsComplete, Next, ~StreamMoves,
         listening, redeliveries' = 0
  PROVE  AtWork'
<1>h. inbox \in Inboxes /\ proc \in [SagaHandlers -> Process]
  BY DEF TypeOK, Inboxes
<1>n. /\ WorkInboxes \subseteq SagaHandlers
      /\ WorkInboxes \cap RollbackHandlers = {}
      /\ WorkInboxes \subseteq Handlers
      /\ \A h \in {"OnVipBundleInitialized", "OnTicketBookingConfirmed", "DeadNation",
                   "BookShowTickets", "BookFlight", "BookTaxi", "CancelFlightTickets"} :
           h \in Handlers \ SagaHandlers
  BY DEF WorkInboxes, Handlers, SagaHandlers, RollbackHandlers
<1>s. ASSUME NEW g \in Handlers, NEW m \in Message, NEW h \in Handlers, NEW n,
             Ack(h, n, Deliver(inbox, g, m))
      PROVE  \A f \in WorkInboxes \ {h} : inbox[f] \subseteq inbox'[f]
  BY <1>s, <1>h, <1>n, DeliverType, DeliverKeeps, FirstAckKeeps
<1>a. ASSUME NEW h \in Handlers, NEW n, Ack(h, n, inbox)
      PROVE  \A f \in WorkInboxes \ {h} : inbox[f] \subseteq inbox'[f]
  BY <1>a, <1>h, <1>n, FirstAckKeeps
<1>1. ASSUME Add PROVE AtWork'
  <2>1. UNCHANGED <<proc, bundle>>
    BY <1>1 DEF Add, AddInsert, AddCommit, AddFails
  <2>2. \A h \in WorkInboxes : inbox[h] \subseteq inbox'[h]
    BY <1>1, <1>h, <1>n
    DEF Add, AddInsert, AddCommit, AddFails, Send, Heard, Deliver, Inboxes
  <2> QED
    BY <2>1, <2>2, QuietWork
<1>2. ASSUME OnVipBundleInitialized PROVE AtWork'
  <2>1. UNCHANGED <<proc, bundle>>
    BY <1>2 DEF OnVipBundleInitialized, saga
  <2>2. \A h \in WorkInboxes : inbox[h] \subseteq inbox'[h]
    BY <1>2, <1>s, <1>n, MessageTypes DEF OnVipBundleInitialized
  <2> QED
    BY <2>1, <2>2, QuietWork
<1>3. ASSUME OnBookingMade PROVE AtWork'
  <2>1. /\ UNCHANGED inbox /\ Signal \in inbox["OnBookingMade"]
        /\ bundle'.bookingMade
        /\ \A h \in SagaHandlers \ {"OnBookingMade"} : proc'[h] = proc[h]
    BY <1>3, <1>h DEF OnBookingMade, TypeOK, Bundle
  <2> QED
    BY <2>1, NamesOfHandlers DEF AtWork, RollbackHandlers
<1>4. ASSUME OnBookingMadeSend PROVE AtWork'
  <2>1. proc' = [proc EXCEPT !["OnBookingMade"] = Idle] /\ UNCHANGED bundle
    BY <1>4 DEF OnBookingMadeSend
  <2>2. Flight("inbound", nextKey) \in Message
    BY <1>4, MessageTypes DEF OnBookingMadeSend, TypeOK, Keys, Flights
  <2>3. \A f \in WorkInboxes \ {"OnBookingMade"} : inbox[f] \subseteq inbox'[f]
    BY <1>4, <2>2, <1>s, <1>n, NamesOfHandlers DEF OnBookingMadeSend
  <2> QED
    BY <2>1, <2>3, IdleWork, NamesOfHandlers
<1>5. ASSUME NEW t \in Tickets, OnTicketBookingConfirmed(t) PROVE AtWork'
  <2>1. UNCHANGED proc /\ bundle'.bookingMade = bundle.bookingMade
    BY <1>5 DEF OnTicketBookingConfirmed, TypeOK, Bundle
  <2>2. \A f \in WorkInboxes : inbox[f] \subseteq inbox'[f]
    BY <1>5, <1>a, <1>n DEF OnTicketBookingConfirmed
  <2> QED
    BY <2>1, <2>2, QuietWork
<1>6. ASSUME NEW t \in Tickets, DeadNationConfirms(t) PROVE AtWork'
  <2>1. UNCHANGED <<proc, bundle>> /\ \A f \in Handlers : inbox[f] \subseteq inbox'[f]
    <3>1. inbox' = Deliver(inbox, "OnTicketBookingConfirmed", Ticket(t))
      BY <1>6, <1>h, SendContents, DeliverType, MessageTypes, NamesOfHandlers
      DEF DeadNationConfirms
    <3> QED
      BY <3>1, <1>6, <1>h, <1>n, DeliverKeeps DEF DeadNationConfirms, saga
  <2> QED
    BY <2>1, <1>n, QuietWork
<1>7. ASSUME NEW flight \in Flights, NEW key \in Keys, OnFlightBookedRead(flight, key)
      PROVE  AtWork'
  <2> DEFINE me == [Idle EXCEPT !.pc = "write", !.msg = Flight(flight, key),
                                !.vb = RecordFlight(bundle, flight, key)]
  <2>1. /\ UNCHANGED <<inbox, bundle>>
        /\ Flight(flight, key) \in inbox["OnFlightBooked"]
        /\ proc'["OnFlightBooked"] = me
        /\ \A h \in SagaHandlers \ {"OnFlightBooked"} : proc'[h] = proc[h]
    BY <1>7, <1>h, NamesOfHandlers DEF OnFlightBookedRead
  <2>2. ~bundle.isFinalized
    BY <2>1 DEF OneAtATime, AfterFlights, FlightsOver, FlightInboxes
  <2>3. me.pc = "write" /\ me.msg = Flight(flight, key) /\ ~me.vb.isFinalized
    BY <2>2 DEF Idle, RecordFlight, TypeOK, Bundle
  <2> HIDE DEF me
  <2> QED
    BY <2>1, <2>3, NamesOfHandlers DEF AtWork, RollbackHandlers
<1>8. ASSUME NEW h \in {"OnFlightBooked", "OnTaxiBooked"}, UpdateByIDWrite(h)
      PROVE  AtWork'
  <2>1. /\ UNCHANGED inbox
        /\ bundle' = proc[h].vb
        /\ proc[h].pc = "write"
        /\ proc'[h].pc = "send" /\ proc'[h].msg = proc[h].msg /\ proc'[h].vb = proc[h].vb
        /\ \A g \in SagaHandlers \ {h} : proc'[g] = proc[g]
    BY <1>8, <1>h, NamesOfHandlers DEF UpdateByIDWrite, Process
  <2>2. bundle'.bookingMade
    BY <2>1 DEF RowIsComplete, Complete
  <2> QED
    BY <2>1, <2>2, NamesOfHandlers DEF AtWork, RollbackHandlers
<1>9. ASSUME OnFlightBookedSend PROVE AtWork'
  <2> DEFINE me == proc["OnFlightBooked"]
  <2>1. proc' = [proc EXCEPT !["OnFlightBooked"] = Idle] /\ UNCHANGED bundle
    BY <1>9 DEF OnFlightBookedSend
  <2>2. \A f \in WorkInboxes \ {"OnFlightBooked"} : inbox[f] \subseteq inbox'[f]
    <3>1. CASE ~HasNextCommand(me.vb)
      BY <1>9, <3>1 DEF OnFlightBookedSend
    <3>2. CASE HasNextCommand(me.vb)
      <4>1. nextKey \in Keys
        BY <1>9, <3>2 DEF OnFlightBookedSend, TypeOK, Keys
      <4>2. PICK g \in Handlers, m \in Message :
              Ack("OnFlightBooked", me.msg, Deliver(inbox, g, m))
        BY <1>9, <3>2, <4>1, <1>n, MessageTypes
        DEF OnFlightBookedSend, NextCommand, Flights
      <4> QED
        BY <4>2, <1>s, NamesOfHandlers
    <3> QED
      BY <3>1, <3>2
  <2> QED
    BY <2>1, <2>2, IdleWork, NamesOfHandlers
<1>10. ASSUME NEW key \in Keys, OnTaxiBookedRead(key) PROVE AtWork'
  <2> DEFINE me == [Idle EXCEPT !.pc = "write", !.msg = Taxi(key),
                                !.vb = RecordTaxi(bundle, key)]
  <2>1. /\ UNCHANGED <<inbox, bundle>>
        /\ Taxi(key) \in inbox["OnTaxiBooked"]
        /\ proc'["OnTaxiBooked"] = me
        /\ \A h \in SagaHandlers \ {"OnTaxiBooked"} : proc'[h] = proc[h]
    BY <1>10, <1>h, NamesOfHandlers DEF OnTaxiBookedRead
  <2>2. me.pc = "write" /\ me.msg = Taxi(key) /\ me.vb.isFinalized
    BY DEF Idle, RecordTaxi, TypeOK, Bundle
  <2> HIDE DEF me
  <2> QED
    BY <2>1, <2>2, NamesOfHandlers DEF AtWork, RollbackHandlers
<1>11. ASSUME OnTaxiBookedPublish PROVE AtWork'
  <2>1. proc' = [proc EXCEPT !["OnTaxiBooked"] = Idle] /\ UNCHANGED bundle
    BY <1>11 DEF OnTaxiBookedPublish
  <2>2. \A f \in WorkInboxes \ {"OnTaxiBooked"} : inbox[f] \subseteq inbox'[f]
    BY <1>11, <1>a, NamesOfHandlers DEF OnTaxiBookedPublish
  <2> QED
    BY <2>1, <2>2, IdleWork, NamesOfHandlers
<1>12. ASSUME NEW h \in RollbackHandlers, Rollback(h) PROVE AtWork'
  <2>h. h \in SagaHandlers \ WorkInboxes /\ h \in Handlers /\ proc[h] \in Process
    BY <1>h, <1>n, NamesOfHandlers
  <2>f. ASSUME UNCHANGED bundle, \A f \in WorkInboxes : inbox[f] \subseteq inbox'[f],
               \A g \in SagaHandlers \ {h} : proc'[g] = proc[g],
               proc'[h].pc # "send", proc'[h].pc = "write" => proc'[h].vb.isFinalized
        PROVE  AtWork'
    BY <2>f, <2>h, NamesOfHandlers DEF AtWork, WorkInboxes
  <2>1. CASE RollbackGet(h)
    <3>1. UNCHANGED <<bundle, inbox>> /\ \A g \in SagaHandlers \ {h} : proc'[g] = proc[g]
      BY <2>1, <1>h DEF RollbackGet
    <3>2. proc'[h].pc = "compensate"
      BY <2>1, <2>h, <1>h DEF RollbackGet, Idle
    <3> QED
      BY <3>1, <3>2, <2>f
  <2>2. CASE RollbackSend(h)
    <3>1. UNCHANGED bundle /\ \A g \in SagaHandlers \ {h} : proc'[g] = proc[g]
      BY <2>2, <1>h DEF RollbackSend
    <3>2. proc'[h].pc = "compensate"
      BY <2>2, <2>h, <1>h DEF RollbackSend, Process
    <3>3. \A f \in WorkInboxes : inbox[f] \subseteq inbox'[f]
      <4>1. \/ inbox' = inbox
            \/ \E m : inbox' = Deliver(inbox, "CancelFlightTickets", m)
        BY <2>2, <1>h, SendContents, DeliverType, MessageTypes, NamesOfHandlers
        DEF RollbackSend
      <4> QED
        BY <4>1, <1>h, <1>n, DeliverKeeps, NamesOfHandlers
    <3> QED
      BY <3>1, <3>2, <3>3, <2>f
  <2>3. CASE RollbackRead(h)
    <3>1. UNCHANGED <<bundle, inbox>> /\ \A g \in SagaHandlers \ {h} : proc'[g] = proc[g]
      BY <2>3, <1>h DEF RollbackRead
    <3>2. [bundle EXCEPT !.isFinalized = TRUE, !.failed = TRUE].isFinalized
      BY DEF TypeOK, Bundle
    <3>3. /\ proc'[h].pc = "write"
          /\ proc'[h].vb = [bundle EXCEPT !.isFinalized = TRUE, !.failed = TRUE]
      BY <2>3, <2>h, <1>h DEF RollbackRead, Process
    <3> QED
      BY <3>1, <3>2, <3>3, <2>f
  <2>4. CASE RollbackWrite(h)
    <3>1. proc' = [proc EXCEPT ![h] = Idle] /\ bundle' = proc[h].vb /\ proc[h].pc = "write"
      BY <2>4 DEF RollbackWrite
    <3>2. \A f \in WorkInboxes \ {h} : inbox[f] \subseteq inbox'[f]
      BY <2>4, <2>h, <1>a DEF RollbackWrite
    <3>3. bundle'.bookingMade
      BY <3>1 DEF RowIsComplete, Complete
    <3> QED
      BY <2>h, <3>1, <3>2, <3>3, IdleWork
  <2> QED
    BY <1>12, <2>1, <2>2, <2>3, <2>4 DEF Rollback
<1>13. ASSUME NEW h \in SagaHandlers, HandlerFails(h) PROVE AtWork'
  BY <1>13 DEF HandlerFails, TypeOK
<1>14. ASSUME BookShowTickets \/ BookShowTicketsCommitLost PROVE AtWork'
  <2>1. UNCHANGED <<proc, bundle>>
    BY <1>14 DEF BookShowTickets, BookShowTicketsCommitLost, saga
  <2>2. CASE BookShowTickets
    <3> DEFINE box == Deliver(Deliver(inbox, "OnBookingMade", Signal), "DeadNation", Signal)
    <3>1. box \in Inboxes
      BY <1>h, MessageTypes, DeliverType, NamesOfHandlers
    <3>2. \A f \in Handlers : inbox[f] \subseteq box[f]
      BY <1>h, NamesOfHandlers, MessageTypes, DeliverType, DeliverKeeps
    <3>3. Ack("BookShowTickets", Signal, box)
      BY <2>2 DEF BookShowTickets
    <3> HIDE DEF box
    <3>4. \A f \in WorkInboxes : inbox[f] \subseteq inbox'[f]
      BY <3>1, <3>2, <3>3, <1>n, FirstAckKeeps
    <3> QED
      BY <2>1, <3>4, QuietWork
  <2>3. CASE BookShowTicketsCommitLost
    <3>1. \A f \in WorkInboxes : inbox[f] \subseteq inbox'[f]
      BY <2>3, <1>h, <1>n, CommitLostStep DEF WorkInboxes
    <3> QED
      BY <2>1, <3>1, QuietWork
  <2> QED
    BY <1>14, <2>2, <2>3
<1>15. ASSUME NEW flight \in Flights, NEW key \in Keys,
              BookFlight(flight, key) \/ BookFlightUnavailable(flight, key)
       PROVE  AtWork'
  <2>1. UNCHANGED <<proc, bundle>>
    BY <1>15 DEF BookFlight, BookFlightUnavailable, saga
  <2>2. PICK g \in Handlers, m \in Message :
          Ack("BookFlight", Flight(flight, key), Deliver(inbox, g, m))
    BY <1>15, <1>n, MessageTypes, NamesOfHandlers
    DEF BookFlight, BookFlightUnavailable, TypeOK, RollbackHandlers
  <2>3. \A f \in WorkInboxes : inbox[f] \subseteq inbox'[f]
    BY <2>2, <1>s, <1>n
  <2> QED
    BY <2>1, <2>3, QuietWork
<1>16. ASSUME NEW key \in Keys, BookTaxi(key) \/ BookTaxiError(key) PROVE AtWork'
  <2>1. UNCHANGED <<proc, bundle>>
    BY <1>16 DEF BookTaxi, BookTaxiError, saga
  <2>2. \A f \in WorkInboxes : inbox[f] \subseteq inbox'[f]
    <3>1. CASE BookTaxi(key)
      <4>1. Ack("BookTaxi", Taxi(key), Deliver(inbox, "OnTaxiBooked", Taxi(key)))
        BY <3>1 DEF BookTaxi, TypeOK
      <4> QED
        BY <4>1, <1>s, <1>n, MessageTypes, NamesOfHandlers
    <3>2. CASE BookTaxiError(key)
      <4>1. inbox' = Deliver(inbox, "OnTaxiBookingFailed", Signal)
        BY <3>2, <1>h, SendContents, DeliverType, MessageTypes, NamesOfHandlers
        DEF BookTaxiError, RollbackHandlers
      <4> QED
        BY <4>1, <1>h, <1>n, NamesOfHandlers, DeliverKeeps DEF RollbackHandlers
    <3> QED
      BY <1>16, <3>1, <3>2
  <2> QED
    BY <2>1, <2>2, QuietWork
<1>17. ASSUME NEW key \in Keys, CancelFlightTickets(key) PROVE AtWork'
  <2>1. UNCHANGED <<proc, bundle>>
    BY <1>17 DEF CancelFlightTickets, saga
  <2>2. \A f \in WorkInboxes : inbox[f] \subseteq inbox'[f]
    BY <1>17, <1>a, <1>n DEF CancelFlightTickets
  <2> QED
    BY <2>1, <2>2, QuietWork
<1> QED
  BY <1>1, <1>2, <1>3, <1>4, <1>5, <1>6, <1>7, <1>8, <1>9, <1>10, <1>11, <1>12,
     <1>13, <1>14, <1>15, <1>16, <1>17
  DEF Next, OnFlightBooked, OnTaxiBooked, FlightCommand, TaxiCommand

\* A step that changes neither the flights nor what the row and its copies say of them.
LEMMA QuietRow ==
  ASSUME RowIsComplete, UNCHANGED <<proc, flightsBooked>>,
         bundle.bookingMade => bundle'.bookingMade,
         bundle'.inboundFlight = bundle.inboundFlight,
         bundle'.returnFlight = bundle.returnFlight,
         inbox'["BookFlight"] # {} \/ AfterFlights' =>
           inbox["BookFlight"] # {} \/ flightsBooked # {} \/ AfterFlights,
         inbox["OnFlightBooked"] \subseteq inbox'["OnFlightBooked"]
  PROVE  RowIsComplete'
BY DEF RowIsComplete, Complete, KeyOf

\* A handler that holds a complete copy, or none that counts, takes its next step.
LEMMA CopyRow ==
  ASSUME TypeOK, RowIsComplete, NEW h \in SagaHandlers, NEW p, proc' = [proc EXCEPT ![h] = p],
         h # "OnFlightBooked", p.pc = "write" => Complete(p.vb),
         UNCHANGED <<bundle, flightsBooked>>,
         inbox'["BookFlight"] # {} \/ AfterFlights' =>
           inbox["BookFlight"] # {} \/ flightsBooked # {} \/ AfterFlights,
         inbox["OnFlightBooked"] \subseteq inbox'["OnFlightBooked"]
  PROVE  RowIsComplete'
<1>1. proc'[h] = p /\ \A f \in SagaHandlers \ {h} : proc'[f] = proc[f]
  BY DEF TypeOK
<1> QED
  BY <1>1, NamesOfHandlers DEF RowIsComplete, Complete, KeyOf

\* A complete copy overwrites the row.
LEMMA WriteRow ==
  ASSUME TypeOK, RowIsComplete, NEW h \in SagaHandlers, NEW p, proc' = [proc EXCEPT ![h] = p],
         Complete(proc[h].vb), bundle' = proc[h].vb,
         p.pc # "write" /\ (p.pc # "idle" => p.vb = proc[h].vb),
         UNCHANGED flightsBooked
  PROVE  RowIsComplete'
<1>1. proc'[h] = p /\ \A f \in SagaHandlers \ {h} : proc'[f] = proc[f]
  BY DEF TypeOK
<1> QED
  BY <1>1, NamesOfHandlers DEF RowIsComplete, Complete, KeyOf

\* After the flights, the row itself is complete.
LEMMA RowAfterFlights ==
  ASSUME TypeOK, OneAtATime, RowIsComplete, AfterFlights
  PROVE  Complete(bundle)
BY DEF OneAtATime, FlightsOver, FlightInboxes, RowIsComplete, Complete

\* Every action keeps the row, or the copy about to be written to it, complete.
LEMMA RowIsCompleteStep ==
  ASSUME TypeOK, SagaInv, OneAtATime, AtWork, RowIsComplete, Next, ~StreamMoves,
         listening, redeliveries' = 0
  PROVE  RowIsComplete'
<1>h. inbox \in Inboxes /\ proc \in [SagaHandlers -> Process]
  BY DEF TypeOK, Inboxes
<1>n. /\ RollbackHandlers \subseteq SagaHandlers /\ SagaHandlers \subseteq Handlers
      /\ {"OnBookingMade", "OnFlightBooked", "OnTaxiBooked"} \subseteq SagaHandlers \ RollbackHandlers
      /\ {"OnVipBundleInitialized", "OnTicketBookingConfirmed", "DeadNation", "BookShowTickets",
          "BookFlight", "BookTaxi", "CancelFlightTickets"} \subseteq Handlers \ SagaHandlers
  BY DEF Handlers, SagaHandlers, RollbackHandlers
<1> DEFINE Asked == inbox["BookFlight"] # {} \/ flightsBooked # {} \/ AfterFlights
           Still == /\ inbox'["BookFlight"] # {} \/ AfterFlights' => Asked
                    /\ inbox["OnFlightBooked"] \subseteq inbox'["OnFlightBooked"]
<1>1. ASSUME Add PROVE RowIsComplete'
  <2>1. UNCHANGED <<proc, bundle, flightsBooked>>
    BY <1>1 DEF Add, AddInsert, AddCommit, AddFails, services, transport
  <2>2. \A h \in Handlers \ {"OnVipBundleInitialized"} : inbox'[h] = inbox[h]
    BY <1>1, <1>h DEF Add, AddInsert, AddCommit, AddFails, Send, Heard, Deliver, Inboxes
  <2>3. Still
    BY <2>1, <2>2, <1>n DEF AfterFlights
  <2> QED
    BY <2>1, <2>3, QuietRow
<1>2. ASSUME OnVipBundleInitialized PROVE RowIsComplete'
  <2>1. UNCHANGED <<proc, bundle, flightsBooked>>
    BY <1>2 DEF OnVipBundleInitialized, saga, services, transport
  <2>2. \A f \in Handlers \ {"BookShowTickets", "OnVipBundleInitialized"} : inbox'[f] = inbox[f]
    BY <1>2, <1>n, FirstSend, MessageTypes DEF OnVipBundleInitialized
  <2>3. Still
    BY <2>1, <2>2, <1>n DEF AfterFlights
  <2> QED
    BY <2>1, <2>3, QuietRow
<1>3. ASSUME OnBookingMade PROVE RowIsComplete'
  <2>1. /\ UNCHANGED <<inbox, flightsBooked>> /\ bundle'.bookingMade
        /\ bundle'.inboundFlight = bundle.inboundFlight
        /\ bundle'.returnFlight = bundle.returnFlight
        /\ \A h \in SagaHandlers \ {"OnBookingMade"} : proc'[h] = proc[h]
    BY <1>3, <1>h DEF OnBookingMade, TypeOK, Bundle, services, transport
  <2> QED
    BY <2>1, <1>n DEF RowIsComplete, Complete, KeyOf
<1>4. ASSUME OnBookingMadeSend PROVE RowIsComplete'
  <2>1. /\ UNCHANGED <<bundle, flightsBooked>> /\ bundle.bookingMade
        /\ \A h \in SagaHandlers \ {"OnBookingMade"} : proc'[h] = proc[h]
    BY <1>4, <1>h DEF OnBookingMadeSend, AtWork, services, transport
  <2>2. Flight("inbound", nextKey) \in Message
    BY <1>4, MessageTypes DEF OnBookingMadeSend, TypeOK, Keys, Flights
  <2>3. inbox'["OnFlightBooked"] = inbox["OnFlightBooked"]
    BY <1>4, <2>2, <1>n, FirstSend DEF OnBookingMadeSend
  <2> QED
    BY <2>1, <2>3, <1>n DEF RowIsComplete, Complete, KeyOf
<1>5. ASSUME NEW t \in Tickets, OnTicketBookingConfirmed(t) PROVE RowIsComplete'
  <2>1. /\ UNCHANGED <<proc, flightsBooked>>
        /\ bundle'.bookingMade = bundle.bookingMade
        /\ bundle'.inboundFlight = bundle.inboundFlight
        /\ bundle'.returnFlight = bundle.returnFlight
        /\ bundle'.isFinalized = bundle.isFinalized
    BY <1>5 DEF OnTicketBookingConfirmed, TypeOK, Bundle, services, transport
  <2>2. \A f \in Handlers \ {"OnTicketBookingConfirmed"} : inbox'[f] = inbox[f]
    BY <1>5, <1>h, <1>n, FirstAck DEF OnTicketBookingConfirmed
  <2>3. Still
    BY <2>1, <2>2, <1>n DEF AfterFlights
  <2> QED
    BY <2>1, <2>3, QuietRow
<1>6. ASSUME NEW t \in Tickets, DeadNationConfirms(t) PROVE RowIsComplete'
  <2>1. /\ UNCHANGED <<proc, bundle, flightsBooked>>
        /\ \A f \in Handlers \ {"OnTicketBookingConfirmed"} : inbox'[f] = inbox[f]
    BY <1>6, <1>h DEF DeadNationConfirms, saga, transport, Send, Heard, Deliver, Inboxes
  <2>3. Still
    BY <2>1, <1>n DEF AfterFlights
  <2> QED
    BY <2>1, <2>3, QuietRow
<1>7. ASSUME NEW flight \in Flights, NEW key \in Keys, OnFlightBookedRead(flight, key)
      PROVE  RowIsComplete'
  <2> DEFINE vb == RecordFlight(bundle, flight, key)
             me == [Idle EXCEPT !.pc = "write", !.msg = Flight(flight, key), !.vb = vb]
  <2>1. /\ UNCHANGED <<inbox, bundle, flightsBooked>>
        /\ Flight(flight, key) \in inbox["OnFlightBooked"]
        /\ proc["OnFlightBooked"].pc = "idle"
        /\ proc'["OnFlightBooked"] = me
        /\ \A h \in SagaHandlers \ {"OnFlightBooked"} : proc'[h] = proc[h]
    BY <1>7, <1>h, <1>n DEF OnFlightBookedRead, services, transport
  <2>2. me.pc = "write" /\ me.vb = vb
    BY DEF Idle
  <2>3. /\ vb.bookingMade = bundle.bookingMade
        /\ KeyOf(vb, flight) = key
        /\ \A other \in Flights \ {flight} : KeyOf(vb, other) = KeyOf(bundle, other)
    BY DEF RecordFlight, KeyOf, Flights, TypeOK, Bundle
  <2>4. Flight(flight, key) \in flightsBooked /\ bundle.bookingMade
    BY <2>1 DEF SagaInv, RowIsComplete
  <2>5. ASSUME NEW other \in Flights, NEW k \in Keys, Flight(other, k) \in flightsBooked
        PROVE  KeyOf(vb, other) = k
    <3>1. CASE other = flight
      BY <2>3, <2>4, <2>5, <3>1 DEF OneAtATime, FlightOnce
    <3>2. CASE other # flight
      <4>1. Flight(other, k) \notin inbox["OnFlightBooked"]
        BY <2>1, <3>2 DEF OneAtATime, ShowOnce, FlightInboxes, Flight
      <4> QED
        BY <2>3, <2>5, <3>2, <4>1 DEF RowIsComplete
    <3> QED
      BY <3>1, <3>2
  <2>6. Complete(vb)
    BY <2>3, <2>4, <2>5 DEF Complete
  <2> HIDE DEF me, vb
  <2>7. inbox'["BookFlight"] # {} \/ flightsBooked' # {} \/ AfterFlights' =>
          bundle'.bookingMade
    BY <2>1, <2>4
  <2>8. \A other \in Flights, k \in Keys :
               Flight(other, k) \in flightsBooked' =>
                 \/ KeyOf(bundle', other) = k
                 \/ /\ Flight(other, k) \in inbox'["OnFlightBooked"]
                    /\ proc'["OnFlightBooked"].pc # "send"
    BY <2>1, <2>2 DEF RowIsComplete
  <2> QED
    BY <2>1, <2>2, <2>6, <2>7, <2>8, <1>n DEF RowIsComplete, Complete, KeyOf
<1>8. ASSUME NEW h \in {"OnFlightBooked", "OnTaxiBooked"}, UpdateByIDWrite(h)
      PROVE  RowIsComplete'
  <2> DEFINE p == [proc[h] EXCEPT !.pc = "send"]
  <2>1. /\ UNCHANGED flightsBooked
        /\ bundle' = proc[h].vb
        /\ proc[h].pc = "write"
        /\ proc' = [proc EXCEPT ![h] = p]
    BY <1>8 DEF UpdateByIDWrite, services, transport
  <2>2. p.pc = "send" /\ p.vb = proc[h].vb
    BY <1>h, <1>n DEF Process
  <2>3. Complete(proc[h].vb)
    BY <2>1 DEF RowIsComplete
  <2> HIDE DEF p
  <2> QED
    BY <2>1, <2>2, <2>3, <1>n, WriteRow
<1>9. ASSUME OnFlightBookedSend PROVE RowIsComplete'
  <2> DEFINE me == proc["OnFlightBooked"]
  <2>1. /\ UNCHANGED <<bundle, flightsBooked>> /\ me.pc = "send"
        /\ proc'["OnFlightBooked"].pc = "idle"
        /\ \A h \in SagaHandlers \ {"OnFlightBooked"} : proc'[h] = proc[h]
    BY <1>9, <1>h, <1>n DEF OnFlightBookedSend, Idle, services, transport
  <2>2. bundle.bookingMade
    BY <2>1 DEF AtWork, SagaInv, RowIsComplete
  <2>3. \A other \in Flights, k \in Keys :
               Flight(other, k) \in flightsBooked => KeyOf(bundle, other) = k
    BY <2>1 DEF RowIsComplete
  <2> QED
    BY <2>1, <2>2, <2>3, <1>n DEF RowIsComplete, Complete, KeyOf
<1>10. ASSUME NEW key \in Keys, OnTaxiBookedRead(key) PROVE RowIsComplete'
  <2> DEFINE vb == RecordTaxi(bundle, key)
             p == [Idle EXCEPT !.pc = "write", !.msg = Taxi(key), !.vb = vb]
  <2>1. /\ UNCHANGED <<inbox, bundle, flightsBooked>> /\ AfterFlights
        /\ proc' = [proc EXCEPT !["OnTaxiBooked"] = p]
    BY <1>10 DEF OnTaxiBookedRead, AfterFlights, services, transport
  <2>2. p.pc = "write" /\ p.vb = vb
    BY DEF Idle
  <2>3. Complete(vb)
    BY <2>1, RowAfterFlights DEF Complete, KeyOf, RecordTaxi, TypeOK, Bundle
  <2> HIDE DEF p, vb
  <2> QED
    BY <2>1, <2>2, <2>3, <1>n, CopyRow
<1>11. ASSUME OnTaxiBookedPublish PROVE RowIsComplete'
  <2>1. /\ UNCHANGED <<bundle, flightsBooked>> /\ AfterFlights
        /\ proc' = [proc EXCEPT !["OnTaxiBooked"] = Idle]
    BY <1>11 DEF OnTaxiBookedPublish, AfterFlights, services, transport
  <2>2. inbox'["OnFlightBooked"] = inbox["OnFlightBooked"]
    BY <1>11, <1>h, <1>n, FirstAck DEF OnTaxiBookedPublish
  <2>3. Idle.pc # "write"
    BY DEF Idle
  <2> QED
    BY <2>1, <2>2, <2>3, <1>n, CopyRow
<1>12. ASSUME NEW h \in RollbackHandlers, Rollback(h) PROVE RowIsComplete'
  <2>h. /\ h \in SagaHandlers /\ h # "OnFlightBooked" /\ h \in Handlers
        /\ proc[h] \in Process
    BY <1>h, <1>n
  <2>a. AfterFlights
    BY <1>12
    DEF Rollback, RollbackGet, RollbackSend, RollbackRead, RollbackWrite, AfterFlights
  <2>1. CASE RollbackGet(h)
    <3> DEFINE p == [Idle EXCEPT !.pc = "compensate", !.todo = Compensations(bundle)]
    <3>1. UNCHANGED <<bundle, inbox, flightsBooked>> /\ proc' = [proc EXCEPT ![h] = p]
      BY <2>1 DEF RollbackGet, services, transport
    <3>2. p.pc = "compensate"
      BY DEF Idle
    <3> HIDE DEF p
    <3> QED
      BY <3>1, <3>2, <2>a, <2>h, CopyRow
  <2>2. CASE RollbackSend(h)
    <3> DEFINE p == [proc[h] EXCEPT !.todo = Tail(@)]
    <3>1. UNCHANGED <<bundle, flightsBooked>> /\ proc' = [proc EXCEPT ![h] = p]
      BY <2>2 DEF RollbackSend, services, transport
    <3>2. p.pc = "compensate"
      BY <2>2, <2>h DEF RollbackSend, Process
    <3>3. inbox["OnFlightBooked"] \subseteq inbox'["OnFlightBooked"]
      <4>1. \/ inbox' = inbox
            \/ \E m : inbox' = Deliver(inbox, "CancelFlightTickets", m)
        BY <2>2, <1>h, SendContents, DeliverType, MessageTypes, NamesOfHandlers
        DEF RollbackSend
      <4> QED
        BY <4>1, <1>h, <1>n, DeliverKeeps, NamesOfHandlers
    <3> HIDE DEF p
    <3> QED
      BY <3>1, <3>2, <3>3, <2>a, <2>h, CopyRow
  <2>3. CASE RollbackRead(h)
    <3> DEFINE vb == [bundle EXCEPT !.isFinalized = TRUE, !.failed = TRUE]
               p == [proc[h] EXCEPT !.pc = "write", !.vb = vb]
    <3>1. UNCHANGED <<bundle, inbox, flightsBooked>>
      BY <2>3 DEF RollbackRead, services, transport
    <3>4. proc' = [proc EXCEPT ![h] = p]
      BY <2>3, <2>h, <1>h DEF RollbackRead
    <3>2. p.vb = vb
      BY <2>h DEF Process
    <3>3. Complete(vb)
      BY <2>a, RowAfterFlights DEF Complete, KeyOf, TypeOK, Bundle
    <3> HIDE DEF p, vb
    <3> QED
      BY <3>1, <3>2, <3>3, <3>4, <2>a, <2>h, CopyRow
  <2>4. CASE RollbackWrite(h)
    <3>1. /\ UNCHANGED flightsBooked /\ bundle' = proc[h].vb /\ proc[h].pc = "write"
          /\ proc' = [proc EXCEPT ![h] = Idle]
      BY <2>4 DEF RollbackWrite, services, transport
    <3>2. Complete(proc[h].vb) /\ Idle.pc = "idle"
      BY <3>1 DEF RowIsComplete, Idle
    <3> QED
      BY <3>1, <3>2, <2>h, WriteRow
  <2> QED
    BY <1>12, <2>1, <2>2, <2>3, <2>4 DEF Rollback
<1>13. ASSUME NEW h \in SagaHandlers, HandlerFails(h) PROVE RowIsComplete'
  BY <1>13 DEF HandlerFails, TypeOK
<1>14. ASSUME BookShowTickets \/ BookShowTicketsCommitLost PROVE RowIsComplete'
  <2>1. UNCHANGED <<proc, bundle, flightsBooked>>
    BY <1>14 DEF BookShowTickets, BookShowTicketsCommitLost, saga, services, transport
  <2>2. \A f \in Handlers \ {"BookShowTickets", "OnBookingMade", "DeadNation"} : inbox'[f] = inbox[f]
    <3>1. CASE BookShowTickets
      <4> DEFINE box == Deliver(Deliver(inbox, "OnBookingMade", Signal), "DeadNation", Signal)
      <4>1. box \in Inboxes
        BY <1>h, <1>n, MessageTypes, DeliverType
      <4>2. \A f \in Handlers \ {"OnBookingMade", "DeadNation"} : box[f] = inbox[f]
        BY <1>h DEF Deliver, Inboxes
      <4>3. Ack("BookShowTickets", Signal, box)
        BY <3>1 DEF BookShowTickets
      <4> HIDE DEF box
      <4> QED
        BY <4>1, <4>2, <4>3, <1>n, FirstAck
    <3>2. CASE BookShowTicketsCommitLost
      BY <3>2, <1>h, CommitLostStep
    <3> QED
      BY <1>14, <3>1, <3>2
  <2>3. Still
    BY <2>1, <2>2, <1>n DEF AfterFlights
  <2> QED
    BY <2>1, <2>3, QuietRow
<1>15. ASSUME NEW flight \in Flights, NEW key \in Keys, BookFlight(flight, key)
       PROVE  RowIsComplete'
  <2> DEFINE m == Flight(flight, key)
  <2>1. /\ UNCHANGED <<proc, bundle>> /\ m \in inbox["BookFlight"]
        /\ flightsBooked' = flightsBooked \cup {m}
    BY <1>15 DEF BookFlight, saga, Flight
  <2>2. inbox'["OnFlightBooked"] = inbox["OnFlightBooked"] \cup {m}
    <3>1. Ack("BookFlight", m, Deliver(inbox, "OnFlightBooked", m))
      BY <1>15 DEF BookFlight, TypeOK
    <3> QED
      BY <3>1, <1>n, MessageTypes, FirstSend
  <2>3. proc["OnFlightBooked"].pc = "idle" /\ bundle.bookingMade
    BY <2>1 DEF OneAtATime, FlightOnce, AtWork, RowIsComplete
  <2>4. \A h \in {"OnTaxiBooked"} \cup RollbackHandlers : proc[h].pc = "idle"
    BY <2>1 DEF OneAtATime, AfterFlights, FlightsOver, FlightInboxes
  <2>5. \A other \in Flights, k \in Keys :
          Flight(other, k) = m => Flight(other, k) \in inbox'["OnFlightBooked"]
    BY <2>2
  <2> QED
    BY <2>1, <2>2, <2>3, <2>4, <2>5, <1>n DEF RowIsComplete
<1>16. ASSUME NEW flight \in Flights, NEW key \in Keys, BookFlightUnavailable(flight, key)
       PROVE  RowIsComplete'
  <2>1. UNCHANGED <<proc, bundle, flightsBooked>> /\ inbox["BookFlight"] # {}
    BY <1>16 DEF BookFlightUnavailable, saga, services, transport
  <2>2. inbox'["OnFlightBooked"] = inbox["OnFlightBooked"]
    BY <1>16, <1>n, MessageTypes, FirstSend DEF BookFlightUnavailable, RollbackHandlers
  <2> QED
    BY <2>1, <2>2, QuietRow
<1>17. ASSUME NEW key \in Keys, BookTaxi(key) \/ BookTaxiError(key) PROVE RowIsComplete'
  <2>1. UNCHANGED <<proc, bundle, flightsBooked>> /\ AfterFlights
    BY <1>17 DEF BookTaxi, BookTaxiError, AfterFlights, saga
  <2>2. inbox'["OnFlightBooked"] = inbox["OnFlightBooked"]
    <3>1. CASE BookTaxi(key)
      <4>1. Ack("BookTaxi", Taxi(key), Deliver(inbox, "OnTaxiBooked", Taxi(key)))
        BY <3>1 DEF BookTaxi, TypeOK
      <4> QED
        BY <4>1, <1>n, MessageTypes, FirstSend
    <3>2. CASE BookTaxiError(key)
      BY <3>2, <1>h, <1>n DEF BookTaxiError, Send, Heard, Deliver, Inboxes
    <3> QED
      BY <1>17, <3>1, <3>2
  <2> QED
    BY <2>1, <2>2, QuietRow
<1>18. ASSUME NEW key \in Keys, CancelFlightTickets(key) PROVE RowIsComplete'
  <2>1. /\ UNCHANGED <<proc, bundle, flightsBooked>>
        /\ \A f \in Handlers \ {"CancelFlightTickets"} : inbox'[f] = inbox[f]
    BY <1>18, <1>h, <1>n, FirstAck DEF CancelFlightTickets, saga
  <2>3. Still
    BY <2>1, <1>n DEF AfterFlights
  <2> QED
    BY <2>1, <2>3, QuietRow
<1> QED
  BY <1>1, <1>2, <1>3, <1>4, <1>5, <1>6, <1>7, <1>8, <1>9, <1>10, <1>11, <1>12,
     <1>13, <1>14, <1>15, <1>16, <1>17, <1>18
  DEF Next, OnFlightBooked, OnTaxiBooked, FlightCommand, TaxiCommand

\* The copy lists no ticket twice, and none whose confirmation is still to be handled.
ListedOnce(vb) ==
  LET ids == vb.ticketIDs IN
  /\ \A i, j \in 1..Len(ids) : ids[i] = ids[j] => i = j
  /\ \A i \in 1..Len(ids) : Ticket(ids[i]) \notin inbox["OnTicketBookingConfirmed"]

\* Only confirmed tickets are announced, and the row and its copies list them once.
ListedInv ==
  /\ inbox["OnTicketBookingConfirmed"] \subseteq {Ticket(t) : t \in confirmed}
  /\ ListedOnce(bundle)
  /\ \A h \in SagaHandlers : ListedOnce(proc[h].vb)

\* The messages of two tickets are two messages.
LEMMA TicketsDiffer == \A t, u : Ticket(t) = Ticket(u) => t = u
<1>1. \A t : Ticket(t)[1] = t
  BY DEF Ticket
<1> QED
  BY <1>1

\* A list without repetitions that is as long as there are tickets lists every ticket.
LEMMA AllTicketsListed ==
  ASSUME NEW ids \in Seq(Tickets), Len(ids) = NumberOfTickets,
         \A i, j \in 1..Len(ids) : ids[i] = ids[j] => i = j
  PROVE  \A t \in Tickets : \E i \in 1..Len(ids) : ids[i] = t
<1> DEFINE S == 1..Len(ids)
<1>1. ids \in Injection(S, Tickets)
  <2>1. ids \in [S -> Tickets]
    OBVIOUS
  <2> HIDE DEF S
  <2> QED
    BY <2>1, Fun_IsInj DEF S
<1>2. Cardinality(S) = Len(ids)
  BY FS_Interval
<1>3. IsFiniteSet(Tickets)
  BY ConstantsAssumption
<1> HIDE DEF S
<1>4. ids \in Surjection(S, Tickets)
  BY <1>1, <1>2, <1>3, FS_Injection DEF NumberOfTickets
<1> QED
  BY <1>4 DEF Surjection, S

\* No list grows, and no confirmation arrives.
LEMMA QuietList ==
  ASSUME ListedInv, confirmed \subseteq confirmed',
         inbox'["OnTicketBookingConfirmed"] \subseteq inbox["OnTicketBookingConfirmed"],
         bundle'.ticketIDs = bundle.ticketIDs
           \/ \E g \in SagaHandlers : bundle'.ticketIDs = proc[g].vb.ticketIDs,
         \A h \in SagaHandlers :
           \/ proc'[h].vb.ticketIDs \in {<<>>, bundle.ticketIDs}
           \/ proc'[h].vb.ticketIDs = proc[h].vb.ticketIDs
  PROVE  ListedInv'
<1>1. ASSUME NEW vb, NEW old, ListedOnce(old), vb.ticketIDs = old.ticketIDs
      PROVE  /\ \A i, j \in 1..Len(vb.ticketIDs) : vb.ticketIDs[i] = vb.ticketIDs[j] => i = j
             /\ \A i \in 1..Len(vb.ticketIDs) :
                  Ticket(vb.ticketIDs[i]) \notin inbox'["OnTicketBookingConfirmed"]
  BY <1>1 DEF ListedOnce
<1>2. ListedOnce(bundle)'
  BY <1>1 DEF ListedInv, ListedOnce
<1>3. ASSUME NEW h \in SagaHandlers PROVE ListedOnce(proc[h].vb)'
  <2>1. CASE proc'[h].vb.ticketIDs = <<>>
    BY <2>1 DEF ListedOnce
  <2>2. CASE proc'[h].vb.ticketIDs = bundle.ticketIDs
    BY <2>2, <1>1 DEF ListedInv, ListedOnce
  <2>3. CASE proc'[h].vb.ticketIDs = proc[h].vb.ticketIDs
    BY <2>3, <1>1 DEF ListedInv, ListedOnce
  <2> QED
    BY <2>1, <2>2, <2>3
<1> QED
  BY <1>2, <1>3 DEF ListedInv

\* The same when one handler takes a step with a copy of its own or of the row.
LEMMA CopyList ==
  ASSUME TypeOK, ListedInv, UNCHANGED confirmed,
         inbox'["OnTicketBookingConfirmed"] \subseteq inbox["OnTicketBookingConfirmed"],
         NEW h \in SagaHandlers, NEW p, proc' = [proc EXCEPT ![h] = p],
         p.vb.ticketIDs \in {<<>>, bundle.ticketIDs, proc[h].vb.ticketIDs},
         bundle'.ticketIDs \in {bundle.ticketIDs, proc[h].vb.ticketIDs}
  PROVE  ListedInv'
<1>1. proc'[h] = p /\ \A f \in SagaHandlers \ {h} : proc'[f] = proc[f]
  BY DEF TypeOK
<1> QED
  BY <1>1, QuietList

\* An idle handler lists no ticket.
LEMMA IdleList == Idle.vb.ticketIDs = <<>>
BY DEF Idle, NewVipBundle

\* Every action keeps the lists free of repetitions.
LEMMA ListedStep ==
  ASSUME TypeOK, UndoInv, ListedInv, Next, ~StreamMoves,
         listening, redeliveries' = 0
  PROVE  ListedInv'
<1>h. inbox \in Inboxes /\ proc \in [SagaHandlers -> Process]
  BY DEF TypeOK, Inboxes
<1>n. /\ RollbackHandlers \subseteq SagaHandlers /\ SagaHandlers \subseteq Handlers
      /\ {"OnBookingMade", "OnFlightBooked", "OnTaxiBooked"} \subseteq SagaHandlers
      /\ "OnTicketBookingConfirmed" \in Handlers \ SagaHandlers
  BY DEF Handlers, SagaHandlers, RollbackHandlers
<1> DEFINE Quiet == /\ UNCHANGED confirmed
                    /\ inbox'["OnTicketBookingConfirmed"] \subseteq inbox["OnTicketBookingConfirmed"]
<1>1. ASSUME Add PROVE ListedInv'
  <2>1. UNCHANGED <<bundle, proc>>
    BY <1>1 DEF Add, AddInsert, AddCommit, AddFails
  <2>2. Quiet
    BY <1>1, <1>h, <1>n
    DEF Add, AddInsert, AddCommit, AddFails, Send, Heard, Deliver, Inboxes, services,
        booking
  <2> QED
    BY <2>1, <2>2, QuietList
<1>2. ASSUME OnVipBundleInitialized PROVE ListedInv'
  <2>1. UNCHANGED <<bundle, proc>>
    BY <1>2 DEF OnVipBundleInitialized, saga
  <2>2. Quiet
    BY <1>2, <1>h, <1>n
    DEF OnVipBundleInitialized, Ack, Send, Heard, Deliver, Inboxes, services, booking
  <2> QED
    BY <2>1, <2>2, QuietList
<1>3. ASSUME OnBookingMade PROVE ListedInv'
  <2> DEFINE p == [Idle EXCEPT !.pc = "send"]
  <2>1. Quiet /\ proc' = [proc EXCEPT !["OnBookingMade"] = p]
        /\ bundle'.ticketIDs = bundle.ticketIDs
    BY <1>3 DEF OnBookingMade, services, booking, TypeOK, Bundle
  <2>2. p.vb.ticketIDs = <<>>
    BY IdleList, IdleType DEF Process
  <2> HIDE DEF p
  <2> QED
    BY <2>1, <2>2, <1>n, CopyList
<1>4. ASSUME OnBookingMadeSend PROVE ListedInv'
  <2>1. UNCHANGED bundle /\ proc' = [proc EXCEPT !["OnBookingMade"] = Idle]
    BY <1>4 DEF OnBookingMadeSend
  <2>2. Quiet
    BY <1>4, <1>h, <1>n
    DEF OnBookingMadeSend, Ack, Send, Heard, Deliver, Inboxes, services, booking
  <2> QED
    BY <2>1, <2>2, <1>n, IdleList, CopyList
<1>5. ASSUME NEW t \in Tickets, OnTicketBookingConfirmed(t) PROVE ListedInv'
  <2>1. /\ UNCHANGED <<confirmed, proc>>
        /\ bundle'.ticketIDs = Append(bundle.ticketIDs, t)
        /\ Ticket(t) \in inbox["OnTicketBookingConfirmed"]
    BY <1>5 DEF OnTicketBookingConfirmed, services, booking, TypeOK, Bundle
  <2>2. inbox'["OnTicketBookingConfirmed"] = inbox["OnTicketBookingConfirmed"] \ {Ticket(t)}
    BY <1>5, <1>h, <1>n, FirstAck DEF OnTicketBookingConfirmed
  <2> DEFINE ids == bundle.ticketIDs
             new == bundle'.ticketIDs
  <2>3. ids \in Seq(Tickets)
    BY DEF TypeOK, Bundle
  <2>4. /\ Len(new) = Len(ids) + 1 /\ new[Len(ids) + 1] = t
        /\ \A i \in 1..Len(ids) : new[i] = ids[i] /\ ids[i] # t
    BY <2>1, <2>3 DEF ListedInv, ListedOnce
  <2>5. ListedOnce(bundle)'
    <3> HIDE DEF ids, new
    <3>1. \A i, j \in 1..Len(new) : new[i] = new[j] => i = j
      BY <2>3, <2>4 DEF ListedInv, ListedOnce, ids
    <3>2. \A i \in 1..Len(new) : Ticket(new[i]) \notin inbox'["OnTicketBookingConfirmed"]
      BY <2>2, <2>3, <2>4 DEF ListedInv, ListedOnce, ids
    <3> QED
      BY <3>1, <3>2 DEF ListedOnce, new
  <2>6. \A h \in SagaHandlers : ListedOnce(proc[h].vb)'
    BY <2>1, <2>2 DEF ListedInv, ListedOnce
  <2> QED
    BY <2>1, <2>2, <2>5, <2>6 DEF ListedInv
<1>6. ASSUME NEW t \in Tickets, DeadNationConfirms(t) PROVE ListedInv'
  <2>1. /\ UNCHANGED <<bundle, proc>> /\ confirmed' = confirmed \cup {t} /\ t \notin confirmed
        /\ inbox'["OnTicketBookingConfirmed"] = inbox["OnTicketBookingConfirmed"] \cup {Ticket(t)}
    BY <1>6, <1>h, <1>n DEF DeadNationConfirms, Send, Heard, Deliver, Inboxes, saga
  <2>2. ASSUME NEW vb, ListedOnce(vb), vb.ticketIDs \in Seq(confirmed)
        PROVE  /\ \A i, j \in 1..Len(vb.ticketIDs) : vb.ticketIDs[i] = vb.ticketIDs[j] => i = j
               /\ \A i \in 1..Len(vb.ticketIDs) :
                    Ticket(vb.ticketIDs[i]) \notin inbox'["OnTicketBookingConfirmed"]
    BY <2>1, <2>2, TicketsDiffer DEF ListedOnce
  <2>3. ListedOnce(bundle)'
    BY <2>1, <2>2 DEF ListedInv, ListedOnce, UndoInv
  <2>4. ASSUME NEW h \in SagaHandlers PROVE ListedOnce(proc[h].vb)'
    <3>1. ListedOnce(proc[h].vb) /\ proc[h].vb.ticketIDs \in Seq(confirmed)
      BY DEF ListedInv, UndoInv
    <3> QED
      BY <2>1, <3>1, <2>2 DEF ListedOnce
  <2> QED
    BY <2>1, <2>3, <2>4 DEF ListedInv
<1>7. ASSUME NEW flight \in Flights, NEW key \in Keys, OnFlightBookedRead(flight, key)
      PROVE  ListedInv'
  <2> DEFINE p == [Idle EXCEPT !.pc = "write", !.msg = Flight(flight, key),
                               !.vb = RecordFlight(bundle, flight, key)]
  <2>1. Quiet /\ UNCHANGED bundle /\ proc' = [proc EXCEPT !["OnFlightBooked"] = p]
    BY <1>7 DEF OnFlightBookedRead, services, booking
  <2>2. p.vb = RecordFlight(bundle, flight, key)
    BY DEF Idle
  <2>3. p.vb.ticketIDs = bundle.ticketIDs
    BY <2>2 DEF RecordFlight, TypeOK, Bundle
  <2> HIDE DEF p
  <2> QED
    BY <2>1, <2>3, <1>n, CopyList
<1>8. ASSUME NEW h \in {"OnFlightBooked", "OnTaxiBooked"}, UpdateByIDWrite(h)
      PROVE  ListedInv'
  <2> DEFINE p == [proc[h] EXCEPT !.pc = "send"]
  <2>1. Quiet /\ bundle' = proc[h].vb /\ proc' = [proc EXCEPT ![h] = p]
    BY <1>8 DEF UpdateByIDWrite, services, booking
  <2>2. p.vb = proc[h].vb
    BY <1>h, <1>n DEF Process
  <2> HIDE DEF p
  <2> QED
    BY <2>1, <2>2, <1>n, CopyList
<1>9. ASSUME OnFlightBookedSend PROVE ListedInv'
  <2>1. UNCHANGED bundle /\ proc' = [proc EXCEPT !["OnFlightBooked"] = Idle]
    BY <1>9 DEF OnFlightBookedSend
  <2>2. Quiet
    BY <1>9, <1>h, <1>n
    DEF OnFlightBookedSend, NextCommand, Ack, Send, Heard, Deliver, Inboxes, services,
        booking
  <2> QED
    BY <2>1, <2>2, <1>n, IdleList, CopyList
<1>10. ASSUME NEW key \in Keys, OnTaxiBookedRead(key) PROVE ListedInv'
  <2> DEFINE p == [Idle EXCEPT !.pc = "write", !.msg = Taxi(key),
                               !.vb = RecordTaxi(bundle, key)]
  <2>1. Quiet /\ UNCHANGED bundle /\ proc' = [proc EXCEPT !["OnTaxiBooked"] = p]
    BY <1>10 DEF OnTaxiBookedRead, services, booking
  <2>2. p.vb = RecordTaxi(bundle, key)
    BY DEF Idle
  <2>3. p.vb.ticketIDs = bundle.ticketIDs
    BY <2>2 DEF RecordTaxi, TypeOK, Bundle
  <2> HIDE DEF p
  <2> QED
    BY <2>1, <2>3, <1>n, CopyList
<1>11. ASSUME OnTaxiBookedPublish PROVE ListedInv'
  <2>1. UNCHANGED bundle /\ proc' = [proc EXCEPT !["OnTaxiBooked"] = Idle]
    BY <1>11 DEF OnTaxiBookedPublish
  <2>2. Quiet
    BY <1>11, <1>h, <1>n
    DEF OnTaxiBookedPublish, Ack, Send, Heard, Inboxes, services, booking
  <2> QED
    BY <2>1, <2>2, <1>n, IdleList, CopyList
<1>12. ASSUME NEW h \in RollbackHandlers, Rollback(h) PROVE ListedInv'
  <2>h. h \in SagaHandlers /\ proc[h] \in Process
    BY <1>h, <1>n
  <2>1. CASE RollbackGet(h)
    <3> DEFINE p == [Idle EXCEPT !.pc = "compensate", !.todo = Compensations(bundle)]
    <3>1. Quiet /\ UNCHANGED bundle /\ proc' = [proc EXCEPT ![h] = p]
      BY <2>1 DEF RollbackGet, services, booking
    <3>2. p.vb.ticketIDs = <<>>
      BY IdleType, IdleList DEF Process
    <3> HIDE DEF p
    <3> QED
      BY <3>1, <3>2, <2>h, CopyList
  <2>2. CASE RollbackSend(h)
    <3> DEFINE p == [proc[h] EXCEPT !.todo = Tail(@)]
    <3>1. UNCHANGED bundle /\ proc' = [proc EXCEPT ![h] = p]
      BY <2>2 DEF RollbackSend
    <3>2. p.vb = proc[h].vb
      BY <2>h DEF Process
    <3>3. Quiet
      BY <2>2, <1>h, <1>n
      DEF RollbackSend, Send, Heard, Deliver, Inboxes, services, booking
    <3> HIDE DEF p
    <3> QED
      BY <3>1, <3>2, <3>3, <2>h, CopyList
  <2>3. CASE RollbackRead(h)
    <3> DEFINE vb == [bundle EXCEPT !.isFinalized = TRUE, !.failed = TRUE]
               p == [proc[h] EXCEPT !.pc = "write", !.vb = vb]
    <3>1. Quiet /\ UNCHANGED bundle
      BY <2>3 DEF RollbackRead, services, booking
    <3>2. proc' = [proc EXCEPT ![h] = p]
      BY <2>3, <2>h, <1>h DEF RollbackRead
    <3>3. p.vb = vb
      BY <2>h DEF Process
    <3>4. vb.ticketIDs = bundle.ticketIDs
      BY DEF TypeOK, Bundle
    <3> HIDE DEF p, vb
    <3> QED
      BY <3>1, <3>2, <3>3, <3>4, <2>h, CopyList
  <2>4. CASE RollbackWrite(h)
    <3>1. bundle' = proc[h].vb /\ proc' = [proc EXCEPT ![h] = Idle]
      BY <2>4 DEF RollbackWrite
    <3>2. Quiet
      BY <2>4, <1>h, <1>n, <2>h
      DEF RollbackWrite, Ack, Send, Heard, Inboxes, services, booking
    <3> QED
      BY <3>1, <3>2, <2>h, IdleList, CopyList
  <2> QED
    BY <1>12, <2>1, <2>2, <2>3, <2>4 DEF Rollback
<1>13. ASSUME NEW h \in SagaHandlers, HandlerFails(h) PROVE ListedInv'
  BY <1>13 DEF HandlerFails, TypeOK
<1>14. ASSUME BookShowTickets \/ BookShowTicketsCommitLost PROVE ListedInv'
  <2>1. UNCHANGED <<bundle, proc>>
    BY <1>14 DEF BookShowTickets, BookShowTicketsCommitLost, saga
  <2>2. Quiet
    BY <1>14, <1>h, <1>n
    DEF BookShowTickets, BookShowTicketsCommitLost, Ack, Send, Heard, Deliver, Inboxes,
        services,
        booking
  <2> QED
    BY <2>1, <2>2, QuietList
<1>15. ASSUME FlightCommand PROVE ListedInv'
  <2>1. UNCHANGED <<bundle, proc>>
    BY <1>15 DEF FlightCommand, BookFlight, BookFlightUnavailable, saga
  <2>2. Quiet
    BY <1>15, <1>h, <1>n
    DEF FlightCommand, BookFlight, BookFlightUnavailable, Ack, Send, Heard, Deliver,
        Inboxes, services,
        booking
  <2> QED
    BY <2>1, <2>2, QuietList
<1>16. ASSUME TaxiCommand PROVE ListedInv'
  <2>1. UNCHANGED <<bundle, proc>>
    BY <1>16 DEF TaxiCommand, BookTaxi, BookTaxiError, saga
  <2>2. Quiet
    BY <1>16, <1>h, <1>n
    DEF TaxiCommand, BookTaxi, BookTaxiError, Ack, Send, Heard, Deliver, Inboxes, booking
  <2> QED
    BY <2>1, <2>2, QuietList
<1>17. ASSUME NEW key \in Keys, CancelFlightTickets(key) PROVE ListedInv'
  <2>1. UNCHANGED <<bundle, proc>>
    BY <1>17 DEF CancelFlightTickets, saga
  <2>2. Quiet
    BY <1>17, <1>h, <1>n DEF CancelFlightTickets, Ack, Send, Heard, Inboxes, booking
  <2> QED
    BY <2>1, <2>2, QuietList
<1> QED
  BY <1>1, <1>2, <1>3, <1>4, <1>5, <1>6, <1>7, <1>8, <1>9, <1>10, <1>11, <1>12,
     <1>13, <1>14, <1>15, <1>16, <1>17 DEF Next, OnFlightBooked, OnTaxiBooked

\* Dead Nation has confirmed every ticket, and the bundle heard of each.
AllConfirmed == confirmed = Tickets /\ inbox["OnTicketBookingConfirmed"] = {}

\* The command m is in the list s.
Contains(s, m) == \E i \in 1..Len(s) : s[i] = m

\* Everything was compensated but for the commands in todo.
CompensatedBut(todo) ==
  /\ \A flight \in Flights, key \in Keys :
       Flight(flight, key) \in flightsBooked =>
         CancelRequested(key) \/ Contains(todo, FlightTickets(key))
  /\ \A t \in Tickets : refunds[t] > 0 \/ Contains(todo, Ticket(t))

\* A rollback at work has waited for all confirmations; what it has sent and has still to
\* send undoes everything; a bundle is failed only when all of it was sent.
RollbackInv ==
  /\ \A h \in RollbackHandlers :
       /\ proc[h].pc # "idle" => AllConfirmed
       /\ proc[h].pc = "compensate" => CompensatedBut(proc[h].todo)
       /\ proc[h].pc = "write" => CompensatedBut(<<>>)
  /\ \A h \in SagaHandlers : proc[h].vb.failed =>
       /\ h \in {"OnTaxiBooked"} \cup RollbackHandlers /\ proc[h].pc # "idle"
       /\ CompensatedBut(<<>>)
  /\ bundle.failed => bundle.isFinalized /\ CompensatedBut(<<>>)
  /\ (\E t \in Tickets : refunds[t] > 0) => AllConfirmed

\* A list that is part of another has its commands in it.
LEMMA ContainsConcat ==
  ASSUME NEW s \in Seq(Message), NEW t \in Seq(Message), NEW m,
         Contains(s, m) \/ Contains(t, m)
  PROVE  Contains(s \o t, m)
<1>1. CASE Contains(s, m)
  BY <1>1 DEF Contains
<1>2. CASE Contains(t, m)
  <2>1. PICK i \in 1..Len(t) : t[i] = m
    BY <1>2 DEF Contains
  <2>2. Len(s) + i \in 1..Len(s \o t) /\ (s \o t)[Len(s) + i] = m
    BY <2>1
  <2> QED
    BY <2>2 DEF Contains
<1> QED
  BY <1>1, <1>2

\* A command in a list is its first or among the rest.
LEMMA ContainsHead ==
  ASSUME NEW s \in Seq(Message), s # <<>>, NEW m, Contains(s, m)
  PROVE  m = Head(s) \/ Contains(Tail(s), m)
<1>1. PICK i \in 1..Len(s) : s[i] = m
  BY DEF Contains
<1>2. CASE i = 1
  BY <1>1, <1>2
<1>3. CASE i # 1
  <2>1. i - 1 \in 1..Len(Tail(s)) /\ Tail(s)[i - 1] = m
    BY <1>1, <1>3
  <2> QED
    BY <2>1 DEF Contains
<1> QED
  BY <1>2, <1>3

\* The empty list has no command.
LEMMA ContainsNothing == \A m : ~Contains(<<>>, m)
BY DEF Contains

\* The commands drawn up from a row that knows of every flight and lists every ticket
\* leave nothing out.
LEMMA CompensationsComplete ==
  ASSUME TypeOK, Complete(bundle), ListedOnce(bundle),
         Len(bundle.ticketIDs) = NumberOfTickets
  PROVE  CompensatedBut(Compensations(bundle))
<1> DEFINE R == Refunds(bundle)
           I == Cancellation(bundle.inboundFlight)
           J == Cancellation(bundle.returnFlight)
<1>1. bundle.ticketIDs \in Seq(Tickets)
  BY DEF TypeOK, Bundle
<1>2. R \in Seq(Message) /\ I \in Seq(Message) /\ J \in Seq(Message)
  <2>1. R \in Seq(Message)
    BY <1>1, MessageTypes DEF Refunds
  <2>2. \A key \in Keys \cup {NoKey} : Cancellation(key) \in Seq(Message)
    BY MessageTypes DEF Cancellation
  <2> QED
    BY <2>1, <2>2 DEF TypeOK, Bundle
<1>3. Compensations(bundle) = R \o I \o J
  BY DEF Compensations, Complete
<1>4. ASSUME NEW t \in Tickets PROVE Contains(R, Ticket(t))
  <2>1. PICK i \in 1..Len(bundle.ticketIDs) : bundle.ticketIDs[i] = t
    BY <1>1, AllTicketsListed DEF ListedOnce
  <2> QED
    BY <1>1, <2>1 DEF Contains, Refunds
<1>5. ASSUME NEW key \in Keys PROVE Contains(Cancellation(key), FlightTickets(key))
  BY ConstantsAssumption DEF Contains, Cancellation, Keys, NoKey
<1>6. ASSUME NEW flight \in Flights, NEW key \in Keys, Flight(flight, key) \in flightsBooked
      PROVE  Contains(I, FlightTickets(key)) \/ Contains(J, FlightTickets(key))
  BY <1>5, <1>6 DEF Complete, KeyOf, Flights
<1> HIDE DEF R, I, J
<1>7. ASSUME NEW m, Contains(R, m) \/ Contains(I, m) \/ Contains(J, m)
      PROVE  Contains(R \o I \o J, m)
  <2>1. R \o I \in Seq(Message)
    BY <1>2
  <2>2. Contains(R, m) \/ Contains(I, m) => Contains(R \o I, m)
    BY <1>2, ContainsConcat
  <2> QED
    BY <1>2, <1>7, <2>1, <2>2, ContainsConcat
<1> QED
  BY <1>3, <1>4, <1>6, <1>7 DEF CompensatedBut

\* What no step of the rollback's own takes back.
Kept ==
  /\ UNCHANGED flightsBooked
  /\ \A key \in Keys : CancelRequested(key) => CancelRequested(key)'
  /\ \A t \in Tickets : refunds[t] > 0 => refunds'[t] > 0
  /\ AllConfirmed => AllConfirmed'

\* A handler takes a step with p, and the row is written at most with a copy that failed
\* rightly.
LEMMA CopyRollback ==
  ASSUME TypeOK, RollbackInv, Kept,
         (\E t \in Tickets : refunds'[t] > 0) => AllConfirmed,
         NEW h \in SagaHandlers, NEW p, proc' = [proc EXCEPT ![h] = p],
         h \in RollbackHandlers /\ p.pc # "idle" => AllConfirmed,
         h \in RollbackHandlers /\ p.pc = "compensate" => CompensatedBut(p.todo),
         h \in RollbackHandlers /\ p.pc = "write" => CompensatedBut(<<>>),
         p.vb.failed =>
           /\ h \in {"OnTaxiBooked"} \cup RollbackHandlers /\ p.pc # "idle"
           /\ CompensatedBut(<<>>),
         bundle'.failed => bundle'.isFinalized /\ CompensatedBut(<<>>)
  PROVE  RollbackInv'
<1>1. proc'[h] = p /\ \A f \in SagaHandlers \ {h} : proc'[f] = proc[f]
  BY DEF TypeOK
<1>2. ASSUME NEW f \in RollbackHandlers
      PROVE  /\ proc'[f].pc # "idle" => AllConfirmed'
             /\ proc'[f].pc = "compensate" => CompensatedBut(proc[f].todo)'
             /\ proc'[f].pc = "write" => CompensatedBut(<<>>)'
  BY <1>1, NamesOfHandlers DEF RollbackInv, Kept, CompensatedBut
<1>3. ASSUME NEW f \in SagaHandlers, proc'[f].vb.failed
      PROVE  /\ f \in {"OnTaxiBooked"} \cup RollbackHandlers /\ proc'[f].pc # "idle"
             /\ CompensatedBut(<<>>)'
  BY <1>1, <1>3 DEF RollbackInv, Kept, CompensatedBut
<1>4. bundle'.failed => CompensatedBut(<<>>)'
  BY DEF Kept, CompensatedBut
<1> QED
  BY <1>2, <1>3, <1>4 DEF RollbackInv, Kept

\* A step of no handler of the process manager.
LEMMA QuietRollback ==
  ASSUME TypeOK, RollbackInv, Kept, UNCHANGED <<proc, refunds>>,
         bundle'.failed = bundle.failed, bundle'.isFinalized = bundle.isFinalized
  PROVE  RollbackInv'
<1>1. \A f \in RollbackHandlers : proc[f].pc = "compensate" => CompensatedBut(proc[f].todo)'
  BY DEF RollbackInv, Kept, CompensatedBut
<1>2. CompensatedBut(<<>>) => CompensatedBut(<<>>)'
  BY DEF Kept, CompensatedBut
<1> QED
  BY <1>1, <1>2 DEF RollbackInv, Kept

\* An idle handler holds no failed bundle.
LEMMA NotFailedIdle == ~Idle.vb.failed /\ Idle.pc = "idle"
BY DEF Idle, NewVipBundle

\* Every action of the rollback, and every other action, keeps RollbackInv.
LEMMA RollbackStep ==
  ASSUME TypeOK, UndoInv, OneAtATime, AtWork, RowIsComplete, ListedInv, RollbackInv,
         Next, ~StreamMoves,
         listening, redeliveries' = 0
  PROVE  RollbackInv'
<1>h. inbox \in Inboxes /\ proc \in [SagaHandlers -> Process]
  BY DEF TypeOK, Inboxes
<1>n. /\ RollbackHandlers \subseteq SagaHandlers /\ SagaHandlers \subseteq Handlers
      /\ {"OnBookingMade", "OnFlightBooked", "OnTaxiBooked"} \subseteq SagaHandlers \ RollbackHandlers
      /\ {"OnVipBundleInitialized", "OnTicketBookingConfirmed", "DeadNation", "BookShowTickets",
          "BookFlight", "BookTaxi", "CancelFlightTickets"} \subseteq Handlers \ SagaHandlers
  BY DEF Handlers, SagaHandlers, RollbackHandlers
<1>k. ASSUME UNCHANGED <<flightsBooked, flightsCancelled, refunds>>,
             AllConfirmed => AllConfirmed',
             inbox["CancelFlightTickets"] \subseteq inbox'["CancelFlightTickets"]
      PROVE  Kept
  BY <1>k DEF Kept, CancelRequested
<1> DEFINE Calm == /\ UNCHANGED <<flightsBooked, flightsCancelled, refunds, confirmed>>
                   /\ inbox'["OnTicketBookingConfirmed"] \subseteq inbox["OnTicketBookingConfirmed"]
                   /\ inbox["CancelFlightTickets"] \subseteq inbox'["CancelFlightTickets"]
<1>c. Calm => Kept
  BY <1>k DEF AllConfirmed
<1>r. UNCHANGED refunds => ((\E t \in Tickets : refunds'[t] > 0) => AllConfirmed)
  BY DEF RollbackInv
<1>1. ASSUME Add PROVE RollbackInv'
  <2>1. UNCHANGED <<bundle, proc>>
    BY <1>1 DEF Add, AddInsert, AddCommit, AddFails
  <2>2. Calm
    BY <1>1, <1>h, <1>n
    DEF Add, AddInsert, AddCommit, AddFails, Send, Heard, Deliver, Inboxes, services,
        booking,
        transport, outputs
  <2> QED
    BY <2>1, <2>2, <1>c, QuietRollback
<1>2. ASSUME OnVipBundleInitialized PROVE RollbackInv'
  <2>1. UNCHANGED <<bundle, proc>>
    BY <1>2 DEF OnVipBundleInitialized, saga
  <2>2. Calm
    BY <1>2, <1>h, <1>n
    DEF OnVipBundleInitialized, Ack, Send, Heard, Deliver, Inboxes, services, booking,
        transport,
        outputs
  <2> QED
    BY <2>1, <2>2, <1>c, QuietRollback
<1>3. ASSUME OnBookingMade PROVE RollbackInv'
  <2> DEFINE p == [Idle EXCEPT !.pc = "send"]
  <2>1. /\ Calm /\ proc' = [proc EXCEPT !["OnBookingMade"] = p]
        /\ bundle'.failed = bundle.failed /\ bundle'.isFinalized = bundle.isFinalized
    BY <1>3 DEF OnBookingMade, services, booking, transport, outputs, TypeOK, Bundle
  <2>2. ~p.vb.failed
    BY NotFailedIdle, IdleType DEF Process
  <2> HIDE DEF p
  <2>3. bundle'.failed => bundle'.isFinalized /\ CompensatedBut(<<>>)
    BY <2>1 DEF RollbackInv
  <2> QED
    BY <2>1, <2>2, <2>3, <1>n, <1>c, <1>r, CopyRollback
<1>4. ASSUME OnBookingMadeSend PROVE RollbackInv'
  <2>1. UNCHANGED bundle /\ proc' = [proc EXCEPT !["OnBookingMade"] = Idle]
    BY <1>4 DEF OnBookingMadeSend
  <2>2. Calm
    BY <1>4, <1>h, <1>n
    DEF OnBookingMadeSend, Ack, Send, Heard, Deliver, Inboxes, services, booking,
        transport, outputs
  <2>3. bundle'.failed => bundle'.isFinalized /\ CompensatedBut(<<>>)
    BY <2>1 DEF RollbackInv
  <2> QED
    BY <2>1, <2>2, <2>3, <1>n, <1>c, <1>r, NotFailedIdle, CopyRollback
<1>5. ASSUME NEW t \in Tickets, OnTicketBookingConfirmed(t) PROVE RollbackInv'
  <2>1. /\ UNCHANGED proc
        /\ bundle'.failed = bundle.failed /\ bundle'.isFinalized = bundle.isFinalized
    BY <1>5 DEF OnTicketBookingConfirmed, TypeOK, Bundle
  <2>2. Calm
    BY <1>5, <1>h, <1>n
    DEF OnTicketBookingConfirmed, Ack, Send, Heard, Inboxes, services, booking, transport,
        outputs
  <2> QED
    BY <2>1, <2>2, <1>c, QuietRollback
<1>6. ASSUME NEW t \in Tickets, DeadNationConfirms(t) PROVE RollbackInv'
  <2>1. /\ UNCHANGED <<bundle, proc, flightsBooked, flightsCancelled, refunds>>
        /\ confirmed # Tickets
        /\ inbox["CancelFlightTickets"] \subseteq inbox'["CancelFlightTickets"]
    BY <1>6, <1>h, <1>n
    DEF DeadNationConfirms, Send, Heard, Deliver, Inboxes, saga, transport, outputs
  <2> QED
    BY <2>1, <1>k, QuietRollback DEF AllConfirmed
<1>7. ASSUME NEW flight \in Flights, NEW key \in Keys, OnFlightBookedRead(flight, key)
      PROVE  RollbackInv'
  <2> DEFINE p == [Idle EXCEPT !.pc = "write", !.msg = Flight(flight, key),
                               !.vb = RecordFlight(bundle, flight, key)]
  <2>1. /\ Calm /\ UNCHANGED bundle /\ proc' = [proc EXCEPT !["OnFlightBooked"] = p]
        /\ inbox["OnFlightBooked"] # {}
    BY <1>7 DEF OnFlightBookedRead, services, booking, transport, outputs
  <2>2. p.vb = RecordFlight(bundle, flight, key)
    BY DEF Idle
  <2>3. ~bundle.failed
    BY <2>1 DEF OneAtATime, AfterFlights, FlightsOver, FlightInboxes, RollbackInv
  <2>4. ~p.vb.failed
    BY <2>2, <2>3 DEF RecordFlight, TypeOK, Bundle
  <2> HIDE DEF p
  <2> QED
    BY <2>1, <2>3, <2>4, <1>n, <1>c, <1>r, CopyRollback
<1>8. ASSUME NEW h \in {"OnFlightBooked", "OnTaxiBooked"}, UpdateByIDWrite(h)
      PROVE  RollbackInv'
  <2> DEFINE p == [proc[h] EXCEPT !.pc = "send"]
  <2>1. Calm /\ bundle' = proc[h].vb /\ proc[h].pc = "write" /\ proc' = [proc EXCEPT ![h] = p]
    BY <1>8 DEF UpdateByIDWrite, services, booking, transport, outputs
  <2>2. p.vb = proc[h].vb /\ p.pc = "send"
    BY <1>h, <1>n DEF Process
  <2> HIDE DEF p
  <2>3. proc[h].vb.failed => h = "OnTaxiBooked" /\ CompensatedBut(<<>>)
    BY <1>n DEF RollbackInv
  <2>4. proc["OnTaxiBooked"].pc = "write" => proc["OnTaxiBooked"].vb.isFinalized
    BY DEF AtWork
  <2> QED
    BY <2>1, <2>2, <2>3, <2>4, <1>n, <1>c, <1>r, CopyRollback
<1>9. ASSUME OnFlightBookedSend PROVE RollbackInv'
  <2>1. UNCHANGED bundle /\ proc' = [proc EXCEPT !["OnFlightBooked"] = Idle]
    BY <1>9 DEF OnFlightBookedSend
  <2>2. Calm
    BY <1>9, <1>h, <1>n
    DEF OnFlightBookedSend, NextCommand, Ack, Send, Heard, Deliver, Inboxes, services,
        booking,
        transport, outputs
  <2>3. bundle'.failed => bundle'.isFinalized /\ CompensatedBut(<<>>)
    BY <2>1 DEF RollbackInv
  <2> QED
    BY <2>1, <2>2, <2>3, <1>n, <1>c, <1>r, NotFailedIdle, CopyRollback
<1>10. ASSUME NEW key \in Keys, OnTaxiBookedRead(key) PROVE RollbackInv'
  <2> DEFINE p == [Idle EXCEPT !.pc = "write", !.msg = Taxi(key),
                               !.vb = RecordTaxi(bundle, key)]
  <2>1. Calm /\ UNCHANGED bundle /\ proc' = [proc EXCEPT !["OnTaxiBooked"] = p]
    BY <1>10 DEF OnTaxiBookedRead, services, booking, transport, outputs
  <2>2. p.vb = RecordTaxi(bundle, key) /\ p.pc = "write"
    BY DEF Idle
  <2>3. p.vb.failed = bundle.failed
    BY <2>2 DEF RecordTaxi, TypeOK, Bundle
  <2> HIDE DEF p
  <2>4. bundle'.failed => bundle'.isFinalized /\ CompensatedBut(<<>>)
    BY <2>1 DEF RollbackInv
  <2> QED
    BY <2>1, <2>2, <2>3, <2>4, <1>n, <1>c, <1>r, CopyRollback
<1>11. ASSUME OnTaxiBookedPublish PROVE RollbackInv'
  <2>1. UNCHANGED bundle /\ proc' = [proc EXCEPT !["OnTaxiBooked"] = Idle]
    BY <1>11 DEF OnTaxiBookedPublish
  <2>2. Calm
    BY <1>11, <1>h, <1>n
    DEF OnTaxiBookedPublish, Ack, Send, Heard, Inboxes, services, booking, transport
  <2>3. bundle'.failed => bundle'.isFinalized /\ CompensatedBut(<<>>)
    BY <2>1 DEF RollbackInv
  <2> QED
    BY <2>1, <2>2, <2>3, <1>n, <1>c, <1>r, NotFailedIdle, CopyRollback
<1>12. ASSUME NEW h \in RollbackHandlers, Rollback(h) PROVE RollbackInv'
  <2>h. h \in SagaHandlers /\ proc[h] \in Process
    BY <1>h, <1>n
  <2>a. Complete(bundle)
    <3>1. AfterFlights
      BY <1>12
      DEF Rollback, RollbackGet, RollbackSend, RollbackRead, RollbackWrite, AfterFlights
    <3> QED
      BY <3>1, RowAfterFlights
  <2>b. bundle.failed => bundle.isFinalized /\ CompensatedBut(<<>>)
    BY DEF RollbackInv
  <2>1. CASE RollbackGet(h)
    <3> DEFINE p == [Idle EXCEPT !.pc = "compensate", !.todo = Compensations(bundle)]
    <3>1. Calm /\ UNCHANGED bundle /\ proc' = [proc EXCEPT ![h] = p]
      BY <2>1 DEF RollbackGet, services, booking, transport, outputs
    <3>2. p.pc = "compensate" /\ p.vb = Idle.vb /\ p.todo = Compensations(bundle)
      BY DEF Idle
    <3>3. Len(bundle.ticketIDs) = NumberOfTickets
      BY <2>1, <2>a DEF RollbackGet, CanRollBack, Complete
    <3>4. CompensatedBut(Compensations(bundle))
      BY <2>a, <3>3, CompensationsComplete DEF ListedInv
    <3>5. AllConfirmed
      <4>1. \A t \in Tickets : \E i \in 1..Len(bundle.ticketIDs) : bundle.ticketIDs[i] = t
        BY <3>3, AllTicketsListed DEF ListedInv, ListedOnce, TypeOK, Bundle
      <4>2. \A t \in Tickets : Ticket(t) \notin inbox["OnTicketBookingConfirmed"]
        BY <4>1 DEF ListedInv, ListedOnce
      <4>3. inbox["OnTicketBookingConfirmed"] = {}
        BY <4>2 DEF ListedInv, TypeOK
      <4>4. Tickets \subseteq confirmed
        BY <4>1 DEF UndoInv
      <4> QED
        BY <4>3, <4>4 DEF AllConfirmed, TypeOK
    <3> HIDE DEF p
    <3> QED
      BY <3>1, <3>2, <3>4, <3>5, <2>b, <2>h, <1>c, <1>r, NotFailedIdle, CopyRollback
  <2>2. CASE RollbackSend(h)
    <3> DEFINE p == [proc[h] EXCEPT !.todo = Tail(@)]
    <3>1. /\ UNCHANGED <<bundle, flightsBooked, flightsCancelled, confirmed>>
          /\ proc' = [proc EXCEPT ![h] = p]
          /\ proc[h].pc = "compensate" /\ proc[h].todo # <<>>
      BY <2>2 DEF RollbackSend, services, booking, transport
    <3>2. p.vb = proc[h].vb /\ p.pc = proc[h].pc /\ p.todo = Tail(proc[h].todo)
      BY <2>h DEF Process
    <3> HIDE DEF p
    <3>3. /\ inbox'["OnTicketBookingConfirmed"] = inbox["OnTicketBookingConfirmed"]
          /\ inbox["CancelFlightTickets"] \subseteq inbox'["CancelFlightTickets"]
      BY <2>2, <1>h, <1>n DEF RollbackSend, Send, Heard, Deliver, Inboxes
    <3>4. \A t \in Tickets : refunds[t] > 0 => refunds'[t] > 0
      BY <2>2 DEF RollbackSend, TypeOK
    <3>5. AllConfirmed /\ AllConfirmed' /\ CompensatedBut(proc[h].todo)
      BY <3>1, <3>3 DEF RollbackInv, AllConfirmed
    <3>6. Kept
      BY <3>1, <3>3, <3>4, <3>5 DEF Kept, CancelRequested
    <3> DEFINE todo == proc[h].todo
    <3>7. /\ \A flight \in Flights, key \in Keys : Flight(flight, key) \in flightsBooked' =>
               CancelRequested(key)' \/ Contains(Tail(todo), FlightTickets(key))
          /\ \A t \in Tickets : refunds'[t] > 0 \/ Contains(Tail(todo), Ticket(t))
      <4>1. todo \in Seq(Message) /\ todo # <<>>
        BY <3>1, <2>h DEF Process
      <4>2. \A m : Contains(todo, m) => m = Head(todo) \/ Contains(Tail(todo), m)
        BY <4>1, ContainsHead
      <4>d. \A t, key, k : /\ FlightTickets(key) = FlightTickets(k) => key = k
                           /\ key \in Keys => FlightTickets(key) # Ticket(t)
        <5>1. \A t, key : FlightTickets(key)[2] = key /\ Ticket(t)[2] = NoKey
          BY DEF FlightTickets, Ticket
        <5>2. NoKey \notin Keys
          BY ConstantsAssumption DEF Keys, NoKey
        <5> QED
          BY <5>1, <5>2
      <4>3. ASSUME NEW key \in Keys, Head(todo) = FlightTickets(key)
            PROVE  CancelRequested(key)'
        <5>1. inbox' = Deliver(inbox, "CancelFlightTickets", FlightTickets(key))
          BY <2>2, <4>3, <4>d, <1>h, SendContents, DeliverType, MessageTypes,
             NamesOfHandlers
          DEF RollbackSend
        <5> QED
          BY <5>1, <1>h, <1>n DEF CancelRequested, Deliver, Inboxes
      <4>4. ASSUME NEW t \in Tickets, Head(todo) = Ticket(t)
            PROVE  refunds'[t] > 0
        <5>1. refunds' = [refunds EXCEPT ![t] = @ + 1]
          BY <2>2, <4>4, <4>d, TicketsDiffer DEF RollbackSend
        <5> QED
          BY <5>1 DEF TypeOK
      <4> HIDE DEF todo
      <4>5. CompensatedBut(todo)
        BY <3>5 DEF todo
      <4> QED
        BY <3>1, <3>4, <3>6, <4>2, <4>3, <4>4, <4>5 DEF CompensatedBut, Kept
    <3>8. proc'[h] = p /\ \A f \in SagaHandlers \ {h} : proc'[f] = proc[f]
      BY <3>1, <1>h, <2>h
    <3>9. \A f \in RollbackHandlers :
             /\ proc'[f].pc = "compensate" => CompensatedBut(proc[f].todo)'
             /\ proc'[f].pc = "write" => CompensatedBut(<<>>)'
      BY <3>1, <3>2, <3>6, <3>7, <3>8, <1>n DEF RollbackInv, CompensatedBut, Kept
    <3>10. \A f \in SagaHandlers : proc'[f].vb.failed =>
             /\ f \in {"OnTaxiBooked"} \cup RollbackHandlers /\ proc'[f].pc # "idle"
             /\ CompensatedBut(<<>>)'
      BY <3>1, <3>2, <3>6, <3>8 DEF RollbackInv, CompensatedBut, Kept
    <3> QED
      <4>1. CompensatedBut(<<>>) => CompensatedBut(<<>>)'
        BY <3>6 DEF CompensatedBut, Kept
      <4> QED
        BY <3>1, <3>5, <3>9, <3>10, <4>1, <2>b DEF RollbackInv
  <2>3. CASE RollbackRead(h)
    <3> DEFINE vb == [bundle EXCEPT !.isFinalized = TRUE, !.failed = TRUE]
               p == [proc[h] EXCEPT !.pc = "write", !.vb = vb]
    <3>1. Calm /\ UNCHANGED bundle
      BY <2>3 DEF RollbackRead, services, booking, transport, outputs
    <3>2. proc' = [proc EXCEPT ![h] = p]
      BY <2>3, <2>h, <1>h DEF RollbackRead
    <3>3. p.pc = "write"
      BY <2>h DEF Process
    <3>4. AllConfirmed /\ CompensatedBut(<<>>)
      BY <2>3 DEF RollbackRead, RollbackInv
    <3> HIDE DEF p, vb
    <3> QED
      BY <3>1, <3>2, <3>3, <3>4, <2>b, <2>h, <1>c, <1>r, CopyRollback
  <2>4. CASE RollbackWrite(h)
    <3>1. bundle' = proc[h].vb /\ proc[h].pc = "write" /\ proc' = [proc EXCEPT ![h] = Idle]
      BY <2>4 DEF RollbackWrite
    <3>2. Calm
      BY <2>4, <1>h, <1>n, <2>h
      DEF RollbackWrite, Ack, Send, Heard, Inboxes, services, booking, transport, outputs
    <3>3. proc[h].vb.isFinalized /\ CompensatedBut(<<>>)
      BY <3>1 DEF AtWork, RollbackInv
    <3> QED
      BY <3>1, <3>2, <3>3, <2>h, <1>c, <1>r, NotFailedIdle, CopyRollback
  <2> QED
    BY <1>12, <2>1, <2>2, <2>3, <2>4 DEF Rollback
<1>13. ASSUME NEW h \in SagaHandlers, HandlerFails(h) PROVE RollbackInv'
  BY <1>13 DEF HandlerFails, TypeOK
<1>14. ASSUME BookShowTickets \/ BookShowTicketsCommitLost PROVE RollbackInv'
  <2>1. UNCHANGED <<bundle, proc>>
    BY <1>14 DEF BookShowTickets, BookShowTicketsCommitLost, saga
  <2>2. Calm
    BY <1>14, <1>h, <1>n
    DEF BookShowTickets, BookShowTicketsCommitLost, Ack, Send, Heard, Deliver, Inboxes,
        services,
        booking, transport, outputs
  <2> QED
    BY <2>1, <2>2, <1>c, QuietRollback
<1>15. ASSUME NEW flight \in Flights, NEW key \in Keys, BookFlight(flight, key)
       PROVE  RollbackInv'
  <2>1. /\ UNCHANGED <<bundle, proc, refunds, confirmed>> /\ inbox["BookFlight"] # {}
        /\ inbox'["OnTicketBookingConfirmed"] \subseteq inbox["OnTicketBookingConfirmed"]
    BY <1>15, <1>h, <1>n
    DEF BookFlight, Ack, Send, Heard, Deliver, Inboxes, saga, booking, outputs
  <2>2. ~AfterFlights
    BY <2>1 DEF OneAtATime, FlightsOver, FlightInboxes
  <2>3. AllConfirmed => AllConfirmed'
    BY <2>1 DEF AllConfirmed
  <2> QED
    BY <2>1, <2>2, <2>3, <1>n DEF RollbackInv, AfterFlights
<1>16. ASSUME NEW flight \in Flights, NEW key \in Keys, BookFlightUnavailable(flight, key)
       PROVE  RollbackInv'
  <2>1. UNCHANGED <<bundle, proc>>
    BY <1>16 DEF BookFlightUnavailable, saga
  <2>2. Calm
    BY <1>16, <1>h, <1>n
    DEF BookFlightUnavailable, Ack, Send, Heard, Deliver, Inboxes, services, booking,
        transport,
        outputs
  <2> QED
    BY <2>1, <2>2, <1>c, QuietRollback
<1>17. ASSUME NEW key \in Keys, BookTaxi(key) \/ BookTaxiError(key) PROVE RollbackInv'
  <2>1. UNCHANGED <<bundle, proc>>
    BY <1>17 DEF BookTaxi, BookTaxiError, saga
  <2>2. Calm
    BY <1>17, <1>h, <1>n
    DEF BookTaxi, BookTaxiError, Ack, Send, Heard, Deliver, Inboxes, booking, outputs
  <2> QED
    BY <2>1, <2>2, <1>c, QuietRollback
<1>18. ASSUME NEW key \in Keys, CancelFlightTickets(key) PROVE RollbackInv'
  <2>1. /\ UNCHANGED <<bundle, proc, refunds, confirmed, flightsBooked>>
        /\ flightsCancelled' = flightsCancelled \cup {key}
    BY <1>18 DEF CancelFlightTickets, saga, booking, outputs
  <2>2. /\ inbox'["CancelFlightTickets"] = inbox["CancelFlightTickets"] \ {FlightTickets(key)}
        /\ inbox'["OnTicketBookingConfirmed"] = inbox["OnTicketBookingConfirmed"]
    BY <1>18, <1>h, <1>n, FirstAck DEF CancelFlightTickets
  <2>3. \A k \in Keys : FlightTickets(k) = FlightTickets(key) => k = key
    BY DEF FlightTickets
  <2>4. Kept
    BY <2>1, <2>2, <2>3 DEF Kept, CancelRequested, AllConfirmed
  <2> QED
    BY <2>1, <2>4, QuietRollback
<1> QED
  BY <1>1, <1>2, <1>3, <1>4, <1>5, <1>6, <1>7, <1>8, <1>9, <1>10, <1>11, <1>12,
     <1>13, <1>14, <1>15, <1>16, <1>17, <1>18
  DEF Next, OnFlightBooked, OnTaxiBooked, FlightCommand, TaxiCommand

-----------------------------------------------------------------------------
\* Nothing takes a redelivery back.
LEMMA RedeliveriesGrow ==
  ASSUME TypeOK, [Next]_vars, redeliveries' = 0
  PROVE  redeliveries = 0
<1>1. CASE UNCHANGED vars
  BY <1>1 DEF vars
<1>2. CASE Next
  <2>1. redeliveries' = redeliveries \/ redeliveries' = redeliveries + 1
    BY <1>2, StreamStep
    DEF Next, Add, AddInsert, AddCommit, AddFails, OnVipBundleInitialized, OnBookingMade,
        OnBookingMadeSend, OnTicketBookingConfirmed, DeadNationConfirms, OnFlightBooked,
        OnFlightBookedRead, UpdateByIDWrite, OnFlightBookedSend, OnTaxiBooked,
        OnTaxiBookedRead, OnTaxiBookedPublish, Rollback, RollbackGet, RollbackSend,
        RollbackRead, RollbackWrite, HandlerFails, BookShowTickets,
        BookShowTicketsCommitLost, FlightCommand, BookFlight, BookFlightUnavailable,
        TaxiCommand, BookTaxi, BookTaxiError, CancelFlightTickets, Ack, Send, Heard
  <2> QED
    BY <2>1 DEF TypeOK
<1> QED
  BY <1>1, <1>2

\* The splitter stays subscribed until the service crashes.
LEMMA ListeningStep ==
  ASSUME listening, TypeOK, [Next]_vars, redeliveries' = 0
  PROVE  listening'
<1>1. CASE UNCHANGED vars
  BY <1>1 DEF vars, stream
<1>2. CASE StreamMoves
  <2>1. redeliveries' # redeliveries + 1
    BY DEF TypeOK
  <2> QED
    BY <1>2, <2>1
    DEF StreamMoves, Splitter, ForwardedUnheard, Crash, SplitterSubscribes
<1>3. CASE Next /\ ~StreamMoves
  BY <1>3
  DEF Next, Add, AddInsert, AddCommit, AddFails, OnVipBundleInitialized, OnBookingMade,
      OnBookingMadeSend, OnTicketBookingConfirmed, DeadNationConfirms, OnFlightBooked,
      OnFlightBookedRead, UpdateByIDWrite, OnFlightBookedSend, OnTaxiBooked,
      OnTaxiBookedRead, OnTaxiBookedPublish, Rollback, RollbackGet, RollbackSend,
      RollbackRead, RollbackWrite, HandlerFails, BookShowTickets,
      BookShowTicketsCommitLost, FlightCommand, BookFlight, BookFlightUnavailable,
      TaxiCommand, BookTaxi, BookTaxiError, CancelFlightTickets, Ack, Send, stream
<1> QED
  BY <1>1, <1>2, <1>3

\* The inductive invariant of the runs in which nothing was redelivered so far.
FirstInv ==
  redeliveries = 0 =>
    listening /\ OneAtATime /\ AtWork /\ RowIsComplete /\ ListedInv /\ RollbackInv

\* Every action keeps the five parts.
LEMMA FirstStep ==
  TypeOK /\ SagaInv /\ UndoInv /\ FirstInv /\ [Next]_vars => FirstInv'
<1> SUFFICES ASSUME TypeOK, SagaInv, UndoInv, FirstInv, [Next]_vars, redeliveries' = 0
             PROVE  (listening /\ OneAtATime /\ AtWork /\ RowIsComplete /\ ListedInv
                       /\ RollbackInv)'
  BY DEF FirstInv
<1>1. redeliveries = 0
  BY RedeliveriesGrow
<1>2. listening /\ OneAtATime /\ AtWork /\ RowIsComplete /\ ListedInv /\ RollbackInv
  BY <1>1 DEF FirstInv
<1>l. listening'
  BY <1>2, ListeningStep
<1>3. CASE Next /\ ~StreamMoves
  BY <1>l, <1>2, <1>3, OneAtATimeStep, AtWorkStep, RowIsCompleteStep, ListedStep,
     RollbackStep
<1>4. CASE StreamMoves \/ UNCHANGED vars
  <2>1. UNCHANGED <<added, bundle, inbox, proc, showBooked, confirmed, flightsBooked,
                    flightsCancelled, refunds>>
    <3>1. redeliveries' # redeliveries + 1
      BY <1>1
    <3> QED
      BY <1>2, <1>4, <3>1
      DEF StreamMoves, Splitter, ForwardedUnheard, Crash, SplitterSubscribes, vars, saga,
          services, booking, transport, outputs
  <2>2. OneAtATime'
    BY <1>2, <2>1 DEF OneAtATime, ShowOnce, FlightOnce, AfterFlights, FlightsOver
  <2>3. AtWork'
    BY <1>2, <2>1 DEF AtWork
  <2>4. RowIsComplete'
    BY <1>2, <2>1 DEF RowIsComplete, Complete, KeyOf, AfterFlights
  <2>5. ListedInv'
    BY <1>2, <2>1 DEF ListedInv, ListedOnce
  <2>6. RollbackInv'
    BY <1>2, <2>1 DEF RollbackInv, CompensatedBut, CancelRequested, AllConfirmed
  <2> QED
    BY <1>l, <2>2, <2>3, <2>4, <2>5, <2>6
<1> QED
  BY <1>3, <1>4

\* They hold at the start.
LEMMA FirstInit == Init => FirstInv
<1> SUFFICES ASSUME Init
             PROVE  listening /\ OneAtATime /\ AtWork /\ RowIsComplete /\ ListedInv
                      /\ RollbackInv
  BY DEF FirstInv
<1>1. /\ \A h \in Handlers : inbox[h] = {}
      /\ \A h \in SagaHandlers : proc[h] = Idle
      /\ ~bundle.isFinalized /\ ~bundle.failed /\ bundle.ticketIDs = <<>>
      /\ flightsBooked = {} /\ ~showBooked /\ added = "no"
      /\ \A t \in Tickets : refunds[t] = 0
  BY DEF Init, NewVipBundle
<1>2. Idle.pc = "idle" /\ ~Idle.vb.failed /\ Idle.vb.ticketIDs = <<>>
  BY NotFailedIdle, IdleList
<1>n. FlightInboxes \subseteq Handlers /\ RollbackHandlers \subseteq SagaHandlers
  BY DEF FlightInboxes, Handlers, SagaHandlers
<1>3. ~AfterFlights
  BY <1>1, <1>2, <1>n, NamesOfHandlers DEF AfterFlights
<1>4. OneAtATime
  BY <1>1, <1>3, <1>n DEF OneAtATime, ShowOnce, FlightOnce, FlightInboxes
<1>5. AtWork
  BY <1>1, <1>2, <1>n, NamesOfHandlers DEF AtWork
<1>6. RowIsComplete
  BY <1>1, <1>2, <1>3, <1>n, NamesOfHandlers DEF RowIsComplete
<1>7. ListedInv
  BY <1>1, <1>2, NamesOfHandlers DEF ListedInv, ListedOnce
<1>8. RollbackInv
  BY <1>1, <1>2, <1>n DEF RollbackInv
<1>9. listening
  BY DEF Init
<1> QED
  BY <1>4, <1>5, <1>6, <1>7, <1>8, <1>9

\* FirstInv is an invariant.
THEOREM FirstInvariant == Spec => []FirstInv
<1> QED
  BY FirstInit, FirstStep, TypeCorrect, SagaInvariant, UndoInvariant, PTL DEF Spec

\* While nothing is redelivered, a bundle marked failed has had every flight ever booked
\* for it cancelled and every ticket refunded, whatever its handlers interleaved.
THEOREM RollbackCompleteHolds == Spec => []RollbackComplete
<1>1. FirstInv => RollbackComplete
  BY ContainsNothing DEF FirstInv, RollbackInv, CompensatedBut, RollbackComplete
<1> QED
  BY <1>1, FirstInvariant, PTL

\* While nothing is redelivered, no ticket is refunded before all are confirmed: the
\* length check of rollbackTickets counts each ticket once, so it is a check for all.
THEOREM RefundsAwaitConfirmationsHolds == Spec => []RefundsAwaitConfirmations
<1>1. FirstInv => RefundsAwaitConfirmations
  BY DEF FirstInv, RollbackInv, AllConfirmed, RefundsAwaitConfirmations
<1> QED
  BY <1>1, FirstInvariant, PTL

\* One step of a bundle that is final.
LEMMA StaysFinal ==
  ASSUME TypeOK, OneAtATime, AtWork, Next, bundle.isFinalized
  PROVE  bundle'.isFinalized
<1>1. ASSUME UpdateByIDWrite("OnFlightBooked") PROVE FALSE
  <2>1. proc["OnFlightBooked"].pc # "idle"
    BY <1>1 DEF UpdateByIDWrite
  <2>2. inbox["OnFlightBooked"] # {}
    BY <2>1 DEF AtWork
  <2> QED
    BY <2>2 DEF OneAtATime, AfterFlights, FlightsOver, FlightInboxes
<1>2. ASSUME UpdateByIDWrite("OnTaxiBooked") PROVE bundle'.isFinalized
  BY <1>2 DEF UpdateByIDWrite, AtWork
<1>3. ASSUME NEW h \in RollbackHandlers, RollbackWrite(h) PROVE bundle'.isFinalized
  BY <1>3 DEF RollbackWrite, AtWork
<1>4. ASSUME NEW t \in Tickets, OnTicketBookingConfirmed(t) PROVE bundle'.isFinalized
  BY <1>4 DEF OnTicketBookingConfirmed, TypeOK, Bundle
<1>5. ASSUME OnBookingMade PROVE bundle'.isFinalized
  BY <1>5 DEF OnBookingMade, TypeOK, Bundle
<1>6. UNCHANGED bundle \/ bundle'.isFinalized
  BY <1>1, <1>2, <1>3, <1>4, <1>5, StreamStep
  DEF Next, Add, AddInsert, AddCommit, AddFails, OnVipBundleInitialized,
      OnBookingMadeSend, DeadNationConfirms, OnFlightBooked, OnFlightBookedRead,
      OnFlightBookedSend, OnTaxiBooked, OnTaxiBookedRead, OnTaxiBookedPublish, Rollback,
      RollbackGet, RollbackSend, RollbackRead, HandlerFails, BookShowTickets,
      BookShowTicketsCommitLost, FlightCommand, BookFlight, BookFlightUnavailable,
      TaxiCommand, BookTaxi, BookTaxiError, CancelFlightTickets, saga
<1> QED
  BY <1>6

\* While nothing is redelivered, no stale copy of the row takes the finality of a bundle
\* back.
THEOREM FinalizedIsStableHolds == Spec => FinalizedIsStable
<1>1. TypeOK /\ FirstInv /\ [Next]_vars =>
        [redeliveries' = 0 /\ bundle.isFinalized => bundle'.isFinalized]_<<bundle, redeliveries>>
  <2> SUFFICES ASSUME TypeOK, FirstInv, [Next]_vars, redeliveries' = 0, bundle.isFinalized
               PROVE  bundle'.isFinalized
    OBVIOUS
  <2>1. OneAtATime /\ AtWork
    BY RedeliveriesGrow DEF FirstInv
  <2> QED
    BY <2>1, StaysFinal DEF vars, saga
<1> QED
  BY <1>1, TypeCorrect, FirstInvariant, PTL DEF Spec, FinalizedIsStable

=============================================================================
