------------------------------ MODULE Tickets -------------------------------
(***************************************************************************)
(* The life of tickets in the tickets service (project/): POST             *)
(* /tickets-status publishes an event for every ticket of its request, the *)
(* splitter copies it to the topic of its handlers, six handlers with a    *)
(* consumer group each turn the events into rows of spreadsheets,          *)
(* receipts, files and rows of the table tickets, and the command          *)
(* RefundTicket voids the receipt and refunds the payment.                 *)
(*                                                                         *)
(* The splitter has no consumer group: it starts again at the end of the   *)
(* stream, and what it has not copied when the service goes down is lost.  *)
(*                                                                         *)
(* A handler makes its calls in order and its message is acked after the   *)
(* last one: it may die, or a call may fail, after any of them, and then   *)
(* all of them are made again.  The calls of two handlers go to different  *)
(* services, so a handler's calls up to its failure are one step.          *)
(***************************************************************************)
EXTENDS Integers, Sequences, FiniteSets

CONSTANTS
  TicketIDs,
  Requests,    \* requests to POST /tickets-status: each has its Idempotency-Key
  Content,     \* the tickets of a request, each with a status
  Refunds,     \* the RefundTicket commands: [id, ticket]
  MaxAttempts, \* bound: how often the client sends a request
  MaxFaults    \* bound: calls that fail, answers and acks that are lost, crashes

Statuses == {"confirmed", "canceled", "other"}
Sheets   == {"tickets-to-print", "tickets-to-refund"}

ASSUME TicketsAssumption ==
  /\ Content \in [Requests -> Seq([ticket : TicketIDs, status : Statuses])]
  /\ \A c \in Refunds : c.ticket \in TicketIDs
  /\ MaxAttempts \in [Requests -> Nat]
  /\ MaxFaults \in Nat

ConfirmedHandlers == {"AppendToTracker", "IssueReceipt", "PrintTicketHandler", "StoreTickets"}
CanceledHandlers  == {"TicketRefundToSheet", "RemoveCanceledTicket"}
HandlersOf(status) == IF status = "confirmed" THEN ConfirmedHandlers ELSE CanceledHandlers
EventHandlers == ConfirmedHandlers \cup CanceledHandlers

\* TicketBookingConfirmed_v1 or TicketBookingCanceled_v1: every publication is an event
\* of its own; the idempotency key in its header is that of the request and the ticket.
Events == [status : {"confirmed", "canceled"}, ticket : TicketIDs, request : Requests,
           attempt : Nat]

VARIABLES
  answer,    \* of a request: "new", "open" (being handled), "ok" or "error"
  attempt,   \* how often the client has sent the request
  position,  \* how many of its tickets the current attempt has published
  published, \* the events ever published
  unread,    \* the stream of all events, from the first that the splitter has not copied
  passed,    \* the events that the splitter has copied
  inbox,     \* the events a handler has not acked
  commands,  \* the RefundTicket commands not acked
  sent,      \* the RefundTicket commands ever sent
  tickets,   \* the rows of the table tickets
  rows,      \* the rows of a spreadsheet for a ticket
  receipts,  \* the receipts issued: the idempotency key and the ticket
  files,     \* the tickets that have a file
  unstored,  \* the tickets whose file the files API has refused once
  voided,    \* the keys under which receipts were voided
  refunded,  \* the keys under which payments were refunded
  followUps, \* TicketReceiptIssued_v1, TicketPrinted_v1 and TicketRefunded_v1 published
  faults     \* faults so far (bounds the model)

requests == <<answer, attempt, position>>
messages == <<published, unread, passed, inbox, commands, sent, followUps>>
services == <<tickets, rows, receipts, files, unstored, voided, refunded>>
vars     == <<requests, messages, services, faults>>

FollowUps ==
  [name : {"issued", "printed", "refunded"}, ticket : TicketIDs]

Keys == [request : Requests, ticket : TicketIDs]

TypeOK ==
  /\ answer \in [Requests -> {"new", "open", "ok", "error"}]
  /\ attempt \in [Requests -> Nat]
  /\ position \in [Requests -> Nat]
  /\ \A r \in Requests : attempt[r] <= MaxAttempts[r] /\ position[r] <= Len(Content[r])
  /\ published \subseteq Events
  /\ unread \in Seq(Events)
  /\ passed \subseteq Events
  /\ inbox \in [EventHandlers -> SUBSET Events]
  /\ commands \subseteq Refunds
  /\ sent \subseteq Refunds
  /\ tickets \subseteq TicketIDs
  /\ rows \in [Sheets -> [TicketIDs -> Nat]]
  /\ receipts \subseteq Keys
  /\ files \subseteq TicketIDs
  /\ unstored \subseteq TicketIDs
  /\ voided \subseteq Refunds
  /\ refunded \subseteq Refunds
  /\ followUps \subseteq FollowUps
  /\ faults \in 0..MaxFaults

Fault == faults < MaxFaults /\ faults' = faults + 1

-----------------------------------------------------------------------------
(* POST /tickets-status *)

\* The client sends the request; again when it failed, or when its answer is lost.
PostTicketsStatus(r) ==
  /\ attempt[r] < MaxAttempts[r]
  /\ \/ answer[r] \in {"new", "error"} /\ UNCHANGED faults
     \/ answer[r] = "ok" /\ Fault
  /\ answer' = [answer EXCEPT ![r] = "open"]
  /\ attempt' = [attempt EXCEPT ![r] = @ + 1]
  /\ position' = [position EXCEPT ![r] = 0]
  /\ UNCHANGED <<messages, services>>

\* eventBus.Publish: the event is appended to the stream of all events.
Publish(event) ==
  /\ published' = published \cup {event}
  /\ unread' = Append(unread, event)

NextTicket(r) == Content[r][position[r] + 1]
More(r) == answer[r] = "open" /\ position[r] < Len(Content[r])
EventOf(r) ==
  [status |-> NextTicket(r).status, ticket |-> NextTicket(r).ticket, request |-> r,
   attempt |-> attempt[r]]

PublishNext(r) ==
  /\ More(r)
  /\ NextTicket(r).status # "other"
  /\ Publish(EventOf(r))
  /\ position' = [position EXCEPT ![r] = @ + 1]
  /\ UNCHANGED <<answer, attempt, passed, inbox, commands, sent, followUps, services, faults>>

\* Mutant: the error of Publish is logged and the loop goes on.
PublishFails_Logged(r) ==
  /\ More(r)
  /\ NextTicket(r).status # "other"
  /\ Fault
  /\ position' = [position EXCEPT ![r] = @ + 1]
  /\ UNCHANGED <<answer, attempt, messages, services>>

\* The event is not published, or it is and nobody learns of it: the request fails, and
\* the tickets after this one are not published.
PublishFails(r) ==
  /\ More(r)
  /\ NextTicket(r).status # "other"
  /\ Fault
  /\ Publish(EventOf(r)) \/ UNCHANGED <<published, unread>>
  /\ answer' = [answer EXCEPT ![r] = "error"]
  /\ UNCHANGED <<attempt, position, passed, inbox, commands, sent, followUps, services>>

\* "unknown ticket status": the tickets before this one are published already.
UnknownStatus(r) ==
  /\ More(r)
  /\ NextTicket(r).status = "other"
  /\ answer' = [answer EXCEPT ![r] = "error"]
  /\ UNCHANGED <<attempt, position, messages, services, faults>>

Answer(r) ==
  /\ answer[r] = "open"
  /\ position[r] = Len(Content[r])
  /\ answer' = [answer EXCEPT ![r] = "ok"]
  /\ UNCHANGED <<attempt, position, messages, services, faults>>

-----------------------------------------------------------------------------
(* The splitter, and what a crash takes from it *)

\* events_splitter: the event waits in the consumer group of every handler for it.
Splitter ==
  /\ unread # <<>>
  /\ LET event == Head(unread) IN
       /\ inbox' = [h \in EventHandlers |->
                     IF h \in HandlersOf(event.status) THEN inbox[h] \cup {event}
                     ELSE inbox[h]]
       /\ passed' = passed \cup {event}
  /\ unread' = Tail(unread)
  /\ UNCHANGED <<requests, published, commands, sent, followUps, services, faults>>

\* The service dies with its requests and starts again.  The consumer groups go on where
\* they were; the splitter reads what is published from now on.  (Requests are served
\* only when it is subscribed.)
Crash ==
  /\ Fault
  /\ unread' = <<>>
  /\ answer' = [r \in Requests |-> IF answer[r] = "open" THEN "error" ELSE answer[r]]
  /\ UNCHANGED <<attempt, position, published, passed, inbox, commands, sent, followUps,
                 services>>

-----------------------------------------------------------------------------
(* The event handlers *)

\* The handler has made all of its calls: its event is acked, unless that is lost.
Done(h, e) ==
  \/ inbox' = [inbox EXCEPT ![h] = @ \ {e}] /\ UNCHANGED faults
  \/ Fault /\ UNCHANGED inbox

\* The spreadsheet API (external) appends whatever it is sent.
AppendRow(sheet, t) == rows' = [rows EXCEPT ![sheet][t] = @ + 1]

\* Mutant: an error of the spreadsheet API is not returned.
AppendToTracker_NoError(e) ==
  /\ e \in inbox["AppendToTracker"]
  /\ inbox' = [inbox EXCEPT !["AppendToTracker"] = @ \ {e}]
  /\ \/ AppendRow("tickets-to-print", e.ticket) /\ UNCHANGED faults
     \/ Fault /\ UNCHANGED rows
  /\ UNCHANGED <<requests, published, unread, passed, commands, sent, followUps,
                 tickets, receipts, files, unstored, voided, refunded>>

AppendToTracker(e) ==
  /\ e \in inbox["AppendToTracker"]
  /\ Done("AppendToTracker", e)
  /\ AppendRow("tickets-to-print", e.ticket)
  /\ UNCHANGED <<requests, published, unread, passed, commands, sent, followUps,
                 tickets, receipts, files, unstored, voided, refunded>>

TicketRefundToSheet(e) ==
  /\ e \in inbox["TicketRefundToSheet"]
  /\ Done("TicketRefundToSheet", e)
  /\ AppendRow("tickets-to-refund", e.ticket)
  /\ UNCHANGED <<requests, published, unread, passed, commands, sent, followUps,
                 tickets, receipts, files, unstored, voided, refunded>>

\* INSERT ... ON CONFLICT DO NOTHING
Create(t) == tickets' = tickets \cup {t}

\* Mutant: a row that is not there is an error, as it is in Update.
Delete_Strict(t) == t \in tickets /\ tickets' = tickets \ {t}

\* DELETE FROM tickets, whether the row is there or not.
Delete(t) == tickets' = tickets \ {t}

StoreTickets(e) ==
  /\ e \in inbox["StoreTickets"]
  /\ Create(e.ticket)
  /\ Done("StoreTickets", e)
  /\ UNCHANGED <<requests, published, unread, passed, commands, sent, followUps,
                 rows, receipts, files, unstored, voided, refunded>>

RemoveCanceledTicket(e) ==
  /\ e \in inbox["RemoveCanceledTicket"]
  /\ Delete(e.ticket)
  /\ Done("RemoveCanceledTicket", e)
  /\ UNCHANGED <<requests, published, unread, passed, commands, sent, followUps,
                 rows, receipts, files, unstored, voided, refunded>>

\* Mutant: the key of the event is a new one for every publication.
ReceiptKey_Fresh(e) == [request |-> e.request, ticket |-> e.ticket, attempt |-> e.attempt]

\* The idempotency key in the header of the event: that of the request and the ticket.
ReceiptKey(e) == [request |-> e.request, ticket |-> e.ticket]

\* PUT /receipts: the API (external) issues one receipt for a key, and answers 200 with
\* that receipt when it is asked again.
CreateReceipt(key) == receipts' = receipts \cup {key}

FollowUp(name, t) == followUps' = followUps \cup {[name |-> name, ticket |-> t]}

IssueReceipt(e) ==
  /\ e \in inbox["IssueReceipt"]
  /\ CreateReceipt(ReceiptKey(e))
  /\ \/ FollowUp("issued", e.ticket) /\ Done("IssueReceipt", e)
     \/ Fault /\ UNCHANGED <<followUps, inbox>>
  /\ UNCHANGED <<requests, published, unread, passed, commands, sent, tickets, rows, files,
                 unstored, voided, refunded>>

\* The files API stores the file; one that exists already (409) is as good as a new one.
StoreFile(t) == files' = files \cup {t} /\ UNCHANGED unstored

\* It answers with any other status, which is taken for success as well.
RefuseFile(t) == unstored' = unstored \cup {t} /\ UNCHANGED files

\* Mutant: the event is published before the file is stored.
PrintTicket_EventFirst(e) ==
  /\ e \in inbox["PrintTicketHandler"]
  /\ FollowUp("printed", e.ticket)
  /\ \/ /\ StoreFile(e.ticket)
        /\ inbox' = [inbox EXCEPT !["PrintTicketHandler"] = @ \ {e}]
        /\ UNCHANGED faults
     \/ Fault /\ UNCHANGED <<files, unstored, inbox>>
  /\ UNCHANGED <<requests, published, unread, passed, commands, sent, tickets, rows, receipts,
                 voided, refunded>>

\* StoreTicketsInFile: the file is stored (or refused, a fault of its own) and then the
\* event published; the handler may fail before or after it is.
PrintTicket(e) ==
  /\ e \in inbox["PrintTicketHandler"]
  /\ \/ /\ \/ StoreFile(e.ticket) /\ UNCHANGED faults
           \/ RefuseFile(e.ticket) /\ Fault
        /\ FollowUp("printed", e.ticket)
        /\ inbox' = [inbox EXCEPT !["PrintTicketHandler"] = @ \ {e}]
     \/ /\ Fault
        /\ StoreFile(e.ticket) \/ RefuseFile(e.ticket)
        /\ FollowUp("printed", e.ticket) \/ UNCHANGED followUps
        /\ UNCHANGED inbox
  /\ UNCHANGED <<requests, published, unread, passed, commands, sent, tickets, rows, receipts,
                 voided, refunded>>

-----------------------------------------------------------------------------
(* RefundTicket *)

\* The process manager sends the command for a ticket that was confirmed to it.
SendRefund(c) ==
  /\ c \in Refunds \ sent
  /\ \E e \in passed : e.status = "confirmed" /\ e.ticket = c.ticket
  /\ sent' = sent \cup {c}
  /\ commands' = commands \cup {c}
  /\ UNCHANGED <<requests, published, unread, passed, inbox, followUps, services, faults>>

\* Both services (external) do once what they are asked to do again with the same key.
VoidReceipt(c) == voided' = voided \cup {c}
RefundPayment(c) == refunded' = refunded \cup {c}

\* The receipt is voided, the payment refunded and TicketRefunded_v1 published, in this
\* order.
RefundTicket(c) ==
  /\ c \in commands
  /\ VoidReceipt(c)
  /\ \/ Fault /\ UNCHANGED <<refunded, followUps, commands>>
     \/ /\ RefundPayment(c)
        /\ \/ Fault /\ UNCHANGED <<followUps, commands>>
           \/ /\ FollowUp("refunded", c.ticket)
              /\ \/ commands' = commands \ {c} /\ UNCHANGED faults
                 \/ Fault /\ UNCHANGED commands
  /\ UNCHANGED <<requests, published, unread, passed, inbox, sent, tickets, rows, receipts,
                 files, unstored>>

-----------------------------------------------------------------------------
Init ==
  /\ answer = [r \in Requests |-> "new"]
  /\ attempt = [r \in Requests |-> 0]
  /\ position = [r \in Requests |-> 0]
  /\ published = {}
  /\ unread = <<>>
  /\ passed = {}
  /\ inbox = [h \in EventHandlers |-> {}]
  /\ commands = {}
  /\ sent = {}
  /\ tickets = {}
  /\ rows = [s \in Sheets |-> [t \in TicketIDs |-> 0]]
  /\ receipts = {}
  /\ files = {}
  /\ unstored = {}
  /\ voided = {}
  /\ refunded = {}
  /\ followUps = {}
  /\ faults = 0

HandleRequest(r) == PublishNext(r) \/ PublishFails(r) \/ UnknownStatus(r) \/ Answer(r)

HandleEvent ==
  \/ \E e \in inbox["AppendToTracker"] : AppendToTracker(e)
  \/ \E e \in inbox["TicketRefundToSheet"] : TicketRefundToSheet(e)
  \/ \E e \in inbox["StoreTickets"] : StoreTickets(e)
  \/ \E e \in inbox["RemoveCanceledTicket"] : RemoveCanceledTicket(e)
  \/ \E e \in inbox["IssueReceipt"] : IssueReceipt(e)
  \/ \E e \in inbox["PrintTicketHandler"] : PrintTicket(e)

Next ==
  \/ \E r \in Requests : PostTicketsStatus(r) \/ HandleRequest(r)
  \/ Splitter \/ Crash
  \/ HandleEvent
  \/ \E c \in Refunds : SendRefund(c) \/ RefundTicket(c)

Spec == Init /\ [][Next]_vars

(* The service answers requests; the splitter and every handler handle their
   messages.  No client has to send a request, and nothing has to fail.     *)
Fairness ==
  /\ \A r \in Requests : WF_vars(HandleRequest(r))
  /\ WF_vars(Splitter)
  /\ WF_vars(\E e \in inbox["AppendToTracker"] : AppendToTracker(e))
  /\ WF_vars(\E e \in inbox["TicketRefundToSheet"] : TicketRefundToSheet(e))
  /\ WF_vars(\E e \in inbox["StoreTickets"] : StoreTickets(e))
  /\ WF_vars(\E e \in inbox["RemoveCanceledTicket"] : RemoveCanceledTicket(e))
  /\ WF_vars(\E e \in inbox["IssueReceipt"] : IssueReceipt(e))
  /\ WF_vars(\E e \in inbox["PrintTicketHandler"] : PrintTicket(e))
  /\ WF_vars(\E c \in Refunds : RefundTicket(c))

FairSpec == Spec /\ Fairness

-----------------------------------------------------------------------------
(* Properties *)

ElementsOf(seq) == {seq[i] : i \in 1..Len(seq)}
Announced(r, item) ==
  \E e \in published : e.request = r /\ e.ticket = item.ticket /\ e.status = item.status

\* A request that is answered 200 has published the event of every one of its tickets,
\* although an attempt may stop half-way and be repeated from the start.
AnsweredIsPublished ==
  \A r \in Requests : answer[r] = "ok" =>
    \A item \in ElementsOf(Content[r]) : Announced(r, item)

\* The invariant behind it: what an attempt has passed is published.
PassedIsPublished ==
  /\ AnsweredIsPublished
  /\ \A r \in Requests : answer[r] = "open" =>
       \A i \in 1..position[r] : Announced(r, Content[r][i])

\* However often the client repeats a request, and however often its events are
\* delivered, a ticket gets one receipt at most from each request that confirms it.
OneReceiptPerRequest ==
  \A t \in TicketIDs :
    Cardinality({k \in receipts : k.ticket = t}) <=
      Cardinality({r \in Requests : [ticket |-> t, status |-> "confirmed"]
                                      \in ElementsOf(Content[r])})

\* What the events after a confirmation or a refund say has happened at its service,
\* wherever a handler dies: TicketReceiptIssued_v1 needs the receipt, TicketRefunded_v1
\* the refunded payment, TicketPrinted_v1 the file or an answer of the files API (one
\* that refuses it is enough); and no payment is refunded before its receipt is void.
EventsTellTheTruth ==
  /\ \A f \in followUps :
       CASE f.name = "issued"   -> \E k \in receipts : k.ticket = f.ticket
         [] f.name = "printed"  -> f.ticket \in files \cup unstored
         [] f.name = "refunded" -> \E c \in refunded : c.ticket = f.ticket
  /\ refunded \subseteq voided

\* The events of a ticket that a handler has still to handle, and all.
Pending(h, t) == {e \in inbox[h] : e.ticket = t}
Sent(status, t) == {e \in published : e.status = status /\ e.ticket = t}

\* The events that were still to be copied when the service went down.
Lost == published \ (passed \cup ElementsOf(unread))

\* All that follows from the events that were published has happened: after a confirmation
\* a row, a receipt, a file (or its refusal) and their events, and a row of the table unless
\* the ticket is cancelled; after a cancellation a row in its sheet; and a refund that the
\* process manager asked for has refunded the payment and voided the receipt.
Processed ==
  /\ \A t \in TicketIDs :
       /\ ~(Sent("confirmed", t) \subseteq Lost) =>
            /\ rows["tickets-to-print"][t] > 0
            /\ t \in files \cup unstored
            /\ \E k \in receipts : k.ticket = t
            /\ {[name |-> n, ticket |-> t] : n \in {"issued", "printed"}} \subseteq followUps
            /\ t \in tickets \/ ~(Sent("canceled", t) \subseteq Lost)
       /\ ~(Sent("canceled", t) \subseteq Lost) => rows["tickets-to-refund"][t] > 0
  /\ \A c \in sent : c \in refunded /\ c \in voided

\* Every publication is processed in the end: calls that fail, handlers that die and acks
\* that are lost only delay it.  Only when the service goes down before the splitter has
\* copied any of them are the events of a ticket lost, although their request may have
\* been answered with 200.
TicketsAreProcessed == []<>Processed

\* A cancellation removes its ticket, whether the confirmation was handled before or is
\* handled later (and brings the ticket back), and it is never stuck on a ticket that
\* is not there.
CanceledIsRemoved ==
  \A t \in TicketIDs :
    Pending("RemoveCanceledTicket", t) # {} ~>
      Pending("RemoveCanceledTicket", t) = {} /\ t \notin tickets

=============================================================================
