--------------------------- MODULE Tickets_proofs ---------------------------
(***************************************************************************)
(* Proofs about Tickets, for all requests, tickets, refunds and bounds.    *)
(***************************************************************************)
EXTENDS Tickets, FiniteSetTheorems, TLAPS

-----------------------------------------------------------------------------
(* Requests and what they publish *)

LEMMA ElementOfSeq ==
  ASSUME NEW S, NEW s \in Seq(S), NEW i \in 1..Len(s)
  PROVE  s[i] \in S
OBVIOUS

\* The next ticket of a request is one of its tickets.
LEMMA NextTicketIsInContent ==
  ASSUME TypeOK, NEW r \in Requests, More(r)
  PROVE  /\ position[r] \in Nat /\ position[r] + 1 \in 1..Len(Content[r])
         /\ NextTicket(r) = Content[r][position[r] + 1]
         /\ NextTicket(r) \in [ticket : TicketIDs, status : Statuses]
         /\ NextTicket(r) \in ElementsOf(Content[r])
<1>1. position[r] \in Nat /\ Content[r] \in Seq([ticket : TicketIDs, status : Statuses])
  BY TicketsAssumption DEF TypeOK
<1>2. position[r] + 1 \in 1..Len(Content[r])
  BY <1>1 DEF More
<1>3. NextTicket(r) = Content[r][position[r] + 1]
  BY DEF NextTicket
<1>4. NextTicket(r) \in [ticket : TicketIDs, status : Statuses]
  BY <1>1, <1>2, <1>3, ElementOfSeq, Zenon
<1>5. NextTicket(r) \in ElementsOf(Content[r])
  BY <1>2, <1>3 DEF ElementsOf
<1> QED
  BY <1>1, <1>2, <1>3, <1>4, <1>5

\* A request publishes events.
LEMMA EventOfType ==
  ASSUME TypeOK, NEW r \in Requests, More(r), NextTicket(r).status # "other"
  PROVE  EventOf(r) \in Events
<1>1. NextTicket(r).ticket \in TicketIDs /\ NextTicket(r).status \in {"confirmed", "canceled"}
  BY NextTicketIsInContent DEF Statuses
<1>2. attempt[r] \in Nat
  BY DEF TypeOK
<1> QED
  BY <1>1, <1>2 DEF EventOf, Events

LEMMA PublishType ==
  ASSUME TypeOK, NEW event \in Events, Publish(event)
  PROVE  published' \subseteq Events /\ unread' \in Seq(Events)
BY DEF TypeOK, Publish

LEMMA DoneType ==
  ASSUME TypeOK, NEW h \in EventHandlers, NEW e, Done(h, e)
  PROVE  inbox' \in [EventHandlers -> SUBSET Events] /\ faults' \in 0..MaxFaults
<1>1. inbox \in [EventHandlers -> SUBSET Events] /\ faults \in 0..MaxFaults /\ MaxFaults \in Nat
  BY TicketsAssumption DEF TypeOK
<1>2. faults' \in 0..MaxFaults
  BY <1>1 DEF Done, Fault
<1>3. inbox' = inbox \/ inbox' = [inbox EXCEPT ![h] = @ \ {e}]
  BY DEF Done
<1>4. [inbox EXCEPT ![h] = @ \ {e}] \in [EventHandlers -> SUBSET Events]
  BY <1>1
<1> QED
  BY <1>1, <1>2, <1>3, <1>4

LEMMA HandlersAreEventHandlers ==
  /\ "AppendToTracker" \in EventHandlers /\ "IssueReceipt" \in EventHandlers
  /\ "PrintTicketHandler" \in EventHandlers /\ "StoreTickets" \in EventHandlers
  /\ "TicketRefundToSheet" \in EventHandlers /\ "RemoveCanceledTicket" \in EventHandlers
BY DEF EventHandlers, ConfirmedHandlers, CanceledHandlers

\* The ticket of an event that waits for a handler.
LEMMA InboxType ==
  ASSUME TypeOK, NEW h \in EventHandlers, NEW e \in inbox[h]
  PROVE  e \in Events /\ e.ticket \in TicketIDs /\ e.request \in Requests
BY DEF TypeOK, Events

-----------------------------------------------------------------------------
(* Type correctness *)

LEMMA RequestsType ==
  ASSUME TypeOK, NEW r \in Requests, PostTicketsStatus(r) \/ HandleRequest(r)
  PROVE  TypeOK'
<1> USE TicketsAssumption
<1>1. CASE PostTicketsStatus(r)
  <2>1. attempt[r] \in Nat /\ attempt[r] + 1 <= MaxAttempts[r] /\ Len(Content[r]) \in Nat
    BY <1>1 DEF PostTicketsStatus, TypeOK
  <2>2. \A s \in Requests : attempt'[s] <= MaxAttempts[s] /\ position'[s] <= Len(Content[s])
    BY <1>1, <2>1 DEF PostTicketsStatus, TypeOK
  <2> QED
    BY <1>1, <2>2 DEF PostTicketsStatus, TypeOK, Fault, messages, services
<1>2. CASE PublishNext(r)
  <2>1. More(r) /\ NextTicket(r).status # "other" /\ Publish(EventOf(r))
    BY <1>2 DEF PublishNext
  <2>2. published' \subseteq Events /\ unread' \in Seq(Events)
    BY <2>1, EventOfType, PublishType
  <2>3. position[r] + 1 <= Len(Content[r]) /\ position[r] \in Nat
    BY <2>1, NextTicketIsInContent
  <2>4. position' = [position EXCEPT ![r] = @ + 1]
    BY <1>2 DEF PublishNext
  <2>5. position' \in [Requests -> Nat] /\ \A s \in Requests : position'[s] <= Len(Content[s])
    BY <2>3, <2>4 DEF TypeOK
  <2> QED
    BY <1>2, <2>2, <2>5 DEF PublishNext, TypeOK, services
<1>3. CASE PublishFails(r)
  <2>1. More(r) /\ NextTicket(r).status # "other"
    BY <1>3 DEF PublishFails
  <2>2. published' \subseteq Events /\ unread' \in Seq(Events)
    <3>1. CASE Publish(EventOf(r))
      BY <2>1, <3>1, EventOfType, PublishType
    <3>2. CASE UNCHANGED <<published, unread>>
      BY <3>2 DEF TypeOK
    <3> QED
      BY <1>3, <3>1, <3>2 DEF PublishFails
  <2> QED
    BY <1>3, <2>2 DEF PublishFails, TypeOK, services, Fault
<1>4. CASE UnknownStatus(r)
  BY <1>4 DEF UnknownStatus, TypeOK, messages, services
<1>5. CASE Answer(r)
  BY <1>5 DEF Answer, TypeOK, messages, services
<1> QED
  BY <1>1, <1>2, <1>3, <1>4, <1>5 DEF HandleRequest

LEMMA SplitterType ==
  ASSUME TypeOK, Splitter \/ Crash
  PROVE  TypeOK'
<1>1. CASE Splitter
  <2>1. unread \in Seq(Events) /\ unread # <<>>
    BY <1>1 DEF Splitter, TypeOK
  <2>2. Head(unread) \in Events /\ Tail(unread) \in Seq(Events)
    BY <2>1
  <2>3. inbox' \in [EventHandlers -> SUBSET Events]
    BY <1>1, <2>2 DEF Splitter, TypeOK
  <2>4. passed' \subseteq Events /\ unread' \in Seq(Events)
    BY <1>1, <2>2 DEF Splitter, TypeOK
  <2> QED
    BY <1>1, <2>3, <2>4 DEF Splitter, TypeOK, requests, services
<1>2. CASE Crash
  <2>1. answer' \in [Requests -> {"new", "open", "ok", "error"}]
    BY <1>2 DEF Crash, TypeOK
  <2>2. unread' \in Seq(Events) /\ faults' \in 0..MaxFaults
    BY <1>2, TicketsAssumption DEF Crash, Fault, TypeOK
  <2> QED
    BY <1>2, <2>1, <2>2 DEF Crash, TypeOK, services
<1> QED
  BY <1>1, <1>2

LEMMA HandlersType ==
  ASSUME TypeOK, HandleEvent
  PROVE  TypeOK'
<1> USE TicketsAssumption, HandlersAreEventHandlers
<1>1. ASSUME NEW e \in inbox["AppendToTracker"], AppendToTracker(e) PROVE TypeOK'
  <2>1. e.ticket \in TicketIDs
    BY InboxType
  <2>2. rows' \in [Sheets -> [TicketIDs -> Nat]]
    BY <1>1, <2>1 DEF AppendToTracker, AppendRow, TypeOK, Sheets
  <2>3. inbox' \in [EventHandlers -> SUBSET Events] /\ faults' \in 0..MaxFaults
    BY <1>1, DoneType DEF AppendToTracker
  <2> QED
    BY <1>1, <2>2, <2>3 DEF AppendToTracker, TypeOK, requests
<1>2. ASSUME NEW e \in inbox["TicketRefundToSheet"], TicketRefundToSheet(e) PROVE TypeOK'
  <2>1. e.ticket \in TicketIDs
    BY InboxType
  <2>2. rows' \in [Sheets -> [TicketIDs -> Nat]]
    BY <1>2, <2>1 DEF TicketRefundToSheet, AppendRow, TypeOK, Sheets
  <2>3. inbox' \in [EventHandlers -> SUBSET Events] /\ faults' \in 0..MaxFaults
    BY <1>2, DoneType DEF TicketRefundToSheet
  <2> QED
    BY <1>2, <2>2, <2>3 DEF TicketRefundToSheet, TypeOK, requests
<1>3. ASSUME NEW e \in inbox["StoreTickets"], StoreTickets(e) PROVE TypeOK'
  <2>1. e.ticket \in TicketIDs
    BY InboxType
  <2>2. inbox' \in [EventHandlers -> SUBSET Events] /\ faults' \in 0..MaxFaults
    BY <1>3, DoneType DEF StoreTickets
  <2> QED
    BY <1>3, <2>1, <2>2 DEF StoreTickets, Create, TypeOK, requests
<1>4. ASSUME NEW e \in inbox["RemoveCanceledTicket"], RemoveCanceledTicket(e) PROVE TypeOK'
  <2>2. inbox' \in [EventHandlers -> SUBSET Events] /\ faults' \in 0..MaxFaults
    BY <1>4, DoneType DEF RemoveCanceledTicket
  <2> QED
    BY <1>4, <2>2 DEF RemoveCanceledTicket, Delete, TypeOK, requests
<1>5. ASSUME NEW e \in inbox["IssueReceipt"], IssueReceipt(e) PROVE TypeOK'
  <2>1. e.ticket \in TicketIDs /\ ReceiptKey(e) \in Keys
    BY InboxType DEF ReceiptKey, Keys
  <2>2. inbox' \in [EventHandlers -> SUBSET Events] /\ faults' \in 0..MaxFaults
    BY <1>5, DoneType DEF IssueReceipt, TypeOK, Fault
  <2>3. followUps' \subseteq FollowUps
    BY <1>5, <2>1 DEF IssueReceipt, FollowUp, FollowUps, TypeOK
  <2> QED
    BY <1>5, <2>1, <2>2, <2>3 DEF IssueReceipt, CreateReceipt, TypeOK, requests
<1>6. ASSUME NEW e \in inbox["PrintTicketHandler"], PrintTicket(e) PROVE TypeOK'
  <2>1. e.ticket \in TicketIDs
    BY InboxType
  <2>2. inbox' \in [EventHandlers -> SUBSET Events]
    BY <1>6 DEF PrintTicket, TypeOK
  <2>3. followUps' \subseteq FollowUps
    BY <1>6, <2>1 DEF PrintTicket, FollowUp, FollowUps, TypeOK
  <2>4. files' \subseteq TicketIDs /\ unstored' \subseteq TicketIDs /\ faults' \in 0..MaxFaults
    BY <1>6, <2>1 DEF PrintTicket, StoreFile, RefuseFile, Fault, TypeOK
  <2> QED
    BY <1>6, <2>2, <2>3, <2>4 DEF PrintTicket, TypeOK, requests
<1> QED
  BY <1>1, <1>2, <1>3, <1>4, <1>5, <1>6 DEF HandleEvent

LEMMA RefundsType ==
  ASSUME TypeOK, NEW c \in Refunds, SendRefund(c) \/ RefundTicket(c)
  PROVE  TypeOK'
<1>1. CASE SendRefund(c)
  BY <1>1 DEF SendRefund, TypeOK, requests, services
<1>2. CASE RefundTicket(c)
  <2>1. c.ticket \in TicketIDs
    BY TicketsAssumption
  <2>2. followUps' \subseteq FollowUps
    BY <1>2, <2>1 DEF RefundTicket, FollowUp, FollowUps, TypeOK
  <2>3. /\ voided' \subseteq Refunds /\ refunded' \subseteq Refunds /\ commands' \subseteq Refunds
        /\ faults' \in 0..MaxFaults
    BY <1>2, TicketsAssumption DEF RefundTicket, VoidReceipt, RefundPayment, Fault, TypeOK
  <2> QED
    BY <1>2, <2>2, <2>3 DEF RefundTicket, TypeOK, requests
<1> QED
  BY <1>1, <1>2

LEMMA TypeStep == TypeOK /\ [Next]_vars => TypeOK'
<1> SUFFICES ASSUME TypeOK, [Next]_vars PROVE TypeOK'
  OBVIOUS
<1>1. CASE UNCHANGED vars
  BY <1>1 DEF vars, requests, messages, services, TypeOK
<1> QED
  BY <1>1, RequestsType, SplitterType, HandlersType, RefundsType DEF Next

\* Every reachable state of the tickets service is well typed.
THEOREM TypeCorrect == Spec => []TypeOK
<1>1. Init => TypeOK
  <2>1. \A r \in Requests : MaxAttempts[r] \in Nat /\ Len(Content[r]) \in Nat
    BY TicketsAssumption
  <2> QED
    BY <2>1, TicketsAssumption DEF Init, TypeOK, Sheets
<1> QED
  BY <1>1, TypeStep, PTL DEF Spec

-----------------------------------------------------------------------------
(* Answered requests *)

LEMMA AnnouncedStays ==
  ASSUME published \subseteq published', NEW r, NEW item, Announced(r, item)
  PROVE  Announced(r, item)'
BY DEF Announced

LEMMA PassedStays ==
  ASSUME PassedIsPublished, published \subseteq published',
         answer' = answer, position' = position
  PROVE  PassedIsPublished'
BY DEF PassedIsPublished, AnsweredIsPublished, Announced

LEMMA PassedStep == TypeOK /\ PassedIsPublished /\ [Next]_vars => PassedIsPublished'
<1> SUFFICES ASSUME TypeOK, PassedIsPublished, [Next]_vars PROVE PassedIsPublished'
  OBVIOUS
<1>1. ASSUME NEW r \in Requests, PostTicketsStatus(r) PROVE PassedIsPublished'
  <2>1. position'[r] = 0 /\ answer'[r] = "open"
    BY <1>1 DEF PostTicketsStatus, TypeOK
  <2>2. \A s \in Requests \ {r} : position'[s] = position[s] /\ answer'[s] = answer[s]
    BY <1>1 DEF PostTicketsStatus, TypeOK
  <2>3. published' = published
    BY <1>1 DEF PostTicketsStatus, messages
  <2> QED
    BY <2>1, <2>2, <2>3 DEF PassedIsPublished, AnsweredIsPublished, Announced
<1>2. ASSUME NEW r \in Requests, PublishNext(r) PROVE PassedIsPublished'
  <2>1. More(r) /\ published' = published \cup {EventOf(r)} /\ answer' = answer
    BY <1>2 DEF PublishNext, Publish
  <2>2. position[r] \in Nat /\ NextTicket(r) = Content[r][position[r] + 1]
    BY <2>1, NextTicketIsInContent
  <2>3. position'[r] = position[r] + 1
        /\ \A s \in Requests \ {r} : position'[s] = position[s]
    BY <1>2 DEF PublishNext, TypeOK
  <2> DEFINE item == Content[r][position[r] + 1]
  <2>4. EventOf(r) \in published' /\ EventOf(r).request = r
        /\ EventOf(r).ticket = item.ticket /\ EventOf(r).status = item.status
    BY <2>1, <2>2 DEF EventOf
  <2>5. \A i \in 1..position'[r] : Announced(r, Content[r][i])'
    <3>1. SUFFICES ASSUME NEW i \in 1..(position[r] + 1)
                   PROVE \E e \in published' : /\ e.request = r
                                               /\ e.ticket = Content[r][i].ticket
                                               /\ e.status = Content[r][i].status
      BY <2>3 DEF Announced
    <3>2. CASE i \in 1..position[r]
      <4>1. Announced(r, Content[r][i])
        BY <2>1, <3>2 DEF PassedIsPublished, More
      <4> QED
        BY <2>1, <4>1 DEF Announced
    <3>3. CASE i = position[r] + 1
      BY <2>4, <3>3
    <3> QED
      BY <2>2, <3>2, <3>3
  <2>6. \A s \in Requests \ {r} : \A i : Announced(s, Content[s][i]) => Announced(s, Content[s][i])'
    BY <2>1 DEF Announced
  <2>7. AnsweredIsPublished'
    BY <2>1 DEF PassedIsPublished, AnsweredIsPublished, Announced
  <2>8. \A s \in Requests : answer'[s] = "open" =>
          \A i \in 1..position'[s] : Announced(s, Content[s][i])'
    BY <2>1, <2>3, <2>5, <2>6 DEF PassedIsPublished
  <2> QED
    BY <2>7, <2>8 DEF PassedIsPublished
<1>3. ASSUME NEW r \in Requests, PublishFails(r) PROVE PassedIsPublished'
  <2>1. /\ answer'[r] = "error" /\ position' = position
        /\ \A s \in Requests \ {r} : answer'[s] = answer[s]
    BY <1>3 DEF PublishFails, TypeOK
  <2>2. published \subseteq published'
    BY <1>3 DEF PublishFails, Publish
  <2> QED
    BY <2>1, <2>2 DEF PassedIsPublished, AnsweredIsPublished, Announced
<1>4. ASSUME NEW r \in Requests, UnknownStatus(r) PROVE PassedIsPublished'
  <2>1. /\ answer'[r] = "error" /\ position' = position /\ published' = published
        /\ \A s \in Requests \ {r} : answer'[s] = answer[s]
    BY <1>4 DEF UnknownStatus, TypeOK, messages
  <2> QED
    BY <2>1 DEF PassedIsPublished, AnsweredIsPublished, Announced
<1>5. ASSUME NEW r \in Requests, Answer(r) PROVE PassedIsPublished'
  <2>1. /\ answer'[r] = "ok" /\ position' = position /\ published' = published
        /\ \A s \in Requests \ {r} : answer'[s] = answer[s]
    BY <1>5 DEF Answer, TypeOK, messages
  <2>2. answer[r] = "open" /\ position[r] = Len(Content[r])
    BY <1>5 DEF Answer
  <2>3. \A item \in ElementsOf(Content[r]) : Announced(r, item)
    BY <2>2 DEF PassedIsPublished, ElementsOf
  <2> QED
    BY <2>1, <2>3 DEF PassedIsPublished, AnsweredIsPublished, Announced
<1>6. CASE HandleEvent
  BY <1>6, PassedStays DEF HandleEvent, AppendToTracker, TicketRefundToSheet, StoreTickets,
       RemoveCanceledTicket, IssueReceipt, PrintTicket, requests
<1>7. ASSUME NEW c \in Refunds, SendRefund(c) \/ RefundTicket(c) PROVE PassedIsPublished'
  BY <1>7, PassedStays DEF SendRefund, RefundTicket, requests
<1>8. CASE UNCHANGED vars
  BY <1>8, PassedStays DEF vars, requests, messages
<1>9. CASE Splitter
  BY <1>9, PassedStays DEF Splitter, requests
<1>10. CASE Crash
  <2>1. /\ \A r \in Requests : /\ answer'[r] = "ok" => answer[r] = "ok"
                              /\ answer'[r] # "open"
        /\ published' = published
    BY <1>10 DEF Crash, TypeOK
  <2> QED
    BY <2>1 DEF PassedIsPublished, AnsweredIsPublished, Announced
<1> QED
  BY <1>1, <1>2, <1>3, <1>4, <1>5, <1>6, <1>7, <1>8, <1>9, <1>10 DEF Next, HandleRequest

\* A request that is answered 200 has published the events of all of its tickets, however
\* often it failed half-way and was repeated.
THEOREM PassedIsPublishedHolds == Spec => []PassedIsPublished
<1>1. Init => PassedIsPublished
  BY DEF Init, PassedIsPublished, AnsweredIsPublished
<1> QED
  BY <1>1, PassedStep, TypeCorrect, PTL DEF Spec

-----------------------------------------------------------------------------
(* Follow-up events *)

LEMMA TruthStays ==
  ASSUME EventsTellTheTruth, receipts' = receipts, files' = files, unstored' = unstored,
         voided' = voided, refunded' = refunded, followUps' = followUps
  PROVE  EventsTellTheTruth'
BY DEF EventsTellTheTruth

LEMMA TruthStep == TypeOK /\ EventsTellTheTruth /\ [Next]_vars => EventsTellTheTruth'
<1> SUFFICES ASSUME TypeOK, EventsTellTheTruth, [Next]_vars PROVE EventsTellTheTruth'
  OBVIOUS
<1>0. \A f \in followUps : f.name \in {"issued", "printed", "refunded"}
  BY DEF TypeOK, FollowUps
<1>1. ASSUME NEW r \in Requests, PostTicketsStatus(r) \/ HandleRequest(r)
      PROVE EventsTellTheTruth'
  BY <1>1, TruthStays DEF PostTicketsStatus, HandleRequest, PublishNext, PublishFails,
       UnknownStatus, Answer, messages, services
<1>2. ASSUME NEW e \in inbox["AppendToTracker"], AppendToTracker(e) PROVE EventsTellTheTruth'
  BY <1>2, TruthStays DEF AppendToTracker
<1>3. ASSUME NEW e \in inbox["TicketRefundToSheet"], TicketRefundToSheet(e)
      PROVE EventsTellTheTruth'
  BY <1>3, TruthStays DEF TicketRefundToSheet
<1>4. ASSUME NEW e \in inbox["StoreTickets"], StoreTickets(e) PROVE EventsTellTheTruth'
  BY <1>4, TruthStays DEF StoreTickets
<1>5. ASSUME NEW e \in inbox["RemoveCanceledTicket"], RemoveCanceledTicket(e)
      PROVE EventsTellTheTruth'
  BY <1>5, TruthStays DEF RemoveCanceledTicket
<1>6. ASSUME NEW e \in inbox["IssueReceipt"], IssueReceipt(e) PROVE EventsTellTheTruth'
  <2> DEFINE f == [name |-> "issued", ticket |-> e.ticket]
  <2>1. /\ receipts' = receipts \cup {ReceiptKey(e)} /\ ReceiptKey(e).ticket = e.ticket
        /\ files' = files /\ unstored' = unstored /\ voided' = voided /\ refunded' = refunded
    BY <1>6 DEF IssueReceipt, CreateReceipt, ReceiptKey
  <2>2. followUps' = followUps \/ followUps' = followUps \cup {f}
    BY <1>6 DEF IssueReceipt, FollowUp
  <2>3. f.name = "issued" /\ f.ticket = e.ticket
    OBVIOUS
  <2> QED
    BY <1>0, <2>1, <2>2, <2>3 DEF EventsTellTheTruth
<1>7. ASSUME NEW e \in inbox["PrintTicketHandler"], PrintTicket(e) PROVE EventsTellTheTruth'
  <2> DEFINE f == [name |-> "printed", ticket |-> e.ticket]
  <2>1. /\ receipts' = receipts /\ voided' = voided /\ refunded' = refunded
        /\ files \cup unstored \subseteq files' \cup unstored'
        /\ e.ticket \in files' \cup unstored'
    BY <1>7 DEF PrintTicket, StoreFile, RefuseFile
  <2>2. followUps' = followUps \/ followUps' = followUps \cup {f}
    BY <1>7 DEF PrintTicket, FollowUp
  <2>3. f.name = "printed" /\ f.ticket = e.ticket
    OBVIOUS
  <2> QED
    BY <1>0, <2>1, <2>2, <2>3 DEF EventsTellTheTruth
<1>8. ASSUME NEW c \in Refunds, SendRefund(c) PROVE EventsTellTheTruth'
  BY <1>8, TruthStays DEF SendRefund, services
<1>9. ASSUME NEW c \in Refunds, RefundTicket(c) PROVE EventsTellTheTruth'
  <2> DEFINE f == [name |-> "refunded", ticket |-> c.ticket]
  <2>1. /\ receipts' = receipts /\ files' = files /\ unstored' = unstored
        /\ voided' = voided \cup {c}
        /\ refunded' = refunded \/ refunded' = refunded \cup {c}
    BY <1>9 DEF RefundTicket, VoidReceipt, RefundPayment
  <2>2. followUps' = followUps \/ (followUps' = followUps \cup {f} /\ c \in refunded')
    BY <1>9 DEF RefundTicket, FollowUp, RefundPayment
  <2>3. f.name = "refunded" /\ f.ticket = c.ticket
    OBVIOUS
  <2>4. refunded' \subseteq voided'
    BY <2>1 DEF EventsTellTheTruth
  <2>5. ASSUME NEW g \in followUps
        PROVE CASE g.name = "issued"   -> \E k \in receipts' : k.ticket = g.ticket
                [] g.name = "printed"  -> g.ticket \in files' \cup unstored'
                [] g.name = "refunded" -> \E d \in refunded' : d.ticket = g.ticket
    BY <1>0, <2>1 DEF EventsTellTheTruth
  <2> QED
    BY <1>0, <2>2, <2>3, <2>4, <2>5 DEF EventsTellTheTruth
<1>10. CASE UNCHANGED vars
  BY <1>10, TruthStays DEF vars, messages, services
<1>11. CASE Splitter \/ Crash
  BY <1>11, TruthStays DEF Splitter, Crash, services
<1> QED
  BY <1>1, <1>2, <1>3, <1>4, <1>5, <1>6, <1>7, <1>8, <1>9, <1>10, <1>11 DEF Next, HandleEvent

\* No handler announces a receipt, a file or a refund that its service does not know of,
\* wherever it dies.
THEOREM EventsTellTheTruthHolds == Spec => []EventsTellTheTruth
<1>1. Init => EventsTellTheTruth
  BY DEF Init, EventsTellTheTruth
<1> QED
  BY <1>1, TruthStep, TypeCorrect, PTL DEF Spec

-----------------------------------------------------------------------------
(* Receipts *)

\* Every event is one of the tickets of its request, and every receipt has its event.
ReceiptsInv ==
  /\ \A e \in published :
       [ticket |-> e.ticket, status |-> e.status] \in ElementsOf(Content[e.request])
  /\ ElementsOf(unread) \subseteq published
  /\ \A h \in EventHandlers : inbox[h] \subseteq published
  /\ \A h \in ConfirmedHandlers : \A e \in inbox[h] : e.status = "confirmed"
  /\ \A k \in receipts : [ticket |-> k.ticket, status |-> "confirmed"]
                           \in ElementsOf(Content[k.request])

LEMMA ReceiptsInvStays ==
  ASSUME TypeOK, ReceiptsInv, published' = published, receipts' = receipts,
         unread' = unread \/ unread' = <<>>,
         \A h \in EventHandlers : inbox'[h] \subseteq inbox[h]
  PROVE  ReceiptsInv'
<1>1. ConfirmedHandlers \subseteq EventHandlers
  BY DEF EventHandlers
<1>2. /\ \A e \in published' :
           [ticket |-> e.ticket, status |-> e.status] \in ElementsOf(Content[e.request])
      /\ \A k \in receipts' : [ticket |-> k.ticket, status |-> "confirmed"]
                               \in ElementsOf(Content[k.request])
  BY DEF ReceiptsInv
<1>3. \A h \in EventHandlers : inbox'[h] \subseteq published'
  BY DEF ReceiptsInv
<1>4. \A h \in ConfirmedHandlers : \A e \in inbox'[h] : e.status = "confirmed"
  BY <1>1 DEF ReceiptsInv
<1>5. ElementsOf(unread)' \subseteq published'
  BY DEF ReceiptsInv, ElementsOf
<1> QED
  BY <1>2, <1>3, <1>4, <1>5 DEF ReceiptsInv, ElementsOf

LEMMA DoneRemoves ==
  ASSUME TypeOK, NEW h \in EventHandlers, NEW e, Done(h, e) \/ UNCHANGED inbox
  PROVE  \A g \in EventHandlers : inbox'[g] \subseteq inbox[g]
<1>1. inbox \in [EventHandlers -> SUBSET Events]
  BY DEF TypeOK
<1>2. inbox' = inbox \/ inbox' = [inbox EXCEPT ![h] = @ \ {e}]
  BY DEF Done
<1> QED
  BY <1>1, <1>2

LEMMA PublishKeepsReceipts ==
  ASSUME TypeOK, ReceiptsInv, NEW r \in Requests, More(r), NextTicket(r).status # "other",
         Publish(EventOf(r)), receipts' = receipts, inbox' = inbox
  PROVE  ReceiptsInv'
<1> DEFINE event == EventOf(r)
<1>1. event \in Events /\ event.request = r
  BY EventOfType DEF EventOf
<1>2. [ticket |-> event.ticket, status |-> event.status] \in ElementsOf(Content[r])
  <2>1. NextTicket(r) \in [ticket : TicketIDs, status : Statuses]
    BY NextTicketIsInContent
  <2>2. NextTicket(r) = [ticket |-> event.ticket, status |-> event.status]
    BY <2>1 DEF EventOf
  <2> QED
    BY <2>2, NextTicketIsInContent
<1>3. published' = published \cup {event} /\ unread' = Append(unread, event)
  BY DEF Publish
<1>4. \A e \in published' :
        [ticket |-> e.ticket, status |-> e.status] \in ElementsOf(Content[e.request])
  BY <1>1, <1>2, <1>3 DEF ReceiptsInv
<1>5. ElementsOf(unread)' \subseteq published'
  <2>1. unread \in Seq(Events)
    BY DEF TypeOK
  <2>2. \A i \in 1..Len(unread') : unread'[i] \in published'
    <3>1. SUFFICES ASSUME NEW i \in 1..Len(unread') PROVE unread'[i] \in published'
      OBVIOUS
    <3>2. CASE i \in 1..Len(unread)
      BY <1>3, <2>1, <3>2 DEF ReceiptsInv, ElementsOf
    <3>3. CASE i = Len(unread) + 1
      BY <1>1, <1>3, <2>1, <3>3
    <3> QED
      BY <1>1, <1>3, <2>1, <3>2, <3>3
  <2> QED
    BY <2>2 DEF ElementsOf
<1>6. \A h \in EventHandlers : inbox'[h] \subseteq published'
  BY <1>3 DEF ReceiptsInv
<1>7. \A h \in ConfirmedHandlers : \A e \in inbox'[h] : e.status = "confirmed"
  BY DEF ReceiptsInv
<1> QED
  BY <1>4, <1>5, <1>6, <1>7 DEF ReceiptsInv, ElementsOf

LEMMA SplitterKeepsReceipts ==
  ASSUME TypeOK, ReceiptsInv, Splitter
  PROVE  ReceiptsInv'
<1> DEFINE event == Head(unread)
<1>1. unread \in Seq(Events) /\ unread # <<>> /\ Tail(unread) \in Seq(Events)
  BY DEF Splitter, TypeOK
<1>2. event \in Events /\ event \in published
  BY <1>1 DEF ReceiptsInv, ElementsOf
<1>3. /\ published' = published /\ receipts' = receipts /\ unread' = Tail(unread)
      /\ \A h \in EventHandlers :
           inbox'[h] = IF h \in HandlersOf(event.status) THEN inbox[h] \cup {event}
                       ELSE inbox[h]
  BY DEF Splitter, services
<1>4. ConfirmedHandlers \subseteq EventHandlers
  BY DEF EventHandlers
<1>5. \A h \in ConfirmedHandlers : h \in HandlersOf(event.status) => event.status = "confirmed"
  BY <1>2 DEF HandlersOf, ConfirmedHandlers, CanceledHandlers
<1>6. \A h \in EventHandlers : inbox'[h] \subseteq published'
  BY <1>2, <1>3 DEF ReceiptsInv
<1>7. \A h \in ConfirmedHandlers : \A e \in inbox'[h] : e.status = "confirmed"
  BY <1>3, <1>4, <1>5 DEF ReceiptsInv
<1>8. ElementsOf(unread)' \subseteq published'
  <2>1. \A i \in 1..Len(Tail(unread)) :
          i + 1 \in 1..Len(unread) /\ Tail(unread)[i] = unread[i + 1]
    BY <1>1
  <2> QED
    BY <1>3, <2>1 DEF ReceiptsInv, ElementsOf
<1>9. /\ \A e \in published' :
           [ticket |-> e.ticket, status |-> e.status] \in ElementsOf(Content[e.request])
      /\ \A k \in receipts' : [ticket |-> k.ticket, status |-> "confirmed"]
                               \in ElementsOf(Content[k.request])
  BY <1>3 DEF ReceiptsInv
<1> QED
  BY <1>6, <1>7, <1>8, <1>9 DEF ReceiptsInv, ElementsOf

LEMMA IssueKeepsReceipts ==
  ASSUME TypeOK, ReceiptsInv, NEW e \in inbox["IssueReceipt"], IssueReceipt(e)
  PROVE  ReceiptsInv'
<1>1. "IssueReceipt" \in EventHandlers /\ "IssueReceipt" \in ConfirmedHandlers
  BY DEF EventHandlers, ConfirmedHandlers
<1>2. e \in published /\ e.status = "confirmed"
  BY <1>1 DEF ReceiptsInv
<1>3. [ticket |-> e.ticket, status |-> "confirmed"] \in ElementsOf(Content[e.request])
  BY <1>2 DEF ReceiptsInv
<1>4. /\ published' = published /\ unread' = unread
      /\ receipts' = receipts \cup {ReceiptKey(e)}
  BY DEF IssueReceipt, CreateReceipt
<1>5. ReceiptKey(e).ticket = e.ticket /\ ReceiptKey(e).request = e.request
  BY DEF ReceiptKey
<1>6. \A k \in receipts' : [ticket |-> k.ticket, status |-> "confirmed"]
                             \in ElementsOf(Content[k.request])
  BY <1>3, <1>4, <1>5 DEF ReceiptsInv
<1>7. \A g \in EventHandlers : inbox'[g] \subseteq inbox[g]
  BY <1>1, DoneRemoves DEF IssueReceipt
<1>8. /\ \A x \in published' :
           [ticket |-> x.ticket, status |-> x.status] \in ElementsOf(Content[x.request])
      /\ \A h \in EventHandlers : inbox'[h] \subseteq published'
  BY <1>4, <1>7 DEF ReceiptsInv
<1>9. \A h \in ConfirmedHandlers : \A x \in inbox'[h] : x.status = "confirmed"
  BY <1>7 DEF ReceiptsInv, EventHandlers
<1>10. ElementsOf(unread)' \subseteq published'
  BY <1>4 DEF ReceiptsInv, ElementsOf
<1> QED
  BY <1>6, <1>8, <1>9, <1>10 DEF ReceiptsInv, ElementsOf

LEMMA ReceiptsStep == TypeOK /\ ReceiptsInv /\ [Next]_vars => ReceiptsInv'
<1> SUFFICES ASSUME TypeOK, ReceiptsInv, [Next]_vars PROVE ReceiptsInv'
  OBVIOUS
<1> USE HandlersAreEventHandlers
<1>0. ASSUME UNCHANGED <<published, unread, inbox, receipts>> PROVE ReceiptsInv'
  BY <1>0, ReceiptsInvStays
<1>1. ASSUME NEW r \in Requests, PostTicketsStatus(r) \/ UnknownStatus(r) \/ Answer(r)
      PROVE ReceiptsInv'
  BY <1>0, <1>1 DEF PostTicketsStatus, UnknownStatus, Answer, messages, services
<1>2. ASSUME NEW r \in Requests, PublishNext(r) PROVE ReceiptsInv'
  BY <1>2, PublishKeepsReceipts DEF PublishNext, services
<1>3. ASSUME NEW r \in Requests, PublishFails(r) PROVE ReceiptsInv'
  <2>1. CASE Publish(EventOf(r))
    BY <1>3, <2>1, PublishKeepsReceipts DEF PublishFails, services
  <2>2. CASE UNCHANGED <<published, unread>>
    BY <1>0, <1>3, <2>2 DEF PublishFails, services
  <2> QED
    BY <1>3, <2>1, <2>2 DEF PublishFails
<1>4. ASSUME NEW h \in EventHandlers, NEW e, Done(h, e) \/ UNCHANGED inbox,
             published' = published, receipts' = receipts, unread' = unread
      PROVE  ReceiptsInv'
  BY <1>4, DoneRemoves, ReceiptsInvStays
<1>5. ASSUME NEW e \in inbox["AppendToTracker"], AppendToTracker(e) PROVE ReceiptsInv'
  BY <1>4, <1>5 DEF AppendToTracker
<1>6. ASSUME NEW e \in inbox["TicketRefundToSheet"], TicketRefundToSheet(e) PROVE ReceiptsInv'
  BY <1>4, <1>6 DEF TicketRefundToSheet
<1>7. ASSUME NEW e \in inbox["StoreTickets"], StoreTickets(e) PROVE ReceiptsInv'
  BY <1>4, <1>7 DEF StoreTickets
<1>8. ASSUME NEW e \in inbox["RemoveCanceledTicket"], RemoveCanceledTicket(e) PROVE ReceiptsInv'
  BY <1>4, <1>8 DEF RemoveCanceledTicket
<1>9. ASSUME NEW e \in inbox["PrintTicketHandler"], PrintTicket(e) PROVE ReceiptsInv'
  <2>1. /\ inbox' = inbox \/ inbox' = [inbox EXCEPT !["PrintTicketHandler"] = @ \ {e}]
        /\ published' = published /\ receipts' = receipts /\ unread' = unread
    BY <1>9 DEF PrintTicket
  <2>2. \A g \in EventHandlers : inbox'[g] \subseteq inbox[g]
    BY <2>1 DEF TypeOK
  <2> QED
    BY <2>1, <2>2, ReceiptsInvStays
<1>10. ASSUME NEW c \in Refunds, SendRefund(c) \/ RefundTicket(c) PROVE ReceiptsInv'
  BY <1>0, <1>10 DEF SendRefund, RefundTicket, services
<1>11. CASE UNCHANGED vars
  BY <1>0, <1>11 DEF vars, messages, services
<1>12. CASE Crash
  BY <1>12, ReceiptsInvStays DEF Crash, services
<1> QED
  BY <1>1, <1>2, <1>3, <1>5, <1>6, <1>7, <1>8, <1>9, <1>10, <1>11, <1>12,
     SplitterKeepsReceipts, IssueKeepsReceipts
     DEF Next, HandleRequest, HandleEvent

\* The receipts of a ticket are told apart by the requests that confirm it.
LEMMA ReceiptsAreCounted ==
  ASSUME IsFiniteSet(Requests), TypeOK, ReceiptsInv
  PROVE  OneReceiptPerRequest
<1> SUFFICES ASSUME NEW t \in TicketIDs
             PROVE  Cardinality({k \in receipts : k.ticket = t}) <=
                      Cardinality({r \in Requests : [ticket |-> t, status |-> "confirmed"]
                                                      \in ElementsOf(Content[r])})
  BY DEF OneReceiptPerRequest
<1> DEFINE K == {k \in receipts : k.ticket = t}
           R == {r \in Requests : [ticket |-> t, status |-> "confirmed"]
                                    \in ElementsOf(Content[r])}
           f == [k \in K |-> k.request]
<1>1. \A k \in K : k \in Keys /\ k.ticket = t
  BY DEF TypeOK
<1>2. \A k \in K : k.request \in R
  BY <1>1 DEF ReceiptsInv, Keys
<1>3. \A j, k \in K : j.request = k.request => j = k
  BY <1>1 DEF Keys
<1>4. f \in Injection(K, R)
  <2>1. f \in [K -> R]
    BY <1>2
  <2>2. \A j, k \in K : f[j] = f[k] => j = k
    BY <1>3
  <2> HIDE DEF K, R, f
  <2> QED
    BY <2>1, <2>2 DEF Injection, IsInjective
<1>5. IsFiniteSet(R)
  <2>1. R \in SUBSET Requests
    OBVIOUS
  <2> HIDE DEF R
  <2> QED
    BY <2>1, FS_Subset
<1> HIDE DEF K, R, f
<1>6. Cardinality(K) <= Cardinality(R)
  BY <1>4, <1>5, FS_Injection
<1> QED
  BY <1>6 DEF K, R

\* A ticket gets one receipt at most from each of finitely many requests, although events
\* are published again with every attempt and delivered more than once.
THEOREM OneReceiptPerRequestHolds ==
  IsFiniteSet(Requests) => (Spec => []OneReceiptPerRequest)
<1> SUFFICES ASSUME IsFiniteSet(Requests) PROVE Spec => []OneReceiptPerRequest
  OBVIOUS
<1>1. Init => ReceiptsInv
  BY DEF Init, ReceiptsInv, EventHandlers, ElementsOf
<1>2. TypeOK /\ ReceiptsInv => OneReceiptPerRequest
  BY ReceiptsAreCounted
<1> QED
  BY <1>1, <1>2, ReceiptsStep, TypeCorrect, PTL DEF Spec

=============================================================================
