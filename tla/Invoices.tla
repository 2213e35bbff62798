------------------------------ MODULE Invoices ------------------------------
(***************************************************************************)
(* 13-read-models/02-building-read-models: three handlers, each in a       *)
(* goroutine of its own, keep the read model of an invoice in a map that   *)
(* no lock protects.  A handler reads the invoice and later writes its     *)
(* copy back.  When two of them use the map at the same time, one may      *)
(* overwrite the other, or the runtime ends the process ("concurrent map   *)
(* writes"), which loses the whole map.                                    *)
(*                                                                         *)
(* Events come in any order and may be delivered again.                    *)
(***************************************************************************)
EXTENDS Integers, FiniteSets, FiniteSetsExt

CONSTANTS
  Payments,  \* payments received for the invoice
  AmountOf,  \* what was paid
  MaxFaults  \* bound: acks that are lost

NoInvoice == [exists |-> FALSE, paid |-> 0, voided |-> FALSE]
Handlers == {"OnInvoiceIssued", "OnInvoicePaymentReceived", "OnInvoiceVoided"}
TheInvoice == "invoice"
EventsOf(h) == IF h = "OnInvoicePaymentReceived" THEN Payments ELSE {TheInvoice}

VARIABLES
  happened,  \* the events published to a handler
  inbox,     \* those not acked
  invoice,   \* the invoice in the map
  payedInvoices, \* the payments that were counted
  proc,      \* of a handler: idle, or the event and the invoice it will write
  overlapped, \* two handlers were using the map at the same time
  crashed,   \* the runtime has ended the process
  invoiceFaults \* lost acks (bounds the model)

vars == <<happened, inbox, invoice, payedInvoices, proc, overlapped, crashed, invoiceFaults>>

Idle == [pc |-> "idle"]
InvoiceReadModel == [exists : BOOLEAN, paid : Nat, voided : BOOLEAN]

TypeOK ==
  /\ \A h \in Handlers : happened[h] \subseteq EventsOf(h) /\ inbox[h] \subseteq happened[h]
  /\ invoice \in InvoiceReadModel
  /\ payedInvoices \subseteq Payments
  /\ \A h \in Handlers :
       \/ proc[h] = Idle
       \/ proc[h].event \in EventsOf(h) /\ proc[h].copy \in InvoiceReadModel
  /\ overlapped \in BOOLEAN
  /\ crashed \in BOOLEAN
  /\ invoiceFaults \in 0..MaxFaults

Busy(h) == proc[h].pc = "busy"

-----------------------------------------------------------------------------
\* An invoice is paid and voided after it was issued; the events need not come so.
Publish(h, e) ==
  /\ ~crashed
  /\ e \notin happened[h]
  /\ h # "OnInvoiceIssued" => happened["OnInvoiceIssued"] # {}
  /\ happened' = [happened EXCEPT ![h] = @ \cup {e}]
  /\ inbox' = [inbox EXCEPT ![h] = @ \cup {e}]
  /\ UNCHANGED <<invoice, payedInvoices, proc, overlapped, crashed, invoiceFaults>>

Takes(h, e) == ~crashed /\ ~Busy(h) /\ e \in inbox[h]

\* The handler will write the copy; another one may be at work.
Begin(h, e, copy) ==
  /\ proc' = [proc EXCEPT ![h] = [pc |-> "busy", event |-> e, copy |-> copy]]
  /\ overlapped' = (overlapped \/ \E other \in Handlers : Busy(other))

\* The handler returned nil: its event is acked, unless that is lost.
Ack(h, e) ==
  \/ inbox' = [inbox EXCEPT ![h] = @ \ {e}] /\ UNCHANGED invoiceFaults
  \/ invoiceFaults < MaxFaults /\ invoiceFaults' = invoiceFaults + 1 /\ UNCHANGED inbox

\* Mutant: every delivery of a payment is a new one.
Repeated_NotPayments(h, e) == h = "OnInvoiceIssued" /\ invoice.exists

\* The invoice is there already, or the payment was counted.
Repeated(h, e) ==
  \/ h = "OnInvoiceIssued" /\ invoice.exists
  \/ h = "OnInvoicePaymentReceived" /\ invoice.exists /\ e \in payedInvoices

Skip(h, e) ==
  /\ Takes(h, e)
  /\ Repeated(h, e)
  /\ Ack(h, e)
  /\ UNCHANGED <<happened, invoice, payedInvoices, proc, overlapped, crashed>>

OnInvoiceIssued(e) ==
  /\ Takes("OnInvoiceIssued", e)
  /\ ~Repeated("OnInvoiceIssued", e)
  /\ Begin("OnInvoiceIssued", e, [NoInvoice EXCEPT !.exists = TRUE])
  /\ UNCHANGED <<happened, inbox, invoice, payedInvoices, crashed, invoiceFaults>>

\* Without the invoice the handler fails, to be tried again.
OnInvoicePaymentReceived(e) ==
  /\ Takes("OnInvoicePaymentReceived", e)
  /\ ~Repeated("OnInvoicePaymentReceived", e)
  /\ invoice.exists
  /\ payedInvoices' = payedInvoices \cup {e}
  /\ Begin("OnInvoicePaymentReceived", e, [invoice EXCEPT !.paid = @ + AmountOf[e]])
  /\ UNCHANGED <<happened, inbox, invoice, crashed, invoiceFaults>>

OnInvoiceVoided(e) ==
  /\ Takes("OnInvoiceVoided", e)
  /\ invoice.exists
  /\ Begin("OnInvoiceVoided", e, [invoice EXCEPT !.voided = TRUE])
  /\ UNCHANGED <<happened, inbox, invoice, payedInvoices, crashed, invoiceFaults>>

\* s.invoices[event.InvoiceID] = invoice
Write(h) ==
  /\ ~crashed
  /\ Busy(h)
  /\ invoice' = proc[h].copy
  /\ proc' = [proc EXCEPT ![h] = Idle]
  /\ Ack(h, proc[h].event)
  /\ UNCHANGED <<happened, payedInvoices, overlapped, crashed>>

\* Two goroutines use the map: the runtime may notice.
ConcurrentMapWrites ==
  /\ ~crashed
  /\ \E h1, h2 \in Handlers : h1 # h2 /\ Busy(h1) /\ Busy(h2)
  /\ crashed' = TRUE
  /\ UNCHANGED <<happened, inbox, invoice, payedInvoices, proc, overlapped, invoiceFaults>>

-----------------------------------------------------------------------------
Init ==
  /\ happened = [h \in Handlers |-> {}]
  /\ inbox = [h \in Handlers |-> {}]
  /\ invoice = NoInvoice
  /\ payedInvoices = {}
  /\ proc = [h \in Handlers |-> Idle]
  /\ overlapped = FALSE
  /\ crashed = FALSE
  /\ invoiceFaults = 0

Handle(h) ==
  \/ \E e \in EventsOf(h) :
       \/ Skip(h, e)
       \/ h = "OnInvoiceIssued" /\ OnInvoiceIssued(e)
       \/ h = "OnInvoicePaymentReceived" /\ OnInvoicePaymentReceived(e)
       \/ h = "OnInvoiceVoided" /\ OnInvoiceVoided(e)
  \/ Write(h)

Next ==
  \/ \E h \in Handlers : \E e \in EventsOf(h) : Publish(h, e)
  \/ \E h \in Handlers : Handle(h)
  \/ ConcurrentMapWrites

Spec == Init /\ [][Next]_vars

\* As long as a handler can go on, some handler does.
Fairness == WF_vars(\E h \in Handlers : Handle(h))

-----------------------------------------------------------------------------
(* Properties *)

Total(payments) == MapThenSumSet(LAMBDA p : AmountOf[p], payments)

\* While the handlers follow one another, in any order and with repeated deliveries, the
\* invoice shows the sum of the payments that were counted, each of them once, and that
\* it was voided when that event was handled.  Handlers that overlap lose either.
InvoiceMatchesEvents ==
  ~overlapped =>
    /\ ~Busy("OnInvoicePaymentReceived") => invoice.paid = Total(payedInvoices)
    /\ happened["OnInvoiceVoided"] # {} /\ inbox["OnInvoiceVoided"] = {} => invoice.voided

\* A payment that comes before its invoice is counted in the end, unless the process died.
PaymentsAreCounted ==
  []<>(\/ crashed \/ happened["OnInvoiceIssued"] = {}
       \/ /\ happened["OnInvoicePaymentReceived"] \subseteq payedInvoices
          /\ inbox["OnInvoicePaymentReceived"] = {})

=============================================================================
