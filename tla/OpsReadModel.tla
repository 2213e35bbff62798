---------------------------- MODULE OpsReadModel ----------------------------
(***************************************************************************)
(* The operations read model of one booking in the tickets service         *)
(* (project/): one JSON payload that five event handlers create and        *)
(* update.  Each handler has a consumer group of its own: it works on one  *)
(* event at a time, concurrently with the others, and its events may come  *)
(* in any order and more than once.                                        *)
(*                                                                         *)
(* An update writes the whole payload back, in a REPEATABLE READ           *)
(* transaction: PostgreSQL (external) refuses the write when another one   *)
(* was committed since the transaction took its snapshot, which it does    *)
(* with its first statement.  For the handlers of ticket events that is    *)
(* the SELECT of the payload.  OnTicketBookingConfirmed selects it on      *)
(* another connection: its snapshot is only taken by the write itself,     *)
(* which is refused only if it had to wait for another one.                *)
(*                                                                         *)
(* The payload is a set of facts: what was recorded of which ticket.  A    *)
(* ticket is in the map of the payload when its confirmation is a fact, as *)
(* OnTicketBookingConfirmed alone adds tickets.                            *)
(***************************************************************************)
EXTENDS Integers

CONSTANTS
  Tickets,     \* the tickets of the booking
  TicketKinds, \* what may be recorded of a ticket after its confirmation
  MaxFaults    \* bound: errors, crashes and lost acks

ASSUME FaultsAssumption ==
  /\ TicketKinds \subseteq {"receipt", "printed", "refunded"}
  /\ MaxFaults \in Nat

VARIABLES
  booked,    \* BookingMade_v1 was published
  happened,  \* the facts whose events were published
  inbox,     \* tickets of the events not acked yet, per kind of fact
  toCreate,  \* BookingMade_v1 is not acked yet
  created,   \* the row exists
  facts,     \* its payload
  proc,      \* what the handler of each kind of fact is doing
  announced, \* the updates that InternalOpsReadModelUpdated was published for
  faults     \* faults so far (bounds the model)

events == <<booked, happened>>
row    == <<created, facts>>
queues == <<inbox, toCreate>>
vars   == <<events, row, queues, proc, announced, faults>>

\* OnTicketBookingConfirmed, OnTicketReceiptIssued, OnTicketPrinted and
\* OnTicketRefunded each record a kind of fact.
Kinds == {"confirmed"} \cup TicketKinds
Facts == Tickets \X Kinds

\* What a handler remembers: its ticket and its copy of the payload.  It has
\* "read" the payload, its transaction has a "snapshot", or has "locked" the row
\* with its write.
Process ==
  [pc : {"idle"}]
    \cup [pc : {"read", "snapshot", "locked"}, ticket : Tickets, copy : SUBSET Facts]
Idle == [pc |-> "idle"]

TypeOK ==
  /\ booked \in BOOLEAN
  /\ happened \subseteq Facts
  /\ inbox \in [Kinds -> SUBSET Tickets]
  /\ toCreate \in BOOLEAN
  /\ created \in BOOLEAN
  /\ facts \subseteq Facts
  /\ proc \in [Kinds -> Process]
  /\ announced \subseteq Facts
  /\ faults \in 0..MaxFaults

-----------------------------------------------------------------------------
(* The events *)

BookingMade ==
  /\ ~booked
  /\ booked' = TRUE
  /\ toCreate' = TRUE
  /\ UNCHANGED <<happened, row, inbox, proc, announced, faults>>

\* Dead Nation confirms tickets of bookings; the handlers of the confirmation
\* issue the receipt and print the ticket; support staff refund it.
Happens(t, kind) ==
  /\ <<t, kind>> \notin happened
  /\ IF kind = "confirmed" THEN booked ELSE <<t, "confirmed">> \in happened
  /\ happened' = happened \cup {<<t, kind>>}
  /\ inbox' = [inbox EXCEPT ![kind] = @ \cup {t}]
  /\ UNCHANGED <<booked, toCreate, row, proc, announced, faults>>

\* The handler returned nil: its event is acked, or the ack is lost.
Ack(kind) ==
  \/ /\ inbox' = [inbox EXCEPT ![kind] = @ \ {proc[kind].ticket}]
     /\ UNCHANGED faults
  \/ /\ faults < MaxFaults
     /\ faults' = faults + 1
     /\ UNCHANGED inbox

-----------------------------------------------------------------------------
(* The handlers *)

\* Mutant: the row is replaced when it exists.
OnBookingMade_Replaces ==
  /\ toCreate
  /\ created' = TRUE
  /\ facts' = {}
  /\ \/ toCreate' = FALSE /\ UNCHANGED faults
     \/ faults < MaxFaults /\ faults' = faults + 1 /\ UNCHANGED toCreate
  /\ UNCHANGED <<events, inbox, proc, announced>>

\* INSERT ... ON CONFLICT DO NOTHING.
OnBookingMade ==
  /\ toCreate
  /\ created' = TRUE
  /\ \/ toCreate' = FALSE /\ UNCHANGED faults
     \/ faults < MaxFaults /\ faults' = faults + 1 /\ UNCHANGED toCreate
  /\ UNCHANGED <<events, facts, inbox, proc, announced>>

\* Mutant: a ticket that is not in the payload is added by any of its events.
Found_Always(t, kind) == created

\* Mutant: an event that finds no row is not waited for.
Found_NotBeforeRow(t, kind) == ~created

\* The row must exist and, for an event of a ticket, list the ticket.  Otherwise
\* the handler fails, to be tried again.
Found(t, kind) ==
  /\ created
  /\ kind # "confirmed" => <<t, "confirmed">> \in facts

\* OnTicketBookingConfirmed reads outside of its transaction.
AfterRead(kind) == IF kind = "confirmed" THEN "read" ELSE "snapshot"

Read(t, kind) ==
  /\ proc[kind].pc = "idle"
  /\ t \in inbox[kind]
  /\ Found(t, kind)
  /\ proc' = [proc EXCEPT ![kind] = [pc |-> AfterRead(kind), ticket |-> t, copy |-> facts]]
  /\ UNCHANGED <<events, row, queues, announced, faults>>

\* The write is the first statement of its transaction.
Snapshot(kind) ==
  /\ proc[kind].pc = "read"
  /\ proc' = [proc EXCEPT ![kind].pc = "snapshot"]
  /\ UNCHANGED <<events, row, queues, announced, faults>>

\* Mutant: only the updates of tickets are announced.
Announced_Tickets(kind) ==
  IF kind = "confirmed" THEN {} ELSE {<<proc[kind].ticket, kind>>}

Announced(kind) == {<<proc[kind].ticket, kind>>}

\* The write waits for the lock of the row.  InternalOpsReadModelUpdated is
\* published before the transaction commits.
Upsert(kind) ==
  /\ proc[kind].pc = "snapshot"
  /\ \A other \in Kinds : proc[other].pc # "locked"
  /\ proc' = [proc EXCEPT ![kind].pc = "locked"]
  /\ announced' = announced \cup Announced(kind)
  /\ UNCHANGED <<events, row, queues, faults>>

\* Mutant: the update function is applied to an empty payload.
Updated_Fresh(kind) == {<<proc[kind].ticket, "confirmed">>, <<proc[kind].ticket, kind>>}

\* Mutant: the fact and its key change places.
Updated_Swapped(kind) == proc[kind].copy \cup {<<kind, proc[kind].ticket>>}

Updated(kind) == proc[kind].copy \cup {<<proc[kind].ticket, kind>>}

\* The writes of the transactions that have a snapshot are refused from now on:
\* their handlers fail and are tried again.
Refused(kind) == {other \in Kinds \ {kind} : proc[other].pc = "snapshot"}

Commit(kind) ==
  /\ proc[kind].pc = "locked"
  /\ facts' = Updated(kind)
  /\ proc' = [k \in Kinds |-> IF k \in Refused(kind) \cup {kind} THEN Idle ELSE proc[k]]
  /\ Ack(kind)
  /\ UNCHANGED <<events, created, toCreate, announced>>

\* An error or a crash between the read and the commit.
Fails(kind) ==
  /\ proc[kind].pc # "idle"
  /\ faults < MaxFaults
  /\ faults' = faults + 1
  /\ proc' = [proc EXCEPT ![kind] = Idle]
  /\ UNCHANGED <<events, row, queues, announced>>

-----------------------------------------------------------------------------
Init ==
  /\ booked = FALSE
  /\ happened = {}
  /\ inbox = [kind \in Kinds |-> {}]
  /\ toCreate = FALSE
  /\ created = FALSE
  /\ facts = {}
  /\ proc = [kind \in Kinds |-> Idle]
  /\ announced = {}
  /\ faults = 0

Handle(kind) ==
  \/ \E t \in Tickets : Read(t, kind)
  \/ Snapshot(kind)
  \/ Upsert(kind)
  \/ Commit(kind)

Next ==
  \/ BookingMade
  \/ \E t \in Tickets, kind \in Kinds : Happens(t, kind)
  \/ OnBookingMade
  \/ \E kind \in Kinds : Handle(kind) \/ Fails(kind)

Spec == Init /\ [][Next]_vars

(* A handler works on its events and tries them again after an error.  Nothing
   has to happen to a ticket.                                                *)
Fairness == WF_vars(OnBookingMade) /\ \A kind \in Kinds : WF_vars(Handle(kind))

FairSpec == Spec /\ Fairness

-----------------------------------------------------------------------------
(* Properties *)

Confirmations(payload) == {fact \in payload : fact[2] = "confirmed"}

\* A payload in use, in the row or copied by a handler, claims only what happened,
\* and knows the confirmation of every ticket it says anything about.
Truthful(payload) ==
  /\ payload \subseteq happened
  /\ \A t \in Tickets, kind \in Kinds :
       <<t, kind>> \in payload => <<t, "confirmed">> \in payload

\* What the handler of a kind of event holds while it works on one.
CopyIsTruthful(kind) ==
  proc[kind].pc # "idle" =>
    /\ Truthful(proc[kind].copy)
    /\ <<proc[kind].ticket, kind>> \in happened
    /\ kind # "confirmed" => <<proc[kind].ticket, "confirmed">> \in proc[kind].copy

\* A handler that reads in its transaction, and is not refused, has the row as it is.
SnapshotIsCurrent(kind) ==
  kind # "confirmed" /\ proc[kind].pc # "idle" =>
    proc[kind].pc # "read" /\ proc[kind].copy = facts

EventsHappened ==
  \A kind \in Kinds, t \in Tickets : t \in inbox[kind] => <<t, kind>> \in happened

OneLock ==
  \A k1, k2 \in Kinds : proc[k1].pc = "locked" /\ proc[k2].pc = "locked" => k1 = k2

\* OnTicketBookingConfirmed alone adds tickets, one event at a time: however old
\* its copy is, it has all tickets of the row.
CopyHasAllTickets ==
  proc["confirmed"].pc # "idle" =>
    Confirmations(proc["confirmed"].copy) = Confirmations(facts)

\* Whatever copies are written back, late or repeated, the read model shows only
\* what happened and lists every ticket it shows with its confirmation; no copy
\* that will be written without a check lacks a ticket.
ReadModelInv ==
  /\ Truthful(facts)
  /\ \A kind \in Kinds : CopyIsTruthful(kind) /\ SnapshotIsCurrent(kind)
  /\ EventsHappened
  /\ OneLock
  /\ CopyHasAllTickets

\* InternalOpsReadModelUpdated is published before the transaction commits: it may
\* announce an update that never comes, but no update is shown, be it through an
\* old copy or after a crash, that was not announced.
ShownIsAnnounced == facts \subseteq announced

\* A ticket that was added to the read model never disappears from it, although the
\* handler that adds tickets overwrites the payload with a copy that may be old.
TicketsStay == [][Confirmations(facts) \subseteq Confirmations(facts')]_facts

\* The handlers of ticket events lose nothing: a fact disappears only in a commit
\* of OnTicketBookingConfirmed.
OnlyConfirmationsOverwrite ==
  [][facts \subseteq facts' \/ proc["confirmed"].pc = "locked"]_facts

\* "Events arrived out of order - it should spin until the read model is created":
\* whatever order the events of a booking come in, each is handled in the end,
\* and the refused writes of concurrent handlers do not go on forever.
EventsAreHandled ==
  \A t \in Tickets, kind \in Kinds : t \in inbox[kind] ~> t \notin inbox[kind]

\* Every ticket that was confirmed is listed in the end, and stays listed, also when
\* its event came before the one that creates the row.
TicketsAreShown ==
  \A t \in Tickets : <<t, "confirmed">> \in happened ~> [](<<t, "confirmed">> \in facts)

\* "Read model may be already updated by another event - we don't want to override":
\* what one event has recorded, no other event takes away.  The stale copy of
\* OnTicketBookingConfirmed does.
UpdatesAreNotOverridden == [][facts \subseteq facts']_facts

=============================================================================
