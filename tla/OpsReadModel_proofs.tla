------------------------ MODULE OpsReadModel_proofs ------------------------
(***************************************************************************)
(* For every set of tickets and every number of faults: the types of       *)
(* OpsReadModel, what its payloads may claim, and what an update may take  *)
(* away from the read model.                                               *)
(***************************************************************************)
EXTENDS OpsReadModel, TLAPS

-----------------------------------------------------------------------------
(* Types *)

\* The effects of the steps that write proc or the queues, by their types.
LEMMA AckType ==
  ASSUME TypeOK, NEW kind \in Kinds, Ack(kind)
  PROVE  /\ inbox' \in [Kinds -> SUBSET Tickets]
         /\ faults' \in 0..MaxFaults
         /\ \A k \in Kinds : inbox'[k] \subseteq inbox[k]
<1>1. CASE faults < MaxFaults /\ faults' = faults + 1 /\ UNCHANGED inbox
  BY <1>1, FaultsAssumption DEF TypeOK
<1>2. CASE /\ inbox' = [inbox EXCEPT ![kind] = @ \ {proc[kind].ticket}]
           /\ UNCHANGED faults
  BY <1>2 DEF TypeOK
<1> QED
  BY <1>1, <1>2 DEF Ack

\* A handler that is not idle holds a ticket and a payload.
LEMMA BusyType ==
  ASSUME TypeOK, NEW kind \in Kinds, proc[kind].pc # "idle"
  PROVE  /\ proc[kind].pc \in {"read", "snapshot", "locked"}
         /\ proc[kind].ticket \in Tickets
         /\ proc[kind].copy \subseteq Facts
         /\ proc[kind] = [pc |-> proc[kind].pc, ticket |-> proc[kind].ticket,
                          copy |-> proc[kind].copy]
BY DEF TypeOK, Process

\* What it is about to record is a fact.
LEMMA FactType ==
  ASSUME TypeOK, NEW kind \in Kinds, proc[kind].pc # "idle"
  PROVE  <<proc[kind].ticket, kind>> \in Facts
BY BusyType DEF Facts

\* Its next step changes where it is and nothing else.
LEMMA AdvanceType ==
  ASSUME TypeOK, NEW kind \in Kinds, proc[kind].pc # "idle",
         NEW pc \in {"read", "snapshot", "locked"}
  PROVE  /\ [proc[kind] EXCEPT !.pc = pc]
              = [pc |-> pc, ticket |-> proc[kind].ticket, copy |-> proc[kind].copy]
         /\ [proc[kind] EXCEPT !.pc = pc] \in Process
<1> DEFINE next == [pc |-> pc, ticket |-> proc[kind].ticket, copy |-> proc[kind].copy]
<1>1. [proc[kind] EXCEPT !.pc = pc] = next
  <2> DEFINE p == proc[kind]
  <2>1. p = [pc |-> p.pc, ticket |-> p.ticket, copy |-> p.copy]
    BY BusyType
  <2> HIDE DEF p
  <2>2. [p EXCEPT !.pc = pc] = [pc |-> pc, ticket |-> p.ticket, copy |-> p.copy]
    BY <2>1
  <2> QED
    BY <2>2 DEF p
<1>2. next \in Process
  BY BusyType DEF Process
<1> QED
  BY <1>1, <1>2

LEMMA TypeStep == TypeOK /\ [Next]_vars => TypeOK'
<1> SUFFICES ASSUME TypeOK, [Next]_vars PROVE TypeOK'
  OBVIOUS
<1>1. CASE BookingMade
  BY <1>1 DEF TypeOK, BookingMade, row
<1>2. ASSUME NEW t \in Tickets, NEW kind \in Kinds, Happens(t, kind)
      PROVE  TypeOK'
  BY <1>2 DEF TypeOK, Happens, row, Facts
<1>3. CASE OnBookingMade
  <2>1. toCreate' \in BOOLEAN
    BY <1>3, Zenon DEF TypeOK, OnBookingMade
  <2>2. faults' \in 0..MaxFaults
    <3>1. faults' = faults \/ (faults < MaxFaults /\ faults' = faults + 1)
      BY <1>3, Zenon DEF OnBookingMade
    <3> QED
      BY <3>1, FaultsAssumption DEF TypeOK
  <2> QED
    BY <1>3, <2>1, <2>2 DEF TypeOK, OnBookingMade, events
<1>4. ASSUME NEW kind \in Kinds, NEW t \in Tickets, Read(t, kind)
      PROVE  TypeOK'
  <2>1. [pc |-> AfterRead(kind), ticket |-> t, copy |-> facts] \in Process
    BY DEF TypeOK, Process, AfterRead
  <2> QED
    BY <1>4, <2>1 DEF TypeOK, Read, events, row, queues
<1>5. ASSUME NEW kind \in Kinds, Snapshot(kind)
      PROVE  TypeOK'
  <2>1. [proc[kind] EXCEPT !.pc = "snapshot"] \in Process
    BY <1>5, AdvanceType DEF Snapshot
  <2> QED
    BY <1>5, <2>1 DEF TypeOK, Snapshot, events, row, queues
<1>6. ASSUME NEW kind \in Kinds, Upsert(kind)
      PROVE  TypeOK'
  <2>1. [proc[kind] EXCEPT !.pc = "locked"] \in Process
    BY <1>6, AdvanceType DEF Upsert
  <2>2. Announced(kind) \subseteq Facts
    BY <1>6, FactType DEF Upsert, Announced
  <2> QED
    BY <1>6, <2>1, <2>2 DEF TypeOK, Upsert, events, row, queues
<1>7. ASSUME NEW kind \in Kinds, Commit(kind)
      PROVE  TypeOK'
  <2>1. Updated(kind) \subseteq Facts
    BY <1>7, BusyType, FactType DEF Commit, Updated
  <2>2. proc' \in [Kinds -> Process]
    BY <1>7 DEF Commit, TypeOK, Process, Idle
  <2> QED
    BY <1>7, <2>1, <2>2, AckType DEF TypeOK, Commit, events
<1>8. ASSUME NEW kind \in Kinds, Fails(kind)
      PROVE  TypeOK'
  <2>1. Idle \in Process
    BY DEF Idle, Process
  <2> QED
    BY <1>8, <2>1, FaultsAssumption DEF TypeOK, Fails, events, row, queues
<1>9. CASE UNCHANGED vars
  BY <1>9 DEF TypeOK, vars, events, row, queues
<1> QED
  BY <1>1, <1>2, <1>3, <1>4, <1>5, <1>6, <1>7, <1>8, <1>9 DEF Next, Handle

\* Every reachable state is well typed, for every set of tickets.
THEOREM TypeCorrect == Spec => []TypeOK
<1>1. Init => TypeOK
  <2>1. Idle \in Process
    BY DEF Idle, Process
  <2>2. 0 \in 0..MaxFaults
    BY FaultsAssumption
  <2> QED
    BY <2>1, <2>2 DEF Init, TypeOK
<1> QED
  BY <1>1, TypeStep, PTL DEF Spec

-----------------------------------------------------------------------------
(* What the payloads claim *)

\* A copy was announced when it was shown, and its update before it is committed.
CopyIsAnnounced(kind) ==
  proc[kind].pc # "idle" =>
    /\ proc[kind].copy \subseteq announced
    /\ proc[kind].pc = "locked" => <<proc[kind].ticket, kind>> \in announced

AnnouncedInv == ShownIsAnnounced /\ \A kind \in Kinds : CopyIsAnnounced(kind)

\* What a commit does to the handlers: those it leaves alone are not ticket
\* handlers at work.
LEMMA CommitLeaves ==
  ASSUME TypeOK, ReadModelInv, NEW kind \in Kinds, Commit(kind), NEW k \in Kinds,
         proc'[k].pc # "idle"
  PROVE  k = "confirmed" /\ k # kind /\ proc'[k] = proc[k] /\ proc[k].pc = "read"
<1>1. proc'[k] = IF k \in Refused(kind) \cup {kind} THEN Idle ELSE proc[k]
  BY DEF Commit
<1>2. k \notin Refused(kind) \cup {kind}
  BY <1>1 DEF Idle
<1>3. proc'[k] = proc[k] /\ k # kind /\ proc[k].pc # "snapshot"
  BY <1>1, <1>2 DEF Refused
<1>4. proc[k].pc # "locked"
  BY <1>3 DEF Commit, ReadModelInv, OneLock
<1>5. proc[k].pc = "read"
  BY <1>3, <1>4, BusyType
<1> QED
  BY <1>3, <1>5 DEF ReadModelInv, SnapshotIsCurrent

\* The payload that a commit writes.
LEMMA CommitWrites ==
  ASSUME TypeOK, ReadModelInv, NEW kind \in Kinds, Commit(kind)
  PROVE  /\ facts' = proc[kind].copy \cup {<<proc[kind].ticket, kind>>}
         /\ Truthful(facts)'
         /\ kind # "confirmed" => proc[kind].copy = facts
         /\ Confirmations(proc[kind].copy) = Confirmations(facts)
         /\ kind # "confirmed" => Confirmations(facts') = Confirmations(facts)
<1>1. facts' = proc[kind].copy \cup {<<proc[kind].ticket, kind>>} /\ proc[kind].pc # "idle"
  BY DEF Commit, Updated
<1>2. /\ CopyIsTruthful(kind)
      /\ kind # "confirmed" => proc[kind].copy = facts
      /\ kind = "confirmed" => Confirmations(proc[kind].copy) = Confirmations(facts)
  BY <1>1 DEF ReadModelInv, SnapshotIsCurrent, CopyHasAllTickets
<1>3. happened' = happened
  BY DEF Commit, events
<1>4. Truthful(facts)'
  BY <1>1, <1>2, <1>3, BusyType DEF Truthful, CopyIsTruthful
<1>5. kind # "confirmed" => Confirmations(facts') = Confirmations(facts)
  BY <1>1, <1>2 DEF Confirmations
<1> QED
  BY <1>1, <1>2, <1>4, <1>5

\* A step that leaves the row and the handlers alone and only adds to what happened.
LEMMA QuietStep ==
  ASSUME TypeOK, ReadModelInv, UNCHANGED <<facts, proc>>, happened \subseteq happened',
         EventsHappened'
  PROVE  ReadModelInv'
<1>1. Truthful(facts)'
  BY DEF ReadModelInv, Truthful
<1>2. \A kind \in Kinds : CopyIsTruthful(kind)'
  BY DEF ReadModelInv, CopyIsTruthful, Truthful
<1>3. (\A kind \in Kinds : SnapshotIsCurrent(kind)') /\ OneLock' /\ CopyHasAllTickets'
  BY DEF ReadModelInv, SnapshotIsCurrent, OneLock, CopyHasAllTickets, Confirmations
<1> QED
  BY <1>1, <1>2, <1>3 DEF ReadModelInv

\* A step of one handler that leaves the row and the other handlers alone.
LEMMA HandlerStep ==
  ASSUME TypeOK, TypeOK', ReadModelInv, NEW kind \in Kinds, UNCHANGED <<row, events, inbox>>,
         \A k \in Kinds \ {kind} : proc'[k] = proc[k],
         CopyIsTruthful(kind)', SnapshotIsCurrent(kind)', OneLock', CopyHasAllTickets'
  PROVE  ReadModelInv'
<1>1. Truthful(facts)'
  BY DEF ReadModelInv, Truthful, row, events
<1>2. \A k \in Kinds : CopyIsTruthful(k)'
  BY DEF ReadModelInv, CopyIsTruthful, Truthful, events
<1>3. \A k \in Kinds : SnapshotIsCurrent(k)'
  BY DEF ReadModelInv, SnapshotIsCurrent, row
<1>4. EventsHappened'
  BY DEF ReadModelInv, EventsHappened, events
<1> QED
  BY <1>1, <1>2, <1>3, <1>4 DEF ReadModelInv

LEMMA ReadModelStep == TypeOK /\ ReadModelInv /\ [Next]_vars => ReadModelInv'
<1> SUFFICES ASSUME TypeOK, ReadModelInv, [Next]_vars PROVE ReadModelInv'
  OBVIOUS
<1> TypeOK'
  BY TypeStep
<1>1. CASE BookingMade
  <2>1. EventsHappened'
    BY <1>1 DEF BookingMade, ReadModelInv, EventsHappened
  <2> QED
    BY <1>1, <2>1, QuietStep DEF BookingMade, row
<1>2. ASSUME NEW t \in Tickets, NEW kind \in Kinds, Happens(t, kind)
      PROVE  ReadModelInv'
  <2>1. EventsHappened'
    BY <1>2 DEF Happens, ReadModelInv, EventsHappened, TypeOK
  <2> QED
    BY <1>2, <2>1, QuietStep DEF Happens, row
<1>3. CASE OnBookingMade
  <2>1. EventsHappened'
    BY <1>3 DEF OnBookingMade, events, ReadModelInv, EventsHappened
  <2> QED
    BY <1>3, <2>1, QuietStep DEF OnBookingMade, events
<1>4. ASSUME NEW kind \in Kinds, NEW t \in Tickets, Read(t, kind)
      PROVE  ReadModelInv'
  <2>1. /\ proc'[kind] = [pc |-> AfterRead(kind), ticket |-> t, copy |-> facts]
        /\ \A k \in Kinds \ {kind} : proc'[k] = proc[k]
        /\ UNCHANGED <<row, events, inbox>>
    BY <1>4 DEF Read, TypeOK, queues
  <2>2. CopyIsTruthful(kind)'
    BY <1>4, <2>1 DEF Read, Found, CopyIsTruthful, Truthful, ReadModelInv, EventsHappened, events
  <2>3. SnapshotIsCurrent(kind)'
    BY <2>1 DEF AfterRead, SnapshotIsCurrent, row
  <2>4. OneLock'
    BY <2>1 DEF AfterRead, OneLock, ReadModelInv
  <2>5. CopyHasAllTickets'
    <3>1. CASE kind = "confirmed"
      BY <3>1, <2>1 DEF CopyHasAllTickets, Confirmations, row
    <3>2. CASE kind # "confirmed"
      <4>1. proc'["confirmed"] = proc["confirmed"]
        BY <3>2, <2>1 DEF Kinds
      <4> QED
        BY <4>1, <2>1 DEF CopyHasAllTickets, Confirmations, ReadModelInv, row
    <3> QED
      BY <3>1, <3>2
  <2> QED
    BY <2>1, <2>2, <2>3, <2>4, <2>5, HandlerStep
<1>5. ASSUME NEW kind \in Kinds, Snapshot(kind)
      PROVE  ReadModelInv'
  <2>1. /\ proc'[kind] = [pc |-> "snapshot", ticket |-> proc[kind].ticket,
                           copy |-> proc[kind].copy]
        /\ \A k \in Kinds \ {kind} : proc'[k] = proc[k]
        /\ UNCHANGED <<row, events, inbox>>
    BY <1>5, AdvanceType DEF Snapshot, TypeOK, queues
  <2>2. CopyIsTruthful(kind)'
    BY <1>5, <2>1 DEF Snapshot, CopyIsTruthful, Truthful, ReadModelInv, events
  <2>3. SnapshotIsCurrent(kind)'
    BY <1>5, <2>1 DEF Snapshot, SnapshotIsCurrent, ReadModelInv, row
  <2>4. OneLock'
    BY <2>1 DEF OneLock, ReadModelInv
  <2>5. CopyHasAllTickets'
    BY <1>5, <2>1 DEF Snapshot, CopyHasAllTickets, Confirmations, ReadModelInv, row
  <2> QED
    BY <2>1, <2>2, <2>3, <2>4, <2>5, HandlerStep
<1>6. ASSUME NEW kind \in Kinds, Upsert(kind)
      PROVE  ReadModelInv'
  <2>1. /\ proc'[kind] = [pc |-> "locked", ticket |-> proc[kind].ticket,
                           copy |-> proc[kind].copy]
        /\ \A k \in Kinds \ {kind} : proc'[k] = proc[k]
        /\ UNCHANGED <<row, events, inbox>>
    BY <1>6, AdvanceType DEF Upsert, TypeOK, queues
  <2>2. CopyIsTruthful(kind)'
    BY <1>6, <2>1 DEF Upsert, CopyIsTruthful, Truthful, ReadModelInv, events
  <2>3. SnapshotIsCurrent(kind)'
    BY <1>6, <2>1 DEF Upsert, SnapshotIsCurrent, ReadModelInv, row
  <2>4. OneLock'
    BY <1>6, <2>1 DEF Upsert, OneLock, ReadModelInv
  <2>5. CopyHasAllTickets'
    BY <1>6, <2>1 DEF Upsert, CopyHasAllTickets, Confirmations, ReadModelInv, row
  <2> QED
    BY <2>1, <2>2, <2>3, <2>4, <2>5, HandlerStep
<1>7. ASSUME NEW kind \in Kinds, Commit(kind)
      PROVE  ReadModelInv'
  <2>1. Truthful(facts)'
    BY <1>7, CommitWrites
  <2>2. ASSUME NEW k \in Kinds
        PROVE  CopyIsTruthful(k)' /\ SnapshotIsCurrent(k)'
    <3>1. CASE proc'[k].pc = "idle"
      BY <3>1 DEF CopyIsTruthful, SnapshotIsCurrent
    <3>2. CASE proc'[k].pc # "idle"
      BY <3>2, <1>7, CommitLeaves
         DEF CopyIsTruthful, SnapshotIsCurrent, Truthful, ReadModelInv, Commit, events
    <3> QED
      BY <3>1, <3>2
  <2>3. EventsHappened'
    BY <1>7, AckType DEF Commit, ReadModelInv, EventsHappened, events
  <2>4. OneLock'
    BY <1>7, CommitLeaves DEF OneLock
  <2>5. CopyHasAllTickets'
    <3> SUFFICES ASSUME proc'["confirmed"].pc # "idle"
                 PROVE  Confirmations(proc'["confirmed"].copy) = Confirmations(facts')
      BY DEF CopyHasAllTickets, Confirmations
    <3>1. "confirmed" # kind /\ proc'["confirmed"] = proc["confirmed"]
      BY <1>7, CommitLeaves DEF Kinds
    <3>2. Confirmations(facts') = Confirmations(facts)
      BY <1>7, <3>1, CommitWrites
    <3> QED
      BY <3>1, <3>2 DEF CopyHasAllTickets, ReadModelInv
  <2> QED
    BY <2>1, <2>2, <2>3, <2>4, <2>5 DEF ReadModelInv
<1>8. ASSUME NEW kind \in Kinds, Fails(kind)
      PROVE  ReadModelInv'
  <2>1. /\ proc'[kind].pc = "idle"
        /\ \A k \in Kinds \ {kind} : proc'[k] = proc[k]
        /\ UNCHANGED <<row, events, inbox>>
    BY <1>8 DEF Fails, Idle, TypeOK, queues
  <2>2. CopyIsTruthful(kind)' /\ SnapshotIsCurrent(kind)'
    BY <2>1 DEF CopyIsTruthful, SnapshotIsCurrent
  <2>3. OneLock'
    BY <2>1 DEF OneLock, ReadModelInv
  <2>4. CopyHasAllTickets'
    <3>1. proc'["confirmed"].pc # "idle" => proc'["confirmed"] = proc["confirmed"]
      BY <2>1 DEF Kinds
    <3> QED
      BY <3>1, <2>1 DEF CopyHasAllTickets, Confirmations, ReadModelInv, row
  <2> QED
    BY <2>1, <2>2, <2>3, <2>4, HandlerStep
<1>9. CASE UNCHANGED vars
  <2>1. EventsHappened'
    BY <1>9 DEF vars, events, queues, ReadModelInv, EventsHappened
  <2> QED
    BY <1>9, <2>1, QuietStep DEF vars, events, row
<1> QED
  BY <1>1, <1>2, <1>3, <1>4, <1>5, <1>6, <1>7, <1>8, <1>9 DEF Next, Handle

\* However late and however often copies of the payload are written back, the read
\* model shows only what happened, and no copy that is written without a check
\* lacks a ticket.
THEOREM ReadModelInvariant == Spec => []ReadModelInv
<1>1. Init => ReadModelInv
  <2> SUFFICES ASSUME Init PROVE ReadModelInv
    OBVIOUS
  <2>1. \A kind \in Kinds : proc[kind].pc = "idle" /\ inbox[kind] = {}
    BY DEF Init, Idle
  <2>2. "confirmed" \in Kinds
    BY DEF Kinds
  <2>3. Truthful(facts)
    BY DEF Init, Truthful
  <2> QED
    BY <2>1, <2>2, <2>3 DEF ReadModelInv, CopyIsTruthful, SnapshotIsCurrent,
       EventsHappened, OneLock, CopyHasAllTickets
<1> QED
  BY <1>1, ReadModelStep, TypeCorrect, PTL DEF Spec

-----------------------------------------------------------------------------
(* What an update takes away *)

\* The row changes in a commit only.
LEMMA FactsChange ==
  ASSUME TypeOK, [Next]_vars, facts' # facts
  PROVE  \E kind \in Kinds : Commit(kind)
BY DEF Next, Handle, BookingMade, Happens, OnBookingMade, Read, Snapshot, Upsert, Fails, row, vars

\* No ticket ever disappears from the read model.
THEOREM TicketsStayHolds == Spec => TicketsStay
<1>1. TypeOK /\ ReadModelInv /\ [Next]_vars => [Confirmations(facts) \subseteq Confirmations(facts')]_facts
  <2> SUFFICES ASSUME TypeOK, ReadModelInv, [Next]_vars, facts' # facts
               PROVE  Confirmations(facts) \subseteq Confirmations(facts')
    OBVIOUS
  <2>1. PICK kind \in Kinds : Commit(kind)
    BY FactsChange
  <2>2. /\ Confirmations(proc[kind].copy) = Confirmations(facts)
        /\ proc[kind].copy \subseteq facts'
    BY <2>1, CommitWrites
  <2> QED
    BY <2>2 DEF Confirmations
<1> QED
  BY <1>1, TypeCorrect, ReadModelInvariant, PTL DEF Spec, TicketsStay

\* What was recorded of a ticket disappears only when OnTicketBookingConfirmed
\* writes its copy of the payload.
THEOREM OnlyConfirmationsOverwriteHolds == Spec => OnlyConfirmationsOverwrite
<1>1. TypeOK /\ ReadModelInv /\ [Next]_vars
        => [facts \subseteq facts' \/ proc["confirmed"].pc = "locked"]_facts
  <2> SUFFICES ASSUME TypeOK, ReadModelInv, [Next]_vars, facts' # facts,
                      proc["confirmed"].pc # "locked"
               PROVE  facts \subseteq facts'
    OBVIOUS
  <2>1. PICK kind \in Kinds : Commit(kind)
    BY FactsChange
  <2>2. kind # "confirmed"
    BY <2>1 DEF Commit
  <2> QED
    BY <2>1, <2>2, CommitWrites
<1> QED
  BY <1>1, TypeCorrect, ReadModelInvariant, PTL DEF Spec, OnlyConfirmationsOverwrite

-----------------------------------------------------------------------------
(* What is announced *)

LEMMA AnnouncedStep ==
  TypeOK /\ ReadModelInv /\ AnnouncedInv /\ [Next]_vars => AnnouncedInv'
<1> SUFFICES ASSUME TypeOK, ReadModelInv, AnnouncedInv, [Next]_vars
             PROVE  AnnouncedInv'
  OBVIOUS
<1> USE DEF AnnouncedInv, ShownIsAnnounced
<1>1. ASSUME UNCHANGED <<facts, proc, announced>> PROVE AnnouncedInv'
  BY <1>1 DEF CopyIsAnnounced
<1>2. ASSUME NEW kind \in Kinds, NEW t \in Tickets, Read(t, kind)
      PROVE  AnnouncedInv'
  <2>1. /\ proc'[kind] = [pc |-> AfterRead(kind), ticket |-> t, copy |-> facts]
        /\ \A k \in Kinds \ {kind} : proc'[k] = proc[k]
    BY <1>2 DEF Read, TypeOK
  <2> QED
    BY <1>2, <2>1 DEF Read, AfterRead, CopyIsAnnounced, row
<1>3. ASSUME NEW kind \in Kinds, Snapshot(kind)
      PROVE  AnnouncedInv'
  <2>1. /\ proc'[kind] = [pc |-> "snapshot", ticket |-> proc[kind].ticket,
                           copy |-> proc[kind].copy]
        /\ \A k \in Kinds \ {kind} : proc'[k] = proc[k]
    BY <1>3, AdvanceType DEF Snapshot, TypeOK
  <2> QED
    BY <1>3, <2>1 DEF Snapshot, CopyIsAnnounced, row
<1>4. ASSUME NEW kind \in Kinds, Upsert(kind)
      PROVE  AnnouncedInv'
  <2>1. /\ proc'[kind] = [pc |-> "locked", ticket |-> proc[kind].ticket,
                           copy |-> proc[kind].copy]
        /\ \A k \in Kinds \ {kind} : proc'[k] = proc[k]
    BY <1>4, AdvanceType DEF Upsert, TypeOK
  <2>2. announced' = announced \cup {<<proc[kind].ticket, kind>>} /\ facts' = facts
    BY <1>4 DEF Upsert, Announced, row
  <2> QED
    BY <1>4, <2>1, <2>2 DEF Upsert, CopyIsAnnounced
<1>5. ASSUME NEW kind \in Kinds, Commit(kind)
      PROVE  AnnouncedInv'
  <2>1. facts' \subseteq announced /\ announced' = announced
    BY <1>5 DEF Commit, Updated, CopyIsAnnounced
  <2>2. ASSUME NEW k \in Kinds PROVE CopyIsAnnounced(k)'
    BY <1>5, <2>1, CommitLeaves DEF CopyIsAnnounced
  <2> QED
    BY <2>1, <2>2
<1>6. ASSUME NEW kind \in Kinds, Fails(kind)
      PROVE  AnnouncedInv'
  <2>1. /\ proc'[kind].pc = "idle"
        /\ \A k \in Kinds \ {kind} : proc'[k] = proc[k]
    BY <1>6 DEF Fails, Idle, TypeOK
  <2> QED
    BY <1>6, <2>1 DEF Fails, CopyIsAnnounced, row
<1> QED
  BY <1>1, <1>2, <1>3, <1>4, <1>5, <1>6
     DEF Next, Handle, BookingMade, Happens, OnBookingMade, row, vars

\* Every update that the read model shows was announced, although the announcement
\* is not part of the transaction.
THEOREM ShownIsAnnouncedHolds == Spec => []ShownIsAnnounced
<1>1. Init => AnnouncedInv
  BY DEF Init, Idle, AnnouncedInv, ShownIsAnnounced, CopyIsAnnounced
<1>2. AnnouncedInv => ShownIsAnnounced
  BY DEF AnnouncedInv
<1> QED
  BY <1>1, <1>2, AnnouncedStep, TypeCorrect, ReadModelInvariant, PTL DEF Spec

=============================================================================
