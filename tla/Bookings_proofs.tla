-------------------------- MODULE Bookings_proofs ---------------------------
(***************************************************************************)
(* Proofs about Bookings, for every set of shows, bookings and seats: its  *)
(* types, that no show is overbooked, and that the transactions of Create  *)
(* implement the atomic bookings of ShowSeats.                             *)
(***************************************************************************)
EXTENDS Bookings, TLAPS

\* Every reachable state has the types of TypeOK; each step of Create keeps the
\* sums of sold tickets natural numbers.
THEOREM TypeCorrect == Spec => []TypeOK
<1>1. Init => TypeOK
  BY BookingsAssumption DEF Init, TypeOK
<1>2. TypeOK /\ [Next]_vars => TypeOK'
  <2> SUFFICES ASSUME TypeOK, [Next]_vars
               PROVE  TypeOK'
    OBVIOUS
  <2> USE DEF TypeOK
  <2>1. ASSUME NEW s \in Shows, PostShows(s)
        PROVE  TypeOK'
    BY <2>1 DEF PostShows, requests
  <2>2. ASSUME NEW id \in Bookings, CheckSeats(id)
        PROVE  TypeOK'
    BY <2>2 DEF CheckSeats, CreateFails, tables
  <2>3. ASSUME NEW id \in Bookings, Insert(id)
        PROVE  TypeOK'
    BY <2>3 DEF Insert, CreateFails, tables
  <2>4. ASSUME NEW id \in Bookings, Commit(id)
        PROVE  TypeOK'
    <3>1. TicketsOf[id] \in Nat /\ ShowOf[id] \in Shows
      BY BookingsAssumption
    <3>2. sold' \in [Shows -> Nat]
      <4>1. sold[ShowOf[id]] + TicketsOf[id] \in Nat
        BY <3>1
      <4> QED
        BY <4>1, <2>4 DEF Commit
    <3> QED
      BY <3>2, <2>4 DEF Commit, requests
  <2>5. ASSUME NEW id \in Bookings, CommitFails(id)
        PROVE  TypeOK'
    BY <2>5 DEF CommitFails, tables, requests
  <2>6. ASSUME NEW id \in Bookings, PostBookTicketsCreated(id)
        PROVE  TypeOK'
    BY <2>6 DEF PostBookTicketsCreated, tables
  <2>7. ASSUME NEW id \in Bookings, BookShowTicketsAck(id)
        PROVE  TypeOK'
    BY <2>7 DEF BookShowTicketsAck, tables
  <2>8. ASSUME NEW id \in VipBookings, SendBookShowTickets(id)
        PROVE  TypeOK'
    BY <2>8 DEF SendBookShowTickets, tables
  <2>9. CASE Crash
    BY <2>9, BookingsAssumption DEF Crash, tables
  <2>10. CASE UNCHANGED vars
    BY <2>10 DEF vars, tables, requests
  <2>11. ASSUME NEW id \in VipBookings, Take(id)
         PROVE  TypeOK'
    BY <2>11 DEF Take, tables
  <2> QED
    BY <2>1, <2>2, <2>3, <2>4, <2>5, <2>6, <2>7, <2>8, <2>9, <2>10, <2>11
    DEF Next, Call, Create
<1> QED
  BY <1>1, <1>2, PTL DEF Spec

-----------------------------------------------------------------------------
\* A step that leaves the tables alone and opens no transaction keeps the
\* invariant: the transactions it ends, the requests it answers and the commands
\* it acks had no booking, or keep the one they have.
LEMMA TablesUnchanged ==
  ASSUME TypeOK, BookingsInv, UNCHANGED <<tables, seen>>,
         \A id \in Bookings :
           tx'[id] \in {"checked", "inserted"} =>
             tx[id] \in {"checked", "inserted"} /\
             (tx'[id] = "inserted" => id \notin bookings),
         \A id \in HttpBookings :
           /\ tx'[id] \in {"none", "checked"} => tx[id] = tx'[id]
           /\ tx'[id] # "done" => tx[id] # "done" /\ answer'[id] = answer[id]
           /\ answer'[id] = "rejected" =>
                tx'[id] = "done" /\ (answer[id] = "rejected" \/ id \notin bookings)
  PROVE  BookingsInv'
<1> USE DEF TypeOK, BookingsInv, tables
<1>1. NoOverbooking'
  BY DEF NoOverbooking
<1>2. RejectedIsNotBooked'
  BY DEF RejectedIsNotBooked
<1>3. \A id \in Bookings : SnapshotIsGood(id)'
  BY DEF SnapshotIsGood, Conflict, HasSeats, BookingsOf
<1> HIDE DEF TypeOK
<1> QED
  BY <1>1, <1>2, <1>3

\* The invariant is inductive.
LEMMA BookingsInvStep ==
  ASSUME TypeOK, BookingsInv, [Next]_vars
  PROVE  BookingsInv'
<1> HttpBookings \subseteq Bookings /\ VipBookings \subseteq Bookings
  BY DEF Bookings
<1>1. ASSUME NEW s \in Shows, PostShows(s)
      PROVE  BookingsInv'
  <2> USE <1>1 DEF PostShows, requests, BookingsInv
  <2>1. NoOverbooking' /\ RejectedIsNotBooked'
    BY DEF NoOverbooking, RejectedIsNotBooked
  <2>2. \A id \in Bookings : SnapshotIsGood(id)'
    BY DEF SnapshotIsGood, Conflict, HasSeats, BookingsOf
  <2> QED
    BY <2>1, <2>2
<1>2. ASSUME NEW id \in Bookings, CheckSeats(id)
      PROVE  BookingsInv'
  <2>1. CASE CreateFails(id) /\ UNCHANGED seen
    BY <1>2, <2>1, TablesUnchanged, BookingsAssumption
    DEF CheckSeats, CreateFails, TypeOK, BookingsInv
  <2>2. CASE /\ HasSeats(id)
             /\ tx' = [tx EXCEPT ![id] = "checked"]
             /\ seen' = [seen EXCEPT ![id] = bookings]
             /\ UNCHANGED answer
    <3> USE <1>2, <2>2 DEF CheckSeats, TypeOK, BookingsInv, tables
    <3>1. NoOverbooking'
      BY DEF NoOverbooking
    <3>2. RejectedIsNotBooked'
      BY DEF RejectedIsNotBooked
    <3>3. \A i \in Bookings : SnapshotIsGood(i)'
      BY DEF SnapshotIsGood, Conflict, HasSeats, BookingsOf
    <3> QED
      BY <3>1, <3>2, <3>3
  <2> QED
    BY <1>2, <2>1, <2>2 DEF CheckSeats
<1>3. ASSUME NEW id \in Bookings, Insert(id)
      PROVE  BookingsInv'
  BY <1>3, TablesUnchanged, BookingsAssumption
  DEF Insert, CreateFails, TypeOK, BookingsInv
<1>4. ASSUME NEW id \in Bookings, Commit(id)
      PROVE  BookingsInv'
  <2> USE <1>4 DEF Commit, TypeOK, BookingsInv
  <2>1. HasSeats(id)
    BY DEF SnapshotIsGood
  <2>2. NoOverbooking'
    <3>1. ShowOf[id] \in Shows /\ TicketsOf[id] \in Nat /\ Seats[ShowOf[id]] \in Nat
      BY BookingsAssumption
    <3>2. sold[ShowOf[id]] + TicketsOf[id] <= Seats[ShowOf[id]]
      BY <2>1, <3>1 DEF HasSeats
    <3> QED
      BY <3>1, <3>2 DEF NoOverbooking
  <2>3. RejectedIsNotBooked'
    BY DEF RejectedIsNotBooked, requests
  <2>4. ASSUME NEW i \in Bookings
        PROVE  SnapshotIsGood(i)'
    <3>1. CASE ShowOf[i] = ShowOf[id] /\ tx'[i] \in {"checked", "inserted"}
      <4>1. id \in BookingsOf(ShowOf[i], bookings)' /\ id \notin seen[i]
        BY <3>1 DEF BookingsOf, SnapshotIsGood
      <4> QED
        BY <3>1, <4>1 DEF SnapshotIsGood, Conflict, BookingsOf
    <3>2. CASE ShowOf[i] # ShowOf[id] /\ tx'[i] \in {"checked", "inserted"}
      <4>1. BookingsOf(ShowOf[i], bookings)' = BookingsOf(ShowOf[i], bookings)
        BY <3>2 DEF BookingsOf
      <4>2. HasSeats(i)' = HasSeats(i)
        BY <3>2, BookingsAssumption DEF HasSeats
      <4> QED
        BY <3>2, <4>1, <4>2 DEF SnapshotIsGood, Conflict, BookingsOf
    <3> QED
      BY <3>1, <3>2 DEF SnapshotIsGood
  <2> QED
    BY <2>2, <2>3, <2>4, BookingsAssumption DEF requests
<1>5. ASSUME NEW id \in Bookings, CommitFails(id)
      PROVE  BookingsInv'
  BY <1>5, TablesUnchanged DEF CommitFails, requests, TypeOK, BookingsInv, RejectedIsNotBooked
<1>6. ASSUME NEW id \in Bookings, PostBookTicketsCreated(id)
      PROVE  BookingsInv'
  BY <1>6, TablesUnchanged
  DEF PostBookTicketsCreated, TypeOK, BookingsInv, RejectedIsNotBooked
<1>7. ASSUME NEW id \in Bookings, BookShowTicketsAck(id)
      PROVE  BookingsInv'
  BY <1>7, TablesUnchanged, BookingsAssumption
  DEF BookShowTicketsAck, TypeOK, BookingsInv, RejectedIsNotBooked
<1>8. ASSUME NEW id \in VipBookings, SendBookShowTickets(id)
      PROVE  BookingsInv'
  BY <1>8, TablesUnchanged
  DEF SendBookShowTickets, TypeOK, BookingsInv, RejectedIsNotBooked
<1>9. CASE Crash
  BY <1>9, TablesUnchanged, BookingsAssumption
  DEF Crash, TypeOK, BookingsInv, RejectedIsNotBooked
<1>10. CASE UNCHANGED vars
  BY <1>10, TablesUnchanged
  DEF vars, requests, TypeOK, BookingsInv, RejectedIsNotBooked
<1>11. ASSUME NEW id \in VipBookings, Take(id)
       PROVE  BookingsInv'
  BY <1>11, TablesUnchanged DEF Take, TypeOK, BookingsInv, RejectedIsNotBooked
<1> QED
  BY <1>1, <1>2, <1>3, <1>4, <1>5, <1>6, <1>7, <1>8, <1>9, <1>10, <1>11
  DEF Next, Call, Create

\* Between the check of the seats and the commit, the invariant BookingsInv holds
\* of every transaction of Create in every reachable state.
THEOREM BookingsInvariant == Spec => []BookingsInv
<1>1. Init => BookingsInv
  BY BookingsAssumption
  DEF Init, BookingsInv, NoOverbooking, RejectedIsNotBooked, SnapshotIsGood, Bookings
<1>2. TypeOK /\ BookingsInv /\ [Next]_vars => BookingsInv'
  BY BookingsInvStep
<1> QED
  BY <1>1, <1>2, TypeCorrect, PTL DEF Spec

\* No show is overbooked by concurrent calls of BookingRepository.Create.
THEOREM NoOverbookingHolds == Spec => []NoOverbooking
<1>1. BookingsInv => NoOverbooking
  BY DEF BookingsInv
<1> QED
  BY <1>1, BookingsInvariant, PTL

\* A request that was answered 400 has no booking and will not get one.
THEOREM RejectedIsNotBookedHolds == Spec => []RejectedIsNotBooked
<1>1. BookingsInv => RejectedIsNotBooked
  BY DEF BookingsInv
<1> QED
  BY <1>1, BookingsInvariant, PTL

-----------------------------------------------------------------------------
\* The transactions of Create, with their check, inserts and commit in different
\* steps, implement the atomic bookings of ShowSeats.
THEOREM Refinement == Spec => BooksAtomically
<1>1. Init => Promise!Init
  BY DEF Init, Promise!Init
<1>2. TypeOK /\ BookingsInv /\ [Next]_vars => [Promise!Next]_<<shows, bookings, sold>>
  <2> SUFFICES ASSUME TypeOK, BookingsInv, [Next]_vars
               PROVE  [Promise!Next]_<<shows, bookings, sold>>
    OBVIOUS
  <2>1. ASSUME NEW s \in Shows, PostShows(s)
        PROVE  Promise!Next
    BY <2>1 DEF PostShows, Promise!Next, Promise!PutUp
  <2>2. ASSUME NEW id \in Bookings, Commit(id)
        PROVE  Promise!Next
    <3>1. HasSeats(id) /\ id \notin bookings
      BY <2>2 DEF Commit, BookingsInv, SnapshotIsGood
    <3>2. Promise!Book(id)
      BY <2>2, <3>1 DEF Commit, HasSeats, Promise!Book, Promise!HasSeats
    <3> QED
      BY <3>2 DEF Promise!Next
  <2>3. ASSUME NEW id \in Bookings,
               \/ CheckSeats(id) \/ Insert(id) \/ CommitFails(id)
               \/ PostBookTicketsCreated(id) \/ BookShowTicketsAck(id)
        PROVE  UNCHANGED <<shows, bookings, sold>>
    BY <2>3 DEF CheckSeats, Insert, CommitFails, PostBookTicketsCreated,
                BookShowTicketsAck, tables
  <2>4. ASSUME NEW id \in VipBookings, SendBookShowTickets(id) \/ Take(id)
        PROVE  UNCHANGED <<shows, bookings, sold>>
    BY <2>4 DEF SendBookShowTickets, Take, tables
  <2>5. Crash \/ UNCHANGED vars => UNCHANGED <<shows, bookings, sold>>
    BY DEF Crash, vars, tables
  <2> QED
    BY <2>1, <2>2, <2>3, <2>4, <2>5 DEF Next, Call, Create
<1> QED
  BY <1>1, <1>2, TypeCorrect, BookingsInvariant, PTL
  DEF Spec, BooksAtomically, Promise!Spec

-----------------------------------------------------------------------------
\* LostOnlyToAnother with the calls of Create that have returned and were not
\* answered yet: what they have lost, they have lost already.
LostInv ==
  \A id \in Bookings :
    /\ \/ tx[id] = "returned"
       \/ id \in HttpBookings /\ answer[id] = "created"
       \/ id \in VipBookings /\ command[id] = "acked"
    /\ id \notin bookings
    => bookings \ seen[id] # {}

\* Only an error of COMMIT, which Create drops, makes a new loss; everything else keeps
\* the rows, and the snapshots of the calls that are over.
LEMMA LostInvStep ==
  ASSUME "commit" \notin Faults, TypeOK, BookingsInv, LostInv, [Next]_vars
  PROVE  LostInv'
<1> HttpBookings \subseteq Bookings /\ VipBookings \subseteq Bookings
  BY DEF Bookings
<1> USE DEF TypeOK, LostInv
<1>1. ASSUME NEW s \in Shows, PostShows(s)
      PROVE  LostInv'
  BY <1>1 DEF PostShows, requests
<1>2. ASSUME NEW id \in Bookings, CheckSeats(id)
      PROVE  LostInv'
  <2>1. CASE CreateFails(id) /\ UNCHANGED seen
    BY <1>2, <2>1 DEF CheckSeats, CreateFails, tables
  <2>2. CASE /\ tx' = [tx EXCEPT ![id] = "checked"]
             /\ seen' = [seen EXCEPT ![id] = bookings]
             /\ UNCHANGED answer
    <3>1. /\ id \in HttpBookings => answer[id] = "none"
          /\ id \in VipBookings => command[id] = "taken"
      BY <1>2 DEF CheckSeats, Requested, BookingsInv
    <3> QED
      BY <1>2, <2>2, <3>1 DEF CheckSeats, tables
  <2> QED
    BY <1>2, <2>1, <2>2 DEF CheckSeats
<1>3. ASSUME NEW id \in Bookings, Insert(id)
      PROVE  LostInv'
  BY <1>3 DEF Insert, CreateFails, tables
<1>4. ASSUME NEW id \in Bookings, Commit(id)
      PROVE  LostInv'
  BY <1>4 DEF Commit, requests
<1>5. ASSUME NEW id \in Bookings, CommitFails(id)
      PROVE  LostInv'
  <2>1. bookings \ seen[id] # {}
    BY <1>5 DEF CommitFails, MayBeRefused, BookingsInv, SnapshotIsGood
  <2> QED
    BY <1>5, <2>1 DEF CommitFails, tables, requests
<1>6. ASSUME NEW id \in Bookings, PostBookTicketsCreated(id)
      PROVE  LostInv'
  BY <1>6 DEF PostBookTicketsCreated, tables
<1>7. ASSUME NEW id \in Bookings, BookShowTicketsAck(id)
      PROVE  LostInv'
  BY <1>7 DEF BookShowTicketsAck, tables
<1>8. ASSUME NEW id \in VipBookings, SendBookShowTickets(id)
      PROVE  LostInv'
  BY <1>8 DEF SendBookShowTickets, tables
<1>9. CASE Crash
  BY <1>9 DEF Crash, tables
<1>10. CASE UNCHANGED vars
  BY <1>10 DEF vars, tables, requests
<1>11. ASSUME NEW id \in VipBookings, Take(id)
       PROVE  LostInv'
  BY <1>11 DEF Take, tables
<1> QED
  BY <1>1, <1>2, <1>3, <1>4, <1>5, <1>6, <1>7, <1>8, <1>9, <1>10, <1>11
  DEF Next, Call, Create

\* While the database commits what it can commit, BookingRepository.Create reports
\* success without a row only to those who have lost against another booking.
THEOREM LostOnlyToAnotherHolds ==
  "commit" \notin Faults => (Spec => []LostOnlyToAnother)
<1> SUFFICES ASSUME "commit" \notin Faults
             PROVE  Spec => []LostOnlyToAnother
  OBVIOUS
<1>1. Init => LostInv
  BY DEF Init, LostInv, Bookings
<1>2. TypeOK /\ BookingsInv /\ LostInv /\ [Next]_vars => LostInv'
  BY LostInvStep
<1>3. LostInv => LostOnlyToAnother
  BY DEF LostInv, LostOnlyToAnother
<1> QED
  BY <1>1, <1>2, <1>3, TypeCorrect, BookingsInvariant, PTL DEF Spec

=============================================================================
