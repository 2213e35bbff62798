----------------------------- MODULE Bookings ------------------------------
(***************************************************************************)
(* Booking tickets for a show in the tickets service (project/):           *)
(* BookingRepository.Create, called concurrently by the HTTP requests      *)
(* POST /book-tickets and by the handler of the command BookShowTickets,   *)
(* which books the show of a VIP bundle.  The handler has one consumer     *)
(* group: it takes one command at a time, and one that fails is offered    *)
(* again, before all others, until it is acked.                            *)
(*                                                                         *)
(* Create runs in a serializable transaction of PostgreSQL: its reads see  *)
(* the rows committed before its first statement, and it cannot commit     *)
(* when another booking of its show was committed since then.  PostgreSQL  *)
(* may refuse it for any other booking committed since then too, as its    *)
(* predicate locks are coarser than the query; and it may report the       *)
(* conflict at a statement or only at COMMIT.  The difference matters:     *)
(* Create returns the error of a statement, but drops the error of its     *)
(* deferred Commit.                                                        *)
(***************************************************************************)
EXTENDS Integers

CONSTANTS
  Shows,        \* the shows
  HttpBookings, \* the bookings asked for over HTTP, each by one request
  VipBookings,  \* the bookings asked for by a BookShowTickets command
  ShowOf,       \* the show of a booking
  TicketsOf,    \* the number of tickets of a booking
  Seats,        \* shows.number_of_tickets
  Faults,       \* the faults the database may produce
  MaxCrashes    \* bound: crashes of the service

Bookings == HttpBookings \cup VipBookings

ASSUME BookingsAssumption ==
  /\ ShowOf \in [Bookings -> Shows]
  /\ TicketsOf \in [Bookings -> Nat \ {0}]
  /\ Seats \in [Shows -> Nat]
  /\ HttpBookings \cap VipBookings = {}
  /\ Faults \subseteq {"statement", "commit"}
  /\ MaxCrashes \in Nat

VARIABLES
  shows,    \* the rows of shows
  bookings, \* the rows of bookings
  sold,     \* SUM(number_of_tickets) over the rows of bookings, per show
  outbox,   \* BookingMade_v1 events written to the outbox
  tx,       \* how far the call of Create for a booking has got
  seen,     \* the bookings in the snapshot of the call's transaction
  answer,   \* what the HTTP request was answered
  command,  \* the state of the BookShowTickets command
  crashes   \* crashes so far

tables   == <<shows, bookings, sold, outbox>>
requests == <<answer, command>>
vars     == <<tables, tx, seen, requests, crashes>>

TypeOK ==
  /\ shows \subseteq Shows
  /\ bookings \subseteq Bookings
  /\ sold \in [Shows -> Nat]
  /\ outbox \subseteq Bookings
  /\ tx \in [Bookings -> {"none", "checked", "inserted", "returned", "done"}]
  /\ seen \in [Bookings -> SUBSET Bookings]
  /\ answer \in [HttpBookings -> {"none", "created", "rejected"}]
  /\ command \in [VipBookings -> {"unsent", "pending", "taken", "acked"}]
  /\ crashes \in 0..MaxCrashes

-----------------------------------------------------------------------------
(* The transaction of BookingRepository.Create *)

BookingsOf(s, rows) == {id \in rows : ShowOf[id] = s}

\* Mutant: one ticket too many is sold.
HasSeats_OffByOne(id) ==
  /\ ShowOf[id] \in shows
  /\ Seats[ShowOf[id]] - sold[ShowOf[id]] >= TicketsOf[id] - 1

\* The show exists and has enough seats left.
HasSeats(id) ==
  /\ ShowOf[id] \in shows
  /\ Seats[ShowOf[id]] - sold[ShowOf[id]] >= TicketsOf[id]

\* Mutant: READ COMMITTED, no transaction has to be refused.
Conflict_ReadCommitted(id) == FALSE

\* Another booking of the show was committed after the snapshot was taken: the
\* two transactions cannot be put in an order.
Conflict(id) ==
  BookingsOf(ShowOf[id], bookings) # BookingsOf(ShowOf[id], seen[id])

\* Another booking, of whichever show, was committed since.
MayBeRefused(id) == bookings # seen[id]

\* A request may come at any time; of the commands, Create is called for the one that
\* the handler has taken.
Requested(id) == id \in VipBookings => command[id] = "taken"

\* Mutant: the errors of statements are dropped, too.
CreateFails_Dropped(id) ==
  /\ tx' = [tx EXCEPT ![id] = "returned"]
  /\ UNCHANGED answer

\* Create returns an error: 400 over HTTP; the command is nacked, and the handler gets
\* the same one again.
CreateFails(id) ==
  IF id \in HttpBookings
  THEN /\ tx' = [tx EXCEPT ![id] = "done"]
       /\ answer' = [answer EXCEPT ![id] = "rejected"]
  ELSE /\ tx' = [tx EXCEPT ![id] = "none"]
       /\ UNCHANGED answer

\* The two SELECTs: both see the snapshot the first one takes.
CheckSeats(id) ==
  /\ tx[id] = "none"
  /\ Requested(id)
  /\ \/ /\ HasSeats(id)
        /\ tx' = [tx EXCEPT ![id] = "checked"]
        /\ seen' = [seen EXCEPT ![id] = bookings]
        /\ UNCHANGED answer
     \/ /\ ~HasSeats(id) \/ "statement" \in Faults
        /\ CreateFails(id)
        /\ UNCHANGED seen
  /\ UNCHANGED <<tables, command, crashes>>

\* The INSERT of the row and that of BookingMade_v1 into the outbox.
Insert(id) ==
  /\ tx[id] = "checked"
  /\ \/ /\ id \notin bookings
        /\ tx' = [tx EXCEPT ![id] = "inserted"]
        /\ UNCHANGED answer
     \/ /\ id \in bookings \/ MayBeRefused(id) \/ "statement" \in Faults
        /\ CreateFails(id)
  /\ UNCHANGED <<tables, seen, command, crashes>>

\* Mutant: the sum of the tickets has the wrong sign.
Commit_WrongSign(id) ==
  /\ tx[id] = "inserted"
  /\ ~Conflict(id)
  /\ bookings' = bookings \cup {id}
  /\ sold' = [sold EXCEPT ![ShowOf[id]] = @ - TicketsOf[id]]
  /\ outbox' = outbox \cup {id}
  /\ tx' = [tx EXCEPT ![id] = "returned"]
  /\ UNCHANGED <<shows, seen, requests, crashes>>

\* The deferred Commit: the row and its event appear together.
Commit(id) ==
  /\ tx[id] = "inserted"
  /\ ~Conflict(id)
  /\ bookings' = bookings \cup {id}
  /\ sold' = [sold EXCEPT ![ShowOf[id]] = @ + TicketsOf[id]]
  /\ outbox' = outbox \cup {id}
  /\ tx' = [tx EXCEPT ![id] = "returned"]
  /\ UNCHANGED <<shows, seen, requests, crashes>>

\* COMMIT reports an error, which Create does not return.
CommitFails(id) ==
  /\ tx[id] = "inserted"
  /\ MayBeRefused(id) \/ "commit" \in Faults
  /\ tx' = [tx EXCEPT ![id] = "returned"]
  /\ UNCHANGED <<tables, seen, requests, crashes>>

-----------------------------------------------------------------------------
(* Its callers *)

\* The consumer group offers the handler a command, when the one before is acked.  (It
\* keeps their order, but not over a crash: any that waits may be the first.)
Take(id) ==
  /\ command[id] = "pending"
  /\ \A other \in VipBookings : command[other] # "taken"
  /\ command' = [command EXCEPT ![id] = "taken"]
  /\ UNCHANGED <<tables, tx, seen, answer, crashes>>

\* Create returned nil: 201 Created.
PostBookTicketsCreated(id) ==
  /\ id \in HttpBookings
  /\ tx[id] = "returned"
  /\ tx' = [tx EXCEPT ![id] = "done"]
  /\ answer' = [answer EXCEPT ![id] = "created"]
  /\ UNCHANGED <<tables, seen, command, crashes>>

\* Mutant: the handler returns an error although Create succeeded.
BookShowTicketsAck_Error(id) ==
  /\ id \in VipBookings
  /\ tx[id] = "returned"
  /\ tx' = [tx EXCEPT ![id] = "none"]
  /\ UNCHANGED <<tables, seen, requests, crashes>>

\* Create returned nil: the handler acks the command.
BookShowTicketsAck(id) ==
  /\ id \in VipBookings
  /\ tx[id] = "returned"
  /\ tx' = [tx EXCEPT ![id] = "none"]
  /\ command' = [command EXCEPT ![id] = "acked"]
  /\ UNCHANGED <<tables, seen, answer, crashes>>

\* The process manager sends the command for a bundle's show.
SendBookShowTickets(id) ==
  /\ command[id] = "unsent"
  /\ command' = [command EXCEPT ![id] = "pending"]
  /\ UNCHANGED <<tables, tx, seen, answer, crashes>>

PostShows(s) ==
  /\ s \notin shows
  /\ shows' = shows \cup {s}
  /\ UNCHANGED <<bookings, sold, outbox, tx, seen, requests, crashes>>

\* The service dies: open transactions are rolled back, requests that were
\* under way get no answer, commands not acked will be delivered again.
Crash ==
  /\ crashes < MaxCrashes
  /\ crashes' = crashes + 1
  /\ tx' = [id \in Bookings |->
             IF id \in HttpBookings /\ tx[id] # "none" THEN "done" ELSE "none"]
  /\ command' = [id \in VipBookings |->
                  IF command[id] = "taken" THEN "pending" ELSE command[id]]
  /\ UNCHANGED <<tables, seen, answer>>

-----------------------------------------------------------------------------
Init ==
  /\ shows = {}
  /\ bookings = {}
  /\ sold = [s \in Shows |-> 0]
  /\ outbox = {}
  /\ tx = [id \in Bookings |-> "none"]
  /\ seen = [id \in Bookings |-> {}]
  /\ answer = [id \in HttpBookings |-> "none"]
  /\ command = [id \in VipBookings |-> "unsent"]
  /\ crashes = 0

Create(id) == CheckSeats(id) \/ Insert(id) \/ Commit(id) \/ CommitFails(id)

Call(id) == Create(id) \/ PostBookTicketsCreated(id) \/ BookShowTicketsAck(id)

Next ==
  \/ \E s \in Shows : PostShows(s)
  \/ \E id \in Bookings : Call(id)
  \/ \E id \in VipBookings : SendBookShowTickets(id) \/ Take(id)
  \/ Crash

Spec == Init /\ [][Next]_vars

(* The handler of the commands takes one whenever it is idle and tries it again
   after an error; every call of Create runs to its end.  Nobody has to put up a
   show or to ask for a booking.                                            *)
Fairness ==
  /\ WF_vars(\E id \in VipBookings : Take(id) \/ Call(id))
  /\ \A id \in HttpBookings : WF_vars(tx[id] # "none" /\ Call(id))

FairSpec == Spec /\ Fairness

-----------------------------------------------------------------------------
(* Properties *)

\* No show is overbooked, however many requests and commands book its seats at
\* the same time, each after a check that another one may have overtaken.
NoOverbooking == \A s \in Shows : sold[s] <= Seats[s]

\* A customer whose request was answered 400 has no booking, and gets none from
\* a transaction that is still open.
RejectedIsNotBooked ==
  \A id \in HttpBookings : answer[id] = "rejected" =>
    id \notin bookings /\ tx[id] = "done"

\* Seats that were free in the snapshot of an open transaction are still free
\* when nothing that conflicts with it was committed since.
SnapshotIsGood(id) ==
  tx[id] \in {"checked", "inserted"} =>
    /\ ShowOf[id] \in shows
    /\ seen[id] \subseteq bookings
    /\ ~Conflict(id) => HasSeats(id)

\* The inductive invariant behind them: it relates what an open transaction has
\* seen to what is committed, and ties every booking to its one BookingMade_v1 and
\* every open request to a booking that was not made yet.
BookingsInv ==
  /\ NoOverbooking
  /\ RejectedIsNotBooked
  /\ outbox = bookings
  /\ \A id \in Bookings : SnapshotIsGood(id)
  /\ \A id \in Bookings : tx[id] = "inserted" => id \notin bookings
  /\ \A id \in HttpBookings :
       /\ tx[id] \in {"none", "checked"} => id \notin bookings
       /\ tx[id] # "done" => answer[id] = "none"

\* Create never reports success without a reason: while the database commits what
\* it can commit, a request answered 201 or a command acked without a row in
\* bookings lost against a booking committed during its transaction.
LostOnlyToAnother ==
  \A id \in Bookings :
    /\ \/ id \in HttpBookings /\ answer[id] = "created"
       \/ id \in VipBookings /\ command[id] = "acked"
    /\ id \notin bookings
    => bookings \ seen[id] # {}

\* The calls of Create refine the atomic bookings of ShowSeats: at most one booking
\* per id, and only from the seats left when it is made, although Create checks
\* the seats, inserts and commits in different steps.
Promise == INSTANCE ShowSeats
BooksAtomically == Promise!Spec

\* The handler can do nothing more for the command it has: the show is full or does not
\* exist, or the command comes back after a crash between its COMMIT and its ack and
\* fails on its own booking.
Stuck(id) ==
  /\ command[id] = "taken" /\ tx[id] = "none"
  /\ ~HasSeats(id) \/ (crashes > 0 /\ id \in bookings)

\* With others booking at the same time, and over a crash, every command that is sent is
\* acked in the end: it is not starved by conflicts.  Only one that the handler is stuck
\* on holds it back, be it a command for another show.
CommandIsAcked ==
  \A id \in VipBookings :
    command[id] # "unsent" ~>
      command[id] = "acked" \/ \E c \in VipBookings : Stuck(c)

=============================================================================
