# Verification of the event-driven tickets service

TLA+ models of the code of this repository, checked with TLC, and proofs about
them, checked with TLAPS. The repository is the work of an event-driven Go
course: `project/` is a complete service, the numbered directories are
exercises on the same techniques. The models follow `src/`, never a
description of it.

## Inventory

### The tickets service (`project/`)

One process: an echo HTTP server and a watermill router whose handlers run
concurrently. State is in PostgreSQL, messages are in Redis streams.

| Part | State | Operations | Hard behaviour | What makes it correct |
|---|---|---|---|---|
| VIP bundle process manager (`message/sagas`, `db/vip_bundle_respository.go`) | a row of `vip_bundles`: what is booked, ticket ids, final, failed | eight event handlers, rollback | ten handlers interleave; the row is read outside of the transaction that writes it; every message may come again; a step may fail half-way | steps in order; final only when everything is booked; a rollback undoes what happened, all of it, once; every bundle ends |
| Command handlers (`message/command`, `api/transportation.go`) | the bookings at the transport API | book and cancel flights, book a taxi, book a show, refund a ticket | errors that are published *and* retried; a crash between call and event | what is reported was done; nothing is done twice |
| Bookings and shows (`db/booking_repository.go`, `http/handler_book.go`) | rows of `shows`, `bookings`, the outbox | `Create` from HTTP and from the command `BookShowTickets` | concurrent serializable transactions; a swallowed error of COMMIT | no overbooking; an answer tells the truth; one event per booking |
| Messaging (`message/router.go`, `middleware.go`, `event`, `command`, `redis.go`) | streams, consumer groups | events go to `events`, the splitter republishes them per name; every handler has a consumer group; errors are retried 10 times, then nacked and delivered again | fan-out subscribers without a group miss what is published while they are down; a message that always fails holds back its group | no event is lost while the service runs; what has reached a group is handled at least once |
| Outbox (`message/outbox`) | `events_to_forward`, an offset | write in the transaction, forward to Redis | crash between publish and offset | an event is forwarded if and only if its transaction committed |
| Data lake (`db/data_lake_repository.go`) | `events` | store once per id, read in order of `published_at` | duplicates; `published_at` is never set | each event once, replayable in order |
| Ops read model (`db/booking_read_model_repository.go`) | one JSON payload per booking | five event handlers | one reads outside of its transaction, whole payload written back, events out of order, internal event published before the commit | shows only what happened; no ticket disappears; every handled event is visible in the end |
| Tickets (`http/handler_tickets.go`, `event/*`, `db/ticket_repository.go`) | `tickets`, receipts, spreadsheets, files, payments | confirm, cancel, refund | duplicates, cancellation before confirmation, partially published requests | printed, issued and refunded once; a cancelled ticket stays cancelled |
| Migration (`migrations`) | the read model | replay of the data lake | order of the events | same read model as the live handlers |

A request for a bundle writes its row and `VipBundleInitialized_v1`; the process
manager sends `BookShowTickets`; its handler calls the same
`BookingRepository.Create` as `POST /book-tickets`; the committed `BookingMade_v1`
goes through the outbox, the stream `events` and the splitter to Dead Nation, the
read model and the process manager; Dead Nation answers with `POST
/tickets-status`, whose events feed tickets, read model and process manager;
`BookFlight`, `BookTaxi` and their events go on from there, or the rollback
sends `RefundTicket` and `CancelFlightTickets`.

### The exercises

- `21-sagas-and-process-managers/03-modeling-process-manager`: the same process
  manager over an in-memory repository, with the tests the findings quote.
- `21-sagas-and-process-managers/02-removing-sagas`: orders and stock, once a saga
  and now one transaction; stock read outside of it, products taken one by one.
- `poison-queue-cli` and `20-fault-tolerance/04-poison-queue`: a queue searched by
  taking and publishing again every message.
- `14-message-ordering/04-versioning-entities`: alerts updated by version, from two
  topics that overtake each other.
- `13-read-models`: invoices in a map without a lock, written by three goroutines.
- `06-middlewares/01-add-middleware`: players and teams in maps, a scoreboard per team.
- `03-message-broker/04-nack`: an alarm, with readings that are nacked.
- the rest (see "Not modelled").

## Plan

The order was that of importance. Each module is written so that it can be proved
about: parameters are CONSTANTS, one action per step of a handler, no recursive
operator.

| Step | Module | Of | Theorems in |
|---|---|---|---|
| 1 | `VipBundle` | the saga with the handlers and services it drives | `VipBundle_proofs` |
| 2 | `Bookings`, implementing `ShowSeats` | the transaction of `Create` | `Bookings_proofs` |
| 3 | `OpsReadModel` | the five handlers and `updateInTx` | `OpsReadModel_proofs` |
| 4 | `EventPipeline` | outbox, forwarder, stream, splitter, consumer groups, data lake | `EventPipeline_proofs` |
| 5 | `Tickets` | confirmation, cancellation, refund | `Tickets_proofs` |
| 6 | `Migration` | the replay of the data lake | `Components_proofs` |
| 7 | `Orders` | `02-removing-sagas` | `Components_proofs`, `Totals_proofs` |
| 8 | `PoisonQueueCLI` | preview, remove, requeue | `PoisonQueueCLI_proofs` |
| 9 | `ProcessManager` | the process manager of the course | `Components_proofs` |
| 10 | `AlertVersions`, `Invoices`, `Teams` | exercises with failures | `Components_proofs`, `Totals_proofs` |
| 11 | `SmokeSensor` | nack | `Components_proofs` |
| 12 | `Components` | modules 6 to 11 side by side | `Components_proofs`, `Totals_proofs` |

All of it is done: every safety invariant and every action property that the passing
runs check is also a theorem. The liveness properties stay with TLC (see "Left to TLC"
below). What is left is to say more about the code, as in the hazards of
`PROJECT.json` that have no property yet.

The modules meet at messages. What one of them emits is what another assumes:
`Bookings` commits a row and its event together, `EventPipeline` starts from such
transactions and follows the event through the stream `events` and the splitter to the
consumer groups. From its group a handler gets an event at least once. Before that
an event may be lost: the splitter subscribes without a consumer group
(`message/redis.go:28`), so what it has not copied when the service goes down, and what
is published before it is subscribed again, reaches no group. `VipBundle` and `Tickets`
have this splitter, too, and crashes that lose events in front of it; `OpsReadModel`
starts from events that are in the groups of its handlers, in any order. The modules are not instantiated together: the product of their states is out
of reach, and none of them reads the state of another.

## VipBundle: one VIP bundle

`VipBundle.tla` is one bundle from `POST /book-vip-bundle` to its end.

- *State.* `bundle` is the payload of the row (a `BookedAt` field and the ids set
  together with it are one field, the idempotency key of the booking they came
  from). `inbox[h]` holds the messages handler `h` has not acked. `proc[h]` is what a
  handler of the process manager remembers between its steps: its message, its
  copy of the row, the commands still to send. `flightsBooked`, `taxisBooked`,
  `flightsCancelled`, `confirmed`, `showBooked` are the facts at the services.
  `unread[topic]` are the events of `inbox` that the splitter has still to copy to their
  topic, `listening` says that it is subscribed, `lost` that an event was lost.
- *Steps.* Every handler is an action or, where it reads state and uses it later,
  several: `OnFlightBooked` and `OnTaxiBooked` read the row (`...Read`), write their
  copy back (`UpdateByIDWrite`), then send. `UpdateByBookingID` reads inside of its
  serializable transaction and is one step. The rollback reads, sends one command
  per step, reads again and writes. `Add` inserts the row outside of the
  transaction of its event (`AddInsert`, `AddCommit`, `AddFails`).
- *Delivery.* `Splitter` copies an event to the groups of its topic; a command goes to
  its group at once. A handler works on one message at a time; an ack may be lost and
  a handler may fail or panic at any of its steps (`Ack`, `HandlerFails`). `Crash` ends
  the service: handlers forget what they have read, an `Add` that is under way leaves its
  row, and what the splitter has not copied is lost, except for events that are still in
  the outbox (`OutboxHandlers`). Until `SplitterSubscribes`, whatever is published is lost
  (`Heard`), and so is an event of the outbox that the forwarder had published, or
  publishes too early (`ForwardedUnheard`). The bound `MaxRedeliveries` counts lost acks,
  failures and crashes. A handler that returns an error without having changed anything is
  tried again: that is no step. Two deliveries of the same message that wait at the same
  time are one.
- *Passengers.* `POST /book-vip-bundle` accepts a bundle without passengers. `OnFlightBooked`
  takes the name for the taxi from the first of them (`vip_bundle_process_manager.go:227`)
  and panics when there is none (`HasNextCommand`), every time.
- *Services.* `Faults` selects what may go wrong outside: a full show, a booking
  whose commit is lost, a flight that is not available, an error of the call to
  book a taxi (which may have booked it). `flightsCancelled` are the cancellations the API
  was asked for: `DeleteFlightTickets` ignores the status of the answer, so that a
  cancellation it refuses counts as well.

Not in the model: other bundles and other bookings, the two flights being the
same one, the handling of `RefundTicket`.

| Run | Checks | Bounds |
|---|---|---|
| `redelivery` | `TypeOK`, `SagaInv` (with `SagaOrder`; `FinalizedMeansBooked` follows), `CompensatesOnlyWhatHappened`, and until the first redelivery `RollbackComplete`, `RefundsAwaitConfirmations`, `FinalizedIsStable` | two tickets; one crash, error, panic or lost ack at any point; a fourth key for the repeated step; all faults but a full show |
| `live` | `BundleCompletes` under fairness: a bundle with passengers is completed unless an event of it was lost | no failing service; one error, panic, lost ack or crash |
| `lost_ticket` | finds `ConfirmedTicketsRecorded` violated | two tickets |
| `double_refund` | finds `OneRefundPerTicket` violated | `taxi_error`, two refunds per ticket |
| `full_show` | finds `FullShowFailsBundle` violated under fairness | `show_full` |

Two tickets are enough for a list that is incomplete, complete or has a
duplicate. One redelivery is enough to repeat each step with a new key while the
first run's messages are still under way. Tickets are symmetric; no property
with symmetry is a liveness property.

`SagaInv` is the interesting invariant: a stale copy of the row may overwrite a
newer one, so the row can go *back*, yet no copy ever claims a booking that was not
made. `RollbackComplete`, `RefundsAwaitConfirmations` and `FinalizedIsStable` are
conditioned on `redeliveries = 0`: a confirmation that is delivered again is stored
again (the loop at `vip_bundle_process_manager.go:167` only continues itself), after
which the rollback never finds the right number of tickets.

*Fairness.* `FairSpec` asks of each handler, and of the splitter for each topic, that it
takes a step when it can: the router runs a goroutine per handler and offers a message
until it is acked. After a crash the service is started again. No fault, crash or
redelivery is fair, and neither is the request for a bundle.

## Bookings and ShowSeats: booking seats

`ShowSeats.tla` is the promise: a booking takes all of its seats at once, at most
once, from the seats that are left. `Bookings.tla` is the code: `CheckSeats` (the two
SELECTs, on one snapshot), `Insert` (row and outbox), `Commit` or `CommitFails`, and the
callers, HTTP requests and the handler of `BookShowTickets`.

- PostgreSQL (external) must refuse a transaction when another booking of its show
  was committed since its snapshot (`Conflict`) and may refuse it for any other
  booking (`MayBeRefused`: predicate locks on a table scan cover the table). It may
  do so at a statement, whose error `Create` returns, or at COMMIT, whose error
  `Create` drops.
- `sold[s]` is what the SELECT of the sum returns. It is kept as a variable, and
  not computed, so that the proofs need no induction over sets; `BooksAtomically` ties
  it to the rows: a step that adds a booking adds exactly its tickets.
- The handler of `BookShowTickets` has one consumer group: it takes a command (`Take`)
  when it has acked the one before, and one whose `Create` fails is offered again before
  all others (`Requested`, `CreateFails`). Commands are taken in any order: after a crash
  the one that was taken may come after others.
- `Crash` rolls open transactions back; a request under way gets no answer, a
  command not acked is delivered again.

| Run | Checks | Bounds |
|---|---|---|
| `concurrent_bookings` | `TypeOK`, `BookingsInv` (with `NoOverbooking`, `RejectedIsNotBooked`), `LostOnlyToAnother`, refinement of ShowSeats (`BooksAtomically`), `CommandIsAcked` under fairness | three requests, two commands, two shows that cannot hold them all, one crash |

The theatre of three seats is booked by bookings of one and two tickets, so
that the last seats are contended and one booking may fit where another does not;
the club shares the table, so that unrelated bookings conflict. A command that
is acked although its booking was refused at COMMIT is a reachable state:
`LostOnlyToAnother` says exactly when. It is the one property that does not allow a
COMMIT to fail for a reason of its own: then a booking is lost to nobody. The theorems
cover every fault.
`CommandIsAcked` says that conflicts with other bookings starve no command: every one that
is sent is acked in the end, unless the handler is `Stuck` on it or on one before it.
There are two ways for that, and the code knows no way out of either: the show is full
or does not exist, or the service crashed between COMMIT and ack, after which the command
fails on the primary key, as `Create` never returns `ErrBookingAlreadyExists`. All other
commands, for whichever shows, then wait behind it. (Only a conflict that is reported at a
statement repeats a command; a refused COMMIT is taken for success.)

*Fairness.* Calls of `Create` run to their end, and the handler takes a command whenever
it is idle; nobody has to put up a show, to send a request or to crash.

## OpsReadModel: the operations read model

`OpsReadModel.tla` is the payload of one booking and the five handlers that write it.

- *State.* `facts` is the payload: what was recorded (`confirmed`, `receipt`, `printed`,
  `refunded`) of which ticket; a ticket is a key of the payload's map when its
  confirmation is a fact. `created` says that the row exists. `inbox[kind]` and
  `toCreate` are the events not acked, `proc[kind]` what a handler is doing with
  which copy of the payload. `announced` is what `InternalOpsReadModelUpdated` was
  published for.
- *Steps.* `Read` (the SELECT), `Snapshot` (only `OnTicketBookingConfirmed`, whose
  SELECT is not in its transaction: the snapshot comes with the write), `Upsert`
  (the write, which locks the row, and the announcement), `Commit`, `Fails`. A commit
  refuses the write of every transaction that has a snapshot (REPEATABLE READ):
  their handlers are idle again and retry. An event that does not find the row or
  its ticket fails without any effect and is tried again: that is no step.
- *Events.* They are delivered in any order. A receipt and a print follow from the
  confirmation; a refund does too, since only the process manager sends `RefundTicket`,
  for confirmed tickets (`PutTicketRefund` sends a command that no handler has).

| Run | Checks | Bounds |
|---|---|---|
| `read_model` | `TypeOK`, `ReadModelInv`, `ShownIsAnnounced`, `TicketsStay`, and under fairness `EventsAreHandled`, `TicketsAreShown` | two tickets, two of the three kinds of event after the confirmation; one error, crash or lost ack at any point |
| `overridden` | finds `UpdatesAreNotOverridden` violated | two tickets |

The second ticket is what the stale copy needs: its confirmation is written back
over what was recorded of the first one. `TicketsStay` says why this never removes a
ticket: one handler alone adds tickets, so its copy, however old, has them all.
`TicketsAreShown` cannot be stated of the other facts: the stale copy may win.

*Fairness.* Each handler takes a step when it can. No event has to happen.

Not in the model: several bookings, the times and texts of the payload. The
migration calls the same handlers (see Migration).

## EventPipeline: from a transaction to the handlers

`EventPipeline.tla` is the way of an event: outbox, forwarder, the stream `events`,
splitter, one topic per name, a consumer group per handler; and the data lake.

- *State.* `outbox` and `offset` are in PostgreSQL, `inbox[h]` (the pending events of a
  consumer group) in Redis: a crash leaves them. `unread[s]` is what the subscriptions
  of the splitter and of the data lake have still to handle: they have no consumer
  group (`NewRedisSubscriber` gets none), so a crash empties it and what is published
  before they are subscribed again is not theirs. `subscribed` and `running` are the
  start of the service: the router subscribes its handlers in the order of a Go map,
  and `service.Run` starts the HTTP server when `router.Running()` says so.
- *Steps.* `Subscribe`, `Start`, `CommitTransaction` and `PublishDirectly` (requests),
  `Forward` (publish the next row) and `MoveOffset`, `Splitter`, `DataLake`, `Take` and
  `Handle` (a handler works on one event until it is acked). Every call may be made
  and its answer or ack lost (`Fault`); `Crash` may come at any point.
- *`Fails`* are the events a handler can never handle, as `OnBookingMade` of the process
  manager cannot handle a booking that belongs to no bundle.

| Run | Checks | Bounds |
|---|---|---|
| `pipeline` | `TypeOK`, `PipelineInv` (with `NothingLostBeforeCrash`, `NothingSkipped`), and under fairness `GroupsAreServed`, `EventsArrive` | two events from the outbox (a bundle's booking and a plain one), one from a request, one that a handler publishes; one fault |

Two rows of the outbox are enough for an offset that is moved too early to skip one;
one fault is one crash or one repetition, at every point of the way. That the loss
after a crash is real is why the properties mention it: `NothingLostBeforeCrash`
ends with the first crash, `EventsArrive` excuses one, while `NothingSkipped` and
`GroupsAreServed`, which depend on what survives, do not. `EventsArrive` follows an event
from the row in the outbox to its last handler.

*Fairness.* The router starts; forwarder, splitter, data lake and each handler take
their messages. No request has to come, nothing has to fail.

## Tickets: the life of a ticket

`Tickets.tla` is `POST /tickets-status`, the six event handlers of tickets, and
`RefundTicket`.

- *State.* Of a request its `answer`, `attempt` and `position` (the loop over its tickets);
  `published` (all events), `unread` (the stream `events`, from the first event that the
  splitter has not copied), `passed` (what it has copied), `inbox`, `commands`; and what the services hold: `tickets` (the table), `rows`
  (spreadsheets: append-only), `receipts` (by idempotency key), `files`, `voided`,
  `refunded`; `followUps` are the events the handlers publish.
- *Steps.* `PublishNext` publishes the event of one ticket; `PublishFails` and
  `UnknownStatus` leave the loop half-way, and the client may send the request again
  with the same `Idempotency-Key`. A handler's calls up to a failure are one step, as
  the calls of two handlers go to different services; a handler that fails without an
  effect is no step. `IssueReceipt`, `PrintTicket` and `RefundTicket` may stop after each
  of their calls. `Splitter` copies the next event to the groups of its handlers. `Crash`
  ends the requests under way and loses `unread`: the splitter has no consumer group and
  starts again at the end of the stream.
- The receipts API (external) issues one receipt per key; the files API may refuse a
  file, which `StoreTicketsInFile` takes for success (`RefuseFile`, `unstored`), whether it
  then publishes its event or fails to.

| Run | Checks | Bounds |
|---|---|---|
| `tickets` | `TypeOK`, `PassedIsPublished`, `OneReceiptPerRequest`, `EventsTellTheTruth`, and under fairness `TicketsAreProcessed`, `CanceledIsRemoved` | a request that confirms and cancels one ticket, sent at most twice; a request with an unknown status; one refund; one fault, which may be a crash |

One ticket is enough: the handlers treat tickets independently, and both of its
events are in one request, so that a failure may come between them. The theorems
are for all tickets and requests.

`TicketsAreProcessed` is what remains true although events may be lost: whatever fails,
all that follows from a confirmation or a cancellation happens in the end, unless every
event of it was still in front of the splitter when the service went down. Such a
request may have been answered with 200 (`PassedIsPublished` speaks of what is published,
not of what arrives).

*Fairness.* The service answers requests, the splitter and each handler handle their
messages; no client has to send a request. `RemoveCanceledTicket` may run before `StoreTickets`: the
ticket then comes back, and `CanceledIsRemoved` says only what the code promises, that
each cancellation is handled and removes what is there.

## The components that stand alone

`Components.tla` instantiates the modules below side by side: they share nothing, the
first state chooses with `which` the one that moves, all others keep their initial
states. Fairness is stated of each component's steps together with `which`, so that
the fairness of one says nothing about the behaviours of another. `MCComponents.tla`
gives its constants their values for TLC; the theorems are about `Components`, for all
values. The run
`components` checks the properties of all of them, and in one property, `WorkEnds`,
what each owes in the end (marked † below); `cancelled_order` is the finding.

| Module | State and steps | Properties | Bounds |
|---|---|---|---|
| `Orders` | `POST /orders`: per product `ReadStock` (on another connection), `Snapshot` and `Take` (locks the row), then `InsertOrder` (which writes the answer), `Commit`; `Refused` by the database; `AddStock`; the command of the removed saga | `StockIsAccounted`, `OrdersMatchProducts`, `RequestsEnd`† | two products, one delivered later; three requests for two orders (one id is sent twice), one quantity negative; one command; one fault |
| `PoisonQueueCLI` | the topic, the offset, the command and its position: `PassOn`, `Republish`, `Ack`, `Found`, `SeenAgain`, `Requeue`, `Timeout`, `Crash`; `Poison` adds messages meanwhile | `NothingIsLost`, `ReportsAreTrue`, `CommandsEnd`† | two messages, three commands, one fault |
| `Migration` | `Store` events, `GetAll` in any order, `MigrateEvent`, `MigrateFails` | `ReplayIsTruthful`; `DoneIsComplete` is proved | six events of a booking with two tickets, one of an unknown version; two runs; one fault |
| `AlertVersions` | two topics, the map of alerts, `Handle`, `Ignore`, `Restart` | `UpdatesAreInOrder`, `UpdatesArrive`† | two alerts, three versions, one fault |
| `Invoices` | an invoice in a map; a handler begins with a copy and writes it back; `ConcurrentMapWrites` ends the process | `InvoiceMatchesEvents`, `PaymentsAreCounted`† | two payments, two lost acks |
| `ProcessManager` | the bundle, its commands and events; update and send are one step, the rollback is two | `RollbackUndoesAll`, `BundleEnds`† | two tickets, one fault |
| `Teams` | the maps, two streams; `OnPlayerJoined` finds or makes a team, the router publishes; `Restart` loses the maps | `PlayersAreInTheirTeam`, `ScoreboardsArrive`† | three players of two teams, two faults |
| `SmokeSensor` | the readings in order, the alarm | `AlarmFollowsSensor`, `ReadingsAreHandled`† | four readings, two faults |

What the bounds are for: the second product, delivered later, is the one that is
missing, so that an order is cancelled after it has taken the first; two requests for
one order race for its row; requests that take products in opposite order wait for
each other. Two messages are a first and another one, so that a command sees its
first message again with something in between. Two tickets and two kinds of events
after a confirmation give every order of a replay. Three versions on two topics let
the third overtake the second. One red team of two players has one who creates and
one who finds; the second fault brings the first player again after a restart.

What is conditional, and why:

- That no product is sold twice, the second part of `StockIsAccounted`, ends when two
  transactions are open at the same time: the stock that decides is read outside of them.
  Quantities of orders and commands may be negative: `POST /orders` checks no sign.
- `ReportsAreTrue` is about runs without a fault; requeue may lose the message it has
  acked, which `NothingIsLost` counts as `unpublished`. (requeue publishes to the topic
  whose name is the metadata key `topic_poisoned`, not to the topic the message came
  from; the model has only one such topic.)
- `UpdatesArrive` excuses a version that overtook its predecessor, which is dropped
  for good, and failures: the map is changed before the event is published.
- `InvoiceMatchesEvents` ends when two handlers overlap.
- `RollbackUndoesAll` and `BundleEnds` are about runs without a fault: every repetition
  of a handler sends its command with a new idempotency key, and a confirmation that
  comes again is stored again.
- `PlayersAreInTheirTeam` ends with a restart, `ScoreboardsArrive` excuses a team whose
  `team_created` could not be published.

*Fairness.* A request goes on, a command that was started goes on, some handler with a
message does. In `ProcessManager` the services answer commands as well: a bundle
cannot end without them. Nobody has to place an order, start a command, publish or
fail.

## Proofs

`VipBundle_proofs.tla`, from `ConstantsAssumption` (finitely many tickets, bounds
are natural numbers):

- `TypeCorrect`: `Spec => []TypeOK`.
- `SagaInvariant`: `Spec => []SagaInv`. `SagaOrder` alone is not inductive: a handler
  orders the taxi because of its *copy* of the row. The strengthening says of every
  place that can hold such a claim (the row, every handler's copy, every message to
  the process manager) that the booking was made; bookings are never unmade, so
  stale copies stay true.
- `SagaOrderHolds`, `FinalizedMeansBookedHolds`: its consequences.
- `CompensatesOnlyWhatHappenedHolds`: `Spec => []CompensatesOnlyWhatHappened`. A rollback
  takes its commands from a copy of the row, and sends them one by one. The
  strengthening, `UndoInv`, says that the row, every copy, every command still to be
  sent and every command under way names a confirmed ticket or a booked flight.
- `RollbackCompleteHolds`, `RefundsAwaitConfirmationsHolds`: `Spec => []...` for both, whose
  condition `redeliveries = 0` is their own. That a failed bundle has undone everything
  depends on what the whole saga did before, in five parts (`FirstInv`, inductive with
  the types, `SagaInv` and `UndoInv`): the saga is at one step at a time (`OneAtATime`:
  no second message of a step waits, and nothing can book a flight any more once the
  taxi or the rollback has begun); a handler at work has its message still in its inbox
  (`AtWork`); the row knows of every booked flight but the one whose event is being
  handled (`RowIsComplete`), as nothing is lost before the first crash; no copy lists a ticket twice (`ListedInv`, so that by the
  pigeonhole principle a list as long as the number of tickets has them all); and what a
  rollback has sent, with what it has still to send, undoes everything (`RollbackInv`).
  The handlers of the rollback run side by side, and each of them is covered.
- `FinalizedIsStableHolds`: the action property, from the same invariant: every copy
  that a handler may still write over a final row is final itself.

`Bookings_proofs.tla`, from `BookingsAssumption` (bookings have a show and at least
one ticket, as both HTTP handlers check; seats are natural numbers):

- `TypeCorrect`: `Spec => []TypeOK`.
- `BookingsInvariant`: `Spec => []BookingsInv`. No overbooking is not inductive: the
  transaction that commits has checked the seats in an earlier state. The
  strengthening, `SnapshotIsGood`, relates its snapshot to the rows: while no
  booking of the show was committed since, the seats it found are still free.
- `NoOverbookingHolds`, `RejectedIsNotBookedHolds`: its consequences.
- `LostOnlyToAnotherHolds`: `Spec => []LostOnlyToAnother` when `"commit"` is not among the
  faults, so that a commit fails only because of a conflict. The strengthening,
  `LostInv`, adds the calls of Create that have returned and were not answered yet:
  what they have lost, they have lost already.
- `Refinement`: `Spec => BooksAtomically`. `Commit` is the booking of ShowSeats, `PostShows`
  its opening of a show, every other step stutters.

`OpsReadModel_proofs.tla`, from `FaultsAssumption` (the bound is a natural number):

- `TypeCorrect`: `Spec => []TypeOK`.
- `ReadModelInvariant`: `Spec => []ReadModelInv`, inductive with the types. Its parts need
  each other: what a commit writes is truthful because the copy was; the copy of a
  handler that reads in its transaction is the row (`SnapshotIsCurrent`), because a
  commit refuses the others and only one can hold the lock; the copy of
  `OnTicketBookingConfirmed` has all tickets of the row because nobody else adds one.
- `TicketsStayHolds`, `OnlyConfirmationsOverwriteHolds`: action properties that follow
  from it, for the one step that changes the row.
- `ShownIsAnnouncedHolds`: with `AnnouncedInv`, which says the same of every copy.

`EventPipeline_proofs.tla`, from `PipelineAssumption`:

- `TypeCorrect`, `PipelineInvariant`: `Spec => []PipelineInv`. `NothingLostBeforeCrash` is not
  inductive: an event published before the splitter is subscribed would be lost. The
  strengthening says that before the first crash nothing is published until everybody
  is subscribed (`QuietStart`), that a row published but not yet passed by the offset is
  in the stream, and that whatever waits anywhere was caused (`OnlyCausedEvents`).
- `NothingLostBeforeCrashHolds`, `NothingSkippedHolds`: its consequences.

`Tickets_proofs.tla`, from `TicketsAssumption`:

- `TypeCorrect`.
- `PassedIsPublishedHolds`: inductive because it also speaks of the position of a request
  that is still open.
- `EventsTellTheTruthHolds`: inductive, as receipts, files, voids and refunds only grow.
- `OneReceiptPerRequestHolds`, for finitely many requests: `ReceiptsInv` relates every
  receipt to a confirmation in the request of its key, through the events and inboxes
  that lead to it; the receipts of a ticket then map one to one into the requests.

`PoisonQueueCLI_proofs.tla`, from `Bounds` (the bounds are natural numbers):

- `TypeCorrect`.
- `NothingIsLostHolds`: for any messages, commands and faults. The strengthening,
  `QueueInv`, says that a message has its copy behind it whenever it is about to be
  acked.
- `ReportsAreTrueHolds`, when the empty string, which the code takes for "no message yet",
  is the id of no message. A command knows only that it has seen its first message
  again. `ReportInv` says what this proves: no message is twice in the part of the queue
  it still has to pass, everything that was there at the start and was not seen yet lies
  ahead of it, and its first message waits behind all of that. Messages that are
  poisoned meanwhile come after it.

`Components_proofs.tla` is about `Components`, and so about all of its modules. A step of
`Components` is a step of the one that was chosen and leaves the others alone, so each
invariant is proved of its module's actions. The theorems about the poison queue are
taken from its own module, through an instance. Hypotheses, each only where it is needed:
`Bounds` (natural numbers), `OrderInputs` (requests, deliveries and commands name known
products, in quantities of any sign, deliveries bring natural numbers, the stock starts
at integers),
`PaymentInputs` (amounts are natural numbers), and that there are finitely many tickets.

- `TypeCorrect`: `TypeOK` of all modules.
- `NothingIsLostHolds`, `ReportsAreTrueHolds`: as above.
- `ReplayIsTruthfulHolds`, `DoneIsCompleteHolds` (Migration): for every data lake and order.
  The second needs that what was read and is no longer to do is applied (`RunInv`).
- `AlarmFollowsSensorHolds` (SmokeSensor): inductive with the types.
- `UpdatesAreInOrderHolds` (AlertVersions): `AlertInv` adds that an event is in the topic of
  its kind and that, until the map is lost, no update is newer than the map.
- `PlayersAreInTheirTeamHolds` (Teams): `MapsInv` speaks of a player on all of his way, from
  the map to the stream to the team: he is queued once, a handler that finds his team
  finds the only one of its name, and a second entry of him costs a fault.
- `OrdersMatchProductsHolds` (Orders): `OrdersInv` follows the loop over the products of
  every transaction (what is left and what is taken make up the request) and says that
  an order whose row is about to be committed has none yet, and only one such
  transaction.
- `RollbackUndoesAllHolds` (ProcessManager): `RollbackInv` says that one thing goes on at a
  time: there are a number `k` of commands sent and a `step` from which all queues, the
  copy of the bundle and the state of the rollback follow (`SagaAt`). Each action moves
  on to the next of them. That a rollback has all tickets is the pigeonhole principle
  again.

`Totals_proofs.tla` proves the two properties that add up numbers, for any number of
payments, deliveries, orders and commands:

- The sums of the models are the library's folds over sets, which pick the elements in an
  order that nobody knows. `SumExists`, `SumsAgree` and `SumInAnyOrder` show that the sum
  over a finite set exists, is unique, and does not depend on that order; `SumOfMore` is
  what one more element adds. They rest on `Induction` over the natural numbers, stated
  for a set of them and proved by a pigeonhole argument: the library states
  it for an operator, which the provers cannot instantiate.
- `InvoiceMatchesEventsHolds` (Invoices), for finitely many payments. `MatchInv`: until two
  handlers overlap, one is at work, and its copy is the invoice with what its event adds.
- `StockIsAccountedHolds` (Orders), for finitely many commands and a stock that does not
  start below zero (`StockInputs`). `BooksInv` balances the accounts product by product, also
  in the middle of a transaction; `SoldInv` says that, until two transactions overlap, one
  is open and what it has read is still there.

### Left to TLC

Liveness under fairness is beyond this prover: `BundleCompletes`, `CommandIsAcked`,
`EventsAreHandled`, `TicketsAreShown`, `EventsArrive`, `GroupsAreServed`,
`TicketsAreProcessed`, `CanceledIsRemoved` and `WorkEnds` are model-checked, not proved. So
are the findings: a counterexample is enough for them.

## Findings

The first three compare the service with what the tests of
`03-modeling-process-manager` state of the same process manager:

1. `UpdateByID` reads outside of its transaction and loses a ticket
   (`db/vip_bundle_respository.go:78`); the rollback then waits forever.
   Run `lost_ticket`.
2. Tickets are refunded more than once, under new idempotency keys: `BookTaxi` is
   retried after it has published its failure (`command/book_taxi.go:25`). For the
   same reason a taxi may be booked for a bundle that has failed. Run
   `double_refund`.
3. A full show never fails its bundle (`command/book_show_tickets.go:22`). Run
   `full_show`.
4. What one event recorded in the read model, `OnTicketBookingConfirmed` can take away
   (`db/booking_read_model_repository.go:280`), against the comment at line 180. Run
   `overridden`.
5. An order that is cancelled for want of one product keeps what it had taken of the
   products before it (`02-removing-sagas/orders/http.go:65`); its test expects an
   order of what is left to be shipped. Run `cancelled_order`.

## Not modelled

- `14-message-ordering/05-independent-updates`: its handlers have no version or time to
  compare, so the alert is triggered or resolved by whatever comes last; `02-one-topic`
  and `03-partition-per-entity` configure a topic and a partition key.
- `20-fault-tolerance/02-throttling` and `03-circuit-breaker`: one middleware of the
  library each, without state in this code.
- `10-at-least-once-delivery`: a duplicate looked up in a slice, a key put in a header;
  the same ideas are modelled where they meet failures (`Invoices`, `Tickets`).
- `03-message-broker/02`, `03`, `05`, `02-async`: publishing, subscribing, a group name, a
  call repeated in a goroutine until it succeeds.
- `04-router`, `05-events`, `09-cqrs-events`, `12-cqrs-commands`, `19-tracing` and the rest of
  `11-outbox`: configuration of the library, marshalling and spans.
- `PUT /ticket-refund` of the service: it sends an *event* on the *command* bus, to a topic
  no handler reads; no state changes.
- The dead nation client, the mocks, routes, entities: they keep nothing.
- Queries (`GET`), which change nothing.

## Running

    tlc -config VipBundle_redelivery.cfg MCVipBundle.tla
    tlc -config Bookings_concurrent.cfg MCBookings.tla
    tlc -config OpsReadModel_safe.cfg MCOpsReadModel.tla
    tlc -config EventPipeline.cfg MCEventPipeline.tla
    tlc -config Tickets.cfg MCTickets.tla
    tlc -config Components.cfg MCComponents.tla
    tlapm Tickets_proofs.tla          (and the other *_proofs.tla)

`PROJECT.json` lists every run with its module and configuration. Deadlock is not
checked: every model stops when its bounds are reached and its work is done; the
liveness properties say what must have happened by then.

The operators named `<Definition>_<Bug>` are mutants: `<Definition>` with a plausible
bug. Replacing the definition by its mutant makes a property of a run fail, which
shows that the property depends on the code it is about.
