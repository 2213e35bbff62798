----------------------------- MODULE Components -----------------------------
(***************************************************************************)
(* The small components that share nothing with one another: the first     *)
(* state chooses which of them runs, the others stay in their initial      *)
(* states.                                                                 *)
(***************************************************************************)
EXTENDS Integers, Sequences, FiniteSets

CONSTANTS
  Products, Orders, Requests, OrderOf, Quantity, InitialStock, Deliveries, Commands,
  CommandQuantity,
  Messages, MaxCommands,
  LakeEvents, MaxRuns,
  Alerts, MaxVersion,
  Payments, AmountOf,
  Tickets,
  Players, TeamOf,
  MaxReadings,
  MaxFaults  \* bound: the faults of each component

VARIABLES which,
  stock, orders, orderProducts, tx, answer, delivered, removed, command, outcomes,
  overlapped, orderFaults,
  queue, offset, poisoned, takenOut, requeued, unpublished, cli, commandsRun, cliFaults,
  lake, migration, replayed, todo, shown, runs, migrationFaults,
  emitted, topic, alerts, updates, tooEarly, restarted, alertFaults,
  happened, invoiceInbox, invoice, payedInvoices, proc, raced, crashed, invoiceFaults,
  vb, sent, pending, published, inbox, rollingBack, sagaFaults,
  players, teams, request, playerJoined, teamCreated, returned, created, unannounced,
  scoreboards, restarts, teamFaults,
  sensor, acked, alarm, alarmFaults

ordersVars == <<stock, orders, orderProducts, tx, answer, delivered, removed, command,
                outcomes, overlapped, orderFaults>>
queueVars == <<queue, offset, poisoned, takenOut, requeued, unpublished, cli, commandsRun,
               cliFaults>>
migrationVars == <<lake, migration, replayed, todo, shown, runs, migrationFaults>>
alertVars == <<emitted, topic, alerts, updates, tooEarly, restarted, alertFaults>>
invoiceVars == <<happened, invoiceInbox, invoice, payedInvoices, proc, raced, crashed,
                 invoiceFaults>>
bundleVars == <<vb, sent, pending, published, inbox, rollingBack, sagaFaults>>
teamVars == <<players, teams, request, playerJoined, teamCreated, returned, created,
              unannounced, scoreboards, restarts, teamFaults>>
sensorVars == <<sensor, acked, alarm, alarmFaults>>

O == INSTANCE Orders WITH MaxFaults <- MaxFaults["orders"]
C == INSTANCE PoisonQueueCLI WITH removed <- takenOut, MaxFaults <- MaxFaults["queue"]
M == INSTANCE Migration WITH MaxFaults <- MaxFaults["migration"]
A == INSTANCE AlertVersions WITH MaxFaults <- MaxFaults["alerts"]
I == INSTANCE Invoices WITH
  inbox <- invoiceInbox, overlapped <- raced, MaxFaults <- MaxFaults["invoices"]
P == INSTANCE ProcessManager WITH MaxFaults <- MaxFaults["bundle"]
T == INSTANCE Teams WITH MaxFaults <- MaxFaults["teams"]
S == INSTANCE SmokeSensor WITH MaxFaults <- MaxFaults["sensor"]

-----------------------------------------------------------------------------
Components == {"orders", "queue", "migration", "alerts", "invoices", "bundle",
               "teams", "sensor"}

Init ==
  /\ which \in Components
  /\ O!Init /\ C!Init /\ M!Init /\ A!Init /\ I!Init /\ P!Init /\ T!Init /\ S!Init

Next ==
  \/ /\ which = "orders" /\ O!Next
     /\ UNCHANGED <<which, queueVars, migrationVars, alertVars, invoiceVars, bundleVars,
                  teamVars, sensorVars>>
  \/ /\ which = "queue" /\ C!Next
     /\ UNCHANGED <<which, ordersVars, migrationVars, alertVars, invoiceVars, bundleVars,
                  teamVars, sensorVars>>
  \/ /\ which = "migration" /\ M!Next
     /\ UNCHANGED <<which, ordersVars, queueVars, alertVars, invoiceVars, bundleVars,
                  teamVars, sensorVars>>
  \/ /\ which = "alerts" /\ A!Next
     /\ UNCHANGED <<which, ordersVars, queueVars, migrationVars, invoiceVars, bundleVars,
                  teamVars, sensorVars>>
  \/ /\ which = "invoices" /\ I!Next
     /\ UNCHANGED <<which, ordersVars, queueVars, migrationVars, alertVars, bundleVars,
                  teamVars, sensorVars>>
  \/ /\ which = "bundle" /\ P!Next
     /\ UNCHANGED <<which, ordersVars, queueVars, migrationVars, alertVars, invoiceVars,
                  teamVars, sensorVars>>
  \/ /\ which = "teams" /\ T!Next
     /\ UNCHANGED <<which, ordersVars, queueVars, migrationVars, alertVars, invoiceVars,
                    bundleVars, sensorVars>>
  \/ /\ which = "sensor" /\ S!Next
     /\ UNCHANGED <<which, ordersVars, queueVars, migrationVars, alertVars, invoiceVars,
                    bundleVars, teamVars>>

vars == <<which, ordersVars, queueVars, migrationVars, alertVars, invoiceVars, bundleVars,
          teamVars, sensorVars>>

Spec == Init /\ [][Next]_vars

\* The fairness that each module states, of the component that runs.
FairSpec ==
  /\ Spec
  /\ WF_ordersVars(which = "orders" /\ \E r \in Requests : O!Continue(r))
  /\ WF_queueVars(which = "queue" /\ C!RunCommand)
  /\ WF_alertVars(which = "alerts" /\ \E k \in A!Topics : A!Deliver(k))
  /\ WF_invoiceVars(which = "invoices" /\ \E h \in I!Handlers : I!Handle(h))
  /\ WF_bundleVars(which = "bundle" /\ P!Next)
  /\ WF_teamVars(which = "teams" /\ T!OnPlayerJoined)
  /\ WF_teamVars(which = "teams" /\ T!OnTeamCreated)
  /\ WF_sensorVars(which = "sensor" /\ (S!StartAlarm \/ S!StopAlarm))

-----------------------------------------------------------------------------
(* The properties of the components, each stated in its module *)

TypeOK == O!TypeOK /\ C!TypeOK /\ M!TypeOK /\ A!TypeOK /\ I!TypeOK /\ P!TypeOK
          /\ T!TypeOK /\ S!TypeOK

StockIsAccounted == O!StockIsAccounted
OrdersMatchProducts == O!OrdersMatchProducts
CancelledTakesNothing == O!CancelledTakesNothing

NothingIsLost == C!NothingIsLost
ReportsAreTrue == C!ReportsAreTrue

ReplayIsTruthful == M!ReplayIsTruthful

UpdatesAreInOrder == A!UpdatesAreInOrder

InvoiceMatchesEvents == I!InvoiceMatchesEvents

RollbackUndoesAll == P!RollbackUndoesAll

PlayersAreInTheirTeam == T!PlayersAreInTheirTeam

AlarmFollowsSensor == S!AlarmFollowsSensor

\* What each component owes in the end, in spite of deadlocks, messages out of order,
\* failures that are retried and restarts: requests, commands and bundles end; updates,
\* payments, scoreboards and readings arrive.
WorkEnds ==
  /\ O!RequestsEnd
  /\ C!CommandsEnd
  /\ A!UpdatesArrive
  /\ I!PaymentsAreCounted
  /\ which = "bundle" => P!BundleEnds
  /\ T!ScoreboardsArrive
  /\ S!ReadingsAreHandled

=============================================================================
