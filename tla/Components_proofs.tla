-------------------------- MODULE Components_proofs --------------------------
(***************************************************************************)
(* Proofs about the small components, for all constants.  What adds up     *)
(* numbers is in Totals_proofs.                                            *)
(***************************************************************************)
EXTENDS Components, FiniteSetTheorems, FunctionTheorems, TLAPS

CP == INSTANCE PoisonQueueCLI_proofs WITH
  removed <- takenOut, MaxFaults <- MaxFaults["queue"]

\* The bounds of the model are natural numbers.
Bounds ==
  /\ MaxFaults \in [Components -> Nat]
  /\ MaxCommands \in Nat
  /\ MaxRuns \in Nat
  /\ MaxVersion \in Nat
  /\ MaxReadings \in Nat

LEMMA FaultBounds ==
  ASSUME Bounds
  PROVE  /\ MaxFaults["orders"] \in Nat /\ MaxFaults["queue"] \in Nat
         /\ MaxFaults["migration"] \in Nat /\ MaxFaults["alerts"] \in Nat
         /\ MaxFaults["invoices"] \in Nat /\ MaxFaults["bundle"] \in Nat
         /\ MaxFaults["teams"] \in Nat /\ MaxFaults["sensor"] \in Nat
BY DEF Bounds, Components

-----------------------------------------------------------------------------
(* A step is one of the component that was chosen; the others stay as they are. *)

LEMMA OrdersSteps == [Next]_vars => O!Next \/ UNCHANGED O!vars
BY DEF Next, vars, ordersVars, O!vars, O!requests, O!saga

LEMMA QueueSteps == [Next]_vars => C!Next \/ UNCHANGED C!vars
BY DEF Next, vars, queueVars, C!vars, C!topics, C!ledger

LEMMA MigrationSteps == [Next]_vars => M!Next \/ UNCHANGED M!vars
BY DEF Next, vars, migrationVars, M!vars

LEMMA AlertSteps == [Next]_vars => A!Next \/ UNCHANGED A!vars
BY DEF Next, vars, alertVars, A!vars

LEMMA InvoiceSteps == [Next]_vars => I!Next \/ UNCHANGED I!vars
BY DEF Next, vars, invoiceVars, I!vars

LEMMA BundleSteps == [Next]_vars => P!Next \/ UNCHANGED P!vars
BY DEF Next, vars, bundleVars, P!vars

LEMMA TeamSteps == [Next]_vars => T!Next \/ UNCHANGED T!vars
BY DEF Next, vars, teamVars, T!vars, T!maps, T!streams

LEMMA SensorSteps == [Next]_vars => S!Next \/ UNCHANGED S!vars
BY DEF Next, vars, sensorVars, S!vars

-----------------------------------------------------------------------------
(* The poison queue has proofs of its own.  Its instances here and in Components have the
   same definitions.                                                                      *)

LEMMA QueueSpec == Spec => CP!Spec
<1>1. Init => CP!Init
  BY DEF Init, C!Init, CP!Init, C!NoMessage, CP!NoMessage
<1>2. C!Next => CP!Next
  BY SMT
  DEF C!Next, CP!Next, C!Poison, CP!Poison, C!Start, CP!Start, C!RunCommand,
      CP!RunCommand,
      C!Stop, CP!Stop, C!Found, CP!Found, C!SeenAgain, CP!SeenAgain, C!PassOn, CP!PassOn,
      C!Republish, CP!Republish, C!Ack, CP!Ack, C!Requeue, CP!Requeue, C!Timeout, CP!Timeout,
      C!Crash, CP!Crash, C!Fault, CP!Fault, C!HasOffered, CP!HasOffered, C!Offered,
      CP!Offered, C!IsWanted, CP!IsWanted, C!IsFirstAgain, CP!IsFirstAgain, C!NoMessage,
      CP!NoMessage, C!Pending, CP!Pending, C!topics, CP!topics, C!ledger, CP!ledger
<1>3. C!vars = CP!vars
  BY DEF C!vars, CP!vars, C!topics, CP!topics, C!ledger, CP!ledger
<1>4. UNCHANGED C!vars => UNCHANGED CP!vars
  BY DEF C!vars, CP!vars, C!topics, CP!topics, C!ledger, CP!ledger
<1>5. [Next]_vars => [CP!Next]_CP!vars
  BY <1>2, <1>4, QueueSteps
<1> QED
  BY <1>1, <1>5, PTL DEF Spec, CP!Spec

\* Wherever a command is stopped and whatever fails, every poisoned message waits in the
\* topic, was removed or requeued by its id, or is the one requeue failed to publish.
THEOREM NothingIsLostHolds == Bounds => (Spec => []NothingIsLost)
<1> SUFFICES ASSUME Bounds PROVE Spec => []NothingIsLost
  OBVIOUS
<1>1. CP!Bounds
  BY DEF Bounds, CP!Bounds, Components
<1>2. CP!NothingIsLost => NothingIsLost
  BY DEF NothingIsLost, C!NothingIsLost, CP!NothingIsLost, C!Pending, CP!Pending
<1> QED
  BY <1>1, <1>2, QueueSpec, CP!NothingIsLostHolds, PTL

\* While nothing fails, what a command reports is true, although messages are added while it
\* runs.  An id is never the empty one, which stands for no message.
THEOREM ReportsAreTrueHolds ==
  Bounds /\ C!NoMessage \notin Messages => (Spec => []ReportsAreTrue)
<1> SUFFICES ASSUME Bounds, C!NoMessage \notin Messages PROVE Spec => []ReportsAreTrue
  OBVIOUS
<1>1. CP!Bounds /\ CP!NoMessage \notin Messages
  BY DEF Bounds, CP!Bounds, Components, C!NoMessage, CP!NoMessage
<1>2. CP!ReportsAreTrue => ReportsAreTrue
  BY
  DEF ReportsAreTrue, C!ReportsAreTrue, CP!ReportsAreTrue, C!Pending, CP!Pending, C!Range,
         CP!Range, C!IsInjective, CP!IsInjective
<1> QED
  BY <1>1, <1>2, QueueSpec, CP!ReportsAreTrueHolds, PTL

-----------------------------------------------------------------------------
(* The migration *)

LEMMA MigrationInit == Bounds /\ M!Init => M!TypeOK
BY FaultBounds DEF M!Init, M!TypeOK, Bounds

LEMMA MigrationStep == Bounds /\ M!TypeOK /\ [Next]_vars => M!TypeOK'
<1> SUFFICES ASSUME Bounds, M!TypeOK, [M!Next]_M!vars PROVE M!TypeOK'
  BY MigrationSteps
<1> USE FaultBounds DEF M!TypeOK, Bounds
<1>1. ASSUME NEW e \in LakeEvents, M!Store(e) PROVE M!TypeOK'
  BY <1>1 DEF M!Store, M!AllFacts, M!FactOf
<1>2. ASSUME NEW e \in LakeEvents, M!MigrateEvent(e) PROVE M!TypeOK'
  BY <1>2 DEF M!MigrateEvent, M!AllFacts, M!FactOf
<1>3. ASSUME NEW e \in LakeEvents, M!MigrateFails(e) PROVE M!TypeOK'
  BY <1>3 DEF M!MigrateFails, M!AllFacts, M!FactOf, M!Fault
<1>4. CASE M!Start
  BY <1>4 DEF M!Start, M!AllFacts, M!FactOf
<1>5. CASE M!GetAll
  BY <1>5 DEF M!GetAll, M!AllFacts, M!FactOf
<1>6. CASE M!GetAllFails
  BY <1>6 DEF M!GetAllFails, M!Fault, M!AllFacts, M!FactOf
<1>7. CASE M!Finish
  BY <1>7 DEF M!Finish, M!AllFacts, M!FactOf
<1>8. CASE UNCHANGED M!vars
  BY <1>8 DEF M!vars, M!AllFacts, M!FactOf
<1> QED
  BY <1>1, <1>2, <1>3, <1>4, <1>5, <1>6, <1>7, <1>8 DEF M!Next

(* ReplayIsTruthful is inductive once what is replayed is known to be in the data lake. *)

ReplayInv ==
  /\ todo \subseteq lake
  /\ M!ReplayIsTruthful

LEMMA FactsComeTrue ==
  ASSUME ReplayInv, NEW e \in todo, M!Found(e),
         shown' = shown \cup {M!FactOf(e)}, lake' = lake
  PROVE  M!ReplayIsTruthful'
<1> SUFFICES ASSUME NEW fact \in shown'
             PROVE  /\ \E stored \in lake : M!FactOf(stored) = fact
                    /\ fact[1] # "made" => \E row \in shown' : row[1] = "made"
                    /\ fact[1] \notin {"made", "confirmed"} =>
                         <<"confirmed", fact[2]>> \in shown'
  BY DEF M!ReplayIsTruthful
<1>1. CASE fact \in shown
  BY <1>1 DEF ReplayInv, M!ReplayIsTruthful
<1>2. CASE fact = M!FactOf(e)
  <2>1. fact[1] = e.kind /\ fact[2] = e.ticket
    BY <1>2 DEF M!FactOf
  <2>2. e \in lake
    BY DEF ReplayInv
  <2>3. CASE e.kind = "made"
    BY <1>2, <2>1, <2>2, <2>3
  <2>4. CASE e.kind = "confirmed"
    BY <1>2, <2>1, <2>2, <2>4 DEF M!Found
  <2>5. CASE e.kind \notin {"made", "confirmed"}
    <3>1. <<"confirmed", e.ticket>> \in shown
      BY <2>5 DEF M!Found
    <3>2. \E row \in shown : row[1] = "made"
      BY <3>1 DEF ReplayInv, M!ReplayIsTruthful
    <3> QED
      BY <1>2, <2>1, <2>2, <3>1, <3>2
  <2> QED
    BY <2>3, <2>4, <2>5
<1> QED
  BY <1>1, <1>2

LEMMA ReplayStep == ReplayInv /\ [Next]_vars => ReplayInv'
<1> SUFFICES ASSUME ReplayInv, [M!Next]_M!vars PROVE ReplayInv'
  BY MigrationSteps
<1>1. ASSUME NEW e \in LakeEvents, M!Store(e) PROVE ReplayInv'
  BY <1>1 DEF M!Store, ReplayInv, M!ReplayIsTruthful
<1>2. ASSUME NEW e \in LakeEvents, M!MigrateEvent(e) PROVE ReplayInv'
  <2>1. M!ReplayIsTruthful'
    BY <1>2, FactsComeTrue DEF M!MigrateEvent
  <2> QED
    BY <1>2, <2>1 DEF M!MigrateEvent, ReplayInv
<1>3. ASSUME NEW e \in LakeEvents, M!MigrateFails(e) PROVE ReplayInv'
  <2>1. CASE shown' = shown
    BY <1>3, <2>1 DEF M!MigrateFails, ReplayInv, M!ReplayIsTruthful
  <2>2. CASE M!Found(e) /\ shown' = shown \cup {M!FactOf(e)}
    <3>1. M!ReplayIsTruthful'
      BY <1>3, <2>2, FactsComeTrue DEF M!MigrateFails
    <3> QED
      BY <1>3, <3>1 DEF M!MigrateFails, ReplayInv
  <2> QED
    BY <1>3, <2>1, <2>2 DEF M!MigrateFails
<1>4. CASE M!Start
  BY <1>4 DEF M!Start, ReplayInv, M!ReplayIsTruthful
<1>5. CASE M!GetAll
  BY <1>5 DEF M!GetAll, ReplayInv, M!ReplayIsTruthful
<1>6. CASE M!GetAllFails
  BY <1>6 DEF M!GetAllFails, ReplayInv, M!ReplayIsTruthful
<1>7. CASE M!Finish
  BY <1>7 DEF M!Finish, ReplayInv, M!ReplayIsTruthful
<1>8. CASE UNCHANGED M!vars
  BY <1>8 DEF M!vars, ReplayInv, M!ReplayIsTruthful
<1> QED
  BY <1>1, <1>2, <1>3, <1>4, <1>5, <1>6, <1>7, <1>8 DEF M!Next

\* In whatever order the events come, and however many runs end half-way, nothing of a
\* ticket is shown without its booking and its confirmation.
THEOREM ReplayIsTruthfulHolds == Spec => []ReplayIsTruthful
<1>1. Init => ReplayInv
  BY DEF Init, M!Init, ReplayInv, M!ReplayIsTruthful
<1>2. ReplayInv => ReplayIsTruthful
  BY DEF ReplayInv, ReplayIsTruthful
<1> QED
  BY <1>1, <1>2, ReplayStep, PTL DEF Spec

(* What a run has passed is applied; the invariant behind DoneIsComplete. *)

RunInv ==
  /\ migration = "done" => todo = {}
  /\ migration \in {"running", "done"} =>
       \A e \in replayed \ todo : M!Known(e) /\ M!FactOf(e) \in shown

LEMMA RunStep == RunInv /\ [Next]_vars => RunInv'
<1> SUFFICES ASSUME RunInv, [M!Next]_M!vars PROVE RunInv'
  BY MigrationSteps
<1> USE DEF RunInv
<1>0. \A e : M!Known(e)' = M!Known(e) /\ M!FactOf(e)' = M!FactOf(e)
  BY DEF M!Known, M!FactOf
<1>1. ASSUME NEW e \in LakeEvents, M!Store(e) PROVE RunInv'
  BY <1>0, <1>1 DEF M!Store
<1>2. ASSUME NEW e \in LakeEvents, M!MigrateEvent(e) PROVE RunInv'
  <2>1. \A other \in replayed' \ todo' : other = e \/ other \in replayed \ todo
    BY <1>2 DEF M!MigrateEvent
  <2> QED
    BY <1>0, <1>2, <2>1 DEF M!MigrateEvent
<1>3. ASSUME NEW e \in LakeEvents, M!MigrateFails(e) PROVE RunInv'
  BY <1>3 DEF M!MigrateFails
<1>4. CASE M!Start
  BY <1>4 DEF M!Start
<1>5. CASE M!GetAll
  BY <1>5 DEF M!GetAll
<1>6. CASE M!GetAllFails
  BY <1>6 DEF M!GetAllFails
<1>7. CASE M!Finish
  BY <1>0, <1>7 DEF M!Finish
<1>8. CASE UNCHANGED M!vars
  BY <1>0, <1>8 DEF M!vars
<1> QED
  BY <1>1, <1>2, <1>3, <1>4, <1>5, <1>6, <1>7, <1>8 DEF M!Next

\* A run that reports success has applied all it has read, for every data lake.
THEOREM DoneIsCompleteHolds == Spec => []M!DoneIsComplete
<1>1. Init => RunInv
  BY DEF Init, M!Init, RunInv
<1>2. RunInv => M!DoneIsComplete
  BY DEF RunInv, M!DoneIsComplete
<1> QED
  BY <1>1, <1>2, RunStep, PTL DEF Spec

-----------------------------------------------------------------------------
(* The smoke sensor *)

LEMMA SensorAckType ==
  ASSUME Bounds, S!TypeOK, NEW reading \in S!Readings, S!Offers(reading), NEW started \in BOOLEAN,
         S!Ack(started) \/ S!Nack(started), sensor' = sensor
  PROVE  S!TypeOK'
BY DEF Bounds, Components, S!TypeOK, S!Offers, S!Ack, S!Nack, S!Fault

LEMMA SensorTypeStep == Bounds /\ S!TypeOK /\ [S!Next]_S!vars => S!TypeOK'
<1> SUFFICES ASSUME Bounds, S!TypeOK, [S!Next]_S!vars PROVE S!TypeOK'
  OBVIOUS
<1>1. ASSUME NEW reading \in S!Readings, S!Publish(reading) PROVE S!TypeOK'
  <2>1. sensor' \in Seq(S!Readings) /\ Len(sensor') = Len(sensor) + 1
    BY <1>1 DEF S!Publish, S!TypeOK
  <2> QED
    BY <1>1, <2>1 DEF S!Publish, S!TypeOK
<1>2. CASE S!StartAlarm
  BY <1>2, SensorAckType DEF S!StartAlarm, S!Readings
<1>3. CASE S!StopAlarm
  BY <1>3, SensorAckType DEF S!StopAlarm, S!Readings
<1>4. CASE UNCHANGED S!vars
  BY <1>4 DEF S!vars, S!TypeOK
<1> QED
  BY <1>1, <1>2, <1>3, <1>4 DEF S!Next

LEMMA SensorInit == Bounds /\ S!Init => S!TypeOK /\ S!AlarmFollowsSensor
<1> SUFFICES ASSUME Bounds, S!Init PROVE S!TypeOK /\ S!AlarmFollowsSensor
  OBVIOUS
<1>1. sensor \in Seq(S!Readings) /\ Len(sensor) = 0 /\ acked = 0 /\ alarm = FALSE
  BY DEF S!Init
<1>2. acked \in 0..Len(sensor) /\ alarmFaults \in 0..MaxFaults["sensor"]
  BY <1>1 DEF S!Init, Bounds, Components
<1>3. S!TypeOK
  BY <1>1, <1>2 DEF S!TypeOK
<1>4. ~(acked > 0)
  BY <1>1, SMT
<1>5. alarm = (acked > 0 /\ sensor[acked] = "1")
  BY <1>1, <1>4, Zenon
<1>6. S!AlarmFollowsSensor
  BY <1>5, Zenon DEF S!AlarmFollowsSensor
<1> QED
  BY <1>3, <1>6

\* After an attempt the alarm is as it was, or as the reading asks.
LEMMA AttemptKeepsUp ==
  ASSUME S!TypeOK, S!AlarmFollowsSensor, NEW reading \in {"0", "1"}, S!Offers(reading),
         S!Ack(reading = "1") \/ S!Nack(reading = "1"), sensor' = sensor
  PROVE  S!AlarmFollowsSensor'
<1>1. acked \in Nat /\ acked < Len(sensor) /\ sensor[acked + 1] = reading
  BY DEF S!TypeOK, S!Offers
<1>2. CASE alarm' = (reading = "1")
  <2>1. acked' = acked \/ acked' = acked + 1
    BY DEF S!Ack, S!Nack
  <2> QED
    BY <1>1, <1>2, <2>1 DEF S!AlarmFollowsSensor
<1>3. CASE alarm' = alarm /\ acked' = acked
  BY <1>3 DEF S!AlarmFollowsSensor
<1> QED
  BY <1>2, <1>3 DEF S!Ack, S!Nack

LEMMA AlarmStep == S!TypeOK /\ S!AlarmFollowsSensor /\ [S!Next]_S!vars => S!AlarmFollowsSensor'
<1> SUFFICES ASSUME S!TypeOK, S!AlarmFollowsSensor, [S!Next]_S!vars PROVE S!AlarmFollowsSensor'
  OBVIOUS
<1>1. ASSUME NEW reading \in S!Readings, S!Publish(reading) PROVE S!AlarmFollowsSensor'
  <2>1. Len(sensor') = Len(sensor) + 1 /\ \A i \in 1..Len(sensor) : sensor'[i] = sensor[i]
    BY <1>1 DEF S!Publish, S!TypeOK
  <2>2. acked \in 0..Len(sensor) /\ Len(sensor) \in Nat /\ acked' = acked /\ alarm' = alarm
    BY <1>1 DEF S!Publish, S!TypeOK
  <2> QED
    BY <2>1, <2>2 DEF S!AlarmFollowsSensor
<1>2. CASE S!StartAlarm
  BY <1>2, AttemptKeepsUp DEF S!StartAlarm
<1>3. CASE S!StopAlarm
  BY <1>3, AttemptKeepsUp DEF S!StopAlarm
<1>4. CASE UNCHANGED S!vars
  BY <1>4 DEF S!vars, S!AlarmFollowsSensor
<1> QED
  BY <1>1, <1>2, <1>3, <1>4 DEF S!Next

\* However often a reading is nacked or comes again, the alarm shows the last reading that
\* was acked, or already the next one.
THEOREM AlarmFollowsSensorHolds == Bounds => (Spec => []AlarmFollowsSensor)
<1> SUFFICES ASSUME Bounds PROVE Spec => []AlarmFollowsSensor
  OBVIOUS
<1> DEFINE Inv == S!TypeOK /\ S!AlarmFollowsSensor
<1>1. Init => Inv
  BY SensorInit DEF Init
<1>2. Inv /\ [Next]_vars => Inv'
  BY SensorSteps, SensorTypeStep, AlarmStep
<1>3. Inv => AlarmFollowsSensor
  BY DEF AlarmFollowsSensor
<1> QED
  BY <1>1, <1>2, <1>3, PTL DEF Spec

-----------------------------------------------------------------------------
(* The alerts *)

\* The invariant behind UpdatesAreInOrder: an event is in the topic of its kind, and, until
\* the map is lost, no update is newer than the version that the map has for its alert.
AlertInv ==
  /\ A!TypeOK
  /\ \A k \in A!Topics : \A i \in 1..Len(topic[k]) : A!TopicOf(topic[k][i][2]) = k
  /\ ~restarted =>
       \A a \in Alerts : \A i \in 1..Len(updates[a]) : updates[a][i].version <= alerts[a]
  /\ A!UpdatesAreInOrder

LEMMA Appended ==
  ASSUME NEW R, NEW s \in Seq(R), NEW x \in R
  PROVE  /\ Append(s, x) \in Seq(R) /\ Len(Append(s, x)) = Len(s) + 1 /\ Len(s) \in Nat
         /\ \A i \in 1..Len(s) : Append(s, x)[i] = s[i]
         /\ Append(s, x)[Len(s) + 1] = x
OBVIOUS

LEMMA Dropped ==
  ASSUME NEW R, NEW s \in Seq(R), s # <<>>
  PROVE  /\ Tail(s) \in Seq(R) /\ Len(Tail(s)) = Len(s) - 1 /\ Len(s) \in Nat \ {0}
         /\ \A i \in 1..Len(Tail(s)) : Tail(s)[i] = s[i + 1] /\ i + 1 \in 1..Len(s)
         /\ Head(s) = s[1] /\ Head(s) \in R
OBVIOUS

\* UpdatesAreInOrder, without the sequences and sets of versions.
VersionsGrow ==
  /\ ~restarted => \A a \in Alerts : \A i, j \in 1..Len(updates[a]) :
                     i < j => updates[a][i].version < updates[a][j].version
  /\ \A a \in Alerts : \A i \in 1..Len(updates[a]) :
       updates[a][i].triggered <=> A!TopicOf(updates[a][i].version) = "triggered"

LEMMA InOrder == A!TypeOK => (A!UpdatesAreInOrder <=> VersionsGrow)
<1> SUFFICES ASSUME A!TypeOK PROVE A!UpdatesAreInOrder <=> VersionsGrow
  OBVIOUS
<1>1. \A a \in Alerts : /\ A!ToSet(updates[a]) = {updates[a][i] : i \in 1..Len(updates[a])}
                        /\ \A i \in 1..Len(updates[a]) :
                             A!Versions(a)[i] = updates[a][i].version
  BY DEF A!TypeOK, A!ToSet, A!Versions
<1>2. ASSUME NEW a \in Alerts, NEW i \in 1..Len(updates[a]), NEW j \in 1..Len(updates[a])
      PROVE  A!Versions(a)[i] < A!Versions(a)[j]
               <=> updates[a][i].version < updates[a][j].version
  BY <1>1
<1>3. ASSUME NEW a \in Alerts
      PROVE  (\A update \in A!ToSet(updates[a]) :
                update.triggered <=> A!TopicOf(update.version) = "triggered")
             <=> (\A i \in 1..Len(updates[a]) :
                    updates[a][i].triggered
                      <=> A!TopicOf(updates[a][i].version) = "triggered")
  <2>1. \A i \in 1..Len(updates[a]) : updates[a][i] \in A!ToSet(updates[a])
    BY <1>1
  <2>2. \A update \in A!ToSet(updates[a]) : \E i \in 1..Len(updates[a]) : update = updates[a][i]
    BY <1>1
  <2> QED
    BY <2>1, <2>2, Zenon
<1> QED
  BY <1>2, <1>3 DEF A!UpdatesAreInOrder, VersionsGrow

LEMMA UpdateType ==
  ASSUME A!TypeOK, NEW a \in Alerts, NEW i \in 1..Len(updates[a])
  PROVE  updates[a][i].version \in 1..MaxVersion /\ alerts[a] \in 0..MaxVersion
<1> DEFINE Update == [version : 1..MaxVersion, triggered : BOOLEAN]
<1>1. updates[a] \in Seq(Update)
  BY DEF A!TypeOK
<1>2. ASSUME NEW U, NEW s \in Seq(U), NEW j \in 1..Len(s) PROVE s[j] \in U
  BY <1>2
<1>3. updates[a][i] \in Update
  BY <1>1, <1>2
<1>4. alerts[a] \in 0..MaxVersion
  BY DEF A!TypeOK
<1>5. updates[a][i].version \in 1..MaxVersion
  BY <1>3
<1> QED
  BY <1>4, <1>5

\* An ack leaves the topics well typed, and each event in the topic of its kind.
LEMMA AlertAck ==
  ASSUME Bounds, AlertInv, NEW k \in A!Topics, NEW a, NEW v, A!Offers(k, a, v), A!Ack(k)
  PROVE  /\ topic' \in [A!Topics -> Seq(Alerts \X (1..MaxVersion))]
         /\ \A j \in A!Topics : \A i \in 1..Len(topic'[j]) : A!TopicOf(topic'[j][i][2]) = j
         /\ alertFaults' \in 0..MaxFaults["alerts"]
<1>1. topic[k] \in Seq(Alerts \X (1..MaxVersion)) /\ topic[k] # <<>>
  BY DEF AlertInv, A!TypeOK, A!Offers
<1>2. /\ Tail(topic[k]) \in Seq(Alerts \X (1..MaxVersion))
      /\ \A i \in 1..Len(Tail(topic[k])) :
           Tail(topic[k])[i] = topic[k][i + 1] /\ i + 1 \in 1..Len(topic[k])
  BY <1>1, Dropped
<1>3. CASE topic' = [topic EXCEPT ![k] = Tail(@)] /\ alertFaults' = alertFaults
  <2>1. \A j \in A!Topics : topic'[j] = IF j = k THEN Tail(topic[k]) ELSE topic[j]
    BY <1>3 DEF AlertInv, A!TypeOK
  <2> QED
    BY <1>2, <1>3, <2>1 DEF AlertInv, A!TypeOK
<1>4. CASE A!Fault /\ topic' = topic
  <2>1. alertFaults' \in 0..MaxFaults["alerts"]
    BY <1>4, FaultBounds DEF A!Fault, AlertInv, A!TypeOK
  <2> QED
    BY <1>4, <2>1 DEF AlertInv, A!TypeOK
<1> QED
  BY <1>3, <1>4 DEF A!Ack

LEMMA AlertInit == Bounds /\ A!Init => AlertInv
<1> SUFFICES ASSUME Bounds, A!Init PROVE AlertInv
  OBVIOUS
<1>1. /\ \A a \in Alerts : updates[a] = <<>> /\ Len(updates[a]) = 0
      /\ \A k \in A!Topics : topic[k] = <<>> /\ Len(topic[k]) = 0
  BY DEF A!Init
<1>2. A!TypeOK
  <2>0. 0 \in 0..MaxVersion /\ 0 \in 0..MaxFaults["alerts"]
    BY FaultBounds DEF Bounds
  <2>1. /\ emitted \in [Alerts -> 0..MaxVersion]
        /\ alerts \in [Alerts -> 0..MaxVersion]
        /\ restarted \in BOOLEAN /\ alertFaults \in 0..MaxFaults["alerts"]
    BY <2>0 DEF A!Init
  <2>2. /\ topic \in [A!Topics -> Seq(Alerts \X (1..MaxVersion))]
        /\ updates \in [Alerts -> Seq([version : 1..MaxVersion, triggered : BOOLEAN])]
        /\ tooEarly \subseteq Alerts \X (1..MaxVersion)
    BY DEF A!Init
  <2> QED
    BY <2>1, <2>2 DEF A!TypeOK
<1>3. A!UpdatesAreInOrder
  BY <1>1, <1>2, InOrder DEF VersionsGrow
<1> QED
  BY <1>1, <1>2, <1>3 DEF AlertInv

LEMMA EmitStep ==
  ASSUME Bounds, AlertInv, NEW a \in Alerts, A!Emit(a)
  PROVE  AlertInv'
<1> DEFINE v == emitted[a] + 1
           k == A!TopicOf(v)
<1>1. /\ v \in 1..MaxVersion /\ k \in A!Topics /\ <<a, v>> \in Alerts \X (1..MaxVersion)
      /\ emitted' = [emitted EXCEPT ![a] = v]
      /\ UNCHANGED <<alerts, updates, tooEarly, restarted, alertFaults>>
  BY DEF A!Emit, AlertInv, A!TypeOK, A!TopicOf, A!Topics, Bounds
<1>2. emitted' \in [Alerts -> 0..MaxVersion] /\ emitted'[a] = v
  BY <1>1 DEF AlertInv, A!TypeOK, Bounds
<1>3. topic' = [topic EXCEPT ![k] = Append(topic[k], <<a, v>>)]
  BY <1>1, <1>2 DEF A!Emit, AlertInv, A!TypeOK, A!TopicOf
<1> HIDE DEF v, k
<1>4. topic[k] \in Seq(Alerts \X (1..MaxVersion))
  BY <1>1 DEF AlertInv, A!TypeOK
<1>5. /\ Append(topic[k], <<a, v>>) \in Seq(Alerts \X (1..MaxVersion))
      /\ Len(Append(topic[k], <<a, v>>)) = Len(topic[k]) + 1 /\ Len(topic[k]) \in Nat
      /\ \A i \in 1..Len(topic[k]) : Append(topic[k], <<a, v>>)[i] = topic[k][i]
      /\ Append(topic[k], <<a, v>>)[Len(topic[k]) + 1] = <<a, v>>
  BY <1>1, <1>4, Appended
<1>6. topic' \in [A!Topics -> Seq(Alerts \X (1..MaxVersion))]
  BY <1>1, <1>3, <1>5 DEF AlertInv, A!TypeOK
<1>7. \A j \in A!Topics : \A i \in 1..Len(topic'[j]) : A!TopicOf(topic'[j][i][2]) = j
  <2> SUFFICES ASSUME NEW j \in A!Topics, NEW i \in 1..Len(topic'[j])
               PROVE  A!TopicOf(topic'[j][i][2]) = j
    OBVIOUS
  <2>1. CASE j # k
    BY <1>3, <2>1 DEF AlertInv, A!TypeOK
  <2>2. CASE j = k
    <3>1. topic'[j] = Append(topic[k], <<a, v>>)
      BY <1>1, <1>3, <2>2 DEF AlertInv, A!TypeOK
    <3>2. CASE i \in 1..Len(topic[k])
      BY <1>1, <1>5, <2>2, <3>1, <3>2 DEF AlertInv
    <3>3. CASE i = Len(topic[k]) + 1
      <4>1. topic'[j][i] = <<a, v>>
        BY <1>5, <3>1, <3>3
      <4> QED
        BY <4>1, <2>2 DEF k
    <3> QED
      BY <1>5, <3>1, <3>2, <3>3
  <2> QED
    BY <2>1, <2>2
<1>8. A!TypeOK'
  BY <1>1, <1>2, <1>6 DEF AlertInv, A!TypeOK
<1>9. A!UpdatesAreInOrder'
  BY <1>1 DEF AlertInv, A!UpdatesAreInOrder, A!Versions, A!TopicOf, A!ToSet
<1> QED
  BY <1>1, <1>7, <1>8, <1>9 DEF AlertInv

LEMMA IgnoreStep ==
  ASSUME Bounds, AlertInv, NEW k \in A!Topics, NEW a \in Alerts, NEW v \in 1..MaxVersion,
         A!Ignore(k, a, v)
  PROVE  AlertInv'
<1>1. A!Offers(k, a, v) /\ A!Ack(k) /\ UNCHANGED <<emitted, alerts, updates, restarted>>
  BY DEF A!Ignore
<1>2. tooEarly' \subseteq Alerts \X (1..MaxVersion)
  BY DEF A!Ignore, AlertInv, A!TypeOK
<1>3. A!TypeOK'
  BY <1>1, <1>2, AlertAck DEF AlertInv, A!TypeOK
<1>4. A!UpdatesAreInOrder'
  BY <1>1 DEF AlertInv, A!UpdatesAreInOrder, A!Versions, A!TopicOf, A!ToSet
<1> QED
  BY <1>1, <1>3, <1>4, AlertAck DEF AlertInv

LEMMA HandleStep ==
  ASSUME Bounds, AlertInv, NEW k \in A!Topics, NEW a \in Alerts, NEW v \in 1..MaxVersion,
         A!Handle(k, a, v)
  PROVE  AlertInv'
<1>1. /\ A!Offers(k, a, v) /\ alerts[a] + 1 = v
      /\ alerts' = [alerts EXCEPT ![a] = v] /\ UNCHANGED <<emitted, tooEarly, restarted>>
  BY DEF A!Handle, A!IsNext, A!Remember
<1>2. /\ alerts' \in [Alerts -> 0..MaxVersion] /\ alerts'[a] = v /\ alerts[a] < v
      /\ \A b \in Alerts : b # a => alerts'[b] = alerts[b]
  BY <1>1 DEF AlertInv, A!TypeOK
<1>3. CASE A!Fault /\ UNCHANGED <<updates, topic>>
  <2>0. alertFaults' \in 0..MaxFaults["alerts"]
    BY <1>3, FaultBounds DEF A!Fault, AlertInv, A!TypeOK
  <2>1. A!TypeOK'
    BY <1>1, <1>2, <1>3, <2>0 DEF AlertInv, A!TypeOK
  <2>2. A!UpdatesAreInOrder'
    BY <1>1, <1>3 DEF AlertInv, A!UpdatesAreInOrder, A!Versions, A!TopicOf, A!ToSet
  <2>3. ~restarted' => \A b \in Alerts : \A i \in 1..Len(updates'[b]) :
                         updates'[b][i].version <= alerts'[b]
    <3> SUFFICES ASSUME ~restarted, NEW b \in Alerts, NEW i \in 1..Len(updates[b])
                 PROVE  updates[b][i].version <= alerts'[b]
      BY <1>1, <1>3
    <3>1. updates[b][i].version <= alerts[b]
      BY DEF AlertInv
    <3>2. updates[b][i].version \in 1..MaxVersion /\ alerts[b] \in 0..MaxVersion
      BY UpdateType DEF AlertInv
    <3> QED
      BY <1>2, <3>1, <3>2 DEF Bounds
  <2> QED
    BY <1>1, <1>3, <2>1, <2>2, <2>3 DEF AlertInv
<1>4. ASSUME A!Ack(k),
             updates' = [updates EXCEPT ![a] =
                          Append(@, [version |-> v, triggered |-> k = "triggered"])]
      PROVE  AlertInv'
  <2> DEFINE update == [version |-> v, triggered |-> k = "triggered"]
             Update == [version : 1..MaxVersion, triggered : BOOLEAN]
             old    == updates[a]
             new    == updates'[a]
  <2>1. update \in Update /\ old \in Seq(Update)
    BY DEF AlertInv, A!TypeOK
  <2>2. new = Append(old, update) /\ \A b \in Alerts : b # a => updates'[b] = updates[b]
    BY <1>4 DEF AlertInv, A!TypeOK
  <2>3. /\ new \in Seq(Update) /\ Len(new) = Len(old) + 1 /\ Len(old) \in Nat
        /\ \A i \in 1..Len(old) : new[i] = old[i]
        /\ new[Len(old) + 1] = update
    BY <2>1, <2>2, Appended
  <2>4. updates' \in [Alerts -> Seq(Update)]
    BY <1>4, <2>1, <2>2, <2>3 DEF AlertInv, A!TypeOK
  <2>5. A!TypeOK'
    BY <1>1, <1>2, <1>4, <2>4, AlertAck DEF AlertInv, A!TypeOK
  <2>6. A!TopicOf(v) = k
    <3>1. topic[k] \in Seq(Alerts \X (1..MaxVersion)) /\ topic[k] # <<>>
      BY <1>1 DEF AlertInv, A!TypeOK, A!Offers
    <3>2. topic[k][1] = <<a, v>> /\ 1 \in 1..Len(topic[k])
      BY <1>1, <3>1, Dropped DEF A!Offers
    <3> QED
      BY <3>2 DEF AlertInv
  <2>7. ASSUME ~restarted, NEW b \in Alerts, NEW i \in 1..Len(updates'[b])
        PROVE  updates'[b][i].version <= alerts'[b]
    <3>1. CASE b # a
      BY <1>2, <2>2, <2>7, <3>1 DEF AlertInv
    <3>2. CASE b = a /\ i \in 1..Len(old)
      <4>1. old[i].version <= alerts[a]
        BY <2>7, <3>2 DEF AlertInv
      <4>2. old[i].version \in 1..MaxVersion /\ alerts[a] \in 0..MaxVersion
        BY <3>2, UpdateType DEF AlertInv
      <4> QED
        BY <1>2, <2>3, <3>2, <4>1, <4>2
    <3>3. CASE b = a /\ i = Len(old) + 1
      BY <1>2, <2>3, <3>3
    <3> QED
      BY <2>3, <3>1, <3>2, <3>3
  <2>8. ASSUME ~restarted, NEW b \in Alerts, NEW i \in 1..Len(updates'[b]),
               NEW j \in 1..Len(updates'[b]), i < j
        PROVE  updates'[b][i].version < updates'[b][j].version
    <3>1. CASE b # a
      BY <2>2, <2>8, <3>1, InOrder DEF AlertInv, VersionsGrow
    <3>2. CASE b = a /\ j \in 1..Len(old)
      <4>1. i \in 1..Len(old)
        BY <2>3, <2>8, <3>2
      <4>2. old[i].version < old[j].version
        BY <2>8, <3>2, <4>1, InOrder DEF AlertInv, VersionsGrow
      <4> QED
        BY <2>3, <3>2, <4>1, <4>2
    <3>3. CASE b = a /\ j = Len(old) + 1
      <4>1. i \in 1..Len(old)
        BY <2>3, <2>8, <3>3
      <4>2. old[i].version <= alerts[a]
        BY <2>8, <4>1 DEF AlertInv
      <4>3. old[i].version \in 1..MaxVersion /\ alerts[a] \in 0..MaxVersion
        BY <4>1, UpdateType DEF AlertInv
      <4>4. updates'[b][i] = old[i] /\ updates'[b][j].version = v
        BY <2>3, <3>3, <4>1
      <4> QED
        BY <1>2, <4>2, <4>3, <4>4
    <3> QED
      BY <2>3, <3>1, <3>2, <3>3
  <2>9. ASSUME NEW b \in Alerts, NEW i \in 1..Len(updates'[b])
        PROVE  updates'[b][i].triggered <=> A!TopicOf(updates'[b][i].version) = "triggered"
    <3>1. CASE b # a
      BY <2>2, <2>9, <3>1, InOrder DEF AlertInv, VersionsGrow
    <3>2. CASE b = a /\ i \in 1..Len(old)
      BY <2>3, <3>2, InOrder DEF AlertInv, VersionsGrow
    <3>3. CASE b = a /\ i = Len(old) + 1
      BY <2>3, <2>6, <3>3
    <3> QED
      BY <2>3, <3>1, <3>2, <3>3
  <2>10. A!UpdatesAreInOrder'
    <3>1. A!TypeOK' => (A!UpdatesAreInOrder' <=> VersionsGrow')
      BY InOrder, PTL
    <3>2. VersionsGrow'
      BY <1>1, <2>8, <2>9 DEF VersionsGrow, A!TopicOf
    <3> QED
      BY <2>5, <3>1, <3>2
  <2> QED
    BY <1>1, <1>4, <2>5, <2>7, <2>10, AlertAck DEF AlertInv
<1> QED
  BY <1>3, <1>4 DEF A!Handle

LEMMA RestartStep ==
  ASSUME Bounds, AlertInv, A!Restart
  PROVE  AlertInv'
<1>1. restarted' = TRUE /\ UNCHANGED <<emitted, topic, updates, tooEarly>>
  BY DEF A!Restart
<1>2. A!TypeOK'
  <2>1. alertFaults' \in 0..MaxFaults["alerts"]
    BY FaultBounds DEF A!Restart, A!Fault, AlertInv, A!TypeOK
  <2>2. alerts' \in [Alerts -> 0..MaxVersion] /\ restarted' \in BOOLEAN
    BY DEF A!Restart, Bounds
  <2> QED
    BY <1>1, <2>1, <2>2 DEF AlertInv, A!TypeOK
<1>3. A!UpdatesAreInOrder'
  BY <1>1 DEF AlertInv, A!UpdatesAreInOrder, A!Versions, A!TopicOf, A!ToSet
<1> QED
  BY <1>1, <1>2, <1>3 DEF AlertInv

LEMMA AlertStep == Bounds /\ AlertInv /\ [Next]_vars => AlertInv'
<1> SUFFICES ASSUME Bounds, AlertInv, [Next]_vars PROVE AlertInv'
  OBVIOUS
<1>1. ASSUME NEW k \in A!Topics, A!Deliver(k) PROVE AlertInv'
  BY <1>1, IgnoreStep, HandleStep DEF A!Deliver
<1>2. CASE UNCHANGED A!vars
  <2>1. A!UpdatesAreInOrder'
    BY <1>2 DEF A!vars, AlertInv, A!UpdatesAreInOrder, A!Versions, A!TopicOf, A!ToSet
  <2> QED
    BY <1>2, <2>1 DEF A!vars, AlertInv, A!TypeOK
<1> QED
  BY <1>1, <1>2, AlertSteps, EmitStep, RestartStep DEF A!Next

\* However the two topics overtake one another and whatever is delivered again, the updates
\* of an alert come in the order of its versions until the map is lost.
THEOREM UpdatesAreInOrderHolds == Bounds => (Spec => []UpdatesAreInOrder)
<1> SUFFICES ASSUME Bounds PROVE Spec => []UpdatesAreInOrder
  OBVIOUS
<1>1. Init => AlertInv
  BY AlertInit DEF Init
<1>2. AlertInv => UpdatesAreInOrder
  BY DEF AlertInv, UpdatesAreInOrder
<1> QED
  BY <1>1, <1>2, AlertStep, PTL DEF Spec

-----------------------------------------------------------------------------
(* The teams *)

IsMember(p, team) == \E i \in 1..Len(team.members) : team.members[i] = p
Positions(s, x) == {i \in 1..Len(s) : s[i] = x}
Times(p, team) == Cardinality(Positions(team.members, p))
Queued(p) == \E i \in 1..Len(playerJoined) : playerJoined[i] = p

\* OnPlayerJoined has not put the player in a team yet, or will do so again.
Expected(p) ==
  \/ request[p] \in {"none", "stored"}
  \/ \E i \in 1..Len(playerJoined) :
       playerJoined[i] = p /\ (returned = T!NoTeam \/ i # 1)

Member == Players \cup {T!Nobody}

TeamType ==
  /\ players \subseteq Players
  /\ created \in Nat
  /\ teams \subseteq [id : 1..created, name : T!Names, members : Seq(Member)]
  /\ request \in [Players -> {"none", "stored", "accepted", "failed"}]
  /\ playerJoined \in Seq(Players)
  /\ teamCreated \in Seq(Nat)
  /\ \A i \in 1..Len(teamCreated) : teamCreated[i] \in 1..created
  /\ returned \in 0..created
  /\ returned # T!NoTeam => playerJoined # <<>>
  /\ unannounced \subseteq 1..created
  /\ scoreboards \subseteq 1..created
  /\ restarts \in Nat /\ teamFaults \in Nat
  /\ restarts + teamFaults <= MaxFaults["teams"]

\* The invariant behind PlayersAreInTheirTeam, as long as the maps are not lost: a player
\* is queued at most once, in the map since before; a player that OnPlayerJoined is done
\* with is in a team; one more time in it than there were faults, but not if the player
\* will come again.
MapsInv ==
  /\ players = {p \in Players : request[p] # "none"}
  /\ \A i \in 1..Len(playerJoined) : request[playerJoined[i]] \in {"accepted", "failed"}
  /\ \A i, j \in 1..Len(playerJoined) : playerJoined[i] = playerJoined[j] => i = j
  /\ \A a, b \in teams : a.name = b.name => a = b
  /\ \A team \in teams : \A i \in 1..Len(team.members) :
       T!NameOf(team.members[i]) = team.name
  /\ returned # T!NoTeam => \E team \in teams : IsMember(playerJoined[1], team)
  /\ \A p \in Players :
       request[p] = "accepted" => Queued(p) \/ \E team \in teams : IsMember(p, team)
  /\ \A p \in Players : \A team \in teams : Times(p, team) <= 1 + teamFaults
  /\ \A p \in Players : Expected(p) => \A team \in teams : Times(p, team) <= teamFaults

TeamInv == TeamType /\ (restarts = 0 => MapsInv)

LEMMA TeamsAreTyped ==
  ASSUME TeamType, NEW team \in teams
  PROVE  team.id \in 1..created /\ team.name \in T!Names /\ team.members \in Seq(Member)
BY DEF TeamType

LEMMA PositionsAreFinite ==
  ASSUME NEW R, NEW s \in Seq(R), NEW x
  PROVE  IsFiniteSet(Positions(s, x)) /\ Cardinality(Positions(s, x)) \in Nat
<1>1. IsFiniteSet(1..Len(s))
  BY FS_Interval
<1>2. Positions(s, x) \subseteq 1..Len(s)
  BY DEF Positions
<1> QED
  BY <1>1, <1>2, FS_Subset, FS_CardinalityType

LEMMA TimesIsNat ==
  ASSUME TeamType, NEW p, NEW team \in teams
  PROVE  Times(p, team) \in Nat
BY TeamsAreTyped, PositionsAreFinite DEF Times

\* One more element is one more position, of that element alone.
LEMMA OnePositionMore ==
  ASSUME NEW R, NEW s \in Seq(R), NEW x \in R, NEW y
  PROVE  Cardinality(Positions(Append(s, x), y))
           = Cardinality(Positions(s, y)) + (IF x = y THEN 1 ELSE 0)
<1>1. /\ Len(Append(s, x)) = Len(s) + 1 /\ Len(s) \in Nat
      /\ \A i \in 1..Len(s) : Append(s, x)[i] = s[i]
      /\ Append(s, x)[Len(s) + 1] = x
  BY Appended
<1>2. IsFiniteSet(Positions(s, y)) /\ Cardinality(Positions(s, y)) \in Nat
  BY PositionsAreFinite
<1>3. CASE x = y
  <2>1. /\ Positions(Append(s, x), y) = Positions(s, y) \cup {Len(s) + 1}
        /\ Len(s) + 1 \notin Positions(s, y)
    BY <1>1, <1>3 DEF Positions
  <2>2. Cardinality(Positions(Append(s, x), y)) = Cardinality(Positions(s, y)) + 1
    BY <1>2, <2>1, FS_AddElement
  <2> QED
    BY <1>3, <2>2
<1>4. CASE x # y
  <2>1. Positions(Append(s, x), y) = Positions(s, y)
    BY <1>1, <1>4 DEF Positions
  <2> QED
    BY <1>2, <1>4, <2>1
<1> QED
  BY <1>3, <1>4

LEMMA SameCardinality == \A X : T!Cardinality(X) = Cardinality(X)
BY DEF T!Cardinality, Cardinality

LEMMA TeamInvImplies == TeamInv => T!TypeOK /\ PlayersAreInTheirTeam
<1> SUFFICES ASSUME TeamInv PROVE T!TypeOK /\ PlayersAreInTheirTeam
  OBVIOUS
<1>1. ASSUME NEW R, NEW s \in Seq(R) PROVE T!ToSet(s) = {s[i] : i \in 1..Len(s)}
  BY <1>1 DEF T!ToSet
<1>2. T!TypeOK
  <2>1. \A team \in teams : T!ToSet(team.members) \subseteq Players \cup {T!Nobody}
    BY <1>1, TeamsAreTyped DEF TeamInv, Member
  <2>2. teamCreated \in Seq(1..created)
    BY DEF TeamInv, TeamType
  <2>3. restarts + teamFaults \in 0..MaxFaults["teams"]
    BY DEF TeamInv, TeamType
  <2> QED
    BY <2>1, <2>2, <2>3, TeamsAreTyped DEF TeamInv, TeamType, T!TypeOK
<1>3. ASSUME restarts = 0
      PROVE  /\ \A a, b \in teams : a.name = b.name => a = b
             /\ \A team \in teams : \A p \in T!ToSet(team.members) : T!NameOf(p) = team.name
  BY <1>1, <1>3, TeamsAreTyped DEF TeamInv, MapsInv
<1>4. ASSUME restarts = 0, NEW p \in Players, NEW team \in teams
      PROVE  /\ {i \in DOMAIN team.members : team.members[i] = p}
                  = {i \in 1..Len(team.members) : team.members[i] = p}
             /\ T!Cardinality({i \in DOMAIN team.members : team.members[i] = p})
                  = Times(p, team)
  <2>1. DOMAIN team.members = 1..Len(team.members)
    BY TeamsAreTyped DEF TeamInv
  <2> QED
    BY <2>1, SameCardinality DEF Times, Positions
<1>5. ASSUME restarts = 0, NEW p \in Players, request[p] = "accepted",
             p \notin T!ToSet(playerJoined)
      PROVE  \E team \in teams : Times(p, team) >= 1
  <2>1. ~Queued(p)
    BY <1>1, <1>5 DEF TeamInv, TeamType, Queued
  <2>2. PICK team \in teams : IsMember(p, team)
    BY <1>5, <2>1 DEF TeamInv, MapsInv
  <2>3. Positions(team.members, p) # {}
    BY <2>2 DEF IsMember, Positions
  <2>4. /\ IsFiniteSet(Positions(team.members, p))
        /\ Cardinality(Positions(team.members, p)) \in Nat
    BY PositionsAreFinite, TeamsAreTyped DEF TeamInv
  <2>5. Cardinality(Positions(team.members, p)) # 0
    BY <2>3, <2>4, FS_EmptySet
  <2> QED
    BY <2>4, <2>5 DEF Times
<1>6. \A p \in Players : restarts = 0 => \A team \in teams : Times(p, team) <= 1 + teamFaults
  BY DEF TeamInv, MapsInv
<1> QED
  BY <1>2, <1>3, <1>4, <1>5, <1>6 DEF PlayersAreInTheirTeam, T!PlayersAreInTheirTeam

LEMMA TeamInit == Bounds /\ T!Init => TeamInv
<1> SUFFICES ASSUME Bounds, T!Init PROVE TeamInv
  OBVIOUS
<1>1. /\ players = {} /\ teams = {} /\ playerJoined = <<>> /\ Len(playerJoined) = 0
      /\ teamCreated = <<>> /\ Len(teamCreated) = 0 /\ returned = 0 /\ created = 0
      /\ unannounced = {} /\ scoreboards = {} /\ restarts = 0 /\ teamFaults = 0
      /\ request = [p \in Players |-> "none"]
  BY DEF T!Init, T!NoTeam
<1>2. MaxFaults["teams"] \in Nat
  BY FaultBounds
<1> QED
  BY <1>1, <1>2 DEF TeamInv, TeamType, MapsInv, T!NoTeam

LEMMA AddPlayerStep ==
  ASSUME TeamInv, NEW p \in Players, T!AddPlayer(p)
  PROVE  TeamInv'
<1>1. /\ request[p] = "none" /\ request' = [request EXCEPT ![p] = "stored"]
      /\ players' = players \cup {p}
      /\ UNCHANGED <<teams, playerJoined, teamCreated, returned, created, unannounced,
                     scoreboards, restarts, teamFaults>>
  BY DEF T!AddPlayer, T!streams
<1>2. \A q \in Players : request'[q] = IF q = p THEN "stored" ELSE request[q]
  BY <1>1 DEF TeamInv, TeamType
<1>3. TeamType'
  BY <1>1, <1>2 DEF TeamInv, TeamType, Member, T!Names, T!EmptyName, T!Nobody, T!NoTeam
<1>4. ASSUME MapsInv PROVE MapsInv'
  <2>1. \A q, team : Times(q, team)' = Times(q, team) /\ IsMember(q, team)' = IsMember(q, team)
                     /\ T!NameOf(q)' = T!NameOf(q)
    BY DEF Times, IsMember, T!NameOf, T!Nobody, T!EmptyName
  <2>2. \A q \in Players : Queued(q)' = Queued(q) /\ Expected(q)' = Expected(q)
    BY <1>1, <1>2 DEF Queued, Expected, T!NoTeam
  <2>3. \A i \in 1..Len(playerJoined) : playerJoined[i] \in Players
    BY DEF TeamInv, TeamType
  <2>4. \A i \in 1..Len(playerJoined') : request'[playerJoined'[i]] \in {"accepted", "failed"}
    BY <1>1, <1>2, <1>4, <2>3 DEF MapsInv
  <2>5. players' = {q \in Players : request'[q] # "none"}
    BY <1>1, <1>2, <1>4 DEF MapsInv
  <2>6. \A q \in Players : request'[q] = "accepted" =>
          Queued(q)' \/ \E team \in teams' : IsMember(q, team)'
    BY <1>1, <1>2, <1>4, <2>1, <2>2 DEF MapsInv
  <2> QED
    BY <1>1, <1>4, <2>1, <2>2, <2>4, <2>5, <2>6 DEF MapsInv, T!NoTeam
<1> QED
  BY <1>1, <1>3, <1>4 DEF TeamInv

LEMMA PublishJoinedStep ==
  ASSUME Bounds, TeamInv, NEW p \in Players, T!PublishPlayerJoined(p)
  PROVE  TeamInv'
<1>1. /\ request[p] = "stored"
      /\ UNCHANGED <<players, teams, teamCreated, returned, created, unannounced,
                     scoreboards, restarts>>
  BY DEF T!PublishPlayerJoined, T!maps
<1>2. PICK answer1 \in {"accepted", "failed"} :
        /\ request' = [request EXCEPT ![p] = answer1]
        /\ answer1 = "accepted" => playerJoined' = Append(playerJoined, p)
        /\ playerJoined' \in {playerJoined, Append(playerJoined, p)}
  BY DEF T!PublishPlayerJoined
<1>3. teamFaults' \in Nat /\ teamFaults' >= teamFaults
      /\ restarts + teamFaults' <= MaxFaults["teams"]
  BY FaultBounds DEF T!PublishPlayerJoined, T!Fault, T!Bounded, TeamInv, TeamType
<1>4. \A q \in Players : request'[q] = IF q = p THEN answer1 ELSE request[q]
  BY <1>2 DEF TeamInv, TeamType
<1>5. /\ Append(playerJoined, p) \in Seq(Players)
      /\ Len(Append(playerJoined, p)) = Len(playerJoined) + 1 /\ Len(playerJoined) \in Nat
      /\ \A i \in 1..Len(playerJoined) : Append(playerJoined, p)[i] = playerJoined[i]
      /\ Append(playerJoined, p)[Len(playerJoined) + 1] = p
  BY Appended DEF TeamInv, TeamType
<1>6. /\ playerJoined' \in Seq(Players)
      /\ \A i \in 1..Len(playerJoined) :
           i \in 1..Len(playerJoined') /\ playerJoined'[i] = playerJoined[i]
      /\ \A i \in 1..Len(playerJoined') :
           \/ i \in 1..Len(playerJoined)
           \/ i = Len(playerJoined) + 1 /\ playerJoined'[i] = p
      /\ answer1 = "accepted" =>
           /\ Len(playerJoined) + 1 \in 1..Len(playerJoined')
           /\ playerJoined'[Len(playerJoined) + 1] = p
  <2>1. CASE playerJoined' = Append(playerJoined, p)
    BY <1>5, <2>1
  <2>2. CASE playerJoined' = playerJoined /\ answer1 # "accepted"
    BY <2>2 DEF TeamInv, TeamType
  <2> QED
    BY <1>2, <2>1, <2>2
<1>7. playerJoined # <<>> => playerJoined' # <<>> /\ 1 \in 1..Len(playerJoined)
  BY <1>2, <1>5 DEF TeamInv, TeamType
<1>8. TeamType'
  <2>1. request' \in [Players -> {"none", "stored", "accepted", "failed"}]
    BY <1>2 DEF TeamInv, TeamType
  <2>2. returned' # T!NoTeam => playerJoined' # <<>>
    BY <1>1, <1>7 DEF TeamInv, TeamType, T!NoTeam
  <2> QED
    BY <1>1, <1>3, <1>6, <2>1, <2>2
    DEF TeamInv, TeamType, Member, T!Names, T!EmptyName, T!Nobody, T!NoTeam
<1>9. ASSUME MapsInv PROVE MapsInv'
  <2>1. \A q, team : Times(q, team)' = Times(q, team) /\ IsMember(q, team)' = IsMember(q, team)
                     /\ T!NameOf(q)' = T!NameOf(q)
    BY DEF Times, IsMember, T!NameOf, T!Nobody, T!EmptyName
  <2>2. \A i \in 1..Len(playerJoined) : playerJoined[i] \in Players /\ playerJoined[i] # p
    BY <1>1, <1>9 DEF TeamInv, TeamType, MapsInv
  <2>3. players' = {q \in Players : request'[q] # "none"}
    BY <1>1, <1>4, <1>9 DEF MapsInv
  <2>4. \A i \in 1..Len(playerJoined') : request'[playerJoined'[i]] \in {"accepted", "failed"}
    BY <1>4, <1>6, <1>9, <2>2 DEF MapsInv
  <2>5. \A i, j \in 1..Len(playerJoined') : playerJoined'[i] = playerJoined'[j] => i = j
    BY <1>6, <1>9, <2>2 DEF MapsInv
  <2>6. (returned # T!NoTeam => \E team \in teams : IsMember(playerJoined[1], team))'
    <3> SUFFICES ASSUME returned # T!NoTeam
                 PROVE  \E team \in teams : IsMember(playerJoined'[1], team)
      BY <1>1 DEF T!NoTeam, IsMember
    <3>1. playerJoined'[1] = playerJoined[1]
      BY <1>6, <1>7 DEF TeamInv, TeamType
    <3> QED
      BY <1>9, <3>1 DEF MapsInv
  <2>7. \A q \in Players : Queued(q) => Queued(q)'
    BY <1>6 DEF Queued
  <2>8. \A q \in Players : request'[q] = "accepted" =>
          Queued(q)' \/ \E team \in teams' : IsMember(q, team)'
    <3> SUFFICES ASSUME NEW q \in Players, request'[q] = "accepted"
                 PROVE  Queued(q)' \/ \E team \in teams : IsMember(q, team)
      BY <1>1, <2>1
    <3>1. CASE q = p
      BY <1>4, <1>6, <3>1 DEF Queued
    <3>2. CASE q # p
      BY <1>4, <1>9, <2>7, <3>2 DEF MapsInv
    <3> QED
      BY <3>1, <3>2
  <2>9. \A q \in Players : Expected(q)' => Expected(q)
    <3> SUFFICES ASSUME NEW q \in Players, Expected(q)' PROVE Expected(q)
      OBVIOUS
    <3>1. CASE q = p
      BY <1>1, <3>1 DEF Expected
    <3>2. CASE q # p
      BY <1>1, <1>4, <1>6, <3>2 DEF Expected, T!NoTeam
    <3> QED
      BY <3>1, <3>2
  <2>10. ASSUME NEW q \in Players, NEW team \in teams'
         PROVE  /\ Times(q, team)' <= 1 + teamFaults'
                /\ Expected(q)' => Times(q, team)' <= teamFaults'
    <3>1. team \in teams /\ Times(q, team)' = Times(q, team) /\ Times(q, team) \in Nat
      BY <1>1, <2>1, TimesIsNat DEF TeamInv
    <3>2. Times(q, team) <= 1 + teamFaults /\ (Expected(q) => Times(q, team) <= teamFaults)
      BY <1>9, <3>1 DEF MapsInv
    <3> QED
      BY <1>3, <2>9, <3>1, <3>2 DEF TeamInv, TeamType
  <2> QED
    BY <1>1, <1>9, <2>1, <2>3, <2>4, <2>5, <2>6, <2>8, <2>10 DEF MapsInv
<1> QED
  BY <1>1, <1>8, <1>9 DEF TeamInv

\* player_joined is acked, or will come again after a fault.
LEMMA AckedPlayer ==
  ASSUME Bounds, TeamInv, playerJoined # <<>>, T!Acked(playerJoined)
  PROVE  /\ 1 \in 1..Len(playerJoined) /\ playerJoined[1] \in Players
         /\ \/ /\ Len(playerJoined') = Len(playerJoined) - 1
               /\ \A i \in 1..Len(playerJoined') :
                    playerJoined'[i] = playerJoined[i + 1] /\ i + 1 \in 1..Len(playerJoined)
               /\ teamFaults' = teamFaults
            \/ playerJoined' = playerJoined /\ teamFaults' = teamFaults + 1
         /\ playerJoined' \in Seq(Players)
         /\ teamFaults' \in Nat /\ restarts + teamFaults' <= MaxFaults["teams"]
<1>1. playerJoined \in Seq(Players) /\ teamFaults \in Nat /\ restarts \in Nat
      /\ restarts + teamFaults <= MaxFaults["teams"]
  BY DEF TeamInv, TeamType
<1>2. 1 \in 1..Len(playerJoined) /\ playerJoined[1] \in Players
  BY <1>1
<1>3. CASE playerJoined' = Tail(playerJoined) /\ teamFaults' = teamFaults
  <2>1. /\ playerJoined' \in Seq(Players) /\ Len(playerJoined') = Len(playerJoined) - 1
        /\ \A i \in 1..Len(playerJoined') :
             playerJoined'[i] = playerJoined[i + 1] /\ i + 1 \in 1..Len(playerJoined)
    BY <1>1, <1>3, Dropped
  <2> QED
    BY <1>1, <1>2, <1>3, <2>1
<1>4. CASE T!Fault /\ playerJoined' = playerJoined
  <2>1. /\ teamFaults' = teamFaults + 1 /\ playerJoined' \in Seq(Players)
        /\ restarts + teamFaults < MaxFaults["teams"]
    BY <1>1, <1>4 DEF T!Fault, T!Bounded
  <2>2. restarts + teamFaults' <= MaxFaults["teams"] /\ teamFaults' \in Nat
    BY <1>1, <2>1, FaultBounds
  <2> QED
    BY <1>2, <1>4, <2>1, <2>2
<1> QED
  BY <1>3, <1>4 DEF T!Acked

\* Until the maps are lost, the player that joins is in the map.
LEMMA JoiningIsKnown ==
  ASSUME TeamInv, restarts = 0, T!Offered
  PROVE  /\ T!Joining = playerJoined[1] /\ playerJoined[1] \in Players
         /\ 1 \in 1..Len(playerJoined)
<1>1. playerJoined \in Seq(Players) /\ playerJoined # <<>>
  BY DEF T!Offered, TeamInv, TeamType
<1>2. /\ 1 \in 1..Len(playerJoined) /\ playerJoined[1] \in Players
      /\ Head(playerJoined) = playerJoined[1]
  BY <1>1, Dropped
<1>3. playerJoined[1] \in players
  BY <1>2 DEF TeamInv, MapsInv
<1> QED
  BY <1>2, <1>3 DEF T!Joining

LEMMA JoiningIsMember ==
  ASSUME TeamInv, T!Offered
  PROVE  T!Joining \in Member /\ T!NameOf(T!Joining) \in T!Names
BY DEF T!Offered, T!Joining, TeamInv, TeamType, Member, T!NameOf, T!Names

\* The positions of a player after OnPlayerJoined has acked its event, or not.
LEMMA AfterAck ==
  ASSUME Bounds, TeamInv, MapsInv, playerJoined # <<>>, T!Acked(playerJoined), request' = request,
         returned' = T!NoTeam, NEW p \in Players, p # playerJoined[1]
  PROVE  /\ Queued(p) => Queued(p)'
         /\ Expected(p)' => Expected(p)
<1>1. /\ 1 \in 1..Len(playerJoined)
      /\ \/ /\ Len(playerJoined') = Len(playerJoined) - 1
            /\ \A i \in 1..Len(playerJoined') :
                 playerJoined'[i] = playerJoined[i + 1] /\ i + 1 \in 1..Len(playerJoined)
         \/ playerJoined' = playerJoined
      /\ Len(playerJoined) \in Nat
  BY AckedPlayer DEF TeamInv, TeamType
<1>2. ASSUME Queued(p) PROVE Queued(p)'
  <2>1. PICK i \in 1..Len(playerJoined) : playerJoined[i] = p
    BY <1>2 DEF Queued
  <2>2. CASE playerJoined' = playerJoined
    BY <1>2, <2>2 DEF Queued
  <2>3. CASE playerJoined' # playerJoined
    <3>1. i - 1 \in 1..Len(playerJoined')
      BY <1>1, <2>1, <2>3
    <3>2. playerJoined'[i - 1] = playerJoined[i]
      BY <1>1, <2>1, <2>3, <3>1
    <3> QED
      BY <2>1, <3>1, <3>2 DEF Queued
  <2> QED
    BY <2>2, <2>3
<1>3. ASSUME Expected(p)' PROVE Expected(p)
  <2>1. CASE request[p] \in {"none", "stored"}
    BY <2>1 DEF Expected
  <2>2. CASE \E i \in 1..Len(playerJoined') : playerJoined'[i] = p
    <3>1. \E i \in 1..Len(playerJoined) : playerJoined[i] = p
      BY <1>1, <2>2
    <3> QED
      BY <3>1 DEF Expected
  <2> QED
    BY <1>3, <2>1, <2>2 DEF Expected
<1> QED
  BY <1>2, <1>3

\* What MapsInv says of the queue alone.
LEMMA QueueStays ==
  ASSUME Bounds, TeamInv, MapsInv, playerJoined # <<>>, T!Acked(playerJoined), request' = request
  PROVE  /\ \A i \in 1..Len(playerJoined') :
              request'[playerJoined'[i]] \in {"accepted", "failed"}
         /\ \A i, j \in 1..Len(playerJoined') : playerJoined'[i] = playerJoined'[j] => i = j
<1>1. \/ \A i \in 1..Len(playerJoined') :
           playerJoined'[i] = playerJoined[i + 1] /\ i + 1 \in 1..Len(playerJoined)
      \/ playerJoined' = playerJoined
  BY AckedPlayer
<1>2. /\ \A i \in 1..Len(playerJoined) : request[playerJoined[i]] \in {"accepted", "failed"}
      /\ \A i, j \in 1..Len(playerJoined) : playerJoined[i] = playerJoined[j] => i = j
  BY DEF MapsInv
<1>3. ASSUME NEW i \in 1..Len(playerJoined'), NEW j \in 1..Len(playerJoined'),
             playerJoined'[i] = playerJoined'[j]
      PROVE  i = j
  BY <1>1, <1>2, <1>3
<1> QED
  BY <1>1, <1>2, <1>3

\* A player that was queued, and will come again, was not acked.
LEMMA HeadIsDone ==
  ASSUME Bounds, TeamInv, MapsInv, playerJoined # <<>>, T!Acked(playerJoined), request' = request,
         NEW p \in Players, p = playerJoined[1], Expected(p)'
  PROVE  teamFaults' = teamFaults + 1
<1>1. /\ 1 \in 1..Len(playerJoined)
      /\ \/ \A i \in 1..Len(playerJoined') :
              playerJoined'[i] = playerJoined[i + 1] /\ i + 1 \in 1..Len(playerJoined)
         \/ teamFaults' = teamFaults + 1
  BY AckedPlayer
<1>2. request'[p] \in {"accepted", "failed"}
  BY <1>1 DEF MapsInv
<1>3. PICK i \in 1..Len(playerJoined') : playerJoined'[i] = p
  BY <1>2 DEF Expected
<1>4. CASE playerJoined'[i] = playerJoined[i + 1] /\ i + 1 \in 1..Len(playerJoined)
  <2>1. i + 1 = 1
    BY <1>1, <1>3, <1>4 DEF MapsInv
  <2> QED
    BY <1>3, <2>1
<1> QED
  BY <1>1, <1>3, <1>4

LEMMA FindTeamStep ==
  ASSUME Bounds, TeamInv, T!FindTeam
  PROVE  TeamInv'
<1> DEFINE p == T!Joining
<1>1. PICK team \in T!TeamsOf(p) :
        teams' = (teams \ {team}) \cup {[team EXCEPT !.members = Append(@, p)]}
  BY DEF T!FindTeam
<1>2. /\ T!Offered /\ playerJoined # <<>> /\ returned = T!NoTeam /\ T!Acked(playerJoined)
      /\ UNCHANGED <<players, request, teamCreated, returned, created, unannounced,
                     scoreboards, restarts>>
  BY DEF T!FindTeam, T!Offered
<1> DEFINE new == [team EXCEPT !.members = Append(@, p)]
<1>3. /\ team \in teams /\ team.name = T!NameOf(p)
      /\ team \in [id : 1..created, name : T!Names, members : Seq(Member)]
  BY <1>1 DEF T!TeamsOf, TeamInv, TeamType
<1>4. p \in Member
  BY <1>2, JoiningIsMember
<1>5. Append(team.members, p) \in Seq(Member)
  BY <1>3, <1>4
<1>6. /\ new.id = team.id /\ new.name = team.name /\ new.members = Append(team.members, p)
      /\ new \in [id : 1..created, name : T!Names, members : Seq(Member)]
      /\ teams' = (teams \ {team}) \cup {new}
  BY <1>1, <1>3, <1>5
<1> HIDE DEF p, new
<1>7. TeamType'
  <2>1. teams' \subseteq [id : 1..created, name : T!Names, members : Seq(Member)]
    BY <1>3, <1>6 DEF TeamInv, TeamType
  <2> QED
    BY <1>2, <2>1, AckedPlayer
    DEF TeamInv, TeamType, Member, T!Names, T!EmptyName, T!Nobody, T!NoTeam
<1>8. ASSUME restarts = 0 PROVE MapsInv'
  <2>1. /\ MapsInv /\ p = playerJoined[1] /\ p \in Players /\ 1 \in 1..Len(playerJoined)
    BY <1>2, <1>8, JoiningIsKnown DEF TeamInv, p
  <2>2. \A q, t : Times(q, t)' = Times(q, t) /\ IsMember(q, t)' = IsMember(q, t)
                  /\ T!NameOf(q)' = T!NameOf(q)
    BY DEF Times, IsMember, T!NameOf, T!Nobody, T!EmptyName
  <2>3. /\ Len(new.members) = Len(team.members) + 1 /\ Len(team.members) \in Nat
        /\ \A i \in 1..Len(team.members) : new.members[i] = team.members[i]
        /\ new.members[Len(team.members) + 1] = p
    BY <1>3, <1>4, <1>6, Appended
  <2>4. IsMember(p, new) /\ \A q : IsMember(q, team) => IsMember(q, new)
    BY <2>3 DEF IsMember
  <2>5. \A a, b \in teams' : a.name = b.name => a = b
    BY <1>3, <1>6, <2>1 DEF MapsInv
  <2>6. \A t \in teams' : \A i \in 1..Len(t.members) : T!NameOf(t.members[i]) = t.name
    <3>1. \A i \in 1..Len(new.members) : T!NameOf(new.members[i]) = new.name
      BY <1>3, <1>6, <2>1, <2>3 DEF MapsInv
    <3> QED
      BY <1>6, <2>1, <3>1 DEF MapsInv
  <2>7. ASSUME NEW q \in Players, request[q] = "accepted"
        PROVE  Queued(q)' \/ \E t \in teams' : IsMember(q, t)
    <3>1. CASE q = p
      BY <1>6, <2>4, <3>1
    <3>2. CASE q # p
      <4>1. Queued(q) => Queued(q)'
        BY <1>2, <2>1, <3>2, AfterAck
      <4>2. (\E t \in teams : IsMember(q, t)) => \E t \in teams' : IsMember(q, t)
        BY <1>6, <2>4
      <4> QED
        BY <2>1, <2>7, <4>1, <4>2 DEF MapsInv
    <3> QED
      BY <3>1, <3>2
  <2>8. ASSUME NEW q \in Players, NEW t \in teams'
        PROVE  /\ Times(q, t) <= 1 + teamFaults'
               /\ Expected(q)' => Times(q, t) <= teamFaults'
    <3>1. Times(q, team) \in Nat /\ (t \in teams => Times(q, t) \in Nat)
      BY <1>3, TimesIsNat DEF TeamInv
    <3>2. Times(q, new) = Times(q, team) + (IF p = q THEN 1 ELSE 0)
      BY <1>3, <1>4, <1>6, OnePositionMore DEF Times
    <3>3. teamFaults \in Nat /\ (teamFaults' = teamFaults \/ teamFaults' = teamFaults + 1)
      BY <1>2, AckedPlayer DEF TeamInv, TeamType
    <3>4. /\ Times(q, team) <= 1 + teamFaults
          /\ t \in teams => Times(q, t) <= 1 + teamFaults
          /\ Expected(q) => Times(q, team) <= teamFaults
          /\ Expected(q) /\ t \in teams => Times(q, t) <= teamFaults
      BY <1>3, <2>1 DEF MapsInv
    <3>5. CASE q # p
      <4>1. Expected(q)' => Expected(q)
        BY <1>2, <2>1, <3>5, AfterAck
      <4>2. t \in teams \/ t = new
        BY <1>6
      <4> QED
        BY <3>1, <3>2, <3>3, <3>4, <3>5, <4>1, <4>2
    <3>6. CASE q = p
      <4>1. Expected(q)
        BY <1>2, <2>1, <3>6 DEF Expected
      <4>2. Expected(q)' => teamFaults' = teamFaults + 1
        BY <1>2, <2>1, <3>6, HeadIsDone
      <4>3. t \in teams \/ t = new
        BY <1>6
      <4> QED
        BY <3>1, <3>2, <3>3, <3>4, <3>6, <4>1, <4>2, <4>3
    <3> QED
      BY <3>5, <3>6
  <2>9. /\ \A i \in 1..Len(playerJoined') : request'[playerJoined'[i]] \in {"accepted", "failed"}
        /\ \A i, j \in 1..Len(playerJoined') : playerJoined'[i] = playerJoined'[j] => i = j
    BY <1>2, <2>1, QueueStays
  <2>10. players' = {q \in Players : request'[q] # "none"}
    BY <1>2, <2>1 DEF MapsInv
  <2> QED
    BY <1>2, <2>2, <2>5, <2>6, <2>7, <2>8, <2>9, <2>10 DEF MapsInv, T!NoTeam
<1> QED
  BY <1>2, <1>7, <1>8 DEF TeamInv

LEMMA CreateTeamStep ==
  ASSUME Bounds, TeamInv, T!CreateTeam
  PROVE  TeamInv'
<1> DEFINE p == T!Joining
           new == [id |-> created + 1, name |-> T!NameOf(p), members |-> <<p>>]
<1>1. /\ T!Offered /\ playerJoined # <<>> /\ returned = T!NoTeam /\ T!TeamsOf(p) = {}
      /\ created' = created + 1 /\ teams' = teams \cup {new} /\ returned' = created + 1
      /\ UNCHANGED <<players, request, playerJoined, teamCreated, unannounced, scoreboards,
                     restarts, teamFaults>>
  BY DEF T!CreateTeam, T!Offered, T!streams
<1>2. p \in Member /\ T!NameOf(p) \in T!Names
  BY <1>1, JoiningIsMember
<1>3. /\ new.id = created + 1 /\ new.name = T!NameOf(p) /\ new.members = <<p>>
      /\ <<p>> \in Seq(Member) /\ Len(<<p>>) = 1 /\ <<p>>[1] = p
  BY <1>2
<1>4. new \in [id : 1..created', name : T!Names, members : Seq(Member)]
  BY <1>1, <1>2, <1>3 DEF TeamInv, TeamType
<1> HIDE DEF p, new
<1>5. TeamType'
  <2>1. teams' \subseteq [id : 1..created', name : T!Names, members : Seq(Member)]
    <3> SUFFICES ASSUME NEW team \in teams'
                 PROVE  team \in [id : 1..created', name : T!Names, members : Seq(Member)]
      OBVIOUS
    <3>1. CASE team \in teams
      <4>1. 1..created \subseteq 1..created'
        BY <1>1 DEF TeamInv, TeamType
      <4>2. team \in [id : 1..created, name : T!Names, members : Seq(Member)]
        BY <3>1 DEF TeamInv, TeamType
      <4> QED
        BY <4>1, <4>2
    <3> QED
      BY <1>1, <1>4, <3>1
  <2>2. /\ created' \in Nat /\ returned' \in 0..created'
        /\ \A i \in 1..Len(teamCreated') : teamCreated'[i] \in 1..created'
        /\ unannounced' \subseteq 1..created' /\ scoreboards' \subseteq 1..created'
    BY <1>1 DEF TeamInv, TeamType
  <2> QED
    BY <1>1, <2>1, <2>2
    DEF TeamInv, TeamType, Member, T!Names, T!EmptyName, T!Nobody, T!NoTeam
<1>6. ASSUME restarts = 0 PROVE MapsInv'
  <2>1. /\ MapsInv /\ p = playerJoined[1] /\ p \in Players /\ 1 \in 1..Len(playerJoined)
    BY <1>1, <1>6, JoiningIsKnown DEF TeamInv, p
  <2>2. \A q, t : Times(q, t)' = Times(q, t) /\ IsMember(q, t)' = IsMember(q, t)
                  /\ T!NameOf(q)' = T!NameOf(q)
    BY DEF Times, IsMember, T!NameOf, T!Nobody, T!EmptyName
  <2>3. \A team \in teams : team.name # new.name
    BY <1>1, <1>3 DEF T!TeamsOf
  <2>4. \A a, b \in teams' : a.name = b.name => a = b
    BY <1>1, <2>1, <2>3 DEF MapsInv
  <2>5. \A t \in teams' : \A i \in 1..Len(t.members) : T!NameOf(t.members[i]) = t.name
    <3>1. \A i \in 1..Len(new.members) : T!NameOf(new.members[i]) = new.name
      BY <1>3
    <3> QED
      BY <1>1, <2>1, <3>1 DEF MapsInv
  <2>6. IsMember(p, new) /\ new \in teams'
    BY <1>1, <1>3 DEF IsMember
  <2>7. \A q \in Players : Queued(q)' = Queued(q) /\ (Expected(q)' => Expected(q) /\ q # p)
    <3> SUFFICES ASSUME NEW q \in Players
                 PROVE  Queued(q)' = Queued(q) /\ (Expected(q)' => Expected(q) /\ q # p)
      OBVIOUS
    <3>1. Queued(q)' = Queued(q)
      BY <1>1 DEF Queued
    <3>2. ASSUME Expected(q)' PROVE Expected(q) /\ q # p
      <4>1. CASE request[q] \in {"none", "stored"}
        BY <2>1, <4>1 DEF MapsInv, Expected
      <4>2. CASE \E i \in 1..Len(playerJoined) : playerJoined[i] = q /\ i # 1
        BY <1>1, <2>1, <4>2 DEF MapsInv, Expected
      <4>3. returned' # T!NoTeam
        BY <1>1 DEF TeamInv, TeamType, T!NoTeam
      <4> QED
        BY <1>1, <3>2, <4>1, <4>2, <4>3 DEF Expected, T!NoTeam
    <3> QED
      BY <3>1, <3>2
  <2>8. ASSUME NEW q \in Players, NEW t \in teams'
        PROVE  /\ Times(q, t) <= 1 + teamFaults'
               /\ Expected(q)' => Times(q, t) <= teamFaults'
    <3>1. CASE t \in teams
      BY <1>1, <2>1, <2>7, <3>1 DEF MapsInv
    <3>2. CASE t = new
      <4>1. Times(q, new) = Cardinality(Positions(<<p>>, q))
        BY <1>3 DEF Times
      <4>2. Positions(<<p>>, q) = IF p = q THEN {1} ELSE {}
        BY <1>3 DEF Positions
      <4>3. Cardinality({1}) = 1 /\ Cardinality({}) = 0
        BY FS_Singleton, FS_EmptySet
      <4>4. Times(q, new) = IF p = q THEN 1 ELSE 0
        BY <4>1, <4>2, <4>3
      <4> QED
        BY <1>1, <2>7, <3>2, <4>4 DEF TeamInv, TeamType
    <3> QED
      BY <1>1, <3>1, <3>2
  <2>9. \A q \in Players : request'[q] = "accepted" =>
          Queued(q)' \/ \E t \in teams' : IsMember(q, t)
    BY <1>1, <2>1, <2>7 DEF MapsInv
  <2> QED
    BY <1>1, <2>1, <2>2, <2>4, <2>5, <2>6, <2>8, <2>9 DEF MapsInv
<1> QED
  BY <1>1, <1>5, <1>6 DEF TeamInv

LEMMA PublishCreatedStep ==
  ASSUME Bounds, TeamInv, T!PublishTeamCreated
  PROVE  TeamInv'
<1>1. /\ returned # T!NoTeam /\ returned' = T!NoTeam /\ playerJoined # <<>>
      /\ UNCHANGED <<players, teams, request, created, scoreboards, restarts>>
  BY DEF T!PublishTeamCreated, T!maps, TeamInv, TeamType
<1>2. returned \in 1..created
  BY <1>1 DEF TeamInv, TeamType, T!NoTeam
<1>3. T!Acked(playerJoined)
  BY DEF T!PublishTeamCreated, T!Acked, T!streams
<1>4. /\ unannounced' \subseteq 1..created
      /\ teamCreated' \in Seq(Nat) /\ \A i \in 1..Len(teamCreated') : teamCreated'[i] \in 1..created
  <2>1. CASE teamCreated' = Append(teamCreated, returned) /\ unannounced' = unannounced
    <3>1. /\ Append(teamCreated, returned) \in Seq(Nat)
          /\ Len(Append(teamCreated, returned)) = Len(teamCreated) + 1 /\ Len(teamCreated) \in Nat
          /\ \A i \in 1..Len(teamCreated) : Append(teamCreated, returned)[i] = teamCreated[i]
          /\ Append(teamCreated, returned)[Len(teamCreated) + 1] = returned
      BY <1>2, Appended DEF TeamInv, TeamType
    <3> QED
      BY <1>2, <2>1, <3>1 DEF TeamInv, TeamType
  <2>2. CASE teamCreated' = teamCreated /\ unannounced' = unannounced \cup {returned}
    BY <1>2, <2>2 DEF TeamInv, TeamType
  <2> QED
    BY <2>1, <2>2 DEF T!PublishTeamCreated, T!streams
<1>5. TeamType'
  <2>1. returned' \in 0..created'
    BY <1>1 DEF TeamInv, TeamType, T!NoTeam
  <2>2. playerJoined' \in Seq(Players) /\ teamFaults' \in Nat
        /\ restarts + teamFaults' <= MaxFaults["teams"]
    BY <1>1, <1>3, AckedPlayer
  <2> QED
    BY <1>1, <1>4, <2>1, <2>2
    DEF TeamInv, TeamType, Member, T!Names, T!EmptyName, T!Nobody, T!NoTeam
<1>6. ASSUME MapsInv PROVE MapsInv'
  <2> DEFINE p == playerJoined[1]
  <2>1. p \in Players /\ 1 \in 1..Len(playerJoined)
    BY <1>1, <1>3, AckedPlayer
  <2>2. \A q, t : Times(q, t)' = Times(q, t) /\ IsMember(q, t)' = IsMember(q, t)
                  /\ T!NameOf(q)' = T!NameOf(q)
    BY DEF Times, IsMember, T!NameOf, T!Nobody, T!EmptyName
  <2>3. \E t \in teams : IsMember(p, t)
    BY <1>1, <1>6 DEF MapsInv
  <2> HIDE DEF p
  <2>4. ASSUME NEW q \in Players, request[q] = "accepted"
        PROVE  Queued(q)' \/ \E t \in teams : IsMember(q, t)
    <3>1. CASE q = p
      BY <2>3, <3>1
    <3>2. CASE q # p
      BY <1>1, <1>3, <1>6, <2>4, <3>2, AfterAck DEF MapsInv, p
    <3> QED
      BY <3>1, <3>2
  <2>5. ASSUME NEW q \in Players, NEW t \in teams
        PROVE  /\ Times(q, t) <= 1 + teamFaults'
               /\ Expected(q)' => Times(q, t) <= teamFaults'
    <3>1. Times(q, t) \in Nat /\ teamFaults \in Nat
      BY TimesIsNat DEF TeamInv, TeamType
    <3>2. teamFaults' = teamFaults \/ teamFaults' = teamFaults + 1
      BY <1>1, <1>3, AckedPlayer
    <3>3. Times(q, t) <= 1 + teamFaults /\ (Expected(q) => Times(q, t) <= teamFaults)
      BY <1>6 DEF MapsInv
    <3>4. Expected(q)' => Expected(q) \/ teamFaults' = teamFaults + 1
      BY <1>1, <1>3, <1>6, AfterAck, HeadIsDone DEF p
    <3> QED
      BY <3>1, <3>2, <3>3, <3>4
  <2>6. /\ \A i \in 1..Len(playerJoined') : request'[playerJoined'[i]] \in {"accepted", "failed"}
        /\ \A i, j \in 1..Len(playerJoined') : playerJoined'[i] = playerJoined'[j] => i = j
    BY <1>1, <1>3, <1>6, QueueStays
  <2> QED
    BY <1>1, <1>6, <2>2, <2>4, <2>5, <2>6 DEF MapsInv, T!NoTeam
<1> QED
  BY <1>1, <1>5, <1>6 DEF TeamInv

LEMMA TeamCreatedStep ==
  ASSUME Bounds, TeamInv, T!OnTeamCreated
  PROVE  TeamInv'
<1>1. /\ teamCreated # <<>>
      /\ UNCHANGED <<players, teams, request, playerJoined, returned, created, unannounced,
                     restarts>>
  BY DEF T!OnTeamCreated, T!maps
<1>2. /\ Tail(teamCreated) \in Seq(Nat) /\ Head(teamCreated) \in 1..created
      /\ \A i \in 1..Len(Tail(teamCreated)) : Tail(teamCreated)[i] \in 1..created
  <2>1. 1 \in 1..Len(teamCreated)
    BY <1>1 DEF TeamInv, TeamType
  <2> QED
    BY <1>1, <2>1, Dropped DEF TeamInv, TeamType
<1>3. scoreboards' \subseteq 1..created
  BY <1>2 DEF T!OnTeamCreated, TeamInv, TeamType
<1>4. /\ teamCreated' \in Seq(Nat)
      /\ \A i \in 1..Len(teamCreated') : teamCreated'[i] \in 1..created
  BY <1>2 DEF T!OnTeamCreated, T!Acked, TeamInv, TeamType
<1>5. /\ teamFaults' \in Nat /\ teamFaults' >= teamFaults
      /\ restarts + teamFaults' <= MaxFaults["teams"]
  <2>1. UNCHANGED teamFaults \/ T!Fault
    BY DEF T!OnTeamCreated, T!Acked
  <2>2. /\ restarts \in Nat /\ teamFaults \in Nat /\ restarts + teamFaults <= MaxFaults["teams"]
        /\ MaxFaults["teams"] \in Nat
    BY FaultBounds DEF TeamInv, TeamType
  <2> QED
    BY <2>1, <2>2 DEF T!Fault, T!Bounded
<1>6. TeamType'
  BY <1>1, <1>3, <1>4, <1>5
  DEF TeamInv, TeamType, Member, T!Names, T!EmptyName, T!Nobody, T!NoTeam
<1>7. ASSUME MapsInv PROVE MapsInv'
  <2>1. \A q, t : Times(q, t)' = Times(q, t) /\ IsMember(q, t)' = IsMember(q, t)
                  /\ T!NameOf(q)' = T!NameOf(q) /\ Queued(q)' = Queued(q)
                  /\ Expected(q)' = Expected(q)
    BY <1>1
    DEF Times, IsMember, T!NameOf, T!Nobody, T!EmptyName, Queued, Expected, T!NoTeam
  <2>2. ASSUME NEW q \in Players, NEW t \in teams
        PROVE  /\ Times(q, t) <= 1 + teamFaults'
               /\ Expected(q) => Times(q, t) <= teamFaults'
    <3>1. Times(q, t) \in Nat /\ teamFaults \in Nat
      BY TimesIsNat DEF TeamInv, TeamType
    <3>2. Times(q, t) <= 1 + teamFaults /\ (Expected(q) => Times(q, t) <= teamFaults)
      BY <1>7 DEF MapsInv
    <3> QED
      BY <1>5, <3>1, <3>2
  <2> QED
    BY <1>1, <1>7, <2>1, <2>2 DEF MapsInv, T!NoTeam
<1> QED
  BY <1>1, <1>6, <1>7 DEF TeamInv

LEMMA TeamRestartStep ==
  ASSUME Bounds, TeamInv, T!Restart
  PROVE  TeamInv'
<1>1. /\ restarts' = restarts + 1 /\ players' = {} /\ teams' = {} /\ returned' = T!NoTeam
      /\ unannounced' = unannounced \cup ({returned} \ {T!NoTeam})
      /\ UNCHANGED <<playerJoined, teamCreated, created, scoreboards, teamFaults>>
      /\ restarts + teamFaults < MaxFaults["teams"]
  BY DEF T!Restart, T!Bounded, T!streams
<1>2. request' \in [Players -> {"none", "stored", "accepted", "failed"}]
  BY DEF T!Restart, TeamInv, TeamType
<1>3. /\ unannounced' \subseteq 1..created' /\ returned' \in 0..created'
      /\ restarts' \in Nat /\ restarts' # 0 /\ restarts' + teamFaults' <= MaxFaults["teams"]
  BY <1>1, FaultBounds DEF TeamInv, TeamType, T!NoTeam
<1>4. TeamType'
  BY <1>1, <1>2, <1>3
  DEF TeamInv, TeamType, Member, T!Names, T!EmptyName, T!Nobody, T!NoTeam
<1> QED
  BY <1>3, <1>4 DEF TeamInv

LEMMA TeamStep == Bounds /\ TeamInv /\ [Next]_vars => TeamInv'
<1> SUFFICES ASSUME Bounds, TeamInv, [Next]_vars PROVE TeamInv'
  OBVIOUS
<1>1. CASE UNCHANGED T!vars
  <2>1. UNCHANGED <<players, teams, request, playerJoined, teamCreated, returned, created,
                    unannounced, scoreboards, restarts, teamFaults>>
    BY <1>1 DEF T!vars, T!maps, T!streams
  <2>2. TeamType'
    BY <2>1 DEF TeamInv, TeamType, Member, T!Names, T!EmptyName, T!Nobody, T!NoTeam
  <2>3. \A q, t : Times(q, t)' = Times(q, t) /\ IsMember(q, t)' = IsMember(q, t)
                  /\ T!NameOf(q)' = T!NameOf(q) /\ Queued(q)' = Queued(q)
                  /\ Expected(q)' = Expected(q)
    BY <2>1
    DEF Times, IsMember, T!NameOf, T!Nobody, T!EmptyName, Queued, Expected, T!NoTeam
  <2> QED
    BY <2>1, <2>2, <2>3 DEF TeamInv, MapsInv, T!NoTeam
<1> QED
  BY <1>1, TeamSteps, AddPlayerStep, PublishJoinedStep, FindTeamStep, CreateTeamStep,
     PublishCreatedStep, TeamCreatedStep, TeamRestartStep DEF T!Next, T!OnPlayerJoined

\* However player_joined is repeated, every player is in the team of the request, and in no
\* other, until the maps are lost; one more time at most than there were faults.
THEOREM PlayersAreInTheirTeamHolds == Bounds => (Spec => []PlayersAreInTheirTeam)
<1> SUFFICES ASSUME Bounds PROVE Spec => []PlayersAreInTheirTeam
  OBVIOUS
<1>1. Init => TeamInv
  BY TeamInit DEF Init
<1> QED
  BY <1>1, TeamStep, TeamInvImplies, PTL DEF Spec

-----------------------------------------------------------------------------
(* The orders *)

\* What the requests and the commands hold: quantities of products, and an order id.
OrderInputs ==
  /\ OrderOf \in [Requests -> Orders]
  /\ \A r \in Requests : /\ O!ProductsOf(r) \subseteq Products
                         /\ \A p \in O!ProductsOf(r) : Quantity[r][p] \in Int
  /\ \A c \in Commands : /\ O!CommandProducts(c) \subseteq Products
                         /\ \A p \in O!CommandProducts(c) : CommandQuantity[c][p] \in Int
  /\ DOMAIN InitialStock \subseteq Products
  /\ \A p \in DOMAIN InitialStock : InitialStock[p] \in Int
  /\ Deliveries \subseteq [product : Products, quantity : Nat]

CommitPcs == {"commit_cancel", "commit_ship"}

Transaction ==
  [pc : {"idle", "loop", "take", "cancel", "ship", "done"} \cup CommitPcs,
   left : SUBSET Products, product : Products \cup {O!NoProduct},
   taken : SUBSET Products, snapshot : BOOLEAN, changed : SUBSET Products]

\* What a transaction has taken and has still to take.
Progress(t, products) ==
  /\ t.taken \subseteq products
  /\ t.pc = "idle" => t.taken = {}
  /\ t.pc \in {"loop", "take", "cancel"} =>
       t.left \cap t.taken = {} /\ t.left \cup t.taken = products
  /\ t.pc \in {"take", "cancel"} => t.product \in t.left
  /\ t.pc \in {"ship", "commit_ship"} => t.taken = products
  /\ t.pc = "commit_cancel" => \E p \in products : p \notin t.taken

\* The invariant behind OrdersMatchProducts: a transaction about to commit has taken all
\* products, or lacks one; its order has no row yet, and nobody else is about to insert it.
OrdersInv ==
  /\ orders \in [Orders -> {"none", "shipped", "cancelled"}]
  /\ orderProducts \subseteq [order : Orders, product : Products, quantity : Int]
  /\ tx \in [Requests -> Transaction]
  /\ \A r \in Requests : Progress(tx[r], O!ProductsOf(r))
  /\ \A r \in Requests : tx[r].pc \in CommitPcs => orders[OrderOf[r]] = "none"
  /\ \A r, s \in Requests :
       tx[r].pc \in CommitPcs /\ tx[s].pc \in CommitPcs /\ OrderOf[r] = OrderOf[s] => r = s
  /\ O!OrdersMatchProducts

LEMMA TakenByType ==
  ASSUME OrderInputs, NEW c \in Commands, NEW p
  PROVE  O!TakenBy(c, p) \in Int
BY DEF OrderInputs, O!TakenBy

LEMMA OrdersInit == OrderInputs /\ O!Init => OrdersInv
<1> SUFFICES ASSUME OrderInputs, O!Init PROVE OrdersInv
  OBVIOUS
<1>1. /\ orders = [o \in Orders |-> "none"] /\ orderProducts = {}
      /\ tx = [r \in Requests |-> O!Idle]
  BY DEF O!Init
<1>2. /\ O!Idle \in Transaction /\ O!Idle.pc = "idle"
      /\ \A products : Progress(O!Idle, products)
  BY DEF O!Idle, Transaction, Progress, O!NoProduct
<1>3. O!OrdersMatchProducts
  BY <1>1 DEF O!OrdersMatchProducts
<1> QED
  BY <1>1, <1>2, <1>3 DEF OrdersInv, CommitPcs

LEMMA SameRows ==
  O!OrdersMatchProducts /\ UNCHANGED <<orders, orderProducts>> => O!OrdersMatchProducts'
<1> SUFFICES ASSUME O!OrdersMatchProducts, UNCHANGED <<orders, orderProducts>>
             PROVE  O!OrdersMatchProducts'
  OBVIOUS
<1>1. \A s \in Requests : O!ProductsOf(s)' = O!ProductsOf(s)
  BY DEF O!ProductsOf
<1> QED
  BY <1>1 DEF O!OrdersMatchProducts, O!HasProduct

LEMMA SnapshotTaken ==
  ASSUME NEW t \in Transaction, NEW u, u = [t EXCEPT !.snapshot = TRUE]
  PROVE  /\ u \in Transaction /\ u.pc = t.pc /\ u.taken = t.taken /\ u.left = t.left
         /\ u.product = t.product
BY DEF Transaction

\* A step of one transaction that inserts no rows.
LEMMA TransactionStep ==
  ASSUME OrdersInv, NEW r \in Requests, UNCHANGED <<orders, orderProducts>>,
         tx' \in [Requests -> Transaction],
         \A s \in Requests : s # r => tx'[s] = tx[s],
         Progress(tx'[r], O!ProductsOf(r)),
         tx'[r].pc \in CommitPcs =>
           /\ orders[OrderOf[r]] = "none"
           /\ \A s \in Requests : s # r /\ OrderOf[r] = OrderOf[s] => tx[s].pc \notin CommitPcs
  PROVE  OrdersInv'
<1>1. \A s \in Requests : O!ProductsOf(s)' = O!ProductsOf(s)
  BY DEF O!ProductsOf
<1>2. \A s \in Requests : Progress(tx[s], O!ProductsOf(s))'
  BY <1>1 DEF OrdersInv, Progress
<1>3. O!OrdersMatchProducts'
  BY <1>1, SameRows DEF OrdersInv
<1>4. \A s \in Requests : tx'[s].pc \in CommitPcs => orders[OrderOf[s]] = "none"
  BY DEF OrdersInv
<1>5. \A s, t \in Requests :
        tx'[s].pc \in CommitPcs /\ tx'[t].pc \in CommitPcs /\ OrderOf[s] = OrderOf[t] => s = t
  BY DEF OrdersInv
<1> QED
  BY <1>2, <1>3, <1>4, <1>5 DEF OrdersInv, CommitPcs, Transaction

\* A transaction that is rolled back has nothing any more.
LEMMA RollbackStep ==
  ASSUME OrdersInv, NEW r \in Requests, O!Rollback(r), UNCHANGED <<orders, orderProducts>>
  PROVE  OrdersInv'
<1>1. tx' = [tx EXCEPT ![r] = [O!Idle EXCEPT !.pc = "done"]]
  BY DEF O!Rollback
<1> DEFINE done == [O!Idle EXCEPT !.pc = "done"]
<1>2. done \in Transaction /\ done.pc = "done" /\ done.taken = {}
  BY DEF O!Idle, Transaction, O!NoProduct
<1> HIDE DEF done
<1>3. /\ tx' \in [Requests -> Transaction] /\ tx'[r] = done
      /\ \A s \in Requests : s # r => tx'[s] = tx[s]
  BY <1>1, <1>2 DEF OrdersInv, done
<1>4. Progress(tx'[r], O!ProductsOf(r))
  BY <1>2, <1>3 DEF Progress
<1> QED
  BY <1>2, <1>3, <1>4, TransactionStep DEF CommitPcs

LEMMA BeginStep ==
  ASSUME OrderInputs, OrdersInv, NEW r \in Requests, O!Begin(r)
  PROVE  OrdersInv'
<1>1. /\ tx[r].pc = "idle" /\ UNCHANGED <<orders, orderProducts>>
      /\ tx' = [tx EXCEPT ![r].pc = "loop", ![r].left = O!ProductsOf(r)]
  BY DEF O!Begin
<1>2. tx[r] \in Transaction /\ O!ProductsOf(r) \subseteq Products
  BY DEF OrdersInv, OrderInputs
<1>3. tx'[r] = [tx[r] EXCEPT !.pc = "loop", !.left = O!ProductsOf(r)]
      /\ \A s \in Requests : s # r => tx'[s] = tx[s]
  BY <1>1 DEF OrdersInv
<1>4. tx'[r] \in Transaction /\ tx'[r].pc = "loop" /\ tx'[r].left = O!ProductsOf(r)
      /\ tx'[r].taken = tx[r].taken
  BY <1>2, <1>3 DEF Transaction
<1>5. tx' \in [Requests -> Transaction]
  BY <1>1, <1>3, <1>4 DEF OrdersInv
<1>6. Progress(tx'[r], O!ProductsOf(r))
  BY <1>1, <1>4 DEF OrdersInv, Progress
<1> QED
  BY <1>1, <1>3, <1>4, <1>5, <1>6, TransactionStep DEF CommitPcs

LEMMA ReadStockStep ==
  ASSUME OrdersInv, NEW r \in Requests, O!ReadStock(r)
  PROVE  OrdersInv'
<1>1. tx[r].pc = "loop" /\ UNCHANGED <<orders, orderProducts>> /\ tx[r] \in Transaction
  BY DEF O!ReadStock, OrdersInv
<1>2. ASSUME NEW p \in tx[r].left, NEW next \in {"take", "cancel"},
             tx' = [tx EXCEPT ![r].pc = next, ![r].product = p]
      PROVE  OrdersInv'
  <2>1. tx'[r] = [tx[r] EXCEPT !.pc = next, !.product = p]
        /\ \A s \in Requests : s # r => tx'[s] = tx[s]
    BY <1>2 DEF OrdersInv
  <2>2. /\ tx'[r] \in Transaction /\ tx'[r].pc = next /\ tx'[r].left = tx[r].left
        /\ tx'[r].taken = tx[r].taken /\ tx'[r].product = p
    BY <1>1, <2>1 DEF Transaction
  <2>3. tx' \in [Requests -> Transaction]
    BY <1>2, <2>1, <2>2 DEF OrdersInv
  <2>4. Progress(tx'[r], O!ProductsOf(r))
    BY <1>1, <2>2 DEF OrdersInv, Progress
  <2> QED
    BY <1>1, <2>1, <2>2, <2>3, <2>4, TransactionStep DEF CommitPcs
<1>3. CASE O!Rollback(r)
  BY <1>1, <1>3, RollbackStep
<1> QED
  BY <1>2, <1>3 DEF O!ReadStock

LEMMA AllTakenStep ==
  ASSUME OrdersInv, NEW r \in Requests, O!AllTaken(r)
  PROVE  OrdersInv'
<1>1. /\ tx[r].pc = "loop" /\ tx[r].left = {} /\ UNCHANGED <<orders, orderProducts>>
      /\ tx[r] \in Transaction /\ tx' = [tx EXCEPT ![r].pc = "ship"]
  BY DEF O!AllTaken, OrdersInv
<1>2. tx'[r] = [tx[r] EXCEPT !.pc = "ship"] /\ \A s \in Requests : s # r => tx'[s] = tx[s]
  BY <1>1 DEF OrdersInv
<1>3. tx'[r] \in Transaction /\ tx'[r].pc = "ship" /\ tx'[r].taken = tx[r].taken
  BY <1>1, <1>2 DEF Transaction
<1>4. tx' \in [Requests -> Transaction]
  BY <1>1, <1>2, <1>3 DEF OrdersInv
<1>5. Progress(tx'[r], O!ProductsOf(r))
  BY <1>1, <1>3 DEF OrdersInv, Progress
<1> QED
  BY <1>1, <1>2, <1>3, <1>4, <1>5, TransactionStep DEF CommitPcs

LEMMA SnapshotStep ==
  ASSUME OrdersInv, NEW r \in Requests, O!Snapshot(r)
  PROVE  OrdersInv'
<1>1. /\ tx[r].pc \in {"take", "cancel", "ship"} /\ UNCHANGED <<orders, orderProducts>>
      /\ tx[r] \in Transaction /\ tx' = [tx EXCEPT ![r].snapshot = TRUE]
  BY DEF O!Snapshot, OrdersInv
<1>2. tx'[r] = [tx[r] EXCEPT !.snapshot = TRUE] /\ \A s \in Requests : s # r => tx'[s] = tx[s]
  BY <1>1 DEF OrdersInv
<1>3. /\ tx'[r] \in Transaction /\ tx'[r].pc = tx[r].pc /\ tx'[r].taken = tx[r].taken
      /\ tx'[r].left = tx[r].left /\ tx'[r].product = tx[r].product
  BY <1>1, <1>2, SnapshotTaken
<1>4. tx' \in [Requests -> Transaction]
  BY <1>1, <1>2, <1>3 DEF OrdersInv
<1>5. Progress(tx'[r], O!ProductsOf(r))
  BY <1>3 DEF OrdersInv, Progress
<1> QED
  BY <1>1, <1>2, <1>3, <1>4, <1>5, TransactionStep DEF CommitPcs

LEMMA TakeStep ==
  ASSUME OrdersInv, NEW r \in Requests, O!Take(r)
  PROVE  OrdersInv'
<1> DEFINE p == tx[r].product
<1>1. tx[r].pc = "take" /\ UNCHANGED <<orders, orderProducts>> /\ tx[r] \in Transaction
  BY DEF O!Take, OrdersInv
<1>2. ASSUME tx' = [tx EXCEPT ![r].pc = "loop", ![r].product = O!NoProduct,
                              ![r].taken = @ \cup {p}, ![r].left = @ \ {p}]
      PROVE  OrdersInv'
  <2>1. tx'[r] = [tx[r] EXCEPT !.pc = "loop", !.product = O!NoProduct,
                               !.taken = @ \cup {p}, !.left = @ \ {p}]
        /\ \A s \in Requests : s # r => tx'[s] = tx[s]
    BY <1>2 DEF OrdersInv
  <2>2. p \in tx[r].left /\ p \in Products
    BY <1>1 DEF OrdersInv, Progress, Transaction
  <2>3. /\ tx'[r] \in Transaction /\ tx'[r].pc = "loop"
        /\ tx'[r].taken = tx[r].taken \cup {p} /\ tx'[r].left = tx[r].left \ {p}
    <3> DEFINE t == tx[r]
               u == tx'[r]
    <3>1. t \in Transaction /\ p \in Products
      BY <1>1, <2>2
    <3>2. u = [t EXCEPT !.pc = "loop", !.product = O!NoProduct,
                        !.taken = @ \cup {p}, !.left = @ \ {p}]
      BY <2>1
    <3> HIDE DEF p, t, u
    <3>3. /\ u \in Transaction /\ u.pc = "loop"
          /\ u.taken = t.taken \cup {p} /\ u.left = t.left \ {p}
      BY <3>1, <3>2 DEF Transaction
    <3> QED
      BY <3>3 DEF t, u
  <2>4. tx' \in [Requests -> Transaction]
    BY <1>2, <2>1, <2>3 DEF OrdersInv
  <2>5. Progress(tx'[r], O!ProductsOf(r))
    BY <1>1, <2>2, <2>3 DEF OrdersInv, Progress
  <2> QED
    BY <1>1, <2>1, <2>3, <2>4, <2>5, TransactionStep DEF CommitPcs
<1>3. CASE O!Rollback(r)
  BY <1>1, <1>3, RollbackStep
<1> QED
  BY <1>2, <1>3 DEF O!Take

LEMMA InsertOrderStep ==
  ASSUME OrdersInv, NEW r \in Requests, O!InsertOrder(r)
  PROVE  OrdersInv'
<1>1. /\ tx[r].pc \in {"cancel", "ship"} /\ UNCHANGED <<orders, orderProducts>>
      /\ tx[r] \in Transaction /\ ~O!Waiting(r)
  BY DEF O!InsertOrder, OrdersInv
<1>2. ASSUME orders[OrderOf[r]] = "none",
             tx' = [tx EXCEPT ![r].pc = IF @ = "ship" THEN "commit_ship" ELSE "commit_cancel"]
      PROVE  OrdersInv'
  <2> DEFINE next == IF tx[r].pc = "ship" THEN "commit_ship" ELSE "commit_cancel"
  <2>1. tx'[r] = [tx[r] EXCEPT !.pc = next] /\ \A s \in Requests : s # r => tx'[s] = tx[s]
    BY <1>2 DEF OrdersInv
  <2>2. /\ tx'[r] \in Transaction /\ tx'[r].pc = next /\ tx'[r].taken = tx[r].taken
    BY <1>1, <2>1 DEF Transaction, CommitPcs
  <2>3. tx' \in [Requests -> Transaction]
    BY <1>2, <2>1, <2>2 DEF OrdersInv
  <2>4. Progress(tx'[r], O!ProductsOf(r))
    <3>1. Progress(tx[r], O!ProductsOf(r))
      BY DEF OrdersInv
    <3>2. CASE tx[r].pc = "ship"
      BY <2>2, <3>1, <3>2 DEF Progress
    <3>3. CASE tx[r].pc = "cancel"
      <4>1. tx[r].product \in O!ProductsOf(r) /\ tx[r].product \notin tx[r].taken
        BY <3>1, <3>3 DEF Progress
      <4> QED
        BY <2>2, <3>1, <3>3, <4>1 DEF Progress
    <3> QED
      BY <1>1, <3>2, <3>3
  <2>5. \A s \in Requests : s # r /\ OrderOf[r] = OrderOf[s] => tx[s].pc \notin CommitPcs
    BY <1>1 DEF O!Waiting, O!WaitsFor, CommitPcs
  <2> QED
    BY <1>1, <1>2, <2>1, <2>3, <2>4, <2>5, TransactionStep
<1>3. CASE O!Rollback(r)
  BY <1>1, <1>3, RollbackStep
<1> QED
  BY <1>2, <1>3 DEF O!InsertOrder

\* Other transactions learn of changed stock: nothing else of them changes.
LEMMA ChangedStays ==
  ASSUME NEW transactions \in [Requests -> Transaction], NEW products \in SUBSET Products
  PROVE  /\ O!Changed(transactions, products) \in [Requests -> Transaction]
         /\ \A r \in Requests :
              /\ O!Changed(transactions, products)[r].pc = transactions[r].pc
              /\ O!Changed(transactions, products)[r].taken = transactions[r].taken
              /\ O!Changed(transactions, products)[r].left = transactions[r].left
              /\ O!Changed(transactions, products)[r].product = transactions[r].product
<1>1. ASSUME NEW t \in Transaction
      PROVE  LET u == [t EXCEPT !.changed = @ \cup products]
             IN  u \in Transaction /\ u.pc = t.pc /\ u.taken = t.taken /\ u.left = t.left
                 /\ u.product = t.product
  BY DEF Transaction
<1> QED
  BY <1>1 DEF O!Changed

\* A step of the stock that inserts no rows.
LEMMA StockStep ==
  ASSUME OrdersInv, NEW products \in SUBSET Products, tx' = O!Changed(tx, products),
         UNCHANGED <<orders, orderProducts>>
  PROVE  OrdersInv'
<1>1. /\ tx' \in [Requests -> Transaction]
      /\ \A r \in Requests : /\ tx'[r].pc = tx[r].pc /\ tx'[r].taken = tx[r].taken
                             /\ tx'[r].left = tx[r].left /\ tx'[r].product = tx[r].product
  BY ChangedStays DEF OrdersInv
<1>2. \A s \in Requests : O!ProductsOf(s)' = O!ProductsOf(s)
  BY DEF O!ProductsOf
<1>3. \A s \in Requests : Progress(tx[s], O!ProductsOf(s))'
  BY <1>1, <1>2 DEF OrdersInv, Progress
<1>4. O!OrdersMatchProducts'
  BY SameRows DEF OrdersInv
<1> QED
  BY <1>1, <1>3, <1>4 DEF OrdersInv, CommitPcs, Transaction

\* The transaction inserts its order and the products that it has taken.
LEMMA CommitStep ==
  ASSUME OrderInputs, OrdersInv, NEW r \in Requests, O!Commit(r)
  PROVE  OrdersInv'
<1> DEFINE o == OrderOf[r]
           done == [O!Idle EXCEPT !.pc = "done"]
           rows == {[order |-> o, product |-> p, quantity |-> Quantity[r][p]] :
                      p \in tx[r].taken}
           state == IF tx[r].pc = "commit_ship" THEN "shipped" ELSE "cancelled"
<1>1. /\ tx[r].pc \in CommitPcs /\ tx[r] \in Transaction /\ o \in Orders
      /\ orderProducts' = orderProducts \cup rows
      /\ orders' = [orders EXCEPT ![o] = state]
      /\ tx' = O!Changed([tx EXCEPT ![r] = done], tx[r].taken)
  BY DEF O!Commit, OrdersInv, OrderInputs, CommitPcs
<1>2. tx[r].taken \subseteq Products
  BY <1>1 DEF Transaction
<1>3. /\ rows \subseteq [order : Orders, product : Products, quantity : Int]
      /\ \A row \in rows : row.order = o /\ row.product \in tx[r].taken
      /\ \A p \in tx[r].taken : \E row \in rows : row.order = o /\ row.product = p
  <2>1. \A p \in tx[r].taken : Quantity[r][p] \in Int
    BY DEF OrderInputs, OrdersInv, Progress
  <2>2. \A p \in tx[r].taken :
          LET row == [order |-> o, product |-> p, quantity |-> Quantity[r][p]]
          IN  /\ row \in [order : Orders, product : Products, quantity : Int]
              /\ row.order = o /\ row.product = p /\ row \in rows
    BY <1>1, <1>2, <2>1
  <2> HIDE DEF o
  <2>3. \A row \in rows : \E p \in tx[r].taken :
          row = [order |-> o, product |-> p, quantity |-> Quantity[r][p]]
    OBVIOUS
  <2> HIDE DEF rows
  <2>4. rows \subseteq [order : Orders, product : Products, quantity : Int]
    BY <2>2, <2>3
  <2>5. \A row \in rows : row.order = o /\ row.product \in tx[r].taken
    BY <2>2, <2>3
  <2>6. \A p \in tx[r].taken : \E row \in rows : row.order = o /\ row.product = p
    BY <2>2
  <2> QED
    BY <2>4, <2>5, <2>6
<1>4. done \in Transaction /\ done.pc = "done" /\ done.taken = {}
  BY DEF O!Idle, Transaction, O!NoProduct
<1> HIDE DEF done, rows
<1> DEFINE ended == [tx EXCEPT ![r] = done]
<1>5. /\ ended \in [Requests -> Transaction] /\ ended[r] = done
      /\ \A s \in Requests : s # r => ended[s] = tx[s]
  BY <1>4 DEF OrdersInv
<1> HIDE DEF ended
<1>6. /\ tx' \in [Requests -> Transaction]
      /\ \A s \in Requests : /\ tx'[s].pc = ended[s].pc /\ tx'[s].taken = ended[s].taken
                             /\ tx'[s].left = ended[s].left
                             /\ tx'[s].product = ended[s].product
  BY <1>1, <1>2, <1>5, ChangedStays DEF ended
<1>7. \A s \in Requests : O!ProductsOf(s)' = O!ProductsOf(s)
  BY DEF O!ProductsOf
<1>8. \A s \in Requests : Progress(tx[s], O!ProductsOf(s))'
  <2>1. Progress(tx'[r], O!ProductsOf(r))
    BY <1>4, <1>5, <1>6 DEF Progress
  <2>2. ASSUME NEW s \in Requests, s # r PROVE Progress(tx'[s], O!ProductsOf(s))
    BY <1>5, <1>6, <2>2 DEF Progress, OrdersInv
  <2> QED
    BY <1>7, <2>1, <2>2 DEF Progress
<1>9. orders[o] = "none"
  BY <1>1 DEF OrdersInv
<1>10. orders' \in [Orders -> {"none", "shipped", "cancelled"}] /\ orders'[o] = state
       /\ \A other \in Orders : other # o => orders'[other] = orders[other]
  BY <1>1 DEF OrdersInv
<1>11. \A s \in Requests : tx'[s].pc \in CommitPcs => s # r /\ tx[s].pc \in CommitPcs
                                                      /\ OrderOf[s] # o
  <2>1. tx'[r].pc \notin CommitPcs
    BY <1>4, <1>5, <1>6 DEF CommitPcs
  <2>2. \A s \in Requests : s # r => tx'[s].pc = tx[s].pc
    BY <1>5, <1>6
  <2>3. \A s \in Requests : tx[s].pc \in CommitPcs /\ OrderOf[s] = OrderOf[r] => s = r
    BY <1>1 DEF OrdersInv
  <2> QED
    BY <2>1, <2>2, <2>3
<1>12. /\ \A s \in Requests : tx'[s].pc \in CommitPcs => orders'[OrderOf[s]] = "none"
       /\ \A s, t \in Requests :
            tx'[s].pc \in CommitPcs /\ tx'[t].pc \in CommitPcs /\ OrderOf[s] = OrderOf[t]
              => s = t
  BY <1>10, <1>11 DEF OrdersInv, OrderInputs
<1>13. \A other \in Orders : \A p :
         other # o => (O!HasProduct(other, p)' <=> O!HasProduct(other, p))
  BY <1>1, <1>3 DEF O!HasProduct
<1>14. \A p : O!HasProduct(o, p)' <=> p \in tx[r].taken
  <2>1. ~\E row \in orderProducts : row.order = o
    BY <1>1, <1>9 DEF OrdersInv, O!OrdersMatchProducts
  <2> QED
    BY <1>1, <1>3, <2>1 DEF O!HasProduct
<1>15. O!OrdersMatchProducts'
  <2>1. ASSUME NEW other \in Orders, other # o
        PROVE  /\ orders'[other] = "none" => ~\E row \in orderProducts' : row.order = other
               /\ orders'[other] = "shipped" =>
                    \E s \in Requests : OrderOf[s] = other
                                        /\ \A p \in O!ProductsOf(s) : O!HasProduct(other, p)'
               /\ orders'[other] = "cancelled" =>
                    \E s \in Requests : OrderOf[s] = other
                                        /\ \E p \in O!ProductsOf(s) : ~O!HasProduct(other, p)'
    <3>1. orders'[other] = orders[other]
      BY <1>10, <2>1
    <3>2. ~(\E row \in orderProducts : row.order = other)
            => ~\E row \in orderProducts' : row.order = other
      BY <1>1, <1>3, <2>1
    <3> QED
      BY <1>13, <2>1, <3>1, <3>2 DEF OrdersInv, O!OrdersMatchProducts
  <2>2. orders'[o] = "shipped" => \A p \in O!ProductsOf(r) : O!HasProduct(o, p)'
    BY <1>1, <1>10, <1>14 DEF OrdersInv, Progress, CommitPcs
  <2>3. orders'[o] = "cancelled" => \E p \in O!ProductsOf(r) : ~O!HasProduct(o, p)'
    BY <1>1, <1>10, <1>14 DEF OrdersInv, Progress, CommitPcs
  <2>4. orders'[o] # "none"
    BY <1>10
  <2> QED
    BY <1>1, <1>7, <2>1, <2>2, <2>3, <2>4 DEF O!OrdersMatchProducts
<1> QED
  <2>1. orderProducts' \subseteq [order : Orders, product : Products, quantity : Int]
    BY <1>1, <1>3 DEF OrdersInv
  <2> QED
    BY <1>6, <1>8, <1>10, <1>12, <1>15, <2>1 DEF OrdersInv, Transaction, CommitPcs

LEMMA OrdersStep == OrderInputs /\ OrdersInv /\ [O!Next]_O!vars => OrdersInv'
<1> SUFFICES ASSUME OrderInputs, OrdersInv, [O!Next]_O!vars PROVE OrdersInv'
  OBVIOUS
<1>1. ASSUME NEW r \in Requests, O!Begin(r) \/ O!Continue(r) PROVE OrdersInv'
  <2>1. CASE O!Refused(r)
    BY <2>1, RollbackStep DEF O!Refused
  <2> QED
    BY <1>1, <2>1, BeginStep, ReadStockStep, AllTakenStep, SnapshotStep, TakeStep,
       InsertOrderStep, CommitStep DEF O!Continue
<1>2. ASSUME NEW d \in Deliveries, O!AddStock(d) PROVE OrdersInv'
  <2>1. {d.product} \in SUBSET Products
    BY DEF OrderInputs
  <2> QED
    BY <1>2, <2>1, StockStep DEF O!AddStock
<1>3. ASSUME NEW c \in Commands, O!RemoveProductsFromStock(c) PROVE OrdersInv'
  <2>1. O!CommandProducts(c) \in SUBSET Products
    BY DEF OrderInputs
  <2> QED
    BY <1>3, <2>1, StockStep DEF O!RemoveProductsFromStock
<1>4. ASSUME UNCHANGED O!requests PROVE OrdersInv'
  <2>1. UNCHANGED <<orders, orderProducts, tx>>
    BY <1>4 DEF O!requests
  <2>2. \A s \in Requests : O!ProductsOf(s)' = O!ProductsOf(s)
    BY DEF O!ProductsOf
  <2> QED
    BY <2>1, <2>2, SameRows DEF OrdersInv, Progress, CommitPcs, Transaction
<1>5. ASSUME NEW c \in Commands, O!PublishRemoved(c) \/ O!PublishOutOfStock(c)
      PROVE  OrdersInv'
  BY <1>4, <1>5 DEF O!PublishRemoved, O!PublishOutOfStock
<1>6. CASE UNCHANGED O!vars
  BY <1>4, <1>6 DEF O!vars
<1> QED
  BY <1>1, <1>2, <1>3, <1>5, <1>6 DEF O!Next

\* However requests overlap, wait and are refused, a shipped order has all of its products,
\* a cancelled one lacks a product of its request, and an order without a row has none.
THEOREM OrdersMatchProductsHolds == OrderInputs => (Spec => []OrdersMatchProducts)
<1> SUFFICES ASSUME OrderInputs PROVE Spec => []OrdersMatchProducts
  OBVIOUS
<1>1. Init => OrdersInv
  BY OrdersInit DEF Init
<1>2. OrdersInv /\ [Next]_vars => OrdersInv'
  BY OrdersStep, OrdersSteps
<1>3. OrdersInv => OrdersMatchProducts
  BY DEF OrdersInv, OrdersMatchProducts
<1> QED
  BY <1>1, <1>2, <1>3, PTL DEF Spec

-----------------------------------------------------------------------------
(* Types *)

\* The other variables of Orders.
StockTypes ==
  /\ DOMAIN stock \subseteq Products
  /\ \A p \in DOMAIN stock : stock[p] \in Int
  /\ answer \in [Requests -> {"none", "201", "error"}]
  /\ delivered \subseteq Deliveries
  /\ removed \in [Commands -> Nat]
  /\ command \in [Commands -> {"pending", "applied", "done"}]
  /\ outcomes \subseteq Commands \X {"removed", "out_of_stock"}
  /\ overlapped \in BOOLEAN
  /\ orderFaults \in 0..MaxFaults["orders"]

LEMMA StockTypesInit == Bounds /\ OrderInputs /\ O!Init => StockTypes
<1> SUFFICES ASSUME Bounds, OrderInputs, O!Init PROVE StockTypes
  OBVIOUS
<1>1. orderFaults \in 0..MaxFaults["orders"]
  BY FaultBounds DEF O!Init
<1>2. /\ stock = InitialStock /\ DOMAIN InitialStock \subseteq Products
      /\ \A p \in DOMAIN InitialStock : InitialStock[p] \in Int
  BY DEF O!Init, OrderInputs
<1> QED
  BY <1>1, <1>2 DEF O!Init, StockTypes

LEMMA OrderFaultType ==
  ASSUME Bounds, StockTypes, O!Fault \/ UNCHANGED orderFaults
  PROVE  orderFaults' \in 0..MaxFaults["orders"]
BY FaultBounds DEF StockTypes, O!Fault

LEMMA StockTypesStep ==
  Bounds /\ OrderInputs /\ OrdersInv /\ StockTypes /\ [O!Next]_O!vars => StockTypes'
<1> SUFFICES ASSUME Bounds, OrderInputs, OrdersInv, StockTypes, [O!Next]_O!vars
             PROVE  StockTypes'
  OBVIOUS
<1>1. ASSUME NEW r \in Requests,
             UNCHANGED <<stock, delivered, removed, command, outcomes>>,
             O!Fault \/ UNCHANGED orderFaults,
             O!Rollback(r) \/ answer' = [answer EXCEPT ![r] = "201"] \/ UNCHANGED answer,
             overlapped' \in BOOLEAN
      PROVE  StockTypes'
  <2>1. answer' \in [Requests -> {"none", "201", "error"}]
    BY <1>1 DEF StockTypes, O!Rollback
  <2> QED
    BY <1>1, <2>1, OrderFaultType DEF StockTypes
<1>2. ASSUME NEW r \in Requests, O!Begin(r) \/ O!ReadStock(r) \/ O!AllTaken(r)
                                 \/ O!Snapshot(r) \/ O!Take(r)
      PROVE  StockTypes'
  <2>1. /\ UNCHANGED <<stock, delivered, removed, command, outcomes, orderFaults>>
        /\ O!Rollback(r) \/ UNCHANGED answer
        /\ overlapped' \in BOOLEAN
    BY <1>2 DEF O!Begin, O!ReadStock, O!AllTaken, O!Snapshot, O!Take, O!saga, StockTypes
  <2> QED
    BY <1>1, <2>1
<1>3. ASSUME NEW r \in Requests, O!InsertOrder(r) \/ O!Refused(r) PROVE StockTypes'
  <2>1. /\ UNCHANGED <<stock, delivered, removed, command, outcomes>>
        /\ O!Fault \/ UNCHANGED orderFaults
        /\ O!Rollback(r) \/ answer' = [answer EXCEPT ![r] = "201"]
        /\ overlapped' \in BOOLEAN
    BY <1>3 DEF O!InsertOrder, O!Refused, O!saga, StockTypes
  <2> QED
    BY <1>1, <2>1
<1>4. ASSUME NEW r \in Requests, O!Commit(r) PROVE StockTypes'
  <2>1. \A p \in O!Taken(r) : Quantity[r][p] \in Int
    BY DEF OrderInputs, OrdersInv, Progress, O!Taken
  <2>2. stock' = [p \in DOMAIN stock |->
                   IF p \in O!Taken(r) THEN stock[p] - Quantity[r][p] ELSE stock[p]]
        /\ UNCHANGED <<answer, delivered, removed, command, outcomes, overlapped, orderFaults>>
    BY <1>4 DEF O!Commit, O!saga
  <2> QED
    BY <2>1, <2>2 DEF StockTypes
<1>5. ASSUME NEW d \in Deliveries, O!AddStock(d) PROVE StockTypes'
  <2>1. d.product \in Products /\ d.quantity \in Nat
    BY DEF OrderInputs
  <2>2. stock' = [p \in DOMAIN stock \cup {d.product} |->
                   IF p # d.product THEN stock[p]
                   ELSE IF p \in DOMAIN stock THEN stock[p] + d.quantity ELSE d.quantity]
        /\ delivered' = delivered \cup {d}
        /\ UNCHANGED <<answer, removed, command, outcomes, overlapped, orderFaults>>
    BY <1>5 DEF O!AddStock, O!saga
  <2> QED
    BY <2>1, <2>2 DEF StockTypes
<1>6. ASSUME NEW c \in Commands, O!RemoveProductsFromStock(c) PROVE StockTypes'
  <2>1. \A p : O!TakenBy(c, p) \in Int
    BY TakenByType
  <2>2. /\ stock' = [p \in DOMAIN stock |-> stock[p] - O!TakenBy(c, p)]
        /\ removed' = [removed EXCEPT ![c] = @ + 1]
        /\ command' = [command EXCEPT ![c] = "applied"]
        /\ overlapped' \in BOOLEAN
        /\ UNCHANGED <<answer, delivered, outcomes, orderFaults>>
    BY <1>6 DEF O!RemoveProductsFromStock, StockTypes
  <2> QED
    BY <2>1, <2>2 DEF StockTypes
<1>7. ASSUME NEW c \in Commands, O!PublishRemoved(c) \/ O!PublishOutOfStock(c)
      PROVE  StockTypes'
  <2>1. /\ UNCHANGED <<stock, answer, overlapped, delivered, removed>>
        /\ O!Fault \/ UNCHANGED orderFaults
        /\ \E next \in {"pending", "done"} :
             command' = [command EXCEPT ![c] = next] \/ UNCHANGED command
        /\ \E what \in {"removed", "out_of_stock"} :
             outcomes' = outcomes \cup {<<c, what>>} \/ UNCHANGED outcomes
    BY <1>7 DEF O!PublishRemoved, O!PublishOutOfStock, O!requests
  <2> QED
    BY <2>1, OrderFaultType DEF StockTypes
<1>8. CASE UNCHANGED O!vars
  BY <1>8 DEF O!vars, O!requests, O!saga, StockTypes
<1> QED
  BY <1>2, <1>3, <1>4, <1>5, <1>6, <1>7, <1>8 DEF O!Next, O!Continue

LEMMA OrderTypes == OrdersInv /\ StockTypes => O!TypeOK
BY DEF OrdersInv, StockTypes, O!TypeOK, Transaction, CommitPcs

-----------------------------------------------------------------------------
(* The invoices *)

\* What was paid is an amount.
PaymentInputs == AmountOf \in [Payments -> Nat]

Work == {I!Idle} \cup [pc : {"busy"}, event : Payments \cup {I!TheInvoice},
                       copy : I!InvoiceReadModel]

InvoiceInv ==
  /\ happened \in [I!Handlers -> SUBSET (Payments \cup {I!TheInvoice})]
  /\ invoiceInbox \in [I!Handlers -> SUBSET (Payments \cup {I!TheInvoice})]
  /\ \A h \in I!Handlers : happened[h] \subseteq I!EventsOf(h) /\ invoiceInbox[h] \subseteq happened[h]
  /\ invoice \in I!InvoiceReadModel
  /\ payedInvoices \subseteq Payments
  /\ proc \in [I!Handlers -> Work]
  /\ \A h \in I!Handlers : proc[h] = I!Idle \/ proc[h].event \in I!EventsOf(h)
  /\ raced \in BOOLEAN
  /\ crashed \in BOOLEAN
  /\ invoiceFaults \in 0..MaxFaults["invoices"]

LEMMA InvoiceTypes == InvoiceInv => I!TypeOK
<1> SUFFICES ASSUME InvoiceInv PROVE I!TypeOK
  OBVIOUS
<1>1. ASSUME NEW h \in I!Handlers, proc[h] # I!Idle
      PROVE  proc[h].event \in I!EventsOf(h) /\ proc[h].copy \in I!InvoiceReadModel
  <2>1. proc[h] \in [pc : {"busy"}, event : Payments \cup {I!TheInvoice},
                     copy : I!InvoiceReadModel]
    BY <1>1 DEF InvoiceInv, Work
  <2> QED
    BY <1>1, <2>1 DEF InvoiceInv
<1> QED
  BY <1>1 DEF InvoiceInv, I!TypeOK

LEMMA InvoiceInit == Bounds /\ I!Init => InvoiceInv
<1> SUFFICES ASSUME Bounds, I!Init PROVE InvoiceInv
  OBVIOUS
<1>1. invoiceFaults \in 0..MaxFaults["invoices"]
  BY FaultBounds DEF I!Init
<1>2. invoice \in I!InvoiceReadModel
  BY DEF I!Init, I!NoInvoice, I!InvoiceReadModel
<1> QED
  BY <1>1, <1>2 DEF I!Init, InvoiceInv, Work

LEMMA InvoiceAckType ==
  ASSUME Bounds, InvoiceInv, NEW h \in I!Handlers, NEW e, I!Ack(h, e), UNCHANGED happened
  PROVE  /\ invoiceInbox' \in [I!Handlers -> SUBSET (Payments \cup {I!TheInvoice})]
         /\ \A g \in I!Handlers : invoiceInbox'[g] \subseteq happened[g]
         /\ invoiceFaults' \in 0..MaxFaults["invoices"]
<1>1. CASE invoiceInbox' = [invoiceInbox EXCEPT ![h] = @ \ {e}] /\ UNCHANGED invoiceFaults
  BY <1>1 DEF InvoiceInv
<1>2. CASE UNCHANGED invoiceInbox
  <2>1. invoiceFaults' \in 0..MaxFaults["invoices"]
    BY FaultBounds, <1>2 DEF I!Ack, InvoiceInv
  <2> QED
    BY <1>2, <2>1 DEF InvoiceInv
<1> QED
  BY <1>1, <1>2 DEF I!Ack

LEMMA BeginType ==
  ASSUME InvoiceInv, NEW h \in I!Handlers, NEW e \in I!EventsOf(h),
         NEW copy \in I!InvoiceReadModel, I!Begin(h, e, copy),
         payedInvoices' \subseteq Payments,
         UNCHANGED <<happened, invoiceInbox, invoice, crashed, invoiceFaults>>
  PROVE  InvoiceInv'
<1> DEFINE work == [pc |-> "busy", event |-> e, copy |-> copy]
<1>1. e \in Payments \cup {I!TheInvoice}
  BY DEF I!EventsOf
<1>2. work \in Work /\ work.event = e
  BY <1>1 DEF Work
<1>3. proc' = [proc EXCEPT ![h] = work] /\ raced' \in BOOLEAN
  BY DEF I!Begin, InvoiceInv
<1> HIDE DEF work
<1>4. proc' \in [I!Handlers -> Work] /\ proc'[h] = work
      /\ \A g \in I!Handlers : g # h => proc'[g] = proc[g]
  BY <1>2, <1>3 DEF InvoiceInv
<1> QED
  BY <1>2, <1>3, <1>4
  DEF InvoiceInv, I!EventsOf, I!Handlers, I!Idle, Work, I!InvoiceReadModel,
     I!TheInvoice

LEMMA InvoiceStep == Bounds /\ PaymentInputs /\ InvoiceInv /\ [Next]_vars => InvoiceInv'
<1> SUFFICES ASSUME Bounds, PaymentInputs, InvoiceInv, [I!Next]_I!vars PROVE InvoiceInv'
  BY InvoiceSteps
<1>1. ASSUME NEW h \in I!Handlers, NEW e \in I!EventsOf(h), I!Publish(h, e)
      PROVE  InvoiceInv'
  <2>1. e \in Payments \cup {I!TheInvoice}
    BY DEF I!EventsOf
  <2>2. /\ happened' = [happened EXCEPT ![h] = @ \cup {e}]
        /\ invoiceInbox' = [invoiceInbox EXCEPT ![h] = @ \cup {e}]
        /\ UNCHANGED <<invoice, payedInvoices, proc, raced, crashed, invoiceFaults>>
    BY <1>1 DEF I!Publish
  <2>3. /\ happened' \in [I!Handlers -> SUBSET (Payments \cup {I!TheInvoice})]
        /\ invoiceInbox' \in [I!Handlers -> SUBSET (Payments \cup {I!TheInvoice})]
        /\ \A g \in I!Handlers :
             happened'[g] \subseteq I!EventsOf(g) /\ invoiceInbox'[g] \subseteq happened'[g]
    BY <2>1, <2>2 DEF InvoiceInv
  <2> QED
    BY <2>2, <2>3
    DEF InvoiceInv, I!EventsOf, Work, I!Idle, I!InvoiceReadModel, I!TheInvoice
<1>2. ASSUME NEW h \in I!Handlers, NEW e \in I!EventsOf(h), I!Skip(h, e) PROVE InvoiceInv'
  <2>1. I!Ack(h, e) /\ UNCHANGED <<happened, invoice, payedInvoices, proc, raced, crashed>>
    BY <1>2 DEF I!Skip
  <2> QED
    BY <2>1, InvoiceAckType DEF InvoiceInv, I!EventsOf, Work, I!Idle, I!InvoiceReadModel,
       I!TheInvoice
<1>3. ASSUME NEW e \in I!EventsOf("OnInvoiceIssued"), I!OnInvoiceIssued(e)
      PROVE  InvoiceInv'
  <2>1. [I!NoInvoice EXCEPT !.exists = TRUE] \in I!InvoiceReadModel
    BY DEF I!NoInvoice, I!InvoiceReadModel
  <2> QED
    BY <1>3, <2>1, BeginType DEF I!OnInvoiceIssued, I!Handlers, InvoiceInv
<1>4. ASSUME NEW e \in I!EventsOf("OnInvoicePaymentReceived"), I!OnInvoicePaymentReceived(e)
      PROVE  InvoiceInv'
  <2>1. e \in Payments /\ AmountOf[e] \in Nat
    BY DEF I!EventsOf, PaymentInputs
  <2>2. [invoice EXCEPT !.paid = @ + AmountOf[e]] \in I!InvoiceReadModel
    BY <2>1 DEF InvoiceInv, I!InvoiceReadModel
  <2> QED
    BY <1>4, <2>1, <2>2, BeginType DEF I!OnInvoicePaymentReceived, I!Handlers, InvoiceInv
<1>5. ASSUME NEW e \in I!EventsOf("OnInvoiceVoided"), I!OnInvoiceVoided(e)
      PROVE  InvoiceInv'
  <2>1. [invoice EXCEPT !.voided = TRUE] \in I!InvoiceReadModel
    BY DEF InvoiceInv, I!InvoiceReadModel
  <2> QED
    BY <1>5, <2>1, BeginType DEF I!OnInvoiceVoided, I!Handlers, InvoiceInv
<1>6. ASSUME NEW h \in I!Handlers, I!Write(h) PROVE InvoiceInv'
  <2>1. proc[h].copy \in I!InvoiceReadModel
    BY <1>6 DEF I!Write, I!Busy, InvoiceInv, Work, I!Idle
  <2>2. /\ invoice' = proc[h].copy /\ proc' = [proc EXCEPT ![h] = I!Idle]
        /\ I!Ack(h, proc[h].event) /\ UNCHANGED <<happened, payedInvoices, raced, crashed>>
    BY <1>6 DEF I!Write
  <2>3. proc' \in [I!Handlers -> Work]
        /\ \A g \in I!Handlers : proc'[g] = I!Idle \/ proc'[g] = proc[g]
    BY <2>2 DEF InvoiceInv, Work
  <2> QED
    BY <2>1, <2>2, <2>3, InvoiceAckType DEF InvoiceInv, I!EventsOf, Work, I!Idle,
       I!InvoiceReadModel, I!TheInvoice
<1>7. CASE I!ConcurrentMapWrites \/ UNCHANGED I!vars
  <2>1. UNCHANGED <<happened, invoiceInbox, invoice, payedInvoices, proc, raced, invoiceFaults>>
        /\ crashed' \in BOOLEAN
    BY <1>7 DEF I!ConcurrentMapWrites, I!vars, InvoiceInv
  <2> QED
    BY <2>1 DEF InvoiceInv, I!EventsOf, Work, I!Idle, I!InvoiceReadModel, I!TheInvoice
<1> QED
  BY <1>1, <1>2, <1>3, <1>4, <1>5, <1>6, <1>7 DEF I!Next, I!Handle
-----------------------------------------------------------------------------
(* The process manager of the course *)

Bundle == [made : BOOLEAN, tickets : Seq(Tickets), flights : [P!Flights -> Nat],
           taxi : BOOLEAN, finalized : BOOLEAN, failed : BOOLEAN]
Commanded == [name : P!CommandNames, of : P!Objects, booking : Nat]
Evented == [name : P!EventNames, of : P!Objects, booking : Nat]

\* An event names the ticket or the flight that it is about.
Names(e) ==
  /\ e.name = "TicketBookingConfirmed" => e.of \in Tickets
  /\ e.name = "FlightBooked" => e.of \in P!Flights

BundleInv ==
  /\ vb \in Bundle
  /\ sent \in Seq(Commanded)
  /\ \A i \in 1..Len(sent) : sent[i].name = "BookFlight" => sent[i].of \in P!Flights
  /\ pending \subseteq 1..Len(sent)
  /\ published \subseteq Evented
  /\ \A e \in published : Names(e)
  /\ inbox \subseteq published
  /\ rollingBack \subseteq inbox
  /\ \A e \in rollingBack : e.name \in P!Failures
  /\ sagaFaults \in 0..MaxFaults["bundle"]

LEMMA BundleTypes == BundleInv => P!TypeOK
<1> SUFFICES ASSUME BundleInv PROVE P!TypeOK
  OBVIOUS
<1>1. DOMAIN sent = 1..Len(sent) /\ \A i \in 1..Len(sent) : sent[i] \in Commanded
  BY DEF BundleInv
<1> QED
  BY <1>1 DEF BundleInv, P!TypeOK, Bundle, Commanded, Evented

LEMMA BundleInit == Bounds /\ P!Init => BundleInv
<1> SUFFICES ASSUME Bounds, P!Init PROVE BundleInv
  OBVIOUS
<1>1. sagaFaults \in 0..MaxFaults["bundle"]
  BY FaultBounds DEF P!Init
<1>2. vb \in Bundle
  BY DEF P!Init, Bundle
<1>3. sent = <<>> /\ pending = {} /\ rollingBack = {} /\ inbox = published
      /\ published = {P!Event("VipBundleInitialized", P!None, 0)}
  BY DEF P!Init
<1>4. published \subseteq Evented /\ \A e \in published : Names(e)
  BY <1>3 DEF P!Event, Evented, P!EventNames, P!Objects, Names
<1> QED
  BY <1>1, <1>2, <1>3, <1>4 DEF BundleInv

\* Commands are sent after those that were sent before.
LEMMA Sent ==
  ASSUME NEW R, NEW s \in Seq(R), NEW t \in Seq(R)
  PROVE  /\ s \o t \in Seq(R) /\ Len(s \o t) = Len(s) + Len(t) /\ Len(s) \in Nat /\ Len(t) \in Nat
         /\ \A i \in 1..Len(s) : (s \o t)[i] = s[i]
         /\ \A i \in 1..Len(t) : (s \o t)[Len(s) + i] = t[i]
         /\ \A i \in 1..Len(s \o t) :
              i \in Nat /\ (i \in 1..Len(s) \/ (i - Len(s) \in 1..Len(t) /\ i = Len(s) + (i - Len(s))))
OBVIOUS

LEMMA SendType ==
  ASSUME BundleInv, NEW commands \in Seq(Commanded), P!Send(commands),
         \A i \in 1..Len(commands) : commands[i].name = "BookFlight" => commands[i].of \in P!Flights
  PROVE  /\ sent' \in Seq(Commanded)
         /\ \A i \in 1..Len(sent') : sent'[i].name = "BookFlight" => sent'[i].of \in P!Flights
         /\ pending' \subseteq 1..Len(sent')
<1>1. sent \in Seq(Commanded) /\ sent' = sent \o commands
      /\ pending' = pending \cup ((Len(sent) + 1)..(Len(sent) + Len(commands)))
  BY DEF BundleInv, P!Send
<1>2. /\ sent' \in Seq(Commanded) /\ Len(sent') = Len(sent) + Len(commands)
      /\ Len(sent) \in Nat /\ Len(commands) \in Nat
      /\ \A i \in 1..Len(sent) : sent'[i] = sent[i]
      /\ \A i \in 1..Len(commands) : sent'[Len(sent) + i] = commands[i]
      /\ \A i \in 1..Len(sent') :
           i \in 1..Len(sent) \/ \E j \in 1..Len(commands) : i = Len(sent) + j
  BY <1>1, Sent
<1>a. 1..Len(sent) \subseteq 1..Len(sent')
      /\ (Len(sent) + 1)..(Len(sent) + Len(commands)) \subseteq 1..Len(sent')
  BY <1>2
<1>3. ASSUME NEW i \in 1..Len(sent'), sent'[i].name = "BookFlight"
      PROVE  sent'[i].of \in P!Flights
  <2>1. CASE i \in 1..Len(sent)
    BY <1>2, <1>3, <2>1 DEF BundleInv
  <2>2. ASSUME NEW j \in 1..Len(commands), i = Len(sent) + j
        PROVE  sent'[i].of \in P!Flights
    BY <1>2, <1>3, <2>2
  <2> QED
    BY <1>2, <2>1, <2>2
<1>4. pending' \subseteq 1..Len(sent')
  BY <1>1, <1>a DEF BundleInv
<1> QED
  BY <1>2, <1>3, <1>4

LEMMA FlightCommand ==
  ASSUME NEW name \in P!CommandNames, NEW of \in P!Objects, NEW booking \in Nat,
         name = "BookFlight" => of \in P!Flights
  PROVE  /\ <<P!Command(name, of, booking)>> \in Seq(Commanded)
         /\ \A i \in 1..Len(<<P!Command(name, of, booking)>>) :
              <<P!Command(name, of, booking)>>[i].name = "BookFlight" =>
                <<P!Command(name, of, booking)>>[i].of \in P!Flights
<1> DEFINE c == P!Command(name, of, booking)
<1>1. c \in Commanded /\ c.name = name /\ c.of = of
  BY DEF P!Command, Commanded
<1> HIDE DEF c
<1>2. <<c>> \in Seq(Commanded) /\ \A i \in 1..Len(<<c>>) : <<c>>[i] = c
  BY <1>1
<1> QED
  BY <1>1, <1>2 DEF c

LEMMA CompensationTypes ==
  ASSUME BundleInv
  PROVE  /\ P!Compensations(vb) \in Seq(Commanded)
         /\ \A i \in 1..Len(P!Compensations(vb)) :
              P!Compensations(vb)[i].name \in {"RefundTicket", "CancelFlightTickets"}
<1> DEFINE Undo == {c \in Commanded : c.name \in {"RefundTicket", "CancelFlightTickets"}}
           Refunds == IF vb.made
                      THEN [i \in 1..Len(vb.tickets) |-> P!Command("RefundTicket", vb.tickets[i], 0)]
                      ELSE <<>>
           Cancel(flight) == IF vb.flights[flight] = 0 THEN <<>>
                             ELSE <<P!Command("CancelFlightTickets", flight, vb.flights[flight])>>
<1>1. vb.tickets \in Seq(Tickets) /\ vb.flights \in [P!Flights -> Nat] /\ Len(vb.tickets) \in Nat
  BY DEF BundleInv, Bundle
<1>2. Refunds \in Seq(Undo)
  <2>1. \A i \in 1..Len(vb.tickets) : P!Command("RefundTicket", vb.tickets[i], 0) \in Undo
    BY <1>1 DEF P!Command, Commanded, P!CommandNames, P!Objects
  <2> HIDE DEF Undo
  <2> QED
    BY <1>1, <2>1
<1>3. ASSUME NEW flight \in P!Flights PROVE Cancel(flight) \in Seq(Undo)
  <2>1. P!Command("CancelFlightTickets", flight, vb.flights[flight]) \in Undo
    BY <1>1 DEF P!Command, Commanded, P!CommandNames, P!Objects
  <2> HIDE DEF Undo
  <2> QED
    BY <2>1
<1>4. "inbound" \in P!Flights /\ "return" \in P!Flights
  BY DEF P!Flights
<1>5. P!Compensations(vb) = Refunds \o (Cancel("inbound") \o Cancel("return"))
  BY DEF P!Compensations, P!Cancellations
<1> HIDE DEF Refunds, Cancel, Undo
<1>6. P!Compensations(vb) \in Seq(Undo)
  BY <1>2, <1>3, <1>4, <1>5
<1>7. \A i \in 1..Len(P!Compensations(vb)) : P!Compensations(vb)[i] \in Undo
  BY <1>6
<1>8. P!Compensations(vb) \in Seq(Commanded)
  <2>1. Undo \subseteq Commanded
    BY DEF Undo
  <2> QED
    BY <1>6, <2>1
<1> QED
  BY <1>7, <1>8 DEF Undo

LEMMA BundleFault ==
  ASSUME Bounds, BundleInv, P!Fault \/ UNCHANGED sagaFaults
  PROVE  sagaFaults' \in 0..MaxFaults["bundle"]
BY FaultBounds DEF BundleInv, P!Fault

\* A handler that is no rollback updates the bundle and sends a command.
LEMMA BundleUpdate ==
  ASSUME NEW e, NEW row \in Bundle, NEW commands \in Seq(Commanded),
         Bounds, BundleInv, e \in inbox, e.name \notin P!Failures,
         P!UpdateAndSend(e, row, commands),
         \A i \in 1..Len(commands) : commands[i].name = "BookFlight" => commands[i].of \in P!Flights
  PROVE  BundleInv'
<1>1. vb' = row /\ UNCHANGED <<published, rollingBack>>
  BY DEF P!UpdateAndSend
<1>2. CASE P!Send(commands) /\ P!Ack(e)
  <2>1. sagaFaults' \in 0..MaxFaults["bundle"]
    BY <1>2, BundleFault DEF P!Ack
  <2>2. inbox' \subseteq published /\ rollingBack \subseteq inbox'
    BY <1>2 DEF P!Ack, BundleInv
  <2> QED
    BY <1>1, <1>2, <2>1, <2>2, SendType DEF BundleInv
<1>3. CASE P!Fault /\ UNCHANGED <<sent, pending, inbox>>
  BY <1>1, <1>3, BundleFault DEF BundleInv
<1>4. (P!Send(commands) /\ P!Ack(e)) \/ (P!Fault /\ UNCHANGED <<sent, pending, inbox>>)
  BY DEF P!UpdateAndSend
<1> QED
  BY <1>2, <1>3, <1>4

LEMMA ServeType ==
  ASSUME Bounds, BundleInv, NEW i \in pending, P!Serve(i)
  PROVE  BundleInv'
<1>1. /\ pending' = pending \ {i} /\ UNCHANGED <<vb, sent, rollingBack, sagaFaults>>
      /\ i \in 1..Len(sent) /\ sent[i] \in Commanded
  BY DEF P!Serve, BundleInv
<1>2. PICK events \in P!Outcomes(i) : P!Publish(events)
  BY DEF P!Serve
<1>3. \A e \in events : e \in Evented /\ Names(e)
  <2>1. CASE sent[i].name = "BookShowTickets"
    BY <1>1, <1>2, <2>1 DEF P!Outcomes, P!Event, Evented, P!EventNames, P!Objects, Names
  <2>2. CASE sent[i].name = "BookFlight"
    <3>1. sent[i].of \in P!Flights /\ i \in Nat
      BY <1>1, <2>2 DEF BundleInv
    <3> QED
      BY <1>1, <1>2, <2>2, <3>1
      DEF P!Outcomes, P!Event, Evented, P!EventNames, P!Objects, Names
  <2>3. CASE sent[i].name = "BookTaxi"
    BY <1>1, <1>2, <2>3 DEF P!Outcomes, P!Event, Evented, P!EventNames, P!Objects, Names
  <2>4. CASE sent[i].name \notin {"BookShowTickets", "BookFlight", "BookTaxi"}
    BY <1>2, <2>4 DEF P!Outcomes
  <2> QED
    BY <2>1, <2>2, <2>3, <2>4
<1> QED
  BY <1>1, <1>2, <1>3 DEF BundleInv, P!Publish

LEMMA HandleType ==
  ASSUME Bounds, BundleInv, NEW e \in inbox, P!Handle(e)
  PROVE  BundleInv'
<1>1. vb \in Bundle /\ e \in Evented /\ Names(e)
  BY DEF BundleInv
<1>0. /\ {"BookShowTickets", "BookFlight", "BookTaxi"} \subseteq P!CommandNames
      /\ {"inbound", "return", P!None} \subseteq P!Objects /\ {"inbound", "return"} \subseteq P!Flights
      /\ P!Failures = {"BookingFailed", "FlightBookingFailed", "TaxiBookingFailed"} /\ 0 \in Nat
  BY DEF P!CommandNames, P!Objects, P!Flights, P!Failures
\* A handler that sends one of the bookings.
<1>a. ASSUME NEW row \in Bundle, NEW name \in {"BookShowTickets", "BookFlight", "BookTaxi"},
             NEW of \in {"inbound", "return", P!None}, name = "BookFlight" => of # P!None,
             e.name \notin P!Failures, P!UpdateAndSend(e, row, <<P!Command(name, of, 0)>>)
      PROVE  BundleInv'
  <2> DEFINE commands == <<P!Command(name, of, 0)>>
  <2>1. name \in P!CommandNames /\ of \in P!Objects /\ (name = "BookFlight" => of \in P!Flights)
    BY <1>0, <1>a
  <2>2. /\ commands \in Seq(Commanded)
        /\ \A i \in 1..Len(commands) : commands[i].name = "BookFlight" => commands[i].of \in P!Flights
    BY <1>0, <2>1, FlightCommand
  <2> HIDE DEF commands
  <2> QED
    BY <1>a, <2>2, BundleUpdate DEF commands
<1>2. CASE P!OnVipBundleInitialized(e)
  BY <1>0, <1>1, <1>2, <1>a DEF P!OnVipBundleInitialized, P!None
<1>3. CASE P!OnBookingMade(e)
  <2>1. [vb EXCEPT !.made = TRUE] \in Bundle
    BY <1>1 DEF Bundle
  <2> QED
    BY <1>0, <1>3, <1>a, <2>1 DEF P!OnBookingMade, P!None
<1>4. CASE P!OnTicketBookingConfirmed(e)
  <2>1. [vb EXCEPT !.tickets = Append(@, e.of)] \in Bundle
    <3>1. e.of \in Tickets
      BY <1>1, <1>4 DEF P!OnTicketBookingConfirmed, Names
    <3>2. vb.tickets \in Seq(Tickets) /\ Append(vb.tickets, e.of) \in Seq(Tickets)
      BY <1>1, <3>1 DEF Bundle
    <3> QED
      BY <1>1, <3>2 DEF Bundle
  <2>2. <<>> \in Seq(Commanded) /\ \A i \in 1..Len(<<>>) : FALSE
    OBVIOUS
  <2>3. /\ e.name \notin P!Failures
        /\ P!UpdateAndSend(e, [vb EXCEPT !.tickets = Append(@, e.of)], <<>>)
    BY <1>0, <1>4 DEF P!OnTicketBookingConfirmed
  <2> QED
    BY <2>1, <2>2, <2>3, BundleUpdate
<1>5. CASE P!OnFlightBooked(e)
  <2> DEFINE bundle == [vb EXCEPT !.flights[e.of] = e.booking]
  <2>1. bundle \in Bundle
    <3>1. e.booking \in Nat /\ e.of \in P!Flights
      BY <1>1, <1>5 DEF P!OnFlightBooked, Names, Evented
    <3>2. vb.flights \in [P!Flights -> Nat]
          /\ [vb.flights EXCEPT ![e.of] = e.booking] \in [P!Flights -> Nat]
      BY <1>1, <3>1 DEF Bundle
    <3>3. bundle = [vb EXCEPT !.flights = [vb.flights EXCEPT ![e.of] = e.booking]]
      OBVIOUS
    <3> QED
      BY <1>1, <3>2, <3>3 DEF Bundle
  <2>2. e.name \notin P!Failures /\ P!UpdateAndSend(e, bundle, P!AfterFlight(bundle))
    BY <1>0, <1>5 DEF P!OnFlightBooked
  <2> HIDE DEF bundle
  <2>3. CASE bundle.flights["return"] = 0
    BY <1>0, <1>a, <2>1, <2>2, <2>3 DEF P!AfterFlight, P!None
  <2>4. CASE bundle.flights["return"] # 0
    BY <1>0, <1>a, <2>1, <2>2, <2>4 DEF P!AfterFlight, P!None
  <2> QED
    BY <2>3, <2>4
<1>6. CASE P!OnTaxiBooked(e)
  <2>1. vb' \in Bundle
    BY <1>1, <1>6 DEF P!OnTaxiBooked, Bundle
  <2>2. published' \subseteq Evented /\ published \subseteq published'
        /\ \A f \in published' : Names(f)
    BY <1>6
    DEF P!OnTaxiBooked, P!Event, BundleInv, Evented, P!EventNames, P!Objects, Names
  <2>3. sagaFaults' \in 0..MaxFaults["bundle"] /\ UNCHANGED <<sent, pending, rollingBack>>
    BY <1>6, BundleFault DEF P!OnTaxiBooked, P!Ack
  <2>4. inbox' \subseteq inbox /\ rollingBack \subseteq inbox'
    BY <1>0, <1>6 DEF P!OnTaxiBooked, P!Ack, BundleInv
  <2> QED
    BY <2>1, <2>2, <2>3, <2>4 DEF BundleInv
<1>7. CASE P!RollbackSend(e)
  <2>1. UNCHANGED <<vb, published, inbox>> /\ rollingBack' \subseteq rollingBack \cup {e}
        /\ e.name \in P!Failures
    BY <1>7 DEF P!RollbackSend
  <2>2. sagaFaults' \in 0..MaxFaults["bundle"]
    BY <1>7, BundleFault DEF P!RollbackSend
  <2>3. \E commands \in Seq(Commanded) :
          /\ P!Send(commands)
          /\ \A i \in 1..Len(commands) : commands[i].name # "BookFlight"
    <3> DEFINE all == P!Compensations(vb)
    <3>1. all \in Seq(Commanded) /\ \A i \in 1..Len(all) : all[i].name # "BookFlight"
      BY CompensationTypes
    <3> HIDE DEF all
    <3>2. CASE P!Send(all)
      BY <3>1, <3>2
    <3>3. ASSUME NEW n \in 0..Len(all), P!Send(SubSeq(all, 1, n))
          PROVE  \E commands \in Seq(Commanded) :
                   /\ P!Send(commands)
                   /\ \A i \in 1..Len(commands) : commands[i].name # "BookFlight"
      <4>1. /\ SubSeq(all, 1, n) \in Seq(Commanded) /\ Len(SubSeq(all, 1, n)) = n
            /\ \A i \in 1..n : SubSeq(all, 1, n)[i] = all[i] /\ i \in 1..Len(all)
        BY <3>1
      <4> QED
        BY <3>1, <3>3, <4>1
    <3> QED
      BY <1>7, <3>2, <3>3 DEF P!RollbackSend, all
  <2>4. PICK commands \in Seq(Commanded) :
          /\ P!Send(commands)
          /\ \A i \in 1..Len(commands) : commands[i].name # "BookFlight"
    BY <2>3
  <2>5. /\ sent' \in Seq(Commanded)
        /\ \A i \in 1..Len(sent') : sent'[i].name = "BookFlight" => sent'[i].of \in P!Flights
        /\ pending' \subseteq 1..Len(sent')
    BY <2>4, SendType
  <2> QED
    BY <2>1, <2>2, <2>5 DEF BundleInv
<1>8. CASE P!RollbackUpdate(e)
  <2>1. vb' \in Bundle
    BY <1>1, <1>8 DEF P!RollbackUpdate, Bundle
  <2>2. sagaFaults' \in 0..MaxFaults["bundle"] /\ UNCHANGED <<sent, pending, published>>
    BY <1>8, BundleFault DEF P!RollbackUpdate, P!Ack
  <2>3. inbox' \subseteq inbox /\ rollingBack' \subseteq inbox' /\ rollingBack' \subseteq rollingBack
    BY <1>8 DEF P!RollbackUpdate, P!Ack, BundleInv
  <2> QED
    BY <2>1, <2>2, <2>3 DEF BundleInv
<1> QED
  BY <1>2, <1>3, <1>4, <1>5, <1>6, <1>7, <1>8 DEF P!Handle

LEMMA BundleStep == Bounds /\ BundleInv /\ [Next]_vars => BundleInv'
<1> SUFFICES ASSUME Bounds, BundleInv, [P!Next]_P!vars PROVE BundleInv'
  BY BundleSteps
<1>1. CASE UNCHANGED P!vars
  BY <1>1 DEF P!vars, BundleInv, Bundle, Evented, Commanded, Names
<1> QED
  BY <1>1, ServeType, HandleType DEF P!Next
-----------------------------------------------------------------------------
(* All components *)

\* Whatever the components do, every variable keeps its type: no stock row, command, event,
\* copy of a bundle or map entry appears that the code could not hold.
THEOREM TypeCorrect ==
  Bounds /\ OrderInputs /\ PaymentInputs => (Spec => []TypeOK)
<1> SUFFICES ASSUME Bounds, OrderInputs, PaymentInputs PROVE Spec => []TypeOK
  OBVIOUS
<1>1. CP!Bounds
  BY DEF Bounds, CP!Bounds, Components
<1>2. CP!TypeOK => C!TypeOK
  BY DEF C!TypeOK, CP!TypeOK, C!NoMessage, CP!NoMessage, C!CommandNames, CP!CommandNames
<1>3. Spec => []C!TypeOK
  BY <1>1, <1>2, QueueSpec, CP!TypeCorrect, PTL
<1> DEFINE Inv == /\ OrdersInv /\ StockTypes /\ AlertInv /\ InvoiceInv /\ BundleInv
                  /\ TeamInv /\ S!TypeOK /\ M!TypeOK
<1>4. Init => Inv
  BY OrdersInit, StockTypesInit, MigrationInit, AlertInit, InvoiceInit, BundleInit,
     TeamInit, SensorInit
  DEF Init
<1>5. Inv /\ [Next]_vars => Inv'
  <2> SUFFICES ASSUME Inv, [Next]_vars PROVE Inv'
    OBVIOUS
  <2>1. OrdersInv' /\ StockTypes'
    BY OrdersSteps, OrdersStep, StockTypesStep
  <2>2. AlertInv' /\ InvoiceInv' /\ BundleInv' /\ TeamInv'
    BY AlertStep, InvoiceStep, BundleStep, TeamStep
  <2>3. S!TypeOK' /\ M!TypeOK'
    BY SensorSteps, SensorTypeStep, MigrationStep
  <2> QED
    BY <2>1, <2>2, <2>3
<1>6. Inv /\ C!TypeOK => TypeOK
  BY OrderTypes, InvoiceTypes, BundleTypes, TeamInvImplies DEF TypeOK, AlertInv
<1> HIDE DEF Inv
<1> QED
  BY <1>3, <1>4, <1>5, <1>6, PTL DEF Spec

-----------------------------------------------------------------------------
(* The rollback of the course's process manager *)

\* The command that the bundle sends k-th, the event that its service publishes when the
\* booking succeeds (the event 0 is the request), and the one when it does not.
Nth(k) ==
  CASE k = 1 -> P!Command("BookShowTickets", P!None, 0)
    [] k = 2 -> P!Command("BookFlight", "inbound", 0)
    [] k = 3 -> P!Command("BookFlight", "return", 0)
    [] k = 4 -> P!Command("BookTaxi", P!None, 0)
Booked(k) ==
  CASE k = 0 -> P!Event("VipBundleInitialized", P!None, 0)
    [] k = 1 -> P!Event("BookingMade", P!None, 0)
    [] k = 2 -> P!Event("FlightBooked", "inbound", 2)
    [] k = 3 -> P!Event("FlightBooked", "return", 3)
    [] k = 4 -> P!Event("TaxiBooked", P!None, 4)
Failed(k) ==
  CASE k = 1 -> P!Event("BookingFailed", P!None, 0)
    [] k = 2 -> P!Event("FlightBookingFailed", "inbound", 2)
    [] k = 3 -> P!Event("FlightBookingFailed", "return", 3)
    [] k = 4 -> P!Event("TaxiBookingFailed", P!None, 4)
Confirmed(t) == P!Event("TicketBookingConfirmed", t, 0)
Finalized == P!Event("VipBundleFinalized", P!None, 0)
Confirmations == {Confirmed(t) : t \in Tickets}

\* Where the only thing that goes on is, after k commands were sent: the event that says
\* that the k-th booking was made waits for its handler, the k-th command for its service,
\* or its failure for a rollback, which then has sent its commands and has ended; or
\* everything was booked.
Steps == {"booked", "commanded", "failed", "undoing", "undone", "complete"}

Latest(k, step) ==
  CASE step = "booked" -> {Booked(k)}
    [] step = "commanded" -> {}
    [] step \in {"failed", "undoing", "undone"} -> {Failed(k)}
    [] step = "complete" -> {Booked(4), Finalized}

\* What the bundle and the topics are then.
RowAt(k, step) ==
  /\ vb.made <=> k >= 2
  /\ vb.flights["inbound"] = IF k >= 3 THEN 2 ELSE 0
  /\ vb.flights["return"] = IF k >= 4 THEN 3 ELSE 0
  /\ vb.failed <=> step = "undone"

EventsAt(k, step) ==
  /\ published \subseteq {Booked(j) : j \in 0..(k - 1)} \cup Latest(k, step) \cup Confirmations
  /\ published \cap Confirmations # {} => k >= 2 \/ (k = 1 /\ step = "booked")
  /\ inbox \subseteq
       (IF step \in {"booked", "failed", "undoing"} THEN Latest(k, step) ELSE {}) \cup Confirmations
  /\ rollingBack = IF step = "undoing" THEN {Failed(k)} ELSE {}

CommandsAt(k, step) ==
  /\ Len(sent) >= k
  /\ \A i \in 1..k : sent[i] = Nth(i)
  /\ IF step \in {"undoing", "undone"}
     THEN /\ Len(sent) = k + Len(P!Compensations(vb))
          /\ \A j \in 1..Len(P!Compensations(vb)) : sent[k + j] = P!Compensations(vb)[j]
          /\ pending \subseteq (k + 1)..Len(sent)
     ELSE Len(sent) = k /\ pending = IF step = "commanded" THEN {k} ELSE {}

SagaAt(k, step) ==
  /\ step # "booked" => k >= 1
  /\ step = "complete" => k = 4
  /\ RowAt(k, step)
  /\ EventsAt(k, step)
  /\ CommandsAt(k, step)

\* A ticket is stored once, when its confirmation is acked, and a rollback has them all.
Listed(t) == \E i \in 1..Len(vb.tickets) : vb.tickets[i] = t
TicketsInv ==
  /\ \A i, j \in 1..Len(vb.tickets) : vb.tickets[i] = vb.tickets[j] => i = j
  /\ \A t \in Tickets : Listed(t) => Confirmed(t) \in published /\ Confirmed(t) \notin inbox

\* The invariant behind RollbackUndoesAll: as long as nothing was sent or delivered twice,
\* one thing goes on at a time.
RollbackInv ==
  sagaFaults = 0 =>
    /\ TicketsInv
    /\ \E k \in 0..4, step \in Steps :
         /\ SagaAt(k, step)
         /\ step \in {"undoing", "undone"} /\ vb.made => \A t \in Tickets : Listed(t)

LEMMA Nths ==
  /\ Nth(1) = P!Command("BookShowTickets", P!None, 0)
  /\ Nth(2) = P!Command("BookFlight", "inbound", 0)
  /\ Nth(3) = P!Command("BookFlight", "return", 0)
  /\ Nth(4) = P!Command("BookTaxi", P!None, 0)
  /\ \A k \in 1..4 : Nth(k).name \in {"BookShowTickets", "BookFlight", "BookTaxi"}
BY DEF Nth, P!Command

LEMMA Events ==
  /\ Booked(0) = P!Event("VipBundleInitialized", P!None, 0)
  /\ Booked(1) = P!Event("BookingMade", P!None, 0)
  /\ Booked(2) = P!Event("FlightBooked", "inbound", 2)
  /\ Booked(3) = P!Event("FlightBooked", "return", 3)
  /\ Booked(4) = P!Event("TaxiBooked", P!None, 4)
  /\ Failed(1) = P!Event("BookingFailed", P!None, 0)
  /\ Failed(2) = P!Event("FlightBookingFailed", "inbound", 2)
  /\ Failed(3) = P!Event("FlightBookingFailed", "return", 3)
  /\ Failed(4) = P!Event("TaxiBookingFailed", P!None, 4)
BY DEF Booked, Failed

\* The names tell the events apart.
LEMMA EventNames ==
  /\ \A k \in 0..4 : Booked(k).name \notin P!Failures \cup {"TicketBookingConfirmed", "BookingFailed"}
  /\ \A k \in 0..4 : Booked(k).name = "VipBundleInitialized" <=> k = 0
  /\ \A k \in 0..4 : Booked(k).name = "BookingMade" <=> k = 1
  /\ \A k \in 0..4 : Booked(k).name = "FlightBooked" <=> k \in {2, 3}
  /\ \A k \in 0..4 : Booked(k).name = "TaxiBooked" <=> k = 4
  /\ \A k \in 1..4 : Failed(k).name \in P!Failures
  /\ \A f \in Confirmations : f.name = "TicketBookingConfirmed" /\ f.of \in Tickets /\ f = Confirmed(f.of)
  /\ Finalized.name = "VipBundleFinalized"
<1>1. \A k \in 0..4 : k = 0 \/ k = 1 \/ k = 2 \/ k = 3 \/ k = 4
  OBVIOUS
<1>2. \A name, of, booking : P!Event(name, of, booking).name = name
                             /\ P!Event(name, of, booking).of = of
  BY DEF P!Event
<1>3. \A f \in Confirmations : f.name = "TicketBookingConfirmed" /\ f.of \in Tickets
                               /\ f = Confirmed(f.of)
  BY <1>2 DEF Confirmations, Confirmed
<1>4. Finalized.name = "VipBundleFinalized"
  BY <1>2 DEF Finalized
<1>5. \A k \in 1..4 : Failed(k).name \in P!Failures
  BY <1>1, <1>2, Events DEF P!Failures
<1>6. /\ Booked(0).name = "VipBundleInitialized" /\ Booked(1).name = "BookingMade"
      /\ Booked(2).name = "FlightBooked" /\ Booked(3).name = "FlightBooked"
      /\ Booked(4).name = "TaxiBooked"
  BY <1>2, Events
<1> QED
  BY <1>1, <1>3, <1>4, <1>5, <1>6 DEF P!Failures

\* A list without duplicates that is as long as there are tickets has all of them.
LEMMA AllListed ==
  ASSUME IsFiniteSet(Tickets), NEW ids \in Seq(Tickets), Len(ids) = P!NumberOfTickets,
         \A i, j \in 1..Len(ids) : ids[i] = ids[j] => i = j
  PROVE  \A t \in Tickets : \E i \in 1..Len(ids) : ids[i] = t
<1> DEFINE X == 1..Len(ids)
<1>1. ids \in Injection(X, Tickets)
  <2>1. ids \in [X -> Tickets]
    OBVIOUS
  <2> HIDE DEF X
  <2> QED
    BY <2>1, Fun_IsInj DEF X
<1>2. Cardinality(X) = Len(ids)
  BY FS_Interval
<1>3. P!NumberOfTickets = Cardinality(Tickets)
  BY DEF P!NumberOfTickets, P!Cardinality, Cardinality
<1> HIDE DEF X
<1>4. ids \in Surjection(X, Tickets)
  BY <1>1, <1>2, <1>3, FS_Injection
<1> QED
  BY <1>4 DEF Surjection, X

LEMMA RollbackInit == Bounds /\ P!Init => RollbackInv
<1> SUFFICES ASSUME P!Init PROVE RollbackInv
  OBVIOUS
<1>1. TicketsInv
  BY DEF P!Init, TicketsInv, Listed
<1>2. RowAt(0, "booked")
  <2>1. vb.made = FALSE /\ vb.failed = FALSE
    BY DEF P!Init
  <2>2. vb.flights["inbound"] = 0 /\ vb.flights["return"] = 0
    BY DEF P!Init, P!Flights
  <2> QED
    BY <2>1, <2>2 DEF RowAt
<1>3. EventsAt(0, "booked")
  <2>1. published = {Booked(0)} /\ inbox = {Booked(0)} /\ rollingBack = {}
    BY Events DEF P!Init
  <2>2. Booked(0) \notin Confirmations
    BY EventNames
  <2> QED
    BY <2>1, <2>2 DEF EventsAt, Latest
<1>4. CommandsAt(0, "booked")
  BY DEF P!Init, CommandsAt
<1>5. SagaAt(0, "booked")
  BY <1>2, <1>3, <1>4 DEF SagaAt
<1> QED
  BY <1>1, <1>5 DEF RollbackInv, Steps

\* What the service that gets the k-th command may publish.
LEMMA OutcomesOf ==
  ASSUME NEW k \in 1..4, SagaAt(k, "commanded"), NEW events \in P!Outcomes(k)
  PROVE  events = {Failed(k)} \/ events = {Booked(k)} \cup (IF k = 1 THEN Confirmations ELSE {})
<1>1. sent[k] = Nth(k)
  BY DEF SagaAt, CommandsAt
<1>2. CASE k = 1
  <2>1. published \cap Confirmations = {} /\ published \subseteq {Booked(0)} \cup Confirmations
    BY <1>2 DEF SagaAt, EventsAt, Latest
  <2>2. ~\E f \in published : f.name \in {"BookingMade", "BookingFailed"}
    BY <2>1, EventNames
  <2>3. sent[k].name = "BookShowTickets"
    BY <1>1, <1>2, Nths DEF P!Command
  <2>4. P!Outcomes(k) = {{P!Event("BookingFailed", P!None, 0)},
                         {P!Event("BookingMade", P!None, 0)} \cup Confirmations}
    BY <2>2, <2>3 DEF P!Outcomes, Confirmations, Confirmed
  <2> QED
    BY <1>2, <2>4, Events
<1>3. CASE k \in {2, 3}
  <2>1. sent[k].name = "BookFlight" /\ sent[k].of = (IF k = 2 THEN "inbound" ELSE "return")
    BY <1>1, <1>3, Nths DEF P!Command
  <2>2. P!Outcomes(k) = {{P!Event("FlightBooked", sent[k].of, k)},
                         {P!Event("FlightBookingFailed", sent[k].of, k)}}
    BY <2>1 DEF P!Outcomes
  <2> QED
    BY <1>3, <2>1, <2>2, Events
<1>4. CASE k = 4
  <2>1. sent[k].name = "BookTaxi"
    BY <1>1, <1>4, Nths DEF P!Command
  <2>2. P!Outcomes(k) = {{P!Event("TaxiBooked", P!None, k)}, {P!Event("TaxiBookingFailed", P!None, k)}}
    BY <2>1 DEF P!Outcomes
  <2> QED
    BY <1>4, <2>2, Events
<1> QED
  BY <1>2, <1>3, <1>4

-----------------------------------------------------------------------------
LEMMA SagaServeStep ==
  ASSUME BundleInv, RollbackInv, sagaFaults' = 0, NEW i \in pending, P!Serve(i)
  PROVE  RollbackInv'
<1>1. /\ sagaFaults = 0 /\ UNCHANGED <<vb, sent, rollingBack>>
      /\ pending' = pending \ {i} /\ i \in 1..Len(sent)
  BY DEF P!Serve, BundleInv
<1>2. PICK events \in P!Outcomes(i) :
             published' = published \cup events /\ inbox' = inbox \cup (events \ published)
  BY DEF P!Serve, P!Publish
<1>3. PICK k \in 0..4, step \in Steps :
             /\ SagaAt(k, step)
             /\ step \in {"undoing", "undone"} /\ vb.made => \A t \in Tickets : Listed(t)
  BY <1>1 DEF RollbackInv
<1>4. TicketsInv'
  <2>1. TicketsInv
    BY <1>1 DEF RollbackInv
  <2>2. \A t \in Tickets : Listed(t)' <=> Listed(t)
    BY <1>1 DEF Listed
  <2> QED
    BY <1>1, <1>2, <2>1, <2>2 DEF TicketsInv
<1>5. CASE step \in {"undoing", "undone"}
  <2>1. i \in (k + 1)..Len(sent) /\ Len(sent) = k + Len(P!Compensations(vb))
        /\ \A j \in 1..Len(P!Compensations(vb)) : sent[k + j] = P!Compensations(vb)[j]
    BY <1>3, <1>5 DEF SagaAt, CommandsAt
  <2>2. i - k \in 1..Len(P!Compensations(vb)) /\ i = k + (i - k)
    BY <1>3, <2>1, CompensationTypes
  <2>3. sent[i].name \in {"RefundTicket", "CancelFlightTickets"}
    BY <2>1, <2>2, CompensationTypes
  <2>4. events = {}
    BY <1>2, <2>3 DEF P!Outcomes
  <2>5. published' = published /\ inbox' = inbox
    BY <1>2, <2>4
  <2>6. SagaAt(k, step)'
    <3>1. RowAt(k, step)' /\ EventsAt(k, step)'
      BY <1>1, <1>3, <2>5 DEF SagaAt, RowAt, EventsAt, Latest
    <3>2. CommandsAt(k, step)'
      BY <1>1, <1>3, <1>5 DEF SagaAt, CommandsAt
    <3> QED
      BY <1>3, <3>1, <3>2 DEF SagaAt
  <2>7. vb'.made => \A t \in Tickets : Listed(t)'
    BY <1>1, <1>3, <1>5 DEF Listed
  <2> QED
    BY <1>1, <1>3, <1>4, <2>6, <2>7 DEF RollbackInv
<1>6. CASE step \notin {"undoing", "undone"}
  <2>1. step = "commanded" /\ i = k /\ k \in 1..4 /\ pending' = {}
    BY <1>1, <1>3, <1>6 DEF SagaAt, CommandsAt
  <2> DEFINE next == IF events = {Failed(k)} THEN "failed" ELSE "booked"
  <2>2. next \in {"failed", "booked"}
    OBVIOUS
  <2>3. events = Latest(k, next) \cup (IF k = 1 /\ next = "booked" THEN Confirmations ELSE {})
    BY <1>2, <1>3, <2>1, OutcomesOf DEF Latest
  <2>a. events \cap Confirmations # {} => k = 1 /\ next = "booked"
    <3>1. Latest(k, next) \cap Confirmations = {}
      BY <2>1, <2>2, EventNames DEF Latest, P!Failures
    <3> QED
      BY <2>3, <3>1
  <2> HIDE DEF next
  <2>4. EventsAt(k, next)'
    <3>1. Latest(k, next)' = Latest(k, next) /\ Latest(k, "commanded") = {}
      BY DEF Latest
    <3>2. published' \subseteq
            {Booked(j) : j \in 0..(k - 1)} \cup Latest(k, next) \cup Confirmations
      BY <1>2, <1>3, <2>1, <2>3, <3>1 DEF SagaAt, EventsAt
    <3>3. published' \cap Confirmations # {} => k >= 2 \/ (k = 1 /\ next = "booked")
      BY <1>2, <1>3, <2>1, <2>a DEF SagaAt, EventsAt
    <3>4. inbox' \subseteq Latest(k, next) \cup Confirmations
      BY <1>2, <1>3, <2>1, <2>3, <3>1 DEF SagaAt, EventsAt
    <3>5. rollingBack' = {}
      BY <1>1, <1>3, <2>1 DEF SagaAt, EventsAt
    <3> QED
      BY <2>2, <3>1, <3>2, <3>3, <3>4, <3>5 DEF EventsAt
  <2>5. RowAt(k, next)'
    BY <1>1, <1>3, <2>1, <2>2 DEF SagaAt, RowAt
  <2>6. CommandsAt(k, next)'
    BY <1>1, <1>3, <2>1, <2>2 DEF SagaAt, CommandsAt
  <2>7. SagaAt(k, next)'
    BY <2>1, <2>2, <2>4, <2>5, <2>6 DEF SagaAt
  <2> QED
    BY <1>3, <1>4, <2>2, <2>7 DEF RollbackInv, Steps
<1> QED
  BY <1>5, <1>6

\* A handler that is the last of its event updates the bundle and sends a command.
LEMMA Updated ==
  ASSUME NEW e, NEW row, NEW commands, BundleInv, sagaFaults = 0, sagaFaults' = 0,
         P!UpdateAndSend(e, row, commands)
  PROVE  /\ vb' = row /\ P!Send(commands) /\ inbox' = inbox \ {e}
         /\ UNCHANGED <<published, rollingBack>>
<1>1. ~P!Fault
  BY DEF P!Fault
<1> QED
  BY <1>1 DEF P!UpdateAndSend, P!Ack

\* The booking of the next part is ordered.
LEMMA Advance ==
  ASSUME BundleInv, NEW k \in 0..3, SagaAt(k, "booked"), RowAt(k + 1, "commanded")',
         P!Send(<<Nth(k + 1)>>), inbox' = inbox \ {Booked(k)},
         UNCHANGED <<published, rollingBack>>
  PROVE  SagaAt(k + 1, "commanded")'
<1>1. EventsAt(k + 1, "commanded")'
  <2>1. /\ published \subseteq {Booked(j) : j \in 0..(k - 1)} \cup {Booked(k)} \cup Confirmations
        /\ published \cap Confirmations # {} => k >= 1
        /\ inbox \subseteq {Booked(k)} \cup Confirmations
        /\ rollingBack = {}
    BY DEF SagaAt, EventsAt, Latest
  <2>2. {Booked(j) : j \in 0..(k - 1)} \cup {Booked(k)} \subseteq {Booked(j) : j \in 0..k}
    OBVIOUS
  <2>3. k + 1 - 1 = k
    OBVIOUS
  <2>4. /\ published' \subseteq {Booked(j) : j \in 0..(k + 1 - 1)} \cup Confirmations
        /\ published' \cap Confirmations # {} => k + 1 >= 2
        /\ inbox' \subseteq Confirmations
        /\ rollingBack' = {}
    BY <2>1, <2>2, <2>3
  <2> QED
    BY <2>4 DEF EventsAt, Latest
<1>2. CommandsAt(k + 1, "commanded")'
  <2>1. sent \in Seq(Commanded) /\ Len(sent) = k /\ pending = {}
        /\ \A i \in 1..k : sent[i] = Nth(i)
    BY DEF SagaAt, CommandsAt, BundleInv
  <2>2. sent' = sent \o <<Nth(k + 1)>> /\ pending' = (k + 1)..(k + 1)
    BY <2>1 DEF P!Send
  <2>3. Len(sent') = k + 1 /\ \A i \in 1..(k + 1) : sent'[i] = Nth(i)
    BY <2>1, <2>2
  <2>4. pending' = {k + 1}
    BY <2>2
  <2> QED
    BY <2>3, <2>4 DEF CommandsAt
<1> QED
  BY <1>1, <1>2 DEF SagaAt

\* The list of the tickets stays as it is.
LEMMA SameTickets ==
  ASSUME TicketsInv, vb'.tickets = vb.tickets, inbox' \subseteq inbox, published \subseteq published'
  PROVE  TicketsInv' /\ \A t \in Tickets : Listed(t)' <=> Listed(t)
<1>1. \A t \in Tickets : Listed(t)' <=> Listed(t)
  BY DEF Listed
<1> QED
  BY <1>1 DEF TicketsInv

LEMMA BookedStep ==
  ASSUME BundleInv, TicketsInv, sagaFaults = 0, sagaFaults' = 0, NEW k \in 0..4,
         SagaAt(k, "booked"), P!Handle(Booked(k)), Booked(k) \in inbox
  PROVE  RollbackInv'
<1> DEFINE e == Booked(k)
<1>1. /\ RowAt(k, "booked") /\ rollingBack = {} /\ vb.flights \in [P!Flights -> Nat]
      /\ vb \in Bundle /\ {"inbound", "return"} = P!Flights
  BY DEF SagaAt, EventsAt, BundleInv, Bundle, P!Flights
<1>2. e.name \notin P!Failures /\ e \notin rollingBack
  BY <1>1, EventNames
\* A handler that sends the next booking.
<1>3. ASSUME NEW row, k # 4, P!UpdateAndSend(e, row, <<Nth(k + 1)>>), row.tickets = vb.tickets,
             vb' = row => RowAt(k + 1, "commanded")'
      PROVE  RollbackInv'
  <2>1. /\ vb' = row /\ P!Send(<<Nth(k + 1)>>) /\ inbox' = inbox \ {e}
        /\ UNCHANGED <<published, rollingBack>>
    BY <1>3, Updated
  <2>2. SagaAt(k + 1, "commanded")'
    BY <1>3, <2>1, Advance
  <2>3. TicketsInv'
    BY <1>3, <2>1, SameTickets
  <2>4. k + 1 \in 0..4 /\ "commanded" \in Steps /\ "commanded" \notin {"undoing", "undone"}
    BY <1>3 DEF Steps
  <2> QED
    BY <2>2, <2>3, <2>4 DEF RollbackInv
<1>4. CASE k = 0
  <2>1. P!UpdateAndSend(e, vb, <<Nth(1)>>)
    BY <1>2, <1>4, EventNames, Nths
    DEF P!Handle, P!OnVipBundleInitialized, P!OnBookingMade, P!OnTicketBookingConfirmed,
        P!OnFlightBooked, P!OnTaxiBooked, P!RollbackSend, P!RollbackUpdate
  <2>2. vb' = vb => RowAt(1, "commanded")'
    BY <1>1, <1>4 DEF RowAt
  <2> QED
    BY <1>3, <1>4, <2>1, <2>2
<1>5. CASE k = 1
  <2> DEFINE row == [vb EXCEPT !.made = TRUE]
  <2>1. P!UpdateAndSend(e, row, <<Nth(2)>>)
    BY <1>2, <1>5, EventNames, Nths
    DEF P!Handle, P!OnVipBundleInitialized, P!OnBookingMade, P!OnTicketBookingConfirmed,
        P!OnFlightBooked, P!OnTaxiBooked, P!RollbackSend, P!RollbackUpdate
  <2>2. /\ row.made = TRUE /\ row.flights = vb.flights /\ row.failed = vb.failed
        /\ row.tickets = vb.tickets
    BY <1>1 DEF Bundle
  <2> HIDE DEF row
  <2>3. vb' = row => RowAt(2, "commanded")'
    BY <1>1, <1>5, <2>2 DEF RowAt
  <2> QED
    BY <1>3, <1>5, <2>1, <2>2, <2>3
<1>6. CASE k \in {2, 3}
  <2> DEFINE row == [vb EXCEPT !.flights[e.of] = e.booking]
             flight == IF k = 2 THEN "inbound" ELSE "return"
  <2>1. e.of = flight /\ e.booking = k
    BY <1>6, Events DEF P!Event
  <2>2. /\ row.made = vb.made /\ row.failed = vb.failed /\ row.tickets = vb.tickets
        /\ row.flights = [vb.flights EXCEPT ![e.of] = e.booking]
    BY <1>1 DEF Bundle
  <2>3. P!UpdateAndSend(e, row, P!AfterFlight(row))
    BY <1>2, <1>6, EventNames
    DEF P!Handle, P!OnVipBundleInitialized, P!OnBookingMade, P!OnTicketBookingConfirmed,
        P!OnFlightBooked, P!OnTaxiBooked, P!RollbackSend, P!RollbackUpdate
  <2> HIDE DEF row, e
  <2>4. /\ row.flights["inbound"] = 2 /\ row.flights["return"] = (IF k = 3 THEN 3 ELSE 0)
    <3>1. row.flights = [vb.flights EXCEPT ![flight] = k]
      BY <2>1, <2>2
    <3>2. CASE k = 2
      BY <1>1, <3>1, <3>2 DEF RowAt
    <3>3. CASE k = 3
      BY <1>1, <3>1, <3>3 DEF RowAt
    <3> QED
      BY <1>6, <3>2, <3>3
  <2>5. P!AfterFlight(row) = <<Nth(k + 1)>>
    <3>1. CASE k = 2
      BY <2>4, <3>1, Nths DEF P!AfterFlight
    <3>2. CASE k = 3
      BY <2>4, <3>2, Nths DEF P!AfterFlight
    <3> QED
      BY <1>6, <3>1, <3>2
  <2>6. vb' = row => RowAt(k + 1, "commanded")'
    BY <1>1, <1>6, <2>2, <2>4 DEF RowAt
  <2> QED
    BY <1>3, <1>6, <2>2, <2>3, <2>5, <2>6
<1>7. CASE k = 4
  <2>1. P!OnTaxiBooked(e)
    BY <1>2, <1>7, EventNames
    DEF P!Handle, P!OnVipBundleInitialized, P!OnBookingMade, P!OnTicketBookingConfirmed,
        P!OnFlightBooked, P!OnTaxiBooked, P!RollbackSend, P!RollbackUpdate
  <2>2. /\ vb' = [vb EXCEPT !.taxi = TRUE, !.finalized = TRUE] /\ inbox' = inbox \ {e}
        /\ published' = published \cup {Finalized} /\ UNCHANGED <<sent, pending, rollingBack>>
    BY <2>1 DEF P!OnTaxiBooked, P!Ack, P!Fault, Finalized
  <2>3. /\ vb'.made = vb.made /\ vb'.flights = vb.flights /\ vb'.failed = vb.failed
        /\ vb'.tickets = vb.tickets
    BY <1>1, <2>2 DEF Bundle
  <2>4. RowAt(4, "complete")'
    BY <1>1, <1>7, <2>3 DEF RowAt
  <2>5. EventsAt(4, "complete")'
    <3>1. /\ published \subseteq {Booked(j) : j \in 0..3} \cup {Booked(4)} \cup Confirmations
          /\ inbox \subseteq {Booked(4)} \cup Confirmations
      BY <1>7 DEF SagaAt, EventsAt, Latest
    <3>2. /\ published' \subseteq {Booked(j) : j \in 0..3} \cup {Booked(4), Finalized} \cup Confirmations
          /\ inbox' \subseteq Confirmations /\ rollingBack' = {}
      BY <1>1, <1>7, <2>2, <3>1
    <3> QED
      BY <3>2 DEF EventsAt, Latest
  <2>6. CommandsAt(4, "complete")'
    BY <1>7, <2>2 DEF SagaAt, CommandsAt
  <2>7. TicketsInv'
    BY <2>2, <2>3, SameTickets
  <2>8. SagaAt(4, "complete")'
    BY <2>4, <2>5, <2>6 DEF SagaAt
  <2> QED
    BY <2>7, <2>8 DEF RollbackInv, Steps
<1> QED
  BY <1>4, <1>5, <1>6, <1>7

\* The confirmation of a ticket is handled, while nothing is undone.
LEMMA ConfirmedStep ==
  ASSUME BundleInv, TicketsInv, sagaFaults = 0, sagaFaults' = 0, NEW k \in 0..4, NEW step \in Steps,
         SagaAt(k, step),
         step \in {"undoing", "undone"} /\ vb.made => \A t \in Tickets : Listed(t),
         NEW e \in inbox \cap Confirmations, P!Handle(e)
  PROVE  RollbackInv'
<1>1. e.name = "TicketBookingConfirmed" /\ e.of \in Tickets /\ e = Confirmed(e.of)
      /\ e \in published
  BY EventNames DEF BundleInv
<1>2. e \notin rollingBack /\ e.name \notin P!Failures
  <2>1. e.name \notin P!Failures
    BY <1>1 DEF P!Failures
  <2> QED
    BY <2>1 DEF BundleInv
<1>3. P!UpdateAndSend(e, [vb EXCEPT !.tickets = Append(@, e.of)], <<>>)
  BY <1>1, <1>2
  DEF P!Handle, P!OnVipBundleInitialized, P!OnBookingMade, P!OnTicketBookingConfirmed,
      P!OnFlightBooked, P!OnTaxiBooked, P!RollbackSend, P!RollbackUpdate
<1>4. /\ vb' = [vb EXCEPT !.tickets = Append(@, e.of)] /\ P!Send(<<>>) /\ inbox' = inbox \ {e}
      /\ UNCHANGED <<published, rollingBack>>
  BY <1>3, Updated
<1>5. /\ vb'.made = vb.made /\ vb'.flights = vb.flights /\ vb'.failed = vb.failed
      /\ vb'.tickets = Append(vb.tickets, e.of) /\ vb.tickets \in Seq(Tickets)
  BY <1>4 DEF BundleInv, Bundle
<1>6. sent' = sent /\ pending' = pending
  <2>1. sent \in Seq(Commanded) /\ Len(sent) \in Nat
    BY DEF BundleInv
  <2>2. sent' = sent
    BY <1>4, <2>1 DEF P!Send
  <2>3. pending' = pending \cup ((Len(sent) + 1)..(Len(sent) + 0))
    BY <1>4 DEF P!Send
  <2>4. (Len(sent) + 1)..(Len(sent) + 0) = {}
    BY <2>1
  <2> QED
    BY <2>2, <2>3, <2>4
<1>7. ~Listed(e.of)
  BY <1>1 DEF TicketsInv
<1>8. step \notin {"undoing", "undone"}
  <2>1. k >= 2 \/ (k = 1 /\ step = "booked")
    BY <1>1 DEF SagaAt, EventsAt
  <2>2. vb.made \/ step = "booked"
    BY <2>1 DEF SagaAt, RowAt
  <2> QED
    BY <1>1, <1>7, <2>2
<1>9. SagaAt(k, step)'
  <2>1. RowAt(k, step)'
    BY <1>5 DEF SagaAt, RowAt
  <2>2. EventsAt(k, step)'
    BY <1>4 DEF SagaAt, EventsAt, Latest
  <2>3. CommandsAt(k, step)'
    BY <1>6, <1>8 DEF SagaAt, CommandsAt
  <2> QED
    BY <2>1, <2>2, <2>3 DEF SagaAt
<1>10. TicketsInv'
  <2> DEFINE ids == vb.tickets
  <2>1. /\ Len(vb'.tickets) = Len(ids) + 1 /\ Len(ids) \in Nat /\ vb'.tickets[Len(ids) + 1] = e.of
        /\ \A i \in 1..Len(ids) : vb'.tickets[i] = ids[i]
    BY <1>5
  <2>2. \A i \in 1..Len(ids) : ids[i] # e.of
    BY <1>7 DEF Listed
  <2>3. \A i, j \in 1..Len(ids) : ids[i] = ids[j] => i = j
    BY DEF TicketsInv
  <2>4. \A i \in 1..Len(vb'.tickets) : i \in 1..Len(ids) \/ i = Len(ids) + 1
    BY <2>1
  <2>5. \A i, j \in 1..Len(vb'.tickets) : vb'.tickets[i] = vb'.tickets[j] => i = j
    BY <2>1, <2>2, <2>3, <2>4
  <2>6. ASSUME NEW t \in Tickets, Listed(t)'
        PROVE  Confirmed(t) \in published /\ Confirmed(t) \notin inbox'
    <3>1. t = e.of \/ Listed(t)
      BY <2>1, <2>4, <2>6 DEF Listed
    <3>2. CASE t = e.of
      BY <1>1, <1>4, <3>2
    <3>3. CASE Listed(t)
      BY <1>4, <3>3 DEF TicketsInv
    <3> QED
      BY <3>1, <3>2, <3>3
  <2>7. \A t : Confirmed(t)' = Confirmed(t)
    BY DEF Confirmed, P!Event
  <2> QED
    BY <1>4, <2>5, <2>6, <2>7 DEF TicketsInv
<1> QED
  BY <1>8, <1>9, <1>10 DEF RollbackInv

\* A rollback sends its commands, of all tickets, and then ends.
LEMMA FailedStep ==
  ASSUME IsFiniteSet(Tickets), BundleInv, TicketsInv, sagaFaults = 0, sagaFaults' = 0,
         NEW k \in 1..4, NEW step \in {"failed", "undoing"}, SagaAt(k, step),
         step \in {"undoing", "undone"} /\ vb.made => \A t \in Tickets : Listed(t),
         Failed(k) \in inbox, P!Handle(Failed(k))
  PROVE  RollbackInv'
<1> DEFINE e == Failed(k)
<1>1. e.name \in P!Failures /\ ~P!Fault
  BY EventNames DEF P!Fault
<1>2. (P!RollbackSend(e) /\ step = "failed") \/ (P!RollbackUpdate(e) /\ step = "undoing")
  <2>1. rollingBack = IF step = "undoing" THEN {e} ELSE {}
    BY DEF SagaAt, EventsAt
  <2>2. P!RollbackSend(e) \/ P!RollbackUpdate(e)
    BY <1>1
    DEF P!Handle, P!OnVipBundleInitialized, P!OnBookingMade, P!OnTicketBookingConfirmed,
        P!OnFlightBooked, P!OnTaxiBooked, P!Failures
  <2> QED
    BY <2>1, <2>2 DEF P!RollbackSend, P!RollbackUpdate
<1>3. CASE P!RollbackSend(e) /\ step = "failed"
  <2>1. /\ P!CanRollBack /\ P!Send(P!Compensations(vb)) /\ rollingBack' = rollingBack \cup {e}
        /\ UNCHANGED <<vb, published, inbox>>
    BY <1>1, <1>3 DEF P!RollbackSend
  <2>2. \A t \in Tickets : vb.made => Listed(t)
    <3>1. vb.tickets \in Seq(Tickets)
      BY DEF BundleInv, Bundle
    <3>2. vb.made => Len(vb.tickets) = P!NumberOfTickets
      BY <2>1 DEF P!CanRollBack
    <3> QED
      BY <3>1, <3>2, AllListed DEF TicketsInv, Listed
  <2>3. TicketsInv' /\ \A t \in Tickets : Listed(t)' <=> Listed(t)
    BY <2>1, SameTickets
  <2>4. RowAt(k, "undoing")'
    BY <1>3, <2>1 DEF SagaAt, RowAt
  <2>5. EventsAt(k, "undoing")'
    <3>1. rollingBack = {}
      BY <1>3 DEF SagaAt, EventsAt
    <3> QED
      BY <1>3, <2>1, <3>1 DEF SagaAt, EventsAt, Latest
  <2>6. CommandsAt(k, "undoing")'
    <3> DEFINE comp == P!Compensations(vb)
    <3>1. sent \in Seq(Commanded) /\ comp \in Seq(Commanded)
      BY CompensationTypes DEF BundleInv
    <3>2. Len(sent) = k /\ pending = {} /\ \A i \in 1..k : sent[i] = Nth(i)
      BY <1>3 DEF SagaAt, CommandsAt
    <3>3. sent' = sent \o comp /\ pending' = (k + 1)..(k + Len(comp)) /\ comp' = comp
      BY <2>1, <3>2 DEF P!Send, P!Compensations, P!Cancellations
    <3> HIDE DEF comp
    <3>a. /\ Len(sent \o comp) = Len(sent) + Len(comp) /\ Len(sent) \in Nat /\ Len(comp) \in Nat
          /\ \A i \in 1..Len(sent) : (sent \o comp)[i] = sent[i]
          /\ \A j \in 1..Len(comp) : (sent \o comp)[Len(sent) + j] = comp[j]
      BY <3>1, Sent
    <3>4. /\ Len(sent') = k + Len(comp) /\ \A i \in 1..k : sent'[i] = Nth(i)
          /\ \A j \in 1..Len(comp) : sent'[k + j] = comp[j]
          /\ Len(sent') >= k
      BY <3>2, <3>3, <3>a
    <3> QED
      BY <3>3, <3>4 DEF CommandsAt, comp
  <2>7. SagaAt(k, "undoing")'
    BY <2>4, <2>5, <2>6 DEF SagaAt
  <2> QED
    BY <2>1, <2>2, <2>3, <2>7 DEF RollbackInv, Steps
<1>4. CASE P!RollbackUpdate(e) /\ step = "undoing"
  <2>1. /\ vb' = [vb EXCEPT !.finalized = TRUE, !.failed = TRUE] /\ inbox' = inbox \ {e}
        /\ rollingBack' = rollingBack \ {e} /\ UNCHANGED <<sent, pending, published>>
    BY <1>1, <1>4 DEF P!RollbackUpdate, P!Ack
  <2>2. /\ vb'.made = vb.made /\ vb'.flights = vb.flights /\ vb'.failed = TRUE
        /\ vb'.tickets = vb.tickets
    BY <2>1 DEF BundleInv, Bundle
  <2>3. TicketsInv' /\ \A t \in Tickets : Listed(t)' <=> Listed(t)
    BY <2>1, <2>2, SameTickets
  <2>4. RowAt(k, "undone")'
    BY <2>2 DEF SagaAt, RowAt
  <2>5. EventsAt(k, "undone")'
    <3>1. rollingBack = {e} /\ inbox \subseteq {e} \cup Confirmations
      BY <1>4 DEF SagaAt, EventsAt, Latest
    <3>2. rollingBack' = {} /\ inbox' \subseteq Confirmations
      BY <2>1, <3>1
    <3> QED
      BY <1>4, <2>1, <3>2 DEF SagaAt, EventsAt, Latest
  <2>6. CommandsAt(k, "undone")'
    <3>1. P!Compensations(vb)' = P!Compensations(vb)
      BY <2>2 DEF P!Compensations, P!Cancellations
    <3> QED
      BY <1>4, <2>1, <3>1 DEF SagaAt, CommandsAt
  <2>7. SagaAt(k, "undone")'
    BY <2>4, <2>5, <2>6 DEF SagaAt
  <2>8. vb'.made => \A t \in Tickets : Listed(t)'
    BY <1>4, <2>2, <2>3
  <2> QED
    BY <2>3, <2>7, <2>8 DEF RollbackInv, Steps
<1> QED
  BY <1>2, <1>3, <1>4

LEMMA SagaStep ==
  Bounds /\ IsFiniteSet(Tickets) /\ BundleInv /\ RollbackInv /\ [Next]_vars => RollbackInv'
<1> SUFFICES ASSUME Bounds, IsFiniteSet(Tickets), BundleInv, RollbackInv, [P!Next]_P!vars,
                    sagaFaults' = 0
             PROVE  RollbackInv'
  BY BundleSteps DEF RollbackInv
<1>1. CASE UNCHANGED P!vars
  <2>1. UNCHANGED <<vb, sent, pending, published, inbox, rollingBack, sagaFaults>>
    BY <1>1 DEF P!vars
  <2>2. TicketsInv /\ sagaFaults = 0
    BY <2>1 DEF RollbackInv
  <2>3. PICK k \in 0..4, step \in Steps :
               /\ SagaAt(k, step)
               /\ step \in {"undoing", "undone"} /\ vb.made => \A t \in Tickets : Listed(t)
    BY <2>2 DEF RollbackInv
  <2>4. TicketsInv' /\ \A t \in Tickets : Listed(t)' <=> Listed(t)
    BY <2>1, <2>2, SameTickets
  <2>5. P!Compensations(vb)' = P!Compensations(vb)
    BY <2>1 DEF P!Compensations, P!Cancellations
  <2>6. RowAt(k, step)' /\ EventsAt(k, step)' /\ CommandsAt(k, step)'
    <3>1. RowAt(k, step)'
      BY <2>1, <2>3 DEF SagaAt, RowAt
    <3>2. EventsAt(k, step)'
      BY <2>1, <2>3 DEF SagaAt, EventsAt
    <3>3. CommandsAt(k, step)'
      BY <2>1, <2>3, <2>5 DEF SagaAt, CommandsAt
    <3> QED
      BY <3>1, <3>2, <3>3
  <2>7. SagaAt(k, step)'
    BY <2>3, <2>6 DEF SagaAt
  <2> QED
    BY <2>1, <2>3, <2>4, <2>7 DEF RollbackInv
<1>2. ASSUME NEW e \in inbox, P!Handle(e) PROVE RollbackInv'
  <2>1. sagaFaults = 0
    <3>1. BundleInv'
      BY <1>2, HandleType
    <3>2. sagaFaults \in Nat /\ (sagaFaults' = sagaFaults \/ sagaFaults' = sagaFaults + 1)
      BY <1>2, FaultBounds
      DEF BundleInv, P!Handle, P!OnVipBundleInitialized, P!OnBookingMade,
          P!OnTicketBookingConfirmed, P!OnFlightBooked, P!OnTaxiBooked, P!RollbackSend,
          P!RollbackUpdate, P!UpdateAndSend, P!Ack, P!Fault
    <3> QED
      BY <3>2
  <2>2. TicketsInv
    BY <2>1 DEF RollbackInv
  <2>3. PICK k \in 0..4, step \in Steps :
               /\ SagaAt(k, step)
               /\ step \in {"undoing", "undone"} /\ vb.made => \A t \in Tickets : Listed(t)
    BY <2>1 DEF RollbackInv
  <2>4. CASE e \in Confirmations
    BY <1>2, <2>1, <2>2, <2>3, <2>4, ConfirmedStep
  <2>5. CASE e \notin Confirmations
    <3>1. step \in {"booked", "failed", "undoing"} /\ e \in Latest(k, step)
      BY <2>3, <2>5 DEF SagaAt, EventsAt
    <3>2. CASE step = "booked"
      BY <1>2, <2>1, <2>2, <2>3, <3>1, <3>2, BookedStep DEF Latest
    <3>3. CASE step \in {"failed", "undoing"}
      <4>1. e = Failed(k) /\ k \in 1..4
        BY <2>3, <3>1, <3>3 DEF Latest, SagaAt
      <4> QED
        BY <1>2, <2>1, <2>2, <2>3, <3>3, <4>1, FailedStep
    <3> QED
      BY <3>1, <3>2, <3>3
  <2> QED
    BY <2>4, <2>5
<1> QED
  BY <1>1, <1>2, SagaServeStep DEF P!Next

\* Where the compensations of a bundle whose show was booked are.
LEMMA CompensationsOf ==
  ASSUME BundleInv, vb.made
  PROVE  /\ Len(vb.tickets) \in Nat
         /\ Len(P!Compensations(vb)) =
              Len(vb.tickets) + (IF vb.flights["inbound"] = 0 THEN 0 ELSE 1)
                              + (IF vb.flights["return"] = 0 THEN 0 ELSE 1)
         /\ \A j \in 1..Len(vb.tickets) :
              P!Compensations(vb)[j] = P!Command("RefundTicket", vb.tickets[j], 0)
         /\ vb.flights["inbound"] # 0 =>
              P!Compensations(vb)[Len(vb.tickets) + 1]
                = P!Command("CancelFlightTickets", "inbound", vb.flights["inbound"])
         /\ vb.flights["return"] # 0 =>
              P!Compensations(vb)[Len(P!Compensations(vb))]
                = P!Command("CancelFlightTickets", "return", vb.flights["return"])
<1> DEFINE n == Len(vb.tickets)
           Refunds == [i \in 1..n |-> P!Command("RefundTicket", vb.tickets[i], 0)]
           c == P!Command("CancelFlightTickets", "inbound", vb.flights["inbound"])
           d == P!Command("CancelFlightTickets", "return", vb.flights["return"])
           Inbound == IF vb.flights["inbound"] = 0 THEN <<>> ELSE <<c>>
           Return == IF vb.flights["return"] = 0 THEN <<>> ELSE <<d>>
           R == {c, d} \cup {P!Command("RefundTicket", vb.tickets[i], 0) : i \in 1..n}
<1>1. n \in Nat
  BY DEF BundleInv, Bundle
<1>2. Refunds \in Seq(R) /\ Len(Refunds) = n
      /\ \A i \in 1..n : Refunds[i] = P!Command("RefundTicket", vb.tickets[i], 0)
  BY <1>1
<1>3. c \in R /\ d \in R
  OBVIOUS
<1>4. P!Compensations(vb) = Refunds \o (Inbound \o Return)
  BY DEF P!Compensations, P!Cancellations
<1> HIDE DEF Refunds, c, d, R, n
<1>5. CASE vb.flights["inbound"] = 0 /\ vb.flights["return"] = 0
  <2>1. P!Compensations(vb) = Refunds
    BY <1>2, <1>4, <1>5
  <2> QED
    BY <1>1, <1>2, <1>5, <2>1 DEF n
<1>6. CASE vb.flights["inbound"] # 0 /\ vb.flights["return"] = 0
  <2>1. P!Compensations(vb) = Refunds \o <<c>>
    BY <1>3, <1>4, <1>6
  <2>2. /\ Len(P!Compensations(vb)) = n + 1 /\ P!Compensations(vb)[n + 1] = c
        /\ \A i \in 1..n : P!Compensations(vb)[i] = Refunds[i]
    BY <1>1, <1>2, <1>3, <2>1
  <2> QED
    BY <1>1, <1>2, <1>6, <2>2 DEF n, c
<1>7. CASE vb.flights["inbound"] = 0 /\ vb.flights["return"] # 0
  <2>1. P!Compensations(vb) = Refunds \o <<d>>
    BY <1>3, <1>4, <1>7
  <2>2. /\ Len(P!Compensations(vb)) = n + 1 /\ P!Compensations(vb)[n + 1] = d
        /\ \A i \in 1..n : P!Compensations(vb)[i] = Refunds[i]
    BY <1>1, <1>2, <1>3, <2>1
  <2> QED
    BY <1>1, <1>2, <1>7, <2>2 DEF n, d
<1>8. CASE vb.flights["inbound"] # 0 /\ vb.flights["return"] # 0
  <2>1. P!Compensations(vb) = Refunds \o <<c, d>>
    BY <1>3, <1>4, <1>8
  <2>2. /\ Len(P!Compensations(vb)) = n + 2 /\ P!Compensations(vb)[n + 1] = c
        /\ P!Compensations(vb)[n + 2] = d
        /\ \A i \in 1..n : P!Compensations(vb)[i] = Refunds[i]
    <3>1. <<c, d>> \in Seq(R) /\ Len(<<c, d>>) = 2 /\ <<c, d>>[1] = c /\ <<c, d>>[2] = d
      BY <1>3
    <3>2. /\ Len(Refunds \o <<c, d>>) = n + 2
          /\ \A i \in 1..n : (Refunds \o <<c, d>>)[i] = Refunds[i]
          /\ \A i \in 1..2 : (Refunds \o <<c, d>>)[n + i] = <<c, d>>[i]
      BY <1>2, <3>1, Sent
    <3>3. (Refunds \o <<c, d>>)[n + 1] = c /\ (Refunds \o <<c, d>>)[n + 2] = d
      <4>1. 1 \in 1..2 /\ 2 \in 1..2
        OBVIOUS
      <4> QED
        BY <3>1, <3>2, <4>1
    <3> QED
      BY <2>1, <3>2, <3>3
  <2> QED
    BY <1>1, <1>2, <1>8, <2>2 DEF n, c, d
<1> QED
  BY <1>5, <1>6, <1>7, <1>8

\* A command that the sequence has once is sent once.
LEMMA SentOnce ==
  ASSUME NEW name, NEW of, NEW booking, NEW i \in DOMAIN sent,
         \A j \in DOMAIN sent : sent[j] = P!Command(name, of, booking) <=> j = i
  PROVE  P!TimesSent(name, of, booking) = 1
<1>1. {j \in DOMAIN sent : sent[j] = P!Command(name, of, booking)} = {i}
  OBVIOUS
<1>2. Cardinality({i}) = 1
  BY FS_Singleton
<1> QED
  BY <1>1, <1>2 DEF P!TimesSent, P!Cardinality, Cardinality

LEMMA RollbackUndoes == BundleInv /\ RollbackInv => P!RollbackUndoesAll
<1> SUFFICES ASSUME BundleInv, RollbackInv, sagaFaults = 0, vb.failed, NEW e \in published
             PROVE  /\ e.name = "TicketBookingConfirmed" => P!TimesSent("RefundTicket", e.of, 0) = 1
                    /\ e.name = "FlightBooked" =>
                         P!TimesSent("CancelFlightTickets", e.of, e.booking) = 1
                    /\ e.name # "TaxiBooked"
  BY DEF P!RollbackUndoesAll
<1>1. PICK k \in 0..4, step \in Steps :
             /\ SagaAt(k, step)
             /\ step \in {"undoing", "undone"} /\ vb.made => \A t \in Tickets : Listed(t)
  BY DEF RollbackInv
<1>2. step = "undone" /\ k \in 1..4
  BY <1>1 DEF SagaAt, RowAt
<1> DEFINE comp == P!Compensations(vb)
<1>3. /\ Len(sent) = k + Len(comp) /\ \A i \in 1..k : sent[i] = Nth(i)
      /\ \A j \in 1..Len(comp) : sent[k + j] = comp[j]
      /\ comp \in Seq(Commanded) /\ DOMAIN sent = 1..Len(sent)
  BY <1>1, <1>2, CompensationTypes DEF SagaAt, CommandsAt, BundleInv
<1>4. /\ published \subseteq {Booked(j) : j \in 0..(k - 1)} \cup {Failed(k)} \cup Confirmations
      /\ published \cap Confirmations # {} => k >= 2
  BY <1>1, <1>2 DEF SagaAt, EventsAt, Latest
<1>5. /\ vb.made <=> k >= 2
      /\ vb.flights["inbound"] = IF k >= 3 THEN 2 ELSE 0
      /\ vb.flights["return"] = IF k >= 4 THEN 3 ELSE 0
  BY <1>1 DEF SagaAt, RowAt
\* The compensations: a refund of each ticket, then the cancellations.
<1> DEFINE n == Len(vb.tickets)
<1>a. ASSUME k >= 2
      PROVE  /\ n \in Nat
             /\ Len(comp) = n + (IF k >= 3 THEN 1 ELSE 0) + (IF k >= 4 THEN 1 ELSE 0)
             /\ \A j \in 1..n : comp[j] = P!Command("RefundTicket", vb.tickets[j], 0)
             /\ k >= 3 => comp[n + 1] = P!Command("CancelFlightTickets", "inbound", 2)
             /\ k >= 4 => comp[n + 2] = P!Command("CancelFlightTickets", "return", 3)
  <2>1. vb.made
    BY <1>5, <1>a
  <2>2. /\ n \in Nat
        /\ Len(comp) = n + (IF vb.flights["inbound"] = 0 THEN 0 ELSE 1)
                          + (IF vb.flights["return"] = 0 THEN 0 ELSE 1)
        /\ vb.flights["inbound"] # 0 =>
              comp[n + 1] = P!Command("CancelFlightTickets", "inbound", vb.flights["inbound"])
        /\ vb.flights["return"] # 0 =>
              comp[Len(comp)] = P!Command("CancelFlightTickets", "return", vb.flights["return"])
    BY <2>1, CompensationsOf
  <2>3. \A j \in 1..n : comp[j] = P!Command("RefundTicket", vb.tickets[j], 0)
    BY <2>1, CompensationsOf
  <2> HIDE DEF comp, n
  <2>4. Len(comp) = n + (IF k >= 3 THEN 1 ELSE 0) + (IF k >= 4 THEN 1 ELSE 0)
    <3>1. CASE k = 2
      BY <1>5, <2>2, <3>1
    <3>2. CASE k = 3
      BY <1>5, <2>2, <3>2
    <3>3. CASE k = 4
      BY <1>5, <2>2, <3>3
    <3> QED
      BY <1>2, <1>a, <3>1, <3>2, <3>3
  <2>5. k >= 3 => comp[n + 1] = P!Command("CancelFlightTickets", "inbound", 2)
    BY <1>5, <2>2
  <2>6. k >= 4 => comp[n + 2] = P!Command("CancelFlightTickets", "return", 3)
    <3>1. k >= 4 => Len(comp) = n + 2 /\ vb.flights["return"] = 3
      BY <1>5, <2>2, <2>4
    <3> QED
      BY <2>2, <3>1
  <2> QED
    BY <2>2, <2>3, <2>4, <2>5, <2>6 DEF n
<1> HIDE DEF comp, n
<1>b. /\ \A name, of, booking : P!Command(name, of, booking).name = name
      /\ \A name, of, booking : P!Command(name, of, booking).of = of
  BY DEF P!Command
\* What is among the compensations once is among the commands once.
<1>6. ASSUME NEW name \in {"RefundTicket", "CancelFlightTickets"}, NEW of, NEW booking,
             NEW i \in 1..Len(comp),
             \A j \in 1..Len(comp) : comp[j] = P!Command(name, of, booking) <=> j = i
      PROVE  P!TimesSent(name, of, booking) = 1
  <2> DEFINE undo == P!Command(name, of, booking)
  <2>1. undo.name = name
    BY DEF P!Command
  <2>2. \A j \in 1..k : sent[j] # undo
    BY <1>2, <1>3, <2>1, Nths
  <2> HIDE DEF comp, undo
  <2>3. k + i \in 1..Len(sent) /\ Len(comp) \in Nat
    BY <1>2, <1>3
  <2>4. \A j \in 1..Len(sent) : j \in 1..k \/ (j - k \in 1..Len(comp) /\ j = k + (j - k))
    BY <1>2, <1>3, <2>3
  <2>5. \A j \in 1..Len(sent) : sent[j] = undo <=> j = k + i
    <3>1. \A j \in 1..Len(comp) : sent[k + j] = undo <=> j = i
      BY <1>3, <1>6 DEF undo
    <3>2. ASSUME NEW j \in 1..Len(sent) PROVE sent[j] = undo <=> j = k + i
      <4>1. CASE j \in 1..k
        BY <1>2, <1>6, <2>2, <4>1
      <4>2. CASE j - k \in 1..Len(comp) /\ j = k + (j - k)
        <5>1. sent[k + (j - k)] = undo <=> j - k = i
          BY <3>1, <4>2
        <5>2. j - k = i <=> j = k + i
          BY <1>2, <1>6, <4>2
        <5> QED
          BY <4>2, <5>1, <5>2
      <4> QED
        BY <2>4, <4>1, <4>2
    <3> QED
      BY <3>2
  <2>6. DOMAIN sent = 1..Len(sent)
    BY <1>3
  <2>7. \A j \in DOMAIN sent : sent[j] = P!Command(name, of, booking) <=> j = k + i
    BY <2>5, <2>6 DEF undo
  <2>8. k + i \in DOMAIN sent
    BY <2>3, <2>6
  <2> QED
    BY <2>7, <2>8, SentOnce
<1>7. ASSUME e.name = "TicketBookingConfirmed"
      PROVE  P!TimesSent("RefundTicket", e.of, 0) = 1
  <2>1. e \in Confirmations /\ e.of \in Tickets
    BY <1>2, <1>4, <1>7, EventNames DEF P!Failures
  <2>2. k >= 2 /\ vb.made
    BY <1>4, <1>5, <2>1
  <2>3. PICK i \in 1..Len(vb.tickets) : vb.tickets[i] = e.of
    BY <1>1, <1>2, <2>1, <2>2 DEF Listed
  <2>4. \A j \in 1..Len(vb.tickets) : vb.tickets[j] = e.of => j = i
    BY <2>3 DEF RollbackInv, TicketsInv
  <2>5. ASSUME NEW j \in 1..Len(comp)
        PROVE  comp[j] = P!Command("RefundTicket", e.of, 0) <=> j = i
    <3>1. CASE j \in 1..n
      <4>1. comp[j] = P!Command("RefundTicket", vb.tickets[j], 0)
        BY <1>a, <2>2, <3>1
      <4> QED
        BY <1>b, <2>3, <2>4, <3>1, <4>1 DEF n
    <3>2. CASE j \notin 1..n
      <4>1. (k >= 3 /\ j = n + 1) \/ (k >= 4 /\ j = n + 2)
        BY <1>2, <1>a, <2>2, <3>2
      <4>2. comp[j].name = "CancelFlightTickets"
        BY <1>2, <1>a, <1>b, <2>2, <4>1
      <4> QED
        BY <1>b, <2>3, <3>2, <4>2 DEF n
    <3> QED
      BY <3>1, <3>2
  <2>6. i \in 1..Len(comp)
    <3>1. i \in 1..n
      BY <2>3 DEF n
    <3>2. n \in Nat /\ Len(comp) \in Nat /\ n <= Len(comp)
      BY <1>2, <1>a, <2>2
    <3> QED
      BY <3>1, <3>2
  <2> QED
    BY <1>6, <2>5, <2>6
<1>8. ASSUME e.name = "FlightBooked"
      PROVE  P!TimesSent("CancelFlightTickets", e.of, e.booking) = 1
  <2>1. PICK j \in {2, 3} : e = Booked(j) /\ j <= k - 1
    BY <1>2, <1>4, <1>8, EventNames DEF P!Failures
  <2> DEFINE flight == IF j = 2 THEN "inbound" ELSE "return"
             undo == P!Command("CancelFlightTickets", flight, j)
             i == n + j - 1
  <2>2. e.of = flight /\ e.booking = j
    BY <2>1, Events DEF P!Event
  <2>3. /\ n \in Nat /\ Len(comp) = n + k - 2 /\ k \in {3, 4}
        /\ comp[n + 1] = P!Command("CancelFlightTickets", "inbound", 2)
        /\ k = 4 => comp[n + 2] = P!Command("CancelFlightTickets", "return", 3)
    BY <1>2, <1>a, <2>1
  <2>4. i \in 1..Len(comp) /\ comp[i] = undo
    BY <1>2, <2>1, <2>3
  <2>5. ASSUME NEW m \in 1..Len(comp), comp[m] = undo PROVE m = i
    <3>1. m \notin 1..n
      <4>1. \A l \in 1..n : comp[l].name = "RefundTicket"
        BY <1>a, <1>b, <2>3
      <4> QED
        BY <1>b, <2>5, <4>1
    <3>2. m = n + 1 \/ (m = n + 2 /\ k = 4)
      BY <1>2, <2>1, <2>3, <3>1
    <3>3. undo.of = flight /\ comp[n + 1].of = "inbound" /\ (k = 4 => comp[n + 2].of = "return")
      BY <1>b, <2>3
    <3>4. comp[m].of = flight
      BY <2>5, <3>3
    <3>5. m = n + 1 => j = 2
      BY <2>1, <3>3, <3>4
    <3>6. m = n + 2 /\ k = 4 => j = 3
      BY <2>1, <3>3, <3>4
    <3> QED
      BY <2>3, <3>2, <3>5, <3>6
  <2>6. \A m \in 1..Len(comp) : comp[m] = undo <=> m = i
    BY <2>4, <2>5
  <2>7. P!TimesSent("CancelFlightTickets", flight, j) = 1
    BY <1>6, <2>4, <2>6
  <2> QED
    BY <2>2, <2>7
<1>9. e.name # "TaxiBooked"
  BY <1>2, <1>4, EventNames DEF P!Failures
<1> QED
  BY <1>7, <1>8, <1>9

\* While no command is sent and no event delivered twice, a rollback that has ended has
\* refunded each ticket and cancelled each flight exactly once, and there is no taxi, in
\* whatever order the handlers run.
THEOREM RollbackUndoesAllHolds ==
  Bounds /\ IsFiniteSet(Tickets) => (Spec => []RollbackUndoesAll)
<1> SUFFICES ASSUME Bounds, IsFiniteSet(Tickets) PROVE Spec => []RollbackUndoesAll
  OBVIOUS
<1> DEFINE Inv == BundleInv /\ RollbackInv
<1>1. Init => Inv
  BY BundleInit, RollbackInit DEF Init
<1>2. Inv /\ [Next]_vars => Inv'
  BY BundleStep, SagaStep
<1>3. Inv => RollbackUndoesAll
  BY RollbackUndoes DEF RollbackUndoesAll
<1> QED
  BY <1>1, <1>2, <1>3, PTL DEF Spec

=============================================================================
