--------------------------- MODULE AlertVersions ----------------------------
(***************************************************************************)
(* 14-message-ordering/04-versioning-entities: AlertTriggered and          *)
(* AlertResolved come on two topics, each in its order; the handlers of    *)
(* both update one map, under a lock, and only with the next version of an *)
(* alert.  An event with any other version is acked and forgotten.         *)
(*                                                                         *)
(* AlertUpdated is published after the map was changed: when that fails,   *)
(* the event comes again, but its version is no longer the next one.  The  *)
(* map is lost when the process restarts, the events acked are not read    *)
(* again.                                                                  *)
(***************************************************************************)
EXTENDS Naturals, Sequences, SequencesExt

CONSTANTS
  Alerts,
  MaxVersion, \* bound: events of an alert
  MaxFaults   \* bound: publications that fail, acks that are lost, restarts

Topics == {"triggered", "resolved"}

VARIABLES
  emitted,   \* the version of an alert at its producer
  topic,     \* the events of a topic not acked: <<alert, version>>
  alerts,    \* the map: the last version handled; 0: not in the map
  updates,   \* the AlertUpdated events published for an alert
  tooEarly,  \* the events forgotten because an earlier one was not handled yet
  restarted, \* the map was lost once
  alertFaults \* faults so far (bounds the model)

vars == <<emitted, topic, alerts, updates, tooEarly, restarted, alertFaults>>

TypeOK ==
  /\ emitted \in [Alerts -> 0..MaxVersion]
  /\ topic \in [Topics -> Seq(Alerts \X (1..MaxVersion))]
  /\ alerts \in [Alerts -> 0..MaxVersion]
  /\ updates \in [Alerts -> Seq([version : 1..MaxVersion, triggered : BOOLEAN])]
  /\ tooEarly \subseteq Alerts \X (1..MaxVersion)
  /\ restarted \in BOOLEAN
  /\ alertFaults \in 0..MaxFaults

Fault == alertFaults < MaxFaults /\ alertFaults' = alertFaults + 1

-----------------------------------------------------------------------------
\* An alert is triggered and resolved in turn.
TopicOf(version) == IF version % 2 = 1 THEN "triggered" ELSE "resolved"

Emit(a) ==
  /\ emitted[a] < MaxVersion
  /\ emitted' = [emitted EXCEPT ![a] = @ + 1]
  /\ topic' = [topic EXCEPT ![TopicOf(emitted'[a])] = Append(@, <<a, emitted'[a]>>)]
  /\ UNCHANGED <<alerts, updates, tooEarly, restarted, alertFaults>>

Offers(k, a, v) == topic[k] # <<>> /\ Head(topic[k]) = <<a, v>>

\* The handler returned nil: its event is acked, unless that is lost.
Ack(k) ==
  \/ topic' = [topic EXCEPT ![k] = Tail(@)] /\ UNCHANGED alertFaults
  \/ Fault /\ UNCHANGED topic

IsNext(a, v) == alerts[a] + 1 = v

\* OnAlertTriggered or OnAlertResolved ignores the event.
Ignore(k, a, v) ==
  /\ Offers(k, a, v)
  /\ ~IsNext(a, v)
  /\ Ack(k)
  /\ tooEarly' = IF alerts[a] + 1 < v /\ topic' # topic THEN tooEarly \cup {<<a, v>>}
                 ELSE tooEarly
  /\ UNCHANGED <<emitted, alerts, updates, restarted>>

\* Mutant: the map is not changed.
Remember_Not(a, v) == UNCHANGED alerts

Remember(a, v) == alerts' = [alerts EXCEPT ![a] = v]

\* OnAlertTriggered or OnAlertResolved handles the event.  The publication may fail.
Handle(k, a, v) ==
  /\ Offers(k, a, v)
  /\ IsNext(a, v)
  /\ Remember(a, v)
  /\ \/ /\ updates' = [updates EXCEPT ![a] =
                        Append(@, [version |-> v, triggered |-> k = "triggered"])]
        /\ Ack(k)
     \/ Fault /\ UNCHANGED <<updates, topic>>
  /\ UNCHANGED <<emitted, tooEarly, restarted>>

Restart ==
  /\ Fault
  /\ alerts' = [a \in Alerts |-> 0]
  /\ restarted' = TRUE
  /\ UNCHANGED <<emitted, topic, updates, tooEarly>>

-----------------------------------------------------------------------------
Init ==
  /\ emitted = [a \in Alerts |-> 0]
  /\ topic = [k \in Topics |-> <<>>]
  /\ alerts = [a \in Alerts |-> 0]
  /\ updates = [a \in Alerts |-> <<>>]
  /\ tooEarly = {}
  /\ restarted = FALSE
  /\ alertFaults = 0

Deliver(k) == \E a \in Alerts, v \in 1..MaxVersion : Ignore(k, a, v) \/ Handle(k, a, v)

Next ==
  \/ \E a \in Alerts : Emit(a)
  \/ \E k \in Topics : Deliver(k)
  \/ Restart

Spec == Init /\ [][Next]_vars

\* As long as there are events, some handler goes on with its topic.
Fairness == WF_vars(\E k \in Topics : Deliver(k))

-----------------------------------------------------------------------------
(* Properties *)

Versions(a) == [i \in 1..Len(updates[a]) |-> updates[a][i].version]

\* As long as the map is not lost, the updates of an alert come in the order of its
\* versions and none twice, however the two topics overtake one another and whatever is
\* delivered again; and each says what its event said.
UpdatesAreInOrder ==
  /\ ~restarted => \A a \in Alerts : \A i, j \in 1..Len(updates[a]) :
                     i < j => Versions(a)[i] < Versions(a)[j]
  /\ \A a \in Alerts : \A update \in ToSet(updates[a]) :
       update.triggered <=> TopicOf(update.version) = "triggered"

\* An event leads to its update, unless it or one before it came too early, or there was a
\* failure: without one, nothing else loses an update.
UpdatesArrive ==
  []<>(\A a \in Alerts : \A v \in 1..emitted[a] :
         \/ v \in ToSet(Versions(a))
         \/ \E w \in 1..v : <<a, w>> \in tooEarly
         \/ alertFaults > 0)

=============================================================================
