--------------------------- MODULE EventPipeline ----------------------------
(***************************************************************************)
(* How events get from a transaction or a request of the tickets service   *)
(* (project/) to its event handlers and its data lake:                     *)
(*                                                                         *)
(*   outbox -> forwarder -> stream "events" -> splitter -> one topic per   *)
(*                          event name -> the consumer groups of handlers  *)
(*                                     -> data lake                        *)
(*                                                                         *)
(* The forwarder keeps its offset in PostgreSQL and a consumer group its   *)
(* pending messages in Redis: both survive a crash of the service.  The    *)
(* splitter and the data lake subscribe without a consumer group: Redis    *)
(* (external) shows them what is published while they are subscribed, and  *)
(* what they had not read is gone with the process.                        *)
(*                                                                         *)
(* The router subscribes its handlers one after another, in the order of a *)
(* Go map; only when all of them are subscribed does the HTTP server start.*)
(***************************************************************************)
EXTENDS Integers, Sequences

CONSTANTS
  OutboxEvents, \* events written to the outbox by the transaction of a request
  DirectEvents, \* events that a request publishes on the event bus
  FollowUps,    \* events that an event handler publishes
  Handlers,     \* the event handlers
  Subscribes,   \* the events of the topic of a handler
  Emits,        \* what a handler publishes for an event
  Fails,        \* the events a handler can never handle: <<handler, event>>
  MaxFaults     \* bound: crashes, and calls whose answer or ack is lost

Events == OutboxEvents \cup DirectEvents \cup FollowUps
None   == [none |-> "no event"]
Fanout == {"splitter", "data lake"}
Subscribers == {"forwarder"} \cup Fanout \cup Handlers

ASSUME PipelineAssumption ==
  /\ Subscribes \in [Handlers -> SUBSET Events]
  /\ Emits \in [Handlers -> [Events -> Seq(FollowUps)]]
  /\ None \notin Events
  /\ MaxFaults \in Nat

VARIABLES
  running,    \* the router is running: the HTTP server serves requests
  subscribed, \* the handlers of the router that are subscribed
  outbox,     \* the rows of events_to_forward
  offset,     \* the rows that are forwarded
  forwarded,  \* the row after them is published, its offset not moved yet
  published,  \* what was ever published on the stream "events"
  unread,     \* what the subscriptions to the stream have still to handle
  inbox,      \* the pending events of a handler's consumer group
  taken,      \* the event a handler is working on
  handled,    \* the events a handler has handled
  lake,       \* the rows of the table events
  faults,     \* faults so far (bounds the model)
  crashed     \* the service has crashed

service == <<running, subscribed>>
relay   == <<outbox, offset, forwarded>>
stream  == <<published, unread>>
groups  == <<inbox, taken, handled>>
vars    == <<service, relay, stream, groups, lake, faults, crashed>>

TypeOK ==
  /\ running \in BOOLEAN
  /\ subscribed \subseteq Subscribers
  /\ outbox \in Seq(OutboxEvents)
  /\ offset \in 0..Len(outbox)
  /\ forwarded \in BOOLEAN
  /\ forwarded => offset < Len(outbox)
  /\ published \subseteq Events
  /\ unread \in [Fanout -> Seq(Events)]
  /\ inbox \in [Handlers -> SUBSET Events]
  /\ taken \in [Handlers -> Events \cup {None}]
  /\ handled \in [Handlers -> SUBSET Events]
  /\ lake \subseteq Events
  /\ faults \in 0..MaxFaults
  /\ crashed \in BOOLEAN

-----------------------------------------------------------------------------
(* The service *)

\* Router.Run subscribes the next handler and starts it.
Subscribe(s) ==
  /\ s \notin subscribed
  /\ subscribed' = subscribed \cup {s}
  /\ UNCHANGED <<running, relay, stream, groups, lake, faults, crashed>>

\* The router is running: the HTTP server starts.
Start ==
  /\ ~running
  /\ subscribed = Subscribers
  /\ running' = TRUE
  /\ UNCHANGED <<subscribed, relay, stream, groups, lake, faults, crashed>>

\* The service crashes; or a call succeeds but its answer, or the ack after it, is
\* lost.
Fault ==
  /\ faults < MaxFaults
  /\ faults' = faults + 1

\* The service dies and is started again.
Crash ==
  /\ Fault
  /\ crashed' = TRUE
  /\ running' = FALSE
  /\ subscribed' = {}
  /\ forwarded' = FALSE
  /\ unread' = [s \in Fanout |-> <<>>]
  /\ taken' = [h \in Handlers |-> None]
  /\ UNCHANGED <<outbox, offset, published, inbox, handled, lake>>

-----------------------------------------------------------------------------
(* Where events come from *)

ElementsOf(seq) == {seq[i] : i \in 1..Len(seq)}
Written == ElementsOf(outbox)

\* XADD to "events": the subscriptions there are get to read it.
Publish(events) ==
  /\ published' = published \cup ElementsOf(events)
  /\ unread' = [s \in Fanout |->
                 IF s \in subscribed THEN unread[s] \o events ELSE unread[s]]

\* A request commits a transaction that writes to the outbox.
CommitTransaction(e) ==
  /\ running
  /\ e \in OutboxEvents \ Written
  /\ outbox' = Append(outbox, e)
  /\ UNCHANGED <<service, offset, forwarded, stream, groups, lake, faults, crashed>>

\* A request publishes on the event bus, without a transaction.
PublishDirectly(e) ==
  /\ running
  /\ e \in DirectEvents \ published
  /\ Publish(<<e>>)
  /\ UNCHANGED <<service, relay, groups, lake, faults, crashed>>

-----------------------------------------------------------------------------
(* Forwarder, splitter and data lake *)

\* Mutant: the offset is moved first.
Forward_OffsetFirst ==
  /\ "forwarder" \in subscribed
  /\ offset < Len(outbox)
  /\ offset' = offset + 1
  /\ \/ Publish(<<outbox[offset + 1]>>) /\ UNCHANGED faults
     \/ Fault /\ UNCHANGED stream
  /\ UNCHANGED <<service, outbox, forwarded, groups, lake, crashed>>

\* Mutant: the flag of the row before is kept.
MoveOffset_Kept ==
  /\ forwarded
  /\ offset' = offset + 1
  /\ UNCHANGED <<service, outbox, forwarded, stream, groups, lake, faults, crashed>>

\* The forwarder publishes the next row of the outbox.
Forward ==
  /\ "forwarder" \in subscribed
  /\ ~forwarded
  /\ offset < Len(outbox)
  /\ Publish(<<outbox[offset + 1]>>)
  /\ \/ forwarded' = TRUE /\ UNCHANGED faults
     \/ Fault /\ UNCHANGED forwarded
  /\ UNCHANGED <<service, outbox, offset, groups, lake, crashed>>

\* The message is acked: its offset is stored.
MoveOffset ==
  /\ forwarded
  /\ offset' = offset + 1
  /\ forwarded' = FALSE
  /\ UNCHANGED <<service, outbox, stream, groups, lake, faults, crashed>>

\* A fan-out subscription is done with its first event, unless the ack is lost.  It
\* gives out no other event before.
Done(s) ==
  \/ unread' = [unread EXCEPT ![s] = Tail(@)] /\ UNCHANGED faults
  \/ Fault /\ UNCHANGED unread

\* events_splitter publishes the event to "events." and its name: it waits in the
\* consumer group of every handler of that name.
Splitter ==
  /\ unread["splitter"] # <<>>
  /\ LET e == Head(unread["splitter"]) IN
       inbox' = [h \in Handlers |->
                  IF e \in Subscribes[h] THEN inbox[h] \cup {e} ELSE inbox[h]]
  /\ Done("splitter")
  /\ UNCHANGED <<service, relay, published, taken, handled, lake, crashed>>

\* Mutant: a unique_violation is an error like any other.
Create_Violation(e) == e \notin lake /\ lake' = lake \cup {e}

\* EventRepository.Create inserts the event; if it is there already
\* (unique_violation), it returns nil all the same.
Create(e) == lake' = lake \cup {e}

DataLake ==
  /\ unread["data lake"] # <<>>
  /\ Create(Head(unread["data lake"]))
  /\ Done("data lake")
  /\ UNCHANGED <<service, relay, published, groups, crashed>>

-----------------------------------------------------------------------------
(* The handlers *)

\* The subscriber gives the handler one message, and no other before it is acked.
Take(h, e) ==
  /\ h \in subscribed
  /\ taken[h] = None
  /\ e \in inbox[h]
  /\ taken' = [taken EXCEPT ![h] = e]
  /\ UNCHANGED <<service, relay, stream, inbox, handled, lake, faults, crashed>>

\* Mutant: the message is acked before it is handled.
Handle_AckFirst(h) ==
  /\ taken[h] # None
  /\ <<h, taken[h]>> \notin Fails
  /\ \/ /\ handled' = [handled EXCEPT ![h] = @ \cup {taken[h]}]
        /\ Publish(Emits[h][taken[h]])
        /\ UNCHANGED faults
     \/ /\ Fault
        /\ UNCHANGED <<handled, stream>>
  /\ taken' = [taken EXCEPT ![h] = None]
  /\ inbox' = [inbox EXCEPT ![h] = @ \ {taken[h]}]
  /\ UNCHANGED <<service, relay, lake, crashed>>

\* The handler does its work, publishes what follows, and its message is acked.  A
\* handler that fails gets the message again: no step.
Handle(h) ==
  /\ taken[h] # None
  /\ <<h, taken[h]>> \notin Fails
  /\ handled' = [handled EXCEPT ![h] = @ \cup {taken[h]}]
  /\ Publish(Emits[h][taken[h]])
  /\ \/ /\ taken' = [taken EXCEPT ![h] = None]
        /\ inbox' = [inbox EXCEPT ![h] = @ \ {taken[h]}]
        /\ UNCHANGED faults
     \/ /\ Fault
        /\ UNCHANGED <<taken, inbox>>
  /\ UNCHANGED <<service, relay, lake, crashed>>

-----------------------------------------------------------------------------
Init ==
  /\ running = FALSE
  /\ subscribed = {}
  /\ outbox = <<>>
  /\ offset = 0
  /\ forwarded = FALSE
  /\ published = {}
  /\ unread = [s \in Fanout |-> <<>>]
  /\ inbox = [h \in Handlers |-> {}]
  /\ taken = [h \in Handlers |-> None]
  /\ handled = [h \in Handlers |-> {}]
  /\ lake = {}
  /\ faults = 0
  /\ crashed = FALSE

Work(h) == (\E e \in Events : Take(h, e)) \/ Handle(h)

StartService == (\E s \in Subscribers : Subscribe(s)) \/ Start

Next ==
  \/ StartService
  \/ Crash
  \/ \E e \in Events : CommitTransaction(e) \/ PublishDirectly(e)
  \/ Forward
  \/ MoveOffset
  \/ Splitter
  \/ DataLake
  \/ \E h \in Handlers : Work(h)

Spec == Init /\ [][Next]_vars

(* The router starts; every handler of it takes its messages.  Nobody has to send
   a request, and nothing has to fail.                                        *)
Fairness ==
  /\ WF_vars(StartService)
  /\ WF_vars(Forward \/ MoveOffset)
  /\ WF_vars(Splitter)
  /\ WF_vars(DataLake)
  /\ \A h \in Handlers : WF_vars(Work(h))

FairSpec == Spec /\ Fairness

-----------------------------------------------------------------------------
(* Properties *)

\* An event that was published is, or will be read and put, where it belongs.
Queued(s) == ElementsOf(unread[s])
ReachesGroups(e) ==
  e \in Queued("splitter") \/
    \A h \in Handlers : e \in Subscribes[h] => e \in inbox[h] \cup handled[h]
ReachesLake(e) == e \in Queued("data lake") \cup lake

\* The offset of the outbox, the splitter and the data lake lose nothing until the
\* service crashes for the first time, although the router starts them in any
\* order and their calls may be repeated: nothing is published before all of them
\* are subscribed, as the HTTP server waits for the router.
NothingLostBeforeCrash ==
  ~crashed => \A e \in published : ReachesGroups(e) /\ ReachesLake(e)

\* The forwarder skips no row of the outbox, whenever it dies: the offset moves
\* only over what was published.
NothingSkipped == \A i \in 1..offset : outbox[i] \in published

\* Where an event came from: a committed transaction, a request, or a handler.
Caused(e) ==
  \/ e \in Written \cup DirectEvents
  \/ \E h \in Handlers : \E cause \in handled[h] : e \in ElementsOf(Emits[h][cause])

\* No event reaches a handler or the data lake, directly, through the outbox or
\* repeated after a crash, that was not caused: an event of the outbox by its
\* committed transaction, a follow-up by a handled event.
OnlyCausedEvents ==
  /\ \A e \in published : Caused(e)
  /\ lake \subseteq published
  /\ \A h \in Handlers : inbox[h] \cup handled[h] \subseteq published

\* The inductive invariant behind them: before the first crash the service has
\* nothing to publish until everybody is subscribed.
QuietStart ==
  ~crashed /\ subscribed # Subscribers =>
    /\ ~running
    /\ outbox = <<>>
    /\ published = {}
PipelineInv ==
  /\ NothingLostBeforeCrash
  /\ NothingSkipped
  /\ forwarded => outbox[offset + 1] \in published
  /\ OnlyCausedEvents
  /\ \A s \in Fanout : Queued(s) \subseteq published
  /\ \A h \in Handlers : taken[h] # None => taken[h] \in inbox[h]
  /\ running => subscribed = Subscribers
  /\ QuietStart

\* A handler that has taken an event it can never handle, as OnBookingMade of the
\* process manager does with every booking that belongs to no bundle.
Stuck(h) == <<h, taken[h]>> \in Fails

\* An event in the consumer group of a handler is handled in the end, in spite of
\* crashes and lost acks; only an event that the same handler can never handle holds
\* it back.
GroupsAreServed ==
  \A h \in Handlers : \A e \in Subscribes[h] :
    e \in inbox[h] ~> e \in handled[h] \/ Stuck(h)

\* Without a crash, an event that was published or written to the outbox reaches all of
\* its handlers and the data lake, the handlers that fail on another event excepted.
EventsArrive ==
  \A h \in Handlers : \A e \in Subscribes[h] :
    e \in Written \cup published ~> (e \in handled[h] /\ e \in lake) \/ Stuck(h) \/ crashed

=============================================================================
