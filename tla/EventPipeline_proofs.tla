------------------------ MODULE EventPipeline_proofs ------------------------
(***************************************************************************)
(* Proofs about EventPipeline, for all events, handlers, topics and        *)
(* bounds.                                                                 *)
(***************************************************************************)
EXTENDS EventPipeline, TLAPS

-----------------------------------------------------------------------------
(* Sequences *)

\* Appending a sequence adds its elements.
LEMMA ElementsOfConcat ==
  ASSUME NEW S, NEW s \in Seq(S), NEW t \in Seq(S)
  PROVE  /\ s \o t \in Seq(S)
         /\ ElementsOf(s \o t) = ElementsOf(s) \cup ElementsOf(t)
<1>1. s \o t \in Seq(S) /\ Len(s \o t) = Len(s) + Len(t)
  OBVIOUS
<1>2. \A i \in 1..Len(s) : (s \o t)[i] = s[i] /\ i \in 1..Len(s \o t)
  BY <1>1
<1>3. \A i \in 1..Len(t) : (s \o t)[Len(s) + i] = t[i] /\ Len(s) + i \in 1..Len(s \o t)
  BY <1>1
<1>4. \A i \in 1..Len(s \o t) : i \in 1..Len(s) \/ i - Len(s) \in 1..Len(t)
  BY <1>1
<1>5. \A i \in 1..Len(s \o t) : i - Len(s) \in 1..Len(t) => (s \o t)[i] = t[i - Len(s)]
  BY <1>1
<1>6. ElementsOf(s \o t) \subseteq ElementsOf(s) \cup ElementsOf(t)
  BY <1>2, <1>4, <1>5 DEF ElementsOf
<1>7. ElementsOf(s) \cup ElementsOf(t) \subseteq ElementsOf(s \o t)
  BY <1>2, <1>3 DEF ElementsOf
<1> QED
  BY <1>1, <1>6, <1>7

\* What is not the head of a sequence stays in its tail.
LEMMA ElementsOfTail ==
  ASSUME NEW S, NEW s \in Seq(S), s # <<>>
  PROVE  /\ Tail(s) \in Seq(S)
         /\ Head(s) \in S
         /\ Head(s) \in ElementsOf(s)
         /\ ElementsOf(s) = {Head(s)} \cup ElementsOf(Tail(s))
<1>1. Tail(s) \in Seq(S) /\ Len(Tail(s)) = Len(s) - 1 /\ Len(s) \in Nat \ {0}
  OBVIOUS
<1>2. Head(s) = s[1] /\ 1 \in 1..Len(s) /\ s[1] \in S
  BY <1>1
<1>3. \A i \in 1..Len(Tail(s)) : Tail(s)[i] = s[i + 1] /\ i + 1 \in 1..Len(s)
  BY <1>1
<1>4. \A i \in 1..Len(s) : i = 1 \/ (i - 1 \in 1..Len(Tail(s)) /\ Tail(s)[i - 1] = s[i])
  BY <1>1
<1>5. ElementsOf(s) \subseteq {Head(s)} \cup ElementsOf(Tail(s))
  BY <1>2, <1>4 DEF ElementsOf
<1>6. {Head(s)} \cup ElementsOf(Tail(s)) \subseteq ElementsOf(s)
  BY <1>2, <1>3 DEF ElementsOf
<1> QED
  BY <1>1, <1>2, <1>5, <1>6

\* A sequence of one event.
LEMMA ElementsOfOne ==
  ASSUME NEW S, NEW e \in S
  PROVE  <<e>> \in Seq(S) /\ ElementsOf(<<e>>) = {e}
BY DEF ElementsOf

-----------------------------------------------------------------------------
(* Types *)

\* A publication keeps the types of the stream.
LEMMA PublishTypes ==
  ASSUME TypeOK, NEW es \in Seq(Events), Publish(es)
  PROVE  /\ published' \subseteq Events
         /\ unread' \in [Fanout -> Seq(Events)]
         /\ published' = published \cup ElementsOf(es)
         /\ \A s \in Fanout : Queued(s)' =
              IF s \in subscribed THEN Queued(s) \cup ElementsOf(es) ELSE Queued(s)
<1>1. \A s \in Fanout : unread[s] \in Seq(Events)
  BY DEF TypeOK
<1>2. ASSUME NEW s \in Fanout
      PROVE  /\ unread[s] \o es \in Seq(Events)
             /\ ElementsOf(unread[s] \o es) = ElementsOf(unread[s]) \cup ElementsOf(es)
  BY <1>1, ElementsOfConcat
<1>3. ElementsOf(es) \subseteq Events
  BY DEF ElementsOf
<1>4. \A s \in Fanout : unread'[s] =
         IF s \in subscribed THEN unread[s] \o es ELSE unread[s]
  BY DEF Publish
<1>5. unread' \in [Fanout -> Seq(Events)]
  BY <1>1, <1>2 DEF Publish
<1> QED
  BY <1>1, <1>2, <1>3, <1>4, <1>5 DEF Publish, TypeOK, Queued

\* The acknowledgement of a fan-out subscription keeps its type, and loses at most
\* the head.
LEMMA DoneTypes ==
  ASSUME TypeOK, NEW s \in Fanout, unread[s] # <<>>, Done(s)
  PROVE  /\ unread' \in [Fanout -> Seq(Events)]
         /\ faults' \in 0..MaxFaults
         /\ Head(unread[s]) \in Events
         /\ Head(unread[s]) \in Queued(s)
         /\ Queued(s) \subseteq {Head(unread[s])} \cup Queued(s)'
         /\ Queued(s)' \subseteq Queued(s)
         /\ \A other \in Fanout \ {s} : Queued(other)' = Queued(other)
<1>1. /\ unread[s] \in Seq(Events)
      /\ Tail(unread[s]) \in Seq(Events)
      /\ Head(unread[s]) \in Events
      /\ Head(unread[s]) \in ElementsOf(unread[s])
      /\ ElementsOf(unread[s]) = {Head(unread[s])} \cup ElementsOf(Tail(unread[s]))
  BY ElementsOfTail DEF TypeOK
<1>2. CASE unread' = [unread EXCEPT ![s] = Tail(@)] /\ UNCHANGED faults
  BY <1>1, <1>2 DEF TypeOK, Queued
<1>3. CASE Fault /\ UNCHANGED unread
  BY <1>1, <1>3, PipelineAssumption DEF TypeOK, Queued, Fault
<1> QED
  BY <1>2, <1>3 DEF Done

\* A fault is counted within its bound.
LEMMA FaultTypes == ASSUME TypeOK, Fault PROVE faults' \in 0..MaxFaults
BY PipelineAssumption DEF TypeOK, Fault

LEMMA TypeInit == Init => TypeOK
<1> SUFFICES ASSUME Init PROVE TypeOK
  OBVIOUS
<1>1. outbox \in Seq(OutboxEvents) /\ offset \in 0..Len(outbox)
  BY DEF Init
<1>2. unread \in [Fanout -> Seq(Events)]
  BY DEF Init
<1>3. faults \in 0..MaxFaults
  BY PipelineAssumption DEF Init
<1> QED
  BY <1>1, <1>2, <1>3 DEF Init, TypeOK

LEMMA TypeStep == TypeOK /\ [Next]_vars => TypeOK'
<1> SUFFICES ASSUME TypeOK, [Next]_vars PROVE TypeOK'
  OBVIOUS
<1> USE PipelineAssumption
<1>1. ASSUME NEW s \in Subscribers, Subscribe(s) PROVE TypeOK'
  BY <1>1 DEF TypeOK, Subscribe, relay, stream, groups
<1>2. ASSUME Start PROVE TypeOK'
  BY <1>2 DEF TypeOK, Start, relay, stream, groups
<1>3. ASSUME Crash PROVE TypeOK'
  <2>1. unread' \in [Fanout -> Seq(Events)]
    BY <1>3 DEF Crash
  <2>2. faults' \in 0..MaxFaults
    BY <1>3, FaultTypes DEF Crash
  <2> QED
    BY <1>3, <2>1, <2>2 DEF TypeOK, Crash
<1>4. ASSUME NEW e \in Events, CommitTransaction(e) PROVE TypeOK'
  <2>1. outbox' = Append(outbox, e) /\ e \in OutboxEvents /\ outbox \in Seq(OutboxEvents)
    BY <1>4 DEF CommitTransaction, TypeOK
  <2>2. outbox' \in Seq(OutboxEvents) /\ Len(outbox') = Len(outbox) + 1
    BY <2>1
  <2>3. offset \in 0..Len(outbox') /\ (forwarded => offset < Len(outbox'))
    BY <2>1, <2>2 DEF TypeOK
  <2> QED
    BY <1>4, <2>2, <2>3 DEF TypeOK, CommitTransaction, service, stream, groups
<1>5. ASSUME NEW e \in Events, PublishDirectly(e) PROVE TypeOK'
  <2>1. Publish(<<e>>) /\ <<e>> \in Seq(Events)
    BY <1>5 DEF PublishDirectly
  <2>2. published' \subseteq Events /\ unread' \in [Fanout -> Seq(Events)]
    BY <2>1, PublishTypes
  <2> QED
    BY <1>5, <2>2 DEF TypeOK, PublishDirectly, service, relay, groups
<1>6. ASSUME Forward PROVE TypeOK'
  <2>1. offset + 1 \in 1..Len(outbox) /\ outbox[offset + 1] \in Events
    BY <1>6 DEF Forward, TypeOK, Events
  <2>2. Publish(<<outbox[offset + 1]>>) /\ <<outbox[offset + 1]>> \in Seq(Events)
    BY <1>6, <2>1 DEF Forward
  <2>3. published' \subseteq Events /\ unread' \in [Fanout -> Seq(Events)]
    BY <2>2, PublishTypes
  <2> QED
    <3>1. CASE forwarded' = TRUE /\ UNCHANGED faults
      BY <1>6, <2>3, <3>1 DEF TypeOK, Forward, service, groups
    <3>2. CASE Fault /\ UNCHANGED forwarded
      BY <1>6, <2>3, <3>2, FaultTypes DEF TypeOK, Forward, service, groups
    <3> QED
      BY <1>6, <3>1, <3>2 DEF Forward
<1>7. ASSUME MoveOffset PROVE TypeOK'
  <2>1. offset' \in 0..Len(outbox)
    BY <1>7 DEF MoveOffset, TypeOK
  <2> QED
    BY <1>7, <2>1 DEF TypeOK, MoveOffset, service, stream, groups
<1>8. ASSUME Splitter PROVE TypeOK'
  <2>1. unread' \in [Fanout -> Seq(Events)] /\ faults' \in 0..MaxFaults
        /\ Head(unread["splitter"]) \in Events
    BY <1>8, DoneTypes DEF Splitter, Fanout
  <2>2. inbox' \in [Handlers -> SUBSET Events]
    BY <1>8, <2>1 DEF Splitter, TypeOK
  <2> QED
    BY <1>8, <2>1, <2>2 DEF TypeOK, Splitter, service, relay
<1>9. ASSUME DataLake PROVE TypeOK'
  <2>1. unread' \in [Fanout -> Seq(Events)] /\ faults' \in 0..MaxFaults
        /\ Head(unread["data lake"]) \in Events
    BY <1>9, DoneTypes DEF DataLake, Fanout
  <2> QED
    BY <1>9, <2>1 DEF TypeOK, DataLake, Create, service, relay, groups
<1>10. ASSUME NEW h \in Handlers, NEW e \in Events, Take(h, e) PROVE TypeOK'
  BY <1>10 DEF TypeOK, Take, service, relay, stream
<1>11. ASSUME NEW h \in Handlers, Handle(h) PROVE TypeOK'
  <2>1. taken[h] \in Events /\ Emits[h][taken[h]] \in Seq(FollowUps)
    BY <1>11 DEF Handle, TypeOK
  <2>2. Emits[h][taken[h]] \in Seq(Events)
    <3>1. FollowUps \subseteq Events
      BY DEF Events
    <3> QED
      BY <2>1, <3>1
  <2>3. published' \subseteq Events /\ unread' \in [Fanout -> Seq(Events)]
    BY <1>11, <2>2, PublishTypes DEF Handle
  <2>4. handled' \in [Handlers -> SUBSET Events]
    BY <1>11, <2>1 DEF Handle, TypeOK
  <2>5. inbox' \in [Handlers -> SUBSET Events] /\ taken' \in [Handlers -> Events \cup {None}]
        /\ faults' \in 0..MaxFaults
    <3>1. CASE Fault /\ UNCHANGED <<taken, inbox>>
      BY <3>1, FaultTypes DEF TypeOK
    <3>2. CASE ~(Fault /\ UNCHANGED <<taken, inbox>>)
      <4>1. faults' = faults
        BY <1>11, <3>2 DEF Handle
      <4>2. inbox' = [inbox EXCEPT ![h] = @ \ {taken[h]}]
        BY <1>11, <3>2 DEF Handle
      <4>3. taken' = [taken EXCEPT ![h] = None]
        BY <1>11, <3>2 DEF Handle
      <4> QED
        BY <4>1, <4>2, <4>3 DEF TypeOK
    <3> QED
      BY <3>1, <3>2
  <2> QED
    BY <1>11, <2>3, <2>4, <2>5 DEF TypeOK, Handle, service, relay
<1>12. CASE UNCHANGED vars
  BY <1>12 DEF TypeOK, vars, service, relay, stream, groups
<1> QED
  BY <1>1, <1>2, <1>3, <1>4, <1>5, <1>6, <1>7, <1>8, <1>9, <1>10, <1>11, <1>12
     DEF Next, StartService, Work

\* Every reachable state of the pipeline is well typed: among others, the offset of
\* the forwarder never runs ahead of the outbox.
THEOREM TypeCorrect == Spec => []TypeOK
BY TypeInit, TypeStep, PTL DEF Spec

-----------------------------------------------------------------------------
(* Nothing is lost, skipped or invented *)

\* Before the first crash nobody can publish until everybody is subscribed.
LEMMA Quiet ==
  ASSUME TypeOK, PipelineInv, ~crashed, subscribed # Subscribers
  PROVE  /\ ~running
         /\ outbox = <<>>
         /\ published = {}
         /\ \A h \in Handlers : inbox[h] = {} /\ taken[h] = None
BY DEF PipelineInv, QuietStart, OnlyCausedEvents

\* Causes do not go away.
LEMMA CausedStays ==
  ASSUME Written \subseteq Written',
         \A h \in Handlers : handled[h] \subseteq handled'[h],
         NEW e, Caused(e)
  PROVE  Caused(e)'
BY DEF Caused

\* What is published before the first crash reaches all subscriptions, and what was
\* on its way stays so.
LEMMA PublishReaches ==
  ASSUME TypeOK, PipelineInv, NEW es \in Seq(Events), Publish(es),
         ~crashed => subscribed = Subscribers,
         UNCHANGED <<lake, crashed>>,
         \A h \in Handlers : inbox[h] \cup handled[h] \subseteq inbox'[h] \cup handled'[h]
  PROVE  NothingLostBeforeCrash'
<1> SUFFICES ASSUME ~crashed, NEW e \in published'
             PROVE  (ReachesGroups(e) /\ ReachesLake(e))'
  BY DEF NothingLostBeforeCrash
<1>1. /\ published' = published \cup ElementsOf(es)
      /\ \A s \in Fanout : Queued(s)' = Queued(s) \cup ElementsOf(es)
  BY PublishTypes DEF Subscribers
<1>2. CASE e \in ElementsOf(es)
  BY <1>1, <1>2 DEF ReachesGroups, ReachesLake, Fanout
<1>3. CASE e \in published
  <2>1. ReachesGroups(e) /\ ReachesLake(e)
    BY <1>3 DEF PipelineInv, NothingLostBeforeCrash
  <2> QED
    BY <1>1, <2>1 DEF ReachesGroups, ReachesLake, Fanout
<1> QED
  BY <1>1, <1>2, <1>3

\* A step that leaves the queues and their consumers alone loses nothing.
LEMMA NothingLostUnchanged ==
  ASSUME PipelineInv, UNCHANGED <<stream, inbox, handled, lake, crashed>>
  PROVE  NothingLostBeforeCrash'
BY DEF PipelineInv, NothingLostBeforeCrash, ReachesGroups, ReachesLake, Queued, stream

\* The rows that are forwarded, and the one that is published but not acked.
Forwarded ==
  /\ NothingSkipped
  /\ forwarded => outbox[offset + 1] \in published

LEMMA ForwardedUnchanged ==
  ASSUME Forwarded, UNCHANGED relay, published \subseteq published'
  PROVE  Forwarded'
BY DEF Forwarded, NothingSkipped, relay

LEMMA InvInit == Init => PipelineInv
<1> SUFFICES ASSUME Init PROVE PipelineInv
  OBVIOUS
<1>1. \A s \in Fanout : Queued(s) = {}
  BY DEF Init, Queued, ElementsOf
<1> QED
  BY <1>1 DEF Init, PipelineInv, NothingLostBeforeCrash, NothingSkipped, OnlyCausedEvents,
     QuietStart

\* The rest of the invariant.
Rest ==
  /\ \A s \in Fanout : Queued(s) \subseteq published
  /\ \A h \in Handlers : taken[h] # None => taken[h] \in inbox[h]
  /\ running => subscribed = Subscribers
  /\ QuietStart

LEMMA InvParts ==
  PipelineInv <=> NothingLostBeforeCrash /\ Forwarded /\ OnlyCausedEvents /\ Rest
BY DEF PipelineInv, Forwarded, Rest

LEMMA InvPartsNext ==
  ASSUME NothingLostBeforeCrash', Forwarded', OnlyCausedEvents', Rest'
  PROVE  PipelineInv'
BY DEF PipelineInv, Forwarded, Rest

\* What a publication of caused events keeps.
LEMMA PublishKeeps ==
  ASSUME TypeOK, PipelineInv, NEW es \in Seq(Events), Publish(es),
         Written \subseteq Written',
         \A h \in Handlers : handled[h] \subseteq handled'[h],
         \A e \in ElementsOf(es) : Caused(e)'
  PROVE  /\ \A e \in published' : Caused(e)'
         /\ \A s \in Fanout : Queued(s)' \subseteq published'
         /\ published \subseteq published'
<1>1. /\ published' = published \cup ElementsOf(es)
      /\ \A s \in Fanout : Queued(s)' \subseteq Queued(s) \cup ElementsOf(es)
  BY PublishTypes
<1>2. \A e \in published : Caused(e)'
  BY CausedStays DEF PipelineInv, OnlyCausedEvents
<1> QED
  BY <1>1, <1>2 DEF PipelineInv

LEMMA InvStep == TypeOK /\ PipelineInv /\ [Next]_vars => PipelineInv'
<1> SUFFICES ASSUME TypeOK, PipelineInv, [Next]_vars PROVE PipelineInv'
  OBVIOUS
<1>a. NothingLostBeforeCrash /\ Forwarded /\ OnlyCausedEvents /\ Rest
  BY InvParts
<1>1. ASSUME NEW s \in Subscribers, Subscribe(s) PROVE PipelineInv'
  <2>1. UNCHANGED <<running, relay, stream, inbox, taken, handled, lake, crashed>>
        /\ subscribed # Subscribers
    BY <1>1 DEF Subscribe, groups
  <2>2. ~running
    BY <2>1, <1>a DEF Rest
  <2>3. Rest'
    BY <2>1, <2>2, <1>a DEF Rest, QuietStart, Queued, stream, relay
  <2>4. OnlyCausedEvents'
    BY <2>1, <1>a DEF OnlyCausedEvents, Caused, Written, stream, relay
  <2> QED
    BY <2>1, <2>3, <2>4, <1>a, InvPartsNext, NothingLostUnchanged, ForwardedUnchanged
       DEF stream
<1>2. ASSUME Start PROVE PipelineInv'
  <2>1. UNCHANGED <<subscribed, relay, stream, inbox, taken, handled, lake, crashed>>
        /\ subscribed = Subscribers
    BY <1>2 DEF Start, groups
  <2>2. Rest'
    BY <2>1, <1>a DEF Rest, QuietStart, Queued, stream, relay
  <2>3. OnlyCausedEvents'
    BY <2>1, <1>a DEF OnlyCausedEvents, Caused, Written, stream, relay
  <2> QED
    BY <2>1, <2>2, <2>3, <1>a, InvPartsNext, NothingLostUnchanged, ForwardedUnchanged
       DEF stream
<1>3. ASSUME Crash PROVE PipelineInv'
  <2>1. /\ crashed' /\ ~running' /\ ~forwarded'
        /\ unread' = [s \in Fanout |-> <<>>]
        /\ taken' = [h \in Handlers |-> None]
        /\ UNCHANGED <<outbox, offset, published, inbox, handled, lake>>
    BY <1>3 DEF Crash
  <2>2. \A s \in Fanout : Queued(s)' = {}
    BY <2>1 DEF Queued, ElementsOf
  <2>3. Rest'
    BY <2>1, <2>2 DEF Rest, QuietStart
  <2>4. OnlyCausedEvents'
    BY <2>1, <1>a DEF OnlyCausedEvents, Caused, Written
  <2>5. Forwarded'
    BY <2>1, <1>a DEF Forwarded, NothingSkipped
  <2> QED
    BY <2>1, <2>3, <2>4, <2>5, InvPartsNext DEF NothingLostBeforeCrash
<1>4. ASSUME NEW e \in Events, CommitTransaction(e) PROVE PipelineInv'
  <2>1. /\ running
        /\ outbox' = Append(outbox, e) /\ outbox \in Seq(OutboxEvents) /\ e \in OutboxEvents
        /\ UNCHANGED <<running, subscribed, offset, forwarded, stream, inbox, taken, handled,
                       lake, crashed>>
    BY <1>4 DEF CommitTransaction, TypeOK, service, groups
  <2>2. Len(outbox') = Len(outbox) + 1 /\ \A i \in 1..Len(outbox) : outbox'[i] = outbox[i]
    BY <2>1
  <2>3. Written \subseteq Written'
    BY <2>1, <2>2 DEF Written, ElementsOf
  <2>4. OnlyCausedEvents'
    BY <2>1, <2>3, <1>a, CausedStays DEF OnlyCausedEvents, stream
  <2>5. Forwarded'
    BY <2>1, <2>2, <1>a DEF Forwarded, NothingSkipped, TypeOK, stream
  <2>6. Rest'
    BY <2>1, <1>a DEF Rest, QuietStart, Queued, stream
  <2> QED
    BY <2>1, <2>4, <2>5, <2>6, InvPartsNext, NothingLostUnchanged
<1>5. ASSUME NEW e \in Events, PublishDirectly(e) PROVE PipelineInv'
  <2>1. /\ running /\ e \in DirectEvents
        /\ Publish(<<e>>) /\ <<e>> \in Seq(Events) /\ ElementsOf(<<e>>) = {e}
        /\ UNCHANGED <<running, subscribed, relay, inbox, taken, handled, lake, crashed>>
    BY <1>5, ElementsOfOne DEF PublishDirectly, service, groups
  <2>2. subscribed = Subscribers
    BY <2>1, <1>a DEF Rest
  <2>3. NothingLostBeforeCrash'
    BY <2>1, <2>2, PublishReaches
  <2>4. Written' = Written /\ Caused(e)'
    BY <2>1 DEF Written, Caused, relay
  <2>5. /\ \A f \in published' : Caused(f)'
        /\ \A s \in Fanout : Queued(s)' \subseteq published'
        /\ published \subseteq published'
    BY <2>1, <2>4, PublishKeeps
  <2>6. OnlyCausedEvents'
    BY <2>1, <2>5, <1>a DEF OnlyCausedEvents
  <2>7. Rest'
    BY <2>1, <2>2, <2>5, <1>a DEF Rest, QuietStart
  <2> QED
    BY <2>1, <2>3, <2>5, <2>6, <2>7, <1>a, InvPartsNext, ForwardedUnchanged
<1>6. ASSUME Forward PROVE PipelineInv'
  <2> DEFINE e == outbox[offset + 1]
  <2>1. /\ offset + 1 \in 1..Len(outbox) /\ e \in Events
        /\ Publish(<<e>>) /\ <<e>> \in Seq(Events) /\ ElementsOf(<<e>>) = {e}
        /\ UNCHANGED <<running, subscribed, outbox, offset, inbox, taken, handled, lake, crashed>>
    <3>1. offset + 1 \in 1..Len(outbox) /\ e \in Events
      BY <1>6 DEF Forward, TypeOK, Events
    <3> QED
      BY <1>6, <3>1, ElementsOfOne DEF Forward, service, groups
  <2>2. ~crashed => subscribed = Subscribers
    BY <2>1, Quiet
  <2>3. NothingLostBeforeCrash'
    BY <2>1, <2>2, PublishReaches
  <2>4. Written' = Written /\ e \in Written'
    BY <2>1 DEF Written, ElementsOf
  <2>5. /\ \A f \in published' : Caused(f)'
        /\ \A s \in Fanout : Queued(s)' \subseteq published'
        /\ published \subseteq published'
    <3>1. Caused(e)'
      BY <2>1, <2>4 DEF Caused
    <3> QED
      BY <2>1, <2>4, <3>1, PublishKeeps
  <2>6. OnlyCausedEvents'
    BY <2>1, <2>5, <1>a DEF OnlyCausedEvents
  <2>7. Rest'
    BY <2>1, <2>2, <2>5, <1>a DEF Rest, QuietStart
  <2>8. e \in published'
    BY <2>1 DEF Publish
  <2>9. Forwarded'
    BY <2>1, <2>5, <2>8, <1>a DEF Forwarded, NothingSkipped
  <2> QED
    BY <2>3, <2>6, <2>7, <2>9, InvPartsNext
<1>7. ASSUME MoveOffset PROVE PipelineInv'
  <2>1. /\ forwarded /\ ~forwarded' /\ offset' = offset + 1 /\ offset \in Nat
        /\ UNCHANGED <<running, subscribed, outbox, stream, inbox, taken, handled, lake, crashed>>
    BY <1>7 DEF MoveOffset, TypeOK, service, groups
  <2>2. Forwarded'
    BY <2>1, <1>a DEF Forwarded, NothingSkipped, stream
  <2>3. OnlyCausedEvents' /\ Rest'
    BY <2>1, <1>a DEF OnlyCausedEvents, Caused, Written, Rest, QuietStart, Queued, stream
  <2> QED
    BY <2>1, <2>2, <2>3, InvPartsNext, NothingLostUnchanged
<1>8. ASSUME Splitter PROVE PipelineInv'
  <2> DEFINE e == Head(unread["splitter"])
  <2>1. /\ Queued("splitter") \subseteq {e} \cup Queued("splitter")'
        /\ \A s \in Fanout : Queued(s)' \subseteq Queued(s)
        /\ Queued("data lake")' = Queued("data lake")
        /\ e \in Queued("splitter")
    BY <1>8, DoneTypes DEF Splitter, Fanout
  <2>2. /\ inbox' = [h \in Handlers |->
                      IF e \in Subscribes[h] THEN inbox[h] \cup {e} ELSE inbox[h]]
        /\ UNCHANGED <<running, subscribed, relay, published, taken, handled, lake, crashed>>
    BY <1>8 DEF Splitter, service
  <2>3. e \in published
    BY <2>1, <1>a DEF Rest, Fanout
  <2>4. NothingLostBeforeCrash'
    <3> SUFFICES ASSUME ~crashed, NEW f \in published
                 PROVE  (ReachesGroups(f) /\ ReachesLake(f))'
      BY <2>2 DEF NothingLostBeforeCrash
    <3>1. ReachesGroups(f) /\ ReachesLake(f)
      BY <1>a DEF NothingLostBeforeCrash
    <3>2. ReachesLake(f)'
      BY <3>1, <2>1, <2>2 DEF ReachesLake
    <3>3. ReachesGroups(f)'
      BY <3>1, <2>1, <2>2 DEF ReachesGroups
    <3> QED
      BY <3>2, <3>3
  <2>5. OnlyCausedEvents'
    BY <2>2, <2>3, <1>a DEF OnlyCausedEvents, Caused, Written, relay
  <2>6. Rest'
    BY <2>1, <2>2, <1>a DEF Rest, QuietStart, relay, TypeOK
  <2> QED
    BY <2>2, <2>4, <2>5, <2>6, <1>a, InvPartsNext, ForwardedUnchanged
<1>9. ASSUME DataLake PROVE PipelineInv'
  <2> DEFINE e == Head(unread["data lake"])
  <2>1. /\ Queued("data lake") \subseteq {e} \cup Queued("data lake")'
        /\ \A s \in Fanout : Queued(s)' \subseteq Queued(s)
        /\ Queued("splitter")' = Queued("splitter")
        /\ e \in Queued("data lake")
    BY <1>9, DoneTypes DEF DataLake, Fanout
  <2>2. /\ lake' = lake \cup {e}
        /\ UNCHANGED <<running, subscribed, relay, published, inbox, taken, handled, crashed>>
    BY <1>9 DEF DataLake, Create, service, groups
  <2>3. e \in published
    BY <2>1, <1>a DEF Rest, Fanout
  <2>4. NothingLostBeforeCrash'
    BY <2>1, <2>2, <1>a DEF NothingLostBeforeCrash, ReachesLake, ReachesGroups
  <2>5. OnlyCausedEvents'
    BY <2>2, <2>3, <1>a DEF OnlyCausedEvents, Caused, Written, relay
  <2>6. Rest'
    BY <2>1, <2>2, <1>a DEF Rest, QuietStart, relay
  <2> QED
    BY <2>2, <2>4, <2>5, <2>6, <1>a, InvPartsNext, ForwardedUnchanged
<1>10. ASSUME NEW h \in Handlers, NEW e \in Events, Take(h, e) PROVE PipelineInv'
  <2>1. /\ e \in inbox[h] /\ taken' = [taken EXCEPT ![h] = e]
        /\ UNCHANGED <<running, subscribed, relay, stream, inbox, handled, lake, crashed>>
    BY <1>10 DEF Take, service
  <2>2. OnlyCausedEvents'
    BY <2>1, <1>a DEF OnlyCausedEvents, Caused, Written, stream, relay
  <2>3. Rest'
    BY <2>1, <1>a DEF Rest, QuietStart, Queued, stream, relay, TypeOK
  <2> QED
    BY <2>1, <2>2, <2>3, <1>a, InvPartsNext, NothingLostUnchanged, ForwardedUnchanged
       DEF stream
<1>11. ASSUME NEW h \in Handlers, Handle(h) PROVE PipelineInv'
  <2> DEFINE e == taken[h]
             es == Emits[h][e]
  <2>1. /\ e \in Events /\ e # None /\ e \in inbox[h]
        /\ handled' = [handled EXCEPT ![h] = @ \cup {e}]
        /\ Publish(es)
        /\ UNCHANGED <<running, subscribed, relay, lake, crashed>>
    BY <1>11, <1>a DEF Handle, TypeOK, service, Rest
  <2>2. es \in Seq(Events)
    <3>1. FollowUps \subseteq Events /\ es \in Seq(FollowUps)
      BY <2>1, PipelineAssumption DEF Events
    <3> QED
      BY <3>1
  <2>3. \/ taken' = [taken EXCEPT ![h] = None] /\ inbox' = [inbox EXCEPT ![h] = @ \ {e}]
        \/ UNCHANGED <<taken, inbox>>
    BY <1>11 DEF Handle
  <2>4. /\ \A g \in Handlers : handled[g] \subseteq handled'[g]
        /\ \A g \in Handlers : inbox[g] \cup handled[g] \subseteq inbox'[g] \cup handled'[g]
        /\ \A g \in Handlers : inbox'[g] \subseteq inbox[g]
        /\ \A g \in Handlers : handled'[g] \subseteq handled[g] \cup inbox[g]
        /\ e \in handled'[h]
    BY <2>1, <2>3 DEF TypeOK
  <2>5. ~crashed => subscribed = Subscribers
    BY <2>1, Quiet
  <2>6. NothingLostBeforeCrash'
    BY <2>1, <2>2, <2>4, <2>5, PublishReaches
  <2>7. Written' = Written /\ \A f \in ElementsOf(es) : Caused(f)'
    BY <2>1, <2>4 DEF Written, Caused, relay
  <2>8. /\ \A f \in published' : Caused(f)'
        /\ \A s \in Fanout : Queued(s)' \subseteq published'
        /\ published \subseteq published'
    BY <2>1, <2>2, <2>4, <2>7, PublishKeeps
  <2>9. OnlyCausedEvents'
    BY <2>1, <2>4, <2>8, <1>a DEF OnlyCausedEvents
  <2>10. \A g \in Handlers : taken'[g] # None => taken'[g] \in inbox'[g]
    BY <2>3, <1>a DEF Rest, TypeOK
  <2>11. Rest'
    BY <2>1, <2>5, <2>8, <2>10, <1>a DEF Rest, QuietStart
  <2> QED
    BY <2>1, <2>6, <2>8, <2>9, <2>11, <1>a, InvPartsNext, ForwardedUnchanged
<1>12. CASE UNCHANGED vars
  <2>1. UNCHANGED <<running, subscribed, relay, stream, inbox, taken, handled, lake, crashed>>
    BY <1>12 DEF vars, service, groups
  <2>2. OnlyCausedEvents' /\ Rest'
    BY <2>1, <1>a DEF OnlyCausedEvents, Caused, Written, Rest, QuietStart, Queued, stream, relay
  <2> QED
    BY <2>1, <2>2, <1>a, InvPartsNext, NothingLostUnchanged, ForwardedUnchanged
       DEF stream
<1> QED
  BY <1>1, <1>2, <1>3, <1>4, <1>5, <1>6, <1>7, <1>8, <1>9, <1>10, <1>11, <1>12
     DEF Next, StartService, Work

\* However the router starts its handlers and whatever is repeated or crashes, the
\* pipeline keeps PipelineInv: every event was caused, and the offset of the outbox
\* skips nothing.
THEOREM PipelineInvariant == Spec => []PipelineInv
BY InvInit, InvStep, TypeCorrect, PTL DEF Spec

\* Until the first crash no published event is lost on its way.
THEOREM NothingLostBeforeCrashHolds == Spec => []NothingLostBeforeCrash
<1>1. PipelineInv => NothingLostBeforeCrash
  BY DEF PipelineInv
<1> QED
  BY <1>1, PipelineInvariant, PTL

\* The forwarder never skips a row of the outbox, in spite of crashes.
THEOREM NothingSkippedHolds == Spec => []NothingSkipped
<1>1. PipelineInv => NothingSkipped
  BY DEF PipelineInv
<1> QED
  BY <1>1, PipelineInvariant, PTL
=============================================================================
