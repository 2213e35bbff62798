------------------------ MODULE PoisonQueueCLI_proofs ------------------------
(***************************************************************************)
(* Proofs about PoisonQueueCLI, for all messages and bounds.               *)
(***************************************************************************)
EXTENDS PoisonQueueCLI, TLAPS

\* The bounds of the model are natural numbers.
Bounds == MaxCommands \in Nat /\ MaxFaults \in Nat

\* The fields of a command.
CliType ==
  [pc : {"ended", "running", "publish", "ack", "requeue"}, name : CommandNames,
   id : Messages \cup {NoMessage}, first : Messages \cup {NoMessage}, done : BOOLEAN,
   found : BOOLEAN, listed : Seq(Messages), atStart : SUBSET Messages]

\* The invariant: what is in the topic was poisoned; a message is offered while it is
\* published again, has its copy behind it when it is acked, and is a poisoned one when
\* requeue has acked it.
QueueInv ==
  /\ queue \in Seq(Messages) /\ offset \in Nat /\ offset <= Len(queue)
  /\ \A i \in 1..Len(queue) : queue[i] \in poisoned
  /\ poisoned \subseteq Messages
  /\ removed \subseteq poisoned /\ requeued \subseteq poisoned /\ unpublished \subseteq poisoned
  /\ cli \in CliType
  /\ cli.pc = "publish" => offset < Len(queue)
  /\ cli.pc = "ack" =>
       /\ offset < Len(queue)
       /\ \E i \in (offset + 2)..Len(queue) : queue[i] = queue[offset + 1]
  /\ cli.pc = "requeue" => cli.id \in poisoned
  /\ commandsRun \in 0..MaxCommands
  /\ cliFaults \in 0..MaxFaults

-----------------------------------------------------------------------------
(* The topic *)

LEMMA AppendedQueue ==
  ASSUME NEW S, NEW s \in Seq(S), NEW m \in S
  PROVE  /\ Append(s, m) \in Seq(S) /\ Len(Append(s, m)) = Len(s) + 1 /\ Len(s) \in Nat
         /\ \A i \in 1..Len(s) : Append(s, m)[i] = s[i]
         /\ Append(s, m)[Len(s) + 1] = m
OBVIOUS

\* Appending a message adds it to what waits, and takes nothing away.
LEMMA AppendedWaits ==
  ASSUME QueueInv, NEW m \in Messages, queue' = Append(queue, m), offset' = offset
  PROVE  /\ Pending \cup {m} \subseteq Pending'
         /\ queue' \in Seq(Messages) /\ offset' <= Len(queue') /\ offset < Len(queue')
         /\ Len(queue') = Len(queue) + 1
         /\ \A i \in 1..Len(queue) : queue'[i] = queue[i]
         /\ queue'[Len(queue) + 1] = m
<1>1. /\ queue' \in Seq(Messages) /\ Len(queue') = Len(queue) + 1 /\ Len(queue) \in Nat
      /\ \A i \in 1..Len(queue) : queue'[i] = queue[i]
      /\ queue'[Len(queue) + 1] = m
  BY AppendedQueue DEF QueueInv
<1>2. offset \in Nat /\ offset <= Len(queue) /\ offset' = offset
  BY DEF QueueInv
<1>3. \A x \in Pending : x \in Pending'
  BY <1>1, <1>2 DEF Pending
<1>4. m \in Pending'
  BY <1>1, <1>2 DEF Pending
<1> QED
  BY <1>1, <1>2, <1>3, <1>4

LEMMA OfferedIsPoisoned ==
  ASSUME QueueInv, offset < Len(queue)
  PROVE  Offered \in poisoned /\ Offered \in Messages /\ Offered = queue[offset + 1]
         /\ offset + 1 \in 1..Len(queue)
<1>1. offset + 1 \in 1..Len(queue)
  BY DEF QueueInv
<1> QED
  BY <1>1 DEF QueueInv, Offered

\* An ack takes the message that is offered and no other.
LEMMA AckedIsOffered ==
  ASSUME QueueInv, offset < Len(queue), offset' = offset + 1, queue' = queue
  PROVE  /\ Pending \subseteq Pending' \cup {Offered}
         /\ offset' \in Nat /\ offset' <= Len(queue')
BY DEF QueueInv, Pending, Offered

-----------------------------------------------------------------------------
(* The invariant *)

LEMMA QueueInit == Bounds /\ Init => QueueInv
<1> SUFFICES ASSUME Bounds, Init PROVE QueueInv
  OBVIOUS
<1>1. queue = <<>> /\ queue \in Seq(Messages) /\ Len(queue) = 0
  BY DEF Init
<1>2. cli \in CliType /\ cli.pc = "ended"
  BY DEF Init, CliType, CommandNames
<1>3. offset = 0 /\ commandsRun \in 0..MaxCommands /\ cliFaults \in 0..MaxFaults
  BY DEF Init, Bounds
<1>4. poisoned = {} /\ removed = {} /\ requeued = {} /\ unpublished = {}
  BY DEF Init
<1> QED
  BY <1>1, <1>2, <1>3, <1>4 DEF QueueInv

LEMMA PoisonStep ==
  ASSUME Bounds, QueueInv, NEW m \in Messages, Poison(m)
  PROVE  QueueInv'
<1>1. /\ queue' = Append(queue, m) /\ offset' = offset /\ poisoned' = poisoned \cup {m}
      /\ removed' = removed /\ requeued' = requeued /\ unpublished' = unpublished
      /\ cli' = cli /\ commandsRun' = commandsRun
  BY DEF Poison
<1>2. cliFaults' \in 0..MaxFaults
  BY DEF Poison, Fault, QueueInv, Bounds
<1>3. /\ queue' \in Seq(Messages) /\ offset' <= Len(queue') /\ offset < Len(queue')
      /\ Len(queue') = Len(queue) + 1 /\ Len(queue) \in Nat
      /\ \A i \in 1..Len(queue) : queue'[i] = queue[i]
      /\ queue'[Len(queue) + 1] = m
  BY <1>1, AppendedWaits DEF QueueInv
<1>4. \A i \in 1..Len(queue') : queue'[i] \in poisoned'
  BY <1>1, <1>3 DEF QueueInv
<1>5. ASSUME cli.pc = "ack"
      PROVE  \E i \in (offset' + 2)..Len(queue') : queue'[i] = queue'[offset' + 1]
  <2>1. PICK i \in (offset + 2)..Len(queue) : queue[i] = queue[offset + 1]
    BY <1>5 DEF QueueInv
  <2>2. offset + 1 \in 1..Len(queue) /\ i \in 1..Len(queue)
    BY <1>3, <2>1 DEF QueueInv
  <2> QED
    BY <1>1, <1>3, <2>1, <2>2 DEF QueueInv
<1> QED
  BY <1>1, <1>2, <1>3, <1>4, <1>5 DEF QueueInv

\* A step that leaves the topic and the ledger alone.
LEMMA CliStays ==
  ASSUME QueueInv, UNCHANGED <<topics, ledger>>, cli' \in CliType,
         cli'.pc \in {"running", "ended"} \/ (cli'.pc = "publish" /\ offset < Len(queue)),
         commandsRun' \in 0..MaxCommands, cliFaults' \in 0..MaxFaults
  PROVE  QueueInv'
BY DEF QueueInv, topics, ledger

LEMMA StartStep ==
  ASSUME Bounds, QueueInv, NEW name \in CommandNames, NEW id \in Messages \cup {NoMessage},
         Start(name, id)
  PROVE  QueueInv'
<1>1. Pending \subseteq Messages
  BY DEF Pending, QueueInv
<1>2. cli' \in CliType /\ cli'.pc = "running"
  BY <1>1 DEF Start, CliType
<1>3. commandsRun' \in 0..MaxCommands /\ cliFaults' \in 0..MaxFaults
  BY DEF Start, QueueInv, Bounds
<1> QED
  BY <1>2, <1>3, CliStays DEF Start

LEMMA FoundStep ==
  ASSUME QueueInv, Found
  PROVE  QueueInv'
<1>1. offset < Len(queue) /\ cli.id = Offered
  BY DEF Found, HasOffered, IsWanted
<1>2. Offered \in poisoned
  BY <1>1, OfferedIsPoisoned
<1>3. /\ queue' = queue /\ offset' = offset + 1 /\ poisoned' = poisoned
      /\ requeued' = requeued /\ unpublished' = unpublished
      /\ removed' \subseteq removed \cup {Offered}
      /\ commandsRun' = commandsRun /\ cliFaults' = cliFaults
  BY DEF Found
<1>4. cli' \in CliType /\ cli'.pc \in {"requeue", "running"} /\ cli'.id = cli.id
  BY DEF Found, QueueInv, CliType
<1>5. offset' \in Nat /\ offset' <= Len(queue')
  BY <1>1, <1>3, AckedIsOffered
<1> QED
  BY <1>1, <1>2, <1>3, <1>4, <1>5 DEF QueueInv

LEMMA RepublishStep ==
  ASSUME Bounds, QueueInv, Republish
  PROVE  QueueInv'
<1>1. offset < Len(queue) /\ offset' = offset /\ UNCHANGED <<ledger, commandsRun>>
  BY DEF Republish, QueueInv
<1>2. Offered \in poisoned /\ Offered \in Messages /\ Offered = queue[offset + 1]
      /\ offset + 1 \in 1..Len(queue)
  BY <1>1, OfferedIsPoisoned
<1>3. cliFaults' \in 0..MaxFaults
  BY DEF Republish, Fault, QueueInv, Bounds
<1>4. cli' \in CliType /\ cli'.pc \in {"ack", "running"}
  BY DEF Republish, QueueInv, CliType
<1>5. CASE queue' = Append(queue, Offered)
  <2>1. /\ queue' \in Seq(Messages) /\ offset' <= Len(queue') /\ offset < Len(queue')
        /\ Len(queue') = Len(queue) + 1 /\ Len(queue) \in Nat
        /\ \A i \in 1..Len(queue) : queue'[i] = queue[i]
        /\ queue'[Len(queue) + 1] = Offered
    BY <1>1, <1>2, <1>5, AppendedWaits DEF QueueInv
  <2>2. \A i \in 1..Len(queue') : queue'[i] \in poisoned'
    BY <1>1, <1>2, <2>1 DEF QueueInv, ledger
  <2>3. \E i \in (offset' + 2)..Len(queue') : queue'[i] = queue'[offset' + 1]
    <3>1. Len(queue) + 1 \in (offset' + 2)..Len(queue')
      BY <1>1, <2>1 DEF QueueInv
    <3>2. queue'[Len(queue) + 1] = queue'[offset' + 1]
      BY <1>1, <1>2, <2>1
    <3> QED
      BY <3>1, <3>2
  <2> QED
    BY <1>1, <1>3, <1>4, <2>1, <2>2, <2>3 DEF QueueInv, ledger
<1>6. CASE queue' = queue /\ cli'.pc = "running"
  BY <1>1, <1>3, <1>4, <1>6, CliStays DEF topics, QueueInv
<1>7. queue' = Append(queue, Offered) \/ (queue' = queue /\ cli'.pc = "running")
  BY DEF Republish, QueueInv, CliType
<1> QED
  BY <1>5, <1>6, <1>7

LEMMA AckStep ==
  ASSUME QueueInv, Ack
  PROVE  QueueInv'
<1>1. offset < Len(queue) /\ offset' = offset + 1 /\ queue' = queue
      /\ UNCHANGED <<ledger, commandsRun, cliFaults>>
  BY DEF Ack, QueueInv
<1>2. cli' \in CliType /\ cli'.pc = "running"
  BY DEF Ack, QueueInv, CliType
<1>3. offset' \in Nat /\ offset' <= Len(queue')
  BY <1>1, AckedIsOffered
<1> QED
  BY <1>1, <1>2, <1>3 DEF QueueInv, ledger

LEMMA RequeueStep ==
  ASSUME Bounds, QueueInv, Requeue
  PROVE  QueueInv'
<1>1. cli.id \in poisoned /\ UNCHANGED <<topics, poisoned, removed, commandsRun>>
  BY DEF Requeue, QueueInv
<1>2. requeued' \subseteq requeued \cup {cli.id} /\ unpublished' \subseteq unpublished \cup {cli.id}
  BY DEF Requeue
<1>3. cli' \in CliType /\ cli'.pc = "running"
  BY DEF Requeue, QueueInv, CliType
<1>4. cliFaults' \in 0..MaxFaults
  BY DEF Requeue, Fault, QueueInv, Bounds
<1> QED
  BY <1>1, <1>2, <1>3, <1>4 DEF QueueInv, topics

LEMMA CrashStep ==
  ASSUME Bounds, QueueInv, Crash
  PROVE  QueueInv'
<1>1. UNCHANGED <<topics, poisoned, removed, requeued, commandsRun>>
  BY DEF Crash
<1>2. unpublished' \subseteq poisoned
  BY DEF Crash, QueueInv
<1>3. cli' \in CliType /\ cli'.pc = "ended"
  BY DEF Crash, QueueInv, CliType
<1>4. cliFaults' \in 0..MaxFaults
  BY DEF Crash, Fault, QueueInv, Bounds
<1> QED
  BY <1>1, <1>2, <1>3, <1>4 DEF QueueInv, topics

LEMMA QueueStep == Bounds /\ QueueInv /\ [Next]_vars => QueueInv'
<1> SUFFICES ASSUME Bounds, QueueInv, [Next]_vars PROVE QueueInv'
  OBVIOUS
<1>1. CASE Stop \/ SeenAgain \/ Timeout
  <2>1. cli' \in CliType /\ cli'.pc \in {"running", "ended"}
    BY <1>1 DEF Stop, SeenAgain, Timeout, HasOffered, QueueInv, CliType
  <2>2. UNCHANGED <<topics, ledger, commandsRun, cliFaults>>
    BY <1>1 DEF Stop, SeenAgain, Timeout
  <2> QED
    BY <2>1, <2>2, CliStays DEF QueueInv
<1>2. CASE PassOn
  <2>1. offset < Len(queue) /\ UNCHANGED <<topics, ledger, commandsRun, cliFaults>>
    BY <1>2 DEF PassOn, HasOffered
  <2>2. Offered \in Messages
    BY <2>1, OfferedIsPoisoned
  <2>3. Append(cli.listed, Offered) \in Seq(Messages) /\ cli.listed \in Seq(Messages)
    BY <2>2, AppendedQueue DEF QueueInv, CliType
  <2>4. cli' \in CliType /\ cli'.pc = "publish"
    BY <1>2, <2>2, <2>3 DEF PassOn, QueueInv, CliType
  <2> QED
    BY <2>1, <2>4, CliStays DEF QueueInv
<1>3. CASE UNCHANGED vars
  BY <1>3 DEF vars, topics, ledger, QueueInv
<1>4. ASSUME NEW id \in Messages \cup {NoMessage}, NEW name \in CommandNames, Start(name, id)
      PROVE  QueueInv'
  BY <1>4, StartStep
<1> QED
  BY <1>1, <1>2, <1>3, <1>4, PoisonStep, FoundStep, RepublishStep, AckStep, RequeueStep,
     CrashStep DEF Next, RunCommand, CommandNames

\* Every reachable state of the topics, the ledger and the command is well typed.
THEOREM TypeCorrect == Bounds => (Spec => []TypeOK)
<1> SUFFICES ASSUME Bounds PROVE Spec => []TypeOK
  OBVIOUS
<1>1. QueueInv => TypeOK
  BY DEF QueueInv, CliType, TypeOK
<1> QED
  BY <1>1, QueueInit, QueueStep, PTL DEF Spec

-----------------------------------------------------------------------------
(* No message is lost *)

LEMMA LossStep == QueueInv /\ NothingIsLost /\ [Next]_vars => NothingIsLost'
<1> SUFFICES ASSUME QueueInv, NothingIsLost, [Next]_vars PROVE NothingIsLost'
  OBVIOUS
<1>1. ASSUME NEW m \in Messages, Poison(m) PROVE NothingIsLost'
  <2>1. Pending \cup {m} \subseteq Pending'
    BY <1>1, AppendedWaits DEF Poison
  <2>2. /\ poisoned' = poisoned \cup {m} /\ removed' = removed /\ requeued' = requeued
        /\ unpublished' = unpublished /\ cli' = cli
    BY <1>1 DEF Poison
  <2> QED
    BY <2>1, <2>2 DEF NothingIsLost
<1>2. ASSUME UNCHANGED <<topics, ledger>>, cli.pc # "requeue" PROVE NothingIsLost'
  <2>1. Pending' = Pending
    BY <1>2 DEF Pending, topics
  <2> QED
    BY <1>2, <2>1 DEF NothingIsLost, ledger
<1>3. ASSUME NEW id, NEW name, Start(name, id) PROVE NothingIsLost'
  BY <1>2, <1>3 DEF Start
<1>4. CASE Stop \/ SeenAgain \/ PassOn \/ Timeout
  BY <1>2, <1>4 DEF Stop, SeenAgain, PassOn, Timeout, HasOffered
<1>5. CASE Found
  <2>1. /\ offset < Len(queue) /\ offset' = offset + 1 /\ queue' = queue
        /\ cli.id = Offered /\ cli.pc = "running" /\ cli.name \in {"remove", "requeue"}
    BY <1>5 DEF Found, HasOffered, IsWanted, QueueInv, CliType, CommandNames
  <2>2. Pending \subseteq Pending' \cup {Offered}
    BY <2>1, AckedIsOffered
  <2>3. /\ removed \subseteq removed' /\ poisoned' = poisoned /\ requeued' = requeued
        /\ unpublished' = unpublished
    BY <1>5 DEF Found
  <2>4. \/ Offered \in removed'
        \/ cli'.pc = "requeue" /\ cli'.id = Offered
    BY <1>5, <2>1 DEF Found, QueueInv, CliType
  <2> QED
    BY <2>1, <2>2, <2>3, <2>4 DEF NothingIsLost
<1>6. CASE Republish
  <2>1. /\ offset < Len(queue) /\ offset' = offset /\ UNCHANGED ledger /\ cli.pc = "publish"
    BY <1>6 DEF Republish, QueueInv
  <2>2. Pending \subseteq Pending'
    <3>1. CASE queue' = queue
      BY <2>1, <3>1 DEF Pending
    <3>2. CASE queue' = Append(queue, Offered)
      BY <2>1, <3>2, OfferedIsPoisoned, AppendedWaits
    <3> QED
      BY <1>6, <3>1, <3>2 DEF Republish
  <2> QED
    BY <2>1, <2>2 DEF NothingIsLost, ledger
<1>7. CASE Ack
  <2>1. /\ offset < Len(queue) /\ offset' = offset + 1 /\ queue' = queue /\ UNCHANGED ledger
        /\ cli.pc = "ack"
    BY <1>7 DEF Ack, QueueInv
  <2>2. Offered \in Pending'
    <3>1. PICK i \in (offset + 2)..Len(queue) : queue[i] = queue[offset + 1]
      BY <2>1 DEF QueueInv
    <3> QED
      BY <2>1, <3>1 DEF Pending, Offered, QueueInv
  <2>3. Pending \subseteq Pending'
    BY <2>1, <2>2, AckedIsOffered
  <2> QED
    BY <2>1, <2>3 DEF NothingIsLost, ledger
<1>8. CASE Requeue \/ Crash
  <2>1. Pending' = Pending /\ poisoned' = poisoned /\ removed' = removed
    BY <1>8 DEF Requeue, Crash, Pending, topics
  <2>2. requeued \subseteq requeued' /\ unpublished \subseteq unpublished'
    BY <1>8 DEF Requeue, Crash
  <2>3. cli.pc = "requeue" => cli.id \in requeued' \cup unpublished'
    BY <1>8 DEF Requeue, Crash
  <2> QED
    BY <2>1, <2>2, <2>3 DEF NothingIsLost
<1>9. CASE UNCHANGED vars
  BY <1>9 DEF vars, topics, ledger, NothingIsLost, Pending
<1> QED
  BY <1>1, <1>3, <1>4, <1>5, <1>6, <1>7, <1>8, <1>9 DEF Next, RunCommand

\* Wherever a command is stopped and whatever fails, every poisoned message waits in the
\* topic, was removed or requeued by its id, or is the one requeue failed to publish.
THEOREM NothingIsLostHolds == Bounds => (Spec => []NothingIsLost)
<1> SUFFICES ASSUME Bounds PROVE Spec => []NothingIsLost
  OBVIOUS
<1>1. Init => NothingIsLost
  BY DEF Init, NothingIsLost
<1> QED
  BY <1>1, QueueInit, QueueStep, LossStep, PTL DEF Spec

-----------------------------------------------------------------------------
(* What a command reports *)

\* The head of the queue that is being passed on is not part of the window.
WindowStart == IF cli.pc \in {"publish", "ack"} THEN offset + 2 ELSE offset + 1
Window == WindowStart..Len(queue)

\* What a command has still to see: the messages before the first one it passed on.
AheadAt(i) == \A j \in Window : j <= i => queue[j] # cli.first
Ahead == {queue[i] : i \in {i \in Window : AheadAt(i)}}

\* The window holds no message twice.
NoDuplicates == \A i, j \in Window : queue[i] = queue[j] => i = j

\* A command that is not done has listed, or has ahead of it, everything that was there at
\* its start; the first message that it passed on waits behind that.
Underway ==
  /\ cli.name = "preview" => cli.atStart \subseteq Range(cli.listed) \cup Ahead
  /\ cli.name # "preview" => (cli.id \in cli.atStart => cli.id \in Ahead)
  /\ Range(cli.listed) \cap Ahead = {} /\ IsInjective(cli.listed)
  /\ Range(cli.listed) \subseteq poisoned
  /\ cli.first = NoMessage => cli.pc = "running" /\ cli.listed = <<>>
  /\ cli.first # NoMessage =>
       \/ \E i \in Window : queue[i] = cli.first
       \/ cli.pc = "publish" /\ Offered = cli.first

Reported ==
  /\ cli.name = "preview" => cli.atStart \subseteq Range(cli.listed) /\ IsInjective(cli.listed)
  /\ cli.found => cli.id \in poisoned /\ cli.id \notin Pending
  /\ cli.name # "preview" /\ ~cli.found => cli.id \notin cli.atStart

\* While nothing failed.
ReportInv ==
  cliFaults = 0 =>
    /\ NoDuplicates
    /\ cli.pc = "publish" => \A i \in Window : queue[i] # Offered
    /\ cli.found => cli.done
    /\ cli.pc = "requeue" => cli.done
    /\ cli.pc \in {"publish", "ack"} => ~cli.done
    /\ cli.pc # "ended" /\ ~cli.done => Underway
    /\ cli.done => Reported

LEMMA FaultCounts == ASSUME QueueInv, Fault PROVE cliFaults' # 0
BY DEF QueueInv, Fault

LEMMA FaultsRemain == ASSUME QueueInv, [Next]_vars, cliFaults' = 0 PROVE cliFaults = 0
BY FaultCounts DEF Next, vars, Poison, Start, RunCommand, Stop, Found, SeenAgain, PassOn,
   Republish, Ack, Requeue, Timeout, Crash

LEMMA WindowIsQueued ==
  ASSUME QueueInv
  PROVE  /\ Len(queue) \in Nat /\ offset \in Nat /\ WindowStart \in Nat
         /\ WindowStart <= Len(queue) + 1 /\ WindowStart >= offset + 1
         /\ \A i \in Window : /\ i \in Nat /\ i \in 1..Len(queue) /\ i > offset
                              /\ queue[i] \in Messages /\ queue[i] \in poisoned
<1>1. Len(queue) \in Nat /\ offset \in Nat /\ offset <= Len(queue)
      /\ \A i \in 1..Len(queue) : queue[i] \in Messages /\ queue[i] \in poisoned
  BY DEF QueueInv
<1>2. cli.pc \in {"publish", "ack"} => offset < Len(queue)
  BY DEF QueueInv
<1>3. /\ WindowStart \in Nat /\ WindowStart <= Len(queue) + 1 /\ WindowStart >= offset + 1
  BY <1>1, <1>2 DEF WindowStart
<1> QED
  BY <1>1, <1>3 DEF Window

LEMMA SameWindow ==
  ASSUME QueueInv, UNCHANGED queue, WindowStart' = WindowStart, cli'.first = cli.first
  PROVE  Window' = Window /\ Ahead' = Ahead /\ NoDuplicates' = NoDuplicates
<1>1. Window' = Window
  BY DEF Window
<1>2. \A i : AheadAt(i)' = AheadAt(i)
  BY <1>1 DEF AheadAt
<1>3. Ahead' = Ahead
  BY <1>1, <1>2 DEF Ahead
<1> QED
  BY <1>1, <1>3 DEF NoDuplicates

\* A message that is appended is ahead of a command that has not seen any message again.
LEMMA AppendedAhead ==
  ASSUME QueueInv, NEW m \in Messages, queue' = Append(queue, m), offset' = offset,
         WindowStart' = WindowStart, cli'.first = cli.first
  PROVE  /\ Window' = Window \cup {Len(queue) + 1} /\ Len(queue) + 1 \notin Window
         /\ \A i \in Window : queue'[i] = queue[i]
         /\ queue'[Len(queue) + 1] = m
         /\ Ahead \subseteq Ahead' /\ Ahead' \subseteq Ahead \cup {m}
         /\ (\E i \in Window : queue[i] = cli.first) \/ m = cli.first => Ahead' = Ahead
<1> DEFINE last == Len(queue) + 1
<1>1. /\ Len(queue') = last /\ queue'[last] = m
      /\ \A i \in 1..Len(queue) : queue'[i] = queue[i]
  BY AppendedWaits
<1>2. Window' = Window \cup {last} /\ last \notin Window
  BY <1>1, WindowIsQueued DEF Window
<1>3. \A i \in Window : queue'[i] = queue[i] /\ i < last /\ i \in Nat
  BY <1>1, WindowIsQueued
<1>4. \A i \in Window : AheadAt(i)' <=> AheadAt(i)
  <2>1. \A j \in Window' : \A i \in Window : j <= i => j \in Window
    BY <1>2, <1>3
  <2> QED
    BY <1>2, <1>3, <2>1 DEF AheadAt
<1>5. \A i : AheadAt(i)' <=> \A j \in Window' : j <= i => queue'[j] # cli.first
  BY DEF AheadAt
<1>6. \A j \in Window' : j <= last
  BY <1>2, <1>3, WindowIsQueued
<1> HIDE DEF last
<1>7. Ahead' = {queue'[i] : i \in {i \in Window' : AheadAt(i)'}}
  BY DEF Ahead
<1>8. Ahead \subseteq Ahead'
  BY <1>2, <1>3, <1>4, <1>7 DEF Ahead
<1>9. \A i \in Window' : AheadAt(i)' => queue'[i] \in Ahead \/ i = last
  BY <1>2, <1>3, <1>4 DEF Ahead
<1>10. ASSUME (\E i \in Window : queue[i] = cli.first) \/ m = cli.first
       PROVE  ~(\A j \in Window' : j <= last => queue'[j] # cli.first)
  BY <1>1, <1>2, <1>3, <1>6, <1>10
<1>11. (\E i \in Window : queue[i] = cli.first) \/ m = cli.first => Ahead' \subseteq Ahead
  BY <1>5, <1>7, <1>9, <1>10
<1>12. Ahead' \subseteq Ahead \cup {m}
  BY <1>1, <1>7, <1>9
<1> QED
  BY <1>1, <1>2, <1>3, <1>8, <1>11, <1>12 DEF last

LEMMA ReportInit == Init => ReportInv
<1> SUFFICES ASSUME Init PROVE ReportInv
  OBVIOUS
<1>1. queue = <<>> /\ offset = 0 /\ cli.pc = "ended" /\ cli.done = FALSE /\ cli.found = FALSE
  BY DEF Init
<1>2. Window = {}
  BY <1>1 DEF Window, WindowStart
<1> QED
  BY <1>1, <1>2 DEF ReportInv, NoDuplicates

LEMMA ReportPoison ==
  ASSUME QueueInv, ReportInv, cliFaults' = 0, cliFaults = 0, NEW m \in Messages, Poison(m)
  PROVE  ReportInv'
<1>1. /\ queue' = Append(queue, m) /\ offset' = offset /\ cli' = cli /\ m \notin poisoned
      /\ poisoned' = poisoned \cup {m}
  BY FaultCounts DEF Poison
<1>2. WindowStart' = WindowStart
  BY <1>1 DEF WindowStart
<1> DEFINE last == Len(queue) + 1
<1>3. /\ Window' = Window \cup {last} /\ last \notin Window
      /\ \A i \in Window : queue'[i] = queue[i]
      /\ queue'[last] = m
      /\ Ahead \subseteq Ahead' /\ Ahead' \subseteq Ahead \cup {m}
  BY <1>1, <1>2, AppendedAhead
<1> HIDE DEF last
<1>4. \A i \in Window : queue[i] \in poisoned
  BY WindowIsQueued
<1>5. NoDuplicates'
  <2> SUFFICES ASSUME NEW i \in Window', NEW j \in Window', queue'[i] = queue'[j]
               PROVE  i = j
    BY DEF NoDuplicates
  <2>1. CASE i = last \/ j = last
    BY <1>1, <1>3, <1>4, <2>1
  <2>2. CASE i \in Window /\ j \in Window
    BY <1>3, <2>2 DEF NoDuplicates, ReportInv
  <2> QED
    BY <1>3, <2>1, <2>2
<1>6. ASSUME cli.pc = "publish" PROVE Offered' = Offered /\ Offered \in poisoned
  <2>1. offset + 1 \in 1..Len(queue)
    BY <1>6, OfferedIsPoisoned DEF QueueInv
  <2> QED
    BY <1>1, <1>6, <2>1, AppendedWaits, OfferedIsPoisoned DEF QueueInv, Offered
<1>7. ASSUME Underway PROVE Underway'
  BY <1>1, <1>3, <1>6, <1>7 DEF Underway
<1>8. ASSUME Reported PROVE Reported'
  <2>1. \A x \in Pending' : x \in Pending \/ x = m
    <3>1. /\ Len(queue') = Len(queue) + 1 /\ Len(queue) \in Nat /\ offset \in Nat
          /\ \A i \in 1..Len(queue) : queue'[i] = queue[i]
          /\ queue'[Len(queue) + 1] = m
      BY <1>1, AppendedWaits DEF QueueInv
    <3> QED
      BY <1>1, <3>1 DEF Pending
  <2> QED
    BY <1>1, <1>8, <2>1 DEF Reported
<1> QED
  BY <1>1, <1>3, <1>4, <1>5, <1>6, <1>7, <1>8 DEF ReportInv

LEMMA ReportStart ==
  ASSUME QueueInv, ReportInv, cliFaults = 0, NoMessage \notin Messages,
         NEW name \in CommandNames, NEW id \in Messages \cup {NoMessage}, Start(name, id)
  PROVE  ReportInv'
<1>1. /\ UNCHANGED <<topics, ledger>> /\ cli.pc = "ended"
      /\ cli' = [pc |-> "running", name |-> name, id |-> id, first |-> NoMessage,
                 done |-> FALSE, found |-> FALSE, listed |-> <<>>, atStart |-> Pending]
  BY DEF Start
<1>2. Window' = Window /\ NoDuplicates
  BY <1>1 DEF Window, WindowStart, topics, ReportInv
<1>3. Ahead' = Pending
  <2>1. \A i \in Window : AheadAt(i)'
    BY <1>1, <1>2, WindowIsQueued DEF AheadAt, topics
  <2>2. Window = (offset + 1)..Len(queue)
    BY <1>1 DEF Window, WindowStart
  <2> QED
    BY <1>1, <1>2, <2>1, <2>2 DEF Ahead, Pending, topics
<1>4. Range(<<>>) = {} /\ IsInjective(<<>>)
  BY DEF Range, IsInjective
<1>5. Underway'
  BY <1>1, <1>3, <1>4 DEF Underway
<1> QED
  BY <1>1, <1>2, <1>5 DEF ReportInv, NoDuplicates, topics

\* What a command that is done has reported stays true.
LEMMA ReportStays ==
  ASSUME QueueInv, ReportInv, cliFaults = 0, cli.done, cli' \in CliType,
         UNCHANGED <<queue, offset, poisoned>>,
         cli.pc \in {"running", "requeue"}, cli'.pc \in {"running", "ended"},
         cli' = [cli EXCEPT !.pc = cli'.pc]
  PROVE  ReportInv'
<1>1. /\ cli'.first = cli.first /\ cli'.done /\ cli'.found = cli.found /\ cli'.name = cli.name
      /\ cli'.id = cli.id /\ cli'.atStart = cli.atStart /\ cli'.listed = cli.listed
  BY DEF QueueInv, CliType
<1>2. WindowStart' = WindowStart
  BY DEF WindowStart
<1>3. NoDuplicates'
  BY <1>1, <1>2, SameWindow DEF ReportInv
<1>4. Reported'
  BY <1>1 DEF ReportInv, Reported, Pending
<1> QED
  BY <1>1, <1>3, <1>4 DEF ReportInv

LEMMA TimeoutReport ==
  ASSUME QueueInv, ReportInv, cliFaults = 0, Timeout
  PROVE  ReportInv'
<1>1. /\ cli.pc = "running" /\ cli' = [cli EXCEPT !.pc = "ended"]
      /\ UNCHANGED <<queue, offset, poisoned>> /\ cli \in CliType
  BY DEF Timeout, topics, ledger, QueueInv
<1>2. cli' \in CliType /\ cli'.pc = "ended" /\ cli'.done = cli.done /\ cli'.found = cli.found
      /\ cli'.first = cli.first
  BY <1>1 DEF CliType
<1>3. CASE cli.done
  BY <1>1, <1>2, <1>3, ReportStays
<1>4. CASE ~cli.done
  <2>1. WindowStart' = WindowStart
    BY <1>1, <1>2 DEF WindowStart
  <2>2. NoDuplicates'
    BY <1>1, <1>2, <2>1, SameWindow DEF ReportInv
  <2> QED
    BY <1>2, <1>4, <2>2 DEF ReportInv
<1> QED
  BY <1>3, <1>4

LEMMA SeenAgainReport ==
  ASSUME QueueInv, ReportInv, cliFaults = 0, SeenAgain
  PROVE  ReportInv'
<1>1. /\ cli.pc = "running" /\ cli' = [cli EXCEPT !.done = TRUE] /\ ~cli.done
      /\ UNCHANGED <<queue, offset, poisoned>> /\ cli \in CliType
      /\ offset < Len(queue) /\ cli.first = queue[offset + 1]
  BY DEF SeenAgain, HasOffered, Offered, IsFirstAgain, topics, ledger, QueueInv
<1>2. /\ cli'.pc = "running" /\ cli'.done /\ cli'.found = cli.found /\ cli'.name = cli.name
      /\ cli'.id = cli.id /\ cli'.atStart = cli.atStart /\ cli'.listed = cli.listed
      /\ cli'.first = cli.first
  BY <1>1 DEF CliType
<1>3. WindowStart' = WindowStart /\ WindowStart = offset + 1
  BY <1>1, <1>2 DEF WindowStart
<1>4. NoDuplicates'
  BY <1>1, <1>2, <1>3, SameWindow DEF ReportInv
<1>5. Underway /\ (cli.found => cli.done)
  BY <1>1 DEF ReportInv
<1>6. Ahead = {}
  <2>1. \A i \in Window : offset + 1 \in Window /\ offset + 1 <= i
    BY <1>1, <1>3, WindowIsQueued DEF Window
  <2> QED
    BY <1>1, <2>1 DEF Ahead, AheadAt
<1>7. Reported'
  BY <1>1, <1>2, <1>5, <1>6 DEF Reported, Underway
<1> QED
  BY <1>2, <1>4, <1>7 DEF ReportInv

LEMMA FoundReport ==
  ASSUME QueueInv, ReportInv, cliFaults = 0, Found
  PROVE  ReportInv'
<1>1. /\ cli.pc = "running" /\ ~cli.done /\ cli.name # "preview" /\ cli \in CliType
      /\ UNCHANGED <<queue, poisoned>> /\ offset' = offset + 1
      /\ offset < Len(queue) /\ cli.id = queue[offset + 1]
      /\ cli' = [cli EXCEPT !.found = TRUE, !.done = TRUE,
                            !.pc = IF cli.name = "requeue" THEN "requeue" ELSE "running"]
  BY DEF Found, HasOffered, Offered, IsWanted, QueueInv
<1>2. /\ cli'.pc \in {"running", "requeue"} /\ cli'.done /\ cli'.found /\ cli'.id = cli.id
      /\ cli'.name = cli.name
  BY <1>1 DEF CliType
<1>3. WindowStart = offset + 1 /\ WindowStart' = offset + 2
  BY <1>1, <1>2, WindowIsQueued DEF WindowStart
<1>4. /\ Window = (offset + 1)..Len(queue) /\ Window' = (offset + 2)..Len(queue)
      /\ offset \in Nat /\ Len(queue) \in Nat
  BY <1>1, <1>3, WindowIsQueued DEF Window
<1>5. NoDuplicates
  BY DEF ReportInv
<1>6. NoDuplicates'
  BY <1>1, <1>4, <1>5 DEF NoDuplicates
<1>7. cli.id \in poisoned
  BY <1>1, OfferedIsPoisoned
<1>8. cli.id \notin Pending'
  <2>1. \A i \in (offset + 2)..Len(queue) : queue[i] # queue[offset + 1]
    BY <1>1, <1>4, <1>5 DEF NoDuplicates
  <2>2. Pending' = {queue[i] : i \in (offset + 2)..Len(queue)}
    BY <1>1, <1>4 DEF Pending
  <2> QED
    BY <1>1, <2>1, <2>2
<1>9. Reported'
  BY <1>1, <1>2, <1>7, <1>8 DEF Reported
<1> QED
  BY <1>2, <1>6, <1>9 DEF ReportInv

LEMMA PassOnReport ==
  ASSUME QueueInv, ReportInv, cliFaults = 0, NoMessage \notin Messages, PassOn
  PROVE  ReportInv'
<1> DEFINE m == queue[offset + 1]
<1>1. /\ cli.pc = "running" /\ ~cli.done /\ cli \in CliType
      /\ UNCHANGED <<queue, poisoned, offset>>
      /\ offset < Len(queue) /\ Offered = m /\ cli.first # m
      /\ cli.name # "preview" => cli.id # m
      /\ cli' = [cli EXCEPT !.pc = "publish",
                            !.first = IF @ = NoMessage THEN m ELSE @,
                            !.listed = IF cli.name = "preview" THEN Append(@, m) ELSE @]
  BY DEF PassOn, HasOffered, Offered, IsWanted, IsFirstAgain, QueueInv, topics, ledger
<1>2. m \in Messages /\ m \in poisoned
  BY <1>1, OfferedIsPoisoned
<1> HIDE DEF m
<1>3. /\ cli'.pc = "publish" /\ ~cli'.done /\ cli'.found = cli.found /\ cli'.id = cli.id
      /\ cli'.name = cli.name /\ cli'.atStart = cli.atStart
      /\ cli'.first = IF cli.first = NoMessage THEN m ELSE cli.first
      /\ cli'.listed = IF cli.name = "preview" THEN Append(cli.listed, m) ELSE cli.listed
      /\ cli.listed \in Seq(Messages)
  BY <1>1 DEF CliType
<1>4. WindowStart = offset + 1 /\ WindowStart' = offset + 2
  BY <1>1, <1>3, WindowIsQueued DEF WindowStart
<1>5. /\ Window = (offset + 1)..Len(queue) /\ Window' = (offset + 2)..Len(queue)
      /\ offset \in Nat /\ Len(queue) \in Nat
  BY <1>1, <1>4, WindowIsQueued DEF Window
<1>6. NoDuplicates /\ Underway
  BY <1>1 DEF ReportInv
<1>7. NoDuplicates'
  BY <1>1, <1>5, <1>6 DEF NoDuplicates
<1>8. \A i \in Window' : queue[i] # m
  BY <1>1, <1>5, <1>6 DEF NoDuplicates, m
<1>9. Window = Window' \cup {offset + 1} /\ offset + 1 \notin Window'
  BY <1>1, <1>5
<1>10. /\ AheadAt(offset + 1)
       /\ \A i \in Window' : AheadAt(i)' <=> AheadAt(i)
  <2>1. AheadAt(offset + 1)
    BY <1>1, <1>5 DEF AheadAt, m
  <2>2. \A j \in Window : queue[j] \in Messages
    BY WindowIsQueued
  <2>3. \A j \in Window' : queue[j] # cli'.first <=> queue[j] # cli.first
    BY <1>3, <1>8, <1>9, <2>2
  <2>4. \A i \in Window' : offset + 1 <= i /\ queue[offset + 1] # cli.first
    BY <1>1, <1>5 DEF m
  <2> QED
    BY <1>1, <1>9, <2>1, <2>3, <2>4 DEF AheadAt
<1>11. Ahead = Ahead' \cup {m} /\ m \notin Ahead'
  <2>1. Ahead' = {queue[i] : i \in {i \in Window' : AheadAt(i)'}}
    BY <1>1 DEF Ahead
  <2> QED
    BY <1>8, <1>9, <1>10, <2>1 DEF Ahead, m
<1>12. Range(Append(cli.listed, m)) = Range(cli.listed) \cup {m}
       /\ IsInjective(Append(cli.listed, m))
  <2>1. /\ Len(Append(cli.listed, m)) = Len(cli.listed) + 1 /\ Len(cli.listed) \in Nat
        /\ DOMAIN cli.listed = 1..Len(cli.listed)
        /\ DOMAIN Append(cli.listed, m) = 1..(Len(cli.listed) + 1)
        /\ \A i \in 1..Len(cli.listed) : Append(cli.listed, m)[i] = cli.listed[i]
        /\ Append(cli.listed, m)[Len(cli.listed) + 1] = m
    BY <1>2, <1>3, AppendedQueue
  <2>2. m \notin Range(cli.listed) /\ IsInjective(cli.listed)
    BY <1>6, <1>11 DEF Underway
  <2>3. Range(Append(cli.listed, m)) = Range(cli.listed) \cup {m}
    BY <2>1 DEF Range
  <2>4. IsInjective(Append(cli.listed, m))
    BY <2>1, <2>2 DEF IsInjective, Range
  <2> QED
    BY <2>3, <2>4
<1>13. Underway'
  <2>1. Offered' = m /\ cli'.first # NoMessage
    BY <1>1, <1>2, <1>3 DEF Offered
  <2>2. (\E i \in Window' : queue[i] = cli'.first) \/ Offered' = cli'.first
    <3>1. CASE cli.first = NoMessage
      BY <1>3, <2>1, <3>1
    <3>2. CASE cli.first # NoMessage
      <4>1. PICK i \in Window : queue[i] = cli.first
        BY <1>1, <1>6, <3>2 DEF Underway
      <4>2. i \in Window'
        BY <1>1, <1>9, <4>1 DEF m
      <4> QED
        BY <1>3, <3>2, <4>1, <4>2
    <3> QED
      BY <3>1, <3>2
  <2>3. Range(cli'.listed) \cap Ahead' = {} /\ IsInjective(cli'.listed)
        /\ Range(cli'.listed) \subseteq poisoned
    BY <1>2, <1>3, <1>6, <1>11, <1>12 DEF Underway
  <2>4. cli.name = "preview" => cli.atStart \subseteq Range(cli'.listed) \cup Ahead'
    BY <1>3, <1>6, <1>11, <1>12 DEF Underway
  <2>5. cli.name # "preview" => (cli.id \in cli.atStart => cli.id \in Ahead')
    BY <1>1, <1>6, <1>11 DEF Underway
  <2> QED
    BY <1>1, <1>3, <2>1, <2>2, <2>3, <2>4, <2>5 DEF Underway
<1>14. Offered' = m
  BY <1>1 DEF Offered, m
<1> QED
  BY <1>1, <1>3, <1>7, <1>8, <1>13, <1>14 DEF ReportInv

LEMMA RepublishReport ==
  ASSUME QueueInv, ReportInv, cliFaults' = 0, cliFaults = 0, Republish
  PROVE  ReportInv'
<1> DEFINE m == Offered
           last == Len(queue) + 1
<1>1. /\ cli.pc = "publish" /\ cli \in CliType /\ UNCHANGED <<offset, poisoned>>
      /\ queue' = Append(queue, m) /\ cli' = [cli EXCEPT !.pc = "ack"]
      /\ offset < Len(queue)
  BY FaultCounts DEF Republish, QueueInv, ledger
<1>2. m \in Messages /\ m \in poisoned
  BY <1>1, OfferedIsPoisoned
<1>3. /\ cli'.pc = "ack" /\ cli'.done = cli.done /\ cli'.found = cli.found
      /\ cli'.id = cli.id /\ cli'.name = cli.name /\ cli'.atStart = cli.atStart
      /\ cli'.first = cli.first /\ cli'.listed = cli.listed
  BY <1>1 DEF CliType
<1>4. WindowStart' = WindowStart
  BY <1>1, <1>3 DEF WindowStart
<1>5. /\ NoDuplicates /\ Underway /\ ~cli.done /\ ~cli.found
      /\ \A i \in Window : queue[i] # m
  BY <1>1 DEF ReportInv
<1> HIDE DEF m
<1>6. (\E i \in Window : queue[i] = cli.first) \/ m = cli.first
  BY <1>1, <1>2, <1>5 DEF Underway, m
<1>7. /\ Window' = Window \cup {last} /\ last \notin Window
      /\ \A i \in Window : queue'[i] = queue[i]
      /\ queue'[last] = m /\ Ahead' = Ahead
  BY <1>1, <1>2, <1>3, <1>4, <1>6, AppendedAhead
<1> HIDE DEF last
<1>8. NoDuplicates'
  BY <1>5, <1>7 DEF NoDuplicates
<1>9. \E i \in Window' : queue'[i] = cli'.first
  BY <1>3, <1>6, <1>7
<1>10. cli.first # NoMessage
  BY <1>1, <1>5 DEF Underway
<1>11. Underway'
  <2>1. /\ cli'.name = "preview" => cli'.atStart \subseteq Range(cli'.listed) \cup Ahead'
        /\ cli'.name # "preview" => (cli'.id \in cli'.atStart => cli'.id \in Ahead')
        /\ Range(cli'.listed) \cap Ahead' = {} /\ IsInjective(cli'.listed)
        /\ Range(cli'.listed) \subseteq poisoned'
    BY <1>1, <1>3, <1>5, <1>7 DEF Underway
  <2> QED
    BY <1>3, <1>9, <1>10, <2>1 DEF Underway
<1> QED
  BY <1>3, <1>5, <1>8, <1>11 DEF ReportInv

LEMMA AckReport ==
  ASSUME QueueInv, ReportInv, cliFaults = 0, Ack
  PROVE  ReportInv'
<1>1. /\ cli.pc = "ack" /\ cli \in CliType /\ UNCHANGED <<queue, poisoned>>
      /\ offset' = offset + 1 /\ cli' = [cli EXCEPT !.pc = "running"]
  BY DEF Ack, QueueInv, ledger
<1>2. /\ cli'.pc = "running" /\ cli'.done = cli.done /\ cli'.found = cli.found
      /\ cli'.id = cli.id /\ cli'.name = cli.name /\ cli'.atStart = cli.atStart
      /\ cli'.first = cli.first /\ cli'.listed = cli.listed
  BY <1>1 DEF CliType
<1>3. WindowStart' = WindowStart
  BY <1>1, <1>2, WindowIsQueued DEF WindowStart
<1>4. NoDuplicates /\ Underway /\ ~cli.done /\ ~cli.found
  BY <1>1 DEF ReportInv
<1>5. Window' = Window /\ Ahead' = Ahead /\ NoDuplicates'
  BY <1>1, <1>2, <1>3, <1>4, SameWindow
<1>6. Underway'
  BY <1>1, <1>2, <1>4, <1>5 DEF Underway
<1> QED
  BY <1>2, <1>4, <1>5, <1>6 DEF ReportInv

LEMMA ReportStep ==
  Bounds /\ NoMessage \notin Messages /\ QueueInv /\ ReportInv /\ [Next]_vars => ReportInv'
<1> SUFFICES ASSUME Bounds, NoMessage \notin Messages, QueueInv, ReportInv, [Next]_vars
             PROVE  ReportInv'
  OBVIOUS
<1>1. CASE cliFaults' # 0
  BY <1>1 DEF ReportInv
<1>2. CASE cliFaults' = 0
  <2>1. cliFaults = 0 /\ ~Fault
    BY <1>2, FaultsRemain, FaultCounts
  <2>2. cli' \in CliType
    BY QueueStep DEF QueueInv
  <2>3. CASE Stop \/ Requeue
    <3>1. /\ cli.done /\ UNCHANGED <<queue, offset, poisoned>>
          /\ cli.pc \in {"running", "requeue"}
          /\ cli' = [cli EXCEPT !.pc = "ended"] \/ cli' = [cli EXCEPT !.pc = "running"]
      BY <2>1, <2>3 DEF Stop, Requeue, HasOffered, topics, ledger, ReportInv
    <3>2. cli'.pc \in {"running", "ended"} /\ cli' = [cli EXCEPT !.pc = cli'.pc]
      BY <3>1 DEF QueueInv, CliType
    <3> QED
      BY <2>1, <2>2, <3>1, <3>2, ReportStays
  <2>4. CASE UNCHANGED vars
    <3>1. UNCHANGED <<queue, offset, poisoned, cli>>
      BY <2>4 DEF vars, topics, ledger
    <3>2. WindowStart' = WindowStart
      BY <3>1 DEF WindowStart
    <3>3. Window' = Window /\ Ahead' = Ahead /\ NoDuplicates' = NoDuplicates
      BY <3>1, <3>2, SameWindow
    <3>4. Underway' = Underway /\ Reported' = Reported
      BY <3>1, <3>3 DEF Underway, Reported, Pending, Offered
    <3> QED
      BY <2>1, <3>1, <3>3, <3>4 DEF ReportInv, Offered
  <2>5. ASSUME NEW name \in CommandNames, NEW id \in Messages \cup {NoMessage}, Start(name, id)
        PROVE  ReportInv'
    BY <2>1, <2>5, ReportStart
  <2>6. ~Crash
    BY <2>1 DEF Crash
  <2> QED
    BY <1>2, <2>1, <2>3, <2>4, <2>5, <2>6, ReportPoison, SeenAgainReport, FoundReport,
       PassOnReport, RepublishReport, AckReport, TimeoutReport
    DEF Next, RunCommand, CommandNames
<1> QED
  BY <1>1, <1>2

\* While nothing fails, what a command reports is true, although messages are added while
\* it runs.  An id is never the empty one, which stands for no message.
THEOREM ReportsAreTrueHolds ==
  Bounds /\ NoMessage \notin Messages => (Spec => []ReportsAreTrue)
<1> SUFFICES ASSUME Bounds, NoMessage \notin Messages PROVE Spec => []ReportsAreTrue
  OBVIOUS
<1>1. ReportInv => ReportsAreTrue
  BY DEF ReportInv, Reported, ReportsAreTrue
<1> QED
  BY <1>1, QueueInit, QueueStep, ReportInit, ReportStep, PTL DEF Spec

=============================================================================
