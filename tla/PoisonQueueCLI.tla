--------------------------- MODULE PoisonQueueCLI ---------------------------
(***************************************************************************)
(* poison-queue-cli: preview, remove and requeue on a Kafka topic that can *)
(* only be read from its head.  Each command takes message after message   *)
(* and publishes it again at the tail, until it sees the first one again;  *)
(* meanwhile a service (20-fault-tolerance/04-poison-queue) adds messages. *)
(*                                                                         *)
(* The router publishes what the handler returns and then acks the         *)
(* message; when the handler or the publication fails, or the process dies *)
(* before the ack, the same message comes again.  The topic has one        *)
(* partition.                                                              *)
(***************************************************************************)
EXTENDS Integers, Sequences, SequencesExt, Functions

CONSTANTS
  Messages,
  MaxCommands, \* bound: commands run
  MaxFaults    \* bound: crashes, publications that fail, acks that are lost

VARIABLES
  queue,       \* the topic PoisonQueue, from its first message on
  offset,      \* the offset of the consumer group
  poisoned,    \* the messages the service has put in the topic
  removed,     \* the messages taken by remove
  requeued,    \* the messages requeue has published
  unpublished, \* the messages requeue has acked but failed to publish
  cli,         \* the command that runs, or the last one
  commandsRun, \* how many were started (bounds the model)
  cliFaults    \* faults so far (bounds the model)

topics == <<queue, offset>>
ledger == <<poisoned, removed, requeued, unpublished>>
vars   == <<topics, ledger, cli, commandsRun, cliFaults>>

NoMessage == "none"
CommandNames == {"preview", "remove", "requeue"}

\* The messages that wait in the queue.
Pending == {queue[i] : i \in (offset + 1)..Len(queue)}

TypeOK ==
  /\ queue \in Seq(Messages)
  /\ offset \in 0..Len(queue)
  /\ poisoned \subseteq Messages
  /\ removed \subseteq poisoned
  /\ requeued \subseteq poisoned
  /\ unpublished \subseteq poisoned
  /\ cli.pc \in {"ended", "running", "publish", "ack", "requeue"}
  /\ cli.name \in CommandNames
  /\ cli.id \in Messages \cup {NoMessage}
  /\ cli.first \in Messages \cup {NoMessage}
  /\ cli.done \in BOOLEAN
  /\ cli.found \in BOOLEAN
  /\ cli.listed \in Seq(Messages)
  /\ cli.atStart \subseteq Messages
  /\ commandsRun \in 0..MaxCommands
  /\ cliFaults \in 0..MaxFaults

Fault == cliFaults < MaxFaults /\ cliFaults' = cliFaults + 1

-----------------------------------------------------------------------------
(* The service *)

\* OnOrderDispatched fails with ErrMissingTrackingLink at every retry: the middleware
\* publishes the message in the poison queue.  When the ack after that is lost, the
\* message is poisoned once more.
Poison(m) ==
  /\ \/ m \notin poisoned /\ UNCHANGED cliFaults
     \/ m \in poisoned /\ Fault
  /\ queue' = Append(queue, m)
  /\ poisoned' = poisoned \cup {m}
  /\ UNCHANGED <<offset, removed, requeued, unpublished, cli, commandsRun>>

-----------------------------------------------------------------------------
(* The command *)

Start(name, id) ==
  /\ cli.pc = "ended"
  /\ commandsRun < MaxCommands
  /\ commandsRun' = commandsRun + 1
  /\ cli' = [pc |-> "running", name |-> name, id |-> id, first |-> NoMessage,
             done |-> FALSE, found |-> FALSE, listed |-> <<>>, atStart |-> Pending]
  /\ UNCHANGED <<topics, ledger, cliFaults>>

\* The message that the subscriber gives to the handler: the same one until it is acked.
Offered == queue[offset + 1]
HasOffered == cli.pc = "running" /\ offset < Len(queue)

\* Mutant: the first message is remembered, but not compared.
IsFirstAgain_Any(m) == cli.first # NoMessage

IsFirstAgain(m) == cli.first = m

IsWanted(m) == cli.name # "preview" /\ cli.id = m

\* cancel(): the router stops without an ack.
Stop ==
  /\ HasOffered
  /\ cli.done
  /\ cli' = [cli EXCEPT !.pc = "ended"]
  /\ UNCHANGED <<topics, ledger, commandsRun, cliFaults>>

\* Mutant: the message that follows is acked as well.
Found_AckedTwice ==
  /\ HasOffered /\ ~cli.done
  /\ IsWanted(Offered)
  /\ offset' = offset + 2
  /\ cli' = [cli EXCEPT !.found = TRUE, !.done = TRUE,
                        !.pc = IF cli.name = "requeue" THEN "requeue" ELSE "running"]
  /\ removed' = IF cli.name = "remove" THEN removed \cup {Offered} ELSE removed
  /\ UNCHANGED <<queue, poisoned, requeued, unpublished, commandsRun, cliFaults>>

\* The message of remove or requeue: msg.Ack(), and for requeue still to be published.
Found ==
  /\ HasOffered /\ ~cli.done
  /\ IsWanted(Offered)
  /\ offset' = offset + 1
  /\ cli' = [cli EXCEPT !.found = TRUE, !.done = TRUE,
                        !.pc = IF cli.name = "requeue" THEN "requeue" ELSE "running"]
  /\ removed' = IF cli.name = "remove" THEN removed \cup {Offered} ELSE removed
  /\ UNCHANGED <<queue, poisoned, requeued, unpublished, commandsRun, cliFaults>>

\* Every message was taken once: the handler fails, so that this one stays.
SeenAgain ==
  /\ HasOffered /\ ~cli.done
  /\ ~IsWanted(Offered)
  /\ IsFirstAgain(Offered)
  /\ cli' = [cli EXCEPT !.done = TRUE]
  /\ UNCHANGED <<topics, ledger, commandsRun, cliFaults>>

\* Any other message is returned, to be published at the tail.
PassOn ==
  /\ HasOffered /\ ~cli.done
  /\ ~IsWanted(Offered)
  /\ ~IsFirstAgain(Offered)
  /\ cli' = [cli EXCEPT !.pc = "publish",
                        !.first = IF @ = NoMessage THEN Offered ELSE @,
                        !.listed = IF cli.name = "preview" THEN Append(@, Offered) ELSE @]
  /\ UNCHANGED <<topics, ledger, commandsRun, cliFaults>>

\* Mutant: a message is acked although it could not be published.
Republish_NoError ==
  /\ cli.pc = "publish"
  /\ cli' = [cli EXCEPT !.pc = "ack"]
  /\ \/ queue' = Append(queue, Offered) /\ UNCHANGED cliFaults
     \/ Fault /\ UNCHANGED queue
  /\ UNCHANGED <<offset, ledger, commandsRun>>

\* The router publishes what the handler returned; if that fails, the message is nacked.
Republish ==
  /\ cli.pc = "publish"
  /\ \/ /\ queue' = Append(queue, Offered)
        /\ cli' = [cli EXCEPT !.pc = "ack"]
        /\ UNCHANGED cliFaults
     \/ /\ Fault
        /\ queue' \in {queue, Append(queue, Offered)}
        /\ cli' = [cli EXCEPT !.pc = "running"]
  /\ UNCHANGED <<offset, ledger, commandsRun>>

Ack ==
  /\ cli.pc = "ack"
  /\ offset' = offset + 1
  /\ cli' = [cli EXCEPT !.pc = "running"]
  /\ UNCHANGED <<queue, ledger, commandsRun, cliFaults>>

\* requeue publishes the message it has acked.  If that fails, the error is returned to
\* a router that has nothing left to nack, and the command still succeeds.
Requeue ==
  /\ cli.pc = "requeue"
  /\ cli' = [cli EXCEPT !.pc = "running"]
  /\ \/ requeued' = requeued \cup {cli.id} /\ UNCHANGED <<unpublished, cliFaults>>
     \/ Fault /\ unpublished' = unpublished \cup {cli.id} /\ UNCHANGED requeued
  /\ UNCHANGED <<topics, poisoned, removed, commandsRun>>

\* Ten seconds are over: the router stops between two messages.
Timeout ==
  /\ cli.pc = "running"
  /\ cli' = [cli EXCEPT !.pc = "ended"]
  /\ UNCHANGED <<topics, ledger, commandsRun, cliFaults>>

\* The process is killed.
Crash ==
  /\ cli.pc # "ended"
  /\ Fault
  /\ cli' = [cli EXCEPT !.pc = "ended"]
  /\ unpublished' = IF cli.pc = "requeue" THEN unpublished \cup {cli.id} ELSE unpublished
  /\ UNCHANGED <<topics, poisoned, removed, requeued, commandsRun>>

-----------------------------------------------------------------------------
Init ==
  /\ queue = <<>>
  /\ offset = 0
  /\ poisoned = {}
  /\ removed = {}
  /\ requeued = {}
  /\ unpublished = {}
  /\ cli = [pc |-> "ended", name |-> "preview", id |-> NoMessage, first |-> NoMessage,
            done |-> FALSE, found |-> FALSE, listed |-> <<>>, atStart |-> {}]
  /\ commandsRun = 0
  /\ cliFaults = 0

RunCommand == Stop \/ Found \/ SeenAgain \/ PassOn \/ Republish \/ Ack \/ Requeue \/ Timeout

Next ==
  \/ \E m \in Messages : Poison(m)
  \/ Start("preview", NoMessage)
  \/ \E name \in {"remove", "requeue"}, id \in Messages : Start(name, id)
  \/ RunCommand
  \/ Crash

Spec == Init /\ [][Next]_vars

\* The router of a command that was started goes on; no command has to be started.
Fairness == WF_vars(RunCommand)

-----------------------------------------------------------------------------
(* Properties *)

\* Whatever fails, and whatever is added meanwhile, taking every message out of the queue
\* and putting it back loses none: a message waits, or it was removed or requeued by its
\* id, or requeue was stopped between its ack and its publication.
NothingIsLost ==
  poisoned \subseteq
    Pending \cup removed \cup requeued \cup unpublished
      \cup (IF cli.pc = "requeue" THEN {cli.id} ELSE {})

\* While nothing fails, what a command reports is true, although messages are added while
\* it runs: a preview that was not timed out lists everything that was there when it
\* began, nothing twice; what was found is gone; what was not found was not there.
ReportsAreTrue ==
  cli.pc = "ended" /\ cliFaults = 0 =>
    /\ cli.name = "preview" /\ cli.done =>
         cli.atStart \subseteq Range(cli.listed) /\ IsInjective(cli.listed)
    /\ cli.found => cli.id \notin Pending
    /\ cli.name # "preview" /\ cli.done /\ ~cli.found => cli.id \notin cli.atStart

\* A command ends, although it publishes what it will read again and others add to it.
CommandsEnd == cli.pc = "running" ~> cli.pc = "ended"

=============================================================================
