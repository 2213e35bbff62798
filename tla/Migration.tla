----------------------------- MODULE Migration ------------------------------
(***************************************************************************)
(* MigrateToReadBookingReadModel (project/migrations): the events of the   *)
(* data lake are replayed into the read model of a booking, one after      *)
(* another.  published_at is never set in the data lake: ORDER BY          *)
(* published_at gives the events in any order, another one in every run.   *)
(* The first event that cannot be applied ends the run; what was applied   *)
(* before stays, and the next run replays everything.                      *)
(*                                                                         *)
(* The handlers of the read model are those of OpsReadModel; each is one   *)
(* step here, as nothing runs beside the migration.                        *)
(***************************************************************************)
EXTENDS Integers

CONSTANTS
  LakeEvents, \* what may be stored: [kind, ticket, version]; the ticket of "made" is void
  MaxRuns,    \* bound: runs of the migration
  MaxFaults   \* bound: failing calls and crashes

VARIABLES
  lake,         \* the table events
  migration,    \* the last run: "none", "waiting", "running", "done" or "failed"
  replayed,     \* the events it has read
  todo,         \* those it has still to apply
  shown,        \* the payload of the read model: <<kind, ticket>>, with "made" for the row
  runs,         \* runs so far (bounds the model)
  migrationFaults \* faults so far (bounds the model)

vars == <<lake, migration, replayed, todo, shown, runs, migrationFaults>>

FactOf(e) == <<e.kind, e.ticket>>
AllFacts == {FactOf(e) : e \in LakeEvents}

TypeOK ==
  /\ lake \subseteq LakeEvents
  /\ migration \in {"none", "waiting", "running", "done", "failed"}
  /\ replayed \subseteq lake
  /\ todo \subseteq replayed
  /\ shown \subseteq AllFacts
  /\ runs \in 0..MaxRuns
  /\ migrationFaults \in 0..MaxFaults

Fault == migrationFaults < MaxFaults /\ migrationFaults' = migrationFaults + 1

-----------------------------------------------------------------------------
\* The service stores an event; a second copy changes nothing.
Store(e) ==
  /\ lake' = lake \cup {e}
  /\ UNCHANGED <<migration, replayed, todo, shown, runs, migrationFaults>>

Start ==
  /\ migration \notin {"waiting", "running"}
  /\ runs < MaxRuns
  /\ runs' = runs + 1
  /\ migration' = "waiting"
  /\ replayed' = {} /\ todo' = {}
  /\ UNCHANGED <<lake, shown, migrationFaults>>

\* The data lake is read until it has events.
GetAll ==
  /\ migration = "waiting"
  /\ lake # {}
  /\ migration' = "running"
  /\ replayed' = lake /\ todo' = lake
  /\ UNCHANGED <<lake, shown, runs, migrationFaults>>

\* Nothing for ten seconds, or an error of the database.
GetAllFails ==
  /\ migration = "waiting"
  /\ \/ lake = {} /\ UNCHANGED migrationFaults
     \/ Fault
  /\ migration' = "failed"
  /\ UNCHANGED <<lake, replayed, todo, shown, runs>>

\* Only the names of version 0 are known.
Known(e) == e.version = "v0"

\* Mutant: an event of a ticket creates what it does not find.
Found_Always(e) == TRUE

\* A confirmation needs the row of its booking, another event needs its ticket.
Found(e) ==
  CASE e.kind = "made"      -> TRUE
    [] e.kind = "confirmed" -> \E fact \in shown : fact[1] = "made"
    [] OTHER                -> <<"confirmed", e.ticket>> \in shown

MigrateEvent(e) ==
  /\ migration = "running"
  /\ e \in todo
  /\ Known(e) /\ Found(e)
  /\ shown' = shown \cup {FactOf(e)}
  /\ todo' = todo \ {e}
  /\ UNCHANGED <<lake, migration, replayed, runs, migrationFaults>>

\* The run ends with an error: the event has an unknown name, comes before the event it
\* builds on, or its handler fails, before or after it has changed the read model.
MigrateFails(e) ==
  /\ migration = "running"
  /\ e \in todo
  /\ \/ /\ ~Known(e) \/ ~Found(e)
        /\ UNCHANGED <<shown, migrationFaults>>
     \/ /\ Known(e) /\ Found(e)
        /\ Fault
        /\ shown' \in {shown, shown \cup {FactOf(e)}}
  /\ migration' = "failed"
  /\ UNCHANGED <<lake, replayed, todo, runs>>

Finish ==
  /\ migration = "running"
  /\ todo = {}
  /\ migration' = "done"
  /\ UNCHANGED <<lake, replayed, todo, shown, runs, migrationFaults>>

-----------------------------------------------------------------------------
Init ==
  /\ lake = {}
  /\ migration = "none"
  /\ replayed = {}
  /\ todo = {}
  /\ shown = {}
  /\ runs = 0
  /\ migrationFaults = 0

Next ==
  \/ \E e \in LakeEvents : Store(e) \/ MigrateEvent(e) \/ MigrateFails(e)
  \/ Start \/ GetAll \/ GetAllFails \/ Finish

Spec == Init /\ [][Next]_vars

-----------------------------------------------------------------------------
(* Properties *)

\* In whatever order the events come, and however many runs end in an error half-way, the
\* read model shows no ticket without its booking and nothing of a ticket without its
\* confirmation, and nothing that is not in the data lake.
ReplayIsTruthful ==
  \A fact \in shown :
    /\ \E e \in lake : FactOf(e) = fact
    /\ fact[1] # "made" => \E row \in shown : row[1] = "made"
    /\ fact[1] \notin {"made", "confirmed"} => <<"confirmed", fact[2]>> \in shown

\* A run that reports success has applied every event it has read, in one order or
\* another; so the data lake held no event of a version the migration does not know.
DoneIsComplete ==
  migration = "done" => \A e \in replayed : Known(e) /\ FactOf(e) \in shown

=============================================================================
