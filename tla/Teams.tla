------------------------------- MODULE Teams --------------------------------
(***************************************************************************)
(* 06-middlewares/01-add-middleware: POST /players stores a player in a    *)
(* map and publishes player_joined; OnPlayerJoined puts the player in a    *)
(* team, or makes one and returns team_created for the router to publish;  *)
(* OnTeamCreated asks the scoreboard API for a scoreboard.                 *)
(*                                                                         *)
(* A lock protects both maps, but it is given back before team_created is  *)
(* published.  When that fails, player_joined comes again and finds its    *)
(* team.  The maps are lost when the process restarts; the streams are     *)
(* not, and each of them is read in order by one consumer group.           *)
(***************************************************************************)
EXTENDS Naturals, Sequences, SequencesExt, FiniteSets

CONSTANTS
  Players,
  TeamOf,    \* the team in the request of a player
  MaxFaults  \* bound: calls that fail, acks that are lost, restarts

VARIABLES
  players,      \* the map of players
  teams,        \* the map of teams: [id, name, members]
  request,      \* of a player: "none", "stored", "accepted" or "failed"
  playerJoined, \* the stream player_joined: what is not acked
  teamCreated,  \* the stream team_created: what is not acked
  returned,     \* the team that OnPlayerJoined has returned to the router
  created,      \* the number of teams ever made
  unannounced,  \* the teams whose team_created was not published
  scoreboards,  \* the teams with a scoreboard
  restarts,     \* how often the maps were lost
  teamFaults    \* faults so far (bounds the model)

maps    == <<players, teams>>
streams == <<playerJoined, teamCreated>>
vars == <<maps, request, streams, returned, created, unannounced, scoreboards, restarts,
          teamFaults>>

\* A player that is not in the map has the zero value of a player: no name, no team.
Nobody   == "nobody"
EmptyName == ""
Names == {TeamOf[p] : p \in Players} \cup {EmptyName}
NoTeam == 0

TypeOK ==
  /\ players \subseteq Players
  /\ \A team \in teams :
       /\ team.id \in 1..created
       /\ team.name \in Names
       /\ ToSet(team.members) \subseteq Players \cup {Nobody}
  /\ request \in [Players -> {"none", "stored", "accepted", "failed"}]
  /\ playerJoined \in Seq(Players)
  /\ teamCreated \in Seq(1..created)
  /\ returned \in 0..created
  /\ unannounced \subseteq 1..created
  /\ scoreboards \subseteq 1..created
  /\ restarts + teamFaults \in 0..MaxFaults

Bounded == restarts + teamFaults < MaxFaults
Fault == Bounded /\ teamFaults' = teamFaults + 1

-----------------------------------------------------------------------------
(* POST /players *)

AddPlayer(p) ==
  /\ request[p] = "none"
  /\ request' = [request EXCEPT ![p] = "stored"]
  /\ players' = players \cup {p}
  /\ UNCHANGED <<teams, streams, returned, created, unannounced, scoreboards, restarts,
                 teamFaults>>

\* A publication that fails may have been made.
PublishPlayerJoined(p) ==
  /\ request[p] = "stored"
  /\ \/ /\ playerJoined' = Append(playerJoined, p)
        /\ request' = [request EXCEPT ![p] = "accepted"]
        /\ UNCHANGED teamFaults
     \/ /\ Fault
        /\ playerJoined' \in {playerJoined, Append(playerJoined, p)}
        /\ request' = [request EXCEPT ![p] = "failed"]
  /\ UNCHANGED <<maps, teamCreated, returned, created, unannounced, scoreboards, restarts>>

-----------------------------------------------------------------------------
(* OnPlayerJoined *)

\* The handler is done with the head of its stream: it is acked, unless that is lost.
Acked(stream) ==
  \/ stream' = Tail(stream) /\ UNCHANGED teamFaults
  \/ Fault /\ UNCHANGED stream

Offered == playerJoined # <<>> /\ returned = NoTeam
Joining == IF Head(playerJoined) \in players THEN Head(playerJoined) ELSE Nobody
NameOf(p) == IF p = Nobody THEN EmptyName ELSE TeamOf[p]
TeamsOf(p) == {team \in teams : team.name = NameOf(p)}

\* Mutant: the new member is put in a copy of the team.
FindTeam_Copy ==
  /\ Offered
  /\ TeamsOf(Joining) # {}
  /\ Acked(playerJoined)
  /\ UNCHANGED <<maps, request, teamCreated, returned, created, unannounced, scoreboards,
                 restarts>>

FindTeam ==
  /\ Offered
  /\ \E team \in TeamsOf(Joining) :
       teams' = (teams \ {team}) \cup {[team EXCEPT !.members = Append(@, Joining)]}
  /\ Acked(playerJoined)
  /\ UNCHANGED <<players, request, teamCreated, returned, created, unannounced, scoreboards,
                 restarts>>

CreateTeam ==
  /\ Offered
  /\ TeamsOf(Joining) = {}
  /\ created' = created + 1
  /\ teams' = teams \cup {[id |-> created + 1, name |-> NameOf(Joining), members |-> <<Joining>>]}
  /\ returned' = created + 1
  /\ UNCHANGED <<players, request, streams, unannounced, scoreboards, restarts, teamFaults>>

\* Mutant: the error of the publisher is ignored, and the message is acked.
PublishTeamCreated_NoError ==
  /\ returned # NoTeam
  /\ \/ teamCreated' = Append(teamCreated, returned) /\ UNCHANGED teamFaults
     \/ Fault /\ UNCHANGED teamCreated
  /\ playerJoined' = Tail(playerJoined)
  /\ returned' = NoTeam
  /\ UNCHANGED <<maps, request, created, unannounced, scoreboards, restarts>>

\* The router publishes team_created and then acks player_joined.  That the publication
\* fails although the event was made, and that the ack is lost, come to the same:
\* player_joined comes again.
PublishTeamCreated ==
  /\ returned # NoTeam
  /\ \/ /\ teamCreated' = Append(teamCreated, returned)
        /\ Acked(playerJoined)
        /\ UNCHANGED unannounced
     \/ /\ Fault
        /\ unannounced' = unannounced \cup {returned}
        /\ UNCHANGED streams
  /\ returned' = NoTeam
  /\ UNCHANGED <<maps, request, created, scoreboards, restarts>>

-----------------------------------------------------------------------------
(* OnTeamCreated *)

\* The scoreboard API may have made the scoreboard when its answer is an error.
OnTeamCreated ==
  /\ teamCreated # <<>>
  /\ \/ scoreboards' = scoreboards \cup {Head(teamCreated)} /\ Acked(teamCreated)
     \/ /\ Fault
        /\ scoreboards' \in {scoreboards, scoreboards \cup {Head(teamCreated)}}
        /\ UNCHANGED teamCreated
  /\ UNCHANGED <<maps, request, playerJoined, returned, created, unannounced, restarts>>

\* The maps are lost, and with them the requests that were not answered.
Restart ==
  /\ Bounded
  /\ restarts' = restarts + 1
  /\ players' = {}
  /\ teams' = {}
  /\ request' = [p \in Players |-> IF request[p] = "stored" THEN "failed" ELSE request[p]]
  /\ returned' = NoTeam
  /\ unannounced' = unannounced \cup ({returned} \ {NoTeam})
  /\ UNCHANGED <<streams, created, scoreboards, teamFaults>>

-----------------------------------------------------------------------------
Init ==
  /\ players = {}
  /\ teams = {}
  /\ request = [p \in Players |-> "none"]
  /\ playerJoined = <<>>
  /\ teamCreated = <<>>
  /\ returned = NoTeam
  /\ created = 0
  /\ unannounced = {}
  /\ scoreboards = {}
  /\ restarts = 0
  /\ teamFaults = 0

OnPlayerJoined == FindTeam \/ CreateTeam \/ PublishTeamCreated

Next ==
  \/ \E p \in Players : AddPlayer(p) \/ PublishPlayerJoined(p)
  \/ OnPlayerJoined
  \/ OnTeamCreated
  \/ Restart

Spec == Init /\ [][Next]_vars

\* Both handlers go on as long as their streams have messages.
Fairness == WF_vars(OnPlayerJoined) /\ WF_vars(OnTeamCreated)

-----------------------------------------------------------------------------
(* Properties *)

\* Until the maps are lost, every accepted player is in the team of the request once the
\* stream is handled, and nowhere else; teams with one name are one team.  A player is in
\* it twice only when a fault brought player_joined again.
PlayersAreInTheirTeam ==
  restarts = 0 =>
    /\ \A a, b \in teams : a.name = b.name => a = b
    /\ \A team \in teams : \A p \in ToSet(team.members) : NameOf(p) = team.name
    /\ \A p \in Players :
         LET times(team) == Cardinality({i \in DOMAIN team.members : team.members[i] = p})
             handled == request[p] = "accepted" /\ p \notin ToSet(playerJoined)
         IN  /\ handled => \E team \in teams : times(team) >= 1
             /\ \A team \in teams : times(team) <= 1 + teamFaults

\* A team gets its scoreboard in the end, unless its event could not be published: then
\* its first player joins again, finds the team, and nobody announces it any more.
ScoreboardsArrive ==
  []<>(\A id \in 1..created : id \in scoreboards \cup unannounced)

=============================================================================
