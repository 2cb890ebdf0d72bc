-------------------------- MODULE ServerDirectory --------------------------
(***************************************************************************)
(* What a launcher promises the matchmaking servers connected to it:       *)
(* servers are only ever added, a server is announced once it runs, and a  *)
(* list names every server that runs.  Module Launcher implements this     *)
(* as long as no spawn runs beside another handler.                        *)
(***************************************************************************)
EXTENDS Integers, Sequences

CONSTANTS
  Links,       \* the connections of matchmaking servers
  Servers,     \* the game servers that can be spawned
  RequestIds   \* the ids a matchmaking server numbers its requests with

VARIABLES
  running,     \* the servers that run
  replies      \* per link, the messages sent to its matchmaking server

vars == <<running, replies>>

Spawned(id, s) == [kind |-> "ServerSpawned", id |-> id, server |-> s]
Listing(id, S) == [kind |-> "SendGameServers", id |-> id, servers |-> S]

Init == running \subseteq Servers /\ replies = [l \in Links |-> << >>]

Spawn ==
  /\ \E s \in Servers \ running : running' = running \cup {s}
  /\ UNCHANGED replies

\* Requests are answered in the order in which they were numbered.
Newer(l, id) == \A k \in DOMAIN replies[l] : replies[l][k].id < id

Announce(l) ==
  /\ \E s \in running, id \in RequestIds :
       /\ Newer(l, id)
       /\ replies' = [replies EXCEPT ![l] = Append(@, Spawned(id, s))]
  /\ UNCHANGED running

List(l) ==
  /\ \E id \in RequestIds :
       /\ Newer(l, id)
       /\ replies' = [replies EXCEPT ![l] = Append(@, Listing(id, running))]
  /\ UNCHANGED running

Next == Spawn \/ \E l \in Links : Announce(l) \/ List(l)

Spec == Init /\ [][Next]_vars
=============================================================================
