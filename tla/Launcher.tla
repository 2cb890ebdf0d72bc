------------------------------ MODULE Launcher ------------------------------
(***************************************************************************)
(* The game launcher (src/gamelauncher/game_server_launcher.go).  Every    *)
(* connected matchmaking server has a goroutine that reads a request and   *)
(* handles it to the end; the goroutines share nextServerId and the map    *)
(* GameServers without a lock, so a handler is split at each access.       *)
(*                                                                         *)
(* The game servers run in the same process.  Both handlers ask servers    *)
(* for their number of players, that is, range over a map that players who *)
(* join write; and the end of one server is the end of the launcher.       *)
(*                                                                         *)
(* A game server is the number of the SpawnServer call that started it.    *)
(***************************************************************************)
EXTENDS Integers, Sequences, FiniteSets, Functions

CONSTANTS
  Links,          \* the connections of matchmaking servers
  AtStart,        \* servers spawned before the launcher listens (cmd/launcher: 5)
  MaxServers,     \* bound: servers spawned in all
  MaxRequests,    \* bound: requests handled per link
  MaxJoins,       \* bound: servers a player joins, at the same time
  ChanCap         \* bound: replies waiting for one link's writer

ASSUME LauncherAssumption ==
  /\ AtStart \in Nat /\ MaxServers \in Nat /\ AtStart <= MaxServers
  /\ MaxRequests \in Nat /\ MaxJoins \in Nat /\ ChanCap \in Nat \ {0}

Servers == 1 .. MaxServers
RequestIds == 1 .. MaxRequests

VARIABLES
  nextServerId,
  GameServers,    \* the map: id -> server
  spawned,        \* the number of servers started
  handler,        \* per link: the handler its reader goroutine is in
  open,           \* per link: whether it is connected
  asked,          \* per link: requests handled so far; they carry the ids 1, 2, ...
  replies,        \* per link: the replies handed to SendMessage
  waiting,        \* per link: how many of them its writer has not written
  joining,        \* servers with a connection that is not in their map players yet
  fault,          \* what stopped the launcher, with all its game servers
  overlap         \* history: a spawn ran beside another handler

vars == <<nextServerId, GameServers, spawned, handler, open, asked, replies, waiting,
          joining, fault, overlap>>

\* An index out of range, two goroutines in the map GameServers, two in the map
\* players of a game server, or what a game server does to itself.
Faults == {"none", "index", "servers", "players", "game"}

Idle == [pc |-> "idle"]

Init ==
  /\ nextServerId = AtStart
  /\ GameServers = [i \in 0 .. AtStart - 1 |-> i + 1]
  /\ spawned = AtStart
  /\ handler = [l \in Links |-> Idle]
  /\ open = [l \in Links |-> FALSE]
  /\ asked = [l \in Links |-> 0]
  /\ replies = [l \in Links |-> << >>]
  /\ waiting = [l \in Links |-> 0]
  /\ joining = {}
  /\ fault = "none"
  /\ overlap = FALSE

Goto(l, h) == handler' = [handler EXCEPT ![l] = h]

\* GameLauncher.Loop accepts a matchmaking server.
Accept(l) ==
  /\ ~open[l]
  /\ asked[l] = 0
  /\ open' = [open EXCEPT ![l] = TRUE]
  /\ UNCHANGED <<nextServerId, GameServers, spawned, handler, asked, replies, waiting,
                 joining, fault, overlap>>

\* A handler that is inside SpawnNewGameServer.
Entering(l) == handler[l].pc \in {"spawn", "store", "load", "increment"}

\* The reader takes a request; id is the request id that came with it.
Read(l, pc) ==
  /\ open[l]
  /\ handler[l] = Idle
  /\ asked[l] < MaxRequests
  /\ asked' = [asked EXCEPT ![l] = @ + 1]
  /\ Goto(l, [pc |-> pc, id |-> asked[l] + 1])
  /\ overlap' = (overlap \/ \E k \in Links \ {l} :
                   \/ Entering(k)
                   \/ pc = "spawn" /\ handler[k] # Idle)
  /\ UNCHANGED <<nextServerId, GameServers, spawned, open, replies, waiting, joining,
                 fault>>

ReadSpawnServerRequest(l) == Read(l, "spawn")
ReadGetGameServers(l) == Read(l, "make")

\* An error of the handler ends the reader, which closes the connection.
Close(l) ==
  /\ Goto(l, Idle)
  /\ open' = [open EXCEPT ![l] = FALSE]

(***************************************************************************)
(* SpawnNewGameServer.                                                     *)
(***************************************************************************)
\* server.SpawnServer listens on a port the system picks, or fails.
SpawnServer(l) ==
  /\ handler[l].pc = "spawn"
  /\ spawned < MaxServers
  /\ spawned' = spawned + 1
  /\ Goto(l, [pc |-> "store", id |-> handler[l].id, server |-> spawned + 1])
  /\ UNCHANGED <<nextServerId, GameServers, open, asked, replies, waiting, joining, fault,
                 overlap>>

SpawnFails(l) ==
  /\ handler[l].pc = "spawn"
  /\ Close(l)
  /\ UNCHANGED <<nextServerId, GameServers, spawned, asked, replies, waiting, joining,
                 fault, overlap>>

\* Mutant: the key is the length of the map plus one.
FreeIdOffByOne == Cardinality(DOMAIN GameServers) + 1

FreeId == nextServerId

StoreServer(l) ==
  /\ handler[l].pc = "store"
  /\ GameServers' = [i \in DOMAIN GameServers \cup {FreeId} |->
                       IF i = FreeId THEN handler[l].server ELSE GameServers[i]]
  /\ Goto(l, [handler[l] EXCEPT !.pc = "load"])
  /\ UNCHANGED <<nextServerId, spawned, open, asked, replies, waiting, joining, fault,
                 overlap>>

\* nextServerId++ is a load and a store.
LoadId(l) ==
  /\ handler[l].pc = "load"
  /\ Goto(l, [pc |-> "increment", id |-> handler[l].id, server |-> handler[l].server,
              next |-> nextServerId])
  /\ UNCHANGED <<nextServerId, GameServers, spawned, open, asked, replies, waiting, joining,
                 fault, overlap>>

\* Mutant: the id is not advanced.
NextIdSame(h) == h.next

NextId(h) == h.next + 1

StoreId(l) ==
  /\ handler[l].pc = "increment"
  /\ nextServerId' = NextId(handler[l])
  /\ Goto(l, [pc |-> "info", id |-> handler[l].id, server |-> handler[l].server])
  /\ UNCHANGED <<GameServers, spawned, open, asked, replies, waiting, joining, fault,
                 overlap>>

\* The handler goes on: server.GetServerInfo() for the announcement.
GetServerInfo(l) ==
  /\ handler[l].pc = "info"
  /\ Goto(l, [pc |-> "reply", msg |-> [kind |-> "ServerSpawned", id |-> handler[l].id,
                                       server |-> handler[l].server]])
  /\ UNCHANGED <<nextServerId, GameServers, spawned, open, asked, replies, waiting, joining,
                 fault, overlap>>

(***************************************************************************)
(* The handler of GetGameServers: a slice of the map's length, filled at   *)
(* the index of each key while ranging over the map.                       *)
(***************************************************************************)
MakeInfos(l) ==
  /\ handler[l].pc = "make"
  /\ Goto(l, [pc |-> "fill", id |-> handler[l].id, len |-> Cardinality(DOMAIN GameServers)])
  /\ UNCHANGED <<nextServerId, GameServers, spawned, open, asked, replies, waiting, joining,
                 fault, overlap>>

\* GetServerInfo of each server; an id that is no index of the slice is a panic.
FillInfos(l) ==
  /\ handler[l].pc = "fill"
  /\ IF \A i \in DOMAIN GameServers : i < handler[l].len
     THEN /\ Goto(l, [pc |-> "reply", msg |-> [kind |-> "SendGameServers", id |-> handler[l].id,
                                               servers |-> Range(GameServers)]])
          /\ UNCHANGED fault
     ELSE fault' = "index" /\ UNCHANGED handler
  /\ UNCHANGED <<nextServerId, GameServers, spawned, open, asked, replies, waiting, joining,
                 overlap>>

Room(l) == waiting[l] < ChanCap

\* Mutant: the send waits for room.
SendReplyBlocking(l) ==
  /\ handler[l].pc = "reply"
  /\ Room(l)
  /\ replies' = [replies EXCEPT ![l] = Append(@, handler[l].msg)]
  /\ waiting' = [waiting EXCEPT ![l] = @ + 1]
  /\ Goto(l, Idle)
  /\ UNCHANGED <<nextServerId, GameServers, spawned, open, asked, joining, fault, overlap>>

\* Both handlers return the error of SendMessage: a full channel closes the
\* connection.
SendReply(l) ==
  /\ handler[l].pc = "reply"
  /\ IF Room(l)
     THEN /\ replies' = [replies EXCEPT ![l] = Append(@, handler[l].msg)]
          /\ waiting' = [waiting EXCEPT ![l] = @ + 1]
          /\ Goto(l, Idle)
          /\ UNCHANGED open
     ELSE /\ Close(l)
          /\ UNCHANGED <<replies, waiting>>
  /\ UNCHANGED <<nextServerId, GameServers, spawned, asked, joining, fault, overlap>>

Write(l) ==
  /\ waiting[l] > 0
  /\ waiting' = [waiting EXCEPT ![l] = @ - 1]
  /\ UNCHANGED <<nextServerId, GameServers, spawned, handler, open, asked, replies, joining,
                 fault, overlap>>

(***************************************************************************)
(* Players of the game servers, and what stops the process.                *)
(***************************************************************************)
\* playerAcceptLoop starts handleNewConnection ...
PlayerConnects(s) ==
  /\ s <= spawned /\ s \notin joining
  /\ Cardinality(joining) < MaxJoins
  /\ joining' = joining \cup {s}
  /\ UNCHANGED <<nextServerId, GameServers, spawned, handler, open, asked, replies, waiting,
                 fault, overlap>>

\* ... which writes the player into the map players, or fails before it does.
PlayerJoins(s) ==
  /\ s \in joining
  /\ joining' = joining \ {s}
  /\ UNCHANGED <<nextServerId, GameServers, spawned, handler, open, asked, replies, waiting,
                 fault, overlap>>

\* The servers whose map players a handler ranges over.
Counts(l) ==
  CASE handler[l].pc = "info" -> {handler[l].server}
    [] handler[l].pc = "fill" -> Range(GameServers)
    [] OTHER                  -> {}

\* The runtime stops the process when it notices two goroutines in a map, one of
\* which writes: in GameServers, or in the map players of a game server.
MapRace ==
  /\ \/ /\ \E l, k \in Links :
             l # k /\ handler[l].pc = "store" /\ handler[k].pc \in {"store", "fill"}
        /\ fault' = "servers"
     \/ /\ \E l \in Links : Counts(l) \cap joining # {}
        /\ fault' = "players"
  /\ UNCHANGED <<nextServerId, GameServers, spawned, handler, open, asked, replies, waiting,
                 joining, overlap>>

\* A game server stops the process by itself, at any time: module GameServer
\* says when.
GameServerDies ==
  /\ spawned > 0
  /\ fault' = "game"
  /\ UNCHANGED <<nextServerId, GameServers, spawned, handler, open, asked, replies, waiting,
                 joining, overlap>>

Handle(l) ==
  \/ SpawnServer(l) \/ SpawnFails(l) \/ StoreServer(l) \/ LoadId(l) \/ StoreId(l)
  \/ GetServerInfo(l) \/ MakeInfos(l) \/ FillInfos(l) \/ SendReply(l)

Next ==
  /\ fault = "none"
  /\ \/ \E l \in Links : \/ Accept(l) \/ ReadSpawnServerRequest(l) \/ ReadGetGameServers(l)
                         \/ Handle(l) \/ Write(l)
     \/ \E s \in Servers : PlayerConnects(s) \/ PlayerJoins(s)
     \/ MapRace
     \/ GameServerDies

Spec == Init /\ [][Next]_vars /\ \A l \in Links : WF_vars(fault = "none" /\ Handle(l))

-----------------------------------------------------------------------------
(***************************************************************************)
(* Properties.                                                             *)
(***************************************************************************)
\* Types; a reply waiting for the writer was handed to it.
TypeOK ==
  /\ nextServerId \in Nat
  /\ DOMAIN GameServers \subseteq Nat /\ Range(GameServers) \subseteq Servers
  /\ spawned \in AtStart .. MaxServers
  /\ joining \subseteq 1 .. spawned /\ fault \in Faults
  /\ \A l \in Links : /\ waiting[l] \in 0 .. ChanCap
                      /\ waiting[l] <= Len(replies[l])
                      /\ Len(replies[l]) <= asked[l]

\* As long as no spawn ran beside another handler, the ids in use are
\* 0 .. nextServerId - 1 whenever no server is being entered: the handler of
\* GetGameServers indexes a slice with them.
IdsContiguous ==
  ~overlap /\ (\A l \in Links : ~Entering(l)) => DOMAIN GameServers = 0 .. nextServerId - 1

\* ... so that no id is out of range, however lists run beside each other and
\* whatever spawns failed before, and no two handlers are in the map with one of
\* them writing.  What is left to stop the launcher are its game servers: their
\* own faults, and a player who joins one while its players are counted ...
NoPanic == ~overlap => fault \notin {"index", "servers"}

\* ... and a server that was announced stays in the map, under one id only:
\* nothing overwrites it and it is listed once.
AnnouncedStay ==
  ~overlap => \A l \in Links : \A k \in DOMAIN replies[l] :
    replies[l][k].kind = "ServerSpawned" =>
      Cardinality({i \in DOMAIN GameServers : GameServers[i] = replies[l][k].server}) = 1

\* The launcher implements ServerDirectory until, if ever, a spawn runs beside
\* another handler; with one matchmaking server none does.
Directory == INSTANCE ServerDirectory WITH running <- Range(GameServers)

ImplementsDirectory ==
  Directory!Init /\ [][Directory!Next \/ overlap']_<<GameServers, replies>>

\* A request is answered, unless its connection is closed or the launcher dies.
Answered == \A l \in Links : <>[](fault # "none" \/ handler[l] = Idle)
=============================================================================
