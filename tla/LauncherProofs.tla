--------------------------- MODULE LauncherProofs ---------------------------
(***************************************************************************)
(* The safety properties of module Launcher, for any set of links and any  *)
(* bounds, and that the launcher implements ServerDirectory until a spawn  *)
(* runs beside another handler.                                            *)
(***************************************************************************)
EXTENDS Launcher, FiniteSetTheorems, TLAPS

-----------------------------------------------------------------------------
(***************************************************************************)
(* Types.                                                                  *)
(***************************************************************************)
Msgs == [kind : {"ServerSpawned"}, id : RequestIds, server : Servers]
          \cup [kind : {"SendGameServers"}, id : RequestIds, servers : SUBSET Servers]

Fresh   == [pc : {"spawn", "make"}, id : RequestIds]
Entered == [pc : {"store", "load", "info"}, id : RequestIds, server : Servers]
Loaded  == [pc : {"increment"}, id : RequestIds, server : Servers, next : Nat]
Filling == [pc : {"fill"}, id : RequestIds, len : Nat]
Ready   == [pc : {"reply"}, msg : Msgs]

Handlers == {Idle} \cup Fresh \cup Entered \cup Loaded \cup Filling \cup Ready

\* What TypeOK says of the map, the ids and the servers.
MapTyped ==
  /\ nextServerId \in Nat /\ spawned \in AtStart .. MaxServers
  /\ IsFiniteSet(DOMAIN GameServers) /\ DOMAIN GameServers \subseteq Nat
  /\ \A i \in DOMAIN GameServers : GameServers[i] \in Servers
  /\ overlap \in BOOLEAN /\ fault \in Faults /\ joining \subseteq 1 .. spawned

\* What it says of the links.  A handler holds a request that was counted and
\* not answered yet.
LinksTyped ==
  /\ handler \in [Links -> Handlers]
  /\ open \in [Links -> BOOLEAN]
  /\ asked \in [Links -> 0 .. MaxRequests]
  /\ replies \in [Links -> Seq(Msgs)]
  /\ waiting \in [Links -> 0 .. ChanCap]
  /\ \A l \in Links : /\ waiting[l] <= Len(replies[l])
                      /\ Len(replies[l]) <= asked[l]
                      /\ handler[l] # Idle => Len(replies[l]) < asked[l]

Typed == MapTyped /\ LinksTyped

\* The place of a handler tells its fields.
LEMMA HandlerFields ==
  ASSUME NEW h \in Handlers
  PROVE  /\ h.pc \in {"spawn", "make"} => h \in Fresh
         /\ h.pc \in {"store", "load", "info"} => h \in Entered
         /\ h.pc = "increment" => h \in Loaded
         /\ h.pc = "fill" => h \in Filling
         /\ h.pc = "reply" => h \in Ready
         /\ h = Idle <=> h.pc = "idle"
BY DEF Handlers, Idle, Fresh, Entered, Loaded, Filling, Ready

LEMMA InitTyped == Init => Typed
<1> SUFFICES ASSUME Init PROVE Typed
  OBVIOUS
<1> USE LauncherAssumption DEF Init
<1>1. DOMAIN GameServers = 0 .. AtStart - 1
  OBVIOUS
<1>2. IsFiniteSet(DOMAIN GameServers)
  BY <1>1, FS_Interval
<1>3. MapTyped
  <2>1. \A i \in DOMAIN GameServers : GameServers[i] = i + 1 /\ i \in Nat /\ i + 1 \in Servers
    BY <1>1 DEF Servers
  <2>2. nextServerId \in Nat /\ spawned \in AtStart .. MaxServers
    OBVIOUS
  <2>3. overlap \in BOOLEAN /\ fault \in Faults /\ joining \subseteq 1 .. spawned
    BY DEF Faults
  <2>4. QED
    BY <1>2, <2>1, <2>2, <2>3 DEF MapTyped
<1>4. LinksTyped
  <2>1. \A l \in Links : replies[l] = << >> /\ waiting[l] = 0 /\ handler[l] = Idle
    OBVIOUS
  <2>2. << >> \in Seq(Msgs) /\ Len(<< >>) = 0
    OBVIOUS
  <2>3. /\ handler \in [Links -> Handlers] /\ open \in [Links -> BOOLEAN]
        /\ asked \in [Links -> 0 .. MaxRequests] /\ waiting \in [Links -> 0 .. ChanCap]
    BY DEF Handlers
  <2>4. replies \in [Links -> Seq(Msgs)]
    BY <2>2
  <2>5. QED
    BY <2>1, <2>2, <2>3, <2>4 DEF LinksTyped
<1>5. QED
  BY <1>3, <1>4 DEF Typed

\* A step of a handler that sends nothing.
LEMMA GotoTyped ==
  ASSUME LinksTyped, NEW l \in Links, handler[l] # Idle, NEW h \in Handlers,
         Goto(l, h), UNCHANGED <<open, asked, replies, waiting>>
  PROVE  LinksTyped'
BY DEF LinksTyped, Goto

\* The connection is closed.
LEMMA CloseTyped ==
  ASSUME LinksTyped, NEW l \in Links, Close(l), UNCHANGED <<asked, replies, waiting>>
  PROVE  LinksTyped'
BY DEF LinksTyped, Close, Goto, Handlers

LEMMA RequestTyped ==
  ASSUME Typed, NEW l \in Links,
         Accept(l) \/ ReadSpawnServerRequest(l) \/ ReadGetGameServers(l)
  PROVE  Typed'
<1> USE DEF Typed
<1>1. CASE Accept(l)
  BY <1>1 DEF Accept, MapTyped, LinksTyped
<1>2. ASSUME NEW pc \in {"spawn", "make"}, Read(l, pc) PROVE Typed'
  <2> DEFINE h == [pc |-> pc, id |-> asked[l] + 1]
  <2>1. asked[l] + 1 \in 1 .. MaxRequests
    BY <1>2, LauncherAssumption DEF Read, LinksTyped
  <2>2. h \in Handlers
    BY <2>1 DEF Handlers, Fresh, RequestIds
  <2>3. MapTyped'
    BY <1>2 DEF Read, MapTyped
  <2>4. LinksTyped'
    BY <1>2, <2>1, <2>2 DEF Read, LinksTyped, Goto
  <2>5. QED
    BY <2>3, <2>4
<1>3. QED
  BY <1>1, <1>2 DEF ReadSpawnServerRequest, ReadGetGameServers

LEMMA SpawnTyped ==
  ASSUME Typed, NEW l \in Links,
         SpawnServer(l) \/ SpawnFails(l) \/ StoreServer(l) \/ LoadId(l) \/ StoreId(l)
  PROVE  Typed'
<1> USE DEF Typed
<1>1. handler[l] \in Handlers /\ (handler[l].pc # "idle" => handler[l] # Idle)
  BY HandlerFields DEF LinksTyped
<1>2. CASE SpawnServer(l)
  <2>1. handler[l] \in Fresh /\ spawned + 1 \in Servers
    BY <1>1, <1>2, HandlerFields, LauncherAssumption DEF SpawnServer, MapTyped, Servers
  <2>2. [pc |-> "store", id |-> handler[l].id, server |-> spawned + 1] \in Handlers
    BY <2>1 DEF Fresh, Entered, Handlers
  <2>3. LinksTyped'
    BY <1>1, <1>2, <2>2, GotoTyped DEF SpawnServer
  <2>4. MapTyped'
    BY <1>2, LauncherAssumption DEF SpawnServer, MapTyped
  <2>5. QED
    BY <2>3, <2>4
<1>3. CASE SpawnFails(l)
  BY <1>3, CloseTyped DEF SpawnFails, MapTyped
<1>4. CASE StoreServer(l)
  <2>1. handler[l] \in Entered
    BY <1>1, <1>4, HandlerFields DEF StoreServer
  <2>2. [handler[l] EXCEPT !.pc = "load"] \in Handlers
    BY <2>1 DEF Entered, Handlers
  <2>3. LinksTyped'
    BY <1>1, <1>4, <2>2, GotoTyped DEF StoreServer
  <2>4. IsFiniteSet(DOMAIN GameServers \cup {nextServerId})
    BY FS_AddElement DEF MapTyped
  <2>5. MapTyped'
    BY <1>4, <2>1, <2>4 DEF StoreServer, FreeId, MapTyped, Entered
  <2>6. QED
    BY <2>3, <2>5
<1>5. CASE LoadId(l)
  <2>1. handler[l] \in Entered
    BY <1>1, <1>5, HandlerFields DEF LoadId
  <2>2. [pc |-> "increment", id |-> handler[l].id, server |-> handler[l].server,
         next |-> nextServerId] \in Handlers
    BY <2>1 DEF Entered, Loaded, Handlers, MapTyped
  <2>3. LinksTyped'
    BY <1>1, <1>5, <2>2, GotoTyped DEF LoadId
  <2>4. MapTyped'
    BY <1>5 DEF LoadId, MapTyped
  <2>5. QED
    BY <2>3, <2>4
<1>6. CASE StoreId(l)
  <2>1. handler[l] \in Loaded
    BY <1>1, <1>6, HandlerFields DEF StoreId
  <2>2. [pc |-> "info", id |-> handler[l].id, server |-> handler[l].server] \in Handlers
    BY <2>1 DEF Loaded, Entered, Handlers
  <2>3. LinksTyped'
    BY <1>1, <1>6, <2>2, GotoTyped DEF StoreId
  <2>4. MapTyped'
    BY <1>6, <2>1 DEF StoreId, NextId, MapTyped, Loaded
  <2>5. QED
    BY <2>3, <2>4
<1>7. QED
  BY <1>2, <1>3, <1>4, <1>5, <1>6

LEMMA ListTyped ==
  ASSUME Typed, NEW l \in Links, GetServerInfo(l) \/ MakeInfos(l) \/ FillInfos(l)
  PROVE  Typed'
<1> USE DEF Typed
<1>1. handler[l] \in Handlers /\ (handler[l].pc # "idle" => handler[l] # Idle)
  BY HandlerFields DEF LinksTyped
<1>2. CASE MakeInfos(l)
  <2>1. handler[l] \in Fresh
    BY <1>1, <1>2, HandlerFields DEF MakeInfos
  <2>2. Cardinality(DOMAIN GameServers) \in Nat
    BY FS_CardinalityType DEF MapTyped
  <2>3. [pc |-> "fill", id |-> handler[l].id,
         len |-> Cardinality(DOMAIN GameServers)] \in Handlers
    BY <2>1, <2>2 DEF Fresh, Filling, Handlers
  <2>4. LinksTyped'
    BY <1>1, <1>2, <2>3, GotoTyped DEF MakeInfos
  <2>5. MapTyped'
    BY <1>2 DEF MakeInfos, MapTyped
  <2>6. QED
    BY <2>4, <2>5
<1>3. CASE FillInfos(l)
  <2>1. handler[l] \in Filling
    BY <1>1, <1>3, HandlerFields DEF FillInfos
  <2> DEFINE m == [kind |-> "SendGameServers", id |-> handler[l].id,
                   servers |-> Range(GameServers)]
  <2>2. m \in Msgs
    BY <2>1 DEF Filling, Msgs, Range, MapTyped
  <2>3. [pc |-> "reply", msg |-> m] \in Handlers
    BY <2>2 DEF Ready, Handlers
  <2>4. MapTyped'
    BY <1>3 DEF FillInfos, MapTyped, Faults
  <2>5. CASE Goto(l, [pc |-> "reply", msg |-> m])
    BY <1>1, <1>3, <2>3, <2>4, <2>5, GotoTyped DEF FillInfos
  <2>6. CASE UNCHANGED handler
    BY <1>3, <2>4, <2>6 DEF FillInfos, LinksTyped
  <2>7. QED
    BY <1>3, <2>5, <2>6 DEF FillInfos
<1>4. CASE GetServerInfo(l)
  <2>1. handler[l] \in Entered
    BY <1>1, <1>4, HandlerFields DEF GetServerInfo
  <2>2. [kind |-> "ServerSpawned", id |-> handler[l].id, server |-> handler[l].server] \in Msgs
    BY <2>1 DEF Entered, Msgs
  <2>3. [pc |-> "reply", msg |-> [kind |-> "ServerSpawned", id |-> handler[l].id,
                                  server |-> handler[l].server]] \in Handlers
    BY <2>2 DEF Ready, Handlers
  <2>4. LinksTyped'
    BY <1>1, <1>4, <2>3, GotoTyped DEF GetServerInfo
  <2>5. MapTyped'
    BY <1>4 DEF GetServerInfo, MapTyped
  <2>6. QED
    BY <2>4, <2>5
<1>5. QED
  BY <1>2, <1>3, <1>4

LEMMA SendTyped ==
  ASSUME Typed, NEW l \in Links, SendReply(l) \/ Write(l)
  PROVE  Typed'
<1> USE DEF Typed
<1>1. handler[l] \in Handlers /\ (handler[l].pc # "idle" => handler[l] # Idle)
  BY HandlerFields DEF LinksTyped
<1>2. MapTyped'
  BY DEF SendReply, Write, MapTyped
<1>3. CASE SendReply(l) /\ Room(l)
  <2>1. handler[l].msg \in Msgs
    BY <1>1, <1>3, HandlerFields DEF SendReply, Ready
  <2>2. /\ replies' = [replies EXCEPT ![l] = Append(@, handler[l].msg)]
        /\ waiting' = [waiting EXCEPT ![l] = @ + 1]
        /\ handler' = [handler EXCEPT ![l] = Idle]
        /\ UNCHANGED <<open, asked>>
        /\ waiting[l] < ChanCap /\ handler[l] # Idle
    BY <1>1, <1>3 DEF SendReply, Room, Goto
  <2>3. /\ Append(replies[l], handler[l].msg) \in Seq(Msgs)
        /\ Len(Append(replies[l], handler[l].msg)) = Len(replies[l]) + 1
    BY <2>1 DEF LinksTyped
  <2>4. LinksTyped'
    BY <2>2, <2>3, LauncherAssumption DEF LinksTyped, Handlers
  <2>5. QED
    BY <1>2, <2>4
<1>4. CASE SendReply(l) /\ ~Room(l)
  BY <1>2, <1>4, CloseTyped DEF SendReply
<1>5. CASE Write(l)
  BY <1>2, <1>5, LauncherAssumption DEF Write, LinksTyped
<1>6. QED
  BY <1>3, <1>4, <1>5

\* The steps that are none of a link.
Around == MapRace \/ GameServerDies \/ \E s \in Servers : PlayerConnects(s) \/ PlayerJoins(s)

LEMMA NextTyped == Typed /\ [Next]_vars => Typed'
<1> SUFFICES ASSUME Typed, [Next]_vars PROVE Typed'
  OBVIOUS
<1>1. CASE Around \/ UNCHANGED vars
  <2>1. /\ fault' \in Faults
        /\ UNCHANGED <<nextServerId, GameServers, spawned, overlap>>
    BY <1>1 DEF Around, PlayerConnects, PlayerJoins, MapRace, GameServerDies, Faults, vars, Typed,
                MapTyped
  <2>2. joining' \subseteq 1 .. spawned
    <3>1. \A s \in Servers : s <= spawned => s \in 1 .. spawned
      BY LauncherAssumption DEF Servers, Typed, MapTyped
    <3>2. \/ joining' \subseteq joining
          \/ \E s \in Servers : s <= spawned /\ joining' = joining \cup {s}
      BY <1>1 DEF Around, PlayerConnects, PlayerJoins, MapRace, GameServerDies, vars
    <3>3. QED
      BY <3>1, <3>2 DEF Typed, MapTyped
  <2>3. MapTyped'
    BY <2>1, <2>2 DEF Typed, MapTyped
  <2>4. LinksTyped'
    BY <1>1 DEF Around, PlayerConnects, PlayerJoins, MapRace, GameServerDies, vars, Typed,
                LinksTyped
  <2>5. QED
    BY <2>3, <2>4 DEF Typed
<1>2. CASE Next /\ ~Around
  BY <1>2, RequestTyped, SpawnTyped, ListTyped, SendTyped DEF Next, Around, Handle
<1>3. QED
  BY <1>1, <1>2

\* The map holds servers under natural numbers, and no channel holds more
\* replies than it can nor than were asked for, whatever runs beside what.
THEOREM TypeCorrect == Spec => []TypeOK
<1>1. Typed => TypeOK
  BY LauncherAssumption DEF Typed, MapTyped, LinksTyped, TypeOK, Range
<1>2. QED
  BY InitTyped, NextTyped, <1>1, PTL DEF Spec
-----------------------------------------------------------------------------
(***************************************************************************)
(* One spawn at a time.  While no spawn ran beside another handler, a      *)
(* handler that is inside SpawnNewGameServer is the only one, so that the  *)
(* map is ahead of nextServerId for that handler only; and a list that was *)
(* sized keeps its size until it is filled.                                *)
(***************************************************************************)
Exclusive == \A l, k \in Links : l # k /\ Entering(l) => handler[k] = Idle

Ahead(l) == handler[l].pc \in {"load", "increment"}

Contiguous ==
  /\ \A l \in Links :
       /\ Ahead(l) => DOMAIN GameServers = 0 .. nextServerId
       /\ handler[l].pc = "increment" => handler[l].next = nextServerId
       /\ handler[l].pc = "fill" => handler[l].len = nextServerId
  /\ (\A l \in Links : ~Ahead(l)) => DOMAIN GameServers = 0 .. nextServerId - 1

NoFault == fault \notin {"index", "servers"}

Serial == ~overlap => Exclusive /\ Contiguous /\ NoFault

LEMMA InitSerial == Init => Serial
BY DEF Init, Serial, Exclusive, Contiguous, Entering, Ahead, Idle, NoFault

LEMMA RequestSerial ==
  ASSUME Typed, Serial, NEW l \in Links,
         Accept(l) \/ ReadSpawnServerRequest(l) \/ ReadGetGameServers(l)
  PROVE  Serial'
<1> SUFFICES ASSUME ~overlap' PROVE Exclusive' /\ Contiguous' /\ NoFault'
  BY DEF Serial
<1>1. CASE Accept(l)
  BY <1>1 DEF Accept, Serial, Exclusive, Contiguous, Entering, Ahead, NoFault
<1>2. ASSUME NEW pc \in {"spawn", "make"}, Read(l, pc)
      PROVE  Exclusive' /\ Contiguous' /\ NoFault'
  <2>1. /\ handler' = [handler EXCEPT ![l] = [pc |-> pc, id |-> asked[l] + 1]]
        /\ UNCHANGED <<nextServerId, GameServers, fault>>
        /\ handler[l] = Idle
    BY <1>2 DEF Read, Goto
  <2>2. /\ ~overlap
        /\ \A k \in Links \ {l} : ~Entering(k) /\ (pc = "spawn" => handler[k] = Idle)
    BY <1>2 DEF Read, Typed, MapTyped
  <2>3. Exclusive /\ Contiguous /\ NoFault
    BY <2>2 DEF Serial
  <2>4. Exclusive'
    BY <2>1, <2>2, <2>3 DEF Exclusive, Entering, Typed, LinksTyped
  <2>5. Contiguous'
    BY <2>1, <2>3 DEF Contiguous, Ahead, Idle, Typed, LinksTyped
  <2>6. QED
    BY <2>1, <2>3, <2>4, <2>5 DEF NoFault
<1>3. QED
  BY <1>1, <1>2 DEF ReadSpawnServerRequest, ReadGetGameServers

LEMMA HandleSerial ==
  ASSUME Typed, Serial, NEW l \in Links, Handle(l)
  PROVE  Serial'
<1> SUFFICES ASSUME ~overlap' PROVE Exclusive' /\ Contiguous' /\ NoFault'
  BY DEF Serial
<1>1. ~overlap
  BY DEF Handle, SpawnServer, SpawnFails, StoreServer, LoadId, StoreId, GetServerInfo,
         MakeInfos, FillInfos, SendReply
<1>2. Exclusive /\ Contiguous /\ NoFault
  BY <1>1 DEF Serial
<1>3. handler \in [Links -> Handlers] /\ nextServerId \in Nat
  BY DEF Typed, MapTyped, LinksTyped
<1>4. handler[l].pc # "idle" => handler[l] # Idle
  BY DEF Idle
<1> USE <1>2, <1>3, <1>4 DEF Goto, Exclusive, Contiguous, Entering, Ahead, Idle, NoFault
<1>5. CASE SpawnServer(l)
  BY <1>5 DEF SpawnServer
<1>6. CASE SpawnFails(l)
  BY <1>6 DEF SpawnFails, Close
<1>7. CASE StoreServer(l)
  <2>1. DOMAIN GameServers = 0 .. nextServerId - 1
    BY <1>7 DEF StoreServer
  <2>2. DOMAIN GameServers' = 0 .. nextServerId
    BY <1>7, <2>1 DEF StoreServer, FreeId
  <2>3. /\ handler' = [handler EXCEPT ![l] = [handler[l] EXCEPT !.pc = "load"]]
        /\ handler'[l].pc = "load" /\ handler[l].pc = "store"
        /\ UNCHANGED <<nextServerId, fault>>
    BY <1>7, HandlerFields DEF StoreServer, Entered
  <2>4. QED
    BY <2>2, <2>3
<1>8. CASE LoadId(l)
  BY <1>8 DEF LoadId
<1>9. CASE StoreId(l)
  <2>1. nextServerId' = nextServerId + 1 /\ DOMAIN GameServers = 0 .. nextServerId
    BY <1>9 DEF StoreId, NextId
  <2>2. /\ handler'[l].pc = "info" /\ \A k \in Links \ {l} : handler'[k] = Idle
        /\ UNCHANGED <<GameServers, fault>>
    BY <1>9 DEF StoreId
  <2>3. QED
    BY <2>1, <2>2
<1>10. CASE MakeInfos(l)
  <2>1. \A k \in Links : ~Ahead(k)
    BY <1>10 DEF MakeInfos
  <2>2. DOMAIN GameServers = 0 .. nextServerId - 1
    BY <2>1
  <2>3. Cardinality(0 .. nextServerId - 1) = nextServerId
    BY FS_Interval
  <2>4. QED
    BY <1>10, <2>1, <2>2, <2>3 DEF MakeInfos
<1>11. CASE FillInfos(l)
  <2>1. \A k \in Links : ~Ahead(k)
    BY <1>11 DEF FillInfos
  <2>2. \A i \in DOMAIN GameServers : i < handler[l].len
    BY <1>11, <2>1 DEF FillInfos
  <2>3. QED
    BY <1>11, <2>1, <2>2 DEF FillInfos
<1>12. CASE SendReply(l)
  BY <1>12 DEF SendReply, Close
<1>13. CASE GetServerInfo(l)
  BY <1>13 DEF GetServerInfo
<1>14. QED
  BY <1>5, <1>6, <1>7, <1>8, <1>9, <1>10, <1>11, <1>12, <1>13 DEF Handle

LEMMA NextSerial == Typed /\ Serial /\ [Next]_vars => Serial'
<1> SUFFICES ASSUME Typed, Serial, [Next]_vars PROVE Serial'
  OBVIOUS
<1> USE DEF Serial, Exclusive, Contiguous, Entering, Ahead, NoFault
<1>1. CASE UNCHANGED vars
  BY <1>1 DEF vars
<1>2. ASSUME NEW l \in Links, Write(l) PROVE Serial'
  BY <1>2 DEF Write
<1>3. CASE Around
  <2>1. fault' = "servers" => \E l, k \in Links : l # k /\ Entering(l) /\ handler[k] # Idle
    BY <1>3 DEF Around, PlayerConnects, PlayerJoins, MapRace, GameServerDies, Next, vars, Idle
  <2>2. UNCHANGED <<nextServerId, GameServers, handler, overlap>>
    BY <1>3 DEF Around, PlayerConnects, PlayerJoins, MapRace, GameServerDies
  <2>3. NoFault => fault' # "index"
    BY <1>3 DEF Around, PlayerConnects, PlayerJoins, MapRace, GameServerDies, NoFault
  <2>4. ~overlap => NoFault'
    BY <2>1, <2>3 DEF NoFault
  <2>5. QED
    BY <2>2, <2>4
<1>4. QED
  BY <1>1, <1>2, <1>3, RequestSerial, HandleSerial DEF Next, Around

\* The ids in use are 0 .. nextServerId - 1 whenever no server is entered.
THEOREM IdsCorrect == Spec => []IdsContiguous
<1>1. Serial => IdsContiguous
  BY DEF Serial, Contiguous, IdsContiguous, Entering, Ahead
<1>2. QED
  BY <1>1, InitTyped, NextTyped, InitSerial, NextSerial, PTL DEF Spec

\* The launcher, and its game servers with it, does not die of an index out of
\* range, nor of two of its handlers in the map GameServers: of none of its own doing.
THEOREM NoPanicCorrect == Spec => []NoPanic
<1>1. Serial => NoPanic
  BY DEF Serial, NoFault, NoPanic
<1>2. QED
  BY <1>1, InitTyped, NextTyped, InitSerial, NextSerial, PTL DEF Spec
-----------------------------------------------------------------------------
(***************************************************************************)
(* What has been said is true.  A server is entered under an id that was   *)
(* free, before it is announced, and a list that waits to be sent is up to *)
(* date.                                                                   *)
(***************************************************************************)
Running == Range(GameServers)

\* No server has two ids, and none has one before SpawnServer started it.
OneIdEach ==
  /\ \A i, j \in DOMAIN GameServers : GameServers[i] = GameServers[j] => i = j
  /\ \A i \in DOMAIN GameServers : GameServers[i] <= spawned

TrueOf(m) ==
  /\ m.kind = "ServerSpawned" => m.server \in Running
  /\ m.kind = "SendGameServers" => m.servers = Running

HandlerTrue(l) ==
  /\ handler[l].pc = "store" => handler[l].server \notin Running /\ handler[l].server <= spawned
  /\ Ahead(l) \/ handler[l].pc = "info" => handler[l].server \in Running
  /\ handler[l].pc = "reply" => TrueOf(handler[l].msg)

RepliesTrue(l) ==
  \A k \in DOMAIN replies[l] :
    replies[l][k].kind = "ServerSpawned" => replies[l][k].server \in Running

Truthful ==
  ~overlap => OneIdEach /\ \A l \in Links : HandlerTrue(l) /\ RepliesTrue(l)

LEMMA InitTruthful == Init => Truthful
<1> SUFFICES ASSUME Init PROVE Truthful
  OBVIOUS
<1>1. OneIdEach
  BY LauncherAssumption DEF Init, OneIdEach
<1>2. \A l \in Links : HandlerTrue(l) /\ RepliesTrue(l)
  BY DEF Init, HandlerTrue, RepliesTrue, Ahead, Idle
<1>3. QED
  BY <1>1, <1>2 DEF Truthful

\* Only StoreServer changes which servers run, and it adds one.
LEMMA StoreAdds ==
  ASSUME Typed, Serial, ~overlap, NEW l \in Links, StoreServer(l)
  PROVE  /\ nextServerId \notin DOMAIN GameServers
         /\ DOMAIN GameServers' = DOMAIN GameServers \cup {nextServerId}
         /\ \A i \in DOMAIN GameServers : GameServers'[i] = GameServers[i]
         /\ GameServers'[nextServerId] = handler[l].server
         /\ Running' = Running \cup {handler[l].server}
         /\ handler' = [handler EXCEPT ![l] = [handler[l] EXCEPT !.pc = "load"]]
         /\ handler[l] \in Entered
<1>1. DOMAIN GameServers = 0 .. nextServerId - 1 /\ nextServerId \in Nat
  BY DEF Serial, Exclusive, Contiguous, Entering, Ahead, StoreServer, Idle, Typed, MapTyped
<1>2. nextServerId \notin DOMAIN GameServers
  BY <1>1
<1>3. GameServers' = [i \in DOMAIN GameServers \cup {nextServerId} |->
                       IF i = nextServerId THEN handler[l].server ELSE GameServers[i]]
  BY DEF StoreServer, FreeId
<1>4. Running' = Running \cup {handler[l].server}
  BY <1>2, <1>3 DEF Running, Range
<1>5. handler[l] \in Entered
  BY HandlerFields DEF StoreServer, Typed, LinksTyped
<1>6. QED
  BY <1>2, <1>3, <1>4, <1>5 DEF StoreServer, Goto

\* A step of link l that leaves the map alone and adds no reply.
LEMMA StepTruthful ==
  ASSUME Typed, ~overlap, Truthful, NEW l \in Links,
         UNCHANGED <<GameServers, spawned, replies>>,
         handler' = [handler EXCEPT ![l] = handler'[l]], HandlerTrue(l)'
  PROVE  Truthful'
<1>1. Running' = Running
  BY DEF Running
<1>2. OneIdEach'
  BY DEF Truthful, OneIdEach
<1>3. \A k \in Links : RepliesTrue(k)'
  BY <1>1 DEF Truthful, RepliesTrue
<1>4. \A k \in Links \ {l} : handler'[k] = handler[k]
  BY DEF Typed, LinksTyped
<1>5. \A k \in Links \ {l} : HandlerTrue(k)'
  BY <1>1, <1>4 DEF Truthful, HandlerTrue, Ahead, TrueOf
<1>6. QED
  BY <1>2, <1>3, <1>5 DEF Truthful

LEMMA SpawnTruthful ==
  ASSUME Typed, Serial, Truthful, ~overlap, NEW l \in Links,
         SpawnServer(l) \/ StoreServer(l)
  PROVE  Truthful'
<1>1. OneIdEach /\ \A k \in Links : HandlerTrue(k) /\ RepliesTrue(k)
  BY DEF Truthful
<1>2. \A k \in Links \ {l} : handler[k] = Idle
  BY DEF SpawnServer, StoreServer, Serial, Exclusive, Entering
<1>3. handler \in [Links -> Handlers]
  BY DEF Typed, LinksTyped
<1>4. CASE SpawnServer(l)
  <2>1. /\ handler'[l] = [pc |-> "store", id |-> handler[l].id, server |-> spawned + 1]
        /\ \A k \in Links \ {l} : handler'[k] = Idle
        /\ spawned' = spawned + 1 /\ UNCHANGED <<GameServers, replies>>
    BY <1>2, <1>3, <1>4 DEF SpawnServer, Goto
  <2>2. spawned \in Nat /\ \A i \in DOMAIN GameServers : GameServers[i] \in Nat
    BY LauncherAssumption DEF Typed, MapTyped, Servers
  <2>3. spawned + 1 \notin Running
    BY <1>1, <2>2 DEF OneIdEach, Running, Range
  <2>4. OneIdEach'
    BY <1>1, <2>1, <2>2 DEF OneIdEach
  <2>5. \A k \in Links : HandlerTrue(k)'
    BY <2>1, <2>2, <2>3 DEF HandlerTrue, Ahead, Running, Idle
  <2>6. \A k \in Links : RepliesTrue(k)'
    BY <1>1, <2>1 DEF RepliesTrue, Running
  <2>7. QED
    BY <2>4, <2>5, <2>6 DEF Truthful
<1>5. CASE StoreServer(l)
  <2>1. handler[l].server \notin Running /\ handler[l].server <= spawned
    BY <1>1, <1>5 DEF HandlerTrue, StoreServer
  <2>2. OneIdEach'
    <3>1. \A i \in DOMAIN GameServers : GameServers[i] # handler[l].server
      BY <2>1 DEF Running, Range
    <3>2. spawned' = spawned
      BY <1>5 DEF StoreServer
    <3>3. QED
      BY <1>1, <1>5, <2>1, <3>1, <3>2, StoreAdds DEF OneIdEach
  <2>3. handler'[l].pc = "load" /\ handler'[l].server = handler[l].server
    BY <1>3, <1>5, StoreAdds DEF Entered
  <2>4. \A k \in Links \ {l} : handler'[k] = Idle
    BY <1>2, <1>3, <1>5, StoreAdds
  <2>5. \A k \in Links : HandlerTrue(k)'
    BY <1>5, <2>3, <2>4, StoreAdds DEF HandlerTrue, Ahead, Idle
  <2>6. \A k \in Links : RepliesTrue(k)'
    BY <1>1, <1>5, StoreAdds DEF RepliesTrue, StoreServer
  <2>7. QED
    BY <2>2, <2>5, <2>6 DEF Truthful
<1>6. QED
  BY <1>4, <1>5

LEMMA SendTruthful ==
  ASSUME Typed, Truthful, ~overlap, NEW l \in Links, SendReply(l)
  PROVE  Truthful'
<1>1. OneIdEach /\ \A k \in Links : HandlerTrue(k) /\ RepliesTrue(k)
  BY DEF Truthful
<1>2. handler'[l] = Idle /\ (\A k \in Links \ {l} : handler'[k] = handler[k])
  BY DEF SendReply, Close, Goto, Typed, LinksTyped
<1>3. UNCHANGED <<GameServers, spawned>> /\ Running' = Running
  BY DEF SendReply, Running
<1>4. OneIdEach' /\ \A k \in Links : HandlerTrue(k)'
  BY <1>1, <1>2, <1>3 DEF OneIdEach, HandlerTrue, Ahead, TrueOf, Idle
<1>5. TrueOf(handler[l].msg) /\ \A k \in Links : replies[k] \in Seq(Msgs)
  BY <1>1 DEF SendReply, HandlerTrue, Typed, LinksTyped
<1>6. CASE Room(l)
  <2>1. handler[l].msg \in Msgs
    BY HandlerFields DEF SendReply, Ready, Typed, LinksTyped
  <2>2. replies' = [replies EXCEPT ![l] = Append(replies[l], handler[l].msg)]
    BY <1>6 DEF SendReply
  <2>3. RepliesTrue(l)'
    BY <1>1, <1>3, <1>5, <2>1, <2>2 DEF RepliesTrue, TrueOf, Typed, LinksTyped
  <2>4. \A k \in Links \ {l} : RepliesTrue(k)'
    BY <1>1, <1>3, <2>2 DEF RepliesTrue, Typed, LinksTyped
  <2>5. QED
    BY <1>4, <2>3, <2>4 DEF Truthful
<1>7. CASE ~Room(l)
  BY <1>1, <1>3, <1>4, <1>7 DEF SendReply, RepliesTrue, Truthful
<1>8. QED
  BY <1>6, <1>7

LEMMA HandleTruthful ==
  ASSUME Typed, Truthful, ~overlap, NEW l \in Links,
         \/ SpawnFails(l) \/ LoadId(l) \/ StoreId(l) \/ GetServerInfo(l)
         \/ MakeInfos(l) \/ FillInfos(l)
  PROVE  Truthful'
<1>1. HandlerTrue(l) /\ handler[l] \in Handlers /\ Running' = Running
  BY DEF Truthful, Typed, LinksTyped, Running, SpawnFails, LoadId, StoreId,
         GetServerInfo, MakeInfos, FillInfos
<1>2. handler \in [Links -> Handlers]
  BY DEF Typed, LinksTyped
<1> USE <1>1, <1>2 DEF HandlerTrue, Ahead, Goto
<1>3. CASE SpawnFails(l)
  BY <1>3, StepTruthful DEF SpawnFails, Close, Idle
<1>4. CASE LoadId(l)
  BY <1>4, StepTruthful DEF LoadId
<1>5. CASE StoreId(l)
  BY <1>5, StepTruthful DEF StoreId
<1>6. CASE MakeInfos(l)
  BY <1>6, StepTruthful DEF MakeInfos
<1>7. CASE FillInfos(l)
  <2>1. CASE UNCHANGED handler
    BY <1>7, <2>1, StepTruthful DEF FillInfos
  <2>2. CASE handler' # handler
    <3>1. handler'[l] = [pc |-> "reply", msg |-> [kind |-> "SendGameServers",
                          id |-> handler[l].id, servers |-> Range(GameServers)]]
      BY <1>7, <2>2 DEF FillInfos
    <3>2. HandlerTrue(l)'
      BY <3>1 DEF TrueOf, Running
    <3>3. QED
      BY <1>7, <2>2, <3>2, StepTruthful DEF FillInfos
  <2>3. QED
    BY <2>1, <2>2
<1>8. CASE GetServerInfo(l)
  <2>1. handler'[l] = [pc |-> "reply", msg |-> [kind |-> "ServerSpawned", id |-> handler[l].id,
                                                server |-> handler[l].server]]
    BY <1>8 DEF GetServerInfo
  <2>2. HandlerTrue(l)'
    BY <1>8, <2>1 DEF GetServerInfo, TrueOf
  <2>3. QED
    BY <1>8, <2>2, StepTruthful DEF GetServerInfo
<1>9. QED
  BY <1>3, <1>4, <1>5, <1>6, <1>7, <1>8

LEMMA NextTruthful == Typed /\ Serial /\ Truthful /\ [Next]_vars => Truthful'
<1> SUFFICES ASSUME Typed, Serial, Truthful, [Next]_vars, ~overlap' PROVE Truthful'
  BY DEF Truthful
<1>1. ~overlap
  BY DEF Next, Accept, ReadSpawnServerRequest, ReadGetGameServers, Read, Handle, SpawnServer,
         SpawnFails, StoreServer, LoadId, StoreId, GetServerInfo, MakeInfos, FillInfos, SendReply, Write,
         Around, PlayerConnects, PlayerJoins, MapRace, GameServerDies, vars, Typed, MapTyped
<1>2. CASE Around \/ UNCHANGED vars \/ \E l \in Links : Accept(l) \/ Write(l)
  BY <1>1, <1>2 DEF Around, PlayerConnects, PlayerJoins, MapRace, GameServerDies, vars, Accept, Write, Truthful, OneIdEach, HandlerTrue, RepliesTrue,
                    TrueOf, Ahead, Running
<1>3. ASSUME NEW l \in Links, ReadSpawnServerRequest(l) \/ ReadGetGameServers(l)
      PROVE  Truthful'
  <2>1. HandlerTrue(l)'
    BY <1>3 DEF ReadSpawnServerRequest, ReadGetGameServers, Read, Goto, HandlerTrue, Ahead,
                Typed, LinksTyped
  <2>2. QED
    BY <1>1, <1>3, <2>1, StepTruthful
       DEF ReadSpawnServerRequest, ReadGetGameServers, Read, Goto, Typed, LinksTyped
<1>4. QED
  BY <1>1, <1>2, <1>3, SpawnTruthful, SendTruthful, HandleTruthful DEF Next, Around, Handle

\* A server that was announced stays in the map, under one id.
THEOREM AnnouncedCorrect == Spec => []AnnouncedStay
<1>1. Typed /\ Truthful => AnnouncedStay
  <2> SUFFICES ASSUME Typed, Truthful, ~overlap, NEW l \in Links, NEW k \in DOMAIN replies[l],
                      replies[l][k].kind = "ServerSpawned"
               PROVE  Cardinality({i \in DOMAIN GameServers :
                                     GameServers[i] = replies[l][k].server}) = 1
    BY DEF AnnouncedStay
  <2> DEFINE s == replies[l][k].server
  <2>1. PICK j \in DOMAIN GameServers : GameServers[j] = s
    BY DEF Truthful, RepliesTrue, Running, Range
  <2>2. {i \in DOMAIN GameServers : GameServers[i] = s} = {j}
    BY <2>1 DEF Truthful, OneIdEach
  <2>3. Cardinality({j}) = 1
    BY FS_Singleton
  <2>4. QED
    BY <2>2, <2>3
<1>2. QED
  BY <1>1, InitTyped, NextTyped, InitSerial, NextSerial, InitTruthful, NextTruthful, PTL DEF Spec
-----------------------------------------------------------------------------
(***************************************************************************)
(* The refinement.  A link's replies are numbered like its requests, and   *)
(* the one that is being handled is the last.                              *)
(***************************************************************************)
Numbered(l) ==
  /\ \A k \in DOMAIN replies[l] :
       /\ replies[l][k].id <= asked[l]
       /\ handler[l] # Idle => replies[l][k].id < asked[l]
  /\ handler[l].pc \notin {"idle", "reply"} => handler[l].id = asked[l]
  /\ handler[l].pc = "reply" => handler[l].msg.id = asked[l]

InOrder == \A l \in Links : Numbered(l)

LEMMA InitInOrder == Init => InOrder
BY DEF Init, InOrder, Numbered, Idle

\* A step of a handler that stays in the same request and sends nothing.
LEMMA StepInOrder ==
  ASSUME Typed, InOrder, NEW l \in Links, handler[l] # Idle,
         handler' = [handler EXCEPT ![l] = handler'[l]],
         UNCHANGED <<replies, asked>>,
         handler'[l].pc \notin {"idle", "reply"} => handler'[l].id = asked[l],
         handler'[l].pc = "reply" => handler'[l].msg.id = asked[l]
  PROVE  InOrder'
BY DEF Typed, LinksTyped, InOrder, Numbered

LEMMA RequestInOrder ==
  ASSUME Typed, InOrder, NEW l \in Links, NEW pc \in {"spawn", "make"}, Read(l, pc)
  PROVE  InOrder'
<1>1. /\ handler' = [handler EXCEPT ![l] = [pc |-> pc, id |-> asked[l] + 1]]
      /\ asked' = [asked EXCEPT ![l] = @ + 1] /\ replies' = replies
  BY DEF Read, Goto
<1>2. \A k \in DOMAIN replies[l] : replies[l][k].id \in Nat
  BY DEF Typed, LinksTyped, Msgs, RequestIds
<1>3. asked[l] \in Nat /\ handler \in [Links -> Handlers] /\ asked \in [Links -> 0 .. MaxRequests]
  BY LauncherAssumption DEF Typed, LinksTyped
<1>4. Numbered(l)'
  BY <1>1, <1>2, <1>3 DEF InOrder, Numbered
<1>5. \A k \in Links \ {l} : Numbered(k)'
  BY <1>1, <1>3 DEF InOrder, Numbered
<1>6. QED
  BY <1>4, <1>5 DEF InOrder

LEMMA HandleInOrder ==
  ASSUME Typed, InOrder, NEW l \in Links, Handle(l), ~SendReply(l)
  PROVE  InOrder'
<1>1. /\ handler[l] \in Handlers /\ handler \in [Links -> Handlers]
      /\ handler[l].pc # "idle" => handler[l] # Idle
  BY HandlerFields DEF Typed, LinksTyped
<1>2. handler[l].pc \notin {"idle", "reply"} => handler[l].id = asked[l]
  BY DEF InOrder, Numbered
<1> USE <1>1, <1>2 DEF Goto
<1>3. CASE SpawnServer(l)
  BY <1>3, StepInOrder DEF SpawnServer
<1>4. CASE SpawnFails(l)
  BY <1>4, StepInOrder DEF SpawnFails, Close, Idle
<1>5. CASE StoreServer(l)
  <2>1. handler[l] \in Entered
    BY <1>5, HandlerFields DEF StoreServer
  <2>2. handler'[l].pc = "load" /\ handler'[l].id = handler[l].id
    BY <1>5, <2>1 DEF StoreServer, Entered
  <2>3. QED
    BY <1>5, <2>2, StepInOrder DEF StoreServer
<1>6. CASE LoadId(l)
  BY <1>6, StepInOrder DEF LoadId
<1>7. CASE StoreId(l)
  BY <1>7, StepInOrder DEF StoreId
<1>8. CASE MakeInfos(l)
  BY <1>8, StepInOrder DEF MakeInfos
<1>9. CASE FillInfos(l)
  <2>1. CASE UNCHANGED handler
    BY <1>9, <2>1, StepInOrder DEF FillInfos
  <2>2. CASE handler' # handler
    BY <1>9, <2>2, StepInOrder DEF FillInfos
  <2>3. QED
    BY <2>1, <2>2
<1>10. CASE GetServerInfo(l)
  BY <1>10, StepInOrder DEF GetServerInfo
<1>11. QED
  BY <1>3, <1>4, <1>5, <1>6, <1>7, <1>8, <1>9, <1>10 DEF Handle

LEMMA SendInOrder ==
  ASSUME Typed, InOrder, NEW l \in Links, SendReply(l)
  PROVE  InOrder'
<1>1. /\ handler[l].pc = "reply" /\ handler[l].msg \in Msgs /\ handler[l].msg.id = asked[l]
      /\ handler[l] # Idle
  BY HandlerFields DEF SendReply, Ready, Idle, Typed, LinksTyped, InOrder, Numbered
<1>2. /\ handler'[l] = Idle /\ (\A k \in Links \ {l} : handler'[k] = handler[k])
      /\ asked' = asked
  BY DEF SendReply, Close, Goto, Typed, LinksTyped
<1>3. replies \in [Links -> Seq(Msgs)] /\ asked[l] \in Nat
  BY LauncherAssumption DEF Typed, LinksTyped
<1>4. \A k \in DOMAIN replies[l] : replies[l][k].id \in Nat /\ replies[l][k].id < asked[l]
  BY <1>1, <1>3 DEF InOrder, Numbered, Msgs, RequestIds
<1>5. \/ replies' = [replies EXCEPT ![l] = Append(replies[l], handler[l].msg)]
      \/ replies' = replies
  BY DEF SendReply
<1>6. \A k \in DOMAIN replies'[l] : replies'[l][k].id <= asked[l]
  BY <1>1, <1>3, <1>4, <1>5
<1>7. \A k \in Links \ {l} : Numbered(k)'
  BY <1>2, <1>3, <1>5 DEF InOrder, Numbered
<1>8. Numbered(l)'
  BY <1>2, <1>6 DEF Numbered, Idle
<1>9. QED
  BY <1>7, <1>8 DEF InOrder

LEMMA NextInOrder == Typed /\ InOrder /\ [Next]_vars => InOrder'
<1> SUFFICES ASSUME Typed, InOrder, [Next]_vars PROVE InOrder'
  OBVIOUS
<1>1. CASE Around \/ UNCHANGED vars \/ \E l \in Links : Accept(l) \/ Write(l)
  BY <1>1 DEF Around, PlayerConnects, PlayerJoins, MapRace, GameServerDies, vars, Accept, Write, InOrder, Numbered
<1>2. QED
  BY <1>1, RequestInOrder, HandleInOrder, SendInOrder
     DEF Next, Around, ReadSpawnServerRequest, ReadGetGameServers

\* A reply is an announcement of a server that runs, or a list of all.
LEMMA SendImplements ==
  ASSUME Typed, Truthful, InOrder, ~overlap, NEW l \in Links, SendReply(l), Room(l)
  PROVE  Directory!Announce(l) \/ Directory!List(l)
<1> DEFINE m == handler[l].msg
<1>1. handler[l].pc = "reply" /\ m \in Msgs /\ handler[l] # Idle
  BY HandlerFields DEF SendReply, Ready, Idle, Typed, LinksTyped
<1>2. /\ replies' = [replies EXCEPT ![l] = Append(replies[l], m)]
      /\ Running' = Running
  BY DEF SendReply, Running
<1>3. m.id \in RequestIds /\ Directory!Newer(l, m.id)
  BY <1>1 DEF Msgs, InOrder, Numbered, Directory!Newer
<1>4. TrueOf(m)
  BY <1>1 DEF Truthful, HandlerTrue
<1>5. CASE m.kind = "ServerSpawned"
  <2>1. m = Directory!Spawned(m.id, m.server) /\ m.server \in Running
    BY <1>1, <1>4, <1>5 DEF Msgs, TrueOf, Directory!Spawned
  <2>2. QED
    BY <1>2, <1>3, <2>1 DEF Directory!Announce, Running
<1>6. CASE m.kind = "SendGameServers"
  <2>1. m = Directory!Listing(m.id, Running)
    BY <1>1, <1>4, <1>6 DEF Msgs, TrueOf, Directory!Listing
  <2>2. QED
    BY <1>2, <1>3, <2>1 DEF Directory!List, Running
<1>7. QED
  BY <1>1, <1>5, <1>6 DEF Msgs

LEMMA NextImplements ==
  ASSUME Typed, Serial, Truthful, InOrder, [Next]_vars, ~overlap'
  PROVE  Directory!Next \/ UNCHANGED <<GameServers, replies>>
<1>1. ~overlap
  BY DEF Next, Accept, ReadSpawnServerRequest, ReadGetGameServers, Read, Handle, SpawnServer,
         SpawnFails, StoreServer, LoadId, StoreId, GetServerInfo, MakeInfos, FillInfos, SendReply, Write,
         Around, PlayerConnects, PlayerJoins, MapRace, GameServerDies, vars, Typed, MapTyped
<1>2. ASSUME NEW l \in Links, StoreServer(l) PROVE Directory!Next
  <2>1. Running' = Running \cup {handler[l].server} /\ handler[l].server \in Servers
    BY <1>1, <1>2, StoreAdds DEF Entered
  <2>2. handler[l].server \notin Running
    BY <1>1, <1>2 DEF Truthful, HandlerTrue, StoreServer
  <2>3. Directory!Spawn
    BY <1>2, <2>1, <2>2 DEF Directory!Spawn, Running, StoreServer
  <2>4. QED
    BY <2>3 DEF Directory!Next
<1>3. ASSUME NEW l \in Links, SendReply(l)
      PROVE  Directory!Next \/ UNCHANGED <<GameServers, replies>>
  <2>1. CASE Room(l)
    BY <1>1, <1>3, <2>1, SendImplements DEF Directory!Next
  <2>2. CASE ~Room(l)
    BY <1>3, <2>2 DEF SendReply
  <2>3. QED
    BY <2>1, <2>2
<1>4. QED
  BY <1>2, <1>3
     DEF Next, Accept, ReadSpawnServerRequest, ReadGetGameServers, Read, Handle, SpawnServer,
         SpawnFails, LoadId, StoreId, GetServerInfo, MakeInfos, FillInfos, Write, PlayerConnects,
         PlayerJoins, MapRace, GameServerDies, vars

\* The launcher implements ServerDirectory until a spawn runs beside another
\* handler: servers are only added, and what it tells is true of those it has.
THEOREM DirectoryCorrect == Spec => ImplementsDirectory
<1>1. Init => Directory!Init
  <2> SUFFICES ASSUME Init PROVE Directory!Init
    OBVIOUS
  <2>1. Range(GameServers) \subseteq Servers
    BY InitTyped DEF Typed, MapTyped, Range
  <2>2. QED
    BY <2>1 DEF Init, Directory!Init
<1>2. Typed /\ Typed' /\ Serial /\ Truthful /\ InOrder /\ [Next]_vars
        => [Directory!Next \/ overlap']_<<GameServers, replies>>
  BY NextImplements DEF Typed, MapTyped
<1>3. QED
  BY <1>1, <1>2, InitTyped, NextTyped, InitSerial, NextSerial, InitTruthful, NextTruthful,
     InitInOrder, NextInOrder, PTL DEF Spec, ImplementsDirectory
=============================================================================
