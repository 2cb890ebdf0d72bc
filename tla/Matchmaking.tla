---------------------------- MODULE Matchmaking ----------------------------
(***************************************************************************)
(* The matchmaking server (src/matchmaking/matchmaking.go) between its     *)
(* players and its game launchers, and the server browser of the client.   *)
(*                                                                         *)
(* Every player has a goroutine that reads and handles its requests; every *)
(* launcher has one that reads its replies.  A request is passed on under  *)
(* a number of its own, and pendingRequests tells whom the reply is for.   *)
(*                                                                         *)
(* A launcher behaves as module ServerDirectory says for one connection.   *)
(* The field "by" of a message is not in the code: it tells who asked.     *)
(***************************************************************************)
EXTENDS Integers, Sequences, SequencesExt, FiniteSets, Functions

CONSTANTS
  Players, Launchers,
  Reconnect,      \* the flag ConnectToLauncher is given
  IdSpace,        \* the number of request ids, 2^32
  ChanCap,        \* bound: the length of a channel of messages, 64 in the code
  AtStart,        \* servers a launcher has spawned by itself
  MaxRequests,    \* bound: requests of all players together
  MaxLosses       \* bound: connections lost, of launchers and players together

ASSUME MatchmakingAssumption ==
  /\ Reconnect \in BOOLEAN
  /\ IdSpace \in Nat \ {0} /\ ChanCap \in Nat \ {0}
  /\ AtStart \in Nat /\ MaxRequests \in Nat /\ MaxLosses \in Nat

VARIABLES
  currentRequestId, pendingRequests,
  requestIdMux,   \* the set of players whose handlers hold it
  reader,         \* per player: the handler its reader goroutine is in
  open,           \* per player: whether it is connected
  asked,          \* per player: the number of its requests
  link,           \* per launcher: "absent", "store" (into the map), "up", "down"
  writer,         \* per launcher: whether its writer goroutine lives
  toLauncher,     \* per launcher: the controller's channel of messages
  requests,       \* per launcher: what the writer has written
  answers,        \* per launcher: what it has sent back
  servers,        \* per launcher: the number of servers it runs
  toPlayer,       \* per player: messages on the way to its client
  browser,        \* per player: the rows of the server browser
  known,          \* history: the servers the browser can be expected to show
  lost,           \* history: the ids of requests of which a message was lost
  losses,         \* history: connections lost
  reused,         \* history: an id was taken again while a message carried it
  crashed

idVars == <<currentRequestId, pendingRequests, requestIdMux, reused>>
playerVars == <<reader, open, asked>>
linkVars == <<link, writer, losses, crashed>>
wireVars == <<requests, answers, servers>>
clientVars == <<toPlayer, browser, known>>
vars == <<idVars, playerVars, linkVars, toLauncher, wireVars, clientVars, lost>>

Idle == [pc |-> "idle"]

\* The keys of the map GameLaunchers.
GameLaunchers == {l \in Launchers : link[l] \in {"up", "down"}}

Init ==
  /\ currentRequestId = 0
  /\ pendingRequests = << >>
  /\ requestIdMux = {}
  /\ reader = [p \in Players |-> Idle]
  /\ open = [p \in Players |-> TRUE]
  /\ asked = [p \in Players |-> 0]
  /\ link = [l \in Launchers |-> "absent"]
  /\ writer = [l \in Launchers |-> TRUE]
  /\ toLauncher = [l \in Launchers |-> << >>]
  /\ requests = [l \in Launchers |-> << >>]
  /\ answers = [l \in Launchers |-> << >>]
  /\ servers = [l \in Launchers |-> AtStart]
  /\ toPlayer = [p \in Players |-> << >>]
  /\ browser = [p \in Players |-> << >>]
  /\ known = [p \in Players |-> {}]
  /\ lost = {}
  /\ losses = 0
  /\ reused = FALSE
  /\ crashed = FALSE

\* The requests that are sent, and those passed on or answered; their ids.
Sending == {p \in Players : reader[p].pc = "send"}
Sent(l) == Range(toLauncher[l]) \cup Range(requests[l]) \cup Range(answers[l])
InFlight == {reader[p].id : p \in Sending} \cup UNION {{m.id : m \in Sent(l)} : l \in Launchers}

Ids(messages) == {m.id : m \in Range(messages)}
Running(l) == {<<l, i>> : i \in 1 .. servers[l]}
Goto(p, h) == reader' = [reader EXCEPT ![p] = h]

(***************************************************************************)
(* ConnectToLauncher: the connection is made, then the launcher is put     *)
(* into the map while players may be served already (cmd/matchmaking).     *)
(***************************************************************************)
Connect(l) ==
  /\ link[l] = "absent"
  /\ link' = [link EXCEPT ![l] = "store"]
  /\ UNCHANGED <<idVars, playerVars, writer, losses, crashed, toLauncher, wireVars, clientVars,
                 lost>>

\* A handler ranging over the map may or may not come across the new entry.
StoreLauncher(l) ==
  /\ link[l] = "store"
  /\ link' = [link EXCEPT ![l] = "up"]
  /\ \E S \in SUBSET {p \in Players : reader[p] # Idle /\ reader[p].kind = "list"} :
       reader' = [p \in Players |-> IF p \in S THEN [reader[p] EXCEPT !.todo = @ \cup {l}]
                                               ELSE reader[p]]
  /\ UNCHANGED <<idVars, open, asked, writer, losses, crashed, toLauncher, wireVars, clientVars,
                 lost>>

\* The runtime stops the process when it notices a read of the map beside
\* the write.
MapRace ==
  /\ \E l \in Launchers, p \in Players : link[l] = "store" /\ reader[p].pc = "choose"
  /\ crashed' = TRUE
  /\ UNCHANGED <<idVars, playerVars, link, writer, losses, toLauncher, wireVars, clientVars, lost>>

(***************************************************************************)
(* The handlers of a player's requests.                                    *)
(***************************************************************************)
ReadRequest(p, h) ==
  /\ open[p]
  /\ reader[p] = Idle
  /\ SumFunction(asked) < MaxRequests
  /\ asked' = [asked EXCEPT ![p] = @ + 1]
  /\ Goto(p, h)
  /\ UNCHANGED <<idVars, open, linkVars, toLauncher, wireVars, lost>>

ReadSpawnServerRequest(p) ==
  /\ ReadRequest(p, [pc |-> "choose", kind |-> "spawn", todo |-> {}])
  /\ UNCHANGED clientVars

ReadGetGameServers(p) ==
  /\ ReadRequest(p, [pc |-> "choose", kind |-> "list", todo |-> GameLaunchers])
  /\ known' = [known EXCEPT ![p] = UNION {Running(l) : l \in GameLaunchers}]
  /\ UNCHANGED <<toPlayer, browser>>

\* chooseGameLauncher takes any launcher; with none the handler fails, which
\* closes the player's connection.
ChooseGameLauncher(p) ==
  /\ reader[p].pc = "choose"
  /\ reader[p].kind = "spawn"
  /\ IF GameLaunchers = {}
     THEN /\ Goto(p, Idle)
          /\ open' = [open EXCEPT ![p] = FALSE]
     ELSE /\ \E l \in GameLaunchers :
               Goto(p, [pc |-> "lock", kind |-> "spawn", todo |-> {}, to |-> l])
          /\ UNCHANGED open
  /\ UNCHANGED <<idVars, asked, linkVars, toLauncher, wireVars, clientVars, lost>>

\* The loop over all launchers.
NextLauncher(p) ==
  /\ reader[p].pc = "choose"
  /\ reader[p].kind = "list"
  /\ \/ \E l \in reader[p].todo :
          Goto(p, [pc |-> "lock", kind |-> "list", todo |-> reader[p].todo \ {l}, to |-> l])
     \/ reader[p].todo = {} /\ Goto(p, Idle)
  /\ UNCHANGED <<idVars, open, asked, linkVars, toLauncher, wireVars, clientVars, lost>>

LockFree == requestIdMux = {}

\* GetNextRequestId.
LockIds(p) ==
  /\ reader[p].pc = "lock"
  /\ LockFree
  /\ requestIdMux' = {p}
  /\ Goto(p, [reader[p] EXCEPT !.pc = "next"])
  /\ UNCHANGED <<currentRequestId, pendingRequests, reused, open, asked, linkVars, toLauncher,
                 wireVars, clientVars, lost>>

LoadId(p) ==
  /\ reader[p].pc = "next"
  /\ Goto(p, [pc |-> "increment", kind |-> reader[p].kind, todo |-> reader[p].todo,
              to |-> reader[p].to, id |-> currentRequestId])
  /\ UNCHANGED <<idVars, open, asked, linkVars, toLauncher, wireVars, clientVars, lost>>

StoreId(p) ==
  /\ reader[p].pc = "increment"
  /\ currentRequestId' = (reader[p].id + 1) % IdSpace
  /\ requestIdMux' = {}
  /\ Goto(p, [reader[p] EXCEPT !.pc = "store"])
  /\ UNCHANGED <<pendingRequests, reused, open, asked, linkVars, toLauncher, wireVars, clientVars,
                 lost>>

\* Mutant: the player is filed under the counter, which has moved on.
FileUnderCurrent(p) == currentRequestId

FileUnder(p) == reader[p].id

StorePending(p) ==
  /\ reader[p].pc = "store"
  /\ pendingRequests' = [i \in DOMAIN pendingRequests \cup {FileUnder(p)} |->
                           IF i = FileUnder(p) THEN p ELSE pendingRequests[i]]
  /\ reused' = (reused \/ reader[p].id \in InFlight)
  /\ Goto(p, [reader[p] EXCEPT !.pc = "send"])
  /\ UNCHANGED <<currentRequestId, requestIdMux, open, asked, linkVars, toLauncher, wireVars,
                 clientVars, lost>>

AfterSend(h) == IF h.kind = "spawn" THEN Idle
                                    ELSE [pc |-> "choose", kind |-> "list", todo |-> h.todo]

Room(channel) == Len(channel) < ChanCap

\* The error of a full channel is not looked at.
SendRequest(p) ==
  /\ reader[p].pc = "send"
  /\ LET l == reader[p].to IN
       /\ toLauncher' = IF Room(toLauncher[l])
                        THEN [toLauncher EXCEPT ![l] = Append(@, [kind |-> reader[p].kind,
                                                                  id |-> reader[p].id, by |-> p])]
                        ELSE toLauncher
       /\ lost' = IF Room(toLauncher[l]) /\ writer[l] THEN lost ELSE lost \cup {reader[p].id}
  /\ Goto(p, AfterSend(reader[p]))
  /\ UNCHANGED <<idVars, open, asked, linkVars, wireVars, clientVars>>

(***************************************************************************)
(* The connection of a launcher.                                           *)
(***************************************************************************)
\* The writer goroutine; an error ends it, and nothing starts it again.
WriteRequest(l) ==
  /\ writer[l]
  /\ toLauncher[l] # << >>
  /\ toLauncher' = [toLauncher EXCEPT ![l] = Tail(@)]
  /\ IF link[l] = "up"
     THEN /\ requests' = [requests EXCEPT ![l] = Append(@, Head(toLauncher[l]))]
          /\ UNCHANGED <<writer, lost>>
     ELSE /\ writer' = [writer EXCEPT ![l] = FALSE]
          /\ lost' = lost \cup Ids(toLauncher[l])
          /\ UNCHANGED requests
  /\ UNCHANGED <<idVars, playerVars, link, losses, crashed, answers, servers, clientVars>>

Cut(l) ==
  /\ link' = [link EXCEPT ![l] = "down"]
  /\ requests' = [requests EXCEPT ![l] = << >>]
  /\ answers' = [answers EXCEPT ![l] = << >>]
  /\ lost' = lost \cup Ids(requests[l]) \cup Ids(answers[l])

\* The launcher closes the connection or the network fails: readLoop ends.
LoseLauncher(l) ==
  /\ link[l] = "up"
  /\ losses < MaxLosses
  /\ losses' = losses + 1
  /\ Cut(l)
  /\ UNCHANGED <<idVars, playerVars, writer, crashed, toLauncher, servers, clientVars>>

\* connectLoop, called again and again by ReadServerResponse.
ReconnectLauncher(l) ==
  /\ Reconnect
  /\ link[l] = "down"
  /\ link' = [link EXCEPT ![l] = "up"]
  /\ UNCHANGED <<idVars, playerVars, writer, losses, crashed, toLauncher, wireVars, clientVars,
                 lost>>

\* What the launcher does with a request (module Launcher).
Serve(l) ==
  /\ requests[l] # << >>
  /\ LET m == Head(requests[l]) IN
       /\ servers' = IF m.kind = "spawn" THEN [servers EXCEPT ![l] = @ + 1] ELSE servers
       /\ answers' = [answers EXCEPT ![l] = Append(@,
            [kind |-> m.kind, id |-> m.id, by |-> m.by,
             servers |-> IF m.kind = "spawn" THEN {<<l, servers'[l]>>} ELSE Running(l)])]
  /\ requests' = [requests EXCEPT ![l] = Tail(@)]
  /\ UNCHANGED <<idVars, playerVars, linkVars, toLauncher, clientVars, lost>>

\* Mutant: the entry is looked up and stays.
LoadOnly(id) == pendingRequests

LoadAndDelete(id) == [i \in DOMAIN pendingRequests \ {id} |-> pendingRequests[i]]

\* The handlers of ServerSpawned and SendGameServers.  An id that is not
\* pending is an error, which closes the connection; the error of a full
\* channel is not looked at.
ReceiveAnswer(l) ==
  /\ answers[l] # << >>
  /\ LET m == Head(answers[l]) IN
       IF m.id \in DOMAIN pendingRequests
       THEN LET p == pendingRequests[m.id] IN
              /\ pendingRequests' = LoadAndDelete(m.id)
              /\ IF Room(toPlayer[p])
                 THEN toPlayer' = [toPlayer EXCEPT ![p] = Append(@, m)] /\ UNCHANGED lost
                 ELSE lost' = lost \cup {m.id} /\ UNCHANGED toPlayer
              /\ answers' = [answers EXCEPT ![l] = Tail(@)]
              /\ UNCHANGED <<link, requests>>
       ELSE Cut(l) /\ UNCHANGED <<pendingRequests, toPlayer>>
  /\ UNCHANGED <<currentRequestId, requestIdMux, reused, playerVars, writer, losses, crashed, toLauncher,
                 servers, browser, known>>

(***************************************************************************)
(* The player's client.                                                    *)
(***************************************************************************)
LosePlayer(p) ==
  /\ open[p]
  /\ reader[p] = Idle
  /\ losses < MaxLosses
  /\ losses' = losses + 1
  /\ open' = [open EXCEPT ![p] = FALSE]
  /\ UNCHANGED <<idVars, reader, asked, link, writer, crashed, toLauncher, wireVars, clientVars,
                 lost>>

\* Mutant: the list is put behind the rows.
RowsListedBehind(rows, S) == rows \o SetToSeq(S)

RowsSpawned(rows, S) == rows \o SetToSeq(S)
RowsListed(rows, S) == SetToSeq(S)

\* The handlers of RegisterMMHandlers.
ClientReceive(p) ==
  /\ open[p]
  /\ toPlayer[p] # << >>
  /\ LET m == Head(toPlayer[p]) IN
       IF m.kind = "spawn"
       THEN /\ browser' = [browser EXCEPT ![p] = RowsSpawned(@, m.servers)]
            /\ known' = [known EXCEPT ![p] = @ \cup m.servers]
       ELSE /\ browser' = [browser EXCEPT ![p] = RowsListed(@, m.servers)]
            /\ UNCHANGED known
  /\ toPlayer' = [toPlayer EXCEPT ![p] = Tail(@)]
  /\ UNCHANGED <<idVars, playerVars, linkVars, toLauncher, wireVars, lost>>

-----------------------------------------------------------------------------
Handle(p) ==
  \/ ChooseGameLauncher(p) \/ NextLauncher(p) \/ LockIds(p) \/ LoadId(p) \/ StoreId(p)
  \/ StorePending(p) \/ SendRequest(p)

Next ==
  /\ ~crashed
  /\ \/ \E p \in Players : \/ ReadSpawnServerRequest(p) \/ ReadGetGameServers(p) \/ Handle(p)
                           \/ LosePlayer(p) \/ ClientReceive(p)
     \/ \E l \in Launchers : \/ Connect(l) \/ StoreLauncher(l) \/ WriteRequest(l)
                             \/ LoseLauncher(l) \/ ReconnectLauncher(l)
                             \/ Serve(l) \/ ReceiveAnswer(l)
     \/ MapRace

Fairness ==
  /\ \A p \in Players : WF_vars(~crashed /\ Handle(p)) /\ WF_vars(~crashed /\ ClientReceive(p))
  /\ \A l \in Launchers : /\ WF_vars(~crashed /\ WriteRequest(l))
                          /\ WF_vars(~crashed /\ Serve(l))
                          /\ WF_vars(~crashed /\ ReceiveAnswer(l))

Spec == Init /\ [][Next]_vars /\ Fairness

-----------------------------------------------------------------------------
(***************************************************************************)
(* Properties.                                                             *)
(***************************************************************************)
RequestIds == 0 .. IdSpace - 1
Asked == {"spawn", "list"}
Rows == Launchers \X Nat

Requests == [kind : Asked, id : RequestIds, by : Players]
Answers ==
  [kind : Asked, id : RequestIds, by : Players, servers : {S \in SUBSET Rows : IsFiniteSet(S)}]

Handlers ==
  {Idle}
    \cup [pc : {"choose"}, kind : Asked, todo : SUBSET Launchers]
    \cup [pc : {"lock", "next"}, kind : Asked, todo : SUBSET Launchers, to : Launchers]
    \cup [pc : {"increment", "store", "send"}, kind : Asked, todo : SUBSET Launchers,
          to : Launchers, id : RequestIds]

\* Types; the mutex is held by the handler that is inside GetNextRequestId,
\* and nothing is under way on a connection that is not there.
TypeOK ==
  /\ currentRequestId \in RequestIds
  /\ DOMAIN pendingRequests \subseteq RequestIds
  /\ pendingRequests \in [DOMAIN pendingRequests -> Players]
  /\ requestIdMux = {p \in Players : reader[p].pc \in {"next", "increment"}}
  /\ reader \in [Players -> Handlers]
  /\ open \in [Players -> BOOLEAN] /\ asked \in [Players -> Nat]
  /\ link \in [Launchers -> {"absent", "store", "up", "down"}] /\ writer \in [Launchers -> BOOLEAN]
  /\ toLauncher \in [Launchers -> Seq(Requests)] /\ requests \in [Launchers -> Seq(Requests)]
  /\ answers \in [Launchers -> Seq(Answers)] /\ servers \in [Launchers -> Nat]
  /\ \A l \in Launchers :
       /\ Len(toLauncher[l]) <= ChanCap
       /\ link[l] # "up" => requests[l] = << >> /\ answers[l] = << >>
  /\ toPlayer \in [Players -> Seq(Answers)] /\ \A p \in Players : Len(toPlayer[p]) <= ChanCap
  /\ browser \in [Players -> Seq(Rows)] /\ known \in [Players -> SUBSET Rows]
  /\ lost \subseteq RequestIds /\ losses \in 0 .. MaxLosses
  /\ reused \in BOOLEAN /\ crashed \in BOOLEAN

\* A request that is on its way, or its answer, has its asker on file: the
\* answer is not taken for one nobody waits for, which would close the
\* launcher's connection, and it reaches the player who asked and no other.
\* Nor does the id of a request that was lost do harm when it comes up again:
\* only one that is taken while a message carries it, IdSpace requests later,
\* would.
PendingMatches ==
  ~reused =>
    /\ \A l \in Launchers : \A m \in Sent(l) :
         m.id \in DOMAIN pendingRequests /\ pendingRequests[m.id] = m.by
    /\ \A p \in Players : \A m \in Range(toPlayer[p]) : m.by = p

\* Every request is answered at last and nothing stays on file but requests of
\* which a message was lost: a full channel, a lost connection, a dead writer.
Drained == <>[](crashed \/ DOMAIN pendingRequests \subseteq lost)

\* Nothing of p's is on its way.
Quiet(p) ==
  /\ open[p] /\ reader[p] = Idle /\ toPlayer[p] = << >>
  /\ \A l \in Launchers : \A m \in Sent(l) : m.by # p

\* With one launcher, when all its answers have come, the browser of a player
\* has a row, and one only, for each server that ran when it last asked for
\* the list and each it has spawned since.  (With a second launcher it need
\* not: its list replaces the rows of the first.)
BrowserComplete ==
  \A p \in Players : Cardinality(GameLaunchers) = 1 /\ lost = {} /\ ~reused /\ Quiet(p) =>
    \A s \in known[p] : Cardinality({i \in DOMAIN browser[p] : browser[p][i] = s}) = 1
=============================================================================
