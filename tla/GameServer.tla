----------------------------- MODULE GameServer -----------------------------
(***************************************************************************)
(* One game server (src/server/mines_server.go) and the clients connected  *)
(* to it (the handlers of src/client/mines_client.go).                     *)
(*                                                                         *)
(* Every connection has a goroutine of its own at the server, which reads  *)
(* a message and runs its handler to the end before it reads the next one, *)
(* and a second, short one that accepted it.  They share game,             *)
(* gameRunning and the map players.  Only MakeMove runs under a lock,      *)
(* moveMux; everything else interleaves, one step here per access to what  *)
(* is shared.                                                              *)
(*                                                                         *)
(* A request is issued and read in one step: what a client does depends on *)
(* what it shows, and it can show a state as old as one pleases, because   *)
(* the messages to it wait in its queue.                                   *)
(***************************************************************************)
EXTENDS Mines, Sequences, Functions

CONSTANTS
  Params,        \* the GameParams clients ask for, refused ones included
  AuthModes,     \* the values of requiresAuth to look at; no code sets it to TRUE
  HasInfo,       \* whether player.info is set; FALSE is the code as it is
  Launched,      \* whether a launcher runs the server, and counts its players
  MaxGames,      \* bound: StartGame messages handled
  MaxCells,      \* bound: cells of the boards these ask for, together
  MaxMoves,      \* bound: moves handled while a game runs
  MaxTokens,     \* bound: authentication messages handled
  MaxLeaves,     \* bound: clients that go away
  MaxRequests,   \* bound: all these together
  MaxBusy,       \* bound: goroutines in a handler or accepting, at the same time
  MaxLag,        \* bound: messages a client is behind when a goroutine steps
  Slow,          \* bound: the connections whose channel can be full
  ChanCap        \* bound: messages on their way to one of these, when it is

\* The sizes of a StartGame message are decoded from unsigned integers.
ASSUME ServerAssumption ==
  /\ Params \subseteq [width : Nat, height : Nat, mines : Nat, mode : STRING]
  /\ AuthModes \subseteq BOOLEAN /\ HasInfo \in BOOLEAN /\ Launched \in BOOLEAN
  /\ MaxGames \in Nat /\ MaxCells \in Nat /\ MaxMoves \in Nat
  /\ MaxTokens \in Nat /\ MaxLeaves \in Nat /\ MaxRequests \in Nat
  /\ MaxBusy \in Nat \ {0} /\ MaxLag \in Nat /\ ChanCap \in Nat \ {0}
  /\ Slow \subseteq PlayerIds

Conns == PlayerIds       \* one connection per player

VARIABLES
  games,         \* the Game objects created; the garbage collector keeps what is used
  game,          \* server.game: an index of games, 0 for nil
  gameRunning,   \* server.gameRunning
  players,       \* the keys of server.players
  connected,     \* controller.Connected of each player
  moveMux,       \* the connection whose handler holds moveMux, or 0
  requiresAuth,
  handler,       \* the handler each reader goroutine is in
  joining,       \* the progress of each handleNewConnection goroutine
  out,           \* per connection: messages sent and not yet handled by the client
  view,          \* per connection: what the client shows
  crashed,       \* the server process has died
  requests,      \* how many starts, cells, moves, tokens and leaving clients there were so far
  overlap,       \* history: the pairs of activities that ran at the same time
  lost,          \* history: connections SendMessage dropped a message for
  ends,          \* history: per game, the GameEnd broadcasts after its moves
  misled,        \* history: games that were called aborted and went on
  admitted       \* history: connections whose token was valid and came in time

server  == <<games, game, gameRunning, moveMux, requiresAuth>>
history == <<requests, overlap, lost, ends, misled, admitted>>
vars == <<games, game, gameRunning, moveMux, requiresAuth, players, connected, handler, joining,
          out, view, crashed, requests, overlap, lost, ends, misled, admitted>>

Idle == [pc |-> "idle"]

\* A client before its first StartGame message: no grid, no game screen.
NewView == [screen |-> "menu", end |-> "none", grid |-> << >>, color |-> << >>]

\* createServer.
Init ==
  /\ games = << >>
  /\ game = 0
  /\ gameRunning = FALSE
  /\ players = {}
  /\ connected = [c \in Conns |-> FALSE]
  /\ moveMux = 0
  /\ requiresAuth \in AuthModes
  /\ handler = [c \in Conns |-> Idle]
  /\ joining = [c \in Conns |-> [pc |-> "off"]]
  /\ out = [c \in Conns |-> << >>]
  /\ view = [c \in Conns |-> NewView]
  /\ crashed = FALSE
  /\ requests = [starts |-> 0, cells |-> 0, moves |-> 0, tokens |-> 0, leaves |-> 0]
  /\ overlap = {}
  /\ lost = {}
  /\ ends = << >>
  /\ misled = {}
  /\ admitted = {}

(***************************************************************************)
(* Who is busy.  overlap records which kinds of activity ever ran at the   *)
(* same time.                                                              *)
(***************************************************************************)
JoinDone == {"off", "auth", "expired", "refused", "done", "late"}

\* The handler of a token sends the result on authResponseCh, which has no
\* buffer: without a goroutine in the select it waits for ever.
Stuck(c) == handler[c].pc = "answer" /\ joining[c].pc # "auth"

Activities ==
  {<<"handler", c>> : c \in {d \in Conns : handler[d] # Idle /\ ~Stuck(d)}}
    \cup {<<"join", c>> : c \in {d \in Conns : joining[d].pc \notin JoinDone}}

Kind(a) == IF a[1] = "join" THEN "join" ELSE handler[a[2]].kind

Begin(kind) ==
  /\ Cardinality(Activities) < MaxBusy
  /\ overlap' = overlap \cup {{kind, Kind(a)} : a \in Activities}

MayRequest ==
  requests.starts + requests.moves + requests.tokens + requests.leaves < MaxRequests

\* Everybody is idle, and every message is handled; a dead client handles none.
Quiet == Activities = {} /\ \A c \in Conns : out[c] = << >> \/ view[c].screen = "dead"

(***************************************************************************)
(* ConnectionController.SendMessage: a message for a connection whose      *)
(* channel is full is dropped; the callers ignore the error.               *)
(***************************************************************************)
Full(c) == c \in Slow /\ Len(out[c]) >= ChanCap

SendMessage(c, m) ==
  IF connected[c]
  THEN /\ out' = IF Full(c) THEN out ELSE [out EXCEPT ![c] = Append(@, m)]
       /\ lost' = IF Full(c) THEN lost \cup {c} ELSE lost
  ELSE UNCHANGED <<out, lost>>

\* A handler's error ends ReadServerResponse: Connected is cleared and the
\* connection closed.  What was still on its way no longer matters.
Drop(c) ==
  /\ connected' = [connected EXCEPT ![c] = FALSE]
  /\ out' = [out EXCEPT ![c] = << >>]
  /\ view' = [view EXCEPT ![c].screen = "gone"]

(***************************************************************************)
(* playerAcceptLoop and handleNewConnection.                               *)
(***************************************************************************)
\* Accept starts the goroutine, SetConnection marks it connected.
Accept(c) ==
  /\ joining[c].pc = "off"
  /\ joining' = [joining EXCEPT ![c] = [pc |-> "accepted"]]
  /\ connected' = [connected EXCEPT ![c] = TRUE]
  /\ Begin("join")
  /\ UNCHANGED <<server, players, handler, out, view, crashed,
                 requests, lost, ends, misled, admitted>>

\* players[localID] = player; the reader goroutine starts, with the handlers
\* of the game or, if requiresAuth, the one for tokens only.  A broadcast that
\* is ranging over the map may or may not come to the new key.
Register(c) ==
  /\ joining[c].pc = "accepted"
  /\ players' = players \cup {c}
  /\ joining' = [joining EXCEPT ![c] = [pc |-> IF requiresAuth THEN "auth" ELSE "check"]]
  /\ \E seen \in SUBSET {d \in Conns : handler[d].pc = "cast"} :
       handler' = [d \in Conns |->
                     IF d \in seen THEN [handler[d] EXCEPT !.left = @ \cup {c}]
                                   ELSE handler[d]]
  /\ UNCHANGED <<server, connected, out, view, crashed, history>>

\* The 5 seconds are over: the goroutine ends and leaves everything as it is.
AuthTimeout(c) ==
  /\ joining[c].pc = "auth"
  /\ joining' = [joining EXCEPT ![c] = [pc |-> "expired"]]
  /\ UNCHANGED <<server, players, connected, handler, out, view, crashed, history>>

\* deleteAuthHandlers and RegisterHandlers, after an answer in time.
SwapHandlers(c) ==
  /\ joining[c].pc = "granted"
  /\ joining' = [joining EXCEPT ![c] = [pc |-> "check"]]
  /\ UNCHANGED <<server, players, connected, handler, out, view, crashed, history>>

JoinCheck(c) ==
  /\ joining[c].pc = "check"
  /\ joining' = [joining EXCEPT ![c] = [pc |-> IF gameRunning THEN "start" ELSE "done"]]
  /\ UNCHANGED <<server, players, connected, handler, out, view, crashed, history>>

StartMsg(p) == [kind |-> "Start", params |-> p]
CellsMsg(u) == [kind |-> "Cells", updates |-> u]
InfoMsg(m)  == [kind |-> "Info", marks |-> m]
EndMsg(e)   == [kind |-> "End", end |-> e]

\* sendInitialMessages: each of the two messages is encoded from server.game
\* in one step and sent in another.
JoinEncodeStart(c) ==
  /\ joining[c].pc = "start"
  /\ joining' = [joining EXCEPT ![c] =
                   [pc |-> "sendStart", msg |-> StartMsg(games[game].params)]]
  /\ UNCHANGED <<server, players, connected, handler, out, view, crashed, history>>

JoinSendStart(c) ==
  /\ joining[c].pc = "sendStart"
  /\ SendMessage(c, joining[c].msg)
  /\ joining' = [joining EXCEPT ![c] = [pc |-> "cells"]]
  /\ UNCHANGED <<server, players, connected, handler, view, crashed,
                 requests, overlap, ends, misled, admitted>>

JoinEncodeCells(c) ==
  /\ joining[c].pc = "cells"
  /\ joining' = [joining EXCEPT ![c] =
                   [pc |-> "sendCells", msg |-> CellsMsg(GetChangedCellUpdates(games[game].board))]]
  /\ UNCHANGED <<server, players, connected, handler, out, view, crashed, history>>

JoinSendCells(c) ==
  /\ joining[c].pc = "sendCells"
  /\ SendMessage(c, joining[c].msg)
  /\ joining' = [joining EXCEPT ![c] = [pc |-> "late"]]
  /\ UNCHANGED <<server, players, connected, handler, view, crashed,
                 requests, overlap, ends, misled, admitted>>

Join(c) ==
  \/ Accept(c) \/ Register(c) \/ AuthTimeout(c) \/ SwapHandlers(c) \/ JoinCheck(c)
  \/ JoinEncodeStart(c) \/ JoinSendStart(c) \/ JoinEncodeCells(c) \/ JoinSendCells(c)

(***************************************************************************)
(* The handlers registered by RegisterHandlers.  A handler that broadcasts *)
(* has the messages it still has to send, the players the current one goes *)
(* to, and what it does after the last.                                    *)
(***************************************************************************)
Casting(kind, msgs, then, arg) ==
  [kind |-> kind, pc |-> "next", msgs |-> msgs, left |-> {}, then |-> then, arg |-> arg]

Finished(h) == h.pc = "next" /\ h.msgs = << >>

\* Back to readLoop when nothing is left to do.
Settle(h) == IF Finished(h) /\ h.then = "return" THEN Idle ELSE h

Goto(c, h) == handler' = [handler EXCEPT ![c] = Settle(h)]

\* readLoop may take the next message of c: it has a reader, and a client.
Reads(c) ==
  /\ connected[c]
  /\ joining[c].pc \notin {"off", "accepted"}
  /\ handler[c] = Idle
  /\ view[c].screen \notin {"dead", "gone"}

\* Whether the handlers of the game are registered, and that of tokens.
TokensOnly(c) == joining[c].pc \in {"auth", "expired", "granted"}

\* ValidateAuthToken.
ValidateAuthToken(token) == ~token.expired /\ token.signed

\* The result the goroutine receives lets the player in; mutant: any does.
AnyAnswer(answer) == TRUE
AuthSuccess(answer) == answer

\* A token is read and checked.  None of the repository's programs sends one;
\* a client may send several, at any time.
ReadToken(c) ==
  /\ Reads(c) /\ TokensOnly(c)
  /\ requests.tokens < MaxTokens /\ MayRequest
  /\ requests' = [requests EXCEPT !.tokens = @ + 1]
  /\ Begin("token")
  /\ \E token \in [expired : BOOLEAN, signed : BOOLEAN] :
       LET success == ValidateAuthToken(token) IN
       /\ Goto(c, [kind |-> "token", pc |-> "answer", success |-> success])
       /\ admitted' = IF success /\ joining[c].pc = "auth" THEN admitted \cup {c} ELSE admitted
  /\ UNCHANGED <<server, players, connected, joining, out, view, crashed, lost, ends, misled>>

\* The handler and the select of handleNewConnection meet on authResponseCh.
\* After a failure the handler returns the error and the goroutine ends.
AuthAnswer(c) ==
  LET in == AuthSuccess(handler[c].success) IN
  /\ handler[c].pc = "answer" /\ joining[c].pc = "auth"
  /\ joining' = [joining EXCEPT ![c] = [pc |-> IF in THEN "granted" ELSE "refused"]]
  /\ Goto(c, Idle)
  /\ IF handler[c].success THEN UNCHANGED <<connected, out, view>> ELSE Drop(c)
  /\ overlap' = overlap \cup
       IF in THEN {{"join", Kind(a)} : a \in Activities \ {<<"handler", c>>}} ELSE {}
  /\ UNCHANGED <<server, players, crashed, requests, lost, ends, misled, admitted>>

\* A message for which no handler is registered: a start or a move before the
\* player is let in, a token afterwards.
NoHandler(c) ==
  /\ requiresAuth
  /\ Reads(c)
  /\ \/ TokensOnly(c) /\ view[c].screen \in {"menu", "game"}
     \/ ~TokensOnly(c) /\ requests.tokens < MaxTokens
  /\ Drop(c)
  /\ UNCHANGED <<server, players, handler, joining, crashed, history>>

\* The client offers a start button in the menu and after the end of a game.
HandleStartGame(c) ==
  /\ Reads(c) /\ ~TokensOnly(c)
  /\ view[c].screen = "menu" \/ view[c].end # "none"
  /\ requests.starts < MaxGames /\ MayRequest
  /\ Begin("start")
  /\ \E p \in Params :
       /\ requests.cells + p.width * p.height <= MaxCells
       /\ requests' = [requests EXCEPT !.starts = @ + 1, !.cells = @ + p.width * p.height]
       /\ Goto(c, Casting("start", IF gameRunning THEN <<EndMsg("Aborted")>> ELSE << >>,
                          "create", p))
  /\ UNCHANGED <<server, players, connected, joining, out, view, crashed,
                 lost, ends, misled, admitted>>

\* Server.StartGame up to the broadcast of the new game.
StartCreate(c) ==
  LET h == handler[c] IN
  /\ h.pc = "next" /\ h.msgs = << >> /\ h.then = "create"
  /\ IF ValidParams(h.arg)
     THEN /\ \E b \in CreateBoard(h.arg) :
               games' = Append(games, [board |-> b, params |-> h.arg, marks |-> NoMarks(b),
                                       scores |-> [pid \in PlayerIds |-> 0]])
          /\ game' = Len(games) + 1
          /\ ends' = Append(ends, [Win |-> 0, Loss |-> 0])
          /\ Goto(c, Casting("start", <<StartMsg(h.arg)>>, "run", h.arg))
          /\ UNCHANGED <<connected, out, view, misled>>
     ELSE /\ Goto(c, Idle)
          /\ Drop(c)
          /\ misled' = IF gameRunning THEN misled \cup {game} ELSE misled
          /\ UNCHANGED <<games, game, ends>>
  /\ UNCHANGED <<gameRunning, moveMux, requiresAuth, players, joining, crashed,
                 requests, overlap, lost, admitted>>

\* ... and what follows it.
StartRun(c) ==
  /\ handler[c].pc = "next" /\ handler[c].msgs = << >> /\ handler[c].then = "run"
  /\ gameRunning' = TRUE
  /\ Goto(c, Idle)
  /\ UNCHANGED <<games, game, moveMux, requiresAuth, players, connected, joining,
                 out, view, crashed, history>>

\* The test of gameRunning with which the handler begins.
MayMove == gameRunning

\* moveMux.Lock() can proceed; mutant: there is no lock.
NeverLocked == TRUE
LockFree == moveMux = 0

\* moveMux.Unlock(); mutant: it is forgotten.
UnlockForgotten == UNCHANGED moveMux
Unlock == moveMux' = 0

\* What the end of a game leaves of gameRunning; mutant: it goes on running.
GoesOn == gameRunning' = gameRunning
Stop == gameRunning' = FALSE

\* The players a broadcast ranges over; mutant: all but the one who moved.
OthersOf(c) == players \ {c}
ReceiversOf(c) == players

MoveTypesSent == {"Reveal", "Flag"}

\* The client sends a move for a cell of the grid it shows.  While no game
\* runs the handler returns at once, which changes nothing; otherwise it
\* reads player.info, a nil pointer unless HasInfo, and waits for the lock.
HandleMove(c) ==
  /\ Reads(c) /\ ~TokensOnly(c)
  /\ view[c].screen = "game"
  /\ MayMove
  /\ requests.moves < MaxMoves /\ MayRequest
  /\ requests' = [requests EXCEPT !.moves = @ + 1]
  /\ \E type \in MoveTypesSent, cell \in DOMAIN view[c].grid :
       IF HasInfo
       THEN /\ Goto(c, [kind |-> "move", pc |-> "want", type |-> type, cell |-> cell])
            /\ Begin("move")
            /\ UNCHANGED crashed
       ELSE crashed' = TRUE /\ UNCHANGED <<handler, overlap>>
  /\ UNCHANGED <<server, players, connected, joining, out, view, lost, ends, misled, admitted>>

\* moveMux.Lock() and the board's part of server.game.MakeMove.  An error is
\* returned after the lock is released.
MoveBoard(c) ==
  LET h == handler[c]
      r == MakeMove(games[game].board, h.type, h.cell)
  IN
  /\ h.pc = "want"
  /\ LockFree
  /\ IF r.result = "Error"
     THEN /\ Goto(c, Idle)
          /\ Drop(c)
          /\ UNCHANGED <<games, moveMux>>
     ELSE /\ games' = [games EXCEPT ![game].board = r.board]
          /\ moveMux' = c
          /\ Goto(c, [kind |-> "move", pc |-> "mode", g |-> game,
                      result |-> r.result, updated |-> r.updated])
          /\ UNCHANGED <<connected, out, view>>
  /\ UNCHANGED <<game, gameRunning, requiresAuth, players, joining, crashed, history>>

\* Mode.OnMove, then moveMux.Unlock().
MoveMode(c) ==
  LET h == handler[c]
      b == games[h.g].board
      coop == games[h.g].params.mode = "Coop"
      marks == NewMarks(games[h.g].marks, b, c, h.updated)
  IN
  /\ h.pc = "mode"
  /\ games' = IF coop
              THEN [games EXCEPT ![h.g].marks = marks,
                                 ![h.g].scores = NewScores(@, b, c, h.updated)]
              ELSE games
  /\ Unlock
  /\ Goto(c, [kind |-> "move", pc |-> "encode", g |-> h.g, result |-> h.result,
              updated |-> h.updated,
              info |-> IF coop THEN <<InfoMsg([d \in h.updated |-> marks[d]])>> ELSE << >>])
  /\ UNCHANGED <<game, gameRunning, requiresAuth, players, connected, joining,
                 out, view, crashed, history>>

EndOf(result) == CASE result = "MineBlown" -> <<"Loss">>
                   [] result = "GameWon"   -> <<"Win">>
                   [] OTHER                -> << >>

\* The messages of a move.  The cells are encoded by the game the server has
\* now, which need not be the game the move was made in.
MoveMessages(h) ==
  LET updates == CreateCellUpdates(games[game].board, games[h.g].board, h.updated)
  IN  (IF h.updated = {} THEN << >> ELSE <<CellsMsg(updates)>> \o h.info)
        \o [i \in DOMAIN EndOf(h.result) |-> EndMsg(EndOf(h.result)[i])]

MoveEncode(c) ==
  LET h == handler[c]
      over == EndOf(h.result) # << >>
  IN
  /\ h.pc = "encode"
  /\ Goto(c, Casting("move", MoveMessages(h), IF over THEN "stop" ELSE "return", h.g))
  /\ ends' = IF over THEN [ends EXCEPT ![h.g][EndOf(h.result)[1]] = @ + 1] ELSE ends
  /\ UNCHANGED <<server, players, connected, joining, out, view, crashed,
                 requests, overlap, lost, misled, admitted>>

\* The game ends: gameRunning is cleared after the GameEnd broadcast.
MoveStop(c) ==
  /\ handler[c].pc = "next" /\ handler[c].msgs = << >> /\ handler[c].then = "stop"
  /\ Stop
  /\ Goto(c, Idle)
  /\ UNCHANGED <<games, game, moveMux, requiresAuth, players, connected, joining,
                 out, view, crashed, history>>

\* Server.broadcast: range over the map, send to those who are connected.
BeginCast(c) ==
  /\ handler[c].pc = "next" /\ handler[c].msgs # << >>
  /\ Goto(c, [handler[c] EXCEPT !.pc = "cast", !.left = ReceiversOf(c)])
  /\ UNCHANGED <<server, players, connected, joining, out, view, crashed, history>>

SendTo(c, p) ==
  LET h == handler[c] IN
  /\ h.pc = "cast"
  /\ p \in h.left
  /\ SendMessage(p, Head(h.msgs))
  /\ Goto(c, IF h.left = {p} THEN Casting(h.kind, Tail(h.msgs), h.then, h.arg)
                             ELSE [h EXCEPT !.left = @ \ {p}])
  /\ UNCHANGED <<server, players, connected, joining, view, crashed,
                 requests, overlap, ends, misled, admitted>>

Handle(c) ==
  \/ AuthAnswer(c)
  \/ StartCreate(c) \/ StartRun(c)
  \/ MoveBoard(c) \/ MoveMode(c) \/ MoveEncode(c) \/ MoveStop(c)
  \/ BeginCast(c) \/ \E p \in players : SendTo(c, p)

\* The client goes away; its reader at the server fails.
Leave(c) ==
  /\ connected[c]
  /\ joining[c].pc \notin {"off", "accepted"}
  /\ handler[c] = Idle
  /\ requests.leaves < MaxLeaves /\ MayRequest
  /\ requests' = [requests EXCEPT !.leaves = @ + 1]
  /\ Drop(c)
  /\ UNCHANGED <<server, players, handler, joining, crashed,
                 overlap, lost, ends, misled, admitted>>

(***************************************************************************)
(* Unsynchronised accesses to a Go map, for which the runtime stops the    *)
(* process when it notices: a key added to players while a broadcast or    *)
(* GetNumberOfPlayers ranges over it or another key is added, playerScores *)
(* encoded while a move changes it, and handlers registered while the      *)
(* reader looks one up.  A launcher counts the players whenever it likes,  *)
(* from goroutines of its own in the same process.                         *)
(***************************************************************************)
PlayersRace ==
  \E c \in Conns :
    /\ joining[c].pc = "accepted"
    /\ \/ \E d \in Conns : handler[d].pc = "cast"
       \/ \E d \in Conns \ {c} : joining[d].pc = "accepted"
       \/ Launched

ScoresRace ==
  \E c, d \in Conns :
    /\ handler[c].pc = "mode"
    /\ handler[d].pc = "next" /\ handler[d].msgs # << >> /\ handler[d].kind = "move"
    /\ Head(handler[d].msgs).kind = "Info"
    /\ handler[d].arg = handler[c].g

HandlersRace(c) ==
  /\ joining[c].pc = "granted"
  /\ Reads(c)
  /\ requests.tokens < MaxTokens
  /\ crashed' = TRUE
  /\ overlap' = overlap \cup {{"join", "token"}}
  /\ UNCHANGED <<server, players, connected, handler, joining, out, view,
                 requests, lost, ends, misled, admitted>>

MapRace ==
  /\ PlayersRace \/ ScoresRace
  /\ crashed' = TRUE
  /\ UNCHANGED <<server, players, connected, handler, joining, out, view, history>>

(***************************************************************************)
(* The client's handlers (RegisterGUIHandlers).  Indexing the grid outside *)
(* it is a panic: the client is dead.                                      *)
(***************************************************************************)
HiddenCell == [rev |-> -1, flag |-> FALSE]

\* initializeGrid.
StartView(p) ==
  [screen |-> "game", end |-> "none",
   grid |-> [d \in Cells(p) |-> HiddenCell], color |-> [d \in Cells(p) |-> 0]]

\* A value below 0x10 is a count; ShowMine reveals, ShowFlag and Unflag set
\* the flag, and neither touches the other field.
ShowCell(cell, value) ==
  IF value = ShowFlag THEN [cell EXCEPT !.flag = TRUE]
  ELSE IF value = Unflag THEN [cell EXCEPT !.flag = FALSE]
  ELSE [cell EXCEPT !.rev = value]

Dead(v) == [NewView EXCEPT !.screen = "dead"]

ApplyCells(v, u) ==
  IF ~(DOMAIN u \subseteq DOMAIN v.grid) THEN Dead(v)
  ELSE [v EXCEPT !.grid = [d \in DOMAIN v.grid |->
                             IF d \in DOMAIN u THEN ShowCell(v.grid[d], u[d]) ELSE v.grid[d]]]

ApplyInfo(v, m) ==
  IF ~(DOMAIN m \subseteq DOMAIN v.color) THEN Dead(v)
  ELSE [v EXCEPT !.color = [d \in DOMAIN v.color |->
                              IF d \in DOMAIN m THEN m[d] ELSE v.color[d]]]

Handled(v, m) ==
  CASE m.kind = "Start" -> StartView(m.params)
    [] m.kind = "Cells" -> ApplyCells(v, m.updates)
    [] m.kind = "Info"  -> ApplyInfo(v, m.marks)
    [] m.kind = "End"   -> [v EXCEPT !.end = m.end]

Deliver(c) ==
  /\ out[c] # << >>
  /\ view[c].screen # "dead"
  /\ view' = [view EXCEPT ![c] = Handled(@, Head(out[c]))]
  /\ out' = [out EXCEPT ![c] = Tail(@)]
  /\ UNCHANGED <<server, players, connected, handler, joining, crashed, history>>

\* Deliver(c) commutes with every step but the requests of c: keeping the
\* clients within MaxLag loses only requests from staler views.
Prompt == \A c \in Conns : Len(out[c]) <= MaxLag \/ view[c].screen = "dead"

ServerSteps(c) == Prompt /\ Handle(c)
JoinSteps(c)   == Prompt /\ joining[c].pc # "off" /\ Join(c)

Next ==
  /\ ~crashed
  /\ \/ \E c \in Conns : \/ ServerSteps(c) \/ JoinSteps(c) \/ Deliver(c)
                         \/ Prompt /\ \/ Accept(c) \/ Leave(c) \/ HandlersRace(c)
                                      \/ ReadToken(c) \/ NoHandler(c)
                                      \/ HandleStartGame(c) \/ HandleMove(c)
     \/ Prompt /\ MapRace

\* A goroutine that can run does; nobody is bound to connect, to leave or to
\* send a request.
Fairness ==
  \A c \in Conns :
    /\ WF_vars(~crashed /\ ServerSteps(c))
    /\ WF_vars(~crashed /\ JoinSteps(c))
    /\ WF_vars(~crashed /\ Deliver(c))

Spec == Init /\ [][Next]_vars /\ Fairness

-----------------------------------------------------------------------------
(***************************************************************************)
(* Properties.                                                             *)
(***************************************************************************)
HandlerPcs == {"idle", "answer", "next", "cast", "want", "mode", "encode"}
InGamePcs == {"check", "start", "sendStart", "cells", "sendCells", "done", "late"}
JoinPcs == {"off", "accepted", "auth", "expired", "refused", "granted"} \cup InGamePcs

\* Every variable has its type; the handler that holds the lock is inside
\* MakeMove, and no other one is.
TypeOK ==
  /\ game \in 0 .. Len(games)
  /\ \A g \in DOMAIN games : IsBoard(games[g].board) /\ ValidParams(games[g].params)
  /\ gameRunning \in BOOLEAN /\ crashed \in BOOLEAN
  /\ players \subseteq Conns /\ lost \subseteq Conns
  /\ connected \in [Conns -> BOOLEAN]
  /\ moveMux \in Conns \cup {0}
  /\ \A c \in Conns : /\ handler[c].pc \in HandlerPcs
                      /\ joining[c].pc \in JoinPcs
                      /\ c \in Slow => Len(out[c]) <= ChanCap
                      /\ moveMux = c <=> handler[c].pc = "mode"
  /\ DOMAIN ends = DOMAIN games

Alone == overlap = {}

\* handleNewConnection is through with c and let it in.  With requiresAuth a
\* connection is in players, and gets all broadcasts, before that.
LetIn(c) == joining[c].pc \in {"done", "late"}

\* The connections that show what the server told them, all of it.
UpToDate(c) ==
  LetIn(c) /\ c \in players /\ connected[c] /\ c \notin lost /\ view[c].screen # "dead"

RevealedAt(v) == {d \in DOMAIN v.grid : v.grid[d].rev # -1}
FlaggedAt(v)  == {d \in DOMAIN v.grid : v.grid[d].flag}

ShowsBoard(v, b) ==
  /\ v.screen = "game"
  /\ DOMAIN v.grid = Cells(b)
  /\ RevealedAt(v) = b.revealed
  /\ FlaggedAt(v) = b.flagged
  /\ \A d \in b.revealed : v.grid[d].rev = CellValue(b, b, d)

\* As long as no two handlers or joins ever ran at the same time, every client
\* that lost no message shows exactly the board of the running game, whenever
\* it joined, once all messages are handled; and the colour it shows for a
\* cell is that of the mark there, unless it joined late and never was told.
Agreement ==
  Alone /\ Quiet /\ gameRunning /\ ~crashed =>
    \A c \in {d \in Conns : UpToDate(d)} :
      /\ ShowsBoard(view[c], games[game].board)
      /\ \A d \in DOMAIN view[c].color :
           view[c].color[d] = games[game].marks[d]
             \/ (joining[c].pc = "late" /\ view[c].color[d] = 0)

\* In the same circumstances no client shows a game that is over as running,
\* nor a running one as over, except as aborted after a StartGame whose
\* parameters were refused: Aborted is broadcast before they are looked at.
ScreensAgree ==
  Alone /\ Quiet /\ game # 0 /\ ~crashed =>
    \A c \in {d \in Conns : UpToDate(d)} :
      gameRunning <=> /\ view[c].screen = "game"
                      /\ view[c].end = "none" \/ (view[c].end = "Aborted" /\ game \in misled)

\* Even when moves, and joins, run at the same time: all clients end up with
\* the revealed cells of the board, each with its own count.  Flags have no
\* such guarantee: their updates can pass each other.
RevealsConverge ==
  overlap \subseteq {{"move"}, {"move", "join"}, {"join"}} /\ Quiet /\ game # 0 /\ ~crashed =>
    \A c \in {d \in Conns : UpToDate(d) /\ view[d].screen = "game"} :
      /\ RevealedAt(view[c]) = games[game].board.revealed
      /\ \A d \in RevealedAt(view[c]) :
           view[c].grid[d].rev = CellValue(games[game].board, games[game].board, d)

\* The game as it is once the handler inside MakeMove is through.
Completed(g) ==
  LET x == games[g]
      inside == {c \in Conns : handler[c].pc = "mode" /\ handler[c].g = g}
  IN  IF inside = {} \/ x.params.mode # "Coop" THEN x
      ELSE LET c == CHOOSE d \in inside : TRUE IN
           [x EXCEPT !.marks = NewMarks(@, x.board, c, handler[c].updated),
                     !.scores = NewScores(@, x.board, c, handler[c].updated)]

GameOf(g, r) ==
  INSTANCE Game WITH board <- Completed(g).board, mode <- Completed(g).params.mode,
                     marks <- Completed(g).marks, scores <- Completed(g).scores,
                     reply <- r, MaxCoord <- MaxCells, MaxScore <- MaxMoves * MaxCells

\* Each game is a Game, for all the handlers that move in it at the same time:
\* it changes only by whole moves of module Game, one player's after another's,
\* each the move that player's handler was given and with the result the
\* handler goes on with.  This is what moveMux is for.
MovesAtomic ==
  [][\A g \in DOMAIN games : Completed(g)' # Completed(g) =>
       \E c \in Conns :
         /\ handler[c].pc = "want" /\ handler'[c].pc = "mode"
         /\ \E r \in {[result |-> handler'[c].result, updated |-> handler'[c].updated]} :
              GameOf(g, r)!Move(c, handler[c].type, handler[c].cell)]_vars

\* A game is won at most once, however the moves and starts interleave; and it
\* ends at most once unless a move ran beside another move, or beside a
\* StartGame, whose late gameRunning = true can revive a game that is over.
EndsOnce ==
  \A g \in DOMAIN ends :
    /\ ends[g].Win <= 1
    /\ overlap \cap {{"move"}, {"move", "start"}} = {} => ends[g].Win + ends[g].Loss <= 1

\* No client is ever shown a cell it has no grid for, which would kill it: the
\* StartGame message of the right board comes before all news of its cells, in
\* every queue and for every late joiner, whatever moves run at the same time.
\* A start beside anything else, and a move beside a join, break that order,
\* and so does a message that is lost or comes before the player is let in.
ClientsSurvive ==
  overlap \subseteq {{"move"}, {"join"}} /\ ~requiresAuth =>
    \A c \in Conns \ lost : view[c].screen # "dead"

\* A server that requires authentication starts games, makes moves and sends
\* the running game only for connections from which a valid token was read
\* while handleNewConnection still waited for it.
AuthGate ==
  requiresAuth =>
    \A c \in Conns : joining[c].pc \in InGamePcs \/ handler[c].pc \notin {"idle", "answer"}
                       => c \in admitted

\* Every handler and every join comes to an end and every message is handled:
\* no lock is left held, and no handler waits for one.  The exception is a
\* token that comes when the player is let in already or was given up.
Quiesces == <>[](crashed \/ Quiet)

\* Moves are refused only while no game runs: the comment at
\* mines_server.go:164.  The process survives the first move of a game.
ServerUp == ~crashed
=============================================================================
