------------------------------- MODULE Client -------------------------------
(***************************************************************************)
(* The goroutines of one graphical client (src/client/mines_client.go) and *)
(* what they share: the fields of the ConnectionController of the game     *)
(* (src/protocol/controller.go), menu.state, menu.gameEndResult,           *)
(* manager.params and the grid.                                            *)
(*                                                                         *)
(* One goroutine draws the frames and handles the clicks.  Every click on  *)
(* Connect starts another one, which connects and then reads messages      *)
(* until the connection is lost.  Only the grid has a lock, boardMutex.    *)
(* What the messages put into the grid is modelled in GameServer.          *)
(***************************************************************************)
EXTENDS Integers, FiniteSets

CONSTANTS
  Sizes,         \* the sizes of boards, pairs <<Width, Height>>
  MaxClicks,     \* bound: clicks on Connect
  MaxAttempts    \* bound: maxReconnectAttempts; 100 in the code

ASSUME ClientAssumption ==
  /\ Sizes \subseteq Nat \X Nat
  /\ MaxClicks \in Nat \ {0} /\ MaxAttempts \in Nat \ {0}

Goroutines == 1 .. MaxClicks    \* one per click on Connect
Conns      == Goroutines        \* each dials at most one connection

VARIABLES
  Connected,     \* controller.Connected
  server,        \* controller.server: the connection, 0 for nil
  open,          \* the connections that were dialled and not closed
  pc,            \* where each goroutine of the connect button is
  attempts,      \* its attempts to connect that failed
  reads,         \* the connection it reads, or 0
  state,         \* menu.state
  ended,         \* menu.gameEndResult is set
  params,        \* manager.params: the size
  grid,          \* the size of manager.grid
  boardMutex,    \* it is locked
  ui,            \* where the goroutine of the window is
  mmAttempts,    \* its failed attempts to connect to the matchmaking server
  width,         \* the width drawBoard ranges over
  shown,         \* the last frame: its screen, and whether it offers New game
  crashed,       \* what brought the client down, or "no"
  raced,         \* history: connect let a goroutine pass beside another one
  stale,         \* history: New game was clicked on a screen that was outdated
  grew           \* history: a larger game started while the board was drawn

controller == <<Connected, server, open>>
goroutines == <<pc, attempts, reads>>
menu       == <<state, ended>>
board      == <<params, grid, boardMutex>>
window     == <<ui, mmAttempts, width, shown, crashed>>
history    == <<raced, stale, grew>>
vars == <<controller, goroutines, menu, board, window, history>>

Init ==
  /\ Connected = FALSE /\ server = 0 /\ open = {}
  /\ pc = [g \in Goroutines |-> "off"]
  /\ attempts = [g \in Goroutines |-> 0]
  /\ reads = [g \in Goroutines |-> 0]
  /\ state = "ConnectMenu" /\ ended = FALSE
  /\ params = <<0, 0>> /\ grid = <<0, 0>> /\ boardMutex = FALSE
  /\ ui = "connect" /\ mmAttempts = 0 /\ width = 0
  /\ shown = [screen |-> "none", newGame |-> FALSE]
  /\ crashed = "no"
  /\ raced = FALSE /\ stale = FALSE /\ grew = FALSE

Go(g, label) == pc' = [pc EXCEPT ![g] = label]

(***************************************************************************)
(* connectToGameServer: connectLoop, connect and what follows.             *)
(***************************************************************************)
\* connect's test of Connected; mutant: there is none.
NoTest == TRUE
MayDial == ~Connected

\* An attempt failed; the next one comes after two seconds.
Failed(g) ==
  /\ attempts' = [attempts EXCEPT ![g] = @ + 1]
  /\ Go(g, IF attempts[g] + 1 = MaxAttempts THEN "gaveUp" ELSE "check")

\* Between a test of Connected that passed and the assignment, and between the
\* end of a connection and the return to the menu, nothing keeps others out.
Unguarded == {"dialing", "assign", "close", "menu"}

CheckConnected(g) ==
  /\ pc[g] = "check"
  /\ IF MayDial
     THEN /\ Go(g, "dialing")
          /\ raced' = (raced \/ \E h \in Goroutines : pc[h] \in Unguarded)
          /\ UNCHANGED attempts
     ELSE Failed(g) /\ UNCHANGED raced
  /\ UNCHANGED <<controller, reads, menu, board, window, stale, grew>>

DialFails(g) ==
  /\ pc[g] = "dialing"
  /\ Failed(g)
  /\ UNCHANGED <<controller, reads, menu, board, window, history>>

Dial(g) ==
  /\ pc[g] = "dialing"
  /\ open' = open \cup {g}
  /\ attempts' = [attempts EXCEPT ![g] = 0]
  /\ Go(g, "assign")
  /\ UNCHANGED <<Connected, server, reads, menu, board, window, history>>

AssignConnected(g) ==
  /\ pc[g] = "assign"
  /\ Connected' = TRUE
  /\ Go(g, "store")
  /\ UNCHANGED <<server, open, attempts, reads, menu, board, window, history>>

AssignServer(g) ==
  /\ pc[g] = "store"
  /\ server' = g
  /\ Go(g, "show")
  /\ UNCHANGED <<Connected, open, attempts, reads, menu, board, window, history>>

ShowStartMenu(g) ==
  /\ pc[g] = "show"
  /\ state' = "GameStartMenu"
  /\ Go(g, "open")
  /\ UNCHANGED <<controller, attempts, reads, ended, board, window, history>>

\* readLoop makes its reader for the connection the controller has now.
OpenReader(g) ==
  /\ pc[g] = "open"
  /\ reads' = [reads EXCEPT ![g] = server]
  /\ Go(g, "read")
  /\ UNCHANGED <<controller, attempts, menu, board, window, history>>

(***************************************************************************)
(* readLoop and the handlers of RegisterGUIHandlers.                       *)
(***************************************************************************)
Exceeds(s, t) == s[1] > t[1] \/ s[2] > t[2]

\* StartGame: params are assigned without the lock, ...
ReadStart(g) ==
  /\ pc[g] = "read" /\ reads[g] \in open
  /\ \E size \in Sizes :
       /\ params' = size
       /\ grew' = (grew \/ (Exceeds(size, grid)
                              /\ (state = "GameScreen" \/ ui \in {"board", "drawing"})))
  /\ Go(g, "grid")
  /\ UNCHANGED <<controller, attempts, reads, menu, grid, boardMutex, window, raced, stale>>

\* What initializeGrid makes of the old grid; mutant: it keeps what is large enough.
KeptGrid(old, new) == IF new[1] * new[2] <= old[1] * old[2] THEN old ELSE new
NewGrid(old, new) == new

\* ... then the grid is made, under the lock, ...
InitializeGrid(g) ==
  /\ pc[g] = "grid"
  /\ ~boardMutex
  /\ grid' = NewGrid(grid, params)
  /\ Go(g, "screen")
  /\ UNCHANGED <<controller, attempts, reads, menu, params, boardMutex, window, history>>

ShowGame(g) ==
  /\ pc[g] = "screen"
  /\ state' = "GameScreen"
  /\ Go(g, "result")
  /\ UNCHANGED <<controller, attempts, reads, ended, board, window, history>>

ResetResult(g) ==
  /\ pc[g] = "result"
  /\ ended' = FALSE
  /\ Go(g, "read")
  /\ UNCHANGED <<controller, attempts, reads, state, board, window, history>>

ReadEnd(g) ==
  /\ pc[g] = "read" /\ reads[g] \in open
  /\ ended' = TRUE
  /\ UNCHANGED <<controller, goroutines, state, board, window, history>>

\* The connection breaks, or somebody closed it, or a message is refused.
ReadFails(g) ==
  /\ pc[g] = "read"
  /\ Go(g, "clear")
  /\ reads' = [reads EXCEPT ![g] = 0]
  /\ UNCHANGED <<controller, attempts, menu, board, window, history>>

ClearConnected(g) ==
  /\ pc[g] = "clear"
  /\ Connected' = FALSE
  /\ Go(g, "close")
  /\ UNCHANGED <<server, open, attempts, reads, menu, board, window, history>>

\* controller.server.Close(), whatever connection that is by now.
CloseServer(g) ==
  /\ pc[g] = "close"
  /\ open' = open \ {server}
  /\ Go(g, "menu")
  /\ UNCHANGED <<Connected, server, attempts, reads, menu, board, window, history>>

\* menu.state after the connection; mutant: it stays.
SameScreen(screen) == screen
ScreenAfter(screen) == "ConnectMenu"

ShowConnectMenu(g) ==
  /\ pc[g] = "menu"
  /\ state' = ScreenAfter(state)
  /\ Go(g, "ended")
  /\ UNCHANGED <<controller, attempts, reads, ended, board, window, history>>

\* The steps a goroutine takes without waiting for a message.
Run(g) ==
  \/ CheckConnected(g) \/ DialFails(g) \/ Dial(g)
  \/ AssignConnected(g) \/ AssignServer(g) \/ ShowStartMenu(g) \/ OpenReader(g)
  \/ ShowGame(g) \/ ResetResult(g)
  \/ ClearConnected(g) \/ CloseServer(g) \/ ShowConnectMenu(g)

(***************************************************************************)
(* mainLoop: the matchmaking server first, then one frame after the other. *)
(* A frame handles the clicks on what the last one showed.                 *)
(***************************************************************************)
MMConnect ==
  /\ ui = "connect"
  /\ ui' = "idle" /\ mmAttempts' = 0
  /\ UNCHANGED <<controller, goroutines, menu, board, width, shown, crashed, history>>

\* The error of Connect is ignored: the reader is started without a connection.
MMConnectFails ==
  /\ ui = "connect"
  /\ mmAttempts' = mmAttempts + 1
  /\ crashed' = IF mmAttempts + 1 = MaxAttempts THEN "matchmaking" ELSE crashed
  /\ UNCHANGED <<controller, goroutines, menu, board, ui, width, shown, history>>

ClickConnect(g) ==
  /\ ui = "idle" /\ shown.screen = "ConnectMenu"
  /\ \A h \in Goroutines : pc[h] = "off" <=> h >= g
  /\ Go(g, "check")
  /\ UNCHANGED <<controller, attempts, reads, menu, board, window, history>>

ClickNewGame ==
  /\ ui = "idle" /\ shown.newGame
  /\ state' = "GameStartMenu"
  /\ stale' = (stale \/ state # "GameScreen" \/ ~ended)
  /\ UNCHANGED <<controller, goroutines, ended, board, window, raced, grew>>

\* The switch over menu.state.
Frame ==
  /\ ui = "idle"
  /\ IF state = "GameScreen" THEN ui' = "board" /\ UNCHANGED shown
     ELSE shown' = [screen |-> state, newGame |-> FALSE] /\ UNCHANGED ui
  /\ UNCHANGED <<controller, goroutines, menu, board, mmAttempts, width, crashed, history>>

\* drawBoard takes the lock and ranges over params.Width, which it reads once, ...
BeginDraw ==
  /\ ui = "board"
  /\ ~boardMutex
  /\ boardMutex' = TRUE
  /\ width' = params[1]
  /\ ui' = "drawing"
  /\ UNCHANGED <<controller, goroutines, menu, params, grid, mmAttempts, shown, crashed, history>>

\* boardMutex.Unlock(); mutant: it is forgotten.
UnlockForgotten == UNCHANGED boardMutex
Unlock == boardMutex' = FALSE

\* ... and over params.Height, which it reads again for every column.
EndDraw ==
  /\ ui = "drawing"
  /\ IF width > 0 /\ Exceeds(<<width, params[2]>>, grid)
     THEN crashed' = "drawing" /\ UNCHANGED <<boardMutex, ui, width, shown>>
     ELSE /\ Unlock
          /\ shown' = [screen |-> "GameScreen", newGame |-> ended]
          /\ ui' = "idle" /\ width' = 0
          /\ UNCHANGED crashed
  /\ UNCHANGED <<controller, goroutines, menu, params, grid, mmAttempts, history>>

Window == MMConnect \/ MMConnectFails \/ Frame \/ BeginDraw \/ EndDraw

Next ==
  /\ crashed = "no"
  /\ \/ \E g \in Goroutines :
          \/ Run(g) \/ InitializeGrid(g)
          \/ ReadStart(g) \/ ReadEnd(g) \/ ReadFails(g)
          \/ ClickConnect(g)
     \/ ClickNewGame
     \/ Window

Up == crashed = "no"

\* Goroutines run and frames are drawn.  The lock is free again and again
\* between two frames; a sync.Mutex hands itself to a goroutine that has
\* waited for a millisecond.  Nobody is bound to click or to send a message.
Fairness ==
  /\ WF_vars(Up /\ Window)
  /\ \A g \in Goroutines : /\ WF_vars(Up /\ Run(g))
                           /\ SF_vars(Up /\ InitializeGrid(g))

Spec == Init /\ [][Next]_vars /\ Fairness

-----------------------------------------------------------------------------
(***************************************************************************)
(* Properties.                                                             *)
(***************************************************************************)
Waiting == {"off", "check", "gaveUp", "ended"}
Reading == {"read", "grid", "screen", "result"}
Pcs     == Waiting \cup Reading \cup {"dialing", "assign", "store", "show", "open", "clear", "close", "menu"}

\* Every variable has its type, and the lock is held exactly while drawing.
TypeOK ==
  /\ Connected \in BOOLEAN /\ server \in Conns \cup {0} /\ open \subseteq Conns
  /\ pc \in [Goroutines -> Pcs]
  /\ attempts \in [Goroutines -> 0 .. MaxAttempts]
  /\ reads \in [Goroutines -> Conns \cup {0}]
  /\ state \in {"ConnectMenu", "GameStartMenu", "GameScreen"} /\ ended \in BOOLEAN
  /\ params \in Sizes \cup {<<0, 0>>} /\ grid \in Sizes \cup {<<0, 0>>}
  /\ ui \in {"connect", "idle", "board", "drawing"}
  /\ boardMutex <=> ui = "drawing"
  /\ mmAttempts \in 0 .. MaxAttempts
  /\ crashed \in {"no", "matchmaking", "drawing"}

\* Unless two clicks on Connect met in one of the unguarded places, at most
\* one goroutine is connected or connecting; it reads the connection it
\* dialled, the controller is connected to that one, and what is closed in
\* the end is that one.
OneReader ==
  ~raced =>
    /\ Cardinality({g \in Goroutines : pc[g] \notin Waiting}) <= 1
    /\ \A g \in Goroutines :
         /\ pc[g] \in Reading => reads[g] = g
         /\ pc[g] \in Reading \cup {"clear"} => Connected
         /\ pc[g] \in Reading \cup {"clear", "close"} => server = g /\ g \in open
    /\ Connected => \E g \in Goroutines : pc[g] \in Reading \cup {"store", "show", "open", "clear"}

\* The screens follow the connection, unless clicks on Connect met or New game
\* was clicked on an outdated screen: without a connection the client shows
\* the menu from which one can connect, and with one it shows another.
MenuFollows ==
  ~raced /\ ~stale =>
    /\ (\A g \in Goroutines : pc[g] \in Waiting) => state = "ConnectMenu"
    /\ (\E g \in Goroutines : pc[g] \in Reading) => state # "ConnectMenu"

\* The client goes down only when there never was a matchmaking server, when
\* a larger game starts while the board is drawn, since manager.params is ahead
\* of the grid for a moment, or when two clicks on Connect gave it two readers.
NoPanic ==
  /\ crashed = "matchmaking" => mmAttempts = MaxAttempts
  /\ crashed = "drawing" => grew \/ raced

\* A goroutine of the connect button does not hang: it gives up, or comes to
\* wait for the next message, whenever it is not there, and ends with the
\* connection.  Drawing does not keep a new game from being set up.
Progresses ==
  \A g \in Goroutines :
    pc[g] \notin {"off", "read"} ~> (pc[g] \in {"read", "gaveUp", "ended"} \/ ~Up)
=============================================================================
