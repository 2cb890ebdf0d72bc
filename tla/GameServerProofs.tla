-------------------------- MODULE GameServerProofs --------------------------
(***************************************************************************)
(* The safety properties of module GameServer, for any players, parameters,*)
(* boards and bounds, on the lemmas of MinesProofs about boards and moves. *)
(***************************************************************************)
EXTENDS GameServer, MinesProofs, SequenceTheorems

USE ServerAssumption

-----------------------------------------------------------------------------
(***************************************************************************)
(* The values of the variables.                                            *)
(***************************************************************************)
Spots == Nat \X Nat
GoodParams == {p \in Params : ValidParams(p)}

Updates == UNION {[S -> Nat] : S \in SUBSET Spots}
Msgs ==
  [kind : {"Start"}, params : GoodParams]
    \cup [kind : {"Cells"}, updates : Updates]
    \cup [kind : {"Info"}, marks : Updates]
    \cup [kind : {"End"}, end : {"Win", "Loss", "Aborted"}]

Boards ==
  {b \in [width : Nat \ {0}, height : Nat \ {0}, mines : Nat, mine : SUBSET Spots,
          revealed : SUBSET Spots, flagged : SUBSET Spots, revealedCells : Nat] : Sound(b)}

GameRecs == [board : Boards, params : GoodParams, marks : Updates, scores : [PlayerIds -> Int]]

\* The board is one for the parameters, and the marks cover it.
GameOK(x) ==
  /\ x.board.width = x.params.width /\ x.board.height = x.params.height
  /\ x.marks \in [Cells(x.board) -> PlayerIds \cup {0}]

MoveResults == {"NoChange", "MineBlown", "CellRevealed", "Flagged", "GameWon"}

Casts ==
  [kind : {"start", "move"}, pc : {"next", "cast"}, msgs : Seq(Msgs), left : SUBSET Conns,
   then : {"create", "run", "return", "stop"}, arg : Params \cup Nat]
Tokens == [kind : {"token"}, pc : {"answer"}, success : BOOLEAN]
Wants == [kind : {"move"}, pc : {"want"}, type : MoveTypesSent, cell : Spots]
Modes == [kind : {"move"}, pc : {"mode"}, g : Nat, result : MoveResults, updated : SUBSET Spots]
Encodes == [kind : {"move"}, pc : {"encode"}, g : Nat, result : MoveResults,
            updated : SUBSET Spots, info : Seq(Msgs)]

Handlers == {Idle} \cup Casts \cup Tokens \cup Wants \cup Modes \cup Encodes

Joins ==
  [pc : JoinPcs \ {"sendStart", "sendCells"}] \cup [pc : {"sendStart", "sendCells"}, msg : Msgs]

Screens == {"menu", "game", "gone", "dead"}
ShownCells == [rev : Int, flag : BOOLEAN]
Grids == UNION {[S -> ShownCells] : S \in SUBSET Spots}
Views == [screen : Screens, end : {"none", "Win", "Loss", "Aborted"},
          grid : Grids, color : Updates]

\* What a handler may rely on.
HandlerOK(h) ==
  /\ h.pc = "want" => game # 0
  /\ h.pc \in {"mode", "encode"} =>
       h.g \in DOMAIN games /\ h.updated \subseteq Cells(games[h.g].board)
  /\ h.pc \in {"next", "cast"} =>
       /\ h.then = "create" => h.kind = "start" /\ h.arg \in Params
       /\ h.then = "run" => h.kind = "start" /\ game # 0
       /\ h.then = "stop" => h.kind = "move" /\ h.arg \in DOMAIN games
       /\ h.then = "return" => h.kind = "move"
       /\ h.pc = "cast" => h.msgs # << >>

TypedGames ==
  /\ games \in Seq(GameRecs) /\ \A g \in DOMAIN games : GameOK(games[g])
  /\ ends \in Seq([Win : Nat, Loss : Nat]) /\ Len(ends) = Len(games)
  /\ game = Len(games)
  /\ gameRunning \in BOOLEAN
  /\ gameRunning => game # 0

TypedHandlers ==
  /\ handler \in [Conns -> Handlers] /\ \A c \in Conns : HandlerOK(handler[c])
  /\ moveMux \in Conns \cup {0}
  /\ \A c \in Conns : moveMux = c <=> handler[c].pc = "mode"

TypedJoins ==
  /\ joining \in [Conns -> Joins]
  /\ \A c \in Conns : joining[c].pc \in {"start", "sendStart", "cells"} => game # 0

TypedNet ==
  /\ players \subseteq Conns /\ lost \subseteq Conns
  /\ connected \in [Conns -> BOOLEAN]
  /\ out \in [Conns -> Seq(Msgs)] /\ \A c \in Slow : Len(out[c]) <= ChanCap
  /\ view \in [Conns -> Views]
  /\ crashed \in BOOLEAN

Typed == TypedGames /\ TypedHandlers /\ TypedJoins /\ TypedNet

LEMMA TypedIsTypeOK == Typed => TypeOK
<1> SUFFICES ASSUME Typed PROVE TypeOK
  OBVIOUS
<1> USE DEF Typed, TypedGames, TypedHandlers, TypedJoins, TypedNet
<1>1. DOMAIN ends = DOMAIN games
  BY LenProperties
<1>2. ASSUME NEW g \in DOMAIN games PROVE IsBoard(games[g].board) /\ ValidParams(games[g].params)
  <2>1. games[g] \in GameRecs
    BY ElementOfSeq, LenProperties
  <2>2. QED
    BY <2>1 DEF GameRecs, Boards, Sound, GoodParams
<1>3. ASSUME NEW c \in Conns
      PROVE  handler[c].pc \in HandlerPcs /\ joining[c].pc \in JoinPcs
  <2>1. handler[c] \in Handlers /\ joining[c] \in Joins
    OBVIOUS
  <2>2. handler[c].pc \in HandlerPcs
    BY <2>1 DEF Handlers, Casts, Tokens, Wants, Modes, Encodes, HandlerPcs, Idle
  <2>3. joining[c].pc \in JoinPcs
    <3>1. CASE joining[c] \in [pc : JoinPcs \ {"sendStart", "sendCells"}]
      BY <3>1
    <3>2. CASE joining[c] \in [pc : {"sendStart", "sendCells"}, msg : Msgs]
      BY <3>2 DEF JoinPcs, InGamePcs
    <3>3. QED
      BY <2>1, <3>1, <3>2 DEF Joins
  <2>4. QED
    BY <2>2, <2>3
<1>4. QED
  BY <1>1, <1>2, <1>3 DEF TypeOK
\* Where a handler is tells what it has.
LEMMA HandlerFields ==
  ASSUME NEW h \in Handlers
  PROVE  /\ h.pc \in HandlerPcs
         /\ h.pc = "idle" <=> h = Idle
         /\ h.pc = "answer" <=> h \in Tokens
         /\ h.pc \in {"next", "cast"} <=> h \in Casts
         /\ h.pc = "want" <=> h \in Wants
         /\ h.pc = "mode" <=> h \in Modes
         /\ h.pc = "encode" <=> h \in Encodes
<1>1. CASE h = Idle
  BY <1>1 DEF Idle, Casts, Tokens, Wants, Modes, Encodes, HandlerPcs
<1>2. CASE h \in Casts
  BY <1>2 DEF Idle, Casts, Tokens, Wants, Modes, Encodes, HandlerPcs
<1>3. CASE h \in Tokens
  BY <1>3 DEF Idle, Casts, Tokens, Wants, Modes, Encodes, HandlerPcs
<1>4. CASE h \in Wants
  BY <1>4 DEF Idle, Casts, Tokens, Wants, Modes, Encodes, HandlerPcs
<1>5. CASE h \in Modes
  BY <1>5 DEF Idle, Casts, Tokens, Wants, Modes, Encodes, HandlerPcs
<1>6. CASE h \in Encodes
  BY <1>6 DEF Idle, Casts, Tokens, Wants, Modes, Encodes, HandlerPcs
<1>7. QED
  BY <1>1, <1>2, <1>3, <1>4, <1>5, <1>6 DEF Handlers

\* The steps of a broadcast.
LEMMA CastSteps ==
  ASSUME NEW h \in Casts, NEW S \in SUBSET Conns
  PROVE  /\ [h EXCEPT !.pc = "cast", !.left = S]
              = [kind |-> h.kind, pc |-> "cast", msgs |-> h.msgs, left |-> S,
                 then |-> h.then, arg |-> h.arg]
         /\ [h EXCEPT !.left = S]
              = [kind |-> h.kind, pc |-> h.pc, msgs |-> h.msgs, left |-> S,
                 then |-> h.then, arg |-> h.arg]
         /\ h = [kind |-> h.kind, pc |-> h.pc, msgs |-> h.msgs, left |-> h.left,
                 then |-> h.then, arg |-> h.arg]
<1>1. PICK k, p, m, l, t, a :
        h = [kind |-> k, pc |-> p, msgs |-> m, left |-> l, then |-> t, arg |-> a]
  BY DEF Casts
<1>2. h.kind = k /\ h.pc = p /\ h.msgs = m /\ h.left = l /\ h.then = t /\ h.arg = a
  BY <1>1
<1>3. [h EXCEPT !.left = S]
        = [kind |-> k, pc |-> p, msgs |-> m, left |-> S, then |-> t, arg |-> a]
  BY <1>1
<1>4. [h EXCEPT !.pc = "cast", !.left = S]
        = [kind |-> k, pc |-> "cast", msgs |-> m, left |-> S, then |-> t, arg |-> a]
  <2>1. PICK g : g = [h EXCEPT !.pc = "cast"]
    OBVIOUS
  <2>2. g = [kind |-> k, pc |-> "cast", msgs |-> m, left |-> l, then |-> t, arg |-> a]
    BY <1>1, <2>1
  <2>3. [g EXCEPT !.left = S]
          = [kind |-> k, pc |-> "cast", msgs |-> m, left |-> S, then |-> t, arg |-> a]
    BY <2>2
  <2>4. [h EXCEPT !.pc = "cast", !.left = S] = [[h EXCEPT !.pc = "cast"] EXCEPT !.left = S]
    OBVIOUS
  <2>5. QED
    BY <2>1, <2>3, <2>4, Zenon
<1>5. QED
  BY <1>1, <1>2, <1>3, <1>4, Zenon

\* One handler takes a step.
LEMMA GotoOnly ==
  ASSUME handler \in [Conns -> Handlers], NEW c \in Conns, NEW h \in Handlers, Goto(c, h)
  PROVE  /\ handler' \in [Conns -> Handlers]
         /\ handler'[c] = Settle(h) /\ (handler'[c] = h \/ handler'[c] = Idle)
         /\ \A d \in Conns \ {c} : handler'[d] = handler[d]
<1>1. Settle(h) \in Handlers /\ (Settle(h) = h \/ Settle(h) = Idle)
  BY DEF Settle, Handlers
<1>2. QED
  BY <1>1 DEF Goto

\* What handlers rely on does not go away.
Grown ==
  /\ game # 0 => game' # 0
  /\ \A g \in DOMAIN games :
       g \in DOMAIN games' /\ Cells(games'[g].board) = Cells(games[g].board)

LEMMA KeptOK ==
  ASSUME Grown, NEW h, HandlerOK(h)
  PROVE  HandlerOK(h)'
<1>1. h.pc = "want" => game' # 0
  BY DEF HandlerOK, Grown
<1>2. h.pc \in {"mode", "encode"} =>
        h.g \in DOMAIN games' /\ h.updated \subseteq Cells(games'[h.g].board)
  BY DEF HandlerOK, Grown
<1>3. h.pc \in {"next", "cast"} =>
        /\ h.then = "create" => h.kind = "start" /\ h.arg \in Params
        /\ h.then = "run" => h.kind = "start" /\ game' # 0
        /\ h.then = "stop" => h.kind = "move" /\ h.arg \in DOMAIN games'
        /\ h.then = "return" => h.kind = "move"
        /\ h.pc = "cast" => h.msgs # << >>
  BY DEF HandlerOK, Grown
<1>4. QED
  BY <1>1, <1>2, <1>3 DEF HandlerOK

LEMMA GotoTyped ==
  ASSUME TypedHandlers, Grown, NEW c \in Conns, NEW h \in Handlers, Goto(c, h), HandlerOK(h)',
         \/ h.pc # "mode" /\ handler[c].pc # "mode" /\ UNCHANGED moveMux
         \/ h.pc # "mode" /\ handler[c].pc = "mode" /\ moveMux' = 0
         \/ h.pc = "mode" /\ moveMux = 0 /\ moveMux' = c
  PROVE  TypedHandlers'
<1> USE DEF TypedHandlers
<1>1. /\ handler' \in [Conns -> Handlers] /\ (handler'[c] = h \/ handler'[c] = Idle)
      /\ \A d \in Conns \ {c} : handler'[d] = handler[d]
  BY GotoOnly
<1>2. ASSUME NEW d \in Conns PROVE HandlerOK(handler[d])'
  <2>1. CASE d # c
    <3>1. PICK k : k = handler[d]
      OBVIOUS
    <3>2. HandlerOK(k)'
      BY <3>1, KeptOK
    <3>3. QED
      BY <1>1, <2>1, <3>1, <3>2
  <2>2. CASE d = c /\ handler'[c] = h
    BY <2>2
  <2>3. CASE d = c /\ handler'[c] = Idle
    BY <2>3 DEF HandlerOK, Idle
  <2>4. QED
    BY <1>1, <2>1, <2>2, <2>3
<1>3. 0 \notin Conns
  BY PlayerIdsAssumption DEF Conns
<1>4. handler'[c].pc = "mode" <=> h.pc = "mode"
  <2>1. CASE h.pc # "mode"
    BY <1>1, <2>1 DEF Idle
  <2>2. CASE h.pc = "mode"
    BY <1>1, <2>2, GotoOnly DEF Settle, Finished
  <2>3. QED
    BY <2>1, <2>2
<1>5. moveMux' \in Conns \cup {0} /\ \A d \in Conns : moveMux' = d <=> handler'[d].pc = "mode"
  BY <1>1, <1>3, <1>4
<1>6. QED
  BY <1>1, <1>2, <1>5

\* A step that leaves the games alone.
LEMMA SameGames ==
  ASSUME TypedGames, UNCHANGED <<games, game, gameRunning, ends>>
  PROVE  TypedGames' /\ Grown
  BY DEF TypedGames, Grown

LEMMA SameHandlers ==
  ASSUME TypedHandlers, UNCHANGED <<games, game, moveMux, handler>>
  PROVE  TypedHandlers'
  BY DEF TypedHandlers, HandlerOK
-----------------------------------------------------------------------------
(***************************************************************************)
(* Boards, games and messages.                                             *)
(***************************************************************************)
LEMMA BoardIs ==
  ASSUME NEW b, Sound(b)
  PROVE  b \in Boards /\ Cells(b) \subseteq Spots
<1>1. b \in [width : Nat \ {0}, height : Nat \ {0}, mines : Nat, mine : SUBSET Cells(b),
             revealed : SUBSET Cells(b), flagged : SUBSET Cells(b), revealedCells : Nat]
  BY DEF Sound, IsBoard
<1>2. Cells(b) \subseteq Spots
  BY <1>1 DEF Cells, Spots
<1>3. QED
  BY <1>1, <1>2 DEF Boards

LEMMA GameAt ==
  ASSUME TypedGames, NEW g \in DOMAIN games
  PROVE  /\ games[g] \in GameRecs /\ GameOK(games[g])
         /\ games[g].board \in Boards /\ Sound(games[g].board) /\ IsBoard(games[g].board)
         /\ Cells(games[g].board) \subseteq Spots
         /\ games[g].params \in GoodParams /\ g \in Nat \ {0}
<1>1. games[g] \in GameRecs /\ GameOK(games[g]) /\ g \in Nat \ {0}
  BY ElementOfSeq, LenProperties DEF TypedGames
<1>2. games[g].board \in Boards /\ games[g].params \in GoodParams
  BY <1>1 DEF GameRecs
<1>3. Sound(games[g].board)
  BY <1>2 DEF Boards
<1>4. QED
  BY <1>1, <1>2, <1>3, BoardIs DEF Sound

LEMMA RunningGame ==
  ASSUME TypedGames, game # 0
  PROVE  game \in DOMAIN games
  BY LenProperties DEF TypedGames

LEMMA UpdatesAre ==
  ASSUME NEW b, IsBoard(b), NEW cb, NEW S \in SUBSET Spots
  PROVE  CreateCellUpdates(b, cb, S) \in Updates
<1>1. ASSUME NEW c \in S PROVE CellValue(b, cb, c) \in Nat
  <2>1. NumberOfMines(b, c) \in Nat
    <3>1. IsFiniteSet(Neighbours(b, c) \cap b.mine)
      BY CellsFinite, FS_Subset DEF Neighbours
    <3>2. QED
      BY <3>1, FS_CardinalityType DEF NumberOfMines
  <2>2. QED
    BY <2>1 DEF CellValue, ShowMine, ShowFlag, Unflag
<1>2. [c \in S |-> CellValue(b, cb, c)] \in [S -> Nat]
  BY <1>1
<1>3. QED
  BY <1>2 DEF CreateCellUpdates, Updates

LEMMA MsgsAre ==
  /\ \A p \in GoodParams : StartMsg(p) \in Msgs
  /\ \A u \in Updates : CellsMsg(u) \in Msgs /\ InfoMsg(u) \in Msgs
  /\ \A e \in {"Win", "Loss", "Aborted"} : EndMsg(e) \in Msgs
  BY DEF Msgs, StartMsg, CellsMsg, InfoMsg, EndMsg

LEMMA CastingIs ==
  ASSUME NEW k \in {"start", "move"}, NEW msgs \in Seq(Msgs),
         NEW then \in {"create", "run", "return", "stop"}, NEW arg \in Params \cup Nat
  PROVE  /\ Casting(k, msgs, then, arg) \in Casts
         /\ Casting(k, msgs, then, arg).kind = k
         /\ Casting(k, msgs, then, arg).pc = "next"
         /\ Casting(k, msgs, then, arg).msgs = msgs
         /\ Casting(k, msgs, then, arg).left = {}
         /\ Casting(k, msgs, then, arg).then = then
         /\ Casting(k, msgs, then, arg).arg = arg
  BY DEF Casting, Casts

\* A move that is no error, on a board a game can be in.
LEMMA MoveIs ==
  ASSUME NEW b, Sound(b), NEW type, NEW cell, NEW r, r = MakeMove(b, type, cell),
         r.result # "Error"
  PROVE  /\ cell \in Cells(b) /\ Sound(r.board) /\ SameMines(b, r.board)
         /\ Cells(r.board) = Cells(b) /\ r.board \in Boards
         /\ r.updated \subseteq Cells(b) /\ r.result \in MoveResults
         /\ r.result = "GameWon" <=> Cleared(r.board) /\ ~Cleared(b)
         /\ Cleared(b) => Cleared(r.board)
<1>1. type \in MoveTypes /\ cell \in Cells(b)
  BY DEF MakeMove, Unchanged
<1>2. CASE type = "Reveal"
  <2>1. r = Reveal(b, cell)
    BY <1>1, <1>2 DEF MakeMove
  <2>2. RevealPost(b, cell, r)
    BY <1>1, <2>1, RevealEffect
  <2>3. Cells(r.board) = Cells(b)
    BY <2>2 DEF RevealPost, SameMines, Cells
  <2>4. r.updated \subseteq Cells(b) /\ r.result \in MoveResults
    BY <2>2 DEF RevealPost, Hidden, MoveResults
  <2>5. Cleared(b) => Cleared(r.board)
    BY <2>2, <2>3 DEF RevealPost, Cleared, SafeCells, SameMines
  <2>6. QED
    BY <1>1, <2>2, <2>3, <2>4, <2>5, BoardIs DEF RevealPost
<1>3. CASE type = "Flag"
  <2>1. r = Flag(b, cell)
    BY <1>1, <1>3 DEF MakeMove
  <2>2. /\ Sound(r.board)
        /\ SameMines(b, r.board)
        /\ r.board.revealed = b.revealed
        /\ r.updated \subseteq {cell} \ b.revealed
        /\ r.result \in {"NoChange", "Flagged"}
    BY <1>1, <2>1, FlagEffect
  <2>3. Cells(r.board) = Cells(b)
    BY <2>2 DEF SameMines, Cells
  <2>4. Cleared(r.board) <=> Cleared(b)
    BY <2>2, <2>3 DEF Cleared, SafeCells, SameMines
  <2>5. QED
    BY <1>1, <2>2, <2>3, <2>4, BoardIs DEF MoveResults
<1>4. QED
  BY <1>1, <1>2, <1>3 DEF MoveTypes

-----------------------------------------------------------------------------
(***************************************************************************)
(* What is sent.                                                           *)
(***************************************************************************)
\* A client's view, one field changed.
LEMMA ViewSteps ==
  ASSUME NEW v \in Views
  PROVE  /\ \A s \in Screens : [v EXCEPT !.screen = s] \in Views
         /\ \A e \in {"Win", "Loss", "Aborted"} : [v EXCEPT !.end = e] \in Views
         /\ \A g \in Grids : [v EXCEPT !.grid = g] \in Views
         /\ \A k \in Updates : [v EXCEPT !.color = k] \in Views
<1>1. PICK s \in Screens, e \in {"none", "Win", "Loss", "Aborted"}, g \in Grids, k \in Updates :
        v = [screen |-> s, end |-> e, grid |-> g, color |-> k]
  BY DEF Views
<1>2. ASSUME NEW x \in Screens PROVE [v EXCEPT !.screen = x] \in Views
  <2>1. [v EXCEPT !.screen = x] = [screen |-> x, end |-> e, grid |-> g, color |-> k]
    BY <1>1
  <2>2. QED
    BY <2>1 DEF Views
<1>3. ASSUME NEW x \in {"Win", "Loss", "Aborted"} PROVE [v EXCEPT !.end = x] \in Views
  <2>1. [v EXCEPT !.end = x] = [screen |-> s, end |-> x, grid |-> g, color |-> k]
    BY <1>1
  <2>2. QED
    BY <2>1 DEF Views
<1>4. ASSUME NEW x \in Grids PROVE [v EXCEPT !.grid = x] \in Views
  <2>1. [v EXCEPT !.grid = x] = [screen |-> s, end |-> e, grid |-> x, color |-> k]
    BY <1>1
  <2>2. QED
    BY <2>1 DEF Views
<1>5. ASSUME NEW x \in Updates PROVE [v EXCEPT !.color = x] \in Views
  <2>1. [v EXCEPT !.color = x] = [screen |-> s, end |-> e, grid |-> g, color |-> x]
    BY <1>1
  <2>2. QED
    BY <2>1 DEF Views
<1>6. QED
  BY <1>2, <1>3, <1>4, <1>5

LEMMA FirstView == NewView \in Views /\ Dead(NewView) \in Views
<1>1. << >> \in [{} -> ShownCells] /\ << >> \in [{} -> Nat]
  OBVIOUS
<1>2. << >> \in Grids /\ << >> \in Updates
  BY <1>1 DEF Grids, Updates
<1>3. NewView \in Views
  BY <1>2 DEF NewView, Views, Screens
<1>4. QED
  BY <1>3, ViewSteps DEF Dead, Screens

\* A client keeps to cells whatever message it handles.
LEMMA HandledIs ==
  ASSUME NEW v \in Views, NEW m \in Msgs
  PROVE  Handled(v, m) \in Views
<1>0. Dead(v) \in Views
  BY FirstView DEF Dead
<1>1. CASE m \in [kind : {"Start"}, params : GoodParams]
  <2>1. m.params \in [width : Nat, height : Nat, mines : Nat, mode : STRING]
    BY <1>1 DEF GoodParams
  <2>2. PICK S \in SUBSET Spots : S = Cells(m.params)
    <3>1. m.params.width \in Nat /\ m.params.height \in Nat
      BY <2>1
    <3>2. Cells(m.params) \subseteq Spots
      BY <3>1 DEF Cells, Spots
    <3>3. QED
      BY <3>2
  <2>3. [d \in S |-> HiddenCell] \in [S -> ShownCells] /\ [d \in S |-> 0] \in [S -> Nat]
    BY DEF HiddenCell, ShownCells
  <2>4. [d \in S |-> HiddenCell] \in Grids /\ [d \in S |-> 0] \in Updates
    BY <2>3 DEF Grids, Updates
  <2>5. StartView(m.params) \in Views
    BY <2>2, <2>4 DEF StartView, Views, Screens
  <2>6. QED
    BY <1>1, <2>5 DEF Handled
<1>2. CASE m \in [kind : {"Cells"}, updates : Updates]
  <2>1. PICK U \in SUBSET Spots : m.updates \in [U -> Nat]
    BY <1>2 DEF Updates
  <2>2. PICK S \in SUBSET Spots : v.grid \in [S -> ShownCells]
    BY DEF Views, Grids
  <2>3. PICK u : u = m.updates
    OBVIOUS
  <2>4. DOMAIN u = U /\ DOMAIN v.grid = S
    BY <2>1, <2>2, <2>3
  <2>5. ASSUME NEW d \in S, NEW n \in Nat PROVE ShowCell(v.grid[d], n) \in ShownCells
    <3>1. PICK k \in ShownCells : k = v.grid[d]
      BY <2>2
    <3>2. PICK r \in Int, f \in BOOLEAN : k = [rev |-> r, flag |-> f]
      BY DEF ShownCells
    <3>3. /\ [k EXCEPT !.flag = TRUE] \in ShownCells
          /\ [k EXCEPT !.flag = FALSE] \in ShownCells
          /\ [k EXCEPT !.rev = n] \in ShownCells
      <4>1. ASSUME NEW x \in BOOLEAN PROVE [k EXCEPT !.flag = x] \in ShownCells
        <5>1. [k EXCEPT !.flag = x] = [rev |-> r, flag |-> x]
          BY <3>2
        <5>2. QED
          BY <5>1 DEF ShownCells
      <4>2. [k EXCEPT !.rev = n] \in ShownCells
        <5>1. [k EXCEPT !.rev = n] = [rev |-> n, flag |-> f]
          BY <3>2
        <5>2. QED
          BY <5>1 DEF ShownCells
      <4>3. QED
        BY <4>1, <4>2
    <3>4. ShowCell(k, n) \in ShownCells
      BY <3>3 DEF ShowCell
    <3>5. QED
      BY <3>1, <3>4
  <2>6. [d \in S |-> IF d \in U THEN ShowCell(v.grid[d], u[d]) ELSE v.grid[d]] \in Grids
    <3>1. ASSUME NEW d \in S
          PROVE  (IF d \in U THEN ShowCell(v.grid[d], u[d]) ELSE v.grid[d]) \in ShownCells
      <4>1. CASE d \in U
        BY <2>1, <2>3, <2>5, <4>1
      <4>2. CASE d \notin U
        BY <2>2, <4>2
      <4>3. QED
        BY <4>1, <4>2
    <3>2. [d \in S |-> IF d \in U THEN ShowCell(v.grid[d], u[d]) ELSE v.grid[d]]
            \in [S -> ShownCells]
      BY <3>1
    <3>3. QED
      BY <3>2 DEF Grids
  <2>7. ApplyCells(v, u) \in Views
    BY <1>0, <2>4, <2>6, ViewSteps DEF ApplyCells
  <2>8. QED
    BY <1>2, <2>3, <2>7 DEF Handled
<1>3. CASE m \in [kind : {"Info"}, marks : Updates]
  <2>1. PICK U \in SUBSET Spots : m.marks \in [U -> Nat]
    BY <1>3 DEF Updates
  <2>2. PICK S \in SUBSET Spots : v.color \in [S -> Nat]
    BY DEF Views, Updates
  <2>3. [d \in S |-> IF d \in U THEN m.marks[d] ELSE v.color[d]] \in [S -> Nat]
    BY <2>1, <2>2
  <2>4. [d \in S |-> IF d \in U THEN m.marks[d] ELSE v.color[d]] \in Updates
    BY <2>3 DEF Updates
  <2>5. ApplyInfo(v, m.marks) \in Views
    BY <1>0, <2>1, <2>2, <2>4, ViewSteps DEF ApplyInfo
  <2>6. QED
    BY <1>3, <2>5 DEF Handled
<1>4. CASE m \in [kind : {"End"}, end : {"Win", "Loss", "Aborted"}]
  BY <1>4, ViewSteps DEF Handled
<1>5. QED
  BY <1>1, <1>2, <1>3, <1>4 DEF Msgs

LEMMA SendTyped ==
  ASSUME TypedNet, NEW c \in Conns, NEW m \in Msgs, SendMessage(c, m),
         UNCHANGED <<players, connected, view, crashed>>
  PROVE  TypedNet'
<1> USE DEF TypedNet
<1>1. CASE connected[c] /\ ~Full(c)
  <2>1. out' = [out EXCEPT ![c] = Append(@, m)] /\ lost' = lost
    BY <1>1 DEF SendMessage
  <2>2. /\ Append(out[c], m) \in Seq(Msgs) /\ Len(Append(out[c], m)) = Len(out[c]) + 1
        /\ Len(out[c]) \in Nat
    BY AppendProperties, LenProperties
  <2>3. c \in Slow => Len(out[c]) + 1 <= ChanCap
    BY <1>1, <2>2 DEF Full
  <2>4. QED
    BY <2>1, <2>2, <2>3 DEF Conns
<1>2. CASE ~(connected[c] /\ ~Full(c))
  <2>1. UNCHANGED out /\ lost' \in {lost, lost \cup {c}}
    BY <1>2 DEF SendMessage
  <2>2. QED
    BY <2>1
<1>3. QED
  BY <1>1, <1>2

LEMMA DropTyped ==
  ASSUME TypedNet, NEW c \in Conns, Drop(c), UNCHANGED <<players, lost, crashed>>
  PROVE  TypedNet'
<1>1. << >> \in Seq(Msgs) /\ Len(<< >>) = 0
  OBVIOUS
<1>2. /\ connected' = [connected EXCEPT ![c] = FALSE] /\ out' = [out EXCEPT ![c] = << >>]
      /\ view' = [view EXCEPT ![c].screen = "gone"]
  BY DEF Drop
<1>3. view' \in [Conns -> Views]
  <2>1. PICK v \in Views : v = view[c]
    BY DEF TypedNet
  <2>2. view' = [view EXCEPT ![c] = [v EXCEPT !.screen = "gone"]]
    BY <1>2, <2>1 DEF TypedNet
  <2>3. [v EXCEPT !.screen = "gone"] \in Views
    BY ViewSteps DEF Screens
  <2>4. QED
    BY <2>2, <2>3 DEF TypedNet
<1>4. QED
  BY <1>1, <1>2, <1>3 DEF TypedNet, Conns

LEMMA JoinTyped ==
  ASSUME TypedJoins, game # 0 => game' # 0, NEW c \in Conns, NEW j \in Joins,
         joining' = [joining EXCEPT ![c] = j],
         j.pc \in {"start", "sendStart", "cells"} => game' # 0
  PROVE  TypedJoins'
  BY DEF TypedJoins

LEMMA SameJoins ==
  ASSUME TypedJoins, game # 0 => game' # 0, UNCHANGED joining
  PROVE  TypedJoins'
  BY DEF TypedJoins

LEMMA SameNet ==
  ASSUME TypedNet, UNCHANGED <<players, lost, connected, out, view, crashed>>
  PROVE  TypedNet'
  BY DEF TypedNet

\* The progress of a join, by name.
LEMMA PlainJoins ==
  /\ \A p \in JoinPcs \ {"sendStart", "sendCells"} : [pc |-> p] \in Joins
  /\ \A p \in {"sendStart", "sendCells"}, m \in Msgs : [pc |-> p, msg |-> m] \in Joins
  /\ \A j \in Joins : /\ j.pc \in JoinPcs
                      /\ j.pc \in {"sendStart", "sendCells"} => j.msg \in Msgs
<1>1. ASSUME NEW j \in Joins
      PROVE  j.pc \in JoinPcs /\ (j.pc \in {"sendStart", "sendCells"} => j.msg \in Msgs)
  <2>1. CASE j \in [pc : JoinPcs \ {"sendStart", "sendCells"}]
    BY <2>1
  <2>2. CASE j \in [pc : {"sendStart", "sendCells"}, msg : Msgs]
    BY <2>2 DEF JoinPcs, InGamePcs
  <2>3. QED
    BY <2>1, <2>2 DEF Joins
<1>2. QED
  BY <1>1 DEF Joins
-----------------------------------------------------------------------------
(***************************************************************************)
(* Each step keeps the types.                                              *)
(***************************************************************************)
\* A step of a goroutine that accepted a connection, but Register.
LEMMA JoinStepTyped ==
  ASSUME Typed, NEW c \in Conns,
         \/ Accept(c) \/ AuthTimeout(c) \/ SwapHandlers(c) \/ JoinCheck(c) \/ JoinEncodeStart(c)
         \/ JoinSendStart(c) \/ JoinEncodeCells(c) \/ JoinSendCells(c)
  PROVE  Typed'
<1> USE DEF Typed
<1>0. joining[c] \in Joins
  BY DEF TypedJoins
<1>1. UNCHANGED <<games, game, gameRunning, ends, moveMux, handler, players, crashed>>
  BY DEF Accept, AuthTimeout, SwapHandlers, JoinCheck, JoinEncodeStart, JoinSendStart,
         JoinEncodeCells, JoinSendCells, server, history
<1>2. TypedGames' /\ TypedHandlers'
  BY <1>1, SameGames, SameHandlers
<1>3. CASE Accept(c)
  <2>1. TypedJoins'
    BY <1>1, <1>3, PlainJoins, JoinTyped DEF Accept, JoinPcs
  <2>2. TypedNet'
    <3>1. connected' = [connected EXCEPT ![c] = TRUE] /\ UNCHANGED <<out, view, lost>>
      BY <1>3 DEF Accept
    <3>2. QED
      BY <1>1, <3>1 DEF TypedNet
  <2>3. QED
    BY <1>2, <2>1, <2>2
<1>4. CASE AuthTimeout(c) \/ SwapHandlers(c) \/ JoinCheck(c)
  <2>1. TypedNet'
    BY <1>1, <1>4, SameNet DEF AuthTimeout, SwapHandlers, JoinCheck, history
  <2>2. PICK p \in JoinPcs \ {"sendStart", "sendCells"} :
          /\ joining' = [joining EXCEPT ![c] = [pc |-> p]]
          /\ (p = "start" => gameRunning) /\ p # "cells"
    BY <1>4 DEF AuthTimeout, SwapHandlers, JoinCheck, JoinPcs, InGamePcs
  <2>3. TypedJoins'
    BY <1>1, <2>2, PlainJoins, JoinTyped DEF TypedGames
  <2>4. QED
    BY <1>2, <2>1, <2>3
<1>5. CASE JoinEncodeStart(c)
  <2>1. game # 0 /\ game \in DOMAIN games
    BY <1>5, RunningGame DEF JoinEncodeStart, TypedJoins
  <2>2. StartMsg(games[game].params) \in Msgs
    BY <2>1, GameAt, MsgsAre
  <2>3. TypedJoins'
    BY <1>1, <1>5, <2>1, <2>2, PlainJoins, JoinTyped DEF JoinEncodeStart
  <2>4. QED
    BY <1>1, <1>2, <1>5, <2>3, SameNet DEF JoinEncodeStart, history
<1>6. CASE JoinSendStart(c)
  <2>1. joining[c].msg \in Msgs /\ game # 0
    BY <1>0, <1>6, PlainJoins DEF JoinSendStart, TypedJoins
  <2>2. TypedNet'
    BY <1>1, <1>6, <2>1, SendTyped DEF JoinSendStart
  <2>3. TypedJoins'
    BY <1>1, <1>6, <2>1, PlainJoins, JoinTyped DEF JoinSendStart, JoinPcs, InGamePcs
  <2>4. QED
    BY <1>2, <2>2, <2>3
<1>7. CASE JoinEncodeCells(c)
  <2>1. game # 0 /\ game \in DOMAIN games
    BY <1>7, RunningGame DEF JoinEncodeCells, TypedJoins
  <2>2. CellsMsg(GetChangedCellUpdates(games[game].board)) \in Msgs
    <3>1. IsBoard(games[game].board) /\ Cells(games[game].board) \subseteq Spots
      BY <2>1, GameAt
    <3>2. Marked(games[game].board) \subseteq Spots
      BY <3>1 DEF Marked, IsBoard
    <3>3. QED
      BY <3>1, <3>2, UpdatesAre, MsgsAre DEF GetChangedCellUpdates
  <2>3. TypedJoins'
    BY <1>1, <1>7, <2>1, <2>2, PlainJoins, JoinTyped DEF JoinEncodeCells
  <2>4. QED
    BY <1>1, <1>2, <1>7, <2>3, SameNet DEF JoinEncodeCells, history
<1>8. CASE JoinSendCells(c)
  <2>1. joining[c].msg \in Msgs
    BY <1>0, <1>8, PlainJoins DEF JoinSendCells
  <2>2. TypedNet'
    BY <1>1, <1>8, <2>1, SendTyped DEF JoinSendCells
  <2>3. TypedJoins'
    BY <1>1, <1>8, PlainJoins, JoinTyped DEF JoinSendCells, JoinPcs, InGamePcs
  <2>4. QED
    BY <1>2, <2>2, <2>3
<1>9. QED
  BY <1>3, <1>4, <1>5, <1>6, <1>7, <1>8

LEMMA RegisterTyped ==
  ASSUME Typed, NEW c \in Conns, Register(c)
  PROVE  Typed'
<1> USE DEF Typed
<1>1. UNCHANGED <<games, game, gameRunning, ends, moveMux, connected, out, view, lost, crashed>>
  BY DEF Register, server, history
<1>2. TypedGames' /\ Grown
  BY <1>1, SameGames
<1>3. PICK seen \in SUBSET {d \in Conns : handler[d].pc = "cast"} :
        handler' = [d \in Conns |-> IF d \in seen THEN [handler[d] EXCEPT !.left = @ \cup {c}]
                                                  ELSE handler[d]]
  BY DEF Register
<1>4. ASSUME NEW d \in Conns
      PROVE  /\ handler'[d] \in Handlers /\ handler'[d].pc = handler[d].pc
             /\ HandlerOK(handler[d])'
  <2>0. PICK h : h = handler[d] /\ h \in Handlers /\ HandlerOK(h)
    BY DEF TypedHandlers
  <2>1. CASE d \in seen
    <3>1. h \in Casts /\ h.left \cup {c} \in SUBSET Conns
      BY <2>0, <2>1, HandlerFields DEF Casts
    <3>2. PICK S \in SUBSET Conns : S = h.left \cup {c}
      BY <3>1
    <3>3. handler'[d] = [kind |-> h.kind, pc |-> h.pc, msgs |-> h.msgs, left |-> S,
                         then |-> h.then, arg |-> h.arg]
      BY <1>3, <2>0, <2>1, <3>1, <3>2, CastSteps
    <3>4. handler'[d] \in Casts
      BY <3>1, <3>3 DEF Casts
    <3>5. HandlerOK(handler[d])'
      <4>1. PICK g : g = handler'[d]
        OBVIOUS
      <4>2. /\ g.kind = h.kind /\ g.pc = h.pc /\ g.msgs = h.msgs /\ g.then = h.then
            /\ g.arg = h.arg
        BY <3>3, <4>1
      <4>3. h.pc \in {"next", "cast"}
        BY <3>1, HandlerFields, <2>0
      <4>4. HandlerOK(g)
        BY <2>0, <4>2, <4>3 DEF HandlerOK
      <4>5. HandlerOK(g)'
        BY <1>2, <4>4, KeptOK
      <4>6. QED
        BY <4>1, <4>5
    <3>6. QED
      BY <2>0, <3>3, <3>4, <3>5 DEF Handlers
  <2>2. CASE d \notin seen
    <3>1. handler'[d] = h
      BY <1>3, <2>0, <2>2
    <3>2. HandlerOK(handler[d])'
      BY <1>1, <2>0, <3>1 DEF HandlerOK
    <3>3. QED
      BY <2>0, <3>1, <3>2
  <2>3. QED
    BY <2>1, <2>2
<1>5. TypedHandlers'
  <2>1. handler' \in [Conns -> Handlers]
    BY <1>3, <1>4
  <2>2. moveMux' \in Conns \cup {0} /\ \A d \in Conns : moveMux' = d <=> handler'[d].pc = "mode"
    BY <1>1, <1>4 DEF TypedHandlers
  <2>3. QED
    BY <1>4, <2>1, <2>2 DEF TypedHandlers
<1>6. TypedJoins'
  BY <1>1, PlainJoins, JoinTyped, Zenon DEF Register, JoinPcs, InGamePcs
<1>7. TypedNet'
  BY <1>1 DEF Register, TypedNet
<1>8. QED
  BY <1>2, <1>5, <1>6, <1>7

\* Requests: a handler starts, or the process dies.
LEMMA RequestTyped ==
  ASSUME Typed, NEW c \in Conns, ReadToken(c) \/ HandleStartGame(c) \/ HandleMove(c)
  PROVE  Typed'
<1> USE DEF Typed
<1>1. UNCHANGED <<games, game, gameRunning, ends, moveMux, players, connected, joining,
                out, view, lost>>
  BY DEF ReadToken, HandleStartGame, HandleMove, server
<1>2. TypedGames' /\ Grown /\ TypedJoins'
  BY <1>1, SameGames, SameJoins
<1>3. handler[c] = Idle
  BY DEF ReadToken, HandleStartGame, HandleMove, Reads
<1>4. TypedNet'
  BY <1>1 DEF ReadToken, HandleStartGame, HandleMove, TypedNet
<1>5. \/ UNCHANGED handler
      \/ \E h \in Handlers : Goto(c, h) /\ HandlerOK(h)' /\ h.pc # "mode"
  <2>1. CASE ReadToken(c)
    <3>1. PICK token \in [expired : BOOLEAN, signed : BOOLEAN] :
            Goto(c, [kind |-> "token", pc |-> "answer", success |-> ValidateAuthToken(token)])
      BY <2>1 DEF ReadToken
    <3>2. PICK h : h = [kind |-> "token", pc |-> "answer", success |-> ValidateAuthToken(token)]
      OBVIOUS
    <3>3. ValidateAuthToken(token) \in BOOLEAN
      BY DEF ValidateAuthToken
    <3>4. h \in Tokens
      BY <3>2, <3>3 DEF Tokens
    <3>5. HandlerOK(h)' /\ h.pc # "mode"
      BY <3>2 DEF HandlerOK
    <3>6. QED
      BY <3>1, <3>2, <3>4, <3>5 DEF Handlers
  <2>2. CASE HandleStartGame(c)
    <3>1. PICK p \in Params :
            Goto(c, Casting("start", IF gameRunning THEN <<EndMsg("Aborted")>> ELSE << >>,
                            "create", p))
      BY <2>2 DEF HandleStartGame
    <3>2. PICK m \in Seq(Msgs) : m = IF gameRunning THEN <<EndMsg("Aborted")>> ELSE << >>
      <4>1. <<EndMsg("Aborted")>> \in Seq(Msgs) /\ << >> \in Seq(Msgs)
        BY MsgsAre
      <4>2. CASE gameRunning
        BY <4>1, <4>2
      <4>3. CASE ~gameRunning
        BY <4>1, <4>3
      <4>4. QED
        BY <4>2, <4>3
    <3>3. PICK h : h = Casting("start", m, "create", p)
      OBVIOUS
    <3>4. h \in Casts /\ h.kind = "start" /\ h.pc = "next" /\ h.then = "create" /\ h.arg = p
      BY <3>3, CastingIs
    <3>5. HandlerOK(h)'
      BY <3>4 DEF HandlerOK
    <3>6. QED
      BY <3>1, <3>2, <3>3, <3>4, <3>5 DEF Handlers
  <2>3. CASE HandleMove(c)
    <3>1. PICK type \in MoveTypesSent, cell \in DOMAIN view[c].grid :
            \/ UNCHANGED handler
            \/ Goto(c, [kind |-> "move", pc |-> "want", type |-> type, cell |-> cell])
      BY <2>3 DEF HandleMove
    <3>2. PICK h : h = [kind |-> "move", pc |-> "want", type |-> type, cell |-> cell]
      OBVIOUS
    <3>3. game # 0
      BY <2>3 DEF HandleMove, MayMove, TypedGames
    <3>4. HandlerOK(h)'
      BY <1>1, <3>2, <3>3 DEF HandlerOK
    <3>5. h \in Wants
      <4>1. view[c].grid \in Grids
        BY DEF TypedNet, Views
      <4>2. cell \in Spots
        BY <4>1 DEF Grids
      <4>3. QED
        BY <3>2, <4>2 DEF Wants
    <3>6. QED
      BY <3>1, <3>2, <3>4, <3>5 DEF Handlers
  <2>4. QED
    BY <2>1, <2>2, <2>3
<1>6. TypedHandlers'
  BY <1>1, <1>2, <1>3, <1>5, GotoTyped, SameHandlers DEF Idle
<1>7. QED
  BY <1>2, <1>4, <1>6

\* A connection that ends, and a client that handles a message.
LEMMA ClientTyped ==
  ASSUME Typed, NEW c \in Conns, NoHandler(c) \/ Leave(c) \/ Deliver(c) \/ HandlersRace(c)
  PROVE  Typed'
<1> USE DEF Typed
<1>1. UNCHANGED <<games, game, gameRunning, ends, moveMux, players, handler, joining, lost>>
  BY DEF NoHandler, Leave, Deliver, HandlersRace, server, history
<1>2. TypedGames' /\ TypedJoins' /\ TypedHandlers'
  BY <1>1, SameGames, SameJoins, SameHandlers
<1>3. TypedNet'
  <2>1. CASE NoHandler(c) \/ Leave(c)
    BY <1>1, <2>1, DropTyped DEF NoHandler, Leave
  <2>2. CASE Deliver(c)
    <3>1. /\ out[c] # << >> /\ out' = [out EXCEPT ![c] = Tail(@)]
          /\ view' = [view EXCEPT ![c] = Handled(@, Head(out[c]))]
          /\ UNCHANGED <<connected, crashed>>
      BY <2>2 DEF Deliver
    <3>2. Tail(out[c]) \in Seq(Msgs) /\ (c \in Slow => Len(Tail(out[c])) <= ChanCap)
      BY <3>1, HeadTailProperties DEF TypedNet
    <3>3. Handled(view[c], Head(out[c])) \in Views
      BY <3>1, HandledIs, HeadTailProperties DEF TypedNet
    <3>4. QED
      BY <1>1, <3>1, <3>2, <3>3 DEF TypedNet, Conns
  <2>3. CASE HandlersRace(c)
    BY <1>1, <2>3 DEF HandlersRace, TypedNet
  <2>4. QED
    BY <2>1, <2>2, <2>3
<1>4. QED
  BY <1>2, <1>3

\* A game of the server changes, and keeps its board's size.
LEMMA GameSet ==
  ASSUME TypedGames, NEW g \in DOMAIN games, NEW x \in GameRecs, GameOK(x),
         Cells(x.board) = Cells(games[g].board), games' = [games EXCEPT ![g] = x],
         UNCHANGED <<game, gameRunning, ends>>
  PROVE  TypedGames' /\ Grown
<1>1. games' \in Seq(GameRecs) /\ Len(games') = Len(games) /\ DOMAIN games' = DOMAIN games
  BY ExceptSeq DEF TypedGames
<1>2. games'[g] = x /\ \A d \in DOMAIN games \ {g} : games'[d] = games[d]
  OBVIOUS
<1>3. QED
  BY <1>1, <1>2 DEF TypedGames, Grown

\* The fields of a game record, one by one.
LEMMA GameSteps ==
  ASSUME NEW x \in GameRecs
  PROVE  /\ \A b \in Boards : [x EXCEPT !.board = b]
              = [board |-> b, params |-> x.params, marks |-> x.marks, scores |-> x.scores]
         /\ \A m \in Updates, s \in [PlayerIds -> Int] : [x EXCEPT !.marks = m, !.scores = s]
              = [board |-> x.board, params |-> x.params, marks |-> m, scores |-> s]
<1>1. PICK b \in Boards, p \in GoodParams, m \in Updates, s \in [PlayerIds -> Int] :
        x = [board |-> b, params |-> p, marks |-> m, scores |-> s]
  BY DEF GameRecs
<1>2. x.board = b /\ x.params = p /\ x.marks = m /\ x.scores = s
  BY <1>1
<1>3. ASSUME NEW b2 \in Boards
      PROVE  [x EXCEPT !.board = b2] = [board |-> b2, params |-> p, marks |-> m, scores |-> s]
  BY <1>1
<1>4. ASSUME NEW m2 \in Updates, NEW s2 \in [PlayerIds -> Int]
      PROVE  [x EXCEPT !.marks = m2, !.scores = s2]
               = [board |-> b, params |-> p, marks |-> m2, scores |-> s2]
  <2> DEFINE y == [x EXCEPT !.marks = m2]
  <2>1. [x EXCEPT !.marks = m2, !.scores = s2] = [y EXCEPT !.scores = s2]
    OBVIOUS
  <2>2. y = [board |-> b, params |-> p, marks |-> m2, scores |-> s]
    BY <1>1
  <2> HIDE DEF y
  <2>3. [y EXCEPT !.scores = s2] = [board |-> b, params |-> p, marks |-> m2, scores |-> s2]
    BY <2>2
  <2>4. QED
    BY <2>1, <2>3, Zenon
<1>5. QED
  BY <1>2, <1>3, <1>4

LEMMA AuthAnswerTyped ==
  ASSUME Typed, NEW c \in Conns, AuthAnswer(c)
  PROVE  Typed'
<1> USE DEF Typed
<1>1. /\ UNCHANGED <<games, game, gameRunning, ends, moveMux, players, lost, crashed>>
      /\ handler[c].pc = "answer" /\ Goto(c, Idle)
  BY DEF AuthAnswer, server
<1>2. TypedGames' /\ Grown
  BY <1>1, SameGames
<1>3. TypedHandlers'
  <2>1. HandlerOK(Idle)'
    BY DEF HandlerOK, Idle
  <2>2. Idle \in Handlers /\ Idle.pc # "mode"
    BY DEF Handlers, Idle
  <2>3. QED
    BY <1>1, <1>2, <2>1, <2>2, GotoTyped
<1>4. TypedJoins'
  <2>1. PICK p \in {"granted", "refused"} : joining' = [joining EXCEPT ![c] = [pc |-> p]]
    BY DEF AuthAnswer
  <2>2. QED
    BY <1>1, <2>1, PlainJoins, JoinTyped DEF JoinPcs
<1>5. TypedNet'
  <2>1. CASE handler[c].success
    BY <1>1, <2>1, SameNet DEF AuthAnswer
  <2>2. CASE ~handler[c].success
    BY <1>1, <2>2, DropTyped DEF AuthAnswer
  <2>3. QED
    BY <2>1, <2>2
<1>6. QED
  BY <1>2, <1>3, <1>4, <1>5

\* What a broadcasting handler has.
LEMMA CastFields ==
  ASSUME TypedHandlers, NEW c \in Conns, handler[c].pc \in {"next", "cast"}
  PROVE  /\ handler[c] \in Casts /\ HandlerOK(handler[c])
         /\ handler[c].kind \in {"start", "move"} /\ handler[c].msgs \in Seq(Msgs)
         /\ handler[c].left \in SUBSET Conns
         /\ handler[c].then \in {"create", "run", "return", "stop"}
         /\ handler[c].arg \in Params \cup Nat
<1>1. PICK h : h = handler[c] /\ h \in Handlers /\ HandlerOK(h)
  BY DEF TypedHandlers
<1>2. h \in Casts
  BY <1>1, HandlerFields
<1>3. QED
  BY <1>1, <1>2 DEF Casts

\* A new board.
LEMMA CreateIs ==
  ASSUME NEW p \in GoodParams, NEW b \in CreateBoard(p)
  PROVE  /\ Sound(b) /\ b \in Boards /\ b.width = p.width /\ b.height = p.height
         /\ NoMarks(b) \in Updates /\ NoMarks(b) \in [Cells(b) -> PlayerIds \cup {0}]
<1>1. /\ p.width \in Nat \ {0} /\ p.height \in Nat \ {0} /\ p.mines \in Nat
  BY DEF GoodParams, ValidParams
<1>2. PICK M \in SUBSET Cells(p) :
        /\ Cardinality(M) = p.mines
        /\ b = [width |-> p.width, height |-> p.height, mines |-> p.mines,
                mine |-> M, revealed |-> {}, flagged |-> {}, revealedCells |-> 0]
  BY DEF CreateBoard
<1>3. Cells(b) = Cells(p)
  BY <1>2 DEF Cells
<1>4. IsBoard(b)
  BY <1>1, <1>2, <1>3 DEF IsBoard
<1>5. Counted(b) /\ b.flagged \cap b.revealed = {}
  BY <1>2, FS_EmptySet DEF Counted
<1>6. Sound(b)
  BY <1>4, <1>5 DEF Sound
<1>7. b \in Boards /\ Cells(b) \subseteq Spots
  BY <1>6, BoardIs
<1>8. NoMarks(b) \in [Cells(b) -> Nat] /\ NoMarks(b) \in [Cells(b) -> PlayerIds \cup {0}]
  BY DEF NoMarks
<1>9. QED
  BY <1>2, <1>6, <1>7, <1>8 DEF Updates

\* The game of a StartGame message, a handler that starts it.
LEMMA StartCreateTyped ==
  ASSUME Typed, NEW c \in Conns, StartCreate(c)
  PROVE  Typed'
<1> USE DEF Typed
<1>0. PICK h : h = handler[c]
  OBVIOUS
<1>1. /\ h.pc = "next" /\ h.msgs = << >> /\ h.then = "create"
      /\ UNCHANGED <<gameRunning, moveMux, players, joining, lost, crashed>>
  BY <1>0 DEF StartCreate
<1>2. h.arg \in Params
  BY <1>0, <1>1, CastFields DEF HandlerOK
<1>3. CASE ValidParams(h.arg)
  <2>1. PICK p \in GoodParams : p = h.arg
    BY <1>2, <1>3 DEF GoodParams
  <2>2. /\ \E b \in CreateBoard(p) :
             games' = Append(games, [board |-> b, params |-> p, marks |-> NoMarks(b),
                                     scores |-> [pid \in PlayerIds |-> 0]])
        /\ game' = Len(games) + 1
        /\ ends' = Append(ends, [Win |-> 0, Loss |-> 0])
        /\ Goto(c, Casting("start", <<StartMsg(p)>>, "run", p))
        /\ UNCHANGED <<connected, out, view>>
    BY <1>0, <1>3, <2>1 DEF StartCreate
  <2>3. PICK b \in CreateBoard(p) :
          games' = Append(games, [board |-> b, params |-> p, marks |-> NoMarks(b),
                                  scores |-> [pid \in PlayerIds |-> 0]])
    BY <2>2
  <2>4. PICK x : x = [board |-> b, params |-> p, marks |-> NoMarks(b),
                      scores |-> [pid \in PlayerIds |-> 0]]
    OBVIOUS
  <2>5. x \in GameRecs /\ GameOK(x)
    <3>1. [pid \in PlayerIds |-> 0] \in [PlayerIds -> Int]
      OBVIOUS
    <3>2. QED
      BY <2>4, <3>1, CreateIs DEF GameRecs, GameOK
  <2>6. /\ games' \in Seq(GameRecs) /\ Len(games') = Len(games) + 1 /\ Len(games) \in Nat
        /\ \A i \in 1 .. Len(games) : games'[i] = games[i]
        /\ games'[Len(games) + 1] = x
        /\ DOMAIN games' = 1 .. Len(games) + 1 /\ DOMAIN games = 1 .. Len(games)
    BY <2>3, <2>4, <2>5, AppendProperties, LenProperties DEF TypedGames
  <2>7. /\ ends' \in Seq([Win : Nat, Loss : Nat]) /\ Len(ends') = Len(games')
    BY <2>2, <2>6, AppendProperties DEF TypedGames
  <2>8. TypedGames' /\ Grown
    <3>1. /\ game = Len(games) /\ gameRunning \in BOOLEAN
          /\ \A i \in DOMAIN games : GameOK(games[i])
      BY DEF TypedGames
    <3>2. \A i \in DOMAIN games' : GameOK(games'[i])
      BY <2>5, <2>6, <3>1
    <3>3. game' = Len(games') /\ game' # 0
      BY <2>2, <2>6
    <3>4. TypedGames'
      BY <1>1, <2>6, <2>7, <3>1, <3>2, <3>3 DEF TypedGames
    <3>5. Grown
      BY <2>6, <3>3 DEF Grown
    <3>6. QED
      BY <3>4, <3>5
  <2>9. TypedHandlers'
    <3>1. PICK g : g = Casting("start", <<StartMsg(p)>>, "run", p)
      OBVIOUS
    <3>2. <<StartMsg(p)>> \in Seq(Msgs)
      BY MsgsAre
    <3>3. /\ g \in Casts /\ g.kind = "start" /\ g.pc = "next" /\ g.then = "run"
      <4>1. PICK m \in Seq(Msgs) : m = <<StartMsg(p)>>
        BY <3>2
      <4>2. p \in Params \cup Nat
        BY DEF GoodParams
      <4>3. g = Casting("start", m, "run", p)
        BY <3>1, <4>1
      <4>4. QED
        BY <4>2, <4>3, CastingIs
    <3>4. HandlerOK(g)'
      BY <2>2, <2>6, <3>3 DEF HandlerOK
    <3>5. QED
      BY <1>0, <1>1, <2>2, <2>8, <3>1, <3>3, <3>4, GotoTyped DEF Handlers
  <2>10. QED
    BY <1>1, <2>2, <2>8, <2>9, SameJoins, SameNet DEF Grown
<1>4. CASE ~ValidParams(h.arg)
  <2>1. Goto(c, Idle) /\ Drop(c) /\ UNCHANGED <<games, game, ends>>
    BY <1>0, <1>4 DEF StartCreate
  <2>2. TypedGames' /\ Grown
    BY <1>1, <2>1, SameGames
  <2>3. TypedHandlers'
    <3>1. HandlerOK(Idle)' /\ Idle \in Handlers /\ Idle.pc # "mode"
      BY DEF HandlerOK, Idle, Handlers
    <3>2. QED
      BY <1>0, <1>1, <2>1, <2>2, <3>1, GotoTyped
  <2>4. QED
    BY <1>1, <2>1, <2>2, <2>3, SameJoins, DropTyped DEF Grown
<1>5. QED
  BY <1>3, <1>4

\* The handlers whose last step says whether a game runs.
LEMMA RunStopTyped ==
  ASSUME Typed, NEW c \in Conns, StartRun(c) \/ MoveStop(c)
  PROVE  Typed'
<1> USE DEF Typed
<1>1. /\ handler[c].pc = "next" /\ Goto(c, Idle)
      /\ UNCHANGED <<games, game, ends, moveMux, players, connected, joining, out, view, crashed,
                     lost>>
      /\ \/ handler[c].then = "run" /\ gameRunning' = TRUE
         \/ gameRunning' = FALSE
  BY DEF StartRun, MoveStop, Stop, history
<1>2. TypedGames' /\ Grown
  <2>1. handler[c].then = "run" => game # 0
    BY <1>1, CastFields DEF HandlerOK
  <2>2. QED
    BY <1>1, <2>1 DEF TypedGames, Grown
<1>3. TypedHandlers'
  <2>1. HandlerOK(Idle)' /\ Idle \in Handlers /\ Idle.pc # "mode"
    BY DEF HandlerOK, Idle, Handlers
  <2>2. QED
    BY <1>1, <1>2, <2>1, GotoTyped
<1>4. QED
  BY <1>1, <1>2, <1>3, SameJoins, SameNet

LEMMA MoveBoardTyped ==
  ASSUME Typed, NEW c \in Conns, MoveBoard(c)
  PROVE  Typed'
<1> USE DEF Typed
<1>0. PICK h : h = handler[c] /\ h \in Handlers /\ HandlerOK(h)
  BY DEF TypedHandlers
<1>1. PICK r : r = MakeMove(games[game].board, h.type, h.cell)
  OBVIOUS
<1>2. /\ h.pc = "want" /\ LockFree
      /\ UNCHANGED <<game, gameRunning, players, joining, crashed, lost, ends>>
  BY <1>0 DEF MoveBoard, history
<1>3. game # 0 /\ game \in DOMAIN games
  BY <1>0, <1>2, RunningGame DEF HandlerOK
<1>4. CASE r.result = "Error"
  <2>1. Goto(c, Idle) /\ Drop(c) /\ UNCHANGED <<games, moveMux>>
    BY <1>0, <1>1, <1>4 DEF MoveBoard
  <2>2. TypedGames' /\ Grown
    BY <1>2, <2>1, SameGames
  <2>3. TypedHandlers'
    <3>1. HandlerOK(Idle)' /\ Idle \in Handlers /\ Idle.pc # "mode"
      BY DEF HandlerOK, Idle, Handlers
    <3>2. QED
      BY <1>0, <1>2, <2>1, <2>2, <3>1, GotoTyped
  <2>4. QED
    BY <1>2, <2>1, <2>2, <2>3, SameJoins, DropTyped
<1>5. CASE r.result # "Error"
  <2>1. /\ games' = [games EXCEPT ![game].board = r.board]
        /\ moveMux' = c
        /\ Goto(c, [kind |-> "move", pc |-> "mode", g |-> game,
                    result |-> r.result, updated |-> r.updated])
        /\ UNCHANGED <<connected, out, view>>
    BY <1>0, <1>1, <1>5 DEF MoveBoard
  <2>2. PICK x \in GameRecs : x = games[game] /\ GameOK(x) /\ Sound(x.board)
    BY <1>3, GameAt
  <2>3. /\ SameMines(x.board, r.board) /\ Cells(r.board) = Cells(x.board)
        /\ r.board \in Boards /\ r.updated \subseteq Cells(x.board) /\ r.result \in MoveResults
    BY <1>1, <1>5, <2>2, MoveIs
  <2>4. PICK y : y = [board |-> r.board, params |-> x.params, marks |-> x.marks,
                      scores |-> x.scores]
    OBVIOUS
  <2>5. [x EXCEPT !.board = r.board] = y
    BY <2>3, <2>4, GameSteps
  <2>6. y \in GameRecs /\ GameOK(y)
    BY <2>2, <2>3, <2>4 DEF GameRecs, GameOK, SameMines
  <2>7. games' = [games EXCEPT ![game] = y]
    BY <1>3, <2>1, <2>2, <2>5
  <2>8. TypedGames' /\ Grown
    BY <1>2, <1>3, <2>2, <2>3, <2>4, <2>6, <2>7, GameSet
  <2>9. TypedHandlers'
    <3>1. PICK g : g = [kind |-> "move", pc |-> "mode", g |-> game,
                        result |-> r.result, updated |-> r.updated]
      OBVIOUS
    <3>2. g \in Modes
      <4>1. r.updated \subseteq Spots /\ game \in Nat
        BY <1>3, <2>2, <2>3, GameAt
      <4>2. QED
        BY <2>3, <3>1, <4>1 DEF Modes
    <3>3. HandlerOK(g)'
      <4>1. game \in DOMAIN games' /\ r.updated \subseteq Cells(games'[game].board)
        BY <1>3, <2>2, <2>3, <2>8 DEF Grown
      <4>2. QED
        BY <3>1, <4>1 DEF HandlerOK
    <3>4. g.pc = "mode" /\ moveMux = 0
      BY <1>2, <3>1 DEF LockFree
    <3>5. QED
      BY <2>1, <2>8, <3>1, <3>2, <3>3, <3>4, GotoTyped DEF Handlers
  <2>10. QED
    BY <1>2, <2>1, <2>8, <2>9, SameJoins, SameNet
<1>6. QED
  BY <1>4, <1>5

\* The marks and scores of a move.
LEMMA ModeIs ==
  ASSUME NEW x \in GameRecs, GameOK(x), NEW c \in Conns, NEW up \in SUBSET Cells(x.board)
  PROVE  /\ NewMarks(x.marks, x.board, c, up) \in [Cells(x.board) -> PlayerIds \cup {0}]
         /\ NewMarks(x.marks, x.board, c, up) \in Updates
         /\ NewScores(x.scores, x.board, c, up) \in [PlayerIds -> Int]
<1>1. IsBoard(x.board) /\ Cells(x.board) \subseteq Spots
  BY BoardIs DEF GameRecs, Boards, Sound
<1>2. NewMarks(x.marks, x.board, c, up) \in [Cells(x.board) -> PlayerIds \cup {0}]
  BY DEF NewMarks, GameOK, Conns
<1>3. NewMarks(x.marks, x.board, c, up) \in Updates
  <2>1. NewMarks(x.marks, x.board, c, up) \in [Cells(x.board) -> Nat]
    <3>1. PlayerIds \cup {0} \subseteq Nat
      BY PlayerIdsAssumption
    <3>2. QED
      BY <1>2, <3>1
  <2>2. QED
    BY <1>1, <2>1 DEF Updates
<1>4. NewScores(x.scores, x.board, c, up) \in [PlayerIds -> Int]
  <2> DEFINE u == Cardinality(up \cap Marked(x.board))
             d == Cardinality(up \ Marked(x.board))
  <2>1. IsFiniteSet(Cells(x.board))
    BY <1>1, CellsFinite
  <2>2. u \in Nat /\ d \in Nat
    BY <2>1, FS_Subset, FS_CardinalityType
  <2>3. \/ NewScores(x.scores, x.board, c, up) = x.scores
        \/ NewScores(x.scores, x.board, c, up) = [x.scores EXCEPT ![c] = @ + u - d]
    BY DEF NewScores
  <2>4. x.scores \in [PlayerIds -> Int]
    BY DEF GameRecs
  <2> HIDE DEF u, d
  <2>5. QED
    BY <2>2, <2>3, <2>4
<1>5. QED
  BY <1>2, <1>3, <1>4

\* What OnMove does to the games.
LEMMA MoveModeIs ==
  ASSUME TypedGames, TypedHandlers, NEW c \in Conns, MoveMode(c)
  PROVE  \E h \in Modes, g \in DOMAIN games, x \in GameRecs :
           /\ h = handler[c] /\ h.pc = "mode" /\ g = h.g
           /\ x = games[g] /\ GameOK(x) /\ h.updated \subseteq Cells(x.board)
           /\ games' = IF x.params.mode = "Coop"
                       THEN [games EXCEPT ![g] =
                               [board |-> x.board, params |-> x.params,
                                marks |-> NewMarks(x.marks, x.board, c, h.updated),
                                scores |-> NewScores(x.scores, x.board, c, h.updated)]]
                       ELSE games
<1>0. PICK h \in Modes : h = handler[c] /\ HandlerOK(h) /\ h.pc = "mode"
  BY HandlerFields DEF MoveMode, TypedHandlers
<1>1. PICK g \in DOMAIN games : g = h.g /\ h.updated \subseteq Cells(games[g].board)
  BY <1>0 DEF HandlerOK
<1>2. PICK x \in GameRecs : x = games[g] /\ GameOK(x)
  BY GameAt
<1>3. PICK marks, scores : /\ marks = NewMarks(x.marks, x.board, c, h.updated)
                           /\ scores = NewScores(x.scores, x.board, c, h.updated)
  OBVIOUS
<1>4. marks \in Updates /\ scores \in [PlayerIds -> Int]
  BY <1>1, <1>2, <1>3, ModeIs
<1>5. PICK y : y = [board |-> x.board, params |-> x.params, marks |-> marks, scores |-> scores]
  OBVIOUS
<1>6. games' = IF x.params.mode = "Coop" THEN [games EXCEPT ![g] = y] ELSE games
  <2>1. CASE x.params.mode = "Coop"
    <3>1. games' = [games EXCEPT ![g].marks = marks,
                                 ![g].scores = NewScores(@, x.board, c, h.updated)]
      BY <1>0, <1>1, <1>2, <1>3, <2>1 DEF MoveMode
    <3>2. games' = [games EXCEPT ![g] = [x EXCEPT !.marks = marks, !.scores = scores]]
      <4>1. PICK gs : gs = [games EXCEPT ![g].marks = marks]
        OBVIOUS
      <4>2. gs = [games EXCEPT ![g] = [x EXCEPT !.marks = marks]]
        BY <1>2, <4>1
      <4>3. games' = [gs EXCEPT ![g].scores = NewScores(@, x.board, c, h.updated)]
        BY <3>1, <4>1
      <4>4. [x EXCEPT !.marks = marks].scores = x.scores
        BY DEF GameRecs
      <4>5. gs[g].scores = x.scores
        BY <4>2, <4>4
      <4>6. games' = [gs EXCEPT ![g].scores = scores]
        BY <1>3, <4>3, <4>5
      <4>7. QED
        BY <4>2, <4>6
    <3>3. games' = [games EXCEPT ![g] = y]
      BY <1>4, <1>5, <3>2, GameSteps
    <3>4. QED
      BY <2>1, <3>3
  <2>2. CASE x.params.mode # "Coop"
    BY <1>0, <1>1, <1>2, <2>2 DEF MoveMode
  <2>3. QED
    BY <2>1, <2>2
<1>7. y = [board |-> x.board, params |-> x.params,
           marks |-> NewMarks(x.marks, x.board, c, h.updated),
           scores |-> NewScores(x.scores, x.board, c, h.updated)]
  BY <1>3, <1>5
<1>8. h.updated \subseteq Cells(x.board)
  BY <1>1, <1>2
<1>9. QED
  BY <1>0, <1>1, <1>2, <1>6, <1>7, <1>8, Zenon

LEMMA MoveModeTyped ==
  ASSUME Typed, NEW c \in Conns, MoveMode(c)
  PROVE  Typed'
<1> USE DEF Typed
<1>0. PICK h : h = handler[c] /\ h \in Handlers /\ HandlerOK(h)
  BY DEF TypedHandlers
<1>1. /\ h.pc = "mode" /\ Unlock
      /\ UNCHANGED <<game, gameRunning, players, connected, joining, out, view, crashed, lost,
                     ends>>
  BY <1>0 DEF MoveMode, history
<1>2. h \in Modes /\ h.g \in DOMAIN games /\ h.updated \subseteq Cells(games[h.g].board)
  BY <1>0, <1>1, HandlerFields DEF HandlerOK
<1>3. PICK g \in DOMAIN games : g = h.g
  BY <1>2
<1>4. PICK x \in GameRecs : x = games[g] /\ GameOK(x)
  BY GameAt
<1>5. PICK marks, scores : /\ marks = NewMarks(x.marks, x.board, c, h.updated)
                           /\ scores = NewScores(x.scores, x.board, c, h.updated)
  OBVIOUS
<1>6. /\ marks \in [Cells(x.board) -> PlayerIds \cup {0}]
      /\ marks \in Updates /\ scores \in [PlayerIds -> Int]
  BY <1>2, <1>3, <1>4, <1>5, ModeIs
<1>7. TypedGames' /\ Grown
  <2>1. PICK y : y = [board |-> x.board, params |-> x.params, marks |-> marks,
                      scores |-> scores]
    OBVIOUS
  <2>2. games' = IF x.params.mode = "Coop" THEN [games EXCEPT ![g] = y] ELSE games
    BY <1>0, <1>3, <1>4, <1>5, <2>1, MoveModeIs
  <2>3. y \in GameRecs /\ GameOK(y)
    BY <1>4, <1>6, <2>1 DEF GameRecs, GameOK
  <2>4. QED
    BY <1>1, <1>4, <2>1, <2>2, <2>3, GameSet, SameGames
<1>8. TypedHandlers'
  <2>1. PICK info \in Seq(Msgs) :
          Goto(c, [kind |-> "move", pc |-> "encode", g |-> g, result |-> h.result,
                   updated |-> h.updated, info |-> info])
    <3>1. CASE x.params.mode = "Coop"
      <4>1. [d \in h.updated |-> marks[d]] \in [h.updated -> Nat]
        <5>1. PlayerIds \cup {0} \subseteq Nat
          BY PlayerIdsAssumption
        <5>2. h.updated \subseteq Cells(x.board)
          BY <1>2, <1>3, <1>4
        <5>3. QED
          BY <1>6, <5>1, <5>2
      <4>2. [d \in h.updated |-> marks[d]] \in Updates
        BY <1>2, <4>1 DEF Modes, Updates
      <4>3. <<InfoMsg([d \in h.updated |-> marks[d]])>> \in Seq(Msgs)
        BY <4>2, MsgsAre
      <4>4. QED
        BY <1>0, <1>3, <1>4, <1>5, <3>1, <4>3 DEF MoveMode
    <3>2. CASE x.params.mode # "Coop"
      <4>1. << >> \in Seq(Msgs)
        OBVIOUS
      <4>2. QED
        BY <1>0, <1>3, <1>4, <3>2, <4>1 DEF MoveMode
    <3>3. QED
      BY <3>1, <3>2
  <2>2. PICK k : k = [kind |-> "move", pc |-> "encode", g |-> g, result |-> h.result,
                      updated |-> h.updated, info |-> info]
    OBVIOUS
  <2>3. k \in Encodes
    BY <1>2, <1>3, <2>2 DEF Modes, Encodes
  <2>4. HandlerOK(k)'
    <3>1. g \in DOMAIN games' /\ h.updated \subseteq Cells(games'[g].board)
      BY <1>2, <1>3, <1>7 DEF Grown
    <3>2. QED
      BY <2>2, <3>1 DEF HandlerOK
  <2>5. QED
    BY <1>0, <1>1, <1>7, <2>1, <2>2, <2>3, <2>4, GotoTyped DEF Handlers, Unlock
<1>9. QED
  BY <1>1, <1>7, <1>8, SameJoins, SameNet DEF Grown

\* The messages of a move are messages.
LEMMA MoveMessagesAre ==
  ASSUME TypedGames, NEW h \in Encodes, HandlerOK(h)
  PROVE  MoveMessages(h) \in Seq(Msgs)
<1>1. h.g \in DOMAIN games /\ h.updated \in SUBSET Spots /\ h.info \in Seq(Msgs)
  BY DEF HandlerOK, Encodes
<1>2. game \in DOMAIN games
  BY <1>1, LenProperties DEF TypedGames
<1>3. IsBoard(games[game].board)
  BY <1>2, GameAt
<1>4. PICK u : u = CreateCellUpdates(games[game].board, games[h.g].board, h.updated)
  OBVIOUS
<1>5. CellsMsg(u) \in Msgs
  BY <1>1, <1>3, <1>4, UpdatesAre, MsgsAre
<1>6. <<CellsMsg(u)>> \o h.info \in Seq(Msgs) /\ << >> \in Seq(Msgs)
  <2>1. <<CellsMsg(u)>> \in Seq(Msgs)
    BY <1>5
  <2>2. QED
    BY <1>1, <2>1, ConcatProperties
<1>7. PICK a \in Seq(Msgs) :
        a = IF h.updated = {} THEN << >> ELSE <<CellsMsg(u)>> \o h.info
  <2>1. CASE h.updated = {}
    BY <1>6, <2>1
  <2>2. CASE h.updated # {}
    BY <1>6, <2>2
  <2>3. QED
    BY <2>1, <2>2
<1>8. [i \in DOMAIN EndOf(h.result) |-> EndMsg(EndOf(h.result)[i])] \in Seq(Msgs)
  <2>1. PICK e : e = EndOf(h.result)
    OBVIOUS
  <2>2. e \in Seq({"Win", "Loss"}) /\ DOMAIN e = 1 .. Len(e) /\ Len(e) \in Nat
    <3>1. e = <<"Loss">> \/ e = <<"Win">> \/ e = << >>
      BY <2>1 DEF EndOf
    <3>2. e \in Seq({"Win", "Loss"})
      <4>1. ASSUME NEW S, NEW x \in S PROVE <<x>> \in Seq(S) /\ << >> \in Seq(S)
        OBVIOUS
      <4>2. "Win" \in {"Win", "Loss"} /\ "Loss" \in {"Win", "Loss"}
        OBVIOUS
      <4>3. QED
        BY <3>1, <4>1, <4>2, Zenon
    <3>3. QED
      BY <3>2, LenProperties
  <2>3. \A i \in 1 .. Len(e) : EndMsg(e[i]) \in Msgs
    BY <2>2, MsgsAre, ElementOfSeq
  <2>4. [i \in 1 .. Len(e) |-> EndMsg(e[i])] \in Seq(Msgs)
    BY <2>2, <2>3, SeqDef
  <2>5. QED
    BY <2>1, <2>2, <2>4
<1>9. MoveMessages(h) = a \o [i \in DOMAIN EndOf(h.result) |-> EndMsg(EndOf(h.result)[i])]
  BY <1>4, <1>7 DEF MoveMessages
<1>10. QED
  BY <1>7, <1>8, <1>9, ConcatProperties

LEMMA MoveEncodeTyped ==
  ASSUME Typed, NEW c \in Conns, MoveEncode(c)
  PROVE  Typed'
<1> USE DEF Typed
<1>0. PICK h : h = handler[c] /\ h \in Handlers /\ HandlerOK(h)
  BY DEF TypedHandlers
<1>1. /\ h.pc = "encode"
      /\ UNCHANGED <<games, game, gameRunning, moveMux, players, connected, joining, out, view,
                     crashed, lost>>
  BY <1>0 DEF MoveEncode, server
<1>2. h \in Encodes /\ h.g \in DOMAIN games
  BY <1>0, <1>1, HandlerFields DEF HandlerOK
<1>3. PICK over \in BOOLEAN : over = (EndOf(h.result) # << >>)
  OBVIOUS
<1>4. TypedGames' /\ Grown
  <2>1. ends' \in Seq([Win : Nat, Loss : Nat]) /\ Len(ends') = Len(ends)
    <3>1. CASE ~over
      BY <1>0, <1>3, <3>1 DEF MoveEncode, TypedGames
    <3>2. CASE over
      <4>1. PICK e \in {"Win", "Loss"} : e = EndOf(h.result)[1]
        BY <1>3, <3>2 DEF EndOf
      <4>2. ends' = [ends EXCEPT ![h.g][e] = @ + 1]
        BY <1>0, <1>3, <3>2, <4>1 DEF MoveEncode
      <4>3. h.g \in 1 .. Len(ends)
        BY <1>2, LenProperties DEF TypedGames
      <4>4. PICK k \in [Win : Nat, Loss : Nat] : k = ends[h.g]
        BY <4>3, ElementOfSeq DEF TypedGames
      <4>5. ends' = [ends EXCEPT ![h.g] = [k EXCEPT ![e] = @ + 1]]
        BY <4>2, <4>4
      <4>6. [k EXCEPT ![e] = @ + 1] \in [Win : Nat, Loss : Nat]
        <5>1. PICK w \in Nat, l \in Nat : k = [Win |-> w, Loss |-> l]
          OBVIOUS
        <5>2. CASE e = "Win"
          <6>1. [k EXCEPT ![e] = @ + 1] = [Win |-> w + 1, Loss |-> l]
            BY <5>1, <5>2
          <6>2. QED
            BY <6>1
        <5>3. CASE e = "Loss"
          <6>1. [k EXCEPT ![e] = @ + 1] = [Win |-> w, Loss |-> l + 1]
            BY <5>1, <5>3
          <6>2. QED
            BY <6>1
        <5>4. QED
          BY <5>2, <5>3
      <4>7. QED
        BY <4>3, <4>5, <4>6, ExceptSeq DEF TypedGames
    <3>3. QED
      BY <3>1, <3>2
  <2>2. QED
    BY <1>1, <2>1 DEF TypedGames, Grown
<1>5. TypedHandlers'
  <2>1. PICK m \in Seq(Msgs) : m = MoveMessages(h)
    BY <1>0, <1>2, MoveMessagesAre
  <2>2. PICK then \in {"stop", "return"} : then = IF over THEN "stop" ELSE "return"
    OBVIOUS
  <2>3. PICK k : k = Casting("move", m, then, h.g)
    OBVIOUS
  <2>4. h.g \in Nat
    BY <1>2, GameAt
  <2>5. k \in Casts /\ k.kind = "move" /\ k.pc = "next" /\ k.then = then /\ k.arg = h.g
    BY <2>3, <2>4, CastingIs
  <2>6. HandlerOK(k)'
    BY <1>1, <1>2, <2>5 DEF HandlerOK
  <2>7. Goto(c, k)
    BY <1>0, <1>3, <2>1, <2>2, <2>3 DEF MoveEncode
  <2>8. QED
    BY <1>0, <1>1, <1>4, <2>5, <2>6, <2>7, GotoTyped DEF Handlers
<1>6. QED
  BY <1>1, <1>4, <1>5, SameJoins, SameNet

LEMMA BeginCastTyped ==
  ASSUME Typed, NEW c \in Conns, BeginCast(c)
  PROVE  Typed'
<1> USE DEF Typed
<1>0. PICK h : h = handler[c]
  OBVIOUS
<1>1. /\ h.pc = "next" /\ h.msgs # << >> /\ Goto(c, [h EXCEPT !.pc = "cast", !.left = players])
      /\ UNCHANGED <<games, game, gameRunning, ends, moveMux, players, connected, joining, out,
                     view, crashed, lost>>
  BY <1>0 DEF BeginCast, server, history, ReceiversOf
<1>2. h \in Casts /\ HandlerOK(h) /\ players \in SUBSET Conns
  BY <1>0, <1>1, CastFields DEF TypedNet
<1>3. PICK k : k = [kind |-> h.kind, pc |-> "cast", msgs |-> h.msgs, left |-> players,
                    then |-> h.then, arg |-> h.arg]
  OBVIOUS
<1>4. Goto(c, k)
  BY <1>1, <1>2, <1>3, CastSteps
<1>5. k \in Casts
  BY <1>2, <1>3 DEF Casts
<1>6. HandlerOK(k)'
  BY <1>1, <1>2, <1>3 DEF HandlerOK
<1>7. TypedGames' /\ Grown
  BY <1>1, SameGames
<1>8. TypedHandlers'
  BY <1>0, <1>1, <1>3, <1>4, <1>5, <1>6, <1>7, GotoTyped DEF Handlers
<1>9. QED
  BY <1>1, <1>7, <1>8, SameJoins, SameNet

LEMMA SendToTyped ==
  ASSUME Typed, NEW c \in Conns, NEW p \in Conns, SendTo(c, p)
  PROVE  Typed'
<1> USE DEF Typed
<1>0. PICK h : h = handler[c]
  OBVIOUS
<1>1. /\ h.pc = "cast" /\ p \in h.left /\ SendMessage(p, Head(h.msgs))
      /\ Goto(c, IF h.left = {p} THEN Casting(h.kind, Tail(h.msgs), h.then, h.arg)
                                 ELSE [h EXCEPT !.left = @ \ {p}])
      /\ UNCHANGED <<games, game, gameRunning, ends, moveMux, players, connected, joining,
                     view, crashed>>
  BY <1>0 DEF SendTo, server
<1>2. /\ h \in Casts /\ HandlerOK(h) /\ h.msgs # << >>
      /\ h.kind \in {"start", "move"} /\ h.msgs \in Seq(Msgs) /\ h.left \in SUBSET Conns
      /\ h.then \in {"create", "run", "return", "stop"} /\ h.arg \in Params \cup Nat
  BY <1>0, <1>1, CastFields DEF HandlerOK
<1>3. Head(h.msgs) \in Msgs /\ Tail(h.msgs) \in Seq(Msgs)
  BY <1>2, HeadTailProperties
<1>4. TypedNet'
  BY <1>1, <1>3, SendTyped
<1>5. TypedGames' /\ Grown /\ TypedJoins'
  BY <1>1, SameGames, SameJoins
<1>6. \E k \in Casts : Goto(c, k) /\ HandlerOK(k)' /\ k.pc # "mode"
  <2>1. CASE h.left = {p}
    <3>1. PICK m \in Seq(Msgs) : m = Tail(h.msgs)
      BY <1>3
    <3>2. PICK k : k = Casting(h.kind, m, h.then, h.arg)
      OBVIOUS
    <3>3. /\ k \in Casts /\ k.pc = "next" /\ k.kind = h.kind /\ k.then = h.then /\ k.arg = h.arg
      BY <1>2, <3>2, CastingIs
    <3>4. HandlerOK(k)'
      BY <1>1, <1>2, <3>3 DEF HandlerOK
    <3>5. QED
      BY <1>1, <2>1, <3>1, <3>2, <3>3, <3>4
  <2>2. CASE h.left # {p}
    <3>1. PICK S \in SUBSET Conns : S = h.left \ {p}
      BY <1>2
    <3>2. PICK k : k = [kind |-> h.kind, pc |-> h.pc, msgs |-> h.msgs, left |-> S,
                        then |-> h.then, arg |-> h.arg]
      OBVIOUS
    <3>3. [h EXCEPT !.left = @ \ {p}] = k
      BY <1>2, <3>1, <3>2, CastSteps
    <3>4. k \in Casts /\ k.pc = "cast"
      BY <1>1, <1>2, <3>2 DEF Casts
    <3>5. HandlerOK(k)'
      BY <1>1, <1>2, <3>2 DEF HandlerOK
    <3>6. QED
      BY <1>1, <2>2, <3>3, <3>4, <3>5
  <2>3. QED
    BY <2>1, <2>2
<1>7. TypedHandlers'
  BY <1>0, <1>1, <1>5, <1>6, GotoTyped DEF Handlers
<1>8. QED
  BY <1>4, <1>5, <1>7

LEMMA InitTyped == Init => Typed
<1> SUFFICES ASSUME Init PROVE Typed
  OBVIOUS
<1> USE DEF Init
<1>1. TypedGames
  <2>1. << >> \in Seq(GameRecs) /\ << >> \in Seq([Win : Nat, Loss : Nat])
        /\ Len(<< >>) = 0 /\ DOMAIN << >> = {}
    OBVIOUS
  <2>2. QED
    BY <2>1 DEF TypedGames
<1>2. TypedHandlers
  <2>1. Idle \in Handlers /\ HandlerOK(Idle) /\ Idle.pc # "mode"
    BY DEF Handlers, HandlerOK, Idle
  <2>2. 0 \notin Conns
    BY PlayerIdsAssumption DEF Conns
  <2>3. QED
    BY <2>1, <2>2 DEF TypedHandlers
<1>3. TypedJoins
  <2>1. [pc |-> "off"] \in Joins
    BY PlainJoins DEF JoinPcs
  <2>2. QED
    BY <2>1 DEF TypedJoins
<1>4. TypedNet
  <2>1. PICK e \in Seq(Msgs) : e = << >> /\ Len(e) = 0
    <3>1. << >> \in Seq(Msgs) /\ Len(<< >>) = 0
      OBVIOUS
    <3>2. QED
      BY <3>1, Zenon
  <2>2. out \in [Conns -> Seq(Msgs)] /\ \A c \in Slow : Len(out[c]) <= ChanCap
    BY <2>1 DEF Conns
  <2>3. PICK v \in Views : v = NewView
    BY FirstView
  <2>4. view \in [Conns -> Views]
    BY <2>3
  <2>5. connected \in [Conns -> BOOLEAN]
    OBVIOUS
  <2>6. QED
    BY <2>2, <2>4, <2>5 DEF TypedNet
<1>5. QED
  BY <1>1, <1>2, <1>3, <1>4 DEF Typed

\* The steps, one by one.
LEMMA StepIs ==
  ASSUME Next
  PROVE  \/ \E c \in Conns :
              \/ Accept(c) \/ AuthTimeout(c) \/ SwapHandlers(c) \/ JoinCheck(c)
              \/ JoinEncodeStart(c) \/ JoinSendStart(c) \/ JoinEncodeCells(c) \/ JoinSendCells(c)
              \/ Register(c)
              \/ ReadToken(c) \/ HandleStartGame(c) \/ HandleMove(c)
              \/ NoHandler(c) \/ Leave(c) \/ Deliver(c) \/ HandlersRace(c)
              \/ AuthAnswer(c) \/ StartCreate(c) \/ StartRun(c) \/ MoveStop(c)
              \/ MoveBoard(c) \/ MoveMode(c) \/ MoveEncode(c) \/ BeginCast(c)
              \/ \E p \in players : SendTo(c, p)
         \/ MapRace
  BY Zenon DEF Next, ServerSteps, JoinSteps, Handle, Join

LEMMA NextTyped == Typed /\ [Next]_vars => Typed'
<1> SUFFICES ASSUME Typed, [Next]_vars PROVE Typed'
  OBVIOUS
<1>1. CASE UNCHANGED vars
  <2>1. UNCHANGED <<games, game, gameRunning, ends, moveMux, players, lost, connected, out, view,
                    crashed, joining, handler>>
    BY <1>1 DEF vars
  <2>2. QED
    BY <2>1, SameGames, SameHandlers, SameJoins, SameNet DEF Typed
<1>2. CASE MapRace
  BY <1>2, SameGames, SameHandlers, SameJoins DEF MapRace, server, history, Typed, TypedNet
<1>3. ASSUME NEW c \in Conns,
             \/ Accept(c) \/ AuthTimeout(c) \/ SwapHandlers(c) \/ JoinCheck(c)
             \/ JoinEncodeStart(c) \/ JoinSendStart(c) \/ JoinEncodeCells(c) \/ JoinSendCells(c)
             \/ Register(c)
      PROVE  Typed'
  BY <1>3, JoinStepTyped, RegisterTyped
<1>4. ASSUME NEW c \in Conns,
             \/ ReadToken(c) \/ HandleStartGame(c) \/ HandleMove(c)
             \/ NoHandler(c) \/ Leave(c) \/ Deliver(c) \/ HandlersRace(c)
      PROVE  Typed'
  BY <1>4, RequestTyped, ClientTyped
<1>5. ASSUME NEW c \in Conns,
             \/ AuthAnswer(c) \/ StartCreate(c) \/ StartRun(c) \/ MoveStop(c)
             \/ MoveBoard(c) \/ MoveMode(c) \/ MoveEncode(c) \/ BeginCast(c)
             \/ \E p \in players : SendTo(c, p)
      PROVE  Typed'
  <2>1. players \subseteq Conns
    BY DEF Typed, TypedNet
  <2>2. QED
    BY <1>5, <2>1, AuthAnswerTyped, StartCreateTyped, RunStopTyped, MoveBoardTyped, MoveModeTyped,
       MoveEncodeTyped, BeginCastTyped, SendToTyped
<1>6. QED
  BY <1>1, <1>2, <1>3, <1>4, <1>5, StepIs, Zenon

LEMMA Invariance == Spec => []Typed
BY InitTyped, NextTyped, PTL DEF Spec

\* Every variable has its type; the handler inside MakeMove is the one that
\* holds moveMux; a full channel takes no more; every game has a board of its
\* parameters, and a score of how it ended.
THEOREM TypeCorrect == Spec => []TypeOK
BY TypedIsTypeOK, Invariance, PTL

-----------------------------------------------------------------------------
(***************************************************************************)
(* Who is busy, and what ran at the same time.                             *)
(***************************************************************************)
Working(c) == handler[c] # Idle /\ ~Stuck(c)
Entering(c) == joining[c].pc \notin JoinDone

\* overlap has the kinds of any two that are busy.
Overlaps ==
  /\ \A c, d \in Conns :
       Working(c) /\ Working(d) /\ c # d => {handler[c].kind, handler[d].kind} \in overlap
  /\ \A c, d \in Conns : Working(c) /\ Entering(d) => {"join", handler[c].kind} \in overlap
  /\ \A c, d \in Conns : Entering(c) /\ Entering(d) /\ c # d => {"join"} \in overlap

\* The reader of a connection starts after the connection is registered.
ReaderLater == \A c \in Conns : joining[c].pc \in {"off", "accepted"} => handler[c] = Idle

LEMMA BeginIs ==
  ASSUME NEW k, Begin(k)
  PROVE  /\ overlap \subseteq overlap'
         /\ \A c \in Conns : Working(c) => {k, handler[c].kind} \in overlap'
         /\ \A c \in Conns : Entering(c) => {k, "join"} \in overlap'
<1>1. overlap' = overlap \cup {{k, Kind(a)} : a \in Activities}
  BY DEF Begin
<1>2. ASSUME NEW c \in Conns, Working(c) PROVE {k, handler[c].kind} \in overlap'
  <2>1. <<"handler", c>> \in Activities
    BY <1>2 DEF Activities, Working
  <2>2. Kind(<<"handler", c>>) = handler[c].kind
    BY DEF Kind
  <2>3. QED
    BY <1>1, <2>1, <2>2
<1>3. ASSUME NEW c \in Conns, Entering(c) PROVE {k, "join"} \in overlap'
  <2>1. <<"join", c>> \in Activities
    BY <1>3 DEF Activities, Entering
  <2>2. Kind(<<"join", c>>) = "join"
    BY DEF Kind
  <2>3. QED
    BY <1>1, <2>1, <2>2
<1>4. QED
  BY <1>1, <1>2, <1>3

\* Nobody new is busy.
LEMMA SameOverlaps ==
  ASSUME Overlaps, overlap \subseteq overlap',
         \A c \in Conns : /\ Working(c)' => Working(c) /\ handler'[c].kind = handler[c].kind
                          /\ Entering(c)' => Entering(c)
  PROVE  Overlaps'
<1>1. ASSUME NEW c \in Conns, NEW d \in Conns, Working(c)', Working(d)', c # d
      PROVE  {handler'[c].kind, handler'[d].kind} \in overlap'
  BY <1>1 DEF Overlaps
<1>2. ASSUME NEW c \in Conns, NEW d \in Conns, Working(c)', Entering(d)'
      PROVE  {"join", handler'[c].kind} \in overlap'
  BY <1>2 DEF Overlaps
<1>3. ASSUME NEW c \in Conns, NEW d \in Conns, Entering(c)', Entering(d)', c # d
      PROVE  {"join"} \in overlap'
  BY <1>3 DEF Overlaps
<1>4. QED
  BY <1>1, <1>2, <1>3 DEF Overlaps

\* One handler starts.
LEMMA StartOverlaps ==
  ASSUME Overlaps, NEW k, Begin(k), NEW c \in Conns, UNCHANGED joining,
         handler'[c].kind = k, ~Working(c), \A d \in Conns \ {c} : handler'[d] = handler[d]
  PROVE  Overlaps'
<1>1. /\ overlap \subseteq overlap'
      /\ \A d \in Conns : Working(d) => {k, handler[d].kind} \in overlap'
      /\ \A d \in Conns : Entering(d) => {k, "join"} \in overlap'
  BY BeginIs
<1>2. \A d \in Conns : Entering(d)' <=> Entering(d)
  BY DEF Entering
<1>3. \A d \in Conns \ {c} : Working(d)' <=> Working(d)
  BY DEF Working, Stuck
<1>4. ASSUME NEW x \in Conns, NEW d \in Conns, Working(x)', Working(d)', x # d
      PROVE  {handler'[x].kind, handler'[d].kind} \in overlap'
  <2>1. CASE x = c
    BY <1>1, <1>3, <1>4, <2>1
  <2>2. CASE d = c
    <3>1. {k, handler[x].kind} \in overlap'
      BY <1>1, <1>3, <1>4, <2>2
    <3>2. {k, handler[x].kind} = {handler[x].kind, k}
      OBVIOUS
    <3>3. QED
      BY <1>4, <2>2, <3>1, <3>2
  <2>3. CASE x # c /\ d # c
    BY <1>1, <1>3, <1>4, <2>3 DEF Overlaps
  <2>4. QED
    BY <2>1, <2>2, <2>3
<1>5. ASSUME NEW x \in Conns, NEW d \in Conns, Working(x)', Entering(d)'
      PROVE  {"join", handler'[x].kind} \in overlap'
  <2>1. CASE x = c
    <3>1. {k, "join"} \in overlap' /\ {k, "join"} = {"join", k}
      BY <1>1, <1>2, <1>5
    <3>2. QED
      BY <2>1, <3>1
  <2>2. CASE x # c
    BY <1>1, <1>2, <1>3, <1>5, <2>2 DEF Overlaps
  <2>3. QED
    BY <2>1, <2>2
<1>6. ASSUME NEW x \in Conns, NEW d \in Conns, Entering(x)', Entering(d)', x # d
      PROVE  {"join"} \in overlap'
  BY <1>1, <1>2, <1>6 DEF Overlaps
<1>7. QED
  BY <1>4, <1>5, <1>6 DEF Overlaps

\* One goroutine starts to let a connection in.
LEMMA EnterOverlaps ==
  ASSUME Overlaps, overlap \subseteq overlap', NEW c \in Conns,
         \A d \in Conns \ {c} : joining'[d] = joining[d],
         \A d \in Conns : Working(d)' =>
           /\ Working(d) /\ handler'[d].kind = handler[d].kind
           /\ {"join", handler[d].kind} \in overlap',
         \A d \in Conns : Entering(d) => {"join"} \in overlap'
  PROVE  Overlaps'
<1>1. \A d \in Conns \ {c} : Entering(d)' <=> Entering(d)
  BY DEF Entering
<1>2. ASSUME NEW x \in Conns, NEW d \in Conns, Working(x)', Working(d)', x # d
      PROVE  {handler'[x].kind, handler'[d].kind} \in overlap'
  BY <1>2 DEF Overlaps
<1>3. ASSUME NEW x \in Conns, NEW d \in Conns, Working(x)', Entering(d)'
      PROVE  {"join", handler'[x].kind} \in overlap'
  BY <1>3
<1>4. ASSUME NEW x \in Conns, NEW d \in Conns, Entering(x)', Entering(d)', x # d
      PROVE  {"join"} \in overlap'
  BY <1>1, <1>4
<1>5. QED
  BY <1>2, <1>3, <1>4 DEF Overlaps

\* What every step of a handler of the game has in common.
HandlerStep(c) ==
  /\ handler[c].pc \notin {"idle", "answer"}
  /\ \/ handler'[c] = Idle
     \/ handler'[c].kind = handler[c].kind /\ handler'[c].pc \notin {"idle", "answer"}
  /\ \A d \in Conns \ {c} : handler'[d] = handler[d]
  /\ UNCHANGED <<joining, overlap, requiresAuth, admitted, crashed>>
  /\ \A d \in Conns : connected'[d] => connected[d]

LEMMA GotoIs ==
  ASSUME handler \in [Conns -> Handlers], NEW c \in Conns, NEW h, Goto(c, h)
  PROVE  /\ handler'[c] = Settle(h) /\ (handler'[c] = h \/ handler'[c] = Idle)
         /\ \A d \in Conns \ {c} : handler'[d] = handler[d]
<1>1. Settle(h) = h \/ Settle(h) = Idle
  BY DEF Settle
<1>2. QED
  BY <1>1 DEF Goto

LEMMA Handling ==
  ASSUME Typed, NEW c \in Conns,
         \/ StartCreate(c) \/ StartRun(c) \/ MoveStop(c)
         \/ MoveBoard(c) \/ MoveMode(c) \/ MoveEncode(c) \/ BeginCast(c)
         \/ \E p \in players : SendTo(c, p)
  PROVE  HandlerStep(c)
<1> USE DEF Typed
<1>1. handler \in [Conns -> Handlers]
  BY DEF TypedHandlers
<1>2. PICK h \in Handlers : h = handler[c] /\ HandlerOK(h)
  BY DEF TypedHandlers
<1>3. UNCHANGED <<joining, overlap, requiresAuth, admitted, crashed>>
  BY Zenon DEF StartCreate, StartRun, MoveStop, MoveBoard, MoveMode, MoveEncode, BeginCast, SendTo,
         server, history
<1>4. ASSUME NEW d \in Conns, connected'[d] PROVE connected[d]
  <2>1. UNCHANGED connected \/ Drop(c)
    BY Zenon DEF StartCreate, StartRun, MoveStop, MoveBoard, MoveMode, MoveEncode, BeginCast, SendTo
  <2>2. QED
    BY <1>4, <2>1, Zenon DEF Drop, TypedNet
<1>5. handler[c].pc \notin {"idle", "answer"}
  BY Zenon DEF StartCreate, StartRun, MoveStop, MoveBoard, MoveMode, MoveEncode, BeginCast, SendTo
<1>6. \E k : Goto(c, k) /\ (k = Idle \/ (k.kind = h.kind /\ k.pc \notin {"idle", "answer"}))
  <2>1. CASE StartCreate(c)
    <3>1. h.kind = "start"
      BY <1>2, <2>1 DEF StartCreate, HandlerOK
    <3>2. PICK k : k = Casting("start", <<StartMsg(h.arg)>>, "run", h.arg)
      OBVIOUS
    <3>3. Goto(c, k) \/ Goto(c, Idle)
      BY <1>2, <2>1, <3>2 DEF StartCreate
    <3>4. k.kind = "start" /\ k.pc = "next"
      BY <3>2 DEF Casting
    <3>5. QED
      BY <3>1, <3>3, <3>4
  <2>2. CASE StartRun(c) \/ MoveStop(c)
    BY <2>2 DEF StartRun, MoveStop
  <2>3. CASE MoveBoard(c)
    <3>1. h.kind = "move"
      BY <1>2, <2>3, HandlerFields DEF MoveBoard, Wants
    <3>2. PICK r : r = MakeMove(games[game].board, h.type, h.cell)
      OBVIOUS
    <3>3. PICK k : k = [kind |-> "move", pc |-> "mode", g |-> game,
                        result |-> r.result, updated |-> r.updated]
      OBVIOUS
    <3>4. Goto(c, k) \/ Goto(c, Idle)
      BY <1>2, <2>3, <3>2, <3>3 DEF MoveBoard
    <3>5. k.kind = "move" /\ k.pc = "mode"
      BY <3>3
    <3>6. QED
      BY <3>1, <3>4, <3>5
  <2>4. CASE MoveMode(c)
    <3>1. h.kind = "move"
      BY <1>2, <2>4, HandlerFields DEF MoveMode, Modes
    <3>2. PICK info :
            Goto(c, [kind |-> "move", pc |-> "encode", g |-> h.g, result |-> h.result,
                     updated |-> h.updated, info |-> info])
      BY <1>2, <2>4 DEF MoveMode
    <3>3. QED
      BY <3>1, <3>2
  <2>5. CASE MoveEncode(c)
    <3>1. h.kind = "move"
      BY <1>2, <2>5, HandlerFields DEF MoveEncode, Encodes
    <3>2. PICK then : Goto(c, Casting("move", MoveMessages(h), then, h.g))
      BY <1>2, <2>5 DEF MoveEncode
    <3>3. PICK k : k = Casting("move", MoveMessages(h), then, h.g)
      OBVIOUS
    <3>4. k.kind = "move" /\ k.pc = "next"
      BY <3>3 DEF Casting
    <3>5. QED
      BY <3>1, <3>2, <3>3, <3>4
  <2>6. CASE BeginCast(c)
    <3>1. h \in Casts /\ players \in SUBSET Conns
      BY <1>2, <2>6, CastFields DEF BeginCast, TypedNet
    <3>2. PICK k : k = [h EXCEPT !.pc = "cast", !.left = players]
      OBVIOUS
    <3>3. k.kind = h.kind /\ k.pc = "cast"
      <4>1. k = [kind |-> h.kind, pc |-> "cast", msgs |-> h.msgs, left |-> players,
                 then |-> h.then, arg |-> h.arg]
        BY <3>1, <3>2, CastSteps
      <4>2. QED
        BY <4>1
    <3>4. QED
      BY <1>2, <2>6, <3>2, <3>3 DEF BeginCast, ReceiversOf
  <2>7. CASE \E p \in players : SendTo(c, p)
    <3>1. PICK p \in players :
            Goto(c, IF h.left = {p} THEN Casting(h.kind, Tail(h.msgs), h.then, h.arg)
                                    ELSE [h EXCEPT !.left = @ \ {p}])
      BY <1>2, <2>7 DEF SendTo
    <3>2. h \in Casts /\ h.pc = "cast" /\ h.left \in SUBSET Conns
      BY <1>2, <2>7, CastFields DEF SendTo
    <3>3. PICK S \in SUBSET Conns : S = h.left \ {p}
      BY <3>2
    <3>4. PICK k : k = [h EXCEPT !.left = S]
      OBVIOUS
    <3>5. k.kind = h.kind /\ k.pc = "cast"
      <4>1. k = [kind |-> h.kind, pc |-> h.pc, msgs |-> h.msgs, left |-> S,
                 then |-> h.then, arg |-> h.arg]
        BY <3>2, <3>4, CastSteps
      <4>2. QED
        BY <3>2, <4>1
    <3>6. PICK m : m = Casting(h.kind, Tail(h.msgs), h.then, h.arg)
      OBVIOUS
    <3>7. m.kind = h.kind /\ m.pc = "next"
      BY <3>6 DEF Casting
    <3>8. Goto(c, k) \/ Goto(c, m)
      BY <3>1, <3>3, <3>4, <3>6
    <3>9. QED
      BY <3>5, <3>7, <3>8
  <2>8. QED
    BY <2>1, <2>2, <2>3, <2>4, <2>5, <2>6, <2>7
<1>7. QED
  BY <1>1, <1>2, <1>3, <1>4, <1>5, <1>6, GotoIs DEF HandlerStep

\* A request: c reads it, and its handler starts, of the kind that is recorded.
RequestStep(c) ==
  /\ Reads(c)
  /\ \A d \in Conns \ {c} : handler'[d] = handler[d]
  /\ \/ handler'[c] = Idle /\ overlap' = overlap
     \/ Begin(handler'[c].kind)
  /\ UNCHANGED <<joining, requiresAuth>>

LEMMA Requesting ==
  ASSUME Typed, NEW c \in Conns, ReadToken(c) \/ HandleStartGame(c) \/ HandleMove(c)
  PROVE  RequestStep(c)
<1>0. handler \in [Conns -> Handlers]
  BY DEF Typed, TypedHandlers
<1>1. Reads(c) /\ UNCHANGED <<joining, requiresAuth>> /\ handler[c] = Idle
  BY DEF ReadToken, HandleStartGame, HandleMove, server, Reads
<1>2. CASE ReadToken(c)
  <2>1. PICK s : Goto(c, [kind |-> "token", pc |-> "answer", success |-> s])
    BY <1>2 DEF ReadToken
  <2>2. PICK k : k = [kind |-> "token", pc |-> "answer", success |-> s]
    OBVIOUS
  <2>3. Settle(k) = k
    BY <2>2 DEF Settle, Finished
  <2>4. handler'[c].kind = "token" /\ \A d \in Conns \ {c} : handler'[d] = handler[d]
    BY <1>0, <2>1, <2>2, <2>3, GotoIs
  <2>5. QED
    BY <1>1, <1>2, <2>4 DEF ReadToken, RequestStep
<1>3. CASE HandleStartGame(c)
  <2>1. PICK m, p : Goto(c, Casting("start", m, "create", p))
    BY <1>3 DEF HandleStartGame
  <2>2. PICK k : k = Casting("start", m, "create", p)
    OBVIOUS
  <2>3. Settle(k) = k
    BY <2>2 DEF Settle, Finished, Casting
  <2>4. handler'[c].kind = "start" /\ \A d \in Conns \ {c} : handler'[d] = handler[d]
    BY <1>0, <2>1, <2>2, <2>3, GotoIs DEF Casting
  <2>5. QED
    BY <1>1, <1>3, <2>4 DEF HandleStartGame, RequestStep
<1>4. CASE HandleMove(c)
  <2>1. CASE UNCHANGED <<handler, overlap>>
    BY <1>1, <2>1 DEF RequestStep
  <2>2. CASE ~UNCHANGED <<handler, overlap>>
    <3>1. PICK type, cell :
            /\ Goto(c, [kind |-> "move", pc |-> "want", type |-> type, cell |-> cell])
            /\ Begin("move")
      BY <1>4, <2>2 DEF HandleMove
    <3>2. PICK k : k = [kind |-> "move", pc |-> "want", type |-> type, cell |-> cell]
      OBVIOUS
    <3>3. Settle(k) = k
      BY <3>2 DEF Settle, Finished
    <3>4. handler'[c].kind = "move" /\ \A d \in Conns \ {c} : handler'[d] = handler[d]
      BY <1>0, <3>1, <3>2, <3>3, GotoIs
    <3>5. QED
      BY <1>1, <3>1, <3>4 DEF RequestStep
  <2>3. QED
    BY <2>1, <2>2
<1>5. QED
  BY <1>2, <1>3, <1>4

\* Joins that neither start nor change how the handlers look.
LEMMA Ending ==
  ASSUME Typed, NEW c \in Conns,
         \/ Register(c) \/ AuthTimeout(c) \/ SwapHandlers(c) \/ JoinCheck(c)
         \/ JoinEncodeStart(c) \/ JoinSendStart(c) \/ JoinEncodeCells(c) \/ JoinSendCells(c)
  PROVE  /\ \A d \in Conns : /\ handler'[d].kind = handler[d].kind
                             /\ handler'[d].pc = handler[d].pc
                             /\ (handler'[d] = Idle <=> handler[d] = Idle)
         /\ \A d \in Conns \ {c} : joining'[d] = joining[d]
         /\ joining[c].pc # "off" /\ joining'[c].pc \notin {"off", "accepted"}
         /\ joining'[c].pc = "auth" => joining[c].pc = "accepted" /\ requiresAuth
         /\ joining[c].pc \in {"auth", "accepted"} \/ joining[c].pc \notin JoinDone
         /\ UNCHANGED <<overlap, requiresAuth, admitted, connected, crashed>>
<1> USE DEF Typed
<1>1. joining \in [Conns -> Joins]
  BY DEF TypedJoins
<1>2. /\ \A d \in Conns \ {c} : joining'[d] = joining[d]
      /\ joining'[c].pc \notin {"off", "accepted"}
      /\ joining'[c].pc = "auth" => Register(c) /\ requiresAuth
  <2>1. CASE Register(c)
    BY <1>1, <2>1 DEF Register
  <2>2. CASE AuthTimeout(c) \/ SwapHandlers(c) \/ JoinCheck(c)
    BY <1>1, <2>2 DEF AuthTimeout, SwapHandlers, JoinCheck
  <2>3. CASE JoinEncodeStart(c) \/ JoinSendStart(c) \/ JoinEncodeCells(c) \/ JoinSendCells(c)
    BY <1>1, <2>3 DEF JoinEncodeStart, JoinSendStart, JoinEncodeCells, JoinSendCells
  <2>4. QED
    BY <2>1, <2>2, <2>3
<1>3. /\ UNCHANGED <<overlap, requiresAuth, admitted, connected, crashed>>
      /\ joining[c].pc \in {"accepted", "auth", "granted", "check", "start", "sendStart", "cells",
                            "sendCells"}
      /\ Register(c) => joining[c].pc = "accepted"
  BY DEF Register, AuthTimeout, SwapHandlers, JoinCheck, JoinEncodeStart, JoinSendStart,
         JoinEncodeCells, JoinSendCells, server, history
<1>4. ASSUME NEW d \in Conns
      PROVE  /\ handler'[d].kind = handler[d].kind /\ handler'[d].pc = handler[d].pc
             /\ (handler'[d] = Idle <=> handler[d] = Idle)
  <2>1. CASE Register(c)
    <3>1. PICK seen \in SUBSET {e \in Conns : handler[e].pc = "cast"} :
            handler' = [e \in Conns |-> IF e \in seen THEN [handler[e] EXCEPT !.left = @ \cup {c}]
                                                      ELSE handler[e]]
      BY <2>1 DEF Register
    <3>2. CASE d \in seen
      <4>1. PICK h \in Casts : h = handler[d] /\ h.pc = "cast" /\ h.left \in SUBSET Conns
        BY <3>2, CastFields
      <4>2. PICK S \in SUBSET Conns : S = h.left \cup {c}
        BY <4>1
      <4>3. handler'[d] = [kind |-> h.kind, pc |-> h.pc, msgs |-> h.msgs, left |-> S,
                           then |-> h.then, arg |-> h.arg]
        BY <3>1, <3>2, <4>1, <4>2, CastSteps
      <4>4. h # Idle /\ handler'[d] # Idle
        BY <4>1, <4>3 DEF Idle
      <4>5. QED
        BY <4>1, <4>3, <4>4
    <3>3. CASE d \notin seen
      BY <3>1, <3>3
    <3>4. QED
      BY <3>2, <3>3
  <2>2. CASE ~Register(c)
    BY <2>2 DEF AuthTimeout, SwapHandlers, JoinCheck, JoinEncodeStart, JoinSendStart,
                JoinEncodeCells, JoinSendCells
  <2>3. QED
    BY <2>1, <2>2
<1>5. QED
  BY <1>1, <1>2, <1>3, <1>4 DEF JoinDone

-----------------------------------------------------------------------------
(***************************************************************************)
(* What ran at the same time is recorded.                                  *)
(***************************************************************************)
Recorded == Typed /\ ReaderLater /\ Overlaps

LEMMA ReaderLaterNext ==
  ASSUME Recorded, Next
  PROVE  ReaderLater'
<1> USE DEF Recorded
<1>1. ASSUME NEW c \in Conns, NEW d \in Conns, joining'[d].pc \in {"off", "accepted"},
             \/ Accept(c)
             \/ Register(c) \/ AuthTimeout(c) \/ SwapHandlers(c) \/ JoinCheck(c)
             \/ JoinEncodeStart(c) \/ JoinSendStart(c) \/ JoinEncodeCells(c) \/ JoinSendCells(c)
      PROVE  handler'[d] = Idle
  <2>1. CASE Accept(c)
    BY <1>1, <2>1 DEF Accept, ReaderLater, Typed, TypedJoins
  <2>2. CASE ~Accept(c)
    BY <1>1, <2>2, Ending DEF ReaderLater
  <2>3. QED
    BY <2>1, <2>2
<1>2. ASSUME NEW c \in Conns, NEW d \in Conns, joining'[d].pc \in {"off", "accepted"},
             \/ ReadToken(c) \/ HandleStartGame(c) \/ HandleMove(c)
             \/ NoHandler(c) \/ Leave(c) \/ Deliver(c) \/ HandlersRace(c)
      PROVE  handler'[d] = Idle
  <2>1. CASE ReadToken(c) \/ HandleStartGame(c) \/ HandleMove(c)
    BY <1>2, <2>1, Requesting DEF RequestStep, Reads, ReaderLater
  <2>2. CASE NoHandler(c) \/ Leave(c) \/ Deliver(c) \/ HandlersRace(c)
    BY <1>2, <2>2 DEF NoHandler, Leave, Deliver, HandlersRace, ReaderLater
  <2>3. QED
    BY <1>2, <2>1, <2>2
<1>3. ASSUME NEW c \in Conns, NEW d \in Conns, joining'[d].pc \in {"off", "accepted"},
             \/ AuthAnswer(c) \/ StartCreate(c) \/ StartRun(c) \/ MoveStop(c)
             \/ MoveBoard(c) \/ MoveMode(c) \/ MoveEncode(c) \/ BeginCast(c)
             \/ \E p \in players : SendTo(c, p)
      PROVE  handler'[d] = Idle
  <2>1. CASE AuthAnswer(c)
    <3>1. handler' = [handler EXCEPT ![c] = Idle]
      BY <2>1 DEF AuthAnswer, Goto, Settle, Finished, Idle
    <3>2. PICK p \in {"granted", "refused"} : joining' = [joining EXCEPT ![c] = [pc |-> p]]
      BY <2>1 DEF AuthAnswer
    <3>3. QED
      BY <1>3, <3>1, <3>2 DEF ReaderLater, Typed, TypedJoins, TypedHandlers
  <2>2. CASE ~AuthAnswer(c)
    <3>1. HandlerStep(c)
      BY <1>3, <2>2, Handling
    <3>2. handler[d] = Idle
      BY <1>3, <3>1 DEF HandlerStep, ReaderLater
    <3>3. QED
      BY <3>1, <3>2 DEF HandlerStep, Idle
  <2>3. QED
    BY <2>1, <2>2
<1>4. ASSUME MapRace, NEW d \in Conns, joining'[d].pc \in {"off", "accepted"}
      PROVE  handler'[d] = Idle
  BY <1>4 DEF MapRace, ReaderLater
<1>5. QED
  BY <1>1, <1>2, <1>3, <1>4, StepIs, Zenon DEF ReaderLater

LEMMA OverlapsNext ==
  ASSUME Recorded, Next
  PROVE  Overlaps'
<1> USE DEF Recorded
<1>1. ASSUME NEW c \in Conns, Accept(c)
      PROVE  Overlaps'
  <2>1. /\ \A d \in Conns \ {c} : joining'[d] = joining[d]
        /\ joining[c].pc = "off" /\ joining'[c].pc = "accepted" /\ UNCHANGED handler
        /\ Begin("join")
    BY <1>1 DEF Accept, Typed, TypedJoins
  <2>2. /\ overlap \subseteq overlap'
        /\ \A d \in Conns : Working(d) => {"join", handler[d].kind} \in overlap'
        /\ \A d \in Conns : Entering(d) => {"join", "join"} \in overlap'
    BY <2>1, BeginIs
  <2>3. {"join", "join"} = {"join"}
    OBVIOUS
  <2>4. handler[c] = Idle
    BY <2>1 DEF ReaderLater
  <2>5. \A d \in Conns : Working(d)' => Working(d)
    BY <2>1, <2>4 DEF Working, Stuck
  <2>6. QED
    BY <2>1, <2>2, <2>3, <2>5, EnterOverlaps
<1>2. ASSUME NEW c \in Conns,
             \/ Register(c) \/ AuthTimeout(c) \/ SwapHandlers(c) \/ JoinCheck(c)
             \/ JoinEncodeStart(c) \/ JoinSendStart(c) \/ JoinEncodeCells(c) \/ JoinSendCells(c)
      PROVE  Overlaps'
  <2>1. /\ \A d \in Conns : /\ handler'[d].kind = handler[d].kind
                            /\ handler'[d].pc = handler[d].pc
                            /\ (handler'[d] = Idle <=> handler[d] = Idle)
        /\ \A d \in Conns \ {c} : joining'[d] = joining[d]
        /\ joining'[c].pc \notin {"off", "accepted"}
        /\ joining'[c].pc = "auth" => joining[c].pc = "accepted"
        /\ joining[c].pc \in {"auth", "accepted"} \/ joining[c].pc \notin JoinDone
        /\ UNCHANGED overlap
    BY <1>2, Ending
  <2>2. ASSUME NEW d \in Conns, Working(d)' PROVE Working(d)
    <3>1. CASE joining'[d].pc = "auth" /\ d = c
      BY <2>1, <2>2, <3>1 DEF Working, Stuck, ReaderLater
    <3>2. CASE joining'[d].pc # "auth" \/ d # c
      BY <2>1, <2>2, <3>2 DEF Working, Stuck
    <3>3. QED
      BY <3>1, <3>2
  <2>3. ASSUME NEW d \in Conns, Entering(d)' PROVE Entering(d)
    <3>1. CASE d # c
      BY <2>1, <2>3, <3>1 DEF Entering
    <3>2. CASE d = c /\ AuthTimeout(c)
      BY <2>3, <3>2 DEF Entering, AuthTimeout, JoinDone, Typed, TypedJoins
    <3>3. CASE d = c /\ ~AuthTimeout(c)
      BY <1>2, <3>3 DEF Entering, JoinDone, Register, SwapHandlers, JoinCheck, JoinEncodeStart,
                        JoinSendStart, JoinEncodeCells, JoinSendCells
    <3>4. QED
      BY <3>1, <3>2, <3>3
  <2>4. QED
    BY <2>1, <2>2, <2>3, SameOverlaps
<1>3. ASSUME NEW c \in Conns, ReadToken(c) \/ HandleStartGame(c) \/ HandleMove(c)
      PROVE  Overlaps'
  <2>1. RequestStep(c)
    BY <1>3, Requesting
  <2>2. handler[c] = Idle /\ ~Working(c)
    BY <2>1 DEF RequestStep, Reads, Working
  <2>3. CASE handler'[c] = Idle /\ overlap' = overlap
    BY <2>1, <2>2, <2>3, SameOverlaps DEF RequestStep, Working, Stuck, Entering
  <2>4. CASE Begin(handler'[c].kind)
    BY <2>1, <2>2, <2>4, StartOverlaps DEF RequestStep
  <2>5. QED
    BY <2>1, <2>3, <2>4 DEF RequestStep
<1>4. ASSUME NEW c \in Conns, NoHandler(c) \/ Leave(c) \/ Deliver(c) \/ HandlersRace(c)
      PROVE  Overlaps'
  <2>1. UNCHANGED <<handler, joining>> /\ overlap \subseteq overlap'
    BY <1>4 DEF NoHandler, Leave, Deliver, HandlersRace, history
  <2>2. QED
    BY <2>1, SameOverlaps DEF Working, Stuck, Entering
<1>5. ASSUME NEW c \in Conns, AuthAnswer(c)
      PROVE  Overlaps'
  <2>1. /\ handler[c].pc = "answer" /\ joining[c].pc = "auth"
        /\ handler' = [handler EXCEPT ![c] = Idle]
        /\ overlap \subseteq overlap'
    BY <1>5 DEF AuthAnswer, Goto, Settle, Finished, Idle
  <2>2. PICK p \in {"granted", "refused"} : joining' = [joining EXCEPT ![c] = [pc |-> p]]
    BY <1>5 DEF AuthAnswer
  <2>3. /\ handler'[c] = Idle /\ \A d \in Conns \ {c} : handler'[d] = handler[d]
        /\ \A d \in Conns \ {c} : joining'[d] = joining[d]
        /\ joining'[c].pc = p
    BY <2>1, <2>2 DEF Typed, TypedJoins, TypedHandlers
  <2>4. ASSUME NEW d \in Conns, Working(d)'
        PROVE  d # c /\ Working(d) /\ handler'[d].kind = handler[d].kind
    BY <2>3, <2>4 DEF Working, Stuck
  <2>5. CASE AuthSuccess(handler[c].success)
    <3>1. overlap' = overlap \cup {{"join", Kind(a)} : a \in Activities \ {<<"handler", c>>}}
      BY <1>5, <2>5 DEF AuthAnswer
    <3>2. ASSUME NEW d \in Conns, Working(d), d # c PROVE {"join", handler[d].kind} \in overlap'
      <4>1. <<"handler", d>> \in Activities \ {<<"handler", c>>}
        BY <3>2 DEF Activities, Working
      <4>2. Kind(<<"handler", d>>) = handler[d].kind
        BY DEF Kind
      <4>3. QED
        BY <3>1, <4>1, <4>2
    <3>3. ASSUME NEW d \in Conns, Entering(d) PROVE {"join"} \in overlap'
      <4>1. <<"join", d>> \in Activities \ {<<"handler", c>>}
        BY <3>3 DEF Activities, Entering
      <4>2. {"join", Kind(<<"join", d>>)} = {"join"}
        BY DEF Kind
      <4>3. QED
        BY <3>1, <4>1, <4>2
    <3>4. QED
      BY <2>1, <2>3, <2>4, <3>2, <3>3, EnterOverlaps
  <2>6. CASE ~AuthSuccess(handler[c].success)
    <3>1. p = "refused"
      BY <1>5, <2>2, <2>3, <2>6 DEF AuthAnswer, Typed, TypedJoins
    <3>2. \A d \in Conns : Entering(d)' => Entering(d)
      BY <2>3, <3>1 DEF Entering, JoinDone
    <3>3. QED
      BY <2>1, <2>4, <3>2, SameOverlaps
  <2>7. QED
    BY <2>5, <2>6
<1>6. ASSUME NEW c \in Conns, HandlerStep(c)
      PROVE  Overlaps'
  <2>1. ASSUME NEW d \in Conns, Working(d)'
        PROVE  Working(d) /\ handler'[d].kind = handler[d].kind
    <3>1. CASE d # c
      BY <1>6, <2>1, <3>1 DEF HandlerStep, Working, Stuck
    <3>2. CASE d = c
      BY <1>6, <2>1, <3>2 DEF HandlerStep, Working, Stuck, Idle
    <3>3. QED
      BY <3>1, <3>2
  <2>2. UNCHANGED <<joining, overlap>>
    BY <1>6 DEF HandlerStep
  <2>3. QED
    BY <2>1, <2>2, SameOverlaps DEF Entering
<1>7. ASSUME NEW c \in Conns,
             \/ StartCreate(c) \/ StartRun(c) \/ MoveStop(c)
             \/ MoveBoard(c) \/ MoveMode(c) \/ MoveEncode(c) \/ BeginCast(c)
             \/ \E p \in players : SendTo(c, p)
      PROVE  Overlaps'
  BY <1>6, <1>7, Handling
<1>8. CASE MapRace
  BY <1>8, SameOverlaps DEF MapRace, history, Working, Stuck, Entering
<1>9. QED
  BY <1>1, <1>2, <1>3, <1>4, <1>5, <1>7, <1>8, StepIs, Zenon

LEMMA InitRecorded == Init => Recorded
<1> SUFFICES ASSUME Init PROVE Recorded
  OBVIOUS
<1>1. Typed
  BY InitTyped
<1>2. ReaderLater
  BY DEF Init, ReaderLater
<1>3. \A c \in Conns : ~Working(c) /\ ~Entering(c)
  BY DEF Init, Working, Entering, JoinDone
<1>4. QED
  BY <1>1, <1>2, <1>3 DEF Recorded, Overlaps

LEMMA NextRecorded == Recorded /\ [Next]_vars => Recorded'
<1> SUFFICES ASSUME Recorded, [Next]_vars PROVE Recorded'
  OBVIOUS
<1>1. Typed'
  BY NextTyped DEF Recorded
<1>2. CASE Next
  BY <1>1, <1>2, ReaderLaterNext, OverlapsNext DEF Recorded
<1>3. CASE UNCHANGED vars
  <2>1. UNCHANGED <<handler, joining, overlap>>
    BY <1>3 DEF vars
  <2>2. ReaderLater'
    BY <2>1 DEF Recorded, ReaderLater
  <2>3. Overlaps'
    BY <2>1, SameOverlaps DEF Recorded, Working, Stuck, Entering
  <2>4. QED
    BY <1>1, <2>2, <2>3 DEF Recorded
<1>4. QED
  BY <1>2, <1>3

LEMMA RecordedAlways == Spec => []Recorded
BY InitRecorded, NextRecorded, PTL DEF Spec

-----------------------------------------------------------------------------
(***************************************************************************)
(* Authentication.                                                         *)
(***************************************************************************)
\* AuthGate is not inductive by itself: an answer on its way to the select
\* must be that of an admitted player, and one who was refused is cut off.
Gated(c) ==
  /\ joining[c].pc \in InGamePcs \cup {"granted"} => c \in admitted
  /\ handler[c].pc \notin {"idle", "answer"} => c \in admitted
  /\ handler[c].pc = "answer" /\ handler[c].success /\ joining[c].pc = "auth" => c \in admitted
  /\ joining[c].pc = "refused" => ~connected[c]

Gate == requiresAuth => \A c \in Conns : Gated(c)

LEMMA GatedStays ==
  ASSUME NEW c \in Conns, Gated(c), joining'[c] = joining[c], handler'[c] = handler[c],
         connected'[c] => connected[c], admitted \subseteq admitted'
  PROVE  Gated(c)'
  BY DEF Gated

LEMMA GateNext ==
  ASSUME Recorded, Gate, Next
  PROVE  Gate'
<1> USE DEF Recorded
<1>0. ASSUME NEW c \in Conns, NEW d \in Conns, d # c, requiresAuth,
             \/ Accept(c)
             \/ Register(c) \/ AuthTimeout(c) \/ SwapHandlers(c) \/ JoinCheck(c)
             \/ JoinEncodeStart(c) \/ JoinSendStart(c) \/ JoinEncodeCells(c) \/ JoinSendCells(c)
      PROVE  Gated(d)'
  <2>1. Gated(d)
    BY <1>0 DEF Gate
  <2>2. CASE Accept(c)
    BY <1>0, <2>1, <2>2, GatedStays DEF Accept, Typed, TypedJoins, TypedNet
  <2>3. CASE ~Accept(c)
    <3>1. /\ handler'[d].pc = handler[d].pc /\ joining'[d] = joining[d]
          /\ UNCHANGED <<admitted, connected>>
      BY <1>0, <2>3, Ending
    <3>2. handler[d].pc = "answer" => handler'[d] = handler[d]
      <4>1. CASE Register(c)
        BY <4>1 DEF Register
      <4>2. CASE ~Register(c)
        BY <1>0, <2>3, <4>2 DEF AuthTimeout, SwapHandlers, JoinCheck, JoinEncodeStart,
             JoinSendStart, JoinEncodeCells, JoinSendCells
      <4>3. QED
        BY <4>1, <4>2
    <3>3. QED
      BY <2>1, <3>1, <3>2 DEF Gated
  <2>4. QED
    BY <2>2, <2>3
<1>1. ASSUME NEW c \in Conns, requiresAuth, Accept(c)
      PROVE  Gated(c)'
  <2>1. joining[c].pc = "off" /\ joining'[c].pc = "accepted" /\ UNCHANGED <<handler, admitted>>
    BY <1>1 DEF Accept, Typed, TypedJoins
  <2>2. handler'[c] = Idle
    BY <2>1 DEF ReaderLater
  <2>3. QED
    BY <2>1, <2>2 DEF Gated, InGamePcs, Idle
<1>2. ASSUME NEW c \in Conns, requiresAuth,
             \/ Register(c) \/ AuthTimeout(c) \/ SwapHandlers(c) \/ JoinCheck(c)
             \/ JoinEncodeStart(c) \/ JoinSendStart(c) \/ JoinEncodeCells(c) \/ JoinSendCells(c)
      PROVE  Gated(c)'
  <2>1. Gated(c)
    BY <1>2 DEF Gate
  <2>2. /\ handler'[c].pc = handler[c].pc /\ UNCHANGED <<admitted, connected>>
        /\ (handler'[c] = Idle <=> handler[c] = Idle)
        /\ joining'[c].pc = "auth" => joining[c].pc = "accepted"
    BY <1>2, Ending
  <2>3. joining'[c].pc \in InGamePcs \cup {"granted"} => c \in admitted
    <3>1. CASE Register(c)
      BY <1>2, <3>1 DEF Register, Typed, TypedJoins, InGamePcs
    <3>2. CASE AuthTimeout(c)
      BY <3>2 DEF AuthTimeout, Typed, TypedJoins, InGamePcs
    <3>3. CASE ~Register(c) /\ ~AuthTimeout(c)
      BY <1>2, <2>1, <3>3 DEF SwapHandlers, JoinCheck, JoinEncodeStart, JoinSendStart,
           JoinEncodeCells, JoinSendCells, InGamePcs, Gated
    <3>4. QED
      BY <3>1, <3>2, <3>3
  <2>4. joining'[c].pc # "refused"
    BY <1>2 DEF Register, AuthTimeout, SwapHandlers, JoinCheck, JoinEncodeStart, JoinSendStart,
           JoinEncodeCells, JoinSendCells, Typed, TypedJoins
  <2>5. joining'[c].pc = "auth" => handler'[c] = Idle
    BY <2>2 DEF ReaderLater
  <2>6. QED
    BY <2>1, <2>2, <2>3, <2>4, <2>5 DEF Gated, Idle
<1>3. ASSUME NEW c \in Conns, NEW d \in Conns, requiresAuth,
             ReadToken(c) \/ HandleStartGame(c) \/ HandleMove(c)
      PROVE  Gated(d)'
  <2>1. Gated(c) /\ Gated(d)
    BY <1>3 DEF Gate
  <2>2. RequestStep(c) /\ UNCHANGED connected /\ admitted \subseteq admitted'
    BY <1>3, Requesting DEF ReadToken, HandleStartGame, HandleMove
  <2>3. CASE d # c
    BY <2>1, <2>2, <2>3, GatedStays DEF RequestStep
  <2>4. CASE d = c /\ ReadToken(c)
    <3>1. PICK token \in [expired : BOOLEAN, signed : BOOLEAN] :
            /\ Goto(c, [kind |-> "token", pc |-> "answer", success |-> ValidateAuthToken(token)])
            /\ admitted' = IF ValidateAuthToken(token) /\ joining[c].pc = "auth"
                           THEN admitted \cup {c} ELSE admitted
      BY <2>4 DEF ReadToken
    <3>2. PICK h : h = [kind |-> "token", pc |-> "answer", success |-> ValidateAuthToken(token)]
      OBVIOUS
    <3>3. Settle(h) = h /\ h.pc = "answer" /\ h.success = ValidateAuthToken(token)
      BY <3>2 DEF Settle, Finished
    <3>4. handler'[c] = h
      BY <3>1, <3>2, <3>3, GotoIs DEF Typed, TypedHandlers
    <3>5. UNCHANGED joining
      BY <2>2 DEF RequestStep
    <3>6. QED
      BY <2>1, <2>2, <2>4, <3>1, <3>3, <3>4, <3>5 DEF Gated
  <2>5. CASE d = c /\ ~ReadToken(c)
    <3>1. /\ joining[c].pc \notin {"off", "accepted", "auth", "expired", "granted"}
          /\ connected[c] /\ joining[c].pc \in JoinPcs
      BY <1>3, <2>5, PlainJoins DEF HandleStartGame, HandleMove, Reads, TokensOnly, Typed,
                                    TypedJoins
    <3>2. c \in admitted
      BY <2>1, <3>1 DEF Gated, JoinPcs
    <3>3. QED
      BY <2>1, <2>2, <2>5, <3>1, <3>2 DEF Gated, RequestStep
  <2>6. QED
    BY <2>3, <2>4, <2>5
<1>4. ASSUME NEW c \in Conns, NEW d \in Conns, requiresAuth,
             NoHandler(c) \/ Leave(c) \/ Deliver(c) \/ HandlersRace(c)
      PROVE  Gated(d)'
  <2>1. Gated(d)
    BY <1>4 DEF Gate
  <2>2. UNCHANGED <<handler, joining, admitted>> /\ (Drop(c) \/ UNCHANGED connected)
    BY <1>4 DEF NoHandler, Leave, Deliver, HandlersRace, history
  <2>3. connected'[d] => connected[d]
    BY <2>2 DEF Drop, Typed, TypedNet
  <2>4. QED
    BY <2>1, <2>2, <2>3, GatedStays
<1>5. ASSUME NEW c \in Conns, NEW d \in Conns, requiresAuth, AuthAnswer(c)
      PROVE  Gated(d)'
  <2>1. Gated(c) /\ Gated(d)
    BY <1>5 DEF Gate
  <2>2. /\ handler[c].pc = "answer" /\ joining[c].pc = "auth"
        /\ handler' = [handler EXCEPT ![c] = Idle]
        /\ handler[c].success \/ Drop(c)
        /\ UNCHANGED connected \/ Drop(c)
        /\ UNCHANGED admitted
    BY <1>5 DEF AuthAnswer, Goto, Settle, Finished, Idle
  <2>3. joining' = [joining EXCEPT ![c] =
                      [pc |-> IF handler[c].success THEN "granted" ELSE "refused"]]
    BY <1>5 DEF AuthAnswer, AuthSuccess
  <2>4. CASE d # c
    <3>1. /\ handler'[d] = handler[d] /\ joining'[d] = joining[d]
          /\ connected'[d] => connected[d]
      BY <2>2, <2>3, <2>4 DEF Typed, TypedHandlers, TypedJoins, TypedNet, Drop
    <3>2. QED
      BY <2>1, <2>2, <3>1, GatedStays
  <2>5. CASE d = c
    <3>1. handler'[c] = Idle
      BY <2>2 DEF Typed, TypedHandlers
    <3>2. CASE handler[c].success
      <4>1. joining'[c].pc = "granted"
        BY <2>3, <3>2 DEF Typed, TypedJoins
      <4>2. c \in admitted'
        BY <2>1, <2>2, <3>2 DEF Gated
      <4>3. QED
        BY <2>5, <3>1, <4>1, <4>2 DEF Gated, Idle
    <3>3. CASE ~handler[c].success
      <4>1. joining'[c].pc = "refused"
        BY <2>3, <3>3 DEF Typed, TypedJoins
      <4>2. ~connected'[c]
        BY <2>2, <3>3 DEF Drop, Typed, TypedNet
      <4>3. QED
        BY <2>5, <3>1, <4>1, <4>2 DEF Gated, Idle, InGamePcs
    <3>4. QED
      BY <3>2, <3>3
  <2>6. QED
    BY <2>4, <2>5
<1>6. ASSUME NEW c \in Conns, NEW d \in Conns, requiresAuth, HandlerStep(c)
      PROVE  Gated(d)'
  <2>1. Gated(c) /\ Gated(d)
    BY <1>6 DEF Gate
  <2>2. /\ UNCHANGED <<joining, admitted>> /\ (connected'[d] => connected[d])
    BY <1>6 DEF HandlerStep
  <2>3. CASE d # c
    BY <1>6, <2>1, <2>2, <2>3, GatedStays DEF HandlerStep
  <2>4. CASE d = c
    <3>1. c \in admitted /\ handler'[c].pc # "answer"
      BY <1>6, <2>1 DEF HandlerStep, Gated, Idle
    <3>2. QED
      BY <2>1, <2>2, <2>4, <3>1 DEF Gated
  <2>5. QED
    BY <2>3, <2>4
<1>7. requiresAuth' = requiresAuth
  <2>1. ASSUME NEW c \in Conns,
               \/ Accept(c)
               \/ Register(c) \/ AuthTimeout(c) \/ SwapHandlers(c) \/ JoinCheck(c)
               \/ JoinEncodeStart(c) \/ JoinSendStart(c) \/ JoinEncodeCells(c) \/ JoinSendCells(c)
               \/ ReadToken(c) \/ HandleStartGame(c) \/ HandleMove(c)
               \/ NoHandler(c) \/ Leave(c) \/ Deliver(c) \/ HandlersRace(c) \/ AuthAnswer(c)
        PROVE  requiresAuth' = requiresAuth
    BY <2>1 DEF Accept, Register, AuthTimeout, SwapHandlers, JoinCheck, JoinEncodeStart,
         JoinSendStart, JoinEncodeCells, JoinSendCells, ReadToken, HandleStartGame, HandleMove,
         NoHandler, Leave, Deliver, HandlersRace, AuthAnswer, server
  <2>2. ASSUME NEW c \in Conns,
               \/ StartCreate(c) \/ StartRun(c) \/ MoveStop(c)
               \/ MoveBoard(c) \/ MoveMode(c) \/ MoveEncode(c) \/ BeginCast(c)
               \/ \E p \in players : SendTo(c, p)
        PROVE  requiresAuth' = requiresAuth
    BY <2>2, Handling DEF HandlerStep
  <2>3. CASE MapRace
    BY <2>3 DEF MapRace, server
  <2>4. QED
    BY <2>1, <2>2, <2>3, StepIs, Zenon
<1> SUFFICES ASSUME requiresAuth, NEW d \in Conns PROVE Gated(d)'
  BY <1>7 DEF Gate
<1>8. CASE MapRace
  <2>1. Gated(d) /\ UNCHANGED <<handler, joining, connected, admitted>>
    BY <1>8 DEF Gate, MapRace, history
  <2>2. QED
    BY <2>1, GatedStays
<1>9. ASSUME NEW c \in Conns,
             \/ Accept(c)
             \/ Register(c) \/ AuthTimeout(c) \/ SwapHandlers(c) \/ JoinCheck(c)
             \/ JoinEncodeStart(c) \/ JoinSendStart(c) \/ JoinEncodeCells(c) \/ JoinSendCells(c)
      PROVE  Gated(d)'
  BY <1>0, <1>1, <1>2, <1>9
<1>10. ASSUME NEW c \in Conns,
              \/ StartCreate(c) \/ StartRun(c) \/ MoveStop(c)
              \/ MoveBoard(c) \/ MoveMode(c) \/ MoveEncode(c) \/ BeginCast(c)
              \/ \E p \in players : SendTo(c, p)
       PROVE  Gated(d)'
  BY <1>6, <1>10, Handling
<1>11. QED
  BY <1>3, <1>4, <1>5, <1>8, <1>9, <1>10, StepIs, Zenon

\* A server that requires authentication serves nobody who was not admitted
\* by a valid token, however the answers and the 5 seconds fall.
THEOREM GateCorrect == Spec => []AuthGate
<1>1. Init => Gate
  BY DEF Init, Gate, Gated, InGamePcs, Idle
<1>2. Recorded /\ Gate /\ [Next]_vars => Gate'
  <2> SUFFICES ASSUME Recorded, Gate, [Next]_vars PROVE Gate'
    OBVIOUS
  <2>1. CASE UNCHANGED vars
    BY <2>1 DEF vars, Gate, Gated
  <2>2. QED
    BY <2>1, GateNext
<1>3. Gate => AuthGate
  BY DEF Gate, Gated, AuthGate
<1>4. QED
  BY <1>1, <1>2, <1>3, RecordedAlways, PTL DEF Spec

-----------------------------------------------------------------------------
(***************************************************************************)
(* How often a game ends.  EndsOnce needs to know who is about to end one: *)
(* the single winner, for a cleared board, whose win is not yet sent; and  *)
(* after an end nobody may still be moving in the game, or revive it.      *)
(***************************************************************************)
Moving(c, g) == handler[c].pc \in {"mode", "encode"} /\ handler[c].g = g
Winner(c, g) == Moving(c, g) /\ handler[c].result = "GameWon"
Wanting(c)   == handler[c].pc = "want"
Reviving(c)  == handler[c].pc \in {"next", "cast"} /\ handler[c].then = "run"
Stopping(c)  == handler[c].pc \in {"next", "cast"} /\ handler[c].then = "stop"

Wins(g) ==
  /\ \A c, d \in Conns : Winner(c, g) /\ Winner(d, g) => c = d
  /\ \A c \in Conns : Winner(c, g) => Cleared(games[g].board) /\ ends[g].Win = 0
  /\ ends[g].Win # 0 => Cleared(games[g].board)
  /\ ends[g].Win <= 1

Over(g) == ends[g].Win + ends[g].Loss # 0

Once(g) ==
  /\ ends[g].Win + ends[g].Loss <= 1
  /\ Over(g) => /\ \A c \in Conns : ~Moving(c, g)
                /\ g = game => \A c \in Conns : ~Wanting(c) /\ ~Reviving(c)
                /\ g = game /\ gameRunning => \E c \in Conns : Stopping(c)

Apart == overlap \cap {{"move"}, {"move", "start"}} = {}

Ends == \A g \in DOMAIN games : Wins(g) /\ (Apart => Once(g))

LEMMA EndsIsEndsOnce ==
  ASSUME TypedGames, Ends
  PROVE  EndsOnce
<1>1. DOMAIN ends = DOMAIN games
  BY LenProperties DEF TypedGames
<1>2. QED
  BY <1>1 DEF Ends, Wins, Once, Apart, EndsOnce

LEMMA EndsAre ==
  ASSUME TypedGames, NEW g \in DOMAIN games
  PROVE  ends[g] \in [Win : Nat, Loss : Nat] /\ ends[g].Win \in Nat /\ ends[g].Loss \in Nat
<1>1. g \in 1 .. Len(ends)
  BY LenProperties DEF TypedGames
<1>2. ends[g] \in [Win : Nat, Loss : Nat]
  BY <1>1, ElementOfSeq DEF TypedGames
<1>3. QED
  BY <1>2

\* What kind of handler is where.
LEMMA KindIs ==
  ASSUME TypedHandlers, NEW c \in Conns
  PROVE  /\ handler[c].pc \in {"want", "mode", "encode"} => handler[c].kind = "move"
         /\ Stopping(c) => handler[c].kind = "move"
         /\ Reviving(c) => handler[c].kind = "start"
         /\ handler[c].pc \in {"next", "cast"} => handler[c].kind \in {"start", "move"}
<1>1. PICK h \in Handlers : h = handler[c] /\ HandlerOK(h)
  BY DEF TypedHandlers
<1>2. h.pc \in {"want", "mode", "encode"} => h.kind = "move"
  BY HandlerFields DEF Wants, Modes, Encodes
<1>3. h.pc \in {"next", "cast"} => h.kind \in {"start", "move"}
  BY HandlerFields DEF Casts
<1>4. QED
  BY <1>1, <1>2, <1>3 DEF Stopping, Reviving, HandlerOK

\* Beside a handler of a move no other handler of the game is at work.
LEMMA MoverAlone ==
  ASSUME Recorded, Apart, NEW c \in Conns, NEW d \in Conns, c # d,
         Stopping(c) \/ handler[c].pc \in {"want", "mode", "encode"}
  PROVE  handler[d].pc \notin {"next", "cast", "want", "mode", "encode"}
<1> SUFFICES ASSUME handler[d].pc \in {"next", "cast", "want", "mode", "encode"} PROVE FALSE
  OBVIOUS
<1>1. handler[c].kind = "move" /\ handler[d].kind \in {"start", "move"}
  BY KindIs DEF Recorded, Typed
<1>2. Working(c) /\ Working(d)
  BY DEF Working, Stuck, Idle, Stopping
<1>3. {handler[c].kind, handler[d].kind} \in overlap
  BY <1>2 DEF Recorded, Overlaps
<1>4. {handler[c].kind, handler[d].kind} \in {{"move"}, {"move", "start"}}
  BY <1>1
<1>5. QED
  BY <1>3, <1>4 DEF Apart

\* A handler that comes no nearer to an end of a game, nor away from it.
Keeps(c) ==
  /\ \A g \in DOMAIN games : /\ Moving(c, g)' => Moving(c, g)
                             /\ Winner(c, g)' => Winner(c, g)
  /\ Wanting(c)' => Wanting(c)
  /\ Reviving(c)' => Reviving(c)
  /\ Stopping(c) => Stopping(c)'

LEMMA KeepsIf ==
  ASSUME NEW c \in Conns,
         \/ handler'[c] = handler[c]
         \/ handler'[c].pc \in {"idle", "answer"} /\ ~Stopping(c)
         \/ /\ handler'[c].pc \in {"next", "cast"} /\ handler[c].pc \in {"next", "cast"}
            /\ handler'[c].then = handler[c].then
  PROVE  Keeps(c)
<1>1. CASE handler'[c] = handler[c]
  BY <1>1 DEF Keeps, Moving, Winner, Wanting, Reviving, Stopping
<1>2. CASE handler'[c].pc \in {"idle", "answer"} /\ ~Stopping(c)
  BY <1>2 DEF Keeps, Moving, Winner, Wanting, Reviving, Stopping
<1>3. CASE /\ handler'[c].pc \in {"next", "cast"} /\ handler[c].pc \in {"next", "cast"}
           /\ handler'[c].then = handler[c].then
  BY <1>3 DEF Keeps, Moving, Winner, Wanting, Reviving, Stopping
<1>4. QED
  BY <1>1, <1>2, <1>3

\* A step that ends no game and starts none.
LEMMA SameEnds ==
  ASSUME Ends, UNCHANGED <<game, gameRunning, ends>>, overlap \subseteq overlap',
         DOMAIN games' = DOMAIN games,
         \A g \in DOMAIN games : games'[g].board = games[g].board,
         \A c \in Conns : Keeps(c)
  PROVE  Ends'
<1> USE DEF Keeps
<1>1. Apart' => Apart
  BY DEF Apart
<1>2. ASSUME NEW g \in DOMAIN games PROVE Wins(g)'
  <2>1. Wins(g)
    BY DEF Ends
  <2>2. \A c, d \in Conns : Winner(c, g)' /\ Winner(d, g)' => c = d
    BY <2>1 DEF Wins
  <2>3. \A c \in Conns : Winner(c, g)' => Cleared(games'[g].board) /\ ends'[g].Win = 0
    BY <2>1 DEF Wins
  <2>4. ends'[g].Win # 0 => Cleared(games'[g].board)
    BY <2>1 DEF Wins
  <2>5. ends'[g].Win <= 1
    BY <2>1 DEF Wins
  <2>6. QED
    BY <2>2, <2>3, <2>4, <2>5 DEF Wins
<1>3. ASSUME NEW g \in DOMAIN games, Apart' PROVE Once(g)'
  <2>1. Once(g)
    BY <1>1, <1>3 DEF Ends
  <2>2. Over(g)' <=> Over(g)
    BY DEF Over
  <2>3. QED
    BY <2>1, <2>2 DEF Once
<1>4. QED
  BY <1>2, <1>3 DEF Ends

\* Steps that have nothing to do with it.
LEMMA OtherEnds ==
  ASSUME Recorded, Ends, NEW c \in Conns,
         \/ Accept(c)
         \/ Register(c) \/ AuthTimeout(c) \/ SwapHandlers(c) \/ JoinCheck(c)
         \/ JoinEncodeStart(c) \/ JoinSendStart(c) \/ JoinEncodeCells(c) \/ JoinSendCells(c)
         \/ NoHandler(c) \/ Leave(c) \/ Deliver(c) \/ HandlersRace(c) \/ AuthAnswer(c)
         \/ ReadToken(c) \/ HandleStartGame(c)
  PROVE  Ends'
<1> USE DEF Recorded, Typed
<1>1. UNCHANGED <<games, game, gameRunning, ends>>
  BY DEF Accept, Register, AuthTimeout, SwapHandlers, JoinCheck, JoinEncodeStart,
         JoinSendStart, JoinEncodeCells, JoinSendCells, NoHandler, Leave, Deliver, HandlersRace,
         AuthAnswer, ReadToken, HandleStartGame, server, history
<1>2. overlap \subseteq overlap'
  <2>1. CASE AuthAnswer(c)
    BY <2>1 DEF AuthAnswer
  <2>2. CASE ~AuthAnswer(c)
    BY <2>2 DEF Accept, Register, AuthTimeout, SwapHandlers, JoinCheck, JoinEncodeStart,
         JoinSendStart, JoinEncodeCells, JoinSendCells, NoHandler, Leave, Deliver, HandlersRace,
         ReadToken, HandleStartGame, history, Begin
  <2>3. QED
    BY <2>1, <2>2
<1>3. ASSUME NEW d \in Conns PROVE Keeps(d)
  <2>1. CASE Register(c)
    <3>1. PICK seen \in SUBSET {e \in Conns : handler[e].pc = "cast"} :
            handler' = [e \in Conns |-> IF e \in seen THEN [handler[e] EXCEPT !.left = @ \cup {c}]
                                                      ELSE handler[e]]
      BY <2>1 DEF Register
    <3>2. CASE d \in seen
      <4>1. PICK h \in Casts : h = handler[d] /\ h.pc = "cast" /\ h.left \in SUBSET Conns
        BY <3>2, CastFields
      <4>2. PICK S \in SUBSET Conns : S = h.left \cup {c}
        BY <4>1
      <4>3. handler'[d] = [kind |-> h.kind, pc |-> h.pc, msgs |-> h.msgs, left |-> S,
                           then |-> h.then, arg |-> h.arg]
        BY <3>1, <3>2, <4>1, <4>2, CastSteps
      <4>4. handler'[d].pc = "cast" /\ handler'[d].then = handler[d].then
        BY <4>1, <4>3
      <4>5. QED
        BY <4>1, <4>4, KeepsIf
    <3>3. CASE d \notin seen
      BY <3>1, <3>3, KeepsIf
    <3>4. QED
      BY <3>2, <3>3
  <2>2. CASE AuthAnswer(c)
    <3>1. handler' = [handler EXCEPT ![c] = Idle] /\ handler[c].pc = "answer"
      BY <2>2 DEF AuthAnswer, Goto, Settle, Finished, Idle
    <3>2. QED
      BY <3>1, KeepsIf DEF Stopping, Idle, TypedHandlers
  <2>3. CASE ReadToken(c) \/ HandleStartGame(c)
    <3>1. handler[c] = Idle
      BY <2>3 DEF ReadToken, HandleStartGame, Reads
    <3>2. CASE d # c
      BY <2>3, <3>2, Requesting, KeepsIf DEF RequestStep
    <3>3. CASE d = c /\ ReadToken(c)
      <4>1. PICK s : Goto(c, [kind |-> "token", pc |-> "answer", success |-> s])
        BY <3>3 DEF ReadToken
      <4>2. handler'[c].pc \in {"idle", "answer"}
        BY <4>1, GotoIs DEF Idle, TypedHandlers
      <4>3. QED
        BY <3>1, <3>3, <4>2, KeepsIf DEF Stopping, Idle
    <3>4. CASE d = c /\ HandleStartGame(c)
      <4>1. PICK m, p : Goto(c, Casting("start", m, "create", p))
        BY <3>4 DEF HandleStartGame
      <4>2. PICK k : k = Casting("start", m, "create", p)
        OBVIOUS
      <4>3. k.pc = "next" /\ k.then = "create" /\ (handler'[c] = k \/ handler'[c] = Idle)
        BY <4>1, <4>2, GotoIs DEF TypedHandlers, Casting
      <4>4. QED
        BY <3>1, <3>4, <4>3 DEF Keeps, Moving, Winner, Wanting, Reviving, Stopping, Idle
    <3>5. QED
      BY <2>3, <3>2, <3>3, <3>4
  <2>4. CASE ~(Register(c) \/ AuthAnswer(c) \/ ReadToken(c) \/ HandleStartGame(c))
    <3>1. UNCHANGED handler
      BY <2>4 DEF Accept, AuthTimeout, SwapHandlers, JoinCheck, JoinEncodeStart, JoinSendStart,
           JoinEncodeCells, JoinSendCells, NoHandler, Leave, Deliver, HandlersRace
    <3>2. QED
      BY <3>1, KeepsIf
  <2>5. QED
    BY <2>1, <2>2, <2>3, <2>4
<1>4. QED
  BY <1>1, <1>2, <1>3, SameEnds

\* A broadcast goes on.
LEMMA CastEnds ==
  ASSUME Recorded, Ends, NEW c \in Conns, BeginCast(c) \/ \E p \in players : SendTo(c, p)
  PROVE  Ends'
<1> USE DEF Recorded, Typed
<1>1. UNCHANGED <<games, game, gameRunning, ends, overlap>>
  BY DEF BeginCast, SendTo, server, history
<1>2. PICK h \in Casts : h = handler[c] /\ h.pc \in {"next", "cast"} /\ HandlerOK(h)
  BY CastFields DEF BeginCast, SendTo
<1>3. \/ handler'[c].pc \in {"next", "cast"} /\ handler'[c].then = h.then
      \/ handler'[c].pc = "idle" /\ h.then = "return"
  <2>1. CASE BeginCast(c)
    <3>1. players \in SUBSET Conns
      BY DEF TypedNet
    <3>2. PICK k : k = [h EXCEPT !.pc = "cast", !.left = players]
      OBVIOUS
    <3>3. k = [kind |-> h.kind, pc |-> "cast", msgs |-> h.msgs, left |-> players,
               then |-> h.then, arg |-> h.arg]
      BY <3>1, <3>2, CastSteps
    <3>4. k.pc = "cast" /\ k.then = h.then /\ Settle(k) = k
      BY <3>3 DEF Settle, Finished
    <3>5. handler'[c] = k
      BY <1>2, <2>1, <3>2, <3>4, GotoIs DEF BeginCast, ReceiversOf, TypedHandlers
    <3>6. QED
      BY <3>4, <3>5
  <2>2. CASE \E p \in players : SendTo(c, p)
    <3>1. PICK p \in players :
            Goto(c, IF h.left = {p} THEN Casting(h.kind, Tail(h.msgs), h.then, h.arg)
                                    ELSE [h EXCEPT !.left = @ \ {p}])
      BY <1>2, <2>2 DEF SendTo
    <3>2. h.pc = "cast" /\ h.left \in SUBSET Conns
      BY <1>2, <2>2 DEF SendTo, Casts
    <3>3. PICK S \in SUBSET Conns : S = h.left \ {p}
      BY <3>2
    <3>4. PICK k : k = [h EXCEPT !.left = S]
      OBVIOUS
    <3>5. k = [kind |-> h.kind, pc |-> h.pc, msgs |-> h.msgs, left |-> S,
               then |-> h.then, arg |-> h.arg]
      BY <3>2, <3>4, CastSteps
    <3>6. PICK m : m = Casting(h.kind, Tail(h.msgs), h.then, h.arg)
      OBVIOUS
    <3>7. m.then = h.then /\ m.pc = "next" /\ k.pc = "cast" /\ k.then = h.then
      BY <3>2, <3>5, <3>6 DEF Casting
    <3>8. Goto(c, k) \/ Goto(c, m)
      BY <3>1, <3>3, <3>4, <3>6
    <3>9. handler'[c] = Settle(k) \/ handler'[c] = Settle(m)
      BY <3>8, GotoIs DEF TypedHandlers
    <3>10. QED
      BY <3>7, <3>9 DEF Settle, Finished, Idle
  <2>3. QED
    BY <2>1, <2>2
<1>4. \A d \in Conns \ {c} : handler'[d] = handler[d]
  BY Handling DEF HandlerStep
<1>5. ASSUME NEW d \in Conns PROVE Keeps(d)
  <2>1. CASE d # c
    BY <1>4, <2>1, KeepsIf
  <2>2. CASE d = c
    BY <1>2, <1>3, <2>2, KeepsIf DEF Stopping
  <2>3. QED
    BY <2>1, <2>2
<1>6. QED
  BY <1>1, <1>5, SameEnds

\* A new game has not ended, and nobody moves in it.
LEMMA StartCreateEnds ==
  ASSUME Recorded, Ends, NEW c \in Conns, StartCreate(c)
  PROVE  Ends'
<1> USE DEF Recorded, Typed
<1>0. PICK h : h = handler[c]
  OBVIOUS
<1>1. h.pc = "next" /\ h.then = "create" /\ UNCHANGED <<gameRunning, overlap>>
  BY <1>0 DEF StartCreate
<1>2. \A d \in Conns \ {c} : handler'[d] = handler[d]
  BY Handling DEF HandlerStep
<1>3. CASE ~ValidParams(h.arg)
  <2>1. UNCHANGED <<games, game, ends>> /\ handler'[c] = Idle
    BY <1>0, <1>3, GotoIs DEF StartCreate, TypedHandlers, Settle, Finished, Idle
  <2>2. ASSUME NEW d \in Conns PROVE Keeps(d)
    <3>1. CASE d # c
      BY <1>2, <3>1, KeepsIf
    <3>2. CASE d = c
      BY <1>0, <1>1, <2>1, <3>2, KeepsIf DEF Stopping, Idle
    <3>3. QED
      BY <3>1, <3>2
  <2>3. QED
    BY <1>1, <2>1, <2>2, SameEnds
<1>4. CASE ValidParams(h.arg)
  <2>1. PICK b :
          /\ games' = Append(games, [board |-> b, params |-> h.arg, marks |-> NoMarks(b),
                                     scores |-> [pid \in PlayerIds |-> 0]])
          /\ game' = Len(games) + 1
          /\ ends' = Append(ends, [Win |-> 0, Loss |-> 0])
          /\ Goto(c, Casting("start", <<StartMsg(h.arg)>>, "run", h.arg))
    BY <1>0, <1>4 DEF StartCreate
  <2>2. PICK n \in Nat : n = Len(games) /\ n = Len(ends)
    BY LenProperties DEF TypedGames
  <2>3. /\ \A g \in 1 .. n : games'[g] = games[g] /\ ends'[g] = ends[g]
        /\ ends'[n + 1] = [Win |-> 0, Loss |-> 0]
        /\ DOMAIN games = 1 .. n /\ DOMAIN games' = 1 .. n + 1
    <3>1. PICK x : games' = Append(games, x)
      BY <2>1
    <3>2. QED
      BY <2>1, <2>2, <3>1, AppendProperties, LenProperties DEF TypedGames
  <2>4. ends'[n + 1].Win = 0 /\ ends'[n + 1].Loss = 0
    BY <2>3
  <2>5. /\ handler'[c].pc = "next" /\ handler'[c].then = "run"
    <3>1. PICK k : k = Casting("start", <<StartMsg(h.arg)>>, "run", h.arg)
      OBVIOUS
    <3>2. k.pc = "next" /\ k.then = "run" /\ Settle(k) = k
      BY <3>1 DEF Casting, Settle, Finished
    <3>3. QED
      BY <2>1, <3>1, <3>2, GotoIs DEF TypedHandlers
  <2>6. ASSUME NEW d \in Conns, NEW g \in 1 .. n + 1, Moving(d, g)'
        PROVE  d # c /\ g \in 1 .. n /\ Moving(d, g) /\ (Winner(d, g)' => Winner(d, g))
    <3>1. d # c
      BY <2>5, <2>6 DEF Moving
    <3>2. Moving(d, g) /\ (Winner(d, g)' => Winner(d, g))
      BY <1>2, <2>6, <3>1 DEF Moving, Winner
    <3>3. PICK k : k = handler[d] /\ HandlerOK(k)
      BY DEF TypedHandlers
    <3>4. g \in DOMAIN games
      BY <3>2, <3>3 DEF Moving, HandlerOK
    <3>5. QED
      BY <2>3, <3>1, <3>2, <3>4
  <2>7. ASSUME NEW g \in 1 .. n + 1 PROVE Wins(g)'
    <3>1. CASE g \in 1 .. n
      <4>1. Wins(g) /\ games'[g] = games[g] /\ ends'[g] = ends[g]
        BY <2>3, <3>1 DEF Ends
      <4>2. \A d \in Conns : Winner(d, g)' => Winner(d, g)
        BY <2>6 DEF Winner
      <4>3. QED
        BY <4>1, <4>2 DEF Wins
    <3>2. CASE g = n + 1
      <4>1. \A d \in Conns : ~Winner(d, g)'
        BY <2>2, <2>6, <3>2 DEF Winner
      <4>2. QED
        BY <2>4, <3>2, <4>1 DEF Wins
    <3>3. QED
      BY <2>2, <3>1, <3>2
  <2>8. ASSUME NEW g \in 1 .. n + 1, Apart' PROVE Once(g)'
    <3>1. CASE g \in 1 .. n
      <4>1. Once(g) /\ ends'[g] = ends[g] /\ g # game'
        BY <1>1, <2>1, <2>2, <2>3, <2>8, <3>1 DEF Ends, Apart
      <4>2. \A d \in Conns : Moving(d, g)' => Moving(d, g)
        BY <2>6
      <4>3. QED
        BY <4>1, <4>2 DEF Once, Over
    <3>2. CASE g = n + 1
      <4>1. ends'[g].Win + ends'[g].Loss = 0
        BY <2>4, <3>2
      <4>2. QED
        BY <4>1 DEF Once, Over
    <3>3. QED
      BY <2>2, <3>1, <3>2
  <2>9. QED
    BY <2>3, <2>7, <2>8 DEF Ends
<1>5. QED
  BY <1>3, <1>4

\* A start revives no game that is over, unless a move ran beside it; and when
\* a game stops nobody needs to stop it any more.
LEMMA RunStopEnds ==
  ASSUME Recorded, Ends, NEW c \in Conns, StartRun(c) \/ MoveStop(c)
  PROVE  Ends'
<1> USE DEF Recorded, Typed
<1>1. /\ UNCHANGED <<games, game, ends, overlap>> /\ Goto(c, Idle)
      /\ gameRunning' => Reviving(c) /\ ~Stopping(c)
  BY DEF StartRun, MoveStop, Stop, history, Reviving, Stopping
<1>2. /\ handler'[c] = Idle /\ \A d \in Conns \ {c} : handler'[d] = handler[d]
  BY <1>1, GotoIs DEF TypedHandlers, Settle, Finished, Idle
<1>3. ASSUME NEW d \in Conns, NEW g \in DOMAIN games
      PROVE  /\ Moving(d, g)' => Moving(d, g)
             /\ Winner(d, g)' => Winner(d, g)
             /\ Wanting(d)' => Wanting(d)
             /\ Reviving(d)' => Reviving(d)
  BY <1>2 DEF Moving, Winner, Wanting, Reviving, Idle
<1>4. ASSUME NEW g \in DOMAIN games PROVE Wins(g)'
  <2>1. Wins(g)
    BY DEF Ends
  <2>2. QED
    BY <1>1, <1>3, <2>1 DEF Wins
<1>5. ASSUME NEW g \in DOMAIN games, Apart' PROVE Once(g)'
  <2>1. Once(g)
    BY <1>1, <1>5 DEF Ends, Apart
  <2>2. Over(g)' <=> Over(g)
    BY <1>1 DEF Over
  <2>3. ~(Over(g)' /\ g = game /\ gameRunning')
    BY <1>1, <2>1, <2>2 DEF Once
  <2>4. QED
    BY <1>1, <1>3, <2>1, <2>2, <2>3 DEF Once
<1>6. QED
  BY <1>1, <1>4, <1>5 DEF Ends

\* A move begins while a game runs: if the game is over, then beside the
\* handler that is about to stop it.
LEMMA HandleMoveEnds ==
  ASSUME Recorded, Ends, NEW c \in Conns, HandleMove(c)
  PROVE  Ends'
<1> USE DEF Recorded, Typed
<1>1. UNCHANGED <<games, game, gameRunning, ends>> /\ gameRunning /\ handler[c] = Idle
  BY DEF HandleMove, server, MayMove, Reads
<1>2. CASE UNCHANGED <<handler, overlap>>
  BY <1>1, <1>2, KeepsIf, SameEnds
<1>3. CASE ~UNCHANGED <<handler, overlap>>
  <2>1. PICK type, cell :
          /\ Goto(c, [kind |-> "move", pc |-> "want", type |-> type, cell |-> cell])
          /\ Begin("move")
    BY <1>3 DEF HandleMove
  <2>2. handler'[c].pc = "want" /\ \A d \in Conns \ {c} : handler'[d] = handler[d]
    <3>1. PICK k : k = [kind |-> "move", pc |-> "want", type |-> type, cell |-> cell]
      OBVIOUS
    <3>2. Settle(k) = k /\ k.pc = "want"
      BY <3>1 DEF Settle, Finished
    <3>3. QED
      BY <2>1, <3>1, <3>2, GotoIs DEF TypedHandlers
  <2>3. ASSUME NEW d \in Conns, NEW g \in DOMAIN games
        PROVE  /\ Moving(d, g)' => Moving(d, g)
               /\ Winner(d, g)' => Winner(d, g)
               /\ Reviving(d)' => Reviving(d)
               /\ Stopping(d) => Stopping(d)'
               /\ Stopping(d) => d # c
    BY <1>1, <2>2 DEF Moving, Winner, Reviving, Stopping, Idle
  <2>4. ASSUME NEW g \in DOMAIN games PROVE Wins(g)'
    <3>1. Wins(g)
      BY DEF Ends
    <3>2. QED
      BY <1>1, <2>3, <3>1 DEF Wins
  <2>5. ASSUME NEW g \in DOMAIN games, Apart' PROVE Once(g)'
    <3>1. Apart
      BY <2>1, <2>5, BeginIs DEF Apart
    <3>2. Once(g)
      BY <3>1 DEF Ends
    <3>3. Over(g)' <=> Over(g)
      BY <1>1 DEF Over
    <3>4. ~(Over(g) /\ g = game)
      <4>1. SUFFICES ASSUME Over(g), g = game PROVE FALSE
        OBVIOUS
      <4>2. PICK d \in Conns : Stopping(d)
        BY <1>1, <3>2, <4>1 DEF Once
      <4>3. Working(d) /\ handler[d].kind = "move"
        BY <4>2, KindIs DEF Working, Stuck, Idle, Stopping
      <4>4. {"move", "move"} \in overlap'
        BY <2>1, <4>3, BeginIs
      <4>5. {"move", "move"} = {"move"}
        OBVIOUS
      <4>6. QED
        BY <2>5, <4>4, <4>5 DEF Apart
    <3>5. QED
      BY <1>1, <2>3, <3>2, <3>3, <3>4 DEF Once
  <2>6. QED
    BY <1>1, <2>4, <2>5 DEF Ends
<1>4. QED
  BY <1>2, <1>3

\* A move that is refused with an error leaves the games alone.
LEMMA MoveRefused ==
  ASSUME TypedHandlers, NEW c \in Conns, MoveBoard(c), handler'[c].pc = "idle"
  PROVE  UNCHANGED games
<1>1. SUFFICES ASSUME MakeMove(games[game].board, handler[c].type, handler[c].cell).result
                        # "Error"
               PROVE  FALSE
  BY DEF MoveBoard
<1>2. PICK r : r = MakeMove(games[game].board, handler[c].type, handler[c].cell)
  OBVIOUS
<1>3. Goto(c, [kind |-> "move", pc |-> "mode", g |-> game,
               result |-> r.result, updated |-> r.updated])
  BY <1>1, <1>2 DEF MoveBoard
<1>4. PICK k : k = [kind |-> "move", pc |-> "mode", g |-> game,
                    result |-> r.result, updated |-> r.updated]
  OBVIOUS
<1>5. Settle(k) = k /\ k.pc = "mode"
  BY <1>4 DEF Settle, Finished
<1>6. QED
  BY <1>3, <1>4, <1>5, GotoIs DEF TypedHandlers

\* What MoveBoard does with the move it was given.
LEMMA MoveBoardMakes ==
  ASSUME Typed, NEW c \in Conns, MoveBoard(c), handler'[c].pc # "idle"
  PROVE  \E x, r :
           /\ x \in GameRecs
           /\ game \in DOMAIN games /\ x = games[game] /\ GameOK(x) /\ moveMux = 0
           /\ handler[c].pc = "want" /\ r = MakeMove(x.board, handler[c].type, handler[c].cell)
           /\ r.result # "Error" /\ r.board \in Boards /\ SameMines(x.board, r.board)
           /\ Cells(r.board) = Cells(x.board) /\ r.updated \subseteq Cells(x.board)
           /\ DOMAIN games' = DOMAIN games
           /\ \A g \in DOMAIN games \ {game} : games'[g] = games[g]
           /\ games'[game] = [board |-> r.board, params |-> x.params, marks |-> x.marks,
                              scores |-> x.scores]
           /\ handler'[c] = [kind |-> "move", pc |-> "mode", g |-> game,
                             result |-> r.result, updated |-> r.updated]
<1> USE DEF Typed
<1>0. PICK h : h = handler[c] /\ h \in Handlers /\ HandlerOK(h)
  BY DEF TypedHandlers
<1>1. PICK r : r = MakeMove(games[game].board, h.type, h.cell)
  OBVIOUS
<1>2. h.pc = "want" /\ game \in DOMAIN games /\ moveMux = 0
  BY <1>0, RunningGame DEF MoveBoard, HandlerOK, LockFree
<1>3. r.result # "Error"
  <2> SUFFICES ASSUME r.result = "Error" PROVE FALSE
    OBVIOUS
  <2>1. Goto(c, Idle)
    BY <1>0, <1>1 DEF MoveBoard
  <2>2. QED
    BY <2>1, GotoIs DEF TypedHandlers, Settle, Finished, Idle
<1>4. /\ games' = [games EXCEPT ![game].board = r.board]
      /\ Goto(c, [kind |-> "move", pc |-> "mode", g |-> game,
                  result |-> r.result, updated |-> r.updated])
  BY <1>0, <1>1, <1>3 DEF MoveBoard
<1>5. PICK x \in GameRecs : x = games[game] /\ Sound(x.board) /\ GameOK(x)
  BY <1>2, GameAt
<1>6. /\ r.board \in Boards /\ SameMines(x.board, r.board)
      /\ Cells(r.board) = Cells(x.board) /\ r.updated \subseteq Cells(x.board)
  BY <1>1, <1>3, <1>5, MoveIs
<1>7. PICK y : y = [board |-> r.board, params |-> x.params, marks |-> x.marks,
                    scores |-> x.scores]
  OBVIOUS
<1>8. games' = [games EXCEPT ![game] = y]
  <2>1. games' = [games EXCEPT ![game] = [x EXCEPT !.board = r.board]]
    BY <1>4, <1>5
  <2>2. [x EXCEPT !.board = r.board] = y
    BY <1>6, <1>7, GameSteps
  <2>3. QED
    BY <2>1, <2>2
<1>9. /\ DOMAIN games' = DOMAIN games /\ games'[game] = y
      /\ \A g \in DOMAIN games \ {game} : games'[g] = games[g]
  BY <1>2, <1>8
<1>10. PICK k : k = [kind |-> "move", pc |-> "mode", g |-> game,
                     result |-> r.result, updated |-> r.updated]
  OBVIOUS
<1>11. handler'[c] = k
  <2>1. Settle(k) = k
    BY <1>10 DEF Settle, Finished
  <2>2. QED
    BY <1>4, <1>10, <2>1, GotoIs DEF TypedHandlers
<1>12. /\ x = games[game] /\ GameOK(x) /\ handler[c].pc = "want"
       /\ r = MakeMove(x.board, handler[c].type, handler[c].cell)
  BY <1>0, <1>1, <1>2, <1>5
<1>13. QED
  BY <1>2, <1>3, <1>6, <1>7, <1>9, <1>10, <1>11, <1>12, Zenon

\* What MakeMove does to the board of the game.
LEMMA MoveBoardIs ==
  ASSUME Typed, NEW c \in Conns, MoveBoard(c), handler'[c].pc # "idle"
  PROVE  /\ game \in DOMAIN games /\ DOMAIN games' = DOMAIN games
         /\ \A g \in DOMAIN games \ {game} : games'[g] = games[g]
         /\ handler'[c].pc = "mode" /\ handler'[c].g = game
         /\ (handler'[c].result = "GameWon"
               <=> Cleared(games'[game].board) /\ ~Cleared(games[game].board))
         /\ Cleared(games[game].board) => Cleared(games'[game].board)
<1>1. PICK x, r :
        /\ x \in GameRecs
        /\ game \in DOMAIN games /\ x = games[game] /\ GameOK(x) /\ moveMux = 0
        /\ handler[c].pc = "want" /\ r = MakeMove(x.board, handler[c].type, handler[c].cell)
        /\ r.result # "Error" /\ r.board \in Boards /\ SameMines(x.board, r.board)
        /\ Cells(r.board) = Cells(x.board) /\ r.updated \subseteq Cells(x.board)
        /\ DOMAIN games' = DOMAIN games
        /\ \A g \in DOMAIN games \ {game} : games'[g] = games[g]
        /\ games'[game] = [board |-> r.board, params |-> x.params, marks |-> x.marks,
                           scores |-> x.scores]
        /\ handler'[c] = [kind |-> "move", pc |-> "mode", g |-> game,
                          result |-> r.result, updated |-> r.updated]
  BY MoveBoardMakes
<1>2. /\ games'[game].board = r.board
      /\ handler'[c].pc = "mode" /\ handler'[c].g = game /\ handler'[c].result = r.result
  BY <1>1
<1>3. Sound(x.board)
  BY <1>1, GameAt DEF Typed
<1>4. /\ r.result = "GameWon" <=> Cleared(r.board) /\ ~Cleared(x.board)
      /\ Cleared(x.board) => Cleared(r.board)
  BY <1>1, <1>3, MoveIs
<1>5. QED
  BY <1>1, <1>2, <1>4

\* A move that clears the board is the first to do so.
LEMMA MoveBoardEnds ==
  ASSUME Recorded, Ends, NEW c \in Conns, MoveBoard(c)
  PROVE  Ends'
<1> USE DEF Recorded, Typed
<1>1. /\ handler[c].pc = "want" /\ UNCHANGED <<game, gameRunning, ends, overlap>>
      /\ \A d \in Conns \ {c} : handler'[d] = handler[d]
  BY Handling DEF MoveBoard, history, HandlerStep
<1>2. CASE handler'[c].pc = "idle"
  <2>1. UNCHANGED games
    BY <1>2, MoveRefused
  <2>2. ASSUME NEW d \in Conns PROVE Keeps(d)
    BY <1>1, <1>2, KeepsIf DEF Stopping
  <2>3. QED
    BY <1>1, <2>1, <2>2, SameEnds
<1>3. CASE handler'[c].pc # "idle"
  <2>1. /\ game \in DOMAIN games /\ DOMAIN games' = DOMAIN games
        /\ \A g \in DOMAIN games \ {game} : games'[g] = games[g]
        /\ handler'[c].pc = "mode" /\ handler'[c].g = game
        /\ (handler'[c].result = "GameWon"
              <=> Cleared(games'[game].board) /\ ~Cleared(games[game].board))
        /\ Cleared(games[game].board) => Cleared(games'[game].board)
    BY <1>3, MoveBoardIs
  <2>2. ASSUME NEW d \in Conns, NEW g \in DOMAIN games
        PROVE  /\ Moving(d, g)' => Moving(d, g) \/ (d = c /\ g = game)
               /\ Winner(d, g)' => Winner(d, g)
                    \/ (d = c /\ g = game /\ handler'[c].result = "GameWon")
               /\ Wanting(d)' => Wanting(d)
               /\ Reviving(d)' => Reviving(d)
               /\ Stopping(d) => Stopping(d)'
    BY <1>1, <2>1 DEF Moving, Winner, Wanting, Reviving, Stopping
  <2>3. ASSUME NEW g \in DOMAIN games PROVE Wins(g)'
    <3>1. Wins(g) /\ ends'[g] = ends[g] /\ ends[g].Win \in Nat
      BY <1>1, EndsAre DEF Ends
    <3>2. CASE g # game
      <4>1. games'[g] = games[g] /\ \A d \in Conns : Winner(d, g)' => Winner(d, g)
        BY <2>1, <2>2, <3>2
      <4>2. QED
        BY <3>1, <4>1 DEF Wins
    <3>3. CASE g = game /\ handler'[c].result = "GameWon"
      <4>1. ~Cleared(games[g].board) /\ Cleared(games'[g].board)
        BY <2>1, <3>3
      <4>2. ends[g].Win = 0 /\ \A d \in Conns : ~Winner(d, g)
        BY <3>1, <4>1 DEF Wins
      <4>3. \A d \in Conns : Winner(d, g)' => d = c
        BY <2>2, <4>2
      <4>4. QED
        BY <3>1, <4>1, <4>2, <4>3 DEF Wins
    <3>4. CASE g = game /\ handler'[c].result # "GameWon"
      <4>1. Cleared(games[g].board) => Cleared(games'[g].board)
        BY <2>1, <3>4
      <4>2. \A d \in Conns : Winner(d, g)' => Winner(d, g)
        BY <2>2, <3>4
      <4>3. QED
        BY <3>1, <4>1, <4>2 DEF Wins
    <3>5. QED
      BY <3>2, <3>3, <3>4
  <2>4. ASSUME NEW g \in DOMAIN games, Apart' PROVE Once(g)'
    <3>1. Once(g) /\ ends'[g] = ends[g]
      BY <1>1, <2>4 DEF Ends, Apart
    <3>2. Over(g)' <=> Over(g)
      BY <3>1 DEF Over
    <3>3. ~(Over(g) /\ g = game)
      BY <1>1, <3>1 DEF Once, Wanting
    <3>4. QED
      BY <1>1, <2>2, <3>1, <3>2, <3>3 DEF Once
  <2>5. QED
    BY <2>1, <2>3, <2>4 DEF Ends
<1>4. QED
  BY <1>2, <1>3

\* OnMove changes no board.
LEMMA MoveModeEnds ==
  ASSUME Recorded, Ends, NEW c \in Conns, MoveMode(c)
  PROVE  Ends'
<1> USE DEF Recorded, Typed
<1>0. PICK h : h = handler[c] /\ h \in Handlers /\ HandlerOK(h)
  BY DEF TypedHandlers
<1>1. /\ h.pc = "mode" /\ UNCHANGED <<game, gameRunning, ends, overlap>>
      /\ \A d \in Conns \ {c} : handler'[d] = handler[d]
      /\ h.g \in DOMAIN games
  BY <1>0, Handling, Zenon DEF MoveMode, history, HandlerStep, HandlerOK
<1>2. DOMAIN games' = DOMAIN games /\ \A g \in DOMAIN games : games'[g].board = games[g].board
  <2>1. CASE UNCHANGED games
    BY <2>1
  <2>2. CASE ~UNCHANGED games
    <3>1. PICK marks, scores :
            games' = [games EXCEPT ![h.g].marks = marks, ![h.g].scores = scores]
      BY <1>0, <2>2, Zenon DEF MoveMode
    <3>2. PICK gs : gs = [games EXCEPT ![h.g].marks = marks]
      OBVIOUS
    <3>3. games' = [gs EXCEPT ![h.g].scores = scores]
      BY <3>1, <3>2
    <3>4. DOMAIN gs = DOMAIN games /\ \A g \in DOMAIN games : gs[g].board = games[g].board
      BY <3>2
    <3>5. QED
      BY <3>3, <3>4
  <2>3. QED
    BY <2>1, <2>2
<1>3. handler'[c].pc = "encode" /\ handler'[c].g = h.g /\ handler'[c].result = h.result
  <2>1. PICK info :
          Goto(c, [kind |-> "move", pc |-> "encode", g |-> h.g, result |-> h.result,
                   updated |-> h.updated, info |-> info])
    BY <1>0 DEF MoveMode
  <2>2. PICK k : k = [kind |-> "move", pc |-> "encode", g |-> h.g, result |-> h.result,
                      updated |-> h.updated, info |-> info]
    OBVIOUS
  <2>3. Settle(k) = k /\ k.pc = "encode" /\ k.g = h.g /\ k.result = h.result
    BY <2>2 DEF Settle, Finished
  <2>4. QED
    BY <2>1, <2>2, <2>3, GotoIs DEF TypedHandlers
<1>4. ASSUME NEW d \in Conns PROVE Keeps(d)
  <2>1. CASE d # c
    BY <1>1, <2>1, KeepsIf
  <2>2. CASE d = c
    BY <1>0, <1>1, <1>3, <2>2 DEF Keeps, Moving, Winner, Wanting, Reviving, Stopping
  <2>3. QED
    BY <2>1, <2>2
<1>5. QED
  BY <1>1, <1>2, <1>4, SameEnds

\* The end of a game: the only one who is moving in it ends it.
LEMMA MoveEncodeEnds ==
  ASSUME Recorded, Ends, NEW c \in Conns, MoveEncode(c)
  PROVE  Ends'
<1> USE DEF Recorded, Typed
<1>0. PICK h : h = handler[c] /\ h \in Handlers /\ HandlerOK(h)
  BY DEF TypedHandlers
<1>1. /\ h.pc = "encode" /\ UNCHANGED <<games, game, gameRunning, overlap>>
      /\ \A d \in Conns \ {c} : handler'[d] = handler[d]
      /\ h.g \in DOMAIN games
  BY <1>0, Handling DEF MoveEncode, server, HandlerStep, HandlerOK
<1>2. PICK then \in {"stop", "return"} :
        /\ then = IF EndOf(h.result) # << >> THEN "stop" ELSE "return"
        /\ Goto(c, Casting("move", MoveMessages(h), then, h.g))
  BY <1>0 DEF MoveEncode
<1>3. /\ handler'[c].pc \in {"next", "idle"}
      /\ handler'[c].pc = "next" => handler'[c].then = then
      /\ then = "stop" => handler'[c].pc = "next"
  <2>1. PICK k : k = Casting("move", MoveMessages(h), then, h.g)
    OBVIOUS
  <2>2. k.pc = "next" /\ k.then = then /\ (then = "stop" => Settle(k) = k)
    BY <2>1 DEF Casting, Settle
  <2>3. QED
    BY <1>2, <2>1, <2>2, GotoIs DEF TypedHandlers, Idle
<1>4. ASSUME NEW d \in Conns, NEW g \in DOMAIN games
      PROVE  /\ Moving(d, g)' => Moving(d, g) /\ d # c
             /\ Winner(d, g)' => Winner(d, g) /\ d # c
             /\ Wanting(d)' => Wanting(d) /\ d # c
             /\ Reviving(d)' => Reviving(d) /\ d # c
             /\ Stopping(d) => Stopping(d)'
  <2>1. CASE d # c
    BY <1>1, <2>1 DEF Moving, Winner, Wanting, Reviving, Stopping
  <2>2. CASE d = c
    BY <1>0, <1>1, <1>3, <2>2 DEF Moving, Winner, Wanting, Reviving, Stopping
  <2>3. QED
    BY <2>1, <2>2
<1>5. CASE EndOf(h.result) = << >>
  <2>1. UNCHANGED ends
    BY <1>0, <1>5 DEF MoveEncode
  <2>2. QED
    BY <1>1, <1>4, <2>1, SameEnds DEF Keeps
<1>6. CASE EndOf(h.result) # << >>
  <2>1. PICK e \in {"Win", "Loss"} : /\ e = EndOf(h.result)[1]
                                     /\ e = "Win" <=> h.result = "GameWon"
    BY <1>6 DEF EndOf
  <2>2. ends' = [ends EXCEPT ![h.g][e] = @ + 1]
    BY <1>0, <1>6, <2>1 DEF MoveEncode
  <2>3. /\ \A g \in DOMAIN games \ {h.g} : ends'[g] = ends[g]
        /\ ends'[h.g].Win = ends[h.g].Win + (IF e = "Win" THEN 1 ELSE 0)
        /\ ends'[h.g].Loss = ends[h.g].Loss + (IF e = "Loss" THEN 1 ELSE 0)
    <3>1. PICK k \in [Win : Nat, Loss : Nat] : k = ends[h.g]
      BY <1>1, EndsAre
    <3>2. PICK w \in Nat, l \in Nat : k = [Win |-> w, Loss |-> l]
      OBVIOUS
    <3>3. h.g \in DOMAIN ends /\ DOMAIN ends = DOMAIN games
      BY <1>1, LenProperties DEF TypedGames
    <3>4. PICK m : m = [k EXCEPT ![e] = @ + 1]
      OBVIOUS
    <3>5. ends' = [ends EXCEPT ![h.g] = m]
      BY <2>2, <3>1, <3>4
    <3>6. ends'[h.g] = m /\ \A g \in DOMAIN games \ {h.g} : ends'[g] = ends[g]
      BY <3>3, <3>5
    <3>7. CASE e = "Win"
      <4>1. m = [Win |-> w + 1, Loss |-> l]
        BY <3>2, <3>4, <3>7
      <4>2. m.Win = w + 1 /\ m.Loss = l /\ k.Win = w /\ k.Loss = l
        BY <3>2, <4>1
      <4>3. QED
        BY <3>1, <3>6, <3>7, <4>2
    <3>8. CASE e = "Loss"
      <4>1. m = [Win |-> w, Loss |-> l + 1]
        BY <3>2, <3>4, <3>8
      <4>2. m.Win = w /\ m.Loss = l + 1 /\ k.Win = w /\ k.Loss = l
        BY <3>2, <4>1
      <4>3. QED
        BY <3>1, <3>6, <3>8, <4>2
    <3>9. QED
      BY <3>7, <3>8
  <2>4. ASSUME NEW g \in DOMAIN games PROVE Wins(g)'
    <3>1. Wins(g) /\ ends[g].Win \in Nat
      BY EndsAre DEF Ends
    <3>2. CASE g # h.g
      <4>1. ends'[g] = ends[g]
        BY <2>3, <3>2
      <4>2. QED
        BY <1>1, <1>4, <3>1, <4>1 DEF Wins
    <3>3. CASE g = h.g /\ e = "Loss"
      <4>1. ends'[g].Win = ends[g].Win
        BY <2>3, <3>1, <3>3
      <4>2. QED
        BY <1>1, <1>4, <3>1, <4>1 DEF Wins
    <3>4. CASE g = h.g /\ e = "Win"
      <4>1. Winner(c, g)
        BY <1>0, <1>1, <2>1, <3>4 DEF Winner, Moving
      <4>2. Cleared(games[g].board) /\ ends[g].Win = 0 /\ \A d \in Conns : Winner(d, g) => d = c
        BY <3>1, <4>1 DEF Wins
      <4>3. ends'[g].Win = 1 /\ \A d \in Conns : ~Winner(d, g)'
        BY <1>4, <2>3, <3>4, <4>2
      <4>4. QED
        BY <1>1, <4>2, <4>3 DEF Wins
    <3>5. QED
      BY <3>2, <3>3, <3>4
  <2>5. ASSUME NEW g \in DOMAIN games, Apart' PROVE Once(g)'
    <3>1. Apart /\ Once(g) /\ ends[g].Win \in Nat /\ ends[g].Loss \in Nat
      BY <1>1, <2>5, EndsAre DEF Ends, Apart
    <3>2. CASE g # h.g
      <4>1. ends'[g] = ends[g]
        BY <2>3, <3>2
      <4>2. Over(g)' <=> Over(g)
        BY <4>1 DEF Over
      <4>3. QED
        BY <1>1, <1>4, <3>1, <4>1, <4>2 DEF Once
    <3>3. CASE g = h.g
      <4>1. Moving(c, g)
        BY <1>0, <1>1, <3>3 DEF Moving
      <4>2. ~Over(g)
        BY <3>1, <4>1 DEF Once
      <4>3. ends[g].Win = 0 /\ ends[g].Loss = 0
        BY <3>1, <4>2 DEF Over
      <4>4. ends'[g].Win + ends'[g].Loss = 1
        BY <2>3, <3>3, <4>3
      <4>5. ASSUME NEW d \in Conns
            PROVE  ~Moving(d, g)' /\ ~Wanting(d)' /\ ~Reviving(d)'
        <5>1. CASE d # c
          <6>1. handler[d].pc \notin {"next", "cast", "want", "mode", "encode"}
            BY <1>0, <1>1, <3>1, <5>1, MoverAlone
          <6>2. QED
            BY <1>4, <6>1 DEF Moving, Wanting, Reviving
        <5>2. CASE d = c
          BY <1>4, <5>2
        <5>3. QED
          BY <5>1, <5>2
      <4>6. Stopping(c)'
        BY <1>2, <1>3, <1>6 DEF Stopping
      <4>7. QED
        BY <4>4, <4>5, <4>6 DEF Once
    <3>4. QED
      BY <3>2, <3>3
  <2>6. QED
    BY <1>1, <2>4, <2>5 DEF Ends
<1>7. QED
  BY <1>5, <1>6

LEMMA NextEnds == Recorded /\ Ends /\ [Next]_vars => Ends'
<1> SUFFICES ASSUME Recorded, Ends, [Next]_vars PROVE Ends'
  OBVIOUS
<1>1. CASE UNCHANGED vars
  <2>1. UNCHANGED <<games, game, gameRunning, ends, overlap, handler>>
    BY <1>1 DEF vars
  <2>2. QED
    BY <2>1, KeepsIf, SameEnds
<1>2. CASE MapRace
  <2>1. UNCHANGED <<games, game, gameRunning, ends, overlap, handler>>
    BY <1>2 DEF MapRace, server, history
  <2>2. QED
    BY <2>1, KeepsIf, SameEnds
<1>3. ASSUME NEW c \in Conns,
             \/ Accept(c)
             \/ Register(c) \/ AuthTimeout(c) \/ SwapHandlers(c) \/ JoinCheck(c)
             \/ JoinEncodeStart(c) \/ JoinSendStart(c) \/ JoinEncodeCells(c) \/ JoinSendCells(c)
             \/ NoHandler(c) \/ Leave(c) \/ Deliver(c) \/ HandlersRace(c) \/ AuthAnswer(c)
             \/ ReadToken(c) \/ HandleStartGame(c)
      PROVE  Ends'
  BY <1>3, OtherEnds
<1>4. ASSUME NEW c \in Conns,
             \/ StartCreate(c) \/ StartRun(c) \/ MoveStop(c) \/ HandleMove(c)
             \/ MoveBoard(c) \/ MoveMode(c) \/ MoveEncode(c) \/ BeginCast(c)
             \/ \E p \in players : SendTo(c, p)
      PROVE  Ends'
  BY <1>4, StartCreateEnds, RunStopEnds, HandleMoveEnds, MoveBoardEnds, MoveModeEnds,
     MoveEncodeEnds, CastEnds
<1>5. QED
  BY <1>1, <1>2, <1>3, <1>4, StepIs, Zenon

\* A game is won at most once, however its moves and the starts interleave;
\* and it ends at most once, if no move runs beside a move or a start.
THEOREM EndsCorrect == Spec => []EndsOnce
<1>1. Init => Ends
  BY DEF Init, Ends
<1>2. Recorded /\ Ends => EndsOnce
  BY EndsIsEndsOnce DEF Recorded, Typed
<1>3. QED
  BY <1>1, <1>2, NextEnds, RecordedAlways, PTL DEF Spec

-----------------------------------------------------------------------------
(***************************************************************************)
(* Each game of the server is a Game.  The operators of the instance GameOf*)
(* are those of Mines: they use no variable.                               *)
(***************************************************************************)
LEMMA GameMakeMove ==
  ASSUME NEW g, NEW r, NEW b, NEW type, NEW c
  PROVE  GameOf(g, r)!MakeMove(b, type, c) = MakeMove(b, type, c)
<1>1. ASSUME NEW S PROVE GameOf(g, r)!Cardinality(S) = Cardinality(S)
  BY Zenon DEF GameOf!Cardinality, Cardinality
<1>2. GameOf(g, r)!Cells(b) = Cells(b)
  BY DEF GameOf!Cells, Cells
<1>3. GameOf(g, r)!Hidden(b) = Hidden(b)
  BY <1>2 DEF GameOf!Hidden, Hidden
<1>4. ASSUME NEW d
      PROVE  /\ GameOf(g, r)!Neighbours(b, d) = Neighbours(b, d)
             /\ GameOf(g, r)!NumberOfMines(b, d) = NumberOfMines(b, d)
  BY <1>1, <1>2 DEF GameOf!Neighbours, Neighbours, GameOf!NumberOfMines, NumberOfMines
<1>5. ASSUME NEW S PROVE GameOf(g, r)!SpreadClosed(b, S) <=> SpreadClosed(b, S)
  BY <1>3, <1>4 DEF GameOf!SpreadClosed, SpreadClosed
<1>6. GameOf(g, r)!Cascade(b, c) = Cascade(b, c)
  BY <1>3, <1>5 DEF GameOf!Cascade, Cascade
<1>7. GameOf(g, r)!Uncover(b, c) = Uncover(b, c)
  BY <1>1, <1>6 DEF GameOf!Uncover, Uncover, GameOf!Won, Won
<1>8. GameOf(g, r)!Reveal(b, c) = Reveal(b, c)
  BY <1>7 DEF GameOf!Reveal, Reveal, GameOf!BlowMine, BlowMine, GameOf!Unchanged, Unchanged
<1>9. GameOf(g, r)!Flag(b, c) = Flag(b, c)
  BY DEF GameOf!Flag, Flag, GameOf!Unchanged, Unchanged
<1>10. QED
  BY <1>2, <1>8, <1>9
     DEF GameOf!MakeMove, MakeMove, GameOf!Unchanged, Unchanged, GameOf!MoveTypes, MoveTypes

LEMMA GameOnMove ==
  ASSUME NEW g, NEW r, NEW b, NEW pid, NEW up
  PROVE  /\ \A m : GameOf(g, r)!NewMarks(m, b, pid, up) = NewMarks(m, b, pid, up)
         /\ \A s : GameOf(g, r)!NewScores(s, b, pid, up) = NewScores(s, b, pid, up)
<1>1. ASSUME NEW S PROVE GameOf(g, r)!Cardinality(S) = Cardinality(S)
  BY Zenon DEF GameOf!Cardinality, Cardinality
<1>2. QED
  BY <1>1 DEF GameOf!NewMarks, NewMarks, GameOf!NewScores, NewScores, GameOf!Marked, Marked

\* What is to show of a move.
LEMMA GameMove ==
  ASSUME NEW CONSTANT g, NEW CONSTANT r, NEW STATE pid, NEW STATE type, NEW STATE c,
         NEW STATE x, NEW STATE y,
         x = Completed(g), y = MakeMove(x.board, type, c),
         Completed(g)'.board = y.board,
         r = [result |-> y.result, updated |-> y.updated],
         x.params.mode = "Coop" =>
           /\ Completed(g)'.marks = NewMarks(x.marks, y.board, pid, y.updated)
           /\ Completed(g)'.scores = NewScores(x.scores, y.board, pid, y.updated)
           /\ Completed(g)'.scores[pid] \in -(MaxMoves * MaxCells) .. MaxMoves * MaxCells,
         x.params.mode # "Coop" =>
           Completed(g)'.marks = x.marks /\ Completed(g)'.scores = x.scores,
         Completed(g)'.params = x.params
  PROVE  GameOf(g, r)!Move(pid, type, c)
BY GameMakeMove, GameOnMove DEF GameOf!Move, GameOf!OnMove

\* Completed as a function of the handlers hs and the game x, so that it can
\* be taken before and after a step.
Inside(hs, g) == {c \in Conns : hs[c].pc = "mode" /\ hs[c].g = g}

Through(hs, g, x) ==
  IF Inside(hs, g) = {} \/ x.params.mode # "Coop" THEN x
  ELSE LET c == CHOOSE d \in Inside(hs, g) : TRUE IN
       [x EXCEPT !.marks = NewMarks(@, x.board, c, hs[c].updated),
                 !.scores = NewScores(@, x.board, c, hs[c].updated)]

LEMMA ThroughIs ==
  ASSUME NEW g
  PROVE  /\ Completed(g) = Through(handler, g, games[g])
         /\ Completed(g)' = Through(handler', g, games'[g])
BY DEF Completed, Through, Inside

LEMMA ThroughSame ==
  ASSUME NEW hs, NEW hs2, NEW g, NEW x,
         Inside(hs, g) = Inside(hs2, g), \A d \in Inside(hs, g) : hs[d] = hs2[d]
  PROVE  Through(hs, g, x) = Through(hs2, g, x)
<1>1. CASE Inside(hs, g) = {}
  BY <1>1 DEF Through
<1>2. CASE Inside(hs, g) # {}
  <2>1. PICK c : c = CHOOSE d \in Inside(hs, g) : TRUE
    OBVIOUS
  <2>2. c \in Inside(hs, g) /\ hs[c] = hs2[c]
    BY <1>2, <2>1
  <2>3. QED
    BY <2>1, <2>2 DEF Through
<1>3. QED
  BY <1>1, <1>2

\* Coop games with one handler inside MakeMove, and all others.
LEMMA ThroughOne ==
  ASSUME NEW hs, NEW g, NEW x \in GameRecs, GameOK(x), NEW c \in Conns,
         Inside(hs, g) = {c}, x.params.mode = "Coop", hs[c].updated \subseteq Cells(x.board)
  PROVE  Through(hs, g, x)
           = [board |-> x.board, params |-> x.params,
              marks |-> NewMarks(x.marks, x.board, c, hs[c].updated),
              scores |-> NewScores(x.scores, x.board, c, hs[c].updated)]
<1>1. PICK m, s : /\ m = NewMarks(x.marks, x.board, c, hs[c].updated)
                  /\ s = NewScores(x.scores, x.board, c, hs[c].updated)
  OBVIOUS
<1>2. m \in Updates /\ s \in [PlayerIds -> Int]
  BY <1>1, ModeIs
<1>3. c = CHOOSE d \in Inside(hs, g) : TRUE
  OBVIOUS
<1>4. Through(hs, g, x) = [x EXCEPT !.marks = m, !.scores = NewScores(@, x.board, c, hs[c].updated)]
  BY <1>1, <1>3 DEF Through
<1>5. [x EXCEPT !.marks = m, !.scores = NewScores(@, x.board, c, hs[c].updated)]
        = [x EXCEPT !.marks = m, !.scores = s]
  <2> DEFINE y == [x EXCEPT !.marks = m]
  <2>1. y.scores = x.scores
    BY DEF GameRecs
  <2>2. [x EXCEPT !.marks = m, !.scores = NewScores(@, x.board, c, hs[c].updated)]
          = [y EXCEPT !.scores = NewScores(@, x.board, c, hs[c].updated)]
    OBVIOUS
  <2>3. [x EXCEPT !.marks = m, !.scores = s] = [y EXCEPT !.scores = s]
    OBVIOUS
  <2> HIDE DEF y
  <2>4. QED
    BY <1>1, <2>1, <2>2, <2>3
<1>6. QED
  BY <1>1, <1>2, <1>4, <1>5, GameSteps

LEMMA ThroughPlain ==
  ASSUME NEW hs, NEW g, NEW x, Inside(hs, g) = {} \/ x.params.mode # "Coop"
  PROVE  Through(hs, g, x) = x
BY DEF Through

\* The lock: at most one handler is inside MakeMove.
LEMMA InsideOne ==
  ASSUME TypedHandlers, NEW c \in Conns, handler[c].pc = "mode", NEW g
  PROVE  Inside(handler, g) = IF handler[c].g = g THEN {c} ELSE {}
<1>1. ASSUME NEW d \in Conns, handler[d].pc = "mode" PROVE d = c
  BY <1>1 DEF TypedHandlers
<1>2. QED
  BY <1>1 DEF Inside

LEMMA InsideNone ==
  ASSUME TypedHandlers, moveMux = 0, NEW g
  PROVE  Inside(handler, g) = {}
<1>1. ASSUME NEW d \in Conns, handler[d].pc = "mode" PROVE FALSE
  <2>1. d # 0
    BY PlayerIdsAssumption DEF Conns
  <2>2. QED
    BY <1>1, <2>1 DEF TypedHandlers
<1>2. QED
  BY <1>1 DEF Inside

\* A handler that is not at a move, before the step and after it, and is in no
\* broadcast before a new game that it was not in already.
Creating(c) == handler[c].pc \in {"next", "cast"} /\ handler[c].then = "create"

Calm(c) ==
  \/ handler'[c] = handler[c]
  \/ /\ handler[c].pc \notin {"want", "mode"} /\ handler'[c].pc \notin {"want", "mode"}
     /\ Creating(c)' => Creating(c) /\ handler'[c].arg = handler[c].arg

LEMMA CalmGoto ==
  ASSUME handler \in [Conns -> Handlers], NEW c \in Conns, NEW k, Goto(c, k),
         handler[c].pc \notin {"want", "mode"}, k.pc \notin {"want", "mode"},
         k.pc \in {"next", "cast"} /\ k.then = "create" =>
           Creating(c) /\ k.arg = handler[c].arg,
         NEW d \in Conns
  PROVE  Calm(d)
<1>1. CASE d = c
  <2>1. handler'[c] = k \/ handler'[c] = Idle
    BY GotoIs
  <2>2. Idle.pc = "idle"
    BY DEF Idle
  <2>3. QED
    BY <1>1, <2>1, <2>2 DEF Calm, Creating
<1>2. CASE d # c
  BY <1>2, GotoIs DEF Calm
<1>3. QED
  BY <1>1, <1>2

LEMMA CalmSteps ==
  ASSUME Typed, NEW c \in Conns, NEW d \in Conns,
         \/ Accept(c) \/ AuthTimeout(c) \/ SwapHandlers(c) \/ JoinCheck(c)
         \/ JoinEncodeStart(c) \/ JoinSendStart(c) \/ JoinEncodeCells(c) \/ JoinSendCells(c)
         \/ Register(c) \/ ReadToken(c)
         \/ NoHandler(c) \/ Leave(c) \/ Deliver(c) \/ HandlersRace(c)
         \/ AuthAnswer(c) \/ StartCreate(c) \/ StartRun(c) \/ MoveStop(c)
         \/ MoveEncode(c) \/ BeginCast(c) \/ \E p \in players : SendTo(c, p)
  PROVE  Calm(d)
<1> USE DEF Typed
<1>0. handler \in [Conns -> Handlers]
  BY DEF TypedHandlers
<1>1. CASE \/ Accept(c) \/ AuthTimeout(c) \/ SwapHandlers(c) \/ JoinCheck(c)
           \/ JoinEncodeStart(c) \/ JoinSendStart(c) \/ JoinEncodeCells(c) \/ JoinSendCells(c)
           \/ NoHandler(c) \/ Leave(c) \/ Deliver(c) \/ HandlersRace(c)
  <2>1. UNCHANGED handler
    BY <1>1 DEF Accept, AuthTimeout, SwapHandlers, JoinCheck, JoinEncodeStart, JoinSendStart,
         JoinEncodeCells, JoinSendCells, NoHandler, Leave, Deliver, HandlersRace
  <2>2. QED
    BY <2>1 DEF Calm
<1>2. CASE Register(c)
  <2>1. PICK seen \in SUBSET {e \in Conns : handler[e].pc = "cast"} :
          handler' = [e \in Conns |-> IF e \in seen THEN [handler[e] EXCEPT !.left = @ \cup {c}]
                                                    ELSE handler[e]]
    BY <1>2 DEF Register
  <2>2. CASE d \in seen
    <3>1. PICK h \in Casts : h = handler[d] /\ h.pc = "cast" /\ h.left \in SUBSET Conns
      BY <2>2, CastFields
    <3>2. PICK S \in SUBSET Conns : S = h.left \cup {c}
      BY <3>1
    <3>3. handler'[d] = [kind |-> h.kind, pc |-> h.pc, msgs |-> h.msgs, left |-> S,
                         then |-> h.then, arg |-> h.arg]
      BY <2>1, <2>2, <3>1, <3>2, CastSteps
    <3>4. /\ handler'[d].pc = h.pc /\ handler'[d].then = h.then /\ handler'[d].arg = h.arg
      BY <3>3
    <3>5. QED
      BY <3>1, <3>4 DEF Calm, Creating
  <2>3. CASE d \notin seen
    BY <2>1, <2>3 DEF Calm
  <2>4. QED
    BY <2>2, <2>3
<1>3. CASE ReadToken(c)
  <2>1. PICK s : Goto(c, [kind |-> "token", pc |-> "answer", success |-> s])
    BY <1>3 DEF ReadToken
  <2>2. PICK k : k = [kind |-> "token", pc |-> "answer", success |-> s]
    OBVIOUS
  <2>3. k.pc = "answer" /\ handler[c].pc = "idle" /\ Goto(c, k)
    BY <1>3, <2>1, <2>2 DEF ReadToken, Reads, Idle
  <2>4. QED
    BY <1>0, <2>3, CalmGoto
<1>4. CASE AuthAnswer(c) \/ StartRun(c) \/ MoveStop(c)
  <2>1. Goto(c, Idle) /\ handler[c].pc \in {"answer", "next"}
    BY <1>4 DEF AuthAnswer, StartRun, MoveStop
  <2>2. Idle.pc = "idle"
    BY DEF Idle
  <2>3. PICK k : k = Idle
    OBVIOUS
  <2>4. QED
    BY <1>0, <2>1, <2>2, <2>3, CalmGoto
<1>5. CASE StartCreate(c)
  <2>1. PICK k : k = Casting("start", <<StartMsg(handler[c].arg)>>, "run", handler[c].arg)
    OBVIOUS
  <2>2. Goto(c, k) \/ Goto(c, Idle)
    BY <1>5, <2>1 DEF StartCreate
  <2>3. k.pc = "next" /\ k.then = "run" /\ handler[c].pc = "next" /\ Idle.pc = "idle"
    BY <1>5, <2>1 DEF StartCreate, Casting, Idle
  <2>4. QED
    BY <1>0, <2>2, <2>3, CalmGoto
<1>6. CASE MoveEncode(c)
  <2>1. PICK then : /\ Goto(c, Casting("move", MoveMessages(handler[c]), then, handler[c].g))
                    /\ then # "create" /\ handler[c].pc = "encode"
    <3>1. handler[c].pc = "encode"
      BY <1>6 DEF MoveEncode
    <3>2. \/ Goto(c, Casting("move", MoveMessages(handler[c]), "stop", handler[c].g))
          \/ Goto(c, Casting("move", MoveMessages(handler[c]), "return", handler[c].g))
      BY <1>6 DEF MoveEncode
    <3>3. QED
      BY <3>1, <3>2
  <2>2. PICK k : k = Casting("move", MoveMessages(handler[c]), then, handler[c].g)
    OBVIOUS
  <2>3. k.pc = "next" /\ k.then = then
    BY <2>2 DEF Casting
  <2>4. QED
    BY <1>0, <2>1, <2>2, <2>3, CalmGoto
<1>7. CASE BeginCast(c)
  <2>1. PICK h \in Casts : h = handler[c] /\ h.pc = "next"
    BY <1>7, CastFields DEF BeginCast
  <2>2. players \in SUBSET Conns
    BY DEF TypedNet
  <2>3. PICK k : k = [h EXCEPT !.pc = "cast", !.left = players]
    OBVIOUS
  <2>4. k = [kind |-> h.kind, pc |-> "cast", msgs |-> h.msgs, left |-> players,
             then |-> h.then, arg |-> h.arg]
    BY <2>1, <2>2, <2>3, CastSteps
  <2>5. k.pc = "cast" /\ k.then = h.then /\ k.arg = h.arg
    BY <2>4
  <2>6. Goto(c, k)
    BY <1>7, <2>1, <2>3 DEF BeginCast, ReceiversOf
  <2>7. QED
    BY <1>0, <2>1, <2>5, <2>6, CalmGoto DEF Creating
<1>8. CASE \E p \in players : SendTo(c, p)
  <2>1. PICK h : h = handler[c]
    OBVIOUS
  <2>2. PICK p \in players :
          Goto(c, IF h.left = {p} THEN Casting(h.kind, Tail(h.msgs), h.then, h.arg)
                                  ELSE [h EXCEPT !.left = @ \ {p}])
    BY <1>8, <2>1 DEF SendTo
  <2>3. h \in Casts /\ h.pc = "cast" /\ h.left \in SUBSET Conns
    BY <1>8, <2>1, CastFields DEF SendTo
  <2>4. PICK S \in SUBSET Conns : S = h.left \ {p}
    BY <2>3
  <2>5. PICK k : k = [h EXCEPT !.left = S]
    OBVIOUS
  <2>6. k = [kind |-> h.kind, pc |-> h.pc, msgs |-> h.msgs, left |-> S,
             then |-> h.then, arg |-> h.arg]
    BY <2>3, <2>5, CastSteps
  <2>7. PICK m : m = Casting(h.kind, Tail(h.msgs), h.then, h.arg)
    OBVIOUS
  <2>8. /\ k.pc = "cast" /\ k.then = h.then /\ k.arg = h.arg
        /\ m.pc = "next" /\ m.then = h.then /\ m.arg = h.arg
    <3>1. k.pc = h.pc /\ k.then = h.then /\ k.arg = h.arg
      BY <2>6
    <3>2. m.pc = "next" /\ m.then = h.then /\ m.arg = h.arg
      BY <2>7 DEF Casting
    <3>3. QED
      BY <2>3, <3>1, <3>2
  <2>9. Goto(c, k) \/ Goto(c, m)
    BY <2>2, <2>4, <2>5, <2>7
  <2>10. QED
    BY <1>0, <2>1, <2>3, <2>8, <2>9, CalmGoto DEF Creating
<1>9. QED
  BY <1>1, <1>2, <1>3, <1>4, <1>5, <1>6, <1>7, <1>8

-----------------------------------------------------------------------------
(***************************************************************************)
(* Scores.  Module Game bounds them; here a move changes a score by no more*)
(* than the board has cells, and the boards have at most MaxCells.         *)
(***************************************************************************)
Wanters == {c \in Conns : handler[c].pc = "want"}

Budget == (requests.moves - Cardinality(Wanters)) * MaxCells

Counts ==
  /\ requests \in [starts : Nat, cells : Nat, moves : Nat, tokens : Nat, leaves : Nat]
  /\ requests.moves <= MaxMoves
  /\ IsFiniteSet(Wanters) /\ Cardinality(Wanters) <= requests.moves

Fits(p) == p.width * p.height <= MaxCells

Bounded(g) == \A pid \in PlayerIds : Completed(g).scores[pid] \in -Budget .. Budget

Room ==
  /\ Counts
  /\ \A c \in Conns : Creating(c) => Fits(handler[c].arg)
  /\ \A g \in DOMAIN games : Fits(games[g].board) /\ Bounded(g)

\* What OnMove adds to a score or takes from it.
LEMMA ScoreMoves ==
  ASSUME NEW x \in GameRecs, GameOK(x), Fits(x.board), NEW c \in Conns,
         NEW up \in SUBSET Cells(x.board), NEW pid \in PlayerIds, NEW B \in Nat,
         x.scores[pid] \in -B .. B
  PROVE  NewScores(x.scores, x.board, c, up)[pid] \in -(B + MaxCells) .. B + MaxCells
<1> DEFINE u == Cardinality(up \cap Marked(x.board))
           d == Cardinality(up \ Marked(x.board))
           s == x.scores
<1>1. IsBoard(x.board)
  BY DEF GameRecs, Boards, Sound
<1>2. IsFiniteSet(Cells(x.board)) /\ Cardinality(Cells(x.board)) <= MaxCells
  BY <1>1, CellsFinite DEF Fits
<1>3. ASSUME NEW S, S \subseteq Cells(x.board)
      PROVE  Cardinality(S) \in Nat /\ Cardinality(S) <= MaxCells
  <2>1. /\ IsFiniteSet(S) /\ Cardinality(S) <= Cardinality(Cells(x.board))
        /\ Cardinality(S) \in Nat /\ Cardinality(Cells(x.board)) \in Nat
    BY <1>2, <1>3, FS_Subset, FS_CardinalityType
  <2>2. QED
    BY <1>2, <2>1
<1>4. u \in 0 .. MaxCells /\ d \in 0 .. MaxCells
  BY <1>3
<1>5. s \in [PlayerIds -> Int]
  BY DEF GameRecs
<1>6. NewScores(s, x.board, c, up) = [s EXCEPT ![c] = @ + u - d]
  BY DEF NewScores
<1> HIDE DEF u, d, s
<1>7. NewScores(s, x.board, c, up)[pid] \in {s[pid], s[pid] + u - d}
  BY <1>5, <1>6
<1>8. s[pid] \in -B .. B
  BY DEF s
<1>9. NewScores(s, x.board, c, up)[pid] \in -(B + MaxCells) .. B + MaxCells
  <2> DEFINE n == NewScores(s, x.board, c, up)[pid]
             o == s[pid]
  <2> SUFFICES n \in -(B + MaxCells) .. B + MaxCells
    OBVIOUS
  <2>1. n \in {o, o + u - d} /\ o \in -B .. B
    BY <1>7, <1>8
  <2> HIDE DEF n, o
  <2>2. QED
    BY <1>4, <2>1
<1>10. QED
  BY <1>9 DEF s

\* A game that the step leaves alone, and the handlers inside MakeMove too.
LEMMA CompletedStays ==
  ASSUME NEW g, games'[g] = games[g],
         \A d \in Conns : \/ handler'[d] = handler[d]
                          \/ handler[d].pc # "mode" /\ handler'[d].pc # "mode"
  PROVE  Completed(g)' = Completed(g)
<1>1. Inside(handler', g) = Inside(handler, g)
  BY DEF Inside
<1>2. \A d \in Inside(handler, g) : handler[d] = handler'[d]
  BY DEF Inside
<1>3. Through(handler, g, games[g]) = Through(handler', g, games[g])
  BY <1>1, <1>2, ThroughSame
<1>4. QED
  BY <1>3, ThroughIs

\* The budget only grows.
BudgetOK == Budget \in Nat /\ Budget <= MaxMoves * MaxCells

LEMMA BudgetIs == Counts => BudgetOK
<1> SUFFICES ASSUME Counts PROVE BudgetOK
  OBVIOUS
<1> DEFINE m == requests.moves
           n == Cardinality(Wanters)
<1>1. m \in Nat /\ n \in Nat /\ n <= m /\ m <= MaxMoves
  BY FS_CardinalityType DEF Counts
<1> HIDE DEF m, n
<1>2. PICK k \in Nat : k = m - n /\ k <= MaxMoves
  BY <1>1
<1>3. k * MaxCells \in Nat /\ k * MaxCells <= MaxMoves * MaxCells
  <2>1. PICK j \in Nat : j = MaxMoves - k /\ MaxMoves = k + j
    BY <1>2
  <2>2. MaxMoves * MaxCells = k * MaxCells + j * MaxCells
    BY <2>1
  <2>3. k * MaxCells \in Nat /\ j * MaxCells \in Nat
    OBVIOUS
  <2>4. QED
    BY <2>2, <2>3
<1>4. Budget = k * MaxCells
  BY <1>2 DEF Budget, m, n
<1>5. QED
  BY <1>3, <1>4 DEF BudgetOK

LEMMA BoundedGrows ==
  ASSUME NEW g, Bounded(g), Completed(g)' = Completed(g),
         Budget \in Nat, Budget' \in Nat, Budget <= Budget'
  PROVE  Bounded(g)'
<1>1. PICK y : y = Completed(g)
  OBVIOUS
<1>2. PICK B \in Nat, C \in Nat : B = Budget /\ C = Budget' /\ B <= C
  OBVIOUS
<1>3. \A pid \in PlayerIds : y.scores[pid] \in -B .. B
  BY <1>1, <1>2 DEF Bounded
<1>4. \A pid \in PlayerIds : y.scores[pid] \in -C .. C
  BY <1>2, <1>3
<1>5. QED
  BY <1>1, <1>2, <1>4 DEF Bounded

\* Steps that begin no game and make no move.
LEMMA RoomStays ==
  ASSUME Room, Counts', Budget <= Budget', DOMAIN games' = DOMAIN games,
         \A g \in DOMAIN games : Fits(games'[g].board) /\ Completed(g)' = Completed(g),
         \A c \in Conns : Creating(c)' => Fits(handler'[c].arg)
  PROVE  Room'
<1>1. Budget \in Nat
  BY BudgetIs DEF Room, BudgetOK
<1>2. Counts' => BudgetOK'
  BY BudgetIs, PTL
<1>3. QED
  BY <1>1, <1>2, BoundedGrows DEF Room, BudgetOK

LEMMA CalmCounts ==
  ASSUME Counts, \A d \in Conns : Calm(d),
         requests' \in [starts : Nat, cells : Nat, moves : Nat, tokens : Nat, leaves : Nat],
         requests'.moves = requests.moves
  PROVE  Counts' /\ Budget <= Budget'
<1>1. Wanters' = Wanters
  BY DEF Wanters, Calm
<1>2. Budget' = Budget /\ Budget \in Nat
  BY <1>1, BudgetIs DEF Budget, BudgetOK
<1>3. QED
  BY <1>1, <1>2 DEF Counts

\* The steps that have nothing to do with moves.
LEMMA CalmRoom ==
  ASSUME Typed, Room, NEW c \in Conns, UNCHANGED games,
         \/ Accept(c) \/ AuthTimeout(c) \/ SwapHandlers(c) \/ JoinCheck(c)
         \/ JoinEncodeStart(c) \/ JoinSendStart(c) \/ JoinEncodeCells(c) \/ JoinSendCells(c)
         \/ Register(c) \/ ReadToken(c)
         \/ NoHandler(c) \/ Leave(c) \/ Deliver(c) \/ HandlersRace(c)
         \/ AuthAnswer(c) \/ StartCreate(c) \/ StartRun(c) \/ MoveStop(c)
         \/ MoveEncode(c) \/ BeginCast(c) \/ \E p \in players : SendTo(c, p)
  PROVE  Room' /\ \A g \in DOMAIN games : Completed(g)' = Completed(g)
<1> USE DEF Room
<1>1. ASSUME NEW d \in Conns PROVE Calm(d)
  BY CalmSteps
<1>2. /\ requests' \in [starts : Nat, cells : Nat, moves : Nat, tokens : Nat, leaves : Nat]
      /\ requests'.moves = requests.moves
  <2>1. CASE ReadToken(c)
    <3>1. requests' = [requests EXCEPT !.tokens = @ + 1]
      BY <2>1 DEF ReadToken
    <3>2. QED
      BY <3>1 DEF Counts
  <2>2. CASE Leave(c)
    <3>1. requests' = [requests EXCEPT !.leaves = @ + 1]
      BY <2>2 DEF Leave
    <3>2. QED
      BY <3>1 DEF Counts
  <2>3. CASE ~ReadToken(c) /\ ~Leave(c)
    <3>1. UNCHANGED requests
      BY <2>3 DEF Accept, AuthTimeout, SwapHandlers, JoinCheck, JoinEncodeStart, JoinSendStart,
           JoinEncodeCells, JoinSendCells, Register, NoHandler, Deliver, HandlersRace, AuthAnswer,
           StartCreate, StartRun, MoveStop, MoveEncode, BeginCast, SendTo, history
    <3>2. QED
      BY <3>1 DEF Counts
  <2>4. QED
    BY <2>1, <2>2, <2>3
<1>3. Counts' /\ Budget <= Budget'
  BY <1>1, <1>2, CalmCounts
<1>4. ASSUME NEW g \in DOMAIN games PROVE Completed(g)' = Completed(g)
  <2>1. \A d \in Conns : \/ handler'[d] = handler[d]
                         \/ handler[d].pc # "mode" /\ handler'[d].pc # "mode"
    BY <1>1 DEF Calm
  <2>2. QED
    BY <2>1, CompletedStays
<1>5. ASSUME NEW d \in Conns, Creating(d)' PROVE Fits(handler'[d].arg)
  BY <1>1, <1>5 DEF Calm, Creating
<1>6. QED
  BY <1>3, <1>4, <1>5, RoomStays

\* The parameters of a StartGame message leave room.
LEMMA HandleStartGameRoom ==
  ASSUME Typed, Room, NEW c \in Conns, HandleStartGame(c)
  PROVE  Room' /\ \A g \in DOMAIN games : Completed(g)' = Completed(g)
<1> USE DEF Room
<1>1. PICK p, m :
        /\ p \in Params
        /\ requests.cells + p.width * p.height <= MaxCells
        /\ requests' = [requests EXCEPT !.starts = @ + 1, !.cells = @ + p.width * p.height]
        /\ Goto(c, Casting("start", m, "create", p))
  BY DEF HandleStartGame
<1>2. handler[c] = Idle /\ Idle.pc = "idle" /\ UNCHANGED games
  BY DEF HandleStartGame, Reads, server, Idle
<1>3. handler \in [Conns -> Handlers]
  BY DEF Typed, TypedHandlers
<1>4. PICK k : k = Casting("start", m, "create", p)
  OBVIOUS
<1>5. k.pc = "next" /\ k.arg = p
  BY <1>4 DEF Casting
<1>6. /\ handler'[c] = k \/ handler'[c] = Idle
      /\ \A d \in Conns \ {c} : handler'[d] = handler[d]
  BY <1>1, <1>3, <1>4, GotoIs
<1>7. PICK area \in Nat : area = p.width * p.height
  BY <1>1 DEF ServerAssumption
<1>8. /\ requests' \in [starts : Nat, cells : Nat, moves : Nat, tokens : Nat, leaves : Nat]
      /\ requests'.moves = requests.moves
  <2> DEFINE r == [requests EXCEPT !.starts = @ + 1]
  <2>1. /\ r \in [starts : Nat, cells : Nat, moves : Nat, tokens : Nat, leaves : Nat]
        /\ r.moves = requests.moves
    BY DEF Counts
  <2>2. requests' = [r EXCEPT !.cells = @ + area]
    BY <1>1, <1>7
  <2> HIDE DEF r
  <2>3. QED
    BY <2>1, <2>2
<1>9. Wanters' = Wanters
  BY <1>2, <1>5, <1>6 DEF Wanters
<1>10. Budget' = Budget /\ Budget \in Nat
  BY <1>8, <1>9, BudgetIs DEF Budget, BudgetOK
<1>11. Counts'
  BY <1>8, <1>9 DEF Counts
<1>12. Fits(p)
  <2>1. requests.cells \in Nat
    BY DEF Counts
  <2>2. QED
    BY <1>1, <1>7, <2>1 DEF Fits
<1>13. ASSUME NEW d \in Conns, Creating(d)' PROVE Fits(handler'[d].arg)
  BY <1>2, <1>5, <1>6, <1>12, <1>13 DEF Creating
<1>14. ASSUME NEW g \in DOMAIN games PROVE Completed(g)' = Completed(g)
  BY <1>2, <1>5, <1>6, CompletedStays
<1>15. QED
  BY <1>2, <1>10, <1>11, <1>13, <1>14, RoomStays

\* A new game fits, and everybody starts with score 0.
LEMMA StartCreateRoom ==
  ASSUME Typed, Room, NEW c \in Conns, StartCreate(c), games' # games
  PROVE  Room' /\ \A g \in DOMAIN games : Completed(g)' = Completed(g)
<1> USE DEF Typed, Room
<1>0. PICK h \in Casts : h = handler[c] /\ HandlerOK(h) /\ Creating(c)
  BY CastFields DEF StartCreate, TypedHandlers, Creating
<1>1. ValidParams(h.arg) /\ UNCHANGED requests
  BY <1>0 DEF StartCreate
<1>2. PICK p \in GoodParams : p = h.arg /\ Fits(p)
  BY <1>0, <1>1 DEF HandlerOK, GoodParams, Creating
<1>3. PICK b \in CreateBoard(p) :
        games' = Append(games, [board |-> b, params |-> p, marks |-> NoMarks(b),
                                scores |-> [pid \in PlayerIds |-> 0]])
  BY <1>0, <1>1, <1>2 DEF StartCreate
<1>4. PICK x : x = [board |-> b, params |-> p, marks |-> NoMarks(b),
                    scores |-> [pid \in PlayerIds |-> 0]]
  OBVIOUS
<1>5. x \in GameRecs /\ Fits(x.board) /\ \A pid \in PlayerIds : x.scores[pid] = 0
  <2>1. [pid \in PlayerIds |-> 0] \in [PlayerIds -> Int]
    OBVIOUS
  <2>2. QED
    BY <1>2, <1>4, <2>1, CreateIs DEF GameRecs, Fits
<1>6. PICK n : n = Len(games) + 1
  OBVIOUS
<1>7. /\ DOMAIN games' = DOMAIN games \cup {n} /\ n \notin DOMAIN games
      /\ \A g \in DOMAIN games : games'[g] = games[g]
      /\ games'[n] = x
  BY <1>3, <1>4, <1>5, <1>6, AppendProperties, LenProperties DEF TypedGames
<1>8. ASSUME NEW d \in Conns PROVE Calm(d)
  BY CalmSteps
<1>9. Counts' /\ Budget <= Budget'
  BY <1>1, <1>8, CalmCounts DEF Counts
<1>10. Budget \in Nat /\ Budget' \in Nat
  <2>1. Counts' => BudgetOK'
    BY BudgetIs, PTL
  <2>2. QED
    BY <1>9, <2>1, BudgetIs DEF BudgetOK
<1>11. ASSUME NEW g \in DOMAIN games PROVE Completed(g)' = Completed(g)
  <2>1. \A d \in Conns : \/ handler'[d] = handler[d]
                         \/ handler[d].pc # "mode" /\ handler'[d].pc # "mode"
    BY <1>8 DEF Calm
  <2>2. QED
    BY <1>7, <2>1, CompletedStays
<1>12. ASSUME NEW d \in Conns, Creating(d)' PROVE Fits(handler'[d].arg)
  BY <1>8, <1>12 DEF Calm, Creating
<1>13. Completed(n)' = x
  <2>1. ASSUME NEW d \in Conns, handler'[d].pc = "mode" PROVE handler'[d].g # n
    <3>1. handler'[d] = handler[d]
      BY <1>8, <2>1 DEF Calm
    <3>2. QED
      BY <1>7, <2>1, <3>1 DEF TypedHandlers, HandlerOK
  <2>2. Inside(handler', n) = {}
    BY <2>1 DEF Inside
  <2>3. QED
    BY <1>7, <2>2, ThroughIs, ThroughPlain
<1>14. Bounded(n)'
  BY <1>5, <1>10, <1>13 DEF Bounded
<1>15. ASSUME NEW g \in DOMAIN games PROVE Bounded(g)' /\ Fits(games'[g].board)
  BY <1>7, <1>9, <1>10, <1>11, BoundedGrows
<1>16. ASSUME NEW g \in DOMAIN games' PROVE Fits(games'[g].board) /\ Bounded(g)'
  <2>1. CASE g \in DOMAIN games
    BY <1>15, <2>1
  <2>2. CASE g = n
    BY <1>5, <1>7, <1>14, <2>2
  <2>3. QED
    BY <1>7, <2>1, <2>2
<1>17. QED
  BY <1>9, <1>11, <1>12, <1>16

\* Arithmetic of the budget: m moves, n of them not yet made.
LEMMA BudgetMoves ==
  ASSUME NEW m \in Nat, NEW n \in Nat, n <= m
  PROVE  /\ (m - n) * MaxCells \in Nat
         /\ (m + 1 - n) * MaxCells = (m - n) * MaxCells + MaxCells
<1>1. PICK k \in Nat : k = m - n
  OBVIOUS
<1>2. m + 1 - n = k + 1
  BY <1>1
<1>3. (k + 1) * MaxCells = k * MaxCells + MaxCells /\ k * MaxCells \in Nat
  OBVIOUS
<1>4. QED
  BY <1>1, <1>2, <1>3

\* One move more, which one handler more has yet to make.
LEMMA HandleMoveRoom ==
  ASSUME Typed, Room, NEW c \in Conns, HandleMove(c)
  PROVE  Room' /\ \A g \in DOMAIN games : Completed(g)' = Completed(g)
<1> USE DEF Room
<1>1. /\ handler[c] = Idle /\ UNCHANGED games /\ requests.moves < MaxMoves
      /\ requests' = [requests EXCEPT !.moves = @ + 1]
  BY DEF HandleMove, Reads, server
<1>2. Idle.pc = "idle" /\ handler \in [Conns -> Handlers]
  BY DEF Typed, TypedHandlers, Idle
<1>3. \/ UNCHANGED handler
      \/ /\ \A d \in Conns \ {c} : handler'[d] = handler[d]
         /\ handler'[c].pc = "want"
  <2>1. SUFFICES ASSUME ~UNCHANGED handler
                 PROVE  /\ \A d \in Conns \ {c} : handler'[d] = handler[d]
                        /\ handler'[c].pc = "want"
    OBVIOUS
  <2>2. PICK type, cell :
          Goto(c, [kind |-> "move", pc |-> "want", type |-> type, cell |-> cell])
    BY <2>1 DEF HandleMove
  <2>3. PICK k : k = [kind |-> "move", pc |-> "want", type |-> type, cell |-> cell]
    OBVIOUS
  <2>4. Settle(k) = k /\ k.pc = "want"
    BY <2>3 DEF Settle, Finished
  <2>5. QED
    BY <1>2, <2>2, <2>3, <2>4, GotoIs
<1>4. PICK m \in Nat, n \in Nat : m = requests.moves /\ n = Cardinality(Wanters) /\ n <= m
  BY FS_CardinalityType DEF Counts
<1>5. /\ requests' \in [starts : Nat, cells : Nat, moves : Nat, tokens : Nat, leaves : Nat]
      /\ requests'.moves = m + 1 /\ m + 1 <= MaxMoves
  BY <1>1, <1>4 DEF Counts
<1>6. IsFiniteSet(Wanters') /\ Cardinality(Wanters') \in {n, n + 1}
  <2>1. c \notin Wanters /\ IsFiniteSet(Wanters)
    BY <1>1, <1>2 DEF Wanters, Counts
  <2>2. Wanters' = Wanters \/ Wanters' = Wanters \cup {c}
    BY <1>3 DEF Wanters
  <2>3. QED
    BY <1>4, <2>1, <2>2, FS_AddElement
<1>7. Counts'
  BY <1>4, <1>5, <1>6 DEF Counts
<1>8. Budget <= Budget'
  <2>1. PICK k \in {n, n + 1} : k = Cardinality(Wanters')
    BY <1>6
  <2>2. Budget = (m - n) * MaxCells /\ Budget' = (m + 1 - k) * MaxCells
    BY <1>4, <1>5, <2>1 DEF Budget
  <2>3. m + 1 - (n + 1) = m - n
    OBVIOUS
  <2>4. CASE k = n
    <3>1. (m + 1 - n) * MaxCells = (m - n) * MaxCells + MaxCells /\ (m - n) * MaxCells \in Nat
      BY <1>4, BudgetMoves
    <3>2. QED
      BY <2>2, <2>4, <3>1
  <2>5. CASE k = n + 1
    <3>1. (m - n) * MaxCells \in Nat
      BY <1>4, BudgetMoves
    <3>2. Budget' = Budget
      BY <2>2, <2>3, <2>5
    <3>3. QED
      BY <2>2, <3>1, <3>2
  <2>6. QED
    BY <2>4, <2>5
<1>9. ASSUME NEW g \in DOMAIN games PROVE Completed(g)' = Completed(g)
  BY <1>1, <1>2, <1>3, CompletedStays
<1>10. ASSUME NEW d \in Conns, Creating(d)' PROVE Fits(handler'[d].arg)
  BY <1>3, <1>10 DEF Creating
<1>11. QED
  BY <1>1, <1>7, <1>8, <1>9, <1>10, RoomStays

\* OnMove does what is completed already.
LEMMA MoveModeRoom ==
  ASSUME Typed, Room, NEW c \in Conns, MoveMode(c)
  PROVE  Room' /\ \A g \in DOMAIN games : Completed(g)' = Completed(g)
<1> USE DEF Typed, Room
<1>0. PICK h \in Modes, g \in DOMAIN games, x \in GameRecs :
        /\ h = handler[c] /\ h.pc = "mode" /\ g = h.g
        /\ x = games[g] /\ GameOK(x) /\ h.updated \subseteq Cells(x.board)
        /\ games' = IF x.params.mode = "Coop"
                    THEN [games EXCEPT ![g] =
                            [board |-> x.board, params |-> x.params,
                             marks |-> NewMarks(x.marks, x.board, c, h.updated),
                             scores |-> NewScores(x.scores, x.board, c, h.updated)]]
                    ELSE games
  BY MoveModeIs
<1>3. PICK y : y = [board |-> x.board, params |-> x.params,
                    marks |-> NewMarks(x.marks, x.board, c, h.updated),
                    scores |-> NewScores(x.scores, x.board, c, h.updated)]
  OBVIOUS
<1>4. games' = IF x.params.mode = "Coop" THEN [games EXCEPT ![g] = y] ELSE games
  BY <1>0, <1>3
<1>5. /\ DOMAIN games' = DOMAIN games /\ \A i \in DOMAIN games \ {g} : games'[i] = games[i]
      /\ games'[g] = IF x.params.mode = "Coop" THEN y ELSE x
  BY <1>0, <1>4
<1>6. PICK info :
        Goto(c, [kind |-> "move", pc |-> "encode", g |-> g, result |-> h.result,
                 updated |-> h.updated, info |-> info])
  BY <1>0 DEF MoveMode
<1>7. PICK k : k = [kind |-> "move", pc |-> "encode", g |-> g, result |-> h.result,
                    updated |-> h.updated, info |-> info]
  OBVIOUS
<1>8. k.pc = "encode" /\ Idle.pc = "idle"
  BY <1>7 DEF Idle
<1>9. /\ handler'[c] = k \/ handler'[c] = Idle
      /\ \A d \in Conns \ {c} : handler'[d] = handler[d]
  BY <1>6, <1>7, GotoIs DEF TypedHandlers
<1>10. /\ \A i : Inside(handler, i) = IF h.g = i THEN {c} ELSE {}
       /\ \A i : Inside(handler', i) = {}
  <2>1. \A i : Inside(handler, i) = IF h.g = i THEN {c} ELSE {}
    BY <1>0, InsideOne
  <2>2. ASSUME NEW d \in Conns PROVE handler'[d].pc # "mode"
    BY <1>0, <1>8, <1>9 DEF TypedHandlers
  <2>3. QED
    BY <2>1, <2>2 DEF Inside
<1>11. ASSUME NEW i \in DOMAIN games PROVE Completed(i)' = Completed(i)
  <2>1. CASE i = g /\ x.params.mode = "Coop"
    <3>1. Through(handler, g, x) = y
      BY <1>0, <1>3, <1>10, <2>1, ThroughOne
    <3>2. Through(handler', g, y) = y
      BY <1>10, ThroughPlain
    <3>3. QED
      BY <1>0, <1>5, <2>1, <3>1, <3>2, ThroughIs
  <2>2. CASE i # g \/ x.params.mode # "Coop"
    <3>1. games'[i] = games[i]
      BY <1>0, <1>5, <2>2
    <3>2. /\ Through(handler, i, games[i]) = games[i]
          /\ Through(handler', i, games[i]) = games[i]
      BY <1>0, <1>10, <2>2, ThroughPlain
    <3>3. QED
      BY <3>1, <3>2, ThroughIs
  <2>3. QED
    BY <2>1, <2>2
<1>12. Wanters' = Wanters /\ UNCHANGED requests
  BY <1>0, <1>8, <1>9 DEF Wanters, MoveMode, history
<1>13. Counts' /\ Budget' = Budget /\ Budget \in Nat
  BY <1>12, BudgetIs DEF Counts, Budget, BudgetOK
<1>14. ASSUME NEW i \in DOMAIN games PROVE Fits(games'[i].board)
  <2>1. y.board = x.board
    BY <1>3
  <2>2. QED
    BY <1>0, <1>5, <2>1
<1>15. ASSUME NEW d \in Conns, Creating(d)' PROVE Fits(handler'[d].arg)
  BY <1>8, <1>9, <1>15 DEF Creating
<1>16. QED
  BY <1>5, <1>11, <1>13, <1>14, <1>15, RoomStays

\* One of the moves to be made is made, or refused with an error.
LEMMA BudgetMade ==
  ASSUME Counts, NEW c \in Conns, handler[c].pc = "want", handler'[c].pc # "want",
         \A d \in Conns \ {c} : handler'[d] = handler[d], UNCHANGED requests
  PROVE  Counts' /\ Budget' = Budget + MaxCells
<1>1. Wanters' = Wanters \ {c} /\ c \in Wanters /\ IsFiniteSet(Wanters)
  BY DEF Wanters, Counts
<1>2. PICK m \in Nat, n \in Nat : m = requests.moves /\ n = Cardinality(Wanters) /\ n <= m
  BY FS_CardinalityType DEF Counts
<1>3. IsFiniteSet(Wanters') /\ Cardinality(Wanters') = n - 1
  BY <1>1, <1>2, FS_RemoveElement
<1>4. n # 0
  BY <1>1, <1>2, FS_EmptySet
<1>5. Counts'
  BY <1>2, <1>3 DEF Counts
<1>6. Budget = (m - n) * MaxCells /\ Budget' = (m - (n - 1)) * MaxCells
  BY <1>2, <1>3 DEF Budget
<1>7. (m + 1 - n) * MaxCells = (m - n) * MaxCells + MaxCells /\ m - (n - 1) = m + 1 - n
  BY <1>2, BudgetMoves
<1>8. QED
  BY <1>5, <1>6, <1>7

\* The board's part of a move, on the whole move.
LEMMA MadeIs ==
  ASSUME Typed, NEW c \in Conns, MoveBoard(c), NEW x \in GameRecs, NEW r,
         NEW g \in DOMAIN games, g = game, x = games[g], GameOK(x), moveMux = 0,
         r.board \in Boards, Cells(r.board) = Cells(x.board), r.updated \subseteq Cells(x.board),
         SameMines(x.board, r.board),
         games'[g] = [board |-> r.board, params |-> x.params, marks |-> x.marks,
                         scores |-> x.scores],
         handler'[c] = [kind |-> "move", pc |-> "mode", g |-> g,
                        result |-> r.result, updated |-> r.updated]
  PROVE  /\ \A i : Inside(handler, i) = {}
         /\ \A i : Inside(handler', i) = IF i = g THEN {c} ELSE {}
         /\ Completed(g) = x
         /\ Completed(g)' =
              IF x.params.mode = "Coop"
              THEN [board |-> r.board, params |-> x.params,
                    marks |-> NewMarks(x.marks, r.board, c, r.updated),
                    scores |-> NewScores(x.scores, r.board, c, r.updated)]
              ELSE [board |-> r.board, params |-> x.params, marks |-> x.marks,
                    scores |-> x.scores]
<1> USE DEF Typed
<1>1. \A i : Inside(handler, i) = {}
  BY InsideNone
<1>2. \A d \in Conns \ {c} : handler'[d] = handler[d]
  BY Handling DEF HandlerStep
<1>3. PICK up : up = r.updated /\ handler'[c].pc = "mode" /\ handler'[c].g = g
                /\ handler'[c].updated = up
  OBVIOUS
<1>4. \A i : Inside(handler', i) = IF i = g THEN {c} ELSE {}
  BY <1>1, <1>2, <1>3 DEF Inside
<1>5. Completed(g) = x
  BY <1>1, ThroughIs, ThroughPlain
<1>6. PICK y : y = [board |-> r.board, params |-> x.params, marks |-> x.marks,
                    scores |-> x.scores]
  OBVIOUS
<1>7. /\ y.board = r.board /\ y.params = x.params /\ y.marks = x.marks /\ y.scores = x.scores
  BY <1>6
<1>8. y \in GameRecs /\ GameOK(y)
  <2>1. x.params \in GoodParams /\ x.marks \in Updates /\ x.scores \in [PlayerIds -> Int]
    BY DEF GameRecs
  <2>2. y \in GameRecs
    BY <1>6, <2>1 DEF GameRecs
  <2>3. GameOK(y)
    BY <1>7 DEF GameOK, SameMines
  <2>4. QED
    BY <2>2, <2>3
<1>9. games'[g] = y
  BY <1>6
<1>10. Completed(g)' = Through(handler', g, y)
  BY <1>9, ThroughIs
<1>11. CASE x.params.mode = "Coop"
  <2>1. handler'[c].updated \subseteq Cells(y.board)
    BY <1>3, <1>7
  <2>2. Through(handler', g, y)
          = [board |-> y.board, params |-> y.params,
             marks |-> NewMarks(y.marks, y.board, c, handler'[c].updated),
             scores |-> NewScores(y.scores, y.board, c, handler'[c].updated)]
    BY <1>4, <1>7, <1>8, <1>11, <2>1, ThroughOne
  <2>3. QED
    BY <1>1, <1>3, <1>4, <1>5, <1>7, <1>10, <1>11, <2>2
<1>12. CASE x.params.mode # "Coop"
  <2>1. Through(handler', g, y) = y
    BY <1>7, <1>12, ThroughPlain
  <2>2. QED
    BY <1>1, <1>4, <1>5, <1>6, <1>10, <1>12, <2>1
<1>13. QED
  BY <1>11, <1>12

\* A game changes, as Completed shows it, only with a Move of Game.
MadeBy(g, c) ==
  /\ handler[c].pc = "want" /\ handler'[c].pc = "mode"
  /\ \E r \in {[result |-> handler'[c].result, updated |-> handler'[c].updated]} :
       GameOf(g, r)!Move(c, handler[c].type, handler[c].cell)

LEMMA MoveBoardRoom ==
  ASSUME Typed, Room, NEW c \in Conns, MoveBoard(c)
  PROVE  /\ Room'
         /\ \A g \in DOMAIN games : Completed(g)' = Completed(g) \/ MadeBy(g, c)
<1> USE DEF Typed, Room
<1>1. /\ handler[c].pc = "want" /\ \A d \in Conns \ {c} : handler'[d] = handler[d]
      /\ UNCHANGED requests
  BY Handling DEF MoveBoard, history, HandlerStep
<1>2. Budget \in Nat /\ Budget <= MaxMoves * MaxCells
  BY BudgetIs DEF BudgetOK
<1>3. CASE handler'[c].pc = "idle"
  <2>1. UNCHANGED games
    BY <1>3, MoveRefused
  <2>2. Counts' /\ Budget <= Budget'
    BY <1>1, <1>2, <1>3, BudgetMade
  <2>3. ASSUME NEW g \in DOMAIN games PROVE Completed(g)' = Completed(g)
    BY <1>1, <1>3, <2>1, CompletedStays
  <2>4. ASSUME NEW d \in Conns, Creating(d)' PROVE Fits(handler'[d].arg)
    BY <1>1, <1>3, <2>4 DEF Creating
  <2>5. QED
    BY <2>1, <2>2, <2>3, <2>4, RoomStays
<1>4. CASE handler'[c].pc # "idle"
  <2>1. PICK x, r :
          /\ x \in GameRecs
          /\ game \in DOMAIN games /\ x = games[game] /\ GameOK(x) /\ moveMux = 0
          /\ handler[c].pc = "want" /\ r = MakeMove(x.board, handler[c].type, handler[c].cell)
          /\ r.result # "Error" /\ r.board \in Boards /\ SameMines(x.board, r.board)
          /\ Cells(r.board) = Cells(x.board) /\ r.updated \subseteq Cells(x.board)
          /\ DOMAIN games' = DOMAIN games
          /\ \A g \in DOMAIN games \ {game} : games'[g] = games[g]
          /\ games'[game] = [board |-> r.board, params |-> x.params, marks |-> x.marks,
                             scores |-> x.scores]
          /\ handler'[c] = [kind |-> "move", pc |-> "mode", g |-> game,
                            result |-> r.result, updated |-> r.updated]
    BY <1>4, MoveBoardMakes
  <2>2. PICK g \in DOMAIN games : g = game
    BY <2>1
  <2>3. /\ \A i : Inside(handler, i) = {}
        /\ \A i : Inside(handler', i) = IF i = g THEN {c} ELSE {}
        /\ Completed(g) = x
        /\ Completed(g)' =
             IF x.params.mode = "Coop"
             THEN [board |-> r.board, params |-> x.params,
                   marks |-> NewMarks(x.marks, r.board, c, r.updated),
                   scores |-> NewScores(x.scores, r.board, c, r.updated)]
             ELSE [board |-> r.board, params |-> x.params, marks |-> x.marks,
                   scores |-> x.scores]
    BY <2>1, <2>2, MadeIs
  <2>4. /\ handler'[c].pc = "mode" /\ handler'[c].result = r.result
        /\ handler'[c].updated = r.updated
    BY <2>1
  <2>5. Counts' /\ Budget' = Budget + MaxCells
    BY <1>1, <2>4, BudgetMade
  <2>6. Budget' \in Nat /\ Budget' <= MaxMoves * MaxCells
    <3>1. Counts' => BudgetOK'
      BY BudgetIs, PTL
    <3>2. QED
      BY <2>5, <3>1 DEF BudgetOK
  <2>7. PICK y : y = [board |-> r.board, params |-> x.params, marks |-> x.marks,
                      scores |-> x.scores]
    OBVIOUS
  <2>8. /\ y.board = r.board /\ y.params = x.params /\ y.marks = x.marks /\ y.scores = x.scores
        /\ games'[g] = y
    BY <2>1, <2>2, <2>7
  <2>9. y \in GameRecs /\ GameOK(y) /\ Fits(y.board)
    <3>1. x.params \in GoodParams /\ x.marks \in Updates /\ x.scores \in [PlayerIds -> Int]
      BY <2>1 DEF GameRecs
    <3>2. y \in GameRecs
      BY <2>1, <2>7, <3>1 DEF GameRecs
    <3>3. GameOK(y)
      BY <2>1, <2>8 DEF GameOK, SameMines
    <3>4. Fits(y.board)
      BY <2>1, <2>2, <2>8 DEF Fits, SameMines
    <3>5. QED
      BY <3>2, <3>3, <3>4
  <2>10. PICK z : z = Completed(g)'
    OBVIOUS
  <2>11. /\ z.board = r.board /\ z.params = x.params
         /\ x.params.mode = "Coop" =>
              /\ z.marks = NewMarks(x.marks, r.board, c, r.updated)
              /\ z.scores = NewScores(x.scores, r.board, c, r.updated)
         /\ x.params.mode # "Coop" => z.marks = x.marks /\ z.scores = x.scores
    BY <2>3, <2>10
  <2>12. ASSUME NEW pid \in PlayerIds PROVE z.scores[pid] \in -Budget' .. Budget'
    <3>1. PICK B \in Nat : B = Budget /\ Budget' = B + MaxCells
      BY <1>2, <2>5
    <3>2. y.scores[pid] \in -B .. B
      BY <2>2, <2>3, <2>8, <3>1 DEF Bounded
    <3>3. CASE x.params.mode = "Coop"
      <4>1. r.updated \in SUBSET Cells(y.board)
        BY <2>1, <2>8
      <4>2. NewScores(y.scores, y.board, c, r.updated)[pid] \in -(B + MaxCells) .. B + MaxCells
        BY <2>9, <3>2, <4>1, ScoreMoves
      <4>3. QED
        BY <2>8, <2>11, <3>1, <3>3, <4>2
    <3>4. CASE x.params.mode # "Coop"
      <4>1. z.scores[pid] \in -B .. B
        BY <2>8, <2>11, <3>2, <3>4
      <4>2. -B .. B \subseteq -(B + MaxCells) .. B + MaxCells
        OBVIOUS
      <4>3. QED
        BY <3>1, <4>1, <4>2
    <3>5. QED
      BY <3>3, <3>4
  <2>13. Bounded(g)'
    BY <2>10, <2>12 DEF Bounded
  <2>14. ASSUME NEW i \in DOMAIN games, i # g
         PROVE  Completed(i)' = Completed(i) /\ games'[i] = games[i]
    <3>1. games'[i] = games[i]
      BY <2>1, <2>2, <2>14
    <3>2. Through(handler, i, games[i]) = games[i] /\ Through(handler', i, games[i]) = games[i]
      BY <2>3, <2>14, ThroughPlain
    <3>3. QED
      BY <3>1, <3>2, ThroughIs
  <2>15. ASSUME NEW i \in DOMAIN games' PROVE Fits(games'[i].board) /\ Bounded(i)'
    <3>1. CASE i = g
      BY <2>8, <2>9, <2>13, <3>1
    <3>2. CASE i # g
      <4>1. i \in DOMAIN games
        BY <2>1
      <4>2. Bounded(i) /\ Fits(games[i].board)
        BY <4>1
      <4>3. Budget <= Budget'
        BY <1>2, <2>5
      <4>4. QED
        BY <1>2, <2>6, <2>14, <3>2, <4>1, <4>2, <4>3, BoundedGrows
    <3>3. QED
      BY <3>1, <3>2
  <2>16. ASSUME NEW d \in Conns, Creating(d)' PROVE Fits(handler'[d].arg)
    BY <1>1, <2>4, <2>16 DEF Creating
  <2>17. MadeBy(g, c)
    <3>1. PICK reply : reply = [result |-> r.result, updated |-> r.updated]
      OBVIOUS
    <3>2. z.scores[c] \in -(MaxMoves * MaxCells) .. MaxMoves * MaxCells
      <4>1. z.scores[c] \in -Budget' .. Budget'
        BY <2>12 DEF Conns
      <4>2. QED
        BY <2>6, <4>1
    <3>3. GameOf(g, reply)!Move(c, handler[c].type, handler[c].cell)
      BY <2>1, <2>3, <2>10, <2>11, <3>1, <3>2, GameMove
    <3>4. QED
      BY <1>1, <2>4, <3>1, <3>3 DEF MadeBy
  <2>18. QED
    BY <2>5, <2>14, <2>15, <2>16, <2>17
<1>5. QED
  BY <1>3, <1>4

AtomicStep ==
  \A g \in DOMAIN games : Completed(g)' # Completed(g) => \E c \in Conns : MadeBy(g, c)

LEMMA InitRoom == Init => Room
<1> SUFFICES ASSUME Init PROVE Room
  OBVIOUS
<1>1. handler = [c \in Conns |-> Idle] /\ Idle.pc = "idle" /\ DOMAIN games = {}
  BY DEF Init, Idle
<1>2. Wanters = {}
  BY <1>1 DEF Wanters
<1>3. Counts
  BY <1>2, FS_EmptySet DEF Init, Counts
<1>4. QED
  BY <1>1, <1>3 DEF Room, Creating

LEMMA NextRoom == Typed /\ Room /\ [Next]_vars => Room' /\ AtomicStep
<1> SUFFICES ASSUME Typed, Room, [Next]_vars PROVE Room' /\ AtomicStep
  OBVIOUS
<1>1. CASE UNCHANGED <<games, requests, handler>>
  <2>1. \A d \in Conns : Calm(d)
    BY <1>1 DEF Calm
  <2>2. Counts' /\ Budget <= Budget'
    BY <1>1, <2>1, CalmCounts DEF Room, Counts
  <2>3. ASSUME NEW g \in DOMAIN games PROVE Completed(g)' = Completed(g)
    BY <1>1, CompletedStays
  <2>4. QED
    BY <1>1, <2>2, <2>3, RoomStays DEF Room, AtomicStep, Creating
<1>2. CASE UNCHANGED vars
  BY <1>1, <1>2 DEF vars
<1>3. CASE MapRace
  BY <1>1, <1>3 DEF MapRace, server, history
<1>4. ASSUME NEW c \in Conns,
             \/ Accept(c) \/ AuthTimeout(c) \/ SwapHandlers(c) \/ JoinCheck(c)
             \/ JoinEncodeStart(c) \/ JoinSendStart(c) \/ JoinEncodeCells(c) \/ JoinSendCells(c)
             \/ Register(c) \/ ReadToken(c)
             \/ NoHandler(c) \/ Leave(c) \/ Deliver(c) \/ HandlersRace(c)
             \/ AuthAnswer(c) \/ StartCreate(c) \/ StartRun(c) \/ MoveStop(c)
             \/ MoveEncode(c) \/ BeginCast(c) \/ \E p \in players : SendTo(c, p)
      PROVE  Room' /\ AtomicStep
  <2>1. CASE UNCHANGED games
    BY <1>4, <2>1, CalmRoom DEF AtomicStep
  <2>2. CASE ~UNCHANGED games
    <3>1. StartCreate(c)
      BY <1>4, <2>2 DEF Accept, AuthTimeout, SwapHandlers, JoinCheck, JoinEncodeStart,
           JoinSendStart, JoinEncodeCells, JoinSendCells, Register, ReadToken, NoHandler, Leave,
           Deliver, HandlersRace, AuthAnswer, StartRun, MoveStop, MoveEncode, BeginCast, SendTo,
           server
    <3>2. QED
      BY <2>2, <3>1, StartCreateRoom DEF AtomicStep
  <2>3. QED
    BY <2>1, <2>2
<1>5. ASSUME NEW c \in Conns, HandleStartGame(c) \/ HandleMove(c) \/ MoveMode(c)
      PROVE  Room' /\ AtomicStep
  BY <1>5, HandleStartGameRoom, HandleMoveRoom, MoveModeRoom DEF AtomicStep
<1>6. ASSUME NEW c \in Conns, MoveBoard(c) PROVE Room' /\ AtomicStep
  BY <1>6, MoveBoardRoom DEF AtomicStep
<1>7. QED
  BY <1>2, <1>3, <1>4, <1>5, <1>6, StepIs, Zenon

\* Each game of the server, as Completed shows it, changes only by whole moves
\* of module Game, however the handlers and joins interleave: by the move its
\* handler was given, with the result the handler goes on with.
THEOREM AtomicCorrect == Spec => MovesAtomic
<1>1. Typed /\ Room /\ [Next]_vars => [AtomicStep]_vars
  BY NextRoom
<1>2. Typed /\ Room /\ [Next]_vars => Room'
  BY NextRoom
<1>3. QED
  BY <1>1, <1>2, InitRoom, Invariance, PTL DEF Spec, MovesAtomic, AtomicStep, MadeBy

-----------------------------------------------------------------------------
(***************************************************************************)
(* What a client shows once it has handled what is on its way.             *)
(***************************************************************************)
\* The views from v on, one after each message of q, end with x.
Leads(v, q, x) ==
  \E w \in [0 .. Len(q) -> Views] :
    w[0] = v /\ w[Len(q)] = x /\ \A i \in 1 .. Len(q) : w[i] = Handled(w[i - 1], q[i])

LEMMA LeadsNowhere ==
  ASSUME NEW v \in Views
  PROVE  Leads(v, << >>, v) /\ \A x : Leads(v, << >>, x) => x = v
<1>1. Len(<< >>) = 0
  OBVIOUS
<1>2. Leads(v, << >>, v)
  <2>1. PICK w \in [0 .. 0 -> Views] : w = [i \in 0 .. 0 |-> v]
    OBVIOUS
  <2>2. w[0] = v
    BY <2>1
  <2>3. QED
    BY <1>1, <2>2 DEF Leads
<1>3. QED
  BY <1>1, <1>2 DEF Leads

LEMMA LeadsTo ==
  ASSUME NEW v \in Views, NEW q \in Seq(Msgs), NEW x, Leads(v, q, x)
  PROVE  x \in Views
<1>1. PICK n \in Nat : n = Len(q)
  BY LenProperties
<1>2. PICK w \in [0 .. n -> Views] : w[n] = x
  BY <1>1 DEF Leads
<1>3. QED
  BY <1>2

\* The client handles the first message.
LEMMA LeadsOn ==
  ASSUME NEW v \in Views, NEW q \in Seq(Msgs), q # << >>, NEW x, Leads(v, q, x)
  PROVE  Leads(Handled(v, Head(q)), Tail(q), x)
<1>1. /\ Len(q) \in Nat \ {0} /\ Head(q) = q[1] /\ Tail(q) \in Seq(Msgs)
      /\ Len(Tail(q)) = Len(q) - 1 /\ \A i \in 1 .. Len(q) - 1 : Tail(q)[i] = q[i + 1]
  BY EmptySeq, HeadTailProperties
<1>2. PICK w \in [0 .. Len(q) -> Views] :
        w[0] = v /\ w[Len(q)] = x /\ \A i \in 1 .. Len(q) : w[i] = Handled(w[i - 1], q[i])
  BY DEF Leads
<1>3. PICK n \in Nat \ {0} : n = Len(q)
  BY <1>1
<1>4. PICK u : u = [i \in 0 .. n - 1 |-> w[i + 1]]
  OBVIOUS
<1>5. u \in [0 .. n - 1 -> Views] /\ u[0] = w[1] /\ u[n - 1] = w[n]
  BY <1>2, <1>3, <1>4
<1>6. w[1] = Handled(v, Head(q))
  BY <1>1, <1>2, <1>3
<1>7. ASSUME NEW i \in 1 .. n - 1 PROVE u[i] = Handled(u[i - 1], Tail(q)[i])
  <2>1. i + 1 \in 1 .. n /\ (i + 1) - 1 = i /\ i - 1 \in 0 .. n - 1 /\ (i - 1) + 1 = i
    OBVIOUS
  <2>2. w[i + 1] = Handled(w[i], q[i + 1])
    BY <1>2, <1>3, <2>1
  <2>3. u[i] = w[i + 1] /\ u[i - 1] = w[i]
    BY <1>4, <2>1
  <2>4. QED
    BY <1>1, <1>3, <2>2, <2>3
<1>8. QED
  BY <1>1, <1>2, <1>3, <1>5, <1>6, <1>7 DEF Leads

\* One more message is sent.
LEMMA LeadsFurther ==
  ASSUME NEW v \in Views, NEW q \in Seq(Msgs), NEW x, Leads(v, q, x), NEW m \in Msgs
  PROVE  x \in Views /\ Handled(x, m) \in Views /\ Leads(v, Append(q, m), Handled(x, m))
<1>1. PICK n \in Nat : n = Len(q)
  BY LenProperties
<1>2. /\ Len(Append(q, m)) = n + 1 /\ Append(q, m)[n + 1] = m
      /\ \A i \in 1 .. n : Append(q, m)[i] = q[i]
  BY <1>1, AppendProperties
<1>3. PICK w \in [0 .. n -> Views] :
        w[0] = v /\ w[n] = x /\ \A i \in 1 .. n : w[i] = Handled(w[i - 1], q[i])
  BY <1>1 DEF Leads
<1>4. x \in Views
  BY <1>3
<1>5. PICK y \in Views : y = Handled(x, m)
  BY <1>4, HandledIs
<1>6. PICK u : u = [i \in 0 .. n + 1 |-> IF i <= n THEN w[i] ELSE y]
  OBVIOUS
<1>7. u \in [0 .. n + 1 -> Views] /\ u[0] = v /\ u[n + 1] = y
  BY <1>3, <1>6
<1>8. ASSUME NEW i \in 1 .. n + 1 PROVE u[i] = Handled(u[i - 1], Append(q, m)[i])
  <2>1. CASE i = n + 1
    <3>1. i - 1 = n /\ u[i - 1] = x
      BY <1>3, <1>6, <2>1
    <3>2. QED
      BY <1>2, <1>5, <1>7, <2>1, <3>1
  <2>2. CASE i # n + 1
    <3>1. i \in 1 .. n /\ i - 1 \in 0 .. n
      BY <2>2
    <3>2. u[i] = w[i] /\ u[i - 1] = w[i - 1]
      BY <1>6, <3>1
    <3>3. QED
      BY <1>2, <1>3, <3>1, <3>2
  <2>3. QED
    BY <2>1, <2>2
<1>9. QED
  BY <1>2, <1>4, <1>5, <1>7, <1>8 DEF Leads

\* The messages of an activity that a connection is still to be sent: one is
\* added at their end, or sent.
LEMMA LeadsMore ==
  ASSUME NEW v \in Views, NEW q \in Seq(Msgs), NEW s \in Seq(Msgs), NEW x,
         Leads(v, q \o s, x), NEW m \in Msgs
  PROVE  /\ x \in Views /\ Handled(x, m) \in Views /\ s \o <<m>> \in Seq(Msgs)
         /\ Leads(v, q \o (s \o <<m>>), Handled(x, m))
<1>1. q \o s \in Seq(Msgs) /\ <<m>> \in Seq(Msgs) /\ s \o <<m>> \in Seq(Msgs)
  BY ConcatProperties
<1>2. Append(q \o s, m) = (q \o s) \o <<m>>
  BY <1>1, AppendIsConcat
<1>3. (q \o s) \o <<m>> = q \o (s \o <<m>>)
  BY <1>1, ConcatAssociative
<1>4. /\ x \in Views /\ Handled(x, m) \in Views
      /\ Leads(v, Append(q \o s, m), Handled(x, m))
  BY <1>1, LeadsFurther
<1>5. QED
  BY <1>1, <1>2, <1>3, <1>4, Zenon

LEMMA SentIs ==
  ASSUME NEW q \in Seq(Msgs), NEW s \in Seq(Msgs), s # << >>
  PROVE  q \o s = Append(q, Head(s)) \o Tail(s)
<1>1. Head(s) \in Msgs /\ Tail(s) \in Seq(Msgs)
  BY HeadTailProperties
<1>2. <<Head(s)>> \in Seq(Msgs)
  BY <1>1
<1>3. s = <<Head(s)>> \o Tail(s)
  <2>1. /\ Len(s) \in Nat \ {0} /\ Head(s) = s[1] /\ Len(Tail(s)) = Len(s) - 1
        /\ \A i \in 1 .. Len(s) - 1 : Tail(s)[i] = s[i + 1]
    BY EmptySeq, HeadTailProperties
  <2>2. Len(<<Head(s)>>) = 1 /\ <<Head(s)>>[1] = Head(s)
    OBVIOUS
  <2>3. PICK t \in Seq(Msgs) : t = <<Head(s)>> \o Tail(s)
    BY <1>1, <1>2, ConcatProperties
  <2>4. /\ Len(t) = Len(s)
        /\ \A i \in 1 .. Len(s) : t[i] = IF i <= 1 THEN s[1] ELSE Tail(s)[i - 1]
    BY <1>1, <1>2, <2>1, <2>2, <2>3, ConcatProperties
  <2>5. ASSUME NEW i \in 1 .. Len(s) PROVE s[i] = t[i]
    <3>1. CASE i = 1
      BY <2>4, <3>1
    <3>2. CASE i # 1
      <4>1. i - 1 \in 1 .. Len(s) - 1 /\ (i - 1) + 1 = i
        BY <2>1, <3>2
      <4>2. QED
        BY <2>1, <2>4, <3>2, <4>1
    <3>3. QED
      BY <3>1, <3>2
  <2>6. s = t
    BY <2>4, <2>5, SeqEqual
  <2>7. QED
    BY <2>3, <2>6
<1>4. Append(q, Head(s)) = q \o <<Head(s)>>
  BY <1>1, AppendIsConcat
<1>5. (q \o <<Head(s)>>) \o Tail(s) = q \o (<<Head(s)>> \o Tail(s))
  BY <1>1, <1>2, ConcatAssociative
<1>6. QED
  BY <1>3, <1>4, <1>5, Zenon

-----------------------------------------------------------------------------
(***************************************************************************)
(* What a client shows of a board.                                         *)
(***************************************************************************)
\* A cell has at most nine neighbours, itself included: the number of mines
\* around it is never mistaken for one of the other values.
LEMMA CountIs ==
  ASSUME NEW b, IsBoard(b), NEW c \in Cells(b)
  PROVE  NumberOfMines(b, c) \in 0 .. 9
<1>1. c[1] \in Nat /\ c[2] \in Nat
  BY DEF Cells, IsBoard
<1>2. PICK i \in Nat, j \in Nat : i = c[1] /\ j = c[2]
  BY <1>1
<1> DEFINE S == i - 1 .. i + 1
           T == j - 1 .. j + 1
<1>3. IsFiniteSet(S) /\ Cardinality(S) = 3 /\ IsFiniteSet(T) /\ Cardinality(T) = 3
  BY FS_Interval
<1>4. Neighbours(b, c) \cap b.mine \subseteq S \X T
  <2>1. ASSUME NEW d \in Neighbours(b, c) PROVE d \in S \X T
    <3>1. d \in Cells(b) /\ d[1] - i \in -1 .. 1 /\ d[2] - j \in -1 .. 1
      BY <1>2 DEF Neighbours
    <3>2. PICK x \in Nat, y \in Nat : d = <<x, y>>
      BY <3>1 DEF Cells, IsBoard
    <3>3. x \in S /\ y \in T
      BY <3>1, <3>2
    <3>4. QED
      BY <3>2, <3>3
  <2>2. QED
    BY <2>1
<1> HIDE DEF S, T
<1>5. IsFiniteSet(S \X T) /\ Cardinality(S \X T) = 9
  BY <1>3, FS_Product
<1>6. PICK N \in SUBSET (S \X T) : N = Neighbours(b, c) \cap b.mine
  BY <1>4
<1>7. IsFiniteSet(N) /\ Cardinality(N) <= 9
  BY <1>5, FS_Subset
<1>8. Cardinality(N) \in Nat
  BY <1>7, FS_CardinalityType
<1>9. QED
  BY <1>6, <1>7, <1>8 DEF NumberOfMines

\* One cell of a client's grid.
CellShown(k, b, e) ==
  /\ k.rev # -1 <=> e \in b.revealed
  /\ k.flag <=> e \in b.flagged
  /\ e \in b.revealed => k.rev = CellValue(b, b, e)

LEMMA ShownIs ==
  ASSUME NEW v \in Views, NEW b, IsBoard(b)
  PROVE  ShowsBoard(v, b) <=> /\ v.screen = "game" /\ DOMAIN v.grid = Cells(b)
                              /\ \A e \in Cells(b) : CellShown(v.grid[e], b, e)
<1>1. b.revealed \subseteq Cells(b) /\ b.flagged \subseteq Cells(b)
  BY DEF IsBoard
<1>2. CASE DOMAIN v.grid = Cells(b)
  <2>1. \A e \in Cells(b) : v.grid[e].flag \in BOOLEAN
    <3>1. PICK S \in SUBSET Spots : v.grid \in [S -> ShownCells]
      BY DEF Views, Grids
    <3>2. QED
      BY <1>2, <3>1 DEF ShownCells
  <2>2. RevealedAt(v) = b.revealed
          <=> \A e \in Cells(b) : v.grid[e].rev # -1 <=> e \in b.revealed
    BY <1>1, <1>2 DEF RevealedAt
  <2>3. FlaggedAt(v) = b.flagged
          <=> \A e \in Cells(b) : v.grid[e].flag <=> e \in b.flagged
    BY <1>1, <1>2, <2>1 DEF FlaggedAt
  <2>4. (\A e \in b.revealed : v.grid[e].rev = CellValue(b, b, e))
          <=> \A e \in Cells(b) : e \in b.revealed => v.grid[e].rev = CellValue(b, b, e)
    BY <1>1
  <2>5. QED
    BY <1>2, <2>2, <2>3, <2>4 DEF ShowsBoard, CellShown
<1>3. CASE DOMAIN v.grid # Cells(b)
  BY <1>3 DEF ShowsBoard
<1>4. QED
  BY <1>2, <1>3

\* What one value does to a cell.
LEMMA ShowCellIs ==
  ASSUME NEW k \in ShownCells, NEW n \in Nat, NEW x, x = ShowCell(k, n)
  PROVE  /\ x \in ShownCells
         /\ n = 32 => x.rev = k.rev /\ x.flag
         /\ n = 48 => x.rev = k.rev /\ ~x.flag
         /\ n \notin {32, 48} => x.rev = n /\ (x.flag <=> k.flag)
<1>1. PICK r \in Int, f \in BOOLEAN : k = [rev |-> r, flag |-> f]
  BY DEF ShownCells
<1>2. ASSUME NEW g \in BOOLEAN, x = [k EXCEPT !.flag = g]
      PROVE  x \in ShownCells /\ x.rev = k.rev /\ (x.flag <=> g)
  BY <1>1, <1>2 DEF ShownCells
<1>3. ASSUME x = [k EXCEPT !.rev = n]
      PROVE  x \in ShownCells /\ x.rev = n /\ (x.flag <=> k.flag)
  BY <1>1, <1>3 DEF ShownCells
<1>4. CASE n = 32
  <2>1. x = [k EXCEPT !.flag = TRUE]
    BY <1>4, Zenon DEF ShowCell, ShowFlag
  <2>2. PICK g \in BOOLEAN : x = [k EXCEPT !.flag = g] /\ g
    BY <2>1, Zenon
  <2>3. x \in ShownCells /\ x.rev = k.rev /\ (x.flag <=> g)
    BY <1>2, <2>2, Zenon
  <2>4. QED
    BY <1>4, <2>2, <2>3
<1>5. CASE n = 48
  <2>1. n # 32
    BY <1>5
  <2>2. x = [k EXCEPT !.flag = FALSE]
    BY <1>5, <2>1, Zenon DEF ShowCell, ShowFlag, Unflag
  <2>3. PICK g \in BOOLEAN : x = [k EXCEPT !.flag = g] /\ ~g
    BY <2>2, Zenon
  <2>4. x \in ShownCells /\ x.rev = k.rev /\ (x.flag <=> g)
    BY <1>2, <2>3, Zenon
  <2>5. QED
    BY <1>5, <2>3, <2>4
<1>6. CASE n \notin {32, 48}
  <2>1. x = [k EXCEPT !.rev = n]
    BY <1>6, Zenon DEF ShowCell, ShowFlag, Unflag
  <2>2. QED
    BY <1>3, <1>6, <2>1
<1>7. QED
  BY <1>4, <1>5, <1>6

\* The value of a cell tells whether it is revealed, flagged, or neither.
LEMMA ValueIs ==
  ASSUME NEW b, IsBoard(b), NEW e \in Cells(b)
  PROVE  /\ CellValue(b, b, e) \in Nat
         /\ e \in b.revealed => CellValue(b, b, e) \notin {32, 48}
         /\ e \notin b.revealed =>
              CellValue(b, b, e) = IF e \in b.flagged THEN 32 ELSE 48
BY CountIs DEF CellValue, ShowMine, ShowFlag, Unflag

\* The value of a cell on a board, shown where another one was.
LEMMA ValueShown ==
  ASSUME NEW b, Sound(b), NEW e \in Cells(b), NEW k \in ShownCells,
         k.rev # -1 => e \in b.revealed,
         e \in b.revealed => ~k.flag
  PROVE  CellShown(ShowCell(k, CellValue(b, b, e)), b, e)
<1>1. IsBoard(b) /\ (e \in b.revealed => e \notin b.flagged)
  BY DEF Sound
<1>2. PICK n \in Nat : n = CellValue(b, b, e)
  BY <1>1, ValueIs
<1>3. PICK x : x = ShowCell(k, n)
  OBVIOUS
<1>4. CASE e \in b.revealed
  <2>1. n \notin {32, 48}
    BY <1>1, <1>2, <1>4, ValueIs
  <2>2. x.rev = n /\ ~x.flag
    BY <1>3, <1>4, <2>1, ShowCellIs
  <2>3. QED
    BY <1>1, <1>2, <1>3, <1>4, <2>2 DEF CellShown
<1>5. CASE e \notin b.revealed
  <2>1. n = IF e \in b.flagged THEN 32 ELSE 48
    BY <1>1, <1>2, <1>5, ValueIs
  <2>2. x.rev = -1 /\ (x.flag <=> e \in b.flagged)
    BY <1>3, <1>5, <2>1, ShowCellIs
  <2>3. QED
    BY <1>2, <1>3, <1>5, <2>2 DEF CellShown
<1>6. QED
  BY <1>4, <1>5

\* What a move changes is among the cells it updates.
Follows(b, after, updated) ==
  /\ Sound(b) /\ Sound(after) /\ SameMines(b, after) /\ updated \subseteq Cells(b)
  /\ \A e \in Cells(b) \ updated : /\ e \in after.revealed <=> e \in b.revealed
                                   /\ e \in after.flagged <=> e \in b.flagged
  /\ \A e \in updated : e \notin b.revealed /\ (e \in after.revealed => e \notin b.flagged)

LEMMA MoveFollows ==
  ASSUME NEW b, Sound(b), NEW type, NEW cell, NEW r, r = MakeMove(b, type, cell),
         r.result # "Error"
  PROVE  Follows(b, r.board, r.updated)
<1>1. /\ cell \in Cells(b) /\ Sound(r.board) /\ SameMines(b, r.board)
      /\ r.updated \subseteq Cells(b)
  BY MoveIs
<1>2. type \in MoveTypes
  BY DEF MakeMove, Unchanged
<1>3. CASE type = "Reveal"
  <2>1. RevealPost(b, cell, r)
    BY <1>1, <1>2, <1>3, RevealEffect DEF MakeMove
  <2>2. /\ r.board.flagged = b.flagged /\ r.board.revealed = b.revealed \cup r.updated
        /\ r.updated \subseteq Hidden(b)
    BY <2>1 DEF RevealPost
  <2>3. \A e \in r.updated : e \notin b.revealed /\ e \notin b.flagged
    BY <2>2 DEF Hidden
  <2>4. QED
    BY <1>1, <2>2, <2>3 DEF Follows
<1>4. CASE type = "Flag"
  <2>1. r = Flag(b, cell)
    BY <1>1, <1>2, <1>4 DEF MakeMove
  <2>2. /\ r.board.revealed = b.revealed
        /\ r.updated \subseteq {cell} \ b.revealed
        /\ b.flagged \ r.updated = r.board.flagged \ r.updated
    BY <1>1, <2>1, FlagEffect
  <2>3. QED
    BY <1>1, <2>2 DEF Follows
<1>5. QED
  BY <1>2, <1>3, <1>4 DEF MoveTypes

\* A client that shows a board shows the next one after the updates.
LEMMA UpdatesShown ==
  ASSUME NEW v \in Views, NEW b, NEW after, NEW up, Follows(b, after, up), ShowsBoard(v, b),
         NEW y, y = ApplyCells(v, CreateCellUpdates(after, after, up))
  PROVE  ShowsBoard(y, after) /\ y.end = v.end /\ y.color = v.color
<1>1. /\ IsBoard(b) /\ IsBoard(after) /\ Cells(after) = Cells(b) /\ Sound(after)
      /\ up \subseteq Cells(b)
  BY DEF Follows, Sound, SameMines, Cells
<1>2. /\ v.screen = "game" /\ DOMAIN v.grid = Cells(b)
      /\ \A e \in Cells(b) : CellShown(v.grid[e], b, e)
  BY <1>1, ShownIs
<1>3. PICK s \in Screens, n \in {"none", "Win", "Loss", "Aborted"}, g \in Grids, k \in Updates :
        v = [screen |-> s, end |-> n, grid |-> g, color |-> k]
  BY DEF Views
<1>4. PICK u : u = CreateCellUpdates(after, after, up)
  OBVIOUS
<1>5. DOMAIN u = up /\ \A e \in up : u[e] = CellValue(after, after, e)
  BY <1>4 DEF CreateCellUpdates
<1>6. PICK f : f = [e \in Cells(b) |-> IF e \in up THEN ShowCell(g[e], u[e]) ELSE g[e]]
  OBVIOUS
<1>7. y = [screen |-> s, end |-> n, grid |-> f, color |-> k]
  <2>1. y = [v EXCEPT !.grid = f]
    BY <1>1, <1>2, <1>3, <1>4, <1>5, <1>6 DEF ApplyCells
  <2>2. QED
    BY <1>3, <2>1
<1>8. g \in [Cells(b) -> ShownCells]
  BY <1>2, <1>3 DEF Grids
<1>9. ASSUME NEW e \in Cells(b) PROVE CellShown(f[e], after, e)
  <2>1. PICK x \in ShownCells : x = g[e] /\ CellShown(x, b, e)
    BY <1>2, <1>3, <1>8
  <2>2. CASE e \in up
    <3>1. x.rev # -1 => e \in after.revealed
      BY <2>1, <2>2 DEF Follows, CellShown
    <3>2. e \in after.revealed => ~x.flag
      BY <2>1, <2>2 DEF Follows, CellShown
    <3>3. CellShown(ShowCell(x, CellValue(after, after, e)), after, e)
      BY <1>1, <2>1, <3>1, <3>2, ValueShown
    <3>4. QED
      BY <1>5, <1>6, <2>1, <2>2, <3>3
  <2>3. CASE e \notin up
    <3>1. /\ e \in after.revealed <=> e \in b.revealed
          /\ e \in after.flagged <=> e \in b.flagged
      BY <2>3 DEF Follows
    <3>2. e \in b.revealed => CellValue(after, after, e) = CellValue(b, b, e)
      <4>1. after.mine = b.mine
        BY DEF Follows, SameMines
      <4>2. NumberOfMines(after, e) = NumberOfMines(b, e)
        BY <1>1, <4>1 DEF NumberOfMines, Neighbours
      <4>3. QED
        BY <3>1, <4>1, <4>2 DEF CellValue
    <3>3. QED
      BY <1>6, <2>1, <2>3, <3>1, <3>2 DEF CellShown
  <2>4. QED
    BY <2>2, <2>3
<1>10. f \in [Cells(b) -> ShownCells]
  <2>1. ASSUME NEW e \in Cells(b) PROVE f[e] \in ShownCells
    <3>1. PICK x \in ShownCells : x = g[e]
      BY <1>8
    <3>2. PICK i \in Nat : i = CellValue(after, after, e)
      BY <1>1, ValueIs
    <3>3. ShowCell(x, i) \in ShownCells
      BY ShowCellIs
    <3>4. QED
      BY <1>5, <1>6, <3>1, <3>2, <3>3
  <2>2. QED
    BY <1>6, <2>1
<1>11. y \in Views /\ y.grid = f /\ y.screen = s /\ y.end = n /\ y.color = k
  <2>1. Cells(b) \subseteq Spots
    BY <1>1, BoardIs DEF Follows
  <2>2. f \in Grids
    BY <1>10, <2>1 DEF Grids
  <2>3. QED
    BY <1>7, <2>2 DEF Views
<1>12. ShowsBoard(y, after)
  BY <1>1, <1>2, <1>3, <1>6, <1>9, <1>11, ShownIs
<1>13. QED
  BY <1>3, <1>11, <1>12

-----------------------------------------------------------------------------
(***************************************************************************)
(* What a client is to show, once it has handled all messages: a game x    *)
(* that is "on", or "misled" (it was called aborted and goes on), or that  *)
(* it is "over".  The client's join is at pc.                              *)
(***************************************************************************)
Ended(v) == v.screen # "game" \/ v.end \in {"Win", "Loss"}

ShowsGame(v, st, x, pc) ==
  /\ ShowsBoard(v, x.board)
  /\ v.end = "none" \/ (v.end = "Aborted" /\ st = "misled")
  /\ DOMAIN v.color = Cells(x.board)
  /\ \A e \in Cells(x.board) : v.color[e] = x.marks[e] \/ (pc = "late" /\ v.color[e] = 0)

Expected(v, st, x, pc) ==
  v.screen # "dead" =>
    /\ st = "over" => Ended(v)
    /\ st # "over" /\ pc \in {"done", "late"} => ShowsGame(v, st, x, pc)
    /\ st # "over" /\ pc \in {"cells", "sendCells"} => v = StartView(x.params)

Pledge(v0, q, st, x, pc) == \E v : Leads(v0, q, v) /\ Expected(v, st, x, pc)

\* A client that is dead stays so until a game starts.
LEMMA DeadStays ==
  ASSUME NEW v \in Views, NEW m \in Msgs, m.kind # "Start", v.screen = "dead"
  PROVE  Handled(v, m).screen = "dead"
<1>1. Dead(v).screen = "dead"
  BY DEF Dead, NewView
<1>2. PICK s \in Screens, n \in {"none", "Win", "Loss", "Aborted"}, g \in Grids, k \in Updates :
        v = [screen |-> s, end |-> n, grid |-> g, color |-> k]
  BY DEF Views
<1>3. /\ \A f : [v EXCEPT !.grid = f].screen = "dead"
      /\ \A f : [v EXCEPT !.color = f].screen = "dead"
      /\ \A f : [v EXCEPT !.end = f].screen = "dead"
  BY <1>2
<1>4. CASE m.kind = "Cells"
  <2>1. Handled(v, m) = ApplyCells(v, m.updates)
    BY <1>4 DEF Handled
  <2>2. QED
    BY <1>1, <1>3, <2>1, Zenon DEF ApplyCells
<1>5. CASE m.kind = "Info"
  <2>1. Handled(v, m) = ApplyInfo(v, m.marks)
    BY <1>5 DEF Handled
  <2>2. QED
    BY <1>1, <1>3, <2>1, Zenon DEF ApplyInfo
<1>6. CASE m.kind = "End"
  <2>1. Handled(v, m) = [v EXCEPT !.end = m.end]
    BY <1>6 DEF Handled
  <2>2. QED
    BY <1>3, <2>1
<1>7. QED
  BY <1>4, <1>5, <1>6 DEF Msgs

\* GameEnd changes nothing but how the game ended.
LEMMA EndHandled ==
  ASSUME NEW v \in Views, NEW e \in {"Win", "Loss", "Aborted"}, NEW y, y = Handled(v, EndMsg(e))
  PROVE  /\ EndMsg(e) \in Msgs /\ EndMsg(e).kind # "Start"
         /\ y \in Views /\ y.end = e /\ y.screen = v.screen /\ y.grid = v.grid
         /\ y.color = v.color
<1>1. PICK s \in Screens, n \in {"none", "Win", "Loss", "Aborted"}, g \in Grids, k \in Updates :
        v = [screen |-> s, end |-> n, grid |-> g, color |-> k]
  BY DEF Views
<1>2. y = [v EXCEPT !.end = e]
  BY DEF Handled, EndMsg
<1>3. y = [screen |-> s, end |-> e, grid |-> g, color |-> k]
  BY <1>1, <1>2
<1>4. EndMsg(e) \in Msgs /\ EndMsg(e).kind # "Start"
  BY MsgsAre DEF EndMsg
<1>5. QED
  BY <1>1, <1>3, <1>4 DEF Views

\* What a client shows of a board does not depend on the rest of its view.
LEMMA BoardShown ==
  ASSUME NEW v, NEW y, NEW b, y.screen = v.screen, y.grid = v.grid
  PROVE  ShowsBoard(y, b) <=> ShowsBoard(v, b)
  BY DEF ShowsBoard, RevealedAt, FlaggedAt

\* The end of a game that is won or lost.
LEMMA EndExpected ==
  ASSUME NEW v \in Views, NEW e \in {"Win", "Loss"}, NEW x, NEW pc
  PROVE  Expected(Handled(v, EndMsg(e)), "over", x, pc)
  BY EndHandled DEF Expected, Ended

\* A game that is called aborted.
LEMMA AbortExpected ==
  ASSUME NEW v \in Views, NEW x, NEW st, st # "over", NEW pc,
         Expected(v, st, x, pc), pc \notin {"cells", "sendCells"}
  PROVE  Expected(Handled(v, EndMsg("Aborted")), "misled", x, pc)
<1>1. PICK y : y = Handled(v, EndMsg("Aborted"))
  OBVIOUS
<1>2. /\ y \in Views /\ y.end = "Aborted" /\ y.screen = v.screen /\ y.grid = v.grid
      /\ y.color = v.color
  BY <1>1, EndHandled
<1>3. ASSUME v.screen # "dead", pc \in {"done", "late"}
      PROVE  ShowsGame(y, "misled", x, pc)
  <2>1. ShowsGame(v, st, x, pc)
    BY <1>3 DEF Expected
  <2>2. ShowsBoard(y, x.board)
    BY <1>2, <2>1, BoardShown DEF ShowsGame
  <2>3. QED
    BY <1>2, <2>1, <2>2 DEF ShowsGame
<1>4. QED
  BY <1>1, <1>2, <1>3 DEF Expected

\* The start of a game.
LEMMA StartExpected ==
  ASSUME NEW p \in GoodParams, NEW x, Sound(x.board), x.params = p,
         x.board.width = p.width, x.board.height = p.height,
         x.board.revealed = {}, x.board.flagged = {},
         x.marks = NoMarks(x.board), NEW st, st # "over", NEW pc, NEW v
  PROVE  Expected(Handled(v, StartMsg(p)), st, x, pc)
<1>1. PICK y : y = StartView(p)
  OBVIOUS
<1>2. Handled(v, StartMsg(p)) = y
  BY <1>1 DEF Handled, StartMsg
<1>3. /\ y.screen = "game" /\ y.end = "none"
      /\ y.grid = [d \in Cells(p) |-> HiddenCell] /\ y.color = [d \in Cells(p) |-> 0]
  BY <1>1 DEF StartView
<1>4. Cells(x.board) = Cells(p)
  BY DEF Cells
<1>5. HiddenCell.rev = -1 /\ ~HiddenCell.flag
  BY DEF HiddenCell
<1>6. RevealedAt(y) = {} /\ FlaggedAt(y) = {}
  BY <1>3, <1>5 DEF RevealedAt, FlaggedAt
<1>7. ShowsBoard(y, x.board)
  BY <1>3, <1>4, <1>6 DEF ShowsBoard
<1>8. ShowsGame(y, st, x, pc)
  BY <1>3, <1>4, <1>7 DEF ShowsGame, NoMarks
<1>9. QED
  BY <1>1, <1>2, <1>8 DEF Expected

\* The cells of the board a connection is told after it joined.
LEMMA JoinExpected ==
  ASSUME NEW x, Sound(x.board), x.params \in GoodParams,
         x.board.width = x.params.width, x.board.height = x.params.height,
         NEW st, st # "over",
         NEW v \in Views, v.screen # "dead" => v = StartView(x.params)
  PROVE  LET m == CellsMsg(GetChangedCellUpdates(x.board))
         IN  m \in Msgs => Expected(Handled(v, m), st, x, "late")
<1>1. PICK b : b = x.board
  OBVIOUS
<1>2. IsBoard(b) /\ Cells(b) = Cells(x.params) /\ Marked(b) \subseteq Cells(b)
  BY <1>1 DEF Sound, IsBoard, Cells, Marked
<1>3. PICK u : u = CreateCellUpdates(b, b, Marked(b))
  OBVIOUS
<1>4. PICK m : m = CellsMsg(u)
  OBVIOUS
<1>5. Handled(v, m) = ApplyCells(v, u) /\ m.kind # "Start"
  BY <1>4 DEF Handled, CellsMsg
<1>6. SUFFICES ASSUME m \in Msgs PROVE Expected(Handled(v, m), st, x, "late")
  BY <1>1, <1>3, <1>4 DEF GetChangedCellUpdates
<1>7. CASE v.screen = "dead"
  BY <1>5, <1>6, <1>7, DeadStays DEF Expected
<1>8. CASE v.screen # "dead"
  <2>1. /\ v.screen = "game" /\ v.end = "none"
        /\ v.grid = [d \in Cells(b) |-> HiddenCell] /\ v.color = [d \in Cells(b) |-> 0]
    BY <1>2, <1>8 DEF StartView
  <2>2. PICK n \in Screens, z \in {"none", "Win", "Loss", "Aborted"}, g \in Grids,
             k \in Updates :
          v = [screen |-> n, end |-> z, grid |-> g, color |-> k]
    BY DEF Views
  <2>3. DOMAIN u = Marked(b) /\ \A e \in Marked(b) : u[e] = CellValue(b, b, e)
    BY <1>3 DEF CreateCellUpdates
  <2>4. PICK f : f = [e \in Cells(b) |-> IF e \in Marked(b) THEN ShowCell(HiddenCell, u[e])
                                                            ELSE HiddenCell]
    OBVIOUS
  <2>5. PICK y : y = ApplyCells(v, u)
    OBVIOUS
  <2>6. y = [screen |-> n, end |-> z, grid |-> f, color |-> k]
    <3>1. y = [v EXCEPT !.grid = f]
      BY <1>2, <2>1, <2>3, <2>4, <2>5 DEF ApplyCells
    <3>2. QED
      BY <2>2, <3>1
  <2>7. HiddenCell \in ShownCells /\ HiddenCell.rev = -1 /\ ~HiddenCell.flag
    BY DEF HiddenCell, ShownCells
  <2>8. ASSUME NEW e \in Cells(b) PROVE CellShown(f[e], b, e)
    <3>1. CASE e \in Marked(b)
      <4>1. CellShown(ShowCell(HiddenCell, CellValue(b, b, e)), b, e)
        BY <1>1, <2>7, <2>8, ValueShown
      <4>2. QED
        BY <2>3, <2>4, <3>1, <4>1
    <3>2. CASE e \notin Marked(b)
      BY <2>4, <2>7, <3>2 DEF CellShown, Marked
    <3>3. QED
      BY <3>1, <3>2
  <2>9. y \in Views
    BY <1>5, <1>6, <2>5, HandledIs
  <2>10. ShowsBoard(y, b)
    BY <1>2, <2>1, <2>2, <2>4, <2>6, <2>8, <2>9, ShownIs
  <2>11. ShowsGame(y, st, x, "late")
    BY <1>1, <2>1, <2>2, <2>6, <2>10 DEF ShowsGame
  <2>12. QED
    BY <1>5, <2>5, <2>11 DEF Expected
<1>9. QED
  BY <1>7, <1>8

-----------------------------------------------------------------------------
(***************************************************************************)
(* The messages of a move made in game x, which it made what it is.        *)
(***************************************************************************)
CellsUp(x, updated) == CellsMsg(CreateCellUpdates(x.board, x.board, updated))
MarksUp(x, updated) == InfoMsg([e \in updated |-> x.marks[e]])
InfoIn(x, updated) == IF x.params.mode # "Coop" THEN << >> ELSE <<MarksUp(x, updated)>>
EndIn(result) == [i \in DOMAIN EndOf(result) |-> EndMsg(EndOf(result)[i])]

MoveMsgs(x, result, updated) ==
  (IF updated = {} THEN << >> ELSE <<CellsUp(x, updated)>> \o InfoIn(x, updated)) \o EndIn(result)

\* A game a move made x of another one.
Played(x, y, updated) ==
  /\ Follows(x.board, y.board, updated) /\ y.params = x.params
  /\ y.marks \in [Cells(y.board) -> PlayerIds \cup {0}]
  /\ \A e \in Cells(y.board) \ updated : y.marks[e] = x.marks[e]
  /\ y.params.mode # "Coop" => \A e \in Cells(y.board) : y.marks[e] = x.marks[e]

\* The new board, with the marks of the old one.
Half(x, y) == [board |-> y.board, params |-> x.params, marks |-> x.marks]

\* A client that shows a game shows what the cells of a move make of its board.
LEMMA CellsExpected ==
  ASSUME NEW x, NEW y, NEW updated, Played(x, y, updated), NEW st, st # "over", NEW pc,
         pc \notin {"cells", "sendCells"},
         NEW v \in Views, Expected(v, st, x, pc)
  PROVE  /\ CellsUp(y, updated) \in Msgs
         /\ Expected(Handled(v, CellsUp(y, updated)), st, Half(x, y), pc)
         /\ updated = {} => Expected(v, st, Half(x, y), pc)
<1>0. PICK m, z : m = CellsUp(y, updated) /\ z = Half(x, y)
  OBVIOUS
<1>1. PICK u : u = CreateCellUpdates(y.board, y.board, updated)
  OBVIOUS
<1>2. /\ Follows(x.board, y.board, updated) /\ Cells(y.board) = Cells(x.board)
      /\ IsBoard(y.board) /\ updated \in SUBSET Spots
  BY BoardIs DEF Played, Follows, SameMines, Cells, Sound
<1>3. u \in Updates /\ m \in Msgs /\ m.kind # "Start"
  BY <1>0, <1>1, <1>2, UpdatesAre, MsgsAre DEF CellsMsg, CellsUp
<1>4. Handled(v, m) = ApplyCells(v, u)
  BY <1>0, <1>1 DEF Handled, CellsMsg, CellsUp
<1>5. SUFFICES /\ Expected(Handled(v, m), st, z, pc)
               /\ updated = {} => Expected(v, st, z, pc)
  BY <1>0, <1>3
<1>6. z.board = y.board /\ z.marks = x.marks
  BY <1>0 DEF Half
<1>7. CASE v.screen = "dead"
  BY <1>3, <1>7, DeadStays DEF Expected
<1>8. CASE pc \notin {"done", "late"}
  BY <1>8 DEF Expected
<1>9. CASE v.screen # "dead" /\ pc \in {"done", "late"}
  <2>1. ShowsGame(v, st, x, pc)
    BY <1>9 DEF Expected
  <2>2. PICK a : a = ApplyCells(v, u)
    OBVIOUS
  <2>3. ShowsBoard(a, y.board) /\ a.end = v.end /\ a.color = v.color
    BY <1>1, <1>2, <2>1, <2>2, UpdatesShown DEF ShowsGame
  <2>4. ShowsGame(a, st, z, pc)
    BY <1>2, <1>6, <2>1, <2>3 DEF ShowsGame
  <2>5. updated = {} => a = v
    <3>1. SUFFICES ASSUME updated = {} PROVE a = v
      OBVIOUS
    <3>2. DOMAIN u = {}
      BY <1>1, <3>1 DEF CreateCellUpdates
    <3>3. PICK n \in Screens, e \in {"none", "Win", "Loss", "Aborted"}, g \in Grids,
               k \in Updates :
            v = [screen |-> n, end |-> e, grid |-> g, color |-> k]
      BY DEF Views
    <3>4. g = [d \in DOMAIN g |-> g[d]]
      BY DEF Grids
    <3>5. [d \in DOMAIN g |-> IF d \in DOMAIN u THEN ShowCell(g[d], u[d]) ELSE g[d]]
            = [d \in DOMAIN g |-> g[d]]
      BY <3>2
    <3>6. a = [v EXCEPT !.grid = g]
      <4>1. v.grid = g
        BY <3>3
      <4>2. a = [v EXCEPT !.grid = [d \in DOMAIN v.grid |->
                    IF d \in DOMAIN u THEN ShowCell(v.grid[d], u[d]) ELSE v.grid[d]]]
        BY <2>2, <3>2, Zenon DEF ApplyCells
      <4>3. QED
        BY <3>4, <3>5, <4>1, <4>2, Zenon
    <3>7. QED
      BY <3>3, <3>6
  <2>6. QED
    BY <1>4, <1>9, <2>2, <2>4, <2>5 DEF Expected
<1>10. QED
  BY <1>7, <1>8, <1>9

\* ... and shows its marks.
LEMMA InfoExpected ==
  ASSUME NEW x, NEW y, NEW updated, Played(x, y, updated), NEW st, st # "over", NEW pc,
         NEW v \in Views, Expected(v, st, Half(x, y), pc), pc \notin {"cells", "sendCells"}
  PROVE  /\ MarksUp(y, updated) \in Msgs
         /\ Expected(Handled(v, MarksUp(y, updated)), st, y, pc)
         /\ updated = {} \/ y.params.mode # "Coop" => Expected(v, st, y, pc)
<1>0. PICK m, z : m = MarksUp(y, updated) /\ z = Half(x, y)
  OBVIOUS
<1>1. PICK u : u = [e \in updated |-> y.marks[e]]
  OBVIOUS
<1>2. /\ Cells(y.board) = Cells(x.board) /\ updated \subseteq Cells(y.board)
      /\ updated \in SUBSET Spots
  BY BoardIs DEF Played, Follows, SameMines, Cells
<1>3. m \in Msgs /\ m.kind # "Start"
  <2>1. PlayerIds \cup {0} \subseteq Nat
    BY PlayerIdsAssumption
  <2>2. u \in [updated -> Nat]
    BY <1>1, <1>2, <2>1 DEF Played
  <2>3. u \in Updates
    BY <1>2, <2>2 DEF Updates
  <2>4. QED
    BY <1>0, <1>1, <2>3, MsgsAre DEF InfoMsg, MarksUp
<1>4. Handled(v, m) = ApplyInfo(v, u)
  BY <1>0, <1>1 DEF Handled, InfoMsg, MarksUp
<1>5. z.board = y.board /\ z.marks = x.marks
  BY <1>0 DEF Half
<1>6. SUFFICES ASSUME v.screen # "dead", pc \in {"done", "late"}
               PROVE  /\ ShowsGame(ApplyInfo(v, u), st, y, pc)
                      /\ updated = {} \/ y.params.mode # "Coop" => ShowsGame(v, st, y, pc)
  BY <1>0, <1>3, <1>4, DeadStays DEF Expected
<1>7. ShowsGame(v, st, z, pc)
  BY <1>0, <1>6 DEF Expected
<1>8. /\ ShowsBoard(v, y.board) /\ (v.end = "none" \/ (v.end = "Aborted" /\ st = "misled"))
      /\ DOMAIN v.color = Cells(y.board)
      /\ \A e \in Cells(y.board) : v.color[e] = x.marks[e] \/ (pc = "late" /\ v.color[e] = 0)
  BY <1>5, <1>7 DEF ShowsGame
<1>9. ASSUME updated = {} \/ y.params.mode # "Coop" PROVE ShowsGame(v, st, y, pc)
  <2>1. \A e \in Cells(y.board) : y.marks[e] = x.marks[e]
    BY <1>9 DEF Played
  <2>2. QED
    BY <1>8, <2>1 DEF ShowsGame
<1>10. ShowsGame(ApplyInfo(v, u), st, y, pc)
  <2>1. PICK n \in Screens, e \in {"none", "Win", "Loss", "Aborted"}, g \in Grids, k \in Updates :
          v = [screen |-> n, end |-> e, grid |-> g, color |-> k]
    BY DEF Views
  <2>2. DOMAIN u = updated /\ v.color = k
    BY <1>1, <2>1
  <2>3. PICK f : f = [d \in Cells(y.board) |-> IF d \in updated THEN u[d] ELSE k[d]]
    OBVIOUS
  <2>4. PICK w : w = ApplyInfo(v, u)
    OBVIOUS
  <2>5. w = [screen |-> n, end |-> e, grid |-> g, color |-> f]
    <3>1. w = [v EXCEPT !.color = f]
      BY <1>2, <1>8, <2>2, <2>3, <2>4 DEF ApplyInfo
    <3>2. QED
      BY <2>1, <3>1
  <2>6. w.screen = v.screen /\ w.grid = v.grid /\ w.end = v.end /\ w.color = f
    BY <2>1, <2>5
  <2>7. ShowsBoard(w, y.board)
    BY <1>8, <2>6, BoardShown
  <2>8. ASSUME NEW d \in Cells(y.board)
        PROVE  f[d] = y.marks[d] \/ (pc = "late" /\ f[d] = 0)
    <3>1. CASE d \in updated
      BY <1>1, <2>3, <3>1
    <3>2. CASE d \notin updated
      <4>1. y.marks[d] = x.marks[d] /\ f[d] = v.color[d]
        BY <2>2, <2>3, <3>2 DEF Played
      <4>2. QED
        BY <1>8, <4>1
    <3>3. QED
      BY <3>1, <3>2
  <2>9. DOMAIN f = Cells(y.board)
    BY <2>3
  <2>10. QED
    BY <1>8, <2>4, <2>6, <2>7, <2>8, <2>9 DEF ShowsGame
<1>11. QED
  BY <1>9, <1>10

\* What EndOf says.
LEMMA EndInIs ==
  ASSUME NEW result
  PROVE  \/ EndOf(result) = << >> /\ EndIn(result) = << >>
         \/ EndOf(result) # << >> /\ \E e \in {"Win", "Loss"} : EndIn(result) = <<EndMsg(e)>>
<1>1. CASE EndOf(result) = << >>
  BY <1>1 DEF EndIn
<1>2. ASSUME NEW e \in {"Win", "Loss"}, EndOf(result) = <<e>>
      PROVE  EndIn(result) = <<EndMsg(e)>> /\ EndOf(result) # << >>
  BY <1>2 DEF EndIn
<1>3. EndOf(result) = << >> \/ EndOf(result) = <<"Win">> \/ EndOf(result) = <<"Loss">>
  BY DEF EndOf
<1>4. QED
  BY <1>1, <1>2, <1>3

\* The messages of a move make whoever showed the game show what the move made
\* of it, or its end.
LEMMA MovePledge ==
  ASSUME NEW x, NEW y, NEW updated, Played(x, y, updated), NEW st, st # "over", NEW pc,
         pc \notin {"cells", "sendCells"}, NEW result,
         NEW v0 \in Views, NEW q \in Seq(Msgs), Pledge(v0, q, st, x, pc)
  PROVE  /\ MoveMsgs(y, result, updated) \in Seq(Msgs)
         /\ Pledge(v0, q \o MoveMsgs(y, result, updated),
                   IF EndOf(result) = << >> THEN st ELSE "over", y, pc)
<1>1. PICK v \in Views : Leads(v0, q, v) /\ Expected(v, st, x, pc)
  <2>1. PICK v : Leads(v0, q, v) /\ Expected(v, st, x, pc)
    BY DEF Pledge
  <2>2. QED
    BY <2>1, LeadsTo
<1>2. PICK z : z = Half(x, y)
  OBVIOUS
<1>3. PICK cm, im : cm = CellsUp(y, updated) /\ im = MarksUp(y, updated)
  OBVIOUS
<1>4. /\ cm \in Msgs /\ Expected(Handled(v, cm), st, z, pc)
      /\ updated = {} => Expected(v, st, z, pc)
  <2>1. /\ CellsUp(y, updated) \in Msgs
        /\ Expected(Handled(v, CellsUp(y, updated)), st, Half(x, y), pc)
        /\ updated = {} => Expected(v, st, Half(x, y), pc)
    BY <1>1, CellsExpected
  <2>2. QED
    BY <1>2, <1>3, <2>1, Zenon
<1>5. PICK e0 \in Seq(Msgs) : e0 = << >> /\ q \o e0 = q
  <2>1. << >> \in Seq(Msgs) /\ q \o << >> = q
    BY ConcatEmptySeq
  <2>2. QED
    BY <2>1, Zenon
<1>6. PICK w \in Views, s \in Seq(Msgs) :
        /\ s = IF updated = {} THEN << >> ELSE <<CellsUp(y, updated)>> \o InfoIn(y, updated)
        /\ Leads(v0, q \o s, w) /\ Expected(w, st, y, pc)
  <2>1. CASE updated = {}
    <3>1. Expected(v, st, y, pc)
      BY <1>2, <1>3, <1>4, <2>1, InfoExpected, Zenon
    <3>2. QED
      BY <1>1, <1>5, <2>1, <3>1
  <2>2. CASE updated # {}
    <3>1. PICK v1 \in Views : v1 = Handled(v, cm)
      BY <1>4, HandledIs
    <3>2. e0 \o <<cm>> = <<cm>> /\ <<cm>> \in Seq(Msgs)
      <4>1. <<cm>> \in Seq(Msgs)
        BY <1>4
      <4>2. QED
        BY <1>5, <4>1, ConcatEmptySeq
    <3>3. Leads(v0, q \o <<cm>>, v1)
      BY <1>1, <1>4, <1>5, <3>1, <3>2, LeadsMore
    <3>4. /\ im \in Msgs /\ Expected(Handled(v1, im), st, y, pc)
          /\ y.params.mode # "Coop" => Expected(v1, st, y, pc)
      BY <1>2, <1>3, <1>4, <3>1, InfoExpected, Zenon
    <3>5. CellsUp(y, updated) = cm
      BY <1>3
    <3>6. CASE y.params.mode # "Coop"
      <4>1. InfoIn(y, updated) = << >>
        BY <3>6 DEF InfoIn
      <4>2. <<cm>> \o << >> = <<cm>>
        BY <3>2, ConcatEmptySeq
      <4>3. QED
        BY <2>2, <3>2, <3>3, <3>4, <3>5, <3>6, <4>1, <4>2
    <3>7. CASE y.params.mode = "Coop"
      <4>1. InfoIn(y, updated) = <<im>>
        BY <1>3, <3>7 DEF InfoIn
      <4>2. PICK v2 \in Views : v2 = Handled(v1, im)
        BY <3>4, HandledIs
      <4>3. <<cm>> \o <<im>> \in Seq(Msgs) /\ Leads(v0, q \o (<<cm>> \o <<im>>), v2)
        BY <3>2, <3>3, <3>4, <4>2, LeadsMore
      <4>4. QED
        BY <2>2, <3>4, <3>5, <4>1, <4>2, <4>3
    <3>8. QED
      BY <3>6, <3>7
  <2>3. QED
    BY <2>1, <2>2
<1>7. MoveMsgs(y, result, updated) = s \o EndIn(result)
  BY <1>6 DEF MoveMsgs
<1>8. CASE EndOf(result) = << >>
  <2>1. EndIn(result) = << >> /\ s \o << >> = s
    BY <1>8, EndInIs, ConcatEmptySeq
  <2>2. QED
    BY <1>6, <1>7, <1>8, <2>1 DEF Pledge
<1>9. CASE EndOf(result) # << >>
  <2>1. PICK e \in {"Win", "Loss"} : EndIn(result) = <<EndMsg(e)>>
    BY <1>9, EndInIs
  <2>2. EndMsg(e) \in Msgs
    BY MsgsAre
  <2>3. PICK m \in Msgs : m = EndMsg(e)
    BY <2>2
  <2>4. s \o <<m>> \in Seq(Msgs) /\ Leads(v0, q \o (s \o <<m>>), Handled(w, m))
    BY <1>6, LeadsMore
  <2>5. Expected(Handled(w, m), "over", y, pc)
    BY <2>3, EndExpected
  <2>6. Pledge(v0, q \o (s \o <<m>>), "over", y, pc)
    BY <2>4, <2>5 DEF Pledge
  <2>7. QED
    BY <1>7, <1>9, <2>1, <2>3, <2>4, <2>6
<1>10. QED
  BY <1>8, <1>9

-----------------------------------------------------------------------------
(***************************************************************************)
(* What the handler of c, which is h, still has to tell connection d, how  *)
(* the game stands when it is through, and what is then to be shown of it. *)
(***************************************************************************)
Busy(h) == h.pc \in {"next", "cast", "mode", "encode"}

Live == IF game \in misled THEN "misled" ELSE "on"
Now  == IF gameRunning THEN Live ELSE "over"

Becomes(h, now, live) ==
  IF h.pc \in {"mode", "encode"} THEN IF EndOf(h.result) = << >> THEN live ELSE "over"
  ELSE IF h.pc \notin {"next", "cast"} \/ h.then = "return" THEN now
  ELSE IF h.then = "stop" THEN "over"
  ELSE IF h.then = "run" THEN live
  ELSE IF now = "over" THEN "over" ELSE "misled"

Outcome(h, c, x) ==
  [board |-> x.board, params |-> x.params,
   marks |-> IF h.pc = "mode" /\ x.params.mode = "Coop"
             THEN NewMarks(x.marks, x.board, c, h.updated) ELSE x.marks]

Owed(h, d, x) ==
  IF h.pc \in {"mode", "encode"} THEN MoveMsgs(x, h.result, h.updated)
  ELSE IF h.pc = "next" THEN h.msgs
  ELSE IF h.pc = "cast" THEN IF d \in h.left THEN h.msgs ELSE Tail(h.msgs)
  ELSE << >>

Tale(h, c, d, v, q, now, live, x, pc) ==
  Pledge(v, q \o Owed(h, d, Outcome(h, c, x)), Becomes(h, now, live), Outcome(h, c, x), pc)

Story(c, d) ==
  Tale(handler[c], c, d, view[d], out[d], Now, Live, games[game], joining[d].pc)

\* The connections to which what the server sends is sent, and whose clients
\* handle it.
Hears(d) == d \in players /\ connected[d] /\ d \notin lost /\ view[d].screen # "dead"

Only(c) == \A e \in Conns \ {c} : ~Busy(handler[e])

Told == \A d \in Conns : Hears(d) => \E c \in Conns : Only(c) /\ Story(c, d)

\* A join gets to where its client is not bound to show more.
Freely(pc, to) ==
  \/ to = pc
  \/ to \notin {"done", "late", "cells", "sendCells"}
  \/ pc = "cells" /\ to = "sendCells"

\* Handlers that send nothing are all the same.
LEMMA IdleTale ==
  ASSUME NEW h, ~Busy(h), NEW c, NEW d, NEW v, NEW q, NEW now, NEW live, NEW x, NEW pc
  PROVE  Tale(h, c, d, v, q, now, live, x, pc)
           <=> Pledge(v, q \o << >>, now,
                      [board |-> x.board, params |-> x.params, marks |-> x.marks], pc)
<1>1. h.pc \notin {"next", "cast", "mode", "encode"}
  BY DEF Busy
<1>2. Becomes(h, now, live) = now
  BY <1>1 DEF Becomes
<1>3. \A y : Owed(h, d, y) = << >>
  BY <1>1 DEF Owed
<1>4. Outcome(h, c, x) = [board |-> x.board, params |-> x.params, marks |-> x.marks]
  BY <1>1 DEF Outcome
<1>5. QED
  BY <1>2, <1>3, <1>4, Zenon DEF Tale

LEMMA FreePledge ==
  ASSUME NEW v, NEW q, NEW st, NEW x, NEW pc, NEW to, Pledge(v, q, st, x, pc),
         Freely(pc, to) \/ st = "over"
  PROVE  Pledge(v, q, st, x, to)
<1>1. PICK w : Leads(v, q, w) /\ Expected(w, st, x, pc)
  BY DEF Pledge
<1>2. Expected(w, st, x, to)
  BY <1>1 DEF Freely, Expected, ShowsGame
<1>3. QED
  BY <1>1, <1>2 DEF Pledge

LEMMA FreeTale ==
  ASSUME NEW h, NEW c, NEW d, NEW v, NEW q, NEW now, NEW live, NEW x, NEW pc, NEW to,
         Tale(h, c, d, v, q, now, live, x, pc), Freely(pc, to)
  PROVE  Tale(h, c, d, v, q, now, live, x, to)
  BY FreePledge DEF Tale

\* A broadcast that has nothing left to send and nothing left to do.
LEMMA SettleTale ==
  ASSUME NEW h \in Casts, NEW c, NEW d, NEW v, NEW q, NEW now, NEW live, NEW x, NEW pc,
         Tale(h, c, d, v, q, now, live, x, pc)
  PROVE  Tale(Settle(h), c, d, v, q, now, live, x, pc)
<1>1. CASE Settle(h) = h
  BY <1>1
<1>2. CASE Settle(h) # h
  <2>1. Settle(h) = Idle /\ h.pc = "next" /\ h.msgs = << >> /\ h.then = "return"
    BY <1>2 DEF Settle, Finished
  <2>2. Becomes(h, now, live) = now
    BY <2>1 DEF Becomes
  <2>3. \A y : Owed(h, d, y) = << >>
    BY <2>1 DEF Owed
  <2>4. Outcome(h, c, x) = [board |-> x.board, params |-> x.params, marks |-> x.marks]
    BY <2>1 DEF Outcome
  <2>5. Pledge(v, q \o << >>, now,
               [board |-> x.board, params |-> x.params, marks |-> x.marks], pc)
    BY <2>2, <2>3, <2>4, Zenon DEF Tale
  <2>6. ~Busy(Idle)
    BY DEF Busy, Idle
  <2>7. QED
    BY <2>1, <2>5, <2>6, IdleTale, Zenon
<1>3. QED
  BY <1>1, <1>2

\* Whichever handler is the only one that can be busy tells the same.
LEMMA ToldBy ==
  ASSUME Told, NEW c \in Conns, Only(c), NEW d \in Conns, Hears(d)
  PROVE  Story(c, d)
<1>1. PICK e \in Conns : Only(e) /\ Story(e, d)
  BY DEF Told
<1>2. CASE e = c
  BY <1>1, <1>2
<1>3. CASE e # c
  <2>1. ~Busy(handler[c]) /\ ~Busy(handler[e])
    BY <1>1, <1>3 DEF Only
  <2>2. PICK h, k : h = handler[c] /\ k = handler[e]
    OBVIOUS
  <2>3. Tale(k, e, d, view[d], out[d], Now, Live, games[game], joining[d].pc)
    BY <1>1, <2>2 DEF Story
  <2>4. Tale(h, c, d, view[d], out[d], Now, Live, games[game], joining[d].pc)
    BY <2>1, <2>2, <2>3, IdleTale, Zenon
  <2>5. QED
    BY <2>2, <2>4 DEF Story
<1>4. QED
  BY <1>2, <1>3

\* The step of a handler, or of nobody's, that is told by what it tells.
LEMMA Telling ==
  ASSUME Told, NEW c \in Conns, Only(c), Only(c)',
         \A d \in Conns : Hears(d)' => Hears(d) /\ (Story(c, d) => Story(c, d)')
  PROVE  Told'
<1>1. ASSUME NEW d \in Conns, Hears(d)' PROVE Story(c, d)'
  BY <1>1, ToldBy
<1>2. \A d \in Conns : Hears(d)' => \E e \in Conns : Only(e)' /\ Story(e, d)'
  BY <1>1
<1>3. QED
  BY <1>2 DEF Told

\* A step that neither tells anything nor changes what is to be told.
LEMMA Untold ==
  ASSUME Told, UNCHANGED <<games, game, gameRunning, misled>>,
         \A e \in Conns : \/ handler'[e] = handler[e]
                          \/ ~Busy(handler[e]) /\ ~Busy(handler'[e]),
         \A d \in Conns : Hears(d)' =>
           /\ Hears(d) /\ view'[d] = view[d] /\ out'[d] = out[d]
           /\ \/ Freely(joining[d].pc, joining'[d].pc)
              \/ ~gameRunning /\ \A e \in Conns : ~Busy(handler[e])
  PROVE  Told'
<1>1. Now' = Now /\ Live' = Live /\ games'[game'] = games[game]
  BY DEF Now, Live
<1>2. ASSUME NEW d \in Conns, Hears(d)'
      PROVE  \E c \in Conns : Only(c)' /\ Story(c, d)'
  <2>1. PICK c \in Conns : Only(c) /\ Story(c, d) /\ Hears(d)
    BY <1>2 DEF Told
  <2>2. Only(c)'
    BY <2>1 DEF Only
  <2>3. PICK h, k : h = handler[c] /\ k = handler'[c]
    OBVIOUS
  <2>4. PICK v, q, now, live, x, pc, to :
          /\ v = view[d] /\ q = out[d] /\ now = Now /\ live = Live /\ x = games[game]
          /\ pc = joining[d].pc /\ to = joining'[d].pc
    OBVIOUS
  <2>5. Tale(h, c, d, v, q, now, live, x, pc)
    BY <2>1, <2>3, <2>4 DEF Story
  <2>6. Tale(h, c, d, v, q, now, live, x, to)
    <3>1. CASE Freely(pc, to)
      BY <2>5, <3>1, FreeTale
    <3>2. CASE ~gameRunning /\ ~Busy(h)
      <4>1. now = "over"
        BY <2>4, <3>2 DEF Now
      <4>2. Pledge(v, q \o << >>, now,
                   [board |-> x.board, params |-> x.params, marks |-> x.marks], pc)
        BY <2>5, <3>2, IdleTale, Zenon
      <4>3. Pledge(v, q \o << >>, now,
                   [board |-> x.board, params |-> x.params, marks |-> x.marks], to)
        BY <4>1, <4>2, FreePledge
      <4>4. QED
        BY <3>2, <4>3, IdleTale, Zenon
    <3>3. QED
      BY <1>2, <2>3, <2>4, <3>1, <3>2
  <2>7. Tale(k, c, d, v, q, now, live, x, to)
    <3>1. CASE k = h
      BY <2>6, <3>1
    <3>2. CASE ~Busy(h) /\ ~Busy(k)
      BY <2>6, <3>2, IdleTale, Zenon
    <3>3. QED
      BY <2>3, <3>1, <3>2
  <2>8. Story(c, d)'
    BY <1>1, <1>2, <2>3, <2>4, <2>7 DEF Story
  <2>9. QED
    BY <2>2, <2>8
<1>3. QED
  BY <1>2 DEF Told

-----------------------------------------------------------------------------
(***************************************************************************)
(* As long as nothing ran at the same time as anything else.               *)
(***************************************************************************)
\* Nobody sends to a connection before it is registered.
Newcomers ==
  \A c \in Conns : joining[c].pc \in {"off", "accepted"} =>
    c \notin players /\ view[c] = NewView /\ out[c] = << >>

\* A move and a join are for the game that runs.
Phase(c) ==
  /\ handler[c].pc = "want" => gameRunning
  /\ handler[c].pc \in {"mode", "encode"} => gameRunning /\ handler[c].g = game
  /\ handler[c].pc = "encode" =>
       handler[c].info = InfoIn(games[game], handler[c].updated)
  /\ joining[c].pc \in {"start", "sendStart", "cells", "sendCells"} => gameRunning
  /\ joining[c].pc = "sendStart" => joining[c].msg = StartMsg(games[game].params)
  /\ joining[c].pc = "sendCells" =>
       joining[c].msg = CellsMsg(GetChangedCellUpdates(games[game].board))

LEMMA AloneIs ==
  ASSUME Recorded, Alone
  PROVE  /\ \A c, d \in Conns : Working(c) /\ Working(d) => c = d
         /\ \A c, d \in Conns : Working(c) => ~Entering(d)
         /\ \A c, d \in Conns : Entering(c) /\ Entering(d) => c = d
         /\ \A c \in Conns : Busy(handler[c]) \/ handler[c].pc = "want" => Working(c)
         /\ \A c \in Conns : Entering(c) => Only(c)
         /\ \A c \in Conns : Working(c) => Only(c)
<1>1. overlap = {} /\ Overlaps
  BY DEF Alone, Recorded
<1>2. \A c, d \in Conns : Working(c) /\ Working(d) => c = d
  BY <1>1 DEF Overlaps
<1>3. \A c, d \in Conns : Working(c) => ~Entering(d)
  BY <1>1 DEF Overlaps
<1>4. \A c, d \in Conns : Entering(c) /\ Entering(d) => c = d
  BY <1>1 DEF Overlaps
<1>5. \A c \in Conns : Busy(handler[c]) \/ handler[c].pc = "want" => Working(c)
  BY DEF Busy, Working, Stuck, Idle
<1>6. \A c \in Conns : Entering(c) => Only(c)
  BY <1>3, <1>5 DEF Only
<1>7. \A c \in Conns : Working(c) => Only(c)
  BY <1>2, <1>5 DEF Only
<1>8. QED
  BY <1>2, <1>3, <1>4, <1>5, <1>6, <1>7

\* What ran at the same time stays recorded.
LEMMA OverlapGrows ==
  ASSUME Next
  PROVE  overlap \subseteq overlap'
<1>1. ASSUME NEW k, Begin(k) PROVE overlap \subseteq overlap'
  BY <1>1 DEF Begin
<1>2. ASSUME NEW c \in Conns,
             \/ Accept(c) \/ AuthTimeout(c) \/ SwapHandlers(c) \/ JoinCheck(c)
             \/ JoinEncodeStart(c) \/ JoinSendStart(c) \/ JoinEncodeCells(c) \/ JoinSendCells(c)
             \/ Register(c)
      PROVE  overlap \subseteq overlap'
  BY <1>1, <1>2, Zenon DEF Accept, AuthTimeout, SwapHandlers, JoinCheck, JoinEncodeStart,
       JoinSendStart, JoinEncodeCells, JoinSendCells, Register, history
<1>3. ASSUME NEW c \in Conns,
             \/ ReadToken(c) \/ HandleStartGame(c) \/ HandleMove(c)
             \/ NoHandler(c) \/ Leave(c) \/ Deliver(c) \/ HandlersRace(c)
      PROVE  overlap \subseteq overlap'
  BY <1>1, <1>3 DEF ReadToken, HandleStartGame, HandleMove, NoHandler, Leave, Deliver,
                    HandlersRace, history
<1>4. ASSUME NEW c \in Conns,
             \/ AuthAnswer(c) \/ StartCreate(c) \/ StartRun(c) \/ MoveStop(c)
             \/ MoveBoard(c) \/ MoveMode(c) \/ MoveEncode(c) \/ BeginCast(c)
             \/ \E p \in players : SendTo(c, p)
      PROVE  overlap \subseteq overlap'
  BY <1>4, Zenon DEF AuthAnswer, StartCreate, StartRun, MoveStop, MoveBoard, MoveMode, MoveEncode,
              BeginCast, SendTo, history
<1>5. ASSUME MapRace PROVE overlap \subseteq overlap'
  BY <1>5 DEF MapRace, history
<1>6. QED
  BY <1>2, <1>3, <1>4, <1>5, StepIs, Zenon

LEMMA AloneBefore ==
  ASSUME Next, Alone'
  PROVE  Alone
  BY OverlapGrows DEF Alone

LEMMA NewcomersIf ==
  ASSUME Newcomers, NEW c,
         \A e \in Conns \ {c} :
           /\ joining'[e] = joining[e] /\ view'[e] = view[e] /\ out'[e] = out[e]
           /\ e \in players' => e \in players,
         \/ joining'[c].pc \notin {"off", "accepted"}
         \/ /\ joining[c].pc \in {"off", "accepted"}
            /\ UNCHANGED <<players, view, out>>
  PROVE  Newcomers'
  BY DEF Newcomers

LEMMA NewcomersNext ==
  ASSUME Recorded, Newcomers, Next
  PROVE  Newcomers'
<1> USE DEF Recorded, Typed
<1>0. /\ joining \in [Conns -> Joins] /\ out \in [Conns -> Seq(Msgs)]
      /\ view \in [Conns -> Views] /\ handler \in [Conns -> Handlers]
  BY DEF TypedJoins, TypedNet, TypedHandlers
<1>1. ASSUME NEW c \in Conns, NEW m, SendMessage(c, m)
      PROVE  \A e \in Conns \ {c} : out'[e] = out[e]
  BY <1>0, <1>1 DEF SendMessage
<1>2. ASSUME NEW c \in Conns, Drop(c)
      PROVE  \A e \in Conns \ {c} : out'[e] = out[e] /\ view'[e] = view[e]
  BY <1>0, <1>2 DEF Drop
<1>3. ASSUME NEW c \in Conns, Accept(c)
      PROVE  Newcomers'
  <2>1. /\ \A d \in Conns \ {c} : joining'[d] = joining[d]
        /\ joining[c].pc = "off" /\ UNCHANGED <<players, out, view>>
    BY <1>0, <1>3 DEF Accept
  <2>2. QED
    BY <2>1, NewcomersIf
<1>4. ASSUME NEW c \in Conns,
             \/ Register(c) \/ AuthTimeout(c) \/ SwapHandlers(c) \/ JoinCheck(c)
             \/ JoinEncodeStart(c) \/ JoinSendStart(c) \/ JoinEncodeCells(c) \/ JoinSendCells(c)
      PROVE  Newcomers'
  <2>1. /\ \A d \in Conns \ {c} : joining'[d] = joining[d]
        /\ joining'[c].pc \notin {"off", "accepted"}
    BY <1>4, Ending
  <2>2. /\ UNCHANGED view
        /\ UNCHANGED out \/ \E m : SendMessage(c, m)
        /\ players' \in {players, players \cup {c}}
    BY <1>4 DEF AuthTimeout, SwapHandlers, JoinCheck, JoinEncodeStart, JoinSendStart,
         JoinEncodeCells, JoinSendCells, Register
  <2>3. \A e \in Conns \ {c} : view'[e] = view[e] /\ out'[e] = out[e]
    BY <1>1, <2>2
  <2>4. QED
    BY <2>1, <2>2, <2>3, NewcomersIf
<1>5. ASSUME NEW c \in Conns,
             ReadToken(c) \/ HandleStartGame(c) \/ HandleMove(c) \/ HandlersRace(c)
      PROVE  Newcomers'
  BY <1>5 DEF ReadToken, HandleStartGame, HandleMove, HandlersRace, Newcomers
<1>6. ASSUME NEW c \in Conns, NoHandler(c) \/ Leave(c)
      PROVE  Newcomers'
  <2>1. joining[c].pc \notin {"off", "accepted"} /\ Drop(c) /\ UNCHANGED <<players, joining>>
    BY <1>6 DEF NoHandler, Leave, Reads
  <2>2. QED
    BY <1>2, <2>1, NewcomersIf
<1>7. ASSUME NEW c \in Conns, Deliver(c)
      PROVE  Newcomers'
  <2>1. /\ out[c] # << >> /\ UNCHANGED <<players, joining>>
        /\ \A e \in Conns \ {c} : out'[e] = out[e] /\ view'[e] = view[e]
    BY <1>0, <1>7 DEF Deliver
  <2>2. joining'[c].pc \notin {"off", "accepted"}
    BY <2>1 DEF Newcomers
  <2>3. QED
    BY <2>1, <2>2, NewcomersIf
<1>8. ASSUME NEW c \in Conns, AuthAnswer(c)
      PROVE  Newcomers'
  <2>1. PICK p \in {"granted", "refused"} : joining' = [joining EXCEPT ![c] = [pc |-> p]]
    BY <1>8 DEF AuthAnswer
  <2>2. /\ \A d \in Conns \ {c} : joining'[d] = joining[d]
        /\ joining'[c].pc \notin {"off", "accepted"}
    BY <1>0, <2>1
  <2>3. UNCHANGED players /\ (Drop(c) \/ UNCHANGED <<out, view>>)
    BY <1>8 DEF AuthAnswer
  <2>4. QED
    BY <1>2, <2>2, <2>3, NewcomersIf
<1>9. ASSUME NEW c \in Conns,
             \/ StartCreate(c) \/ StartRun(c) \/ MoveStop(c)
             \/ MoveBoard(c) \/ MoveMode(c) \/ MoveEncode(c) \/ BeginCast(c)
      PROVE  Newcomers'
  <2>1. handler[c] # Idle
    BY <1>9, Handling DEF HandlerStep, Idle
  <2>2. joining[c].pc \notin {"off", "accepted"}
    BY <2>1 DEF ReaderLater
  <2>3. UNCHANGED <<players, joining>> /\ (Drop(c) \/ UNCHANGED <<out, view>>)
    BY <1>9, Zenon DEF StartCreate, StartRun, MoveStop, MoveBoard, MoveMode, MoveEncode, BeginCast
  <2>4. QED
    BY <1>2, <2>2, <2>3, NewcomersIf
<1>10. ASSUME NEW c \in Conns, NEW p \in players, SendTo(c, p)
       PROVE  Newcomers'
  <2>1. p \in Conns /\ UNCHANGED <<players, joining, view>> /\ \E m : SendMessage(p, m)
    BY <1>10 DEF SendTo, TypedNet
  <2>2. joining[p].pc \notin {"off", "accepted"}
    BY <2>1 DEF Newcomers
  <2>3. QED
    BY <1>1, <2>1, <2>2, NewcomersIf
<1>11. ASSUME MapRace PROVE Newcomers'
  BY <1>11 DEF MapRace, Newcomers
<1>12. QED
  BY <1>3, <1>4, <1>5, <1>6, <1>7, <1>8, <1>9, <1>10, <1>11, StepIs, Zenon

LEMMA PhaseKept ==
  ASSUME NEW e, Phase(e), UNCHANGED <<games, game, gameRunning>>,
         handler'[e] = handler[e] \/ handler'[e].pc \notin {"want", "mode", "encode"},
         \/ joining'[e] = joining[e]
         \/ joining'[e].pc \notin {"start", "sendStart", "cells", "sendCells"}
  PROVE  Phase(e)'
  BY DEF Phase

LEMMA PhaseNone ==
  ASSUME NEW e, handler'[e].pc \notin {"want", "mode", "encode"},
         joining'[e].pc \notin {"start", "sendStart", "cells", "sendCells"}
  PROVE  Phase(e)'
  BY DEF Phase

\* What a handler does while no other one, and no join, does anything.
LEMMA PhaseBy ==
  ASSUME Recorded, Alone, NEW c \in Conns, HandlerStep(c), Phase(c)', NEW e \in Conns
  PROVE  Phase(e)'
<1>1. /\ Working(c) /\ UNCHANGED joining
      /\ \A d \in Conns \ {c} : handler'[d] = handler[d]
  BY DEF HandlerStep, Working, Stuck, Idle
<1>2. CASE e = c
  BY <1>2
<1>3. CASE e # c
  <2>1. ~Working(e) /\ ~Entering(e)
    BY <1>1, <1>3, AloneIs
  <2>2. handler[e].pc \notin {"want", "mode", "encode"}
    BY <2>1, AloneIs DEF Busy
  <2>3. joining[e].pc \notin {"start", "sendStart", "cells", "sendCells"}
    BY <2>1 DEF Entering, JoinDone
  <2>4. QED
    BY <1>1, <1>3, <2>2, <2>3, PhaseNone
<1>4. QED
  BY <1>2, <1>3

LEMMA PhaseJoins ==
  ASSUME Recorded, Alone, \A e \in Conns : Phase(e), NEW c \in Conns,
         \/ Accept(c) \/ AuthTimeout(c) \/ SwapHandlers(c) \/ JoinCheck(c)
         \/ JoinEncodeStart(c) \/ JoinSendStart(c) \/ JoinEncodeCells(c) \/ JoinSendCells(c)
         \/ Register(c),
         NEW e \in Conns
  PROVE  Phase(e)'
<1> USE DEF Recorded, Typed
<1>0. joining \in [Conns -> Joins]
  BY DEF TypedJoins
<1>1. CASE Register(c)
  <2>1. PICK seen \in SUBSET {d \in Conns : handler[d].pc = "cast"} :
          handler' = [d \in Conns |-> IF d \in seen THEN [handler[d] EXCEPT !.left = @ \cup {c}]
                                                    ELSE handler[d]]
    BY <1>1 DEF Register
  <2>2. handler'[e].pc = handler[e].pc
    BY <1>1, Ending
  <2>3. handler'[e] = handler[e] \/ handler'[e].pc \notin {"want", "mode", "encode"}
    BY <2>1, <2>2
  <2>4. /\ UNCHANGED <<games, game, gameRunning>>
        /\ \/ joining'[e] = joining[e]
           \/ joining'[e].pc \notin {"start", "sendStart", "cells", "sendCells"}
    BY <1>0, <1>1 DEF Register, server
  <2>5. QED
    BY <2>3, <2>4, PhaseKept
<1>2. CASE \/ Accept(c) \/ AuthTimeout(c) \/ SwapHandlers(c) \/ JoinSendCells(c)
           \/ (JoinCheck(c) /\ ~gameRunning)
  <2>1. /\ UNCHANGED <<games, game, gameRunning, handler>>
        /\ \/ joining'[e] = joining[e]
           \/ joining'[e].pc \notin {"start", "sendStart", "cells", "sendCells"}
    BY <1>0, <1>2 DEF Accept, AuthTimeout, SwapHandlers, JoinSendCells, JoinCheck, server
  <2>2. QED
    BY <2>1, PhaseKept
<1>3. CASE \/ (JoinCheck(c) /\ gameRunning)
           \/ JoinEncodeStart(c) \/ JoinSendStart(c) \/ JoinEncodeCells(c)
  <2>1. UNCHANGED <<games, game, gameRunning, handler>>
    BY <1>3 DEF JoinCheck, JoinEncodeStart, JoinSendStart, JoinEncodeCells, server
  <2>2. gameRunning
    BY <1>3 DEF JoinCheck, JoinEncodeStart, JoinSendStart, JoinEncodeCells, Phase
  <2>3. CASE e # c
    <3>1. joining'[e] = joining[e]
      BY <1>0, <1>3, <2>3 DEF JoinCheck, JoinEncodeStart, JoinSendStart, JoinEncodeCells
    <3>2. QED
      BY <2>1, <3>1, PhaseKept
  <2>4. CASE e = c
    <3>1. /\ joining'[e].pc = "sendStart" => joining'[e].msg = StartMsg(games[game].params)
          /\ joining'[e].pc = "sendCells" =>
               joining'[e].msg = CellsMsg(GetChangedCellUpdates(games[game].board))
      BY <1>0, <1>3, <2>4 DEF JoinCheck, JoinEncodeStart, JoinSendStart, JoinEncodeCells
    <3>2. Phase(e)
      OBVIOUS
    <3>3. QED
      BY <2>1, <2>2, <3>1, <3>2 DEF Phase
  <2>5. QED
    BY <2>3, <2>4
<1>4. QED
  BY <1>1, <1>2, <1>3

LEMMA PhaseRequests ==
  ASSUME Recorded, \A e \in Conns : Phase(e), NEW c \in Conns,
         ReadToken(c) \/ HandleStartGame(c) \/ HandleMove(c),
         NEW e \in Conns
  PROVE  Phase(e)'
<1>0. handler \in [Conns -> Handlers]
  BY DEF Recorded, Typed, TypedHandlers
<1>1. UNCHANGED <<games, game, gameRunning, joining>>
  BY DEF ReadToken, HandleStartGame, HandleMove, server
<1>2. \A d \in Conns \ {c} : handler'[d] = handler[d]
  BY Requesting DEF RequestStep, Recorded
<1>3. CASE e # c
  BY <1>1, <1>2, <1>3, PhaseKept
<1>4. CASE e = c /\ ReadToken(c)
  <2>1. PICK s : Goto(c, [kind |-> "token", pc |-> "answer", success |-> s])
    BY <1>4 DEF ReadToken
  <2>2. PICK k : k = [kind |-> "token", pc |-> "answer", success |-> s]
    OBVIOUS
  <2>3. k.pc = "answer" /\ Idle.pc = "idle"
    BY <2>2 DEF Idle
  <2>4. handler'[c].pc \notin {"want", "mode", "encode"}
    BY <1>0, <2>1, <2>2, <2>3, GotoIs
  <2>5. QED
    BY <1>1, <1>4, <2>4, PhaseKept
<1>5. CASE e = c /\ HandleStartGame(c)
  <2>1. PICK m, p : Goto(c, Casting("start", m, "create", p))
    BY <1>5 DEF HandleStartGame
  <2>2. PICK k : k = Casting("start", m, "create", p)
    OBVIOUS
  <2>3. k.pc = "next" /\ Idle.pc = "idle"
    BY <2>2 DEF Idle, Casting
  <2>4. handler'[c].pc \notin {"want", "mode", "encode"}
    BY <1>0, <2>1, <2>2, <2>3, GotoIs
  <2>5. QED
    BY <1>1, <1>5, <2>4, PhaseKept
<1>6. CASE e = c /\ HandleMove(c)
  <2>1. gameRunning
    BY <1>6 DEF HandleMove, MayMove
  <2>2. CASE UNCHANGED handler
    BY <1>1, <2>2, PhaseKept
  <2>3. CASE ~UNCHANGED handler
    <3>1. PICK type, cell :
            Goto(c, [kind |-> "move", pc |-> "want", type |-> type, cell |-> cell])
      BY <1>6, <2>3 DEF HandleMove
    <3>2. PICK k : k = [kind |-> "move", pc |-> "want", type |-> type, cell |-> cell]
      OBVIOUS
    <3>3. k.pc = "want" /\ Idle.pc = "idle"
      BY <3>2 DEF Idle
    <3>4. handler'[c].pc \notin {"mode", "encode"}
      BY <1>0, <3>1, <3>2, <3>3, GotoIs
    <3>5. Phase(c)
      OBVIOUS
    <3>6. QED
      BY <1>1, <1>6, <2>1, <3>4, <3>5 DEF Phase
  <2>4. QED
    BY <2>2, <2>3
<1>7. QED
  BY <1>3, <1>4, <1>5, <1>6

-----------------------------------------------------------------------------
(***************************************************************************)
(* What each step leaves every connection to be told.                      *)
(***************************************************************************)
LEMMA GotoCast ==
  ASSUME handler \in [Conns -> Handlers], NEW c \in Conns, NEW k \in Casts, Goto(c, k)
  PROVE  /\ handler'[c] = Settle(k) /\ handler'[c].pc \notin {"want", "mode", "encode"}
         /\ \A d \in Conns \ {c} : handler'[d] = handler[d]
<1>1. k.pc \in {"next", "cast"} /\ Idle.pc = "idle"
  BY DEF Casts, Idle
<1>2. QED
  BY <1>1, GotoIs

\* A handler goes on with a broadcast.
LEMMA TellCast ==
  ASSUME handler \in [Conns -> Handlers], Told, NEW c \in Conns, Only(c),
         NEW k \in Casts, Goto(c, k),
         \A d \in Conns : Hears(d)' =>
           /\ Hears(d)
           /\ Story(c, d) =>
                Tale(k, c, d, view'[d], out'[d], Now', Live', games'[game'], joining'[d].pc)
  PROVE  Told'
<1>1. handler'[c] = Settle(k) /\ \A d \in Conns \ {c} : handler'[d] = handler[d]
  BY GotoCast
<1>2. Only(c)'
  BY <1>1 DEF Only
<1>3. ASSUME NEW d \in Conns, Hears(d)', Story(c, d) PROVE Story(c, d)'
  <2>1. PICK v, q, now, live, x, pc :
          /\ v = view'[d] /\ q = out'[d] /\ now = Now' /\ live = Live' /\ x = games'[game']
          /\ pc = joining'[d].pc
    OBVIOUS
  <2>2. Tale(k, c, d, v, q, now, live, x, pc)
    BY <1>3, <2>1
  <2>3. Tale(Settle(k), c, d, v, q, now, live, x, pc)
    BY <2>2, SettleTale
  <2>4. QED
    BY <1>1, <2>1, <2>3 DEF Story
<1>4. \A d \in Conns : Hears(d)' => Hears(d) /\ (Story(c, d) => Story(c, d)')
  BY <1>3
<1>5. QED
  BY <1>2, <1>4, Telling

\* A broadcast, as far as it got.
LEMMA CastTale ==
  ASSUME NEW h \in Casts, NEW c, NEW d, NEW v, NEW q, NEW now, NEW live, NEW x, NEW pc
  PROVE  LET y == [board |-> x.board, params |-> x.params, marks |-> x.marks]
             st == IF h.then = "return" THEN now
                   ELSE IF h.then = "stop" THEN "over"
                   ELSE IF h.then = "run" THEN live
                   ELSE IF now = "over" THEN "over" ELSE "misled"
             msgs == IF h.pc = "next" \/ d \in h.left THEN h.msgs ELSE Tail(h.msgs)
         IN  Tale(h, c, d, v, q, now, live, x, pc) <=> Pledge(v, q \o msgs, st, y, pc)
<1> DEFINE y == [board |-> x.board, params |-> x.params, marks |-> x.marks]
           st == IF h.then = "return" THEN now
                 ELSE IF h.then = "stop" THEN "over"
                 ELSE IF h.then = "run" THEN live
                 ELSE IF now = "over" THEN "over" ELSE "misled"
           msgs == IF h.pc = "next" \/ d \in h.left THEN h.msgs ELSE Tail(h.msgs)
<1>1. h.pc \in {"next", "cast"}
  BY DEF Casts
<1>2. Becomes(h, now, live) = st
  BY <1>1 DEF Becomes
<1>3. \A z : Owed(h, d, z) = msgs
  BY <1>1 DEF Owed
<1>4. Outcome(h, c, x) = y
  BY <1>1 DEF Outcome
<1> HIDE DEF y, st, msgs
<1>5. Tale(h, c, d, v, q, now, live, x, pc) <=> Pledge(v, q \o msgs, st, y, pc)
  BY <1>2, <1>3, <1>4, Zenon DEF Tale
<1>6. QED
  BY <1>5 DEF y, st, msgs

\* The three ways in which a message for p is sent.
LEMMA SendIs ==
  ASSUME out \in [Conns -> Seq(Msgs)], NEW p \in Conns, NEW m, SendMessage(p, m),
         UNCHANGED connected
  PROVE  /\ \A d \in Conns \ {p} : out'[d] = out[d]
         /\ connected'[p] /\ p \notin lost' => out'[p] = Append(out[p], m)
         /\ lost \subseteq lost'
<1>1. CASE connected[p] /\ ~Full(p)
  BY <1>1 DEF SendMessage
<1>2. CASE connected[p] /\ Full(p)
  BY <1>2 DEF SendMessage
<1>3. CASE ~connected[p]
  BY <1>3 DEF SendMessage
<1>4. QED
  BY <1>1, <1>2, <1>3

LEMMA BeginCastTold ==
  ASSUME Recorded, Alone, Told, NEW c \in Conns, BeginCast(c)
  PROVE  Told' /\ Phase(c)'
<1> USE DEF Recorded, Typed
<1>0. handler \in [Conns -> Handlers] /\ players \in SUBSET Conns
  BY DEF TypedHandlers, TypedNet
<1>1. PICK h \in Casts : h = handler[c]
  BY CastFields DEF BeginCast
<1>2. /\ h.pc = "next" /\ Goto(c, [h EXCEPT !.pc = "cast", !.left = players])
      /\ UNCHANGED <<games, game, gameRunning, players, connected, joining, out, view, lost,
                     misled>>
  BY <1>1 DEF BeginCast, server, history, ReceiversOf
<1>3. PICK k : k = [kind |-> h.kind, pc |-> "cast", msgs |-> h.msgs, left |-> players,
                    then |-> h.then, arg |-> h.arg]
  OBVIOUS
<1>4. Goto(c, k)
  BY <1>0, <1>2, <1>3, CastSteps
<1>5. /\ k \in Casts /\ k.pc = "cast" /\ k.left = players /\ k.msgs = h.msgs
      /\ k.then = h.then
  BY <1>0, <1>3 DEF Casts
<1>6. Working(c) /\ Only(c) /\ ~Entering(c)
  BY <1>1, <1>2, AloneIs DEF Busy
<1>7. Now' = Now /\ Live' = Live /\ games'[game'] = games[game]
  BY <1>2 DEF Now, Live
<1>8. ASSUME NEW d \in Conns, Hears(d)'
      PROVE  /\ Hears(d)
             /\ Story(c, d) =>
                  Tale(k, c, d, view'[d], out'[d], Now', Live', games'[game'], joining'[d].pc)
  <2>1. Hears(d) /\ d \in players
    BY <1>2, <1>8 DEF Hears
  <2>2. PICK v, q, now, live, x, pc :
          /\ v = view[d] /\ q = out[d] /\ now = Now /\ live = Live /\ x = games[game]
          /\ pc = joining[d].pc
    OBVIOUS
  <2>3. Tale(h, c, d, v, q, now, live, x, pc) => Tale(k, c, d, v, q, now, live, x, pc)
    BY <1>2, <1>5, <2>1, CastTale
  <2>4. QED
    BY <1>1, <1>2, <1>7, <2>1, <2>2, <2>3 DEF Story
<1>9. Told'
  BY <1>0, <1>4, <1>5, <1>6, <1>8, TellCast
<1>10. Phase(c)'
  BY <1>0, <1>2, <1>4, <1>5, <1>6, GotoCast, PhaseNone DEF Entering, JoinDone
<1>11. QED
  BY <1>9, <1>10

LEMMA SendToTold ==
  ASSUME Recorded, Alone, Told, NEW c \in Conns, NEW p \in Conns, SendTo(c, p)
  PROVE  Told' /\ Phase(c)'
<1> USE DEF Recorded, Typed
<1>0. /\ handler \in [Conns -> Handlers] /\ players \in SUBSET Conns
      /\ out \in [Conns -> Seq(Msgs)]
  BY DEF TypedHandlers, TypedNet
<1>1. PICK h \in Casts : h = handler[c] /\ HandlerOK(h)
  BY CastFields DEF SendTo
<1>2. /\ h.pc = "cast" /\ p \in h.left /\ SendMessage(p, Head(h.msgs))
      /\ Goto(c, IF h.left = {p} THEN Casting(h.kind, Tail(h.msgs), h.then, h.arg)
                                 ELSE [h EXCEPT !.left = @ \ {p}])
      /\ UNCHANGED <<games, game, gameRunning, players, connected, joining, view, misled>>
  BY <1>1 DEF SendTo, server
<1>3. /\ h.kind \in {"start", "move"} /\ h.msgs \in Seq(Msgs) /\ h.left \in SUBSET Conns
      /\ h.then \in {"create", "run", "return", "stop"} /\ h.arg \in Params \cup Nat
      /\ h.msgs # << >>
  BY <1>1, <1>2 DEF Casts, HandlerOK
<1>4. Head(h.msgs) \in Msgs /\ Tail(h.msgs) \in Seq(Msgs)
  BY <1>3, HeadTailProperties
<1>5. PICK k \in Casts :
        /\ Goto(c, k) /\ k.then = h.then
        /\ \A d \in Conns :
             (IF k.pc = "next" \/ d \in k.left THEN k.msgs ELSE Tail(k.msgs))
               = IF d = p THEN Tail(h.msgs)
                 ELSE IF d \in h.left THEN h.msgs ELSE Tail(h.msgs)
  <2>1. CASE h.left = {p}
    <3>1. PICK m \in Seq(Msgs) : m = Tail(h.msgs)
      BY <1>4
    <3>2. PICK k : k = Casting(h.kind, m, h.then, h.arg)
      OBVIOUS
    <3>3. /\ k \in Casts /\ k.pc = "next" /\ k.then = h.then /\ k.msgs = Tail(h.msgs)
      <4>1. PICK kind \in {"start", "move"}, then \in {"create", "run", "return", "stop"},
                 arg \in Params \cup Nat :
              kind = h.kind /\ then = h.then /\ arg = h.arg
        BY <1>3
      <4>2. k = Casting(kind, m, then, arg)
        BY <3>2, <4>1
      <4>3. k \in Casts /\ k.pc = "next" /\ k.then = then /\ k.msgs = m
        BY <4>2, CastingIs
      <4>4. QED
        BY <3>1, <4>1, <4>3
    <3>4. Goto(c, k)
      BY <1>2, <2>1, <3>1, <3>2
    <3>5. QED
      BY <2>1, <3>3, <3>4
  <2>2. CASE h.left # {p}
    <3>1. PICK S \in SUBSET Conns : S = h.left \ {p}
      BY <1>3
    <3>2. PICK k : k = [kind |-> h.kind, pc |-> h.pc, msgs |-> h.msgs, left |-> S,
                        then |-> h.then, arg |-> h.arg]
      OBVIOUS
    <3>3. [h EXCEPT !.left = @ \ {p}] = k
      BY <1>1, <3>1, <3>2, CastSteps
    <3>4. /\ k \in Casts /\ k.pc = "cast" /\ k.msgs = h.msgs /\ k.left = S /\ k.then = h.then
      BY <1>2, <1>3, <3>2 DEF Casts
    <3>5. Goto(c, k)
      BY <1>2, <2>2, <3>3
    <3>6. QED
      BY <3>1, <3>4, <3>5
  <2>3. QED
    BY <2>1, <2>2
<1>6. Working(c) /\ Only(c) /\ ~Entering(c)
  BY <1>1, <1>2, AloneIs DEF Busy
<1>7. Now' = Now /\ Live' = Live /\ games'[game'] = games[game]
  BY <1>2 DEF Now, Live
<1>8. /\ \A d \in Conns \ {p} : out'[d] = out[d]
      /\ connected'[p] /\ p \notin lost' => out'[p] = Append(out[p], Head(h.msgs))
      /\ lost \subseteq lost'
  BY <1>0, <1>2, SendIs
<1>9. ASSUME NEW d \in Conns, Hears(d)'
      PROVE  /\ Hears(d)
             /\ Story(c, d) =>
                  Tale(k, c, d, view'[d], out'[d], Now', Live', games'[game'], joining'[d].pc)
  <2>1. Hears(d)
    BY <1>2, <1>8, <1>9 DEF Hears
  <2>2. PICK v, q, q2, now, live, x, pc :
          /\ v = view[d] /\ q = out[d] /\ q2 = out'[d] /\ now = Now /\ live = Live
          /\ x = games[game] /\ pc = joining[d].pc
    OBVIOUS
  <2>3. PICK old, new :
          /\ old = IF h.pc = "next" \/ d \in h.left THEN h.msgs ELSE Tail(h.msgs)
          /\ new = IF k.pc = "next" \/ d \in k.left THEN k.msgs ELSE Tail(k.msgs)
    OBVIOUS
  <2>4. q \o old = q2 \o new
    <3>1. CASE d = p
      <4>1. old = h.msgs /\ new = Tail(h.msgs)
        BY <1>2, <1>5, <2>3, <3>1
      <4>2. q2 = Append(q, Head(h.msgs))
        BY <1>8, <1>9, <2>2, <3>1 DEF Hears
      <4>3. q \in Seq(Msgs)
        BY <1>0, <2>2
      <4>4. QED
        BY <1>3, <4>1, <4>2, <4>3, SentIs
    <3>2. CASE d # p
      <4>1. new = IF d \in h.left THEN h.msgs ELSE Tail(h.msgs)
        BY <1>5, <2>3, <3>2
      <4>2. old = new /\ q2 = q
        BY <1>2, <1>8, <2>2, <2>3, <3>2, <4>1
      <4>3. QED
        BY <4>2
    <3>3. QED
      BY <3>1, <3>2
  <2>5. PICK y, st :
          /\ y = [board |-> x.board, params |-> x.params, marks |-> x.marks]
          /\ st = IF h.then = "return" THEN now
                  ELSE IF h.then = "stop" THEN "over"
                  ELSE IF h.then = "run" THEN live
                  ELSE IF now = "over" THEN "over" ELSE "misled"
    OBVIOUS
  <2>6. Tale(h, c, d, v, q, now, live, x, pc) <=> Pledge(v, q \o old, st, y, pc)
    BY <2>3, <2>5, CastTale
  <2>7. Tale(k, c, d, v, q2, now, live, x, pc) <=> Pledge(v, q2 \o new, st, y, pc)
    BY <1>5, <2>3, <2>5, CastTale
  <2>8. QED
    BY <1>1, <1>2, <1>7, <2>1, <2>2, <2>4, <2>6, <2>7 DEF Story
<1>10. Told'
  BY <1>0, <1>5, <1>6, <1>9, TellCast
<1>11. Phase(c)'
  BY <1>0, <1>2, <1>5, <1>6, GotoCast, PhaseNone DEF Entering, JoinDone
<1>12. QED
  BY <1>10, <1>11

\* One message more, sent or yet to be sent.
LEMMA PledgeOne ==
  ASSUME NEW v0 \in Views, NEW q \in Seq(Msgs), NEW m \in Msgs,
         NEW st, NEW x, NEW pc, NEW st2, NEW x2, NEW pc2, Pledge(v0, q \o << >>, st, x, pc),
         \A w \in Views : Expected(w, st, x, pc) => Expected(Handled(w, m), st2, x2, pc2)
  PROVE  /\ Pledge(v0, q \o <<m>>, st2, x2, pc2)
         /\ Pledge(v0, Append(q, m) \o << >>, st2, x2, pc2)
<1>1. PICK w : Leads(v0, q \o << >>, w) /\ Expected(w, st, x, pc)
  BY DEF Pledge
<1>2. /\ q \o << >> = q /\ Append(q, m) \in Seq(Msgs) /\ Append(q, m) = q \o <<m>>
  BY ConcatEmptySeq, AppendProperties, AppendIsConcat
<1>3. Append(q, m) \o << >> = Append(q, m)
  BY <1>2, ConcatEmptySeq
<1>4. Leads(v0, q, w)
  BY <1>1, <1>2
<1>5. w \in Views /\ Leads(v0, Append(q, m), Handled(w, m))
  BY <1>4, LeadsFurther
<1>6. Expected(Handled(w, m), st2, x2, pc2)
  BY <1>1, <1>5
<1>7. Pledge(v0, Append(q, m), st2, x2, pc2)
  BY <1>5, <1>6 DEF Pledge
<1>8. QED
  BY <1>2, <1>3, <1>7

\* A handler ends.
LEMMA TellIdle ==
  ASSUME handler \in [Conns -> Handlers], Told, NEW c \in Conns, Only(c), Goto(c, Idle),
         \A d \in Conns : Hears(d)' =>
           /\ Hears(d)
           /\ Story(c, d) =>
                Pledge(view'[d], out'[d] \o << >>, Now',
                       [board |-> games'[game'].board, params |-> games'[game'].params,
                        marks |-> games'[game'].marks], joining'[d].pc)
  PROVE  Told'
<1>1. Settle(Idle) = Idle /\ ~Busy(Idle)
  BY DEF Settle, Finished, Idle, Busy
<1>2. handler'[c] = Idle /\ \A d \in Conns \ {c} : handler'[d] = handler[d]
  BY <1>1, GotoIs
<1>3. Only(c)'
  BY <1>2 DEF Only
<1>4. ASSUME NEW d \in Conns, Hears(d)', Story(c, d) PROVE Story(c, d)'
  <2>1. PICK v, q, now, live, x, pc :
          /\ v = view'[d] /\ q = out'[d] /\ now = Now' /\ live = Live' /\ x = games'[game']
          /\ pc = joining'[d].pc
    OBVIOUS
  <2>2. Pledge(v, q \o << >>, now,
               [board |-> x.board, params |-> x.params, marks |-> x.marks], pc)
    BY <1>4, <2>1
  <2>3. Tale(Idle, c, d, v, q, now, live, x, pc)
    BY <1>1, <2>2, IdleTale, Zenon
  <2>4. QED
    BY <1>2, <2>1, <2>3 DEF Story
<1>5. \A d \in Conns : Hears(d)' => Hears(d) /\ (Story(c, d) => Story(c, d)')
  BY <1>4
<1>6. QED
  BY <1>3, <1>5, Telling

LEMMA LiveIs ==
  /\ Live \in {"on", "misled"} /\ (Now = "over" <=> ~gameRunning)
  /\ gameRunning => Now = Live
  BY DEF Live, Now

\* The last step of a handler says whether a game runs.
LEMMA RunStopTold ==
  ASSUME Recorded, Alone, Told, NEW c \in Conns, StartRun(c) \/ MoveStop(c)
  PROVE  Told' /\ Phase(c)'
<1> USE DEF Recorded, Typed
<1>0. handler \in [Conns -> Handlers]
  BY DEF TypedHandlers
<1>1. PICK h \in Casts : h = handler[c]
  BY CastFields DEF StartRun, MoveStop
<1>2. /\ h.pc = "next" /\ h.msgs = << >> /\ Goto(c, Idle)
      /\ UNCHANGED <<games, game, players, connected, joining, out, view, lost, misled>>
      /\ \/ h.then = "run" /\ gameRunning' = TRUE
         \/ h.then = "stop" /\ gameRunning' = FALSE
  BY <1>1 DEF StartRun, MoveStop, Stop, history
<1>3. Working(c) /\ Only(c) /\ ~Entering(c)
  BY <1>1, <1>2, AloneIs DEF Busy
<1>4. Now' = IF h.then = "run" THEN Live ELSE "over"
  BY <1>2 DEF Now, Live
<1>5. ASSUME NEW d \in Conns, Hears(d)'
      PROVE  /\ Hears(d)
             /\ Story(c, d) =>
                  Pledge(view'[d], out'[d] \o << >>, Now',
                         [board |-> games'[game'].board, params |-> games'[game'].params,
                          marks |-> games'[game'].marks], joining'[d].pc)
  <2>1. Hears(d)
    BY <1>2, <1>5 DEF Hears
  <2>2. PICK v, q, now, live, x, pc :
          /\ v = view[d] /\ q = out[d] /\ now = Now /\ live = Live /\ x = games[game]
          /\ pc = joining[d].pc
    OBVIOUS
  <2>3. PICK y : y = [board |-> x.board, params |-> x.params, marks |-> x.marks]
    OBVIOUS
  <2>4. PICK st : st = IF h.then = "run" THEN live ELSE "over"
    OBVIOUS
  <2>5. Tale(h, c, d, v, q, now, live, x, pc) <=> Pledge(v, q \o << >>, st, y, pc)
    BY <1>2, <2>3, <2>4, CastTale
  <2>6. Story(c, d) => Pledge(v, q \o << >>, st, y, pc)
    BY <1>1, <2>2, <2>5 DEF Story
  <2>7. /\ st = Now' /\ v = view'[d] /\ q = out'[d] /\ games'[game'] = x
        /\ joining'[d].pc = pc
    BY <1>2, <1>4, <2>2, <2>4
  <2>8. QED
    BY <2>1, <2>3, <2>6, <2>7
<1>6. Told'
  BY <1>0, <1>2, <1>3, <1>5, TellIdle
<1>7. handler'[c] = Idle
  BY <1>0, <1>2, GotoIs DEF Settle, Finished, Idle
<1>8. Phase(c)'
  BY <1>2, <1>3, <1>7, PhaseNone DEF Entering, JoinDone, Idle
<1>9. QED
  BY <1>6, <1>8

\* StartGame: the running game is called aborted.
LEMMA HandleStartGameTold ==
  ASSUME Recorded, Alone', Told, NEW c \in Conns, HandleStartGame(c)
  PROVE  Told'
<1> USE DEF Recorded, Typed
<1>0. /\ handler \in [Conns -> Handlers] /\ out \in [Conns -> Seq(Msgs)]
      /\ view \in [Conns -> Views]
  BY DEF TypedHandlers, TypedNet
<1>1. /\ UNCHANGED <<games, game, gameRunning, players, connected, joining, out, view, lost,
                     misled>>
      /\ handler[c] = Idle /\ Begin("start")
  BY DEF HandleStartGame, server, Reads
<1>2. \A d \in Conns : ~Working(d) /\ ~Entering(d)
  BY <1>1, BeginIs DEF Alone
<1>3. \A d \in Conns : ~Busy(handler[d])
  BY <1>2 DEF Busy, Working, Stuck, Idle
<1>4. Only(c)
  BY <1>3 DEF Only
<1>5. PICK p \in Params :
        Goto(c, Casting("start", IF gameRunning THEN <<EndMsg("Aborted")>> ELSE << >>,
                        "create", p))
  BY DEF HandleStartGame
<1>6. PICK a \in Msgs : a = EndMsg("Aborted")
  BY MsgsAre
<1>7. PICK m \in Seq(Msgs) : m = IF gameRunning THEN <<a>> ELSE << >>
  <2>1. <<a>> \in Seq(Msgs) /\ << >> \in Seq(Msgs)
    OBVIOUS
  <2>2. QED
    BY <2>1, Zenon
<1>8. PICK k : k = Casting("start", m, "create", p)
  OBVIOUS
<1>9. k \in Casts /\ k.pc = "next" /\ k.msgs = m /\ k.then = "create" /\ Goto(c, k)
  <2>1. k \in Casts /\ k.pc = "next" /\ k.msgs = m /\ k.then = "create"
    BY <1>8, CastingIs
  <2>2. QED
    BY <1>5, <1>6, <1>7, <1>8, <2>1
<1>10. Now' = Now /\ Live' = Live /\ games'[game'] = games[game]
  BY <1>1 DEF Now, Live
<1>11. ASSUME NEW d \in Conns, Hears(d)'
       PROVE  /\ Hears(d)
              /\ Story(c, d) =>
                   Tale(k, c, d, view'[d], out'[d], Now', Live', games'[game'], joining'[d].pc)
  <2>1. Hears(d)
    BY <1>1, <1>11 DEF Hears
  <2>2. PICK v \in Views, q \in Seq(Msgs) : v = view[d] /\ q = out[d]
    BY <1>0
  <2>2a. PICK now, live, x, pc :
         /\ now = Now /\ live = Live /\ x = games[game] /\ pc = joining[d].pc
    OBVIOUS
  <2>3. PICK y : y = [board |-> x.board, params |-> x.params, marks |-> x.marks]
    OBVIOUS
  <2>4. PICK st : st = IF now = "over" THEN "over" ELSE "misled"
    OBVIOUS
  <2>5. PICK h : h = handler[c] /\ ~Busy(h)
    BY <1>3
  <2>6. SUFFICES ASSUME Tale(h, c, d, v, q, now, live, x, pc)
                 PROVE  Tale(k, c, d, v, q, now, live, x, pc)
    BY <1>1, <1>10, <2>1, <2>2, <2>2a, <2>5 DEF Story
  <2>7. Pledge(v, q \o << >>, now, y, pc)
    BY <2>3, <2>5, <2>6, IdleTale
  <2>8. Pledge(v, q \o m, st, y, pc)
    <3>1. CASE gameRunning
      <4>1. now # "over" /\ st = "misled" /\ m = <<a>>
        BY <1>7, <2>2, <2>2a, <2>4, <3>1, LiveIs
      <4>2. pc \notin {"cells", "sendCells"}
        <5>1. joining[d].pc \in JoinDone
          BY <1>2 DEF Entering
        <5>2. QED
          BY <2>2a, <5>1 DEF JoinDone
      <4>3. \A w \in Views : Expected(w, now, y, pc) => Expected(Handled(w, a), "misled", y, pc)
        BY <1>6, <4>1, <4>2, AbortExpected
      <4>4. Pledge(v, q \o <<a>>, "misled", y, pc)
        BY <2>7, <4>3, PledgeOne
      <4>5. QED
        BY <4>1, <4>4
    <3>2. CASE ~gameRunning
      BY <1>7, <2>2, <2>2a, <2>4, <2>7, <3>2, LiveIs
    <3>3. QED
      BY <3>1, <3>2
  <2>9. Tale(k, c, d, v, q, now, live, x, pc) <=> Pledge(v, q \o m, st, y, pc)
    BY <1>9, <2>3, <2>4, CastTale
  <2>10. QED
    BY <2>8, <2>9
<1>12. QED
  BY <1>0, <1>4, <1>9, <1>11, TellCast

\* ... and the new one is announced, or the parameters are refused.
LEMMA StartCreateTold ==
  ASSUME Recorded, Alone, Told, NEW c \in Conns, StartCreate(c)
  PROVE  Told' /\ Phase(c)'
<1> USE DEF Recorded, Typed
<1>0. /\ handler \in [Conns -> Handlers] /\ out \in [Conns -> Seq(Msgs)]
      /\ view \in [Conns -> Views] /\ connected \in [Conns -> BOOLEAN]
      /\ games \in Seq(GameRecs)
  BY DEF TypedHandlers, TypedNet, TypedGames
<1>1. PICK h \in Casts : h = handler[c] /\ HandlerOK(h)
  BY CastFields DEF StartCreate
<1>2. /\ h.pc = "next" /\ h.msgs = << >> /\ h.then = "create"
      /\ UNCHANGED <<gameRunning, players, joining, lost>>
  BY <1>1 DEF StartCreate
<1>3. Working(c) /\ Only(c) /\ ~Entering(c)
  BY <1>1, <1>2, AloneIs DEF Busy
<1>4. h.arg \in Params
  BY <1>1, <1>2 DEF HandlerOK
<1>5. CASE ValidParams(h.arg)
  <2>1. PICK p \in GoodParams : p = h.arg
    BY <1>4, <1>5 DEF GoodParams
  <2>2. /\ \E b \in CreateBoard(p) :
             games' = Append(games, [board |-> b, params |-> p, marks |-> NoMarks(b),
                                     scores |-> [pid \in PlayerIds |-> 0]])
        /\ game' = Len(games) + 1
        /\ Goto(c, Casting("start", <<StartMsg(p)>>, "run", p))
        /\ UNCHANGED <<connected, out, view, misled>>
    BY <1>1, <1>5, <2>1 DEF StartCreate
  <2>3. PICK b \in CreateBoard(p) :
          games' = Append(games, [board |-> b, params |-> p, marks |-> NoMarks(b),
                                  scores |-> [pid \in PlayerIds |-> 0]])
    BY <2>2
  <2>4. PICK x : x = [board |-> b, params |-> p, marks |-> NoMarks(b),
                      scores |-> [pid \in PlayerIds |-> 0]]
    OBVIOUS
  <2>5. games'[game'] = x
    <3>1. x \in GameRecs
      <4>1. [pid \in PlayerIds |-> 0] \in [PlayerIds -> Int]
        OBVIOUS
      <4>2. QED
        BY <2>4, <4>1, CreateIs DEF GameRecs
    <3>2. QED
      BY <1>0, <2>2, <2>3, <2>4, <3>1, AppendProperties
  <2>6. PICK m \in Msgs : m = StartMsg(p)
    BY MsgsAre
  <2>7. PICK k : k = Casting("start", <<m>>, "run", p)
    OBVIOUS
  <2>8. k \in Casts /\ k.pc = "next" /\ k.msgs = <<m>> /\ k.then = "run" /\ Goto(c, k)
    <3>1. PICK s \in Seq(Msgs) : s = <<m>>
      <4>1. <<m>> \in Seq(Msgs)
        OBVIOUS
      <4>2. QED
        BY <4>1
    <3>2. p \in Params \cup Nat /\ k = Casting("start", s, "run", p)
      BY <2>7, <3>1 DEF GoodParams
    <3>3. k \in Casts /\ k.pc = "next" /\ k.msgs = s /\ k.then = "run"
      BY <3>2, CastingIs
    <3>4. QED
      BY <2>2, <2>6, <2>7, <3>1, <3>3
  <2>9. ASSUME NEW d \in Conns, Hears(d)'
        PROVE  /\ Hears(d)
               /\ Story(c, d) =>
                    Tale(k, c, d, view'[d], out'[d], Now', Live', games'[game'], joining'[d].pc)
    <3>1. Hears(d)
      BY <1>2, <2>2, <2>9 DEF Hears
    <3>2. PICK v \in Views, q \in Seq(Msgs) : v = view[d] /\ q = out[d]
      BY <1>0
    <3>2a. PICK now, live, x0, pc :
           /\ now = Now /\ live = Live /\ x0 = games[game] /\ pc = joining[d].pc
      OBVIOUS
    <3>3. PICK now2, live2 : now2 = Now' /\ live2 = Live'
      OBVIOUS
    <3>4. live2 # "over"
      BY <3>3 DEF Live
    <3>5. PICK y : y = [board |-> x.board, params |-> x.params, marks |-> x.marks]
      OBVIOUS
    <3>6. SUFFICES ASSUME Tale(h, c, d, v, q, now, live, x0, pc)
                   PROVE  Tale(k, c, d, v, q, now2, live2, x, pc)
      BY <1>1, <1>2, <2>2, <2>5, <3>1, <3>2, <3>2a, <3>3 DEF Story
    <3>7. PICK st, y0 : Pledge(v, q \o << >>, st, y0, pc)
      <4>1. PICK y0, st :
              /\ y0 = [board |-> x0.board, params |-> x0.params, marks |-> x0.marks]
              /\ st = IF now = "over" THEN "over" ELSE "misled"
        OBVIOUS
      <4>2. Tale(h, c, d, v, q, now, live, x0, pc) <=> Pledge(v, q \o << >>, st, y0, pc)
        BY <1>2, <4>1, CastTale
      <4>3. QED
        BY <3>6, <4>2
    <3>8. \A w : Expected(Handled(w, m), live2, y, pc)
      <4>1. /\ y.params = p /\ y.board = b /\ y.marks = NoMarks(b)
        BY <2>4, <3>5
      <4>2. /\ Sound(b) /\ b.width = p.width /\ b.height = p.height
            /\ b.revealed = {} /\ b.flagged = {}
        BY CreateIs DEF CreateBoard
      <4>3. QED
        BY <2>6, <3>4, <4>1, <4>2, StartExpected
    <3>9. Pledge(v, q \o <<m>>, live2, y, pc)
      BY <3>7, <3>8, PledgeOne
    <3>10. Tale(k, c, d, v, q, now2, live2, x, pc) <=> Pledge(v, q \o <<m>>, live2, y, pc)
      BY <2>8, <3>5, CastTale
    <3>11. QED
      BY <3>9, <3>10
  <2>10. Told'
    BY <1>0, <1>3, <2>8, <2>9, TellCast
  <2>11. Phase(c)'
    BY <1>0, <1>2, <1>3, <2>8, GotoCast, PhaseNone DEF Entering, JoinDone
  <2>12. QED
    BY <2>10, <2>11
<1>6. CASE ~ValidParams(h.arg)
  <2>1. /\ Goto(c, Idle) /\ Drop(c) /\ UNCHANGED <<games, game>>
        /\ misled' = IF gameRunning THEN misled \cup {game} ELSE misled
    BY <1>1, <1>6 DEF StartCreate
  <2>2. Now' = IF Now = "over" THEN "over" ELSE "misled"
    BY <1>2, <2>1 DEF Now, Live
  <2>3. ASSUME NEW d \in Conns, Hears(d)'
        PROVE  /\ Hears(d)
               /\ Story(c, d) =>
                    Pledge(view'[d], out'[d] \o << >>, Now',
                           [board |-> games'[game'].board, params |-> games'[game'].params,
                            marks |-> games'[game'].marks], joining'[d].pc)
    <3>1. d # c /\ view'[d] = view[d] /\ out'[d] = out[d] /\ connected'[d] = connected[d]
      BY <1>0, <2>1, <2>3 DEF Drop, Hears
    <3>2. Hears(d)
      BY <1>2, <2>3, <3>1 DEF Hears
    <3>3. PICK v, q, now, live, x, pc :
            /\ v = view[d] /\ q = out[d] /\ now = Now /\ live = Live /\ x = games[game]
            /\ pc = joining[d].pc
      OBVIOUS
    <3>4. PICK y : y = [board |-> x.board, params |-> x.params, marks |-> x.marks]
      OBVIOUS
    <3>5. PICK st : st = IF now = "over" THEN "over" ELSE "misled"
      OBVIOUS
    <3>6. Tale(h, c, d, v, q, now, live, x, pc) <=> Pledge(v, q \o << >>, st, y, pc)
      BY <1>2, <3>4, <3>5, CastTale
    <3>7. Story(c, d) => Pledge(v, q \o << >>, st, y, pc)
      BY <1>1, <3>3, <3>6 DEF Story
    <3>8. /\ st = Now' /\ v = view'[d] /\ q = out'[d] /\ games'[game'] = x
          /\ joining'[d].pc = pc
      BY <1>2, <2>1, <2>2, <3>1, <3>3, <3>5
    <3>9. QED
      BY <3>2, <3>4, <3>7, <3>8
  <2>4. Told'
    BY <1>0, <1>3, <2>1, <2>3, TellIdle
  <2>5. handler'[c] = Idle
    BY <1>0, <2>1, GotoIs DEF Settle, Finished, Idle
  <2>6. Phase(c)'
    BY <1>2, <1>3, <2>5, PhaseNone DEF Entering, JoinDone, Idle
  <2>7. QED
    BY <2>4, <2>6
<1>7. QED
  BY <1>5, <1>6

\* A move is made on the board of the game: from now on its messages are owed.
ModeOf(g, r) ==
  [kind |-> "move", pc |-> "mode", g |-> g, result |-> r.result, updated |-> r.updated]
MadeOf(x, r) ==
  [board |-> r.board, params |-> x.params, marks |-> x.marks, scores |-> x.scores]

LEMMA MadeTale ==
  ASSUME NEW x \in GameRecs, GameOK(x), NEW r, Follows(x.board, r.board, r.updated),
         NEW c \in Conns, NEW g, NEW h, ~Busy(h), NEW d,
         NEW v \in Views, NEW q \in Seq(Msgs), NEW now, now # "over",
         NEW pc, pc \notin {"cells", "sendCells"},
         Tale(h, c, d, v, q, now, now, x, pc)
  PROVE  Tale(ModeOf(g, r), c, d, v, q, now, now, MadeOf(x, r), pc)
<1>1. PICK k, y : k = ModeOf(g, r) /\ y = MadeOf(x, r)
  OBVIOUS
<1>1a. /\ k = [kind |-> "move", pc |-> "mode", g |-> g, result |-> r.result,
              updated |-> r.updated]
      /\ y = [board |-> r.board, params |-> x.params, marks |-> x.marks, scores |-> x.scores]
  BY <1>1 DEF ModeOf, MadeOf
<1>2. /\ r.board \in Boards
      /\ Cells(r.board) = Cells(x.board) /\ r.updated \subseteq Cells(x.board)
      /\ SameMines(x.board, r.board)
  BY BoardIs DEF Follows, SameMines, Cells
<1>3. y \in GameRecs /\ GameOK(y)
  BY <1>1a, <1>2 DEF GameRecs, GameOK, SameMines
<1>4. PICK w, z :
        /\ w = [board |-> x.board, params |-> x.params, marks |-> x.marks]
        /\ z = Outcome(k, c, y)
  OBVIOUS
<1>5. PICK marks : marks = NewMarks(x.marks, r.board, c, r.updated)
  OBVIOUS
<1>6. z = [board |-> r.board, params |-> x.params,
           marks |-> IF x.params.mode = "Coop" THEN marks ELSE x.marks]
  BY <1>1a, <1>4, <1>5 DEF Outcome
<1>7. marks \in [Cells(r.board) -> PlayerIds \cup {0}]
  <2>1. PICK up \in SUBSET Cells(y.board) : up = r.updated
    BY <1>1a, <1>2
  <2>2. NewMarks(y.marks, y.board, c, up) \in [Cells(y.board) -> PlayerIds \cup {0}]
    BY <1>3, ModeIs
  <2>3. QED
    BY <1>1a, <1>5, <2>1, <2>2
<1>8. x.marks \in [Cells(r.board) -> PlayerIds \cup {0}]
  BY <1>2 DEF GameOK
<1>9. \A e \in Cells(r.board) \ r.updated : marks[e] = x.marks[e]
  BY <1>5, <1>8 DEF NewMarks
<1>10. Played(w, z, r.updated)
  <2>1. w.board = x.board /\ w.params = x.params /\ w.marks = x.marks
    BY <1>4
  <2>2. z.board = r.board /\ z.params = x.params
    BY <1>6
  <2>3. z.marks = IF x.params.mode = "Coop" THEN marks ELSE x.marks
    BY <1>6
  <2>4. CASE x.params.mode = "Coop"
    <3>1. z.marks = marks
      BY <2>3, <2>4
    <3>2. QED
      BY <1>2, <1>7, <1>9, <2>1, <2>2, <2>4, <3>1 DEF Played
  <2>5. CASE x.params.mode # "Coop"
    <3>1. z.marks = x.marks
      BY <2>3, <2>5
    <3>2. QED
      BY <1>2, <1>8, <2>1, <2>2, <3>1 DEF Played
  <2>6. QED
    BY <2>4, <2>5
<1>11. Pledge(v, q, now, w, pc)
  <2>1. Pledge(v, q \o << >>, now, w, pc)
    BY <1>4, IdleTale
  <2>2. q \o << >> = q
    BY ConcatEmptySeq
  <2>3. QED
    BY <2>1, <2>2
<1>12. PICK m, st :
         /\ m = MoveMsgs(z, r.result, r.updated)
         /\ st = IF EndOf(r.result) = << >> THEN now ELSE "over"
  OBVIOUS
<1>13. Pledge(v, q \o m, st, z, pc)
  BY <1>10, <1>11, <1>12, MovePledge
<1>14. Becomes(k, now, now) = st /\ Owed(k, d, z) = m
  BY <1>1a, <1>12 DEF Becomes, Owed
<1>15. QED
  BY <1>1, <1>4, <1>13, <1>14, Zenon DEF Tale

\* The board's part of a move.
LEMMA MoveBoardTold ==
  ASSUME Recorded, Alone, Told, NEW c \in Conns, Phase(c), MoveBoard(c)
  PROVE  Told' /\ Phase(c)'
<1> USE DEF Recorded, Typed
<1>0. /\ handler \in [Conns -> Handlers] /\ out \in [Conns -> Seq(Msgs)]
      /\ view \in [Conns -> Views] /\ connected \in [Conns -> BOOLEAN]
  BY DEF TypedHandlers, TypedNet
<1>1. /\ handler[c].pc = "want" /\ gameRunning /\ ~Busy(handler[c])
      /\ UNCHANGED <<game, gameRunning, players, joining, lost, misled>>
  BY DEF MoveBoard, history, Phase, Busy
<1>2. Working(c) /\ Only(c) /\ ~Entering(c)
  BY <1>1, AloneIs
<1>3. joining'[c].pc \notin {"start", "sendStart", "cells", "sendCells"}
  BY <1>1, <1>2 DEF Entering, JoinDone
<1>4. PICK r : r = MakeMove(games[game].board, handler[c].type, handler[c].cell)
  OBVIOUS
<1>5. CASE r.result = "Error"
  <2>1. Goto(c, Idle) /\ Drop(c) /\ UNCHANGED games
    BY <1>4, <1>5 DEF MoveBoard
  <2>2. /\ handler'[c] = Idle /\ \A e \in Conns \ {c} : handler'[e] = handler[e]
    BY <1>0, <2>1, GotoIs DEF Settle, Finished, Idle
  <2>3. ~Busy(Idle) /\ Idle.pc = "idle"
    BY DEF Busy, Idle
  <2>4. ASSUME NEW d \in Conns, Hears(d)'
        PROVE  /\ Hears(d) /\ view'[d] = view[d] /\ out'[d] = out[d]
               /\ Freely(joining[d].pc, joining'[d].pc)
    <3>1. d # c /\ view'[d] = view[d] /\ out'[d] = out[d] /\ connected'[d] = connected[d]
      BY <1>0, <2>1, <2>4 DEF Drop, Hears
    <3>2. QED
      BY <1>1, <2>4, <3>1 DEF Hears, Freely
  <2>5. \A e \in Conns : \/ handler'[e] = handler[e]
                         \/ ~Busy(handler[e]) /\ ~Busy(handler'[e])
    BY <1>1, <2>2, <2>3
  <2>6. UNCHANGED <<games, game, gameRunning, misled>>
    BY <1>1, <2>1
  <2>7. Told'
    BY <2>4, <2>5, <2>6, Untold
  <2>8. Phase(c)'
    BY <1>3, <2>2, <2>3, PhaseNone
  <2>9. QED
    BY <2>7, <2>8
<1>6. CASE r.result # "Error"
  <2>1. handler'[c].pc # "idle"
    <3>1. PICK k : k = [kind |-> "move", pc |-> "mode", g |-> game,
                        result |-> r.result, updated |-> r.updated]
      OBVIOUS
    <3>2. Goto(c, k)
      BY <1>4, <1>6, <3>1 DEF MoveBoard
    <3>3. Settle(k) = k /\ k.pc = "mode"
      BY <3>1 DEF Settle, Finished
    <3>4. QED
      BY <1>0, <3>2, <3>3, GotoIs
  <2>2. PICK x, s :
          /\ x \in GameRecs
          /\ game \in DOMAIN games /\ x = games[game] /\ GameOK(x) /\ moveMux = 0
          /\ handler[c].pc = "want" /\ s = MakeMove(x.board, handler[c].type, handler[c].cell)
          /\ s.result # "Error" /\ s.board \in Boards /\ SameMines(x.board, s.board)
          /\ Cells(s.board) = Cells(x.board) /\ s.updated \subseteq Cells(x.board)
          /\ DOMAIN games' = DOMAIN games
          /\ \A g \in DOMAIN games \ {game} : games'[g] = games[g]
          /\ games'[game] = [board |-> s.board, params |-> x.params, marks |-> x.marks,
                             scores |-> x.scores]
          /\ handler'[c] = [kind |-> "move", pc |-> "mode", g |-> game,
                            result |-> s.result, updated |-> s.updated]
    BY <2>1, MoveBoardMakes, Zenon
  <2>3. PICK type, cell : type = handler[c].type /\ cell = handler[c].cell
    OBVIOUS
  <2>4. PICK y, k : y = games'[game'] /\ k = handler'[c]
    OBVIOUS
  <2>5. /\ k = [kind |-> "move", pc |-> "mode", g |-> game, result |-> s.result,
                updated |-> s.updated]
        /\ y = [board |-> s.board, params |-> x.params, marks |-> x.marks,
                scores |-> x.scores]
    BY <1>1, <2>2, <2>4
  <2>6. UNCHANGED <<connected, out, view>> /\ \A e \in Conns \ {c} : handler'[e] = handler[e]
    <3>1. \E j : Goto(c, j)
      BY DEF MoveBoard
    <3>2. QED
      BY <1>0, <1>4, <1>6, <3>1, GotoIs DEF MoveBoard
  <2>7. Only(c)'
    BY <1>2, <2>6 DEF Only
  <2>8. Now' = Now /\ Live' = Live /\ Now = Live /\ Now # "over"
    BY <1>1, LiveIs DEF Now, Live
  <2>9. ASSUME NEW d \in Conns, Hears(d)'
        PROVE  Hears(d) /\ (Story(c, d) => Story(c, d)')
    <3>1. Hears(d)
      BY <1>1, <2>6, <2>9 DEF Hears
    <3>2. PICK v \in Views, q \in Seq(Msgs) : v = view[d] /\ q = out[d]
      BY <1>0
    <3>3. PICK now, pc, h : now = Now /\ pc = joining[d].pc /\ h = handler[c]
      OBVIOUS
    <3>4. pc \notin {"cells", "sendCells"}
      <4>1. joining[d].pc \in JoinDone
        BY <1>2, AloneIs DEF Entering
      <4>2. QED
        BY <3>3, <4>1 DEF JoinDone
    <3>5. Story(c, d) <=> Tale(h, c, d, v, q, now, now, x, pc)
      BY <2>2, <2>8, <3>2, <3>3 DEF Story
    <3>6. Story(c, d)' <=> Tale(k, c, d, v, q, now, now, y, pc)
      BY <1>1, <2>4, <2>6, <2>8, <3>2, <3>3 DEF Story
    <3>7. ASSUME Tale(h, c, d, v, q, now, now, x, pc)
          PROVE  Tale(k, c, d, v, q, now, now, y, pc)
      <4>1. ~Busy(h) /\ now # "over" /\ s = MakeMove(x.board, type, cell)
        BY <1>1, <2>2, <2>3, <2>8, <3>3
      <4>2. x \in GameRecs /\ GameOK(x) /\ s.result # "Error"
        BY <2>2
      <4>3. Follows(x.board, s.board, s.updated)
        <5>1. Sound(x.board)
          BY <2>2 DEF GameRecs, Boards
        <5>2. QED
          BY <2>2, <4>1, <5>1, MoveFollows
      <4>4. PICK g : g = game
        OBVIOUS
      <4>5. k = ModeOf(g, s) /\ y = MadeOf(x, s)
        BY <2>5, <4>4 DEF ModeOf, MadeOf
      <4>6. Tale(ModeOf(g, s), c, d, v, q, now, now, MadeOf(x, s), pc)
        BY <3>4, <3>7, <4>1, <4>2, <4>3, MadeTale
      <4>7. QED
        BY <4>5, <4>6
    <3>8. QED
      BY <3>1, <3>5, <3>6, <3>7
  <2>10. Told'
    BY <1>2, <2>7, <2>9, Telling
  <2>11. Phase(c)'
    <3>1. handler'[c].pc = "mode" /\ handler'[c].g = game
      BY <2>2
    <3>2. QED
      BY <1>1, <1>3, <3>1 DEF Phase
  <2>12. QED
    BY <2>10, <2>11
<1>7. QED
  BY <1>5, <1>6

\* The mode's part of a move, which is told already.
LEMMA MoveModeTold ==
  ASSUME Recorded, Alone, Told, NEW c \in Conns, Phase(c), MoveMode(c)
  PROVE  Told' /\ Phase(c)'
<1> USE DEF Recorded, Typed
<1>0. handler \in [Conns -> Handlers]
  BY DEF TypedHandlers
<1>1. PICK h \in Modes, g \in DOMAIN games, x \in GameRecs :
        /\ h = handler[c] /\ h.pc = "mode" /\ g = h.g
        /\ x = games[g] /\ GameOK(x) /\ h.updated \subseteq Cells(x.board)
        /\ games' = IF x.params.mode = "Coop"
                    THEN [games EXCEPT ![g] =
                            [board |-> x.board, params |-> x.params,
                             marks |-> NewMarks(x.marks, x.board, c, h.updated),
                             scores |-> NewScores(x.scores, x.board, c, h.updated)]]
                    ELSE games
  BY MoveModeIs
<1>2. /\ UNCHANGED <<game, gameRunning, players, connected, joining, out, view, lost, misled>>
      /\ gameRunning /\ g = game
  BY <1>1 DEF MoveMode, history, Phase
<1>3. Working(c) /\ Only(c) /\ ~Entering(c)
  BY <1>1, AloneIs DEF Busy
<1>4. PICK marks : marks = NewMarks(x.marks, x.board, c, h.updated)
  OBVIOUS
<1>5. PICK info : info = IF x.params.mode = "Coop"
                         THEN <<InfoMsg([e \in h.updated |-> marks[e]])>> ELSE << >>
  OBVIOUS
<1>6. PICK k : k = [kind |-> "move", pc |-> "encode", g |-> g, result |-> h.result,
                    updated |-> h.updated, info |-> info]
  OBVIOUS
<1>7. Goto(c, k)
  BY <1>1, <1>4, <1>5, <1>6 DEF MoveMode
<1>8. handler'[c] = k /\ \A e \in Conns \ {c} : handler'[e] = handler[e]
  <2>1. Settle(k) = k
    BY <1>6 DEF Settle, Finished
  <2>2. QED
    BY <1>0, <1>7, <2>1, GotoIs
<1>9. Only(c)'
  BY <1>3, <1>8 DEF Only
<1>10. PICK y : y = games'[game']
  OBVIOUS
<1>11. /\ y.board = x.board /\ y.params = x.params
       /\ y.marks = IF x.params.mode = "Coop" THEN marks ELSE x.marks
  <2>1. CASE x.params.mode = "Coop"
    BY <1>1, <1>2, <1>4, <1>10, <2>1
  <2>2. CASE x.params.mode # "Coop"
    BY <1>1, <1>2, <1>10, <2>2
  <2>3. QED
    BY <2>1, <2>2
<1>12. Now' = Now /\ Live' = Live
  BY <1>2 DEF Now, Live
<1>13. Outcome(h, c, x) = Outcome(k, c, y)
  <2>1. PICK z : z = IF x.params.mode = "Coop" THEN marks ELSE x.marks
    OBVIOUS
  <2>2. Outcome(h, c, x) = [board |-> x.board, params |-> x.params, marks |-> z]
    BY <1>1, <1>4, <2>1 DEF Outcome
  <2>3. k.pc = "encode"
    BY <1>6
  <2>4. Outcome(k, c, y) = [board |-> y.board, params |-> y.params, marks |-> y.marks]
    BY <2>3 DEF Outcome
  <2>5. QED
    BY <1>11, <2>1, <2>2, <2>4
<1>14. /\ \A now, live : Becomes(h, now, live) = Becomes(k, now, live)
       /\ \A d, z : Owed(h, d, z) = Owed(k, d, z)
  <2>1. k.pc = "encode" /\ k.result = h.result /\ k.updated = h.updated
    BY <1>6
  <2>2. QED
    BY <1>1, <2>1 DEF Becomes, Owed
<1>15. ASSUME NEW d \in Conns, Hears(d)'
       PROVE  Hears(d) /\ (Story(c, d) => Story(c, d)')
  <2>1. Hears(d)
    BY <1>2, <1>15 DEF Hears
  <2>2. PICK v, q, now, live, pc :
          /\ v = view[d] /\ q = out[d] /\ now = Now /\ live = Live /\ pc = joining[d].pc
    OBVIOUS
  <2>3. Story(c, d) <=> Tale(h, c, d, v, q, now, live, x, pc)
    BY <1>1, <1>2, <2>2 DEF Story
  <2>4. Story(c, d)' <=> Tale(k, c, d, v, q, now, live, y, pc)
    BY <1>2, <1>8, <1>10, <1>12, <2>2 DEF Story
  <2>5. Tale(h, c, d, v, q, now, live, x, pc) => Tale(k, c, d, v, q, now, live, y, pc)
    BY <1>13, <1>14, Zenon DEF Tale
  <2>6. QED
    BY <2>1, <2>3, <2>4, <2>5
<1>16. Told'
  BY <1>3, <1>9, <1>15, Telling
<1>17. Phase(c)'
  <2>1. joining'[c].pc \notin {"start", "sendStart", "cells", "sendCells"}
    BY <1>2, <1>3 DEF Entering, JoinDone
  <2>2. k.pc = "encode" /\ k.g = g /\ k.updated = h.updated /\ k.info = info
    BY <1>6
  <2>3. info = InfoIn(y, h.updated)
    BY <1>5, <1>11 DEF InfoIn, MarksUp
  <2>4. QED
    BY <1>2, <1>8, <1>10, <2>1, <2>2, <2>3 DEF Phase
<1>18. QED
  BY <1>16, <1>17

\* The messages of a move are those that are owed.
LEMMA MoveEncodeTold ==
  ASSUME Recorded, Alone, Told, NEW c \in Conns, Phase(c), MoveEncode(c)
  PROVE  Told' /\ Phase(c)'
<1> USE DEF Recorded, Typed
<1>0. handler \in [Conns -> Handlers]
  BY DEF TypedHandlers
<1>1. PICK h \in Encodes : h = handler[c] /\ HandlerOK(h) /\ h.pc = "encode"
  BY HandlerFields DEF MoveEncode, TypedHandlers
<1>2. /\ UNCHANGED <<games, game, gameRunning, players, connected, joining, out, view, lost,
                     misled>>
      /\ gameRunning /\ h.g = game /\ h.info = InfoIn(games[game], h.updated)
  BY <1>1 DEF MoveEncode, server, Phase
<1>3. Working(c) /\ Only(c) /\ ~Entering(c)
  BY <1>1, AloneIs DEF Busy
<1>4. PICK x : x = games[game]
  OBVIOUS
<1>5. PICK m \in Seq(Msgs) : m = MoveMessages(h)
  BY <1>1, MoveMessagesAre
<1>6. m = MoveMsgs(x, h.result, h.updated)
  BY <1>2, <1>4, <1>5 DEF MoveMessages, MoveMsgs, CellsUp, EndIn
<1>7. PICK then \in {"stop", "return"} :
        then = IF EndOf(h.result) # << >> THEN "stop" ELSE "return"
  OBVIOUS
<1>8. PICK k : k = Casting("move", m, then, h.g)
  OBVIOUS
<1>9. k \in Casts /\ k.pc = "next" /\ k.msgs = m /\ k.then = then /\ Goto(c, k)
  <2>1. PICK g \in Params \cup Nat : g = h.g
    BY DEF Encodes
  <2>2. k = Casting("move", m, then, g)
    BY <1>8, <2>1
  <2>3. k \in Casts /\ k.pc = "next" /\ k.msgs = m /\ k.then = then
    BY <2>2, CastingIs
  <2>4. Goto(c, k)
    BY <1>1, <1>5, <1>7, <1>8 DEF MoveEncode
  <2>5. QED
    BY <2>3, <2>4
<1>10. Now' = Now /\ Live' = Live /\ Now = Live /\ games'[game'] = games[game]
  BY <1>2, LiveIs DEF Now, Live
<1>11. ASSUME NEW d \in Conns, Hears(d)'
       PROVE  /\ Hears(d)
              /\ Story(c, d) =>
                   Tale(k, c, d, view'[d], out'[d], Now', Live', games'[game'], joining'[d].pc)
  <2>1. Hears(d)
    BY <1>2, <1>11 DEF Hears
  <2>2. PICK v, q, now, pc : v = view[d] /\ q = out[d] /\ now = Now /\ pc = joining[d].pc
    OBVIOUS
  <2>3. PICK y : y = [board |-> x.board, params |-> x.params, marks |-> x.marks]
    OBVIOUS
  <2>4. PICK st : st = IF then = "return" THEN now ELSE "over"
    OBVIOUS
  <2>5. Outcome(h, c, x) = y /\ Becomes(h, now, now) = st
    BY <1>1, <1>7, <2>3, <2>4 DEF Outcome, Becomes
  <2>6. Owed(h, d, y) = m
    <3>1. y.board = x.board /\ y.params = x.params /\ y.marks = x.marks
      BY <2>3
    <3>2. MoveMsgs(y, h.result, h.updated) = MoveMsgs(x, h.result, h.updated)
      BY <3>1 DEF MoveMsgs, CellsUp, InfoIn, MarksUp
    <3>3. QED
      BY <1>1, <1>6, <3>2 DEF Owed
  <2>7. Tale(h, c, d, v, q, now, now, x, pc) => Pledge(v, q \o m, st, y, pc)
    BY <2>5, <2>6, Zenon DEF Tale
  <2>8. Tale(k, c, d, v, q, now, now, x, pc) <=> Pledge(v, q \o m, st, y, pc)
    BY <1>9, <2>3, <2>4, CastTale
  <2>9. Story(c, d) <=> Tale(h, c, d, v, q, now, now, x, pc)
    BY <1>1, <1>4, <1>10, <2>2 DEF Story
  <2>10. Story(c, d) => Tale(k, c, d, v, q, now, now, x, pc)
    BY <2>7, <2>8, <2>9
  <2>11. QED
    BY <1>2, <1>4, <1>10, <2>1, <2>2, <2>10
<1>12. Told'
  BY <1>0, <1>3, <1>9, <1>11, TellCast
<1>13. Phase(c)'
  BY <1>0, <1>2, <1>3, <1>9, GotoCast, PhaseNone DEF Entering, JoinDone
<1>14. QED
  BY <1>12, <1>13

\* What is owed to a connection are messages.
LEMMA MoveMsgsAre ==
  ASSUME NEW z, IsBoard(z.board), NEW up \in SUBSET Spots, up \subseteq Cells(z.board),
         z.marks \in [Cells(z.board) -> PlayerIds \cup {0}], NEW result
  PROVE  MoveMsgs(z, result, up) \in Seq(Msgs)
<1>1. CellsUp(z, up) \in Msgs
  BY UpdatesAre, MsgsAre DEF CellsUp
<1>2. MarksUp(z, up) \in Msgs
  <2>1. PlayerIds \cup {0} \subseteq Nat
    BY PlayerIdsAssumption
  <2>2. [e \in up |-> z.marks[e]] \in [up -> Nat]
    BY <2>1
  <2>3. [e \in up |-> z.marks[e]] \in Updates
    BY <2>2 DEF Updates
  <2>4. QED
    BY <2>3, MsgsAre DEF MarksUp
<1>3. PICK cm \in Msgs, im \in Msgs : cm = CellsUp(z, up) /\ im = MarksUp(z, up)
  BY <1>1, <1>2
<1>4. <<cm>> \in Seq(Msgs) /\ <<im>> \in Seq(Msgs) /\ << >> \in Seq(Msgs)
  OBVIOUS
<1>5. InfoIn(z, up) \in Seq(Msgs)
  BY <1>3, <1>4, Zenon DEF InfoIn
<1>6. <<cm>> \o InfoIn(z, up) \in Seq(Msgs)
  BY <1>4, <1>5, ConcatProperties
<1>7. PICK s \in Seq(Msgs) :
        s = IF up = {} THEN << >> ELSE <<CellsUp(z, up)>> \o InfoIn(z, up)
  BY <1>3, <1>4, <1>6, Zenon
<1>8. EndIn(result) \in Seq(Msgs)
  <2>1. CASE EndIn(result) = << >>
    BY <1>4, <2>1
  <2>2. ASSUME NEW e \in {"Win", "Loss"}, EndIn(result) = <<EndMsg(e)>>
        PROVE  EndIn(result) \in Seq(Msgs)
    BY <2>2, MsgsAre
  <2>3. QED
    BY <2>1, <2>2, EndInIs
<1>9. MoveMsgs(z, result, up) = s \o EndIn(result)
  BY <1>7 DEF MoveMsgs
<1>10. QED
  BY <1>7, <1>8, <1>9, ConcatProperties

LEMMA OwedIs ==
  ASSUME Recorded, NEW c \in Conns, Phase(c), NEW d
  PROVE  Owed(handler[c], d, Outcome(handler[c], c, games[game])) \in Seq(Msgs)
<1> USE DEF Recorded, Typed
<1>1. PICK h \in Handlers : h = handler[c] /\ HandlerOK(h)
  BY DEF TypedHandlers
<1>2. PICK x, z : x = games[game] /\ z = Outcome(h, c, x)
  OBVIOUS
<1>3. CASE h.pc \in {"mode", "encode"}
  <2>1. game \in DOMAIN games /\ h.updated \subseteq Cells(x.board)
    BY <1>1, <1>2, <1>3 DEF Phase, HandlerOK
  <2>2. x \in GameRecs /\ GameOK(x) /\ IsBoard(x.board)
    BY <1>2, <2>1, GameAt
  <2>3. h.updated \in SUBSET Spots
    BY <1>1, <1>3, HandlerFields DEF Modes, Encodes
  <2>4. PICK up \in SUBSET Cells(x.board) : up = h.updated
    BY <2>1
  <2>5. PICK marks : marks = IF h.pc = "mode" /\ x.params.mode = "Coop"
                             THEN NewMarks(x.marks, x.board, c, up) ELSE x.marks
    OBVIOUS
  <2>6. /\ NewMarks(x.marks, x.board, c, up) \in [Cells(x.board) -> PlayerIds \cup {0}]
        /\ x.marks \in [Cells(x.board) -> PlayerIds \cup {0}]
    BY <2>2, ModeIs DEF GameOK
  <2>7. marks \in [Cells(x.board) -> PlayerIds \cup {0}]
    BY <2>5, <2>6, Zenon
  <2>8. z = [board |-> x.board, params |-> x.params, marks |-> marks]
    BY <1>2, <2>4, <2>5 DEF Outcome
  <2>9. z.board = x.board /\ z.marks = marks
    BY <2>8
  <2>10. MoveMsgs(z, h.result, h.updated) \in Seq(Msgs)
    BY <2>1, <2>2, <2>3, <2>7, <2>9, MoveMsgsAre
  <2>11. QED
    BY <1>1, <1>2, <1>3, <2>10 DEF Owed
<1>4. CASE h.pc \in {"next", "cast"}
  <2>1. h.msgs \in Seq(Msgs) /\ (h.pc = "cast" => h.msgs # << >>)
    BY <1>1, <1>4, CastFields DEF HandlerOK
  <2>2. h.pc = "cast" => Tail(h.msgs) \in Seq(Msgs)
    BY <2>1, HeadTailProperties
  <2>3. CASE h.pc = "next"
    BY <1>1, <1>2, <2>1, <2>3 DEF Owed
  <2>4. CASE h.pc = "cast" /\ d \in h.left
    BY <1>1, <1>2, <2>1, <2>4 DEF Owed
  <2>5. CASE h.pc = "cast" /\ d \notin h.left
    BY <1>1, <1>2, <2>2, <2>5 DEF Owed
  <2>6. QED
    BY <1>4, <2>3, <2>4, <2>5
<1>5. CASE h.pc \notin {"next", "cast", "mode", "encode"}
  <2>1. << >> \in Seq(Msgs)
    OBVIOUS
  <2>2. QED
    BY <1>1, <1>2, <1>5, <2>1 DEF Owed
<1>6. QED
  BY <1>3, <1>4, <1>5

LEMMA ConcatOn ==
  ASSUME NEW q \in Seq(Msgs), NEW s \in Seq(Msgs), q # << >>
  PROVE  /\ q \o s \in Seq(Msgs) /\ q \o s # << >>
         /\ Head(q \o s) = Head(q) /\ Tail(q \o s) = Tail(q) \o s
<1>1. /\ Len(q) \in Nat \ {0} /\ Head(q) = q[1] /\ Head(q) \in Msgs /\ Tail(q) \in Seq(Msgs)
      /\ Len(Tail(q)) = Len(q) - 1 /\ \A i \in 1 .. Len(q) - 1 : Tail(q)[i] = q[i + 1]
      /\ Len(s) \in Nat
  BY EmptySeq, HeadTailProperties, LenProperties
<1>2. PICK t \in Seq(Msgs) : t = q \o s
  BY ConcatProperties
<1>3. /\ Len(t) = Len(q) + Len(s)
      /\ \A i \in 1 .. Len(t) : t[i] = IF i <= Len(q) THEN q[i] ELSE s[i - Len(q)]
  BY <1>1, <1>2, ConcatProperties
<1>4. t # << >> /\ Head(t) = t[1] /\ t[1] = q[1]
  BY <1>1, <1>3, EmptySeq
<1>5. /\ Tail(t) \in Seq(Msgs) /\ Len(Tail(t)) = Len(t) - 1
      /\ \A i \in 1 .. Len(t) - 1 : Tail(t)[i] = t[i + 1]
  BY <1>4, HeadTailProperties
<1>6. PICK u \in Seq(Msgs) : u = Tail(q) \o s
  BY <1>1, ConcatProperties
<1>7. /\ Len(u) = Len(q) - 1 + Len(s)
      /\ \A i \in 1 .. Len(u) : u[i] = IF i <= Len(q) - 1 THEN Tail(q)[i] ELSE s[i - (Len(q) - 1)]
  BY <1>1, <1>6, ConcatProperties
<1>8. ASSUME NEW i \in 1 .. Len(u) PROVE Tail(t)[i] = u[i]
  <2>1. i \in 1 .. Len(t) - 1 /\ i + 1 \in 1 .. Len(t)
    BY <1>1, <1>3, <1>7
  <2>2. Tail(t)[i] = t[i + 1]
    BY <1>5, <2>1
  <2>3. CASE i <= Len(q) - 1
    BY <1>1, <1>3, <1>7, <2>1, <2>2, <2>3
  <2>4. CASE ~(i <= Len(q) - 1)
    <3>1. i + 1 - Len(q) = i - (Len(q) - 1) /\ ~(i + 1 <= Len(q))
      BY <1>1, <2>1, <2>4
    <3>2. QED
      BY <1>3, <1>7, <2>1, <2>2, <2>4, <3>1
  <2>5. QED
    BY <2>3, <2>4
<1>9. Tail(t) = u
  BY <1>1, <1>3, <1>5, <1>7, <1>8, SeqEqual
<1>10. QED
  BY <1>1, <1>2, <1>4, <1>6, <1>9

\* The client handles a message it was to handle.
LEMMA DeliverTold ==
  ASSUME Recorded, Told, NEW e \in Conns, Deliver(e), \A c \in Conns : Phase(c)
  PROVE  Told'
<1> USE DEF Recorded, Typed
<1>0. out \in [Conns -> Seq(Msgs)] /\ view \in [Conns -> Views]
  BY DEF TypedNet
<1>1. /\ out[e] # << >> /\ view[e].screen # "dead"
      /\ view' = [view EXCEPT ![e] = Handled(@, Head(out[e]))]
      /\ out' = [out EXCEPT ![e] = Tail(@)]
      /\ UNCHANGED <<games, game, gameRunning, players, connected, handler, joining, misled,
                     lost>>
  BY DEF Deliver, server, history
<1>2. Now' = Now /\ Live' = Live
  BY <1>1 DEF Now, Live
<1>3. ASSUME NEW d \in Conns, Hears(d)'
      PROVE  \E c \in Conns : Only(c)' /\ Story(c, d)'
  <2>1. Hears(d)
    BY <1>0, <1>1, <1>3 DEF Hears
  <2>2. PICK c \in Conns : Only(c) /\ Story(c, d)
    BY <2>1 DEF Told
  <2>3. Only(c)'
    BY <1>1, <2>2 DEF Only
  <2>4. CASE d # e
    <3>1. view'[d] = view[d] /\ out'[d] = out[d]
      BY <1>0, <1>1, <2>4
    <3>2. Story(c, d)'
      BY <1>1, <1>2, <2>2, <3>1 DEF Story
    <3>3. QED
      BY <2>3, <3>2
  <2>5. CASE d = e
    <3>1. PICK v \in Views, q \in Seq(Msgs) : v = view[d] /\ q = out[d]
      BY <1>0
    <3>2. PICK now, live, x, pc, h :
            /\ now = Now /\ live = Live /\ x = games[game] /\ pc = joining[d].pc
            /\ h = handler[c]
      OBVIOUS
    <3>3. PICK v2, q2 : v2 = Handled(v, Head(q)) /\ q2 = Tail(q)
      OBVIOUS
    <3>4. view'[d] = v2 /\ out'[d] = q2 /\ q # << >>
      BY <1>0, <1>1, <2>5, <3>1, <3>3
    <3>5. PICK z, st : z = Outcome(h, c, x) /\ st = Becomes(h, now, live)
      OBVIOUS
    <3>6. PICK s \in Seq(Msgs) : s = Owed(h, d, z)
      BY <3>2, <3>5, OwedIs
    <3>7. Pledge(v, q \o s, st, z, pc)
      <4>1. Tale(h, c, d, v, q, now, live, x, pc)
        BY <2>2, <3>1, <3>2 DEF Story
      <4>2. QED
        BY <3>5, <3>6, <4>1, Zenon DEF Tale
    <3>8. Pledge(v2, q2 \o s, st, z, pc)
      <4>1. PICK w : Leads(v, q \o s, w) /\ Expected(w, st, z, pc)
        BY <3>7 DEF Pledge
      <4>2. /\ q \o s \in Seq(Msgs) /\ q \o s # << >>
            /\ Head(q \o s) = Head(q) /\ Tail(q \o s) = q2 \o s
        BY <3>3, <3>4, ConcatOn
      <4>3. Leads(Handled(v, Head(q \o s)), Tail(q \o s), w)
        BY <4>1, <4>2, LeadsOn
      <4>4. Leads(v2, q2 \o s, w)
        BY <3>3, <4>2, <4>3
      <4>5. QED
        BY <4>1, <4>4 DEF Pledge
    <3>9. Tale(h, c, d, v2, q2, now, live, x, pc)
      BY <3>5, <3>6, <3>8, Zenon DEF Tale
    <3>10. Story(c, d)'
      BY <1>1, <1>2, <3>2, <3>4, <3>9 DEF Story
    <3>11. QED
      BY <2>3, <3>10
  <2>6. QED
    BY <2>4, <2>5
<1>4. QED
  BY <1>3 DEF Told

\* A connection that joins while a game runs is sent its start ...
LEMMA JoinSendTold ==
  ASSUME Recorded, Alone, Told, NEW c \in Conns, Phase(c), JoinSendStart(c) \/ JoinSendCells(c)
  PROVE  Told'
<1> USE DEF Recorded, Typed
<1>0. /\ out \in [Conns -> Seq(Msgs)] /\ view \in [Conns -> Views] /\ joining \in [Conns -> Joins]
  BY DEF TypedNet, TypedJoins
<1>1. /\ UNCHANGED <<games, game, gameRunning, players, connected, handler, view, misled>>
      /\ joining[c].pc \in {"sendStart", "sendCells"}
      /\ SendMessage(c, joining[c].msg)
      /\ \A d \in Conns \ {c} : joining'[d] = joining[d]
      /\ joining'[c].pc = IF joining[c].pc = "sendStart" THEN "cells" ELSE "late"
  BY <1>0 DEF JoinSendStart, JoinSendCells, server
<1>2. /\ Entering(c) /\ Only(c) /\ ~Busy(handler[c]) /\ gameRunning
  BY <1>1, AloneIs DEF Entering, JoinDone, Phase
<1>3. Only(c)'
  BY <1>1, <1>2 DEF Only
<1>4. Now' = Now /\ Live' = Live /\ Now # "over"
  BY <1>1, <1>2, LiveIs DEF Now, Live
<1>5. PICK m \in Msgs : m = joining[c].msg
  BY <1>0, <1>1, PlainJoins
<1>6. /\ \A d \in Conns \ {c} : out'[d] = out[d]
      /\ connected'[c] /\ c \notin lost' => out'[c] = Append(out[c], m)
      /\ lost \subseteq lost'
  BY <1>0, <1>1, <1>5, SendIs
<1>7. PICK x \in GameRecs :
        x = games[game] /\ GameOK(x) /\ Sound(x.board) /\ x.params \in GoodParams
  <2>1. game \in DOMAIN games
    BY <1>2, RunningGame DEF TypedGames
  <2>2. QED
    BY <2>1, GameAt
<1>8. PICK y : y = [board |-> x.board, params |-> x.params, marks |-> x.marks]
  OBVIOUS
<1>9. /\ y.board = x.board /\ y.params = x.params
      /\ y.board.width = y.params.width /\ y.board.height = y.params.height
  BY <1>7, <1>8 DEF GameOK
<1>10. PICK now : now = Now
  OBVIOUS
<1>11. PICK pc, pc2 : pc = joining[c].pc /\ pc2 = joining'[c].pc
  OBVIOUS
<1>12. ASSUME NEW w \in Views, Expected(w, now, y, pc)
       PROVE  Expected(Handled(w, m), now, y, pc2)
  <2>1. CASE pc = "sendStart"
    <3>1. m = StartMsg(y.params) /\ pc2 = "cells"
      BY <1>1, <1>5, <1>7, <1>9, <1>11, <2>1 DEF Phase
    <3>2. Handled(w, m) = StartView(y.params)
      BY <3>1 DEF Handled, StartMsg
    <3>3. QED
      BY <1>4, <1>10, <3>1, <3>2 DEF Expected
  <2>2. CASE pc = "sendCells"
    <3>1. m = CellsMsg(GetChangedCellUpdates(y.board)) /\ pc2 = "late"
      BY <1>1, <1>5, <1>7, <1>9, <1>11, <2>2 DEF Phase
    <3>2. w.screen # "dead" => w = StartView(y.params)
      BY <1>4, <1>10, <1>12, <2>2 DEF Expected
    <3>3. now # "over" /\ Sound(y.board) /\ y.params \in GoodParams
      BY <1>4, <1>7, <1>9, <1>10
    <3>4. CellsMsg(GetChangedCellUpdates(y.board)) \in Msgs =>
            Expected(Handled(w, CellsMsg(GetChangedCellUpdates(y.board))), now, y, "late")
      BY <1>9, <3>2, <3>3, JoinExpected
    <3>5. QED
      BY <3>1, <3>4
  <2>3. QED
    BY <1>1, <1>11, <2>1, <2>2
<1>13. ASSUME NEW d \in Conns, Hears(d)'
       PROVE  Hears(d) /\ (Story(c, d) => Story(c, d)')
  <2>1. Hears(d)
    BY <1>1, <1>6, <1>13 DEF Hears
  <2>2. CASE d # c
    BY <1>1, <1>4, <1>6, <2>1, <2>2 DEF Story
  <2>3. CASE d = c
    <3>1. PICK v \in Views, q \in Seq(Msgs) : v = view[d] /\ q = out[d]
      BY <1>0
    <3>2. PICK live, h : live = Live /\ h = handler[c] /\ ~Busy(h)
      BY <1>2
    <3>3. out'[d] = Append(q, m)
      BY <1>6, <1>13, <2>3, <3>1 DEF Hears
    <3>4. PICK q2 : q2 = Append(q, m)
      OBVIOUS
    <3>5. Story(c, d) <=> Tale(h, c, d, v, q, now, live, x, pc)
      BY <1>7, <1>10, <1>11, <2>3, <3>1, <3>2 DEF Story
    <3>6. Story(c, d)' <=> Tale(h, c, d, v, q2, now, live, x, pc2)
      BY <1>1, <1>4, <1>7, <1>10, <1>11, <2>3, <3>1, <3>2, <3>3, <3>4 DEF Story
    <3>7. Tale(h, c, d, v, q, now, live, x, pc) <=> Pledge(v, q \o << >>, now, y, pc)
      BY <1>8, <3>2, IdleTale
    <3>8. Tale(h, c, d, v, q2, now, live, x, pc2) <=> Pledge(v, q2 \o << >>, now, y, pc2)
      BY <1>8, <3>2, IdleTale
    <3>9. Pledge(v, q \o << >>, now, y, pc) => Pledge(v, q2 \o << >>, now, y, pc2)
      BY <1>12, <3>4, PledgeOne
    <3>10. QED
      BY <2>1, <3>5, <3>6, <3>7, <3>8, <3>9
  <2>4. QED
    BY <2>2, <2>3
<1>14. QED
  BY <1>2, <1>3, <1>13, Telling

\* ... and everything else a join does tells nothing.
LEMMA JoinUntold ==
  ASSUME Recorded, Alone, Told, Newcomers, NEW c \in Conns,
         \/ Accept(c) \/ AuthTimeout(c) \/ SwapHandlers(c) \/ JoinCheck(c)
         \/ JoinEncodeStart(c) \/ JoinEncodeCells(c)
  PROVE  Told'
<1> USE DEF Recorded, Typed
<1>0. joining \in [Conns -> Joins] /\ connected \in [Conns -> BOOLEAN]
  BY DEF TypedNet, TypedJoins
<1>1. /\ UNCHANGED <<games, game, gameRunning, players, handler, out, view, lost, misled>>
      /\ \A d \in Conns \ {c} : joining'[d] = joining[d] /\ connected'[d] = connected[d]
  BY <1>0 DEF Accept, AuthTimeout, SwapHandlers, JoinCheck, JoinEncodeStart, JoinEncodeCells,
              server, history
<1>2. Accept(c) \/ UNCHANGED connected
  BY DEF AuthTimeout, SwapHandlers, JoinCheck, JoinEncodeStart, JoinEncodeCells
<1>3. \/ Freely(joining[c].pc, joining'[c].pc)
      \/ ~gameRunning /\ \A e \in Conns : ~Busy(handler[e])
  <2>1. CASE Accept(c) \/ AuthTimeout(c) \/ SwapHandlers(c) \/ JoinEncodeStart(c)
    BY <1>0, <2>1 DEF Accept, AuthTimeout, SwapHandlers, JoinEncodeStart, Freely
  <2>2. CASE JoinEncodeCells(c)
    BY <1>0, <2>2 DEF JoinEncodeCells, Freely
  <2>3. CASE JoinCheck(c)
    <3>1. Entering(c)
      BY <2>3 DEF JoinCheck, Entering, JoinDone
    <3>2. \A e \in Conns : ~Busy(handler[e])
      BY <3>1, AloneIs
    <3>3. gameRunning => joining'[c].pc = "start"
      BY <1>0, <2>3 DEF JoinCheck
    <3>4. QED
      BY <3>2, <3>3 DEF Freely
  <2>4. QED
    BY <2>1, <2>2, <2>3
<1>4. ASSUME NEW d \in Conns, Hears(d)'
      PROVE  /\ Hears(d) /\ view'[d] = view[d] /\ out'[d] = out[d]
             /\ \/ Freely(joining[d].pc, joining'[d].pc)
                \/ ~gameRunning /\ \A e \in Conns : ~Busy(handler[e])
  <2>1. connected'[d] = connected[d]
    <3>1. Accept(c) => c \notin players
      BY DEF Accept, Newcomers
    <3>2. QED
      BY <1>1, <1>2, <1>4, <3>1 DEF Hears
  <2>2. Hears(d)
    BY <1>1, <1>4, <2>1 DEF Hears
  <2>3. CASE d = c
    BY <1>1, <1>3, <2>2, <2>3
  <2>4. CASE d # c
    BY <1>1, <2>2, <2>4 DEF Freely
  <2>5. QED
    BY <2>3, <2>4
<1>5. QED
  BY <1>1, <1>4, Untold

\* A connection that is registered has been told nothing yet.
LEMMA RegisterTold ==
  ASSUME Recorded, Alone, Told, Newcomers, NEW c \in Conns, Register(c)
  PROVE  Told'
<1> USE DEF Recorded, Typed
<1>0. joining \in [Conns -> Joins] /\ handler \in [Conns -> Handlers]
  BY DEF TypedHandlers, TypedJoins
<1>1. /\ UNCHANGED <<games, game, gameRunning, connected, out, view, lost, misled>>
      /\ joining[c].pc = "accepted" /\ players' = players \cup {c}
      /\ joining'[c].pc \in {"auth", "check"}
      /\ \A d \in Conns \ {c} : joining'[d] = joining[d]
  BY <1>0 DEF Register, server, history
<1>2. \A e \in Conns : ~Busy(handler[e])
  BY <1>1, AloneIs DEF Entering, JoinDone
<1>3. handler' = handler
  <2>1. PICK seen \in SUBSET {d \in Conns : handler[d].pc = "cast"} :
          handler' = [d \in Conns |-> IF d \in seen THEN [handler[d] EXCEPT !.left = @ \cup {c}]
                                                    ELSE handler[d]]
    BY DEF Register
  <2>2. seen = {}
    BY <1>2 DEF Busy
  <2>3. QED
    BY <1>0, <2>1, <2>2
<1>4. Now' = Now /\ Live' = Live
  BY <1>1 DEF Now, Live
<1>5. view[c] = NewView /\ out[c] = << >>
  BY <1>1 DEF Newcomers
<1>6. ASSUME NEW d \in Conns, Hears(d)'
      PROVE  \E e \in Conns : Only(e)' /\ Story(e, d)'
  <2>1. CASE d # c
    <3>1. Hears(d)
      BY <1>1, <1>6, <2>1 DEF Hears
    <3>2. PICK e \in Conns : Only(e) /\ Story(e, d)
      BY <3>1 DEF Told
    <3>3. Only(e)' /\ Story(e, d)'
      BY <1>1, <1>3, <1>4, <2>1, <3>2 DEF Only, Story
    <3>4. QED
      BY <3>3
  <2>2. CASE d = c
    <3>1. PICK h, now, live, x, pc :
            /\ h = handler[c] /\ now = Now /\ live = Live /\ x = games[game]
            /\ pc = joining'[c].pc
      OBVIOUS
    <3>2. PICK y : y = [board |-> x.board, params |-> x.params, marks |-> x.marks]
      OBVIOUS
    <3>3. NewView \in Views /\ NewView.screen = "menu"
      BY FirstView DEF NewView
    <3>4. Leads(NewView, << >>, NewView)
      BY <3>3, LeadsNowhere
    <3>5. Expected(NewView, now, y, pc)
      BY <1>1, <3>1, <3>3 DEF Expected, Ended
    <3>6. << >> \o << >> = << >>
      BY ConcatEmptySeq
    <3>7. Pledge(NewView, << >> \o << >>, now, y, pc)
      BY <3>4, <3>5, <3>6 DEF Pledge
    <3>8. Tale(h, c, c, NewView, << >>, now, live, x, pc)
      BY <1>2, <3>1, <3>2, <3>7, IdleTale
    <3>9. Story(c, c)'
      BY <1>1, <1>3, <1>4, <1>5, <3>1, <3>8 DEF Story
    <3>10. Only(c)'
      BY <1>2, <1>3 DEF Only
    <3>11. QED
      BY <2>2, <3>9, <3>10
  <2>3. QED
    BY <2>1, <2>2
<1>7. QED
  BY <1>6 DEF Told

\* A request of a connection tells nothing yet, unless it is a StartGame.
LEMMA RequestUntold ==
  ASSUME Recorded, Told, NEW c \in Conns, ReadToken(c) \/ HandleMove(c)
  PROVE  Told'
<1>0. handler \in [Conns -> Handlers]
  BY DEF Recorded, Typed, TypedHandlers
<1>1. /\ UNCHANGED <<games, game, gameRunning, players, connected, joining, out, view, lost,
                     misled>>
      /\ handler[c] = Idle
  BY DEF ReadToken, HandleMove, server, Reads
<1>2. \A e \in Conns \ {c} : handler'[e] = handler[e]
  BY Requesting DEF RequestStep, Recorded
<1>3. ~Busy(Idle)
  BY DEF Busy, Idle
<1>4. ~Busy(handler'[c])
  <2>1. CASE ReadToken(c)
    <3>1. PICK s : Goto(c, [kind |-> "token", pc |-> "answer", success |-> s])
      BY <2>1 DEF ReadToken
    <3>2. PICK k : k = [kind |-> "token", pc |-> "answer", success |-> s]
      OBVIOUS
    <3>3. ~Busy(k)
      BY <3>2 DEF Busy
    <3>4. QED
      BY <1>0, <1>3, <3>1, <3>2, <3>3, GotoIs
  <2>2. CASE HandleMove(c) /\ ~UNCHANGED handler
    <3>1. PICK type, cell :
            Goto(c, [kind |-> "move", pc |-> "want", type |-> type, cell |-> cell])
      BY <2>2 DEF HandleMove
    <3>2. PICK k : k = [kind |-> "move", pc |-> "want", type |-> type, cell |-> cell]
      OBVIOUS
    <3>3. ~Busy(k)
      BY <3>2 DEF Busy
    <3>4. QED
      BY <1>0, <1>3, <3>1, <3>2, <3>3, GotoIs
  <2>3. CASE UNCHANGED handler
    BY <1>1, <1>3, <2>3
  <2>4. QED
    BY <2>1, <2>2, <2>3
<1>5. \A e \in Conns : \/ handler'[e] = handler[e]
                       \/ ~Busy(handler[e]) /\ ~Busy(handler'[e])
  BY <1>1, <1>2, <1>3, <1>4
<1>6. \A d \in Conns : Hears(d)' => /\ Hears(d) /\ view'[d] = view[d] /\ out'[d] = out[d]
                                    /\ Freely(joining[d].pc, joining'[d].pc)
  BY <1>1 DEF Hears, Freely
<1>7. QED
  BY <1>1, <1>5, <1>6, Untold

\* A connection that ends, a token that is answered, a crash.
LEMMA OtherTold ==
  ASSUME Recorded, Told, \A c \in Conns : Phase(c),
         \/ \E c \in Conns : \/ NoHandler(c) \/ Leave(c) \/ HandlersRace(c) \/ AuthAnswer(c)
         \/ MapRace \/ UNCHANGED vars
  PROVE  Told' /\ \A c \in Conns : Phase(c)'
<1>0. /\ handler \in [Conns -> Handlers] /\ joining \in [Conns -> Joins]
      /\ out \in [Conns -> Seq(Msgs)] /\ view \in [Conns -> Views]
      /\ connected \in [Conns -> BOOLEAN]
  BY DEF Recorded, Typed, TypedHandlers, TypedNet, TypedJoins
<1>1. ASSUME NEW c \in Conns, Drop(c), UNCHANGED <<players, lost>>, NEW d \in Conns, Hears(d)'
      PROVE  Hears(d) /\ view'[d] = view[d] /\ out'[d] = out[d]
  <2>1. d # c /\ view'[d] = view[d] /\ out'[d] = out[d] /\ connected'[d] = connected[d]
    BY <1>0, <1>1 DEF Drop, Hears
  <2>2. QED
    BY <1>1, <2>1 DEF Hears
<1>2. ASSUME UNCHANGED <<players, connected, lost, out, view>>, NEW d \in Conns, Hears(d)'
      PROVE  Hears(d) /\ view'[d] = view[d] /\ out'[d] = out[d]
  BY <1>2 DEF Hears
<1>3. UNCHANGED <<games, game, gameRunning, players, lost, misled>>
  BY DEF NoHandler, Leave, HandlersRace, AuthAnswer, MapRace, vars, server, history
<1>4. \A d \in Conns : Hears(d)' => Hears(d) /\ view'[d] = view[d] /\ out'[d] = out[d]
  <2>1. (\E c \in Conns : Drop(c)) \/ UNCHANGED <<connected, out, view>>
    BY DEF NoHandler, Leave, HandlersRace, AuthAnswer, MapRace, vars
  <2>2. QED
    BY <1>1, <1>2, <1>3, <2>1
<1>5. \A e \in Conns :
        /\ \/ handler'[e] = handler[e]
           \/ handler[e].pc = "answer" /\ handler'[e] = Idle
        /\ \/ joining'[e] = joining[e]
           \/ joining'[e].pc \in {"granted", "refused"}
  <2>1. CASE \E c \in Conns : AuthAnswer(c)
    <3>1. PICK c \in Conns : AuthAnswer(c)
      BY <2>1
    <3>2. PICK p \in {"granted", "refused"} : joining' = [joining EXCEPT ![c] = [pc |-> p]]
      BY <3>1 DEF AuthAnswer
    <3>3. /\ handler[c].pc = "answer" /\ handler'[c] = Idle
          /\ \A e \in Conns \ {c} : handler'[e] = handler[e]
      BY <1>0, <3>1, GotoIs DEF AuthAnswer, Settle, Finished, Idle
    <3>4. QED
      BY <1>0, <3>2, <3>3
  <2>2. CASE UNCHANGED <<handler, joining>>
    BY <2>2
  <2>3. QED
    BY <2>1, <2>2 DEF NoHandler, Leave, HandlersRace, MapRace, vars
<1>6. \A e \in Conns : \/ handler'[e] = handler[e]
                       \/ ~Busy(handler[e]) /\ ~Busy(handler'[e])
  BY <1>5 DEF Busy, Idle
<1>7. \A d \in Conns : Freely(joining[d].pc, joining'[d].pc)
  BY <1>5 DEF Freely
<1>8. Told'
  BY <1>3, <1>4, <1>6, <1>7, Untold
<1>9. ASSUME NEW e \in Conns PROVE Phase(e)'
  <2>1. /\ handler'[e] = handler[e] \/ handler'[e].pc \notin {"want", "mode", "encode"}
        /\ \/ joining'[e] = joining[e]
           \/ joining'[e].pc \notin {"start", "sendStart", "cells", "sendCells"}
    BY <1>5 DEF Idle
  <2>2. QED
    BY <1>3, <2>1, PhaseKept
<1>10. QED
  BY <1>8, <1>9

-----------------------------------------------------------------------------
(***************************************************************************)
(* Every connection shows, or will, what the server has told it.           *)
(***************************************************************************)
Showing == Newcomers /\ (Alone => Told /\ \A c \in Conns : Phase(c))

LEMMA InitShowing == Init => Showing
<1> SUFFICES ASSUME Init PROVE Showing
  OBVIOUS
<1>1. Newcomers
  BY DEF Init, Newcomers
<1>2. Told
  BY DEF Init, Told, Hears
<1>3. \A c \in Conns : Phase(c)
  BY DEF Init, Phase, Idle
<1>4. QED
  BY <1>1, <1>2, <1>3 DEF Showing

LEMMA NextShowing == Recorded /\ Showing /\ [Next]_vars => Showing'
<1> SUFFICES ASSUME Recorded, Showing, [Next]_vars PROVE Showing'
  OBVIOUS
<1>1. Newcomers'
  <2>1. CASE Next
    BY <2>1, NewcomersNext DEF Showing
  <2>2. CASE UNCHANGED vars
    BY <2>2 DEF Showing, Newcomers, vars
  <2>3. QED
    BY <2>1, <2>2
<1>2. SUFFICES ASSUME Alone' PROVE Told' /\ \A e \in Conns : Phase(e)'
  BY <1>1 DEF Showing
<1>3. Newcomers /\ Alone /\ Told /\ \A c \in Conns : Phase(c)
  <2>1. Alone
    BY <1>2, AloneBefore DEF Alone, vars
  <2>2. QED
    BY <2>1 DEF Showing
<1>4. ASSUME NEW c \in Conns, Told' /\ Phase(c)',
             \/ StartCreate(c) \/ StartRun(c) \/ MoveStop(c)
             \/ MoveBoard(c) \/ MoveMode(c) \/ MoveEncode(c) \/ BeginCast(c)
             \/ \E p \in players : SendTo(c, p)
      PROVE  Told' /\ \A e \in Conns : Phase(e)'
  <2>1. HandlerStep(c)
    BY <1>4, Handling DEF Recorded
  <2>2. ASSUME NEW e \in Conns PROVE Phase(e)'
    BY <1>3, <1>4, <2>1, PhaseBy
  <2>3. QED
    BY <1>4, <2>2
<1>5. ASSUME NEW c \in Conns,
             \/ StartCreate(c) \/ StartRun(c) \/ MoveStop(c)
             \/ MoveBoard(c) \/ MoveMode(c) \/ MoveEncode(c) \/ BeginCast(c)
             \/ \E p \in players : SendTo(c, p)
      PROVE  Told' /\ \A e \in Conns : Phase(e)'
  <2>1. Phase(c)
    BY <1>3
  <2>1a. SUFFICES Told' /\ Phase(c)'
    BY <1>4, <1>5
  <2>2. CASE StartCreate(c)
    BY <1>3, <2>2, StartCreateTold
  <2>3. CASE StartRun(c) \/ MoveStop(c)
    BY <1>3, <2>3, RunStopTold
  <2>4. CASE MoveBoard(c)
    BY <1>3, <2>1, <2>4, MoveBoardTold
  <2>5. CASE MoveMode(c)
    BY <1>3, <2>1, <2>5, MoveModeTold
  <2>6. CASE MoveEncode(c)
    BY <1>3, <2>1, <2>6, MoveEncodeTold
  <2>7. CASE BeginCast(c)
    BY <1>3, <2>7, BeginCastTold
  <2>8. CASE \E p \in players : SendTo(c, p)
    <3>1. PICK p \in Conns : SendTo(c, p)
      BY <2>8 DEF Recorded, Typed, TypedNet
    <3>2. QED
      BY <1>3, <3>1, SendToTold
  <2>9. QED
    BY <1>5, <2>2, <2>3, <2>4, <2>5, <2>6, <2>7, <2>8, Zenon
<1>6. ASSUME NEW c \in Conns,
             \/ Accept(c) \/ AuthTimeout(c) \/ SwapHandlers(c) \/ JoinCheck(c)
             \/ JoinEncodeStart(c) \/ JoinSendStart(c) \/ JoinEncodeCells(c) \/ JoinSendCells(c)
             \/ Register(c)
      PROVE  Told' /\ \A e \in Conns : Phase(e)'
  <2>1. Phase(c)
    BY <1>3
  <2>1a. SUFFICES Told'
    <3>1. ASSUME NEW e \in Conns PROVE Phase(e)'
      BY <1>3, <1>6, PhaseJoins
    <3>2. QED
      BY <3>1
  <2>2. CASE JoinSendStart(c) \/ JoinSendCells(c)
    BY <1>3, <2>1, <2>2, JoinSendTold
  <2>3. CASE Register(c)
    BY <1>3, <2>3, RegisterTold
  <2>4. CASE \/ Accept(c) \/ AuthTimeout(c) \/ SwapHandlers(c) \/ JoinCheck(c)
             \/ JoinEncodeStart(c) \/ JoinEncodeCells(c)
    BY <1>3, <2>4, JoinUntold
  <2>5. QED
    BY <1>6, <2>2, <2>3, <2>4, Zenon
<1>7. ASSUME NEW c \in Conns, ReadToken(c) \/ HandleStartGame(c) \/ HandleMove(c)
      PROVE  Told' /\ \A e \in Conns : Phase(e)'
  <2>1. Told'
    BY <1>2, <1>3, <1>7, RequestUntold, HandleStartGameTold
  <2>2. ASSUME NEW e \in Conns PROVE Phase(e)'
    BY <1>3, <1>7, PhaseRequests
  <2>3. QED
    BY <2>1, <2>2
<1>8. ASSUME NEW c \in Conns, Deliver(c)
      PROVE  Told' /\ \A e \in Conns : Phase(e)'
  <2>1. Told'
    BY <1>3, <1>8, DeliverTold
  <2>2. UNCHANGED <<games, game, gameRunning, handler, joining>>
    BY <1>8 DEF Deliver, server
  <2>3. ASSUME NEW e \in Conns PROVE Phase(e)'
    BY <1>3, <2>2, PhaseKept
  <2>4. QED
    BY <2>1, <2>3
<1>9. ASSUME \/ \E c \in Conns : \/ NoHandler(c) \/ Leave(c) \/ HandlersRace(c) \/ AuthAnswer(c)
             \/ MapRace \/ UNCHANGED vars
      PROVE  Told' /\ \A e \in Conns : Phase(e)'
  BY <1>3, <1>9, OtherTold
<1>10. CASE UNCHANGED vars
  BY <1>9, <1>10
<1>11. CASE Next
  <2>1. CASE MapRace
    BY <1>9, <2>1
  <2>2. ASSUME NEW c \in Conns, NoHandler(c) \/ Leave(c) \/ HandlersRace(c) \/ AuthAnswer(c)
        PROVE  Told' /\ \A e \in Conns : Phase(e)'
    BY <1>9, <2>2
  <2>3. QED
    BY <1>5, <1>6, <1>7, <1>8, <1>11, <2>1, <2>2, StepIs, Zenon
<1>12. QED
  BY <1>10, <1>11

LEMMA ShowingAlways == Spec => []Showing
<1>1. Recorded /\ Showing /\ [Next]_vars => Showing'
  BY NextShowing
<1>2. QED
  BY <1>1, InitShowing, RecordedAlways, PTL DEF Spec

\* What the invariant says once everything is handled.
LEMMA ShownAtLast ==
  ASSUME Recorded, Showing, Alone, Quiet, NEW c \in Conns, UpToDate(c)
  PROVE  \E x : /\ x = [board |-> games[game].board, params |-> games[game].params,
                        marks |-> games[game].marks]
                /\ Expected(view[c], Now, x, joining[c].pc)
<1>0. view \in [Conns -> Views]
  BY DEF Recorded, Typed, TypedNet
<1>1. out[c] = << >> /\ Hears(c)
  BY DEF Quiet, UpToDate, Hears
<1>2. ASSUME NEW d \in Conns, Working(d) PROVE FALSE
  <2>1. <<"handler", d>> \in Activities
    BY <1>2 DEF Activities, Working
  <2>2. QED
    BY <2>1 DEF Quiet
<1>3. \A d \in Conns : ~Busy(handler[d])
  BY <1>2, AloneIs
<1>4. Only(c)
  BY <1>3 DEF Only
<1>5. Story(c, c)
  BY <1>1, <1>4, ToldBy DEF Showing
<1>6. PICK v \in Views : v = view[c]
  BY <1>0
<1>7. PICK h, now, live, x0, pc :
        /\ h = handler[c] /\ now = Now /\ live = Live /\ x0 = games[game]
        /\ pc = joining[c].pc
  OBVIOUS
<1>8. PICK x : x = [board |-> x0.board, params |-> x0.params, marks |-> x0.marks]
  OBVIOUS
<1>9. Tale(h, c, c, v, << >>, now, live, x0, pc)
  BY <1>1, <1>5, <1>6, <1>7 DEF Story
<1>10. Pledge(v, << >> \o << >>, now, x, pc)
  BY <1>3, <1>7, <1>8, <1>9, IdleTale
<1>11. << >> \o << >> = << >>
  BY ConcatEmptySeq
<1>12. PICK w : Leads(v, << >>, w) /\ Expected(w, now, x, pc)
  BY <1>10, <1>11 DEF Pledge
<1>13. w = v
  BY <1>12, LeadsNowhere
<1>14. QED
  BY <1>6, <1>7, <1>8, <1>12, <1>13

LEMMA ShowingScreens ==
  ASSUME Recorded, Showing
  PROVE  ScreensAgree
<1> SUFFICES ASSUME Alone, Quiet, NEW c \in Conns, UpToDate(c)
             PROVE  gameRunning <=>
                      /\ view[c].screen = "game"
                      /\ view[c].end = "none" \/ (view[c].end = "Aborted" /\ game \in misled)
  BY DEF ScreensAgree
<1>1. PICK x : /\ x = [board |-> games[game].board, params |-> games[game].params,
                       marks |-> games[game].marks]
               /\ Expected(view[c], Now, x, joining[c].pc)
  BY ShownAtLast
<1>2. view[c].screen # "dead" /\ joining[c].pc \in {"done", "late"}
  BY DEF UpToDate, LetIn
<1>3. CASE gameRunning
  <2>1. Now # "over" /\ (Now = "misled" <=> game \in misled)
    BY <1>3 DEF Now, Live
  <2>2. ShowsGame(view[c], Now, x, joining[c].pc)
    BY <1>1, <1>2, <2>1 DEF Expected
  <2>3. QED
    BY <1>3, <2>1, <2>2 DEF ShowsGame, ShowsBoard
<1>4. CASE ~gameRunning
  <2>1. Now = "over"
    BY <1>4 DEF Now
  <2>2. Ended(view[c])
    BY <1>1, <1>2, <2>1 DEF Expected
  <2>3. QED
    BY <1>4, <2>2 DEF Ended
<1>5. QED
  BY <1>3, <1>4

LEMMA ShowingAgreement ==
  ASSUME Recorded, Showing
  PROVE  Agreement
<1> SUFFICES ASSUME Alone, Quiet, gameRunning, NEW c \in Conns, UpToDate(c)
             PROVE  /\ ShowsBoard(view[c], games[game].board)
                    /\ \A d \in DOMAIN view[c].color :
                         view[c].color[d] = games[game].marks[d]
                           \/ (joining[c].pc = "late" /\ view[c].color[d] = 0)
  BY DEF Agreement
<1>1. PICK x : /\ x = [board |-> games[game].board, params |-> games[game].params,
                       marks |-> games[game].marks]
               /\ Expected(view[c], Now, x, joining[c].pc)
  BY ShownAtLast
<1>2. x.board = games[game].board /\ x.marks = games[game].marks
  BY <1>1
<1>3. view[c].screen # "dead" /\ joining[c].pc \in {"done", "late"}
  BY DEF UpToDate, LetIn
<1>4. Now # "over"
  BY LiveIs
<1>5. ShowsGame(view[c], Now, x, joining[c].pc)
  BY <1>1, <1>3, <1>4 DEF Expected
<1>6. QED
  BY <1>2, <1>5 DEF ShowsGame

\* While nothing runs beside anything else, no client that was told everything
\* shows a game that is over as running, nor a running one as over.
THEOREM ScreensCorrect == Spec => []ScreensAgree
<1>1. Recorded /\ Showing => ScreensAgree
  BY ShowingScreens
<1>2. QED
  BY <1>1, RecordedAlways, ShowingAlways, PTL

\* ... and every such client shows the board of the running game, cell by cell.
THEOREM AgreementCorrect == Spec => []Agreement
<1>1. Recorded /\ Showing => Agreement
  BY ShowingAgreement
<1>2. QED
  BY <1>1, RecordedAlways, ShowingAlways, PTL

-----------------------------------------------------------------------------
(***************************************************************************)
(* What is shown of the revealed cells of a board that goes on changing.   *)
(***************************************************************************)
\* Updates that show nothing wrong, now or later.
Honest(u, b) ==
  /\ DOMAIN u \subseteq Cells(b)
  /\ \A e \in DOMAIN u :
       u[e] \in {ShowFlag, Unflag} \/ (e \in b.revealed /\ u[e] = CellValue(b, b, e))

Tells(u, b, e) == e \in DOMAIN u /\ u[e] = CellValue(b, b, e)

Seen(v, e) == v.grid[e].rev # -1

Right(v, b) ==
  /\ DOMAIN v.grid = Cells(b)
  /\ \A e \in Cells(b) :
       Seen(v, e) => e \in b.revealed /\ v.grid[e].rev = CellValue(b, b, e)

LEMMA CellsSeen ==
  ASSUME NEW v \in Views, v.screen = "game", NEW b, Sound(b), Right(v, b),
         NEW u \in Updates, Honest(u, b), NEW y, y = ApplyCells(v, u)
  PROVE  /\ y.screen = "game" /\ Right(y, b)
         /\ \A e \in Cells(b) : Seen(v, e) => Seen(y, e)
         /\ \A e \in b.revealed : Tells(u, b, e) => Seen(y, e)
<1>1. /\ IsBoard(b) /\ DOMAIN v.grid = Cells(b) /\ DOMAIN u \subseteq Cells(b)
      /\ b.revealed \subseteq Cells(b)
  BY DEF Sound, Right, Honest, IsBoard
<1>2. PICK s \in Screens, n \in {"none", "Win", "Loss", "Aborted"}, g \in Grids, k \in Updates :
        v = [screen |-> s, end |-> n, grid |-> g, color |-> k]
  BY DEF Views
<1>3. PICK f : f = [e \in Cells(b) |-> IF e \in DOMAIN u THEN ShowCell(g[e], u[e]) ELSE g[e]]
  OBVIOUS
<1>4. y = [screen |-> s, end |-> n, grid |-> f, color |-> k]
  <2>1. y = [v EXCEPT !.grid = f]
    BY <1>1, <1>2, <1>3 DEF ApplyCells
  <2>2. QED
    BY <1>2, <2>1
<1>5. g \in [Cells(b) -> ShownCells]
  BY <1>1, <1>2 DEF Grids
<1>6. \A e \in DOMAIN u : u[e] \in Nat
  BY DEF Updates
<1>7. ASSUME NEW e \in Cells(b)
      PROVE  /\ f[e].rev # -1 => e \in b.revealed /\ f[e].rev = CellValue(b, b, e)
             /\ g[e].rev # -1 => f[e].rev # -1
             /\ e \in b.revealed /\ Tells(u, b, e) => f[e].rev # -1
  <2>1. g[e] \in ShownCells
    BY <1>5
  <2>2. g[e].rev # -1 => e \in b.revealed /\ g[e].rev = CellValue(b, b, e)
    BY <1>2 DEF Right, Seen
  <2>3. /\ CellValue(b, b, e) \in Nat
        /\ e \in b.revealed => CellValue(b, b, e) \notin {32, 48}
    BY <1>1, ValueIs
  <2>4. CASE e \notin DOMAIN u
    BY <1>3, <2>2, <2>4 DEF Tells
  <2>5. CASE e \in DOMAIN u
    <3>1. f[e] = ShowCell(g[e], u[e]) /\ u[e] \in Nat
      BY <1>3, <1>6, <2>5
    <3>2. /\ u[e] \in {32, 48} => f[e].rev = g[e].rev
          /\ u[e] \notin {32, 48} => f[e].rev = u[e]
      <4>1. PICK k0 \in ShownCells, n0 \in Nat : k0 = g[e] /\ n0 = u[e]
        BY <2>1, <3>1
      <4>2. PICK x : x = ShowCell(k0, n0)
        OBVIOUS
      <4>3. /\ n0 = 32 => x.rev = k0.rev
            /\ n0 = 48 => x.rev = k0.rev
            /\ n0 \notin {32, 48} => x.rev = n0
        BY <4>2, ShowCellIs
      <4>4. QED
        BY <3>1, <4>1, <4>2, <4>3
    <3>3. u[e] \in {32, 48} \/ (e \in b.revealed /\ u[e] = CellValue(b, b, e))
      BY <2>5 DEF Honest, ShowFlag, Unflag
    <3>4. QED
      BY <2>2, <2>3, <3>2, <3>3 DEF Tells
  <2>6. QED
    BY <2>4, <2>5
<1>8. QED
  <2>1. DOMAIN y.grid = Cells(b) /\ y.grid = f /\ y.screen = s /\ v.screen = s /\ v.grid = g
    BY <1>2, <1>3, <1>4
  <2>2. QED
    BY <1>1, <1>7, <2>1 DEF Right, Seen

\* A revealed cell keeps its value.
LEMMA ValueStays ==
  ASSUME NEW b, NEW after, NEW up, Follows(b, after, up), NEW e \in b.revealed
  PROVE  e \in after.revealed /\ CellValue(after, after, e) = CellValue(b, b, e)
<1>1. /\ IsBoard(b) /\ b.revealed \subseteq Cells(b) /\ after.mine = b.mine
      /\ Cells(after) = Cells(b)
  BY DEF Follows, Sound, IsBoard, SameMines, Cells
<1>2. e \in after.revealed
  BY <1>1 DEF Follows
<1>3. NumberOfMines(after, e) = NumberOfMines(b, e)
  BY <1>1 DEF NumberOfMines, Neighbours
<1>4. QED
  BY <1>1, <1>2, <1>3 DEF CellValue

LEMMA RightStays ==
  ASSUME NEW b, NEW after, NEW up, Follows(b, after, up)
  PROVE  /\ \A u : Honest(u, b) => Honest(u, after)
         /\ \A u : \A e \in b.revealed : Tells(u, b, e) => Tells(u, after, e)
         /\ \A v : Right(v, b) => Right(v, after)
         /\ \A e \in after.revealed : e \in b.revealed \/ e \in up
<1>1. Cells(after) = Cells(b) /\ after.revealed \subseteq Cells(b)
  BY DEF Follows, Sound, IsBoard, SameMines, Cells
<1>2. \A e \in after.revealed : e \in b.revealed \/ e \in up
  BY <1>1 DEF Follows
<1>3. \A e \in b.revealed :
        e \in after.revealed /\ CellValue(after, after, e) = CellValue(b, b, e)
  BY ValueStays
<1>4. \A u : Honest(u, b) => Honest(u, after)
  BY <1>1, <1>3, Zenon DEF Honest
<1>5. \A u : \A e \in b.revealed : Tells(u, b, e) => Tells(u, after, e)
  BY <1>3, Zenon DEF Tells
<1>6. \A v : Right(v, b) => Right(v, after)
  BY <1>1, <1>3, Zenon DEF Right
<1>7. QED
  BY <1>2, <1>4, <1>5, <1>6

\* The updates the server encodes show nothing wrong, and all they are for.
LEMMA UpdatesHonest ==
  ASSUME NEW b, Sound(b), NEW up \in SUBSET Cells(b), NEW u, u = CreateCellUpdates(b, b, up)
  PROVE  Honest(u, b) /\ \A e \in up : Tells(u, b, e)
<1>1. DOMAIN u = up /\ \A e \in up : u[e] = CellValue(b, b, e)
  BY DEF CreateCellUpdates
<1>2. \A e \in up : e \notin b.revealed => CellValue(b, b, e) \in {ShowFlag, Unflag}
  BY DEF CellValue
<1>3. QED
  BY <1>1, <1>2 DEF Honest, Tells

LEMMA StartSeen ==
  ASSUME NEW b, NEW p, b.width = p.width, b.height = p.height
  PROVE  StartView(p).screen = "game" /\ Right(StartView(p), b)
<1>1. Cells(b) = Cells(p)
  BY DEF Cells
<1>2. \A e \in Cells(p) : StartView(p).grid[e].rev = -1
  BY DEF StartView, HiddenCell
<1>3. DOMAIN StartView(p).grid = Cells(p) /\ StartView(p).screen = "game"
  BY DEF StartView
<1>4. QED
  BY <1>1, <1>2, <1>3 DEF Right, Seen

\* The other messages show and hide no cell.
LEMMA OthersSeen ==
  ASSUME NEW v \in Views, NEW m \in Msgs, m.kind \in {"Info", "End"}, NEW y, y = Handled(v, m),
         y.screen = "game"
  PROVE  v.screen = "game" /\ y.grid = v.grid
<1>1. PICK s \in Screens, n \in {"none", "Win", "Loss", "Aborted"}, g \in Grids, k \in Updates :
        v = [screen |-> s, end |-> n, grid |-> g, color |-> k]
  BY DEF Views
<1>2. CASE m.kind = "End"
  <2>1. y = [v EXCEPT !.end = m.end]
    BY <1>2 DEF Handled
  <2>2. QED
    BY <1>1, <2>1
<1>3. CASE m.kind = "Info"
  <2>1. y = ApplyInfo(v, m.marks)
    BY <1>3 DEF Handled
  <2>2. Dead(v).screen = "dead"
    BY DEF Dead, NewView
  <2>3. PICK f : f = [d \in DOMAIN v.color |->
                        IF d \in DOMAIN m.marks THEN m.marks[d] ELSE v.color[d]]
    OBVIOUS
  <2>4. y = [v EXCEPT !.color = f]
    BY <2>1, <2>2, <2>3 DEF ApplyInfo
  <2>5. QED
    BY <1>1, <2>4
<1>4. QED
  BY <1>2, <1>3

\* Updates for a client that shows no game make it show none.
LEMMA NoneSeen ==
  ASSUME NEW v \in Views, NEW u, NEW y, y = ApplyCells(v, u), y.screen = "game"
  PROVE  v.screen = "game"
<1>1. PICK s \in Screens, n \in {"none", "Win", "Loss", "Aborted"}, g \in Grids, k \in Updates :
        v = [screen |-> s, end |-> n, grid |-> g, color |-> k]
  BY DEF Views
<1>2. Dead(v).screen = "dead"
  BY DEF Dead, NewView
<1>3. PICK f : f = [d \in DOMAIN v.grid |->
                      IF d \in DOMAIN u THEN ShowCell(v.grid[d], u[d]) ELSE v.grid[d]]
  OBVIOUS
<1>4. y = [v EXCEPT !.grid = f]
  BY <1>2, <1>3 DEF ApplyCells
<1>5. QED
  BY <1>1, <1>4

-----------------------------------------------------------------------------
(***************************************************************************)
(* What every connection will show of the revealed cells, as long as only  *)
(* moves and joins run at the same time.                                   *)
(***************************************************************************)
Mild == overlap \subseteq {{"move"}, {"move", "join"}, {"join"}}

Board    == games[game].board
Settings == games[game].params
SameGame == game' = game /\ Board' = Board /\ Settings' = Settings

\* The first message a handler has left is one that d is still to get.
Ahead(h, d) == h.msgs # << >> /\ (h.pc = "next" \/ (h.pc = "cast" /\ d \in h.left))

\* A handler is going to tell d of cell e.
Covers(h, d, e) ==
  \/ h.pc \in {"mode", "encode"} /\ e \in h.updated
  \/ /\ h.pc \in {"next", "cast"} /\ Ahead(h, d)
     /\ Head(h.msgs).kind = "Cells" /\ Tells(Head(h.msgs).updates, Board, e)

\* A handler is going to tell d of a new game.
Anew(h, d) == h.pc \in {"next", "cast"} /\ Ahead(h, d) /\ h.then = "run"

\* A handler is about the game there is, and tells first what it tells of cells.
Proper(h) ==
  /\ h.pc \in {"mode", "encode"} => h.g = game
  /\ h.pc = "encode" => \A i \in DOMAIN h.info : h.info[i].kind = "Info"
  /\ h.pc \in {"next", "cast"} /\ h.msgs # << >> =>
       /\ Head(h.msgs).kind = "Cells" => Honest(Head(h.msgs).updates, Board)
       /\ Head(h.msgs).kind = "Start" => h.then = "run"
       /\ \A i \in DOMAIN Tail(h.msgs) : Tail(h.msgs)[i].kind \in {"Info", "End"}
       /\ h.then = "run" => h.msgs = <<StartMsg(Settings)>> /\ Board.revealed = {}

\* So is a join.
Fitting(j) ==
  /\ j.pc = "sendStart" => j.msg = StartMsg(Settings)
  /\ j.pc = "sendCells" => game # 0 /\ j.msg.kind = "Cells" /\ Honest(j.msg.updates, Board)

\* A client that shows v shows nothing wrong, and what it lacks is to come.
Reached(d, v) ==
  v.screen = "game" =>
    /\ game # 0 /\ Right(v, Board)
    /\ joining[d].pc # "cells" =>
         \A e \in Board.revealed :
           \/ Seen(v, e)
           \/ joining[d].pc = "sendCells" /\ Tells(joining[d].msg.updates, Board, e)
           \/ \E c \in Conns : Covers(handler[c], d, e)

Renewed(d) == \E c \in Conns : Anew(handler[c], d)

Caught(d) == \E v : Leads(view[d], out[d], v) /\ (Renewed(d) \/ Reached(d, v))

Catching ==
  \A c \in Conns : Proper(handler[c]) /\ Fitting(joining[c]) /\ (Hears(c) => Caught(c))

Joined(pc) == pc \notin {"cells", "sendCells"}

\* A handler that goes from h to k still tells d what it was to tell.
Passes(h, k, d) ==
  /\ \A e \in Board.revealed : Covers(h, d, e) => Covers(k, d, e)
  /\ Anew(h, d) => Anew(k, d)

LEMMA ProperSame ==
  ASSUME SameGame, NEW h, Proper(h)
  PROVE  Proper(h)'
  BY DEF SameGame, Proper

LEMMA FittingSame ==
  ASSUME SameGame, NEW j, Fitting(j)
  PROVE  Fitting(j)'
  BY DEF SameGame, Fitting

LEMMA CoversSame ==
  ASSUME SameGame, NEW h, NEW d, NEW e
  PROVE  Covers(h, d, e)' <=> Covers(h, d, e)
  BY DEF SameGame, Covers, Ahead

LEMMA AnewSame ==
  ASSUME NEW h, NEW d
  PROVE  Anew(h, d)' <=> Anew(h, d)
  BY DEF Anew, Ahead

LEMMA ReachedSame ==
  ASSUME SameGame, NEW d \in Conns, NEW v, Reached(d, v),
         joining'[d] = joining[d] \/ (Joined(joining[d].pc) /\ Joined(joining'[d].pc)),
         \A c \in Conns : Passes(handler[c], handler'[c], d)
  PROVE  Reached(d, v)'
<1>1. \A c \in Conns : \A e \in Board.revealed :
        Covers(handler[c], d, e) => Covers(handler[c], d, e)'
  <2>1. ASSUME NEW c \in Conns, NEW e \in Board.revealed, Covers(handler[c], d, e)
        PROVE  Covers(handler[c], d, e)'
    <3>1. PICK k : k = handler'[c]
      OBVIOUS
    <3>2. Covers(k, d, e)
      BY <2>1, <3>1 DEF Passes
    <3>3. Covers(k, d, e)'
      BY <3>2, CoversSame
    <3>4. QED
      BY <3>1, <3>3
  <2>2. QED
    BY <2>1
<1>2. QED
  BY <1>1 DEF Reached, SameGame, Joined

LEMMA RenewedSame ==
  ASSUME NEW d \in Conns, Renewed(d),
         \A c \in Conns : Passes(handler[c], handler'[c], d)
  PROVE  Renewed(d)'
<1>1. PICK c \in Conns : Anew(handler[c], d)
  BY DEF Renewed
<1>2. PICK k : k = handler'[c]
  OBVIOUS
<1>3. Anew(k, d)
  BY <1>1, <1>2 DEF Passes
<1>4. Anew(k, d)'
  BY <1>3, AnewSame
<1>5. Anew(handler[c], d)'
  BY <1>2, <1>4
<1>6. QED
  BY <1>5 DEF Renewed

\* A step that leaves the board and most connections alone.
LEMMA CatchingBy ==
  ASSUME Catching, SameGame,
         \A c \in Conns : handler'[c] = handler[c] \/ Proper(handler[c])',
         \A c \in Conns : joining'[c] = joining[c] \/ Fitting(joining[c])',
         \A d \in Conns : Hears(d)' =>
           \/ Caught(d)'
           \/ /\ Hears(d) /\ view'[d] = view[d] /\ out'[d] = out[d]
              /\ \/ joining'[d] = joining[d]
                 \/ Joined(joining[d].pc) /\ Joined(joining'[d].pc)
              /\ \A c \in Conns : handler'[c] = handler[c] \/ Passes(handler[c], handler'[c], d)
  PROVE  Catching'
<1>1. ASSUME NEW c \in Conns PROVE Proper(handler[c])'
  <2>1. CASE handler'[c] = handler[c]
    <3>1. PICK h : h = handler[c] /\ h = handler'[c]
      BY <2>1
    <3>2. Proper(h)'
      BY <3>1, ProperSame DEF Catching
    <3>3. QED
      BY <3>1, <3>2
  <2>2. QED
    BY <2>1
<1>2. ASSUME NEW c \in Conns PROVE Fitting(joining[c])'
  <2>1. CASE joining'[c] = joining[c]
    <3>1. PICK j : j = joining[c] /\ j = joining'[c]
      BY <2>1
    <3>2. Fitting(j)'
      BY <3>1, FittingSame DEF Catching
    <3>3. QED
      BY <3>1, <3>2
  <2>2. QED
    BY <2>1
<1>3. ASSUME NEW d \in Conns, Hears(d)' PROVE Caught(d)'
  <2>1. CASE ~Caught(d)'
    <3>1. /\ Hears(d) /\ view'[d] = view[d] /\ out'[d] = out[d]
          /\ \/ joining'[d] = joining[d]
             \/ Joined(joining[d].pc) /\ Joined(joining'[d].pc)
          /\ \A c \in Conns : Passes(handler[c], handler'[c], d)
      BY <1>3, <2>1 DEF Passes
    <3>2. PICK v : Leads(view[d], out[d], v) /\ (Renewed(d) \/ Reached(d, v))
      BY <3>1 DEF Catching, Caught
    <3>3. Renewed(d)' \/ Reached(d, v)'
      BY <3>1, <3>2, RenewedSame, ReachedSame
    <3>4. Leads(view[d], out[d], v)'
      BY <3>1, <3>2 DEF Leads
    <3>5. QED
      BY <3>3, <3>4 DEF Caught
  <2>2. QED
    BY <2>1
<1>4. QED
  BY <1>1, <1>2, <1>3 DEF Catching

LEMMA MildIs ==
  ASSUME Recorded, Mild
  PROVE  \A c \in Conns : Working(c) /\ handler[c].kind \in {"start", "token"} =>
           /\ \A d \in Conns : ~Entering(d)
           /\ \A d \in Conns \ {c} : ~Working(d)
<1>1. \A k, l : {k, l} \in overlap => k \notin {"start", "token"} /\ l \notin {"start", "token"}
  <2>1. ASSUME NEW k, NEW l, {k, l} \in overlap
        PROVE  k \in {"move", "join"} /\ l \in {"move", "join"}
    <3>1. {k, l} \in {{"move"}, {"move", "join"}, {"join"}}
      BY <2>1 DEF Mild
    <3>2. k \in {k, l} /\ l \in {k, l}
      OBVIOUS
    <3>3. QED
      BY <3>1, <3>2
  <2>2. QED
    BY <2>1
<1>2. QED
  BY <1>1 DEF Recorded, Overlaps

\* What no handler does that waits for a connection to be let in.
LEMMA RestsIs ==
  ASSUME NEW c \in Conns, ~Working(c)
  PROVE  handler[c].pc \in {"idle", "answer"}
  BY DEF Working, Stuck, Idle

\* A handler that sends nothing, and is not about to, has nothing to keep.
LEMMA RestProper ==
  ASSUME NEW h, ~Busy(h)
  PROVE  Proper(h) /\ Proper(h)' /\ \A k, d : Passes(h, k, d)
  BY DEF Busy, Proper, Passes, Covers, Anew

LEMMA SilentProper ==
  ASSUME NEW h, h.pc = "next", h.msgs = << >>
  PROVE  Proper(h) /\ Proper(h)' /\ \A k, d : Passes(h, k, d)
  BY DEF Proper, Passes, Covers, Anew, Ahead

LEMMA SettleProper ==
  ASSUME NEW h
  PROVE  \/ Settle(h) = h
         \/ Settle(h) = Idle /\ Proper(Idle)' /\ \A k, d : Passes(h, k, d)
<1>1. ~Busy(Idle)
  BY DEF Busy, Idle
<1>2. Settle(h) # h => Settle(h) = Idle /\ h.pc = "next" /\ h.msgs = << >>
  BY DEF Settle, Finished
<1>3. QED
  BY <1>1, <1>2, RestProper, SilentProper

\* A step of one handler that sends nothing.
LEMMA CatchingOn ==
  ASSUME Catching, SameGame, handler \in [Conns -> Handlers], NEW c \in Conns,
         NEW k, Goto(c, k), Proper(k)', UNCHANGED joining,
         \A d \in Conns : Hears(d)' =>
           /\ Hears(d) /\ view'[d] = view[d] /\ out'[d] = out[d]
           /\ Passes(handler[c], k, d)
  PROVE  Catching'
<1>1. handler'[c] = Settle(k) /\ \A e \in Conns \ {c} : handler'[e] = handler[e]
  BY GotoIs
<1>2. CASE Settle(k) = k
  <2>1. Proper(handler[c])'
    BY <1>1, <1>2
  <2>2. \A e \in Conns : handler'[e] = handler[e] \/ Proper(handler[e])'
    BY <1>1, <2>1
  <2>3. ASSUME NEW d \in Conns, Hears(d)', NEW e \in Conns
        PROVE  handler'[e] = handler[e] \/ Passes(handler[e], handler'[e], d)
    BY <1>1, <1>2, <2>3
  <2>4. QED
    BY <2>2, <2>3, CatchingBy
<1>3. CASE Settle(k) # k
  <2>1. Settle(k) = Idle /\ Proper(Idle)' /\ \A l, d : Passes(k, l, d)
    BY <1>3, SettleProper
  <2>2. Proper(handler[c])'
    BY <1>1, <2>1
  <2>3. \A e \in Conns : handler'[e] = handler[e] \/ Proper(handler[e])'
    BY <1>1, <2>2
  <2>4. ASSUME NEW d \in Conns, Hears(d)', NEW e \in Conns
        PROVE  handler'[e] = handler[e] \/ Passes(handler[e], handler'[e], d)
    <3>1. CASE e # c
      BY <1>1, <3>1
    <3>2. CASE e = c
      <4>1. Passes(handler[c], k, d) /\ Passes(k, Idle, d) /\ handler'[c] = Idle
        BY <1>1, <2>1, <2>4
      <4>2. QED
        BY <3>2, <4>1 DEF Passes
    <3>3. QED
      BY <3>1, <3>2
  <2>5. QED
    BY <2>3, <2>4, CatchingBy
<1>4. QED
  BY <1>2, <1>3

LEMMA SameIs ==
  ASSUME UNCHANGED <<games, game>>
  PROVE  SameGame
  BY DEF SameGame, Board, Settings

\* Who hears when a connection is given up heard before.
LEMMA DropHears ==
  ASSUME Typed, NEW c \in Conns, Drop(c) \/ UNCHANGED <<connected, out, view>>,
         UNCHANGED <<players, lost>>
  PROVE  \A d \in Conns : Hears(d)' => Hears(d) /\ view'[d] = view[d] /\ out'[d] = out[d]
<1>0. /\ out \in [Conns -> Seq(Msgs)] /\ view \in [Conns -> Views]
      /\ connected \in [Conns -> BOOLEAN]
  BY DEF Typed, TypedNet
<1>1. CASE Drop(c)
  <2>1. ASSUME NEW d \in Conns, Hears(d)'
        PROVE  Hears(d) /\ view'[d] = view[d] /\ out'[d] = out[d]
    <3>1. d # c /\ view'[d] = view[d] /\ out'[d] = out[d] /\ connected'[d] = connected[d]
      BY <1>0, <1>1, <2>1 DEF Drop, Hears
    <3>2. QED
      BY <2>1, <3>1 DEF Hears
  <2>2. QED
    BY <2>1
<1>2. CASE UNCHANGED <<connected, out, view>>
  BY <1>2 DEF Hears
<1>3. QED
  BY <1>1, <1>2

-----------------------------------------------------------------------------
(***************************************************************************)
(* Each step keeps every connection on the way to the revealed cells.      *)
(***************************************************************************)
LEMMA JoinCatching ==
  ASSUME Recorded, Catching, Newcomers, NEW c \in Conns,
         \/ Accept(c) \/ AuthTimeout(c) \/ SwapHandlers(c) \/ JoinCheck(c)
         \/ JoinEncodeStart(c)
  PROVE  Catching'
<1> USE DEF Recorded, Typed
<1>0. joining \in [Conns -> Joins] /\ connected \in [Conns -> BOOLEAN]
  BY DEF TypedNet, TypedJoins
<1>1. /\ UNCHANGED <<games, game, players, handler, out, view, lost>>
      /\ \A d \in Conns \ {c} : joining'[d] = joining[d] /\ connected'[d] = connected[d]
  BY <1>0 DEF Accept, AuthTimeout, SwapHandlers, JoinCheck, JoinEncodeStart,
              server, history
<1>2. Accept(c) \/ UNCHANGED connected
  BY DEF AuthTimeout, SwapHandlers, JoinCheck, JoinEncodeStart
<1>3. SameGame
  BY <1>1, SameIs
<1>4. Joined(joining[c].pc) /\ Joined(joining'[c].pc)
  BY <1>0 DEF Accept, AuthTimeout, SwapHandlers, JoinCheck, JoinEncodeStart, Joined
<1>5. Fitting(joining[c])'
  <2>1. PICK j : j = joining'[c]
    OBVIOUS
  <2>2. j.pc # "sendCells" /\ (j.pc = "sendStart" => j.msg = StartMsg(Settings))
    BY <1>0, <2>1 DEF Accept, AuthTimeout, SwapHandlers, JoinCheck, JoinEncodeStart, Settings
  <2>3. Fitting(j)
    BY <2>2 DEF Fitting
  <2>4. Fitting(j)'
    BY <1>3, <2>3, FittingSame
  <2>5. QED
    BY <2>1, <2>4
<1>6. ASSUME NEW d \in Conns, Hears(d)'
      PROVE  /\ Hears(d) /\ view'[d] = view[d] /\ out'[d] = out[d]
             /\ \/ joining'[d] = joining[d]
                \/ Joined(joining[d].pc) /\ Joined(joining'[d].pc)
             /\ \A e \in Conns : handler'[e] = handler[e]
  <2>1. connected'[d] = connected[d]
    <3>1. Accept(c) => c \notin players
      BY DEF Accept, Newcomers
    <3>2. QED
      BY <1>1, <1>2, <1>6, <3>1 DEF Hears
  <2>2. Hears(d)
    BY <1>1, <1>6, <2>1 DEF Hears
  <2>3. QED
    BY <1>1, <1>4, <2>2
<1>7. QED
  BY <1>1, <1>3, <1>5, <1>6, CatchingBy

LEMMA JoinCellsCatching ==
  ASSUME Recorded, Catching, NEW c \in Conns, JoinEncodeCells(c)
  PROVE  Catching'
<1> USE DEF Recorded, Typed
<1>0. joining \in [Conns -> Joins]
  BY DEF TypedJoins
<1>1. /\ UNCHANGED <<games, game, players, connected, handler, out, view, lost>>
      /\ joining[c].pc = "cells" /\ game # 0
      /\ joining'[c] = [pc |-> "sendCells", msg |-> CellsMsg(GetChangedCellUpdates(Board))]
      /\ \A d \in Conns \ {c} : joining'[d] = joining[d]
  BY <1>0 DEF JoinEncodeCells, server, history, Board, TypedJoins
<1>2. SameGame
  BY <1>1, SameIs
<1>3. Sound(Board)
  <2>1. game \in DOMAIN games
    BY <1>1, RunningGame
  <2>2. QED
    BY <2>1, GameAt DEF Board
<1>4. PICK u : u = GetChangedCellUpdates(Board)
  OBVIOUS
<1>5. Honest(u, Board) /\ \A e \in Board.revealed : Tells(u, Board, e)
  <2>1. Marked(Board) \subseteq Cells(Board) /\ Board.revealed \subseteq Marked(Board)
    BY <1>3 DEF Marked, Sound, IsBoard
  <2>2. QED
    BY <1>3, <1>4, <2>1, UpdatesHonest DEF GetChangedCellUpdates
<1>6. PICK j : j = joining'[c]
  OBVIOUS
<1>7. j.pc = "sendCells" /\ j.msg.kind = "Cells" /\ j.msg.updates = u
  BY <1>1, <1>4, <1>6 DEF CellsMsg
<1>8. Fitting(joining[c])'
  <2>1. Fitting(j)
    BY <1>1, <1>5, <1>7 DEF Fitting
  <2>2. QED
    BY <1>2, <1>6, <2>1, FittingSame
<1>9. ASSUME Hears(c)' PROVE Caught(c)'
  <2>1. Hears(c)
    BY <1>1, <1>9 DEF Hears
  <2>2. PICK v : Leads(view[c], out[c], v) /\ (Renewed(c) \/ Reached(c, v))
    BY <2>1 DEF Catching, Caught
  <2>3. Renewed(c) => Renewed(c)'
    BY <1>1 DEF Renewed, Anew, Ahead
  <2>4. Reached(c, v) => Reached(c, v)'
    BY <1>2, <1>5, <1>6, <1>7 DEF Reached, SameGame
  <2>5. Leads(view[c], out[c], v)'
    BY <1>1, <2>2 DEF Leads
  <2>6. QED
    BY <2>2, <2>3, <2>4, <2>5 DEF Caught
<1>10. ASSUME NEW d \in Conns, Hears(d)', d # c
       PROVE  /\ Hears(d) /\ view'[d] = view[d] /\ out'[d] = out[d]
              /\ joining'[d] = joining[d]
  BY <1>1, <1>10 DEF Hears
<1>11. QED
  BY <1>1, <1>2, <1>8, <1>9, <1>10, CatchingBy

\* What a message does to what a client is to show of the running game.
LEMMA SendCaught ==
  ASSUME Typed, NEW d \in Conns, NEW v, Leads(view[d], out[d], v), NEW m \in Msgs,
         view'[d] = view[d], out'[d] = Append(out[d], m),
         v \in Views => Renewed(d)' \/ Reached(d, Handled(v, m))'
  PROVE  Caught(d)'
<1>1. view[d] \in Views /\ out[d] \in Seq(Msgs)
  BY DEF Typed, TypedNet
<1>2. v \in Views /\ Leads(view[d], Append(out[d], m), Handled(v, m))
  BY <1>1, LeadsFurther
<1>3. PICK y : y = Handled(v, m)
  OBVIOUS
<1>4. Leads(view[d], out[d], y)'
  BY <1>2, <1>3 DEF Leads
<1>5. Renewed(d)' \/ Reached(d, y)'
  BY <1>2, <1>3
<1>6. QED
  BY <1>4, <1>5 DEF Caught

LEMMA JoinSendCatching ==
  ASSUME Recorded, Mild, Catching, NEW c \in Conns, JoinSendStart(c) \/ JoinSendCells(c)
  PROVE  Catching'
<1> USE DEF Recorded, Typed
<1>0. /\ out \in [Conns -> Seq(Msgs)] /\ view \in [Conns -> Views] /\ joining \in [Conns -> Joins]
  BY DEF TypedNet, TypedJoins
<1>1. /\ UNCHANGED <<games, game, players, connected, handler, view>>
      /\ joining[c].pc \in {"sendStart", "sendCells"}
      /\ SendMessage(c, joining[c].msg)
      /\ \A d \in Conns \ {c} : joining'[d] = joining[d]
      /\ joining'[c].pc = IF joining[c].pc = "sendStart" THEN "cells" ELSE "late"
  BY <1>0 DEF JoinSendStart, JoinSendCells, server
<1>2. SameGame
  BY <1>1, SameIs
<1>3. PICK j : j = joining[c] /\ Fitting(j)
  BY DEF Catching
<1>4. PICK m \in Msgs : m = j.msg
  BY <1>0, <1>1, <1>3, PlainJoins
<1>5. /\ \A d \in Conns \ {c} : out'[d] = out[d]
      /\ connected'[c] /\ c \notin lost' => out'[c] = Append(out[c], m)
      /\ lost \subseteq lost'
  BY <1>0, <1>1, <1>3, <1>4, SendIs
<1>6. game # 0
  BY <1>1, <1>3 DEF TypedJoins, Fitting
<1>7. /\ Sound(Board) /\ Board.width = Settings.width /\ Board.height = Settings.height
  <2>1. game \in DOMAIN games
    BY <1>6, RunningGame
  <2>2. QED
    BY <2>1, GameAt DEF Board, Settings, GameOK
<1>8. Fitting(joining[c])'
  BY <1>1 DEF Fitting
<1>9. ~Renewed(c)
  <2>1. SUFFICES ASSUME NEW e \in Conns, Anew(handler[e], c) PROVE FALSE
    BY DEF Renewed
  <2>2. handler[e].pc \in {"next", "cast"} /\ handler[e].then = "run"
    BY <2>1 DEF Anew
  <2>3. handler[e].kind = "start" /\ Working(e)
    BY <2>2 DEF TypedHandlers, HandlerOK, Working, Stuck, Idle
  <2>4. Entering(c)
    BY <1>1 DEF Entering, JoinDone
  <2>5. QED
    BY <2>3, <2>4, MildIs
<1>10. ASSUME Hears(c)' PROVE Caught(c)'
  <2>1. Hears(c) /\ out'[c] = Append(out[c], m)
    BY <1>1, <1>5, <1>10 DEF Hears
  <2>2. PICK v : Leads(view[c], out[c], v) /\ Reached(c, v)
    BY <1>9, <2>1 DEF Catching, Caught
  <2>3. PICK y : y = Handled(v, m)
    OBVIOUS
  <2>4. ASSUME v \in Views PROVE Reached(c, y)'
    <3>1. CASE j.pc = "sendStart"
      <4>1. m = StartMsg(Settings) /\ joining'[c].pc = "cells"
        BY <1>1, <1>3, <1>4, <3>1 DEF Fitting
      <4>2. y = StartView(Settings)
        BY <2>3, <4>1 DEF Handled, StartMsg
      <4>3. Right(y, Board)
        BY <1>7, <4>2, StartSeen
      <4>4. QED
        BY <1>2, <1>6, <4>1, <4>3 DEF Reached, SameGame
    <3>2. CASE j.pc = "sendCells"
      <4>1. m.kind = "Cells" /\ Honest(m.updates, Board) /\ joining'[c].pc = "late"
        BY <1>1, <1>3, <1>4, <3>2 DEF Fitting
      <4>2. PICK u \in Updates : u = m.updates
        BY <4>1 DEF Msgs
      <4>3. y = ApplyCells(v, u)
        BY <2>3, <4>1, <4>2 DEF Handled
      <4>4. SUFFICES ASSUME y.screen = "game"
                     PROVE  /\ Right(y, Board)
                            /\ \A e \in Board.revealed :
                                 Seen(y, e) \/ \E f \in Conns : Covers(handler[f], c, e)
        <5>1. \A f \in Conns : \A e :
                Covers(handler[f], c, e)' <=> Covers(handler[f], c, e)
          BY <1>1, <1>2 DEF SameGame, Covers, Ahead
        <5>2. QED
          BY <1>1, <1>2, <1>6, <4>1, <5>1 DEF Reached, SameGame
      <4>5. v.screen = "game"
        BY <2>4, <4>3, <4>4, NoneSeen
      <4>6. /\ Right(v, Board)
            /\ \A e \in Board.revealed :
                 \/ Seen(v, e) \/ Tells(u, Board, e)
                 \/ \E f \in Conns : Covers(handler[f], c, e)
        BY <1>3, <1>4, <2>2, <3>2, <4>2, <4>5 DEF Reached
      <4>7. /\ Right(y, Board)
            /\ \A e \in Cells(Board) : Seen(v, e) => Seen(y, e)
            /\ \A e \in Board.revealed : Tells(u, Board, e) => Seen(y, e)
        BY <1>7, <2>4, <4>1, <4>2, <4>3, <4>5, <4>6, CellsSeen
      <4>8. Board.revealed \subseteq Cells(Board)
        BY <1>7 DEF Sound, IsBoard
      <4>9. QED
        BY <4>6, <4>7, <4>8
    <3>3. QED
      BY <1>1, <1>3, <3>1, <3>2
  <2>5. QED
    BY <1>1, <2>1, <2>2, <2>3, <2>4, SendCaught
<1>11. ASSUME NEW d \in Conns, Hears(d)', d # c
       PROVE  /\ Hears(d) /\ view'[d] = view[d] /\ out'[d] = out[d]
              /\ joining'[d] = joining[d]
  BY <1>1, <1>5, <1>11 DEF Hears
<1>12. QED
  BY <1>1, <1>2, <1>8, <1>10, <1>11, CatchingBy

\* A connection that is registered has been told nothing yet.
LEMMA RegisterCatching ==
  ASSUME Recorded, Catching, Newcomers, NEW c \in Conns, Register(c)
  PROVE  Catching'
<1> USE DEF Recorded, Typed
<1>0. joining \in [Conns -> Joins] /\ handler \in [Conns -> Handlers]
  BY DEF TypedHandlers, TypedJoins
<1>1. /\ UNCHANGED <<games, game, connected, out, view, lost>>
      /\ joining[c].pc = "accepted" /\ players' = players \cup {c}
      /\ joining'[c].pc \in {"auth", "check"}
      /\ \A d \in Conns \ {c} : joining'[d] = joining[d]
  BY <1>0 DEF Register, server, history
<1>2. SameGame
  BY <1>1, SameIs
<1>3. ASSUME NEW e \in Conns
      PROVE  /\ handler'[e] = handler[e] \/ Proper(handler[e])'
             /\ \A d : handler'[e] = handler[e] \/ Passes(handler[e], handler'[e], d)
  <2>1. PICK seen \in SUBSET {d \in Conns : handler[d].pc = "cast"} :
          handler' = [d \in Conns |-> IF d \in seen THEN [handler[d] EXCEPT !.left = @ \cup {c}]
                                                    ELSE handler[d]]
    BY DEF Register
  <2>2. CASE e \notin seen
    BY <2>1, <2>2
  <2>3. CASE e \in seen
    <3>1. PICK h \in Casts : h = handler[e] /\ Proper(h)
      BY <2>3, CastFields DEF Catching
    <3>2. PICK S \in SUBSET Conns : S = h.left \cup {c}
      BY <3>1 DEF Casts
    <3>3. PICK k : k = [kind |-> h.kind, pc |-> h.pc, msgs |-> h.msgs, left |-> S,
                        then |-> h.then, arg |-> h.arg]
      OBVIOUS
    <3>4. handler'[e] = k
      <4>1. handler'[e] = [h EXCEPT !.left = @ \cup {c}]
        BY <2>1, <2>3, <3>1
      <4>2. [h EXCEPT !.left = @ \cup {c}] = k
        BY <3>1, <3>2, <3>3, CastSteps
      <4>3. QED
        BY <4>1, <4>2
    <3>5. k.pc = h.pc /\ k.msgs = h.msgs /\ k.then = h.then /\ k.left = h.left \cup {c}
      BY <3>2, <3>3
    <3>6. h.pc = "cast"
      BY <2>3, <3>1
    <3>7. Proper(k)
      BY <3>1, <3>5, <3>6 DEF Proper
    <3>8. Proper(k)'
      BY <1>2, <3>7, ProperSame
    <3>9. \A d : Passes(h, k, d)
      BY <3>5, <3>6 DEF Passes, Covers, Anew, Ahead
    <3>10. QED
      BY <3>1, <3>4, <3>8, <3>9
  <2>4. QED
    BY <2>2, <2>3
<1>4. Fitting(joining[c])'
  BY <1>1 DEF Fitting
<1>5. ASSUME NEW d \in Conns, Hears(d)', d # c
      PROVE  /\ Hears(d) /\ view'[d] = view[d] /\ out'[d] = out[d]
             /\ joining'[d] = joining[d]
  BY <1>1, <1>5 DEF Hears
<1>6. Caught(c)'
  <2>1. NewView \in Views /\ NewView.screen = "menu"
    BY FirstView DEF NewView
  <2>2. view'[c] = NewView /\ out'[c] = << >>
    BY <1>1 DEF Newcomers
  <2>3. Leads(NewView, << >>, NewView)
    BY <2>1, LeadsNowhere
  <2>4. Leads(view[c], out[c], NewView)'
    BY <2>2, <2>3 DEF Leads
  <2>5. Reached(c, NewView)'
    BY <2>1 DEF Reached
  <2>6. QED
    BY <2>4, <2>5 DEF Caught
<1>7. \A e \in Conns : joining'[e] = joining[e] \/ Fitting(joining[e])'
  BY <1>1, <1>4
<1>8. \A d \in Conns : Hears(d)' =>
        \/ Caught(d)'
        \/ /\ Hears(d) /\ view'[d] = view[d] /\ out'[d] = out[d]
           /\ joining'[d] = joining[d]
           /\ \A e \in Conns : handler'[e] = handler[e] \/ Passes(handler[e], handler'[e], d)
  BY <1>3, <1>5, <1>6
<1>9. QED
  BY <1>2, <1>3, <1>7, <1>8, CatchingBy

\* A request: the handler that starts has nothing to tell of cells.
LEMMA RequestCatching ==
  ASSUME Recorded, Catching, NEW c \in Conns,
         ReadToken(c) \/ HandleStartGame(c) \/ HandleMove(c)
  PROVE  Catching'
<1> USE DEF Recorded, Typed
<1>0. handler \in [Conns -> Handlers]
  BY DEF TypedHandlers
<1>1. /\ UNCHANGED <<games, game, players, connected, joining, out, view, lost>>
      /\ handler[c] = Idle
  BY DEF ReadToken, HandleStartGame, HandleMove, server, Reads
<1>2. SameGame
  BY <1>1, SameIs
<1>3. ~Busy(Idle)
  BY DEF Busy, Idle
<1>4. \A k, d : Passes(handler[c], k, d)
  BY <1>1, <1>3, RestProper
<1>5. ASSUME NEW k, Goto(c, k), Proper(k)' PROVE Catching'
  <2>1. \A d \in Conns : Hears(d)' =>
          Hears(d) /\ view'[d] = view[d] /\ out'[d] = out[d] /\ Passes(handler[c], k, d)
    BY <1>1, <1>4 DEF Hears
  <2>2. QED
    BY <1>0, <1>1, <1>2, <1>5, <2>1, CatchingOn
<1>6. CASE ReadToken(c)
  <2>1. PICK s : Goto(c, [kind |-> "token", pc |-> "answer", success |-> s])
    BY <1>6 DEF ReadToken
  <2>2. PICK k : k = [kind |-> "token", pc |-> "answer", success |-> s]
    OBVIOUS
  <2>3. ~Busy(k)
    BY <2>2 DEF Busy
  <2>4. QED
    BY <1>5, <2>1, <2>2, <2>3, RestProper
<1>7. CASE HandleMove(c)
  <2>1. CASE UNCHANGED handler
    <3>1. \A d \in Conns : Hears(d)' => Hears(d)
      BY <1>1 DEF Hears
    <3>2. QED
      BY <1>1, <1>2, <2>1, <3>1, CatchingBy
  <2>2. CASE ~UNCHANGED handler
    <3>1. PICK type, cell :
            Goto(c, [kind |-> "move", pc |-> "want", type |-> type, cell |-> cell])
      BY <1>7, <2>2 DEF HandleMove
    <3>2. PICK k : k = [kind |-> "move", pc |-> "want", type |-> type, cell |-> cell]
      OBVIOUS
    <3>3. ~Busy(k)
      BY <3>2 DEF Busy
    <3>4. QED
      BY <1>5, <3>1, <3>2, <3>3, RestProper
  <2>3. QED
    BY <2>1, <2>2
<1>8. CASE HandleStartGame(c)
  <2>1. PICK p \in Params, s \in {<<EndMsg("Aborted")>>, << >>} :
          Goto(c, Casting("start", s, "create", p))
    BY <1>8 DEF HandleStartGame
  <2>2. PICK k : k = Casting("start", s, "create", p)
    OBVIOUS
  <2>3. /\ k.pc = "next" /\ k.msgs = s /\ k.then = "create"
    BY <2>2 DEF Casting
  <2>4. s # << >> => Head(s).kind = "End" /\ Tail(s) = << >>
    <3>1. PICK m \in Msgs : m = EndMsg("Aborted") /\ m.kind = "End"
      BY MsgsAre DEF EndMsg
    <3>2. Head(<<m>>) = m /\ Tail(<<m>>) = << >>
      OBVIOUS
    <3>3. QED
      BY <2>1, <3>1, <3>2
  <2>5. Proper(k)
    BY <2>3, <2>4 DEF Proper
  <2>6. Proper(k)'
    BY <1>2, <2>5, ProperSame
  <2>7. QED
    BY <1>5, <2>1, <2>2, <2>6
<1>9. QED
  BY <1>6, <1>7, <1>8

\* The last step of a handler.
LEMMA RunStopCatching ==
  ASSUME Recorded, Catching, NEW c \in Conns, StartRun(c) \/ MoveStop(c)
  PROVE  Catching'
<1>0. handler \in [Conns -> Handlers]
  BY DEF Recorded, Typed, TypedHandlers
<1>1. /\ UNCHANGED <<games, game, players, connected, joining, out, view, lost>>
      /\ Goto(c, Idle) /\ handler[c].pc = "next" /\ handler[c].msgs = << >>
  BY DEF StartRun, MoveStop, history
<1>2. SameGame
  BY <1>1, SameIs
<1>3. ~Busy(Idle)
  BY DEF Busy, Idle
<1>4. Proper(Idle)' /\ \A d : Passes(handler[c], Idle, d)
  BY <1>1, <1>3, RestProper, SilentProper
<1>5. \A d \in Conns : Hears(d)' =>
        Hears(d) /\ view'[d] = view[d] /\ out'[d] = out[d] /\ Passes(handler[c], Idle, d)
  BY <1>1, <1>4 DEF Hears
<1>6. QED
  BY <1>0, <1>1, <1>2, <1>4, <1>5, CatchingOn

\* A connection that ends, a token that is answered, a crash.
LEMMA OtherCatching ==
  ASSUME Recorded, Catching,
         \/ \E c \in Conns : \/ NoHandler(c) \/ Leave(c) \/ HandlersRace(c) \/ AuthAnswer(c)
         \/ MapRace \/ UNCHANGED vars
  PROVE  Catching'
<1>0. /\ handler \in [Conns -> Handlers] /\ joining \in [Conns -> Joins]
  BY DEF Recorded, Typed, TypedHandlers, TypedJoins
<1>1. UNCHANGED <<games, game, players, lost>>
  BY DEF NoHandler, Leave, HandlersRace, AuthAnswer, MapRace, vars, server, history
<1>2. SameGame
  BY <1>1, SameIs
<1>3. \A d \in Conns : Hears(d)' => Hears(d) /\ view'[d] = view[d] /\ out'[d] = out[d]
  <2>1. (\E c \in Conns : Drop(c)) \/ UNCHANGED <<connected, out, view>>
    BY DEF NoHandler, Leave, HandlersRace, AuthAnswer, MapRace, vars
  <2>2. CASE \E c \in Conns : Drop(c)
    BY <1>1, <2>2, DropHears DEF Recorded
  <2>3. CASE UNCHANGED <<connected, out, view>>
    BY <1>1, <2>3 DEF Hears
  <2>4. QED
    BY <2>1, <2>2, <2>3
<1>4. \A e \in Conns :
        /\ \/ handler'[e] = handler[e]
           \/ handler[e].pc = "answer" /\ handler'[e] = Idle
        /\ \/ joining'[e] = joining[e]
           \/ joining[e].pc = "auth" /\ joining'[e].pc \in {"granted", "refused"}
  <2>1. CASE \E c \in Conns : AuthAnswer(c)
    <3>1. PICK c \in Conns : AuthAnswer(c)
      BY <2>1
    <3>2. PICK p \in {"granted", "refused"} : joining' = [joining EXCEPT ![c] = [pc |-> p]]
      BY <3>1 DEF AuthAnswer
    <3>3. /\ handler[c].pc = "answer" /\ handler'[c] = Idle /\ joining[c].pc = "auth"
          /\ \A e \in Conns \ {c} : handler'[e] = handler[e]
      BY <1>0, <3>1, GotoIs DEF AuthAnswer, Settle, Finished, Idle
    <3>4. QED
      BY <1>0, <3>2, <3>3
  <2>2. CASE UNCHANGED <<handler, joining>>
    BY <2>2
  <2>3. QED
    BY <2>1, <2>2 DEF NoHandler, Leave, HandlersRace, MapRace, vars
<1>5. ~Busy(Idle)
  BY DEF Busy, Idle
<1>6. \A e \in Conns : handler'[e] = handler[e] \/ Proper(handler[e])'
  BY <1>4, <1>5, RestProper
<1>7. \A e, d \in Conns : handler'[e] = handler[e] \/ Passes(handler[e], handler'[e], d)
  <2>1. SUFFICES ASSUME NEW e \in Conns, NEW d \in Conns, handler[e].pc = "answer"
                 PROVE  Passes(handler[e], handler'[e], d)
    BY <1>4
  <2>2. ~Busy(handler[e])
    BY <2>1 DEF Busy
  <2>3. QED
    BY <2>2, RestProper
<1>8. \A e \in Conns : joining'[e] = joining[e] \/ Fitting(joining[e])'
  BY <1>4 DEF Fitting
<1>9. \A e \in Conns : \/ joining'[e] = joining[e]
                       \/ Joined(joining[e].pc) /\ Joined(joining'[e].pc)
  BY <1>4 DEF Joined
<1>10. QED
  BY <1>2, <1>3, <1>6, <1>7, <1>8, <1>9, CatchingBy

\* A broadcast begins: everybody who hears is still to get the message.
LEMMA BeginCastCatching ==
  ASSUME Recorded, Catching, NEW c \in Conns, BeginCast(c)
  PROVE  Catching'
<1> USE DEF Recorded, Typed
<1>0. handler \in [Conns -> Handlers] /\ players \in SUBSET Conns
  BY DEF TypedHandlers, TypedNet
<1>1. PICK h \in Casts : h = handler[c] /\ Proper(h)
  BY CastFields DEF BeginCast, Catching
<1>2. /\ h.pc = "next" /\ Goto(c, [h EXCEPT !.pc = "cast", !.left = players])
      /\ UNCHANGED <<games, game, players, connected, joining, out, view, lost>>
  BY <1>1 DEF BeginCast, server, history, ReceiversOf
<1>3. PICK k : k = [kind |-> h.kind, pc |-> "cast", msgs |-> h.msgs, left |-> players,
                    then |-> h.then, arg |-> h.arg]
  OBVIOUS
<1>4. Goto(c, k)
  BY <1>0, <1>2, <1>3, CastSteps
<1>5. k.pc = "cast" /\ k.left = players /\ k.msgs = h.msgs /\ k.then = h.then
  BY <1>3
<1>6. SameGame
  BY <1>2, SameIs
<1>7. Proper(k)'
  <2>1. Proper(k)
    BY <1>1, <1>2, <1>5 DEF Proper
  <2>2. QED
    BY <1>6, <2>1, ProperSame
<1>8. \A d \in Conns : Hears(d)' =>
        Hears(d) /\ view'[d] = view[d] /\ out'[d] = out[d] /\ Passes(handler[c], k, d)
  <2>1. \A d \in players : Passes(h, k, d)
    BY <1>2, <1>5 DEF Passes, Covers, Anew, Ahead
  <2>2. QED
    BY <1>1, <1>2, <2>1 DEF Hears
<1>9. QED
  BY <1>0, <1>2, <1>4, <1>6, <1>7, <1>8, CatchingOn

\* What a broadcast goes on with.
LEMMA SendGoes ==
  ASSUME Typed, NEW c \in Conns, NEW p \in Conns, SendTo(c, p)
  PROVE  \E h \in Casts, k \in Casts :
           /\ h = handler[c] /\ HandlerOK(h) /\ h.pc = "cast" /\ p \in h.left
           /\ h.msgs \in Seq(Msgs) /\ h.msgs # << >>
           /\ Goto(c, k) /\ k.then = h.then
           /\ \/ k.pc = "next" /\ h.left = {p} /\ k.msgs = Tail(h.msgs)
              \/ k.pc = "cast" /\ k.left = h.left \ {p} /\ k.msgs = h.msgs
<1>0. handler \in [Conns -> Handlers]
  BY DEF Typed, TypedHandlers
<1>1. PICK h \in Casts : h = handler[c] /\ HandlerOK(h)
  BY CastFields DEF SendTo, Typed
<1>2. /\ h.pc = "cast" /\ p \in h.left
      /\ Goto(c, IF h.left = {p} THEN Casting(h.kind, Tail(h.msgs), h.then, h.arg)
                                 ELSE [h EXCEPT !.left = @ \ {p}])
  BY <1>1 DEF SendTo
<1>3. PICK kind \in {"start", "move"}, then \in {"create", "run", "return", "stop"},
           arg \in Params \cup Nat :
        /\ kind = h.kind /\ then = h.then /\ arg = h.arg
        /\ h.msgs \in Seq(Msgs) /\ h.left \in SUBSET Conns /\ h.msgs # << >>
  BY <1>1, <1>2 DEF Casts, HandlerOK
<1>4. PICK m \in Seq(Msgs) : m = Tail(h.msgs)
  BY <1>3, HeadTailProperties
<1>5. CASE h.left = {p}
  <2>1. PICK k : k = Casting(kind, m, then, arg)
    OBVIOUS
  <2>2. k \in Casts /\ k.pc = "next" /\ k.then = then /\ k.msgs = m
    BY <2>1, CastingIs
  <2>3. Goto(c, k)
    BY <1>2, <1>3, <1>4, <1>5, <2>1
  <2>4. QED
    BY <1>1, <1>2, <1>3, <1>4, <1>5, <2>2, <2>3
<1>6. CASE h.left # {p}
  <2>1. PICK S \in SUBSET Conns : S = h.left \ {p}
    BY <1>3
  <2>2. PICK k : k = [kind |-> h.kind, pc |-> h.pc, msgs |-> h.msgs, left |-> S,
                      then |-> h.then, arg |-> h.arg]
    OBVIOUS
  <2>3. [h EXCEPT !.left = @ \ {p}] = k
    BY <1>1, <2>1, <2>2, CastSteps
  <2>4. k \in Casts /\ k.pc = "cast" /\ k.msgs = h.msgs /\ k.left = S /\ k.then = h.then
    BY <1>2, <1>3, <2>2 DEF Casts
  <2>5. Goto(c, k)
    BY <1>2, <1>6, <2>3
  <2>6. QED
    BY <1>1, <1>2, <1>3, <2>1, <2>4, <2>5
<1>7. QED
  BY <1>5, <1>6

\* What the message a handler sends makes its receiver show.
LEMMA SendReached ==
  ASSUME Recorded, Catching, NEW c \in Conns, NEW p \in Conns,
         NEW h \in Casts, h = handler[c], HandlerOK(h), h.pc = "cast", h.msgs # << >>,
         NEW m \in Msgs, m = Head(h.msgs), h.then # "run",
         NEW v \in Views, Reached(p, v), NEW y, y = Handled(v, m), y.screen = "game"
  PROVE  /\ game # 0 /\ Right(y, Board)
         /\ joining[p].pc # "cells" =>
              \A e \in Board.revealed :
                \/ Seen(y, e)
                \/ joining[p].pc = "sendCells" /\ Tells(joining[p].msg.updates, Board, e)
                \/ \E f \in Conns \ {c} : Covers(handler[f], p, e)
<1>1. /\ m.kind = "Cells" => Honest(m.updates, Board)
      /\ m.kind # "Start"
  BY DEF Catching, Proper
<1>2. m.kind \in {"Cells", "Info", "End"}
  BY <1>1 DEF Msgs
<1>3. CASE m.kind = "Cells"
  <2>1. PICK u \in Updates : u = m.updates
    BY <1>3 DEF Msgs
  <2>2. y = ApplyCells(v, u)
    BY <1>3, <2>1 DEF Handled
  <2>3. v.screen = "game"
    BY <2>2, NoneSeen
  <2>4. /\ game # 0 /\ Right(v, Board)
        /\ joining[p].pc # "cells" =>
             \A e \in Board.revealed :
               \/ Seen(v, e)
               \/ joining[p].pc = "sendCells" /\ Tells(joining[p].msg.updates, Board, e)
               \/ \E f \in Conns : Covers(handler[f], p, e)
    BY <2>3 DEF Reached
  <2>5. Sound(Board)
    <3>1. game \in DOMAIN games
      BY <2>4, RunningGame DEF Recorded, Typed
    <3>2. QED
      BY <3>1, GameAt DEF Board, Recorded, Typed
  <2>6. /\ Right(y, Board)
        /\ \A e \in Cells(Board) : Seen(v, e) => Seen(y, e)
        /\ \A e \in Board.revealed : Tells(u, Board, e) => Seen(y, e)
    BY <1>1, <1>3, <2>1, <2>2, <2>3, <2>4, <2>5, CellsSeen
  <2>7. Board.revealed \subseteq Cells(Board)
    BY <2>5 DEF Sound, IsBoard
  <2>8. \A e : Covers(handler[c], p, e) => Tells(u, Board, e)
    BY <1>3, <2>1 DEF Covers
  <2>9. QED
    BY <2>4, <2>6, <2>7, <2>8
<1>4. CASE m.kind \in {"Info", "End"}
  <2>1. v.screen = "game" /\ y.grid = v.grid
    BY <1>4, OthersSeen
  <2>2. \A e : Seen(y, e) <=> Seen(v, e)
    BY <2>1 DEF Seen
  <2>3. Right(v, Board) => Right(y, Board)
    BY <2>1 DEF Right, Seen
  <2>4. \A e : ~Covers(handler[c], p, e)
    BY <1>4 DEF Covers
  <2>5. QED
    BY <2>1, <2>2, <2>3, <2>4 DEF Reached
<1>5. QED
  BY <1>2, <1>3, <1>4

LEMMA SendToCatching ==
  ASSUME Recorded, Catching, NEW c \in Conns, NEW p \in Conns, SendTo(c, p)
  PROVE  Catching'
<1> USE DEF Recorded, Typed
<1>0. handler \in [Conns -> Handlers] /\ out \in [Conns -> Seq(Msgs)]
  BY DEF TypedHandlers, TypedNet
<1>1. PICK h \in Casts, k \in Casts :
        /\ h = handler[c] /\ HandlerOK(h) /\ h.pc = "cast" /\ p \in h.left
        /\ h.msgs \in Seq(Msgs) /\ h.msgs # << >>
        /\ Goto(c, k) /\ k.then = h.then
        /\ \/ k.pc = "next" /\ h.left = {p} /\ k.msgs = Tail(h.msgs)
           \/ k.pc = "cast" /\ k.left = h.left \ {p} /\ k.msgs = h.msgs
  BY SendGoes, Zenon
<1>2. /\ SendMessage(p, Head(h.msgs))
      /\ UNCHANGED <<games, game, players, connected, joining, view>>
  BY <1>1 DEF SendTo, server
<1>3. PICK m \in Msgs : m = Head(h.msgs)
  BY <1>1, HeadTailProperties
<1>4. /\ \A d \in Conns \ {p} : out'[d] = out[d]
      /\ connected'[p] /\ p \notin lost' => out'[p] = Append(out[p], m)
      /\ lost \subseteq lost'
  BY <1>0, <1>2, <1>3, SendIs
<1>5. SameGame
  BY <1>2, SameIs
<1>6. Proper(h)
  BY <1>1 DEF Catching
<1>7. Proper(k)
  <2>1. CASE k.pc = "cast"
    BY <1>1, <1>6, <2>1 DEF Proper
  <2>2. CASE k.pc = "next"
    <3>1. PICK s \in Seq(Msgs) : s = Tail(h.msgs) /\ k.msgs = s
      BY <1>1, <2>2, HeadTailProperties
    <3>2. \A i \in DOMAIN s : s[i].kind \in {"Info", "End"}
      BY <1>1, <1>6, <3>1 DEF Proper
    <3>3. h.then # "run" \/ s = << >>
      <4>1. h.then = "run" => h.msgs = <<StartMsg(Settings)>>
        BY <1>1, <1>6 DEF Proper
      <4>2. \A x : Tail(<<x>>) = << >>
        OBVIOUS
      <4>3. QED
        BY <3>1, <4>1, <4>2
    <3>4. s # << >> => /\ Head(s).kind \in {"Info", "End"}
                       /\ \A i \in DOMAIN Tail(s) : Tail(s)[i].kind \in {"Info", "End"}
      <4>1. ASSUME s # << >>
            PROVE  /\ Head(s) = s[1] /\ Len(s) \in Nat \ {0} /\ DOMAIN s = 1 .. Len(s)
                   /\ Len(Tail(s)) = Len(s) - 1 /\ DOMAIN Tail(s) = 1 .. Len(s) - 1
                   /\ \A i \in 1 .. Len(s) - 1 : Tail(s)[i] = s[i + 1]
        BY <4>1, EmptySeq, HeadTailProperties, LenProperties
      <4>2. QED
        BY <3>2, <4>1
    <3>5. QED
      BY <1>1, <2>2, <3>1, <3>3, <3>4 DEF Proper
  <2>3. QED
    BY <1>1, <2>1, <2>2
<1>8. handler'[c] = Settle(k) /\ \A e \in Conns \ {c} : handler'[e] = handler[e]
  BY <1>0, <1>1, GotoIs
<1>9. Proper(Settle(k))' /\ \A l, d : Passes(l, k, d) => Passes(l, Settle(k), d)
  <2>1. Proper(k)'
    BY <1>5, <1>7, ProperSame
  <2>2. \/ Settle(k) = k
        \/ Settle(k) = Idle /\ Proper(Idle)' /\ \A l, d : Passes(k, l, d)
    BY SettleProper
  <2>3. QED
    BY <2>1, <2>2 DEF Passes
<1>10. PICK j : j = handler'[c] /\ Proper(j)' /\ \A l, d : Passes(l, k, d) => Passes(l, j, d)
  BY <1>8, <1>9
<1>11. \A e \in Conns : handler'[e] = handler[e] \/ Proper(handler[e])'
  BY <1>8, <1>10
<1>12. ASSUME NEW d \in Conns, Hears(d)', d # p
       PROVE  /\ Hears(d) /\ view'[d] = view[d] /\ out'[d] = out[d]
              /\ \A e \in Conns : handler'[e] = handler[e] \/ Passes(handler[e], handler'[e], d)
  <2>1. Hears(d)
    BY <1>2, <1>4, <1>12 DEF Hears
  <2>2. Passes(h, k, d)
    BY <1>1, <1>12 DEF Passes, Covers, Anew, Ahead
  <2>3. QED
    BY <1>1, <1>2, <1>4, <1>8, <1>10, <1>12, <2>1, <2>2
<1>13. ASSUME Hears(p)' PROVE Caught(p)'
  <2>1. Hears(p) /\ out'[p] = Append(out[p], m)
    BY <1>2, <1>4, <1>13 DEF Hears
  <2>2. PICK v : Leads(view[p], out[p], v) /\ (Renewed(p) \/ Reached(p, v))
    BY <2>1 DEF Catching, Caught
  <2>3. PICK y : y = Handled(v, m)
    OBVIOUS
  <2>4. ASSUME v \in Views PROVE Renewed(p)' \/ Reached(p, y)'
    <3>1. CASE h.then = "run"
      <4>1. m = StartMsg(Settings) /\ Board.revealed = {}
        <5>1. h.msgs = <<StartMsg(Settings)>> /\ Board.revealed = {}
          BY <1>1, <1>6, <3>1 DEF Proper
        <5>2. \A x : Head(<<x>>) = x
          OBVIOUS
        <5>3. QED
          BY <1>3, <5>1, <5>2
      <4>2. game # 0 /\ Board.width = Settings.width /\ Board.height = Settings.height
        <5>1. game # 0
          BY <1>1, <3>1 DEF HandlerOK
        <5>2. game \in DOMAIN games
          BY <5>1, RunningGame
        <5>3. QED
          BY <5>1, <5>2, GameAt DEF Board, Settings, GameOK
      <4>3. y = StartView(Settings)
        BY <2>3, <4>1 DEF Handled, StartMsg
      <4>4. Right(y, Board)
        BY <4>2, <4>3, StartSeen
      <4>5. QED
        BY <1>2, <1>5, <4>1, <4>2, <4>4 DEF Reached, SameGame
    <3>2. CASE h.then # "run" /\ Renewed(p)
      <4>1. PICK f \in Conns : Anew(handler[f], p)
        BY <3>2 DEF Renewed
      <4>2. f # c
        BY <1>1, <3>2, <4>1 DEF Anew
      <4>3. PICK n : n = handler[f] /\ n = handler'[f]
        BY <1>8, <4>2
      <4>4. Anew(n, p)'
        BY <4>1, <4>3, AnewSame
      <4>5. QED
        BY <4>3, <4>4 DEF Renewed
    <3>3. CASE h.then # "run" /\ Reached(p, v)
      <4>1. SUFFICES ASSUME y.screen = "game"
                     PROVE  Reached(p, y)'
        BY DEF Reached
      <4>2. /\ game # 0 /\ Right(y, Board)
            /\ joining[p].pc # "cells" =>
                 \A e \in Board.revealed :
                   \/ Seen(y, e)
                   \/ joining[p].pc = "sendCells" /\ Tells(joining[p].msg.updates, Board, e)
                   \/ \E f \in Conns \ {c} : Covers(handler[f], p, e)
        BY <1>1, <1>3, <2>3, <2>4, <3>3, <4>1, SendReached
      <4>3. ASSUME NEW f \in Conns \ {c}, NEW e
            PROVE  Covers(handler[f], p, e) => Covers(handler[f], p, e)'
        <5>1. PICK n : n = handler[f] /\ n = handler'[f]
          BY <1>8
        <5>2. Covers(n, p, e)' <=> Covers(n, p, e)
          BY <1>5, CoversSame
        <5>3. QED
          BY <5>1, <5>2
      <4>4. QED
        BY <1>2, <1>5, <4>2, <4>3 DEF Reached, SameGame
    <3>4. QED
      BY <2>2, <3>1, <3>2, <3>3
  <2>5. QED
    BY <1>2, <2>1, <2>2, <2>3, <2>4, SendCaught
<1>14. \A d \in Conns : Hears(d)' =>
         \/ Caught(d)'
         \/ /\ Hears(d) /\ view'[d] = view[d] /\ out'[d] = out[d]
            /\ joining'[d] = joining[d]
            /\ \A e \in Conns : handler'[e] = handler[e] \/ Passes(handler[e], handler'[e], d)
  BY <1>2, <1>12, <1>13
<1>15. QED
  BY <1>2, <1>5, <1>11, <1>14, CatchingBy

\* The client handles a message it was to handle.
LEMMA DeliverCatching ==
  ASSUME Recorded, Catching, NEW c \in Conns, Deliver(c)
  PROVE  Catching'
<1>0. out \in [Conns -> Seq(Msgs)] /\ view \in [Conns -> Views]
  BY DEF Recorded, Typed, TypedNet
<1>1. /\ out[c] # << >> /\ view[c].screen # "dead"
      /\ view' = [view EXCEPT ![c] = Handled(@, Head(out[c]))]
      /\ out' = [out EXCEPT ![c] = Tail(@)]
      /\ UNCHANGED <<games, game, players, connected, handler, joining, lost>>
  BY DEF Deliver, server, history
<1>2. SameGame
  BY <1>1, SameIs
<1>3. ASSUME NEW d \in Conns, Hears(d)' PROVE Hears(d)
  BY <1>0, <1>1, <1>3 DEF Hears
<1>4. ASSUME Hears(c)' PROVE Caught(c)'
  <2>1. PICK x : Leads(view[c], out[c], x) /\ (Renewed(c) \/ Reached(c, x))
    BY <1>3, <1>4 DEF Catching, Caught
  <2>2. Leads(Handled(view[c], Head(out[c])), Tail(out[c]), x)
    BY <1>0, <1>1, <2>1, LeadsOn
  <2>3. view'[c] = Handled(view[c], Head(out[c])) /\ out'[c] = Tail(out[c])
    BY <1>0, <1>1
  <2>4. Leads(view[c], out[c], x)'
    BY <2>2, <2>3 DEF Leads
  <2>5. \A d \in Conns : \A h : h = handler[d] => Passes(h, h, c)
    BY DEF Passes
  <2>6. \A d \in Conns : Passes(handler[d], handler'[d], c)
    BY <1>1, <2>5
  <2>7. Renewed(c)' \/ Reached(c, x)'
    BY <1>1, <1>2, <2>1, <2>6, ReachedSame, RenewedSame
  <2>8. QED
    BY <2>4, <2>7 DEF Caught
<1>5. \A d \in Conns \ {c} : view'[d] = view[d] /\ out'[d] = out[d]
  BY <1>0, <1>1
<1>6. \A d \in Conns : Hears(d)' =>
        \/ Caught(d)'
        \/ /\ Hears(d) /\ view'[d] = view[d] /\ out'[d] = out[d]
           /\ joining'[d] = joining[d]
           /\ \A e \in Conns : handler'[e] = handler[e] \/ Passes(handler[e], handler'[e], d)
  BY <1>1, <1>3, <1>4, <1>5
<1>7. QED
  BY <1>1, <1>2, <1>6, CatchingBy

\* The mode's part of a move, which changes neither board nor cells.
LEMMA MoveModeCatching ==
  ASSUME Recorded, Catching, NEW c \in Conns, MoveMode(c)
  PROVE  Catching'
<1> USE DEF Recorded, Typed
<1>0. handler \in [Conns -> Handlers]
  BY DEF TypedHandlers
<1>1. PICK h \in Modes, g \in DOMAIN games, x \in GameRecs :
        /\ h = handler[c] /\ h.pc = "mode" /\ g = h.g
        /\ x = games[g] /\ GameOK(x) /\ h.updated \subseteq Cells(x.board)
        /\ games' = IF x.params.mode = "Coop"
                    THEN [games EXCEPT ![g] =
                            [board |-> x.board, params |-> x.params,
                             marks |-> NewMarks(x.marks, x.board, c, h.updated),
                             scores |-> NewScores(x.scores, x.board, c, h.updated)]]
                    ELSE games
  BY MoveModeIs
<1>2. UNCHANGED <<game, players, connected, joining, out, view, lost>>
  BY DEF MoveMode, history
<1>3. g = game
  BY <1>1 DEF Catching, Proper
<1>4. PICK marks : marks = NewMarks(x.marks, x.board, c, h.updated)
  OBVIOUS
<1>5. PICK info : info = IF x.params.mode = "Coop"
                         THEN <<InfoMsg([e \in h.updated |-> marks[e]])>> ELSE << >>
  OBVIOUS
<1>6. PICK k : k = [kind |-> "move", pc |-> "encode", g |-> g, result |-> h.result,
                    updated |-> h.updated, info |-> info]
  OBVIOUS
<1>7. Goto(c, k)
  BY <1>1, <1>4, <1>5, <1>6 DEF MoveMode
<1>8. SameGame
  <2>1. CASE x.params.mode = "Coop"
    BY <1>1, <1>2, <1>3, <2>1 DEF SameGame, Board, Settings
  <2>2. CASE x.params.mode # "Coop"
    BY <1>1, <1>2, <2>2, SameIs
  <2>3. QED
    BY <2>1, <2>2
<1>9. \A i \in DOMAIN info : info[i].kind = "Info"
  <2>1. ASSUME NEW m, m.kind = "Info", info = <<m>> \/ info = << >>
        PROVE  \A i \in DOMAIN info : info[i].kind = "Info"
    BY <2>1
  <2>2. PICK m : m = InfoMsg([e \in h.updated |-> marks[e]])
    OBVIOUS
  <2>3. m.kind = "Info" /\ (info = <<m>> \/ info = << >>)
    BY <1>5, <2>2 DEF InfoMsg
  <2>4. QED
    BY <2>1, <2>3
<1>10. k.pc = "encode" /\ k.g = game /\ k.updated = h.updated /\ k.info = info
  BY <1>3, <1>6
<1>11. Proper(k)'
  <2>1. Proper(k)
    BY <1>9, <1>10 DEF Proper
  <2>2. QED
    BY <1>8, <2>1, ProperSame
<1>12. \A d : Passes(h, k, d)
  BY <1>1, <1>10 DEF Passes, Covers, Anew
<1>13. \A d \in Conns : Hears(d)' =>
         Hears(d) /\ view'[d] = view[d] /\ out'[d] = out[d] /\ Passes(handler[c], k, d)
  BY <1>1, <1>2, <1>12 DEF Hears
<1>14. QED
  BY <1>0, <1>2, <1>7, <1>8, <1>11, <1>13, CatchingOn

\* A sequence that starts with m and goes on with others.
LEMMA HeadFirst ==
  ASSUME NEW m \in Msgs, NEW a \in Seq(Msgs), NEW b \in Seq(Msgs),
         \A i \in DOMAIN a : a[i].kind \in {"Info", "End"},
         \A i \in DOMAIN b : b[i].kind \in {"Info", "End"},
         NEW s, s = (<<m>> \o a) \o b
  PROVE  /\ s \in Seq(Msgs) /\ s # << >> /\ Head(s) = m
         /\ \A i \in DOMAIN Tail(s) : Tail(s)[i].kind \in {"Info", "End"}
<1>1. /\ <<m>> \in Seq(Msgs) /\ Len(<<m>>) = 1 /\ <<m>>[1] = m
  OBVIOUS
<1>2. /\ Len(a) \in Nat /\ DOMAIN a = 1 .. Len(a) /\ Len(b) \in Nat /\ DOMAIN b = 1 .. Len(b)
  BY LenProperties
<1>3. PICK t \in Seq(Msgs) : t = <<m>> \o a
  BY <1>1, ConcatProperties, Zenon
<1>4. PICK n \in Nat, l \in Nat : n = Len(a) /\ l = Len(b)
  BY <1>2, Zenon
<1>5. /\ Len(t) = 1 + n /\ t[1] = m
      /\ \A i \in 2 .. 1 + n : t[i].kind \in {"Info", "End"}
  <2>1. /\ Len(t) = 1 + n
        /\ \A i \in 1 .. 1 + n : t[i] = IF i <= 1 THEN <<m>>[i] ELSE a[i - 1]
    BY <1>1, <1>3, <1>4, ConcatProperties
  <2>2. ASSUME NEW i \in 2 .. 1 + n PROVE t[i].kind \in {"Info", "End"}
    <3>1. i \in 1 .. 1 + n /\ ~(i <= 1) /\ i - 1 \in 1 .. n
      BY <2>2
    <3>2. QED
      BY <1>2, <1>4, <2>1, <3>1
  <2>3. 1 \in 1 .. 1 + n /\ 1 <= 1
    OBVIOUS
  <2>4. QED
    BY <1>1, <2>1, <2>2, <2>3
<1>6. /\ s \in Seq(Msgs) /\ Len(s) = (1 + n) + l /\ s[1] = m
      /\ \A i \in 2 .. (1 + n) + l : s[i].kind \in {"Info", "End"}
  <2>1. /\ s \in Seq(Msgs) /\ Len(s) = (1 + n) + l
        /\ \A i \in 1 .. (1 + n) + l : s[i] = IF i <= 1 + n THEN t[i] ELSE b[i - (1 + n)]
    BY <1>3, <1>4, <1>5, ConcatProperties
  <2>2. ASSUME NEW i \in 2 .. (1 + n) + l PROVE s[i].kind \in {"Info", "End"}
    <3>1. i \in 1 .. (1 + n) + l
      BY <2>2
    <3>2. CASE i <= 1 + n
      <4>1. i \in 2 .. 1 + n /\ s[i] = t[i]
        BY <2>1, <3>1, <3>2
      <4>2. QED
        BY <1>5, <4>1
    <3>3. CASE ~(i <= 1 + n)
      <4>1. i - (1 + n) \in 1 .. l /\ s[i] = b[i - (1 + n)]
        BY <2>1, <3>1, <3>3
      <4>2. QED
        BY <1>2, <1>4, <4>1
    <3>4. QED
      BY <3>2, <3>3
  <2>3. 1 \in 1 .. (1 + n) + l /\ 1 <= 1 + n
    OBVIOUS
  <2>4. QED
    BY <1>5, <2>1, <2>2, <2>3
<1>7. PICK k \in Nat : Len(s) = 1 + k /\ k = n + l
  BY <1>6
<1>8. s # << >>
  BY <1>6, <1>7
<1>9. /\ Head(s) = s[1] /\ DOMAIN Tail(s) = 1 .. k
      /\ \A i \in 1 .. k : Tail(s)[i] = s[i + 1]
  <2>1. Len(s) - 1 = k
    BY <1>7
  <2>2. Tail(s) \in Seq(Msgs) /\ Len(Tail(s)) = k
    BY <1>6, <1>8, <2>1, HeadTailProperties
  <2>3. QED
    BY <1>6, <1>8, <2>1, <2>2, HeadTailProperties, LenProperties
<1>10. ASSUME NEW i \in 1 .. k PROVE Tail(s)[i].kind \in {"Info", "End"}
  <2>1. i + 1 \in 2 .. (1 + n) + l
    BY <1>7
  <2>2. QED
    BY <1>6, <1>9, <2>1
<1>11. QED
  BY <1>6, <1>8, <1>9, <1>10

\* The messages of a move: first its cells, if there are any.
LEMMA MessagesAre ==
  ASSUME Typed, NEW h \in Encodes, HandlerOK(h), h.pc = "encode", Proper(h),
         NEW s, s = MoveMessages(h)
  PROVE  /\ s # << >> => \A i \in DOMAIN Tail(s) : Tail(s)[i].kind \in {"Info", "End"}
         /\ h.updated = {} /\ s # << >> => Head(s).kind = "End"
         /\ h.updated # {} =>
              s # << >> /\ Head(s) = CellsMsg(CreateCellUpdates(Board, Board, h.updated))
<1>1. /\ h.g = game /\ \A i \in DOMAIN h.info : h.info[i].kind = "Info"
  BY DEF Proper
<1>2. PICK b : b = [i \in DOMAIN EndOf(h.result) |-> EndMsg(EndOf(h.result)[i])]
  OBVIOUS
<1>3. b = << >> \/ \E e \in {"Win", "Loss"} : b = <<EndMsg(e)>>
  BY <1>2, EndInIs DEF EndIn
<1>4. b \in Seq(Msgs) /\ \A i \in DOMAIN b : b[i].kind = "End"
  <2>1. << >> \in Seq(Msgs) /\ DOMAIN << >> = {}
    OBVIOUS
  <2>2. ASSUME NEW m \in Msgs, m.kind = "End", b = <<m>>
        PROVE  b \in Seq(Msgs) /\ \A i \in DOMAIN b : b[i].kind = "End"
    <3>1. <<m>> \in Seq(Msgs) /\ DOMAIN <<m>> = {1} /\ <<m>>[1] = m
      OBVIOUS
    <3>2. QED
      BY <2>2, <3>1
  <2>3. \A e \in {"Win", "Loss"} : EndMsg(e) \in Msgs /\ EndMsg(e).kind = "End"
    BY MsgsAre DEF EndMsg
  <2>4. QED
    BY <1>3, <2>1, <2>2, <2>3
<1>5. PICK u : u = CreateCellUpdates(Board, Board, h.updated)
  OBVIOUS
<1>6. s = (IF h.updated = {} THEN << >> ELSE <<CellsMsg(u)>> \o h.info) \o b
  BY <1>1, <1>2, <1>5 DEF MoveMessages, Board
<1>7. CASE h.updated = {}
  <2>1. s = b
    BY <1>4, <1>6, <1>7, ConcatEmptySeq
  <2>2. \A x : Tail(<<x>>) = << >> /\ Head(<<x>>) = x
    OBVIOUS
  <2>3. ASSUME NEW e \in {"Win", "Loss"}, b = <<EndMsg(e)>>
        PROVE  Tail(b) = << >> /\ Head(b).kind = "End"
    <3>1. PICK m : m = EndMsg(e)
      OBVIOUS
    <3>2. m.kind = "End"
      BY <3>1 DEF EndMsg
    <3>3. QED
      BY <2>2, <2>3, <3>1, <3>2
  <2>4. DOMAIN << >> = {}
    OBVIOUS
  <2>5. b # << >> => Tail(b) = << >> /\ Head(b).kind = "End"
    BY <1>3, <2>3
  <2>6. QED
    BY <1>7, <2>1, <2>4, <2>5
<1>8. CASE h.updated # {}
  <2>1. CellsMsg(u) \in Msgs
    <3>1. game \in DOMAIN games
      BY <1>1 DEF HandlerOK
    <3>2. IsBoard(Board)
      BY <3>1, GameAt DEF Typed, Board
    <3>3. h.updated \in SUBSET Spots
      BY DEF Encodes
    <3>4. QED
      BY <1>5, <3>2, <3>3, UpdatesAre, MsgsAre
  <2>2. PICK m \in Msgs : m = CellsMsg(u)
    BY <2>1
  <2>3. PICK a \in Seq(Msgs) : a = h.info
    BY DEF Encodes
  <2>4. \A i \in DOMAIN a : a[i].kind \in {"Info", "End"}
    BY <1>1, <2>3
  <2>5. \A i \in DOMAIN b : b[i].kind \in {"Info", "End"}
    BY <1>4
  <2>6. s = (<<m>> \o a) \o b
    BY <1>6, <1>8, <2>2, <2>3
  <2>7. /\ s # << >> /\ Head(s) = m
        /\ \A i \in DOMAIN Tail(s) : Tail(s)[i].kind \in {"Info", "End"}
    BY <1>4, <2>4, <2>5, <2>6, HeadFirst
  <2>8. QED
    BY <1>5, <1>8, <2>2, <2>7
<1>9. QED
  BY <1>7, <1>8

\* The messages of a move tell of every cell the move revealed.
LEMMA MoveEncodeCatching ==
  ASSUME Recorded, Catching, NEW c \in Conns, MoveEncode(c)
  PROVE  Catching'
<1> USE DEF Recorded, Typed
<1>0. handler \in [Conns -> Handlers]
  BY DEF TypedHandlers
<1>1. PICK h \in Encodes : h = handler[c] /\ HandlerOK(h) /\ h.pc = "encode" /\ Proper(h)
  BY HandlerFields DEF MoveEncode, TypedHandlers, Catching
<1>2. UNCHANGED <<games, game, players, connected, joining, out, view, lost>>
  BY DEF MoveEncode, server
<1>3. SameGame
  BY <1>2, SameIs
<1>4. PICK s : s = MoveMessages(h)
  OBVIOUS
<1>5. PICK then \in {"stop", "return"} :
        then = IF EndOf(h.result) # << >> THEN "stop" ELSE "return"
  OBVIOUS
<1>6. PICK k : k = Casting("move", s, then, h.g)
  OBVIOUS
<1>7. k.pc = "next" /\ k.msgs = s /\ k.then = then /\ Goto(c, k)
  <2>1. Goto(c, k)
    BY <1>1, <1>4, <1>5, <1>6 DEF MoveEncode
  <2>2. QED
    BY <1>6, <2>1 DEF Casting
<1>8. /\ h.g = game /\ game \in DOMAIN games /\ h.updated \subseteq Cells(Board)
  BY <1>1 DEF Proper, HandlerOK, Board
<1>9. Sound(Board)
  BY <1>8, GameAt DEF Board
<1>10. PICK u : u = CreateCellUpdates(Board, Board, h.updated)
  OBVIOUS
<1>11. Honest(u, Board) /\ \A e \in h.updated : Tells(u, Board, e)
  BY <1>8, <1>9, <1>10, UpdatesHonest
<1>12. /\ s # << >> => \A i \in DOMAIN Tail(s) : Tail(s)[i].kind \in {"Info", "End"}
       /\ h.updated = {} /\ s # << >> => Head(s).kind = "End"
       /\ h.updated # {} => s # << >> /\ Head(s) = CellsMsg(u)
  BY <1>1, <1>4, <1>10, MessagesAre
<1>13. CellsMsg(u).kind = "Cells" /\ CellsMsg(u).updates = u
  BY DEF CellsMsg
<1>14. Proper(k)'
  <2>1. s # << >> => /\ Head(s).kind \in {"Cells", "End"}
                     /\ Head(s).kind = "Cells" => Honest(Head(s).updates, Board)
    BY <1>11, <1>12, <1>13
  <2>2. Proper(k)
    BY <1>5, <1>7, <1>12, <2>1 DEF Proper
  <2>3. QED
    BY <1>3, <2>2, ProperSame
<1>15. \A d : Passes(h, k, d)
  <2>1. \A e \in h.updated : \A d : Covers(k, d, e)
    BY <1>7, <1>11, <1>12, <1>13 DEF Covers, Ahead
  <2>2. QED
    BY <1>1, <2>1 DEF Passes, Covers, Anew
<1>16. \A d \in Conns : Hears(d)' =>
         Hears(d) /\ view'[d] = view[d] /\ out'[d] = out[d] /\ Passes(handler[c], k, d)
  BY <1>1, <1>2, <1>15 DEF Hears
<1>17. QED
  BY <1>0, <1>2, <1>3, <1>7, <1>14, <1>16, CatchingOn

\* What works.
LEMMA WorkingIs ==
  ASSUME Recorded, NEW c \in Conns, handler[c].pc \notin {"idle", "answer"}
  PROVE  /\ Working(c)
         /\ handler[c].pc \in {"next", "cast"} /\ handler[c].then \in {"create", "run"} =>
              handler[c].kind = "start"
  BY DEF Recorded, Typed, TypedHandlers, HandlerOK, Working, Stuck, Idle

\* The board's part of a move: from now on its cells are to be told.
LEMMA MoveBoardCatching ==
  ASSUME Recorded, Mild, Catching, NEW c \in Conns, MoveBoard(c)
  PROVE  Catching'
<1> USE DEF Recorded, Typed
<1>0. handler \in [Conns -> Handlers]
  BY DEF TypedHandlers
<1>1. /\ handler[c].pc = "want" /\ ~Busy(handler[c])
      /\ UNCHANGED <<game, players, joining, lost>>
  BY DEF MoveBoard, history, Busy
<1>2. CASE handler'[c].pc = "idle"
  <2>1. PICK r : r = MakeMove(games[game].board, handler[c].type, handler[c].cell)
    OBVIOUS
  <2>2. r.result = "Error"
    <3>1. SUFFICES ASSUME r.result # "Error" PROVE FALSE
      OBVIOUS
    <3>2. PICK k : k = [kind |-> "move", pc |-> "mode", g |-> game,
                        result |-> r.result, updated |-> r.updated]
      OBVIOUS
    <3>3. Goto(c, k)
      BY <2>1, <3>1, <3>2 DEF MoveBoard
    <3>4. Settle(k) = k /\ k.pc = "mode"
      BY <3>2 DEF Settle, Finished
    <3>5. QED
      BY <1>0, <1>2, <3>3, <3>4, GotoIs
  <2>3. Goto(c, Idle) /\ Drop(c) /\ UNCHANGED games
    BY <2>1, <2>2 DEF MoveBoard
  <2>4. SameGame
    BY <1>1, <2>3, SameIs
  <2>5. ~Busy(Idle)
    BY DEF Busy, Idle
  <2>6. Proper(Idle)' /\ \A d : Passes(handler[c], Idle, d)
    BY <1>1, <2>5, RestProper
  <2>7. \A d \in Conns : Hears(d)' =>
          Hears(d) /\ view'[d] = view[d] /\ out'[d] = out[d] /\ Passes(handler[c], Idle, d)
    BY <1>1, <2>3, <2>6, DropHears
  <2>8. QED
    BY <1>0, <1>1, <2>3, <2>4, <2>6, <2>7, CatchingOn
<1>3. CASE handler'[c].pc # "idle"
  <2>1. PICK x, r :
          /\ x \in GameRecs
          /\ game \in DOMAIN games /\ x = games[game] /\ GameOK(x) /\ moveMux = 0
          /\ handler[c].pc = "want" /\ r = MakeMove(x.board, handler[c].type, handler[c].cell)
          /\ r.result # "Error" /\ r.board \in Boards /\ SameMines(x.board, r.board)
          /\ Cells(r.board) = Cells(x.board) /\ r.updated \subseteq Cells(x.board)
          /\ DOMAIN games' = DOMAIN games
          /\ \A g \in DOMAIN games \ {game} : games'[g] = games[g]
          /\ games'[game] = [board |-> r.board, params |-> x.params, marks |-> x.marks,
                             scores |-> x.scores]
          /\ handler'[c] = [kind |-> "move", pc |-> "mode", g |-> game,
                            result |-> r.result, updated |-> r.updated]
    BY <1>3, MoveBoardMakes
  <2>2. UNCHANGED <<connected, out, view>>
    <3>1. r = MakeMove(games[game].board, handler[c].type, handler[c].cell)
      BY <2>1
    <3>2. QED
      BY <2>1, <3>1 DEF MoveBoard
  <2>3. \A e \in Conns \ {c} : handler'[e] = handler[e]
    BY Handling DEF HandlerStep
  <2>4. PICK b, after, up :
          /\ b = Board /\ after = Board' /\ up = r.updated /\ Settings' = Settings
          /\ Follows(b, after, up)
    <3>1. Board = x.board /\ Board' = r.board /\ Settings' = Settings
      BY <1>1, <2>1 DEF Board, Settings
    <3>2. Sound(x.board)
      BY <2>1, GameAt
    <3>3. Follows(x.board, r.board, r.updated)
      BY <2>1, <3>2, MoveFollows
    <3>4. QED
      BY <3>1, <3>3
  <2>5. /\ \A u : Honest(u, b) => Honest(u, after)
        /\ \A u : \A e \in b.revealed : Tells(u, b, e) => Tells(u, after, e)
        /\ \A v : Right(v, b) => Right(v, after)
        /\ \A e \in after.revealed : e \in b.revealed \/ e \in up
    BY <2>4, RightStays
  <2>6. \A e \in Conns : handler[e].pc \in {"next", "cast"} => handler[e].then # "run"
    <3>1. SUFFICES ASSUME NEW e \in Conns, handler[e].pc \in {"next", "cast"},
                          handler[e].then = "run"
                   PROVE  FALSE
      OBVIOUS
    <3>2. Working(e) /\ handler[e].kind = "start" /\ Working(c) /\ c # e
      BY <1>1, <3>1, WorkingIs
    <3>3. QED
      BY <3>2, MildIs
  <2>7. ASSUME NEW e \in Conns PROVE Proper(handler[e])'
    <3>1. CASE e = c
      <4>1. handler'[e].pc = "mode" /\ handler'[e].g = game
        BY <2>1, <3>1
      <4>2. QED
        BY <1>1, <4>1 DEF Proper
    <3>2. CASE e # c
      <4>1. PICK h : h = handler[e] /\ h = handler'[e] /\ Proper(h)
        BY <2>3, <3>2 DEF Catching
      <4>2. h.pc \in {"next", "cast"} => h.then # "run"
        BY <2>6, <4>1
      <4>3. Proper(h)'
        <5>1. /\ h.pc \in {"mode", "encode"} => h.g = game'
              /\ h.pc = "encode" => \A i \in DOMAIN h.info : h.info[i].kind = "Info"
          BY <1>1, <4>1 DEF Proper
        <5>2. h.pc \in {"next", "cast"} /\ h.msgs # << >> =>
                /\ Head(h.msgs).kind = "Cells" => Honest(Head(h.msgs).updates, after)
                /\ Head(h.msgs).kind # "Start"
                /\ \A i \in DOMAIN Tail(h.msgs) : Tail(h.msgs)[i].kind \in {"Info", "End"}
          BY <2>4, <2>5, <4>1, <4>2 DEF Proper
        <5>3. QED
          BY <2>4, <4>2, <5>1, <5>2 DEF Proper
      <4>4. QED
        BY <4>1, <4>3
    <3>3. QED
      BY <3>1, <3>2
  <2>8. ASSUME NEW e \in Conns PROVE Fitting(joining[e])'
    <3>1. PICK j : j = joining[e] /\ j = joining'[e] /\ Fitting(j)
      BY <1>1 DEF Catching
    <3>2. Fitting(j)'
      BY <1>1, <2>4, <2>5, <3>1 DEF Fitting
    <3>3. QED
      BY <3>1, <3>2
  <2>9. ASSUME NEW d \in Conns, Hears(d)' PROVE Caught(d)'
    <3>1. Hears(d)
      BY <1>1, <2>2, <2>9 DEF Hears
    <3>2. ~Renewed(d)
      BY <2>6 DEF Renewed, Anew
    <3>3. PICK v : Leads(view[d], out[d], v) /\ Reached(d, v)
      BY <3>1, <3>2 DEF Catching, Caught
    <3>4. Leads(view[d], out[d], v)'
      BY <2>2, <3>3 DEF Leads
    <3>5. ASSUME NEW f \in Conns, NEW e \in b.revealed, Covers(handler[f], d, e)
          PROVE  Covers(handler[f], d, e)'
      <4>1. f # c
        BY <1>1, <3>5 DEF Covers
      <4>2. PICK h : h = handler[f] /\ h = handler'[f]
        BY <2>3, <4>1
      <4>3. Covers(h, d, e)'
        BY <2>4, <2>5, <3>5, <4>2 DEF Covers, Ahead
      <4>4. QED
        BY <4>2, <4>3
    <3>6. ASSUME NEW e \in up PROVE Covers(handler[c], d, e)'
      <4>1. handler'[c].pc = "mode" /\ handler'[c].updated = up
        BY <2>1, <2>4
      <4>2. QED
        BY <3>6, <4>1 DEF Covers
    <3>7. Reached(d, v)'
      <4>1. SUFFICES ASSUME v.screen = "game"
                     PROVE  /\ game # 0 /\ Right(v, after)
                            /\ joining[d].pc # "cells" =>
                                 \A e \in after.revealed :
                                   \/ Seen(v, e)
                                   \/ /\ joining[d].pc = "sendCells"
                                      /\ Tells(joining[d].msg.updates, after, e)
                                   \/ \E f \in Conns : Covers(handler[f], d, e)'
        BY <1>1, <2>4 DEF Reached
      <4>2. /\ game # 0 /\ Right(v, b)
            /\ joining[d].pc # "cells" =>
                 \A e \in b.revealed :
                   \/ Seen(v, e)
                   \/ joining[d].pc = "sendCells" /\ Tells(joining[d].msg.updates, b, e)
                   \/ \E f \in Conns : Covers(handler[f], d, e)
        BY <2>4, <3>3, <4>1 DEF Reached
      <4>3. QED
        BY <2>5, <3>5, <3>6, <4>2
    <3>8. QED
      BY <3>4, <3>7 DEF Caught
  <2>10. QED
    BY <2>7, <2>8, <2>9 DEF Catching
<1>4. QED
  BY <1>2, <1>3

\* A new game: whoever hears is to be told that it starts, and nobody else
\* does anything.
LEMMA StartCreateCatching ==
  ASSUME Recorded, Mild, Catching, NEW c \in Conns, StartCreate(c)
  PROVE  Catching'
<1> USE DEF Recorded, Typed
<1>0. handler \in [Conns -> Handlers] /\ games \in Seq(GameRecs)
  BY DEF TypedHandlers, TypedGames
<1>1. PICK h \in Casts : h = handler[c] /\ HandlerOK(h)
  BY CastFields DEF StartCreate
<1>2. /\ h.pc = "next" /\ h.msgs = << >> /\ h.then = "create"
      /\ UNCHANGED <<players, joining, lost>>
  BY <1>1 DEF StartCreate
<1>3. CASE ~ValidParams(h.arg)
  <2>1. Goto(c, Idle) /\ Drop(c) /\ UNCHANGED <<games, game>>
    BY <1>1, <1>3 DEF StartCreate
  <2>2. SameGame
    BY <2>1, SameIs
  <2>3. ~Busy(Idle)
    BY DEF Busy, Idle
  <2>4. Proper(Idle)' /\ \A d : Passes(handler[c], Idle, d)
    BY <1>1, <1>2, <2>3, RestProper, SilentProper
  <2>5. \A d \in Conns : Hears(d)' =>
          Hears(d) /\ view'[d] = view[d] /\ out'[d] = out[d] /\ Passes(handler[c], Idle, d)
    BY <1>2, <2>1, <2>4, DropHears
  <2>6. QED
    BY <1>0, <1>2, <2>1, <2>2, <2>4, <2>5, CatchingOn
<1>4. CASE ValidParams(h.arg)
  <2>1. PICK p \in GoodParams : p = h.arg
    BY <1>1, <1>2, <1>4 DEF GoodParams, HandlerOK
  <2>2. /\ \E b \in CreateBoard(p) :
             games' = Append(games, [board |-> b, params |-> p, marks |-> NoMarks(b),
                                     scores |-> [pid \in PlayerIds |-> 0]])
        /\ game' = Len(games) + 1
        /\ Goto(c, Casting("start", <<StartMsg(p)>>, "run", p))
        /\ UNCHANGED <<connected, out, view>>
    BY <1>1, <1>4, <2>1 DEF StartCreate
  <2>3. PICK b \in CreateBoard(p) :
          games' = Append(games, [board |-> b, params |-> p, marks |-> NoMarks(b),
                                  scores |-> [pid \in PlayerIds |-> 0]])
    BY <2>2
  <2>4. PICK x : x = [board |-> b, params |-> p, marks |-> NoMarks(b),
                      scores |-> [pid \in PlayerIds |-> 0]]
    OBVIOUS
  <2>5. Board' = b /\ Settings' = p
    <3>1. x \in GameRecs
      <4>1. [pid \in PlayerIds |-> 0] \in [PlayerIds -> Int]
        OBVIOUS
      <4>2. QED
        BY <2>4, <4>1, CreateIs DEF GameRecs
    <3>2. games'[game'] = x
      BY <1>0, <2>2, <2>3, <2>4, <3>1, AppendProperties
    <3>3. QED
      BY <2>4, <3>2 DEF Board, Settings
  <2>6. PICK k : k = Casting("start", <<StartMsg(p)>>, "run", p)
    OBVIOUS
  <2>7. /\ k.pc = "next" /\ k.msgs = <<StartMsg(p)>> /\ k.then = "run" /\ Goto(c, k)
    BY <2>2, <2>6 DEF Casting
  <2>8. handler'[c] = k /\ \A e \in Conns \ {c} : handler'[e] = handler[e]
    <3>1. Settle(k) = k
      BY <2>7 DEF Settle
    <3>2. QED
      BY <1>0, <2>7, <3>1, GotoIs
  <2>9. PICK m \in Msgs : m = StartMsg(p) /\ m.kind = "Start"
    BY MsgsAre DEF StartMsg
  <2>10. k.msgs # << >> /\ Head(k.msgs) = m /\ Tail(k.msgs) = << >>
    <3>1. <<m>> # << >> /\ Head(<<m>>) = m /\ Tail(<<m>>) = << >>
      OBVIOUS
    <3>2. QED
      BY <2>7, <2>9, <3>1
  <2>11. Proper(k)'
    <3>1. b.revealed = {}
      BY DEF CreateBoard
    <3>2. k.msgs = <<StartMsg(Settings')>> /\ (Board').revealed = {}
      BY <2>5, <2>7, <3>1
    <3>3. QED
      BY <2>7, <2>9, <2>10, <3>2 DEF Proper
  <2>12. Working(c) /\ handler[c].kind = "start"
    BY <1>1, <1>2, WorkingIs
  <2>13. ASSUME NEW e \in Conns PROVE Proper(handler[e])'
    <3>1. CASE e = c
      BY <2>8, <2>11, <3>1
    <3>2. CASE e # c
      <4>1. PICK n : n = handler[e] /\ n = handler'[e]
        BY <2>8, <3>2
      <4>2. ~Busy(n)
        BY <2>12, <3>2, <4>1, MildIs, RestsIs DEF Busy
      <4>3. Proper(n)'
        BY <4>2, RestProper
      <4>4. QED
        BY <4>1, <4>3
    <3>3. QED
      BY <3>1, <3>2
  <2>14. ASSUME NEW e \in Conns PROVE Fitting(joining[e])'
    <3>1. joining'[e].pc \notin {"sendStart", "sendCells"}
      BY <1>2, <2>12, MildIs DEF Entering, JoinDone
    <3>2. QED
      BY <3>1 DEF Fitting
  <2>15. ASSUME NEW d \in Conns, Hears(d)' PROVE Caught(d)'
    <3>1. Hears(d)
      BY <1>2, <2>2, <2>15 DEF Hears
    <3>2. PICK v : Leads(view[d], out[d], v)
      BY <3>1 DEF Catching, Caught
    <3>3. Leads(view[d], out[d], v)'
      BY <2>2, <3>2 DEF Leads
    <3>4. Anew(k, d)'
      BY <2>7, <2>10 DEF Anew, Ahead
    <3>5. Renewed(d)'
      BY <2>8, <3>4 DEF Renewed
    <3>6. QED
      BY <3>3, <3>5 DEF Caught
  <2>16. QED
    BY <2>13, <2>14, <2>15 DEF Catching
<1>5. QED
  BY <1>3, <1>4

-----------------------------------------------------------------------------
(***************************************************************************)
(* Every connection shows, or will, the cells revealed so far.             *)
(***************************************************************************)
Spreading == Mild => Catching

LEMMA InitSpreading == Init => Spreading
<1> SUFFICES ASSUME Init PROVE Catching
  BY DEF Spreading
<1>1. ASSUME NEW c \in Conns
      PROVE  Proper(handler[c]) /\ Fitting(joining[c]) /\ ~Hears(c)
  <2>1. handler[c] = Idle /\ joining[c].pc = "off" /\ players = {}
    BY DEF Init
  <2>2. ~Busy(Idle)
    BY DEF Busy, Idle
  <2>3. QED
    BY <2>1, <2>2, RestProper DEF Fitting, Hears
<1>2. QED
  BY <1>1 DEF Catching

LEMMA NextSpreading == Recorded /\ Newcomers /\ Spreading /\ [Next]_vars => Spreading'
<1> SUFFICES ASSUME Recorded, Newcomers, Spreading, [Next]_vars, Mild' PROVE Catching'
  BY DEF Spreading
<1>1. Mild /\ Catching
  <2>1. overlap \subseteq overlap'
    BY OverlapGrows DEF vars
  <2>2. Mild
    BY <2>1 DEF Mild
  <2>3. QED
    BY <2>2 DEF Spreading
<1>2. ASSUME NEW c \in Conns,
             \/ Accept(c) \/ AuthTimeout(c) \/ SwapHandlers(c) \/ JoinCheck(c)
             \/ JoinEncodeStart(c) \/ JoinSendStart(c) \/ JoinEncodeCells(c) \/ JoinSendCells(c)
             \/ Register(c)
      PROVE  Catching'
  BY <1>1, <1>2, JoinCatching, JoinCellsCatching, JoinSendCatching, RegisterCatching, Zenon
<1>3. ASSUME NEW c \in Conns,
             \/ ReadToken(c) \/ HandleStartGame(c) \/ HandleMove(c)
             \/ NoHandler(c) \/ Leave(c) \/ Deliver(c) \/ HandlersRace(c) \/ AuthAnswer(c)
      PROVE  Catching'
  <2>1. CASE ReadToken(c) \/ HandleStartGame(c) \/ HandleMove(c)
    BY <1>1, <2>1, RequestCatching
  <2>2. CASE Deliver(c)
    BY <1>1, <2>2, DeliverCatching
  <2>3. CASE NoHandler(c) \/ Leave(c) \/ HandlersRace(c) \/ AuthAnswer(c)
    BY <1>1, <2>3, OtherCatching
  <2>4. QED
    BY <1>3, <2>1, <2>2, <2>3, Zenon
<1>4. ASSUME NEW c \in Conns,
             \/ StartCreate(c) \/ StartRun(c) \/ MoveStop(c)
             \/ MoveBoard(c) \/ MoveMode(c) \/ MoveEncode(c) \/ BeginCast(c)
      PROVE  Catching'
  BY <1>1, <1>4, StartCreateCatching, RunStopCatching, MoveBoardCatching, MoveModeCatching,
     MoveEncodeCatching, BeginCastCatching, Zenon
<1>5. ASSUME NEW c \in Conns, NEW p \in players, SendTo(c, p)
      PROVE  Catching'
  <2>1. p \in Conns
    BY DEF Recorded, Typed, TypedNet
  <2>2. QED
    BY <1>1, <1>5, <2>1, SendToCatching
<1>6. CASE MapRace \/ UNCHANGED vars
  BY <1>1, <1>6, OtherCatching
<1>7. CASE Next
  BY <1>2, <1>3, <1>4, <1>5, <1>6, <1>7, StepIs, Zenon
<1>8. QED
  BY <1>6, <1>7

LEMMA SpreadingAlways == Spec => []Spreading
<1>1. Recorded /\ Showing /\ Spreading /\ [Next]_vars => Spreading'
  BY NextSpreading DEF Showing
<1>2. QED
  BY <1>1, InitSpreading, RecordedAlways, ShowingAlways, PTL DEF Spec

\* What the invariant says once everything is handled.
LEMMA SpreadingReveals ==
  ASSUME Recorded, Spreading
  PROVE  RevealsConverge
<1> SUFFICES ASSUME Mild, Quiet, NEW c \in Conns, UpToDate(c), view[c].screen = "game"
             PROVE  /\ RevealedAt(view[c]) = Board.revealed
                    /\ \A d \in RevealedAt(view[c]) :
                         view[c].grid[d].rev = CellValue(Board, Board, d)
  BY DEF RevealsConverge, Mild, Board
<1>0. view \in [Conns -> Views]
  BY DEF Recorded, Typed, TypedNet
<1>1. out[c] = << >> /\ Hears(c)
  BY DEF Quiet, UpToDate, Hears
<1>2. ASSUME NEW d \in Conns, Working(d) PROVE FALSE
  <2>1. <<"handler", d>> \in Activities
    BY <1>2 DEF Activities, Working
  <2>2. QED
    BY <2>1 DEF Quiet
<1>3. \A d \in Conns : \A e : ~Anew(handler[d], c) /\ ~Covers(handler[d], c, e)
  BY <1>2, RestsIs DEF Anew, Covers
<1>4. PICK v : Leads(view[c], out[c], v) /\ Reached(c, v)
  BY <1>1, <1>3 DEF Spreading, Catching, Caught, Renewed
<1>5. v = view[c]
  BY <1>0, <1>1, <1>4, LeadsNowhere
<1>6. joining[c].pc \notin {"cells", "sendCells"}
  BY DEF UpToDate, LetIn
<1>7. game # 0 /\ Right(v, Board) /\ \A e \in Board.revealed : Seen(v, e)
  BY <1>3, <1>4, <1>5, <1>6 DEF Reached
<1>8. Board.revealed \subseteq Cells(Board)
  <2>1. game \in DOMAIN games
    BY <1>7, RunningGame DEF Recorded, Typed
  <2>2. QED
    BY <2>1, GameAt DEF Board, Sound, IsBoard, Recorded, Typed
<1>9. QED
  BY <1>5, <1>7, <1>8 DEF Right, Seen, RevealedAt

\* Even when moves run beside each other and beside joins, every client that
\* was told everything ends up with the revealed cells of the board.
THEOREM RevealsCorrect == Spec => []RevealsConverge
<1>1. Recorded /\ Spreading => RevealsConverge
  BY SpreadingReveals
<1>2. QED
  BY <1>1, RecordedAlways, SpreadingAlways, PTL
=============================================================================
