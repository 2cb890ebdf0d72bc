---------------------------- MODULE ClientProofs ----------------------------
(***************************************************************************)
(* The safety properties of module Client, for any number of clicks on     *)
(* Connect, any sizes of boards and any number of attempts.                *)
(***************************************************************************)
EXTENDS Client, FiniteSetTheorems, TLAPS

-----------------------------------------------------------------------------
(***************************************************************************)
(* Types.  A goroutine that used up its attempts has given up, and the     *)
(* window gets no further without a matchmaking server: TypeOK alone does  *)
(* not bound the counters.                                                 *)
(***************************************************************************)
GivesUp ==
  /\ \A g \in Goroutines : attempts[g] = MaxAttempts => pc[g] = "gaveUp"
  /\ mmAttempts = MaxAttempts => crashed = "matchmaking"
  /\ crashed = "matchmaking" => mmAttempts = MaxAttempts

Flags == raced \in BOOLEAN /\ stale \in BOOLEAN /\ grew \in BOOLEAN

Typed == TypeOK /\ GivesUp /\ Flags

USE DEF Goroutines, Conns

LEMMA InitTyped == Init => Typed
<1> SUFFICES ASSUME Init PROVE Typed
  OBVIOUS
<1>1. TypeOK
  <2> USE ClientAssumption DEF Init
  <2>1. /\ pc \in [Goroutines -> Pcs]
        /\ attempts \in [Goroutines -> 0 .. MaxAttempts]
        /\ reads \in [Goroutines -> Conns \cup {0}]
    BY DEF Pcs, Waiting
  <2>2. boardMutex <=> ui = "drawing"
    OBVIOUS
  <2>3. /\ params \in Sizes \cup {<<0, 0>>} /\ grid \in Sizes \cup {<<0, 0>>}
    OBVIOUS
  <2>4. /\ mmAttempts \in 0 .. MaxAttempts
        /\ server \in Conns \cup {0} /\ open \subseteq Conns
    OBVIOUS
  <2>5. /\ Connected \in BOOLEAN /\ ended \in BOOLEAN
        /\ state \in {"ConnectMenu", "GameStartMenu", "GameScreen"}
        /\ ui \in {"connect", "idle", "board", "drawing"}
        /\ crashed \in {"no", "matchmaking", "drawing"}
    OBVIOUS
  <2>6. QED
    BY <2>1, <2>2, <2>3, <2>4, <2>5 DEF TypeOK
<1>2. GivesUp
  BY ClientAssumption DEF Init, GivesUp
<1>3. QED
  BY <1>1, <1>2 DEF Typed, Flags, Init

\* The steps of the goroutines of the connect button.
LEMMA RunTyped ==
  ASSUME Typed, crashed = "no", NEW g \in Goroutines, Run(g)
  PROVE  Typed'
<1> USE ClientAssumption DEF Typed, TypeOK, GivesUp, Flags, history, Pcs, Waiting, Reading, Go
<1>1. CASE CheckConnected(g)
  <2>1. CASE Failed(g)
    BY <1>1, <2>1 DEF CheckConnected, Failed, controller, menu, board, window
  <2>2. CASE Go(g, "dialing") /\ UNCHANGED attempts
    <3>1. /\ UNCHANGED <<controller, reads, menu, board, window, stale, grew>>
          /\ pc' = [pc EXCEPT ![g] = "dialing"] /\ attempts' = attempts /\ pc[g] = "check"
      BY <1>1, <2>2 DEF CheckConnected
    <3>2. raced' \in BOOLEAN
      BY <1>1 DEF CheckConnected, Failed
    <3>3. TypeOK' /\ GivesUp'
      BY <3>1 DEF controller, menu, board, window
    <3>4. QED
      BY <3>1, <3>2, <3>3
  <2>3. QED
    BY <1>1, <2>1, <2>2 DEF CheckConnected
<1>2. CASE DialFails(g)
  BY <1>2 DEF DialFails, Failed, controller, menu, board, window
<1>3. CASE Dial(g)
  BY <1>3 DEF Dial, menu, board, window
<1>4. CASE AssignConnected(g)
  BY <1>4 DEF AssignConnected, menu, board, window
<1>5. CASE AssignServer(g)
  BY <1>5 DEF AssignServer, menu, board, window
<1>6. CASE ShowStartMenu(g)
  BY <1>6 DEF ShowStartMenu, controller, board, window
<1>7. CASE OpenReader(g)
  BY <1>7 DEF OpenReader, controller, menu, board, window
<1>8. CASE ShowGame(g)
  BY <1>8 DEF ShowGame, controller, board, window
<1>9. CASE ResetResult(g)
  BY <1>9 DEF ResetResult, controller, board, window
<1>10. CASE ClearConnected(g)
  BY <1>10 DEF ClearConnected, menu, board, window
<1>11. CASE CloseServer(g)
  BY <1>11 DEF CloseServer, menu, board, window
<1>12. CASE ShowConnectMenu(g)
  BY <1>12 DEF ShowConnectMenu, ScreenAfter, controller, board, window
<1>13. QED
  BY <1>1, <1>2, <1>3, <1>4, <1>5, <1>6, <1>7, <1>8, <1>9, <1>10, <1>11, <1>12 DEF Run

LEMMA MessagesTyped ==
  ASSUME Typed, crashed = "no", NEW g \in Goroutines,
         InitializeGrid(g) \/ ReadStart(g) \/ ReadEnd(g) \/ ReadFails(g) \/ ClickConnect(g)
  PROVE  Typed'
<1> USE ClientAssumption DEF Typed, TypeOK, GivesUp, Flags, history, Pcs, Waiting, Reading, Go
<1>1. CASE InitializeGrid(g)
  BY <1>1 DEF InitializeGrid, NewGrid, controller, menu, window
<1>2. CASE ReadStart(g)
  BY <1>2 DEF ReadStart, controller, menu, window
<1>3. CASE ReadEnd(g)
  BY <1>3 DEF ReadEnd, controller, goroutines, board, window
<1>4. CASE ReadFails(g)
  BY <1>4 DEF ReadFails, controller, menu, board, window
<1>5. CASE ClickConnect(g)
  BY <1>5 DEF ClickConnect, controller, menu, board, window
<1>6. QED
  BY <1>1, <1>2, <1>3, <1>4, <1>5

LEMMA WindowTyped ==
  ASSUME Typed, crashed = "no", Window \/ ClickNewGame
  PROVE  Typed'
<1> USE ClientAssumption DEF Typed, TypeOK, GivesUp, Flags, history, controller, goroutines, menu
<1>1. CASE ClickNewGame
  BY <1>1 DEF ClickNewGame, board, window
<1>2. CASE MMConnect
  BY <1>2 DEF MMConnect, board
<1>3. CASE MMConnectFails
  BY <1>3 DEF MMConnectFails, board
<1>4. CASE Frame
  BY <1>4 DEF Frame, board
<1>5. CASE BeginDraw
  BY <1>5 DEF BeginDraw
<1>6. CASE EndDraw
  BY <1>6 DEF EndDraw, Unlock
<1>7. QED
  BY <1>1, <1>2, <1>3, <1>4, <1>5, <1>6 DEF Window

LEMMA NextTyped == Typed /\ [Next]_vars => Typed'
<1> SUFFICES ASSUME Typed, [Next]_vars PROVE Typed'
  OBVIOUS
<1>1. CASE Next
  BY <1>1, RunTyped, MessagesTyped, WindowTyped DEF Next
<1>2. CASE UNCHANGED vars
  BY <1>2 DEF vars, controller, goroutines, menu, board, window, history,
              Typed, TypeOK, GivesUp, Flags
<1>3. QED
  BY <1>1, <1>2

\* Every variable keeps its type, and boardMutex is held exactly while
\* drawBoard draws: no path leaves it locked.
THEOREM TypeCorrect == Spec => []TypeOK
<1>1. Typed => TypeOK
  BY DEF Typed
<1>2. QED
  BY InitTyped, NextTyped, <1>1, PTL DEF Spec
-----------------------------------------------------------------------------
(***************************************************************************)
(* One goroutine at a time.  OneReader says what it may find when it reads;*)
(* the invariant says it of every place on the way there and back.         *)
(***************************************************************************)
Active(g) == pc[g] \notin Waiting
Holding == Reading \cup {"store", "show", "open", "clear"}
Owning  == Reading \cup {"show", "open", "clear", "close"}

Alone ==
  /\ \A g, h \in Goroutines : Active(g) /\ Active(h) => g = h
  /\ \A g \in Goroutines :
       /\ pc[g] \in Reading => reads[g] = g
       /\ pc[g] \in Holding <=> (Active(g) /\ Connected)
       /\ pc[g] \in Owning => server = g
       /\ pc[g] \in Owning \cup {"assign", "store"} => g \in open
  /\ Connected => \E g \in Goroutines : Active(g)

Single == ~raced => Alone

HIDE DEF Goroutines, Conns

LEMMA InitSingle == Init => Single
BY DEF Init, Single, Alone, Active, Waiting, Reading, Holding, Owning

\* Nothing the invariant looks at changes.
LEMMA SingleKept ==
  ASSUME Single, UNCHANGED <<controller, pc, reads, raced>>
  PROVE  Single'
BY DEF Single, Alone, Active, controller

LEMMA RunSingle ==
  ASSUME Typed, Single, NEW g \in Goroutines, Run(g)
  PROVE  Single'
<1>1. CASE CheckConnected(g)
  <2>1. CASE MayDial
    <3> SUFFICES ASSUME ~raced' PROVE Alone'
      BY DEF Single
    <3>1. /\ pc' = [pc EXCEPT ![g] = "dialing"]
          /\ ~raced /\ \A h \in Goroutines : pc[h] \notin Unguarded
          /\ UNCHANGED <<Connected, server, open, reads>>
      BY <1>1, <2>1 DEF CheckConnected, Go, Typed, Flags, controller
    <3>2. Alone /\ ~Connected
      BY <2>1, <3>1 DEF Single, MayDial
    <3>3. pc \in [Goroutines -> Pcs]
      BY DEF Typed, TypeOK
    <3>4. \A h \in Goroutines : ~Active(h)
      BY <3>1, <3>2, <3>3 DEF Alone, Active, Pcs, Waiting, Reading, Holding, Unguarded
    <3>5. QED
      BY <3>1, <3>2, <3>3, <3>4 DEF Alone, Active, Waiting, Reading, Holding, Owning
  <2>2. CASE ~MayDial
    BY <1>1, <2>2 DEF CheckConnected, Failed, Go, controller, Typed, TypeOK,
                      Single, Alone, Active, Waiting, Reading, Holding, Owning
  <2>3. QED
    BY <2>1, <2>2
<1>2. CASE ~CheckConnected(g)
  <2> USE DEF Go, controller, menu, board, window, history, Typed, TypeOK,
              Single, Alone, Active, Waiting, Reading, Holding, Owning
  <2>1. CASE DialFails(g)
    BY <2>1 DEF DialFails, Failed
  <2>2. CASE Dial(g)
    BY <2>2 DEF Dial, Conns
  <2>3. CASE AssignConnected(g)
    BY <2>3 DEF AssignConnected
  <2>4. CASE AssignServer(g)
    BY <2>4 DEF AssignServer
  <2>5. CASE ShowStartMenu(g)
    BY <2>5 DEF ShowStartMenu
  <2>6. CASE OpenReader(g)
    BY <2>6 DEF OpenReader
  <2>7. CASE ShowGame(g)
    BY <2>7 DEF ShowGame
  <2>8. CASE ResetResult(g)
    BY <2>8 DEF ResetResult
  <2>9. CASE ClearConnected(g)
    BY <2>9 DEF ClearConnected
  <2>10. CASE CloseServer(g)
    BY <2>10 DEF CloseServer
  <2>11. CASE ShowConnectMenu(g)
    BY <2>11 DEF ShowConnectMenu
  <2>12. QED
    BY <1>2, <2>1, <2>2, <2>3, <2>4, <2>5, <2>6, <2>7, <2>8, <2>9, <2>10, <2>11 DEF Run
<1>3. QED
  BY <1>1, <1>2

LEMMA MessagesSingle ==
  ASSUME Typed, Single, NEW g \in Goroutines,
         InitializeGrid(g) \/ ReadStart(g) \/ ReadEnd(g) \/ ReadFails(g) \/ ClickConnect(g)
  PROVE  Single'
<1> USE DEF Go, controller, goroutines, menu, board, window, history, Typed, TypeOK,
            Single, Alone, Active, Waiting, Reading, Holding, Owning
<1>1. CASE InitializeGrid(g)
  BY <1>1 DEF InitializeGrid
<1>2. CASE ReadStart(g)
  BY <1>2 DEF ReadStart
<1>3. CASE ReadEnd(g)
  BY <1>3, SingleKept DEF ReadEnd
<1>4. CASE ReadFails(g)
  BY <1>4 DEF ReadFails
<1>5. CASE ClickConnect(g)
  BY <1>5, ClientAssumption DEF ClickConnect, Goroutines
<1>6. QED
  BY <1>1, <1>2, <1>3, <1>4, <1>5

LEMMA NextSingle == Typed /\ Single /\ [Next]_vars => Single'
<1> SUFFICES ASSUME Typed, Single, [Next]_vars PROVE Single'
  OBVIOUS
<1>1. CASE Window \/ ClickNewGame \/ UNCHANGED vars
  <2>1. UNCHANGED <<controller, pc, reads, raced>>
    BY <1>1 DEF Window, MMConnect, MMConnectFails, Frame, BeginDraw, EndDraw, ClickNewGame,
                vars, goroutines, history
  <2>2. QED
    BY <2>1, SingleKept
<1>2. QED
  BY <1>1, RunSingle, MessagesSingle DEF Next

\* While no two clicks on Connect met where connect does not guard itself, one
\* goroutine at most is connected or connecting, it reads the connection it
\* dialled, and it is that connection it closes in the end.
THEOREM OneReaderCorrect == Spec => []OneReader
<1>1. Typed /\ Single => OneReader
  <2> SUFFICES ASSUME Typed, Single, ~raced PROVE OneReader
    BY DEF OneReader
  <2> DEFINE A == {g \in Goroutines : pc[g] \notin Waiting}
  <2>1. Alone
    BY DEF Single
  <2>2. Cardinality(A) <= 1
    <3>1. CASE A = {}
      BY <3>1, FS_EmptySet
    <3>2. CASE A # {}
      <4>1. PICK g \in A : A = {g}
        BY <2>1, <3>2 DEF Alone, Active
      <4>2. Cardinality({g}) = 1
        BY FS_Singleton
      <4>3. QED
        BY <4>1, <4>2
    <3>3. QED
      BY <3>1, <3>2
  <2>3. QED
    BY <2>1, <2>2 DEF OneReader, Alone, Active, Holding, Owning, Reading, Waiting
<1>2. QED
  BY <1>1, InitTyped, NextTyped, InitSingle, NextSingle, PTL DEF Spec
-----------------------------------------------------------------------------
(***************************************************************************)
(* The screens.  What is shown changes with the step from "show" to "open" *)
(* and with the one from "menu" to "ended", so the invariant divides the   *)
(* places there.                                                           *)
(***************************************************************************)
Before == Waiting \cup {"dialing", "assign", "store", "show"}
Within == Reading \cup {"open", "clear", "close", "menu"}

ScreenFits ==
  /\ (\A g \in Goroutines : pc[g] \in Before) => state = "ConnectMenu"
  /\ \A g \in Goroutines : pc[g] \in Within => state # "ConnectMenu"

Screens == ~raced /\ ~stale => ScreenFits

LEMMA InitScreens == Init => Screens
BY DEF Init, Screens, ScreenFits, Before, Within, Waiting, Reading

LEMMA ScreensKept ==
  ASSUME Screens, UNCHANGED <<pc, state, raced, stale>>
  PROVE  Screens'
BY DEF Screens, ScreenFits

LEMMA RunScreens ==
  ASSUME Typed, Single, Screens, NEW g \in Goroutines, Run(g)
  PROVE  Screens'
<1> SUFFICES ASSUME ~raced', ~stale' PROVE ScreenFits'
  BY DEF Screens
<1> USE DEF Go, Typed, TypeOK, Flags, ScreenFits, Before, Within, Waiting, Reading
<1>1. ~raced /\ ~stale /\ UNCHANGED stale
  BY DEF Run, CheckConnected, DialFails, Dial, AssignConnected, AssignServer, ShowStartMenu,
         OpenReader, ShowGame, ResetResult, ClearConnected, CloseServer, ShowConnectMenu, history
<1>2. ScreenFits /\ Alone
  BY <1>1 DEF Screens, Single
<1>3. CASE CheckConnected(g)
  BY <1>2, <1>3 DEF CheckConnected, Failed, menu
<1>4. CASE DialFails(g)
  BY <1>2, <1>4 DEF DialFails, Failed, menu
<1>5. CASE Dial(g)
  BY <1>2, <1>5 DEF Dial, menu
<1>6. CASE AssignConnected(g)
  BY <1>2, <1>6 DEF AssignConnected, menu
<1>7. CASE AssignServer(g)
  BY <1>2, <1>7 DEF AssignServer, menu
<1>8. CASE ShowStartMenu(g)
  BY <1>2, <1>8 DEF ShowStartMenu
<1>9. CASE OpenReader(g)
  BY <1>2, <1>9 DEF OpenReader, menu
<1>10. CASE ShowGame(g)
  BY <1>2, <1>10 DEF ShowGame
<1>11. CASE ResetResult(g)
  BY <1>2, <1>11 DEF ResetResult
<1>12. CASE ClearConnected(g)
  BY <1>2, <1>12 DEF ClearConnected, menu
<1>13. CASE CloseServer(g)
  BY <1>2, <1>13 DEF CloseServer, menu
<1>14. CASE ShowConnectMenu(g)
  BY <1>2, <1>14 DEF ShowConnectMenu, ScreenAfter, Alone, Active
<1>15. QED
  BY <1>3, <1>4, <1>5, <1>6, <1>7, <1>8, <1>9, <1>10, <1>11, <1>12, <1>13, <1>14 DEF Run

LEMMA OthersScreens ==
  ASSUME Typed, Screens,
         \/ \E g \in Goroutines : \/ InitializeGrid(g) \/ ReadStart(g) \/ ReadEnd(g)
                                \/ ReadFails(g) \/ ClickConnect(g)
         \/ ClickNewGame
  PROVE  Screens'
<1> USE DEF Go, goroutines, menu, history, Typed, TypeOK, Flags, Screens,
            ScreenFits, Before, Within, Waiting, Reading
<1>1. CASE ClickNewGame
  BY <1>1 DEF ClickNewGame
<1>2. ASSUME NEW g \in Goroutines, ReadEnd(g) PROVE Screens'
  BY <1>2, ScreensKept DEF ReadEnd
<1>3. ASSUME NEW g \in Goroutines, InitializeGrid(g) PROVE Screens'
  BY <1>3 DEF InitializeGrid
<1>4. ASSUME NEW g \in Goroutines, ReadStart(g) PROVE Screens'
  BY <1>4 DEF ReadStart
<1>5. ASSUME NEW g \in Goroutines, ReadFails(g) PROVE Screens'
  BY <1>5 DEF ReadFails
<1>6. ASSUME NEW g \in Goroutines, ClickConnect(g) PROVE Screens'
  BY <1>6, ClientAssumption DEF ClickConnect, Goroutines
<1>7. QED
  BY <1>1, <1>2, <1>3, <1>4, <1>5, <1>6

LEMMA NextScreens == Typed /\ Single /\ Screens /\ [Next]_vars => Screens'
<1> SUFFICES ASSUME Typed, Single, Screens, [Next]_vars PROVE Screens'
  OBVIOUS
<1>1. CASE Window \/ UNCHANGED vars
  <2>1. UNCHANGED <<pc, state, raced, stale>>
    BY <1>1 DEF Window, MMConnect, MMConnectFails, Frame, BeginDraw, EndDraw,
                vars, goroutines, menu, history
  <2>2. QED
    BY <2>1, ScreensKept
<1>2. QED
  BY <1>1, RunScreens, OthersScreens DEF Next

\* While no clicks on Connect met and New game was not clicked on an outdated
\* screen, a client without a connection shows the menu from which one can
\* connect, and a client with one does not.
THEOREM MenuCorrect == Spec => []MenuFollows
<1>1. Screens => MenuFollows
  BY DEF Screens, ScreenFits, MenuFollows, Before, Within
<1>2. QED
  BY <1>1, InitTyped, NextTyped, InitSingle, NextSingle, InitScreens, NextScreens, PTL DEF Spec

-----------------------------------------------------------------------------
(***************************************************************************)
(* Drawing.  manager.params is ahead of the grid only between the two      *)
(* assignments of a new game, which the only reader makes before it shows  *)
(* the game; the width drawBoard remembers fits a grid that the lock keeps *)
(* from being replaced.                                                    *)
(***************************************************************************)
BoardFits ==
  /\ width \in Nat
  /\ Exceeds(params, grid) =>
       /\ \E g \in Goroutines : pc[g] = "grid"
       /\ state # "GameScreen" /\ ui \notin {"board", "drawing"}
  /\ ui = "drawing" => width <= grid[1]
  /\ crashed # "drawing"

Drawing == ~raced /\ ~grew => BoardFits

LEMMA SizesAreNat ==
  ASSUME Typed
  PROVE  params \in Nat \X Nat /\ grid \in Nat \X Nat
BY ClientAssumption DEF Typed, TypeOK

LEMMA InitDrawing == Init => Drawing
BY DEF Init, Drawing, BoardFits, Exceeds

LEMMA RunDrawing ==
  ASSUME Typed, Single, Drawing, NEW g \in Goroutines,
         Run(g) \/ ClickConnect(g) \/ ReadEnd(g) \/ ReadFails(g)
  PROVE  Drawing'
<1> SUFFICES ASSUME ~raced', ~grew' PROVE BoardFits'
  BY DEF Drawing
<1> USE DEF Run, CheckConnected, DialFails, Dial, AssignConnected, AssignServer, ShowStartMenu,
            OpenReader, ShowGame, ResetResult, ClearConnected, CloseServer, ShowConnectMenu,
            ScreenAfter, ClickConnect, ReadEnd, ReadFails, Failed
<1>1. /\ ~raced /\ ~grew
      /\ UNCHANGED <<params, grid, width, ui, crashed>>
      /\ pc[g] # "grid"
      /\ \A h \in Goroutines \ {g} : pc'[h] = pc[h]
      /\ state' = "GameScreen" => state = "GameScreen" \/ pc[g] = "screen"
  <2>1. ~raced /\ ~grew
    BY DEF history, Typed, Flags
  <2>2. UNCHANGED <<params, grid, width, ui, crashed>>
    BY DEF board, window
  <2>3. pc[g] # "grid"
    BY ClientAssumption DEF Goroutines
  <2>4. \A h \in Goroutines \ {g} : pc'[h] = pc[h]
    BY DEF Go, goroutines, Typed, TypeOK
  <2>5. state' = "GameScreen" => state = "GameScreen" \/ pc[g] = "screen"
    BY DEF menu
  <2>6. QED
    BY <2>1, <2>2, <2>3, <2>4, <2>5
<1>2. BoardFits /\ Alone
  BY <1>1 DEF Drawing, Single
<1>3. QED
  BY <1>1, <1>2 DEF BoardFits, Exceeds, Alone, Active, Waiting, Typed, TypeOK

LEMMA GridDrawing ==
  ASSUME Typed, Single, Drawing, NEW g \in Goroutines, InitializeGrid(g) \/ ReadStart(g)
  PROVE  Drawing'
<1> SUFFICES ASSUME ~raced', ~grew' PROVE BoardFits'
  BY DEF Drawing
<1>1. CASE InitializeGrid(g)
  <2>1. BoardFits
    BY <1>1 DEF InitializeGrid, history, Drawing
  <2>2. ui # "drawing"
    BY <1>1 DEF InitializeGrid, Typed, TypeOK
  <2>3. grid' = params /\ params' = params /\ UNCHANGED window
    BY <1>1 DEF InitializeGrid, NewGrid
  <2>4. QED
    BY <2>1, <2>2, <2>3, SizesAreNat DEF BoardFits, Exceeds, window
<1>2. CASE ReadStart(g)
  <2>1. ~raced /\ ~grew
    BY <1>2 DEF ReadStart, Typed, Flags
  <2>2. Exceeds(params', grid) => state # "GameScreen" /\ ui \notin {"board", "drawing"}
    BY <1>2 DEF ReadStart
  <2>3. pc'[g] = "grid" /\ UNCHANGED <<state, grid, window>>
    BY <1>2 DEF ReadStart, Go, menu, Typed, TypeOK
  <2>4. QED
    BY <2>1, <2>2, <2>3 DEF Drawing, BoardFits, Exceeds, window
<1>3. QED
  BY <1>1, <1>2

LEMMA WindowDrawing ==
  ASSUME Typed, Drawing, crashed = "no", Window \/ ClickNewGame
  PROVE  Drawing'
<1> SUFFICES ASSUME ~raced', ~grew' PROVE BoardFits'
  BY DEF Drawing
<1>1. ~raced /\ ~grew /\ UNCHANGED <<pc, params, grid>>
  BY DEF Window, MMConnect, MMConnectFails, Frame, BeginDraw, EndDraw, ClickNewGame,
         goroutines, board, history
<1>2. BoardFits
  BY <1>1 DEF Drawing
<1> USE <1>1, <1>2, SizesAreNat DEF BoardFits, Exceeds
<1>3. CASE ClickNewGame
  BY <1>3 DEF ClickNewGame, window
<1>4. CASE MMConnect
  BY <1>4 DEF MMConnect, menu
<1>5. CASE MMConnectFails
  BY <1>5 DEF MMConnectFails, menu
<1>6. CASE Frame
  BY <1>6 DEF Frame, menu
<1>7. CASE BeginDraw
  BY <1>7 DEF BeginDraw, menu
<1>8. CASE EndDraw
  BY <1>8 DEF EndDraw, menu
<1>9. QED
  BY <1>3, <1>4, <1>5, <1>6, <1>7, <1>8 DEF Window

LEMMA NextDrawing == Typed /\ Single /\ Drawing /\ [Next]_vars => Drawing'
<1> SUFFICES ASSUME Typed, Single, Drawing, [Next]_vars PROVE Drawing'
  OBVIOUS
<1>1. CASE UNCHANGED vars
  BY <1>1 DEF vars, goroutines, menu, board, window, history, Drawing, BoardFits, Exceeds
<1>2. QED
  BY <1>1, RunDrawing, GridDrawing, WindowDrawing DEF Next

\* The client goes down only without a matchmaking server, when a larger game
\* starts while the board is drawn, or after two clicks on Connect met.
THEOREM NoPanicCorrect == Spec => []NoPanic
<1>1. Typed /\ Drawing => NoPanic
  BY DEF Typed, GivesUp, Flags, Drawing, BoardFits, NoPanic
<1>2. QED
  BY <1>1, InitTyped, NextTyped, InitSingle, NextSingle, InitDrawing, NextDrawing, PTL DEF Spec
=============================================================================
