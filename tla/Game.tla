-------------------------------- MODULE Game --------------------------------
(***************************************************************************)
(* One game (struct Game of src/mines/mines.go): a board, its game mode    *)
(* and the state the mode keeps, changed by Game.MakeMove only.  The       *)
(* server runs MakeMove under moveMux, so a move is one step here; module  *)
(* GameServer splits it.                                                   *)
(*                                                                         *)
(* marks and scores are the fields of struct Coop.  The Classic mode has   *)
(* no such fields: they stay at their initial value.  A player missing     *)
(* from the Go map playerScores has score 0.                               *)
(***************************************************************************)
EXTENDS Mines, Functions

CONSTANTS
  Params,      \* the GameParams CreateGame is called with
  MaxCoord,    \* bound: a move's coordinates are decoded from unsigned integers
  MaxScore     \* bound: scores stay in -MaxScore .. MaxScore

ASSUME ParamsAssumption ==
  Params \subseteq [width : Int, height : Int, mines : Int, mode : STRING]

ASSUME BoundsAssumption == MaxCoord \in Nat /\ MaxScore \in Nat

VARIABLES
  board,       \* game.board
  mode,        \* game.Mode
  marks,       \* Coop.boardPlayerMarks, 0 where nobody has a mark
  scores,      \* Coop.playerScores
  reply        \* the MoveResult of the last move

vars == <<board, mode, marks, scores, reply>>

MoveResultTypes == {"NoChange", "MineBlown", "CellRevealed", "Flagged", "GameWon", "Error"}

\* CreateGame, once it accepted the parameters.
Init ==
  \E p \in {q \in Params : ValidParams(q)} :
    /\ board \in CreateBoard(p)
    /\ mode = p.mode
    /\ marks = NoMarks(board)
    /\ scores = [pid \in PlayerIds |-> 0]
    /\ reply = [result |-> "NoChange", updated |-> {}]

(***************************************************************************)
(* Game.MakeMove.  The board reports an error, or it moves and the mode's  *)
(* OnMove follows.  A move that reports NoChange has no updated cells, and *)
(* OnMove's early return is the empty loop.                                *)
(***************************************************************************)
OnMove(b, pid, updated) ==
  IF mode = "Coop"
  THEN /\ marks' = NewMarks(marks, b, pid, updated)
       /\ scores' = NewScores(scores, b, pid, updated)
       /\ scores'[pid] \in -MaxScore .. MaxScore
  ELSE UNCHANGED <<marks, scores>>

Move(pid, type, c) ==
  LET r == MakeMove(board, type, c)
  IN  /\ board' = r.board
      /\ reply' = [result |-> r.result, updated |-> r.updated]
      /\ OnMove(r.board, pid, r.updated)
      /\ UNCHANGED mode

Positions == (0 .. MaxCoord) \X (0 .. MaxCoord)

RevealMove  == \E pid \in PlayerIds, c \in Positions : Move(pid, "Reveal", c)
FlagMove    == \E pid \in PlayerIds, c \in Positions : Move(pid, "Flag", c)
UnknownMove == \E pid \in PlayerIds, c \in Positions : Move(pid, "UNKNOWN", c)

Next == RevealMove \/ FlagMove \/ UnknownMove

Spec == Init /\ [][Next]_vars

-----------------------------------------------------------------------------
(***************************************************************************)
(* Properties.                                                             *)
(***************************************************************************)
\* Every variable has its type, and Mines counts the board's mines: the cells
\* of the board lie on it, the marks cover it, and the reply names cells of it.
TypeOK ==
  /\ IsBoard(board)
  /\ mode \in GameModes
  /\ marks \in [Cells(board) -> PlayerIds \cup {0}]
  /\ scores \in [PlayerIds -> Int]
  /\ reply \in [result : MoveResultTypes, updated : SUBSET Cells(board)]

\* RevealedCells, a counter the win test depends on and that only Reveal
\* adds to, equals the number of safe cells that are revealed: the flood fill
\* visits no cell twice and a blown mine is not counted.
CountMatches == Counted(board)

\* No cell is both flagged and revealed: the flood fill stops at flags, and
\* Flag refuses a revealed cell (the encoder and OnMove test the two fields
\* in an order that would hide such a cell).
FlaggedHidden == board.flagged \cap board.revealed = {}

\* In a Coop game a cell carries a player's mark exactly while it is flagged
\* or revealed, whoever flagged, unflagged and revealed it in between; a
\* Classic game has none.
MarksMatch ==
  \A c \in Cells(board) : marks[c] # 0 <=> (mode = "Coop" /\ c \in Marked(board))

\* In a Coop game the scores of all players add up to the number of cells
\* that are flagged or revealed: what an unflag takes from one player another
\* player's flag had given, and no cell of a flood fill is paid twice.
ScoresAddUp ==
  mode = "Coop" => SumFunction(scores) = Cardinality(Marked(board))

\* MakeMove reports GameWon exactly with the move that uncovers the last
\* safe cell, whatever mines were blown before, and never again.
WonIffCleared ==
  [][reply'.result = "GameWon" <=> Cleared(board') /\ ~Cleared(board)]_vars

\* A mine is revealed only by the move that reports MineBlown, and that move
\* reveals nothing else: no flood fill, and no move on a flag, uncovers one.
MinesOnlyBlown ==
  [][(board'.revealed \ board.revealed) \cap board.mine # {}
       => /\ reply'.result = "MineBlown"
          /\ board'.revealed \ board.revealed = reply'.updated
          /\ Cardinality(reply'.updated) = 1]_vars

\* A move that uncovers a cell touching no mine uncovers every neighbour of
\* it, and so on, up to cells that touch a mine and flagged cells.
FloodComplete ==
  [][\A c \in board'.revealed \ board.revealed :
       NumberOfMines(board, c) = 0 =>
         Neighbours(board, c) \subseteq board'.revealed \cup board'.flagged]_vars

\* Reveal never moves a flag and never uncovers a flagged cell; Flag never
\* uncovers anything: each move touches one of the two fields.
OneFieldPerMove ==
  [][/\ board'.flagged = board.flagged \/ board'.revealed = board.revealed
     /\ board'.revealed \cap board.flagged = {}]_vars

\* What a display shows of a board: Unflag where nothing is reported.
Shown(b) ==
  [c \in Cells(b) |-> IF c \in Marked(b) THEN GetChangedCellUpdates(b)[c] ELSE Unflag]

Apply(updates, shown) ==
  [c \in DOMAIN shown |-> IF c \in DOMAIN updates THEN updates[c] ELSE shown[c]]

\* A display that applies the cell updates of each move shows what a player
\* who joined after that move is sent (GetChangedCellUpdates): the update
\* list names every changed cell, and carries its new value.
UpdatesSuffice ==
  [][Shown(board') = Apply(CreateCellUpdates(board', board', reply'.updated), Shown(board))]_vars
=============================================================================
