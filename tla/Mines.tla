------------------------------- MODULE Mines -------------------------------
(***************************************************************************)
(* The package mines (src/mines/): the board, the two moves on it, the     *)
(* cells a move uncovers, the bookkeeping of the Coop game mode, and the   *)
(* byte each changed cell is reported with.  Constant operators only: the  *)
(* modules Game and GameServer turn them into actions.                     *)
(*                                                                         *)
(* A board is a record.  The matrix of Cell structs is kept as three sets  *)
(* of positions <<x, y>>: the cells whose Mine, Revealed or Flagged field  *)
(* is true.  revealedCells is the field RevealedCells, a counter of its    *)
(* own that the code never recomputes from the cells.                      *)
(***************************************************************************)
EXTENDS Integers, FiniteSets

CONSTANT PlayerIds     \* the PlayerId values a move can carry

\* Player ids are keys of an AUTOINCREMENT column, which starts at 1; mark 0
\* means "nobody" in the Coop grid.
ASSUME PlayerIdsAssumption == PlayerIds \subseteq Nat \ {0}

\* A PlayerId is a uint32.
ASSUME FewPlayersAssumption == IsFiniteSet(PlayerIds)

(***************************************************************************)
(* GameParams and boards.                                                  *)
(***************************************************************************)
GameModes == {"Classic", "Coop"}

\* The checks of CreateBoard and of GetGameModeById: CreateGame fails unless
\* both accept.
ValidParams(p) ==
  /\ p.width > 0
  /\ p.height > 0
  /\ p.mines >= 0
  /\ p.mines <= p.width * p.height
  /\ p.mode \in GameModes

Cells(b) == (0 .. b.width - 1) \X (0 .. b.height - 1)

\* What every board satisfies from its creation on: its cells are its own, and
\* Mines counts the cells that hold one.
IsBoard(b) ==
  /\ b \in [width : Nat \ {0}, height : Nat \ {0}, mines : Nat,
            mine : SUBSET Cells(b), revealed : SUBSET Cells(b),
            flagged : SUBSET Cells(b), revealedCells : Nat]
  /\ b.mines = Cardinality(b.mine)

\* RevealedCells is the number of safe cells that are revealed.
Counted(b) == b.revealedCells = Cardinality(b.revealed \ b.mine)

SafeCells(b) == Cells(b) \ b.mine

Cleared(b) == SafeCells(b) \subseteq b.revealed

\* Mutant: the positions of the mines are drawn one by one, with repetition.
CreateBoardDrawn(p) ==
  { [width |-> p.width, height |-> p.height, mines |-> p.mines,
     mine |-> M, revealed |-> {}, flagged |-> {}, revealedCells |-> 0]
      : M \in {S \in SUBSET Cells(p) : Cardinality(S) <= p.mines} }

\* The boards rand.Shuffle can produce: any placement of p.mines mines.
CreateBoard(p) ==
  { [width |-> p.width, height |-> p.height, mines |-> p.mines,
     mine |-> M, revealed |-> {}, flagged |-> {}, revealedCells |-> 0]
      : M \in {S \in SUBSET Cells(p) : Cardinality(S) = p.mines} }

(***************************************************************************)
(* Uncovering cells.                                                       *)
(***************************************************************************)
\* A cell is its own neighbour: the loops of getNeighbouringCells do not skip
\* dx = dy = 0.  The cell may lie outside b, see GameServer.
Neighbours(b, c) ==
  {d \in Cells(b) : d[1] - c[1] \in -1 .. 1 /\ d[2] - c[2] \in -1 .. 1}

\* Mutant: the outer loop ends before the column to the right.
NumberOfMinesLeft(b, c) == Cardinality({d \in Neighbours(b, c) : d[1] <= c[1]} \cap b.mine)

NumberOfMines(b, c) == Cardinality(Neighbours(b, c) \cap b.mine)

Hidden(b) == Cells(b) \ (b.revealed \cup b.flagged)

SpreadClosed(b, S) ==
  \A d \in S : NumberOfMines(b, d) = 0 => Neighbours(b, d) \cap Hidden(b) \subseteq S

\* What the recursive flood fill cascade uncovers from c: the least set of
\* hidden cells that contains c and, with a cell that touches no mine, every
\* hidden neighbour of it.  Module CascadeSearch has the recursion itself, and
\* comes to the same.
Cascade(b, c) ==
  LET closed == {S \in SUBSET Hidden(b) : c \in S /\ SpreadClosed(b, S)}
  IN  {d \in Hidden(b) : \A S \in closed : d \in S}

(***************************************************************************)
(* The two moves.  Each returns the board it leaves, the MoveResult and    *)
(* the UpdatedCells.                                                       *)
(***************************************************************************)
Unchanged(b, result) == [board |-> b, result |-> result, updated |-> {}]

\* Mutant: a blown mine is counted among the RevealedCells.
BlowMineCounted(b, c) ==
  [board   |-> [b EXCEPT !.revealed = @ \cup {c}, !.revealedCells = @ + 1],
   result  |-> "MineBlown",
   updated |-> {c}]

BlowMine(b, c) ==
  [board   |-> [b EXCEPT !.revealed = @ \cup {c}],
   result  |-> "MineBlown",
   updated |-> {c}]

\* Mutant: the win test forgets that the mines stay covered.
WonOffByOne(b) == b.revealedCells + b.mines + 1 >= b.width * b.height

Won(b) == b.revealedCells + b.mines = b.width * b.height

Uncover(b, c) ==
  LET cells == Cascade(b, c)
      after == [b EXCEPT !.revealed = @ \cup cells,
                         !.revealedCells = @ + Cardinality(cells)]
  IN  [board   |-> after,
       result  |-> IF Won(after) THEN "GameWon" ELSE "CellRevealed",
       updated |-> cells]

Reveal(b, c) ==
  IF c \in b.revealed \cup b.flagged THEN Unchanged(b, "NoChange")
  ELSE IF c \in b.mine THEN BlowMine(b, c)
  ELSE Uncover(b, c)

\* Mutant: an unflagged cell is not among the updated cells.
FlagSilently(b, c) ==
  IF c \in b.revealed THEN Unchanged(b, "NoChange")
  ELSE [board   |-> [b EXCEPT !.flagged = IF c \in @ THEN @ \ {c} ELSE @ \cup {c}],
        result  |-> "Flagged",
        updated |-> IF c \in b.flagged THEN {} ELSE {c}]

Flag(b, c) ==
  IF c \in b.revealed THEN Unchanged(b, "NoChange")
  ELSE [board   |-> [b EXCEPT !.flagged = IF c \in @ THEN @ \ {c} ELSE @ \cup {c}],
        result  |-> "Flagged",
        updated |-> {c}]

MoveTypes == {"Reveal", "Flag"}

\* makeMove dispatches on the type byte; an unknown type and a cell outside
\* the board are errors that change nothing.
MakeMove(b, type, c) ==
  IF type \notin MoveTypes \/ c \notin Cells(b) THEN Unchanged(b, "Error")
  ELSE IF type = "Reveal" THEN Reveal(b, c)
  ELSE Flag(b, c)

(***************************************************************************)
(* Coop.OnMove: every updated cell that is now flagged or revealed gets    *)
(* the mover's mark and one point, every other one (an unflagged cell)     *)
(* loses its mark and costs the mover one point.  Classic.OnMove does      *)
(* nothing.                                                                *)
(***************************************************************************)
NoMarks(b) == [c \in Cells(b) |-> 0]

Marked(b) == b.revealed \cup b.flagged

\* Mutant: an unflagged cell keeps its mark.
NewMarksKept(marks, b, pid, cells) ==
  [c \in DOMAIN marks |-> IF c \in cells \cap Marked(b) THEN pid ELSE marks[c]]

NewMarks(marks, b, pid, cells) ==
  [c \in DOMAIN marks |->
     IF c \notin cells THEN marks[c] ELSE IF c \in Marked(b) THEN pid ELSE 0]

\* Mutant: unflagging is free.
NewScoresNoPenalty(scores, b, pid, cells) ==
  [scores EXCEPT ![pid] = @ + Cardinality(cells \cap Marked(b))]

NewScores(scores, b, pid, cells) ==
  [scores EXCEPT ![pid] = @ + Cardinality(cells \cap Marked(b))
                            - Cardinality(cells \ Marked(b))]

(***************************************************************************)
(* CreateCellUpdates.  The cells are pointers into board cb; counts are    *)
(* taken on board b, the receiver.  The two differ only when the server    *)
(* replaced its game between the move and the encoding of its result.      *)
(***************************************************************************)
ShowMine == 16      \* 0x10
ShowFlag == 32      \* 0x20
Unflag   == 48      \* 0x30

CellValue(b, cb, c) ==
  IF c \in cb.revealed THEN IF c \in cb.mine THEN ShowMine ELSE NumberOfMines(b, c)
  ELSE IF c \in cb.flagged THEN ShowFlag
  ELSE Unflag

CreateCellUpdates(b, cb, cells) == [c \in cells |-> CellValue(b, cb, c)]

\* Mutant: flags are not among the changed cells.
ChangedWithoutFlags(b) == CreateCellUpdates(b, b, b.revealed)

\* GetChangedCellUpdates: what a player who joins a running game is sent.
GetChangedCellUpdates(b) == CreateCellUpdates(b, b, Marked(b))
=============================================================================
