---------------------------- MODULE MinesProofs ----------------------------
(***************************************************************************)
(* Lemmas about the operators of Mines, for every board: what the flood    *)
(* fill and the two moves preserve, and what a win means.                  *)
(***************************************************************************)
EXTENDS Mines, TLAPS, FiniteSetTheorems

\* A board is finite and has width * height cells.
LEMMA CellsFinite ==
  ASSUME NEW b, IsBoard(b)
  PROVE  /\ IsFiniteSet(Cells(b))
         /\ Cardinality(Cells(b)) = b.width * b.height
<1>1. b.width \in Nat \ {0} /\ b.height \in Nat \ {0}
  BY DEF IsBoard
<1>2. ASSUME NEW n \in Nat \ {0}
      PROVE  IsFiniteSet(0 .. n - 1) /\ Cardinality(0 .. n - 1) = n
  <2>1. 0 \in Int /\ n - 1 \in Int /\ ~(0 > n - 1) /\ n - 1 - 0 + 1 = n
    OBVIOUS
  <2>2. IsFiniteSet(0 .. n - 1) /\ Cardinality(0 .. n - 1) = n - 1 - 0 + 1
    BY <2>1, FS_Interval, Zenon
  <2>3. QED
    BY <2>1, <2>2, Zenon
<1>3. /\ IsFiniteSet(0 .. b.width - 1) /\ Cardinality(0 .. b.width - 1) = b.width
      /\ IsFiniteSet(0 .. b.height - 1) /\ Cardinality(0 .. b.height - 1) = b.height
  BY <1>1, <1>2
<1>4. QED
  BY <1>3, FS_Product DEF Cells

\* A cell that touches no mine has no mine among its neighbours: the count
\* is that of a finite set.
LEMMA NoMineAround ==
  ASSUME NEW b, IsBoard(b), NEW c, NumberOfMines(b, c) = 0
  PROVE  Neighbours(b, c) \cap b.mine = {}
<1>1. IsFiniteSet(Neighbours(b, c) \cap b.mine)
  BY CellsFinite, FS_Subset DEF Neighbours
<1>2. QED
  BY <1>1, FS_EmptySet DEF NumberOfMines

\* The flood fill from a hidden safe cell uncovers that cell, and only hidden
\* safe cells: it crosses no flag and reaches no mine.
LEMMA CascadeSafe ==
  ASSUME NEW b, IsBoard(b), NEW c \in Hidden(b) \ b.mine
  PROVE  /\ c \in Cascade(b, c)
         /\ Cascade(b, c) \subseteq Hidden(b) \ b.mine
<1> DEFINE S == Hidden(b) \ b.mine
<1>1. SpreadClosed(b, S)
  BY NoMineAround DEF SpreadClosed
<1>2. S \in {T \in SUBSET Hidden(b) : c \in T /\ SpreadClosed(b, T)}
  BY <1>1
<1>3. Cascade(b, c) \subseteq S
  BY <1>2 DEF Cascade
<1>4. c \in Cascade(b, c)
  BY DEF Cascade
<1>5. QED
  BY <1>3, <1>4

\* The flood fill is complete: a cell it uncovers that touches no mine has no
\* hidden neighbour left.
LEMMA CascadeComplete ==
  ASSUME NEW b, NEW c, NEW d \in Cascade(b, c), NumberOfMines(b, d) = 0
  PROVE  Neighbours(b, d) \cap Hidden(b) \subseteq Cascade(b, c)
<1>1. ASSUME NEW e \in Neighbours(b, d) \cap Hidden(b),
             NEW S \in SUBSET Hidden(b), c \in S, SpreadClosed(b, S)
      PROVE  e \in S
  <2>1. d \in S
    BY <1>1 DEF Cascade
  <2>2. QED
    BY <1>1, <2>1 DEF SpreadClosed
<1>2. QED
  BY <1>1 DEF Cascade

\* The win test of Reveal, which adds two counters, is true exactly when
\* every safe cell is revealed.
LEMMA WonIsCleared ==
  ASSUME NEW b, IsBoard(b), Counted(b)
  PROVE  Won(b) <=> Cleared(b)
<1> DEFINE Safe == SafeCells(b)
           Open == b.revealed \ b.mine
<1>1. IsFiniteSet(Cells(b)) /\ Cardinality(Cells(b)) = b.width * b.height
  BY CellsFinite
<1>2. b.mine \subseteq Cells(b) /\ b.revealed \subseteq Cells(b)
  BY DEF IsBoard
<1>3. Cells(b) \cap b.mine = b.mine
  BY <1>2
<1>4. /\ IsFiniteSet(Safe)
      /\ Cardinality(Safe) = Cardinality(Cells(b)) - Cardinality(b.mine)
  BY <1>1, <1>3, FS_Difference DEF SafeCells
<1>5. Open \subseteq Safe
  BY <1>2 DEF SafeCells
<1>6. IsFiniteSet(Open) /\ (Cardinality(Open) = Cardinality(Safe) <=> Open = Safe)
  BY <1>4, <1>5, FS_Subset
<1>7. Open = Safe <=> Cleared(b)
  BY <1>5 DEF Cleared, SafeCells
<1>8. Cardinality(Safe) \in Nat /\ Cardinality(Open) \in Nat
  BY <1>4, <1>6, FS_CardinalityType
<1>9. b.revealedCells = Cardinality(Open) /\ b.mines = Cardinality(b.mine)
  BY DEF Counted, IsBoard
<1>10. b.width * b.height \in Int /\ b.mines \in Int
  BY DEF IsBoard
<1>11. b.revealedCells + b.mines = b.width * b.height <=> Cardinality(Open) = Cardinality(Safe)
  BY <1>1, <1>4, <1>8, <1>9, <1>10
<1>12. QED
  BY <1>6, <1>7, <1>11 DEF Won

\* Revealing hidden safe cells adds as many cells to the safe revealed ones.
LEMMA CountGrows ==
  ASSUME NEW b, IsBoard(b), NEW S, S \subseteq Hidden(b) \ b.mine
  PROVE  /\ Cardinality(S) \in Nat
         /\ Cardinality((b.revealed \cup S) \ b.mine)
              = Cardinality(b.revealed \ b.mine) + Cardinality(S)
<1>1. IsFiniteSet(Cells(b))
  BY CellsFinite
<1>2. IsFiniteSet(S) /\ IsFiniteSet(b.revealed \ b.mine)
  BY <1>1, FS_Subset DEF Hidden, IsBoard
<1>3. Cardinality(S) \in Nat /\ Cardinality(b.revealed \ b.mine) \in Nat
  BY <1>2, FS_CardinalityType
<1>4. (b.revealed \cup S) \ b.mine = (b.revealed \ b.mine) \cup S
  BY DEF Hidden
<1>5. (b.revealed \ b.mine) \cap S = {}
  BY DEF Hidden
<1>6. Cardinality({}) = 0
  BY FS_EmptySet
<1>7. Cardinality((b.revealed \ b.mine) \cup S)
        = Cardinality(b.revealed \ b.mine) + Cardinality(S) - Cardinality({})
  BY <1>2, <1>5, FS_Union
<1>8. Cardinality(b.revealed \ b.mine) + Cardinality(S) - 0
        = Cardinality(b.revealed \ b.mine) + Cardinality(S)
  BY <1>3
<1>9. QED
  BY <1>3, <1>4, <1>6, <1>7, <1>8, Zenon

\* A board a game can be in: its counter is right and its flags are hidden.
Sound(b) == IsBoard(b) /\ Counted(b) /\ b.flagged \cap b.revealed = {}

\* The cells, the mines and their number are fixed for the life of a board.
SameMines(b, after) ==
  /\ after.width = b.width
  /\ after.height = b.height
  /\ after.mines = b.mines
  /\ after.mine = b.mine

\* What the properties need to know of the result r of a Reveal on b.
RevealPost(b, c, r) ==
  /\ Sound(r.board)
  /\ SameMines(b, r.board)
  /\ r.board.flagged = b.flagged
  /\ r.board.revealed = b.revealed \cup r.updated
  /\ r.updated \subseteq Hidden(b)
  /\ r.updated \cap b.mine # {} => r.result = "MineBlown" /\ r.updated = {c}
  /\ r.result = "GameWon" <=> Cleared(r.board) /\ ~Cleared(b)
  /\ \A d \in r.updated :
       NumberOfMines(b, d) = 0 => Neighbours(b, d) \cap Hidden(b) \subseteq r.updated
  /\ r.result \in {"NoChange", "MineBlown", "CellRevealed", "GameWon"}

LEMMA UnchangedPost ==
  ASSUME NEW b, Sound(b), NEW c
  PROVE  RevealPost(b, c, Unchanged(b, "NoChange"))
BY DEF RevealPost, Unchanged, SameMines

LEMMA UncoverPost ==
  ASSUME NEW b, Sound(b), NEW c \in Hidden(b) \ b.mine
  PROVE  RevealPost(b, c, Uncover(b, c))
<1> DEFINE S == Cascade(b, c)
           after == [b EXCEPT !.revealed = @ \cup S,
                              !.revealedCells = @ + Cardinality(S)]
<1>1. IsBoard(b) /\ Counted(b) /\ b.flagged \cap b.revealed = {}
  BY DEF Sound
<1>2. c \in S /\ S \subseteq Hidden(b) \ b.mine
  BY <1>1, CascadeSafe
<1>3. /\ Cardinality(S) \in Nat
      /\ Cardinality((b.revealed \cup S) \ b.mine)
           = Cardinality(b.revealed \ b.mine) + Cardinality(S)
  BY <1>1, <1>2, CountGrows
<1> HIDE DEF S
<1>4. /\ after.revealed = b.revealed \cup S
      /\ after.revealedCells = b.revealedCells + Cardinality(S)
      /\ after.flagged = b.flagged
      /\ SameMines(b, after)
  BY <1>1 DEF IsBoard, SameMines
<1>5. IsBoard(after)
  <2>1. b.revealed \cup S \in SUBSET Cells(b)
    BY <1>1, <1>2 DEF IsBoard, Hidden
  <2>2. b.revealedCells + Cardinality(S) \in Nat
    BY <1>1, <1>3 DEF IsBoard
  <2>3. QED
    BY <1>1, <2>1, <2>2 DEF IsBoard, Cells
<1>6. Counted(after)
  BY <1>1, <1>3, <1>4 DEF Counted, SameMines
<1>7. Sound(after)
  BY <1>1, <1>2, <1>4, <1>5, <1>6 DEF Sound, Hidden
<1>8. Won(after) <=> Cleared(after)
  BY <1>5, <1>6, WonIsCleared
<1>9. ~Cleared(b)
  BY <1>2 DEF Cleared, SafeCells, Hidden
<1>10. \A d \in S : NumberOfMines(b, d) = 0 => Neighbours(b, d) \cap Hidden(b) \subseteq S
  BY CascadeComplete DEF S
<1>11. Uncover(b, c) = [board   |-> after,
                        result  |-> IF Won(after) THEN "GameWon" ELSE "CellRevealed",
                        updated |-> S]
  BY DEF Uncover, S
<1> HIDE DEF after
<1>12. S \cap b.mine = {} /\ S \subseteq Hidden(b)
  BY <1>2
<1>13. QED
  BY <1>4, <1>7, <1>8, <1>9, <1>10, <1>11, <1>12 DEF RevealPost

LEMMA BlowMinePost ==
  ASSUME NEW b, Sound(b), NEW c \in Hidden(b) \cap b.mine
  PROVE  RevealPost(b, c, BlowMine(b, c))
<1> DEFINE after == [b EXCEPT !.revealed = @ \cup {c}]
<1>1. IsBoard(b) /\ Counted(b) /\ b.flagged \cap b.revealed = {}
  BY DEF Sound
<1>2. /\ after.revealed = b.revealed \cup {c}
      /\ after.revealedCells = b.revealedCells
      /\ after.flagged = b.flagged
      /\ SameMines(b, after)
  BY <1>1 DEF IsBoard, SameMines
<1>3. IsBoard(after)
  BY <1>1 DEF IsBoard, Hidden, Cells
<1>4. after.revealed \ after.mine = b.revealed \ b.mine
  BY <1>2 DEF SameMines
<1>5. Counted(after)
  BY <1>1, <1>2, <1>4 DEF Counted
<1>6. Sound(after)
  BY <1>1, <1>2, <1>3, <1>5 DEF Sound, Hidden
<1>7. Cleared(after) <=> Cleared(b)
  BY <1>2 DEF Cleared, SafeCells, SameMines, Cells
<1>8. NumberOfMines(b, c) # 0
  <2>1. c \in Neighbours(b, c) \cap b.mine
    BY <1>1 DEF Neighbours, Hidden, Cells, IsBoard
  <2>2. QED
    BY <1>1, <2>1, NoMineAround
<1>9. BlowMine(b, c) = [board |-> after, result |-> "MineBlown", updated |-> {c}]
  BY DEF BlowMine
<1> HIDE DEF after
<1>10. QED
  BY <1>2, <1>6, <1>7, <1>8, <1>9 DEF RevealPost

LEMMA RevealEffect ==
  ASSUME NEW b, Sound(b), NEW c \in Cells(b)
  PROVE  RevealPost(b, c, Reveal(b, c))
<1>1. CASE c \in b.revealed \cup b.flagged
  BY <1>1, UnchangedPost DEF Reveal
<1>2. CASE c \notin b.revealed \cup b.flagged /\ c \in b.mine
  <2>1. c \in Hidden(b) \cap b.mine
    BY <1>2 DEF Hidden
  <2>2. QED
    BY <1>2, <2>1, BlowMinePost DEF Reveal
<1>3. CASE c \notin b.revealed \cup b.flagged /\ c \notin b.mine
  <2>1. c \in Hidden(b) \ b.mine
    BY <1>3 DEF Hidden
  <2>2. QED
    BY <1>3, <2>1, UncoverPost DEF Reveal
<1>4. QED
  BY <1>1, <1>2, <1>3

\* A flag move changes the Flagged field of one hidden cell and nothing else.
LEMMA FlagEffect ==
  ASSUME NEW b, Sound(b), NEW c \in Cells(b), NEW r, r = Flag(b, c)
  PROVE  /\ Sound(r.board)
         /\ SameMines(b, r.board)
         /\ r.board.revealed = b.revealed
         /\ r.updated \subseteq {c} \ b.revealed
         /\ b.flagged \ r.updated = r.board.flagged \ r.updated
         /\ r.result \in {"NoChange", "Flagged"}
<1>1. IsBoard(b) /\ Counted(b) /\ b.flagged \cap b.revealed = {}
  BY DEF Sound
<1>2. CASE c \in b.revealed
  <2>1. r = [board |-> b, result |-> "NoChange", updated |-> {}]
    BY <1>2 DEF Flag, Unchanged
  <2>2. QED
    BY <2>1 DEF SameMines
<1>3. CASE c \notin b.revealed
  <2> DEFINE F == IF c \in b.flagged THEN b.flagged \ {c} ELSE b.flagged \cup {c}
             after == [b EXCEPT !.flagged = F]
  <2>1. r = [board |-> after, result |-> "Flagged", updated |-> {c}]
    BY <1>1, <1>3 DEF Flag, IsBoard
  <2>2. F \subseteq Cells(b) /\ F \cap b.revealed = {} /\ F \ {c} = b.flagged \ {c}
    BY <1>1, <1>3 DEF IsBoard
  <2> HIDE DEF F
  <2>3. /\ after.flagged = F
        /\ after.revealed = b.revealed
        /\ after.revealedCells = b.revealedCells
        /\ SameMines(b, after)
    BY <1>1 DEF IsBoard, SameMines
  <2>4. IsBoard(after)
    BY <1>1, <2>2 DEF IsBoard, Cells
  <2>5. Counted(after)
    BY <1>1, <2>3 DEF Counted, SameMines
  <2>6. Sound(after)
    BY <2>2, <2>3, <2>4, <2>5 DEF Sound
  <2> HIDE DEF after
  <2>7. QED
    BY <1>3, <2>1, <2>2, <2>3, <2>6
<1>4. QED
  BY <1>2, <1>3
=============================================================================
