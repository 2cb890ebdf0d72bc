--------------------------- MODULE CascadeSearch ---------------------------
(***************************************************************************)
(* The flood fill of the code as it is written: a recursion that marks     *)
(* cells while it walks and threads the list of updated cells, one step    *)
(* per neighbour it looks at.  Module Game takes all of it in one step, by *)
(* the least closed set Cascade of module Mines; this module implements    *)
(* Game.  The moves that flood nothing are those of Game.  A move is       *)
(* still made as a whole as far as the others see: board, the board of     *)
(* Game, is the one that the last completed move left.                     *)
(***************************************************************************)
EXTENDS Game, Sequences

VARIABLES
  stack,         \* the open calls of cascade, the innermost last: the cell,
                 \* and the number of the neighbour the loop looks at next
  updatedCells,  \* the list the calls append to
  mover,         \* the player whose move floods, 0 between moves
  flooded        \* game.board while the recursion writes to it

floodVars  == <<stack, updatedCells, mover, flooded>>
searchVars == <<vars, floodVars>>

Idle == stack = << >> /\ updatedCells = << >> /\ mover = 0

SearchInit == Init /\ Idle /\ flooded = board

-----------------------------------------------------------------------------
(***************************************************************************)
(* cascade.                                                                *)
(***************************************************************************)
Offsets == << <<-1, -1>>, <<-1, 0>>, <<-1, 1>>, <<0, -1>>, <<0, 0>>,
              <<0, 1>>, <<1, -1>>, <<1, 0>>, <<1, 1>> >>

\* getNeighbouringCells, in the order of its two loops, with the places
\* outside the board that it leaves out.
Neighbour(c, i) == <<c[1] + Offsets[i][1], c[2] + Offsets[i][2]>>

\* Mutant: the recursion does not look at flags.
IsFreeFlagged(b, d) == d \in Cells(b) \ b.revealed

\* Mutant: the recursion does not look at what is revealed.
IsFreeRevealed(b, d) == d \in Cells(b) \ b.flagged

IsFree(b, d) == d \in Cells(b) \ Marked(b)

\* Mutant: the loop begins with the second neighbour.
FirstLate(b, c) == IF NumberOfMines(b, c) = 0 THEN 2 ELSE 10

\* The call returns before the loop when the cell touches a mine.
First(b, c) == IF NumberOfMines(b, c) = 0 THEN 1 ELSE 10

\* A call for c, made by the calls of outer.
Call(c, outer) ==
  /\ flooded' = [flooded EXCEPT !.revealed = @ \cup {c}]
  /\ updatedCells' = Append(updatedCells, c)
  /\ stack' = Append(outer, [cell |-> c, next |-> First(flooded, c)])

Top == stack[Len(stack)]

\* The neighbour the innermost loop looks at, and the calls when it got on.
Candidate == Neighbour(Top.cell, Top.next)

Onward == [stack EXCEPT ![Len(stack)].next = @ + 1]

\* One iteration of the innermost loop: the neighbour is left alone, or a call
\* is made for it.
Visit ==
  /\ stack # << >> /\ Top.next <= 9
  /\ IF IsFree(flooded, Candidate) THEN Call(Candidate, Onward)
     ELSE stack' = Onward /\ UNCHANGED <<flooded, updatedCells>>
  /\ UNCHANGED <<vars, mover>>

\* The innermost call returns to the one that made it.
Return ==
  /\ Len(stack) > 1 /\ Top.next = 10
  /\ stack' = SubSeq(stack, 1, Len(stack) - 1)
  /\ UNCHANGED <<vars, updatedCells, mover, flooded>>

-----------------------------------------------------------------------------
(***************************************************************************)
(* Reveal of a hidden safe cell, and the moves that flood nothing.         *)
(***************************************************************************)
\* Bound: the score stays below MaxScore even if all safe cells are uncovered.
Payable(pid) == mode = "Coop" => scores[pid] + Cardinality(Hidden(board) \ board.mine) <= MaxScore

Floods(type, c) == type = "Reveal" /\ c \in Hidden(board) \ board.mine

Begin ==
  /\ Idle
  /\ \E pid \in PlayerIds, c \in Positions :
       /\ Floods("Reveal", c) /\ Payable(pid)
       /\ Call(c, << >>)
       /\ mover' = pid
  /\ UNCHANGED vars

\* Coop.OnMove is a loop over the list: a cell that was in it twice would be
\* paid for twice.
Pay(b, pid, list) ==
  IF mode = "Coop"
  THEN /\ marks' = NewMarks(marks, b, pid, Range(list))
       /\ scores' = [scores EXCEPT ![pid] =
                       @ + Cardinality({i \in DOMAIN list : list[i] \in Marked(b)})
                         - Cardinality({i \in DOMAIN list : list[i] \notin Marked(b)})]
       /\ scores'[pid] \in -MaxScore .. MaxScore
  ELSE UNCHANGED <<marks, scores>>

\* The first call returns to Reveal, which counts the list, and MakeMove goes
\* on to OnMove.
Finish ==
  /\ Len(stack) = 1 /\ Top.next = 10
  /\ LET after == [flooded EXCEPT !.revealedCells = @ + Len(updatedCells)] IN
     /\ board' = after /\ flooded' = after
     /\ reply' = [result  |-> IF Won(after) THEN "GameWon" ELSE "CellRevealed",
                  updated |-> Range(updatedCells)]
     /\ Pay(after, mover, updatedCells)
  /\ stack' = << >> /\ updatedCells' = << >> /\ mover' = 0
  /\ UNCHANGED mode

OtherMove ==
  /\ Idle
  /\ \E pid \in PlayerIds, type \in {"Reveal", "Flag", "UNKNOWN"}, c \in Positions :
       ~Floods(type, c) /\ Move(pid, type, c)
  /\ flooded' = board'
  /\ UNCHANGED <<stack, updatedCells, mover>>

SearchNext == Begin \/ Visit \/ Return \/ Finish \/ OtherMove

SearchSpec == SearchInit /\ [][SearchNext]_searchVars

-----------------------------------------------------------------------------
(***************************************************************************)
(* Properties.                                                             *)
(***************************************************************************)
\* Between moves nothing is open.  While a flood is under way, the cells it
\* uncovered are those of the list, each once, although a cell is reached from
\* many neighbours.
ListIsFlood ==
  /\ stack = << >> => flooded = board /\ Idle
  /\ stack # << >> =>
       /\ flooded = [board EXCEPT !.revealed = @ \cup Range(updatedCells)]
       /\ IsInjective(updatedCells)

\* Nothing is forgotten on the way: a hidden neighbour of an uncovered cell that
\* touches no mine is still to come in the loop of an open call for that cell.
NothingForgotten ==
  \A c \in Range(updatedCells), e \in Hidden(flooded) :
    NumberOfMines(flooded, c) = 0 /\ e \in Neighbours(flooded, c) =>
      \E i \in DOMAIN stack : \E k \in stack[i].next .. 9 :
        stack[i].cell = c /\ Neighbour(c, k) = e

\* So at any moment the list and what the open calls have still to do make up
\* the flood.
FloodOnTrack == ListIsFlood /\ NothingForgotten

\* The recursion comes to its end: each step of a flood uncovers a cell, or
\* uncovers none and closes a call, or does neither and gets on in a loop.
FloodDescends ==
  [][stack # << >> /\ stack' # << >> =>
       \/ Cardinality(Hidden(flooded')) < Cardinality(Hidden(flooded))
       \/ /\ Hidden(flooded') = Hidden(flooded)
          /\ \/ Len(stack') < Len(stack)
             \/ /\ Len(stack') = Len(stack)
                /\ stack'[Len(stack')].next > Top.next]_searchVars

\* The moves are those of Game: when the recursion is through it has uncovered
\* exactly Cascade, counted and paid each cell once, and told whether the game
\* is won.
ImplementsGame == Spec
=============================================================================
