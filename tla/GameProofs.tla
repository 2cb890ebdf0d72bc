----------------------------- MODULE GameProofs -----------------------------
(***************************************************************************)
(* The properties of the modules Game and CascadeSearch, for every set of  *)
(* players, parameters and bounds, on the lemmas of MinesProofs.           *)
(***************************************************************************)
EXTENDS CascadeSearch, MinesProofs

\* The inductive invariant: TypeOK alone is not preserved, since the counter
\* and the flags of a board must be right for a move to leave them right.
IInv == TypeOK /\ CountMatches /\ FlaggedHidden

LEMMA IInvSound ==
  ASSUME IInv
  PROVE  Sound(board)
BY DEF IInv, TypeOK, CountMatches, FlaggedHidden, Sound

LEMMA InitIInv == Init => IInv
<1> SUFFICES ASSUME Init PROVE IInv
  OBVIOUS
<1>1. PICK p \in Params :
        /\ ValidParams(p)
        /\ board \in CreateBoard(p)
        /\ mode = p.mode
        /\ marks = NoMarks(board)
        /\ scores = [pid \in PlayerIds |-> 0]
        /\ reply = [result |-> "NoChange", updated |-> {}]
  BY DEF Init
<1>2. /\ p.width \in Nat \ {0} /\ p.height \in Nat \ {0} /\ p.mines \in Nat
      /\ p.mode \in GameModes
  BY <1>1, ParamsAssumption DEF ValidParams
<1>3. PICK M \in SUBSET Cells(p) :
        /\ Cardinality(M) = p.mines
        /\ board = [width |-> p.width, height |-> p.height, mines |-> p.mines,
                    mine |-> M, revealed |-> {}, flagged |-> {}, revealedCells |-> 0]
  BY <1>1 DEF CreateBoard
<1>4. Cells(board) = Cells(p)
  BY <1>3 DEF Cells
<1>5. IsBoard(board)
  BY <1>2, <1>3, <1>4 DEF IsBoard
<1>6. Counted(board) /\ FlaggedHidden
  BY <1>3, FS_EmptySet DEF Counted, FlaggedHidden
<1>7. /\ mode \in GameModes
      /\ marks \in [Cells(board) -> PlayerIds \cup {0}]
      /\ scores \in [PlayerIds -> Int]
      /\ reply \in [result : MoveResultTypes, updated : SUBSET Cells(board)]
  BY <1>1, <1>2 DEF NoMarks, MoveResultTypes
<1>8. QED
  BY <1>5, <1>6, <1>7 DEF IInv, TypeOK, CountMatches

(***************************************************************************)
(* A step is a reveal, a flag move, or an error that changes no field of   *)
(* the board.                                                              *)
(***************************************************************************)
Revealed(c) == RevealPost(board, c, [board   |-> board',
                                     result  |-> reply'.result,
                                     updated |-> reply'.updated])

FlagMoved(c) ==
  /\ Sound(board')
  /\ SameMines(board, board')
  /\ board'.revealed = board.revealed
  /\ reply'.updated \subseteq {c} \ board.revealed
  /\ board.flagged \ reply'.updated = board'.flagged \ reply'.updated
  /\ \A d \in reply'.updated : d \in board'.flagged <=> d \notin board.flagged
  /\ reply'.result \in {"NoChange", "Flagged"}

Refused == board' = board /\ reply' = [result |-> "Error", updated |-> {}]

LEMMA MoveEffect ==
  ASSUME IInv, NEW pid \in PlayerIds, NEW type, NEW c, Move(pid, type, c)
  PROVE  /\ Refused \/ (c \in Cells(board) /\ (Revealed(c) \/ FlagMoved(c)))
         /\ reply' = [result |-> reply'.result, updated |-> reply'.updated]
         /\ OnMove(board', pid, reply'.updated)
         /\ mode' = mode
<1> DEFINE r == MakeMove(board, type, c)
<1>1. /\ board' = r.board
      /\ reply' = [result |-> r.result, updated |-> r.updated]
      /\ OnMove(r.board, pid, r.updated)
      /\ mode' = mode
  BY DEF Move
<1>2. Sound(board)
  BY IInvSound
<1>3. CASE type \notin MoveTypes \/ c \notin Cells(board)
  <2>1. r = [board |-> board, result |-> "Error", updated |-> {}]
    BY <1>3 DEF MakeMove, Unchanged
  <2>2. QED
    BY <1>1, <2>1 DEF Refused
<1>4. CASE type = "Reveal" /\ c \in Cells(board)
  <2>1. r = Reveal(board, c)
    BY <1>4 DEF MakeMove, MoveTypes
  <2>2. RevealPost(board, c, r)
    BY <1>2, <1>4, <2>1, RevealEffect
  <2>3. Revealed(c)
    BY <1>1, <2>2 DEF Revealed, RevealPost
  <2>4. QED
    BY <1>1, <1>4, <2>3
<1>5. CASE type = "Flag" /\ c \in Cells(board)
  <2>1. r = Flag(board, c)
    BY <1>5 DEF MakeMove, MoveTypes
  <2>2. FlagMoved(c)
    <3>1. r = Flag(board, c)
      BY <2>1
    <3>2. \A d \in r.updated : d \in r.board.flagged <=> d \notin board.flagged
      BY <1>2, <3>1 DEF Flag, Unchanged, Sound, IsBoard
    <3> HIDE DEF r
    <3>3. QED
      BY <1>1, <1>2, <1>5, <3>1, <3>2, FlagEffect DEF FlagMoved
  <2>3. QED
    BY <1>1, <1>5, <2>2
<1>6. QED
  BY <1>3, <1>4, <1>5 DEF MoveTypes

LEMMA NextIsMove ==
  ASSUME Next
  PROVE  \E pid \in PlayerIds, type \in {"Reveal", "Flag", "UNKNOWN"}, c \in Positions :
           Move(pid, type, c)
BY DEF Next, RevealMove, FlagMove, UnknownMove

\* The board part of a step.
LEMMA BoardStep ==
  ASSUME IInv, NEW c,
         Refused \/ (c \in Cells(board) /\ (Revealed(c) \/ FlagMoved(c)))
  PROVE  /\ Sound(board')
         /\ SameMines(board, board')
         /\ Cells(board') = Cells(board)
         /\ reply'.updated \subseteq Cells(board)
         /\ reply'.result \in MoveResultTypes
         /\ \A d \in Cells(board) \ reply'.updated : d \in Marked(board') <=> d \in Marked(board)
<1>1. Sound(board)
  BY IInvSound
<1>2. CASE Refused
  BY <1>1, <1>2 DEF Refused, SameMines, MoveResultTypes
<1>3. CASE c \in Cells(board) /\ Revealed(c)
  <2>1. Sound(board') /\ SameMines(board, board') /\ Cells(board') = Cells(board)
    BY <1>3 DEF Revealed, RevealPost, SameMines, Cells
  <2>2. /\ board'.flagged = board.flagged
        /\ board'.revealed = board.revealed \cup reply'.updated
        /\ reply'.updated \subseteq Cells(board)
        /\ reply'.result \in MoveResultTypes
    BY <1>3 DEF Revealed, RevealPost, Hidden, MoveResultTypes
  <2>3. QED
    BY <2>1, <2>2 DEF Marked
<1>4. CASE c \in Cells(board) /\ FlagMoved(c)
  BY <1>4 DEF FlagMoved, SameMines, Cells, Marked, MoveResultTypes
<1>5. QED
  BY <1>2, <1>3, <1>4

LEMMA NextIInv == IInv /\ [Next]_vars => IInv'
<1> SUFFICES ASSUME IInv, [Next]_vars PROVE IInv'
  OBVIOUS
<1>1. CASE Next
  <2>1. PICK pid \in PlayerIds, type \in {"Reveal", "Flag", "UNKNOWN"}, c \in Positions :
          Move(pid, type, c)
    BY <1>1, NextIsMove
  <2>2. /\ Refused \/ (c \in Cells(board) /\ (Revealed(c) \/ FlagMoved(c)))
        /\ reply' = [result |-> reply'.result, updated |-> reply'.updated]
        /\ OnMove(board', pid, reply'.updated)
        /\ mode' = mode
    BY <2>1, MoveEffect
  <2>3. /\ Sound(board')
        /\ Cells(board') = Cells(board)
        /\ reply'.updated \subseteq Cells(board)
        /\ reply'.result \in MoveResultTypes
    BY <2>2, BoardStep
  <2>4. reply' \in [result : MoveResultTypes, updated : SUBSET Cells(board')]
    BY <2>2, <2>3
  <2>5. marks' \in [Cells(board') -> PlayerIds \cup {0}]
    BY <2>2, <2>3 DEF IInv, TypeOK, OnMove, NewMarks
  <2>6. scores' \in [PlayerIds -> Int]
    <3> DEFINE up   == Cardinality(reply'.updated \cap Marked(board'))
               down == Cardinality(reply'.updated \ Marked(board'))
    <3>1. IsFiniteSet(Cells(board'))
      BY <2>3, CellsFinite DEF Sound
    <3>2. up \in Nat /\ down \in Nat
      BY <2>3, <3>1, FS_Subset, FS_CardinalityType
    <3>3. scores' = scores \/ scores' = [scores EXCEPT ![pid] = @ + up - down]
      BY <2>2 DEF OnMove, NewScores
    <3> HIDE DEF up, down
    <3>4. QED
      BY <3>2, <3>3 DEF IInv, TypeOK
  <2>7. mode' \in GameModes
    BY <2>2 DEF IInv, TypeOK
  <2>8. QED
    BY <2>3, <2>4, <2>5, <2>6, <2>7 DEF IInv, TypeOK, CountMatches, FlaggedHidden, Sound
<1>2. CASE UNCHANGED vars
  BY <1>2 DEF vars, IInv, TypeOK, CountMatches, FlaggedHidden
<1>3. QED
  BY <1>1, <1>2

\* IInv holds in every reachable state of a game of any size.
THEOREM Invariance == Spec => []IInv
BY InitIInv, NextIInv, PTL DEF Spec

\* The board, the marks, the scores and the reply have their types.
THEOREM TypeCorrect == Spec => []TypeOK
<1>1. IInv => TypeOK
  BY DEF IInv
<1>2. QED
  BY <1>1, Invariance, PTL

\* The counter behind the win test is the number of safe revealed cells.
THEOREM CountCorrect == Spec => []CountMatches
<1>1. IInv => CountMatches
  BY DEF IInv
<1>2. QED
  BY <1>1, Invariance, PTL

\* No cell is ever both flagged and revealed.
THEOREM FlagsCorrect == Spec => []FlaggedHidden
<1>1. IInv => FlaggedHidden
  BY DEF IInv
<1>2. QED
  BY <1>1, Invariance, PTL

\* A cell has a mark exactly while it is flagged or revealed, in Coop games.
THEOREM MarksCorrect == Spec => []MarksMatch
<1>1. Init => MarksMatch
  <2> SUFFICES ASSUME Init PROVE MarksMatch
    OBVIOUS
  <2>1. marks = [c \in Cells(board) |-> 0]
    BY DEF Init, NoMarks
  <2>2. Marked(board) = {}
    BY DEF Init, CreateBoard, Marked
  <2>3. QED
    BY <2>1, <2>2 DEF MarksMatch
<1>2. ASSUME IInv, MarksMatch, [Next]_vars
      PROVE  MarksMatch'
  <2>1. CASE Next
    <3>1. PICK pid \in PlayerIds, type \in {"Reveal", "Flag", "UNKNOWN"}, c \in Positions :
            Move(pid, type, c)
      BY <2>1, NextIsMove
    <3>2. /\ Refused \/ (c \in Cells(board) /\ (Revealed(c) \/ FlagMoved(c)))
          /\ OnMove(board', pid, reply'.updated)
          /\ mode' = mode
      BY <1>2, <3>1, MoveEffect
    <3>3. /\ Cells(board') = Cells(board)
          /\ \A d \in Cells(board) \ reply'.updated :
               d \in Marked(board') <=> d \in Marked(board)
      BY <1>2, <3>2, BoardStep
    <3>4. pid # 0
      BY PlayerIdsAssumption
    <3>5. DOMAIN marks = Cells(board)
      BY <1>2 DEF IInv, TypeOK
    <3>6. SUFFICES ASSUME NEW d \in Cells(board)
                   PROVE  marks'[d] # 0 <=> (mode = "Coop" /\ d \in Marked(board'))
      BY <3>2, <3>3 DEF MarksMatch
    <3>7. CASE mode = "Coop"
      <4>1. marks'[d] = IF d \notin reply'.updated THEN marks[d]
                        ELSE IF d \in Marked(board') THEN pid ELSE 0
        BY <3>2, <3>5, <3>7 DEF OnMove, NewMarks
      <4>2. QED
        BY <1>2, <3>3, <3>4, <3>7, <4>1 DEF MarksMatch
    <3>8. CASE mode # "Coop"
      BY <1>2, <3>2, <3>8 DEF OnMove, MarksMatch
    <3>9. QED
      BY <3>7, <3>8
  <2>2. CASE UNCHANGED vars
    BY <1>2, <2>2 DEF vars, MarksMatch
  <2>3. QED
    BY <1>2, <2>1, <2>2
<1>3. QED
  BY <1>1, <1>2, Invariance, PTL DEF Spec

(***************************************************************************)
(* The action properties.  Each follows from one step taken where IInv     *)
(* holds.                                                                  *)
(***************************************************************************)
WonStep ==
  reply'.result = "GameWon" <=> Cleared(board') /\ ~Cleared(board)

MineStep ==
  (board'.revealed \ board.revealed) \cap board.mine # {}
    => /\ reply'.result = "MineBlown"
       /\ board'.revealed \ board.revealed = reply'.updated
       /\ Cardinality(reply'.updated) = 1

FloodStep ==
  \A c \in board'.revealed \ board.revealed :
    NumberOfMines(board, c) = 0 =>
      Neighbours(board, c) \subseteq board'.revealed \cup board'.flagged

FieldStep ==
  /\ board'.flagged = board.flagged \/ board'.revealed = board.revealed
  /\ board'.revealed \cap board.flagged = {}

LEMMA MoveSteps ==
  ASSUME IInv, Next
  PROVE  WonStep /\ MineStep /\ FloodStep /\ FieldStep
<1>1. PICK pid \in PlayerIds, type \in {"Reveal", "Flag", "UNKNOWN"}, c \in Positions :
        Move(pid, type, c)
  BY NextIsMove
<1>2. Refused \/ (c \in Cells(board) /\ (Revealed(c) \/ FlagMoved(c)))
  BY <1>1, MoveEffect
<1>3. IsBoard(board) /\ board.flagged \cap board.revealed = {}
  BY IInvSound DEF Sound
<1>4. CASE Refused
  BY <1>3, <1>4 DEF Refused, WonStep, MineStep, FloodStep, FieldStep
<1>5. CASE Revealed(c)
  <2>1. /\ board'.flagged = board.flagged
        /\ board'.revealed = board.revealed \cup reply'.updated
        /\ reply'.updated \subseteq Hidden(board)
        /\ reply'.updated \cap board.mine # {}
             => reply'.result = "MineBlown" /\ reply'.updated = {c}
        /\ reply'.result = "GameWon" <=> Cleared(board') /\ ~Cleared(board)
        /\ \A d \in reply'.updated :
             NumberOfMines(board, d) = 0 =>
               Neighbours(board, d) \cap Hidden(board) \subseteq reply'.updated
    BY <1>5 DEF Revealed, RevealPost
  <2>2. board'.revealed \ board.revealed = reply'.updated
    BY <2>1 DEF Hidden
  <2>3. WonStep
    BY <2>1 DEF WonStep
  <2>4. MineStep
    BY <2>1, <2>2, FS_Singleton DEF MineStep
  <2>5. FloodStep
    <3> SUFFICES ASSUME NEW d \in reply'.updated, NumberOfMines(board, d) = 0
                 PROVE  Neighbours(board, d) \subseteq board'.revealed \cup board'.flagged
      BY <2>2 DEF FloodStep
    <3>1. Neighbours(board, d) \subseteq Cells(board)
      BY DEF Neighbours
    <3>2. QED
      BY <2>1, <3>1 DEF Hidden
  <2>6. FieldStep
    BY <1>3, <2>1 DEF FieldStep, Hidden
  <2>7. QED
    BY <2>3, <2>4, <2>5, <2>6
<1>6. CASE FlagMoved(c)
  <2>1. Cleared(board') <=> Cleared(board)
    BY <1>6 DEF FlagMoved, SameMines, Cleared, SafeCells, Cells
  <2>2. QED
    BY <1>3, <1>6, <2>1 DEF FlagMoved, WonStep, MineStep, FloodStep, FieldStep
<1>7. QED
  BY <1>2, <1>4, <1>5, <1>6

\* GameWon is reported by exactly the move that uncovers the last safe cell.
THEOREM WonCorrect == Spec => WonIffCleared
<1>1. IInv /\ [Next]_vars => [WonStep]_vars
  BY MoveSteps
<1>2. QED
  BY <1>1, Invariance, PTL DEF Spec, WonIffCleared, WonStep

\* Only the move that reports MineBlown reveals a mine, and nothing else.
THEOREM MinesCorrect == Spec => MinesOnlyBlown
<1>1. IInv /\ [Next]_vars => [MineStep]_vars
  BY MoveSteps
<1>2. QED
  BY <1>1, Invariance, PTL DEF Spec, MinesOnlyBlown, MineStep

\* The flood fill leaves no hidden neighbour of a cell it found empty.
THEOREM FloodCorrect == Spec => FloodComplete
<1>1. IInv /\ [Next]_vars => [FloodStep]_vars
  BY MoveSteps
<1>2. QED
  BY <1>1, Invariance, PTL DEF Spec, FloodComplete, FloodStep

\* A move touches the flags or the revealed cells, and no flagged cell is
\* uncovered.
THEOREM FieldsCorrect == Spec => OneFieldPerMove
<1>1. IInv /\ [Next]_vars => [FieldStep]_vars
  BY MoveSteps
<1>2. QED
  BY <1>1, Invariance, PTL DEF Spec, OneFieldPerMove, FieldStep

(***************************************************************************)
(* What the updates leave out has not changed.                             *)
(***************************************************************************)
\* A display shows each cell with the value it would be reported with.
LEMMA ShownValue == \A b : Shown(b) = [d \in Cells(b) |-> CellValue(b, b, d)]
<1> SUFFICES ASSUME NEW b, NEW d \in Cells(b)
             PROVE  (IF d \in Marked(b) THEN GetChangedCellUpdates(b)[d] ELSE Unflag)
                      = CellValue(b, b, d)
  BY DEF Shown
<1>1. CASE d \in Marked(b)
  BY <1>1 DEF GetChangedCellUpdates, CreateCellUpdates
<1>2. CASE d \notin Marked(b)
  BY <1>2 DEF Marked, CellValue
<1>3. QED
  BY <1>1, <1>2

\* A cell that is not reported has the value it had.
UnreportedStay ==
  \A d \in Cells(board) \ reply'.updated : CellValue(board', board', d) = CellValue(board, board, d)

LEMMA MoveUnreported ==
  ASSUME IInv, Next
  PROVE  UnreportedStay
<1>1. PICK pid \in PlayerIds, type \in {"Reveal", "Flag", "UNKNOWN"}, c \in Positions :
        Move(pid, type, c)
  BY NextIsMove
<1>2. Refused \/ (c \in Cells(board) /\ (Revealed(c) \/ FlagMoved(c)))
  BY <1>1, MoveEffect
<1>3. SameMines(board, board') /\ Cells(board') = Cells(board)
  BY <1>2, BoardStep
<1>4. \A d : NumberOfMines(board', d) = NumberOfMines(board, d)
  BY <1>3 DEF NumberOfMines, Neighbours, SameMines
<1>5. \A d \in Cells(board) \ reply'.updated : /\ d \in board'.revealed <=> d \in board.revealed
                                               /\ d \in board'.flagged <=> d \in board.flagged
  <2>1. CASE Refused
    BY <2>1 DEF Refused
  <2>2. CASE Revealed(c)
    BY <2>2 DEF Revealed, RevealPost
  <2>3. CASE FlagMoved(c)
    BY <2>3 DEF FlagMoved
  <2>4. QED
    BY <1>2, <2>1, <2>2, <2>3
<1>6. QED
  BY <1>3, <1>4, <1>5 DEF UnreportedStay, CellValue, SameMines

UpdateStep ==
  Shown(board') = Apply(CreateCellUpdates(board', board', reply'.updated), Shown(board))

LEMMA MoveUpdates ==
  ASSUME IInv, Next
  PROVE  UpdateStep
<1>1. PICK pid \in PlayerIds, type \in {"Reveal", "Flag", "UNKNOWN"}, c \in Positions :
        Move(pid, type, c)
  BY NextIsMove
<1>2. Cells(board') = Cells(board)
  BY <1>1, MoveEffect, BoardStep
<1>3. /\ Shown(board) = [d \in Cells(board) |-> CellValue(board, board, d)]
      /\ Shown(board') = [d \in Cells(board) |-> CellValue(board', board', d)]
  BY <1>2, ShownValue
<1>4. QED
  BY <1>3, MoveUnreported DEF UpdateStep, UnreportedStay, Apply, CreateCellUpdates

\* A display that applies the updates of each move shows what a player who
\* joined after it is sent.
THEOREM UpdatesCorrect == Spec => UpdatesSuffice
<1>1. IInv /\ [Next]_vars => [UpdateStep]_vars
  BY MoveUpdates
<1>2. QED
  BY <1>1, Invariance, PTL DEF Spec, UpdatesSuffice, UpdateStep

(***************************************************************************)
(* The scores.                                                             *)
(***************************************************************************)
\* A nonempty set of natural numbers has a least element: induction, said of
\* a set.
LEMMA Least ==
  ASSUME NEW T \in SUBSET Nat, T # {}
  PROVE  \E x \in T : \A y \in T : x <= y
<1>1. PICK x \in T : \A y \in T : ~ (<<y, x>> \in OpToRel(<,Nat))
  BY NatLessThanWellFounded, WFMin, Zenon
<1>2. ASSUME NEW y \in T PROVE x <= y
  <2>1. ~ (<<y, x>> \in OpToRel(<,Nat))
    BY <1>1, Zenon
  <2>2. ~(y < x)
    BY <2>1 DEF OpToRel
  <2>3. QED
    BY <2>2
<1>3. QED
  BY <1>2, Zenon

Any(s) == CHOOSE x \in s : TRUE

\* The sums over all subsets of S, as the folds of the library compute them.
IsSum(f, S, sum) ==
  sum = [s \in SUBSET S |-> IF s = {} THEN 0 ELSE f[Any(s)] + sum[s \ {Any(s)}]]

SumOver(f, S) == CHOOSE sum : IsSum(f, S, sum)

LEMMA SumIsFold == ASSUME NEW f, NEW S PROVE  SumFunctionOnSet(f, S) = SumOver(f, S)[S]
BY Zenon DEF SumFunctionOnSet, FoldFunctionOnSet, MapThenFoldSet, SumOver, IsSum, Any

LEMMA AnyIn == \A s : s # {} => Any(s) \in s
BY Zenon DEF Any

\* There is a function of the sums of all subsets of a finite set: the sums
\* of the subsets with at most n elements, for one n after the other.
LEMMA SumExists ==
  ASSUME NEW f, NEW S, IsFiniteSet(S)
  PROVE  IsSum(f, S, SumOver(f, S))
<1> DEFINE Small(n) == {s \in SUBSET S : Cardinality(s) <= n}
           Sums(n, g) ==
             g = [s \in Small(n) |-> IF s = {} THEN 0 ELSE f[Any(s)] + g[s \ {Any(s)}]]
           Bad == {n \in Nat : \A g : ~Sums(n, g)}
<1>1. \A s \in SUBSET S : IsFiniteSet(s) /\ Cardinality(s) \in Nat
  BY FS_Subset, FS_CardinalityType
<1>2. Bad = {}
  <2>1. SUFFICES ASSUME NEW n \in Bad, \A k \in Bad : n <= k PROVE FALSE
    BY Least
  <2>2. CASE n = 0
    <3>1. \A s \in Small(0) : s = {}
      BY <1>1, FS_EmptySet
    <3>2. Sums(0, [s \in Small(0) |-> 0])
      BY <3>1
    <3> HIDE DEF Sums
    <3>3. QED
      BY <2>1, <2>2, <3>2, Zenon
  <2>3. CASE n # 0
    <3>1. n - 1 \in Nat /\ ~(n <= n - 1)
      BY <2>3
    <3>2. n - 1 \notin Bad
      BY <2>1, <3>1, Zenon
    <3>3. PICK g : Sums(n - 1, g)
      BY <3>1, <3>2
    <3> DEFINE h == [s \in Small(n) |-> IF s = {} THEN 0 ELSE f[Any(s)] + g[s \ {Any(s)}]]
    <3>4. ASSUME NEW s \in Small(n), s # {} PROVE s \ {Any(s)} \in Small(n - 1)
      <4>1. Cardinality(s \ {Any(s)}) = Cardinality(s) - 1
        BY <1>1, <3>4, AnyIn, FS_RemoveElement
      <4>2. QED
        BY <1>1, <4>1
    <3>5. \A s \in Small(n - 1) : s \in Small(n)
      BY <1>1
    <3>6. \A s \in Small(n - 1) : h[s] = g[s]
      BY <3>3, <3>5
    <3> HIDE DEF h
    <3>7. Sums(n, h)
      BY <3>4, <3>6 DEF h
    <3> HIDE DEF Sums
    <3>8. QED
      BY <2>1, <3>7, Zenon
  <2>4. QED
    BY <2>2, <2>3
<1>3. Cardinality(S) \in Nat /\ Small(Cardinality(S)) = SUBSET S
  BY FS_Subset, FS_CardinalityType
<1>4. PICK g : Sums(Cardinality(S), g)
  <2> HIDE DEF Sums
  <2>1. QED
    BY <1>2, <1>3, Zenon
<1>5. IsSum(f, S, g)
  BY <1>3, <1>4, Zenon DEF IsSum
<1>6. QED
  BY <1>5, Zenon DEF SumOver

\* A sum of integers is an integer, and splits at any of its terms, although
\* it was made in one order.
LEMMA SumSplits ==
  ASSUME NEW f, NEW S, IsFiniteSet(S), \A x \in S : f[x] \in Int,
         NEW sum, IsSum(f, S, sum)
  PROVE  \A T \in SUBSET S : /\ sum[T] \in Int
                             /\ \A x \in T : sum[T] = f[x] + sum[T \ {x}]
<1> DEFINE Fine(U) == /\ sum[U] \in Int
                      /\ \A x \in U : sum[U] = f[x] + sum[U \ {x}]
           Bad == {n \in Nat : \E T \in SUBSET S : Cardinality(T) = n /\ ~Fine(T)}
<1>1. \A T \in SUBSET S : IsFiniteSet(T) /\ Cardinality(T) \in Nat
  BY FS_Subset, FS_CardinalityType
<1>2. sum[{}] = 0
  BY DEF IsSum
<1>3. \A T \in SUBSET S : T # {} => sum[T] = f[Any(T)] + sum[T \ {Any(T)}]
  BY DEF IsSum
<1>4. \A T \in SUBSET S : \A x \in T : /\ T \ {x} \in SUBSET S
                                      /\ Cardinality(T \ {x}) \in Nat
                                      /\ Cardinality(T \ {x}) < Cardinality(T)
  <2> SUFFICES ASSUME NEW T \in SUBSET S, NEW x \in T
               PROVE  /\ Cardinality(T \ {x}) \in Nat
                      /\ Cardinality(T \ {x}) < Cardinality(T)
    OBVIOUS
  <2>1. Cardinality(T \ {x}) = Cardinality(T) - 1
    BY <1>1, FS_RemoveElement
  <2>2. QED
    BY <1>1, <2>1
<1>5. Bad = {}
  <2>1. SUFFICES ASSUME NEW n \in Bad, \A k \in Bad : n <= k PROVE FALSE
    BY Least
  <2>2. PICK T \in SUBSET S : Cardinality(T) = n /\ ~Fine(T)
    OBVIOUS
  <2>3. ASSUME NEW U \in SUBSET S, Cardinality(U) < n PROVE Fine(U)
    <3>1. Cardinality(U) \in Nat /\ ~(n <= Cardinality(U))
      BY <1>1, <2>3
    <3> HIDE DEF Fine
    <3>2. QED
      BY <2>1, <3>1
  <2>4. T # {}
    BY <1>2, <2>2
  <2>5. PICK y \in T : sum[T] = f[y] + sum[T \ {y}]
    BY <1>3, <2>4, AnyIn
  <2>6. sum[T \ {y}] \in Int
    BY <1>4, <2>2, <2>3
  <2>7. ASSUME NEW x \in T PROVE sum[T] = f[x] + sum[T \ {x}]
    <3>1. CASE x = y
      BY <2>5, <3>1
    <3>2. CASE x # y
      <4>1. Fine(T \ {y}) /\ Fine(T \ {x})
        BY <1>4, <2>2, <2>3, <2>5
      <4>2. sum[T \ {y}] = f[x] + sum[(T \ {y}) \ {x}]
        BY <3>2, <4>1
      <4>3. sum[T \ {x}] = f[y] + sum[(T \ {x}) \ {y}]
        BY <2>5, <3>2, <4>1
      <4>4. (T \ {y}) \ {x} = (T \ {x}) \ {y}
        OBVIOUS
      <4> DEFINE rest == sum[(T \ {x}) \ {y}]
      <4>5. rest \in Int
        <5>1. T \ {x} \in SUBSET S /\ y \in T \ {x} /\ Cardinality(T \ {x}) < n
          BY <1>4, <2>2, <2>5, <3>2
        <5>2. /\ (T \ {x}) \ {y} \in SUBSET S
              /\ Cardinality((T \ {x}) \ {y}) \in Nat
              /\ Cardinality((T \ {x}) \ {y}) < Cardinality(T \ {x})
          BY <1>4, <5>1
        <5>3. Cardinality((T \ {x}) \ {y}) < n
          BY <1>1, <5>1, <5>2
        <5>4. QED
          BY <2>3, <5>2, <5>3
      <4>6. f[x] \in Int /\ f[y] \in Int
        BY <2>5
      <4>7. sum[T \ {y}] = f[x] + rest /\ sum[T \ {x}] = f[y] + rest
        BY <4>2, <4>3, <4>4, Zenon
      <4> HIDE DEF rest
      <4>8. f[y] + (f[x] + rest) = f[x] + (f[y] + rest)
        BY <4>5, <4>6
      <4>9. QED
        BY <2>5, <4>7, <4>8, Zenon
    <3>3. QED
      BY <3>1, <3>2
  <2>8. sum[T] \in Int
    <3>1. f[y] \in Int
      OBVIOUS
    <3>2. QED
      BY <2>5, <2>6, <3>1
  <2>9. QED
    BY <2>2, <2>7, <2>8, Zenon
<1>6. QED
  <2> HIDE DEF Fine
  <2>1. ASSUME NEW T \in SUBSET S PROVE Fine(T)
    BY <1>1, <1>5
  <2>2. QED
    BY <2>1 DEF Fine

\* A sum of integers is an integer, and follows a change of one of its terms.
LEMMA SumFollows ==
  ASSUME NEW S, IsFiniteSet(S), NEW f \in [S -> Int], NEW g \in [S -> Int],
         NEW p \in S, \A x \in S \ {p} : g[x] = f[x]
  PROVE  /\ SumFunction(f) \in Int
         /\ SumFunction(g) = SumFunction(f) + g[p] - f[p]
<1> DEFINE sf == SumOver(f, S)
           sg == SumOver(g, S)
           T == S \ {p}
<1>1. IsSum(f, S, sf) /\ IsSum(g, S, sg)
  BY SumExists
<1> HIDE DEF sf, sg
<1>2. \A U \in SUBSET S : /\ sf[U] \in Int
                         /\ \A x \in U : sf[U] = f[x] + sf[U \ {x}]
  BY <1>1, SumSplits
<1>3. \A U \in SUBSET S : /\ sg[U] \in Int
                         /\ \A x \in U : sg[U] = g[x] + sg[U \ {x}]
  BY <1>1, SumSplits
<1>4. sf[T] = sg[T]
  <2> DEFINE Bad == {n \in Nat : \E U \in SUBSET T : Cardinality(U) = n /\ sf[U] # sg[U]}
  <2>1. \A U \in SUBSET S : IsFiniteSet(U) /\ Cardinality(U) \in Nat
    BY FS_Subset, FS_CardinalityType
  <2>2. Bad = {}
    <3>1. SUFFICES ASSUME NEW n \in Bad, \A k \in Bad : n <= k PROVE FALSE
      BY Least
    <3>2. PICK U \in SUBSET T : Cardinality(U) = n /\ sf[U] # sg[U]
      OBVIOUS
    <3>3. U # {}
      BY <1>1, <3>2 DEF IsSum
    <3>4. PICK x \in U : TRUE
      BY <3>3
    <3>5. sf[U] = f[x] + sf[U \ {x}] /\ sg[U] = f[x] + sg[U \ {x}]
      BY <1>2, <1>3
    <3>6. U \ {x} \in SUBSET T /\ Cardinality(U \ {x}) \in Nat /\ ~(n <= Cardinality(U \ {x}))
      BY <2>1, <3>2, FS_RemoveElement
    <3>7. sf[U \ {x}] = sg[U \ {x}]
      BY <3>1, <3>6
    <3>8. QED
      BY <3>2, <3>5, <3>7
  <2>3. QED
    BY <2>1, <2>2
<1>5. sf[S] = f[p] + sf[T] /\ sg[S] = g[p] + sg[T]
  BY <1>2, <1>3
<1>6. sf[T] \in Int /\ f[p] \in Int /\ g[p] \in Int
  BY <1>2
<1>7. SumFunction(f) = sf[S] /\ SumFunction(g) = sg[S]
  BY SumIsFold DEF SumFunction, sf, sg
<1>8. QED
  BY <1>4, <1>5, <1>6, <1>7

\* Nothing but zeros adds up to zero.
LEMMA SumOfZeros ==
  ASSUME NEW S, IsFiniteSet(S)
  PROVE  SumFunction([x \in S |-> 0]) = 0
<1> DEFINE f == [x \in S |-> 0]
           s == SumOver(f, S)
           Bad == {n \in Nat : \E U \in SUBSET S : Cardinality(U) = n /\ s[U] # 0}
<1>1. IsSum(f, S, s)
  BY SumExists
<1> HIDE DEF s
<1>2. \A U \in SUBSET S : IsFiniteSet(U) /\ Cardinality(U) \in Nat
  BY FS_Subset, FS_CardinalityType
<1>3. Bad = {}
  <2>1. SUFFICES ASSUME NEW n \in Bad, \A k \in Bad : n <= k PROVE FALSE
    BY Least
  <2>2. PICK U \in SUBSET S : Cardinality(U) = n /\ s[U] # 0
    OBVIOUS
  <2>3. U # {}
    BY <1>1, <2>2 DEF IsSum
  <2>4. Any(U) \in U
    BY <2>3, AnyIn
  <2>5. s[U] = 0 + s[U \ {Any(U)}]
    BY <1>1, <2>3, <2>4 DEF IsSum
  <2>6. /\ U \ {Any(U)} \in SUBSET S
        /\ Cardinality(U \ {Any(U)}) \in Nat
        /\ ~(n <= Cardinality(U \ {Any(U)}))
    BY <1>2, <2>2, <2>4, FS_RemoveElement
  <2>7. s[U \ {Any(U)}] = 0
    BY <2>1, <2>6
  <2>8. QED
    BY <2>2, <2>5, <2>7
<1>4. s[S] = 0
  BY <1>2, <1>3
<1>5. QED
  BY <1>4, SumIsFold DEF SumFunction, s

\* Every cell a move reports is one that it marked, or one that it no longer
\* marks.
LEMMA ReportedTurn ==
  ASSUME IInv, NEW c,
         Refused \/ (c \in Cells(board) /\ (Revealed(c) \/ FlagMoved(c)))
  PROVE  \A d \in reply'.updated : d \in Marked(board') <=> d \notin Marked(board)
<1>1. CASE Refused
  BY <1>1 DEF Refused
<1>2. CASE Revealed(c)
  BY <1>2 DEF Revealed, RevealPost, Hidden, Marked
<1>3. CASE FlagMoved(c)
  BY <1>3 DEF FlagMoved, Marked
<1>4. QED
  BY <1>1, <1>2, <1>3

\* Sets that differ in the members of up are as large, but for those.
LEMMA CountTurned ==
  ASSUME NEW A, NEW B, NEW up, IsFiniteSet(A), IsFiniteSet(B), IsFiniteSet(up),
         \A d : d \in up => (d \in B <=> d \notin A),
         \A d : d \notin up => (d \in B <=> d \in A)
  PROVE  /\ Cardinality(A) \in Nat
         /\ Cardinality(B) \in Nat
         /\ Cardinality(up \cap B) \in Nat
         /\ Cardinality(up \ B) \in Nat
         /\ Cardinality(B) = Cardinality(A) + Cardinality(up \cap B) - Cardinality(up \ B)
<1> DEFINE C == A \cap B
<1>1. /\ IsFiniteSet(C) /\ IsFiniteSet(up \cap B) /\ IsFiniteSet(up \ B)
      /\ Cardinality(C) \in Nat
      /\ Cardinality(A) \in Nat /\ Cardinality(B) \in Nat
      /\ Cardinality(up \cap B) \in Nat /\ Cardinality(up \ B) \in Nat
  BY FS_Subset, FS_CardinalityType
<1>2. /\ A = C \cup (up \ B) /\ C \cap (up \ B) = {}
      /\ B = C \cup (up \cap B) /\ C \cap (up \cap B) = {}
  OBVIOUS
<1>3. Cardinality({}) = 0
  BY FS_EmptySet
<1>4. Cardinality(C \cup (up \ B)) = Cardinality(C) + Cardinality(up \ B)
  <2>1. Cardinality(C \cup (up \ B))
          = Cardinality(C) + Cardinality(up \ B) - Cardinality(C \cap (up \ B))
    BY <1>1, FS_Union, Zenon
  <2>2. Cardinality(C \cap (up \ B)) = 0
    BY <1>2, <1>3, Zenon
  <2>3. \A k \in Nat, l \in Nat : k + l - 0 = k + l
    OBVIOUS
  <2>4. QED
    BY <1>1, <2>1, <2>2, <2>3, Zenon
<1>5. Cardinality(C \cup (up \cap B)) = Cardinality(C) + Cardinality(up \cap B)
  <2>1. Cardinality(C \cup (up \cap B))
          = Cardinality(C) + Cardinality(up \cap B) - Cardinality(C \cap (up \cap B))
    BY <1>1, FS_Union, Zenon
  <2>2. Cardinality(C \cap (up \cap B)) = 0
    BY <1>2, <1>3, Zenon
  <2>3. \A k \in Nat, l \in Nat : k + l - 0 = k + l
    OBVIOUS
  <2>4. QED
    BY <1>1, <2>1, <2>2, <2>3, Zenon
<1>6. /\ Cardinality(A) = Cardinality(C) + Cardinality(up \ B)
      /\ Cardinality(B) = Cardinality(C) + Cardinality(up \cap B)
  BY <1>2, <1>4, <1>5, Zenon
<1>7. QED
  BY <1>1, <1>6

\* In a Coop game the scores add up to the number of marked cells: a move adds
\* to one score what it adds to the marked cells.
THEOREM ScoresCorrect == Spec => []ScoresAddUp
<1>1. Init => ScoresAddUp
  <2> SUFFICES ASSUME Init PROVE ScoresAddUp
    OBVIOUS
  <2>1. scores = [pid \in PlayerIds |-> 0]
    BY DEF Init
  <2>2. Marked(board) = {}
    BY DEF Init, CreateBoard, Marked
  <2>3. QED
    BY <2>1, <2>2, FewPlayersAssumption, SumOfZeros, FS_EmptySet DEF ScoresAddUp
<1>2. ASSUME IInv, ScoresAddUp, [Next]_vars
      PROVE  ScoresAddUp'
  <2>1. CASE Next
    <3> SUFFICES ASSUME mode' = "Coop"
                 PROVE  SumFunction(scores') = Cardinality(Marked(board'))
      BY DEF ScoresAddUp
    <3>1. PICK pid \in PlayerIds, type \in {"Reveal", "Flag", "UNKNOWN"}, c \in Positions :
            Move(pid, type, c)
      BY <2>1, NextIsMove
    <3>2. /\ Refused \/ (c \in Cells(board) /\ (Revealed(c) \/ FlagMoved(c)))
          /\ OnMove(board', pid, reply'.updated)
          /\ mode' = mode
      BY <1>2, <3>1, MoveEffect
    <3> DEFINE A == Marked(board)
               B == Marked(board')
               up == reply'.updated
    <3>3. /\ Sound(board')
          /\ Cells(board') = Cells(board)
          /\ up \subseteq Cells(board)
          /\ \A d \in Cells(board) \ up : d \in B <=> d \in A
      BY <1>2, <3>2, BoardStep
    <3>4. \A d \in up : d \in B <=> d \notin A
      BY <1>2, <3>2, ReportedTurn
    <3>5. A \subseteq Cells(board) /\ B \subseteq Cells(board)
      BY <1>2, <3>3 DEF IInv, TypeOK, Sound, IsBoard, Marked
    <3>6. IsFiniteSet(Cells(board))
      BY <1>2, CellsFinite DEF IInv, TypeOK
    <3>7. IsFiniteSet(A) /\ IsFiniteSet(B) /\ IsFiniteSet(up)
      BY <3>3, <3>5, <3>6, FS_Subset
    <3>8. scores \in [PlayerIds -> Int] /\ scores' \in [PlayerIds -> Int]
      BY <1>2, NextIInv DEF IInv, TypeOK
    <3>9. scores' = [scores EXCEPT ![pid] = @ + Cardinality(up \cap B) - Cardinality(up \ B)]
      BY <3>2 DEF OnMove, NewScores
    <3> HIDE DEF A, B, up
    <3>10. /\ Cardinality(A) \in Nat
           /\ Cardinality(up \cap B) \in Nat
           /\ Cardinality(up \ B) \in Nat
           /\ Cardinality(B) = Cardinality(A) + Cardinality(up \cap B) - Cardinality(up \ B)
      BY <3>3, <3>4, <3>5, <3>7, CountTurned
    <3>11. /\ scores'[pid] = scores[pid] + Cardinality(up \cap B) - Cardinality(up \ B)
           /\ \A p \in PlayerIds \ {pid} : scores'[p] = scores[p]
      BY <3>8, <3>9
    <3>12. /\ SumFunction(scores) \in Int
           /\ SumFunction(scores') = SumFunction(scores) + scores'[pid] - scores[pid]
      BY <3>8, <3>11, FewPlayersAssumption, SumFollows
    <3>13. SumFunction(scores) = Cardinality(A)
      BY <1>2, <3>2 DEF ScoresAddUp, A
    <3>14. scores[pid] \in Int
      BY <3>8
    <3>15. SumFunction(scores') = Cardinality(B)
      BY <3>10, <3>11, <3>12, <3>13, <3>14
    <3>16. QED
      BY <3>15 DEF B
  <2>2. CASE UNCHANGED vars
    BY <1>2, <2>2 DEF vars, ScoresAddUp
  <2>3. QED
    BY <1>2, <2>1, <2>2
<1>3. QED
  BY <1>1, <1>2, Invariance, PTL DEF Spec

-----------------------------------------------------------------------------
(***************************************************************************)
(* The flood fill, step by step: the recursion of CascadeSearch comes to   *)
(* an end, and what it does is Game's move in one step.                    *)
(***************************************************************************)
Uncovered == Range(updatedCells)

\* The open calls and the list of a flood are about cells of the board; the flood
\* began with a hidden safe cell, uncovered only cells of Cascade, and a loop runs
\* only in a call for an uncovered cell that touches no mine.
Calls ==
  /\ updatedCells \in Seq(Cells(board))
  /\ stack \in Seq([cell : Cells(board), next : 1 .. 10])
  /\ stack[1].cell \in Positions \cap (Hidden(board) \ board.mine)
  /\ mover \in PlayerIds
  /\ Uncovered \subseteq Cascade(board, stack[1].cell)
  /\ \A i \in DOMAIN stack :
       /\ stack[i].cell \in Uncovered
       /\ stack[i].next # 10 => NumberOfMines(board, stack[i].cell) = 0

SearchInv ==
  /\ Sound(board)
  /\ ListIsFlood
  /\ stack # << >> => Calls
  /\ NothingForgotten

\* The loops of getNeighbouringCells come to all neighbours, and to nothing else
\* of the board.
LEMMA NeighboursNumbered ==
  ASSUME NEW b, IsBoard(b), NEW c \in Cells(b)
  PROVE  /\ \A d \in Neighbours(b, c) : \E k \in 1 .. 9 : Neighbour(c, k) = d
         /\ \A k \in 1 .. 9 : Neighbour(c, k) \in Cells(b) => Neighbour(c, k) \in Neighbours(b, c)
<1> USE DEF Offsets
<1>1. /\ c = <<c[1], c[2]>> /\ c[1] \in Int /\ c[2] \in Int
      /\ \A d \in Cells(b) : d = <<d[1], d[2]>> /\ d[1] \in Int /\ d[2] \in Int
  BY DEF Cells, IsBoard
<1>2. /\ Neighbour(c, 1) = <<c[1] - 1, c[2] - 1>>
      /\ Neighbour(c, 2) = <<c[1] - 1, c[2]>>
      /\ Neighbour(c, 3) = <<c[1] - 1, c[2] + 1>>
      /\ Neighbour(c, 4) = <<c[1], c[2] - 1>>
      /\ Neighbour(c, 5) = <<c[1], c[2]>>
      /\ Neighbour(c, 6) = <<c[1], c[2] + 1>>
      /\ Neighbour(c, 7) = <<c[1] + 1, c[2] - 1>>
      /\ Neighbour(c, 8) = <<c[1] + 1, c[2]>>
      /\ Neighbour(c, 9) = <<c[1] + 1, c[2] + 1>>
  BY <1>1 DEF Neighbour
<1>3. ASSUME NEW d \in Neighbours(b, c) PROVE \E k \in 1 .. 9 : Neighbour(c, k) = d
  <2>1. d = <<d[1], d[2]>> /\ d[1] \in Int /\ d[2] \in Int
    BY <1>1 DEF Neighbours
  <2>2. d[1] \in {c[1] - 1, c[1], c[1] + 1} /\ d[2] \in {c[2] - 1, c[2], c[2] + 1}
    BY <1>1, <2>1 DEF Neighbours
  <2>3. \E k \in {1, 2, 3, 4, 5, 6, 7, 8, 9} : Neighbour(c, k) = d
    BY <1>2, <2>1, <2>2
  <2>4. QED
    BY <2>3
<1>4. ASSUME NEW k \in 1 .. 9, Neighbour(c, k) \in Cells(b)
      PROVE  Neighbour(c, k) \in Neighbours(b, c)
  <2>1. k \in {1, 2, 3, 4, 5, 6, 7, 8, 9}
    OBVIOUS
  <2>2. /\ Neighbour(c, k)[1] - c[1] \in -1 .. 1
        /\ Neighbour(c, k)[2] - c[2] \in -1 .. 1
    BY <1>1, <1>2, <2>1
  <2>3. QED
    BY <1>4, <2>2 DEF Neighbours
<1>5. QED
  BY <1>3, <1>4

\* Mines and neighbours depend on what does not change while cells are uncovered.
LEMMA SameFloor ==
  ASSUME NEW b, NEW after, SameMines(b, after)
  PROVE  /\ Cells(after) = Cells(b)
         /\ \A c : Neighbours(after, c) = Neighbours(b, c)
         /\ \A c : NumberOfMines(after, c) = NumberOfMines(b, c)
<1>1. Cells(after) = Cells(b)
  BY DEF Cells, SameMines
<1>2. \A c : Neighbours(after, c) = Neighbours(b, c)
  BY <1>1 DEF Neighbours
<1>3. QED
  BY <1>1, <1>2 DEF NumberOfMines, SameMines

\* The board in the middle of a flood that uncovered the cells of S.
LEMMA HalfFlooded ==
  ASSUME NEW b, IsBoard(b), NEW S, S \subseteq Hidden(b), NEW half,
         half = [b EXCEPT !.revealed = @ \cup S]
  PROVE  /\ SameMines(b, half)
         /\ half.revealed = b.revealed \cup S
         /\ half.flagged = b.flagged
         /\ Hidden(half) = Hidden(b) \ S
         /\ IsBoard(half)
<1>1. /\ SameMines(b, half)
      /\ half.revealed = b.revealed \cup S
      /\ half.flagged = b.flagged
  BY DEF IsBoard, SameMines
<1>2. Hidden(half) = Hidden(b) \ S
  BY <1>1, SameFloor DEF Hidden
<1>3. b.revealed \cup S \in SUBSET Cells(b)
  BY DEF Hidden, IsBoard
<1>4. IsBoard(half)
  BY <1>3 DEF IsBoard, Cells
<1>5. QED
  BY <1>1, <1>2, <1>4

\* What the invariant says of a flood that is under way.
LEMMA UnderWay ==
  ASSUME SearchInv, stack # << >>
  PROVE  /\ Calls
         /\ IsBoard(board) /\ IsBoard(flooded)
         /\ SameMines(board, flooded)
         /\ Uncovered \subseteq Hidden(board) \ board.mine
         /\ flooded = [board EXCEPT !.revealed = @ \cup Uncovered]
         /\ Hidden(flooded) = Hidden(board) \ Uncovered
         /\ Cells(flooded) = Cells(board)
         /\ \A c : Neighbours(flooded, c) = Neighbours(board, c)
         /\ \A c : NumberOfMines(flooded, c) = NumberOfMines(board, c)
         /\ Len(stack) \in Nat \ {0} /\ DOMAIN stack = 1 .. Len(stack)
         /\ \A i \in DOMAIN stack : stack[i] \in [cell : Cells(board), next : 1 .. 10]
<1>1. Calls /\ IsBoard(board) /\ flooded = [board EXCEPT !.revealed = @ \cup Uncovered]
  BY DEF SearchInv, Sound, ListIsFlood, Uncovered
<1>2. Uncovered \subseteq Hidden(board) \ board.mine
  BY <1>1, CascadeSafe DEF Calls
<1>3. /\ SameMines(board, flooded) /\ IsBoard(flooded)
      /\ Hidden(flooded) = Hidden(board) \ Uncovered
  BY <1>1, <1>2, HalfFlooded
<1>4. stack \in Seq([cell : Cells(board), next : 1 .. 10])
  BY <1>1 DEF Calls
<1>5. Len(stack) \in Nat \ {0} /\ DOMAIN stack = 1 .. Len(stack)
  BY <1>4
<1>6. \A i \in DOMAIN stack : stack[i] \in [cell : Cells(board), next : 1 .. 10]
  <2> DEFINE F == [cell : Cells(board), next : 1 .. 10]
  <2>1. stack \in Seq(F)
    BY <1>4
  <2> HIDE DEF F
  <2>2. \A i \in DOMAIN stack : stack[i] \in F
    BY <2>1
  <2>3. QED
    BY <2>2 DEF F
<1>7. QED
  BY <1>1, <1>2, <1>3, <1>5, <1>6, SameFloor

\* A flood from first may go on with a call for c, made by the calls of outer: c
\* is hidden and belongs to the flood, and outer comes to all that is hidden after it.
MayCall(c, outer, first) ==
  /\ updatedCells \in Seq(Cells(board)) /\ IsInjective(updatedCells)
  /\ flooded = [board EXCEPT !.revealed = @ \cup Uncovered]
  /\ outer \in Seq([cell : Cells(board), next : 1 .. 10])
  /\ first = IF outer = << >> THEN c ELSE outer[1].cell
  /\ first \in Positions \cap (Hidden(board) \ board.mine)
  /\ c \in Hidden(board) \ Uncovered
  /\ Uncovered \cup {c} \subseteq Cascade(board, first)
  /\ \A i \in DOMAIN outer :
       /\ outer[i].cell \in Uncovered
       /\ outer[i].next # 10 => NumberOfMines(board, outer[i].cell) = 0
  /\ \A d \in Uncovered, e \in Hidden(board) \ (Uncovered \cup {c}) :
       NumberOfMines(board, d) = 0 /\ e \in Neighbours(board, d) =>
         \E i \in DOMAIN outer : \E k \in outer[i].next .. 9 :
           outer[i].cell = d /\ Neighbour(d, k) = e

LEMMA CallKeeps ==
  ASSUME Sound(board), board' = board, NEW c, NEW outer, NEW first,
         MayCall(c, outer, first), Call(c, outer), mover' \in PlayerIds
  PROVE  SearchInv' /\ Hidden(flooded') = Hidden(flooded) \ {c} /\ c \in Hidden(flooded)
<1> DEFINE frame == [cell |-> c, next |-> First(flooded, c)]
           n == Len(outer)
           m == Len(updatedCells)
<1> USE DEF MayCall
<1>1. /\ stack' = Append(outer, frame)
      /\ updatedCells' = Append(updatedCells, c)
      /\ flooded' = [flooded EXCEPT !.revealed = @ \cup {c}]
  BY DEF Call
<1>2. IsBoard(board) /\ c \in Cells(board)
  BY DEF Sound, Hidden
<1>3. Uncovered \subseteq Hidden(board) \ board.mine /\ Uncovered \cup {c} \subseteq Hidden(board)
  BY <1>2, CascadeSafe
<1>4. /\ SameMines(board, flooded) /\ IsBoard(flooded)
      /\ flooded.revealed = board.revealed \cup Uncovered
      /\ Hidden(flooded) = Hidden(board) \ Uncovered
  <2>1. flooded = [board EXCEPT !.revealed = @ \cup Uncovered]
    OBVIOUS
  <2>2. Uncovered \subseteq Hidden(board)
    BY <1>3
  <2> HIDE DEF MayCall
  <2>3. QED
    BY <1>2, <2>1, <2>2, HalfFlooded
<1>5. First(flooded, c) = IF NumberOfMines(board, c) = 0 THEN 1 ELSE 10
  BY <1>4, SameFloor DEF First
<1>6. frame \in [cell : Cells(board), next : 1 .. 10]
  BY <1>2, <1>5
<1>7. /\ n \in Nat /\ DOMAIN outer = 1 .. n
      /\ stack' \in Seq([cell : Cells(board), next : 1 .. 10])
      /\ Len(stack') = n + 1 /\ DOMAIN stack' = 1 .. n + 1
      /\ \A i \in 1 .. n : stack'[i] = outer[i]
      /\ stack'[n + 1] = frame
  BY <1>1, <1>6
<1>8. /\ m \in Nat /\ DOMAIN updatedCells = 1 .. m
      /\ updatedCells' \in Seq(Cells(board))
      /\ DOMAIN updatedCells' = 1 .. m + 1
      /\ \A i \in 1 .. m : updatedCells'[i] = updatedCells[i]
      /\ updatedCells'[m + 1] = c
  BY <1>1, <1>2
<1>9. Uncovered' = Uncovered \cup {c}
  <2>1. \A i \in 1 .. m : updatedCells[i] \in Uncovered
    BY <1>8 DEF Uncovered, Range
  <2>2. \A d \in Uncovered : \E i \in 1 .. m : updatedCells[i] = d
    BY <1>8 DEF Uncovered, Range
  <2>3. \A d : d \in Uncovered' <=> \E i \in 1 .. m + 1 : updatedCells'[i] = d
    BY <1>8 DEF Uncovered, Range
  <2>4. \A i \in 1 .. m + 1 : i \in 1 .. m \/ i = m + 1
    BY <1>8
  <2>5. \A i \in 1 .. m : i \in 1 .. m + 1
    BY <1>8
  <2>6. m + 1 \in 1 .. m + 1
    BY <1>8
  <2>7. QED
    BY <1>8, <2>1, <2>2, <2>3, <2>4, <2>5, <2>6
<1>10. IsInjective(updatedCells')
  <2>1. \A i \in 1 .. m + 1 : i \in 1 .. m \/ i = m + 1
    BY <1>8
  <2>2. \A i \in 1 .. m : updatedCells[i] # c
    BY <1>8 DEF Uncovered, Range
  <2>3. QED
    BY <1>8, <2>1, <2>2 DEF IsInjective
<1>11. flooded' = [board EXCEPT !.revealed = @ \cup Uncovered']
  <2>1. flooded' = [board EXCEPT !.revealed = (board.revealed \cup Uncovered) \cup {c}]
    BY <1>1, <1>2, <1>4 DEF IsBoard
  <2>2. (board.revealed \cup Uncovered) \cup {c} = board.revealed \cup Uncovered'
    BY <1>9
  <2>3. QED
    BY <2>1, <2>2, Zenon
<1>12. /\ SameMines(board, flooded')
       /\ Hidden(flooded') = Hidden(board) \ Uncovered'
  BY <1>2, <1>3, <1>9, <1>11, HalfFlooded
<1>13. stack'[1].cell = first
  BY <1>7
<1>14. Calls'
  <2>1. \A i \in DOMAIN stack' :
          /\ stack'[i].cell \in Uncovered'
          /\ stack'[i].next # 10 => NumberOfMines(board, stack'[i].cell) = 0
    <3>1. \A i \in 1 .. n + 1 : i \in 1 .. n \/ i = n + 1
      BY <1>7
    <3>2. ASSUME NEW i \in 1 .. n
          PROVE  /\ stack'[i].cell \in Uncovered'
                 /\ stack'[i].next # 10 => NumberOfMines(board, stack'[i].cell) = 0
      BY <1>7, <1>9
    <3>3. /\ frame.cell \in Uncovered'
          /\ frame.next # 10 => NumberOfMines(board, frame.cell) = 0
      BY <1>5, <1>9
    <3>4. QED
      BY <1>7, <3>1, <3>2, <3>3
  <2>2. QED
    BY <1>7, <1>8, <1>9, <1>13, <2>1 DEF Calls
<1>15. NothingForgotten'
  <2> SUFFICES ASSUME NEW d \in Uncovered', NEW e \in Hidden(flooded'),
                      NumberOfMines(flooded', d) = 0, e \in Neighbours(flooded', d)
               PROVE  \E i \in DOMAIN stack' : \E k \in stack'[i].next .. 9 :
                        stack'[i].cell = d /\ Neighbour(d, k) = e
    BY DEF NothingForgotten, Uncovered
  <2>1. /\ e \in Hidden(board) \ (Uncovered \cup {c})
        /\ NumberOfMines(board, d) = 0 /\ e \in Neighbours(board, d)
    BY <1>9, <1>12, SameFloor
  <2>2. CASE d \in Uncovered
    <3>1. PICK i \in DOMAIN outer : \E k \in outer[i].next .. 9 :
                 outer[i].cell = d /\ Neighbour(d, k) = e
      BY <2>1, <2>2
    <3>2. i \in DOMAIN stack' /\ stack'[i] = outer[i]
      BY <1>7
    <3>3. QED
      BY <3>1, <3>2
  <2>3. CASE d = c
    <3>1. PICK k \in 1 .. 9 : Neighbour(c, k) = e
      BY <1>2, <2>1, <2>3, NeighboursNumbered
    <3>2. n + 1 \in DOMAIN stack' /\ stack'[n + 1].cell = c /\ stack'[n + 1].next = 1
      BY <1>5, <1>7, <2>1, <2>3
    <3>3. QED
      BY <2>3, <3>1, <3>2
  <2>4. QED
    BY <1>9, <2>2, <2>3
<1>16. stack' # << >>
  BY <1>7
<1>17. ListIsFlood'
  BY <1>10, <1>11, <1>16 DEF ListIsFlood, Uncovered
<1>18. Sound(board')
  OBVIOUS
<1>19. QED
  BY <1>4, <1>9, <1>12, <1>14, <1>15, <1>17, <1>18 DEF SearchInv

\* A move begins a flood.
LEMMA BeginKeeps ==
  ASSUME SearchInv, Begin
  PROVE  SearchInv' /\ board' = board
<1>1. /\ stack = << >> /\ updatedCells = << >> /\ board = flooded
      /\ Sound(board) /\ board' = board
  BY DEF SearchInv, ListIsFlood, Begin, Idle, vars
<1>2. PICK pid \in PlayerIds, c \in Positions :
        c \in Hidden(board) \ board.mine /\ Call(c, << >>) /\ mover' = pid
  BY DEF Begin, Floods
<1>3. IsBoard(board) /\ Uncovered = {}
  BY <1>1 DEF Sound, Uncovered, Range
<1>4. c \in Hidden(board) \ board.mine /\ c \in Cascade(board, c)
  BY <1>1, <1>2, <1>3, CascadeSafe
<1>5. flooded = [board EXCEPT !.revealed = @ \cup Uncovered]
  BY <1>1, <1>3 DEF IsBoard
<1>6. updatedCells \in Seq(Cells(board)) /\ IsInjective(updatedCells)
  BY <1>1 DEF IsInjective
<1>7. MayCall(c, << >>, c)
  BY <1>3, <1>4, <1>5, <1>6 DEF MayCall
<1>8. QED
  BY <1>1, <1>2, <1>7, CallKeeps

\* The innermost loop gets on to its next neighbour.
LEMMA LoopAdvances ==
  ASSUME SearchInv, stack # << >>, Top.next <= 9
  PROVE  /\ Onward \in Seq([cell : Cells(board), next : 1 .. 10]) /\ Onward # << >>
         /\ Len(Onward) = Len(stack) /\ DOMAIN Onward = DOMAIN stack
         /\ \A i \in DOMAIN stack : Onward[i].cell = stack[i].cell
         /\ \A i \in DOMAIN stack : i # Len(stack) => Onward[i] = stack[i]
         /\ Onward[Len(stack)].next = Top.next + 1
         /\ \A i \in DOMAIN stack :
              /\ Onward[i].cell \in Uncovered
              /\ Onward[i].next # 10 => NumberOfMines(board, Onward[i].cell) = 0
         /\ Top.next \in 1 .. 9 /\ Top.cell \in Uncovered
         /\ Candidate \in Cells(board) =>
              /\ Candidate \in Neighbours(board, Top.cell)
              /\ Candidate \in Hidden(board) =>
                   Candidate \in Cascade(board, stack[1].cell)
         /\ \A d \in Uncovered, e \in Hidden(flooded) :
              NumberOfMines(board, d) = 0 /\ e \in Neighbours(board, d) /\ e # Candidate =>
                \E i \in DOMAIN Onward : \E k \in Onward[i].next .. 9 :
                  Onward[i].cell = d /\ Neighbour(d, k) = e
<1> DEFINE n == Len(stack)
           F == [cell : Cells(board), next : 1 .. 10]
<1>1. /\ Calls /\ IsBoard(board)
      /\ n \in Nat \ {0} /\ DOMAIN stack = 1 .. n
      /\ \A i \in DOMAIN stack : stack[i] \in F
  BY UnderWay
<1>2. n \in DOMAIN stack /\ Top = stack[n]
  BY <1>1 DEF Top
<1>3. Top.next \in 1 .. 9 /\ Top.cell \in Cells(board)
  <2>1. Top \in F
    BY <1>1, <1>2
  <2>2. QED
    BY <2>1
<1>4. Onward = [stack EXCEPT ![n] = [Top EXCEPT !.next = Top.next + 1]]
  BY <1>2 DEF Onward
<1> DEFINE top == [Top EXCEPT !.next = Top.next + 1]
<1>5. top \in F /\ top.cell = Top.cell /\ top.next = Top.next + 1
  BY <1>1, <1>2, <1>3
<1>6. stack \in Seq(F)
  BY <1>1 DEF Calls
<1> HIDE DEF top, F
<1>7. /\ Onward \in Seq(F) /\ Len(Onward) = n /\ DOMAIN Onward = 1 .. n
      /\ \A i \in 1 .. n : Onward[i] = IF i = n THEN top ELSE stack[i]
  BY <1>1, <1>2, <1>4, <1>5, <1>6 DEF top
<1>8. \A i \in DOMAIN stack : Onward[i].cell = stack[i].cell
  BY <1>1, <1>2, <1>5, <1>7
<1>9. NumberOfMines(board, Top.cell) = 0 /\ Top.cell \in Uncovered
  BY <1>1, <1>2, <1>3 DEF Calls
<1>10. \A i \in DOMAIN stack :
         /\ Onward[i].cell \in Uncovered
         /\ Onward[i].next # 10 => NumberOfMines(board, Onward[i].cell) = 0
  BY <1>1, <1>2, <1>5, <1>7, <1>9 DEF Calls
<1>11. Candidate \in Cells(board) =>
         /\ Candidate \in Neighbours(board, Top.cell)
         /\ Candidate \in Hidden(board) => Candidate \in Cascade(board, stack[1].cell)
  <2> SUFFICES ASSUME Candidate \in Cells(board)
               PROVE  /\ Candidate \in Neighbours(board, Top.cell)
                      /\ Candidate \in Hidden(board) => Candidate \in Cascade(board, stack[1].cell)
    OBVIOUS
  <2>1. Candidate \in Neighbours(board, Top.cell)
    BY <1>1, <1>3, NeighboursNumbered DEF Candidate
  <2>2. Top.cell \in Cascade(board, stack[1].cell)
    BY <1>1, <1>9 DEF Calls
  <2>3. QED
    BY <1>9, <2>1, <2>2, CascadeComplete
<1>12. ASSUME NEW d \in Uncovered, NEW e \in Hidden(flooded),
              NumberOfMines(board, d) = 0, e \in Neighbours(board, d), e # Candidate
       PROVE  \E i \in DOMAIN Onward : \E k \in Onward[i].next .. 9 :
                Onward[i].cell = d /\ Neighbour(d, k) = e
  <2>1. NumberOfMines(flooded, d) = 0 /\ e \in Neighbours(flooded, d)
    BY <1>12, UnderWay
  <2>2. PICK i \in DOMAIN stack : \E k \in stack[i].next .. 9 :
               stack[i].cell = d /\ Neighbour(d, k) = e
    BY <2>1 DEF SearchInv, NothingForgotten, Uncovered
  <2>3. CASE i # n
    BY <1>1, <1>7, <2>2, <2>3
  <2>4. CASE i = n
    <3>1. PICK k \in Top.next .. 9 : Top.cell = d /\ Neighbour(d, k) = e
      BY <1>2, <2>2, <2>4
    <3>2. k # Top.next
      BY <1>12, <3>1 DEF Candidate
    <3>3. k \in Top.next + 1 .. 9
      BY <1>3, <3>1, <3>2
    <3>4. QED
      BY <1>1, <1>2, <1>5, <1>7, <3>1, <3>3
  <2>5. QED
    BY <2>3, <2>4
<1>13. /\ Onward # << >> /\ DOMAIN Onward = DOMAIN stack
       /\ \A i \in DOMAIN stack : i # n => Onward[i] = stack[i]
       /\ Onward[n].next = Top.next + 1
  BY <1>1, <1>2, <1>5, <1>7
<1>14. Onward \in Seq([cell : Cells(board), next : 1 .. 10])
  BY <1>7 DEF F
<1>15. Candidate \in Cells(board) =>
         /\ Candidate \in Neighbours(board, Top.cell)
         /\ Candidate \in Hidden(board) => Candidate \in Cascade(board, stack[1].cell)
  BY <1>11, Zenon
<1>16. \A d \in Uncovered, e \in Hidden(flooded) :
         NumberOfMines(board, d) = 0 /\ e \in Neighbours(board, d) /\ e # Candidate =>
             \E i \in DOMAIN Onward : \E k \in Onward[i].next .. 9 :
               Onward[i].cell = d /\ Neighbour(d, k) = e
  BY <1>12, Zenon
<1>17. QED
  BY <1>3, <1>7, <1>8, <1>9, <1>10, <1>13, <1>14, <1>15, <1>16, Zenon

\* The innermost loop looks at a neighbour.
LEMMA VisitKeeps ==
  ASSUME SearchInv, Visit
  PROVE  /\ SearchInv' /\ board' = board
         /\ \/ \E c \in Hidden(flooded) : Hidden(flooded') = Hidden(flooded) \ {c}
            \/ /\ flooded' = flooded
               /\ Len(stack') = Len(stack)
               /\ stack'[Len(stack')].next = Top.next + 1
<1>1. stack # << >> /\ Top.next <= 9 /\ board' = board
  BY DEF Visit, vars
<1>2. /\ IsFree(flooded, Candidate) => Call(Candidate, Onward)
      /\ ~IsFree(flooded, Candidate) =>
           stack' = Onward /\ flooded' = flooded /\ updatedCells' = updatedCells
  BY DEF Visit
<1>3. /\ Calls /\ Sound(board) /\ IsBoard(board)
      /\ SameMines(board, flooded)
      /\ Uncovered \subseteq Hidden(board)
      /\ flooded = [board EXCEPT !.revealed = @ \cup Uncovered]
      /\ Hidden(flooded) = Hidden(board) \ Uncovered
      /\ Cells(flooded) = Cells(board)
      /\ 1 \in DOMAIN stack
  BY <1>1, UnderWay DEF SearchInv
<1>4. /\ Onward \in Seq([cell : Cells(board), next : 1 .. 10]) /\ Onward # << >>
      /\ Len(Onward) = Len(stack) /\ DOMAIN Onward = DOMAIN stack
      /\ \A i \in DOMAIN stack : Onward[i].cell = stack[i].cell
      /\ Onward[Len(stack)].next = Top.next + 1
      /\ \A i \in DOMAIN Onward :
           /\ Onward[i].cell \in Uncovered
           /\ Onward[i].next # 10 => NumberOfMines(board, Onward[i].cell) = 0
      /\ Candidate \in Hidden(board) => Candidate \in Cascade(board, stack[1].cell)
      /\ \A c \in Uncovered, e \in Hidden(flooded) :
           NumberOfMines(board, c) = 0 /\ e \in Neighbours(board, c) /\ e # Candidate =>
             \E i \in DOMAIN Onward : \E k \in Onward[i].next .. 9 :
               Onward[i].cell = c /\ Neighbour(c, k) = e
  <2>1. Candidate \in Hidden(board) => Candidate \in Cells(board)
    BY DEF Hidden
  <2>2. /\ Onward \in Seq([cell : Cells(board), next : 1 .. 10]) /\ Onward # << >>
        /\ Len(Onward) = Len(stack) /\ DOMAIN Onward = DOMAIN stack
        /\ \A i \in DOMAIN stack : Onward[i].cell = stack[i].cell
        /\ Onward[Len(stack)].next = Top.next + 1
    BY <1>1, LoopAdvances
  <2>3. \A i \in DOMAIN stack :
          /\ Onward[i].cell \in Uncovered
          /\ Onward[i].next # 10 => NumberOfMines(board, Onward[i].cell) = 0
    BY <1>1, LoopAdvances
  <2>4. Candidate \in Hidden(board) => Candidate \in Cascade(board, stack[1].cell)
    BY <1>1, <2>1, LoopAdvances
  <2>5. \A c \in Uncovered, e \in Hidden(flooded) :
          NumberOfMines(board, c) = 0 /\ e \in Neighbours(board, c) /\ e # Candidate =>
            \E i \in DOMAIN Onward : \E k \in Onward[i].next .. 9 :
              Onward[i].cell = c /\ Neighbour(c, k) = e
    BY <1>1, LoopAdvances
  <2>6. QED
    BY <2>2, <2>3, <2>4, <2>5
<1>5. CASE IsFree(flooded, Candidate)
  <2>1. Call(Candidate, Onward)
    BY <1>2, <1>5
  <2>2. Candidate \in Hidden(flooded) /\ Candidate \in Hidden(board) /\ Candidate \notin Uncovered
    BY <1>3, <1>5 DEF IsFree, Hidden, Marked
  <2>3. Uncovered \cup {Candidate} \subseteq Cascade(board, stack[1].cell)
    BY <1>3, <1>4, <2>2 DEF Calls
  <2>4. stack[1].cell = IF Onward = << >> THEN Candidate ELSE Onward[1].cell
    BY <1>3, <1>4
  <2>5. \A c \in Uncovered, e \in Hidden(board) \ (Uncovered \cup {Candidate}) :
          NumberOfMines(board, c) = 0 /\ e \in Neighbours(board, c) =>
            \E i \in DOMAIN Onward : \E k \in Onward[i].next .. 9 :
              Onward[i].cell = c /\ Neighbour(c, k) = e
    BY <1>3, <1>4
  <2>6. updatedCells \in Seq(Cells(board)) /\ IsInjective(updatedCells)
    BY <1>1, <1>3 DEF Calls, SearchInv, ListIsFlood
  <2>7. /\ stack[1].cell \in Positions \cap (Hidden(board) \ board.mine)
        /\ mover' \in PlayerIds
    BY <1>3 DEF Calls, Visit
  <2>8. MayCall(Candidate, Onward, stack[1].cell)
    BY <1>3, <1>4, <2>2, <2>3, <2>4, <2>5, <2>6, <2>7 DEF MayCall
  <2>9. SearchInv' /\ Hidden(flooded') = Hidden(flooded) \ {Candidate}
    BY <1>1, <1>3, <2>1, <2>7, <2>8, CallKeeps
  <2>10. QED
    BY <1>1, <2>2, <2>9
<1>6. CASE ~IsFree(flooded, Candidate)
  <2>1. stack' = Onward /\ flooded' = flooded /\ updatedCells' = updatedCells
    BY <1>2, <1>6
  <2>2. Uncovered' = Uncovered
    BY <2>1 DEF Uncovered
  <2>3. \A e \in Hidden(flooded) : e # Candidate
    BY <1>6 DEF IsFree, Hidden, Marked
  <2>4. Calls'
    BY <1>1, <1>3, <1>4, <2>1, <2>2 DEF Calls, Visit
  <2>5. ListIsFlood'
    BY <1>1, <1>4, <2>1 DEF SearchInv, ListIsFlood
  <2>6. NothingForgotten'
    <3> SUFFICES ASSUME NEW c \in Uncovered, NEW e \in Hidden(flooded),
                        NumberOfMines(flooded, c) = 0, e \in Neighbours(flooded, c)
                 PROVE  \E i \in DOMAIN Onward : \E k \in Onward[i].next .. 9 :
                          Onward[i].cell = c /\ Neighbour(c, k) = e
      BY <2>1 DEF NothingForgotten, Uncovered
    <3>1. NumberOfMines(board, c) = 0 /\ e \in Neighbours(board, c)
      BY <1>3, SameFloor
    <3>2. QED
      BY <1>4, <2>3, <3>1
  <2>7. QED
    BY <1>1, <1>3, <1>4, <2>1, <2>4, <2>5, <2>6 DEF SearchInv
<1>7. QED
  BY <1>5, <1>6

\* The innermost call returns: its loop had nothing left.
LEMMA ReturnKeeps ==
  ASSUME SearchInv, Return
  PROVE  /\ SearchInv' /\ board' = board /\ flooded' = flooded
         /\ Len(stack') < Len(stack)
<1> DEFINE n == Len(stack)
           F == [cell : Cells(board), next : 1 .. 10]
<1>1. /\ n > 1 /\ Top.next = 10 /\ stack' = SubSeq(stack, 1, n - 1)
      /\ UNCHANGED <<flooded, updatedCells, mover, board>>
  BY DEF Return, vars
<1>2. stack # << >>
  BY <1>1
<1>3. /\ Calls /\ n \in Nat \ {0} /\ DOMAIN stack = 1 .. n /\ Top = stack[n]
  BY <1>2, UnderWay DEF Top
<1>4. stack \in Seq(F)
  BY <1>3 DEF Calls
<1> HIDE DEF F
<1>5. /\ stack' \in Seq(F) /\ Len(stack') = n - 1 /\ DOMAIN stack' = 1 .. n - 1
      /\ \A i \in 1 .. n - 1 : stack'[i] = stack[i]
  BY <1>1, <1>3, <1>4
<1>6. /\ stack' # << >>
      /\ 1 \in 1 .. n - 1
      /\ \A i \in 1 .. n - 1 : i \in 1 .. n
  <2>1. n - 1 \in Nat \ {0}
    BY <1>1, <1>3
  <2>2. stack' # << >>
    BY <1>5, <2>1
  <2> HIDE DEF n
  <2>3. QED
    BY <1>3, <2>1, <2>2
<1>7. Uncovered' = Uncovered
  BY <1>1 DEF Uncovered
<1>8. Calls'
  BY <1>1, <1>3, <1>5, <1>6, <1>7 DEF Calls, F
<1>9. ListIsFlood'
  BY <1>1, <1>2, <1>6 DEF SearchInv, ListIsFlood
<1>10. NothingForgotten'
  <2> SUFFICES ASSUME NEW c \in Uncovered, NEW e \in Hidden(flooded),
                      NumberOfMines(flooded, c) = 0, e \in Neighbours(flooded, c)
               PROVE  \E i \in DOMAIN stack' : \E k \in stack'[i].next .. 9 :
                        stack'[i].cell = c /\ Neighbour(c, k) = e
    BY <1>1 DEF NothingForgotten, Uncovered
  <2>1. PICK i \in DOMAIN stack : \E k \in stack[i].next .. 9 :
               stack[i].cell = c /\ Neighbour(c, k) = e
    BY DEF SearchInv, NothingForgotten, Uncovered
  <2>2. i # n
    BY <1>1, <1>3, <2>1
  <2>3. i \in 1 .. n - 1
    BY <1>3, <2>2
  <2>4. QED
    BY <1>5, <2>1, <2>3
<1>11. QED
  BY <1>1, <1>3, <1>5, <1>6, <1>8, <1>9, <1>10 DEF SearchInv

\* A flood that is through has uncovered exactly Cascade, each cell once.
LEMMA FloodIsCascade ==
  ASSUME SearchInv, Len(stack) = 1, Top.next = 10
  PROVE  /\ Uncovered = Cascade(board, Top.cell)
         /\ Top.cell \in Hidden(board) \ board.mine
         /\ Top.cell \in Positions /\ mover \in PlayerIds
         /\ DOMAIN updatedCells = 1 .. Len(updatedCells) /\ Len(updatedCells) \in Nat
         /\ Cardinality(1 .. Len(updatedCells)) = Len(updatedCells)
         /\ Cardinality(Uncovered) = Len(updatedCells)
<1>1. stack # << >>
  OBVIOUS
<1>2. /\ Calls /\ IsBoard(board) /\ Top = stack[1]
      /\ Uncovered \subseteq Hidden(board)
      /\ Hidden(flooded) = Hidden(board) \ Uncovered
      /\ DOMAIN stack = {1}
      /\ \A c : Neighbours(flooded, c) = Neighbours(board, c)
      /\ \A c : NumberOfMines(flooded, c) = NumberOfMines(board, c)
  BY <1>1, UnderWay DEF Top
<1>3. SpreadClosed(board, Uncovered)
  <2> SUFFICES ASSUME NEW d \in Uncovered, NumberOfMines(board, d) = 0,
                      NEW e \in Neighbours(board, d) \cap Hidden(board), e \notin Uncovered
               PROVE  FALSE
    BY DEF SpreadClosed
  <2>1. e \in Hidden(flooded) /\ NumberOfMines(flooded, d) = 0 /\ e \in Neighbours(flooded, d)
    BY <1>2
  <2>2. PICK i \in DOMAIN stack : \E k \in stack[i].next .. 9 :
               stack[i].cell = d /\ Neighbour(d, k) = e
    BY <2>1 DEF SearchInv, NothingForgotten, Uncovered
  <2>3. stack[i].next = 10
    BY <1>2, <2>2
  <2>4. QED
    BY <2>2, <2>3
<1>4. Top.cell \in Uncovered
  BY <1>2 DEF Calls
<1>5. Uncovered = Cascade(board, Top.cell)
  BY <1>2, <1>3, <1>4 DEF Calls, Cascade
<1> DEFINE m == Len(updatedCells)
<1>6. m \in Nat /\ DOMAIN updatedCells = 1 .. m
  BY <1>2 DEF Calls
<1>7. Cardinality(1 .. m) = m
  <2> HIDE DEF m
  <2>1. 1 \in Int /\ m \in Int
    BY <1>6
  <2>2. Cardinality(1 .. m) = IF 1 > m THEN 0 ELSE m - 1 + 1
    BY <2>1, FS_Interval, Zenon
  <2>3. QED
    BY <1>6, <2>2
<1>8. Cardinality(Uncovered) = m
  <2>1. IsInjective(updatedCells)
    BY <1>1 DEF SearchInv, ListIsFlood
  <2>2. updatedCells \in [1 .. m -> Uncovered]
    BY <1>2, <1>6 DEF Calls, Uncovered, Range
  <2>3. \A d \in Uncovered : \E i \in 1 .. m : updatedCells[i] = d
    BY <1>6 DEF Uncovered, Range
  <2>4. updatedCells \in Bijection(1 .. m, Uncovered)
    BY <1>6, <2>1, <2>2, <2>3 DEF Bijection, Injection, Surjection, IsInjective
  <2>5. ExistsBijection(1 .. m, Uncovered)
    BY <2>4 DEF ExistsBijection
  <2>6. QED
    BY <1>6, <2>5, FS_CountingElements
<1>9. QED
  BY <1>2, <1>5, <1>6, <1>7, <1>8 DEF Calls

\* A move that is through leaves what Game's move in one step leaves.
LEMMA FinishMoves ==
  ASSUME SearchInv, Finish
  PROVE  LET r == MakeMove(board, "Reveal", Top.cell) IN
         /\ flooded' = r.board /\ board' = r.board
         /\ reply' = [result |-> r.result, updated |-> r.updated]
         /\ OnMove(r.board, mover, r.updated)
         /\ UNCHANGED mode
         /\ Top.cell \in Positions /\ mover \in PlayerIds
         /\ Sound(flooded')
<1> DEFINE S == Uncovered
           m == Len(updatedCells)
           after == [flooded EXCEPT !.revealedCells = @ + m]
           r == MakeMove(board, "Reveal", Top.cell)
<1>1. /\ Len(stack) = 1 /\ Top.next = 10 /\ stack # << >>
      /\ flooded' = after /\ board' = after /\ mode' = mode
      /\ reply' = [result  |-> IF Won(after) THEN "GameWon" ELSE "CellRevealed",
                   updated |-> S]
      /\ Pay(after, mover, updatedCells)
  BY DEF Finish, Uncovered
<1>2. /\ S = Cascade(board, Top.cell)
      /\ Top.cell \in Hidden(board) \ board.mine
      /\ Top.cell \in Positions /\ mover \in PlayerIds
      /\ DOMAIN updatedCells = 1 .. m /\ m \in Nat
      /\ Cardinality(1 .. m) = m
      /\ Cardinality(S) = m
  BY <1>1, FloodIsCascade
<1>3. /\ Sound(board) /\ IsBoard(board)
      /\ flooded = [board EXCEPT !.revealed = @ \cup S]
      /\ Range(updatedCells) = S
  BY <1>1, UnderWay DEF SearchInv, Uncovered
<1> HIDE DEF S, m
<1>4. after = [board EXCEPT !.revealed = @ \cup S,
                             !.revealedCells = @ + Cardinality(S)]
  BY <1>2, <1>3 DEF IsBoard
<1>5. r = Uncover(board, Top.cell)
  BY <1>2 DEF MakeMove, MoveTypes, Reveal, Hidden
<1>6. /\ r.board = after
      /\ r.result = IF Won(after) THEN "GameWon" ELSE "CellRevealed"
      /\ r.updated = S
  BY <1>2, <1>4, <1>5 DEF Uncover
<1>7. RevealPost(board, Top.cell, r)
  BY <1>2, <1>3, <1>5, UncoverPost
<1>8. Sound(after) /\ after.revealed = board.revealed \cup S
  BY <1>6, <1>7 DEF RevealPost
<1> HIDE DEF after, r
<1>9. \A i \in DOMAIN updatedCells : updatedCells[i] \in Marked(after)
  BY <1>3, <1>8 DEF Marked, Range
<1>10. /\ {i \in DOMAIN updatedCells : updatedCells[i] \in Marked(after)} = 1 .. m
       /\ {i \in DOMAIN updatedCells : updatedCells[i] \notin Marked(after)} = {}
       /\ S \cap Marked(after) = S
       /\ S \ Marked(after) = {}
  BY <1>2, <1>8, <1>9 DEF Marked
<1>11. OnMove(after, mover, S)
  <2>1. CASE mode = "Coop"
    <3>1. /\ marks' = NewMarks(marks, after, mover, S)
          /\ scores' = [scores EXCEPT ![mover] = @ + Cardinality(1 .. m) - Cardinality({})]
          /\ scores'[mover] \in -MaxScore .. MaxScore
      BY <1>1, <1>3, <1>10, <2>1 DEF Pay
    <3>2. scores' = NewScores(scores, after, mover, S)
      BY <1>2, <1>10, <3>1 DEF NewScores
    <3>3. QED
      BY <2>1, <3>1, <3>2 DEF OnMove
  <2>2. CASE mode # "Coop"
    BY <1>1, <2>2 DEF Pay, OnMove
  <2>3. QED
    BY <2>1, <2>2
<1>12. QED
  BY <1>1, <1>2, <1>6, <1>8, <1>11 DEF r

LEMMA FinishKeeps ==
  ASSUME SearchInv, Finish
  PROVE  SearchInv'
<1>1. /\ stack' = << >> /\ updatedCells' = << >> /\ mover' = 0
      /\ board' = flooded'
  BY DEF Finish
<1>2. Sound(board')
  BY <1>1, FinishMoves
<1>3. Range(updatedCells') = {}
  BY <1>1 DEF Range
<1>4. QED
  BY <1>1, <1>2, <1>3 DEF SearchInv, ListIsFlood, NothingForgotten, Idle

\* A move leaves the board right, whatever it is.
LEMMA MoveSound ==
  ASSUME NEW b, Sound(b), NEW type, NEW c
  PROVE  Sound(MakeMove(b, type, c).board)
<1>1. CASE type \notin MoveTypes \/ c \notin Cells(b)
  BY <1>1 DEF MakeMove, Unchanged
<1>2. CASE type \in MoveTypes /\ c \in Cells(b)
  <2>1. MakeMove(b, type, c) = IF type = "Reveal" THEN Reveal(b, c) ELSE Flag(b, c)
    BY <1>2 DEF MakeMove
  <2>2. Sound(Reveal(b, c).board) /\ Sound(Flag(b, c).board)
    BY <1>2, RevealEffect, FlagEffect DEF RevealPost
  <2>3. QED
    BY <2>1, <2>2
<1>3. QED
  BY <1>1, <1>2

LEMMA OtherKeeps ==
  ASSUME SearchInv, OtherMove
  PROVE  SearchInv'
<1>1. /\ Idle /\ UNCHANGED <<stack, updatedCells, mover>> /\ flooded' = board'
  BY DEF OtherMove
<1>2. PICK type, c : board' = MakeMove(board, type, c).board
  BY DEF OtherMove, Move
<1>3. Sound(board')
  BY <1>1, <1>2, MoveSound DEF SearchInv
<1>4. Idle' /\ Range(updatedCells') = {}
  BY <1>1 DEF Idle, Range
<1>5. QED
  BY <1>1, <1>3, <1>4 DEF SearchInv, ListIsFlood, NothingForgotten, Idle

THEOREM SearchInvariance == SearchSpec => []SearchInv
<1>1. SearchInit => SearchInv
  <2> SUFFICES ASSUME SearchInit PROVE SearchInv
    OBVIOUS
  <2>1. Init /\ Idle /\ board = flooded
    BY DEF SearchInit
  <2>2. Sound(board)
    BY <2>1, InitIInv, IInvSound
  <2>3. Range(updatedCells) = {}
    BY <2>1 DEF Idle, Range
  <2>4. QED
    BY <2>1, <2>2, <2>3 DEF SearchInv, ListIsFlood, NothingForgotten, Idle
<1>2. SearchInv /\ [SearchNext]_searchVars => SearchInv'
  <2> SUFFICES ASSUME SearchInv, [SearchNext]_searchVars PROVE SearchInv'
    OBVIOUS
  <2>1. CASE UNCHANGED searchVars
    BY <2>1 DEF searchVars, vars, floodVars, SearchInv, ListIsFlood, NothingForgotten,
                Calls, Uncovered, Idle
  <2>2. QED
    BY <2>1, BeginKeeps, VisitKeeps, ReturnKeeps, FinishKeeps, OtherKeeps DEF SearchNext
<1>3. QED
  BY <1>1, <1>2, PTL DEF SearchSpec

\* The list of a flood is what it uncovered, and names no cell twice; a hidden
\* neighbour that it has to uncover is still to come in a loop.
THEOREM TrackCorrect == SearchSpec => []FloodOnTrack
<1>1. SearchInv => FloodOnTrack
  BY DEF SearchInv, FloodOnTrack
<1>2. QED
  BY <1>1, SearchInvariance, PTL

\* The recursion comes to its end, on boards of any size.
THEOREM DescendsCorrect == SearchSpec => FloodDescends
<1>1. ASSUME SearchInv, [SearchNext]_searchVars, stack # << >>, stack' # << >>,
             ~UNCHANGED searchVars
      PROVE  \/ Cardinality(Hidden(flooded')) < Cardinality(Hidden(flooded))
             \/ /\ Hidden(flooded') = Hidden(flooded)
                /\ \/ Len(stack') < Len(stack)
                   \/ /\ Len(stack') = Len(stack)
                      /\ stack'[Len(stack')].next > Top.next
  <2>1. IsFiniteSet(Hidden(flooded))
    BY <1>1, UnderWay, CellsFinite, FS_Subset DEF Hidden
  <2>2. CASE Visit
    <3>1. CASE \E c \in Hidden(flooded) : Hidden(flooded') = Hidden(flooded) \ {c}
      <4>1. PICK c \in Hidden(flooded) : Hidden(flooded') = Hidden(flooded) \ {c}
        BY <3>1
      <4>2. Cardinality(Hidden(flooded) \ {c}) = Cardinality(Hidden(flooded)) - 1
        BY <2>1, FS_RemoveElement
      <4>3. Cardinality(Hidden(flooded)) \in Nat
        BY <2>1, FS_CardinalityType
      <4>4. QED
        BY <4>1, <4>2, <4>3
    <3>2. CASE /\ flooded' = flooded
               /\ Len(stack') = Len(stack)
               /\ stack'[Len(stack)].next = Top.next + 1
      <4>1. Top.next \in 1 .. 9
        BY <1>1, <2>2, LoopAdvances DEF Visit
      <4>2. QED
        BY <3>2, <4>1
    <3>3. QED
      BY <1>1, <2>2, <3>1, <3>2, VisitKeeps
  <2>3. CASE Return
    BY <1>1, <2>3, ReturnKeeps
  <2>4. ~Begin /\ ~Finish /\ ~OtherMove
    BY <1>1 DEF Begin, OtherMove, Idle, Finish
  <2>5. QED
    BY <1>1, <2>2, <2>3, <2>4 DEF SearchNext
<1>2. SearchInv /\ [SearchNext]_searchVars =>
        [stack # << >> /\ stack' # << >> =>
           \/ Cardinality(Hidden(flooded')) < Cardinality(Hidden(flooded))
           \/ /\ Hidden(flooded') = Hidden(flooded)
              /\ \/ Len(stack') < Len(stack)
                 \/ /\ Len(stack') = Len(stack)
                    /\ stack'[Len(stack')].next > Top.next]_searchVars
  BY <1>1
<1>3. QED
  BY <1>2, SearchInvariance, PTL DEF SearchSpec, FloodDescends

(***************************************************************************)
(* The refinement: what Game says of a move holds of the recursion.        *)
(***************************************************************************)
\* A step that moves the board of the last move by MakeMove is a move of Game.
LEMMA MovesStep ==
  ASSUME NEW pid \in PlayerIds, NEW type \in {"Reveal", "Flag", "UNKNOWN"},
         NEW c \in Positions,
         board' = MakeMove(board, type, c).board,
         reply' = [result  |-> MakeMove(board, type, c).result,
                   updated |-> MakeMove(board, type, c).updated],
         OnMove(MakeMove(board, type, c).board, pid, MakeMove(board, type, c).updated),
         mode' = mode
  PROVE  Next
<1>1. Move(pid, type, c)
  BY DEF Move
<1>2. QED
  BY <1>1 DEF Next, RevealMove, FlagMove, UnknownMove

\* The recursion of the code implements the game whose flood is one step.
THEOREM SearchCorrect == SearchSpec => ImplementsGame
<1>1. SearchInit => Init
  BY DEF SearchInit
<1>2. SearchInv /\ [SearchNext]_searchVars => [Next]_vars
  <2> SUFFICES ASSUME SearchInv, [SearchNext]_searchVars PROVE [Next]_vars
    OBVIOUS
  <2>1. CASE Finish
    BY <2>1, FinishMoves, MovesStep
  <2>2. CASE OtherMove
      <3>1. \E pid \in PlayerIds, type \in {"Reveal", "Flag", "UNKNOWN"}, c \in Positions :
          Move(pid, type, c)
      BY <2>2 DEF OtherMove
    <3>2. QED
      BY <3>1 DEF Next, RevealMove, FlagMove, UnknownMove
  <2>3. CASE Begin \/ Visit \/ Return \/ UNCHANGED searchVars
    BY <2>3 DEF Begin, Visit, Return, searchVars, vars
  <2>4. QED
    BY <2>1, <2>2, <2>3 DEF SearchNext
<1>3. QED
  BY <1>1, <1>2, SearchInvariance, PTL DEF SearchSpec, ImplementsGame, Spec
=============================================================================
