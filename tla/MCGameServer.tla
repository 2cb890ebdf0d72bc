---------------------------- MODULE MCGameServer ----------------------------
(***************************************************************************)
(* Small instances of GameServer.                                          *)
(***************************************************************************)
EXTENDS GameServer

P(w, h, m, gm) == [width |-> w, height |-> h, mines |-> m, mode |-> gm]

\* Either one game of two cells, one of them a mine, which two moves reveal;
\* or one smallest game after the other.
TwoCells == {P(2, 1, 1, "Coop"), P(1, 1, 0, "Coop")}

\* A game whose safe cells are revealed one at a time, a smaller one that
\* replaces it, in which moves made for the first are out of range, and
\* parameters that are refused while either runs.
TwoSizes == {P(3, 1, 1, "Coop"), P(1, 1, 0, "Classic"), P(1, 1, 2, "Coop")}

\* Parameters CreateGame accepts, on the smallest board, and parameters it refuses.
GoodAndBad == {P(1, 1, 0, "Coop"), P(1, 1, 2, "Coop")}

\* The smallest board there is.
OneCell == {P(1, 1, 0, "Coop")}
=============================================================================
