------------------------------- MODULE MCGame -------------------------------
(***************************************************************************)
(* Small instances of Game and of the recursion in CascadeSearch.          *)
(***************************************************************************)
EXTENDS CascadeSearch

P(w, h, m, gm) == [width |-> w, height |-> h, mines |-> m, mode |-> gm]

\* Two players share boards on which flood fills, flags in their way, and
\* boards of nothing but mines occur.  The parameters CreateGame refuses start
\* no game.
CoopParams ==
  {P(2, 2, 1, "Coop"), P(3, 1, 1, "Coop"), P(2, 1, 2, "Coop"), P(0, 1, 0, "Coop"),
   P(1, 1, 2, "Coop"), P(1, 1, 0, "Solo")}

\* Boards on which floods have a rim or go far, and one without a mine, where a
\* flood winds around flags and revealed cells and meets itself again.
ClassicParams == {P(3, 1, 1, "Classic"), P(3, 1, 0, "Classic"), P(2, 2, 0, "Classic"),
                  P(1, 1, 0, "Classic")}

AllParams == CoopParams \cup ClassicParams
=============================================================================
