--------------------------- MODULE MCMatchmaking ---------------------------
EXTENDS Matchmaking
=============================================================================
