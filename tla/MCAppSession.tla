---------------------------- MODULE MCAppSession ----------------------------
(* AppSession.tla for TLC: one kind of move, so a history is its length.    *)
EXTENDS AppSession

MCMoves == {"move"}
=============================================================================
