---------------------------- MODULE MCGameWorker ----------------------------
(***************************************************************************)
(* GameWorker with clients that use three tokens in each of two epochs and *)
(* replay move lists of which one fails at its second move.                *)
(***************************************************************************)
EXTENDS GameWorker, MCGame

MCHistories == {<<"a", "b">>, <<"b", "a">>, <<>>}
MCStamps == [epoch : 1..2, token : 1..3]

=============================================================================
