--------------------------- MODULE MCGameSession ---------------------------
(***************************************************************************)
(* GameSession with up to MaxCalls store actions on the game of MCGame.    *)
(***************************************************************************)
EXTENDS GameSession, MCGame

MCSessionHistories == {<<>>, <<"b", "a">>}
MCSessionStamps == [epoch : 0..MaxCalls, token : 0..MaxCalls]

=============================================================================
