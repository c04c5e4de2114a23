------------------------------- MODULE MCGame -------------------------------
(***************************************************************************)
(* A small game for the engine constants of GameRules.  A turn is one move *)
(* made of two decisions, picking the move and confirming it.  Move "a"    *)
(* ends the game, and so does the move number MaxTurns.  A human picks the *)
(* first move and an agent decides everything after that.  A replayed move *)
(* is applied at once and, as in the engine, leaves nextTurnId alone.      *)
(***************************************************************************)
EXTENDS GameRules

CONSTANT MaxTurns

MCSeed == {"seed1", "seed2"}
OneSeed == {"seed1"}
MCMove == {"a", "b"}
MCDecision == {"a", "b", "confirm"}

MoveLists == UNION {[1..n -> MCMove] : n \in 0..MaxTurns}

StatesOf(seeds) ==
  {s \in [seed : seeds, moves : MoveLists, pick : MCMove \cup {Null},
          turnId : 0..MaxTurns] : s.turnId <= Len(s.moves)}

MCGameState == StatesOf(MCSeed)
OneSeedGameState == StatesOf(OneSeed)

MCInitialState(g) == [seed |-> g, moves |-> <<>>, pick |-> Null, turnId |-> 0]

MCTerminalResult(s) ==
  Len(s.moves) = MaxTurns \/ \E i \in 1..Len(s.moves) : s.moves[i] = "a"

MCDecisionStackEmpty(s) == s.pick = Null
MCNextTurnId(s) == s.turnId

MCLegalActions(s) ==
  IF MCTerminalResult(s) THEN {}
  ELSE IF MCDecisionStackEmpty(s) THEN MCMove ELSE {"confirm"}

MCApplyDecision(s, d) ==
  IF d = "confirm"
  THEN [s EXCEPT !.moves = Append(@, s.pick), !.pick = Null, !.turnId = @ + 1]
  ELSE [s EXCEPT !.pick = d]

MCLegalMoves(s) ==
  IF MCTerminalResult(s) \/ ~MCDecisionStackEmpty(s) THEN {} ELSE MCMove
MCApplyMove(s, m) == [s EXCEPT !.moves = Append(@, m)]

MCAutoresolve(s) == s
MCAgentToMove(s) == s.moves # <<>> \/ ~MCDecisionStackEmpty(s)

=============================================================================
