------------------------------ MODULE MCReplay ------------------------------
(***************************************************************************)
(* Replay of three recordings of the game of MCGame: one that replays to   *)
(* its end, one whose second move the engine refuses, and one that was     *)
(* recorded with other players than a reset gives it.                      *)
(***************************************************************************)
EXTENDS Replay, MCGame

Recorded(moves, start, restart) ==
  [moves |-> moves, start |-> start, restart |-> restart,
   states |-> [i \in 1..(Len(moves) + 1) |->
                 [MCInitialState(start) EXCEPT !.moves = SubSeq(moves, 1, i - 1)]]]

MCRecordings ==
  {Recorded(<<"b", "a">>, "seed1", "seed1"),
   Recorded(<<"a", "b">>, "seed1", "seed1"),
   Recorded(<<"b">>, "seed1", "seed2")}

OneRecording == {Recorded(<<"b", "a">>, "seed1", "seed1")}

MCReplayHistories == MoveLists
MCReplayStamps == {[epoch |-> 1, token |-> 1]}

=============================================================================
