---------------------------- MODULE MCMicroturn -----------------------------
(***************************************************************************)
(* Microturn with two seats, an action and a pass, moves of at most two    *)
(* choices of two values.                                                  *)
(***************************************************************************)
EXTENDS Microturn, TLC

CONSTANTS S, T, march, pass, k1, k2, v, w

MCSeats == {S, T}
MCActions == {march, pass}
MCPasses == {pass}
MCKeys == {k1, k2}
MCValues == {v, w}
MCRanges == {<<0, 1>>, <<1, 2>>}

\* The seats, the keys and the values are each alike
MCSymmetry ==
  Permutations(MCSeats) \cup Permutations(MCKeys) \cup Permutations(MCValues)
=============================================================================
