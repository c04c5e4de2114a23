---------------------------- MODULE MCAiPlayback ----------------------------
(***************************************************************************)
(* AiPlayback for TLC: a queue of two, three retries and three moves.      *)
(***************************************************************************)
EXTENDS AiPlayback
=============================================================================
