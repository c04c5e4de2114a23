----------------------------- MODULE AtomicGame -----------------------------
(***************************************************************************)
(* What the store and the worker promise together: one game, played in     *)
(* atomic steps, and a screen that, whenever it is redrawn, shows the game *)
(* as it is at that moment, all of its parts read from the same state.     *)
(***************************************************************************)
EXTENDS GameRules

VARIABLES
  game,   \* the game being played, or Null
  past,   \* the states it went through
  view    \* what is on screen

atomicVars == <<game, past, view>>

NothingShown ==
  [state |-> Null, microturn |-> Null, terminal |-> FALSE, described |-> Null]

\* Every part of the screen, read from s.
Snapshot(s) ==
  [state     |-> s,
   terminal  |-> TerminalResult(s),
   microturn |-> IF TerminalResult(s) THEN Null ELSE s,
   described |-> IF TerminalResult(s) THEN Null
                 ELSE IF DecisionStackEmpty(s) THEN s ELSE Null]

Start ==
  /\ \E seed \in Seed : game' = InitialState(seed)
  /\ past' = <<>>
  /\ UNCHANGED view

\* One input to the engine: a decision or a replayed move.
Play ==
  /\ game # Null
  /\ Successor(game, game')
  /\ past' = Append(past, game)
  /\ UNCHANGED view

\* Back to an earlier state, the last one or the start of a turn.
Return ==
  /\ \E i \in 1..Len(past) :
       /\ game' = past[i]
       /\ past' = SubSeq(past, 1, i - 1)
  /\ UNCHANGED view

Show ==
  /\ game # Null
  /\ view' = Snapshot(game)
  /\ UNCHANGED <<game, past>>

\* The session is torn down after a failure.
Blank ==
  /\ view' = NothingShown
  /\ UNCHANGED <<game, past>>

AtomicInit ==
  /\ game = Null
  /\ past = <<>>
  /\ view = NothingShown

AtomicNext == Start \/ Play \/ Return \/ Show \/ Blank

AtomicSpec == AtomicInit /\ [][AtomicNext]_atomicVars

=============================================================================
