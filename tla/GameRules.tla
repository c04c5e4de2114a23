----------------------------- MODULE GameRules -----------------------------
(***************************************************************************)
(* The game engine as the runner sees it: a deterministic state machine    *)
(* that publishes, in every state, the decisions that may be submitted     *)
(* next.  The runner never looks inside a game state, so neither do the    *)
(* modules that extend this one; what a state holds is left to the model   *)
(* that instantiates the constants.                                        *)
(***************************************************************************)
EXTENDS Integers, Sequences

CONSTANTS
  GameState,             \* the states of the engine
  Seed,                  \* seeds a game can be started from
  Decision,              \* what applyDecision takes: one microturn decision
  Move,                  \* what applyReplayMove takes: a whole turn
  Null,                  \* JavaScript's null
  InitialState(_),       \* initialState(def, seed)
  LegalActions(_),       \* publishMicroturn(def, s).legalActions; {} where it throws
  ApplyDecision(_, _),   \* applyDecision(def, s, d).state
  Autoresolve(_),        \* advanceAutoresolvable(def, s).state, s if a player decides
  LegalMoves(_),         \* the moves engineApplyMove accepts in s
  ApplyMove(_, _),       \* applyMove(def, s, m).state
  TerminalResult(_),     \* terminalResult(def, s) !== null
  NextTurnId(_),         \* s.nextTurnId
  DecisionStackEmpty(_), \* (s.decisionStack?.length ?? 0) === 0
  AgentToMove(_)         \* the seat of s.activePlayer is agent-controlled

ASSUME GameAssumption ==
  /\ Null \notin GameState
  /\ \A g \in Seed : InitialState(g) \in GameState
  /\ \A s \in GameState :
       /\ LegalActions(s) \subseteq Decision
       /\ LegalMoves(s) \subseteq Move
       /\ TerminalResult(s) \in BOOLEAN
       /\ DecisionStackEmpty(s) \in BOOLEAN
       /\ AgentToMove(s) \in BOOLEAN
       /\ Autoresolve(s) \in GameState
       /\ \A d \in LegalActions(s) : ApplyDecision(s, d) \in GameState
       /\ \A m \in LegalMoves(s) : ApplyMove(s, m) \in GameState

\* t can follow s in one engine call.
Successor(s, t) ==
  \/ t = Autoresolve(s)
  \/ \E d \in LegalActions(s) : t = ApplyDecision(s, d)
  \/ \E m \in LegalMoves(s) : t = ApplyMove(s, m)

=============================================================================
