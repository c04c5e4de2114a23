----------------------------- MODULE Microturn ------------------------------
(***************************************************************************)
(* The engine's decisions one at a time (kernel/microturn) under the loop  *)
(* that plays a game (sim/run-game-steps.ts).                              *)
(*                                                                         *)
(* A turn is an action and the choices its rules ask for.  The choices are *)
(* taken one by one, by whoever the rules name or by chance, and only when *)
(* none is left is the whole move applied to the game.  Until then the     *)
(* state carries a stack: the frame of the action, and above it the frame  *)
(* of the choice that is due.  A choice that leads nowhere is a hole in    *)
(* the probe that published it.  Then the turn is rolled back to its       *)
(* action, that action is barred for the rest of the turn, and whoever is  *)
(* left with nothing gets a pass.                                          *)
(*                                                                         *)
(* An iteration of the loop is one action: it publishes what may be        *)
(* decided, lets the agent pick and applies the pick, or recovers, or      *)
(* stops.  What the game's rules make of a move, what they ask for and     *)
(* what they support is any of the possibilities.  An agent or the engine  *)
(* may throw, which nothing catches: the behaviour ends there.             *)
(***************************************************************************)
EXTENDS Integers, FiniteSets

CONSTANTS
  Seats, Actions, Keys, Values,
  Passes,      \* the actions tagged "pass"
  Ranges,      \* the <<min, max>> a choice of several values may ask for
  Null,
  MaxTurns     \* bound: the simulator's limit counts turns of the game

ASSUME MicroturnAssumption ==
  /\ Seats # {}
  /\ IsFiniteSet(Actions)
  /\ Passes \subseteq Actions
  /\ Ranges \subseteq Nat \X Nat
  /\ MaxTurns \in Nat

Chance == "__chance"
Kinds == {"chooseOne", "chooseNStep", "stochasticResolve"}

\* Mutant of DecidersOf: after chance, chance is asked again.
DecidersWithChance(kind) == Seats \cup {Chance}

\* pendingSeatId: the seat the rules name, else the one that decided before or,
\* after chance, the active one.  Chance decides nothing but what is random.
DecidersOf(kind) == IF kind = "stochasticResolve" THEN {Chance} ELSE Seats

\* Parameters of a move: a key has the value, or the values, chosen for it
Params == UNION {[K -> Values \cup SUBSET Values] : K \in SUBSET Keys}

NoParams == [k \in {} |-> Null]

With(params, key, value) ==
  [k \in DOMAIN params \cup {key} |-> IF k = key THEN value ELSE params[k]]

Without(params, key) == [k \in DOMAIN params \ {key} |-> params[k]]

\* The frame of the action.  Its move is rebuilt of the action and of
\* continuationBindings, here "bindings".
RootFrame == [id : Nat, turn : Nat, seat : Seats, eligible : SUBSET Actions,
              action : Actions, bindings : Params]

\* The frame of the choice that is due
ChoiceFrame ==
  [id : Nat, parent : Nat, turn : Nat, kind : {"chooseOne", "chooseNStep"},
   seat : Seats, key : Keys, selected : SUBSET Values, min : Nat, max : Nat]
  \cup
  [id : Nat, parent : Nat, turn : Nat, kind : {"stochasticResolve"},
   seat : {Chance}, key : Keys, selected : {{}}, min : Nat, max : Nat]

\* Null is told from a frame
ASSUME FrameAssumption == Null \notin RootFrame /\ Null \notin ChoiceFrame

VARIABLES
  root, choice,  \* decisionStack: empty, the frame of the action, or both;
                 \* Null for a frame that is not there
  nextFrameId, nextTurnId,
  decider,       \* activeDeciderSeatId
  barred,        \* unavailableActionsPerTurn, as <<turn, seat, action>>
  active,        \* the seat of activePlayer
  owing,         \* the seats with a ready grant they must use
  plain,         \* the passes without parameters of the current phase
  verdict,       \* what the loop's tests find in the game: "play", or why
                 \* it stops
  mode,          \* "run", or why the loop has stopped
  recoveries,    \* recoveredFromProbeHole
  move,          \* the move the last step gave to applyMove, and the seats
                 \* that owed a grant then; Null if it gave none
  said           \* history variable: what was decided since the action

stackVars == <<root, choice, nextFrameId, decider>>
gameVars == <<active, plain, verdict>>
vars == <<stackVars, nextTurnId, barred, gameVars, owing, mode, recoveries,
          move, said>>

Verdicts == {"play", "terminal", "noLegalMoves", "maxTurns"}

MicroturnTypeOK ==
  /\ root \in RootFrame \cup {Null}
  /\ choice \in ChoiceFrame \cup {Null}
  /\ nextFrameId \in Nat /\ nextTurnId \in Nat
  /\ decider \in Seats \cup {Chance}
  /\ barred \subseteq Nat \X Seats \X Actions
  /\ active \in Seats
  /\ owing \subseteq Seats
  /\ plain \subseteq Passes
  /\ verdict \in Verdicts
  /\ mode \in {"run", "terminal", "noLegalMoves", "maxTurns"}
  /\ recoveries \in Nat
  /\ move = Null \/ move \in [seat : Seats, action : Actions, params : Params,
                             owing : SUBSET Seats]
  /\ said \in Params

\* initialState
Init ==
  /\ root = Null /\ choice = Null
  /\ nextFrameId = 0 /\ nextTurnId = 0
  /\ active \in Seats /\ decider = active
  /\ barred = {}
  /\ owing = {}
  /\ plain \in SUBSET Passes
  /\ verdict \in Verdicts
  /\ mode = "run"
  /\ recoveries = 0
  /\ move = Null
  /\ said = NoParams

-----------------------------------------------------------------------------
(* Publication of the actions.                                             *)

\* The turn and the seat that choose an action now
Turn == IF root = Null THEN nextTurnId ELSE root.turn
Chooser == IF root # Null THEN root.seat
           ELSE IF decider = Chance THEN active ELSE decider

\* What the rules may support: a seat that owes a grant uses it, so no pass;
\* a seat that was rolled back keeps the choice it had.
Supported ==
  {all \in SUBSET Actions : active \in owing => all \cap Passes = {}}

OfTheFrame(all) == IF root = Null THEN all ELSE all \cap root.eligible

\* Mutant of NotBarred: the actions are barred under the turn to come.
NotBarredNextTurn(actions) ==
  {a \in actions : <<Turn + 1, Chooser, a>> \notin barred}

\* filterUnavailableActions
NotBarred(actions) == {a \in actions : <<Turn, Chooser, a>> \notin barred}

\* Mutant of Fallbacks: only a pass that is supported
SupportedFallbacks(all) == all \cap Passes

\* findPassFallbackMove: a supported pass, or one without parameters
Fallbacks(all) == IF all \cap Passes # {} THEN all \cap Passes ELSE plain

\* The sets of actions publishActionSelection and publishStackTop may offer
\* when "all" are supported; the fallback is one action, and the only one.
Offers(all) ==
  IF NotBarred(OfTheFrame(all)) # {} THEN {NotBarred(OfTheFrame(all))}
  ELSE {{a} : a \in Fallbacks(all)}

-----------------------------------------------------------------------------
(* Decisions.                                                              *)

Running == mode = "run" /\ verdict = "play"

AtAction == Running /\ choice = Null
AtChoice(kind) == Running /\ choice # Null /\ choice.kind = kind

\* applyChosenMove: the whole move is applied; the game that results is any.
Apply(action, params, indebted) ==
  /\ nextTurnId < MaxTurns
  /\ move' = [seat |-> active, action |-> action, params |-> params,
              owing |-> indebted]
  /\ root' = Null /\ choice' = Null
  /\ nextTurnId' = nextTurnId + 1
  /\ active' \in Seats /\ decider' = active'
  /\ owing' \in SUBSET Seats
  /\ plain' \in SUBSET Passes
  /\ verdict' \in Verdicts
  /\ UNCHANGED <<nextFrameId, barred, mode, recoveries>>

\* The choice the rules ask for next: of the seat they name, or by chance
NextChoice(frame, id) ==
  /\ \E key \in Keys \ DOMAIN frame.bindings, range \in Ranges, k \in Kinds :
       \E s \in DecidersOf(k) :
         choice' = [id |-> id, parent |-> frame.id, turn |-> frame.turn,
                    kind |-> k, seat |-> s, key |-> key, selected |-> {},
                    min |-> range[1], max |-> range[2]]
  /\ root' = frame
  /\ nextFrameId' = id + 1
  /\ decider' = choice'.seat

\* Mutant of SelectAction's frame: it keeps what a rolled back action bound.
FrameWithOldBindings(a, offered) ==
  [id |-> nextFrameId, turn |-> nextTurnId, seat |-> Chooser,
   eligible |-> IF root = Null THEN offered ELSE root.eligible,
   action |-> a, bindings |-> IF root = Null THEN NoParams ELSE root.bindings]

\* Mutant of FrameOf: the frame is of the turn to come.
FrameOfNextTurn(a, offered) ==
  [id |-> nextFrameId, turn |-> nextTurnId + 1, seat |-> Chooser,
   eligible |-> IF root = Null THEN offered ELSE root.eligible,
   action |-> a, bindings |-> NoParams]

\* The frame of the action a, chosen among those offered
FrameOf(a, offered) ==
  [id |-> nextFrameId, turn |-> nextTurnId, seat |-> Chooser,
   eligible |-> IF root = Null THEN offered ELSE root.eligible,
   action |-> a, bindings |-> NoParams]

\* Mutant of Reconciled: the grants of a seat that can only pass stay.
Unreconciled(a, offered) == owing

\* reconcilePassFallbackBlockingGrants: who is left with a pass owes nothing
Reconciled(a, offered) ==
  IF offered = {a} /\ a \in Passes THEN owing \ {Chooser} ELSE owing

\* An action is selected.  It is complete, or its first choice is due.
SelectAction ==
  /\ AtAction
  /\ \E all \in Supported : \E offered \in Offers(all) : \E a \in offered :
       \/ Apply(a, NoParams, Reconciled(a, offered))
       \/ /\ NextChoice(FrameOf(a, offered), nextFrameId + 1)
          /\ owing' = Reconciled(a, offered)
          /\ move' = Null
          /\ UNCHANGED <<nextTurnId, barred, gameVars, mode, recoveries>>
  /\ said' = NoParams

\* continueResolvedMove, spawnPendingFrame: the move with its new parameters
\* is complete, or the frame keeps them and the next choice is due.
GoOn(params) ==
  \/ Apply(root.action, params, owing)
  \/ /\ NextChoice([root EXCEPT !.bindings = params], nextFrameId)
     /\ move' = Null
     /\ UNCHANGED <<nextTurnId, barred, gameVars, owing, mode, recoveries>>

\* A seat chooses one value.
ChooseOne ==
  /\ AtChoice("chooseOne")
  /\ \E v \in Values :
       /\ said' = With(said, choice.key, v)
       /\ GoOn(With(root.bindings, choice.key, v))

\* advanceAutoresolvable: chance decides before anyone is asked.
Resolve ==
  /\ AtChoice("stochasticResolve")
  /\ \E v \in Values :
       /\ said' = With(said, choice.key, v)
       /\ GoOn(With(root.bindings, choice.key, v))

\* What was said of the values to choose, so far
SaidOf(key) == IF key \in DOMAIN said THEN said[key] ELSE {}

\* withAccumulatedBinding: the frame keeps the values selected so far
Selecting(values) ==
  [root EXCEPT !.bindings =
     IF values = {} THEN Without(@, choice.key)
     ELSE With(@, choice.key, values)]

\* A value is selected.  When none can follow and the selection can only be
\* taken back, the choice completes by itself.
AddValue ==
  /\ AtChoice("chooseNStep")
  /\ Cardinality(choice.selected) < choice.max
  /\ \E v \in Values \ choice.selected :
       LET values == choice.selected \cup {v}
       IN /\ said' = With(said, choice.key, SaidOf(choice.key) \cup {v})
          /\ \/ /\ root' = Selecting(values)
                /\ choice' = [choice EXCEPT !.selected = values]
                /\ decider' = choice.seat
                /\ move' = Null
                /\ UNCHANGED <<nextFrameId, nextTurnId, barred, gameVars, owing,
                               mode, recoveries>>
             \/ GoOn(With(root.bindings, choice.key, values))

RemoveValue ==
  /\ AtChoice("chooseNStep")
  /\ \E v \in choice.selected :
       LET values == choice.selected \ {v}
       IN /\ said' = With(said, choice.key, SaidOf(choice.key) \ {v})
          /\ root' = Selecting(values)
          /\ choice' = [choice EXCEPT !.selected = values]
          /\ decider' = choice.seat
          /\ move' = Null
          /\ UNCHANGED <<nextFrameId, nextTurnId, barred, gameVars, owing, mode,
                         recoveries>>

Confirm ==
  /\ AtChoice("chooseNStep")
  /\ Cardinality(choice.selected) \in choice.min..choice.max
  /\ said' = With(said, choice.key, SaidOf(choice.key))
  /\ GoOn(With(root.bindings, choice.key, choice.selected))

-----------------------------------------------------------------------------
(* Holes.                                                                  *)

\* Nothing is published: no value of the choice leads on, or no action.
Hole ==
  /\ Running
  /\ IF choice = Null THEN \E all \in Supported : Offers(all) = {}
     ELSE choice.kind # "stochasticResolve"

\* Mutant of Bar: barred for whoever had the choice, not for who acts.
BarForDecider(turn, seat, action) == barred \cup {<<turn, decider, action>>}

\* appendUnavailableAction
Bar(turn, seat, action) == barred \cup {<<turn, seat, action>>}

\* There is an action to return to, and it has not failed in this turn.
Recoverable ==
  root # Null /\ <<root.turn, root.seat, root.action>> \notin barred

\* rollbackToActionSelection: the frame of the action is all that is left of
\* the stack, and the seat owes no grant any more.
Recover ==
  /\ Hole /\ Recoverable
  /\ choice' = Null
  /\ barred' = Bar(root.turn, root.seat, root.action)
  /\ nextFrameId' = root.id + 1
  /\ decider' = root.seat
  /\ owing' = owing \ {root.seat}
  /\ recoveries' = recoveries + 1
  /\ move' = Null
  /\ UNCHANGED <<root, nextTurnId, gameVars, mode, said>>

\* A hole in which there is nothing to return to ends the game.
StopNoMoves ==
  /\ Hole /\ ~Recoverable
  /\ mode' = "noLegalMoves"
  /\ move' = Null
  /\ UNCHANGED <<stackVars, nextTurnId, barred, gameVars, owing, recoveries,
                 said>>

\* The game is over, stalled, or has had its turns.
Stop ==
  /\ mode = "run" /\ verdict # "play"
  /\ mode' = verdict
  /\ move' = Null
  /\ UNCHANGED <<stackVars, nextTurnId, barred, gameVars, owing, recoveries,
                 said>>

Next ==
  \/ SelectAction \/ ChooseOne \/ Resolve
  \/ AddValue \/ RemoveValue \/ Confirm
  \/ Recover \/ StopNoMoves \/ Stop

MicroturnSpec == Init /\ [][Next]_vars

-----------------------------------------------------------------------------
(* Properties.                                                             *)

\* The frames of the stack belong to the turn that is open, and who is to
\* decide is the seat of the top frame, through every rollback: the list of
\* barred actions and the agents of the simulator are found by the two.
StackIsOfTheOpenTurn ==
  /\ root # Null => root.turn = nextTurnId /\ root.id < nextFrameId
                      /\ root.seat = active
  /\ choice # Null => /\ root # Null
                      /\ choice.turn = root.turn /\ choice.parent = root.id
                      /\ root.id < choice.id /\ choice.id < nextFrameId
  /\ decider = IF choice # Null THEN choice.seat ELSE active

\* An action that was rolled back is not played again in its turn, except
\* the pass that is left when nothing else is.
BarredActionsStayAway ==
  choice # Null /\ <<root.turn, root.seat, root.action>> \in barred
    => root.action \in Passes

\* "No more than |actions| rollbacks per turn" (archive/specs/144-probe-and-
\* recover-microturn-publication.md, "Nested rollback within a single turn")
RecoveriesAreBounded ==
  recoveries <= (nextTurnId + 1) * Cardinality(Actions)

\* A pass reaches applyMove, which would throw and end the run, only when its
\* seat owes no grant: after any choices and rollbacks before it.
PassesOweNothing ==
  move # Null /\ move.action \in Passes => move.seat \notin move.owing

\* The parameters of the move that is applied are those decided since its
\* action was chosen: nothing of a choice that was rolled back or taken back.
MovesAreAsDecided ==
  [][nextTurnId' # nextTurnId => move'.params = said']_vars

\* The loop gives up for want of moves only when no plain pass is there to
\* fall back on, or when it is a pass that has failed twice.
DeadEndsAreRecovered ==
  [][mode = "run" /\ mode' = "noLegalMoves" /\ verdict = "play"
       => plain = {} \/ (root # Null /\ root.action \in Passes)]_vars
=============================================================================
