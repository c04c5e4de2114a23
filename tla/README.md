# Specifications of ludoforge-llm

TLA+ models of the parts of this repository whose correctness depends on the
order in which things happen. In the browser runner: the web worker that owns a
game, the store on the main thread that drives it through overlapping
asynchronous operations, the replay of recorded games, the loop that plays the
AI's turns between animations, and the saving of games. In the engine: the
card-driven turn flow with its free-operation grants, and the decision stack
that puts a move together of single decisions and rolls it back when one leads
nowhere. TLC checks them on small instances; TLAPS proves every invariant the
runs check, two refinements, and the descending measures behind the liveness
properties, for every game, every number of operations and every recording.

Paths below are relative to `src/packages/` unless they start with `archive/`.

Contents: [1 System](#1-the-system) - [2 Modules](#2-the-modules) -
[3 Code to model](#3-from-the-code-to-the-model) -
[4 Runs](#4-what-tlc-checks) - [5 Proofs](#5-what-tlaps-proves) -
[6 Disagreements](#6-where-documents-and-code-disagree) -
[7 Limits](#7-what-is-not-modelled-and-why) - [8 Plan](#8-plan)


## 1. The system

ludoforge-llm compiles board-game rules into a `GameDef`, executes them with a
deterministic engine, and plays them in a browser. The engine is a pure
function of its inputs, and its difficulty is long sequences of legal calls;
concurrency begins in the runner, where the engine sits in a web worker and
everything else awaits it.

| component | state | operations | talks to |
|---|---|---|---|
| **Game worker** `runner/src/worker/game-worker-api.ts` | the `GameState`, the history of states before each input, `latestMutationStamp`, the loaded `GameDef` | `init`, `applyDecision`, `advanceAutoresolvable`, `applyReplayMove`, `playSequence`, `rewindToTurnBoundary`, `undo`, `reset`, `loadFromUrl`, and the reads `publishMicroturn`, `describeAction`, `terminalResult`, `getState` | called through the bridge |
| **Bridge** `runner/src/bridge/game-bridge.ts` | the worker handle, fatal-error listeners | comlink wrap, `onFatalError`, `terminate` | worker; store or replay controller |
| **Game store** `runner/src/store/game-store.ts` | `sessionEpoch`, `operationToken`, `activeOperation`, `loading`, `gameLifecycle`, the game on screen, the error shown, the agents' session | `initGame`, `initGameFromHistory`, `submitActionSelection`, `submitChoice`, `submitChooseNStep`, `runAiStep`, `resolveAiTurn`, `rewindToCurrentTurnStart`, `undo`, `reportBootstrapFailure`, canvas crash and recovery, `hydrateFromReplayStep` | bridge; React |
| **Active game runtime** `runner/src/session/active-game-runtime.ts` | the mounted bridge and store | starts `initGame` or `initGameFromHistory`, forwards fatal errors | store, bridge |
| **Replay controller and store** `runner/src/replay/` | move index, `isPlaying`, playback timer, operation queue, stamps, the last trace | `stepForward`, `stepBackward`, `jumpToMove`, `play`, `pause`, `setSpeed`, `destroy` | bridge; replay runtime by `onStateChange` |
| **Replay runtime** `runner/src/session/replay-runtime.ts` | `syncQueue`, `cancelled` | projects the worker's game onto the store after each change of the controller | bridge, store, controller |
| **App session store, persistence** `runner/src/session/session-store.ts`, `runner/src/persistence/` | the screen, `moveAccumulator`, `unsavedChanges`; saved games in IndexedDB | select, start, resume, replay, record a move, mark saved; save, load, delete | active game runtime (`onMoveApplied`), routes |
| **AI playback, animation** `runner/src/animation/` | the drive loop (`running`, `pendingSkip`, delay timer), the animation queue | the loop over `runAiStep`, skip requests, retries and timeouts; enqueue, skip, pause | store (by subscription), animation controller |
| **Canvas** `runner/src/canvas/` | rendering state; crash recovery | draw, heartbeat, `requestRecovery` | store; mounts the two animation controllers |
| **Engine: card-driven turn flow, grants** `engine/src/kernel/turn-flow-*.ts`, `grant-lifecycle.ts`, `phase-advance.ts`, `apply-move.ts` | in the `GameState`: card piles, phase, candidates, eligibility, overrides, pending grants, deferred effects | `applyMove` and what follows it: `applyTurnFlowEligibilityAfterMove`, `advanceToDecisionPoint` | called for a whole move by the microturn |
| **Engine: microturn** `engine/src/kernel/microturn/` | in the `GameState`: `decisionStack`, `nextFrameId`, `nextTurnId`, `activeDeciderSeatId`, `unavailableActionsPerTurn` | `publishMicroturn`, `applyDecision`, `advanceAutoresolvable`, `rollbackToActionSelection` | worker, simulator; `applyMove` |
| **Simulator** `engine/src/sim/` | the running trace, the agents' random streams, the recovery count | the loop over chance, publication, agent, recovery | microturn, agents |
| **Other kernel parts** `engine/src/kernel/` | none of their own | effects, conditions, enumeration of moves, hashing, serialisation, RNG | all of the engine |
| **Rule compiler** `engine/src/cnl/` | none | Markdown/YAML to `GameDef` | command line, fixtures |
| **Agents** `engine/src/agents/` | a seeded random stream | choose among the published decisions | store's orchestrator, simulator |
| **Command line** `engine/src/cli/` | none | argument parsing and file I/O | compiler, simulator |
| **Policy VM** `engine-wasm/` | none | evaluates policy expressions | agents |
| **Map editor, routes, input, model derivation** | their own | single-user editing, event wiring, pure functions | store |

### What is hard

* *Overlapping awaits.* A store action awaits the worker up to five times. A
  second action may start between any two of its awaits. Three devices are to
  keep the result coherent: a token per operation (`isCurrentOperation`), a
  stamp on each mutation that the worker accepts only if it is newer
  (`ensureFreshMutation`), and a lifecycle table (`assertLifecycleTransition`).
* *Work under way.* `loadFromUrl` awaits a fetch and resumes in another game;
  `playSequence` may fail after some of its moves are applied; a save awaits the
  database while moves go on being recorded.
* *Two promise chains over one worker.* The replay controller queues tasks and
  the replay runtime queues projections; both read and write the same worker.
* *Timers.* Playback of a replay re-arms a timer while the move it triggered
  still runs. The AI's drive waits before a step, for the animations after it
  and before a retry, and each wait has several ways to end.
* *A loop started by subscription.* Only changes of the store start the AI's
  drive; one that comes at the wrong moment would leave the game to nobody.
* *Failures.* Any request may be rejected, the engine may throw, the canvas may
  crash and be mounted again, the worker may report a fatal error, at any time.
* *Long sequences of moves.* What an event grants, overrides and defers is used
  up by later moves of other seats, while candidates, passes, phases of coup
  rounds and the piles of cards move on around it.
* *A turn taken back.* A decision that leads nowhere is found only after others
  were taken; the rollback must put the stack, its numbering, the decider, the
  grants and the list of barred actions back together.

### What makes each part correct

* **Worker**: the history is always one real play of the present game; a
  rejected call changes nothing; only the newest stamp changes the game.
* **Store with worker**: what is on screen was read from one state of one game,
  which was the worker's game at the moment it was drawn; the loading flag is
  on exactly while an operation is current; the lifecycle agrees with the
  screen; every operation ends.
* **Replay**: between two tasks the worker's game is the recorded one that the
  move index names; playback neither stalls nor outlives a pause; the screen
  catches up; everything comes to rest.
* **AI playback**: an AI's turn is played or its failure reported, never left
  lying; a drive ends in every interleaving; a skip is heard; the agent never
  moves in a human's turn; store and animation queue agree.
* **App session**: unsaved moves are flagged as unsaved (they are not always).
* **Turn flow**: no card is lost or doubled; the seat asked is the first
  candidate or holds a grant it must use; a grant that must be used keeps the
  card, which else ends when its actions are taken; a deferred effect waits for its grants; a sequence starts at its first
  step; a coup phase asks every seat; the loop after a move ends.
* **Microturns**: the move applied is what was decided, in spite of choices
  taken back; the stack is that of the open turn; a barred action stays away;
  rollbacks are bounded and are always tried before a game is given up; a pass
  is applied only for a seat that owes no grant.

Every hazard the code is exposed to is listed, at its line, in `PROJECT.json`
with the properties that would catch it.


## 2. The modules

```
GameRules                     the engine as the runner sees it: constant operators
  GameWorker                  the worker's state and methods
    GameStore  (+ Lifecycle)  the store's operations, one action per await
      GameSession             store + channel + worker: a playing session
    Replay     (+ Lifecycle)  controller + projection + channel + worker
  AtomicGame                  what a session promises: the abstract specification
AnimationQueue                the timelines and the store's flags about them
  AiPlayback                  the drive loop against a store that others change
AppSession                    screens, recorded moves, the save dialog
Grants                        operators on free-operation grants
  TurnFlow                    cards, candidates, coup rounds, the loop after a move
CardRow                       what the card piles promise: an abstract specification
Microturn                     the decision stack under the simulator's loop
MCGame                        a two-turn game for the constants of GameRules
MCGameWorker, MCGameSession, MCReplay, MCAiPlayback, MCAppSession,
MCTurnFlow, MCMicroturn       instances for TLC
GameWorkerProofs, GameSessionProofs, ReplayProofs, AiPlaybackProofs,
TurnFlowProofs, MicroturnProofs                         TLAPS
StampProofs                   over GameSessionProofs: the order of the stamps
ProjectionProofs              over ReplayProofs: the screen of a replay, its end
```

`GameRules` declares the engine's functions as CONSTANT operators with the
assumptions the runner makes of them (`GameAssumption`: legal inputs lead to
states; the truth-valued ones are truth-valued). Nothing else about a game is
used, so the theorems hold for every compiled game.

`AtomicGame` has three variables, the game, its past and the screen, and steps
a user can understand: start, play, return, show, blank. `Show` draws every
part of the screen from the present game at once. `GameSession` implements it
(`ImplementsAtomicGame`) with `game <- gameState`, `past <- history`.

`CardRow` knows a current card, a revealed one, an unseen stock in the order of
the deck, and the set of cards that are over; its one step turns to the next
card. `TurnFlow` implements it (`ImplementsCardRow`): the current card is the
top of the played pile, the revealed one that of the lookahead pile, the stock
is the draw pile, and what is over lies in the leader and discard piles. So
moves, grants, events, coup rounds and the loop after a move are stutters of
`CardRow`, and a card that is over never comes back.

`TurnFlow` and `Microturn` are the two halves of the engine's dynamics and meet
in one call: `Microturn`'s `Apply` is `applyMove`, which it takes to lead to any
game; `TurnFlow` takes a move as given and says what the turn flow makes of it.


## 3. From the code to the model

### GameWorker

A variable per closure variable of `createGameWorker`: `gameState` is `state`,
`history`, `latestStamp` is `latestMutationStamp`. `replayQueue` is what the
loop of `playSequence` has left, `fetches` the `loadFromUrl` calls that await
their fetch, `reply` how the last method settled. A method runs to completion
between two messages, so it is one action, with a disjunct per way out
(`RejectStale`, `RejectUninitialized`, `SetupThrows`, ...) in the order the code
tests them: `applyDecision` asserts a game before it looks at the stamp,
`rewindToTurnBoundary` after. Two exceptions: `loadFromUrl` is two actions
around its await, and `playSequence` one per move, although nothing runs in
between (`Available` is false then): this keeps the partial failure visible.

`WorkerSpec` leaves the clients unconstrained: any method, any stamp, any order.

### GameStore and GameSession

A call of a store action is a record in `call`: its kind, the await it is at
(`stage`, named after the bridge method it awaits), the stamp of its operation,
the values captured before the first await, and what it has read so far
(`got`). The actions named after store actions (`StartInit`, `SubmitDecision`,
`StartAi`, `StartRewind`, `StartUndo`, `SubmitBlockedSelection`) go up to the
first await; the `Receive...` actions are the continuations, each up to the next
one. `Commit` is `guardSetAndDerive` with the lifecycle check before it, `Fail`
the `catch` and `finally` of `runActionOperation` and of the two inits.

A state is never taken apart: a view names, for each part of the screen, *the
game state it was read from*. So a torn screen is a view whose parts differ.

The channel is FIFO in both directions, as `postMessage` is: `toWorker` holds
the calls whose request is posted, `toStore` those whose reply is. `Serve` runs
the worker method of the oldest request.

Points where a detail matters and is kept:

* `beginOperation` runs before the lifecycle check of an init and outside its
  `try`: an init that the table forbids stays the current operation (stage
  `"rejected"`) until the next one begins.
* An operation that finds nothing to do still begins and finishes
  (`FinishAtOnce`), and thereby supersedes the one in flight.
* Actions check the lifecycle they captured before the first await, inits and
  rewinds the present one (`LifecycleBefore`).
* `initGameFromHistory` uses one stamp twice; `resolveAiTurn` one per loop.
* `reportBootstrapFailure` drops the agents before its lifecycle check throws.

### Replay

`tasks` is `operationQueue` with the running task first, `step` the bridge
method it awaits; `syncs` counts the projections appended to `syncQueue`,
`syncStep` is what the running one awaits. A task computes where it leads
(`TargetIndex`) when it starts, not when it is asked for. `RunTask` goes up to
the first await, `ReceiveTaskReply` up to the next, `TaskLands` is the
assignments after the last await, `TaskFails` the swallowed rejection.

Promise reactions run before the next event, which `EventLoopFree` states: user
input, timers and replies wait until no projection and no task is due. Their
own order is that of the microtask queue: a due projection starts before the
next task, and the next task starts before the `catch` of a rejected playback
runs (`playbackRejected`), because the promise that `enqueue` returns settles
later than the queue's own.

A recording is kept as its moves and the states they led to, with the game it
was recorded in (`start`) and the game a reset gives (`restart`): `initGame`
passes the recording's player count and the controller's reset passes none.

### AnimationQueue and AiPlayback

`drive` says where `drive()` of `ai-playback.ts` is: `"none"`, at one of its
awaits (`"delay"`, `"step"`, `"drain"`, `"retry"`), or inside one of the
stretches it runs through without awaiting (`"loop"`, `"act"`). These are
`Urgent`: while the drive is in one, no outside action is enabled, because
JavaScript runs it to its next await. So a stretch may be two actions without
admitting interleavings the program cannot have. `"failed"` is a drive that
ended by `onError`.

`OnStateChange` is the controller's subscription, which fires after every
change of the store: it starts a drive when none runs and the store is at rest
in an AI's turn (`maybeStart`), and ends the wait for the animations
(`waitForAnimationDrain` subscribes too). Every outside action ends with it.
The store is seen through `turn` and `operation`: the operation current may be
the drive's own step or another one, which supersedes it; the step then comes
back as a no-op and is tried again. `Mount` and `Unmount` are the two
controllers' creation and destruction with the canvas, a crash included.

The queue counts its timelines. It and the store keep flags of their own and
tell each other through callbacks: `SetStoreFlag` is one such round trip
(`setAnimationPlaying`, which ends the store's pause, which the canvas passes
on to the queue).

### AppSession

One action per user action or callback. `Save` reads the accumulator and hands
the record to the database, `PutSucceeds` stores it and runs `onSaved` and
`onClose`. A `put` outlives its dialog; whether the dialog is still the one on
screen is kept with it. Moves of a resumed game are not recorded, since the
resume itself fails (section 6), hence `InPlay`.

### Grants and TurnFlow

The variables are fields of the `GameState`: `zones` the card piles, `card`,
`eligible`, `overrides`, `grants`, `deferred` the runtime of the card-driven
turn order, `stalled` its lifecycle status, `phase`, `turn`, `active` the
general ones. `mode` says whether a seat is asked or the loop of
`advanceToDecisionPoint` runs.

A move is one action, with all that `applyMove` makes of it: grants issued,
advanced or used, deferred effects released, overrides, the candidates, and the
end of the card when it is over (`AfterMove`, `EndCard`). The loop after it is
one action per iteration: `Decide` when the active seat has a legal move,
`PreSkip`, `ExpireBlocking`, `ImplicitPass`, `AdvancePhase` otherwise. Which
moves are legal is the rules' business; a seat that may act has one or has none,
as it pleases, so the model has every run of any game with these cards.

Points where a detail matters and is kept:

* The pending grants are a list with unique ids in the code, a set with ids
  here. Ids are built of the turn, seat, event and index, and made unique by a
  counter, which `FreshSerial` is. Batch ids are not made unique.
* Whether the use of a grant is one of the card's actions, and may end it, is a
  field of its own (`resumes`, that is `postResolutionTurnFlow`): required grants
  have it, skippable ones may, optional ones do not (`WithinContract`).
* `EndCard` writes the grants back after the card boundary, which clears the
  stall the boundary may just have found.
* An effect of a coup round depends on the piles and the count of rounds
  (`PhaseOrder`, `InEffect`), read anew whenever it is used: the phase in force
  may have ceased to be one (`PhaseValid`).
* `advancePhase` at the end of a turn retires the card as the end of a card does.

### Microturn

The stack has at most two frames, the action's (`root`) and that of the choice
due (`choice`): `spawnPendingFrame` replaces the frame of a choice by the next
one. One iteration of the loop of `run-game-steps.ts` is one action: it
publishes, lets the agent pick and applies the pick (`SelectAction`,
`ChooseOne`, `AddValue`, `RemoveValue`, `Confirm`), resolves chance
(`Resolve`), recovers (`Recover`) or stops. Which actions the rules support,
what a move asks for next and what comes of it is any possibility within the
types; what the kernel itself decides is exact: what is offered of the supported
actions (`Offers`: those not barred, else one pass), the frame and its
bindings, the numbering, what a rollback restores, when a seat's grants are
written off (`Reconciled`), when an error ends the loop.

A rollback truncates the stack to the frame of the action and leaves that frame
as it is, its bindings included; the frame is replaced only when an action is
chosen again. Two variables are there for the properties only: `move`, what the
last step gave to `applyMove` and who owed a grant then, and the history
variable `said`, what was decided since the action was chosen.

### Abstractions

* Only what the properties tell apart is kept of a message: no rendering, no
  layout, no texts of errors but their codes.
* A published microturn has at least one action, as `publishMicroturn`
  guarantees by throwing otherwise; a microturn at the root of a turn has an
  empty decision stack (`publish.ts`), which is how `rewindToCurrentTurnStart`
  and `deriveActionAvailabilityById` tell it.
* The requests of one `Promise.all` are posted and served back to back; they
  are one request (the descriptions of the actions, and `getState` with
  `terminalResult` in a projection).
* Describing an action does not fail once its microturn is on screen.
* `actionAvailabilityById` is not part of a replay's view: nothing reads it
  on the read-only screen.
* The replay store copies the controller's fields and is not a variable; the
  two read-only worker methods `getMetadata` and `getHistoryLength` are left out.
* An engine call may throw where the code has a handler for it: setting up a
  game, and the chain of `advanceAutoresolvable`.
* What the game's rules decide in `TurnFlow` and `Microturn` (legality, what a
  move asks for, its effects) is left to chance; the constants give the data
  the turn flow itself reads: orders, events, phases, the option matrix.


## 4. What TLC checks

The runs of the worker, the session and the replay use `MCGame`: a turn is a
picked and a confirmed decision, move `a` ends the game and so does the second
move, a human moves first and an agent after that. That is enough for a turn
with a root and an inner decision, a rewind that has somewhere to go, an AI loop
of more than one step, and games that end early and late.

| run | specification | shows |
|---|---|---|
| `game_worker` | `WorkerSpec` | `WorkerTypeOK`, `HistoryIsAPlay`, `RejectedCallsChangeNothing`, `OnlyTheNewestStampActs` under any client |
| `game_session` | `FairSpec` | `SessionTypeOK`, `LoadingHasAnOwner`, `OnlySecondMutationsAreStale`, `LifecycleMatchesView`, the refinement `ImplementsAtomicGame` with the invariant `OperationsInv` that makes it inductive, and `EveryOperationEnds` |
| `replay` | `FairSpec` | `ReplayTypeOK`, `IndexMatchesGame`, `OnlyFirstStampIsStale`, `PlaybackGoesOn`, `ProjectionSettles`, `ReplayComesToRest` |
| `ai_playback` | `FairSpec` | `PlaybackTypeOK`, `StoreMatchesQueue`, `AiTurnIsPlayedOrReported`, `SkipLeavesNoDelay`, `DrainHasAnimations`, `StepsOnlyInTheAiTurn`, `DriveEnds` |
| `turn_flow` | `TurnFlowSpec` | `TurnFlowTypeOK`, `CardsConserved`, `LaterStepsWaitForTheFirst`, `TheFirstCandidateIsAsked`, `DeferredEffectsWait`, `TheCardEndsWhenItIsDue`, `CoupPhaseAsksEverySeat`, `LoopEnds`, the refinement `ImplementsCardRow` |
| `microturn` | `MicroturnSpec` | `MicroturnTypeOK`, `StackIsOfTheOpenTurn`, `BarredActionsStayAway`, `RecoveriesAreBounded`, `PassesOweNothing`, `MovesAreAsDecided`, `DeadEndsAreRecovered` |
| `resume_replays` | `Spec` | a documented promise the code breaks: `ResumeReplaysItsMoves` |
| `ai_skip_advances` | `Spec` | likewise `ResolveAiTurnAdvances` |
| `quiet_screen` | `Spec` | likewise `QuietScreenIsCurrent` |
| `replay_first_step` | `Spec` | likewise `StepForwardAdvances` |
| `replay_frozen` | `Spec` | likewise `BoardMatchesIndex` |
| `app_session` | `Spec` | likewise `UnsavedProgressIsFlagged` |

Deadlock is checked in `ai_playback` and `app_session`, where something can
always happen. In the others it is not: a session in which nobody does anything
is a session at rest, a game ends, and every bounded model ends at its bound.

### Bounds, and why they suffice

* `game_worker`: the histories are limited by `MaxTurns = 2` because a finished
  game takes no input; six stamps (three epochs, two tokens) allow every order
  of older, equal, same-epoch and newer ones. 122,044 distinct states.
* `game_session`: `MaxCalls = 3` store actions. A property of the guard needs
  two (one superseding the other); the third lets the superseding one be
  superseded, and lets an action precede an init that an action then overlaps.
  Stamps of the session are exactly those handed out. One seed: which seed an
  operation carries makes no difference to it, and `InitialState` of it can
  still be told from any later state. `MaxAiSkipMoves = 3` instead of 512: the
  loop ends by its bound, by a human's turn and by the end of the game.
  240,825 distinct states. The same safety properties were also checked once
  with `MaxCalls = 4` (about 6.5 million states).
* `replay`: `MaxCommands = 4` uses of the controls over three recordings of one
  or two moves: one replays to its end, one has a move the engine refuses, one
  is not rebuilt by a reset. Four uses are a playback with a change of speed, a
  jump into it and a pause. 620,593 distinct states.
* `ai_playback`: nothing is bounded but what the code bounds: two timelines
  that wait (50 in the code), three no-op steps in a row as in the code, three
  moves of a drive (512 in the code). Every limit is reached.
  27,296 distinct states.
* `app_session`: one kind of move, three moves of a session, two records; the
  counterexample needs one move and one record.
* `turn_flow`: three seats, so that a third one waits while two are candidates;
  six cards, three of them coups and some of these in a row at the end of two
  decks; events with a required grant of one seat beside a skippable grant of
  another that does not resume the card, a sequence of two steps that do, the
  first of them skippable, with a deferred effect, two uses of an optional grant,
  and overrides in both directions; two
  phases in a coup round, the second left out of the final one;
  `MaxRounds = 1`. The number of actions on a card has no bound in the code: a
  seat that keeps being granted operations that resume the card goes on. `MaxActions = 3`
  bounds them, one more than a card has without grants.
  312,366 distinct states.
* `microturn`: two seats, one action and one pass, two keys and two values, so
  that moves of up to two choices by either seat or by chance are put together,
  taken back value by value, and rolled back at any point. `MaxTurns = 2`:
  grants a seat owes arise from the first move and are used or written off in
  the second. Seats, keys and values are each alike (`SYMMETRY`, sound because
  the run has safety properties only). 2,805,040 distinct states.

### Fairness

`GameSession` assumes weak fairness of `Serve` and of the continuations: the
worker's and the main thread's event loops keep taking messages. `Replay` adds
that a timer goes off. Both are what a browser guarantees while the worker
lives. Nothing obliges a player, the canvas or the worker to do anything, and a
terminated or dead worker is not in these models (see the plan); leaving the
replay screen, which terminates the worker, is (`Destroy`), and
`ReplayComesToRest` holds trivially of it.

`AiPlayback` assumes weak fairness of the drive's own steps: its timers go off,
and a step it awaits is answered. Nothing is assumed of the player, of the
animations or of the canvas; that animations end is not needed, since the drain
has a timeout. `TurnFlow` assumes it of `Loop`, which is one synchronous
function in the code. `Microturn` and `AppSession` need none.

### Mutants

Each property of a passing run has a mutant, an operator beside the definition
it changes and marked "Mutant of" in its comment. With the mutant in place TLC
refutes the property: the check of a fetch after its await, the reset of the
history, the guard of `finishOperation`, the handler of a rejected playback, the
step of a sequence that is set ready, the frame that keeps old bindings, ...


## 5. What TLAPS proves

All theorems are about the specifications TLC checks, with nothing assumed but
the named ASSUMEs of the modules, which TLC evaluates in the runs:
`GameAssumption`, `WorkerAssumption`, `StoreAssumption`, `ReplayAssumption`,
`QueueAssumption` and `PlaybackAssumption` (the limits are positive),
`GrantsAssumption`, `TurnFlowAssumption`, `MicroturnAssumption`,
`FrameAssumption` (Null is not a frame). `TurnFlowAssumption` says of a game
what the code validates (`validate-gamedef-extensions.ts` 76-97), that a deck
has every card once and does not begin with a coup, that seat orders name every
seat, and that the first phase of a coup round is not among those a final round
leaves out: otherwise the code's filter (`phase-advance.ts` 366-387) could leave
no phase.

| module | theorem | property |
|---|---|---|
| `GameWorkerProofs` | `WorkerTypeCorrect` | `[]WorkerTypeOK` |
| | `HistoryAlwaysAPlay` | `[]HistoryIsAPlay` |
| | `RejectionIsHarmless` | `RejectedCallsChangeNothing` |
| | `NewestStampOnly` | `OnlyTheNewestStampActs` |
| `GameSessionProofs` | `SessionInvariant` | `[]SessionInv` |
| | `SessionTypeCorrect`, `LoadingFlagNeverSticks`, `LifecycleIsTruthful`, `OperationsAreSafe` | the safety properties of `game_session` |
| | `SessionImplementsAtomicGame` | `Spec => Atomic!AtomicSpec` |
| `StampProofs` | `FirstMutationsAreNeverStale` | `[]OnlySecondMutationsAreStale` |
| | `SecondMutationsNeverSucceed`, `ResumeNeverReplays`, `AiTurnIsOneDecision` | a call changes the game at most once; so no resume replays a move, and no AI turn the player skips to has two decisions |
| | `OperationsRunDown` | a call has at most 12 messages to come, and each of its own leaves fewer |
| `ReplayProofs` | `ReplayInvariant` | `[]ReplayInv` |
| | `ReplayTypeCorrect`, `CounterNeverLies`, `OnlyFirstRequestIsStale`, `PlaybackNeverStalls` | four of the properties of `replay` |
| | `FirstRequestMovesNothing` | until its second request a replay is where it started |
| `ProjectionProofs` | `ProjectionInvariant`, `ScreenCatchesUp` | `[]ProjectionInv`, `[]ProjectionSettles` |
| | `ReplaysRunDown` | each step but the user's and the canvas's leaves less to do |
| `AiPlaybackProofs` | `PlaybackTypes`, `QueueMatches`, `AiTurnsAreLookedAfter`, `SkipsAreHeard`, `DrainsAreOfAnimations`, `AgentsOnlyMoveInTheirTurn` | the safety properties of `ai_playback` |
| | `DrivesRunDown` | each step of a drive is nearer to its end |
| `TurnFlowProofs` | `TurnFlowInvariant` | `[]IInv` |
| | `TurnFlowTypes`, `CardsAreConserved`, `LaterStepsWait`, `CandidatesOrHoldersAreAsked`, `EffectsWait`, `CardsEndWhenDue`, `CoupPhaseIsForAll` | the safety properties of `turn_flow` |
| | `TurnFlowImplementsCardRow` | `~Accumulating => (TurnFlowSpec => ImplementsCardRow)` |
| | `GrantIdsAreUnique`, `GrantsAreOnlySpent` | pending grants have different ids; one is only ever used up or made ready |
| | `LoopRunsDown` | each iteration of the loop takes fuel |
| `MicroturnProofs` | `MicroturnTypes`, `StacksAreOfTheirTurn`, `BarredStayAway`, `RecoveriesEnd`, `PassesAreFree`, `MovesAreDecided`, `DeadEndsRecover` | the properties of `microturn` |

**The worker.** `HistoryIsAPlay` is inductive with the types. Every method does
one of four things to the game (`GameStep`): nothing, start afresh, go on by an
engine step, or go back to a point of the history; lemmas about plays
(`PlayExtends`, `PlayCut`) do the rest.

**The session.** The refinement says that whenever the screen is redrawn, all
its parts are read from the worker's present game. When a commit happens, those
parts were read in up to five separate messages before. Why are they still
true? Because the operation is current, its stamp is the newest of all
(`StampsInOrder`); because its mutation was accepted, the worker's
`latestStamp` is that stamp (`CurrentOperationReadsItsGame`); so every other
request the worker can have served since was stale. Two more parts close the
argument: a loop of `playSequence` belongs to the request at the head of the
channel (`LoopHasAnOwner`), so it cannot change the game behind the current
operation's back, and only a rewind or an undo is answered with null
(`RepliesCarryStates`). `SessionInv` is the conjunction with the types, the
play property and `LoadingHasAnOwner`. The refinement then has one step for
each action: worker actions map to `Start`, `Play`, `Return` or a stutter,
commits to `Show`, failures of an init to `Blank`.

**The stamps.** `OnlySecondMutationsAreStale` needs the whole channel, not only
the current operation. Calls take their stamps in the order in which they post
their first requests, with nothing awaited between the two, and the channel
keeps that order. So the first mutations in the channel are in the order of
their stamps, and newer than the worker's stamp and than every call that has
had its first answer (`FirstMutationsInOrder`): whatever the worker has served
when it comes to one was older.

A second mutation brings the stamp of the first. `OneMutationInv` says what
follows: past its first mutation a call's stamp is spent, so its second one is
rejected whenever it is served, and the loop of `playSequence` never runs
(`Available` always holds). Findings 1 and 2 of section 6 are therefore no
accident of a schedule: they hold in every game and every interleaving.

**The replay.** `IndexMatchesGame` speaks of the moments between two tasks. To
carry it through a task, `ReplayInv` says where the worker's game is at each of
its awaits (`GameInStep`: `BeforeIndex` until the request is served, `LoopAt(n)`
inside `playSequence`, `AfterIndex` once answered), that at most one request of
the task is under way (`OneRequest`), what a running task looks like
(`TaskShape`), and that a request brings a new stamp unless it is the very
first (`StampsInStep`). The last point is what makes a rejected task harmless:
a task that has reset the game cannot be refused half-way, since its second
stamp is newer than its first, and a replayable recording's moves are legal.
Tasks and projections share the worker, so most steps are shown once to be
`AsideStep`s, which leave the task, its request and the game alone.
The first request of all brings the stamp the store's `initGame` has used:
`OpeningInv` follows it through the channel, the worker and back
(`FirstRequestIsRejected`), which makes finding 4 one of every game too.
`PlaybackGoesOn` is proved separately and needs only that a rejected
playback's handler waits between two tasks (`RejectedIsHandled`).

**The screen of a replay.** A projection may read the game between the two
mutations of a task, or show what the next task is about to change.
`ProjectionSettles` holds because another one is then due or will be:
`FollowsGame` says that with no projection due, and no task at work that has
changed the game (`Dirty`), the screen shows the game or the running projection
is reading it. A dirty task always lands and appends its projection, since in a
replayable recording its second mutation succeeds (`SecondsSucceed`). `OneRead`
says that an answer to a projection is the one it waits for.

**The AI playback.** The properties are inductive together: the flags of store
and queue agree (`QueueOK`), also with the pause while there is a canvas
(`PauseAgrees`), and `DriveOK` joins to the properties of the drive that one at
work is below its limits (`CountsBelowLimits`), so the error ends it exactly
there. The queue's operations are dealt with once (`QueueOperations`), and each
step of the drive need only say which of them it runs (`StepsOfTheQueue`).

**The turn flow.** `IInv` joins to the types and `TheFirstCandidateIsAsked`
what holds of the data between two moves: which grants may be pending together
(`GrantsOK`: finitely many, none used up, and while the first step of a batch is
pending the later ones of its issue wait), that the deferred effects are finitely many
(`EffectsOK`, for their fresh ids), that the active seat is the first candidate
when there is one (`ActiveOK`), and that a phase of a coup round is current only
while it is in effect (`PhaseOK`). All moves go through `MoveKeepsIInv`, which is
about `AfterMove` for any class, grants and effects; each move is then shown to
hand it well-formed ones. That `AdvanceSequences` sets later steps ready too
early (section 6) and that an event played twice reuses a batch is why
`LaterStepsWaitForTheFirst` compares steps of one issue only, and only with the
first step. `CardsAreConserved` is an induction of its own over the piles
(`NextPilesConserve`): each card is at one place of one pile, the leader pile
has coups only, and moving the top of a pile keeps both.

The refinement of `CardRow` rests on `OneRevealed`: the played and the lookahead
pile have at most one card, and neither is empty before what feeds it is. It is
stated for games that discard (`~Accumulating`). In a game whose played pile is
also its discard pile, the covered cards of it counted as over, the promise
fails in one place: the last coup leaves the played pile for the leader pile with
no card behind it, and the card below it, long over, is on top again.

`CardsEndWhenDue` speaks of any move that counts: `MovesAreDue` proves it of
`AfterMove` for all classes, overrides and grants, so for required and skippable
uses alike, and a use that does not resume the card leaves it as it is. Steps of
the loop are not in it: when the asked seat's grants expire and it has no other
move, `AdvancePhase` moves on to the next card with the grants of another seat
still pending.

That grants are only spent is a property of two states (`OnlySpent`): every
grant pending after a step is a new one, or one that was pending with the same
seat, policy, `resumes`, batch and step, no more uses, and ready if it was. Ids
stay unique because `FreshSerial` is a number no pending grant has and the
grants of one event differ in their index: `IsEvent` says that the index of a
declaration is its place in the event's list, as the code has it.

**The microturns.** `MovesAreAsDecided` is carried by `SaidOK`: at a choice, the
bindings of the action's frame and what was said since the action differ at most
in the selection that is open, and that is the selection the frame of the choice
holds. After a rollback nothing is claimed of the bindings until an action is
chosen again. `RecoveriesAreBounded` needs to count: `CountOK` says that the
recoveries are at most one per action for each past turn, and one per action
barred in the open one, and a rollback bars an action that was not barred.
`PassesOweNothing` needs that a pass on the stack has been written off
(`PassOK`).

**What runs down.** Each liveness property has two halves: there is a finite
amount of work, and fairness has it done. The first half is proved, as a measure
in the natural numbers and an action property that says who lowers it.
`OperationsRunDown` counts the messages a call still has before it (`Messages`):
at most six requests, each with its reply. That it is six, and not as many as an
AI's turn has decisions, is `OneMutationInv` again. `DrivesRunDown` compares
lexicographically the steps that have advanced, the no-ops in a row and the
places of the loop up to the next step (`Nearer`); `DrivesAreMounted` excludes
that a canvas is unmounted under a drive that goes on. `LoopRunsDown` adds to
the iterations left the number of grants that can still expire (`Fuel`).
`ReplaysRunDown` takes seven counts (`ToGo`): the commands queued, the moves
after the index, the tasks queued and the one the timer will queue, the methods
the task has yet to call, the reads the projections have, the requests at the
worker, and the moves of its loop. What looks circular is not: a playback arms
its timer again, but after landing, with a move less to go; a jump back gives
moves to a playback, but is itself a command less (`TaskLeaves`); and a task that
appends a projection has itself come nearer to its end.

**Only model-checked.** The liveness properties `EveryOperationEnds`,
`ReplayComesToRest`, `DriveEnds` and `LoopEnds` themselves: that a measure is
lowered as long as there is anything to do needs fairness and ENABLED, which
TLAPS does not reason about here. Every invariant, every action property and
both refinements of the passing runs are proved.


## 6. Where documents and code disagree

Each is listed in `PROJECT.json` with the document's line. Six have a run whose
counterexample shows it; 1, 2 and 4 are also proved to be so in every game
(`ResumeNeverReplays`, `AiTurnIsOneDecision`, `FirstRequestMovesNothing`):

1. *Resuming a game replays nothing.* `initGameFromHistory` uses one stamp for
   `init` and `playSequence`; the worker takes it once. The resumed session
   ends idle with a stale-operation error (`resume_replays`).
2. *`resolveAiTurn` stops after one decision*, for the same reason
   (`ai_skip_advances`).
3. *A quiet screen may be behind the worker.* An operation without effect
   supersedes one whose decision the worker has accepted; the commit is
   dropped and nothing redraws (`quiet_screen`).
4. *The first step of a replay does nothing.* The controller's first stamp is
   the one `initGame` used (`replay_first_step`).
5. *The board of a replay may freeze.* A projection overtaken by the end of the
   game fails, its error handler throws as well, and the queue stays rejected
   (`replay_frozen`).
6. *Moves recorded during a save count as saved.* `markSaved` clears the flag
   after the database has answered, whatever was recorded meanwhile, also in
   another game (`app_session`).

The others one reads off the code:

7. *Runner.* An init superseded by an action stays "initializing"; a superseded
   init replaces the newer session's agents; recorded moves and played moves can
   differ after a superseded decision or an undo; stepping back in a replay
   rebuilds the game with the minimum number of players.
8. *After a coup round the seats of its last phase are taken to have acted* on
   the next card too: the phase's candidates are not reset when an ordinary
   phase is entered. TLC finds it on `TurnFlow` in a few seconds; the model has
   it, no run states it.
9. *Sequence steps become ready early*: when one waiting step of a batch waits
   for nothing, all of them become ready (`AdvanceSequences`).
10. *A found stall is forgotten* when grants are written back after the card
    boundary (`EndCard`); the next boundary finds it again.
11. *Microturns.* The agent's random stream is not put back by a rollback; the
    list of barred actions is never cleared; and only the simulator rolls back,
    so a hole stops a session of the runner.

Smaller things met while modelling, against no document:

* When a grant that kept a card of two actions expires or is skipped, its seat,
  whether it has acted or not, is asked for a regular turn of the same card; so
  is the seat that has used such a grant when it does not resume the card. Two plays of an event in one turn share a batch id.
  Explicit passes in the last coup phase leave every seat ineligible, and the
  loop then runs through the following cards. Grants that expire in the loop
  do not advance waiting steps until the next move, nor release deferred effects
  until the next free operation.
* The confirmation of a `chooseN` that is followed by another choice enters
  the trace twice. `advanceAutoresolvable` throws after exactly
  `MAX_AUTO_RESOLVE_CHAIN` resolutions even when it is done. Frame ids are used
  again after a rollback.
* A skip requested while no drive runs skips the whole next AI turn; one
  requested during the delay or the step does not shorten that step's wait for
  the animations. After a reported failure any change of the store starts the
  drive again. `runAiStep`, run when its delay is over, supersedes an operation
  the player began meanwhile.


## 7. What is not modelled, and why

The rule compiler, the agents' evaluation, effects and expressions of the
kernel, the enumeration of moves, hashing, serialisation and the policy VM are
pure sequential functions, and by far the largest part of the code: their tests
compare them with golden data and their state spaces are those of the games. A
model of them would be a second implementation of the same function with nothing
to interleave. Rendering, layout, routes and input wiring have no protocol of
their own: the session model lets their calls come in any order at any time. The
map editor is a single-user editor apart from the game. The command line is
argument parsing and file I/O. So the map covers a small share of the lines of
the repository, and most of those that decide about order.

Left out of what is modelled:

* **Session**: a worker that dies (section 8), `getMetadata` and
  `getHistoryLength`, animation setters, the render model's derivation.
* **AI playback**: which timeline plays, speed, detail level, reduced motion,
  building timelines from traces; the store's own crash flag (a crash of the
  canvas is `Unmount` and `Mount`).
* **App session**: listing, deleting and importing records, the database.
* **Turn flow**: interrupt phases, immediate coup entry by an event on a coup
  card, immediate effects of a promoted coup, monsoon and pivotal windows, pass
  rewards, grants issued by effects, captured sequence context and the phase
  "offered" of a grant, seat orders of a card that leave a seat out, usage
  counters, lasting effects, terminal results, the other turn orders.
* **Microturn**: which options are legal and how far the probe that publishes
  them looks (a hole may be anywhere), forced selections, suspended effect
  frames, the budget of the automatic chain, the decisions `outcomeGrantResolve`
  and `turnRetirement` that no code publishes, details of free operations,
  hashes, logs and snapshots. A turn is one move.


## 8. Plan

Done, in the order in which the behaviour matters: worker; session with its
refinement; replay; AI playback; turn flow with grants; microturns; the app
session; proofs of every invariant, of both refinements and of the measures
behind liveness. To come:

1. **A worker that dies** (`bridge/game-bridge.ts`): `terminate`, fatal errors
   and calls that never settle, as a further module over `GameSession`; which of
   the liveness properties survive.
2. **Interrupt phases** and immediate coup entry in `TurnFlow`.
3. **Microturn over TurnFlow**: `Apply` leading to the states `AfterMove` and
   the loop lead to, instead of any; who owes a grant would then be known.
4. **AppSession over GameStore**: the accumulator fed by `onMoveApplied` of
   operations that may be superseded.
5. **Proofs**: a refinement of `Microturn` by whole moves, in which a turn taken
   back never happened; when exactly the saved moves of `AppSession` and its
   flag agree; a measure for `Microturn`, whose turns are only bounded by the
   agents' choices unless a selection is confirmed.
