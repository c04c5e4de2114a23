------------------------------- MODULE Replay -------------------------------
(***************************************************************************)
(* A recorded game played back: the replay controller                      *)
(* (packages/runner/src/replay/replay-controller.ts), the worker it drives *)
(* and the projection of the worker's game onto the screen                 *)
(* (packages/runner/src/session/replay-runtime.ts).                        *)
(*                                                                         *)
(* Two promise chains run on the main thread.  The controller's queue runs *)
(* one task at a time: a step, a jump, or one move of the playback timer.  *)
(* Every state change the controller emits appends a projection to the     *)
(* other one, which reads the worker and hydrates the store.  The chains   *)
(* await the worker independently of each other.                           *)
(***************************************************************************)
EXTENDS GameWorker, Lifecycle

CONSTANTS
  Recordings,   \* recorded games; states[i] is the state before moves[i]
  MaxCommands   \* bound: how often the user touches the controls

\* A recording is started with the players of its session (start) but reset
\* without a player count, which is then the default of the game (restart).
ASSUME ReplayAssumption ==
  /\ MaxCommands \in Nat
  /\ \A r \in Recordings :
       /\ r \in [moves : Seq(Move), states : Seq(GameState),
                 start : Seed, restart : Seed]
       /\ Len(r.states) = Len(r.moves) + 1
       /\ \A n \in 1..Len(r.moves) : SubSeq(r.moves, 1, n) \in Histories

VARIABLES
  recording,        \* the game being replayed
  destroyed,        \* the screen was left: controller and worker are gone
  currentMoveIndex, \* the last move applied, from 0; -1 at the start
  isPlaying,
  timer,            \* playbackTimer !== null
  operationToken,   \* the token of the newest stamp
  tasks,            \* operationQueue, the running task first
  step,             \* the bridge method the running task awaits, or "ready"
  lastTrace,        \* the move lastEffectTrace belongs to, or Null
  playbackRejected, \* a playback task failed and its handler has yet to run
  syncs,            \* projections appended to syncQueue and not yet started
  syncStep,         \* the bridge method the running projection awaits
  syncGot,          \* the state the running projection has read
  syncFailed,       \* syncQueue is rejected
  lifecycle,        \* the store's gameLifecycle
  view,             \* what the store shows
  commands,         \* how often the controls were used
  toWorker,         \* posted methods
  toMain            \* answers on their way back

controllerVars ==
  <<destroyed, currentMoveIndex, isPlaying, timer, operationToken, tasks, step,
    lastTrace, playbackRejected>>
projectionVars == <<syncStep, syncGot, syncFailed, lifecycle, view>>
replayVars == <<recording, controllerVars, syncs, projectionVars, commands,
                toWorker, toMain>>
vars == <<workerVars, replayVars>>

TaskKind == {"stepForward", "stepBackward", "jumpToMove", "playback"}
Task == [kind : TaskKind, index : Int]

ControllerMethod == {"init", "playSequence", "applyReplayMove"}
ProjectionMethod == {"getState", "publishMicroturn"}

\* A view names the states its parts were read from.
View == [state : GameState \cup {Null}, microturn : GameState \cup {Null},
         terminal : BOOLEAN, trace : Move \cup {Null}]
NoView ==
  [state |-> Null, microturn |-> Null, terminal |-> FALSE, trace |-> Null]

ViewOf(s, trace) ==
  [state |-> s, microturn |-> IF TerminalResult(s) THEN Null ELSE s,
   terminal |-> TerminalResult(s), trace |-> trace]

totalMoves == Len(recording.moves)
MoveIndex == -1..(totalMoves - 1)
AtEnd == currentMoveIndex >= totalMoves - 1

\* The game the recording had when its move number index had been applied.
RecordedState(index) == recording.states[index + 2]

\* Promise reactions run before the next event: a started projection, then
\* the next task of the controller's queue.
ProjectionDue == syncs > 0 /\ syncStep = "ready"
TaskDue == tasks # <<>> /\ step = "ready"
EventLoopFree == ~destroyed /\ ~ProjectionDue /\ ~TaskDue

-----------------------------------------------------------------------------
(* After the store's initGame: it took the stamp [1, 1], and the game is on *)
(* the screen unless the worker or the engine failed.                      *)

Init ==
  /\ recording \in Recordings
  /\ gameState \in {Null, InitialState(recording.start)}
  /\ history = <<>>
  /\ latestStamp = [epoch |-> 1, token |-> 1]
  /\ replayQueue = <<>>
  /\ fetches = {}
  /\ reply = IF gameState = Null THEN Reject("INTERNAL_ERROR") ELSE Ok(gameState)
  /\ destroyed = FALSE
  /\ currentMoveIndex = -1
  /\ isPlaying = FALSE
  /\ timer = FALSE
  /\ operationToken = 0
  /\ tasks = <<>>
  /\ step = "ready"
  /\ lastTrace = Null
  /\ playbackRejected = FALSE
  /\ syncs = 0
  /\ syncStep = "ready"
  /\ syncGot = Null
  /\ syncFailed = FALSE
  /\ IF gameState # Null
        /\ (TerminalResult(gameState) \/ LegalActions(gameState) # {})
     THEN /\ lifecycle = LifecycleFromTerminal(TerminalResult(gameState))
          /\ view = ViewOf(gameState, Null)
     ELSE lifecycle = "idle" /\ view = NoView
  /\ commands = 0
  /\ toWorker = <<>>
  /\ toMain = <<>>

-----------------------------------------------------------------------------
(* The controls.  play, pause and setSpeed act at once; the others queue a *)
(* task.                                                                   *)

Command ==
  /\ EventLoopFree
  /\ commands < MaxCommands
  /\ commands' = commands + 1
  /\ UNCHANGED <<workerVars, recording, destroyed, currentMoveIndex,
                 operationToken, step, lastTrace, playbackRejected,
                 projectionVars, toWorker, toMain>>

Enqueue(kind, index) ==
  /\ tasks' = Append(tasks, [kind |-> kind, index |-> index])
  /\ UNCHANGED <<isPlaying, syncs>>

\* Mutant of Emit: no projection is appended while one is running.
EmitWhenProjectionIdle(n) ==
  syncs' = IF syncStep = "ready" THEN syncs + n ELSE syncs

\* emitStateChange, n times: each appends a projection.
Emit(n) == syncs' = syncs + n

\* pauseInternal
PauseInternal ==
  IF isPlaying
  THEN isPlaying' = FALSE /\ timer' = FALSE /\ Emit(1)
  ELSE UNCHANGED <<isPlaying, timer, syncs>>

StepForward == Command /\ Enqueue("stepForward", 0) /\ UNCHANGED timer
StepBackward == Command /\ Enqueue("stepBackward", 0) /\ UNCHANGED timer

JumpToMove(index) ==
  /\ index \in MoveIndex
  /\ Command
  /\ Enqueue("jumpToMove", index)
  /\ UNCHANGED timer

Play ==
  /\ Command
  /\ IF isPlaying \/ AtEnd
     THEN UNCHANGED <<isPlaying, timer, syncs>>
     ELSE isPlaying' = TRUE /\ timer' = TRUE /\ Emit(1)
  /\ UNCHANGED tasks

Pause == Command /\ PauseInternal /\ UNCHANGED tasks

\* Mutant of SetSpeed: the running timer is cleared and not armed again.
SetSpeedDisarming ==
  /\ Command
  /\ timer' = FALSE
  /\ Emit(1)
  /\ UNCHANGED <<isPlaying, tasks>>

\* setSpeed emits, and a playback is scheduled anew, or paused at the end.
SetSpeed ==
  /\ Command
  /\ IF isPlaying /\ AtEnd
     THEN isPlaying' = FALSE /\ timer' = FALSE /\ Emit(2)
     ELSE timer' = isPlaying /\ Emit(1) /\ UNCHANGED isPlaying
  /\ UNCHANGED tasks

\* The timer of a playback goes off.
TimerFires ==
  /\ EventLoopFree
  /\ timer
  /\ timer' = FALSE
  /\ Enqueue("playback", 0)
  /\ UNCHANGED <<workerVars, recording, destroyed, currentMoveIndex,
                 operationToken, step, lastTrace, playbackRejected,
                 projectionVars, commands, toWorker, toMain>>

\* Leaving the screen destroys the controller and terminates the worker: what
\* is in flight never settles.
Destroy ==
  /\ EventLoopFree
  /\ destroyed' = TRUE
  /\ isPlaying' = FALSE
  /\ timer' = FALSE
  /\ toWorker' = <<>>
  /\ toMain' = <<>>
  /\ UNCHANGED <<workerVars, recording, currentMoveIndex, operationToken, tasks,
                 step, lastTrace, playbackRejected, syncs, projectionVars,
                 commands>>

-----------------------------------------------------------------------------
(* The controller's queue.                                                 *)

task == Head(tasks)

\* Where the running task leads.
TargetIndex ==
  CASE task.kind = "jumpToMove" -> task.index
    [] task.kind = "stepBackward" -> currentMoveIndex - 1
    [] OTHER -> currentMoveIndex + 1

\* Mutant of Skipped: a step back is not skipped at the initial state.
SkippedAtEndOnly ==
  \/ TargetIndex >= totalMoves
  \/ TargetIndex = currentMoveIndex
  \/ task.kind = "playback" /\ ~isPlaying

\* The task that is due turns out to have nothing to do.
Skipped ==
  \/ TargetIndex \notin MoveIndex
  \/ TargetIndex = currentMoveIndex
  \/ task.kind = "playback" /\ ~isPlaying

\* The landing move is applied on its own, with its trace.
TracesLanding == task.kind # "stepBackward" /\ TargetIndex >= 0

\* Mutant of Prefix: the move stepped back to is left out.
PrefixWithoutLanding == SubSeq(recording.moves, 1, TargetIndex)

\* The moves replayed without trace after a reset.
Prefix ==
  SubSeq(recording.moves, 1, IF TracesLanding THEN TargetIndex ELSE TargetIndex + 1)

\* Mutant of Post: one stamp serves a whole task.
PostReusingStamp(method) ==
  /\ operationToken' = IF step = "ready" THEN operationToken + 1 ELSE operationToken
  /\ step' = method
  /\ toWorker' = Append(toWorker, method)

\* A method of the bridge is called with nextStamp().
Post(method) ==
  /\ operationToken' = operationToken + 1
  /\ step' = method
  /\ toWorker' = Append(toWorker, method)

\* The next task starts.  A playback that finds no move left pauses; so does,
\* right after this task has started, the handler of a rejected playback.
RunTask ==
  /\ ~destroyed
  /\ TaskDue
  /\ ~ProjectionDue
  /\ IF Skipped
     THEN tasks' = Tail(tasks) /\ UNCHANGED <<step, operationToken, toWorker>>
     ELSE /\ Post(IF task.kind \in {"stepForward", "playback"}
                  THEN "applyReplayMove" ELSE "init")
          /\ UNCHANGED tasks
  /\ IF playbackRejected \/ (task.kind = "playback" /\ Skipped)
     THEN PauseInternal
     ELSE UNCHANGED <<isPlaying, timer, syncs>>
  /\ playbackRejected' = FALSE
  /\ UNCHANGED <<workerVars, recording, destroyed, currentMoveIndex, lastTrace,
                 projectionVars, commands, toMain>>

\* The method the running task calls when the one it awaits has returned.
NextMethod ==
  IF step = "init" /\ Prefix # <<>> THEN "playSequence"
  ELSE IF step # "applyReplayMove" /\ TracesLanding THEN "applyReplayMove"
  ELSE "ready"

\* The running task ends on its target and emits; a playback goes on if it is
\* still wanted and a move is left.
TaskLands ==
  /\ step' = "ready"
  /\ tasks' = Tail(tasks)
  /\ currentMoveIndex' = TargetIndex
  /\ lastTrace' = IF TracesLanding THEN recording.moves[TargetIndex + 1] ELSE Null
  /\ IF task.kind = "playback" /\ isPlaying
     THEN LET ends == TargetIndex = totalMoves - 1
          IN  /\ isPlaying' = ~ends
              /\ timer' = ~ends
              /\ Emit(IF ends THEN 2 ELSE 1)
     ELSE Emit(1) /\ UNCHANGED <<isPlaying, timer>>
  /\ UNCHANGED <<operationToken, playbackRejected, toWorker>>

\* Mutant of TaskFails: a rejected playback has no handler.
TaskFailsUnhandled ==
  /\ step' = "ready"
  /\ tasks' = Tail(tasks)
  /\ UNCHANGED <<currentMoveIndex, lastTrace, operationToken, toWorker,
                 playbackRejected, isPlaying, timer, syncs>>

\* A rejected task ends where it is.  The handler that pauses a playback runs
\* after the next task, if one is queued, has started.
TaskFails ==
  /\ step' = "ready"
  /\ tasks' = Tail(tasks)
  /\ playbackRejected' = (task.kind = "playback" /\ Tail(tasks) # <<>>)
  /\ IF task.kind = "playback" /\ Tail(tasks) = <<>>
     THEN PauseInternal
     ELSE UNCHANGED <<isPlaying, timer, syncs>>
  /\ UNCHANGED <<currentMoveIndex, lastTrace, operationToken, toWorker>>

ReceiveTaskReply ==
  /\ EventLoopFree
  /\ toMain # <<>>
  /\ Head(toMain).method \in ControllerMethod
  /\ \/ Head(toMain).result.code # "ok" /\ TaskFails
     \/ /\ Head(toMain).result.code = "ok"
        /\ NextMethod # "ready"
        /\ Post(NextMethod)
        /\ UNCHANGED <<tasks, currentMoveIndex, lastTrace, isPlaying, timer,
                       playbackRejected, syncs>>
     \/ Head(toMain).result.code = "ok" /\ NextMethod = "ready" /\ TaskLands
  /\ toMain' = Tail(toMain)
  /\ UNCHANGED <<workerVars, recording, destroyed, projectionVars, commands>>

-----------------------------------------------------------------------------
(* The worker.  The arguments of a request are those of the task that      *)
(* awaits it: neither can change until the answer is there.                *)

StampNow == [epoch |-> 1, token |-> operationToken]

Answer(method) ==
  IF reply'.code = "busy" THEN UNCHANGED <<toWorker, toMain>>
  ELSE /\ toWorker' = Tail(toWorker)
       /\ toMain' = Append(toMain, [method |-> method, result |-> reply'])

Serve ==
  /\ toWorker # <<>>
  /\ LET method == Head(toWorker)
     IN  /\ \/ method = "init" /\ InitWorker(recording.restart, StampNow)
            \/ method = "playSequence" /\ PlaySequence(Prefix, StampNow)
            \/ /\ method = "applyReplayMove"
               /\ WorkerApplyReplayMove(recording.moves[TargetIndex + 1], StampNow)
            \/ method \in ProjectionMethod /\ Read(method)
            \/ ReplayStep
         /\ Answer(method)
  /\ UNCHANGED <<recording, controllerVars, syncs, projectionVars, commands>>

-----------------------------------------------------------------------------
(* The projection of the worker's game onto the store.                     *)

\* The running projection throws and is caught by reportBootstrapFailure,
\* which itself throws where the lifecycle does not lead to idle: then the
\* queue is rejected, and every later projection is skipped.
ProjectionFails ==
  /\ syncStep' = "ready"
  /\ syncGot' = Null
  /\ IF "idle" \in AllowedLifecycleTransitions[lifecycle]
     THEN lifecycle' = "idle" /\ view' = NoView /\ syncFailed' = FALSE
     ELSE syncFailed' = TRUE /\ UNCHANGED <<lifecycle, view>>

\* hydrateFromReplayStep, with the trace the controller has by now.
HydrateFromReplayStep(state, microturn, terminal) ==
  LET next == LifecycleFromTerminal(terminal)
  IN  IF next \in AllowedLifecycleTransitions[lifecycle]
      THEN /\ lifecycle' = next
           /\ view' = [state |-> state, microturn |-> microturn,
                       terminal |-> terminal, trace |-> lastTrace]
           /\ syncStep' = "ready"
           /\ syncGot' = Null
           /\ UNCHANGED syncFailed
      ELSE ProjectionFails

\* The next projection starts: getState and terminalResult are posted together
\* and are one read.
RunProjection ==
  /\ ~destroyed
  /\ ProjectionDue
  /\ syncs' = syncs - 1
  /\ \/ syncFailed /\ ProjectionFails /\ UNCHANGED toWorker
     \/ /\ ~syncFailed
        /\ syncStep' = "getState"
        /\ toWorker' = Append(toWorker, "getState")
        /\ UNCHANGED <<syncGot, syncFailed, lifecycle, view>>
  /\ UNCHANGED <<workerVars, recording, controllerVars, commands, toMain>>

ReceiveProjectionReply ==
  /\ EventLoopFree
  /\ toMain # <<>>
  /\ Head(toMain).method \in ProjectionMethod
  /\ LET method == Head(toMain).method
         result == Head(toMain).result
     IN  \/ result.code # "ok" /\ ProjectionFails /\ UNCHANGED toWorker
         \/ /\ method = "getState" /\ result.code = "ok"
            /\ TerminalResult(result.value)
            /\ HydrateFromReplayStep(result.value, Null, TRUE)
            /\ UNCHANGED toWorker
         \/ /\ method = "getState" /\ result.code = "ok"
            /\ ~TerminalResult(result.value)
            /\ syncGot' = result.value
            /\ syncStep' = "publishMicroturn"
            /\ toWorker' = Append(toWorker, "publishMicroturn")
            /\ UNCHANGED <<syncFailed, lifecycle, view>>
         \/ /\ method = "publishMicroturn" /\ result.code = "ok"
            /\ HydrateFromReplayStep(syncGot, result.value, FALSE)
            /\ UNCHANGED toWorker
  /\ toMain' = Tail(toMain)
  /\ UNCHANGED <<workerVars, recording, controllerVars, syncs, commands>>

\* The canvas of the read-only screen crashes, and is mounted again, while a
\* replay goes on: reportCanvasCrash with beginCanvasRecovery, canvasRecovered.
CanvasCrash ==
  /\ EventLoopFree
  /\ lifecycle \in {"playing", "terminal"}
  /\ lifecycle' = "reinitializing"
  /\ UNCHANGED <<workerVars, recording, controllerVars, syncs, syncStep, syncGot,
                 syncFailed, view, commands, toWorker, toMain>>

CanvasRecovered ==
  /\ EventLoopFree
  /\ lifecycle = "reinitializing"
  /\ lifecycle' = LifecycleFromTerminal(view.terminal)
  /\ UNCHANGED <<workerVars, recording, controllerVars, syncs, syncStep, syncGot,
                 syncFailed, view, commands, toWorker, toMain>>

-----------------------------------------------------------------------------

Controls ==
  \/ StepForward
  \/ StepBackward
  \/ \E index \in MoveIndex : JumpToMove(index)
  \/ Play
  \/ Pause
  \/ SetSpeed
  \/ Destroy

\* The reactions and replies of the main thread's event loop.
EventLoop ==
  \/ RunTask
  \/ RunProjection
  \/ ReceiveTaskReply
  \/ ReceiveProjectionReply

Next ==
  \/ Controls
  \/ TimerFires
  \/ EventLoop
  \/ Serve
  \/ CanvasCrash
  \/ CanvasRecovered

Spec == Init /\ [][Next]_vars

\* The worker and the main thread keep taking messages, and a timer goes off.
\* Nothing forces the user, or the canvas, to do anything.
FairSpec ==
  /\ Spec
  /\ WF_vars(Serve)
  /\ WF_vars(EventLoop)
  /\ WF_vars(TimerFires)

-----------------------------------------------------------------------------
(* Properties.                                                             *)

\* The recording can be replayed: a reset yields the game it was recorded in,
\* and the engine takes every move again with the recorded result.
Replayable ==
  /\ recording.start = recording.restart
  /\ recording.states[1] = InitialState(recording.start)
  /\ \A i \in 1..totalMoves :
       /\ recording.moves[i] \in LegalMoves(recording.states[i])
       /\ recording.states[i + 1] = ApplyMove(recording.states[i], recording.moves[i])

\* Nothing is queued, running or on its way.
Quiet == tasks = <<>> /\ syncs = 0 /\ syncStep = "ready"

Answers == {toMain[i] : i \in 1..Len(toMain)}

\* The variables have their types; the index never leaves the recording.
ReplayTypeOK ==
  /\ WorkerTypeOK
  /\ recording \in Recordings
  /\ destroyed \in BOOLEAN
  /\ currentMoveIndex \in MoveIndex
  /\ isPlaying \in BOOLEAN
  /\ timer \in BOOLEAN
  /\ operationToken \in Nat
  /\ tasks \in Seq(Task)
  /\ step \in ControllerMethod \cup {"ready"}
  /\ lastTrace \in Move \cup {Null}
  /\ playbackRejected \in BOOLEAN
  /\ syncs \in Nat
  /\ syncStep \in ProjectionMethod \cup {"ready"}
  /\ syncGot \in GameState \cup {Null}
  /\ syncFailed \in BOOLEAN
  /\ lifecycle \in Lifecycle
  /\ view \in View
  /\ commands \in Nat
  /\ toWorker \in Seq(ControllerMethod \cup ProjectionMethod)
  /\ toMain \in Seq([method : ControllerMethod \cup ProjectionMethod, result : Reply])

\* The move counter never lies: whenever the controller is between two tasks
\* and the worker has a game, that game is the recorded one after exactly the
\* moves the index counts, and the trace kept for the animation, if any, is
\* the one of the move the index points at.  Steps, jumps, playback and their
\* failures may have been queued in any order.
IndexMatchesGame ==
  Replayable /\ step = "ready" =>
    /\ Initialized => gameState = RecordedState(currentMoveIndex)
    /\ lastTrace # Null =>
         currentMoveIndex >= 0 /\ lastTrace = recording.moves[currentMoveIndex + 1]

\* The worker turns down no request of the controller as stale but its very
\* first one, whose stamp the store's initGame has used up.
OnlyFirstStampIsStale ==
  \A answer \in Answers :
    answer.result.code = "STALE_OPERATION" => operationToken = 1

\* A playback goes on by itself and nothing else does: while it plays, its
\* timer runs or one of its moves is queued; when it is paused no timer runs.
PlaybackGoesOn ==
  /\ timer => isPlaying
  /\ isPlaying => \/ timer
                  \/ playbackRejected
                  \/ \E i \in 1..Len(tasks) : tasks[i].kind = "playback"

\* When a replayable game has come to rest the screen shows the game the
\* worker has, its published decision and the trace of the move that led
\* there, unless the projection failed or the game never came on the screen.
ProjectionSettles ==
  Quiet /\ Replayable /\ ~syncFailed /\ lifecycle # "idle" =>
    view = ViewOf(gameState, lastTrace)

\* Once the user lets go of the controls, a replay comes to rest: every queued
\* task ends, every projection is shown or has failed, and a playback stops.
ReplayComesToRest ==
  <>[](destroyed \/ (Quiet /\ ~isPlaying /\ toWorker = <<>> /\ toMain = <<>>))

\* What the acceptance tests of the controller ask for: a step forward from
\* the initial state of a replayable game is applied.
StepForwardAdvances ==
  [][Replayable /\ Initialized /\ tasks # <<>> /\ task.kind = "stepForward"
       /\ ~AtEnd /\ tasks' = Tail(tasks)
     => currentMoveIndex' = currentMoveIndex + 1]_vars

\* What the acceptance tests of the replay screen ask for: the rendered board
\* matches the replay index once everything queued has been done.
BoardMatchesIndex ==
  Quiet /\ Replayable /\ Initialized /\ lifecycle # "idle" =>
    view.state = RecordedState(currentMoveIndex)

=============================================================================
