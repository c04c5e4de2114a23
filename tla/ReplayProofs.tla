---------------------------- MODULE ReplayProofs ----------------------------
(***************************************************************************)
(* Proofs about Replay: for every game, every set of recordings and any    *)
(* use of the controls, the move counter matches the worker's game, and    *)
(* the first request of a replay moves nothing.                            *)
(***************************************************************************)
EXTENDS Replay, GameWorkerProofs

\* The running task has somewhere to go, and awaits a method of its kind.
TaskShape ==
  step # "ready" =>
    /\ tasks # <<>>
    /\ TargetIndex \in MoveIndex
    /\ step \in {"init", "playSequence"} =>
         task.kind \in {"stepBackward", "jumpToMove"}
    /\ step = "playSequence" => Prefix # <<>>
    /\ step = "applyReplayMove" => TracesLanding

\* The task's request waits for the worker, or its answer waits for the task.
Unserved == \E i \in 1..Len(toWorker) : toWorker[i] \in ControllerMethod
Answered == \E i \in 1..Len(toMain) : toMain[i].method \in ControllerMethod

\* There is at most one request of a task, and it is the one the task awaits.
\* While the worker is in the loop of playSequence it serves that request.
OneRequest ==
  /\ step = "ready" => ~Unserved /\ ~Answered
  /\ ~(Unserved /\ Answered)
  /\ \A i, j \in 1..Len(toWorker) :
       toWorker[i] \in ControllerMethod /\ toWorker[j] \in ControllerMethod => i = j
  /\ \A i, j \in 1..Len(toMain) :
       /\ toMain[i].method \in ControllerMethod
       /\ toMain[j].method \in ControllerMethod
       => i = j
  /\ \A i \in 1..Len(toWorker) :
       toWorker[i] \in ControllerMethod => toWorker[i] = step
  /\ \A i \in 1..Len(toMain) :
       toMain[i].method \in ControllerMethod => toMain[i].method = step
  /\ ~Available /\ ~destroyed =>
       toWorker # <<>> /\ Head(toWorker) = "playSequence"
  /\ destroyed => toWorker = <<>>

\* The second mutation of a task, which the first one's stamp precedes.
SecondMutation ==
  step = "playSequence" \/ (step = "applyReplayMove" /\ task.kind = "jumpToMove")

\* The worker knows no stamp the controller has yet to use, and a request it
\* has not taken up brings a new one unless it is the very first.
StampsInStep ==
  /\ latestStamp \in Stamp
  /\ latestStamp.epoch = 1
  /\ latestStamp.token <= operationToken \/ latestStamp.token = 1
  /\ step # "ready" => operationToken >= 1
  /\ step # "ready" /\ SecondMutation => operationToken >= 2
  /\ Unserved /\ Available /\ operationToken >= 2 =>
       latestStamp.token < operationToken
  /\ \A i \in 1..Len(toMain) :
       toMain[i].result.code = "STALE_OPERATION" =>
         toMain[i].method \in ControllerMethod /\ operationToken = 1

\* Where the recorded game is before, and after, the awaited method.
BeforeIndex ==
  IF step = "init" THEN currentMoveIndex
  ELSE IF step = "playSequence" THEN -1 ELSE TargetIndex - 1
AfterIndex ==
  IF step = "init" THEN -1
  ELSE IF step = "playSequence" THEN Len(Prefix) - 1 ELSE TargetIndex

\* How far the loop of playSequence has come: n moves are applied.
LoopAt(n) ==
  /\ n \in 0..(Len(Prefix) - 1)
  /\ replayQueue = SubSeq(Prefix, n + 1, Len(Prefix))
  /\ gameState = RecordedState(n - 1)

\* The worker's game keeps step with the running task.
GameInStep ==
  Replayable =>
    /\ step = "ready" /\ Initialized => gameState = RecordedState(currentMoveIndex)
    /\ Unserved /\ Available =>
         /\ Initialized => gameState = RecordedState(BeforeIndex)
         /\ SecondMutation => Initialized
    /\ ~Available /\ ~destroyed => \E n \in Nat : LoopAt(n)
    /\ \A i \in 1..Len(toMain) :
         toMain[i].method \in ControllerMethod =>
           IF toMain[i].result.code = "ok"
           THEN Initialized /\ gameState = RecordedState(AfterIndex)
           ELSE Initialized => gameState = RecordedState(currentMoveIndex)

\* The trace kept for the animation is that of the move the index points at.
TraceInStep ==
  lastTrace # Null =>
    currentMoveIndex >= 0 /\ lastTrace = recording.moves[currentMoveIndex + 1]

\* The handler of a rejected playback only waits between two tasks.
RejectedIsHandled == playbackRejected => step = "ready"

\* The inductive invariant.
ReplayInv ==
  /\ ReplayTypeOK
  /\ TaskShape
  /\ OneRequest
  /\ StampsInStep
  /\ GameInStep
  /\ TraceInStep
  /\ RejectedIsHandled
  /\ PlaybackGoesOn

-----------------------------------------------------------------------------
(* The running task.                                                       *)

\* What a recording holds.
LEMMA RecordingFacts ==
  ASSUME ReplayTypeOK
  PROVE  /\ recording.moves \in Seq(Move) /\ recording.states \in Seq(GameState)
         /\ recording.start \in Seed /\ recording.restart \in Seed
         /\ totalMoves \in Nat /\ Len(recording.states) = totalMoves + 1
         /\ \A n \in 1..totalMoves : SubSeq(recording.moves, 1, n) \in Histories
         /\ \A i \in MoveIndex : i \in Int /\ RecordedState(i) \in GameState
         /\ \A i \in MoveIndex : i >= 0 => recording.moves[i + 1] \in Move
<1>1. /\ recording \in [moves : Seq(Move), states : Seq(GameState),
                        start : Seed, restart : Seed]
      /\ Len(recording.states) = Len(recording.moves) + 1
      /\ \A n \in 1..Len(recording.moves) : SubSeq(recording.moves, 1, n) \in Histories
  BY ReplayAssumption DEF ReplayTypeOK
<1>2. /\ recording.moves \in Seq(Move) /\ recording.states \in Seq(GameState)
      /\ recording.start \in Seed /\ recording.restart \in Seed
      /\ totalMoves \in Nat
  BY <1>1 DEF totalMoves
<1>3. ASSUME NEW i \in MoveIndex
      PROVE  /\ i \in Int /\ RecordedState(i) \in GameState
             /\ i >= 0 => recording.moves[i + 1] \in Move
  BY <1>1, <1>2, <1>3 DEF MoveIndex, RecordedState, totalMoves
<1> QED BY <1>1, <1>2, <1>3 DEF totalMoves

\* What is replayed without trace is the beginning of the recorded moves, as
\* long as it ends before the landing move or with the target.
LEMMA PrefixFacts ==
  ASSUME ReplayTypeOK, tasks # <<>>, TargetIndex \in MoveIndex
  PROVE  /\ Prefix \in Seq(Move)
         /\ Len(Prefix) = IF TracesLanding THEN TargetIndex ELSE TargetIndex + 1
         /\ Len(Prefix) \in 0..totalMoves
         /\ \A i \in 1..Len(Prefix) : Prefix[i] = recording.moves[i]
         /\ Prefix # <<>> => Prefix \in Histories
<1> DEFINE n == IF TracesLanding THEN TargetIndex ELSE TargetIndex + 1
<1>1. n \in 0..totalMoves
  BY RecordingFacts DEF TracesLanding, MoveIndex
<1>2. recording.moves \in Seq(Move) /\ totalMoves = Len(recording.moves)
  BY RecordingFacts DEF totalMoves
<1>3. Prefix = SubSeq(recording.moves, 1, n)
  BY DEF Prefix
<1> HIDE DEF n
<1>4. /\ Prefix \in Seq(Move) /\ Len(Prefix) = n
      /\ \A i \in 1..n : Prefix[i] = recording.moves[i]
  BY <1>1, <1>2, <1>3
<1>5. Prefix # <<>> => Prefix \in Histories
  BY <1>1, <1>3, <1>4, RecordingFacts
<1> QED BY <1>1, <1>4, <1>5 DEF n

\* The running task is a task.
LEMMA RunningTask ==
  ASSUME ReplayTypeOK, tasks # <<>>
  PROVE  task \in Task /\ task.kind \in TaskKind /\ Tail(tasks) \in Seq(Task)
<1>1. task \in Task /\ Tail(tasks) \in Seq(Task)
  BY DEF ReplayTypeOK, task
<1> QED BY <1>1 DEF Task

\* A task that goes on is the same task.
LEMMA SameTask ==
  ASSUME tasks # <<>>, tasks' # <<>>, Head(tasks') = Head(tasks),
         UNCHANGED <<recording, currentMoveIndex>>
  PROVE  /\ task' = task /\ TargetIndex' = TargetIndex
         /\ TracesLanding' = TracesLanding /\ Prefix' = Prefix
         /\ MoveIndex' = MoveIndex
BY DEF task, TargetIndex, TracesLanding, Prefix, MoveIndex, totalMoves

\* The recorded states are those of the same recording.
LEMMA SameRecording ==
  ASSUME UNCHANGED recording
  PROVE  /\ Replayable' = Replayable /\ MoveIndex' = MoveIndex
         /\ totalMoves' = totalMoves
BY DEF Replayable, MoveIndex, totalMoves

-----------------------------------------------------------------------------
(* Steps that leave the worker and the running task alone.                 *)

\* Nothing the task or its request depends on changes: a control is used, a
\* timer goes off, a projection starts, ends or fails.
AsideStep ==
  /\ UNCHANGED <<gameState, latestStamp, replayQueue, reply, recording,
                 currentMoveIndex, operationToken, step, lastTrace>>
  /\ step # "ready" /\ tasks # <<>> => tasks' # <<>> /\ Head(tasks') = Head(tasks)
  /\ \/ /\ destroyed' = destroyed
        /\ \/ toWorker' = toWorker
           \/ ~destroyed /\ \E m \in ProjectionMethod : toWorker' = Append(toWorker, m)
        /\ \/ toMain' = toMain
           \/ toMain # <<>> /\ toMain' = Tail(toMain)
     \/ destroyed' /\ toWorker' = <<>> /\ toMain' = <<>>

\* A step aside of the task adds no request of a task and takes at most the
\* first answer.
LEMMA AsideChannel ==
  ASSUME ReplayTypeOK, AsideStep
  PROVE  /\ Len(toWorker') \in Nat /\ Len(toMain') \in Nat
         /\ \A i \in 1..Len(toWorker') :
              toWorker'[i] \in ControllerMethod =>
                i \in 1..Len(toWorker) /\ toWorker[i] = toWorker'[i]
         /\ \E k \in {0, 1} : \A i \in 1..Len(toMain') :
              i + k \in 1..Len(toMain) /\ toMain[i + k] = toMain'[i]
         /\ ~destroyed' /\ toWorker # <<>> =>
              toWorker' # <<>> /\ Head(toWorker') = Head(toWorker)
         /\ destroyed' => toWorker' = <<>> \/ (destroyed /\ toWorker' = toWorker)
<1> DEFINE Message == [method : ControllerMethod \cup ProjectionMethod, result : Reply]
<1>1. /\ toWorker \in Seq(ControllerMethod \cup ProjectionMethod)
      /\ toMain \in Seq(Message)
  BY DEF ReplayTypeOK
<1> HIDE DEF Message
<1>2. \A m \in ProjectionMethod : m \notin ControllerMethod
  BY DEF ProjectionMethod, ControllerMethod
<1>3. /\ Len(toWorker') \in Nat
      /\ \A i \in 1..Len(toWorker') :
           toWorker'[i] \in ControllerMethod =>
             i \in 1..Len(toWorker) /\ toWorker[i] = toWorker'[i]
      /\ ~destroyed' /\ toWorker # <<>> =>
           toWorker' # <<>> /\ Head(toWorker') = Head(toWorker)
  <2>1. CASE toWorker' = toWorker
    BY <1>1, <2>1
  <2>2. CASE toWorker' = <<>> /\ destroyed'
    BY <2>2
  <2>3. ASSUME NEW m \in ProjectionMethod, toWorker' = Append(toWorker, m)
        PROVE  /\ Len(toWorker') \in Nat
               /\ \A i \in 1..Len(toWorker') :
                    toWorker'[i] \in ControllerMethod =>
                      i \in 1..Len(toWorker) /\ toWorker[i] = toWorker'[i]
               /\ toWorker # <<>> =>
                    toWorker' # <<>> /\ Head(toWorker') = Head(toWorker)
    BY <1>1, <1>2, <2>3
  <2> QED BY <2>1, <2>2, <2>3 DEF AsideStep
<1>4. /\ Len(toMain') \in Nat
      /\ \E k \in {0, 1} : \A i \in 1..Len(toMain') :
           i + k \in 1..Len(toMain) /\ toMain[i + k] = toMain'[i]
  <2>1. CASE toMain' = toMain
    BY <1>1, <2>1
  <2>2. CASE toMain' = <<>>
    BY <2>2
  <2>3. CASE toMain # <<>> /\ toMain' = Tail(toMain)
    BY <1>1, <2>3
  <2> QED BY <2>1, <2>2, <2>3 DEF AsideStep
<1>5. destroyed' => toWorker' = <<>> \/ (destroyed /\ toWorker' = toWorker)
  <2>1. CASE toWorker' = toWorker /\ destroyed' = destroyed
    BY <2>1
  <2>2. CASE ~destroyed /\ destroyed' = destroyed
    BY <2>2
  <2>3. CASE toWorker' = <<>>
    BY <2>3
  <2> QED BY <2>1, <2>2, <2>3 DEF AsideStep
<1> QED BY <1>3, <1>4, <1>5

\* Such a step keeps everything about the task, its request and the game.
LEMMA AsideStepKeepsPace ==
  ASSUME ReplayInv, AsideStep
  PROVE  TaskShape' /\ OneRequest' /\ StampsInStep' /\ GameInStep' /\ TraceInStep'
<1>1. /\ UNCHANGED <<gameState, latestStamp, replayQueue, reply, recording,
                     currentMoveIndex, operationToken, step, lastTrace>>
      /\ destroyed => destroyed'
  BY DEF AsideStep
<1>2. /\ Available' = Available /\ Initialized' = Initialized
      /\ Replayable' = Replayable /\ MoveIndex' = MoveIndex
  BY <1>1, SameRecording DEF Available, Initialized
<1>3. step # "ready" => tasks # <<>>
  BY DEF ReplayInv, TaskShape
<1>4. step # "ready" => /\ tasks' # <<>> /\ task' = task
                        /\ TargetIndex' = TargetIndex
                        /\ TracesLanding' = TracesLanding /\ Prefix' = Prefix
  BY <1>1, <1>3, SameTask DEF AsideStep
<1>5. /\ Unserved' => Unserved
      /\ Answered' => Answered
  BY AsideChannel DEF Unserved, Answered, ReplayInv
<1>6. TaskShape'
  BY <1>1, <1>2, <1>4 DEF ReplayInv, TaskShape
<1>7. OneRequest'
  <2>1. ASSUME NEW i \in 1..Len(toWorker'), NEW j \in 1..Len(toWorker'),
               toWorker'[i] \in ControllerMethod, toWorker'[j] \in ControllerMethod
        PROVE  i = j
    <3>1. /\ i \in 1..Len(toWorker) /\ toWorker[i] \in ControllerMethod
          /\ j \in 1..Len(toWorker) /\ toWorker[j] \in ControllerMethod
      BY <2>1, AsideChannel DEF ReplayInv
    <3> QED BY <3>1 DEF ReplayInv, OneRequest
  <2>2. ASSUME NEW i \in 1..Len(toMain'), NEW j \in 1..Len(toMain'),
               toMain'[i].method \in ControllerMethod,
               toMain'[j].method \in ControllerMethod
        PROVE  i = j
    <3>1. PICK k \in {0, 1} : \A n \in 1..Len(toMain') :
            n + k \in 1..Len(toMain) /\ toMain[n + k] = toMain'[n]
      BY AsideChannel DEF ReplayInv
    <3>2. /\ i + k \in 1..Len(toMain) /\ toMain[i + k].method \in ControllerMethod
          /\ j + k \in 1..Len(toMain) /\ toMain[j + k].method \in ControllerMethod
      BY <2>2, <3>1
    <3>3. i + k = j + k
      BY <3>2 DEF ReplayInv, OneRequest
    <3> QED BY <3>3
  <2>3. /\ \A i \in 1..Len(toWorker') :
             toWorker'[i] \in ControllerMethod => toWorker'[i] = step'
        /\ \A i \in 1..Len(toMain') :
             toMain'[i].method \in ControllerMethod => toMain'[i].method = step'
    BY <1>1, AsideChannel DEF ReplayInv, OneRequest
  <2>4. ~Available' /\ ~destroyed' =>
          toWorker' # <<>> /\ Head(toWorker') = "playSequence"
    BY <1>1, <1>2, AsideChannel DEF ReplayInv, OneRequest
  <2>5. /\ step' = "ready" => ~Unserved' /\ ~Answered'
        /\ ~(Unserved' /\ Answered')
    BY <1>1, <1>5 DEF ReplayInv, OneRequest
  <2>6. destroyed' => toWorker' = <<>>
    BY AsideChannel DEF ReplayInv, OneRequest
  <2> QED BY <2>1, <2>2, <2>3, <2>4, <2>5, <2>6 DEF OneRequest
<1>8. StampsInStep'
  BY <1>1, <1>2, <1>4, <1>5, AsideChannel
     DEF ReplayInv, StampsInStep, SecondMutation
<1>9. GameInStep'
  <2> SUFFICES ASSUME Replayable PROVE GameInStep'
    BY <1>2 DEF GameInStep
  <2>1. /\ step # "ready" => BeforeIndex' = BeforeIndex /\ AfterIndex' = AfterIndex
        /\ step # "ready" => SecondMutation' = SecondMutation
    BY <1>1, <1>4 DEF BeforeIndex, AfterIndex, SecondMutation
  <2>2. \A i : RecordedState(i)' = RecordedState(i)
    BY <1>1 DEF RecordedState
  <2>3. Unserved \/ Answered => step # "ready"
    BY DEF ReplayInv, OneRequest
  <2>4. ~Available /\ ~destroyed => step = "playSequence"
    <3> SUFFICES ASSUME ~Available, ~destroyed PROVE step = "playSequence"
      OBVIOUS
    <3>1. toWorker # <<>> /\ Head(toWorker) = "playSequence"
      BY DEF ReplayInv, OneRequest
    <3>2. 1 \in 1..Len(toWorker) /\ toWorker[1] = "playSequence"
      BY <3>1 DEF ReplayInv, ReplayTypeOK
    <3> QED BY <3>2 DEF ReplayInv, OneRequest, ControllerMethod
  <2>5. step' = "ready" /\ Initialized' =>
          gameState' = RecordedState(currentMoveIndex)'
    BY <1>1, <1>2, <2>2 DEF ReplayInv, GameInStep
  <2>6. Unserved' /\ Available' =>
          /\ Initialized' => gameState' = RecordedState(BeforeIndex)'
          /\ SecondMutation' => Initialized'
    BY <1>1, <1>2, <1>5, <2>1, <2>2, <2>3
       DEF ReplayInv, GameInStep, RecordedState
  <2>7. ~Available' /\ ~destroyed' => \E n \in Nat : LoopAt(n)'
    BY <1>1, <1>2, <1>4, <2>4 DEF ReplayInv, GameInStep, LoopAt, RecordedState
  <2>8. ASSUME NEW i \in 1..Len(toMain'),
               toMain'[i].method \in ControllerMethod
        PROVE  IF toMain'[i].result.code = "ok"
               THEN Initialized' /\ gameState' = RecordedState(AfterIndex)'
               ELSE Initialized' => gameState' = RecordedState(currentMoveIndex)'
    <3>1. PICK j \in 1..Len(toMain) : toMain[j] = toMain'[i]
      BY <2>8, AsideChannel DEF ReplayInv
    <3>2. step # "ready"
      BY <2>3, <2>8, <3>1 DEF Answered
    <3> QED BY <1>1, <1>2, <2>1, <2>2, <2>8, <3>1, <3>2
            DEF ReplayInv, GameInStep, RecordedState
  <2> QED BY <2>5, <2>6, <2>7, <2>8 DEF GameInStep
<1>10. TraceInStep'
  BY <1>1 DEF ReplayInv, TraceInStep
<1> QED BY <1>6, <1>7, <1>8, <1>9, <1>10

\* Which steps those are.
LEMMA AsideSteps ==
  ASSUME ReplayInv,
         \/ Controls \/ TimerFires \/ CanvasCrash \/ CanvasRecovered
         \/ RunProjection \/ ReceiveProjectionReply \/ UNCHANGED vars
  PROVE  AsideStep
<1>0. tasks \in Seq(Task)
  BY DEF ReplayInv, ReplayTypeOK
<1>1. ASSUME NEW kind \in TaskKind, NEW index \in Int, Enqueue(kind, index)
      PROVE  tasks # <<>> => tasks' # <<>> /\ Head(tasks') = Head(tasks)
  <2> DEFINE t == [kind |-> kind, index |-> index]
  <2>1. t \in Task /\ tasks' = Append(tasks, t)
    BY <1>1 DEF Enqueue, Task
  <2> HIDE DEF t
  <2> QED BY <1>0, <2>1
<1>2. CASE Controls
  <2>1. CASE StepForward \/ StepBackward \/ \E index \in MoveIndex : JumpToMove(index)
    <3>1. /\ Command
          /\ \E kind \in TaskKind, index \in Int : Enqueue(kind, index)
      BY <2>1, RecordingFacts
         DEF StepForward, StepBackward, JumpToMove, TaskKind, ReplayInv
    <3> QED BY <3>1, <1>1 DEF Command, AsideStep, workerVars, projectionVars
  <2>2. CASE Play \/ Pause \/ SetSpeed
    BY <2>2 DEF Play, Pause, SetSpeed, Command, AsideStep, workerVars
  <2>3. CASE Destroy
    BY <2>3 DEF Destroy, AsideStep, workerVars
  <2> QED BY <1>2, <2>1, <2>2, <2>3 DEF Controls
<1>3. CASE TimerFires
  <2>1. Enqueue("playback", 0) /\ "playback" \in TaskKind /\ 0 \in Int
    BY <1>3 DEF TimerFires, TaskKind
  <2>2. tasks # <<>> => tasks' # <<>> /\ Head(tasks') = Head(tasks)
    BY <1>1, <2>1
  <2> QED BY <1>3, <2>2 DEF TimerFires, AsideStep, workerVars
<1>4. CASE CanvasCrash \/ CanvasRecovered
  BY <1>4 DEF CanvasCrash, CanvasRecovered, AsideStep, workerVars, controllerVars
<1>5. CASE RunProjection
  BY <1>5 DEF RunProjection, AsideStep, workerVars, controllerVars,
              ProjectionMethod
<1>6. CASE ReceiveProjectionReply
  <2>1. /\ UNCHANGED <<workerVars, recording, controllerVars>>
        /\ toMain # <<>> /\ toMain' = Tail(toMain)
    BY <1>6 DEF ReceiveProjectionReply
  <2>2. toWorker' = toWorker \/ toWorker' = Append(toWorker, "publishMicroturn")
    BY <1>6 DEF ReceiveProjectionReply
  <2>3. ~destroyed
    BY <1>6 DEF ReceiveProjectionReply, EventLoopFree
  <2> QED BY <2>1, <2>2, <2>3
          DEF AsideStep, workerVars, controllerVars, ProjectionMethod
<1>7. CASE UNCHANGED vars
  BY <1>7 DEF vars, workerVars, replayVars, controllerVars, AsideStep
<1> QED BY <1>2, <1>3, <1>4, <1>5, <1>6, <1>7

-----------------------------------------------------------------------------
(* Type correctness.                                                       *)

\* The worker's variables keep their types with their values.
LEMMA SameWorkerTypeOK ==
  ASSUME WorkerTypeOK, UNCHANGED workerVars
  PROVE  WorkerTypeOK'
BY DEF workerVars, WorkerTypeOK, Available, Initialized

\* A control that queues a task, or the timer, keeps every type.
LEMMA EnqueueTypeOK ==
  ASSUME ReplayTypeOK, NEW kind \in TaskKind, NEW index \in Int,
         Enqueue(kind, index), timer' \in BOOLEAN, commands' \in Nat,
         UNCHANGED <<workerVars, recording, destroyed, currentMoveIndex,
                     operationToken, step, lastTrace, playbackRejected,
                     projectionVars, toWorker, toMain>>
  PROVE  ReplayTypeOK'
<1>1. [kind |-> kind, index |-> index] \in Task
  BY DEF Task
<1>2. tasks' \in Seq(Task) /\ UNCHANGED <<isPlaying, syncs>>
  BY <1>1 DEF Enqueue, ReplayTypeOK
<1> QED BY <1>2, SameWorkerTypeOK, SameRecording DEF ReplayTypeOK, projectionVars

\* The other controls keep every type.
LEMMA ControlTypeOK ==
  ASSUME ReplayInv, Controls
  PROVE  ReplayTypeOK'
<1>1. CASE StepForward \/ StepBackward \/ \E index \in MoveIndex : JumpToMove(index)
  <2>1. /\ Command /\ UNCHANGED timer
        /\ \E kind \in TaskKind, index \in Int : Enqueue(kind, index)
    BY <1>1, RecordingFacts
       DEF StepForward, StepBackward, JumpToMove, TaskKind, ReplayInv
  <2> QED BY <2>1, EnqueueTypeOK DEF Command, ReplayInv, ReplayTypeOK
<1>2. CASE Play \/ Pause \/ SetSpeed
  <2>1. Command /\ UNCHANGED tasks
    BY <1>2 DEF Play, Pause, SetSpeed
  <2>2. isPlaying' \in BOOLEAN /\ timer' \in BOOLEAN /\ syncs' \in Nat
    <3>1. isPlaying \in BOOLEAN /\ timer \in BOOLEAN /\ syncs \in Nat
      BY DEF ReplayInv, ReplayTypeOK
    <3>2. isPlaying' = isPlaying \/ isPlaying' = TRUE \/ isPlaying' = FALSE
      BY <1>2 DEF Play, Pause, SetSpeed, PauseInternal
    <3>3. timer' \in {timer, isPlaying, TRUE, FALSE}
      BY <1>2 DEF Play, Pause, SetSpeed, PauseInternal
    <3>4. syncs' = syncs \/ Emit(1) \/ Emit(2)
      BY <1>2 DEF Play, Pause, SetSpeed, PauseInternal
    <3>5. syncs' \in Nat
      BY <3>1, <3>4 DEF Emit
    <3> QED BY <3>1, <3>2, <3>3, <3>5
  <2> QED BY <2>1, <2>2, SameWorkerTypeOK, SameRecording
          DEF Command, ReplayInv, ReplayTypeOK, projectionVars
<1>3. CASE Destroy
  <2>1. toWorker' \in Seq(ControllerMethod \cup ProjectionMethod)
    BY <1>3 DEF Destroy
  <2>2. toMain' \in Seq([method : ControllerMethod \cup ProjectionMethod, result : Reply])
    BY <1>3 DEF Destroy
  <2> QED BY <1>3, <2>1, <2>2, SameWorkerTypeOK, SameRecording
          DEF Destroy, ReplayInv, ReplayTypeOK, projectionVars
<1> QED BY <1>1, <1>2, <1>3 DEF Controls

\* Answers, and what is left when the first one is taken.
Message == [method : ControllerMethod \cup ProjectionMethod, result : Reply]

\* The first answer and those behind it
LEMMA FirstAnswer ==
  ASSUME ReplayTypeOK, toMain # <<>>
  PROVE  /\ Head(toMain) = toMain[1] /\ Head(toMain) \in Message
         /\ Len(toMain) \in Nat \ {0} /\ 1 \in 1..Len(toMain)
         /\ Tail(toMain) \in Seq(Message) /\ Len(Tail(toMain)) = Len(toMain) - 1
         /\ \A i \in 1..Len(Tail(toMain)) :
              i + 1 \in 1..Len(toMain) /\ Tail(toMain)[i] = toMain[i + 1]
<1>1. toMain \in Seq(Message)
  BY DEF ReplayTypeOK, Message
<1> QED BY <1>1

\* The steps of the projection keep every type.
LEMMA HydrateTypeOK ==
  ASSUME ReplayTypeOK,
         \/ ProjectionFails
         \/ \E state, microturn \in GameState \cup {Null}, terminal \in BOOLEAN :
              HydrateFromReplayStep(state, microturn, terminal),
         UNCHANGED lastTrace
  PROVE  /\ syncStep' \in ProjectionMethod \cup {"ready"}
         /\ syncGot' \in GameState \cup {Null} /\ syncFailed' \in BOOLEAN
         /\ lifecycle' \in Lifecycle /\ view' \in View
<1>1. CASE ProjectionFails
  <2>1. syncStep' = "ready" /\ syncGot' = Null
    BY <1>1 DEF ProjectionFails
  <2>2. /\ syncFailed' \in BOOLEAN
        /\ lifecycle' = lifecycle \/ lifecycle' = "idle"
        /\ view' = view \/ view' = NoView
    BY <1>1 DEF ProjectionFails
  <2>3. NoView \in View
    BY DEF NoView, View
  <2> QED BY <2>1, <2>2, <2>3 DEF ReplayTypeOK, Lifecycle
<1>2. ASSUME NEW state \in GameState \cup {Null},
             NEW microturn \in GameState \cup {Null}, NEW terminal \in BOOLEAN,
             HydrateFromReplayStep(state, microturn, terminal), ~ProjectionFails
      PROVE  /\ syncStep' \in ProjectionMethod \cup {"ready"}
             /\ syncGot' \in GameState \cup {Null} /\ syncFailed' \in BOOLEAN
             /\ lifecycle' \in Lifecycle /\ view' \in View
  BY <1>2 DEF HydrateFromReplayStep, ReplayTypeOK, Lifecycle, View,
              LifecycleFromTerminal
<1> QED BY <1>1, <1>2

\* The projection and the canvas keep the types.
LEMMA ProjectionTypeOK ==
  ASSUME ReplayInv,
         RunProjection \/ ReceiveProjectionReply \/ CanvasCrash \/ CanvasRecovered
  PROVE  ReplayTypeOK'
<1> USE DEF ReplayInv
<1>1. CASE RunProjection
  <2>1. UNCHANGED <<workerVars, recording, controllerVars, commands, toMain>>
    BY <1>1 DEF RunProjection
  <2>2. syncs' \in Nat
    BY <1>1 DEF RunProjection, ProjectionDue, ReplayTypeOK
  <2>3. /\ syncStep' \in ProjectionMethod \cup {"ready"}
        /\ syncGot' \in GameState \cup {Null} /\ syncFailed' \in BOOLEAN
        /\ lifecycle' \in Lifecycle /\ view' \in View
    <3>1. CASE ProjectionFails
      BY <2>1, <3>1, HydrateTypeOK DEF controllerVars
    <3>2. CASE ~ProjectionFails
      BY <1>1, <3>2 DEF RunProjection, ReplayTypeOK, ProjectionMethod
    <3> QED BY <3>1, <3>2
  <2>4. toWorker' \in Seq(ControllerMethod \cup ProjectionMethod)
    BY <1>1 DEF RunProjection, ReplayTypeOK, ProjectionMethod
  <2> QED BY <2>1, <2>2, <2>3, <2>4, SameWorkerTypeOK, SameRecording
          DEF ReplayTypeOK, controllerVars
<1>2. CASE ReceiveProjectionReply
  <2> DEFINE result == Head(toMain).result
  <2>1. /\ UNCHANGED <<workerVars, recording, controllerVars, syncs, commands>>
        /\ toMain # <<>> /\ toMain' = Tail(toMain)
    BY <1>2 DEF ReceiveProjectionReply
  <2>2. /\ toMain' \in Seq([method : ControllerMethod \cup ProjectionMethod,
                            result : Reply])
        /\ Head(toMain) \in [method : ControllerMethod \cup ProjectionMethod,
                             result : Reply]
    BY <2>1, FirstAnswer DEF Message
  <2>3. result.value \in GameState \cup {Null}
    BY <2>2 DEF Reply
  <2> HIDE DEF result
  <2>4. toWorker' \in Seq(ControllerMethod \cup ProjectionMethod)
    <3>1. toWorker' = toWorker \/ toWorker' = Append(toWorker, "publishMicroturn")
      BY <1>2 DEF ReceiveProjectionReply
    <3> QED BY <3>1 DEF ReplayTypeOK, ProjectionMethod
  <2>5. /\ syncStep' \in ProjectionMethod \cup {"ready"}
        /\ syncGot' \in GameState \cup {Null} /\ syncFailed' \in BOOLEAN
        /\ lifecycle' \in Lifecycle /\ view' \in View
    <3>1. \/ ProjectionFails
          \/ HydrateFromReplayStep(result.value, Null, TRUE)
          \/ /\ syncGot' = result.value /\ syncStep' = "publishMicroturn"
             /\ UNCHANGED <<syncFailed, lifecycle, view>>
          \/ HydrateFromReplayStep(syncGot, result.value, FALSE)
      BY <1>2 DEF ReceiveProjectionReply, result
    <3>2. syncGot \in GameState \cup {Null}
      BY DEF ReplayTypeOK
    <3>3. CASE /\ syncGot' = result.value /\ syncStep' = "publishMicroturn"
               /\ UNCHANGED <<syncFailed, lifecycle, view>>
      BY <2>3, <3>3 DEF ReplayTypeOK, ProjectionMethod
    <3> QED BY <2>1, <2>3, <3>1, <3>2, <3>3, HydrateTypeOK DEF controllerVars
  <2> QED BY <2>1, <2>2, <2>4, <2>5, SameWorkerTypeOK, SameRecording
          DEF ReplayTypeOK, controllerVars
<1>3. CASE CanvasCrash \/ CanvasRecovered
  <2>1. /\ UNCHANGED <<workerVars, recording, controllerVars, syncs, syncStep,
                       syncGot, syncFailed, view, commands, toWorker, toMain>>
        /\ lifecycle' \in Lifecycle
    BY <1>3 DEF CanvasCrash, CanvasRecovered, Lifecycle, LifecycleFromTerminal
  <2> QED BY <2>1, SameWorkerTypeOK, SameRecording DEF ReplayTypeOK, controllerVars
<1> QED BY <1>1, <1>2, <1>3

\* Pausing, or not, keeps the types of what it assigns.
LEMMA PauseTypeOK ==
  ASSUME ReplayTypeOK, PauseInternal \/ UNCHANGED <<isPlaying, timer, syncs>>
  PROVE  isPlaying' \in BOOLEAN /\ timer' \in BOOLEAN /\ syncs' \in Nat
<1>1. CASE UNCHANGED <<isPlaying, timer, syncs>>
  BY <1>1 DEF ReplayTypeOK
<1>2. CASE isPlaying' = FALSE /\ timer' = FALSE /\ Emit(1)
  <2>1. syncs' \in Nat
    BY <1>2 DEF Emit, ReplayTypeOK
  <2> QED BY <1>2, <2>1
<1> QED BY <1>1, <1>2 DEF PauseInternal

\* The steps of the task queue keep every type.
LEMMA RunTaskTypeOK ==
  ASSUME ReplayInv, RunTask
  PROVE  ReplayTypeOK'
<1> USE DEF ReplayInv
<1>1. /\ UNCHANGED <<workerVars, recording, destroyed, currentMoveIndex, lastTrace,
                     projectionVars, commands, toMain>>
      /\ playbackRejected' = FALSE /\ tasks # <<>>
  BY DEF RunTask, TaskDue
<1>2. isPlaying' \in BOOLEAN /\ timer' \in BOOLEAN /\ syncs' \in Nat
  BY PauseTypeOK DEF RunTask
<1>3. \/ tasks' = Tail(tasks) /\ UNCHANGED <<step, operationToken, toWorker>>
      \/ tasks' = tasks /\ \E m \in ControllerMethod : Post(m)
  BY DEF RunTask, ControllerMethod
<1>4. /\ tasks' \in Seq(Task) /\ step' \in ControllerMethod \cup {"ready"}
      /\ operationToken' \in Nat
      /\ toWorker' \in Seq(ControllerMethod \cup ProjectionMethod)
  <2>1. CASE tasks' = Tail(tasks) /\ UNCHANGED <<step, operationToken, toWorker>>
    BY <1>1, <2>1, RunningTask DEF ReplayTypeOK
  <2>2. ASSUME tasks' = tasks, NEW m \in ControllerMethod, Post(m)
        PROVE  /\ tasks' \in Seq(Task) /\ step' \in ControllerMethod \cup {"ready"}
               /\ operationToken' \in Nat
               /\ toWorker' \in Seq(ControllerMethod \cup ProjectionMethod)
    BY <2>2 DEF Post, ReplayTypeOK
  <2> QED BY <1>3, <2>1, <2>2
<1> QED BY <1>1, <1>2, <1>4, SameWorkerTypeOK, SameRecording
        DEF ReplayTypeOK, projectionVars

\* An answer to a task keeps the types.
LEMMA ReceiveTaskReplyTypeOK ==
  ASSUME ReplayInv, ReceiveTaskReply
  PROVE  ReplayTypeOK'
<1> USE DEF ReplayInv
<1>1. /\ UNCHANGED <<workerVars, recording, destroyed, projectionVars, commands>>
      /\ toMain # <<>> /\ toMain' = Tail(toMain)
  BY DEF ReceiveTaskReply
<1>2. /\ toMain' \in Seq([method : ControllerMethod \cup ProjectionMethod,
                          result : Reply])
      /\ step # "ready" /\ tasks # <<>> /\ TargetIndex \in MoveIndex
  <2>1. /\ 1 \in 1..Len(toMain) /\ toMain[1].method \in ControllerMethod
        /\ toMain' \in Seq(Message)
    BY <1>1, FirstAnswer DEF ReceiveTaskReply
  <2>2. Answered
    BY <2>1 DEF Answered
  <2> QED BY <2>1, <2>2 DEF OneRequest, TaskShape, Message
<1>3. Tail(tasks) \in Seq(Task) /\ task.kind \in TaskKind
  BY <1>2, RunningTask
<1>4. CASE TaskFails
  <2>1. /\ UNCHANGED <<currentMoveIndex, lastTrace, operationToken, toWorker>>
        /\ step' = "ready" /\ tasks' = Tail(tasks) /\ playbackRejected' \in BOOLEAN
    BY <1>4 DEF TaskFails
  <2>2. isPlaying' \in BOOLEAN /\ timer' \in BOOLEAN /\ syncs' \in Nat
    BY <1>4, PauseTypeOK DEF TaskFails
  <2> QED BY <1>1, <1>2, <1>3, <2>1, <2>2, SameWorkerTypeOK, SameRecording
          DEF ReplayTypeOK, projectionVars
<1>5. CASE /\ Post(NextMethod) /\ NextMethod # "ready"
           /\ UNCHANGED <<tasks, currentMoveIndex, lastTrace, isPlaying, timer,
                          playbackRejected, syncs>>
  <2>1. NextMethod \in ControllerMethod
    BY <1>5 DEF NextMethod, ControllerMethod
  <2>2. /\ operationToken' \in Nat /\ step' \in ControllerMethod
        /\ toWorker' \in Seq(ControllerMethod \cup ProjectionMethod)
    BY <1>5, <2>1 DEF Post, ReplayTypeOK
  <2> QED BY <1>1, <1>2, <1>5, <2>2, SameWorkerTypeOK, SameRecording
          DEF ReplayTypeOK, projectionVars
<1>6. CASE TaskLands
  <2>1. /\ step' = "ready" /\ tasks' = Tail(tasks)
        /\ currentMoveIndex' = TargetIndex
        /\ lastTrace' = IF TracesLanding THEN recording.moves[TargetIndex + 1] ELSE Null
        /\ UNCHANGED <<operationToken, playbackRejected, toWorker>>
    BY <1>6 DEF TaskLands
  <2>2. lastTrace' \in Move \cup {Null}
    BY <1>2, <2>1, RecordingFacts DEF TracesLanding
  <2>3. isPlaying' \in BOOLEAN /\ timer' \in BOOLEAN
    BY <1>6 DEF TaskLands, ReplayTypeOK
  <2>4. syncs' \in Nat
    <3>1. Emit(1) \/ Emit(2)
      BY <1>6 DEF TaskLands
    <3> QED BY <3>1 DEF Emit, ReplayTypeOK
  <2> QED BY <1>1, <1>2, <1>3, <2>1, <2>2, <2>3, <2>4, SameWorkerTypeOK,
             SameRecording DEF ReplayTypeOK, projectionVars
<1> QED BY <1>4, <1>5, <1>6 DEF ReceiveTaskReply

\* A timer that goes off keeps every type.
LEMMA TimerTypeOK ==
  ASSUME ReplayInv, TimerFires
  PROVE  ReplayTypeOK'
<1>1. /\ Enqueue("playback", 0) /\ timer' = FALSE
      /\ UNCHANGED <<workerVars, recording, destroyed, currentMoveIndex,
                     operationToken, step, lastTrace, playbackRejected,
                     projectionVars, commands, toWorker, toMain>>
  BY DEF TimerFires
<1>2. "playback" \in TaskKind /\ 0 \in Int /\ commands' \in Nat
  BY <1>1 DEF TaskKind, ReplayInv, ReplayTypeOK
<1> QED BY <1>1, <1>2, EnqueueTypeOK DEF ReplayInv

-----------------------------------------------------------------------------
(* Steps of the running task.                                              *)

\* What is left of the answers holds none for a task, and is left as it was.
OnlyProjectionsLeft ==
  /\ Len(toMain') \in Nat
  /\ \A i \in 1..Len(toMain') :
       /\ toMain'[i].method \notin ControllerMethod
       /\ \E j \in 1..Len(toMain) : toMain[j] = toMain'[i]

\* With nothing of the task under way, the worker is free.
LEMMA FreeWorker ==
  ASSUME ReplayInv, ~Unserved, ~destroyed
  PROVE  Available
<1> SUFFICES ASSUME ~Available PROVE FALSE
  OBVIOUS
<1>1. toWorker # <<>> /\ Head(toWorker) = "playSequence"
  BY DEF ReplayInv, OneRequest
<1>2. 1 \in 1..Len(toWorker) /\ toWorker[1] = "playSequence"
  BY <1>1 DEF ReplayInv, ReplayTypeOK
<1> QED BY <1>2 DEF Unserved, ControllerMethod

\* A task that ends, or has nothing to do, leaves the game where its index is.
LEMMA EndStep ==
  ASSUME ReplayInv, step' = "ready", ~Unserved, Available, OnlyProjectionsLeft,
         UNCHANGED <<workerVars, recording, destroyed, operationToken, toWorker>>,
         Replayable /\ Initialized => gameState = RecordedState(currentMoveIndex)'
  PROVE  TaskShape' /\ OneRequest' /\ StampsInStep' /\ GameInStep'
<1>1. /\ Available' /\ Initialized' = Initialized /\ Replayable' = Replayable
      /\ UNCHANGED <<gameState, latestStamp, reply, replayQueue>>
  BY SameRecording DEF workerVars, Available, Initialized
<1>2. ~Unserved' /\ ~Answered'
  BY DEF Unserved, Answered, OnlyProjectionsLeft
<1>3. TaskShape'
  BY DEF TaskShape
<1>4. OneRequest'
  BY <1>1, <1>2 DEF OneRequest, Unserved, Answered, ReplayInv
<1>5. StampsInStep'
  BY <1>1, <1>2 DEF ReplayInv, StampsInStep, OnlyProjectionsLeft
<1>6. GameInStep'
  BY <1>1, <1>2 DEF GameInStep, Answered
<1> QED BY <1>3, <1>4, <1>5, <1>6

\* The method m mutates a second time within the running task.
Second(m) ==
  m = "playSequence" \/ (m = "applyReplayMove" /\ task.kind = "jumpToMove")

\* A task that posts a request still has its shape, and brings a new stamp.
LEMMA PostStep ==
  ASSUME ReplayInv, NEW m \in ControllerMethod, Post(m),
         ~Unserved, Available, ~destroyed, OnlyProjectionsLeft,
         tasks # <<>>, TargetIndex \in MoveIndex,
         UNCHANGED <<workerVars, recording, destroyed, currentMoveIndex, lastTrace,
                     tasks>>,
         m # "applyReplayMove" => task.kind \in {"stepBackward", "jumpToMove"},
         m = "playSequence" => Prefix # <<>>,
         m = "applyReplayMove" => TracesLanding,
         Second(m) => operationToken >= 1,
         Replayable =>
           /\ Second(m) => Initialized
           /\ Initialized =>
                gameState = RecordedState(IF m = "init" THEN currentMoveIndex
                                          ELSE IF m = "playSequence" THEN -1
                                          ELSE TargetIndex - 1)
  PROVE  TaskShape' /\ OneRequest' /\ StampsInStep' /\ GameInStep' /\ TraceInStep'
<1>1. /\ Available' /\ Initialized' = Initialized /\ Replayable' = Replayable
      /\ UNCHANGED <<gameState, latestStamp, reply, replayQueue>>
  BY SameRecording DEF workerVars, Available, Initialized
<1>2. /\ task' = task /\ TargetIndex' = TargetIndex /\ MoveIndex' = MoveIndex
      /\ TracesLanding' = TracesLanding /\ Prefix' = Prefix
  BY SameTask
<1>3. /\ step' = m /\ m # "ready" /\ operationToken' = operationToken + 1
      /\ operationToken \in Nat
  BY DEF Post, ControllerMethod, ReplayInv, ReplayTypeOK
<1>4. /\ Len(toWorker) \in Nat /\ Len(toWorker') = Len(toWorker) + 1
      /\ \A i \in 1..Len(toWorker) : toWorker'[i] = toWorker[i]
      /\ toWorker'[Len(toWorker) + 1] = m
  BY DEF Post, ReplayInv, ReplayTypeOK
<1>5. \A i \in 1..Len(toWorker') :
        toWorker'[i] \in ControllerMethod => i = Len(toWorker) + 1
  BY <1>4 DEF Unserved
<1>6. ~Answered'
  BY DEF Answered, OnlyProjectionsLeft
<1>7. TaskShape'
  BY <1>2, <1>3 DEF TaskShape, ControllerMethod
<1>8. OneRequest'
  BY <1>1, <1>3, <1>4, <1>5, <1>6 DEF OneRequest, Answered
<1>9. StampsInStep'
  <2>1. SecondMutation' <=> Second(m)
    BY <1>2, <1>3 DEF SecondMutation, Second
  <2>2. /\ latestStamp' \in Stamp /\ latestStamp'.epoch = 1
        /\ latestStamp.token \in Nat /\ latestStamp' = latestStamp
        /\ latestStamp.token <= operationToken \/ latestStamp.token = 1
    BY <1>1 DEF ReplayInv, StampsInStep, Stamp
  <2>3. /\ latestStamp'.token <= operationToken' \/ latestStamp'.token = 1
        /\ operationToken' >= 1
        /\ SecondMutation' => operationToken' >= 2
        /\ operationToken' >= 2 => latestStamp'.token < operationToken'
    BY <1>3, <2>1, <2>2
  <2>4. \A i \in 1..Len(toMain') : toMain'[i].result.code # "STALE_OPERATION"
    BY DEF ReplayInv, StampsInStep, OnlyProjectionsLeft
  <2> QED BY <2>2, <2>3, <2>4 DEF StampsInStep
<1>10. GameInStep'
  <2>1. SecondMutation' <=> Second(m)
    BY <1>2, <1>3 DEF SecondMutation, Second
  <2>2. BeforeIndex' = IF m = "init" THEN currentMoveIndex
                       ELSE IF m = "playSequence" THEN -1 ELSE TargetIndex - 1
    BY <1>2, <1>3 DEF BeforeIndex
  <2> QED BY <1>1, <1>3, <1>6, <2>1, <2>2 DEF GameInStep, RecordedState, Answered
<1>11. TraceInStep'
  BY DEF ReplayInv, TraceInStep
<1> QED BY <1>7, <1>8, <1>9, <1>10, <1>11

\* The next task starts.
LEMMA RunTaskKeepsPace ==
  ASSUME ReplayInv, RunTask
  PROVE  TaskShape' /\ OneRequest' /\ StampsInStep' /\ GameInStep' /\ TraceInStep'
<1>1. /\ ~destroyed /\ tasks # <<>> /\ step = "ready"
      /\ UNCHANGED <<workerVars, recording, destroyed, currentMoveIndex, lastTrace,
                     toMain>>
  BY DEF RunTask, TaskDue
<1>2. ~Unserved /\ ~Answered
  BY <1>1 DEF ReplayInv, OneRequest
<1>3. Available
  BY <1>1, <1>2, FreeWorker
<1>4. OnlyProjectionsLeft
  BY <1>1, <1>2 DEF OnlyProjectionsLeft, Answered, ReplayInv, ReplayTypeOK
<1>5. Replayable /\ Initialized => gameState = RecordedState(currentMoveIndex)
  BY <1>1 DEF ReplayInv, GameInStep
<1>6. TraceInStep'
  BY <1>1 DEF ReplayInv, TraceInStep
<1>7. CASE Skipped
  <2>1. UNCHANGED <<step, operationToken, toWorker>>
    BY <1>7 DEF RunTask
  <2>2. RecordedState(currentMoveIndex)' = RecordedState(currentMoveIndex)
    BY <1>1 DEF RecordedState
  <2> QED BY <1>1, <1>2, <1>3, <1>4, <1>5, <1>6, <2>1, <2>2, EndStep
<1>8. CASE ~Skipped
  <2> DEFINE m == IF task.kind \in {"stepForward", "playback"}
                  THEN "applyReplayMove" ELSE "init"
  <2>1. Post(m) /\ UNCHANGED tasks /\ m \in ControllerMethod
    BY <1>8 DEF RunTask, ControllerMethod
  <2>2. TargetIndex \in MoveIndex
    BY <1>8 DEF Skipped
  <2>3. task.kind \in TaskKind
    BY <1>1, RunningTask DEF ReplayInv
  <2>4. currentMoveIndex \in MoveIndex /\ currentMoveIndex \in Int
    BY RecordingFacts DEF ReplayInv, ReplayTypeOK
  <2>5. m # "applyReplayMove" => task.kind \in {"stepBackward", "jumpToMove"}
    BY <2>3 DEF TaskKind
  <2>6. m = "applyReplayMove" => TracesLanding /\ TargetIndex - 1 = currentMoveIndex
    BY <2>4 DEF TracesLanding, TargetIndex, MoveIndex
  <2>7. ~Second(m) /\ m # "playSequence"
    BY DEF Second
  <2> HIDE DEF m
  <2>8. Replayable =>
          /\ Second(m) => Initialized
          /\ Initialized =>
               gameState = RecordedState(IF m = "init" THEN currentMoveIndex
                                         ELSE IF m = "playSequence" THEN -1
                                         ELSE TargetIndex - 1)
    <3>1. m = "init" \/ m = "applyReplayMove"
      BY DEF m
    <3> QED BY <1>5, <2>6, <2>7, <3>1
  <2> QED BY <1>1, <1>2, <1>3, <1>4, <2>1, <2>2, <2>5, <2>6, <2>7, <2>8, PostStep
<1> QED BY <1>7, <1>8

\* The task's answer arrives: nothing else of the task is under way.
LEMMA ReplyTaken ==
  ASSUME ReplayInv, ReceiveTaskReply
  PROVE  /\ ~destroyed /\ step # "ready" /\ step \in ControllerMethod
         /\ UNCHANGED <<workerVars, recording, destroyed>>
         /\ ~Unserved /\ Available /\ OnlyProjectionsLeft
         /\ tasks # <<>> /\ TargetIndex \in MoveIndex
         /\ Replayable =>
              IF Head(toMain).result.code = "ok"
              THEN Initialized /\ gameState = RecordedState(AfterIndex)
              ELSE Initialized => gameState = RecordedState(currentMoveIndex)
<1>1. /\ toMain # <<>> /\ toMain' = Tail(toMain)
      /\ Head(toMain).method \in ControllerMethod
      /\ ~destroyed /\ UNCHANGED <<workerVars, recording, destroyed>>
  BY DEF ReceiveTaskReply, EventLoopFree
<1>2. /\ 1 \in 1..Len(toMain) /\ toMain[1] = Head(toMain)
      /\ Len(toMain') \in Nat
      /\ \A i \in 1..Len(toMain') :
           i + 1 \in 1..Len(toMain) /\ toMain'[i] = toMain[i + 1]
  BY <1>1, FirstAnswer DEF ReplayInv
<1>3. Answered /\ step = Head(toMain).method
  BY <1>1, <1>2 DEF Answered, ReplayInv, OneRequest
<1>4. step # "ready" /\ step \in ControllerMethod
  BY <1>1, <1>3 DEF ReplayInv, OneRequest
<1>5. ~Unserved
  BY <1>3 DEF ReplayInv, OneRequest
<1>6. OnlyProjectionsLeft
  <2>1. ASSUME NEW i \in 1..Len(toMain')
        PROVE  /\ toMain'[i].method \notin ControllerMethod
               /\ \E j \in 1..Len(toMain) : toMain[j] = toMain'[i]
    <3>1. i + 1 \in 1..Len(toMain) /\ toMain'[i] = toMain[i + 1] /\ i + 1 # 1
      BY <1>2
    <3>2. toMain[i + 1].method \notin ControllerMethod
      BY <1>1, <1>2, <3>1 DEF ReplayInv, OneRequest
    <3> QED BY <3>1, <3>2
  <2> QED BY <1>2, <2>1 DEF OnlyProjectionsLeft
<1>7. tasks # <<>> /\ TargetIndex \in MoveIndex
  BY <1>4 DEF ReplayInv, TaskShape
<1>8. Replayable =>
        IF Head(toMain).result.code = "ok"
        THEN Initialized /\ gameState = RecordedState(AfterIndex)
        ELSE Initialized => gameState = RecordedState(currentMoveIndex)
  BY <1>1, <1>2 DEF ReplayInv, GameInStep
<1> QED BY <1>1, <1>4, <1>5, <1>6, <1>7, <1>8, FreeWorker

\* A task takes its answer: it fails, goes on or lands.
LEMMA ReceiveTaskReplyKeepsPace ==
  ASSUME ReplayInv, ReceiveTaskReply
  PROVE  TaskShape' /\ OneRequest' /\ StampsInStep' /\ GameInStep' /\ TraceInStep'
<1> USE ReplyTaken
<1>1. /\ task.kind \in TaskKind
      /\ Len(Prefix) = IF TracesLanding THEN TargetIndex ELSE TargetIndex + 1
      /\ Len(Prefix) \in Nat /\ (Prefix = <<>> <=> Len(Prefix) = 0)
      /\ TargetIndex \in Int /\ TargetIndex >= -1
  BY RunningTask, PrefixFacts, RecordingFacts DEF ReplayInv, MoveIndex
<1>2. \A i : RecordedState(i)' = RecordedState(i)
  BY DEF RecordedState
<1>3. CASE Head(toMain).result.code # "ok" /\ TaskFails
  <2>1. /\ step' = "ready"
        /\ UNCHANGED <<currentMoveIndex, lastTrace, operationToken, toWorker>>
    BY <1>3 DEF TaskFails
  <2>2. Replayable /\ Initialized => gameState = RecordedState(currentMoveIndex)'
    BY <1>2, <1>3, <2>1
  <2>3. TraceInStep'
    BY <2>1 DEF ReplayInv, TraceInStep
  <2> QED BY <2>1, <2>2, <2>3, EndStep
<1>4. CASE /\ Head(toMain).result.code = "ok"
           /\ NextMethod # "ready"
           /\ Post(NextMethod)
           /\ UNCHANGED <<tasks, currentMoveIndex, lastTrace, isPlaying, timer,
                          playbackRejected, syncs>>
  <2> DEFINE m == NextMethod
  <2>1. m = "playSequence" \/ m = "applyReplayMove"
    BY <1>4 DEF NextMethod
  <2>2. /\ m = "playSequence" => step = "init" /\ Prefix # <<>>
        /\ m = "applyReplayMove" =>
             /\ step # "applyReplayMove" /\ TracesLanding
             /\ step = "init" => Prefix = <<>>
    BY <2>1 DEF NextMethod
  <2>3. step \in {"init", "playSequence"}
    BY <2>1, <2>2 DEF ControllerMethod
  <2>4. task.kind \in {"stepBackward", "jumpToMove"}
    BY <2>3 DEF ReplayInv, TaskShape
  <2>5. operationToken >= 1
    BY DEF ReplayInv, StampsInStep
  <2>6. Replayable => /\ Initialized
                      /\ gameState = RecordedState(IF m = "init" THEN currentMoveIndex
                                                   ELSE IF m = "playSequence" THEN -1
                                                   ELSE TargetIndex - 1)
    <3>1. AfterIndex = IF m = "playSequence" THEN -1 ELSE TargetIndex - 1
      BY <1>1, <2>1, <2>2, <2>3 DEF AfterIndex
    <3> QED BY <1>4, <2>1, <3>1
  <2> HIDE DEF m
  <2>7. Post(m) /\ m \in ControllerMethod
    BY <1>4, <2>1 DEF m, ControllerMethod
  <2> QED BY <1>4, <2>2, <2>4, <2>5, <2>6, <2>7, PostStep
<1>5. CASE Head(toMain).result.code = "ok" /\ NextMethod = "ready" /\ TaskLands
  <2>1. /\ step' = "ready" /\ currentMoveIndex' = TargetIndex
        /\ lastTrace' = IF TracesLanding THEN recording.moves[TargetIndex + 1] ELSE Null
        /\ UNCHANGED <<operationToken, toWorker>>
    BY <1>5 DEF TaskLands
  <2>2. AfterIndex = TargetIndex
    <3>1. step = "init" => Prefix = <<>> /\ ~TracesLanding
      BY <1>5 DEF NextMethod
    <3>2. step = "playSequence" => ~TracesLanding
      BY <1>5 DEF NextMethod
    <3> QED BY <1>1, <3>1, <3>2 DEF AfterIndex
  <2>3. Replayable /\ Initialized => gameState = RecordedState(currentMoveIndex)'
    <3>1. RecordedState(currentMoveIndex)' = RecordedState(TargetIndex)
      BY <2>1 DEF RecordedState
    <3> QED BY <1>5, <2>2, <3>1
  <2>4. TraceInStep'
    BY <2>1 DEF TraceInStep, TracesLanding
  <2> QED BY <2>1, <2>3, <2>4, EndStep
<1> QED BY <1>3, <1>4, <1>5 DEF ReceiveTaskReply

-----------------------------------------------------------------------------
(* The worker serves its oldest request.                                   *)

\* What the worker leaves alone.
Aside == UNCHANGED <<recording, controllerVars, syncs, projectionVars, commands>>

\* The running task is still the same task.
LEMMA SameServed ==
  ASSUME ReplayInv, Aside, step # "ready"
  PROVE  /\ UNCHANGED <<recording, destroyed, currentMoveIndex, isPlaying, timer,
                        operationToken, tasks, step, lastTrace, playbackRejected>>
         /\ task' = task /\ TargetIndex' = TargetIndex /\ MoveIndex' = MoveIndex
         /\ TracesLanding' = TracesLanding /\ Prefix' = Prefix
         /\ SecondMutation' = SecondMutation /\ AfterIndex' = AfterIndex
         /\ BeforeIndex' = BeforeIndex /\ Replayable' = Replayable
         /\ TaskShape' /\ TraceInStep'
<1>1. UNCHANGED <<recording, destroyed, currentMoveIndex, isPlaying, timer,
                  operationToken, tasks, step, lastTrace, playbackRejected>>
  BY DEF Aside, controllerVars
<1>2. tasks # <<>>
  BY DEF ReplayInv, TaskShape
<1>3. /\ task' = task /\ TargetIndex' = TargetIndex /\ MoveIndex' = MoveIndex
      /\ TracesLanding' = TracesLanding /\ Prefix' = Prefix
      /\ Replayable' = Replayable
  BY <1>1, <1>2, SameTask, SameRecording
<1>4. /\ SecondMutation' = SecondMutation /\ AfterIndex' = AfterIndex
      /\ BeforeIndex' = BeforeIndex
  BY <1>1, <1>3 DEF SecondMutation, AfterIndex, BeforeIndex
<1>5. TaskShape'
  BY <1>1, <1>2, <1>3 DEF ReplayInv, TaskShape
<1>6. TraceInStep'
  BY <1>1 DEF ReplayInv, TraceInStep
<1> QED BY <1>1, <1>3, <1>4, <1>5, <1>6

\* The request at the head, when it is the task's.
LEMMA HeadRequest ==
  ASSUME ReplayInv, toWorker # <<>>
  PROVE  /\ Head(toWorker) = toWorker[1] /\ 1 \in 1..Len(toWorker)
         /\ Head(toWorker) \in ControllerMethod \cup ProjectionMethod
         /\ Len(toWorker) \in Nat /\ Len(Tail(toWorker)) = Len(toWorker) - 1
         /\ Tail(toWorker) \in Seq(ControllerMethod \cup ProjectionMethod)
         /\ \A i \in 1..Len(Tail(toWorker)) :
              i + 1 \in 1..Len(toWorker) /\ Tail(toWorker)[i] = toWorker[i + 1]
         /\ ~destroyed
         /\ Head(toWorker) \in ControllerMethod =>
              /\ Unserved /\ ~Answered /\ step = Head(toWorker) /\ step # "ready"
              /\ \A i \in 1..Len(Tail(toWorker)) :
                   Tail(toWorker)[i] \notin ControllerMethod
<1>1. toWorker \in Seq(ControllerMethod \cup ProjectionMethod)
  BY DEF ReplayInv, ReplayTypeOK
<1>2. /\ Head(toWorker) = toWorker[1] /\ 1 \in 1..Len(toWorker)
      /\ Head(toWorker) \in ControllerMethod \cup ProjectionMethod
      /\ Len(toWorker) \in Nat /\ Len(Tail(toWorker)) = Len(toWorker) - 1
      /\ Tail(toWorker) \in Seq(ControllerMethod \cup ProjectionMethod)
      /\ \A i \in 1..Len(Tail(toWorker)) :
           i + 1 \in 1..Len(toWorker) /\ Tail(toWorker)[i] = toWorker[i + 1]
  BY <1>1
<1>3. ~destroyed
  BY DEF ReplayInv, OneRequest
<1>4. ASSUME Head(toWorker) \in ControllerMethod
      PROVE  /\ Unserved /\ ~Answered /\ step = Head(toWorker) /\ step # "ready"
             /\ \A i \in 1..Len(Tail(toWorker)) :
                  Tail(toWorker)[i] \notin ControllerMethod
  <2>1. Unserved
    BY <1>2, <1>4 DEF Unserved
  <2>2. ~Answered /\ step # "ready" /\ step = Head(toWorker)
    BY <1>2, <1>4, <2>1 DEF ReplayInv, OneRequest
  <2>3. ASSUME NEW i \in 1..Len(Tail(toWorker)),
               Tail(toWorker)[i] \in ControllerMethod
        PROVE  FALSE
    <3>1. i + 1 \in 1..Len(toWorker) /\ toWorker[i + 1] \in ControllerMethod
      BY <1>2, <2>3
    <3>2. i + 1 = 1
      BY <1>2, <1>4, <3>1 DEF ReplayInv, OneRequest
    <3> QED BY <3>2
  <2> QED BY <2>1, <2>2, <2>3
<1> QED BY <1>2, <1>3, <1>4

\* The task's request is answered.
LEMMA AnswerStep ==
  ASSUME ReplayInv, Aside, toWorker # <<>>, Head(toWorker) \in ControllerMethod,
         reply' \in Reply, reply'.code # "busy", Answer(Head(toWorker)),
         latestStamp' \in {latestStamp, StampNow},
         reply'.code = "STALE_OPERATION" => operationToken = 1,
         Replayable =>
           IF reply'.code = "ok"
           THEN Initialized' /\ gameState' = RecordedState(AfterIndex)
           ELSE Initialized' => gameState' = RecordedState(currentMoveIndex)
  PROVE  TaskShape' /\ OneRequest' /\ StampsInStep' /\ GameInStep' /\ TraceInStep'
<1> USE HeadRequest, SameServed
<1> DEFINE m == Head(toWorker)
           answer == [method |-> m, result |-> reply']
<1>1. toWorker' = Tail(toWorker) /\ toMain' = Append(toMain, answer)
  BY DEF Answer
<1>2. /\ toMain \in Seq(Message) /\ answer \in Message
      /\ answer.method = m /\ answer.result = reply'
  BY DEF Message, ReplayInv, ReplayTypeOK
<1> HIDE DEF answer
<1>3. /\ Len(toMain) \in Nat /\ Len(toMain') = Len(toMain) + 1
      /\ toMain'[Len(toMain) + 1] = answer
      /\ \A i \in 1..Len(toMain) : toMain'[i] = toMain[i]
  BY <1>1, <1>2
<1>4. \A i \in 1..Len(toMain) : toMain[i].method \notin ControllerMethod
  BY DEF Answered
<1>5. \A i \in 1..Len(toMain') :
        \/ i = Len(toMain) + 1 /\ toMain'[i] = answer
        \/ i \in 1..Len(toMain) /\ toMain'[i] = toMain[i]
  BY <1>3
<1>6. ~Unserved' /\ Available'
  BY <1>1 DEF Unserved, Available
<1>7. OneRequest'
  BY <1>1, <1>2, <1>4, <1>5, <1>6 DEF OneRequest, Unserved
<1>8. StampsInStep'
  <2>1. StampNow \in Stamp /\ StampNow.epoch = 1 /\ StampNow.token = operationToken
    BY DEF StampNow, Stamp, ReplayInv, ReplayTypeOK
  <2>2. /\ latestStamp' \in Stamp /\ latestStamp'.epoch = 1
        /\ latestStamp'.token <= operationToken \/ latestStamp'.token = 1
    BY <2>1 DEF ReplayInv, StampsInStep, ReplayTypeOK
  <2>3. \A i \in 1..Len(toMain') :
          toMain'[i].result.code = "STALE_OPERATION" =>
            toMain'[i].method \in ControllerMethod /\ operationToken = 1
    BY <1>2, <1>5 DEF ReplayInv, StampsInStep
  <2> QED BY <1>6, <2>2, <2>3 DEF ReplayInv, StampsInStep
<1>9. GameInStep'
  <2> SUFFICES ASSUME Replayable PROVE GameInStep'
    BY DEF GameInStep
  <2>1. \A i : RecordedState(i)' = RecordedState(i)
    BY DEF RecordedState
  <2>2. ASSUME NEW i \in 1..Len(toMain'), toMain'[i].method \in ControllerMethod
        PROVE  IF toMain'[i].result.code = "ok"
               THEN Initialized' /\ gameState' = RecordedState(AfterIndex)
               ELSE Initialized' => gameState' = RecordedState(currentMoveIndex)
    BY <1>2, <1>4, <1>5, <2>2
  <2>3. /\ RecordedState(AfterIndex)' = RecordedState(AfterIndex)
        /\ RecordedState(currentMoveIndex)' = RecordedState(currentMoveIndex)
    BY DEF RecordedState
  <2> QED BY <1>6, <2>2, <2>3 DEF GameInStep
<1> QED BY <1>7, <1>8, <1>9

\* The loop of playSequence goes on.
LEMMA LoopStep ==
  ASSUME ReplayInv, Aside, toWorker # <<>>, Head(toWorker) = "playSequence",
         ~Available', UNCHANGED <<toWorker, toMain>>,
         latestStamp' \in {latestStamp, StampNow},
         Replayable => \E n \in Nat : LoopAt(n)'
  PROVE  TaskShape' /\ OneRequest' /\ StampsInStep' /\ GameInStep' /\ TraceInStep'
<1>0. Head(toWorker) \in ControllerMethod
  BY DEF ControllerMethod
<1> USE <1>0, HeadRequest, SameServed
<1>1. Unserved' /\ ~Answered'
  BY DEF Unserved, Answered
<1>2. OneRequest'
  BY <1>1 DEF OneRequest, ReplayInv
<1>3. StampsInStep'
  <2>1. StampNow \in Stamp /\ StampNow.epoch = 1 /\ StampNow.token = operationToken
    BY DEF StampNow, Stamp, ReplayInv, ReplayTypeOK
  <2>2. /\ latestStamp' \in Stamp /\ latestStamp'.epoch = 1
        /\ latestStamp'.token <= operationToken \/ latestStamp'.token = 1
    BY <2>1 DEF ReplayInv, StampsInStep, ReplayTypeOK
  <2> QED BY <2>2 DEF ReplayInv, StampsInStep
<1>4. GameInStep'
  BY <1>1 DEF GameInStep, Answered
<1> QED BY <1>2, <1>3, <1>4

\* The stamp of the task's request: stale only if it is the very first one,
\* and never when it is the second mutation of its task.
LEMMA StampOfRequest ==
  ASSUME ReplayInv, Unserved, Available
  PROVE  /\ StampNow \in Stamp
         /\ ~Fresh(StampNow) => operationToken = 1 /\ ~SecondMutation
<1>1. /\ operationToken \in Nat /\ operationToken >= 1
      /\ operationToken >= 2 => latestStamp.token < operationToken
      /\ SecondMutation => operationToken >= 2
      /\ latestStamp \in Stamp /\ latestStamp.epoch = 1
  BY DEF ReplayInv, ReplayTypeOK, StampsInStep, OneRequest
<1>2. StampNow \in Stamp /\ StampNow.epoch = 1 /\ StampNow.token = operationToken
  BY <1>1 DEF StampNow, Stamp
<1>3. latestStamp # Null /\ latestStamp.token \in Nat
  BY <1>1, WorkerAssumption DEF Stamp
<1>4. operationToken >= 2 => Fresh(StampNow)
  BY <1>1, <1>2, <1>3 DEF Fresh, Newer
<1> QED BY <1>1, <1>2, <1>4

\* The recorded game is that of a reset, and goes on with the recorded moves.
LEMMA RecordedGame ==
  ASSUME ReplayTypeOK, Replayable
  PROVE  /\ InitialState(recording.restart) = RecordedState(-1)
         /\ \A i \in MoveIndex : i >= 0 =>
              /\ recording.moves[i + 1] \in LegalMoves(RecordedState(i - 1))
              /\ RecordedState(i) =
                   ApplyMove(RecordedState(i - 1), recording.moves[i + 1])
<1>1. InitialState(recording.restart) = RecordedState(-1)
  BY DEF Replayable, RecordedState
<1>2. ASSUME NEW i \in MoveIndex, i >= 0
      PROVE  /\ recording.moves[i + 1] \in LegalMoves(RecordedState(i - 1))
             /\ RecordedState(i) =
                  ApplyMove(RecordedState(i - 1), recording.moves[i + 1])
  <2>1. i + 1 \in 1..totalMoves /\ i - 1 + 2 = i + 1 /\ i + 1 + 1 = i + 2
    BY <1>2, RecordingFacts DEF MoveIndex
  <2> QED BY <2>1 DEF Replayable, RecordedState
<1> QED BY <1>1, <1>2

\* init: the game is the recorded one, at its start.
LEMMA InitServed ==
  ASSUME ReplayInv, Aside, toWorker # <<>>, Head(toWorker) = "init",
         InitWorker(recording.restart, StampNow), Answer("init")
  PROVE  /\ WorkerTypeOK' /\ reply'.code # "busy"
         /\ TaskShape' /\ OneRequest' /\ StampsInStep' /\ GameInStep' /\ TraceInStep'
<1>0. Head(toWorker) \in ControllerMethod
  BY DEF ControllerMethod
<1>1. step = "init" /\ Unserved /\ Available
  BY <1>0, HeadRequest DEF InitWorker
<1>2. recording.restart \in Seed
  BY RecordingFacts DEF ReplayInv
<1>3. WorkerTypeOK'
  BY <1>1, <1>2, StampOfRequest, MutatingCallTypeOK
     DEF MutatingCall, ReplayInv, ReplayTypeOK
<1>4. reply' \in Reply
  BY <1>3 DEF WorkerTypeOK
<1>5. /\ reply'.code \in {"STALE_OPERATION", "INTERNAL_ERROR", "ok"}
      /\ latestStamp' \in {latestStamp, StampNow}
      /\ reply'.code = "STALE_OPERATION" => ~Fresh(StampNow)
      /\ reply'.code # "ok" => UNCHANGED gameState
      /\ reply'.code = "ok" => gameState' = InitialState(recording.restart)
  BY DEF InitWorker, RejectStale, InitState, SetupThrows, Reject, Ok
<1>6. Replayable =>
        IF reply'.code = "ok"
        THEN Initialized' /\ gameState' = RecordedState(AfterIndex)
        ELSE Initialized' => gameState' = RecordedState(currentMoveIndex)
  <2> SUFFICES ASSUME Replayable
               PROVE  IF reply'.code = "ok"
                      THEN Initialized' /\ gameState' = RecordedState(AfterIndex)
                      ELSE Initialized' => gameState' = RecordedState(currentMoveIndex)
    OBVIOUS
  <2>1. CASE reply'.code = "ok"
    <3>1. gameState' = RecordedState(-1) /\ gameState' \in GameState
      BY <1>2, <1>5, <2>1, RecordedGame, GameAssumption DEF ReplayInv
    <3> QED BY <1>1, <2>1, <3>1, GameAssumption DEF AfterIndex, Initialized
  <2>2. CASE reply'.code # "ok"
    <3>1. Initialized => gameState = RecordedState(currentMoveIndex)
      BY <1>1 DEF ReplayInv, GameInStep, BeforeIndex
    <3> QED BY <1>5, <2>2, <3>1 DEF Initialized
  <2> QED BY <2>1, <2>2
<1> QED BY <1>0, <1>1, <1>3, <1>4, <1>5, <1>6, StampOfRequest, AnswerStep

\* applyReplayMove: the recorded move is taken, or there is no game, or the
\* request was the very first and is stale.
LEMMA ApplyServed ==
  ASSUME ReplayInv, Aside, toWorker # <<>>, Head(toWorker) = "applyReplayMove",
         WorkerApplyReplayMove(recording.moves[TargetIndex + 1], StampNow),
         Answer("applyReplayMove")
  PROVE  /\ WorkerTypeOK' /\ reply'.code # "busy"
         /\ TaskShape' /\ OneRequest' /\ StampsInStep' /\ GameInStep' /\ TraceInStep'
<1> DEFINE move == recording.moves[TargetIndex + 1]
<1>0. Head(toWorker) \in ControllerMethod
  BY DEF ControllerMethod
<1>1. step = "applyReplayMove" /\ Unserved /\ Available
  BY <1>0, HeadRequest DEF WorkerApplyReplayMove
<1>2. /\ TracesLanding /\ TargetIndex \in MoveIndex /\ TargetIndex >= 0
      /\ tasks # <<>> /\ task.kind \in TaskKind
  BY <1>1, RunningTask DEF ReplayInv, TaskShape, TracesLanding
<1>3. move \in Move
  BY <1>2, RecordingFacts DEF ReplayInv
<1> HIDE DEF move
<1>4. WorkerApplyReplayMove(move, StampNow)
  BY DEF move
<1>5. WorkerTypeOK'
  BY <1>1, <1>3, <1>4, StampOfRequest, MutatingCallTypeOK
     DEF MutatingCall, ReplayInv, ReplayTypeOK
<1>6. reply' \in Reply
  BY <1>5 DEF WorkerTypeOK
<1>7. /\ reply'.code \in {"STALE_OPERATION", "NOT_INITIALIZED", "ILLEGAL_MOVE", "ok"}
      /\ latestStamp' \in {latestStamp, StampNow}
      /\ reply'.code = "STALE_OPERATION" => ~Fresh(StampNow)
      /\ reply'.code # "ok" => UNCHANGED gameState
      /\ reply'.code = "NOT_INITIALIZED" => ~Initialized
      /\ reply'.code = "ILLEGAL_MOVE" => Initialized /\ move \notin LegalMoves(gameState)
      /\ reply'.code = "ok" => /\ Initialized /\ move \in LegalMoves(gameState)
                               /\ gameState' = ApplyMove(gameState, move)
  BY <1>4 DEF WorkerApplyReplayMove, RejectStale, RejectUninitialized, Advance,
              Reject, Ok
<1>8. Replayable =>
        IF reply'.code = "ok"
        THEN Initialized' /\ gameState' = RecordedState(AfterIndex)
        ELSE Initialized' => gameState' = RecordedState(currentMoveIndex)
  <2> SUFFICES ASSUME Replayable
               PROVE  IF reply'.code = "ok"
                      THEN Initialized' /\ gameState' = RecordedState(AfterIndex)
                      ELSE Initialized' => gameState' = RecordedState(currentMoveIndex)
    OBVIOUS
  <2>1. Initialized => gameState = RecordedState(TargetIndex - 1)
    BY <1>1 DEF ReplayInv, GameInStep, BeforeIndex
  <2>2. /\ move \in LegalMoves(RecordedState(TargetIndex - 1))
        /\ RecordedState(TargetIndex) =
             ApplyMove(RecordedState(TargetIndex - 1), move)
    BY <1>2, RecordedGame DEF move, ReplayInv
  <2>3. RecordedState(TargetIndex) \in GameState
    BY <1>2, RecordingFacts DEF ReplayInv
  <2>4. CASE reply'.code = "ok"
    BY <1>1, <1>7, <2>1, <2>2, <2>3, <2>4, GameAssumption DEF AfterIndex, Initialized
  <2>5. CASE reply'.code = "STALE_OPERATION"
    <3>1. ~SecondMutation
      BY <1>1, <1>7, <2>5, StampOfRequest
    <3>2. TargetIndex - 1 = currentMoveIndex
      <4>1. task.kind \in {"stepForward", "playback"}
        BY <1>1, <1>2, <3>1 DEF SecondMutation, TracesLanding, TaskKind
      <4>2. currentMoveIndex \in Int
        BY RecordingFacts DEF ReplayInv, ReplayTypeOK
      <4> QED BY <4>1, <4>2 DEF TargetIndex
    <3> QED BY <1>7, <2>1, <2>5, <3>2 DEF Initialized
  <2>6. CASE reply'.code = "NOT_INITIALIZED"
    BY <1>7, <2>6 DEF Initialized
  <2>7. reply'.code # "ILLEGAL_MOVE"
    BY <1>7, <2>1, <2>2
  <2> QED BY <1>7, <2>4, <2>5, <2>6, <2>7
<1>9. reply'.code # "busy"
  BY <1>7
<1>10. reply'.code = "STALE_OPERATION" => operationToken = 1
  BY <1>1, <1>7, StampOfRequest
<1> QED BY <1>0, <1>5, <1>6, <1>7, <1>8, <1>9, <1>10, AnswerStep

\* playSequence: the loop is entered at the recording's start, or there is no
\* game to replay on.
LEMMA PlaySequenceServed ==
  ASSUME ReplayInv, Aside, toWorker # <<>>, Head(toWorker) = "playSequence",
         PlaySequence(Prefix, StampNow), Answer("playSequence")
  PROVE  /\ WorkerTypeOK'
         /\ TaskShape' /\ OneRequest' /\ StampsInStep' /\ GameInStep' /\ TraceInStep'
<1>0. Head(toWorker) \in ControllerMethod
  BY DEF ControllerMethod
<1>1. step = "playSequence" /\ Unserved /\ Available /\ SecondMutation
  BY <1>0, HeadRequest DEF PlaySequence, SecondMutation
<1>2. /\ Prefix # <<>> /\ Prefix \in Histories /\ Prefix \in Seq(Move)
      /\ Len(Prefix) \in Nat
  BY <1>1, PrefixFacts DEF ReplayInv, TaskShape
<1>3. WorkerTypeOK'
  BY <1>1, <1>2, StampOfRequest, MutatingCallTypeOK
     DEF MutatingCall, ReplayInv, ReplayTypeOK
<1>4. Fresh(StampNow)
  BY <1>1, StampOfRequest
<1>5. CASE Initialized
  <2>1. /\ replayQueue' = Prefix /\ reply' = Busy /\ latestStamp' = StampNow
        /\ UNCHANGED gameState
    BY <1>2, <1>4, <1>5
       DEF PlaySequence, RejectStale, RejectUninitialized
  <2>2. ~Available' /\ UNCHANGED <<toWorker, toMain>>
    BY <2>1 DEF Available, Busy, Answer
  <2>3. Replayable => LoopAt(0)'
    <3> SUFFICES ASSUME Replayable PROVE LoopAt(0)'
      OBVIOUS
    <3>1. gameState = RecordedState(-1)
      BY <1>1, <1>5 DEF ReplayInv, GameInStep, BeforeIndex
    <3>2. Prefix' = Prefix /\ RecordedState(-1)' = RecordedState(-1)
      BY <1>0, <1>1, SameServed DEF RecordedState
    <3>3. SubSeq(Prefix, 1, Len(Prefix)) = Prefix
      BY <1>2
    <3>4. 0 \in 0..(Len(Prefix) - 1) /\ 0 + 1 = 1 /\ 0 - 1 = -1
      BY <1>2
    <3> QED BY <2>1, <3>1, <3>2, <3>3, <3>4 DEF LoopAt
  <2> QED BY <1>3, <2>1, <2>2, <2>3, LoopStep
<1>6. CASE ~Initialized
  <2>1. /\ reply' = Reject("NOT_INITIALIZED") /\ latestStamp' = latestStamp
    BY <1>6 DEF PlaySequence, RejectStale, RejectUninitialized
  <2>2. reply'.code = "NOT_INITIALIZED" /\ reply' \in Reply
    BY <1>3, <2>1 DEF Reject, WorkerTypeOK
  <2>3. ~Replayable
    BY <1>1, <1>6 DEF ReplayInv, GameInStep
  <2> QED BY <1>0, <1>3, <2>1, <2>2, <2>3, AnswerStep
<1> QED BY <1>5, <1>6

\* One turn of the loop: the recorded move is legal, and the game is the
\* recorded one after it.
LEMMA LoopServed ==
  ASSUME ReplayInv, Aside, toWorker # <<>>, ReplayStep, Answer(Head(toWorker))
  PROVE  /\ WorkerTypeOK'
         /\ TaskShape' /\ OneRequest' /\ StampsInStep' /\ GameInStep' /\ TraceInStep'
<1>0. ~Available /\ ~destroyed
  BY HeadRequest DEF ReplayStep
<1>1. Head(toWorker) = "playSequence" /\ Head(toWorker) \in ControllerMethod
  BY <1>0 DEF ReplayInv, OneRequest, ControllerMethod
<1>2. step = "playSequence"
  BY <1>1, HeadRequest
<1>3. WorkerTypeOK' /\ reply' \in Reply /\ latestStamp' = latestStamp
  BY ReplayStepTypeOK DEF ReplayInv, ReplayTypeOK, WorkerTypeOK, ReplayStep
<1>4. reply'.code # "STALE_OPERATION"
  BY DEF ReplayStep, Ok, Busy, Reject
<1>5. /\ TargetIndex \in MoveIndex /\ tasks # <<>>
      /\ Prefix \in Seq(Move) /\ Len(Prefix) \in 0..totalMoves /\ totalMoves \in Nat
      /\ \A i \in 1..Len(Prefix) : Prefix[i] = recording.moves[i]
  BY <1>2, PrefixFacts, RecordingFacts DEF ReplayInv, TaskShape
<1>6. Prefix' = Prefix /\ \A i : RecordedState(i)' = RecordedState(i)
  BY <1>2, SameServed DEF RecordedState
<1>7. ASSUME Replayable
      PROVE  /\ ~Available' => \E n \in Nat : LoopAt(n)'
             /\ Available' => /\ reply'.code = "ok" /\ Initialized'
                              /\ gameState' = RecordedState(AfterIndex)
  <2>1. PICK n \in Nat : LoopAt(n)
    BY <1>0, <1>7 DEF ReplayInv, GameInStep
  <2>2. /\ n \in 0..(Len(Prefix) - 1) /\ n + 1 \in 1..Len(Prefix) /\ n \in MoveIndex
        /\ replayQueue = SubSeq(Prefix, n + 1, Len(Prefix))
        /\ gameState = RecordedState(n - 1)
    BY <1>5, <2>1 DEF LoopAt, MoveIndex
  <2>3. /\ Head(replayQueue) = Prefix[n + 1]
        /\ Tail(replayQueue) = SubSeq(Prefix, n + 2, Len(Prefix))
        /\ Tail(replayQueue) = <<>> <=> n + 1 = Len(Prefix)
    <3>1. Len(Prefix) \in (n + 1)..Len(Prefix)
      BY <1>5, <2>2
    <3>2. /\ Head(replayQueue) = Prefix[n + 1]
          /\ Tail(replayQueue) = SubSeq(Prefix, n + 1 + 1, Len(Prefix))
      BY <1>5, <2>2, <3>1, HeadTailOfSubSeq
    <3>3. \A i \in (n + 2)..Len(Prefix) : Prefix[i] \in Move
      BY <1>5, <2>2
    <3>4. Len(SubSeq(Prefix, n + 2, Len(Prefix))) =
            IF n + 2 <= Len(Prefix) THEN Len(Prefix) - (n + 2) + 1 ELSE 0
      BY <1>5, <3>3, SubSeqProperties
    <3>5. Tail(replayQueue) = SubSeq(Prefix, n + 2, Len(Prefix))
      BY <3>2
    <3>6. n + 1 = Len(Prefix) => Tail(replayQueue) = <<>>
      BY <1>5, <3>5, SubSeqEmpty
    <3>7. n + 1 # Len(Prefix) => Tail(replayQueue) # <<>>
      <4>1. n + 1 # Len(Prefix) => Len(SubSeq(Prefix, n + 2, Len(Prefix))) # 0
        BY <1>5, <2>2, <3>4
      <4>2. Len(<<>>) = 0
        OBVIOUS
      <4> QED BY <3>5, <4>1, <4>2
    <3> QED BY <3>2, <3>5, <3>6, <3>7
  <2>4. Head(replayQueue) = recording.moves[n + 1]
    BY <1>5, <2>2, <2>3
  <2>5. /\ Head(replayQueue) \in LegalMoves(gameState)
        /\ RecordedState(n) = ApplyMove(gameState, Head(replayQueue))
        /\ RecordedState(n) \in GameState
    BY <1>7, <2>2, <2>4, RecordedGame, RecordingFacts DEF ReplayInv
  <2>6. /\ gameState' = RecordedState(n) /\ replayQueue' = Tail(replayQueue)
        /\ reply' = IF Tail(replayQueue) = <<>> THEN Ok(gameState') ELSE Busy
    BY <2>5 DEF ReplayStep
  <2>7. CASE n + 1 = Len(Prefix)
    <3>1. reply'.code = "ok"
      BY <2>3, <2>6, <2>7 DEF Ok
    <3>2. AfterIndex = n
      BY <1>2, <2>2, <2>7 DEF AfterIndex
    <3>3. Initialized'
      BY <2>5, <2>6, GameAssumption DEF Initialized
    <3> QED BY <2>6, <3>1, <3>2, <3>3 DEF Available
  <2>8. CASE n + 1 # Len(Prefix)
    <3>1. ~Available'
      BY <2>3, <2>6, <2>8 DEF Available, Busy
    <3>2. LoopAt(n + 1)'
      <4>1. n + 1 \in 0..(Len(Prefix) - 1) /\ n + 1 + 1 = n + 2 /\ n + 1 - 1 = n
        BY <1>5, <2>2, <2>8
      <4> QED BY <1>6, <2>3, <2>6, <4>1 DEF LoopAt
    <3> QED BY <3>1, <3>2
  <2> QED BY <2>7, <2>8
<1>8. CASE Available'
  <2>1. reply'.code # "busy"
    BY <1>8 DEF Available
  <2> QED BY <1>1, <1>3, <1>4, <1>7, <1>8, <2>1, AnswerStep
<1>9. CASE ~Available'
  <2>1. UNCHANGED <<toWorker, toMain>>
    BY <1>9 DEF Available, Answer
  <2> QED BY <1>1, <1>3, <1>7, <1>9, <2>1, LoopStep
<1> QED BY <1>8, <1>9

\* A read of the projection leaves the game to the task.
LEMMA ReadServed ==
  ASSUME ReplayInv, Aside, toWorker # <<>>, Head(toWorker) \in ProjectionMethod,
         Read(Head(toWorker)), Answer(Head(toWorker))
  PROVE  /\ WorkerTypeOK' /\ reply'.code # "busy"
         /\ TaskShape' /\ OneRequest' /\ StampsInStep' /\ GameInStep' /\ TraceInStep'
<1> DEFINE m == Head(toWorker)
           answer == [method |-> m, result |-> reply']
<1>1. /\ UNCHANGED <<gameState, latestStamp, replayQueue>> /\ Available
      /\ reply'.code \in {"ok", "NOT_INITIALIZED", "INTERNAL_ERROR"}
  BY DEF Read, Ok, Reject
<1>2. WorkerTypeOK' /\ reply' \in Reply
  BY ReadTypeOK DEF ReplayInv, ReplayTypeOK, WorkerTypeOK
<1>3. reply'.code # "busy" /\ reply'.code # "STALE_OPERATION" /\ Available'
  BY <1>1 DEF Available
<1>4. m \notin ControllerMethod
  BY DEF ProjectionMethod, ControllerMethod
<1>5. toWorker' = Tail(toWorker) /\ toMain' = Append(toMain, answer)
  BY <1>3 DEF Answer
<1>6. /\ toMain \in Seq(Message) /\ answer \in Message
      /\ answer.method = m /\ answer.result = reply'
  BY <1>2, HeadRequest DEF Message, ReplayInv, ReplayTypeOK
<1> HIDE DEF answer, m
<1>7. \A i \in 1..Len(toMain') :
        \/ toMain'[i] = answer
        \/ i \in 1..Len(toMain) /\ toMain'[i] = toMain[i]
  BY <1>5, <1>6
<1>8. \A i \in 1..Len(toWorker') :
        i + 1 \in 1..Len(toWorker) /\ toWorker'[i] = toWorker[i + 1]
  BY <1>5, HeadRequest
<1>9. /\ UNCHANGED <<recording, destroyed, currentMoveIndex, operationToken, tasks,
                     step, lastTrace>>
      /\ Initialized' = Initialized /\ Replayable' = Replayable
      /\ ~destroyed
  BY <1>1, SameRecording, HeadRequest DEF Aside, controllerVars, Initialized
<1>10. (Unserved' => Unserved) /\ (Answered' => Answered)
  BY <1>4, <1>6, <1>7, <1>8 DEF Unserved, Answered
<1>11. /\ Len(toWorker') \in Nat /\ Len(toWorker) \in Nat /\ Len(toMain) \in Nat
  BY <1>5, HeadRequest DEF ReplayInv, ReplayTypeOK
<1>12. OneRequest'
  <2>1. ASSUME NEW i \in 1..Len(toWorker'), NEW j \in 1..Len(toWorker'),
               toWorker'[i] \in ControllerMethod, toWorker'[j] \in ControllerMethod
        PROVE  i = j
    <3>1. /\ i + 1 \in 1..Len(toWorker) /\ toWorker[i + 1] \in ControllerMethod
          /\ j + 1 \in 1..Len(toWorker) /\ toWorker[j + 1] \in ControllerMethod
      BY <1>8, <2>1
    <3>2. i + 1 = j + 1
      BY <3>1 DEF ReplayInv, OneRequest
    <3> QED BY <3>2
  <2>2. \A i, j \in 1..Len(toMain') :
          /\ toMain'[i].method \in ControllerMethod
          /\ toMain'[j].method \in ControllerMethod
          => i = j
    BY <1>4, <1>6, <1>7 DEF ReplayInv, OneRequest
  <2>3. /\ \A i \in 1..Len(toWorker') :
             toWorker'[i] \in ControllerMethod => toWorker'[i] = step'
        /\ \A i \in 1..Len(toMain') :
             toMain'[i].method \in ControllerMethod => toMain'[i].method = step'
    BY <1>4, <1>6, <1>7, <1>8, <1>9 DEF ReplayInv, OneRequest
  <2>4. /\ step' = "ready" => ~Unserved' /\ ~Answered'
        /\ ~(Unserved' /\ Answered')
    BY <1>9, <1>10 DEF ReplayInv, OneRequest
  <2> QED BY <1>3, <1>9, <2>1, <2>2, <2>3, <2>4 DEF OneRequest
<1>13. step # "ready" =>
         /\ TargetIndex' = TargetIndex /\ SecondMutation' = SecondMutation
         /\ AfterIndex' = AfterIndex /\ BeforeIndex' = BeforeIndex
         /\ TaskShape'
  BY SameServed
<1>14. TaskShape' /\ TraceInStep'
  <2>1. step = "ready" => TaskShape'
    BY <1>9 DEF TaskShape
  <2>2. TraceInStep'
    BY <1>9 DEF ReplayInv, TraceInStep
  <2> QED BY <1>13, <2>1, <2>2
<1>15. StampsInStep'
  <2>1. \A i \in 1..Len(toMain') :
          toMain'[i].result.code = "STALE_OPERATION" =>
            toMain'[i].method \in ControllerMethod /\ operationToken = 1
    BY <1>3, <1>6, <1>7 DEF ReplayInv, StampsInStep
  <2> QED BY <1>1, <1>9, <1>10, <1>13, <2>1 DEF ReplayInv, StampsInStep
<1>16. GameInStep'
  <2> SUFFICES ASSUME Replayable PROVE GameInStep'
    BY <1>9 DEF GameInStep
  <2>1. Unserved \/ Answered => step # "ready"
    BY DEF ReplayInv, OneRequest
  <2>2. /\ RecordedState(currentMoveIndex)' = RecordedState(currentMoveIndex)
        /\ step # "ready" =>
             /\ RecordedState(AfterIndex)' = RecordedState(AfterIndex)
             /\ RecordedState(BeforeIndex)' = RecordedState(BeforeIndex)
    BY <1>9, <1>13 DEF RecordedState
  <2>3. step' = "ready" /\ Initialized' =>
          gameState' = RecordedState(currentMoveIndex)'
    BY <1>1, <1>9, <2>2 DEF ReplayInv, GameInStep
  <2>4. Unserved' /\ Available' =>
          /\ Initialized' => gameState' = RecordedState(BeforeIndex)'
          /\ SecondMutation' => Initialized'
    BY <1>1, <1>9, <1>10, <1>13, <2>1, <2>2 DEF ReplayInv, GameInStep
  <2>5. ASSUME NEW i \in 1..Len(toMain'), toMain'[i].method \in ControllerMethod
        PROVE  IF toMain'[i].result.code = "ok"
               THEN Initialized' /\ gameState' = RecordedState(AfterIndex)'
               ELSE Initialized' => gameState' = RecordedState(currentMoveIndex)'
    <3>1. i \in 1..Len(toMain) /\ toMain'[i] = toMain[i]
      BY <1>4, <1>6, <1>7, <2>5
    <3>2. Answered
      BY <2>5, <3>1 DEF Answered
    <3> QED BY <1>1, <1>9, <2>1, <2>2, <2>5, <3>1, <3>2 DEF ReplayInv, GameInStep
  <2> QED BY <1>3, <2>3, <2>4, <2>5 DEF GameInStep
<1> QED BY <1>2, <1>3, <1>12, <1>14, <1>15, <1>16

\* The worker keeps step with the task, whatever it serves.
LEMMA ServeKeepsPace ==
  ASSUME ReplayInv, Serve
  PROVE  /\ WorkerTypeOK' /\ Aside
         /\ TaskShape' /\ OneRequest' /\ StampsInStep' /\ GameInStep' /\ TraceInStep'
<1>1. Aside /\ toWorker # <<>> /\ Answer(Head(toWorker))
  BY DEF Serve, Aside
<1>2. CASE Head(toWorker) = "init" /\ InitWorker(recording.restart, StampNow)
  BY <1>1, <1>2, InitServed
<1>3. CASE Head(toWorker) = "playSequence" /\ PlaySequence(Prefix, StampNow)
  BY <1>1, <1>3, PlaySequenceServed
<1>4. CASE /\ Head(toWorker) = "applyReplayMove"
           /\ WorkerApplyReplayMove(recording.moves[TargetIndex + 1], StampNow)
  BY <1>1, <1>4, ApplyServed
<1>5. CASE Head(toWorker) \in ProjectionMethod /\ Read(Head(toWorker))
  BY <1>1, <1>5, ReadServed
<1>6. CASE ReplayStep
  BY <1>1, <1>6, LoopServed
<1> QED BY <1>1, <1>2, <1>3, <1>4, <1>5, <1>6 DEF Serve

\* Serving a request keeps the types.
LEMMA ServeTypeOK ==
  ASSUME ReplayInv, Serve
  PROVE  ReplayTypeOK'
<1>1. /\ WorkerTypeOK' /\ reply' \in Reply
      /\ UNCHANGED <<recording, controllerVars, syncs, projectionVars, commands>>
      /\ toWorker # <<>> /\ Answer(Head(toWorker))
  BY ServeKeepsPace DEF Aside, Serve, WorkerTypeOK
<1>2. /\ Tail(toWorker) \in Seq(ControllerMethod \cup ProjectionMethod)
      /\ [method |-> Head(toWorker), result |-> reply'] \in Message
  BY <1>1, HeadRequest DEF Message
<1>3. toMain \in Seq(Message)
  BY DEF ReplayInv, ReplayTypeOK, Message
<1>4. toWorker' = toWorker \/ toWorker' = Tail(toWorker)
  BY <1>1 DEF Answer
<1>5. \/ toMain' = toMain
      \/ toMain' = Append(toMain, [method |-> Head(toWorker), result |-> reply'])
  BY <1>1 DEF Answer
<1>6. toWorker' \in Seq(ControllerMethod \cup ProjectionMethod)
  BY <1>2, <1>4 DEF ReplayInv, ReplayTypeOK
<1>7. toMain' \in Seq(Message)
  BY <1>2, <1>3, <1>5
<1>8. toMain' \in Seq([method : ControllerMethod \cup ProjectionMethod,
                       result : Reply])
  BY <1>7 DEF Message
<1> QED BY <1>1, <1>6, <1>8, SameRecording
        DEF ReplayInv, ReplayTypeOK, controllerVars, projectionVars

-----------------------------------------------------------------------------
(* The playback.                                                           *)

\* A move of the playback is queued, or running.
PlaybackQueued == \E i \in 1..Len(tasks) : tasks[i].kind = "playback"

\* Queueing a task keeps the playback's moves; taking the first one away
\* keeps them unless it is one.
LEMMA QueueGrows ==
  ASSUME ReplayTypeOK, NEW kind \in TaskKind, NEW index \in Int, Enqueue(kind, index)
  PROVE  /\ PlaybackQueued => PlaybackQueued'
         /\ kind = "playback" => PlaybackQueued'
<1> DEFINE t == [kind |-> kind, index |-> index]
<1>1. t \in Task /\ tasks \in Seq(Task) /\ tasks' = Append(tasks, t) /\ t.kind = kind
  BY DEF Task, Enqueue, ReplayTypeOK
<1> HIDE DEF t
<1>2. /\ Len(tasks) \in Nat /\ Len(tasks') = Len(tasks) + 1
      /\ \A i \in 1..Len(tasks) : i \in 1..Len(tasks') /\ tasks'[i] = tasks[i]
      /\ Len(tasks) + 1 \in 1..Len(tasks') /\ tasks'[Len(tasks) + 1] = t
  BY <1>1
<1> QED BY <1>1, <1>2 DEF PlaybackQueued

\* The end of another task leaves a queued playback queued.
LEMMA QueueShrinks ==
  ASSUME ReplayTypeOK, tasks # <<>>, tasks' = Tail(tasks), task.kind # "playback"
  PROVE  PlaybackQueued => PlaybackQueued'
<1>1. tasks \in Seq(Task) /\ task = tasks[1]
  BY DEF ReplayTypeOK, task
<1>2. ASSUME NEW i \in 1..Len(tasks), tasks[i].kind = "playback"
      PROVE  i - 1 \in 1..Len(tasks') /\ tasks'[i - 1] = tasks[i]
  <2>1. i # 1
    BY <1>1, <1>2
  <2> QED BY <1>1, <2>1
<1> QED BY <1>2 DEF PlaybackQueued

\* A paused playback has no timer.
LEMMA PauseStopsPlayback ==
  ASSUME PlaybackGoesOn, PauseInternal, isPlaying \in BOOLEAN
  PROVE  PlaybackGoesOn'
<1>1. CASE isPlaying
  <2>1. isPlaying' = FALSE /\ timer' = FALSE
    BY <1>1 DEF PauseInternal
  <2> QED BY <2>1 DEF PlaybackGoesOn
<1>2. CASE ~isPlaying
  <2>1. UNCHANGED <<isPlaying, timer>>
    BY <1>2 DEF PauseInternal
  <2> QED BY <1>2, <2>1 DEF PlaybackGoesOn
<1> QED BY <1>1, <1>2

\* Every step of the replay keeps the playback going, or ends it properly.
LEMMA PlaybackStep ==
  ASSUME ReplayInv, Next
  PROVE  PlaybackGoesOn' /\ RejectedIsHandled'
<1>1. /\ timer => isPlaying
      /\ isPlaying => timer \/ playbackRejected \/ PlaybackQueued
      /\ playbackRejected => step = "ready"
      /\ ReplayTypeOK /\ isPlaying \in BOOLEAN
  BY DEF ReplayInv, ReplayTypeOK, PlaybackGoesOn, PlaybackQueued, RejectedIsHandled
<1>2. CASE StepForward \/ StepBackward \/ \E index \in MoveIndex : JumpToMove(index)
  <2>1. PICK kind \in TaskKind, index \in Int :
          Command /\ UNCHANGED timer /\ Enqueue(kind, index)
    BY <1>2, RecordingFacts
       DEF StepForward, StepBackward, JumpToMove, TaskKind, ReplayInv
  <2>2. UNCHANGED <<isPlaying, timer, playbackRejected, step>>
    BY <2>1 DEF Command, Enqueue
  <2>3. PlaybackQueued => PlaybackQueued'
    BY <1>1, <2>1, QueueGrows
  <2> QED BY <1>1, <2>2, <2>3 DEF PlaybackGoesOn, PlaybackQueued, RejectedIsHandled
<1>3. CASE Play \/ SetSpeed \/ Pause \/ Destroy
  <2>1. /\ UNCHANGED <<tasks, playbackRejected, step>>
        /\ \/ isPlaying' = FALSE /\ timer' = FALSE
           \/ isPlaying' = TRUE /\ timer' = TRUE
           \/ UNCHANGED <<isPlaying, timer>>
           \/ isPlaying' = isPlaying /\ timer' = isPlaying
    BY <1>3 DEF Play, SetSpeed, Pause, Destroy, Command, PauseInternal
  <2> QED BY <1>1, <2>1 DEF PlaybackGoesOn, PlaybackQueued, RejectedIsHandled
<1>4. CASE TimerFires
  <2>1. /\ timer' = FALSE /\ Enqueue("playback", 0)
        /\ UNCHANGED <<playbackRejected, step>>
    BY <1>4 DEF TimerFires
  <2>2. PlaybackQueued'
    BY <1>1, <2>1, QueueGrows DEF TaskKind
  <2> QED BY <1>1, <2>1, <2>2 DEF PlaybackGoesOn, PlaybackQueued, RejectedIsHandled
<1>5. CASE RunTask
  <2>1. playbackRejected' = FALSE /\ tasks # <<>>
    BY <1>5 DEF RunTask, TaskDue
  <2>2. CASE playbackRejected \/ (task.kind = "playback" /\ Skipped)
    <3>1. PauseInternal
      BY <1>5, <2>2 DEF RunTask
    <3> QED BY <1>1, <2>1, <3>1, PauseStopsPlayback
            DEF RejectedIsHandled, ReplayInv
  <2>3. CASE ~(playbackRejected \/ (task.kind = "playback" /\ Skipped))
    <3>1. UNCHANGED <<isPlaying, timer>>
      BY <1>5, <2>3 DEF RunTask
    <3>2. PlaybackQueued => PlaybackQueued'
      <4>1. CASE Skipped
        BY <1>1, <1>5, <2>1, <2>3, <4>1, QueueShrinks DEF RunTask
      <4>2. CASE ~Skipped
        BY <1>5, <4>2 DEF RunTask, PlaybackQueued
      <4> QED BY <4>1, <4>2
    <3> QED BY <1>1, <2>1, <2>3, <3>1, <3>2
            DEF PlaybackGoesOn, PlaybackQueued, RejectedIsHandled
  <2> QED BY <2>2, <2>3
<1>6. CASE ReceiveTaskReply
  <2>1. step # "ready" /\ ~playbackRejected /\ tasks # <<>>
    BY <1>1, <1>6, ReplyTaken
  <2>2. CASE TaskFails
    <3>1. /\ step' = "ready" /\ tasks' = Tail(tasks)
          /\ playbackRejected' = (task.kind = "playback" /\ Tail(tasks) # <<>>)
      BY <2>2 DEF TaskFails
    <3>2. CASE task.kind = "playback" /\ Tail(tasks) = <<>>
      BY <1>1, <2>2, <3>1, <3>2, PauseStopsPlayback
         DEF TaskFails, RejectedIsHandled, ReplayInv
    <3>3. CASE task.kind = "playback" /\ Tail(tasks) # <<>>
      <4>1. UNCHANGED <<isPlaying, timer>> /\ playbackRejected'
        BY <2>2, <3>1, <3>3 DEF TaskFails
      <4> QED BY <1>1, <3>1, <4>1 DEF PlaybackGoesOn, RejectedIsHandled
    <3>4. CASE task.kind # "playback"
      <4>1. UNCHANGED <<isPlaying, timer>>
        BY <2>2, <3>4 DEF TaskFails
      <4>2. PlaybackQueued => PlaybackQueued'
        BY <1>1, <2>1, <3>1, <3>4, QueueShrinks
      <4> QED BY <1>1, <2>1, <3>1, <4>1, <4>2
              DEF PlaybackGoesOn, PlaybackQueued, RejectedIsHandled
    <3> QED BY <3>2, <3>3, <3>4
  <2>3. CASE UNCHANGED <<tasks, isPlaying, timer, playbackRejected>>
    BY <1>1, <2>1, <2>3 DEF PlaybackGoesOn, PlaybackQueued, RejectedIsHandled
  <2>4. CASE TaskLands
    <3>1. step' = "ready" /\ tasks' = Tail(tasks) /\ UNCHANGED playbackRejected
      BY <2>4 DEF TaskLands
    <3>2. CASE task.kind = "playback" /\ isPlaying
      <4>1. isPlaying' = timer'
        BY <2>4, <3>2 DEF TaskLands
      <4> QED BY <2>1, <3>1, <4>1 DEF PlaybackGoesOn, RejectedIsHandled
    <3>3. CASE ~isPlaying
      <4>1. UNCHANGED <<isPlaying, timer>>
        BY <2>4, <3>3 DEF TaskLands
      <4> QED BY <1>1, <2>1, <3>1, <3>3, <4>1 DEF PlaybackGoesOn, RejectedIsHandled
    <3>4. CASE task.kind # "playback"
      <4>1. UNCHANGED <<isPlaying, timer>>
        BY <2>4, <3>4 DEF TaskLands
      <4>2. PlaybackQueued => PlaybackQueued'
        BY <1>1, <2>1, <3>1, <3>4, QueueShrinks
      <4> QED BY <1>1, <2>1, <3>1, <4>1, <4>2
              DEF PlaybackGoesOn, PlaybackQueued, RejectedIsHandled
    <3> QED BY <3>2, <3>3, <3>4
  <2> QED BY <1>6, <2>2, <2>3, <2>4 DEF ReceiveTaskReply
<1>7. CASE RunProjection \/ ReceiveProjectionReply \/ CanvasCrash
           \/ CanvasRecovered \/ Serve
  <2>1. UNCHANGED controllerVars
    BY <1>7 DEF RunProjection, ReceiveProjectionReply, CanvasCrash,
                CanvasRecovered, Serve
  <2>2. UNCHANGED <<tasks, isPlaying, timer, playbackRejected, step>>
    BY <2>1 DEF controllerVars
  <2> QED BY <1>1, <2>2 DEF PlaybackGoesOn, PlaybackQueued, RejectedIsHandled
<1> QED BY <1>2, <1>3, <1>4, <1>5, <1>6, <1>7 DEF Next, Controls, EventLoop

-----------------------------------------------------------------------------
(* The theorems.                                                           *)

\* Each replay starts at the recording's start, with nothing queued.
LEMMA InitReplayInv ==
  ASSUME Init
  PROVE  ReplayInv
<1>1. /\ recording \in Recordings /\ recording.start \in Seed
      /\ totalMoves \in Nat
  BY ReplayAssumption DEF Init, totalMoves
<1>2. /\ gameState \in GameState \cup {Null}
      /\ gameState # Null => gameState = InitialState(recording.start)
  BY <1>1, GameAssumption DEF Init
<1>3. reply \in Reply /\ Available
  BY <1>2, ReplyTypes DEF Init, Available, ErrorCode
<1>4. latestStamp = [epoch |-> 1, token |-> 1] /\ latestStamp \in Stamp
  BY DEF Init, Stamp
<1>5. WorkerTypeOK
  BY <1>2, <1>3, <1>4 DEF Init, WorkerTypeOK
<1>6. lifecycle \in Lifecycle /\ view \in View
  <2>1. NoView \in View
    BY DEF NoView, View
  <2>2. gameState # Null => ViewOf(gameState, Null) \in View
    BY <1>2, GameAssumption DEF ViewOf, View
  <2> QED BY <2>1, <2>2, GameAssumption DEF Init, Lifecycle, LifecycleFromTerminal
<1>7. /\ destroyed = FALSE /\ currentMoveIndex = -1 /\ isPlaying = FALSE
      /\ timer = FALSE /\ operationToken = 0 /\ tasks = <<>> /\ step = "ready"
      /\ lastTrace = Null /\ playbackRejected = FALSE /\ syncs = 0
      /\ syncStep = "ready" /\ syncGot = Null /\ syncFailed = FALSE
      /\ commands = 0 /\ toWorker = <<>> /\ toMain = <<>>
  BY DEF Init
<1>8. ReplayTypeOK
  <2>1. currentMoveIndex \in MoveIndex
    BY <1>1, <1>7 DEF MoveIndex
  <2>2. /\ destroyed \in BOOLEAN /\ isPlaying \in BOOLEAN /\ timer \in BOOLEAN
        /\ playbackRejected \in BOOLEAN /\ syncFailed \in BOOLEAN
        /\ operationToken \in Nat /\ syncs \in Nat /\ commands \in Nat
        /\ step \in ControllerMethod \cup {"ready"} /\ lastTrace \in Move \cup {Null}
        /\ syncStep \in ProjectionMethod \cup {"ready"}
        /\ syncGot \in GameState \cup {Null}
    BY <1>7
  <2>3. /\ tasks \in Seq(Task)
        /\ toWorker \in Seq(ControllerMethod \cup ProjectionMethod)
        /\ toMain \in Seq([method : ControllerMethod \cup ProjectionMethod,
                            result : Reply])
    BY <1>7
  <2> QED BY <1>1, <1>5, <1>6, <2>1, <2>2, <2>3 DEF ReplayTypeOK
<1>9. GameInStep
  <2> SUFFICES ASSUME Replayable PROVE GameInStep
    BY DEF GameInStep
  <2>1. Initialized => gameState = RecordedState(currentMoveIndex)
    BY <1>2, <1>7 DEF Initialized, Replayable, RecordedState
  <2> QED BY <1>3, <1>7, <2>1 DEF GameInStep, Unserved
<1>10. TaskShape /\ OneRequest /\ TraceInStep /\ RejectedIsHandled /\ PlaybackGoesOn
  BY <1>3, <1>7 DEF TaskShape, OneRequest, Unserved, Answered, TraceInStep,
                    RejectedIsHandled, PlaybackGoesOn
<1>11. StampsInStep
  BY <1>4, <1>7 DEF StampsInStep, Unserved
<1> QED BY <1>8, <1>9, <1>10, <1>11 DEF ReplayInv

\* The inductive invariant holds throughout a replay.
THEOREM ReplayInvariant == Spec => []ReplayInv
<1>1. Init => ReplayInv
  BY InitReplayInv
<1>2. ReplayInv /\ [Next]_vars => ReplayInv'
  <2> SUFFICES ASSUME ReplayInv, [Next]_vars PROVE ReplayInv'
    OBVIOUS
  <2>1. CASE UNCHANGED vars
    <3>1. AsideStep
      BY <2>1, AsideSteps
    <3>2. ReplayTypeOK' /\ PlaybackGoesOn' /\ RejectedIsHandled'
      <4>1. UNCHANGED <<workerVars, recording, controllerVars, syncs,
                        projectionVars, commands, toWorker, toMain>>
        BY <2>1 DEF vars, replayVars
      <4>2. ReplayTypeOK'
        BY <4>1, SameWorkerTypeOK, SameRecording
           DEF ReplayInv, ReplayTypeOK, controllerVars, projectionVars
      <4>3. UNCHANGED <<tasks, isPlaying, timer, playbackRejected, step>>
        BY <4>1 DEF controllerVars
      <4> QED BY <4>2, <4>3 DEF ReplayInv, PlaybackGoesOn, RejectedIsHandled
    <3> QED BY <3>1, <3>2, AsideStepKeepsPace DEF ReplayInv
  <2>2. CASE Next
    <3>1. PlaybackGoesOn' /\ RejectedIsHandled'
      BY <2>2, PlaybackStep
    <3>2. ReplayTypeOK'
      BY <2>2, ControlTypeOK, TimerTypeOK, ProjectionTypeOK, RunTaskTypeOK,
         ReceiveTaskReplyTypeOK, ServeTypeOK DEF Next, EventLoop
    <3>3. TaskShape' /\ OneRequest' /\ StampsInStep' /\ GameInStep' /\ TraceInStep'
      <4>1. CASE Controls \/ TimerFires \/ CanvasCrash \/ CanvasRecovered
                 \/ RunProjection \/ ReceiveProjectionReply
        BY <4>1, AsideSteps, AsideStepKeepsPace
      <4> QED BY <2>2, <4>1, RunTaskKeepsPace, ReceiveTaskReplyKeepsPace,
                 ServeKeepsPace DEF Next, EventLoop
    <3> QED BY <3>1, <3>2, <3>3 DEF ReplayInv
  <2> QED BY <2>1, <2>2
<1> QED BY <1>1, <1>2, PTL DEF Spec

\* The variables have their types, and the index stays in the recording
\* (ReplayTypeOK), for every game and every recording.
THEOREM ReplayTypeCorrect == Spec => []ReplayTypeOK
<1>1. ReplayInv => ReplayTypeOK
  BY DEF ReplayInv
<1> QED BY <1>1, ReplayInvariant, PTL

\* The move counter never lies (IndexMatchesGame): however steps, jumps and
\* playback are queued and whichever of them fail, between two tasks of the
\* controller the worker's game is the recorded one the index names.
THEOREM CounterNeverLies == Spec => []IndexMatchesGame
<1>1. ReplayInv => IndexMatchesGame
  BY DEF ReplayInv, GameInStep, TraceInStep, IndexMatchesGame
<1> QED BY <1>1, ReplayInvariant, PTL

\* The worker rejects as stale at most the controller's very first request
\* (OnlyFirstStampIsStale).
THEOREM OnlyFirstRequestIsStale == Spec => []OnlyFirstStampIsStale
<1>1. ReplayInv => OnlyFirstStampIsStale
  BY DEF ReplayInv, StampsInStep, OnlyFirstStampIsStale, Answers
<1> QED BY <1>1, ReplayInvariant, PTL

\* A playback never stalls and never outlives a pause (PlaybackGoesOn).
THEOREM PlaybackNeverStalls == Spec => []PlaybackGoesOn
<1>1. ReplayInv => PlaybackGoesOn
  BY DEF ReplayInv
<1> QED BY <1>1, ReplayInvariant, PTL

-----------------------------------------------------------------------------
(* The first request.  Its stamp is the one the store's initGame has used, *)
(* so that the first thing a replay does comes to nothing.                 *)

\* Up to its second request the controller has moved nothing.
Opening ==
  /\ currentMoveIndex = -1
  /\ gameState \in {Null, InitialState(recording.start)}
  /\ history = <<>>
  /\ Available
  /\ \A i \in 1..Len(toMain) :
       toMain[i].method \in ControllerMethod => toMain[i].result.code # "ok"

OpeningInv == latestStamp.token >= 1 /\ (operationToken <= 1 => Opening)

\* The worker turns the first request down, and a projection only reads.
LEMMA FirstRequestIsRejected ==
  ASSUME ReplayInv, ReplayInv', OpeningInv, Serve
  PROVE  OpeningInv'
<1>1. /\ toWorker # <<>> /\ operationToken' = operationToken /\ operationToken \in Nat
      /\ currentMoveIndex' = currentMoveIndex /\ recording' = recording
  BY DEF Serve, controllerVars, ReplayInv, ReplayTypeOK
<1>2. /\ latestStamp \in Stamp /\ latestStamp.epoch = 1 /\ latestStamp.token \in Nat
      /\ latestStamp # Null
  BY WorkerAssumption DEF ReplayInv, StampsInStep, Stamp
<1>3. StampNow.epoch = 1 /\ StampNow.token = operationToken
  BY DEF StampNow
<1>4. Head(toWorker) \in ControllerMethod => operationToken >= 1
  BY <1>1, HeadRequest DEF ReplayInv, StampsInStep
<1>5. latestStamp'.token >= 1
  <2>1. \/ latestStamp' = latestStamp
        \/ latestStamp' = StampNow /\ Head(toWorker) \in ControllerMethod
    BY DEF Serve, InitWorker, PlaySequence, WorkerApplyReplayMove, Read, ReplayStep,
           RejectStale, RejectUninitialized, ControllerMethod
  <2> QED BY <1>2, <1>3, <1>4, <2>1 DEF OpeningInv
<1>6. ASSUME operationToken <= 1 PROVE Opening'
  <2>1. Opening
    BY <1>6 DEF OpeningInv
  <2>2. ~Fresh(StampNow)
    BY <1>1, <1>2, <1>3, <1>6 DEF OpeningInv, Fresh, Newer
  <2>3. \/ RejectStale(StampNow)
        \/ RejectUninitialized
        \/ Head(toWorker) \in ProjectionMethod /\ Read(Head(toWorker))
    BY <2>1, <2>2, Zenon DEF Opening, Serve, InitWorker, PlaySequence,
                             WorkerApplyReplayMove, ReplayStep
  <2>4. gameState' = gameState /\ history' = history
    BY <2>3 DEF RejectStale, RejectUninitialized, Read
  <2>5. reply'.code # "busy"
    BY <2>3 DEF RejectStale, RejectUninitialized, Read, Reject, Ok
  <2>6. Head(toWorker) \in ControllerMethod => reply'.code # "ok"
    BY <2>3 DEF RejectStale, RejectUninitialized, Reject, ControllerMethod, ProjectionMethod
  <2>7. toMain' = Append(toMain, [method |-> Head(toWorker), result |-> reply'])
    BY <2>5 DEF Serve, Answer
  <2>8. toMain \in Seq(Message)
    BY DEF ReplayInv, ReplayTypeOK, Message
  <2>9. ASSUME NEW i \in 1..Len(toMain'), toMain'[i].method \in ControllerMethod
        PROVE  toMain'[i].result.code # "ok"
    <3>1. CASE i \in 1..Len(toMain)
      <4>1. toMain'[i] = toMain[i]
        BY <2>7, <2>8, <3>1
      <4> QED BY <2>1, <2>9, <3>1, <4>1 DEF Opening
    <3>2. CASE i = Len(toMain) + 1
      <4>1. toMain'[i] = [method |-> Head(toWorker), result |-> reply']
        BY <2>7, <2>8, <3>2
      <4> QED BY <2>6, <2>9, <4>1
    <3> QED BY <2>7, <2>8, <3>1, <3>2
  <2> QED BY <1>1, <2>1, <2>4, <2>5, <2>9 DEF Opening, Available
<1> QED BY <1>1, <1>5, <1>6 DEF OpeningInv

\* A step of the main thread moves nothing before the second request.
LEMMA MainKeepsOpening ==
  ASSUME ReplayInv, OpeningInv, Next, ~Serve
  PROVE  OpeningInv'
<1>1. UNCHANGED <<workerVars, recording>>
  BY DEF Next, Controls, EventLoop, StepForward, StepBackward, JumpToMove, Play, Pause,
         SetSpeed, Command, Destroy, TimerFires, RunTask, RunProjection,
         ReceiveTaskReply, ReceiveProjectionReply, CanvasCrash, CanvasRecovered
<1>2. UNCHANGED <<gameState, history, latestStamp, reply, recording>>
  BY <1>1 DEF workerVars
<1>3. operationToken \in Nat /\ operationToken' \in {operationToken, operationToken + 1}
  BY DEF Next, Controls, EventLoop, StepForward, StepBackward, JumpToMove, Play, Pause,
         SetSpeed, Command, Destroy, TimerFires, RunTask, Post, RunProjection,
         ReceiveTaskReply, TaskFails, TaskLands, ReceiveProjectionReply, CanvasCrash,
         CanvasRecovered, controllerVars, ReplayInv, ReplayTypeOK
<1>4. ASSUME operationToken' <= 1 PROVE Opening'
  <2>1. operationToken <= 1 /\ Opening
    BY <1>3, <1>4 DEF OpeningInv
  <2>2. CASE ReceiveTaskReply
    <3>1. Head(toMain).result.code # "ok"
      BY <2>1, <2>2, FirstAnswer DEF ReceiveTaskReply, Opening, ReplayInv
    <3>2. currentMoveIndex' = currentMoveIndex /\ toMain' = Tail(toMain)
      BY <2>2, <3>1 DEF ReceiveTaskReply, TaskFails
    <3>3. toMain # <<>>
      BY <2>2 DEF ReceiveTaskReply
    <3> QED BY <1>2, <2>1, <3>2, <3>3, FirstAnswer DEF Opening, Available, ReplayInv
  <2>3. CASE ~ReceiveTaskReply
    <3>1. currentMoveIndex' = currentMoveIndex
      BY <2>3 DEF Next, Controls, EventLoop, StepForward, StepBackward, JumpToMove, Play,
         Pause, SetSpeed, Command, Destroy, TimerFires, RunTask, RunProjection,
         ReceiveProjectionReply, CanvasCrash, CanvasRecovered, controllerVars
    <3>2. \/ toMain' = toMain
          \/ toMain' = <<>>
          \/ toMain # <<>> /\ toMain' = Tail(toMain)
      BY <2>3 DEF Next, Controls, EventLoop, StepForward, StepBackward, JumpToMove, Play,
         Pause, SetSpeed, Command, Destroy, TimerFires, RunTask, RunProjection,
         ReceiveProjectionReply, CanvasCrash, CanvasRecovered
    <3> QED BY <1>2, <2>1, <3>1, <3>2, FirstAnswer DEF Opening, Available, ReplayInv
  <2> QED BY <2>2, <2>3
<1> QED BY <1>2, <1>4 DEF OpeningInv

\* The first thing asked of a replay moves nothing: until the controller has
\* posted a second request, the index is that of the start and the game the
\* one it was started with, in every game and whatever the controls do.  So no
\* first step forward ever advances (section 6 of the README).
THEOREM FirstRequestMovesNothing ==
  Spec => [](operationToken <= 1 =>
               /\ currentMoveIndex = -1
               /\ gameState \in {Null, InitialState(recording.start)}
               /\ history = <<>>)
<1>1. Init => OpeningInv
  BY DEF Init, OpeningInv, Opening, Available, Ok, Reject
<1>2. ReplayInv /\ ReplayInv' /\ OpeningInv /\ [Next]_vars => OpeningInv'
  <2>1. ASSUME OpeningInv, UNCHANGED vars PROVE OpeningInv'
    BY <2>1 DEF vars, workerVars, replayVars, controllerVars, OpeningInv, Opening, Available
  <2> QED BY <2>1, FirstRequestIsRejected, MainKeepsOpening
<1>3. OpeningInv => (operationToken <= 1 =>
                       /\ currentMoveIndex = -1
                       /\ gameState \in {Null, InitialState(recording.start)}
                       /\ history = <<>>)
  BY DEF OpeningInv, Opening
<1> QED BY <1>1, <1>2, <1>3, ReplayInvariant, PTL DEF Spec
=============================================================================
