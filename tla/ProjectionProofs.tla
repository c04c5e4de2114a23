-------------------------- MODULE ProjectionProofs --------------------------
(***************************************************************************)
(* Proof that the screen of a replay catches up with the worker's game     *)
(* (ProjectionSettles), for every game and any use of the controls.  A     *)
(* projection may read the game in the middle of a task, or between two    *)
(* tasks, but then another one is due, or the task will append it when it  *)
(* lands: a task that has changed a replayable game cannot fail.  And that *)
(* a replay nobody touches has less to do with every step.                 *)
(***************************************************************************)
EXTENDS ReplayProofs, FiniteSetTheorems

\* The running task has changed the game, or is about to go on changing it.
OkAnswer ==
  \E i \in 1..Len(toMain) :
    toMain[i].method \in ControllerMethod /\ toMain[i].result.code = "ok"
Dirty == step # "ready" /\ (SecondMutation \/ OkAnswer)

\* The second mutation of a task of a replayable recording succeeds.
SecondsSucceed ==
  Replayable /\ step # "ready" /\ SecondMutation =>
    \A i \in 1..Len(toMain) :
      toMain[i].method \in ControllerMethod => toMain[i].result.code = "ok"

\* There is at most one read of the projection, and it is the awaited one.
ReadAsked == \E i \in 1..Len(toWorker) : toWorker[i] \in ProjectionMethod
ReadAnswered == \E i \in 1..Len(toMain) : toMain[i].method \in ProjectionMethod

OneRead ==
  /\ ~(ReadAsked /\ ReadAnswered)
  /\ \A i, j \in 1..Len(toWorker) :
       toWorker[i] \in ProjectionMethod /\ toWorker[j] \in ProjectionMethod => i = j
  /\ \A i, j \in 1..Len(toMain) :
       /\ toMain[i].method \in ProjectionMethod
       /\ toMain[j].method \in ProjectionMethod
       => i = j
  /\ \A i \in 1..Len(toWorker) :
       toWorker[i] \in ProjectionMethod => toWorker[i] = syncStep
  /\ \A i \in 1..Len(toMain) :
       toMain[i].method \in ProjectionMethod => toMain[i].method = syncStep

\* When no projection is due any more and the task at work, if there is one,
\* has left the game alone, the screen shows the game, or the running
\* projection is reading it.
FollowsGame ==
  Replayable /\ ~syncFailed /\ ~destroyed /\ syncs = 0 /\ ~Dirty =>
    /\ syncStep = "ready" =>
         lifecycle = "idle" \/ view = ViewOf(gameState, lastTrace)
    /\ syncStep = "publishMicroturn" =>
         syncGot = gameState /\ ~TerminalResult(gameState)
    /\ \A i \in 1..Len(toMain) :
         toMain[i].method \in ProjectionMethod /\ toMain[i].result.code = "ok"
           => Initialized /\ toMain[i].result.value = gameState

\* The inductive invariant.
ProjectionInv ==
  ReplayInv /\ SecondsSucceed /\ OneRead /\ FollowsGame /\ ProjectionSettles

-----------------------------------------------------------------------------
(* Steps that leave the projection alone.                                  *)

\* The methods of tasks are not those of projections.
LEMMA MethodsDiffer == ControllerMethod \cap ProjectionMethod = {}
BY DEF ControllerMethod, ProjectionMethod

\* The task in progress is the same one, with the same answers or fewer.
LEMMA SecondsStillSucceed ==
  ASSUME ProjectionInv, AsideStep
  PROVE  SecondsSucceed'
<1> SUFFICES ASSUME Replayable', step' # "ready", SecondMutation',
                    NEW i \in 1..Len(toMain'),
                    toMain'[i].method \in ControllerMethod
             PROVE  toMain'[i].result.code = "ok"
  BY DEF SecondsSucceed
<1>1. /\ UNCHANGED <<recording, step, currentMoveIndex>> /\ step # "ready"
  BY DEF AsideStep
<1>2. tasks # <<>> /\ tasks' # <<>> /\ Head(tasks') = Head(tasks)
  BY <1>1 DEF ProjectionInv, ReplayInv, TaskShape, AsideStep
<1>3. SecondMutation /\ Replayable
  BY <1>1, <1>2, SameTask, SameRecording DEF SecondMutation
<1>4. \E j \in 1..Len(toMain) : toMain[j] = toMain'[i]
  BY AsideChannel DEF ProjectionInv, ReplayInv
<1> QED BY <1>1, <1>3, <1>4 DEF ProjectionInv, SecondsSucceed

\* A controller's request, or nothing, is posted, and an answer may be taken.
LEMMA ReadsAlone ==
  ASSUME ProjectionInv, UNCHANGED syncStep,
         \/ toWorker' = toWorker
         \/ \E m \in ControllerMethod : toWorker' = Append(toWorker, m),
         toMain' = toMain \/ (toMain # <<>> /\ toMain' = Tail(toMain))
  PROVE  OneRead'
<1>1. /\ toWorker \in Seq(ControllerMethod \cup ProjectionMethod)
      /\ toMain \in Seq(Message)
  BY DEF ProjectionInv, ReplayInv, ReplayTypeOK, Message
<1>2. \A i \in 1..Len(toWorker') :
        toWorker'[i] \in ProjectionMethod =>
          i \in 1..Len(toWorker) /\ toWorker[i] = toWorker'[i]
  <2>1. CASE toWorker' = toWorker
    BY <2>1
  <2>2. ASSUME NEW m \in ControllerMethod, toWorker' = Append(toWorker, m)
        PROVE  \A i \in 1..Len(toWorker') :
                 toWorker'[i] \in ProjectionMethod =>
                   i \in 1..Len(toWorker) /\ toWorker[i] = toWorker'[i]
    BY <1>1, <2>2, MethodsDiffer
  <2> QED BY <2>1, <2>2
<1>3. PICK k \in {0, 1} : \A i \in 1..Len(toMain') :
        i + k \in 1..Len(toMain) /\ toMain[i + k] = toMain'[i]
  BY <1>1
<1>4. (ReadAsked' => ReadAsked) /\ (ReadAnswered' => ReadAnswered)
  BY <1>2, <1>3 DEF ReadAsked, ReadAnswered
<1>5. ASSUME NEW i \in 1..Len(toMain'), NEW j \in 1..Len(toMain'),
             toMain'[i].method \in ProjectionMethod,
             toMain'[j].method \in ProjectionMethod
      PROVE  i = j
  <2>1. /\ i + k \in 1..Len(toMain) /\ toMain[i + k].method \in ProjectionMethod
        /\ j + k \in 1..Len(toMain) /\ toMain[j + k].method \in ProjectionMethod
    BY <1>3, <1>5
  <2>2. i + k = j + k
    BY <2>1 DEF ProjectionInv, OneRead
  <2> QED BY <2>2
<1>6. /\ \A i \in 1..Len(toWorker') :
           toWorker'[i] \in ProjectionMethod => toWorker'[i] = syncStep
      /\ \A i \in 1..Len(toMain') :
           toMain'[i].method \in ProjectionMethod => toMain'[i].method = syncStep
  BY <1>2, <1>3 DEF ProjectionInv, OneRead
<1>7. \A i, j \in 1..Len(toWorker') :
        toWorker'[i] \in ProjectionMethod /\ toWorker'[j] \in ProjectionMethod => i = j
  BY <1>2 DEF ProjectionInv, OneRead
<1> QED BY <1>4, <1>5, <1>6, <1>7 DEF ProjectionInv, OneRead

\* What the projection relies on lasts while the game stays as it is and no
\* task is left behind that changed it.
LEMMA StillFollows ==
  ASSUME ProjectionInv,
         UNCHANGED <<gameState, lastTrace, recording, projectionVars>>,
         ~destroyed' => ~destroyed,
         syncs' = 0 => syncs = 0,
         syncs' = 0 /\ Dirty /\ Replayable => Dirty',
         \A i \in 1..Len(toMain') :
           toMain'[i].method \in ProjectionMethod =>
             \E j \in 1..Len(toMain) : toMain[j] = toMain'[i]
  PROVE  FollowsGame'
<1> SUFFICES ASSUME Replayable', ~syncFailed', ~destroyed', syncs' = 0, ~Dirty'
             PROVE  /\ syncStep' = "ready" =>
                         lifecycle' = "idle" \/ view' = ViewOf(gameState, lastTrace)
                    /\ syncStep' = "publishMicroturn" =>
                         syncGot' = gameState /\ ~TerminalResult(gameState)
                    /\ \A i \in 1..Len(toMain') :
                         /\ toMain'[i].method \in ProjectionMethod
                         /\ toMain'[i].result.code = "ok"
                         => Initialized /\ toMain'[i].result.value = gameState
  BY DEF FollowsGame, ViewOf, Initialized
<1>1. /\ UNCHANGED <<syncStep, syncGot, syncFailed, lifecycle, view>>
      /\ Replayable
  BY SameRecording DEF projectionVars
<1>2. ~syncFailed /\ ~destroyed /\ syncs = 0 /\ ~Dirty
  BY <1>1
<1> QED BY <1>1, <1>2 DEF ProjectionInv, FollowsGame

\* A screen that follows the game has settled when everything is quiet.
LEMMA FollowingSettles ==
  ASSUME ReplayInv', FollowsGame', ~destroyed'
  PROVE  ProjectionSettles'
<1>1. tasks' = <<>> => ~Dirty'
  BY DEF ReplayInv, TaskShape, Dirty
<1> QED BY <1>1 DEF FollowsGame, ProjectionSettles, Quiet

-----------------------------------------------------------------------------
(* The controls and the timer.                                             *)

\* The task in progress stays dirty.
LEMMA StillDirty ==
  ASSUME ReplayInv, AsideStep, Dirty,
         \A i \in 1..Len(toMain) : toMain[i].method \in ControllerMethod =>
           \E j \in 1..Len(toMain') : toMain'[j] = toMain[i]
  PROVE  Dirty'
<1>1. /\ UNCHANGED <<recording, step, currentMoveIndex>> /\ step # "ready"
  BY DEF AsideStep, Dirty
<1>2. tasks # <<>> /\ tasks' # <<>> /\ Head(tasks') = Head(tasks)
  BY <1>1 DEF ReplayInv, TaskShape, AsideStep
<1>3. SecondMutation' = SecondMutation
  BY <1>1, <1>2, SameTask DEF SecondMutation
<1>4. OkAnswer => OkAnswer'
  BY DEF OkAnswer
<1> QED BY <1>1, <1>3, <1>4 DEF Dirty

\* The controls and the timer keep the projection in step.
LEMMA ControlsKeepProjection ==
  ASSUME ProjectionInv, Controls \/ TimerFires
  PROVE  /\ SecondsSucceed' /\ OneRead' /\ FollowsGame'
         /\ destroyed' => ProjectionSettles'
<1>1. AsideStep
  BY AsideSteps DEF ProjectionInv
<1>2. CASE Destroy
  <2>1. /\ destroyed' /\ toWorker' = <<>> /\ toMain' = <<>>
        /\ UNCHANGED <<gameState, recording, tasks, lastTrace, syncs, projectionVars>>
    BY <1>2 DEF Destroy, workerVars
  <2>2. OneRead'
    BY <2>1 DEF OneRead, ReadAsked, ReadAnswered
  <2>3. ProjectionSettles'
    BY <2>1, SameRecording
       DEF ProjectionInv, ProjectionSettles, Quiet, projectionVars, ViewOf
  <2> QED BY <1>1, <2>1, <2>2, <2>3, SecondsStillSucceed DEF FollowsGame
<1>3. CASE ~Destroy
  <2>1. /\ UNCHANGED <<gameState, recording, lastTrace, projectionVars,
                       toWorker, toMain, destroyed>>
        /\ ~destroyed
    BY <1>3 DEF Controls, StepForward, StepBackward, JumpToMove, Play, Pause,
                SetSpeed, TimerFires, Command, workerVars, EventLoopFree
  <2>2. syncs \in Nat
    BY DEF ProjectionInv, ReplayInv, ReplayTypeOK
  <2>3. syncs' \in {syncs, syncs + 1, syncs + 2}
    BY <1>3 DEF Controls, StepForward, StepBackward, JumpToMove, Play, Pause,
                SetSpeed, TimerFires, Enqueue, PauseInternal, Emit
  <2>4. syncs' = 0 => syncs = 0
    BY <2>2, <2>3
  <2>5. Dirty => Dirty'
    BY <1>1, <2>1, StillDirty DEF ProjectionInv
  <2>6. FollowsGame'
    BY <2>1, <2>4, <2>5, StillFollows
  <2>7. OneRead'
    BY <2>1, ReadsAlone DEF projectionVars
  <2> QED BY <1>1, <2>1, <2>6, <2>7, SecondsStillSucceed
<1> QED BY <1>2, <1>3

-----------------------------------------------------------------------------
(* The running task.                                                       *)

\* A task that starts has left the game alone so far.
LEMMA RunTaskKeepsProjection ==
  ASSUME ProjectionInv, RunTask
  PROVE  SecondsSucceed' /\ OneRead' /\ FollowsGame' /\ ~destroyed'
<1>1. /\ step = "ready" /\ ~destroyed /\ ~Answered
      /\ UNCHANGED <<workerVars, recording, destroyed, lastTrace, projectionVars,
                     toMain>>
  BY DEF RunTask, TaskDue, ProjectionInv, ReplayInv, OneRequest
<1>2. \/ toWorker' = toWorker
      \/ \E m \in ControllerMethod : toWorker' = Append(toWorker, m)
  BY DEF RunTask, Post, ControllerMethod
<1>3. syncs \in Nat /\ syncs' \in {syncs, syncs + 1}
  BY DEF ProjectionInv, ReplayInv, ReplayTypeOK, RunTask, PauseInternal, Emit
<1>4. ~Dirty /\ (syncs' = 0 => syncs = 0)
  BY <1>1, <1>3 DEF Dirty
<1>5. FollowsGame'
  BY <1>1, <1>4, StillFollows DEF workerVars
<1>6. OneRead'
  BY <1>1, <1>2, ReadsAlone DEF projectionVars
<1>7. SecondsSucceed'
  BY <1>1 DEF SecondsSucceed, Answered
<1> QED BY <1>1, <1>5, <1>6, <1>7

\* A task that has changed the game goes on or lands, and then emits; one that
\* fails has left the game alone.
LEMMA ReplyKeepsProjection ==
  ASSUME ProjectionInv, ReceiveTaskReply
  PROVE  SecondsSucceed' /\ OneRead' /\ FollowsGame' /\ ~destroyed'
<1>1. /\ step # "ready" /\ ~destroyed /\ OnlyProjectionsLeft
      /\ UNCHANGED <<workerVars, recording, destroyed>>
      /\ tasks # <<>>
  BY ReplyTaken DEF ProjectionInv
<1>2. /\ toMain # <<>> /\ toMain' = Tail(toMain) /\ UNCHANGED projectionVars
      /\ Head(toMain).method \in ControllerMethod
  BY DEF ReceiveTaskReply
<1>3. Head(toMain) = toMain[1] /\ 1 \in 1..Len(toMain)
  BY <1>2, FirstAnswer DEF ProjectionInv, ReplayInv
<1>4. SecondsSucceed'
  BY <1>1 DEF SecondsSucceed, OnlyProjectionsLeft
<1>5. syncs \in Nat
  BY DEF ProjectionInv, ReplayInv, ReplayTypeOK
<1>6. CASE Head(toMain).result.code # "ok" /\ TaskFails
  <2>1. /\ UNCHANGED <<lastTrace, toWorker>>
        /\ syncs' \in {syncs, syncs + 1}
    BY <1>6 DEF TaskFails, PauseInternal, Emit
  <2>2. Replayable => ~Dirty
    <3>1. \A i \in 1..Len(toMain) : toMain[i].method \in ControllerMethod => i = 1
      BY <1>2, <1>3 DEF ProjectionInv, ReplayInv, OneRequest
    <3>2. ~OkAnswer
      BY <1>3, <1>6, <3>1 DEF OkAnswer
    <3>3. Replayable => ~SecondMutation
      BY <1>1, <1>2, <1>3, <1>6 DEF ProjectionInv, SecondsSucceed
    <3> QED BY <3>2, <3>3 DEF Dirty
  <2>3. syncs' = 0 => syncs = 0
    BY <1>5, <2>1
  <2>4. FollowsGame'
    BY <1>1, <1>2, <2>1, <2>2, <2>3, StillFollows DEF workerVars, OnlyProjectionsLeft
  <2>5. OneRead'
    BY <1>2, <2>1, ReadsAlone DEF projectionVars
  <2> QED BY <1>1, <1>4, <2>4, <2>5
<1>7. CASE /\ Head(toMain).result.code = "ok"
           /\ NextMethod # "ready"
           /\ Post(NextMethod)
           /\ UNCHANGED <<tasks, currentMoveIndex, lastTrace, isPlaying, timer,
                          playbackRejected, syncs>>
  <2>1. \/ NextMethod = "playSequence"
        \/ NextMethod = "applyReplayMove" /\ step # "applyReplayMove" /\ TracesLanding
    BY <1>7 DEF NextMethod
  <2>2. NextMethod \in ControllerMethod
    BY <2>1 DEF ControllerMethod
  <2>3. /\ step' = NextMethod /\ toWorker' = Append(toWorker, NextMethod)
        /\ task' = task
    BY <1>7 DEF Post, task
  <2>4. NextMethod = "applyReplayMove" => task.kind = "jumpToMove"
    <3>1. step \in {"init", "playSequence", "applyReplayMove"}
      BY <1>1, ReplyTaken DEF ControllerMethod, ProjectionInv
    <3>2. step # "applyReplayMove" => task.kind \in {"stepBackward", "jumpToMove"}
      BY <1>1, <3>1 DEF ProjectionInv, ReplayInv, TaskShape
    <3> QED BY <2>1, <3>2 DEF TracesLanding
  <2>5. Dirty'
    BY <2>1, <2>3, <2>4 DEF Dirty, SecondMutation
  <2>6. FollowsGame'
    BY <2>5 DEF FollowsGame
  <2>7. OneRead'
    BY <1>2, <2>2, <2>3, ReadsAlone DEF projectionVars
  <2> QED BY <1>1, <1>4, <2>6, <2>7
<1>8. CASE Head(toMain).result.code = "ok" /\ NextMethod = "ready" /\ TaskLands
  <2>1. /\ UNCHANGED toWorker /\ syncs' \in {syncs + 1, syncs + 2}
    BY <1>8 DEF TaskLands, Emit
  <2>2. FollowsGame'
    BY <1>5, <2>1 DEF FollowsGame
  <2>3. OneRead'
    BY <1>2, <2>1, ReadsAlone DEF projectionVars
  <2> QED BY <1>1, <1>4, <2>2, <2>3
<1> QED BY <1>6, <1>7, <1>8 DEF ReceiveTaskReply

-----------------------------------------------------------------------------
(* The projection.                                                         *)

\* The canvas crashes and comes back: the lifecycle leaves idle to neither.
LEMMA CanvasKeepsProjection ==
  ASSUME ProjectionInv, CanvasCrash \/ CanvasRecovered
  PROVE  SecondsSucceed' /\ OneRead' /\ FollowsGame' /\ ~destroyed'
<1>1. /\ UNCHANGED <<workerVars, recording, controllerVars, syncs, syncStep,
                     syncGot, syncFailed, view, toWorker, toMain>>
      /\ lifecycle # "idle" /\ ~destroyed
  BY DEF CanvasCrash, CanvasRecovered, EventLoopFree
<1>2. AsideStep
  BY AsideSteps DEF ProjectionInv
<1>3. Dirty => Dirty'
  BY <1>1, <1>2, StillDirty DEF ProjectionInv
<1>4. OneRead'
  BY <1>1, ReadsAlone
<1>5. FollowsGame'
  <2>1. /\ UNCHANGED <<gameState, lastTrace, recording, destroyed>>
        /\ Replayable' = Replayable /\ Initialized' = Initialized
        /\ ViewOf(gameState, lastTrace)' = ViewOf(gameState, lastTrace)
    BY <1>1, SameRecording DEF workerVars, controllerVars, ViewOf, Initialized
  <2> QED BY <1>1, <1>3, <2>1 DEF ProjectionInv, FollowsGame
<1>6. ~destroyed'
  BY <1>1 DEF controllerVars
<1> QED BY <1>2, <1>4, <1>5, <1>6, SecondsStillSucceed

\* A projection that starts has an answer before it only if it was running.
LEMMA RunProjectionKeepsProjection ==
  ASSUME ProjectionInv, RunProjection
  PROVE  SecondsSucceed' /\ OneRead' /\ FollowsGame' /\ ~destroyed'
<1>1. /\ UNCHANGED <<workerVars, recording, controllerVars, toMain>>
      /\ syncStep = "ready" /\ ~destroyed' /\ AsideStep
  BY AsideSteps
     DEF RunProjection, ProjectionDue, controllerVars, ProjectionInv
<1>2. ~ReadAsked /\ ~ReadAnswered
  BY <1>1 DEF ProjectionInv, OneRead, ReadAsked, ReadAnswered, ProjectionMethod
<1>3. ~ReadAnswered'
  BY <1>1, <1>2 DEF ReadAnswered
<1>4. toWorker \in Seq(ControllerMethod \cup ProjectionMethod)
  BY DEF ProjectionInv, ReplayInv, ReplayTypeOK
<1>5. CASE syncFailed /\ ProjectionFails /\ UNCHANGED toWorker
  <2>1. syncStep' = "ready" /\ (syncFailed' \/ lifecycle' = "idle")
    BY <1>5 DEF ProjectionFails
  <2>2. FollowsGame'
    BY <1>3, <2>1 DEF FollowsGame, ReadAnswered
  <2>3. OneRead'
    BY <1>1, <1>5, <2>1, ReadsAlone
  <2> QED BY <1>1, <2>2, <2>3, SecondsStillSucceed
<1>6. CASE /\ syncStep' = "getState" /\ toWorker' = Append(toWorker, "getState")
  <2>1. FollowsGame'
    BY <1>3, <1>6 DEF FollowsGame, ReadAnswered
  <2>2. \A i \in 1..Len(toWorker') :
          toWorker'[i] \in ProjectionMethod =>
            i = Len(toWorker) + 1 /\ toWorker'[i] = "getState"
    BY <1>2, <1>4, <1>6 DEF ReadAsked
  <2>3. OneRead'
    BY <1>3, <1>6, <2>2 DEF OneRead, ReadAnswered
  <2> QED BY <1>1, <2>1, <2>3, SecondsStillSucceed
<1> QED BY <1>5, <1>6 DEF RunProjection

\* The projection's answer arrives: no other read is under way.
LEMMA ReadTaken ==
  ASSUME ProjectionInv, ReceiveProjectionReply
  PROVE  /\ Head(toMain).method = syncStep /\ syncStep \in ProjectionMethod
         /\ ~ReadAsked /\ ~ReadAnswered' /\ (Dirty => Dirty')
         /\ UNCHANGED <<gameState, recording, lastTrace, destroyed, syncs>>
         /\ ~destroyed /\ AsideStep
         /\ Replayable /\ ~syncFailed /\ syncs = 0 /\ ~Dirty
              /\ Head(toMain).result.code = "ok"
              => Head(toMain).result.value = gameState /\ gameState \in GameState
<1>1. /\ toMain # <<>> /\ toMain' = Tail(toMain) /\ ~destroyed
      /\ Head(toMain).method \in ProjectionMethod /\ AsideStep
      /\ UNCHANGED <<gameState, recording, lastTrace, destroyed, syncs>>
  BY AsideSteps DEF ReceiveProjectionReply, EventLoopFree, ProjectionInv,
                    workerVars, controllerVars
<1>2. /\ 1 \in 1..Len(toMain) /\ toMain[1] = Head(toMain)
      /\ Len(toMain) \in Nat /\ Len(toMain') = Len(toMain) - 1
      /\ \A i \in 1..Len(toMain') :
           i + 1 \in 1..Len(toMain) /\ toMain'[i] = toMain[i + 1]
  BY <1>1, FirstAnswer DEF ProjectionInv, ReplayInv
<1>3. ReadAnswered /\ Head(toMain).method = syncStep
  BY <1>1, <1>2 DEF ReadAnswered, ProjectionInv, OneRead
<1>4. ~ReadAsked
  BY <1>3 DEF ProjectionInv, OneRead
<1>5. ~ReadAnswered'
  <2> SUFFICES ASSUME NEW i \in 1..Len(toMain'),
                      toMain'[i].method \in ProjectionMethod
               PROVE  FALSE
    BY DEF ReadAnswered
  <2>1. i + 1 \in 1..Len(toMain) /\ toMain[i + 1].method \in ProjectionMethod
        /\ i + 1 # 1
    BY <1>2
  <2> QED BY <1>1, <1>2, <2>1 DEF ProjectionInv, OneRead
<1>6. Dirty => Dirty'
  <2>1. ASSUME NEW i \in 1..Len(toMain), toMain[i].method \in ControllerMethod
        PROVE  \E j \in 1..Len(toMain') : toMain'[j] = toMain[i]
    <3>1. i # 1
      BY <1>1, <1>2, <2>1, MethodsDiffer
    <3>2. i - 1 \in 1..Len(toMain') /\ i - 1 + 1 = i
      BY <1>2, <3>1
    <3> QED BY <1>2, <3>2
  <2> QED BY <1>1, <2>1, StillDirty DEF ProjectionInv
<1>7. Replayable /\ ~syncFailed /\ syncs = 0 /\ ~Dirty
        /\ Head(toMain).result.code = "ok"
        => Head(toMain).result.value = gameState /\ gameState \in GameState
  BY <1>1, <1>2 DEF ProjectionInv, FollowsGame, Initialized, ReplayInv,
                    ReplayTypeOK, WorkerTypeOK
<1> QED BY <1>1, <1>3, <1>4, <1>5, <1>6, <1>7

\* An answer to a projection keeps it in step.
LEMMA ReadKeepsProjection ==
  ASSUME ProjectionInv, ReceiveProjectionReply
  PROVE  SecondsSucceed' /\ OneRead' /\ FollowsGame' /\ ~destroyed'
<1> DEFINE value == Head(toMain).result.value
<1>1. /\ \A i \in 1..Len(toWorker) : toWorker[i] \notin ProjectionMethod
      /\ \A i \in 1..Len(toMain') : toMain'[i].method \notin ProjectionMethod
      /\ (Dirty => Dirty') /\ AsideStep /\ ~destroyed'
      /\ UNCHANGED <<gameState, recording, lastTrace, syncs>>
  <2>1. /\ ~ReadAsked /\ ~ReadAnswered' /\ (Dirty => Dirty') /\ AsideStep
        /\ ~destroyed'
        /\ UNCHANGED <<gameState, recording, lastTrace, syncs>>
    BY ReadTaken
  <2> QED BY <2>1 DEF ReadAsked, ReadAnswered
<1>2. Replayable /\ ~syncFailed /\ syncs = 0 /\ ~Dirty
        /\ Head(toMain).result.code = "ok"
        => value = gameState /\ gameState \in GameState
  BY ReadTaken
<1>3. SecondsSucceed' /\ ~destroyed'
  BY <1>1, SecondsStillSucceed
<1>4. toWorker \in Seq(ControllerMethod \cup ProjectionMethod)
  BY DEF ProjectionInv, ReplayInv, ReplayTypeOK
<1>5. ASSUME UNCHANGED toWorker
      PROVE  OneRead'
  BY <1>1, <1>5 DEF OneRead, ReadAsked, ReadAnswered
\* It is enough that the projection ends with an empty screen, fails, or does
\* the right thing when nothing else is due.
<1>6. ASSUME Replayable /\ ~syncFailed /\ syncs = 0 /\ ~Dirty =>
               /\ syncStep' = "ready" =>
                    \/ lifecycle' = "idle" \/ syncFailed'
                    \/ view' = ViewOf(gameState, lastTrace)
               /\ syncStep' = "publishMicroturn" =>
                    syncGot' = gameState /\ ~TerminalResult(gameState),
             syncFailed => syncFailed' \/ (syncStep' = "ready" /\ lifecycle' = "idle")
      PROVE  FollowsGame'
  <2>1. /\ Replayable' = Replayable
        /\ ViewOf(gameState, lastTrace)' = ViewOf(gameState, lastTrace)
    BY <1>1, SameRecording DEF ViewOf
  <2>2. TerminalResult(gameState') = TerminalResult(gameState)
    BY <1>1
  <2>3. syncFailed => syncFailed' \/ (syncStep' = "ready" /\ lifecycle' = "idle")
    BY <1>6
  <2> QED BY <1>1, <1>6, <2>1, <2>2, <2>3 DEF FollowsGame
<1>7. ProjectionFails => FollowsGame'
  BY <1>6 DEF ProjectionFails
<1>8. ASSUME NEW state, NEW microturn, NEW terminal,
             HydrateFromReplayStep(state, microturn, terminal),
             Replayable /\ ~syncFailed /\ syncs = 0 /\ ~Dirty =>
               ViewOf(gameState, lastTrace) =
                 [state |-> state, microturn |-> microturn,
                  terminal |-> terminal, trace |-> lastTrace]
      PROVE  FollowsGame'
  BY <1>6, <1>7, <1>8 DEF HydrateFromReplayStep
<1>9. CASE Head(toMain).result.code # "ok" /\ ProjectionFails /\ UNCHANGED toWorker
  BY <1>3, <1>5, <1>7, <1>9
<1>10. CASE /\ Head(toMain).result.code = "ok" /\ TerminalResult(value)
           /\ HydrateFromReplayStep(value, Null, TRUE) /\ UNCHANGED toWorker
  <2>1. Replayable /\ ~syncFailed /\ syncs = 0 /\ ~Dirty =>
          ViewOf(gameState, lastTrace) =
            [state |-> value, microturn |-> Null, terminal |-> TRUE,
             trace |-> lastTrace]
    <3>1. Replayable /\ ~syncFailed /\ syncs = 0 /\ ~Dirty =>
            value = gameState /\ TerminalResult(gameState) = TRUE
      BY <1>10, <1>2, GameAssumption
    <3> QED BY <3>1 DEF ViewOf
  <2> QED BY <1>3, <1>5, <1>8, <1>10, <2>1
<1>11. CASE /\ Head(toMain).result.code = "ok" /\ ~TerminalResult(value)
           /\ syncGot' = value /\ syncStep' = "publishMicroturn"
           /\ toWorker' = Append(toWorker, "publishMicroturn")
           /\ UNCHANGED <<syncFailed, lifecycle, view>>
  <2>1. FollowsGame'
    BY <1>6, <1>11, <1>2
  <2>2. \A i \in 1..Len(toWorker') :
          toWorker'[i] \in ProjectionMethod =>
            i = Len(toWorker) + 1 /\ toWorker'[i] = "publishMicroturn"
    BY <1>1, <1>4, <1>11
  <2>3. OneRead'
    BY <1>1, <1>11, <2>2 DEF OneRead, ReadAnswered
  <2> QED BY <1>3, <2>1, <2>3
<1>12. CASE /\ Head(toMain).method = "publishMicroturn"
            /\ Head(toMain).result.code = "ok"
            /\ HydrateFromReplayStep(syncGot, value, FALSE) /\ UNCHANGED toWorker
  <2>1. Replayable /\ ~syncFailed /\ syncs = 0 /\ ~Dirty =>
          /\ value = gameState /\ syncGot = gameState
          /\ TerminalResult(gameState) = FALSE
    BY <1>12, <1>2, GameAssumption, ReadTaken DEF ProjectionInv, FollowsGame
  <2>2. Replayable /\ ~syncFailed /\ syncs = 0 /\ ~Dirty =>
          ViewOf(gameState, lastTrace) =
            [state |-> syncGot, microturn |-> value, terminal |-> FALSE,
             trace |-> lastTrace]
    BY <2>1 DEF ViewOf
  <2> QED BY <1>3, <1>5, <1>8, <1>12, <2>2
<1> QED BY <1>9, <1>10, <1>11, <1>12 DEF ReceiveProjectionReply

-----------------------------------------------------------------------------
(* The worker.                                                             *)

\* In the loop of playSequence the next move of a replayable game is legal.
LEMMA LoopMoveIsLegal ==
  ASSUME ReplayInv, Replayable, ~Available, ~destroyed, step = "playSequence"
  PROVE  Head(replayQueue) \in LegalMoves(gameState)
<1>1. PICK n \in Nat : LoopAt(n)
  BY DEF ReplayInv, GameInStep
<1>2. /\ Prefix \in Seq(Move) /\ Len(Prefix) \in 0..totalMoves /\ totalMoves \in Nat
      /\ \A i \in 1..Len(Prefix) : Prefix[i] = recording.moves[i]
  BY PrefixFacts, RecordingFacts DEF ReplayInv, TaskShape
<1>3. /\ n + 1 \in 1..Len(Prefix) /\ n \in MoveIndex /\ n >= 0
      /\ Len(Prefix) \in (n + 1)..Len(Prefix)
      /\ replayQueue = SubSeq(Prefix, n + 1, Len(Prefix))
      /\ gameState = RecordedState(n - 1)
  BY <1>1, <1>2 DEF LoopAt, MoveIndex
<1>4. Head(replayQueue) = Prefix[n + 1]
  BY <1>2, <1>3, HeadTailOfSubSeq
<1> QED BY <1>2, <1>3, <1>4, RecordedGame DEF ReplayInv

\* A read answers with the present game.  A request of the task is refused only
\* without touching the game, and, in a replayable game, only if it is the
\* first of its task.
LEMMA ServedOutcome ==
  ASSUME ReplayInv, Serve
  PROVE  /\ toWorker # <<>> /\ Answer(Head(toWorker)) /\ Aside
         /\ \/ /\ Head(toWorker) \in ProjectionMethod
               /\ UNCHANGED gameState /\ reply'.code # "busy"
               /\ reply'.code = "ok" => reply'.value = gameState /\ Initialized
            \/ /\ Head(toWorker) \in ControllerMethod
               /\ reply'.code = "busy" => step = "playSequence"
               /\ reply'.code \notin {"ok", "busy"} =>
                    /\ UNCHANGED gameState
                    /\ Replayable => ~SecondMutation
<1>1. toWorker # <<>> /\ Answer(Head(toWorker)) /\ Aside
  BY DEF Serve, Aside
<1>2. Head(toWorker) \in ControllerMethod =>
        step = Head(toWorker) /\ step # "ready" /\ Unserved
  BY <1>1, HeadRequest
<1>3. CASE Head(toWorker) = "init" /\ InitWorker(recording.restart, StampNow)
  <2>1. /\ reply'.code # "busy" /\ (reply'.code # "ok" => UNCHANGED gameState)
    BY <1>3 DEF InitWorker, RejectStale, InitState, SetupThrows, Reject, Ok
  <2>2. ~SecondMutation
    BY <1>2, <1>3 DEF ControllerMethod, SecondMutation
  <2> QED BY <1>1, <1>3, <2>1, <2>2 DEF ControllerMethod
<1>4. CASE Head(toWorker) = "playSequence" /\ PlaySequence(Prefix, StampNow)
  <2>1. /\ step = "playSequence" /\ SecondMutation /\ Unserved /\ Available
    BY <1>2, <1>4 DEF ControllerMethod, SecondMutation, PlaySequence
  <2>2. Fresh(StampNow)
    BY <2>1, StampOfRequest
  <2>3. Replayable => Initialized
    BY <2>1 DEF ReplayInv, GameInStep
  <2>4. UNCHANGED gameState
    BY <1>4 DEF PlaySequence, RejectStale, RejectUninitialized
  <2>5. Initialized => reply' \in {Ok(gameState), Busy}
    BY <1>4, <2>2 DEF PlaySequence, RejectStale, RejectUninitialized
  <2>6. Initialized => reply'.code \in {"ok", "busy"}
    BY <2>5 DEF Ok, Busy
  <2> QED BY <1>1, <1>4, <2>1, <2>3, <2>4, <2>6 DEF ControllerMethod
<1>5. CASE /\ Head(toWorker) = "applyReplayMove"
           /\ WorkerApplyReplayMove(recording.moves[TargetIndex + 1], StampNow)
  <2> DEFINE move == recording.moves[TargetIndex + 1]
  <2>1. /\ step = "applyReplayMove" /\ Unserved /\ Available
    BY <1>2, <1>5 DEF ControllerMethod, WorkerApplyReplayMove
  <2>2. TracesLanding /\ TargetIndex \in MoveIndex /\ TargetIndex >= 0
    BY <2>1 DEF ReplayInv, TaskShape, TracesLanding
  <2> HIDE DEF move
  <2>3. WorkerApplyReplayMove(move, StampNow)
    BY <1>5 DEF move
  <2>4. /\ reply'.code # "busy" /\ (reply'.code # "ok" => UNCHANGED gameState)
        /\ reply'.code # "ok" => \/ ~Initialized \/ ~Fresh(StampNow)
                                 \/ move \notin LegalMoves(gameState)
    BY <2>3 DEF WorkerApplyReplayMove, RejectStale, RejectUninitialized,
                Advance, Reject, Ok
  <2>5. ASSUME Replayable, SecondMutation
        PROVE  Initialized /\ Fresh(StampNow) /\ move \in LegalMoves(gameState)
    <3>1. Initialized /\ gameState = RecordedState(TargetIndex - 1)
      BY <2>1, <2>5 DEF ReplayInv, GameInStep, BeforeIndex
    <3>2. move \in LegalMoves(RecordedState(TargetIndex - 1))
      BY <2>2, <2>5, RecordedGame DEF move, ReplayInv
    <3> QED BY <2>1, <2>5, <3>1, <3>2, StampOfRequest
  <2> QED BY <1>1, <1>5, <2>4, <2>5 DEF ControllerMethod
<1>6. CASE Head(toWorker) \in ProjectionMethod /\ Read(Head(toWorker))
  <2>1. /\ UNCHANGED gameState /\ reply'.code # "busy"
        /\ reply'.code = "ok" => reply'.value = gameState /\ Initialized
    BY <1>6 DEF Read, Ok, Reject
  <2> QED BY <1>1, <1>6, <2>1
<1>7. CASE ReplayStep
  <2>1. ~Available /\ ~destroyed
    BY <1>1, <1>7, HeadRequest DEF ReplayStep
  <2>2. Head(toWorker) = "playSequence"
    BY <2>1 DEF ReplayInv, OneRequest
  <2>3. Head(toWorker) \in ControllerMethod /\ step = "playSequence"
    BY <1>2, <2>2 DEF ControllerMethod
  <2>4. reply'.code \notin {"ok", "busy"} =>
          UNCHANGED gameState /\ Head(replayQueue) \notin LegalMoves(gameState)
    BY <1>7 DEF ReplayStep, Ok, Busy
  <2>5. Replayable => Head(replayQueue) \in LegalMoves(gameState)
    BY <2>1, <2>3, LoopMoveIsLegal
  <2> QED BY <1>1, <2>3, <2>4, <2>5
<1> QED BY <1>3, <1>4, <1>5, <1>6, <1>7 DEF Serve

\* Serving a request keeps the projection in step.
LEMMA ServeKeepsProjection ==
  ASSUME ProjectionInv, Serve
  PROVE  SecondsSucceed' /\ OneRead' /\ FollowsGame' /\ ~destroyed'
<1> DEFINE m == Head(toWorker)
           answer == [method |-> m, result |-> reply']
<1>1. /\ toWorker # <<>> /\ Answer(m) /\ Aside
      /\ \/ /\ m \in ProjectionMethod
            /\ UNCHANGED gameState /\ reply'.code # "busy"
            /\ reply'.code = "ok" => reply'.value = gameState /\ Initialized
         \/ /\ m \in ControllerMethod
            /\ reply'.code = "busy" => step = "playSequence"
            /\ reply'.code \notin {"ok", "busy"} =>
                 /\ UNCHANGED gameState
                 /\ Replayable => ~SecondMutation
  BY ServedOutcome DEF ProjectionInv
<1>2. /\ m = toWorker[1] /\ 1 \in 1..Len(toWorker)
      /\ Len(toWorker) \in Nat /\ Len(Tail(toWorker)) = Len(toWorker) - 1
      /\ \A i \in 1..Len(Tail(toWorker)) :
           i + 1 \in 1..Len(toWorker) /\ Tail(toWorker)[i] = toWorker[i + 1]
      /\ ~destroyed
      /\ m \in ControllerMethod => ~Answered /\ step = m /\ step # "ready"
  BY <1>1, HeadRequest DEF ProjectionInv
<1>3. /\ UNCHANGED <<recording, destroyed, currentMoveIndex, tasks, step, lastTrace,
                     syncs, syncStep, syncGot, syncFailed, lifecycle, view>>
  BY <1>1 DEF Aside, controllerVars, projectionVars
<1>4. /\ SecondMutation' = SecondMutation /\ Replayable' = Replayable
      /\ ViewOf(gameState, lastTrace)' = ViewOf(gameState', lastTrace)
  BY <1>3, SameRecording DEF SecondMutation, task, ViewOf
<1>5. reply' \in Reply
  BY ServeKeepsPace DEF ProjectionInv, WorkerTypeOK
<1>6. \/ reply'.code = "busy" /\ toWorker' = toWorker /\ toMain' = toMain
      \/ /\ reply'.code # "busy" /\ toWorker' = Tail(toWorker)
         /\ toMain' = Append(toMain, answer)
  BY <1>1 DEF Answer
<1>7. /\ toMain \in Seq(Message)
      /\ answer.method = m /\ answer.result = reply'
      /\ m \in ControllerMethod \cup ProjectionMethod => answer \in Message
  BY <1>5 DEF ProjectionInv, ReplayInv, ReplayTypeOK, Message
<1> HIDE DEF answer
<1> HIDE DEF m
\* The channel towards the main thread: what was there, and the answer.
<1>8. /\ Len(toMain) \in Nat
      /\ \A i \in 1..Len(toMain) : i \in 1..Len(toMain') /\ toMain'[i] = toMain[i]
      /\ \A i \in 1..Len(toMain') :
           \/ i \in 1..Len(toMain) /\ toMain'[i] = toMain[i]
           \/ i = Len(toMain) + 1 /\ toMain'[i] = answer /\ reply'.code # "busy"
      /\ reply'.code # "busy" =>
           Len(toMain) + 1 \in 1..Len(toMain') /\ toMain'[Len(toMain) + 1] = answer
  <2>1. CASE toMain' = toMain /\ reply'.code = "busy"
    BY <1>7, <2>1
  <2>2. CASE toMain' = Append(toMain, answer) /\ reply'.code # "busy"
    BY <1>1, <1>7, <2>2
  <2> QED BY <1>6, <2>1, <2>2
<1>9. SecondsSucceed'
  <2> SUFFICES ASSUME Replayable, step # "ready", SecondMutation,
                      NEW i \in 1..Len(toMain'),
                      toMain'[i].method \in ControllerMethod
               PROVE  toMain'[i].result.code = "ok"
    BY <1>3, <1>4 DEF SecondsSucceed
  <2>1. CASE i \in 1..Len(toMain) /\ toMain'[i] = toMain[i]
    BY <2>1 DEF ProjectionInv, SecondsSucceed
  <2>2. CASE toMain'[i] = answer /\ reply'.code # "busy"
    BY <1>1, <1>7, <2>2, MethodsDiffer
  <2> QED BY <1>8, <2>1, <2>2
<1>10. ASSUME NEW i \in 1..Len(toWorker')
       PROVE  \E k \in {0, 1} :
                /\ i + k \in 1..Len(toWorker) /\ toWorker'[i] = toWorker[i + k]
                /\ k = IF reply'.code = "busy" THEN 0 ELSE 1
  BY <1>2, <1>6
<1>11. OneRead'
  <2>1. ReadAsked' => ReadAsked
    BY <1>10 DEF ReadAsked
  <2>2. \A i, j \in 1..Len(toWorker') :
          toWorker'[i] \in ProjectionMethod /\ toWorker'[j] \in ProjectionMethod
            => i = j
    <3> SUFFICES ASSUME NEW i \in 1..Len(toWorker'), NEW j \in 1..Len(toWorker'),
                        toWorker'[i] \in ProjectionMethod,
                        toWorker'[j] \in ProjectionMethod
                 PROVE  i = j
      OBVIOUS
    <3> DEFINE k == IF reply'.code = "busy" THEN 0 ELSE 1
    <3>1. /\ i + k \in 1..Len(toWorker) /\ toWorker[i + k] \in ProjectionMethod
          /\ j + k \in 1..Len(toWorker) /\ toWorker[j + k] \in ProjectionMethod
      BY <1>10
    <3>2. i + k = j + k
      BY <3>1 DEF ProjectionInv, OneRead
    <3> QED BY <3>2
  <2>3. \A i \in 1..Len(toWorker') :
          toWorker'[i] \in ProjectionMethod => toWorker'[i] = syncStep
    BY <1>10 DEF ProjectionInv, OneRead
  <2>4. CASE m \in ControllerMethod
    <3>1. \A i \in 1..Len(toMain') :
            toMain'[i].method \in ProjectionMethod =>
              i \in 1..Len(toMain) /\ toMain'[i] = toMain[i]
      BY <1>7, <1>8, <2>4, MethodsDiffer
    <3>2. ReadAnswered' => ReadAnswered
      BY <3>1 DEF ReadAnswered
    <3> QED BY <1>3, <2>1, <2>2, <2>3, <3>1, <3>2 DEF ProjectionInv, OneRead
  <2>5. CASE m \in ProjectionMethod
    <3>1. ReadAsked /\ ~ReadAnswered /\ m = syncStep /\ reply'.code # "busy"
      BY <1>1, <1>2, <2>5, MethodsDiffer DEF ProjectionInv, OneRead, ReadAsked
    <3>2. \A i \in 1..Len(toMain') :
            toMain'[i].method \in ProjectionMethod =>
              i = Len(toMain) + 1 /\ toMain'[i].method = syncStep
      BY <1>7, <1>8, <3>1 DEF ReadAnswered
    <3>3. ~ReadAsked'
      <4> SUFFICES ASSUME NEW i \in 1..Len(toWorker'),
                          toWorker'[i] \in ProjectionMethod
                   PROVE  FALSE
        BY DEF ReadAsked
      <4>1. /\ i + 1 \in 1..Len(toWorker) /\ toWorker[i + 1] \in ProjectionMethod
            /\ i + 1 # 1
        BY <1>10, <3>1
      <4>2. i + 1 = 1
        BY <1>2, <2>5, <4>1 DEF ProjectionInv, OneRead
      <4> QED BY <4>1, <4>2
    <3> QED BY <1>3, <2>2, <2>3, <3>2, <3>3 DEF OneRead
  <2> QED BY <1>1, <2>4, <2>5
<1>12. FollowsGame'
  <2>1. OkAnswer => OkAnswer'
    BY <1>8 DEF OkAnswer
  <2>2. Dirty => Dirty'
    BY <1>3, <1>4, <2>1 DEF Dirty
  <2>3. Dirty' \/ UNCHANGED gameState
    <3>1. CASE m \in ControllerMethod /\ reply'.code = "busy"
      BY <1>1, <1>3, <3>1, MethodsDiffer DEF Dirty, SecondMutation
    <3>2. CASE m \in ControllerMethod /\ reply'.code = "ok"
      BY <1>2, <1>3, <1>7, <1>8, <3>2 DEF Dirty, OkAnswer
    <3> QED BY <1>1, <3>1, <3>2
  <2>4. CASE Dirty'
    BY <2>4 DEF FollowsGame
  <2>5. CASE UNCHANGED gameState /\ ~Dirty'
    <3> SUFFICES ASSUME Replayable, ~syncFailed, syncs = 0
                 PROVE  FollowsGame'
      BY <1>3, <1>4 DEF FollowsGame
    <3>1. /\ ~Dirty /\ Initialized' = Initialized
          /\ ViewOf(gameState, lastTrace)' = ViewOf(gameState, lastTrace)
          /\ TerminalResult(gameState') = TerminalResult(gameState)
      BY <1>3, <2>2, <2>5 DEF Initialized, ViewOf
    <3>2. /\ syncStep = "ready" =>
               lifecycle = "idle" \/ view = ViewOf(gameState, lastTrace)
          /\ syncStep = "publishMicroturn" =>
               syncGot = gameState /\ ~TerminalResult(gameState)
          /\ \A i \in 1..Len(toMain) :
               toMain[i].method \in ProjectionMethod /\ toMain[i].result.code = "ok"
                 => Initialized /\ toMain[i].result.value = gameState
      BY <1>2, <3>1 DEF ProjectionInv, FollowsGame
    <3>3. \A i \in 1..Len(toMain') :
            toMain'[i].method \in ProjectionMethod /\ toMain'[i].result.code = "ok"
              => Initialized /\ toMain'[i].result.value = gameState
      BY <1>1, <1>7, <1>8, <3>2, MethodsDiffer
    <3> QED BY <1>3, <2>5, <3>1, <3>2, <3>3 DEF FollowsGame
  <2> QED BY <2>3, <2>4, <2>5
<1> QED BY <1>2, <1>3, <1>9, <1>11, <1>12

-----------------------------------------------------------------------------
(* The theorem.                                                            *)

\* A replay begins with its projection in step.
LEMMA InitProjectionInv ==
  ASSUME Init
  PROVE  ProjectionInv
<1>1. /\ step = "ready" /\ toWorker = <<>> /\ toMain = <<>> /\ syncStep = "ready"
      /\ lastTrace = Null
      /\ lifecycle = "idle" \/ view = ViewOf(gameState, lastTrace)
  BY DEF Init
<1>2. SecondsSucceed /\ OneRead /\ FollowsGame /\ ProjectionSettles
  BY <1>1 DEF SecondsSucceed, OneRead, ReadAsked, ReadAnswered, FollowsGame,
              ProjectionSettles
<1> QED BY <1>2, InitReplayInv DEF ProjectionInv

\* A step that changes nothing keeps the projection in step.
LEMMA StutterKeepsProjection ==
  ASSUME ProjectionInv, UNCHANGED vars
  PROVE  SecondsSucceed' /\ OneRead' /\ FollowsGame' /\ ProjectionSettles'
<1>1. UNCHANGED <<workerVars, recording, controllerVars, syncs, projectionVars,
                  toWorker, toMain>>
  BY DEF vars, replayVars
<1>2. AsideStep
  BY AsideSteps DEF ProjectionInv
<1>3. UNCHANGED <<gameState, lastTrace, tasks, destroyed, syncStep, syncGot,
                  syncFailed, lifecycle, view>>
  BY <1>1 DEF workerVars, controllerVars, projectionVars
<1>4. Dirty => Dirty'
  BY <1>1, <1>2, StillDirty DEF ProjectionInv
<1>5. FollowsGame'
  BY <1>1, <1>3, <1>4, StillFollows
<1>6. OneRead'
  BY <1>1, <1>3, ReadsAlone
<1>7. ProjectionSettles'
  BY <1>1, <1>3, SameRecording
     DEF ProjectionInv, ProjectionSettles, Quiet, ViewOf
<1> QED BY <1>2, <1>5, <1>6, <1>7, SecondsStillSucceed

\* Together they are inductive.
THEOREM ProjectionInvariant == Spec => []ProjectionInv
<1>1. ProjectionInv /\ ReplayInv' /\ [Next]_vars => ProjectionInv'
  <2> SUFFICES ASSUME ProjectionInv, ReplayInv', [Next]_vars
               PROVE  /\ SecondsSucceed' /\ OneRead' /\ FollowsGame'
                      /\ ProjectionSettles'
    BY DEF ProjectionInv
  <2>1. CASE Controls \/ TimerFires
    BY <2>1, ControlsKeepProjection, FollowingSettles
  <2>2. CASE RunTask
    BY <2>2, RunTaskKeepsProjection, FollowingSettles
  <2>3. CASE ReceiveTaskReply
    BY <2>3, ReplyKeepsProjection, FollowingSettles
  <2>4. CASE RunProjection
    BY <2>4, RunProjectionKeepsProjection, FollowingSettles
  <2>5. CASE ReceiveProjectionReply
    BY <2>5, ReadKeepsProjection, FollowingSettles
  <2>6. CASE Serve
    BY <2>6, ServeKeepsProjection, FollowingSettles
  <2>7. CASE CanvasCrash \/ CanvasRecovered
    BY <2>7, CanvasKeepsProjection, FollowingSettles
  <2>8. CASE UNCHANGED vars
    BY <2>8, StutterKeepsProjection
  <2> QED BY <2>1, <2>2, <2>3, <2>4, <2>5, <2>6, <2>7, <2>8 DEF Next, EventLoop
<1> QED BY <1>1, InitProjectionInv, ReplayInvariant, PTL DEF Spec

\* When a replayable game has come to rest the screen shows the worker's game
\* and the trace that led there (ProjectionSettles).
THEOREM ScreenCatchesUp == Spec => []ProjectionSettles
<1>1. ProjectionInv => ProjectionSettles
  BY DEF ProjectionInv
<1> QED BY <1>1, ProjectionInvariant, PTL

-----------------------------------------------------------------------------
(* A replay runs down.                                                     *)

\* The queued tasks the user asked for.
Asked == {i \in 1..Len(tasks) : tasks[i].kind # "playback"}
CommandsLeft == Cardinality(Asked)

MovesLeft == totalMoves - 1 - currentMoveIndex

\* The queued tasks, and the one the timer is to queue
TasksLeft == Len(tasks) + (IF timer THEN 2 ELSE 0)

MethodsLeft ==
  CASE step = "ready" -> 4
    [] step = "init" -> 3
    [] step = "playSequence" -> 2
    [] OTHER -> 1

ReadsLeft ==
  3 * syncs + (CASE syncStep = "getState" -> 2
                 [] syncStep = "publishMicroturn" -> 1
                 [] OTHER -> 0)

LoopLeft == IF Available THEN totalMoves + 1 ELSE Len(replayQueue)

\* What there is to do before a replay comes to rest, the weightiest first
ToGo == <<CommandsLeft, MovesLeft, TasksLeft, MethodsLeft, ReadsLeft,
          Len(toWorker), LoopLeft>>

\* Lexicographically less is left to do.
NearerToRest ==
  \E k \in 1..7 : ToGo'[k] < ToGo[k] /\ \A j \in 1..(k - 1) : ToGo'[j] = ToGo[j]

\* All of it is counted in natural numbers.
LEMMA ToGoCounts ==
  ASSUME ReplayTypeOK
  PROVE  /\ IsFiniteSet(Asked)
         /\ \A k \in 1..7 : ToGo[k] \in Nat
<1>1. tasks \in Seq(Task) /\ Len(tasks) \in Nat
  BY DEF ReplayTypeOK
<1>2. IsFiniteSet(Asked)
  <2>1. IsFiniteSet(1..Len(tasks))
    BY <1>1, FS_Interval
  <2> QED BY <2>1, FS_Subset DEF Asked
<1>3. CommandsLeft \in Nat
  BY <1>2, FS_CardinalityType DEF CommandsLeft
<1>4. MovesLeft \in Nat
  <2>1. totalMoves \in Nat
    BY RecordingFacts
  <2>2. currentMoveIndex \in -1..(totalMoves - 1)
    BY DEF ReplayTypeOK, MoveIndex
  <2> QED BY <2>1, <2>2 DEF MovesLeft
<1>5. TasksLeft \in Nat
  BY <1>1 DEF TasksLeft, ReplayTypeOK
<1>6. MethodsLeft \in Nat
  BY DEF MethodsLeft
<1>7. ReadsLeft \in Nat
  BY DEF ReadsLeft, ReplayTypeOK
<1>8. Len(toWorker) \in Nat
  BY DEF ReplayTypeOK
<1>9. LoopLeft \in Nat
  <2>1. totalMoves \in Nat
    BY RecordingFacts
  <2>2. replayQueue \in Seq(Move)
    BY DEF ReplayTypeOK, WorkerTypeOK
  <2> QED BY <2>1, <2>2 DEF LoopLeft
<1> QED BY <1>2, <1>3, <1>4, <1>5, <1>6, <1>7, <1>8, <1>9 DEF ToGo

\* What the lighter entries do does not count when a weightier one is less.
LEMMA LessTaskWork ==
  ASSUME \/ CommandsLeft' < CommandsLeft
         \/ CommandsLeft' = CommandsLeft /\ MovesLeft' < MovesLeft
         \/ /\ CommandsLeft' = CommandsLeft /\ MovesLeft' = MovesLeft
            /\ \/ TasksLeft' < TasksLeft
               \/ TasksLeft' = TasksLeft /\ MethodsLeft' < MethodsLeft
  PROVE  NearerToRest
<1>1. CASE CommandsLeft' < CommandsLeft
  BY <1>1 DEF NearerToRest, ToGo
<1>2. CASE CommandsLeft' = CommandsLeft /\ MovesLeft' < MovesLeft
  BY <1>2 DEF NearerToRest, ToGo
<1>3. CASE CommandsLeft' = CommandsLeft /\ MovesLeft' = MovesLeft /\ TasksLeft' < TasksLeft
  BY <1>3 DEF NearerToRest, ToGo
<1>4. CASE /\ CommandsLeft' = CommandsLeft /\ MovesLeft' = MovesLeft
           /\ TasksLeft' = TasksLeft /\ MethodsLeft' < MethodsLeft
  BY <1>4 DEF NearerToRest, ToGo
<1> QED BY <1>1, <1>2, <1>3, <1>4

\* So too when the tasks are left alone.
LEMMA LessOtherWork ==
  ASSUME UNCHANGED <<recording, currentMoveIndex, tasks, timer, step>>,
         \/ ReadsLeft' < ReadsLeft
         \/ /\ ReadsLeft' = ReadsLeft
            /\ \/ Len(toWorker') < Len(toWorker)
               \/ Len(toWorker') = Len(toWorker) /\ LoopLeft' < LoopLeft
  PROVE  NearerToRest
<1>1. /\ CommandsLeft' = CommandsLeft /\ MovesLeft' = MovesLeft
      /\ TasksLeft' = TasksLeft /\ MethodsLeft' = MethodsLeft
  BY DEF CommandsLeft, Asked, MovesLeft, totalMoves, TasksLeft, MethodsLeft
<1>2. CASE ReadsLeft' < ReadsLeft
  BY <1>1, <1>2 DEF NearerToRest, ToGo
<1>3. CASE ReadsLeft' = ReadsLeft /\ Len(toWorker') < Len(toWorker)
  BY <1>1, <1>3 DEF NearerToRest, ToGo
<1>4. CASE /\ ReadsLeft' = ReadsLeft /\ Len(toWorker') = Len(toWorker)
           /\ LoopLeft' < LoopLeft
  BY <1>1, <1>4 DEF NearerToRest, ToGo
<1> QED BY <1>2, <1>3, <1>4

\* The task that leaves the queue takes its command with it.
LEMMA TaskLeaves ==
  ASSUME ReplayTypeOK, tasks # <<>>, tasks' = Tail(tasks)
  PROVE  /\ CommandsLeft' <= CommandsLeft
         /\ task.kind # "playback" => CommandsLeft' < CommandsLeft
         /\ Len(tasks') = Len(tasks) - 1 /\ Len(tasks) \in Nat
         /\ CommandsLeft \in Nat /\ CommandsLeft' \in Nat
<1> DEFINE Others == Asked \ {1}
           next == [i \in Asked' |-> i + 1]
<1>1. /\ tasks \in Seq(Task) /\ Len(tasks) \in Nat
      /\ tasks' \in Seq(Task) /\ Len(tasks') = Len(tasks) - 1
      /\ \A i \in 1..Len(tasks') : tasks'[i] = tasks[i + 1]
      /\ task = tasks[1] /\ 1 \in 1..Len(tasks)
  BY DEF ReplayTypeOK, task
<1>2. IsFiniteSet(Asked) /\ IsFiniteSet(Asked')
  <2>1. IsFiniteSet(1..Len(tasks)) /\ IsFiniteSet(1..Len(tasks'))
    BY <1>1, FS_Interval
  <2> QED BY <2>1, FS_Subset DEF Asked
<1>3. next \in Injection(Asked', Others)
  <2>1. \A i \in Asked' : i \in Nat /\ i + 1 \in Others
    BY <1>1 DEF Asked
  <2> QED BY <2>1 DEF Injection, IsInjective
<1>4. IsFiniteSet(Others)
      /\ Cardinality(Others) = IF 1 \in Asked THEN Cardinality(Asked) - 1
                               ELSE Cardinality(Asked)
  BY <1>2, FS_RemoveElement
<1>5. Cardinality(Asked') <= Cardinality(Others)
  BY <1>3, <1>4, FS_Injection
<1>6. /\ Cardinality(Asked) \in Nat /\ Cardinality(Asked') \in Nat
  BY <1>2, FS_CardinalityType
<1>7. task.kind # "playback" => 1 \in Asked
  BY <1>1 DEF Asked
<1> QED BY <1>1, <1>4, <1>5, <1>6, <1>7 DEF CommandsLeft

\* The timer queues a move of its playback.
LEMMA TimerIsNearer ==
  ASSUME ReplayTypeOK, TimerFires
  PROVE  NearerToRest
<1>1. /\ tasks \in Seq(Task) /\ Len(tasks) \in Nat
      /\ tasks' = Append(tasks, [kind |-> "playback", index |-> 0])
      /\ timer /\ ~timer' /\ UNCHANGED <<recording, currentMoveIndex>>
  BY DEF TimerFires, Enqueue, ReplayTypeOK
<1>2. /\ Len(tasks') = Len(tasks) + 1
      /\ \A i \in 1..Len(tasks) : tasks'[i] = tasks[i]
      /\ tasks'[Len(tasks) + 1].kind = "playback"
  BY <1>1
<1>3. Asked' = Asked
  BY <1>1, <1>2 DEF Asked
<1>4. TasksLeft' < TasksLeft
  BY <1>1, <1>2 DEF TasksLeft
<1> QED BY <1>1, <1>3, <1>4, LessTaskWork DEF CommandsLeft, MovesLeft, totalMoves

\* The task that is due is skipped or posts its first request.
LEMMA RunTaskIsNearer ==
  ASSUME ReplayTypeOK, RunTask
  PROVE  NearerToRest
<1>1. /\ tasks # <<>> /\ step = "ready" /\ Len(tasks) \in Nat
      /\ timer' => timer
      /\ MovesLeft' = MovesLeft
  BY DEF RunTask, TaskDue, PauseInternal, MovesLeft, totalMoves, ReplayTypeOK
<1>2. CASE Skipped
  <2>1. tasks' = Tail(tasks)
    BY <1>2 DEF RunTask
  <2>2. CommandsLeft' <= CommandsLeft /\ Len(tasks') = Len(tasks) - 1
        /\ CommandsLeft \in Nat /\ CommandsLeft' \in Nat
    BY <1>1, <2>1, TaskLeaves
  <2>3. TasksLeft' < TasksLeft
    BY <1>1, <2>2 DEF TasksLeft
  <2> QED BY <1>1, <2>2, <2>3, LessTaskWork
<1>3. CASE ~Skipped
  <2>1. tasks' = tasks /\ step' \in {"init", "applyReplayMove"}
    BY <1>3 DEF RunTask, Post
  <2>2. CommandsLeft' = CommandsLeft
    BY <2>1 DEF CommandsLeft, Asked
  <2>3. TasksLeft' <= TasksLeft /\ TasksLeft \in Nat /\ TasksLeft' \in Nat
    BY <1>1, <2>1 DEF TasksLeft
  <2>4. MethodsLeft' < MethodsLeft
    BY <1>1, <2>1 DEF MethodsLeft
  <2> QED BY <1>1, <2>2, <2>3, <2>4, LessTaskWork
<1> QED BY <1>2, <1>3

\* The running task takes its answer: it goes on to a later method, or leaves
\* the queue.  A playback that lands has one move less before it.
LEMMA ReplyIsNearer ==
  ASSUME ReplayInv, ReceiveTaskReply
  PROVE  NearerToRest
<1>1. /\ ReplayTypeOK /\ step \in ControllerMethod /\ step # "ready"
      /\ tasks # <<>> /\ Len(tasks) \in Nat
      /\ recording' = recording /\ totalMoves' = totalMoves
      /\ TargetIndex \in MoveIndex /\ totalMoves \in Nat
      /\ currentMoveIndex \in MoveIndex
  BY ReplyTaken, RecordingFacts, SameRecording DEF ReplayInv, ReplayTypeOK
<1>2. CASE TaskFails
  <2>1. /\ tasks' = Tail(tasks) /\ currentMoveIndex' = currentMoveIndex
        /\ timer' => timer
    BY <1>2 DEF TaskFails, PauseInternal
  <2>2. /\ CommandsLeft' <= CommandsLeft /\ Len(tasks') = Len(tasks) - 1
        /\ CommandsLeft \in Nat /\ CommandsLeft' \in Nat
    BY <1>1, <2>1, TaskLeaves
  <2>3. TasksLeft' < TasksLeft /\ MovesLeft' = MovesLeft
    BY <1>1, <2>1, <2>2 DEF TasksLeft, MovesLeft
  <2> QED BY <2>2, <2>3, LessTaskWork
<1>3. CASE NextMethod # "ready" /\ Post(NextMethod)
           /\ UNCHANGED <<tasks, currentMoveIndex, timer>>
  <2>1. /\ CommandsLeft' = CommandsLeft /\ MovesLeft' = MovesLeft
        /\ TasksLeft' = TasksLeft
    BY <1>1, <1>3 DEF CommandsLeft, Asked, MovesLeft, TasksLeft
  <2>2. MethodsLeft' < MethodsLeft
    BY <1>1, <1>3 DEF Post, NextMethod, MethodsLeft, ControllerMethod
  <2> QED BY <2>1, <2>2, LessTaskWork
<1>4. CASE TaskLands
  <2>1. tasks' = Tail(tasks) /\ currentMoveIndex' = TargetIndex
        /\ (task.kind # "playback" => timer' = timer)
    BY <1>4 DEF TaskLands
  <2>2. /\ CommandsLeft' <= CommandsLeft
        /\ task.kind # "playback" => CommandsLeft' < CommandsLeft
        /\ CommandsLeft \in Nat /\ CommandsLeft' \in Nat
    BY <1>1, <2>1, TaskLeaves
  <2>3. task.kind = "playback" => MovesLeft' < MovesLeft
    BY <1>1, <2>1 DEF TargetIndex, MovesLeft, MoveIndex
  <2> QED BY <2>2, <2>3, LessTaskWork
<1> QED BY <1>2, <1>3, <1>4 DEF ReceiveTaskReply

\* A projection starts, goes on to its second read, or ends.
LEMMA ProjectionIsNearer ==
  ASSUME ProjectionInv, RunProjection \/ ReceiveProjectionReply
  PROVE  NearerToRest
<1>1. UNCHANGED <<recording, currentMoveIndex, tasks, timer, step>>
  BY DEF RunProjection, ReceiveProjectionReply, controllerVars
<1>2. syncs \in Nat
  BY DEF ProjectionInv, ReplayInv, ReplayTypeOK
<1>3. CASE RunProjection
  <2>1. /\ syncs' = syncs - 1 /\ syncStep = "ready"
        /\ syncStep' \in {"ready", "getState"}
    BY <1>3 DEF RunProjection, ProjectionDue, ProjectionFails
  <2>2. ReadsLeft' < ReadsLeft
    BY <1>2, <2>1 DEF ReadsLeft
  <2> QED BY <1>1, <2>2, LessOtherWork
<1>4. CASE ReceiveProjectionReply
  <2>1. /\ Head(toMain).method = syncStep /\ syncStep \in ProjectionMethod
        /\ syncs' = syncs
    BY <1>4, ReadTaken
  <2>2. \/ syncStep' = "ready"
        \/ syncStep = "getState" /\ syncStep' = "publishMicroturn"
    BY <1>4, <2>1 DEF ReceiveProjectionReply, HydrateFromReplayStep, ProjectionFails
  <2>3. ReadsLeft' < ReadsLeft
    BY <1>2, <2>1, <2>2 DEF ReadsLeft, ProjectionMethod
  <2> QED BY <1>1, <2>3, LessOtherWork
<1> QED BY <1>3, <1>4

\* The worker answers a request, or goes on with the loop of playSequence.
LEMMA ServeIsNearer ==
  ASSUME ReplayInv, Serve
  PROVE  NearerToRest
<1>1. /\ ReplayTypeOK /\ toWorker # <<>>
      /\ UNCHANGED <<recording, currentMoveIndex, tasks, timer, step, syncs, syncStep>>
      /\ UNCHANGED totalMoves /\ totalMoves \in Nat
      /\ replayQueue \in Seq(Move) /\ (replayQueue # <<>> <=> ~Available)
  BY RecordingFacts, SameRecording
     DEF Serve, controllerVars, projectionVars, ReplayInv, ReplayTypeOK, WorkerTypeOK
<1>2. Len(toWorker) \in Nat /\ Len(Tail(toWorker)) = Len(toWorker) - 1
  BY <1>1, HeadRequest
<1>3. ReadsLeft' = ReadsLeft
  BY <1>1 DEF ReadsLeft
<1>4. CASE reply'.code # "busy"
  <2>1. toWorker' = Tail(toWorker)
    BY <1>4 DEF Serve, Answer
  <2>2. Len(toWorker') < Len(toWorker)
    BY <1>2, <2>1
  <2> QED BY <1>1, <1>3, <2>2, LessOtherWork
<1>5. CASE reply'.code = "busy"
  <2>1. toWorker' = toWorker
    BY <1>5 DEF Serve, Answer
  <2>2. CASE ReplayStep
    <3>1. ~Available /\ ~Available' /\ replayQueue' = Tail(replayQueue)
      BY <1>5, <2>2 DEF ReplayStep, Reject, Available
    <3>2. Len(Tail(replayQueue)) < Len(replayQueue)
      BY <1>1, <3>1
    <3> QED BY <1>1, <1>3, <2>1, <3>1, <3>2, LessOtherWork DEF LoopLeft
  <2>3. CASE Head(toWorker) = "playSequence" /\ PlaySequence(Prefix, StampNow)
    <3>1. Available /\ ~Available' /\ replayQueue' = Prefix
      BY <1>5, <2>3 DEF PlaySequence, RejectUninitialized, RejectStale, Reject, Available
    <3>2. step = "playSequence"
      BY <1>1, <2>3, HeadRequest DEF ControllerMethod
    <3>3. Len(Prefix) \in 0..totalMoves
      BY <1>1, <3>2, PrefixFacts DEF ReplayInv, TaskShape
    <3> QED BY <1>1, <1>3, <2>1, <3>1, <3>3, LessOtherWork DEF LoopLeft
  <2>4. ASSUME NEW m \in ProjectionMethod PROVE ~Read(m)
    BY <1>5 DEF Read, Ok, Reject
  <2>5. ~InitWorker(recording.restart, StampNow)
    BY <1>5 DEF InitWorker, RejectStale, InitState, SetupThrows, Ok, Reject
  <2>6. ~WorkerApplyReplayMove(recording.moves[TargetIndex + 1], StampNow)
    BY <1>5 DEF WorkerApplyReplayMove, RejectUninitialized, RejectStale, Advance, Ok, Reject
  <2> QED BY <2>2, <2>3, <2>4, <2>5, <2>6 DEF Serve
<1> QED BY <1>4, <1>5

\* The canvas has no part in it.
LEMMA CanvasIsNotCounted ==
  ASSUME CanvasCrash \/ CanvasRecovered \/ UNCHANGED vars
  PROVE  UNCHANGED ToGo
<1>1. UNCHANGED <<recording, currentMoveIndex, tasks, timer, step, syncs, syncStep,
                  toWorker, reply, replayQueue>>
  BY DEF CanvasCrash, CanvasRecovered, vars, workerVars, replayVars, controllerVars,
         projectionVars
<1> QED BY <1>1 DEF ToGo, CommandsLeft, Asked, MovesLeft, totalMoves, TasksLeft,
                    MethodsLeft, ReadsLeft, LoopLeft, Available

\* A replay runs down: whatever is queued, fails or is overtaken, every step that
\* neither the user nor the canvas takes leaves less to do, and there is a finite
\* amount of it.  A playback arms its timer again only with a move less to go,
\* and no message, projection or loop makes more work for a task.
THEOREM ReplaysRunDown ==
  Spec => /\ [](\A k \in 1..7 : ToGo[k] \in Nat)
          /\ [][\/ Controls
                \/ (CanvasCrash \/ CanvasRecovered) /\ UNCHANGED ToGo
                \/ NearerToRest]_vars
<1>1. ReplayInv => \A k \in 1..7 : ToGo[k] \in Nat
  BY ToGoCounts DEF ReplayInv
<1>2. ProjectionInv /\ [Next]_vars
        => [\/ Controls
            \/ (CanvasCrash \/ CanvasRecovered) /\ UNCHANGED ToGo
            \/ NearerToRest]_vars
  <2> SUFFICES ASSUME ProjectionInv, Next, ~Controls
               PROVE  \/ (CanvasCrash \/ CanvasRecovered) /\ UNCHANGED ToGo
                      \/ NearerToRest
    OBVIOUS
  <2>1. ReplayInv /\ ReplayTypeOK
    BY DEF ProjectionInv, ReplayInv
  <2> QED BY <2>1, TimerIsNearer, RunTaskIsNearer, ReplyIsNearer, ProjectionIsNearer,
             ServeIsNearer, CanvasIsNotCounted DEF Next, EventLoop
<1> QED BY <1>1, <1>2, ProjectionInvariant, ReplayInvariant, PTL DEF Spec
=============================================================================
