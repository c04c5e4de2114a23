----------------------------- MODULE AiPlayback -----------------------------
(***************************************************************************)
(* The AI playback controller                                              *)
(* (packages/runner/src/animation/ai-playback.ts): while an AI player is   *)
(* to move it drives the store's runAiStep in a loop, with a delay before  *)
(* each step, a wait for the animations after it, and a retry when a step  *)
(* came to nothing.  Every change of the store may start it.               *)
(*                                                                         *)
(* Of the store it sees whose turn it is and whether an operation is under *)
(* way.  That operation may be its own step or another one, by the player, *)
(* which supersedes it.  The drive runs to its next await in one go: while *)
(* it is in an urgent state nothing else happens.                          *)
(***************************************************************************)
EXTENDS AnimationQueue

CONSTANTS
  MaxNoOpRetries, \* maxNoOpRetries
  MaxDriveMoves   \* maxDriveMoves

ASSUME PlaybackAssumption ==
  MaxNoOpRetries \in Nat \ {0} /\ MaxDriveMoves \in Nat \ {0}

VARIABLES
  turn,        \* whose turn the render model shows
  operation,   \* the store's current operation: "none", "step" or "other"
  autoSkip,    \* aiPlaybackAutoSkip
  mounted,     \* the canvas and its two controllers live
  setupTrace,  \* the animations of the trace found on mounting are to come
  drive,       \* where the drive loop is
  skipping,    \* shouldSkip, as its last iteration computed it
  pendingSkip, \* the player asked to skip the AI's turn
  moveCount,   \* steps that advanced, in this drive
  noOpCount    \* steps that came to nothing, in a row

storeVars == <<turn, operation, autoSkip>>
driveVars == <<drive, skipping, pendingSkip, moveCount, noOpCount>>
vars == <<queueVars, storeVars, mounted, setupTrace, driveVars>>

Turn == {"ai", "human", "over"}
Urgent == {"loop", "act"}
Waiting == {"delay", "step", "drain", "retry"}
\* "failed" is a drive that ended with onError, "none" one that ended well.
Drive == {"none", "failed"} \cup Urgent \cup Waiting

Running == drive \in Urgent \cup Waiting
Calm == drive \notin Urgent

\* isAiTurn, and the store is not loading
Ready == turn = "ai" /\ operation = "none"

\* Mutant of OnStateChange: a change of the store starts nothing.
OnStateChangeDeaf ==
  /\ drive' = IF drive = "drain" /\ ~animationPlaying' THEN "loop" ELSE drive
  /\ UNCHANGED <<moveCount, noOpCount>>

\* Mutant of OnStateChange: the wait for the animations misses their end.
OnStateChangeUndrained ==
  LET starts == mounted /\ ~Running /\ Ready'
  IN  /\ drive' = IF starts THEN "loop" ELSE drive
      /\ moveCount' = IF starts THEN 0 ELSE moveCount
      /\ noOpCount' = IF starts THEN 0 ELSE noOpCount

\* What every change of the store sets off: maybeStart when no drive runs, and
\* the end of the wait for the animations.
OnStateChange ==
  LET starts == mounted /\ ~Running /\ Ready'
      drained == drive = "drain" /\ ~animationPlaying'
  IN  /\ drive' = IF starts \/ drained THEN "loop" ELSE drive
      /\ moveCount' = IF starts THEN 0 ELSE moveCount
      /\ noOpCount' = IF starts THEN 0 ELSE noOpCount

-----------------------------------------------------------------------------
(* The drive loop.                                                         *)

\* One iteration up to its first await.
Iterate(skip) ==
  /\ drive = "loop"
  /\ skipping' = skip
  /\ \/ /\ ~Ready
        /\ drive' = "none"
        /\ pendingSkip' = FALSE
        /\ UNCHANGED queueVars
     \/ /\ Ready /\ ~skip
        /\ drive' = "delay"
        /\ UNCHANGED <<pendingSkip, queueVars>>
     \/ /\ Ready /\ skip
        /\ drive' = "act"
        /\ SkipAll
        /\ UNCHANGED pendingSkip
  /\ UNCHANGED <<storeVars, mounted, setupTrace, moveCount, noOpCount>>

\* Mutant of LoopHead: a skip that was asked for is forgotten.
LoopHeadForgetting == Iterate(autoSkip)

LoopHead == Iterate(pendingSkip \/ autoSkip)

DelayOver ==
  /\ drive = "delay"
  /\ drive' = "act"
  /\ UNCHANGED <<queueVars, storeVars, mounted, setupTrace, skipping,
                 pendingSkip, moveCount, noOpCount>>

\* Mutant of RunAiStep: the turn seen before the delay is taken for granted.
RunAiStepUnchecked ==
  /\ drive = "act"
  /\ operation' = "step"
  /\ drive' = "step"
  /\ UNCHANGED <<queueVars, turn, autoSkip, mounted, setupTrace, skipping,
                 pendingSkip, moveCount, noOpCount>>

\* runAiStep up to its first await.  It begins an operation whatever the store
\* does meanwhile; out of the AI's turn that operation ends at once.
RunAiStep ==
  /\ drive = "act"
  /\ \/ /\ turn = "ai"
        /\ operation' = "step"
        /\ drive' = "step"
        /\ UNCHANGED pendingSkip
     \/ /\ turn # "ai"
        /\ operation' = "none"
        /\ drive' = "none"
        /\ pendingSkip' = FALSE
  /\ UNCHANGED <<queueVars, turn, autoSkip, mounted, setupTrace, skipping,
                 moveCount, noOpCount>>

\* The drive ends and reports why: the policy "error", or a limit reached.
Fail == drive' = "failed" /\ pendingSkip' = FALSE

\* What the screen shows once a change of the game is committed: animations or
\* none, and none that is still to end in a finished game.
Animate ==
  \/ turn' # "over" /\ Enqueue
  \/ turn' # "over" /\ UNCHANGED queueVars
  \/ turn' = "over" /\ SkipAll

\* The outcome "advanced": the store commits and the operation is over.
StepAdvances ==
  /\ drive = "step"
  /\ operation = "step"
  /\ operation' = "none"
  /\ turn' \in Turn
  /\ Animate
  /\ noOpCount' = 0
  /\ moveCount' = moveCount + 1
  /\ \/ moveCount' >= MaxDriveMoves /\ Fail
     \/ /\ moveCount' < MaxDriveMoves
        /\ drive' = IF ~skipping /\ animationPlaying' THEN "drain" ELSE "loop"
        /\ UNCHANGED pendingSkip
  /\ UNCHANGED <<autoSkip, mounted, setupTrace, skipping>>

\* The outcome "no-op": the step was superseded or threw.
StepIsNoOp ==
  /\ drive = "step"
  /\ operation' = IF operation = "step" THEN "none" ELSE operation
  /\ noOpCount' = noOpCount + 1
  /\ \/ noOpCount' >= MaxNoOpRetries /\ Fail
     \/ /\ noOpCount' < MaxNoOpRetries
        /\ drive' = "retry"
        /\ UNCHANGED pendingSkip
  /\ UNCHANGED <<queueVars, turn, autoSkip, mounted, setupTrace, skipping,
                 moveCount>>

\* The outcomes with the policy "error": the agent has nothing to choose, or
\* the worker refuses what it chose.
StepFails ==
  /\ drive = "step"
  /\ operation' = IF operation = "step" THEN "none" ELSE operation
  /\ Fail
  /\ UNCHANGED <<queueVars, turn, autoSkip, mounted, setupTrace, skipping,
                 moveCount, noOpCount>>

RetryOver ==
  /\ drive = "retry"
  /\ drive' = "loop"
  /\ UNCHANGED <<queueVars, storeVars, mounted, setupTrace, skipping,
                 pendingSkip, moveCount, noOpCount>>

\* Mutant of DrainTimeout: animations that do not end are waited for.
DrainTimeoutNever == FALSE /\ UNCHANGED vars

\* waitForAnimationDrain gives up and ends the animations itself.
DrainTimeout ==
  /\ drive = "drain"
  /\ SkipAll
  /\ drive' = "loop"
  /\ UNCHANGED <<storeVars, mounted, setupTrace, skipping, pendingSkip,
                 moveCount, noOpCount>>

-----------------------------------------------------------------------------
(* What happens around it, between the urgent steps.                       *)

\* Another operation of the store begins; it supersedes the one under way.
OtherBegins ==
  /\ Calm
  /\ operation' = "other"
  /\ UNCHANGED <<queueVars, turn, autoSkip, mounted, setupTrace, skipping,
                 pendingSkip>>
  /\ OnStateChange

\* ... and ends, with any effect on the game: a move, an undo, a new game.
OtherEnds ==
  /\ Calm
  /\ operation = "other"
  /\ operation' = "none"
  /\ turn' \in Turn
  /\ IF mounted THEN Animate ELSE UNCHANGED queueVars
  /\ UNCHANGED <<autoSkip, mounted, setupTrace, skipping, pendingSkip>>
  /\ OnStateChange

\* requestAiTurnSkip, from the overlay shown in the AI's turn.  It ends the
\* delay or the wait for a retry, and the animations.
SkipAiTurn ==
  /\ Calm /\ mounted
  /\ turn = "ai"
  /\ pendingSkip' = TRUE
  /\ SkipAll
  /\ \/ /\ drive \in {"delay", "retry"}
        /\ drive' = IF drive = "delay" THEN "act" ELSE "loop"
        /\ UNCHANGED <<moveCount, noOpCount>>
     \/ /\ drive \notin {"delay", "retry"}
        /\ UNCHANGED storeVars
        /\ OnStateChange
  /\ UNCHANGED <<storeVars, mounted, setupTrace, skipping>>

\* Any other change of the store: a setting, an error dismissed.
StoreChanges ==
  /\ Calm
  /\ autoSkip' \in BOOLEAN
  /\ UNCHANGED <<queueVars, turn, operation, mounted, setupTrace, skipping,
                 pendingSkip>>
  /\ OnStateChange

\* The player pauses or resumes the animations; without a canvas only the store
\* hears of it.
PauseOrResume ==
  /\ Calm
  /\ animationPaused' = ~animationPaused
  /\ queuePaused' = IF mounted THEN animationPaused' ELSE queuePaused
  /\ UNCHANGED <<active, waiting, animationPlaying>>
  /\ UNCHANGED <<storeVars, mounted, setupTrace, skipping, pendingSkip>>
  /\ OnStateChange

\* The timeline that plays is over, or the player skips it.
TimelineEnds ==
  /\ Calm /\ mounted
  /\ StartNext
  /\ UNCHANGED <<storeVars, mounted, setupTrace, skipping, pendingSkip>>
  /\ OnStateChange

\* The frame after mounting plays what the trace of that moment left to show.
SetupAnimation ==
  /\ Calm /\ mounted /\ setupTrace
  /\ setupTrace' = FALSE
  /\ IF turn = "over" THEN UNCHANGED queueVars ELSE Enqueue
  /\ UNCHANGED <<storeVars, mounted, skipping, pendingSkip>>
  /\ OnStateChange

\* The canvas goes: its controllers are destroyed.  A step under way goes on in
\* the store and nobody waits for its outcome.
Unmount ==
  /\ Calm /\ mounted
  /\ mounted' = FALSE
  /\ operation' = IF operation = "step" THEN "other" ELSE operation
  /\ drive' = "none"
  /\ pendingSkip' = FALSE
  /\ setupTrace' = FALSE
  /\ SkipAll
  /\ UNCHANGED <<turn, autoSkip, skipping, moveCount, noOpCount>>

\* A new canvas: the controllers start afresh and take over the store's pause.
Mount ==
  /\ Calm /\ ~mounted
  /\ mounted' = TRUE
  /\ setupTrace' \in BOOLEAN
  /\ drive' = IF Ready THEN "loop" ELSE "none"
  /\ moveCount' = 0
  /\ noOpCount' = 0
  /\ queuePaused' = animationPaused
  /\ UNCHANGED <<active, waiting, animationPlaying, animationPaused,
                 storeVars, skipping, pendingSkip>>

Init ==
  /\ QueueInit
  /\ turn = "human"
  /\ operation = "none"
  /\ autoSkip = FALSE
  /\ mounted = FALSE
  /\ setupTrace = FALSE
  /\ drive = "none"
  /\ skipping = FALSE
  /\ pendingSkip = FALSE
  /\ moveCount = 0
  /\ noOpCount = 0

DriveStep ==
  \/ LoopHead
  \/ DelayOver
  \/ RunAiStep
  \/ StepAdvances
  \/ StepIsNoOp
  \/ StepFails
  \/ RetryOver
  \/ DrainTimeout

Outside ==
  \/ OtherBegins
  \/ OtherEnds
  \/ SkipAiTurn
  \/ StoreChanges
  \/ PauseOrResume
  \/ TimelineEnds
  \/ SetupAnimation
  \/ Unmount
  \/ Mount

Next == DriveStep \/ Outside

Spec == Init /\ [][Next]_vars

\* Timers fire, and the worker answers a step or an error ends it.  Nothing is
\* assumed of the player, of the animations or of the canvas.
FairSpec == Spec /\ WF_vars(DriveStep)

-----------------------------------------------------------------------------
(* Properties.                                                             *)

\* The variables have their types, and the two counters stay under the limits
\* the loop gives them.
PlaybackTypeOK ==
  /\ active \in BOOLEAN
  /\ waiting \in 0..MaxQueuedTimelines
  /\ queuePaused \in BOOLEAN
  /\ animationPlaying \in BOOLEAN
  /\ animationPaused \in BOOLEAN
  /\ turn \in Turn
  /\ operation \in {"none", "step", "other"}
  /\ autoSkip \in BOOLEAN
  /\ mounted \in BOOLEAN
  /\ setupTrace \in BOOLEAN
  /\ drive \in Drive
  /\ skipping \in BOOLEAN
  /\ pendingSkip \in BOOLEAN
  /\ moveCount \in 0..MaxDriveMoves
  /\ noOpCount \in 0..MaxNoOpRetries

\* The store and the queue agree, although each keeps its own flags and tells
\* the other by callbacks: the store shows an animation exactly while the queue
\* has one, the pause button shows whether the queue is paused, and nothing
\* waits behind nothing.
StoreMatchesQueue ==
  /\ animationPlaying <=> active
  /\ waiting > 0 => active
  /\ mounted => (queuePaused <=> animationPaused)

\* An AI's turn is never left lying: when the store is at rest and an AI is to
\* move, a drive is at work, or the last one reported why it gave up.
AiTurnIsPlayedOrReported ==
  mounted /\ Ready => Running \/ drive = "failed"

\* A player who asked to skip the AI's turn never waits for a delay again.
SkipLeavesNoDelay == pendingSkip => drive # "delay"

\* The drive waits for animations only while some are playing, so it cannot
\* have missed the end it waits for.
DrainHasAnimations == drive = "drain" => animationPlaying

\* The agent never moves for a human: a step begins in the AI's turn, though
\* the turn may have changed during the delay before it.
StepsOnlyInTheAiTurn ==
  [][operation # "step" /\ operation' = "step" => turn = "ai"]_vars

\* Every drive ends, whatever the player, the animations and the game do.
DriveEnds == Running ~> ~Running

=============================================================================
