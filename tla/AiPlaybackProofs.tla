-------------------------- MODULE AiPlaybackProofs --------------------------
(***************************************************************************)
(* Proofs about AiPlayback, for every size of the queue and every limit of *)
(* the loop.  One invariant carries them all: the properties of the runs   *)
(* and the fact that a drive at work has not used up its limits.  The last *)
(* section shows that each step of a drive brings it nearer to its end.    *)
(***************************************************************************)
EXTENDS AiPlayback, TLAPS

\* A drive that goes on is below its limits; reaching one ends it.
CountsBelowLimits ==
  Running => moveCount < MaxDriveMoves /\ noOpCount < MaxNoOpRetries

QueueOK ==
  /\ active \in BOOLEAN
  /\ waiting \in 0..MaxQueuedTimelines
  /\ queuePaused \in BOOLEAN
  /\ animationPlaying \in BOOLEAN
  /\ animationPaused \in BOOLEAN
  /\ animationPlaying <=> active
  /\ waiting > 0 => active

PauseAgrees == queuePaused <=> animationPaused

DriveTypeOK ==
  /\ turn \in Turn
  /\ operation \in {"none", "step", "other"}
  /\ autoSkip \in BOOLEAN
  /\ mounted \in BOOLEAN
  /\ setupTrace \in BOOLEAN
  /\ drive \in Drive
  /\ skipping \in BOOLEAN
  /\ pendingSkip \in BOOLEAN
  /\ moveCount \in 0..MaxDriveMoves
  /\ noOpCount \in 0..MaxNoOpRetries

DriveOK ==
  /\ DriveTypeOK
  /\ AiTurnIsPlayedOrReported
  /\ SkipLeavesNoDelay
  /\ DrainHasAnimations
  /\ CountsBelowLimits

IInv == QueueOK /\ (mounted => PauseAgrees) /\ DriveOK

-----------------------------------------------------------------------------
(* The queue.                                                              *)

\* Setting the store's flag keeps the two pause flags equal if they were.
LEMMA SetStoreFlagKeepsPause ==
  ASSUME queuePaused \in BOOLEAN, animationPaused \in BOOLEAN,
         animationPlaying \in BOOLEAN, NEW playing \in BOOLEAN,
         SetStoreFlag(playing)
  PROVE  /\ queuePaused' \in BOOLEAN
         /\ animationPaused' \in BOOLEAN
         /\ animationPlaying' \in BOOLEAN
         /\ animationPlaying' <=> playing
         /\ PauseAgrees => PauseAgrees'
  BY Zenon DEF SetStoreFlag, PauseAgrees

\* Every operation of the queue keeps its bound, its flags and their agreement.
LEMMA QueueOperations ==
  ASSUME QueueOK, Enqueue \/ StartNext \/ SkipAll \/ UNCHANGED queueVars
  PROVE  QueueOK' /\ (PauseAgrees => PauseAgrees')
<1>1. CASE Enqueue /\ active
  BY <1>1, QueueAssumption DEF Enqueue, PauseAgrees, QueueOK
<1>2. CASE Enqueue /\ ~active
  <2>1. active' = TRUE /\ waiting' = waiting /\ SetStoreFlag(TRUE)
    BY <1>2, Zenon DEF Enqueue
  <2>2. /\ queuePaused' \in BOOLEAN
        /\ animationPaused' \in BOOLEAN
        /\ animationPlaying' \in BOOLEAN
        /\ animationPlaying'
        /\ PauseAgrees => PauseAgrees'
    BY <2>1, SetStoreFlagKeepsPause, Zenon DEF QueueOK
  <2> QED BY <2>1, <2>2, QueueAssumption DEF QueueOK
<1>3. CASE StartNext /\ waiting > 0
  <2>1. /\ active
        /\ waiting' = waiting - 1
        /\ UNCHANGED <<active, queuePaused, animationPlaying, animationPaused>>
    <3>1. ~(waiting = 0)
      BY <1>3, QueueAssumption DEF QueueOK
    <3> QED BY <1>3, <3>1, Zenon DEF StartNext
  <2>2. waiting' \in 0..MaxQueuedTimelines
    BY <1>3, <2>1, QueueAssumption DEF QueueOK
  <2> QED BY <2>1, <2>2, Zenon DEF QueueOK, PauseAgrees
<1>4. CASE SkipAll \/ (StartNext /\ ~(waiting > 0))
  <2>1. active' = FALSE /\ waiting' \in {waiting, 0} /\ ~(waiting' > 0)
        /\ SetStoreFlag(FALSE)
    <3>1. CASE SkipAll
      <4>1. ~(0 > 0)
        OBVIOUS
      <4> QED BY <3>1, <4>1, Zenon DEF SkipAll
    <3>2. CASE StartNext /\ ~(waiting > 0)
      BY <3>2, Zenon DEF StartNext
    <3> QED BY <1>4, <3>1, <3>2
  <2>2. /\ queuePaused' \in BOOLEAN
        /\ animationPaused' \in BOOLEAN
        /\ animationPlaying' \in BOOLEAN
        /\ ~animationPlaying'
        /\ PauseAgrees => PauseAgrees'
    BY <2>1, SetStoreFlagKeepsPause, Zenon DEF QueueOK
  <2>3. waiting' \in 0..MaxQueuedTimelines
    BY <2>1, QueueAssumption DEF QueueOK
  <2> QED BY <2>1, <2>2, <2>3, Zenon DEF QueueOK
<1>5. CASE UNCHANGED queueVars
  BY <1>5 DEF queueVars, PauseAgrees, QueueOK
<1> QED BY <1>1, <1>2, <1>3, <1>4, <1>5, Zenon

-----------------------------------------------------------------------------
(* The drive.                                                              *)

\* A session without a canvas satisfies the invariant.
LEMMA InitEstablishesIInv == Init => IInv
<1> SUFFICES ASSUME Init PROVE IInv
  OBVIOUS
<1>1. 0 \in 0..MaxQueuedTimelines /\ ~(0 > 0)
  BY QueueAssumption
<1>2. /\ 0 \in 0..MaxDriveMoves /\ 0 \in 0..MaxNoOpRetries
      /\ "none" \in Drive /\ "none" \notin Urgent \cup Waiting
      /\ "human" \in Turn /\ "human" # "ai"
      /\ "none" # "drain" /\ "none" # "delay"
  BY PlaybackAssumption DEF Turn, Drive, Urgent, Waiting
<1>3. QueueOK /\ PauseAgrees
  BY <1>1, Zenon DEF Init, QueueInit, QueueOK, PauseAgrees
<1>4. DriveOK
  BY <1>2, Zenon
  DEF Init, DriveOK, DriveTypeOK, Running, Ready, AiTurnIsPlayedOrReported,
      SkipLeavesNoDelay, DrainHasAnimations, CountsBelowLimits
<1> QED BY <1>3, <1>4, Zenon DEF IInv

\* Each step of the queue is one of its operations, except where the pause
\* changes hands.
LEMMA StepsOfTheQueue ==
  ASSUME DriveStep \/ Outside, ~PauseOrResume, ~Mount
  PROVE  Enqueue \/ StartNext \/ SkipAll \/ UNCHANGED queueVars
BY Zenon DEF DriveStep, Outside, LoopHead, Iterate, DelayOver, RunAiStep,
   StepAdvances, StepIsNoOp, StepFails, RetryOver, DrainTimeout, OtherBegins,
   OtherEnds, SkipAiTurn, StoreChanges, TimelineEnds, SetupAnimation, Unmount,
   Animate

\* Every step keeps the queue's part of the invariant.
LEMMA QueuePartKept ==
  ASSUME IInv, [Next]_vars
  PROVE  QueueOK' /\ (mounted' => PauseAgrees')
<1>1. CASE PauseOrResume
  BY <1>1, Zenon DEF PauseOrResume, IInv, QueueOK, PauseAgrees
<1>2. CASE Mount
  BY <1>2, Zenon DEF Mount, IInv, QueueOK, PauseAgrees, queueVars
<1>3. CASE UNCHANGED vars
  BY <1>3, Zenon DEF vars, queueVars, IInv, QueueOK, PauseAgrees
<1>4. CASE (DriveStep \/ Outside) /\ ~PauseOrResume /\ ~Mount
  <2>1. Enqueue \/ StartNext \/ SkipAll \/ UNCHANGED queueVars
    BY <1>4, StepsOfTheQueue
  <2>2. QueueOK' /\ (PauseAgrees => PauseAgrees')
    BY <2>1, QueueOperations DEF IInv
  <2>3. mounted' => mounted
    BY <1>4, Zenon DEF DriveStep, Outside, LoopHead, Iterate, DelayOver,
       RunAiStep, StepAdvances, StepIsNoOp, StepFails, RetryOver, DrainTimeout,
       OtherBegins, OtherEnds, SkipAiTurn, StoreChanges, TimelineEnds,
       SetupAnimation, Unmount
  <2> QED BY <2>2, <2>3 DEF IInv
<1> QED BY <1>1, <1>2, <1>3, <1>4 DEF Next

\* Every step keeps the drive's part of the invariant.
LEMMA DriveKept ==
  ASSUME IInv, DriveStep \/ Outside, animationPlaying' \in BOOLEAN
  PROVE  DriveOK'
<1> USE PlaybackAssumption
    DEF IInv, DriveOK, DriveTypeOK, Turn, Drive, Urgent, Waiting, Running,
        Calm, Ready, AiTurnIsPlayedOrReported, SkipLeavesNoDelay,
        DrainHasAnimations, CountsBelowLimits, storeVars
<1>1. CASE LoopHead
  <2>1. /\ drive = "loop"
        /\ drive' \in {"none", "delay", "act"}
        /\ drive' = "none" => ~Ready
        /\ UNCHANGED <<storeVars, mounted, setupTrace, moveCount, noOpCount>>
    BY <1>1 DEF LoopHead, Iterate
  <2>2. skipping' = (pendingSkip \/ autoSkip)
    BY <1>1 DEF LoopHead, Iterate
  <2>3. skipping' \in BOOLEAN
    BY <2>2, Zenon
  <2>4. pendingSkip' = FALSE \/ (pendingSkip' = pendingSkip)
    BY <1>1 DEF LoopHead, Iterate
  <2>5. pendingSkip' \in BOOLEAN
    BY <2>4, Zenon
  <2>6. drive' = "delay" => ~pendingSkip /\ pendingSkip' = pendingSkip
    BY <1>1 DEF LoopHead, Iterate
  <2>7. pendingSkip' => drive' # "delay"
    BY <2>6, Zenon
  <2> QED BY <2>1, <2>3, <2>5, <2>7
<1>2. CASE DelayOver
  BY <1>2 DEF DelayOver, queueVars
<1>3. CASE RunAiStep
  BY <1>3 DEF RunAiStep, queueVars
<1>4. CASE StepAdvances
  <2>1. pendingSkip' \in BOOLEAN /\ drive = "step"
    BY <1>4, Zenon DEF StepAdvances, Fail
  <2>2. /\ turn' \in Turn
        /\ moveCount' = moveCount + 1
        /\ noOpCount' = 0
        /\ operation' = "none"
        /\ UNCHANGED <<autoSkip, mounted, setupTrace, skipping>>
    BY <1>4 DEF StepAdvances
  <2>3. \/ drive' = "failed"
        \/ moveCount' < MaxDriveMoves /\ drive' \in {"drain", "loop"}
    BY <1>4 DEF StepAdvances, Fail
  <2>4. drive' = "drain" => animationPlaying'
    BY <1>4 DEF StepAdvances, Fail
  <2> QED BY <2>1, <2>2, <2>3, <2>4
<1>5. CASE StepIsNoOp
  <2>1. pendingSkip' \in BOOLEAN
    BY <1>5, Zenon DEF StepIsNoOp, Fail
  <2> QED BY <1>5, <2>1 DEF StepIsNoOp, Fail
<1>6. CASE StepFails
  <2>1. pendingSkip' \in BOOLEAN
    BY <1>6, Zenon DEF StepFails, Fail
  <2> QED BY <1>6, <2>1 DEF StepFails, Fail
<1>7. CASE RetryOver
  BY <1>7 DEF RetryOver, queueVars
<1>8. CASE DrainTimeout
  BY <1>8 DEF DrainTimeout, queueVars
<1>9. CASE OtherBegins
  BY <1>9 DEF OtherBegins, OnStateChange, queueVars
<1>10. CASE OtherEnds
  BY <1>10 DEF OtherEnds, OnStateChange, queueVars
<1>11. CASE SkipAiTurn
  BY <1>11 DEF SkipAiTurn, OnStateChange, queueVars
<1>12. CASE StoreChanges
  BY <1>12 DEF StoreChanges, OnStateChange, queueVars
<1>13. CASE PauseOrResume
  BY <1>13 DEF PauseOrResume, OnStateChange, queueVars
<1>14. CASE TimelineEnds
  BY <1>14 DEF TimelineEnds, OnStateChange, queueVars
<1>15. CASE SetupAnimation
  <2>1. /\ setupTrace' \in BOOLEAN
        /\ UNCHANGED <<storeVars, mounted, skipping, pendingSkip>>
        /\ Calm
        /\ OnStateChange
    BY <1>15, Zenon DEF SetupAnimation
  <2> QED BY <2>1 DEF OnStateChange
<1>16. CASE Unmount
  BY <1>16 DEF Unmount, queueVars
<1>17. CASE Mount
  BY <1>17 DEF Mount, queueVars
<1> QED BY <1>1, <1>2, <1>3, <1>4, <1>5, <1>6, <1>7, <1>8,
           <1>9, <1>10, <1>11, <1>12, <1>13, <1>14, <1>15, <1>16,
           <1>17, Zenon DEF DriveStep, Outside

-----------------------------------------------------------------------------
(* The theorems.                                                           *)

\* Every step keeps the invariant.
LEMMA NextKeepsIInv == IInv /\ [Next]_vars => IInv'
<1> SUFFICES ASSUME IInv, [Next]_vars PROVE IInv'
  OBVIOUS
<1>1. QueueOK' /\ (mounted' => PauseAgrees')
  BY QueuePartKept
<1>2. CASE UNCHANGED vars
  BY <1>2, Zenon
  DEF vars, queueVars, storeVars, driveVars, IInv, DriveOK, DriveTypeOK,
      AiTurnIsPlayedOrReported, Ready, Running, SkipLeavesNoDelay,
      DrainHasAnimations, CountsBelowLimits, QueueOK, PauseAgrees
<1>3. CASE DriveStep \/ Outside
  <2>1. animationPlaying' \in BOOLEAN
    BY <1>1 DEF QueueOK
  <2>2. DriveOK'
    BY <1>3, <2>1, DriveKept
  <2> QED BY <1>1, <2>2, Zenon DEF IInv
<1> QED BY <1>2, <1>3 DEF Next

\* The variables keep their types and the counters stay under their limits.
THEOREM PlaybackTypes == Spec => []PlaybackTypeOK
<1>1. IInv => PlaybackTypeOK
  BY Zenon DEF IInv, QueueOK, DriveOK, DriveTypeOK, PlaybackTypeOK
<1> QED BY <1>1, InitEstablishesIInv, NextKeepsIInv, PTL DEF Spec

\* The store's flags and the queue's agree.
THEOREM QueueMatches == Spec => []StoreMatchesQueue
<1>1. IInv => StoreMatchesQueue
  BY Zenon DEF IInv, QueueOK, PauseAgrees, StoreMatchesQueue
<1> QED BY <1>1, InitEstablishesIInv, NextKeepsIInv, PTL DEF Spec

\* At rest, an AI's turn is being played or the reason it is not was reported.
THEOREM AiTurnsAreLookedAfter == Spec => []AiTurnIsPlayedOrReported
<1>1. IInv => AiTurnIsPlayedOrReported
  BY DEF IInv, DriveOK
<1> QED BY <1>1, InitEstablishesIInv, NextKeepsIInv, PTL DEF Spec

\* A skip that was asked for leaves no delay to wait for.
THEOREM SkipsAreHeard == Spec => []SkipLeavesNoDelay
<1>1. IInv => SkipLeavesNoDelay
  BY DEF IInv, DriveOK
<1> QED BY <1>1, InitEstablishesIInv, NextKeepsIInv, PTL DEF Spec

\* A drive that waits for animations has some to wait for.
THEOREM DrainsAreOfAnimations == Spec => []DrainHasAnimations
<1>1. IInv => DrainHasAnimations
  BY DEF IInv, DriveOK
<1> QED BY <1>1, InitEstablishesIInv, NextKeepsIInv, PTL DEF Spec

\* A step begins in the AI's turn and in no other.
THEOREM AgentsOnlyMoveInTheirTurn == Spec => StepsOnlyInTheAiTurn
<1>1. [Next]_vars =>
        [operation # "step" /\ operation' = "step" => turn = "ai"]_vars
  <2> SUFFICES ASSUME DriveStep \/ Outside,
                      operation # "step", operation' = "step"
               PROVE  turn = "ai"
    BY DEF Next
  <2>1. DriveStep
    BY DEF Outside, OtherBegins, OtherEnds, SkipAiTurn, StoreChanges,
       PauseOrResume, TimelineEnds, SetupAnimation, Unmount, Mount, storeVars
  <2> QED
    BY <2>1 DEF DriveStep, LoopHead, Iterate, DelayOver, RunAiStep,
       StepAdvances, StepIsNoOp, StepFails, RetryOver, DrainTimeout, storeVars
<1> QED BY <1>1, PTL DEF Spec, StepsOnlyInTheAiTurn

-----------------------------------------------------------------------------
(* The drive runs down.                                                    *)

\* How many of its places the drive still has to pass before its next step
\* settles
PlacesLeft ==
  CASE drive \in {"drain", "retry"} -> 5
    [] drive = "loop"  -> 4
    [] drive = "delay" -> 3
    [] drive = "act"   -> 2
    [] drive = "step"  -> 1
    [] OTHER -> 0

\* The drive is nearer to its end: more steps of it have advanced, or more have
\* come to nothing in a row, or it has fewer places to pass.
Nearer ==
  \/ moveCount' > moveCount
  \/ moveCount' = moveCount /\ noOpCount' > noOpCount
  \/ moveCount' = moveCount /\ noOpCount' = noOpCount /\ PlacesLeft' < PlacesLeft

\* A drive has a canvas to run on.
LEMMA DrivesAreMounted == Spec => [](Running => mounted)
<1>1. Init => (Running => mounted)
  BY DEF Init, Running, Urgent, Waiting
<1>2. (Running => mounted) /\ [Next]_vars => (Running => mounted)'
  <2> SUFFICES ASSUME Running => mounted, [Next]_vars, Running'
               PROVE  mounted'
    OBVIOUS
  <2>1. CASE DriveStep
    <3>1. Running /\ mounted' = mounted
      BY <2>1 DEF DriveStep, LoopHead, Iterate, DelayOver, RunAiStep, StepAdvances,
                  StepIsNoOp, StepFails, RetryOver, DrainTimeout, Running, Urgent, Waiting
    <3> QED BY <3>1
  <2>2. ASSUME OnStateChange, mounted' = mounted PROVE mounted'
    BY <2>2 DEF OnStateChange, Running, Urgent, Waiting
  <2>3. CASE OtherBegins \/ OtherEnds \/ StoreChanges \/ PauseOrResume
             \/ TimelineEnds \/ SetupAnimation
    BY <2>2, <2>3, Zenon DEF OtherBegins, OtherEnds, StoreChanges, PauseOrResume,
                      TimelineEnds, SetupAnimation
  <2>4. CASE SkipAiTurn \/ Mount
    BY <2>4 DEF SkipAiTurn, Mount
  <2>5. ~Unmount
    BY DEF Unmount, Running, Urgent, Waiting
  <2>6. CASE UNCHANGED vars
    BY <2>6 DEF vars, driveVars, Running
  <2> QED BY <2>1, <2>3, <2>4, <2>5, <2>6 DEF Next, Outside
<1> QED BY <1>1, <1>2, PTL DEF Spec

\* Each step of the drive brings it nearer to its end.
LEMMA DriveStepIsNearer == ASSUME IInv, DriveStep PROVE Nearer
<1>1. moveCount \in Nat /\ noOpCount \in Nat
  BY PlaybackAssumption DEF IInv, DriveOK, DriveTypeOK
<1>2. CASE StepAdvances
  BY <1>1, <1>2 DEF StepAdvances, Nearer
<1>3. CASE StepIsNoOp
  BY <1>1, <1>3 DEF StepIsNoOp, Nearer
<1>4. CASE StepFails
  BY <1>1, <1>4 DEF StepFails, Fail, Nearer, PlacesLeft
<1>5. CASE LoopHead \/ DelayOver \/ RunAiStep \/ RetryOver \/ DrainTimeout
  BY <1>1, <1>5 DEF LoopHead, Iterate, DelayOver, RunAiStep, RetryOver, DrainTimeout,
                    Nearer, PlacesLeft
<1> QED BY <1>2, <1>3, <1>4, <1>5 DEF DriveStep

\* Nothing else takes a drive away from its end.
LEMMA NothingDelaysADrive ==
  ASSUME IInv, Running => mounted, Outside, Running, Running'
  PROVE  Nearer \/ UNCHANGED <<drive, moveCount, noOpCount>>
<1>1. ASSUME OnStateChange
      PROVE  Nearer \/ UNCHANGED <<drive, moveCount, noOpCount>>
  BY <1>1 DEF OnStateChange, Nearer, PlacesLeft
<1>2. CASE OtherBegins \/ OtherEnds \/ StoreChanges \/ PauseOrResume
           \/ TimelineEnds \/ SetupAnimation
  BY <1>1, <1>2, Zenon DEF OtherBegins, OtherEnds, StoreChanges, PauseOrResume,
                    TimelineEnds, SetupAnimation
<1>3. CASE SkipAiTurn
  <2>1. CASE /\ drive \in {"delay", "retry"}
             /\ drive' = IF drive = "delay" THEN "act" ELSE "loop"
             /\ UNCHANGED <<moveCount, noOpCount>>
    BY <2>1 DEF Nearer, PlacesLeft
  <2> QED BY <1>1, <1>3, <2>1, Zenon DEF SkipAiTurn
<1>4. ~Unmount /\ ~Mount
  BY DEF Unmount, Mount, Running, Urgent, Waiting
<1> QED BY <1>2, <1>3, <1>4 DEF Outside

\* Each step of a drive brings it nearer to its end and nothing else takes it
\* away from it, whatever the player, the game and the canvas do meanwhile:
\* advancing steps, steps that come to nothing and places are all limited, so
\* no drive can go on for ever.
THEOREM DrivesRunDown ==
  Spec =>
    /\ [](/\ Running => moveCount < MaxDriveMoves /\ noOpCount < MaxNoOpRetries
          /\ PlacesLeft \in 0..5)
    /\ [][/\ DriveStep => Nearer
          /\ Outside /\ Running /\ Running'
               => Nearer \/ UNCHANGED <<drive, moveCount, noOpCount>>]_vars
<1>1. IInv => /\ Running => moveCount < MaxDriveMoves /\ noOpCount < MaxNoOpRetries
              /\ PlacesLeft \in 0..5
  <2>1. PlacesLeft \in 0..5
    BY DEF PlacesLeft
  <2> QED BY <2>1 DEF IInv, DriveOK, CountsBelowLimits
<1>2. IInv /\ (Running => mounted) /\ [Next]_vars =>
        [/\ DriveStep => Nearer
         /\ Outside /\ Running /\ Running'
              => Nearer \/ UNCHANGED <<drive, moveCount, noOpCount>>]_vars
  BY DriveStepIsNearer, NothingDelaysADrive
<1> QED BY <1>1, <1>2, InitEstablishesIInv, NextKeepsIInv, DrivesAreMounted, PTL DEF Spec
=============================================================================
