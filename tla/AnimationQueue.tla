--------------------------- MODULE AnimationQueue ---------------------------
(***************************************************************************)
(* The queue of animation timelines                                        *)
(* (packages/runner/src/animation/animation-queue.ts): one timeline plays, *)
(* the others wait, and the store is told whether anything plays.  A       *)
(* timeline is not named, only counted.                                    *)
(***************************************************************************)
EXTENDS Naturals

CONSTANT MaxQueuedTimelines  \* maxQueuedTimelines

ASSUME QueueAssumption == MaxQueuedTimelines \in Nat \ {0}

VARIABLES
  active,           \* a timeline is playing, or paused half-way
  waiting,          \* how many timelines wait behind it
  queuePaused,      \* the queue's own paused flag
  animationPlaying, \* the store's flag; storeFlag is the queue's copy of it
  animationPaused   \* the store's flag, which the pause button shows

queueVars ==
  <<active, waiting, queuePaused, animationPlaying, animationPaused>>

\* Mutant of SetStoreFlag: the queue does not hear that the pause is over.
SetStoreFlagOnly(playing) ==
  /\ animationPlaying' = playing
  /\ animationPaused' = (animationPaused /\ (playing \/ ~animationPlaying))
  /\ UNCHANGED queuePaused

\* setStoreFlag: when nothing plays any more the store ends the pause, and the
\* canvas, which listens to the store, resumes the queue.
SetStoreFlag(playing) ==
  /\ animationPlaying' = playing
  /\ animationPaused' = (animationPaused /\ (playing \/ ~animationPlaying))
  /\ queuePaused' = (queuePaused /\ (animationPaused' = animationPaused))

\* Mutant of Enqueue: nothing is dropped.
EnqueueUnbounded ==
  \/ /\ active
     /\ waiting' = waiting + 1
     /\ UNCHANGED <<active, queuePaused, animationPlaying, animationPaused>>
  \/ /\ ~active
     /\ active' = TRUE
     /\ UNCHANGED waiting
     /\ SetStoreFlag(TRUE)

\* enqueue: a full queue drops the timeline that waits longest.
Enqueue ==
  \/ /\ active
     /\ waiting' = IF waiting < MaxQueuedTimelines THEN waiting + 1 ELSE waiting
     /\ UNCHANGED <<active, queuePaused, animationPlaying, animationPaused>>
  \/ /\ ~active
     /\ active' = TRUE
     /\ UNCHANGED waiting
     /\ SetStoreFlag(TRUE)

\* startNext, once the timeline that played is over or skipped.
StartNext ==
  /\ active
  /\ \/ /\ waiting > 0
        /\ waiting' = waiting - 1
        /\ UNCHANGED <<active, queuePaused, animationPlaying, animationPaused>>
     \/ /\ waiting = 0
        /\ active' = FALSE
        /\ UNCHANGED waiting
        /\ SetStoreFlag(FALSE)

\* skipAll, and forceFlush and destroy, which only end the timelines otherwise.
SkipAll ==
  /\ active' = FALSE
  /\ waiting' = 0
  /\ SetStoreFlag(FALSE)

QueueInit ==
  /\ active = FALSE
  /\ waiting = 0
  /\ queuePaused = FALSE
  /\ animationPlaying = FALSE
  /\ animationPaused = FALSE

=============================================================================
