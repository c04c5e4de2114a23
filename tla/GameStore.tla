------------------------------ MODULE GameStore ------------------------------
(***************************************************************************)
(* The store on the main thread (packages/runner/src/store/game-store.ts), *)
(* with the message channel to the worker.  A call of a store action runs  *)
(* up to its first await, which posts a request; each reply resumes it     *)
(* until the next await, so the awaits of overlapping calls interleave.    *)
(*                                                                         *)
(* A call becomes the active operation when it begins.  A later call       *)
(* supersedes it: its awaits go on, but guardSet drops what it would set.  *)
(***************************************************************************)
EXTENDS GameWorker, Lifecycle

CONSTANTS
  MaxCalls,        \* bound: how many store actions are called
  MaxAiSkipMoves   \* MAX_AI_SKIP_MOVES

ASSUME StoreAssumption ==
  /\ MaxCalls \in Nat
  /\ MaxAiSkipMoves \in Nat \ {0}
  /\ Null \notin Nat
  /\ Null \notin Seed

Call == 1..MaxCalls

VARIABLES
  sessionEpoch,    \* grows with every init
  operationToken,  \* grows with every operation
  activeOperation, \* the call whose operation is current, or Null
  loading,         \* the flag the UI shows
  lifecycle,       \* gameLifecycle
  view,            \* gameState, currentMicroturn, terminal, actionAvailabilityById
  error,           \* the code of the WorkerError shown, or Null
  agents,          \* the seed of the orchestrator's agent session, or Null
  call,            \* the calls made so far, each at its await
  toWorker,        \* calls whose request is posted and not yet settled
  toStore          \* calls whose reply is posted and not yet received

storeVars == <<sessionEpoch, operationToken, activeOperation, loading,
               lifecycle, view, error, agents, call, toWorker, toStore>>
vars == <<workerVars, storeVars>>

\* A view names, for each part the UI shows, the game state it was read from.
View == [state : GameState \cup {Null}, microturn : GameState \cup {Null},
         terminal : BOOLEAN, described : GameState \cup {Null}]
NoView ==
  [state |-> Null, microturn |-> Null, terminal |-> FALSE, described |-> Null]

InitKind == {"initGame", "initGameFromHistory"}
AiKind == {"runAiStep", "resolveAiTurn"}
Kind == InitKind \cup AiKind \cup
        {"submitDecision", "rewindToCurrentTurnStart", "undo",
         "submitBlockedSelection"}

MutationStage == {"init", "playSequence", "applyDecision",
                  "rewindToTurnBoundary", "undo"}
Awaiting == MutationStage \cup
            {"getState", "terminalResult", "publishMicroturn", "describeAction"}
\* "rejected" is an init that threw between beginOperation and its try block.
Stage == Awaiting \cup {"none", "done", "rejected"}

\* A settled reply.
Answer == [code : ErrorCode \cup {"ok"}, value : GameState \cup {Null}]

CallRecord ==
  [kind : Kind \cup {Null}, stage : Stage, epoch : Nat, token : Nat,
   seed : Seed \cup {Null}, moves : Seq(Move), decision : Decision \cup {Null},
   turnId : TurnId \cup {Null}, lifecycle : Lifecycle \cup {Null},
   steps : Nat, got : View, result : Answer]

NoCall ==
  [kind |-> Null, stage |-> "none", epoch |-> 0, token |-> 0, seed |-> Null,
   moves |-> <<>>, decision |-> Null, turnId |-> Null, lifecycle |-> Null,
   steps |-> 0, got |-> NoView, result |-> Ok(Null)]

\* What remains of a call that has returned: its operation's stamp.
Finished(c, stage) ==
  [NoCall EXCEPT !.kind = call[c].kind, !.stage = stage,
                 !.epoch = call[c].epoch, !.token = call[c].token]

\* toOperationStamp
StampOf(c) == [epoch |-> call[c].epoch, token |-> call[c].token]

\* Mutant of IsCurrentOperation: a superseded operation still passes the guard.
AnyOperation(c) == call[c].stage # "none"

\* isCurrentOperation
IsCurrentOperation(c) == activeOperation = c

\* The calls are numbered in the order in which they are made.
NextCall(c) ==
  /\ call[c].stage = "none"
  /\ \A b \in 1..(c - 1) : call[b].stage # "none"

-----------------------------------------------------------------------------
(* beginOperation and the first request of each kind of call.              *)

\* Mutant of BeginOperation: only an init takes a new token.
BeginOperationReusingToken(c, isInit) ==
  /\ sessionEpoch' = IF isInit THEN sessionEpoch + 1 ELSE sessionEpoch
  /\ operationToken' = IF isInit THEN operationToken + 1 ELSE operationToken
  /\ agents' = IF isInit THEN Null ELSE agents
  /\ activeOperation' = c
  /\ loading' = TRUE

BeginOperation(c, isInit) ==
  /\ sessionEpoch' = IF isInit THEN sessionEpoch + 1 ELSE sessionEpoch
  /\ operationToken' = operationToken + 1
  /\ agents' = IF isInit THEN Null ELSE agents
  /\ activeOperation' = c
  /\ loading' = TRUE

\* The call c as it begins, waiting at its first await.
Started(kind, stage) ==
  [NoCall EXCEPT !.kind = kind, !.stage = stage, !.epoch = sessionEpoch',
                 !.token = operationToken', !.lifecycle = lifecycle]

Post(c, record) ==
  /\ call' = [call EXCEPT ![c] = record]
  /\ toWorker' = Append(toWorker, c)

\* initGame and initGameFromHistory up to bridge.init.  The lifecycle check
\* runs after beginOperation and outside the try block.
StartInit(c, kind, seed, moves) ==
  /\ NextCall(c)
  /\ BeginOperation(c, TRUE)
  /\ \/ /\ "initializing" \in AllowedLifecycleTransitions[lifecycle]
        /\ lifecycle' = "initializing"
        /\ error' = Null
        /\ Post(c, [Started(kind, "init") EXCEPT !.seed = seed, !.moves = moves])
     \/ /\ "initializing" \notin AllowedLifecycleTransitions[lifecycle]
        /\ call' = [call EXCEPT ![c] = Started(kind, "rejected")]
        /\ UNCHANGED <<lifecycle, error, toWorker>>
  /\ UNCHANGED <<view, toStore, workerVars>>

InitGame(c, seed) == StartInit(c, "initGame", seed, <<>>)

InitGameFromHistory(c, seed, moves) ==
  StartInit(c, "initGameFromHistory", seed, moves)

\* An operation that returns without awaiting the worker.  It begins and
\* finishes in one go, and supersedes the operation in flight nevertheless.
FinishAtOnce(c, kind, shownError) ==
  /\ operationToken' = operationToken + 1
  /\ activeOperation' = Null
  /\ loading' = FALSE
  /\ error' = shownError
  /\ call' = [call EXCEPT ![c] =
       [NoCall EXCEPT !.kind = kind, !.stage = "done", !.epoch = sessionEpoch,
                      !.token = operationToken + 1]]
  /\ UNCHANGED <<sessionEpoch, agents, lifecycle, toWorker>>

\* submitActionSelection, submitChoice and submitChooseNStep: a decision found
\* in the microturn on screen.
SubmitDecision(c, d) ==
  /\ NextCall(c)
  /\ view.microturn # Null
  /\ d \in LegalActions(view.microturn)
  /\ BeginOperation(c, FALSE)
  /\ Post(c, [Started("submitDecision", "applyDecision") EXCEPT !.decision = d])
  /\ UNCHANGED <<lifecycle, view, error, toStore, workerVars>>

\* submitActionSelection of an action that is not legal: the worker is asked
\* why before an operation begins.
SubmitBlockedSelection(c) ==
  /\ NextCall(c)
  /\ view.microturn # Null
  /\ DecisionStackEmpty(view.microturn)
  /\ Post(c, [NoCall EXCEPT !.kind = "submitBlockedSelection",
                            !.stage = "describeAction"])
  /\ UNCHANGED <<sessionEpoch, operationToken, activeOperation, loading,
                 lifecycle, view, error, agents, toStore, workerVars>>

\* resolveSingleAiStep has a decision to submit when the store shows this
\* lifecycle and view.
AgentDecides(shownLifecycle, shown) ==
  /\ shownLifecycle # "terminal"
  /\ shown.state # Null
  /\ shown.microturn # Null
  /\ agents # Null
  /\ AgentToMove(shown.state)

\* runAiStep and resolveAiTurn.  The agent may fail to select a decision; that
\* there is none to select cannot happen: a published microturn has a decision.
StartAi(c, kind) ==
  /\ NextCall(c)
  /\ \/ /\ ~AgentDecides(lifecycle, view)
        /\ FinishAtOnce(c, kind, error)
     \/ /\ AgentDecides(lifecycle, view)
        /\ FinishAtOnce(c, kind, "INTERNAL_ERROR")
     \/ /\ AgentDecides(lifecycle, view)
        /\ BeginOperation(c, FALSE)
        /\ \E d \in LegalActions(view.microturn) :
             Post(c, [Started(kind, "applyDecision") EXCEPT !.decision = d])
        /\ UNCHANGED <<lifecycle, error>>
  /\ UNCHANGED <<view, toStore, workerVars>>

\* rewindToCurrentTurnStart: nothing to do without a microturn or at the root
\* of a turn.
StartRewind(c) ==
  /\ NextCall(c)
  /\ \/ /\ IF view.microturn = Null THEN TRUE
           ELSE DecisionStackEmpty(view.microturn)
        /\ FinishAtOnce(c, "rewindToCurrentTurnStart", error)
     \/ /\ IF view.microturn = Null THEN FALSE
           ELSE ~DecisionStackEmpty(view.microturn)
        /\ BeginOperation(c, FALSE)
        /\ Post(c, [Started("rewindToCurrentTurnStart", "rewindToTurnBoundary")
                    EXCEPT !.turnId = NextTurnId(view.microturn)])
        /\ UNCHANGED <<lifecycle, error>>
  /\ UNCHANGED <<view, toStore, workerVars>>

StartUndo(c) ==
  /\ NextCall(c)
  /\ BeginOperation(c, FALSE)
  /\ Post(c, Started("undo", "undo"))
  /\ UNCHANGED <<lifecycle, view, error, toStore, workerVars>>

-----------------------------------------------------------------------------
(* How a call ends.                                                        *)

\* Mutant of FinishOperation: a superseded operation clears the flag too.
FinishOperationUnguarded(c, stage) ==
  /\ activeOperation' = IF IsCurrentOperation(c) THEN Null ELSE activeOperation
  /\ loading' = FALSE
  /\ call' = [call EXCEPT ![c] = Finished(c, stage)]
  /\ UNCHANGED toWorker

\* Mutant of FinishOperation: the call returns without its finally block.
FinishOperationSkipped(c, stage) ==
  /\ call' = [call EXCEPT ![c] = Finished(c, stage)]
  /\ UNCHANGED <<activeOperation, loading, toWorker>>

\* finishOperation
FinishOperation(c, stage) ==
  /\ activeOperation' = IF IsCurrentOperation(c) THEN Null ELSE activeOperation
  /\ loading' = IF IsCurrentOperation(c) THEN FALSE ELSE loading
  /\ call' = [call EXCEPT ![c] = Finished(c, stage)]
  /\ UNCHANGED toWorker

\* The operation ended with an exception.  An action keeps the lifecycle; an
\* init empties the session, unless the lifecycle has moved on, in which case
\* its own error handler throws.
Fail(c, code) ==
  /\ \/ /\ IsCurrentOperation(c)
        /\ call[c].kind \notin InitKind
        /\ error' = code
        /\ UNCHANGED <<lifecycle, view>>
     \/ /\ IsCurrentOperation(c)
        /\ call[c].kind \in InitKind
        /\ "idle" \in AllowedLifecycleTransitions[lifecycle]
        /\ error' = code
        /\ lifecycle' = "idle"
        /\ view' = NoView
     \/ /\ \/ ~IsCurrentOperation(c)
           \/ /\ call[c].kind \in InitKind
              /\ "idle" \notin AllowedLifecycleTransitions[lifecycle]
        /\ UNCHANGED <<error, lifecycle, view>>
  /\ FinishOperation(c, "done")

\* The lifecycle a commit starts from: init and rewind read it afresh, the
\* other actions use the value they captured before their first await.
LifecycleBefore(c) ==
  IF call[c].kind \in InitKind \cup {"rewindToCurrentTurnStart"}
  THEN lifecycle ELSE call[c].lifecycle

\* resolveAiTurn after a step that advanced: the next step of the loop, with
\* the stamp of the same operation; or the end of the loop, because no agent is
\* to move, or because the agent failed or the loop used up its steps.
ContinueAiTurn(c, shownLifecycle, shown) ==
  LET another == call[c].steps + 1 < MaxAiSkipMoves
      decides == AgentDecides(shownLifecycle, shown)
  IN  \/ /\ another /\ decides
         /\ \E d \in LegalActions(shown.microturn) :
              Post(c, [call[c] EXCEPT !.stage = "applyDecision", !.decision = d,
                                      !.lifecycle = shownLifecycle,
                                      !.steps = @ + 1, !.got = NoView,
                                      !.result = Ok(Null)])
         /\ error' = Null
         /\ UNCHANGED <<activeOperation, loading>>
      \/ /\ another /\ ~decides
         /\ error' = Null
         /\ FinishOperation(c, "done")
      \/ /\ ~another \/ decides
         /\ error' = "INTERNAL_ERROR"
         /\ FinishOperation(c, "done")

\* All inputs are derived: check the lifecycle, then guardSetAndDerive.  An
\* init hands its seed to the agents before either.
Commit(c, shown) ==
  LET next == LifecycleFromTerminal(shown.terminal)
  IN  /\ agents' = IF call[c].kind \in InitKind THEN call[c].seed ELSE agents
      /\ \/ /\ next \notin AllowedLifecycleTransitions[LifecycleBefore(c)]
            /\ Fail(c, "INTERNAL_ERROR")
         \/ /\ next \in AllowedLifecycleTransitions[LifecycleBefore(c)]
            /\ ~IsCurrentOperation(c)
            /\ FinishOperation(c, "done")
            /\ UNCHANGED <<lifecycle, view, error>>
         \/ /\ next \in AllowedLifecycleTransitions[LifecycleBefore(c)]
            /\ IsCurrentOperation(c)
            /\ lifecycle' = next
            /\ view' = shown
            /\ IF call[c].kind = "resolveAiTurn"
               THEN ContinueAiTurn(c, next, shown)
               ELSE error' = Null /\ FinishOperation(c, "done")

\* The call goes on to its next await.
Await(c, stage, got) ==
  /\ Post(c, [call[c] EXCEPT !.stage = stage, !.got = got, !.result = Ok(Null)])
  /\ UNCHANGED <<activeOperation, loading, lifecycle, view, error, agents>>

-----------------------------------------------------------------------------
(* The continuations: what a call does with the reply it receives.         *)

\* The reply at the head of the channel belongs to c, which waits at stage.
Receive(c, stage) ==
  /\ toStore # <<>>
  /\ c = Head(toStore)
  /\ call[c].stage = stage
  /\ toStore' = Tail(toStore)
  /\ UNCHANGED <<sessionEpoch, workerVars>>

Succeeded(c) == call[c].result.code = "ok"

\* Whatever the stage, a rejected request ends the call with its error.
ReceiveRejection(c) ==
  /\ call[c].kind # "submitBlockedSelection"
  /\ ~Succeeded(c)
  /\ \E stage \in Awaiting : Receive(c, stage)
  /\ Fail(c, call[c].result.code)
  /\ UNCHANGED <<agents, operationToken>>

\* deriveMutationInputs starts from the state a mutation returned.  A rewind
\* or an undo that found nothing returns null and ends the call.
ReceiveMutation(c) ==
  /\ Succeeded(c)
  /\ \E stage \in MutationStage \ {"init", "playSequence"} : Receive(c, stage)
  /\ LET restored == call[c].result.value
     IN  \/ /\ restored = Null
            /\ FinishOperation(c, "done")
            /\ UNCHANGED <<lifecycle, view, error, agents>>
         \/ /\ restored # Null
            /\ Await(c, "terminalResult", [NoView EXCEPT !.state = restored])
  /\ UNCHANGED operationToken

\* initGame derives from the state init returned; initGameFromHistory replays
\* its moves, if any, and then asks for the state.
ReceiveInit(c) ==
  /\ Succeeded(c)
  /\ \/ /\ Receive(c, "init")
        /\ call[c].kind = "initGame"
        /\ Await(c, "terminalResult",
                 [NoView EXCEPT !.state = call[c].result.value])
     \/ /\ Receive(c, "init")
        /\ call[c].kind = "initGameFromHistory"
        /\ Await(c, IF call[c].moves = <<>> THEN "getState" ELSE "playSequence",
                 NoView)
     \/ /\ Receive(c, "playSequence")
        /\ Await(c, "getState", NoView)
     \/ /\ Receive(c, "getState")
        /\ Await(c, "terminalResult",
                 [NoView EXCEPT !.state = call[c].result.value])
  /\ UNCHANGED operationToken

\* A finished game has no microturn to publish.
ReceiveTerminalResult(c) ==
  /\ Succeeded(c)
  /\ Receive(c, "terminalResult")
  /\ LET terminal == TerminalResult(call[c].result.value)
         got == [call[c].got EXCEPT !.terminal = terminal]
     IN  \/ terminal /\ Commit(c, got)
         \/ ~terminal /\ Await(c, "publishMicroturn", got)
  /\ UNCHANGED operationToken

\* deriveActionAvailabilityById asks only about a root action selection.  Its
\* requests, one per action, are posted together and served back to back, so
\* they are one request here.
ReceiveMicroturn(c) ==
  /\ Succeeded(c)
  /\ Receive(c, "publishMicroturn")
  /\ LET microturn == call[c].result.value
         got == [call[c].got EXCEPT !.microturn = microturn]
     IN  \/ ~DecisionStackEmpty(microturn) /\ Commit(c, got)
         \/ DecisionStackEmpty(microturn) /\ Await(c, "describeAction", got)
  /\ UNCHANGED operationToken

ReceiveDescriptions(c) ==
  /\ call[c].kind # "submitBlockedSelection"
  /\ Succeeded(c)
  /\ Receive(c, "describeAction")
  /\ Commit(c, [call[c].got EXCEPT !.described = call[c].result.value])
  /\ UNCHANGED operationToken

\* The description of a blocked action arrived: only now does an operation
\* begin, which shows the error and finishes at once.
ReceiveBlockedDescription(c) ==
  /\ call[c].kind = "submitBlockedSelection"
  /\ Receive(c, "describeAction")
  /\ operationToken' = operationToken + 1
  /\ activeOperation' = Null
  /\ loading' = FALSE
  /\ error' = "ILLEGAL_MOVE"
  /\ call' = [call EXCEPT ![c] =
       [Finished(c, "done") EXCEPT !.epoch = sessionEpoch,
                                   !.token = operationToken + 1]]
  /\ UNCHANGED <<lifecycle, view, agents, toWorker>>

-----------------------------------------------------------------------------
(* What happens to the store outside operations.                           *)

outsideVars == <<sessionEpoch, operationToken, activeOperation, loading, call,
                 toWorker, toStore>>

\* The canvas crash recovery reports the crash and begins the recovery in one
\* synchronous step, so canvasCrashed itself is never observable.
CanvasCrash ==
  /\ lifecycle \in {"playing", "terminal"}
  /\ lifecycle' = "reinitializing"
  /\ UNCHANGED <<view, error, agents, outsideVars, workerVars>>

\* Mutant of CanvasRecovered: the recovered session is always playing.
CanvasRecoveredAsPlaying ==
  /\ lifecycle = "reinitializing"
  /\ lifecycle' = "playing"
  /\ UNCHANGED <<view, error, agents, outsideVars, workerVars>>

CanvasRecovered ==
  /\ lifecycle = "reinitializing"
  /\ lifecycle' = LifecycleFromTerminal(view.terminal)
  /\ UNCHANGED <<view, error, agents, outsideVars, workerVars>>

\* reportBootstrapFailure, called for a fatal error event of the worker: the
\* agents are dropped first; the rest throws when the lifecycle forbids idle.
ReportBootstrapFailure ==
  /\ agents' = Null
  /\ \/ /\ "idle" \in AllowedLifecycleTransitions[lifecycle]
        /\ lifecycle' = "idle"
        /\ view' = NoView
        /\ error' = "INTERNAL_ERROR"
     \/ /\ "idle" \notin AllowedLifecycleTransitions[lifecycle]
        /\ UNCHANGED <<lifecycle, view, error>>
  /\ UNCHANGED <<outsideVars, workerVars>>

\* clearError
ClearError ==
  /\ error # Null
  /\ error' = Null
  /\ UNCHANGED <<lifecycle, view, agents, outsideVars, workerVars>>

=============================================================================
