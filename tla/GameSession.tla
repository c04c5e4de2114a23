---------------------------- MODULE GameSession ----------------------------
(***************************************************************************)
(* A playing session: the store of GameStore and the worker of GameWorker, *)
(* joined by the message channel of the bridge                             *)
(* (packages/runner/src/bridge/game-bridge.ts).  Requests are served in    *)
(* the order they were posted and replies are delivered in the order they  *)
(* were produced; the store may start further operations at any moment in  *)
(* between.                                                                *)
(***************************************************************************)
EXTENDS GameStore

StoreInit ==
  /\ sessionEpoch = 0
  /\ operationToken = 0
  /\ activeOperation = Null
  /\ loading = FALSE
  /\ lifecycle = "idle"
  /\ view = NoView
  /\ error = Null
  /\ agents = Null
  /\ call = [c \in Call |-> NoCall]
  /\ toWorker = <<>>
  /\ toStore = <<>>

Init == WorkerInit /\ StoreInit

-----------------------------------------------------------------------------
(* The worker's side of the channel.                                       *)

\* Mutant of Settle: a method that throws answers nothing.
SettleOnlySuccess(c) ==
  /\ toWorker' = IF reply'.code = "busy" THEN toWorker ELSE Tail(toWorker)
  /\ toStore' = IF reply'.code = "ok" THEN Append(toStore, c) ELSE toStore
  /\ call' = IF reply'.code = "ok" THEN [call EXCEPT ![c].result = reply'] ELSE call
  /\ UNCHANGED <<sessionEpoch, operationToken, activeOperation, loading,
                 lifecycle, view, error, agents>>

\* The call being served leaves the channel when its method settles.
Settle(c) ==
  /\ IF reply'.code = "busy"
     THEN UNCHANGED <<call, toWorker, toStore>>
     ELSE /\ call' = [call EXCEPT ![c].result = reply']
          /\ toWorker' = Tail(toWorker)
          /\ toStore' = Append(toStore, c)
  /\ UNCHANGED <<sessionEpoch, operationToken, activeOperation, loading,
                 lifecycle, view, error, agents>>

\* The worker method a call awaits at each stage.
Serve ==
  /\ toWorker # <<>>
  /\ LET c == Head(toWorker)
         request == call[c]
     IN  /\ \/ /\ request.stage = "init"
               /\ InitWorker(request.seed, StampOf(c))
            \/ /\ request.stage = "playSequence"
               /\ PlaySequence(request.moves, StampOf(c))
            \/ /\ request.stage = "applyDecision"
               /\ WorkerApplyDecision(request.decision, StampOf(c))
            \/ /\ request.stage = "rewindToTurnBoundary"
               /\ RewindToTurnBoundary(request.turnId, StampOf(c))
            \/ /\ request.stage = "undo"
               /\ Undo(StampOf(c))
            \/ /\ request.stage \in Awaiting \ MutationStage
               /\ Read(request.stage)
            \/ ReplayStep
         /\ Settle(c)

-----------------------------------------------------------------------------
(* The store's side.                                                       *)

Begin(c) ==
  \/ \E seed \in Seed :
       \/ InitGame(c, seed)
       \/ \E moves \in Histories : InitGameFromHistory(c, seed, moves)
  \/ \E d \in Decision : SubmitDecision(c, d)
  \/ SubmitBlockedSelection(c)
  \/ \E kind \in AiKind : StartAi(c, kind)
  \/ StartRewind(c)
  \/ StartUndo(c)

Resume(c) ==
  \/ ReceiveRejection(c)
  \/ ReceiveMutation(c)
  \/ ReceiveInit(c)
  \/ ReceiveTerminalResult(c)
  \/ ReceiveMicroturn(c)
  \/ ReceiveDescriptions(c)
  \/ ReceiveBlockedDescription(c)

Outside ==
  \/ CanvasCrash
  \/ CanvasRecovered
  \/ ReportBootstrapFailure
  \/ ClearError

Next ==
  \/ Serve
  \/ \E c \in Call : Begin(c) \/ Resume(c)
  \/ Outside

Spec == Init /\ [][Next]_vars

\* The two event loops keep turning: a posted request is served in the end and
\* a posted reply is received.  Nothing forces a player to do anything.
FairSpec ==
  /\ Spec
  /\ WF_vars(Serve)
  /\ WF_vars(\E c \in Call : Resume(c))

-----------------------------------------------------------------------------
(* Properties.                                                             *)

InFlight(c) == call[c].stage \in Awaiting
Quiescent == \A c \in Call : ~InFlight(c)

Queued(q) == {q[i] : i \in 1..Len(q)}

\* Every call in flight is on its way to the worker or back, once.
ChannelOK ==
  /\ \A i, j \in 1..Len(toWorker) : toWorker[i] = toWorker[j] => i = j
  /\ \A i, j \in 1..Len(toStore) : toStore[i] = toStore[j] => i = j
  /\ Queued(toWorker) \cap Queued(toStore) = {}
  /\ Queued(toWorker) \cup Queued(toStore) = {c \in Call : InFlight(c)}

\* The variables of the store have their types.
SessionTypeOK ==
  /\ sessionEpoch \in Nat
  /\ operationToken \in Nat
  /\ activeOperation \in Call \cup {Null}
  /\ loading \in BOOLEAN
  /\ lifecycle \in Lifecycle
  /\ view \in View
  /\ error \in ErrorCode \cup {Null}
  /\ agents \in Seed \cup {Null}
  /\ call \in [Call -> CallRecord]
  /\ toWorker \in Seq(Call)
  /\ toStore \in Seq(Call)
  /\ ChannelOK

\* The loading flag never sticks and never goes out early: it is on exactly
\* while some operation is current, and that operation is still awaiting the
\* worker (or is an init that the lifecycle check stopped before its try block).
LoadingHasAnOwner ==
  /\ loading <=> activeOperation # Null
  /\ loading => \/ InFlight(activeOperation)
                \/ call[activeOperation].stage = "rejected"

\* No first mutation of an operation is ever turned down as stale, however the
\* operations overlap: only a second one under the same stamp is.
OnlySecondMutationsAreStale ==
  \A c \in Call :
    call[c].result.code = "STALE_OPERATION" =>
      call[c].stage = "playSequence" \/ call[c].steps > 0

\* A session that is on show has a game on screen, and the lifecycle says
\* terminal exactly when the screen says the game is over, across overlapping
\* operations, canvas crashes and bootstrap failures.
LifecycleMatchesView ==
  /\ lifecycle \in {"playing", "reinitializing"} => view.state # Null
  /\ lifecycle = "playing" => ~view.terminal
  /\ lifecycle = "terminal" => view.terminal
  /\ lifecycle = "idle" => view = NoView

\* The session is one atomic game seen through one screen: in particular an
\* operation that is redrawing the screen after several awaits shows the game
\* as the worker has it then, never a state some other operation has replaced,
\* and never parts read from different states.
Atomic == INSTANCE AtomicGame WITH game <- gameState, past <- history
ImplementsAtomicGame == Atomic!AtomicSpec

\* Stamps are handed out in order, no two operations share one, and the
\* current operation has the newest.
StampsInOrder ==
  /\ \A c \in Call :
       call[c].epoch <= sessionEpoch /\ call[c].token <= operationToken
  /\ latestStamp # Null =>
       latestStamp.epoch <= sessionEpoch /\ latestStamp.token <= operationToken
  /\ activeOperation # Null =>
       /\ operationToken > 0
       /\ StampOf(activeOperation) =
            [epoch |-> sessionEpoch, token |-> operationToken]
  /\ \A c, d \in Call :
       call[c].token > 0 /\ call[c].token = call[d].token => c = d

\* A request carries the arguments its method needs.
RequestOK(r) ==
  /\ r.kind \in InitKind => r.seed \in Seed
  /\ r.kind = "initGameFromHistory" => r.moves \in Histories
  /\ r.kind = "submitBlockedSelection" => r.token = 0
  /\ r.stage \in {"init", "playSequence"} => r.kind \in InitKind
  /\ r.stage = "playSequence" => r.kind = "initGameFromHistory"
  /\ r.stage = "applyDecision" => r.decision \in Decision
  /\ r.stage = "rewindToTurnBoundary" => r.turnId \in TurnId

\* A request that is not settled has no answer yet.
RequestsWellFormed ==
  /\ \A c \in Call : InFlight(c) => RequestOK(call[c])
  /\ \A c \in Queued(toWorker) : call[c].result = Ok(Null)

\* Only a rewind or an undo is answered with null.
RepliesCarryStates ==
  \A c \in Queued(toStore) :
    LET r == call[c]
    IN  /\ r.stage \notin {"rewindToTurnBoundary", "undo"}
        /\ r.result.code = "ok"
        => r.result.value # Null

\* While playSequence loops, the worker acts for the call it is serving.
LoopHasAnOwner ==
  ~Available =>
    /\ toWorker # <<>>
    /\ call[Head(toWorker)].stage = "playSequence"
    /\ latestStamp = StampOf(Head(toWorker))

\* Between its awaits the current operation holds parts of the screen it is
\* going to show.  From the moment its mutation is accepted, the worker accepts
\* no other, and all parts are those of the worker's present game.
ReadsItsGame(r) ==
  LET answered == r.result.code = "ok" /\ r.result.value # Null
  IN  /\ answered => r.result.value = gameState
      /\ answered \/ r.stage \notin MutationStage
            => latestStamp = [epoch |-> r.epoch, token |-> r.token]
      /\ r.stage \in {"terminalResult", "publishMicroturn"} =>
           r.got = [NoView EXCEPT !.state = gameState]
      /\ r.stage = "publishMicroturn" => ~TerminalResult(gameState)
      /\ r.stage = "describeAction" =>
           /\ r.got = [NoView EXCEPT !.state = gameState,
                                     !.microturn = gameState]
           /\ ~TerminalResult(gameState)
           /\ DecisionStackEmpty(gameState)

CurrentOperationReadsItsGame ==
  activeOperation # Null =>
    (InFlight(activeOperation) => ReadsItsGame(call[activeOperation]))

\* What makes the refinement inductive.
OperationsInv ==
  /\ StampsInOrder
  /\ RequestsWellFormed
  /\ RepliesCarryStates
  /\ LoopHasAnOwner
  /\ CurrentOperationReadsItsGame

\* Every operation ends, and then no longer owns the loading flag.
EveryOperationEnds ==
  \A c \in Call : InFlight(c) ~> call[c].stage = "done" /\ activeOperation # c

-----------------------------------------------------------------------------
(* What the documents say and the code does not do.                        *)

\* archive/tickets/SESSMGMT-010.md: "Resume reconstructs non-terminal saves via
\* `init + playSequence` path."
ResumeReplaysItsMoves ==
  \A c \in Call :
    call[c].stage = "playSequence" =>
      call[c].result.code # "STALE_OPERATION"

\* archive/tickets/REACTUI-014-ai-turn-overlay.md: "`resolveAiTurn()` advances
\* through non-human turns to human/terminal".
ResolveAiTurnAdvances ==
  \A c \in Call :
    call[c].kind = "resolveAiTurn" /\ call[c].steps > 0 =>
      call[c].result.code # "STALE_OPERATION"

\* archive/tickets/REACTUI-022-async-interleaving-regression-suite.md: "final
\* state only reflects latest valid intent": when nothing is in flight, a
\* screen that shows a game shows the worker's game.
QuietScreenIsCurrent ==
  Quiescent /\ view.state # Null => view.state = gameState

=============================================================================
