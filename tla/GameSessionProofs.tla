------------------------- MODULE GameSessionProofs -------------------------
(***************************************************************************)
(* Proofs about GameSession: with any number of overlapping store actions, *)
(* on any game, the store and the worker implement AtomicGame.             *)
(***************************************************************************)
EXTENDS GameSession, GameWorkerProofs

\* The inductive invariant.
SessionInv ==
  /\ WorkerTypeOK
  /\ HistoryIsAPlay
  /\ SessionTypeOK
  /\ LoadingHasAnOwner
  /\ OperationsInv

-----------------------------------------------------------------------------
(* The channel.                                                            *)

\* What the queues hold after one more request is posted, and after one reply
\* is taken.
LEMMA QueuedAppend ==
  ASSUME NEW q \in Seq(Call), NEW c \in Call
  PROVE  /\ Append(q, c) \in Seq(Call)
         /\ Queued(Append(q, c)) = Queued(q) \cup {c}
         /\ (\A i, j \in 1..Len(q) : q[i] = q[j] => i = j) /\ c \notin Queued(q)
              => \A i, j \in 1..Len(Append(q, c)) :
                   Append(q, c)[i] = Append(q, c)[j] => i = j
<1> DEFINE p == Append(q, c)
<1>1. /\ p \in Seq(Call) /\ Len(p) = Len(q) + 1 /\ Len(q) \in Nat
      /\ p[Len(q) + 1] = c
      /\ \A i \in 1..Len(q) : p[i] = q[i]
  OBVIOUS
<1> HIDE DEF p
<1>2. \A i \in 1..Len(p) : i \in 1..Len(q) \/ i = Len(q) + 1
  BY <1>1
<1>3. Queued(p) = Queued(q) \cup {c}
  <2>1. \A x : x \in Queued(p) <=> \E i \in 1..Len(p) : p[i] = x
    BY DEF Queued
  <2>2. \A x : x \in Queued(q) <=> \E i \in 1..Len(q) : q[i] = x
    BY DEF Queued
  <2>3. \A i \in 1..Len(q) : i \in 1..Len(p)
    BY <1>1
  <2>4. Len(q) + 1 \in 1..Len(p)
    BY <1>1
  <2>5. \A x : x \in Queued(p) <=> x \in Queued(q) \/ x = c
    BY <1>1, <1>2, <2>1, <2>2, <2>3, <2>4
  <2> QED BY <2>5
<1>4. ASSUME \A i, j \in 1..Len(q) : q[i] = q[j] => i = j, c \notin Queued(q),
             NEW i \in 1..Len(p), NEW j \in 1..Len(p), p[i] = p[j]
      PROVE  i = j
  BY <1>1, <1>2, <1>4 DEF Queued
<1> QED BY <1>1, <1>3, <1>4 DEF p

\* Taking the first call off a queue leaves the others in it.
LEMMA QueuedTail ==
  ASSUME NEW q \in Seq(Call), q # <<>>,
         \A i, j \in 1..Len(q) : q[i] = q[j] => i = j
  PROVE  /\ Head(q) \in Call /\ Head(q) \in Queued(q)
         /\ Tail(q) \in Seq(Call)
         /\ Queued(Tail(q)) = Queued(q) \ {Head(q)}
         /\ \A i, j \in 1..Len(Tail(q)) : Tail(q)[i] = Tail(q)[j] => i = j
<1> DEFINE p == Tail(q)
           h == Head(q)
<1>1. /\ h \in Call /\ h = q[1] /\ p \in Seq(Call)
      /\ Len(q) \in Nat \ {0} /\ Len(p) = Len(q) - 1
      /\ \A i \in 1..Len(p) : p[i] = q[i + 1]
  OBVIOUS
<1> HIDE DEF p, h
<1>2. 1 \in 1..Len(q) /\ \A i \in 1..Len(p) : i + 1 \in 1..Len(q)
  BY <1>1
<1>3. \A i \in 1..Len(q) : i = 1 \/ (i - 1 \in 1..Len(p) /\ p[i - 1] = q[i])
  BY <1>1
<1>4. \A i \in 1..Len(p) : p[i] # h
  BY <1>1, <1>2
<1>5. Queued(p) = Queued(q) \ {h}
  <2>1. \A x : x \in Queued(p) <=> \E i \in 1..Len(p) : p[i] = x
    BY DEF Queued
  <2>2. \A x : x \in Queued(q) <=> \E i \in 1..Len(q) : q[i] = x
    BY DEF Queued
  <2>3. \A x : x \in Queued(p) => x \in Queued(q) /\ x # h
    BY <1>1, <1>2, <1>4, <2>1, <2>2
  <2>4. \A x : x \in Queued(q) /\ x # h => x \in Queued(p)
    BY <1>1, <1>3, <2>1, <2>2
  <2> QED BY <2>3, <2>4
<1>6. ASSUME NEW i \in 1..Len(p), NEW j \in 1..Len(p), p[i] = p[j]
      PROVE  i = j
  BY <1>1, <1>2, <1>6
<1>7. h \in Queued(q)
  BY <1>1, <1>2 DEF Queued
<1> QED BY <1>1, <1>5, <1>6, <1>7 DEF p, h

-----------------------------------------------------------------------------
(* What the worker does with a request.                                    *)

\* A request is rejected, and then the game stays and the stamp may be used up,
\* or accepted, and then its answer is the new present state or null.
Settled(stamp) ==
  \/ /\ reply'.code \in ErrorCode
     /\ UNCHANGED gameState
     /\ latestStamp' = latestStamp \/ (Fresh(stamp) /\ latestStamp' = stamp)
  \/ /\ reply'.code \in {"ok", "busy"}
     /\ Fresh(stamp) /\ latestStamp' = stamp
     /\ reply'.code = "ok" => reply'.value \in {Null, gameState'}

\* A rejected method settles with an error code and leaves the game alone.
LEMMA RejectionSettles ==
  ASSUME NEW stamp, RejectStale(stamp) \/ RejectUninitialized
  PROVE  Settled(stamp)
BY DEF RejectStale, RejectUninitialized, Reject, ErrorCode, Settled

\* init settles: rejected, or with a new game under its stamp.
LEMMA InitSettles ==
  ASSUME WorkerTypeOK, NEW stamp, NEW seed \in Seed, InitWorker(seed, stamp)
  PROVE  /\ Settled(stamp)
         /\ reply'.code # "busy"
         /\ reply'.code = "ok" => reply'.value # Null
<1>1. CASE RejectStale(stamp)
  <2>1. reply'.code # "busy" /\ reply'.code # "ok"
    BY <1>1 DEF RejectStale, Reject
  <2> QED BY <1>1, <2>1, RejectionSettles
<1>2. CASE ~RejectStale(stamp) /\ InitState(seed)
  <2>1. /\ gameState' \in GameState /\ reply' = Ok(gameState')
        /\ Fresh(stamp) /\ latestStamp' = stamp
    BY <1>2, GameAssumption DEF InitWorker, InitState
  <2> QED BY <2>1, GameAssumption DEF Settled, Ok
<1>3. CASE ~RejectStale(stamp) /\ SetupThrows
  <2>1. /\ reply' = Reject("INTERNAL_ERROR") /\ UNCHANGED gameState
        /\ Fresh(stamp) /\ latestStamp' = stamp
    BY <1>3 DEF InitWorker, SetupThrows
  <2> QED BY <2>1 DEF Settled, Reject, ErrorCode
<1> QED BY <1>1, <1>2, <1>3 DEF InitWorker

\* applyDecision settles: rejected, or one engine step further.
LEMMA DecisionSettles ==
  ASSUME WorkerTypeOK, NEW stamp, NEW d, WorkerApplyDecision(d, stamp)
  PROVE  /\ Settled(stamp)
         /\ reply'.code # "busy"
         /\ reply'.code = "ok" => reply'.value # Null
<1>1. CASE RejectStale(stamp) \/ RejectUninitialized
  <2>1. reply'.code # "busy" /\ reply'.code # "ok"
    BY <1>1 DEF RejectStale, RejectUninitialized, Reject
  <2> QED BY <1>1, <2>1, RejectionSettles
<1>2. CASE ~(RejectStale(stamp) \/ RejectUninitialized)
  <2>1. gameState \in GameState /\ Fresh(stamp) /\ latestStamp' = stamp
    BY <1>2 DEF WorkerApplyDecision, Initialized, WorkerTypeOK
  <2>2. CASE d \in LegalActions(gameState)
    <3>1. gameState' \in GameState /\ reply' = Ok(gameState')
      BY <1>2, <2>1, <2>2, GameAssumption DEF WorkerApplyDecision, Advance
    <3> QED BY <2>1, <3>1, GameAssumption DEF Settled, Ok
  <2>3. CASE d \notin LegalActions(gameState)
    <3>1. reply' = Reject("ILLEGAL_MOVE") /\ UNCHANGED gameState
      BY <1>2, <2>3 DEF WorkerApplyDecision, Advance
    <3> QED BY <2>1, <3>1 DEF Settled, Reject, ErrorCode
  <2> QED BY <2>2, <2>3
<1> QED BY <1>1, <1>2

\* playSequence settles, or its loop begins; settled well, it answers with a state.
LEMMA SequenceSettles ==
  ASSUME WorkerTypeOK, NEW stamp, NEW moves, PlaySequence(moves, stamp)
  PROVE  /\ Settled(stamp)
         /\ reply'.code = "ok" => reply'.value # Null
<1>1. CASE RejectStale(stamp) \/ RejectUninitialized
  <2>1. reply'.code # "ok"
    BY <1>1 DEF RejectStale, RejectUninitialized, Reject
  <2> QED BY <1>1, <2>1, RejectionSettles
<1>2. CASE ~(RejectStale(stamp) \/ RejectUninitialized)
  <2>1. /\ Initialized /\ Fresh(stamp) /\ latestStamp' = stamp
        /\ reply' \in {Ok(gameState), Busy} /\ UNCHANGED gameState
    BY <1>2 DEF PlaySequence
  <2> QED BY <2>1 DEF Settled, Ok, Busy, Initialized
<1> QED BY <1>1, <1>2

\* rewindToTurnBoundary settles, with a state of the history or with null.
LEMMA RewindSettles ==
  ASSUME WorkerTypeOK, NEW stamp, NEW turnId,
         RewindToTurnBoundary(turnId, stamp)
  PROVE  Settled(stamp) /\ reply'.code # "busy"
<1>1. CASE RejectStale(stamp)
  <2>1. reply'.code # "busy"
    BY <1>1 DEF RejectStale, Reject
  <2> QED BY <1>1, <2>1, RejectionSettles
<1>2. CASE ~RejectStale(stamp)
  <2>1. Fresh(stamp) /\ latestStamp' = stamp
    BY <1>2 DEF RewindToTurnBoundary
  <2>2. \/ reply' = Reject("NOT_INITIALIZED") /\ UNCHANGED gameState
        \/ reply' = Ok(Null)
        \/ reply' = Ok(gameState')
    BY <1>2 DEF RewindToTurnBoundary
  <2> QED BY <2>1, <2>2 DEF Settled, Ok, Reject, ErrorCode
<1> QED BY <1>1, <1>2

\* undo settles, with the last state of the history or with null.
LEMMA UndoSettles ==
  ASSUME WorkerTypeOK, NEW stamp, Undo(stamp)
  PROVE  Settled(stamp) /\ reply'.code # "busy"
<1>1. CASE RejectStale(stamp)
  <2>1. reply'.code # "busy"
    BY <1>1 DEF RejectStale, Reject
  <2> QED BY <1>1, <2>1, RejectionSettles
<1>2. CASE ~RejectStale(stamp)
  <2>1. /\ Fresh(stamp) /\ latestStamp' = stamp
        /\ reply' \in {Ok(Null), Ok(gameState')}
    BY <1>2 DEF Undo
  <2> QED BY <2>1 DEF Settled, Ok
<1> QED BY <1>1, <1>2

\* The request being served is in flight, stamped, and has its arguments.
LEMMA ServedRequest ==
  ASSUME SessionInv, toWorker # <<>>
  PROVE  LET c == Head(toWorker)
         IN  /\ c \in Call /\ c \in Queued(toWorker) /\ InFlight(c)
             /\ call[c] \in CallRecord /\ StampOf(c) \in Stamp
             /\ RequestOK(call[c])
<1> DEFINE c == Head(toWorker)
<1>1. c \in Call /\ c \in Queued(toWorker)
  BY QueuedTail DEF SessionInv, SessionTypeOK, ChannelOK
<1>2. InFlight(c)
  BY <1>1 DEF SessionInv, SessionTypeOK, ChannelOK
<1>3. call[c] \in CallRecord
  BY <1>1 DEF SessionInv, SessionTypeOK
<1>4. StampOf(c) \in Stamp
  BY <1>3 DEF CallRecord, StampOf, Stamp
<1>5. RequestOK(call[c])
  BY <1>1, <1>2 DEF SessionInv, OperationsInv, RequestsWellFormed
<1> QED BY <1>1, <1>2, <1>3, <1>4, <1>5

\* Everything the rest of the proof needs to know of a step of the worker.
ServeEffect(c) ==
  /\ WorkerTypeOK'
  /\ GameStep
  /\ reply'.code = "ok" => reply'.value \in {Null, gameState'}
  /\ reply'.code = "ok" /\ call[c].stage \notin {"rewindToTurnBoundary", "undo"}
       => reply'.value # Null
  /\ reply'.code = "ok" /\ call[c].stage \in MutationStage
       => latestStamp' = StampOf(c)
  /\ reply'.code = "busy" =>
       call[c].stage = "playSequence" /\ latestStamp' = StampOf(c)
  /\ \/ UNCHANGED <<gameState, latestStamp>>
     \/ /\ call[c].stage \in MutationStage
        /\ latestStamp' = StampOf(c)
        /\ Fresh(StampOf(c)) \/ latestStamp = StampOf(c)

\* Whatever request is served has the effect its kind may have.
LEMMA ServeHasItsEffect ==
  ASSUME SessionInv, Serve
  PROVE  ServeEffect(Head(toWorker))
<1> DEFINE c == Head(toWorker)
           r == call[c]
           stamp == StampOf(c)
<1>1. WorkerTypeOK /\ HistoryIsAPlay /\ toWorker # <<>>
  BY DEF SessionInv, Serve
<1>2. stamp \in Stamp /\ RequestOK(r) /\ InFlight(c)
  BY <1>1, ServedRequest
<1>3. reply'.code \in ErrorCode => reply'.code # "ok" /\ reply'.code # "busy"
  BY DEF ErrorCode
<1>4. ASSUME MutatingCall(stamp), Settled(stamp), r.stage \in MutationStage,
             reply'.code = "busy" => r.stage = "playSequence",
             r.stage \notin {"rewindToTurnBoundary", "undo"} =>
               (reply'.code = "ok" => reply'.value # Null)
      PROVE  ServeEffect(c)
  <2>1. WorkerTypeOK' /\ GameStep
    BY <1>1, <1>2, <1>4, MutatingCallTypeOK, MutatingCallGameStep
  <2> QED BY <1>3, <1>4, <2>1 DEF ServeEffect, Settled
<1>5. CASE r.stage = "init" /\ InitWorker(r.seed, stamp)
  <2>1. r.seed \in Seed
    BY <1>2, <1>5 DEF RequestOK
  <2> QED BY <1>1, <1>4, <1>5, <2>1, InitSettles DEF MutatingCall, MutationStage
<1>6. CASE r.stage = "playSequence" /\ PlaySequence(r.moves, stamp)
  <2>1. r.moves \in Histories
    BY <1>2, <1>6 DEF RequestOK
  <2> QED BY <1>1, <1>4, <1>6, <2>1, SequenceSettles
             DEF MutatingCall, MutationStage
<1>7. CASE r.stage = "applyDecision" /\ WorkerApplyDecision(r.decision, stamp)
  <2>1. r.decision \in Decision
    BY <1>2, <1>7 DEF RequestOK
  <2> QED BY <1>1, <1>4, <1>7, <2>1, DecisionSettles
             DEF MutatingCall, MutationStage
<1>8. CASE /\ r.stage = "rewindToTurnBoundary"
           /\ RewindToTurnBoundary(r.turnId, stamp)
  <2>1. r.turnId \in TurnId
    BY <1>2, <1>8 DEF RequestOK
  <2> QED BY <1>1, <1>4, <1>8, <2>1, RewindSettles
             DEF MutatingCall, MutationStage
<1>9. CASE r.stage = "undo" /\ Undo(stamp)
  BY <1>1, <1>4, <1>9, UndoSettles DEF MutatingCall, MutationStage
<1>10. CASE r.stage \in Awaiting \ MutationStage /\ Read(r.stage)
  <2>1. WorkerTypeOK'
    BY <1>1, <1>10, ReadTypeOK
  <2>2. GameStep /\ UNCHANGED <<gameState, latestStamp>>
    BY <1>10 DEF Read, GameStep
  <2>3. \/ \E code \in ErrorCode : reply' = Reject(code)
        \/ reply' = Ok(gameState) /\ gameState # Null
    BY <1>10 DEF Read, ErrorCode, Initialized
  <2>4. reply'.code # "busy" /\ (reply'.code = "ok" =>
          reply'.value = gameState' /\ reply'.value # Null)
    BY <2>2, <2>3 DEF Ok, Reject, ErrorCode
  <2>5. r.stage \notin MutationStage
    BY <1>10
  <2> QED BY <2>1, <2>2, <2>4, <2>5 DEF ServeEffect
<1>11. CASE ReplayStep
  <2>1. r.stage = "playSequence" /\ latestStamp = stamp
    BY <1>11 DEF ReplayStep, SessionInv, OperationsInv, LoopHasAnOwner
  <2>2. WorkerTypeOK' /\ GameStep
    BY <1>1, <1>11, ReplayStepTypeOK, ReplayStepGameStep
  <2>3. latestStamp' = stamp
    BY <1>11, <2>1 DEF ReplayStep
  <2>4. gameState' # Null
    BY <1>1, <1>11, GameAssumption DEF ReplayStep, WorkerTypeOK, Initialized
  <2>5. reply' \in {Ok(gameState'), Busy, Reject("ILLEGAL_MOVE")}
    BY <1>11 DEF ReplayStep
  <2>6. reply'.code = "ok" => reply'.value = gameState'
    BY <2>5 DEF Ok, Busy, Reject
  <2>7. r.stage \in MutationStage
    BY <2>1 DEF MutationStage
  <2> QED BY <2>1, <2>2, <2>3, <2>4, <2>6, <2>7 DEF ServeEffect
<1> QED BY <1>5, <1>6, <1>7, <1>8, <1>9, <1>10, <1>11 DEF Serve

-----------------------------------------------------------------------------
(* A step of the worker keeps the invariant.                               *)

\* While the current operation holds parts of the screen, no other request can
\* change the game: its stamp would have to be newer than the newest.
LEMMA OthersCannotChangeTheGame ==
  ASSUME SessionInv, NEW c \in Call, ServeEffect(c),
         activeOperation # Null, activeOperation # c,
         latestStamp = StampOf(activeOperation)
  PROVE  UNCHANGED <<gameState, latestStamp>>
<1> DEFINE a == activeOperation
<1>1. /\ a \in Call /\ call[a] \in CallRecord /\ call[c] \in CallRecord
      /\ sessionEpoch \in Nat /\ operationToken \in Nat
  BY DEF SessionInv, SessionTypeOK
<1>2. /\ operationToken > 0
      /\ call[a].epoch = sessionEpoch /\ call[a].token = operationToken
      /\ call[c].epoch <= sessionEpoch /\ call[c].token <= operationToken
      /\ call[a].token > 0 /\ call[a].token = call[c].token => a = c
  BY <1>1 DEF SessionInv, OperationsInv, StampsInOrder, StampOf
<1>3. call[c].epoch \in Nat /\ call[c].token \in Nat
  BY <1>1 DEF CallRecord
<1>4. latestStamp # StampOf(c)
  BY <1>2 DEF StampOf
<1>5. latestStamp # Null
  BY <1>1, WorkerAssumption DEF StampOf, CallRecord
<1>6. ~Fresh(StampOf(c))
  BY <1>1, <1>2, <1>3, <1>5 DEF Fresh, Newer, StampOf
<1> QED BY <1>4, <1>6 DEF ServeEffect

\* Serving a request keeps every call in flight in the channel once.
LEMMA ServeKeepsTheChannel ==
  ASSUME SessionInv, toWorker # <<>>, Settle(Head(toWorker)),
         ServeEffect(Head(toWorker))
  PROVE  SessionTypeOK' /\ LoadingHasAnOwner'
<1> DEFINE c == Head(toWorker)
<1>1. /\ c \in Call /\ call[c] \in CallRecord /\ InFlight(c)
      /\ call \in [Call -> CallRecord]
  BY ServedRequest DEF SessionInv, SessionTypeOK
<1>2. CASE reply'.code = "busy"
  <2>1. UNCHANGED storeVars
    BY <1>2 DEF Settle, storeVars
  <2>2. ChannelOK => ChannelOK'
    <3>1. /\ Queued(toWorker)' = Queued(toWorker)
          /\ Queued(toStore)' = Queued(toStore)
          /\ {b \in Call : InFlight(b)}' = {b \in Call : InFlight(b)}
      BY <2>1 DEF storeVars, Queued, InFlight
    <3>2. toWorker' = toWorker /\ toStore' = toStore
      BY <2>1 DEF storeVars
    <3> QED BY <3>1, <3>2 DEF ChannelOK
  <2>3. SessionTypeOK'
    BY <2>1, <2>2 DEF storeVars, SessionInv, SessionTypeOK
  <2>4. LoadingHasAnOwner'
    BY <2>1 DEF storeVars, SessionInv, LoadingHasAnOwner, InFlight
  <2> QED BY <2>3, <2>4
<1>3. CASE reply'.code # "busy"
  <2>1. /\ call' = [call EXCEPT ![c].result = reply']
        /\ toWorker' = Tail(toWorker) /\ toStore' = Append(toStore, c)
        /\ UNCHANGED <<sessionEpoch, operationToken, activeOperation, loading,
                       lifecycle, view, error, agents>>
    BY <1>3 DEF Settle
  <2>2. reply' \in Answer
    BY <1>3 DEF ServeEffect, WorkerTypeOK, Reply, Answer
  <2>3. [call[c] EXCEPT !.result = reply'] \in CallRecord
    BY <1>1, <2>2 DEF CallRecord
  <2>4. call' \in [Call -> CallRecord]
    BY <1>1, <2>1, <2>3
  <2>5. \A b \in Call : call'[b].stage = call[b].stage
    BY <1>1, <2>1 DEF CallRecord
  <2>6. /\ toWorker' \in Seq(Call)
        /\ Queued(toWorker') = Queued(toWorker) \ {c} /\ c \in Queued(toWorker)
        /\ \A i, j \in 1..Len(toWorker') : toWorker'[i] = toWorker'[j] => i = j
    BY <2>1, QueuedTail DEF SessionInv, SessionTypeOK, ChannelOK
  <2>7. /\ toStore' \in Seq(Call)
        /\ Queued(toStore') = Queued(toStore) \cup {c}
        /\ \A i, j \in 1..Len(toStore') : toStore'[i] = toStore'[j] => i = j
    BY <1>1, <2>1, <2>6, QueuedAppend DEF SessionInv, SessionTypeOK, ChannelOK
  <2>8. {b \in Call : InFlight(b)}' = {b \in Call : InFlight(b)}
    BY <2>5 DEF InFlight
  <2>9. ChannelOK'
    <3>1. Queued(toWorker') \cap Queued(toStore') = {}
      BY <2>6, <2>7 DEF SessionInv, SessionTypeOK, ChannelOK
    <3>2. Queued(toWorker') \cup Queued(toStore') = {b \in Call : InFlight(b)}'
      BY <2>6, <2>7, <2>8 DEF SessionInv, SessionTypeOK, ChannelOK
    <3>3. Queued(toWorker)' = Queued(toWorker') /\ Queued(toStore)' = Queued(toStore')
      BY DEF Queued
    <3> QED BY <2>6, <2>7, <3>1, <3>2, <3>3 DEF ChannelOK
  <2>10. SessionTypeOK'
    BY <2>1, <2>4, <2>6, <2>7, <2>9 DEF SessionInv, SessionTypeOK
  <2>11. LoadingHasAnOwner'
    <3>1. activeOperation # Null => activeOperation \in Call
      BY DEF SessionInv, SessionTypeOK
    <3>2. loading' <=> activeOperation' # Null
      BY <2>1 DEF SessionInv, LoadingHasAnOwner
    <3>3. loading' => InFlight(activeOperation)'
                      \/ call'[activeOperation'].stage = "rejected"
      BY <2>1, <2>5, <3>1, <3>2 DEF SessionInv, LoadingHasAnOwner, InFlight
    <3> QED BY <3>2, <3>3 DEF LoadingHasAnOwner
  <2> QED BY <2>10, <2>11
<1> QED BY <1>2, <1>3

\* Serving a request keeps the operations' part of the invariant.
LEMMA ServeKeepsOperations ==
  ASSUME SessionInv, toWorker # <<>>, Settle(Head(toWorker)),
         ServeEffect(Head(toWorker))
  PROVE  OperationsInv'
<1> DEFINE c == Head(toWorker)
<1>1. /\ c \in Call /\ call[c] \in CallRecord /\ InFlight(c)
      /\ call \in [Call -> CallRecord] /\ c \in Queued(toWorker)
      /\ StampOf(c) \in Stamp /\ call[c].result = Ok(Null)
  BY ServedRequest
     DEF SessionInv, SessionTypeOK, OperationsInv, RequestsWellFormed
<1>2. UNCHANGED <<sessionEpoch, operationToken, activeOperation>>
  BY DEF Settle
<1>3. \/ /\ reply'.code = "busy" /\ call' = call
         /\ toWorker' = toWorker /\ toStore' = toStore
      \/ /\ reply'.code # "busy"
         /\ call' = [call EXCEPT ![c].result = reply']
         /\ toWorker' = Tail(toWorker) /\ toStore' = Append(toStore, c)
  BY DEF Settle
<1>4. /\ \A b \in Call : b # c => call'[b] = call[b]
      /\ call'[c] \in {call[c], [call[c] EXCEPT !.result = reply']}
  BY <1>1, <1>3
<1>5. \A b \in Call : /\ call'[b].stage = call[b].stage
                      /\ call'[b].epoch = call[b].epoch
                      /\ call'[b].token = call[b].token
                      /\ RequestOK(call[b]) => RequestOK(call'[b])
  <2>1. \A b \in Call : b # c => call'[b] = call[b]
    BY <1>4
  <2>2. \/ call'[c] = call[c]
        \/ /\ call'[c].kind = call[c].kind /\ call'[c].stage = call[c].stage
           /\ call'[c].epoch = call[c].epoch /\ call'[c].token = call[c].token
           /\ call'[c].seed = call[c].seed /\ call'[c].moves = call[c].moves
           /\ call'[c].decision = call[c].decision
           /\ call'[c].turnId = call[c].turnId
    BY <1>1, <1>4 DEF CallRecord
  <2>3. /\ call'[c].stage = call[c].stage
        /\ call'[c].epoch = call[c].epoch /\ call'[c].token = call[c].token
        /\ RequestOK(call[c]) => RequestOK(call'[c])
    BY <2>2 DEF RequestOK
  <2> QED BY <2>1, <2>3
<1>6. /\ Queued(toWorker)' \subseteq Queued(toWorker)
      /\ reply'.code # "busy" => c \notin Queued(toWorker)'
      /\ Queued(toStore)' \subseteq Queued(toStore) \cup {c}
      /\ reply'.code = "busy" => Queued(toStore)' = Queued(toStore)
  <2>1. CASE reply'.code = "busy"
    BY <1>3, <2>1 DEF Queued
  <2>2. CASE reply'.code # "busy"
    <3>1. Queued(Tail(toWorker)) = Queued(toWorker) \ {c}
      BY QueuedTail DEF SessionInv, SessionTypeOK, ChannelOK
    <3>2. Queued(Append(toStore, c)) = Queued(toStore) \cup {c}
      BY <1>1, QueuedAppend DEF SessionInv, SessionTypeOK, ChannelOK
    <3>3. /\ Queued(toWorker)' = Queued(Tail(toWorker))
          /\ Queued(toStore)' = Queued(Append(toStore, c))
      BY <1>3, <2>2 DEF Queued
    <3> QED BY <2>2, <3>1, <3>2, <3>3
  <2> QED BY <2>1, <2>2
<1>7. c \notin Queued(toStore)
  BY <1>1 DEF SessionInv, SessionTypeOK, ChannelOK
<1>8. latestStamp' \in {latestStamp, StampOf(c)}
  BY DEF ServeEffect
<1>9. StampsInOrder'
  <2>1. \A b \in Call : /\ call[b].epoch <= sessionEpoch
                        /\ call[b].token <= operationToken
    BY DEF SessionInv, OperationsInv, StampsInOrder
  <2>2. latestStamp' # Null => /\ latestStamp'.epoch <= sessionEpoch
                               /\ latestStamp'.token <= operationToken
    BY <1>1, <1>8, <2>1 DEF SessionInv, OperationsInv, StampsInOrder, StampOf
  <2>3. activeOperation # Null => activeOperation \in Call
    BY DEF SessionInv, SessionTypeOK
  <2>4. activeOperation' # Null =>
          /\ operationToken' > 0
          /\ StampOf(activeOperation)' =
               [epoch |-> sessionEpoch', token |-> operationToken']
    BY <1>2, <1>5, <2>3 DEF SessionInv, OperationsInv, StampsInOrder, StampOf
  <2>5. \A b, d \in Call :
          call'[b].token > 0 /\ call'[b].token = call'[d].token => b = d
    BY <1>5 DEF SessionInv, OperationsInv, StampsInOrder
  <2> QED BY <1>2, <1>5, <2>1, <2>2, <2>4, <2>5 DEF StampsInOrder
<1>10. RequestsWellFormed'
  <2>1. \A b \in Call : InFlight(b)' => RequestOK(call'[b])
    BY <1>5 DEF SessionInv, OperationsInv, RequestsWellFormed, InFlight
  <2>2. Queued(toWorker) \subseteq Call
    BY DEF SessionInv, SessionTypeOK, ChannelOK, InFlight
  <2>3. \A b \in Queued(toWorker)' : call'[b].result = Ok(Null)
    <3>1. CASE reply'.code = "busy"
      BY <1>3, <1>6, <3>1 DEF SessionInv, OperationsInv, RequestsWellFormed
    <3>2. CASE reply'.code # "busy"
      BY <1>4, <1>6, <2>2, <3>2
         DEF SessionInv, OperationsInv, RequestsWellFormed
    <3> QED BY <3>1, <3>2
  <2> QED BY <2>1, <2>3 DEF RequestsWellFormed
<1>11. RepliesCarryStates'
  <2> SUFFICES ASSUME NEW b \in Queued(toStore)',
                      call'[b].stage \notin {"rewindToTurnBoundary", "undo"},
                      call'[b].result.code = "ok"
               PROVE  call'[b].result.value # Null
    BY DEF RepliesCarryStates
  <2>1. CASE b = c
    <3>1. reply'.code # "busy" /\ call'[c].result = reply'
      BY <1>1, <1>3, <1>6, <1>7, <2>1 DEF CallRecord
    <3> QED BY <1>1, <1>5, <2>1, <3>1 DEF ServeEffect
  <2>2. CASE b # c
    <3>1. b \in Queued(toStore) /\ b \in Call
      BY <1>6, <2>2 DEF SessionInv, SessionTypeOK, ChannelOK
    <3> QED BY <1>4, <2>2, <3>1
            DEF SessionInv, OperationsInv, RepliesCarryStates
  <2> QED BY <2>1, <2>2
<1>12. LoopHasAnOwner'
  <2>1. ASSUME ~Available'
        PROVE  /\ toWorker' = toWorker /\ call' = call
               /\ call[c].stage = "playSequence"
               /\ latestStamp' = StampOf(c)
    BY <1>3, <2>1 DEF Available, ServeEffect
  <2>2. StampOf(Head(toWorker))' =
          [epoch |-> call'[Head(toWorker')].epoch,
           token |-> call'[Head(toWorker')].token]
    BY DEF StampOf
  <2> QED BY <2>1, <2>2 DEF LoopHasAnOwner, StampOf
<1>13. CurrentOperationReadsItsGame'
  <2> DEFINE a == activeOperation
  <2> SUFFICES ASSUME a # Null, InFlight(a)
               PROVE  ReadsItsGame(call[a])'
    <3>1. a # Null => a \in Call
      BY DEF SessionInv, SessionTypeOK
    <3>2. a' # Null /\ InFlight(a)' => InFlight(a)
      BY <1>2, <1>5, <3>1 DEF InFlight
    <3>3. ReadsItsGame(call[a])' => ReadsItsGame(call[activeOperation])'
      OBVIOUS
    <3> QED BY <1>2, <3>2, <3>3 DEF CurrentOperationReadsItsGame
  <2>1. a \in Call /\ a' = a /\ ReadsItsGame(call[a])
    BY <1>2 DEF SessionInv, SessionTypeOK, OperationsInv,
                CurrentOperationReadsItsGame
  <2> DEFINE r == call[a]
             q == call'[a]
             Answered(x) == x.result.code = "ok" /\ x.result.value # Null
  <2>2. CASE a # c
    <3>1. q = r
      BY <1>4, <2>1, <2>2
    <3>2. CASE Answered(r) \/ r.stage \notin MutationStage
      <4>1. latestStamp = StampOf(a)
        BY <2>1, <3>2 DEF ReadsItsGame, StampOf
      <4>2. UNCHANGED <<gameState, latestStamp>>
        BY <1>1, <2>2, <4>1, OthersCannotChangeTheGame
      <4> QED BY <2>1, <3>1, <4>2 DEF ReadsItsGame
    <3>3. CASE ~(Answered(r) \/ r.stage \notin MutationStage)
      BY <2>1, <3>1, <3>3 DEF ReadsItsGame, MutationStage
    <3> QED BY <3>2, <3>3
  <2>3. CASE a = c
    <3>1. \/ q = r /\ reply'.code = "busy"
          \/ q = [r EXCEPT !.result = reply'] /\ reply'.code # "busy"
      BY <1>1, <1>3, <2>3
    <3>2. /\ q.stage = r.stage /\ q.got = r.got
          /\ q.epoch = r.epoch /\ q.token = r.token
      BY <1>1, <2>3, <3>1 DEF CallRecord
    <3>3. Answered(q) => q.result = reply' /\ q.result.value = gameState'
      <4>1. CASE q = r
        BY <1>1, <2>3, <4>1 DEF Ok
      <4>2. CASE q = [r EXCEPT !.result = reply']
        <5>1. q.result = reply'
          BY <1>1, <2>3, <4>2 DEF CallRecord
        <5> QED BY <5>1 DEF ServeEffect
      <4> QED BY <3>1, <4>1, <4>2
    <3>4. CASE r.stage \in MutationStage
      <4>1. Answered(q) => latestStamp' = StampOf(c)
        BY <2>3, <3>3, <3>4 DEF ServeEffect
      <4>2. Answered(q) => latestStamp' = [epoch |-> q.epoch, token |-> q.token]
        BY <2>3, <3>2, <4>1 DEF StampOf
      <4> QED BY <2>1, <3>2, <3>3, <3>4, <4>2 DEF ReadsItsGame, MutationStage
    <3>5. CASE r.stage \notin MutationStage
      <4>1. UNCHANGED <<gameState, latestStamp>>
        BY <2>3, <3>5 DEF ServeEffect
      <4> QED BY <2>1, <3>2, <3>3, <3>5, <4>1 DEF ReadsItsGame
    <3> QED BY <3>4, <3>5
  <2> QED BY <2>2, <2>3
<1> QED BY <1>9, <1>10, <1>11, <1>12, <1>13 DEF OperationsInv

\* Serving a request keeps the invariant.
LEMMA ServeKeepsInv ==
  ASSUME SessionInv, Serve
  PROVE  SessionInv'
<1>1. /\ toWorker # <<>> /\ Settle(Head(toWorker))
      /\ ServeEffect(Head(toWorker))
  BY ServeHasItsEffect DEF Serve
<1>2. WorkerTypeOK' /\ HistoryIsAPlay'
  BY <1>1, GameStepKeepsPlay DEF SessionInv, ServeEffect
<1> QED BY <1>1, <1>2, ServeKeepsTheChannel, ServeKeepsOperations DEF SessionInv


-----------------------------------------------------------------------------
(* What every step of the store does to one call, whichever action it is.  *)

\* The call either was not in flight or has just received its reply.
Leaves(c) ==
  \/ ~InFlight(c) /\ toStore' = toStore
  \/ toStore # <<>> /\ c = Head(toStore) /\ toStore' = Tail(toStore)

\* It begins an operation, goes on with its operation or ends it, or asks the
\* worker something outside any operation.
Begins(c, r) ==
  /\ sessionEpoch' \in {sessionEpoch, sessionEpoch + 1}
  /\ operationToken' = operationToken + 1
  /\ r.epoch = sessionEpoch' /\ r.token = operationToken'
  /\ activeOperation' \in {c, Null}

GoesOnOrEnds(c, r) ==
  /\ UNCHANGED <<sessionEpoch, operationToken>>
  /\ r.epoch = call[c].epoch /\ r.token = call[c].token
  /\ \/ activeOperation' = activeOperation
     \/ activeOperation' = Null

Asks(c, r) ==
  /\ activeOperation # c
  /\ UNCHANGED <<sessionEpoch, operationToken, activeOperation>>
  /\ r.epoch = 0 /\ r.token = 0

\* The screen is left alone, emptied, or redrawn with the present game.
Redraws ==
  \/ UNCHANGED view /\ lifecycle' \in {lifecycle, "initializing"}
  \/ view' = NoView /\ lifecycle' = "idle"
  \/ /\ gameState \in GameState
     /\ view' = Atomic!Snapshot(gameState)
     /\ lifecycle' = LifecycleFromTerminal(view'.terminal)

ShownTypeOK ==
  /\ lifecycle' \in Lifecycle
  /\ error' \in ErrorCode \cup {Null}
  /\ agents' \in Seed \cup {Null}

StoreStep(c, r) ==
  /\ r \in CallRecord
  /\ r.result = Ok(Null)
  /\ call' = [call EXCEPT ![c] = r]
  /\ UNCHANGED workerVars
  /\ Leaves(c)
  /\ \/ r.stage \in Awaiting /\ RequestOK(r) /\ toWorker' = Append(toWorker, c)
     \/ r.stage \notin Awaiting /\ UNCHANGED toWorker
  /\ Begins(c, r) \/ GoesOnOrEnds(c, r) \/ Asks(c, r)
  /\ loading' \in BOOLEAN
  /\ loading' <=> activeOperation' # Null
  /\ activeOperation' = c => /\ r.stage \in Awaiting \cup {"rejected"}
                             /\ r.stage \in Awaiting => ReadsItsGame(r)
  /\ Redraws
  /\ ShownTypeOK

\* What is drawn from one state is a view.
LEMMA SnapshotTypeOK ==
  ASSUME NEW s \in GameState
  PROVE  Atomic!Snapshot(s) \in View
<1>1. TerminalResult(s) \in BOOLEAN
  BY GameAssumption
<1> QED BY <1>1 DEF Atomic!Snapshot, View

\* A step of a call keeps the types and the owner of the loading flag.
LEMMA StoreStepTypeOK ==
  ASSUME SessionInv, NEW c \in Call, NEW r, StoreStep(c, r)
  PROVE  SessionTypeOK' /\ LoadingHasAnOwner'
<1>1. /\ call \in [Call -> CallRecord] /\ call' = [call EXCEPT ![c] = r]
      /\ r \in CallRecord /\ toWorker \in Seq(Call) /\ toStore \in Seq(Call)
      /\ ChannelOK
  BY DEF SessionInv, SessionTypeOK, StoreStep
<1>2. call' \in [Call -> CallRecord] /\ call'[c] = r
      /\ \A b \in Call : b # c => call'[b] = call[b]
  BY <1>1
<1>3. \A b \in Call : b # c => (InFlight(b)' <=> InFlight(b))
  BY <1>2 DEF InFlight
<1>4. /\ toStore' \in Seq(Call) /\ c \notin Queued(toWorker)
      /\ Queued(toStore') = Queued(toStore) \ {c}
      /\ \A i, j \in 1..Len(toStore') : toStore'[i] = toStore'[j] => i = j
  <2>1. CASE ~InFlight(c) /\ toStore' = toStore
    BY <1>1, <2>1 DEF ChannelOK
  <2>2. CASE toStore # <<>> /\ c = Head(toStore) /\ toStore' = Tail(toStore)
    BY <1>1, <2>2, QueuedTail DEF ChannelOK
  <2> QED BY <2>1, <2>2 DEF StoreStep, Leaves
<1>5. /\ toWorker' \in Seq(Call)
      /\ Queued(toWorker') =
           Queued(toWorker) \cup (IF r.stage \in Awaiting THEN {c} ELSE {})
      /\ \A i, j \in 1..Len(toWorker') : toWorker'[i] = toWorker'[j] => i = j
  <2>1. CASE r.stage \in Awaiting
    <3>1. toWorker' = Append(toWorker, c)
      BY <2>1 DEF StoreStep
    <3> QED BY <1>1, <1>4, <2>1, <3>1, QueuedAppend DEF ChannelOK
  <2>2. CASE r.stage \notin Awaiting
    BY <1>1, <2>2 DEF StoreStep, ChannelOK
  <2> QED BY <2>1, <2>2
<1>6. ChannelOK'
  <2>1. {b \in Call : InFlight(b)}' =
          ({b \in Call : InFlight(b)} \ {c})
            \cup (IF r.stage \in Awaiting THEN {c} ELSE {})
    BY <1>2, <1>3 DEF InFlight
  <2>2. /\ Queued(toWorker)' = Queued(toWorker')
        /\ Queued(toStore)' = Queued(toStore')
    BY DEF Queued
  <2>3. Queued(toWorker') \cap Queued(toStore') = {}
    BY <1>1, <1>4, <1>5 DEF ChannelOK
  <2>4. Queued(toWorker') \cup Queued(toStore') = {b \in Call : InFlight(b)}'
    BY <1>1, <1>4, <1>5, <2>1 DEF ChannelOK
  <2> QED BY <1>4, <1>5, <2>2, <2>3, <2>4 DEF ChannelOK
<1>7. /\ sessionEpoch' \in Nat /\ operationToken' \in Nat
      /\ activeOperation' \in Call \cup {Null}
  BY DEF SessionInv, SessionTypeOK, StoreStep, Begins, GoesOnOrEnds, Asks
<1>8. view' \in View
  <2>1. NoView \in View
    BY DEF NoView, View
  <2> QED BY <2>1, SnapshotTypeOK
          DEF SessionInv, SessionTypeOK, StoreStep, Redraws
<1>9. SessionTypeOK'
  BY <1>2, <1>4, <1>5, <1>6, <1>7, <1>8
     DEF SessionTypeOK, StoreStep, ShownTypeOK
<1>10. LoadingHasAnOwner'
  <2>1. CASE activeOperation' = c
    BY <1>2, <2>1 DEF StoreStep, LoadingHasAnOwner, InFlight
  <2>2. CASE activeOperation' # c /\ activeOperation' # Null
    <3>1. activeOperation' = activeOperation /\ activeOperation \in Call
      BY <1>7, <2>2 DEF StoreStep, Begins, GoesOnOrEnds, Asks
    <3>2. call'[activeOperation] = call[activeOperation]
      BY <1>2, <2>2, <3>1
    <3>3. \/ call[activeOperation].stage \in Awaiting
          \/ call[activeOperation].stage = "rejected"
      BY <2>2, <3>1 DEF SessionInv, LoadingHasAnOwner, InFlight
    <3> QED BY <3>1, <3>2, <3>3 DEF StoreStep, LoadingHasAnOwner, InFlight
  <2>3. CASE activeOperation' = Null
    BY <2>3 DEF StoreStep, LoadingHasAnOwner
  <2> QED BY <2>1, <2>2, <2>3
<1> QED BY <1>9, <1>10

\* A step of a call keeps the operations' part of the invariant.
LEMMA StoreStepOperations ==
  ASSUME SessionInv, NEW c \in Call, NEW r, StoreStep(c, r)
  PROVE  OperationsInv'
<1>1. /\ call \in [Call -> CallRecord] /\ call' = [call EXCEPT ![c] = r]
      /\ r \in CallRecord /\ toWorker \in Seq(Call) /\ toStore \in Seq(Call)
      /\ ChannelOK
  BY DEF SessionInv, SessionTypeOK, StoreStep
<1>2. call'[c] = r /\ \A b \in Call : b # c => call'[b] = call[b]
  BY <1>1
<1>3. UNCHANGED <<gameState, latestStamp, reply>>
  BY DEF StoreStep, workerVars
<1>4. c \notin Queued(toWorker) /\ Queued(toStore)' \subseteq Queued(toStore) \ {c}
  <2>1. CASE ~InFlight(c) /\ toStore' = toStore
    BY <1>1, <2>1 DEF ChannelOK, Queued
  <2>2. CASE toStore # <<>> /\ c = Head(toStore) /\ toStore' = Tail(toStore)
    <3>1. Queued(toStore)' = Queued(Tail(toStore))
      BY <2>2 DEF Queued
    <3> QED BY <1>1, <2>2, <3>1, QueuedTail DEF ChannelOK
  <2> QED BY <2>1, <2>2 DEF StoreStep, Leaves
<1>5. /\ Queued(toWorker)' \subseteq Queued(toWorker) \cup {c}
      /\ toWorker # <<>> => toWorker' # <<>> /\ Head(toWorker') = Head(toWorker)
  <2>1. CASE toWorker' = Append(toWorker, c)
    <3>1. Queued(toWorker)' = Queued(Append(toWorker, c))
      BY <2>1 DEF Queued
    <3>2. Queued(Append(toWorker, c)) = Queued(toWorker) \cup {c}
      BY <1>1, QueuedAppend
    <3> QED BY <1>1, <2>1, <3>1, <3>2
  <2>2. CASE UNCHANGED toWorker
    BY <2>2 DEF Queued
  <2> QED BY <2>1, <2>2 DEF StoreStep
<1>6. Queued(toWorker) \subseteq Call /\ Queued(toStore) \subseteq Call
  BY <1>1 DEF Queued
<1>7. /\ sessionEpoch \in Nat /\ operationToken \in Nat
      /\ sessionEpoch' \in Nat /\ operationToken' \in Nat
      /\ sessionEpoch <= sessionEpoch' /\ operationToken <= operationToken'
      /\ activeOperation' \in {activeOperation, c, Null}
      /\ activeOperation \in Call \cup {Null}
  BY DEF SessionInv, SessionTypeOK, StoreStep, Begins, GoesOnOrEnds, Asks
<1>8. \A b \in Call : /\ call[b].epoch \in Nat /\ call[b].token \in Nat
                      /\ call[b].epoch <= sessionEpoch
                      /\ call[b].token <= operationToken
  BY <1>1 DEF SessionInv, OperationsInv, StampsInOrder, CallRecord
<1>9. StampsInOrder'
  <2>1. \A b \in Call : call'[b].epoch <= sessionEpoch'
                        /\ call'[b].token <= operationToken'
    <3>1. r.epoch <= sessionEpoch' /\ r.token <= operationToken'
      BY <1>7, <1>8 DEF StoreStep, Begins, GoesOnOrEnds, Asks
    <3> QED BY <1>2, <1>7, <1>8, <3>1
  <2>2. latestStamp' # Null => /\ latestStamp'.epoch <= sessionEpoch'
                               /\ latestStamp'.token <= operationToken'
    <3>1. latestStamp # Null =>
            /\ latestStamp.epoch \in Nat /\ latestStamp.token \in Nat
      BY DEF SessionInv, WorkerTypeOK, Stamp
    <3> QED BY <1>3, <1>7, <3>1
            DEF SessionInv, OperationsInv, StampsInOrder
  <2>3. activeOperation' # Null =>
          /\ operationToken' > 0
          /\ StampOf(activeOperation)' =
               [epoch |-> sessionEpoch', token |-> operationToken']
    <3> SUFFICES ASSUME activeOperation' # Null
                 PROVE  /\ operationToken' > 0
                        /\ call'[activeOperation'].epoch = sessionEpoch'
                        /\ call'[activeOperation'].token = operationToken'
      BY DEF StampOf
    <3>1. CASE Begins(c, r)
      BY <1>2, <1>7, <3>1 DEF Begins
    <3>2. CASE GoesOnOrEnds(c, r) \/ Asks(c, r)
      <4>1. /\ activeOperation' = activeOperation
            /\ UNCHANGED <<sessionEpoch, operationToken>>
        BY <3>2 DEF GoesOnOrEnds, Asks
      <4>2. /\ operationToken > 0
            /\ call[activeOperation].epoch = sessionEpoch
            /\ call[activeOperation].token = operationToken
        BY <4>1 DEF SessionInv, OperationsInv, StampsInOrder, StampOf
      <4>3. CASE activeOperation # c
        BY <1>2, <1>7, <4>1, <4>2, <4>3
      <4>4. CASE activeOperation = c
        BY <1>2, <3>2, <4>1, <4>2, <4>4 DEF GoesOnOrEnds, Asks
      <4> QED BY <4>3, <4>4
    <3> QED BY <3>1, <3>2 DEF StoreStep
  <2>4. ASSUME NEW b \in Call, NEW d \in Call,
               call'[b].token > 0, call'[b].token = call'[d].token
        PROVE  b = d
    <3>1. \A e \in Call : e # c => call'[e].token = call[e].token
      BY <1>2
    <3>2. CASE b # c /\ d # c
      BY <2>4, <3>1, <3>2 DEF SessionInv, OperationsInv, StampsInOrder
    <3>3. CASE Begins(c, r)
      <4>1. r.token = operationToken + 1
        BY <3>3 DEF Begins
      <4>2. \A e \in Call : e # c => call'[e].token < r.token
        BY <1>7, <1>8, <3>1, <4>1
      <4>3. call'[c].token = r.token /\ r.token \in Nat
        BY <1>2, <1>7, <4>1
      <4> QED BY <1>2, <2>4, <3>2, <4>2, <4>3
    <3>4. CASE GoesOnOrEnds(c, r)
      <4>1. \A e \in Call : call'[e].token = call[e].token
        BY <1>2, <3>1, <3>4 DEF GoesOnOrEnds
      <4> QED BY <2>4, <4>1 DEF SessionInv, OperationsInv, StampsInOrder
    <3>5. CASE Asks(c, r)
      BY <1>2, <2>4, <3>2, <3>5 DEF Asks
    <3> QED BY <3>3, <3>4, <3>5 DEF StoreStep
  <2> QED BY <2>1, <2>2, <2>3, <2>4 DEF StampsInOrder
<1>10. RequestsWellFormed'
  <2>1. \A b \in Call : InFlight(b)' => RequestOK(call'[b])
    BY <1>2 DEF StoreStep, InFlight, SessionInv, OperationsInv, RequestsWellFormed
  <2>2. \A b \in Queued(toWorker)' : call'[b].result = Ok(Null)
    BY <1>2, <1>4, <1>5, <1>6
       DEF StoreStep, SessionInv, OperationsInv, RequestsWellFormed
  <2> QED BY <2>1, <2>2 DEF RequestsWellFormed
<1>11. RepliesCarryStates'
  <2>1. \A b \in Queued(toStore)' : b \in Queued(toStore) /\ call'[b] = call[b]
    BY <1>2, <1>4, <1>6
  <2> QED BY <2>1 DEF SessionInv, OperationsInv, RepliesCarryStates
<1>12. LoopHasAnOwner'
  <2> SUFFICES ASSUME ~Available
               PROVE  /\ toWorker' # <<>>
                      /\ call'[Head(toWorker')].stage = "playSequence"
                      /\ latestStamp' = StampOf(Head(toWorker))'
    BY <1>3 DEF LoopHasAnOwner, Available
  <2>1. /\ toWorker # <<>>
        /\ call[Head(toWorker)].stage = "playSequence"
        /\ latestStamp = StampOf(Head(toWorker))
    BY DEF SessionInv, OperationsInv, LoopHasAnOwner
  <2>2. Head(toWorker) \in Queued(toWorker)
    BY <1>1, <2>1, QueuedTail DEF ChannelOK
  <2>3. call'[Head(toWorker)] = call[Head(toWorker)]
    BY <1>2, <1>4, <1>6, <2>2
  <2> QED BY <1>3, <1>5, <2>1, <2>3 DEF StampOf
<1>13. CurrentOperationReadsItsGame'
  <2> DEFINE a == activeOperation'
  <2>1. ASSUME a # Null, call'[a].stage \in Awaiting
        PROVE  ReadsItsGame(call'[a])
    <3>1. CASE a = c
      BY <1>2, <2>1, <3>1 DEF StoreStep
    <3>2. CASE a # c
      <4>1. a = activeOperation /\ a \in Call /\ call'[a] = call[a]
        BY <1>2, <1>7, <2>1, <3>2
      <4> QED BY <2>1, <4>1 DEF SessionInv, OperationsInv, InFlight,
                                CurrentOperationReadsItsGame
    <3> QED BY <3>1, <3>2
  <2>2. ReadsItsGame(call'[a]) => ReadsItsGame(call[activeOperation])'
    BY <1>3 DEF ReadsItsGame
  <2> QED BY <2>1, <2>2 DEF CurrentOperationReadsItsGame, InFlight
<1> QED BY <1>9, <1>10, <1>11, <1>12, <1>13 DEF OperationsInv

\* A step of a call keeps the invariant.
LEMMA StoreStepKeepsInv ==
  ASSUME SessionInv, NEW c \in Call, NEW r, StoreStep(c, r)
  PROVE  SessionInv'
<1>1. WorkerTypeOK' /\ HistoryIsAPlay'
  BY DEF SessionInv, StoreStep, workerVars, WorkerTypeOK, HistoryIsAPlay,
         Available, Initialized, Timeline
<1> QED BY <1>1, StoreStepTypeOK, StoreStepOperations DEF SessionInv


-----------------------------------------------------------------------------
(* The actions that make a call.                                           *)

\* A call that begins is not in flight and owns no operation yet.
LEMMA NewCall ==
  ASSUME SessionInv, NEW c \in Call, NextCall(c)
  PROVE  ~InFlight(c) /\ activeOperation # c
BY StoreAssumption
   DEF NextCall, InFlight, Awaiting, MutationStage, SessionInv,
       LoadingHasAnOwner, SessionTypeOK, Call

\* A mutation that is not answered yet holds no part of the screen.
LEMMA UnansweredReads ==
  ASSUME NEW r, r.result = Ok(Null), r.stage \in MutationStage
  PROVE  ReadsItsGame(r)
BY DEF ReadsItsGame, MutationStage, Ok

\* A call that has not begun is a call record.
LEMMA NoCallTypeOK == NoCall \in CallRecord
<1>1. NoView \in View
  BY DEF NoView, View
<1>2. Ok(Null) \in Answer
  BY DEF Ok, Answer
<1>3. "none" \in Stage /\ <<>> \in Seq(Move)
  BY DEF Stage
<1> QED BY <1>1, <1>2, <1>3 DEF NoCall, CallRecord

\* A call that has just begun is a call record with the newest stamp.
LEMMA StartedTypeOK ==
  ASSUME SessionInv, NEW kind \in Kind, NEW stage \in Stage,
         sessionEpoch' \in Nat, operationToken' \in Nat
  PROVE  LET s == Started(kind, stage)
         IN  /\ s \in CallRecord
             /\ s.kind = kind /\ s.stage = stage
             /\ s.epoch = sessionEpoch' /\ s.token = operationToken'
             /\ s.result = Ok(Null)
<1>1. lifecycle \in Lifecycle
  BY DEF SessionInv, SessionTypeOK
<1>2. Started(kind, stage) \in CallRecord
  BY <1>1, NoCallTypeOK DEF Started, CallRecord
<1> QED BY <1>1, <1>2 DEF Started, NoCall

\* A call that begins an operation and posts its mutation.
LEMMA BeginningStep ==
  ASSUME SessionInv, NEW c \in Call, NextCall(c),
         NEW isInit \in BOOLEAN, BeginOperation(c, isInit),
         NEW r \in CallRecord, r.result = Ok(Null),
         r.epoch = sessionEpoch', r.token = operationToken',
         call' = [call EXCEPT ![c] = r],
         \/ r.stage \in MutationStage /\ RequestOK(r)
            /\ toWorker' = Append(toWorker, c)
         \/ r.stage = "rejected" /\ UNCHANGED toWorker,
         lifecycle' \in {lifecycle, "initializing"},
         error' \in ErrorCode \cup {Null},
         UNCHANGED <<view, toStore, workerVars>>
  PROVE  StoreStep(c, r)
<1>1. ~InFlight(c) /\ agents \in Seed \cup {Null}
      /\ sessionEpoch \in Nat
  BY NewCall DEF SessionInv, SessionTypeOK
<1>2. Leaves(c) /\ Redraws
  BY <1>1 DEF Leaves, Redraws
<1>3. Begins(c, r) /\ activeOperation' = c /\ loading' = TRUE
      /\ agents' \in Seed \cup {Null}
  BY <1>1 DEF BeginOperation, Begins
<1>4. c # Null
  BY StoreAssumption DEF Call
<1>5. r.stage \in MutationStage => r.stage \in Awaiting /\ ReadsItsGame(r)
  BY UnansweredReads DEF Awaiting
<1>6. "rejected" \notin Awaiting
  BY DEF Awaiting, MutationStage
<1>7. lifecycle' \in Lifecycle
  BY DEF SessionInv, SessionTypeOK, Lifecycle
<1> QED BY <1>2, <1>3, <1>4, <1>5, <1>6, <1>7 DEF StoreStep, ShownTypeOK

\* A call that begins and finishes an operation in one go.
LEMMA AtOnceStep ==
  ASSUME SessionInv, NEW c \in Call, NextCall(c), NEW kind \in Kind,
         NEW shownError \in ErrorCode \cup {Null},
         FinishAtOnce(c, kind, shownError),
         UNCHANGED <<view, toStore, workerVars>>
  PROVE  \E r : StoreStep(c, r)
<1> DEFINE r == [NoCall EXCEPT !.kind = kind, !.stage = "done",
                               !.epoch = sessionEpoch,
                               !.token = operationToken + 1]
<1>1. ~InFlight(c) /\ c # Null
  BY NewCall, StoreAssumption DEF Call
<1>2. /\ sessionEpoch \in Nat /\ operationToken \in Nat
      /\ agents \in Seed \cup {Null} /\ lifecycle \in Lifecycle
      /\ operationToken + 1 \in Nat
  BY DEF SessionInv, SessionTypeOK
<1>3. "done" \in Stage /\ "done" \notin Awaiting
  BY DEF Stage, Awaiting, MutationStage
<1>4. r \in CallRecord
  BY <1>2, <1>3, NoCallTypeOK DEF CallRecord
<1>5. /\ r.stage = "done" /\ r.epoch = sessionEpoch
      /\ r.token = operationToken + 1 /\ r.result = Ok(Null)
  BY DEF NoCall
<1>6. call' = [call EXCEPT ![c] = r]
  BY DEF FinishAtOnce
<1> HIDE DEF r
<1>7. Begins(c, r) /\ Leaves(c) /\ Redraws /\ ShownTypeOK
  BY <1>1, <1>2, <1>5
     DEF Begins, Leaves, Redraws, ShownTypeOK, FinishAtOnce
<1>8. StoreStep(c, r)
  BY <1>1, <1>3, <1>4, <1>5, <1>6, <1>7 DEF StoreStep, FinishAtOnce
<1> QED BY <1>8

\* Each way to begin a call is a step of that call.
LEMMA BeginStep ==
  ASSUME SessionInv, NEW c \in Call, Begin(c)
  PROVE  \E r : StoreStep(c, r)
<1>1. /\ sessionEpoch \in Nat /\ operationToken \in Nat
      /\ lifecycle \in Lifecycle /\ error \in ErrorCode \cup {Null}
      /\ view \in View /\ agents \in Seed \cup {Null} /\ loading \in BOOLEAN
  BY DEF SessionInv, SessionTypeOK
<1>2. ASSUME NEW isInit \in BOOLEAN, BeginOperation(c, isInit)
      PROVE  sessionEpoch' \in Nat /\ operationToken' \in Nat
  BY <1>1, <1>2 DEF BeginOperation
<1>3. /\ MutationStage \subseteq Stage /\ "rejected" \in Stage
      /\ "describeAction" \in Stage /\ "describeAction" \in Awaiting
  BY DEF Stage, Awaiting
<1>4. /\ InitKind \subseteq Kind /\ AiKind \subseteq Kind
      /\ {"submitDecision", "rewindToCurrentTurnStart", "undo",
          "submitBlockedSelection"} \subseteq Kind
  BY DEF Kind
<1>5. {"init", "applyDecision", "rewindToTurnBoundary", "undo"}
        \subseteq MutationStage
  BY DEF MutationStage
<1>6. ASSUME NEW kind \in InitKind, NEW seed \in Seed,
             NEW moves \in Histories \cup {<<>>}, 
             kind = "initGameFromHistory" => moves \in Histories,
             StartInit(c, kind, seed, moves)
      PROVE  \E r : StoreStep(c, r)
  <2>1. /\ NextCall(c) /\ BeginOperation(c, TRUE)
        /\ UNCHANGED <<view, toStore, workerVars>>
        /\ sessionEpoch' \in Nat /\ operationToken' \in Nat
    BY <1>2, <1>6 DEF StartInit
  <2>2. CASE "initializing" \in AllowedLifecycleTransitions[lifecycle]
    <3> DEFINE s == Started(kind, "init")
               r == [s EXCEPT !.seed = seed, !.moves = moves]
    <3>1. /\ s \in CallRecord /\ s.kind = kind /\ s.stage = "init"
          /\ s.epoch = sessionEpoch' /\ s.token = operationToken'
          /\ s.result = Ok(Null)
      BY <1>3, <1>4, <1>5, <2>1, StartedTypeOK
    <3>2. moves \in Seq(Move)
      <4>1. <<>> \in Seq(Move)
        OBVIOUS
      <4> QED BY <4>1, WorkerAssumption
    <3>3. call' = [call EXCEPT ![c] = r] /\ toWorker' = Append(toWorker, c)
          /\ lifecycle' = "initializing" /\ error' = Null
      BY <1>6, <2>2 DEF StartInit, Post
    <3> HIDE DEF s
    <3>4. /\ r \in CallRecord /\ r.kind = kind /\ r.stage = "init"
          /\ r.epoch = sessionEpoch' /\ r.token = operationToken'
          /\ r.result = Ok(Null) /\ r.seed = seed /\ r.moves = moves
      BY <3>1, <3>2 DEF CallRecord
    <3> HIDE DEF r
    <3>5. RequestOK(r)
      BY <1>6, <3>4 DEF RequestOK, InitKind
    <3>6. StoreStep(c, r)
      BY <1>5, <2>1, <3>3, <3>4, <3>5, BeginningStep
    <3> QED BY <3>6
  <2>3. CASE "initializing" \notin AllowedLifecycleTransitions[lifecycle]
    <3> DEFINE s == Started(kind, "rejected")
    <3>1. /\ s \in CallRecord /\ s.stage = "rejected"
          /\ s.epoch = sessionEpoch' /\ s.token = operationToken'
          /\ s.result = Ok(Null)
      BY <1>3, <1>4, <2>1, StartedTypeOK
    <3>2. call' = [call EXCEPT ![c] = s] /\ UNCHANGED <<lifecycle, error, toWorker>>
      BY <1>6, <2>3 DEF StartInit
    <3> HIDE DEF s
    <3>3. StoreStep(c, s)
      BY <1>1, <2>1, <3>1, <3>2, BeginningStep
    <3> QED BY <3>3
  <2> QED BY <2>2, <2>3
<1>7. ASSUME NEW kind \in Kind \ InitKind, kind # "submitBlockedSelection",
             NEW d \in Decision, NextCall(c), BeginOperation(c, FALSE),
             Post(c, [Started(kind, "applyDecision") EXCEPT !.decision = d]),
             UNCHANGED <<lifecycle, view, error, toStore, workerVars>>
      PROVE  \E r : StoreStep(c, r)
  <2> DEFINE s == Started(kind, "applyDecision")
             r == [s EXCEPT !.decision = d]
  <2>0. sessionEpoch' \in Nat /\ operationToken' \in Nat
    BY <1>2, <1>7
  <2>1. /\ s \in CallRecord /\ s.kind = kind /\ s.stage = "applyDecision"
        /\ s.epoch = sessionEpoch' /\ s.token = operationToken'
        /\ s.result = Ok(Null)
    BY <1>3, <1>5, <2>0, StartedTypeOK
  <2>2. call' = [call EXCEPT ![c] = r] /\ toWorker' = Append(toWorker, c)
    BY <1>7 DEF Post
  <2> HIDE DEF s
  <2>3. /\ r \in CallRecord /\ r.kind = kind /\ r.stage = "applyDecision"
        /\ r.epoch = sessionEpoch' /\ r.token = operationToken'
        /\ r.result = Ok(Null) /\ r.decision = d
    BY <2>1 DEF CallRecord
  <2> HIDE DEF r
  <2>4. RequestOK(r)
    BY <1>7, <2>3 DEF RequestOK, InitKind
  <2>5. StoreStep(c, r)
    BY <1>1, <1>5, <1>7, <2>2, <2>3, <2>4, BeginningStep
  <2> QED BY <2>5
<1>8. ASSUME NEW seed \in Seed, InitGame(c, seed)
      PROVE  \E r : StoreStep(c, r)
  BY <1>6, <1>8 DEF InitGame, InitKind
<1>9. ASSUME NEW seed \in Seed, NEW moves \in Histories,
             InitGameFromHistory(c, seed, moves)
      PROVE  \E r : StoreStep(c, r)
  BY <1>6, <1>9 DEF InitGameFromHistory, InitKind
<1>10. ASSUME NEW d \in Decision, SubmitDecision(c, d)
       PROVE  \E r : StoreStep(c, r)
  BY <1>4, <1>7, <1>10 DEF SubmitDecision, InitKind
<1>11. ASSUME SubmitBlockedSelection(c)
       PROVE  \E r : StoreStep(c, r)
  <2> DEFINE r == [NoCall EXCEPT !.kind = "submitBlockedSelection",
                                 !.stage = "describeAction"]
  <2>1. r \in CallRecord
    BY <1>3, <1>4, NoCallTypeOK DEF CallRecord
  <2>2. /\ r.kind = "submitBlockedSelection" /\ r.stage = "describeAction"
        /\ r.epoch = 0 /\ r.token = 0 /\ r.result = Ok(Null)
    BY DEF NoCall
  <2>3. /\ call' = [call EXCEPT ![c] = r] /\ toWorker' = Append(toWorker, c)
        /\ UNCHANGED <<sessionEpoch, operationToken, activeOperation, loading,
                       lifecycle, view, error, agents, toStore, workerVars>>
    BY <1>11 DEF SubmitBlockedSelection, Post
  <2> HIDE DEF r
  <2>4. ~InFlight(c) /\ activeOperation # c
    BY <1>11, NewCall DEF SubmitBlockedSelection
  <2>5. RequestOK(r)
    BY <2>2 DEF RequestOK, InitKind
  <2>6. Leaves(c) /\ Asks(c, r) /\ Redraws /\ ShownTypeOK
    BY <1>1, <2>2, <2>3, <2>4 DEF Leaves, Asks, Redraws, ShownTypeOK
  <2>7. loading' <=> activeOperation' # Null
    BY <2>3 DEF SessionInv, LoadingHasAnOwner
  <2>8. StoreStep(c, r)
    BY <1>1, <1>3, <2>1, <2>2, <2>3, <2>4, <2>5, <2>6, <2>7 DEF StoreStep
  <2> QED BY <2>8
<1>12. ASSUME NEW kind \in AiKind, StartAi(c, kind)
       PROVE  \E r : StoreStep(c, r)
  <2>1. /\ NextCall(c) /\ UNCHANGED <<view, toStore, workerVars>>
        /\ kind \in Kind \ InitKind /\ kind # "submitBlockedSelection"
    BY <1>4, <1>12 DEF StartAi, AiKind, InitKind
  <2>2. CASE FinishAtOnce(c, kind, error)
    BY <1>1, <2>1, <2>2, AtOnceStep
  <2>3. CASE FinishAtOnce(c, kind, "INTERNAL_ERROR")
    BY <2>1, <2>3, AtOnceStep DEF ErrorCode
  <2>4. ASSUME AgentDecides(lifecycle, view), BeginOperation(c, FALSE),
               NEW d \in LegalActions(view.microturn),
               Post(c, [Started(kind, "applyDecision") EXCEPT !.decision = d]),
               UNCHANGED <<lifecycle, error>>
        PROVE  \E r : StoreStep(c, r)
    <3>1. d \in Decision
      BY <1>1, <2>4, GameAssumption DEF AgentDecides, View
    <3> QED BY <1>7, <2>1, <2>4, <3>1
  <2> QED BY <1>12, <2>2, <2>3, <2>4 DEF StartAi
<1>13. ASSUME StartRewind(c)
       PROVE  \E r : StoreStep(c, r)
  <2>1. NextCall(c) /\ UNCHANGED <<view, toStore, workerVars>>
    BY <1>13 DEF StartRewind
  <2>2. CASE FinishAtOnce(c, "rewindToCurrentTurnStart", error)
    BY <1>1, <1>4, <2>1, <2>2, AtOnceStep
  <2>3. CASE /\ view.microturn # Null /\ BeginOperation(c, FALSE)
             /\ Post(c, [Started("rewindToCurrentTurnStart",
                                 "rewindToTurnBoundary")
                         EXCEPT !.turnId = NextTurnId(view.microturn)])
             /\ UNCHANGED <<lifecycle, error>>
    <3> DEFINE s == Started("rewindToCurrentTurnStart", "rewindToTurnBoundary")
               r == [s EXCEPT !.turnId = NextTurnId(view.microturn)]
    <3>0. sessionEpoch' \in Nat /\ operationToken' \in Nat
      BY <1>2, <2>3
    <3>1. /\ s \in CallRecord /\ s.kind = "rewindToCurrentTurnStart"
          /\ s.stage = "rewindToTurnBoundary"
          /\ s.epoch = sessionEpoch' /\ s.token = operationToken'
          /\ s.result = Ok(Null)
      BY <1>3, <1>4, <1>5, <3>0, StartedTypeOK
    <3>2. call' = [call EXCEPT ![c] = r] /\ toWorker' = Append(toWorker, c)
      BY <2>3 DEF Post
    <3>3. NextTurnId(view.microturn) \in TurnId
      BY <1>1, <2>3 DEF View, TurnId
    <3> HIDE DEF s
    <3>4. /\ r \in CallRecord /\ r.kind = "rewindToCurrentTurnStart"
          /\ r.stage = "rewindToTurnBoundary"
          /\ r.epoch = sessionEpoch' /\ r.token = operationToken'
          /\ r.result = Ok(Null) /\ r.turnId \in TurnId
      BY <3>1, <3>3 DEF CallRecord
    <3> HIDE DEF r
    <3>5. RequestOK(r)
      BY <3>4 DEF RequestOK, InitKind
    <3>6. StoreStep(c, r)
      BY <1>1, <1>5, <2>1, <2>3, <3>2, <3>4, <3>5, BeginningStep
    <3> QED BY <3>6
  <2> QED BY <1>13, <2>2, <2>3 DEF StartRewind
<1>14. ASSUME StartUndo(c)
       PROVE  \E r : StoreStep(c, r)
  <2> DEFINE s == Started("undo", "undo")
  <2>0. sessionEpoch' \in Nat /\ operationToken' \in Nat
    BY <1>2, <1>14 DEF StartUndo
  <2>1. /\ s \in CallRecord /\ s.kind = "undo" /\ s.stage = "undo"
        /\ s.epoch = sessionEpoch' /\ s.token = operationToken'
        /\ s.result = Ok(Null)
    BY <1>3, <1>4, <1>5, <2>0, StartedTypeOK
  <2>2. /\ NextCall(c) /\ BeginOperation(c, FALSE)
        /\ call' = [call EXCEPT ![c] = s] /\ toWorker' = Append(toWorker, c)
        /\ UNCHANGED <<lifecycle, view, error, toStore, workerVars>>
    BY <1>14 DEF StartUndo, Post
  <2> HIDE DEF s
  <2>3. RequestOK(s)
    BY <2>1 DEF RequestOK, InitKind
  <2>4. StoreStep(c, s)
    BY <1>1, <1>5, <2>1, <2>2, <2>3, BeginningStep
  <2> QED BY <2>4
<1> QED BY <1>8, <1>9, <1>10, <1>11, <1>12, <1>13, <1>14 DEF Begin


-----------------------------------------------------------------------------
(* The actions that resume a call.                                         *)

\* What a call that has received its reply may rely on.
LEMMA Received ==
  ASSUME SessionInv, NEW c \in Call, NEW stage \in Awaiting, Receive(c, stage)
  PROVE  /\ InFlight(c) /\ Leaves(c) /\ call[c] \in CallRecord
         /\ call[c].stage = stage /\ RequestOK(call[c])
         /\ UNCHANGED <<sessionEpoch, workerVars>>
         /\ activeOperation = c => ReadsItsGame(call[c])
         /\ Succeeded(c) /\ stage \notin {"rewindToTurnBoundary", "undo"}
              => call[c].result.value \in GameState
         /\ call[c].result.value \in GameState \cup {Null}
<1>1. /\ toStore # <<>> /\ c = Head(toStore) /\ call[c].stage = stage
      /\ toStore' = Tail(toStore) /\ UNCHANGED <<sessionEpoch, workerVars>>
  BY DEF Receive
<1>2. c \in Queued(toStore) /\ InFlight(c)
  BY <1>1, QueuedTail DEF SessionInv, SessionTypeOK, ChannelOK, InFlight
<1>3. call[c] \in CallRecord /\ RequestOK(call[c])
  BY <1>2 DEF SessionInv, SessionTypeOK, OperationsInv, RequestsWellFormed
<1>4. activeOperation = c => ReadsItsGame(call[c])
  <2>1. c # Null
    BY StoreAssumption DEF Call
  <2> QED BY <1>2, <2>1
          DEF SessionInv, OperationsInv, CurrentOperationReadsItsGame
<1>5. call[c].result.value \in GameState \cup {Null}
  BY <1>3 DEF CallRecord, Answer
<1>6. Succeeded(c) /\ stage \notin {"rewindToTurnBoundary", "undo"}
        => call[c].result.value # Null
  BY <1>1, <1>2 DEF Succeeded, SessionInv, OperationsInv, RepliesCarryStates
<1> QED BY <1>1, <1>2, <1>3, <1>4, <1>5, <1>6 DEF Leaves

\* A finished call is a call record with the stamp it had.
LEMMA FinishedTypeOK ==
  ASSUME NEW c, call[c] \in CallRecord
  PROVE  LET r == Finished(c, "done")
         IN  /\ r \in CallRecord /\ r.stage = "done" /\ r.result = Ok(Null)
             /\ r.epoch = call[c].epoch /\ r.token = call[c].token
<1>1. /\ call[c].kind \in Kind \cup {Null}
      /\ call[c].epoch \in Nat /\ call[c].token \in Nat
  BY DEF CallRecord
<1>2. "done" \in Stage
  BY DEF Stage
<1>3. Finished(c, "done") \in CallRecord
  BY <1>1, <1>2, NoCallTypeOK DEF Finished, CallRecord
<1> QED BY <1>3 DEF Finished, NoCall

\* The call ends.
LEMMA EndingStep ==
  ASSUME SessionInv, NEW c \in Call, Leaves(c),
         FinishOperation(c, "done"),
         UNCHANGED <<sessionEpoch, operationToken, workerVars>>,
         Redraws, ShownTypeOK
  PROVE  \E r : StoreStep(c, r)
<1> DEFINE r == Finished(c, "done")
<1>1. /\ r \in CallRecord /\ r.stage = "done" /\ r.result = Ok(Null)
      /\ r.epoch = call[c].epoch /\ r.token = call[c].token
  BY FinishedTypeOK DEF SessionInv, SessionTypeOK
<1>2. /\ call' = [call EXCEPT ![c] = r] /\ UNCHANGED toWorker
      /\ activeOperation' = IF activeOperation = c THEN Null ELSE activeOperation
      /\ loading' = IF activeOperation = c THEN FALSE ELSE loading
  BY DEF FinishOperation, IsCurrentOperation
<1> HIDE DEF r
<1>3. "done" \notin Awaiting /\ c # Null
  BY StoreAssumption DEF Awaiting, MutationStage, Call
<1>4. loading \in BOOLEAN /\ (loading <=> activeOperation # Null)
  BY DEF SessionInv, SessionTypeOK, LoadingHasAnOwner
<1>5. loading' \in BOOLEAN /\ (loading' <=> activeOperation' # Null)
  BY <1>2, <1>4
<1>6. GoesOnOrEnds(c, r) /\ activeOperation' # c
  BY <1>1, <1>2, <1>3 DEF GoesOnOrEnds
<1>7. StoreStep(c, r)
  BY <1>1, <1>2, <1>3, <1>5, <1>6 DEF StoreStep
<1> QED BY <1>7

\* The call posts its next request r, of the same operation.
LEMMA AwaitingStep ==
  ASSUME SessionInv, NEW c \in Call, NEW r \in CallRecord,
         Leaves(c), Post(c, r),
         UNCHANGED <<sessionEpoch, operationToken, workerVars>>,
         UNCHANGED <<activeOperation, loading>>,
         Redraws, ShownTypeOK,
         r.result = Ok(Null),
         r.stage \in Awaiting, RequestOK(r),
         r.epoch = call[c].epoch, r.token = call[c].token,
         activeOperation = c => ReadsItsGame(r)
  PROVE  StoreStep(c, r)
<1>1. loading \in BOOLEAN /\ (loading <=> activeOperation # Null)
  BY DEF SessionInv, SessionTypeOK, LoadingHasAnOwner
<1> QED BY <1>1 DEF StoreStep, GoesOnOrEnds, Post

\* The call asks for the next part of the screen, or for the replay of its moves.
LEMMA AwaitStep ==
  ASSUME SessionInv, NEW c \in Call, Leaves(c), RequestOK(call[c]),
         NEW stage \in (Awaiting \ MutationStage) \cup {"playSequence"},
         stage = "playSequence" => call[c].kind = "initGameFromHistory",
         NEW got \in View, Await(c, stage, got),
         UNCHANGED <<sessionEpoch, operationToken, workerVars>>,
         activeOperation = c =>
           stage = "playSequence" \/
           \A r : /\ r.result = Ok(Null) /\ r.stage = stage /\ r.got = got
                  /\ r.epoch = call[c].epoch /\ r.token = call[c].token
                  => ReadsItsGame(r)
  PROVE  \E r : StoreStep(c, r)
<1> DEFINE r == [call[c] EXCEPT !.stage = stage, !.got = got,
                                !.result = Ok(Null)]
<1>1. call[c] \in CallRecord
  BY DEF SessionInv, SessionTypeOK
<1>2. stage \in Awaiting /\ stage \in Stage /\ Ok(Null) \in Answer
  BY DEF Awaiting, MutationStage, Stage, Ok, Answer
<1>3. /\ r \in CallRecord /\ r.stage = stage /\ r.got = got
      /\ r.result = Ok(Null) /\ r.kind = call[c].kind
      /\ r.epoch = call[c].epoch /\ r.token = call[c].token
      /\ r.seed = call[c].seed /\ r.moves = call[c].moves
  BY <1>1, <1>2 DEF CallRecord
<1>4. Post(c, r)
      /\ UNCHANGED <<activeOperation, loading, lifecycle, view, error, agents>>
  BY DEF Await
<1> HIDE DEF r
<1>5. RequestOK(r)
  BY <1>3 DEF RequestOK, InitKind, MutationStage
<1>6. Redraws /\ ShownTypeOK
  BY <1>4 DEF Redraws, ShownTypeOK, SessionInv, SessionTypeOK
<1>7. activeOperation = c => ReadsItsGame(r)
  BY <1>3, UnansweredReads DEF MutationStage
<1>8. StoreStep(c, r)
  BY <1>2, <1>3, <1>4, <1>5, <1>6, <1>7, AwaitingStep
<1> QED BY <1>8

\* The screen is redrawn: by the current operation, with the present game.
LEMMA CommitStep ==
  ASSUME SessionInv, NEW c \in Call, Leaves(c), RequestOK(call[c]),
         NEW shown \in View, Commit(c, shown),
         activeOperation = c =>
           gameState \in GameState /\ shown = Atomic!Snapshot(gameState),
         UNCHANGED <<sessionEpoch, operationToken, workerVars>>
  PROVE  \E r : StoreStep(c, r)
<1> DEFINE next == LifecycleFromTerminal(shown.terminal)
<1>1. /\ call[c] \in CallRecord /\ lifecycle \in Lifecycle
      /\ error \in ErrorCode \cup {Null} /\ agents \in Seed \cup {Null}
      /\ Null \in ErrorCode \cup {Null}
      /\ "INTERNAL_ERROR" \in ErrorCode /\ "idle" \in Lifecycle
  BY DEF SessionInv, SessionTypeOK, ErrorCode, Lifecycle
<1>2. agents' \in Seed \cup {Null} /\ next \in Lifecycle
  BY <1>1 DEF Commit, RequestOK, Lifecycle, LifecycleFromTerminal
<1>3. CASE Fail(c, "INTERNAL_ERROR")
  <2>1. /\ Redraws /\ FinishOperation(c, "done")
        /\ lifecycle' \in Lifecycle /\ error' \in ErrorCode \cup {Null}
    BY <1>1, <1>3 DEF Fail, Redraws
  <2> QED BY <1>2, <2>1, EndingStep DEF ShownTypeOK
<1>4. CASE FinishOperation(c, "done") /\ UNCHANGED <<lifecycle, view, error>>
  BY <1>1, <1>2, <1>4, EndingStep DEF ShownTypeOK, Redraws
<1>5. CASE /\ IsCurrentOperation(c) /\ lifecycle' = next /\ view' = shown
           /\ IF call[c].kind = "resolveAiTurn"
              THEN ContinueAiTurn(c, next, shown)
              ELSE error' = Null /\ FinishOperation(c, "done")
  <2>1. activeOperation = c /\ Redraws
    BY <1>5 DEF IsCurrentOperation, Redraws
  <2>2. ASSUME error' \in ErrorCode \cup {Null}, FinishOperation(c, "done")
        PROVE  \E r : StoreStep(c, r)
    BY <1>2, <1>5, <2>1, <2>2, EndingStep DEF ShownTypeOK
  <2>3. ASSUME call[c].kind = "resolveAiTurn", AgentDecides(next, shown),
               error' = Null, UNCHANGED <<activeOperation, loading>>,
               NEW d \in LegalActions(shown.microturn),
               Post(c, [call[c] EXCEPT !.stage = "applyDecision",
                                       !.decision = d, !.lifecycle = next,
                                       !.steps = @ + 1, !.got = NoView,
                                       !.result = Ok(Null)])
        PROVE  \E r : StoreStep(c, r)
    <3> DEFINE r == [call[c] EXCEPT !.stage = "applyDecision",
                                    !.decision = d, !.lifecycle = next,
                                    !.steps = @ + 1, !.got = NoView,
                                    !.result = Ok(Null)]
    <3>1. d \in Decision
      BY <2>3, GameAssumption DEF AgentDecides, View
    <3>2. /\ "applyDecision" \in Stage /\ "applyDecision" \in Awaiting
          /\ "applyDecision" \in MutationStage
          /\ Ok(Null) \in Answer /\ NoView \in View
          /\ call[c].steps + 1 \in Nat
      BY <1>1 DEF Stage, Awaiting, MutationStage, Ok, Answer, NoView, View,
                  CallRecord
    <3> HIDE DEF next
    <3>3. /\ r \in CallRecord /\ r.stage = "applyDecision" /\ r.decision = d
          /\ r.result = Ok(Null) /\ r.kind = "resolveAiTurn"
          /\ r.epoch = call[c].epoch /\ r.token = call[c].token
      BY <1>1, <1>2, <2>3, <3>1, <3>2 DEF CallRecord
    <3>4. Post(c, r)
      BY <2>3
    <3> HIDE DEF r
    <3>5. RequestOK(r) /\ ReadsItsGame(r)
      BY <3>1, <3>2, <3>3, UnansweredReads DEF RequestOK, InitKind
    <3>6. ShownTypeOK
      BY <1>2, <1>5, <2>3 DEF ShownTypeOK
    <3>7. StoreStep(c, r)
      BY <2>1, <2>3, <3>2, <3>3, <3>4, <3>5, <3>6, AwaitingStep
    <3> QED BY <3>7
  <2> QED BY <1>1, <1>5, <2>2, <2>3 DEF ContinueAiTurn
<1> QED BY <1>3, <1>4, <1>5 DEF Commit


\* Views are equal when their parts are.
LEMMA ViewEqual ==
  ASSUME NEW x \in View, NEW y \in View,
         x.state = y.state, x.microturn = y.microturn,
         x.terminal = y.terminal, x.described = y.described
  PROVE  x = y
BY DEF View

\* The parts of the screen, put together one after the other, are a snapshot.
LEMMA PartsMakeASnapshot ==
  ASSUME NEW s \in GameState
  PROVE  LET start == [NoView EXCEPT !.state = s]
             root == [NoView EXCEPT !.state = s, !.microturn = s]
             ended == [start EXCEPT !.terminal = TerminalResult(s)]
         IN  /\ TerminalResult(s) => ended = Atomic!Snapshot(s)
             /\ ~TerminalResult(s) =>
                  /\ ended = start
                  /\ [start EXCEPT !.microturn = s] = root
                  /\ ~DecisionStackEmpty(s) => root = Atomic!Snapshot(s)
                  /\ DecisionStackEmpty(s) =>
                       [root EXCEPT !.described = s] = Atomic!Snapshot(s)
<1> DEFINE start == [NoView EXCEPT !.state = s]
           root == [NoView EXCEPT !.state = s, !.microturn = s]
           ended == [start EXCEPT !.terminal = TerminalResult(s)]
           going == [start EXCEPT !.microturn = s]
           whole == [root EXCEPT !.described = s]
           shot == Atomic!Snapshot(s)
<1>1. /\ TerminalResult(s) => TerminalResult(s) = TRUE
      /\ ~TerminalResult(s) => TerminalResult(s) = FALSE
      /\ TerminalResult(s) \in BOOLEAN
  BY GameAssumption
<1>2. /\ start \in View /\ start.state = s /\ start.microturn = Null
      /\ start.terminal = FALSE /\ start.described = Null
  BY DEF View, NoView
<1>3. /\ root \in View /\ root.state = s /\ root.microturn = s
      /\ root.terminal = FALSE /\ root.described = Null
  BY DEF View, NoView
<1> HIDE DEF start, root
<1>4. /\ ended \in View /\ ended.state = s /\ ended.microturn = Null
      /\ ended.terminal = TerminalResult(s) /\ ended.described = Null
  BY <1>1, <1>2 DEF View
<1>5. /\ going \in View /\ going.state = s /\ going.microturn = s
      /\ going.terminal = FALSE /\ going.described = Null
  BY <1>2 DEF View
<1>6. /\ whole \in View /\ whole.state = s /\ whole.microturn = s
      /\ whole.terminal = FALSE /\ whole.described = s
  BY <1>3 DEF View
<1>7. shot \in View /\ shot.state = s /\ shot.terminal = TerminalResult(s)
  BY SnapshotTypeOK DEF Atomic!Snapshot
<1>8. TerminalResult(s) => shot.microturn = Null /\ shot.described = Null
  BY DEF Atomic!Snapshot
<1>9. ~TerminalResult(s) =>
        /\ shot.microturn = s
        /\ DecisionStackEmpty(s) => shot.described = s
        /\ ~DecisionStackEmpty(s) => shot.described = Null
  BY DEF Atomic!Snapshot
<1> HIDE DEF ended, going, whole, shot
<1>10. TerminalResult(s) => ended = shot
  BY <1>4, <1>7, <1>8, ViewEqual
<1>11. ~TerminalResult(s) =>
         /\ ended = start
         /\ going = root
         /\ ~DecisionStackEmpty(s) => root = shot
         /\ DecisionStackEmpty(s) => whole = shot
  BY <1>1, <1>2, <1>3, <1>4, <1>5, <1>6, <1>7, <1>9, ViewEqual
<1> QED BY <1>10, <1>11 DEF start, root, ended, going, whole, shot

\* What the current operation holds when it asks for each part of the screen.
LEMMA ReadingSteps ==
  ASSUME NEW r, r.stage \in Awaiting \ MutationStage,
         latestStamp = [epoch |-> r.epoch, token |-> r.token],
         r.result = Ok(Null),
         \/ r.stage = "getState"
         \/ /\ r.stage = "terminalResult"
            /\ r.got = [NoView EXCEPT !.state = gameState]
         \/ /\ r.stage = "publishMicroturn"
            /\ r.got = [NoView EXCEPT !.state = gameState]
            /\ ~TerminalResult(gameState)
         \/ /\ r.stage = "describeAction"
            /\ r.got = [NoView EXCEPT !.state = gameState, !.microturn = gameState]
            /\ ~TerminalResult(gameState)
            /\ DecisionStackEmpty(gameState)
  PROVE  ReadsItsGame(r)
BY DEF ReadsItsGame, Ok

\* Each continuation of a call is a step of that call.
LEMMA ResumeStep ==
  ASSUME SessionInv, NEW c \in Call, Resume(c)
  PROVE  \E r : StoreStep(c, r)
<1>1. /\ call[c] \in CallRecord /\ lifecycle \in Lifecycle
      /\ error \in ErrorCode \cup {Null} /\ agents \in Seed \cup {Null}
  BY DEF SessionInv, SessionTypeOK
<1>2. /\ MutationStage \subseteq Awaiting /\ NoView \in View
      /\ call[c].got \in View
      /\ {"getState", "terminalResult", "publishMicroturn", "describeAction"}
           \subseteq Awaiting \ MutationStage
  BY <1>1 DEF Awaiting, MutationStage, NoView, View, CallRecord
<1>3. ASSUME FinishOperation(c, "done"), Leaves(c),
             UNCHANGED <<lifecycle, view, error, agents>>,
             UNCHANGED <<sessionEpoch, operationToken, workerVars>>
      PROVE  \E r : StoreStep(c, r)
  BY <1>1, <1>3, EndingStep DEF Redraws, ShownTypeOK
<1>4. ASSUME ReceiveRejection(c)
      PROVE  \E r : StoreStep(c, r)
  <2>1. PICK stage \in Awaiting : Receive(c, stage)
    BY <1>4 DEF ReceiveRejection
  <2>2. Leaves(c) /\ UNCHANGED <<sessionEpoch, operationToken, workerVars>>
    BY <1>4, <2>1, Received DEF ReceiveRejection
  <2>3. call[c].result.code \in ErrorCode
    BY <1>1, <1>4 DEF ReceiveRejection, Succeeded, CallRecord, Answer
  <2>4. Redraws /\ ShownTypeOK /\ FinishOperation(c, "done")
    BY <1>1, <1>4, <2>3 DEF ReceiveRejection, Fail, Redraws, ShownTypeOK, Lifecycle
  <2> QED BY <2>2, <2>4, EndingStep
\* The screen starts from the state a mutation, an init or a getState returned.
<1>5. ASSUME NEW stage \in Awaiting, Receive(c, stage), Succeeded(c),
             UNCHANGED operationToken, call[c].result.value # Null,
             Await(c, "terminalResult",
                   [NoView EXCEPT !.state = call[c].result.value])
      PROVE  \E r : StoreStep(c, r)
  <2> DEFINE got == [NoView EXCEPT !.state = call[c].result.value]
  <2>1. /\ Leaves(c) /\ RequestOK(call[c])
        /\ UNCHANGED <<sessionEpoch, workerVars>>
        /\ activeOperation = c => ReadsItsGame(call[c])
        /\ call[c].result.value \in GameState \cup {Null}
    BY <1>5, Received
  <2>2. got \in View
    BY <1>2, <2>1 DEF View
  <2>3. activeOperation = c =>
          /\ got = [NoView EXCEPT !.state = gameState]
          /\ latestStamp = [epoch |-> call[c].epoch, token |-> call[c].token]
    BY <1>5, <2>1 DEF ReadsItsGame, Succeeded
  <2> HIDE DEF got
  <2>4. activeOperation = c =>
          \A r : /\ r.result = Ok(Null) /\ r.stage = "terminalResult"
                 /\ r.got = got
                 /\ r.epoch = call[c].epoch /\ r.token = call[c].token
                 => ReadsItsGame(r)
    BY <1>2, <2>3, ReadingSteps
  <2> QED BY <1>2, <1>5, <2>1, <2>2, <2>4, AwaitStep DEF got
<1>6. ASSUME ReceiveMutation(c)
      PROVE  \E r : StoreStep(c, r)
  <2>1. PICK stage \in Awaiting : Receive(c, stage)
    BY <1>2, <1>6 DEF ReceiveMutation
  <2>2. Leaves(c) /\ UNCHANGED <<sessionEpoch, operationToken, workerVars>>
    BY <1>6, <2>1, Received DEF ReceiveMutation
  <2>3. CASE call[c].result.value = Null
    BY <1>3, <1>6, <2>2, <2>3 DEF ReceiveMutation
  <2>4. CASE call[c].result.value # Null
    BY <1>5, <1>6, <2>1, <2>4 DEF ReceiveMutation
  <2> QED BY <2>3, <2>4
<1>7. ASSUME ReceiveInit(c)
      PROVE  \E r : StoreStep(c, r)
  <2>1. Succeeded(c) /\ UNCHANGED operationToken
    BY <1>7 DEF ReceiveInit
  <2>2. ASSUME NEW stage \in {"init", "getState"}, Receive(c, stage),
               Await(c, "terminalResult",
                     [NoView EXCEPT !.state = call[c].result.value])
        PROVE  \E r : StoreStep(c, r)
    <3>1. stage \in Awaiting
      BY <2>2 DEF Awaiting, MutationStage
    <3>2. call[c].result.value # Null
      BY <2>1, <2>2, <3>1, Received, GameAssumption
    <3> QED BY <1>5, <2>1, <2>2, <3>1, <3>2
  <2>3. ASSUME NEW stage \in {"init", "playSequence"}, Receive(c, stage),
               call[c].kind = "initGameFromHistory",
               NEW next \in {"getState", "playSequence"}, Await(c, next, NoView)
        PROVE  \E r : StoreStep(c, r)
    <3>1. stage \in MutationStage /\ stage \in Awaiting
      BY <2>3 DEF Awaiting, MutationStage
    <3>2. /\ Leaves(c) /\ RequestOK(call[c]) /\ call[c].stage = stage
          /\ UNCHANGED <<sessionEpoch, workerVars>>
          /\ activeOperation = c => ReadsItsGame(call[c])
          /\ call[c].result.value \in GameState
      BY <2>1, <2>3, <3>1, Received
    <3>3. activeOperation = c =>
            latestStamp = [epoch |-> call[c].epoch, token |-> call[c].token]
      BY <2>1, <3>2, GameAssumption DEF ReadsItsGame, Succeeded
    <3>4. activeOperation = c =>
            next = "playSequence" \/
            \A r : /\ r.result = Ok(Null) /\ r.stage = next /\ r.got = NoView
                   /\ r.epoch = call[c].epoch /\ r.token = call[c].token
                   => ReadsItsGame(r)
      BY <1>2, <2>3, <3>3, ReadingSteps
    <3>5. next \in (Awaiting \ MutationStage) \cup {"playSequence"}
      BY <1>2
    <3> QED BY <1>2, <2>1, <2>3, <3>2, <3>4, <3>5, AwaitStep
  <2>4. call[c].stage = "playSequence" /\ Receive(c, "playSequence") =>
          call[c].kind = "initGameFromHistory"
    BY Received DEF RequestOK, Awaiting, MutationStage
  <2> QED BY <1>7, <2>2, <2>3, <2>4 DEF ReceiveInit, Receive
<1>8. ASSUME ReceiveTerminalResult(c)
      PROVE  \E r : StoreStep(c, r)
  <2> DEFINE terminal == TerminalResult(call[c].result.value)
             got == [call[c].got EXCEPT !.terminal = terminal]
  <2>1. /\ Leaves(c) /\ RequestOK(call[c]) /\ call[c].stage = "terminalResult"
        /\ UNCHANGED <<sessionEpoch, operationToken, workerVars>>
        /\ activeOperation = c => ReadsItsGame(call[c])
        /\ call[c].result.value \in GameState
    BY <1>2, <1>8, Received DEF ReceiveTerminalResult
  <2>2. terminal \in BOOLEAN /\ got \in View
    BY <1>2, <2>1, GameAssumption DEF View
  <2>3. activeOperation = c =>
          /\ gameState \in GameState /\ call[c].result.value = gameState
          /\ call[c].got = [NoView EXCEPT !.state = gameState]
          /\ latestStamp = [epoch |-> call[c].epoch, token |-> call[c].token]
    BY <1>8, <2>1, GameAssumption
       DEF ReceiveTerminalResult, ReadsItsGame, Succeeded
  <2>4. activeOperation = c /\ terminal => got = Atomic!Snapshot(gameState)
    BY <2>3, PartsMakeASnapshot
  <2>5. activeOperation = c /\ ~terminal =>
          got = [NoView EXCEPT !.state = gameState] /\ ~TerminalResult(gameState)
    BY <2>3, PartsMakeASnapshot
  <2>6. CASE terminal /\ Commit(c, got)
    BY <2>1, <2>2, <2>3, <2>4, <2>6, CommitStep
  <2>7. CASE ~terminal /\ Await(c, "publishMicroturn", got)
    <3> HIDE DEF got, terminal
    <3>1. activeOperation = c =>
            \A r : /\ r.result = Ok(Null) /\ r.stage = "publishMicroturn"
                   /\ r.got = got
                   /\ r.epoch = call[c].epoch /\ r.token = call[c].token
                   => ReadsItsGame(r)
      BY <1>2, <2>3, <2>5, <2>7, ReadingSteps
    <3> QED BY <1>2, <2>1, <2>2, <2>7, <3>1, AwaitStep
  <2> QED BY <1>8, <2>6, <2>7 DEF ReceiveTerminalResult
<1>9. ASSUME ReceiveMicroturn(c)
      PROVE  \E r : StoreStep(c, r)
  <2> DEFINE microturn == call[c].result.value
             got == [call[c].got EXCEPT !.microturn = microturn]
  <2>1. /\ Leaves(c) /\ RequestOK(call[c]) /\ call[c].stage = "publishMicroturn"
        /\ UNCHANGED <<sessionEpoch, operationToken, workerVars>>
        /\ activeOperation = c => ReadsItsGame(call[c])
        /\ microturn \in GameState
    BY <1>2, <1>9, Received DEF ReceiveMicroturn
  <2>2. got \in View
    BY <1>2, <2>1 DEF View
  <2>3. activeOperation = c =>
          /\ gameState \in GameState /\ microturn = gameState
          /\ ~TerminalResult(gameState)
          /\ call[c].got = [NoView EXCEPT !.state = gameState]
          /\ latestStamp = [epoch |-> call[c].epoch, token |-> call[c].token]
    BY <1>9, <2>1, GameAssumption
       DEF ReceiveMicroturn, ReadsItsGame, Succeeded
  <2>4. activeOperation = c =>
          /\ got = [NoView EXCEPT !.state = gameState, !.microturn = gameState]
          /\ ~DecisionStackEmpty(microturn) => got = Atomic!Snapshot(gameState)
    <3>1. activeOperation = c =>
            got = [NoView EXCEPT !.state = gameState, !.microturn = gameState]
      BY <2>3, PartsMakeASnapshot
    <3> QED BY <2>3, <3>1, PartsMakeASnapshot
  <2>5. CASE ~DecisionStackEmpty(microturn) /\ Commit(c, got)
    BY <2>1, <2>2, <2>3, <2>4, <2>5, CommitStep
  <2>6. CASE DecisionStackEmpty(microturn) /\ Await(c, "describeAction", got)
    <3> HIDE DEF got
    <3>1. activeOperation = c =>
            \A r : /\ r.result = Ok(Null) /\ r.stage = "describeAction"
                   /\ r.got = got
                   /\ r.epoch = call[c].epoch /\ r.token = call[c].token
                   => ReadsItsGame(r)
      BY <1>2, <2>3, <2>4, <2>6, ReadingSteps
    <3> QED BY <1>2, <2>1, <2>2, <2>6, <3>1, AwaitStep
  <2> QED BY <1>9, <2>5, <2>6 DEF ReceiveMicroturn
<1>10. ASSUME ReceiveDescriptions(c)
       PROVE  \E r : StoreStep(c, r)
  <2> DEFINE got == [call[c].got EXCEPT !.described = call[c].result.value]
  <2>1. /\ Leaves(c) /\ RequestOK(call[c]) /\ call[c].stage = "describeAction"
        /\ UNCHANGED <<sessionEpoch, operationToken, workerVars>>
        /\ activeOperation = c => ReadsItsGame(call[c])
        /\ call[c].result.value \in GameState
    BY <1>2, <1>10, Received DEF ReceiveDescriptions
  <2>2. got \in View
    BY <1>2, <2>1 DEF View
  <2>3. activeOperation = c =>
          gameState \in GameState /\ got = Atomic!Snapshot(gameState)
    <3>1. activeOperation = c =>
            /\ gameState \in GameState /\ call[c].result.value = gameState
            /\ ~TerminalResult(gameState) /\ DecisionStackEmpty(gameState)
            /\ call[c].got = [NoView EXCEPT !.state = gameState,
                                            !.microturn = gameState]
      BY <1>10, <2>1, GameAssumption
         DEF ReceiveDescriptions, ReadsItsGame, Succeeded
    <3> QED BY <3>1, PartsMakeASnapshot
  <2> QED BY <1>10, <2>1, <2>2, <2>3, CommitStep DEF ReceiveDescriptions
<1>11. ASSUME ReceiveBlockedDescription(c)
       PROVE  \E r : StoreStep(c, r)
  <2> DEFINE r == [Finished(c, "done") EXCEPT !.epoch = sessionEpoch,
                                              !.token = operationToken + 1]
  <2>1. Leaves(c) /\ UNCHANGED <<sessionEpoch, workerVars>>
    BY <1>2, <1>11, Received DEF ReceiveBlockedDescription
  <2>2. /\ Finished(c, "done") \in CallRecord
        /\ Finished(c, "done").stage = "done"
        /\ Finished(c, "done").result = Ok(Null)
    BY <1>1, FinishedTypeOK
  <2>3. /\ sessionEpoch \in Nat /\ operationToken + 1 \in Nat
        /\ c # Null /\ "done" \notin Awaiting
    BY StoreAssumption DEF SessionInv, SessionTypeOK, Call, Awaiting, MutationStage
  <2>4. /\ r \in CallRecord /\ r.stage = "done" /\ r.result = Ok(Null)
        /\ r.epoch = sessionEpoch /\ r.token = operationToken + 1
    BY <2>2, <2>3 DEF CallRecord
  <2>5. call' = [call EXCEPT ![c] = r]
    BY <1>11 DEF ReceiveBlockedDescription
  <2> HIDE DEF r
  <2>6. Begins(c, r) /\ Redraws /\ ShownTypeOK
    BY <1>1, <1>11, <2>1, <2>4
       DEF ReceiveBlockedDescription, Begins, Redraws, ShownTypeOK, ErrorCode
  <2>7. StoreStep(c, r)
    BY <1>11, <2>1, <2>3, <2>4, <2>5, <2>6
       DEF ReceiveBlockedDescription, StoreStep
  <2> QED BY <2>7
<1> QED BY <1>4, <1>6, <1>7, <1>8, <1>9, <1>10, <1>11 DEF Resume


-----------------------------------------------------------------------------
(* The invariant.                                                          *)

\* A step that touches no operation and no request keeps the invariant.
LEMMA ShownKeepsInv ==
  ASSUME SessionInv, UNCHANGED workerVars, UNCHANGED outsideVars,
         ShownTypeOK, view' \in View
  PROVE  SessionInv'
<1>1. UNCHANGED workerVars /\ UNCHANGED outsideVars
  OBVIOUS
<1>2. ShownTypeOK /\ view' \in View
  OBVIOUS
<1>3. WorkerTypeOK' /\ HistoryIsAPlay'
  BY <1>1 DEF SessionInv, workerVars, WorkerTypeOK, HistoryIsAPlay,
              Available, Initialized, Timeline
<1>4. /\ Queued(toWorker)' = Queued(toWorker)
      /\ Queued(toStore)' = Queued(toStore)
      /\ {c \in Call : InFlight(c)}' = {c \in Call : InFlight(c)}
      /\ toWorker' = toWorker /\ toStore' = toStore
  BY <1>1 DEF outsideVars, Queued, InFlight
<1>5. ChannelOK'
  BY <1>4 DEF SessionInv, SessionTypeOK, ChannelOK
<1>6. SessionTypeOK'
  BY <1>1, <1>2, <1>5 DEF SessionInv, SessionTypeOK, ShownTypeOK, outsideVars
<1>7. LoadingHasAnOwner'
  BY <1>1 DEF SessionInv, LoadingHasAnOwner, InFlight, outsideVars
<1>8. OperationsInv'
  <2>1. StampsInOrder'
    BY <1>1 DEF SessionInv, OperationsInv, StampsInOrder, StampOf,
                outsideVars, workerVars
  <2>2. RequestsWellFormed' /\ RepliesCarryStates'
    BY <1>1, <1>4 DEF SessionInv, OperationsInv, RequestsWellFormed,
                      RepliesCarryStates, InFlight, outsideVars
  <2>3. LoopHasAnOwner'
    BY <1>1 DEF SessionInv, OperationsInv, LoopHasAnOwner, Available, StampOf,
                outsideVars, workerVars
  <2>4. CurrentOperationReadsItsGame'
    BY <1>1 DEF SessionInv, OperationsInv, CurrentOperationReadsItsGame,
                InFlight, ReadsItsGame, outsideVars, workerVars
  <2> QED BY <2>1, <2>2, <2>3, <2>4 DEF OperationsInv
<1> QED BY <1>3, <1>6, <1>7, <1>8 DEF SessionInv

\* The canvas, the bootstrap failure and a dismissed error keep the invariant.
LEMMA OutsideKeepsInv ==
  ASSUME SessionInv, Outside
  PROVE  SessionInv'
<1>1. UNCHANGED workerVars /\ UNCHANGED outsideVars
  BY DEF Outside, CanvasCrash, CanvasRecovered, ReportBootstrapFailure, ClearError
<1>2. NoView \in View
  BY DEF NoView, View
<1>3. ShownTypeOK /\ view' \in View
  BY <1>2 DEF Outside, CanvasCrash, CanvasRecovered, ReportBootstrapFailure,
              ClearError, SessionInv, SessionTypeOK, ShownTypeOK, Lifecycle,
              ErrorCode, LifecycleFromTerminal
<1> QED BY <1>1, <1>3, ShownKeepsInv

\* A session begins in the invariant.
LEMMA InitEstablishesInv == Init => SessionInv
<1> SUFFICES ASSUME Init PROVE SessionInv
  OBVIOUS
<1>1. WorkerTypeOK /\ HistoryIsAPlay
  BY DEF Init, WorkerInit, WorkerTypeOK, HistoryIsAPlay, Ok, Reply, ErrorCode,
         Available, Initialized
<1>2. Queued(toWorker) = {} /\ Queued(toStore) = {}
  BY DEF Init, StoreInit, Queued
<1>3. \A c \in Call : call[c] = NoCall /\ ~InFlight(c)
  BY DEF Init, StoreInit, InFlight, NoCall, Awaiting, MutationStage
<1>4. ChannelOK
  BY <1>2, <1>3 DEF Init, StoreInit, ChannelOK
<1>5. SessionTypeOK
  <2>1. NoView \in View
    BY DEF NoView, View
  <2>2. call \in [Call -> CallRecord]
    BY NoCallTypeOK DEF Init, StoreInit
  <2>3. toWorker \in Seq(Call) /\ toStore \in Seq(Call)
    BY DEF Init, StoreInit
  <2>4. loading \in BOOLEAN /\ lifecycle \in Lifecycle /\ view \in View
    BY <2>1 DEF Init, StoreInit, Lifecycle
  <2>5. /\ sessionEpoch \in Nat /\ operationToken \in Nat
        /\ activeOperation \in Call \cup {Null}
        /\ error \in ErrorCode \cup {Null} /\ agents \in Seed \cup {Null}
    BY DEF Init, StoreInit
  <2> QED BY <1>4, <2>2, <2>3, <2>4, <2>5 DEF SessionTypeOK
<1>6. LoadingHasAnOwner
  BY DEF Init, StoreInit, LoadingHasAnOwner
<1>7. StampsInOrder
  BY <1>3 DEF Init, StoreInit, WorkerInit, StampsInOrder, NoCall
<1>8. RequestsWellFormed /\ RepliesCarryStates
  BY <1>2, <1>3 DEF RequestsWellFormed, RepliesCarryStates
<1>9. LoopHasAnOwner /\ CurrentOperationReadsItsGame
  BY DEF Init, StoreInit, WorkerInit, LoopHasAnOwner, Available, Ok,
         CurrentOperationReadsItsGame
<1> QED BY <1>1, <1>5, <1>6, <1>7, <1>8, <1>9 DEF SessionInv, OperationsInv

\* A step that changes nothing keeps the invariant.
LEMMA StutterKeepsInv ==
  ASSUME SessionInv, UNCHANGED vars
  PROVE  SessionInv'
<1>1. UNCHANGED workerVars /\ UNCHANGED outsideVars
  BY DEF vars, storeVars, outsideVars
<1>2. ShownTypeOK /\ view' \in View
  BY DEF vars, storeVars, ShownTypeOK, SessionInv, SessionTypeOK
<1> QED BY <1>1, <1>2, ShownKeepsInv

\* A step of the store is a step of one call.
LEMMA CallStep ==
  ASSUME SessionInv, NEW c \in Call, Begin(c) \/ Resume(c)
  PROVE  \E r : StoreStep(c, r)
BY BeginStep, ResumeStep

\* The inductive invariant holds in every session: types, the order of the
\* stamps, the shape of requests and replies, and that the current operation
\* reads its own game (the tokens of beginOperation and the worker's
\* ensureFreshMutation together).
THEOREM SessionInvariant == Spec => []SessionInv
<1>1. SessionInv /\ [Next]_vars => SessionInv'
  <2> SUFFICES ASSUME SessionInv, [Next]_vars PROVE SessionInv'
    OBVIOUS
  <2>1. CASE Serve
    BY <2>1, ServeKeepsInv
  <2>2. ASSUME NEW c \in Call, Begin(c) \/ Resume(c)
        PROVE  SessionInv'
    BY <2>2, CallStep, StoreStepKeepsInv
  <2>3. CASE Outside
    BY <2>3, OutsideKeepsInv
  <2>4. CASE UNCHANGED vars
    BY <2>4, StutterKeepsInv
  <2> QED BY <2>1, <2>2, <2>3, <2>4 DEF Next
<1> QED BY <1>1, InitEstablishesInv, PTL DEF Spec

\* The types of the store and of the channel (SessionTypeOK).
THEOREM SessionTypeCorrect == Spec => []SessionTypeOK
<1>1. SessionInv => SessionTypeOK
  BY DEF SessionInv
<1> QED BY <1>1, SessionInvariant, PTL

\* The loading flag is on exactly while an operation that can still turn it
\* off is current (LoadingHasAnOwner).
THEOREM LoadingFlagNeverSticks == Spec => []LoadingHasAnOwner
<1>1. SessionInv => LoadingHasAnOwner
  BY DEF SessionInv
<1> QED BY <1>1, SessionInvariant, PTL

\* What operations in flight rely on (OperationsInv).
THEOREM OperationsAreSafe == Spec => []OperationsInv
<1>1. SessionInv => OperationsInv
  BY DEF SessionInv
<1> QED BY <1>1, SessionInvariant, PTL

-----------------------------------------------------------------------------
(* The lifecycle.                                                          *)

\* The screen is empty or whole, and the lifecycle agrees with it.
ScreenInv ==
  /\ LifecycleMatchesView
  /\ view.terminal => view.state # Null

\* Each way the screen is redrawn keeps it in step with the lifecycle.
LEMMA RedrawKeepsScreen ==
  ASSUME SessionInv, ScreenInv, Redraws
  PROVE  ScreenInv'
<1>1. CASE UNCHANGED view /\ lifecycle' \in {lifecycle, "initializing"}
  BY <1>1 DEF ScreenInv, LifecycleMatchesView
<1>2. CASE view' = NoView /\ lifecycle' = "idle"
  BY <1>2 DEF ScreenInv, LifecycleMatchesView, NoView
<1>3. CASE /\ gameState \in GameState
           /\ view' = Atomic!Snapshot(gameState)
           /\ lifecycle' = LifecycleFromTerminal(view'.terminal)
  <2>1. view'.state # Null /\ view'.terminal \in BOOLEAN
    BY <1>3, GameAssumption DEF Atomic!Snapshot
  <2>2. lifecycle' = IF view'.terminal THEN "terminal" ELSE "playing"
    BY <1>3 DEF LifecycleFromTerminal
  <2> QED BY <2>1, <2>2 DEF ScreenInv, LifecycleMatchesView
<1> QED BY <1>1, <1>2, <1>3 DEF Redraws

\* The lifecycle says what the screen shows (LifecycleMatchesView).
THEOREM LifecycleIsTruthful == Spec => []LifecycleMatchesView
<1>1. Init => ScreenInv
  BY DEF Init, StoreInit, ScreenInv, LifecycleMatchesView, NoView
<1>2. SessionInv /\ ScreenInv /\ [Next]_vars => ScreenInv'
  <2> SUFFICES ASSUME SessionInv, ScreenInv, [Next]_vars PROVE ScreenInv'
    OBVIOUS
  <2>1. ASSUME UNCHANGED <<lifecycle, view>>
        PROVE  ScreenInv'
    BY <2>1 DEF ScreenInv, LifecycleMatchesView
  <2>2. CASE Serve
    BY <2>1, <2>2 DEF Serve, Settle
  <2>3. ASSUME NEW c \in Call, Begin(c) \/ Resume(c)
        PROVE  ScreenInv'
    BY <2>3, CallStep, RedrawKeepsScreen DEF StoreStep
  <2>4. CASE CanvasCrash
    BY <2>4 DEF CanvasCrash, ScreenInv, LifecycleMatchesView
  <2>5. CASE CanvasRecovered
    <3>1. view.state # Null /\ UNCHANGED view
          /\ lifecycle' = IF view.terminal THEN "terminal" ELSE "playing"
      BY <2>5 DEF CanvasRecovered, LifecycleFromTerminal, ScreenInv,
                  LifecycleMatchesView
    <3> QED BY <3>1 DEF ScreenInv, LifecycleMatchesView
  <2>6. CASE ReportBootstrapFailure
    BY <2>1, <2>6 DEF ReportBootstrapFailure, ScreenInv, LifecycleMatchesView,
                      NoView
  <2>7. CASE ClearError
    BY <2>1, <2>7 DEF ClearError
  <2>8. CASE UNCHANGED vars
    BY <2>1, <2>8 DEF vars, storeVars
  <2> QED BY <2>2, <2>3, <2>4, <2>5, <2>6, <2>7, <2>8 DEF Next, Outside
<1>3. ScreenInv => LifecycleMatchesView
  BY DEF ScreenInv
<1> QED BY <1>1, <1>2, <1>3, SessionInvariant, PTL DEF Spec

-----------------------------------------------------------------------------
(* The refinement.                                                         *)

\* A step of the worker is a step of the atomic game.
LEMMA ServeIsAtomic ==
  ASSUME SessionInv, Serve
  PROVE  [Atomic!AtomicNext]_(Atomic!atomicVars)
<1>1. GameStep /\ UNCHANGED view
  BY ServeHasItsEffect DEF ServeEffect, Serve, Settle
<1>2. CASE UNCHANGED <<gameState, history>>
  BY <1>1, <1>2 DEF Atomic!atomicVars
<1>3. CASE StartsAfresh
  BY <1>1, <1>3 DEF StartsAfresh, Atomic!AtomicNext, Atomic!Start
<1>4. CASE GoesOn
  BY <1>1, <1>4
     DEF GoesOn, Initialized, Atomic!AtomicNext, Atomic!Play, Atomic!Successor,
         Successor
<1>5. CASE GoesBack
  <2>1. history \in Seq(GameState) /\ gameState \in GameState
    BY <1>5 DEF SessionInv, WorkerTypeOK, GoesBack, Initialized
  <2>2. PICK i \in 1..Len(Timeline) :
          /\ gameState' = Timeline[i]
          /\ history' = SubSeq(Timeline, 1, i - 1)
    BY <1>5 DEF GoesBack
  <2>3. /\ Len(history) \in Nat /\ Len(Timeline) = Len(history) + 1
        /\ Timeline[Len(history) + 1] = gameState
        /\ \A j \in 1..Len(history) : Timeline[j] = history[j]
    BY <2>1 DEF Timeline
  <2>4. i - 1 \in 0..Len(history)
    BY <2>3
  <2>5. history' = SubSeq(history, 1, i - 1)
    BY <2>1, <2>2, <2>4, PrefixOfAppend DEF Timeline
  <2>6. CASE i \in 1..Len(history)
    BY <1>1, <2>2, <2>3, <2>5, <2>6 DEF Atomic!AtomicNext, Atomic!Return
  <2>7. CASE i = Len(history) + 1
    <3>1. SubSeq(history, 1, Len(history)) = history
      BY <2>1, SubSeqFull
    <3>2. UNCHANGED <<gameState, history>>
      BY <2>2, <2>3, <2>5, <2>7, <3>1
    <3> QED BY <1>2, <3>2
  <2> QED BY <2>3, <2>6, <2>7
<1> QED BY <1>1, <1>2, <1>3, <1>4, <1>5 DEF GameStep

\* A step of the store redraws the atomic game's screen or stutters.
LEMMA RedrawIsAtomic ==
  ASSUME UNCHANGED workerVars, Redraws
  PROVE  [Atomic!AtomicNext]_(Atomic!atomicVars)
<1>1. UNCHANGED <<gameState, history>>
  BY DEF workerVars
<1>2. CASE UNCHANGED view
  BY <1>1, <1>2 DEF Atomic!atomicVars
<1>3. CASE view' = NoView
  BY <1>1, <1>3
     DEF NoView, Atomic!AtomicNext, Atomic!Blank, Atomic!NothingShown
<1>4. CASE gameState \in GameState /\ view' = Atomic!Snapshot(gameState)
  BY <1>1, <1>4, GameAssumption DEF Atomic!AtomicNext, Atomic!Show
<1> QED BY <1>2, <1>3, <1>4 DEF Redraws

\* The store and the worker together are one atomic game behind one screen
\* (ImplementsAtomicGame), for any game and any number of overlapping calls.
THEOREM SessionImplementsAtomicGame == Spec => ImplementsAtomicGame
<1>1. Init => Atomic!AtomicInit
  BY DEF Init, WorkerInit, StoreInit, NoView, Atomic!AtomicInit,
         Atomic!NothingShown
<1>2. SessionInv /\ [Next]_vars => [Atomic!AtomicNext]_(Atomic!atomicVars)
  <2> SUFFICES ASSUME SessionInv, [Next]_vars
               PROVE  [Atomic!AtomicNext]_(Atomic!atomicVars)
    OBVIOUS
  <2>1. CASE Serve
    BY <2>1, ServeIsAtomic
  <2>2. ASSUME NEW c \in Call, Begin(c) \/ Resume(c)
        PROVE  [Atomic!AtomicNext]_(Atomic!atomicVars)
    BY <2>2, CallStep, RedrawIsAtomic DEF StoreStep
  <2>3. CASE Outside
    <3>1. UNCHANGED workerVars /\ (UNCHANGED view \/ view' = NoView)
      BY <2>3 DEF Outside, CanvasCrash, CanvasRecovered,
                  ReportBootstrapFailure, ClearError
    <3> QED BY <3>1 DEF workerVars, NoView, Atomic!atomicVars,
                        Atomic!AtomicNext, Atomic!Blank, Atomic!NothingShown
  <2>4. CASE UNCHANGED vars
    BY <2>4 DEF vars, workerVars, storeVars, Atomic!atomicVars
  <2> QED BY <2>1, <2>2, <2>3, <2>4 DEF Next
<1> QED BY <1>1, <1>2, SessionInvariant, PTL
        DEF Spec, ImplementsAtomicGame, Atomic!AtomicSpec


=============================================================================
