---------------------------- MODULE StampProofs -----------------------------
(***************************************************************************)
(* What the stamps of operations do, with any number of store actions.     *)
(* The worker turns down no first mutation (OnlySecondMutationsAreStale):  *)
(* calls take their stamps in the order in which they post their first     *)
(* requests, and the channel keeps that order; so whatever the worker has  *)
(* served when it comes to a first mutation was of an older call.  And it  *)
(* lets no second one through, so that a resume never replays its moves    *)
(* and an AI turn ends at its first decision.  Every call then runs down,  *)
(* within six requests.                                                    *)
(***************************************************************************)
EXTENDS GameSessionProofs

\* A first mutation of an operation is posted.
First(r) == r.stage \in MutationStage \ {"playSequence"} /\ r.steps = 0

FirstRequest(c) == c \in Queued(toWorker) /\ First(call[c])

Older(r, s) == r.epoch <= s.epoch /\ r.token < s.token

\* The first mutations in the channel are newer than the stamp the worker has,
\* than the calls that have had their first answer, and in order.
FirstMutationsInOrder ==
  /\ \A c \in Call : FirstRequest(c) =>
       /\ latestStamp # Null => Older(latestStamp, call[c])
       /\ call[c].token > 0
       /\ \A e \in Call : InFlight(e) /\ ~FirstRequest(e) => Older(call[e], call[c])
  /\ \A i, j \in 1..Len(toWorker) :
       i < j /\ First(call[toWorker[i]]) /\ First(call[toWorker[j]])
         => Older(call[toWorker[i]], call[toWorker[j]])

StampInv ==
  SessionInv /\ FirstMutationsInOrder /\ OnlySecondMutationsAreStale

-----------------------------------------------------------------------------
(* The worker.                                                             *)

\* A request that is turned down as stale is a mutation whose stamp is not
\* newer than the worker's.
LEMMA StaleRequest ==
  ASSUME SessionInv, Serve, reply'.code = "STALE_OPERATION"
  PROVE  LET c == Head(toWorker)
         IN call[c].stage \in MutationStage /\ ~Fresh(StampOf(c))
<1> DEFINE c == Head(toWorker)
           r == call[c]
           stamp == StampOf(c)
<1>1. \A code, value :
        reply' \in {Ok(value), Busy, Reject("NOT_INITIALIZED"),
                    Reject("ILLEGAL_MOVE"), Reject("INTERNAL_ERROR")}
          => reply'.code # "STALE_OPERATION"
  BY DEF Ok, Busy, Reject
<1>2. ~RejectUninitialized
  BY <1>1 DEF RejectUninitialized
<1>3. ASSUME NEW legal, NEW next, Advance(legal, next)
      PROVE  FALSE
  BY <1>1, <1>3 DEF Advance
<1>4. CASE r.stage = "init" /\ InitWorker(r.seed, stamp)
  BY <1>1, <1>4 DEF InitWorker, RejectStale, InitState, SetupThrows, MutationStage
<1>5. CASE r.stage = "playSequence" /\ PlaySequence(r.moves, stamp)
  BY <1>1, <1>2, <1>5 DEF PlaySequence, RejectStale, MutationStage
<1>6. CASE r.stage = "applyDecision" /\ WorkerApplyDecision(r.decision, stamp)
  BY <1>2, <1>3, <1>6 DEF WorkerApplyDecision, RejectStale, MutationStage
<1>7. CASE /\ r.stage = "rewindToTurnBoundary"
           /\ RewindToTurnBoundary(r.turnId, stamp)
  BY <1>1, <1>7 DEF RewindToTurnBoundary, RejectStale, MutationStage
<1>8. CASE r.stage = "undo" /\ Undo(stamp)
  BY <1>1, <1>8 DEF Undo, RejectStale, MutationStage
<1>9. ~\E method : Read(method)
  BY <1>1 DEF Read
<1>10. ~ReplayStep
  BY <1>1 DEF ReplayStep
<1> QED BY <1>4, <1>5, <1>6, <1>7, <1>8, <1>9, <1>10 DEF Serve

\* A first mutation is newer than the stamp the worker has.
LEMMA FirstIsFresh ==
  ASSUME StampInv, NEW c \in Call, FirstRequest(c)
  PROVE  Fresh(StampOf(c))
<1>1. call[c] \in CallRecord /\ latestStamp \in Stamp \cup {Null}
  BY DEF StampInv, SessionInv, SessionTypeOK, WorkerTypeOK
<1>2. latestStamp # Null => Older(latestStamp, call[c])
  BY DEF StampInv, FirstMutationsInOrder
<1> QED BY <1>1, <1>2 DEF Fresh, Newer, StampOf, Older, CallRecord, Stamp

\* Serving a request keeps the order of the first mutations.
LEMMA ServeKeepsOrder ==
  ASSUME StampInv, Serve
  PROVE  FirstMutationsInOrder' /\ OnlySecondMutationsAreStale'
<1> DEFINE c == Head(toWorker)
<1>1. /\ toWorker # <<>> /\ Settle(c) /\ ServeEffect(c)
      /\ c \in Call /\ c \in Queued(toWorker) /\ InFlight(c)
      /\ call \in [Call -> CallRecord] /\ toWorker \in Seq(Call)
      /\ \A i, j \in 1..Len(toWorker) : toWorker[i] = toWorker[j] => i = j
  BY ServeHasItsEffect, ServedRequest
     DEF Serve, StampInv, SessionInv, SessionTypeOK, ChannelOK
<1>2. \/ reply'.code = "busy" /\ call' = call /\ toWorker' = toWorker
      \/ /\ reply'.code # "busy" /\ call' = [call EXCEPT ![c].result = reply']
         /\ toWorker' = Tail(toWorker)
  BY <1>1 DEF Settle
<1>3. \A b \in Call :
        /\ call'[b].stage = call[b].stage /\ call'[b].steps = call[b].steps
        /\ call'[b].epoch = call[b].epoch /\ call'[b].token = call[b].token
        /\ b # c => call'[b] = call[b]
  <2>1. CASE call' = call
    BY <2>1
  <2>2. CASE call' = [call EXCEPT ![c].result = reply']
    <3>1. \A b \in Call : b # c => call'[b] = call[b]
      BY <1>1, <2>2
    <3>2. call'[c] = [call[c] EXCEPT !.result = reply'] /\ call[c] \in CallRecord
      BY <1>1, <2>2
    <3>3. /\ call'[c].stage = call[c].stage /\ call'[c].steps = call[c].steps
          /\ call'[c].epoch = call[c].epoch /\ call'[c].token = call[c].token
      BY <3>2 DEF CallRecord
    <3> QED BY <3>1, <3>3
  <2> QED BY <1>2, <2>1, <2>2
<1>4. \A b \in Call : (First(call[b])' <=> First(call[b])) /\ (InFlight(b)' <=> InFlight(b))
  BY <1>3 DEF First, InFlight
<1>5. /\ c = toWorker[1] /\ 1 \in 1..Len(toWorker) /\ Len(toWorker) \in Nat
      /\ \A i \in 1..Len(toWorker)' :
           \E j \in 1..Len(toWorker) :
             /\ toWorker'[i] = toWorker[j]
             /\ reply'.code = "busy" => j = i
             /\ reply'.code # "busy" => j = i + 1
  BY <1>1, <1>2
<1>6. \A b \in Call : b \in Queued(toWorker)' => b \in Queued(toWorker)
  BY <1>5 DEF Queued
<1>7. reply'.code # "busy" => c \notin Queued(toWorker)'
  BY <1>1, <1>5 DEF Queued
<1>8. \A b \in Call : b # c /\ b \in Queued(toWorker) => b \in Queued(toWorker)'
  <2>1. Queued(toWorker)' = Queued(toWorker')
    BY DEF Queued
  <2> QED BY <1>1, <1>2, <2>1, QueuedTail
<1>9. reply'.code = "busy" => ~First(call[c])
  BY <1>1 DEF ServeEffect, First
<1>10. \A b \in Call : FirstRequest(b)' <=> FirstRequest(b) /\ b # c
  BY <1>1, <1>4, <1>6, <1>7, <1>8, <1>9 DEF FirstRequest
\* The request being served is of an older call than those behind it.
<1>11. \A b \in Call : FirstRequest(b)' => Older(call[c], call[b])
  <2> SUFFICES ASSUME NEW b \in Call, FirstRequest(b), b # c
               PROVE  Older(call[c], call[b])
    BY <1>10
  <2>1. CASE First(call[c])
    <3>1. PICK j \in 1..Len(toWorker) : toWorker[j] = b
      BY DEF FirstRequest, Queued
    <3>2. 1 < j
      BY <1>5, <3>1
    <3> QED BY <1>5, <2>1, <3>1, <3>2
            DEF StampInv, FirstMutationsInOrder, FirstRequest
  <2>2. CASE ~First(call[c])
    BY <1>1, <2>2 DEF StampInv, FirstMutationsInOrder, FirstRequest
  <2> QED BY <2>1, <2>2
<1>12. latestStamp' \in {latestStamp, StampOf(c)}
  BY <1>1 DEF ServeEffect
<1>13. ASSUME NEW b \in Call, FirstRequest(b)'
       PROVE  /\ latestStamp' # Null => Older(latestStamp', call'[b])
              /\ call'[b].token > 0
              /\ \A e \in Call : InFlight(e)' /\ ~FirstRequest(e)'
                                   => Older(call'[e], call'[b])
  <2>1. FirstRequest(b) /\ Older(call[c], call[b])
    BY <1>10, <1>11, <1>13
  <2>2. latestStamp' # Null => Older(latestStamp', call[b])
    BY <1>12, <2>1 DEF StampInv, FirstMutationsInOrder, StampOf, Older
  <2>3. \A e \in Call : InFlight(e) /\ (~FirstRequest(e) \/ e = c)
                          => Older(call[e], call[b])
    BY <2>1 DEF StampInv, FirstMutationsInOrder
  <2>4. call[b].token > 0
    BY <2>1 DEF StampInv, FirstMutationsInOrder
  <2> QED BY <1>3, <1>4, <1>10, <2>2, <2>3, <2>4 DEF Older
<1>14. ASSUME NEW i \in 1..Len(toWorker'), NEW j \in 1..Len(toWorker'), i < j,
              First(call'[toWorker'[i]]), First(call'[toWorker'[j]])
       PROVE  Older(call'[toWorker'[i]], call'[toWorker'[j]])
  <2>1. PICK k \in 1..Len(toWorker), l \in 1..Len(toWorker) :
          /\ toWorker'[i] = toWorker[k] /\ toWorker'[j] = toWorker[l] /\ k < l
    <3>1. i \in 1..Len(toWorker)' /\ j \in 1..Len(toWorker)' /\ i < j
      BY <1>14
    <3>2. CASE reply'.code = "busy"
      BY <1>5, <3>1, <3>2
    <3>3. CASE reply'.code # "busy"
      <4>1. PICK k \in 1..Len(toWorker) : toWorker'[i] = toWorker[k] /\ k = i + 1
        BY <1>5, <3>1, <3>3
      <4>2. PICK l \in 1..Len(toWorker) : toWorker'[j] = toWorker[l] /\ l = j + 1
        BY <1>5, <3>1, <3>3
      <4> QED BY <3>1, <4>1, <4>2
    <3> QED BY <3>2, <3>3
  <2>2. toWorker[k] \in Call /\ toWorker[l] \in Call
    BY <1>1
  <2>3. Older(call[toWorker[k]], call[toWorker[l]])
    BY <1>3, <1>14, <2>1, <2>2 DEF StampInv, FirstMutationsInOrder, First
  <2> QED BY <1>3, <2>1, <2>2, <2>3 DEF Older
<1>15. FirstMutationsInOrder'
  BY <1>13, <1>14 DEF FirstMutationsInOrder, First
<1>16. OnlySecondMutationsAreStale'
  <2> SUFFICES ASSUME NEW b \in Call, call'[b].result.code = "STALE_OPERATION"
               PROVE  call'[b].stage = "playSequence" \/ call'[b].steps > 0
    BY DEF OnlySecondMutationsAreStale
  <2>1. CASE call'[b] = call[b]
    BY <2>1 DEF StampInv, OnlySecondMutationsAreStale
  <2>2. CASE call'[b] # call[b]
    <3>1. b = c /\ reply'.code = "STALE_OPERATION"
      BY <1>1, <1>2, <1>3, <2>2 DEF CallRecord
    <3>2. ~First(call[c]) /\ call[c].stage \in MutationStage
      BY <1>1, <3>1, StaleRequest, FirstIsFresh DEF StampInv, FirstRequest
    <3>3. call[c].steps \in Nat
      BY <1>1 DEF CallRecord
    <3> QED BY <1>3, <3>1, <3>2, <3>3 DEF First
  <2> QED BY <2>1, <2>2
<1> QED BY <1>15, <1>16

-----------------------------------------------------------------------------
(* The store.                                                              *)

\* A request posted by a store action is the first mutation of an operation
\* that begins with it, or is none and belongs to no operation or to one that
\* was in flight already.
Posts(c) ==
  LET r == call'[c]
  IN  r.stage \in Awaiting =>
        \/ First(r) /\ operationToken' = operationToken + 1
        \/ /\ ~First(r) /\ operationToken' = operationToken
           /\ InFlight(c) \/ (r.epoch = 0 /\ r.token = 0)

\* What a call posts when it begins is as Posts says.
LEMMA BeginPosts ==
  ASSUME SessionInv, NEW c \in Call, Begin(c)
  PROVE  Posts(c)
<1>1. call \in [Call -> CallRecord]
  BY DEF SessionInv, SessionTypeOK
<1>2. \A kind, stage : Started(kind, stage).stage = stage
                       /\ Started(kind, stage).steps = 0
  BY DEF Started, NoCall
<1>3. {"done", "rejected"} \cap Awaiting = {}
  BY DEF Awaiting, MutationStage
<1>4. {"init", "applyDecision", "rewindToTurnBoundary", "undo"}
        = MutationStage \ {"playSequence"}
  BY DEF MutationStage
<1>5. ASSUME NEW isInit, BeginOperation(c, isInit),
             NEW r, call' = [call EXCEPT ![c] = r],
             r.stage \in MutationStage \ {"playSequence"}, r.steps = 0
      PROVE  Posts(c)
  <2>1. call'[c] = r
    BY <1>1, <1>5
  <2> QED BY <1>5, <2>1 DEF Posts, First, BeginOperation
<1>6. ASSUME NEW kind, NEW seed, NEW moves, StartInit(c, kind, seed, moves)
      PROVE  Posts(c)
  <2>1. CASE call' = [call EXCEPT ![c] =
               [Started(kind, "init") EXCEPT !.seed = seed, !.moves = moves]]
    <3> DEFINE r == [Started(kind, "init") EXCEPT !.seed = seed, !.moves = moves]
    <3>1. r.stage = "init" /\ r.steps = 0
      BY DEF Started, NoCall
    <3>2. call' = [call EXCEPT ![c] = r] /\ BeginOperation(c, TRUE)
      BY <1>6, <2>1 DEF StartInit
    <3> HIDE DEF r
    <3> QED BY <1>4, <1>5, <3>1, <3>2
  <2>2. CASE call' = [call EXCEPT ![c] = Started(kind, "rejected")]
    <3>1. call'[c].stage = "rejected"
      BY <1>1, <1>2, <2>2
    <3> QED BY <1>3, <3>1 DEF Posts
  <2> QED BY <1>6, <2>1, <2>2 DEF StartInit, Post
<1>7. ASSUME NEW kind, NEW d, BeginOperation(c, FALSE),
             Post(c, [Started(kind, "applyDecision") EXCEPT !.decision = d])
      PROVE  Posts(c)
  <2> DEFINE r == [Started(kind, "applyDecision") EXCEPT !.decision = d]
  <2>1. r.stage = "applyDecision" /\ r.steps = 0
    BY DEF Started, NoCall
  <2>2. call' = [call EXCEPT ![c] = r]
    BY <1>7 DEF Post
  <2> HIDE DEF r
  <2> QED BY <1>4, <1>5, <1>7, <2>1, <2>2
<1>8. ASSUME NEW kind, NEW shownError, FinishAtOnce(c, kind, shownError)
      PROVE  Posts(c)
  <2>1. call'[c].stage = "done"
    BY <1>1, <1>8 DEF FinishAtOnce, NoCall
  <2> QED BY <1>3, <2>1 DEF Posts
<1>9. ASSUME NEW seed, \/ InitGame(c, seed)
                       \/ \E moves \in Histories :
                            InitGameFromHistory(c, seed, moves)
      PROVE  Posts(c)
  BY <1>6, <1>9 DEF InitGame, InitGameFromHistory
<1>10. ASSUME NEW d, SubmitDecision(c, d)
       PROVE  Posts(c)
  BY <1>7, <1>10 DEF SubmitDecision
<1>11. ASSUME SubmitBlockedSelection(c)
       PROVE  Posts(c)
  <2>1. /\ call'[c].stage = "describeAction"
        /\ call'[c].epoch = 0 /\ call'[c].token = 0
        /\ operationToken' = operationToken
    BY <1>1, <1>11 DEF SubmitBlockedSelection, Post, NoCall
  <2> QED BY <1>4, <2>1 DEF Posts, First
<1>12. ASSUME NEW kind, StartAi(c, kind)
       PROVE  Posts(c)
  BY <1>7, <1>8, <1>12 DEF StartAi
<1>13. ASSUME StartRewind(c)
       PROVE  Posts(c)
  <2>1. CASE FinishAtOnce(c, "rewindToCurrentTurnStart", error)
    BY <1>8, <2>1
  <2>2. CASE /\ BeginOperation(c, FALSE)
             /\ Post(c, [Started("rewindToCurrentTurnStart",
                                 "rewindToTurnBoundary")
                         EXCEPT !.turnId = NextTurnId(view.microturn)])
    <3> DEFINE r == [Started("rewindToCurrentTurnStart", "rewindToTurnBoundary")
                     EXCEPT !.turnId = NextTurnId(view.microturn)]
    <3>1. r.stage = "rewindToTurnBoundary" /\ r.steps = 0
      BY DEF Started, NoCall
    <3>2. call' = [call EXCEPT ![c] = r] /\ BeginOperation(c, FALSE)
      BY <2>2 DEF Post
    <3> HIDE DEF r
    <3> QED BY <1>4, <1>5, <3>1, <3>2
  <2> QED BY <1>13, <2>1, <2>2 DEF StartRewind
<1>14. ASSUME StartUndo(c)
       PROVE  Posts(c)
  <2> DEFINE r == Started("undo", "undo")
  <2>1. r.stage = "undo" /\ r.steps = 0
    BY <1>2
  <2>2. call' = [call EXCEPT ![c] = r] /\ BeginOperation(c, FALSE)
    BY <1>14 DEF StartUndo, Post
  <2> HIDE DEF r
  <2> QED BY <1>4, <1>5, <2>1, <2>2
<1> QED BY <1>9, <1>10, <1>11, <1>12, <1>13, <1>14 DEF Begin

\* What a call posts when it continues is as Posts says.
LEMMA ResumePosts ==
  ASSUME SessionInv, NEW c \in Call, Resume(c)
  PROVE  Posts(c)
<1>1. call \in [Call -> CallRecord] /\ call[c] \in CallRecord
  BY DEF SessionInv, SessionTypeOK
<1>2. "done" \notin Awaiting
  BY DEF Awaiting, MutationStage
<1>3. \A stage \in Awaiting : Receive(c, stage) => InFlight(c)
  BY DEF Receive, InFlight
<1>4. ASSUME FinishOperation(c, "done")
      PROVE  Posts(c)
  <2>1. call'[c].stage = "done"
    BY <1>1, <1>4 DEF FinishOperation, Finished, NoCall
  <2> QED BY <1>2, <2>1 DEF Posts
<1>5. ASSUME NEW code, Fail(c, code)
      PROVE  Posts(c)
  BY <1>4, <1>5 DEF Fail
<1>6. ASSUME InFlight(c), operationToken' = operationToken,
             NEW stage \in (Awaiting \ MutationStage) \cup {"playSequence"},
             NEW got, Await(c, stage, got)
      PROVE  Posts(c)
  <2>1. call'[c].stage = stage
    BY <1>1, <1>6 DEF Await, Post, CallRecord
  <2> QED BY <1>6, <2>1 DEF Posts, First
<1>7. ASSUME InFlight(c), operationToken' = operationToken, NEW shown,
             Commit(c, shown)
      PROVE  Posts(c)
  <2>1. CASE FinishOperation(c, "done")
    BY <1>4, <2>1
  <2>2. ASSUME NEW d, NEW next,
               Post(c, [call[c] EXCEPT !.stage = "applyDecision", !.decision = d,
                                       !.lifecycle = next,
                                       !.steps = @ + 1, !.got = NoView,
                                       !.result = Ok(Null)])
        PROVE  Posts(c)
    <3>1. call'[c].steps = call[c].steps + 1 /\ call[c].steps \in Nat
      BY <1>1, <2>2 DEF Post, CallRecord
    <3>2. call'[c].steps # 0
      BY <3>1
    <3> QED BY <1>7, <3>2 DEF Posts, First
  <2> QED BY <1>5, <1>7, <2>1, <2>2 DEF Commit, ContinueAiTurn
<1>8. {"getState", "terminalResult", "publishMicroturn", "describeAction"}
        \subseteq Awaiting \ MutationStage
  BY DEF Awaiting, MutationStage
<1>9. MutationStage \subseteq Awaiting
  BY DEF Awaiting
<1>10. "init" \in MutationStage /\ "playSequence" \in MutationStage
  BY DEF MutationStage
<1>11. CASE ReceiveRejection(c)
  BY <1>5, <1>11 DEF ReceiveRejection
<1>12. CASE ReceiveMutation(c)
  BY <1>3, <1>4, <1>6, <1>8, <1>9, <1>12 DEF ReceiveMutation
<1>13. CASE ReceiveInit(c)
  BY <1>3, <1>6, <1>8, <1>9, <1>10, <1>13 DEF ReceiveInit
<1>14. CASE ReceiveTerminalResult(c)
  BY <1>3, <1>6, <1>7, <1>8, <1>14 DEF ReceiveTerminalResult
<1>15. CASE ReceiveMicroturn(c)
  BY <1>3, <1>6, <1>7, <1>8, <1>15 DEF ReceiveMicroturn
<1>16. CASE ReceiveDescriptions(c)
  BY <1>3, <1>7, <1>8, <1>16 DEF ReceiveDescriptions
<1>17. CASE ReceiveBlockedDescription(c)
  <2>1. call'[c].stage = "done"
    BY <1>1, <1>17 DEF ReceiveBlockedDescription, Finished, NoCall
  <2> QED BY <1>2, <2>1 DEF Posts
<1> QED BY <1>11, <1>12, <1>13, <1>14, <1>15, <1>16, <1>17 DEF Resume

\* A step of the store posts nothing that is out of order.
LEMMA StoreKeepsOrder ==
  ASSUME StampInv, NEW c \in Call, NEW r, StoreStep(c, r), Posts(c)
  PROVE  FirstMutationsInOrder' /\ OnlySecondMutationsAreStale'
<1>1. /\ SessionInv /\ FirstMutationsInOrder /\ OnlySecondMutationsAreStale
      /\ call \in [Call -> CallRecord] /\ toWorker \in Seq(Call)
      /\ sessionEpoch \in Nat /\ operationToken \in Nat
  BY DEF StampInv, SessionInv, SessionTypeOK
<1>2. /\ r \in CallRecord /\ r.result = Ok(Null) /\ call'[c] = r
      /\ \A b \in Call : b # c => call'[b] = call[b]
      /\ latestStamp' = latestStamp
  BY <1>1 DEF StoreStep, workerVars
<1>3. c \notin Queued(toWorker)
  <2>1. c \in Queued(toWorker) => InFlight(c)
    BY <1>1 DEF SessionInv, SessionTypeOK, ChannelOK
  <2>2. toStore # <<>> => Head(toStore) \in Queued(toStore)
    BY <1>1, QueuedTail DEF SessionInv, SessionTypeOK, ChannelOK
  <2>3. Queued(toWorker) \cap Queued(toStore) = {}
    BY <1>1 DEF SessionInv, SessionTypeOK, ChannelOK
  <2> QED BY <2>1, <2>2, <2>3 DEF StoreStep, Leaves
<1>4. \/ /\ r.stage \in Awaiting
         /\ toWorker' = Append(toWorker, c)
         /\ Queued(toWorker') = Queued(toWorker) \cup {c}
      \/ /\ r.stage \notin Awaiting /\ toWorker' = toWorker
  BY <1>1, QueuedAppend DEF StoreStep
<1>5. Queued(toWorker)' = Queued(toWorker')
  BY DEF Queued
<1>6. First(r) => r.stage \in Awaiting
  BY DEF First, Awaiting
<1>7. \A b \in Call : FirstRequest(b)' <=> IF b = c THEN First(r)
                                                 ELSE FirstRequest(b)
  <2>1. \A b \in Call : FirstRequest(b)' <=> b \in Queued(toWorker)'
                                              /\ First(call'[b])
    BY DEF FirstRequest, First
  <2> QED BY <1>2, <1>3, <1>4, <1>5, <1>6, <2>1 DEF FirstRequest
<1>8. \A b \in Call : InFlight(b)' <=> IF b = c THEN r.stage \in Awaiting
                                             ELSE InFlight(b)
  BY <1>2 DEF InFlight
\* A call that begins is newer than whatever there was.
<1>9. First(r) =>
        /\ r.token > 0
        /\ latestStamp # Null => Older(latestStamp, r)
        /\ \A e \in Call : Older(call[e], r)
  <2> SUFFICES ASSUME First(r)
               PROVE  /\ r.token > 0
                      /\ latestStamp # Null => Older(latestStamp, r)
                      /\ \A e \in Call : Older(call[e], r)
    OBVIOUS
  <2>1. operationToken' = operationToken + 1
    BY <1>2, <1>6 DEF Posts
  <2>2. Begins(c, r)
    BY <1>1, <1>6, <2>1 DEF StoreStep, GoesOnOrEnds, Asks
  <2>3. /\ r.token = operationToken + 1
        /\ r.epoch \in {sessionEpoch, sessionEpoch + 1}
    BY <2>1, <2>2 DEF Begins
  <2>4. \A e \in Call : /\ call[e].epoch <= sessionEpoch
                         /\ call[e].token <= operationToken
                         /\ call[e].epoch \in Nat /\ call[e].token \in Nat
    BY <1>1 DEF SessionInv, OperationsInv, StampsInOrder, CallRecord
  <2>5. latestStamp # Null => /\ latestStamp.epoch <= sessionEpoch
                              /\ latestStamp.token <= operationToken
                              /\ latestStamp \in Stamp
    BY <1>1 DEF SessionInv, OperationsInv, StampsInOrder, WorkerTypeOK
  <2> QED BY <1>1, <2>3, <2>4, <2>5 DEF Older, Stamp
\* A request that begins nothing is no newer than its call was.
<1>10. ASSUME r.stage \in Awaiting, ~First(r), NEW b \in Call, FirstRequest(b)
       PROVE  Older(r, call[b])
  <2>1. /\ operationToken' = operationToken
        /\ InFlight(c) \/ (r.epoch = 0 /\ r.token = 0)
    BY <1>2, <1>10 DEF Posts
  <2>2. \/ r.epoch = call[c].epoch /\ r.token = call[c].token
        \/ r.epoch = 0 /\ r.token = 0
    BY <1>1, <2>1 DEF StoreStep, Begins, GoesOnOrEnds, Asks
  <2>3. CASE r.epoch = 0 /\ r.token = 0
    <3>1. call[b].token > 0 /\ call[b].epoch \in Nat
      BY <1>1, <1>10 DEF FirstMutationsInOrder, CallRecord
    <3> QED BY <2>3, <3>1 DEF Older
  <2>4. CASE InFlight(c) /\ r.epoch = call[c].epoch /\ r.token = call[c].token
    <3>1. Older(call[c], call[b])
      BY <1>1, <1>3, <1>10, <2>4 DEF FirstMutationsInOrder, FirstRequest
    <3> QED BY <2>4, <3>1 DEF Older
  <2> QED BY <2>1, <2>2, <2>3, <2>4
<1>11. ASSUME NEW b \in Call, FirstRequest(b)'
       PROVE  /\ latestStamp' # Null => Older(latestStamp', call'[b])
              /\ call'[b].token > 0
              /\ \A e \in Call : InFlight(e)' /\ ~FirstRequest(e)'
                                   => Older(call'[e], call'[b])
  <2>1. CASE b = c
    BY <1>2, <1>7, <1>9, <1>11, <2>1
  <2>2. CASE b # c
    <3>1. FirstRequest(b) /\ call'[b] = call[b]
      BY <1>2, <1>7, <1>11, <2>2
    <3>2. /\ latestStamp # Null => Older(latestStamp, call[b])
          /\ call[b].token > 0
          /\ \A e \in Call : InFlight(e) /\ ~FirstRequest(e)
                               => Older(call[e], call[b])
      BY <1>1, <3>1 DEF FirstMutationsInOrder
    <3>3. \A e \in Call : InFlight(e)' /\ ~FirstRequest(e)'
                             => Older(call'[e], call[b])
      BY <1>2, <1>7, <1>8, <1>10, <3>1, <3>2
    <3> QED BY <1>2, <3>1, <3>2, <3>3
  <2> QED BY <2>1, <2>2
<1>12. ASSUME NEW i \in 1..Len(toWorker'), NEW j \in 1..Len(toWorker'), i < j,
              First(call'[toWorker'[i]]), First(call'[toWorker'[j]])
       PROVE  Older(call'[toWorker'[i]], call'[toWorker'[j]])
  <2>1. \A k \in 1..Len(toWorker) :
          /\ toWorker[k] \in Call /\ toWorker[k] # c
          /\ call'[toWorker[k]] = call[toWorker[k]]
    BY <1>1, <1>2, <1>3 DEF Queued
  <2>2. \A k, l \in 1..Len(toWorker) :
          k < l /\ First(call'[toWorker[k]]) /\ First(call'[toWorker[l]])
            => Older(call'[toWorker[k]], call'[toWorker[l]])
    BY <1>1, <2>1 DEF FirstMutationsInOrder
  <2>3. CASE toWorker' = toWorker
    BY <1>12, <2>2, <2>3
  <2>4. CASE toWorker' = Append(toWorker, c)
    <3>1. /\ Len(toWorker) \in Nat /\ Len(toWorker') = Len(toWorker) + 1
          /\ toWorker'[Len(toWorker) + 1] = c
          /\ \A k \in 1..Len(toWorker) : toWorker'[k] = toWorker[k]
      BY <1>1, <2>4
    <3>2. i \in 1..Len(toWorker) /\ (j \in 1..Len(toWorker) \/ j = Len(toWorker) + 1)
      BY <1>12, <3>1
    <3>3. CASE j \in 1..Len(toWorker)
      BY <1>12, <2>2, <3>1, <3>2, <3>3
    <3>4. CASE j = Len(toWorker) + 1
      BY <1>2, <1>9, <1>12, <2>1, <3>1, <3>2, <3>4
    <3> QED BY <3>2, <3>3, <3>4
  <2> QED BY <1>4, <2>3, <2>4
<1>13. FirstMutationsInOrder'
  BY <1>11, <1>12 DEF FirstMutationsInOrder, First
<1>14. OnlySecondMutationsAreStale'
  <2>1. call'[c].result.code # "STALE_OPERATION"
    BY <1>2 DEF Ok
  <2> QED BY <1>1, <1>2, <2>1 DEF OnlySecondMutationsAreStale
<1> QED BY <1>13, <1>14

-----------------------------------------------------------------------------
(* The theorem.                                                            *)

\* A step that posts and serves nothing keeps the order.
LEMMA QuietStepKeepsOrder ==
  ASSUME StampInv, UNCHANGED <<latestStamp, call, toWorker>>
  PROVE  FirstMutationsInOrder' /\ OnlySecondMutationsAreStale'
<1>1. \A b \in Call : (FirstRequest(b)' <=> FirstRequest(b))
                       /\ (InFlight(b)' <=> InFlight(b))
  BY DEF FirstRequest, InFlight, Queued, First
<1> QED BY <1>1 DEF StampInv, FirstMutationsInOrder, First, Older,
                    OnlySecondMutationsAreStale

\* However the store's actions overlap, the worker turns down no operation's
\* first mutation as stale (OnlySecondMutationsAreStale).
THEOREM FirstMutationsAreNeverStale == Spec => []OnlySecondMutationsAreStale
<1>1. Init => FirstMutationsInOrder /\ OnlySecondMutationsAreStale
  <2> SUFFICES ASSUME Init
               PROVE  FirstMutationsInOrder /\ OnlySecondMutationsAreStale
    OBVIOUS
  <2>1. \A c \in Call : call[c] = NoCall
    BY DEF Init, StoreInit
  <2>2. Queued(toWorker) = {} /\ Len(toWorker) = 0
    BY DEF Init, StoreInit, Queued
  <2>3. NoCall.result.code # "STALE_OPERATION"
    BY DEF NoCall, Ok
  <2> QED BY <2>1, <2>2, <2>3 DEF FirstMutationsInOrder, FirstRequest,
                                  OnlySecondMutationsAreStale
<1>2. StampInv /\ SessionInv' /\ [Next]_vars => StampInv'
  <2> SUFFICES ASSUME StampInv, SessionInv', [Next]_vars
               PROVE  FirstMutationsInOrder' /\ OnlySecondMutationsAreStale'
    BY DEF StampInv
  <2>1. CASE Serve
    BY <2>1, ServeKeepsOrder
  <2>2. ASSUME NEW c \in Call, Begin(c) \/ Resume(c)
        PROVE  FirstMutationsInOrder' /\ OnlySecondMutationsAreStale'
    <3>1. SessionInv
      BY DEF StampInv
    <3>2. Posts(c)
      BY <2>2, <3>1, BeginPosts, ResumePosts
    <3>3. PICK r : StoreStep(c, r)
      BY <2>2, <3>1, CallStep
    <3> QED BY <3>2, <3>3, StoreKeepsOrder
  <2>3. CASE Outside
    BY <2>3, QuietStepKeepsOrder
       DEF Outside, CanvasCrash, CanvasRecovered, ReportBootstrapFailure,
           ClearError, outsideVars, workerVars
  <2>4. CASE UNCHANGED vars
    BY <2>4, QuietStepKeepsOrder DEF vars, workerVars, storeVars
  <2> QED BY <2>1, <2>2, <2>3, <2>4 DEF Next
<1>3. StampInv => OnlySecondMutationsAreStale
  BY DEF StampInv
<1>4. Init /\ SessionInv => StampInv
  BY <1>1 DEF StampInv
<1> QED BY <1>2, <1>3, <1>4, SessionInvariant, PTL DEF Spec

-----------------------------------------------------------------------------
(* Second mutations.  The worker admits one mutation under the stamp of an *)
(* operation.  What that means for the two actions that ask for more than  *)
(* one: a resume never replays its moves and an AI turn never gets past    *)
(* its first decision, in any game and however the actions overlap.        *)

\* A request for a second mutation under the stamp of its operation: the moves
\* of a resume after its init, the later decisions of an AI turn.
Second(r) == r.stage = "playSequence" \/ r.steps > 0

\* The worker has admitted a mutation of the operation of c.
Admitted(c) ==
  \/ Second(call[c])
  \/ /\ call[c].kind # "submitBlockedSelection"
     /\ \/ call[c].stage \notin MutationStage
        \/ c \in Queued(toStore) /\ Succeeded(c)

\* Its stamp is spent.
SpentStamp(c) == latestStamp # Null /\ ~Fresh(StampOf(c))

\* What is true of a call in flight
OneMutation(c) ==
  /\ call[c].steps = 0 \/ (call[c].steps = 1 /\ call[c].stage = "applyDecision")
  /\ call[c].kind = "initGameFromHistory" /\ call[c].stage \notin {"init", "playSequence"}
       => call[c].moves = <<>>
  /\ Second(call[c]) /\ c \in Queued(toStore) => ~Succeeded(c)
  /\ Admitted(c) => SpentStamp(c)

OneMutationInv ==
  /\ Available
  /\ \A c \in Call : InFlight(c) => OneMutation(c)

\* The stages that follow one another as the replies arrive
Follows(q, r) ==
  \/ /\ q.stage \in MutationStage \cup {"getState"}
     /\ q.stage # "playSequence" /\ (q.stage = "init" => q.kind # "initGameFromHistory")
     /\ r.stage = "terminalResult"
  \/ /\ q.stage = "init"
     /\ r.stage = IF q.moves = <<>> THEN "getState" ELSE "playSequence"
  \/ q.stage = "playSequence" /\ r.stage = "getState"
  \/ q.stage = "terminalResult" /\ r.stage = "publishMicroturn"
  \/ q.stage = "publishMicroturn" /\ r.stage = "describeAction"

\* A call continues after a reply: to its next await, or to the next decision of
\* its AI turn.
Continues(c, r) ==
  /\ InFlight(c) /\ c \in Queued(toStore) /\ Succeeded(c)
  /\ r.kind = call[c].kind /\ r.moves = call[c].moves
  /\ r.epoch = call[c].epoch /\ r.token = call[c].token
  /\ \/ r.steps = call[c].steps /\ Follows(call[c], r)
     \/ /\ r.steps = call[c].steps + 1 /\ r.stage = "applyDecision"
        /\ r.kind = "resolveAiTurn"
        /\ call[c].stage \notin MutationStage \cup {"getState"}

\* A call begins with a request of its own.
Opens(c, r) ==
  /\ ~InFlight(c) /\ r.steps = 0
  /\ r.kind = "initGameFromHistory" => r.stage = "init"
  /\ \/ First(r)
     \/ r.stage = "describeAction" /\ r.kind = "submitBlockedSelection"

\* A call that begins is at its first request, if it makes one.
LEMMA BeginOpens ==
  ASSUME SessionInv, NEW c \in Call, Begin(c), call'[c].stage \in Awaiting
  PROVE  Opens(c, call'[c])
<1>1. call \in [Call -> CallRecord]
  BY DEF SessionInv, SessionTypeOK
<1>2. \A kind, stage : Started(kind, stage).stage = stage
                       /\ Started(kind, stage).steps = 0
  BY DEF Started, NoCall
<1>3. {"done", "rejected"} \cap Awaiting = {} /\ "none" \notin Awaiting
  BY DEF Awaiting, MutationStage
<1>4. ~InFlight(c)
  BY <1>3 DEF Begin, InitGame, InitGameFromHistory, StartInit, SubmitDecision,
              SubmitBlockedSelection, StartAi, StartRewind, StartUndo, NextCall, InFlight
<1>5. {"init", "applyDecision", "rewindToTurnBoundary", "undo"}
        = MutationStage \ {"playSequence"}
  BY DEF MutationStage
<1>6. ASSUME NEW r, call' = [call EXCEPT ![c] = r], r.steps = 0,
             r.kind = "initGameFromHistory" => r.stage = "init",
             r.stage \in {"init", "applyDecision", "rewindToTurnBoundary", "undo"}
      PROVE  Opens(c, call'[c])
  <2>1. call'[c] = r
    BY <1>1, <1>6
  <2> QED BY <1>4, <1>5, <1>6, <2>1 DEF Opens, First
<1>7. ASSUME NEW kind, NEW shownError, FinishAtOnce(c, kind, shownError) PROVE FALSE
  <2>1. call'[c].stage = "done"
    BY <1>1, <1>7 DEF FinishAtOnce, NoCall
  <2> QED BY <1>3, <2>1
<1>8. ASSUME NEW kind, NEW seed, NEW moves, StartInit(c, kind, seed, moves)
      PROVE  Opens(c, call'[c])
  <2> DEFINE r == [Started(kind, "init") EXCEPT !.seed = seed, !.moves = moves]
  <2>1. \/ call' = [call EXCEPT ![c] = r]
        \/ call' = [call EXCEPT ![c] = Started(kind, "rejected")]
    BY <1>8 DEF StartInit, Post
  <2>2. r.stage = "init" /\ r.steps = 0
    BY DEF Started, NoCall
  <2> HIDE DEF r
  <2>3. call' # [call EXCEPT ![c] = Started(kind, "rejected")]
    BY <1>1, <1>2, <1>3
  <2> QED BY <1>6, <2>1, <2>2, <2>3
<1>9. ASSUME NEW kind \in AiKind \cup {"submitDecision"}, NEW d,
             Post(c, [Started(kind, "applyDecision") EXCEPT !.decision = d])
      PROVE  Opens(c, call'[c])
  <2> DEFINE r == [Started(kind, "applyDecision") EXCEPT !.decision = d]
  <2>1. r.stage = "applyDecision" /\ r.steps = 0 /\ r.kind # "initGameFromHistory"
    BY DEF Started, NoCall, AiKind
  <2>2. call' = [call EXCEPT ![c] = r]
    BY <1>9 DEF Post
  <2> HIDE DEF r
  <2> QED BY <1>6, <2>1, <2>2
<1>10. CASE SubmitBlockedSelection(c)
  <2>1. /\ call'[c].stage = "describeAction" /\ call'[c].steps = 0
        /\ call'[c].kind = "submitBlockedSelection"
    BY <1>1, <1>10 DEF SubmitBlockedSelection, Post, NoCall
  <2> QED BY <1>4, <2>1 DEF Opens
<1>11. CASE StartRewind(c)
  <2> DEFINE r == [Started("rewindToCurrentTurnStart", "rewindToTurnBoundary")
                   EXCEPT !.turnId = NextTurnId(view.microturn)]
  <2>1. call' = [call EXCEPT ![c] = r]
    <3>1. ~FinishAtOnce(c, "rewindToCurrentTurnStart", error)
      BY <1>7
    <3> QED BY <1>11, <3>1, Zenon DEF StartRewind, Post
  <2>2. /\ r.stage = "rewindToTurnBoundary" /\ r.steps = 0
        /\ r.kind # "initGameFromHistory"
    BY DEF Started, NoCall
  <2> HIDE DEF r
  <2> QED BY <1>6, <2>1, <2>2
<1>12. CASE StartUndo(c)
  <2> DEFINE r == Started("undo", "undo")
  <2>1. call' = [call EXCEPT ![c] = r]
    BY <1>12 DEF StartUndo, Post
  <2>2. r.stage = "undo" /\ r.steps = 0 /\ r.kind = "undo"
    BY DEF Started, NoCall
  <2> HIDE DEF r
  <2> QED BY <1>6, <2>1, <2>2
<1>13. CASE \E seed \in Seed : InitGame(c, seed)
                              \/ \E moves \in Histories : InitGameFromHistory(c, seed, moves)
  BY <1>8, <1>13 DEF InitGame, InitGameFromHistory
<1>14. CASE \E d \in Decision : SubmitDecision(c, d)
  BY <1>9, <1>14 DEF SubmitDecision
<1>15. CASE \E kind \in AiKind : StartAi(c, kind)
  BY <1>7, <1>9, <1>15 DEF StartAi
<1> QED BY <1>10, <1>11, <1>12, <1>13, <1>14, <1>15 DEF Begin

\* A call that receives a reply and awaits another has gone on.
LEMMA ResumeContinues ==
  ASSUME SessionInv, NEW c \in Call, Resume(c), call'[c].stage \in Awaiting
  PROVE  Continues(c, call'[c])
<1>1. call \in [Call -> CallRecord] /\ call[c] \in CallRecord
  BY DEF SessionInv, SessionTypeOK
<1>2. "done" \notin Awaiting
  BY DEF Awaiting, MutationStage
<1>3. ASSUME NEW stage \in Awaiting, Receive(c, stage)
      PROVE  InFlight(c) /\ c \in Queued(toStore) /\ call[c].stage = stage
  <2>1. Head(toStore) \in Queued(toStore)
    BY <1>3, QueuedTail DEF Receive, SessionInv, SessionTypeOK, ChannelOK
  <2> QED BY <1>3, <2>1 DEF Receive, InFlight
<1>4. ~FinishOperation(c, "done")
  <2>1. FinishOperation(c, "done") => call'[c].stage = "done"
    BY <1>1 DEF FinishOperation, Finished, NoCall
  <2> QED BY <1>2, <2>1
<1>5. \A code : ~Fail(c, code)
  BY <1>4 DEF Fail
<1>6. ASSUME NEW stage, NEW got, Await(c, stage, got),
             NEW now \in Awaiting, Receive(c, now), Succeeded(c),
             \A r : r.stage = stage => Follows(call[c], r)
      PROVE  Continues(c, call'[c])
  <2> DEFINE r == [call[c] EXCEPT !.stage = stage, !.got = got, !.result = Ok(Null)]
  <2>1. call'[c] = r
    BY <1>1, <1>6 DEF Await, Post
  <2>2. /\ r.stage = stage /\ r.kind = call[c].kind /\ r.moves = call[c].moves
        /\ r.epoch = call[c].epoch /\ r.token = call[c].token /\ r.steps = call[c].steps
    BY <1>1 DEF CallRecord
  <2> HIDE DEF r
  <2>3. Follows(call[c], r)
    BY <1>6, <2>2
  <2> QED BY <1>3, <1>6, <2>1, <2>2, <2>3 DEF Continues
<1>7. ASSUME NEW shown, Commit(c, shown), NEW now \in Awaiting \ MutationStage,
             now # "getState", Receive(c, now), Succeeded(c)
      PROVE  Continues(c, call'[c])
  <2>1. PICK d, next :
          /\ call[c].kind = "resolveAiTurn"
          /\ Post(c, [call[c] EXCEPT !.stage = "applyDecision", !.decision = d,
                                     !.lifecycle = next,
                                     !.steps = @ + 1, !.got = NoView,
                                     !.result = Ok(Null)])
    BY <1>4, <1>5, <1>7 DEF Commit, ContinueAiTurn
  <2> DEFINE r == [call[c] EXCEPT !.stage = "applyDecision", !.decision = d,
                                  !.lifecycle = next,
                                  !.steps = @ + 1, !.got = NoView,
                                  !.result = Ok(Null)]
  <2>2. call'[c] = r
    BY <1>1, <2>1 DEF Post
  <2>3. /\ r.stage = "applyDecision" /\ r.kind = call[c].kind /\ r.moves = call[c].moves
        /\ r.epoch = call[c].epoch /\ r.token = call[c].token
        /\ r.steps = call[c].steps + 1
    BY <1>1 DEF CallRecord
  <2> HIDE DEF r
  <2>4. InFlight(c) /\ c \in Queued(toStore) /\ call[c].stage = now
    BY <1>3, <1>7
  <2> QED BY <1>7, <2>1, <2>2, <2>3, <2>4 DEF Continues
<1>8. /\ MutationStage \subseteq Awaiting /\ "init" \in MutationStage
      /\ "playSequence" \in MutationStage
      /\ {"getState", "terminalResult", "publishMicroturn", "describeAction"}
           \subseteq Awaiting \ MutationStage
  BY DEF Awaiting, MutationStage
<1>9. CASE ReceiveRejection(c)
  BY <1>5, <1>9 DEF ReceiveRejection
<1>10. CASE ReceiveMutation(c)
  <2>1. PICK stage \in MutationStage \ {"init", "playSequence"} : Receive(c, stage)
    BY <1>10 DEF ReceiveMutation
  <2>2. Succeeded(c) /\ Await(c, "terminalResult",
                              [NoView EXCEPT !.state = call[c].result.value])
    BY <1>4, <1>10 DEF ReceiveMutation
  <2>3. \A r : r.stage = "terminalResult" => Follows(call[c], r)
    BY <2>1 DEF Receive, Follows
  <2> QED BY <1>6, <1>8, <2>1, <2>2, <2>3
<1>11. CASE ReceiveInit(c)
  <2>1. CASE /\ Receive(c, "init") /\ call[c].kind = "initGame"
             /\ Await(c, "terminalResult", [NoView EXCEPT !.state = call[c].result.value])
    <3>1. \A r : r.stage = "terminalResult" => Follows(call[c], r)
      BY <1>8, <2>1 DEF Receive, Follows
    <3> QED BY <1>6, <1>8, <1>11, <2>1, <3>1 DEF ReceiveInit
  <2>2. CASE /\ Receive(c, "init") /\ call[c].kind = "initGameFromHistory"
             /\ Await(c, IF call[c].moves = <<>> THEN "getState" ELSE "playSequence",
                      NoView)
    <3>1. \A r : r.stage = (IF call[c].moves = <<>> THEN "getState" ELSE "playSequence")
                   => Follows(call[c], r)
      BY <2>2 DEF Receive, Follows
    <3> QED BY <1>6, <1>8, <1>11, <2>2, <3>1 DEF ReceiveInit
  <2>3. CASE Receive(c, "playSequence") /\ Await(c, "getState", NoView)
    <3>1. \A r : r.stage = "getState" => Follows(call[c], r)
      BY <2>3 DEF Receive, Follows
    <3> QED BY <1>6, <1>8, <1>11, <2>3, <3>1 DEF ReceiveInit
  <2>4. CASE /\ Receive(c, "getState")
             /\ Await(c, "terminalResult", [NoView EXCEPT !.state = call[c].result.value])
    <3>1. \A r : r.stage = "terminalResult" => Follows(call[c], r)
      BY <2>4 DEF Receive, Follows
    <3> QED BY <1>6, <1>8, <1>11, <2>4, <3>1 DEF ReceiveInit
  <2> QED BY <1>11, <2>1, <2>2, <2>3, <2>4 DEF ReceiveInit
<1>12. CASE ReceiveTerminalResult(c)
  <2>1. \A r : r.stage = "publishMicroturn" => Follows(call[c], r)
    BY <1>12 DEF ReceiveTerminalResult, Receive, Follows
  <2> QED BY <1>6, <1>7, <1>8, <1>12, <2>1 DEF ReceiveTerminalResult
<1>13. CASE ReceiveMicroturn(c)
  <2>1. \A r : r.stage = "describeAction" => Follows(call[c], r)
    BY <1>13 DEF ReceiveMicroturn, Receive, Follows
  <2> QED BY <1>6, <1>7, <1>8, <1>13, <2>1 DEF ReceiveMicroturn
<1>14. CASE ReceiveDescriptions(c)
  BY <1>7, <1>8, <1>14 DEF ReceiveDescriptions
<1>15. CASE ReceiveBlockedDescription(c)
  <2>1. call'[c].stage = "done"
    BY <1>1, <1>15 DEF ReceiveBlockedDescription, Finished, NoCall
  <2> QED BY <1>2, <2>1
<1> QED BY <1>9, <1>10, <1>11, <1>12, <1>13, <1>14, <1>15 DEF Resume

-----------------------------------------------------------------------------
(* The worker serves a request; the store takes a reply or begins a call.  *)

\* A stamp that is spent stays spent: the worker's stamp only grows.
LEMMA SpentStaysSpent ==
  ASSUME SessionInv, SessionInv', NEW b \in Call, SpentStamp(b),
         call'[b].epoch = call[b].epoch, call'[b].token = call[b].token,
         \/ latestStamp' = latestStamp
         \/ latestStamp' \in Stamp /\ Fresh(latestStamp')
  PROVE  SpentStamp(b)'
<1>1. /\ latestStamp \in Stamp /\ latestStamp' \in Stamp \cup {Null}
      /\ call[b] \in CallRecord
  BY DEF SessionInv, SessionTypeOK, WorkerTypeOK, SpentStamp
<1>2. /\ latestStamp.epoch \in Nat /\ latestStamp.token \in Nat
      /\ call[b].epoch \in Nat /\ call[b].token \in Nat
  BY <1>1 DEF Stamp, CallRecord
<1>3. ~Newer(StampOf(b), latestStamp)
  BY <1>1, WorkerAssumption DEF SpentStamp, Fresh, Stamp
<1>4. StampOf(b).epoch = call[b].epoch /\ StampOf(b).token = call[b].token
  BY DEF StampOf
<1>5. StampOf(b)' = StampOf(b)
  BY DEF StampOf
<1>6. CASE latestStamp' = latestStamp
  BY <1>5, <1>6 DEF SpentStamp, Fresh
<1>7. CASE latestStamp' # latestStamp
  <2>1. latestStamp' \in Stamp /\ Newer(latestStamp', latestStamp)
    BY <1>7 DEF SpentStamp, Fresh
  <2>2. latestStamp'.epoch \in Nat /\ latestStamp'.token \in Nat
    BY <2>1 DEF Stamp
  <2>3. ~Newer(StampOf(b), latestStamp')
    BY <1>2, <1>3, <1>4, <2>1, <2>2 DEF Newer
  <2>4. latestStamp' # Null
    BY <2>1, WorkerAssumption DEF Stamp
  <2> QED BY <1>5, <2>3, <2>4 DEF SpentStamp, Fresh
<1> QED BY <1>6, <1>7

\* The worker turns a second mutation down.
LEMMA SecondIsRejected ==
  ASSUME SessionInv, Serve, Available,
         Second(call[Head(toWorker)]), OneMutation(Head(toWorker))
  PROVE  reply'.code \notin {"ok", "busy"}
<1> DEFINE c == Head(toWorker)
           stamp == StampOf(c)
<1>1. ~Fresh(stamp)
  BY DEF OneMutation, Admitted, SpentStamp
<1>2. c \in Call /\ call[c] \in CallRecord /\ toWorker # <<>>
  BY ServedRequest DEF Serve
<1>3. call[c].stage \in {"playSequence", "applyDecision"}
  BY <1>2 DEF Second, OneMutation, CallRecord
<1>4. RejectStale(stamp) \/ RejectUninitialized
  BY <1>1, <1>3, Zenon DEF Serve, PlaySequence, WorkerApplyDecision, ReplayStep, Awaiting,
                    MutationStage
<1> QED BY <1>4 DEF RejectStale, RejectUninitialized, Reject

\* Serving a request keeps the invariant.
LEMMA ServeKeepsOneMutation ==
  ASSUME SessionInv, SessionInv', OneMutationInv, Serve
  PROVE  /\ OneMutationInv'
         /\ reply'.code # "busy"
<1>1. PICK c \in Call :
        /\ c = Head(toWorker)
        /\ toWorker # <<>> /\ Settle(c) /\ ServeEffect(c)
        /\ c \in Queued(toWorker) /\ InFlight(c)
        /\ call \in [Call -> CallRecord] /\ call[c] \in CallRecord
        /\ toStore \in Seq(Call) /\ RequestOK(call[c])
  BY ServeHasItsEffect, ServedRequest DEF Serve, SessionInv, SessionTypeOK
<1>2. OneMutation(c) /\ Available
  BY <1>1 DEF OneMutationInv
<1>3. Second(call[c]) => reply'.code \notin {"ok", "busy"}
  BY <1>1, <1>2, SecondIsRejected
<1>4. reply'.code # "busy"
  BY <1>1, <1>3 DEF ServeEffect, Second
<1>5. /\ call' = [call EXCEPT ![c].result = reply'] /\ toStore' = Append(toStore, c)
  BY <1>1, <1>4 DEF Settle
<1>6. Queued(toStore)' = Queued(toStore) \cup {c}
  <2>1. Queued(toStore)' = Queued(toStore')
    BY DEF Queued
  <2> QED BY <1>1, <1>5, <2>1, QueuedAppend
<1>7. \A b \in Call : b # c => call'[b] = call[b]
  BY <1>1, <1>5
<1>8. /\ call'[c].kind = call[c].kind /\ call'[c].stage = call[c].stage
      /\ call'[c].steps = call[c].steps /\ call'[c].moves = call[c].moves
      /\ call'[c].epoch = call[c].epoch /\ call'[c].token = call[c].token
      /\ call'[c].result = reply'
  <2>1. call'[c] = [call[c] EXCEPT !.result = reply']
    BY <1>1, <1>5
  <2> QED BY <1>1, <2>1 DEF CallRecord
<1>9. StampOf(c) \in Stamp
  BY <1>1 DEF CallRecord, StampOf, Stamp
<1>10. \/ latestStamp' = latestStamp
       \/ latestStamp' \in Stamp /\ Fresh(latestStamp')
  BY <1>1, <1>9 DEF ServeEffect
<1>11. ASSUME NEW b \in Call, InFlight(b)', b # c PROVE OneMutation(b)'
  <2>1. InFlight(b) /\ call'[b] = call[b]
    BY <1>7, <1>11 DEF InFlight
  <2>2. OneMutation(b)
    BY <2>1 DEF OneMutationInv
  <2>3. b \in Queued(toStore)' <=> b \in Queued(toStore)
    BY <1>6, <1>11
  <2>4. Admitted(b)' <=> Admitted(b)
    BY <2>1, <2>3 DEF Admitted, Second, Succeeded
  <2>5. Admitted(b) => SpentStamp(b)'
    BY <1>10, <2>1, <2>2, SpentStaysSpent DEF OneMutation
  <2> QED BY <2>1, <2>2, <2>3, <2>4, <2>5 DEF OneMutation, Second, Succeeded
<1>12. OneMutation(c)'
  <2>1. Second(call[c])' <=> Second(call[c])
    BY <1>8 DEF Second
  <2>2. Succeeded(c)' <=> reply'.code = "ok"
    BY <1>8 DEF Succeeded
  <2>3. ASSUME Admitted(c)' PROVE SpentStamp(c)'
    <3>1. CASE Admitted(c)
      BY <1>1, <1>2, <1>8, <1>10, <3>1, SpentStaysSpent DEF OneMutation
    <3>2. CASE ~Admitted(c)
      <4>1. call[c].stage \in MutationStage /\ reply'.code = "ok"
        BY <1>8, <2>1, <2>2, <2>3, <3>2 DEF Admitted
      <4>2. latestStamp' = StampOf(c)
        BY <1>1, <4>1 DEF ServeEffect
      <4>3. StampOf(c)' = StampOf(c)
        BY <1>8 DEF StampOf
      <4>4. ~Newer(StampOf(c), StampOf(c)) /\ StampOf(c) # Null
        BY <1>9, WorkerAssumption DEF Newer, Stamp
      <4> QED BY <4>2, <4>3, <4>4 DEF SpentStamp, Fresh
    <3> QED BY <3>1, <3>2
  <2> QED BY <1>2, <1>3, <1>8, <2>1, <2>2, <2>3 DEF OneMutation
<1>13. Available'
  BY <1>4 DEF Available
<1> QED BY <1>4, <1>11, <1>12, <1>13 DEF OneMutationInv

\* Whatever a call does next, it is not in the reply channel then, and the
\* other calls are where they were.
LEMMA StoreStepQueues ==
  ASSUME SessionInv, SessionInv', NEW c \in Call, NEW r, StoreStep(c, r)
  PROVE  /\ call'[c] = r /\ \A b \in Call \ {c} : call'[b] = call[b]
         /\ r.stage \in Awaiting => c \notin Queued(toStore)'
         /\ \A b \in Call \ {c} : b \in Queued(toStore)' <=> b \in Queued(toStore)
<1>1. call \in [Call -> CallRecord] /\ toStore \in Seq(Call) /\ toWorker \in Seq(Call)
  BY DEF SessionInv, SessionTypeOK
<1>2. call'[c] = r /\ \A b \in Call \ {c} : call'[b] = call[b]
  BY <1>1 DEF StoreStep
<1>3. ASSUME r.stage \in Awaiting PROVE c \notin Queued(toStore)'
  <2>1. toWorker' = Append(toWorker, c)
    BY <1>3 DEF StoreStep
  <2>2. c \in Queued(toWorker')
    BY <1>1, <2>1, QueuedAppend
  <2>3. Queued(toWorker')  = Queued(toWorker)'
    BY DEF Queued
  <2> QED BY <2>2, <2>3 DEF SessionInv, SessionTypeOK, ChannelOK
<1>4. \A b \in Call \ {c} : b \in Queued(toStore)' <=> b \in Queued(toStore)
  <2>1. Queued(toStore)' = Queued(toStore')
    BY DEF Queued
  <2>2. CASE toStore' = toStore
    BY <2>1, <2>2
  <2>3. CASE toStore # <<>> /\ c = Head(toStore) /\ toStore' = Tail(toStore)
    <3>1. Queued(Tail(toStore)) = Queued(toStore) \ {Head(toStore)}
      BY <1>1, <2>3, QueuedTail DEF SessionInv, SessionTypeOK, ChannelOK
    <3> QED BY <2>1, <2>3, <3>1
  <2> QED BY <2>2, <2>3 DEF StoreStep, Leaves
<1> QED BY <1>2, <1>3, <1>4

\* A step of the store keeps the invariant.
LEMMA StoreKeepsOneMutation ==
  ASSUME SessionInv, SessionInv', OneMutationInv, NEW c \in Call, NEW r,
         StoreStep(c, r), r.stage \in Awaiting => Opens(c, r) \/ Continues(c, r)
  PROVE  OneMutationInv'
<1>1. /\ call'[c] = r /\ \A b \in Call \ {c} : call'[b] = call[b]
      /\ r.stage \in Awaiting => c \notin Queued(toStore)'
      /\ \A b \in Call \ {c} : b \in Queued(toStore)' <=> b \in Queued(toStore)
  BY StoreStepQueues
<1>2. latestStamp' = latestStamp /\ reply' = reply
  BY DEF StoreStep, workerVars
<1>3. ASSUME NEW b \in Call \ {c}, InFlight(b)' PROVE OneMutation(b)'
  <2>1. InFlight(b) /\ call'[b] = call[b]
    BY <1>1, <1>3 DEF InFlight
  <2>2. OneMutation(b)
    BY <2>1 DEF OneMutationInv
  <2>3. Admitted(b)' <=> Admitted(b)
    BY <1>1, <2>1 DEF Admitted, Second, Succeeded
  <2>4. Admitted(b) => SpentStamp(b)'
    BY <1>2, <2>1, <2>2, SpentStaysSpent DEF OneMutation
  <2> QED BY <1>1, <2>1, <2>2, <2>3, <2>4 DEF OneMutation, Second, Succeeded
<1>4. ASSUME InFlight(c)' PROVE OneMutation(c)'
  <2>1. r.stage \in Awaiting /\ c \notin Queued(toStore)'
    BY <1>1, <1>4 DEF InFlight
  <2>2. CASE Opens(c, r)
    <3>1. /\ r.steps = 0 /\ ~Second(r)
          /\ r.kind = "initGameFromHistory" => r.stage = "init"
          /\ r.kind # "submitBlockedSelection" => r.stage \in MutationStage
      BY <2>2 DEF Opens, First, Second
    <3>2. ~Admitted(c)'
      BY <1>1, <2>1, <3>1 DEF Admitted, Second
    <3> QED BY <1>1, <2>1, <3>1, <3>2 DEF OneMutation, Second
  <2>3. CASE Continues(c, r)
    <3>1. InFlight(c) /\ OneMutation(c) /\ ~Second(call[c]) /\ Succeeded(c)
          /\ c \in Queued(toStore) /\ call[c] \in CallRecord /\ RequestOK(call[c])
      BY <2>3 DEF Continues, OneMutationInv, OneMutation, SessionInv, SessionTypeOK,
                  OperationsInv, RequestsWellFormed
    <3>2. call[c].steps = 0 /\ call[c].stage # "playSequence"
      BY <3>1 DEF Second, CallRecord
    <3>3. r.steps = 0 \/ (r.steps = 1 /\ r.stage = "applyDecision")
      BY <2>3, <3>2 DEF Continues
    <3>4. r.kind = "initGameFromHistory" /\ r.stage \notin {"init", "playSequence"}
            => r.moves = <<>>
      BY <2>3, <3>1, <3>2 DEF Continues, Follows, OneMutation
    <3>5. ASSUME Admitted(c)' PROVE SpentStamp(c)'
      <4>1. Second(r) \/ r.kind # "submitBlockedSelection"
        BY <1>1, <3>5 DEF Admitted, Second
      <4>2. call[c].kind # "submitBlockedSelection"
        BY <2>3, <3>1, <3>2, <4>1 DEF Continues, Follows, Second, RequestOK, InitKind
      <4>3. Admitted(c)
        BY <3>1, <4>2 DEF Admitted
      <4>4. SpentStamp(c)
        BY <3>1, <4>3 DEF OneMutation
      <4>5. call'[c].epoch = call[c].epoch /\ call'[c].token = call[c].token
        BY <1>1, <2>3 DEF Continues
      <4> QED BY <1>2, <4>4, <4>5, SpentStaysSpent
    <3> QED BY <1>1, <2>1, <3>3, <3>4, <3>5 DEF OneMutation
  <2> QED BY <2>1, <2>2, <2>3
<1>5. Available'
  BY <1>2 DEF OneMutationInv, Available
<1> QED BY <1>3, <1>4, <1>5 DEF OneMutationInv

\* The invariant holds throughout a session.
LEMMA OneMutationInvariant == Spec => []OneMutationInv
<1>1. Init => OneMutationInv
  <2> SUFFICES ASSUME Init PROVE OneMutationInv
    OBVIOUS
  <2>1. \A c \in Call : call[c] = NoCall
    BY DEF Init, StoreInit
  <2>2. NoCall.stage \notin Awaiting
    BY DEF NoCall, Awaiting, MutationStage
  <2>3. Available
    BY DEF Init, WorkerInit, Available, Ok
  <2> QED BY <2>1, <2>2, <2>3 DEF OneMutationInv, InFlight
<1>2. OneMutationInv /\ SessionInv /\ SessionInv' /\ [Next]_vars => OneMutationInv'
  <2> SUFFICES ASSUME OneMutationInv, SessionInv, SessionInv', [Next]_vars
               PROVE  OneMutationInv'
    OBVIOUS
  <2>1. CASE Serve
    BY <2>1, ServeKeepsOneMutation
  <2>2. ASSUME NEW c \in Call, Begin(c) \/ Resume(c) PROVE OneMutationInv'
    <3>1. PICK r : StoreStep(c, r)
      BY <2>2, CallStep
    <3>2. call'[c] = r
      BY <3>1, StoreStepQueues
    <3> QED BY <2>2, <3>1, <3>2, BeginOpens, ResumeContinues, StoreKeepsOneMutation
  <2>3. CASE UNCHANGED <<call, toStore, latestStamp, reply>>
    BY <2>3 DEF OneMutationInv, OneMutation, InFlight, Available, Admitted, Second,
                Succeeded, SpentStamp, Fresh, StampOf, Queued
  <2>4. CASE Outside
    BY <2>3, <2>4 DEF Outside, CanvasCrash, CanvasRecovered, ReportBootstrapFailure,
                      ClearError, outsideVars, workerVars
  <2>5. CASE UNCHANGED vars
    BY <2>3, <2>5 DEF vars, workerVars, storeVars
  <2> QED BY <2>1, <2>2, <2>4, <2>5 DEF Next
<1> QED BY <1>1, <1>2, SessionInvariant, PTL DEF Spec

\* No second mutation of an operation ever succeeds.
THEOREM SecondMutationsNeverSucceed ==
  Spec => [](\A c \in Call : c \in Queued(toStore) /\ Second(call[c]) => ~Succeeded(c))
<1>1. SessionInv /\ OneMutationInv =>
        \A c \in Call : c \in Queued(toStore) /\ Second(call[c]) => ~Succeeded(c)
  BY DEF OneMutationInv, OneMutation, SessionInv, SessionTypeOK, ChannelOK
<1> QED BY <1>1, SessionInvariant, OneMutationInvariant, PTL

\* No resume that has moves gets past them to its screen, and the loop that
\* would replay them never runs.
THEOREM ResumeNeverReplays ==
  Spec => []( /\ Available
              /\ \A c \in Call :
                   /\ InFlight(c) /\ call[c].kind = "initGameFromHistory"
                   /\ call[c].stage \notin {"init", "playSequence"}
                   => call[c].moves = <<>>)
<1>1. OneMutationInv =>
        /\ Available
        /\ \A c \in Call :
             /\ InFlight(c) /\ call[c].kind = "initGameFromHistory"
             /\ call[c].stage \notin {"init", "playSequence"}
             => call[c].moves = <<>>
  BY DEF OneMutationInv, OneMutation
<1> QED BY <1>1, OneMutationInvariant, PTL

\* An AI turn takes one decision: it asks for a second one and ends there,
\* whatever MAX_AI_SKIP_MOVES is.
THEOREM AiTurnIsOneDecision ==
  Spec => [](\A c \in Call :
               InFlight(c) /\ call[c].steps > 0 =>
                 call[c].steps = 1 /\ call[c].stage = "applyDecision")
<1>1. SessionInv /\ OneMutationInv =>
        \A c \in Call :
          InFlight(c) /\ call[c].steps > 0 =>
            call[c].steps = 1 /\ call[c].stage = "applyDecision"
  BY DEF OneMutationInv, OneMutation
<1> QED BY <1>1, SessionInvariant, OneMutationInvariant, PTL

-----------------------------------------------------------------------------
(* Operations run down.                                                    *)

\* How many requests a call still makes at most, the present one included
Remaining(r) ==
  IF Second(r) THEN 1
  ELSE CASE r.stage = "describeAction" -> 2
         [] r.stage = "publishMicroturn" -> 3
         [] r.stage = "terminalResult" -> 4
         [] r.stage = "init" -> 6
         [] OTHER -> 5

\* The messages there still are for a call: its requests and their replies
Messages(c) ==
  IF ~InFlight(c) THEN 0
  ELSE 2 * Remaining(call[c]) - (IF c \in Queued(toStore) THEN 1 ELSE 0)

\* A call that goes on has a request less to make.
LEMMA ContinuingTakesRequests ==
  ASSUME SessionInv, OneMutationInv, NEW c \in Call, NEW r, Continues(c, r)
  PROVE  Remaining(r) < Remaining(call[c])
<1>1. ~Second(call[c]) /\ call[c].steps \in Nat
  BY DEF Continues, OneMutationInv, OneMutation, SessionInv, SessionTypeOK, CallRecord
<1>2. Remaining(call[c]) \in 2..6
  BY <1>1 DEF Remaining
<1>3. CASE r.steps = call[c].steps + 1
  BY <1>1, <1>2, <1>3 DEF Remaining, Second
<1>4. CASE Second(r)
  BY <1>2, <1>4 DEF Remaining
<1>5. CASE ~Second(r) /\ Follows(call[c], r)
  <2>1. \/ r.stage = "terminalResult" /\ Remaining(call[c]) \in {5, 6}
        \/ r.stage = "getState" /\ call[c].stage = "init"
        \/ r.stage = "publishMicroturn" /\ call[c].stage = "terminalResult"
        \/ r.stage = "describeAction" /\ call[c].stage = "publishMicroturn"
    BY <1>1, <1>5 DEF Follows, Second, Remaining, MutationStage
  <2> QED BY <1>1, <1>5, <2>1 DEF Remaining
<1> QED BY <1>3, <1>4, <1>5 DEF Continues

\* A call that receives a reply was waiting for it.
LEMMA ResumeReceives ==
  ASSUME SessionInv, NEW c \in Call, Resume(c)
  PROVE  InFlight(c) /\ c \in Queued(toStore)
<1>1. \E stage \in Awaiting : Receive(c, stage)
  BY Zenon DEF Resume, ReceiveRejection, ReceiveMutation, ReceiveInit, ReceiveTerminalResult,
         ReceiveMicroturn, ReceiveDescriptions, ReceiveBlockedDescription, Awaiting,
         MutationStage
<1>2. toStore # <<>> /\ c = Head(toStore) /\ call[c].stage \in Awaiting
  BY <1>1 DEF Receive
<1> QED BY <1>2, QueuedTail DEF InFlight, SessionInv, SessionTypeOK, ChannelOK

\* What a step does to the messages of the calls in flight
LEMMA StepsTakeMessages ==
  ASSUME SessionInv, SessionInv', OneMutationInv, Next, NEW c \in Call
  PROVE  /\ InFlight(c) => Messages(c)' <= Messages(c)
         /\ Serve /\ c = Head(toWorker) => Messages(c)' < Messages(c)
         /\ Resume(c) => Messages(c)' < Messages(c)
<1>1. \A r : Remaining(r) \in 1..6
  BY DEF Remaining
<1> DEFINE kept == call'[c] = call[c]
                   /\ (c \in Queued(toStore)' <=> c \in Queued(toStore))
<1>2. kept => Messages(c)' = Messages(c)
  BY DEF Messages, InFlight, Remaining, Second
<1>3. ASSUME Resume(c) PROVE Messages(c)' < Messages(c)
  <2>1. Messages(c) = 2 * Remaining(call[c]) - 1
    BY <1>3, ResumeReceives DEF Messages
  <2>2. PICK r : StoreStep(c, r)
    BY <1>3, CallStep
  <2>3. call'[c] = r /\ (r.stage \in Awaiting => c \notin Queued(toStore)')
    BY <2>2, StoreStepQueues
  <2>4. CASE r.stage \notin Awaiting
    <3>1. Messages(c)' = 0
      BY <2>3, <2>4 DEF Messages, InFlight
    <3> QED BY <1>1, <2>1, <3>1
  <2>5. CASE r.stage \in Awaiting
    <3>1. Messages(c)' = 2 * Remaining(r)
      BY <1>1, <2>3, <2>5 DEF Messages, InFlight, Remaining, Second
    <3>2. Remaining(r) < Remaining(call[c])
      BY <1>3, <2>3, <2>5, ResumeContinues, ContinuingTakesRequests
    <3> QED BY <1>1, <2>1, <3>1, <3>2
  <2> QED BY <2>4, <2>5
<1>4. ASSUME Serve
      PROVE  /\ c = Head(toWorker) => Messages(c)' < Messages(c)
             /\ c # Head(toWorker) => kept
  <2>1. PICK h \in Call :
        /\ h = Head(toWorker)
        /\ h \in Queued(toWorker) /\ InFlight(h) /\ Settle(h)
        /\ call \in [Call -> CallRecord] /\ toStore \in Seq(Call)
    BY <1>4, ServedRequest DEF Serve, SessionInv, SessionTypeOK
  <2>2. call' = [call EXCEPT ![h].result = reply'] /\ toStore' = Append(toStore, h)
    BY <1>4, <2>1, ServeKeepsOneMutation DEF Settle
  <2>3. Queued(toStore)' = Queued(toStore) \cup {h}
    <3>1. Queued(toStore)' = Queued(toStore')
      BY DEF Queued
    <3> QED BY <2>1, <2>2, <3>1, QueuedAppend
  <2>4. h \notin Queued(toStore)
    BY <2>1 DEF SessionInv, SessionTypeOK, ChannelOK
  <2>5. CASE c = h
    <3>1. call'[c] = [call[c] EXCEPT !.result = reply'] /\ call[c] \in CallRecord
      BY <2>1, <2>2, <2>5
    <3>2. call'[c].stage = call[c].stage /\ call'[c].steps = call[c].steps
      BY <3>1 DEF CallRecord
    <3>3. InFlight(c)' /\ Remaining(call[c])' = Remaining(call[c])
      BY <2>1, <2>5, <3>2 DEF InFlight, Remaining, Second
    <3>4. Messages(c) = 2 * Remaining(call[c])
      BY <1>1, <2>1, <2>4, <2>5 DEF Messages
    <3>5. Messages(c)' = 2 * Remaining(call[c]) - 1
      BY <2>3, <2>5, <3>3 DEF Messages
    <3> QED BY <1>1, <2>1, <2>5, <3>4, <3>5
  <2>6. CASE c # h
    BY <2>1, <2>2, <2>3, <2>6
  <2> QED BY <2>5, <2>6
<1>5. ASSUME NEW d \in Call, d # c, Begin(d) \/ Resume(d) PROVE kept
  BY <1>5, CallStep, StoreStepQueues
<1>6. ASSUME Begin(c) PROVE ~InFlight(c)
  BY <1>6 DEF Begin, InitGame, InitGameFromHistory, StartInit, SubmitDecision,
              SubmitBlockedSelection, StartAi, StartRewind, StartUndo, NextCall, InFlight,
              Awaiting, MutationStage
<1>7. ASSUME Outside PROVE kept
  BY <1>7 DEF Outside, CanvasCrash, CanvasRecovered, ReportBootstrapFailure,
              ClearError, outsideVars, Queued
<1>8. Messages(c) \in Int
  BY <1>1 DEF Messages
<1>9. Messages(c)' \in Int
  BY <1>1 DEF Messages
<1> HIDE DEF kept
<1>10. CASE Resume(c)
  <2>1. Serve /\ c = Head(toWorker) => Messages(c)' < Messages(c)
    BY <1>4
  <2>2. Messages(c)' <= Messages(c)
    BY <1>3, <1>8, <1>9, <1>10
  <2> QED BY <1>3, <1>10, <2>1, <2>2
<1>11. CASE ~Resume(c)
  <2>1. Serve /\ c = Head(toWorker) => Messages(c)' < Messages(c)
    BY <1>4
  <2>2. InFlight(c) => kept \/ Messages(c)' < Messages(c)
    BY <1>4, <1>5, <1>6, <1>7, <1>11, Zenon DEF Next
  <2>3. InFlight(c) => Messages(c)' <= Messages(c)
    BY <1>2, <1>8, <1>9, <2>2
  <2> QED BY <1>11, <2>1, <2>3, Zenon
<1> QED BY <1>10, <1>11

\* Every request served and every reply received takes a message off its call
\* and no step adds one to a call in flight: a call exchanges at most twelve
\* messages with the worker, whatever other calls begin meanwhile.
THEOREM OperationsRunDown ==
  Spec =>
    /\ [](\A c \in Call : Messages(c) \in 0..12)
    /\ [][\A c \in Call :
            /\ InFlight(c) => Messages(c)' <= Messages(c)
            /\ Serve /\ c = Head(toWorker) => Messages(c)' < Messages(c)
            /\ Resume(c) => Messages(c)' < Messages(c)]_vars
<1>1. SessionInv => \A c \in Call : Messages(c) \in 0..12
  <2>1. \A r : Remaining(r) \in 1..6
    BY DEF Remaining
  <2> QED BY <2>1 DEF Messages
<1>2. SessionInv /\ SessionInv' /\ OneMutationInv /\ [Next]_vars
        => [\A c \in Call :
              /\ InFlight(c) => Messages(c)' <= Messages(c)
              /\ Serve /\ c = Head(toWorker) => Messages(c)' < Messages(c)
              /\ Resume(c) => Messages(c)' < Messages(c)]_vars
  BY StepsTakeMessages
<1> QED BY <1>1, <1>2, SessionInvariant, OneMutationInvariant, PTL DEF Spec
=============================================================================
