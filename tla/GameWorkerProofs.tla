-------------------------- MODULE GameWorkerProofs --------------------------
(***************************************************************************)
(* Proofs about GameWorker, for every game, every set of stamps and every  *)
(* set of replayed move lists.                                             *)
(***************************************************************************)
EXTENDS GameWorker, SequenceTheorems, TLAPS

-----------------------------------------------------------------------------
(* Plays: a list of past states and the present one.                       *)

\* h followed by s is a play from a fresh game.
IsPlay(h, s) ==
  LET t == Append(h, s)
  IN  /\ \E g \in Seed : t[1] = InitialState(g)
      /\ \A i \in 1..Len(h) : Successor(t[i], t[i + 1])

\* A fresh game is a play.
LEMMA FreshPlay ==
  ASSUME NEW g \in Seed
  PROVE  IsPlay(<<>>, InitialState(g))
<1> DEFINE t == Append(<<>>, InitialState(g))
<1>1. t[1] = InitialState(g)
  OBVIOUS
<1>2. 1..Len(<<>>) = {}
  OBVIOUS
<1> QED BY <1>1, <1>2 DEF IsPlay

\* A play goes on with any successor of its present state.
LEMMA PlayExtends ==
  ASSUME NEW S, NEW h \in Seq(S), NEW s \in S, NEW u \in S,
         IsPlay(h, s), Successor(s, u)
  PROVE  IsPlay(Append(h, s), u)
<1> DEFINE t == Append(h, s)
           v == Append(t, u)
<1>1. /\ t \in Seq(S) /\ Len(t) = Len(h) + 1 /\ Len(h) \in Nat
      /\ v \in Seq(S) /\ Len(v) = Len(t) + 1
  OBVIOUS
<1>2. \A i \in 1..Len(t) : v[i] = t[i]
  BY <1>1
<1>3. v[Len(t) + 1] = u /\ t[Len(t)] = s
  BY <1>1
<1>4. \E g \in Seed : v[1] = InitialState(g)
  BY <1>1, <1>2 DEF IsPlay
<1>5. ASSUME NEW i \in 1..Len(t)
      PROVE  Successor(v[i], v[i + 1])
  <2>1. CASE i = Len(t)
    BY <2>1, <1>1, <1>2, <1>3
  <2>2. CASE i # Len(t)
    <3>1. i \in 1..Len(h) /\ i + 1 \in 1..Len(t)
      BY <2>2, <1>1
    <3> QED BY <3>1, <1>2 DEF IsPlay
  <2> QED BY <2>1, <2>2
<1> QED BY <1>4, <1>5 DEF IsPlay

\* Every state of a play, with the states before it, is a play.
LEMMA PlayCut ==
  ASSUME NEW S, NEW h \in Seq(S), NEW s \in S, IsPlay(h, s),
         NEW i \in 1..(Len(h) + 1)
  PROVE  IsPlay(SubSeq(Append(h, s), 1, i - 1), Append(h, s)[i])
<1> DEFINE t == Append(h, s)
           p == SubSeq(t, 1, i - 1)
           v == Append(p, t[i])
<1>1. t \in Seq(S) /\ Len(t) = Len(h) + 1 /\ Len(h) \in Nat
  OBVIOUS
<1>2. t[i] \in S
  BY <1>1
<1>3. /\ p \in Seq(S) /\ Len(p) = i - 1
      /\ \A j \in 1..(i - 1) : p[j] = t[j]
  BY <1>1
<1>4. Len(v) = i /\ \A j \in 1..i : v[j] = t[j]
  <2>1. v \in Seq(S) /\ Len(v) = i
    BY <1>2, <1>3
  <2>2. ASSUME NEW j \in 1..i PROVE v[j] = t[j]
    BY <1>2, <1>3
  <2> QED BY <2>1, <2>2
<1>5. \E g \in Seed : v[1] = InitialState(g)
  BY <1>1, <1>4 DEF IsPlay
<1>6. ASSUME NEW j \in 1..Len(p)
      PROVE  Successor(v[j], v[j + 1])
  <2>1. j \in 1..Len(h) /\ j \in 1..i /\ j + 1 \in 1..i
    BY <1>1, <1>3
  <2> QED BY <2>1, <1>4 DEF IsPlay
<1> QED BY <1>5, <1>6 DEF IsPlay

-----------------------------------------------------------------------------
(* Type correctness.                                                       *)

\* The stamps and replies of the calls have their types.
LEMMA ReplyTypes ==
  /\ \A stamp \in Stamps : stamp \in Stamp
  /\ \A code \in ErrorCode : Reject(code) \in Reply /\ Reject(code).code # "busy"
  /\ \A v \in GameState \cup {Null} : Ok(v) \in Reply /\ Ok(v).code # "busy"
  /\ Busy \in Reply /\ Busy.code = "busy"
BY WorkerAssumption DEF Stamp, Reply, Reject, Ok, Busy, ErrorCode

\* A rejected call, stale or before init, keeps every type.
LEMMA RejectionTypeOK ==
  ASSUME WorkerTypeOK, Available, NEW stamp,
         RejectStale(stamp) \/ RejectUninitialized
  PROVE  WorkerTypeOK'
<1>1. \E code \in ErrorCode : reply' = Reject(code)
  BY DEF RejectStale, RejectUninitialized, ErrorCode
<1>2. UNCHANGED <<gameState, history, latestStamp, replayQueue, fetches>>
  BY DEF RejectStale, RejectUninitialized
<1>3. reply' \in Reply /\ Available'
  BY <1>1, ReplyTypes DEF Available
<1> QED BY <1>2, <1>3 DEF WorkerTypeOK, Initialized

\* A new game keeps every type.
LEMMA InitStateTypeOK ==
  ASSUME WorkerTypeOK, Available, NEW seed \in Seed, InitState(seed),
         latestStamp' \in Stamp \cup {Null},
         fetches' \subseteq [seed : Seed, stamp : Stamp],
         replayQueue' = replayQueue
  PROVE  WorkerTypeOK'
BY GameAssumption
   DEF WorkerTypeOK, InitState, Ok, Reply, ErrorCode, Available, Initialized

\* A setup that throws keeps every type.
LEMMA SetupThrowsTypeOK ==
  ASSUME WorkerTypeOK, Available, SetupThrows,
         latestStamp' \in Stamp \cup {Null},
         UNCHANGED <<replayQueue, fetches>>
  PROVE  WorkerTypeOK'
<1>1. reply' = Reject("INTERNAL_ERROR") /\ UNCHANGED <<gameState, history>>
  BY DEF SetupThrows
<1>2. reply' \in Reply /\ Available'
  BY <1>1, ReplyTypes DEF Available, ErrorCode
<1> QED BY <1>1, <1>2 DEF WorkerTypeOK, Available, Initialized

\* One input to the engine keeps every type.
LEMMA AdvanceTypeOK ==
  ASSUME WorkerTypeOK, Available, Initialized,
         \/ gameState' \in GameState /\ Advance(TRUE, gameState')
         \/ Advance(FALSE, Null),
         latestStamp' \in Stamp,
         UNCHANGED <<replayQueue, fetches>>
  PROVE  WorkerTypeOK'
<1>1. CASE gameState' \in GameState /\ Advance(TRUE, gameState')
  <2>1. gameState' \in GameState /\ reply' = Ok(gameState')
    BY <1>1 DEF Advance
  <2>2. history' \in Seq(GameState)
    BY <1>1 DEF Advance, WorkerTypeOK, Initialized
  <2>3. reply' \in Reply /\ Available'
    BY <2>1, ReplyTypes DEF Available
  <2> QED BY <2>1, <2>2, <2>3, GameAssumption
             DEF WorkerTypeOK, Available, Initialized
<1>2. CASE Advance(FALSE, Null)
  <2>1. reply' = Reject("ILLEGAL_MOVE") /\ UNCHANGED <<gameState, history>>
    BY <1>2 DEF Advance
  <2>2. reply' \in Reply /\ Available'
    BY <2>1, ReplyTypes DEF Available, ErrorCode
  <2> QED BY <2>1, <2>2 DEF WorkerTypeOK, Available, Initialized
<1> QED BY <1>1, <1>2

\* A mutating call keeps every type, whatever its stamp.
LEMMA MutatingCallTypeOK ==
  ASSUME WorkerTypeOK, NEW stamp \in Stamp, MutatingCall(stamp)
  PROVE  WorkerTypeOK'
<1> USE ReplyTypes
<1>1. ASSUME NEW seed \in Seed,
             InitWorker(seed, stamp)
      PROVE  WorkerTypeOK'
  <2>1. CASE RejectStale(stamp)
    BY <1>1, <2>1, RejectionTypeOK DEF InitWorker
  <2>2. CASE ~RejectStale(stamp)
    BY <1>1, <2>2, InitStateTypeOK, SetupThrowsTypeOK
       DEF InitWorker, WorkerTypeOK
  <2> QED BY <2>1, <2>2
<1>2. ASSUME NEW seed \in Seed,
             LoadFromUrl(seed, stamp)
      PROVE  WorkerTypeOK'
  <2>1. CASE RejectStale(stamp)
    BY <1>2, <2>1, RejectionTypeOK DEF LoadFromUrl
  <2>2. CASE ~RejectStale(stamp)
    BY <1>2, <2>2 DEF LoadFromUrl, WorkerTypeOK, Available, Initialized
  <2> QED BY <2>1, <2>2
<1>3. ASSUME NEW seed \in Seed,
             NEW defGiven \in BOOLEAN, Reset(seed, defGiven, stamp)
      PROVE  WorkerTypeOK'
  <2>1. CASE RejectStale(stamp)
    BY <1>3, <2>1, RejectionTypeOK DEF Reset
  <2>2. CASE ~RejectStale(stamp) /\ InitState(seed)
    BY <1>3, <2>2, InitStateTypeOK DEF Reset, WorkerTypeOK
  <2>3. CASE ~RejectStale(stamp) /\ SetupThrows
    BY <1>3, <2>3, SetupThrowsTypeOK DEF Reset, WorkerTypeOK
  <2>4. CASE ~RejectStale(stamp) /\ ~InitState(seed) /\ ~SetupThrows
    BY <1>3, <2>4 DEF Reset, WorkerTypeOK, Available, Reject, Reply,
                      ErrorCode, Initialized
  <2> QED BY <2>1, <2>2, <2>3, <2>4
<1>4. ASSUME NEW d \in Decision,
             WorkerApplyDecision(d, stamp)
      PROVE  WorkerTypeOK'
  <2>1. CASE RejectStale(stamp) \/ RejectUninitialized
    BY <1>4, <2>1, RejectionTypeOK DEF WorkerApplyDecision
  <2>2. CASE ~(RejectStale(stamp) \/ RejectUninitialized)
    <3>1. gameState \in GameState
      BY <1>4, <2>2 DEF WorkerApplyDecision, Initialized, WorkerTypeOK
    <3>2. d \in LegalActions(gameState) =>
            ApplyDecision(gameState, d) \in GameState
      BY <3>1, GameAssumption
    <3>3. \/ gameState' \in GameState /\ Advance(TRUE, gameState')
          \/ Advance(FALSE, Null)
      BY <1>4, <2>2, <3>2 DEF WorkerApplyDecision, Advance
    <3> QED BY <1>4, <2>2, <3>3, AdvanceTypeOK DEF WorkerApplyDecision
  <2> QED BY <2>1, <2>2
<1>5. ASSUME AdvanceAutoresolvable(stamp)
      PROVE  WorkerTypeOK'
  <2>1. CASE RejectStale(stamp) \/ RejectUninitialized
    BY <1>5, <2>1, RejectionTypeOK DEF AdvanceAutoresolvable
  <2>2. CASE ~(RejectStale(stamp) \/ RejectUninitialized)
    <3>1. gameState \in GameState
      BY <1>5, <2>2 DEF AdvanceAutoresolvable, Initialized, WorkerTypeOK
    <3>2. Autoresolve(gameState) \in GameState
      BY <3>1, GameAssumption
    <3>3. \/ gameState' \in GameState /\ Advance(TRUE, gameState')
          \/ Advance(FALSE, Null)
      BY <1>5, <2>2, <3>2 DEF AdvanceAutoresolvable, Advance
    <3> QED BY <1>5, <2>2, <3>3, AdvanceTypeOK DEF AdvanceAutoresolvable
  <2> QED BY <2>1, <2>2
<1>6. ASSUME NEW m \in Move,
             WorkerApplyReplayMove(m, stamp)
      PROVE  WorkerTypeOK'
  <2>1. CASE RejectStale(stamp) \/ RejectUninitialized
    BY <1>6, <2>1, RejectionTypeOK DEF WorkerApplyReplayMove
  <2>2. CASE ~(RejectStale(stamp) \/ RejectUninitialized)
    <3>1. gameState \in GameState
      BY <1>6, <2>2 DEF WorkerApplyReplayMove, Initialized, WorkerTypeOK
    <3>2. m \in LegalMoves(gameState) => ApplyMove(gameState, m) \in GameState
      BY <3>1, GameAssumption
    <3>3. \/ gameState' \in GameState /\ Advance(TRUE, gameState')
          \/ Advance(FALSE, Null)
      BY <1>6, <2>2, <3>2 DEF WorkerApplyReplayMove, Advance
    <3> QED BY <1>6, <2>2, <3>3, AdvanceTypeOK DEF WorkerApplyReplayMove
  <2> QED BY <2>1, <2>2
<1>7. ASSUME NEW moves \in Histories,
             PlaySequence(moves, stamp)
      PROVE  WorkerTypeOK'
  <2>1. CASE RejectStale(stamp) \/ RejectUninitialized
    BY <1>7, <2>1, RejectionTypeOK DEF PlaySequence
  <2>2. CASE ~(RejectStale(stamp) \/ RejectUninitialized)
    <3>1. moves \in Seq(Move)
      BY WorkerAssumption
    <3> QED BY <1>7, <2>2, <3>1
               DEF PlaySequence, WorkerTypeOK, Available, Initialized, Ok,
                   Busy, Reply, ErrorCode
  <2> QED BY <2>1, <2>2
<1>8. ASSUME NEW turnId \in TurnId,
             RewindToTurnBoundary(turnId, stamp)
      PROVE  WorkerTypeOK'
  <2>1. CASE RejectStale(stamp)
    BY <1>8, <2>1, RejectionTypeOK DEF RewindToTurnBoundary
  <2>2. CASE ~RejectStale(stamp) /\ UNCHANGED <<gameState, history>>
             /\ reply' \in {Reject("NOT_INITIALIZED"), Ok(Null)}
    BY <1>8, <2>2 DEF RewindToTurnBoundary, WorkerTypeOK, Available, Ok,
                      Reject, Reply, ErrorCode, Initialized
  <2>3. ASSUME Initialized, ~RejectStale(stamp),
               NEW i \in 1..Len(Append(history, gameState)),
               gameState' = Append(history, gameState)[i],
               history' = SubSeq(Append(history, gameState), 1, i - 1),
               reply' = Ok(Append(history, gameState)[i])
        PROVE  WorkerTypeOK'
    <3> DEFINE timeline == Append(history, gameState)
    <3>1. timeline \in Seq(GameState) /\ i - 1 \in 0..Len(timeline)
      BY <2>3 DEF WorkerTypeOK, Initialized
    <3>2. timeline[i] \in GameState
      BY <3>1, <2>3
    <3>3. SubSeq(timeline, 1, i - 1) \in Seq(GameState)
      BY <3>1
    <3>4. latestStamp' = stamp /\ UNCHANGED <<replayQueue, fetches>>
      BY <1>8, <2>3 DEF RewindToTurnBoundary
    <3> HIDE DEF timeline
    <3>5. reply' = Ok(gameState') /\ gameState' \in GameState
      BY <2>3, <3>2 DEF timeline
    <3>6. history' \in Seq(GameState)
      BY <2>3, <3>3 DEF timeline
    <3> QED BY <1>8, <3>4, <3>5, <3>6, GameAssumption
               DEF RewindToTurnBoundary, WorkerTypeOK, Available, Ok, Reply,
                   ErrorCode, Initialized
  <2> QED BY <1>8, <2>1, <2>2, <2>3 DEF RewindToTurnBoundary
<1>9. ASSUME Undo(stamp)
      PROVE  WorkerTypeOK'
  <2>1. CASE RejectStale(stamp)
    BY <1>9, <2>1, RejectionTypeOK DEF Undo
  <2>2. CASE ~RejectStale(stamp) /\ history = <<>>
    BY <1>9, <2>2 DEF Undo, WorkerTypeOK, Available, Ok, Reply, ErrorCode,
                      Initialized
  <2>3. CASE ~RejectStale(stamp) /\ history # <<>>
    <3>1. /\ Len(history) \in 1..Len(history)
          /\ Len(history) - 1 \in 0..Len(history)
      BY <2>3 DEF WorkerTypeOK
    <3>2. /\ history[Len(history)] \in GameState
          /\ SubSeq(history, 1, Len(history) - 1) \in Seq(GameState)
      BY <3>1 DEF WorkerTypeOK
    <3>3. gameState' \in GameState /\ history' \in Seq(GameState)
      BY <1>9, <2>3, <3>2 DEF Undo
    <3> QED BY <1>9, <2>3, <3>3, GameAssumption
               DEF Undo, WorkerTypeOK, Available, Ok, Reply, ErrorCode,
                   Initialized
  <2> QED BY <2>1, <2>2, <2>3
<1> QED BY <1>1, <1>2, <1>3, <1>4, <1>5, <1>6, <1>7, <1>8, <1>9
           DEF MutatingCall

\* Reading keeps every type.
LEMMA ReadTypeOK ==
  ASSUME WorkerTypeOK, NEW method, Read(method)
  PROVE  WorkerTypeOK'
<1>1. reply' \in Reply /\ Available'
  BY ReplyTypes DEF Read, Available, ErrorCode, WorkerTypeOK
<1>2. UNCHANGED <<gameState, history, latestStamp, replayQueue, fetches>>
  BY DEF Read
<1> QED BY <1>1, <1>2 DEF Read, WorkerTypeOK, Available, Initialized

\* The loop of playSequence keeps every type.
LEMMA ReplayStepTypeOK ==
  ASSUME WorkerTypeOK, ReplayStep
  PROVE  WorkerTypeOK'
<1> USE ReplyTypes
<1>1. /\ gameState \in GameState
      /\ Head(replayQueue) \in Move /\ Tail(replayQueue) \in Seq(Move)
  BY DEF ReplayStep, WorkerTypeOK, Available, Initialized
<1>2. CASE Head(replayQueue) \in LegalMoves(gameState)
  <2>1. gameState' \in GameState
    BY <1>1, <1>2, GameAssumption DEF ReplayStep
  <2>2. history' \in Seq(GameState)
    <3>1. history' = Append(history, gameState) /\ history \in Seq(GameState)
      BY <1>2 DEF ReplayStep, WorkerTypeOK
    <3> QED BY <1>1, <3>1
  <2>3. /\ replayQueue' = Tail(replayQueue)
        /\ reply' = IF replayQueue' = <<>> THEN Ok(gameState') ELSE Busy
        /\ UNCHANGED <<latestStamp, fetches>>
    BY <1>2 DEF ReplayStep
  <2>4. reply' \in Reply /\ (replayQueue' # <<>> <=> ~Available')
    BY <2>1, <2>3 DEF Available
  <2> QED BY <1>1, <2>1, <2>2, <2>3, <2>4, GameAssumption
             DEF WorkerTypeOK, Initialized
<1>3. CASE Head(replayQueue) \notin LegalMoves(gameState)
  <2>1. /\ replayQueue' = <<>> /\ reply' = Reject("ILLEGAL_MOVE")
        /\ UNCHANGED <<gameState, history, latestStamp, fetches>>
    BY <1>3 DEF ReplayStep
  <2>2. reply' \in Reply /\ Available'
    BY <2>1 DEF Available, ErrorCode
  <2> QED BY <1>1, <2>1, <2>2 DEF WorkerTypeOK, Initialized
<1> QED BY <1>2, <1>3

\* The worker's variables always have their types (WorkerTypeOK).
THEOREM WorkerTypeCorrect == WorkerSpec => []WorkerTypeOK
<1>1. WorkerInit => WorkerTypeOK
  BY DEF WorkerInit, WorkerTypeOK, Ok, Reply, ErrorCode, Available
<1>2. WorkerTypeOK /\ [WorkerNext]_workerVars => WorkerTypeOK'
  <2> SUFFICES ASSUME WorkerTypeOK, [WorkerNext]_workerVars
               PROVE  WorkerTypeOK'
    OBVIOUS
  <2> USE ReplyTypes
  <2>1. ASSUME NEW stamp \in Stamps, MutatingCall(stamp)
        PROVE  WorkerTypeOK'
    BY <2>1, MutatingCallTypeOK
  <2>2. ASSUME NEW f \in fetches, LoadSettles(f)
         PROVE  WorkerTypeOK'
    <3>1. f.seed \in Seed
      BY DEF WorkerTypeOK
    <3>2. CASE InitState(f.seed)
      BY <2>2, <3>1, <3>2, InitStateTypeOK DEF LoadSettles, WorkerTypeOK
    <3>3. CASE ~InitState(f.seed)
      BY <2>2, <3>3 DEF LoadSettles, WorkerTypeOK, Available, Reject, Reply,
                         ErrorCode, Initialized
    <3> QED BY <3>2, <3>3
  <2>3. CASE UNCHANGED workerVars
    BY <2>3 DEF workerVars, WorkerTypeOK, Available, Initialized
  <2> QED BY <2>1, <2>2, <2>3, ReadTypeOK, ReplayStepTypeOK DEF WorkerNext
<1> QED BY <1>1, <1>2, PTL DEF WorkerSpec

-----------------------------------------------------------------------------
(* The history is a play.                                                  *)

\* What a step of the worker can do to the game.
StartsAfresh ==
  \E g \in Seed : gameState' = InitialState(g) /\ history' = <<>>

GoesOn ==
  /\ Initialized
  /\ gameState' \in GameState
  /\ Successor(gameState, gameState')
  /\ history' = Append(history, gameState)

GoesBack ==
  /\ Initialized
  /\ \E i \in 1..Len(Timeline) :
       /\ gameState' = Timeline[i]
       /\ history' = SubSeq(Timeline, 1, i - 1)

GameStep ==
  \/ UNCHANGED <<gameState, history>>
  \/ StartsAfresh
  \/ GoesOn
  \/ GoesBack

\* An accepted input goes on with the game, a rejected one leaves it.
LEMMA AdvanceGoesOn ==
  ASSUME WorkerTypeOK, Initialized,
         \/ /\ gameState' \in GameState
            /\ Successor(gameState, gameState')
            /\ Advance(TRUE, gameState')
         \/ Advance(FALSE, Null)
  PROVE  GameStep
BY DEF Advance, GameStep, GoesOn

\* A prefix of a sequence is a prefix of the sequence with one more element.
LEMMA PrefixOfAppend ==
  ASSUME NEW S, NEW h \in Seq(S), NEW s \in S, NEW k \in 0..Len(h)
  PROVE  SubSeq(Append(h, s), 1, k) = SubSeq(h, 1, k)
<1> DEFINE t == Append(h, s)
<1>1. /\ k \in Int /\ \A i \in 1..k : i \in 1..Len(h)
      /\ \A i \in 1..k : t[i] \in S /\ h[i] \in S /\ t[i] = h[i]
  OBVIOUS
<1> HIDE DEF t
<1>2. /\ SubSeq(t, 1, k) \in Seq(S)
      /\ Len(SubSeq(t, 1, k)) = IF 1 <= k THEN k - 1 + 1 ELSE 0
      /\ \A i \in 1..(k - 1 + 1) : SubSeq(t, 1, k)[i] = t[1 + i - 1]
  BY <1>1, SubSeqProperties
<1>3. /\ SubSeq(h, 1, k) \in Seq(S)
      /\ Len(SubSeq(h, 1, k)) = IF 1 <= k THEN k - 1 + 1 ELSE 0
      /\ \A i \in 1..(k - 1 + 1) : SubSeq(h, 1, k)[i] = h[1 + i - 1]
  BY <1>1, SubSeqProperties
<1>4. \A i \in 1..Len(SubSeq(t, 1, k)) : SubSeq(t, 1, k)[i] = SubSeq(h, 1, k)[i]
  BY <1>1, <1>2, <1>3
<1>5. SubSeq(t, 1, k) = SubSeq(h, 1, k)
  BY <1>2, <1>3, <1>4, SeqEqual
<1> QED BY <1>5 DEF t

\* Undo goes back to the last state of the history.
LEMMA UndoGoesBack ==
  ASSUME WorkerTypeOK, HistoryIsAPlay, history # <<>>,
         gameState' = history[Len(history)],
         history' = SubSeq(history, 1, Len(history) - 1)
  PROVE  GoesBack
<1> DEFINE n == Len(history)
<1>1. Initialized /\ gameState \in GameState
  BY DEF HistoryIsAPlay, WorkerTypeOK, Initialized
<1>2. /\ n \in Nat \ {0} /\ history \in Seq(GameState)
      /\ Timeline \in Seq(GameState) /\ Len(Timeline) = n + 1
      /\ \A i \in 1..n : Timeline[i] = history[i]
  BY <1>1 DEF WorkerTypeOK, Timeline
<1>3. SubSeq(Timeline, 1, n - 1) = SubSeq(history, 1, n - 1)
  BY <1>1, <1>2, PrefixOfAppend DEF Timeline
<1>4. n \in 1..Len(Timeline) /\ Timeline[n] = history[n]
  BY <1>2
<1> QED BY <1>1, <1>3, <1>4 DEF GoesBack

\* A mutating call leaves the game, starts one, goes on or goes back.
LEMMA MutatingCallGameStep ==
  ASSUME WorkerTypeOK, HistoryIsAPlay, NEW stamp, MutatingCall(stamp)
  PROVE  GameStep
<1>1. ASSUME RejectStale(stamp) \/ RejectUninitialized
      PROVE  GameStep
  BY <1>1 DEF RejectStale, RejectUninitialized, GameStep
<1>2. ASSUME NEW seed \in Seed, InitState(seed)
      PROVE  GameStep
  BY <1>2 DEF InitState, GameStep, StartsAfresh
<1>3. ASSUME NEW seed \in Seed,
             \/ InitWorker(seed, stamp)
             \/ LoadFromUrl(seed, stamp)
             \/ \E defGiven \in BOOLEAN : Reset(seed, defGiven, stamp)
      PROVE  GameStep
  BY <1>1, <1>2, <1>3 DEF InitWorker, LoadFromUrl, Reset, SetupThrows, GameStep
<1>4. ASSUME NEW d \in Decision,
             WorkerApplyDecision(d, stamp)
      PROVE  GameStep
  <2>1. CASE RejectStale(stamp) \/ RejectUninitialized
    BY <1>1, <2>1
  <2>2. CASE ~(RejectStale(stamp) \/ RejectUninitialized)
    <3>1. Initialized /\ gameState \in GameState
      BY <1>4, <2>2 DEF WorkerApplyDecision, Initialized, WorkerTypeOK
    <3>2. d \in LegalActions(gameState) =>
            /\ ApplyDecision(gameState, d) \in GameState
            /\ Successor(gameState, ApplyDecision(gameState, d))
      BY <3>1, GameAssumption DEF Successor
    <3>3. \/ /\ gameState' \in GameState
             /\ Successor(gameState, gameState')
             /\ Advance(TRUE, gameState')
          \/ Advance(FALSE, Null)
      BY <1>4, <2>2, <3>2 DEF WorkerApplyDecision, Advance
    <3> QED BY <3>1, <3>3, AdvanceGoesOn
  <2> QED BY <2>1, <2>2
<1>5. ASSUME AdvanceAutoresolvable(stamp)
      PROVE  GameStep
  <2>1. CASE RejectStale(stamp) \/ RejectUninitialized
    BY <1>1, <2>1
  <2>2. CASE ~(RejectStale(stamp) \/ RejectUninitialized)
    <3>1. Initialized /\ gameState \in GameState
      BY <1>5, <2>2 DEF AdvanceAutoresolvable, Initialized, WorkerTypeOK
    <3>2. /\ Autoresolve(gameState) \in GameState
          /\ Successor(gameState, Autoresolve(gameState))
      BY <3>1, GameAssumption DEF Successor
    <3>3. \/ /\ gameState' \in GameState
             /\ Successor(gameState, gameState')
             /\ Advance(TRUE, gameState')
          \/ Advance(FALSE, Null)
      BY <1>5, <2>2, <3>2 DEF AdvanceAutoresolvable, Advance
    <3> QED BY <3>1, <3>3, AdvanceGoesOn
  <2> QED BY <2>1, <2>2
<1>6. ASSUME NEW m \in Move,
             WorkerApplyReplayMove(m, stamp)
      PROVE  GameStep
  <2>1. CASE RejectStale(stamp) \/ RejectUninitialized
    BY <1>1, <2>1
  <2>2. CASE ~(RejectStale(stamp) \/ RejectUninitialized)
    <3>1. Initialized /\ gameState \in GameState
      BY <1>6, <2>2 DEF WorkerApplyReplayMove, Initialized, WorkerTypeOK
    <3>2. m \in LegalMoves(gameState) =>
            /\ ApplyMove(gameState, m) \in GameState
            /\ Successor(gameState, ApplyMove(gameState, m))
      BY <3>1, GameAssumption DEF Successor
    <3>3. \/ /\ gameState' \in GameState
             /\ Successor(gameState, gameState')
             /\ Advance(TRUE, gameState')
          \/ Advance(FALSE, Null)
      BY <1>6, <2>2, <3>2 DEF WorkerApplyReplayMove, Advance
    <3> QED BY <3>1, <3>3, AdvanceGoesOn
  <2> QED BY <2>1, <2>2
<1>7. ASSUME NEW moves \in Histories,
             PlaySequence(moves, stamp)
      PROVE  GameStep
  BY <1>1, <1>7 DEF PlaySequence, GameStep
<1>8. ASSUME NEW turnId \in TurnId,
             RewindToTurnBoundary(turnId, stamp)
      PROVE  GameStep
  BY <1>1, <1>8 DEF RewindToTurnBoundary, GameStep, GoesBack, Timeline
<1>9. ASSUME Undo(stamp)
      PROVE  GameStep
  BY <1>1, <1>9, UndoGoesBack DEF Undo, GameStep
<1> QED BY <1>3, <1>4, <1>5, <1>6, <1>7, <1>8, <1>9 DEF MutatingCall

\* So does an iteration of playSequence.
LEMMA ReplayStepGameStep ==
  ASSUME WorkerTypeOK, ReplayStep
  PROVE  GameStep
<1>1. Initialized /\ gameState \in GameState
  BY DEF ReplayStep, WorkerTypeOK, Initialized
<1>2. CASE Head(replayQueue) \in LegalMoves(gameState)
  <2>1. /\ gameState' = ApplyMove(gameState, Head(replayQueue))
        /\ history' = Append(history, gameState)
    BY <1>2 DEF ReplayStep
  <2>2. gameState' \in GameState /\ Successor(gameState, gameState')
    BY <1>1, <1>2, <2>1, GameAssumption DEF Successor
  <2> QED BY <1>1, <2>1, <2>2 DEF GameStep, GoesOn
<1>3. CASE Head(replayQueue) \notin LegalMoves(gameState)
  BY <1>3 DEF ReplayStep, GameStep
<1> QED BY <1>2, <1>3

\* And so does every step of the worker.
LEMMA WorkerGameStep ==
  ASSUME WorkerTypeOK, HistoryIsAPlay, [WorkerNext]_workerVars
  PROVE  GameStep
<1>1. ASSUME NEW method, Read(method)
      PROVE  GameStep
  BY <1>1 DEF Read, GameStep
<1>2. ASSUME NEW f \in fetches, LoadSettles(f)
      PROVE  GameStep
  BY <1>2 DEF LoadSettles, InitState, GameStep, StartsAfresh, WorkerTypeOK
<1>3. CASE UNCHANGED workerVars
  BY <1>3 DEF workerVars, GameStep
<1> QED BY <1>1, <1>2, <1>3, MutatingCallGameStep, ReplayStepGameStep
           DEF WorkerNext

\* HistoryIsAPlay in terms of IsPlay.
LEMMA HistoryIsAPlayAsPlay ==
  HistoryIsAPlay <=> /\ history # <<>> => Initialized
                     /\ Initialized => IsPlay(history, gameState)
BY DEF HistoryIsAPlay, IsPlay, Timeline

\* No step of the game can turn a play into something else.
LEMMA GameStepKeepsPlay ==
  ASSUME WorkerTypeOK, HistoryIsAPlay, GameStep
  PROVE  HistoryIsAPlay'
<1> DEFINE PlayNext == /\ history' # <<>> => Initialized'
                       /\ Initialized' => IsPlay(history', gameState')
<1>1. PlayNext => HistoryIsAPlay'
  BY DEF HistoryIsAPlay, IsPlay, Timeline
<1>2. CASE UNCHANGED <<gameState, history>>
  BY <1>1, <1>2, HistoryIsAPlayAsPlay DEF Initialized
<1>3. CASE StartsAfresh
  BY <1>1, <1>3, FreshPlay, GameAssumption DEF StartsAfresh, Initialized
<1>4. CASE GoesOn
  <2>1. /\ history \in Seq(GameState) /\ gameState \in GameState
        /\ IsPlay(history, gameState)
    BY <1>4, HistoryIsAPlayAsPlay DEF GoesOn, WorkerTypeOK, Initialized
  <2>2. IsPlay(history', gameState')
    BY <1>4, <2>1, PlayExtends DEF GoesOn
  <2> QED BY <1>1, <1>4, <2>2, GameAssumption DEF GoesOn, Initialized
<1>5. CASE GoesBack
  <2>1. /\ history \in Seq(GameState) /\ gameState \in GameState
        /\ IsPlay(history, gameState)
    BY <1>5, HistoryIsAPlayAsPlay DEF GoesBack, WorkerTypeOK, Initialized
  <2>2. PICK i \in 1..Len(Timeline) :
          /\ gameState' = Timeline[i]
          /\ history' = SubSeq(Timeline, 1, i - 1)
    BY <1>5 DEF GoesBack
  <2>3. i \in 1..(Len(history) + 1) /\ Timeline[i] \in GameState
    BY <2>1 DEF Timeline
  <2>4. IsPlay(history', gameState')
    BY <2>1, <2>2, <2>3, PlayCut DEF Timeline
  <2> QED BY <1>1, <2>2, <2>3, <2>4, GameAssumption DEF Initialized
<1> QED BY <1>2, <1>3, <1>4, <1>5 DEF GameStep

\* The history and the present state are a play of the engine that starts with
\* a fresh game, after any mixture of calls (HistoryIsAPlay).
THEOREM HistoryAlwaysAPlay == WorkerSpec => []HistoryIsAPlay
<1>1. WorkerInit => HistoryIsAPlay
  BY DEF WorkerInit, HistoryIsAPlay, Initialized
<1>2. WorkerTypeOK /\ HistoryIsAPlay /\ [WorkerNext]_workerVars => HistoryIsAPlay'
  BY GameStepKeepsPlay, WorkerGameStep
<1> QED BY <1>1, <1>2, WorkerTypeCorrect, PTL DEF WorkerSpec

-----------------------------------------------------------------------------
(* What a step may never do.                                               *)

\* A call that is rejected changes neither the game nor its history
\* (RejectedCallsChangeNothing).
THEOREM RejectionIsHarmless == WorkerSpec => RejectedCallsChangeNothing
<1> DEFINE Harmless ==
      Available /\ reply' # reply /\ reply'.code \in ErrorCode
        => UNCHANGED <<gameState, history>>
<1>1. WorkerNext => Harmless
  <2> SUFFICES ASSUME WorkerNext, Available, reply' # reply,
                      reply'.code \in ErrorCode
               PROVE  UNCHANGED <<gameState, history>>
    OBVIOUS
  <2>1. \A v : reply' # Ok(v)
    BY DEF Ok, ErrorCode
  <2>2. ASSUME NEW stamp, RejectStale(stamp) \/ RejectUninitialized
        PROVE  UNCHANGED <<gameState, history>>
    BY <2>2 DEF RejectStale, RejectUninitialized
  <2>3. ASSUME NEW seed PROVE ~InitState(seed)
    BY <2>1 DEF InitState
  <2>4. ASSUME NEW legal \in BOOLEAN, NEW next, Advance(legal, next)
        PROVE  UNCHANGED <<gameState, history>>
    BY <2>1, <2>4 DEF Advance
  <2>5. ASSUME NEW stamp \in Stamps,
               \/ \E seed \in Seed :
                    \/ InitWorker(seed, stamp)
                    \/ LoadFromUrl(seed, stamp)
                    \/ \E defGiven \in BOOLEAN : Reset(seed, defGiven, stamp)
               \/ Undo(stamp)
               \/ \E moves \in Histories : PlaySequence(moves, stamp)
        PROVE  UNCHANGED <<gameState, history>>
    BY <2>1, <2>2, <2>3, <2>5
       DEF InitWorker, LoadFromUrl, Reset, SetupThrows, Undo, PlaySequence
  <2>6. ASSUME NEW stamp \in Stamps,
               \/ \E d \in Decision : WorkerApplyDecision(d, stamp)
               \/ AdvanceAutoresolvable(stamp)
               \/ \E m \in Move : WorkerApplyReplayMove(m, stamp)
        PROVE  UNCHANGED <<gameState, history>>
    BY <2>1, <2>2, <2>6
       DEF WorkerApplyDecision, AdvanceAutoresolvable, WorkerApplyReplayMove,
           Advance
  <2>7. ASSUME NEW stamp \in Stamps, NEW turnId \in TurnId,
               RewindToTurnBoundary(turnId, stamp)
        PROVE  UNCHANGED <<gameState, history>>
    BY <2>1, <2>2, <2>7 DEF RewindToTurnBoundary
  <2>8. ASSUME NEW f \in fetches, LoadSettles(f)
        PROVE  UNCHANGED <<gameState, history>>
    BY <2>3, <2>8 DEF LoadSettles
  <2>9. ~ReplayStep /\ \A method : Read(method) => UNCHANGED <<gameState, history>>
    BY DEF ReplayStep, Read
  <2> QED BY <2>5, <2>6, <2>7, <2>8, <2>9 DEF WorkerNext, MutatingCall
<1>2. [WorkerNext]_workerVars => [Harmless]_workerVars
  BY <1>1
<1> QED BY <1>2, PTL DEF WorkerSpec, RejectedCallsChangeNothing

\* Only the newest stamp changes the game (OnlyTheNewestStampActs): the call
\* that brings it, the loop it started, or the fetch it started.
THEOREM NewestStampOnly == WorkerSpec => OnlyTheNewestStampActs
<1> DEFINE ByNewest ==
      \/ UNCHANGED <<gameState, history>>
      \/ latestStamp = Null
      \/ Newer(latestStamp', latestStamp)
      \/ ~Available
      \/ \E f \in fetches \ fetches' : f.stamp = latestStamp
<1>1. WorkerNext => ByNewest
  <2> SUFFICES ASSUME WorkerNext, Available PROVE ByNewest
    OBVIOUS
  <2>1. ASSUME NEW stamp, RejectStale(stamp) \/ RejectUninitialized
        PROVE  ByNewest
    BY <2>1 DEF RejectStale, RejectUninitialized
  <2>2. ASSUME NEW stamp, Fresh(stamp), latestStamp' = stamp
        PROVE  ByNewest
    BY <2>2 DEF Fresh
  <2>3. ASSUME NEW stamp \in Stamps,
               \/ \E seed \in Seed :
                    \/ InitWorker(seed, stamp)
                    \/ LoadFromUrl(seed, stamp)
                    \/ \E defGiven \in BOOLEAN : Reset(seed, defGiven, stamp)
               \/ \E d \in Decision : WorkerApplyDecision(d, stamp)
               \/ AdvanceAutoresolvable(stamp)
               \/ \E m \in Move : WorkerApplyReplayMove(m, stamp)
               \/ \E moves \in Histories : PlaySequence(moves, stamp)
               \/ \E turnId \in TurnId : RewindToTurnBoundary(turnId, stamp)
               \/ Undo(stamp)
        PROVE  ByNewest
    <3>1. \/ RejectStale(stamp) \/ RejectUninitialized
          \/ Fresh(stamp) /\ latestStamp' = stamp
      BY <2>3 DEF InitWorker, LoadFromUrl, Reset, WorkerApplyDecision,
                  AdvanceAutoresolvable, WorkerApplyReplayMove, PlaySequence,
                  RewindToTurnBoundary, Undo
    <3> QED BY <2>1, <2>2, <3>1
  <2>4. ASSUME NEW f \in fetches, LoadSettles(f)
        PROVE  ByNewest
    BY <2>4 DEF LoadSettles
  <2>5. ~ReplayStep /\ \A method : Read(method) => UNCHANGED <<gameState, history>>
    BY DEF ReplayStep, Read
  <2> QED BY <2>3, <2>4, <2>5 DEF WorkerNext, MutatingCall
<1>2. [WorkerNext]_workerVars => [ByNewest]_workerVars
  BY <1>1
<1> QED BY <1>2, PTL DEF WorkerSpec, OnlyTheNewestStampActs

=============================================================================
