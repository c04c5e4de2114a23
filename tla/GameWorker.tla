----------------------------- MODULE GameWorker -----------------------------
(***************************************************************************)
(* The web worker that owns the authoritative game                         *)
(* (packages/runner/src/worker/game-worker-api.ts).  Its closure variables *)
(* are the variables below; every exported asynchronous method is an       *)
(* action.  A method runs to completion between two messages, except       *)
(* loadFromUrl, which awaits a fetch and resumes later, and playSequence,  *)
(* whose loop is one action per move during which no other method runs.    *)
(*                                                                         *)
(* Mutating methods carry a stamp.  A stamp that is not newer than the     *)
(* last accepted one is rejected, and it is accepted before the work it    *)
(* admits is attempted: a method that then throws has used it up.          *)
(***************************************************************************)
EXTENDS GameRules

CONSTANTS
  Stamps,       \* stamps the clients use
  Histories     \* move histories given to playSequence

ASSUME WorkerAssumption ==
  /\ Stamps \subseteq [epoch : Nat, token : Nat]
  /\ Histories \subseteq Seq(Move)
  /\ Null \notin [epoch : Nat, token : Nat]

VARIABLES
  gameState,    \* state: the authoritative game state, or Null
  history,      \* history: the states before each applied input, oldest first
  latestStamp,  \* latestMutationStamp, or Null
  replayQueue,  \* the moves the running playSequence has still to apply
  fetches,      \* loadFromUrl calls awaiting their fetch
  reply         \* how the last method call settled

workerVars == <<gameState, history, latestStamp, replayQueue, fetches, reply>>

Stamp == [epoch : Nat, token : Nat]

ErrorCode == {"STALE_OPERATION", "NOT_INITIALIZED", "ILLEGAL_MOVE",
              "INTERNAL_ERROR", "VALIDATION_FAILED"}

\* "busy" is the loop of playSequence: the method has not settled yet.
Reply == [code : ErrorCode \cup {"ok", "busy"}, value : GameState \cup {Null}]

Ok(v) == [code |-> "ok", value |-> v]
Reject(code) == [code |-> code, value |-> Null]
Busy == [code |-> "busy", value |-> Null]

\* Mutant of Newer: the token does not break a tie of the epochs.
NotOlderEpoch(left, right) == left.epoch >= right.epoch

\* compareOperationStamp(left, right) > 0
Newer(left, right) ==
  \/ left.epoch > right.epoch
  \/ left.epoch = right.epoch /\ left.token > right.token

\* ensureFreshMutation does not throw
Fresh(stamp) ==
  IF latestStamp = Null THEN TRUE ELSE Newer(stamp, latestStamp)

Initialized == gameState # Null

\* No playSequence loop is running, so the worker can take the next message.
Available == reply.code # "busy"

-----------------------------------------------------------------------------
(* The calls a mutating method rejects.                                    *)

RejectStale(stamp) ==
  /\ ~Fresh(stamp)
  /\ reply' = Reject("STALE_OPERATION")
  /\ UNCHANGED <<gameState, history, latestStamp, replayQueue, fetches>>

RejectUninitialized ==
  /\ ~Initialized
  /\ reply' = Reject("NOT_INITIALIZED")
  /\ UNCHANGED <<gameState, history, latestStamp, replayQueue, fetches>>

\* Mutant of InitState: the history of the old game is kept.
InitStateKeepingHistory(seed) ==
  /\ gameState' = InitialState(seed)
  /\ UNCHANGED history
  /\ reply' = Ok(InitialState(seed))

\* initState: a new game forgets the old one and its history.
InitState(seed) ==
  /\ gameState' = InitialState(seed)
  /\ history' = <<>>
  /\ reply' = Ok(InitialState(seed))

\* The engine throws while it sets up the game: nothing was assigned yet.
SetupThrows ==
  /\ reply' = Reject("INTERNAL_ERROR")
  /\ UNCHANGED <<gameState, history>>

-----------------------------------------------------------------------------
(* The mutating methods, each given the stamp of its call.                 *)

InitWorker(seed, stamp) ==
  /\ Available
  /\ \/ RejectStale(stamp)
     \/ /\ Fresh(stamp)
        /\ latestStamp' = stamp
        /\ InitState(seed) \/ SetupThrows
        /\ UNCHANGED <<replayQueue, fetches>>

\* Mutant of Advance: the pushed state is not popped when the engine throws.
AdvanceWithoutPop(legal, next) ==
  /\ history' = Append(history, gameState)
  /\ gameState' = IF legal THEN next ELSE gameState
  /\ reply' = IF legal THEN Ok(next) ELSE Reject("ILLEGAL_MOVE")

\* The engine's answer to one input: the state before it is pushed on the
\* history, and popped again when the engine throws.
Advance(legal, next) ==
  \/ /\ legal
     /\ gameState' = next
     /\ history' = Append(history, gameState)
     /\ reply' = Ok(next)
  \/ /\ ~legal
     /\ reply' = Reject("ILLEGAL_MOVE")
     /\ UNCHANGED <<gameState, history>>

\* applyDecision: assertInitialized comes first, so a call before init leaves
\* the stamp unused.
WorkerApplyDecision(d, stamp) ==
  /\ Available
  /\ \/ RejectUninitialized
     \/ Initialized /\ RejectStale(stamp)
     \/ /\ Initialized
        /\ Fresh(stamp)
        /\ latestStamp' = stamp
        /\ Advance(d \in LegalActions(gameState), ApplyDecision(gameState, d))
        /\ UNCHANGED <<replayQueue, fetches>>

WorkerApplyReplayMove(m, stamp) ==
  /\ Available
  /\ \/ RejectUninitialized
     \/ Initialized /\ RejectStale(stamp)
     \/ /\ Initialized
        /\ Fresh(stamp)
        /\ latestStamp' = stamp
        /\ Advance(m \in LegalMoves(gameState), ApplyMove(gameState, m))
        /\ UNCHANGED <<replayQueue, fetches>>

\* advanceAutoresolvable: history grows even when there was nothing to resolve.
\* The engine throws when its chain of automatic decisions gets too long.
AdvanceAutoresolvable(stamp) ==
  /\ Available
  /\ \/ RejectUninitialized
     \/ Initialized /\ RejectStale(stamp)
     \/ /\ Initialized
        /\ Fresh(stamp)
        /\ latestStamp' = stamp
        /\ \E resolved \in BOOLEAN : Advance(resolved, Autoresolve(gameState))
        /\ UNCHANGED <<replayQueue, fetches>>

\* Mutant of PlaySequence: an empty list of moves enters the loop as well.
PlaySequenceAlwaysLoops(moves, stamp) ==
  /\ Available
  /\ Initialized
  /\ Fresh(stamp)
  /\ latestStamp' = stamp
  /\ replayQueue' = moves
  /\ reply' = Busy
  /\ UNCHANGED <<gameState, history, fetches>>

\* playSequence checks its stamp once, then applies the moves in a loop.
PlaySequence(moves, stamp) ==
  /\ Available
  /\ \/ RejectUninitialized
     \/ Initialized /\ RejectStale(stamp)
     \/ /\ Initialized
        /\ Fresh(stamp)
        /\ latestStamp' = stamp
        /\ replayQueue' = moves
        /\ reply' = IF moves = <<>> THEN Ok(gameState) ELSE Busy
        /\ UNCHANGED <<gameState, history, fetches>>

\* One iteration.  A move the engine rejects ends the loop; the moves before
\* it stay applied.
ReplayStep ==
  /\ ~Available
  /\ \/ /\ Head(replayQueue) \in LegalMoves(gameState)
        /\ gameState' = ApplyMove(gameState, Head(replayQueue))
        /\ history' = Append(history, gameState)
        /\ replayQueue' = Tail(replayQueue)
        /\ reply' = IF Tail(replayQueue) = <<>> THEN Ok(gameState') ELSE Busy
     \/ /\ Head(replayQueue) \notin LegalMoves(gameState)
        /\ replayQueue' = <<>>
        /\ reply' = Reject("ILLEGAL_MOVE")
        /\ UNCHANGED <<gameState, history>>
  /\ UNCHANGED <<latestStamp, fetches>>

TurnId == {NextTurnId(s) : s \in GameState}

\* isTurnBoundaryState
IsTurnBoundary(s, turnId) == DecisionStackEmpty(s) /\ NextTurnId(s) = turnId

\* rewindToTurnBoundary: the most recent boundary of the turn, the present
\* state included; what follows it is dropped from the history.
RewindToTurnBoundary(turnId, stamp) ==
  /\ Available
  /\ \/ RejectStale(stamp)
     \/ /\ Fresh(stamp)
        /\ latestStamp' = stamp
        /\ LET timeline == Append(history, gameState)
               boundary(i) == IsTurnBoundary(timeline[i], turnId)
               matches == {i \in 1..Len(timeline) : boundary(i)}
           IN  \/ /\ ~Initialized
                  /\ reply' = Reject("NOT_INITIALIZED")
                  /\ UNCHANGED <<gameState, history>>
               \/ /\ Initialized
                  /\ matches = {}
                  /\ reply' = Ok(Null)
                  /\ UNCHANGED <<gameState, history>>
               \/ /\ Initialized
                  /\ \E i \in matches :
                       /\ \A j \in matches : j <= i
                       /\ gameState' = timeline[i]
                       /\ history' = SubSeq(timeline, 1, i - 1)
                       /\ reply' = Ok(timeline[i])
        /\ UNCHANGED <<replayQueue, fetches>>

\* undo: Null when there is nothing to undo.
Undo(stamp) ==
  /\ Available
  /\ \/ RejectStale(stamp)
     \/ /\ Fresh(stamp)
        /\ latestStamp' = stamp
        /\ \/ /\ history = <<>>
              /\ reply' = Ok(Null)
              /\ UNCHANGED <<gameState, history>>
           \/ /\ history # <<>>
              /\ gameState' = history[Len(history)]
              /\ history' = SubSeq(history, 1, Len(history) - 1)
              /\ reply' = Ok(gameState')
        /\ UNCHANGED <<replayQueue, fetches>>

\* reset without a GameDef reuses the loaded one, which exists exactly when a
\* game does.
Reset(seed, defGiven, stamp) ==
  /\ Available
  /\ \/ RejectStale(stamp)
     \/ /\ Fresh(stamp)
        /\ latestStamp' = stamp
        /\ \/ (defGiven \/ Initialized) /\ (InitState(seed) \/ SetupThrows)
           \/ /\ ~defGiven /\ ~Initialized
              /\ reply' = Reject("NOT_INITIALIZED")
              /\ UNCHANGED <<gameState, history>>
        /\ UNCHANGED <<replayQueue, fetches>>

\* loadFromUrl up to its await: the stamp is taken, the fetch is on its way.
LoadFromUrl(seed, stamp) ==
  /\ Available
  /\ \/ RejectStale(stamp)
     \/ /\ Fresh(stamp)
        /\ latestStamp' = stamp
        /\ fetches' = fetches \cup {[seed |-> seed, stamp |-> stamp]}
        /\ UNCHANGED <<gameState, history, replayQueue, reply>>

\* Mutant of LoadSettles: the stamp is not compared again after the await.
LoadSettlesUnchecked(f) ==
  /\ Available
  /\ f \in fetches
  /\ fetches' = fetches \ {f}
  /\ InitState(f.seed)
  /\ UNCHANGED <<latestStamp, replayQueue>>

\* ... and after it: the fetch or the validation failed, a newer mutation was
\* accepted meanwhile, or the fetched game replaces the current one.
LoadSettles(f) ==
  /\ Available
  /\ f \in fetches
  /\ fetches' = fetches \ {f}
  /\ \/ /\ reply' = Reject("VALIDATION_FAILED")
        /\ UNCHANGED <<gameState, history>>
     \/ /\ f.stamp # latestStamp
        /\ reply' = Reject("STALE_OPERATION")
        /\ UNCHANGED <<gameState, history>>
     \/ f.stamp = latestStamp /\ InitState(f.seed)
  /\ UNCHANGED <<latestStamp, replayQueue>>

ReadMethod ==
  {"publishMicroturn", "terminalResult", "getState", "describeAction"}

\* publishMicroturn, terminalResult, getState and describeAction only read.
\* The reply names the state that was read.  The engine publishes no microturn
\* without a legal action: it throws, as in a finished game that offers none.
Read(method) ==
  /\ Available
  /\ reply' = IF ~Initialized THEN Reject("NOT_INITIALIZED")
              ELSE IF method = "publishMicroturn" /\ LegalActions(gameState) = {}
              THEN Reject("INTERNAL_ERROR")
              ELSE Ok(gameState)
  /\ UNCHANGED <<gameState, history, latestStamp, replayQueue, fetches>>

-----------------------------------------------------------------------------
(* A worker with unconstrained clients: any method, any stamp, any order.  *)

WorkerInit ==
  /\ gameState = Null
  /\ history = <<>>
  /\ latestStamp = Null
  /\ replayQueue = <<>>
  /\ fetches = {}
  /\ reply = Ok(Null)

\* A call of a mutating method with the given stamp.
MutatingCall(stamp) ==
  \/ \E seed \in Seed :
       \/ InitWorker(seed, stamp)
       \/ LoadFromUrl(seed, stamp)
       \/ \E defGiven \in BOOLEAN : Reset(seed, defGiven, stamp)
  \/ \E d \in Decision : WorkerApplyDecision(d, stamp)
  \/ AdvanceAutoresolvable(stamp)
  \/ \E m \in Move : WorkerApplyReplayMove(m, stamp)
  \/ \E moves \in Histories : PlaySequence(moves, stamp)
  \/ \E turnId \in TurnId : RewindToTurnBoundary(turnId, stamp)
  \/ Undo(stamp)

WorkerNext ==
  \/ \E stamp \in Stamps : MutatingCall(stamp)
  \/ \E method \in ReadMethod : Read(method)
  \/ \E f \in fetches : LoadSettles(f)
  \/ ReplayStep

WorkerSpec == WorkerInit /\ [][WorkerNext]_workerVars

-----------------------------------------------------------------------------
(* Properties.                                                             *)

\* The variables have the shapes the worker's types give them; while the loop
\* of playSequence runs there is a game and a next move.
WorkerTypeOK ==
  /\ gameState \in GameState \cup {Null}
  /\ history \in Seq(GameState)
  /\ latestStamp \in Stamp \cup {Null}
  /\ replayQueue \in Seq(Move)
  /\ fetches \subseteq [seed : Seed, stamp : Stamp]
  /\ reply \in Reply
  /\ replayQueue # <<>> <=> ~Available
  /\ ~Available => Initialized

\* Every state the game went through, oldest first, up to the present one.
Timeline == Append(history, gameState)

\* The history is always a real play: it starts with a freshly initialised
\* game and each state follows from the one before it in one engine call,
\* whatever mixture of decisions, replays, rewinds, undos, resets, fetched
\* games and rejected calls produced it.  So undo and rewind can only reach
\* states of the game that is being played.
HistoryIsAPlay ==
  /\ history # <<>> => Initialized
  /\ Initialized =>
       /\ \E g \in Seed : Timeline[1] = InitialState(g)
       /\ \A i \in 1..Len(history) : Successor(Timeline[i], Timeline[i + 1])

\* A call that is rejected leaves the game and its history as they were.  (A
\* playSequence that fails half-way is the exception: the worker is not
\* Available when its loop rejects a move.)
RejectedCallsChangeNothing ==
  [][Available /\ reply' # reply /\ reply'.code \in ErrorCode
       => UNCHANGED <<gameState, history>>]_workerVars

\* The game only changes on behalf of the newest stamp the worker has seen:
\* by the call that brings it, by its playSequence loop, or by its fetch
\* coming back.  A fetch overtaken by any later mutation changes nothing.
OnlyTheNewestStampActs ==
  [][\/ UNCHANGED <<gameState, history>>
     \/ latestStamp = Null
     \/ Newer(latestStamp', latestStamp)
     \/ ~Available
     \/ \E f \in fetches \ fetches' : f.stamp = latestStamp]_workerVars

=============================================================================
