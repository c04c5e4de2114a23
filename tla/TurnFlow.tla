------------------------------ MODULE TurnFlow ------------------------------
(***************************************************************************)
(* The card-driven turn flow of the engine: kernel/turn-flow-lifecycle.ts  *)
(* (the cards), turn-flow-eligibility.ts (who may act on a card),          *)
(* phase-advance.ts (the loop that runs from a move to the next decision)  *)
(* and the part of apply-move.ts that consumes free-operation grants.      *)
(*                                                                         *)
(* A card is played and another lies in wait.  Two of the eligible seats   *)
(* act on it, in the order the card gives; then it is retired and the next *)
(* one is promoted.  A coup card starts a round of phases of its own.      *)
(*                                                                         *)
(* A move is one action.  The loop after it, advanceToDecisionPoint, is    *)
(* one action per iteration, with mode "advance".  Which moves are legal   *)
(* is the business of the game's rules: here a seat that may act has or    *)
(* has not a legal move, as it pleases.                                    *)
(***************************************************************************)
EXTENDS Grants, Sequences

CONSTANTS
  Cards, Coups,   \* the cards, and the coup cards among them
  Decks,          \* the shuffled decks a game may start with: every card once
  OrderOf,        \* the seat order on a card, Null when it has none
  EventOf,        \* the event of a card, Null when it has none
  DefaultOrder,   \* flow.eligibility.seats
  CoupOrder,      \* coupPlan.seatOrder, or Null
  MainPhases, CoupPhases, FinalOmit,  \* FinalOmit: finalRoundOmitPhases
  MaxRounds,      \* coupPlan.maxConsecutiveRounds, or Null
  Accumulating,   \* the played pile is the discard pile (resolveDiscardZone)
  OptionMatrix,   \* the classes a second action may have after a first one
  MaxActions      \* bound: actions on one card that are not a pass

Orders == {order \in [1..Cardinality(Seats) -> Seats] :
             \A s \in Seats : \E i \in DOMAIN order : order[i] = s}

Classes == {"event", "operation"}

\* What an event does to the turn flow: grants, overrides of the eligibility
\* on this card and on the next one (at most one of a seat), a deferred effect
Overrides == SUBSET [seat : Seats \cup {Null}, eligible : BOOLEAN]

IsEvent(e) ==
  /\ DOMAIN e = {"grants", "now", "later", "defers"}
  /\ e.grants \subseteq Declaration /\ IsFiniteSet(e.grants)
  /\ \A c, d \in e.grants : c.index = d.index => c = d
  /\ \A d \in e.grants : WithinContract(d)
  /\ e.now \in Overrides /\ e.later \in Overrides /\ e.defers \in BOOLEAN

InCoupPhase(p) == \E i \in DOMAIN CoupPhases : CoupPhases[i] = p

Phases == {MainPhases[i] : i \in DOMAIN MainPhases}
            \cup {CoupPhases[i] : i \in DOMAIN CoupPhases}

\* maxAutoAdvancesPerMove
MaxAdvances ==
  2 * Cardinality(Seats) * (Len(MainPhases) + Len(CoupPhases)) + 1

ASSUME TurnFlowAssumption ==
  /\ IsFiniteSet(Seats) /\ Seats # {}
  /\ Coups \subseteq Cards /\ Null \notin Cards
  /\ IsFiniteSet(Cards) /\ Cardinality(Cards) > 1
  /\ \A d \in Decks :
       /\ d \in [1..Cardinality(Cards) -> Cards] /\ d[1] \notin Coups
       /\ \A c \in Cards : \E i \in DOMAIN d : d[i] = c
  /\ OrderOf \in [Cards -> Orders \cup {Null}]
  /\ \A c \in Cards : EventOf[c] = Null \/ IsEvent(EventOf[c])
  /\ DefaultOrder \in Orders
  /\ CoupOrder = Null \/ CoupOrder \in Orders
  /\ MainPhases \in Seq(Phases) /\ CoupPhases \in Seq(Phases)
  /\ MainPhases # <<>> /\ \A i \in DOMAIN MainPhases : ~InCoupPhase(MainPhases[i])
  /\ CoupPhases # <<>> /\ CoupPhases[1] \notin FinalOmit
  /\ \A p \in FinalOmit : InCoupPhase(p)
  /\ MaxRounds = Null \/ MaxRounds \in Nat
  /\ OptionMatrix \in [Classes -> SUBSET Classes]
  /\ MaxActions \in Nat

VARIABLES
  zones,      \* the piles of cards, top first
  phase,      \* currentPhase
  seatOrder,  \* runtime.seatOrder
  eligible,   \* runtime.eligibility
  card,       \* runtime.currentCard
  overrides,  \* pendingEligibilityOverrides: what the next card starts with
  grants,     \* pendingFreeOperationGrants
  deferred,   \* pendingDeferredEventEffects
  stalled,    \* lifecycleStatus.stalled
  rounds,     \* consecutiveCoupRounds
  active,     \* the seat of activePlayer
  turn,       \* turnCount
  mode,       \* "decide": a seat is asked; "advance": the loop runs;
              \* "over": the deck is exhausted; "failed": the loop gave up
  advances    \* iterations of the running loop

cardVars == <<zones, stalled, rounds>>
seatVars == <<seatOrder, eligible, card, active>>
grantVars == <<overrides, grants, deferred>>
turnFlowVars ==
  <<cardVars, phase, seatVars, grantVars, turn, mode, advances>>

CardStatus == [first : Seats \cup {Null}, second : Seats \cup {Null},
               acted : SUBSET Seats, passed : SUBSET Seats,
               nonPass : Nat, firstClass : Classes \cup {Null}]

Zone == {"played", "lookahead", "leader", "discard", "draw"}

TurnFlowTypeOK ==
  /\ zones \in [Zone -> Seq(Cards)]
  /\ phase \in Phases
  /\ seatOrder \in Orders
  /\ eligible \in [Seats -> BOOLEAN]
  /\ card \in CardStatus
  /\ overrides \in [Seats -> BOOLEAN \cup {Null}]
  /\ grants \subseteq Grant
  /\ deferred \subseteq [id : Nat, batches : SUBSET BatchId]
  /\ stalled \in BOOLEAN
  /\ rounds \in Nat
  /\ active \in Seats
  /\ turn \in Nat
  /\ mode \in {"decide", "advance", "over", "failed"}
  /\ advances \in Nat

-----------------------------------------------------------------------------
(* Candidates.                                                             *)

\* The first seat of an order that is in S, or Null
FirstIn(order, S) ==
  IF \E i \in DOMAIN order : order[i] \in S
  THEN order[CHOOSE i \in DOMAIN order :
               order[i] \in S /\ \A j \in 1..(i - 1) : order[j] \notin S]
  ELSE Null

SecondIn(order, S) == FirstIn(order, S \ {FirstIn(order, S)})

EligibleSeats(eligibility) == {s \in Seats : eligibility[s]}

\* currentCard at the start of a card
FreshCard(order, eligibility) ==
  [first |-> FirstIn(order, EligibleSeats(eligibility)),
   second |-> SecondIn(order, EligibleSeats(eligibility)),
   acted |-> {}, passed |-> {}, nonPass |-> 0, firstClass |-> Null]

GrantSeats(pending) == {s \in Seats : Blocking(pending, s) # {}}

\* computeCandidates, then withReadyGrantCandidates: the seats that hold a
\* blocking grant take the place of the ordinary candidates.
CandidateSeats(eligibility, acted, pending) ==
  IF GrantSeats(pending) # {} THEN GrantSeats(pending)
  ELSE EligibleSeats(eligibility) \ acted

Override(eligibility, changes) ==
  [s \in Seats |->
     LET mine == {o \in changes : o.seat = s}
     IN IF mine = {} THEN eligibility[s] ELSE (CHOOSE o \in mine : TRUE).eligible]

\* computePostCardEligibility: who acted sits out the next card, unless it
\* passed or an override says otherwise.
PostCardEligibility(status, pending) ==
  [s \in Seats |-> IF pending[s] # Null THEN pending[s]
                   ELSE s \notin status.acted \ status.passed]

\* Mutant of MayAct: whoever is active may act.
AnyoneMayAct == TRUE

\* isActiveSeatEligibleForTurnFlow
MayAct ==
  active \in {card.first, card.second} \/ Blocking(grants, active) # {}

-----------------------------------------------------------------------------
(* Coup rounds and the phases they put into effect.                        *)

CoupOnTop(piles) == piles.played # <<>> /\ Head(piles.played) \in Coups

MoreRounds(n) == MaxRounds = Null \/ n < MaxRounds

FinalRound(piles) == piles.lookahead = <<>> /\ piles.draw = <<>>

\* effectiveTurnPhases: the phases in turn, and those not left out
PhaseOrder(piles, n) ==
  IF CoupOnTop(piles) /\ MoreRounds(n) THEN CoupPhases ELSE MainPhases

InEffect(piles, n) ==
  LET order == PhaseOrder(piles, n)
  IN {order[i] : i \in DOMAIN order}
       \ (IF FinalRound(piles) THEN FinalOmit ELSE {})

FirstPhase(piles, n) == FirstIn(PhaseOrder(piles, n), InEffect(piles, n))

PhaseValid == phase \in InEffect(zones, rounds)

\* The phases in effect that come after the current one
LaterPhases ==
  LET order == PhaseOrder(zones, rounds)
  IN {order[i] : i \in {i \in DOMAIN order : \E j \in 1..(i - 1) : order[j] = phase}}
       \cap InEffect(zones, rounds)

-----------------------------------------------------------------------------
(* The card lifecycle.                                                     *)

\* moveTopToken
MoveTop(piles, from, to) ==
  IF piles[from] = <<>> THEN piles
  ELSE [piles EXCEPT ![to] = <<Head(piles[from])>> \o @, ![from] = Tail(@)]

\* applyTurnFlowInitialReveal and the zones of a new game
InitialPiles(deck) ==
  LET dealt == [[z \in Zone |-> <<>>] EXCEPT !.draw = deck]
  IN MoveTop(MoveTop(dealt, "draw", "played"), "draw", "lookahead")

\* The pile the played card goes to at the end of its card
RetirementPile ==
  IF CoupOnTop(zones) /\ MoreRounds(rounds) THEN "leader"
  ELSE IF Accumulating THEN "played" ELSE "discard"

Retired ==
  IF RetirementPile = "played" THEN zones
  ELSE MoveTop(zones, "played", RetirementPile)

\* Mutant of NextZones: the played card is dropped when it is not a coup.
DropRetired ==
  IF stalled THEN zones
  ELSE MoveTop(MoveTop([zones EXCEPT !.played = IF @ = <<>> THEN @ ELSE Tail(@)],
                       "lookahead", "played"), "draw", "lookahead")

\* Mutant of NextZones: a card is revealed before one is promoted.
RevealFirst ==
  IF stalled THEN zones
  ELSE MoveTop(MoveTop(Retired, "draw", "lookahead"), "lookahead", "played")

\* applyTurnFlowCardBoundary: retire, promote, reveal; nothing once stalled
NextZones ==
  IF stalled THEN zones
  ELSE MoveTop(MoveTop(Retired, "lookahead", "played"), "draw", "lookahead")

NextStalled == stalled \/ NextZones = zones

NextRounds ==
  CASE stalled \/ MaxRounds = Null \/ zones.played = <<>> -> rounds
    [] OTHER -> IF ~CoupOnTop(zones) THEN 0
                ELSE IF MoreRounds(rounds) THEN rounds + 1 ELSE rounds

\* resolveCardSeatOrder
OrderOnTop(piles) ==
  IF piles.played = <<>> \/ OrderOf[Head(piles.played)] = Null THEN seatOrder
  ELSE OrderOf[Head(piles.played)]

-----------------------------------------------------------------------------
(* Moves.                                                                  *)

Init ==
  /\ \E deck \in Decks : zones = InitialPiles(deck)
  /\ phase = MainPhases[1]
  /\ seatOrder = LET order == OrderOf[Head(zones.played)]
                 IN IF order = Null THEN DefaultOrder ELSE order
  /\ eligible = [s \in Seats |-> TRUE]
  /\ card = FreshCard(seatOrder, eligible)
  /\ active = card.first
  /\ overrides = [s \in Seats |-> Null]
  /\ grants = {} /\ deferred = {}
  /\ stalled = FALSE /\ rounds = 0 /\ turn = 0
  /\ mode = "decide" /\ advances = 0

\* finalizeSuspendedOrEndedCard.  In a coup phase nobody is eligible until the
\* next phase; otherwise the card is retired.  Pending grants outlive the card,
\* and writing them back clears the stall the boundary has just found.
EndCard(status, changes, pending, effects) ==
  /\ IF InCoupPhase(phase)
     THEN /\ eligible' = [s \in Seats |-> FALSE]
          /\ UNCHANGED <<cardVars, seatOrder>>
     ELSE /\ zones' = NextZones
          /\ rounds' = NextRounds
          /\ stalled' = (NextStalled /\ pending = {})
          /\ seatOrder' = OrderOnTop(NextZones)
          /\ eligible' = PostCardEligibility(status, changes)
  /\ card' = FreshCard(seatOrder', eligible')
  /\ overrides' = [s \in Seats |-> Null]
  /\ grants' = pending
  /\ deferred' = effects
  /\ active' = IF card'.first = Null THEN active ELSE card'.first

\* currentCard after a move of the active seat
AfterAction(class, eligibility, pending) ==
  LET coup == InCoupPhase(phase)
      acted == card.acted \cup
                 (IF coup /\ class # Null THEN {} ELSE {active})
      seats == CandidateSeats(eligibility, acted, pending)
  IN [first |-> FirstIn(seatOrder, seats),
      second |-> SecondIn(seatOrder, seats),
      acted |-> acted,
      passed |-> card.passed \cup (IF class = Null THEN {active} ELSE {}),
      nonPass |-> IF coup \/ class = Null THEN card.nonPass
                  ELSE card.nonPass + 1,
      firstClass |-> IF card.firstClass = Null /\ card.nonPass = 0 THEN class
                     ELSE card.firstClass]

\* Mutant of CardOver: a seat with a required grant does not keep the card.
CardOverInAnyCase(status, pending) ==
  IF InCoupPhase(phase) THEN Seats \subseteq status.acted
  ELSE status.first = Null \/ status.nonPass > 1

CardOver(status, pending) ==
  /\ GrantSeats(pending) = {}
  /\ IF InCoupPhase(phase) THEN Seats \subseteq status.acted
     ELSE status.first = Null \/ status.nonPass > 1

\* applyTurnFlowEligibilityAfterMove, for a move of a class (Null is a pass)
\* that leaves "pending" and "effects" and makes the overrides given
AfterMove(class, now, later, pending, effects) ==
  LET eligibility == Override(eligible, now)
      changes == [s \in Seats |-> LET mine == {o \in later : o.seat = s}
                                  IN IF mine = {} THEN overrides[s]
                                     ELSE (CHOOSE o \in mine : TRUE).eligible]
      status == AfterAction(class, eligibility, pending)
  IN /\ IF CardOver(status, pending)
        THEN EndCard(status, changes, pending, effects)
        ELSE /\ eligible' = eligibility
             /\ card' = status
             /\ overrides' = changes
             /\ grants' = pending
             /\ deferred' = effects
             /\ active' = IF status.first = Null THEN active ELSE status.first
             /\ UNCHANGED <<cardVars, seatOrder>>
     /\ mode' = "advance"
     /\ advances' = 0
     /\ UNCHANGED <<phase, turn>>

\* The code has no such bound: a seat that keeps getting grants goes on.
Bounded == card.nonPass < MaxActions

\* isMoveAllowedByTurnFlowOptionMatrix
MatrixAllows(class) ==
  card.nonPass = 1 /\ card.firstClass # Null
    => class \in OptionMatrix[card.firstClass]

\* A pass; when the seat holds blocking grants it is the fallback of
\* reconcilePassFallback..., and they expire first.
Pass ==
  /\ mode = "decide"
  /\ AfterMove(Null, {}, {},
               AdvanceSequences(grants \ Blocking(grants, active)), deferred)

Operation ==
  /\ mode = "decide" /\ Bounded
  /\ Blocking(grants, active) = {}
  /\ MatrixAllows("operation")
  /\ AfterMove("operation", {}, {}, AdvanceSequences(grants), deferred)

\* An override without a seat is about the seat that plays the event.
Targeted(changes) ==
  {[o EXCEPT !.seat = IF @ = Null THEN active ELSE @] : o \in changes}

\* The event on the played card.  Its grants are issued unless their probe
\* fails; its deferred effect waits for their batches, or happens at once.
PlayEvent ==
  /\ mode = "decide" /\ Bounded
  /\ ~InCoupPhase(phase)
  /\ Blocking(grants, active) = {}
  /\ MatrixAllows("event")
  /\ zones.played # <<>> /\ EventOf[Head(zones.played)] # Null
  /\ LET event == EventOf[Head(zones.played)]
     IN \E unusable \in SUBSET {d \in event.grants : d.probed} :
          LET issued == ToGrants(Issued(event.grants, unusable), active, turn,
                                 FreshSerial(grants))
              id == CHOOSE n \in 0..Cardinality(deferred) :
                      \A d \in deferred : d.id # n
              waiting == IF event.defers /\ Batches(issued) # {}
                         THEN {[id |-> id, batches |-> Batches(issued)]}
                         ELSE {}
          IN AfterMove("event", Targeted(event.now), Targeted(event.later),
                       AdvanceSequences(grants \cup issued),
                       deferred \cup waiting)

\* consumeAuthorizedFreeOperationGrant.  Only the use of a grant that says
\* resumeCardFlow, required or skippable, is one of the card's actions.
FreeOperation(g) ==
  /\ mode = "decide" /\ (g.resumes => Bounded)
  /\ g.seat = active /\ g.phase = "ready"
  /\ IF Blocking(grants, active) # {} THEN g \in Blocking(grants, active)
     ELSE MatrixAllows("operation")
  /\ LET left == AdvanceSequences(ConsumeUse(grants, g))
         effects == {d \in deferred : ~Releasable(d, left)}
     IN IF g.resumes
        THEN AfterMove("operation", {}, {}, AdvanceSequences(left), effects)
        ELSE /\ grants' = left
             /\ deferred' = effects
             /\ mode' = "advance"
             /\ advances' = 0
             /\ UNCHANGED <<cardVars, phase, seatVars, overrides, turn>>

-----------------------------------------------------------------------------
(* The loop of advanceToDecisionPoint.                                     *)

Looping == mode = "advance" /\ ~stalled

\* Mutant of StopStalled: a stalled game goes round the loop again.
SpinStalled ==
  /\ mode = "advance" /\ stalled
  /\ UNCHANGED turnFlowVars

\* The loop stops on a stall; no move is legal in that state.
StopStalled ==
  /\ mode = "advance" /\ stalled
  /\ mode' = "over" /\ advances' = 0
  /\ UNCHANGED <<cardVars, phase, seatVars, grantVars, turn>>

\* The active seat has a legal move.
Decide ==
  /\ Looping /\ PhaseValid /\ MayAct
  /\ mode' = "decide" /\ advances' = 0
  /\ UNCHANGED <<cardVars, phase, seatVars, grantVars, turn>>

Drop(gone) ==
  /\ grants' = grants \ gone
  /\ advances' = advances + 1
  /\ UNCHANGED <<cardVars, phase, seatVars, overrides, deferred, turn, mode>>

\* preSkipUncompletableGrants: the skippable grants are all the seat's moves.
PreSkip ==
  /\ Looping /\ PhaseValid
  /\ Skippable(grants, active) # {}
  /\ Drop(Skippable(grants, active))

\* expireBlockingPendingFreeOperationGrants: the seat has no legal move.
ExpireBlocking ==
  /\ Looping /\ PhaseValid
  /\ Blocking(grants, active) # {}
  /\ Drop(Blocking(grants, active))

\* The seat has no legal move and no blocking grant.
NoMove ==
  /\ Looping
  /\ PhaseValid => Blocking(grants, active) = {}

GiveUp ==
  /\ NoMove
  /\ advances >= MaxAdvances
  /\ mode' = "failed"
  /\ UNCHANGED <<cardVars, phase, seatVars, grantVars, turn, advances>>

\* Mutant of RemainingSeats: only the two candidates get a coup phase.
RemainingCandidates ==
  {card.first, card.second} \ (card.acted \cup {active, Null})

\* coupPhaseImplicitPass: the seats it can still pass the turn to
RemainingSeats == EligibleSeats(eligible) \ (card.acted \cup {active})

ImplicitPass ==
  /\ NoMove /\ PhaseValid /\ advances < MaxAdvances
  /\ InCoupPhase(phase) /\ RemainingSeats # {}
  /\ card' = [card EXCEPT !.acted = @ \cup {active},
                          !.passed = @ \cup {active},
                          !.first = FirstIn(seatOrder, RemainingSeats),
                          !.second = SecondIn(seatOrder, RemainingSeats)]
  /\ active' = card'.first
  /\ advances' = advances + 1
  /\ UNCHANGED <<cardVars, phase, seatOrder, eligible, grantVars, turn, mode>>

\* applyCoupPhaseEntryReset; it does nothing for a phase of an ordinary card.
EnterPhase(p) ==
  /\ phase' = p
  /\ IF InCoupPhase(p)
     THEN /\ seatOrder' = IF CoupOrder = Null THEN seatOrder ELSE CoupOrder
          /\ eligible' = [s \in Seats |-> TRUE]
          /\ card' = FreshCard(seatOrder', eligible')
          /\ active' = card'.first
     ELSE UNCHANGED seatVars

\* advancePhase
AdvancePhase ==
  /\ NoMove /\ advances < MaxAdvances
  /\ PhaseValid /\ InCoupPhase(phase) => RemainingSeats = {}
  /\ IF ~PhaseValid
     THEN EnterPhase(FirstPhase(zones, rounds)) /\ UNCHANGED <<cardVars, turn>>
     ELSE IF LaterPhases # {}
     THEN /\ EnterPhase(FirstIn(PhaseOrder(zones, rounds), LaterPhases))
          /\ UNCHANGED <<cardVars, turn>>
     ELSE /\ zones' = NextZones
          /\ rounds' = NextRounds
          /\ stalled' = NextStalled
          /\ turn' = turn + 1
          /\ EnterPhase(FirstPhase(NextZones, NextRounds))
  /\ advances' = advances + 1
  /\ UNCHANGED <<grantVars, mode>>

Loop ==
  \/ StopStalled \/ Decide \/ PreSkip \/ ExpireBlocking
  \/ GiveUp \/ ImplicitPass \/ AdvancePhase

Next ==
  \/ Pass \/ Operation \/ PlayEvent
  \/ \E g \in grants : FreeOperation(g)
  \/ Loop

\* The loop is a synchronous function: it does not stop between iterations.
TurnFlowSpec == Init /\ [][Next]_turnFlowVars /\ WF_turnFlowVars(Loop)

-----------------------------------------------------------------------------
(* Properties.                                                             *)

\* Every card of the deck is in one pile, once, and the leader pile holds
\* coup cards only (assertCardTokenConservation, over whole games).
CardsConserved ==
  /\ \A c \in Cards : \E z \in Zone : \E i \in DOMAIN zones[z] : zones[z][i] = c
  /\ \A y, z \in Zone : \A i \in DOMAIN zones[y], j \in DOMAIN zones[z] :
       zones[y][i] = zones[z][j] => y = z /\ i = j
  /\ \A i \in DOMAIN zones.leader : zones.leader[i] \in Coups

\* The card on top of a pile
Top(pile) == IF pile = <<>> THEN Null ELSE Head(pile)

\* The row of cards that the piles show
Row == INSTANCE CardRow WITH
  current <- Top(zones.played),
  next    <- Top(zones.lookahead),
  stock   <- zones.draw,
  over    <- {zones.leader[i] : i \in DOMAIN zones.leader}
               \cup {zones.discard[i] : i \in DOMAIN zones.discard}

\* Through all moves, grants, coup rounds and phases the cards come up one by
\* one in the order of the deck, one of them revealed beforehand, and none
\* comes up again (the boundary's promote-and-reveal, over whole games).  A
\* game that keeps its played cards on the played pile promises less: its last
\* coup card uncovers the card before it.
ImplementsCardRow == Row!RowSpec

\* A later step of a sequence is never usable while the first step that was
\* issued with it is pending, whatever was used, expired, skipped or granted
\* meanwhile; an event played twice in a turn gives both the same batch.
LaterStepsWaitForTheFirst ==
  \A g, h \in grants :
    g.batch # Null /\ g.batch = h.batch /\ g.id[1] = h.id[1]
      /\ h.step = 0 /\ g.phase = "ready" => g.step = 0

\* The seat that is asked is the first of the current candidates, or holds a
\* grant it must use (isActiveSeatEligibleForTurnFlow lets the second candidate
\* act as well).  A candidate need not be fresh: when its grant has expired, a
\* seat that has acted is asked again.
TheFirstCandidateIsAsked ==
  mode = "decide" => active = card.first \/ Blocking(grants, active) # {}

\* The deferred effect of an event happens only when no grant of its batches
\* is pending any more.
DeferredEffectsWait ==
  [][\A d \in deferred \ deferred' :
       \A g \in grants' : g.batch \notin d.batches]_turnFlowVars

\* Once a move has counted on the card: while a seat has a grant it must use,
\* the card stays and such a seat is asked.  Else, outside a coup round, a fresh
\* card begins, or this one has had less than its two actions and goes to an
\* eligible seat that has not acted on it (the end of the card and the
\* candidates, over all kinds of moves and grants of several seats).
TheCardEndsWhenItIsDue ==
  [][mode = "decide" /\ <<card, zones>>' # <<card, zones>> =>
       IF GrantSeats(grants') # {}
       THEN zones' = zones /\ active' \in GrantSeats(grants')
       ELSE \/ InCoupPhase(phase) \/ card'.acted = {}
            \/ /\ card'.nonPass < 2
               /\ eligible'[active'] /\ active' \notin card'.acted
     ]_turnFlowVars

\* A phase of a coup round is left only when every eligible seat has had it.
CoupPhaseAsksEverySeat ==
  [][InCoupPhase(phase) /\ phase' # phase
       => EligibleSeats(eligible) \subseteq card.acted \cup {active}
     ]_turnFlowVars

\* The loop comes to a decision, to the end of the deck or gives up.
LoopEnds == mode = "advance" ~> mode # "advance"
=============================================================================
