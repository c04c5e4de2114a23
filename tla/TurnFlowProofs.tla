--------------------------- MODULE TurnFlowProofs ---------------------------
(***************************************************************************)
(* Proofs about TurnFlow, for every set of seats, deck, event and plan of  *)
(* coup phases, and for any length of a game.                              *)
(***************************************************************************)
EXTENDS TurnFlow, FiniteSetTheorems, SequenceTheorems, WellFoundedInduction, TLAPS

-----------------------------------------------------------------------------
(* The first seat or phase of an order.                                    *)

\* A set of numbers that is not empty has a least one.
LEMMA LeastNumber ==
  ASSUME NEW T, T \subseteq Nat, T # {}
  PROVE  \E n \in T : \A m \in T : n <= m
<1>1. PICK n \in T : \A m \in T : ~ (<<m, n>> \in OpToRel(<, Nat))
  BY NatLessThanWellFounded, WFMin
<1>2. \A m \in T : ~ (m < n)
  BY <1>1 DEF OpToRel
<1> QED BY <1>2

\* FirstIn finds a member of the set, if the order has one.
LEMMA FirstInFinds ==
  ASSUME NEW n \in Nat, NEW order, DOMAIN order = 1..n, NEW S,
         \E i \in DOMAIN order : order[i] \in S
  PROVE  FirstIn(order, S) \in S
<1> DEFINE T == {i \in 1..n : order[i] \in S}
<1>1. PICK i \in T : \A j \in T : i <= j
  <2>1. T \subseteq Nat /\ T # {} OBVIOUS
  <2> QED BY <2>1, LeastNumber
<1>2. order[i] \in S /\ \A j \in 1..(i - 1) : order[j] \notin S
  BY <1>1
<1> QED BY <1>1, <1>2 DEF FirstIn

\* FirstIn finds no seat when the order has none of the set.
LEMMA FirstInOfNone ==
  ASSUME NEW order, NEW S, ~\E i \in DOMAIN order : order[i] \in S
  PROVE  FirstIn(order, S) = Null
BY DEF FirstIn

\* In an order of the seats every set of seats has a first one.
LEMMA FirstSeat ==
  ASSUME NEW order \in Orders, NEW S \in SUBSET Seats
  PROVE  /\ S # {} => FirstIn(order, S) \in S
         /\ S = {} => FirstIn(order, S) = Null
         /\ FirstIn(order, S) \in Seats \cup {Null}
<1>1. Cardinality(Seats) \in Nat
  BY TurnFlowAssumption, FS_CardinalityType
<1>2. DOMAIN order = 1..Cardinality(Seats)
  BY DEF Orders
<1>3. CASE S # {}
  <2>1. \E i \in DOMAIN order : order[i] \in S
    BY <1>3 DEF Orders
  <2> QED BY <1>1, <1>2, <1>3, <2>1, FirstInFinds
<1>4. CASE S = {}
  BY <1>4, FirstInOfNone
<1> QED BY <1>3, <1>4

\* The second seat of an order is Null or one of the set, other than the first.
LEMMA SecondSeat ==
  ASSUME NEW order \in Orders, NEW S \in SUBSET Seats
  PROVE  /\ SecondIn(order, S) \in Seats \cup {Null}
         /\ FirstIn(order, S) = Null => SecondIn(order, S) = Null
         /\ SecondIn(order, S) # Null => SecondIn(order, S) # FirstIn(order, S)
<1> DEFINE rest == S \ {FirstIn(order, S)}
<1>1. rest \in SUBSET Seats OBVIOUS
<1>2. /\ rest # {} => FirstIn(order, rest) \in rest
      /\ rest = {} => FirstIn(order, rest) = Null
      /\ FirstIn(order, rest) \in Seats \cup {Null}
  BY <1>1, FirstSeat
<1>3. FirstIn(order, S) = Null => S = {}
  BY FirstSeat, GrantsAssumption
<1> HIDE DEF rest
<1>4. SecondIn(order, S) = FirstIn(order, rest)
  BY DEF SecondIn, rest
<1> QED BY <1>2, <1>3, <1>4 DEF rest

-----------------------------------------------------------------------------
(* The list of pending grants.                                             *)

\* A later step of a sequence is not ready while the first is pending.
StepsInOrder(G) ==
  /\ \A g \in G : g.phase = "sequenceWaiting" => g.step > 0
  /\ \A g, h \in G : g.batch # Null /\ g.batch = h.batch /\ g.id[1] = h.id[1]
                     /\ h.step = 0 /\ g.phase = "ready" => g.step = 0

\* What is true of the pending grants in every state.
GrantsOK(G) ==
  /\ G \subseteq Grant
  /\ IsFiniteSet(G)
  /\ \A g \in G : g.uses > 0
  /\ StepsInOrder(G)

\* Taking grants away keeps the rest well formed and their steps in order.
LEMMA FewerGrants ==
  ASSUME NEW G, GrantsOK(G), NEW H \in SUBSET G
  PROVE  GrantsOK(H)
BY FS_Subset DEF GrantsOK, StepsInOrder

\* Advancing the sequences leaves the grants well formed and readies no later
\* step before the first.
LEMMA AdvancedGrants ==
  ASSUME NEW G, GrantsOK(G)
  PROVE  GrantsOK(AdvanceSequences(G))
<1> DEFINE Due(g) == g.phase = "sequenceWaiting"
              /\ \E h \in G : WaitsForNothing(G, h) /\ h.batch = g.batch
           f(g) == IF Due(g) THEN [g EXCEPT !.phase = "ready"] ELSE g
<1>1. AdvanceSequences(G) = {f(g) : g \in G}
  BY DEF AdvanceSequences
<1>2. \A g \in G :
        /\ f(g) \in Grant
        /\ f(g).id = g.id /\ f(g).batch = g.batch
        /\ f(g).step = g.step /\ f(g).uses = g.uses
        /\ f(g).phase = IF Due(g) THEN "ready" ELSE g.phase
  <2> TAKE g \in G
  <2>1. g \in Grant
    BY DEF GrantsOK
  <2>2. CASE Due(g)
    <3>1. f(g) = [g EXCEPT !.phase = "ready"]
      BY <2>2
    <3> QED BY <2>1, <2>2, <3>1 DEF Grant
  <2>3. CASE ~Due(g)
    BY <2>1, <2>3
  <2> QED BY <2>2, <2>3
<1>3. \A g, h \in G : g.batch = h.batch /\ h.step = 0 => ~Due(g)
  <2> SUFFICES ASSUME NEW g \in G, NEW h \in G, g.batch = h.batch, h.step = 0,
                      NEW k \in G, WaitsForNothing(G, k), k.batch = g.batch
               PROVE  FALSE
    OBVIOUS
  <2>1. k.step > 0
    BY DEF WaitsForNothing, GrantsOK, StepsInOrder
  <2>2. h \in EarlierSteps(G, k)
    BY <2>1 DEF EarlierSteps
  <2> QED BY <2>2 DEF WaitsForNothing
<1>4. \A g \in G : g.phase \in {"sequenceWaiting", "ready"}
  BY DEF GrantsOK, Grant
<1>5. IsFiniteSet({f(g) : g \in G})
  <2>1. IsFiniteSet(G)
    BY DEF GrantsOK
  <2> DEFINE F == [g \in G |-> f(g)]
  <2>2. F \in Surjection(G, {f(g) : g \in G})
    BY DEF Surjection
  <2> QED BY <2>1, <2>2, FS_Surjection DEF ExistsSurjection
<1>6. StepsInOrder({f(g) : g \in G})
  <2> HIDE DEF Due, f
  <2>1. ASSUME NEW g \in G, f(g).phase = "sequenceWaiting"
        PROVE  f(g).step > 0
    BY <1>2, <2>1 DEF GrantsOK, StepsInOrder
  <2>2. ASSUME NEW g \in G, NEW h \in G, g.batch # Null, g.batch = h.batch,
               g.id[1] = h.id[1], h.step = 0, f(g).phase = "ready"
        PROVE  g.step = 0
    <3>1. g.phase = "ready"
      BY <1>2, <1>3, <2>2
    <3> QED BY <2>2, <3>1 DEF GrantsOK, StepsInOrder
  <2> QED BY <1>2, <2>1, <2>2 DEF StepsInOrder
<1>7. \A g \in G : g.uses > 0
  BY DEF GrantsOK
<1> HIDE DEF f
<1> QED BY <1>1, <1>2, <1>5, <1>6, <1>7 DEF GrantsOK

\* Advancing changes no batch.
LEMMA AdvancedBatches ==
  ASSUME NEW G, G \subseteq Grant, NEW h \in AdvanceSequences(G)
  PROVE  \E g \in G : h.batch = g.batch /\ h.seat = g.seat
<1>1. PICK g \in G : h = g \/ h = [g EXCEPT !.phase = "ready"]
  BY DEF AdvanceSequences
<1>2. g \in Grant OBVIOUS
<1> QED BY <1>1, <1>2 DEF Grant

\* Using a grant leaves a list of grants, and none of a new batch.
LEMMA ConsumedGrants ==
  ASSUME NEW G, GrantsOK(G), NEW g \in G
  PROVE  /\ GrantsOK(ConsumeUse(G, g))
         /\ \A h \in ConsumeUse(G, g) : \E k \in G : h.batch = k.batch
<1> DEFINE less == [g EXCEPT !.uses = @ - 1]
<1>1. g \in Grant /\ g.uses > 0
  BY DEF GrantsOK
<1>2. /\ less.id = g.id /\ less.batch = g.batch /\ less.step = g.step
      /\ less.phase = g.phase /\ less.uses = g.uses - 1
  BY <1>1 DEF Grant
<1>3. g.uses # 1 => less \in Grant /\ less.uses > 0
  BY <1>1 DEF Grant
<1>4. GrantsOK(G \ {g})
  BY FewerGrants
<1> HIDE DEF less
<1>5. CASE g.uses = 1
  <2>1. ConsumeUse(G, g) = G \ {g}
    BY <1>5 DEF ConsumeUse
  <2> QED BY <1>4, <2>1
<1>6. CASE g.uses # 1
  <2>1. ConsumeUse(G, g) = (G \ {g}) \cup {less}
    BY <1>6 DEF ConsumeUse, less
  <2>2. IsFiniteSet(ConsumeUse(G, g))
    BY <1>4, <2>1, FS_AddElement DEF GrantsOK
  <2>3. StepsInOrder(ConsumeUse(G, g))
    BY <1>2, <2>1 DEF GrantsOK, StepsInOrder
  <2> QED BY <1>2, <1>3, <1>4, <1>6, <2>1, <2>2, <2>3 DEF GrantsOK
<1> QED BY <1>5, <1>6

\* Among one number more than the elements of a set, one is not taken.
LEMMA FreshNumber ==
  ASSUME NEW S, IsFiniteSet(S), NEW f
  PROVE  \E n \in 0..Cardinality(S) : \A x \in S : f[x] # n
<1> SUFFICES ASSUME \A n \in 0..Cardinality(S) : \E x \in S : f[x] = n
             PROVE  FALSE
  OBVIOUS
<1> DEFINE T == 0..Cardinality(S)
           g == [n \in T |-> CHOOSE x \in S : f[x] = n]
<1>1. Cardinality(S) \in Nat
  BY FS_CardinalityType
<1>2. IsFiniteSet(T) /\ Cardinality(T) = Cardinality(S) + 1
  BY <1>1, FS_Interval
<1>3. \A n \in T : g[n] \in S /\ f[g[n]] = n
  OBVIOUS
<1>4. g \in [T -> S]
  BY <1>3
<1>5. PICK m, n \in T : m # n /\ g[m] = g[n]
  <2> HIDE DEF T, g
  <2>1. Cardinality(S) < Cardinality(T)
    BY <1>1, <1>2
  <2> QED BY <1>2, <1>4, <2>1, FS_PigeonHole
<1> QED BY <1>3, <1>5

\* There is a serial that no pending grant has, and FreshSerial is one.
LEMMA SerialIsFresh ==
  ASSUME NEW G, GrantsOK(G)
  PROVE  FreshSerial(G) \in Nat /\ \A g \in G : g.id[1] # FreshSerial(G)
<1> DEFINE f == [g \in G |-> g.id[1]]
<1>1. IsFiniteSet(G)
  BY DEF GrantsOK
<1>2. PICK n \in 0..Cardinality(G) : \A g \in G : f[g] # n
  <2> HIDE DEF f
  <2> QED BY <1>1, FreshNumber
<1>3. \A g \in G : g.id[1] # n
  BY <1>2
<1>4. FreshSerial(G) \in 0..Cardinality(G) /\ \A g \in G : g.id[1] # FreshSerial(G)
  BY <1>3 DEF FreshSerial
<1> QED BY <1>1, <1>4, FS_CardinalityType

\* The grants of an event that is played join the pending ones.
LEMMA GrantsIssued ==
  ASSUME NEW G, GrantsOK(G), NEW D, D \subseteq Declaration, IsFiniteSet(D),
         NEW unusable, NEW seat \in Seats, NEW t \in Nat,
         NEW new, new = ToGrants(Issued(D, unusable), seat, t, FreshSerial(G))
  PROVE  GrantsOK(G \cup new) /\ Batches(new) \subseteq BatchId
<1> DEFINE s == FreshSerial(G)
           made(d) ==
             [id     |-> <<s, d.index>>,
              seat   |-> IF d.seat = Null THEN seat ELSE d.seat,
              policy |-> d.policy,
              resumes |-> d.resumes,
              batch  |-> IF d.label = Null THEN Null ELSE <<t, seat, d.label>>,
              step   |-> d.step,
              uses   |-> d.uses,
              phase  |-> IF d.step = 0 THEN "ready" ELSE "sequenceWaiting"]
           I == Issued(D, unusable)
<1>1. s \in Nat /\ \A g \in G : g.id[1] # s
  BY SerialIsFresh
<1>2. new = {made(d) : d \in I}
  BY DEF ToGrants
<1>3. I \subseteq Declaration /\ IsFiniteSet(I)
  <2>1. I \subseteq D
    BY DEF Issued
  <2> QED BY <2>1, FS_Subset
<1> HIDE DEF s, I
<1>4. \A d \in I :
        /\ made(d) \in Grant
        /\ made(d).batch \in BatchId \cup {Null}
        /\ made(d).uses > 0
        /\ made(d).id[1] = s
        /\ made(d).phase = "ready" <=> made(d).step = 0
        /\ made(d).phase = "sequenceWaiting" => made(d).step > 0
  <2> TAKE d \in I
  <2>1. d \in Declaration
    BY <1>3
  <2>2. (IF d.label = Null THEN Null ELSE <<t, seat, d.label>>) \in BatchId \cup {Null}
    BY <2>1 DEF Declaration, BatchId
  <2>3. d.uses \in Nat /\ d.uses > 0 /\ d.index \in Nat /\ d.step \in Nat
        /\ d.policy \in Policies /\ d.resumes \in BOOLEAN
        /\ (IF d.seat = Null THEN seat ELSE d.seat) \in Seats
    BY <2>1 DEF Declaration
  <2>4. made(d) \in Grant
    BY <1>1, <2>2, <2>3 DEF Grant
  <2> QED BY <2>2, <2>3, <2>4
<1>5. IsFiniteSet(new)
  <2> DEFINE F == [d \in I |-> made(d)]
  <2>1. F \in Surjection(I, new)
    BY <1>2 DEF Surjection
  <2> QED BY <1>3, <2>1, FS_Surjection
<1> HIDE DEF made
<1>6. \A g \in new :
        /\ g \in Grant /\ g.batch \in BatchId \cup {Null} /\ g.uses > 0
        /\ g.id[1] = s
        /\ g.phase = "ready" <=> g.step = 0
        /\ g.phase = "sequenceWaiting" => g.step > 0
  BY <1>2, <1>4
<1>7. IsFiniteSet(G \cup new)
  BY <1>5, FS_Union DEF GrantsOK
<1>8. StepsInOrder(G \cup new)
  BY <1>1, <1>6 DEF GrantsOK, StepsInOrder
<1>9. Batches(new) \subseteq BatchId
  BY <1>6 DEF Batches
<1> QED BY <1>6, <1>7, <1>8, <1>9 DEF GrantsOK

-----------------------------------------------------------------------------
(* The piles of cards.                                                     *)

Piles == [Zone -> Seq(Cards)]

\* Moving the top of a pile gives piles of cards again.
LEMMA TopMoved ==
  ASSUME NEW piles \in Piles, NEW from \in Zone, NEW to \in Zone, from # to
  PROVE  MoveTop(piles, from, to) \in Piles
<1>1. CASE piles[from] = <<>>
  BY <1>1 DEF MoveTop
<1>2. CASE piles[from] # <<>>
  <2>1. piles[from] \in Seq(Cards) /\ piles[to] \in Seq(Cards)
    BY DEF Piles
  <2>2. Head(piles[from]) \in Cards /\ Tail(piles[from]) \in Seq(Cards)
    BY <1>2, <2>1, HeadTailProperties
  <2>3. <<Head(piles[from])>> \in Seq(Cards)
    BY <2>2
  <2>4. <<Head(piles[from])>> \o piles[to] \in Seq(Cards)
    BY <2>1, <2>3, ConcatProperties
  <2> QED BY <1>2, <2>2, <2>4 DEF MoveTop, Piles
<1> QED BY <1>1, <1>2

\* The card boundary gives piles of cards and a number of rounds again.
LEMMA NextPiles ==
  ASSUME zones \in Piles, rounds \in Nat, stalled \in BOOLEAN
  PROVE  NextZones \in Piles /\ NextRounds \in Nat /\ NextStalled \in BOOLEAN
<1>1. Retired \in Piles
  <2>1. RetirementPile \in {"leader", "played", "discard"}
    BY DEF RetirementPile
  <2> QED BY <2>1, TopMoved DEF Retired, Zone
<1>2. MoveTop(Retired, "lookahead", "played") \in Piles
  BY <1>1, TopMoved DEF Zone
<1>3. MoveTop(MoveTop(Retired, "lookahead", "played"), "draw", "lookahead") \in Piles
  BY <1>2, TopMoved DEF Zone
<1>4. NextZones \in Piles
  BY <1>3 DEF NextZones
<1>5. NextRounds \in Nat
  BY DEF NextRounds
<1>6. NextStalled \in BOOLEAN
  BY DEF NextStalled
<1> QED BY <1>4, <1>5, <1>6

\* The order of the card on top is an order of the seats.
LEMMA OrderOfTheTop ==
  ASSUME NEW piles \in Piles, seatOrder \in Orders
  PROVE  OrderOnTop(piles) \in Orders
<1>1. CASE piles.played = <<>>
  BY <1>1 DEF OrderOnTop
<1>2. CASE piles.played # <<>>
  <2>1. piles.played \in Seq(Cards)
    BY DEF Piles, Zone
  <2>2. Head(piles.played) \in Cards
    BY <1>2, <2>1, HeadTailProperties
  <2> QED BY <2>2, TurnFlowAssumption DEF OrderOnTop
<1> QED BY <1>1, <1>2

-----------------------------------------------------------------------------
(* Phases and candidates.                                                  *)

\* The first phase in effect, wherever the round starts.
LEMMA FirstPhaseInEffect ==
  ASSUME NEW piles, NEW n
  PROVE  FirstPhase(piles, n) \in InEffect(piles, n)
<1> DEFINE order == PhaseOrder(piles, n)
<1>1. order \in Seq(Phases) /\ order # <<>> /\ order[1] \notin FinalOmit
  <2>1. 1 \in DOMAIN MainPhases
    BY TurnFlowAssumption, EmptySeq, LenProperties
  <2>2. MainPhases[1] \notin FinalOmit
    BY <2>1, TurnFlowAssumption
  <2> QED BY <2>2, TurnFlowAssumption DEF PhaseOrder
<1>2. Len(order) \in Nat /\ DOMAIN order = 1..Len(order) /\ 1 \in DOMAIN order
  BY <1>1, EmptySeq, LenProperties
<1> HIDE DEF order
<1>3. order[1] \in InEffect(piles, n)
  BY <1>1, <1>2 DEF InEffect, order
<1>4. FirstIn(order, InEffect(piles, n)) \in InEffect(piles, n)
  BY <1>2, <1>3, FirstInFinds
<1> QED BY <1>4 DEF FirstPhase, order

\* The phases in effect are phases of the game.
LEMMA EffectiveArePhases ==
  ASSUME NEW piles, NEW n
  PROVE  InEffect(piles, n) \subseteq Phases
<1>1. PhaseOrder(piles, n) \in Seq(Phases)
  BY TurnFlowAssumption DEF PhaseOrder
<1> QED BY <1>1, LenProperties, ElementOfSeq DEF InEffect

\* The phase after the current one, when there is one, is in effect.
LEMMA LaterPhaseInEffect ==
  ASSUME LaterPhases # {}
  PROVE  FirstIn(PhaseOrder(zones, rounds), LaterPhases) \in InEffect(zones, rounds)
<1> DEFINE order == PhaseOrder(zones, rounds)
<1>1. order \in Seq(Phases)
  BY TurnFlowAssumption DEF PhaseOrder
<1>2. Len(order) \in Nat /\ DOMAIN order = 1..Len(order)
  BY <1>1, LenProperties
<1>3. /\ LaterPhases \subseteq InEffect(zones, rounds)
      /\ \A p \in LaterPhases : \E i \in DOMAIN order : order[i] = p
  BY DEF LaterPhases
<1> HIDE DEF order
<1>4. FirstIn(order, LaterPhases) \in LaterPhases
  BY <1>2, <1>3, FirstInFinds
<1> QED BY <1>3, <1>4 DEF order

\* The second candidate comes after a first one.
InTurn(status) == status.first = Null => status.second = Null

\* A fresh card has the type of a card.
LEMMA FreshCardTyped ==
  ASSUME NEW order \in Orders, NEW e \in [Seats -> BOOLEAN]
  PROVE  FreshCard(order, e) \in CardStatus /\ InTurn(FreshCard(order, e))
<1> DEFINE S == EligibleSeats(e)
<1>1. S \in SUBSET Seats
  BY DEF EligibleSeats
<1> HIDE DEF S
<1>2. /\ FirstIn(order, S) \in Seats \cup {Null}
      /\ SecondIn(order, S) \in Seats \cup {Null}
      /\ FirstIn(order, S) = Null => SecondIn(order, S) = Null
  BY <1>1, FirstSeat, SecondSeat
<1>3. FreshCard(order, e) =
        [first |-> FirstIn(order, S), second |-> SecondIn(order, S),
         acted |-> {}, passed |-> {}, nonPass |-> 0, firstClass |-> Null]
  BY DEF FreshCard, S
<1> QED BY <1>2, <1>3 DEF CardStatus, InTurn

\* The card after an action has the type of a card.
LEMMA AfterActionTyped ==
  ASSUME seatOrder \in Orders, card \in CardStatus, active \in Seats,
         NEW e \in [Seats -> BOOLEAN], NEW pending, NEW class \in Classes \cup {Null}
  PROVE  /\ AfterAction(class, e, pending) \in CardStatus
         /\ InTurn(AfterAction(class, e, pending))
<1> DEFINE acted == card.acted \cup
                      (IF InCoupPhase(phase) /\ class # Null THEN {} ELSE {active})
           S == CandidateSeats(e, acted, pending)
           passed == card.passed \cup (IF class = Null THEN {active} ELSE {})
           nonPass == IF InCoupPhase(phase) \/ class = Null THEN card.nonPass
                      ELSE card.nonPass + 1
           firstClass == IF card.firstClass = Null /\ card.nonPass = 0 THEN class
                         ELSE card.firstClass
<1>1. /\ card.acted \in SUBSET Seats /\ card.passed \in SUBSET Seats
      /\ card.nonPass \in Nat /\ card.firstClass \in Classes \cup {Null}
  BY DEF CardStatus
<1>2. acted \in SUBSET Seats /\ passed \in SUBSET Seats /\ nonPass \in Nat
      /\ firstClass \in Classes \cup {Null}
  BY <1>1
<1>3. S \in SUBSET Seats
  BY DEF CandidateSeats, GrantSeats, EligibleSeats
<1>4. AfterAction(class, e, pending) =
        [first |-> FirstIn(seatOrder, S), second |-> SecondIn(seatOrder, S),
         acted |-> acted, passed |-> passed, nonPass |-> nonPass,
         firstClass |-> firstClass]
  BY Zenon DEF AfterAction
<1> HIDE DEF acted, S, passed, nonPass, firstClass
<1>5. /\ FirstIn(seatOrder, S) \in Seats \cup {Null}
      /\ SecondIn(seatOrder, S) \in Seats \cup {Null}
      /\ FirstIn(seatOrder, S) = Null => SecondIn(seatOrder, S) = Null
  BY <1>3, FirstSeat, SecondSeat
<1> QED BY <1>2, <1>4, <1>5 DEF CardStatus, InTurn

Eligibility == [Seats -> BOOLEAN]

\* Applying overrides keeps the eligibility a function of the seats.
LEMMA OverridesTyped ==
  ASSUME NEW e \in Eligibility, NEW changes \in Overrides
  PROVE  Override(e, changes) \in Eligibility
<1> SUFFICES ASSUME NEW s \in Seats
             PROVE  (IF {o \in changes : o.seat = s} = {} THEN e[s]
                     ELSE (CHOOSE o \in {o \in changes : o.seat = s} : TRUE).eligible)
                      \in BOOLEAN
  BY Zenon DEF Override, Eligibility
<1>1. CASE {o \in changes : o.seat = s} = {}
  BY <1>1 DEF Eligibility
<1>2. CASE {o \in changes : o.seat = s} # {}
  <2>1. (CHOOSE o \in {o \in changes : o.seat = s} : TRUE) \in changes
    BY <1>2
  <2> QED BY <1>2, <2>1 DEF Overrides
<1> QED BY <1>1, <1>2

-----------------------------------------------------------------------------
(* The invariant.                                                          *)

EffectsOK(D) ==
  D \subseteq [id : Nat, batches : SUBSET BatchId] /\ IsFiniteSet(D)

\* The first candidate, if there is one, is the active seat.
ActiveOK == InTurn(card) /\ (card.first # Null => active = card.first)

\* A phase of a coup round is current only while it is in effect.
PhaseOK == InCoupPhase(phase) => PhaseValid

IInv ==
  /\ TurnFlowTypeOK
  /\ GrantsOK(grants)
  /\ EffectsOK(deferred)
  /\ ActiveOK
  /\ PhaseOK
  /\ TheFirstCandidateIsAsked

\* The deal satisfies the invariant.
LEMMA InitEstablishesIInv == Init => IInv
<1> SUFFICES ASSUME Init PROVE IInv
  OBVIOUS
<1>1. PICK deck \in Decks : zones = InitialPiles(deck)
  BY DEF Init
<1>2. /\ deck \in Seq(Cards) /\ deck # <<>>
  <2>1. Cardinality(Cards) \in Nat /\ Cardinality(Cards) > 1
    BY TurnFlowAssumption, FS_CardinalityType
  <2>2. deck \in [1..Cardinality(Cards) -> Cards]
    BY TurnFlowAssumption
  <2>3. deck \in Seq(Cards)
    BY <2>1, <2>2, SeqDef
  <2>4. deck # <<>>
    BY <2>1, <2>2
  <2> QED BY <2>3, <2>4
<1> DEFINE dealt == [[z \in Zone |-> <<>>] EXCEPT !.draw = deck]
<1>3. dealt \in Piles
  BY <1>2, EmptySeq DEF Piles, Zone
<1>4. zones \in Piles
  <2>1. MoveTop(dealt, "draw", "played") \in Piles
    BY <1>3, TopMoved DEF Zone
  <2>2. MoveTop(MoveTop(dealt, "draw", "played"), "draw", "lookahead") \in Piles
    BY <2>1, TopMoved DEF Zone
  <2> QED BY <1>1, <2>2 DEF InitialPiles
<1>5. Head(zones.played) \in Cards
  <2>1. dealt.draw = deck /\ dealt.played = <<>>
    BY DEF Zone
  <2>2. Head(deck) \in Cards
    BY <1>2, HeadTailProperties
  <2>3. <<Head(deck)>> \in Seq(Cards)
    BY <2>2
  <2>4. <<Head(deck)>> \o <<>> = <<Head(deck)>>
    BY <2>3, ConcatEmptySeq
  <2>5. MoveTop(dealt, "draw", "played").played = <<Head(deck)>>
    BY <1>2, <2>1, <2>4 DEF MoveTop, Zone
  <2>6. zones.played = MoveTop(dealt, "draw", "played").played
    BY <1>1 DEF InitialPiles, MoveTop, Zone
  <2> QED BY <2>2, <2>5, <2>6
<1>6. seatOrder \in Orders
  BY <1>5, TurnFlowAssumption DEF Init
<1>7. eligible \in [Seats -> BOOLEAN] /\ EligibleSeats(eligible) = Seats
  BY DEF Init, EligibleSeats
<1>8. card \in CardStatus /\ InTurn(card)
  BY <1>6, <1>7, FreshCardTyped DEF Init
<1>9. card.first \in Seats
  <2>1. Seats # {}
    BY TurnFlowAssumption
  <2>2. card.first = FirstIn(seatOrder, Seats)
    BY <1>7 DEF Init, FreshCard
  <2> QED BY <1>6, <2>1, <2>2, FirstSeat
<1>10. phase \in Phases /\ ~InCoupPhase(phase)
  BY TurnFlowAssumption, EmptySeq, LenProperties DEF Init, Phases
<1>11. TurnFlowTypeOK
  <2>1. /\ overrides \in [Seats -> BOOLEAN \cup {Null}]
        /\ grants \subseteq Grant /\ deferred = {} /\ stalled \in BOOLEAN
        /\ rounds \in Nat /\ active = card.first /\ turn \in Nat
        /\ mode = "decide" /\ advances \in Nat
    BY DEF Init
  <2> QED BY <1>4, <1>6, <1>7, <1>8, <1>9, <1>10, <2>1 DEF TurnFlowTypeOK, Piles
<1>12. GrantsOK(grants) /\ EffectsOK(deferred)
  BY FS_EmptySet DEF Init, GrantsOK, EffectsOK, StepsInOrder
<1> QED BY <1>8, <1>10, <1>11, <1>12
        DEF IInv, ActiveOK, PhaseOK, TheFirstCandidateIsAsked, Init

\* The end of a card leaves a state as it should be.
LEMMA CardEnds ==
  ASSUME IInv, NEW status \in CardStatus,
         NEW changes \in [Seats -> BOOLEAN \cup {Null}],
         NEW pending, GrantsOK(pending), NEW effects, EffectsOK(effects),
         EndCard(status, changes, pending, effects)
  PROVE  /\ zones' \in Piles /\ rounds' \in Nat /\ stalled' \in BOOLEAN
         /\ seatOrder' \in Orders /\ eligible' \in [Seats -> BOOLEAN]
         /\ card' \in CardStatus /\ InTurn(card')
         /\ overrides' \in [Seats -> BOOLEAN \cup {Null}]
         /\ grants' = pending /\ deferred' = effects
         /\ active' \in Seats /\ (card'.first # Null => active' = card'.first)
         /\ InCoupPhase(phase) => zones' = zones /\ rounds' = rounds
<1>1. /\ zones \in Piles /\ rounds \in Nat /\ stalled \in BOOLEAN
      /\ seatOrder \in Orders /\ active \in Seats
  BY DEF IInv, TurnFlowTypeOK, Piles
<1>2. /\ zones' \in Piles /\ rounds' \in Nat /\ stalled' \in BOOLEAN
      /\ seatOrder' \in Orders /\ eligible' \in [Seats -> BOOLEAN]
      /\ InCoupPhase(phase) => zones' = zones /\ rounds' = rounds
  <2>1. CASE InCoupPhase(phase)
    BY <1>1, <2>1 DEF EndCard, cardVars
  <2>2. CASE ~InCoupPhase(phase)
    <3>1. /\ zones' = NextZones /\ rounds' = NextRounds
          /\ stalled' = (NextStalled /\ pending = {})
          /\ seatOrder' = OrderOnTop(NextZones)
          /\ eligible' = PostCardEligibility(status, changes)
      BY <2>2 DEF EndCard
    <3>2. NextZones \in Piles /\ NextRounds \in Nat
      BY <1>1, NextPiles
    <3>3. OrderOnTop(NextZones) \in Orders
      BY <1>1, <3>2, OrderOfTheTop
    <3>4. stalled' \in BOOLEAN
      BY <3>1, Zenon
    <3>5. PostCardEligibility(status, changes) \in [Seats -> BOOLEAN]
      <4> SUFFICES ASSUME NEW s \in Seats
                   PROVE  (IF changes[s] # Null THEN changes[s]
                           ELSE s \notin status.acted \ status.passed) \in BOOLEAN
        BY Zenon DEF PostCardEligibility
      <4>1. changes[s] \in BOOLEAN \cup {Null}
        OBVIOUS
      <4> QED BY <4>1, Zenon
    <3> QED BY <2>2, <3>1, <3>2, <3>3, <3>4, <3>5
  <2> QED BY <2>1, <2>2
<1>3. card' \in CardStatus /\ InTurn(card')
  BY <1>2, FreshCardTyped DEF EndCard
<1>4. active' \in Seats /\ (card'.first # Null => active' = card'.first)
  BY <1>1, <1>3 DEF EndCard, CardStatus
<1>5. overrides' \in [Seats -> BOOLEAN \cup {Null}]
  BY DEF EndCard
<1> QED BY <1>2, <1>3, <1>4, <1>5 DEF EndCard

\* Where only the piles and rounds matter for the phase
LEMMA PhaseStays ==
  ASSUME PhaseOK, phase' = phase,
         InCoupPhase(phase) => zones' = zones /\ rounds' = rounds
  PROVE  PhaseOK'
<1>1. CASE InCoupPhase(phase)
  <2>1. InEffect(zones, rounds)' = InEffect(zones, rounds)
    BY <1>1 DEF InEffect, PhaseOrder, FinalRound, CoupOnTop, MoreRounds
  <2> QED BY <1>1, <2>1 DEF PhaseOK, PhaseValid, InCoupPhase
<1>2. CASE ~InCoupPhase(phase)
  BY <1>2 DEF PhaseOK, InCoupPhase
<1> QED BY <1>1, <1>2

\* A move leaves a state as it should be, whatever its class and overrides.
LEMMA MoveKeepsIInv ==
  ASSUME IInv, NEW class \in Classes \cup {Null},
         NEW now \in Overrides, NEW later \in Overrides,
         NEW pending, GrantsOK(pending), NEW effects, EffectsOK(effects),
         AfterMove(class, now, later, pending, effects)
  PROVE  IInv'
<1> DEFINE e == Override(eligible, now)
           changes == [s \in Seats |->
                         LET mine == {o \in later : o.seat = s}
                         IN IF mine = {} THEN overrides[s]
                            ELSE (CHOOSE o \in mine : TRUE).eligible]
           status == AfterAction(class, e, pending)
<1>1. /\ zones \in Piles /\ rounds \in Nat /\ stalled \in BOOLEAN
      /\ seatOrder \in Orders /\ active \in Seats /\ eligible \in Eligibility
      /\ card \in CardStatus /\ overrides \in [Seats -> BOOLEAN \cup {Null}]
      /\ phase \in Phases /\ turn \in Nat /\ PhaseOK
  BY DEF IInv, TurnFlowTypeOK, Piles, Eligibility
<1>2. e \in [Seats -> BOOLEAN]
  BY <1>1, OverridesTyped DEF Eligibility
<1>3. changes \in [Seats -> BOOLEAN \cup {Null}]
  <2> SUFFICES ASSUME NEW s \in Seats
               PROVE  (IF {o \in later : o.seat = s} = {} THEN overrides[s]
                       ELSE (CHOOSE o \in {o \in later : o.seat = s} : TRUE).eligible)
                        \in BOOLEAN \cup {Null}
    BY Zenon
  <2>1. CASE {o \in later : o.seat = s} = {}
    BY <1>1, <2>1
  <2>2. CASE {o \in later : o.seat = s} # {}
    <3>1. (CHOOSE o \in {o \in later : o.seat = s} : TRUE) \in later
      BY <2>2
    <3> QED BY <2>2, <3>1 DEF Overrides
  <2> QED BY <2>1, <2>2
<1> HIDE DEF e
<1>4. status \in CardStatus /\ InTurn(status)
  BY <1>1, <1>2, AfterActionTyped
<1>5. /\ IF CardOver(status, pending)
         THEN EndCard(status, changes, pending, effects)
         ELSE /\ eligible' = e /\ card' = status /\ overrides' = changes
              /\ grants' = pending /\ deferred' = effects
              /\ active' = IF status.first = Null THEN active ELSE status.first
              /\ UNCHANGED <<cardVars, seatOrder>>
      /\ mode' = "advance" /\ advances' = 0 /\ UNCHANGED <<phase, turn>>
  BY Zenon DEF AfterMove, e
<1> HIDE DEF status, changes
<1>6. /\ zones' \in Piles /\ rounds' \in Nat /\ stalled' \in BOOLEAN
      /\ seatOrder' \in Orders /\ eligible' \in [Seats -> BOOLEAN]
      /\ card' \in CardStatus /\ InTurn(card')
      /\ overrides' \in [Seats -> BOOLEAN \cup {Null}]
      /\ grants' = pending /\ deferred' = effects
      /\ active' \in Seats /\ (card'.first # Null => active' = card'.first)
      /\ InCoupPhase(phase) => zones' = zones /\ rounds' = rounds
  <2>1. CASE CardOver(status, pending)
    <3>1. EndCard(status, changes, pending, effects)
      BY <1>5, <2>1
    <3> QED BY <1>3, <1>4, <3>1, CardEnds
  <2>2. CASE ~CardOver(status, pending)
    BY <1>1, <1>2, <1>3, <1>4, <1>5, <2>2 DEF cardVars, CardStatus
  <2> QED BY <2>1, <2>2
<1>7. PhaseOK'
  BY <1>1, <1>5, <1>6, PhaseStays
<1>8. TurnFlowTypeOK'
  BY <1>1, <1>5, <1>6 DEF TurnFlowTypeOK, Piles, GrantsOK, EffectsOK
<1>9. GrantsOK(grants)' /\ EffectsOK(deferred)'
  BY <1>6 DEF GrantsOK, EffectsOK, StepsInOrder
<1> QED BY <1>5, <1>6, <1>7, <1>8, <1>9 DEF IInv, ActiveOK, InTurn, TheFirstCandidateIsAsked

-----------------------------------------------------------------------------
(* The moves.                                                              *)

\* A pass keeps the invariant.
LEMMA PassKeeps == ASSUME IInv, Pass PROVE IInv'
<1> DEFINE left == AdvanceSequences(grants \ Blocking(grants, active))
<1>1. GrantsOK(left) /\ EffectsOK(deferred)
  BY FewerGrants, AdvancedGrants DEF IInv
<1>2. {} \in Overrides
  BY DEF Overrides
<1>3. AfterMove(Null, {}, {}, left, deferred)
  BY DEF Pass
<1> HIDE DEF left
<1> QED BY <1>1, <1>2, <1>3, MoveKeepsIInv

\* An operation keeps the invariant.
LEMMA OperationKeeps == ASSUME IInv, Operation PROVE IInv'
<1> DEFINE left == AdvanceSequences(grants)
<1>1. GrantsOK(left) /\ EffectsOK(deferred)
  BY AdvancedGrants DEF IInv
<1>2. {} \in Overrides /\ "operation" \in Classes
  BY DEF Overrides, Classes
<1>3. AfterMove("operation", {}, {}, left, deferred)
  BY DEF Operation
<1> HIDE DEF left
<1> QED BY <1>1, <1>2, <1>3, MoveKeepsIInv

\* Overrides directed at a seat are still overrides.
LEMMA TargetedTyped ==
  ASSUME active \in Seats, NEW changes \in Overrides
  PROVE  Targeted(changes) \in Overrides
<1> SUFFICES ASSUME NEW o \in changes
             PROVE  [o EXCEPT !.seat = IF @ = Null THEN active ELSE @]
                      \in [seat : Seats \cup {Null}, eligible : BOOLEAN]
  BY DEF Targeted, Overrides
<1>1. o \in [seat : Seats \cup {Null}, eligible : BOOLEAN]
  BY DEF Overrides
<1> QED BY <1>1

\* An event, with whatever grants and effects it issues, keeps the invariant.
LEMMA PlayEventKeeps == ASSUME IInv, PlayEvent PROVE IInv'
<1> DEFINE event == EventOf[Head(zones.played)]
<1>1. event # Null /\ IsEvent(event)
  <2>1. zones.played \in Seq(Cards) /\ zones.played # <<>>
    BY DEF IInv, TurnFlowTypeOK, Zone, PlayEvent
  <2>2. Head(zones.played) \in Cards
    BY <2>1, HeadTailProperties
  <2> QED BY <2>2, TurnFlowAssumption DEF PlayEvent
<1>2. PICK unusable \in SUBSET {d \in event.grants : d.probed} :
        LET issued == ToGrants(Issued(event.grants, unusable), active, turn,
                               FreshSerial(grants))
            id == CHOOSE n \in 0..Cardinality(deferred) :
                    \A d \in deferred : d.id # n
            waiting == IF event.defers /\ Batches(issued) # {}
                       THEN {[id |-> id, batches |-> Batches(issued)]}
                       ELSE {}
        IN AfterMove("event", Targeted(event.now), Targeted(event.later),
                     AdvanceSequences(grants \cup issued),
                     deferred \cup waiting)
  BY Zenon DEF PlayEvent
<1> DEFINE issued == ToGrants(Issued(event.grants, unusable), active, turn,
                              FreshSerial(grants))
           id == CHOOSE n \in 0..Cardinality(deferred) : \A d \in deferred : d.id # n
           waiting == IF event.defers /\ Batches(issued) # {}
                      THEN {[id |-> id, batches |-> Batches(issued)]} ELSE {}
<1>3. AfterMove("event", Targeted(event.now), Targeted(event.later),
                AdvanceSequences(grants \cup issued), deferred \cup waiting)
  BY <1>2, Zenon
<1>4. /\ active \in Seats /\ turn \in Nat /\ GrantsOK(grants) /\ EffectsOK(deferred)
  BY DEF IInv, TurnFlowTypeOK
<1>5. /\ event.grants \subseteq Declaration /\ IsFiniteSet(event.grants)
      /\ event.now \in Overrides /\ event.later \in Overrides
  BY <1>1 DEF IsEvent
<1> HIDE DEF event
<1>6. GrantsOK(grants \cup issued) /\ Batches(issued) \subseteq BatchId
  BY <1>4, <1>5, GrantsIssued
<1>7. id \in Nat
  <2> DEFINE f == [d \in deferred |-> d.id]
  <2>1. IsFiniteSet(deferred)
    BY <1>4 DEF EffectsOK
  <2>2. \E n \in 0..Cardinality(deferred) : \A d \in deferred : f[d] # n
    <3> HIDE DEF f
    <3> QED BY <2>1, FreshNumber
  <2>3. \E n \in 0..Cardinality(deferred) : \A d \in deferred : d.id # n
    BY <2>2
  <2>4. id \in 0..Cardinality(deferred)
    BY <2>3
  <2> QED BY <2>1, <2>4, FS_CardinalityType
<1> HIDE DEF issued, id
<1>8. EffectsOK(deferred \cup waiting)
  <2>1. waiting \subseteq [id : Nat, batches : SUBSET BatchId]
    BY <1>6, <1>7
  <2>2. IsFiniteSet(waiting)
    BY FS_EmptySet, FS_Singleton
  <2> HIDE DEF waiting
  <2> QED BY <1>4, <2>1, <2>2, FS_Union DEF EffectsOK
<1>9. GrantsOK(AdvanceSequences(grants \cup issued))
  BY <1>6, AdvancedGrants
<1>10. Targeted(event.now) \in Overrides /\ Targeted(event.later) \in Overrides
  BY <1>4, <1>5, TargetedTyped
<1> HIDE DEF waiting
<1> QED BY <1>3, <1>8, <1>9, <1>10, MoveKeepsIInv DEF Classes

\* What a free operation leaves behind.
LEMMA FreeOperationLeaves ==
  ASSUME IInv, NEW g \in grants
  PROVE  /\ GrantsOK(AdvanceSequences(ConsumeUse(grants, g)))
         /\ GrantsOK(AdvanceSequences(AdvanceSequences(ConsumeUse(grants, g))))
         /\ EffectsOK({d \in deferred :
                         ~Releasable(d, AdvanceSequences(ConsumeUse(grants, g)))})
<1>1. GrantsOK(AdvanceSequences(ConsumeUse(grants, g)))
  BY ConsumedGrants, AdvancedGrants DEF IInv
<1>2. GrantsOK(AdvanceSequences(AdvanceSequences(ConsumeUse(grants, g))))
  BY <1>1, AdvancedGrants
<1> QED BY <1>1, <1>2, FS_Subset DEF IInv, EffectsOK

\* Using a grant keeps the invariant.
LEMMA FreeOperationKeeps ==
  ASSUME IInv, NEW g \in grants, FreeOperation(g)
  PROVE  IInv'
<1> DEFINE left == AdvanceSequences(ConsumeUse(grants, g))
           effects == {d \in deferred : ~Releasable(d, left)}
<1>1. /\ GrantsOK(left) /\ GrantsOK(AdvanceSequences(left)) /\ EffectsOK(effects)
  BY FreeOperationLeaves
<1>2. /\ mode' = "advance"
      /\ IF g.resumes
         THEN AfterMove("operation", {}, {}, AdvanceSequences(left), effects)
         ELSE /\ grants' = left /\ deferred' = effects /\ advances' = 0
              /\ UNCHANGED <<cardVars, phase, seatVars, overrides, turn>>
  BY Zenon DEF FreeOperation, AfterMove
<1> HIDE DEF left, effects
<1>3. CASE g.resumes
  BY <1>1, <1>2, <1>3, MoveKeepsIInv DEF Overrides, Classes
<1>4. CASE ~g.resumes
  <2>1. /\ grants' = left /\ deferred' = effects /\ advances' = 0 /\ mode' = "advance"
        /\ zones' = zones /\ stalled' = stalled /\ rounds' = rounds /\ phase' = phase
        /\ seatOrder' = seatOrder /\ eligible' = eligible /\ card' = card
        /\ active' = active /\ overrides' = overrides /\ turn' = turn
    BY <1>2, <1>4 DEF cardVars, seatVars
  <2>2. TurnFlowTypeOK'
    BY <1>1, <2>1 DEF IInv, TurnFlowTypeOK, GrantsOK, EffectsOK
  <2>3. GrantsOK(grants)' /\ EffectsOK(deferred)'
    BY <1>1, <2>1 DEF GrantsOK, EffectsOK, StepsInOrder
  <2>4. PhaseOK'
    BY <2>1, PhaseStays DEF IInv
  <2> QED BY <2>1, <2>2, <2>3, <2>4 DEF IInv, ActiveOK, InTurn, TheFirstCandidateIsAsked
<1> QED BY <1>3, <1>4

-----------------------------------------------------------------------------
(* The iterations of the loop.                                             *)

\* An iteration that leaves the cards and the candidates alone
LEMMA QuietIterationKeeps ==
  ASSUME IInv, UNCHANGED <<cardVars, phase, seatVars, overrides, deferred, turn>>,
         grants' \in SUBSET grants, advances' \in Nat,
         mode' \in {"advance", "over", "failed"}
  PROVE  IInv'
<1>1. /\ zones' = zones /\ stalled' = stalled /\ rounds' = rounds /\ phase' = phase
      /\ seatOrder' = seatOrder /\ eligible' = eligible /\ card' = card
      /\ active' = active /\ overrides' = overrides /\ deferred' = deferred
      /\ turn' = turn
  BY DEF cardVars, seatVars
<1>2. GrantsOK(grants')
  BY FewerGrants DEF IInv
<1>3. TurnFlowTypeOK'
  BY <1>1, <1>2 DEF IInv, TurnFlowTypeOK, GrantsOK
<1>4. GrantsOK(grants)' /\ EffectsOK(deferred)'
  BY <1>1, <1>2 DEF IInv, GrantsOK, EffectsOK, StepsInOrder
<1>5. PhaseOK'
  BY <1>1, PhaseStays DEF IInv
<1> QED BY <1>1, <1>3, <1>4, <1>5 DEF IInv, ActiveOK, InTurn, TheFirstCandidateIsAsked

\* Asking a seat keeps the invariant: it is the first candidate or holds a grant.
LEMMA DecideKeeps == ASSUME IInv, Decide PROVE IInv'
<1>1. /\ zones' = zones /\ stalled' = stalled /\ rounds' = rounds /\ phase' = phase
      /\ seatOrder' = seatOrder /\ eligible' = eligible /\ card' = card
      /\ active' = active /\ overrides' = overrides /\ deferred' = deferred
      /\ grants' = grants /\ turn' = turn /\ mode' = "decide" /\ advances' = 0
  BY DEF Decide, cardVars, seatVars, grantVars
<1>2. TurnFlowTypeOK'
  BY <1>1 DEF IInv, TurnFlowTypeOK
<1>3. GrantsOK(grants)' /\ EffectsOK(deferred)'
  BY <1>1 DEF IInv, GrantsOK, EffectsOK, StepsInOrder
<1>4. PhaseOK'
  BY <1>1, PhaseStays DEF IInv
<1>5. active = card.first \/ Blocking(grants, active) # {}
  <2>1. active \in Seats
    BY DEF IInv, TurnFlowTypeOK
  <2>2. active \in {card.first, card.second} \/ Blocking(grants, active) # {}
    BY DEF Decide, MayAct
  <2> QED BY <2>1, <2>2, GrantsAssumption DEF IInv, ActiveOK, InTurn
<1>6. TheFirstCandidateIsAsked'
  BY <1>1, <1>5 DEF TheFirstCandidateIsAsked, Blocking
<1> QED BY <1>1, <1>2, <1>3, <1>4, <1>6 DEF IInv, ActiveOK, InTurn

\* An implicit pass keeps the invariant.
LEMMA ImplicitPassKeeps == ASSUME IInv, ImplicitPass PROVE IInv'
<1> DEFINE S == RemainingSeats
<1>1. /\ card \in CardStatus /\ active \in Seats /\ seatOrder \in Orders
      /\ advances \in Nat
  BY DEF IInv, TurnFlowTypeOK
<1>2. S \in SUBSET Seats /\ S # {}
  BY DEF ImplicitPass, RemainingSeats, EligibleSeats
<1>3. /\ card' = [card EXCEPT !.acted = @ \cup {active}, !.passed = @ \cup {active},
                              !.first = FirstIn(seatOrder, S),
                              !.second = SecondIn(seatOrder, S)]
      /\ active' = card'.first /\ advances' = advances + 1
      /\ zones' = zones /\ stalled' = stalled /\ rounds' = rounds /\ phase' = phase
      /\ seatOrder' = seatOrder /\ eligible' = eligible /\ overrides' = overrides
      /\ grants' = grants /\ deferred' = deferred /\ turn' = turn /\ mode' = mode
  BY DEF ImplicitPass, cardVars, grantVars
<1>4. mode = "advance"
  BY DEF ImplicitPass, NoMove, Looping
<1> HIDE DEF S
<1>5. FirstIn(seatOrder, S) \in Seats /\ SecondIn(seatOrder, S) \in Seats \cup {Null}
  BY <1>1, <1>2, FirstSeat, SecondSeat
<1>6. /\ card' \in CardStatus /\ card'.first \in Seats
  BY <1>1, <1>3, <1>5 DEF CardStatus
<1>7. TurnFlowTypeOK'
  BY <1>1, <1>3, <1>6 DEF IInv, TurnFlowTypeOK
<1>8. GrantsOK(grants)' /\ EffectsOK(deferred)'
  BY <1>3 DEF IInv, GrantsOK, EffectsOK, StepsInOrder
<1>9. PhaseOK'
  BY <1>3, PhaseStays DEF IInv
<1> QED BY <1>3, <1>4, <1>6, <1>7, <1>8, <1>9, GrantsAssumption
        DEF IInv, ActiveOK, InTurn, TheFirstCandidateIsAsked

\* A phase begins with every seat of its order in turn.
LEMMA EnteredPhase ==
  ASSUME IInv, NEW p, EnterPhase(p)
  PROVE  /\ seatOrder' \in Orders /\ eligible' \in [Seats -> BOOLEAN]
         /\ card' \in CardStatus /\ active' \in Seats /\ ActiveOK'
         /\ phase' = p
<1>1. /\ seatOrder \in Orders /\ eligible \in [Seats -> BOOLEAN]
      /\ card \in CardStatus /\ active \in Seats /\ ActiveOK
  BY DEF IInv, TurnFlowTypeOK
<1>2. CASE InCoupPhase(p)
  <2>1. /\ seatOrder' = IF CoupOrder = Null THEN seatOrder ELSE CoupOrder
        /\ eligible' = [s \in Seats |-> TRUE]
        /\ card' = FreshCard(seatOrder', eligible')
        /\ active' = card'.first
    BY <1>2 DEF EnterPhase
  <2>2. seatOrder' \in Orders /\ eligible' \in [Seats -> BOOLEAN]
        /\ EligibleSeats(eligible') = Seats
    BY <1>1, <2>1, TurnFlowAssumption DEF EligibleSeats
  <2>3. card' \in CardStatus /\ InTurn(card')
    BY <2>1, <2>2, FreshCardTyped
  <2>4. card'.first = FirstIn(seatOrder', Seats)
    BY <2>1, <2>2 DEF FreshCard
  <2>5. card'.first \in Seats
    BY <2>2, <2>4, FirstSeat, TurnFlowAssumption
  <2> QED BY <2>1, <2>2, <2>3, <2>5 DEF EnterPhase, ActiveOK, InTurn
<1>3. CASE ~InCoupPhase(p)
  BY <1>1, <1>3 DEF EnterPhase, seatVars, ActiveOK, InTurn
<1> QED BY <1>2, <1>3

\* Going on to the next phase or card keeps the invariant.
LEMMA AdvancePhaseKeeps == ASSUME IInv, AdvancePhase PROVE IInv'
<1>1. /\ zones \in Piles /\ rounds \in Nat /\ stalled \in BOOLEAN /\ turn \in Nat
      /\ advances \in Nat
  BY DEF IInv, TurnFlowTypeOK, Piles
<1>2. /\ overrides' = overrides /\ grants' = grants /\ deferred' = deferred
      /\ mode' = mode /\ advances' = advances + 1
  BY DEF AdvancePhase, grantVars
<1>3. mode = "advance"
  BY DEF AdvancePhase, NoMove, Looping
<1>4. PICK p : /\ EnterPhase(p)
               /\ p \in InEffect(zones', rounds')
               /\ zones' \in Piles /\ rounds' \in Nat /\ stalled' \in BOOLEAN
               /\ turn' \in Nat
  <2>1. CASE ~PhaseValid
    <3>1. EnterPhase(FirstPhase(zones, rounds)) /\ UNCHANGED <<cardVars, turn>>
      BY <2>1 DEF AdvancePhase
    <3> QED BY <1>1, <3>1, FirstPhaseInEffect DEF cardVars
  <2>2. CASE PhaseValid /\ LaterPhases # {}
    <3>1. /\ EnterPhase(FirstIn(PhaseOrder(zones, rounds), LaterPhases))
          /\ UNCHANGED <<cardVars, turn>>
      BY <2>2 DEF AdvancePhase
    <3> QED BY <1>1, <2>2, <3>1, LaterPhaseInEffect DEF cardVars
  <2>3. CASE PhaseValid /\ LaterPhases = {}
    <3>1. /\ zones' = NextZones /\ rounds' = NextRounds /\ stalled' = NextStalled
          /\ turn' = turn + 1 /\ EnterPhase(FirstPhase(NextZones, NextRounds))
      BY <2>3 DEF AdvancePhase
    <3> QED BY <1>1, <3>1, NextPiles, FirstPhaseInEffect
  <2> QED BY <2>1, <2>2, <2>3
<1>5. /\ seatOrder' \in Orders /\ eligible' \in [Seats -> BOOLEAN]
      /\ card' \in CardStatus /\ active' \in Seats /\ ActiveOK'
      /\ phase' = p
  BY <1>4, EnteredPhase
<1>6. phase' \in Phases /\ PhaseOK'
  BY <1>4, <1>5, EffectiveArePhases DEF PhaseOK, PhaseValid
<1>7. TurnFlowTypeOK'
  BY <1>1, <1>2, <1>3, <1>4, <1>5, <1>6 DEF IInv, TurnFlowTypeOK, Piles
<1>8. GrantsOK(grants)' /\ EffectsOK(deferred)'
  BY <1>2 DEF IInv, GrantsOK, EffectsOK, StepsInOrder
<1> QED BY <1>2, <1>3, <1>5, <1>6, <1>7, <1>8 DEF IInv, TheFirstCandidateIsAsked

\* One iteration of the loop keeps the invariant.
LEMMA LoopKeeps == ASSUME IInv, Loop PROVE IInv'
<1>1. advances \in Nat
  BY DEF IInv, TurnFlowTypeOK
<1>2. CASE StopStalled
  BY <1>2, QuietIterationKeeps DEF StopStalled, grantVars
<1>3. CASE Decide
  BY <1>3, DecideKeeps
<1>4. CASE PreSkip
  BY <1>1, <1>4, QuietIterationKeeps DEF PreSkip, Drop, Looping
<1>5. CASE ExpireBlocking
  BY <1>1, <1>5, QuietIterationKeeps DEF ExpireBlocking, Drop, Looping
<1>6. CASE GiveUp
  BY <1>1, <1>6, QuietIterationKeeps DEF GiveUp, grantVars
<1>7. CASE ImplicitPass
  BY <1>7, ImplicitPassKeeps
<1>8. CASE AdvancePhase
  BY <1>8, AdvancePhaseKeeps
<1> QED BY <1>2, <1>3, <1>4, <1>5, <1>6, <1>7, <1>8 DEF Loop

\* So does a step that changes nothing.
LEMMA StutterKeeps == ASSUME IInv, UNCHANGED turnFlowVars PROVE IInv'
BY DEF IInv, TurnFlowTypeOK, GrantsOK, StepsInOrder, EffectsOK, ActiveOK, InTurn,
       PhaseOK, PhaseValid, TheFirstCandidateIsAsked, turnFlowVars, cardVars,
       seatVars, grantVars, InEffect, PhaseOrder, FinalRound, CoupOnTop, MoreRounds,
       InCoupPhase, Blocking

\* Every step keeps the invariant.
LEMMA NextKeepsIInv == IInv /\ [Next]_turnFlowVars => IInv'
<1> SUFFICES ASSUME IInv, [Next]_turnFlowVars PROVE IInv'
  OBVIOUS
<1>1. CASE Pass BY <1>1, PassKeeps
<1>2. CASE Operation BY <1>2, OperationKeeps
<1>3. CASE PlayEvent BY <1>3, PlayEventKeeps
<1>4. ASSUME NEW g \in grants, FreeOperation(g) PROVE IInv'
  BY <1>4, FreeOperationKeeps
<1>5. CASE Loop BY <1>5, LoopKeeps
<1>6. CASE UNCHANGED turnFlowVars BY <1>6, StutterKeeps
<1> QED BY <1>1, <1>2, <1>3, <1>4, <1>5, <1>6 DEF Next

-----------------------------------------------------------------------------
(* The theorems.                                                           *)

\* The invariant holds in every state of every game.
THEOREM TurnFlowInvariant == TurnFlowSpec => []IInv
BY InitEstablishesIInv, NextKeepsIInv, PTL DEF TurnFlowSpec

\* The turn flow's variables keep their types.
THEOREM TurnFlowTypes == TurnFlowSpec => []TurnFlowTypeOK
BY TurnFlowInvariant, PTL DEF IInv

\* Later steps of a sequence wait for the first, however grants come and go.
THEOREM LaterStepsWait == TurnFlowSpec => []LaterStepsWaitForTheFirst
<1>1. IInv => LaterStepsWaitForTheFirst
  BY DEF IInv, GrantsOK, StepsInOrder, LaterStepsWaitForTheFirst
<1> QED BY <1>1, TurnFlowInvariant, PTL

\* The seat that is asked is the first candidate, or holds a grant it must use.
THEOREM CandidatesOrHoldersAreAsked == TurnFlowSpec => []TheFirstCandidateIsAsked
BY TurnFlowInvariant, PTL DEF IInv

\* What a move does to grants, effects and cards, whether or not it ends the card.
LEMMA MoveEffects ==
  ASSUME NEW class, NEW now, NEW later, NEW pending, NEW effects,
         AfterMove(class, now, later, pending, effects)
  PROVE  grants' = pending /\ deferred' = effects /\ phase' = phase
<1>1. CASE CardOver(AfterAction(class, Override(eligible, now), pending), pending)
  BY <1>1, Zenon DEF AfterMove, EndCard, CardOver
<1>2. CASE ~CardOver(AfterAction(class, Override(eligible, now), pending), pending)
  <2>1. /\ grants' = pending /\ deferred' = effects /\ phase' = phase
        /\ UNCHANGED <<cardVars, seatOrder>>
    BY <1>2, Zenon DEF AfterMove
  <2> QED BY <2>1 DEF cardVars
<1> QED BY <1>1, <1>2

\* What TheCardEndsWhenItIsDue says of the state a move leads to
ItIsDue ==
  IF GrantSeats(grants') # {}
  THEN zones' = zones /\ active' \in GrantSeats(grants')
  ELSE \/ InCoupPhase(phase) \/ card'.acted = {}
       \/ /\ card'.nonPass < 2
          /\ eligible'[active'] /\ active' \notin card'.acted

\* A move that counts ends the card, or hands it on, as is due.
LEMMA MovesAreDue ==
  ASSUME IInv, NEW class, NEW now, NEW later, NEW pending, NEW effects,
         AfterMove(class, now, later, pending, effects)
  PROVE  ItIsDue
<1> DEFINE e == Override(eligible, now)
           status == AfterAction(class, e, pending)
           S == CandidateSeats(e, status.acted, pending)
<1>1. grants' = pending
  BY MoveEffects
<1>2. CASE CardOver(status, pending)
  <2>1. GrantSeats(pending) = {}
    BY <1>2 DEF CardOver
  <2>2. card' = FreshCard(seatOrder', eligible')
    BY <1>2, Zenon DEF AfterMove, EndCard
  <2>3. card'.acted = {}
    BY <2>2 DEF FreshCard
  <2> QED BY <1>1, <2>1, <2>3 DEF ItIsDue
<1>3. CASE ~CardOver(status, pending)
  <2>1. /\ zones' = zones /\ eligible' = e /\ card' = status
        /\ active' = IF status.first = Null THEN active ELSE status.first
    <3>1. /\ eligible' = e /\ card' = status
          /\ active' = IF status.first = Null THEN active ELSE status.first
          /\ UNCHANGED <<cardVars, seatOrder>>
      BY <1>3, Zenon DEF AfterMove
    <3> HIDE DEF e, status
    <3> QED BY <3>1 DEF cardVars
  <2>2. status.first = FirstIn(seatOrder, S)
    BY DEF AfterAction
  <2>3. status.nonPass \in Nat
    <3>1. card.nonPass \in Nat
      BY DEF IInv, TurnFlowTypeOK, CardStatus
    <3> QED BY <3>1 DEF AfterAction
  <2>4. S \in SUBSET Seats
    BY DEF CandidateSeats, GrantSeats, EligibleSeats
  <2>5. CASE GrantSeats(pending) # {}
    <3>1. S = GrantSeats(pending)
      BY <2>5 DEF CandidateSeats
    <3> HIDE DEF S, status
    <3>2. status.first \in GrantSeats(pending) /\ status.first # Null
      BY <2>2, <2>4, <2>5, <3>1, FirstSeat, GrantsAssumption DEF IInv, TurnFlowTypeOK
    <3> QED BY <1>1, <2>1, <2>5, <3>2 DEF ItIsDue
  <2>6. CASE GrantSeats(pending) = {} /\ ~InCoupPhase(phase)
    <3>1. status.first # Null /\ ~(status.nonPass > 1)
      BY <1>3, <2>6 DEF CardOver
    <3>2. S = EligibleSeats(e) \ status.acted
      BY <2>6 DEF CandidateSeats
    <3> HIDE DEF S, status, e
    <3>3. status.first \in EligibleSeats(e) /\ status.first \notin status.acted
      BY <2>2, <2>4, <3>1, <3>2, FirstSeat DEF IInv, TurnFlowTypeOK
    <3>4. active' = status.first /\ status.nonPass < 2
      BY <2>1, <2>3, <3>1
    <3> QED BY <1>1, <2>1, <2>6, <3>3, <3>4 DEF ItIsDue, EligibleSeats
  <2>7. CASE GrantSeats(pending) = {} /\ InCoupPhase(phase)
    BY <1>1, <2>7 DEF ItIsDue
  <2> QED BY <2>5, <2>6, <2>7
<1> QED BY <1>2, <1>3

\* What every move does to the phase, the piles and the deferred effects
LEMMA Moves ==
  ASSUME IInv, Pass \/ Operation \/ PlayEvent \/ \E g \in grants : FreeOperation(g)
  PROVE  /\ mode = "decide" /\ phase' = phase
         /\ <<card, zones>>' # <<card, zones>> => ItIsDue
         /\ \A d \in deferred \ deferred' : \A g \in grants' : g.batch \notin d.batches
<1>1. CASE Pass
  BY <1>1, MoveEffects, MovesAreDue DEF Pass
<1>2. CASE Operation
  BY <1>2, MoveEffects, MovesAreDue DEF Operation
<1>3. CASE PlayEvent
  <2>1. PICK now, later, pending, more :
          AfterMove("event", now, later, pending, deferred \cup more)
    BY <1>3, Zenon DEF PlayEvent
  <2>2. grants' = pending /\ deferred' = deferred \cup more /\ phase' = phase /\ ItIsDue
    BY <2>1, MoveEffects, MovesAreDue
  <2>3. mode = "decide"
    BY <1>3 DEF PlayEvent
  <2> QED BY <2>2, <2>3
<1>4. ASSUME NEW g \in grants, FreeOperation(g)
      PROVE  /\ mode = "decide" /\ phase' = phase
             /\ <<card, zones>>' # <<card, zones>> => ItIsDue
             /\ \A d \in deferred \ deferred' : \A h \in grants' : h.batch \notin d.batches
  <2> DEFINE left == AdvanceSequences(ConsumeUse(grants, g))
             effects == {d \in deferred : ~Releasable(d, left)}
  <2>1. /\ mode = "decide"
        /\ IF g.resumes
           THEN AfterMove("operation", {}, {}, AdvanceSequences(left), effects)
           ELSE grants' = left /\ deferred' = effects /\ UNCHANGED <<cardVars, phase, card>>
    BY <1>4, Zenon DEF FreeOperation, seatVars
  <2>2. left \subseteq Grant
    BY FreeOperationLeaves DEF GrantsOK
  <2> HIDE DEF left
  <2>3. /\ phase' = phase /\ deferred' = effects
        /\ <<card, zones>>' # <<card, zones>> => ItIsDue
        /\ grants' \in {left, AdvanceSequences(left)}
    <3>1. CASE g.resumes
      BY <2>1, <3>1, MoveEffects, MovesAreDue
    <3>2. CASE ~g.resumes
      BY <2>1, <3>2 DEF cardVars
    <3> QED BY <3>1, <3>2
  <2>4. \A h \in grants' : \E k \in left : h.batch = k.batch
    BY <2>2, <2>3, AdvancedBatches
  <2>5. \A d \in deferred \ deferred' : \A k \in left : k.batch \notin d.batches
    BY <2>3 DEF Releasable, BatchPending
  <2> QED BY <2>1, <2>3, <2>4, <2>5
<1> QED BY <1>1, <1>2, <1>3, <1>4

\* What an iteration does to them
LEMMA Iterations ==
  ASSUME IInv, Loop
  PROVE  /\ mode = "advance" /\ deferred' = deferred
         /\ phase' # phase /\ InCoupPhase(phase) => RemainingSeats = {}
<1>1. mode = "advance" /\ deferred' = deferred
  BY Zenon DEF Loop, StopStalled, Decide, PreSkip, ExpireBlocking, GiveUp, ImplicitPass,
         AdvancePhase, Drop, NoMove, Looping, grantVars
<1>2. CASE AdvancePhase
  BY <1>1, <1>2 DEF AdvancePhase, IInv, PhaseOK
<1>3. CASE ~AdvancePhase
  <2>1. phase' = phase
    BY <1>3, Zenon DEF Loop, StopStalled, Decide, PreSkip, ExpireBlocking, GiveUp,
         ImplicitPass, Drop
  <2> QED BY <1>1, <2>1
<1> QED BY <1>2, <1>3

\* No step breaks one of the three action properties.
LEMMA StepsAreSafe ==
  ASSUME IInv, [Next]_turnFlowVars
  PROVE  /\ [\A d \in deferred \ deferred' :
                \A g \in grants' : g.batch \notin d.batches]_turnFlowVars
         /\ [mode = "decide" /\ <<card, zones>>' # <<card, zones>> => ItIsDue]_turnFlowVars
         /\ [InCoupPhase(phase) /\ phase' # phase
               => EligibleSeats(eligible) \subseteq card.acted \cup {active}]_turnFlowVars
<1>1. CASE Pass \/ Operation \/ PlayEvent \/ \E g \in grants : FreeOperation(g)
  BY <1>1, Moves
<1>2. CASE Loop
  <2>1. RemainingSeats = {} => EligibleSeats(eligible) \subseteq card.acted \cup {active}
    BY DEF RemainingSeats
  <2> QED BY <1>2, <2>1, Iterations
<1>3. CASE UNCHANGED turnFlowVars
  BY <1>3
<1> QED BY <1>1, <1>2, <1>3 DEF Next

\* A deferred effect waits until no grant of its batches is pending.
THEOREM EffectsWait == TurnFlowSpec => DeferredEffectsWait
BY TurnFlowInvariant, StepsAreSafe, PTL DEF TurnFlowSpec, DeferredEffectsWait

\* After any move that counts, the use of a grant included, the card stays for
\* the grants that must be used, and else ends or goes on as is due.
THEOREM CardsEndWhenDue == TurnFlowSpec => TheCardEndsWhenItIsDue
BY TurnFlowInvariant, StepsAreSafe, PTL DEF TurnFlowSpec, TheCardEndsWhenItIsDue, ItIsDue

\* Every eligible seat has had a coup phase before the next one begins.
THEOREM CoupPhaseIsForAll == TurnFlowSpec => CoupPhaseAsksEverySeat
BY TurnFlowInvariant, StepsAreSafe, PTL DEF TurnFlowSpec, CoupPhaseAsksEverySeat

-----------------------------------------------------------------------------
(* Conservation of the cards.                                              *)

Conserved(piles) ==
  /\ \A c \in Cards : \E z \in Zone : \E i \in DOMAIN piles[z] : piles[z][i] = c
  /\ \A y, z \in Zone : \A i \in DOMAIN piles[y], j \in DOMAIN piles[z] :
       piles[y][i] = piles[z][j] => y = z /\ i = j

CoupsLead(piles) == \A i \in DOMAIN piles.leader : piles.leader[i] \in Coups

\* Moving the top card puts it, and no other, on top of the other pile.
LEMMA TopMovedExactly ==
  ASSUME NEW piles \in Piles, NEW from \in Zone, NEW to \in Zone, from # to,
         piles[from] # <<>>, NEW m, m = MoveTop(piles, from, to)
  PROVE  /\ \A z \in Zone \ {from, to} : m[z] = piles[z]
         /\ Len(piles[from]) \in Nat \ {0} /\ DOMAIN piles[from] = 1..Len(piles[from])
         /\ DOMAIN m[from] = 1..(Len(piles[from]) - 1)
         /\ \A i \in DOMAIN m[from] : m[from][i] = piles[from][i + 1]
         /\ Len(piles[to]) \in Nat /\ DOMAIN piles[to] = 1..Len(piles[to])
         /\ DOMAIN m[to] = 1..(Len(piles[to]) + 1)
         /\ m[to][1] = piles[from][1]
         /\ \A i \in DOMAIN piles[to] : m[to][i + 1] = piles[to][i]
<1> DEFINE f == piles[from]
           t == piles[to]
           top == <<Head(f)>>
<1>1. f \in Seq(Cards) /\ t \in Seq(Cards) /\ f # <<>>
  BY DEF Piles
<1>2. /\ \A z \in Zone \ {from, to} : m[z] = piles[z]
      /\ m[from] = Tail(f) /\ m[to] = top \o t
  BY DEF MoveTop, Piles
<1> HIDE DEF f, t
<1>3. /\ Len(f) \in Nat \ {0} /\ DOMAIN f = 1..Len(f)
      /\ Len(t) \in Nat /\ DOMAIN t = 1..Len(t)
  BY <1>1, EmptySeq, LenProperties
<1>4. /\ Head(f) = f[1] /\ Head(f) \in Cards
      /\ Tail(f) \in Seq(Cards) /\ Len(Tail(f)) = Len(f) - 1
      /\ \A i \in 1..Len(Tail(f)) : Tail(f)[i] = f[i + 1]
  BY <1>1, HeadTailProperties
<1>5. top \in Seq(Cards) /\ Len(top) = 1 /\ top[1] = f[1]
  BY <1>4
<1> HIDE DEF top
<1>6. /\ top \o t \in Seq(Cards) /\ Len(top \o t) = 1 + Len(t)
      /\ \A i \in 1..(1 + Len(t)) :
           (top \o t)[i] = IF i <= 1 THEN top[i] ELSE t[i - 1]
  <2>1. /\ top \o t \in Seq(Cards) /\ Len(top \o t) = Len(top) + Len(t)
        /\ \A i \in 1..(Len(top) + Len(t)) :
             (top \o t)[i] = IF i <= Len(top) THEN top[i] ELSE t[i - Len(top)]
    BY <1>1, <1>5, ConcatProperties
  <2> QED BY <1>5, <2>1
<1>7. DOMAIN m[from] = 1..(Len(f) - 1) /\ DOMAIN m[to] = 1..(Len(t) + 1)
  <2>1. DOMAIN Tail(f) = 1..Len(Tail(f))
    BY <1>4, LenProperties
  <2>2. DOMAIN (top \o t) = 1..Len(top \o t)
    BY <1>6, LenProperties
  <2>3. DOMAIN m[from] = 1..(Len(f) - 1)
    BY <1>2, <1>4, <2>1
  <2>4. 1 + Len(t) = Len(t) + 1
    BY <1>3
  <2>5. DOMAIN m[to] = 1..(Len(t) + 1)
    BY <1>2, <1>6, <2>2, <2>4, Zenon
  <2> QED BY <2>3, <2>5
<1>8. /\ m[to][1] = f[1]
      /\ \A i \in DOMAIN t : m[to][i + 1] = t[i]
      /\ \A i \in DOMAIN m[from] : m[from][i] = f[i + 1]
  BY <1>2, <1>3, <1>4, <1>5, <1>6, <1>7
<1> QED BY <1>2, <1>3, <1>7, <1>8 DEF f, t

\* Moving the top of a pile conserves the cards.
LEMMA TopMovedConserves ==
  ASSUME NEW piles \in Piles, NEW from \in Zone, NEW to \in Zone, from # to,
         Conserved(piles)
  PROVE  Conserved(MoveTop(piles, from, to))
<1>1. CASE piles[from] = <<>>
  BY <1>1 DEF MoveTop
<1>2. CASE piles[from] # <<>>
  <2> DEFINE m == MoveTop(piles, from, to)
             zone(z, i) == IF z = to /\ i = 1 THEN from ELSE z
             index(z, i) == IF z = from THEN i + 1
                            ELSE IF z = to /\ i > 1 THEN i - 1 ELSE i
  <2>1. /\ \A z \in Zone \ {from, to} : m[z] = piles[z]
        /\ Len(piles[from]) \in Nat \ {0} /\ DOMAIN piles[from] = 1..Len(piles[from])
        /\ DOMAIN m[from] = 1..(Len(piles[from]) - 1)
        /\ \A i \in DOMAIN m[from] : m[from][i] = piles[from][i + 1]
        /\ Len(piles[to]) \in Nat /\ DOMAIN piles[to] = 1..Len(piles[to])
        /\ DOMAIN m[to] = 1..(Len(piles[to]) + 1)
        /\ m[to][1] = piles[from][1]
        /\ \A i \in DOMAIN piles[to] : m[to][i + 1] = piles[to][i]
    BY <1>2, TopMovedExactly
  <2> HIDE DEF m
  <2>2. \A z \in Zone : \A i \in DOMAIN piles[z] : i \in Nat \ {0}
    BY LenProperties DEF Piles
  <2>3. \A z \in Zone : \A i \in DOMAIN m[z] :
          /\ zone(z, i) \in Zone /\ index(z, i) \in DOMAIN piles[zone(z, i)]
          /\ m[z][i] = piles[zone(z, i)][index(z, i)]
          /\ i \in Nat \ {0}
    <3> SUFFICES ASSUME NEW z \in Zone, NEW i \in DOMAIN m[z]
                 PROVE  /\ zone(z, i) \in Zone
                        /\ index(z, i) \in DOMAIN piles[zone(z, i)]
                        /\ m[z][i] = piles[zone(z, i)][index(z, i)]
                        /\ i \in Nat \ {0}
      OBVIOUS
    <3>1. CASE z = from
      BY <2>1, <3>1
    <3>2. CASE z = to /\ i = 1
      BY <2>1, <3>2
    <3>3. CASE z = to /\ i # 1
      <4>1. i \in 2..(Len(piles[to]) + 1)
        BY <2>1, <3>3
      <4>2. i - 1 \in DOMAIN piles[to] /\ (i - 1) + 1 = i
        BY <2>1, <4>1
      <4>3. m[to][i] = piles[to][i - 1]
        BY <2>1, <4>2
      <4> QED BY <3>3, <4>1, <4>2, <4>3
    <3>4. CASE z \notin {from, to}
      BY <2>1, <2>2, <3>4
    <3> QED BY <3>1, <3>2, <3>3, <3>4
  <2>4. ASSUME NEW y \in Zone, NEW z \in Zone, NEW i \in DOMAIN m[y], NEW j \in DOMAIN m[z],
               m[y][i] = m[z][j]
        PROVE  y = z /\ i = j
    <3>1. i \in Nat \ {0} /\ j \in Nat \ {0}
      BY <2>3
    <3>2. zone(y, i) = zone(z, j) /\ index(y, i) = index(z, j)
      <4> HIDE DEF zone, index
      <4> QED BY <2>3, <2>4 DEF Conserved
    <3> QED BY <3>1, <3>2
  <2>5. ASSUME NEW c \in Cards
        PROVE  \E z \in Zone : \E i \in DOMAIN m[z] : m[z][i] = c
    <3>1. PICK z \in Zone : \E i \in DOMAIN piles[z] : piles[z][i] = c
      BY DEF Conserved
    <3>2. PICK i \in DOMAIN piles[z] : piles[z][i] = c
      BY <3>1
    <3>3. CASE z = from /\ i = 1
      BY <2>1, <3>2, <3>3
    <3>4. CASE z = from /\ i # 1
      <4>1. i - 1 \in DOMAIN m[from] /\ (i - 1) + 1 = i
        BY <2>1, <3>4
      <4> QED BY <2>1, <3>2, <3>4, <4>1
    <3>5. CASE z = to
      <4>1. i + 1 \in DOMAIN m[to]
        BY <2>1, <3>5
      <4> QED BY <2>1, <3>2, <3>5, <4>1
    <3>6. CASE z \notin {from, to}
      BY <2>1, <3>2, <3>6
    <3> QED BY <3>3, <3>4, <3>5, <3>6
  <2>6. Conserved(m)
    BY <2>4, <2>5 DEF Conserved
  <2> QED BY <2>6 DEF m
<1> QED BY <1>1, <1>2

\* A card that does not go to the leader pile leaves it alone.
LEMMA LeaderStays ==
  ASSUME NEW piles \in Piles, NEW from \in Zone, NEW to \in Zone, from # to,
         "leader" \notin {from, to}, CoupsLead(piles)
  PROVE  CoupsLead(MoveTop(piles, from, to))
<1>1. MoveTop(piles, from, to).leader = piles.leader
  BY DEF MoveTop, Piles, Zone
<1> QED BY <1>1 DEF CoupsLead

\* The piles at the end of a card hold what they held.
LEMMA NextPilesConserve ==
  ASSUME zones \in Piles, Conserved(zones), CoupsLead(zones)
  PROVE  Conserved(NextZones) /\ CoupsLead(NextZones)
<1>1. Retired \in Piles /\ Conserved(Retired) /\ CoupsLead(Retired)
  <2>1. CASE RetirementPile = "played"
    BY <2>1 DEF Retired
  <2>2. CASE RetirementPile = "discard"
    <3>1. Retired = MoveTop(zones, "played", "discard")
      BY <2>2 DEF Retired
    <3> QED BY <3>1, TopMoved, TopMovedConserves, LeaderStays DEF Zone
  <2>3. CASE RetirementPile = "leader"
    <3>1. Retired = MoveTop(zones, "played", "leader")
      BY <2>3 DEF Retired
    <3>2. Retired \in Piles /\ Conserved(Retired)
      BY <3>1, TopMoved, TopMovedConserves DEF Zone
    <3>3. zones.played # <<>> /\ Head(zones.played) \in Coups
      BY <2>3 DEF RetirementPile, CoupOnTop
    <3>4. /\ DOMAIN zones.leader = 1..Len(zones.leader) /\ Len(zones.leader) \in Nat
          /\ DOMAIN Retired.leader = 1..(Len(zones.leader) + 1)
          /\ Retired.leader[1] = zones.played[1]
          /\ \A i \in DOMAIN zones.leader : Retired.leader[i + 1] = zones.leader[i]
      BY <3>1, <3>3, TopMovedExactly DEF Zone
    <3>5. Retired.leader[1] \in Coups
      <4>1. zones.played \in Seq(Cards)
        BY DEF Piles, Zone
      <4> DEFINE s == zones.played
      <4>2. s \in Seq(Cards) /\ s # <<>> => Head(s) = s[1]
        OBVIOUS
      <4> QED BY <3>3, <3>4, <4>1, <4>2
    <3>6. ASSUME NEW i \in DOMAIN Retired.leader PROVE Retired.leader[i] \in Coups
      <4>1. CASE i = 1
        BY <3>5, <4>1
      <4>2. CASE i # 1
        <5>1. i - 1 \in DOMAIN zones.leader /\ (i - 1) + 1 = i
          BY <3>4, <3>6, <4>2
        <5> QED BY <3>4, <5>1 DEF CoupsLead
      <4> QED BY <4>1, <4>2
    <3> QED BY <3>2, <3>6 DEF CoupsLead
  <2> QED BY <2>1, <2>2, <2>3 DEF RetirementPile
<1> DEFINE promoted == MoveTop(Retired, "lookahead", "played")
<1>2. promoted \in Piles /\ Conserved(promoted) /\ CoupsLead(promoted)
  BY <1>1, TopMoved, TopMovedConserves, LeaderStays DEF Zone
<1> HIDE DEF promoted
<1>3. /\ Conserved(MoveTop(promoted, "draw", "lookahead"))
      /\ CoupsLead(MoveTop(promoted, "draw", "lookahead"))
  BY <1>2, TopMovedConserves, LeaderStays DEF Zone
<1>4. NextZones = IF stalled THEN zones ELSE MoveTop(promoted, "draw", "lookahead")
  BY DEF NextZones, promoted
<1> QED BY <1>3, <1>4

\* A game begins with every card once.
LEMMA DealConserves == Init => zones \in Piles /\ Conserved(zones) /\ CoupsLead(zones)
<1> SUFFICES ASSUME Init PROVE zones \in Piles /\ Conserved(zones) /\ CoupsLead(zones)
  OBVIOUS
<1>1. PICK deck \in Decks : zones = InitialPiles(deck)
  BY DEF Init
<1>2. Cardinality(Cards) \in Nat
  BY TurnFlowAssumption, FS_CardinalityType
<1>3. /\ deck \in [1..Cardinality(Cards) -> Cards]
      /\ \A c \in Cards : \E i \in DOMAIN deck : deck[i] = c
  BY TurnFlowAssumption
<1>4. deck \in Injection(1..Cardinality(Cards), Cards)
  <2>1. deck \in Surjection(1..Cardinality(Cards), Cards)
    BY <1>3 DEF Surjection
  <2>2. /\ IsFiniteSet(1..Cardinality(Cards))
        /\ Cardinality(1..Cardinality(Cards)) = Cardinality(Cards)
    BY <1>2, FS_Interval
  <2> QED BY <2>1, <2>2, FS_SurjSameCardinalityImpliesInj
<1> DEFINE dealt == [[z \in Zone |-> <<>>] EXCEPT !.draw = deck]
<1>5. deck \in Seq(Cards)
  BY <1>2, <1>3, SeqDef
<1>6. /\ dealt \in Piles /\ dealt.draw = deck
      /\ \A z \in Zone \ {"draw"} : dealt[z] = <<>>
  BY <1>5, EmptySeq DEF Piles, Zone
<1>7. Conserved(dealt)
  <2>1. "draw" \in Zone
    BY DEF Zone
  <2>2. \A z \in Zone : \A i \in DOMAIN dealt[z] : z = "draw"
    BY <1>6
  <2>3. \A i, j \in DOMAIN deck : deck[i] = deck[j] => i = j
    BY <1>3, <1>4 DEF Injection, IsInjective
  <2> HIDE DEF dealt
  <2>4. \A c \in Cards : \E i \in DOMAIN dealt["draw"] : dealt["draw"][i] = c
    BY <1>3, <1>6
  <2>5. ASSUME NEW y \in Zone, NEW z \in Zone, NEW i \in DOMAIN dealt[y],
               NEW j \in DOMAIN dealt[z], dealt[y][i] = dealt[z][j]
        PROVE  y = z /\ i = j
    <3>1. y = "draw" /\ z = "draw"
      BY <2>2
    <3> QED BY <1>6, <2>3, <2>5, <3>1
  <2> QED BY <2>1, <2>4, <2>5 DEF Conserved
<1>8. CoupsLead(dealt)
  BY <1>6 DEF CoupsLead, Zone
<1> DEFINE shown == MoveTop(dealt, "draw", "played")
<1> HIDE DEF dealt
<1>9. shown \in Piles /\ Conserved(shown) /\ CoupsLead(shown)
  BY <1>6, <1>7, <1>8, TopMoved, TopMovedConserves, LeaderStays DEF Zone
<1> HIDE DEF shown
<1>10. /\ MoveTop(shown, "draw", "lookahead") \in Piles
       /\ Conserved(MoveTop(shown, "draw", "lookahead"))
       /\ CoupsLead(MoveTop(shown, "draw", "lookahead"))
  BY <1>9, TopMoved, TopMovedConserves, LeaderStays DEF Zone
<1> QED BY <1>1, <1>10 DEF InitialPiles, dealt, shown

\* A move leaves the piles alone or takes them over the card boundary.
LEMMA MovesOfCards ==
  ASSUME NEW class, NEW now, NEW later, NEW pending, NEW effects,
         AfterMove(class, now, later, pending, effects)
  PROVE  zones' \in {zones, NextZones}
<1>1. CASE zones' = zones
  BY <1>1
<1>2. CASE zones' # zones
  <2>1. CardOver(AfterAction(class, Override(eligible, now), pending), pending)
    BY <1>2, Zenon DEF AfterMove, cardVars
  <2> QED BY <1>2, <2>1, Zenon DEF AfterMove, EndCard, cardVars
<1> QED BY <1>1, <1>2

\* So does every step.
LEMMA StepsOfCards ==
  ASSUME [Next]_turnFlowVars PROVE zones' \in {zones, NextZones}
<1>1. CASE Pass
  BY <1>1, MovesOfCards DEF Pass
<1>2. CASE Operation
  BY <1>2, MovesOfCards DEF Operation
<1>3. CASE PlayEvent
  <2>1. PICK now, later, pending, effects : AfterMove("event", now, later, pending, effects)
    BY <1>3, Zenon DEF PlayEvent
  <2> QED BY <2>1, MovesOfCards
<1>4. ASSUME NEW g \in grants, FreeOperation(g) PROVE zones' \in {zones, NextZones}
  <2>1. \/ UNCHANGED cardVars
        \/ \E pending, effects : AfterMove("operation", {}, {}, pending, effects)
    BY <1>4, Zenon DEF FreeOperation
  <2> QED BY <2>1, MovesOfCards DEF cardVars
<1>5. CASE AdvancePhase
  BY <1>5 DEF AdvancePhase, cardVars
<1>6. CASE StopStalled \/ Decide \/ PreSkip \/ ExpireBlocking \/ GiveUp \/ ImplicitPass
  BY <1>6 DEF StopStalled, Decide, PreSkip, ExpireBlocking, Drop, GiveUp, ImplicitPass,
              cardVars
<1>7. CASE UNCHANGED turnFlowVars
  BY <1>7 DEF turnFlowVars, cardVars
<1> QED BY <1>1, <1>2, <1>3, <1>4, <1>5, <1>6, <1>7 DEF Next, Loop

\* No card is lost or doubled, and only coup cards lead, in any game.
THEOREM CardsAreConserved == TurnFlowSpec => []CardsConserved
<1> DEFINE OK == zones \in Piles /\ Conserved(zones) /\ CoupsLead(zones)
<1>1. Init => OK
  BY DealConserves
<1>2. IInv /\ OK /\ [Next]_turnFlowVars => OK'
  <2> SUFFICES ASSUME IInv, OK, [Next]_turnFlowVars PROVE OK'
    OBVIOUS
  <2>1. zones' \in {zones, NextZones}
    BY StepsOfCards
  <2>2. rounds \in Nat /\ stalled \in BOOLEAN
    BY DEF IInv, TurnFlowTypeOK
  <2>3. NextZones \in Piles /\ Conserved(NextZones) /\ CoupsLead(NextZones)
    BY <2>2, NextPiles, NextPilesConserve
  <2> QED BY <2>1, <2>3 DEF Conserved, CoupsLead
<1>3. OK => CardsConserved
  BY DEF Conserved, CoupsLead, CardsConserved
<1> QED BY <1>1, <1>2, <1>3, TurnFlowInvariant, PTL DEF TurnFlowSpec

-----------------------------------------------------------------------------
(* The row of cards.                                                       *)

\* One card is played and one revealed at most, and cards are left to reveal
\* only behind a revealed one.
OneRevealed(piles) ==
  /\ piles.played = <<>> \/ Len(piles.played) = 1
  /\ piles.lookahead = <<>> \/ Len(piles.lookahead) = 1
  /\ piles.played = <<>> => piles.lookahead = <<>>
  /\ piles.lookahead = <<>> => piles.draw = <<>>

CardsOf(pile) == {pile[i] : i \in DOMAIN pile}

\* A card put on a pile is one of its cards, with those it had.
LEMMA CardOnPile ==
  ASSUME NEW pile \in Seq(Cards), NEW c \in Cards
  PROVE  CardsOf(<<c>> \o pile) = CardsOf(pile) \cup {c}
<1> DEFINE more == <<c>> \o pile
<1>1. /\ Len(pile) \in Nat /\ DOMAIN pile = 1..Len(pile)
      /\ DOMAIN more = 1..(Len(pile) + 1)
      /\ more[1] = c /\ \A i \in 1..Len(pile) : more[i + 1] = pile[i]
  BY LenProperties, ConcatProperties
<1> HIDE DEF more
<1>2. ASSUME NEW i \in DOMAIN more PROVE more[i] \in CardsOf(pile) \cup {c}
  <2>1. CASE i = 1
    BY <1>1, <2>1
  <2>2. CASE i # 1
    <3>1. i - 1 \in DOMAIN pile /\ more[i] = pile[i - 1]
      <4>1. i - 1 \in 1..Len(pile) /\ (i - 1) + 1 = i
        BY <1>1, <2>2
      <4> QED BY <1>1, <4>1
    <3> QED BY <3>1 DEF CardsOf
  <2> QED BY <2>1, <2>2
<1>3. ASSUME NEW i \in DOMAIN pile PROVE pile[i] \in CardsOf(more)
  <2>1. i + 1 \in DOMAIN more /\ more[i + 1] = pile[i]
    BY <1>1
  <2> QED BY <2>1 DEF CardsOf
<1>4. c \in CardsOf(more)
  BY <1>1 DEF CardsOf
<1> QED BY <1>2, <1>3, <1>4 DEF CardsOf, more

\* A pile of one card is that card.
LEMMA OneCard ==
  ASSUME NEW pile \in Seq(Cards), Len(pile) = 1
  PROVE  pile # <<>> /\ Head(pile) \in Cards /\ pile = <<Head(pile)>> /\ Tail(pile) = <<>>
<1>1. pile # <<>> /\ Head(pile) \in Cards /\ Head(pile) = pile[1]
  BY EmptySeq, HeadTailProperties
<1>2. Tail(pile) = <<>>
  <2>1. Tail(pile) \in Seq(Cards) /\ Len(Tail(pile)) = 0
    BY <1>1, HeadTailProperties
  <2> QED BY <2>1, EmptySeq
<1>3. pile = <<Head(pile)>>
  BY <1>1
<1> QED BY <1>1, <1>2, <1>3

\* The boundary of a card that is played: the revealed card comes up, the next
\* one is revealed, and the played one goes to a pile of those that are over.
LEMMA BoundaryExactly ==
  ASSUME ~Accumulating, zones \in Piles, OneRevealed(zones), ~stalled,
         zones.played # <<>>
  PROVE  /\ Len(zones.played) = 1
         /\ NextZones.played = zones.lookahead
         /\ zones.draw = <<>> =>
              NextZones.lookahead = <<>> /\ NextZones.draw = <<>>
         /\ zones.draw # <<>> =>
              /\ NextZones.lookahead = <<Head(zones.draw)>>
              /\ NextZones.draw = Tail(zones.draw)
         /\ \E r \in {"leader", "discard"} :
              /\ NextZones[r] = <<Head(zones.played)>> \o zones[r]
              /\ \A z \in {"leader", "discard"} \ {r} : NextZones[z] = zones[z]
<1> DEFINE r == RetirementPile
           put == Retired
           up == MoveTop(put, "lookahead", "played")
           out == MoveTop(up, "draw", "lookahead")
<1>1. r \in {"leader", "discard"}
  BY DEF RetirementPile
<1>2. Len(zones.played) = 1 /\ zones.played \in Seq(Cards)
      /\ zones.lookahead \in Seq(Cards) /\ zones.draw \in Seq(Cards)
  BY DEF OneRevealed, Piles, Zone
<1>3. Tail(zones.played) = <<>>
  BY <1>2, OneCard
<1>4. put = MoveTop(zones, "played", r)
  BY <1>1 DEF Retired
<1> HIDE DEF r
<1>5. /\ DOMAIN put = Zone /\ put.played = <<>>
      /\ put[r] = <<Head(zones.played)>> \o zones[r]
      /\ \A z \in Zone \ {"played", r} : put[z] = zones[z]
  <2>1. put = [zones EXCEPT ![r] = <<Head(zones.played)>> \o @, !.played = Tail(@)]
    BY <1>4 DEF MoveTop
  <2> QED BY <1>1, <1>3, <2>1 DEF Piles, Zone
<1> HIDE DEF put
<1>6. /\ DOMAIN up = Zone /\ up.played = zones.lookahead /\ up.lookahead = <<>>
      /\ \A z \in Zone \ {"played", "lookahead"} : up[z] = put[z]
  <2>1. put.lookahead = zones.lookahead
    BY <1>1, <1>5 DEF Zone
  <2>2. CASE zones.lookahead = <<>>
    BY <1>5, <2>1, <2>2 DEF MoveTop, Zone
  <2>3. CASE zones.lookahead # <<>>
    <3>1. zones.lookahead = <<Head(zones.lookahead)>> /\ Tail(zones.lookahead) = <<>>
      BY <1>2, <2>3, OneCard DEF OneRevealed
    <3>2. up = [put EXCEPT !.played = <<Head(zones.lookahead)>> \o @, !.lookahead = Tail(@)]
      BY <2>1, <2>3 DEF MoveTop
    <3>3. <<Head(zones.lookahead)>> \o <<>> = zones.lookahead
      BY <1>2, <3>1, ConcatEmptySeq
    <3> QED BY <1>5, <2>1, <3>1, <3>2, <3>3 DEF Zone
  <2> QED BY <2>2, <2>3
<1> HIDE DEF up
<1>7. up.draw = zones.draw
  BY <1>1, <1>5, <1>6 DEF Zone
<1>8. /\ \A z \in Zone \ {"draw", "lookahead"} : out[z] = up[z]
      /\ zones.draw = <<>> => out.lookahead = <<>> /\ out.draw = <<>>
      /\ zones.draw # <<>> =>
           out.lookahead = <<Head(zones.draw)>> /\ out.draw = Tail(zones.draw)
  <2>1. CASE zones.draw = <<>>
    BY <1>6, <1>7, <2>1 DEF MoveTop, Zone
  <2>2. CASE zones.draw # <<>>
    <3>1. out = [up EXCEPT !.lookahead = <<Head(zones.draw)>> \o @, !.draw = Tail(@)]
      BY <1>7, <2>2 DEF MoveTop
    <3>2. <<Head(zones.draw)>> \o <<>> = <<Head(zones.draw)>>
      <4>1. Head(zones.draw) \in Cards
        BY <1>2, <2>2, HeadTailProperties
      <4>2. <<Head(zones.draw)>> \in Seq(Cards)
        BY <4>1
      <4> QED BY <4>2, ConcatEmptySeq
    <3> QED BY <1>6, <1>7, <2>2, <3>1, <3>2 DEF Zone
  <2> QED BY <2>1, <2>2
<1>9. NextZones = out
  BY DEF NextZones, out, up, put
<1> HIDE DEF out
<1>10. /\ NextZones.played = zones.lookahead
       /\ NextZones[r] = <<Head(zones.played)>> \o zones[r]
       /\ \A z \in {"leader", "discard"} \ {r} : NextZones[z] = zones[z]
  BY <1>1, <1>5, <1>6, <1>8, <1>9 DEF Zone
<1> QED BY <1>1, <1>2, <1>8, <1>9, <1>10

\* With no card played nothing is left to come up, and the boundary is idle.
LEMMA BoundaryIdle ==
  ASSUME ~Accumulating, zones \in Piles, OneRevealed(zones), zones.played = <<>>
  PROVE  NextZones = zones
<1>1. Retired = zones
  BY DEF Retired, RetirementPile, CoupOnTop, MoveTop
<1>2. zones.lookahead = <<>> /\ zones.draw = <<>>
  BY DEF OneRevealed
<1> QED BY <1>1, <1>2 DEF NextZones, MoveTop

\* The boundary is a step of the row of cards.
LEMMA BoundaryIsNextCard ==
  ASSUME ~Accumulating, zones \in Piles, OneRevealed(zones), zones' \in {zones, NextZones}
  PROVE  OneRevealed(zones)' /\ [Row!NextCard]_(Row!rowVars)
<1>1. CASE zones' = zones
  BY <1>1 DEF OneRevealed, Row!rowVars, Top
<1>2. CASE zones' # zones
  <2>1. ~stalled /\ zones' = NextZones
    BY <1>2 DEF NextZones
  <2>2. zones.played # <<>>
    BY <1>2, <2>1, BoundaryIdle
  <2> DEFINE p == Head(zones.played)
  <2>3. /\ Len(zones.played) = 1
        /\ zones'.played = zones.lookahead
        /\ zones.draw = <<>> => zones'.lookahead = <<>> /\ zones'.draw = <<>>
        /\ zones.draw # <<>> => /\ zones'.lookahead = <<Head(zones.draw)>>
                                /\ zones'.draw = Tail(zones.draw)
        /\ \E r \in {"leader", "discard"} :
             /\ zones'[r] = <<p>> \o zones[r]
             /\ \A z \in {"leader", "discard"} \ {r} : zones'[z] = zones[z]
    BY <2>1, <2>2, BoundaryExactly
  <2>4. /\ zones.played \in Seq(Cards) /\ zones.draw \in Seq(Cards)
        /\ zones.leader \in Seq(Cards) /\ zones.discard \in Seq(Cards)
    BY DEF Piles, Zone
  <2>5. p \in Cards /\ p # Null
    BY <2>3, <2>4, OneCard, TurnFlowAssumption
  <2>6. CardsOf(zones'.leader) \cup CardsOf(zones'.discard)
          = CardsOf(zones.leader) \cup CardsOf(zones.discard) \cup {p}
    <3>1. PICK r \in {"leader", "discard"} :
             /\ zones'[r] = <<p>> \o zones[r]
             /\ \A z \in {"leader", "discard"} \ {r} : zones'[z] = zones[z]
      BY <2>3
    <3>2. CardsOf(<<p>> \o zones[r]) = CardsOf(zones[r]) \cup {p}
      BY <2>4, <2>5, CardOnPile
    <3> HIDE DEF p
    <3> QED BY <3>1, <3>2
  <2>7. OneRevealed(zones)'
    <3>1. zones.draw # <<>> => Len(<<Head(zones.draw)>>) = 1
      OBVIOUS
    <3>2. <<Head(zones.draw)>> # <<>>
      OBVIOUS
    <3>3. zones.lookahead = <<>> => zones.draw = <<>>
      BY DEF OneRevealed
    <3> QED BY <2>3, <3>1, <3>2, <3>3 DEF OneRevealed
  <2>8. Top(zones.played) = p /\ Top(zones'.played) = Top(zones.lookahead)
    BY <2>2, <2>3 DEF Top
  <2>9. \/ zones.draw # <<>> /\ Top(zones'.lookahead) = Head(zones.draw)
                            /\ zones'.draw = Tail(zones.draw)
        \/ zones.draw = <<>> /\ Top(zones'.lookahead) = Null /\ zones'.draw = zones.draw
    <3>1. Head(<<Head(zones.draw)>>) = Head(zones.draw) /\ <<Head(zones.draw)>> # <<>>
      OBVIOUS
    <3> QED BY <2>3, <3>1 DEF Top
  <2> HIDE DEF p
  <2>10. Row!NextCard
    BY <2>5, <2>6, <2>8, <2>9, Zenon DEF Row!NextCard, CardsOf
  <2> QED BY <2>7, <2>10
<1> QED BY <1>1, <1>2

\* A game begins with the first two cards of its deck.
LEMMA DealIsRowInit == Init => OneRevealed(zones) /\ Row!RowInit
<1> SUFFICES ASSUME Init PROVE OneRevealed(zones) /\ Row!RowInit
  OBVIOUS
<1>1. PICK deck \in Decks : zones = InitialPiles(deck)
  BY DEF Init
<1>2. Cardinality(Cards) \in Nat /\ Cardinality(Cards) > 1
  BY TurnFlowAssumption, FS_CardinalityType
<1>3. deck \in Seq(Cards) /\ Len(deck) = Cardinality(Cards)
  <2>1. deck \in [1..Cardinality(Cards) -> Cards]
    BY TurnFlowAssumption
  <2> QED BY <1>2, <2>1, SeqDef, LenProperties
<1> DEFINE rest == Tail(deck)
<1>4. /\ deck # <<>> /\ Head(deck) = deck[1] /\ Head(deck) \in Cards
      /\ rest \in Seq(Cards) /\ rest # <<>> /\ Head(rest) = deck[2]
      /\ Tail(rest) \in Seq(Cards)
  <2>1. deck # <<>> /\ Head(deck) = deck[1] /\ Head(deck) \in Cards
        /\ rest \in Seq(Cards) /\ Len(rest) = Len(deck) - 1
        /\ \A i \in 1..Len(rest) : rest[i] = deck[i + 1]
    BY <1>2, <1>3, HeadTailProperties, EmptySeq
  <2> HIDE DEF rest
  <2>2. Len(rest) > 0 /\ 1 \in 1..Len(rest)
    BY <1>2, <1>3, <2>1
  <2>3. rest # <<>> /\ rest[1] = deck[1 + 1]
    BY <2>1, <2>2, EmptySeq
  <2> QED BY <2>1, <2>3, HeadTailProperties
<1> HIDE DEF rest
<1> DEFINE dealt == [[z \in Zone |-> <<>>] EXCEPT !.draw = deck]
           shown == MoveTop(dealt, "draw", "played")
<1>5. /\ DOMAIN dealt = Zone /\ dealt.draw = deck
      /\ \A z \in Zone \ {"draw"} : dealt[z] = <<>>
  BY DEF Zone
<1> HIDE DEF dealt
<1>6. /\ DOMAIN shown = Zone /\ shown.draw = rest /\ shown.played = <<Head(deck)>>
      /\ \A z \in Zone \ {"draw", "played"} : shown[z] = <<>>
  <2>1. shown = [dealt EXCEPT !.played = <<Head(deck)>> \o @, !.draw = Tail(@)]
    BY <1>4, <1>5 DEF MoveTop
  <2>2. <<Head(deck)>> \o <<>> = <<Head(deck)>>
    BY <1>4
  <2> QED BY <1>5, <2>1, <2>2 DEF Zone, rest
<1> HIDE DEF shown
<1>7. /\ zones.played = <<Head(deck)>> /\ zones.lookahead = <<Head(rest)>>
      /\ zones.draw = Tail(rest) /\ zones.leader = <<>> /\ zones.discard = <<>>
  <2>1. zones = MoveTop(shown, "draw", "lookahead")
    BY <1>1 DEF InitialPiles, shown, dealt
  <2>2. zones = [shown EXCEPT !.lookahead = <<Head(rest)>> \o @, !.draw = Tail(@)]
    BY <1>4, <1>6, <2>1 DEF MoveTop
  <2>3. <<Head(rest)>> \o <<>> = <<Head(rest)>>
    OBVIOUS
  <2> QED BY <1>6, <2>2, <2>3 DEF Zone
<1>8. /\ Top(zones.played) = deck[1] /\ Top(zones.lookahead) = deck[2]
      /\ zones.draw = Tail(Tail(deck))
  <2>1. \A c : <<c>> # <<>> /\ Head(<<c>>) = c /\ Len(<<c>>) = 1
    OBVIOUS
  <2> QED BY <1>4, <1>7, <2>1 DEF Top, rest
<1>9. OneRevealed(zones)
  <2>1. \A c : <<c>> # <<>> /\ Len(<<c>>) = 1
    OBVIOUS
  <2> QED BY <1>7, <2>1 DEF OneRevealed
<1>10. CardsOf(zones.leader) \cup CardsOf(zones.discard) = {}
  BY <1>7 DEF CardsOf
<1> QED BY <1>8, <1>9, <1>10, Zenon DEF Row!RowInit, CardsOf

\* Through all moves, grants, coup rounds and phases the cards come up one by
\* one in the order of the deck, in every game that discards its played cards.
THEOREM TurnFlowImplementsCardRow ==
  ~Accumulating => (TurnFlowSpec => ImplementsCardRow)
<1> SUFFICES ASSUME ~Accumulating PROVE TurnFlowSpec => ImplementsCardRow
  OBVIOUS
<1> DEFINE OK == zones \in Piles /\ OneRevealed(zones)
<1>1. Init => OK /\ Row!RowInit
  BY DealConserves, DealIsRowInit
<1>2. IInv /\ OK /\ [Next]_turnFlowVars => OK' /\ [Row!NextCard]_(Row!rowVars)
  <2> SUFFICES ASSUME IInv, OK, [Next]_turnFlowVars
               PROVE  OK' /\ [Row!NextCard]_(Row!rowVars)
    OBVIOUS
  <2>1. zones' \in {zones, NextZones}
    BY StepsOfCards
  <2>2. rounds \in Nat /\ stalled \in BOOLEAN
    BY DEF IInv, TurnFlowTypeOK
  <2>3. zones' \in Piles
    BY <2>1, <2>2, NextPiles
  <2> QED BY <2>1, <2>3, BoundaryIsNextCard
<1> QED BY <1>1, <1>2, TurnFlowInvariant, PTL DEF TurnFlowSpec, ImplementsCardRow, Row!RowSpec

-----------------------------------------------------------------------------
(* The life of a grant.                                                    *)

\* Grants are told apart by their ids.
IdsUnique(G) == \A g, h \in G : g.id = h.id => g = h

\* h is g, perhaps with fewer uses left, perhaps ready by now.
SpentFrom(g, h) ==
  /\ h.id = g.id /\ h.seat = g.seat
  /\ h.policy = g.policy /\ h.resumes = g.resumes
  /\ h.batch = g.batch /\ h.step = g.step
  /\ h.uses <= g.uses
  /\ g.phase = "ready" => h.phase = "ready"

\* What is left of the grants of G when some were taken, used or readied
Left(G, H) == IdsUnique(H) /\ \A h \in H : \E g \in G : SpentFrom(g, h)

\* Spending goes on where it was left.
LEMMA LeftOfLeft ==
  ASSUME NEW G, G \subseteq Grant, NEW H, H \subseteq Grant, NEW K, K \subseteq Grant,
         Left(G, H), Left(H, K)
  PROVE  Left(G, K)
<1>1. ASSUME NEW k \in K PROVE \E g \in G : SpentFrom(g, k)
  <2>1. PICK h \in H : SpentFrom(h, k)
    BY DEF Left
  <2>2. PICK g \in G : SpentFrom(g, h)
    BY DEF Left
  <2>3. g \in Grant /\ h \in Grant /\ k \in Grant
    OBVIOUS
  <2>4. g.uses \in Nat /\ h.uses \in Nat /\ k.uses \in Nat
    BY <2>3 DEF Grant
  <2> QED BY <2>1, <2>2, <2>4 DEF SpentFrom
<1> QED BY <1>1 DEF Left

\* Grants that are taken away leave the others as they were.
LEMMA LeftOfFewer ==
  ASSUME NEW G, G \subseteq Grant, IdsUnique(G), NEW H \in SUBSET G
  PROVE  Left(G, H)
<1>1. ASSUME NEW h \in H PROVE SpentFrom(h, h)
  <2>1. h \in Grant OBVIOUS
  <2> QED BY <2>1 DEF SpentFrom, Grant
<1> QED BY <1>1 DEF Left, IdsUnique

\* Advancing the sequences readies grants and changes nothing else.
LEMMA LeftOfAdvanced ==
  ASSUME NEW G, G \subseteq Grant, IdsUnique(G)
  PROVE  Left(G, AdvanceSequences(G))
<1> DEFINE Due(g) == g.phase = "sequenceWaiting"
              /\ \E h \in G : WaitsForNothing(G, h) /\ h.batch = g.batch
           f(g) == IF Due(g) THEN [g EXCEPT !.phase = "ready"] ELSE g
<1>1. AdvanceSequences(G) = {f(g) : g \in G}
  BY DEF AdvanceSequences
<1>2. \A g \in G : SpentFrom(g, f(g)) /\ f(g).id = g.id
  <2> TAKE g \in G
  <2>1. g \in Grant /\ g.uses \in Nat
    BY DEF Grant
  <2>2. CASE Due(g)
    <3>1. f(g) = [g EXCEPT !.phase = "ready"]
      BY <2>2
    <3> HIDE DEF f
    <3> QED BY <2>1, <3>1 DEF SpentFrom, Grant
  <2>3. CASE ~Due(g)
    <3>1. f(g) = g
      BY <2>3
    <3> HIDE DEF f
    <3> QED BY <2>1, <3>1 DEF SpentFrom, Grant
  <2> QED BY <2>2, <2>3
<1> HIDE DEF f
<1> QED BY <1>1, <1>2 DEF Left, IdsUnique

\* Using a grant leaves it with one use less, or takes it away.
LEMMA LeftOfConsumed ==
  ASSUME NEW G, GrantsOK(G), IdsUnique(G), NEW g \in G
  PROVE  Left(G, ConsumeUse(G, g))
<1> DEFINE less == [g EXCEPT !.uses = @ - 1]
<1>1. G \subseteq Grant /\ g \in Grant /\ g.uses \in Nat /\ g.uses > 0
  BY DEF GrantsOK, Grant
<1>2. Left(G, G \ {g})
  BY <1>1, LeftOfFewer
<1>3. less.id = g.id /\ SpentFrom(g, less)
  BY <1>1 DEF SpentFrom, Grant
<1> HIDE DEF less
<1>4. ConsumeUse(G, g) = (G \ {g}) \cup (IF g.uses = 1 THEN {} ELSE {less})
  BY DEF ConsumeUse, less
<1> QED BY <1>2, <1>3, <1>4 DEF Left, IdsUnique

\* The grants of an event get ids that no pending grant and no other has.
LEMMA IssuedIdsUnique ==
  ASSUME NEW G, GrantsOK(G), IdsUnique(G),
         NEW D, D \subseteq Declaration,
         \A c, d \in D : c.index = d.index => c = d,
         NEW unusable, NEW seat \in Seats, NEW t \in Nat
  PROVE  IdsUnique(G \cup ToGrants(Issued(D, unusable), seat, t, FreshSerial(G)))
<1> DEFINE s == FreshSerial(G)
           I == Issued(D, unusable)
           new == ToGrants(I, seat, t, s)
<1>1. s \in Nat /\ \A g \in G : g.id[1] # s
  BY SerialIsFresh
<1>2. I \subseteq D
  BY DEF Issued
<1> HIDE DEF s, I
<1>3. \A h \in new : \E d \in I : /\ h.id[1] = s /\ h.id[2] = d.index
                                    /\ h \in ToGrants({d}, seat, t, s)
  BY DEF ToGrants
<1>4. \A d \in I : \A g, h \in ToGrants({d}, seat, t, s) : g = h
  BY DEF ToGrants
<1> HIDE DEF new
<1>5. ASSUME NEW g \in new, NEW h \in new, g.id = h.id PROVE g = h
  <2>1. PICK c \in I : g.id[2] = c.index /\ g \in ToGrants({c}, seat, t, s)
    BY <1>3
  <2>2. PICK d \in I : h.id[2] = d.index /\ h \in ToGrants({d}, seat, t, s)
    BY <1>3
  <2>3. c.index = d.index
    BY <1>5, <2>1, <2>2
  <2>4. c = d
    BY <1>2, <2>3
  <2> QED BY <1>4, <2>1, <2>2, <2>4
<1>6. \A h \in new : h.id[1] = s
  BY <1>3
<1> QED BY <1>1, <1>5, <1>6 DEF IdsUnique, new, I, s

\* The grants that stay after a step are the ones there were, spent.
OnlySpent(G, H) ==
  \A g \in G, h \in H : h.id = g.id => SpentFrom(g, h)

\* What is left of unique grants has unique ids and was only spent.
LEMMA LeftIsSpent ==
  ASSUME NEW G, NEW M, G \subseteq M, M \subseteq Grant, IdsUnique(M), NEW H, Left(M, H)
  PROVE  IdsUnique(H) /\ OnlySpent(G, H)
<1> SUFFICES ASSUME NEW g \in G, NEW h \in H, h.id = g.id PROVE SpentFrom(g, h)
  BY DEF Left, OnlySpent
<1>1. PICK m \in M : SpentFrom(m, h)
  BY DEF Left
<1>2. h.id = m.id
  BY <1>1 DEF SpentFrom
<1> QED BY <1>1, <1>2 DEF IdsUnique

\* No step makes two grants of one id or gives a grant back what it has lost.
LEMMA StepsOnlySpend ==
  ASSUME IInv, IdsUnique(grants), [Next]_turnFlowVars
  PROVE  IdsUnique(grants') /\ OnlySpent(grants, grants')
<1>1. GrantsOK(grants) /\ grants \subseteq Grant
  BY DEF IInv, GrantsOK
<1>2. CASE Pass
  <2> DEFINE fewer == grants \ Blocking(grants, active)
  <2>1. grants' = AdvanceSequences(fewer)
    BY <1>2, MoveEffects DEF Pass
  <2>2. Left(grants, fewer) /\ fewer \subseteq Grant
    BY <1>1, LeftOfFewer
  <2> HIDE DEF fewer
  <2>3. Left(fewer, grants')
    BY <2>1, <2>2, LeftOfAdvanced DEF Left
  <2>4. grants' \subseteq Grant
    BY <1>2, PassKeeps DEF IInv, TurnFlowTypeOK
  <2> QED BY <1>1, <2>2, <2>3, <2>4, LeftOfLeft, LeftIsSpent
<1>3. CASE Operation
  <2>1. grants' = AdvanceSequences(grants)
    BY <1>3, MoveEffects DEF Operation
  <2> QED BY <1>1, <2>1, LeftOfAdvanced, LeftIsSpent
<1>4. CASE PlayEvent
  <2> DEFINE event == EventOf[Head(zones.played)]
  <2>1. event # Null /\ IsEvent(event)
    <3>1. zones.played \in Seq(Cards) /\ zones.played # <<>>
      BY <1>4 DEF IInv, TurnFlowTypeOK, Zone, PlayEvent
    <3>2. Head(zones.played) \in Cards
      BY <3>1, HeadTailProperties
    <3> QED BY <1>4, <3>2, TurnFlowAssumption DEF PlayEvent
  <2>2. PICK unusable, effects :
          AfterMove("event", Targeted(event.now), Targeted(event.later),
            AdvanceSequences(grants \cup ToGrants(Issued(event.grants, unusable),
                                                  active, turn, FreshSerial(grants))),
            effects)
    BY <1>4, Zenon DEF PlayEvent
  <2> DEFINE more == grants \cup ToGrants(Issued(event.grants, unusable),
                                          active, turn, FreshSerial(grants))
  <2>3. grants' = AdvanceSequences(more)
    BY <2>2, MoveEffects
  <2>4. /\ active \in Seats /\ turn \in Nat
        /\ event.grants \subseteq Declaration /\ IsFiniteSet(event.grants)
        /\ \A c, d \in event.grants : c.index = d.index => c = d
    BY <2>1 DEF IInv, TurnFlowTypeOK, IsEvent
  <2> HIDE DEF event
  <2>5. IdsUnique(more) /\ GrantsOK(more) /\ grants \subseteq more
    BY <1>1, <2>4, IssuedIdsUnique, GrantsIssued
  <2> HIDE DEF more
  <2> QED BY <2>3, <2>5, LeftOfAdvanced, LeftIsSpent DEF GrantsOK
<1>5. ASSUME NEW g \in grants, FreeOperation(g)
      PROVE  IdsUnique(grants') /\ OnlySpent(grants, grants')
  <2> DEFINE used == ConsumeUse(grants, g)
             left == AdvanceSequences(used)
  <2>1. grants' \in {left, AdvanceSequences(left)}
    <3>1. \/ grants' = left
          \/ \E effects :
               AfterMove("operation", {}, {}, AdvanceSequences(left), effects)
      BY <1>5, Zenon DEF FreeOperation
    <3> HIDE DEF left
    <3> QED BY <3>1, MoveEffects
  <2>2. GrantsOK(used) /\ GrantsOK(left) /\ GrantsOK(AdvanceSequences(left))
    BY <1>1, ConsumedGrants, AdvancedGrants
  <2>3. used \subseteq Grant /\ left \subseteq Grant /\ AdvanceSequences(left) \subseteq Grant
    BY <2>2 DEF GrantsOK
  <2>4. Left(grants, used)
    BY <1>1, LeftOfConsumed
  <2> HIDE DEF used
  <2>5. Left(used, left)
    BY <2>3, <2>4, LeftOfAdvanced DEF Left
  <2>6. Left(left, AdvanceSequences(left))
    BY <2>3, <2>5, LeftOfAdvanced DEF Left
  <2> HIDE DEF left
  <2>7. Left(grants, left)
    BY <1>1, <2>3, <2>4, <2>5, LeftOfLeft
  <2>8. Left(grants, AdvanceSequences(left))
    BY <1>1, <2>3, <2>6, <2>7, LeftOfLeft
  <2> QED BY <1>1, <2>1, <2>7, <2>8, LeftIsSpent
<1>6. CASE Loop \/ UNCHANGED turnFlowVars
  <2>1. grants' \in SUBSET grants
    BY <1>6 DEF Loop, StopStalled, Decide, PreSkip, ExpireBlocking, Drop, GiveUp,
                ImplicitPass, AdvancePhase, grantVars, turnFlowVars
  <2> QED BY <1>1, <2>1, LeftOfFewer, LeftIsSpent
<1> QED BY <1>2, <1>3, <1>4, <1>5, <1>6 DEF Next

\* Pending grants have different ids, however many events issue grants in a
\* turn and whatever became of the earlier ones.
THEOREM GrantIdsAreUnique == TurnFlowSpec => []IdsUnique(grants)
<1>1. Init => IdsUnique(grants)
  BY DEF Init, IdsUnique
<1>2. IInv /\ IdsUnique(grants) /\ [Next]_turnFlowVars => IdsUnique(grants)'
  BY StepsOnlySpend DEF IdsUnique
<1> QED BY <1>1, <1>2, TurnFlowInvariant, PTL DEF TurnFlowSpec

\* While a grant is pending it keeps its seat, policy, what its use resumes, batch and
\* step, it never gains a use, and once ready it is never made to wait.
THEOREM GrantsAreOnlySpent ==
  TurnFlowSpec => [][OnlySpent(grants, grants')]_turnFlowVars
<1>1. IInv /\ IdsUnique(grants) /\ [Next]_turnFlowVars
        => [OnlySpent(grants, grants')]_turnFlowVars
  BY StepsOnlySpend
<1> QED BY <1>1, TurnFlowInvariant, GrantIdsAreUnique, PTL DEF TurnFlowSpec

-----------------------------------------------------------------------------
(* The loop runs down.                                                     *)

\* What the loop of advanceToDecisionPoint can still spend: iterations up to
\* the limit and, past it, the grants that can still be dropped.
Fuel ==
  (IF advances < MaxAdvances THEN MaxAdvances - advances ELSE 0)
    + Cardinality(grants)

\* The limit of iterations is a number.
LEMMA LimitIsNatural == MaxAdvances \in Nat
<1>1. Cardinality(Seats) \in Nat
  BY TurnFlowAssumption, FS_CardinalityType
<1>2. Len(MainPhases) + Len(CoupPhases) \in Nat
  BY TurnFlowAssumption, LenProperties
<1> DEFINE n == Cardinality(Seats)
           p == Len(MainPhases) + Len(CoupPhases)
<1>3. \A i, j \in Nat : i * j \in Nat
  OBVIOUS
<1>4. 2 * n \in Nat
  BY <1>1
<1> HIDE DEF n, p
<1>5. (2 * n) * p \in Nat
  BY <1>2, <1>3, <1>4 DEF p
<1>6. MaxAdvances = (2 * n) * p + 1
  BY DEF MaxAdvances, n, p
<1> QED BY <1>5, <1>6

\* The fuel is a number.
LEMMA FuelIsNatural == IInv => Fuel \in Nat
<1> SUFFICES ASSUME IInv PROVE Fuel \in Nat
  OBVIOUS
<1>1. Cardinality(grants) \in Nat
  BY FS_CardinalityType DEF IInv, GrantsOK
<1>2. advances \in Nat
  BY DEF IInv, TurnFlowTypeOK
<1> QED BY <1>1, <1>2, LimitIsNatural DEF Fuel

\* An iteration that does not end the loop takes fuel.
LEMMA IterationTakesFuel ==
  ASSUME IInv, Next, mode = "advance", mode' = "advance"
  PROVE  Fuel' < Fuel
<1>1. advances \in Nat /\ MaxAdvances \in Nat
  BY LimitIsNatural DEF IInv, TurnFlowTypeOK
<1>2. IsFiniteSet(grants) /\ Cardinality(grants) \in Nat
  BY FS_CardinalityType DEF IInv, GrantsOK
<1>3. PreSkip \/ ExpireBlocking \/ ImplicitPass \/ AdvancePhase
  BY Zenon DEF Next, Loop, Pass, Operation, PlayEvent, FreeOperation, StopStalled, Decide,
               GiveUp
<1>4. advances' = advances + 1
  BY <1>3, Zenon DEF PreSkip, ExpireBlocking, Drop, ImplicitPass, AdvancePhase
<1>5. CASE PreSkip \/ ExpireBlocking
  <2>1. PICK gone : gone # {} /\ gone \subseteq grants /\ grants' = grants \ gone
    BY <1>5 DEF PreSkip, ExpireBlocking, Drop, Skippable, Blocking
  <2>2. grants' \in SUBSET grants /\ grants' # grants
    BY <2>1
  <2>3. Cardinality(grants') \in Nat /\ Cardinality(grants') < Cardinality(grants)
    BY <1>2, <2>2, FS_Subset, FS_CardinalityType
  <2> QED BY <1>1, <1>2, <1>4, <2>3 DEF Fuel, MaxAdvances
<1>6. CASE ImplicitPass \/ AdvancePhase
  <2>1. grants' = grants /\ advances < MaxAdvances
    BY <1>6 DEF ImplicitPass, AdvancePhase, grantVars
  <2> QED BY <1>1, <1>2, <1>4, <2>1 DEF Fuel, MaxAdvances
<1> QED BY <1>3, <1>5, <1>6

\* Every iteration of the loop that does not end it takes fuel, of which there
\* is a finite amount: the loop cannot go on forever, whatever coup rounds,
\* expiring grants and implicit passes follow one another.
THEOREM LoopRunsDown ==
  TurnFlowSpec =>
    /\ [](Fuel \in Nat)
    /\ [][mode = "advance" /\ mode' = "advance" => Fuel' < Fuel]_turnFlowVars
<1>1. IInv /\ [Next]_turnFlowVars
        => [mode = "advance" /\ mode' = "advance" => Fuel' < Fuel]_turnFlowVars
  BY IterationTakesFuel
<1> QED BY <1>1, FuelIsNatural, TurnFlowInvariant, PTL DEF TurnFlowSpec
=============================================================================
