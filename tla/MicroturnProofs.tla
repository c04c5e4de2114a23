-------------------------- MODULE MicroturnProofs ---------------------------
(***************************************************************************)
(* Proofs about Microturn, for any seats, actions, keys, values and ranges *)
(* and any number of turns.  The invariant relates the stack to the open   *)
(* turn, the bindings of the frame to what was decided, and the number of  *)
(* rollbacks to the actions barred in the turn.                            *)
(***************************************************************************)
EXTENDS Microturn, FiniteSetTheorems, TLAPS

\* What was decided and what the frame keeps differ at most in the choice
\* that is due, of which the selection so far was said.
SaidOK ==
  choice # Null =>
    /\ Without(said, choice.key) = Without(root.bindings, choice.key)
    /\ IF choice.kind = "chooseNStep"
       THEN SaidOf(choice.key) = choice.selected
       ELSE choice.key \notin DOMAIN said

\* Who is in the middle of a pass owes no grant.
PassOK ==
  choice # Null /\ root.action \in Passes => root.seat \notin owing

\* The actions barred for the active seat in the open turn
BarredNow == {a \in Actions : <<nextTurnId, active, a>> \in barred}

\* A closed turn had at most one rollback for each action, the open turn has
\* had one for each action that is barred.
CountOK ==
  recoveries <= nextTurnId * Cardinality(Actions) + Cardinality(BarredNow)

IInv ==
  /\ MicroturnTypeOK /\ StackIsOfTheOpenTurn
  /\ BarredActionsStayAway /\ SaidOK
  /\ PassOK /\ PassesOweNothing
  /\ CountOK

-----------------------------------------------------------------------------
(* Bindings.                                                               *)

\* A key bound or unbound leaves parameters of a move.
LEMMA WithTypes ==
  ASSUME NEW f \in Params, NEW k \in Keys, NEW x \in Values \cup SUBSET Values
  PROVE  With(f, k, x) \in Params /\ Without(f, k) \in Params
<1>1. PICK K \in SUBSET Keys : f \in [K -> Values \cup SUBSET Values]
  BY DEF Params
<1>2. With(f, k, x) \in [K \cup {k} -> Values \cup SUBSET Values]
  BY <1>1 DEF With
<1>3. Without(f, k) \in [K \ {k} -> Values \cup SUBSET Values]
  BY <1>1 DEF Without
<1>4. K \cup {k} \in SUBSET Keys /\ K \ {k} \in SUBSET Keys
  OBVIOUS
<1> QED BY <1>2, <1>3, <1>4 DEF Params

\* Parameters that agree but for a key are the same once the key is bound.
LEMMA WithAfterWithout ==
  ASSUME NEW f \in Params, NEW g \in Params, NEW k, NEW x,
         Without(f, k) = Without(g, k)
  PROVE  With(f, k, x) = With(g, k, x)
<1>1. DOMAIN Without(f, k) = DOMAIN f \ {k} /\ DOMAIN Without(g, k) = DOMAIN g \ {k}
  BY DEF Without
<1>2. DOMAIN f \cup {k} = DOMAIN g \cup {k}
  BY <1>1
<1>3. \A j \in DOMAIN f \ {k} : f[j] = g[j]
  <2> SUFFICES ASSUME NEW j \in DOMAIN f \ {k} PROVE f[j] = g[j]
    OBVIOUS
  <2>1. Without(f, k)[j] = f[j] /\ Without(g, k)[j] = g[j]
    BY <1>1 DEF Without
  <2> QED BY <2>1
<1> QED BY <1>2, <1>3 DEF With

\* Binding or unbinding a key leaves the rest as it was.
LEMMA WithoutAfterWith ==
  ASSUME NEW f, NEW k, NEW x
  PROVE  /\ Without(With(f, k, x), k) = Without(f, k)
         /\ Without(Without(f, k), k) = Without(f, k)
<1>1. DOMAIN With(f, k, x) = DOMAIN f \cup {k}
  BY DEF With
<1>2. \A j \in DOMAIN f \ {k} : With(f, k, x)[j] = f[j]
  BY DEF With
<1>3. (DOMAIN f \cup {k}) \ {k} = DOMAIN f \ {k}
  OBVIOUS
<1>4. Without(With(f, k, x), k) = Without(f, k)
  BY <1>1, <1>2, <1>3 DEF Without
<1>5. DOMAIN Without(f, k) = DOMAIN f \ {k}
  BY DEF Without
<1>6. \A j \in DOMAIN f \ {k} : Without(f, k)[j] = f[j]
  BY DEF Without
<1>7. (DOMAIN f \ {k}) \ {k} = DOMAIN f \ {k}
  OBVIOUS
<1>8. Without(Without(f, k), k) = Without(f, k)
  BY <1>5, <1>6, <1>7 DEF Without
<1> QED BY <1>4, <1>8

\* No parameters are parameters.
LEMMA NoParamsTypes == NoParams \in Params
<1>1. NoParams \in [{} -> Values \cup SUBSET Values]
  BY DEF NoParams
<1> QED BY <1>1 DEF Params

-----------------------------------------------------------------------------
(* What the decisions share.                                               *)

\* Of the barred actions, each counts once.
LEMMA BarredNowIsBounded ==
  /\ IsFiniteSet(BarredNow)
  /\ Cardinality(BarredNow) \in Nat /\ Cardinality(Actions) \in Nat
  /\ Cardinality(BarredNow) <= Cardinality(Actions)
<1>1. BarredNow \subseteq Actions
  BY DEF BarredNow
<1> QED BY <1>1, MicroturnAssumption, FS_Subset, FS_CardinalityType

\* A turn that closes adds at most one rollback for each action.
LEMMA CountAfterTurn ==
  ASSUME NEW r \in Nat, NEW n \in Nat, NEW a \in Nat, NEW b \in Nat,
         r <= n * a + b, b <= a
  PROVE  r <= (n + 1) * a
<1>1. (n + 1) * a = n * a + a
  OBVIOUS
<1>2. n * a \in Nat
  OBVIOUS
<1> QED BY <1>1, <1>2

\* A move that is applied closes the turn, whatever the game it makes.
LEMMA ApplyKeeps ==
  ASSUME IInv, NEW a \in Actions, NEW params \in Params,
         NEW indebted \in SUBSET Seats, Apply(a, params, indebted),
         said' \in Params, a \in Passes => active \notin indebted
  PROVE  IInv'
<1> USE DEF IInv
<1>1. MicroturnTypeOK'
  BY DEF Apply, MicroturnTypeOK
<1>2. StackIsOfTheOpenTurn' /\ BarredActionsStayAway' /\ SaidOK' /\ PassOK'
  BY DEF Apply, StackIsOfTheOpenTurn, BarredActionsStayAway, SaidOK, PassOK
<1>3. PassesOweNothing'
  BY DEF Apply, PassesOweNothing
<1>4. CountOK'
  <2>1. recoveries <= (nextTurnId + 1) * Cardinality(Actions)
    BY BarredNowIsBounded, CountAfterTurn DEF CountOK, MicroturnTypeOK
  <2>2. Cardinality(BarredNow') \in Nat
    <3>1. BarredNow' \subseteq Actions
      BY DEF BarredNow
    <3> QED BY <3>1, MicroturnAssumption, FS_Subset, FS_CardinalityType
  <2>3. recoveries' = recoveries /\ nextTurnId' = nextTurnId + 1
    BY DEF Apply
  <2>4. (nextTurnId + 1) * Cardinality(Actions) \in Nat
    BY BarredNowIsBounded DEF MicroturnTypeOK
  <2>5. nextTurnId' * Cardinality(Actions)
          <= nextTurnId' * Cardinality(Actions) + Cardinality(BarredNow')
    BY <2>2, <2>3, <2>4
  <2>6. recoveries' <= nextTurnId' * Cardinality(Actions) + Cardinality(BarredNow')
    BY <2>1, <2>2, <2>3, <2>4, <2>5 DEF MicroturnTypeOK
  <2> QED BY <2>6 DEF CountOK
<1> QED BY <1>1, <1>2, <1>3, <1>4

\* The choice that becomes due is of the open turn, and nothing of it is said.
LEMMA NextChoiceKeeps ==
  ASSUME IInv, NEW frame \in RootFrame, NEW id \in Nat,
         NextChoice(frame, id), said' = frame.bindings,
         frame.turn = nextTurnId, frame.seat = active, frame.id < id,
         <<frame.turn, frame.seat, frame.action>> \in barred
           => frame.action \in Passes,
         frame.action \in Passes => frame.seat \notin owing',
         owing' \subseteq Seats, move' = Null,
         UNCHANGED <<nextTurnId, barred, gameVars, mode, recoveries>>
  PROVE  IInv'
<1> USE DEF IInv
<1>1. PICK key \in Keys \ DOMAIN frame.bindings, range \in Ranges, k \in Kinds :
        \E s \in DecidersOf(k) :
          choice' = [id |-> id, parent |-> frame.id, turn |-> frame.turn,
                     kind |-> k, seat |-> s, key |-> key, selected |-> {},
                     min |-> range[1], max |-> range[2]]
  BY DEF NextChoice
<1>2. /\ choice'.key \in Keys \ DOMAIN frame.bindings
      /\ choice'.selected = {}
      /\ choice'.turn = frame.turn /\ choice'.parent = frame.id
      /\ choice'.id = id
  BY <1>1
<1>3. choice' \in ChoiceFrame
  <2>1. range[1] \in Nat /\ range[2] \in Nat
    BY MicroturnAssumption
  <2>2. frame.id \in Nat /\ frame.turn \in Nat
    BY DEF RootFrame
  <2> QED BY <1>1, <2>1, <2>2 DEF ChoiceFrame, DecidersOf, Kinds
<1>4. /\ root' = frame /\ nextFrameId' = id + 1 /\ decider' = choice'.seat
      /\ root' # Null /\ choice' # Null
  BY <1>3, FrameAssumption DEF NextChoice
<1>5. frame.bindings \in Params
  BY DEF RootFrame
<1>6. MicroturnTypeOK'
  <2>1. decider' \in Seats \cup {Chance}
    BY <1>3, <1>4 DEF ChoiceFrame
  <2>2. /\ root' \in RootFrame \cup {Null} /\ choice' \in ChoiceFrame \cup {Null}
        /\ nextFrameId' \in Nat /\ said' \in Params
    BY <1>3, <1>4, <1>5
  <2> QED BY <2>1, <2>2 DEF MicroturnTypeOK, gameVars
<1>7. StackIsOfTheOpenTurn'
  <2>1. frame.id \in Nat
    BY DEF RootFrame
  <2> QED BY <1>2, <1>4, <2>1 DEF gameVars, StackIsOfTheOpenTurn
<1>8. BarredActionsStayAway' /\ PassOK' /\ PassesOweNothing'
  BY <1>4 DEF BarredActionsStayAway, PassOK, PassesOweNothing
<1>9. SaidOK'
  <2>1. Without(said', choice'.key) = Without(root'.bindings, choice'.key)
    BY <1>4
  <2>2. choice'.key \notin DOMAIN said'
    BY <1>2
  <2>3. SaidOf(choice.key)' = {}
    BY <2>2 DEF SaidOf
  <2> QED BY <1>2, <2>1, <2>2, <2>3 DEF SaidOK
<1>10. CountOK'
  BY DEF CountOK, BarredNow, gameVars
<1> QED BY <1>6, <1>7, <1>8, <1>9, <1>10

\* When no choice is due, the open turn's action is the active seat's.
LEMMA AtTheAction ==
  ASSUME IInv, choice = Null
  PROVE  Chooser = active /\ Turn = nextTurnId
BY DEF IInv, MicroturnTypeOK, StackIsOfTheOpenTurn, Chooser, Turn

\* Whoever selects a pass owes nothing once the grants are reconciled; and an
\* action that is barred is selected only if it is a pass.
LEMMA SelectedAction ==
  ASSUME IInv, choice = Null, NEW all \in Supported, NEW offered \in Offers(all),
         NEW a \in offered
  PROVE  /\ a \in Actions /\ offered \subseteq Actions
         /\ Reconciled(a, offered) \subseteq Seats
         /\ a \in Passes => active \notin Reconciled(a, offered)
         /\ <<nextTurnId, active, a>> \in barred => a \in Passes
<1>1. all \subseteq Actions /\ (active \in owing => all \cap Passes = {})
  BY DEF Supported
<1>2. Chooser = active /\ Turn = nextTurnId
  BY AtTheAction
<1>3. owing \subseteq Seats
  BY DEF IInv, MicroturnTypeOK
<1>4. CASE offered = NotBarred(OfTheFrame(all))
  <2>1. offered \subseteq all /\ <<nextTurnId, active, a>> \notin barred
    BY <1>2, <1>4 DEF NotBarred, OfTheFrame
  <2>2. a \in Passes => active \notin owing
    BY <1>1, <2>1
  <2> QED BY <1>1, <1>3, <2>1, <2>2 DEF Reconciled
<1>5. CASE \E p \in Fallbacks(all) : offered = {p}
  <2>1. Fallbacks(all) \subseteq Passes
    BY DEF Fallbacks, IInv, MicroturnTypeOK
  <2>2. offered = {a} /\ a \in Passes
    BY <1>5, <2>1
  <2> QED BY <1>2, <1>3, <2>2, MicroturnAssumption DEF Reconciled
<1> QED BY <1>4, <1>5 DEF Offers

\* Choosing an action keeps the invariant.
LEMMA SelectActionKeeps == IInv /\ SelectAction => IInv'
<1> SUFFICES ASSUME IInv, SelectAction PROVE IInv'
  OBVIOUS
<1>1. choice = Null /\ said' = NoParams
  BY DEF SelectAction, AtAction
<1>2. PICK all \in Supported : \E offered \in Offers(all) : \E a \in offered :
        \/ Apply(a, NoParams, Reconciled(a, offered))
        \/ /\ NextChoice(FrameOf(a, offered), nextFrameId + 1)
           /\ owing' = Reconciled(a, offered)
           /\ move' = Null
           /\ UNCHANGED <<nextTurnId, barred, gameVars, mode, recoveries>>
  BY DEF SelectAction
<1>3. PICK offered \in Offers(all) : \E a \in offered :
        \/ Apply(a, NoParams, Reconciled(a, offered))
        \/ /\ NextChoice(FrameOf(a, offered), nextFrameId + 1)
           /\ owing' = Reconciled(a, offered)
           /\ move' = Null
           /\ UNCHANGED <<nextTurnId, barred, gameVars, mode, recoveries>>
  BY <1>2
<1>4. PICK a \in offered :
        \/ Apply(a, NoParams, Reconciled(a, offered))
        \/ /\ NextChoice(FrameOf(a, offered), nextFrameId + 1)
           /\ owing' = Reconciled(a, offered)
           /\ move' = Null
           /\ UNCHANGED <<nextTurnId, barred, gameVars, mode, recoveries>>
  BY <1>3
<1>7. /\ a \in Actions /\ offered \subseteq Actions
      /\ Reconciled(a, offered) \subseteq Seats
      /\ a \in Passes => active \notin Reconciled(a, offered)
      /\ <<nextTurnId, active, a>> \in barred => a \in Passes
  BY <1>1, SelectedAction
<1>5. CASE Apply(a, NoParams, Reconciled(a, offered))
  BY <1>1, <1>7, <1>5, NoParamsTypes, ApplyKeeps
<1>6. CASE /\ NextChoice(FrameOf(a, offered), nextFrameId + 1)
           /\ owing' = Reconciled(a, offered)
           /\ move' = Null
           /\ UNCHANGED <<nextTurnId, barred, gameVars, mode, recoveries>>
  <2> DEFINE frame == FrameOf(a, offered)
  <2>1. Chooser = active /\ nextFrameId \in Nat /\ nextTurnId \in Nat
    BY <1>1, AtTheAction DEF IInv, MicroturnTypeOK
  <2>2. (IF root = Null THEN offered ELSE root.eligible) \in SUBSET Actions
    BY <1>7 DEF IInv, MicroturnTypeOK, RootFrame
  <2>3. active \in Seats
    BY DEF IInv, MicroturnTypeOK
  <2>4. frame \in RootFrame
    BY <1>7, <2>1, <2>2, <2>3, NoParamsTypes DEF FrameOf, RootFrame
  <2>5. /\ frame.turn = nextTurnId /\ frame.seat = active /\ frame.action = a
        /\ frame.id = nextFrameId /\ frame.bindings = NoParams
    BY <2>1 DEF FrameOf
  <2> HIDE DEF frame
  <2>6. nextFrameId + 1 \in Nat /\ frame.id < nextFrameId + 1
    BY <2>1, <2>5
  <2>7. NextChoice(frame, nextFrameId + 1)
    BY <1>6 DEF frame
  <2> QED BY <1>1, <1>7, <1>6, <2>4, <2>5, <2>6, <2>7, NextChoiceKeeps
<1> QED BY <1>4, <1>5, <1>6

\* The choice is made: with all that was decided, the move is complete or the
\* next choice is due.
LEMMA GoOnKeeps ==
  ASSUME IInv, choice # Null, NEW params \in Params, GoOn(params), said' = params
  PROVE  IInv'
<1>1. /\ root \in RootFrame /\ root # Null
      /\ root.turn = nextTurnId /\ root.seat = active /\ root.id < nextFrameId
  BY DEF IInv, MicroturnTypeOK, StackIsOfTheOpenTurn
<1>2. /\ root.action \in Passes => active \notin owing
      /\ owing \in SUBSET Seats
      /\ <<root.turn, root.seat, root.action>> \in barred => root.action \in Passes
  BY <1>1 DEF IInv, MicroturnTypeOK, PassOK, BarredActionsStayAway
<1>3. root.action \in Actions
  BY <1>1 DEF RootFrame
<1>4. CASE Apply(root.action, params, owing)
  BY <1>2, <1>3, <1>4, ApplyKeeps
<1>5. CASE /\ NextChoice([root EXCEPT !.bindings = params], nextFrameId)
           /\ move' = Null
           /\ UNCHANGED <<nextTurnId, barred, gameVars, owing, mode, recoveries>>
  <2> DEFINE frame == [root EXCEPT !.bindings = params]
  <2>1. /\ frame \in RootFrame
        /\ frame.turn = root.turn /\ frame.seat = root.seat
        /\ frame.action = root.action /\ frame.id = root.id
        /\ frame.bindings = params
    BY <1>1 DEF RootFrame
  <2>2. NextChoice(frame, nextFrameId)
    BY <1>5
  <2> HIDE DEF frame
  <2>3. nextFrameId \in Nat /\ owing \subseteq Seats
    BY DEF IInv, MicroturnTypeOK
  <2> QED BY <1>1, <1>2, <1>5, <2>1, <2>2, <2>3, NextChoiceKeeps
<1> QED BY <1>4, <1>5 DEF GoOn

\* What was said with the choice that is made is what the frame has with it.
LEMMA SaidIsBound ==
  ASSUME IInv, choice # Null, NEW x \in Values \cup SUBSET Values
  PROVE  /\ With(said, choice.key, x) = With(root.bindings, choice.key, x)
         /\ With(root.bindings, choice.key, x) \in Params
<1>1. said \in Params /\ root.bindings \in Params /\ choice.key \in Keys
  BY DEF IInv, MicroturnTypeOK, StackIsOfTheOpenTurn, RootFrame, ChoiceFrame
<1>2. Without(said, choice.key) = Without(root.bindings, choice.key)
  BY DEF IInv, SaidOK
<1>3. With(said, choice.key, x) = With(root.bindings, choice.key, x)
  BY <1>1, <1>2, WithAfterWithout
<1> QED BY <1>1, <1>3, WithTypes

\* A single choice, of a seat or of chance, keeps the invariant.
LEMMA OneValueKeeps == IInv /\ (ChooseOne \/ Resolve) => IInv'
<1> SUFFICES ASSUME IInv, ChooseOne \/ Resolve PROVE IInv'
  OBVIOUS
<1>1. choice # Null
  BY DEF ChooseOne, Resolve, AtChoice
<1>2. PICK v \in Values : /\ said' = With(said, choice.key, v)
                         /\ GoOn(With(root.bindings, choice.key, v))
  BY DEF ChooseOne, Resolve
<1>3. v \in Values \cup SUBSET Values
  OBVIOUS
<1> QED BY <1>1, <1>2, <1>3, SaidIsBound, GoOnKeeps

\* Confirming a selection keeps the invariant.
LEMMA ConfirmKeeps == IInv /\ Confirm => IInv'
<1> SUFFICES ASSUME IInv, Confirm PROVE IInv'
  OBVIOUS
<1>1. choice # Null /\ choice.kind = "chooseNStep"
  BY DEF Confirm, AtChoice
<1>2. choice.selected \in SUBSET Values
  BY <1>1 DEF IInv, MicroturnTypeOK, ChoiceFrame
<1>3. SaidOf(choice.key) = choice.selected
  BY <1>1 DEF IInv, SaidOK
<1>4. /\ said' = With(said, choice.key, choice.selected)
      /\ GoOn(With(root.bindings, choice.key, choice.selected))
  BY <1>3 DEF Confirm
<1>5. choice.selected \in Values \cup SUBSET Values
  BY <1>2
<1> QED BY <1>1, <1>4, <1>5, SaidIsBound, GoOnKeeps

\* The choice stays due with another selection, of which as much was said.
LEMMA SelectionKeeps ==
  ASSUME IInv, choice # Null, choice.kind = "chooseNStep",
         NEW values \in SUBSET Values,
         said' = With(said, choice.key, values), root' = Selecting(values),
         choice' = [choice EXCEPT !.selected = values],
         decider' = choice.seat, move' = Null,
         UNCHANGED <<nextFrameId, nextTurnId, barred, gameVars, owing, mode,
                     recoveries>>
  PROVE  IInv'
<1> USE DEF IInv
<1>1. /\ choice \in ChoiceFrame /\ root \in RootFrame
      /\ said \in Params /\ root.bindings \in Params /\ choice.key \in Keys
  BY DEF MicroturnTypeOK, StackIsOfTheOpenTurn, RootFrame, ChoiceFrame
<1>2. /\ choice' \in ChoiceFrame /\ choice'.selected = values
      /\ choice'.id = choice.id /\ choice'.parent = choice.parent
      /\ choice'.turn = choice.turn /\ choice'.kind = choice.kind
      /\ choice'.seat = choice.seat /\ choice'.key = choice.key
  BY <1>1 DEF ChoiceFrame
<1>3. values \in Values \cup SUBSET Values
  OBVIOUS
<1> DEFINE bound == IF values = {} THEN Without(root.bindings, choice.key)
                    ELSE With(root.bindings, choice.key, values)
<1>4. bound \in Params
  BY <1>1, <1>3, WithTypes
<1>5. root' = [root EXCEPT !.bindings = bound]
  BY DEF Selecting
<1>6. Without(bound, choice.key) = Without(root.bindings, choice.key)
  BY WithoutAfterWith
<1> HIDE DEF bound
<1>7. /\ root' \in RootFrame /\ root'.bindings = bound
      /\ root'.id = root.id /\ root'.turn = root.turn /\ root'.seat = root.seat
      /\ root'.action = root.action
  BY <1>1, <1>4, <1>5 DEF RootFrame
<1>8. said' \in Params
  BY <1>1, <1>3, WithTypes
<1>9. root' # Null /\ choice' # Null
  BY <1>2, <1>7, FrameAssumption
<1>10. MicroturnTypeOK'
  <2>1. decider' \in Seats \cup {Chance}
    BY <1>1 DEF ChoiceFrame
  <2> QED BY <1>2, <1>7, <1>8, <2>1 DEF MicroturnTypeOK, gameVars
<1>11. StackIsOfTheOpenTurn'
  BY <1>2, <1>7, <1>9 DEF StackIsOfTheOpenTurn, gameVars
<1>12. BarredActionsStayAway' /\ PassOK' /\ PassesOweNothing'
  BY <1>7, <1>9 DEF BarredActionsStayAway, PassOK, PassesOweNothing
<1>13. SaidOK'
  <2>1. Without(said', choice.key) = Without(bound, choice.key)
    BY <1>6, WithoutAfterWith DEF SaidOK
  <2>2. choice.key \in DOMAIN said' /\ said'[choice.key] = values
    BY DEF With
  <2>3. SaidOf(choice.key)' = values
    BY <1>2, <2>2 DEF SaidOf
  <2> QED BY <1>2, <1>7, <2>1, <2>3 DEF SaidOK
<1>14. CountOK'
  BY DEF CountOK, BarredNow, gameVars
<1> QED BY <1>10, <1>11, <1>12, <1>13, <1>14

\* Adding a value to a selection keeps the invariant.
LEMMA AddValueKeeps == IInv /\ AddValue => IInv'
<1> SUFFICES ASSUME IInv, AddValue PROVE IInv'
  OBVIOUS
<1>1. choice # Null /\ choice.kind = "chooseNStep"
  BY DEF AddValue, AtChoice
<1>2. choice.selected \in SUBSET Values
  BY <1>1 DEF IInv, MicroturnTypeOK, ChoiceFrame
<1>3. SaidOf(choice.key) = choice.selected
  BY <1>1 DEF IInv, SaidOK
<1>4. PICK v \in Values \ choice.selected :
        /\ said' = With(said, choice.key, choice.selected \cup {v})
        /\ \/ /\ root' = Selecting(choice.selected \cup {v})
              /\ choice' = [choice EXCEPT !.selected = choice.selected \cup {v}]
              /\ decider' = choice.seat
              /\ move' = Null
              /\ UNCHANGED <<nextFrameId, nextTurnId, barred, gameVars, owing,
                             mode, recoveries>>
           \/ GoOn(With(root.bindings, choice.key, choice.selected \cup {v}))
  BY <1>3 DEF AddValue
<1>5. choice.selected \cup {v} \in SUBSET Values
  BY <1>2
<1>6. choice.selected \cup {v} \in Values \cup SUBSET Values
  BY <1>5
<1>7. CASE GoOn(With(root.bindings, choice.key, choice.selected \cup {v}))
  BY <1>1, <1>4, <1>6, <1>7, SaidIsBound, GoOnKeeps
<1>8. CASE ~GoOn(With(root.bindings, choice.key, choice.selected \cup {v}))
  BY <1>1, <1>4, <1>5, <1>8, SelectionKeeps
<1> QED BY <1>7, <1>8

\* Taking a value out of a selection keeps the invariant.
LEMMA RemoveValueKeeps == IInv /\ RemoveValue => IInv'
<1> SUFFICES ASSUME IInv, RemoveValue PROVE IInv'
  OBVIOUS
<1>1. choice # Null /\ choice.kind = "chooseNStep"
  BY DEF RemoveValue, AtChoice
<1>2. choice.selected \in SUBSET Values
  BY <1>1 DEF IInv, MicroturnTypeOK, ChoiceFrame
<1>3. SaidOf(choice.key) = choice.selected
  BY <1>1 DEF IInv, SaidOK
<1>4. PICK v \in choice.selected :
        /\ said' = With(said, choice.key, choice.selected \ {v})
        /\ root' = Selecting(choice.selected \ {v})
        /\ choice' = [choice EXCEPT !.selected = choice.selected \ {v}]
        /\ decider' = choice.seat
        /\ move' = Null
        /\ UNCHANGED <<nextFrameId, nextTurnId, barred, gameVars, owing, mode,
                       recoveries>>
  BY <1>3 DEF RemoveValue
<1>5. choice.selected \ {v} \in SUBSET Values
  BY <1>2
<1> QED BY <1>1, <1>4, <1>5, SelectionKeeps

\* A rollback bars one more action of the open turn.
LEMMA RecoverKeeps == IInv /\ Recover => IInv'
<1> SUFFICES ASSUME IInv, Recover PROVE IInv'
  OBVIOUS
<1> USE DEF IInv
<1>1. /\ root \in RootFrame /\ root # Null /\ root.action \in Actions
      /\ root.turn = nextTurnId /\ root.seat = active /\ active \in Seats
      /\ root.id \in Nat /\ nextTurnId \in Nat /\ recoveries \in Nat
  BY DEF Recover, Recoverable, MicroturnTypeOK, StackIsOfTheOpenTurn, RootFrame
<1>2. <<nextTurnId, active, root.action>> \notin barred
  BY <1>1 DEF Recover, Recoverable
<1>3. /\ choice' = Null /\ move' = Null /\ decider' = active
      /\ barred' = barred \cup {<<nextTurnId, active, root.action>>}
      /\ nextFrameId' = root.id + 1 /\ owing' = owing \ {active}
      /\ recoveries' = recoveries + 1
      /\ UNCHANGED <<root, nextTurnId, gameVars, mode, said>>
  BY <1>1 DEF Recover, Bar
<1>4. MicroturnTypeOK'
  BY <1>1, <1>3 DEF MicroturnTypeOK, gameVars
<1>5. /\ StackIsOfTheOpenTurn' /\ BarredActionsStayAway' /\ SaidOK'
      /\ PassOK' /\ PassesOweNothing'
  BY <1>1, <1>3 DEF StackIsOfTheOpenTurn, BarredActionsStayAway, SaidOK, PassOK,
                    PassesOweNothing, gameVars
<1>6. CountOK'
  <2>1. BarredNow' = BarredNow \cup {root.action}
    <3>1. nextTurnId' = nextTurnId /\ active' = active
      BY <1>3 DEF gameVars
    <3> QED BY <1>1, <1>3, <3>1 DEF BarredNow
  <2>2. root.action \notin BarredNow
    BY <1>2 DEF BarredNow
  <2>3. Cardinality(BarredNow') = Cardinality(BarredNow) + 1
    BY <2>1, <2>2, BarredNowIsBounded, FS_AddElement
  <2>4. nextTurnId * Cardinality(Actions) \in Nat
    BY <1>1, BarredNowIsBounded
  <2> HIDE DEF IInv
  <2>5. recoveries <= nextTurnId * Cardinality(Actions) + Cardinality(BarredNow)
    BY DEF IInv, CountOK
  <2>6. recoveries + 1
          <= nextTurnId * Cardinality(Actions) + (Cardinality(BarredNow) + 1)
    BY <1>1, <2>4, <2>5, BarredNowIsBounded
  <2> QED BY <1>3, <2>3, <2>6 DEF CountOK
<1> QED BY <1>4, <1>5, <1>6

\* The end of the loop keeps the invariant.
LEMMA StopKeeps == IInv /\ (StopNoMoves \/ Stop \/ UNCHANGED vars) => IInv'
<1> SUFFICES ASSUME IInv, StopNoMoves \/ Stop \/ UNCHANGED vars PROVE IInv'
  OBVIOUS
<1> USE DEF IInv
<1>1. /\ UNCHANGED <<root, choice, nextFrameId, decider, nextTurnId, barred,
                     active, plain, verdict, owing, recoveries, said>>
      /\ move' = Null \/ move' = move
      /\ mode' \in {"run", "terminal", "noLegalMoves", "maxTurns"}
  BY DEF StopNoMoves, Stop, vars, stackVars, gameVars, MicroturnTypeOK, Verdicts
<1>2. MicroturnTypeOK' /\ StackIsOfTheOpenTurn' /\ BarredActionsStayAway'
  BY <1>1 DEF MicroturnTypeOK, StackIsOfTheOpenTurn, BarredActionsStayAway
<1>3. SaidOK' /\ PassOK' /\ PassesOweNothing'
  BY <1>1 DEF SaidOK, SaidOf, PassOK, PassesOweNothing
<1>4. CountOK'
  BY <1>1 DEF CountOK, BarredNow
<1> QED BY <1>2, <1>3, <1>4

-----------------------------------------------------------------------------
(* The theorems.                                                           *)

\* A game begins in the invariant.
LEMMA InitEstablishesIInv == Init => IInv
<1> SUFFICES ASSUME Init PROVE IInv
  OBVIOUS
<1>1. MicroturnTypeOK
  BY NoParamsTypes DEF Init, MicroturnTypeOK
<1>2. StackIsOfTheOpenTurn /\ BarredActionsStayAway /\ SaidOK
  BY DEF Init, StackIsOfTheOpenTurn, BarredActionsStayAway, SaidOK
<1>3. PassOK /\ PassesOweNothing
  BY DEF Init, PassOK, PassesOweNothing
<1>4. CountOK
  <2>1. Cardinality(BarredNow) \in Nat /\ Cardinality(Actions) \in Nat
    BY BarredNowIsBounded
  <2>2. 0 * Cardinality(Actions) = 0
    BY <2>1
  <2> QED BY <2>1, <2>2 DEF Init, CountOK
<1> QED BY <1>1, <1>2, <1>3, <1>4 DEF IInv

\* Every iteration of the loop keeps the invariant.
LEMMA NextKeepsIInv == IInv /\ [Next]_vars => IInv'
<1> SUFFICES ASSUME IInv, [Next]_vars PROVE IInv'
  OBVIOUS
<1>1. CASE SelectAction  BY <1>1, SelectActionKeeps
<1>2. CASE ChooseOne     BY <1>2, OneValueKeeps
<1>3. CASE Resolve       BY <1>3, OneValueKeeps
<1>4. CASE AddValue      BY <1>4, AddValueKeeps
<1>5. CASE RemoveValue   BY <1>5, RemoveValueKeeps
<1>6. CASE Confirm       BY <1>6, ConfirmKeeps
<1>7. CASE Recover       BY <1>7, RecoverKeeps
<1>8. CASE StopNoMoves   BY <1>8, StopKeeps
<1>9. CASE Stop          BY <1>9, StopKeeps
<1>10. CASE UNCHANGED vars BY <1>10, StopKeeps
<1> QED
  BY <1>1, <1>2, <1>3, <1>4, <1>5, <1>6, <1>7, <1>8, <1>9, <1>10 DEF Next

\* The inductive invariant holds throughout every game.
LEMMA MicroturnInvariant == MicroturnSpec => []IInv
BY InitEstablishesIInv, NextKeepsIInv, PTL DEF MicroturnSpec

\* Every frame, parameter and counter keeps its type; only chance is asked
\* what is random, and chance is asked nothing else.
THEOREM MicroturnTypes == MicroturnSpec => []MicroturnTypeOK
<1>1. IInv => MicroturnTypeOK
  BY DEF IInv
<1> QED BY <1>1, MicroturnInvariant, PTL

\* Through every rollback, the stack is of the open turn and its seat.
THEOREM StacksAreOfTheirTurn == MicroturnSpec => []StackIsOfTheOpenTurn
<1>1. IInv => StackIsOfTheOpenTurn
  BY DEF IInv
<1> QED BY <1>1, MicroturnInvariant, PTL

\* What failed in a turn is not begun again in it, but for a pass.
THEOREM BarredStayAway == MicroturnSpec => []BarredActionsStayAway
<1>1. IInv => BarredActionsStayAway
  BY DEF IInv
<1> QED BY <1>1, MicroturnInvariant, PTL

\* There are never more rollbacks than turns begun times actions.
THEOREM RecoveriesEnd == MicroturnSpec => []RecoveriesAreBounded
<1>1. IInv => RecoveriesAreBounded
  BY BarredNowIsBounded, CountAfterTurn
  DEF IInv, CountOK, MicroturnTypeOK, RecoveriesAreBounded
<1> QED BY <1>1, MicroturnInvariant, PTL

\* No pass is applied for a seat that owes a grant.
THEOREM PassesAreFree == MicroturnSpec => []PassesOweNothing
<1>1. IInv => PassesOweNothing
  BY DEF IInv
<1> QED BY <1>1, MicroturnInvariant, PTL

\* A move that is applied has the parameters that were decided.
THEOREM MovesAreDecided == MicroturnSpec => MovesAreAsDecided
<1>1. IInv /\ [Next]_vars => [nextTurnId' # nextTurnId => move'.params = said']_vars
  <2> SUFFICES ASSUME IInv, Next, nextTurnId' # nextTurnId
               PROVE  move'.params = said'
    OBVIOUS
  <2>1. CASE SelectAction
    BY <2>1 DEF SelectAction, NextChoice, Apply
  <2>2. CASE ChooseOne \/ Resolve
    <3>1. PICK v \in Values : /\ said' = With(said, choice.key, v)
                             /\ GoOn(With(root.bindings, choice.key, v))
      BY <2>2 DEF ChooseOne, Resolve
    <3>2. choice # Null /\ v \in Values \cup SUBSET Values
      BY <2>2 DEF ChooseOne, Resolve, AtChoice
    <3>3. said' = With(root.bindings, choice.key, v)
      BY <3>1, <3>2, SaidIsBound
    <3> QED BY <3>1, <3>3 DEF GoOn, Apply
  <2>3. CASE AddValue \/ Confirm
    <3>1. choice # Null /\ choice.kind = "chooseNStep"
      BY <2>3 DEF AddValue, Confirm, AtChoice
    <3>2. choice.selected \subseteq Values
      BY <3>1 DEF IInv, MicroturnTypeOK, ChoiceFrame
    <3>3. SaidOf(choice.key) = choice.selected
      BY <3>1 DEF IInv, SaidOK
    <3>4. PICK values \in SUBSET Values :
            /\ said' = With(said, choice.key, values)
            /\ GoOn(With(root.bindings, choice.key, values))
      BY <2>3, <3>2, <3>3 DEF AddValue, Confirm
    <3>5. values \in Values \cup SUBSET Values
      OBVIOUS
    <3>6. said' = With(root.bindings, choice.key, values)
      BY <3>1, <3>4, <3>5, SaidIsBound
    <3> QED BY <3>4, <3>6 DEF GoOn, Apply
  <2>4. CASE RemoveValue \/ Recover \/ StopNoMoves \/ Stop
    BY <2>4 DEF RemoveValue, Recover, StopNoMoves, Stop
  <2> QED BY <2>1, <2>2, <2>3, <2>4 DEF Next
<1> QED BY <1>1, MicroturnInvariant, PTL DEF MicroturnSpec, MovesAreAsDecided

\* The loop gives up for want of moves only where no pass is to be had.
THEOREM DeadEndsRecover == MicroturnSpec => DeadEndsAreRecovered
<1> DEFINE NoPass == plain = {} \/ (root # Null /\ root.action \in Passes)
<1>1. IInv /\ [Next]_vars =>
        [mode = "run" /\ mode' = "noLegalMoves" /\ verdict = "play" => NoPass]_vars
  <2> SUFFICES ASSUME IInv, Next, mode = "run", mode' = "noLegalMoves",
                      verdict = "play"
               PROVE  NoPass
    OBVIOUS
  <2>1. StopNoMoves
    BY DEF Next, SelectAction, ChooseOne, Resolve, AddValue, RemoveValue,
           Confirm, GoOn, Apply, Recover, Stop
  <2>2. CASE choice = Null
    <3>1. PICK all \in Supported : Offers(all) = {}
      BY <2>1, <2>2 DEF StopNoMoves, Hole
    <3>2. Fallbacks(all) = {}
      BY <3>1 DEF Offers
    <3> QED BY <3>2 DEF Fallbacks
  <2>3. CASE choice # Null
    <3>1. root # Null
      BY <2>3 DEF IInv, StackIsOfTheOpenTurn
    <3>2. <<root.turn, root.seat, root.action>> \in barred
      BY <2>1, <3>1 DEF StopNoMoves, Recoverable
    <3> QED BY <2>3, <3>1, <3>2 DEF IInv, BarredActionsStayAway
  <2> QED BY <2>2, <2>3
<1> QED BY <1>1, MicroturnInvariant, PTL DEF MicroturnSpec, DeadEndsAreRecovered

=============================================================================
