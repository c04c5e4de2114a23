------------------------------ MODULE CardRow -------------------------------
(***************************************************************************)
(* What the card lifecycle of the turn flow promises: the cards of the     *)
(* deck come up one by one, in its order.  One is current, the one after   *)
(* it can be seen, and a card that is over stays over, whatever seats,     *)
(* grants, coup rounds and phases do meanwhile.                            *)
(***************************************************************************)
EXTENDS Sequences

CONSTANTS Decks, Null

VARIABLES
  current,  \* the card that is played, or Null
  next,     \* the card that is revealed, or Null
  stock,    \* the cards nobody has seen yet, in order
  over      \* the cards that have been played

rowVars == <<current, next, stock, over>>

RowInit ==
  \E deck \in Decks :
    /\ current = deck[1]
    /\ next = deck[2]
    /\ stock = Tail(Tail(deck))
    /\ over = {}

\* The current card is over, the revealed one is played, one more is revealed.
NextCard ==
  /\ current # Null
  /\ over' = over \cup {current}
  /\ current' = next
  /\ \/ stock # <<>> /\ next' = Head(stock) /\ stock' = Tail(stock)
     \/ stock = <<>> /\ next' = Null /\ UNCHANGED stock

RowSpec == RowInit /\ [][NextCard]_rowVars
=============================================================================
