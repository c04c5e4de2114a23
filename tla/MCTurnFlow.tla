----------------------------- MODULE MCTurnFlow -----------------------------
(***************************************************************************)
(* TurnFlow with three seats and two phases in a coup round.  The event of *)
(* x grants B an operation it must take, and C one that may be skipped and *)
(* does not resume the card; the event of y is a sequence of two steps     *)
(* that do, the first skippable, with a deferred effect; the event of z    *)
(* changes who is eligible and grants two optional free operations.  In    *)
(* two decks coup cards follow each other, of which the second is inert.   *)
(***************************************************************************)
EXTENDS TurnFlow

CONSTANTS A, B, C, x, y, z, c1, c2, c3, b

MCSeats == {A, B, C}
MCCards == {x, y, z, c1, c2, c3}
MCCoups == {c1, c2, c3}

MCLabels == {b}
MCDecks == 
  {<<x, c1, y, c2, z, c3>>, <<x, y, c1, c2, z, c3>>, <<y, z, x, c1, c2, c3>>,
   <<z, x, c1, y, c2, c3>>}

MCOrder == <<A, B, C>>
MCOrderOf ==
  [c \in MCCards |-> CASE c = y -> <<B, C, A>> [] c = z -> <<C, A, B>>
                       [] OTHER -> Null]

Decl(index, seat, policy, resumes, label, step, uses, probed) ==
  [index |-> index, seat |-> seat, policy |-> policy, resumes |-> resumes,
   label |-> label, step |-> step, uses |-> uses, probed |-> probed,
   strict |-> TRUE]

MCEventOf ==
  [c \in MCCards |->
    CASE c = x -> [grants |-> {Decl(0, B, "required", TRUE, Null, 0, 1, FALSE),
                               Decl(1, C, "skippable", FALSE, Null, 0, 1, FALSE)},
                   now |-> {}, defers |-> FALSE,
                   later |-> {[seat |-> Null, eligible |-> TRUE]}]
      [] c = y -> [grants |-> {Decl(0, Null, "skippable", TRUE, b, 0, 1, TRUE),
                               Decl(1, A, "required", TRUE, b, 1, 1, TRUE)},
                   now |-> {}, defers |-> TRUE,
                   later |-> {[seat |-> C, eligible |-> FALSE]}]
      [] c = z -> [grants |-> {Decl(0, Null, "optional", FALSE, Null, 0, 2, FALSE)},
                   now |-> {[seat |-> A, eligible |-> TRUE]},
                   defers |-> TRUE, later |-> {}]
      [] OTHER -> Null]

MCOptionMatrix ==
  [class \in {"event", "operation"} |->
     IF class = "event" THEN {"operation"} ELSE {"event", "operation"}]

MCMainPhases == <<"main">>
MCCoupPhases == <<"redeploy", "commit">>
MCFinalOmit == {"commit"}

=============================================================================
