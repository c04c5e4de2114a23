------------------------------- MODULE Grants -------------------------------
(***************************************************************************)
(* Free-operation grants (packages/engine/src/kernel/grant-lifecycle.ts    *)
(* and free-operation-sequence-progression.ts).  An event gives a seat     *)
(* grants; a grant lets it take an operation for free.  Grants of one      *)
(* sequence batch are steps: the later ones wait for the earlier ones.     *)
(* The code keeps pending grants in a list with unique ids; nothing here   *)
(* depends on the order of the list, so it is a set of records.            *)
(***************************************************************************)
EXTENDS Integers, FiniteSets

CONSTANTS Seats, Null, Labels

ASSUME GrantsAssumption == Null \notin Seats /\ Null \notin Labels

Policies == {"optional", "required", "skippable"}

\* A batch is named by the turn, the seat and the label the event gave it.
BatchId == Nat \X Seats \X Labels

\* "resumes" is postResolutionTurnFlow = "resumeCardFlow": the use of the grant
\* is one of the card's actions.
Grant == [id : Nat \X Nat, seat : Seats, policy : Policies, resumes : BOOLEAN,
          batch : BatchId \cup {Null}, step : Nat, uses : Nat,
          phase : {"sequenceWaiting", "ready"}]

\* What an event declares; seat Null is the seat that plays it.  A strict
\* declaration blocks the later steps of its batch when it is not usable.
Declaration == [index : Nat, seat : Seats \cup {Null}, policy : Policies,
                resumes : BOOLEAN, label : Labels \cup {Null}, step : Nat,
                uses : Nat \ {0}, probed : BOOLEAN, strict : BOOLEAN]

\* The contract's rule on the two fields: a required grant resumes the card, an
\* optional one does not, and a skippable one does as it says.
WithinContract(d) ==
  /\ d.policy = "required" => d.resumes
  /\ d.policy = "optional" => ~d.resumes

\* The grants that must be used or expire before their seat does anything else
Blocking(grants, seat) ==
  {g \in grants : g.seat = seat /\ g.phase = "ready" /\ g.policy # "optional"}

Skippable(grants, seat) ==
  {g \in Blocking(grants, seat) : g.policy = "skippable"}

BatchPending(grants, batch) == \E g \in grants : g.batch = batch

\* The earlier steps of g's batch that are still pending
EarlierSteps(grants, g) ==
  {h \in grants : h.batch = g.batch /\ h.step < g.step}

WaitsForNothing(grants, g) ==
  g.phase = "sequenceWaiting" /\ EarlierSteps(grants, g) = {}

\* Mutant of AdvanceSequences: every waiting step becomes ready.
ReadyEveryStep(grants) ==
  {[g EXCEPT !.phase = "ready"] : g \in grants}

\* A batch advances as soon as one of its steps waits for nothing, and then
\* all its waiting steps become ready, not only that one.
AdvanceSequences(grants) ==
  {IF g.phase = "sequenceWaiting"
        /\ \E h \in grants : WaitsForNothing(grants, h) /\ h.batch = g.batch
     THEN [g EXCEPT !.phase = "ready"] ELSE g : g \in grants}

\* Mutant of ConsumeUse: an exhausted grant stays in the list.
ConsumeKeepingExhausted(grants, g) ==
  (grants \ {g}) \cup {[g EXCEPT !.uses = @ - 1]}

\* A used-up grant leaves the list, another one is ready again.
ConsumeUse(grants, g) ==
  (grants \ {g}) \cup (IF g.uses = 1 THEN {} ELSE {[g EXCEPT !.uses = @ - 1]})

\* The declarations issued when those in "unusable" fail their probe.  In the
\* strict policy a failed step takes the later steps of its batch with it.
Issued(declared, unusable) ==
  {d \in declared : d \notin unusable /\
     ~\E e \in unusable : /\ d.strict /\ e.strict /\ d.label # Null
                          /\ e.label = d.label /\ e.step < d.step}

\* The pending grants made of declarations that seat plays in turn "turn";
\* serial distinguishes the grants of two events of one turn.
ToGrants(declarations, seat, turn, serial) ==
  {[id      |-> <<serial, d.index>>,
    seat    |-> IF d.seat = Null THEN seat ELSE d.seat,
    policy  |-> d.policy,
    resumes |-> d.resumes,
    batch   |-> IF d.label = Null THEN Null ELSE <<turn, seat, d.label>>,
    step    |-> d.step,
    uses    |-> d.uses,
    phase   |-> IF d.step = 0 THEN "ready" ELSE "sequenceWaiting"]
     : d \in declarations}

\* makeUniquePendingFreeOperationGrantId: a serial that no pending grant has
FreshSerial(grants) ==
  CHOOSE n \in 0..Cardinality(grants) : \A g \in grants : g.id[1] # n

Batches(grants) == {g.batch : g \in grants} \ {Null}

\* Mutant of Releasable: the first step of a batch is enough.
FirstStepsDone(effect, grants) ==
  \A b \in effect.batches : ~\E g \in grants : g.batch = b /\ g.step = 0

\* splitReadyDeferredEventEffects: no grant of the effect's batches is left
Releasable(effect, grants) ==
  \A b \in effect.batches : ~BatchPending(grants, b)
=============================================================================
