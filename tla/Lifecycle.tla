----------------------------- MODULE Lifecycle -----------------------------
(***************************************************************************)
(* The life of a session as the store shows it                             *)
(* (packages/runner/src/store/lifecycle-transition.ts).  A transition that *)
(* the table does not allow makes assertLifecycleTransition throw.         *)
(***************************************************************************)

Lifecycle == {"idle", "initializing", "playing", "canvasCrashed",
              "reinitializing", "terminal"}

AllowedLifecycleTransitions ==
  [idle           |-> {"idle", "initializing"},
   initializing   |-> {"idle", "initializing", "playing", "terminal"},
   playing        |-> {"initializing", "playing", "canvasCrashed", "terminal"},
   canvasCrashed  |-> {"canvasCrashed", "reinitializing"},
   reinitializing |-> {"reinitializing", "playing", "terminal"},
   terminal       |-> {"initializing", "playing", "canvasCrashed", "terminal"}]

LifecycleFromTerminal(terminal) == IF terminal THEN "terminal" ELSE "playing"

=============================================================================
