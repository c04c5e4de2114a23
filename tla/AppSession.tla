----------------------------- MODULE AppSession -----------------------------
(***************************************************************************)
(* The application's session store: which screen is shown, the moves       *)
(* recorded since the game began, whether they are flagged as unsaved, and *)
(* the dialog that stores them in the browser's database.                  *)
(*                                                                         *)
(* A game is its move history; identifiers, seeds and players are left     *)
(* out.  The game itself is the session of GameSession.tla: here it only   *)
(* reports the moves it applied.  A resumed history is turned down by the  *)
(* worker (see ResumeReplaysItsMoves there), so such a session stays idle. *)
(***************************************************************************)
EXTENDS Sequences, FiniteSets, Naturals

CONSTANTS
  Moves,         \* the moves of the game
  MaxMoves,      \* bound: the moves recorded in one session
  MaxSaves       \* bound: the records stored

VARIABLES
  screen,              \* sessionState.screen
  initialMoveHistory,  \* of the active game
  moveAccumulator,     \* the moves recorded, those of the resumed history first
  unsavedChanges,
  saveDialogOpen,
  isSaving,            \* of the open dialog
  puts,                \* the records handed to the database, oldest first,
                       \* each with whether its dialog is the one on screen
  saves                \* the records the database has stored

vars == <<screen, initialMoveHistory, moveAccumulator, unsavedChanges,
          saveDialogOpen, isSaving, puts, saves>>

\* Every change of session drops the record of the last one.  Leaving the
\* active game closes its dialogs and a new game has new ones, but a save
\* that is under way goes on.
Enter(next, history) ==
  /\ screen' = next
  /\ initialMoveHistory' = history
  /\ moveAccumulator' = history
  /\ unsavedChanges' = FALSE
  /\ saveDialogOpen' = (saveDialogOpen /\ next = "activeGame")
  /\ isSaving' = FALSE
  /\ puts' = [i \in DOMAIN puts |-> [puts[i] EXCEPT !.onScreen = FALSE]]
  /\ UNCHANGED saves

\* selectGame and openMapEditor leave the flag and the accumulator alone.
SelectGame ==
  /\ screen = "gameSelection"
  /\ \E next \in {"preGameConfig", "mapEditor"} : screen' = next
  /\ UNCHANGED <<initialMoveHistory, moveAccumulator, unsavedChanges,
                 saveDialogOpen, isSaving, puts, saves>>

StartGame == screen = "preGameConfig" /\ Enter("activeGame", <<>>)

\* A record is resumed or, when its game is over, replayed.
LoadRecord ==
  /\ screen \in {"gameSelection", "activeGame"}
  /\ \E r \in saves : IF r.isTerminal THEN Enter("replay", <<>>)
                                      ELSE Enter("activeGame", r.moves)

NewGame == screen = "activeGame" /\ Enter("preGameConfig", <<>>)

\* Quit asks first when the flag is set; the menu button does not ask.
ReturnToMenu == Enter("gameSelection", <<>>)

InPlay == screen = "activeGame" /\ initialMoveHistory = <<>>

\* onMoveApplied of the game store, for a player's move or an agent's: the
\* agents go on playing while a dialog is open.
RecordMove ==
  /\ InPlay
  /\ Len(moveAccumulator) < MaxMoves
  /\ \E move \in Moves : moveAccumulator' = Append(moveAccumulator, move)
  /\ unsavedChanges' = TRUE
  /\ UNCHANGED <<screen, initialMoveHistory, saveDialogOpen, isSaving, puts, saves>>

OpenSaveDialog ==
  /\ screen = "activeGame"
  /\ ~saveDialogOpen
  /\ saveDialogOpen' = TRUE
  /\ isSaving' = FALSE
  /\ UNCHANGED <<screen, initialMoveHistory, moveAccumulator, unsavedChanges, puts, saves>>

\* The accumulator of this moment is what will be stored.
Save ==
  /\ InPlay
  /\ saveDialogOpen
  /\ ~isSaving
  /\ Cardinality(saves) + Len(puts) < MaxSaves
  /\ isSaving' = TRUE
  /\ \E over \in BOOLEAN :
       puts' = Append(puts, [onScreen |-> TRUE,
                             record |-> [moves |-> moveAccumulator, isTerminal |-> over]])
  /\ UNCHANGED <<screen, initialMoveHistory, moveAccumulator, unsavedChanges,
                 saveDialogOpen, saves>>

\* onSaved is the session store's markSaved, whatever was recorded meanwhile;
\* onClose shuts the dialog.
PutSucceeds ==
  /\ puts # <<>>
  /\ saves' = saves \cup {Head(puts).record}
  /\ puts' = Tail(puts)
  /\ unsavedChanges' = FALSE
  /\ saveDialogOpen' = FALSE
  /\ isSaving' = (isSaving /\ ~Head(puts).onScreen)
  /\ UNCHANGED <<screen, initialMoveHistory, moveAccumulator>>

\* The dialog stays open with an error.
PutFails ==
  /\ puts # <<>>
  /\ puts' = Tail(puts)
  /\ isSaving' = (isSaving /\ ~Head(puts).onScreen)
  /\ UNCHANGED <<screen, initialMoveHistory, moveAccumulator, unsavedChanges,
                 saveDialogOpen, saves>>

CancelSaveDialog ==
  /\ saveDialogOpen
  /\ ~isSaving
  /\ saveDialogOpen' = FALSE
  /\ UNCHANGED <<screen, initialMoveHistory, moveAccumulator, unsavedChanges,
                 isSaving, puts, saves>>

Init ==
  /\ screen = "gameSelection"
  /\ initialMoveHistory = <<>>
  /\ moveAccumulator = <<>>
  /\ unsavedChanges = FALSE
  /\ saveDialogOpen = FALSE
  /\ isSaving = FALSE
  /\ puts = <<>>
  /\ saves = {}

Next ==
  \/ SelectGame \/ StartGame \/ LoadRecord \/ NewGame \/ ReturnToMenu
  \/ RecordMove
  \/ OpenSaveDialog \/ Save \/ PutSucceeds \/ PutFails \/ CancelSaveDialog

Spec == Init /\ [][Next]_vars

\* "unsavedChanges tracks whether active game has unsaved moves"
\* (archive/specs/43-session-management.md:175).  While the flag is off, the
\* moves recorded are those the session began with or a stored record.  Does
\* not hold: moves recorded while a save is under way are flagged as saved
\* with it, and a save of an abandoned game clears the flag of the next one;
\* quitting then discards them without asking.
UnsavedProgressIsFlagged ==
  screen = "activeGame" /\ ~unsavedChanges =>
    \/ moveAccumulator = initialMoveHistory
    \/ \E r \in saves : r.moves = moveAccumulator
=============================================================================
