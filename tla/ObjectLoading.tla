---------------------------- MODULE ObjectLoading ----------------------------
(***************************************************************************)
(* Loading, choosing, removing and restarting in the AR application: the   *)
(* VirtualObjectLoader, the selection menu, the add button, the restart    *)
(* flag and its five-second timer.                                         *)
(*                                                                         *)
(* Three actors interleave.  The main queue runs touches, frame updates,   *)
(* the restart timer and the placement of a loaded object.  The global     *)
(* background queue runs the body of loadVirtualObject.  SceneKit prepares *)
(* a scene in its own time and then hands the placement to the main queue. *)
(* Whether a placement succeeds (focus square, raycast query) is left open *)
(* here and decided by the scene, in module ObjectScene.  No action is     *)
(* possible once fatalError has ended the program.                         *)
(***************************************************************************)
EXTENDS Integers

\* A definition whose name begins with "Mutant" is a wrong version of the one that
\* follows it: no action uses it, and each property is shown to fail with one.

CONSTANTS
  Objects,       \* VirtualObject.availableObjects: shared, one per model file
  HitSets,       \* the sets of objects whose own raycasts can succeed together: objects
                 \* of one allowedAlignment share their result
  MaxTimers,     \* bound: restart timers that may be pending at once
  MaxPlacements  \* bound: placements of one object that may be pending at once

ASSUME LoadingAssumption ==
  /\ HitSets \subseteq SUBSET Objects
  /\ MaxTimers \in Nat
  /\ MaxPlacements \in Nat

VARIABLES
  loadedObjects,         \* the loader's array, as the number of occurrences of each object
  isLoading,             \* the loader's flag, cleared on the background queue
  backgroundLoads,       \* bodies of loadVirtualObject waiting on the background queue
  placements,            \* prepared scenes whose main-queue block has not run yet
  isRestartAvailable,
  restartTimers,         \* asyncAfter(5.0) blocks of restartExperience still to fire
  addButtonHidden,
  addButtonEnabled,
  menu,                  \* the popover: closed, open, or closing (animated dismissal)
  objectsViewController, \* TRUE while the view controller keeps a reference to a menu
  selectedRows,          \* selectedVirtualObjectRows, a snapshot taken when the menu opens
  enabledRows,           \* enabledVirtualObjectRows
  crashed,               \* fatalError was called
  timerCutIn             \* auxiliary: a restart timer has fired while a load was unfinished

loadingVars == <<loadedObjects, isLoading, backgroundLoads, placements,
                 isRestartAvailable, restartTimers, addButtonHidden,
                 addButtonEnabled, menu, objectsViewController, selectedRows,
                 enabledRows, crashed, timerCutIn>>

loaderVars == <<loadedObjects, isLoading, backgroundLoads, placements>>
buttonVars == <<isRestartAvailable, addButtonEnabled>>
menuVars   == <<menu, objectsViewController, selectedRows, enabledRows>>

Loaded(o)   == loadedObjects[o] > 0
Pending(o)  == backgroundLoads[o] > 0 \/ placements[o] > 0
SomePending == \E o \in Objects : Pending(o)

-----------------------------------------------------------------------------
(* Frame updates: the main-queue block of renderer(updateAtTime:). *)

\* The centre raycast hit a surface: the add button is shown unless the coaching
\* overlay is up, and a menu on screen refreshes its rows unless it did so less
\* than half a second ago.  hits are the objects whose own raycast found a place.
FrameHit(coaching, refresh, hits) ==
  /\ ~crashed
  /\ refresh => menu # "closed"
  /\ addButtonHidden' = (addButtonHidden /\ coaching)
  /\ enabledRows' = IF refresh THEN selectedRows \union hits ELSE enabledRows
  /\ UNCHANGED <<loaderVars, buttonVars, restartTimers, menu,
                 objectsViewController, selectedRows, crashed, timerCutIn>>

\* No surface, or tracking is not normal: the button is hidden and the menu is
\* dismissed at once; the reference to it stays.
FrameMiss ==
  /\ ~crashed
  /\ addButtonHidden' = TRUE
  /\ menu' = "closed"
  /\ UNCHANGED <<loaderVars, buttonVars, restartTimers, objectsViewController,
                 selectedRows, enabledRows, crashed, timerCutIn>>

-----------------------------------------------------------------------------
(* The selection menu. *)

\* The guard of showVirtualObjectSelectionViewController, called by the add button
\* while it is enabled or by the tap gesture, which begins only over an empty scene.
MutantShowIgnoresLoading ==
  /\ addButtonEnabled \/ \A o \in Objects : ~Loaded(o)
  /\ ~addButtonHidden
MayShowMenu ==
  /\ addButtonEnabled \/ \A o \in Objects : ~Loaded(o)
  /\ ~addButtonHidden
  /\ ~isLoading

\* The rows that prepare(for:sender:) marks as selected in a new menu.
MutantRowsNotMarked == {}
RowsOfLoaded == {o \in Objects : Loaded(o)}

\* showVirtualObjectSelectionViewController and the segue it performs.
ShowMenu ==
  /\ ~crashed
  /\ menu = "closed"
  /\ MayShowMenu
  /\ menu' = "open"
  /\ objectsViewController' = TRUE
  /\ selectedRows' = RowsOfLoaded
  /\ enabledRows' = {}
  /\ UNCHANGED <<loaderVars, buttonVars, restartTimers, addButtonHidden,
                 crashed, timerCutIn>>

\* A touch outside the popover dismisses it and drops the reference.
DismissOutside ==
  /\ ~crashed
  /\ menu = "open"
  /\ menu' = "closed"
  /\ objectsViewController' = FALSE
  /\ UNCHANGED <<loaderVars, buttonVars, restartTimers, addButtonHidden,
                 selectedRows, enabledRows, crashed, timerCutIn>>

\* displayObjectLoadingUI.
MutantRestartStaysOn ==
  /\ addButtonEnabled' = FALSE
  /\ isRestartAvailable' = isRestartAvailable
MutantAddStaysOn ==
  /\ addButtonEnabled' = addButtonEnabled
  /\ isRestartAvailable' = FALSE
DisplayLoadingUI ==
  /\ addButtonEnabled' = FALSE
  /\ isRestartAvailable' = FALSE

\* didSelectRowAt on a row not marked selected: loadVirtualObject and
\* displayObjectLoadingUI, then the animated dismissal starts.
SelectObject(o) ==
  /\ ~crashed
  /\ menu = "open"
  /\ o \in enabledRows \ selectedRows
  /\ backgroundLoads[o] + placements[o] < MaxPlacements
  /\ isLoading' = TRUE
  /\ loadedObjects' = [loadedObjects EXCEPT ![o] = @ + 1]
  /\ backgroundLoads' = [backgroundLoads EXCEPT ![o] = @ + 1]
  /\ DisplayLoadingUI
  /\ menu' = "closing"
  /\ UNCHANGED <<placements, restartTimers, addButtonHidden,
                 objectsViewController, selectedRows, enabledRows, crashed,
                 timerCutIn>>

\* didDeselectObject: one occurrence of the object leaves the loader; looking up
\* an object the loader does not hold is a fatal error.
MutantDeselectUnchecked(o) ==
  /\ loadedObjects' = [loadedObjects EXCEPT ![o] = @ - 1]
  /\ crashed' = crashed
Deselect(o) ==
  IF Loaded(o)
  THEN /\ loadedObjects' = [loadedObjects EXCEPT ![o] = @ - 1]
       /\ crashed' = crashed
  ELSE /\ crashed' = TRUE
       /\ loadedObjects' = loadedObjects

\* didSelectRowAt on a row marked selected.
DeselectRow(o) ==
  /\ ~crashed
  /\ menu = "open"
  /\ o \in enabledRows \intersect selectedRows
  /\ Deselect(o)
  /\ menu' = "closing"
  /\ UNCHANGED <<isLoading, backgroundLoads, placements, buttonVars,
                 restartTimers, addButtonHidden, objectsViewController,
                 selectedRows, enabledRows, timerCutIn>>

\* The animated dismissal ends; a programmatic dismissal tells nobody, so the
\* reference to the menu stays.
FinishDismissal ==
  /\ ~crashed
  /\ menu = "closing"
  /\ menu' = "closed"
  /\ UNCHANGED <<loaderVars, buttonVars, restartTimers, addButtonHidden,
                 objectsViewController, selectedRows, enabledRows, crashed,
                 timerCutIn>>

-----------------------------------------------------------------------------
(* Loading and placing. *)

\* The background body of loadVirtualObject: the node is loaded, isLoading is
\* cleared on the background queue, and SceneKit is asked to prepare the scene.
MutantNeverPrepared(o) ==
  /\ ~crashed
  /\ backgroundLoads[o] > 0
  /\ backgroundLoads' = [backgroundLoads EXCEPT ![o] = @ - 1]
  /\ isLoading' = FALSE
  /\ UNCHANGED <<loadedObjects, placements, buttonVars, restartTimers,
                 addButtonHidden, menuVars, crashed, timerCutIn>>
BackgroundLoad(o) ==
  /\ ~crashed
  /\ backgroundLoads[o] > 0
  /\ backgroundLoads' = [backgroundLoads EXCEPT ![o] = @ - 1]
  /\ isLoading' = FALSE
  /\ placements' = [placements EXCEPT ![o] = @ + 1]
  /\ UNCHANGED <<loadedObjects, buttonVars, restartTimers, addButtonHidden,
                 menuVars, crashed, timerCutIn>>

\* hideObjectLoadingUI.
MutantRestartForgotten ==
  /\ addButtonEnabled' = TRUE
  /\ isRestartAvailable' = isRestartAvailable
HideLoadingUI ==
  /\ addButtonEnabled' = TRUE
  /\ isRestartAvailable' = TRUE

\* placeVirtualObject when the object cannot be placed: it is taken back out of
\* the loader, provided the view controller still refers to a menu.
RejectPlacement(o) ==
  IF objectsViewController
  THEN Deselect(o)
  ELSE UNCHANGED <<loadedObjects, crashed>>

\* The main-queue block behind sceneView.prepare.
Place(o, canPlace) ==
  /\ ~crashed
  /\ placements[o] > 0
  /\ placements' = [placements EXCEPT ![o] = @ - 1]
  /\ HideLoadingUI
  /\ IF canPlace THEN UNCHANGED <<loadedObjects, crashed>> ELSE RejectPlacement(o)
  /\ UNCHANGED <<isLoading, backgroundLoads, restartTimers, addButtonHidden,
                 menuVars, timerCutIn>>

-----------------------------------------------------------------------------
(* Restarting. *)

\* The guard of restartExperience.
MutantRestartAlways == ~isLoading
MayRestart == isRestartAvailable /\ ~isLoading

\* restartExperience, from the restart button or the coaching overlay: touches
\* reach neither while the popover is up.
RestartExperience ==
  /\ ~crashed
  /\ menu = "closed"
  /\ MayRestart
  /\ restartTimers < MaxTimers
  /\ isRestartAvailable' = FALSE
  /\ loadedObjects' = [o \in Objects |-> 0]
  /\ restartTimers' = restartTimers + 1
  /\ UNCHANGED <<isLoading, backgroundLoads, placements, addButtonHidden,
                 addButtonEnabled, menuVars, crashed, timerCutIn>>

\* The asyncAfter block, five seconds later.
RestartTimerFires ==
  /\ ~crashed
  /\ restartTimers > 0
  /\ restartTimers' = restartTimers - 1
  /\ isRestartAvailable' = TRUE
  /\ timerCutIn' = (timerCutIn \/ SomePending)
  /\ UNCHANGED <<loaderVars, addButtonHidden, addButtonEnabled, menuVars, crashed>>

-----------------------------------------------------------------------------
Init ==
  /\ loadedObjects = [o \in Objects |-> 0]
  /\ isLoading = FALSE
  /\ backgroundLoads = [o \in Objects |-> 0]
  /\ placements = [o \in Objects |-> 0]
  /\ isRestartAvailable = TRUE
  /\ restartTimers = 0
  /\ addButtonHidden = FALSE
  /\ addButtonEnabled = TRUE
  /\ menu = "closed"
  /\ objectsViewController = FALSE
  /\ selectedRows = {}
  /\ enabledRows = {}
  /\ crashed = FALSE
  /\ timerCutIn = FALSE

Next ==
  \/ \E coaching, refresh \in BOOLEAN, hits \in HitSets :
       FrameHit(coaching, refresh, hits)
  \/ FrameMiss
  \/ ShowMenu
  \/ DismissOutside
  \/ \E o \in Objects : SelectObject(o)
  \/ \E o \in Objects : DeselectRow(o)
  \/ FinishDismissal
  \/ \E o \in Objects : BackgroundLoad(o)
  \/ \E o \in Objects, canPlace \in BOOLEAN : Place(o, canPlace)
  \/ RestartExperience
  \/ RestartTimerFires

Spec == Init /\ [][Next]_loadingVars

\* The queues drain and timers fire; nothing is assumed of the user or of ARKit.
Fairness ==
  /\ \A o \in Objects : WF_loadingVars(BackgroundLoad(o))
  /\ \A o \in Objects : WF_loadingVars(\E canPlace \in BOOLEAN : Place(o, canPlace))
  /\ WF_loadingVars(RestartTimerFires)

FairSpec == Spec /\ Fairness

-----------------------------------------------------------------------------
(* Properties. *)

\* The loader, the buttons and the menu hold what they can hold: an object is never
\* removed from loadedObjects more often than it was appended, as the lookup of
\* didDeselectObject guarantees.
TypeOK ==
  /\ loadedObjects \in [Objects -> Nat]
  /\ isLoading \in BOOLEAN
  /\ backgroundLoads \in [Objects -> Nat]
  /\ placements \in [Objects -> Nat]
  /\ isRestartAvailable \in BOOLEAN
  /\ restartTimers \in Nat
  /\ addButtonHidden \in BOOLEAN
  /\ addButtonEnabled \in BOOLEAN
  /\ menu \in {"closed", "open", "closing"}
  /\ objectsViewController \in BOOLEAN
  /\ selectedRows \in SUBSET Objects
  /\ enabledRows \in SUBSET Objects
  /\ crashed \in BOOLEAN
  /\ timerCutIn \in BOOLEAN

\* "We are not loading another object (to avoid concurrent modifications of the
\* scene)": no two background loads are ever outstanding, and the isLoading flag
\* the menu and the restart consult tells exactly whether there is one, although
\* one thread sets it and another clears it.
OneLoadAtATime ==
  /\ isLoading <=> \E o \in Objects : backgroundLoads[o] > 0
  /\ \A o \in Objects : backgroundLoads[o] <= 1
  /\ \A o, p \in Objects : backgroundLoads[o] > 0 /\ backgroundLoads[p] > 0 => o = p

\* loadedObjects never holds the same object twice, although didSelectRowAt only
\* consults the rows recorded when the menu opened: removing an object by its
\* first index therefore removes it altogether.
NeverLoadedTwice ==
  \A o \in Objects : loadedObjects[o] <= 1

\* Unless a restart timer fired during a load, a load that has not been placed
\* still owns its slot in loadedObjects, the menu reference that a rejected
\* placement needs is there, and neither the restart nor the add button can get
\* in between: a rejected placement always undoes the load.
LoadOwnsTheScreen ==
  ~timerCutIn =>
    /\ \A o \in Objects : Pending(o) =>
         Loaded(o) /\ objectsViewController /\ ~addButtonEnabled /\ ~isRestartAvailable
    /\ \A o, p \in Objects : Pending(o) /\ Pending(p) => o = p
    /\ \A o \in Objects : backgroundLoads[o] + placements[o] <= 1

\* Unless a restart timer fired during a load, the rows the open menu shows as
\* placed are exactly the loaded objects, so a tap never loads what is there nor
\* removes what is not.
MenuMirrorsLoaded ==
  ~timerCutIn /\ menu = "open" => selectedRows = {o \in Objects : Loaded(o)}

\* Unless a restart timer fired during a load, the "Programmer error" trap of
\* didDeselectObject is unreachable.
CalmNeverCrashes == ~timerCutIn => ~crashed

\* The message of the fatalError in didDeselectObject, taken at its word: the
\* object to remove is always found in the loader.
LookupNeverFails == ~crashed

\* "Disable restart for a while in order to give the session time to restart":
\* while the five seconds of a restart are running, restart is not available.
RestartStaysDisabled == restartTimers > 0 => ~isRestartAvailable

\* Whatever is disabled is owed a block that enables it: a load under way for the add
\* button, a load or a timer for the restart button.  The flags are shared by loads and
\* restarts that know nothing of each other, and still none leaves a button off for good.
ControlsAreOwed ==
  /\ ~addButtonEnabled => SomePending
  /\ ~isRestartAvailable => SomePending \/ restartTimers > 0

\* A disabled add button or restart button is always enabled again: the flags
\* that a load and a restart both switch off are switched on by whoever is left.
ControlsComeBack ==
  /\ ~addButtonEnabled ~> (addButtonEnabled \/ crashed)
  /\ ~isRestartAvailable ~> (isRestartAvailable \/ crashed)

=============================================================================
