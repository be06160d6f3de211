------------------------ MODULE ObjectLoadingProofs ------------------------
(***************************************************************************)
(* Safety of ObjectLoading for every set of objects and every bound.       *)
(*                                                                         *)
(* Two inductive invariants are built on the type invariant.  LoadInv      *)
(* holds in every state: it ties the isLoading flag to the background      *)
(* queue and the open menu to the loaded objects.  CalmInv describes the   *)
(* states no restart timer has disturbed: there, an unfinished load owns   *)
(* the controls, so the menu and the loader cannot drift apart.            *)
(***************************************************************************)
EXTENDS ObjectLoading, TLAPS

LoadInv ==
  /\ OneLoadAtATime
  /\ NeverLoadedTwice
  /\ menu = "open" => ~isLoading
  /\ menu = "open" => \A o \in Objects : Loaded(o) => o \in selectedRows

CalmInv ==
  /\ LoadOwnsTheScreen
  /\ MenuMirrorsLoaded
  /\ CalmNeverCrashes
  /\ ~timerCutIn =>
       /\ menu = "open" => objectsViewController
       /\ menu = "open" => \A o \in Objects : ~Pending(o)

-----------------------------------------------------------------------------
(* The type invariant in two parts: the counts, which need arithmetic, and *)
(* the flags and the menu, which do not.                                   *)
CountsOK ==
  /\ loadedObjects \in [Objects -> Nat]
  /\ backgroundLoads \in [Objects -> Nat]
  /\ placements \in [Objects -> Nat]
  /\ restartTimers \in Nat

FlagsOK ==
  /\ isLoading \in BOOLEAN
  /\ isRestartAvailable \in BOOLEAN
  /\ addButtonHidden \in BOOLEAN
  /\ addButtonEnabled \in BOOLEAN
  /\ menu \in {"closed", "open", "closing"}
  /\ objectsViewController \in BOOLEAN
  /\ selectedRows \in SUBSET Objects
  /\ enabledRows \in SUBSET Objects
  /\ crashed \in BOOLEAN
  /\ timerCutIn \in BOOLEAN

LEMMA TypeParts == /\ CountsOK /\ FlagsOK <=> TypeOK
                   /\ (CountsOK /\ FlagsOK)' <=> TypeOK'
  BY DEF CountsOK, FlagsOK, TypeOK

\* Every variable keeps its type: in particular no count of loaded objects,
\* background loads or placements ever goes below zero.
THEOREM TypeCorrect == Spec => []TypeOK
<1>1. Init => TypeOK
  <2> SUFFICES ASSUME Init PROVE TypeOK
    OBVIOUS
  <2> QED
    BY DEF Init, TypeOK
<1>2. TypeOK /\ [Next]_loadingVars => TypeOK'
  <2> SUFFICES ASSUME CountsOK, FlagsOK, [Next]_loadingVars PROVE CountsOK' /\ FlagsOK'
    BY TypeParts
  <2> USE DEF CountsOK, FlagsOK, loaderVars, buttonVars, menuVars
  <2>1. ASSUME NEW coaching \in BOOLEAN, NEW refresh \in BOOLEAN, NEW hits \in HitSets,
             FrameHit(coaching, refresh, hits)
        PROVE  CountsOK' /\ FlagsOK'
    BY <2>1, LoadingAssumption DEF FrameHit
  <2>2. CASE FrameMiss
    BY <2>2 DEF FrameMiss
  <2>3. CASE ShowMenu
    BY <2>3 DEF ShowMenu, RowsOfLoaded
  <2>4. CASE DismissOutside
    BY <2>4 DEF DismissOutside
  <2>5. ASSUME NEW o \in Objects, SelectObject(o) PROVE CountsOK' /\ FlagsOK'
    <3>1. CountsOK'
      BY <2>5 DEF SelectObject
    <3>2. FlagsOK'
      BY <2>5 DEF SelectObject, DisplayLoadingUI
    <3>3. QED
      BY <3>1, <3>2
  <2>6. ASSUME NEW o \in Objects, DeselectRow(o) PROVE CountsOK' /\ FlagsOK'
    <3>1. CountsOK'
      BY <2>6 DEF DeselectRow, Deselect, Loaded
    <3>2. FlagsOK'
      BY <2>6 DEF DeselectRow, Deselect
    <3>3. QED
      BY <3>1, <3>2
  <2>7. CASE FinishDismissal
    BY <2>7 DEF FinishDismissal
  <2>8. ASSUME NEW o \in Objects, BackgroundLoad(o) PROVE CountsOK' /\ FlagsOK'
    <3>1. CountsOK'
      BY <2>8 DEF BackgroundLoad
    <3>2. FlagsOK'
      BY <2>8 DEF BackgroundLoad
    <3>3. QED
      BY <3>1, <3>2
  <2>9. ASSUME NEW o \in Objects, NEW canPlace \in BOOLEAN, Place(o, canPlace)
        PROVE  CountsOK' /\ FlagsOK'
    <3>1. CountsOK'
      BY <2>9 DEF Place, RejectPlacement, Deselect, Loaded
    <3>2. FlagsOK'
      BY <2>9 DEF Place, HideLoadingUI, RejectPlacement, Deselect
    <3>3. QED
      BY <3>1, <3>2
  <2>10. CASE RestartExperience
    <3>1. CountsOK'
      BY <2>10 DEF RestartExperience
    <3>2. FlagsOK'
      BY <2>10 DEF RestartExperience
    <3>3. QED
      BY <3>1, <3>2
  <2>11. CASE RestartTimerFires
    BY <2>11 DEF RestartTimerFires, SomePending, Pending
  <2>12. CASE UNCHANGED loadingVars
    BY <2>12 DEF loadingVars
  <2>13. QED
    BY <2>1, <2>2, <2>3, <2>4, <2>5, <2>6, <2>7, <2>8, <2>9, <2>10, <2>11, <2>12
       DEF Next
<1>3. QED
  BY <1>1, <1>2, PTL DEF Spec

-----------------------------------------------------------------------------
\* Every step preserves LoadInv: loads start only from an open menu, which opens
\* only while nothing loads, and removals only make the loader poorer.
LEMMA LoadInvStep ==
  ASSUME TypeOK, LoadInv, [Next]_loadingVars
  PROVE  LoadInv'
<1> USE DEF TypeOK, LoadInv, OneLoadAtATime, NeverLoadedTwice, Loaded,
            loaderVars, buttonVars, menuVars
<1>1. ASSUME NEW coaching \in BOOLEAN, NEW refresh \in BOOLEAN, NEW hits \in HitSets,
             FrameHit(coaching, refresh, hits)
      PROVE  LoadInv'
  BY <1>1 DEF FrameHit
<1>2. CASE FrameMiss
  BY <1>2 DEF FrameMiss
<1>3. CASE ShowMenu
  BY <1>3 DEF ShowMenu, MayShowMenu, RowsOfLoaded
<1>4. CASE DismissOutside
  BY <1>4 DEF DismissOutside
<1>5. ASSUME NEW o \in Objects, SelectObject(o) PROVE LoadInv'
  <2>1. loadedObjects[o] = 0 /\ ~isLoading /\ \A p \in Objects : backgroundLoads[p] = 0
    BY <1>5 DEF SelectObject
  <2>2. /\ backgroundLoads'[o] = 1
        /\ \A p \in Objects : p # o => backgroundLoads'[p] = 0
    BY <1>5, <2>1 DEF SelectObject
  <2>3. OneLoadAtATime'
    BY <1>5, <2>2 DEF SelectObject
  <2>4. QED
    BY <1>5, <2>1, <2>3 DEF SelectObject
<1>6. ASSUME NEW o \in Objects, DeselectRow(o) PROVE LoadInv'
  BY <1>6 DEF DeselectRow, Deselect
<1>7. CASE FinishDismissal
  BY <1>7 DEF FinishDismissal
<1>8. ASSUME NEW o \in Objects, BackgroundLoad(o) PROVE LoadInv'
  <2>1. \A p \in Objects : backgroundLoads'[p] = 0
    BY <1>8 DEF BackgroundLoad
  <2>2. QED
    BY <1>8, <2>1 DEF BackgroundLoad
<1>9. ASSUME NEW o \in Objects, NEW canPlace \in BOOLEAN, Place(o, canPlace)
      PROVE  LoadInv'
  BY <1>9 DEF Place, HideLoadingUI, RejectPlacement, Deselect
<1>10. CASE RestartExperience
  BY <1>10 DEF RestartExperience
<1>11. CASE RestartTimerFires
  BY <1>11 DEF RestartTimerFires
<1>12. CASE UNCHANGED loadingVars
  BY <1>12 DEF loadingVars
<1>13. QED
  BY <1>1, <1>2, <1>3, <1>4, <1>5, <1>6, <1>7, <1>8, <1>9, <1>10, <1>11, <1>12
     DEF Next

\* Loads are started and finished as LoadInv says in every order of touches, timers,
\* loads and placements.
LEMMA LoadInvariance == Spec => []LoadInv
<1>1. Init => LoadInv
  BY DEF Init, LoadInv, OneLoadAtATime, NeverLoadedTwice
<1>2. TypeOK /\ LoadInv /\ [Next]_loadingVars => LoadInv'
  BY LoadInvStep
<1>3. QED
  BY <1>1, <1>2, TypeCorrect, PTL DEF Spec

\* At most one background load is outstanding and isLoading tells exactly whether
\* there is one.
THEOREM LoadsAreExclusive == Spec => []OneLoadAtATime
<1>1. LoadInv => OneLoadAtATime
  BY DEF LoadInv
<1>2. QED
  BY <1>1, LoadInvariance, PTL

\* No object is ever in loadedObjects twice, although nothing there checks for it: the
\* rows of the menu do.
THEOREM ObjectsAreLoadedOnce == Spec => []NeverLoadedTwice
<1>1. LoadInv => NeverLoadedTwice
  BY DEF LoadInv
<1>2. QED
  BY <1>1, LoadInvariance, PTL

-----------------------------------------------------------------------------
\* Every step preserves CalmInv: until a restart timer fires during a load, the
\* only steps open to an unfinished load are its own.
LEMMA CalmInvStep ==
  ASSUME TypeOK, LoadInv, CalmInv, [Next]_loadingVars
  PROVE  CalmInv'
<1> USE DEF TypeOK, LoadInv, NeverLoadedTwice, CalmInv, LoadOwnsTheScreen,
            MenuMirrorsLoaded, CalmNeverCrashes, Loaded, Pending,
            loaderVars, buttonVars, menuVars
<1> SUFFICES ASSUME ~timerCutIn' PROVE CalmInv'
  OBVIOUS
<1>1. ASSUME NEW coaching \in BOOLEAN, NEW refresh \in BOOLEAN, NEW hits \in HitSets,
             FrameHit(coaching, refresh, hits)
      PROVE  CalmInv'
  BY <1>1 DEF FrameHit
<1>2. CASE FrameMiss
  BY <1>2 DEF FrameMiss
<1>3. CASE ShowMenu
  <2>1. \A o \in Objects : ~Pending(o)
    BY <1>3 DEF ShowMenu, MayShowMenu
  <2>2. QED
    BY <1>3, <2>1 DEF ShowMenu, RowsOfLoaded
<1>4. CASE DismissOutside
  BY <1>4 DEF DismissOutside
<1>5. ASSUME NEW o \in Objects, SelectObject(o) PROVE CalmInv'
  <2>1. /\ ~timerCutIn /\ objectsViewController
        /\ \A p \in Objects : backgroundLoads[p] = 0 /\ placements[p] = 0
    BY <1>5 DEF SelectObject
  <2>2. /\ loadedObjects'[o] > 0
        /\ \A p \in Objects : Pending(p)' => p = o
        /\ \A p \in Objects : backgroundLoads'[p] + placements'[p] <= 1
    BY <1>5, <2>1 DEF SelectObject
  <2>3. QED
    BY <1>5, <2>1, <2>2 DEF SelectObject, DisplayLoadingUI
<1>6. ASSUME NEW o \in Objects, DeselectRow(o) PROVE CalmInv'
  <2>1. /\ ~timerCutIn /\ Loaded(o)
        /\ \A p \in Objects : ~Pending(p)
    BY <1>6 DEF DeselectRow
  <2>2. QED
    BY <1>6, <2>1 DEF DeselectRow, Deselect
<1>7. CASE FinishDismissal
  BY <1>7 DEF FinishDismissal
<1>8. ASSUME NEW o \in Objects, BackgroundLoad(o) PROVE CalmInv'
  <2>1. ~timerCutIn /\ Pending(o)
    BY <1>8 DEF BackgroundLoad
  <2>2. backgroundLoads[o] = 1 /\ placements[o] = 0
    <3>1. backgroundLoads[o] > 0
      BY <1>8 DEF BackgroundLoad
    <3>2. backgroundLoads[o] + placements[o] <= 1
      BY <2>1
    <3>3. QED
      BY <3>1, <3>2
  <2>3. /\ backgroundLoads'[o] = 0 /\ placements'[o] = 1
        /\ \A p \in Objects : p # o => backgroundLoads'[p] = 0 /\ placements'[p] = 0
    <3>1. \A p \in Objects : p # o => backgroundLoads[p] = 0 /\ placements[p] = 0
      BY <2>1
    <3>2. QED
      BY <1>8, <2>2, <3>1 DEF BackgroundLoad
  <2>4. /\ Loaded(o)' /\ objectsViewController' /\ ~addButtonEnabled' /\ ~isRestartAvailable'
        /\ crashed' = FALSE /\ menu' # "open"
    BY <1>8, <2>1 DEF BackgroundLoad
  <2>5. QED
    BY <2>3, <2>4
<1>9. ASSUME NEW o \in Objects, NEW canPlace \in BOOLEAN, Place(o, canPlace)
      PROVE  CalmInv'
  <2>1. ~timerCutIn /\ Pending(o)
    BY <1>9 DEF Place
  <2>2. backgroundLoads[o] = 0 /\ placements[o] = 1
    BY <1>9, <2>1 DEF Place
  <2>3. \A p \in Objects : backgroundLoads'[p] = 0 /\ placements'[p] = 0
    BY <1>9, <2>1, <2>2 DEF Place
  <2>4. crashed' = FALSE /\ menu' = menu /\ menu # "open"
    BY <1>9, <2>1 DEF Place, RejectPlacement, Deselect
  <2>5. QED
    BY <2>3, <2>4
<1>10. CASE RestartExperience
  <2>1. ~timerCutIn /\ \A p \in Objects : ~Pending(p)
    BY <1>10 DEF RestartExperience, MayRestart
  <2>2. QED
    BY <1>10, <2>1 DEF RestartExperience
<1>11. CASE RestartTimerFires
  BY <1>11 DEF RestartTimerFires, SomePending
<1>12. CASE UNCHANGED loadingVars
  BY <1>12 DEF loadingVars
<1>13. QED
  BY <1>1, <1>2, <1>3, <1>4, <1>5, <1>6, <1>7, <1>8, <1>9, <1>10, <1>11, <1>12
     DEF Next

\* The two inductive invariants together.
LEMMA Invariance == Spec => [](TypeOK /\ LoadInv /\ CalmInv)
<1>1. Init => LoadInv /\ CalmInv
  BY DEF Init, LoadInv, OneLoadAtATime, NeverLoadedTwice, CalmInv,
         LoadOwnsTheScreen, MenuMirrorsLoaded, CalmNeverCrashes, Loaded, Pending
<1>2. TypeOK /\ LoadInv /\ CalmInv /\ [Next]_loadingVars => LoadInv' /\ CalmInv'
  BY LoadInvStep, CalmInvStep
<1>3. QED
  BY <1>1, <1>2, TypeCorrect, PTL DEF Spec

\* Unless a restart timer fires during a load, an unfinished load owns its slot
\* in the loader and the controls, so that rejecting its placement undoes it.
THEOREM LoadsAreUndone == Spec => []LoadOwnsTheScreen
<1>1. CalmInv => LoadOwnsTheScreen
  BY DEF CalmInv
<1>2. QED
  BY <1>1, Invariance, PTL

\* Unless a restart timer fires during a load, the rows the open menu marks are
\* the loaded objects.
THEOREM MenuIsAccurate == Spec => []MenuMirrorsLoaded
<1>1. CalmInv => MenuMirrorsLoaded
  BY DEF CalmInv
<1>2. QED
  BY <1>1, Invariance, PTL

\* Unless a restart timer fires during a load, didDeselectObject always finds the
\* object it is asked to remove.
THEOREM LookupSucceeds == Spec => []CalmNeverCrashes
<1>1. CalmInv => CalmNeverCrashes
  BY DEF CalmInv
<1>2. QED
  BY <1>1, Invariance, PTL

-----------------------------------------------------------------------------
(* What is owed to the buttons. *)

LEMMA OwedStep ==
  ASSUME TypeOK, TypeOK', ControlsAreOwed, [Next]_loadingVars
  PROVE  ControlsAreOwed'
<1>1. CountsOK /\ CountsOK'
  BY TypeParts
<1>2. CASE UNCHANGED <<backgroundLoads, placements, buttonVars, restartTimers>>
  BY <1>2 DEF ControlsAreOwed, SomePending, Pending, buttonVars
<1>3. ASSUME NEW o \in Objects, SelectObject(o) PROVE ControlsAreOwed'
  <2>1. backgroundLoads'[o] = backgroundLoads[o] + 1
    BY <1>1, <1>3 DEF SelectObject, CountsOK
  <2>2. SomePending'
    BY <1>1, <2>1 DEF CountsOK, SomePending, Pending
  <2> QED
    BY <2>2 DEF ControlsAreOwed
<1>4. ASSUME NEW o \in Objects, BackgroundLoad(o) PROVE ControlsAreOwed'
  <2>1. placements'[o] = placements[o] + 1
    BY <1>1, <1>4 DEF BackgroundLoad, CountsOK
  <2>2. SomePending'
    BY <1>1, <2>1 DEF CountsOK, SomePending, Pending
  <2> QED
    BY <2>2 DEF ControlsAreOwed
<1>5. ASSUME NEW o \in Objects, NEW canPlace \in BOOLEAN, Place(o, canPlace)
      PROVE  ControlsAreOwed'
  BY <1>5 DEF Place, HideLoadingUI, ControlsAreOwed
<1>6. CASE RestartExperience
  <2>1. restartTimers' > 0
    BY <1>1, <1>6 DEF RestartExperience, CountsOK
  <2>2. ~addButtonEnabled' => SomePending'
    BY <1>6 DEF RestartExperience, ControlsAreOwed, SomePending, Pending
  <2> QED
    BY <2>1, <2>2 DEF ControlsAreOwed
<1>7. CASE RestartTimerFires
  BY <1>7 DEF RestartTimerFires, ControlsAreOwed, SomePending, Pending, loaderVars
<1>8. CASE \/ \E coaching, refresh \in BOOLEAN, hits \in HitSets :
                FrameHit(coaching, refresh, hits)
           \/ FrameMiss \/ ShowMenu \/ DismissOutside \/ FinishDismissal
           \/ \E o \in Objects : DeselectRow(o)
           \/ UNCHANGED loadingVars
  BY <1>2, <1>8 DEF FrameHit, FrameMiss, ShowMenu, DismissOutside, FinishDismissal,
                    DeselectRow, loadingVars, loaderVars, buttonVars
<1> QED
  BY <1>3, <1>4, <1>5, <1>6, <1>7, <1>8 DEF Next

\* No disabled button is forgotten: as long as one is off, a load or a timer is under way
\* that will switch it on, disturbed or not, for any objects and any number of timers.
\* What is left of ControlsComeBack is that blocks which were dispatched do run.
THEOREM ButtonsAreOwed == Spec => []ControlsAreOwed
<1>1. Init => ControlsAreOwed
  BY DEF Init, ControlsAreOwed
<1>2. TypeOK /\ TypeOK' /\ ControlsAreOwed /\ [Next]_loadingVars => ControlsAreOwed'
  BY OwedStep
<1> QED
  BY <1>1, <1>2, TypeCorrect, PTL DEF Spec

=============================================================================
