-------------------------- MODULE SceneStatusProofs --------------------------
(***************************************************************************)
(* SceneStatus for every set of objects and of tracking states: what the   *)
(* user is told and can reach fits the state of the session, and the       *)
(* loader underneath is the one of ObjectLoading.                          *)
(***************************************************************************)
EXTENDS SceneStatus, TLAPS

\* What the properties need of the types: no message is mistaken for advice.
StatesKnown ==
  /\ tracking \in Troubles \union {"normal"}
  /\ escalation \in Troubles \union {"none"}
  /\ message \in Troubles \union {"none", "passing"}
  /\ hideTimer \in BOOLEAN
  /\ coachingActive \in BOOLEAN

StatusInv ==
  /\ StatesKnown
  /\ AdviceFitsTracking
  /\ HideTimerFitsMessage
  /\ ControlsReachable
  /\ HintOnlyWithoutSurface

\* What most actions leave alone.
quiet == <<timerVars, panelVars, coachingActive, upperControlsHidden, tracking,
           addButtonHidden>>

-----------------------------------------------------------------------------
LEMMA QuietStep == StatusInv /\ UNCHANGED quiet => StatusInv'
BY DEF StatusInv, StatesKnown, AdviceFitsTracking, HideTimerFitsMessage,
       ControlsReachable, HintOnlyWithoutSurface, quiet, timerVars, panelVars,
       coverVars

\* The three ways in which messages change.
LEMMA PassingStep ==
  ASSUME StatusInv, ShowPassing, escalation' \in {escalation, "none"},
         UNCHANGED <<tracking, coverVars, addButtonHidden>>,
         scheduled' \intersect {"focusSquare"} \subseteq scheduled
  PROVE  StatusInv'
BY StatusAssumption
   DEF StatusInv, StatesKnown, AdviceFitsTracking, HideTimerFitsMessage,
       ControlsReachable, HintOnlyWithoutSurface, coverVars, ShowPassing

LEMMA StatusStep ==
  ASSUME StatusInv, [Next]_vars
  PROVE  StatusInv'
<1>1. CASE HideTimerFires
  <2> USE <1>1 DEF HideTimerFires, StatusInv, timerVars, coverVars, contentVars,
                   loadingVars
  <2>1. StatesKnown' /\ AdviceFitsTracking' /\ HideTimerFitsMessage'
    BY StatusAssumption DEF StatesKnown, AdviceFitsTracking, HideTimerFitsMessage
  <2>2. ControlsReachable' /\ HintOnlyWithoutSurface'
    BY DEF ControlsReachable, HintOnlyWithoutSurface
  <2> QED  BY <2>1, <2>2
<1>2. ASSUME NEW hint \in Hints, HintTimerFires(hint) PROVE StatusInv'
  BY <1>2, PassingStep DEF HintTimerFires, contentVars, loadingVars
<1>3. CASE EscalationTimerFires
  <2> USE <1>3 DEF EscalationTimerFires, StatusInv, coverVars, contentVars,
                   loadingVars
  <2>1. StatesKnown' /\ AdviceFitsTracking' /\ HideTimerFitsMessage'
    BY StatusAssumption
       DEF StatesKnown, AdviceFitsTracking, HideTimerFitsMessage, ShowAdvice
  <2>2. ControlsReachable' /\ HintOnlyWithoutSurface'
    BY DEF ControlsReachable, HintOnlyWithoutSurface
  <2> QED  BY <2>1, <2>2
<1>4. ASSUME NEW state \in Troubles \union {"normal"}, TrackingChanges(state)
      PROVE  StatusInv'
  <2> USE <1>4 DEF TrackingChanges, StatusInv, coverVars, loadingVars
  <2>1. StatesKnown' /\ AdviceFitsTracking' /\ HideTimerFitsMessage'
    BY StatusAssumption
       DEF StatesKnown, AdviceFitsTracking, HideTimerFitsMessage, ShowPassing,
           EscalationAfter
  <2>2. ControlsReachable' /\ HintOnlyWithoutSurface'
    BY DEF ControlsReachable, HintOnlyWithoutSurface
  <2> QED  BY <2>1, <2>2
<1>5. CASE Interruption
  BY <1>5, QuietStep DEF Interruption, coverVars, quiet, loadingVars
<1>6. CASE PlaneDetected
  BY <1>6, PassingStep DEF PlaneDetected, contentVars, loadingVars
<1>7. CASE SessionFails \/ RestartSession \/ ResignActive \/ BecomeActive
  BY <1>7 DEF SessionFails, RestartSession, ResignActive, BecomeActive, StatusInv,
              StatesKnown, AdviceFitsTracking, HideTimerFitsMessage,
              ControlsReachable, HintOnlyWithoutSurface, timerVars, panelVars,
              contentVars, loadingVars
<1>8. CASE CoachingActivates \/ CoachingDeactivates
  <2> USE <1>8 DEF CoachingActivates, CoachingDeactivates, StatusInv, timerVars,
                   panelVars, contentVars, loadingVars
  <2>1. StatesKnown' /\ AdviceFitsTracking'
    BY DEF StatesKnown, AdviceFitsTracking
  <2>2. HideTimerFitsMessage' /\ ControlsReachable' /\ HintOnlyWithoutSurface'
    BY DEF HideTimerFitsMessage, ControlsReachable, HintOnlyWithoutSurface,
           ShowControls
  <2> QED  BY <2>1, <2>2
<1>9. ASSUME NEW inView \in BOOLEAN, NEW refresh \in BOOLEAN, NEW hits \in HitSets,
             FrameHit(inView, refresh, hits)
      PROVE  StatusInv'
  BY <1>9 DEF FrameHit, HintsAfterHit, StatusInv, StatesKnown, AdviceFitsTracking,
              HideTimerFitsMessage, ControlsReachable, HintOnlyWithoutSurface,
              panelVars, coverVars, contentVars
<1>10. ASSUME NEW inView \in BOOLEAN, FrameMiss(inView) PROVE StatusInv'
  BY <1>10 DEF FrameMiss, L!FrameMiss, StatusInv, StatesKnown, AdviceFitsTracking,
               HideTimerFitsMessage, ControlsReachable, HintOnlyWithoutSurface,
               panelVars, coverVars, contentVars
<1>11. CASE ShowMenu
  BY <1>11 DEF ShowMenu, L!ShowMenu, StatusInv, StatesKnown, AdviceFitsTracking,
               HideTimerFitsMessage, ControlsReachable, HintOnlyWithoutSurface,
               panelVars, coverVars, contentVars
<1>12. CASE DismissOutside \/ FinishDismissal
  BY <1>12, QuietStep
     DEF DismissOutside, FinishDismissal, L!DismissOutside, L!FinishDismissal,
         statusVars, coverVars, contentVars, quiet
<1>13. ASSUME NEW o \in Objects, SelectObject(o) \/ DeselectRow(o) \/ BackgroundLoad(o)
       PROVE  StatusInv'
  BY <1>13, QuietStep
     DEF SelectObject, DeselectRow, BackgroundLoad, L!SelectObject, L!DeselectRow,
         L!BackgroundLoad, statusVars, coverVars, contentVars, quiet
<1>14. ASSUME NEW o \in Objects, PlaceInScene(o) PROVE StatusInv'
  BY <1>14, QuietStep DEF PlaceInScene, L!Place, coverVars, quiet
<1>15. ASSUME NEW o \in Objects, PlaceRejected(o) PROVE StatusInv'
  BY <1>15, PassingStep DEF PlaceRejected, L!Place, timerVars, contentVars
<1>16. CASE RestartExperience
  BY <1>16 DEF RestartExperience, L!RestartExperience, StatusInv, StatesKnown,
               AdviceFitsTracking, HideTimerFitsMessage, ControlsReachable,
               HintOnlyWithoutSurface, panelVars, coverVars, contentVars
<1>17. CASE RestartTimerFires
  BY <1>17 DEF RestartTimerFires, L!RestartTimerFires, StatusInv, StatesKnown,
               AdviceFitsTracking, HideTimerFitsMessage, ControlsReachable,
               HintOnlyWithoutSurface, timerVars, panelVars, contentVars
<1>18. CASE UNCHANGED vars
  BY <1>18, QuietStep DEF vars, statusVars, loadingVars, coverVars, contentVars, quiet
<1> QED
  BY <1>1, <1>2, <1>3, <1>4, <1>5, <1>6, <1>7, <1>8, <1>9, <1>10, <1>11, <1>12,
     <1>13, <1>14, <1>15, <1>16, <1>17, <1>18 DEF Next

LEMMA StatusInvariance == Spec => []StatusInv
<1>1. Init => StatusInv
  BY StatusAssumption
     DEF Init, L!Init, StatusInv, StatesKnown, AdviceFitsTracking,
         HideTimerFitsMessage, ControlsReachable, HintOnlyWithoutSurface
<1> QED
  BY <1>1, StatusStep, PTL DEF Spec

\* Advice on a trouble never outlives it, for any objects, tracking states and bounds.
THEOREM StatusFits == Spec => []AdviceFitsTracking
<1>1. StatusInv => AdviceFitsTracking
  BY DEF StatusInv
<1> QED
  BY <1>1, StatusInvariance, PTL

\* The hide timer runs exactly under a passing message.
THEOREM MessagesGoAway == Spec => []HideTimerFitsMessage
<1>1. StatusInv => HideTimerFitsMessage
  BY DEF StatusInv
<1> QED
  BY <1>1, StatusInvariance, PTL

\* Only the coaching overlay hides the upper controls.
THEOREM ControlsStayReachable == Spec => []ControlsReachable
<1>1. StatusInv => ControlsReachable
  BY DEF StatusInv
<1> QED
  BY <1>1, StatusInvariance, PTL

\* No hint to look for a surface is pending while the add button says there is one.
THEOREM HintsFitTheSurface == Spec => []HintOnlyWithoutSurface
<1>1. StatusInv => HintOnlyWithoutSurface
  BY DEF StatusInv
<1> QED
  BY <1>1, StatusInvariance, PTL

-----------------------------------------------------------------------------
(* Refinement. *)

\* Every action is one of ObjectLoading's, or leaves the loader alone.
LEMMA LoadingStep ==
  ASSUME coachingActive \in BOOLEAN, [Next]_vars
  PROVE  [L!Next]_(L!loadingVars)
<1> USE DEF L!Next, L!loadingVars, loadingVars
<1>1. CASE \/ HideTimerFires \/ EscalationTimerFires
           \/ \E hint \in Hints : HintTimerFires(hint)
  BY <1>1 DEF HideTimerFires, HintTimerFires, EscalationTimerFires
<1>2. CASE \/ \E state \in Troubles \union {"normal"} : TrackingChanges(state)
           \/ Interruption \/ PlaneDetected \/ SessionFails
           \/ RestartSession \/ ResignActive \/ BecomeActive
           \/ CoachingActivates \/ CoachingDeactivates
  BY <1>2 DEF TrackingChanges, Interruption, PlaneDetected, SessionFails,
              RestartSession, ResignActive, BecomeActive, CoachingActivates,
              CoachingDeactivates
<1>3. CASE \/ \E inView, refresh \in BOOLEAN, hits \in HitSets :
                FrameHit(inView, refresh, hits)
           \/ \E inView \in BOOLEAN : FrameMiss(inView)
  BY <1>3 DEF FrameHit, FrameMiss
<1>4. CASE ShowMenu \/ DismissOutside \/ FinishDismissal
  BY <1>4 DEF ShowMenu, DismissOutside, FinishDismissal
<1>5. CASE \E o \in Objects : SelectObject(o) \/ DeselectRow(o) \/ BackgroundLoad(o)
  BY <1>5 DEF SelectObject, DeselectRow, BackgroundLoad
<1>6. CASE \E o \in Objects : PlaceInScene(o) \/ PlaceRejected(o)
  BY <1>6 DEF PlaceInScene, PlaceRejected
<1>7. CASE RestartExperience \/ RestartTimerFires
  BY <1>7 DEF RestartExperience, RestartTimerFires
<1>8. CASE UNCHANGED vars
  BY <1>8 DEF vars
<1> QED
  BY <1>1, <1>2, <1>3, <1>4, <1>5, <1>6, <1>7, <1>8 DEF Next

\* With messages, overlay and hiding forgotten, the application is ObjectLoading, of
\* which each action conjoins an action or leaves the variables alone.
LEMMA StatusImplementsLoading == Spec => L!Spec
<1>1. Init => L!Init
  BY DEF Init
<1>2. StatusInv /\ [Next]_vars => [L!Next]_(L!loadingVars)
  BY LoadingStep DEF StatusInv, StatesKnown
<1> QED
  BY <1>1, <1>2, StatusInvariance, PTL DEF Spec, L!Spec

\* The proofs about ObjectLoading come under a name of their own; its actions are
\* the ones this module knows as L's.
P == INSTANCE ObjectLoadingProofs

LEMMA SameNext == [L!Next]_(L!loadingVars) <=> [P!Next]_(P!loadingVars)
BY DEF L!Next, P!Next, L!FrameHit, P!FrameHit, L!FrameMiss, P!FrameMiss,
       L!MayShowMenu, P!MayShowMenu, L!RowsOfLoaded, P!RowsOfLoaded,
       L!ShowMenu, P!ShowMenu, L!DismissOutside, P!DismissOutside,
       L!DisplayLoadingUI, P!DisplayLoadingUI, L!SelectObject,
       P!SelectObject, L!Deselect, P!Deselect, L!DeselectRow,
       P!DeselectRow, L!FinishDismissal, P!FinishDismissal,
       L!BackgroundLoad, P!BackgroundLoad, L!HideLoadingUI,
       P!HideLoadingUI, L!RejectPlacement, P!RejectPlacement, L!Place,
       P!Place, L!MayRestart, P!MayRestart, L!RestartExperience,
       P!RestartExperience, L!RestartTimerFires, P!RestartTimerFires,
       L!Loaded, P!Loaded, L!Pending, P!Pending, L!SomePending,
       P!SomePending, L!loaderVars, P!loaderVars, L!buttonVars,
       P!buttonVars, L!menuVars, P!menuVars, L!loadingVars, P!loadingVars

LEMMA LoaderInvariants == Spec => [](P!TypeOK /\ P!LoadInv /\ P!CalmInv)
<1>1. L!Init <=> P!Init
  BY DEF L!Init, P!Init
<1>2. P!LoadingAssumption
  BY StatusAssumption DEF P!LoadingAssumption
<1>3. P!Spec => [](P!TypeOK /\ P!LoadInv /\ P!CalmInv)
  BY <1>2, P!Invariance
<1>4. L!Spec => P!Spec
  BY <1>1, SameNext, PTL DEF L!Spec, P!Spec
<1> QED
  BY <1>3, <1>4, StatusImplementsLoading, PTL

-----------------------------------------------------------------------------
(* Visibility of content. *)

\* The loader's invariants as this module needs them: a rejected placement takes the
\* only occurrence of its object away.
LoaderFacts ==
  /\ loadedObjects \in [Objects -> Nat]
  /\ backgroundLoads \in [Objects -> Nat]
  /\ placements \in [Objects -> Nat]
  /\ timerCutIn \in BOOLEAN
  /\ \A o \in Objects : loadedObjects[o] <= 1
  /\ ~timerCutIn => \A o \in Objects : L!Pending(o) => L!Loaded(o) /\ objectsViewController

LEMMA LoaderFactsHold == Spec => []LoaderFacts
<1>1. P!TypeOK /\ P!LoadInv /\ P!CalmInv => LoaderFacts
  BY DEF P!TypeOK, P!LoadInv, P!CalmInv, P!NeverLoadedTwice, P!LoadOwnsTheScreen,
         P!Pending, P!Loaded, L!Pending, L!Loaded, LoaderFacts
<1> QED
  BY <1>1, LoaderInvariants, PTL

\* Every step keeps placed objects visible; each case looks at what becomes of the
\* object that the step is about and at the others.
LEMMA VisibilityStep ==
  ASSUME LoaderFacts, hidden \in SUBSET Objects, PlacedIsVisible, [Next]_vars
  PROVE  PlacedIsVisible'
<1> USE DEF LoaderFacts, PlacedIsVisible, L!Loaded, L!Pending
<1>1. CASE UNCHANGED <<loadedObjects, backgroundLoads, placements, timerCutIn, hidden,
                       tracking, interrupted>>
  BY <1>1
<1>2. ASSUME NEW state \in Troubles \union {"normal"}, TrackingChanges(state)
      PROVE  PlacedIsVisible'
  BY <1>2 DEF TrackingChanges, loadingVars
<1>3. CASE Interruption
  BY <1>3 DEF Interruption
<1>4. ASSUME NEW o \in Objects, SelectObject(o) PROVE PlacedIsVisible'
  <2>1. \A p \in Objects : p # o => L!Loaded(p)' = L!Loaded(p) /\ L!Pending(p)' = L!Pending(p)
    BY <1>4 DEF SelectObject, L!SelectObject
  <2>2. L!Pending(o)'
    BY <1>4 DEF SelectObject, L!SelectObject
  <2> QED
    BY <1>4, <2>1, <2>2 DEF SelectObject, L!SelectObject, statusVars, contentVars
<1>5. ASSUME NEW o \in Objects, DeselectRow(o) PROVE PlacedIsVisible'
  <2>1. \A p \in Objects : L!Loaded(p)' => L!Loaded(p)
    BY <1>5 DEF DeselectRow, L!DeselectRow, L!Deselect
  <2> QED
    BY <1>5, <2>1 DEF DeselectRow, L!DeselectRow, statusVars, contentVars
<1>6. ASSUME NEW o \in Objects, BackgroundLoad(o) PROVE PlacedIsVisible'
  <2>1. \A p \in Objects : L!Pending(p) => L!Pending(p)'
    BY <1>6 DEF BackgroundLoad, L!BackgroundLoad
  <2> QED
    BY <1>6, <2>1 DEF BackgroundLoad, L!BackgroundLoad, statusVars, contentVars
<1>7. ASSUME NEW o \in Objects, PlaceInScene(o) PROVE PlacedIsVisible'
  <2>1. \A p \in Objects : p # o => L!Pending(p)' = L!Pending(p)
    BY <1>7 DEF PlaceInScene, L!Place
  <2> QED
    BY <1>7, <2>1 DEF PlaceInScene, L!Place, ShownWhenPlaced
<1>8. ASSUME NEW o \in Objects, PlaceRejected(o) PROVE PlacedIsVisible'
  <2>1. UNCHANGED <<timerCutIn, hidden, tracking, interrupted>>
    BY <1>8 DEF PlaceRejected, L!Place, contentVars
  <2>2. \A p \in Objects : p # o => L!Loaded(p)' = L!Loaded(p) /\ L!Pending(p)' = L!Pending(p)
    BY <1>8 DEF PlaceRejected, L!Place, L!RejectPlacement, L!Deselect
  <2>3. ~timerCutIn => ~L!Loaded(o)'
    BY <1>8 DEF PlaceRejected, L!Place, L!RejectPlacement, L!Deselect
  <2> QED
    BY <2>1, <2>2, <2>3
<1>9. CASE RestartExperience
  BY <1>9 DEF RestartExperience, L!RestartExperience, contentVars
<1>10. CASE RestartTimerFires
  <2>1. UNCHANGED <<loadedObjects, backgroundLoads, placements>> /\ UNCHANGED contentVars
    BY <1>10 DEF RestartTimerFires, L!RestartTimerFires, L!loaderVars
  <2>2. timerCutIn => timerCutIn'
    BY <1>10 DEF RestartTimerFires, L!RestartTimerFires
  <2> QED
    BY <2>1, <2>2 DEF contentVars
<1>11. CASE \/ HideTimerFires \/ EscalationTimerFires \/ PlaneDetected
            \/ SessionFails \/ RestartSession \/ ResignActive \/ BecomeActive
            \/ CoachingActivates \/ CoachingDeactivates
            \/ \E hint \in Hints : HintTimerFires(hint)
            \/ UNCHANGED vars
  BY <1>1, <1>11
     DEF HideTimerFires, EscalationTimerFires, PlaneDetected, SessionFails,
         RestartSession, ResignActive, BecomeActive, CoachingActivates, CoachingDeactivates, HintTimerFires, loadingVars,
         contentVars, statusVars, vars
<1>12. CASE \/ \E inView, refresh \in BOOLEAN, hits \in HitSets :
                 FrameHit(inView, refresh, hits)
            \/ \E inView \in BOOLEAN : FrameMiss(inView)
            \/ ShowMenu \/ DismissOutside \/ FinishDismissal
  BY <1>1, <1>12
     DEF FrameHit, FrameMiss, ShowMenu, DismissOutside, FinishDismissal, L!FrameHit,
         L!FrameMiss, L!ShowMenu, L!DismissOutside, L!FinishDismissal, L!loaderVars,
         contentVars, statusVars
<1> QED
  BY <1>2, <1>3, <1>4, <1>5, <1>6, <1>7, <1>8, <1>9, <1>10, <1>11, <1>12 DEF Next

\* The rest of the types.
OthersKnown ==
  /\ interrupted \in BOOLEAN
  /\ hidden \in SUBSET Objects
  /\ upperControlsHidden \in BOOLEAN
  /\ scheduled \in SUBSET Hints
  /\ appActive \in BOOLEAN /\ blurred \in BOOLEAN
  /\ alert \in BOOLEAN /\ alertLost \in BOOLEAN

LEMMA OthersStep == OthersKnown /\ [Next]_vars => OthersKnown'
BY DEF OthersKnown, Next, vars, statusVars, contentVars, coverVars, timerVars,
       screenVars, Hints, HideTimerFires, EscalationTimerFires, PlaneDetected,
       SessionFails, RestartSession, ResignActive, BecomeActive, Unblur,
       CoachingActivates, CoachingDeactivates, ShowControls, HintTimerFires,
       TrackingChanges, Interruption, FrameHit, HintsAfterHit, FrameMiss,
       HintsAfterMiss, ShowMenu, DismissOutside, FinishDismissal, SelectObject,
       DeselectRow, BackgroundLoad, PlaceInScene, ShownWhenPlaced, PlaceRejected,
       RestartExperience, RestartTimerFires

LEMMA OthersInvariance == Spec => []OthersKnown
<1>1. Init => OthersKnown
  BY DEF Init, OthersKnown, Hints
<1> QED
  BY <1>1, OthersStep, PTL DEF Spec

\* Every variable of the loader and of what is told and shown keeps its type.
THEOREM StatusTypeCorrect == Spec => []TypeOK
<1>1. StatusInv /\ OthersKnown /\ P!TypeOK => TypeOK
  BY DEF StatusInv, StatesKnown, OthersKnown, P!TypeOK, L!TypeOK, TypeOK
<1> QED
  BY <1>1, StatusInvariance, OthersInvariance, LoaderInvariants, PTL

\* Under normal tracking, and unless a restart timer has cut into a load, no placed
\* object is hidden, whatever was removed, chosen again or placed while it was hidden.
THEOREM PlacedObjectsAreVisible == Spec => []PlacedIsVisible
<1>1. Init => PlacedIsVisible
  BY DEF Init, PlacedIsVisible
<1>2. OthersKnown => hidden \in SUBSET Objects
  BY DEF OthersKnown
<1> QED
  BY <1>1, <1>2, VisibilityStep, LoaderFactsHold, OthersInvariance, PTL DEF Spec

-----------------------------------------------------------------------------
(* The blur. *)

\* Only errors and switches of the application touch the blur and the alert.
LEMMA ScreenStep ==
  [Next]_vars => \/ SessionFails \/ RestartSession \/ ResignActive \/ BecomeActive
                 \/ UNCHANGED screenVars
BY DEF Next, vars, statusVars, coverVars, HideTimerFires, EscalationTimerFires,
       PlaneDetected, CoachingActivates, CoachingDeactivates, HintTimerFires,
       TrackingChanges, Interruption, FrameHit, FrameMiss, ShowMenu, DismissOutside,
       FinishDismissal, SelectObject, DeselectRow, BackgroundLoad, PlaceInScene,
       PlaceRejected, RestartExperience, RestartTimerFires

\* An active application is blurred only under an error alert, or after one that could
\* not be presented, in every order of errors and switches.
THEOREM BlurHasAReason == Spec => []BlurIsExplained
<1>1. Init => BlurIsExplained
  BY DEF Init, BlurIsExplained
<1>2. BlurIsExplained /\ [Next]_vars => BlurIsExplained'
  BY ScreenStep DEF BlurIsExplained, SessionFails, RestartSession, ResignActive,
                    BecomeActive, Unblur, screenVars
<1> QED
  BY <1>1, <1>2, PTL DEF Spec

=============================================================================
