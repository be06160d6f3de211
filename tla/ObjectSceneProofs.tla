-------------------------- MODULE ObjectSceneProofs --------------------------
(***************************************************************************)
(* Safety of ObjectScene for every set of objects, raycasts and anchors    *)
(* and every bound.                                                        *)
(*                                                                         *)
(* The scene takes no step the loader does not know, so what is proved of  *)
(* ObjectLoading holds in it; CalmScene is what the scene adds to that,    *)
(* until a restart timer fires during a load, about the objects that no    *)
(* removal under a finger has disturbed.                                   *)
(***************************************************************************)
EXTENDS ObjectScene, SequenceTheorems, TLAPS

P == INSTANCE ObjectLoadingProofs

-----------------------------------------------------------------------------
(* The loader's part of a step. *)

LEMMA InitRefines == Init => L!Init
BY DEF Init

LEMMA StepRefines == [Next]_vars => [L!Next]_L!loadingVars
<1> SUFFICES ASSUME [Next]_vars PROVE [L!Next]_L!loadingVars
  OBVIOUS
<1> USE DEF L!Next, L!loadingVars
<1>1. ASSUME NEW coaching \in BOOLEAN, NEW refresh \in BOOLEAN, NEW hits \in HitSets,
             FrameHit(coaching, refresh, hits)
      PROVE  L!Next
  BY <1>1 DEF FrameHit
<1>2. CASE FrameMiss \/ ShowMenu \/ DismissOutside \/ FinishDismissal
  BY <1>2 DEF FrameMiss, ShowMenu, DismissOutside, FinishDismissal
<1>3. CASE RestartExperience \/ RestartTimerFires
  BY <1>3 DEF RestartExperience, RestartTimerFires
<1>4. ASSUME NEW o \in Objects, SelectObject(o) \/ DeselectRow(o) \/ BackgroundLoad(o)
      PROVE  L!Next
  BY <1>4 DEF SelectObject, DeselectRow, BackgroundLoad
<1>5. ASSUME NEW o \in Objects, PlaceInScene(o) PROVE L!Next
  <2>1. L!Place(o, TRUE)
    BY <1>5 DEF PlaceInScene
  <2>2. QED
    BY <2>1
<1>6. ASSUME NEW o \in Objects, PlaceRejected(o) PROVE L!Next
  <2>1. L!Place(o, FALSE)
    BY <1>6 DEF PlaceRejected
  <2>2. QED
    BY <2>1
<1>7. CASE UNCHANGED loadingVars
  BY <1>7 DEF loadingVars
<1>8. CASE RunFocusBlock \/ RestartSession \/ TapElsewhere \/ PanChanged \/ PanEnded
           \/ PanCancelled \/ UNCHANGED vars
  BY <1>7, <1>8 DEF RunFocusBlock, RestartSession, TapElsewhere, PanChanged, PanEnded,
                    PanCancelled, vars
<1>9. ASSUME NEW o \in Objects, RunAnchorBlock(o) \/ TapObject(o) \/ PanBegan(o)
      PROVE  UNCHANGED loadingVars
  BY <1>9 DEF RunAnchorBlock, TapObject, PanBegan
<1>10. ASSUME NEW a \in AnchorIds, AnchorMoved(a) \/ RunUpdateBlock(a)
       PROVE  UNCHANGED loadingVars
  BY <1>10 DEF AnchorMoved, RunUpdateBlock
<1>11. ASSUME NEW r \in RaycastIds, RaycastResult(r) PROVE UNCHANGED loadingVars
  BY <1>11 DEF RaycastResult
<1>12. QED
  BY <1>1, <1>2, <1>3, <1>4, <1>5, <1>6, <1>7, <1>8, <1>9, <1>10, <1>11 DEF Next

\* Every behaviour of the scene is one of the loader, since each action of the scene
\* conjoins one of the loader's or leaves its variables alone.
LEMMA SceneImplementsLoading == Spec => L!Spec
BY InitRefines, StepRefines, PTL DEF Spec, L!Spec

-----------------------------------------------------------------------------
(* The types of the scene. *)

AnchorsKnown ==
  /\ anchor \in [Objects -> AnchorIds \union {None}]
  /\ sessionAnchors \in [AnchorIds -> Objects \union {None}]

RaycastsKnown ==
  /\ raycast \in [Objects -> RaycastIds \union {None}]
  /\ tracking \in [RaycastIds -> Objects \union {None}]

GesturesKnown ==
  /\ selectedObject \in Objects \union {None}
  /\ trackedObject \in Objects \union {None}

FlagsKnown ==
  /\ focusInitializing \in BOOLEAN
  /\ raycastQuery \in [Objects -> BOOLEAN]
  /\ isLoaded \in [Objects -> BOOLEAN]
  /\ inScene \in [Objects -> BOOLEAN]
  /\ shouldUpdateAnchor \in [Objects -> BOOLEAN]
  /\ atAnchor \in [Objects -> BOOLEAN]
  /\ dragRemoved \in SUBSET Objects
  /\ dragAbandoned \in SUBSET Objects

QueueKnown == updateQueue \in Seq(Blocks)

SceneKnown == AnchorsKnown /\ RaycastsKnown /\ GesturesKnown /\ FlagsKnown /\ QueueKnown

LEMMA AnchorsKnownStep ==
  ASSUME AnchorsKnown, GesturesKnown, [Next]_vars
  PROVE  AnchorsKnown'
<1> USE DEF AnchorsKnown, anchorVars
<1>1. CASE UNCHANGED anchorVars
  BY <1>1
<1>2. ASSUME NEW o \in Objects, RunAnchorBlock(o) PROVE AnchorsKnown'
  BY <1>2 DEF RunAnchorBlock, SessionReanchored, SessionWithout, FreshAnchors
<1>3. ASSUME NEW o \in Objects, DeselectRow(o) \/ PlaceRejected(o) PROVE AnchorsKnown'
  BY <1>3 DEF DeselectRow, PlaceRejected, DeselectFromScene, SessionWithout
<1>4. CASE RestartExperience \/ RestartSession
  BY <1>4 DEF RestartExperience, RestartSession, ResetSession
<1>5. QED
  BY <1>1, <1>2, <1>3, <1>4 DEF Next, vars, sceneVars, FrameHit, FrameMiss,
     RunFocusBlock, AnchorMoved, RunUpdateBlock, ShowMenu, DismissOutside,
     FinishDismissal, SelectObject, RestartTimerFires, BackgroundLoad, PlaceInScene,
     RaycastResult, TapObject, TapElsewhere, PanBegan, PanChanged, PanEnded,
     PanCancelled

LEMMA RaycastsKnownStep ==
  ASSUME RaycastsKnown, GesturesKnown, [Next]_vars
  PROVE  RaycastsKnown'
<1> USE DEF RaycastsKnown, raycastVars
<1>1. CASE UNCHANGED raycastVars
  BY <1>1
<1>2. ASSUME NEW removed \in SUBSET Objects, RemoveFromScene(removed)
      PROVE  RaycastsKnown'
  BY <1>2 DEF RemoveFromScene, TrackingWithout, RaycastsWithout
<1>3. ASSUME NEW o \in Objects, PlaceInScene(o) PROVE RaycastsKnown'
  BY <1>3 DEF PlaceInScene, TrackAfresh, FreshRaycasts
<1>4. ASSUME NEW o \in Objects, DeselectRow(o) \/ PlaceRejected(o) PROVE RaycastsKnown'
  BY <1>1, <1>2, <1>4 DEF DeselectRow, PlaceRejected, DeselectFromScene
<1>5. ASSUME NEW o \in Objects, SetDown(o) PROVE RaycastsKnown'
  BY <1>5 DEF SetDown, FreshRaycasts, TrackingWithout, RaycastsWithout
<1>6. CASE TapElsewhere \/ PanEnded
  BY <1>5, <1>6 DEF TapElsewhere, PanEnded, GesturesKnown
<1>7. CASE PanChanged
  BY <1>7 DEF PanChanged, TrackingWithout, RaycastsWithout
<1>8. CASE RestartExperience
  BY <1>2, <1>8 DEF RestartExperience
<1>9. QED
  BY <1>1, <1>3, <1>4, <1>6, <1>7, <1>8 DEF Next, vars, sceneVars, FrameHit, FrameMiss,
     RunFocusBlock, RunAnchorBlock, AnchorMoved, RunUpdateBlock, ShowMenu,
     DismissOutside, FinishDismissal, SelectObject, RestartTimerFires, BackgroundLoad,
     RaycastResult, RestartSession, TapObject, PanBegan, PanCancelled

LEMMA GesturesKnownStep == GesturesKnown /\ [Next]_vars => GesturesKnown'
BY DEF GesturesKnown, Next, vars, sceneVars, gestureVars, FrameHit, FrameMiss,
       RunFocusBlock, RunAnchorBlock, AnchorMoved, RunUpdateBlock, ShowMenu,
       DismissOutside, FinishDismissal, SelectObject, RestartTimerFires, DeselectRow,
       DeselectFromScene, SelectionAfterRemoval, BackgroundLoad, PlaceInScene,
       PlaceRejected, RaycastResult, ResetSession, RestartExperience, RestartSession,
       TapObject, TapElsewhere, PanBegan, PanChanged, PanEnded, PanCancelled

LEMMA FlagsKnownStep ==
  ASSUME FlagsKnown, RaycastsKnown, GesturesKnown, [Next]_vars
  PROVE  FlagsKnown'
<1> USE DEF FlagsKnown, nodeVars, placeVars, dragVars
<1>1. CASE UNCHANGED <<focusInitializing, raycastQuery, nodeVars, placeVars, dragVars>>
  BY <1>1
<1>2. ASSUME NEW coaching \in BOOLEAN, NEW refresh \in BOOLEAN, NEW hits \in HitSets,
             FrameHit(coaching, refresh, hits)
      PROVE  FlagsKnown'
  BY <1>2 DEF FrameHit
<1>3. CASE RunFocusBlock
  BY <1>3 DEF RunFocusBlock
<1>4. ASSUME NEW o \in Objects, RunAnchorBlock(o) PROVE FlagsKnown'
  BY <1>4 DEF RunAnchorBlock
<1>5. ASSUME NEW a \in AnchorIds, RunUpdateBlock(a) PROVE FlagsKnown'
  BY <1>5, Zenon DEF RunUpdateBlock
<1>6. ASSUME NEW removed \in SUBSET Objects, RemoveFromScene(removed),
             UNCHANGED <<focusInitializing, raycastQuery, placeVars>>
      PROVE  FlagsKnown'
  BY <1>6 DEF RemoveFromScene
<1>7. ASSUME NEW o \in Objects, DeselectRow(o) \/ PlaceRejected(o) PROVE FlagsKnown'
  BY <1>1, <1>6, <1>7 DEF DeselectRow, PlaceRejected, DeselectFromScene, focusVars
<1>8. ASSUME NEW o \in Objects, BackgroundLoad(o) PROVE FlagsKnown'
  BY <1>8 DEF BackgroundLoad, focusVars
<1>9. ASSUME NEW o \in Objects, PlaceInScene(o) PROVE FlagsKnown'
  BY <1>9 DEF PlaceInScene, focusVars
<1>10. ASSUME NEW r \in RaycastIds, RaycastResult(r) PROVE FlagsKnown'
  BY <1>10 DEF RaycastResult, RaycastsKnown
<1>11. CASE RestartExperience
  BY <1>6, <1>11 DEF RestartExperience, focusVars
<1>12. ASSUME NEW o \in Objects, SetDown(o),
              UNCHANGED <<focusInitializing, raycastQuery, nodeVars, atAnchor, dragVars>>
       PROVE  FlagsKnown'
  BY <1>12 DEF SetDown
<1>13. CASE TapElsewhere \/ PanEnded
  BY <1>12, <1>13 DEF TapElsewhere, PanEnded, GesturesKnown
<1>14. CASE PanChanged
  BY <1>14 DEF PanChanged, focusVars
<1>15. CASE PanCancelled
  <2>1. trackedObject \in Objects
    BY <1>15 DEF PanCancelled, GesturesKnown
  <2>2. QED
    BY <1>15, <2>1 DEF PanCancelled, focusVars
<1>16. QED
  BY <1>1, <1>2, <1>3, <1>4, <1>5, <1>7, <1>8, <1>9, <1>10, <1>11, <1>13, <1>14, <1>15
     DEF Next, vars, sceneVars, focusVars, FrameMiss, AnchorMoved, ShowMenu,
         DismissOutside, FinishDismissal, SelectObject, RestartTimerFires,
         RestartSession, TapObject, PanBegan

LEMMA QueueKnownStep ==
  ASSUME QueueKnown, RaycastsKnown, GesturesKnown, [Next]_vars
  PROVE  QueueKnown'
<1> USE DEF QueueKnown
<1>1. CASE UNCHANGED updateQueue
  BY <1>1
<1>2. ASSUME NEW block \in Blocks, updateQueue' = Append(updateQueue, block)
      PROVE  QueueKnown'
  BY <1>2
<1>3. CASE updateQueue # <<>> /\ updateQueue' = Tail(updateQueue)
  BY <1>3
<1>4. ASSUME NEW coaching \in BOOLEAN, NEW refresh \in BOOLEAN, NEW hits \in HitSets,
             FrameHit(coaching, refresh, hits)
      PROVE  QueueKnown'
  BY <1>2, <1>4 DEF FrameHit, Async, Blocks
<1>5. CASE FrameMiss
  BY <1>2, <1>5 DEF FrameMiss, Async, Blocks
<1>6. ASSUME NEW a \in AnchorIds, AnchorMoved(a) PROVE QueueKnown'
  BY <1>2, <1>6 DEF AnchorMoved, Async, Blocks
<1>7. ASSUME NEW r \in RaycastIds, RaycastResult(r) PROVE QueueKnown'
  <2>1. AnchorBlock(tracking[r]) \in Blocks
    BY <1>7 DEF RaycastResult, RaycastsKnown, Blocks
  <2>2. QED
    BY <1>1, <1>2, <1>7, <2>1 DEF RaycastResult
<1>8. CASE TapElsewhere \/ PanEnded
  BY <1>1, <1>2, <1>8 DEF TapElsewhere, PanEnded, SetDown, Async, Blocks, GesturesKnown
<1>9. QED
  BY <1>1, <1>3, <1>4, <1>5, <1>6, <1>7, <1>8
     DEF Next, vars, sceneVars, focusVars, RunFocusBlock, RunAnchorBlock, RunUpdateBlock,
         ShowMenu, DismissOutside, FinishDismissal, SelectObject, RestartTimerFires,
         DeselectRow, BackgroundLoad, PlaceInScene, PlaceRejected, RestartExperience,
         RestartSession, TapObject, PanBegan, PanChanged, PanCancelled

LEMMA SceneKnownInvariance == Spec => []SceneKnown
<1>1. Init => SceneKnown
  <2> SUFFICES ASSUME Init PROVE SceneKnown
    OBVIOUS
  <2>1. QueueKnown
    BY DEF Init, QueueKnown
  <2>2. AnchorsKnown /\ RaycastsKnown /\ GesturesKnown /\ FlagsKnown
    BY DEF Init, AnchorsKnown, RaycastsKnown, GesturesKnown, FlagsKnown
  <2>3. QED
    BY <2>1, <2>2 DEF SceneKnown
<1>2. SceneKnown /\ [Next]_vars => SceneKnown'
  BY AnchorsKnownStep, RaycastsKnownStep, GesturesKnownStep, FlagsKnownStep,
     QueueKnownStep DEF SceneKnown
<1>3. QED
  BY <1>1, <1>2, PTL DEF Spec

-----------------------------------------------------------------------------
(* What is proved of the loader, under the name by which this module knows *)
(* the loader's definitions.                                               *)

LEMMA SameNext == [L!Next]_(L!loadingVars) <=> [P!Next]_(P!loadingVars)
BY DEF L!Next, P!Next, L!FrameHit, P!FrameHit, L!FrameMiss, P!FrameMiss,
       L!MayShowMenu, P!MayShowMenu, L!RowsOfLoaded, P!RowsOfLoaded,
       L!ShowMenu, P!ShowMenu, L!DismissOutside, P!DismissOutside,
       L!DisplayLoadingUI, P!DisplayLoadingUI, L!SelectObject,
       P!SelectObject, L!Deselect, P!Deselect, L!DeselectRow,
       P!DeselectRow, L!FinishDismissal, P!FinishDismissal,
       L!BackgroundLoad, P!BackgroundLoad, L!HideLoadingUI,
       P!HideLoadingUI, L!RejectPlacement, P!RejectPlacement, L!Place,
       P!Place, L!MayRestart, P!MayRestart, L!RestartExperience,
       P!RestartExperience, L!RestartTimerFires, P!RestartTimerFires,
       L!Loaded, P!Loaded, L!Pending, P!Pending, L!SomePending,
       P!SomePending, L!loaderVars, P!loaderVars, L!buttonVars,
       P!buttonVars, L!menuVars, P!menuVars, L!loadingVars, P!loadingVars

LEMMA LoaderInvariants == Spec => [](P!TypeOK /\ P!LoadInv /\ P!CalmInv)
<1>1. L!Init <=> P!Init
  BY DEF L!Init, P!Init
<1>2. P!LoadingAssumption
  BY SceneAssumption DEF P!LoadingAssumption
<1>3. P!Spec => [](P!TypeOK /\ P!LoadInv /\ P!CalmInv)
  BY <1>2, P!Invariance
<1>4. L!Spec => P!Spec
  BY <1>1, SameNext, PTL DEF L!Spec, P!Spec
<1> QED
  BY <1>3, <1>4, SceneImplementsLoading, PTL

\* Every variable of the loader and of the scene keeps its type, whatever the order
\* in which touches, raycast results and blocks of the update queue come.
THEOREM SceneTypeCorrect == Spec => []TypeOK
<1>1. SceneKnown /\ P!TypeOK => TypeOK
  BY DEF SceneKnown, AnchorsKnown, RaycastsKnown, GesturesKnown, FlagsKnown, QueueKnown,
         P!TypeOK, L!TypeOK, TypeOK
<1>2. QED
  BY <1>1, SceneKnownInvariance, LoaderInvariants, PTL

-----------------------------------------------------------------------------
(* Anchors. *)

LEMMA OneAnchorStep ==
  ASSUME SceneKnown, OneAnchorPerObject, [Next]_vars
  PROVE  OneAnchorPerObject'
<1> USE SceneAssumption DEF SceneKnown, AnchorsKnown, OneAnchorPerObject, anchorVars
<1>1. CASE UNCHANGED anchorVars
  BY <1>1
<1>2. ASSUME NEW o \in Objects, RunAnchorBlock(o) PROVE OneAnchorPerObject'
  <2>1. PICK a \in FreshAnchors : /\ sessionAnchors' = SessionReanchored(o, a)
                                  /\ anchor' = [anchor EXCEPT ![o] = a]
    BY <1>2 DEF RunAnchorBlock
  <2>2. SUFFICES ASSUME NEW b \in AnchorIds, sessionAnchors'[b] # None
                 PROVE  anchor'[sessionAnchors'[b]] = b
    OBVIOUS
  <2>3. CASE b = a
    BY <2>1, <2>3 DEF SessionReanchored, SessionWithout, FreshAnchors
  <2>4. CASE b # a
    <3>1. sessionAnchors'[b] = sessionAnchors[b] /\ b # anchor[o]
      BY <2>1, <2>2, <2>4 DEF SessionReanchored, SessionWithout
    <3>2. sessionAnchors[b] # o /\ anchor[sessionAnchors[b]] = b
      BY <3>1, <2>2
    <3>3. QED
      BY <2>1, <3>1, <3>2
  <2>5. QED
    BY <2>3, <2>4
<1>3. ASSUME NEW o \in Objects, DeselectRow(o) \/ PlaceRejected(o)
      PROVE  OneAnchorPerObject'
  BY <1>1, <1>3 DEF DeselectRow, PlaceRejected, DeselectFromScene, SessionWithout
<1>4. CASE RestartExperience \/ RestartSession
  BY <1>4 DEF RestartExperience, RestartSession, ResetSession
<1>5. QED
  BY <1>1, <1>2, <1>3, <1>4 DEF Next, vars, sceneVars, FrameHit, FrameMiss,
     RunFocusBlock, AnchorMoved, RunUpdateBlock, ShowMenu, DismissOutside,
     FinishDismissal, SelectObject, RestartTimerFires, BackgroundLoad, PlaceInScene,
     RaycastResult, TapObject, TapElsewhere, PanBegan, PanChanged, PanEnded,
     PanCancelled

\* The session never holds two anchors for one object, nor one the object has lost
\* track of, although the update queue adds them and the main queue removes them.
THEOREM AnchorsAreUnique == Spec => []OneAnchorPerObject
<1>1. Init => OneAnchorPerObject
  BY DEF Init, OneAnchorPerObject
<1>2. QED
  BY <1>1, OneAnchorStep, SceneKnownInvariance, PTL DEF Spec

-----------------------------------------------------------------------------
(* The undisturbed scene. *)

\* The loader's invariants as this module needs them.
LoaderFacts ==
  /\ loadedObjects \in [Objects -> Nat]
  /\ backgroundLoads \in [Objects -> Nat]
  /\ placements \in [Objects -> Nat]
  /\ \A o \in Objects : loadedObjects[o] <= 1
  /\ ~timerCutIn =>
       /\ \A o \in Objects : L!Pending(o) =>
            L!Loaded(o) /\ objectsViewController /\ ~isRestartAvailable
       /\ \A o \in Objects : backgroundLoads[o] + placements[o] <= 1
       /\ menu = "open" => selectedRows = {o \in Objects : L!Loaded(o)}

LEMMA LoaderFactsHold == Spec => []LoaderFacts
<1>1. P!TypeOK /\ P!LoadInv /\ P!CalmInv => LoaderFacts
  BY DEF P!TypeOK, P!LoadInv, P!CalmInv, P!NeverLoadedTwice, P!LoadOwnsTheScreen,
         P!MenuMirrorsLoaded, P!Pending, P!Loaded, L!Pending, L!Loaded, LoaderFacts
<1>2. QED
  BY <1>1, LoaderInvariants, PTL

InUse(o) ==
  \/ inScene[o]
  \/ selectedObject = o \/ trackedObject = o
  \/ \E r \in RaycastIds : tracking[r] = o

\* Of an object that nothing disturbed: its active raycast is its current one, and if
\* the scene or a gesture refers to it, it is loaded and has been placed.  It is the last
\* of these that keeps a placement from overwriting a raycast which is still active.
ObjectCalm(o) ==
  /\ \A r \in RaycastIds : tracking[r] = o => raycast[o] = r
  /\ InUse(o) => L!Loaded(o) /\ ~L!Pending(o)

\* Of every object: content and selection are lost with the place in the loader, so that
\* a disturbed object can be in the scene and yet no tap takes hold of it.
CalmScene ==
  /\ \A o \in Objects \ dragRemoved : ObjectCalm(o)
  /\ \A o \in Objects : isLoaded[o] \/ selectedObject = o => L!Loaded(o)

LEMMA CalmSceneGivesProperties ==
  SceneKnown /\ (Calm => CalmScene) =>
    SceneShowsLoaded /\ RaycastsAreOwned /\ GesturesActOnLoaded
BY DEF SceneKnown, GesturesKnown, CalmScene, ObjectCalm, InUse, SceneShowsLoaded,
       RaycastsAreOwned, GesturesActOnLoaded, Undisturbed

\* Removing objects from loader and scene together keeps the scene calm.
LEMMA RemovalStep ==
  ASSUME SceneKnown, CalmScene,
         NEW removed \in SUBSET Objects, RemoveFromScene(removed),
         selectedObject' = None, trackedObject' = trackedObject,
         \A o \in Objects \ removed :
           /\ L!Loaded(o) => L!Loaded(o)'
           /\ ~L!Pending(o) => ~L!Pending(o)'
  PROVE  CalmScene'
<1> USE SceneAssumption DEF SceneKnown, RaycastsKnown, GesturesKnown, FlagsKnown
<1>1. ASSUME NEW o \in Objects \ dragRemoved' PROVE ObjectCalm(o)'
  <2>1. o \notin dragRemoved /\ (o \in removed => trackedObject # o)
    BY <1>1 DEF RemoveFromScene
  <2>2. ObjectCalm(o)
    BY <2>1 DEF CalmScene
  <2>3. ASSUME NEW r \in RaycastIds, tracking'[r] = o
        PROVE  tracking[r] = o /\ o \notin removed /\ raycast'[o] = r
    BY <2>2, <2>3 DEF RemoveFromScene, TrackingWithout, RaycastsWithout, ObjectCalm
  <2>4. ASSUME InUse(o)' PROVE InUse(o) /\ o \notin removed
    <3>1. CASE inScene'[o]
      BY <3>1 DEF RemoveFromScene, InUse
    <3>2. CASE trackedObject' = o
      BY <2>1, <3>2 DEF InUse
    <3>3. CASE \E r \in RaycastIds : tracking'[r] = o
      BY <2>3, <3>3 DEF InUse
    <3>4. QED
      BY <2>4, <3>1, <3>2, <3>3 DEF InUse
  <2>5. QED
    BY <2>2, <2>3, <2>4 DEF ObjectCalm
<1>2. ASSUME NEW o \in Objects, isLoaded'[o] \/ selectedObject' = o PROVE L!Loaded(o)'
  BY <1>2 DEF RemoveFromScene, CalmScene
<1>3. QED
  BY <1>1, <1>2 DEF CalmScene

\* A step that takes nothing into use and disturbs no placed object keeps it too.
LEMMA KeptStep ==
  ASSUME SceneKnown, CalmScene, UNCHANGED <<raycast, tracking, inScene, dragRemoved>>,
         selectedObject' \in {selectedObject, None}, trackedObject' \in {trackedObject, None},
         \A o \in Objects : /\ L!Loaded(o) => L!Loaded(o)'
                            /\ L!Loaded(o) /\ ~L!Pending(o) => ~L!Pending(o)'
                            /\ isLoaded'[o] => L!Loaded(o)'
  PROVE  CalmScene'
<1>1. ASSUME NEW o \in Objects \ dragRemoved' PROVE ObjectCalm(o)'
  <2>1. ObjectCalm(o)
    BY <1>1 DEF CalmScene
  <2>2. InUse(o)' => InUse(o)
    BY <1>1, SceneAssumption DEF InUse
  <2>3. QED
    BY <1>1, <2>1, <2>2 DEF ObjectCalm
<1>2. ASSUME NEW o \in Objects, selectedObject' = o PROVE L!Loaded(o)'
  BY <1>2, SceneAssumption DEF CalmScene
<1>3. QED
  BY <1>1, <1>2 DEF CalmScene

\* So does a step of a gesture or a raycast result on an object in use.
LEMMA UseStep ==
  ASSUME SceneKnown, CalmScene, UNCHANGED loadingVars, UNCHANGED <<isLoaded, dragRemoved>>,
         NEW o \in Objects, InUse(o),
         \/ UNCHANGED raycastVars
         \/ SetDown(o)
         \/ tracking' = TrackingWithout({o}) /\ raycast' = RaycastsWithout({o}),
         inScene' \in {inScene, [inScene EXCEPT ![o] = TRUE]},
         selectedObject' = selectedObject \/ (selectedObject' = o /\ L!Loaded(o)),
         trackedObject' \in {trackedObject, o, None}
  PROVE  CalmScene'
<1> USE SceneAssumption DEF SceneKnown, RaycastsKnown, FlagsKnown
<1>1. ASSUME NEW p \in Objects \ dragRemoved, NEW r \in RaycastIds, tracking'[r] = p
      PROVE  raycast'[p] = r /\ (p = o \/ tracking[r] = p)
  <2>0. tracking[r] = p => raycast[p] = r
    BY DEF CalmScene, ObjectCalm
  <2>1. CASE UNCHANGED raycastVars
    BY <1>1, <2>0, <2>1 DEF raycastVars
  <2>2. CASE tracking' = TrackingWithout({o}) /\ raycast' = RaycastsWithout({o})
    BY <1>1, <2>0, <2>2 DEF TrackingWithout, RaycastsWithout
  <2>3. ASSUME NEW s \in FreshRaycasts,
               tracking' = [TrackingWithout({o}) EXCEPT ![s] = o],
               raycast' = [raycast EXCEPT ![o] = s]
        PROVE  raycast'[p] = r /\ (p = o \/ tracking[r] = p)
    <3>1. CASE r = s
      <4>1. p = o
        BY <1>1, <2>3, <3>1 DEF TrackingWithout, FreshRaycasts
      <4>2. QED
        BY <2>3, <3>1, <4>1 DEF FreshRaycasts
    <3>2. CASE r # s
      <4>1. tracking[r] = p /\ raycast[o] # r
        BY <1>1, <2>3, <3>2 DEF TrackingWithout
      <4>2. p # o /\ raycast[p] = r
        BY <2>0, <4>1
      <4>3. QED
        BY <2>3, <4>1, <4>2
    <3>3. QED
      BY <3>1, <3>2
  <2>4. QED
    BY <2>1, <2>2, <2>3 DEF SetDown
<1>2. \A p \in Objects : L!Loaded(p)' = L!Loaded(p) /\ L!Pending(p)' = L!Pending(p)
  BY DEF loadingVars, L!Loaded, L!Pending
<1>3. ASSUME NEW p \in Objects \ dragRemoved' PROVE ObjectCalm(p)'
  <2>1. ObjectCalm(p) /\ p \notin dragRemoved
    BY <1>3 DEF CalmScene
  <2>2. ASSUME InUse(p)', p # o PROVE InUse(p)
    <3>1. CASE inScene'[p]
      BY <2>2, <3>1 DEF InUse
    <3>2. CASE selectedObject' = p \/ trackedObject' = p
      BY <2>2, <3>2 DEF InUse
    <3>3. CASE \E r \in RaycastIds : tracking'[r] = p
      BY <1>1, <2>1, <2>2, <3>3 DEF InUse
    <3>4. QED
      BY <2>2, <3>1, <3>2, <3>3 DEF InUse
  <2>3. QED
    BY <1>1, <1>2, <2>1, <2>2 DEF ObjectCalm
<1>4. ASSUME NEW p \in Objects, isLoaded'[p] \/ selectedObject' = p PROVE L!Loaded(p)'
  BY <1>2, <1>4 DEF CalmScene
<1>5. QED
  BY <1>3, <1>4 DEF CalmScene

LEMMA PlaceStep ==
  ASSUME SceneKnown, LoaderFacts, CalmScene, ~timerCutIn,
         NEW o \in Objects, PlaceInScene(o)
  PROVE  CalmScene'
<1> USE SceneAssumption DEF SceneKnown, RaycastsKnown, LoaderFacts
<1>1. L!Pending(o) /\ L!Loaded(o) /\ ~L!Pending(o)'
  BY DEF PlaceInScene, L!Place, L!Loaded, L!Pending
<1>2. /\ \A p \in Objects : L!Loaded(p)' = L!Loaded(p)
      /\ \A p \in Objects : p # o => L!Pending(p)' = L!Pending(p)
  BY DEF PlaceInScene, L!Place, L!Loaded, L!Pending
<1>3. ASSUME NEW p \in Objects \ dragRemoved' PROVE ObjectCalm(p)'
  <2>1. ObjectCalm(p) /\ (p = o => ~InUse(p))
    BY <1>1, <1>3 DEF PlaceInScene, dragVars, CalmScene, ObjectCalm
  <2>2. ASSUME NEW r \in RaycastIds, tracking'[r] = p
        PROVE  raycast'[p] = r /\ (p = o \/ tracking[r] = p)
    <3>1. CASE TrackAfresh(o)
      BY <2>1, <2>2, <3>1 DEF TrackAfresh, FreshRaycasts, ObjectCalm, InUse
    <3>2. CASE raycast' = [raycast EXCEPT ![o] = None] /\ tracking' = tracking
      BY <2>1, <2>2, <3>2 DEF ObjectCalm, InUse
    <3>3. QED
      BY <3>1, <3>2 DEF PlaceInScene
  <2>3. p # o /\ InUse(p)' => InUse(p)
    BY <2>2 DEF PlaceInScene, InUse, nodeVars
  <2>4. QED
    BY <1>1, <1>2, <2>1, <2>2, <2>3 DEF ObjectCalm
<1>4. ASSUME NEW p \in Objects, isLoaded'[p] \/ selectedObject' = p PROVE L!Loaded(p)'
  BY <1>1, <1>2, <1>4 DEF PlaceInScene, nodeVars, CalmScene
<1>5. QED
  BY <1>3, <1>4 DEF CalmScene

\* A calm state is reached from calm states only.
LEMMA CalmBackward ==
  ASSUME [Next]_vars, Calm'
  PROVE  Calm
<1>1. timerCutIn => timerCutIn'
  BY DEF Next, vars, loadingVars, FrameHit, FrameMiss, RunFocusBlock, RunAnchorBlock,
         AnchorMoved, RunUpdateBlock, ShowMenu, DismissOutside, FinishDismissal,
         SelectObject, DeselectRow, BackgroundLoad, PlaceInScene, PlaceRejected,
         RaycastResult, RestartExperience, RestartTimerFires, RestartSession, TapObject,
         TapElsewhere, PanBegan, PanChanged, PanEnded, PanCancelled, L!FrameHit,
         L!FrameMiss, L!ShowMenu, L!DismissOutside, L!FinishDismissal, L!SelectObject,
         L!DeselectRow, L!BackgroundLoad, L!Place, L!RestartExperience,
         L!RestartTimerFires
<1>2. QED
  BY <1>1 DEF Calm

\* An object once disturbed stays so.
LEMMA MarksStay ==
  ASSUME [Next]_vars
  PROVE  dragRemoved \subseteq dragRemoved' /\ dragAbandoned \subseteq dragAbandoned'
BY DEF Next, vars, sceneVars, dragVars, FrameHit, FrameMiss, RunFocusBlock,
       RunAnchorBlock, AnchorMoved, RunUpdateBlock, ShowMenu, DismissOutside,
       FinishDismissal, SelectObject, DeselectRow, DeselectFromScene, RemoveFromScene,
       BackgroundLoad, PlaceInScene, PlaceRejected, RaycastResult, RestartExperience,
       RestartTimerFires, RestartSession, TapObject, TapElsewhere, PanBegan,
       PanChanged, PanEnded, PanCancelled

\* The removal of one object by the menu or by a rejected placement.
LEMMA DeselectStep ==
  ASSUME SceneKnown, LoaderFacts, CalmScene,
         NEW o \in Objects, L!Loaded(o), DeselectFromScene(o), L!Deselect(o),
         backgroundLoads' = backgroundLoads,
         \A p \in Objects : placements'[p] <= placements[p] /\ placements'[p] \in Nat
  PROVE  CalmScene'
<1>1. \A p \in Objects \ {o} : /\ L!Loaded(p) => L!Loaded(p)'
                               /\ ~L!Pending(p) => ~L!Pending(p)'
  BY DEF L!Deselect, L!Loaded, L!Pending, LoaderFacts
<1>2. RemoveFromScene({o}) /\ selectedObject' = None /\ trackedObject' = trackedObject
  BY DEF DeselectFromScene, SelectionAfterRemoval
<1>3. QED
  BY <1>1, <1>2, RemovalStep

LEMMA CalmSceneStep ==
  ASSUME SceneKnown, LoaderFacts, Calm => CalmScene, [Next]_vars, Calm'
  PROVE  CalmScene'
<1>0. CalmScene /\ ~timerCutIn
  BY CalmBackward DEF Calm
<1> USE DEF nodeVars, raycastVars, gestureVars, dragVars
<1>1. CASE /\ UNCHANGED <<loadedObjects, backgroundLoads, placements>>
           /\ UNCHANGED <<raycast, tracking, nodeVars, dragRemoved>>
           /\ selectedObject' \in {selectedObject, None}
           /\ trackedObject' \in {trackedObject, None}
  <2>1. \A o \in Objects : isLoaded[o] => L!Loaded(o)
    BY <1>0 DEF CalmScene
  <2>2. QED
    BY <1>0, <1>1, <2>1, KeptStep DEF L!Loaded, L!Pending
<1>2. ASSUME NEW o \in Objects, SelectObject(o) PROVE CalmScene'
  <2>1. ~L!Loaded(o)
    BY <1>0, <1>2 DEF SelectObject, L!SelectObject, LoaderFacts
  <2>2. \A p \in Objects : /\ L!Loaded(p) => L!Loaded(p)'
                           /\ L!Loaded(p) /\ ~L!Pending(p) => ~L!Pending(p)'
    BY <1>2, <2>1 DEF SelectObject, L!SelectObject, LoaderFacts, L!Loaded, L!Pending
  <2>3. UNCHANGED <<nodeVars, raycastVars, gestureVars, dragVars>>
    BY <1>2 DEF SelectObject, sceneVars
  <2>4. \A p \in Objects : isLoaded'[p] => L!Loaded(p)'
    BY <1>0, <2>2, <2>3 DEF CalmScene
  <2>5. QED
    BY <1>0, <2>2, <2>3, <2>4, KeptStep
<1>3. ASSUME NEW o \in Objects, DeselectRow(o) PROVE CalmScene'
  <2>1. L!Loaded(o) /\ L!Deselect(o) /\ UNCHANGED <<backgroundLoads, placements>>
    BY <1>0, <1>3 DEF DeselectRow, L!DeselectRow, LoaderFacts
  <2>2. DeselectFromScene(o)
    BY <1>3, <2>1 DEF DeselectRow
  <2>3. QED
    BY <1>0, <2>1, <2>2, DeselectStep DEF LoaderFacts
<1>4. ASSUME NEW o \in Objects, BackgroundLoad(o) PROVE CalmScene'
  <2>1. \A p \in Objects : /\ L!Loaded(p)' = L!Loaded(p)
                           /\ p # o => L!Pending(p)' = L!Pending(p)
    BY <1>4 DEF BackgroundLoad, L!BackgroundLoad, LoaderFacts, L!Loaded, L!Pending
  <2>2. L!Pending(o) /\ L!Loaded(o)
    BY <1>0, <1>4 DEF BackgroundLoad, L!BackgroundLoad, LoaderFacts, L!Pending
  <2>3. \A p \in Objects : isLoaded'[p] => isLoaded[p] \/ p = o
    BY <1>4 DEF BackgroundLoad, SceneKnown, FlagsKnown
  <2>4. \A p \in Objects : isLoaded'[p] => L!Loaded(p)'
    BY <1>0, <2>1, <2>2, <2>3 DEF CalmScene
  <2>5. /\ UNCHANGED <<raycast, tracking, inScene, dragRemoved>>
        /\ selectedObject' = selectedObject /\ trackedObject' = trackedObject
    BY <1>4 DEF BackgroundLoad
  <2>6. QED
    BY <1>0, <2>1, <2>2, <2>4, <2>5, KeptStep
<1>5. ASSUME NEW o \in Objects, PlaceInScene(o) PROVE CalmScene'
  BY <1>0, <1>5, PlaceStep
<1>6. ASSUME NEW o \in Objects, PlaceRejected(o) PROVE CalmScene'
  <2>1. L!Place(o, FALSE)
    BY <1>6 DEF PlaceRejected
  <2>2. L!Pending(o) /\ L!Loaded(o) /\ objectsViewController
    BY <1>0, <2>1 DEF L!Place, L!Pending, LoaderFacts
  <2>3. /\ L!Deselect(o) /\ backgroundLoads' = backgroundLoads
        /\ placements' = [placements EXCEPT ![o] = @ - 1] /\ placements[o] > 0
    BY <2>1, <2>2 DEF L!Place, L!RejectPlacement
  <2>4. \A p \in Objects : placements'[p] <= placements[p] /\ placements'[p] \in Nat
    BY <2>3 DEF LoaderFacts
  <2>5. DeselectFromScene(o)
    BY <1>6, <2>2 DEF PlaceRejected
  <2>6. QED
    BY <1>0, <2>2, <2>3, <2>4, <2>5, DeselectStep
<1>7. CASE RestartExperience
  <2> DEFINE removed == {o \in Objects : L!Loaded(o)}
  <2>1. RemoveFromScene(removed) /\ selectedObject' = None /\ trackedObject' = trackedObject
    BY <1>7 DEF RestartExperience, ResetSession
  <2>2. \A o \in Objects \ removed : /\ ~L!Loaded(o)
                                     /\ L!Pending(o)' = L!Pending(o)
    BY <1>7 DEF RestartExperience, L!RestartExperience, L!Pending
  <2> HIDE DEF removed
  <2>3. removed \in SUBSET Objects
    BY DEF removed
  <2>4. QED
    BY <1>0, <2>1, <2>2, <2>3, RemovalStep
<1>8. ASSUME NEW r \in RaycastIds, RaycastResult(r) PROVE CalmScene'
  <2>1. tracking[r] \in Objects /\ InUse(tracking[r])
    BY <1>8 DEF RaycastResult, SceneKnown, RaycastsKnown, InUse
  <2>2. QED
    <3>1. /\ UNCHANGED loadingVars /\ UNCHANGED raycastVars
          /\ UNCHANGED <<isLoaded, dragRemoved>>
          /\ inScene' = [inScene EXCEPT ![tracking[r]] = TRUE]
          /\ selectedObject' = selectedObject /\ trackedObject' = trackedObject
      BY <1>8 DEF RaycastResult
    <3>2. QED
      BY <1>0, <2>1, <3>1, UseStep
<1>9. ASSUME NEW o \in Objects, TapObject(o) \/ PanBegan(o) PROVE CalmScene'
  <2>1. InUse(o) /\ L!Loaded(o)
    BY <1>0, <1>9 DEF TapObject, PanBegan, Touchable, InUse, CalmScene
  <2>2. QED
    <3>1. /\ UNCHANGED loadingVars /\ UNCHANGED raycastVars /\ inScene' = inScene
          /\ UNCHANGED <<isLoaded, dragRemoved>>
          /\ selectedObject' = o /\ trackedObject' \in {trackedObject, o}
      BY <1>9 DEF TapObject, PanBegan
    <3>2. QED
      BY <1>0, <2>1, <3>1, UseStep
<1>10. CASE TapElsewhere
  <2>1. selectedObject \in Objects /\ InUse(selectedObject)
    BY <1>10 DEF TapElsewhere, SceneKnown, GesturesKnown, InUse
  <2>2. QED
    <3>1. /\ UNCHANGED loadingVars /\ SetDown(selectedObject) /\ inScene' = inScene
          /\ UNCHANGED <<isLoaded, dragRemoved>>
          /\ selectedObject' = selectedObject /\ trackedObject' = trackedObject
      BY <1>10 DEF TapElsewhere
    <3>2. QED
      BY <1>0, <2>1, <3>1, UseStep
<1>11. CASE PanChanged \/ PanEnded
  <2>1. trackedObject \in Objects /\ InUse(trackedObject)
    BY <1>11 DEF PanChanged, PanEnded, SceneKnown, GesturesKnown, InUse
  <2>2. QED
    <3>1. /\ UNCHANGED loadingVars /\ inScene' = inScene
          /\ UNCHANGED <<isLoaded, dragRemoved>>
          /\ selectedObject' = selectedObject /\ trackedObject' \in {trackedObject, None}
          /\ \/ SetDown(trackedObject)
             \/ /\ tracking' = TrackingWithout({trackedObject})
                /\ raycast' = RaycastsWithout({trackedObject})
      BY <1>11 DEF PanChanged, PanEnded
    <3>2. QED
      BY <1>0, <2>1, <3>1, UseStep
<1>12. CASE \/ FrameMiss \/ ShowMenu \/ DismissOutside \/ FinishDismissal
            \/ RestartTimerFires \/ RunFocusBlock \/ RestartSession \/ PanCancelled
            \/ UNCHANGED vars
            \/ \E coaching, refresh \in BOOLEAN, hits \in HitSets :
                 FrameHit(coaching, refresh, hits)
            \/ \E o \in Objects : RunAnchorBlock(o)
            \/ \E a \in AnchorIds : AnchorMoved(a) \/ RunUpdateBlock(a)
  BY <1>1, <1>12
     DEF FrameMiss, ShowMenu, DismissOutside, FinishDismissal, RestartTimerFires,
         RunFocusBlock, RestartSession, ResetSession, PanCancelled, vars, loadingVars,
         sceneVars, FrameHit, RunAnchorBlock, AnchorMoved, RunUpdateBlock, L!FrameHit,
         L!FrameMiss, L!ShowMenu, L!DismissOutside, L!FinishDismissal,
         L!RestartTimerFires, L!loaderVars
<1>13. QED
  BY <1>2, <1>3, <1>4, <1>5, <1>6, <1>7, <1>8, <1>9, <1>10, <1>11, <1>12 DEF Next

LEMMA CalmSceneInvariance == Spec => [](SceneKnown /\ (Calm => CalmScene))
<1>1. Init => CalmScene
  BY SceneAssumption DEF Init, CalmScene, ObjectCalm, InUse
<1>2. SceneKnown /\ LoaderFacts /\ (Calm => CalmScene) /\ [Next]_vars => (Calm => CalmScene)'
  BY CalmSceneStep
<1>3. QED
  BY <1>1, <1>2, SceneKnownInvariance, LoaderFactsHold, PTL DEF Spec

\* Unless a restart timer fired during a load, only loaded objects are in the scene,
\* whatever raycast results, taps and pans come after a removal or a restart; only an
\* object removed under the finger that drags it may come back.
THEOREM SceneIsLoaded == Spec => []SceneShowsLoaded
BY CalmSceneInvariance, CalmSceneGivesProperties, PTL

\* Under the same conditions no tracked raycast outlives its object's need of it: each
\* active one is the current one of a loaded object.
THEOREM NoRaycastLeaks == Spec => []RaycastsAreOwned
BY CalmSceneInvariance, CalmSceneGivesProperties, PTL

\* Unless a restart timer fired during a load, a tap never acts on an object that was
\* removed, and a pan only on one removed while that same pan was dragging it.
THEOREM GesturesAreCurrent == Spec => []GesturesActOnLoaded
BY CalmSceneInvariance, CalmSceneGivesProperties, PTL

-----------------------------------------------------------------------------
(* The blocks that make anchors. *)

\* Blocks of different kinds, or for different objects, are told apart.
LEMMA BlocksDiffer ==
  ASSUME NEW o, NEW p, NEW a, NEW b
  PROVE  /\ AnchorBlock(o) = AnchorBlock(p) => o = p
         /\ AnchorBlock(o) # UpdateBlock(a)
         /\ AnchorBlock(o) # FocusBlock(b)
BY DEF AnchorBlock, UpdateBlock, FocusBlock

\* Two ways to name what a step queued name the same block.
LEMMA AppendedBlock ==
  ASSUME QueueKnown, NEW b, NEW c, Append(updateQueue, b) = Append(updateQueue, c)
  PROVE  b = c
<1>1. /\ Append(updateQueue, b)[Len(updateQueue) + 1] = b
      /\ Append(updateQueue, c)[Len(updateQueue) + 1] = c
  BY DEF QueueKnown
<1>2. QED
  BY <1>1

\* A queue that grew did not stay as it was, nor did it lose its head.
LEMMA AppendGrows ==
  ASSUME QueueKnown, NEW b
  PROVE  /\ Append(updateQueue, b) # updateQueue
         /\ updateQueue # <<>> => Append(updateQueue, b) # Tail(updateQueue)
<1>1. Len(Append(updateQueue, b)) = Len(updateQueue) + 1 /\ Len(updateQueue) \in Nat
  BY DEF QueueKnown
<1>2. updateQueue # <<>> => Len(Tail(updateQueue)) = Len(updateQueue) - 1
  BY HeadTailProperties DEF QueueKnown
<1>3. QED
  BY <1>1, <1>2

LEMMA RequestStep ==
  ASSUME SceneKnown, Calm => CalmScene, [Next]_vars, NEW o \in Objects, Undisturbed(o),
         updateQueue' = Append(updateQueue, AnchorBlock(o))
  PROVE  L!Loaded(o)
<1>0. QueueKnown /\ ObjectCalm(o)
  BY DEF SceneKnown, Undisturbed, CalmScene
<1>1. ASSUME NEW q \in Objects, InUse(q), updateQueue' = Append(updateQueue, AnchorBlock(q))
      PROVE  L!Loaded(o)
  <2>1. o = q
    BY <1>0, <1>1, AppendedBlock, BlocksDiffer
  <2>2. QED
    BY <1>0, <1>1, <2>1 DEF ObjectCalm
<1>2. ~(UNCHANGED updateQueue)
  BY <1>0, AppendGrows
<1>3. ~(updateQueue # <<>> /\ updateQueue' = Tail(updateQueue))
  BY <1>0, AppendGrows
<1>4. ASSUME NEW b, updateQueue' = Append(updateQueue, FocusBlock(b)) PROVE FALSE
  BY <1>0, <1>4, AppendedBlock, BlocksDiffer
<1>5. ASSUME NEW a, updateQueue' = Append(updateQueue, UpdateBlock(a)) PROVE FALSE
  BY <1>0, <1>5, AppendedBlock, BlocksDiffer
<1>6. ASSUME NEW coaching \in BOOLEAN, NEW refresh \in BOOLEAN, NEW hits \in HitSets,
             FrameHit(coaching, refresh, hits)
      PROVE  FALSE
  BY <1>4, <1>6 DEF FrameHit, Async
<1>7. ASSUME FrameMiss PROVE FALSE
  BY <1>4, <1>7 DEF FrameMiss, Async
<1>8. ASSUME NEW a \in AnchorIds, AnchorMoved(a) PROVE FALSE
  BY <1>5, <1>8 DEF AnchorMoved, Async
<1>9. ASSUME NEW r \in RaycastIds, RaycastResult(r) PROVE L!Loaded(o)
  <2>1. tracking[r] \in Objects /\ InUse(tracking[r])
    BY <1>9 DEF RaycastResult, SceneKnown, RaycastsKnown, InUse
  <2>2. QED
    BY <1>1, <1>2, <1>9, <2>1 DEF RaycastResult
<1>10. CASE TapElsewhere
  <2>1. selectedObject \in Objects /\ InUse(selectedObject)
    BY <1>10 DEF TapElsewhere, SceneKnown, GesturesKnown, InUse
  <2>2. QED
    BY <1>1, <1>2, <1>10, <2>1 DEF TapElsewhere, SetDown, Async
<1>11. CASE PanEnded
  <2>1. trackedObject \in Objects /\ InUse(trackedObject)
    BY <1>11 DEF PanEnded, SceneKnown, GesturesKnown, InUse
  <2>2. QED
    BY <1>1, <1>2, <1>11, <2>1 DEF PanEnded, SetDown, Async
<1>12. QED
  BY <1>2, <1>3, <1>6, <1>7, <1>8, <1>9, <1>10, <1>11
     DEF Next, vars, sceneVars, focusVars, RunFocusBlock, RunAnchorBlock, RunUpdateBlock,
         ShowMenu, DismissOutside, FinishDismissal, SelectObject, RestartTimerFires,
         DeselectRow, BackgroundLoad, PlaceInScene, PlaceRejected, RestartExperience,
         RestartSession, TapObject, PanBegan, PanChanged, PanCancelled

\* Unless a restart timer fired during a load, no raycast result, tap or end of a pan asks
\* for an anchor of an object that was removed, except the pan it was removed under: an
\* anchor that comes after the removal of its object was asked for before it.
THEOREM NoLateRequests == Spec => AnchorsAskedForLoaded
<1>1. SceneKnown /\ (Calm => CalmScene) /\ [Next]_vars =>
        [\A o \in Objects :
           updateQueue' = Append(updateQueue, AnchorBlock(o)) /\ Undisturbed(o)
             => L!Loaded(o)]_vars
  BY RequestStep
<1>2. QED
  BY <1>1, CalmSceneInvariance, PTL DEF Spec, AnchorsAskedForLoaded

-----------------------------------------------------------------------------
(* What holds an object in its place. *)

Queued(o) == \E i \in DOMAIN updateQueue : updateQueue[i] = AnchorBlock(o)
Held(o)   == raycast[o] # None \/ o = trackedObject \/ atAnchor[o] \/ Queued(o)

LEMMA QueuedAfterAppend ==
  ASSUME QueueKnown, NEW block, updateQueue' = Append(updateQueue, block), NEW o
  PROVE  Queued(o) \/ block = AnchorBlock(o) => Queued(o)'
<1>1. CASE Queued(o)
  <2>1. PICK i \in 1..Len(updateQueue) : updateQueue[i] = AnchorBlock(o)
    BY <1>1 DEF Queued, QueueKnown
  <2>2. i \in DOMAIN updateQueue' /\ updateQueue'[i] = AnchorBlock(o)
    BY <2>1 DEF QueueKnown
  <2>3. QED
    BY <2>2 DEF Queued, AnchorBlock
<1>2. CASE block = AnchorBlock(o)
  <2>1. /\ Len(updateQueue) + 1 \in DOMAIN updateQueue'
        /\ updateQueue'[Len(updateQueue) + 1] = AnchorBlock(o)
    BY <1>2 DEF QueueKnown
  <2>2. QED
    BY <2>1 DEF Queued, AnchorBlock
<1>3. QED
  BY <1>1, <1>2

LEMMA QueuedAfterTail ==
  ASSUME QueueKnown, updateQueue # <<>>, updateQueue' = Tail(updateQueue), NEW o,
         Queued(o), Head(updateQueue) # AnchorBlock(o)
  PROVE  Queued(o)'
<1>1. PICK i \in 1..Len(updateQueue) : updateQueue[i] = AnchorBlock(o)
  BY DEF Queued, QueueKnown
<1>2. i # 1
  BY <1>1, HeadTailProperties DEF QueueKnown
<1>3. i - 1 \in DOMAIN updateQueue' /\ updateQueue'[i - 1] = AnchorBlock(o)
  BY <1>1, <1>2, HeadTailProperties DEF QueueKnown
<1>4. QED
  BY <1>3 DEF Queued, AnchorBlock

LEMMA AnchorsHoldStep ==
  ASSUME SceneKnown, LoaderFacts, Calm => CalmScene, AnchorsHoldObjects, [Next]_vars
  PROVE  AnchorsHoldObjects'
<1> SUFFICES ASSUME Calm', NEW p \in Objects, p \notin dragRemoved',
                    p \notin dragAbandoned', inScene'[p]
             PROVE  Held(p)'
  BY DEF AnchorsHoldObjects, Undisturbed, Held, Queued, AnchorBlock
<1>0. Calm /\ p \notin dragRemoved /\ p \notin dragAbandoned
  BY CalmBackward, MarksStay
<1>a. ObjectCalm(p) /\ (inScene[p] => Held(p))
  BY <1>0 DEF CalmScene, AnchorsHoldObjects, Undisturbed, Held, Queued
<1> USE SceneAssumption DEF nodeVars, raycastVars, gestureVars, placeVars
<1>1. CASE UNCHANGED <<inScene, raycast, trackedObject, atAnchor, updateQueue>>
  BY <1>a, <1>1 DEF Held, Queued
<1>2. ASSUME NEW block, updateQueue' = Append(updateQueue, block),
             UNCHANGED <<inScene, raycast, trackedObject, atAnchor>>
      PROVE  Held(p)'
  BY <1>a, <1>2, QueuedAfterAppend DEF Held, SceneKnown
<1>3. CASE FrameMiss \/ \E coaching, refresh \in BOOLEAN, hits \in HitSets :
                          FrameHit(coaching, refresh, hits)
  BY <1>2, <1>3 DEF FrameMiss, FrameHit, Async
<1>4. ASSUME NEW a \in AnchorIds, AnchorMoved(a) PROVE Held(p)'
  BY <1>2, <1>4 DEF AnchorMoved, Async
<1>5. CASE RunFocusBlock
  <2>1. Queued(p) => Queued(p)'
    BY <1>5, QueuedAfterTail, BlocksDiffer DEF RunFocusBlock, SceneKnown
  <2>2. UNCHANGED <<inScene, raycast, trackedObject, atAnchor>>
    BY <1>5 DEF RunFocusBlock
  <2>3. QED
    BY <1>a, <2>1, <2>2 DEF Held
<1>6. ASSUME NEW o \in Objects, RunAnchorBlock(o) PROVE Held(p)'
  <2>1. p # o /\ Queued(p) => Queued(p)'
    BY <1>6, QueuedAfterTail, BlocksDiffer DEF RunAnchorBlock, SceneKnown
  <2>2. /\ UNCHANGED <<inScene, raycast, trackedObject>>
        /\ atAnchor' = [atAnchor EXCEPT ![o] = TRUE]
    BY <1>6 DEF RunAnchorBlock
  <2>3. atAnchor'[o] /\ (p # o => atAnchor'[p] = atAnchor[p])
    BY <2>2 DEF SceneKnown, FlagsKnown
  <2>4. QED
    BY <1>a, <2>1, <2>2, <2>3 DEF Held
<1>7. ASSUME NEW a \in AnchorIds, RunUpdateBlock(a) PROVE Held(p)'
  <2>1. Queued(p) => Queued(p)'
    BY <1>7, QueuedAfterTail, BlocksDiffer DEF RunUpdateBlock, SceneKnown
  <2>2. UNCHANGED <<inScene, raycast, trackedObject>> /\ (atAnchor[p] => atAnchor'[p])
    BY <1>7 DEF RunUpdateBlock
  <2>3. QED
    BY <1>a, <2>1, <2>2 DEF Held
<1>8. ASSUME NEW removed \in SUBSET Objects, RemoveFromScene(removed),
             UNCHANGED <<trackedObject, atAnchor, updateQueue>>
      PROVE  Held(p)'
  <2>1. inScene[p] /\ raycast'[p] = raycast[p]
    BY <1>8 DEF RemoveFromScene, RaycastsWithout
  <2>2. QED
    BY <1>a, <1>8, <2>1 DEF Held, Queued
<1>9. ASSUME NEW o \in Objects, DeselectRow(o) \/ PlaceRejected(o) PROVE Held(p)'
  BY <1>1, <1>8, <1>9 DEF DeselectRow, PlaceRejected, DeselectFromScene, focusVars
<1>10. CASE RestartExperience
  BY <1>8, <1>10 DEF RestartExperience, ResetSession, focusVars
<1>11. ASSUME NEW o \in Objects, PlaceInScene(o) PROVE Held(p)'
  <2>1. L!Pending(o) /\ inScene'[p] = inScene[p]
    BY <1>11 DEF PlaceInScene, L!Place, L!Pending
  <2>2. p # o /\ inScene[p]
    BY <1>a, <2>1 DEF ObjectCalm, InUse
  <2>3. raycast'[p] = raycast[p]
    BY <1>11, <2>2 DEF PlaceInScene, TrackAfresh, SceneKnown, RaycastsKnown
  <2>4. atAnchor'[p] = atAnchor[p] /\ UNCHANGED <<trackedObject, updateQueue>>
    BY <1>11, <2>2 DEF PlaceInScene, focusVars
  <2>5. QED
    BY <1>a, <2>2, <2>3, <2>4 DEF Held, Queued
<1>12. ASSUME NEW r \in RaycastIds, RaycastResult(r) PROVE Held(p)'
  <2>1. UNCHANGED <<raycast, trackedObject>>
    BY <1>12 DEF RaycastResult
  <2>2. CASE p = tracking[r]
    <3>1. tracking[r] # None
      BY <1>12 DEF RaycastResult
    <3>2. raycast[p] = r /\ r # None
      BY <1>a, <2>2, <3>1 DEF ObjectCalm
    <3>3. QED
      BY <2>1, <3>2 DEF Held
  <2>3. CASE p # tracking[r]
    <3>1. inScene[p] /\ atAnchor'[p] = atAnchor[p]
      BY <1>12, <2>3 DEF RaycastResult, SceneKnown, FlagsKnown
    <3>2. Queued(p) => Queued(p)'
      <4>1. CASE updateQueue' = updateQueue
        BY <4>1 DEF Queued
      <4>2. CASE updateQueue' = Append(updateQueue, AnchorBlock(tracking[r]))
        BY <4>2, QueuedAfterAppend DEF SceneKnown
      <4>3. QED
        BY <1>12, <4>1, <4>2 DEF RaycastResult
    <3>3. QED
      BY <1>a, <2>1, <3>1, <3>2 DEF Held
  <2>4. QED
    BY <2>2, <2>3
<1>13. ASSUME NEW o \in Objects, SetDown(o), UNCHANGED <<inScene, atAnchor>>,
              trackedObject' \in {trackedObject, None}, trackedObject' = None => trackedObject \in {None, o}
       PROVE  Held(p)'
  <2>1. ASSUME NEW r \in FreshRaycasts, raycast' = [raycast EXCEPT ![o] = r],
               UNCHANGED updateQueue
        PROVE  Held(p)'
    BY <1>a, <1>13, <2>1 DEF Held, Queued, FreshRaycasts, SceneKnown, RaycastsKnown
  <2>2. CASE raycast' = RaycastsWithout({o}) /\ Async(AnchorBlock(o))
    <3>1. (Queued(p) \/ p = o) => Queued(p)'
      BY <2>2, QueuedAfterAppend DEF Async, SceneKnown
    <3>2. QED
      BY <1>a, <1>13, <2>2, <3>1 DEF Held, RaycastsWithout
  <2>3. QED
    BY <1>13, <2>1, <2>2 DEF SetDown
<1>14. CASE TapElsewhere
  BY <1>13, <1>14 DEF TapElsewhere, SceneKnown, GesturesKnown
<1>15. CASE PanEnded
  BY <1>13, <1>15 DEF PanEnded, SceneKnown, GesturesKnown
<1>16. ASSUME NEW o \in Objects, PanBegan(o) PROVE Held(p)'
  BY <1>a, <1>16 DEF PanBegan, Held, Queued, focusVars
<1>17. CASE PanChanged
  <2>1. /\ UNCHANGED <<inScene, trackedObject, updateQueue>>
        /\ p # trackedObject => raycast'[p] = raycast[p]
    BY <1>17 DEF PanChanged, RaycastsWithout, focusVars
  <2>2. p # trackedObject => atAnchor'[p] = atAnchor[p]
    BY <1>17 DEF PanChanged, SceneKnown, FlagsKnown
  <2>3. QED
    BY <1>a, <2>1, <2>2 DEF Held, Queued
<1>18. CASE PanCancelled
  <2>1. /\ UNCHANGED <<inScene, raycast, atAnchor, updateQueue>>
        /\ trackedObject = p => raycast[p] # None
    BY <1>18 DEF PanCancelled, focusVars
  <2>2. QED
    BY <1>a, <2>1 DEF Held, Queued
<1>19. CASE \/ ShowMenu \/ DismissOutside \/ FinishDismissal \/ RestartTimerFires
            \/ RestartSession \/ UNCHANGED vars
            \/ \E o \in Objects : SelectObject(o) \/ BackgroundLoad(o) \/ TapObject(o)
  BY <1>1, <1>19
     DEF ShowMenu, DismissOutside, FinishDismissal, RestartTimerFires, RestartSession,
         ResetSession, SelectObject, BackgroundLoad, TapObject, vars, sceneVars, focusVars
<1>20. QED
  BY <1>3, <1>4, <1>5, <1>6, <1>7, <1>9, <1>10, <1>11, <1>12, <1>14, <1>15, <1>16, <1>17,
     <1>18, <1>19 DEF Next

\* Unless a restart timer fired during a load, an object that no raycast holds and no
\* finger moves stands at its anchor, or the block that makes its anchor is queued; only
\* an object removed under a finger, or let go by a cancelled pan, is excepted.
THEOREM ObjectsAreAnchored == Spec => []AnchorsHoldObjects
<1>1. Init => AnchorsHoldObjects
  BY DEF Init, AnchorsHoldObjects
<1>2. QED
  BY <1>1, AnchorsHoldStep, CalmSceneInvariance, LoaderFactsHold, PTL DEF Spec

=============================================================================
