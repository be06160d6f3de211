----------------------------- MODULE ObjectScene -----------------------------
(***************************************************************************)
(* The AR scene around the loader: placement, tracked raycasts, anchors,   *)
(* the serial updateQueue and the tap and pan gestures.  It composes the   *)
(* actions of ObjectLoading with what they do to the scene, and decides    *)
(* the placements that ObjectLoading leaves open.                          *)
(*                                                                         *)
(* Of a position only one bit is kept: whether the object stands where the *)
(* anchor it refers to is.  Otherwise the model says who is in the scene,  *)
(* who still receives raycast results and who has an anchor.               *)
(***************************************************************************)
EXTENDS Integers, Sequences

\* As in ObjectLoading, definitions named "Mutant..." are wrong versions of the one
\* that follows them, used only to show that the properties can fail.

CONSTANTS
  Objects, HitSets, MaxTimers, MaxPlacements,  \* as in ObjectLoading
  RaycastIds,  \* bound: identities of ARTrackedRaycasts
  AnchorIds,   \* bound: identities of ARAnchors
  MaxQueue,    \* bound: length of updateQueue
  None         \* nil

ASSUME SceneAssumption ==
  /\ HitSets \subseteq SUBSET Objects
  /\ MaxTimers \in Nat /\ MaxPlacements \in Nat /\ MaxQueue \in Nat
  /\ None \notin Objects \union RaycastIds \union AnchorIds

VARIABLES
  loadedObjects, isLoading, backgroundLoads, placements, isRestartAvailable,
  restartTimers, addButtonHidden, addButtonEnabled, menu,
  objectsViewController, selectedRows, enabledRows, crashed, timerCutIn

L == INSTANCE ObjectLoading

loadingVars == <<loadedObjects, isLoading, backgroundLoads, placements,
                 isRestartAvailable, restartTimers, addButtonHidden,
                 addButtonEnabled, menu, objectsViewController, selectedRows,
                 enabledRows, crashed, timerCutIn>>

VARIABLES
  focusInitializing,  \* focusSquare.state is .initializing; written on updateQueue
  updateQueue,        \* blocks of the serial queue, oldest first
  raycastQuery,       \* per object: the query is not nil
  isLoaded,           \* per object: the reference node holds its content
  inScene,            \* per object: the node has a parent
  raycast,            \* per object: its tracked raycast, or None
  tracking,           \* per tracked raycast: the object it updates, None once stopped
  anchor,             \* per object: its anchor, or None
  sessionAnchors,     \* per anchor: the object it was made for, None if not in the session
  shouldUpdateAnchor, \* per object
  atAnchor,           \* per object: it stands where its anchor is
  selectedObject,     \* of the interaction, or None
  trackedObject,      \* of the pan in progress, or None
  dragRemoved,        \* auxiliary: the objects removed while a pan was tracking them
  dragAbandoned       \* auxiliary: those with a cancelled pan that may have moved them

focusVars   == <<focusInitializing, updateQueue>>
raycastVars == <<raycast, tracking>>
anchorVars  == <<anchor, sessionAnchors>>
placeVars   == <<shouldUpdateAnchor, atAnchor>>
dragVars    == <<dragRemoved, dragAbandoned>>
nodeVars    == <<isLoaded, inScene>>
gestureVars == <<selectedObject, trackedObject>>
sceneVars   == <<focusVars, raycastQuery, nodeVars, raycastVars, anchorVars,
                 placeVars, gestureVars, dragVars>>
vars        == <<loadingVars, sceneVars>>

FocusBlock(initializing) == <<"focus", initializing>>
AnchorBlock(o)           == <<"anchor", o>>
UpdateBlock(a)           == <<"update", a>>
Blocks == {FocusBlock(b) : b \in BOOLEAN} \union {AnchorBlock(o) : o \in Objects}
          \union {UpdateBlock(a) : a \in AnchorIds}

QueueHasRoom == Len(updateQueue) < MaxQueue
Async(block) == updateQueue' = Append(updateQueue, block)

\* Identities nobody uses or remembers.
FreshRaycasts == {r \in RaycastIds : tracking[r] = None /\ \A o \in Objects : raycast[o] # r}
FreshAnchors  == {a \in AnchorIds : sessionAnchors[a] = None /\ \A o \in Objects : anchor[o] # a}

-----------------------------------------------------------------------------
(* Helpers of several handlers. *)

\* The tracked raycasts after stopTrackedRaycast() on every object of stopped.
MutantStopForgotten(stopped) == tracking
TrackingWithout(stopped) ==
  [r \in RaycastIds |-> IF \E o \in stopped : raycast[o] = r THEN None ELSE tracking[r]]
RaycastsWithout(stopped) ==
  [o \in Objects |-> IF o \in stopped THEN None ELSE raycast[o]]

\* removeVirtualObject for every object of removed: stop its raycast, take its
\* node out of the scene, unload its content.
MutantNodeStays(removed) ==
  /\ tracking' = TrackingWithout(removed)
  /\ raycast' = RaycastsWithout(removed)
  /\ inScene' = inScene
  /\ isLoaded' = [o \in Objects |-> isLoaded[o] /\ o \notin removed]
  /\ dragRemoved' = dragRemoved \union ({trackedObject} \intersect removed)
  /\ UNCHANGED dragAbandoned
RemoveFromScene(removed) ==
  /\ tracking' = TrackingWithout(removed)
  /\ raycast' = RaycastsWithout(removed)
  /\ inScene' = [o \in Objects |-> inScene[o] /\ o \notin removed]
  /\ isLoaded' = [o \in Objects |-> isLoaded[o] /\ o \notin removed]
  /\ dragRemoved' = dragRemoved \union ({trackedObject} \intersect removed)
  /\ UNCHANGED dragAbandoned

SessionWithout(gone) ==
  [a \in AnchorIds |-> IF a \in gone THEN None ELSE sessionAnchors[a]]

\* What didDeselectObject does to the scene once the lookup has succeeded; the
\* object keeps its reference to the anchor it loses.
MutantSelectionKept == selectedObject
SelectionAfterRemoval == None
DeselectFromScene(o) ==
  /\ RemoveFromScene({o})
  /\ selectedObject' = SelectionAfterRemoval
  /\ sessionAnchors' = SessionWithout({anchor[o]})
  /\ UNCHANGED <<anchor, trackedObject>>

\* createTrackedRaycastAndSet3DPosition with the assignment to object.raycast:
\* the session may refuse the raycast, and whatever was there is overwritten.
TrackAfresh(o) ==
  \E r \in FreshRaycasts :
    /\ tracking' = [tracking EXCEPT ![r] = o]
    /\ raycast' = [raycast EXCEPT ![o] = r]

-----------------------------------------------------------------------------
(* Frames and the update queue. *)

\* updateFocusSquare and updateObjectAvailability when the centre raycast hits.
FrameHit(coaching, refresh, hits) ==
  /\ L!FrameHit(coaching, refresh, hits)
  /\ QueueHasRoom
  /\ Async(FocusBlock(FALSE))
  /\ raycastQuery' = IF refresh THEN [o \in Objects |-> o \in hits] ELSE raycastQuery
  /\ UNCHANGED <<focusInitializing, nodeVars, raycastVars, anchorVars,
                 placeVars, gestureVars, dragVars>>

\* updateFocusSquare when there is no surface or tracking is not normal.
FrameMiss ==
  /\ L!FrameMiss
  /\ QueueHasRoom
  /\ Async(FocusBlock(TRUE))
  /\ UNCHANGED <<focusInitializing, raycastQuery, nodeVars, raycastVars,
                 anchorVars, placeVars, gestureVars, dragVars>>

RunFocusBlock ==
  /\ ~crashed
  /\ updateQueue # <<>>
  /\ \E b \in BOOLEAN : Head(updateQueue) = FocusBlock(b) /\ focusInitializing' = b
  /\ updateQueue' = Tail(updateQueue)
  /\ UNCHANGED <<loadingVars, raycastQuery, nodeVars, raycastVars, anchorVars,
                 placeVars, gestureVars, dragVars>>

\* The session anchors after addOrUpdateAnchor for o with the new anchor a.
MutantOldAnchorKept(o, a) == [sessionAnchors EXCEPT ![a] = o]
SessionReanchored(o, a) == [SessionWithout({anchor[o]}) EXCEPT ![a] = o]

\* addOrUpdateAnchor on the update queue, whatever became of the object meanwhile.
RunAnchorBlock(o) ==
  /\ ~crashed
  /\ updateQueue # <<>>
  /\ Head(updateQueue) = AnchorBlock(o)
  /\ updateQueue' = Tail(updateQueue)
  /\ \E a \in FreshAnchors :
       /\ sessionAnchors' = SessionReanchored(o, a)
       /\ anchor' = [anchor EXCEPT ![o] = a]
  /\ atAnchor' = [atAnchor EXCEPT ![o] = TRUE]
  /\ UNCHANGED <<loadingVars, focusInitializing, raycastQuery, nodeVars,
                 raycastVars, shouldUpdateAnchor, gestureVars, dragVars>>

\* renderer(didUpdate:for:): ARKit has moved an anchor of the session.
AnchorMoved(a) ==
  /\ ~crashed
  /\ sessionAnchors[a] # None
  /\ QueueHasRoom
  /\ Async(UpdateBlock(a))
  /\ UNCHANGED <<loadingVars, focusInitializing, raycastQuery, nodeVars, raycastVars,
                 anchorVars, placeVars, gestureVars, dragVars>>

\* Its block on the update queue: the loaded object that has the anchor by now, if
\* any, is moved to it, even if a finger or a raycast has moved it elsewhere.
RunUpdateBlock(a) ==
  /\ ~crashed
  /\ updateQueue # <<>>
  /\ Head(updateQueue) = UpdateBlock(a)
  /\ updateQueue' = Tail(updateQueue)
  /\ atAnchor' = [o \in Objects |-> atAnchor[o] \/ (L!Loaded(o) /\ anchor[o] = a)]
  /\ UNCHANGED <<loadingVars, focusInitializing, raycastQuery, nodeVars, raycastVars,
                 anchorVars, shouldUpdateAnchor, gestureVars, dragVars>>

-----------------------------------------------------------------------------
(* The menu, loading and placement. *)

ShowMenu         == L!ShowMenu /\ UNCHANGED sceneVars
DismissOutside   == L!DismissOutside /\ UNCHANGED sceneVars
FinishDismissal  == L!FinishDismissal /\ UNCHANGED sceneVars
SelectObject(o)  == L!SelectObject(o) /\ UNCHANGED sceneVars
RestartTimerFires == L!RestartTimerFires /\ UNCHANGED sceneVars

DeselectRow(o) ==
  /\ L!DeselectRow(o)
  /\ IF L!Loaded(o)
     THEN DeselectFromScene(o)
     ELSE UNCHANGED <<nodeVars, raycastVars, anchorVars, gestureVars, dragVars>>
  /\ UNCHANGED <<focusVars, raycastQuery, placeVars>>

BackgroundLoad(o) ==
  /\ L!BackgroundLoad(o)
  /\ isLoaded' = [isLoaded EXCEPT ![o] = TRUE]
  /\ UNCHANGED <<focusVars, raycastQuery, inScene, raycastVars, anchorVars,
                 placeVars, gestureVars, dragVars>>

\* The guard of placeVirtualObject, read on the main queue.
CanPlace(o) == ~focusInitializing /\ raycastQuery[o]

\* placeVirtualObject past its guard.
PlaceInScene(o) ==
  /\ L!Place(o, TRUE)
  /\ CanPlace(o)
  /\ \/ TrackAfresh(o)
     \/ raycast' = [raycast EXCEPT ![o] = None] /\ tracking' = tracking
  /\ selectedObject' = o
  /\ atAnchor' = [atAnchor EXCEPT ![o] = FALSE]
  /\ UNCHANGED <<focusVars, raycastQuery, nodeVars, anchorVars,
                 shouldUpdateAnchor, trackedObject, dragVars>>

\* placeVirtualObject when its guard fails.
PlaceRejected(o) ==
  /\ L!Place(o, FALSE)
  /\ ~CanPlace(o)
  /\ IF objectsViewController /\ L!Loaded(o)
     THEN DeselectFromScene(o)
     ELSE UNCHANGED <<nodeVars, raycastVars, anchorVars, gestureVars, dragVars>>
  /\ UNCHANGED <<focusVars, raycastQuery, placeVars>>

\* The handler of a tracked raycast: an object that is not in the scene is added,
\* and its anchor is renewed on the update queue if that is due.
RaycastResult(r) ==
  LET o   == tracking[r]
      due == ~inScene[o] \/ shouldUpdateAnchor[o]
  IN  /\ ~crashed
      /\ o # None
      /\ due => QueueHasRoom
      /\ inScene' = [inScene EXCEPT ![o] = TRUE]
      /\ shouldUpdateAnchor' = [shouldUpdateAnchor EXCEPT ![o] = FALSE]
      /\ atAnchor' = [atAnchor EXCEPT ![o] = FALSE]
      /\ updateQueue' = IF due THEN Append(updateQueue, AnchorBlock(o)) ELSE updateQueue
      /\ UNCHANGED <<loadingVars, focusInitializing, raycastQuery, isLoaded,
                     raycastVars, anchorVars, gestureVars, dragVars>>

-----------------------------------------------------------------------------
(* Restart and reset. *)

\* resetTracking: the session runs anew without its anchors; raycasts, nodes and
\* the object tracked by a pan stay.
ResetSession ==
  /\ selectedObject' = None
  /\ sessionAnchors' = [a \in AnchorIds |-> None]
  /\ UNCHANGED <<anchor, trackedObject>>

RestartExperience ==
  /\ L!RestartExperience
  /\ RemoveFromScene({o \in Objects : L!Loaded(o)})
  /\ ResetSession
  /\ UNCHANGED <<focusVars, raycastQuery, placeVars>>

\* "Restart Session" on the error alert: resetTracking alone.
RestartSession ==
  /\ ~crashed
  /\ ResetSession
  /\ UNCHANGED <<loadingVars, focusVars, raycastQuery, nodeVars, raycastVars,
                 placeVars, dragVars>>

-----------------------------------------------------------------------------
(* Gestures. *)

\* A hit test finds an object only where it has content in the scene; touches do
\* not reach the scene view while the popover is up.
Touchable(o) == menu = "closed" /\ inScene[o] /\ isLoaded[o]

\* didTap on an object.
TapObject(o) ==
  /\ ~crashed
  /\ Touchable(o)
  /\ selectedObject' = o
  /\ UNCHANGED <<loadingVars, focusVars, raycastQuery, nodeVars, raycastVars,
                 anchorVars, placeVars, trackedObject, dragVars>>

\* setDown: a new tracked raycast from where the object is, or failing that a new
\* anchor there.
MutantSetDownUnanchored(o) ==
  /\ UNCHANGED updateQueue
  /\ \/ /\ \E r \in FreshRaycasts :
             /\ tracking' = [TrackingWithout({o}) EXCEPT ![r] = o]
             /\ raycast' = [raycast EXCEPT ![o] = r]
        /\ shouldUpdateAnchor' = [shouldUpdateAnchor EXCEPT ![o] = TRUE]
     \/ /\ tracking' = TrackingWithout({o})
        /\ raycast' = RaycastsWithout({o})
        /\ shouldUpdateAnchor' = [shouldUpdateAnchor EXCEPT ![o] = FALSE]
SetDown(o) ==
  \/ /\ \E r \in FreshRaycasts :
          /\ tracking' = [TrackingWithout({o}) EXCEPT ![r] = o]
          /\ raycast' = [raycast EXCEPT ![o] = r]
     /\ shouldUpdateAnchor' = [shouldUpdateAnchor EXCEPT ![o] = TRUE]
     /\ UNCHANGED updateQueue
  \/ /\ QueueHasRoom
     /\ tracking' = TrackingWithout({o})
     /\ raycast' = RaycastsWithout({o})
     /\ shouldUpdateAnchor' = [shouldUpdateAnchor EXCEPT ![o] = FALSE]
     /\ Async(AnchorBlock(o))

\* didTap beside every object moves the selected one.
TapElsewhere ==
  /\ ~crashed
  /\ menu = "closed"
  /\ selectedObject # None
  /\ SetDown(selectedObject)
  /\ UNCHANGED <<loadingVars, focusInitializing, raycastQuery, nodeVars,
                 anchorVars, atAnchor, gestureVars, dragVars>>

\* didPan .began on an object: tracking an object also selects it.
PanBegan(o) ==
  /\ ~crashed
  /\ trackedObject = None
  /\ Touchable(o)
  /\ trackedObject' = o
  /\ selectedObject' = o
  /\ UNCHANGED <<loadingVars, focusVars, raycastQuery, nodeVars, raycastVars,
                 anchorVars, placeVars, dragVars>>

\* didPan .changed beyond the threshold: translate, whose one-shot raycast may find
\* no place.  A pan that has begun goes on whatever other fingers do, so neither
\* this nor the next two look at the menu.
PanChanged ==
  /\ ~crashed
  /\ trackedObject # None
  /\ tracking' = TrackingWithout({trackedObject})
  /\ raycast' = RaycastsWithout({trackedObject})
  /\ \/ atAnchor' = [atAnchor EXCEPT ![trackedObject] = FALSE]
     \/ atAnchor' = atAnchor
  /\ UNCHANGED <<loadingVars, focusVars, raycastQuery, nodeVars, anchorVars,
                 shouldUpdateAnchor, gestureVars, dragVars>>

PanEnded ==
  /\ ~crashed
  /\ trackedObject # None
  /\ SetDown(trackedObject)
  /\ trackedObject' = None
  /\ UNCHANGED <<loadingVars, focusInitializing, raycastQuery, nodeVars,
                 anchorVars, atAnchor, selectedObject, dragVars>>

\* didPan .cancelled or .failed.
PanCancelled ==
  /\ ~crashed
  /\ trackedObject # None
  /\ trackedObject' = None
  /\ dragAbandoned' = dragAbandoned \union {o \in {trackedObject} : raycast[o] = None}
  /\ UNCHANGED <<loadingVars, focusVars, raycastQuery, nodeVars, raycastVars,
                 anchorVars, placeVars, selectedObject, dragRemoved>>

-----------------------------------------------------------------------------
Init ==
  /\ L!Init
  /\ focusInitializing = TRUE
  /\ updateQueue = <<>>
  /\ raycastQuery = [o \in Objects |-> FALSE]
  /\ isLoaded = [o \in Objects |-> FALSE]
  /\ inScene = [o \in Objects |-> FALSE]
  /\ raycast = [o \in Objects |-> None]
  /\ tracking = [r \in RaycastIds |-> None]
  /\ anchor = [o \in Objects |-> None]
  /\ sessionAnchors = [a \in AnchorIds |-> None]
  /\ shouldUpdateAnchor = [o \in Objects |-> FALSE]
  /\ atAnchor = [o \in Objects |-> FALSE]
  /\ selectedObject = None
  /\ trackedObject = None
  /\ dragRemoved = {}
  /\ dragAbandoned = {}

Next ==
  \/ \E coaching, refresh \in BOOLEAN, hits \in HitSets :
       FrameHit(coaching, refresh, hits)
  \/ FrameMiss
  \/ RunFocusBlock
  \/ \E o \in Objects : RunAnchorBlock(o)
  \/ \E a \in AnchorIds : AnchorMoved(a)
  \/ \E a \in AnchorIds : RunUpdateBlock(a)
  \/ ShowMenu
  \/ DismissOutside
  \/ FinishDismissal
  \/ \E o \in Objects : SelectObject(o)
  \/ \E o \in Objects : DeselectRow(o)
  \/ \E o \in Objects : BackgroundLoad(o)
  \/ \E o \in Objects : PlaceInScene(o)
  \/ \E o \in Objects : PlaceRejected(o)
  \/ \E r \in RaycastIds : RaycastResult(r)
  \/ RestartExperience
  \/ RestartTimerFires
  \/ RestartSession
  \/ \E o \in Objects : TapObject(o)
  \/ TapElsewhere
  \/ \E o \in Objects : PanBegan(o)
  \/ PanChanged
  \/ PanEnded
  \/ PanCancelled

Spec == Init /\ [][Next]_vars

-----------------------------------------------------------------------------
(* Properties. *)

\* Raycasts, anchors and gestures refer to objects, the update queue holds the three
\* kinds of block that are sent to it, and the loader is as ObjectLoading says.
TypeOK ==
  /\ L!TypeOK
  /\ focusInitializing \in BOOLEAN
  /\ updateQueue \in Seq(Blocks)
  /\ raycastQuery \in [Objects -> BOOLEAN]
  /\ isLoaded \in [Objects -> BOOLEAN]
  /\ inScene \in [Objects -> BOOLEAN]
  /\ raycast \in [Objects -> RaycastIds \union {None}]
  /\ tracking \in [RaycastIds -> Objects \union {None}]
  /\ anchor \in [Objects -> AnchorIds \union {None}]
  /\ sessionAnchors \in [AnchorIds -> Objects \union {None}]
  /\ shouldUpdateAnchor \in [Objects -> BOOLEAN]
  /\ atAnchor \in [Objects -> BOOLEAN]
  /\ selectedObject \in Objects \union {None}
  /\ trackedObject \in Objects \union {None}
  /\ dragRemoved \in SUBSET Objects
  /\ dragAbandoned \in SUBSET Objects

\* The session never holds two anchors for one object, nor one that the object
\* has lost track of, although anchors are added on the update queue and removed
\* on the main queue and by a session reset.
OneAnchorPerObject ==
  \A a \in AnchorIds : sessionAnchors[a] # None => anchor[sessionAnchors[a]] = a

\* No restart timer has fired during a load.
Calm == ~timerCutIn

\* Nor was this object removed under a finger that was dragging it.
Undisturbed(o) == Calm /\ o \notin dragRemoved

\* Only loaded objects are in the scene: what the restart or the menu removes stays
\* removed, whatever raycast results, taps and pans come later.  An object removed under
\* a finger may come back, but it takes no other with it.
SceneShowsLoaded ==
  \A o \in Objects : Undisturbed(o) /\ inScene[o] => L!Loaded(o)

\* An active tracked raycast is the current one of a loaded object: none leaks when an
\* object is moved, removed or placed again, unless that object was dragged meanwhile.
RaycastsAreOwned ==
  \A r \in RaycastIds : \A o \in Objects : tracking[r] = o /\ Undisturbed(o) =>
    L!Loaded(o) /\ raycast[o] = r

\* The objects the gestures act upon are loaded, so that a tap never moves an object that
\* was removed.  A pan may, if the object was removed under it; even then no later tap
\* or pan gets hold of the object before it is loaded again.
GesturesActOnLoaded ==
  Calm =>
    /\ selectedObject # None => L!Loaded(selectedObject)
    /\ trackedObject # None => L!Loaded(trackedObject) \/ trackedObject \in dragRemoved

\* The block that adds an anchor may run after its object was removed, but none is asked
\* for after that: no raycast result, tap or end of a pan queues one for an object that
\* is not loaded, so that what comes late is only what was under way.
AnchorsAskedForLoaded ==
  [][\A o \in Objects :
       updateQueue' = Append(updateQueue, AnchorBlock(o)) /\ Undisturbed(o)
         => L!Loaded(o)]_vars

\* An object that no finger moves and no tracked raycast holds stands at its anchor, or
\* the block that will make the anchor of where it stands is on its way: a set-down, a
\* rejected raycast or a result that came before the anchor never leaves the two apart
\* for good.  A cancelled pan does, for the object it let go.
AnchorsHoldObjects ==
  \A o \in Objects :
    Undisturbed(o) /\ o \notin dragAbandoned
      /\ inScene[o] /\ raycast[o] = None /\ o # trackedObject =>
        atAnchor[o] \/ \E i \in DOMAIN updateQueue : updateQueue[i] = AnchorBlock(o)

=============================================================================
