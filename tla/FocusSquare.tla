----------------------------- MODULE FocusSquare -----------------------------
(***************************************************************************)
(* The focus square of the AR application: a square that is open while     *)
(* there is no plane under it, closes on a plane, flashes on a new one,    *)
(* and is hidden while an object is in view.                               *)
(*                                                                         *)
(* Three threads work on it.  The main queue asks for hiding once a frame  *)
(* and schedules a block with what the frame's raycast has hit; the update *)
(* queue runs these blocks in order; animations complete on the main       *)
(* thread, and fades end with the render loop.  A request that comes       *)
(* during an animation is dropped, never queued.                           *)
(*                                                                         *)
(* Definitions named "Mutant..." are wrong versions of the one that        *)
(* follows them, used only to show that the properties can fail.           *)
(***************************************************************************)
EXTENDS Naturals, Sequences

CONSTANTS
  Planes,      \* the anchors of planes
  MaxBlocks,   \* bound: blocks on the update queue at a time
  UpdateEvery  \* 30: the frames between two updates of the orientation

ASSUME FocusAssumption ==
  /\ Planes \intersect {"nothing", "estimate"} = {}
  /\ MaxBlocks \in Nat \ {0}
  /\ UpdateEvery \in Nat \ {0}

VARIABLES
  surface,   \* what a raycast hits now: nothing, an estimate without anchor, a plane
  inView,    \* an object is in view, or the coaching overlay is active
  blocks,    \* the update queue: what the raycasts of past frames have hit
  state,     \* FocusSquare.state, "nothing" for .initializing
  isOpen,
  isAnimating,
  transactions, \* the transactions whose completion blocks have yet to run
  segmentsOpen, \* the segments have the length of open ones
  offset,    \* how many times they are displaced by the offset of open ones
  pulse,     \* the action "pulse" runs
  anchorsOfVisitedPlanes,
  flashes,   \* auxiliary: how often the square has flashed for a plane
  fades,     \* the actions under way among "hide" and "unhide"
  visible,   \* the opacity that the last finished fade has left
  isChangingOrientation, isPointingDownwards, counterToNextOrientationUpdate

sceneVars       == <<surface, inView>>
squareVars      == <<isOpen, isAnimating, transactions, segmentsOpen, offset, pulse>>
planeVars       == <<anchorsOfVisitedPlanes, flashes>>
fadeVars        == <<fades, visible>>
orientationVars == <<isChangingOrientation, isPointingDownwards,
                     counterToNextOrientationUpdate>>
vars == <<sceneVars, blocks, state, squareVars, planeVars, fadeVars, orientationVars>>

Surfaces == {"nothing", "estimate"} \union Planes

-----------------------------------------------------------------------------
(* Hiding. *)

\* hide and unhide: an action that runs already is not started anew.
Fade(key) == fades' = fades \union {key} /\ UNCHANGED visible

\* The fades take the same time; with threads of their own they may end in any order.
FadeEnds(key) ==
  /\ key \in fades
  /\ fades' = fades \ {key}
  /\ visible' = (key = "unhide")
  /\ UNCHANGED <<sceneVars, blocks, state, squareVars, planeVars, orientationVars>>

-----------------------------------------------------------------------------
(* Opening and closing. *)

\* Segment.open moves a segment by an offset each time it is called; close takes the
\* offset back if the segment has the length of an open one.
OpenSegments == segmentsOpen' = TRUE /\ offset' = offset + 1
CloseSegments ==
  /\ segmentsOpen' = FALSE
  /\ offset' = IF segmentsOpen THEN offset - 1 ELSE offset

\* performOpenAnimation.
MutantMayOpen == ~isOpen
MayOpen == ~isOpen /\ ~isAnimating
PerformOpenAnimation ==
  \/ /\ MayOpen
     /\ isOpen' = TRUE
     /\ isAnimating' = TRUE
     /\ transactions' = transactions \union {"opening"}
     /\ OpenSegments
     /\ UNCHANGED pulse
  \/ ~MayOpen /\ UNCHANGED squareVars

\* performCloseAnimation(flash:): the segments stay as they are for the first half.
MutantMayClose == isOpen
MayClose == isOpen /\ ~isAnimating
PerformCloseAnimation(plane, flash) ==
  \/ /\ MayClose
     /\ isOpen' = FALSE
     /\ isAnimating' = TRUE
     /\ transactions' = transactions \union {"closing"}
     /\ pulse' = FALSE
     /\ flashes' = IF flash THEN [flashes EXCEPT ![plane] = @ + 1] ELSE flashes
     /\ UNCHANGED <<segmentsOpen, offset>>
  \/ ~MayClose /\ UNCHANGED <<squareVars, flashes>>

\* The completion blocks; that of the first half of closing begins the second one.
OpeningEnds ==
  /\ "opening" \in transactions
  /\ transactions' = transactions \ {"opening"}
  /\ pulse' = TRUE
  /\ isAnimating' = FALSE
  /\ UNCHANGED <<isOpen, segmentsOpen, offset>>

FirstHalfEnds ==
  /\ "closing" \in transactions
  /\ transactions' = (transactions \ {"closing"}) \union {"closingSegments"}
  /\ CloseSegments
  /\ UNCHANGED <<isOpen, isAnimating, pulse>>

ClosingEnds ==
  /\ "closingSegments" \in transactions
  /\ transactions' = transactions \ {"closingSegments"}
  /\ isAnimating' = FALSE
  /\ UNCHANGED <<isOpen, segmentsOpen, offset, pulse>>

AnimationStep ==
  /\ OpeningEnds \/ FirstHalfEnds \/ ClosingEnds
  /\ UNCHANGED <<sceneVars, blocks, state, planeVars, fadeVars, orientationVars>>

-----------------------------------------------------------------------------
(* The orientation. *)

\* updateTransform: a camera that points down turns the square by an animation of its
\* own; otherwise the orientation follows the raycast, but not with every frame.
MutantUpdateTransform(pointsDown) ==
  /\ isChangingOrientation' = (isChangingOrientation \/ pointsDown)
  /\ LET due == counterToNextOrientationUpdate = UpdateEvery \/ isPointingDownwards
     IN  /\ isPointingDownwards' = (isPointingDownwards /\ pointsDown)
         /\ counterToNextOrientationUpdate' =
              IF due /\ ~pointsDown THEN 1 ELSE counterToNextOrientationUpdate + 1
UpdateTransform(pointsDown) ==
  \/ /\ pointsDown
     /\ isChangingOrientation' = TRUE
     /\ UNCHANGED <<isPointingDownwards, counterToNextOrientationUpdate>>
  \/ /\ ~pointsDown
     /\ LET due == counterToNextOrientationUpdate = UpdateEvery \/ isPointingDownwards
        IN  counterToNextOrientationUpdate' =
              (IF due THEN 0 ELSE counterToNextOrientationUpdate) + 1
     /\ isPointingDownwards' = FALSE
     /\ UNCHANGED isChangingOrientation

\* The completion block of the turn: the camera may point elsewhere by now.
TurnEnds ==
  /\ isChangingOrientation
  /\ isChangingOrientation' = FALSE
  /\ isPointingDownwards' = TRUE
  /\ UNCHANGED <<sceneVars, blocks, state, squareVars, planeVars, fadeVars,
                 counterToNextOrientationUpdate>>

-----------------------------------------------------------------------------
(* The update queue. *)

\* displayAsBillboard.
DisplayAsBillboard ==
  /\ Fade("unhide")
  /\ PerformOpenAnimation
  /\ UNCHANGED <<planeVars, orientationVars>>

DisplayAsOpen(pointsDown) ==
  /\ PerformOpenAnimation
  /\ UpdateTransform(pointsDown)
  /\ UNCHANGED <<planeVars, fadeVars>>

\* displayAsClosed: the plane counts as visited whether or not the square has closed.
MutantIsNew(plane) == state # plane
IsNew(plane) == plane \notin anchorsOfVisitedPlanes
DisplayAsClosed(plane, pointsDown) ==
  /\ PerformCloseAnimation(plane, IsNew(plane))
  /\ anchorsOfVisitedPlanes' = anchorsOfVisitedPlanes \union {plane}
  /\ UpdateTransform(pointsDown)
  /\ UNCHANGED fadeVars

\* The guard of state.didSet: every raycast result is a state of its own, so that only
\* .initializing can be the state that there was.
MutantDiffersAlways(hit) == TRUE
MutantDiffersByPlace(hit) == hit # state
Differs(hit) == hit # "nothing" \/ state # "nothing"

RunBlock(pointsDown) ==
  /\ blocks # <<>>
  /\ blocks' = Tail(blocks)
  /\ state' = Head(blocks)
  /\ LET hit == Head(blocks)
     IN  \/ Differs(hit) /\ hit = "nothing" /\ DisplayAsBillboard
         \/ Differs(hit) /\ hit = "estimate" /\ DisplayAsOpen(pointsDown)
         \/ Differs(hit) /\ hit \in Planes /\ DisplayAsClosed(hit, pointsDown)
         \/ /\ ~Differs(hit)
            /\ UNCHANGED <<squareVars, planeVars, fadeVars, orientationVars>>
  /\ UNCHANGED sceneVars

-----------------------------------------------------------------------------
(* The scene and its frames. *)

\* updateFocusSquare, once a frame on the main queue.
FadeOfFrame == IF inView THEN Fade("hide") ELSE Fade("unhide")
Frame ==
  /\ Len(blocks) < MaxBlocks
  /\ FadeOfFrame
  /\ blocks' = Append(blocks, surface)
  /\ UNCHANGED <<sceneVars, state, squareVars, planeVars, orientationVars>>

\* The camera and the objects move.
SceneChanges ==
  /\ surface' \in Surfaces
  /\ inView' \in BOOLEAN
  /\ UNCHANGED <<blocks, state, squareVars, planeVars, fadeVars, orientationVars>>

\* init displays the square as a billboard.
Init ==
  /\ surface = "nothing"
  /\ inView = FALSE
  /\ blocks = <<>>
  /\ state = "nothing"
  /\ isOpen = TRUE
  /\ isAnimating = TRUE
  /\ transactions = {"opening"}
  /\ segmentsOpen = TRUE
  /\ offset = 1
  /\ pulse = FALSE
  /\ anchorsOfVisitedPlanes = {}
  /\ flashes = [p \in Planes |-> 0]
  /\ fades = {"unhide"}
  /\ visible = FALSE
  /\ isChangingOrientation = FALSE
  /\ isPointingDownwards = TRUE
  /\ counterToNextOrientationUpdate = 0

Next ==
  \/ \E key \in {"hide", "unhide"} : FadeEnds(key)
  \/ AnimationStep
  \/ TurnEnds
  \/ \E pointsDown \in BOOLEAN : RunBlock(pointsDown)
  \/ Frame
  \/ SceneChanges

\* The render loop, the update queue and the animations go on while the application
\* is active; nothing makes the camera or the objects move, or stay.
Fairness ==
  /\ \A key \in {"hide", "unhide"} : WF_vars(FadeEnds(key))
  /\ WF_vars(AnimationStep)
  /\ WF_vars(TurnEnds)
  /\ WF_vars(\E pointsDown \in BOOLEAN : RunBlock(pointsDown))
  /\ WF_vars(Frame)

Spec == Init /\ [][Next]_vars /\ Fairness

-----------------------------------------------------------------------------
(* Properties. *)

\* The variables have their types; the counter, which is compared by equality alone,
\* never passes the value that it is compared with.
TypeOK ==
  /\ surface \in Surfaces
  /\ inView \in BOOLEAN
  /\ blocks \in Seq(Surfaces)
  /\ state \in Surfaces
  /\ isOpen \in BOOLEAN
  /\ isAnimating \in BOOLEAN
  /\ transactions \in SUBSET {"opening", "closing", "closingSegments"}
  /\ segmentsOpen \in BOOLEAN
  /\ offset \in Nat
  /\ pulse \in BOOLEAN
  /\ anchorsOfVisitedPlanes \in SUBSET Planes
  /\ flashes \in [Planes -> Nat]
  /\ fades \in SUBSET {"hide", "unhide"}
  /\ visible \in BOOLEAN
  /\ isChangingOrientation \in BOOLEAN
  /\ isPointingDownwards \in BOOLEAN
  /\ counterToNextOrientationUpdate \in 0..UpdateEvery

\* Opening and closing, which displace the segments by relative amounts from different
\* threads, never let them drift: open segments are displaced once and closed ones are
\* not, however requests and completions interleave; and outside an animation the
\* segments are disconnected exactly when isOpen says so.
SegmentsNeverDrift ==
  /\ offset = IF segmentsOpen THEN 1 ELSE 0
  /\ ~isAnimating => (segmentsOpen <=> isOpen)

\* The square pulses exactly while it rests open: no pulse outlives the opening it
\* belongs to, and none is missing.
PulsesWhileOpen == pulse <=> isOpen /\ ~isAnimating

\* The square flashes at most once for a plane, and only for one that it has visited,
\* however often it comes back to it.
FlashesOnce ==
  \A p \in Planes : flashes[p] <= (IF p \in anchorsOfVisitedPlanes THEN 1 ELSE 0)

\* Although requests that come during an animation are dropped, a square that stays on a
\* plane ends up closed, and one that stays on an estimate ends up open: every frame asks
\* again.
SettlesOnSurface ==
  /\ \A p \in Planes : <>[](surface = p) => <>[](~isOpen /\ ~isAnimating)
  /\ <>[](surface = "estimate") => <>[](isOpen /\ ~isAnimating)

\* With an object in view that stays, on any surface that stays, the square ends up
\* hidden, although a billboard unhides itself whatever is in view.
HiddenBehindObjects ==
  \A s \in Surfaces : <>[](inView /\ surface = s) => <>[]~visible

=============================================================================
