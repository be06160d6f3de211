-------------------------- MODULE FocusSquareProofs --------------------------
(***************************************************************************)
(* Safety of FocusSquare for every set of planes, every length of the      *)
(* update queue and every interval between updates of the orientation.     *)
(* What settles in the end is left to TLC.                                 *)
(***************************************************************************)
EXTENDS FocusSquare, SequenceTheorems, TLAPS

SquareTypes ==
  /\ isOpen \in BOOLEAN
  /\ isAnimating \in BOOLEAN
  /\ segmentsOpen \in BOOLEAN
  /\ pulse \in BOOLEAN

\* At most one transaction is under way, isAnimating says whether there is one, and it
\* knows what became of the flag and of the segments since it began.
OneTransaction ==
  \/ transactions = {} /\ ~isAnimating /\ (segmentsOpen <=> isOpen)
  \/ transactions = {"opening"} /\ isAnimating /\ isOpen /\ segmentsOpen
  \/ transactions = {"closing"} /\ isAnimating /\ ~isOpen /\ segmentsOpen
  \/ transactions = {"closingSegments"} /\ isAnimating /\ ~isOpen /\ ~segmentsOpen

SquareInv ==
  /\ SquareTypes
  /\ OneTransaction
  /\ offset = IF segmentsOpen THEN 1 ELSE 0
  /\ pulse <=> isOpen /\ ~isAnimating

-----------------------------------------------------------------------------
(* The square: a request finds it at rest or is dropped, and a completion  *)
(* block finds it as the transaction has left it.                          *)

LEMMA OpenStep ==
  ASSUME SquareInv, PerformOpenAnimation
  PROVE  SquareInv'
<1> USE DEF SquareInv, SquareTypes, OneTransaction
<1>1. CASE MayOpen
  <2>1. /\ transactions = {} /\ ~segmentsOpen /\ ~pulse /\ offset = 0
    BY <1>1 DEF MayOpen
  <2>2. isOpen' = TRUE /\ isAnimating' = TRUE /\ segmentsOpen' = TRUE /\ pulse' = pulse
    BY <1>1 DEF PerformOpenAnimation, OpenSegments
  <2>3. transactions' = {"opening"} /\ offset' = 1
    BY <1>1, <2>1 DEF PerformOpenAnimation, OpenSegments
  <2> QED
    BY <2>1, <2>2, <2>3
<1>2. CASE ~MayOpen
  BY <1>2 DEF PerformOpenAnimation, squareVars
<1> QED
  BY <1>1, <1>2

LEMMA CloseStep ==
  ASSUME SquareInv, NEW plane, NEW flash, PerformCloseAnimation(plane, flash)
  PROVE  SquareInv'
<1> USE DEF SquareInv, SquareTypes, OneTransaction
<1>1. CASE MayClose
  <2>1. transactions = {} /\ segmentsOpen
    BY <1>1 DEF MayClose
  <2>2. isOpen' = FALSE /\ isAnimating' = TRUE /\ pulse' = FALSE
    BY <1>1 DEF PerformCloseAnimation
  <2>3. transactions' = {"closing"} /\ segmentsOpen' = segmentsOpen /\ offset' = offset
    BY <1>1, <2>1 DEF PerformCloseAnimation
  <2> QED
    BY <2>1, <2>2, <2>3
<1>2. CASE ~MayClose
  BY <1>2 DEF PerformCloseAnimation, squareVars
<1> QED
  BY <1>1, <1>2

LEMMA CompletionStep ==
  ASSUME SquareInv, AnimationStep
  PROVE  SquareInv'
<1> USE DEF SquareInv, SquareTypes, OneTransaction
<1>1. CASE OpeningEnds
  <2>1. transactions = {"opening"} /\ isOpen /\ segmentsOpen
    BY <1>1 DEF OpeningEnds
  <2>2. transactions' = {} /\ isAnimating' = FALSE /\ pulse' = TRUE
    BY <1>1, <2>1 DEF OpeningEnds
  <2>3. isOpen' = isOpen /\ segmentsOpen' = segmentsOpen /\ offset' = offset
    BY <1>1 DEF OpeningEnds
  <2> QED
    BY <2>1, <2>2, <2>3
<1>2. CASE FirstHalfEnds
  <2>1. transactions = {"closing"} /\ isAnimating /\ ~isOpen /\ segmentsOpen
    BY <1>2 DEF FirstHalfEnds
  <2>2. transactions' = {"closingSegments"} /\ segmentsOpen' = FALSE /\ offset' = 0
    BY <1>2, <2>1 DEF FirstHalfEnds, CloseSegments
  <2>3. isOpen' = isOpen /\ isAnimating' = isAnimating /\ pulse' = pulse
    BY <1>2 DEF FirstHalfEnds
  <2> QED
    BY <2>1, <2>2, <2>3
<1>3. CASE ClosingEnds
  <2>1. transactions = {"closingSegments"} /\ ~isOpen /\ ~segmentsOpen
    BY <1>3 DEF ClosingEnds
  <2>2. transactions' = {} /\ isAnimating' = FALSE
    BY <1>3, <2>1 DEF ClosingEnds
  <2>3. UNCHANGED <<isOpen, segmentsOpen, offset, pulse>>
    BY <1>3 DEF ClosingEnds
  <2> QED
    BY <2>1, <2>2, <2>3
<1> QED
  BY <1>1, <1>2, <1>3 DEF AnimationStep

LEMMA SquareStep ==
  ASSUME SquareInv, [Next]_vars
  PROVE  SquareInv'
<1>1. CASE UNCHANGED squareVars
  BY <1>1 DEF squareVars, SquareInv, SquareTypes, OneTransaction
<1>2. CASE AnimationStep
  BY <1>2, CompletionStep
<1>3. ASSUME NEW pointsDown \in BOOLEAN, RunBlock(pointsDown) PROVE SquareInv'
  BY <1>1, <1>3, OpenStep, CloseStep
     DEF RunBlock, DisplayAsBillboard, DisplayAsOpen, DisplayAsClosed
<1>4. CASE \/ \E key \in {"hide", "unhide"} : FadeEnds(key)
           \/ TurnEnds \/ Frame \/ SceneChanges \/ UNCHANGED vars
  BY <1>1, <1>4 DEF FadeEnds, TurnEnds, Frame, SceneChanges, vars
<1> QED
  BY <1>2, <1>3, <1>4 DEF Next

LEMMA SquareInvariance == Spec => []SquareInv
<1>1. Init => SquareInv
  BY DEF Init, SquareInv, SquareTypes, OneTransaction
<1> QED
  BY <1>1, SquareStep, PTL DEF Spec

\* However requests and completions interleave, the segments are displaced once while
\* they are open and not at all while they are closed, and they rest as isOpen says.
THEOREM SegmentsStayInPlace == Spec => []SegmentsNeverDrift
<1>1. SquareInv => SegmentsNeverDrift
  BY DEF SquareInv, SquareTypes, OneTransaction, SegmentsNeverDrift
<1> QED
  BY <1>1, SquareInvariance, PTL

\* The pulse belongs to the square at rest and open.
THEOREM PulseIsRight == Spec => []PulsesWhileOpen
<1>1. SquareInv => PulsesWhileOpen
  BY DEF SquareInv, PulsesWhileOpen
<1> QED
  BY <1>1, SquareInvariance, PTL

-----------------------------------------------------------------------------
(* Flashes and types. *)

FlashInv ==
  /\ anchorsOfVisitedPlanes \in SUBSET Planes
  /\ flashes \in [Planes -> Nat]
  /\ FlashesOnce

LEMMA FlashStep ==
  ASSUME FlashInv, [Next]_vars
  PROVE  FlashInv'
<1> USE DEF FlashInv, FlashesOnce
<1>1. CASE UNCHANGED planeVars
  BY <1>1 DEF planeVars
<1>2. ASSUME NEW plane \in Planes, NEW pointsDown \in BOOLEAN,
             DisplayAsClosed(plane, pointsDown)
      PROVE  FlashInv'
  <2>1. anchorsOfVisitedPlanes' = anchorsOfVisitedPlanes \union {plane}
    BY <1>2 DEF DisplayAsClosed
  <2>2. \/ flashes' = flashes
        \/ /\ plane \notin anchorsOfVisitedPlanes
           /\ flashes' = [flashes EXCEPT ![plane] = @ + 1]
    BY <1>2 DEF DisplayAsClosed, PerformCloseAnimation, IsNew
  <2>3. CASE flashes' = flashes
    BY <2>1, <2>3
  <2>4. CASE /\ plane \notin anchorsOfVisitedPlanes
             /\ flashes' = [flashes EXCEPT ![plane] = @ + 1]
    <3>1. flashes[plane] = 0
      BY <2>4
    <3> QED
      BY <2>1, <2>4, <3>1
  <2> QED
    BY <2>2, <2>3, <2>4
<1>3. ASSUME NEW pointsDown \in BOOLEAN, RunBlock(pointsDown) PROVE FlashInv'
  BY <1>1, <1>2, <1>3 DEF RunBlock, DisplayAsBillboard, DisplayAsOpen
<1>4. CASE \/ \E key \in {"hide", "unhide"} : FadeEnds(key)
           \/ AnimationStep \/ TurnEnds \/ Frame \/ SceneChanges \/ UNCHANGED vars
  BY <1>1, <1>4 DEF FadeEnds, AnimationStep, TurnEnds, Frame, SceneChanges, vars
<1> QED
  BY <1>3, <1>4 DEF Next

LEMMA FlashInvariance == Spec => []FlashInv
<1>1. Init => FlashInv
  BY DEF Init, FlashInv, FlashesOnce
<1> QED
  BY <1>1, FlashStep, PTL DEF Spec

\* A plane is welcomed by one flash at most.
THEOREM PlanesFlashOnce == Spec => []FlashesOnce
<1>1. FlashInv => FlashesOnce
  BY DEF FlashInv
<1> QED
  BY <1>1, FlashInvariance, PTL

\* The rest of the types.
QueueTypes ==
  /\ surface \in Surfaces
  /\ inView \in BOOLEAN
  /\ blocks \in Seq(Surfaces)
  /\ state \in Surfaces

FadeTypes == fades \in SUBSET {"hide", "unhide"} /\ visible \in BOOLEAN

OrientationTypes ==
  /\ isChangingOrientation \in BOOLEAN
  /\ isPointingDownwards \in BOOLEAN
  /\ counterToNextOrientationUpdate \in 0..UpdateEvery

LEMMA QueueStep ==
  ASSUME QueueTypes, [Next]_vars
  PROVE  QueueTypes'
<1> USE DEF QueueTypes
<1>1. ASSUME NEW pointsDown \in BOOLEAN, RunBlock(pointsDown) PROVE QueueTypes'
  <2>1. Head(blocks) \in Surfaces /\ Tail(blocks) \in Seq(Surfaces)
    BY <1>1, HeadTailProperties DEF RunBlock
  <2> QED
    BY <1>1, <2>1 DEF RunBlock, sceneVars
<1>2. CASE Frame
  BY <1>2, AppendProperties DEF Frame, sceneVars
<1>3. CASE SceneChanges
  BY <1>3 DEF SceneChanges
<1>4. CASE \/ \E key \in {"hide", "unhide"} : FadeEnds(key)
           \/ AnimationStep \/ TurnEnds \/ UNCHANGED vars
  BY <1>4 DEF FadeEnds, AnimationStep, TurnEnds, vars, sceneVars
<1> QED
  BY <1>1, <1>2, <1>3, <1>4 DEF Next

LEMMA FadeStep ==
  ASSUME FadeTypes, [Next]_vars
  PROVE  FadeTypes'
BY DEF FadeTypes, Next, FadeEnds, AnimationStep, TurnEnds, RunBlock,
       DisplayAsBillboard, DisplayAsOpen, DisplayAsClosed, Frame, FadeOfFrame, Fade,
       SceneChanges, fadeVars, vars

\* The counter is compared after every increment, and by every path that increments it.
LEMMA CounterStep ==
  ASSUME OrientationTypes, NEW pointsDown \in BOOLEAN, UpdateTransform(pointsDown)
  PROVE  OrientationTypes'
<1>1. counterToNextOrientationUpdate' \in 0..UpdateEvery
  BY FocusAssumption DEF OrientationTypes, UpdateTransform
<1>2. CASE pointsDown /\ isChangingOrientation' = TRUE
            /\ isPointingDownwards' = isPointingDownwards
  BY <1>1, <1>2 DEF OrientationTypes
<1>3. CASE ~pointsDown /\ isPointingDownwards' = FALSE
            /\ isChangingOrientation' = isChangingOrientation
  BY <1>1, <1>3 DEF OrientationTypes
<1> QED
  BY <1>2, <1>3 DEF UpdateTransform

LEMMA OrientationStep ==
  ASSUME OrientationTypes, [Next]_vars
  PROVE  OrientationTypes'
<1>1. CASE UNCHANGED orientationVars
  BY <1>1 DEF OrientationTypes, orientationVars
<1>2. ASSUME NEW pointsDown \in BOOLEAN, RunBlock(pointsDown) PROVE OrientationTypes'
  BY <1>1, <1>2, CounterStep
     DEF RunBlock, DisplayAsBillboard, DisplayAsOpen, DisplayAsClosed
<1>3. CASE TurnEnds
  BY <1>3 DEF TurnEnds, OrientationTypes
<1>4. CASE \/ \E key \in {"hide", "unhide"} : FadeEnds(key)
           \/ AnimationStep \/ Frame \/ SceneChanges \/ UNCHANGED vars
  BY <1>1, <1>4 DEF FadeEnds, AnimationStep, Frame, SceneChanges, vars
<1> QED
  BY <1>2, <1>3, <1>4 DEF Next

\* Every variable keeps its type; in particular the counter of frames never passes the
\* value that it is compared with, so that the orientation goes on being updated.
THEOREM FocusSquareTypes == Spec => []TypeOK
<1>1. Init => QueueTypes /\ FadeTypes /\ OrientationTypes
  <2>1. Init => QueueTypes
    BY EmptySeq DEF Init, QueueTypes, Surfaces
  <2>2. Init => FadeTypes
    BY DEF Init, FadeTypes
  <2>3. Init => OrientationTypes
    <3>1. 0 \in 0..UpdateEvery
      BY FocusAssumption
    <3> QED
      BY <3>1 DEF Init, OrientationTypes
  <2> QED
    BY <2>1, <2>2, <2>3
<1>2. QueueTypes /\ FadeTypes /\ OrientationTypes /\ [Next]_vars
        => QueueTypes' /\ FadeTypes' /\ OrientationTypes'
  BY QueueStep, FadeStep, OrientationStep
<1>3. SquareInv /\ FlashInv /\ QueueTypes /\ FadeTypes /\ OrientationTypes => TypeOK
  BY DEF SquareInv, SquareTypes, OneTransaction, FlashInv, QueueTypes, FadeTypes,
         OrientationTypes, TypeOK
<1> QED
  BY <1>1, <1>2, <1>3, SquareInvariance, FlashInvariance, PTL DEF Spec

=============================================================================
