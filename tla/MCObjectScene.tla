---------------------------- MODULE MCObjectScene ----------------------------
(* Bounded instance of ObjectScene for TLC. *)
EXTENDS ObjectScene, FiniteSets, TLC

\* Objects, raycasts and anchors are interchangeable: no property is temporal
\* beyond single steps.
Symmetry ==
  Permutations(Objects) \union Permutations(RaycastIds) \union Permutations(AnchorIds)

\* The four models shipped are all placed on horizontal surfaces.
OneAlignment == {{}, Objects}

\* Bound of exploration: an abandoned pan changes no guard of the code, so what can
\* follow it is what can follow without the mark; nothing is claimed after it.
NotAbandoned == dragAbandoned = {}

\* Bound of exploration: nothing is claimed once a restart timer has fired during a load,
\* and of two objects at most one is removed under a finger, so that there is always one
\* left for which everything is claimed.
CalmOneDragRemoved == Calm /\ Cardinality(dragRemoved) <= 1

\* The state without anchors, positions and dragAbandoned.  Three identities always
\* leave two objects a fresh anchor, and all an update block does is to move an object:
\* states that differ in nothing else have the same futures, as far as the rest tells,
\* but for the moments at which such a block takes up the queue.
WithoutPositions ==
  <<loadingVars, focusVars, raycastQuery, nodeVars, raycastVars, shouldUpdateAnchor,
    gestureVars, dragRemoved>>

=============================================================================
