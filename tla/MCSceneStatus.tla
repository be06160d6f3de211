---------------------------- MODULE MCSceneStatus ----------------------------
(* Bounded instance of SceneStatus for TLC. *)
EXTENDS SceneStatus

\* The models shipped are all placed on horizontal surfaces.
OneAlignment == {{}, Objects}

=============================================================================
