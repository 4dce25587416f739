-------------------------- MODULE MCSceneRenderer --------------------------
(* Model of SceneRenderer; the .cfg files choose documents, slots and sizes. *)
EXTENDS SceneRenderer, TLC

\* Documents are interchangeable, and so are the objects of a model.
Symmetry == Permutations(Docs) \cup Permutations(Objects)
=============================================================================
