------------------------ MODULE MCRendererResources ------------------------
(* Model of RendererResources; the .cfg files choose sizes, memory and faults. *)
EXTENDS RendererResources
=============================================================================
