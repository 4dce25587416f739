--------------------------- MODULE MCModelManager ---------------------------
(* Instances of ModelManager for TLC: a threaded PDF document and a         *)
(* standalone one that renders on the GUI thread.                           *)
EXTENDS ModelManager, TLC
=============================================================================
