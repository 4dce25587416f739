--------------------------- MODULE MCIblDownload ---------------------------
(* Model of IblDownload; the .cfg files choose managers, models and images. *)
EXTENDS IblDownload
=============================================================================
