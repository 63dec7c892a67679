--------------------------- MODULE MCPreviewSession ---------------------------
(***************************************************************************)
(* PreviewSession for TLC.                                                 *)
(***************************************************************************)
EXTENDS PreviewSession
==============================================================================
