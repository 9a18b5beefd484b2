------------------------- MODULE MCImportLifecycle -------------------------
(***************************************************************************)
(* One import and one source of an earlier server.                         *)
(***************************************************************************)
EXTENDS ImportLifecycle

CONSTANTS j1, s0
=============================================================================
