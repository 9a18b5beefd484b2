-------------------------- MODULE MCUploadWorkers ---------------------------
(***************************************************************************)
(* Instance of UploadWorkers for TLC: two uploads, two attempts each, a    *)
(* scan that dispatches one job at a time, and one fault at any point.     *)
(***************************************************************************)
EXTENDS UploadWorkers
=============================================================================
