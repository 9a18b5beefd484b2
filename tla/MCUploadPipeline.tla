-------------------------- MODULE MCUploadPipeline --------------------------
(***************************************************************************)
(* Instance of UploadPipeline for TLC: a text of two chunks and a file     *)
(* that cannot be used, uploaded under one external id.                    *)
(***************************************************************************)
EXTENDS UploadPipeline

CONSTANTS text, binary

MCJobs == {text, binary}
MCExternalId == [j \in MCJobs |-> "issue-1"]
MCChunks == [j \in MCJobs |-> IF j = text THEN 2 ELSE 0]
=============================================================================
