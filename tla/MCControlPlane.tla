--------------------------- MODULE MCControlPlane ---------------------------
(***************************************************************************)
(* Instance for TLC of the two parts of the control-plane database that    *)
(* keep rows from one request to the next: the import jobs and the logins. *)
(* No statement reads or writes rows of both, so their interleavings add   *)
(* nothing; a behaviour here is one of either part with the other at rest. *)
(*                                                                         *)
(* Import jobs: an upload job and a connector job, two callers, two        *)
(* attempts each, leases of two seconds.  Logins: three callbacks, so that *)
(* two can race while a third comes late; three states in two browsers; a  *)
(* new identity and a legacy one.                                          *)
(***************************************************************************)
EXTENDS ImportJobs, LoginSessions, TLC

ControlPlaneInit == Init /\ LoginInit

ControlPlaneNext ==
  \/ LoginInit /\ Next /\ UNCHANGED loginVars
  \/ Init /\ LoginNext /\ UNCHANGED vars

ControlPlaneSpec == ControlPlaneInit /\ [][ControlPlaneNext]_<<vars, loginVars>>

Symmetry == Permutations(Owners) \cup Permutations(Callbacks)
=============================================================================
