------------------------------ MODULE MCControl ------------------------------
(***************************************************************************)
(* The control plane with a few requests for one task.                     *)
(***************************************************************************)
EXTENDS ControlPlane, TLC

Decisions == {"approved", "rejected"}
=============================================================================
