----------------------------- MODULE MCControlPlane -----------------------------
(***************************************************************************)
(* The instance of ControlPlane the script is written for: a primary and   *)
(* two standbys, the first of them preferred.                              *)
(***************************************************************************)
EXTENDS ControlPlane

CONSTANTS mac, pi

MCStandbys == <<mac, pi>>

=================================================================================
