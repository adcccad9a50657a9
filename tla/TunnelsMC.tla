------------------------------ MODULE TunnelsMC ------------------------------
(***************************************************************************)
(* The instances of Tunnels that TLC checks.                                *)
(***************************************************************************)
EXTENDS Tunnels
=============================================================================
