------------------------------ MODULE PipelineMC ------------------------------
(***************************************************************************)
(* The instances of Pipeline that TLC checks.                               *)
(***************************************************************************)
EXTENDS Pipeline
=============================================================================
