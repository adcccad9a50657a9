------------------------------ MODULE FailoverMC ------------------------------
(***************************************************************************)
(* The instances of Failover that TLC checks.                               *)
(***************************************************************************)
EXTENDS Failover

NoGaps       == {}
ResumeGap    == {"resume-after-return"}
ReturnGap    == {"return-while-resumed"}
===============================================================================
