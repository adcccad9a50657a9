------------------------------ MODULE WatchdogMC ------------------------------
(***************************************************************************)
(* The instances of Watchdog that TLC checks.                               *)
(***************************************************************************)
EXTENDS Watchdog
===============================================================================
