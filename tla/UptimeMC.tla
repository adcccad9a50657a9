------------------------------- MODULE UptimeMC -------------------------------
(***************************************************************************)
(* The instance of Uptime that TLC checks. A period is two units of time,   *)
(* so that probes fall between the boundaries of the window as well as on   *)
(* them. The checkers are interchangeable.                                  *)
(***************************************************************************)
EXTENDS Uptime, TLC

CONSTANTS c1, c2

TwoCheckers == {c1, c2}

Symmetric == Permutations(TwoCheckers)
===============================================================================
