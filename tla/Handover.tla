------------------------------- MODULE Handover -------------------------------
(***************************************************************************)
(* What a recovery and a return promise together: the public name and the   *)
(* right to write backup sets go from one cluster to the other and back,    *)
(* and the two clusters never both have that right.                         *)
(***************************************************************************)
VARIABLES
  name,          \* who has the public name: "primary" or "recovery"
  primaryMay,    \* the primary may write backup sets
  recoveryRuns   \* the recovery cluster writes backup sets

hvars == <<name, primaryMay, recoveryRuns>>

HInit == name = "primary" /\ primaryMay = TRUE /\ recoveryRuns = FALSE

\* The primary is fenced.
TakePrimary ==
  /\ primaryMay' = FALSE
  /\ UNCHANGED <<name, recoveryRuns>>

\* The public name moves to the recovery cluster of a fenced primary.
MoveName ==
  /\ ~primaryMay
  /\ name' = "recovery"
  /\ UNCHANGED <<primaryMay, recoveryRuns>>

\* The recovery cluster that has the public name starts to back up.
GiveRecovery ==
  /\ name = "recovery" /\ ~primaryMay
  /\ recoveryRuns' = TRUE
  /\ UNCHANGED <<name, primaryMay>>

\* The public name moves back; the fence still stands.
MoveNameBack ==
  /\ ~primaryMay
  /\ name' = "primary"
  /\ UNCHANGED <<primaryMay, recoveryRuns>>

\* The recovery cluster without the public name stops backing up.
TakeRecovery ==
  /\ name = "primary"
  /\ recoveryRuns' = FALSE
  /\ UNCHANGED <<name, primaryMay>>

\* The fence is lifted, last of all.
GivePrimary ==
  /\ name = "primary" /\ ~recoveryRuns
  /\ primaryMay' = TRUE
  /\ UNCHANGED <<name, recoveryRuns>>

HNext ==
  TakePrimary \/ MoveName \/ GiveRecovery \/ MoveNameBack \/ TakeRecovery \/ GivePrimary

Spec == HInit /\ [][HNext]_hvars
===============================================================================
