-------------------------------- MODULE Return --------------------------------
(***************************************************************************)
(* scripts/return_to_primary.py: the stages that undo a recovery after a    *)
(* drill, cut like those of Recover. The return reads recover.json and      *)
(* keeps return.json; the lock excludes a recovery meanwhile.               *)
(***************************************************************************)
EXTENDS Recover

\* Mutant: the fence is lifted before the public name moves back.
ReturnStagesSwapped ==
  <<"start-primary", "suspend-recovery-backups", "lift-fence", "dns-return",
    "remove-recovery", "primary-backup", "archive">>

\* return_to_primary.STAGES, then the archive of both run states.
ReturnStages ==
  <<"start-primary", "dns-return", "suspend-recovery-backups", "lift-fence",
    "remove-recovery", "primary-backup", "archive">>

\* What a stage of the return waits for or does after its first command.
ReturnSteps ==
  {"primary-health", "return-checks", "suspend-wait", "record-lift", "destroy",
   "destroyed"}

PassReturnStage(n, next) ==
  /\ retPassed' = n
  /\ pc' = next

\* Mutant: a return continues the state of any earlier return.
AnyRecovery == recStarted

\* The recovery that the return belongs to: the one it first ran against.
Recovery == IF retFor = 0 THEN recStarted ELSE retFor

\* require_recorded_environment of the return.
RecordedEnvironment == recPassed >= Provisioning /\ recAddress # NoEnv /\ env = recAddress

\* run(): the return remembers its recovery, refuses another one, and needs
\* the recorded environment while a stage that reaches it is pending. That it
\* does not return from a resume-backups half done is no check of the code: the
\* move return-while-resumed of GapNames leaves that conjunct out.
StartReturn ==
  /\ Idle
  /\ recStarted # 0
  /\ Recovery = recStarted
  /\ (runSettings \/ ~suspended) => recPassed = Resumed \/ "return-while-resumed" \in Gaps
  /\ retFor' = recStarted
  /\ IF retPassed < Lifted => RecordedEnvironment
     THEN retBegun' = TRUE /\ pc' = ReturnStages[retPassed + 1]
     ELSE UNCHANGED <<retBegun, pc>>
  /\ UNCHANGED <<primaryVars, nameVars, envVars, recVars, retPassed, retLifted, last>>

\* Mutant: the primary is started with its worker account enabled.
StartPrimaryUnfenced ==
  /\ pc = "start-primary"
  /\ running' = TRUE /\ workerDisabled' = FALSE
  /\ pc' = "primary-health"
  /\ UNCHANGED <<reachable, setVars, opened, nameVars, envVars, recVars, retVars, last>>

StartPrimary ==
  /\ pc = "start-primary"
  /\ running' = TRUE
  /\ pc' = "primary-health"
  /\ UNCHANGED <<reachable, workerDisabled, setVars, opened, nameVars, envVars, recVars, retVars, last>>

PrimaryStarted ==
  /\ pc = "primary-health"
  /\ Answers
  /\ PassReturnStage(1, "dns-return")
  /\ UNCHANGED <<primaryVars, nameVars, envVars, recVars, retFor, retBegun, retLifted, last>>

SetPublicNameBack ==
  /\ pc = "dns-return"
  /\ publicName' = Primary
  /\ pc' = "return-checks"
  /\ UNCHANGED <<primaryVars, gitDr, envVars, recVars, retVars, last>>

DnsReturn ==
  /\ pc = "return-checks"
  /\ publicName = Primary /\ Answers
  /\ PassReturnStage(DnsReturned, "suspend-recovery-backups")
  /\ UNCHANGED <<primaryVars, nameVars, envVars, recVars, retFor, retBegun, retLifted, last>>

\* Mutant: the stage passes whatever recover.json lists.
SkipSuspendAlways ==
  /\ pc = "suspend-recovery-backups"
  /\ PassReturnStage(Withdrawn, "lift-fence")
  /\ UNCHANGED <<primaryVars, nameVars, envVars, recVars, retFor, retBegun, retLifted, last>>

\* The stage passes at once when recover.json has no resume-backups ...
SkipSuspend ==
  /\ pc = "suspend-recovery-backups"
  /\ recPassed < Resumed
  /\ PassReturnStage(Withdrawn, "lift-fence")
  /\ UNCHANGED <<primaryVars, nameVars, envVars, recVars, retFor, retBegun, retLifted, last>>

\* ... and otherwise deletes run-settings and waits for the CronJob.
DeleteRunSettings ==
  /\ pc = "suspend-recovery-backups"
  /\ recPassed >= Resumed
  /\ runSettings' = FALSE
  /\ pc' = "suspend-wait"
  /\ UNCHANGED <<primaryVars, nameVars, env, envs, content, written, suspended, recoverySet,
                 recVars, retVars, last>>

SuspendRecoveryBackups ==
  /\ pc = "suspend-wait"
  /\ suspended
  /\ PassReturnStage(Withdrawn, "lift-fence")
  /\ UNCHANGED <<primaryVars, nameVars, envVars, recVars, retFor, retBegun, retLifted, last>>

EnableWorker ==
  /\ pc = "lift-fence"
  /\ workerDisabled' = FALSE
  /\ opened' = (IF workerDisabled THEN begun + 1 ELSE opened)
  /\ pc' = "record-lift"
  /\ UNCHANGED <<running, reachable, setVars, nameVars, envVars, recVars, retVars, last>>

\* Mutant: every set that completes after the lift counts.
LiftFenceAtNewest ==
  /\ pc = "record-lift"
  /\ retLifted' = newest + 1
  /\ PassReturnStage(Lifted, "remove-recovery")
  /\ UNCHANGED <<primaryVars, nameVars, envVars, recVars, retFor, retBegun, last>>

\* fence_lifted is the time now: only a set that starts later is named after it,
\* and one whose Job goes on started before.
LiftFence ==
  /\ pc = "record-lift"
  /\ retLifted' = begun + 1
  /\ PassReturnStage(Lifted, "remove-recovery")
  /\ UNCHANGED <<primaryVars, nameVars, envVars, recVars, retFor, retBegun, last>>

DeleteGitDr ==
  /\ pc = "remove-recovery"
  /\ gitDr' = NoEnv
  /\ pc' = "destroy"
  /\ UNCHANGED <<primaryVars, publicName, envVars, recVars, retVars, last>>

\* Destroys whatever infra/recovery holds; the plan may also be empty.
Destroy ==
  /\ pc = "destroy"
  /\ gitDr = NoEnv
  /\ env' = NoEnv /\ content' = 0 /\ written' = FALSE
  /\ runSettings' = FALSE /\ suspended' = TRUE
  /\ pc' = "destroyed"
  /\ UNCHANGED <<primaryVars, nameVars, envs, recoverySet, recVars, retVars, last>>

RemoveRecovery ==
  /\ pc = "destroyed"
  /\ env = NoEnv
  /\ PassReturnStage(Removed, "primary-backup")
  /\ UNCHANGED <<primaryVars, nameVars, envVars, recVars, retFor, retBegun, retLifted, last>>

PrimaryBackedUp ==
  /\ pc = "primary-backup"
  /\ newest >= retLifted
  /\ PassReturnStage(Returned, "archive")
  /\ UNCHANGED <<primaryVars, nameVars, envVars, recVars, retFor, retBegun, retLifted, last>>

\* A step of the return that holds the lock, before the archive.
ReturnStep ==
  \/ StartPrimary \/ PrimaryStarted
  \/ SetPublicNameBack \/ DnsReturn
  \/ SkipSuspend \/ DeleteRunSettings \/ SuspendRecoveryBackups
  \/ EnableWorker \/ LiftFence
  \/ DeleteGitDr \/ Destroy \/ RemoveRecovery
  \/ PrimaryBackedUp
===============================================================================
