------------------------------- MODULE Recover -------------------------------
(***************************************************************************)
(* scripts/recover.py: the stages of a recovery, each cut where a command   *)
(* has taken effect and the stage can still fail. Regions!Stops is the      *)
(* failure, between any two of these steps.                                 *)
(***************************************************************************)
EXTENDS Regions

\* recover.STAGES.
RecoverStages ==
  <<"preflight", "provisioning", "bootstrap", "flux-reconcile", "restore",
    "verification", "fence", "dns-cutover", "probe-recovery", "resume-backups">>

\* What a stage waits for or does after its first command.
RecoverSteps ==
  {"record-address", "dns-dr", "dr-wait", "restoring", "loaded", "write-check", "recheck",
   "disable", "silent", "cutover-wait", "resume-wait"}

\* Mutant: the passed list is appended to twice.
PassStageTwice(n, next) ==
  /\ recPassed' = recPassed + 2
  /\ pc' = IF n = last THEN "idle" ELSE next

\* Mutant: the passed list is saved only when the run ends.
PassStageSavedLate(n, next) ==
  /\ recPassed' = IF n = last THEN n ELSE recPassed
  /\ pc' = IF n = last THEN "idle" ELSE next

\* A stage passed: the run goes on, or ends after the stage it was asked for.
PassStage(n, next) ==
  /\ recPassed' = n
  /\ pc' = IF n = last THEN "idle" ELSE next

\* Everything in recover.json besides the stages that passed.
runValues == <<runs, recStarted, recAddress, recSet, recHead>>

\* Mutant: only the sets are checked, not the CronJob.
NoSetOfThisRun == recoverySet < recStarted

\* require_backups_suspended: suspend is true and no set is of this run.
BackupsSuspended == suspended /\ recoverySet < recStarted

\* Mutant: a resumed run does not look for its environment.
AnyEnvironment == TRUE

\* require_recorded_environment of the recovery, which run() asks for once
\* provisioning passed.
EnvironmentStands == recPassed >= Provisioning => env # NoEnv /\ env = recAddress

\* run(): an empty state becomes a new run; a state whose environment passed
\* must still find that environment; the run enters the first pending stage. That
\* nobody resumes a recovery under a return is no check of the code: the move
\* resume-after-return of GapNames leaves that conjunct out.
StartRecover(through) ==
  /\ Idle
  /\ recPassed < through
  /\ IF recStarted = 0
     THEN /\ runs < MaxRuns
          /\ runs' = runs + 1 /\ recStarted' = runs + 1
     ELSE UNCHANGED <<runs, recStarted>>
  /\ EnvironmentStands
  /\ recPassed < Provisioning /\ env = NoEnv => envs < MaxEnvs
  /\ Untouched \/ recStarted = 0 \/ "resume-after-return" \in Gaps
  /\ pc' = RecoverStages[recPassed + 1]
  /\ last' = through
  /\ UNCHANGED <<primaryVars, nameVars, envVars, recPassed, recAddress, recSet, recHead, retVars>>

Preflight ==
  /\ pc = "preflight"
  /\ PassStage(1, "provisioning")
  /\ UNCHANGED <<primaryVars, nameVars, envVars, runValues, retVars, last>>

\* provisioning applies a plan that deletes nothing: a new environment, whose
\* CronJob starts suspended, or no change to the one that exists.
Apply ==
  /\ pc = "provisioning"
  /\ IF env = NoEnv
     THEN /\ envs < MaxEnvs
          /\ envs' = envs + 1 /\ env' = envs + 1
          /\ content' = 0 /\ written' = FALSE /\ runSettings' = FALSE /\ suspended' = TRUE
     ELSE UNCHANGED <<env, envs, content, written, runSettings, suspended>>
  /\ pc' = "record-address"
  /\ UNCHANGED <<primaryVars, nameVars, recoverySet, recVars, retVars, last>>

RecordAddress ==
  /\ pc = "record-address"
  /\ recAddress' = env
  /\ pc' = "dns-dr"
  /\ UNCHANGED <<primaryVars, nameVars, envVars, runs, recStarted, recPassed, recSet, recHead,
                 retVars, last>>

SetGitDr ==
  /\ pc = "dns-dr"
  /\ gitDr' = recAddress
  /\ pc' = "dr-wait"
  /\ UNCHANGED <<primaryVars, publicName, envVars, recVars, retVars, last>>

Provisioned ==
  /\ pc = "dr-wait"
  /\ gitDr = recAddress
  /\ PassStage(Provisioning, "bootstrap")
  /\ UNCHANGED <<primaryVars, nameVars, envVars, runValues, retVars, last>>

\* A bootstrap, also of a cluster that exists, changes nothing modelled here.
Bootstrap ==
  /\ pc = "bootstrap"
  /\ PassStage(3, "flux-reconcile")
  /\ UNCHANGED <<primaryVars, nameVars, envVars, runValues, retVars, last>>

FluxReconcile ==
  /\ pc = "flux-reconcile"
  /\ BackupsSuspended
  /\ PassStage(Flux, "restore")
  /\ UNCHANGED <<primaryVars, nameVars, envVars, runValues, retVars, last>>

\* restore chooses the newest complete set once and keeps the choice.
ChooseSet ==
  /\ pc = "restore"
  /\ recSet' = IF recSet = 0 THEN newest ELSE recSet
  /\ pc' = "restoring"
  /\ UNCHANGED <<primaryVars, nameVars, envVars, runs, recStarted, recPassed, recAddress, recHead,
                 retVars, last>>

\* The restore Job deletes what Gitea held before it loads the set.
WipeData ==
  /\ pc = "restoring"
  /\ content # 0
  /\ content' = 0
  /\ UNCHANGED <<primaryVars, nameVars, env, envs, written, runSettings, suspended, recoverySet,
                 recVars, retVars, lockVars>>

\* Mutant: the restore reads the newest set instead of the recorded one.
LoadNewest ==
  /\ pc = "restoring"
  /\ content = 0
  /\ content' = newest /\ written' = FALSE
  /\ pc' = "loaded"
  /\ UNCHANGED <<primaryVars, nameVars, env, envs, runSettings, suspended, recoverySet,
                 recVars, retVars, last>>

LoadSet ==
  /\ pc = "restoring"
  /\ content = 0
  /\ content' = recSet /\ written' = FALSE
  /\ pc' = "loaded"
  /\ UNCHANGED <<primaryVars, nameVars, env, envs, runSettings, suspended, recoverySet,
                 recVars, retVars, last>>

RestorePassed ==
  /\ pc = "loaded"
  /\ PassStage(Restored, "verification")
  /\ UNCHANGED <<primaryVars, nameVars, envVars, runValues, retVars, last>>

\* Mutant: every verification records the HEAD it finds.
RecordEveryHead ==
  /\ pc = "verification"
  /\ gitDr = env /\ content # 0
  /\ recHead' = IF written THEN OwnWrite ELSE content
  /\ pc' = "write-check"
  /\ UNCHANGED <<primaryVars, nameVars, envVars, runs, recStarted, recPassed, recAddress, recSet,
                 retVars, last>>

\* verification checks the fixtures on git-dr and records HEAD the first time.
RecordHead ==
  /\ pc = "verification"
  /\ gitDr = env /\ content # 0
  /\ recHead' = IF recHead # 0 THEN recHead ELSE IF written THEN OwnWrite ELSE content
  /\ pc' = "write-check"
  /\ UNCHANGED <<primaryVars, nameVars, envVars, runs, recStarted, recPassed, recAddress, recSet,
                 retVars, last>>

WriteCheck ==
  /\ pc = "write-check"
  /\ written' = TRUE
  /\ pc' = "recheck"
  /\ UNCHANGED <<primaryVars, nameVars, env, envs, content, runSettings, suspended, recoverySet,
                 recVars, retVars, last>>

Verify ==
  /\ pc = "recheck"
  /\ BackupsSuspended
  /\ PassStage(Verified, "fence")
  /\ UNCHANGED <<primaryVars, nameVars, envVars, runValues, retVars, last>>

\* fence stops the primary VMs; a stop that fails is noted and the run goes on.
StopPrimary ==
  /\ pc = "fence"
  /\ \E on \in {running, FALSE} : Power(on)
  /\ pc' = "disable"
  /\ UNCHANGED <<reachable, workerDisabled, newest, begun, opened, nameVars, envVars, recVars, retVars, last>>

DisableWorker ==
  /\ pc = "disable"
  /\ workerDisabled' = TRUE
  /\ pc' = "silent"
  /\ UNCHANGED <<running, reachable, setVars, opened, nameVars, envVars, recVars, retVars, last>>

\* The account reads as disabled and the primary's own name does not answer.
Fence ==
  /\ pc = "silent"
  /\ workerDisabled /\ ~Answers
  /\ PassStage(Fenced, "dns-cutover")
  /\ UNCHANGED <<primaryVars, nameVars, envVars, runValues, retVars, last>>

SetPublicName ==
  /\ pc = "dns-cutover"
  /\ publicName' = recAddress
  /\ pc' = "cutover-wait"
  /\ UNCHANGED <<primaryVars, gitDr, envVars, recVars, retVars, last>>

DnsCutover ==
  /\ pc = "cutover-wait"
  /\ publicName = recAddress
  /\ PassStage(CutOver, "probe-recovery")
  /\ UNCHANGED <<primaryVars, nameVars, envVars, runValues, retVars, last>>

\* probe-recovery checks and writes through the public name.
ProbeRecovery ==
  /\ pc = "probe-recovery"
  /\ content # 0
  /\ written' = TRUE
  /\ PassStage(Probed, "resume-backups")
  /\ UNCHANGED <<primaryVars, nameVars, env, envs, content, runSettings, suspended, recoverySet,
                 runs, recStarted, recAddress, recSet, recHead, retVars, last>>

\* Mutant: kubectl create without apply, which fails when the object exists.
CreateRunSettingsOnce ==
  /\ pc = "resume-backups"
  /\ ~runSettings
  /\ runSettings' = TRUE
  /\ pc' = "resume-wait"
  /\ UNCHANGED <<primaryVars, nameVars, env, envs, content, written, suspended, recoverySet,
                 recVars, retVars, last>>

CreateRunSettings ==
  /\ pc = "resume-backups"
  /\ runSettings' = TRUE
  /\ pc' = "resume-wait"
  /\ UNCHANGED <<primaryVars, nameVars, env, envs, content, written, suspended, recoverySet,
                 recVars, retVars, last>>

ResumeBackups ==
  /\ pc = "resume-wait"
  /\ ~suspended
  /\ PassStage(Resumed, "idle")
  /\ UNCHANGED <<primaryVars, nameVars, envVars, runValues, retVars, last>>

\* A step of the recovery that holds the lock.
RecoverStep ==
  \/ Preflight
  \/ Apply \/ RecordAddress \/ SetGitDr \/ Provisioned
  \/ Bootstrap
  \/ FluxReconcile
  \/ ChooseSet \/ WipeData \/ LoadSet \/ RestorePassed
  \/ RecordHead \/ WriteCheck \/ Verify
  \/ StopPrimary \/ DisableWorker \/ Fence
  \/ SetPublicName \/ DnsCutover
  \/ ProbeRecovery
  \/ CreateRunSettings \/ ResumeBackups
=============================================================================
