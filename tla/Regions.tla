------------------------------- MODULE Regions -------------------------------
(***************************************************************************)
(* The two regions as the failover scripts see and change them: the        *)
(* primary's VMs and worker account, the two DNS records, the recovery      *)
(* environment of infra/recovery, the backup sets, and the run state that   *)
(* scripts/recover.py and scripts/return_to_primary.py keep in one drill    *)
(* directory under one lock.                                                *)
(*                                                                         *)
(* Numbers name things by their order: the n-th recovery run, the n-th      *)
(* recovery environment (its address), the n-th primary set that was begun.  *)
(***************************************************************************)
EXTENDS Naturals

CONSTANTS
  MaxRuns,   \* bound: recovery runs that start from an empty state
  MaxEnvs,   \* bound: recovery environments that are ever provisioned
  MaxSets,   \* bound: sets under primary/ that are ever begun
  Throughs,  \* the stages after which a run may be asked to stop (--through)
  Gaps       \* moves that the scripts accept, see GapNames

\* Moves that no check of the scripts refuses and that break a property:
\* resuming a recovery that a return has begun to undo; returning while the
\* recovery CronJob runs although resume-backups never passed, which return_ of
\* the drill also does with nobody present; and resetting the run state while
\* the recovery cluster serves the public name.
GapNames == {"resume-after-return", "return-while-resumed", "reset-while-serving"}

ASSUME BoundsAssumption ==
  /\ MaxRuns \in Nat \ {0}
  /\ MaxEnvs \in Nat \ {0}
  /\ MaxSets \in Nat \ {0}

ASSUME ThroughsAssumption == Throughs \subseteq 1..10 /\ 10 \in Throughs

ASSUME GapsAssumption == Gaps \subseteq GapNames

VARIABLES
  running,         \* the primary VMs run
  reachable,       \* the primary region can be reached from outside
  workerDisabled,  \* the primary worker account is disabled (the fence)
  newest,          \* the newest complete set under primary/
  begun,           \* the newest set that the primary CronJob began
  capturing,       \* its Job goes on
  opened,          \* the first set begun since the fence was last lifted (history)
  publicName,      \* what git resolves to: Primary or a recovery environment
  gitDr,           \* what git-dr resolves to: NoEnv or a recovery environment
  env,             \* the environment infra/recovery holds, or NoEnv
  envs,            \* environments provisioned so far
  content,         \* the set Gitea on env holds; 0 while it holds none whole
  written,         \* that Gitea accepted a write after its restore
  runSettings,     \* the run-settings ConfigMap exists on env
  suspended,       \* the CronJob of env is suspended
  recoverySet,     \* the run during which the newest recovery/ set was written
  runs,            \* recovery runs started so far
  recStarted,      \* recover.json: its run, 0 without a state
  recPassed,       \* recover.json: how many stages passed, in order
  recAddress,      \* recover.json: values.recovery_address
  recSet,          \* recover.json: values.backup_set
  recHead,         \* recover.json: values.restored_head
  retFor,          \* return.json: values.recovery_started, 0 when unset
  retBegun,        \* return.tsv holds the start of a stage
  retPassed,       \* return.json: how many stages passed, in order
  retLifted,       \* return.json: values.fence_lifted as the first set after it
  pc,              \* what the process that holds the lock does next
  last             \* the last stage that process was asked for (--through)

setVars     == <<newest, begun, capturing>>
primaryVars == <<running, reachable, workerDisabled, setVars, opened>>
nameVars    == <<publicName, gitDr>>
envVars     == <<env, envs, content, written, runSettings, suspended, recoverySet>>
recVars     == <<runs, recStarted, recPassed, recAddress, recSet, recHead>>
retVars     == <<retFor, retBegun, retPassed, retLifted>>
lockVars    == <<pc, last>>
vars        == <<primaryVars, nameVars, envVars, recVars, retVars, lockVars>>

Primary  == 0             \* the value of publicName for the primary's address
NoEnv    == 0
OwnWrite == MaxSets + 1   \* a HEAD that the recovery cluster wrote itself

\* The stages by their position in recover.STAGES and return_to_primary.STAGES.
Provisioning  == 2
Flux          == 4
Restored      == 5
Verified      == 6
Fenced        == 7
CutOver       == 8
Probed        == 9
Resumed       == 10
DnsReturned   == 2
Withdrawn     == 3
Lifted        == 4
Removed       == 5
Returned      == 6

\* The primary's own name returns 200.
Answers == running /\ reachable

\* The lock is free: no recovery or return runs on this drill directory.
Idle == pc = "idle"

\* No return has begun a stage for the recovery whose state recover.json holds:
\* none was run, or it was refused before its first stage.
Untouched == retFor # recStarted \/ ~retBegun

\* The primary can write backup sets; the recovery cluster begins them.
PrimaryBacksUp  == running /\ ~workerDisabled
RecoveryBacksUp == env # NoEnv /\ ~suspended

-----------------------------------------------------------------------------
(* What happens around the scripts.                                         *)

\* The primary region is lost, or comes back with its VMs as they were.
RegionChanges ==
  /\ reachable' = ~reachable
  /\ UNCHANGED <<running, workerDisabled, setVars, opened, nameVars, envVars, recVars, retVars, lockVars>>

\* The power of the primary VMs. A Job that they stop under has no retry.
Power(on) ==
  /\ running' = on
  /\ capturing' = (capturing /\ on)

\* A drill stops the primary VMs to isolate the primary, or starts them again.
DrillPower(on) ==
  /\ running # on
  /\ Power(on)
  /\ UNCHANGED <<reachable, workerDisabled, newest, begun, opened, nameVars, envVars, recVars, retVars, lockVars>>

\* The primary CronJob begins a set, whose name is this time: one Job at a time
\* (concurrencyPolicy Forbid), fenced or not.
BeginSet ==
  /\ running /\ ~capturing
  /\ begun < MaxSets
  /\ begun' = begun + 1 /\ capturing' = TRUE
  /\ UNCHANGED <<running, reachable, workerDisabled, newest, opened, nameVars, envVars, recVars, retVars, lockVars>>

\* Its manifest is written; a disabled worker account cannot. Or the Job fails.
EndSet ==
  /\ capturing /\ capturing' = FALSE
  /\ \/ PrimaryBacksUp /\ newest' = begun
     \/ UNCHANGED newest
  /\ UNCHANGED <<running, reachable, workerDisabled, begun, opened, nameVars, envVars, recVars, retVars, lockVars>>

\* The recovery CronJob writes a set of the restored Gitea, in one step: the
\* checks compare names, and so the times at which sets begin.
RecoveryBackup ==
  /\ RecoveryBacksUp
  /\ content # 0
  /\ recoverySet' = runs
  /\ UNCHANGED <<primaryVars, nameVars, env, envs, content, written, runSettings, suspended,
                 recVars, retVars, lockVars>>

\* Flux applies the gitea Kustomization: run-settings wins over the
\* cluster-settings of the recovery cluster, which suspend the CronJob.
FluxApplies ==
  /\ env # NoEnv
  /\ suspended = runSettings
  /\ suspended' = ~runSettings
  /\ UNCHANGED <<primaryVars, nameVars, env, envs, content, written, runSettings, recoverySet,
                 recVars, retVars, lockVars>>

\* "Remove the recovery environment" of the runbook, by hand: after a gate or a
\* rehearsal that left the primary in service, while no script runs.
RemoveByHand ==
  /\ Idle
  /\ publicName = Primary /\ ~workerDisabled
  /\ env # NoEnv
  /\ gitDr' = NoEnv
  /\ env' = NoEnv /\ content' = 0 /\ written' = FALSE
  /\ runSettings' = FALSE /\ suspended' = TRUE
  /\ UNCHANGED <<primaryVars, publicName, envs, recoverySet, recVars, retVars, lockVars>>

Environment ==
  \/ RegionChanges
  \/ \E on \in BOOLEAN : DrillPower(on)
  \/ BeginSet \/ EndSet
  \/ RecoveryBackup
  \/ FluxApplies
  \/ RemoveByHand

-----------------------------------------------------------------------------
(* What both scripts do at any stage.                                       *)

\* A command or check fails, or the runner dies. Whatever the stage did so far
\* stays done, and the stage is not recorded as passed.
Stops ==
  /\ ~Idle
  /\ pc' = "idle"
  /\ UNCHANGED <<primaryVars, nameVars, envVars, recVars, retVars, last>>

\* archive() renames recover.json first ...
ArchiveRecovery ==
  /\ pc = "archive"
  /\ recStarted' = 0 /\ recPassed' = 0 /\ recAddress' = NoEnv /\ recSet' = 0 /\ recHead' = 0
  /\ pc' = "archive-return"
  /\ UNCHANGED <<primaryVars, nameVars, envVars, runs, retVars, last>>

\* ... and return.json after it, in a second rename.
ArchiveReturn ==
  /\ pc = "archive-return"
  /\ retFor' = 0 /\ retBegun' = FALSE /\ retPassed' = 0 /\ retLifted' = 0
  /\ pc' = "idle"
  /\ UNCHANGED <<primaryVars, nameVars, envVars, recVars, last>>

\* recover.py reset, by a person or by the reset input of the workflow.
Reset ==
  /\ Idle
  /\ recStarted # 0 \/ retFor # 0
  /\ publicName = Primary \/ "reset-while-serving" \in Gaps
  /\ pc' = "archive"
  /\ UNCHANGED <<primaryVars, nameVars, envVars, recVars, retVars, last>>

-----------------------------------------------------------------------------
\* The primary serves and has a complete set; nothing else exists.
Init ==
  /\ running = TRUE /\ reachable = TRUE /\ workerDisabled = FALSE
  /\ newest = 1 /\ begun = 1 /\ capturing = FALSE /\ opened = 1
  /\ publicName = Primary /\ gitDr = NoEnv
  /\ env = NoEnv /\ envs = 0 /\ content = 0 /\ written = FALSE
  /\ runSettings = FALSE /\ suspended = TRUE /\ recoverySet = 0
  /\ runs = 0 /\ recStarted = 0 /\ recPassed = 0 /\ recAddress = NoEnv
  /\ recSet = 0 /\ recHead = 0
  /\ retFor = 0 /\ retBegun = FALSE /\ retPassed = 0 /\ retLifted = 0
  /\ pc = "idle" /\ last = Resumed
=============================================================================
