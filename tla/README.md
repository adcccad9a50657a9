# A TLA+ model of the regional failover

This directory specifies, model-checks and proves parts of the disaster-recovery
program of this repository: a self-managed Kubernetes cluster that serves Gitea
in one region, the scripts that recover it in a second region, and the scripts
that return to the first. The modules are translated from the code; where the
documents say something else, a run shows the difference (see
[Disagreements](#disagreements-between-code-and-documents)).

## Inventory of the system

| Part | State it keeps | Operations | Talks to |
| --- | --- | --- | --- |
| `scripts/recover.py` | `recover.json`: start, passed stages, recorded values; a lock file | ten stages, `reset`, resume | Terraform, DNS, gcloud, the recovery cluster, the backup bucket |
| `scripts/return_to_primary.py` | `return.json`, beside `recover.json` and under the same lock | six stages, the archive of both states | the same, and the primary through HTTP |
| Flux and the CronJobs | `suspend` of each CronJob, from `cluster-settings` and `run-settings` | reconcile, one backup every 15 minutes | the bucket |
| `scripts/watchdog.py` | none; reads GitHub runs, DNS and uptime results | `local`, `confirm --start` | dispatches the recovery workflow |
| `scripts/drill.py` | `drill.json` | guard, writes, isolate, wait, report, return, finish | watchdog conditions, both workflows, the primary VMs |
| `scripts/pipeline.py` and the workflows | the drill directory in the state bucket, one concurrency group | pull, push, reset, run | GitHub, Cloud Storage |
| `backup.sh`, `k8sdr-snapshot.sh` | a snapshot, the files of one set, objects in the bucket | snapshot, capture, upload, manifest last | LVM, Cloud Storage |
| `restore.sh`, `restore.yml` | the Gitea deployment, database and volume, CronJob suspension | select, verify, wipe, load, resume | Cloud Storage, Kubernetes |
| `run_with_iap.py` | one tunnel process per target, the known_hosts file of a cluster | check the ports, start, wait, scan, run the command, reap | gcloud, ssh-keyscan, Ansible; other runs on the machine through ports and files |
| `drill_report.py` | none; reads `writes.tsv` | the data loss | the drill |
| `dataset.py`, checks, Terraform, Ansible bootstrap | little or none | test data, one-shot checks, provisioning | |

What is hard in it:

- **Resumes.** A stage fails after any of its commands, or the runner dies.
  What it did stays done, and the next run starts at the first stage that is
  not in the passed list, maybe with the world changed meanwhile.
- **Two run states.** The return reads the recovery's state and keeps its own;
  each can be stale relative to the other.
- **Ordering across regions.** The worker account (the fence), the public name
  and the recovery CronJob must change in one order on the way out and in the
  opposite order on the way back, whatever fails in between.
- **Checks of a moment.** A set listing, a `suspend` flag, a health check or a
  DNS answer is read once and relied on later.
- **Lost answers and dispatches**, a queue that keeps one pending run, and
  deadlines that race with late results (watchdog, drill, workflows).
- **Half-done captures and restores**: containers that restart, requests that
  are repeated, a script that remembers what it destroyed only while it runs.
- **Shared machines and buckets**: runners that pull and mirror one directory,
  runs that meet at the same local ports.

The properties that make each part correct:

- recovery and return: one cluster at a time may back up; the public name never
  points at an unfenced recovery, at a removed environment, or at a cluster
  without restored data; the measured HEAD is the restored one; the return
  destroys only what its own recovery recorded and ends with the primary
  backing up; running again completes;
- watchdog: it starts a recovery only when the primary was down for the window
  and nothing else runs, and it never starts again after a failed automatic run
  without a person or a return;
- drill: it ends on the primary whatever the recovery did;
- pipeline: a run state in the bucket is never replaced by less than what
  happened, and a run resumes where the last one stopped;
- backup and restore: a complete set is of one snapshot; a restore leaves the
  old data, the whole new set, or a stopped Gitea, and backups as they were; the
  measured data loss is since the newest set;
- tunnels: a run reaps its tunnels, and its command stays on its own cluster.

`PROJECT.json` lists the hazards at their lines, with the property that would
catch each or the reason why none does yet.

## Plan

| Order | Modules | Composes | Question | Status |
| --- | --- | --- | --- | --- |
| 1 | `Regions`, `Recover`, `Return`, `Failover`, `Handover` | the two scripts, the regions, Flux | fence, names, data, run states, hand-over | done |
| 2 | `FailoverProofs`, `HandoverProofs` | `Failover`, `Handover` | types, fence, what serves and the refinement, for any constants | done |
| 3 | `Uptime`, `UptimeProofs` | the checkers, Cloud Monitoring | the verdict of condition 1 | done |
| 4 | `Watchdog`, `WatchdogProofs` | both jobs, GitHub's runs | no second start, no retry, no start missed | done |
| 5 | `Drill`, `DrillProofs` | `Watchdog`, both workflows, the bucket | a drill ends on the primary | done |
| 6 | `Pipeline`, `PipelineProofs` | runners, the bucket, both scripts in outline | run state across runners | done |
| 7 | `Backup` | sidecar, capture steps, uploads, the write log | complete means one snapshot | done |
| 8 | `Restore`, `RestoreProofs` | `Backup`, script, playbook, Flux | old data, new data or stopped; the measured loss | done |
| 9 | `Tunnels`, `TunnelsProofs` | the runs on a machine and their tunnels | reaped, on the right cluster | done |

Abstract specifications: `Handover` (done). For `Backup` an atomic capture and
for `Pipeline` one durable run state were considered: `CompleteSetsAreWhole` and
`NothingLost` say what they would, with the exceptions that the code has.

Bounds: two of everything that can be stale relative to another (runs,
environments, dispatches, sets, restores, tunnels), three where a third makes a
difference (runs in `Drill`, with five in `Pipeline` and four in
`Watchdog`).

Theorems: every type invariant, safety invariant and action property that a
passing run checks, and the refinement of `Handover`, for all constants that
satisfy the modules' assumptions (see [Proofs](#proofs)). Every theorem of the
core model but `ServesWholeSet` allows the move `reset-while-serving`.

## The core model

`Failover` extends `Return`, which extends `Recover`, which extends `Regions`.

| Module | Models | State |
| --- | --- | --- |
| `Regions` | the world and the run states: primary VMs, reachability, the worker account, the two DNS records, the recovery environment with what it holds, `run-settings`, the CronJob, sets; events around the scripts; `Stops`, `reset` and the archive | all variables |
| `Recover` | the ten stages of `recover.py` and `run()` | `recStarted`, `recPassed`, `recAddress`, `recSet`, `recHead` are `recover.json` |
| `Return` | the six stages of `return_to_primary.py` and its `run()` | `retFor`, `retPassed`, `retLifted` are `return.json`, `retBegun` is `return.tsv` |
| `Failover` | both together: `Next`, properties, fairness | |
| `Handover` | what the two promise together | the name and the two rights to back up |
| `FailoverMC` | values of the constants for TLC | |
| `FailoverProofs` | proofs: the types and the fence | |
| `HandoverProofs` | proofs: what serves, the return, the refinement | |

**Stages and places.** `pc` is what the process that holds the lock does next.
A stage is cut where a command has taken effect and the stage can still fail:
`fence` is `StopPrimary`, `DisableWorker`, `Fence`. `Stops` sends any place to
`"idle"` and changes nothing else: a failed command, a failed check, a deadline
or a dead runner. As in the code, the passed list is saved after each stage and
the recorded values when they are known. Because stages pass in order, the list
is its length: `recPassed = 6` means that `verification` passed last. `through`
bounds a run as `--through` does.

**The world.** Runs, environments and sets are numbered in the order in which
they begin, so the comparison of timestamps in the code is a comparison of
numbers. `content` is the set that Gitea on the recovery environment holds
whole, 0 while it holds none. `recoverySet` is the run during which the newest
set under `recovery/` was written, which is what `require_backups_suspended`
asks. A recorded lift of the fence is the number of the next set: a set that
started before it has a smaller name. A set of the primary takes two steps,
`BeginSet`, which names it, and `EndSet`, which stores its manifest; the fence
may fall or be lifted between them. `opened` is the first set that can begin
under an account that was enabled since. A set of the recovery cluster takes
one: what `recoverySet` is compared with is the time at which it began, and what
matters after that is whether another may begin. A Job that was in progress when
its CronJob was suspended goes on without any check of the code, so
`FenceOutlastsBackups` is about the right to begin one. `retBegun` tells a
return that was refused before its first stage, which has undone nothing, from
one that began. `FluxApplies` gives `run-settings` precedence over the
`cluster-settings` of the recovery cluster.

**Abstracted.** `preflight` and `bootstrap` pass or fail and change nothing
modelled; a plan that `check_plan` or `check_destroy_plan` refuses is a failure;
the event log, the certificate name and the inventory decide nothing; DNS
answers follow the record (a resolver that lags is a `Stops` or a longer wait),
and so does the account's state, whose lag the code waits out.

**Moves that break a property (`Gaps`).** The scripts accept three moves that no
check refuses and after which a property fails: resuming a recovery whose return
has begun (`resume-after-return`), returning while the recovery CronJob runs or
`run-settings` exists although `resume-backups` never passed
(`return-while-resumed`), and `reset` while the recovery serves
(`reset-while-serving`). The constant `Gaps` says which of them happen. The
guard which a move names (in `StartRecover`, `StartReturn` and `Reset`) is no
check of the scripts: with the move in `Gaps` it is gone, and the action is what
the code does. A person makes the first and the third against the runbook. The
second needs nobody: `return_` in `drill.py` dispatches the Return workflow
after any recovery that failed with an environment, a failed `resume-backups`
among them. The passing runs make none of the moves, so they show what the
scripts guarantee without them; the first two have a run each, which shows what
happens otherwise.

## Properties and runs

| Run | Bounds | Result |
| --- | --- | --- |
| `failover` | 2 runs, 2 environments, 2 sets of the primary, `--through` 6 and 10, no gap | about 640 thousand states, all properties hold |
| `resume_after_return` | 1 run, 1 environment, 2 sets | `CutoverIsFenced` is violated |
| `return_while_resumed` | 1 run, 1 environment, 2 sets | `FenceOutlastsBackups` is violated |

`failover` checks `TypeOK` and: `CutoverIsFenced`, `FenceOutlastsBackups` (who
may back up), `NamesPointAtLive`, `ServesRestoredData` (what the names point
at), `HeadIsOfTheSet`, `NoSetBeforeCutover`, `CompleteMeansServing` (what the
run state claims against what is), `OnlyRecordedRemoved`, `ReturnEndsOnPrimary`
(the return), and `HandoverSpec`, the refinement of `Handover`, beside the two
liveness properties below. `ReturnEndsOnPrimary` ends with a set that began
after `EnableWorker`: one that the fence caught in progress and that ended after
the lift is not evidence that the primary backs up again, and
`return_to_primary.py` tells them apart by the time in the name alone. A run
that `--through` stops is in the state of one that fails in the next stage, so
every stop is covered by `Stops`; 6 and 10 are the rehearsal before the fence
and the whole recovery.

Why the bounds are enough: a run state can be stale only relative to a later run
or environment, and two of each give one of both kinds; beside the set that is
there from the start, the second may end between two tries of `restore`, be in
progress while the fence falls and is lifted, or begin after the lift and
complete the return. Every place can fail any number of times.

**Fairness.** `RerunSpec` assumes weak fairness of the process that holds the
lock (`Proceeds`: the script runs), strong fairness of `GivesUp` (`wait()` has a
deadline, which passes even while its condition comes and goes), weak fairness
of `FluxApplies` (the Kustomization's interval), and weak fairness of
`StartRecover` (the command is run again, as the script's message
and the runbook say). `EveryRunEnds` holds under these with regions that come
and go. `RecoveryCompletes` needs in addition that from some point on commands
stop failing and nobody returns, resets or removes the environment (`Calm`).
No fairness is assumed of failures, backups, regions or what else persons do.

## The watchdog

`Watchdog` models `watchdog.yml` and `watchdog.py` beside the runs they read:

| In the module | In the code |
| --- | --- |
| `job`, `step` | the local or the confirm job of the one Watchdog run that the group `watchdog` admits, and the next check of it |
| `StartJob`, `Requests`, `Names`, `ListRecovers`, `ListReturns`, `Checkers`, `Dispatch` | `require_switch` to `start`, one action per answer that is waited for |
| `NoStart` | a `NoStart`, a request that fails, a timeout |
| `runs` | the Recover and Return runs in the order of `created_at`; a cancelled run counts as failed, because the code compares with `success` only |
| `Dispatched`, `Ended` | the group `recovery`: one run runs, one is pending, a newer one replaces the pending one |
| `failedStart` | `newest` when it blocks, from the answer of the first listing |
| `up`, `onRecovery`, `checksFailed`, `switch` | what the requests, the resolver, the uptime results and the repository variable say |

Persons dispatch either workflow, turn the switch, and runs move the name and
end with any result between any two checks. The script's own writes are one:
the dispatch. A dispatch whose answer is lost is the same step, since the job
ends either way. Left out: GitHub listing a run later than it exists, a run
that GitHub runs again under its old number, and more than 20 newer runs than
an active one.

`Uptime` is what stands behind `Checkers` and `CheckersReport`: it models the
results that `require_every_checker_failed` reads. A result has an age instead
of a time. Each checker probes a period or more after its last probe; results of
one checker arrive in order, any time later.

| Run | Bounds | Result |
| --- | --- | --- |
| `uptime` | 2 interchangeable checkers, window 4, lag 3, period 2 | about 880 thousand states, all properties hold |
| `watchdog` | 4 runs | about 240 thousand states, all properties hold |
| `watchdog_rearms` | 3 runs | `FailedStartWaitsForSuccess` is violated |

`NoFalseAlarm` bounds what the verdict claims: with the newest result within the
lag and results in order, every older probe has arrived and was read.
`NoMissedOutage` is its converse: an outage of the window and a period, with
results younger than the lag less a period, always gives the verdict; it is why
the script reads one period more than the window. A period of two units puts
probes on the boundaries and between them; the window is longer than the lag,
as in the code, so that there are ages which must have arrived.

`OneAutomaticRun` and `FailedStartWaits` hold although the two listings and the
dispatch are three requests: only the watchdog makes automatic runs, so what
persons add between them can only shorten a wait. Four runs give a failed start,
what follows it, a run that waits behind another, and the next start.

`DueStartHappens` assumes that the schedule keeps starting the watchdog and that
a job goes on or ends (its timeout), that results keep arriving, and that from
some point on a job ends only at a check that does not hold: requests do not
fail forever. It assumes nothing of persons or of the service: a start that
stops being due is not owed.

## The drill

`Drill` extends `Watchdog`: the same jobs and runs, and beside them the drill,
which is not in the group `recovery`, and the world in the steps that it can
tell apart.

| In the module | In the code |
| --- | --- |
| `at` | the next request of `drill.py`; a step with several requests has several |
| `since`, `taken`, `restarted`, `failed`, `returned` | `isolated_at`, `recovery_run`, `primary_restarted`, the first failed step, the step return in `drill.json` |
| `dispatch` | the time and the attempt of `dispatch_return` |
| `vms`, `env` | the primary VMs; whether `infra/recovery` holds resources |
| `stored`, `runner` | `recover.json` in the bucket, and on the runner until the run ends: whether it was started after the isolation, and how far it came |

Times are counts of runs made: `isolated_at` is the number of runs that existed,
which is how `bot_runs_since` and `started` compare with it. The guard's reads
are one step, because the writes follow it for 25 minutes. `Look` is one turn of
`wait_for_run`, and its deadline may have passed at any turn: the drill may give
up in the middle of what it waits for. `Faults` are the failures of its
requests; `misled` records that one of them hid what a run did (a list, a copy
of the run state, a push). The constant `Present` names the steps of the drill
during which persons dispatch runs. Decision 0016 (line 25) asks the owner to
start drills while nothing else runs, but no lock holds anybody back: `drill`
has persons before the guard, in the 25 minutes after it and in every wait. As
in the watchdog, a run is listed as soon as it is dispatched. `OneReturn` rests
on that: a run that GitHub lists later than the lookup looks is dispatched
again.

`DrillEndsOnPrimary` says that a drill that stopped the primary ends on it
unless its return reports a failure. It excludes what the code does not catch:
drills that were misled by a failed list or copy or by a run state that was never
pushed; starts that the drill did not wait for (`OtherStarts`), by a watchdog job
which read the service before the guard or dispatches after the wait has given
up; and runs of persons (`NobodyActed`). `drill_read_gap` shows the first kind.

`RemovesOnlyItsOwn` is what remains when a person does start a run in the 25
minutes in which the drill writes, or later. Nobody attends the return of a
drill, and it discards the writes of the recovery cluster; yet it never removes
the environment of a recovery that began before the isolation. The group
`recovery`, the time that `started` holds, the reset of an automatic start and
the order of pull and push keep it so: a state older than the isolation that
is still on a runner is neither chosen nor brought back beside the drill's own.

| Run | Bounds | Result |
| --- | --- | --- |
| `drill` | 3 runs, persons at five steps, every fault | about 5.1 million states, all properties hold |
| `drill_read_gap` | 2 runs, a copy that fails | `PassedEndsOnPrimary` is violated |

Three runs are the recovery of the drill, its return, and one that another makes
before, between or after them.

## The pipeline

`Pipeline` is the run state across runners, with the stages in outline: a number
of them, of which the first of a recovery builds the environment and one of a
return removes it. `phase` is the step of the workflow, `local` the directory of
its runner, `bucket` the objects it mirrors. `started` is the number of the run
that set it. `through` is the input of a dispatch, the stage at which a recovery
stops: a run through `preflight` passes and makes nothing, and one through a
later stage leaves the rest to a rerun. `Push` replaces the bucket, `PushStops`
copies and deletes some of the objects, `RunnerLost` loses the directory at any
step. `repeated`, `executed` and `unsaved` are history.

`NothingLost` is about the mirror: `rsync` deletes what the directory does not
hold, so a push without a pull would delete the run state. Its one exception is
a push that stops between two objects, which may delete `recover.json` before it
has copied the archive. `ResumesWhereItStopped` holds while pushes are complete;
`ReturnLeavesNothing` and `RecoverLeavesItsEnvironment` hold with lost ones too,
because both scripts compare what they find with what they recorded. With every
stage up to `through` passed `recover.py` does not look, and the property says
so (`pending`).

| Run | Bounds | Result |
| --- | --- | --- |
| `pipeline` | 5 runs, recoveries of 2 stages, returns of 3 | about 1.4 million states, all properties hold |

Five runs are two recoveries with their returns and one rerun of any; two stages
of a recovery give one before and one after the environment exists, three of a
return one before, at and after its removal.

## Backups and restores

`Backup` is the Pod of the primary: the sidecar that names the set and takes the
snapshot, the capture steps that read `/state/created` and `/state/snapshot`
each time they need them, and the uploads. An archive's content is the number of
the last write it holds, so that a dump and an archive of the same number are of
one moment. `Restore` extends it with the recovery cluster: `script` is the
state of `restore.sh` (`paused`, `destructive`), `play` the task of
`restore.yml`, `before` what the playbook read of the CronJob. Both may fail at
any command, die, and be run again, also by a person after one that passed, so
that `before` takes each value; a Job goes on when its playbook has died, and
Flux applies the CronJob at any time. The playbook deletes an older Job, whose
Pod may go on for its grace period of 30 seconds. The new script changes nothing
before it pauses Gitea, so the model ends the old one at the deletion; an old
Pod that outlasts the new Job's steps up to there is not in it. `db` and
`volume` are what Gitea would serve.

The operators `PrimaryWrites` and `DataLoss` are `data_loss` of
`drill_report.py`. `LossIsSinceTheSets` relates the number in the report to the
sets: no write that a complete set held counts as lost, when the set was chosen
after the isolation. `marked` is `isolated_at`, recorded before the VMs stop: the
primary may still take writes between the two, which the drill's log no longer
holds. Writes that were stored and never acknowledged are not in
the log; when one of them is the restored HEAD, the code raises and there is no
number.

| Run | Bounds | Result |
| --- | --- | --- |
| `restore` | 2 writes, 2 names of sets, 2 Jobs, every fault | about 6.4 million states, all properties hold |
| `restore_rerun` | 1 write, 1 set, 2 Jobs, no fault | `NothingServesPartialRestore` is violated |

Two writes make a snapshot stale, two names give a set that is written while
another is restored and a Pod with two names, two Jobs a restore over what
another left. `FailedRestoreStaysStopped` is the claim without the two cases in
which it fails: a second restore over partial data (`again`), and requests for
the Pods that failed (`blind`). `NoSetOfPartialData` holds while the settings
suspend the CronJob, which is up to `resume-backups`; after it the playbook
resumes the CronJob after a failed restore too, and partial data are captured.

## The tunnels

`Tunnels` has two runs of `run_with_iap.py` on one machine. The inventories give
both clusters the local ports 2201 and 2202, and the runs of one cluster share a
`known_hosts` file. `Bind`, `Exit` are gcloud's; `Check`, `Start`, `Ready`,
`Scan`, `Truncate`, `Write`, `Terminate`, `Wait` are the script's, one target
after another where it loops; `Connect` is a login of the command under
`StrictHostKeyChecking`. `Interrupt` is an exception anywhere in the try block,
`Kill` a signal that skips `finally`.

`ReachesItsOwnCluster` has one exception, `raced`: a port that was free at the
check and went to another before the scan. Everywhere else the key protects: a
tunnel that dies under its command, or a run whose file another one rewrites.
The exception is of a cluster, not of a run: a run that raced writes the keys of
the other cluster to the file that all runs of its cluster share, and a second
run of that cluster then trusts them. An earlier form of the property excused
only the run that raced; it holds of two runs, fails with three, and its proof
found that. The run has two, and `TunnelsProofs` covers any number.

| Run | Bounds | Result |
| --- | --- | --- |
| `tunnels` | 2 runs, 2 clusters, 2 targets | about 710 thousand states, all properties hold |

`WaitsEnd` assumes weak fairness of `RunActs`, the steps of the script that wait
for nothing but their own deadlines, and nothing of the tunnels or the command.

## Disagreements between code and documents

1. `resume_after_return`: `run()` in `recover.py` skips a passed `fence`, and
   does not read `return.json`. A return that lifted the fence and failed, then
   a recovery that is run again: the public name moves with the primary running
   and its account enabled, though decision 0013 says that a run whose primary
   still answers changes nothing.
2. `return_while_resumed`: `suspend_recovery_backups` asks whether
   `resume-backups` passed, not whether it ran. A `resume-backups` that created
   `run-settings` and then failed is not undone before the fence is lifted,
   though decision 0013 says that the fence lifts only after the recovery
   cluster stops backing up.
3. `watchdog_rearms`: `require_no_recovery` asks whether the newest `Recover`
   run is an automatic one that did not pass. A person's newer run that failed
   is not, so the watchdog starts again, though the runbook says that it waits
   for a newer run that succeeds or a return that passes.
4. `drill_read_gap`: `recovery_environment` takes a failed copy of the run state
   for no environment. A drill that has measured a recovery then starts the
   primary VMs, and passes, with the public name on the recovery, though the
   runbook says that it runs the Return workflow.
5. `restore_rerun`: `destructive` lives in the process. A restore that is run
   again over partial data and fails before its own first destructive step
   starts Gitea over it, though the comment in `restore.sh` and the runbook say
   that Gitea stays stopped until a restore has passed.

The models contain more that no run is about: `backup.sh` line 2 says that a set
is of one snapshot, and a sidecar that restarts breaks it (`shaken`); two failed
requests let a restore drop the data under a running Gitea (`blind`);
`run_with_iap.py` says that it owns its tunnels, and a port that goes to another
run between check and scan leads it to the other cluster (`raced`). A drill that
has given up its wait starts the primary VMs and does not look again: a watchdog
job that reads the service before they have booted starts a recovery beside them
(`OtherStarts`), though the runbook says of a drill that `failed` in `wait` that
nothing else changed. A restore that is made again in service and fails past the
drop has its CronJob resumed, though decision 0008 says that a failed restore
leaves backups suspended (`setting`). Each is excluded by name from the property
that it would break.

## Proofs

TLAPS proves every type invariant, safety invariant and action property of the
passing runs, and the refinement, for every value of the constants that
satisfies the modules' `ASSUME`s. Each component has an inductive invariant,
which TLC also checked on the run's instance. The proof of a
step has one step for each action, and a part of the invariant that few actions
disturb has a lemma of its own.

| Module | Invariant | What a theorem gives |
| --- | --- | --- |
| `FailoverProofs` | `TypeOK`, `FenceInv` | `TypeOK`, `CutoverIsFenced`, `FenceOutlastsBackups` |
| `HandoverProofs` | `ServeInv`, `ServesAsRecorded` | `NamesPointAtLive`, `ServesRestoredData`, `HeadIsOfTheSet`, `NoSetBeforeCutover`, `CompleteMeansServing`, `ReturnEndsOnPrimary`, `OnlyRecordedRemoved`, `HandoverSpec` |
| `UptimeProofs` | `UptimeInv` | `UptimeTypeOK`, `NoFalseAlarm`, `NoMissedOutage` |
| `WatchdogProofs` | `WatchdogInv` | `WatchdogTypeOK`, `OneAutomaticRun`, `FailedStartWaits` |
| `DrillProofs` | `DrillInv` | `DrillTypeOK`, `DrillEndsOnPrimary`, `RemovesOnlyItsOwn`, `OneReturn`, `PassedMeansRecovered` |
| `PipelineProofs` | `PipelineInv` | `PipelineTypeOK`, `NothingLost`, `ResumesWhereItStopped`, `ReturnLeavesNothing`, `RecoverLeavesItsEnvironment` |
| `RestoreProofs` | `BackupInv`, `SetsInOrder`, `RestoreInv` | `RestoreTypeOK`, `CompleteSetsAreWhole`, `FailedRestoreStaysStopped`, `PassedRestoreIsOneSet`, `NoSetOfPartialData`, `LossIsSinceTheSets` |
| `TunnelsProofs` | `TunnelsInv`, `KeysInv` | `TunnelsTypeOK`, `AllReaped`, `ReachesItsOwnCluster` |

Hypotheses beside the modules' assumptions: the theorems on the fence and those
of `HandoverProofs` need that the moves `resume-after-return` and
`return-while-resumed` are not in `Gaps`. `reset-while-serving` may be, except
for `ServesRestoredData`, the one safety property that it breaks.
`NoMissedOutage` needs that `Lag <= Window + Period`: the script has a window of
5, a lag of 3 and a period of 1 minute, and with a larger lag nothing of the
window need have arrived. `FaultsAssumption` lets any faults happen, and the
theorems hold for each set of them.

**The fence** (`FailoverProofs`). Neither property is inductive: that the name
moves only behind a fence depends on what `recover.json` says when a run
resumes, and that the fence is lifted only over a quiet cluster on what
`return.json` says. `FenceInv` adds exactly that. `RunsNamed`: the states name
runs that were started. `LockedFor`: the process works on a recovery that no
return has touched, or on the return of the recorded one. `FenceStands`,
`NameIsBack`, `BackupsWithdrawn`: from the place where each of the three
changed, and from the passed stage that says so, it stays changed. A corollary,
`OneBacksUp`: the two clusters never back up at once.

**What serves** (`HandoverProofs`). What a stage finds is what an earlier one
left, through any number of stops between them: `AtPendingStage` ties the place
of the script to the passed list, `EnvironmentRecorded` the environment that
stands to the recorded address, `DataRecorded` its content to the recorded set
and HEAD, `BackupsFollow` its CronJob to the stages that hold it back,
`NameFollows` the public name to the passed cutover, and `ReturnFollows` says
that what a passed stage of the return did stays done, and that the set which a
return waits for began after `EnableWorker`. A reset while the
recovery serves leaves a name that points at an environment no run state
records, so the invariant ties the name to the environment alone, and the
CronJob to the name. `ServesAsRecorded`, for the one property that such a reset
breaks, says that a name at a recovery stands beside a passed fence stage. The
refinement follows action by action: a step of the scripts is a step of
`Handover` or leaves the name and the two rights to back up alone.

**The verdict** (`UptimeProofs`). `InOrder`: what waits is younger than what
arrived, because a checker that probes was idle for a period. A newest result
within the lag therefore has every older one before it.

**The starts** (`WatchdogProofs`). `WatchdogInv` adds what the first listing
leaves behind: no automatic run is active from it to the dispatch
(`ListedNoneActive`), and a failed start is remembered, or over, from it on
(`FailedStartKnown`). Steps of GitHub and of persons keep both, because they
only append runs and end them (`Follows`).

**The drill** (`DrillProofs`). The watchdog's invariant holds beside the drill,
step by step. `Recorded` and `Noted` say what the step of the drill means for
its records. `GuardedEnded`: no run that the guard could have seen goes on.
`ReturnOnce`: the drill dispatches only while none of its returns is listed.
`LateStates` and `OlderNotBeside` hold whatever persons do: from the dispatch of
the return on no state older than the isolation comes back, because a recovery
after the isolation left the one in the bucket and no runner holds an older one
beside it. The rest holds of drills beside which only the watchdog and the drill
make runs (`Alone`). `Settled`: once the recovery of the
isolation passed, nothing moves until the return, because the next job of the
watchdog reads the name first; the report and the choice of the return then read
what the wait saw. `Plain` are the drills that `DrillEndsOnPrimary` is about, put
so that a step keeps it backwards (`PlainBefore`): nothing misled them, and the
watchdog started one recovery at most, after the isolation, which the wait
took. For these `PlainRecovery` and `PlainReturn` follow the run states, the
name and the VMs before, during and after the recovery and the return.

**The run state across runners** (`PipelineProofs`). `ChangedLocally` relates
the runner's directory to the bucket that it pulled, `FilesAgree` the files of
one directory, `ScriptFound` the environment to what the script compared it
with, and `StagesAreHeld` each stage that was carried out to the directory that
holds the last state. The assumption that the removal is not the first stage of
a return is needed, and true of the code, where it is the fifth.

**Sets and restores** (`RestoreProofs`). `OneSnapshot` and `UploadsInOrder` say
what a Pod has staged and uploaded whose sidecar did not restart; `SetsInOrder`
that a later name holds no earlier write, which is what the data loss compares;
`StoppedWhilePartial`, `LoadedIsChosen` and `PassedOrSuspended` what
`restore.sh` has destroyed, loaded and left to the playbook at each command.
That the largest number of a set is its newest is a lemma from well-founded
induction (`MaxOfNaturals`).

**The tunnels** (`TunnelsProofs`). `NoneAlive` adds to `AllReaped` that a run
which fails its port check has started nothing, and `PassedAreReaped` that the
loop over the signalled tunnels leaves none alive behind it. `KeysInv`: a port
that a run found free has its own cluster behind it until the scan, so that the
shared file holds the keys of its cluster unless one of its runs raced.

**Only model-checked**: `EveryRunEnds`, `RecoveryCompletes`, `DueStartHappens`
and `WaitsEnd`. Liveness under fairness is out of the prover's reach.

## Not modelled

- The step `finish` of a drill (the result, the issue, the page of results) and
  its schedule: they decide nothing that the system does next.
- `pipeline.py setup`: it fills GitHub's variables and secrets once, from a laptop.
- The check of a set's time against the clock, and a restore into
  `gitea-restore`. `Restore` chooses the newest set, as `restore.sh` does without
  `RESTORE_SET`; `Recover` names the set that it recorded. A restore on the
  primary itself, whose settings never suspend its backups, is outside too.
- The Pod of a deleted restore Job beyond its deletion, and the lag of GitHub's
  list of runs.
- Two drill directories in use at once (a laptop beside a workflow).
- `dataset.py` and the fixtures: test data that one person creates.
- The one-shot checks, Terraform and the cluster bootstrap: process and network
  I/O around a single decision, or declarative; here a stage that passes or
  fails. The repository's own manifest and pin checks, reports and tables.
