-------------------------------- MODULE Restore --------------------------------
(***************************************************************************)
(* A restore on the recovery cluster: ansible/playbooks/restore.yml, which   *)
(* may die at any task and be run again, and the Job it starts, which runs   *)
(* deploy/apps/gitea/backup/restore.sh over the sets of module Backup while  *)
(* these are still written. The backups of the recovery cluster itself are   *)
(* suspended by its settings until a restore has passed.                     *)
(***************************************************************************)
EXTENDS Backup

CONSTANT MaxJobs  \* bound: the restore Jobs that are ever started

ASSUME MaxJobsAssumption == MaxJobs \in Nat

VARIABLES
  cron,      \* the backup CronJob of the recovery cluster
  setting,   \* backup_suspend in its settings
  captured,  \* "partial" when a backup of the recovery cluster captured such data (history)
  play,      \* the next task of the playbook
  before,    \* whether it found a CronJob, and whether suspended
  jobs,      \* the number of Jobs started
  job,       \* the next command of the Job
  chosen,    \* RESTORE_SET: one set or none
  final,     \* the set was chosen after the isolation (history)
  script,    \* paused and destructive
  gitea,     \* the Deployment of the recovery cluster
  db,        \* the database, none when it is dropped
  volume,    \* the Gitea volume, none when it is emptied
  partial,   \* a restore has begun to replace the data, and none has finished since (history)
  passed,    \* the last playbook passed
  again,     \* a Job paused Gitea over data that another had left partial (history)
  blind      \* failed requests for Pods were taken for none (history)

clusterVars == <<cron, setting, captured>>
playVars == <<play, before, passed>>
jobVars == <<jobs, job, chosen, final, script, gitea, db, volume, partial, again, blind>>
vars == <<backupVars, clusterVars, playVars, jobVars>>

JobStep == {"none", "select", "verify", "pause", "scale", "stop", "drop", "load", "wipe", "unpack",
            "resume", "complete", "failed"}
JobRuns == job \notin {"none", "complete", "failed"}
PlayStep == {"none", "suspend", "replace", "start", "watch", "always", "rescue"}
Running == [paused |-> FALSE, destructive |-> FALSE]

-----------------------------------------------------------------------------
(* The recovery cluster. *)

\* Flux applies the CronJob with the suspension of the settings.
FluxApplies ==
  /\ cron' = IF setting THEN "suspended" ELSE "active"
  /\ UNCHANGED <<backupVars, setting, captured, playVars, jobVars>>

\* A backup captures the data as it stands.
RecoveryBackup ==
  /\ cron = "active"
  /\ captured' = captured \cup {c \in {"partial"} : partial}
  /\ UNCHANGED <<backupVars, cron, setting, playVars, jobVars>>

\* The stages after a restore that passed, up to resume-backups.
BackupsAllowed ==
  /\ passed /\ play = "none" /\ setting
  /\ setting' = FALSE
  /\ UNCHANGED <<backupVars, cron, captured, playVars, jobVars>>

\* A write check against the recovery copy, logged in the same file.
RecoveryWrite ==
  /\ passed /\ isolated /\ gitea = "up"
  /\ log' = log \cup {MaxWrites + 1}
  /\ UNCHANGED <<live, marked, isolated, podVars, clusterVars, playVars, jobVars>>

-----------------------------------------------------------------------------
(* The script. *)

\* Mutant: a script that fails starts Gitea, wherever it was.
ResumeAlways == script.paused

\* on_exit: Gitea is started again only before the first destructive step.
Resumes == script.paused /\ ~script.destructive

\* The process of the script is gone, and what it knew.
Forgotten == script' = Running /\ chosen' = {} /\ final' = FALSE

\* A command fails, or SIGTERM: on_exit runs. The scaling may fail too.
Exits(how) ==
  /\ job' = how /\ Forgotten
  /\ gitea' \in {gitea} \cup {g \in {"up"} : Resumes}

Unmoved == UNCHANGED <<backupVars, clusterVars, playVars>>

JobFails ==
  /\ JobRuns /\ Exits("failed")
  /\ Unmoved /\ UNCHANGED <<jobs, db, volume, again, blind, partial>>

\* SIGKILL, or the worker is gone: no trap runs.
JobKilled ==
  /\ "killed" \in Faults /\ JobRuns
  /\ job' = "failed" /\ Forgotten
  /\ Unmoved /\ UNCHANGED <<jobs, gitea, db, volume, again, blind, partial>>

\* sort | tail -n 1.
Newest(sets) == Max(sets)

\* Mutant: an empty list is not refused.
SelectUnchecked ==
  /\ job = "select"
  /\ chosen' = {Max({0} \cup {n \in Names : Complete(n)})}
  /\ final' = isolated /\ job' = "verify"
  /\ Unmoved /\ UNCHANGED <<jobs, script, gitea, db, volume, again, blind, partial>>

\* list_manifests: the newest set with a manifest. None at all fails the Job.
Select ==
  /\ job = "select"
  /\ LET sets == {n \in Names : Complete(n)}
     IN  sets # {} /\ chosen' = {Newest(sets)}
  /\ final' = isolated /\ job' = "verify"
  /\ Unmoved /\ UNCHANGED <<jobs, script, gitea, db, volume, again, blind, partial>>

\* The digests of both files match the manifest, and both archives decrypt.
Verify ==
  /\ job = "verify"
  /\ \A n \in chosen : bucket[n].manifest = {bucket[n].files}
  /\ job' = "pause"
  /\ Unmoved /\ UNCHANGED <<jobs, chosen, final, script, gitea, db, volume, again, blind, partial>>

\* paused is set before the command that scales Gitea to 0.
Pause ==
  /\ job = "pause" /\ job' = "scale"
  /\ script' = [script EXCEPT !.paused = TRUE]
  /\ again' = (again \/ partial)
  /\ Unmoved /\ UNCHANGED <<jobs, chosen, final, gitea, db, volume, blind, partial>>

Scale ==
  /\ job = "scale" /\ job' = "stop"
  /\ gitea' = IF gitea = "up" THEN "stopping" ELSE gitea
  /\ Unmoved /\ UNCHANGED <<jobs, chosen, final, script, db, volume, again, blind, partial>>

PodsGone ==
  /\ gitea = "stopping" /\ gitea' = "down"
  /\ Unmoved /\ UNCHANGED <<jobs, job, chosen, final, script, db, volume, again, blind, partial>>

\* The wait for the Pods: a request that fails prints none.
Stop ==
  /\ job = "stop" /\ job' = "drop"
  /\ \/ gitea = "down" /\ UNCHANGED blind
     \/ "list" \in Faults /\ gitea = "stopping" /\ blind' = TRUE
  /\ script' = [script EXCEPT !.destructive = TRUE]
  /\ Unmoved /\ UNCHANGED <<jobs, chosen, final, gitea, db, volume, again, partial>>

\* The database is dropped, and the dump loaded in one transaction; the volume
\* is emptied, and the archive unpacked.
Drop ==
  /\ job = "drop" /\ job' = "load" /\ db' = {} /\ partial' = TRUE
  /\ Unmoved /\ UNCHANGED <<jobs, chosen, final, script, gitea, volume, again, blind>>

Load ==
  /\ job = "load" /\ job' = "wipe" /\ \A n \in chosen : db' = bucket[n].files.dump
  /\ Unmoved /\ UNCHANGED <<jobs, chosen, final, script, gitea, volume, again, blind, partial>>

Wipe ==
  /\ job = "wipe" /\ job' = "unpack" /\ volume' = {}
  /\ Unmoved /\ UNCHANGED <<jobs, chosen, final, script, gitea, db, again, blind, partial>>

Unpack ==
  /\ job = "unpack" /\ job' = "resume" /\ \A n \in chosen : volume' = bucket[n].files.archive
  /\ script' = [script EXCEPT !.destructive = FALSE] /\ partial' = FALSE
  /\ Unmoved /\ UNCHANGED <<jobs, chosen, final, gitea, db, again, blind>>

\* resume_gitea and the rollout.
Resume ==
  /\ job = "resume" /\ job' = "complete" /\ gitea' = "up" /\ script' = Running
  /\ Unmoved /\ UNCHANGED <<jobs, chosen, final, db, volume, again, blind, partial>>

-----------------------------------------------------------------------------
(* The playbook. *)

\* It looks for the CronJob, and whether it is suspended. A person may restore
\* again after one that passed, and after the settings have let the CronJob run.
PlayStarts ==
  /\ play = "none"
  /\ before' = cron /\ play' = "suspend" /\ passed' = FALSE
  /\ UNCHANGED <<backupVars, clusterVars, jobVars>>

Suspend ==
  /\ play = "suspend" /\ play' = "replace"
  /\ cron' = IF before = "absent" THEN cron ELSE "suspended"
  /\ UNCHANGED <<backupVars, setting, captured, before, passed, jobVars>>

\* A Job of an earlier playbook is deleted: its script gets SIGTERM, and ends after
\* the command in flight. Its Pod may outlast this task by its grace period of 30
\* seconds. The new script changes nothing before Pause, so what the old one does
\* up to there commutes with the steps between: it ends here. Not in the model: an
\* old Pod that still runs at Pause.
Replace ==
  /\ play = "replace" /\ play' = "start"
  /\ IF JobRuns THEN Exits("none") ELSE job' = "none" /\ Forgotten /\ UNCHANGED gitea
  /\ UNCHANGED <<backupVars, clusterVars, before, passed, jobs, db, volume, again, blind, partial>>

Start ==
  /\ play = "start" /\ jobs < MaxJobs
  /\ play' = "watch" /\ jobs' = jobs + 1 /\ job' = "select"
  /\ UNCHANGED <<backupVars, clusterVars, before, passed, chosen, final, script, gitea, db, volume, again, blind, partial>>

\* The wait outlasts the deadline of the Job.
Watch ==
  /\ play = "watch" /\ ~JobRuns /\ play' = "always"
  /\ UNCHANGED <<backupVars, clusterVars, before, passed, jobVars>>

\* A task of the block fails: the tasks of always follow, and the playbook fails.
TaskFails ==
  /\ play \in {"suspend", "replace", "start", "watch"} /\ play' = "rescue"
  /\ UNCHANGED <<backupVars, clusterVars, before, passed, jobVars>>

\* Mutant: the CronJob is resumed, though it was suspended before.
ResumeAnyCronJob == before # "absent"

\* Resume the backup CronJob unless it was suspended before.
ResumeCronJob == before = "active"

\* Mutant: a Job that ended counts as one that passed.
JobEnded == ~JobRuns

\* Require the restore Job to complete.
JobPassed == job = "complete"

Always ==
  /\ play \in {"always", "rescue"} /\ play' = "none"
  /\ cron' = IF ResumeCronJob THEN "active" ELSE cron
  /\ passed' = (play = "always" /\ JobPassed)
  /\ before' = "absent"
  /\ UNCHANGED <<backupVars, setting, captured, jobVars>>

\* The playbook dies with its tunnel or its runner; the Job goes on.
PlayDies ==
  /\ play # "none" /\ play' = "none" /\ before' = "absent"
  /\ UNCHANGED <<backupVars, clusterVars, passed, jobVars>>

-----------------------------------------------------------------------------
RestoreInit ==
  /\ BackupInit
  /\ cron = "absent" /\ setting = TRUE /\ captured = {}
  /\ play = "none" /\ before = "absent" /\ passed = FALSE
  /\ jobs = 0 /\ job = "none" /\ chosen = {} /\ final = FALSE /\ script = Running
  /\ gitea = "up" /\ db = {0} /\ volume = {0} /\ partial = FALSE /\ again = FALSE /\ blind = FALSE

JobActs ==
  \/ JobFails \/ JobKilled \/ Select \/ Verify \/ Pause \/ Scale \/ PodsGone \/ Stop
  \/ Drop \/ Load \/ Wipe \/ Unpack \/ Resume

PlayActs == PlayStarts \/ Suspend \/ Replace \/ Start \/ Watch \/ TaskFails \/ Always \/ PlayDies

RestoreNext ==
  \/ JobActs \/ PlayActs
  \/ FluxApplies \/ RecoveryBackup \/ BackupsAllowed \/ RecoveryWrite
  \/ BackupNext /\ UNCHANGED <<clusterVars, playVars, jobVars>>

RestoreSpec == RestoreInit /\ [][RestoreNext]_vars

-----------------------------------------------------------------------------
\* The type invariant.
RestoreTypeOK ==
  /\ BackupTypeOK
  /\ cron \in {"absent", "suspended", "active"} /\ setting \in BOOLEAN
  /\ captured \subseteq {"partial"}
  /\ play \in PlayStep /\ before \in {"absent", "suspended", "active"} /\ passed \in BOOLEAN
  /\ jobs \in 0..MaxJobs /\ job \in JobStep
  /\ chosen \subseteq Names /\ Cardinality(chosen) <= 1
  /\ final \in BOOLEAN /\ script \in [paused : BOOLEAN, destructive : BOOLEAN]
  /\ gitea \in {"up", "stopping", "down"} /\ db \in Content /\ volume \in Content
  /\ partial \in BOOLEAN /\ again \in BOOLEAN /\ blind \in BOOLEAN

\* As the script has it: a failed restore leaves Gitea stopped, so that nothing
\* serves or writes to a partial restore.
NothingServesPartialRestore == partial => gitea = "down"

\* The same of the first restore that fails: not of one that is run again over
\* what it left, nor after failed requests for the Pods.
FailedRestoreStaysStopped == again \/ blind \/ NothingServesPartialRestore

\* When the playbook has passed, Gitea serves the database and the volume of one
\* snapshot of the primary: whatever failed before, and though sets were written
\* while it ran. Not from a set whose Pod restarted its sidecar.
PassedRestoreIsOneSet ==
  passed /\ chosen \cap shaken = {} => db = volume /\ db \notin {{}, {0}} /\ gitea = "up"

\* While the settings suspend its backups, the recovery cluster captures no
\* partial restore, though the playbook that suspends its CronJob dies, or Flux
\* applies the CronJob meanwhile.
NoSetOfPartialData == setting => "partial" \notin captured

\* The report of the drill counts as lost no write that a complete set held, and
\* no write to the recovery copy hides one: of a set chosen after the isolation.
LossIsSinceTheSets ==
  passed /\ final /\ chosen \cap shaken = {} =>
    \A head \in db : \A report \in DataLoss(log, head, marked) :
      /\ report.last <= marked
      /\ \A n \in Names \ shaken : Complete(n) =>
           \A version \in bucket[n].files.dump, w \in report.lost : version < w
=============================================================================
