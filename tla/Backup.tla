-------------------------------- MODULE Backup --------------------------------
(***************************************************************************)
(* A backup Pod of the primary: deploy/apps/gitea/backup/backup.sh, one      *)
(* subcommand per container, over scripts k8sdr-snapshot of the worker. The  *)
(* sidecar writes the name of the set and the state of the snapshot to files *)
(* that the other containers read later, each time they need them. Beside it *)
(* the write checks of a drill, and what scripts/drill_report.py makes of    *)
(* their log.                                                                *)
(***************************************************************************)
EXTENDS Naturals, FiniteSets, FiniteSetsExt

CONSTANTS
  MaxWrites,  \* bound: the writes that the primary stores, the first one included
  MaxNames,   \* bound: the names of sets that are ever made
  Faults      \* the faults that may happen, of FaultNames

FaultNames == {
  "sidecar",  \* the snapshot container is killed and starts again
  "list",     \* a request for the Gitea Pods fails twice
  "killed"}   \* a Pod is killed without a signal to its script

ASSUME BackupAssumption ==
  /\ MaxWrites \in Nat \ {0} /\ MaxNames \in Nat \ {0} /\ Faults \subseteq FaultNames

VARIABLES
  live,      \* the last write that the primary stores, the HEAD of the repository
  log,       \* writes.tsv: the acknowledged writes; one after the isolation is MaxWrites + 1
  marked,    \* the last write when isolated_at was recorded, 0 before
  isolated,  \* the primary VMs are stopped
  clock,     \* the last name of a set: names are times
  lv,        \* what the mounted snapshot holds: one version, or none when there is none
  sidecar,   \* the snapshot container
  created,   \* /state/created: the name of the set
  flag,      \* /state/snapshot
  at,        \* the capture step of the Pod, or "none"
  staged,    \* /staging
  bucket,    \* the objects of each set
  shaken     \* the names of a Pod whose sidecar started again after its snapshot (history)

podVars == <<clock, lv, sidecar, created, flag, at, staged, bucket, shaken>>
backupVars == <<live, log, marked, isolated, podVars>>

\* The contents of an archive: a version of the data. An empty directory is 0.
Version == 0..MaxWrites
Names == 1..MaxNames
Content == {c \in SUBSET Version : Cardinality(c) <= 1}
Files == [dump : Content, archive : Content]
NoFiles == [dump |-> {}, archive |-> {}]
Empty == [files |-> NoFiles, manifest |-> {}]

CaptureStep == {"none", "dump", "archive", "put-dump", "put-archive", "put-manifest"}

-----------------------------------------------------------------------------
(* The writes of the drill. *)

\* A write check pushes a commit, and logs it when the push was acknowledged: not
\* when the answer was lost, nor what anybody else pushes. The last check is over
\* when the drill isolates; other pushes may be accepted until the VMs have stopped.
Write ==
  /\ ~isolated /\ live < MaxWrites
  /\ live' = live + 1
  /\ \/ marked = 0 /\ log' = log \cup {live'}
     \/ UNCHANGED log
  /\ UNCHANGED <<marked, isolated, podVars>>

\* A Pod that is gone, and its volumes /state and /staging with it.
PodGone == at' = "none" /\ sidecar' = "gone" /\ created' = 0 /\ flag' = "none" /\ staged' = NoFiles

\* The drill records isolated_at, and saves it, before it asks for the stop.
MarkIsolation ==
  /\ marked = 0 /\ marked' = live
  /\ UNCHANGED <<live, log, isolated, podVars>>

\* The primary VMs stop, and the Pod with them.
Isolate ==
  /\ marked # 0 /\ ~isolated /\ isolated' = TRUE
  /\ PodGone
  /\ UNCHANGED <<live, log, marked, clock, lv, bucket, shaken>>

-----------------------------------------------------------------------------
(* The snapshot container. *)

\* The CronJob starts a Pod: concurrencyPolicy Forbid.
StartPod ==
  /\ at = "none" /\ ~isolated /\ clock < MaxNames
  /\ at' = "dump" /\ sidecar' = "start"
  /\ UNCHANGED <<live, log, marked, isolated, clock, lv, created, flag, staged, bucket, shaken>>

\* snapshot: it names the set, and k8sdr-snapshot removes what an earlier run
\* left. A sidecar that starts again finds the file of its first snapshot.
NameSet ==
  /\ sidecar = "start" /\ clock < MaxNames
  /\ clock' = clock + 1 /\ created' = clock'
  /\ shaken' = IF flag = "none" THEN shaken ELSE shaken \cup {created, created'}
  /\ lv' = {} /\ sidecar' = "create"
  /\ UNCHANGED <<live, log, marked, isolated, flag, at, staged, bucket>>

\* snapshot: one LVM snapshot of both volumes. One that fails leaves nothing
\* mounted, and the container stays up.
TakeSnapshot ==
  /\ sidecar = "create" /\ sidecar' = "wait"
  /\ \/ lv' = {live} /\ flag' = "ok"
     \/ lv' = {} /\ flag' = "failed"
  /\ UNCHANGED <<live, log, marked, isolated, clock, created, at, staged, bucket, shaken>>

\* restartPolicy Always: the container is killed, and starts again.
SidecarRestarts ==
  /\ "sidecar" \in Faults /\ sidecar \in {"create", "wait"} /\ clock < MaxNames
  /\ sidecar' = "start"
  /\ UNCHANGED <<live, log, marked, isolated, clock, lv, created, flag, at, staged, bucket, shaken>>

-----------------------------------------------------------------------------
(* The capture steps. *)

\* The Pod is over: the sidecar removes the snapshot, unless it is killed.
PodEnds ==
  /\ PodGone
  /\ lv' \in {{}} \cup {l \in {lv} : "killed" \in Faults}

\* backoffLimit 0: a step that fails, or the deadline, ends the Job.
PodFails ==
  /\ at # "none" /\ PodEnds
  /\ UNCHANGED <<live, log, marked, isolated, clock, bucket, shaken>>

\* dump-postgresql, when the startup probe has found the file. Without a mounted
\* snapshot the temporary server does not start.
Dump ==
  /\ at = "dump" /\ flag = "ok" /\ lv # {}
  /\ staged' = [staged EXCEPT !.dump = lv] /\ at' = "archive"
  /\ UNCHANGED <<live, log, marked, isolated, clock, lv, sidecar, created, flag, bucket, shaken>>

\* archive-gitea: without a mounted snapshot the directory is there, and empty.
Archive ==
  /\ at = "archive" /\ flag = "ok"
  /\ staged' = [staged EXCEPT !.archive = IF lv = {} THEN {0} ELSE lv] /\ at' = "put-dump"
  /\ UNCHANGED <<live, log, marked, isolated, clock, lv, sidecar, created, flag, bucket, shaken>>

\* Mutant: the manifest is uploaded before the archive.
ManifestEarly(step) ==
  CASE step = "put-dump" -> "put-manifest" [] step = "put-manifest" -> "put-archive" [] OTHER -> "none"

\* The order of the uploads: the manifest last.
After(step) ==
  CASE step = "put-dump" -> "put-archive" [] step = "put-archive" -> "put-manifest" [] OTHER -> "none"

\* An object of the set that /state/created names now. The manifest lists the
\* digests of the staged files.
Stored(step) ==
  CASE step = "put-dump" -> [bucket EXCEPT ![created].files.dump = staged.dump]
    [] step = "put-archive" -> [bucket EXCEPT ![created].files.archive = staged.archive]
    [] OTHER -> [bucket EXCEPT ![created].manifest = {staged}]

\* put: a request that fails, and a retry of one whose answer was lost, which
\* generation-match refuses, end the Pod.
Put ==
  /\ at \in {"put-dump", "put-archive", "put-manifest"}
  /\ \/ /\ bucket' = Stored(at)
        /\ IF After(at) = "none" THEN PodEnds
           ELSE at' = After(at) /\ UNCHANGED <<lv, sidecar, created, flag, staged>>
     \/ bucket' \in {bucket, Stored(at)} /\ PodEnds
  /\ UNCHANGED <<live, log, marked, isolated, clock, shaken>>

-----------------------------------------------------------------------------
BackupInit ==
  /\ live = 1 /\ log = {1} /\ marked = 0 /\ isolated = FALSE
  /\ clock = 0 /\ lv = {} /\ sidecar = "gone" /\ created = 0 /\ flag = "none"
  /\ at = "none" /\ staged = NoFiles /\ bucket = [n \in Names |-> Empty] /\ shaken = {}

BackupNext ==
  \/ Write \/ MarkIsolation \/ Isolate \/ StartPod \/ NameSet \/ TakeSnapshot \/ SidecarRestarts
  \/ PodFails \/ Dump \/ Archive \/ Put

-----------------------------------------------------------------------------
(* scripts/drill_report.py, with the version of a write for its time: data_loss *)
(* of the restored HEAD, from the write log of both clusters.                   *)

\* Mutant: the writes that went to the recovery cluster count too.
AllWrites(writes, end) == writes

\* The writes acknowledged before isolated_at.
PrimaryWrites(writes, end) == {w \in writes : w <= end}

\* The last write that was acknowledged, and those that the restore lost. There
\* is none when the restored HEAD is not in the log.
DataLoss(writes, restored, end) ==
  LET primary == PrimaryWrites(writes, end)
  IN  IF restored \notin primary THEN {}
      ELSE {[last |-> Max(primary), lost |-> {w \in primary : w > restored}]}

-----------------------------------------------------------------------------
\* The type invariant.
BackupTypeOK ==
  /\ live \in Version \ {0} /\ log \subseteq (1..live) \cup {MaxWrites + 1}
  /\ marked \in 0..live /\ isolated \in BOOLEAN
  /\ clock \in 0..MaxNames /\ created \in 0..clock /\ shaken \subseteq Names
  /\ lv \in Content /\ flag \in {"none", "ok", "failed"}
  /\ sidecar \in {"gone", "start", "create", "wait"} /\ at \in CaptureStep
  /\ staged \in Files
  /\ bucket \in [Names -> [files : Files, manifest : SUBSET Files]]

Complete(n) == bucket[n].manifest # {}

\* A set with a manifest has both archives, as it lists them, from one snapshot:
\* whenever a Pod fails, a request is repeated or a snapshot was left behind. A
\* Pod whose sidecar started again may mix two snapshots, archive an unmounted
\* directory, or spread its objects over two names.
CompleteSetsAreWhole ==
  \A n \in Names \ shaken : Complete(n) =>
    /\ bucket[n].manifest = {bucket[n].files}
    /\ bucket[n].files.dump = bucket[n].files.archive
    /\ bucket[n].files.dump \notin {{}, {0}}
=============================================================================
