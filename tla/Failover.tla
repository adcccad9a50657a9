------------------------------- MODULE Failover -------------------------------
(***************************************************************************)
(* Recoveries, returns, resets, failed stages and dead runners in any       *)
(* order over one drill directory, while the primary region is lost and     *)
(* comes back and both clusters back up. What must hold across all of it.   *)
(***************************************************************************)
EXTENDS Return

Next ==
  \/ Environment
  \/ \E through \in Throughs : StartRecover(through)
  \/ RecoverStep
  \/ StartReturn
  \/ ReturnStep
  \/ Reset
  \/ ArchiveRecovery
  \/ ArchiveReturn
  \/ Stops

Spec == Init /\ [][Next]_vars

-----------------------------------------------------------------------------
\* Every place of the two scripts, and the idle lock.
Places ==
  {"idle", "archive-return"}
    \cup {RecoverStages[i] : i \in 1..Resumed} \cup RecoverSteps
    \cup {ReturnStages[i] : i \in 1..Returned + 1} \cup ReturnSteps

\* The type invariant.
TypeOK ==
  /\ running \in BOOLEAN /\ reachable \in BOOLEAN /\ workerDisabled \in BOOLEAN
  /\ newest \in 1..MaxSets /\ begun \in 1..MaxSets /\ capturing \in BOOLEAN
  /\ opened \in 1..OwnWrite
  /\ publicName \in 0..MaxEnvs /\ gitDr \in 0..MaxEnvs
  /\ env \in 0..MaxEnvs /\ envs \in 0..MaxEnvs
  /\ content \in 0..MaxSets /\ written \in BOOLEAN
  /\ runSettings \in BOOLEAN /\ suspended \in BOOLEAN
  /\ recoverySet \in 0..MaxRuns
  /\ runs \in 0..MaxRuns /\ recStarted \in 0..MaxRuns
  /\ recPassed \in 0..Resumed
  /\ recAddress \in 0..MaxEnvs
  /\ recSet \in 0..MaxSets /\ recHead \in 0..OwnWrite
  /\ retFor \in 0..MaxRuns /\ retBegun \in BOOLEAN
  /\ retPassed \in 0..Returned /\ retLifted \in 0..OwnWrite
  /\ pc \in Places
  /\ last \in Throughs

\* The public name points at a recovery cluster only while the fence stands:
\* fence() disables the primary worker account before dns_cutover() moves the
\* name, and lift_fence() comes after dns_return().
CutoverIsFenced == publicName # Primary => workerDisabled

\* The primary and the recovery cluster never back up at the same time:
\* resume_backups() follows the fence, and lift_fence() follows
\* suspend_recovery_backups(), through every failure and resume.
OneClusterBacksUp == ~(PrimaryBacksUp /\ RecoveryBacksUp)

\* The fence is lifted only after the recovery cluster stopped beginning sets: an
\* enabled worker account means that no CronJob of a recovery environment runs
\* and that no run-settings would make it run. (A Job that began before may still
\* end: the return waits for the suspension only.)
FenceOutlastsBackups == ~workerDisabled => ~RecoveryBacksUp /\ ~runSettings

\* Neither DNS record points at a removed environment: remove_recovery()
\* deletes git-dr and runs after dns_return(), and a resumed recovery must find
\* the environment whose address it recorded.
NamesPointAtLive ==
  /\ publicName # Primary => publicName = env
  /\ gitDr # NoEnv => gitDr = env

\* A recovery cluster that has the public name holds a restored set whole: no
\* stage restores over a cluster that serves.
ServesRestoredData == publicName # Primary => content # 0

\* The restored HEAD that a drill's data loss is computed from is the HEAD of
\* the chosen set, never a commit the recovery's own write check pushed, no
\* matter how often restore() and verification() are retried.
HeadIsOfTheSet == recHead # 0 => recHead = recSet

\* A recovery that passed `verification` and does not yet serve has written no
\* set under recovery/ during this run.
NoSetBeforeCutover ==
  recPassed \in Verified..Fenced /\ publicName = Primary => recoverySet < recStarted

\* A recovery whose last stage passed serves, until a return begins: the public
\* name points at the recorded environment, which holds the recorded set, and
\* the primary stays fenced.
CompleteMeansServing ==
  recPassed = Resumed /\ Untouched =>
    /\ publicName = recAddress /\ env = recAddress
    /\ content = recSet
    /\ workerDisabled

\* The return removes only the environment that the recovery it belongs to
\* recorded: a stale return.json never destroys another environment.
OnlyRecordedRemoved ==
  [][~Idle /\ env # NoEnv /\ env' # env => env = recAddress /\ retFor = recStarted]_vars

\* When the return archives the run states, the drill has ended on the primary:
\* it has the public name, is not fenced, and no recovery environment or name of
\* one is left. And the fence is lifted end to end: the primary has completed a
\* set that it also began without the fence, not one whose Job began before the
\* worker account was enabled and ended after it.
ReturnEndsOnPrimary ==
  retPassed = Returned /\ Recovery = recStarted =>
    /\ publicName = Primary /\ gitDr = NoEnv /\ env = NoEnv
    /\ ~workerDisabled
    /\ newest >= opened

-----------------------------------------------------------------------------
(* The hand-over of the service that the two scripts implement.             *)

H == INSTANCE Handover WITH
       name         <- IF publicName = Primary THEN "primary" ELSE "recovery",
       primaryMay   <- ~workerDisabled,
       recoveryRuns <- RecoveryBacksUp

\* Every step of the scripts, with failures and resumes between any two of
\* them, is a step of the abstract hand-over or none.
HandoverSpec == H!Spec

-----------------------------------------------------------------------------
(* Liveness.                                                                *)

\* Mutant: the fence waits for the primary's silence without a deadline.
GivesUpButFence ==
  /\ \/ pc \in {"flux-reconcile", "recheck"} /\ ~BackupsSuspended
     \/ pc = "resume-wait" /\ suspended
     \/ pc \in {"primary-health", "return-checks"} /\ ~Answers
     \/ pc = "suspend-wait" /\ ~suspended
     \/ pc = "primary-backup" /\ newest < retLifted
  /\ Stops

\* The outcome the stage checks or waits for is not there: wait() ends at its
\* deadline and a failed check at once, and both end the run.
GivesUp ==
  /\ \/ pc \in {"flux-reconcile", "recheck"} /\ ~BackupsSuspended
     \/ pc = "silent" /\ Answers
     \/ pc = "resume-wait" /\ suspended
     \/ pc \in {"primary-health", "return-checks"} /\ ~Answers
     \/ pc = "suspend-wait" /\ ~suspended
     \/ pc = "primary-backup" /\ newest < retLifted
  /\ Stops

Proceeds == RecoverStep \/ ReturnStep \/ ArchiveRecovery \/ ArchiveReturn

\* A process that can go on does, a deadline passes even while its condition
\* comes and goes, Flux reconciles on its interval, and the operator runs the
\* recovery again until it is complete, as the runbook says.
RerunSpec ==
  /\ Spec
  /\ WF_vars(Proceeds)
  /\ SF_vars(GivesUp)
  /\ WF_vars(FluxApplies)
  /\ WF_vars(StartRecover(Resumed))

\* Every run of either script ends and frees the lock, whatever the regions do
\* meanwhile: no wait is without a deadline.
EveryRunEnds == ~Idle ~> Idle

\* From some point on no command fails, no runner dies, the primary stays as it
\* is, and nobody returns or resets.
Calm ==
  <>[][/\ Stops => GivesUp
       /\ ~RegionChanges /\ ~DrillPower(TRUE)
       /\ StopPrimary => ~running' \/ ~reachable
       /\ ~StartReturn /\ ~Reset /\ ~RemoveByHand]_vars

\* A recovery never wedges itself: once commands stop failing, running it again
\* completes it from whatever stage it failed in, unless its environment was
\* removed by hand (or the bound on environments is reached). A new run against
\* an environment that is left over needs one whose backups never ran.
RecoveryCompletes ==
  Calm =>
    ((/\ recStarted # 0 /\ Untouched
      /\ recPassed < Flux => BackupsSuspended /\ ~runSettings)
       ~> (\/ recPassed = Resumed
           \/ recStarted = 0 \/ ~Untouched
           \/ recPassed >= Provisioning /\ env = NoEnv
           \/ recPassed < Provisioning /\ env = NoEnv /\ envs = MaxEnvs))
===============================================================================
