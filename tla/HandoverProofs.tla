---------------------------- MODULE HandoverProofs ----------------------------
(***************************************************************************)
(* What serves, and from which data: that the public name, the recovery     *)
(* environment and the recorded set, HEAD and stages agree through every    *)
(* failure and resume, that a return ends on the primary and destroys only  *)
(* what was recorded, and that both scripts implement Handover. For any     *)
(* number of runs, environments and sets, when neither of the two moves of  *)
(* GapNames that break the fence is made. A reset while the                 *)
(* recovery cluster serves breaks one of these, ServesRestoredData.         *)
(***************************************************************************)
EXTENDS FailoverProofs

-----------------------------------------------------------------------------
(* The inductive invariant, beside FenceInv.                                *)

\* A place of a script lies in the first stage that its run state does not list.
AtPendingStage ==
  /\ pc = "preflight" => recPassed = 0
  /\ pc \in {"provisioning", "record-address", "dns-dr", "dr-wait"} => recPassed = 1
  /\ pc = "bootstrap" => recPassed = 2
  /\ pc = "flux-reconcile" => recPassed = 3
  /\ pc \in {"restore", "restoring", "loaded"} => recPassed = 4
  /\ pc \in {"verification", "write-check", "recheck"} => recPassed = 5
  /\ pc \in {"fence", "disable", "silent"} => recPassed = 6
  /\ pc \in {"dns-cutover", "cutover-wait"} => recPassed = 7
  /\ pc = "probe-recovery" => recPassed = 8
  /\ pc \in {"resume-backups", "resume-wait"} => recPassed = 9
  /\ pc \in {"start-primary", "primary-health"} => retPassed = 0
  /\ pc \in {"dns-return", "return-checks"} => retPassed = 1
  /\ pc \in {"suspend-recovery-backups", "suspend-wait"} => retPassed = 2
  /\ pc \in {"lift-fence", "record-lift"} => retPassed = 3
  /\ pc \in {"remove-recovery", "destroy", "destroyed"} => retPassed = 4
  /\ pc = "primary-backup" => retPassed = 5

\* Once provisioning passed, the environment that stands is the recorded one: it
\* stands while a recovery runs, and a return began only on it. git-dr names
\* nothing else.
EnvironmentRecorded ==
  /\ env = NoEnv => content = 0 /\ ~runSettings /\ suspended
  /\ gitDr # NoEnv => gitDr = env
  /\ recPassed >= Provisioning /\ env # NoEnv => env = recAddress
  /\ pc = "record-address" => env # NoEnv
  /\ pc \in RecoverPlaces \ {"preflight", "provisioning", "record-address"}
       => env # NoEnv /\ env = recAddress
  /\ Returning => recPassed >= Provisioning

\* Once a set is loaded, the environment holds the recorded set, and nothing is
\* written to it before the HEAD is recorded.
DataRecorded ==
  /\ pc = "restoring" => recSet # 0
  /\ (pc = "loaded" \/ recPassed >= Restored) /\ env # NoEnv =>
       /\ content = recSet /\ recSet # 0
       /\ recHead = 0 => ~written
  /\ pc \in {"write-check", "recheck"} \/ recPassed >= Verified => recHead # 0
  /\ recHead # 0 => recHead = recSet
  /\ recPassed < Restored => recHead = 0

\* From flux-reconcile to the cutover the CronJob of the recovery stays
\* suspended unless the cluster has served since before, and a quiet one has
\* written no set of this run. The CronJob starts only behind the public name,
\* before resume-backups passed, and still runs without run-settings only until
\* Flux has followed a return.
BackupsFollow ==
  /\ recStarted # 0 => recStarted = runs
  /\ recPassed \in Flux..CutOver =>
       /\ publicName = Primary => Quiet
       /\ Quiet => recoverySet < recStarted
  /\ runSettings /\ suspended => publicName # Primary /\ recPassed < Resumed
  /\ RecoveryBacksUp /\ ~runSettings => publicName = Primary

\* The public name points at the environment that stands, and at the recorded one
\* from the passed cutover on until a return begins.
NameFollows ==
  /\ publicName # Primary => publicName = env
  /\ recPassed >= CutOver /\ Untouched => publicName = recAddress /\ publicName # Primary
  /\ pc = "cutover-wait" => publicName = recAddress

\* What a passed stage of the return did stays done, and only a set begun after
\* the lift satisfies its last wait.
ReturnFollows ==
  /\ pc \in {"record-lift", "remove-recovery", "destroy", "destroyed", "primary-backup"}
       => ~workerDisabled
  /\ retPassed >= Lifted /\ Returning => ~workerDisabled
  /\ pc = "destroyed" => env = NoEnv
  /\ retPassed >= Removed /\ Returning => env = NoEnv
  /\ newest <= begun /\ opened <= begun + 1
  /\ retPassed >= Lifted /\ Returning => opened <= retLifted
  /\ retPassed = Returned /\ Returning => newest >= retLifted

ServeInv ==
  /\ AtPendingStage
  /\ EnvironmentRecorded
  /\ DataRecorded
  /\ BackupsFollow
  /\ NameFollows
  /\ ReturnFollows

\* Without a reset of a serving recovery: the public name points at a recovery
\* cluster only beside a run state whose fence stage passed, so no run state of a
\* serving recovery is archived.
ServesAsRecorded ==
  /\ publicName # Primary => recPassed >= Fenced
  /\ pc \in {"archive", "archive-return"} => publicName = Primary

\* What happens around the scripts keeps ServeInv: a reconcile resumes the CronJob
\* only behind the public name, and nobody removes an environment that serves.
LEMMA ServeEnvironment ==
  ASSUME TypeOK, FenceInv, ServeInv, Environment
  PROVE  ServeInv'
<1> USE DEF TypeOK, ServeInv, AtPendingStage, EnvironmentRecorded, DataRecorded, BackupsFollow,
            NameFollows, ReturnFollows, FenceInv, RunsNamed, LockedFor, FenceStands, NameIsBack,
            BackupsWithdrawn, CutoverIsFenced, FenceOutlastsBackups, Returning, Untouched, Quiet,
            RecoveryBacksUp, OwnWrite, Primary, NoEnv, RecoverPlaces, RecoverSteps, ReturnPlaces, ReturnSteps,
            Provisioning, Flux, Restored, Verified, Fenced, CutOver, Probed, Resumed,
            DnsReturned, Withdrawn, Lifted, Removed, Returned,
            primaryVars, setVars, nameVars, envVars, recVars, retVars, lockVars, runValues, PassStage,
            PassReturnStage
<1>1. CASE RegionChanges
  BY <1>1, BoundsAssumption DEF RegionChanges
<1>2. CASE \E on \in BOOLEAN : DrillPower(on)
  BY <1>2, BoundsAssumption DEF DrillPower, Power
<1>3. CASE BeginSet
  BY <1>3, BoundsAssumption DEF BeginSet
<1>7. CASE EndSet
  BY <1>7, BoundsAssumption DEF EndSet, PrimaryBacksUp
<1>4. CASE RecoveryBackup
  BY <1>4, BoundsAssumption DEF RecoveryBackup
<1>5. CASE FluxApplies
  BY <1>5, BoundsAssumption DEF FluxApplies
<1>6. CASE RemoveByHand
  BY <1>6, BoundsAssumption DEF RemoveByHand, Idle
<1> QED BY <1>1, <1>2, <1>3, <1>4, <1>5, <1>6, <1>7 DEF Environment

\* Every step of a recovery keeps ServeInv.
LEMMA ServeRecover ==
  ASSUME TypeOK, FenceInv, ServeInv, RecoverStep
  PROVE  ServeInv'
<1> USE DEF TypeOK, ServeInv, AtPendingStage, EnvironmentRecorded, DataRecorded, BackupsFollow,
            NameFollows, ReturnFollows, FenceInv, RunsNamed, LockedFor, FenceStands, NameIsBack,
            BackupsWithdrawn, CutoverIsFenced, FenceOutlastsBackups, Returning, Untouched, Quiet,
            RecoveryBacksUp, OwnWrite, Primary, NoEnv, RecoverPlaces, RecoverSteps, ReturnPlaces, ReturnSteps,
            Provisioning, Flux, Restored, Verified, Fenced, CutOver, Probed, Resumed,
            DnsReturned, Withdrawn, Lifted, Removed, Returned,
            primaryVars, setVars, nameVars, envVars, recVars, retVars, lockVars, runValues, PassStage,
            PassReturnStage
<1>1. CASE Preflight
  BY <1>1, BoundsAssumption DEF Preflight
<1>2. CASE Apply
  BY <1>2, BoundsAssumption DEF Apply
<1>3. CASE RecordAddress
  BY <1>3, BoundsAssumption DEF RecordAddress
<1>4. CASE SetGitDr
  BY <1>4, BoundsAssumption DEF SetGitDr
<1>5. CASE Provisioned
  BY <1>5, BoundsAssumption DEF Provisioned
<1>6. CASE Bootstrap
  BY <1>6, BoundsAssumption DEF Bootstrap
<1>7. CASE FluxReconcile
  BY <1>7, BoundsAssumption DEF FluxReconcile, BackupsSuspended
<1>8. CASE ChooseSet
  BY <1>8, BoundsAssumption DEF ChooseSet
<1>9. CASE WipeData
  BY <1>9, BoundsAssumption DEF WipeData
<1>10. CASE LoadSet
  BY <1>10, BoundsAssumption DEF LoadSet
<1>11. CASE RestorePassed
  BY <1>11, BoundsAssumption DEF RestorePassed
<1>12. CASE RecordHead
  BY <1>12, BoundsAssumption DEF RecordHead
<1>13. CASE WriteCheck
  BY <1>13, BoundsAssumption DEF WriteCheck
<1>14. CASE Verify
  BY <1>14, BoundsAssumption DEF Verify, BackupsSuspended
<1>15. CASE StopPrimary
  BY <1>15, BoundsAssumption DEF StopPrimary, Power
<1>16. CASE DisableWorker
  BY <1>16, BoundsAssumption DEF DisableWorker
<1>17. CASE Fence
  BY <1>17, BoundsAssumption DEF Fence
<1>18. CASE SetPublicName
  BY <1>18, BoundsAssumption DEF SetPublicName
<1>19. CASE DnsCutover
  BY <1>19, BoundsAssumption DEF DnsCutover
<1>20. CASE ProbeRecovery
  BY <1>20, BoundsAssumption DEF ProbeRecovery
<1>21. CASE CreateRunSettings
  BY <1>21, BoundsAssumption DEF CreateRunSettings
<1>22. CASE ResumeBackups
  BY <1>22, BoundsAssumption DEF ResumeBackups
<1> QED BY <1>1, <1>2, <1>3, <1>4, <1>5, <1>6, <1>7, <1>8, <1>9, <1>10, <1>11, <1>12, <1>13, <1>14, <1>15, <1>16, <1>17, <1>18, <1>19, <1>20, <1>21, <1>22 DEF RecoverStep

\* Every step of a return keeps ServeInv.
LEMMA ServeReturn ==
  ASSUME TypeOK, FenceInv, ServeInv, ReturnStep
  PROVE  ServeInv'
<1> USE DEF TypeOK, ServeInv, AtPendingStage, EnvironmentRecorded, DataRecorded, BackupsFollow,
            NameFollows, ReturnFollows, FenceInv, RunsNamed, LockedFor, FenceStands, NameIsBack,
            BackupsWithdrawn, CutoverIsFenced, FenceOutlastsBackups, Returning, Untouched, Quiet,
            RecoveryBacksUp, OwnWrite, Primary, NoEnv, RecoverPlaces, RecoverSteps, ReturnPlaces, ReturnSteps,
            Provisioning, Flux, Restored, Verified, Fenced, CutOver, Probed, Resumed,
            DnsReturned, Withdrawn, Lifted, Removed, Returned,
            primaryVars, setVars, nameVars, envVars, recVars, retVars, lockVars, runValues, PassStage,
            PassReturnStage
<1>1. CASE StartPrimary
  BY <1>1, BoundsAssumption DEF StartPrimary
<1>2. CASE PrimaryStarted
  BY <1>2, BoundsAssumption DEF PrimaryStarted
<1>3. CASE SetPublicNameBack
  BY <1>3, BoundsAssumption DEF SetPublicNameBack
<1>4. CASE DnsReturn
  BY <1>4, BoundsAssumption DEF DnsReturn
<1>5. CASE SkipSuspend
  BY <1>5, BoundsAssumption DEF SkipSuspend
<1>6. CASE DeleteRunSettings
  BY <1>6, BoundsAssumption DEF DeleteRunSettings
<1>7. CASE SuspendRecoveryBackups
  BY <1>7, BoundsAssumption DEF SuspendRecoveryBackups
<1>8. CASE EnableWorker
  BY <1>8, BoundsAssumption DEF EnableWorker
<1>9. CASE LiftFence
  BY <1>9, BoundsAssumption DEF LiftFence
<1>10. CASE DeleteGitDr
  BY <1>10, BoundsAssumption DEF DeleteGitDr
<1>11. CASE Destroy
  BY <1>11, BoundsAssumption DEF Destroy
<1>12. CASE RemoveRecovery
  BY <1>12, BoundsAssumption DEF RemoveRecovery
<1>13. CASE PrimaryBackedUp
  BY <1>13, BoundsAssumption DEF PrimaryBackedUp
<1> QED BY <1>1, <1>2, <1>3, <1>4, <1>5, <1>6, <1>7, <1>8, <1>9, <1>10, <1>11, <1>12, <1>13 DEF ReturnStep

\* Starting either script keeps ServeInv, as long as nobody resumes a recovery
\* under a return or returns while resume-backups is half done. A reset while the
\* recovery cluster serves may happen.
LEMMA ServeLock ==
  ASSUME TypeOK, FenceInv, ServeInv,
         "resume-after-return" \notin Gaps, "return-while-resumed" \notin Gaps,
         \/ \E through \in Throughs : StartRecover(through)
         \/ StartReturn \/ Reset \/ ArchiveRecovery \/ ArchiveReturn \/ Stops
  PROVE  ServeInv'
<1> USE DEF TypeOK, ServeInv, AtPendingStage, EnvironmentRecorded, DataRecorded, BackupsFollow,
            NameFollows, ReturnFollows, FenceInv, RunsNamed, LockedFor, FenceStands, NameIsBack,
            BackupsWithdrawn, CutoverIsFenced, FenceOutlastsBackups, Returning, Untouched, Quiet,
            RecoveryBacksUp, OwnWrite, Primary, NoEnv, RecoverPlaces, RecoverSteps, ReturnPlaces, ReturnSteps,
            Provisioning, Flux, Restored, Verified, Fenced, CutOver, Probed, Resumed,
            DnsReturned, Withdrawn, Lifted, Removed, Returned,
            primaryVars, setVars, nameVars, envVars, recVars, retVars, lockVars
<1>1. CASE \E through \in Throughs : StartRecover(through)
  <2>1. PICK through \in Throughs : StartRecover(through)
    BY <1>1
  <2>2. recPassed \in 0..9
    BY <2>1, ThroughsAssumption DEF StartRecover
  <2>3. pc' = RecoverStages[recPassed + 1]
    BY <2>1 DEF StartRecover
  <2>4. /\ recPassed = 0 => pc' = "preflight"
        /\ recPassed = 1 => pc' = "provisioning"
        /\ recPassed = 2 => pc' = "bootstrap"
        /\ recPassed = 3 => pc' = "flux-reconcile"
        /\ recPassed = 4 => pc' = "restore"
        /\ recPassed = 5 => pc' = "verification"
        /\ recPassed = 6 => pc' = "fence"
        /\ recPassed = 7 => pc' = "dns-cutover"
        /\ recPassed = 8 => pc' = "probe-recovery"
        /\ recPassed = 9 => pc' = "resume-backups"
    BY <2>2, <2>3, RecoverStageNames
  <2>5. (Untouched /\ Untouched') \/ recStarted = 0
    BY <2>1 DEF StartRecover
  <2> QED BY <2>1, <2>2, <2>4, <2>5 DEF StartRecover, EnvironmentStands
<1>2. CASE StartReturn
  <2>1. retPassed \in 0..6 /\ recStarted # 0 /\ retFor' = recStarted
    BY <1>2 DEF StartReturn
  <2>2. \/ UNCHANGED <<retBegun, pc>>
        \/ /\ retPassed < Lifted => RecordedEnvironment
           /\ retBegun' = TRUE /\ pc' = ReturnStages[retPassed + 1]
    BY <1>2 DEF StartReturn
  <2>3. CASE UNCHANGED <<retBegun, pc>>
    BY <1>2, <2>1, <2>3 DEF StartReturn, Recovery, Idle
  <2>4. CASE /\ retPassed < Lifted => RecordedEnvironment
             /\ retBegun' = TRUE /\ pc' = ReturnStages[retPassed + 1]
    <3>1. /\ retPassed = 0 => pc' = "start-primary"
          /\ retPassed = 1 => pc' = "dns-return"
          /\ retPassed = 2 => pc' = "suspend-recovery-backups"
          /\ retPassed = 3 => pc' = "lift-fence"
          /\ retPassed = 4 => pc' = "remove-recovery"
          /\ retPassed = 5 => pc' = "primary-backup"
          /\ retPassed = 6 => pc' = "archive"
      BY <2>1, <2>4, ReturnStageNames
    <3>2. retPassed # 0 => Returning
      BY <1>2 DEF StartReturn, Recovery
    <3>3. ~(runSettings /\ suspended)
      BY <1>2, <2>1 DEF StartReturn
    <3>4. Returning' /\ recPassed' >= Provisioning
      BY <1>2, <2>1, <2>4, <3>2 DEF StartReturn, RecordedEnvironment
    <3> QED BY <1>2, <2>1, <3>1, <3>2, <3>3, <3>4 DEF StartReturn
  <2> QED BY <2>2, <2>3, <2>4
<1>3. CASE Reset
  BY <1>3 DEF Reset, Idle
<1>4. CASE ArchiveRecovery
  BY <1>4 DEF ArchiveRecovery
<1>5. CASE ArchiveReturn
  BY <1>5 DEF ArchiveReturn
<1>6. CASE Stops
  BY <1>6 DEF Stops, Idle
<1> QED BY <1>1, <1>2, <1>3, <1>4, <1>5, <1>6

\* ServeInv is inductive, given the types and FenceInv: the world and both run
\* states agree on the environment, the data and the public name.
THEOREM ServeInvariant ==
  ASSUME "resume-after-return" \notin Gaps, "return-while-resumed" \notin Gaps
  PROVE  Spec => []ServeInv
<1>1. Init => ServeInv
  BY DEF TypeOK, ServeInv, AtPendingStage, EnvironmentRecorded, DataRecorded, BackupsFollow,
            NameFollows, ReturnFollows, FenceInv, RunsNamed, LockedFor, FenceStands, NameIsBack,
            BackupsWithdrawn, CutoverIsFenced, FenceOutlastsBackups, Returning, Untouched, Quiet,
            RecoveryBacksUp, OwnWrite, Primary, NoEnv, RecoverPlaces, RecoverSteps, ReturnPlaces, ReturnSteps,
            Provisioning, Flux, Restored, Verified, Fenced, CutOver, Probed, Resumed,
            DnsReturned, Withdrawn, Lifted, Removed, Returned,
            primaryVars, setVars, nameVars, envVars, recVars, retVars, lockVars, runValues, PassStage, Init
<1>2. TypeOK /\ FenceInv /\ ServeInv /\ [Next]_vars => ServeInv'
  <2> SUFFICES ASSUME TypeOK, FenceInv, ServeInv, [Next]_vars PROVE ServeInv'
    OBVIOUS
  <2>1. CASE Next
    BY <2>1, ServeEnvironment, ServeRecover, ServeReturn, ServeLock DEF Next
  <2>2. CASE UNCHANGED vars
    BY <2>2 DEF TypeOK, ServeInv, AtPendingStage, EnvironmentRecorded, DataRecorded, BackupsFollow,
            NameFollows, ReturnFollows, FenceInv, RunsNamed, LockedFor, FenceStands, NameIsBack,
            BackupsWithdrawn, CutoverIsFenced, FenceOutlastsBackups, Returning, Untouched, Quiet,
            RecoveryBacksUp, OwnWrite, Primary, NoEnv, RecoverPlaces, RecoverSteps, ReturnPlaces, ReturnSteps,
            Provisioning, Flux, Restored, Verified, Fenced, CutOver, Probed, Resumed,
            DnsReturned, Withdrawn, Lifted, Removed, Returned,
            primaryVars, setVars, nameVars, envVars, recVars, retVars, lockVars, runValues, PassStage, vars
  <2> QED BY <2>1, <2>2
<1>3. Spec => []FenceInv
  BY FenceInvariant
<1> QED BY <1>1, <1>2, <1>3, TypeCorrect, PTL DEF Spec

-----------------------------------------------------------------------------
(* What it gives.                                                           *)

\* Neither DNS record points at an environment that is gone.
THEOREM NamesAreLive ==
  ASSUME "resume-after-return" \notin Gaps, "return-while-resumed" \notin Gaps
  PROVE  Spec => []NamesPointAtLive
<1>1. ServeInv => NamesPointAtLive
  BY DEF ServeInv, EnvironmentRecorded, NameFollows, NamesPointAtLive
<1> QED BY <1>1, ServeInvariant, PTL

\* Every step keeps ServesAsRecorded when nobody resets the run state of a
\* recovery that serves.
LEMMA ServesAsRecordedStep ==
  ASSUME TypeOK, FenceInv, ServeInv, ServesAsRecorded, [Next]_vars,
         "reset-while-serving" \notin Gaps
  PROVE  ServesAsRecorded'
<1> USE DEF ServesAsRecorded, Primary, Fenced, primaryVars, setVars, nameVars, envVars, recVars, retVars,
            lockVars, runValues, PassStage, PassReturnStage
<1>1. CASE Environment
  BY <1>1 DEF Environment, RegionChanges, DrillPower, Power, BeginSet, EndSet, RecoveryBackup, FluxApplies,
         RemoveByHand
<1>2. CASE RecoverStep
  <2>1. recPassed \in Nat /\ recPassed' \in Nat /\ recPassed <= recPassed'
    <3> USE DEF TypeOK, ServeInv, AtPendingStage, Provisioning, Flux, Restored, Verified, CutOver,
                Probed, Resumed
    <3>1. CASE Preflight \/ Provisioned \/ Bootstrap \/ FluxReconcile \/ RestorePassed
      BY <3>1 DEF Preflight, Provisioned, Bootstrap, FluxReconcile, RestorePassed
    <3>2. CASE Verify \/ Fence \/ DnsCutover \/ ProbeRecovery \/ ResumeBackups
      BY <3>2 DEF Verify, Fence, DnsCutover, ProbeRecovery, ResumeBackups
    <3>3. CASE Apply \/ RecordAddress \/ SetGitDr \/ ChooseSet \/ WipeData \/ LoadSet
               \/ RecordHead \/ WriteCheck \/ StopPrimary \/ DisableWorker \/ SetPublicName
               \/ CreateRunSettings
      <4>1. UNCHANGED recPassed
        BY <3>3 DEF Apply, RecordAddress, SetGitDr, ChooseSet, WipeData, LoadSet, RecordHead,
               WriteCheck, StopPrimary, DisableWorker, SetPublicName, CreateRunSettings
      <4> QED BY <4>1
    <3> QED BY <1>2, <3>1, <3>2, <3>3 DEF RecoverStep
  <2>2. publicName' = publicName \/ pc = "dns-cutover"
    BY <1>2 DEF RecoverStep, Preflight, Apply, RecordAddress, SetGitDr, Provisioned, Bootstrap,
           FluxReconcile, ChooseSet, WipeData, LoadSet, RestorePassed, RecordHead, WriteCheck,
           Verify, StopPrimary, DisableWorker, Fence, SetPublicName, DnsCutover, ProbeRecovery,
           CreateRunSettings, ResumeBackups
  <2>3. pc' \notin {"archive", "archive-return"}
    BY <1>2 DEF RecoverStep, Preflight, Apply, RecordAddress, SetGitDr, Provisioned, Bootstrap,
           FluxReconcile, ChooseSet, WipeData, LoadSet, RestorePassed, RecordHead, WriteCheck,
           Verify, StopPrimary, DisableWorker, Fence, SetPublicName, DnsCutover, ProbeRecovery,
           CreateRunSettings, ResumeBackups
  <2> QED BY <2>1, <2>2, <2>3 DEF TypeOK, ServeInv, AtPendingStage
<1>3. CASE ReturnStep
  <2>1. UNCHANGED recPassed /\ publicName' \in {publicName, Primary}
    BY <1>3 DEF ReturnStep, StartPrimary, PrimaryStarted, SetPublicNameBack, DnsReturn,
           SkipSuspend, DeleteRunSettings, SuspendRecoveryBackups, EnableWorker, LiftFence,
           DeleteGitDr, Destroy, RemoveRecovery, PrimaryBackedUp
  <2>2. pc' \in {"archive", "archive-return"} => pc = "primary-backup"
    BY <1>3 DEF ReturnStep, StartPrimary, PrimaryStarted, SetPublicNameBack, DnsReturn,
           SkipSuspend, DeleteRunSettings, SuspendRecoveryBackups, EnableWorker, LiftFence,
           DeleteGitDr, Destroy, RemoveRecovery, PrimaryBackedUp
  <2>3. pc = "primary-backup" => publicName = Primary
    BY DEF FenceInv, NameIsBack, ReturnPlaces, ReturnSteps
  <2> QED BY <2>1, <2>2, <2>3
<1>4. CASE \E through \in Throughs : StartRecover(through)
  <2>1. PICK through \in Throughs : StartRecover(through)
    BY <1>4
  <2>2. pc' \notin {"archive", "archive-return"}
    <3>1. recPassed \in 0..9 /\ pc' = RecoverStages[recPassed + 1]
      BY <2>1, ThroughsAssumption DEF StartRecover, TypeOK, Resumed
    <3> QED BY <3>1, RecoverStageNames
  <2> QED BY <2>1, <2>2 DEF StartRecover
<1>5. CASE StartReturn
  <2>1. UNCHANGED <<publicName, recPassed>>
    BY <1>5 DEF StartReturn
  <2>2. retPassed \in 0..6 /\ recStarted # 0 /\ (retPassed # 0 => Returning)
    BY <1>5 DEF StartReturn, TypeOK, Returned, FenceInv, RunsNamed, Returning, Recovery
  <2>3. pc' \in {"archive", "archive-return"} => retPassed = 6
    BY <1>5, <2>2, ReturnStageNames DEF StartReturn, Idle
  <2>4. retPassed = 6 => publicName = Primary
    BY <2>2 DEF FenceInv, NameIsBack, DnsReturned
  <2> QED BY <2>1, <2>3, <2>4
<1>6. CASE Reset
  BY <1>6 DEF Reset
<1>7. CASE ArchiveRecovery
  BY <1>7 DEF ArchiveRecovery
<1>8. CASE ArchiveReturn \/ Stops
  BY <1>8 DEF ArchiveReturn, Stops
<1>9. CASE UNCHANGED vars
  BY <1>9 DEF vars
<1> QED BY <1>1, <1>2, <1>3, <1>4, <1>5, <1>6, <1>7, <1>8, <1>9 DEF Next

\* A recovery cluster that has the public name holds a restored set whole, when
\* nobody resets its run state meanwhile: a recovery that starts after such a
\* reset restores over the cluster that serves.
THEOREM ServesWholeSet ==
  ASSUME GapNames \cap Gaps = {}
  PROVE  Spec => []ServesRestoredData
<1>1. Init => ServesAsRecorded
  BY DEF Init, ServesAsRecorded
<1>2. TypeOK /\ FenceInv /\ ServeInv /\ ServesAsRecorded /\ [Next]_vars => ServesAsRecorded'
  BY ServesAsRecordedStep DEF GapNames
<1>3. TypeOK /\ ServeInv /\ ServesAsRecorded => ServesRestoredData
  BY DEF TypeOK, ServeInv, DataRecorded, NameFollows, ServesAsRecorded, ServesRestoredData,
         Primary, NoEnv, Fenced, Restored
<1>4. Spec => []FenceInv /\ []ServeInv
  BY FenceInvariant, ServeInvariant DEF GapNames
<1> QED BY <1>1, <1>2, <1>3, <1>4, TypeCorrect, PTL DEF Spec

\* The HEAD that the data loss is computed from is the HEAD of the chosen set.
THEOREM HeadIsRestored ==
  ASSUME "resume-after-return" \notin Gaps, "return-while-resumed" \notin Gaps
  PROVE  Spec => []HeadIsOfTheSet
<1>1. ServeInv => HeadIsOfTheSet
  BY DEF ServeInv, DataRecorded, HeadIsOfTheSet
<1> QED BY <1>1, ServeInvariant, PTL

\* A verified recovery writes no set before it serves.
THEOREM NoEarlySet ==
  ASSUME "resume-after-return" \notin Gaps, "return-while-resumed" \notin Gaps
  PROVE  Spec => []NoSetBeforeCutover
<1>1. TypeOK /\ ServeInv => NoSetBeforeCutover
  BY DEF TypeOK, ServeInv, BackupsFollow, NoSetBeforeCutover, Verified, Fenced, Flux, CutOver
<1> QED BY <1>1, TypeCorrect, ServeInvariant, PTL

\* A recovery whose last stage passed serves the recorded set from the recorded
\* environment, until a return begins.
THEOREM CompleteServes ==
  ASSUME "resume-after-return" \notin Gaps, "return-while-resumed" \notin Gaps
  PROVE  Spec => []CompleteMeansServing
<1>1. TypeOK /\ FenceInv /\ ServeInv => CompleteMeansServing
  BY DEF TypeOK, FenceInv, FenceStands, ServeInv, DataRecorded, NameFollows,
         CompleteMeansServing, Primary, NoEnv, Resumed, CutOver, Fenced, Restored
<1>2. Spec => []FenceInv
  BY FenceInvariant
<1> QED BY <1>1, <1>2, TypeCorrect, ServeInvariant, PTL

\* A return whose last stage passed has ended on the primary.
THEOREM ReturnEnds ==
  ASSUME "resume-after-return" \notin Gaps, "return-while-resumed" \notin Gaps
  PROVE  Spec => []ReturnEndsOnPrimary
<1>1. TypeOK /\ FenceInv /\ ServeInv => ReturnEndsOnPrimary
  <2> SUFFICES ASSUME TypeOK, FenceInv, ServeInv, retPassed = Returned, Recovery = recStarted
               PROVE  /\ publicName = Primary /\ gitDr = NoEnv /\ env = NoEnv
                      /\ ~workerDisabled /\ newest >= opened
    BY DEF ReturnEndsOnPrimary
  <2>1. Returning
    BY DEF FenceInv, RunsNamed, Returning, Recovery, Returned
  <2>2. publicName = Primary
    BY <2>1 DEF FenceInv, NameIsBack, Returned, DnsReturned
  <2>3. env = NoEnv /\ ~workerDisabled /\ opened <= retLifted /\ newest >= retLifted
    BY <2>1 DEF ServeInv, ReturnFollows, Returned, Removed, Lifted
  <2>4. gitDr = NoEnv
    BY <2>3 DEF ServeInv, EnvironmentRecorded
  <2>5. newest >= opened
    BY <2>3, BoundsAssumption DEF TypeOK, OwnWrite
  <2> QED BY <2>2, <2>3, <2>4, <2>5
<1>2. Spec => []FenceInv
  BY FenceInvariant
<1> QED BY <1>1, <1>2, TypeCorrect, ServeInvariant, PTL

\* A script removes an environment only as the return of the recovery that
\* recorded it.
THEOREM RemovesOnlyRecorded ==
  ASSUME "resume-after-return" \notin Gaps, "return-while-resumed" \notin Gaps
  PROVE  Spec => OnlyRecordedRemoved
<1> DEFINE Removal == ~Idle /\ env # NoEnv /\ env' # env => env = recAddress /\ retFor = recStarted
<1>1. TypeOK /\ FenceInv /\ ServeInv /\ [Next]_vars => [Removal]_vars
  <2> SUFFICES ASSUME TypeOK, FenceInv, ServeInv, Next, ~Idle, env # NoEnv, env' # env
               PROVE  env = recAddress /\ retFor = recStarted
    OBVIOUS
  <2>1. Destroy
    <3>1. ~Environment
      BY DEF Environment, RegionChanges, DrillPower, Power, BeginSet, EndSet, RecoveryBackup, FluxApplies,
             RemoveByHand, envVars
    <3>2. ~RecoverStep
      BY DEF RecoverStep, Preflight, Apply, RecordAddress, SetGitDr, Provisioned, Bootstrap,
             FluxReconcile, ChooseSet, WipeData, LoadSet, RestorePassed, RecordHead, WriteCheck,
             Verify, StopPrimary, DisableWorker, Fence, SetPublicName, DnsCutover, ProbeRecovery,
             CreateRunSettings, ResumeBackups, envVars
    <3>3. ReturnStep
      BY <3>1, <3>2 DEF Next, StartRecover, StartReturn, Reset, ArchiveRecovery, ArchiveReturn,
             Stops, envVars
    <3> QED BY <3>3 DEF ReturnStep, StartPrimary, PrimaryStarted, SetPublicNameBack, DnsReturn,
             SkipSuspend, DeleteRunSettings, SuspendRecoveryBackups, EnableWorker, LiftFence,
             DeleteGitDr, RemoveRecovery, PrimaryBackedUp, envVars
  <2>2. Returning
    BY <2>1 DEF Destroy, FenceInv, LockedFor, ReturnPlaces, ReturnSteps
  <2> QED BY <2>2 DEF Returning, ServeInv, EnvironmentRecorded
<1>2. Spec => []FenceInv
  BY FenceInvariant
<1> QED BY <1>1, <1>2, TypeCorrect, ServeInvariant, PTL DEF Spec, OnlyRecordedRemoved

-----------------------------------------------------------------------------
(* The refinement of Handover.                                              *)

\* What happens around the scripts is a step of the hand-over or none: Flux
\* starts the CronJob behind the public name, and stops it once the name is back.
LEMMA HandoverEnvironment ==
  ASSUME TypeOK, FenceInv, ServeInv, Environment
  PROVE  [H!HNext]_H!hvars
<1> USE DEF RecoveryBacksUp, Primary, NoEnv, H!hvars, H!HNext, primaryVars, setVars, nameVars, envVars,
            recVars, retVars, lockVars, runValues, PassStage, PassReturnStage
<1>1. CASE FluxApplies
  <2>1. CASE suspended
    <3>1. runSettings /\ publicName # Primary /\ workerDisabled
      BY <1>1, <2>1 DEF FluxApplies, ServeInv, BackupsFollow, NameFollows, FenceInv,
             CutoverIsFenced, Probed, CutOver
    <3> QED BY <1>1, <2>1, <3>1 DEF FluxApplies, H!GiveRecovery
  <2>2. CASE ~suspended
    <3>1. publicName = Primary
      BY <1>1, <2>2 DEF FluxApplies, ServeInv, BackupsFollow
    <3> QED BY <1>1, <2>2, <3>1 DEF FluxApplies, H!TakeRecovery
  <2> QED BY <2>1, <2>2
<1>2. CASE RemoveByHand
  BY <1>2 DEF RemoveByHand, FenceInv, FenceOutlastsBackups
<1>3. CASE RegionChanges \/ \E on \in BOOLEAN : DrillPower(on) \/ BeginSet \/ EndSet \/
          RecoveryBackup
  <2>1. UNCHANGED <<publicName, workerDisabled, env, suspended>>
    BY <1>3 DEF RegionChanges, DrillPower, BeginSet, EndSet, RecoveryBackup
  <2> QED BY <2>1
<1> QED BY <1>1, <1>2, <1>3 DEF Environment

\* A step of a recovery takes the right to back up from the primary, or moves the
\* name of a fenced one.
LEMMA HandoverRecover ==
  ASSUME TypeOK, FenceInv, ServeInv, RecoverStep
  PROVE  [H!HNext]_H!hvars
<1> USE DEF RecoveryBacksUp, Primary, NoEnv, H!hvars, H!HNext, primaryVars, setVars, nameVars, envVars,
            recVars, retVars, lockVars, runValues, PassStage, PassReturnStage
<1>1. CASE Apply
  BY <1>1 DEF Apply
<1>2. CASE DisableWorker
  BY <1>2 DEF DisableWorker, H!TakePrimary
<1>3. CASE SetPublicName
  <2>1. workerDisabled /\ recAddress # Primary
    BY <1>3 DEF SetPublicName, FenceInv, FenceStands, ServeInv, EnvironmentRecorded, RecoverPlaces
  <2> QED BY <1>3, <2>1 DEF SetPublicName, H!MoveName
<1>4. CASE Preflight \/ RecordAddress \/ SetGitDr \/ Provisioned \/ Bootstrap \/
          FluxReconcile \/ ChooseSet \/ WipeData \/ LoadSet \/ RestorePassed \/ RecordHead
          \/ WriteCheck \/ Verify \/ StopPrimary \/ Fence \/ DnsCutover \/ ProbeRecovery \/
          CreateRunSettings \/ ResumeBackups
  <2>1. UNCHANGED <<publicName, workerDisabled, env, suspended>>
    BY <1>4 DEF Preflight, RecordAddress, SetGitDr, Provisioned, Bootstrap, FluxReconcile,
       ChooseSet, WipeData, LoadSet, RestorePassed, RecordHead, WriteCheck, Verify,
       StopPrimary, Fence, DnsCutover, ProbeRecovery, CreateRunSettings, ResumeBackups
  <2> QED BY <2>1
<1> QED BY <1>1, <1>2, <1>3, <1>4 DEF RecoverStep

\* A step of a return moves the name back behind the fence, and lifts it last.
LEMMA HandoverReturn ==
  ASSUME TypeOK, FenceInv, ServeInv, ReturnStep
  PROVE  [H!HNext]_H!hvars
<1> USE DEF RecoveryBacksUp, Primary, NoEnv, H!hvars, H!HNext, primaryVars, setVars, nameVars, envVars,
            recVars, retVars, lockVars, runValues, PassStage, PassReturnStage
<1>1. CASE SetPublicNameBack
  BY <1>1 DEF SetPublicNameBack, FenceInv, CutoverIsFenced, H!MoveNameBack
<1>2. CASE EnableWorker
  <2>1. publicName = Primary /\ Quiet
    BY <1>2 DEF EnableWorker, FenceInv, NameIsBack, BackupsWithdrawn, ReturnPlaces
  <2> QED BY <1>2, <2>1 DEF EnableWorker, Quiet, H!GivePrimary
<1>3. CASE Destroy
  <2>1. Quiet
    BY <1>3 DEF Destroy, FenceInv, BackupsWithdrawn
  <2> QED BY <1>3, <2>1 DEF Destroy, Quiet
<1>4. CASE StartPrimary \/ PrimaryStarted \/ DnsReturn \/ SkipSuspend \/ DeleteRunSettings
          \/ SuspendRecoveryBackups \/ LiftFence \/ DeleteGitDr \/ RemoveRecovery \/
          PrimaryBackedUp
  <2>1. UNCHANGED <<publicName, workerDisabled, env, suspended>>
    BY <1>4 DEF StartPrimary, PrimaryStarted, DnsReturn, SkipSuspend, DeleteRunSettings,
       SuspendRecoveryBackups, LiftFence, DeleteGitDr, RemoveRecovery, PrimaryBackedUp
  <2> QED BY <2>1
<1> QED BY <1>1, <1>2, <1>3, <1>4 DEF ReturnStep

\* The two scripts, with their failures, resumes and resets, implement the
\* hand-over of the service: one cluster at a time may back up, the name moves
\* only behind the fence, and the fence is lifted last.
THEOREM ImplementsHandover ==
  ASSUME "resume-after-return" \notin Gaps, "return-while-resumed" \notin Gaps
  PROVE  Spec => HandoverSpec
<1>1. Init => H!HInit
  BY DEF Init, H!HInit, RecoveryBacksUp, Primary, NoEnv
<1>2. TypeOK /\ FenceInv /\ ServeInv /\ [Next]_vars => [H!HNext]_H!hvars
  <2> SUFFICES ASSUME TypeOK, FenceInv, ServeInv, [Next]_vars PROVE [H!HNext]_H!hvars
    OBVIOUS
  <2>1. CASE Environment \/ RecoverStep \/ ReturnStep
    BY <2>1, HandoverEnvironment, HandoverRecover, HandoverReturn
  <2>2. CASE \/ \E through \in Throughs : StartRecover(through)
             \/ StartReturn \/ Reset \/ ArchiveRecovery \/ ArchiveReturn \/ Stops
    BY <2>2 DEF StartRecover, StartReturn, Reset, ArchiveRecovery, ArchiveReturn, Stops,
           primaryVars, setVars, nameVars, envVars, H!hvars, RecoveryBacksUp
  <2>3. CASE UNCHANGED vars
    BY <2>3 DEF vars, primaryVars, setVars, nameVars, envVars, H!hvars, RecoveryBacksUp
  <2> QED BY <2>1, <2>2, <2>3 DEF Next
<1>3. Spec => []FenceInv
  BY FenceInvariant
<1> QED BY <1>1, <1>2, <1>3, TypeCorrect, ServeInvariant, PTL DEF Spec, HandoverSpec, H!Spec
===============================================================================
