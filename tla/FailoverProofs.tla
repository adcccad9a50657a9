---------------------------- MODULE FailoverProofs ----------------------------
(***************************************************************************)
(* Type correctness of Failover, and that the fence of the primary outlasts *)
(* both the cutover and the backups of the recovery cluster, for any number *)
(* of runs, environments and sets.                                          *)
(***************************************************************************)
EXTENDS Failover, TLAPS

-----------------------------------------------------------------------------
(* Places of the two scripts.                                               *)

\* The places of a recovery, and those of a return before the archive.
RecoverPlaces ==
  {"preflight", "provisioning", "bootstrap", "flux-reconcile", "restore", "verification",
   "fence", "dns-cutover", "probe-recovery", "resume-backups"} \cup RecoverSteps
ReturnPlaces ==
  {"start-primary", "dns-return", "suspend-recovery-backups", "lift-fence",
   "remove-recovery", "primary-backup"} \cup ReturnSteps

\* The stages of recover.STAGES by their position.
LEMMA RecoverStageNames ==
  /\ RecoverStages[1] = "preflight"      /\ RecoverStages[2] = "provisioning"
  /\ RecoverStages[3] = "bootstrap"      /\ RecoverStages[4] = "flux-reconcile"
  /\ RecoverStages[5] = "restore"        /\ RecoverStages[6] = "verification"
  /\ RecoverStages[7] = "fence"          /\ RecoverStages[8] = "dns-cutover"
  /\ RecoverStages[9] = "probe-recovery" /\ RecoverStages[10] = "resume-backups"
  BY DEF RecoverStages

\* The stages of return_to_primary.STAGES by their position.
LEMMA ReturnStageNames ==
  /\ ReturnStages[1] = "start-primary"            /\ ReturnStages[2] = "dns-return"
  /\ ReturnStages[3] = "suspend-recovery-backups" /\ ReturnStages[4] = "lift-fence"
  /\ ReturnStages[5] = "remove-recovery"          /\ ReturnStages[6] = "primary-backup"
  /\ ReturnStages[7] = "archive"
  BY DEF ReturnStages

\* Every place that a step of either script goes to is one of Places.
LEMMA PlaceNames ==
  /\ {"idle", "archive", "archive-return"} \subseteq Places
  /\ RecoverPlaces \subseteq Places
  /\ ReturnPlaces \subseteq Places
<1>1. \A i \in 1..10 : RecoverStages[i] \in Places
  BY DEF Places, Resumed
<1>2. \A i \in 1..7 : ReturnStages[i] \in Places
  BY DEF Places, Returned
<1>3. RecoverPlaces \subseteq Places
  <2>1. RecoverSteps \subseteq Places
    BY DEF Places
  <2>2. {"preflight", "provisioning", "bootstrap", "flux-reconcile", "restore"} \subseteq Places
    BY <1>1, RecoverStageNames
  <2>3. {"verification", "fence", "dns-cutover", "probe-recovery", "resume-backups"} \subseteq Places
    BY <1>1, RecoverStageNames
  <2> QED BY <2>1, <2>2, <2>3 DEF RecoverPlaces
<1>4. ReturnPlaces \subseteq Places /\ "archive" \in Places
  <2>1. ReturnSteps \subseteq Places
    BY DEF Places
  <2> QED BY <1>2, <2>1, ReturnStageNames DEF ReturnPlaces
<1>5. "idle" \in Places /\ "archive-return" \in Places
  BY DEF Places
<1> QED BY <1>3, <1>4, <1>5

\* A pending stage of a recovery that passed n stages.
LEMMA PendingRecoverStage ==
  ASSUME NEW n \in 0..9
  PROVE  /\ RecoverStages[n + 1] \in RecoverPlaces
         /\ RecoverStages[n + 1] \in {"dns-cutover", "probe-recovery", "resume-backups"}
              <=> n >= 7
<1>1. n \in {0, 1, 2, 3, 4, 5, 6, 7, 8, 9}
  OBVIOUS
<1> QED BY <1>1, RecoverStageNames DEF RecoverPlaces

\* A pending stage of a return that passed n stages, or its archive.
LEMMA PendingReturnStage ==
  ASSUME NEW n \in 0..6
  PROVE  /\ ReturnStages[n + 1] \in ReturnPlaces \cup {"archive"}
         /\ n < 2 => ReturnStages[n + 1] \in {"start-primary", "dns-return"}
         /\ n = 2 => ReturnStages[n + 1] = "suspend-recovery-backups"
         /\ n > 2 => ReturnStages[n + 1] \in {"lift-fence", "remove-recovery",
                                              "primary-backup", "archive"}
<1>1. n \in {0, 1, 2, 3, 4, 5, 6}
  OBVIOUS
<1> QED BY <1>1, ReturnStageNames DEF ReturnPlaces

-----------------------------------------------------------------------------
(* Type correctness.                                                        *)

\* What happens around the scripts keeps the types.
LEMMA EnvironmentType ==
  ASSUME TypeOK, Environment
  PROVE  TypeOK'
<1> USE BoundsAssumption, ThroughsAssumption, PlaceNames
    DEF TypeOK, OwnWrite, Primary, NoEnv, RecoverPlaces, RecoverSteps, ReturnPlaces, ReturnSteps,
        primaryVars, setVars, nameVars, envVars, recVars, retVars, lockVars, runValues, PassStage,
        PassReturnStage
<1>1. CASE RegionChanges
  BY <1>1 DEF RegionChanges
<1>2. CASE \E on \in BOOLEAN : DrillPower(on)
  BY <1>2 DEF DrillPower, Power
<1>3. CASE BeginSet \/ EndSet
  <2>1. capturing' \in BOOLEAN
    BY <1>3 DEF BeginSet, EndSet
  <2>2. begun' \in 1..MaxSets /\ newest' \in 1..MaxSets /\ opened' \in 1..OwnWrite
    BY <1>3 DEF BeginSet, EndSet
  <2> QED BY <1>3, <2>1, <2>2 DEF BeginSet, EndSet
<1>4. CASE RecoveryBackup
  BY <1>4 DEF RecoveryBackup
<1>5. CASE FluxApplies
  BY <1>5 DEF FluxApplies
<1>6. CASE RemoveByHand
  <2>1. written' \in BOOLEAN /\ runSettings' \in BOOLEAN /\ suspended' \in BOOLEAN
    BY <1>6 DEF RemoveByHand
  <2> QED BY <1>6, <2>1 DEF RemoveByHand, Idle
<1> QED BY <1>1, <1>2, <1>3, <1>4, <1>5, <1>6 DEF Environment

\* Every step of a recovery keeps the types.
LEMMA RecoverType ==
  ASSUME TypeOK, RecoverStep
  PROVE  TypeOK'
<1> USE BoundsAssumption, ThroughsAssumption, PlaceNames
    DEF TypeOK, OwnWrite, Primary, NoEnv, RecoverPlaces, RecoverSteps, ReturnPlaces, ReturnSteps,
        primaryVars, setVars, nameVars, envVars, recVars, retVars, lockVars, runValues, PassStage,
        PassReturnStage
<1>1. CASE Preflight
  BY <1>1 DEF Preflight, Resumed
<1>2. CASE Apply
  <2>1. written' \in BOOLEAN /\ runSettings' \in BOOLEAN /\ suspended' \in BOOLEAN
    BY <1>2 DEF Apply
  <2> QED BY <1>2, <2>1 DEF Apply, Resumed
<1>3. CASE RecordAddress
  BY <1>3 DEF RecordAddress, Resumed
<1>4. CASE SetGitDr
  BY <1>4 DEF SetGitDr, Resumed
<1>5. CASE Provisioned
  BY <1>5 DEF Provisioned, Provisioning, Resumed
<1>6. CASE Bootstrap
  BY <1>6 DEF Bootstrap, Resumed
<1>7. CASE FluxReconcile
  BY <1>7 DEF FluxReconcile, Flux, Resumed
<1>8. CASE ChooseSet
  BY <1>8 DEF ChooseSet, Resumed
<1>9. CASE WipeData
  BY <1>9 DEF WipeData, Resumed
<1>10. CASE LoadSet
  BY <1>10 DEF LoadSet, Resumed
<1>11. CASE RestorePassed
  BY <1>11 DEF RestorePassed, Restored, Resumed
<1>12. CASE RecordHead
  BY <1>12 DEF RecordHead, Resumed
<1>13. CASE WriteCheck
  BY <1>13 DEF WriteCheck, Resumed
<1>14. CASE Verify
  BY <1>14 DEF Verify, Verified, Resumed
<1>15. CASE StopPrimary
  BY <1>15 DEF StopPrimary, Power, Resumed
<1>16. CASE DisableWorker
  BY <1>16 DEF DisableWorker, Resumed
<1>17. CASE Fence
  BY <1>17 DEF Fence, Fenced, Resumed
<1>18. CASE SetPublicName
  BY <1>18 DEF SetPublicName, Resumed
<1>19. CASE DnsCutover
  BY <1>19 DEF DnsCutover, CutOver, Resumed
<1>20. CASE ProbeRecovery
  BY <1>20 DEF ProbeRecovery, Probed, Resumed
<1>21. CASE CreateRunSettings
  BY <1>21 DEF CreateRunSettings, Resumed
<1>22. CASE ResumeBackups
  BY <1>22 DEF ResumeBackups, Resumed
<1> QED BY <1>1, <1>2, <1>3, <1>4, <1>5, <1>6, <1>7, <1>8, <1>9, <1>10, <1>11, <1>12, <1>13, <1>14, <1>15, <1>16, <1>17, <1>18, <1>19, <1>20, <1>21, <1>22 DEF RecoverStep

\* Every step of a return keeps the types.
LEMMA ReturnType ==
  ASSUME TypeOK, ReturnStep
  PROVE  TypeOK'
<1> USE BoundsAssumption, ThroughsAssumption, PlaceNames
    DEF TypeOK, OwnWrite, Primary, NoEnv, RecoverPlaces, RecoverSteps, ReturnPlaces, ReturnSteps,
        primaryVars, setVars, nameVars, envVars, recVars, retVars, lockVars, runValues, PassStage,
        PassReturnStage
<1>1. CASE StartPrimary
  BY <1>1 DEF StartPrimary, Returned
<1>2. CASE PrimaryStarted
  BY <1>2 DEF PrimaryStarted, Returned
<1>3. CASE SetPublicNameBack
  BY <1>3 DEF SetPublicNameBack, Returned
<1>4. CASE DnsReturn
  BY <1>4 DEF DnsReturn, DnsReturned, Returned
<1>5. CASE SkipSuspend
  BY <1>5 DEF SkipSuspend, Withdrawn, Returned
<1>6. CASE DeleteRunSettings
  BY <1>6 DEF DeleteRunSettings, Returned
<1>7. CASE SuspendRecoveryBackups
  BY <1>7 DEF SuspendRecoveryBackups, Withdrawn, Returned
<1>8. CASE EnableWorker
  <2>1. workerDisabled' \in BOOLEAN
    BY <1>8 DEF EnableWorker
  <2>2. opened' \in 1..OwnWrite
    BY <1>8 DEF EnableWorker
  <2> QED BY <1>8, <2>1, <2>2 DEF EnableWorker, Returned
<1>9. CASE LiftFence
  BY <1>9 DEF LiftFence, Lifted, Returned
<1>10. CASE DeleteGitDr
  BY <1>10 DEF DeleteGitDr, Returned
<1>11. CASE Destroy
  <2>1. written' \in BOOLEAN /\ runSettings' \in BOOLEAN /\ suspended' \in BOOLEAN
    BY <1>11 DEF Destroy
  <2> QED BY <1>11, <2>1 DEF Destroy, Returned
<1>12. CASE RemoveRecovery
  BY <1>12 DEF RemoveRecovery, Removed, Returned
<1>13. CASE PrimaryBackedUp
  BY <1>13 DEF PrimaryBackedUp, Returned
<1> QED BY <1>1, <1>2, <1>3, <1>4, <1>5, <1>6, <1>7, <1>8, <1>9, <1>10, <1>11, <1>12, <1>13 DEF ReturnStep

\* Starting, resetting, archiving and stopping keep the types.
LEMMA LockType ==
  ASSUME TypeOK,
         \/ \E through \in Throughs : StartRecover(through)
         \/ StartReturn \/ Reset \/ ArchiveRecovery \/ ArchiveReturn \/ Stops
  PROVE  TypeOK'
<1> USE BoundsAssumption, ThroughsAssumption, PlaceNames
    DEF TypeOK, OwnWrite, NoEnv, primaryVars, setVars, nameVars, envVars, recVars, retVars, lockVars,
        Resumed, Returned
<1>1. CASE \E through \in Throughs : StartRecover(through)
  <2>1. PICK through \in Throughs : StartRecover(through)
    BY <1>1
  <2>2. recPassed \in 0..9 /\ through \in 1..10
    BY <2>1 DEF StartRecover
  <2>3. pc' \in Places
    BY <2>1, <2>2, PendingRecoverStage DEF StartRecover
  <2> QED BY <2>1, <2>3 DEF StartRecover
<1>2. CASE StartReturn
  <2>1. pc' \in Places
    BY <1>2, PendingReturnStage DEF StartReturn
  <2> QED BY <1>2, <2>1 DEF StartReturn
<1>3. CASE Reset
  BY <1>3 DEF Reset
<1>4. CASE ArchiveRecovery
  BY <1>4 DEF ArchiveRecovery
<1>5. CASE ArchiveReturn
  <2>1. retBegun' \in BOOLEAN
    BY <1>5 DEF ArchiveReturn
  <2> QED BY <1>5, <2>1 DEF ArchiveReturn
<1>6. CASE Stops
  BY <1>6 DEF Stops
<1> QED BY <1>1, <1>2, <1>3, <1>4, <1>5, <1>6

\* The state of the two regions and of both run states keeps its types: no run
\* passes a stage that does not exist, or goes to a place that is in no script.
THEOREM TypeCorrect == Spec => []TypeOK
<1>1. Init => TypeOK
  <2> SUFFICES ASSUME Init PROVE TypeOK
    OBVIOUS
  <2>1. /\ running \in BOOLEAN /\ reachable \in BOOLEAN /\ workerDisabled \in BOOLEAN
        /\ written \in BOOLEAN /\ runSettings \in BOOLEAN /\ suspended \in BOOLEAN
        /\ retBegun \in BOOLEAN /\ capturing \in BOOLEAN
    BY DEF Init
  <2>2. pc \in Places /\ last \in Throughs
    BY ThroughsAssumption, PlaceNames DEF Init, Resumed
  <2> QED BY <2>1, <2>2, BoundsAssumption DEF Init, TypeOK, OwnWrite, Primary, NoEnv, Resumed, Returned
<1>2. TypeOK /\ [Next]_vars => TypeOK'
  <2> SUFFICES ASSUME TypeOK, [Next]_vars PROVE TypeOK'
    OBVIOUS
  <2>1. CASE Next
    BY <2>1, EnvironmentType, RecoverType, ReturnType, LockType DEF Next
  <2>2. CASE UNCHANGED vars
    BY <2>2 DEF TypeOK, vars, primaryVars, setVars, nameVars, envVars, recVars, retVars, lockVars
  <2> QED BY <2>1, <2>2
<1> QED BY <1>1, <1>2, PTL DEF Spec

-----------------------------------------------------------------------------
(* The inductive invariant of the fence.                                    *)

\* return.json belongs to recover.json's recovery, and the return has begun.
Returning == recStarted # 0 /\ retFor = recStarted /\ retBegun

\* Nothing makes the recovery cluster back up, now or at the next reconcile.
Quiet == ~RecoveryBacksUp /\ ~runSettings

\* The run states name runs that were started, and a state that names none
\* lists no stage.
RunsNamed ==
  /\ recStarted <= runs /\ retFor <= runs
  /\ recStarted = 0 => recPassed = 0
  /\ retPassed # 0 => retFor # 0 /\ retBegun
  /\ retBegun => retFor # 0
  /\ pc = "archive-return" => recStarted = 0

\* The lock holder works on a recovery that no return has begun to undo, or on
\* the return of the recorded one.
LockedFor ==
  /\ pc \in RecoverPlaces => recStarted # 0 /\ Untouched
  /\ pc \in ReturnPlaces => Returning

\* From the disabled account on, at a place or in recover.json, the fence stands.
FenceStands ==
  /\ pc \in {"silent", "dns-cutover", "cutover-wait", "probe-recovery", "resume-backups",
             "resume-wait"} => workerDisabled
  /\ recPassed >= Fenced /\ Untouched => workerDisabled

\* From the changed record on, at a place or in return.json, the name is back.
NameIsBack ==
  /\ pc \in ReturnPlaces \ {"start-primary", "primary-health", "dns-return"}
       => publicName = Primary
  /\ retPassed >= DnsReturned /\ Returning => publicName = Primary

\* From the suspended CronJob on, and from the start when the recovery never
\* completed resume-backups, the recovery cluster is quiet.
BackupsWithdrawn ==
  /\ pc \in {"lift-fence", "record-lift", "remove-recovery", "destroy", "destroyed",
             "primary-backup"} => Quiet
  /\ retPassed >= Withdrawn /\ Returning => Quiet
  /\ pc \in ReturnPlaces /\ recPassed < Resumed => Quiet
  /\ pc = "suspend-wait" => ~runSettings

FenceInv ==
  /\ RunsNamed
  /\ LockedFor
  /\ FenceStands
  /\ NameIsBack
  /\ BackupsWithdrawn
  /\ CutoverIsFenced
  /\ FenceOutlastsBackups

\* What happens around the scripts keeps FenceInv: no event resumes the CronJob
\* of a quiet recovery cluster or lifts the fence.
LEMMA FenceEnvironment ==
  ASSUME TypeOK, FenceInv, Environment
  PROVE  FenceInv'
<1> USE DEF TypeOK, FenceInv, RunsNamed, LockedFor, FenceStands, NameIsBack, BackupsWithdrawn,
            CutoverIsFenced, FenceOutlastsBackups, Returning, Untouched, Quiet, RecoveryBacksUp,
            Primary, NoEnv, RecoverPlaces, RecoverSteps, ReturnPlaces, ReturnSteps,
            Fenced, Resumed, DnsReturned, Withdrawn,
            primaryVars, setVars, nameVars, envVars, recVars, retVars, lockVars, runValues, PassStage,
            PassReturnStage
<1>1. CASE RegionChanges
  BY <1>1 DEF RegionChanges
<1>2. CASE \E on \in BOOLEAN : DrillPower(on)
  BY <1>2 DEF DrillPower, Power
<1>3. CASE BeginSet \/ EndSet
  BY <1>3 DEF BeginSet, EndSet
<1>4. CASE RecoveryBackup
  BY <1>4 DEF RecoveryBackup
<1>5. CASE FluxApplies
  BY <1>5 DEF FluxApplies
<1>6. CASE RemoveByHand
  BY <1>6 DEF RemoveByHand, Idle
<1> QED BY <1>1, <1>2, <1>3, <1>4, <1>5, <1>6 DEF Environment

\* Every step of a recovery keeps FenceInv.
LEMMA FenceRecover ==
  ASSUME TypeOK, FenceInv, RecoverStep
  PROVE  FenceInv'
<1> USE DEF TypeOK, FenceInv, RunsNamed, LockedFor, FenceStands, NameIsBack, BackupsWithdrawn,
            CutoverIsFenced, FenceOutlastsBackups, Returning, Untouched, Quiet, RecoveryBacksUp,
            Primary, NoEnv, RecoverPlaces, RecoverSteps, ReturnPlaces, ReturnSteps,
            Fenced, Resumed, DnsReturned, Withdrawn,
            primaryVars, setVars, nameVars, envVars, recVars, retVars, lockVars, runValues, PassStage,
            PassReturnStage
<1>1. CASE Preflight
  BY <1>1 DEF Preflight
<1>2. CASE Apply
  BY <1>2 DEF Apply
<1>3. CASE RecordAddress
  BY <1>3 DEF RecordAddress
<1>4. CASE SetGitDr
  BY <1>4 DEF SetGitDr
<1>5. CASE Provisioned
  BY <1>5 DEF Provisioned, Provisioning
<1>6. CASE Bootstrap
  BY <1>6 DEF Bootstrap
<1>7. CASE FluxReconcile
  BY <1>7 DEF FluxReconcile, Flux
<1>8. CASE ChooseSet
  BY <1>8 DEF ChooseSet
<1>9. CASE WipeData
  BY <1>9 DEF WipeData
<1>10. CASE LoadSet
  BY <1>10 DEF LoadSet
<1>11. CASE RestorePassed
  BY <1>11 DEF RestorePassed, Restored
<1>12. CASE RecordHead
  BY <1>12 DEF RecordHead
<1>13. CASE WriteCheck
  BY <1>13 DEF WriteCheck
<1>14. CASE Verify
  BY <1>14 DEF Verify, Verified
<1>15. CASE StopPrimary
  BY <1>15 DEF StopPrimary, Power
<1>16. CASE DisableWorker
  BY <1>16 DEF DisableWorker
<1>17. CASE Fence
  BY <1>17 DEF Fence
<1>18. CASE SetPublicName
  BY <1>18 DEF SetPublicName
<1>19. CASE DnsCutover
  BY <1>19 DEF DnsCutover, CutOver
<1>20. CASE ProbeRecovery
  BY <1>20 DEF ProbeRecovery, Probed
<1>21. CASE CreateRunSettings
  BY <1>21 DEF CreateRunSettings
<1>22. CASE ResumeBackups
  BY <1>22 DEF ResumeBackups
<1> QED BY <1>1, <1>2, <1>3, <1>4, <1>5, <1>6, <1>7, <1>8, <1>9, <1>10, <1>11, <1>12, <1>13, <1>14, <1>15, <1>16, <1>17, <1>18, <1>19, <1>20, <1>21, <1>22 DEF RecoverStep

\* Every step of a return keeps FenceInv.
LEMMA FenceReturn ==
  ASSUME TypeOK, FenceInv, ReturnStep
  PROVE  FenceInv'
<1> USE DEF TypeOK, FenceInv, RunsNamed, LockedFor, FenceStands, NameIsBack, BackupsWithdrawn,
            CutoverIsFenced, FenceOutlastsBackups, Returning, Untouched, Quiet, RecoveryBacksUp,
            Primary, NoEnv, RecoverPlaces, RecoverSteps, ReturnPlaces, ReturnSteps,
            Fenced, Resumed, DnsReturned, Withdrawn,
            primaryVars, setVars, nameVars, envVars, recVars, retVars, lockVars, runValues, PassStage,
            PassReturnStage
<1>1. CASE StartPrimary
  BY <1>1 DEF StartPrimary
<1>2. CASE PrimaryStarted
  BY <1>2 DEF PrimaryStarted
<1>3. CASE SetPublicNameBack
  BY <1>3 DEF SetPublicNameBack
<1>4. CASE DnsReturn
  BY <1>4 DEF DnsReturn
<1>5. CASE SkipSuspend
  BY <1>5 DEF SkipSuspend
<1>6. CASE DeleteRunSettings
  BY <1>6 DEF DeleteRunSettings
<1>7. CASE SuspendRecoveryBackups
  BY <1>7 DEF SuspendRecoveryBackups
<1>8. CASE EnableWorker
  BY <1>8 DEF EnableWorker
<1>9. CASE LiftFence
  BY <1>9 DEF LiftFence, Lifted
<1>10. CASE DeleteGitDr
  BY <1>10 DEF DeleteGitDr
<1>11. CASE Destroy
  BY <1>11 DEF Destroy
<1>12. CASE RemoveRecovery
  BY <1>12 DEF RemoveRecovery, Removed
<1>13. CASE PrimaryBackedUp
  BY <1>13 DEF PrimaryBackedUp, Returned
<1> QED BY <1>1, <1>2, <1>3, <1>4, <1>5, <1>6, <1>7, <1>8, <1>9, <1>10, <1>11, <1>12, <1>13 DEF ReturnStep

\* Starting either script keeps FenceInv, as long as nobody resumes a recovery
\* under a return or returns while resume-backups is half done.
LEMMA FenceLock ==
  ASSUME TypeOK, FenceInv,
         "resume-after-return" \notin Gaps, "return-while-resumed" \notin Gaps,
         \/ \E through \in Throughs : StartRecover(through)
         \/ StartReturn \/ Reset \/ ArchiveRecovery \/ ArchiveReturn \/ Stops
  PROVE  FenceInv'
<1> USE DEF TypeOK, FenceInv, RunsNamed, LockedFor, FenceStands, NameIsBack, BackupsWithdrawn,
            CutoverIsFenced, FenceOutlastsBackups, Returning, Untouched, Quiet, RecoveryBacksUp,
            Primary, NoEnv, Resumed, DnsReturned, Withdrawn, Returned, Fenced,
            primaryVars, setVars, nameVars, envVars, recVars, retVars, lockVars
<1>1. CASE \E through \in Throughs : StartRecover(through)
  <2>1. PICK through \in Throughs : StartRecover(through)
    BY <1>1
  <2>2. recPassed \in 0..9
    BY <2>1, ThroughsAssumption DEF StartRecover
  <2>3. pc' \in RecoverPlaces /\ (pc' \in {"dns-cutover", "probe-recovery", "resume-backups"}
                                  => recPassed >= Fenced)
    BY <2>1, <2>2, PendingRecoverStage DEF StartRecover
  <2>4. pc' \in {"preflight", "provisioning", "bootstrap", "flux-reconcile", "restore",
                 "verification", "fence", "dns-cutover", "probe-recovery", "resume-backups"}
    BY <2>1, <2>2, RecoverStageNames DEF StartRecover
  <2>5. recStarted' # 0 /\ Untouched'
    BY <2>1 DEF StartRecover
  <2>6. recPassed' >= Fenced => workerDisabled'
    BY <2>1 DEF StartRecover
  <2> QED
    BY <2>1, <2>3, <2>4, <2>5, <2>6 DEF StartRecover, ReturnPlaces, ReturnSteps
<1>2. CASE StartReturn
  <2>1. retPassed \in 0..6 /\ recStarted # 0 /\ retFor' = recStarted'
    BY <1>2 DEF StartReturn
  <2>2. /\ retPassed >= DnsReturned => publicName = Primary
        /\ retPassed >= Withdrawn => Quiet
    BY <1>2 DEF StartReturn, Recovery
  <2>3. recPassed < Resumed => Quiet
    BY <1>2 DEF StartReturn
  <2>4. CASE UNCHANGED <<retBegun, pc>>
    BY <1>2, <2>1, <2>2, <2>4
       DEF StartReturn, Idle, RecoverPlaces, RecoverSteps, ReturnPlaces, ReturnSteps
  <2>5. CASE retBegun' = TRUE /\ pc' = ReturnStages[retPassed + 1]
    <3>1. /\ retPassed < 2 => pc' \in {"start-primary", "dns-return"}
          /\ retPassed = 2 => pc' = "suspend-recovery-backups"
          /\ retPassed > 2 => pc' \in {"lift-fence", "remove-recovery", "primary-backup", "archive"}
      BY <2>1, <2>5, PendingReturnStage
    <3>2. retBegun'
      BY <2>5
    <3> QED BY <1>2, <2>1, <2>2, <2>3, <3>1, <3>2
            DEF StartReturn, RecoverPlaces, RecoverSteps, ReturnPlaces, ReturnSteps
  <2>6. \/ UNCHANGED <<retBegun, pc>>
        \/ retBegun' = TRUE /\ pc' = ReturnStages[retPassed + 1]
    BY <1>2 DEF StartReturn
  <2> QED BY <2>4, <2>5, <2>6
<1> USE DEF RecoverPlaces, RecoverSteps, ReturnPlaces, ReturnSteps
<1>3. CASE Reset
  BY <1>3 DEF Reset
<1>4. CASE ArchiveRecovery
  BY <1>4 DEF ArchiveRecovery
<1>5. CASE ArchiveReturn
  BY <1>5 DEF ArchiveReturn
<1>6. CASE Stops
  BY <1>6 DEF Stops
<1> QED BY <1>1, <1>2, <1>3, <1>4, <1>5, <1>6

\* FenceInv is inductive, given the types.
THEOREM FenceInvariant ==
  ASSUME "resume-after-return" \notin Gaps, "return-while-resumed" \notin Gaps
  PROVE  Spec => []FenceInv
<1>1. Init => FenceInv
  BY DEF Init, FenceInv, RunsNamed, LockedFor, FenceStands, NameIsBack, BackupsWithdrawn,
         CutoverIsFenced, FenceOutlastsBackups, Returning, Untouched, Quiet, RecoveryBacksUp,
         Primary, NoEnv, RecoverPlaces, RecoverSteps, ReturnPlaces, ReturnSteps,
         Fenced, Resumed, DnsReturned, Withdrawn
<1>2. TypeOK /\ FenceInv /\ [Next]_vars => FenceInv'
  <2> SUFFICES ASSUME TypeOK, FenceInv, [Next]_vars PROVE FenceInv'
    OBVIOUS
  <2>1. CASE Next
    BY <2>1, FenceEnvironment, FenceRecover, FenceReturn, FenceLock DEF Next
  <2>2. CASE UNCHANGED vars
    BY <2>2 DEF vars, primaryVars, setVars, nameVars, envVars, recVars, retVars, lockVars, FenceInv,
         RunsNamed, LockedFor, FenceStands, NameIsBack, BackupsWithdrawn, CutoverIsFenced,
         FenceOutlastsBackups, Returning, Untouched, Quiet, RecoveryBacksUp
  <2> QED BY <2>1, <2>2
<1> QED BY <1>1, <1>2, TypeCorrect, PTL DEF Spec

\* The public name points at a recovery cluster only while the primary worker
\* account is disabled, through every failure, resume and reset of the scripts.
THEOREM CutoverFenced ==
  ASSUME "resume-after-return" \notin Gaps, "return-while-resumed" \notin Gaps
  PROVE  Spec => []CutoverIsFenced
<1>1. FenceInv => CutoverIsFenced
  BY DEF FenceInv
<1> QED BY <1>1, FenceInvariant, PTL

\* The fence is lifted only after the recovery cluster stopped backing up.
THEOREM FenceOutlasts ==
  ASSUME "resume-after-return" \notin Gaps, "return-while-resumed" \notin Gaps
  PROVE  Spec => []FenceOutlastsBackups
<1>1. FenceInv => FenceOutlastsBackups
  BY DEF FenceInv
<1> QED BY <1>1, FenceInvariant, PTL

\* The primary and the recovery cluster never back up at the same time.
THEOREM OneBacksUp ==
  ASSUME "resume-after-return" \notin Gaps, "return-while-resumed" \notin Gaps
  PROVE  Spec => []OneClusterBacksUp
<1>1. FenceOutlastsBackups => OneClusterBacksUp
  BY DEF FenceOutlastsBackups, OneClusterBacksUp, PrimaryBacksUp
<1> QED BY <1>1, FenceOutlasts, PTL

===============================================================================
