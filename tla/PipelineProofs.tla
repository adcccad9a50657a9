---------------------------- MODULE PipelineProofs ----------------------------
(***************************************************************************)
(* Proofs about Pipeline, for every number of runs and stages. The           *)
(* invariant relates the directory of the runner to the one in the bucket    *)
(* that it pulled, the files of each to one another, and the stages that     *)
(* were carried out to the run states that hold them.                        *)
(***************************************************************************)
EXTENDS Pipeline, TLAPS

USE DEF inputs

-----------------------------------------------------------------------------
(* The inductive invariant.                                                 *)

\* Whether the runner works on a directory that it pulled.
Pulled == phase \in {"run", "stages", "push"}

\* What the files of a directory say of each other.
FilesAgree(dir) ==
  /\ dir.recover.passed > 0 => dir.recover.started # 0 /\ dir.recover.address # 0
  /\ dir.return.recovery = 0 => dir.return.passed = 0
  /\ dir.return.passed > 0 /\ dir.return.recovery = dir.recover.started => dir.recover.passed > 0

\* A return that is past its removal leaves no environment that the directory knows.
RemovedIsGone(dir) ==
  dir.return.passed >= RemoveStage /\ dir.return.recovery = dir.recover.started =>
    env = 0 \/ env \notin Records(dir)

\* Every start in a directory is of a run up to this one.
StartedUpTo(dir, run) == dir.return.recovery <= run /\ \A started \in Records(dir) : started <= run

\* The start of a run state is new: the run that makes it is the last one.
StartsAreNew ==
  /\ StartedUpTo(bucket, made) /\ StartedUpTo(local, made)
  /\ phase # "none" => made > 0 /\ StartedUpTo(bucket, made - 1)
  /\ \A e \in executed : e[2] <= made /\ (phase \in {"setup", "pull", "run"} => e[2] < made)

\* What the runner has made of the directory that it pulled.
ChangedLocally ==
  /\ phase = "run" => local = bucket
  /\ Pulled =>
       /\ bucket.archived \subseteq local.archived /\ local.archived \subseteq Records(bucket)
       /\ Records(bucket) \subseteq Records(local)
       /\ local.recover.started \in {bucket.recover.started, made, 0}
       /\ local.recover.started = bucket.recover.started => bucket.recover.passed <= local.recover.passed
       /\ workflow = "recover" => local.return \in {bucket.return, NoReturn}
       /\ workflow = "return" => local.recover = bucket.recover \/ local.return = NoReturn

\* What a script that runs, or has passed, found and did.
ScriptFound ==
  /\ phase = "stages" /\ workflow = "recover" =>
       /\ local.recover.started # 0
       /\ pending => through > 0
       /\ pending /\ local.recover.passed > 0 => env = local.recover.address
  /\ phase = "stages" /\ workflow = "return" =>
       /\ local.return.recovery = local.recover.started /\ local.recover.passed > 0
       /\ local.recover = bucket.recover
  /\ phase \in {"push", "none"} /\ workflow = "recover" /\ good /\ made > 0 /\ pending =>
       env # 0 /\ env = local.recover.address
  /\ phase = "push" /\ workflow = "return" /\ good => env = 0 \/ env \notin Records(local)

\* The directory that holds the last state: of the runner, or the bucket.
Held == IF Pulled THEN local ELSE bucket

\* While every push was complete, each stage that was carried out has passed in
\* its run state.
StagesAreHeld ==
  ~unsaved =>
    \A e \in executed :
      /\ e[2] \in Records(Held)
      /\ e[1] = "recover" /\ e[2] = Held.recover.started => e[3] <= Held.recover.passed
      /\ e[1] = "return" /\ e[2] = Held.recover.started =>
           Held.return.recovery = e[2] /\ e[3] <= Held.return.passed

\* The inductive invariant.
PipelineInv ==
  /\ PipelineTypeOK
  /\ FilesAgree(bucket) /\ FilesAgree(local)
  /\ RemovedIsGone(bucket) /\ RemovedIsGone(local)
  /\ StartsAreNew
  /\ ChangedLocally
  /\ ScriptFound
  /\ StagesAreHeld
  /\ ResumesWhereItStopped
  /\ ReturnLeavesNothing

-----------------------------------------------------------------------------
(* Lemmas about the operators of the model.                                 *)

\* An archived directory holds the runs that it held, and no run state in use.
LEMMA ArchivedDirectory ==
  ASSUME NEW dir \in Directory
  PROVE  /\ Archived(dir) \in Directory
         /\ Archived(dir).recover = NoRecover /\ Archived(dir).return = NoReturn
         /\ Archived(dir).archived = Records(dir) /\ Records(Archived(dir)) = Records(dir)
  BY StagesAssumption DEF Archived, Directory, RecoverJson, ReturnJson, NoRecover, NoReturn, Records

\* The start of the recovery that a return belongs to.
LEMMA ReturnOfType ==
  ASSUME NEW dir \in Directory
  PROVE  /\ ReturnOf(dir) \in ReturnJson /\ ReturnOf(dir).passed = dir.return.passed
         /\ ReturnOf(dir).recovery \in {dir.return.recovery, dir.recover.started}
         /\ dir.return.recovery # 0 => ReturnOf(dir) = dir.return
         /\ dir.return.recovery = 0 => ReturnOf(dir).recovery = dir.recover.started
  BY DEF ReturnOf, Directory, RecoverJson, ReturnJson

-----------------------------------------------------------------------------
(* What the steps do, and that each keeps PipelineInv.                      *)

\* The files of a run state keep their types.
LEMMA TypeStep ==
  ASSUME PipelineInv, PipelineNext
  PROVE  PipelineTypeOK'
<1> USE StagesAssumption
    DEF PipelineInv, PipelineTypeOK, runVars, worldVars, Phase
<1>1. CASE \E w \in {"recover", "return"}, r \in BOOLEAN, t \in 0..RecoverLast : Dispatch(w, r, t)
  <2>1. Empty \in Directory
    BY DEF Empty, NoRecover, NoReturn, Directory, RecoverJson, ReturnJson
  <2>2. PICK w \in {"recover", "return"}, r \in BOOLEAN, t \in 0..RecoverLast : Dispatch(w, r, t)
    BY <1>1
  <2>3. UNCHANGED <<bucket, env, executed, repeated, unsaved>> /\ local' = Empty
    BY <2>2 DEF Dispatch
  <2>4. /\ workflow' \in {"recover", "return"} /\ reset' \in BOOLEAN /\ through' \in 0..RecoverLast
        /\ phase' \in Phase /\ made' \in 0..MaxRuns
    BY <2>2 DEF Dispatch
  <2> QED BY <2>1, <2>2, <2>3, <2>4 DEF Dispatch
<1>2. CASE Setup
  BY <1>2 DEF Setup
<1>3. CASE Pull
  BY <1>3 DEF Pull
<1>4. CASE RunRecover
  <2> DEFINE dir == IF reset THEN Archived(local) ELSE local
  <2>1. dir \in Directory
    BY ArchivedDirectory
  <2>2. local' \in Directory
    <3> HIDE DEF dir
    <3>1. local' \in {dir, [dir EXCEPT !.recover.started = made]}
      BY <1>4 DEF RunRecover, dir
    <3> QED BY <2>1, <3>1 DEF Directory, RecoverJson
  <2>3. pending' \in BOOLEAN /\ good' \in BOOLEAN
    <3>1. \/ UNCHANGED pending
          \/ \E passed : pending' = (passed < through)
      BY <1>4 DEF RunRecover, Fails
    <3>2. \A passed : (passed < through) \in BOOLEAN
      OBVIOUS
    <3>3. good' \in BOOLEAN
      BY <1>4 DEF RunRecover, Fails
    <3> QED BY <3>1, <3>2, <3>3
  <2> QED BY <1>4, <2>2, <2>3 DEF RunRecover, Fails
<1>5. CASE RunReturn
  <2>1. local' \in Directory
    BY <1>5, ReturnOfType DEF RunReturn, Directory
  <2>2. pending' \in BOOLEAN /\ good' \in BOOLEAN
    <3>1. \/ UNCHANGED pending
          \/ \E passed : pending' = (passed < ReturnLast)
      BY <1>5 DEF RunReturn, Fails
    <3>2. \A passed : (passed < ReturnLast) \in BOOLEAN
      OBVIOUS
    <3>3. good' \in BOOLEAN
      BY <1>5 DEF RunReturn, Fails
    <3> QED BY <3>1, <3>2, <3>3
  <2> QED BY <1>5, <2>1, <2>2 DEF RunReturn, Fails
<1>6. CASE RecoverStage
  <2>1. local.recover \in RecoverJson
    BY DEF Directory
  <2>2. local.recover.started \in 1..MaxRuns
    <3>1. local.recover.started # 0
      BY <1>6 DEF RecoverStage, ScriptFound
    <3> QED BY <2>1, <3>1 DEF RecoverJson
  <2>3. env' \in 0..MaxRuns
    BY <1>6, <2>2 DEF RecoverStage
  <2>4. local.recover.passed + 1 \in 1..RecoverLast
    BY <1>6, <2>1 DEF RecoverStage, RecoverJson
  <2>5. CASE UNCHANGED <<local, executed, repeated>>
    BY <1>6, <2>3, <2>5 DEF RecoverStage, Fails
  <2>6. CASE /\ Execute(local.recover.passed + 1)
             /\ local' = [local EXCEPT !.recover.passed = local.recover.passed + 1,
                                       !.recover.address = IF local.recover.passed + 1 = 1 THEN env' ELSE @]
             /\ UNCHANGED <<phase, good, pending>>
    <3>1. local' \in Directory
      <4>1. /\ local'.recover.started = local.recover.started
            /\ local'.recover.passed = local.recover.passed + 1
            /\ local'.recover.address \in {env', local.recover.address}
            /\ local'.return = local.return /\ local'.archived = local.archived
        BY <2>6 DEF Directory, RecoverJson
      <4>2. local' = [recover |-> [started |-> local'.recover.started, passed |-> local'.recover.passed,
                                   address |-> local'.recover.address],
                      return |-> local'.return, archived |-> local'.archived]
        BY <2>6 DEF Directory, RecoverJson
      <4> QED BY <2>1, <2>4, <2>3, <4>1, <4>2 DEF Directory, RecoverJson
    <3>2. executed' \subseteq {"recover", "return"} \X (1..MaxRuns) \X (1..(RecoverLast + ReturnLast))
      BY <2>2, <2>4, <2>6 DEF Execute
    <3>3. repeated' \in BOOLEAN
      BY <2>6 DEF Execute
    <3> QED BY <1>6, <2>3, <2>6, <3>1, <3>2, <3>3 DEF RecoverStage
  <2> QED BY <1>6, <2>5, <2>6 DEF RecoverStage
<1>7. CASE ReturnStage
  <2>1. local.recover \in RecoverJson /\ local.return \in ReturnJson
    BY DEF Directory
  <2>2. local.recover.started # 0
    BY <1>7 DEF ReturnStage, ScriptFound, FilesAgree
  <2>3. local' \in Directory /\ env' \in 0..MaxRuns
    BY <1>7, <2>1 DEF ReturnStage, Directory, ReturnJson
  <2>4. executed' \subseteq {"recover", "return"} \X (1..MaxRuns) \X (1..(RecoverLast + ReturnLast))
    BY <1>7, <2>1, <2>2 DEF ReturnStage, Execute, RecoverJson, ReturnJson
  <2> QED BY <1>7, <2>3, <2>4 DEF ReturnStage, Execute, Fails
<1>8. CASE Complete
  BY <1>8, ArchivedDirectory DEF Complete
<1>9. CASE Push
  BY <1>9 DEF Push, Over
<1>10. CASE PushStops
  BY <1>10 DEF PushStops, Over, Directory
<1>11. CASE RunnerLost
  BY <1>11 DEF RunnerLost, Over
<1> QED BY <1>1, <1>2, <1>3, <1>4, <1>5, <1>6, <1>7, <1>8, <1>9, <1>10, <1>11 DEF PipelineNext

\* What a stage of a recovery does.
LEMMA RecoverStageDoes ==
  ASSUME PipelineInv, RecoverStage
  PROVE  /\ phase = "stages" /\ workflow = "recover" /\ local.recover.passed < through
         /\ UNCHANGED <<bucket, inputs, made, unsaved>>
         /\ local'.recover.started = local.recover.started
         /\ local'.return = local.return /\ local'.archived = local.archived
         /\ \/ /\ Execute(local.recover.passed + 1)
               /\ local'.recover.passed = local.recover.passed + 1
               /\ local.recover.passed = 0 => /\ local'.recover.address = env'
                                              /\ env' = IF env = 0 THEN local.recover.started ELSE env
               /\ local.recover.passed # 0 => /\ local'.recover.address = local.recover.address
                                              /\ env' = env
               /\ UNCHANGED <<phase, good, pending>>
            \/ /\ phase' = "push" /\ good' = FALSE
               /\ UNCHANGED <<local, executed, repeated, pending>>
               /\ \/ env' = env
                  \/ local.recover.passed = 0 /\ env = 0 /\ env' = local.recover.started
<1> USE DEF PipelineInv, PipelineTypeOK, Directory, RecoverJson
<1>1. local.recover.passed + 1 = 1 <=> local.recover.passed = 0
  OBVIOUS
<1>2. CASE /\ Execute(local.recover.passed + 1)
           /\ env' = IF local.recover.passed + 1 = 1 /\ env = 0 THEN local.recover.started ELSE env
           /\ local' = [local EXCEPT !.recover.passed = local.recover.passed + 1,
                                     !.recover.address = IF local.recover.passed + 1 = 1 THEN env' ELSE @]
           /\ UNCHANGED <<phase, good, pending>>
  BY <1>1, <1>2 DEF RecoverStage
<1>3. CASE /\ env' \in {env} \cup {e \in {local.recover.started} : local.recover.passed + 1 = 1 /\ env = 0}
           /\ Fails /\ UNCHANGED <<local, executed, repeated>>
  BY <1>1, <1>3 DEF RecoverStage, Fails
<1> QED BY <1>2, <1>3 DEF RecoverStage

\* What a stage of a return does.
LEMMA ReturnStageDoes ==
  ASSUME PipelineInv, ReturnStage
  PROVE  /\ phase = "stages" /\ workflow = "return" /\ local.return.passed < ReturnLast
         /\ UNCHANGED <<bucket, inputs, made, unsaved>>
         /\ local'.recover = local.recover /\ local'.archived = local.archived
         /\ local'.return.recovery = local.return.recovery
         /\ \/ /\ Execute(local.return.passed + 1)
               /\ local'.return.passed = local.return.passed + 1
               /\ env' = IF local.return.passed + 1 = RemoveStage THEN 0 ELSE env
               /\ UNCHANGED <<phase, good, pending>>
            \/ /\ phase' = "push" /\ good' = FALSE
               /\ UNCHANGED <<local, executed, repeated, pending>>
               /\ env' \in {0, env}
  BY DEF ReturnStage, Fails, PipelineInv, PipelineTypeOK, Directory, ReturnJson

\* What the start of a recovery makes of the directory.
LEMMA RunRecoverDoes ==
  ASSUME PipelineInv, RunRecover
  PROVE  /\ phase = "run" /\ workflow = "recover"
         /\ UNCHANGED <<bucket, inputs, made, worldVars, unsaved>>
         /\ \/ local' = local /\ local.recover.started # 0
            \/ /\ local'.recover.started = made /\ local'.recover.passed = 0
               /\ \/ /\ local.recover.started = 0
                     /\ local'.archived = local.archived /\ local'.return = local.return
                  \/ local'.archived = Records(local) /\ local'.return = NoReturn
         /\ \/ /\ phase' = "stages" /\ good' = good
               /\ pending' = (local'.recover.passed < through)
               /\ EnvironmentFound(local'.recover)
            \/ phase' = "push" /\ good' = FALSE /\ pending' = pending
<1> DEFINE dir == IF reset THEN Archived(local) ELSE local
<1> DEFINE resumed == IF dir.recover.started = 0 THEN [dir EXCEPT !.recover.started = made] ELSE dir
<1> USE DEF PipelineInv, PipelineTypeOK
<1>1. dir \in Directory
  BY ArchivedDirectory
<1>2. /\ dir.recover.started = 0 => dir.recover.passed = 0
      /\ \/ dir = local
         \/ /\ dir.recover.started = 0 /\ dir.recover.passed = 0
            /\ dir.archived = Records(local) /\ dir.return = NoReturn
  BY ArchivedDirectory DEF FilesAgree, NoRecover, Directory, RecoverJson
<1>3. /\ phase = "run" /\ workflow = "recover" /\ local' = resumed
      /\ \/ /\ phase' = "stages" /\ good' = good
            /\ pending' = (resumed.recover.passed < through)
            /\ EnvironmentFound(resumed.recover)
         \/ phase' = "push" /\ good' = FALSE /\ pending' = pending
      /\ UNCHANGED <<bucket, inputs, made, worldVars, unsaved>>
  BY DEF RunRecover, Fails
<1>4. CASE dir.recover.started = 0
  <2> HIDE DEF dir
  <2>1. resumed = [dir EXCEPT !.recover.started = made]
    BY <1>4
  <2>2. /\ resumed.recover.started = made /\ resumed.recover.passed = 0
        /\ resumed.archived = dir.archived /\ resumed.return = dir.return
    BY <1>1, <1>2, <1>4, <2>1 DEF Directory, RecoverJson
  <2> HIDE DEF resumed
  <2> QED BY <1>2, <1>3, <1>4, <2>2
<1>5. CASE dir.recover.started # 0
  <2> HIDE DEF dir
  <2>1. resumed = local /\ local.recover.started # 0
    BY <1>2, <1>5
  <2> HIDE DEF resumed
  <2> QED BY <1>3, <2>1
<1> QED BY <1>4, <1>5

\* What the start of a return makes of it.
LEMMA RunReturnDoes ==
  ASSUME PipelineInv, RunReturn
  PROVE  /\ phase = "run" /\ workflow = "return"
         /\ UNCHANGED <<bucket, inputs, made, worldVars, unsaved>>
         /\ local'.recover = local.recover /\ local'.archived = local.archived
         /\ local'.return.passed = local.return.passed
         /\ local'.return.recovery = IF local.return.recovery = 0 THEN local.recover.started
                                     ELSE local.return.recovery
         /\ \/ /\ phase' = "stages" /\ good' = good /\ local'.return.recovery = local.recover.started
               /\ local.return.passed < RemoveStage - 1 =>
                    local.recover.passed > 0 /\ env = local.recover.address
            \/ phase' = "push" /\ good' = FALSE /\ pending' = pending
  BY DEF RunReturn, ReturnOf, SameRecovery, Fails, PipelineInv, PipelineTypeOK, Directory, ReturnJson
\* The numbers of the directories.
LEMMA DirectoryNumbers ==
  ASSUME PipelineInv, NEW dir \in {bucket, local}
  PROVE  /\ dir.recover.started \in Nat /\ dir.recover.passed \in 0..RecoverLast
         /\ dir.recover.address \in Nat /\ dir.return.recovery \in Nat
         /\ dir.return.passed \in 0..ReturnLast
         /\ Records(dir) \subseteq Nat /\ made \in Nat /\ env \in Nat
<1>1. dir \in Directory
  BY DEF PipelineInv, PipelineTypeOK
<1> QED BY <1>1 DEF PipelineInv, PipelineTypeOK, Directory, RecoverJson, ReturnJson, Records

\* The start of a recovery keeps PipelineInv.
LEMMA RunRecoverStep ==
  ASSUME PipelineInv, RunRecover
  PROVE  /\ FilesAgree(bucket)' /\ FilesAgree(local)'
         /\ RemovedIsGone(bucket)' /\ RemovedIsGone(local)'
         /\ StartsAreNew' /\ ChangedLocally' /\ ScriptFound' /\ StagesAreHeld'
<1>1. /\ phase = "run" /\ workflow = "recover" /\ local = bucket
      /\ UNCHANGED <<bucket, inputs, made, worldVars, unsaved>>
      /\ \/ local' = local /\ local.recover.started # 0
         \/ /\ local'.recover.started = made /\ local'.recover.passed = 0
            /\ \/ /\ local.recover.started = 0
                  /\ local'.archived = local.archived /\ local'.return = local.return
               \/ local'.archived = Records(local) /\ local'.return = NoReturn
      /\ \/ /\ phase' = "stages" /\ good' = good
            /\ pending' = (local'.recover.passed < through)
            /\ EnvironmentFound(local'.recover)
         \/ phase' = "push" /\ good' = FALSE /\ pending' = pending
  BY RunRecoverDoes DEF PipelineInv, ChangedLocally
<1>2. /\ made \in Nat \ {0} /\ env \in Nat /\ local.recover.started < made /\ local.return.recovery < made
      /\ local.recover.started \in Nat /\ local.return.recovery \in Nat /\ local.return.passed \in Nat
      /\ \A started \in Records(local) : started \in Nat /\ started < made
  <2>1. /\ made \in Nat /\ env \in Nat /\ Records(local) \subseteq Nat
        /\ local.recover.started \in Nat /\ local.return.recovery \in Nat
        /\ local.return.passed \in 0..ReturnLast /\ local.recover.passed \in 0..RecoverLast
    BY DirectoryNumbers
  <2>2. made > 0 /\ StartedUpTo(local, made - 1)
    BY <1>1 DEF PipelineInv, StartsAreNew
  <2>3. local.recover.started # 0 => local.recover.started \in Records(local)
    BY DEF Records
  <2> QED BY <2>1, <2>2, <2>3, StagesAssumption DEF StartedUpTo
<1>3. FilesAgree(bucket)' /\ FilesAgree(local)'
  BY <1>1, <1>2 DEF PipelineInv, FilesAgree, NoReturn
<1>4. RemovedIsGone(bucket)' /\ RemovedIsGone(local)'
  BY <1>1, <1>2, StagesAssumption DEF PipelineInv, RemovedIsGone, Records, worldVars, NoReturn, FilesAgree
<1>5. StartsAreNew'
  BY <1>1, <1>2 DEF PipelineInv, StartsAreNew, StartedUpTo, Records, worldVars, NoReturn
<1>6. ChangedLocally'
  BY <1>1, <1>2 DEF PipelineInv, ChangedLocally, Pulled, Records, NoReturn, FilesAgree
<1>7. ScriptFound'
  <2>1. local.recover.passed \in 0..RecoverLast
    BY DirectoryNumbers
  <2>2. local'.recover.started # 0 /\ local'.recover.passed \in 0..RecoverLast
    BY <1>1, <1>2, <2>1, StagesAssumption
  <2>3. CASE phase' = "push" /\ good' = FALSE
    BY <1>1, <2>3 DEF ScriptFound
  <2>4. CASE phase' = "stages"
    <3>1. pending' = (local'.recover.passed < through)
      BY <1>1, <2>4
    <3>2. pending' => local'.recover.passed < through
      BY <3>1, Zenon
    <3>3. pending' => through > 0 /\ (local'.recover.passed > 0 => local'.recover.passed \in 1..(through - 1))
      <4>1. through \in 0..RecoverLast
        BY DEF PipelineInv, PipelineTypeOK
      <4> QED BY <2>2, <3>2, <4>1, StagesAssumption
    <3>4. pending' /\ local'.recover.passed > 0 => env' = local'.recover.address
      BY <1>1, <2>4, <3>3 DEF EnvironmentFound, worldVars
    <3> QED BY <1>1, <2>2, <2>4, <3>3, <3>4 DEF ScriptFound
  <2> QED BY <1>1, <2>3, <2>4
<1>8. StagesAreHeld'
  <2> SUFFICES ASSUME ~unsaved, NEW e \in executed
               PROVE  /\ e[2] \in Records(local')
                      /\ e[1] = "recover" /\ e[2] = local'.recover.started => e[3] <= local'.recover.passed
                      /\ e[1] = "return" /\ e[2] = local'.recover.started =>
                           local'.return.recovery = e[2] /\ e[3] <= local'.return.passed
    BY <1>1 DEF StagesAreHeld, Held, Pulled, worldVars
  <2>1. e[2] < made /\ e[2] \in Records(local) /\ e[2] \in Nat
    BY <1>1, <1>2 DEF PipelineInv, StartsAreNew, StagesAreHeld, Held, Pulled
  <2> QED BY <1>1, <1>2, <2>1 DEF PipelineInv, StagesAreHeld, Held, Pulled, Records
<1> QED BY <1>3, <1>4, <1>5, <1>6, <1>7, <1>8

\* The start of a return keeps PipelineInv.
LEMMA RunReturnStep ==
  ASSUME PipelineInv, RunReturn
  PROVE  /\ FilesAgree(bucket)' /\ FilesAgree(local)'
         /\ RemovedIsGone(bucket)' /\ RemovedIsGone(local)'
         /\ StartsAreNew' /\ ChangedLocally' /\ ScriptFound' /\ StagesAreHeld'
<1>1. /\ phase = "run" /\ workflow = "return" /\ local = bucket
      /\ UNCHANGED <<bucket, inputs, made, worldVars, unsaved>>
      /\ local'.recover = local.recover /\ local'.archived = local.archived
      /\ local'.return.passed = local.return.passed
      /\ local'.return.recovery = IF local.return.recovery = 0 THEN local.recover.started
                                  ELSE local.return.recovery
      /\ \/ /\ phase' = "stages" /\ good' = good /\ local'.return.recovery = local.recover.started
            /\ local.return.passed < RemoveStage - 1 =>
                 local.recover.passed > 0 /\ env = local.recover.address
         \/ phase' = "push" /\ good' = FALSE /\ pending' = pending
  BY RunReturnDoes DEF PipelineInv, ChangedLocally
<1>2. /\ made \in Nat \ {0} /\ env \in Nat /\ local.recover.started < made /\ local.return.recovery < made
      /\ local.recover.started \in Nat /\ local.return.recovery \in Nat /\ local.return.passed \in Nat
      /\ local.recover.passed \in Nat
      /\ \A started \in Records(local) : started \in Nat /\ started < made
  <2>1. /\ made \in Nat /\ env \in Nat /\ Records(local) \subseteq Nat
        /\ local.recover.started \in Nat /\ local.return.recovery \in Nat
        /\ local.return.passed \in 0..ReturnLast /\ local.recover.passed \in 0..RecoverLast
    BY DirectoryNumbers
  <2>2. made > 0 /\ StartedUpTo(local, made - 1)
    BY <1>1 DEF PipelineInv, StartsAreNew
  <2>3. local.recover.started # 0 => local.recover.started \in Records(local)
    BY DEF Records
  <2> QED BY <2>1, <2>2, <2>3, StagesAssumption DEF StartedUpTo
<1>3. FilesAgree(bucket)' /\ FilesAgree(local)'
  BY <1>1, <1>2 DEF PipelineInv, FilesAgree
<1>4. RemovedIsGone(bucket)' /\ RemovedIsGone(local)'
  BY <1>1, <1>2, StagesAssumption DEF PipelineInv, RemovedIsGone, Records, worldVars, FilesAgree
<1>5. StartsAreNew'
  BY <1>1, <1>2 DEF PipelineInv, StartsAreNew, StartedUpTo, Records, worldVars
<1>6. ChangedLocally'
  BY <1>1, <1>2 DEF PipelineInv, ChangedLocally, Pulled, Records, FilesAgree
<1>7. ScriptFound'
  BY <1>1, <1>2, StagesAssumption DEF PipelineInv, ScriptFound, FilesAgree, worldVars
<1>8. StagesAreHeld'
  <2> SUFFICES ASSUME ~unsaved, NEW e \in executed
               PROVE  /\ e[2] \in Records(local')
                      /\ e[1] = "recover" /\ e[2] = local'.recover.started => e[3] <= local'.recover.passed
                      /\ e[1] = "return" /\ e[2] = local'.recover.started =>
                           local'.return.recovery = e[2] /\ e[3] <= local'.return.passed
    BY <1>1 DEF StagesAreHeld, Held, Pulled, worldVars
  <2> QED BY <1>1, <1>2 DEF PipelineInv, StagesAreHeld, Held, Pulled, Records
<1> QED BY <1>3, <1>4, <1>5, <1>6, <1>7, <1>8

\* A stage of a recovery keeps PipelineInv.
LEMMA RecoverStageStep ==
  ASSUME PipelineInv, RecoverStage
  PROVE  /\ FilesAgree(bucket)' /\ FilesAgree(local)'
         /\ RemovedIsGone(bucket)' /\ RemovedIsGone(local)'
         /\ StartsAreNew' /\ ChangedLocally' /\ ScriptFound' /\ StagesAreHeld'
         /\ ResumesWhereItStopped'
<1>1. /\ phase = "stages" /\ workflow = "recover" /\ local.recover.passed < through
      /\ UNCHANGED <<bucket, inputs, made, unsaved>>
      /\ local'.recover.started = local.recover.started
      /\ local'.return = local.return /\ local'.archived = local.archived
      /\ \/ /\ Execute(local.recover.passed + 1)
            /\ local'.recover.passed = local.recover.passed + 1
            /\ local.recover.passed = 0 => /\ local'.recover.address = env'
                                           /\ env' = IF env = 0 THEN local.recover.started ELSE env
            /\ local.recover.passed # 0 => /\ local'.recover.address = local.recover.address
                                           /\ env' = env
            /\ UNCHANGED <<phase, good, pending>>
         \/ /\ phase' = "push" /\ good' = FALSE
            /\ UNCHANGED <<local, executed, repeated, pending>>
            /\ \/ env' = env
               \/ local.recover.passed = 0 /\ env = 0 /\ env' = local.recover.started
  BY RecoverStageDoes
<1>2. /\ made \in Nat \ {0} /\ env \in Nat /\ local.recover.started \in Nat \ {0}
      /\ local.recover.passed \in Nat /\ local.return.passed \in Nat
      /\ Records(local)' = Records(local)
  <2>1. local.recover.started # 0 /\ made > 0
    BY <1>1 DEF PipelineInv, ScriptFound, StartsAreNew
  <2> QED BY <1>1, <2>1, DirectoryNumbers DEF Records
<1>3. FilesAgree(bucket)' /\ FilesAgree(local)'
  BY <1>1, <1>2 DEF PipelineInv, FilesAgree
<1>4. RemovedIsGone(local)'
  BY <1>1, <1>2, StagesAssumption DEF PipelineInv, RemovedIsGone, FilesAgree
<1>5. RemovedIsGone(bucket)'
  <2>1. CASE env' = env
    BY <1>1, <2>1 DEF PipelineInv, RemovedIsGone, Records
  <2>2. CASE local.recover.passed = 0 /\ env' = local.recover.started
    <3> SUFFICES ASSUME bucket.return.passed >= RemoveStage, bucket.return.recovery = bucket.recover.started,
                        local.recover.started \in Records(bucket)
                 PROVE  FALSE
      BY <1>1, <2>2 DEF RemovedIsGone, Records
    <3>1. bucket.recover.passed > 0 /\ bucket.recover.passed \in Nat
      BY DirectoryNumbers, StagesAssumption DEF PipelineInv, FilesAgree
    <3>2. local.recover.started # made
      BY <1>1, <1>2 DEF PipelineInv, StartsAreNew, StartedUpTo
    <3>3. local.recover.started = bucket.recover.started
      BY <1>1, <1>2, <3>2 DEF PipelineInv, ChangedLocally, Pulled
    <3> QED BY <1>1, <2>2, <3>1, <3>3 DEF PipelineInv, ChangedLocally, Pulled
  <2> QED BY <1>1, <2>1, <2>2
<1>6. StartsAreNew'
  <2>1. StartedUpTo(bucket, made)' /\ StartedUpTo(local, made)' /\ made' > 0 /\ StartedUpTo(bucket, made - 1)'
    BY <1>1, <1>2 DEF PipelineInv, StartsAreNew, StartedUpTo, Records
  <2>2. \A e \in executed' : e[2] <= made'
    <3>1. local.recover.started \in Records(local)
      BY <1>2 DEF Records
    <3> QED BY <1>1, <3>1 DEF PipelineInv, StartsAreNew, StartedUpTo, Execute
  <2> QED BY <1>1, <2>1, <2>2 DEF StartsAreNew
<1>7. ChangedLocally'
  BY <1>1, <1>2, DirectoryNumbers DEF PipelineInv, ChangedLocally, Pulled, Records
<1>8. ScriptFound'
  BY <1>1, <1>2 DEF PipelineInv, ScriptFound
<1>9. StagesAreHeld'
  <2> SUFFICES ASSUME ~unsaved, NEW e \in executed'
               PROVE  /\ e[2] \in Records(local')
                      /\ e[1] = "recover" /\ e[2] = local'.recover.started => e[3] <= local'.recover.passed
                      /\ e[1] = "return" /\ e[2] = local'.recover.started =>
                           local'.return.recovery = e[2] /\ e[3] <= local'.return.passed
    BY <1>1 DEF StagesAreHeld, Held, Pulled
  <2>1. CASE e \in executed
    <3>1. e[3] \in Nat
      BY <2>1, StagesAssumption DEF PipelineInv, PipelineTypeOK
    <3> QED BY <1>1, <1>2, <2>1, <3>1 DEF PipelineInv, StagesAreHeld, Held, Pulled
  <2>2. CASE e \notin executed
    <3>1. e = <<"recover", local.recover.started, local.recover.passed + 1>>
          /\ local'.recover.passed = local.recover.passed + 1
      BY <1>1, <2>2 DEF Execute
    <3> QED BY <1>1, <1>2, <3>1 DEF Records
  <2> QED BY <2>1, <2>2
<1>10. ResumesWhereItStopped'
  <2>1. ~unsaved => <<workflow, local.recover.started, local.recover.passed + 1>> \notin executed
    BY <1>1, <1>2 DEF PipelineInv, StagesAreHeld, Held, Pulled
  <2> QED BY <1>1, <2>1 DEF PipelineInv, ResumesWhereItStopped, Execute
<1> QED BY <1>3, <1>4, <1>5, <1>6, <1>7, <1>8, <1>9, <1>10

\* A stage of a return keeps PipelineInv.
LEMMA ReturnStageStep ==
  ASSUME PipelineInv, ReturnStage
  PROVE  /\ FilesAgree(bucket)' /\ FilesAgree(local)'
         /\ RemovedIsGone(bucket)' /\ RemovedIsGone(local)'
         /\ StartsAreNew' /\ ChangedLocally' /\ ScriptFound' /\ StagesAreHeld'
         /\ ResumesWhereItStopped'
<1>1. /\ phase = "stages" /\ workflow = "return" /\ local.return.passed < ReturnLast
      /\ UNCHANGED <<bucket, inputs, made, unsaved>>
      /\ local'.recover = local.recover /\ local'.archived = local.archived
      /\ local'.return.recovery = local.return.recovery
      /\ \/ /\ Execute(local.return.passed + 1)
            /\ local'.return.passed = local.return.passed + 1
            /\ env' = IF local.return.passed + 1 = RemoveStage THEN 0 ELSE env
            /\ UNCHANGED <<phase, good, pending>>
         \/ /\ phase' = "push" /\ good' = FALSE
            /\ UNCHANGED <<local, executed, repeated, pending>>
            /\ env' \in {0, env}
  BY ReturnStageDoes
<1>2. /\ made \in Nat \ {0} /\ env \in Nat /\ local.recover.started \in Nat \ {0}
      /\ local.recover.passed \in Nat \ {0} /\ local.return.passed \in Nat
      /\ local.return.recovery = local.recover.started /\ local.recover = bucket.recover
      /\ Records(local)' = Records(local)
  <2>1. /\ local.recover.started # 0 /\ made > 0 /\ local.recover.passed > 0
        /\ local.return.recovery = local.recover.started /\ local.recover = bucket.recover
    BY <1>1 DEF PipelineInv, ScriptFound, StartsAreNew, FilesAgree
  <2> QED BY <1>1, <2>1, DirectoryNumbers DEF Records
<1>3. FilesAgree(bucket)' /\ FilesAgree(local)'
  BY <1>1, <1>2 DEF PipelineInv, FilesAgree
<1>4. RemovedIsGone(bucket)' /\ RemovedIsGone(local)'
  BY <1>1, <1>2, StagesAssumption DEF PipelineInv, RemovedIsGone, Records
<1>5. StartsAreNew'
  <2>1. StartedUpTo(bucket, made)' /\ StartedUpTo(local, made)' /\ made' > 0 /\ StartedUpTo(bucket, made - 1)'
    BY <1>1, <1>2 DEF PipelineInv, StartsAreNew, StartedUpTo, Records
  <2>2. \A e \in executed' : e[2] <= made'
    <3>1. local.recover.started \in Records(local)
      BY <1>2 DEF Records
    <3> QED BY <1>1, <3>1 DEF PipelineInv, StartsAreNew, StartedUpTo, Execute
  <2> QED BY <1>1, <2>1, <2>2 DEF StartsAreNew
<1>6. ChangedLocally'
  BY <1>1, <1>2, DirectoryNumbers DEF PipelineInv, ChangedLocally, Pulled, Records
<1>7. ScriptFound'
  BY <1>1, <1>2 DEF PipelineInv, ScriptFound
<1>8. StagesAreHeld'
  <2> SUFFICES ASSUME ~unsaved, NEW e \in executed'
               PROVE  /\ e[2] \in Records(local')
                      /\ e[1] = "recover" /\ e[2] = local'.recover.started => e[3] <= local'.recover.passed
                      /\ e[1] = "return" /\ e[2] = local'.recover.started =>
                           local'.return.recovery = e[2] /\ e[3] <= local'.return.passed
    BY <1>1 DEF StagesAreHeld, Held, Pulled
  <2>1. CASE e \in executed
    <3>1. e[3] \in Nat
      BY <2>1, StagesAssumption DEF PipelineInv, PipelineTypeOK
    <3> QED BY <1>1, <1>2, <2>1, <3>1 DEF PipelineInv, StagesAreHeld, Held, Pulled
  <2>2. CASE e \notin executed
    <3>1. e = <<"return", local.recover.started, local.return.passed + 1>>
          /\ local'.return.passed = local.return.passed + 1
      BY <1>1, <2>2 DEF Execute
    <3> QED BY <1>1, <1>2, <3>1 DEF Records
  <2> QED BY <2>1, <2>2
<1>9. ResumesWhereItStopped'
  <2>1. ~unsaved => <<workflow, local.recover.started, local.return.passed + 1>> \notin executed
    BY <1>1, <1>2 DEF PipelineInv, StagesAreHeld, Held, Pulled
  <2> QED BY <1>1, <2>1 DEF PipelineInv, ResumesWhereItStopped, Execute
<1> QED BY <1>3, <1>4, <1>5, <1>6, <1>7, <1>8, <1>9

\* The steps of a workflow before its script keep PipelineInv.
LEMMA SetupSteps ==
  ASSUME PipelineInv, (\E w \in {"recover", "return"}, r \in BOOLEAN, t \in 0..RecoverLast : Dispatch(w, r, t)) \/ Setup \/ Pull
  PROVE  /\ FilesAgree(bucket)' /\ FilesAgree(local)'
         /\ RemovedIsGone(bucket)' /\ RemovedIsGone(local)'
         /\ StartsAreNew' /\ ChangedLocally' /\ ScriptFound' /\ StagesAreHeld'
         /\ ReturnLeavesNothing'
<1>1. /\ UNCHANGED <<bucket, env, executed, repeated, unsaved>>
      /\ local' \in {local, bucket, Empty}
      /\ phase \in {"none", "setup", "pull"}
      /\ \/ phase = "none" /\ phase' = "setup" /\ made' = made + 1
         \/ phase \in {"setup", "pull"} /\ phase' = "none" /\ good' = FALSE /\ UNCHANGED made
         \/ phase = "setup" /\ phase' = "pull" /\ UNCHANGED made
         \/ phase = "pull" /\ phase' = "run" /\ local' = bucket /\ UNCHANGED made
  BY DEF Dispatch, Setup, Pull, worldVars
<1>2. made \in Nat /\ env \in Nat
  BY DirectoryNumbers
<1>3. FilesAgree(Empty) /\ RemovedIsGone(Empty)' /\ Records(Empty) = {} /\ StartedUpTo(Empty, made')
  BY <1>1, <1>2, StagesAssumption DEF FilesAgree, RemovedIsGone, StartedUpTo, Empty, NoRecover, NoReturn, Records
<1>4. FilesAgree(bucket)' /\ FilesAgree(local)'
  BY <1>1, <1>3 DEF PipelineInv, FilesAgree
<1>5. RemovedIsGone(bucket)' /\ RemovedIsGone(local)'
  BY <1>1, <1>3 DEF PipelineInv, RemovedIsGone, Records
<1>6. StartsAreNew'
  <2>1. /\ bucket.return.recovery \in Nat /\ Records(bucket) \subseteq Nat
        /\ local.return.recovery \in Nat /\ Records(local) \subseteq Nat
    BY DirectoryNumbers
  <2>2. \A e \in executed : e[2] \in Nat
    BY DEF PipelineInv, PipelineTypeOK
  <2>3. StartedUpTo(bucket, made)' /\ StartedUpTo(local, made)'
    <3>1. made' \in Nat /\ made <= made'
      BY <1>1, <1>2
    <3>2. StartedUpTo(bucket, made) /\ StartedUpTo(local, made)
      BY DEF PipelineInv, StartsAreNew
    <3>3. StartedUpTo(bucket, made') /\ StartedUpTo(local, made')
      BY <1>2, <2>1, <3>1, <3>2 DEF StartedUpTo
    <3>4. StartedUpTo(local', made')
      BY <1>1, <1>3, <3>3
    <3> QED BY <1>1, <3>3, <3>4 DEF StartedUpTo, Records
  <2>4. phase' # "none" => made' > 0 /\ StartedUpTo(bucket, made - 1)'
    BY <1>1, <1>2, <2>1 DEF PipelineInv, StartsAreNew, StartedUpTo, Records
  <2>5. \A e \in executed' : e[2] <= made' /\ (phase' \in {"setup", "pull", "run"} => e[2] < made')
    BY <1>1, <1>2, <2>2 DEF PipelineInv, StartsAreNew
  <2> QED BY <2>3, <2>4, <2>5 DEF StartsAreNew
<1>7. ChangedLocally'
  BY <1>1, DirectoryNumbers DEF ChangedLocally, Pulled, Records
<1>8. ScriptFound'
  BY <1>1 DEF ScriptFound
<1>9. StagesAreHeld'
  <2>1. Held' = Held
    BY <1>1 DEF Held, Pulled
  <2> QED BY <1>1, <2>1 DEF PipelineInv, StagesAreHeld, Records
<1>10. ReturnLeavesNothing'
  BY <1>1 DEF ReturnLeavesNothing, Passed
<1> QED BY <1>4, <1>5, <1>6, <1>7, <1>8, <1>9, <1>10

\* A script that passed keeps PipelineInv, though a return archives the run state.
LEMMA CompleteStep ==
  ASSUME PipelineInv, Complete
  PROVE  /\ FilesAgree(bucket)' /\ FilesAgree(local)'
         /\ RemovedIsGone(bucket)' /\ RemovedIsGone(local)'
         /\ StartsAreNew' /\ ChangedLocally' /\ ScriptFound' /\ StagesAreHeld'
<1>1. /\ phase = "stages" /\ phase' = "push"
      /\ UNCHANGED <<bucket, inputs, good, pending, made, worldVars, unsaved>>
      /\ \/ workflow = "recover" /\ local.recover.passed >= through /\ UNCHANGED local
         \/ /\ workflow = "return" /\ local.return.passed = ReturnLast
            /\ local'.recover = NoRecover /\ local'.return = NoReturn /\ local'.archived = Records(local)
      /\ Records(local)' = Records(local)
  BY ArchivedDirectory DEF Complete, PipelineInv, PipelineTypeOK
<1>2. /\ made \in Nat /\ env \in Nat /\ Records(local) \subseteq Nat /\ local.recover.started \in Nat
      /\ made > 0 /\ bucket.recover.passed \in Nat
  BY <1>1, DirectoryNumbers DEF PipelineInv, StartsAreNew
<1>3. FilesAgree(bucket)' /\ FilesAgree(local)'
  BY <1>1 DEF PipelineInv, FilesAgree, NoRecover, NoReturn
<1>4. RemovedIsGone(bucket)' /\ RemovedIsGone(local)'
  BY <1>1, StagesAssumption DEF PipelineInv, RemovedIsGone, Records, worldVars, NoReturn
<1>5. StartsAreNew'
  BY <1>1, <1>2 DEF PipelineInv, StartsAreNew, StartedUpTo, Records, worldVars, NoReturn
<1>6. ChangedLocally'
  <2>1. CASE UNCHANGED local
    BY <1>1, <2>1 DEF PipelineInv, ChangedLocally, Pulled, Records
  <2>2. CASE /\ workflow = "return" /\ local'.recover = NoRecover /\ local'.return = NoReturn
             /\ local'.archived = Records(local)
    <3>1. local.recover.started # 0 /\ local.recover = bucket.recover
      BY <1>1, <2>2 DEF PipelineInv, ScriptFound, FilesAgree
    <3>2. Records(local) = Records(bucket) /\ bucket.archived \subseteq Records(bucket)
      BY <1>1, <3>1 DEF PipelineInv, ChangedLocally, Pulled, Records
    <3> QED BY <1>1, <2>2, <3>1, <3>2 DEF ChangedLocally, Pulled, NoRecover, Records
  <2> QED BY <1>1, <2>1, <2>2
<1>7. ScriptFound'
  <2>1. workflow = "return" => env = 0 \/ env \notin Records(local)
    BY <1>1, StagesAssumption DEF PipelineInv, ScriptFound, RemovedIsGone
  <2>2. workflow = "recover" /\ pending => env # 0 /\ env = local.recover.address
    <3>1. through \in Nat /\ local.recover.passed \in Nat
      BY DirectoryNumbers, StagesAssumption DEF PipelineInv, PipelineTypeOK
    <3> QED BY <1>1, <3>1, StagesAssumption DEF PipelineInv, ScriptFound, FilesAgree
  <2> QED BY <1>1, <2>1, <2>2 DEF ScriptFound, worldVars
<1>8. StagesAreHeld'
  <2> SUFFICES ASSUME ~unsaved, NEW e \in executed
               PROVE  /\ e[2] \in Records(local)'
                      /\ e[1] = "recover" /\ e[2] = local'.recover.started => e[3] <= local'.recover.passed
                      /\ e[1] = "return" /\ e[2] = local'.recover.started =>
                           local'.return.recovery = e[2] /\ e[3] <= local'.return.passed
    BY <1>1 DEF StagesAreHeld, Held, Pulled, worldVars
  <2>1. e[2] # 0
    BY DEF PipelineInv, PipelineTypeOK
  <2> QED BY <1>1, <2>1 DEF PipelineInv, StagesAreHeld, Held, Pulled, NoRecover
<1> QED BY <1>3, <1>4, <1>5, <1>6, <1>7, <1>8

\* A push, complete or not, and a runner that is lost, keep PipelineInv.
LEMMA EndSteps ==
  ASSUME PipelineInv, Push \/ PushStops \/ RunnerLost
  PROVE  /\ FilesAgree(bucket)' /\ FilesAgree(local)'
         /\ RemovedIsGone(bucket)' /\ RemovedIsGone(local)'
         /\ StartsAreNew' /\ ChangedLocally' /\ ScriptFound' /\ StagesAreHeld'
         /\ ReturnLeavesNothing'
<1>1. /\ phase # "none" /\ phase' = "none"
      /\ UNCHANGED <<local, workflow, made, pending, env, executed, repeated>>
  BY DEF Push, PushStops, RunnerLost, Over, worldVars
<1>2. /\ bucket'.recover \in {bucket.recover, local.recover}
      /\ bucket'.return \in {bucket.return, local.return}
      /\ bucket'.archived \in {bucket.archived, local.archived}
      /\ bucket' # bucket => phase = "push"
  BY DEF Push, PushStops, RunnerLost, worldVars
<1>3. \/ phase = "push" /\ bucket' = local /\ good' = good /\ unsaved' = unsaved
      \/ good' = FALSE /\ unsaved' = TRUE
      \/ good' = FALSE /\ phase \in {"setup", "pull"} /\ UNCHANGED <<bucket, unsaved>>
  BY DEF Push, PushStops, RunnerLost, worldVars, PipelineInv, PipelineTypeOK, Phase
<1>4. /\ made \in Nat \ {0} /\ env \in Nat
      /\ bucket.return.recovery \in Nat /\ bucket.return.recovery < made
      /\ bucket.recover.passed \in Nat /\ local.recover.passed \in Nat
      /\ bucket.return.passed \in Nat /\ local.return.passed \in Nat
  <2>1. made > 0 /\ bucket.return.recovery <= made - 1
    BY <1>1 DEF PipelineInv, StartsAreNew, StartedUpTo
  <2> QED BY <2>1, DirectoryNumbers
<1>5. FilesAgree(bucket)' /\ FilesAgree(local)'
  <2>1. bucket'.recover.passed > 0 => bucket'.recover.started # 0 /\ bucket'.recover.address # 0
    BY <1>2 DEF PipelineInv, FilesAgree
  <2>2. bucket'.return.recovery = 0 => bucket'.return.passed = 0
    BY <1>2 DEF PipelineInv, FilesAgree
  <2>3. ASSUME bucket'.return.passed > 0, bucket'.return.recovery = bucket'.recover.started
        PROVE  bucket'.recover.passed > 0
    <3>1. CASE bucket'.recover = bucket.recover
      BY <1>2, <1>4, <2>3, <3>1 DEF PipelineInv, FilesAgree, ChangedLocally, Pulled, NoReturn, PipelineTypeOK
    <3>2. CASE bucket'.recover = local.recover /\ phase = "push" /\ bucket'.return = bucket.return
      BY <1>4, <2>3, <3>2 DEF PipelineInv, FilesAgree, ChangedLocally, Pulled
    <3>3. CASE bucket'.recover = local.recover /\ bucket'.return = local.return
      BY <2>3, <3>3 DEF PipelineInv, FilesAgree
    <3> QED BY <1>2, <3>1, <3>2, <3>3
  <2> QED BY <1>1, <2>1, <2>2, <2>3 DEF FilesAgree, PipelineInv
<1>6. RemovedIsGone(bucket)' /\ RemovedIsGone(local)'
  <2> SUFFICES ASSUME bucket'.return.passed >= RemoveStage, bucket'.return.recovery = bucket'.recover.started,
                      env # 0, phase = "push"
               PROVE  env \notin Records(bucket)'
    BY <1>1, <1>2 DEF PipelineInv, RemovedIsGone, Records
  <2>1. bucket'.return.passed > 0
    BY <1>2, <1>4, StagesAssumption
  <2>2. bucket'.return.recovery # 0
    BY <1>2, <2>1 DEF PipelineInv, FilesAgree
  <2>3. CASE bucket'.return = bucket.return
    <3>1. bucket'.recover.started = bucket.recover.started
      BY <1>2, <1>4, <2>2, <2>3 DEF PipelineInv, ChangedLocally, Pulled
    <3>2. env \notin Records(bucket)
      BY <2>3, <3>1 DEF PipelineInv, RemovedIsGone
    <3>3. bucket'.archived \subseteq Records(bucket)
      BY <1>2 DEF PipelineInv, ChangedLocally, Pulled, Records
    <3> QED BY <3>1, <3>2, <3>3 DEF Records
  <2>4. CASE bucket'.return = local.return /\ bucket'.return # bucket.return
    <3>1. local.return # NoReturn
      BY <2>1, <2>4 DEF NoReturn
    <3>2. local.recover = bucket.recover
      BY <2>4, <3>1 DEF PipelineInv, PipelineTypeOK, ChangedLocally, Pulled
    <3>3. env \notin Records(local)
      BY <1>2, <2>4, <3>2 DEF PipelineInv, RemovedIsGone
    <3> QED BY <1>2, <3>2, <3>3 DEF PipelineInv, ChangedLocally, Pulled, Records
  <2> QED BY <1>2, <2>3, <2>4
<1>7. StartsAreNew'
  <2>1. StartedUpTo(bucket, made) /\ StartedUpTo(local, made)
    BY DEF PipelineInv, StartsAreNew
  <2>2. StartedUpTo(bucket, made)'
    BY <1>1, <1>2, <2>1 DEF StartedUpTo, Records
  <2> QED BY <1>1, <2>1, <2>2 DEF PipelineInv, StartsAreNew, StartedUpTo, Records
<1>8. ChangedLocally'
  BY <1>1 DEF ChangedLocally, Pulled
<1>9. ScriptFound'
  BY <1>1, <1>3, <1>4 DEF PipelineInv, ScriptFound
<1>10. StagesAreHeld'
  <2>1. ~unsaved' => Held' = Held /\ ~unsaved
    BY <1>1, <1>3 DEF Held, Pulled
  <2> QED BY <1>1, <2>1 DEF PipelineInv, StagesAreHeld, Records
<1>11. ReturnLeavesNothing'
  BY <1>1, <1>3 DEF PipelineInv, ReturnLeavesNothing, Passed, ScriptFound, Records
<1> QED BY <1>5, <1>6, <1>7, <1>8, <1>9, <1>10, <1>11

\* PipelineInv is inductive.
LEMMA PipelineStep ==
  ASSUME PipelineInv, [PipelineNext]_pipelineVars
  PROVE  PipelineInv'
<1>1. ASSUME PipelineNext PROVE PipelineTypeOK'
  BY <1>1, TypeStep
<1>2. ASSUME RunRecover \/ RunReturn \/ RecoverStage \/ ReturnStage \/ Complete
      PROVE  ReturnLeavesNothing'
  <2>1. phase' # "none"
    BY <1>2, RunRecoverDoes, RunReturnDoes, RecoverStageDoes, ReturnStageDoes DEF Complete
  <2> QED BY <2>1 DEF ReturnLeavesNothing, Passed
<1>3. CASE (\E w \in {"recover", "return"}, r \in BOOLEAN, t \in 0..RecoverLast : Dispatch(w, r, t)) \/ Setup \/ Pull
  <2>1. ResumesWhereItStopped'
    BY <1>3 DEF Dispatch, Setup, Pull, worldVars, PipelineInv, ResumesWhereItStopped
  <2> QED BY <1>1, <1>3, <2>1, SetupSteps DEF PipelineInv, PipelineNext
<1>4. CASE RunRecover \/ RunReturn
  <2>1. ResumesWhereItStopped'
    BY <1>4, RunRecoverDoes, RunReturnDoes DEF worldVars, PipelineInv, ResumesWhereItStopped
  <2> QED BY <1>1, <1>2, <1>4, <2>1, RunRecoverStep, RunReturnStep DEF PipelineInv, PipelineNext
<1>5. CASE RecoverStage \/ ReturnStage
  BY <1>1, <1>2, <1>5, RecoverStageStep, ReturnStageStep DEF PipelineInv, PipelineNext
<1>6. CASE Complete
  <2>1. ResumesWhereItStopped'
    BY <1>6 DEF Complete, worldVars, PipelineInv, ResumesWhereItStopped
  <2> QED BY <1>1, <1>2, <1>6, <2>1, CompleteStep DEF PipelineInv, PipelineNext
<1>7. CASE Push \/ PushStops \/ RunnerLost
  <2>1. ResumesWhereItStopped'
    BY <1>7 DEF Push, PushStops, RunnerLost, worldVars, PipelineInv, ResumesWhereItStopped
  <2> QED BY <1>1, <1>7, <2>1, EndSteps DEF PipelineInv, PipelineNext
<1>8. CASE UNCHANGED pipelineVars
  BY <1>8 DEF pipelineVars, runVars, worldVars, PipelineInv, PipelineTypeOK, FilesAgree, RemovedIsGone,
              StartsAreNew, StartedUpTo, ChangedLocally, Pulled, ScriptFound, StagesAreHeld, Held, Records,
              ResumesWhereItStopped, ReturnLeavesNothing, Passed
<1> QED BY <1>3, <1>4, <1>5, <1>6, <1>7, <1>8 DEF PipelineNext

\* The first initial state satisfies it.
LEMMA PipelineStart ==
  ASSUME PipelineInit
  PROVE  PipelineInv
<1> USE StagesAssumption DEF PipelineInit, Empty, NoRecover, NoReturn
<1>1. PipelineTypeOK
  <2>1. bucket \in Directory /\ local \in Directory
    BY DEF Directory, RecoverJson, ReturnJson
  <2>2. made \in 0..MaxRuns /\ env \in 0..MaxRuns /\ phase \in Phase /\ through \in 0..RecoverLast
    BY DEF Phase
  <2> QED BY <2>1, <2>2 DEF PipelineTypeOK
<1>2. /\ FilesAgree(bucket) /\ FilesAgree(local) /\ RemovedIsGone(bucket) /\ RemovedIsGone(local)
      /\ StartsAreNew /\ ChangedLocally
  BY DEF FilesAgree, RemovedIsGone, StartsAreNew, StartedUpTo, ChangedLocally, Pulled, Records
<1>3. ScriptFound /\ StagesAreHeld /\ ResumesWhereItStopped /\ ReturnLeavesNothing
  BY DEF ScriptFound, StagesAreHeld, ResumesWhereItStopped, ReturnLeavesNothing, Passed
<1> QED BY <1>1, <1>2, <1>3 DEF PipelineInv

-----------------------------------------------------------------------------
(* The theorems.                                                            *)

\* In every reachable state the invariant holds.
THEOREM PipelineInvariant == PipelineSpec => []PipelineInv
<1>1. PipelineInit => PipelineInv
  BY PipelineStart
<1>2. PipelineInv /\ [PipelineNext]_pipelineVars => PipelineInv'
  BY PipelineStep
<1> QED BY <1>1, <1>2, PTL DEF PipelineSpec

\* The variables of Pipeline keep their types.
THEOREM PipelineTypeCorrect == PipelineSpec => []PipelineTypeOK
<1>1. PipelineInv => PipelineTypeOK
  BY DEF PipelineInv
<1> QED BY <1>1, PipelineInvariant, PTL

\* pipeline.py push: no run state is lost from the bucket by a push that is complete.
THEOREM NoStateLost == PipelineSpec => NothingLost
<1>1. PipelineInv /\ [PipelineNext]_pipelineVars =>
        [Records(bucket) \subseteq Records(bucket') \/ PushStops]_pipelineVars
  <2> SUFFICES ASSUME PipelineInv, PipelineNext, ~PushStops
               PROVE  Records(bucket) \subseteq Records(bucket')
    OBVIOUS
  <2>1. CASE Push
    BY <2>1 DEF Push, PipelineInv, ChangedLocally, Pulled
  <2>2. CASE ~Push
    <3>1. bucket' = bucket
      BY <2>2 DEF PipelineNext, Dispatch, Setup, Pull, RunRecover, RunReturn, RecoverStage, ReturnStage,
                  Complete, RunnerLost
    <3> QED BY <3>1
  <2> QED BY <2>1, <2>2
<1> QED BY <1>1, PipelineInvariant, PTL DEF PipelineSpec, NothingLost

\* A rerun on another runner repeats no stage of a run state, while every push
\* was complete.
THEOREM NoStageTwice == PipelineSpec => []ResumesWhereItStopped
<1>1. PipelineInv => ResumesWhereItStopped
  BY DEF PipelineInv
<1> QED BY <1>1, PipelineInvariant, PTL

\* A return that passed leaves no environment that the bucket knows.
THEOREM ReturnIsClean == PipelineSpec => []ReturnLeavesNothing
<1>1. PipelineInv => ReturnLeavesNothing
  BY DEF PipelineInv
<1> QED BY <1>1, PipelineInvariant, PTL

\* A recovery that passed leaves the environment that its run state records.
THEOREM RecoveryStands == PipelineSpec => []RecoverLeavesItsEnvironment
<1>1. PipelineInv => RecoverLeavesItsEnvironment
  BY DEF PipelineInv, ScriptFound, RecoverLeavesItsEnvironment, Passed
<1> QED BY <1>1, PipelineInvariant, PTL

=============================================================================
