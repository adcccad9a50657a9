------------------------------- MODULE Pipeline -------------------------------
(***************************************************************************)
(* The run state across runners: scripts/pipeline.py and the steps of the    *)
(* Recover and Return workflows around the two scripts. Each run works on a  *)
(* fresh runner that pulls the directory of the run state from the bucket    *)
(* and pushes it back as a mirror, whether the run passed or failed. The     *)
(* group "recovery" lets one run at a time; a runner may be lost at any      *)
(* step, and a push may stop between two objects.                            *)
(***************************************************************************)
EXTENDS Naturals, FiniteSets

CONSTANTS
  MaxRuns,       \* bound: the runs that are ever made
  RecoverLast,   \* the number of stages of a recovery; the first one is provisioning
  RemoveStage,   \* the stage of a return that removes the environment
  ReturnLast     \* the number of stages of a return

ASSUME StagesAssumption ==
  /\ MaxRuns \in Nat /\ RecoverLast \in Nat \ {0} /\ ReturnLast \in Nat
  /\ RemoveStage \in 2..ReturnLast

VARIABLES
  bucket,    \* the objects under pipeline/drill in the state bucket
  local,     \* the directory of the runner
  workflow,  \* the workflow of the run that runs
  reset,     \* its input: archive the run state first
  through,   \* its input: the stage to stop after; 0 is preflight, which makes nothing
  phase,     \* its next step
  good,      \* no step of it has failed
  pending,   \* the script found a stage to run, preflight apart
  made,      \* the number of runs made, the clock of `started`
  env,       \* the recovery environment that stands, named after its run state, or 0
  executed,  \* the stages carried out, with the run state that they belong to
  repeated,  \* a stage was carried out twice for one run state (history)
  unsaved    \* a run ended without a complete push (history)

inputs == <<workflow, reset, through>>
runVars == <<inputs, phase, good, pending>>
worldVars == <<env, executed, repeated>>
pipelineVars == <<bucket, local, runVars, made, worldVars, unsaved>>

\* recover.json and return.json. `started` is 0 in a file that is not there;
\* return.json keeps the start of the recovery that it returns from.
RecoverJson == [started : 0..MaxRuns, passed : 0..RecoverLast, address : 0..MaxRuns]
ReturnJson == [recovery : 0..MaxRuns, passed : 0..ReturnLast]
Directory == [recover : RecoverJson, return : ReturnJson, archived : SUBSET (1..MaxRuns)]

NoRecover == [started |-> 0, passed |-> 0, address |-> 0]
NoReturn == [recovery |-> 0, passed |-> 0]
Empty == [recover |-> NoRecover, return |-> NoReturn, archived |-> {}]

Phase == {"none", "setup", "pull", "run", "stages", "push"}

\* Mutant: a directory without a run state is archived too.
ArchivedAlways(dir) ==
  [recover |-> NoRecover, return |-> NoReturn, archived |-> dir.archived \cup {dir.recover.started}]

\* archive: the files get a stamp, and the next run starts over.
Archived(dir) ==
  [recover |-> NoRecover, return |-> NoReturn,
   archived |-> dir.archived \cup ({dir.recover.started} \ {0})]

-----------------------------------------------------------------------------
(* The steps of a workflow run. *)

Dispatch(w, r, t) ==
  /\ phase = "none" /\ made < MaxRuns
  /\ workflow' = w /\ reset' = r /\ through' = t
  /\ w = "return" => ~r /\ t = RecoverLast
  /\ phase' = "setup" /\ good' = TRUE /\ pending' = FALSE
  /\ made' = made + 1 /\ local' = Empty
  /\ UNCHANGED <<bucket, worldVars, unsaved>>

\* The job is over. The next run has a runner of its own.
Over == phase' = "none"

\* configure, keys and ssh-key: one that fails ends the run before the pull.
Setup ==
  /\ phase = "setup"
  /\ phase' \in {"pull", "none"}
  /\ good' = (phase' # "none")
  /\ UNCHANGED <<bucket, local, inputs, pending, made, worldVars, unsaved>>

\* Mutant: the push follows a failed pull too.
PullThenPush ==
  /\ phase = "pull"
  /\ \/ local' = bucket /\ phase' = "run" /\ UNCHANGED good
     \/ local' = local /\ phase' = "push" /\ good' = FALSE
  /\ UNCHANGED <<bucket, inputs, pending, made, worldVars, unsaved>>

\* pull: the directory is that of the bucket, also when the prefix is empty. A
\* list or a copy that fails ends the run, and nothing is pushed.
Pull ==
  /\ phase = "pull"
  /\ \/ local' = bucket /\ phase' = "run" /\ UNCHANGED good
     \/ local' = local /\ phase' = "none" /\ good' = FALSE
  /\ UNCHANGED <<bucket, inputs, pending, made, worldVars, unsaved>>

\* The script stops with an error; the push follows.
Fails == phase' = "push" /\ good' = FALSE /\ UNCHANGED pending

\* Mutant: a resumed run does not look for its environment.
NoLook(json) == TRUE

\* require_recorded_environment, when provisioning passed and one up to the stage
\* to stop after has not.
EnvironmentFound(json) == json.passed \in 1..(through - 1) => env = json.address

\* run of scripts/recover.py, after the step reset: start or resume.
RunRecover ==
  /\ phase = "run" /\ workflow = "recover"
  /\ LET dir == IF reset THEN Archived(local) ELSE local
         resumed == IF dir.recover.started = 0
                    THEN [dir EXCEPT !.recover.started = made] ELSE dir
     IN  /\ local' = resumed
         /\ \/ /\ EnvironmentFound(resumed.recover)
               /\ phase' = "stages" /\ UNCHANGED good
               /\ pending' = (resumed.recover.passed < through)
            \/ Fails
  /\ UNCHANGED <<bucket, inputs, made, worldVars, unsaved>>

\* recovery_started of return.json, set by the first run that finds a recovery.
ReturnOf(dir) ==
  IF dir.return.recovery = 0 THEN [dir.return EXCEPT !.recovery = dir.recover.started] ELSE dir.return

\* Mutant: the return does not compare the two starts.
SameOrOther(dir) == TRUE

\* A return resumes only against the recovery run that it started with.
SameRecovery(dir) == ReturnOf(dir).recovery = dir.recover.started

\* run of scripts/return_to_primary.py: it needs the recorded environment until
\* the next stage is the one that removes it.
RunReturn ==
  /\ phase = "run" /\ workflow = "return"
  /\ local' = [local EXCEPT !.return = ReturnOf(local)]
  /\ \/ /\ SameRecovery(local)
        /\ local.return.passed < RemoveStage - 1 =>
             local.recover.passed > 0 /\ env = local.recover.address /\ env # 0
        /\ phase' = "stages" /\ pending' = (local.return.passed < ReturnLast) /\ UNCHANGED good
     \/ Fails
  /\ UNCHANGED <<bucket, inputs, made, worldVars, unsaved>>

\* A stage is carried out, then saved as passed, or it fails part of the way.
Execute(stage) ==
  /\ executed' = executed \cup {<<workflow, local.recover.started, stage>>}
  /\ repeated' = (repeated \/ <<workflow, local.recover.started, stage>> \in executed)

RecoverStage ==
  /\ phase = "stages" /\ workflow = "recover" /\ local.recover.passed < through
  /\ LET stage == local.recover.passed + 1 IN
       \/ /\ Execute(stage)
          /\ env' = IF stage = 1 /\ env = 0 THEN local.recover.started ELSE env
          /\ local' = [local EXCEPT !.recover.passed = stage,
                                    !.recover.address = IF stage = 1 THEN env' ELSE @]
          /\ UNCHANGED <<phase, good, pending>>
       \/ /\ env' \in {env} \cup {e \in {local.recover.started} : stage = 1 /\ env = 0}
          /\ Fails /\ UNCHANGED <<local, executed, repeated>>
  /\ UNCHANGED <<bucket, inputs, made, unsaved>>

ReturnStage ==
  /\ phase = "stages" /\ workflow = "return" /\ local.return.passed < ReturnLast
  /\ LET stage == local.return.passed + 1 IN
       \/ /\ Execute(stage)
          /\ env' = IF stage = RemoveStage THEN 0 ELSE env
          /\ local' = [local EXCEPT !.return.passed = stage]
          /\ UNCHANGED <<phase, good, pending>>
       \/ /\ env' \in {env} \cup {e \in {0} : stage = RemoveStage}
          /\ Fails /\ UNCHANGED <<local, executed, repeated>>
  /\ UNCHANGED <<bucket, inputs, made, unsaved>>

\* The script passed. A return archives its state and that of the recovery.
Complete ==
  /\ phase = "stages"
  /\ \/ workflow = "recover" /\ local.recover.passed >= through /\ UNCHANGED local
     \/ workflow = "return" /\ local.return.passed = ReturnLast /\ local' = Archived(local)
  /\ phase' = "push"
  /\ UNCHANGED <<bucket, inputs, good, pending, made, worldVars, unsaved>>

\* Mutant: without always(), the push follows a script that passed.
PushWhenGood ==
  /\ phase = "push"
  /\ bucket' = (IF good THEN local ELSE bucket)
  /\ Over
  /\ UNCHANGED <<local, inputs, good, pending, made, worldVars, unsaved>>

\* push: the bucket mirrors the directory, objects that are gone from it included.
Push ==
  /\ phase = "push"
  /\ bucket' = local
  /\ Over
  /\ UNCHANGED <<local, inputs, good, pending, made, worldVars, unsaved>>

\* A push that stops between two objects has copied and deleted some of them.
PushStops ==
  /\ phase = "push"
  /\ bucket' \in [recover : {bucket.recover, local.recover}, return : {bucket.return, local.return},
                  archived : {bucket.archived, local.archived}]
  /\ good' = FALSE /\ unsaved' = TRUE
  /\ Over
  /\ UNCHANGED <<local, inputs, pending, made, worldVars>>

\* The runner is lost: its directory with it.
RunnerLost ==
  /\ phase # "none"
  /\ good' = FALSE
  /\ unsaved' = (unsaved \/ phase \in {"run", "stages", "push"})
  /\ Over
  /\ UNCHANGED <<bucket, local, inputs, pending, made, worldVars>>

-----------------------------------------------------------------------------
PipelineInit ==
  /\ bucket = Empty /\ local = Empty
  /\ workflow = "recover" /\ reset = FALSE /\ through = RecoverLast
  /\ phase = "none" /\ good = TRUE /\ pending = FALSE
  /\ made = 0 /\ env = 0 /\ executed = {} /\ repeated = FALSE /\ unsaved = FALSE

PipelineNext ==
  \/ \E w \in {"recover", "return"}, r \in BOOLEAN, t \in 0..RecoverLast : Dispatch(w, r, t)
  \/ Setup \/ Pull \/ RunRecover \/ RunReturn \/ RecoverStage \/ ReturnStage \/ Complete
  \/ Push \/ PushStops \/ RunnerLost

PipelineSpec == PipelineInit /\ [][PipelineNext]_pipelineVars

-----------------------------------------------------------------------------
\* The type invariant.
PipelineTypeOK ==
  /\ bucket \in Directory /\ local \in Directory
  /\ workflow \in {"recover", "return"} /\ reset \in BOOLEAN
  /\ through \in 0..RecoverLast /\ phase \in Phase
  /\ good \in BOOLEAN /\ pending \in BOOLEAN
  /\ made \in 0..MaxRuns /\ env \in 0..MaxRuns
  /\ executed \subseteq {"recover", "return"} \X (1..MaxRuns) \X (1..(RecoverLast + ReturnLast))
  /\ repeated \in BOOLEAN /\ unsaved \in BOOLEAN

\* The runs whose state a directory holds, in use or archived.
Records(dir) == dir.archived \cup ({dir.recover.started} \ {0})

\* No run state is lost from the bucket: though the push mirrors the directory of
\* a runner, it deletes nothing that this runner has not pulled and archived.
\* A push that stops may have deleted recover.json before it copied the archive.
NothingLost == [][Records(bucket) \subseteq Records(bucket') \/ PushStops]_pipelineVars

\* A rerun resumes where the run before it stopped: no stage is carried out twice
\* for one run state, on whichever runner, while every push was complete.
ResumesWhereItStopped == repeated => unsaved

\* A run is over and passed.
Passed(w) == phase = "none" /\ workflow = w /\ good /\ made > 0

\* A return that passed has left no environment whose run state ever reached the
\* bucket: a return.json that outlived its recovery never stands for a later one.
\* An environment that only a lost runner knew of may stand beside a return that
\* resumes after its own stage remove-recovery.
ReturnLeavesNothing == Passed("return") => env = 0 \/ env \notin Records(bucket)

\* A recovery that passed, and had a stage from provisioning on to run, leaves the
\* environment that its state records: one that is gone is never resumed, though
\* the push of the return that removed it was lost. The code does not look when
\* every stage up to the one to stop after has passed, nor for a run that stops
\* after preflight.
RecoverLeavesItsEnvironment ==
  Passed("recover") /\ pending => env # 0 /\ env = local.recover.address
=============================================================================
