--------------------------------- MODULE Drill ---------------------------------
(***************************************************************************)
(* scripts/drill.py, beside the watchdog (module Watchdog) and the runs that *)
(* it waits for. The Drill workflow is not in the group "recovery": between  *)
(* any two of its steps, and between two requests of one step, a watchdog    *)
(* job checks or dispatches and a Recover or Return run goes on. The drill   *)
(* learns what a run did from two places that change at other times: the     *)
(* list of runs, and the run state in the bucket, written as the run ends.   *)
(***************************************************************************)
EXTENDS Watchdog

CONSTANTS
  Faults,  \* the faults that may happen, of FaultNames
  Present  \* the steps of the drill during which persons dispatch runs

FaultNames == {
  "outage",   \* the service goes down though nothing stopped it
  "listing",  \* a request for the list of runs fails
  "answer",   \* a dispatch is refused, or its answer is lost
  "read",     \* the copy of the run state from the bucket fails
  "unsaved",  \* a run ends without pushing its run state
  "command"}  \* the command that stops or starts the primary VMs fails

ASSUME FaultsAssumption == Faults \subseteq FaultNames

VARIABLES
  vms,        \* the primary VMs run
  env,        \* infra/recovery holds resources
  stored,     \* recover.json in the bucket
  runner,     \* recover.json on the runner of the run that runs: one or none
  at,         \* the next request of the drill
  guarded,    \* the number of runs made before the guard (history)
  since,      \* isolated_at, as the number of runs made before it, or none
  taken,      \* recovery_run: the Recover run that the wait found, or none
  restarted,  \* primary_restarted
  failed,     \* the first step that failed, or "none"
  returned,   \* how the step return ended
  dispatch,   \* the runs before dispatch_return, and its attempts
  misled      \* the drill or the bucket missed what a run did (history)

systemVars == <<vms, env, stored, runner>>
drillVars == <<at, guarded, since, taken, restarted, failed, returned, dispatch, misled>>
vars == <<watchdogVars, systemVars, drillVars>>

RunState == [started : {"never", "before", "after"},
             reached : {"begun", "provisioned", "fenced"}]
NoRunState == [started |-> "never", reached |-> "begun"]
DrillStep == {"guard", "writes", "written", "isolate", "stop", "wait", "giveup", "report",
          "return", "restart", "dispatch", "lookup", "await", "done"}

ASSUME PresentAssumption == Present \subseteq DrillStep

isolated == since # {}
\* The drill's own requests leave the jobs, the switch and the group alone.
Quiet == UNCHANGED <<onRecovery, checksFailed, switch, job, step, failedStart>>
Slip(fault) ==
  /\ fault \in Faults
  /\ misled' = (misled \/ fault \in {"listing", "read", "unsaved"})

-----------------------------------------------------------------------------
(* The runs, in the steps that the drill can tell apart. *)

Running(workflow) == {i \in Of(workflow) : runs[i].status = "running"}
On(state) == runner = {state}

\* A run starts: pull, reset for an automatic start, and started unless kept.
Pull ==
  /\ runner = {}
  /\ \/ \E i \in Running("recover"), reset \in BOOLEAN :
          /\ Automatic(i) => reset
          /\ runner' = {IF reset \/ stored.started = "never"
                        THEN [started |-> IF isolated THEN "after" ELSE "before", reached |-> "begun"]
                        ELSE stored}
     \/ Running("return") # {} /\ runner' = {stored}
  /\ UNCHANGED <<watchdogVars, vms, env, stored, drillVars>>

\* terraform apply: resources exist before the stage records them.
Apply ==
  /\ Running("recover") # {} /\ runner # {} /\ ~env
  /\ env' = TRUE
  /\ UNCHANGED <<watchdogVars, vms, stored, runner, drillVars>>

\* The stage provisioning passed, and recorded the recovery address.
Provisioned ==
  /\ Running("recover") # {} /\ env
  /\ \E state \in runner : state.reached = "begun" /\ runner' = {[state EXCEPT !.reached = "provisioned"]}
  /\ UNCHANGED <<watchdogVars, vms, env, stored, drillVars>>

\* The power of the primary: without its VMs its name answers no one.
Power(on) ==
  /\ vms' = on
  /\ up' = (up /\ (on \/ onRecovery))

\* fence stops the primary.
Fence ==
  /\ Running("recover") # {}
  /\ \E state \in runner : state.reached = "provisioned" /\ runner' = {[state EXCEPT !.reached = "fenced"]}
  /\ Power(FALSE)
  /\ Quiet
  /\ UNCHANGED <<runs, env, stored, drillVars>>

\* The first stage of a return, for a recorded environment only.
StartPrimary ==
  /\ Running("return") # {}
  /\ \E state \in runner : state.reached # "begun"
  /\ ~vms /\ Power(TRUE)
  /\ Quiet
  /\ UNCHANGED <<runs, env, stored, runner, drillVars>>

\* dns-cutover after the fence, or the name of the started primary.
Move(i) ==
  /\ \E state \in runner : IF runs[i].workflow = "recover" THEN state.reached = "fenced" /\ env
                           ELSE state.reached # "begun" /\ vms
  /\ MoveName(i)
  /\ UNCHANGED <<systemVars, drillVars>>

\* The return removes the environment and archives the run state.
Remove ==
  /\ Running("return") # {} /\ ~onRecovery /\ vms
  /\ \E state \in runner : state.reached # "begun"
  /\ env' = FALSE /\ runner' = {NoRunState}
  /\ UNCHANGED <<watchdogVars, vms, stored, drillVars>>

\* The run ends. The workflow pushes the run state unless the runner is lost
\* or the push fails, and a run that pushed nothing did not pass.
EndRun(i, status) ==
  /\ RunEnds(i, status)
  /\ status = "success" =>
       /\ runner # {}
       /\ runs[i].workflow = "return" => On(NoRunState) /\ ~env
  /\ \/ stored' = (IF runner = {} THEN stored ELSE CHOOSE state \in runner : TRUE) /\ UNCHANGED misled
     \/ status = "failure" /\ stored' = stored /\ Slip("unsaved")
  /\ runner' = {}
  /\ UNCHANGED <<vms, env, at, guarded, since, taken, restarted, failed, returned, dispatch>>

\* The service follows the machines that its name points at.
Serve ==
  /\ ~up /\ (IF onRecovery THEN env ELSE vms)
  /\ ServiceChanges
  /\ UNCHANGED <<systemVars, drillVars>>

Outage ==
  /\ up /\ Slip("outage")
  /\ ServiceChanges
  /\ UNCHANGED <<systemVars, at, guarded, since, taken, restarted, failed, returned, dispatch>>

\* A person dispatches a run: the drill holds no lock of theirs, in the 25 minutes
\* of its writes or later. The last run that MaxRuns leaves is the drill's own.
Person ==
  /\ at \in Present /\ Len(runs) < MaxRuns - 1
  /\ \E workflow \in Workflow : PersonDispatches(workflow)
  /\ UNCHANGED <<systemVars, drillVars>>

WatchdogActs ==
  /\ \/ StartLocal \/ Requests \/ Names \/ ListRecovers \/ ListReturns \/ Checkers \/ NoStart
     \/ Len(runs) < MaxRuns - 1 /\ Dispatch
  /\ UNCHANGED <<systemVars, drillVars>>

CheckersCatchUp ==
  /\ checksFailed = up
  /\ CheckersReport
  /\ UNCHANGED <<systemVars, drillVars>>

-----------------------------------------------------------------------------
(* The steps of the drill, up to the isolation. *)

\* Mutant: the job ends with the step that failed, as a job does by default.
FailEndsJob(name) ==
  /\ failed' = IF failed = "none" THEN name ELSE failed
  /\ at' = "ended"

\* main: a step that fails is recorded, unless an earlier one was, and every
\* step between it and the return is refused.
Fail(name) ==
  /\ failed' = IF failed = "none" THEN name ELSE failed
  /\ at' = "return"

\* guard: its reads in one step. The writes follow it for 25 minutes, and what
\* happens between two reads of the guard may as well happen in that time.
Guard ==
  /\ at = "guard"
  /\ \/ /\ switch /\ up /\ ~onRecovery /\ ~env
        /\ \A i \in DOMAIN runs : ~Active(i)
        /\ \A i \in Newest("recover") : (Automatic(i) /\ runs[i].status # "success")
             => \E j \in Of("return") : j > i /\ runs[j].status = "success"
        /\ at' = "writes" /\ UNCHANGED failed
     \/ Fail("guard")
  /\ guarded' = Len(runs)
  /\ UNCHANGED <<watchdogVars, systemVars, since, taken, restarted, returned, dispatch, misled>>

\* writes: the write checks need the service; one of them may fail twice. They
\* take 25 minutes, longer than the limits of both watchdog jobs: at some time
\* in between no job runs.
Writes ==
  /\ \/ at = "writes" /\ job = "none" /\ at' = "written" /\ UNCHANGED failed
     \/ at = "written" /\ up /\ at' = "isolate" /\ UNCHANGED failed
     \/ at \in {"writes", "written"} /\ Fail("writes")
  /\ UNCHANGED <<watchdogVars, systemVars, guarded, since, taken, restarted, returned, dispatch, misled>>

\* isolate: isolated_at is saved before the command is sent, and after the names
\* of the VMs were read.
Isolate ==
  /\ at = "isolate"
  /\ \/ since' = {Len(runs)} /\ at' = "stop" /\ UNCHANGED failed
     \/ UNCHANGED since /\ Fail("isolate")
  /\ UNCHANGED <<watchdogVars, systemVars, guarded, taken, restarted, returned, dispatch, misled>>

\* A command that fails may have changed the VMs or not.
Stop ==
  /\ at = "stop"
  /\ \/ Power(FALSE) /\ at' = "wait" /\ UNCHANGED <<failed, misled>>
     \/ \E on \in BOOLEAN : Power(vms /\ on) /\ Slip("command") /\ Fail("isolate")
  /\ Quiet
  /\ UNCHANGED <<runs, env, stored, runner, guarded, since, taken, restarted, returned, dispatch>>

(* The wait. *)

\* bot_runs_since: the first one is the drill's own.
BotRun(workflow, after) ==
  LET found == {i \in Of(workflow) : runs[i].actor = "bot" /\ i > after}
  IN  {i \in found : \A j \in found : i <= j}

\* Mutant: a run that ended counts as a recovery, whatever its conclusion.
LookAtAnyConclusion(found) ==
  \/ \E i \in found :
       /\ taken' = {i}
       /\ \/ ~Active(i) /\ at' = "report" /\ UNCHANGED failed
          \/ Active(i) /\ taken = {} /\ UNCHANGED <<at, failed>>
  \/ /\ found = {}
     /\ IF taken = {} THEN at' = "giveup" /\ UNCHANGED failed ELSE Fail("wait")
     /\ UNCHANGED taken

\* One turn of wait_for_run for the recovery. A list that fails, and one that is
\* empty, are the same to it. The start deadline may have passed at any turn.
\* Its run ends within the deadline of four hours: the job's limit is two.
Look(found) ==
  \/ \E i \in found :
       /\ taken' = {i}
       /\ \/ runs[i].status = "success" /\ at' = "report" /\ UNCHANGED failed
          \/ runs[i].status = "failure" /\ Fail("wait")
          \/ Active(i) /\ taken = {} /\ UNCHANGED <<at, failed>>
  \/ /\ found = {}
     /\ IF taken = {} THEN at' = "giveup" /\ UNCHANGED failed ELSE Fail("wait")
     /\ UNCHANGED taken

Wait ==
  /\ at = "wait"
  /\ \E after \in since :
       \/ Look(BotRun("recover", after)) /\ UNCHANGED misled
       \/ BotRun("recover", after) # {} /\ Look({}) /\ Slip("listing")
  /\ UNCHANGED <<watchdogVars, systemVars, guarded, since, restarted, returned, dispatch>>

\* primary_vms("start"): primary_restarted is saved after the command.
StartVMs ==
  \/ Power(TRUE) /\ restarted' = TRUE /\ UNCHANGED misled
  \/ \E on \in BOOLEAN : Power(vms \/ on) /\ Slip("command") /\ UNCHANGED restarted

\* wait: no run started, and the drill starts the primary VMs again.
GiveUp ==
  /\ at = "giveup"
  /\ StartVMs /\ Fail("wait")
  /\ Quiet
  /\ UNCHANGED <<runs, env, stored, runner, guarded, since, taken, returned, dispatch>>

\* report: from the run state of a run after the isolation that passed every
\* stage. A target that is missed fails it too.
Report ==
  /\ at = "report"
  /\ \/ stored.started = "after" /\ stored.reached = "fenced" /\ at' = "return" /\ UNCHANGED failed
     \/ Fail("report")
  /\ UNCHANGED <<watchdogVars, systemVars, guarded, since, taken, restarted, returned, dispatch, misled>>

(* The return, after every step. *)

\* Mutant: decision 0015, a drill whose recovery failed skips the return.
SkippedAfterFailure == ~isolated \/ restarted \/ failed # "none"

\* main: there is nothing to return from.
Skipped == ~isolated \/ restarted

\* Mutant: whatever recovery recorded an environment.
AnyRecoveryEnvironment == stored.reached # "begun"

\* recovery_environment: a run after the isolation passed provisioning.
RecoveryEnvironment == stored.started = "after" /\ stored.reached # "begun"

\* return_: to the workflow or to the VMs. A read that fails is no environment.
Return ==
  /\ at = "return"
  /\ \/ Skipped /\ returned' = "skipped" /\ at' = "done" /\ UNCHANGED <<dispatch, misled>>
     \/ /\ ~Skipped
        /\ \/ /\ RecoveryEnvironment
              /\ dispatch' = [after |-> Len(runs), attempt |-> 1] /\ at' = "dispatch"
              /\ UNCHANGED misled
           \/ ~RecoveryEnvironment /\ at' = "restart" /\ UNCHANGED <<dispatch, misled>>
           \/ RecoveryEnvironment /\ Slip("read") /\ at' = "restart" /\ UNCHANGED dispatch
        /\ UNCHANGED returned
  /\ UNCHANGED <<watchdogVars, systemVars, guarded, since, taken, restarted, failed>>

\* The step return ends, and the drill with it.
Ends(how) ==
  /\ returned' = how /\ at' = "done"
  /\ failed' = IF how = "failed" /\ failed = "none" THEN "return" ELSE failed

Restart ==
  /\ at = "restart"
  /\ StartVMs /\ Ends(IF restarted' THEN "passed" ELSE "failed")
  /\ Quiet
  /\ UNCHANGED <<runs, env, stored, runner, guarded, since, taken, dispatch>>

\* Mutant: every attempt dispatches, whatever became of the one before.
LookupNothing ==
  /\ at = "lookup"
  /\ at' = "dispatch"
  /\ UNCHANGED <<watchdogVars, systemVars, guarded, since, taken, restarted, failed, returned, dispatch, misled>>

\* dispatch_return, before another attempt: a dispatch whose answer was lost may
\* have started a run. A list that fails here fails the return.
Lookup ==
  /\ at = "lookup"
  /\ \/ /\ at' = (IF BotRun("return", dispatch.after) = {} THEN "dispatch" ELSE "await")
        /\ UNCHANGED <<failed, returned, misled>>
     \/ Ends("failed") /\ Slip("listing")
  /\ UNCHANGED <<watchdogVars, systemVars, guarded, since, taken, restarted, dispatch>>

DispatchAttempts == 3

\* dispatch_return, one attempt: answered, or refused or not answered.
Post ==
  /\ at = "dispatch"
  /\ \/ /\ Len(runs) < MaxRuns
        /\ runs' = Dispatched("return", "bot")
        /\ at' = "await" /\ UNCHANGED <<dispatch, failed, returned, misled>>
     \/ /\ runs' \in {runs} \cup {r \in {Dispatched("return", "bot")} : Len(runs) < MaxRuns}
        /\ Slip("answer")
        /\ IF dispatch.attempt = DispatchAttempts
           THEN Ends("failed") /\ UNCHANGED dispatch
           ELSE /\ dispatch' = [dispatch EXCEPT !.attempt = @ + 1] /\ at' = "lookup"
                /\ UNCHANGED <<failed, returned>>
  /\ Quiet
  /\ UNCHANGED <<up, systemVars, guarded, since, taken, restarted>>

\* wait_for_run for the return. A list that fails only costs a turn, and the
\* limit of the run's job is shorter than the wait.
Await ==
  /\ at = "await"
  /\ \E i \in BotRun("return", dispatch.after) :
       ~Active(i) /\ Ends(IF runs[i].status = "success" THEN "passed" ELSE "failed")
  /\ UNCHANGED <<watchdogVars, systemVars, guarded, since, taken, restarted, dispatch, misled>>

\* outcome, of a drill that is done. A target missed is a failed report here.
Outcome == CASE failed = "guard" -> "refused"
             [] failed # "none" \/ returned # "passed" -> "failed"
             [] OTHER -> "passed"

-----------------------------------------------------------------------------
DrillInit ==
  /\ Init /\ switch
  /\ vms = TRUE /\ env = FALSE /\ stored = NoRunState /\ runner = {}
  /\ at = "guard" /\ guarded = 0 /\ since = {} /\ taken = {} /\ restarted = FALSE
  /\ failed = "none" /\ returned = "none"
  /\ dispatch = [after |-> 0, attempt |-> 0] /\ misled = FALSE

DrillActs ==
  \/ Guard \/ Writes \/ Isolate \/ Stop \/ Wait \/ GiveUp \/ Report
  \/ Return \/ Restart \/ Lookup \/ Post \/ Await

RunActs == \/ Pull \/ Apply \/ Provisioned \/ Fence \/ StartPrimary \/ Remove
           \/ \E i \in DOMAIN runs : Move(i) \/ EndRun(i, "success")

RunFails == \E i \in DOMAIN runs : EndRun(i, "failure")

DrillNext == DrillActs \/ RunActs \/ RunFails \/ Person \/ WatchdogActs \/ CheckersCatchUp \/ Serve \/ Outage

DrillSpec == DrillInit /\ [][DrillNext]_vars

-----------------------------------------------------------------------------
\* The type invariant.
DrillTypeOK ==
  /\ WatchdogTypeOK
  /\ vms \in BOOLEAN /\ env \in BOOLEAN
  /\ stored \in RunState /\ runner \subseteq RunState /\ Cardinality(runner) <= 1
  /\ at \in DrillStep /\ restarted \in BOOLEAN
  /\ guarded \in 0..MaxRuns
  /\ since \subseteq 0..MaxRuns /\ Cardinality(since) <= 1
  /\ taken \subseteq Of("recover") /\ Cardinality(taken) <= 1
  /\ failed \in {"none", "guard", "writes", "isolate", "wait", "report", "return"}
  /\ returned \in {"none", "skipped", "passed", "failed"}
  /\ dispatch \in [after : 0..MaxRuns, attempt : 0..DispatchAttempts]
  /\ misled \in BOOLEAN

\* The recoveries that the watchdog started in the time of the drill, but for the
\* one that the wait took: a job that read the service before the guard, or
\* after the wait had given up, dispatches late.
OtherStarts == {i \in Of("recover") : runs[i].actor = "bot" /\ i > guarded} \ taken

\* Nobody dispatched a run since the guard: after the dispatch of a drill nobody
\* acts until its issue opens (decision 0016).
NobodyActed == \A i \in DOMAIN runs : i > guarded => runs[i].actor = "bot"

\* A drill that stopped the primary ends on it, whichever step failed: when the
\* return did not report a failure, the VMs run and the public name is theirs.
\* Not after a failed list or read, a run state that was never pushed, or a
\* recovery that the drill did not wait for.
DrillEndsOnPrimary ==
  (/\ at = "done" /\ isolated /\ returned # "failed"
   /\ ~misled /\ OtherStarts = {} /\ NobodyActed)
    => vms /\ ~onRecovery

\* The drill's own return, which nobody attends and which discards the writes of
\* the recovery cluster, never removes the environment of a recovery that was begun
\* before the isolation: by a person or the watchdog, in the 25 minutes after the
\* guard, or earlier.
RemovesOnlyItsOwn ==
  [][\A i \in Running("return") :
       (runs[i].actor = "bot" /\ env /\ ~env') => \A state \in runner : state.started # "before"]_vars

\* A lost answer is not dispatched again while its run is listed: of the returns
\* of one drill, one at most has begun.
OneReturn ==
  Cardinality({i \in Of("return") : runs[i].actor = "bot"}) <= 1

\* A drill that passed returned by the workflow, from the recovery it waited for,
\* unless a list or the copy of the run state failed, a run ended without pushing
\* its run state, or a person dispatched a run since the guard.
PassedMeansRecovered ==
  at = "done" /\ Outcome = "passed" /\ ~misled /\ NobodyActed =>
    /\ \E i \in taken, n \in since : i > n /\ runs[i].status = "success"
    /\ \E i \in Of("return") : runs[i].status = "success" /\ \A j \in taken : j < i

\* As the runbook has it, of a drill with the outcome "passed": if the recovery
\* built an environment, the drill ran the Return workflow and ends on the primary.
PassedEndsOnPrimary == at = "done" /\ Outcome = "passed" => ~onRecovery /\ ~env
=============================================================================
