------------------------------- MODULE Watchdog -------------------------------
(***************************************************************************)
(* The Watchdog workflow and scripts/watchdog.py, beside the runs it reads   *)
(* and starts. A Watchdog run is a local job and, for a candidate, a confirm *)
(* job that repeats the checks, reads the checkers (module Uptime) and       *)
(* dispatches one Recover run. Each check is a request of its own: runs      *)
(* start, end and move the public name between any two of them. Recover and  *)
(* Return runs share the concurrency group "recovery" of GitHub.             *)
(***************************************************************************)
EXTENDS Naturals, Sequences, FiniteSets

CONSTANT MaxRuns  \* bound: the Recover and Return runs that are ever made

ASSUME MaxRunsAssumption == MaxRuns \in Nat

VARIABLES
  up,            \* one of the two names answers 200
  onRecovery,    \* the public name is off the address of the primary's name
  checksFailed,  \* the results give the verdict Uptime!EveryCheckerFailed
  switch,        \* the variable AUTO_FAILOVER is "true"
  runs,          \* the Recover and Return runs, in the order of created_at
  job,           \* the job of the Watchdog run that runs: no other run overlaps
  step,          \* the next check of the job
  failedStart    \* the failed automatic start that the listing found: one run or none

serviceVars == <<up, onRecovery, checksFailed>>
jobVars == <<job, step, failedStart>>
watchdogVars == <<up, onRecovery, checksFailed, switch, runs, job, step, failedStart>>

Workflow == {"recover", "return"}
Actor == {"bot", "person"}
\* "failure" is every conclusion but success, "cancelled" among them.
Status == {"pending", "running", "success", "failure"}
Run == [workflow : Workflow, actor : Actor, status : Status]

Job == {"none", "local", "confirm"}
Step == {"requests", "names", "recovers", "returns", "checkers", "dispatch"}

Of(workflow) == {i \in DOMAIN runs : runs[i].workflow = workflow}
Newest(workflow) == {i \in Of(workflow) : \A j \in Of(workflow) : j <= i}
Active(i) == runs[i].status \in {"pending", "running"}
Automatic(i) == runs[i].workflow = "recover" /\ runs[i].actor = "bot"

-----------------------------------------------------------------------------
(* GitHub: the group runs one run and keeps one pending. *)

\* Mutant: the API's name of a run that waits for a runner.
DispatchedQueued(workflow, actor) ==
  Append(runs, [workflow |-> workflow, actor |-> actor, status |-> "queued"])

\* The runs after a dispatch: a newer run replaces the pending one.
Dispatched(workflow, actor) ==
  LET busy == \E i \in DOMAIN runs : runs[i].status = "running"
      others == [i \in DOMAIN runs |->
                   IF runs[i].status = "pending" THEN [runs[i] EXCEPT !.status = "failure"] ELSE runs[i]]
  IN  Append(others, [workflow |-> workflow, actor |-> actor,
                      status |-> IF busy THEN "pending" ELSE "running"])

\* The runs after run i ended: the pending one starts.
Ended(i, status) ==
  [j \in DOMAIN runs |->
     CASE j = i -> [runs[j] EXCEPT !.status = status]
       [] runs[j].status = "pending" -> [runs[j] EXCEPT !.status = "running"]
       [] OTHER -> runs[j]]

\* A person dispatches either workflow, at any time.
PersonDispatches(workflow) ==
  /\ Len(runs) < MaxRuns
  /\ runs' = Dispatched(workflow, "person")
  /\ UNCHANGED <<serviceVars, switch, jobVars>>

\* The run moves the public name, and keeps running.
MoveName(i) ==
  /\ runs[i].status = "running"
  /\ onRecovery' = (runs[i].workflow = "recover")
  /\ UNCHANGED <<up, checksFailed, switch, runs, jobVars>>

\* A run ends. It passes only where it leaves the name: a Return on the primary,
\* an automatic Recover, which has through=all, on the recovery cluster.
RunEnds(i, status) ==
  /\ runs[i].status = "running"
  /\ status = "success" =>
       /\ runs[i].workflow = "return" => ~onRecovery
       /\ Automatic(i) => onRecovery
  /\ runs' = Ended(i, status)
  /\ UNCHANGED <<serviceVars, switch, jobVars>>

(* The service, its checkers and the switch. *)

ServiceChanges ==
  /\ up' = ~up
  /\ UNCHANGED <<onRecovery, checksFailed, switch, runs, jobVars>>

\* The results catch up with the service.
CheckersReport ==
  /\ checksFailed' = ~up
  /\ UNCHANGED <<up, onRecovery, switch, runs, jobVars>>

TurnSwitch ==
  /\ switch' = ~switch
  /\ UNCHANGED <<serviceVars, runs, jobVars>>

-----------------------------------------------------------------------------
(* The jobs. *)

Enter(next) == step' = next /\ UNCHANGED <<serviceVars, switch, runs, job>>

\* require_switch: a job holds the value that the switch had when it started.
StartJob(next) ==
  /\ switch
  /\ job' = next
  /\ step' = "requests"
  /\ failedStart' = {}
  /\ UNCHANGED <<serviceVars, switch, runs>>

StartLocal == job = "none" /\ StartJob("local")

\* require_unreachable.
Requests ==
  /\ job # "none" /\ step = "requests"
  /\ ~up
  /\ Enter("names")
  /\ UNCHANGED failedStart

\* require_public_name_on_primary.
Names ==
  /\ step = "names"
  /\ ~onRecovery
  /\ Enter("recovers")
  /\ UNCHANGED failedStart

\* Mutant: the newest run alone decides whether one is in progress.
ListNewestRecover ==
  /\ step = "recovers"
  /\ \A i \in Newest("recover") : runs[i].status # "running"
  /\ failedStart' = {i \in Newest("recover") : Automatic(i) /\ runs[i].status # "success"}
  /\ Enter("returns")

\* Mutant: a failed run counts, whoever started it.
ListRecoversOfAnyActor ==
  /\ step = "recovers"
  /\ \A i \in Of("recover") : ~Active(i)
  /\ failedStart' = {i \in Newest("recover") : runs[i].status # "success"}
  /\ Enter("returns")

\* require_no_recovery, the first listing: no Recover run is active, and the
\* newest one is remembered when it is an automatic start that did not pass.
ListRecovers ==
  /\ step = "recovers"
  /\ \A i \in Of("recover") : ~Active(i)
  /\ failedStart' = {i \in Newest("recover") : Automatic(i) /\ runs[i].status # "success"}
  /\ Enter("returns")

\* Mutant: any return that passed clears a failed start.
ClearedByAnyReturn ==
  \A b \in failedStart : \E i \in Of("return") : runs[i].status = "success"

\* A return that passed and was made after it clears a failed start.
Cleared == \A b \in failedStart : \E i \in Of("return") : i > b /\ runs[i].status = "success"

\* require_no_recovery, the second listing. The local job ends here: its
\* candidate starts the confirm job. The confirm job goes on to the checkers.
ListReturns ==
  /\ step = "returns"
  /\ Cleared
  /\ \A i \in Of("return") : ~Active(i)
  /\ \/ job = "local" /\ StartJob("confirm")
     \/ job = "confirm" /\ Enter("checkers") /\ UNCHANGED failedStart

\* require_every_checker_failed.
Checkers ==
  /\ step = "checkers"
  /\ checksFailed
  /\ Enter("dispatch")
  /\ UNCHANGED failedStart

\* The job ends: a run of its own is over, whatever its last request said.
End == job' = "none" /\ step' = "requests" /\ failedStart' = {}

\* start.
Dispatch ==
  /\ step = "dispatch"
  /\ Len(runs) < MaxRuns
  /\ runs' = Dispatched("recover", "bot")
  /\ End
  /\ UNCHANGED <<serviceVars, switch>>

\* A check that does not hold, a request that fails, a timeout of the job.
NoStart ==
  /\ job # "none"
  /\ End
  /\ UNCHANGED <<serviceVars, switch, runs>>

-----------------------------------------------------------------------------
Init ==
  /\ up = TRUE /\ onRecovery = FALSE /\ checksFailed = FALSE
  /\ switch \in BOOLEAN
  /\ runs = <<>>
  /\ job = "none" /\ step = "requests" /\ failedStart = {}

Check == Requests \/ Names \/ ListRecovers \/ ListReturns \/ Checkers \/ Dispatch

Next ==
  \/ \E workflow \in Workflow : PersonDispatches(workflow)
  \/ \E i \in DOMAIN runs : MoveName(i) \/ \E status \in {"success", "failure"} : RunEnds(i, status)
  \/ ServiceChanges \/ CheckersReport \/ TurnSwitch
  \/ StartLocal \/ Check \/ NoStart

Spec == Init /\ [][Next]_watchdogVars

\* The schedule keeps starting the watchdog, a job goes on or ends, results keep
\* arriving, and requests do not fail forever: from some point on, a job ends
\* only at a check that does not hold, or with the dispatch.
FairSpec ==
  /\ Spec
  /\ WF_watchdogVars(StartLocal \/ Check \/ NoStart)
  /\ WF_watchdogVars(CheckersReport)
  /\ <>[][NoStart => ~ENABLED Check]_watchdogVars

-----------------------------------------------------------------------------
\* The type invariant.
WatchdogTypeOK ==
  /\ up \in BOOLEAN /\ onRecovery \in BOOLEAN /\ checksFailed \in BOOLEAN /\ switch \in BOOLEAN
  /\ runs \in Seq(Run) /\ Len(runs) <= MaxRuns
  /\ job \in Job /\ step \in Step
  /\ failedStart \subseteq DOMAIN runs

\* Two automatic starts never overlap: while one waits for the group or runs,
\* the watchdog makes no other, though persons dispatch between its checks.
OneAutomaticRun ==
  \A i, j \in DOMAIN runs : (Automatic(i) /\ Active(i) /\ Automatic(j) /\ Active(j)) => i = j

\* The runs that a step makes on behalf of the watchdog.
Starts == Len(runs') > Len(runs) /\ runs'[Len(runs')].actor = "bot"

\* The newest automatic start before this step, when it did not pass.
LastFailed == {b \in DOMAIN runs : /\ Automatic(b) /\ runs[b].status = "failure"
                                   /\ \A j \in DOMAIN runs : Automatic(j) => j <= b}

\* The watchdog retries no failed start on its own: between two automatic
\* starts, the first failed, a person started a recovery or a return passed.
FailedStartWaits ==
  [][Starts => \A b \in LastFailed : \E j \in DOMAIN runs :
       /\ j > b
       /\ \/ runs[j].workflow = "recover" /\ runs[j].actor = "person"
          \/ runs[j].workflow = "return" /\ runs[j].status = "success"]_watchdogVars

\* As the runbook has it: after a failed start, a newer Recover run succeeded
\* or a Return run created after it passed.
FailedStartWaitsForSuccess ==
  [][Starts => \A b \in LastFailed : \E j \in DOMAIN runs :
       j > b /\ runs[j].status = "success"]_watchdogVars

\* The watchdog should start a recovery: the service is down, its name is on the
\* primary, the switch is on, no run is active, and no failed automatic start
\* waits for a person or a return.
StartDue ==
  /\ ~up /\ ~onRecovery /\ switch
  /\ Len(runs) < MaxRuns
  /\ \A i \in DOMAIN runs : ~Active(i)
  /\ \A i \in Newest("recover") :
       \/ ~Automatic(i)
       \/ runs[i].status = "success"
       \/ \E j \in Of("return") : j > i /\ runs[j].status = "success"

\* A start that stays due is made: the conditions of the two jobs can be met in
\* one pass, and nobody acts.
DueStartHappens == StartDue ~> ~StartDue
===============================================================================
