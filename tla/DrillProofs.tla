------------------------------ MODULE DrillProofs ------------------------------
(***************************************************************************)
(* Proofs about Drill, for any number of runs, any set of faults and any     *)
(* steps at which persons act: the drill makes one return at most, removes   *)
(* only what a recovery after the isolation built, and, while no person      *)
(* acts, ends on the primary whichever step failed. DrillInv says, whoever   *)
(* acts, what the step of the drill says of its records and when the run     *)
(* states were begun (LateStates); and while the runs since the guard are    *)
(* the drill's and the watchdog's (Alone), that nothing moves once the       *)
(* recovery of the isolation passed (Settled) and, for a drill that nothing  *)
(* misled (Plain), what the run states, the name and the VMs are before,     *)
(* during and after its recovery and its return.                             *)
(***************************************************************************)
EXTENDS Drill, WatchdogProofs, FiniteSetTheorems

\* At most one element.
One(S) == \A x, y \in S : x = y

\* The types of the state, the cardinalities put so that a step shows them.
DrillTypes ==
  /\ vms \in BOOLEAN /\ env \in BOOLEAN
  /\ stored \in RunState /\ runner \in SUBSET RunState /\ One(runner)
  /\ at \in DrillStep /\ restarted \in BOOLEAN
  /\ guarded \in 0..MaxRuns
  /\ since \in SUBSET (0..MaxRuns) /\ One(since)
  /\ taken \in SUBSET Of("recover") /\ One(taken)
  /\ failed \in {"none", "guard", "writes", "isolate", "wait", "report", "return"}
  /\ returned \in {"none", "skipped", "passed", "failed"}
  /\ dispatch \in [after : 0..MaxRuns, attempt : 0..DispatchAttempts]
  /\ misled \in BOOLEAN

Opening == {"guard", "writes", "written", "isolate"}
Returning == {"restart", "dispatch", "lookup", "await"}
\* The wait is over, or was never made.
Closing == {"giveup", "report", "return", "done"} \cup Returning

\* The runs that the watchdog has started in the time of the drill, and the
\* returns that the drill has made.
Recoveries == {i \in DOMAIN runs : Automatic(i) /\ i > guarded}
Returns == {i \in Of("return") : runs[i].actor = "bot"}

NoneActive == \A i \in DOMAIN runs : ~Active(i)
Passed(i) == runs[i].status = "success"

\* What the step of the drill says of what it has recorded.
Recorded ==
  /\ at \in Opening \cup {"stop", "giveup"} => taken = {}
  /\ at \in Opening => since = {}
  /\ at \notin Returning \cup {"return", "done"} => failed = "none" /\ ~restarted
  /\ at \in Returning => ~Skipped
  /\ at # "done" => returned = "none"
  /\ at = "done" => returned # "none"
  /\ returned = "skipped" => Skipped
  /\ failed = "guard" => since = {}
  /\ \A i \in taken, n \in since : i > n

\* The numbers of runs that the drill has noted.
Noted ==
  /\ guarded <= Len(runs)
  /\ dispatch.after <= Len(runs)
  /\ \A n \in since : guarded <= n /\ n <= Len(runs)

\* An automatic start that is active was made after the last listing of the job,
\* which has not become a confirm job since.
ConfirmedLate ==
  /\ job = "confirm" => \A i \in DOMAIN runs : Automatic(i) => ~Active(i)
  /\ step \in {"checkers", "dispatch"} => job = "confirm"

\* Of the runs that the guard could have seen none goes on.
GuardedEnded ==
  (at # "guard" /\ failed # "guard") => \A i \in DOMAIN runs : i <= guarded => ~Active(i)

\* Nobody but the watchdog and the drill makes another.
Alone ==
  (at # "guard" /\ failed # "guard") => \A i \in DOMAIN runs : i > guarded => runs[i].actor = "bot"

OnlyOwnRuns == GuardedEnded /\ Alone

\* The drill has made one return at most, when its dispatch was answered or a run
\* of it may be listed. It follows the recovery and the first dispatch.
ReturnOnce ==
  /\ at \notin {"lookup", "await", "done"} => Returns = {}
  /\ \A i, j \in Returns : i = j
  /\ \A i \in Returns : i > dispatch.after /\ \A j \in taken : j < i

\* A runner holds a run state while its run goes on.
RunnerRuns == runner # {} => \E i \in DOMAIN runs : runs[i].status = "running"

\* Before the isolation every run state has started before it.
NotAfter == ~isolated => /\ stored.started # "after"
                         /\ \A state \in runner : state.started # "after"

\* Beside a run state that a recovery after the isolation left, no runner holds an
\* older one.
OlderNotBeside == stored.started = "after" => \A state \in runner : state.started # "before"

\* From the dispatch of the drill's return on, no older run state comes back.
LateStates ==
  (at \in {"dispatch", "lookup", "await"} \/ Returns # {}) =>
    /\ isolated /\ stored.started # "before"
    /\ \A state \in runner : state.started # "before"

\* The recovery of the isolation passed: no run goes on, none will be started
\* while the name is on the recovery cluster.
Settled ==
  /\ NoneActive /\ onRecovery
  /\ job = "confirm" => step \in {"requests", "names"}

SettlesOncePassed ==
  (/\ at \in {"stop", "wait", "report"} \/ (at = "return" /\ failed = "none")
   /\ \E i \in Recoveries, n \in since : i > n /\ Passed(i))
    => Settled

\* What a drill has seen in which no step failed.
SeenPassed ==
  (at = "report" \/ (at \in Returning \cup {"return", "done"} /\ failed = "none")) =>
    \E i \in taken, n \in since : i > n /\ i \in Recoveries /\ Passed(i)
ReturnsToWorkflow ==
  /\ (at = "return" /\ failed = "none") => RecoveryEnvironment
  /\ (at = "restart" /\ failed = "none") => misled
  /\ (returned = "passed" /\ failed = "none" /\ ~misled) => \E i \in Returns : Passed(i)

\* Nothing misled the drill, and the watchdog has started one recovery at most:
\* after the isolation, and the drill has not left the wait without it.
Plain ==
  /\ ~misled
  /\ at # "guard" /\ failed # "guard"
  /\ \A i \in Recoveries : isolated /\ (\A n \in since : i > n) /\ \A j \in Recoveries : i = j
  /\ at \in Closing => Recoveries \subseteq taken

\* Before that recovery, while it goes on, and after it.
PlainRecovery ==
  /\ Recoveries = {} => ~onRecovery /\ stored.started # "after"
  /\ (\E i \in Recoveries : Active(i)) =>
       /\ stored.started # "after"
       /\ runner = {} => ~onRecovery
       /\ \A state \in runner : state.started = "after" /\ (onRecovery => state.reached = "fenced")
  /\ (Recoveries # {} /\ (\A i \in Recoveries : ~Active(i)) /\ Returns = {} /\ onRecovery) => RecoveryEnvironment
  /\ at \in Closing => \A i \in Recoveries : ~Active(i)

\* Before the return of the drill, while it goes on, and after it.
PlainReturn ==
  /\ (at \in {"dispatch", "lookup", "await"} /\ Returns = {}) => RecoveryEnvironment
  /\ at = "restart" => ~RecoveryEnvironment
  /\ \A r \in Returns :
       /\ Active(r) => /\ RecoveryEnvironment
                       /\ \A state \in runner : state.reached = "begun" => vms /\ ~onRecovery
       /\ Passed(r) => vms /\ ~onRecovery
  /\ returned = "passed" => (restarted \/ \E r \in Returns : Passed(r))
  /\ restarted => NoneActive /\ vms /\ ~onRecovery

PlainInv == Plain => PlainRecovery /\ PlainReturn

DrillInv ==
  /\ DrillTypes /\ WatchdogInv /\ ConfirmedLate
  /\ Recorded /\ Noted /\ GuardedEnded /\ ReturnOnce /\ RunnerRuns /\ NotAfter
  /\ OlderNotBeside /\ LateStates /\ SeenPassed
  /\ Alone => SettlesOncePassed /\ ReturnsToWorkflow /\ PlainInv
-----------------------------------------------------------------------------
(* What the steps do. *)

\* The drill's own steps, but for the dispatch of its return.
DrillStays ==
  \/ Guard \/ Writes \/ Isolate \/ Stop \/ Wait \/ GiveUp \/ Report
  \/ Return \/ Restart \/ Lookup \/ Await

\* The steps of the runs, of the watchdog and of the service.
SystemActs == RunActs \/ RunFails \/ Person \/ WatchdogActs \/ CheckersCatchUp \/ Serve \/ Outage

\* A set of at most one element has a cardinality of at most one.
LEMMA OneCardinality ==
  ASSUME NEW S, One(S)
  PROVE  Cardinality(S) <= 1
<1>1. CASE S = {}
  BY <1>1, FS_EmptySet
<1>2. CASE S # {}
  <2>1. PICK x : S = {x}
    BY <1>2 DEF One
  <2>2. Cardinality({x}) = 1
    BY FS_Singleton
  <2> QED BY <2>1, <2>2
<1> QED BY <1>1, <1>2

\* A fault keeps what misled the drill before.
LEMMA SlipDoes ==
  ASSUME misled \in BOOLEAN, NEW fault, Slip(fault)
  PROVE  /\ misled' \in BOOLEAN
         /\ misled => misled'
         /\ fault \in {"listing", "read", "unsaved"} => misled'
BY Zenon DEF Slip

\* The power of the VMs changes them and the service, and nothing else.
LEMMA PowerDoes ==
  ASSUME up \in BOOLEAN, NEW on \in BOOLEAN, Power(on)
  PROVE  vms' = on /\ up' \in BOOLEAN /\ (up' = up \/ up' = ~up)
BY Zenon DEF Power

\* A step of the drill leaves the runs, the jobs and the environment alone.
LEMMA DrillDoes ==
  ASSUME DrillStays, WatchdogTypeOK, DrillTypes
  PROVE  /\ UNCHANGED <<onRecovery, checksFailed, switch, runs, jobVars, env, stored, runner>>
         /\ up' \in BOOLEAN /\ (up' = up \/ up' = ~up)
         /\ vms' \in BOOLEAN
         /\ misled' \in BOOLEAN /\ (misled => misled')
<1> USE DEF watchdogVars, systemVars, jobVars
<1>0. vms \in BOOLEAN /\ up \in BOOLEAN /\ misled \in BOOLEAN
  BY DEF DrillTypes, WatchdogTypeOK
<1>1. CASE Guard \/ Writes \/ Isolate \/ Report
  BY <1>0, <1>1 DEF Guard, Writes, Isolate, Report
<1>2. CASE Wait
  BY <1>0, <1>2, SlipDoes DEF Wait
<1>3. CASE Return
  BY <1>0, <1>3, SlipDoes DEF Return
<1>4. CASE Lookup
  BY <1>0, <1>4, SlipDoes DEF Lookup
<1>5. CASE Await
  BY <1>0, <1>5 DEF Await
<1>6. ASSUME StartVMs PROVE vms' \in BOOLEAN /\ up' \in BOOLEAN /\ (up' = up \/ up' = ~up)
                           /\ misled' \in BOOLEAN /\ (misled => misled')
  <2>1. CASE Power(TRUE) /\ UNCHANGED misled
    BY <1>0, <2>1, PowerDoes
  <2>2. ASSUME NEW on \in BOOLEAN, Power(vms \/ on), Slip("command")
        PROVE  vms' \in BOOLEAN /\ up' \in BOOLEAN /\ (up' = up \/ up' = ~up)
               /\ misled' \in BOOLEAN /\ (misled => misled')
    <3>1. (vms \/ on) \in BOOLEAN
      OBVIOUS
    <3> QED BY <1>0, <2>2, <3>1, PowerDoes, SlipDoes
  <2> QED BY <1>6, <2>1, <2>2 DEF StartVMs
<1>7. CASE GiveUp
  BY <1>6, <1>7 DEF GiveUp, Quiet
<1>8. CASE Restart
  BY <1>6, <1>8 DEF Restart, Quiet
<1>9. CASE Stop
  <2>1. CASE Power(FALSE) /\ UNCHANGED misled
    BY <1>0, <1>9, <2>1, PowerDoes DEF Stop, Quiet
  <2>2. ASSUME NEW on \in BOOLEAN, Power(vms /\ on), Slip("command")
        PROVE  vms' \in BOOLEAN /\ up' \in BOOLEAN /\ (up' = up \/ up' = ~up)
               /\ misled' \in BOOLEAN /\ (misled => misled')
    <3>1. (vms /\ on) \in BOOLEAN
      OBVIOUS
    <3> QED BY <1>0, <2>2, <3>1, PowerDoes, SlipDoes
  <2>3. UNCHANGED <<onRecovery, checksFailed, switch, runs, jobVars, env, stored, runner>>
    BY <1>9 DEF Stop, Quiet
  <2> QED BY <1>9, <2>1, <2>2, <2>3 DEF Stop
<1> QED BY <1>1, <1>2, <1>3, <1>4, <1>5, <1>7, <1>8, <1>9 DEF DrillStays

\* A step of the system leaves what the drill knows alone.
LEMMA SystemDoes ==
  ASSUME SystemActs, DrillTypes
  PROVE  /\ UNCHANGED <<at, guarded, since, taken, restarted, failed, returned, dispatch>>
         /\ misled' \in BOOLEAN /\ (misled => misled')
<1> USE DEF drillVars
<1>0. misled \in BOOLEAN
  BY DEF DrillTypes
<1>1. CASE Pull \/ Apply \/ Provisioned \/ Fence \/ StartPrimary \/ Remove \/ Person \/ WatchdogActs
           \/ CheckersCatchUp \/ Serve \/ \E i \in DOMAIN runs : Move(i)
  BY <1>0, <1>1 DEF Pull, Apply, Provisioned, Fence, StartPrimary, Remove, Person, WatchdogActs,
                    CheckersCatchUp, Serve, Move
<1>2. CASE Outage
  BY <1>0, <1>2, SlipDoes DEF Outage
<1>3. ASSUME NEW i \in DOMAIN runs, NEW s \in {"success", "failure"}, EndRun(i, s)
      PROVE  /\ UNCHANGED <<at, guarded, since, taken, restarted, failed, returned, dispatch>>
             /\ misled' \in BOOLEAN /\ (misled => misled')
  BY <1>0, <1>3, SlipDoes DEF EndRun
<1> QED BY <1>1, <1>2, <1>3 DEF SystemActs, RunActs, RunFails

\* Every step is one of the drill, its dispatch or one of the system.
LEMMA Steps ==
  ASSUME [DrillNext]_vars
  PROVE  DrillStays \/ Post \/ SystemActs \/ UNCHANGED vars
BY DEF DrillNext, DrillActs, DrillStays, SystemActs

\* The dispatch of the return makes no automatic start.
LEMMA PostDoes ==
  ASSUME DrillTypes, WatchdogTypeOK, Post
  PROVE  /\ at = "dispatch"
         /\ UNCHANGED <<serviceVars, switch, jobVars, systemVars, guarded, since, taken, restarted>>
         /\ runs' = runs \/ (runs' = Dispatched("return", "bot") /\ Len(runs) < MaxRuns)
         /\ misled' = misled
<1>1. UNCHANGED <<serviceVars, switch, jobVars, systemVars, guarded, since, taken, restarted>>
  BY DEF Post, Quiet, serviceVars, jobVars
<1>2. misled' = misled
  BY DEF Post, Slip, DrillTypes
<1> QED BY <1>1, <1>2 DEF Post

\* The runs of a dispatch, for any of the three that make one.
LEMMA NewRun ==
  ASSUME WatchdogTypeOK, NEW w \in Workflow, NEW a \in Actor, runs' = Dispatched(w, a)
  PROVE  /\ runs' \in Seq(Run)
         /\ Follows(runs')
         /\ Len(runs') = Len(runs) + 1
         /\ DOMAIN runs' = DOMAIN runs \cup {Len(runs) + 1}
         /\ runs'[Len(runs) + 1].workflow = w /\ runs'[Len(runs) + 1].actor = a
BY DispatchedRuns

\* The watchdog's invariant holds beside the drill.
LEMMA WatchdogGoesOn ==
  ASSUME DrillTypes, WatchdogInv, [DrillNext]_vars
  PROVE  WatchdogInv'
<1>0. up \in BOOLEAN /\ WatchdogTypeOK
  BY DEF WatchdogInv, WatchdogTypeOK
<1>1. ASSUME up' = up \/ up' = ~up, UNCHANGED <<onRecovery, checksFailed, switch, runs, jobVars>> PROVE WatchdogInv'
  <2>1. CASE up' = up
    BY <1>1, <2>1, WatchdogStep DEF watchdogVars, jobVars
  <2>2. CASE up' = ~up
    BY <1>1, <2>2, WatchdogStep DEF Next, ServiceChanges
  <2> QED BY <1>1, <2>1, <2>2
<1>2. CASE DrillStays
  BY <1>0, <1>1, <1>2, DrillDoes
<1>3. CASE Post
  <2>1. UNCHANGED <<serviceVars, switch, jobVars>>
    BY <1>0, <1>3, PostDoes
  <2>2. CASE runs' = runs
    BY <2>1, <2>2, WatchdogStep DEF watchdogVars, serviceVars, jobVars
  <2>3. CASE runs' = Dispatched("return", "bot") /\ Len(runs) < MaxRuns
    <3>1. /\ runs' \in Seq(Run)
          /\ Follows(runs')
          /\ Len(runs') = Len(runs) + 1
          /\ DOMAIN runs' = DOMAIN runs \cup {Len(runs) + 1}
          /\ runs'[Len(runs) + 1].workflow = "return"
      BY <1>0, <2>3, NewRun DEF Workflow, Actor
    <3>2. Len(runs) \in Nat /\ Len(runs') <= MaxRuns
      BY <1>0, <2>3, <3>1, MaxRunsAssumption DEF WatchdogTypeOK
    <3>3. WatchdogTypeOK'
      BY <1>0, <2>1, <3>1, <3>2 DEF WatchdogTypeOK, serviceVars, jobVars
    <3>4. \A i \in DOMAIN runs' \ DOMAIN runs : ~Automatic(i)'
      BY <3>1 DEF Automatic
    <3> QED BY <2>1, <3>1, <3>3, <3>4, FollowingKeeps DEF WatchdogInv
  <2> QED BY <1>0, <1>3, <2>2, <2>3, PostDoes
<1>4. CASE UNCHANGED vars
  BY <1>4, WatchdogStep DEF vars
<1>5. CASE SystemActs
  <2>1. CASE Pull \/ Apply \/ Provisioned \/ Remove
    BY <2>1, WatchdogStep DEF Pull, Apply, Provisioned, Remove
  <2>2. CASE Fence \/ StartPrimary
    BY <1>0, <1>1, <2>2, PowerDoes DEF Fence, StartPrimary, Quiet, jobVars
  <2>3. CASE \E i \in DOMAIN runs : Move(i)
    BY <2>3, WatchdogStep DEF Move, Next
  <2>4. CASE RunFails \/ \E i \in DOMAIN runs : EndRun(i, "success")
    BY <2>4, WatchdogStep DEF RunFails, EndRun, Next
  <2>5. CASE Person
    BY <2>5, WatchdogStep DEF Person, Next
  <2>6. CASE WatchdogActs
    BY <2>6, WatchdogStep DEF WatchdogActs, Next, Check
  <2>7. CASE CheckersCatchUp \/ Serve \/ Outage
    BY <2>7, WatchdogStep DEF CheckersCatchUp, Serve, Outage, Next
  <2> QED BY <1>5, <2>1, <2>2, <2>3, <2>4, <2>5, <2>6, <2>7 DEF SystemActs, RunActs
<1> QED BY <1>2, <1>3, <1>4, <1>5, Steps

\* The steps that change the runs: three make one, and one ends one.
LEMMA RunsDo ==
  ASSUME DrillTypes, WatchdogTypeOK, [DrillNext]_vars, runs' # runs
  PROVE  \/ Person /\ \E w \in Workflow : runs' = Dispatched(w, "person")
         \/ WatchdogActs /\ Dispatch /\ runs' = Dispatched("recover", "bot")
         \/ Post /\ runs' = Dispatched("return", "bot")
         \/ \E i \in DOMAIN runs, s \in {"success", "failure"} :
              EndRun(i, s) /\ runs[i].status = "running" /\ runs' = Ended(i, s)
<1>1. CASE DrillStays
  BY <1>1, DrillDoes
<1>2. CASE Post
  BY <1>2, PostDoes
<1>3. CASE UNCHANGED vars
  BY <1>3 DEF vars, watchdogVars
<1>4. CASE SystemActs
  <2>1. CASE Pull \/ Apply \/ Provisioned \/ Remove \/ Fence \/ StartPrimary
    BY <2>1 DEF Pull, Apply, Provisioned, Remove, Fence, StartPrimary, watchdogVars
  <2>2. CASE CheckersCatchUp \/ Serve \/ Outage \/ \E i \in DOMAIN runs : Move(i)
    BY <2>2 DEF CheckersCatchUp, CheckersReport, Serve, Outage, ServiceChanges, Move, MoveName
  <2>3. CASE RunFails \/ \E i \in DOMAIN runs : EndRun(i, "success")
    BY <2>3 DEF RunFails, EndRun, RunEnds
  <2>4. CASE Person
    BY <2>4 DEF Person, PersonDispatches
  <2>5. CASE WatchdogActs
    BY <2>5 DEF WatchdogActs, StartLocal, StartJob, Requests, Names, ListRecovers, ListReturns, Checkers,
                Enter, NoStart, Dispatch
  <2> QED BY <1>4, <2>1, <2>2, <2>3, <2>4, <2>5 DEF SystemActs, RunActs
<1> QED BY <1>1, <1>2, <1>3, <1>4, Steps

\* What every step keeps of a run: who made it, and that it ended.
RunsStay ==
  /\ runs' \in Seq(Run) /\ Len(runs) <= Len(runs') /\ DOMAIN runs \subseteq DOMAIN runs'
  /\ \A i \in DOMAIN runs :
       /\ runs'[i].workflow = runs[i].workflow /\ runs'[i].actor = runs[i].actor
       /\ Automatic(i)' = Automatic(i)
       /\ Active(i)' => Active(i)
       /\ Passed(i) => Passed(i)'

\* Every step is such a step.
LEMMA RunsKept ==
  ASSUME DrillTypes, WatchdogTypeOK, [DrillNext]_vars
  PROVE  RunsStay
<1>0. runs \in Seq(Run) /\ (\A i \in DOMAIN runs : runs[i] \in Run) /\ Len(runs) \in Nat
  BY DEF WatchdogTypeOK
<1>1. CASE runs' = runs
  BY <1>0, <1>1 DEF RunsStay, Automatic, Active, Passed
<1>2. CASE runs' # runs
  <2>1. runs' \in Seq(Run) /\ Follows(runs') /\ Len(runs) <= Len(runs') /\ DOMAIN runs \subseteq DOMAIN runs'
    <3>1. ASSUME NEW w \in Workflow, NEW a \in Actor, runs' = Dispatched(w, a)
          PROVE  runs' \in Seq(Run) /\ Follows(runs') /\ Len(runs) <= Len(runs') /\ DOMAIN runs \subseteq DOMAIN runs'
      BY <1>0, <3>1, NewRun
    <3>2. ASSUME NEW i \in DOMAIN runs, NEW s \in {"success", "failure"},
                 runs[i].status = "running", runs' = Ended(i, s)
          PROVE  runs' \in Seq(Run) /\ Follows(runs') /\ Len(runs) <= Len(runs') /\ DOMAIN runs \subseteq DOMAIN runs'
      BY <1>0, <3>2, EndedRuns
    <3> QED BY <1>2, <3>1, <3>2, RunsDo DEF Workflow, Actor
  <2>2. ASSUME NEW i \in DOMAIN runs
        PROVE  /\ runs'[i].workflow = runs[i].workflow /\ runs'[i].actor = runs[i].actor
               /\ Automatic(i)' = Automatic(i)
               /\ Active(i)' => Active(i)
               /\ Passed(i) => Passed(i)'
    <3>1. /\ runs'[i].workflow = runs[i].workflow /\ runs'[i].actor = runs[i].actor
          /\ runs[i].status \in {"success", "failure"} => runs'[i].status = runs[i].status
          /\ runs[i].status \in Status
      BY <1>0, <2>1 DEF Follows, Run
    <3>2. Automatic(i)' = Automatic(i)
      BY <3>1 DEF Automatic
    <3>3. Active(i)' => Active(i)
      BY <3>1 DEF Active, Status
    <3>4. Passed(i) => Passed(i)'
      BY <3>1 DEF Passed
    <3> QED BY <3>1, <3>2, <3>3, <3>4
  <2> QED BY <2>1, <2>2 DEF RunsStay
<1> QED BY <1>1, <1>2

\* A step makes one run at most: a person's, an automatic start, or the return of
\* the drill.
LEMMA RunsMade ==
  ASSUME DrillTypes, WatchdogTypeOK, [DrillNext]_vars
  PROVE  \/ DOMAIN runs' = DOMAIN runs
         \/ /\ Len(runs) \in Nat
            /\ DOMAIN runs' = DOMAIN runs \cup {Len(runs) + 1}
            /\ \/ Person /\ UNCHANGED drillVars /\ runs'[Len(runs) + 1].actor = "person"
               \/ /\ WatchdogActs /\ Dispatch /\ UNCHANGED drillVars
                  /\ runs'[Len(runs) + 1].workflow = "recover" /\ runs'[Len(runs) + 1].actor = "bot"
               \/ Post /\ runs'[Len(runs) + 1].workflow = "return" /\ runs'[Len(runs) + 1].actor = "bot"
<1>0. Len(runs) \in Nat
  BY DEF WatchdogTypeOK
<1>1. CASE runs' = runs
  BY <1>1
<1>2. CASE Person /\ \E w \in Workflow : runs' = Dispatched(w, "person")
  BY <1>0, <1>2, NewRun DEF Person, Actor
<1>3. CASE WatchdogActs /\ Dispatch /\ runs' = Dispatched("recover", "bot")
  BY <1>0, <1>3, NewRun DEF WatchdogActs, Workflow, Actor
<1>4. CASE Post /\ runs' = Dispatched("return", "bot")
  BY <1>0, <1>4, NewRun DEF Workflow, Actor
<1>5. CASE \E i \in DOMAIN runs, s \in {"success", "failure"} :
             EndRun(i, s) /\ runs[i].status = "running" /\ runs' = Ended(i, s)
  BY <1>5, EndedRuns
<1> QED BY <1>1, <1>2, <1>3, <1>4, <1>5, RunsDo

\* The recoveries and the returns stay, but for the ones that are made.
LEMMA OwnRunsGrow ==
  ASSUME DrillTypes, WatchdogTypeOK, Noted, [DrillNext]_vars
  PROVE  /\ guarded' = guarded => \/ Recoveries' = Recoveries
                                  \/ /\ WatchdogActs /\ Dispatch /\ UNCHANGED drillVars
                                     /\ Len(runs) \in Nat
                                     /\ Recoveries' = Recoveries \cup {Len(runs) + 1}
         /\ \/ Returns' = Returns
            \/ Post /\ Len(runs) \in Nat /\ Returns' = Returns \cup {Len(runs) + 1}
<1>0. guarded \in Nat /\ guarded <= Len(runs) /\ DOMAIN runs = 1..Len(runs) /\ Len(runs) \in Nat
  BY DEF DrillTypes, WatchdogTypeOK, Noted
<1>1. /\ DOMAIN runs \subseteq DOMAIN runs'
      /\ \A i \in DOMAIN runs :
           /\ runs'[i].workflow = runs[i].workflow /\ runs'[i].actor = runs[i].actor
           /\ Automatic(i)' = Automatic(i)
  BY RunsKept DEF RunsStay
<1>2. \A i \in DOMAIN runs : i \in Returns' <=> i \in Returns
  BY <1>1 DEF Returns, Of
<1>3. ASSUME guarded' = guarded PROVE \A i \in DOMAIN runs : i \in Recoveries' <=> i \in Recoveries
  BY <1>1, <1>3 DEF Recoveries
<1>4. Returns \subseteq DOMAIN runs /\ Returns' \subseteq DOMAIN runs'
      /\ Recoveries \subseteq DOMAIN runs /\ Recoveries' \subseteq DOMAIN runs'
  BY DEF Returns, Recoveries, Of
<1>5. CASE DOMAIN runs' = DOMAIN runs
  BY <1>2, <1>3, <1>4, <1>5
<1>6. ASSUME DOMAIN runs' = DOMAIN runs \cup {Len(runs) + 1}
      PROVE  /\ \/ Len(runs) + 1 \notin Returns' /\ Returns' = Returns
                \/ Len(runs) + 1 \in Returns' /\ Returns' = Returns \cup {Len(runs) + 1}
             /\ guarded' = guarded =>
                  \/ Len(runs) + 1 \notin Recoveries' /\ Recoveries' = Recoveries
                  \/ Len(runs) + 1 \in Recoveries' /\ Recoveries' = Recoveries \cup {Len(runs) + 1}
  <2>1. Len(runs) + 1 \notin DOMAIN runs
    BY <1>0
  <2> DEFINE new == Len(runs) + 1
  <2>2. new \notin DOMAIN runs /\ DOMAIN runs' = DOMAIN runs \cup {new}
    BY <1>6, <2>1
  <2> HIDE DEF new
  <2>3. \/ new \notin Returns' /\ Returns' = Returns
        \/ new \in Returns' /\ Returns' = Returns \cup {new}
    BY <1>2, <1>4, <2>2
  <2>4. guarded' = guarded =>
          \/ new \notin Recoveries' /\ Recoveries' = Recoveries
          \/ new \in Recoveries' /\ Recoveries' = Recoveries \cup {new}
    BY <1>3, <1>4, <2>2
  <2> QED BY <2>3, <2>4 DEF new
<1>7. CASE DOMAIN runs' = DOMAIN runs \cup {Len(runs) + 1} /\ runs'[Len(runs) + 1].actor = "person"
  <2>1. Len(runs) + 1 \notin Returns' /\ Len(runs) + 1 \notin Recoveries'
    BY <1>7 DEF Returns, Recoveries, Automatic
  <2> QED BY <1>6, <1>7, <2>1
<1>8. CASE /\ DOMAIN runs' = DOMAIN runs \cup {Len(runs) + 1}
           /\ WatchdogActs /\ Dispatch /\ UNCHANGED drillVars
           /\ runs'[Len(runs) + 1].workflow = "recover" /\ runs'[Len(runs) + 1].actor = "bot"
  <2>1. Len(runs) + 1 \notin Returns'
    BY <1>8 DEF Returns, Of
  <2> QED BY <1>0, <1>6, <1>8, <2>1
<1>9. CASE /\ DOMAIN runs' = DOMAIN runs \cup {Len(runs) + 1} /\ Post
           /\ runs'[Len(runs) + 1].workflow = "return" /\ runs'[Len(runs) + 1].actor = "bot"
  <2>1. Len(runs) + 1 \notin Recoveries'
    BY <1>9 DEF Recoveries, Automatic
  <2> QED BY <1>0, <1>6, <1>9, <2>1
<1> QED BY <1>5, <1>7, <1>8, <1>9, RunsMade

-----------------------------------------------------------------------------
(* Types. *)

\* The run that the wait finds is a recovery made after the isolation, and the
\* first of them.
LEMMA BotRunIsFirst ==
  ASSUME WatchdogTypeOK, NEW w, NEW n \in Nat
  PROVE  /\ BotRun(w, n) \subseteq Of(w)
         /\ One(BotRun(w, n))
         /\ \A i \in BotRun(w, n) : runs[i].actor = "bot" /\ i > n
<1>1. \A i \in DOMAIN runs : i \in Nat
  BY DEF WatchdogTypeOK
<1>2. \A i \in BotRun(w, n) : i \in Of(w) /\ runs[i].actor = "bot" /\ i > n
  BY DEF BotRun
<1>3. \A i, j \in BotRun(w, n) : i <= j
  BY DEF BotRun
<1>4. \A i \in Of(w) : i \in Nat
  BY <1>1 DEF Of
<1> QED BY <1>2, <1>3, <1>4 DEF One

\* What a turn of the wait does.
LEMMA LookDoes ==
  ASSUME NEW found, Look(found)
  PROVE  \/ /\ taken' \subseteq found /\ One(taken') /\ taken' # {}
            /\ \/ at' = "report" /\ UNCHANGED failed /\ \A i \in taken' : Passed(i)
               \/ Fail("wait") /\ \A i \in taken' : ~Active(i)
               \/ UNCHANGED <<at, failed>>
         \/ /\ found = {} /\ UNCHANGED taken
            /\ \/ at' = "giveup" /\ taken = {} /\ UNCHANGED failed
               \/ Fail("wait") /\ taken # {}
<1>1. CASE found = {} /\ UNCHANGED taken /\ IF taken = {} THEN at' = "giveup" /\ UNCHANGED failed ELSE Fail("wait")
  BY <1>1
<1>2. ASSUME NEW i \in found,
             /\ taken' = {i}
             /\ \/ runs[i].status = "success" /\ at' = "report" /\ UNCHANGED failed
                \/ runs[i].status = "failure" /\ Fail("wait")
                \/ Active(i) /\ taken = {} /\ UNCHANGED <<at, failed>>
      PROVE  /\ taken' \subseteq found /\ One(taken') /\ taken' # {}
             /\ \/ at' = "report" /\ UNCHANGED failed /\ \A j \in taken' : Passed(j)
                \/ Fail("wait") /\ \A j \in taken' : ~Active(j)
                \/ UNCHANGED <<at, failed>>
  BY <1>2 DEF One, Passed, Active
<1> QED BY <1>1, <1>2 DEF Look

\* What the drill records is of its types.
LEMMA DrillVarsType ==
  ASSUME DrillTypes, WatchdogTypeOK, WatchdogTypeOK', DrillStays \/ Post
  PROVE  /\ at' \in DrillStep /\ restarted' \in BOOLEAN
         /\ guarded' \in 0..MaxRuns
         /\ since' \in SUBSET (0..MaxRuns) /\ One(since')
         /\ taken' \in SUBSET Of("recover") /\ One(taken')
         /\ failed' \in {"none", "guard", "writes", "isolate", "wait", "report", "return"}
         /\ returned' \in {"none", "skipped", "passed", "failed"}
         /\ dispatch' \in [after : 0..MaxRuns, attempt : 0..DispatchAttempts]
<1> USE DEF Fail, Ends, drillVars, DrillStep
<1>0. Len(runs) \in 0..MaxRuns
  BY MaxRunsAssumption DEF WatchdogTypeOK
<1>1. CASE Guard
  BY <1>0, <1>1 DEF Guard, DrillTypes
<1>2. CASE Writes
  BY <1>2 DEF Writes, DrillTypes
<1>3. CASE Isolate
  BY <1>0, <1>3 DEF Isolate, DrillTypes, One
<1>4. CASE Stop
  BY <1>4 DEF Stop, DrillTypes
<1>5. CASE Wait
  <2>1. UNCHANGED <<guarded, since, restarted, returned, dispatch>> /\ at = "wait"
    BY <1>5 DEF Wait
  <2>2. PICK n \in since : \E found \in SUBSET BotRun("recover", n) : Look(found)
    BY <1>5 DEF Wait
  <2>3. n \in Nat
    BY MaxRunsAssumption DEF DrillTypes
  <2>4. taken' \in SUBSET Of("recover") /\ One(taken')
    BY <2>2, <2>3, LookDoes, BotRunIsFirst DEF DrillTypes
  <2>5. /\ at' \in DrillStep
        /\ failed' \in {"none", "guard", "writes", "isolate", "wait", "report", "return"}
    BY <2>1, <2>2, LookDoes DEF DrillTypes
  <2> QED BY <2>1, <2>4, <2>5 DEF DrillTypes
<1>6. CASE GiveUp
  <2>1. restarted' \in BOOLEAN
    BY <1>6 DEF GiveUp, StartVMs, DrillTypes
  <2> QED BY <1>6, <2>1 DEF GiveUp, DrillTypes
<1>7. CASE Report
  BY <1>7 DEF Report, DrillTypes
<1>8. CASE Return
  <2>1. [after |-> Len(runs), attempt |-> 1] \in [after : 0..MaxRuns, attempt : 0..DispatchAttempts]
    BY <1>0 DEF DispatchAttempts
  <2> QED BY <1>8, <2>1 DEF Return, DrillTypes
<1>9. CASE Restart
  <2>1. restarted' \in BOOLEAN
    BY <1>9 DEF Restart, StartVMs, DrillTypes
  <2> QED BY <1>9, <2>1 DEF Restart, DrillTypes
<1>10. CASE Lookup
  BY <1>10 DEF Lookup, DrillTypes
<1>11. CASE Await
  BY <1>11 DEF Await, DrillTypes
<1>12. CASE Post
  <2>1. dispatch' \in [after : 0..MaxRuns, attempt : 0..DispatchAttempts]
    BY <1>12 DEF Post, DrillTypes, DispatchAttempts
  <2> QED BY <1>12, <2>1 DEF Post, DrillTypes
<1> QED BY <1>1, <1>2, <1>3, <1>4, <1>5, <1>6, <1>7, <1>8, <1>9, <1>10, <1>11, <1>12 DEF DrillStays

\* A run that ends pushes its run state, or the bucket misses it.
LEMMA EndDoes ==
  ASSUME DrillTypes, NEW i \in DOMAIN runs, NEW s \in {"success", "failure"}, EndRun(i, s)
  PROVE  /\ RunEnds(i, s) /\ runner' = {} /\ UNCHANGED <<vms, env>>
         /\ s = "success" => /\ runner # {}
                             /\ runs[i].workflow = "return" => On(NoRunState)
         /\ \/ runner = {} /\ stored' = stored
            \/ \E state \in runner : stored' = state
            \/ stored' = stored /\ misled'
<1>1. CASE stored' = (IF runner = {} THEN stored ELSE CHOOSE state \in runner : TRUE)
  BY <1>1 DEF EndRun
<1>2. CASE stored' = stored /\ Slip("unsaved")
  BY <1>2, SlipDoes DEF EndRun, DrillTypes
<1> QED BY <1>1, <1>2 DEF EndRun

\* The run states and the environment keep their types.
LEMMA SystemVarsType ==
  ASSUME DrillTypes, WatchdogTypeOK, SystemActs
  PROVE  /\ vms' \in BOOLEAN /\ env' \in BOOLEAN
         /\ stored' \in RunState /\ runner' \in SUBSET RunState /\ One(runner')
<1> USE DEF systemVars
<1>0. /\ vms \in BOOLEAN /\ env \in BOOLEAN /\ up \in BOOLEAN
      /\ stored \in RunState /\ runner \in SUBSET RunState /\ One(runner)
  BY DEF DrillTypes, WatchdogTypeOK
<1>1. NoRunState \in RunState
  BY DEF NoRunState, RunState
<1>2. \A state : One({state})
  BY DEF One
<1>3. CASE Pull
  <2>1. [started |-> IF isolated THEN "after" ELSE "before", reached |-> "begun"] \in RunState
    BY DEF RunState
  <2>2. PICK state \in RunState : runner' = {state}
    BY <1>0, <1>3, <2>1 DEF Pull
  <2> QED BY <1>0, <1>2, <1>3, <2>2 DEF Pull
<1>4. CASE Apply
  BY <1>0, <1>4 DEF Apply
<1>5. ASSUME NEW r \in {"provisioned", "fenced"},
             \E state \in runner : runner' = {[state EXCEPT !.reached = r]}
      PROVE  runner' \in SUBSET RunState /\ One(runner')
  <2>1. \A state \in RunState : [state EXCEPT !.reached = r] \in RunState
    BY DEF RunState
  <2> QED BY <1>0, <1>2, <1>5, <2>1
<1>6. CASE Provisioned
  BY <1>0, <1>5, <1>6 DEF Provisioned
<1>7. CASE Fence
  <2>1. vms' = FALSE
    BY <1>0, <1>7, PowerDoes DEF Fence
  <2>2. \E state \in runner : runner' = {[state EXCEPT !.reached = "fenced"]}
    BY <1>7 DEF Fence
  <2>3. UNCHANGED <<env, stored>>
    BY <1>7 DEF Fence
  <2> QED BY <1>0, <1>5, <2>1, <2>2, <2>3
<1>8. CASE StartPrimary
  BY <1>0, <1>8, PowerDoes DEF StartPrimary
<1>9. CASE Remove
  BY <1>0, <1>1, <1>2, <1>9 DEF Remove
<1>10. CASE \E i \in DOMAIN runs : Move(i)
  BY <1>0, <1>10 DEF Move
<1>11. CASE RunFails \/ \E i \in DOMAIN runs : EndRun(i, "success")
  BY <1>0, <1>11, EndDoes DEF RunFails, One
<1>12. CASE Serve \/ Outage \/ Person \/ WatchdogActs \/ CheckersCatchUp
  BY <1>0, <1>12 DEF Serve, Outage, Person, WatchdogActs, CheckersCatchUp
<1> QED BY <1>3, <1>4, <1>6, <1>7, <1>8, <1>9, <1>10, <1>11, <1>12 DEF SystemActs, RunActs

\* Every step keeps the types.
LEMMA TypesKept ==
  ASSUME DrillTypes, WatchdogInv, [DrillNext]_vars
  PROVE  DrillTypes'
<1>0. WatchdogTypeOK /\ WatchdogTypeOK'
  BY WatchdogGoesOn DEF WatchdogInv
<1>1. Of("recover") \subseteq Of("recover")'
  BY <1>0, RunsKept DEF RunsStay, Of
<1>2. CASE DrillStays
  BY <1>0, <1>1, <1>2, DrillDoes, DrillVarsType DEF DrillTypes
<1>3. CASE Post
  BY <1>0, <1>1, <1>3, PostDoes, DrillVarsType DEF DrillTypes, systemVars
<1>4. CASE SystemActs
  BY <1>0, <1>1, <1>4, SystemDoes, SystemVarsType DEF DrillTypes
<1>5. CASE UNCHANGED vars
  BY <1>1, <1>5 DEF vars, systemVars, drillVars, DrillTypes, One
<1> QED BY <1>2, <1>3, <1>4, <1>5, Steps

-----------------------------------------------------------------------------
(* What the drill has recorded. *)

\* The records follow the steps.
LEMMA RecordedKept ==
  ASSUME DrillTypes, WatchdogTypeOK, Recorded, Noted, [DrillNext]_vars
  PROVE  Recorded'
<1> USE DEF Fail, Ends, Opening, Returning, Skipped, isolated, drillVars
<1>1. CASE Guard
  BY <1>1 DEF Guard, Recorded
<1>2. CASE Writes
  BY <1>2 DEF Writes, Recorded
<1>3. CASE Isolate
  BY <1>3 DEF Isolate, Recorded
<1>4. CASE Stop
  BY <1>4 DEF Stop, Recorded
<1>5. CASE Wait
  <2>1. UNCHANGED <<guarded, since, restarted, returned, dispatch>> /\ at = "wait"
    BY <1>5 DEF Wait
  <2>2. PICK n \in since : \E found \in SUBSET BotRun("recover", n) : Look(found)
    BY <1>5 DEF Wait
  <2>3. n \in Nat /\ \A m \in since : m = n
    BY MaxRunsAssumption DEF DrillTypes, One
  <2>4. \A i \in taken' \ taken : i > n
    BY <2>2, <2>3, LookDoes, BotRunIsFirst
  <2>5. at' \in {"wait", "giveup", "report", "return"} /\ (at' = "giveup" => taken' = {})
        /\ (at' # "return" => failed' = failed) /\ failed' \in {failed, "wait"}
    BY <2>1, <2>2, LookDoes
  <2>6. \A i \in taken', m \in since' : i > m
    BY <2>1, <2>3, <2>4 DEF Recorded
  <2> QED BY <2>1, <2>5, <2>6 DEF Recorded
<1>6. CASE GiveUp
  BY <1>6 DEF GiveUp, Recorded
<1>7. CASE Report
  BY <1>7 DEF Report, Recorded
<1>8. CASE Return
  BY <1>8 DEF Return, Recorded
<1>9. CASE Restart
  BY <1>9 DEF Restart, Recorded
<1>10. CASE Lookup
  BY <1>10 DEF Lookup, Recorded
<1>11. CASE Await
  BY <1>11 DEF Await, Recorded
<1>12. CASE Post
  BY <1>12 DEF Post, systemVars, Recorded
<1>13. CASE SystemActs
  BY <1>13, SystemDoes DEF Recorded
<1>14. CASE UNCHANGED vars
  BY <1>14 DEF vars, Recorded
<1> QED BY <1>1, <1>2, <1>3, <1>4, <1>5, <1>6, <1>7, <1>8, <1>9, <1>10, <1>11, <1>12, <1>13, <1>14, Steps
        DEF DrillStays

\* The numbers of runs that the drill has noted are passed, never taken back.
LEMMA NotedKept ==
  ASSUME DrillTypes, WatchdogTypeOK, Recorded, Noted, [DrillNext]_vars
  PROVE  Noted'
<1>0. Len(runs) \in Nat /\ guarded \in Nat /\ dispatch.after \in Nat /\ since \subseteq Nat
  BY MaxRunsAssumption DEF DrillTypes, WatchdogTypeOK
<1>1. Len(runs') \in Nat /\ Len(runs) <= Len(runs')
  BY <1>0, RunsKept DEF RunsStay
<1>2. CASE Guard
  BY <1>0, <1>1, <1>2 DEF Guard, Noted, Recorded, Opening
<1>3. CASE Isolate
  <2>1. UNCHANGED <<guarded, dispatch>> /\ (since' = {Len(runs)} \/ since' = since)
    BY <1>3 DEF Isolate
  <2>2. guarded <= Len(runs') /\ dispatch.after <= Len(runs')
    BY <1>0, <1>1 DEF Noted
  <2>3. \A n \in since' : guarded <= n /\ n <= Len(runs')
    <3>1. \A n \in since : n \in Nat /\ guarded <= n /\ n <= Len(runs)
      BY <1>0 DEF Noted
    <3>2. \A n \in since' : n = Len(runs) \/ n \in since
      BY <2>1
    <3>3. guarded <= Len(runs)
      BY DEF Noted
    <3> SUFFICES ASSUME NEW n \in since' PROVE guarded <= n /\ n <= Len(runs')
      OBVIOUS
    <3>4. CASE n = Len(runs)
      BY <1>0, <1>1, <3>3, <3>4
    <3>5. CASE n \in since
      BY <1>0, <1>1, <3>1, <3>5
    <3> QED BY <3>2, <3>4, <3>5
  <2> QED BY <2>1, <2>2, <2>3 DEF Noted
<1>4. CASE Return
  BY <1>0, <1>1, <1>4 DEF Return, Noted
<1>5. CASE Post
  <2>1. dispatch'.after = dispatch.after /\ UNCHANGED <<guarded, since>>
    BY <1>5 DEF Post, DrillTypes
  <2> QED BY <1>0, <1>1, <2>1 DEF Noted
<1>6. CASE \/ Writes \/ Stop \/ Wait \/ GiveUp \/ Report \/ Restart \/ Lookup \/ Await
           \/ SystemActs \/ UNCHANGED vars
  <2>1. UNCHANGED <<guarded, since, dispatch>>
    BY <1>6, SystemDoes DEF Writes, Stop, Wait, GiveUp, Report, Restart, Lookup, Await, vars, drillVars
  <2> QED BY <1>0, <1>1, <2>1 DEF Noted
<1> QED BY <1>2, <1>3, <1>4, <1>5, <1>6, Steps DEF DrillStays

\* After the guard the drill goes forward: what it leaves behind stays so.
LEMMA Forward ==
  ASSUME DrillTypes, WatchdogTypeOK, Recorded, [DrillNext]_vars, ~Guard
  PROVE  /\ guarded' = guarded
         /\ at' = "guard" <=> at = "guard"
         /\ failed' = "guard" <=> failed = "guard"
         /\ failed' = "none" => failed = "none"
         /\ at \in Closing => at' \in Closing /\ taken' = taken /\ since' = since
         /\ misled => misled'
         /\ since' = since \/ Isolate
<1> USE DEF Fail, Ends, Closing, Returning
<1>1. CASE DrillStays
  <2>1. misled => misled'
    BY <1>1, DrillDoes
  <2>2. CASE Writes \/ Isolate \/ Stop \/ Report
    BY <2>1, <2>2 DEF Writes, Isolate, Stop, Report
  <2>3. CASE Wait
    <3>1. PICK n \in since : \E found : Look(found)
      BY <2>3 DEF Wait
    <3>2. at' \in {"wait", "giveup", "report", "return"} /\ (failed' = failed \/ Fail("wait"))
      BY <2>3, <3>1, LookDoes DEF Wait
    <3> QED BY <2>1, <2>3, <3>2 DEF Wait
  <2>4. CASE GiveUp \/ Return \/ Restart \/ Lookup \/ Await
    BY <2>1, <2>4 DEF GiveUp, Return, Restart, Lookup, Await
  <2> QED BY <1>1, <2>2, <2>3, <2>4 DEF DrillStays
<1>2. CASE Post
  BY <1>2 DEF Post, Slip, DrillTypes
<1>3. CASE SystemActs
  BY <1>3, SystemDoes
<1>4. CASE UNCHANGED vars
  BY <1>4 DEF vars, drillVars
<1> QED BY <1>1, <1>2, <1>3, <1>4, Steps

-----------------------------------------------------------------------------
(* The runs of a drill. *)

\* A running run runs on while another is made.
LEMMA RunsOn ==
  ASSUME WatchdogTypeOK, NEW w \in Workflow, NEW a \in Actor, runs' = Dispatched(w, a),
         NEW i \in DOMAIN runs, runs[i].status = "running"
  PROVE  i \in DOMAIN runs' /\ runs'[i].status = "running"
<1> DEFINE others == [j \in DOMAIN runs |->
                        IF runs[j].status = "pending" THEN [runs[j] EXCEPT !.status = "failure"] ELSE runs[j]]
           last == [workflow |-> w, actor |-> a,
                    status |-> IF \E j \in DOMAIN runs : runs[j].status = "running" THEN "pending" ELSE "running"]
<1>1. others \in Seq(Run) /\ DOMAIN others = DOMAIN runs
  <2>1. runs \in Seq(Run) /\ \A j \in DOMAIN runs : runs[j] \in Run
    BY DEF WatchdogTypeOK
  <2>2. \A j \in DOMAIN runs : others[j] \in Run
    BY <2>1 DEF Run, Status
  <2> QED BY <2>1, <2>2
<1>2. others[i] = runs[i]
  OBVIOUS
<1>3. runs' = Append(others, last)
  BY DEF Dispatched
<1> HIDE DEF others, last
<1> QED BY <1>1, <1>2, <1>3

\* The confirm job starts when no automatic start is active, and makes the next.
LEMMA ConfirmedLateKept ==
  ASSUME DrillTypes, WatchdogInv, ConfirmedLate, [DrillNext]_vars
  PROVE  ConfirmedLate'
<1>0. WatchdogTypeOK /\ RunsStay
  BY RunsKept DEF WatchdogInv
<1>1. CASE WatchdogActs /\ ~Dispatch
  <2>1. CASE ListReturns
    BY <2>1 DEF ListReturns, StartJob, Enter, serviceVars, ConfirmedLate, WatchdogInv, ListedNoneActive,
                Automatic, Active
  <2>2. CASE ~ListReturns
    BY <1>1, <2>2 DEF WatchdogActs, StartLocal, StartJob, Requests, Names, ListRecovers, Checkers, NoStart, End,
                      Enter, serviceVars, ConfirmedLate, Automatic, Active
  <2> QED BY <2>1, <2>2
<1>2. CASE WatchdogActs /\ Dispatch
  BY <1>2 DEF Dispatch, End, ConfirmedLate
<1>3. CASE ~WatchdogActs
  <2>1. UNCHANGED <<job, step>>
    <3>1. CASE DrillStays
      BY <1>0, <3>1, DrillDoes DEF jobVars
    <3>2. CASE Post
      BY <1>0, <3>2, PostDoes DEF jobVars
    <3>3. CASE SystemActs
      BY <1>3, <3>3 DEF SystemActs, RunActs, RunFails, Pull, Apply, Provisioned, Fence, StartPrimary, Remove, Move,
                        EndRun, Person, CheckersCatchUp, Serve, Outage, MoveName, RunEnds, PersonDispatches,
                        ServiceChanges, CheckersReport, Quiet, watchdogVars, jobVars
    <3>4. CASE UNCHANGED vars
      BY <3>4 DEF vars, watchdogVars
    <3> QED BY <3>1, <3>2, <3>3, <3>4, Steps
  <2>2. \A i \in DOMAIN runs' \ DOMAIN runs : ~Automatic(i)'
    BY <1>0, <1>3, RunsMade DEF Automatic
  <2> QED BY <1>0, <2>1, <2>2 DEF ConfirmedLate, RunsStay
<1> QED BY <1>1, <1>2, <1>3

\* No run that the guard could have seen goes on again.
LEMMA GuardedEndedKept ==
  ASSUME DrillTypes, WatchdogTypeOK, Recorded, Noted, GuardedEnded, [DrillNext]_vars
  PROVE  GuardedEnded'
<1>0. RunsStay
  BY RunsKept
<1>1. CASE Guard
  <2>1. runs' = runs
    BY <1>1 DEF Guard, watchdogVars
  <2>2. failed' = "guard" \/ \A i \in DOMAIN runs : ~Active(i)
    BY <1>1 DEF Guard, Fail, Recorded, Returning
  <2> QED BY <2>1, <2>2 DEF GuardedEnded, Active
<1>2. CASE ~Guard
  <2> SUFFICES ASSUME at' # "guard", failed' # "guard"
               PROVE  \A i \in DOMAIN runs' : i <= guarded' => ~Active(i)'
    BY DEF GuardedEnded
  <2>1. guarded' = guarded /\ at # "guard" /\ failed # "guard"
    BY <1>2, Forward
  <2>2. \A i \in DOMAIN runs : i <= guarded => ~Active(i)'
    BY <1>0, <2>1 DEF GuardedEnded, RunsStay
  <2>3. \A i \in DOMAIN runs' \ DOMAIN runs : ~(i <= guarded)
    BY <2>1, RunsMade DEF Noted, DrillTypes
  <2> QED BY <2>1, <2>2, <2>3
<1> QED BY <1>1, <1>2

\* A drill that is alone after a step was alone before.
LEMMA AloneBefore ==
  ASSUME DrillTypes, WatchdogTypeOK, Recorded, [DrillNext]_vars, Alone'
  PROVE  Alone
<1>1. CASE Guard
  BY <1>1 DEF Guard, Alone
<1>2. CASE ~Guard
  <2>1. RunsStay
    BY RunsKept
  <2>2. guarded' = guarded /\ (at' = "guard" <=> at = "guard") /\ (failed' = "guard" <=> failed = "guard")
    BY <1>2, Forward
  <2> QED BY <2>1, <2>2 DEF Alone, RunsStay
<1> QED BY <1>1, <1>2

\* After the guard, nobody acts beside a drill that is alone.
LEMMA AloneNoPerson ==
  ASSUME DrillTypes, WatchdogTypeOK, Noted, [DrillNext]_vars, Alone', at # "guard", failed # "guard"
  PROVE  ~Person
<1> SUFFICES ASSUME Person PROVE FALSE
  OBVIOUS
<1>1. UNCHANGED drillVars /\ \E w \in Workflow : runs' = Dispatched(w, "person")
  BY DEF Person, PersonDispatches
<1>2. /\ DOMAIN runs' = DOMAIN runs \cup {Len(runs) + 1} /\ runs'[Len(runs) + 1].actor = "person"
  BY <1>1, NewRun DEF Actor
<1>3. Len(runs) + 1 > guarded' /\ at' = at /\ failed' = failed
  BY <1>1 DEF drillVars, Noted, DrillTypes, WatchdogTypeOK
<1> QED BY <1>2, <1>3 DEF Alone

\* With no recovery and no return of its own active, the drill is alone.
LEMMA NoOtherRuns ==
  ASSUME OnlyOwnRuns, WatchdogTypeOK, at # "guard", failed # "guard", Noted, DrillTypes,
         \A i \in Recoveries \cup Returns : ~Active(i)
  PROVE  NoneActive
<1> SUFFICES ASSUME NEW i \in DOMAIN runs, Active(i) PROVE FALSE
  BY DEF NoneActive
<1>1. i \in Nat /\ guarded \in Nat /\ runs[i].workflow \in {"recover", "return"}
  <2>1. runs[i] \in Run /\ i \in Nat
    BY DEF WatchdogTypeOK
  <2> QED BY <2>1 DEF DrillTypes, Run, Workflow
<1>2. i > guarded /\ runs[i].actor = "bot"
  BY <1>1 DEF OnlyOwnRuns, Alone, GuardedEnded
<1> QED BY <1>1, <1>2 DEF Recoveries, Returns, Of, Automatic

\* The list of the drill's returns is that of its lookup.
LEMMA LookupFinds ==
  ASSUME WatchdogTypeOK, ReturnOnce, BotRun("return", dispatch.after) = {}
  PROVE  Returns = {}
<1> SUFFICES ASSUME NEW r \in Returns PROVE FALSE
  OBVIOUS
<1>1. \A i \in Of("return") : runs[i].actor = "bot" /\ i > dispatch.after => i = r
  BY DEF ReturnOnce, Returns
<1>2. r <= r
  BY DEF WatchdogTypeOK, Returns, Of
<1>3. r \in BotRun("return", dispatch.after)
  BY <1>1, <1>2 DEF ReturnOnce, BotRun, Returns
<1> QED BY <1>3

\* The drill dispatches only while none of its returns is listed.
LEMMA ReturnOnceKept ==
  ASSUME DrillTypes, WatchdogTypeOK, Recorded, Noted, ReturnOnce, [DrillNext]_vars
  PROVE  ReturnOnce'
<1>0. taken \subseteq DOMAIN runs /\ DOMAIN runs \subseteq Nat /\ \A i \in DOMAIN runs : i <= Len(runs)
  BY DEF DrillTypes, Of, WatchdogTypeOK
<1>1. CASE Post
  <2>1. at = "dispatch" /\ at' \in {"lookup", "await", "done"} /\ Returns = {} /\ taken' = taken
        /\ dispatch'.after = dispatch.after /\ dispatch.after \in Nat /\ dispatch.after <= Len(runs)
    BY <1>1 DEF Post, Ends, ReturnOnce, DrillTypes, Noted
  <2>2. Returns' = {} \/ (Len(runs) \in Nat /\ Returns' = {Len(runs) + 1})
    BY <2>1, OwnRunsGrow
  <2> QED BY <1>0, <2>1, <2>2 DEF ReturnOnce
<1>2. CASE ~Post
  <2>1. Returns' = Returns
    BY <1>2, OwnRunsGrow
  <2>2. CASE Returns = {}
    BY <2>1, <2>2 DEF ReturnOnce
  <2>3. CASE Returns # {}
    <3>1. at \in {"lookup", "await", "done"}
      BY <2>3 DEF ReturnOnce
    <3>2. UNCHANGED <<taken, dispatch>> /\ at' \in {"lookup", "await", "done"}
      <4>1. CASE DrillStays
        BY <2>3, <3>1, <4>1, LookupFinds DEF DrillStays, Guard, Writes, Isolate, Stop, Wait, GiveUp, Report, Return,
                                             Restart, Lookup, Await, Ends
      <4>2. CASE SystemActs \/ UNCHANGED vars
        BY <3>1, <4>2, SystemDoes DEF vars, drillVars
      <4> QED BY <1>2, <4>1, <4>2, Steps
    <3> QED BY <2>1, <3>1, <3>2 DEF ReturnOnce
  <2> QED BY <2>2, <2>3
<1> QED BY <1>1, <1>2

\* What the steps of the runs need: a run that runs, of the workflow they belong to.
LEMMA RunActsNeed ==
  ASSUME SystemActs, ~UNCHANGED <<vms, env, stored, runner, onRecovery>>
  PROVE  \E i \in DOMAIN runs :
           /\ runs[i].status = "running"
           /\ \/ Pull
              \/ runs[i].workflow = "recover" /\ (Apply \/ Provisioned \/ Fence)
              \/ runs[i].workflow = "return" /\ (StartPrimary \/ Remove)
              \/ Move(i)
              \/ EndRun(i, "success") \/ EndRun(i, "failure")
<1> USE DEF systemVars
<1>1. CASE Pull
  BY <1>1 DEF Pull, Running, Of
<1>2. CASE Apply \/ Provisioned \/ Fence
  BY <1>2 DEF Apply, Provisioned, Fence, Running, Of
<1>3. CASE StartPrimary \/ Remove
  BY <1>3 DEF StartPrimary, Remove, Running, Of
<1>4. CASE RunFails \/ \E i \in DOMAIN runs : Move(i) \/ EndRun(i, "success")
  BY <1>4 DEF RunFails, Move, MoveName, EndRun, RunEnds
<1>5. CASE Person \/ CheckersCatchUp \/ Serve \/ Outage
  BY <1>5 DEF Person, PersonDispatches, CheckersCatchUp, CheckersReport, Serve, Outage, ServiceChanges, serviceVars
<1>6. CASE WatchdogActs
  BY <1>6 DEF WatchdogActs, StartLocal, StartJob, Requests, Names, ListRecovers, ListReturns, Checkers, Enter,
              NoStart, Dispatch, serviceVars
<1> QED BY <1>1, <1>2, <1>3, <1>4, <1>5, <1>6 DEF SystemActs, RunActs

\* While no run is active the system moves nothing.
LEMMA IdleStays ==
  ASSUME NoneActive, SystemActs
  PROVE  UNCHANGED <<vms, env, stored, runner, onRecovery>>
BY RunActsNeed DEF NoneActive, Active

\* A runner gets its run state while its run runs, and ends with it.
LEMMA RunnerRunsKept ==
  ASSUME DrillTypes, WatchdogTypeOK, RunnerRuns, [DrillNext]_vars
  PROVE  RunnerRuns'
<1>1. CASE \E i \in DOMAIN runs, s \in {"success", "failure"} : EndRun(i, s)
  BY <1>1, EndDoes DEF RunnerRuns
<1>2. ASSUME NEW w \in Workflow, NEW a \in Actor, runs' = Dispatched(w, a), runner' = runner PROVE RunnerRuns'
  BY <1>2, RunsOn DEF RunnerRuns
<1>3. CASE runs' = runs /\ ~\E i \in DOMAIN runs, s \in {"success", "failure"} : EndRun(i, s)
  <2>1. CASE runner # {}
    BY <1>3, <2>1 DEF RunnerRuns
  <2>2. CASE runner' = runner
    BY <1>3, <2>2 DEF RunnerRuns
  <2>3. CASE Pull
    BY <1>3, <2>3 DEF Pull, Running, Of, RunnerRuns
  <2>4. CASE DrillStays
    BY <2>2, <2>4, DrillDoes
  <2>5. CASE Post \/ UNCHANGED vars
    BY <2>2, <2>5, PostDoes DEF systemVars, vars
  <2>6. CASE SystemActs
    <3>1. CASE UNCHANGED <<vms, env, stored, runner, onRecovery>>
      BY <2>2, <3>1
    <3>2. CASE ~UNCHANGED <<vms, env, stored, runner, onRecovery>>
      BY <1>3, <2>6, <3>2, RunActsNeed DEF RunnerRuns
    <3> QED BY <3>1, <3>2
  <2> QED BY <2>4, <2>5, <2>6, Steps
<1>4. CASE Person \/ (WatchdogActs /\ Dispatch)
  BY <1>2, <1>4 DEF Person, PersonDispatches, WatchdogActs, Dispatch, systemVars, Workflow, Actor
<1>5. CASE Post /\ runs' = Dispatched("return", "bot")
  BY <1>2, <1>5, PostDoes DEF systemVars, Workflow, Actor
<1> QED BY <1>1, <1>3, <1>4, <1>5, RunsDo

\* A run state is of its time.
LEMMA NotAfterKept ==
  ASSUME DrillTypes, WatchdogTypeOK, Recorded, NotAfter, [DrillNext]_vars
  PROVE  NotAfter'
<1> SUFFICES ASSUME ~isolated'
             PROVE  stored'.started # "after" /\ \A state \in runner' : state.started # "after"
  BY DEF NotAfter
<1>1. ~isolated
  <2>1. CASE Guard \/ Isolate
    BY <2>1 DEF Guard, Isolate, Recorded, Opening, isolated
  <2>2. CASE ~(Guard \/ Isolate)
    BY <2>2, Forward DEF isolated
  <2> QED BY <2>1, <2>2
<1>2. stored.started # "after" /\ \A state \in runner : state.started # "after"
  BY <1>1 DEF NotAfter
<1>3. CASE UNCHANGED <<stored, runner>>
  BY <1>2, <1>3
<1>4. CASE DrillStays
  BY <1>3, <1>4, DrillDoes
<1>5. CASE Post \/ UNCHANGED vars
  BY <1>3, <1>5, PostDoes DEF systemVars, vars
<1>6. CASE SystemActs
  <2>1. CASE Pull
    BY <1>1, <1>2, <2>1 DEF Pull
  <2>2. CASE Apply \/ StartPrimary \/ \E i \in DOMAIN runs : Move(i)
    BY <1>3, <2>2 DEF Apply, StartPrimary, Move, systemVars
  <2>3. CASE Provisioned \/ Fence
    BY <1>2, <2>3 DEF Provisioned, Fence, DrillTypes, RunState
  <2>4. CASE Remove
    BY <1>2, <2>4 DEF Remove, NoRunState
  <2>5. CASE \E i \in DOMAIN runs, s \in {"success", "failure"} : EndRun(i, s)
    BY <1>2, <2>5, EndDoes
  <2> QED BY <1>3, <1>6, <2>1, <2>2, <2>3, <2>4, <2>5, RunActsNeed
<1> QED BY <1>4, <1>5, <1>6, Steps

\* The runner of a run under way holds what it pulled, and nothing older than what
\* the bucket has.
LEMMA OlderNotBesideKept ==
  ASSUME DrillTypes, WatchdogTypeOK, NotAfter, OlderNotBeside, [DrillNext]_vars
  PROVE  OlderNotBeside'
<1>1. CASE UNCHANGED <<stored, runner>>
  BY <1>1 DEF OlderNotBeside
<1>2. CASE DrillStays \/ Post \/ UNCHANGED vars
  BY <1>1, <1>2, DrillDoes, PostDoes DEF systemVars, vars
<1>3. CASE SystemActs
  <2>1. CASE Pull
    BY <2>1 DEF Pull, NotAfter, OlderNotBeside
  <2>2. CASE Apply \/ StartPrimary \/ \E i \in DOMAIN runs : Move(i)
    BY <1>1, <2>2 DEF Apply, StartPrimary, Move, systemVars
  <2>3. CASE Provisioned \/ Fence
    BY <2>3 DEF Provisioned, Fence, DrillTypes, RunState, OlderNotBeside
  <2>4. CASE Remove
    BY <2>4 DEF Remove, NoRunState, OlderNotBeside
  <2>5. CASE \E i \in DOMAIN runs, s \in {"success", "failure"} : EndRun(i, s)
    BY <2>5, EndDoes DEF OlderNotBeside
  <2> QED BY <1>1, <1>3, <2>1, <2>2, <2>3, <2>4, <2>5, RunActsNeed
<1> QED BY <1>2, <1>3, Steps

\* From the dispatch of the return on, every run state was begun after the isolation.
LEMMA LateStatesKept ==
  ASSUME DrillTypes, WatchdogTypeOK, Recorded, Noted, ReturnOnce, OlderNotBeside, LateStates, [DrillNext]_vars
  PROVE  LateStates'
<1> DEFINE Late == /\ isolated /\ stored.started # "before"
                   /\ \A state \in runner : state.started # "before"
<1> SUFFICES ASSUME at' \in {"dispatch", "lookup", "await"} \/ Returns' # {}
             PROVE  Late'
  BY DEF LateStates
<1>1. CASE Return
  <2>1. UNCHANGED <<stored, runner, since>> /\ Returns' = Returns
    BY <1>1 DEF Return, systemVars, watchdogVars, Returns, Of
  <2>2. CASE at' = "dispatch"
    BY <1>1, <2>1, <2>2 DEF Return, RecoveryEnvironment, Skipped, OlderNotBeside, isolated
  <2>3. CASE Returns # {}
    BY <2>1, <2>3 DEF LateStates, isolated
  <2> QED BY <1>1, <2>1, <2>2, <2>3 DEF Return
<1>2. CASE ~Return
  <2>1. at \in {"dispatch", "lookup", "await"} \/ Returns # {}
    <3>1. CASE Post
      BY <3>1 DEF Post
    <3>2. CASE ~Post
      <4>1. Returns' = Returns
        BY <3>2, OwnRunsGrow
      <4>2. CASE Wait
        BY <4>1, <4>2, LookDoes DEF Wait, Fail
      <4>3. CASE DrillStays /\ ~Wait
        BY <1>2, <4>1, <4>3 DEF DrillStays, Guard, Writes, Isolate, Stop, GiveUp, Report, Restart, Lookup, Await,
                                Ends, Fail
      <4>4. CASE SystemActs \/ UNCHANGED vars
        BY <4>1, <4>4, SystemDoes DEF vars, drillVars
      <4> QED BY <3>2, <4>2, <4>3, <4>4, Steps
    <3> QED BY <3>1, <3>2
  <2>2. Late /\ at # "guard" /\ at # "isolate"
    BY <2>1 DEF LateStates, ReturnOnce
  <2>3. since' = since
    BY <2>2, Forward DEF Guard, Isolate
  <2>4. CASE UNCHANGED <<stored, runner>>
    BY <2>2, <2>3, <2>4 DEF isolated
  <2>5. CASE DrillStays \/ Post \/ UNCHANGED vars
    BY <2>4, <2>5, DrillDoes, PostDoes DEF systemVars, vars
  <2>6. CASE SystemActs
    <3>1. CASE Pull
      BY <2>2, <2>3, <3>1 DEF Pull, isolated
    <3>2. CASE Apply \/ StartPrimary \/ \E i \in DOMAIN runs : Move(i)
      BY <2>4, <3>2 DEF Apply, StartPrimary, Move, systemVars
    <3>3. CASE Provisioned \/ Fence
      BY <2>2, <2>3, <3>3 DEF Provisioned, Fence, DrillTypes, RunState, isolated
    <3>4. CASE Remove
      BY <2>2, <2>3, <3>4 DEF Remove, NoRunState, isolated
    <3>5. CASE \E i \in DOMAIN runs, s \in {"success", "failure"} : EndRun(i, s)
      BY <2>2, <2>3, <3>5, EndDoes DEF isolated
    <3> QED BY <2>4, <2>6, <3>1, <3>2, <3>3, <3>4, <3>5, RunActsNeed
  <2> QED BY <2>5, <2>6, Steps
<1> QED BY <1>1, <1>2

-----------------------------------------------------------------------------
(* A drill that passed. *)

\* A dispatch passes no run.
LEMMA DispatchPassesNone ==
  ASSUME WatchdogTypeOK, NEW w \in Workflow, NEW a \in Actor, runs' = Dispatched(w, a)
  PROVE  \A i \in DOMAIN runs' : Passed(i)' => i \in DOMAIN runs /\ Passed(i)
<1> DEFINE others == [j \in DOMAIN runs |->
                        IF runs[j].status = "pending" THEN [runs[j] EXCEPT !.status = "failure"] ELSE runs[j]]
           last == [workflow |-> w, actor |-> a,
                    status |-> IF \E j \in DOMAIN runs : runs[j].status = "running" THEN "pending" ELSE "running"]
<1>1. runs \in Seq(Run) /\ \A j \in DOMAIN runs : runs[j] \in Run
  BY DEF WatchdogTypeOK
<1>2. \A j \in DOMAIN runs : others[j] \in Run /\ (others[j].status = "success" => runs[j].status = "success")
  BY <1>1 DEF Run, Status
<1>3. others \in Seq(Run) /\ DOMAIN others = DOMAIN runs /\ Len(others) = Len(runs)
  BY <1>1, <1>2
<1>4. last.status # "success"
  OBVIOUS
<1>5. runs' = Append(others, last)
  BY DEF Dispatched
<1> HIDE DEF others, last
<1>6. \A i \in DOMAIN runs' : (i \in DOMAIN others /\ runs'[i] = others[i]) \/ runs'[i] = last
  BY <1>3, <1>5
<1> QED BY <1>2, <1>3, <1>4, <1>6 DEF Passed

\* The end of a run passes no other, and leaves it inactive.
LEMMA EndPassesOne ==
  ASSUME WatchdogTypeOK, NEW j \in DOMAIN runs, runs[j].status = "running",
         NEW s \in {"success", "failure"}, runs' = Ended(j, s)
  PROVE  /\ DOMAIN runs' = DOMAIN runs
         /\ \A i \in DOMAIN runs : Passed(i)' => Passed(i) \/ (i = j /\ s = "success")
         /\ ~Active(j)'
<1>1. \A i \in DOMAIN runs : runs[i] \in Run
  BY DEF WatchdogTypeOK
<1>2. runs'[j] = [runs[j] EXCEPT !.status = s]
  BY DEF Ended
<1>3. \A i \in DOMAIN runs : i # j => runs'[i] = runs[i] \/ runs'[i] = [runs[i] EXCEPT !.status = "running"]
  BY DEF Ended
<1>4. ~Active(j)'
  BY <1>1, <1>2 DEF Active, Run
<1>5. \A i \in DOMAIN runs : Passed(i)' => Passed(i) \/ (i = j /\ s = "success")
  BY <1>1, <1>2, <1>3 DEF Passed, Run
<1> QED BY <1>4, <1>5 DEF Ended

\* A step passes at most one run, by its end.
LEMMA PassesDo ==
  ASSUME DrillTypes, WatchdogTypeOK, [DrillNext]_vars, NEW i \in DOMAIN runs', Passed(i)'
  PROVE  /\ i \in DOMAIN runs
         /\ Passed(i) \/ (EndRun(i, "success") /\ runs[i].status = "running" /\ runs' = Ended(i, "success"))
<1>1. CASE runs' = runs
  BY <1>1 DEF Passed
<1>2. ASSUME NEW w \in Workflow, NEW a \in Actor, runs' = Dispatched(w, a) PROVE i \in DOMAIN runs /\ Passed(i)
  BY <1>2, DispatchPassesNone
<1>3. ASSUME NEW j \in DOMAIN runs, NEW s \in {"success", "failure"},
             EndRun(j, s), runs[j].status = "running", runs' = Ended(j, s)
      PROVE  /\ i \in DOMAIN runs
             /\ Passed(i) \/ (EndRun(i, "success") /\ runs[i].status = "running" /\ runs' = Ended(i, "success"))
  BY <1>3, EndPassesOne
<1> QED BY <1>1, <1>2, <1>3, RunsDo DEF Workflow, Actor

\* Nothing is left to move, and the watchdog reads the name first.
LEMMA SettledStays ==
  ASSUME DrillTypes, WatchdogInv, ConfirmedLate, Settled, Noted, Alone',
         at # "guard", at # "dispatch", failed # "guard", [DrillNext]_vars
  PROVE  Settled' /\ UNCHANGED stored
<1>0. WatchdogTypeOK /\ RunsStay
  BY RunsKept DEF WatchdogInv
<1>1. ~Dispatch
  BY DEF Dispatch, ConfirmedLate, Settled
<1>2. NoneActive'
  <2>1. DOMAIN runs' = DOMAIN runs
    BY <1>0, <1>1, RunsMade, AloneNoPerson DEF Post
  <2> QED BY <1>0, <2>1 DEF RunsStay, Settled, NoneActive
<1>3. CASE DrillStays
  BY <1>0, <1>2, <1>3, DrillDoes DEF Settled, jobVars
<1>4. CASE UNCHANGED vars
  BY <1>2, <1>4 DEF vars, watchdogVars, systemVars, Settled
<1>5. CASE SystemActs
  <2>1. UNCHANGED <<stored, onRecovery>>
    BY <1>5, IdleStays DEF Settled
  <2>2. job' = "confirm" => step' \in {"requests", "names"}
    <3>1. CASE WatchdogActs
      BY <1>1, <3>1 DEF WatchdogActs, StartLocal, StartJob, Requests, Names, ListRecovers, ListReturns, Checkers,
                        NoStart, End, Enter, Settled, ConfirmedLate
    <3>2. CASE ~WatchdogActs
      BY <1>5, <3>2 DEF SystemActs, RunActs, RunFails, Pull, Apply, Provisioned, Fence, StartPrimary, Remove, Move,
                        EndRun, Person, CheckersCatchUp, Serve, Outage, MoveName, RunEnds, PersonDispatches,
                        ServiceChanges, CheckersReport, Quiet, watchdogVars, jobVars, Settled
    <3> QED BY <3>1, <3>2
  <2> QED BY <1>2, <2>1, <2>2 DEF Settled
<1> QED BY <1>3, <1>4, <1>5, Steps DEF Post

\* A recovery of the isolation that passes leaves the name on its cluster, and
\* nobody to move it but the drill.
LEMMA SettlesOncePassedKept ==
  ASSUME DrillTypes, WatchdogInv, ConfirmedLate, Recorded, Noted, OnlyOwnRuns, ReturnOnce, SettlesOncePassed,
         Alone', [DrillNext]_vars
  PROVE  SettlesOncePassed'
<1> SUFFICES ASSUME at' \in {"stop", "wait", "report"} \/ (at' = "return" /\ failed' = "none"),
                    NEW i \in Recoveries', NEW n \in since', i > n, Passed(i)'
             PROVE  Settled'
  BY DEF SettlesOncePassed
<1>0. WatchdogTypeOK /\ RunsStay /\ i \in DOMAIN runs'
  BY RunsKept DEF WatchdogInv, Recoveries
<1>1. ~Guard
  BY DEF Guard, Fail
<1>2. ~Isolate
  <2> SUFFICES ASSUME Isolate PROVE FALSE
    OBVIOUS
  <2>1. since' = {Len(runs)} /\ runs' = runs
    BY DEF Isolate, Fail, watchdogVars
  <2> QED BY <1>0, <2>1 DEF WatchdogTypeOK
<1>3. guarded' = guarded /\ since' = since
  BY <1>0, <1>1, <1>2, Forward
<1>4. at \in {"stop", "wait", "report"} \/ (at = "return" /\ failed = "none")
  <2>1. CASE DrillStays
    BY <1>1, <1>2, <2>1 DEF DrillStays, Writes, Stop, Wait, GiveUp, Report, Return, Restart, Lookup, Await, Ends, Fail
  <2>2. CASE Post
    BY <2>2 DEF Post, Ends
  <2>3. CASE SystemActs \/ UNCHANGED vars
    BY <2>3, SystemDoes DEF vars, drillVars
  <2> QED BY <2>1, <2>2, <2>3, Steps
<1>5. at \notin {"guard", "dispatch"} /\ failed # "guard" /\ Returns = {}
  BY <1>4 DEF Recorded, Returning, ReturnOnce
<1>6. i \in DOMAIN runs /\ i \in Recoveries
  <2>1. i \in DOMAIN runs
    BY <1>0, PassesDo
  <2> QED BY <1>0, <1>3, <2>1 DEF Recoveries, RunsStay
<1>7. CASE Passed(i)
  BY <1>3, <1>4, <1>5, <1>6, <1>7, SettledStays DEF SettlesOncePassed
<1>8. CASE ~Passed(i)
  <2>1. EndRun(i, "success") /\ runs[i].status = "running" /\ runs' = Ended(i, "success")
    BY <1>0, <1>8, PassesDo
  <2>2. Automatic(i) /\ Active(i)
    BY <1>6, <2>1 DEF Recoveries, Active
  <2>3. onRecovery /\ UNCHANGED <<onRecovery, job, step>>
    BY <2>1, <2>2 DEF EndRun, RunEnds, serviceVars, jobVars
  <2>4. job # "confirm"
    BY <1>6, <2>2 DEF ConfirmedLate
  <2>5. NoneActive'
    <3> SUFFICES ASSUME NEW k \in DOMAIN runs', Active(k)' PROVE FALSE
      BY DEF NoneActive
    <3>1. k \in DOMAIN runs /\ k # i
      BY <1>0, <1>6, <2>1, EndPassesOne
    <3>2. Active(k)
      BY <1>0, <3>1 DEF RunsStay
    <3>3. runs[k] \in Run /\ k \in Nat /\ guarded \in Nat
      BY <1>0, <3>1 DEF WatchdogTypeOK, DrillTypes
    <3>4. runs[k].actor = "bot" /\ k > guarded
      BY <1>5, <3>1, <3>2, <3>3 DEF OnlyOwnRuns, Alone, GuardedEnded
    <3>5. Automatic(k)
      BY <1>5, <3>1, <3>3, <3>4 DEF Returns, Of, Automatic, Run, Workflow
    <3> QED BY <1>6, <2>2, <3>1, <3>2, <3>5 DEF WatchdogInv, OneAutomaticRun
  <2> QED BY <2>3, <2>4, <2>5 DEF Settled
<1> QED BY <1>7, <1>8

\* The report reads the recovery that the wait saw pass.
LEMMA SeenPassedKept ==
  ASSUME DrillTypes, WatchdogTypeOK, Recorded, Noted, SeenPassed, [DrillNext]_vars
  PROVE  SeenPassed'
<1> SUFFICES ASSUME at' = "report" \/ (at' \in Returning \cup {"return", "done"} /\ failed' = "none")
             PROVE  (\E i \in taken, n \in since : i > n /\ i \in Recoveries /\ Passed(i))'
  BY DEF SeenPassed
<1>1. ~Guard
  BY DEF Guard, Fail, Returning
<1>2. guarded' = guarded /\ (failed' = "none" => failed = "none")
  BY <1>1, Forward
<1>3. RunsStay
  BY RunsKept
<1>4. CASE Wait
  <2>1. PICK n \in since : \E found \in SUBSET BotRun("recover", n) : Look(found)
    BY <1>4 DEF Wait
  <2>2. at = "wait" /\ UNCHANGED <<runs, guarded, since>>
    BY <1>4 DEF Wait, watchdogVars
  <2>3. PICK i \in taken' : i \in BotRun("recover", n) /\ Passed(i)
    <3>1. at' = "report"
      BY <2>1, <2>2, LookDoes DEF Fail, Returning
    <3> QED BY <2>1, <2>2, <3>1, LookDoes DEF Fail
  <2>4. i \in DOMAIN runs /\ Automatic(i) /\ i > n /\ n \in Nat /\ guarded <= n /\ guarded \in Nat /\ i \in Nat
    BY <2>3, BotRunIsFirst, MaxRunsAssumption DEF DrillTypes, Noted, Of, Automatic, WatchdogTypeOK
  <2>5. i \in Recoveries
    BY <2>4 DEF Recoveries
  <2> QED BY <2>2, <2>3, <2>4, <2>5 DEF Recoveries, Automatic, Passed
<1>5. CASE ~Wait
  <2>1. at = "report" \/ (at \in Returning \cup {"return", "done"} /\ failed = "none")
    <3>1. CASE DrillStays
      BY <1>1, <1>5, <3>1 DEF DrillStays, Writes, Isolate, Stop, GiveUp, Report, Return, Restart, Lookup,
                              Await, Ends, Fail, Returning
    <3>2. CASE Post
      BY <1>2, <3>2 DEF Post, Ends, Returning
    <3>3. CASE SystemActs \/ UNCHANGED vars
      BY <3>3, SystemDoes DEF vars, drillVars
    <3> QED BY <3>1, <3>2, <3>3, Steps
  <2>2. taken' = taken /\ since' = since
    BY <1>1, <2>1, Forward DEF Closing
  <2> QED BY <1>2, <1>3, <2>1, <2>2 DEF SeenPassed, RunsStay, Recoveries
<1> QED BY <1>4, <1>5

\* From a recovery that passed the drill goes on to the Return workflow.
LEMMA ReturnsToWorkflowKept ==
  ASSUME DrillTypes, WatchdogInv, ConfirmedLate, Recorded, Noted, SettlesOncePassed, SeenPassed, ReturnsToWorkflow,
         Alone', [DrillNext]_vars
  PROVE  ReturnsToWorkflow'
<1>0. WatchdogTypeOK /\ RunsStay
  BY RunsKept DEF WatchdogInv
<1>1. ASSUME at' = "return", failed' = "none" PROVE RecoveryEnvironment'
  <2>1. CASE DrillStays
    <3>1. stored' = stored
      BY <1>0, <2>1, DrillDoes
    <3>2. Report
      BY <1>1, <2>1 DEF DrillStays, Guard, Writes, Isolate, Stop, Wait, Look, GiveUp, Return, Restart, Lookup, Await,
                        Ends, Fail
    <3> QED BY <1>1, <3>1, <3>2 DEF Report, Fail, RecoveryEnvironment
  <2>2. CASE Post
    BY <1>1, <2>2 DEF Post, Ends
  <2>3. CASE SystemActs \/ UNCHANGED vars
    <3>1. at = "return" /\ failed = "none"
      BY <1>1, <2>3, SystemDoes DEF vars, drillVars
    <3>2. Settled
      BY <3>1 DEF SeenPassed, SettlesOncePassed
    <3>3. stored' = stored
      BY <3>1, <3>2, SettledStays
    <3> QED BY <3>1, <3>3 DEF ReturnsToWorkflow, RecoveryEnvironment
  <2> QED BY <2>1, <2>2, <2>3, Steps
<1>2. ASSUME at' = "restart", failed' = "none" PROVE misled'
  <2>1. CASE DrillStays
    <3>1. Return
      BY <1>2, <2>1 DEF DrillStays, Guard, Writes, Isolate, Stop, Wait, Look, GiveUp, Report, Restart, Lookup, Await,
                        Ends, Fail
    <3>2. RecoveryEnvironment
      BY <1>2, <3>1 DEF Return, ReturnsToWorkflow
    <3> QED BY <1>2, <3>1, <3>2, SlipDoes DEF Return, DrillTypes
  <2>2. CASE Post
    BY <1>2, <2>2 DEF Post, Ends
  <2>3. CASE SystemActs \/ UNCHANGED vars
    BY <1>2, <2>3, SystemDoes DEF vars, drillVars, ReturnsToWorkflow
  <2> QED BY <2>1, <2>2, <2>3, Steps
<1>3. ASSUME returned' = "passed", failed' = "none", ~misled' PROVE (\E i \in Returns : Passed(i))'
  <2>1. \A i \in Returns : Passed(i) => i \in Returns' /\ Passed(i)'
    BY <1>0 DEF RunsStay, Returns, Of
  <2>2. failed = "none" /\ ~misled
    <3>1. CASE Guard
      BY <1>3, <3>1 DEF Guard, Recorded, Returning
    <3>2. CASE ~Guard
      BY <1>0, <1>3, <3>2, Forward
    <3> QED BY <3>1, <3>2
  <2>3. CASE returned = "passed"
    BY <2>1, <2>2, <2>3 DEF ReturnsToWorkflow
  <2>4. CASE returned # "passed"
    <3>1. ~(SystemActs \/ UNCHANGED vars)
      BY <1>3, <2>4, SystemDoes DEF vars, drillVars
    <3>2. Restart \/ Await
      BY <1>3, <2>4, <3>1, Steps DEF DrillStays, Guard, Writes, Isolate, Stop, Wait, GiveUp, Report, Return, Lookup,
                                     Post, Ends
    <3>3. ~Restart
      BY <2>2 DEF Restart, ReturnsToWorkflow
    <3>4. Await
      BY <3>2, <3>3
    <3>5. PICK i \in BotRun("return", dispatch.after) : runs[i].status = "success"
      BY <1>3, <3>4 DEF Await, Ends
    <3>6. i \in Returns /\ Passed(i)
      BY <3>5 DEF BotRun, Returns, Passed
    <3> QED BY <2>1, <3>6
  <2> QED BY <2>3, <2>4
<1> QED BY <1>1, <1>2, <1>3 DEF ReturnsToWorkflow

-----------------------------------------------------------------------------
(* A drill that nothing misled. *)

\* A step of the system changes nothing of it, starts a recovery, or is one of a
\* run that runs.
LEMMA SystemKinds ==
  ASSUME DrillTypes, WatchdogTypeOK, SystemActs, ~Person
  PROVE  \/ UNCHANGED <<runs, vms, env, stored, runner, onRecovery>>
         \/ WatchdogActs /\ Dispatch
         \/ \E i \in DOMAIN runs :
              /\ runs[i].status = "running"
              /\ \/ Pull
                 \/ runs[i].workflow = "recover" /\ (Apply \/ Provisioned \/ Fence)
                 \/ runs[i].workflow = "return" /\ (StartPrimary \/ Remove)
                 \/ Move(i)
                 \/ \E s \in {"success", "failure"} : EndRun(i, s)
<1>1. CASE runs' = runs
  BY <1>1, RunActsNeed
<1>2. CASE runs' # runs
  <2>1. ~Post
    <3>1. at' = at
      BY SystemDoes
    <3> QED BY <3>1 DEF Post, Ends
  <2>2. [DrillNext]_vars
    BY DEF DrillNext, SystemActs
  <2> QED BY <1>2, <2>1, <2>2, RunsDo
<1> QED BY <1>1, <1>2

\* An active run is a recovery or a return of the drill.
LEMMA ActiveIsOwn ==
  ASSUME DrillTypes, WatchdogTypeOK, Noted, OnlyOwnRuns, Plain, NEW k \in DOMAIN runs, Active(k)
  PROVE  \/ k \in Recoveries /\ runs[k].workflow = "recover" /\ Automatic(k)
         \/ k \in Returns /\ runs[k].workflow = "return"
<1>1. runs[k] \in Run /\ k \in Nat /\ guarded \in Nat
  BY DEF WatchdogTypeOK, DrillTypes
<1>2. k > guarded /\ runs[k].actor = "bot"
  BY <1>1 DEF Plain, OnlyOwnRuns, Alone, GuardedEnded
<1> QED BY <1>1, <1>2 DEF Recoveries, Returns, Of, Automatic, Run, Workflow

\* A drill that is plain after a step was plain before, unless it was the guard.
LEMMA PlainBefore ==
  ASSUME DrillTypes, WatchdogTypeOK, Recorded, Noted, [DrillNext]_vars, ~Guard, Plain'
  PROVE  Plain /\ Recoveries \subseteq Recoveries' /\ guarded' = guarded
<1>1. /\ ~misled /\ at # "guard" /\ failed # "guard" /\ guarded' = guarded
      /\ at \in Closing => at' \in Closing /\ taken' = taken
  BY Forward DEF Plain
<1>2. Recoveries \subseteq Recoveries'
  BY <1>1, OwnRunsGrow
<1>3. ASSUME NEW i \in Recoveries PROVE isolated /\ \A n \in since : i > n
  <2>1. isolated' /\ \A n \in since' : i > n
    BY <1>2 DEF Plain
  <2>2. CASE since' = since
    BY <2>1, <2>2 DEF isolated
  <2>3. CASE Isolate
    <3>1. since' = {Len(runs)} \/ since' = since
      BY <2>3 DEF Isolate
    <3>2. i <= Len(runs) /\ i \in Nat /\ Len(runs) \in Nat
      BY DEF Recoveries, WatchdogTypeOK
    <3>3. since' # {Len(runs)}
      BY <2>1, <3>2
    <3> QED BY <2>2, <3>1, <3>3
  <2> QED BY <2>2, <2>3, Forward
<1>4. \A i, j \in Recoveries : i = j
  BY <1>2 DEF Plain
<1>5. at \in Closing => Recoveries \subseteq taken
  BY <1>1, <1>2 DEF Plain
<1> QED BY <1>1, <1>2, <1>3, <1>4, <1>5 DEF Plain

\* Before the wait is over there is nothing to say of the return.
LEMMA NoReturnYet ==
  ASSUME at \notin Closing, Recorded, ReturnOnce
  PROVE  PlainReturn
BY DEF Closing, Returning, Recorded, ReturnOnce, PlainReturn

\* The guard leaves a primary that serves, and no run.
LEMMA PlainGuard ==
  ASSUME DrillTypes, WatchdogTypeOK, Recorded, ReturnOnce, NotAfter, Guard, Plain'
  PROVE  PlainRecovery' /\ PlainReturn'
<1>1. failed = "none" /\ since = {} /\ Returns = {}
  BY DEF Guard, Recorded, Returning, Opening, ReturnOnce
<1>2. /\ ~onRecovery /\ at' = "writes" /\ guarded' = Len(runs)
      /\ UNCHANGED <<runs, onRecovery, stored, restarted, returned>>
  BY <1>1 DEF Guard, Fail, Plain, watchdogVars, systemVars
<1>3. Recoveries' = {}
  BY <1>2 DEF Recoveries, WatchdogTypeOK
<1>4. stored.started # "after"
  BY <1>1 DEF NotAfter, isolated
<1>5. PlainRecovery'
  BY <1>2, <1>3, <1>4 DEF PlainRecovery, Closing, Returning
<1>6. Returns' = {} /\ ~restarted /\ returned = "none"
  BY <1>1, <1>2 DEF Returns, Of, Recorded, Guard, Returning
<1>7. PlainReturn'
  BY <1>2, <1>6 DEF PlainReturn
<1> QED BY <1>5, <1>7

\* When a drill that nothing misled leaves the wait, no recovery goes on.
LEMMA PlainWait ==
  ASSUME DrillTypes, WatchdogTypeOK, Recorded, Noted, Plain, Plain', Wait, at' \in Closing
  PROVE  \A i \in Recoveries : ~Active(i)
<1> SUFFICES ASSUME NEW i \in Recoveries, Active(i) PROVE FALSE
  OBVIOUS
<1>1. UNCHANGED <<runs, guarded, since>> /\ at = "wait"
  BY DEF Wait, watchdogVars
<1>2. i \in taken'
  BY <1>1 DEF Plain, Recoveries, Automatic
<1>3. PICK n \in since : Look(BotRun("recover", n))
  <2>1. ~Slip("listing")
    BY SlipDoes DEF Plain, DrillTypes
  <2> QED BY <2>1 DEF Wait
<1>4. i \in DOMAIN runs /\ i \in Nat /\ Automatic(i) /\ i > n
  BY DEF Plain, Recoveries, WatchdogTypeOK
<1>5. \A j \in BotRun("recover", n) : j \in Recoveries
  <2>1. n \in Nat /\ guarded \in Nat /\ guarded <= n
    BY MaxRunsAssumption DEF DrillTypes, Noted
  <2> QED BY <2>1, BotRunIsFirst DEF Recoveries, Of, Automatic, WatchdogTypeOK
<1>6. BotRun("recover", n) # {}
  <2>1. \A j \in Of("recover") : runs[j].actor = "bot" /\ j > n => j = i
    <3>1. n \in Nat /\ guarded \in Nat /\ guarded <= n
      BY MaxRunsAssumption DEF DrillTypes, Noted
    <3> QED BY <3>1 DEF Plain, Recoveries, Of, Automatic, WatchdogTypeOK
  <2>2. i \in BotRun("recover", n)
    BY <1>4, <2>1 DEF BotRun, Of, Automatic
  <2> QED BY <2>2
<1>7. \/ \A j \in taken' : Passed(j)
      \/ \A j \in taken' : ~Active(j)
      \/ at' = "wait"
  BY <1>1, <1>3, <1>6, LookDoes
<1> QED BY <1>2, <1>7 DEF Passed, Active, Closing, Returning

\* The drill's own steps: it leaves the wait when no recovery goes on, and gives
\* the primary its VMs when no run does.
LEMMA PlainDrill ==
  ASSUME DrillTypes, WatchdogTypeOK, Recorded, Noted, OnlyOwnRuns, ReturnOnce, DrillStays, ~Guard,
         Plain, PlainRecovery, PlainReturn, Plain'
  PROVE  PlainRecovery' /\ PlainReturn'
<1>1. UNCHANGED <<onRecovery, runs, stored, runner, guarded>>
  <2>1. [DrillNext]_vars
    BY DEF DrillStays, DrillNext, DrillActs
  <2> QED BY <2>1, DrillDoes, Forward
<1>2. Recoveries' = Recoveries /\ Returns' = Returns
  BY <1>1 DEF Recoveries, Returns, Of, Automatic
<1>3. RecoveryEnvironment' = RecoveryEnvironment
  BY <1>1 DEF RecoveryEnvironment
<1>4. up \in BOOLEAN /\ ~misled /\ ~misled'
  BY DEF Plain, WatchdogTypeOK
<1>5. PlainRecovery'
  <2>1. ASSUME at' \in Closing PROVE \A i \in Recoveries : ~Active(i)
    <3>1. CASE at \in Closing
      BY <3>1 DEF PlainRecovery
    <3>2. CASE Wait
      BY <2>1, <3>2, PlainWait
    <3>3. CASE Writes \/ Isolate \/ Stop
      <4>1. taken = {} /\ taken' = taken
        BY <3>3 DEF Writes, Isolate, Stop, Recorded, Opening
      <4> QED BY <1>2, <2>1, <4>1 DEF Plain
    <3>4. CASE GiveUp \/ Report \/ Return \/ Restart \/ Lookup \/ Await
      BY <3>1, <3>4 DEF GiveUp, Report, Return, Restart, Lookup, Await, Closing, Returning
    <3> QED BY <3>2, <3>3, <3>4 DEF DrillStays
  <2> QED BY <1>1, <1>2, <1>3, <2>1 DEF PlainRecovery, Active
<1>6. (at' \in {"dispatch", "lookup", "await"} /\ Returns' = {}) => RecoveryEnvironment'
  <2>1. CASE Return
    BY <1>3, <2>1 DEF Return
  <2>2. CASE ~Return
    <3>1. at' \in {"dispatch", "lookup", "await"} => at \in {"dispatch", "lookup", "await"}
      <4>1. CASE Wait
        BY <4>1, LookDoes DEF Wait, Fail
      <4>2. CASE ~Wait
        BY <2>2, <4>2 DEF DrillStays, Writes, Isolate, Stop, GiveUp, Report, Restart, Lookup, Await, Ends, Fail
      <4> QED BY <4>1, <4>2
    <3> QED BY <1>2, <1>3, <3>1 DEF PlainReturn
  <2> QED BY <2>1, <2>2
<1>7. at' = "restart" => ~RecoveryEnvironment'
  <2>1. CASE Return
    BY <1>3, <1>4, <2>1, SlipDoes DEF Return, DrillTypes
  <2>2. CASE Wait
    BY <2>2, LookDoes DEF Wait, Fail
  <2>3. CASE ~Return /\ ~Wait
    BY <2>3 DEF DrillStays, Writes, Isolate, Stop, GiveUp, Report, Restart, Lookup, Await, Ends, Fail
  <2> QED BY <2>1, <2>2, <2>3
<1>8. vms' = vms \/ at \in {"stop", "giveup", "restart"}
  BY DEF DrillStays, Writes, Isolate, Stop, Wait, GiveUp, Report, Return, Restart, Lookup, Await, systemVars
<1>9. ASSUME NEW r \in Returns'
      PROVE  /\ Active(r)' => /\ RecoveryEnvironment'
                              /\ \A state \in runner' : state.reached = "begun" => vms' /\ ~onRecovery'
             /\ Passed(r)' => vms' /\ ~onRecovery'
  <2>1. r \in Returns /\ vms' = vms
    BY <1>2, <1>8, <1>9 DEF ReturnOnce
  <2> QED BY <1>1, <1>3, <2>1 DEF PlainReturn, Active, Passed
<1>10. returned' = "passed" => (restarted' \/ \E r \in Returns' : Passed(r)')
  <2> SUFFICES ASSUME returned' = "passed" PROVE restarted' \/ \E r \in Returns' : Passed(r)'
    OBVIOUS
  <2>1. at # "done"
    BY DEF DrillStays, Guard, Writes, Isolate, Stop, Wait, GiveUp, Report, Return, Restart, Lookup, Await
  <2>2. returned = "none"
    BY <2>1 DEF Recorded
  <2>3. Restart \/ Await
    BY <2>2 DEF DrillStays, Writes, Isolate, Stop, Wait, GiveUp, Report, Return, Lookup, Ends
  <2>4. CASE Restart
    BY <2>4 DEF Restart, Ends
  <2>5. CASE Await
    <3>1. PICK i \in BotRun("return", dispatch.after) : runs[i].status = "success"
      BY <2>5 DEF Await, Ends
    <3>2. i \in Returns
      BY <3>1 DEF BotRun, Returns
    <3> QED BY <1>1, <1>2, <3>1, <3>2 DEF Passed
  <2> QED BY <2>3, <2>4, <2>5
<1>11. restarted' => (NoneActive' /\ vms' /\ ~onRecovery')
  <2> SUFFICES ASSUME restarted' PROVE NoneActive' /\ vms' /\ ~onRecovery'
    OBVIOUS
  <2>1. CASE restarted
    <3>1. at \in {"return", "done"}
      BY <2>1 DEF Recorded, Skipped, Returning
    <3> QED BY <1>1, <1>8, <2>1, <3>1 DEF PlainReturn, NoneActive, Active
  <2>2. CASE ~restarted
    <3>1. (GiveUp \/ Restart) /\ StartVMs
      BY <2>2 DEF DrillStays, Writes, Isolate, Stop, Wait, GiveUp, Report, Return, Restart, Lookup, Await
    <3>2. vms'
      BY <1>4, <2>2, <3>1, PowerDoes DEF StartVMs
    <3>3. Returns = {} /\ \A i \in Recoveries : ~Active(i)
      BY <3>1 DEF GiveUp, Restart, ReturnOnce, PlainRecovery, Closing, Returning
    <3>4. NoneActive
      BY <3>3, NoOtherRuns DEF Plain
    <3>5. CASE GiveUp
      <4>1. Recoveries = {}
        BY <3>5 DEF GiveUp, Plain, Closing, Recorded
      <4> QED BY <1>1, <3>2, <3>4, <4>1 DEF PlainRecovery, NoneActive, Active
    <3>6. CASE Restart
      <4>1. ~RecoveryEnvironment
        BY <3>6 DEF Restart, PlainReturn
      <4>2. ~onRecovery
        BY <3>3, <4>1 DEF PlainRecovery
      <4> QED BY <1>1, <3>2, <3>4, <4>2 DEF NoneActive, Active
    <3> QED BY <3>1, <3>5, <3>6
  <2> QED BY <2>1, <2>2
<1>12. PlainReturn'
  BY <1>6, <1>7, <1>9, <1>10, <1>11 DEF PlainReturn
<1> QED BY <1>5, <1>12

\* The dispatch of the return: no run goes on, and an environment is recorded.
LEMMA PlainPost ==
  ASSUME DrillTypes, WatchdogTypeOK, Recorded, Noted, OnlyOwnRuns, ReturnOnce, RunnerRuns, Post,
         Plain, PlainRecovery, PlainReturn, Plain'
  PROVE  PlainRecovery' /\ PlainReturn'
<1>0. [DrillNext]_vars
  BY DEF DrillNext, DrillActs
<1>1. at = "dispatch" /\ UNCHANGED <<onRecovery, vms, stored, runner, guarded, since, taken, restarted>>
  BY PostDoes DEF serviceVars, systemVars
<1>2. Returns = {} /\ RecoveryEnvironment /\ \A i \in Recoveries : ~Active(i)
  BY <1>1 DEF ReturnOnce, PlainReturn, PlainRecovery, Closing, Returning
<1>3. NoneActive /\ runner = {}
  <2>1. NoneActive
    BY <1>2, NoOtherRuns DEF Plain
  <2> QED BY <2>1 DEF RunnerRuns, NoneActive, Active
<1>4. RunsStay
  BY <1>0, RunsKept
<1>5. Recoveries' = Recoveries /\ \A i \in Recoveries' : ~Active(i)'
  <2>1. at' # at
    BY DEF Post, Ends
  <2>2. Recoveries' = Recoveries
    BY <1>0, <1>1, <2>1, OwnRunsGrow DEF drillVars
  <2> QED BY <1>2, <1>4, <2>2 DEF RunsStay, Recoveries
<1>6. RecoveryEnvironment'
  BY <1>1, <1>2 DEF RecoveryEnvironment
<1>7. PlainRecovery'
  BY <1>1, <1>5, <1>6 DEF PlainRecovery
<1>8. \A r \in Returns' : ~Passed(r)'
  <2> SUFFICES ASSUME NEW r \in Returns', Passed(r)' PROVE FALSE
    OBVIOUS
  <2>1. r \in DOMAIN runs' /\ runs'[r].workflow = "return" /\ runs'[r].actor = "bot"
    BY DEF Returns, Of
  <2>2. r \in DOMAIN runs
    BY <1>0, <2>1, PassesDo
  <2> QED BY <1>2, <1>4, <2>1, <2>2 DEF RunsStay, Returns, Of
<1>9. returned' # "passed" /\ ~restarted' /\ at' # "restart"
  BY <1>1 DEF Post, Ends, Recorded, Returning, Skipped
<1>10. PlainReturn'
  BY <1>1, <1>3, <1>6, <1>8, <1>9 DEF PlainReturn
<1> QED BY <1>7, <1>10

\* A recovery starts while the drill waits for it: it is the first one, and nothing
\* of another run is left.
LEMMA PlainDispatch ==
  ASSUME DrillTypes, WatchdogTypeOK, Recorded, Recorded', Noted, OnlyOwnRuns, ReturnOnce, ReturnOnce', RunnerRuns,
         WatchdogActs, Dispatch, Plain, PlainRecovery, Plain'
  PROVE  PlainRecovery' /\ PlainReturn'
<1> DEFINE new == Len(runs) + 1
<1>0. /\ UNCHANGED <<onRecovery, stored, runner, drillVars>>
      /\ runs' = Dispatched("recover", "bot") /\ Len(runs) \in Nat
  BY DEF WatchdogActs, Dispatch, serviceVars, systemVars, WatchdogTypeOK
<1>1. /\ new \in DOMAIN runs' /\ runs'[new].workflow = "recover" /\ runs'[new].actor = "bot"
      /\ DOMAIN runs = 1..Len(runs) /\ Follows(runs')
  BY <1>0, NewRun DEF Workflow, Actor, WatchdogTypeOK
<1>2. new \in Recoveries'
  <2>1. new > guarded
    BY <1>0 DEF Noted, DrillTypes
  <2> QED BY <1>0, <1>1, <2>1 DEF Recoveries, Automatic, drillVars
<1>3. new \notin DOMAIN runs
  BY <1>0, <1>1
<1>4. at \notin Closing
  <2>1. new \notin taken
    BY <1>3 DEF DrillTypes, Of
  <2> QED BY <1>0, <1>2, <2>1 DEF Plain, drillVars
<1>5. Recoveries = {}
  <2> SUFFICES ASSUME NEW i \in Recoveries PROVE FALSE
    OBVIOUS
  <2>1. i \in Recoveries'
    BY <1>0, <1>1 DEF Recoveries, Automatic, Follows, drillVars
  <2> QED BY <1>2, <1>3, <2>1 DEF Plain, Recoveries
<1>6. Returns = {}
  BY <1>4 DEF ReturnOnce, Closing, Returning
<1>7. runner = {}
  <2>1. NoneActive
    BY <1>5, <1>6, NoOtherRuns DEF Plain
  <2> QED BY <2>1 DEF RunnerRuns, NoneActive, Active
<1>8. ~onRecovery /\ stored.started # "after"
  BY <1>5 DEF PlainRecovery
<1>9. at' \notin Closing
  BY <1>0, <1>4 DEF drillVars
<1>10. PlainRecovery'
  BY <1>0, <1>2, <1>7, <1>8, <1>9 DEF PlainRecovery
<1>11. PlainReturn'
  BY <1>9 DEF Closing, Returning, Recorded, ReturnOnce, PlainReturn
<1> QED BY <1>10, <1>11

\* The recovery goes on: it moves the name with the resources that its run state
\* records, and leaves it in the bucket.
LEMMA PlainRecovers ==
  ASSUME DrillTypes, WatchdogTypeOK, Recorded', Noted, OnlyOwnRuns, ReturnOnce, ReturnOnce',
         Plain, PlainRecovery, Plain', RunsStay, UNCHANGED <<at, guarded, since>>,
         NEW k \in Recoveries, runs[k].status = "running", runs[k].workflow = "recover",
         \/ Pull
         \/ Apply \/ Provisioned \/ Fence
         \/ Move(k)
         \/ \E s \in {"success", "failure"} : EndRun(k, s)
  PROVE  PlainRecovery' /\ PlainReturn'
<1>0. k \in DOMAIN runs /\ Active(k)
  BY DEF Recoveries, Active
<1>1. at \notin Closing /\ isolated /\ Recoveries = {k}
  BY <1>0 DEF PlainRecovery, Plain
<1>2. Returns = {}
  BY <1>1 DEF ReturnOnce, Closing, Returning
<1>3. at' \notin Closing
  BY <1>1
<1>4. PlainReturn'
  BY <1>3 DEF Closing, Returning, Recorded, ReturnOnce, PlainReturn
<1>5. /\ stored.started # "after"
      /\ runner = {} => ~onRecovery
      /\ \A state \in runner : state.started = "after" /\ (onRecovery => state.reached = "fenced")
  BY <1>0 DEF PlainRecovery
<1>6. ASSUME runs' = runs, stored' = stored, runner' # {},
             \A state \in runner' : state.started = "after" /\ (onRecovery' => state.reached = "fenced")
      PROVE  PlainRecovery'
  <2>1. Recoveries' = {k} /\ Active(k)'
    BY <1>0, <1>1, <1>6 DEF Recoveries, Automatic, Active
  <2> QED BY <1>3, <1>5, <1>6, <2>1 DEF PlainRecovery
<1>7. CASE Pull
  <2>1. Running("return") = {}
    BY <1>2, ActiveIsOwn DEF Running, Of, Active
  <2>2. PICK i \in Running("recover"), reset \in BOOLEAN :
          /\ Automatic(i) => reset
          /\ runner' = {IF reset \/ stored.started = "never"
                        THEN [started |-> IF isolated THEN "after" ELSE "before", reached |-> "begun"]
                        ELSE stored}
    BY <1>7, <2>1 DEF Pull
  <2>3. Automatic(i)
    BY <1>2, ActiveIsOwn DEF Running, Of, Active
  <2>4. runner' = {[started |-> "after", reached |-> "begun"]}
    BY <1>1, <2>2, <2>3
  <2>5. ~onRecovery /\ UNCHANGED <<runs, stored, onRecovery>>
    BY <1>5, <1>7 DEF Pull, watchdogVars
  <2> QED BY <1>4, <1>6, <2>4, <2>5
<1>8. CASE Apply
  BY <1>4, <1>5, <1>6, <1>8 DEF Apply, watchdogVars
<1>9. CASE Provisioned \/ Fence
  <2>1. PICK state \in runner :
          /\ state.reached \in {"begun", "provisioned"}
          /\ \/ runner' = {[state EXCEPT !.reached = "provisioned"]}
             \/ runner' = {[state EXCEPT !.reached = "fenced"]}
    BY <1>9 DEF Provisioned, Fence
  <2>2. state \in RunState
    BY DEF DrillTypes
  <2>3. ~onRecovery /\ UNCHANGED <<runs, stored, onRecovery>>
    BY <1>5, <1>9, <2>1 DEF Provisioned, Fence, Quiet, watchdogVars
  <2> QED BY <1>4, <1>5, <1>6, <2>1, <2>2, <2>3 DEF RunState
<1>10. CASE Move(k)
  <2>1. UNCHANGED <<runs, stored, runner>>
    BY <1>10 DEF Move, MoveName, systemVars
  <2>2. runner # {} /\ \A state \in runner : state.reached = "fenced"
    BY <1>10 DEF Move, DrillTypes, One
  <2> QED BY <1>4, <1>5, <1>6, <2>1, <2>2
<1>11. ASSUME NEW s \in {"success", "failure"}, EndRun(k, s) PROVE PlainRecovery'
  <2>1. RunEnds(k, s) /\ runner' = {}
    BY <1>0, <1>11, EndDoes
  <2>2. runs' = Ended(k, s) /\ onRecovery' = onRecovery
    BY <2>1 DEF RunEnds, serviceVars
  <2>3. DOMAIN runs' = DOMAIN runs /\ ~Active(k)'
    BY <1>0, <2>2, EndPassesOne
  <2>4. Recoveries' = {k}
    BY <1>1, <2>3 DEF Recoveries, RunsStay
  <2>5. onRecovery => RecoveryEnvironment'
    <3>1. ~misled'
      BY DEF Plain
    <3> QED BY <1>0, <1>5, <1>11, <3>1, EndDoes DEF RecoveryEnvironment
  <2> QED BY <1>3, <2>2, <2>3, <2>4, <2>5 DEF PlainRecovery
<1> QED BY <1>4, <1>7, <1>8, <1>9, <1>10, <1>11

\* The return goes on: it forgets the environment once the VMs serve, and passes
\* when nothing is left to forget.
LEMMA PlainReturns ==
  ASSUME DrillTypes, WatchdogTypeOK, Noted, OnlyOwnRuns, ReturnOnce,
         Plain, PlainRecovery, PlainReturn, Plain', RunsStay,
         UNCHANGED <<at, guarded, since, restarted, returned>>,
         NEW k \in Returns, runs[k].status = "running",
         \/ Pull
         \/ StartPrimary \/ Remove
         \/ Move(k)
         \/ \E s \in {"success", "failure"} : EndRun(k, s)
  PROVE  PlainRecovery' /\ PlainReturn'
<1>0. k \in DOMAIN runs /\ Active(k) /\ ~Passed(k) /\ runs[k].workflow = "return"
  BY DEF Returns, Of, Active, Passed
<1>1. at \in {"lookup", "await", "done"} /\ Returns = {k}
  BY DEF ReturnOnce
<1>2. \A i \in Recoveries : ~Active(i)
  BY <1>1 DEF PlainRecovery, Closing, Returning
<1>3. RecoveryEnvironment /\ \A state \in runner : state.reached = "begun" => vms /\ ~onRecovery
  BY <1>0 DEF PlainReturn
<1>4. Recoveries # {}
  BY <1>3 DEF PlainRecovery, RecoveryEnvironment
<1>5. ~restarted /\ returned # "passed"
  <2>1. ~restarted
    BY <1>0 DEF PlainReturn, NoneActive
  <2> QED BY <1>0, <1>1, <2>1 DEF PlainReturn
<1>6. DOMAIN runs' = DOMAIN runs
  <2>1. CASE runs' = runs
    BY <2>1
  <2>2. ASSUME NEW s \in {"success", "failure"}, EndRun(k, s) PROVE DOMAIN runs' = DOMAIN runs
    <3>1. runs' = Ended(k, s)
      BY <2>2 DEF EndRun, RunEnds
    <3> QED BY <1>0, <3>1, EndPassesOne
  <2> QED BY <2>1, <2>2 DEF Pull, StartPrimary, Remove, Move, MoveName, Quiet, watchdogVars
<1>7. Recoveries' = Recoveries /\ Returns' = {k}
  BY <1>1, <1>6 DEF RunsStay, Recoveries, Returns, Of
<1>8. \A i \in Recoveries' : ~Active(i)'
  BY <1>2, <1>7 DEF RunsStay, Recoveries
<1>9. PlainRecovery'
  BY <1>4, <1>7, <1>8 DEF PlainRecovery
<1>10. ASSUME /\ Active(k)' => /\ RecoveryEnvironment'
                               /\ \A state \in runner' : state.reached = "begun" => vms' /\ ~onRecovery'
              /\ Passed(k)' => vms' /\ ~onRecovery'
       PROVE  PlainReturn'
  BY <1>1, <1>5, <1>7, <1>10 DEF PlainReturn
<1>11. ASSUME runs' = runs, stored' = stored,
              \A state \in runner' : state.reached = "begun" => vms' /\ ~onRecovery'
       PROVE  PlainReturn'
  BY <1>0, <1>3, <1>10, <1>11 DEF Passed, RecoveryEnvironment
<1>12. CASE Pull
  <2>1. Running("recover") = {}
    <3> SUFFICES ASSUME NEW i \in Running("recover") PROVE FALSE
      OBVIOUS
    <3>1. i \in DOMAIN runs /\ Active(i) /\ runs[i].workflow = "recover"
      BY DEF Running, Of, Active
    <3> QED BY <1>2, <3>1, ActiveIsOwn
  <2>2. runner' = {stored} /\ UNCHANGED <<runs, stored>>
    BY <1>12, <2>1 DEF Pull, watchdogVars
  <2> QED BY <1>3, <1>9, <1>11, <2>2 DEF RecoveryEnvironment
<1>13. CASE StartPrimary
  <2>1. UNCHANGED <<runs, stored, runner>>
    BY <1>13 DEF StartPrimary
  <2>2. \A state \in runner : state.reached # "begun"
    BY <1>13 DEF StartPrimary, DrillTypes, One
  <2> QED BY <1>9, <1>11, <2>1, <2>2
<1>14. CASE Remove
  BY <1>9, <1>11, <1>14 DEF Remove, watchdogVars
<1>15. CASE Move(k)
  <2>1. UNCHANGED <<runs, stored, runner>>
    BY <1>15 DEF Move, MoveName, systemVars
  <2>2. \A state \in runner : state.reached # "begun"
    BY <1>0, <1>15 DEF Move, DrillTypes, One
  <2> QED BY <1>9, <1>11, <2>1, <2>2
<1>16. ASSUME NEW s \in {"success", "failure"}, EndRun(k, s) PROVE PlainReturn'
  <2>1. RunEnds(k, s) /\ UNCHANGED vms
    BY <1>0, <1>16, EndDoes
  <2>2. runs' = Ended(k, s) /\ onRecovery' = onRecovery
    BY <2>1 DEF RunEnds, serviceVars
  <2>3. ~Active(k)' /\ (Passed(k)' => s = "success")
    BY <1>0, <2>2, EndPassesOne
  <2>4. s = "success" => vms /\ ~onRecovery
    <3>1. s = "success" => NoRunState \in runner
      BY <1>0, <1>16, EndDoes DEF On
    <3> QED BY <1>3, <3>1 DEF NoRunState
  <2> QED BY <1>10, <2>1, <2>2, <2>3, <2>4
<1> QED BY <1>9, <1>12, <1>13, <1>14, <1>15, <1>16

\* What nothing misled stays so, whatever the step.
LEMMA PlainKept ==
  ASSUME DrillTypes, WatchdogTypeOK, Recorded, Recorded', Noted, OnlyOwnRuns, ReturnOnce, ReturnOnce', RunnerRuns,
         NotAfter, PlainInv, Alone', [DrillNext]_vars
  PROVE  PlainInv'
<1> SUFFICES ASSUME Plain' PROVE PlainRecovery' /\ PlainReturn'
  BY DEF PlainInv
<1>1. CASE Guard
  BY <1>1, PlainGuard
<1>2. CASE ~Guard
  <2>0. Plain /\ PlainRecovery /\ PlainReturn /\ RunsStay
    BY <1>2, PlainBefore, RunsKept DEF PlainInv
  <2>1. CASE DrillStays
    BY <1>2, <2>0, <2>1, PlainDrill
  <2>2. CASE Post
    BY <2>0, <2>2, PlainPost
  <2>3. ASSUME UNCHANGED <<at, guarded, since, taken, restarted, failed, returned, runs, vms, stored, runner, onRecovery>>
        PROVE  PlainRecovery' /\ PlainReturn'
    <3>1. Recoveries' = Recoveries /\ Returns' = Returns /\ RecoveryEnvironment' = RecoveryEnvironment
      BY <2>3 DEF Recoveries, Returns, Of, Automatic, RecoveryEnvironment
    <3>2. PlainRecovery'
      BY <2>0, <2>3, <3>1 DEF PlainRecovery, Active
    <3>3. PlainReturn'
      BY <2>0, <2>3, <3>1 DEF PlainReturn, Active, Passed, NoneActive
    <3> QED BY <3>2, <3>3
  <2>4. CASE UNCHANGED vars
    BY <2>3, <2>4 DEF vars, watchdogVars, systemVars, drillVars
  <2>5. CASE SystemActs
    <3>1. UNCHANGED <<at, guarded, since, taken, restarted, failed, returned, dispatch>> /\ at # "guard"
         /\ ~Person
      BY <2>0, <2>5, SystemDoes, AloneNoPerson DEF Plain
    <3>2. CASE UNCHANGED <<runs, vms, env, stored, runner, onRecovery>>
      BY <2>3, <3>1, <3>2
    <3>3. CASE WatchdogActs /\ Dispatch
      BY <2>0, <3>3, PlainDispatch
    <3>4. ASSUME NEW k \in DOMAIN runs, runs[k].status = "running",
                 \/ Pull
                 \/ runs[k].workflow = "recover" /\ (Apply \/ Provisioned \/ Fence)
                 \/ runs[k].workflow = "return" /\ (StartPrimary \/ Remove)
                 \/ Move(k)
                 \/ \E s \in {"success", "failure"} : EndRun(k, s)
          PROVE  PlainRecovery' /\ PlainReturn'
      <4>1. \/ k \in Recoveries /\ runs[k].workflow = "recover"
            \/ k \in Returns /\ runs[k].workflow = "return"
        BY <2>0, <3>4, ActiveIsOwn DEF Active
      <4>2. CASE k \in Recoveries /\ runs[k].workflow = "recover"
        BY <2>0, <3>1, <3>4, <4>2, PlainRecovers
      <4>3. CASE k \in Returns /\ runs[k].workflow = "return"
        BY <2>0, <3>1, <3>4, <4>3, PlainReturns
      <4> QED BY <4>1, <4>2, <4>3
    <3> QED BY <2>5, <3>1, <3>2, <3>3, <3>4, SystemKinds
  <2> QED BY <2>1, <2>2, <2>4, <2>5, Steps
<1> QED BY <1>1, <1>2

-----------------------------------------------------------------------------
(* The invariant, and what it says of a drill that is done. *)

\* Before the guard nothing has happened.
LEMMA DrillStart ==
  ASSUME DrillInit
  PROVE  DrillInv
<1>0. WatchdogInv /\ runs = <<>>
  BY WatchdogStart DEF DrillInit, Init
<1>1. Len(runs) = 0 /\ DOMAIN runs = {}
  BY <1>0
<1>2. Recoveries = {} /\ Returns = {} /\ NoneActive
  BY <1>1 DEF Recoveries, Returns, Of, NoneActive
<1>3. NoRunState \in RunState /\ NoRunState.started = "never"
  BY DEF NoRunState, RunState
<1>4. vms \in BOOLEAN /\ env \in BOOLEAN /\ restarted \in BOOLEAN /\ misled \in BOOLEAN
  BY Zenon DEF DrillInit
<1>5. DrillTypes
  BY <1>3, <1>4, MaxRunsAssumption DEF DrillInit, DrillTypes, DrillStep, One, DispatchAttempts
<1>6. ConfirmedLate
  BY DEF DrillInit, Init, ConfirmedLate
<1>7. Recorded /\ Noted
  BY <1>1 DEF DrillInit, Recorded, Noted, Returning
<1>8. GuardedEnded /\ RunnerRuns /\ NotAfter /\ OlderNotBeside
  BY <1>3 DEF DrillInit, GuardedEnded, RunnerRuns, NotAfter, OlderNotBeside
<1>9. ReturnOnce /\ LateStates /\ SettlesOncePassed
  BY <1>2 DEF DrillInit, ReturnOnce, LateStates, SettlesOncePassed
<1>10. SeenPassed /\ ReturnsToWorkflow /\ PlainInv
  BY DEF DrillInit, SeenPassed, ReturnsToWorkflow, PlainInv, Plain, Returning
<1> QED BY <1>0, <1>5, <1>6, <1>7, <1>8, <1>9, <1>10 DEF DrillInv

\* Every step keeps it.
LEMMA DrillStepKeeps ==
  ASSUME DrillInv, [DrillNext]_vars
  PROVE  DrillInv'
<1> USE DEF DrillInv
<1>0. WatchdogTypeOK
  BY DEF WatchdogInv
<1>1. DrillTypes' /\ WatchdogInv' /\ ConfirmedLate'
  BY TypesKept, WatchdogGoesOn, ConfirmedLateKept
<1>2. Recorded' /\ Noted'
  BY <1>0, RecordedKept, NotedKept
<1>3. GuardedEnded' /\ ReturnOnce'
  BY <1>0, GuardedEndedKept, ReturnOnceKept
<1>4. RunnerRuns' /\ NotAfter' /\ OlderNotBeside' /\ LateStates' /\ SeenPassed'
  BY <1>0, RunnerRunsKept, NotAfterKept, OlderNotBesideKept, LateStatesKept, SeenPassedKept
<1>5. ASSUME Alone' PROVE SettlesOncePassed' /\ ReturnsToWorkflow' /\ PlainInv'
  <2>1. OnlyOwnRuns /\ SettlesOncePassed /\ ReturnsToWorkflow /\ PlainInv
    BY <1>0, <1>5, AloneBefore DEF OnlyOwnRuns
  <2>2. SettlesOncePassed' /\ ReturnsToWorkflow'
    BY <1>0, <1>5, <2>1, SettlesOncePassedKept, ReturnsToWorkflowKept
  <2>3. PlainInv'
    BY <1>0, <1>2, <1>3, <1>5, <2>1, PlainKept
  <2> QED BY <2>2, <2>3
<1> QED BY <1>1, <1>2, <1>3, <1>4, <1>5

\* The inductive invariant of the drill beside the watchdog and the runs
\* (scripts/drill.py, scripts/watchdog.py).
THEOREM DrillInvariant == DrillSpec => []DrillInv
<1>1. DrillInit => DrillInv
  BY DrillStart
<1>2. DrillInv /\ [DrillNext]_vars => DrillInv'
  BY DrillStepKeeps
<1> QED BY <1>1, <1>2, PTL DEF DrillSpec

\* The state keeps its types: at most one run state on a runner, one isolation and
\* one recovery that the wait took.
THEOREM DrillTypeCorrect == DrillSpec => []DrillTypeOK
<1>1. DrillInv => DrillTypeOK
  BY OneCardinality DEF DrillInv, DrillTypes, WatchdogInv, DrillTypeOK
<1> QED BY <1>1, DrillInvariant, PTL

\* Whatever becomes of its dispatches, a drill has made one return at most
\* (dispatch_return).
THEOREM OneReturnOnly == DrillSpec => []OneReturn
<1>1. DrillInv => OneReturn
  <2> SUFFICES ASSUME DrillInv PROVE OneReturn
    OBVIOUS
  <2>1. One(Returns)
    BY DEF DrillInv, ReturnOnce, One
  <2>2. Returns = {i \in Of("return") : runs[i].actor = "bot"}
    BY DEF Returns
  <2> QED BY <2>1, <2>2, OneCardinality DEF OneReturn
<1> QED BY <1>1, DrillInvariant, PTL

\* A drill that passed has seen its recovery pass and its return pass after it, but
\* when a read or a listing failed (main, outcome).
THEOREM PassedRecovered == DrillSpec => []PassedMeansRecovered
<1>1. DrillInv => PassedMeansRecovered
  <2> SUFFICES ASSUME DrillInv, at = "done", Outcome = "passed", ~misled, NobodyActed
               PROVE  /\ \E i \in taken, n \in since : i > n /\ runs[i].status = "success"
                      /\ \E i \in Of("return") : runs[i].status = "success" /\ \A j \in taken : j < i
    BY DEF PassedMeansRecovered
  <2>1. failed = "none" /\ returned = "passed"
    BY DEF Outcome
  <2>2. \E i \in taken, n \in since : i > n /\ Passed(i)
    BY <2>1 DEF DrillInv, SeenPassed
  <2>3. PICK r \in Returns : Passed(r)
    BY <2>1 DEF DrillInv, ReturnsToWorkflow, NobodyActed, Alone
  <2>4. r \in Of("return") /\ \A j \in taken : j < r
    BY DEF DrillInv, ReturnOnce, Returns
  <2> QED BY <2>2, <2>3, <2>4 DEF Passed
<1> QED BY <1>1, DrillInvariant, PTL

\* Whichever step failed, a drill that isolated the primary ends on it, unless it
\* reported a failed return, was misled or did not wait for a recovery.
THEOREM EndsOnPrimary == DrillSpec => []DrillEndsOnPrimary
<1>1. DrillInv => DrillEndsOnPrimary
  <2> SUFFICES ASSUME DrillInv, at = "done", isolated, returned # "failed", ~misled, OtherStarts = {},
                      NobodyActed
               PROVE  vms /\ ~onRecovery
    BY DEF DrillEndsOnPrimary
  <2>1. Recoveries \subseteq taken
    BY DEF OtherStarts, Recoveries, Of, Automatic
  <2>2. Plain
    <3>1. failed # "guard"
      BY DEF DrillInv, Recorded, isolated
    <3>2. \A i \in Recoveries : \A n \in since : i > n
      BY <2>1 DEF DrillInv, Recorded
    <3>3. \A i, j \in Recoveries : i = j
      BY <2>1 DEF DrillInv, DrillTypes, One
    <3> QED BY <2>1, <3>1, <3>2, <3>3 DEF Plain
  <2>3. PlainReturn
    BY <2>2 DEF DrillInv, PlainInv, NobodyActed, Alone
  <2>4. restarted \/ returned = "passed"
    <3>1. returned \in {"skipped", "passed"}
      BY DEF DrillInv, DrillTypes, Recorded
    <3> QED BY <3>1 DEF DrillInv, Recorded, Skipped
  <2> QED BY <2>3, <2>4 DEF PlainReturn
<1> QED BY <1>1, DrillInvariant, PTL

\* The drill's own return never removes what a recovery begun before the isolation
\* built, whoever dispatches what and whenever (recovery_environment, return_).
THEOREM OnlyItsOwnRemoved == DrillSpec => RemovesOnlyItsOwn
<1>1. DrillInv /\ [DrillNext]_vars =>
        [\A i \in Running("return") :
           (runs[i].actor = "bot" /\ env /\ ~env') => \A state \in runner : state.started # "before"]_vars
  <2> SUFFICES ASSUME DrillInv, [DrillNext]_vars, NEW i \in Running("return"), runs[i].actor = "bot", env, ~env'
               PROVE  \A state \in runner : state.started # "before"
    OBVIOUS
  <2>1. i \in Returns
    BY DEF Running, Returns, Of
  <2> QED BY <2>1 DEF DrillInv, LateStates
<1> QED BY <1>1, DrillInvariant, PTL DEF DrillSpec, RemovesOnlyItsOwn
=============================================================================
