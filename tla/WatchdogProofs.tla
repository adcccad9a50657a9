---------------------------- MODULE WatchdogProofs ----------------------------
(***************************************************************************)
(* Proofs about Watchdog for any number of runs: automatic starts never     *)
(* overlap, and a failed one is not retried without a person or a return.   *)
(***************************************************************************)
EXTENDS Watchdog, TLAPS

\* What follows run b and lets the watchdog start again.
WaitIsOver(b) ==
  \E j \in DOMAIN runs :
    /\ j > b
    /\ \/ runs[j].workflow = "recover" /\ runs[j].actor = "person"
       \/ runs[j].workflow = "return" /\ runs[j].status = "success"

\* After the first listing, no automatic start is active.
ListedNoneActive ==
  step \in {"returns", "checkers", "dispatch"} => \A i \in DOMAIN runs : Automatic(i) => ~Active(i)

\* After the first listing, a failed start is remembered unless a person
\* started a recovery since. After the second one its wait is over.
FailedStartKnown ==
  /\ step = "returns" => \A b \in LastFailed : b \in failedStart \/ WaitIsOver(b)
  /\ step \in {"checkers", "dispatch"} => \A b \in LastFailed : WaitIsOver(b)

WatchdogInv == WatchdogTypeOK /\ OneAutomaticRun /\ ListedNoneActive /\ FailedStartKnown

\* A step of GitHub keeps who made which run, and what a run ended with; no
\* run that ended becomes active.
Follows(new) ==
  \A i \in DOMAIN runs :
    /\ i \in DOMAIN new
    /\ new[i] \in Run
    /\ new[i].workflow = runs[i].workflow
    /\ new[i].actor = runs[i].actor
    /\ runs[i].status \in {"success", "failure"} => new[i].status = runs[i].status

-----------------------------------------------------------------------------
\* A dispatch appends one active run.
LEMMA DispatchedRuns ==
  ASSUME WatchdogTypeOK, NEW w \in Workflow, NEW a \in Actor
  PROVE  LET new == Dispatched(w, a) IN
         /\ new \in Seq(Run)
         /\ Len(new) = Len(runs) + 1
         /\ DOMAIN new = DOMAIN runs \cup {Len(runs) + 1}
         /\ new[Len(runs) + 1].workflow = w
         /\ new[Len(runs) + 1].actor = a
         /\ Follows(new)
<1> DEFINE others == [i \in DOMAIN runs |->
                        IF runs[i].status = "pending" THEN [runs[i] EXCEPT !.status = "failure"] ELSE runs[i]]
           status == IF \E i \in DOMAIN runs : runs[i].status = "running" THEN "pending" ELSE "running"
           last == [workflow |-> w, actor |-> a, status |-> status]
<1>1. runs \in Seq(Run) /\ \A i \in DOMAIN runs : runs[i] \in Run
  BY DEF WatchdogTypeOK
<1>2. \A i \in DOMAIN runs : others[i] \in Run
  BY <1>1 DEF Run, Status
<1>3. others \in Seq(Run) /\ Len(others) = Len(runs) /\ DOMAIN others = DOMAIN runs
  BY <1>1, <1>2
<1>4. status \in Status
  BY DEF Status
<1>5. last \in Run
  BY <1>4 DEF Run
<1>6. Dispatched(w, a) = Append(others, last)
  BY DEF Dispatched
<1>7. /\ Append(others, last) \in Seq(Run)
      /\ Len(Append(others, last)) = Len(runs) + 1
      /\ DOMAIN Append(others, last) = DOMAIN runs \cup {Len(runs) + 1}
      /\ Append(others, last)[Len(runs) + 1] = last
      /\ \A i \in DOMAIN runs : Append(others, last)[i] = others[i]
  <2> HIDE DEF others, last
  <2> QED BY <1>1, <1>3, <1>5
<1>8. \A i \in DOMAIN runs :
        /\ others[i].workflow = runs[i].workflow
        /\ others[i].actor = runs[i].actor
        /\ runs[i].status \in {"success", "failure"} => others[i].status = runs[i].status
  BY <1>1 DEF Run
<1>9. last.workflow = w /\ last.actor = a
  OBVIOUS
<1> HIDE DEF others, last
<1> QED BY <1>2, <1>6, <1>7, <1>8, <1>9 DEF Follows

\* The end of a run starts the pending one.
LEMMA EndedRuns ==
  ASSUME WatchdogTypeOK, NEW i \in DOMAIN runs, runs[i].status = "running",
         NEW s \in {"success", "failure"}
  PROVE  LET new == Ended(i, s) IN
         /\ new \in Seq(Run)
         /\ Len(new) = Len(runs)
         /\ DOMAIN new = DOMAIN runs
         /\ Follows(new)
<1> DEFINE new == Ended(i, s)
<1>1. runs \in Seq(Run) /\ \A j \in DOMAIN runs : runs[j] \in Run
  BY DEF WatchdogTypeOK
<1>2. \A j \in DOMAIN runs :
        /\ new[j] \in Run
        /\ new[j].workflow = runs[j].workflow
        /\ new[j].actor = runs[j].actor
        /\ runs[j].status \in {"success", "failure"} => new[j].status = runs[j].status
  <2> SUFFICES ASSUME NEW j \in DOMAIN runs
               PROVE  /\ new[j] \in Run
                      /\ new[j].workflow = runs[j].workflow
                      /\ new[j].actor = runs[j].actor
                      /\ runs[j].status \in {"success", "failure"} => new[j].status = runs[j].status
    OBVIOUS
  <2>1. CASE j = i
    BY <1>1, <2>1 DEF Ended, Run, Status
  <2>2. CASE j # i /\ runs[j].status = "pending"
    BY <1>1, <2>2 DEF Ended, Run, Status
  <2>3. CASE j # i /\ runs[j].status # "pending"
    BY <1>1, <2>3 DEF Ended, Run, Status
  <2> QED BY <2>1, <2>2, <2>3
<1>3. new \in [DOMAIN runs -> Run]
  BY <1>2 DEF Ended
<1>4. DOMAIN runs = 1..Len(runs) /\ Len(runs) \in Nat
  BY <1>1
<1>5. new \in Seq(Run) /\ Len(new) = Len(runs) /\ DOMAIN new = DOMAIN runs
  <2> HIDE DEF new
  <2> QED BY <1>3, <1>4
<1> QED BY <1>2, <1>5 DEF Follows

\* Steps that make no automatic start keep what the listings found.
LEMMA FollowingKeeps ==
  ASSUME WatchdogInv, Follows(runs'), UNCHANGED jobVars,
         \A i \in DOMAIN runs' \ DOMAIN runs : ~Automatic(i)'
  PROVE  OneAutomaticRun' /\ ListedNoneActive' /\ FailedStartKnown'
<1>1. \A i \in DOMAIN runs : runs[i] \in Run
  BY DEF WatchdogInv, WatchdogTypeOK
<1>2. \A i \in DOMAIN runs' : Automatic(i)' => i \in DOMAIN runs /\ Automatic(i)
  BY DEF Automatic, Follows
<1>3. \A i \in DOMAIN runs : Automatic(i) => i \in DOMAIN runs' /\ Automatic(i)'
  BY DEF Automatic, Follows
<1>4. \A i \in DOMAIN runs : Active(i)' => Active(i)
  BY <1>1 DEF Active, Follows, Run, Status
<1>5. OneAutomaticRun'
  BY <1>2, <1>4 DEF OneAutomaticRun, WatchdogInv
<1>6. ListedNoneActive'
  BY <1>2, <1>4 DEF ListedNoneActive, WatchdogInv, jobVars
<1>7. \A b \in DOMAIN runs : WaitIsOver(b) => WaitIsOver(b)'
  BY DEF WaitIsOver, Follows
<1>8. step \in {"returns", "checkers", "dispatch"} => LastFailed' \subseteq LastFailed
  <2> SUFFICES ASSUME step \in {"returns", "checkers", "dispatch"}, NEW b \in LastFailed'
               PROVE  b \in LastFailed
    OBVIOUS
  <2>1. b \in DOMAIN runs /\ Automatic(b)
    BY <1>2 DEF LastFailed
  <2>2. runs[b].status = "failure"
    BY <1>1, <2>1 DEF WatchdogInv, ListedNoneActive, Active, Follows, LastFailed, Run, Status
  <2>3. \A j \in DOMAIN runs : Automatic(j) => j <= b
    BY <1>3 DEF LastFailed
  <2> QED BY <2>1, <2>2, <2>3 DEF LastFailed
<1>9. \A b \in LastFailed : b \in DOMAIN runs
  BY DEF LastFailed
<1>10. FailedStartKnown'
  BY <1>7, <1>8, <1>9 DEF FailedStartKnown, WatchdogInv, jobVars
<1> QED BY <1>5, <1>6, <1>10

\* The first listing establishes what the dispatch relies on.
LEMMA ListRecoversFinds ==
  ASSUME WatchdogInv, ListRecovers
  PROVE  WatchdogInv'
<1> USE DEF ListRecovers, Enter, serviceVars
<1>1. runs' = runs /\ step' = "returns"
  OBVIOUS
<1>2. \A i \in DOMAIN runs : runs[i] \in Run
  BY DEF WatchdogInv, WatchdogTypeOK
<1>3. WatchdogTypeOK'
  BY DEF WatchdogInv, WatchdogTypeOK, Step, Newest, Of
<1>4. OneAutomaticRun'
  BY DEF WatchdogInv, OneAutomaticRun, Automatic, Active
<1>5. ListedNoneActive'
  BY DEF ListedNoneActive, Automatic, Active, Of
<1>6. \A b \in LastFailed : b \in failedStart' \/ WaitIsOver(b)
  <2> SUFFICES ASSUME NEW b \in LastFailed PROVE b \in failedStart' \/ WaitIsOver(b)
    OBVIOUS
  <2>1. b \in Of("recover") /\ Automatic(b) /\ runs[b].status # "success"
    BY DEF LastFailed, Automatic, Of
  <2>2. CASE b \in Newest("recover")
    BY <2>1, <2>2
  <2>3. CASE b \notin Newest("recover")
    <3>1. PICK j \in Of("recover") : ~(j <= b)
      BY <2>1, <2>3 DEF Newest
    <3>2. j \in DOMAIN runs /\ ~Automatic(j)
      BY <3>1 DEF LastFailed, Of
    <3>3. runs[j].workflow = "recover" /\ runs[j].actor = "person"
      BY <1>2, <3>1, <3>2 DEF Of, Automatic, Run, Actor
    <3>4. j > b
      BY <3>1, <3>2 DEF LastFailed, WatchdogInv, WatchdogTypeOK
    <3> QED BY <3>2, <3>3, <3>4 DEF WaitIsOver
  <2> QED BY <2>2, <2>3
<1>7. FailedStartKnown'
  BY <1>1, <1>6 DEF FailedStartKnown, LastFailed, WaitIsOver, Automatic
<1> QED BY <1>3, <1>4, <1>5, <1>7 DEF WatchdogInv

\* The second listing goes on only when the wait is over.
LEMMA ListReturnsFinds ==
  ASSUME WatchdogInv, ListReturns
  PROVE  WatchdogInv'
<1> USE DEF ListReturns, serviceVars
<1>1. CASE job = "local" /\ StartJob("confirm")
  BY <1>1 DEF StartJob, WatchdogInv, WatchdogTypeOK, OneAutomaticRun, ListedNoneActive, FailedStartKnown,
              Automatic, Active, Job, Step
<1>2. CASE job = "confirm" /\ Enter("checkers") /\ UNCHANGED failedStart
  <2> USE <1>2 DEF Enter
  <2>1. WatchdogTypeOK'
    BY DEF WatchdogInv, WatchdogTypeOK, Step
  <2>2. OneAutomaticRun' /\ ListedNoneActive'
    BY DEF WatchdogInv, OneAutomaticRun, ListedNoneActive, Automatic, Active
  <2>3. \A b \in LastFailed : WaitIsOver(b)
    BY DEF WatchdogInv, FailedStartKnown, Cleared, WaitIsOver, Of
  <2>4. FailedStartKnown'
    BY <2>3 DEF FailedStartKnown, LastFailed, WaitIsOver, Automatic
  <2> QED BY <2>1, <2>2, <2>4 DEF WatchdogInv
<1> QED BY <1>1, <1>2

\* The dispatch adds the only active automatic start.
LEMMA DispatchKeeps ==
  ASSUME WatchdogInv, Dispatch
  PROVE  WatchdogInv'
<1> USE DEF Dispatch, End, serviceVars
<1>1. /\ runs' \in Seq(Run)
      /\ Len(runs') = Len(runs) + 1
      /\ DOMAIN runs' = DOMAIN runs \cup {Len(runs) + 1}
      /\ Follows(runs')
  BY DispatchedRuns DEF WatchdogInv, Workflow, Actor
<1>2. WatchdogTypeOK'
  <2>1. Len(runs') <= MaxRuns
    BY <1>1, MaxRunsAssumption DEF WatchdogInv, WatchdogTypeOK
  <2> QED BY <1>1, <2>1 DEF WatchdogInv, WatchdogTypeOK, Job, Step
<1>3. \A i \in DOMAIN runs : runs[i] \in Run
  BY DEF WatchdogInv, WatchdogTypeOK
<1>4. \A i \in DOMAIN runs : Automatic(i)' => ~Active(i)'
  BY <1>1, <1>3 DEF WatchdogInv, ListedNoneActive, Automatic, Active, Follows, Run, Status
<1>5. OneAutomaticRun'
  BY <1>1, <1>4 DEF OneAutomaticRun
<1>6. ListedNoneActive' /\ FailedStartKnown'
  BY DEF ListedNoneActive, FailedStartKnown
<1> QED BY <1>2, <1>5, <1>6 DEF WatchdogInv

\* No run was made, and no job has begun.
LEMMA WatchdogStart ==
  ASSUME Init
  PROVE  WatchdogInv
<1>1. runs \in Seq(Run) /\ Len(runs) = 0 /\ DOMAIN runs = {}
  BY DEF Init
<1>2. WatchdogTypeOK
  <2>1. up \in BOOLEAN /\ onRecovery \in BOOLEAN /\ checksFailed \in BOOLEAN /\ switch \in BOOLEAN
    BY Zenon DEF Init
  <2>2. Len(runs) <= MaxRuns
    BY <1>1, MaxRunsAssumption
  <2> QED BY <1>1, <2>1, <2>2 DEF Init, WatchdogTypeOK, Job, Step
<1> QED BY <1>1, <1>2 DEF Init, WatchdogInv, OneAutomaticRun, ListedNoneActive, FailedStartKnown

\* Every step of the watchdog, of the runs and of the service keeps it.
LEMMA WatchdogStep ==
  ASSUME WatchdogInv, [Next]_watchdogVars
  PROVE  WatchdogInv'
<1>1. ASSUME NEW w \in Workflow, PersonDispatches(w) PROVE WatchdogInv'
  <2>1. /\ runs' \in Seq(Run)
        /\ Len(runs') = Len(runs) + 1
        /\ DOMAIN runs' = DOMAIN runs \cup {Len(runs) + 1}
        /\ runs'[Len(runs) + 1].actor = "person"
        /\ Follows(runs')
    BY <1>1, DispatchedRuns DEF PersonDispatches, WatchdogInv, Actor
  <2>2. WatchdogTypeOK'
    <3>1. Len(runs') <= MaxRuns
      BY <1>1, <2>1, MaxRunsAssumption DEF PersonDispatches, WatchdogInv, WatchdogTypeOK
    <3> QED BY <1>1, <2>1, <3>1 DEF PersonDispatches, WatchdogInv, WatchdogTypeOK, serviceVars, jobVars
  <2>3. UNCHANGED jobVars
    BY <1>1 DEF PersonDispatches
  <2>4. \A i \in DOMAIN runs' \ DOMAIN runs : ~Automatic(i)'
    BY <2>1 DEF Automatic
  <2> QED BY <2>1, <2>2, <2>3, <2>4, FollowingKeeps DEF WatchdogInv
<1>2. ASSUME NEW i \in DOMAIN runs, NEW s \in {"success", "failure"}, RunEnds(i, s) PROVE WatchdogInv'
  <2>1. /\ runs' \in Seq(Run)
        /\ Len(runs') = Len(runs)
        /\ DOMAIN runs' = DOMAIN runs
        /\ Follows(runs')
    BY <1>2, EndedRuns DEF RunEnds, WatchdogInv
  <2>2. WatchdogTypeOK'
    BY <1>2, <2>1 DEF RunEnds, WatchdogInv, WatchdogTypeOK, serviceVars, jobVars
  <2>3. UNCHANGED jobVars
    BY <1>2 DEF RunEnds
  <2> QED BY <2>1, <2>2, <2>3, FollowingKeeps DEF WatchdogInv
<1>3. ASSUME \/ \E i \in DOMAIN runs : MoveName(i)
             \/ ServiceChanges \/ CheckersReport \/ TurnSwitch
             \/ UNCHANGED watchdogVars
      PROVE  WatchdogInv'
  <2>1. UNCHANGED <<runs, jobVars>> /\ WatchdogTypeOK'
    BY <1>3 DEF MoveName, ServiceChanges, CheckersReport, TurnSwitch, WatchdogInv, WatchdogTypeOK,
                watchdogVars, serviceVars, jobVars
  <2>2. Follows(runs')
    BY <2>1 DEF Follows, WatchdogInv, WatchdogTypeOK
  <2> QED BY <2>1, <2>2, FollowingKeeps DEF WatchdogInv
<1>4. CASE StartLocal \/ Requests \/ Names \/ NoStart
  BY <1>4 DEF StartLocal, StartJob, Requests, Names, NoStart, End, Enter, serviceVars, WatchdogInv,
              WatchdogTypeOK, OneAutomaticRun, ListedNoneActive, FailedStartKnown, Automatic, Active, Job, Step
<1>5. CASE Checkers
  BY <1>5 DEF Checkers, Enter, serviceVars, WatchdogInv, WatchdogTypeOK, OneAutomaticRun, ListedNoneActive,
              FailedStartKnown, LastFailed, WaitIsOver, Automatic, Active, Step
<1>6. CASE ListRecovers
  BY <1>6, ListRecoversFinds
<1>7. CASE ListReturns
  BY <1>7, ListReturnsFinds
<1>8. CASE Dispatch
  BY <1>8, DispatchKeeps
<1> QED BY <1>1, <1>2, <1>3, <1>4, <1>5, <1>6, <1>7, <1>8 DEF Next, Check

\* The inductive invariant.
THEOREM WatchdogInvariant == Spec => []WatchdogInv
<1>1. Init => WatchdogInv
  BY WatchdogStart
<1>2. WatchdogInv /\ [Next]_watchdogVars => WatchdogInv'
  BY WatchdogStep
<1> QED BY <1>1, <1>2, PTL DEF Spec

\* The runs, the job and its checks keep their types, with any number of runs
\* made by persons and by the watchdog.
THEOREM WatchdogTypeCorrect == Spec => []WatchdogTypeOK
<1>1. WatchdogInv => WatchdogTypeOK
  BY DEF WatchdogInv
<1> QED BY <1>1, WatchdogInvariant, PTL

\* While an automatic start waits or runs, the watchdog makes no other.
THEOREM AutomaticStartsNeverOverlap == Spec => []OneAutomaticRun
<1>1. WatchdogInv => OneAutomaticRun
  BY DEF WatchdogInv
<1> QED BY <1>1, WatchdogInvariant, PTL

\* A failed automatic start is followed by another only after a person started
\* a recovery, or a return made after it passed.
THEOREM FailedStartIsNotRetried == Spec => FailedStartWaits
<1>1. WatchdogInv /\ [Next]_watchdogVars =>
        [Starts => \A b \in LastFailed : WaitIsOver(b)]_watchdogVars
  <2> SUFFICES ASSUME WatchdogInv, Next, Starts PROVE \A b \in LastFailed : WaitIsOver(b)
    OBVIOUS
  <2>1. CASE Dispatch
    BY <2>1 DEF Dispatch, WatchdogInv, FailedStartKnown
  <2>2. ASSUME NEW w \in Workflow, PersonDispatches(w) PROVE FALSE
    BY <2>2, DispatchedRuns DEF PersonDispatches, WatchdogInv, Actor, Starts
  <2>3. ASSUME NEW i \in DOMAIN runs, NEW s \in {"success", "failure"}, RunEnds(i, s) PROVE FALSE
    BY <2>3, EndedRuns DEF RunEnds, WatchdogInv, WatchdogTypeOK, Starts
  <2>4. ASSUME \/ \E i \in DOMAIN runs : MoveName(i)
               \/ ServiceChanges \/ CheckersReport \/ TurnSwitch
               \/ StartLocal \/ Requests \/ Names \/ ListRecovers \/ ListReturns \/ Checkers \/ NoStart
        PROVE  FALSE
    BY <2>4 DEF MoveName, ServiceChanges, CheckersReport, TurnSwitch, StartLocal, StartJob, Requests, Names,
                ListRecovers, ListReturns, Checkers, NoStart, Enter, Starts, WatchdogInv, WatchdogTypeOK
  <2> QED BY <2>1, <2>2, <2>3, <2>4 DEF Next, Check
<1> QED BY <1>1, WatchdogInvariant, PTL DEF Spec, FailedStartWaits, WaitIsOver
===============================================================================
