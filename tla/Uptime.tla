-------------------------------- MODULE Uptime --------------------------------
(***************************************************************************)
(* Condition 1 of scripts/watchdog.py: every checker of the uptime check    *)
(* failed for the whole window. The checkers of Cloud Monitoring probe once *)
(* a period, each at a time of its own, and their results arrive later, in  *)
(* the order of the probes. The watchdog decides at any moment from the     *)
(* results that arrived. A result is kept by its age: the time is always 0. *)
(***************************************************************************)
EXTENDS Naturals, FiniteSets

CONSTANTS
  Checkers,     \* checker locations of the uptime check
  MinCheckers,  \* MIN_CHECKERS
  Window,       \* WINDOW_MINUTES
  Lag,          \* LAG_MINUTES
  Period        \* PERIOD

ASSUME UptimeAssumption ==
  /\ IsFiniteSet(Checkers)
  /\ MinCheckers \in Nat \ {0}
  /\ Window \in Nat /\ Lag \in Nat /\ Period \in Nat \ {0}
  /\ Period <= Lag

VARIABLES
  arrived,  \* arrived[c]: the results of checker c that the query returns
  waiting,  \* waiting[c]: the results of c that have not arrived yet
  idle      \* idle[c]: the time since the last probe of c

uptimeVars == <<arrived, waiting, idle>>

\* The query reaches back this far; older results decide nothing.
Horizon == Window + Lag

Result == [age : 0..Horizon, passed : BOOLEAN]

-----------------------------------------------------------------------------
\* Mutant: no result is ever forgotten.
AgedForever(results) == {[age |-> r.age + 1, passed |-> r.passed] : r \in results}

\* Time passes; results that leave the query's interval are forgotten.
Aged(results) == {[age |-> r.age + 1, passed |-> r.passed] : r \in {s \in results : s.age < Horizon}}

\* No checker is late with its probe, unless it has stopped.
Tick ==
  /\ arrived' = [c \in Checkers |-> Aged(arrived[c])]
  /\ waiting' = [c \in Checkers |-> Aged(waiting[c])]
  /\ idle' = [c \in Checkers |-> IF idle[c] < Period THEN idle[c] + 1 ELSE idle[c]]

\* Checker c probes, a period or more after its last probe.
Probe(c, passed) ==
  /\ idle[c] = Period
  /\ waiting' = [waiting EXCEPT ![c] = @ \cup {[age |-> 0, passed |-> passed]}]
  /\ idle' = [idle EXCEPT ![c] = 0]
  /\ UNCHANGED arrived

\* The oldest result of c that has not arrived does.
Arrive(c) ==
  \E r \in waiting[c] :
    /\ \A s \in waiting[c] : s.age <= r.age
    /\ arrived' = [arrived EXCEPT ![c] = @ \cup {r}]
    /\ waiting' = [waiting EXCEPT ![c] = @ \ {r}]
    /\ UNCHANGED idle

Init ==
  /\ arrived = [c \in Checkers |-> {}]
  /\ waiting = [c \in Checkers |-> {}]
  /\ idle \in [Checkers -> 0..Period]

Next ==
  \/ Tick
  \/ \E c \in Checkers : Arrive(c) \/ \E passed \in BOOLEAN : Probe(c, passed)

Spec == Init /\ [][Next]_uptimeVars

-----------------------------------------------------------------------------
\* The checkers that the query returns a series of.
Series == {c \in Checkers : arrived[c] # {}}

\* Mutant: the window alone, without the period before it.
PointsOfWindow(c) == {r \in arrived[c] : r.age <= Window}

\* Every result from one period before the window on.
Points(c) == {r \in arrived[c] : r.age <= Window + Period}

\* Mutant: the newest result may be of any age.
FailedSinceWindow(c) ==
  /\ Points(c) # {}
  /\ \A r \in Points(c) : ~r.passed
  /\ \E r \in Points(c) : r.age >= Window

\* Checker c failed for the whole window: no result passed, the oldest is at or
\* before the start of the window and the newest within the lag.
Failed(c) ==
  /\ Points(c) # {}
  /\ \A r \in Points(c) : ~r.passed
  /\ \E r \in Points(c) : r.age >= Window
  /\ \E r \in Points(c) : r.age <= Lag

\* require_every_checker_failed.
EveryCheckerFailed ==
  /\ Cardinality(Series) >= MinCheckers
  /\ \A c \in Series : Failed(c)

-----------------------------------------------------------------------------
\* The type invariant.
UptimeTypeOK ==
  /\ arrived \in [Checkers -> SUBSET Result]
  /\ waiting \in [Checkers -> SUBSET Result]
  /\ idle \in [Checkers -> 0..Period]

\* The verdict is never wrong about the window: when every checker of the query
\* failed, no probe of theirs between the start of the window and the lag
\* passed, not even one whose result has not arrived.
NoFalseAlarm ==
  EveryCheckerFailed =>
    \A c \in Series : \A r \in arrived[c] \cup waiting[c] :
      r.age \in Lag..Window => ~r.passed

\* Every result of the last window, its period and the lag failed, was probed
\* on time, and arrived unless it is younger than the lag less a period.
LastingOutage ==
  /\ Cardinality(Checkers) >= MinCheckers
  /\ \A c \in Checkers :
       /\ \A r \in arrived[c] \cup waiting[c] : ~r.passed
       /\ \A r \in waiting[c] : r.age + Period < Lag
       /\ \A a \in 0..Window : \E r \in arrived[c] \cup waiting[c] : r.age \in a..(a + Period)

\* The verdict misses no outage whose results arrive in time: the lag leaves
\* room for a whole period between two probes.
NoMissedOutage == LastingOutage => EveryCheckerFailed
===============================================================================
