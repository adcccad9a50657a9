----------------------------- MODULE UptimeProofs -----------------------------
(***************************************************************************)
(* Proofs about Uptime: the verdict of the watchdog is right about the      *)
(* window for any number of checkers, window, lag and period.               *)
(***************************************************************************)
EXTENDS Uptime, TLAPS

\* Every result of a checker is as old as the checker is idle, no two results
\* that wait are of one age, and what waits is younger than what arrived.
InOrder ==
  \A c \in Checkers :
    /\ \A r \in arrived[c] \cup waiting[c] : idle[c] <= r.age
    /\ \A r, s \in waiting[c] : r.age = s.age => r = s
    /\ \A r \in arrived[c], s \in waiting[c] : s.age < r.age

UptimeInv == UptimeTypeOK /\ InOrder

-----------------------------------------------------------------------------
\* Every result that Aged returns is an older copy of one it was given.
LEMMA AgedResults ==
  ASSUME NEW results \in SUBSET Result
  PROVE  /\ Aged(results) \in SUBSET Result
         /\ \A r \in Aged(results) : \E s \in results :
              s.age < Horizon /\ r = [age |-> s.age + 1, passed |-> s.passed]
<1>1. Horizon \in Nat
  BY UptimeAssumption DEF Horizon
<1> QED
  BY <1>1 DEF Aged, Result

\* Time keeps the type and the order of the results.
LEMMA TickKeeps ==
  ASSUME UptimeInv, Tick
  PROVE  UptimeInv'
<1> USE UptimeAssumption
<1>1. UptimeTypeOK'
  <2>1. \A c \in Checkers : Aged(arrived[c]) \in SUBSET Result /\ Aged(waiting[c]) \in SUBSET Result
    BY AgedResults DEF UptimeInv, UptimeTypeOK
  <2>2. arrived' \in [Checkers -> SUBSET Result] /\ waiting' \in [Checkers -> SUBSET Result]
    BY <2>1 DEF Tick
  <2>3. idle' \in [Checkers -> 0..Period]
    BY DEF Tick, UptimeInv, UptimeTypeOK
  <2> QED BY <2>2, <2>3 DEF UptimeTypeOK
<1>2. InOrder'
  <2> SUFFICES ASSUME NEW c \in Checkers
               PROVE  /\ \A r \in arrived'[c] \cup waiting'[c] : idle'[c] <= r.age
                      /\ \A r, s \in waiting'[c] : r.age = s.age => r = s
                      /\ \A r \in arrived'[c], s \in waiting'[c] : s.age < r.age
    BY DEF InOrder
  <2>1. /\ arrived[c] \in SUBSET Result
        /\ waiting[c] \in SUBSET Result
        /\ idle[c] \in 0..Period
    BY DEF UptimeInv, UptimeTypeOK
  <2>2. /\ arrived'[c] = Aged(arrived[c])
        /\ waiting'[c] = Aged(waiting[c])
        /\ idle'[c] \in Nat
        /\ idle'[c] <= idle[c] + 1
    BY <2>1 DEF Tick, UptimeInv, UptimeTypeOK
  <2>3. /\ \A r \in arrived'[c] : \E s \in arrived[c] : r = [age |-> s.age + 1, passed |-> s.passed]
        /\ \A r \in waiting'[c] : \E s \in waiting[c] : r = [age |-> s.age + 1, passed |-> s.passed]
    BY <2>1, <2>2, AgedResults
  <2>4. /\ \A r \in arrived[c] \cup waiting[c] : idle[c] <= r.age
        /\ \A r, s \in waiting[c] : r.age = s.age => r = s
        /\ \A r \in arrived[c], s \in waiting[c] : s.age < r.age
    BY DEF UptimeInv, InOrder
  <2>5. \A r \in arrived[c] \cup waiting[c] : r.age \in Nat
    BY <2>1 DEF Result
  <2>6. \A r \in arrived'[c] \cup waiting'[c] : idle'[c] <= r.age
    BY <2>1, <2>2, <2>3, <2>4, <2>5
  <2>7. \A r, s \in waiting'[c] : r.age = s.age => r = s
    BY <2>3, <2>4, <2>5
  <2>8. \A r \in arrived'[c], s \in waiting'[c] : s.age < r.age
    BY <2>3, <2>4, <2>5
  <2> QED BY <2>6, <2>7, <2>8
<1> QED BY <1>1, <1>2 DEF UptimeInv

\* A new result is the youngest: the checker was idle for a period.
LEMMA ProbeKeeps ==
  ASSUME UptimeInv, NEW c \in Checkers, NEW passed \in BOOLEAN, Probe(c, passed)
  PROVE  UptimeInv'
<1> USE UptimeAssumption
<1> DEFINE new == [age |-> 0, passed |-> passed]
<1>1. new \in Result
  BY DEF Result, Horizon
<1>2. UptimeTypeOK'
  BY <1>1 DEF Probe, UptimeInv, UptimeTypeOK
<1>3. InOrder'
  <2> SUFFICES ASSUME NEW d \in Checkers
               PROVE  /\ \A r \in arrived'[d] \cup waiting'[d] : idle'[d] <= r.age
                      /\ \A r, s \in waiting'[d] : r.age = s.age => r = s
                      /\ \A r \in arrived'[d], s \in waiting'[d] : s.age < r.age
    BY DEF InOrder
  <2>1. /\ \A r \in arrived[d] \cup waiting[d] : idle[d] <= r.age
        /\ \A r, s \in waiting[d] : r.age = s.age => r = s
        /\ \A r \in arrived[d], s \in waiting[d] : s.age < r.age
    BY DEF UptimeInv, InOrder
  <2>2. \A r \in arrived[d] \cup waiting[d] : r.age \in Nat
    BY DEF UptimeInv, UptimeTypeOK, Result
  <2>3. CASE d # c
    BY <2>1, <2>3 DEF Probe, UptimeInv, UptimeTypeOK
  <2>4. CASE d = c
    <3>1. /\ arrived'[d] = arrived[d]
          /\ waiting'[d] = waiting[d] \cup {new}
          /\ idle'[d] = 0
          /\ idle[d] = Period
      BY <2>4 DEF Probe, UptimeInv, UptimeTypeOK
    <3>2. \A r \in arrived[d] \cup waiting[d] : r.age > 0
      BY <2>1, <2>2, <3>1
    <3>3. new.age = 0
      OBVIOUS
    <3> HIDE DEF new
    <3> QED BY <2>1, <2>2, <3>1, <3>2, <3>3
  <2> QED BY <2>3, <2>4
<1> QED BY <1>2, <1>3 DEF UptimeInv

\* The oldest result arrives, so what still waits stays younger.
LEMMA ArriveKeeps ==
  ASSUME UptimeInv, NEW c \in Checkers, Arrive(c)
  PROVE  UptimeInv'
<1>1. PICK r \in waiting[c] :
        /\ \A s \in waiting[c] : s.age <= r.age
        /\ arrived' = [arrived EXCEPT ![c] = @ \cup {r}]
        /\ waiting' = [waiting EXCEPT ![c] = @ \ {r}]
        /\ idle' = idle
  BY DEF Arrive
<1>2. UptimeTypeOK'
  BY <1>1 DEF UptimeInv, UptimeTypeOK
<1>3. InOrder'
  <2> SUFFICES ASSUME NEW d \in Checkers
               PROVE  /\ \A q \in arrived'[d] \cup waiting'[d] : idle'[d] <= q.age
                      /\ \A q, s \in waiting'[d] : q.age = s.age => q = s
                      /\ \A q \in arrived'[d], s \in waiting'[d] : s.age < q.age
    BY DEF InOrder
  <2>1. /\ \A q \in arrived[d] \cup waiting[d] : idle[d] <= q.age
        /\ \A q, s \in waiting[d] : q.age = s.age => q = s
        /\ \A q \in arrived[d], s \in waiting[d] : s.age < q.age
    BY DEF UptimeInv, InOrder
  <2>2. CASE d # c
    BY <1>1, <2>1, <2>2 DEF UptimeInv, UptimeTypeOK
  <2>3. CASE d = c
    <3>1. /\ arrived'[d] = arrived[d] \cup {r}
          /\ waiting'[d] = waiting[d] \ {r}
          /\ idle'[d] = idle[d]
      BY <1>1, <2>3 DEF UptimeInv, UptimeTypeOK
    <3>2. \A s \in waiting[d] : s.age \in Nat
      BY DEF UptimeInv, UptimeTypeOK, Result
    <3>3. \A s \in waiting[d] \ {r} : s.age < r.age
      BY <1>1, <2>1, <2>3, <3>2
    <3> QED BY <2>1, <2>3, <3>1, <3>3
  <2> QED BY <2>2, <2>3
<1> QED BY <1>2, <1>3 DEF UptimeInv

\* Results keep their types and arrive in the order of the probes, with any
\* phases of the checkers and any delays.
THEOREM ResultsInOrder == Spec => []UptimeInv
<1>1. Init => UptimeInv
  BY UptimeAssumption DEF Init, UptimeInv, UptimeTypeOK, InOrder
<1>2. UptimeInv /\ [Next]_uptimeVars => UptimeInv'
  <2> SUFFICES ASSUME UptimeInv, [Next]_uptimeVars PROVE UptimeInv'
    OBVIOUS
  <2>1. CASE Tick
    BY <2>1, TickKeeps
  <2>2. ASSUME NEW c \in Checkers, Arrive(c) PROVE UptimeInv'
    BY <2>2, ArriveKeeps
  <2>3. ASSUME NEW c \in Checkers, NEW passed \in BOOLEAN, Probe(c, passed) PROVE UptimeInv'
    BY <2>3, ProbeKeeps
  <2>4. CASE UNCHANGED uptimeVars
    BY <2>4 DEF uptimeVars, UptimeInv, UptimeTypeOK, InOrder
  <2> QED BY <2>1, <2>2, <2>3, <2>4 DEF Next
<1> QED BY <1>1, <1>2, PTL DEF Spec

\* The type invariant of Uptime.
THEOREM UptimeTypeCorrect == Spec => []UptimeTypeOK
<1>1. UptimeInv => UptimeTypeOK
  BY DEF UptimeInv
<1> QED BY <1>1, ResultsInOrder, PTL

\* When the watchdog finds that every checker failed, no probe of theirs from
\* the start of the window to the lag passed: the newest result that arrived is
\* within the lag, so every older one has arrived and was read.
THEOREM FalseAlarmNever == Spec => []NoFalseAlarm
<1>1. UptimeInv => NoFalseAlarm
  <2> SUFFICES ASSUME UptimeInv, EveryCheckerFailed,
                      NEW c \in Series,
                      NEW r \in arrived[c] \cup waiting[c],
                      r.age \in Lag..Window
               PROVE  ~r.passed
    BY DEF NoFalseAlarm
  <2>1. c \in Checkers /\ Failed(c)
    BY DEF Series, EveryCheckerFailed
  <2>2. PICK newest \in Points(c) : newest.age <= Lag
    BY <2>1 DEF Failed
  <2>3. /\ newest \in arrived[c]
        /\ newest.age \in Nat
        /\ r.age \in Nat
    BY <2>1, <2>2 DEF Points, UptimeInv, UptimeTypeOK, Result
  <2>4. r \in arrived[c]
    BY <2>1, <2>2, <2>3, UptimeAssumption DEF UptimeInv, InOrder
  <2>5. r \in Points(c)
    BY <2>3, <2>4, UptimeAssumption DEF Points
  <2> QED BY <2>1, <2>5 DEF Failed
<1> QED BY <1>1, ResultsInOrder, PTL

\* An outage that lasts, with probes on time and results that come within the lag
\* less a period, always gives the verdict. The lag may not reach past the window
\* and the period before it: then nothing of the window need have arrived.
THEOREM OutageNeverMissed ==
  ASSUME Lag <= Window + Period
  PROVE  Spec => []NoMissedOutage
<1>1. UptimeTypeOK => NoMissedOutage
  <2> SUFFICES ASSUME UptimeTypeOK, LastingOutage PROVE EveryCheckerFailed
    BY DEF NoMissedOutage
  <2> USE UptimeAssumption
  <2>1. \A c \in Checkers : \A r \in arrived[c] \cup waiting[c] : r.age \in Nat /\ ~r.passed
    BY DEF UptimeTypeOK, Result, LastingOutage
  <2>2. ASSUME NEW c \in Checkers, NEW a \in 0..Window, Lag <= a + Period
        PROVE  \E r \in arrived[c] : r.age \in a..(a + Period)
    <3>1. PICK r \in arrived[c] \cup waiting[c] : r.age \in a..(a + Period)
      BY DEF LastingOutage
    <3>2. r.age \in Nat /\ r.age + Period >= Lag
      BY <2>1, <2>2, <3>1
    <3>3. r \notin waiting[c]
      BY <3>2 DEF LastingOutage
    <3> QED BY <3>1, <3>3
  <2>3. \A c \in Checkers : Failed(c)
    <3> SUFFICES ASSUME NEW c \in Checkers PROVE Failed(c)
      OBVIOUS
    <3>1. PICK oldest \in arrived[c] : oldest.age \in Window..(Window + Period)
      BY <2>2
    <3>2. PICK newest \in arrived[c] : newest.age \in (Lag - Period)..Lag
      BY <2>2
    <3>3. oldest \in Points(c) /\ newest \in Points(c)
      BY <2>1, <3>1, <3>2 DEF Points
    <3>4. \A r \in Points(c) : ~r.passed
      BY <2>1 DEF Points
    <3> QED BY <2>1, <3>1, <3>2, <3>3, <3>4 DEF Failed
  <2>4. Series = Checkers
    BY <2>3 DEF Failed, Points, Series
  <2> QED BY <2>3, <2>4 DEF EveryCheckerFailed, LastingOutage
<1> QED BY <1>1, UptimeTypeCorrect, PTL
===============================================================================
