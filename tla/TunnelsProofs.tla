---------------------------- MODULE TunnelsProofs ----------------------------
(***************************************************************************)
(* For any number of runs, clusters and targets: a run that ends has reaped  *)
(* its tunnels, and its command reaches its own cluster. A tunnel is alive   *)
(* only between its start and the end of the loop in _stop_tunnels, which    *)
(* leaves the targets before next behind it. A port that a run found free    *)
(* has its own cluster behind it until the scan, so the keys in the file     *)
(* that its cluster shares are those of that cluster, unless a run raced.    *)
(***************************************************************************)
EXTENDS Tunnels, TLAPS

\* No tunnel of the run is alive before the first start, nor after the end.
NoneAlive(r) ==
  at[r] \in {"load", "check", "ended"} => \A t \in Target : tunnel[r][t] \notin Alive

\* The loop that waits has reaped the targets it has passed.
PassedAreReaped(r) ==
  at[r] = "wait" => \A t \in Target : t < next[r] => tunnel[r][t] \notin Alive

TunnelsInv ==
  /\ TunnelsTypeOK
  /\ \A r \in Runs : NoneAlive(r) /\ PassedAreReaped(r)

-----------------------------------------------------------------------------
\* The initial states are of the types, and no tunnel has started.
LEMMA TunnelsInitInv == TunnelsInit => TunnelsInv
<1> SUFFICES ASSUME TunnelsInit PROVE TunnelsInv
  OBVIOUS
<1>1. 1 \in Target
  BY TargetsAssumption DEF Target
<1>2. TunnelsTypeOK
  BY <1>1 DEF TunnelsInit, TunnelsTypeOK, Step, Keys, NoKeys, Alive
<1>3. \A r \in Runs : NoneAlive(r) /\ PassedAreReaped(r)
  BY DEF TunnelsInit, NoneAlive, PassedAreReaped, Alive
<1> QED
  BY <1>2, <1>3 DEF TunnelsInv

\* The places of the runs are of their types.
PlacesOK == at \in [Runs -> Step] /\ next \in [Runs -> Target]

\* A run that goes to a step, fails, or takes a turn of a loop stays at its places.
LEMMA GoesType ==
  ASSUME PlacesOK, NEW r \in Runs, NEW to \in Step, Goes(r, to)
  PROVE  PlacesOK'
<1>1. 1 \in Target
  BY TargetsAssumption DEF Target
<1> QED
  BY <1>1 DEF PlacesOK, Goes

\* A run that fails goes to the cleanup, or ends.
LEMMA FailsType ==
  ASSUME PlacesOK, NEW r \in Runs, Fails(r)
  PROVE  PlacesOK'
<1>1. "terminate" \in Step /\ "ended" \in Step
  BY DEF Step
<1>2. CASE at[r] \in InTry
  <2>1. Goes(r, "terminate")
    BY <1>2 DEF Fails
  <2> QED
    BY <1>1, <2>1, GoesType
<1>3. CASE at[r] \notin InTry
  <2>1. Goes(r, "ended")
    BY <1>3 DEF Fails
  <2> QED
    BY <1>1, <2>1, GoesType
<1> QED
  BY <1>2, <1>3

\* A loop takes the next target, or goes on to the next step.
LEMMA LoopType ==
  ASSUME PlacesOK, NEW r \in Runs, NEW then \in Step, Loop(r, then)
  PROVE  PlacesOK'
<1>1. CASE next[r] < Targets
  <2>1. next[r] \in Target /\ next[r] + 1 \in Target
    BY <1>1, TargetsAssumption DEF PlacesOK, Target
  <2> QED
    BY <1>1, <2>1 DEF PlacesOK, Loop
<1>2. CASE ~(next[r] < Targets)
  <2>1. 1 \in Target
    BY TargetsAssumption DEF Target
  <2> QED
    BY <1>2, <2>1 DEF PlacesOK, Loop
<1> QED
  BY <1>1, <1>2

\* The types of what is not a place.
RestOK ==
  /\ cluster \in [Runs -> Clusters]
  /\ tunnel \in [Runs -> [Target -> {"none", "exited"} \cup Alive]]
  /\ keys \in [Runs -> Keys] /\ known \in [Clusters -> Keys]
  /\ reached \in [Runs -> SUBSET Clusters] /\ raced \in [Runs -> BOOLEAN]

\* Both parts together are the type invariant.
LEMMA TypeParts == TunnelsTypeOK <=> PlacesOK /\ RestOK
BY DEF TunnelsTypeOK, PlacesOK, RestOK

\* The state of a tunnel may change to any other.
LEMMA TunnelType ==
  ASSUME RestOK, NEW r \in Runs, NEW t \in Target, NEW s \in {"none", "exited"} \cup Alive,
         tunnel' = [tunnel EXCEPT ![r][t] = s]
  PROVE  tunnel' \in [Runs -> [Target -> {"none", "exited"} \cup Alive]]
<1> DEFINE States == {"none", "exited"} \cup Alive
<1>1. tunnel[r] \in [Target -> States]
  BY DEF RestOK
<1>2. [tunnel[r] EXCEPT ![t] = s] \in [Target -> States]
  BY <1>1
<1>3. tunnel' = [tunnel EXCEPT ![r] = [tunnel[r] EXCEPT ![t] = s]]
  BY DEF RestOK
<1> HIDE DEF States
<1>4. tunnel \in [Runs -> [Target -> States]]
  BY DEF RestOK, States
<1>5. tunnel' \in [Runs -> [Target -> States]]
  BY <1>2, <1>3, <1>4
<1> QED
  BY <1>5 DEF States

\* The children of a run start, listen and exit: none comes to life.
LEMMA ChildrenInv ==
  ASSUME TunnelsInv, NEW r \in Runs, NEW t \in Target, Bind(r, t) \/ Exit(r, t)
  PROVE  TunnelsInv'
<1>1. UNCHANGED <<at, next>>
  BY DEF Bind, Exit
<1>2. PICK s \in {"exited", "listening"} : tunnel' = [tunnel EXCEPT ![r][t] = s]
  BY DEF Bind, Exit
<1>3. PlacesOK /\ RestOK
  BY TypeParts DEF TunnelsInv
<1>4. tunnel' \in [Runs -> [Target -> {"none", "exited"} \cup Alive]]
  BY <1>2, <1>3, TunnelType DEF Alive
<1>5. raced' \in [Runs -> BOOLEAN]
  <2>1. CASE Bind(r, t)
    BY <2>1, <1>3 DEF Bind, RestOK
  <2>2. CASE Exit(r, t)
    BY <2>2, <1>3 DEF Exit, RestOK
  <2> QED
    BY <2>1, <2>2
<1>6. TunnelsTypeOK'
  <2>1. PlacesOK'
    BY <1>1, <1>3 DEF PlacesOK
  <2>2. RestOK'
    BY <1>3, <1>4, <1>5 DEF RestOK, Bind, Exit
  <2> QED
    BY <2>1, <2>2 DEF TunnelsTypeOK, PlacesOK, RestOK
<1>7. tunnel[r][t] \in Alive
  BY DEF Bind, Exit, Alive
<1>8. \A q \in Runs, u \in Target : tunnel[q][u] \notin Alive => tunnel'[q][u] \notin Alive
  BY <1>2, <1>3, <1>7 DEF RestOK
<1>9. \A q \in Runs : NoneAlive(q)' /\ PassedAreReaped(q)'
  BY <1>1, <1>8 DEF TunnelsInv, NoneAlive, PassedAreReaped
<1> QED
  BY <1>6, <1>9 DEF TunnelsInv

\* A step that moves a run and leaves the tunnels alone keeps the invariant, when
\* it gets to the end or to the wait only from where no tunnel has started, or
\* from the signal.
LEMMA MovesInv ==
  ASSUME TunnelsInv, TunnelsTypeOK', NEW r \in Runs, UNCHANGED tunnel,
         \A q \in Runs \ {r} : at'[q] = at[q] /\ next'[q] = next[q],
         at'[r] \in {"load", "check", "ended"} => at[r] \in {"load", "check"},
         at'[r] = "wait" => next'[r] = 1
  PROVE  TunnelsInv'
<1>1. ASSUME NEW q \in Runs PROVE NoneAlive(q)' /\ PassedAreReaped(q)'
  <2>1. CASE q = r
    <3>1. NoneAlive(q)'
      BY <2>1 DEF TunnelsInv, NoneAlive
    <3>2. PassedAreReaped(q)'
      BY <2>1, TargetsAssumption DEF PassedAreReaped, Target
    <3> QED
      BY <3>1, <3>2
  <2>2. CASE q # r
    BY <2>2 DEF TunnelsInv, NoneAlive, PassedAreReaped
  <2> QED
    BY <2>1, <2>2
<1> QED
  BY <1>1 DEF TunnelsInv

\* Each step of a run keeps the types.
LEMMA RunType ==
  ASSUME TunnelsTypeOK, NEW r \in Runs,
         RunNext(r), ~\E t \in Target : Bind(r, t) \/ Exit(r, t)
  PROVE  TunnelsTypeOK'
<1>1. PlacesOK /\ RestOK
  BY TypeParts
<1>2. next[r] \in Target
  BY <1>1 DEF PlacesOK
<1>3. \A t \in Target : Behind(t) \subseteq Clusters
  BY <1>1 DEF RestOK, Behind
<1>4. NoKeys \in Keys /\ cluster[r] \in Clusters /\ keys[r] \in Keys
  BY <1>1 DEF RestOK, NoKeys, Keys
<1> USE <1>1
<1>5. CASE Load(r)
  <2>1. PlacesOK'
    BY <1>5, GoesType, FailsType DEF Load, Step
  <2> QED
    BY <1>5, <2>1 DEF TunnelsTypeOK, PlacesOK, RestOK, Load
<1>6. CASE Check(r)
  <2>1. PlacesOK'
    BY <1>6, LoopType, FailsType DEF Check, Step
  <2> QED
    BY <1>6, <2>1 DEF TunnelsTypeOK, PlacesOK, RestOK, Check
<1>7. CASE Start(r)
  <2>1. PlacesOK'
    BY <1>7, LoopType, FailsType DEF Start, Step
  <2>2. tunnel' \in [Runs -> [Target -> {"none", "exited"} \cup Alive]]
    <3>1. CASE UNCHANGED tunnel
      BY <3>1 DEF RestOK
    <3>2. CASE tunnel' = [tunnel EXCEPT ![r][next[r]] = "starting"]
      BY <3>2, <1>2, TunnelType DEF Alive
    <3> QED
      BY <1>7, <3>1, <3>2 DEF Start
  <2> QED
    BY <1>7, <2>1, <2>2 DEF TunnelsTypeOK, PlacesOK, RestOK, Start
<1>8. CASE Ready(r)
  <2>1. PlacesOK'
    BY <1>8, LoopType, FailsType DEF Ready, Step
  <2> QED
    BY <1>8, <2>1 DEF TunnelsTypeOK, PlacesOK, RestOK, Ready
<1>9. CASE Scan(r)
  <2>1. PlacesOK'
    BY <1>9, LoopType, FailsType DEF Scan, Step
  <2>2. keys' \in [Runs -> Keys]
    <3>1. [keys[r] EXCEPT ![next[r]] = Behind(next[r])] \in Keys
      BY <1>2, <1>3, <1>4 DEF Keys
    <3>2. \/ UNCHANGED keys
          \/ keys' = [keys EXCEPT ![r] = [keys[r] EXCEPT ![next[r]] = Behind(next[r])]]
      BY <1>9 DEF Scan, RestOK
    <3> QED
      BY <3>1, <3>2 DEF RestOK
  <2> QED
    BY <1>9, <2>1, <2>2 DEF TunnelsTypeOK, PlacesOK, RestOK, Scan
<1>10. CASE Truncate(r)
  <2>1. PlacesOK'
    BY <1>10, GoesType DEF Truncate, Step
  <2> QED
    BY <1>4, <1>10, <2>1 DEF TunnelsTypeOK, PlacesOK, RestOK, Truncate
<1>11. CASE Write(r)
  <2>1. PlacesOK'
    BY <1>11, GoesType DEF Write, Step
  <2> QED
    BY <1>4, <1>11, <2>1 DEF TunnelsTypeOK, PlacesOK, RestOK, Write
<1>12. CASE \E t \in Target : Connect(r, t)
  <2>1. PICK t \in Target : Connect(r, t)
    BY <1>12
  <2>2. reached' \in [Runs -> SUBSET Clusters]
    BY <1>3, <2>1 DEF Connect, RestOK
  <2>3. PlacesOK'
    BY <2>1 DEF Connect, PlacesOK
  <2> QED
    BY <2>1, <2>2, <2>3 DEF TunnelsTypeOK, PlacesOK, RestOK, Connect
<1>13. CASE CommandEnds(r) \/ Interrupt(r)
  <2>1. PlacesOK'
    BY <1>13, FailsType DEF CommandEnds, Interrupt
  <2> QED
    BY <1>13, <2>1 DEF TunnelsTypeOK, PlacesOK, RestOK, CommandEnds, Interrupt
<1>14. CASE Terminate(r) \/ Kill(r)
  <2>1. PlacesOK'
    BY <1>14, GoesType DEF Terminate, Kill, Step
  <2> QED
    BY <1>14, <2>1 DEF TunnelsTypeOK, PlacesOK, RestOK, Terminate, Kill
<1>15. CASE Wait(r)
  <2>1. PlacesOK'
    BY <1>15, LoopType DEF Wait, Step
  <2>2. tunnel[r][next[r]] \in {"none", "exited"} \cup Alive
    BY <1>2 DEF RestOK
  <2>3. PICK s \in {"none", "exited"} \cup Alive : tunnel' = [tunnel EXCEPT ![r][next[r]] = s]
    BY <1>2, <1>15, <2>2 DEF Wait, RestOK
  <2>4. tunnel' \in [Runs -> [Target -> {"none", "exited"} \cup Alive]]
    BY <1>2, <2>3, TunnelType
  <2> QED
    BY <1>15, <2>1, <2>4 DEF TunnelsTypeOK, PlacesOK, RestOK, Wait
<1> QED
  BY <1>5, <1>6, <1>7, <1>8, <1>9, <1>10, <1>11, <1>12, <1>13, <1>14, <1>15 DEF RunNext, RunActs

\* Each step of a run keeps the invariant.
LEMMA RunInv ==
  ASSUME TunnelsInv, NEW r \in Runs, RunNext(r)
  PROVE  TunnelsInv'
<1>1. CASE \E t \in Target : Bind(r, t) \/ Exit(r, t)
  BY <1>1, ChildrenInv
<1> SUFFICES ASSUME ~\E t \in Target : Bind(r, t) \/ Exit(r, t) PROVE TunnelsInv'
  BY <1>1
<1>2. TunnelsTypeOK'
  BY RunType DEF TunnelsInv
<1>3. PlacesOK /\ RestOK
  BY TypeParts DEF TunnelsInv
<1> USE <1>3
<1>4. CASE Load(r) \/ Check(r)
  <2>1. at[r] \in {"load", "check"} /\ at'[r] # "wait"
    BY <1>4 DEF PlacesOK, Load, Check, Loop, Goes, Fails, InTry
  <2> QED
    BY <1>2, <1>4, <2>1, MovesInv DEF PlacesOK, Load, Check, Loop, Goes, Fails
<1>5. CASE Start(r)
  <2>1. at'[r] \in {"start", "ready", "terminate"}
    BY <1>5 DEF PlacesOK, Start, Loop, Goes, Fails, InTry
  <2>2. \A q \in Runs \ {r} : at'[q] = at[q] /\ next'[q] = next[q] /\ tunnel'[q] = tunnel[q]
    BY <1>5 DEF PlacesOK, RestOK, Start, Loop, Goes, Fails
  <2> QED
    BY <1>2, <2>1, <2>2 DEF TunnelsInv, NoneAlive, PassedAreReaped
<1>6. CASE Ready(r) \/ Scan(r)
  <2>1. at'[r] \in {"ready", "scan", "truncate", "terminate"}
    BY <1>6 DEF PlacesOK, Ready, Scan, Loop, Goes, Fails, InTry
  <2> QED
    BY <1>2, <1>6, <2>1, MovesInv DEF PlacesOK, Ready, Scan, Loop, Goes, Fails
<1>7. CASE Truncate(r) \/ Write(r)
  <2>1. at'[r] \in {"write", "command"}
    BY <1>7 DEF PlacesOK, Truncate, Write, Goes
  <2> QED
    BY <1>2, <1>7, <2>1, MovesInv DEF PlacesOK, Truncate, Write, Goes
<1>8. CASE \E t \in Target : Connect(r, t)
  BY <1>2, <1>8 DEF TunnelsInv, NoneAlive, PassedAreReaped, Connect
<1>9. CASE CommandEnds(r) \/ Interrupt(r)
  <2>1. /\ at'[r] \in {"terminate", "ended"}
        /\ at'[r] = "ended" => at[r] \in {"load", "check"}
    BY <1>9 DEF PlacesOK, CommandEnds, Interrupt, Goes, Fails, InTry
  <2> QED
    BY <1>2, <1>9, <2>1, MovesInv DEF PlacesOK, CommandEnds, Interrupt, Goes, Fails
<1>10. CASE Terminate(r) \/ Kill(r)
  <2>1. at'[r] \in {"wait", "killed"} /\ next'[r] = 1
    BY <1>10 DEF PlacesOK, Terminate, Kill, Goes
  <2> QED
    BY <1>2, <1>10, <2>1, MovesInv DEF PlacesOK, Terminate, Kill, Goes
<1>11. CASE Wait(r)
  <2>1. \A q \in Runs \ {r} : at'[q] = at[q] /\ next'[q] = next[q] /\ tunnel'[q] = tunnel[q]
    BY <1>11 DEF PlacesOK, RestOK, Wait, Loop
  <2>2. next[r] \in 1..Targets /\ Targets \in Nat
    BY TargetsAssumption DEF PlacesOK, Target
  <2>3. tunnel'[r][next[r]] \notin Alive
    BY <1>11, <2>2 DEF RestOK, Wait, Alive, Target
  <2>4. \A t \in Target : t # next[r] => tunnel'[r][t] = tunnel[r][t]
    BY <1>11 DEF RestOK, Wait
  <2>5. at[r] = "wait"
    BY <1>11 DEF Wait
  <2>6. \A t \in Target : t < next[r] => tunnel[r][t] \notin Alive
    BY <2>5 DEF TunnelsInv, PassedAreReaped
  <2>7. \A t \in Target : t <= next[r] => tunnel'[r][t] \notin Alive
    BY <2>2, <2>3, <2>4, <2>6 DEF Target
  <2>8. \/ at'[r] = "wait" /\ next'[r] = next[r] + 1
        \/ at'[r] = "ended" /\ next[r] = Targets
    BY <1>11, <2>2, <2>5 DEF PlacesOK, Wait, Loop
  <2>9. NoneAlive(r)' /\ PassedAreReaped(r)'
    BY <2>2, <2>7, <2>8 DEF NoneAlive, PassedAreReaped, Target
  <2> QED
    BY <1>2, <2>1, <2>9 DEF TunnelsInv, NoneAlive, PassedAreReaped
<1> QED
  BY <1>4, <1>5, <1>6, <1>7, <1>8, <1>9, <1>10, <1>11 DEF RunNext, RunActs

\* The inductive invariant of module Tunnels.
THEOREM TunnelsInvariant == TunnelsSpec => []TunnelsInv
<1>1. TunnelsInit => TunnelsInv
  BY TunnelsInitInv
<1>2. TunnelsInv /\ [TunnelsNext]_tunnelVars => TunnelsInv'
  <2> SUFFICES ASSUME TunnelsInv, [TunnelsNext]_tunnelVars PROVE TunnelsInv'
    OBVIOUS
  <2>1. CASE TunnelsNext
    BY <2>1, RunInv DEF TunnelsNext
  <2>2. CASE UNCHANGED tunnelVars
    BY <2>2 DEF tunnelVars, TunnelsInv, TunnelsTypeOK, NoneAlive, PassedAreReaped, Target, Alive, Keys
  <2> QED
    BY <2>1, <2>2
<1> QED
  BY <1>1, <1>2, PTL DEF TunnelsSpec

\* Types hold for any number of runs, clusters and targets.
THEOREM TunnelsTypeCorrect == TunnelsSpec => []TunnelsTypeOK
<1>1. TunnelsInv => TunnelsTypeOK
  BY DEF TunnelsInv
<1> QED
  BY <1>1, TunnelsInvariant, PTL

\* However a run of scripts/run_with_iap.py ends, short of a signal that kills it,
\* it has reaped every tunnel it started.
THEOREM TunnelsAreReaped == TunnelsSpec => []AllReaped
<1>1. TunnelsInv => AllReaped
  BY DEF TunnelsInv, NoneAlive, AllReaped
<1> QED
  BY <1>1, TunnelsInvariant, PTL

-----------------------------------------------------------------------------
\* One tunnel at most listens on a port.
OneListens ==
  \A t \in Target : \A q, r \in Runs :
    tunnel[q][t] = "listening" /\ tunnel[r][t] = "listening" => q = r

\* Between its check and its scan, a port leads a run nowhere else, unless it raced.
CheckedIsOwn ==
  \A r \in Runs : ~raced[r] => \A t \in Target : Unscanned(r, t) => Behind(t) \subseteq {cluster[r]}

\* A run that did not race has scanned the keys of its own cluster.
ScannedIsOwn ==
  \A r \in Runs : ~raced[r] => \A t \in Target : keys[r][t] \subseteq {cluster[r]}

\* No run of cluster c raced.
NoneRaced(c) == \A q \in Runs : cluster[q] = c => ~raced[q]

\* The file of a cluster none of whose runs raced holds the keys of that cluster.
KnownIsOwn ==
  \A c \in Clusters : NoneRaced(c) => \A t \in Target : known[c][t] \subseteq {c}

\* What this and the log-ins come to.
ReachedIsOwn ==
  \A r \in Runs : NoneRaced(cluster[r]) => reached[r] \subseteq {cluster[r]}

KeysInv == TunnelsTypeOK /\ OneListens /\ CheckedIsOwn /\ ScannedIsOwn /\ KnownIsOwn /\ ReachedIsOwn

-----------------------------------------------------------------------------
\* Behind a port with at most one listener is at most one cluster.
LEMMA OneBehind ==
  ASSUME OneListens, NEW t \in Target, NEW c \in Behind(t)
  PROVE  Behind(t) = {c}
BY DEF OneListens, Behind

\* A step that starts no listener puts no cluster behind a port.
LEMMA BehindShrinks ==
  ASSUME UNCHANGED cluster,
         \A q \in Runs, t \in Target : tunnel'[q][t] = "listening" => tunnel[q][t] = "listening"
  PROVE  /\ \A t \in Target : Behind(t)' \subseteq Behind(t)
         /\ OneListens => OneListens'
BY DEF Behind, OneListens

\* A step that starts no listener, scans nothing, and brings a run to an unscanned
\* port only where nothing is behind it.
LEMMA StaysOwn ==
  ASSUME KeysInv, TunnelsTypeOK', UNCHANGED <<cluster, keys, known, reached, raced>>,
         \A q \in Runs, t \in Target : tunnel'[q][t] = "listening" => tunnel[q][t] = "listening",
         \A q \in Runs, t \in Target : Unscanned(q, t)' => Unscanned(q, t) \/ Behind(t) = {}
  PROVE  KeysInv'
<1>1. OneListens' /\ \A t \in Target : Behind(t)' \subseteq Behind(t)
  BY BehindShrinks DEF KeysInv
<1>2. CheckedIsOwn'
  <2> SUFFICES ASSUME NEW r \in Runs, ~raced[r], NEW t \in Target, Unscanned(r, t)'
               PROVE  Behind(t) \subseteq {cluster[r]}
    BY <1>1 DEF CheckedIsOwn
  <2> QED BY DEF KeysInv, CheckedIsOwn
<1>3. ScannedIsOwn'
  BY DEF KeysInv, ScannedIsOwn
<1>4. KnownIsOwn' /\ ReachedIsOwn'
  BY DEF KeysInv, KnownIsOwn, ReachedIsOwn, NoneRaced
<1> QED BY <1>1, <1>2, <1>3, <1>4 DEF KeysInv

\* A run that goes to a check or past the scan leaves no port unscanned, and so
\* does a run that fails.
LEMMA GoesScanned ==
  ASSUME TunnelsTypeOK, NEW r \in Runs,
         NEW to \in {"check", "ended", "terminate", "wait", "killed"}, Goes(r, to)
  PROVE  \A q \in Runs, t \in Target : Unscanned(q, t)' => Unscanned(q, t)
<1>1. at'[r] = to /\ next'[r] = 1
  BY DEF Goes, TunnelsTypeOK
<1>2. \A q \in Runs \ {r} : at'[q] = at[q] /\ next'[q] = next[q]
  BY DEF Goes, TunnelsTypeOK
<1>3. \A t \in Target : ~(t < 1)
  BY TargetsAssumption DEF Target
<1> QED BY <1>1, <1>2, <1>3 DEF Unscanned

\* A run that fails leaves no target to scan that it had not left before.
LEMMA FailsScanned ==
  ASSUME TunnelsTypeOK, NEW r \in Runs, Fails(r)
  PROVE  \A q \in Runs, t \in Target : Unscanned(q, t)' => Unscanned(q, t)
<1>1. PICK to \in {"check", "ended", "terminate", "wait", "killed"} : Goes(r, to)
  BY DEF Fails
<1> QED BY <1>1, GoesScanned

\* A tunnel that binds a free port marks the runs that have found it free.
LEMMA BindOwn ==
  ASSUME KeysInv, TunnelsTypeOK', NEW r \in Runs, NEW t \in Target, Bind(r, t)
  PROVE  KeysInv'
<1>1. UNCHANGED <<cluster, at, next, keys, known, reached>>
  BY DEF Bind
<1>2. /\ \A q \in Runs : raced'[q] = (raced[q] \/ (Free(t) /\ q # r /\ Unscanned(q, t)))
      /\ \A q \in Runs, u \in Target : Unscanned(q, u)' = Unscanned(q, u)
  BY <1>1 DEF Bind, Unscanned
<1>3. \A c : NoneRaced(c)' => NoneRaced(c)
  BY <1>1, <1>2 DEF NoneRaced
<1>4. CASE ~Free(t)
  <2>1. \A q \in Runs, u \in Target : tunnel'[q][u] = "listening" => tunnel[q][u] = "listening"
    BY <1>4 DEF Bind, KeysInv, TunnelsTypeOK
  <2>2. \A q \in Runs : raced'[q] = raced[q]
    BY <1>2, <1>4 DEF KeysInv, TunnelsTypeOK
  <2>3. raced' = raced
    BY <2>2 DEF KeysInv, TunnelsTypeOK
  <2> QED BY <1>1, <1>2, <2>1, <2>3, StaysOwn
<1>5. CASE Free(t)
  <2>1. \A q \in Runs, u \in Target :
          (tunnel'[q][u] = "listening") = (tunnel[q][u] = "listening" \/ (q = r /\ u = t))
    BY <1>5 DEF Bind, KeysInv, TunnelsTypeOK
  <2>2. \A q \in Runs : tunnel[q][t] # "listening"
    BY <1>5 DEF Free, Behind
  <2>3. OneListens'
    BY <2>1, <2>2 DEF KeysInv, OneListens
  <2>4. Behind(t)' \subseteq {cluster[r]} /\ \A u \in Target : u # t => Behind(u)' = Behind(u)
    BY <1>1, <2>1, <2>2 DEF Behind
  <2>5. CheckedIsOwn'
    <3> SUFFICES ASSUME NEW q \in Runs, ~raced'[q], NEW u \in Target, Unscanned(q, u)
                 PROVE  Behind(u)' \subseteq {cluster[q]}
      BY <1>1, <1>2 DEF CheckedIsOwn
    <3>1. CASE u = t
      <4>1. q = r
        BY <1>2, <1>5, <3>1
      <4> QED BY <2>4, <3>1, <4>1
    <3>2. CASE u # t
      <4>1. ~raced[q]
        BY <1>2
      <4> QED BY <2>4, <3>2, <4>1 DEF KeysInv, CheckedIsOwn
    <3> QED BY <3>1, <3>2
  <2>6. ScannedIsOwn'
    BY <1>1, <1>2 DEF KeysInv, ScannedIsOwn
  <2>7. KnownIsOwn' /\ ReachedIsOwn'
    BY <1>1, <1>3 DEF KeysInv, KnownIsOwn, ReachedIsOwn
  <2> QED BY <2>3, <2>5, <2>6, <2>7 DEF KeysInv
<1> QED BY <1>4, <1>5

\* The scan reads the key of whatever is behind the port.
LEMMA ScanOwn ==
  ASSUME KeysInv, TunnelsTypeOK', NEW r \in Runs, Scan(r)
  PROVE  KeysInv'
<1>1. UNCHANGED <<cluster, tunnel, known, reached, raced>>
  BY DEF Scan
<1>2. next[r] \in 1..Targets /\ Targets \in Nat
  BY TargetsAssumption DEF KeysInv, TunnelsTypeOK, Target
<1>3. \A q \in Runs, t \in Target : Unscanned(q, t)' => Unscanned(q, t)
  <2>1. CASE Loop(r, "truncate")
    <3>1. at[r] = "scan" /\ next[r] <= Targets
      BY <1>2 DEF Scan
    <3>2. \/ at'[r] = "scan" /\ next'[r] = next[r] + 1
          \/ at'[r] = "truncate"
      BY <2>1, <3>1 DEF Loop, KeysInv, TunnelsTypeOK
    <3>3. \A q \in Runs \ {r} : at'[q] = at[q] /\ next'[q] = next[q]
      BY <2>1 DEF Loop, KeysInv, TunnelsTypeOK
    <3> QED BY <1>2, <3>1, <3>2, <3>3 DEF Unscanned, Target
  <2>2. CASE Fails(r)
    BY <2>2, FailsScanned DEF KeysInv
  <2> QED BY <2>1, <2>2 DEF Scan
<1>4. \A t \in Target : Behind(t)' = Behind(t)
  BY <1>1 DEF Behind
<1>5. OneListens' /\ CheckedIsOwn'
  BY <1>1, <1>3, <1>4 DEF KeysInv, OneListens, CheckedIsOwn
<1>6. ScannedIsOwn'
  <2> SUFFICES ASSUME NEW q \in Runs, ~raced[q], NEW t \in Target
               PROVE  keys'[q][t] \subseteq {cluster[q]}
    BY <1>1 DEF ScannedIsOwn
  <2>1. \/ keys'[q][t] = keys[q][t]
        \/ q = r /\ t = next[r] /\ keys'[q][t] = Behind(t)
    BY DEF Scan, KeysInv, TunnelsTypeOK, Keys
  <2>2. Unscanned(r, next[r])
    BY <1>2 DEF Scan, Unscanned
  <2> QED BY <2>1, <2>2 DEF KeysInv, ScannedIsOwn, CheckedIsOwn
<1>7. KnownIsOwn' /\ ReachedIsOwn'
  BY <1>1 DEF KeysInv, KnownIsOwn, ReachedIsOwn, NoneRaced
<1> QED BY <1>5, <1>6, <1>7 DEF KeysInv

\* The file gets the keys of the run, or none.
LEMMA KnownOwn ==
  ASSUME KeysInv, TunnelsTypeOK', NEW r \in Runs, Truncate(r) \/ Write(r)
  PROVE  KeysInv'
<1>1. UNCHANGED <<cluster, tunnel, keys, reached, raced>>
  BY DEF Truncate, Write
<1>2. at'[r] \in {"write", "command"} /\ \A q \in Runs \ {r} : at'[q] = at[q] /\ next'[q] = next[q]
  BY DEF Truncate, Write, Goes, KeysInv, TunnelsTypeOK
<1>3. \A q \in Runs, t \in Target : Unscanned(q, t)' => Unscanned(q, t)
  BY <1>2 DEF Unscanned
<1>4. \A t \in Target : Behind(t)' = Behind(t)
  BY <1>1 DEF Behind
<1>5. OneListens' /\ CheckedIsOwn' /\ ScannedIsOwn'
  BY <1>1, <1>3, <1>4 DEF KeysInv, OneListens, CheckedIsOwn, ScannedIsOwn
<1>6. KnownIsOwn'
  <2> SUFFICES ASSUME NEW c \in Clusters, NoneRaced(c), NEW t \in Target
               PROVE  known'[c][t] \subseteq {c}
    BY <1>1 DEF KnownIsOwn, NoneRaced
  <2>1. \/ known'[c][t] = known[c][t]
        \/ known'[c][t] = {}
        \/ c = cluster[r] /\ known'[c][t] = keys[r][t]
    BY DEF Truncate, Write, NoKeys, KeysInv, TunnelsTypeOK
  <2> QED BY <2>1 DEF KeysInv, KnownIsOwn, ScannedIsOwn, NoneRaced
<1>7. ReachedIsOwn'
  BY <1>1 DEF KeysInv, ReachedIsOwn, NoneRaced
<1> QED BY <1>5, <1>6, <1>7 DEF KeysInv

\* A command logs in where the key behind the port is one of its file.
LEMMA ConnectOwn ==
  ASSUME KeysInv, TunnelsTypeOK', NEW r \in Runs, NEW t \in Target, Connect(r, t)
  PROVE  KeysInv'
<1>1. UNCHANGED <<cluster, at, next, tunnel, keys, known, raced>>
  BY DEF Connect
<1>2. OneListens' /\ CheckedIsOwn' /\ ScannedIsOwn' /\ KnownIsOwn'
  <2>1. OneListens' /\ CheckedIsOwn'
    BY <1>1 DEF KeysInv, OneListens, CheckedIsOwn, Behind, Unscanned
  <2>2. ScannedIsOwn' /\ KnownIsOwn'
    BY <1>1 DEF KeysInv, ScannedIsOwn, KnownIsOwn, NoneRaced
  <2> QED BY <2>1, <2>2
<1>3. PICK c \in Behind(t) : c \in known[cluster[r]][t]
  BY DEF Connect
<1>4. Behind(t) = {c} /\ cluster[r] \in Clusters
  BY <1>3, OneBehind DEF KeysInv, TunnelsTypeOK
<1>5. NoneRaced(cluster[r]) => c = cluster[r]
  BY <1>3, <1>4 DEF KeysInv, KnownIsOwn
<1>6. ReachedIsOwn'
  <2> SUFFICES ASSUME NEW q \in Runs, NoneRaced(cluster[q]) PROVE reached'[q] \subseteq {cluster[q]}
    BY <1>1 DEF ReachedIsOwn, NoneRaced
  <2>1. \/ reached'[q] = reached[q]
        \/ q = r /\ reached'[q] = reached[q] \cup {c}
    BY <1>4 DEF Connect, KeysInv, TunnelsTypeOK
  <2> QED BY <1>5, <2>1 DEF KeysInv, ReachedIsOwn
<1> QED BY <1>2, <1>6 DEF KeysInv

\* Each step of a run keeps the keys apart.
LEMMA RunOwn ==
  ASSUME KeysInv, TunnelsTypeOK', NEW r \in Runs, RunNext(r)
  PROVE  KeysInv'
<1>0. next[r] \in 1..Targets /\ Targets \in Nat
  BY TargetsAssumption DEF KeysInv, TunnelsTypeOK, Target
<1>1. CASE \E t \in Target : Bind(r, t)
  BY <1>1, BindOwn
<1>2. CASE \E t \in Target : Exit(r, t)
  <2>1. PICK t \in Target : Exit(r, t)
    BY <1>2
  <2>2. \A q \in Runs, u \in Target : tunnel'[q][u] = "listening" => tunnel[q][u] = "listening"
    BY <2>1 DEF Exit, KeysInv, TunnelsTypeOK
  <2>3. \A q \in Runs, u \in Target : Unscanned(q, u)' => Unscanned(q, u)
    BY <2>1 DEF Exit, Unscanned
  <2> QED BY <2>1, <2>2, <2>3, StaysOwn DEF Exit
<1>3. CASE \E t \in Target : Connect(r, t)
  BY <1>3, ConnectOwn
<1>4. CASE Load(r) \/ CommandEnds(r) \/ Interrupt(r) \/ Terminate(r) \/ Kill(r)
  <2>1. \A q \in Runs, t \in Target : Unscanned(q, t)' => Unscanned(q, t)
    <3>1. PICK to \in {"check", "ended", "terminate", "wait", "killed"} : Goes(r, to)
      BY <1>4 DEF Load, CommandEnds, Interrupt, Terminate, Kill, Fails
    <3> QED BY <3>1, GoesScanned DEF KeysInv
  <2>2. UNCHANGED <<cluster, tunnel, keys, known, reached, raced>>
    BY <1>4 DEF Load, CommandEnds, Interrupt, Terminate, Kill
  <2> QED BY <2>1, <2>2, StaysOwn
<1>5. CASE Check(r)
  <2>1. CASE Free(next[r])
    <3>1. at[r] = "check" /\ UNCHANGED <<cluster, tunnel, keys, known, reached, raced>>
      BY <1>5 DEF Check
    <3>2. \/ at'[r] = "check" /\ next'[r] = next[r] + 1
          \/ at'[r] = "start" /\ next[r] = Targets
      <4>1. CASE next[r] < Targets
        BY <1>5, <2>1, <3>1, <4>1 DEF Check, Loop, KeysInv, TunnelsTypeOK
      <4>2. CASE next[r] = Targets
        BY <1>0, <1>5, <2>1, <4>2 DEF Check, Loop, KeysInv, TunnelsTypeOK
      <4> QED BY <1>0, <4>1, <4>2
    <3>3. \A q \in Runs \ {r} : at'[q] = at[q] /\ next'[q] = next[q]
      BY <1>5, <2>1 DEF Check, Loop, KeysInv, TunnelsTypeOK
    <3>4. \A q \in Runs, t \in Target : Unscanned(q, t)' => Unscanned(q, t) \/ (q = r /\ t = next[r])
      BY <1>0, <3>1, <3>2, <3>3 DEF Unscanned, Target
    <3> QED BY <2>1, <3>1, <3>4, StaysOwn DEF Free
  <2>2. CASE ~Free(next[r])
    <3>1. \A q \in Runs, t \in Target : Unscanned(q, t)' => Unscanned(q, t)
      BY <1>5, <2>2, FailsScanned DEF Check, KeysInv
    <3> QED BY <1>5, <3>1, StaysOwn DEF Check
  <2> QED BY <2>1, <2>2
<1>6. CASE Start(r) \/ Ready(r)
  <2>1. at[r] \in {"start", "ready"}
    BY <1>6 DEF Start, Ready
  <2>2. \A q \in Runs \ {r} : at'[q] = at[q] /\ next'[q] = next[q]
    BY <1>6 DEF Start, Ready, Loop, Goes, Fails, KeysInv, TunnelsTypeOK
  <2>3. \A q \in Runs, t \in Target : Unscanned(q, t)' => Unscanned(q, t)
    BY <2>1, <2>2 DEF Unscanned
  <2>4. UNCHANGED <<cluster, keys, known, reached, raced>>
    BY <1>6 DEF Start, Ready
  <2>5. \A q \in Runs, t \in Target : tunnel'[q][t] = "listening" => tunnel[q][t] = "listening"
    <3>1. CASE UNCHANGED tunnel
      BY <3>1
    <3>2. CASE tunnel' = [tunnel EXCEPT ![r][next[r]] = "starting"]
      BY <3>2 DEF KeysInv, TunnelsTypeOK
    <3> QED BY <1>6, <3>1, <3>2 DEF Start, Ready
  <2> QED BY <2>3, <2>4, <2>5, StaysOwn
<1>7. CASE Scan(r)
  BY <1>7, ScanOwn
<1>8. CASE Truncate(r) \/ Write(r)
  BY <1>8, KnownOwn
<1>9. CASE Wait(r)
  <2>1. \A q \in Runs, t \in Target : Unscanned(q, t)' => Unscanned(q, t)
    BY <1>9 DEF Wait, Loop, Unscanned, KeysInv, TunnelsTypeOK
  <2>2. \A q \in Runs, t \in Target : tunnel'[q][t] = "listening" => tunnel[q][t] = "listening"
    BY <1>9 DEF Wait, KeysInv, TunnelsTypeOK
  <2> QED BY <1>9, <2>1, <2>2, StaysOwn DEF Wait
<1> QED
  BY <1>1, <1>2, <1>3, <1>4, <1>5, <1>6, <1>7, <1>8, <1>9 DEF RunNext, RunActs

\* The second inductive invariant of module Tunnels: which keys are where.
THEOREM KeysInvariant == TunnelsSpec => []KeysInv
<1>1. TunnelsInit => KeysInv
  <2> SUFFICES ASSUME TunnelsInit PROVE KeysInv
    OBVIOUS
  <2>1. TunnelsTypeOK
    BY TunnelsInitInv DEF TunnelsInv
  <2>2. \A t \in Target : Behind(t) = {}
    BY DEF TunnelsInit, Behind
  <2>3. OneListens /\ CheckedIsOwn
    BY <2>2 DEF TunnelsInit, OneListens, CheckedIsOwn
  <2>4. ScannedIsOwn /\ KnownIsOwn /\ ReachedIsOwn
    BY DEF TunnelsInit, NoKeys, ScannedIsOwn, KnownIsOwn, ReachedIsOwn
  <2> QED BY <2>1, <2>3, <2>4 DEF KeysInv
<1>2. KeysInv /\ TunnelsTypeOK' /\ [TunnelsNext]_tunnelVars => KeysInv'
  <2> SUFFICES ASSUME KeysInv, TunnelsTypeOK', [TunnelsNext]_tunnelVars PROVE KeysInv'
    OBVIOUS
  <2>1. CASE TunnelsNext
    BY <2>1, RunOwn DEF TunnelsNext
  <2>2. CASE UNCHANGED tunnelVars
    BY <2>2, StaysOwn DEF tunnelVars, Unscanned
  <2> QED BY <2>1, <2>2
<1> QED BY <1>1, <1>2, TunnelsTypeCorrect, PTL DEF TunnelsSpec

\* The command of a run logs in to its own cluster alone, however many runs of
\* whichever clusters meet at the ports of one machine, unless a port went to
\* another run between a check and a scan of a run of that cluster.
THEOREM CommandsReachTheirCluster == TunnelsSpec => []ReachesItsOwnCluster
<1>1. KeysInv => ReachesItsOwnCluster
  BY DEF KeysInv, ReachedIsOwn, NoneRaced, ReachesItsOwnCluster
<1> QED BY <1>1, KeysInvariant, PTL
=============================================================================
