------------------------------- MODULE Tunnels -------------------------------
(***************************************************************************)
(* scripts/run_with_iap.py: a command runs while its run owns one gcloud     *)
(* tunnel per target, and the run reaps its tunnels however it ends. The     *)
(* inventories of both clusters give their targets the same local ports, so  *)
(* two runs on one machine meet at the ports: a port is checked before any   *)
(* tunnel starts, and bound by the tunnel some time later.                   *)
(***************************************************************************)
EXTENDS Naturals, FiniteSets

CONSTANTS
  Runs,      \* the runs on one machine
  Clusters,  \* the clusters that their inventories name
  Targets    \* the number of targets, in the order of REQUIRED_HOSTS

ASSUME TargetsAssumption == Targets \in Nat \ {0}

VARIABLES
  cluster,  \* the cluster of the inventory of each run
  at,       \* the next step of each run
  next,     \* the target that its loop has come to
  tunnel,   \* the child processes of each run
  keys,     \* the clusters whose host keys a run has scanned
  known,    \* the known_hosts file beside the inventory of each cluster
  reached,  \* the clusters that the command of a run has logged in to (history)
  raced     \* a port went to another between the check of a run and its scan (history)

tunnelVars == <<cluster, at, next, tunnel, keys, known, reached, raced>>

Target == 1..Targets
Step == {"load", "check", "start", "ready", "scan", "truncate", "write", "command",
         "terminate", "wait", "ended", "killed"}
InTry == {"start", "ready", "scan", "truncate", "write", "command"}
Alive == {"starting", "listening"}
Keys == [Target -> SUBSET Clusters]
NoKeys == [t \in Target |-> {}]

\* The clusters that answer on the local port of a target: one or none.
Behind(t) == {cluster[r] : r \in {q \in Runs : tunnel[q][t] = "listening"}}
Free(t) == Behind(t) = {}

\* Mutant: the loop takes one step past the last target.
LoopPast(r, then) ==
  IF next[r] <= Targets THEN next' = [next EXCEPT ![r] = @ + 1] /\ UNCHANGED at
  ELSE next' = [next EXCEPT ![r] = 1] /\ at' = [at EXCEPT ![r] = then]

\* A loop over the targets goes on, or is done.
Loop(r, then) ==
  IF next[r] < Targets THEN next' = [next EXCEPT ![r] = @ + 1] /\ UNCHANGED at
  ELSE next' = [next EXCEPT ![r] = 1] /\ at' = [at EXCEPT ![r] = then]

Goes(r, to) == at' = [at EXCEPT ![r] = to] /\ next' = [next EXCEPT ![r] = 1]
Fails(r) == Goes(r, IF at[r] \in InTry THEN "terminate" ELSE "ended")

-----------------------------------------------------------------------------
(* The children. *)

\* The run has found the port of the target free, and has not scanned it yet.
Unscanned(r, t) ==
  \/ at[r] = "check" /\ t < next[r]
  \/ at[r] \in {"start", "ready"}
  \/ at[r] = "scan" /\ next[r] <= t

\* gcloud binds the port, or exits because it is taken.
Bind(r, t) ==
  /\ tunnel[r][t] = "starting"
  /\ tunnel' = [tunnel EXCEPT ![r][t] = IF Free(t) THEN "listening" ELSE "exited"]
  /\ raced' = [q \in Runs |-> raced[q] \/ (Free(t) /\ q # r /\ Unscanned(q, t))]
  /\ UNCHANGED <<cluster, at, next, keys, known, reached>>

\* A tunnel ends by itself, or by the signal that its run has sent.
Exit(r, t) ==
  /\ tunnel[r][t] \in Alive
  /\ tunnel' = [tunnel EXCEPT ![r][t] = "exited"]
  /\ UNCHANGED <<cluster, at, next, keys, known, reached, raced>>

-----------------------------------------------------------------------------
(* The run. *)

\* load_targets: an inventory that does not fit ends the run.
Load(r) ==
  /\ at[r] = "load"
  /\ Goes(r, "check") \/ Fails(r)
  /\ UNCHANGED <<cluster, tunnel, keys, known, reached, raced>>

\* Mutant: the ports are not probed.
CheckNothing(r) ==
  /\ at[r] = "check"
  /\ Loop(r, "start")
  /\ UNCHANGED <<cluster, tunnel, keys, known, reached, raced>>

\* ensure_ports_available: before any tunnel is started.
Check(r) ==
  /\ at[r] = "check"
  /\ IF Free(next[r]) THEN Loop(r, "start") ELSE Fails(r)
  /\ UNCHANGED <<cluster, tunnel, keys, known, reached, raced>>

\* _start_tunnel: one that cannot be started ends the run, and the others.
Start(r) ==
  /\ at[r] = "start"
  /\ \/ tunnel' = [tunnel EXCEPT ![r][next[r]] = "starting"] /\ Loop(r, "ready")
     \/ UNCHANGED tunnel /\ Fails(r)
  /\ UNCHANGED <<cluster, keys, known, reached, raced>>

\* wait_for_tunnel: its own tunnel has not exited, and the port answers, whoever
\* holds it. A port that does not answer in 30 s ends the run.
Ready(r) ==
  /\ at[r] = "ready"
  /\ IF tunnel[r][next[r]] = "exited" \/ Free(next[r]) THEN Fails(r) ELSE Loop(r, "scan")
  /\ UNCHANGED <<cluster, tunnel, keys, known, reached, raced>>

\* scan_host_key: the key of the machine that answers. None in 30 s ends the run.
Scan(r) ==
  /\ at[r] = "scan"
  /\ \/ /\ ~Free(next[r])
        /\ keys' = [keys EXCEPT ![r][next[r]] = Behind(next[r])] /\ Loop(r, "truncate")
     \/ UNCHANGED keys /\ Fails(r)
  /\ UNCHANGED <<cluster, tunnel, known, reached, raced>>

\* write_known_hosts opens the file that all runs of one cluster share, ...
Truncate(r) ==
  /\ at[r] = "truncate"
  /\ known' = [known EXCEPT ![cluster[r]] = NoKeys]
  /\ Goes(r, "write")
  /\ UNCHANGED <<cluster, tunnel, keys, reached, raced>>

\* ... and writes the keys.
Write(r) ==
  /\ at[r] = "write"
  /\ known' = [known EXCEPT ![cluster[r]] = keys[r]]
  /\ Goes(r, "command")
  /\ UNCHANGED <<cluster, tunnel, keys, reached, raced>>

\* The command logs in to a target: StrictHostKeyChecking compares the key.
Connect(r, t) ==
  /\ at[r] = "command"
  /\ Behind(t) \cap known[cluster[r]][t] # {}
  /\ reached' = [reached EXCEPT ![r] = @ \cup Behind(t)]
  /\ UNCHANGED <<cluster, at, next, tunnel, keys, known, raced>>

\* The command ends, whatever its status.
CommandEnds(r) ==
  /\ at[r] = "command"
  /\ Fails(r)
  /\ UNCHANGED <<cluster, tunnel, keys, known, reached, raced>>

\* An exception at any other place: an interrupt, or a file that cannot be written.
Interrupt(r) ==
  /\ at[r] \in {"load", "check"} \cup InTry
  /\ Fails(r)
  /\ UNCHANGED <<cluster, tunnel, keys, known, reached, raced>>

\* _stop_tunnels: every tunnel that runs gets SIGTERM, ...
Terminate(r) ==
  /\ at[r] = "terminate"
  /\ Goes(r, "wait")
  /\ UNCHANGED <<cluster, tunnel, keys, known, reached, raced>>

\* Mutant: a tunnel that has not ended in five seconds is left alone.
WaitWithoutKill(r) ==
  /\ at[r] = "wait"
  /\ Loop(r, "ended")
  /\ UNCHANGED <<cluster, tunnel, keys, known, reached, raced>>

\* Mutant: the wait for a tunnel has no timeout.
WaitForExit(r) ==
  /\ at[r] = "wait"
  /\ tunnel[r][next[r]] \notin Alive
  /\ Loop(r, "ended")
  /\ UNCHANGED <<cluster, tunnel, keys, known, reached, raced>>

\* ... and is waited for in turn. One that has not ended in 5 s is killed.
Wait(r) ==
  /\ at[r] = "wait"
  /\ tunnel' = [tunnel EXCEPT ![r][next[r]] = IF @ \in Alive THEN "exited" ELSE @]
  /\ Loop(r, "ended")
  /\ UNCHANGED <<cluster, keys, known, reached, raced>>

\* SIGTERM, SIGKILL or an interrupt in _stop_tunnels: its tunnels go on.
Kill(r) ==
  /\ at[r] \notin {"ended", "killed"}
  /\ Goes(r, "killed")
  /\ UNCHANGED <<cluster, tunnel, keys, known, reached, raced>>

-----------------------------------------------------------------------------
TunnelsInit ==
  /\ cluster \in [Runs -> Clusters]
  /\ at = [r \in Runs |-> "load"] /\ next = [r \in Runs |-> 1]
  /\ tunnel = [r \in Runs |-> [t \in Target |-> "none"]]
  /\ keys = [r \in Runs |-> NoKeys] /\ known = [c \in Clusters |-> NoKeys]
  /\ reached = [r \in Runs |-> {}] /\ raced = [r \in Runs |-> FALSE]

\* The steps of the code that wait for nothing but their deadlines.
RunActs(r) == Check(r) \/ Start(r) \/ Ready(r) \/ Scan(r) \/ Truncate(r) \/ Write(r) \/ Terminate(r) \/ Wait(r)

RunNext(r) ==
  \/ Load(r) \/ RunActs(r) \/ CommandEnds(r) \/ Interrupt(r) \/ Kill(r)
  \/ \E t \in Target : Bind(r, t) \/ Exit(r, t) \/ Connect(r, t)

TunnelsNext == \E r \in Runs : RunNext(r)

\* No fairness for the children, nor for the end of the command.
TunnelsSpec == TunnelsInit /\ [][TunnelsNext]_tunnelVars /\ \A r \in Runs : WF_tunnelVars(RunActs(r))

-----------------------------------------------------------------------------
\* The type invariant.
TunnelsTypeOK ==
  /\ cluster \in [Runs -> Clusters]
  /\ at \in [Runs -> Step] /\ next \in [Runs -> Target]
  /\ tunnel \in [Runs -> [Target -> {"none", "exited"} \cup Alive]]
  /\ keys \in [Runs -> Keys] /\ known \in [Clusters -> Keys]
  /\ reached \in [Runs -> SUBSET Clusters] /\ raced \in [Runs -> BOOLEAN]

\* A run that ends, whichever step failed or was interrupted, leaves no tunnel,
\* though a tunnel ignores SIGTERM; only a run that is killed does.
AllReaped == \A r \in Runs : at[r] = "ended" => \A t \in Target : tunnel[r][t] \notin Alive

\* The command of a run reaches no machine of the other cluster: not by a tunnel
\* that another run, or one left by a killed run, holds on the same port, nor
\* after its own tunnel ended and the port went to another. It does, with keys
\* just scanned there, when the port went to another after the check of its run,
\* or of a third run that wrote those keys to the file that its cluster shares.
ReachesItsOwnCluster ==
  \A r \in Runs : reached[r] \subseteq {cluster[r]} \/ \E q \in Runs : cluster[q] = cluster[r] /\ raced[q]

\* Every wait but the command's has an end: a run gets to its command or ends,
\* though a tunnel never opens its port, answers no scan, or ignores SIGTERM.
WaitsEnd ==
  \A r \in Runs : at[r] \notin {"load", "command"} ~> at[r] \in {"command", "ended", "killed"}
=============================================================================
