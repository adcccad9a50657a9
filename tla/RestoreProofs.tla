----------------------------- MODULE RestoreProofs -----------------------------
(***************************************************************************)
(* Proofs about Backup and Restore, for every number of writes, sets and     *)
(* Jobs, and every set of faults. BackupInv says what a Pod whose sidecar    *)
(* did not start again has staged and uploaded: one snapshot, in the order   *)
(* of the uploads. SetsInOrder compares the sets, RestoreInv says what the   *)
(* script of a restore has loaded at each of its commands.                   *)
(***************************************************************************)
EXTENDS Restore, TLAPS, FiniteSetTheorems, WellFoundedInduction

-----------------------------------------------------------------------------
(* Lemmas about the operators of the model.                                 *)

\* The order of the numbers, as a relation.
Less == {p \in Nat \X Nat : p[1] < p[2]}

\* The last of the sorted names, and of the logged writes, is the largest one.
LEMMA MaxOfNaturals ==
  ASSUME NEW N \in Nat, NEW S \in SUBSET (0..N), S # {}
  PROVE  Max(S) \in S /\ \A y \in S : y <= Max(S)
<1> DEFINE Below == {N - y : y \in S}
<1>1. Below \subseteq Nat
  OBVIOUS
<1>2. Below # {}
  <2>1. PICK y \in S : TRUE
    OBVIOUS
  <2>2. N - y \in Below
    OBVIOUS
  <2> QED BY <2>2
<1>3. IsWellFoundedOn(Less, Nat)
  BY NatLessThanWellFounded DEF OpToRel, Less
<1>4. PICK x \in Below : \A y \in Below : ~(<<y, x>> \in Less)
  <2> HIDE DEF Below
  <2> QED BY <1>1, <1>2, <1>3, WFMin
<1>5. ASSUME NEW y \in Below PROVE x <= y
  <2>1. x \in Nat /\ y \in Nat /\ <<y, x>> \notin Less
    <3> HIDE DEF Below
    <3> QED BY <1>1, <1>4
  <2>2. <<y, x>> \in Nat \X Nat => ~(y < x)
    BY <2>1 DEF Less
  <2> QED BY <2>1, <2>2
<1>6. PICK m \in S : x = N - m
  BY <1>4
<1>7. ASSUME NEW y \in S PROVE m >= y
  <2>1. N - m <= N - y
    BY <1>5, <1>6
  <2>2. m \in Nat /\ y \in Nat
    OBVIOUS
  <2> QED BY <2>1, <2>2
<1> QED BY <1>6, <1>7 DEF Max

\* What an archive holds is nothing, or one version of the data.
LEMMA ContentForm ==
  \A c : c \in Content <=> c = {} \/ \E v \in Version : c = {v}
<1> USE BackupAssumption
<1>1. IsFiniteSet(Version)
  BY FS_Interval DEF Version
<1>2. ASSUME NEW c \in Content PROVE c = {} \/ \E v \in Version : c = {v}
  <2>1. IsFiniteSet(c) /\ c \subseteq Version /\ Cardinality(c) <= 1
    BY <1>1, FS_Subset DEF Content
  <2>2. Cardinality(c) \in {0, 1}
    BY <2>1, FS_CardinalityType
  <2>3. CASE Cardinality(c) = 0
    BY <2>1, <2>3, FS_EmptySet
  <2>4. CASE Cardinality(c) = 1
    <3>1. PICK x : c = {x}
      BY <2>1, <2>4, FS_Singleton
    <3> QED BY <2>1, <3>1
  <2> QED BY <2>2, <2>3, <2>4
<1>3. {} \in Content
  <2>1. Cardinality({}) = 0
    BY FS_EmptySet
  <2> QED BY <2>1 DEF Content
<1>4. \A v \in Version : {v} \in Content
  <2>1. \A v \in Version : Cardinality({v}) = 1
    BY FS_Singleton
  <2> QED BY <2>1 DEF Content
<1> QED BY <1>2, <1>3, <1>4
-----------------------------------------------------------------------------
(* The inductive invariant of a backup.                                     *)

\* What the containers of a Pod share: nothing without a Pod, and so after the
\* isolation, nothing staged before the dump, a name from the first snapshot on.
PodShares ==
  /\ at = "none" <=> sidecar = "gone"
  /\ isolated => at = "none"
  /\ at = "none" => created = 0 /\ flag = "none"
  /\ at \in {"none", "dump"} => staged = NoFiles
  /\ at \notin {"none", "dump"} => flag # "none"
  /\ created = 0 => flag = "none" /\ sidecar \in {"gone", "start"}

\* A name that was not made yet names nothing; the Pod works on the last one.
NamesAreFresh ==
  /\ \A n \in Names : n > clock => bucket[n] = Empty /\ n \notin shaken
  /\ created # 0 => created = clock

\* Whether the Pod has a name that no restart of its sidecar has shaken.
Steady == created # 0 /\ created \notin shaken

\* Such a Pod took one snapshot, of what was live, and read nothing else.
OneSnapshot ==
  Steady =>
    /\ sidecar = "create" => flag = "none"
    /\ flag = "ok" => \E v \in 1..live : lv = {v}
    /\ at \notin {"none", "dump"} => flag = "ok"
    /\ at = "archive" => staged.dump = lv
    /\ at \in {"put-dump", "put-archive", "put-manifest"} =>
         staged = [dump |-> lv, archive |-> lv]

\* And its objects appear in the order of the uploads.
UploadsInOrder ==
  Steady =>
    /\ bucket[created].manifest = {}
    /\ at \in {"dump", "archive", "put-dump"} => bucket[created].files = NoFiles
    /\ at = "put-archive" => bucket[created].files.dump = staged.dump
    /\ at = "put-manifest" => bucket[created].files = staged

BackupInv ==
  /\ BackupTypeOK
  /\ PodShares
  /\ NamesAreFresh
  /\ OneSnapshot
  /\ UploadsInOrder
  /\ CompleteSetsAreWhole

\* A snapshot holds what was live, and later sets hold later writes.
SetsInOrder ==
  /\ \A m \in Names \ shaken, v \in Version : Complete(m) /\ v \in bucket[m].files.dump =>
       /\ v <= live
       /\ \A n \in Names \ shaken : Complete(n) /\ m < n => \A w \in bucket[n].files.dump : v <= w
       /\ Steady /\ flag = "ok" => \A w \in lv : v <= w

-----------------------------------------------------------------------------
(* The inductive invariant of a restore.                                    *)

\* What the script knows at each of its commands.
ScriptKnows ==
  /\ job \in {"none", "select", "failed"} => script = Running /\ chosen = {} /\ final = FALSE
  /\ job \notin {"none", "select", "failed"} => chosen # {}
  /\ job \in {"verify", "pause", "complete"} => script = Running
  /\ job \in {"drop", "load", "wipe", "unpack"} => script.destructive
  /\ play = "start" => job = "none"

\* Gitea is down while the data is replaced, and a script that would start it
\* again over partial data found the data so.
StoppedWhilePartial ==
  /\ job \in {"drop", "load", "wipe", "unpack", "resume"} => blind \/ gitea = "down"
  /\ job \in {"resume", "complete"} => ~partial
  /\ partial => gitea = "down" \/ again \/ blind
  /\ partial /\ script.paused /\ ~script.destructive => again
  /\ job = "complete" => gitea = "up"

\* A playbook that passed left a Job that is complete, and while the settings
\* suspend the backups no CronJob of the recovery cluster runs, or was found so.
PassedOrSuspended ==
  /\ passed => play = "none" /\ job = "complete"
  /\ setting => cron # "active" /\ before # "active" /\ captured = {}

\* What was loaded is the chosen set as it still is.
LoadedIsChosen ==
  \A n \in chosen :
    /\ Complete(n)
    /\ job \in {"wipe", "unpack", "resume", "complete"} /\ n \notin shaken => db = bucket[n].files.dump
    /\ job \in {"resume", "complete"} /\ n \notin shaken => volume = bucket[n].files.archive
    /\ final => isolated /\ \A m \in Names : Complete(m) => m <= n

\* The inductive invariant, together with the invariants of the backups.
RestoreInv ==
  /\ RestoreTypeOK
  /\ ScriptKnows
  /\ StoppedWhilePartial
  /\ PassedOrSuspended
  /\ LoadedIsChosen

-----------------------------------------------------------------------------
(* Every step of a backup keeps BackupInv and SetsInOrder.                  *)

\* An upload stores an object of the set that /state/created names.
LEMMA StoredType ==
  ASSUME BackupTypeOK, NEW step \in {"put-dump", "put-archive", "put-manifest"}
  PROVE  Stored(step) \in [Names -> [files : Files, manifest : SUBSET Files]]
<1>1. CASE step = "put-dump"
  BY <1>1 DEF BackupTypeOK, Stored, Files
<1>2. CASE step = "put-archive"
  BY <1>2 DEF BackupTypeOK, Stored, Files
<1>3. CASE step = "put-manifest"
  BY <1>3 DEF BackupTypeOK, Stored, Files
<1> QED BY <1>1, <1>2, <1>3

\* The uploads follow each other, and the manifest is the last.
LEMMA AfterSteps ==
  /\ After("put-dump") = "put-archive"
  /\ After("put-archive") = "put-manifest"
  /\ After("put-manifest") = "none"
  BY DEF After

\* The Pod that ends leaves no more than its snapshot.
LEMMA PodEndsType ==
  ASSUME BackupTypeOK, PodShares, PodEnds
  PROVE  /\ PodGone /\ lv' \in {{}, lv}
         /\ lv' \in Content /\ staged' \in Files /\ created' = 0
  BY ContentForm DEF PodEnds, PodGone, BackupTypeOK, NoFiles, Files

\* Every step of a backup keeps the types, and what its containers share.
LEMMA BackupTypeStep ==
  ASSUME BackupTypeOK, PodShares, BackupNext
  PROVE  BackupTypeOK' /\ PodShares'
<1> USE BackupAssumption
    DEF BackupTypeOK, PodShares, podVars, Version, Names, CaptureStep, Files, NoFiles
<1>1. CASE Write
  <2>1. live' \in Version \ {0} /\ live < live'
    BY <1>1 DEF Write
  <2>2. log' \subseteq (1..live') \cup {MaxWrites + 1}
    <3>1. 1..live \subseteq 1..live' /\ live' \in 1..live'
      BY <2>1
    <3>2. log' \subseteq log \cup {live'}
      BY <1>1 DEF Write
    <3> QED BY <3>1, <3>2
  <2> QED BY <1>1, <2>1, <2>2 DEF Write
<1>2. CASE Isolate
  BY <1>2, ContentForm DEF Isolate, PodGone
<1>3. CASE StartPod
  BY <1>3 DEF StartPod
<1>4. CASE NameSet
  BY <1>4, ContentForm DEF NameSet
<1>5. CASE TakeSnapshot
  BY <1>5, ContentForm DEF TakeSnapshot
<1>6. CASE SidecarRestarts
  BY <1>6 DEF SidecarRestarts
<1>7. CASE PodFails
  BY <1>7, PodEndsType DEF PodFails, PodGone
<1>8. CASE Dump
  BY <1>8 DEF Dump
<1>9. CASE Archive
  BY <1>9, ContentForm DEF Archive
<1>10. CASE Put
  <2>1. bucket' \in [Names -> [files : Files, manifest : SUBSET Files]]
    BY <1>10, StoredType DEF Put
  <2>2. UNCHANGED <<live, log, marked, isolated, clock, shaken>>
    BY <1>10 DEF Put
  <2>3. CASE PodEnds
    BY <2>1, <2>2, <2>3, PodEndsType DEF PodGone
  <2>4. CASE /\ at \in {"put-dump", "put-archive"} /\ at' \in {"put-archive", "put-manifest"}
             /\ UNCHANGED <<lv, sidecar, created, flag, staged>>
    BY <2>1, <2>2, <2>4
  <2> QED BY <1>10, <2>3, <2>4, AfterSteps DEF Put
<1>11. CASE MarkIsolation
  BY <1>11 DEF MarkIsolation
<1> QED BY <1>1, <1>2, <1>3, <1>4, <1>5, <1>6, <1>7, <1>8, <1>9, <1>10, <1>11 DEF BackupNext

\* A set with a manifest that is not shaken afterwards stays as it is.
LEMMA SetsStay ==
  ASSUME BackupInv, BackupNext, NEW n \in Names
  PROVE  /\ n \notin shaken' => n \notin shaken
         /\ n # created => bucket'[n] = bucket[n]
         /\ Complete(n)' /\ ~Complete(n) => n = created /\ at = "put-manifest"
         /\ Complete(n) => Complete(n)'
         /\ Complete(n) /\ n \notin shaken' => n # created /\ bucket'[n] = bucket[n]
<1> USE DEF BackupInv, BackupTypeOK, podVars
<1>1. n \notin shaken' => n \notin shaken
  BY DEF BackupNext, Write, MarkIsolation, Isolate, StartPod, NameSet, TakeSnapshot, SidecarRestarts, PodFails,
         Dump, Archive, Put
<1>2. \/ bucket' = bucket
      \/ at \in {"put-dump", "put-archive", "put-manifest"} /\ bucket' = Stored(at)
  BY DEF BackupNext, Write, MarkIsolation, Isolate, StartPod, NameSet, TakeSnapshot, SidecarRestarts, PodFails,
         Dump, Archive, Put
<1>3. n # created => bucket'[n] = bucket[n]
  BY <1>2 DEF Stored
<1>4. at \in {"put-dump", "put-archive", "put-manifest"} =>
        Stored(at)[n].manifest = IF n = created /\ at = "put-manifest" THEN {staged} ELSE bucket[n].manifest
  BY DEF Stored, Files
<1>5. Complete(n)' /\ ~Complete(n) => n = created /\ at = "put-manifest"
  BY <1>2, <1>4 DEF Complete
<1>6. Complete(n) => Complete(n)'
  BY <1>2, <1>4 DEF Complete
<1>7. Complete(n) /\ n \notin shaken => n # created
  BY DEF Complete, UploadsInOrder, Steady, PodShares, Names
<1> QED BY <1>1, <1>3, <1>5, <1>6, <1>7

\* Names stay fresh until they are made: the Pod works on the last one.
LEMMA FreshStep ==
  ASSUME BackupInv, BackupNext
  PROVE  NamesAreFresh'
<1> USE BackupAssumption DEF BackupInv, BackupTypeOK, NamesAreFresh, PodShares, podVars, Names
<1>1. CASE NameSet
  <2>1. created' = clock + 1 /\ clock' = clock + 1 /\ bucket' = bucket
    BY <1>1 DEF NameSet
  <2>2. shaken' \subseteq shaken \cup {created, created'}
    BY <1>1 DEF NameSet
  <2>3. \A n \in Names : n > clock' => n > clock /\ n # created /\ n # created'
    BY <2>1
  <2> QED BY <2>1, <2>2, <2>3
<1>2. CASE ~NameSet
  <2>1. clock' = clock /\ shaken' = shaken /\ created' \in {0, created}
    BY <1>2 DEF BackupNext, Write, MarkIsolation, Isolate, StartPod, TakeSnapshot, SidecarRestarts, PodFails,
           Dump, Archive, Put, PodEnds, PodGone
  <2>2. \A n \in Names : n > clock => bucket'[n] = bucket[n]
    BY SetsStay
  <2> QED BY <2>1, <2>2
<1> QED BY <1>1, <1>2

\* A Pod whose sidecar did not start again keeps its snapshot.
LEMMA SnapshotStep ==
  ASSUME BackupInv, BackupNext
  PROVE  OneSnapshot'
<1> USE BackupAssumption
    DEF BackupInv, BackupTypeOK, OneSnapshot, Steady, PodShares, podVars, Names, Version
<1>1. CASE Write
  BY <1>1 DEF Write
<1>2. CASE Isolate
  BY <1>2 DEF Isolate, PodGone
<1>3. CASE StartPod
  BY <1>3 DEF StartPod
<1>4. CASE NameSet
  BY <1>4 DEF NameSet
<1>5. CASE TakeSnapshot
  BY <1>5 DEF TakeSnapshot
<1>6. CASE SidecarRestarts
  BY <1>6 DEF SidecarRestarts
<1>7. CASE PodFails
  BY <1>7 DEF PodFails, PodEnds, PodGone
<1>8. CASE Dump
  BY <1>8 DEF Dump, Files
<1>9. CASE Archive
  BY <1>9 DEF Archive, Files
<1>10. CASE Put
  BY <1>10, AfterSteps DEF Put, PodEnds, PodGone
<1>11. CASE MarkIsolation
  BY <1>11 DEF MarkIsolation
<1> QED BY <1>1, <1>2, <1>3, <1>4, <1>5, <1>6, <1>7, <1>8, <1>9, <1>10, <1>11 DEF BackupNext

\* Such a Pod stores the dump, the archive and the manifest, in this order.
LEMMA UploadsStep ==
  ASSUME BackupInv, BackupNext
  PROVE  UploadsInOrder'
<1> USE BackupAssumption
    DEF BackupInv, BackupTypeOK, UploadsInOrder, Steady, PodShares, NamesAreFresh, podVars, Names
<1>1. CASE Write
  BY <1>1 DEF Write
<1>2. CASE Isolate
  BY <1>2 DEF Isolate, PodGone
<1>3. CASE StartPod
  BY <1>3 DEF StartPod
<1>4. CASE NameSet
  BY <1>4 DEF NameSet, Empty
<1>5. CASE TakeSnapshot
  BY <1>5 DEF TakeSnapshot
<1>6. CASE SidecarRestarts
  BY <1>6 DEF SidecarRestarts
<1>7. CASE PodFails
  BY <1>7 DEF PodFails, PodEnds, PodGone
<1>8. CASE Dump
  BY <1>8 DEF Dump
<1>9. CASE Archive
  BY <1>9 DEF Archive
<1>10. CASE Put
  <2>1. CASE created' = 0
    BY <2>1
  <2>2. CASE created' # 0
    <3>1. /\ bucket' = Stored(at) /\ at' = After(at) /\ After(at) # "none"
          /\ UNCHANGED <<created, shaken, staged>>
      BY <1>10, <2>2 DEF Put, PodEnds, PodGone
    <3> QED BY <1>10, <2>2, <3>1, AfterSteps DEF Put, Stored, Files
  <2> QED BY <2>1, <2>2
<1>11. CASE MarkIsolation
  BY <1>11 DEF MarkIsolation
<1> QED BY <1>1, <1>2, <1>3, <1>4, <1>5, <1>6, <1>7, <1>8, <1>9, <1>10, <1>11 DEF BackupNext

\* A set is completed by the last upload of a Pod, with its one snapshot.
LEMMA SetCompleted ==
  ASSUME BackupInv, BackupNext, NEW n \in Names, n \notin shaken', Complete(n)', ~Complete(n)
  PROVE  /\ n = created /\ Steady /\ flag = "ok" /\ UNCHANGED live /\ created' = 0
         /\ bucket'[n] = [files |-> staged, manifest |-> {staged}]
         /\ staged = [dump |-> lv, archive |-> lv]
         /\ \E v \in 1..live : lv = {v}
<1>1. n = created /\ at = "put-manifest" /\ Steady
  BY SetsStay DEF Steady, Names
<1>2. bucket[n].files = staged
  BY <1>1 DEF BackupInv, UploadsInOrder
<1>3. flag = "ok" /\ staged = [dump |-> lv, archive |-> lv] /\ \E v \in 1..live : lv = {v}
  BY <1>1 DEF BackupInv, OneSnapshot
<1>4. \/ bucket' = Stored("put-manifest") /\ live' = live /\ created' = 0
      \/ bucket' = bucket
  BY <1>1, AfterSteps DEF BackupNext, Write, MarkIsolation, Isolate, StartPod, NameSet, TakeSnapshot,
         SidecarRestarts, PodFails, Dump, Archive, Put, PodEnds, PodGone, podVars
<1>5. bucket' = Stored("put-manifest") /\ live' = live /\ created' = 0
  BY <1>4 DEF Complete
<1>6. bucket'[n] = [files |-> staged, manifest |-> {staged}]
  BY <1>1, <1>2, <1>5 DEF Stored, BackupInv, BackupTypeOK, Names
<1> QED BY <1>1, <1>3, <1>5, <1>6

\* A set that is complete is whole, and stays so.
LEMMA WholeStep ==
  ASSUME BackupInv, BackupNext
  PROVE  CompleteSetsAreWhole'
<1> SUFFICES ASSUME NEW n \in Names, n \notin shaken', Complete(n)'
             PROVE  /\ bucket'[n].manifest = {bucket'[n].files}
                    /\ bucket'[n].files.dump = bucket'[n].files.archive
                    /\ bucket'[n].files.dump \notin {{}, {0}}
  BY DEF CompleteSetsAreWhole
<1>1. CASE Complete(n)
  BY <1>1, SetsStay DEF BackupInv, CompleteSetsAreWhole
<1>2. CASE ~Complete(n)
  <2>1. PICK v \in 1..live : lv = {v}
    BY <1>2, SetCompleted
  <2>2. {v} \notin {{}, {0}}
    BY <2>1 DEF BackupInv, BackupTypeOK, Version
  <2> QED BY <1>2, <2>1, <2>2, SetCompleted
<1> QED BY <1>1, <1>2

\* BackupInv is inductive.
LEMMA BackupStep ==
  ASSUME BackupInv, BackupNext
  PROVE  BackupInv'
  BY BackupTypeStep, FreshStep, SnapshotStep, UploadsStep, WholeStep DEF BackupInv

\* A later set, and a snapshot taken after a set, hold what that set holds.
LEMMA OrderStep ==
  ASSUME BackupInv, SetsInOrder, BackupNext
  PROVE  SetsInOrder'
<1> USE BackupAssumption DEF BackupInv, BackupTypeOK, Names, Version
<1> SUFFICES ASSUME NEW m \in Names, m \notin shaken', Complete(m)',
                    NEW v \in Version, v \in bucket'[m].files.dump
             PROVE  /\ v <= live'
                    /\ \A n \in Names \ shaken' : Complete(n)' /\ m < n =>
                         \A w \in bucket'[n].files.dump : v <= w
                    /\ Steady' /\ flag' = "ok" => \A w \in lv' : v <= w
  BY DEF SetsInOrder
<1>1. live' \in Nat /\ live <= live' /\ live \in Nat
  BY DEF BackupNext, Write, MarkIsolation, Isolate, StartPod, NameSet, TakeSnapshot, SidecarRestarts, PodFails,
         Dump, Archive, Put, podVars
<1>2. Complete(m) => /\ v <= live /\ m \notin shaken /\ bucket'[m] = bucket[m]
                     /\ \A n \in Names \ shaken : Complete(n) /\ m < n =>
                          \A w \in bucket[n].files.dump : v <= w
                     /\ Steady /\ flag = "ok" => \A w \in lv : v <= w
  BY SetsStay DEF SetsInOrder
<1>3. ~Complete(m) => m = created /\ UNCHANGED live /\ created' = 0 /\ v \in 1..live
  BY SetCompleted
<1>4. v <= live'
  BY <1>1, <1>2, <1>3
<1>5. ASSUME NEW n \in Names \ shaken', Complete(n)', m < n, NEW w \in bucket'[n].files.dump
      PROVE  v <= w
  <2>1. CASE Complete(n)
    <3>1. n <= clock
      BY <2>1 DEF NamesAreFresh, Complete, Empty
    <3>2. Complete(m)
      BY <1>3, <1>5, <3>1 DEF NamesAreFresh
    <3> QED BY <1>2, <1>5, <2>1, <3>2, SetsStay
  <2>2. CASE ~Complete(n)
    <3>1. n = created /\ Steady /\ flag = "ok" /\ w \in lv
      BY <1>5, <2>2, SetCompleted
    <3>2. Complete(m)
      BY <1>3, <1>5, <3>1
    <3> QED BY <1>2, <3>1, <3>2
  <2> QED BY <2>1, <2>2
<1>6. ASSUME Steady', flag' = "ok", NEW w \in lv' PROVE v <= w
  <2>1. \/ Steady /\ flag = "ok" /\ lv' \subseteq lv
        \/ lv' = {live} /\ bucket' = bucket
    BY <1>6 DEF Steady, PodShares, OneSnapshot, BackupNext, Write, MarkIsolation, Isolate, StartPod, NameSet,
           TakeSnapshot, SidecarRestarts, PodFails, Dump, Archive, Put, PodEnds, PodGone, podVars
  <2>2. Complete(m)
    BY <1>3, <1>6 DEF Steady
  <2> QED BY <1>2, <1>6, <2>1, <2>2
<1> QED BY <1>4, <1>5, <1>6

-----------------------------------------------------------------------------
(* Every step of a restore keeps them, and RestoreInv.                      *)

\* A step of the restore leaves the backups alone, but for a write check in the
\* same log.
LEMMA BackupsAlone ==
  ASSUME RestoreNext
  PROVE  \/ BackupNext /\ UNCHANGED <<clusterVars, playVars, jobVars>>
         \/ UNCHANGED <<live, marked, isolated, podVars>> /\ log' \subseteq log \cup {MaxWrites + 1}
  BY DEF RestoreNext, JobActs, PlayActs, FluxApplies, RecoveryBackup, BackupsAllowed, RecoveryWrite,
         JobFails, JobKilled, Select, Verify, Pause, Scale, PodsGone, Stop, Drop, Load, Wipe, Unpack,
         Resume, PlayStarts, Suspend, Replace, Start, Watch, TaskFails, Always, PlayDies, Unmoved,
         backupVars

\* The invariants of the backups hold of the whole system.
LEMMA BackupInvStep ==
  ASSUME BackupInv, SetsInOrder, [RestoreNext]_vars
  PROVE  BackupInv' /\ SetsInOrder'
<1>1. CASE BackupNext
  BY <1>1, BackupStep, OrderStep
<1>2. CASE UNCHANGED <<live, marked, isolated, podVars>> /\ log' \subseteq log \cup {MaxWrites + 1}
  <2> USE <1>2 DEF BackupInv, podVars
  <2>1. BackupTypeOK'
    BY DEF BackupTypeOK
  <2>2. PodShares' /\ NamesAreFresh' /\ OneSnapshot' /\ UploadsInOrder'
    BY DEF PodShares, NamesAreFresh, OneSnapshot, UploadsInOrder, Steady
  <2>3. CompleteSetsAreWhole' /\ SetsInOrder'
    BY DEF CompleteSetsAreWhole, SetsInOrder, Complete, Steady
  <2> QED BY <2>1, <2>2, <2>3
<1> QED BY <1>1, <1>2, BackupsAlone DEF vars, backupVars

\* A script knows one set: the newest one that has a manifest.
LEMMA NewestSet ==
  ASSUME BackupTypeOK, NEW sets \in SUBSET Names, sets # {}
  PROVE  Newest(sets) \in sets /\ \A m \in sets : m <= Newest(sets)
<1>1. MaxNames \in Nat /\ sets \subseteq 0..MaxNames
  BY BackupAssumption DEF Names
<1> QED BY <1>1, MaxOfNaturals DEF Newest

\* RestoreInv with the steps of BackupNext.
LEMMA RestoreAside ==
  ASSUME RestoreInv, BackupInv, BackupNext, BackupTypeOK', UNCHANGED <<clusterVars, playVars, jobVars>>
  PROVE  RestoreInv'
<1> USE DEF RestoreInv, clusterVars, playVars, jobVars
<1>1. RestoreTypeOK' /\ ScriptKnows' /\ StoppedWhilePartial' /\ PassedOrSuspended'
  BY DEF RestoreTypeOK, ScriptKnows, StoppedWhilePartial, PassedOrSuspended, JobStep, PlayStep, Running
<1>2. isolated => isolated' /\ at = "none"
  BY DEF BackupInv, PodShares, BackupNext, Write, MarkIsolation, Isolate, StartPod, NameSet, TakeSnapshot, SidecarRestarts,
         PodFails, Dump, Archive, Put, podVars
<1>3. LoadedIsChosen'
  <2> SUFFICES ASSUME NEW n \in chosen
               PROVE  /\ Complete(n)'
                      /\ job \in {"wipe", "unpack", "resume", "complete"} /\ n \notin shaken' =>
                           db = bucket'[n].files.dump
                      /\ job \in {"resume", "complete"} /\ n \notin shaken' =>
                           volume = bucket'[n].files.archive
                      /\ final => isolated' /\ \A m \in Names : Complete(m)' => m <= n
    BY DEF LoadedIsChosen
  <2>1. n \in Names /\ Complete(n)
    BY DEF LoadedIsChosen, RestoreTypeOK
  <2>2. Complete(n)' /\ (n \notin shaken' => n \notin shaken /\ bucket'[n] = bucket[n])
    BY <2>1, SetsStay
  <2>3. final => isolated' /\ \A m \in Names : Complete(m)' => m <= n
    BY <1>2, SetsStay DEF LoadedIsChosen
  <2> QED BY <2>2, <2>3 DEF LoadedIsChosen
<1> QED BY <1>1, <1>3
\* No set and one set are both at most one; both contents are.
LEMMA AtMostOne ==
  /\ Cardinality({}) <= 1 /\ \A n \in Nat : Cardinality({n}) <= 1
  /\ {} \in Content
<1>1. Cardinality({}) = 0 /\ \A n \in Nat : Cardinality({n}) = 1
  BY FS_EmptySet, FS_Singleton
<1> QED BY <1>1, ContentForm

\* The commands of the Job keep the types.
LEMMA JobTypes ==
  ASSUME RestoreInv, BackupInv, JobActs
  PROVE  RestoreTypeOK'
<1> USE DEF RestoreInv, RestoreTypeOK, ScriptKnows, Unmoved, Exits, Forgotten, Resumes, JobRuns,
       backupVars, podVars, clusterVars, playVars, jobVars, Version, Files, JobStep, PlayStep,
       BackupTypeOK
<1> USE AtMostOne
<1>1. CASE JobFails
  <2>1. script' \in [paused : BOOLEAN, destructive : BOOLEAN]
    BY <1>1 DEF JobFails, Running
  <2>2. (job' \in JobStep /\ blind' \in BOOLEAN /\ again' \in BOOLEAN /\ partial' \in BOOLEAN)
    BY <1>1 DEF JobFails
  <2>3. chosen' \subseteq Names /\ Cardinality(chosen') <= 1 /\ final' \in BOOLEAN
    BY <1>1 DEF JobFails
  <2>4. gitea' \in {"up", "stopping", "down"} /\ db' \in Content /\ volume' \in Content
    BY <1>1 DEF JobFails
  <2>5. BackupTypeOK' /\ jobs' \in 0..MaxJobs
    BY <1>1 DEF JobFails
  <2> QED BY <1>1, <2>1, <2>2, <2>3, <2>4, <2>5 DEF JobFails
<1>2. CASE JobKilled
  <2>1. script' \in [paused : BOOLEAN, destructive : BOOLEAN]
    BY <1>2 DEF JobKilled, Running
  <2>2. (job' \in JobStep /\ blind' \in BOOLEAN /\ again' \in BOOLEAN /\ partial' \in BOOLEAN)
    BY <1>2 DEF JobKilled
  <2>3. chosen' \subseteq Names /\ Cardinality(chosen') <= 1 /\ final' \in BOOLEAN
    BY <1>2 DEF JobKilled
  <2>4. gitea' \in {"up", "stopping", "down"} /\ db' \in Content /\ volume' \in Content
    BY <1>2 DEF JobKilled
  <2>5. BackupTypeOK' /\ jobs' \in 0..MaxJobs
    BY <1>2 DEF JobKilled
  <2> QED BY <1>2, <2>1, <2>2, <2>3, <2>4, <2>5 DEF JobKilled
<1>3. CASE Select
  <2> DEFINE sets == {n \in Names : Complete(n)}
  <2>0. Newest(sets) \in sets
    BY <1>3, NewestSet DEF Select
  <2>1. PICK n \in Names : chosen' = {n}
    BY <1>3, <2>0 DEF Select
  <2>2. chosen' \subseteq Names /\ Cardinality(chosen') <= 1
    BY <2>1 DEF Names
  <2> QED BY <1>3, <2>2 DEF Select
<1>4. CASE Verify
  BY <1>4 DEF Verify
<1>5. CASE Pause
  <2>1. script' \in [paused : BOOLEAN, destructive : BOOLEAN]
    BY <1>5 DEF Pause, Running
  <2>2. (job' \in JobStep /\ blind' \in BOOLEAN /\ again' \in BOOLEAN /\ partial' \in BOOLEAN)
    BY <1>5 DEF Pause
  <2>3. chosen' \subseteq Names /\ Cardinality(chosen') <= 1 /\ final' \in BOOLEAN
    BY <1>5 DEF Pause
  <2>4. gitea' \in {"up", "stopping", "down"} /\ db' \in Content /\ volume' \in Content
    BY <1>5 DEF Pause
  <2>5. BackupTypeOK' /\ jobs' \in 0..MaxJobs
    BY <1>5 DEF Pause
  <2> QED BY <1>5, <2>1, <2>2, <2>3, <2>4, <2>5 DEF Pause
<1>6. CASE Scale
  BY <1>6 DEF Scale
<1>7. CASE PodsGone
  BY <1>7 DEF PodsGone
<1>8. CASE Stop
  <2>1. script' \in [paused : BOOLEAN, destructive : BOOLEAN]
    BY <1>8 DEF Stop, Running
  <2>2. (job' \in JobStep /\ blind' \in BOOLEAN /\ again' \in BOOLEAN /\ partial' \in BOOLEAN)
    BY <1>8 DEF Stop
  <2>3. chosen' \subseteq Names /\ Cardinality(chosen') <= 1 /\ final' \in BOOLEAN
    BY <1>8 DEF Stop
  <2>4. gitea' \in {"up", "stopping", "down"} /\ db' \in Content /\ volume' \in Content
    BY <1>8 DEF Stop
  <2>5. BackupTypeOK' /\ jobs' \in 0..MaxJobs
    BY <1>8 DEF Stop
  <2> QED BY <1>8, <2>1, <2>2, <2>3, <2>4, <2>5 DEF Stop
<1>9. CASE Drop
  BY <1>9 DEF Drop
<1>10. CASE Load
  BY <1>10 DEF Load
<1>11. CASE Wipe
  BY <1>11 DEF Wipe
<1>12. CASE Unpack
  <2>1. script' \in [paused : BOOLEAN, destructive : BOOLEAN]
    BY <1>12 DEF Unpack, Running
  <2>2. (job' \in JobStep /\ blind' \in BOOLEAN /\ again' \in BOOLEAN /\ partial' \in BOOLEAN)
    BY <1>12 DEF Unpack
  <2>3. chosen' \subseteq Names /\ Cardinality(chosen') <= 1 /\ final' \in BOOLEAN
    BY <1>12 DEF Unpack
  <2>4. gitea' \in {"up", "stopping", "down"} /\ db' \in Content /\ volume' \in Content
    BY <1>12 DEF Unpack
  <2>5. BackupTypeOK' /\ jobs' \in 0..MaxJobs
    BY <1>12 DEF Unpack
  <2> QED BY <1>12, <2>1, <2>2, <2>3, <2>4, <2>5 DEF Unpack
<1>13. CASE Resume
  BY <1>13 DEF Resume, Running
<1> QED BY <1>1, <1>2, <1>3, <1>4, <1>5, <1>6, <1>7, <1>8, <1>9, <1>10, <1>11, <1>12, <1>13 DEF JobActs

\* The commands of the Job keep Gitea stopped over partial data.
LEMMA JobStops ==
  ASSUME RestoreInv, BackupInv, JobActs
  PROVE  StoppedWhilePartial'
<1> USE DEF RestoreInv, RestoreTypeOK, ScriptKnows, Running, Unmoved, Exits, Forgotten, Resumes, JobRuns,
       backupVars, podVars, clusterVars, playVars, jobVars, Version, Files, JobStep, PlayStep,
       StoppedWhilePartial
<1>1. CASE JobFails
  BY <1>1 DEF JobFails
<1>2. CASE JobKilled
  BY <1>2 DEF JobKilled
<1>3. CASE Select
  BY <1>3 DEF Select
<1>4. CASE Verify
  BY <1>4 DEF Verify
<1>5. CASE Pause
  BY <1>5 DEF Pause
<1>6. CASE Scale
  BY <1>6 DEF Scale
<1>7. CASE PodsGone
  BY <1>7 DEF PodsGone
<1>8. CASE Stop
  BY <1>8 DEF Stop
<1>9. CASE Drop
  BY <1>9 DEF Drop
<1>10. CASE Load
  BY <1>10 DEF Load
<1>11. CASE Wipe
  BY <1>11 DEF Wipe
<1>12. CASE Unpack
  BY <1>12 DEF Unpack
<1>13. CASE Resume
  BY <1>13 DEF Resume
<1> QED BY <1>1, <1>2, <1>3, <1>4, <1>5, <1>6, <1>7, <1>8, <1>9, <1>10, <1>11, <1>12, <1>13 DEF JobActs

\* At each command the script knows what it did.
LEMMA JobKnows ==
  ASSUME RestoreInv, BackupInv, JobActs
  PROVE  ScriptKnows'
<1> USE DEF RestoreInv, RestoreTypeOK, ScriptKnows, Running, Unmoved, Exits, Forgotten, Resumes, JobRuns,
       backupVars, podVars, clusterVars, playVars, jobVars, Version, Files, JobStep, PlayStep
<1>1. CASE JobFails
  BY <1>1 DEF JobFails
<1>2. CASE JobKilled
  BY <1>2 DEF JobKilled
<1>3. CASE Select
  BY <1>3 DEF Select
<1>4. CASE Verify
  BY <1>4 DEF Verify
<1>5. CASE Pause
  BY <1>5 DEF Pause
<1>6. CASE Scale
  BY <1>6 DEF Scale
<1>7. CASE PodsGone
  BY <1>7 DEF PodsGone
<1>8. CASE Stop
  BY <1>8 DEF Stop
<1>9. CASE Drop
  BY <1>9 DEF Drop
<1>10. CASE Load
  BY <1>10 DEF Load
<1>11. CASE Wipe
  BY <1>11 DEF Wipe
<1>12. CASE Unpack
  BY <1>12 DEF Unpack
<1>13. CASE Resume
  BY <1>13 DEF Resume
<1> QED BY <1>1, <1>2, <1>3, <1>4, <1>5, <1>6, <1>7, <1>8, <1>9, <1>10, <1>11, <1>12, <1>13 DEF JobActs

\* No command undoes a restore that has passed.
LEMMA JobPasses ==
  ASSUME RestoreInv, BackupInv, JobActs
  PROVE  PassedOrSuspended'
<1> USE DEF RestoreInv, RestoreTypeOK, ScriptKnows, Running, Unmoved, Exits, Forgotten, Resumes, JobRuns,
       backupVars, podVars, clusterVars, playVars, jobVars, Version, Files, JobStep, PlayStep,
       PassedOrSuspended
<1>1. CASE JobFails
  BY <1>1 DEF JobFails
<1>2. CASE JobKilled
  BY <1>2 DEF JobKilled
<1>3. CASE Select
  BY <1>3 DEF Select
<1>4. CASE Verify
  BY <1>4 DEF Verify
<1>5. CASE Pause
  BY <1>5 DEF Pause
<1>6. CASE Scale
  BY <1>6 DEF Scale
<1>7. CASE PodsGone
  BY <1>7 DEF PodsGone
<1>8. CASE Stop
  BY <1>8 DEF Stop
<1>9. CASE Drop
  BY <1>9 DEF Drop
<1>10. CASE Load
  BY <1>10 DEF Load
<1>11. CASE Wipe
  BY <1>11 DEF Wipe
<1>12. CASE Unpack
  BY <1>12 DEF Unpack
<1>13. CASE Resume
  BY <1>13 DEF Resume
<1> QED BY <1>1, <1>2, <1>3, <1>4, <1>5, <1>6, <1>7, <1>8, <1>9, <1>10, <1>11, <1>12, <1>13 DEF JobActs

\* The commands load the chosen set.
LEMMA JobLoads ==
  ASSUME RestoreInv, BackupInv, JobActs
  PROVE  LoadedIsChosen'
<1> USE DEF RestoreInv, RestoreTypeOK, ScriptKnows, Running, Unmoved, Exits, Forgotten, Resumes, JobRuns,
       backupVars, podVars, clusterVars, playVars, jobVars, Version, Files, JobStep, PlayStep,
       LoadedIsChosen, Complete
<1>1. CASE JobFails
  BY <1>1 DEF JobFails
<1>2. CASE JobKilled
  BY <1>2 DEF JobKilled
<1>3. CASE Select
  BY <1>3, NewestSet DEF Select
<1>4. CASE Verify
  BY <1>4 DEF Verify
<1>5. CASE Pause
  BY <1>5 DEF Pause
<1>6. CASE Scale
  BY <1>6 DEF Scale
<1>7. CASE PodsGone
  BY <1>7 DEF PodsGone
<1>8. CASE Stop
  BY <1>8 DEF Stop
<1>9. CASE Drop
  BY <1>9 DEF Drop
<1>10. CASE Load
  BY <1>10 DEF Load
<1>11. CASE Wipe
  BY <1>11 DEF Wipe
<1>12. CASE Unpack
  BY <1>12 DEF Unpack
<1>13. CASE Resume
  BY <1>13 DEF Resume
<1> QED BY <1>1, <1>2, <1>3, <1>4, <1>5, <1>6, <1>7, <1>8, <1>9, <1>10, <1>11, <1>12, <1>13 DEF JobActs

-----------------------------------------------------------------------------
(* The playbook and the recovery cluster.                                   *)

\* The tasks of the playbook keep the types.
LEMMA PlayTypes ==
  ASSUME RestoreInv, BackupInv, PlayActs
  PROVE  RestoreTypeOK'
<1> USE DEF RestoreInv, RestoreTypeOK, ScriptKnows, Unmoved, Exits, Forgotten, Resumes, JobRuns,
       backupVars, podVars, clusterVars, playVars, jobVars, Version, Files, JobStep, PlayStep,
       BackupTypeOK
<1> USE AtMostOne, MaxJobsAssumption
<1>1. CASE PlayStarts
  <2>1. before' \in {"absent", "suspended", "active"} /\ play' \in PlayStep
    BY <1>1 DEF PlayStarts
  <2>2. passed' \in BOOLEAN
    BY <1>1 DEF PlayStarts
  <2>3. UNCHANGED <<backupVars, clusterVars, jobVars>>
    BY <1>1 DEF PlayStarts
  <2> QED BY <2>1, <2>2, <2>3
<1>2. CASE Suspend
  BY <1>2 DEF Suspend
<1>3. CASE Replace
  <2>1. script' \in [paused : BOOLEAN, destructive : BOOLEAN]
    <3>1. script' \in {script, Running}
      BY <1>3 DEF Replace, Running
    <3>2. Running \in [paused : BOOLEAN, destructive : BOOLEAN]
      BY DEF Running
    <3> QED BY <3>1, <3>2
  <2>2. chosen' \subseteq Names /\ Cardinality(chosen') <= 1 /\ final' \in BOOLEAN
    BY <1>3 DEF Replace
  <2>3. job' \in JobStep /\ gitea' \in {"up", "stopping", "down"}
    BY <1>3 DEF Replace
  <2> QED BY <1>3, <2>1, <2>2, <2>3 DEF Replace
<1>4. CASE Start
  BY <1>4 DEF Start
<1>5. CASE Watch
  BY <1>5 DEF Watch
<1>6. CASE TaskFails
  BY <1>6 DEF TaskFails
<1>7. CASE Always
  BY <1>7 DEF Always
<1>8. CASE PlayDies
  BY <1>8 DEF PlayDies
<1> QED BY <1>1, <1>2, <1>3, <1>4, <1>5, <1>6, <1>7, <1>8 DEF PlayActs

\* The tasks keep what the script knows.
LEMMA PlayKnows ==
  ASSUME RestoreInv, BackupInv, PlayActs
  PROVE  ScriptKnows'
<1> USE DEF RestoreInv, RestoreTypeOK, ScriptKnows, Running, Unmoved, Exits, Forgotten, Resumes, JobRuns,
       backupVars, podVars, clusterVars, playVars, jobVars, Version, Files, JobStep, PlayStep
<1>1. CASE PlayStarts
  BY <1>1 DEF PlayStarts
<1>2. CASE Suspend
  BY <1>2 DEF Suspend
<1>3. CASE Replace
  BY <1>3 DEF Replace
<1>4. CASE Start
  BY <1>4 DEF Start
<1>5. CASE Watch
  BY <1>5 DEF Watch
<1>6. CASE TaskFails
  BY <1>6 DEF TaskFails
<1>7. CASE Always
  BY <1>7 DEF Always
<1>8. CASE PlayDies
  BY <1>8 DEF PlayDies
<1> QED BY <1>1, <1>2, <1>3, <1>4, <1>5, <1>6, <1>7, <1>8 DEF PlayActs

\* The tasks keep Gitea stopped over partial data.
LEMMA PlayStops ==
  ASSUME RestoreInv, BackupInv, PlayActs
  PROVE  StoppedWhilePartial'
<1> USE DEF RestoreInv, RestoreTypeOK, ScriptKnows, Running, Unmoved, Exits, Forgotten, Resumes, JobRuns,
       backupVars, podVars, clusterVars, playVars, jobVars, Version, Files, JobStep, PlayStep,
       StoppedWhilePartial
<1>1. CASE PlayStarts
  BY <1>1 DEF PlayStarts
<1>2. CASE Suspend
  BY <1>2 DEF Suspend
<1>3. CASE Replace
  BY <1>3 DEF Replace
<1>4. CASE Start
  BY <1>4 DEF Start
<1>5. CASE Watch
  BY <1>5 DEF Watch
<1>6. CASE TaskFails
  BY <1>6 DEF TaskFails
<1>7. CASE Always
  BY <1>7 DEF Always
<1>8. CASE PlayDies
  BY <1>8 DEF PlayDies
<1> QED BY <1>1, <1>2, <1>3, <1>4, <1>5, <1>6, <1>7, <1>8 DEF PlayActs

\* The last one that passes leaves a script that is complete.
LEMMA PlayPasses ==
  ASSUME RestoreInv, BackupInv, PlayActs
  PROVE  PassedOrSuspended'
<1> USE DEF RestoreInv, RestoreTypeOK, ScriptKnows, Running, Unmoved, Exits, Forgotten, Resumes, JobRuns,
       backupVars, podVars, clusterVars, playVars, jobVars, Version, Files, JobStep, PlayStep,
       PassedOrSuspended, ResumeCronJob, JobPassed
<1>1. CASE PlayStarts
  BY <1>1 DEF PlayStarts
<1>2. CASE Suspend
  BY <1>2 DEF Suspend
<1>3. CASE Replace
  BY <1>3 DEF Replace
<1>4. CASE Start
  BY <1>4 DEF Start
<1>5. CASE Watch
  BY <1>5 DEF Watch
<1>6. CASE TaskFails
  BY <1>6 DEF TaskFails
<1>7. CASE Always
  BY <1>7 DEF Always
<1>8. CASE PlayDies
  BY <1>8 DEF PlayDies
<1> QED BY <1>1, <1>2, <1>3, <1>4, <1>5, <1>6, <1>7, <1>8 DEF PlayActs

\* The tasks change neither the chosen set nor what was loaded.
LEMMA PlayLoads ==
  ASSUME RestoreInv, BackupInv, PlayActs
  PROVE  LoadedIsChosen'
<1> USE DEF RestoreInv, RestoreTypeOK, ScriptKnows, Running, Unmoved, Exits, Forgotten, Resumes, JobRuns,
       backupVars, podVars, clusterVars, playVars, jobVars, Version, Files, JobStep, PlayStep,
       LoadedIsChosen, Complete
<1>1. CASE PlayStarts
  BY <1>1 DEF PlayStarts
<1>2. CASE Suspend
  BY <1>2 DEF Suspend
<1>3. CASE Replace
  BY <1>3 DEF Replace
<1>4. CASE Start
  BY <1>4 DEF Start
<1>5. CASE Watch
  BY <1>5 DEF Watch
<1>6. CASE TaskFails
  BY <1>6 DEF TaskFails
<1>7. CASE Always
  BY <1>7 DEF Always
<1>8. CASE PlayDies
  BY <1>8 DEF PlayDies
<1> QED BY <1>1, <1>2, <1>3, <1>4, <1>5, <1>6, <1>7, <1>8 DEF PlayActs

\* The recovery cluster resumes its backups after a restore that passed.
LEMMA ClusterSteps ==
  ASSUME RestoreInv, BackupInv, FluxApplies \/ RecoveryBackup \/ BackupsAllowed \/ RecoveryWrite
  PROVE  RestoreInv'
<1> USE DEF RestoreInv, RestoreTypeOK, ScriptKnows, Unmoved, Exits, Forgotten, Resumes, JobRuns,
       backupVars, podVars, clusterVars, playVars, jobVars, Version, Files, JobStep, PlayStep,
       FluxApplies, RecoveryBackup, BackupsAllowed, RecoveryWrite
<1>1. RestoreTypeOK'
  <2>1. captured' \subseteq {"partial"}
    OBVIOUS
  <2>2. log' \subseteq (1..live') \cup {MaxWrites + 1}
    BY DEF BackupTypeOK
  <2>3. BackupTypeOK'
    BY <2>2 DEF BackupTypeOK
  <2>4. cron' \in {"absent", "suspended", "active"} /\ setting' \in BOOLEAN
    OBVIOUS
  <2>5. UNCHANGED <<play, before, passed, jobVars>>
    OBVIOUS
  <2> QED BY <2>1, <2>3, <2>4, <2>5
<1>2. ScriptKnows' /\ StoppedWhilePartial'
  BY DEF StoppedWhilePartial
<1>3. PassedOrSuspended'
  <2>1. CASE FluxApplies
    BY <2>1 DEF PassedOrSuspended
  <2>2. CASE RecoveryBackup
    BY <2>2 DEF PassedOrSuspended
  <2>3. CASE BackupsAllowed
    BY <2>3 DEF PassedOrSuspended
  <2>4. CASE RecoveryWrite
    BY <2>4 DEF PassedOrSuspended
  <2> QED BY <2>1, <2>2, <2>3, <2>4
<1>4. LoadedIsChosen'
  BY DEF LoadedIsChosen, Complete
<1> QED BY <1>1, <1>2, <1>3, <1>4

\* RestoreInv and the invariants of the backups are inductive.
LEMMA RestoreStep ==
  ASSUME RestoreInv, BackupInv, SetsInOrder, [RestoreNext]_vars
  PROVE  RestoreInv' /\ BackupInv' /\ SetsInOrder'
<1>1. BackupInv' /\ SetsInOrder'
  BY BackupInvStep
<1>2. CASE JobActs
  BY <1>1, <1>2, JobTypes, JobStops, JobKnows, JobPasses, JobLoads DEF RestoreInv
<1>3. CASE PlayActs
  BY <1>1, <1>3, PlayTypes, PlayStops, PlayKnows, PlayPasses, PlayLoads DEF RestoreInv
<1>4. CASE FluxApplies \/ RecoveryBackup \/ BackupsAllowed \/ RecoveryWrite
  BY <1>1, <1>4, ClusterSteps
<1>5. CASE BackupNext /\ UNCHANGED <<clusterVars, playVars, jobVars>>
  BY <1>1, <1>5, RestoreAside DEF BackupInv
<1>6. CASE UNCHANGED vars
  BY <1>1, <1>6 DEF vars, backupVars, podVars, clusterVars, playVars, jobVars, RestoreInv, RestoreTypeOK,
         BackupTypeOK, ScriptKnows, StoppedWhilePartial, PassedOrSuspended, LoadedIsChosen, Complete
<1> QED BY <1>1, <1>2, <1>3, <1>4, <1>5, <1>6 DEF RestoreNext

\* Every initial state satisfies them.
LEMMA RestoreStart ==
  ASSUME RestoreInit
  PROVE  RestoreInv /\ BackupInv /\ SetsInOrder
<1> USE BackupAssumption, MaxJobsAssumption, AtMostOne, ContentForm DEF RestoreInit, BackupInit
<1>1. BackupTypeOK
  <2>1. 1 \in Version \ {0} /\ NoFiles \in Files
    BY DEF Version, Files, NoFiles
  <2>2. log \subseteq (1..live) \cup {MaxWrites + 1}
    OBVIOUS
  <2>3. bucket \in [Names -> [files : Files, manifest : SUBSET Files]]
    BY <2>1 DEF Empty
  <2>4. shaken \subseteq Names /\ lv \in Content /\ staged \in Files
    BY <2>1
  <2>5. clock \in 0..MaxNames /\ created \in 0..clock
    OBVIOUS
  <2>6. live \in Version \ {0}
    BY <2>1
  <2>7. marked \in 0..live
    OBVIOUS
  <2>8. isolated \in BOOLEAN
    OBVIOUS
  <2> QED BY <2>2, <2>3, <2>4, <2>5, <2>6, <2>7, <2>8 DEF BackupTypeOK, CaptureStep
<1>2. PodShares /\ NamesAreFresh /\ OneSnapshot /\ UploadsInOrder
  BY DEF PodShares, NamesAreFresh, OneSnapshot, UploadsInOrder, Steady, Names, Empty
<1>3. CompleteSetsAreWhole /\ SetsInOrder
  BY DEF CompleteSetsAreWhole, SetsInOrder, Complete, Empty
<1>4. RestoreTypeOK
  <2>1. {0} \in Content
    BY DEF Version
  <2>2. script \in [paused : BOOLEAN, destructive : BOOLEAN]
    BY DEF Running
  <2>3. chosen \subseteq Names /\ Cardinality(chosen) <= 1
    OBVIOUS
  <2>4. jobs \in 0..MaxJobs
    OBVIOUS
  <2> QED BY <1>1, <2>1, <2>2, <2>3, <2>4 DEF RestoreTypeOK, JobStep, PlayStep
<1>5. ScriptKnows /\ StoppedWhilePartial /\ PassedOrSuspended /\ LoadedIsChosen
  BY DEF ScriptKnows, StoppedWhilePartial, PassedOrSuspended, LoadedIsChosen
<1> QED BY <1>1, <1>2, <1>3, <1>4, <1>5 DEF RestoreInv, BackupInv

-----------------------------------------------------------------------------
(* The theorems. *)

\* In every reachable state the invariants of the backups and of a restore hold.
THEOREM RestoreInvariant == RestoreSpec => [](RestoreInv /\ BackupInv /\ SetsInOrder)
<1>1. RestoreInit => RestoreInv /\ BackupInv /\ SetsInOrder
  BY RestoreStart
<1>2. RestoreInv /\ BackupInv /\ SetsInOrder /\ [RestoreNext]_vars =>
        RestoreInv' /\ BackupInv' /\ SetsInOrder'
  BY RestoreStep
<1> QED BY <1>1, <1>2, PTL DEF RestoreSpec

\* The variables of Backup and Restore keep their types.
THEOREM RestoreTypeCorrect == RestoreSpec => []RestoreTypeOK
<1>1. RestoreInv => RestoreTypeOK
  BY DEF RestoreInv
<1> QED BY <1>1, RestoreInvariant, PTL

\* backup.sh: a set with a manifest has both archives of one snapshot, however
\* Pods fail and requests are repeated, unless its sidecar started again.
THEOREM WholeSets == RestoreSpec => []CompleteSetsAreWhole
<1>1. BackupInv => CompleteSetsAreWhole
  BY DEF BackupInv
<1> QED BY <1>1, RestoreInvariant, PTL

\* restore.sh: while the data is partial Gitea is down, unless a second Job paused
\* it over partial data or failed requests hid its Pods.
THEOREM FailedStaysStopped == RestoreSpec => []FailedRestoreStaysStopped
<1>1. RestoreInv => FailedRestoreStaysStopped
  BY DEF RestoreInv, FailedRestoreStaysStopped, NothingServesPartialRestore, StoppedWhilePartial
<1> QED BY <1>1, RestoreInvariant, PTL

\* restore.yml: after a playbook that passed, Gitea serves one snapshot.
THEOREM PassedIsOneSet == RestoreSpec => []PassedRestoreIsOneSet
<1>1. RestoreInv /\ BackupInv => PassedRestoreIsOneSet
  <2> SUFFICES ASSUME RestoreInv, BackupInv, passed, chosen \cap shaken = {}
               PROVE  db = volume /\ db \notin {{}, {0}} /\ gitea = "up"
    BY DEF PassedRestoreIsOneSet
  <2>1. job = "complete" /\ gitea = "up" /\ chosen # {}
    BY DEF RestoreInv, PassedOrSuspended, ScriptKnows, StoppedWhilePartial
  <2>2. PICK n \in chosen : n \in Names \ shaken
    BY <2>1 DEF RestoreInv, RestoreTypeOK
  <2>3. Complete(n) /\ db = bucket[n].files.dump /\ volume = bucket[n].files.archive
    BY <2>1, <2>2 DEF RestoreInv, LoadedIsChosen
  <2> QED BY <2>1, <2>2, <2>3 DEF BackupInv, CompleteSetsAreWhole
<1> QED BY <1>1, RestoreInvariant, PTL

\* While the settings suspend its backups, the recovery cluster captures no partial data.
THEOREM NoPartialSet == RestoreSpec => []NoSetOfPartialData
<1>1. RestoreInv => NoSetOfPartialData
  BY DEF RestoreInv, PassedOrSuspended, NoSetOfPartialData
<1> QED BY <1>1, RestoreInvariant, PTL

\* drill_report.py: what the report counts as lost no complete set held, and its
\* last write is one of the primary.
THEOREM LossSinceSets == RestoreSpec => []LossIsSinceTheSets
<1>1. RestoreInv /\ BackupInv /\ SetsInOrder => LossIsSinceTheSets
  <2> SUFFICES ASSUME RestoreInv, BackupInv, SetsInOrder,
                      passed, final, chosen \cap shaken = {},
                      NEW head \in db, NEW report \in DataLoss(log, head, marked)
               PROVE  /\ report.last <= marked
                      /\ \A n \in Names \ shaken : Complete(n) =>
                           \A version \in bucket[n].files.dump, w \in report.lost : version < w
    BY DEF LossIsSinceTheSets
  <2>1. job = "complete" /\ chosen # {}
    BY DEF RestoreInv, PassedOrSuspended, ScriptKnows
  <2>2. PICK c \in chosen : c \in Names \ shaken
    BY <2>1 DEF RestoreInv, RestoreTypeOK
  <2>3. Complete(c) /\ db = bucket[c].files.dump /\ \A n \in Names : Complete(n) => n <= c
    BY <2>1, <2>2 DEF RestoreInv, LoadedIsChosen
  <2>4. db = {head} /\ head \in Version
    BY ContentForm DEF RestoreInv, RestoreTypeOK
  <2> DEFINE primary == PrimaryWrites(log, marked)
  <2>5. marked \in Nat /\ MaxWrites \in Nat /\ log \subseteq Nat
    BY BackupAssumption DEF BackupInv, BackupTypeOK, Version
  <2>6. primary \in SUBSET (0..marked) /\ primary \subseteq Nat
    <3>1. \A w \in primary : w \in Nat /\ w <= marked
      BY <2>5 DEF PrimaryWrites
    <3> QED BY <2>5, <3>1
  <2>7. head \in primary /\ report = [last |-> Max(primary), lost |-> {w \in primary : w > head}]
    BY DEF DataLoss
  <2>8. Max(primary) \in primary
    <3> HIDE DEF primary
    <3> QED BY <2>5, <2>6, <2>7, MaxOfNaturals
  <2>9. report.last <= marked
    BY <2>5, <2>7, <2>8 DEF PrimaryWrites
  <2>10. ASSUME NEW n \in Names \ shaken, Complete(n),
                NEW version \in bucket[n].files.dump, NEW w \in report.lost
         PROVE  version < w
    <3>1. version \in Version /\ n <= c /\ n \in Nat /\ c \in Nat
      BY <2>2, <2>3, <2>10, BackupAssumption DEF BackupInv, BackupTypeOK, Files, Content, Names
    <3>2. version <= head
      <4>1. CASE n = c
        <5>1. version = head
          BY <2>3, <2>4, <2>10, <4>1
        <5> QED BY <3>1, <5>1, BackupAssumption DEF Version
      <4>2. CASE n < c
        BY <2>2, <2>3, <2>10, <3>1, <4>2 DEF SetsInOrder
      <4> QED BY <3>1, <4>1, <4>2
    <3>3. w \in Nat /\ w > head
      <4> HIDE DEF primary
      <4> QED BY <2>6, <2>7, <2>10
    <3> QED BY <2>4, <3>1, <3>2, <3>3, BackupAssumption DEF Version
  <2> QED BY <2>9, <2>10
<1> QED BY <1>1, RestoreInvariant, PTL
=============================================================================
