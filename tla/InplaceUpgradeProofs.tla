----------------------- MODULE InplaceUpgradeProofs ------------------------
(***************************************************************************)
(* Machine-checked proofs about InplaceUpgrade, for every number of        *)
(* replicas and every set of faults the theorems allow: first what the     *)
(* pause, the leader key and the wait for the replicas are for; then that  *)
(* InplaceUpgrade implements ClusterUpgrade, every step of the scripts, of *)
(* Patroni and of the operator being a step of the cluster's upgrade or    *)
(* none; and, from the invariant that shows it, that the primary keeps its *)
(* data, that no recovery.conf stays on a replica, and that the initialize *)
(* key and the identifiers that Patroni has cached go together.            *)
(***************************************************************************)
EXTENDS InplaceUpgrade, FiniteSetTheorems, TLAPS

-----------------------------------------------------------------------------
(* Types *)

LEMMA InitTypeOK == Init => TypeOK
  <1> SUFFICES ASSUME Init PROVE TypeOK
    OBVIOUS
  <1> USE DEF Init, Content, Version, Sysid
  <1>1. /\ pc \in ScriptPC /\ dcsLeader \in Nodes /\ dcsInit \in Sysid
        /\ conns \in SUBSET Replicas /\ todo \in SUBSET Replicas
    BY DEF ScriptPC, Nodes
  <1>2. /\ up \in [Nodes -> BOOLEAN] /\ seen \in [Nodes -> BOOLEAN]
        /\ bin \in [Nodes -> Version] /\ sysid \in [Nodes -> Sysid]
    OBVIOUS
  <1>3. /\ dataDir \in [Nodes -> Content] /\ newDir \in [Nodes -> Content]
        /\ oldDir \in [Nodes -> Content] /\ conf \in [Nodes -> Version]
        /\ recConf \in [Nodes -> BOOLEAN]
    OBVIOUS
  <1>4. /\ pg \in [Nodes -> {"down"} \union Version]
        /\ feedback \in [Replicas -> {"none", "ok", "error"}]
        /\ rpc \in [Replicas -> ReplicaPC] /\ replayed \in [Replicas -> BOOLEAN]
    BY DEF ReplicaPC
  <1>5. asked \in SUBSET Nodes /\ crashes \in CrashCount
    BY CrashesAssumption DEF CrashCount
  <1> QED
    BY <1>1, <1>2, <1>3, <1>4, <1>5 DEF TypeOK

\* The values the actions assign belong to the sets of the type invariant.
LEMMA PcValues ==
    /\ "prepare" \in ScriptPC /\ "check" \in ScriptPC /\ "pause" \in ScriptPC
    /\ "pausecas" \in ScriptPC /\ "pausewait" \in ScriptPC /\ "stop" \in ScriptPC
    /\ "rsyncd" \in ScriptPC /\ "waitlsn" \in ScriptPC /\ "upgrade" \in ScriptPC
    /\ "switch" \in ScriptPC /\ "rename" \in ScriptPC /\ "config" \in ScriptPC
    /\ "join" \in ScriptPC /\ "notify" \in ScriptPC /\ "waitsync" \in ScriptPC
    /\ "stoprsyncd" \in ScriptPC /\ "rmkey" \in ScriptPC /\ "kill" \in ScriptPC
    /\ "rmkey2" \in ScriptPC /\ "restart" \in ScriptPC /\ "fixkey" \in ScriptPC
    /\ "waitrestart" \in ScriptPC /\ "resume" \in ScriptPC /\ "finish" \in ScriptPC
    /\ "cleanup" \in ScriptPC /\ "cleanupresume" \in ScriptPC /\ "done" \in ScriptPC
  BY DEF ScriptPC

LEMMA ReplicaPcValues ==
    /\ "launched" \in ReplicaPC /\ "switch" \in ReplicaPC /\ "config" \in ReplicaPC
    /\ "sync" \in ReplicaPC /\ "copying" \in ReplicaPC /\ "revert" \in ReplicaPC
    /\ "revertold" \in ReplicaPC
    /\ "waitprimary" \in ReplicaPC /\ "rmconf" \in ReplicaPC
    /\ "kill" \in ReplicaPC /\ "rmconf2" \in ReplicaPC
    /\ "cleanold" \in ReplicaPC /\ "done" \in ReplicaPC /\ "failed" \in ReplicaPC
  BY DEF ReplicaPC

LEMMA DataValues ==
    /\ "none" \in Content /\ "initdb" \in Content /\ "linked" \in Content
    /\ "new" \in Content /\ "broken" \in Content /\ "torn" \in Content
    /\ "new" \in Version /\ "old" \in Version
    /\ "none" \in Sysid /\ \A c : SysidOf(c) \in Sysid
  BY DEF Content, Version, Sysid, SysidOf

LEMMA NodeValues == Primary \in Nodes /\ Replicas \subseteq Nodes
  BY DEF Nodes

LEMMA ScriptControl == TypeOK /\ Script => pc' \in ScriptPC /\ ret' \in BOOLEAN
  <1> SUFFICES ASSUME TypeOK, Script PROVE pc' \in ScriptPC /\ ret' \in BOOLEAN
    OBVIOUS
  <1>1. ret \in BOOLEAN
    BY DEF TypeOK
  <1> USE <1>1, PcValues DEF Goto, Abort
  <1>2. CASE SanityChecks \/ PrepareNewPgdata \/ CheckAndDrop \/ ReadConfigForPause
    BY <1>2 DEF SanityChecks, PrepareNewPgdata, CheckAndDrop, ReadConfigForPause
  <1>3. CASE WritePause \/ WaitForPause \/ StopPostgres \/ StartRsyncd \/ WaitForReplicas
    BY <1>3 DEF WritePause, WaitForPause, StopPostgres, StartRsyncd, WaitForReplicas
  <1>4. CASE PgUpgrade \/ SwitchPgdataAside \/ SwitchPgdataIn \/ UpdateConfigs
    BY <1>4 DEF PgUpgrade, SwitchPgdataAside, SwitchPgdataIn, UpdateConfigs
  <1>5. CASE JoinCheckpoints \/ \E r \in Replicas : NotifyReplica(r)
    BY <1>5 DEF JoinCheckpoints, NotifyReplica
  <1>6. CASE WaitForFeedback \/ StopRsyncd \/ KillPatroni \/ RestartPrimary
    BY <1>6 DEF WaitForFeedback, StopRsyncd, KillPatroni, RestartPrimary
  <1>7. CASE \/ RemoveInitializeKey("rmkey", "kill")
             \/ RemoveInitializeKey("rmkey2", "restart")
             \/ FixInitializeKey \/ WaitReplicasRestart
    BY <1>7 DEF RemoveInitializeKey, FixInitializeKey, WaitReplicasRestart
  <1>8. CASE \/ ResumeCluster("resume", "finish")
             \/ ResumeCluster("cleanupresume", "done")
             \/ FinishUpgrade \/ PostCleanup
    BY <1>8 DEF ResumeCluster, FinishUpgrade, PostCleanup
  <1> QED
    BY <1>2, <1>3, <1>4, <1>5, <1>6, <1>7, <1>8 DEF Script

LEMMA ScriptTypeOK == TypeOK /\ Script => TypeOK'
  <1> SUFFICES ASSUME TypeOK, Script PROVE TypeOK'
    OBVIOUS
  <1> pc' \in ScriptPC /\ ret' \in BOOLEAN
    BY ScriptControl
  <1> USE DataValues, NodeValues
      DEF TypeOK, Goto, Abort, outside, scriptVars, dcsVars, patroniVars,
          diskVars, pgVars, syncVars, ghostVars
  <1>1. CASE SanityChecks
    BY <1>1 DEF SanityChecks
  <1>2. CASE PrepareNewPgdata
    <2>1. newDir' \in [Nodes -> Content]
      BY <1>2 DEF PrepareNewPgdata
    <2> QED
      BY <1>2, <2>1 DEF PrepareNewPgdata
  <1>3. CASE CheckAndDrop
    BY <1>3 DEF CheckAndDrop
  <1>4. CASE ReadConfigForPause
    BY <1>4 DEF ReadConfigForPause
  <1>5. CASE WritePause
    <2>1. dcsPause' \in BOOLEAN /\ selfPaused' \in BOOLEAN /\ unreleased' \in BOOLEAN
      BY <1>5 DEF WritePause
    <2> QED
      BY <1>5, <2>1 DEF WritePause
  <1>6. CASE WaitForPause
    BY <1>6 DEF WaitForPause
  <1>7. CASE StopPostgres
    BY <1>7 DEF StopPostgres
  <1>8. CASE StartRsyncd
    BY <1>8 DEF StartRsyncd
  <1>9. CASE WaitForReplicas
    BY <1>9 DEF WaitForReplicas
  <1>10. CASE PgUpgrade
    <2>1. newDir' \in [Nodes -> Content] /\ dataDir' \in [Nodes -> Content]
      BY <1>10 DEF PgUpgrade
    <2> QED
      BY <1>10, <2>1 DEF PgUpgrade
  <1>11. CASE SwitchPgdataAside
    <2>1. oldDir' \in [Nodes -> Content] /\ dataDir' \in [Nodes -> Content]
      BY <1>11 DEF SwitchPgdataAside
    <2> QED
      BY <1>11, <2>1 DEF SwitchPgdataAside
  <1>12. CASE SwitchPgdataIn
    <2>1. newDir' \in [Nodes -> Content] /\ dataDir' \in [Nodes -> Content]
      BY <1>12 DEF SwitchPgdataIn
    <2>2. upgraded' \in BOOLEAN
      BY <1>12 DEF SwitchPgdataIn
    <2> QED
      BY <1>12, <2>1, <2>2 DEF SwitchPgdataIn
  <1>13. CASE UpdateConfigs
    <2>1. conf' \in [Nodes -> Version]
      BY <1>13 DEF UpdateConfigs
    <2> QED
      BY <1>13, <2>1 DEF UpdateConfigs
  <1>14. CASE JoinCheckpoints
    BY <1>14 DEF JoinCheckpoints
  <1>15. ASSUME NEW r \in Replicas, NotifyReplica(r) PROVE TypeOK'
    <2>1. /\ conns' \in SUBSET Replicas /\ todo' \in SUBSET Replicas
      BY <1>15 DEF NotifyReplica
    <2>2. rpc' \in [Replicas -> ReplicaPC]
      BY <1>15, ReplicaPcValues DEF NotifyReplica
    <2> QED
      BY <1>15, <2>1, <2>2 DEF NotifyReplica
  <1>16. CASE WaitForFeedback
    BY <1>16 DEF WaitForFeedback
  <1>17. CASE StopRsyncd
    BY <1>17 DEF StopRsyncd, KillRsyncd
  <1>18. CASE RemoveInitializeKey("rmkey", "kill")
    <2>1. dcsInit' \in Sysid
      BY <1>18 DEF RemoveInitializeKey
    <2> QED
      BY <1>18, <2>1 DEF RemoveInitializeKey
  <1>19. CASE KillPatroni
    BY <1>19 DEF KillPatroni
  <1>20. CASE RemoveInitializeKey("rmkey2", "restart")
    <2>1. dcsInit' \in Sysid
      BY <1>20 DEF RemoveInitializeKey
    <2> QED
      BY <1>20, <2>1 DEF RemoveInitializeKey
  <1>21. CASE RestartPrimary
    BY <1>21 DEF RestartPrimary, StartServer
  <1>22. CASE FixInitializeKey
    <2>1. dcsInit' \in Sysid
      BY <1>22 DEF FixInitializeKey
    <2> QED
      BY <1>22, <2>1 DEF FixInitializeKey
  <1>23. CASE WaitReplicasRestart
    BY <1>23 DEF WaitReplicasRestart
  <1>24. CASE ResumeCluster("resume", "finish")
    <2>1. dcsPause' \in BOOLEAN /\ unreleased' \in BOOLEAN /\ unconfirmed' \in BOOLEAN
      BY <1>24 DEF ResumeCluster
    <2> QED
      BY <1>24, <2>1 DEF ResumeCluster
  <1>25. CASE FinishUpgrade
    <2>1. childPaused' \in BOOLEAN
      <3>1. childPaused' \in {FALSE, selfPaused, childPaused}
        BY <1>25 DEF FinishUpgrade
      <3>2. {FALSE, selfPaused, childPaused} \subseteq BOOLEAN
        OBVIOUS
      <3> QED
        BY <3>1, <3>2, Zenon
    <2>2. oldDir' \in [Nodes -> Content]
      BY <1>25 DEF FinishUpgrade
    <2> QED
      BY <1>25, <2>1, <2>2 DEF FinishUpgrade
  <1>26. CASE PostCleanup
    BY <1>26 DEF PostCleanup, KillRsyncd
  <1>27. CASE ResumeCluster("cleanupresume", "done")
    <2>1. dcsPause' \in BOOLEAN /\ unreleased' \in BOOLEAN /\ unconfirmed' \in BOOLEAN
      BY <1>27 DEF ResumeCluster
    <2> QED
      BY <1>27, <2>1 DEF ResumeCluster
  <1> QED
    BY <1>1, <1>2, <1>3, <1>4, <1>5, <1>6, <1>7, <1>8, <1>9, <1>10, <1>11,
       <1>12, <1>13, <1>14, <1>15, <1>16, <1>17, <1>18, <1>19, <1>20, <1>21,
       <1>22, <1>23, <1>24, <1>25, <1>26, <1>27
    DEF Script

LEMMA ReplicaScriptTypeOK ==
  ASSUME TypeOK, NEW r \in Replicas, ReplicaScript(r)
  PROVE  TypeOK'
  <1> USE ReplicaPcValues, DataValues, NodeValues
      DEF TypeOK, scriptVars, dcsVars, patroniVars, diskVars, pgVars, ghostVars
  <1> UNCHANGED <<pc, ret, scriptVars, ghostVars>>
    BY DEF ReplicaScript
  <1>1. CASE ReplicaStop(r)
    BY <1>1 DEF ReplicaStop
  <1>2. CASE ReplicaSwitch(r)
    BY <1>2 DEF ReplicaSwitch
  <1>3. CASE RsyncConnect(r)
    BY <1>3 DEF RsyncConnect
  <1>4. CASE RsyncFinish(r)
    BY <1>4 DEF RsyncFinish
  <1>5. CASE ReplicaRevert(r)
    BY <1>5 DEF ReplicaRevert
  <1>6. CASE ReplicaWaitPrimary(r)
    BY <1>6 DEF ReplicaWaitPrimary
  <1>7. CASE ReplicaRemoveRecoveryConf(r, "rmconf", "kill")
    BY <1>7 DEF ReplicaRemoveRecoveryConf
  <1>8. CASE ReplicaKillPatroni(r)
    BY <1>8 DEF ReplicaKillPatroni
  <1>9. CASE ReplicaRemoveRecoveryConf(r, "rmconf2", "cleanold")
    BY <1>9 DEF ReplicaRemoveRecoveryConf
  <1>10. CASE ReplicaCleanup(r)
    BY <1>10 DEF ReplicaCleanup
  <1>11. CASE ReplicaUpdateConfigs(r)
    BY <1>11 DEF ReplicaUpdateConfigs
  <1>12. CASE ReplicaRevertOld(r)
    BY <1>12 DEF ReplicaRevertOld
  <1> QED
    BY <1>1, <1>2, <1>3, <1>4, <1>5, <1>6, <1>7, <1>8, <1>9, <1>10, <1>11, <1>12
    DEF ReplicaScript

LEMMA EnvironmentTypeOK == TypeOK /\ Environment => TypeOK'
  <1> SUFFICES ASSUME TypeOK, Environment PROVE TypeOK'
    OBVIOUS
  <1> USE DataValues, NodeValues
      DEF TypeOK, scriptVars, dcsVars, patroniVars, diskVars, pgVars,
          syncVars, ghostVars
  <1> UNCHANGED <<pc, ret, scriptVars>>
    BY DEF Environment, EnvUnchanged
  <1>1. CASE OperatorPause
    BY <1>1 DEF OperatorPause
  <1>2. CASE DemotePrimary
    BY <1>2 DEF DemotePrimary
  <1>3. ASSUME NEW r \in Replicas, CatchUp(r) \/ Failover(r) PROVE TypeOK'
    <2>1. CASE CatchUp(r)
      <3>1. replayed' \in [Replicas -> BOOLEAN]
        BY <2>1 DEF CatchUp
      <3> QED
        BY <2>1, <3>1 DEF CatchUp
    <2>2. CASE Failover(r)
      <3>1. dcsLeader' \in Nodes
        BY <2>2 DEF Failover
      <3> QED
        BY <2>2, <3>1 DEF Failover
    <2> QED
      BY <1>3, <2>1, <2>2
  <1>4. ASSUME NEW n \in Nodes, SeePause(n) \/ PatroniExit(n) \/ PatroniCrash(n)
        PROVE  TypeOK'
    <2>1. CASE SeePause(n)
      BY <2>1 DEF SeePause
    <2>2. CASE PatroniExit(n)
      BY <2>2 DEF PatroniExit
    <2>3. CASE PatroniCrash(n)
      <3>1. crashes' \in CrashCount
        BY <2>3, CrashesAssumption DEF PatroniCrash, CrashCount
      <3> QED
        BY <2>3, <3>1 DEF PatroniCrash
    <2> QED
      BY <1>4, <2>1, <2>2, <2>3
  <1>5. ASSUME NEW n \in Nodes, PatroniStart(n) PROVE TypeOK'
    <2>1. pg' \in [Nodes -> {"down"} \union Version]
      BY <1>5 DEF PatroniStart, StartServer
    <2>2. recConf' \in [Nodes -> BOOLEAN]
      BY <1>5 DEF PatroniStart
    <2> QED
      BY <1>5, <2>1, <2>2 DEF PatroniStart, StartServer
  <1>6. ASSUME NEW n \in Nodes, RunitRestart(n) PROVE TypeOK'
    BY <1>6 DEF RunitRestart
  <1>7. ASSUME NEW n \in Nodes, RecreateKey(n) PROVE TypeOK'
    BY <1>7 DEF RecreateKey
  <1> QED
    BY <1>1, <1>2, <1>3, <1>4, <1>5, <1>6, <1>7 DEF Environment

\* The child of start_backup touches nothing but the pause.
LEMMA BackupFrame ==
  ASSUME BackupEnds
  PROVE  /\ UNCHANGED <<pc, ret, selfPaused, asked, conns, todo, upgraded, dcsInit,
                        dcsLeader, patroniVars, diskVars, pgVars, syncVars, ghostVars,
                        up, seen, bin, sysid, dataDir, newDir, oldDir, conf, recConf,
                        pg, demoted, rsyncd, feedback, rpc, replayed, foreign,
                        unreleased, unconfirmed, served, crashes>>
         /\ childPaused' = FALSE /\ childPaused
         /\ dcsPause' = FALSE \/ dcsPause' = dcsPause
  BY DEF BackupEnds, patroniVars, diskVars, pgVars, syncVars, ghostVars

LEMMA NextTypeOK == TypeOK /\ [Next]_vars => TypeOK'
  <1> SUFFICES ASSUME TypeOK, [Next]_vars PROVE TypeOK'
    OBVIOUS
  <1>1. CASE UNCHANGED vars
    BY <1>1 DEF TypeOK, vars, outside, scriptVars, dcsVars, patroniVars,
                diskVars, pgVars, syncVars, ghostVars
  <1>2. CASE BackupEnds
    <2>1. dcsPause' \in BOOLEAN /\ childPaused' \in BOOLEAN
      BY <1>2, BackupFrame DEF TypeOK
    <2> QED
      BY <1>2, <2>1, BackupFrame DEF TypeOK
  <1> QED
    BY <1>1, <1>2, ScriptTypeOK, ReplicaScriptTypeOK, EnvironmentTypeOK DEF Next

\* Every variable keeps its type, whatever the replicas and the faults.
THEOREM TypeCorrect == Spec => []TypeOK
  BY InitTypeOK, NextTypeOK, PTL DEF Spec

-----------------------------------------------------------------------------
(* No replica is told to copy before it has caught up *)

\* Where the script is between the wait for the replicas and the last of the
\* notifications.
CaughtUpPC == {"upgrade", "switch", "rename", "config", "join", "notify"}

\* The replicas the script still counts on have replayed everything; those it
\* has to notify are among them.
CopyInv ==
    /\ pc \in CaughtUpPC => \A r \in conns : replayed[r]
    /\ pc = "notify" => todo \subseteq conns
    /\ CaughtUpBeforeCopy

LEMMA InitCopyInv == Init => CopyInv
  BY DEF Init, CopyInv, CaughtUpBeforeCopy, CaughtUpPC

\* The steps of the script that touch none of the variables involved but pc.
LEMMA ScriptCopyInv == TypeOK /\ CopyInv /\ Script => CopyInv'
  <1> SUFFICES ASSUME TypeOK, CopyInv, Script PROVE CopyInv'
    OBVIOUS
  <1> USE DEF CopyInv, CaughtUpBeforeCopy, CaughtUpPC, Goto, Abort, outside,
              scriptVars, syncVars
  <1>1. CASE SanityChecks
    BY <1>1 DEF SanityChecks
  <1>2. CASE PrepareNewPgdata \/ CheckAndDrop \/ ReadConfigForPause \/ WritePause
             \/ WaitForPause
    BY <1>2 DEF PrepareNewPgdata, CheckAndDrop, ReadConfigForPause, WritePause,
                WaitForPause
  <1>3. CASE StopPostgres
    BY <1>3 DEF StopPostgres
  <1>4. CASE StartRsyncd
    BY <1>4 DEF StartRsyncd
  <1>5. CASE WaitForReplicas
    BY <1>5 DEF WaitForReplicas
  <1>6. CASE PgUpgrade \/ SwitchPgdataAside \/ SwitchPgdataIn
    BY <1>6 DEF PgUpgrade, SwitchPgdataAside, SwitchPgdataIn
  <1>7. CASE UpdateConfigs
    BY <1>7 DEF UpdateConfigs
  <1>8. CASE JoinCheckpoints
    BY <1>8 DEF JoinCheckpoints
  <1>9. ASSUME NEW r \in Replicas, NotifyReplica(r) PROVE CopyInv'
    BY <1>9 DEF NotifyReplica, TypeOK
  <1>10. CASE WaitForFeedback \/ StopRsyncd \/ KillPatroni \/ RestartPrimary
              \/ FixInitializeKey \/ WaitReplicasRestart
    BY <1>10 DEF WaitForFeedback, StopRsyncd, KillPatroni, RestartPrimary,
                 FixInitializeKey, WaitReplicasRestart
  <1>11. CASE \/ RemoveInitializeKey("rmkey", "kill")
              \/ RemoveInitializeKey("rmkey2", "restart")
    BY <1>11 DEF RemoveInitializeKey
  <1>12. CASE \/ ResumeCluster("resume", "finish")
              \/ ResumeCluster("cleanupresume", "done")
    BY <1>12 DEF ResumeCluster
  <1>13. CASE FinishUpgrade \/ PostCleanup
    BY <1>13 DEF FinishUpgrade, PostCleanup
  <1> QED
    BY <1>1, <1>2, <1>3, <1>4, <1>5, <1>6, <1>7, <1>8, <1>9, <1>10, <1>11,
       <1>12, <1>13
    DEF Script

\* A replica's script moves only once it was launched.
LEMMA ReplicaScriptFrame ==
  ASSUME TypeOK, NEW r \in Replicas, ReplicaScript(r)
  PROVE  /\ UNCHANGED <<pc, ret, scriptVars, ghostVars, dcsVars, replayed>>
         /\ \A q \in Replicas : rpc'[q] # "idle" => rpc[q] # "idle"
  <1> USE DEF TypeOK
  <1>1. UNCHANGED <<pc, ret, scriptVars, ghostVars>>
    BY DEF ReplicaScript
  <1>2. CASE ReplicaStop(r) \/ ReplicaSwitch(r) \/ ReplicaUpdateConfigs(r)
    BY <1>1, <1>2 DEF ReplicaStop, ReplicaSwitch, ReplicaUpdateConfigs
  <1>3. CASE RsyncConnect(r) \/ RsyncFinish(r) \/ ReplicaRevert(r) \/ ReplicaRevertOld(r)
    BY <1>1, <1>3 DEF RsyncConnect, RsyncFinish, ReplicaRevert, ReplicaRevertOld
  <1>4. CASE \/ ReplicaRemoveRecoveryConf(r, "rmconf", "kill")
             \/ ReplicaRemoveRecoveryConf(r, "rmconf2", "cleanold")
    BY <1>1, <1>4 DEF ReplicaRemoveRecoveryConf
  <1>5. CASE ReplicaWaitPrimary(r) \/ ReplicaKillPatroni(r) \/ ReplicaCleanup(r)
    BY <1>1, <1>5 DEF ReplicaWaitPrimary, ReplicaKillPatroni, ReplicaCleanup, dcsVars
  <1> QED
    BY <1>2, <1>3, <1>4, <1>5 DEF ReplicaScript

\* What has been replayed stays replayed.
LEMMA EnvironmentCopyInv == TypeOK /\ CopyInv /\ Environment => CopyInv'
  <1> SUFFICES ASSUME TypeOK, CopyInv, Environment PROVE CopyInv'
    OBVIOUS
  <1> USE DEF CopyInv, CaughtUpBeforeCopy, TypeOK
  <1>1. UNCHANGED <<pc, conns, todo>>
    BY DEF Environment, EnvUnchanged, scriptVars
  <1>2. ASSUME NEW r \in Replicas, CatchUp(r) PROVE CopyInv'
    BY <1>1, <1>2 DEF CatchUp
  <1>3. CASE UNCHANGED syncVars
    BY <1>1, <1>3 DEF syncVars
  <1> QED
    BY <1>2, <1>3 DEF Environment, OperatorPause, DemotePrimary, Failover,
       SeePause, PatroniStart, PatroniExit, PatroniCrash, RunitRestart,
       RecreateKey

LEMMA NextCopyInv == TypeOK /\ CopyInv /\ [Next]_vars => CopyInv'
  <1> SUFFICES ASSUME TypeOK, CopyInv, [Next]_vars PROVE CopyInv'
    OBVIOUS
  <1>1. ASSUME NEW r \in Replicas, ReplicaScript(r) PROVE CopyInv'
    BY <1>1, ReplicaScriptFrame DEF CopyInv, CaughtUpBeforeCopy, scriptVars
  <1>2. CASE UNCHANGED vars
    BY <1>2 DEF CopyInv, CaughtUpBeforeCopy, vars, outside, scriptVars, syncVars
  <1>3. CASE BackupEnds
    BY <1>3, BackupFrame DEF CopyInv, CaughtUpBeforeCopy
  <1> QED
    BY <1>1, <1>2, <1>3, ScriptCopyInv, EnvironmentCopyInv DEF Next

\* Whatever fails or gives up, rsync --size-only starts only on a replica that
\* has replayed the shutdown checkpoint of the primary.
THEOREM CopyAfterCatchUp == Spec => []CaughtUpBeforeCopy
  <1>1. CopyInv => CaughtUpBeforeCopy
    BY DEF CopyInv
  <1> QED
    BY <1>1, TypeCorrect, InitCopyInv, NextCopyInv, PTL DEF Spec

-----------------------------------------------------------------------------
(* The maintenance mode an operator has set is not lifted *)

\* As long as the request to resume is answered as it was carried out, self.paused
\* says that the pause in the DCS is the script's own, and the child that makes the
\* base backup is forked without it.
PauseInv ==
    /\ pc # "done" /\ selfPaused => (dcsPause /\ ~foreign) \/ unconfirmed
    /\ pc = "finish" /\ selfPaused => unconfirmed
    /\ childPaused => unconfirmed
    /\ unconfirmed => pc \in {"finish", "cleanup", "cleanupresume", "done"}
    /\ foreign => dcsPause \/ unconfirmed

LEMMA InitPauseInv == Init => PauseInv
  BY DEF Init, PauseInv

LEMMA ScriptPauseInv == PauseInv /\ Script => PauseInv'
  <1> SUFFICES ASSUME PauseInv, Script PROVE PauseInv'
    OBVIOUS
  <1> USE DEF PauseInv
  <1>1. CASE WritePause
    BY <1>1 DEF WritePause, Goto, Abort
  <1>2. CASE ResumeCluster("resume", "finish")
    <2>1. pc' = "finish" /\ childPaused' = childPaused /\ foreign' = foreign
          /\ ~childPaused /\ ~unconfirmed
      BY <1>2 DEF ResumeCluster, Goto
    <2>2. \/ UNCHANGED <<selfPaused, dcsPause, unconfirmed>>
          \/ ~selfPaused' /\ ~foreign
          \/ unconfirmed'
      BY <1>2 DEF ResumeCluster
    <2>3. selfPaused' => unconfirmed'
      BY <1>2, <2>1 DEF ResumeCluster
    <2> QED
      BY <1>2, <2>1, <2>2, <2>3 DEF ResumeCluster
  <1>3. CASE ResumeCluster("cleanupresume", "done")
    BY <1>3 DEF ResumeCluster, Goto
  <1>4. CASE FinishUpgrade
    <2>1. UNCHANGED <<selfPaused, dcsPause, foreign, unconfirmed>> /\ pc = "finish"
          /\ pc' = "cleanup" /\ childPaused' \in {FALSE, selfPaused, childPaused}
      BY <1>4 DEF FinishUpgrade, Goto, Abort, dcsVars, ghostVars
    <2>2. childPaused' => unconfirmed
      BY <2>1, Zenon
    <2> QED
      BY <2>1, <2>2
  <1>5. CASE PostCleanup
    BY <1>5 DEF PostCleanup, Goto, scriptVars, dcsVars, ghostVars
  <1>6. ASSUME UNCHANGED <<selfPaused, childPaused, dcsPause, foreign, unconfirmed>>,
               pc \notin {"finish", "cleanup", "cleanupresume", "done"}, pc' # "finish"
        PROVE  PauseInv'
    BY <1>6
  <1> USE <1>6 DEF scriptVars, dcsVars, ghostVars, Goto, Abort
  <1>7. CASE \/ RemoveInitializeKey("rmkey", "kill")
             \/ RemoveInitializeKey("rmkey2", "restart")
             \/ FixInitializeKey
    BY <1>7 DEF RemoveInitializeKey, FixInitializeKey
  <1>8. ASSUME NEW r \in Replicas, NotifyReplica(r) PROVE PauseInv'
    BY <1>8 DEF NotifyReplica
  <1>9. CASE SanityChecks \/ CheckAndDrop \/ ReadConfigForPause \/ WaitForPause
    BY <1>9 DEF SanityChecks, CheckAndDrop, ReadConfigForPause, WaitForPause, outside
  <1>10. CASE WaitForReplicas \/ JoinCheckpoints \/ WaitForFeedback \/ WaitReplicasRestart
    BY <1>10 DEF WaitForReplicas, JoinCheckpoints, WaitForFeedback, WaitReplicasRestart,
                 outside
  <1>11. CASE PrepareNewPgdata \/ StopPostgres \/ StartRsyncd \/ PgUpgrade
    BY <1>11 DEF PrepareNewPgdata, StopPostgres, StartRsyncd, PgUpgrade
  <1>12. CASE SwitchPgdataAside \/ SwitchPgdataIn \/ UpdateConfigs \/ StopRsyncd
    BY <1>12 DEF SwitchPgdataAside, SwitchPgdataIn, UpdateConfigs, StopRsyncd
  <1>13. CASE KillPatroni \/ RestartPrimary
    BY <1>13 DEF KillPatroni, RestartPrimary
  <1> QED
    BY <1>1, <1>2, <1>3, <1>4, <1>5, <1>7, <1>8, <1>9, <1>10, <1>11, <1>12, <1>13
    DEF Script

LEMMA EnvironmentPauseInv == PauseInv /\ Environment => PauseInv'
  <1> SUFFICES ASSUME PauseInv, Environment PROVE PauseInv'
    OBVIOUS
  <1> USE DEF PauseInv
  <1>1. UNCHANGED <<pc, selfPaused, childPaused>>
    BY DEF Environment, EnvUnchanged, scriptVars
  <1>2. CASE OperatorPause
    BY <1>1, <1>2 DEF OperatorPause
  <1>3. CASE UNCHANGED <<dcsPause, foreign, unconfirmed>>
    BY <1>1, <1>3
  <1> QED
    BY <1>2, <1>3 DEF Environment, CatchUp, DemotePrimary, Failover, SeePause,
       PatroniStart, PatroniExit, PatroniCrash, RunitRestart, RecreateKey,
       dcsVars, ghostVars

LEMMA NextPauseInv == TypeOK /\ PauseInv /\ [Next]_vars => PauseInv'
  <1> SUFFICES ASSUME TypeOK, PauseInv, [Next]_vars PROVE PauseInv'
    OBVIOUS
  <1>1. ASSUME NEW r \in Replicas, ReplicaScript(r) PROVE PauseInv'
    BY <1>1, ReplicaScriptFrame DEF PauseInv, scriptVars, dcsVars, ghostVars
  <1>2. CASE UNCHANGED vars
    BY <1>2 DEF PauseInv, vars, outside, scriptVars, dcsVars, ghostVars
  <1>3. CASE BackupEnds
    BY <1>3, BackupFrame DEF PauseInv
  <1> QED
    BY <1>1, <1>2, <1>3, ScriptPauseInv, EnvironmentPauseInv DEF Next

LEMMA PauseInvHolds == Spec => []PauseInv
  BY TypeCorrect, InitPauseInv, NextPauseInv, PTL DEF Spec

\* Whatever fails, the compare-and-set of /config and self.paused keep the script,
\* and the child it leaves behind for the backup, from lifting a pause of someone
\* else, unless the DCS refused or did not confirm the first request to resume.
THEOREM ForeignPauseSafe == Spec => []ForeignPauseKept
  <1>1. PauseInv => ForeignPauseKept
    BY DEF PauseInv, ForeignPauseKept
  <1> QED
    BY <1>1, PauseInvHolds, PTL DEF Spec

-----------------------------------------------------------------------------
(* The script does not leave its own maintenance mode behind *)

\* Every pause in the DCS is an operator's, one the script knows of, or one whose
\* fate the DCS has hidden; after the last resume_cluster the script's is gone.
ReleaseInv ==
    /\ dcsPause => foreign \/ unreleased \/ selfPaused
    /\ PauseReleased

LEMMA InitReleaseInv == Init => ReleaseInv
  BY DEF Init, ReleaseInv, PauseReleased

LEMMA ScriptReleaseInv ==
  ASSUME ReleaseInv, Script
  PROVE  ReleaseInv'
  <1> USE DEF ReleaseInv, PauseReleased
  <1>1. CASE WritePause
    BY <1>1 DEF WritePause, Goto, Abort
  <1>2. CASE \/ ResumeCluster("resume", "finish")
             \/ ResumeCluster("cleanupresume", "done")
    <2>1. /\ foreign' = foreign
          /\ \/ UNCHANGED <<selfPaused, dcsPause, unreleased>> /\ ~(selfPaused /\ dcsPause)
             \/ ~dcsPause'
             \/ selfPaused' = selfPaused /\ selfPaused /\ (pc' = "finish" \/ unreleased')
      BY <1>2, Zenon DEF ResumeCluster, Goto
    <2> QED
      BY <2>1
  <1>3. ASSUME UNCHANGED <<selfPaused, dcsPause, foreign, unreleased>>, pc' # "done"
        PROVE  ReleaseInv'
    BY <1>3
  <1> USE <1>3 DEF Goto, Abort, scriptVars, dcsVars, ghostVars
  <1>4. CASE \/ RemoveInitializeKey("rmkey", "kill")
             \/ RemoveInitializeKey("rmkey2", "restart")
             \/ FixInitializeKey
    BY <1>4 DEF RemoveInitializeKey, FixInitializeKey
  <1>5. ASSUME NEW r \in Replicas, NotifyReplica(r) PROVE ReleaseInv'
    BY <1>5 DEF NotifyReplica
  <1>6. CASE SanityChecks \/ CheckAndDrop \/ ReadConfigForPause \/ WaitForPause
    BY <1>6 DEF SanityChecks, CheckAndDrop, ReadConfigForPause, WaitForPause, outside
  <1>7. CASE WaitForReplicas \/ JoinCheckpoints \/ WaitForFeedback \/ WaitReplicasRestart
    BY <1>7 DEF WaitForReplicas, JoinCheckpoints, WaitForFeedback, WaitReplicasRestart,
                outside
  <1>8. CASE PrepareNewPgdata \/ StopPostgres \/ StartRsyncd \/ PgUpgrade
    BY <1>8 DEF PrepareNewPgdata, StopPostgres, StartRsyncd, PgUpgrade
  <1>9. CASE SwitchPgdataAside \/ SwitchPgdataIn \/ UpdateConfigs \/ StopRsyncd
    BY <1>9 DEF SwitchPgdataAside, SwitchPgdataIn, UpdateConfigs, StopRsyncd
  <1>10. CASE KillPatroni \/ RestartPrimary \/ FinishUpgrade \/ PostCleanup
    BY <1>10 DEF KillPatroni, RestartPrimary, FinishUpgrade, PostCleanup
  <1> QED
    BY <1>1, <1>2, <1>4, <1>5, <1>6, <1>7, <1>8, <1>9, <1>10 DEF Script

LEMMA EnvironmentReleaseInv == ReleaseInv /\ Environment => ReleaseInv'
  <1> SUFFICES ASSUME ReleaseInv, Environment PROVE ReleaseInv'
    OBVIOUS
  <1> USE DEF ReleaseInv, PauseReleased
  <1>1. UNCHANGED <<pc, selfPaused>>
    BY DEF Environment, EnvUnchanged, scriptVars
  <1>2. CASE OperatorPause
    BY <1>1, <1>2 DEF OperatorPause
  <1>3. CASE UNCHANGED <<dcsPause, foreign, unreleased>>
    BY <1>1, <1>3
  <1> QED
    BY <1>2, <1>3 DEF Environment, CatchUp, DemotePrimary, Failover, SeePause,
       PatroniStart, PatroniExit, PatroniCrash, RunitRestart, RecreateKey,
       dcsVars, ghostVars

LEMMA NextReleaseInv == TypeOK /\ ReleaseInv /\ [Next]_vars => ReleaseInv'
  <1> SUFFICES ASSUME TypeOK, ReleaseInv, [Next]_vars PROVE ReleaseInv'
    OBVIOUS
  <1>1. ASSUME NEW r \in Replicas, ReplicaScript(r) PROVE ReleaseInv'
    BY <1>1, ReplicaScriptFrame
    DEF ReleaseInv, PauseReleased, scriptVars, dcsVars, ghostVars
  <1>2. CASE UNCHANGED vars
    BY <1>2 DEF ReleaseInv, PauseReleased, vars, outside, scriptVars, dcsVars, ghostVars
  <1>3. CASE BackupEnds
    <2>1. UNCHANGED <<pc, selfPaused, foreign, unreleased>>
          /\ (dcsPause' = FALSE \/ dcsPause' = dcsPause)
      BY <1>3, BackupFrame
    <2> QED
      BY <2>1 DEF ReleaseInv, PauseReleased, TypeOK
  <1> QED
    BY <1>1, <1>2, <1>3, ScriptReleaseInv, EnvironmentReleaseInv DEF Next

\* Wherever the script stops, and whatever failed, a pause that is left is not
\* its own, or the DCS has hidden or refused what became of it.
THEOREM OwnPauseReleased == Spec => []PauseReleased
  <1>1. ReleaseInv => PauseReleased
    BY DEF ReleaseInv
  <1> QED
    BY <1>1, TypeCorrect, InitReleaseInv, NextReleaseInv, PTL DEF Spec

-----------------------------------------------------------------------------
(* pg_upgrade runs only on the leader *)

\* Until PostgreSQL is stopped, the node is what it was at the start and no
\* shutdown checkpoint has been replayed.
CalmPC == {"sanity", "prepare", "check", "pause", "pausecas", "pausewait", "stop"}

Calm ==
    /\ dcsInit = "old" /\ sysid[Primary] = "old"
    /\ dataDir[Primary] = "old" /\ pg[Primary] = "old"
    /\ \A r \in Replicas : ~replayed[r]

\* From the end of the wait for the pause until the cluster is resumed, no
\* Patroni process that was asked to pause is unaware of it.
WaitPC == {"stop", "rsyncd", "waitlsn"}
LatePC == {"upgrade"} \union AfterUpgradeBegan

PausedOK == dcsPause /\ \A n \in asked : up[n] => seen[n]

\* A replica that was asked and took the leader key, if one did before it saw the
\* pause, replays nothing of the old primary, and the script waits for every
\* replica.  A Patroni that has loaded the new configuration was started under the
\* pause and knows of it.
LeaderInv ==
    /\ pc \in CalmPC => Calm
    /\ pc = "pausewait" => dcsPause
    /\ pc \in WaitPC \union LatePC => PausedOK
    /\ pc \in WaitPC => \A r \in Replicas : replayed[r] => dcsLeader # r \/ r \notin asked
    /\ pc \in (CalmPC \ {"sanity"}) \union WaitPC => conns = Replicas
    /\ pc \in LatePC => dcsLeader = Primary \/ dcsLeader \notin asked
    /\ pc \in WaitPC \union LatePC /\ up[Primary] /\ bin[Primary] = "new" => seen[Primary]
    /\ pc \in CalmPC => bin[Primary] = "old" /\ conf[Primary] = "old"

LEMMA InitLeaderInv == Init => LeaderInv
  BY DEF Init, LeaderInv, CalmPC, Calm, WaitPC, LatePC, AfterUpgradeBegan, Nodes

\* As many members as there are replicas are all the replicas.
LEMMA AllRegistered ==
  ASSUME NEW registered \in SUBSET Replicas, SanityOK(registered)
  PROVE  registered = Replicas
  BY ReplicasAssumption, FS_Subset DEF SanityOK

LEMMA ScriptLeaderInv == TypeOK /\ LeaderInv /\ Script => LeaderInv'
  <1> SUFFICES ASSUME TypeOK, LeaderInv, Script PROVE LeaderInv'
    OBVIOUS
  <1> USE DEF LeaderInv, CalmPC, Calm, WaitPC, LatePC, AfterUpgradeBegan,
              PausedOK, Goto, Abort, outside, scriptVars, dcsVars, patroniVars,
              diskVars, pgVars, syncVars
  <1>1. CASE SanityChecks
    BY <1>1, AllRegistered DEF SanityChecks
  <1>2. CASE PrepareNewPgdata \/ CheckAndDrop \/ ReadConfigForPause
    BY <1>2 DEF PrepareNewPgdata, CheckAndDrop, ReadConfigForPause
  <1>3. CASE WritePause
    BY <1>3 DEF WritePause
  <1>4. CASE WaitForPause
    BY <1>4 DEF WaitForPause
  <1>5. CASE StopPostgres
    BY <1>5 DEF StopPostgres, TypeOK, Nodes
  <1>6. CASE StartRsyncd
    BY <1>6 DEF StartRsyncd
  <1>7. CASE WaitForReplicas
    BY <1>7 DEF WaitForReplicas, TypeOK, Nodes
  <1>8. CASE PgUpgrade \/ SwitchPgdataAside \/ SwitchPgdataIn \/ UpdateConfigs
    BY <1>8 DEF PgUpgrade, SwitchPgdataAside, SwitchPgdataIn, UpdateConfigs
  <1>9. CASE JoinCheckpoints \/ WaitForFeedback \/ StopRsyncd
    BY <1>9 DEF JoinCheckpoints, WaitForFeedback, StopRsyncd
  <1>10. ASSUME NEW r \in Replicas, NotifyReplica(r) PROVE LeaderInv'
    BY <1>10 DEF NotifyReplica
  <1>11. CASE \/ RemoveInitializeKey("rmkey", "kill")
              \/ RemoveInitializeKey("rmkey2", "restart")
              \/ FixInitializeKey
    BY <1>11 DEF RemoveInitializeKey, FixInitializeKey
  <1>12. CASE KillPatroni
    BY <1>12 DEF KillPatroni, TypeOK
  <1>13. CASE RestartPrimary \/ WaitReplicasRestart
    BY <1>13 DEF RestartPrimary, WaitReplicasRestart
  <1>14. CASE \/ ResumeCluster("resume", "finish")
              \/ ResumeCluster("cleanupresume", "done")
              \/ FinishUpgrade \/ PostCleanup
    BY <1>14 DEF ResumeCluster, FinishUpgrade, PostCleanup
  <1> QED
    BY <1>1, <1>2, <1>3, <1>4, <1>5, <1>6, <1>7, <1>8, <1>9, <1>10, <1>11,
       <1>12, <1>13, <1>14
    DEF Script

\* The script on a replica leaves the primary alone, and starts no Patroni.
LEMMA ReplicaScriptPrimary ==
  ASSUME TypeOK, NEW r \in Replicas, ReplicaScript(r)
  PROVE  /\ UNCHANGED <<seen, sysid, bin, conf[Primary], dataDir[Primary], pg[Primary]>>
         /\ \A n \in Nodes : up'[n] => up[n]
  <1> USE PrimaryAssumption, NodeValues DEF TypeOK, patroniVars, diskVars, pgVars
  <1>1. CASE ReplicaStop(r) \/ ReplicaSwitch(r) \/ ReplicaUpdateConfigs(r)
    BY <1>1 DEF ReplicaStop, ReplicaSwitch, ReplicaUpdateConfigs
  <1>2. CASE RsyncConnect(r) \/ RsyncFinish(r) \/ ReplicaRevert(r) \/ ReplicaRevertOld(r)
    BY <1>2 DEF RsyncConnect, RsyncFinish, ReplicaRevert, ReplicaRevertOld
  <1>3. CASE \/ ReplicaRemoveRecoveryConf(r, "rmconf", "kill")
             \/ ReplicaRemoveRecoveryConf(r, "rmconf2", "cleanold")
    BY <1>3 DEF ReplicaRemoveRecoveryConf
  <1>4. CASE ReplicaWaitPrimary(r) \/ ReplicaKillPatroni(r) \/ ReplicaCleanup(r)
    BY <1>4 DEF ReplicaWaitPrimary, ReplicaKillPatroni, ReplicaCleanup
  <1> QED
    BY <1>1, <1>2, <1>3, <1>4 DEF ReplicaScript

LEMMA ReplicaLeaderInv ==
  ASSUME TypeOK, LeaderInv, NEW r \in Replicas, ReplicaScript(r)
  PROVE  LeaderInv'
  <1>1. /\ UNCHANGED <<pc, conns, asked, dcsPause, dcsInit, dcsLeader, replayed, seen,
                        sysid, bin, conf[Primary], dataDir[Primary], pg[Primary]>>
        /\ \A n \in Nodes : up'[n] => up[n]
    BY ReplicaScriptFrame, ReplicaScriptPrimary DEF scriptVars, dcsVars
  <1>2. PausedOK => PausedOK'
    BY <1>1 DEF PausedOK, TypeOK
  <1>3. Calm => Calm'
    BY <1>1 DEF Calm
  <1> QED
    BY <1>1, <1>2, <1>3, NodeValues DEF LeaderInv

LEMMA EnvironmentLeaderInv == TypeOK /\ LeaderInv /\ Environment => LeaderInv'
  <1> SUFFICES ASSUME TypeOK, LeaderInv, Environment PROVE LeaderInv'
    OBVIOUS
  <1> UNCHANGED <<pc, conns, asked>>
    BY DEF Environment, EnvUnchanged, scriptVars
  <1> /\ up \in [Nodes -> BOOLEAN] /\ seen \in [Nodes -> BOOLEAN]
      /\ bin \in [Nodes -> Version] /\ sysid \in [Nodes -> Sysid]
      /\ pg \in [Nodes -> {"down"} \union Version]
      /\ replayed \in [Replicas -> BOOLEAN]
    BY DEF TypeOK
  <1> USE NodeValues, PrimaryAssumption
      DEF LeaderInv, Calm, PausedOK, dcsVars, patroniVars, diskVars,
          pgVars, syncVars
  <1>1. CASE OperatorPause \/ DemotePrimary
    BY <1>1 DEF OperatorPause, DemotePrimary
  <1>2. ASSUME NEW r \in Replicas, CatchUp(r) PROVE LeaderInv'
    BY <1>2 DEF CatchUp
  <1>3. ASSUME NEW r \in Replicas, Failover(r) PROVE LeaderInv'
    BY <1>3 DEF Failover
  <1>4. ASSUME NEW n \in Nodes, SeePause(n) PROVE LeaderInv'
    BY <1>4 DEF SeePause
  <1>5. ASSUME NEW n \in Nodes, PatroniStart(n) PROVE LeaderInv'
    BY <1>5 DEF PatroniStart, StartServer
  <1>6. ASSUME NEW n \in Nodes, PatroniExit(n) PROVE LeaderInv'
    BY <1>6 DEF PatroniExit, SysidMismatch
  <1>7. ASSUME NEW n \in Nodes, PatroniCrash(n) PROVE LeaderInv'
    BY <1>7 DEF PatroniCrash
  <1>8. ASSUME NEW n \in Nodes, RunitRestart(n) PROVE LeaderInv'
    BY <1>8 DEF RunitRestart, SysidOf
  <1>9. ASSUME NEW n \in Nodes, RecreateKey(n) PROVE LeaderInv'
    BY <1>9 DEF RecreateKey
  <1> QED
    BY <1>1, <1>2, <1>3, <1>4, <1>5, <1>6, <1>7, <1>8, <1>9 DEF Environment

LEMMA NextLeaderInv == TypeOK /\ PauseInv /\ LeaderInv /\ [Next]_vars => LeaderInv'
  <1>1. TypeOK /\ LeaderInv /\ UNCHANGED vars => LeaderInv'
    BY DEF LeaderInv, Calm, PausedOK, vars, outside, scriptVars, dcsVars,
           patroniVars, diskVars, pgVars, syncVars
  <1>2. LeaderInv /\ PauseInv /\ BackupEnds => LeaderInv'
    BY BackupFrame
    DEF LeaderInv, Calm, PausedOK, PauseInv, CalmPC, WaitPC, LatePC, AfterUpgradeBegan
  <1> QED
    BY <1>1, <1>2, ScriptLeaderInv, ReplicaLeaderInv, EnvironmentLeaderInv DEF Next

\* A failover between the check of the leader key and the last asked member's
\* notice of the pause never lets pg_upgrade run on a node that lost the key to
\* such a member.
THEOREM UpgradeOnLeader == Spec => []UpgradeOnlyOnLeader
  <1>1. LeaderInv => UpgradeOnlyOnLeader
    BY DEF LeaderInv, LatePC, UpgradeOnlyOnLeader
  <1> QED
    BY <1>1, TypeCorrect, PauseInvHolds, InitLeaderInv, NextLeaderInv, PTL DEF Spec

-----------------------------------------------------------------------------
(* The directories, and the copies on the replicas *)

\* The steps before pg_upgrade, and those after the new configuration is in
\* place up to the end of the script's main part.
OldPC == CalmPC \union {"rsyncd", "waitlsn", "upgrade"}
NewPC == {"join", "notify", "waitsync", "stoprsyncd", "rmkey", "kill", "rmkey2",
          "restart", "fixkey", "waitrestart", "resume", "finish"}

\* The steps between the stop of the primary's server and POST /restart, but for
\* the two at which a Patroni unaware of the pause may have started it again.
DownPC == {"waitlsn", "switch", "rename", "config", "join", "notify", "waitsync",
           "stoprsyncd", "rmkey", "kill", "rmkey2", "restart"}

\* What the primary's directories hold at every step.
DirectoryInv ==
    /\ pc \in OldPC => dataDir[Primary] = "old"
    /\ pc = "switch" => dataDir[Primary] = "linked" /\ newDir[Primary] = "new"
    /\ pc = "rename" => dataDir[Primary] = "none" /\ newDir[Primary] = "new"
    /\ pc = "config" => dataDir[Primary] = "new"
    /\ pc \in NewPC => conf[Primary] = "new"
    /\ pc \notin NewPC \union {"cleanup", "cleanupresume", "done"} => conf[Primary] = "old"
    /\ conf[Primary] = "new" => dataDir[Primary] = "new"
    /\ bin[Primary] = "new" => conf[Primary] = "new"
    /\ dataDir[Primary] # "torn"

\* Its server is down while they change and while the rsync daemon has its port.
ServerInv ==
    /\ pc \in DownPC => pg[Primary] = "down"
    /\ pc = "waitlsn" => rsyncd = "on"
    /\ rsyncd = "on" => pg[Primary] = "down" /\ ~served
    /\ served => conf[Primary] = "new"
    /\ pg[Primary] = "old" => dataDir[Primary] = "old"

PrimaryInv == DirectoryInv /\ ServerInv

Through == {"waitprimary", "rmconf", "kill", "rmconf2", "cleanold", "done"}

\* What a replica's directories hold at every step of its script, which is not
\* started before the primary has the new version.
ReplicaInv ==
    \A r \in Replicas :
      /\ rpc[r] # "idle" => conf[Primary] = "new"
      /\ pc = "join" \/ (pc = "notify" /\ r \in todo) => rpc[r] = "idle"
      /\ rpc[r] \in {"idle", "launched", "switch"} => dataDir[r] = "old" /\ conf[r] = "old"
      /\ rpc[r] = "config" => dataDir[r] = "none" /\ conf[r] = "old" /\ oldDir[r] = "old"
      /\ rpc[r] \in {"sync", "copying"} =>
           dataDir[r] = "none" /\ conf[r] = "new" /\ oldDir[r] = "old"
      /\ rpc[r] = "revert" => /\ dataDir[r] \in {"none", "broken"} /\ conf[r] = "new"
                              /\ oldDir[r] \in {"old", "broken"}
      /\ rpc[r] = "revertold" => /\ dataDir[r] = "none" /\ conf[r] = "new"
                                 /\ oldDir[r] \in {"old", "broken"}
      /\ rpc[r] \in Through => dataDir[r] \in {"new", "torn"} /\ conf[r] = "new"
      /\ rpc[r] = "failed" => \/ dataDir[r] \in {"none", "old"} /\ conf[r] = "old"
                              \/ dataDir[r] \in {"none", "old", "broken"} /\ conf[r] = "new"

Copied(r) == rpc[r] \in Through /\ dataDir[r] = "new"

\* Why the exit code is right: as long as it is going to be 0 no replica has been
\* given up, and feedback is given for complete copies only.
ExitInv ==
    /\ \A r \in Replicas : feedback[r] = "ok" => Copied(r)
    /\ ret /\ pc \notin {"sanity", "cleanup", "cleanupresume", "done"} => conns = Replicas
    /\ ret /\ pc \in {"stoprsyncd", "rmkey", "kill", "rmkey2", "restart", "fixkey",
                      "waitrestart", "resume", "finish", "cleanup", "cleanupresume",
                      "done"} =>
         conf[Primary] = "new" /\ \A r \in Replicas : Copied(r)

IInv == TypeOK /\ PauseInv /\ LeaderInv /\ PrimaryInv /\ ReplicaInv /\ ExitInv

LEMMA InitIInv == Init => IInv
  BY InitTypeOK, InitPauseInv, InitLeaderInv, NodeValues
  DEF IInv, Init, PrimaryInv, DirectoryInv, ServerInv, ReplicaInv, ExitInv, OldPC, NewPC, DownPC, CalmPC,
      Through, Copied

-----------------------------------------------------------------------------
(* The script on the primary preserves it *)

LEMMA ScriptDirectoryInv == TypeOK /\ PrimaryInv /\ Script => DirectoryInv'
  <1> SUFFICES ASSUME TypeOK, PrimaryInv, Script PROVE DirectoryInv'
    OBVIOUS
  <1> /\ dataDir \in [Nodes -> Content] /\ newDir \in [Nodes -> Content]
      /\ conf \in [Nodes -> Version] /\ bin \in [Nodes -> Version]
      /\ pg \in [Nodes -> {"down"} \union Version]
    BY DEF TypeOK
  <1> DirectoryInv
    BY DEF PrimaryInv
  <1> USE NodeValues
      DEF DirectoryInv, OldPC, NewPC, CalmPC, Goto, Abort, outside,
          scriptVars, dcsVars, patroniVars, diskVars, pgVars, syncVars
  <1>1. CASE SanityChecks \/ CheckAndDrop \/ ReadConfigForPause \/ WaitForPause
    BY <1>1 DEF SanityChecks, CheckAndDrop, ReadConfigForPause, WaitForPause
  <1>2. CASE PrepareNewPgdata \/ WritePause \/ WaitForReplicas
    BY <1>2 DEF PrepareNewPgdata, WritePause, WaitForReplicas
  <1>3. CASE StopPostgres
    BY <1>3 DEF StopPostgres
  <1>4. CASE StartRsyncd
    BY <1>4 DEF StartRsyncd
  <1>5. CASE PgUpgrade
    BY <1>5 DEF PgUpgrade
  <1>6. CASE SwitchPgdataAside
    BY <1>6 DEF SwitchPgdataAside
  <1>7. CASE SwitchPgdataIn
    BY <1>7 DEF SwitchPgdataIn
  <1>8. CASE UpdateConfigs
    BY <1>8 DEF UpdateConfigs
  <1>9. CASE JoinCheckpoints \/ WaitForFeedback
    BY <1>9 DEF JoinCheckpoints, WaitForFeedback
  <1>10. ASSUME NEW r \in Replicas, NotifyReplica(r) PROVE DirectoryInv'
    BY <1>10 DEF NotifyReplica
  <1>11. CASE StopRsyncd \/ PostCleanup
    BY <1>11 DEF StopRsyncd, PostCleanup, KillRsyncd
  <1>12. CASE \/ RemoveInitializeKey("rmkey", "kill")
              \/ RemoveInitializeKey("rmkey2", "restart")
    BY <1>12 DEF RemoveInitializeKey
  <1>13. CASE KillPatroni \/ FixInitializeKey \/ WaitReplicasRestart
    BY <1>13 DEF KillPatroni, FixInitializeKey, WaitReplicasRestart
  <1>14. CASE RestartPrimary
    BY <1>14 DEF RestartPrimary, StartServer, CanStart, Runs
  <1>15. CASE \/ ResumeCluster("resume", "finish")
              \/ ResumeCluster("cleanupresume", "done")
              \/ FinishUpgrade
    BY <1>15 DEF ResumeCluster, FinishUpgrade
  <1> QED
    BY <1>1, <1>2, <1>3, <1>4, <1>5, <1>6, <1>7, <1>8, <1>9, <1>10, <1>11,
       <1>12, <1>13, <1>14, <1>15
    DEF Script

LEMMA ScriptServerInv == TypeOK /\ LeaderInv /\ PrimaryInv /\ Script => ServerInv'
  <1> SUFFICES ASSUME TypeOK, LeaderInv, PrimaryInv, Script PROVE ServerInv'
    OBVIOUS
  <1> /\ dataDir \in [Nodes -> Content] /\ newDir \in [Nodes -> Content]
      /\ conf \in [Nodes -> Version] /\ bin \in [Nodes -> Version]
      /\ pg \in [Nodes -> {"down"} \union Version]
    BY DEF TypeOK
  <1> DirectoryInv /\ ServerInv
    BY DEF PrimaryInv
  <1> USE NodeValues
      DEF DirectoryInv, ServerInv, OldPC, NewPC, DownPC, CalmPC, Goto, Abort, outside,
          scriptVars, dcsVars, patroniVars, diskVars, pgVars, syncVars, ghostVars
  <1>1. CASE SanityChecks \/ CheckAndDrop \/ ReadConfigForPause \/ WaitForPause
    BY <1>1 DEF SanityChecks, CheckAndDrop, ReadConfigForPause, WaitForPause
  <1>2. CASE PrepareNewPgdata \/ WritePause \/ WaitForReplicas
    BY <1>2 DEF PrepareNewPgdata, WritePause, WaitForReplicas
  <1>3. CASE StopPostgres
    BY <1>3 DEF StopPostgres
  <1>4. CASE StartRsyncd
    BY <1>4 DEF StartRsyncd
  <1>5. CASE PgUpgrade
    BY <1>5 DEF PgUpgrade
  <1>6. CASE SwitchPgdataAside
    BY <1>6 DEF SwitchPgdataAside
  <1>7. CASE SwitchPgdataIn
    BY <1>7 DEF SwitchPgdataIn
  <1>8. CASE UpdateConfigs
    BY <1>8 DEF UpdateConfigs
  <1>9. CASE JoinCheckpoints \/ WaitForFeedback
    BY <1>9 DEF JoinCheckpoints, WaitForFeedback
  <1>10. ASSUME NEW r \in Replicas, NotifyReplica(r) PROVE ServerInv'
    BY <1>10 DEF NotifyReplica
  <1>11. CASE StopRsyncd \/ PostCleanup
    BY <1>11 DEF StopRsyncd, PostCleanup, KillRsyncd
  <1>12. CASE \/ RemoveInitializeKey("rmkey", "kill")
              \/ RemoveInitializeKey("rmkey2", "restart")
    BY <1>12 DEF RemoveInitializeKey
  <1>13. CASE KillPatroni \/ FixInitializeKey \/ WaitReplicasRestart
    BY <1>13 DEF KillPatroni, FixInitializeKey, WaitReplicasRestart
  <1>14. CASE RestartPrimary
    BY <1>14 DEF RestartPrimary, StartServer, CanStart, Runs
  <1>15. CASE \/ ResumeCluster("resume", "finish")
              \/ ResumeCluster("cleanupresume", "done")
    BY <1>15 DEF ResumeCluster
  <1>16. CASE FinishUpgrade
    BY <1>16 DEF FinishUpgrade
  <1> QED
    BY <1>1, <1>2, <1>3, <1>4, <1>5, <1>6, <1>7, <1>8, <1>9, <1>10, <1>11,
       <1>12, <1>13, <1>14, <1>15, <1>16
    DEF Script

LEMMA ScriptPrimaryInv == TypeOK /\ LeaderInv /\ PrimaryInv /\ Script => PrimaryInv'
  BY ScriptDirectoryInv, ScriptServerInv DEF PrimaryInv

\* The only step of the script that a replica notices is its notification.
LEMMA ScriptReplicaInv ==
  ASSUME TypeOK, LeaderInv, PrimaryInv, ReplicaInv, Script
  PROVE  ReplicaInv'
  <1> USE NodeValues, PrimaryAssumption
      DEF ReplicaInv, PrimaryInv, DirectoryInv, ServerInv, NewPC, OldPC, Through, TypeOK, outside, dcsVars,
          scriptVars, patroniVars, diskVars, pgVars, syncVars, Goto, Abort
  <1>1. CASE SanityChecks \/ CheckAndDrop \/ ReadConfigForPause \/ WaitForPause
    BY <1>1 DEF SanityChecks, CheckAndDrop, ReadConfigForPause, WaitForPause
  <1>2. CASE PrepareNewPgdata \/ WritePause \/ WaitForReplicas
    BY <1>2 DEF PrepareNewPgdata, WritePause, WaitForReplicas
  <1>3. CASE StopPostgres \/ StartRsyncd
    BY <1>3 DEF StopPostgres, StartRsyncd
  <1>4. CASE PgUpgrade \/ SwitchPgdataAside \/ SwitchPgdataIn
    BY <1>4 DEF PgUpgrade, SwitchPgdataAside, SwitchPgdataIn
  <1>5. CASE UpdateConfigs
    BY <1>5 DEF UpdateConfigs
  <1>6. CASE JoinCheckpoints \/ WaitForFeedback
    BY <1>6 DEF JoinCheckpoints, WaitForFeedback
  <1>7. ASSUME NEW r \in Replicas, NotifyReplica(r) PROVE ReplicaInv'
    BY <1>7 DEF NotifyReplica
  <1>8. CASE StopRsyncd \/ PostCleanup
    BY <1>8 DEF StopRsyncd, PostCleanup, KillRsyncd
  <1>9. CASE \/ RemoveInitializeKey("rmkey", "kill")
             \/ RemoveInitializeKey("rmkey2", "restart")
    BY <1>9 DEF RemoveInitializeKey
  <1>10. CASE \/ KillPatroni \/ FixInitializeKey \/ WaitReplicasRestart
              \/ RestartPrimary
    BY <1>10 DEF KillPatroni, FixInitializeKey, WaitReplicasRestart, RestartPrimary
  <1>11. CASE \/ ResumeCluster("resume", "finish")
              \/ ResumeCluster("cleanupresume", "done")
    BY <1>11 DEF ResumeCluster
  <1>12. CASE FinishUpgrade
    BY <1>12 DEF FinishUpgrade
  <1> QED
    BY <1>1, <1>2, <1>3, <1>4, <1>5, <1>6, <1>7, <1>8, <1>9, <1>10, <1>11, <1>12
    DEF Script

\* conns only shrinks together with ret, and the feedback is read before the
\* directory it is in is removed.
LEMMA ScriptExitInv ==
  ASSUME TypeOK, LeaderInv, PrimaryInv, ReplicaInv, ExitInv, Script
  PROVE  ExitInv'
  <1> USE NodeValues, PrimaryAssumption
      DEF ExitInv, Copied, Through, NewPC, TypeOK, outside, dcsVars, scriptVars,
          patroniVars, diskVars, pgVars, syncVars, Goto, Abort
  <1>1. CASE SanityChecks
    BY <1>1, AllRegistered DEF SanityChecks
  <1>2. CASE CheckAndDrop \/ ReadConfigForPause \/ WaitForPause
    BY <1>2 DEF CheckAndDrop, ReadConfigForPause, WaitForPause
  <1>3. CASE PrepareNewPgdata \/ WritePause \/ WaitForReplicas
    BY <1>3 DEF PrepareNewPgdata, WritePause, WaitForReplicas
  <1>4. CASE StopPostgres \/ StartRsyncd
    BY <1>4 DEF StopPostgres, StartRsyncd
  <1>5. CASE PgUpgrade \/ SwitchPgdataAside \/ SwitchPgdataIn
    BY <1>5 DEF PgUpgrade, SwitchPgdataAside, SwitchPgdataIn
  <1>6. CASE UpdateConfigs
    BY <1>6 DEF UpdateConfigs
  <1>7. CASE JoinCheckpoints
    BY <1>7 DEF JoinCheckpoints, PrimaryInv, DirectoryInv, ServerInv
  <1>8. CASE WaitForFeedback
    BY <1>8 DEF WaitForFeedback, PrimaryInv, DirectoryInv, ServerInv
  <1>9. ASSUME NEW r \in Replicas, NotifyReplica(r) PROVE ExitInv'
    BY <1>9 DEF NotifyReplica, ReplicaInv
  <1>10. CASE StopRsyncd \/ PostCleanup
    BY <1>10 DEF StopRsyncd, PostCleanup, KillRsyncd
  <1>11. CASE \/ RemoveInitializeKey("rmkey", "kill")
              \/ RemoveInitializeKey("rmkey2", "restart")
    BY <1>11 DEF RemoveInitializeKey
  <1>12. CASE KillPatroni \/ FixInitializeKey
    BY <1>12 DEF KillPatroni, FixInitializeKey
  <1>13. CASE WaitReplicasRestart \/ RestartPrimary
    BY <1>13 DEF WaitReplicasRestart, RestartPrimary
  <1>14. CASE ResumeCluster("resume", "finish")
    BY <1>14 DEF ResumeCluster
  <1>15. CASE ResumeCluster("cleanupresume", "done")
    BY <1>15 DEF ResumeCluster
  <1>16. CASE FinishUpgrade
    <2>1. /\ pc = "finish" /\ pc' = "cleanup" /\ (UNCHANGED ret \/ ret' = FALSE)
          /\ UNCHANGED <<conns, conf, rpc, dataDir, feedback>>
      BY <1>16 DEF FinishUpgrade
    <2> QED
      BY <2>1
  <1> QED
    BY <1>1, <1>2, <1>3, <1>4, <1>5, <1>6, <1>7, <1>8, <1>9, <1>10, <1>11,
       <1>12, <1>13, <1>14, <1>15, <1>16
    DEF Script

-----------------------------------------------------------------------------
(* The script on a replica preserves it *)

LEMMA ReplicaPreserves ==
  ASSUME IInv, NEW r \in Replicas, ReplicaScript(r)
  PROVE  PrimaryInv' /\ ReplicaInv' /\ ExitInv'
  <1> UNCHANGED <<pc, ret, conns, todo, served>>
    BY DEF ReplicaScript, scriptVars, ghostVars
  <1> USE NodeValues, PrimaryAssumption
      DEF IInv, PrimaryInv, DirectoryInv, ServerInv, ReplicaInv, ExitInv, Copied, Through, TypeOK, dcsVars,
          patroniVars, diskVars, pgVars
  <1>1. CASE ReplicaStop(r)
    BY <1>1 DEF ReplicaStop
  <1>2. CASE ReplicaSwitch(r) \/ ReplicaUpdateConfigs(r) \/ RsyncConnect(r)
    BY <1>2 DEF ReplicaSwitch, ReplicaUpdateConfigs, RsyncConnect
  <1>3. CASE RsyncFinish(r)
    BY <1>3 DEF RsyncFinish
  <1>4. CASE ReplicaRevert(r) \/ ReplicaRevertOld(r)
    BY <1>4 DEF ReplicaRevert, ReplicaRevertOld
  <1>5. CASE ReplicaWaitPrimary(r)
    BY <1>5 DEF ReplicaWaitPrimary
  <1>6. CASE \/ ReplicaRemoveRecoveryConf(r, "rmconf", "kill")
             \/ ReplicaRemoveRecoveryConf(r, "rmconf2", "cleanold")
    BY <1>6 DEF ReplicaRemoveRecoveryConf
  <1>7. CASE ReplicaWaitPrimary(r) \/ ReplicaKillPatroni(r) \/ ReplicaCleanup(r)
    BY <1>7 DEF ReplicaWaitPrimary, ReplicaKillPatroni, ReplicaCleanup
  <1> QED
    BY <1>1, <1>2, <1>3, <1>4, <1>5, <1>6, <1>7 DEF ReplicaScript

-----------------------------------------------------------------------------
(* Patroni and the operator preserve it *)

\* They move no directory and write no feedback.
Untouched ==
    UNCHANGED <<pc, ret, conns, todo, dataDir, newDir, oldDir, conf, rsyncd, feedback, rpc>>

LEMMA EnvironmentFrame == Environment => Untouched
  BY DEF Untouched, Environment, EnvUnchanged, OperatorPause, DemotePrimary, CatchUp,
         Failover, SeePause, PatroniStart, PatroniExit, PatroniCrash, RunitRestart,
         RecreateKey, diskVars, syncVars, scriptVars

\* Patroni loads a configuration that is there, and starts no server while it
\* knows of the maintenance mode or the port is in use.
LEMMA EnvironmentServer ==
  ASSUME IInv, Environment
  PROVE  /\ bin'[Primary] = "new" => conf[Primary] = "new"
         /\ pc \in DownPC \/ rsyncd = "on" => pg'[Primary] = "down"
         /\ pg'[Primary] = "old" => dataDir[Primary] = "old"
         /\ served' => conf[Primary] = "new" /\ rsyncd # "on"
  <1> DEFINE Goal == /\ bin'[Primary] = "new" => conf[Primary] = "new"
                     /\ pc \in DownPC \/ rsyncd = "on" => pg'[Primary] = "down"
                     /\ pg'[Primary] = "old" => dataDir[Primary] = "old"
                     /\ served' => conf[Primary] = "new" /\ rsyncd # "on"
  <1> SUFFICES Goal
    OBVIOUS
  <1> USE NodeValues DEF IInv, PrimaryInv, DirectoryInv, ServerInv, TypeOK, patroniVars, pgVars, ghostVars
  <1>1. CASE OperatorPause \/ DemotePrimary
    BY <1>1 DEF OperatorPause, DemotePrimary
  <1>2. ASSUME NEW r \in Replicas, CatchUp(r) PROVE Goal
    BY <1>2 DEF CatchUp
  <1>3. ASSUME NEW r \in Replicas, Failover(r) PROVE Goal
    BY <1>3 DEF Failover
  <1>4. ASSUME NEW n \in Nodes, SeePause(n) PROVE Goal
    BY <1>4 DEF SeePause
  <1>5. ASSUME NEW n \in Nodes, PatroniStart(n) PROVE Goal
    <2>1. CASE n # Primary
      BY <1>5, <2>1 DEF PatroniStart, StartServer
    <2>2. CASE n = Primary
      <3>1. pc \in DownPC \/ rsyncd = "on" => ~CanStart(Primary)
        BY <1>5, <2>2
        DEF PatroniStart, CanStart, Runs, LeaderInv, DownPC, WaitPC, LatePC,
            AfterUpgradeBegan, NewPC, Version
      <3>2. \/ pg' = pg /\ served' = served
            \/ CanStart(Primary) /\ StartServer(Primary)
        BY <1>5, <2>2 DEF PatroniStart
      <3>3. bin' = bin
        BY <1>5 DEF PatroniStart
      <3>4. CASE pg' = pg /\ served' = served
        BY <3>3, <3>4
      <3>5. CASE CanStart(Primary) /\ StartServer(Primary)
        BY <3>1, <3>3, <3>5 DEF StartServer, CanStart, Runs
      <3> QED
        BY <3>2, <3>4, <3>5
    <2> QED
      BY <2>1, <2>2
  <1>6. ASSUME NEW n \in Nodes, PatroniExit(n) PROVE Goal
    BY <1>6 DEF PatroniExit
  <1>7. ASSUME NEW n \in Nodes, PatroniCrash(n) PROVE Goal
    BY <1>7 DEF PatroniCrash
  <1>8. ASSUME NEW n \in Nodes, RunitRestart(n) PROVE Goal
    BY <1>8 DEF RunitRestart
  <1>9. ASSUME NEW n \in Nodes, RecreateKey(n) PROVE Goal
    BY <1>9 DEF RecreateKey
  <1> QED
    BY <1>1, <1>2, <1>3, <1>4, <1>5, <1>6, <1>7, <1>8, <1>9 DEF Environment

LEMMA EnvironmentPreserves ==
  ASSUME IInv, Environment
  PROVE  PrimaryInv' /\ ReplicaInv' /\ ExitInv'
  BY EnvironmentFrame, EnvironmentServer
  DEF Untouched, IInv, PrimaryInv, DirectoryInv, ServerInv, ReplicaInv, ExitInv, Copied

LEMMA NextIInv == IInv /\ [Next]_vars => IInv'
  <1> SUFFICES ASSUME IInv, [Next]_vars PROVE IInv'
    OBVIOUS
  <1>1. TypeOK' /\ PauseInv' /\ LeaderInv'
    BY NextTypeOK, NextPauseInv, NextLeaderInv DEF IInv
  <1>2. PrimaryInv' /\ ReplicaInv' /\ ExitInv'
    <2>1. CASE Script
      BY <2>1, ScriptPrimaryInv, ScriptReplicaInv, ScriptExitInv DEF IInv
    <2>2. CASE \E r \in Replicas : ReplicaScript(r)
      BY <2>2, ReplicaPreserves
    <2>3. CASE Environment
      BY <2>3, EnvironmentPreserves
    <2>4. CASE UNCHANGED vars
      BY <2>4 DEF IInv, PrimaryInv, DirectoryInv, ServerInv, ReplicaInv, ExitInv, Copied, vars, outside,
                  scriptVars, patroniVars, diskVars, pgVars, syncVars, ghostVars
    <2>5. CASE BackupEnds
      BY <2>5, BackupFrame DEF IInv, PrimaryInv, DirectoryInv, ServerInv, ReplicaInv, ExitInv, Copied
    <2> QED
      BY <2>1, <2>2, <2>3, <2>4, <2>5 DEF Next
  <1> QED
    BY <1>1, <1>2 DEF IInv

LEMMA Inductive == Spec => []IInv
  BY InitIInv, NextIInv, PTL DEF Spec

-----------------------------------------------------------------------------
(* Every step is one of ClusterUpgrade *)

LEMMA InitRefines == Init => Cluster!Init
  BY NodeValues DEF Init, Cluster!Init, Cluster!Nodes, versionOf, outcome, Nodes

server == IF pg[Primary] = "down" THEN "none" ELSE pg[Primary]

\* A step that gives one node another version.
LEMMA MoveStep ==
  ASSUME NEW m \in Nodes, NEW to, versionOf(m)' = to,
         \A n \in Nodes \ {m} : versionOf(n)' = versionOf(n),
         server' = server, served' = served, outcome' = outcome
  PROVE  Cluster!Move(m, versionOf(m), to)
  BY DEF Cluster!Move, server

\* A step that gives none another version, and leaves the rest alone too.
LEMMA StutterStep ==
  ASSUME \A n \in Nodes : versionOf(n)' = versionOf(n),
         server' = server, served' = served, outcome' = outcome
  PROVE  UNCHANGED Cluster!vars
  BY DEF Cluster!vars, server

\* The server of the primary goes down, comes up with the version its directory
\* and configuration are of, or does not change.
LEMMA ServerStep ==
  ASSUME \A n \in Nodes : versionOf(n)' = versionOf(n), outcome' = outcome,
         \/ server' = "none" /\ served' = served
         \/ server' = server /\ served' = served
         \/ /\ server = "none" /\ server' = versionOf(Primary) /\ server' \in {"old", "new"}
            /\ served' = (served \/ versionOf(Primary) = "new")
  PROVE  [Cluster!Next]_(Cluster!vars)
  <1>1. CASE server' = server /\ served' = served
    BY <1>1, StutterStep
  <1>2. CASE server' = "none" /\ server # "none" /\ served' = served
    BY <1>2 DEF Cluster!Next, Cluster!Stop, server
  <1>3. CASE /\ server = "none" /\ server' = versionOf(Primary) /\ server' \in {"old", "new"}
             /\ served' = (served \/ versionOf(Primary) = "new")
    BY <1>3, NodeValues DEF Cluster!Next, Cluster!Start, server
  <1> QED
    BY <1>1, <1>2, <1>3

\* Where the two versions are, in terms of the invariant.
LEMMA PrimaryVersion ==
  ASSUME IInv
  PROVE  /\ pc \in OldPC => versionOf(Primary) = "old"
         /\ pc \in {"switch", "rename", "config"} => versionOf(Primary) = "moving"
         /\ conf[Primary] = "new" => versionOf(Primary) = "new"
         /\ conf[Primary] = "old" /\ dataDir[Primary] = "old" => versionOf(Primary) = "old"
  BY PrimaryAssumption, NodeValues
  DEF IInv, PrimaryInv, DirectoryInv, ServerInv, versionOf, OldPC, CalmPC, NewPC

-----------------------------------------------------------------------------
(* The script on the primary *)

LEMMA ScriptRefines == IInv /\ IInv' /\ Script => [Cluster!Next]_(Cluster!vars)
  <1> SUFFICES ASSUME IInv, IInv', Script PROVE [Cluster!Next]_(Cluster!vars)
    OBVIOUS
  <1> DEFINE Same == UNCHANGED <<dataDir, conf, pg, served>> /\ \A r \in Replicas :
                       rpc'[r] = "failed" <=> rpc[r] = "failed"
  <1>0. Same /\ outcome' = outcome => [Cluster!Next]_(Cluster!vars)
    BY StutterStep DEF server, versionOf, Nodes
  <1> USE DEF outside, scriptVars, dcsVars, patroniVars, diskVars, pgVars, syncVars,
              ghostVars, Goto, Abort, outcome
  <1>1. CASE SanityChecks \/ CheckAndDrop \/ ReadConfigForPause \/ WaitForPause
    BY <1>0, <1>1 DEF SanityChecks, CheckAndDrop, ReadConfigForPause, WaitForPause
  <1>2. CASE PrepareNewPgdata \/ WritePause \/ WaitForReplicas \/ StartRsyncd
    BY <1>0, <1>2 DEF PrepareNewPgdata, WritePause, WaitForReplicas, StartRsyncd
  <1>3. CASE StopPostgres
    BY <1>3, ServerStep, NodeValues DEF StopPostgres, versionOf, server, IInv, TypeOK
  <1>4. CASE JoinCheckpoints \/ WaitForFeedback \/ StopRsyncd \/ PostCleanup
    BY <1>0, <1>4 DEF JoinCheckpoints, WaitForFeedback, StopRsyncd, PostCleanup, KillRsyncd
  <1>5. ASSUME NEW r \in Replicas, NotifyReplica(r) PROVE [Cluster!Next]_(Cluster!vars)
    BY <1>0, <1>5 DEF NotifyReplica, IInv, ReplicaInv, TypeOK
  <1>6. CASE \/ RemoveInitializeKey("rmkey", "kill")
             \/ RemoveInitializeKey("rmkey2", "restart")
             \/ ResumeCluster("resume", "finish")
    BY <1>0, <1>6 DEF RemoveInitializeKey, ResumeCluster
  <1>7. CASE KillPatroni \/ FixInitializeKey \/ WaitReplicasRestart \/ FinishUpgrade
    BY <1>0, <1>7 DEF KillPatroni, FixInitializeKey, WaitReplicasRestart, FinishUpgrade
  <1>8. CASE PgUpgrade
    <2>1. \A r \in Replicas : versionOf(r)' = versionOf(r)
      BY <1>8, PrimaryAssumption, NodeValues DEF PgUpgrade, versionOf, IInv, TypeOK
    <2>2. versionOf(Primary) = "old" /\ server' = server /\ served' = served
      BY <1>8, PrimaryVersion DEF PgUpgrade, OldPC, server
    <2>7. versionOf(Primary)' = versionOf(Primary) \/ server = "none"
      BY <1>8 DEF PgUpgrade, server, versionOf
    <2>3. versionOf(Primary)' \in {"old", "moving"}
      BY <1>8, <2>2, NodeValues, PrimaryAssumption
      DEF PgUpgrade, versionOf, IInv, PrimaryInv, DirectoryInv, ServerInv, TypeOK, OldPC, NewPC
    <2>4. outcome = "none" /\ outcome' = "none"
      BY <1>8 DEF PgUpgrade
    <2>5. CASE versionOf(Primary)' = "old"
      BY <2>1, <2>2, <2>4, <2>5, StutterStep DEF Nodes
    <2>6. CASE versionOf(Primary)' = "moving"
      BY <2>1, <2>2, <2>4, <2>6, <2>7, MoveStep, NodeValues
      DEF Nodes, Cluster!Next, Cluster!Begin, server
    <2> QED
      BY <2>3, <2>5, <2>6
  <1>9. CASE SwitchPgdataAside \/ SwitchPgdataIn
    <2>1. \A r \in Replicas : versionOf(r)' = versionOf(r)
      BY <1>9, PrimaryAssumption, NodeValues
      DEF SwitchPgdataAside, SwitchPgdataIn, versionOf, IInv, TypeOK
    <2>2. versionOf(Primary) = "moving"
      BY <1>9, PrimaryVersion DEF SwitchPgdataAside, SwitchPgdataIn
    <2>3. versionOf(Primary)' = "moving"
      BY <1>9, NodeValues, PrimaryAssumption
      DEF SwitchPgdataAside, SwitchPgdataIn, versionOf, IInv, PrimaryInv, DirectoryInv, ServerInv, TypeOK, NewPC
    <2>4. outcome = "none" /\ outcome' = "none" /\ server' = server /\ served' = served
      BY <1>9 DEF SwitchPgdataAside, SwitchPgdataIn, server
    <2> QED
      BY <2>1, <2>2, <2>3, <2>4, StutterStep DEF Nodes
  <1>10. CASE UpdateConfigs
    <2>1. \A r \in Replicas : versionOf(r)' = versionOf(r)
      BY <1>10, PrimaryAssumption, NodeValues DEF UpdateConfigs, versionOf, IInv, TypeOK
    <2>2. versionOf(Primary) = "moving" /\ server = "none" /\ server' = server /\ served' = served
      BY <1>10, PrimaryVersion DEF UpdateConfigs, server, IInv, PrimaryInv, DirectoryInv, ServerInv, DownPC
    <2>3. versionOf(Primary)' \in {"moving", "new"}
      BY <1>10, NodeValues, PrimaryAssumption
      DEF UpdateConfigs, versionOf, IInv, PrimaryInv, DirectoryInv, ServerInv, TypeOK, NewPC
    <2>4. outcome = "none" /\ outcome' = "none"
      BY <1>10 DEF UpdateConfigs
    <2>5. CASE versionOf(Primary)' = "moving"
      BY <2>1, <2>2, <2>4, <2>5, StutterStep DEF Nodes
    <2>6. CASE versionOf(Primary)' = "new"
      BY <2>1, <2>2, <2>4, <2>6, MoveStep, NodeValues
      DEF Nodes, Cluster!Next, Cluster!Commit, server
    <2> QED
      BY <2>3, <2>5, <2>6
  <1>11. CASE RestartPrimary
    <2>1. UNCHANGED <<dataDir, conf, rpc>> /\ outcome' = outcome
      BY <1>11 DEF RestartPrimary
    <2>2. \A n \in Nodes : versionOf(n)' = versionOf(n)
      BY <2>1 DEF versionOf
    <2>3. pg[Primary] = "down" /\ dataDir[Primary] = "new" /\ conf[Primary] = "new"
      BY <1>11 DEF RestartPrimary, IInv, PrimaryInv, DirectoryInv, ServerInv, NewPC, DownPC
    <2>4. \/ pg'[Primary] = "down" /\ served' = served
          \/ pg'[Primary] = "new" /\ served' = TRUE
      BY <1>11, <2>3, NodeValues
      DEF RestartPrimary, StartServer, CanStart, Runs, IInv, TypeOK, Version
    <2>5. versionOf(Primary) = "new"
      BY <2>3, PrimaryVersion
    <2> QED
      BY <2>1, <2>2, <2>3, <2>4, <2>5, ServerStep DEF server
  <1>12. CASE ResumeCluster("cleanupresume", "done")
    <2>1. UNCHANGED <<dataDir, conf, rpc, pg, ret, served>> /\ outcome = "none"
          /\ outcome' = (IF ret THEN "ok" ELSE "error")
      BY <1>12 DEF ResumeCluster
    <2>2. \A n \in Nodes : versionOf(n)' = versionOf(n)
      BY <2>1 DEF versionOf
    <2>3. ret => \A n \in Nodes : versionOf(n) = "new"
      BY <1>12, PrimaryVersion, PrimaryAssumption
      DEF ResumeCluster, IInv, ExitInv, ReplicaInv, Copied, versionOf, Nodes
    <2> QED
      BY <2>1, <2>2, <2>3 DEF Cluster!Next, Cluster!Finish, Cluster!Nodes, Nodes, outcome
  <1> QED
    BY <1>1, <1>2, <1>3, <1>4, <1>5, <1>6, <1>7, <1>8, <1>9, <1>10, <1>11, <1>12
    DEF Script

-----------------------------------------------------------------------------
(* The script on a replica *)

\* It moves no directory of another node.
LEMMA OthersKept ==
  ASSUME TypeOK, NEW r \in Replicas, ReplicaScript(r), NEW n \in Nodes \ {r}
  PROVE  versionOf(n)' = versionOf(n)
  <1> SUFFICES /\ dataDir'[n] = dataDir[n] /\ conf'[n] = conf[n]
               /\ n \in Replicas => rpc'[n] = rpc[n]
    BY DEF versionOf
  <1> USE DEF TypeOK, diskVars
  <1>1. CASE ReplicaStop(r) \/ ReplicaSwitch(r) \/ ReplicaUpdateConfigs(r)
    BY <1>1 DEF ReplicaStop, ReplicaSwitch, ReplicaUpdateConfigs
  <1>2. CASE RsyncConnect(r) \/ RsyncFinish(r) \/ ReplicaRevert(r) \/ ReplicaRevertOld(r)
    BY <1>2 DEF RsyncConnect, RsyncFinish, ReplicaRevert, ReplicaRevertOld
  <1>3. CASE \/ ReplicaRemoveRecoveryConf(r, "rmconf", "kill")
             \/ ReplicaRemoveRecoveryConf(r, "rmconf2", "cleanold")
    BY <1>3 DEF ReplicaRemoveRecoveryConf
  <1>4. CASE ReplicaWaitPrimary(r) \/ ReplicaKillPatroni(r) \/ ReplicaCleanup(r)
    BY <1>4 DEF ReplicaWaitPrimary, ReplicaKillPatroni, ReplicaCleanup
  <1> QED
    BY <1>1, <1>2, <1>3, <1>4 DEF ReplicaScript

LEMMA ReplicaRefines ==
  ASSUME IInv, NEW r \in Replicas, ReplicaScript(r)
  PROVE  [Cluster!Next]_(Cluster!vars)
  <1>1. outcome' = outcome
    BY DEF ReplicaScript, outcome
  <1>2. \A n \in Nodes \ {r} : versionOf(n)' = versionOf(n)
    BY OthersKept DEF IInv
  <1>3. server' = server /\ served' = served
    BY ReplicaScriptPrimary DEF IInv, server, ReplicaScript, ghostVars
  <1>4. r \in Nodes /\ r # Primary
    BY PrimaryAssumption, NodeValues
  <1>5. versionOf(r)' = versionOf(r) => [Cluster!Next]_(Cluster!vars)
    BY <1>1, <1>2, <1>3, StutterStep
  <1>6. \A to : versionOf(r)' = to => Cluster!Move(r, versionOf(r), to)
    BY <1>1, <1>2, <1>3, <1>4, MoveStep
  <1> USE <1>4 DEF IInv, ReplicaInv, TypeOK, diskVars
  <1>7. CASE \/ ReplicaStop(r) \/ RsyncConnect(r) \/ ReplicaWaitPrimary(r)
             \/ ReplicaKillPatroni(r) \/ ReplicaCleanup(r)
             \/ ReplicaRemoveRecoveryConf(r, "rmconf", "kill")
             \/ ReplicaRemoveRecoveryConf(r, "rmconf2", "cleanold")
    <2>1. UNCHANGED <<dataDir, conf>>
      BY <1>7 DEF ReplicaStop, RsyncConnect, ReplicaWaitPrimary, ReplicaKillPatroni,
                  ReplicaCleanup, ReplicaRemoveRecoveryConf
    <2>2. rpc'[r] = "failed" => dataDir[r] = "old" /\ conf[r] = "old"
      BY <1>7 DEF ReplicaStop, RsyncConnect, ReplicaWaitPrimary, ReplicaKillPatroni,
                  ReplicaCleanup, ReplicaRemoveRecoveryConf
    <2>3. rpc[r] # "failed"
      BY <1>7 DEF ReplicaStop, RsyncConnect, ReplicaWaitPrimary, ReplicaKillPatroni,
                  ReplicaCleanup, ReplicaRemoveRecoveryConf
    <2> QED
      BY <1>5, <2>1, <2>2, <2>3 DEF versionOf
  <1>8. CASE ReplicaSwitch(r)
    <2>1. versionOf(r) = "old" /\ versionOf(r)' \in {"old", "moving"}
      BY <1>8 DEF ReplicaSwitch, versionOf
    <2>2. versionOf(Primary) = "new"
      BY <1>8, PrimaryVersion DEF ReplicaSwitch
    <2>3. CASE versionOf(r)' = "old"
      BY <1>5, <2>1, <2>3
    <2>4. CASE versionOf(r)' = "moving"
      BY <1>6, <2>1, <2>2, <2>4, NodeValues DEF Cluster!Next, Cluster!Fetch
    <2> QED
      BY <2>1, <2>3, <2>4
  <1>9. CASE RsyncFinish(r)
    <2>1. versionOf(r) = "moving"
      BY <1>9 DEF RsyncFinish, versionOf
    <2>2. CASE rpc'[r] = "waitprimary" /\ served
      <3>1. dataDir'[r] = "torn" /\ conf'[r] = "new"
        BY <1>9, <2>2 DEF RsyncFinish
      <3>2. versionOf(r)' = "failed"
        BY <3>1 DEF versionOf
      <3> QED
        BY <1>6, <2>1, <3>2 DEF Cluster!Next, Cluster!Fail
    <2>3. CASE rpc'[r] = "waitprimary" /\ ~served
      <3>1. dataDir'[r] = "new" /\ conf'[r] = "new"
        BY <1>9, <2>3 DEF RsyncFinish, PrimaryInv, DirectoryInv, ServerInv
      <3>2. versionOf(r)' = "new"
        BY <3>1 DEF versionOf
      <3> QED
        BY <1>6, <2>1, <2>3, <3>2 DEF Cluster!Next, Cluster!Fetched
    <2>4. CASE rpc'[r] = "revert"
      <3>1. versionOf(r)' = "moving"
        BY <1>9, <2>4 DEF RsyncFinish, versionOf
      <3> QED
        BY <1>5, <2>1, <3>1
    <2> QED
      BY <1>9, <2>2, <2>3, <2>4 DEF RsyncFinish
  <1>10. CASE ReplicaUpdateConfigs(r) \/ ReplicaRevert(r) \/ ReplicaRevertOld(r)
    <2>1. versionOf(r) = "moving"
      BY <1>10 DEF ReplicaUpdateConfigs, ReplicaRevert, ReplicaRevertOld, versionOf
    <2>2. versionOf(r)' \in {"moving", "failed"}
      <3>1. CASE ReplicaUpdateConfigs(r)
        BY <3>1 DEF ReplicaUpdateConfigs, versionOf
      <3>2. CASE ReplicaRevert(r)
        BY <3>2 DEF ReplicaRevert, versionOf
      <3>3. CASE ReplicaRevertOld(r)
        BY <3>3 DEF ReplicaRevertOld, versionOf
      <3> QED
        BY <1>10, <3>1, <3>2, <3>3
    <2>3. CASE versionOf(r)' = "moving"
      BY <1>5, <2>1, <2>3
    <2>4. CASE versionOf(r)' = "failed"
      BY <1>6, <2>1, <2>4 DEF Cluster!Next, Cluster!Fail
    <2> QED
      BY <2>2, <2>3, <2>4
  <1> QED
    BY <1>7, <1>8, <1>9, <1>10 DEF ReplicaScript

-----------------------------------------------------------------------------
(* Patroni and the operator *)

LEMMA EnvironmentRefines ==
  ASSUME IInv, Environment
  PROVE  [Cluster!Next]_(Cluster!vars)
  <1>1. Untouched
    BY EnvironmentFrame
  <1>2. outcome' = outcome /\ \A n \in Nodes : versionOf(n)' = versionOf(n)
    BY <1>1 DEF Untouched, outcome, versionOf
  <1>3. \/ server' = "none" /\ served' = served
        \/ server' = server /\ served' = served
        \/ /\ server = "none" /\ server' = versionOf(Primary) /\ server' \in {"old", "new"}
           /\ served' = (served \/ versionOf(Primary) = "new")
    <2> DEFINE Goal == \/ pg'[Primary] = "down" /\ served' = served
                       \/ pg'[Primary] = pg[Primary] /\ served' = served
                       \/ /\ pg[Primary] = "down" /\ pg'[Primary] = bin[Primary]
                          /\ Runs(bin[Primary], dataDir[Primary])
                          /\ served' = (served \/ bin[Primary] = "new")
    <2> USE NodeValues DEF IInv, TypeOK, pgVars, ghostVars
    <2>1. ASSUME OperatorPause \/ DemotePrimary PROVE Goal
      BY <2>1 DEF OperatorPause, DemotePrimary
    <2>2. ASSUME NEW r \in Replicas, CatchUp(r) \/ Failover(r) PROVE Goal
      BY <2>2 DEF CatchUp, Failover
    <2>3. ASSUME NEW n \in Nodes, \/ SeePause(n) \/ PatroniCrash(n)
                                   \/ RunitRestart(n) \/ RecreateKey(n)
          PROVE  Goal
      BY <2>3 DEF SeePause, PatroniCrash, RunitRestart, RecreateKey
    <2>4. ASSUME NEW n \in Nodes, PatroniStart(n) \/ PatroniExit(n) PROVE Goal
      <3>1. CASE n = Primary
        BY <2>4, <3>1 DEF PatroniStart, PatroniExit, StartServer, CanStart
      <3>2. CASE n # Primary
        BY <2>4, <3>2 DEF PatroniStart, PatroniExit, StartServer
      <3> QED
        BY <3>1, <3>2
    <2>5. Goal
      BY <2>1, <2>2, <2>3, <2>4 DEF Environment
    <2>6. Runs(bin[Primary], dataDir[Primary]) =>
            versionOf(Primary) = bin[Primary] /\ bin[Primary] \in {"old", "new"}
      BY PrimaryVersion DEF PrimaryInv, DirectoryInv, ServerInv, Runs, Version
    <2> QED
      BY <2>5, <2>6 DEF server
  <1> QED
    BY <1>2, <1>3, ServerStep

LEMMA NextRefines == IInv /\ IInv' /\ [Next]_vars => [Cluster!Next]_(Cluster!vars)
  <1>1. IInv /\ UNCHANGED vars => UNCHANGED Cluster!vars
    BY StutterStep
    DEF vars, outside, diskVars, pgVars, syncVars, ghostVars, versionOf, server, outcome
  <1>2. BackupEnds => UNCHANGED Cluster!vars
    BY StutterStep, BackupFrame DEF versionOf, server, outcome
  <1> QED
    BY <1>1, <1>2, ScriptRefines, ReplicaRefines, EnvironmentRefines DEF Next

\* Whatever fails, the upgrade of a cluster is what ClusterUpgrade says.
THEOREM Refinement == Spec => ImplementsClusterUpgrade
  BY Inductive, InitRefines, NextRefines, PTL DEF Spec, ImplementsClusterUpgrade, Cluster!Spec

-----------------------------------------------------------------------------
(* The data on the primary *)

\* UsableDataKept is inductive relative to the invariant: it says which directory
\* holds the data at the steps that move or remove one.
LEMMA ScriptKeepsData == IInv /\ UsableDataKept /\ Script => UsableDataKept'
  <1> SUFFICES ASSUME IInv, UsableDataKept, Script PROVE UsableDataKept'
    OBVIOUS
  <1> DEFINE P == Primary
  <1>0. /\ dataDir \in [Nodes -> Content] /\ newDir \in [Nodes -> Content]
        /\ oldDir \in [Nodes -> Content] /\ P \in Nodes
    BY NodeValues DEF IInv, TypeOK
  <1>1. UNCHANGED <<dataDir, newDir, oldDir>> => UsableDataKept'
    BY DEF UsableDataKept
  <1>2. dataDir'[P] \in {"old", "new"} => UsableDataKept'
    BY DEF UsableDataKept
  <1>3. newDir'[P] = "new" => UsableDataKept'
    BY DEF UsableDataKept
  <1> USE DEF Goto, Abort, outside, diskVars
  <1>4. CASE PrepareNewPgdata
    BY <1>0, <1>2, <1>4 DEF PrepareNewPgdata, IInv, PrimaryInv, DirectoryInv, ServerInv, OldPC, CalmPC
  <1>5. CASE PgUpgrade
    <2>1. dataDir[P] = "old"
      BY <1>5 DEF PgUpgrade, IInv, PrimaryInv, DirectoryInv, ServerInv, OldPC
    <2>2. \/ newDir'[P] = "new"
          \/ dataDir'[P] = "old"
          \/ dataDir'[P] = "linked" /\ newDir'[P] = "broken"
      BY <1>0, <1>5, <2>1 DEF PgUpgrade
    <2> QED
      BY <1>2, <1>3, <2>2 DEF UsableDataKept
  <1>6. CASE SwitchPgdataAside
    BY <1>3, <1>6 DEF SwitchPgdataAside, IInv, PrimaryInv, DirectoryInv, ServerInv
  <1>7. CASE SwitchPgdataIn
    BY <1>0, <1>2, <1>3, <1>7 DEF SwitchPgdataIn, IInv, PrimaryInv, DirectoryInv, ServerInv
  <1>8. CASE FinishUpgrade
    BY <1>2, <1>8 DEF FinishUpgrade, IInv, PrimaryInv, DirectoryInv, ServerInv, NewPC
  <1>9. ASSUME NEW r \in Replicas, NotifyReplica(r) PROVE UsableDataKept'
    BY <1>1, <1>9 DEF NotifyReplica
  <1>10. CASE \/ RemoveInitializeKey("rmkey", "kill")
              \/ RemoveInitializeKey("rmkey2", "restart")
              \/ ResumeCluster("resume", "finish")
              \/ ResumeCluster("cleanupresume", "done")
    BY <1>1, <1>10 DEF RemoveInitializeKey, ResumeCluster
  <1>11. CASE SanityChecks \/ CheckAndDrop \/ ReadConfigForPause \/ WritePause
    BY <1>1, <1>11 DEF SanityChecks, CheckAndDrop, ReadConfigForPause, WritePause
  <1>12. CASE WaitForPause \/ StopPostgres \/ StartRsyncd \/ WaitForReplicas
    BY <1>1, <1>12 DEF WaitForPause, StopPostgres, StartRsyncd, WaitForReplicas
  <1>13. CASE UpdateConfigs \/ JoinCheckpoints \/ WaitForFeedback \/ StopRsyncd
    BY <1>1, <1>13 DEF UpdateConfigs, JoinCheckpoints, WaitForFeedback, StopRsyncd
  <1>14. CASE KillPatroni \/ RestartPrimary \/ FixInitializeKey
              \/ WaitReplicasRestart \/ PostCleanup
    BY <1>1, <1>14 DEF KillPatroni, RestartPrimary, FixInitializeKey,
                       WaitReplicasRestart, PostCleanup
  <1> QED
    BY <1>4, <1>5, <1>6, <1>7, <1>8, <1>9, <1>10, <1>11, <1>12, <1>13, <1>14 DEF Script

LEMMA ReplicaKeepsData ==
  ASSUME TypeOK, UsableDataKept, NEW r \in Replicas, ReplicaScript(r)
  PROVE  UsableDataKept'
  <1> SUFFICES UNCHANGED <<dataDir[Primary], newDir[Primary], oldDir[Primary]>>
    BY DEF UsableDataKept
  <1> USE PrimaryAssumption, NodeValues DEF TypeOK, diskVars
  <1>1. CASE ReplicaStop(r) \/ ReplicaSwitch(r) \/ ReplicaUpdateConfigs(r)
    BY <1>1 DEF ReplicaStop, ReplicaSwitch, ReplicaUpdateConfigs
  <1>2. CASE RsyncConnect(r) \/ RsyncFinish(r) \/ ReplicaRevert(r) \/ ReplicaRevertOld(r)
    BY <1>2 DEF RsyncConnect, RsyncFinish, ReplicaRevert, ReplicaRevertOld
  <1>3. CASE \/ ReplicaRemoveRecoveryConf(r, "rmconf", "kill")
             \/ ReplicaRemoveRecoveryConf(r, "rmconf2", "cleanold")
    BY <1>3 DEF ReplicaRemoveRecoveryConf
  <1>4. CASE ReplicaWaitPrimary(r) \/ ReplicaKillPatroni(r) \/ ReplicaCleanup(r)
    BY <1>4 DEF ReplicaWaitPrimary, ReplicaKillPatroni, ReplicaCleanup
  <1> QED
    BY <1>1, <1>2, <1>3, <1>4 DEF ReplicaScript

\* Whatever fails, at any step and on any number of nodes, the primary keeps the
\* data in a directory that one of the two versions can start.
THEOREM DataIsKept == Spec => []UsableDataKept
  <1>1. Init => UsableDataKept
    BY NodeValues DEF Init, UsableDataKept
  <1>2. IInv /\ UsableDataKept /\ [Next]_vars => UsableDataKept'
    <2>1. IInv /\ UsableDataKept /\ Environment => UsableDataKept'
      BY EnvironmentFrame DEF Untouched, UsableDataKept
    <2>2. UsableDataKept /\ UNCHANGED vars => UsableDataKept'
      BY DEF UsableDataKept, vars, outside, diskVars
    <2>3. UsableDataKept /\ BackupEnds => UsableDataKept'
      BY BackupFrame DEF UsableDataKept
    <2> QED
      BY <2>1, <2>2, <2>3, ScriptKeepsData, ReplicaKeepsData DEF Next, IInv
  <1> QED
    BY <1>1, <1>2, Inductive, PTL DEF Spec

-----------------------------------------------------------------------------
(* recovery.conf on the replicas *)

\* After Patroni of a replica was killed, the one that runs has the new binaries,
\* and only one with the old binaries writes a recovery.conf.
RecoveryInv ==
    \A r \in Replicas :
      /\ rpc[r] \in {"rmconf2", "cleanold", "done"} => (up[r] => bin[r] = "new")
      /\ rpc[r] \in {"cleanold", "done"} => ~recConf[r]

LEMMA ScriptRecoveryInv == IInv /\ RecoveryInv /\ Script => RecoveryInv'
  <1> SUFFICES ASSUME IInv, RecoveryInv, Script PROVE RecoveryInv'
    OBVIOUS
  <1>1. UNCHANGED <<rpc, up, bin, recConf>> => RecoveryInv'
    BY DEF RecoveryInv
  <1> USE DEF outside, patroniVars, diskVars, syncVars
  <1>2. CASE KillPatroni
    BY <1>2, PrimaryAssumption DEF KillPatroni, RecoveryInv, IInv, TypeOK
  <1>3. ASSUME NEW r \in Replicas, NotifyReplica(r) PROVE RecoveryInv'
    BY <1>3 DEF NotifyReplica, RecoveryInv, IInv, TypeOK
  <1>4. CASE SanityChecks \/ CheckAndDrop \/ ReadConfigForPause \/ WritePause
    BY <1>1, <1>4 DEF SanityChecks, CheckAndDrop, ReadConfigForPause, WritePause
  <1>5. CASE WaitForPause \/ StopPostgres \/ StartRsyncd \/ WaitForReplicas
    BY <1>1, <1>5 DEF WaitForPause, StopPostgres, StartRsyncd, WaitForReplicas
  <1>6. CASE PrepareNewPgdata \/ PgUpgrade \/ SwitchPgdataAside \/ SwitchPgdataIn
    BY <1>1, <1>6 DEF PrepareNewPgdata, PgUpgrade, SwitchPgdataAside, SwitchPgdataIn
  <1>7. CASE UpdateConfigs \/ JoinCheckpoints \/ WaitForFeedback \/ StopRsyncd
    BY <1>1, <1>7 DEF UpdateConfigs, JoinCheckpoints, WaitForFeedback, StopRsyncd
  <1>8. CASE \/ RemoveInitializeKey("rmkey", "kill")
             \/ RemoveInitializeKey("rmkey2", "restart")
             \/ ResumeCluster("resume", "finish")
             \/ ResumeCluster("cleanupresume", "done")
    BY <1>1, <1>8 DEF RemoveInitializeKey, ResumeCluster
  <1>9. CASE \/ RestartPrimary \/ FixInitializeKey \/ WaitReplicasRestart
             \/ FinishUpgrade \/ PostCleanup
    BY <1>1, <1>9 DEF RestartPrimary, FixInitializeKey, WaitReplicasRestart,
                      FinishUpgrade, PostCleanup
  <1> QED
    BY <1>2, <1>3, <1>4, <1>5, <1>6, <1>7, <1>8, <1>9 DEF Script

LEMMA ReplicaRecoveryInv ==
  ASSUME IInv, RecoveryInv, NEW r \in Replicas, ReplicaScript(r)
  PROVE  RecoveryInv'
  <1> USE NodeValues DEF RecoveryInv, IInv, TypeOK, patroniVars, diskVars
  <1>1. CASE ReplicaStop(r) \/ ReplicaSwitch(r) \/ ReplicaUpdateConfigs(r)
    BY <1>1 DEF ReplicaStop, ReplicaSwitch, ReplicaUpdateConfigs
  <1>2. CASE RsyncConnect(r) \/ RsyncFinish(r) \/ ReplicaRevert(r) \/ ReplicaRevertOld(r)
    BY <1>2 DEF RsyncConnect, RsyncFinish, ReplicaRevert, ReplicaRevertOld
  <1>3. CASE \/ ReplicaRemoveRecoveryConf(r, "rmconf", "kill")
             \/ ReplicaRemoveRecoveryConf(r, "rmconf2", "cleanold")
    BY <1>3 DEF ReplicaRemoveRecoveryConf
  <1>4. CASE ReplicaWaitPrimary(r) \/ ReplicaKillPatroni(r) \/ ReplicaCleanup(r)
    BY <1>4 DEF ReplicaWaitPrimary, ReplicaKillPatroni, ReplicaCleanup
  <1> QED
    BY <1>1, <1>2, <1>3, <1>4 DEF ReplicaScript

LEMMA EnvironmentRecoveryInv == IInv /\ RecoveryInv /\ Environment => RecoveryInv'
  <1> SUFFICES ASSUME IInv, RecoveryInv, Environment PROVE RecoveryInv'
    OBVIOUS
  <1>1. UNCHANGED rpc
    BY EnvironmentFrame DEF Untouched
  <1> USE <1>1, NodeValues DEF RecoveryInv, IInv, TypeOK, patroniVars, diskVars
  <1>2. CASE OperatorPause \/ DemotePrimary
    BY <1>2 DEF OperatorPause, DemotePrimary
  <1>3. ASSUME NEW r \in Replicas, CatchUp(r) \/ Failover(r) PROVE RecoveryInv'
    BY <1>3 DEF CatchUp, Failover
  <1>4. ASSUME NEW n \in Nodes, SeePause(n) \/ RecreateKey(n) PROVE RecoveryInv'
    BY <1>4 DEF SeePause, RecreateKey
  <1>5. ASSUME NEW n \in Nodes, PatroniExit(n) \/ PatroniCrash(n) PROVE RecoveryInv'
    BY <1>5 DEF PatroniExit, PatroniCrash
  <1>6. ASSUME NEW n \in Nodes, PatroniStart(n) PROVE RecoveryInv'
    BY <1>6 DEF PatroniStart
  <1>7. ASSUME NEW n \in Nodes, RunitRestart(n) PROVE RecoveryInv'
    BY <1>7 DEF RunitRestart, ReplicaInv, Through
  <1> QED
    BY <1>2, <1>3, <1>4, <1>5, <1>6, <1>7 DEF Environment

\* The second removal of recovery.conf is enough: whenever the cluster was resumed
\* and whatever fails, none is left when the script on a replica is through.
THEOREM RecoveryConfGone == Spec => []NoStaleRecoveryConf
  <1>1. Init => RecoveryInv
    BY NodeValues DEF Init, RecoveryInv
  <1>2. IInv /\ RecoveryInv /\ [Next]_vars => RecoveryInv'
    <2>1. RecoveryInv /\ UNCHANGED vars => RecoveryInv'
      BY DEF RecoveryInv, vars, outside, patroniVars, diskVars, syncVars
    <2>2. RecoveryInv /\ BackupEnds => RecoveryInv'
      BY BackupFrame DEF RecoveryInv
    <2> QED
      BY <2>1, <2>2, ScriptRecoveryInv, ReplicaRecoveryInv, EnvironmentRecoveryInv DEF Next
  <1>3. RecoveryInv => NoStaleRecoveryConf
    BY DEF RecoveryInv, NoStaleRecoveryConf
  <1> QED
    BY <1>1, <1>2, <1>3, Inductive, PTL DEF Spec

-----------------------------------------------------------------------------
(* The initialize key *)

\* The leader is the primary, whose Patroni has cached the new identifier since it
\* was killed: it cannot bring the old key back after the last attempt to fix it.
KeyInv ==
    /\ dcsLeader = Primary
    /\ pc \in {"rmkey2", "restart", "fixkey", "waitrestart", "resume", "finish"} =>
         (up[Primary] => sysid[Primary] = "new")
    /\ InitializeKeyNotStale

LEMMA ScriptKeyInv ==
  ASSUME "dcs" \notin Faults, IInv, KeyInv, Script
  PROVE  KeyInv'
  <1> USE DEF KeyInv, InitializeKeyNotStale, outside, scriptVars, dcsVars, patroniVars,
              Goto, Abort
  <1>1. CASE \/ RemoveInitializeKey("rmkey", "kill")
             \/ RemoveInitializeKey("rmkey2", "restart")
    BY <1>1 DEF RemoveInitializeKey
  <1>2. CASE KillPatroni
    BY <1>2, NodeValues DEF KillPatroni, IInv, TypeOK
  <1>3. CASE RestartPrimary \/ FixInitializeKey \/ WaitReplicasRestart
    BY <1>3 DEF RestartPrimary, FixInitializeKey, WaitReplicasRestart
  <1>4. CASE \/ ResumeCluster("resume", "finish")
             \/ ResumeCluster("cleanupresume", "done")
             \/ FinishUpgrade \/ PostCleanup
    BY <1>4 DEF ResumeCluster, FinishUpgrade, PostCleanup
  <1>5. ASSUME NEW r \in Replicas, NotifyReplica(r) PROVE KeyInv'
    BY <1>5 DEF NotifyReplica
  <1>6. CASE SanityChecks \/ CheckAndDrop \/ ReadConfigForPause \/ WritePause
    BY <1>6 DEF SanityChecks, CheckAndDrop, ReadConfigForPause, WritePause
  <1>7. CASE WaitForPause \/ StopPostgres \/ StartRsyncd \/ WaitForReplicas
    BY <1>7 DEF WaitForPause, StopPostgres, StartRsyncd, WaitForReplicas
  <1>8. CASE PrepareNewPgdata \/ PgUpgrade \/ SwitchPgdataAside \/ SwitchPgdataIn
    BY <1>8 DEF PrepareNewPgdata, PgUpgrade, SwitchPgdataAside, SwitchPgdataIn
  <1>9. CASE UpdateConfigs \/ JoinCheckpoints \/ WaitForFeedback \/ StopRsyncd
    BY <1>9 DEF UpdateConfigs, JoinCheckpoints, WaitForFeedback, StopRsyncd
  <1> QED
    BY <1>1, <1>2, <1>3, <1>4, <1>5, <1>6, <1>7, <1>8, <1>9 DEF Script

LEMMA EnvironmentKeyInv ==
  ASSUME "failover" \notin Faults, IInv, KeyInv, Environment
  PROVE  KeyInv'
  <1>1. UNCHANGED pc
    BY EnvironmentFrame DEF Untouched
  <1> USE <1>1, NodeValues
      DEF KeyInv, InitializeKeyNotStale, IInv, TypeOK, dcsVars, patroniVars
  <1>2. CASE OperatorPause \/ DemotePrimary
    BY <1>2 DEF OperatorPause, DemotePrimary
  <1>3. ASSUME NEW r \in Replicas, CatchUp(r) \/ Failover(r) PROVE KeyInv'
    BY <1>3 DEF CatchUp, Failover
  <1>4. ASSUME NEW n \in Nodes, SeePause(n) \/ PatroniStart(n) PROVE KeyInv'
    BY <1>4 DEF SeePause, PatroniStart
  <1>5. ASSUME NEW n \in Nodes, PatroniExit(n) \/ PatroniCrash(n) PROVE KeyInv'
    BY <1>5 DEF PatroniExit, PatroniCrash
  <1>6. ASSUME NEW n \in Nodes, RunitRestart(n) PROVE KeyInv'
    BY <1>6 DEF RunitRestart, SysidOf, PrimaryInv, DirectoryInv, ServerInv, NewPC
  <1>7. ASSUME NEW n \in Nodes, RecreateKey(n) PROVE KeyInv'
    BY <1>7 DEF RecreateKey
  <1> QED
    BY <1>2, <1>3, <1>4, <1>5, <1>6, <1>7 DEF Environment

\* The race between the script that removes the initialize key and the Patroni
\* that recreates it ends well, unless the DCS fails or the primary loses the key
\* of the leader.
THEOREM KeyIsFixed ==
  ASSUME "dcs" \notin Faults, "failover" \notin Faults
  PROVE  Spec => []InitializeKeyNotStale
  <1>1. Init => KeyInv
    BY DEF Init, KeyInv, InitializeKeyNotStale
  <1>2. IInv /\ KeyInv /\ [Next]_vars => KeyInv'
    <2>1. ASSUME IInv, KeyInv, NEW r \in Replicas, ReplicaScript(r) PROVE KeyInv'
      BY <2>1, ReplicaScriptFrame, ReplicaScriptPrimary, NodeValues
      DEF IInv, KeyInv, InitializeKeyNotStale, dcsVars
    <2>2. KeyInv /\ UNCHANGED vars => KeyInv'
      BY DEF KeyInv, InitializeKeyNotStale, vars, outside, dcsVars, patroniVars
    <2>3. KeyInv /\ BackupEnds => KeyInv'
      BY BackupFrame DEF KeyInv, InitializeKeyNotStale
    <2> QED
      BY <2>1, <2>2, <2>3, ScriptKeyInv, EnvironmentKeyInv DEF Next
  <1>3. KeyInv => InitializeKeyNotStale
    BY DEF KeyInv
  <1> QED
    BY <1>1, <1>2, <1>3, Inductive, PTL DEF Spec

-----------------------------------------------------------------------------
(* The identifiers that Patroni has cached *)

\* The steps of the script before a replica is notified, after Patroni of the
\* primary was killed, and of the clean-up.
EarlyPC == OldPC \union {"switch", "rename", "config", "join"}
KilledPC == {"rmkey2", "restart", "fixkey", "waitrestart", "resume", "finish"}
EndPC == {"cleanup", "cleanupresume", "done"}

\* The steps of a replica's script after Patroni of the replica was killed.
Killed == {"rmconf2", "cleanold", "done"}

\* No Patroni has been restarted, or all that run have been, on the new data.
OldSide ==
    /\ dcsInit = "old" /\ \A n \in Nodes : up[n] /\ sysid[n] = "old"
    /\ \A r \in Replicas : rpc[r] = "idle"

NewSide ==
    /\ dcsInit # "old" /\ conf[Primary] = "new"
    /\ up[Primary] => sysid[Primary] = "new"
    /\ \A r \in Replicas : up[r] /\ sysid[r] = "new" /\ rpc[r] \in Killed

\* On a replica only the script ends a Patroni, after the copy; between the two
\* sides the cluster is paused.
SysidInv ==
    /\ \A r \in Replicas : \/ up[r] /\ sysid[r] = "old"
                           \/ rpc[r] \in Killed /\ (up[r] => sysid[r] = "new")
    /\ pc \in EarlyPC => OldSide
    /\ pc \notin {"sanity"} \union EndPC => conns = Replicas
    /\ pc \notin {"sanity", "prepare", "check", "pause"} \union EndPC => asked = Nodes
    /\ pc \in KilledPC /\ up[Primary] => sysid[Primary] = "new"
    /\ pc = "waitrestart" => dcsInit # "old"
    /\ pc \in {"resume", "finish"} => NewSide
    /\ pc \in EndPC => OldSide \/ NewSide

\* What interferes so much that the script goes on without a replica, or leaves
\* the initialize key alone.
Calmly == Faults \intersect {"timeout", "dcs", "checkpoint", "copy", "patroni"} = {}

LEMMA SidesAgree == IInv /\ SysidInv => NoSysidMismatch
  <1> SUFFICES ASSUME IInv, SysidInv, NEW n \in Nodes PROVE ~SysidMismatch(n)
    BY DEF NoSysidMismatch
  <1>1. CASE OldSide
    BY <1>1 DEF OldSide, SysidMismatch
  <1>2. CASE NewSide
    BY <1>2 DEF NewSide, SysidMismatch, Nodes, IInv, TypeOK, Sysid
  <1>3. CASE pc \in LatePC
    <2>1. asked = Nodes
      BY <1>3 DEF SysidInv, LatePC, AfterUpgradeBegan, EndPC
    <2> QED
      BY <1>3, <2>1 DEF IInv, LeaderInv, PausedOK, SysidMismatch
  <1>4. pc \in EarlyPC \union LatePC \union {"resume", "finish"} \union EndPC
    BY DEF IInv, TypeOK, ScriptPC, EarlyPC, OldPC, CalmPC, LatePC, AfterUpgradeBegan, EndPC
  <1> QED
    BY <1>1, <1>2, <1>3, <1>4 DEF SysidInv

LEMMA ScriptSysidInv == ASSUME Calmly, IInv, SysidInv, Script PROVE SysidInv'
  <1> USE DEF SysidInv, EarlyPC, OldPC, CalmPC, NewPC, KilledPC, EndPC, OldSide, NewSide,
              Goto, Abort, outside, scriptVars, dcsVars, patroniVars, diskVars, syncVars
  <1>1. CASE SanityChecks \/ PrepareNewPgdata \/ CheckAndDrop \/ ReadConfigForPause
    BY <1>1, AllRegistered DEF SanityChecks, PrepareNewPgdata, CheckAndDrop, ReadConfigForPause
  <1>2. CASE WritePause \/ WaitForPause \/ StopPostgres \/ StartRsyncd \/ WaitForReplicas
    BY <1>2 DEF WritePause, WaitForPause, StopPostgres, StartRsyncd, WaitForReplicas
  <1>3. CASE PgUpgrade \/ SwitchPgdataAside \/ SwitchPgdataIn
    BY <1>3 DEF PgUpgrade, SwitchPgdataAside, SwitchPgdataIn
  <1>4. CASE UpdateConfigs
    BY <1>4 DEF UpdateConfigs
  <1>5. CASE JoinCheckpoints
    BY <1>5 DEF JoinCheckpoints, Calmly
  <1>6. ASSUME NEW r \in Replicas, NotifyReplica(r) PROVE SysidInv'
    BY <1>6 DEF NotifyReplica, Calmly, Killed, IInv, TypeOK, ReplicaInv
  <1>7. CASE WaitForFeedback \/ StopRsyncd
    BY <1>7 DEF WaitForFeedback, StopRsyncd
  <1>8. CASE \/ RemoveInitializeKey("rmkey", "kill")
             \/ RemoveInitializeKey("rmkey2", "restart")
    BY <1>8 DEF RemoveInitializeKey, Calmly
  <1>9. CASE KillPatroni
    BY <1>9, NodeValues, PrimaryAssumption DEF KillPatroni, IInv, TypeOK
  <1>10. CASE RestartPrimary
    BY <1>10 DEF RestartPrimary
  <1>11. CASE FixInitializeKey
    BY <1>11 DEF FixInitializeKey, Calmly, IInv, PrimaryInv, DirectoryInv, ServerInv
  <1>12. CASE WaitReplicasRestart
    BY <1>12 DEF WaitReplicasRestart, Calmly, IInv, PrimaryInv, DirectoryInv, ServerInv
  <1>13. CASE \/ ResumeCluster("resume", "finish")
              \/ ResumeCluster("cleanupresume", "done")
    BY <1>13 DEF ResumeCluster
  <1>14. CASE FinishUpgrade \/ PostCleanup
    BY <1>14 DEF FinishUpgrade, PostCleanup
  <1> QED
    BY <1>1, <1>2, <1>3, <1>4, <1>5, <1>6, <1>7, <1>8, <1>9, <1>10, <1>11, <1>12, <1>13,
       <1>14
    DEF Script

LEMMA ReplicaSysidInv ==
  ASSUME IInv, SysidInv, NEW r \in Replicas, ReplicaScript(r)
  PROVE  SysidInv'
  <1>1. /\ UNCHANGED <<pc, conns, asked, dcsInit, sysid, conf[Primary], up[Primary]>>
        /\ \A q \in Replicas \ {r} : UNCHANGED <<rpc[q], up[q]>>
        /\ rpc[r] # "idle"
        /\ rpc[r] \in Killed => rpc'[r] \in Killed /\ UNCHANGED up[r]
        /\ UNCHANGED up[r] \/ (rpc'[r] \in Killed /\ ~up'[r])
    <2> USE NodeValues, PrimaryAssumption DEF IInv, TypeOK, Killed, scriptVars, dcsVars, patroniVars, diskVars
    <2>1. UNCHANGED <<pc, conns, asked>>
      BY DEF ReplicaScript
    <2>2. CASE ReplicaStop(r) \/ ReplicaSwitch(r) \/ ReplicaUpdateConfigs(r)
      BY <2>1, <2>2 DEF ReplicaStop, ReplicaSwitch, ReplicaUpdateConfigs
    <2>3. CASE RsyncConnect(r) \/ RsyncFinish(r) \/ ReplicaRevert(r) \/ ReplicaRevertOld(r)
      BY <2>1, <2>3 DEF RsyncConnect, RsyncFinish, ReplicaRevert, ReplicaRevertOld
    <2>4. CASE \/ ReplicaRemoveRecoveryConf(r, "rmconf", "kill")
               \/ ReplicaRemoveRecoveryConf(r, "rmconf2", "cleanold")
      BY <2>1, <2>4 DEF ReplicaRemoveRecoveryConf
    <2>5. CASE ReplicaWaitPrimary(r) \/ ReplicaKillPatroni(r) \/ ReplicaCleanup(r)
      BY <2>1, <2>5 DEF ReplicaWaitPrimary, ReplicaKillPatroni, ReplicaCleanup
    <2> QED
      BY <2>2, <2>3, <2>4, <2>5 DEF ReplicaScript
  <1>2. ~OldSide
    BY <1>1 DEF OldSide
  <1>3. NewSide => NewSide'
    <2>1. ASSUME NewSide PROVE rpc[r] \in Killed
      BY <2>1 DEF NewSide
    <2>2. ASSUME NewSide, NEW q \in Replicas PROVE up'[q] /\ sysid'[q] = "new" /\ rpc'[q] \in Killed
      BY <1>1, <2>1, <2>2 DEF NewSide
    <2> QED
      BY <1>1, <2>2 DEF NewSide
  <1>4. \A q \in Replicas : \/ up'[q] /\ sysid'[q] = "old"
                            \/ rpc'[q] \in Killed /\ (up'[q] => sysid'[q] = "new")
    BY <1>1 DEF SysidInv
  <1> QED
    BY <1>1, <1>2, <1>3, <1>4 DEF SysidInv

LEMMA EnvironmentSysidInv == ASSUME Calmly, IInv, SysidInv, Environment PROVE SysidInv'
  <1>1. /\ UNCHANGED <<pc, conns, asked, rpc, conf>>
        /\ NoSysidMismatch
    BY SidesAgree, EnvironmentFrame DEF Untouched, Environment, EnvUnchanged, scriptVars
  <1>2. ASSUME UNCHANGED <<dcsInit, up, sysid>> PROVE SysidInv'
    BY <1>1, <1>2 DEF SysidInv, OldSide, NewSide
  <1>3. ASSUME NEW n \in Nodes, RunitRestart(n) PROVE SysidInv'
    <2>1. /\ ~up[n] /\ up' = [up EXCEPT ![n] = TRUE] /\ UNCHANGED dcsInit
          /\ sysid' = [sysid EXCEPT ![n] = SysidOf(dataDir[n])]
      BY <1>3 DEF RunitRestart, dcsVars
    <2>2. up'[n] /\ sysid'[n] = SysidOf(dataDir[n])
          /\ \A m \in Nodes \ {n} : UNCHANGED <<up[m], sysid[m]>>
      BY <2>1 DEF IInv, TypeOK
    <2>3. n \in Replicas => sysid'[n] = "new" /\ rpc[n] \in Killed
      BY <2>1, <2>2 DEF SysidInv, IInv, ReplicaInv, Through, Killed, SysidOf
    <2>4. n = Primary /\ conf[Primary] = "new" => sysid'[n] = "new"
      BY <2>2 DEF IInv, PrimaryInv, DirectoryInv, ServerInv, SysidOf
    <2>5. ~OldSide /\ (n \in Replicas => ~NewSide)
      BY <1>3, <2>1 DEF OldSide, NewSide, Nodes
    <2>6. NewSide => NewSide'
      BY <1>1, <2>1, <2>2, <2>4, <2>5, PrimaryAssumption, NodeValues DEF NewSide, Nodes
    <2>7. \A r \in Replicas : \/ up'[r] /\ sysid'[r] = "old"
                              \/ rpc[r] \in Killed /\ (up'[r] => sysid'[r] = "new")
      BY <2>2, <2>3, NodeValues DEF SysidInv
    <2>8. pc \in KilledPC /\ up'[Primary] => sysid'[Primary] = "new"
      <3>1. pc \in KilledPC => conf[Primary] = "new"
        BY DEF KilledPC, IInv, PrimaryInv, DirectoryInv, ServerInv, NewPC
      <3> QED
        BY <2>2, <2>4, <3>1, NodeValues DEF SysidInv
    <2> QED
      BY <1>1, <2>1, <2>5, <2>6, <2>7, <2>8 DEF SysidInv
  <1>4. ASSUME NEW n \in Nodes, RecreateKey(n) PROVE SysidInv'
    <2>1. /\ up[n] /\ dcsLeader = n /\ dcsInit = "none" /\ dcsInit' = sysid[n]
          /\ UNCHANGED <<up, sysid>>
      BY <1>4 DEF RecreateKey, patroniVars
    <2>2. ~OldSide
      BY <2>1 DEF OldSide
    <2>3. NewSide => NewSide'
      BY <1>1, <2>1 DEF NewSide, Nodes
    <2>4. pc = "waitrestart" => dcsInit' # "old"
      <3>1. pc = "waitrestart" => asked = Nodes /\ dcsLeader = Primary
        BY DEF SysidInv, EndPC, IInv, TypeOK, LeaderInv, LatePC, AfterUpgradeBegan
      <3> QED
        BY <2>1, <3>1 DEF SysidInv, KilledPC
    <2> QED
      BY <1>1, <2>1, <2>2, <2>3, <2>4 DEF SysidInv
  <1>5. ASSUME NEW n \in Nodes, PatroniExit(n) \/ PatroniCrash(n) PROVE FALSE
    BY <1>1, <1>5 DEF PatroniExit, PatroniCrash, NoSysidMismatch, Calmly
  <1>6. ASSUME NEW r \in Replicas, CatchUp(r) \/ Failover(r) PROVE UNCHANGED <<dcsInit, up, sysid>>
    BY <1>6 DEF CatchUp, Failover, dcsVars, patroniVars
  <1>7. ASSUME NEW n \in Nodes, SeePause(n) \/ PatroniStart(n) PROVE UNCHANGED <<dcsInit, up, sysid>>
    BY <1>7 DEF SeePause, PatroniStart, dcsVars, patroniVars
  <1>8. CASE OperatorPause \/ DemotePrimary
    BY <1>2, <1>8 DEF OperatorPause, DemotePrimary, dcsVars, patroniVars
  <1> QED
    BY <1>2, <1>3, <1>4, <1>5, <1>6, <1>7, <1>8 DEF Environment

\* NoSysidMismatch: however many replicas there are, and although an operator may
\* interfere, a replica may take over and a step may fail, no Patroni that runs
\* outside maintenance mode has cached another identifier than that of the cluster.
THEOREM SysidsAgree ==
  ASSUME Calmly
  PROVE  Spec => []NoSysidMismatch
  <1>1. Init => SysidInv
    BY DEF Init, SysidInv, OldSide, EarlyPC, OldPC, CalmPC, NewPC, KilledPC, EndPC, Nodes
  <1>2. IInv /\ SysidInv /\ [Next]_vars => SysidInv'
    <2>1. SysidInv /\ UNCHANGED vars => SysidInv'
      BY DEF SysidInv, OldSide, NewSide, vars, outside, scriptVars, dcsVars, patroniVars,
             diskVars, syncVars
    <2>2. SysidInv /\ BackupEnds => SysidInv'
      BY BackupFrame DEF SysidInv, OldSide, NewSide
    <2> QED
      BY <2>1, <2>2, ScriptSysidInv, ReplicaSysidInv, EnvironmentSysidInv DEF Next
  <1>3. IInv /\ SysidInv => NoSysidMismatch
    BY SidesAgree
  <1> QED
    BY <1>1, <1>2, <1>3, Inductive, PTL DEF Spec
=============================================================================
