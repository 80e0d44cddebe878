--------------------------- MODULE InplaceUpgrade ---------------------------
(***************************************************************************)
(* The in-place major upgrade of a running Spilo cluster                   *)
(* (major_upgrade/inplace_upgrade.py and pg_upgrade.py).  An operator runs *)
(* the script on the primary; it checks the cluster, puts Patroni into     *)
(* maintenance mode, stops PostgreSQL, runs pg_upgrade -k, makes every     *)
(* replica copy the result with rsync, restarts Patroni and PostgreSQL and *)
(* resumes the cluster.  On each replica the same file runs as a second    *)
(* script, started through COPY TO PROGRAM.                                *)
(*                                                                         *)
(* Actors: the script on the primary (pc), the script on each replica      *)
(* (rpc), Patroni on every node, an operator who may pause the cluster.    *)
(* Abstracted: the contents of a data directory are one of Content, the    *)
(* two major versions are "old" and "new", the system identifier of the    *)
(* cluster is the version that initdb created it with, and polling loops   *)
(* either see what they wait for or give up (fault "timeout").  Patroni,   *)
(* runit and rsync are external: they do what the scripts' code and        *)
(* comments rely on.                                                       *)
(***************************************************************************)
EXTENDS Naturals, FiniteSets

CONSTANTS
    Primary,     \* the node the script is started on
    Replicas,    \* the other members of the Patroni cluster
    Faults,      \* what may go wrong in a behaviour
    MaxCrashes   \* bound: how often Patroni processes die on their own

FaultKinds ==
    {"local",       \* initdb, pg_upgrade, pg_ctl stop or a query fails
     "link",        \* pg_upgrade -k fails after it has linked files
     "disk",        \* rename, rmtree or a write of a config file raises
     "dcs",         \* a request to the DCS is refused or raises
     "lostack",     \* a DCS write is applied and its answer is lost
     "timeout",     \* a polling loop gives up
     "checkpoint",  \* CHECKPOINT on a replica fails
     "copy",        \* COPY TO PROGRAM raises, with or without effect
     "rsync",       \* the replica's stop or its rsync fails
     "patroni",     \* a Patroni process dies
     "failover",    \* a replica takes the leader key once
     "operator"}    \* an operator pauses the cluster once

ASSUME PrimaryAssumption  == Primary \notin Replicas
ASSUME ReplicasAssumption == IsFiniteSet(Replicas)
ASSUME FaultsAssumption   == Faults \subseteq FaultKinds
ASSUME CrashesAssumption  == MaxCrashes \in Nat

Nodes == Replicas \union {Primary}
CrashCount == 0 .. MaxCrashes

\* "initdb": an empty new cluster; "linked": an old cluster pg_upgrade -k has
\* disabled; "torn": a copy taken while the primary was running.
Content == {"none", "old", "initdb", "linked", "new", "broken", "torn"}
Version == {"old", "new"}
Sysid   == {"none", "old", "new"}

ScriptPC ==
    {"sanity", "prepare", "check", "pause", "pausecas", "pausewait", "stop",
     "rsyncd", "waitlsn", "upgrade", "switch", "rename", "config", "join",
     "notify", "waitsync", "stoprsyncd", "rmkey", "kill", "rmkey2", "restart",
     "fixkey", "waitrestart", "resume", "finish", "cleanup", "cleanupresume",
     "done"}

ReplicaPC ==
    {"idle", "launched", "switch", "config", "sync", "copying", "revert",
     "revertold", "waitprimary", "rmconf", "kill", "rmconf2", "cleanold", "done",
     "failed"}

VARIABLES
    pc,          \* where the script on the primary is
    selfPaused,  \* self.paused
    asked,       \* the members that toggle_pause(True) waits for (`old`)
    conns,       \* the keys of self.replica_connections
    todo,        \* replicas rsync_replicas has not notified yet
    ret,         \* what do_upgrade is going to return
    upgraded,    \* self.upgrade_complete
    childPaused, \* self.paused of the child that start_backup forks, until it ends
    dcsPause, dcsInit, dcsLeader,  \* /config pause, /initialize, /leader
    up,          \* the Patroni process runs
    seen,        \* maintenance mode as Patroni of the node last saw it
    bin,         \* the bin_dir that Patroni process loaded
    sysid,       \* the system identifier that Patroni process cached
    dataDir, newDir, oldDir,  \* data, data_new, data_old of every node
    conf,        \* bin_dir in the node's postgres.yml
    recConf,     \* a recovery.conf lies in the node's data
    pg,          \* the PostgreSQL server: "down" or the version that runs
    demoted,     \* the primary's PostgreSQL runs as a standby
    rsyncd,      \* the rsync daemon listens on port 5432 of the primary
    feedback,    \* /run/rsync/feedback/<replica>
    rpc,         \* where the script on a replica is
    replayed,    \* the replica replayed the shutdown checkpoint
    foreign,     \* history: an operator has paused the cluster
    unreleased,  \* history: the DCS lost the answer of the pause request, or
                 \* refused the last request to resume
    unconfirmed, \* history: the request to resume the upgraded cluster was
                 \* refused, or its answer lost
    served,      \* history: the primary's server has run on the new data
    crashes      \* history: how many Patroni processes have died on their own

scriptVars  == <<selfPaused, asked, conns, todo, upgraded, childPaused>>
dcsVars     == <<dcsPause, dcsInit, dcsLeader>>
patroniVars == <<up, seen, bin, sysid>>
diskVars    == <<dataDir, newDir, oldDir, conf, recConf>>
pgVars      == <<pg, demoted>>
syncVars    == <<rsyncd, feedback, rpc, replayed>>
ghostVars   == <<foreign, unreleased, unconfirmed, served, crashes>>

\* everything the script on the primary does not own
outside     == <<dcsVars, patroniVars, diskVars, pgVars, syncVars, ghostVars>>
vars        == <<pc, ret, scriptVars, outside>>

Init ==
    /\ pc = "sanity" /\ ret = TRUE
    /\ selfPaused = FALSE /\ asked = {} /\ conns = {} /\ todo = {}
    /\ upgraded = FALSE /\ childPaused = FALSE
    /\ dcsPause = FALSE /\ dcsInit = "old" /\ dcsLeader = Primary
    /\ up = [n \in Nodes |-> TRUE] /\ seen = [n \in Nodes |-> FALSE]
    /\ bin = [n \in Nodes |-> "old"] /\ sysid = [n \in Nodes |-> "old"]
    /\ dataDir = [n \in Nodes |-> "old"] /\ newDir = [n \in Nodes |-> "none"]
    /\ oldDir = [n \in Nodes |-> "none"] /\ conf = [n \in Nodes |-> "old"]
    /\ recConf = [n \in Nodes |-> FALSE]
    /\ pg = [n \in Nodes |-> "old"] /\ demoted = FALSE
    /\ rsyncd = "off" /\ feedback = [r \in Replicas |-> "none"]
    /\ rpc = [r \in Replicas |-> "idle"]
    /\ replayed = [r \in Replicas |-> FALSE]
    /\ foreign = FALSE /\ unreleased = FALSE /\ unconfirmed = FALSE
    /\ served = FALSE /\ crashes = 0

-----------------------------------------------------------------------------
(* Helpers *)

\* The server version that can run a data directory; none can run the others.
Runs(version, content) ==
    \/ version = "old" /\ content = "old"
    \/ version = "new" /\ content \in {"new", "torn"}

SysidOf(content) ==
    CASE content \in {"old", "linked"}         -> "old"
      [] content \in {"initdb", "new", "torn"} -> "new"
      [] OTHER                                 -> "none"

\* PostgreSQL of the node comes up under the bin_dir its Patroni loaded: the
\* primary needs port 5432, and PostgreSQL 12+ rejects a recovery.conf.
CanStart(n) ==
    /\ Runs(bin[n], dataDir[n])
    /\ n = Primary => rsyncd = "off"
    /\ bin[n] = "new" => ~recConf[n]

StartServer(n) ==
    /\ pg' = [pg EXCEPT ![n] = bin[n]]
    /\ served' = (served \/ (n = Primary /\ bin[n] = "new"))

Goto(label) == pc' = label /\ UNCHANGED ret

\* Return False, or an exception: control passes to the finally clause.
Abort == pc' = "cleanup" /\ ret' = FALSE

-----------------------------------------------------------------------------
(* The script on the primary: do_upgrade *)

\* The checks hold for the members the DCS lists, whose number has to be the
\* one the operator gave.
SanityOK(registered) ==
    /\ pg[Primary] = "old" /\ ~demoted
    /\ dcsInit # "none"
    /\ Cardinality(registered) = Cardinality(Replicas)
    /\ ~dcsPause
    /\ dcsLeader = Primary
    /\ \A r \in registered : pg[r] = "old" /\ up[r]

SanityChecks ==
    /\ pc = "sanity"
    /\ LET registered == {r \in Replicas : up[r]} IN
         \/ SanityOK(registered) /\ conns' = registered /\ Goto("prepare")
         \/ ~SanityOK(registered) /\ UNCHANGED conns /\ Abort
         \/ "local" \in Faults /\ UNCHANGED conns /\ Abort
    /\ UNCHANGED <<selfPaused, asked, todo, upgraded, childPaused, outside>>

PrepareNewPgdata ==
    /\ pc = "prepare"
    /\ \/ newDir' = [newDir EXCEPT ![Primary] = "initdb"] /\ Goto("check")
       \/ /\ "local" \in Faults
          /\ newDir' = [newDir EXCEPT ![Primary] = "broken"] /\ Abort
    /\ UNCHANGED <<scriptVars, dcsVars, patroniVars, dataDir, oldDir, conf,
                   recConf, pgVars, syncVars, ghostVars>>

\* pg_upgrade --check, and DROP/REVOKE of what could be incompatible, which a
\* standby refuses.
CheckAndDrop ==
    /\ pc = "check"
    /\ \/ ~demoted /\ Goto("pause")
       \/ (demoted \/ "local" \in Faults) /\ Abort
    /\ UNCHANGED <<scriptVars, outside>>

\* toggle_pause(True), first half: read the cluster.  The members it is going to
\* wait for are the ones it reads here, before the pause is written.
ReadConfigForPause ==
    /\ pc = "pause"
    /\ \/ ~dcsPause /\ Goto("pausecas") /\ asked' = {n \in Nodes : up[n]}
       \/ (dcsPause \/ "dcs" \in Faults) /\ Abort /\ UNCHANGED asked
    /\ UNCHANGED <<selfPaused, conns, todo, upgraded, childPaused, outside>>

\* Mutant: the write does not compare the version that was read.
WritePause_NoVersion ==
    /\ pc = "pausecas"
    /\ dcsPause' = TRUE /\ selfPaused' = TRUE /\ Goto("pausewait")
    /\ UNCHANGED <<asked, conns, todo, upgraded, childPaused, dcsInit, dcsLeader,
                   patroniVars, diskVars, pgVars, syncVars, ghostVars>>

\* toggle_pause(True), second half: write /config if its version is still the
\* one that was read.  self.paused is set only when the write is confirmed.
WritePause ==
    /\ pc = "pausecas"
    /\ \/ /\ ~dcsPause /\ dcsPause' = TRUE /\ selfPaused' = TRUE
          /\ Goto("pausewait") /\ UNCHANGED unreleased
       \/ /\ dcsPause \/ "dcs" \in Faults
          /\ Abort /\ UNCHANGED <<dcsPause, selfPaused, unreleased>>
       \/ /\ "lostack" \in Faults /\ ~dcsPause /\ dcsPause' = TRUE
          /\ unreleased' = TRUE /\ Abort /\ UNCHANGED selfPaused
    /\ UNCHANGED <<asked, conns, todo, upgraded, childPaused, dcsInit, dcsLeader,
                   patroniVars, diskVars, pgVars, syncVars, foreign, unconfirmed,
                   served, crashes>>

\* Mutant: do not wait for the members to report the pause.
WaitForPause_NoWait ==
    pc = "pausewait" /\ Goto("stop") /\ UNCHANGED <<scriptVars, outside>>

\* Of the members read before the pause was written, those that are still
\* registered have to report it; a member that has come up since is not waited for.
WaitForPause ==
    /\ pc = "pausewait"
    /\ \/ (\A n \in asked : up[n] => seen[n]) /\ Goto("stop")
       \/ "timeout" \in Faults /\ Abort
    /\ UNCHANGED <<scriptVars, outside>>

StopPostgres ==
    /\ pc = "stop"
    /\ \/ /\ pg' = [pg EXCEPT ![Primary] = "down"]
          /\ Goto(IF conns = {} THEN "upgrade" ELSE "rsyncd")
       \/ /\ "local" \in Faults /\ Abort
          /\ pg' \in {pg, [pg EXCEPT ![Primary] = "down"]}
    /\ UNCHANGED <<scriptVars, dcsVars, patroniVars, diskVars, demoted,
                   syncVars, ghostVars>>

\* pg_controldata says "shut down" only for a server that was not a standby and
\* that no Patroni unaware of the pause has started again; the daemon could not
\* have its port either.  /run/rsync is created, or kept as it is if it exists.
StartRsyncd ==
    /\ pc = "rsyncd"
    /\ IF demoted \/ pg[Primary] # "down"
       THEN Abort /\ UNCHANGED rsyncd
       ELSE rsyncd' = "on" /\ Goto("waitlsn")
    /\ UNCHANGED <<scriptVars, dcsVars, patroniVars, diskVars, pgVars,
                   feedback, rpc, replayed, ghostVars>>

\* Mutant: do not wait for the replicas to catch up.
WaitForReplicas_NoWait ==
    pc = "waitlsn" /\ Goto("upgrade") /\ UNCHANGED <<scriptVars, outside>>

WaitForReplicas ==
    /\ pc = "waitlsn"
    /\ \/ (\A r \in conns : replayed[r]) /\ Goto("upgrade")
       \/ {"timeout", "local"} \intersect Faults # {} /\ Abort
    /\ UNCHANGED <<scriptVars, outside>>

\* pg_upgrade refuses a data directory that a server runs on.
PgUpgrade ==
    /\ pc = "upgrade"
    /\ \/ /\ pg[Primary] = "down" /\ Goto("switch")
          /\ newDir' = [newDir EXCEPT ![Primary] = "new"]
          /\ dataDir' = [dataDir EXCEPT ![Primary] = "linked"]
       \/ pg[Primary] # "down" /\ Abort /\ UNCHANGED <<newDir, dataDir>>
       \/ /\ "local" \in Faults /\ Abort /\ UNCHANGED dataDir
          /\ newDir' = [newDir EXCEPT ![Primary] = "broken"]
       \/ /\ "link" \in Faults /\ pg[Primary] = "down" /\ Abort
          /\ newDir' = [newDir EXCEPT ![Primary] = "broken"]
          /\ dataDir' = [dataDir EXCEPT ![Primary] = "linked"]
    /\ UNCHANGED <<scriptVars, dcsVars, patroniVars, oldDir, conf, recConf,
                   pgVars, syncVars, ghostVars>>

\* switch_pgdata: remove data_old, rename data to data_old ...
SwitchPgdataAside ==
    /\ pc = "switch"
    /\ \/ /\ oldDir' = [oldDir EXCEPT ![Primary] = dataDir[Primary]]
          /\ dataDir' = [dataDir EXCEPT ![Primary] = "none"]
          /\ Goto("rename")
       \/ "disk" \in Faults /\ Abort /\ UNCHANGED <<oldDir, dataDir>>
    /\ UNCHANGED <<scriptVars, dcsVars, patroniVars, newDir, conf, recConf,
                   pgVars, syncVars, ghostVars>>

\* ... and rename data_new to data.
SwitchPgdataIn ==
    /\ pc = "rename"
    /\ \/ /\ dataDir' = [dataDir EXCEPT ![Primary] = newDir[Primary]]
          /\ newDir' = [newDir EXCEPT ![Primary] = "none"]
          /\ upgraded' = TRUE
          /\ Goto("config")
       \/ "disk" \in Faults /\ Abort /\ UNCHANGED <<dataDir, newDir, upgraded>>
    /\ UNCHANGED <<selfPaused, asked, conns, todo, childPaused, dcsVars, patroniVars,
                   oldDir, conf, recConf, pgVars, syncVars, ghostVars>>

UpdateConfigs ==
    /\ pc = "config"
    /\ \/ /\ conf' = [conf EXCEPT ![Primary] = "new"]
          /\ Goto(IF conns = {} THEN "rmkey" ELSE "join")
       \/ "disk" \in Faults /\ Abort /\ UNCHANGED conf
    /\ UNCHANGED <<scriptVars, dcsVars, patroniVars, dataDir, newDir, oldDir,
                   recConf, pgVars, syncVars, ghostVars>>

\* Forget the replicas whose CHECKPOINT failed; rsync, and the stop of rsyncd
\* after it, happen only if a replica is left.
JoinCheckpoints ==
    /\ pc = "join"
    /\ \E failed \in SUBSET conns :
         /\ failed # {} => "checkpoint" \in Faults
         /\ conns' = conns \ failed
         /\ todo' = conns \ failed
         /\ ret' = (ret /\ failed = {})
         /\ pc' = IF conns \ failed = {} THEN "rmkey" ELSE "notify"
    /\ UNCHANGED <<selfPaused, asked, upgraded, childPaused, outside>>

\* Mutant: a notification that raises is only logged.
NotifyReplica_LogOnly(r) ==
    /\ pc = "notify" /\ r \in todo
    /\ todo' = todo \ {r}
    /\ Goto(IF todo = {r} THEN "waitsync" ELSE "notify")
    /\ \/ rpc' = [rpc EXCEPT ![r] = "launched"] /\ UNCHANGED conns
       \/ /\ "copy" \in Faults
          /\ rpc' \in {rpc, [rpc EXCEPT ![r] = "launched"]}
          /\ conns' = conns \ {r}
    /\ UNCHANGED <<selfPaused, asked, upgraded, childPaused, dcsVars, patroniVars,
                   diskVars, pgVars, rsyncd, feedback, replayed, ghostVars>>

\* COPY TO PROGRAM on one replica; a replica for which it raises is dropped
\* from replica_connections, whether or not the program was started.
NotifyReplica(r) ==
    /\ pc = "notify" /\ r \in todo
    /\ todo' = todo \ {r}
    /\ pc' = IF todo = {r} THEN "waitsync" ELSE "notify"
    /\ \/ rpc' = [rpc EXCEPT ![r] = "launched"] /\ UNCHANGED <<conns, ret>>
       \/ /\ "copy" \in Faults
          /\ rpc' \in {rpc, [rpc EXCEPT ![r] = "launched"]}
          /\ conns' = conns \ {r} /\ ret' = FALSE
    /\ UNCHANGED <<selfPaused, asked, upgraded, childPaused, dcsVars, patroniVars,
                   diskVars, pgVars, rsyncd, feedback, replayed, ghostVars>>

\* Mutant: the exit status of rsync is not looked at.
WaitForFeedback_AnyStatus ==
    /\ pc = "waitsync" /\ \A r \in conns : feedback[r] # "none"
    /\ Goto("stoprsyncd") /\ UNCHANGED <<scriptVars, outside>>

WaitForFeedback ==
    /\ pc = "waitsync"
    /\ \/ \A r \in conns : feedback[r] # "none"
       \/ "timeout" \in Faults
    /\ pc' = "stoprsyncd"
    /\ ret' = (ret /\ \A r \in conns : feedback[r] = "ok")
    /\ UNCHANGED <<scriptVars, outside>>

\* stop_rsyncd: kill the daemon (a child that serves a transfer survives) and
\* remove /run/rsync.
KillRsyncd ==
    /\ rsyncd' = "off"
    /\ feedback' = [r \in Replicas |-> "none"]

StopRsyncd ==
    /\ pc = "stoprsyncd" /\ Goto("rmkey")
    /\ KillRsyncd
    /\ UNCHANGED <<scriptVars, dcsVars, patroniVars, diskVars, pgVars, rpc,
                   replayed, ghostVars>>

\* remove_initialize_key: its result is ignored; get_cluster may raise.
RemoveInitializeKey(from, to) ==
    /\ pc = from
    /\ \/ dcsInit' = "none" /\ Goto(to)
       \/ {"timeout", "dcs"} \intersect Faults # {} /\ Goto(to) /\ UNCHANGED dcsInit
       \/ "dcs" \in Faults /\ Abort /\ UNCHANGED dcsInit
    /\ UNCHANGED <<scriptVars, dcsPause, dcsLeader, patroniVars, diskVars,
                   pgVars, syncVars, ghostVars>>

\* Mutant: no process named patroni is found.
KillPatroni_NotFound ==
    pc = "kill" /\ Goto("rmkey2") /\ UNCHANGED <<scriptVars, outside>>

KillPatroni ==
    /\ pc = "kill" /\ Goto("rmkey2")
    /\ up' = [up EXCEPT ![Primary] = FALSE]
    /\ UNCHANGED <<scriptVars, dcsVars, seen, bin, sysid, diskVars, pgVars,
                   syncVars, ghostVars>>

\* Mutant: repeat until it works.
RestartPrimary_Forever ==
    /\ pc = "restart" /\ Goto("fixkey")
    /\ up[Primary] /\ CanStart(Primary)
    /\ StartServer(Primary)
    /\ UNCHANGED <<scriptVars, dcsVars, patroniVars, diskVars, demoted, syncVars,
                   foreign, unreleased, unconfirmed, crashes>>

\* POST /restart to Patroni of the primary, repeated for ten seconds; whether
\* it worked is logged and nothing else.
RestartPrimary ==
    /\ pc = "restart" /\ Goto("fixkey")
    /\ \/ up[Primary] /\ CanStart(Primary) /\ StartServer(Primary)
       \/ up[Primary] /\ ~CanStart(Primary) /\ UNCHANGED <<pg, served>>
       \/ "timeout" \in Faults /\ UNCHANGED <<pg, served>>
    /\ UNCHANGED <<scriptVars, dcsVars, patroniVars, diskVars, demoted, syncVars,
                   foreign, unreleased, unconfirmed, crashes>>

\* Mutant: trust the earlier two removals.
FixInitializeKey_Skip ==
    /\ pc = "fixkey" /\ Goto(IF conns = {} THEN "resume" ELSE "waitrestart")
    /\ UNCHANGED <<scriptVars, outside>>

\* "The last attempt to fix initialize key race condition"
FixInitializeKey ==
    /\ pc = "fixkey"
    /\ \/ /\ dcsInit' = IF dcsInit = "old" THEN "none" ELSE dcsInit
          /\ Goto(IF conns = {} THEN "resume" ELSE "waitrestart")
       \/ /\ "dcs" \in Faults /\ UNCHANGED dcsInit
          /\ Abort \/ Goto(IF conns = {} THEN "resume" ELSE "waitrestart")
    /\ UNCHANGED <<scriptVars, dcsPause, dcsLeader, patroniVars, diskVars,
                   pgVars, syncVars, ghostVars>>

\* Mutant: do not wait for Patroni on the replicas.
WaitReplicasRestart_NoWait ==
    pc = "waitrestart" /\ Goto("resume") /\ UNCHANGED <<scriptVars, outside>>

\* The result is ignored.  When no replica that was notified is a member any
\* more, ThreadPool(0) raises.
WaitReplicasRestart ==
    /\ pc = "waitrestart"
    /\ \/ (\A r \in conns : up[r] /\ sysid[r] = "new") /\ Goto("resume")
       \/ "timeout" \in Faults /\ Goto("resume")
       \/ "patroni" \in Faults /\ (\A r \in conns : ~up[r]) /\ Abort
    /\ UNCHANGED <<scriptVars, outside>>

\* Mutant: post_cleanup does not resume the cluster.
ResumeCluster_OnlyOnSuccess(from, to) ==
    /\ pc = from /\ Goto(to)
    /\ IF from = "resume" /\ selfPaused /\ dcsPause
       THEN selfPaused' = FALSE /\ dcsPause' = FALSE
       ELSE UNCHANGED <<selfPaused, dcsPause>>
    /\ UNCHANGED <<asked, conns, todo, upgraded, childPaused, dcsInit, dcsLeader,
                   patroniVars, diskVars, pgVars, syncVars, ghostVars>>

\* resume_cluster: toggle_pause(False) if this run has paused the cluster.
\* An exception is caught, and the script does not depend on the answer.
ResumeCluster(from, to) ==
    /\ pc = from /\ Goto(to)
    /\ \/ /\ ~(selfPaused /\ dcsPause)
          /\ UNCHANGED <<selfPaused, dcsPause, unreleased, unconfirmed>>
       \/ /\ selfPaused /\ dcsPause /\ selfPaused' = FALSE /\ dcsPause' = FALSE
          /\ UNCHANGED <<unreleased, unconfirmed>>
       \/ /\ "dcs" \in Faults /\ selfPaused /\ dcsPause
          /\ unreleased' = (from = "cleanupresume")
          /\ unconfirmed' = (unconfirmed \/ from = "resume")
          /\ UNCHANGED <<selfPaused, dcsPause>>
       \/ /\ "lostack" \in Faults /\ selfPaused /\ dcsPause /\ dcsPause' = FALSE
          /\ unconfirmed' = (unconfirmed \/ from = "resume")
          /\ UNCHANGED <<selfPaused, unreleased>>
    /\ UNCHANGED <<asked, conns, todo, upgraded, childPaused, dcsInit, dcsLeader,
                   patroniVars, diskVars, pgVars, syncVars, foreign, served,
                   crashes>>

\* analyze, call_post_bootstrap, cleanup_old_pgdata and, if there is an archive,
\* start_backup: it forks a child that has self.paused as it is now.
FinishUpgrade ==
    /\ pc = "finish"
    /\ \/ /\ oldDir' = [oldDir EXCEPT ![Primary] = "none"] /\ Goto("cleanup")
          /\ childPaused' \in {FALSE, selfPaused}
       \/ "disk" \in Faults /\ Abort /\ UNCHANGED <<oldDir, childPaused>>
    /\ UNCHANGED <<selfPaused, asked, conns, todo, upgraded, dcsVars, patroniVars,
                   dataDir, newDir, conf, recConf, pgVars, syncVars, ghostVars>>

\* The backup is over, perhaps hours later: the child returns through try_upgrade's
\* finally clause as well and resumes the cluster if its self.paused says so.
BackupEnds ==
    /\ childPaused /\ childPaused' = FALSE
    /\ \/ dcsPause' = FALSE
       \/ "dcs" \in Faults /\ UNCHANGED dcsPause
    /\ UNCHANGED <<pc, ret, selfPaused, asked, conns, todo, upgraded, dcsInit,
                   dcsLeader, patroniVars, diskVars, pgVars, syncVars, ghostVars>>

\* Mutant: new_data_created is set as its name says, and data_new removed.
PostCleanup_RemoveNewData ==
    /\ pc = "cleanup" /\ Goto("cleanupresume") /\ KillRsyncd
    /\ newDir' = [newDir EXCEPT ![Primary] = "none"]
    /\ UNCHANGED <<scriptVars, dcsVars, patroniVars, dataDir, oldDir, conf,
                   recConf, pgVars, rpc, replayed, ghostVars>>

\* post_cleanup; new_data_created is never set, so data_new stays.
PostCleanup ==
    /\ pc = "cleanup" /\ Goto("cleanupresume")
    /\ KillRsyncd
    /\ UNCHANGED <<scriptVars, dcsVars, patroniVars, diskVars, pgVars, rpc,
                   replayed, ghostVars>>

Script ==
    \/ SanityChecks \/ PrepareNewPgdata \/ CheckAndDrop
    \/ ReadConfigForPause \/ WritePause \/ WaitForPause
    \/ StopPostgres \/ StartRsyncd \/ WaitForReplicas
    \/ PgUpgrade \/ SwitchPgdataAside \/ SwitchPgdataIn \/ UpdateConfigs
    \/ JoinCheckpoints
    \/ \E r \in Replicas : NotifyReplica(r)
    \/ WaitForFeedback \/ StopRsyncd
    \/ RemoveInitializeKey("rmkey", "kill")
    \/ KillPatroni
    \/ RemoveInitializeKey("rmkey2", "restart")
    \/ RestartPrimary \/ FixInitializeKey \/ WaitReplicasRestart
    \/ ResumeCluster("resume", "finish")
    \/ FinishUpgrade \/ PostCleanup
    \/ ResumeCluster("cleanupresume", "done")

-----------------------------------------------------------------------------
(* The script on a replica: rsync_replica *)

ReplicaStop(r) ==
    /\ rpc[r] = "launched"
    /\ \/ /\ rpc' = [rpc EXCEPT ![r] = "switch"]
          /\ pg' = [pg EXCEPT ![r] = "down"]
       \/ /\ "rsync" \in Faults /\ UNCHANGED pg
          /\ rpc' = [rpc EXCEPT ![r] = "failed"]
    /\ UNCHANGED <<dcsVars, patroniVars, diskVars, demoted, rsyncd, feedback,
                   replayed>>

\* switch_pgdata; there is no data_new to rename.  An exception ends the script.
ReplicaSwitch(r) ==
    /\ rpc[r] = "switch"
    /\ \/ /\ rpc' = [rpc EXCEPT ![r] = "config"]
          /\ oldDir' = [oldDir EXCEPT ![r] = dataDir[r]]
          /\ dataDir' = [dataDir EXCEPT ![r] = "none"]
       \/ /\ "disk" \in Faults /\ UNCHANGED <<oldDir, dataDir>>
          /\ rpc' = [rpc EXCEPT ![r] = "failed"]
    /\ UNCHANGED <<dcsVars, patroniVars, newDir, conf, recConf, pgVars, rsyncd,
                   feedback, replayed>>

\* update_configs; nobody puts data back when it raises.
ReplicaUpdateConfigs(r) ==
    /\ rpc[r] = "config"
    /\ \/ /\ rpc' = [rpc EXCEPT ![r] = "sync"]
          /\ conf' = [conf EXCEPT ![r] = "new"]
       \/ /\ "disk" \in Faults /\ UNCHANGED conf
          /\ rpc' = [rpc EXCEPT ![r] = "failed"]
    /\ UNCHANGED <<dcsVars, patroniVars, dataDir, newDir, oldDir, recConf, pgVars,
                   rsyncd, feedback, replayed>>

\* The rsync client connects to the daemon, or cannot.
RsyncConnect(r) ==
    /\ rpc[r] = "sync"
    /\ rpc' = [rpc EXCEPT ![r] = IF rsyncd = "on" THEN "copying" ELSE "revert"]
    /\ UNCHANGED <<dcsVars, patroniVars, diskVars, pgVars, rsyncd, feedback,
                   replayed>>

\* data and data_old of the primary are copied over the replica's; the daemon
\* writes the exit status to the feedback directory while there is one.  Nothing
\* has run on the new data when the client connects, since the server and the
\* daemon share a port: if something has at the end, it ran during the copy.
RsyncFinish(r) ==
    /\ rpc[r] = "copying"
    /\ \/ /\ rpc' = [rpc EXCEPT ![r] = "waitprimary"]
          /\ dataDir' = [dataDir EXCEPT ![r] =
                           IF served THEN "torn" ELSE dataDir[Primary]]
          /\ oldDir' = [oldDir EXCEPT ![r] = "linked"]
          /\ feedback' = [feedback EXCEPT ![r] = IF rsyncd = "on" THEN "ok" ELSE @]
       \/ /\ "rsync" \in Faults
          /\ rpc' = [rpc EXCEPT ![r] = "revert"]
          /\ dataDir' = [dataDir EXCEPT ![r] = "broken"]
          /\ oldDir' \in {oldDir, [oldDir EXCEPT ![r] = "broken"]}
          /\ feedback' = [feedback EXCEPT ![r] = IF rsyncd = "on" THEN "error" ELSE @]
    /\ UNCHANGED <<dcsVars, patroniVars, newDir, conf, recConf, pgVars, rsyncd,
                   replayed>>

\* switch_back_pgdata: set aside what rsync has left in data ...
ReplicaRevert(r) ==
    /\ rpc[r] = "revert"
    /\ \/ /\ rpc' = [rpc EXCEPT ![r] = "revertold"]
          /\ newDir' = [newDir EXCEPT ![r] = IF dataDir[r] = "none" THEN @ ELSE dataDir[r]]
          /\ dataDir' = [dataDir EXCEPT ![r] = "none"]
       \/ /\ "disk" \in Faults /\ dataDir[r] # "none" /\ UNCHANGED <<newDir, dataDir>>
          /\ rpc' = [rpc EXCEPT ![r] = "failed"]
    /\ UNCHANGED <<dcsVars, patroniVars, oldDir, conf, recConf, pgVars, rsyncd,
                   feedback, replayed>>

\* ... and rename data_old to data; the configuration stays that of the new version.
ReplicaRevertOld(r) ==
    /\ rpc[r] = "revertold"
    /\ rpc' = [rpc EXCEPT ![r] = "failed"]
    /\ \/ /\ dataDir' = [dataDir EXCEPT ![r] = oldDir[r]]
          /\ oldDir' = [oldDir EXCEPT ![r] = "none"]
       \/ "disk" \in Faults /\ UNCHANGED <<dataDir, oldDir>>
    /\ UNCHANGED <<dcsVars, patroniVars, newDir, conf, recConf, pgVars, rsyncd,
                   feedback, replayed>>

\* Wait until the primary answers with the new system identifier.
ReplicaWaitPrimary(r) ==
    /\ rpc[r] = "waitprimary"
    /\ pg[Primary] = "new" \/ "timeout" \in Faults
    /\ rpc' = [rpc EXCEPT ![r] = "rmconf"]
    /\ UNCHANGED <<dcsVars, patroniVars, diskVars, pgVars, rsyncd, feedback,
                   replayed>>

\* Mutant: recovery.conf is removed before Patroni is killed and not after.
ReplicaRemoveRecoveryConf_Once(r, from, to) ==
    /\ rpc[r] = from
    /\ rpc' = [rpc EXCEPT ![r] = to]
    /\ recConf' = [recConf EXCEPT ![r] = @ /\ from # "rmconf"]
    /\ UNCHANGED <<dcsVars, patroniVars, dataDir, newDir, oldDir, conf, pgVars,
                   rsyncd, feedback, replayed>>

ReplicaRemoveRecoveryConf(r, from, to) ==
    /\ rpc[r] = from
    /\ rpc' = [rpc EXCEPT ![r] = to]
    /\ recConf' = [recConf EXCEPT ![r] = FALSE]
    /\ UNCHANGED <<dcsVars, patroniVars, dataDir, newDir, oldDir, conf, pgVars,
                   rsyncd, feedback, replayed>>

\* Mutant: Patroni of the replica survives.
ReplicaKillPatroni_NotFound(r) ==
    /\ rpc[r] = "kill"
    /\ rpc' = [rpc EXCEPT ![r] = "rmconf2"]
    /\ UNCHANGED <<dcsVars, patroniVars, diskVars, pgVars, rsyncd, feedback,
                   replayed>>

ReplicaKillPatroni(r) ==
    /\ rpc[r] = "kill"
    /\ rpc' = [rpc EXCEPT ![r] = "rmconf2"]
    /\ up' = [up EXCEPT ![r] = FALSE]
    /\ UNCHANGED <<dcsVars, seen, bin, sysid, diskVars, pgVars, rsyncd,
                   feedback, replayed>>

ReplicaCleanup(r) ==
    /\ rpc[r] = "cleanold"
    /\ rpc' = [rpc EXCEPT ![r] = "done"]
    /\ \/ oldDir' = [oldDir EXCEPT ![r] = "none"]
       \/ "disk" \in Faults /\ UNCHANGED oldDir
    /\ UNCHANGED <<dcsVars, patroniVars, dataDir, newDir, conf, recConf, pgVars,
                   rsyncd, feedback, replayed>>

ReplicaScript(r) ==
    /\ \/ ReplicaStop(r) \/ ReplicaSwitch(r) \/ ReplicaUpdateConfigs(r)
       \/ RsyncConnect(r) \/ RsyncFinish(r)
       \/ ReplicaRevert(r) \/ ReplicaRevertOld(r)
       \/ ReplicaWaitPrimary(r)
       \/ ReplicaRemoveRecoveryConf(r, "rmconf", "kill")
       \/ ReplicaKillPatroni(r)
       \/ ReplicaRemoveRecoveryConf(r, "rmconf2", "cleanold")
       \/ ReplicaCleanup(r)
    /\ UNCHANGED <<pc, ret, scriptVars, ghostVars>>

-----------------------------------------------------------------------------
(* Patroni, streaming replication and the operator *)

OperatorPause ==
    /\ "operator" \in Faults /\ ~foreign /\ ~dcsPause
    /\ dcsPause' = TRUE /\ foreign' = TRUE
    /\ UNCHANGED <<dcsInit, dcsLeader, patroniVars, diskVars, pgVars, syncVars,
                   unreleased, unconfirmed, served, crashes>>

\* An HA loop of Patroni reads the configuration and publishes what it saw.
SeePause(n) ==
    /\ up[n] /\ seen[n] # dcsPause
    /\ seen' = [seen EXCEPT ![n] = dcsPause]
    /\ UNCHANGED <<dcsVars, up, bin, sysid, diskVars, pgVars, syncVars, ghostVars>>

\* The shutdown checkpoint of the primary reaches a streaming standby.
CatchUp(r) ==
    /\ pg[Primary] = "down" /\ ~demoted /\ dataDir[Primary] = "old"
    /\ pg[r] = "old" /\ dcsLeader # r /\ ~replayed[r]
    /\ replayed' = [replayed EXCEPT ![r] = TRUE]
    /\ UNCHANGED <<dcsVars, patroniVars, diskVars, pgVars, rsyncd, feedback, rpc,
                   ghostVars>>

\* Outside maintenance mode Patroni starts a server that is down.  Old
\* binaries on new data fail, after Patroni wrote a recovery.conf.
PatroniStart(n) ==
    /\ up[n] /\ ~seen[n] /\ pg[n] = "down"
    /\ dcsInit \in {"none", sysid[n]}
    /\ \/ CanStart(n) /\ StartServer(n) /\ UNCHANGED recConf
       \/ /\ n \in Replicas /\ bin[n] = "old" /\ Runs("new", dataDir[n])
          /\ recConf' = [recConf EXCEPT ![n] = TRUE] /\ UNCHANGED <<pg, served>>
    /\ UNCHANGED <<dcsVars, patroniVars, dataDir, newDir, oldDir, conf, demoted,
                   syncVars, foreign, unreleased, unconfirmed, crashes>>

SysidMismatch(n) == up[n] /\ ~seen[n] /\ dcsInit \notin {"none", sysid[n]}

\* Outside maintenance mode Patroni exits, and stops PostgreSQL, when its
\* system identifier is not the one of the cluster.
PatroniExit(n) ==
    /\ SysidMismatch(n)
    /\ up' = [up EXCEPT ![n] = FALSE]
    /\ pg' = [pg EXCEPT ![n] = "down"]
    /\ UNCHANGED <<dcsVars, seen, bin, sysid, diskVars, demoted, syncVars,
                   ghostVars>>

PatroniCrash(n) ==
    /\ "patroni" \in Faults /\ up[n]
    /\ crashes < MaxCrashes /\ crashes' = crashes + 1
    /\ up' = [up EXCEPT ![n] = FALSE]
    /\ UNCHANGED <<dcsVars, seen, bin, sysid, diskVars, pgVars, syncVars, foreign,
                   unreleased, unconfirmed, served>>

\* runit starts Patroni again, which reads its configuration, the data
\* directory and the DCS.
RunitRestart(n) ==
    /\ ~up[n]
    /\ up' = [up EXCEPT ![n] = TRUE]
    /\ bin' = [bin EXCEPT ![n] = conf[n]]
    /\ sysid' = [sysid EXCEPT ![n] = SysidOf(dataDir[n])]
    /\ seen' = [seen EXCEPT ![n] = dcsPause]
    /\ UNCHANGED <<dcsVars, diskVars, pgVars, syncVars, ghostVars>>

\* The leader creates the initialize key when there is none: the race the
\* script removes the key three times for.
RecreateKey(n) ==
    /\ up[n] /\ dcsLeader = n /\ dcsInit = "none" /\ sysid[n] # "none"
    /\ dcsInit' = sysid[n]
    /\ UNCHANGED <<dcsPause, dcsLeader, patroniVars, diskVars, pgVars, syncVars,
                   ghostVars>>

\* A replica that does not know of the maintenance mode takes the leader key.
Failover(r) ==
    /\ "failover" \in Faults /\ dcsLeader = Primary
    /\ up[r] /\ ~seen[r] /\ pg[r] # "down" /\ dcsInit \in {"none", sysid[r]}
    /\ dcsLeader' = r
    /\ UNCHANGED <<dcsPause, dcsInit, patroniVars, diskVars, pgVars, syncVars,
                   ghostVars>>

DemotePrimary ==
    /\ dcsLeader # Primary /\ ~demoted
    /\ up[Primary] /\ ~seen[Primary] /\ pg[Primary] # "down"
    /\ demoted' = TRUE
    /\ UNCHANGED <<dcsVars, patroniVars, diskVars, pg, syncVars, ghostVars>>

EnvUnchanged == UNCHANGED <<pc, ret, scriptVars>>

Environment ==
    /\ \/ OperatorPause \/ DemotePrimary
       \/ \E r \in Replicas : CatchUp(r) \/ Failover(r)
       \/ \E n \in Nodes :
            \/ SeePause(n) \/ PatroniStart(n) \/ PatroniExit(n)
            \/ PatroniCrash(n) \/ RunitRestart(n) \/ RecreateKey(n)
    /\ EnvUnchanged

-----------------------------------------------------------------------------

Next == Script \/ BackupEnds \/ (\E r \in Replicas : ReplicaScript(r)) \/ Environment

Spec == Init /\ [][Next]_vars

\* The scripts run to their end; Patroni's HA loop, runit's supervision and
\* streaming replication never stop for good.  A base backup may take for ever.
Fairness ==
    /\ WF_vars(Script)
    /\ \A r \in Replicas : WF_vars(ReplicaScript(r))
    /\ \A r \in Replicas : WF_vars(CatchUp(r) /\ EnvUnchanged)
    /\ \A n \in Nodes : /\ WF_vars(SeePause(n) /\ EnvUnchanged)
                        /\ WF_vars(PatroniStart(n) /\ EnvUnchanged)
                        /\ WF_vars(RunitRestart(n) /\ EnvUnchanged)
                        /\ WF_vars(RecreateKey(n) /\ EnvUnchanged)

FairSpec == Spec /\ Fairness

-----------------------------------------------------------------------------
(* Properties *)

\* Every variable has its type.
TypeOK ==
    /\ pc \in ScriptPC /\ ret \in BOOLEAN
    /\ selfPaused \in BOOLEAN /\ upgraded \in BOOLEAN /\ childPaused \in BOOLEAN
    /\ asked \in SUBSET Nodes
    /\ conns \in SUBSET Replicas /\ todo \in SUBSET Replicas
    /\ dcsPause \in BOOLEAN /\ dcsInit \in Sysid /\ dcsLeader \in Nodes
    /\ up \in [Nodes -> BOOLEAN] /\ seen \in [Nodes -> BOOLEAN]
    /\ bin \in [Nodes -> Version] /\ sysid \in [Nodes -> Sysid]
    /\ dataDir \in [Nodes -> Content] /\ newDir \in [Nodes -> Content]
    /\ oldDir \in [Nodes -> Content] /\ conf \in [Nodes -> Version]
    /\ recConf \in [Nodes -> BOOLEAN]
    /\ pg \in [Nodes -> {"down"} \union Version] /\ demoted \in BOOLEAN
    /\ rsyncd \in {"off", "on"}
    /\ feedback \in [Replicas -> {"none", "ok", "error"}]
    /\ rpc \in [Replicas -> ReplicaPC] /\ replayed \in [Replicas -> BOOLEAN]
    /\ foreign \in BOOLEAN /\ unreleased \in BOOLEAN /\ unconfirmed \in BOOLEAN
    /\ served \in BOOLEAN /\ crashes \in CrashCount

\* rsync runs with --size-only over the replica's own files: it may be started
\* only on a replica whose files went through the shutdown checkpoint of the
\* primary, else it would keep stale blocks of equal size (wait_for_replicas).
CaughtUpBeforeCopy == \A r \in Replicas : rpc[r] # "idle" => replayed[r]

AfterUpgradeBegan ==
    {"switch", "rename", "config", "join", "notify", "waitsync", "stoprsyncd",
     "rmkey", "kill", "rmkey2", "restart", "fixkey", "waitrestart"}

\* While pg_upgrade and everything after it happen, no member that was asked to
\* pause holds the leader key but the primary, although the key is read once,
\* minutes before (sanity_checks), and a failover may happen until a member has
\* seen the pause.  A member whose Patroni was down when toggle_pause read the
\* cluster is not asked and may take the key: the code does not guard against it.
UpgradeOnlyOnLeader ==
    pc \in AfterUpgradeBegan => dcsLeader = Primary \/ dcsLeader \notin asked

\* The primary has, in one of its three directories and after every step, a
\* cluster with the data that one of the two versions can start, whatever
\* fails (switch_pgdata, post_cleanup).  The one exception is pg_upgrade -k
\* dying half-way through linking, and then both halves are left in place.
UsableDataKept ==
    \/ \E d \in {dataDir, newDir, oldDir} : d[Primary] \in {"old", "new"}
    \/ dataDir[Primary] = "linked" /\ newDir[Primary] = "broken"

\* A script that has ended has not left the cluster in its own maintenance
\* mode, unless the DCS lost or refused the request that decides it.
PauseReleased == pc = "done" /\ dcsPause => foreign \/ unreleased

\* A maintenance mode that an operator has set is lifted neither by the script nor,
\* hours later, by the child it has forked for the base backup: toggle_pause
\* compares versions, resume_cluster looks at self.paused.  The one exception is a
\* cluster whose first resume the DCS refused or did not confirm; both then try
\* again with a self.paused that nothing resets.
ForeignPauseKept == foreign => dcsPause \/ unconfirmed

\* When the script on a replica is through, no recovery.conf keeps the new
\* server from starting, even if the cluster was resumed before Patroni of the
\* replica was killed (comment at inplace_upgrade.py:741).
NoStaleRecoveryConf ==
    \A r \in Replicas : rpc[r] \in {"cleanold", "done"} => ~recConf[r]

\* After the last attempt to fix the race, the initialize key is not the old
\* one, although Patroni recreates it from a cached identifier whenever it
\* finds it missing (remove_initialize_key, kill_patroni).
InitializeKeyNotStale ==
    pc \in {"waitrestart", "resume", "finish"} => dcsInit # "old"

\* In an upgrade without faults no Patroni ever meets a cluster with another
\* system identifier outside maintenance mode, which would make it exit
\* (comment at inplace_upgrade.py:729).
NoSysidMismatch == \A n \in Nodes : ~SysidMismatch(n)

\* The script ends: every loop is bounded or waits for what must come.
Completes == <>(pc = "done")

AllUpgraded ==
    pc = "done" /\ \A n \in Nodes : /\ pg[n] = "new" /\ dataDir[n] = "new"
                                    /\ oldDir[n] = "none"

\* Without faults the upgrade reaches, and stays in, the state in which every
\* node runs the new version and the old directories are gone.
UpgradeSucceeds == <>[]AllUpgraded

\* Whatever gave up or failed short of the disk, of the DCS and of linking, the
\* primary's server comes back: the upgraded one, or the old one after an abort.
PrimaryComesBack == (pc = "done") ~> [](pg[Primary] # "down")

-----------------------------------------------------------------------------
(* What the upgrade promises *)

\* A torn copy, and a replica whose script has given up after it moved data, have
\* failed.
versionOf(n) ==
    CASE dataDir[n] = "old" /\ conf[n] = "old" -> "old"
      [] dataDir[n] = "new" /\ conf[n] = "new" -> "new"
      [] /\ n \in Replicas /\ (dataDir[n] = "torn" \/ rpc[n] = "failed")
         /\ dataDir[n] # "new" /\ ~(dataDir[n] = "old" /\ conf[n] = "old") -> "failed"
      [] OTHER -> "moving"

outcome == IF pc # "done" THEN "none" ELSE IF ret THEN "ok" ELSE "error"

Cluster == INSTANCE ClusterUpgrade WITH
             version <- [n \in Nodes |-> versionOf(n)],
             serving <- IF pg[Primary] = "down" THEN "none" ELSE pg[Primary]

\* Whatever fails and whoever interferes, the cluster goes through what
\* ClusterUpgrade allows: an upgrade given up before the cut-over leaves every
\* node untouched for good, no server runs between the two versions, no replica
\* counts as upgraded by a copy during which the new server ran, and exit code 0 is
\* right about every replica (do_upgrade, rsync_replica, post_cleanup).
ImplementsClusterUpgrade == Cluster!Spec
=============================================================================
