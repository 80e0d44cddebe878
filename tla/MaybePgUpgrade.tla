--------------------------- MODULE MaybePgUpgrade ---------------------------
(***************************************************************************)
(* bootstrap/maybe_pg_upgrade.py: after the data of a clone have been      *)
(* copied, recover them up to the requested target with the binaries of    *)
(* the version that wrote them and, if that is an older version, upgrade   *)
(* them with pg_upgrade (major_upgrade/pg_upgrade.py).                     *)
(*                                                                         *)
(* Time is the position in the WAL of the source cluster.  restore_command *)
(* serves the WAL of one archive prefix, the one envdir names; walFrom and *)
(* walEnd tell how much of it there is.  The server is external: it        *)
(* recovers, promotes itself (recovery_target_action promote), or stops.   *)
(* hot_standby is off while Patroni runs a custom bootstrap, so the server *)
(* accepts connections only once it is primary.                            *)
(***************************************************************************)
EXTENDS Integers

CONSTANTS
    Versions,  \* major versions there are
    Bin,       \* the version the clone is to run
    Faults,    \* which operations may fail
    MaxFaults, \* how many failures there are in all (bound)
    MaxTime    \* last position of the WAL (bound)

ASSUME MaybePgUpgradeAssumption ==
    /\ Versions \subseteq Nat \ {0} /\ Bin \in Versions
    /\ MaxFaults \in Nat /\ MaxTime \in Nat \ {0}

None == 0
Prefixes == Versions \cup {None}   \* None is the prefix without a version
Time == 1 .. MaxTime

VARIABLES
    upc,         \* where maybe_pg_upgrade.py is
    goal,        \* recovery_target_time in its configuration
    binDir,      \* _bin_dir
    archiveMode, \* archive_mode in its configuration
    srv,         \* the server of the clone: down, recovering or primary
    archiving,   \* that server was started with archive_mode on
    logTail,     \* the last lines of its newest log say that the recovery
                 \* ended before the configured target
    version,     \* PG_VERSION of the data directory
    dataDir,     \* what the data directory holds
    newDir,      \* what data_new holds
    oldDir,      \* data_old exists
    position,    \* what has been replayed
    consistent,  \* the end of the backup the data directory comes from
    envdir,      \* the prefix in the environment of restore_command
    walFrom,     \* first position whose WAL a prefix still has
    walEnd,      \* last position whose WAL has been archived under a prefix
    faults       \* failures still to come

script == <<goal, binDir, archiveMode>>
server == <<srv, archiving, logTail>>
dirs   == <<version, dataDir, newDir, oldDir>>
served == <<envdir, walFrom, walEnd>>
upgradeVars == <<upc, script, server, dirs, position, consistent, served, faults>>

Recovery == {"starting", "restarting", "waiting"}

UpgradeTypeOK ==
    /\ upc \in {"idle", "called", "post_init", "initdb", "drop", "stop", "pg_upgrade",
                "switch", "cleanup", "start", "analyze", "ok", "failed"} \cup Recovery
    /\ goal \in Time \cup {None} /\ binDir \in Versions /\ archiveMode \in BOOLEAN
    /\ srv \in {"down", "recovering", "primary"} /\ archiving \in BOOLEAN
    /\ logTail \in BOOLEAN
    /\ version \in Versions \cup {None}
    /\ dataDir \in {"none", "backup", "recovered", "upgraded"}
    /\ newDir \in {"none", "initdb", "upgraded"} /\ oldDir \in BOOLEAN
    /\ position \in Time \cup {None} /\ consistent \in Time \cup {None}
    /\ envdir \in Prefixes
    /\ walFrom \in [Prefixes -> Time] /\ walEnd \in [Prefixes -> Time \cup {None}]
    /\ faults \in 0 .. MaxFaults

UpgradeInit ==
    /\ upc = "idle" /\ goal = None /\ binDir = Bin /\ archiveMode = TRUE
    /\ srv = "down" /\ archiving = FALSE /\ logTail = FALSE
    /\ version = None /\ dataDir = "none" /\ newDir = "none" /\ oldDir = FALSE
    /\ position = None /\ consistent = None
    /\ envdir = None
    /\ walFrom = [p \in Prefixes |-> 1] /\ walEnd = [p \in Prefixes |-> None]
    /\ faults = MaxFaults

Fault(what) == what \in Faults /\ faults > 0 /\ faults' = faults - 1

\* A step of the script that goes from one place to the next.
Goes(here, there) == upc = here /\ upc' = there

\* An exception ends the script; nothing is cleaned up.
Raise == upc' = "failed" /\ UNCHANGED <<script, dirs>>

-----------------------------------------------------------------------------
(* The server of the clone *)

Starts(mode) == srv' = "recovering" /\ archiving' = mode

\* restore_command finds the next WAL.
Served == position >= walFrom[envdir] /\ position < walEnd[envdir]

Replay ==
    /\ srv = "recovering" /\ binDir = version /\ Served
    /\ goal = None \/ position < goal
    /\ position' = position + 1
    /\ UNCHANGED <<upc, script, server, dirs, consistent, served, faults>>

\* From version 13 on the server stops when it runs out of WAL.
EndsBeforeTarget ==
    /\ srv = "recovering" /\ binDir = version /\ ~Served
    /\ version >= 13 /\ goal # None /\ position < goal
    /\ srv' = "down" /\ logTail' = TRUE
    /\ UNCHANGED <<upc, script, archiving, dirs, position, consistent, served, faults>>

\* The end of the recovery: the target, or the end of the WAL.
Recovered == position = goal \/ (~Served /\ ~(version >= 13 /\ goal # None))

Promote ==
    /\ srv = "recovering" /\ binDir = version
    /\ Recovered /\ position >= consistent
    /\ srv' = "primary" /\ logTail' = FALSE /\ dataDir' = "recovered"
    /\ UNCHANGED <<upc, script, archiving, version, newDir, oldDir, position,
                   consistent, served, faults>>

\* It does not start, or its recovery ends before the end of the backup; a
\* server that fails before it opens its log leaves the old one as it was.
ServerFails ==
    /\ srv = "recovering"
    /\ \/ binDir # version /\ UNCHANGED <<faults, logTail>>
       \/ /\ binDir = version /\ Recovered /\ position < consistent
          /\ logTail' = FALSE /\ UNCHANGED faults
       \/ Fault("server") /\ logTail' \in {logTail, FALSE}
    /\ srv' = "down"
    /\ UNCHANGED <<upc, script, archiving, dirs, position, consistent, served>>

-----------------------------------------------------------------------------
(* perform_pitr *)

AssertVersion ==
    /\ upc = "called" /\ version > Bin
    /\ Raise /\ UNCHANGED <<server, position, consistent, served, faults>>

\* mutant: archive_mode stays on for the old version.
PerformPitr_Archives ==
    /\ Goes("called", "starting") /\ version <= Bin
    /\ binDir' = version
    /\ Starts(archiveMode)
    /\ UNCHANGED <<goal, archiveMode, logTail, dirs, position, consistent, served, faults>>

\* bootstrap, or start_old_cluster for the version of the data.
PerformPitr ==
    /\ Goes("called", "starting") /\ version <= Bin
    /\ IF version = Bin
       THEN UNCHANGED <<binDir, archiveMode>>
       ELSE binDir' = version /\ archiveMode' = FALSE
    /\ Starts(archiveMode')
    /\ UNCHANGED <<goal, logTail, dirs, position, consistent, served, faults>>

BootstrapSucceeds ==
    /\ upc \in {"starting", "restarting"} /\ upc' = "waiting"
    /\ srv = "primary"
    /\ UNCHANGED <<script, server, dirs, position, consistent, served, faults>>

\* mutant: the server is started again with the targets as they were.
RetryWithoutTarget_SameTarget ==
    /\ Goes("starting", "restarting") /\ srv = "down"
    /\ version >= 13 /\ logTail
    /\ Starts(archiveMode)
    /\ UNCHANGED <<script, logTail, dirs, position, consistent, served, faults>>

\* The targets are reset and the server is started again, but only once.
RetryWithoutTarget ==
    /\ Goes("starting", "restarting") /\ srv = "down"
    /\ version >= 13 /\ logTail
    /\ goal' = None /\ Starts(archiveMode)
    /\ UNCHANGED <<binDir, archiveMode, logTail, dirs, position, consistent, served, faults>>

BootstrapFails ==
    /\ upc \in {"starting", "restarting"} /\ srv = "down"
    /\ upc = "starting" => ~(version >= 13 /\ logTail)
    /\ Raise /\ UNCHANGED <<server, position, consistent, served, faults>>

\* The end of wait_end_of_recovery and the return at equal versions.
WaitEndOfRecovery ==
    /\ upc = "waiting" /\ srv = "primary"
    /\ upc' = IF version = Bin THEN "ok" ELSE "post_init"
    /\ UNCHANGED <<script, server, dirs, position, consistent, served, faults>>

-----------------------------------------------------------------------------
(* The upgrade *)

\* post_init fails: the server is stopped.
PostInit ==
    /\ upc = "post_init"
    /\ \/ upc' = "initdb" /\ UNCHANGED <<script, server, dirs, faults>>
       \/ Fault("post_init") /\ srv' = "down" /\ Raise /\ UNCHANGED <<archiving, logTail>>
    /\ UNCHANGED <<position, consistent, served>>

\* mutant: the old values of the configuration are not restored.
PrepareNewPgdata_KeepConfig ==
    /\ upc = "initdb"
    /\ \/ upc' = "drop" /\ newDir' = "initdb" /\ UNCHANGED faults
       \/ Fault("initdb") /\ upc' = "failed" /\ newDir' = "none"
    /\ UNCHANGED <<script, server, version, dataDir, oldDir, position, consistent, served>>

\* data_new is created afresh; the old archive_mode is configured again.
PrepareNewPgdata ==
    /\ upc = "initdb" /\ archiveMode' = TRUE
    /\ \/ upc' = "drop" /\ newDir' = "initdb" /\ UNCHANGED faults
       \/ Fault("initdb") /\ upc' = "failed" /\ newDir' = "none"
    /\ UNCHANGED <<goal, binDir, server, version, dataDir, oldDir,
                   position, consistent, served>>

DropIncompatibleObjects ==
    /\ upc = "drop"
    /\ \/ upc' = "stop" /\ UNCHANGED <<script, server, dirs, faults>>
       \/ Fault("drop") /\ srv' = "down" /\ Raise /\ UNCHANGED <<archiving, logTail>>
    /\ UNCHANGED <<position, consistent, served>>

\* mutant: the result of stop is not looked at.
StopServer_IgnoreError ==
    /\ Goes("stop", "pg_upgrade")
    /\ \/ srv' = "down" /\ UNCHANGED faults
       \/ Fault("stop") /\ UNCHANGED srv
    /\ UNCHANGED <<script, dirs, archiving, logTail, position, consistent, served>>

StopServer ==
    /\ upc = "stop"
    /\ \/ srv' = "down" /\ upc' = "pg_upgrade" /\ UNCHANGED <<script, dirs, faults>>
       \/ Fault("stop") /\ Raise /\ UNCHANGED srv
    /\ UNCHANGED <<archiving, logTail, position, consistent, served>>

PgUpgrade ==
    /\ upc = "pg_upgrade" /\ binDir' = Bin
    /\ \/ newDir' = "upgraded" /\ upc' = "switch" /\ UNCHANGED faults
       \/ Fault("pg_upgrade") /\ upc' = "failed" /\ UNCHANGED newDir
    /\ UNCHANGED <<goal, archiveMode, server, version, dataDir, oldDir,
                   position, consistent, served>>

\* A data_old of an earlier attempt is removed first; data is renamed to data_old,
\* data_new to data, and the server is configured.  Each of them may raise.
SwitchPgdata ==
    /\ upc = "switch"
    /\ \/ /\ upc' = "cleanup" /\ UNCHANGED faults
          /\ oldDir' = TRUE /\ dataDir' = newDir /\ newDir' = "none" /\ version' = Bin
       \/ /\ Fault("switch") /\ upc' = "failed"
          /\ \/ oldDir' \in {oldDir, FALSE} /\ UNCHANGED <<dataDir, newDir, version>>
             \/ /\ oldDir' = TRUE /\ dataDir' = "none" /\ version' = None
                /\ UNCHANGED newDir
             \/ /\ oldDir' = TRUE /\ dataDir' = newDir /\ newDir' = "none"
                /\ version' = Bin
    /\ UNCHANGED <<script, server, position, consistent, served>>

CleanupOldPgdata ==
    /\ upc = "cleanup"
    /\ \/ upc' = "start" /\ oldDir' = FALSE /\ UNCHANGED faults
       \/ Fault("cleanup") /\ upc' = "failed" /\ UNCHANGED oldDir
    /\ UNCHANGED <<script, server, version, dataDir, newDir, position, consistent, served>>

StartUpgraded ==
    /\ upc = "start"
    /\ \/ /\ upc' = "analyze" /\ srv' = "primary" /\ archiving' = archiveMode
          /\ UNCHANGED <<script, dirs, faults>>
       \/ Fault("start") /\ Raise /\ UNCHANGED <<srv, archiving>>
    /\ UNCHANGED <<logTail, position, consistent, served>>

\* update_extensions, whose failure is only logged, and analyze.
Analyze ==
    /\ upc = "analyze"
    /\ \/ upc' = "ok" /\ UNCHANGED <<script, dirs, faults>>
       \/ Fault("analyze") /\ Raise
    /\ UNCHANGED <<server, position, consistent, served>>

UpgradeNext ==
    \/ Replay \/ EndsBeforeTarget \/ Promote \/ ServerFails
    \/ AssertVersion \/ PerformPitr \/ BootstrapSucceeds \/ RetryWithoutTarget
    \/ BootstrapFails \/ WaitEndOfRecovery
    \/ PostInit \/ PrepareNewPgdata \/ DropIncompatibleObjects \/ StopServer
    \/ PgUpgrade \/ SwitchPgdata \/ CleanupOldPgdata \/ StartUpgraded
    \/ Analyze

-----------------------------------------------------------------------------
(* Properties *)

\* WAL of an older version never goes to the archive of the clone: whatever
\* retry or failure led here, a server that archives has data of the version
\* the clone is for (pg_upgrade.py:43 "we don't archive wals").
OldNeverArchives == srv # "down" /\ archiving => version = Bin

\* pg_upgrade reads, and the switch removes, only a data directory that has
\* been recovered past the end of its backup and shut down, also after the
\* retry without target (maybe_pg_upgrade.py:93 "Doing a clean shutdown").
UpgradeOfCleanData ==
    upc \in {"pg_upgrade", "switch"} =>
        srv = "down" /\ dataDir = "recovered" /\ position >= consistent

\* Exit code 0 means a running, archiving server of the wanted version on
\* recovered data and, after an upgrade, with nothing left of an old or a
\* half-made directory, whatever an earlier attempt left behind.
SuccessIsComplete ==
    upc = "ok" =>
        /\ version = Bin /\ binDir = Bin
        /\ srv = "primary" /\ archiving
        /\ \/ dataDir = "recovered"
           \/ dataDir = "upgraded" /\ newDir = "none" /\ ~oldDir

=============================================================================
