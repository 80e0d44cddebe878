# A verification project for Spilo

Spilo packages PostgreSQL and Patroni into one container image. Most of what
runs in the container is third-party; what the repository adds is a layer of
scripts in `src/postgres-appliance/` that create replicas, clone and upgrade
clusters, fetch WAL, keep TLS files loaded and supervise Patroni. This directory
holds TLA+ models of those scripts, the TLC configurations that check them and
TLAPS proofs of what matters most. Paths below are relative to
`src/postgres-appliance/` unless they start with `src/`.

## 1. Inventory

| Component (source) | State it keeps | Operations | Interacts with | Modelled in |
|---|---|---|---|---|
| In-place major upgrade, `major_upgrade/inplace_upgrade.py`, `pg_upgrade.py` | the script's flags and replica connections; `data`, `data_new`, `data_old`, `postgres.yml`, `recovery.conf` of every node; rsyncd and its feedback directory; pause, initialize and leader keys in the DCS | `do_upgrade` on the primary, `rsync_replica` on each replica, `post_cleanup` | Patroni's REST interface and HA loop, runit, the DCS, PostgreSQL, rsync | `InplaceUpgrade`, `ClusterUpgrade` |
| Replica creation, `scripts/basebackup.sh` | data directory, `wal_fast/`, lock and pid files, two background shells | `pg_basebackup` with retries, `start_receivewal` and its watcher, `sigterm_handler` | Patroni starts it, PostgreSQL recovers from `wal_fast` | `BaseBackup` |
| TLS reload, `scripts/test_reload_ssl.sh` | one stored hash per TLS file | `has_changed`, `pg_ctl reload`, `write_hashes` | cron starts it, Kubernetes rotates the files, PostgreSQL loads them | `SslReload` |
| WAL fetch, `scripts/wal-e-wal-fetch.sh` | the prefetch directory: files, running directories | one call per segment; a prefetcher per segment of the window | PostgreSQL's `restore_command`, the archive, other calls' prefetchers | `WalFetch` |
| Segment arithmetic in the three shell scripts | none | previous name, next names, position of a name | PostgreSQL's naming of WAL files | `WalSegment` |
| Restore from an archive, `scripts/wale_restore.sh` | attempt counters | list, measure distance, fetch | archive, leader | `WaleRestore` |
| Clone upgrade and PITR, `bootstrap/maybe_pg_upgrade.py` | the clone's data directories, recovery target | `perform_pitr`, upgrade, start | Patroni's bootstrap, PostgreSQL's recovery | `MaybePgUpgrade` |
| Clone from an archive, `bootstrap/clone_with_wale.py` | clone environment directory | `find_backup`, `run_clone_from_s3` | archive, `restore_command`, `maybe_pg_upgrade.py`, Patroni's retries | `CloneWithWale` |
| Clone with `pg_basebackup`, `bootstrap/clone_with_basebackup.py` | none | one subprocess | source cluster | not modelled: no state |
| Role callbacks, `scripts/callback_role.py` | pod label, service endpoints | PATCH with retries | Patroni's callbacks, Kubernetes | `PatroniService` |
| AWS callback, `scripts/callback_aws.py` | tags of instance and volumes | API calls with retries | EC2 | not modelled: no state of its own |
| Base backups, `scripts/postgres_backup.sh` | the list of backups, the one to delete before | push, list, choose, delete before | archive, cron, `launch.sh` | `BackupRetention` |
| Supervision, `runit/patroni/finish`, `launch.sh` | restart counter | count, back off, stop | runit, Patroni and the callbacks it leaves behind | `PatroniService` |
| Waiting, `scripts/patroni_wait.sh`, `on_role_change.sh` | none | poll, then start a command | Patroni's REST interface | not modelled: no state; what they start may start at any time |
| Log upload, `scripts/upload_pg_log_to_s3.py` | compressed log | compress, upload, delete | PostgreSQL's log rotation, S3 | `UploadLog` |
| Configuration, `scripts/configure_spilo.py`, `spilo_commons.py` | `postgres.yml`, two envdirs | environment to files at each start, `update_configs` in an upgrade | everything, as its input | `ConfigureSpilo` |
| SQL (`post_init.sh`, `metric_helpers.sql`, ...) | database objects | one session | server | not modelled: executed by the server |
| Build and deployment files, tests | - | - | - | not modelled |

### What is hard

* **Concurrency without locks.** The upgrade is two scripts on many nodes next
  to Patroni processes that react to the same keys in the DCS every ten seconds.
  The backup script has three concurrent shells and a successor that does not
  know of them. Prefetchers of many WAL fetches share one directory and
  coordinate by `mkdir` and `mv` only.
* **Values read early and used late.** The leader key before the pause, the pid
  file of the receiver, the list of replicas, the size of a download.
* **Partial failure.** A replica may fail before, in and after its copy;
  `finally` has to repair what it can; several functions log a failure and go on.
* **Ordering between processes nobody controls**: Patroni on a replica must
  not see the new initialize key with the old identifier, must be killed after
  the primary runs and before the cluster resumes.
* **Waits.** Every polling loop may give up, and what follows was written for
  the case that it did not.
* **Processes that outlive their parent.** A callback goes on repeating its
  request after Patroni has died; a prefetcher or a receiver after its script.
* **Files written once and used for long.** The environment of a container
  decides which tool archives and which restores; an upgrade patches the files,
  a restart keeps them, a new container writes them anew.
* **Ages and counts.** Which backups are old enough, which files come round
  again, how many crashes are too many.

`PROJECT.json` lists these hazards at their lines with the properties that
would catch them.

### What makes each component correct

* *Upgrade*: a replica copies only after it replayed the shutdown checkpoint;
  the upgrade runs on the leader; the data survives every failure; a given-up
  upgrade changes nothing; exit code 0 is true; the cluster is not left paused
  and nobody else's pause is lifted; the initialize key ends up right; the
  primary comes back; without faults everything is upgraded.
* *Replica creation*: the WAL needed to reach consistency is complete while it
  is needed, also when a replica that streamed is made anew; no receiver survives
  a failed run, or a replica that streams.
* *TLS reload*: a matching hash means the file is loaded; every rotation gets
  loaded. Both with the two exceptions of section 4.
* *WAL fetch*: success means a complete segment of the requested name; nothing
  is fetched twice, kept in vain or left behind; every call ends.
* *Arithmetic*: names and positions are those PostgreSQL uses.
* *Restore*: nothing is restored unasked, or when copying the leader is
  cheaper.
* *Clone*: the backup chosen is the latest that allows the target, in any
  version's archive; old WAL is not archived; only recovered data is upgraded;
  exit code 0 is true; every attempt that finds a usable backup makes the clone.
* *Backups*: whatever could be restored of the last days still can; a delta has
  its full backup; as many backups are left as are to be retained.
* *Log upload*: under a date there is the log of that day.
* *Supervision*: the service stops after the configured number of crashes.
* *Callbacks*: when the trouble is over, the labels are those of the roles there
  are.
* *Configuration*: what one tool archives the other finds; the files follow the
  data through upgrades and restarts.

## 2. The modules and the code

### InplaceUpgrade (with MCInplaceUpgrade, InplaceUpgradeProofs)

Four kinds of actors: the script on the primary (`pc`), the script on each
replica (`rpc[r]`), Patroni with runit on every node, an operator. One action
per step of `do_upgrade` and `rsync_replica` that another actor can observe; an
early `return False` or an exception is `Abort`, which leads to
`PostCleanup` as the `finally` clause does. Functions with several steps are
split where others can get in between or one of the steps may fail:
`toggle_pause` (read, write, wait), the two renames of `switch_pgdata` and of
`switch_back_pgdata`, and on a replica the renames, the configuration and the copy.

`asked` are the members that `toggle_pause` waits for: those it has read before
it wrote the pause, and of them those that are registered still. A Patroni that
was down at the read is not asked and not waited for (section 4). `childPaused`
is `self.paused` in the child that `start_backup` forks: it returns through the
`finally` clause of `try_upgrade` when its backup is over and may resume the
cluster once more (`BackupEnds`), at any time until then. `unconfirmed` and
`unreleased` are the requests whose answer was lost or refused, `served` says
that the new server has run, and `MaxCrashes` bounds the Patroni processes that
die on their own.

A replica's script may raise at its renames, its configuration, its rsync, the
renames back and its cleanup (`disk`, `rsync`). What it does not model: an
exception of `remove_recovery_conf`, which the code swallows. A copy is `torn`
when the new server ran at any time between the connection of the client and
the end of the copy; since server and daemon share a port, that is when it has
run by the end.

A data directory is one of a few contents (`old`, `linked` after `pg_upgrade
-k`, `new`, `torn` when copied from a running server, ...). The major versions
are two, and a cluster's system identifier is the version whose initdb made it.
A polling loop either sees what it waits for or, with the fault `timeout`,
gives up. What may go wrong is the constant `Faults`; each run chooses a set, so
that a property is checked under all the faults it is meant to survive.

The external actions (Patroni, runit, streaming, rsync's server) do what the
script and its comments rely on: a Patroni that sees a foreign identifier
outside maintenance mode exits; the leader recreates a missing initialize key
from its cache; runit restarts Patroni, which then reads its configuration.

Left out of the action sequence: ANALYZE and statistics targets, ALTER
EXTENSION, `post_bootstrap` and what the base backup at the end does. They run
against the server and their failures are only logged. What the script drops before
pg_upgrade is not put back when it gives up; contents of databases are not
modelled.

### ClusterUpgrade

What the upgrade promises to whoever runs the cluster, in four variables and
eight actions: the version of every node (`old`, `moving`, `new`, `failed`),
what the primary serves, whether the new data has been served, and the outcome. The primary has one cut-over, with its
server down; a replica is touched only after it and is new only by a copy of
data that no server was writing; exit code 0 means that nothing is left to be
done anywhere. `InplaceUpgrade` implements it (`Cluster`, an `INSTANCE ... WITH`
at its end): the version of a node is what its data directory, its configuration
and its scripts amount to, and each of the fifty actions of `InplaceUpgrade` is
one of the eight or changes nothing. It replaces three properties stated one by
one before: an upgrade that is given up is harmless, success is success
everywhere, and a torn copy never counts as an upgrade.

### BaseBackup (with BaseBackupProofs)

Each run is a number with the state of its three shells: the script itself,
`start_receivewal`, and the watcher. Files are shared by all runs: data
directory, `wal_fast`, the lock file as an inode per creation (this is what
`rm` followed by `exec 9>` does), the pid file. WAL is a counter of segments of
the primary; a receiver holds an interval of it, and recovery takes segments out
of `wal_fast` one by one (`Restore`, `restore_command.sh:33`). The fork of a
receiver and the assignment of its pid are two steps, between which a signal may
arrive; `backup_label` may be seen before it has its text (line 55).

PostgreSQL of the node goes from recovery to streaming, loses its stream and
gets it back, and fails, whereupon Patroni makes the replica anew. Patroni may
start a run while the script of an earlier one still runs (after Patroni itself
was killed) or while a watcher is in the second between its kill and its `rm`
(lines 64-65). The history variable `disturbed` says that the last run began so:
nothing guards a run against either, and `WalForRecovery` excepts it.

### SslReload (with MCSslReload, SslReloadProofs)

A rotation replaces the files in some order; the script looks at each file,
asks for a reload and writes the hashes, and the server reads the files when it
handles the signal, later or not at all. Files are replaced or removed at any
time, and an earlier content may come back. Two history variables name the cases
in which the properties do not hold (section 4). `raced`: a file was replaced
between the signal and the last of the hashes written after it. `returned`: a
file became again what its hash stands for while the server worked with other
files - it had been started in between, had handled the signal late, or had
refused a set that did not fit -, until the server has read the files.

### WalFetch (with ArchiveProofs)

`Call(s)` is the script for segment `s`, one at a time as recovery does;
prefetchers run on. The directory is a pair of sets (files, running
directories); tests of the two are separate actions, as they are separate
commands. Sizes are compared as strings in the code, so that growth may be
taken for a stall: `DirGrown` and `DirStalled` are both possible for a live
download. The `mv` of a prefetched segment may fail; it is a rename below one
directory, so that it leaves nothing half done.

### WalSegment (with WaleRestoreProofs)

The three computations, over the names of a server with 16 MB segments: log and
segment number in base 256. It has one action, the server's step to the next
segment; predecessor and successors are compared with linear segment numbers,
and the position through the distance `WaleRestore` computes from it. `WaleRestore` extends it; the run is that of the composed module.

### WaleRestore (with WaleRestoreProofs)

`wale_restore.sh` as its three loops, one action per question (the list of
backups, the server's version, the distance, the size) and one per end of a
loop; any question may go unanswered at any attempt, and answers already given
are kept, as the `[[ -z ... ]]` tests do. The leader moves on and backups are
added between any two steps. Positions are in units of 64 kB, so that a
distance is computed from `StartLsn` by the same shift as in the code. `fetched`
and `measured` record which backup was copied and where the leader was when it
answered; the code has no such variables, the properties need them.

The leader is taken to be one: a `--connstring` that leads to a replica only
changes which position is asked for. After the last failed attempt the script
leaves a partial data directory (line 96 leaves the loop before line 97 removes
it): Patroni removes it before it tries its next method.

### MaybePgUpgrade and CloneWithWale (with CloneWithWaleProofs)

`MaybePgUpgrade` has `maybe_pg_upgrade.py` as a chain of steps (`upc`), each of
which may raise, and the clone's server, which recovers, promotes itself or
stops on its own. `CloneWithWale` extends it, as `clone_with_wale.py` calls it:
listing prefix by prefix (`todo`), fetch, envdir; then Patroni's clean-up and
the next attempt, which keeps the envdir, `data_new`, `data_old` and the server
log. Patroni exits with an error when a bootstrap has failed, so that
`runit/patroni/finish` counts the attempts and grants `MaxRestarts` of them. Time is the source's WAL position. A backup is known by its prefix and by
where it began and ended (`last_modified`); WAL is an interval per prefix.

The source is not still meanwhile: it writes, archives late, backs up, deletes
its oldest backup with its WAL, and is upgraded, and nothing is fair about it.
The target may be any time, past or future, as in `tests/test_spilo.sh`.
hot_standby is off while Patroni runs a custom bootstrap whose target action is
promote, the default (`scripts/configure_spilo.py:241`), so the server accepts
connections only as a primary; `USE_PAUSE_AT_RECOVERY_TARGET` is not modelled.
The waits of seven days (`pg_ctl_timeout`) are taken to be long enough.
A prefix given by the user without the shape of a generated one
(`bootstrap/clone_with_wale.py:133`) is tried alone, by the code; `Environments`
has the generated shape only.

What the clone does by design, and no property forbids: with version 13 or
later, a target the WAL does not reach yet is given up, and the retry replays
all the WAL there is by then. If the source archives WAL between the two
starts the clone ends up past the requested time, which TLC shows at once when
`position <= target` is made an invariant. A `data_new` of a failed upgrade is
only removed by the next upgrade: it stays if the next attempt, after an
upgrade of the source, needs none.

### PatroniService (with PatroniServiceProofs)

runit's service of every pod, `finish` with its status file, and the processes
of `callback_role.py`. Patroni runs one callback at a time (`child`); one whose
Patroni has died lives on (`orphan`). A request is applied, refused, or fails
with or without having been applied, and is then repeated. Elections, exits,
server stops and container restarts are external and counted by `MaxTrouble`.
`excused` names the pods for which the code promises nothing: the last callback
gave up or was refused, or the request of an orphan got through after a newer
callback. The request for the endpoints is in `record_role_change` as in the code,
and never made: the leader of Patroni 4 is not called `master` (section 4).

### BackupRetention, UploadLog and CronJobs (with MCCronJobs, CronJobsProofs)

`postgres_backup.sh` as start, end of the push, list, loop and deletion, by any
number of scripts at once: cron starts it, `launch.sh` does when a container
comes up, and nothing locks. A backup is named by the order of the starts, has
the time of its completion (the list is sorted by it) and names the full backup
it needs; the tool deletes by the order of the starts. A push, a list and a
deletion may fail at any time, as the script looks at no exit code.

`UploadLog` has the server's files by day of the week, with the days their lines
are of, and the script's three steps. `CronJobs` composes the two, which cron
starts independently of each other: they share no state, and a behaviour has
steps of one of them, so that a run costs their sum and not their product.
`MCCronJobs` adds only the symmetry of the scripts.

### ConfigureSpilo (with MCConfigureSpilo, ArchiveProofs)

The part of `configure_spilo.py` that decides how archiving, restoring and
cloning work: which environment variables are given (as pairs, without their
values) and the three switches, through `get_placeholders` and
`write_wale_environment` to the envdirs and `postgres.yml`. The life of the
container is modelled around it: sections done in any order and cut short, a
container restarted (files are kept, missing ones written) or replaced (all
are written anew), data made and removed by Patroni, and `update_configs` of the
upgrade, complete or cut. The `STANDBY_` variables go through the same functions
as those of `CLONE_` and are left out.

## 3. Runs

| Run | Question | Bounds, and why they are enough |
|---|---|---|
| `InplaceUpgradeFaultless` | Do all interleavings of a good upgrade end with all nodes on the new version, without Patroni meeting a foreign identifier? | two replicas: their scripts interleave with each other and one may lag behind the other |
| `InplaceUpgradeAllFaults` | With all twelve kinds of fault in one behaviour, do catch-up, data, leadership, pause and recovery.conf properties hold? | one replica, one Patroni process that dies on its own (4.3 million states); these properties speak of one replica or none |
| `InplaceUpgradeReplicas` | With several replicas failing differently, is every step one of `ClusterUpgrade`? | two replicas, symmetric: one fails, the other does not; failures of commands, disks, CHECKPOINT, rsync and waits (0.95 million states); the next run adds the notification, and the refinement is proved for all faults |
| `InplaceUpgradeRecovery` | Does the script end, is the race for the initialize key won, and does the primary come back when waits give up; and is the upgrade one of `ClusterUpgrade` when a notification raises, with or without effect? | one replica; liveness, hence no symmetry (12 thousand states) |
| `BaseBackup` | WAL for recovery complete, receivers end | two runs, next to each other or not, two attempts each, three segments, streams that break off and replicas that fail: a second run next to what is left of the first is where it becomes hard (2.7 million states) |
| `SslReload` | Do hashes that match mean loaded files, and does every rotation get loaded? | three files, two contents each, or none, in any sequence; failures of reload and server restarts (757 thousand states) |
| `WalFetch` | Four properties of calls and prefetchers | three segments, a window of two: windows of consecutive calls overlap by one, and a segment leaves the window (22 thousand states) |
| `WaleRestore` | Are names and positions right, is only what is cheap restored, and is nothing restored unasked? | nine segments across the boundary of a log file, a window of eight; each threshold is the tighter one for some of the three sizes; the default of two retries |
| `CloneWithWale` | Is the right backup fetched, is only clean data upgraded, is nothing old archived, and does an attempt that finds a backup succeed? | three versions (older, wanted, newer), three points in time, two attempts and one failure at any step: a backup before the target, a target before or after the end of the WAL, a source that moves on in each interval, and a second attempt after any failure of the first (1.7 million states). Versions before 13, which do not fail at a target that is not reached and need no retry, are in the proofs only |
| `PatroniService` | Does the service stop in time, and do labels end up right? | two pods, so that the key goes there and back; two restarts (below, at and above the limit), one retry, four troubles: a crash that leaves an orphan, an election, a failure and another crash (174 thousand states) |
| `ConfigureSpilo` | Do archiving, restoring and cloning agree, and do the files follow the data? | two versions; the environments give no storage or one, in each of the ways the code knows, with every combination of the switches (410 thousand states) |
| `CronJobs` | Is what could be restored still there, and is an uploaded log that of its day? | two scripts; four backups, full or delta, where two are to be retained for two days; three days of two ticks, so that an age may be short of the limit by a tick; a week of three days and a clock of five (2.3 million states) |

Deadlock checking is off where the scripts simply end or the clock of the model
stops.

### Reading the properties with their faults

Some properties need a fault to be absent, and this is a statement about the
code, not a convenience:

* A torn copy of the primary is possible: `stop_rsyncd` kills the rsync daemon
  but not the child that serves a transfer, so a replica that is given up after
  300 seconds, or whose COPY raised after the program had started, may go on
  copying from a primary that runs. `ClusterUpgrade` has what the code does
  promise: such a replica is never `new`, and the outcome is an error.
* In `ClusterUpgrade` an upgrade may end in the middle of the cut-over: a rename
  that fails half-way, or pg_upgrade dying while it links, is not undone by
  anything.
  `UsableDataKept` shows that the data is still there after every other
  failure. It is so because `new_data_created` is never set
  (`inplace_upgrade.py:101,652`): if it were, the clean-up would remove the only
  usable copy after a failure between the renames of `switch_pgdata`. The
  mutant of that property is exactly this change.
* `UpgradeOnlyOnLeader` speaks of the members that were asked to pause, which is
  what the code secures. A Patroni that was down when the cluster was read and
  comes back may take the key (section 4); TLC shows it when the second disjunct
  is dropped.
* `ForeignPauseKept` excepts one case, `unconfirmed`: the request to resume the
  upgraded cluster was refused, or its answer lost. `self.paused` then stays set,
  and both `post_cleanup` and the child of `start_backup` resume again, the child
  when its backup is over; a pause that an operator has set by then is lifted.
* `PauseReleased` excepts `unreleased`: a pause whose answer was lost, or a last
  request to resume that was refused.
* `NoSysidMismatch` is checked in the faultless run and proved (`SysidsAgree`)
  for every fault but `timeout`, `dcs`, `checkpoint`, `copy` and `patroni`. With
  any of these five the script goes on without a replica or leaves the
  initialize key alone; TLC then finds a Patroni that meets a foreign
  identifier, exits, and is restarted by runit.
* `WalForRecovery` excepts a run that began next to another script or in the
  second before a watcher's `rm` (`disturbed`), `FailedRunLeavesNoReceiver` a
  signal between the fork of the receiver and the assignment of its pid.
* `HashesMatchLoaded` and `RotationIsLoaded` except files replaced between the
  signal and their hash (`raced`) and files that become again what their hash
  stands for while the server works with others (`returned`).
* `CloneSucceeds` excepts an attempt in which a step fails, during which the source
  deletes a backup, or which begins without a usable one under the prefixes the
  envdir lets it try (`excused`); and it promises nothing after the last attempt
  that `runit/patroni/finish` grants.
* `DeltasKeepTheirFull` and `EnoughAreLeft` are promised as long as no backup was
  begun while another one was being made (`overlap`): `postgres_backup.sh` takes
  no lock. A delta of the latest backup may otherwise end after its full backup
  has been deleted. `WindowIsRestorable` holds even then.
* `UploadedIsThatDay` promises nothing for a day whose gzip failed; and a server
  that is down at midnight goes on with the file of a week ago.
* `LabelsSettle` excepts a pod whose callback gave up after its last attempt or
  was refused, and one whose orphan got through after a newer callback.
* `ArchiveIsFound` and `CloneIsFound` hold for environments whose switches agree
  with the prefixes (`Consistent`), the ways `src/ENVIRONMENT.rst` describes.
  `FilesFollowData` excepts an upgrade that was cut before its last step and
  data of another version than the container is configured for.
* Exit code 0 does not say that PostgreSQL of the primary was started by the
  script: the answer of POST /restart is only logged. `PrimaryComesBack` shows
  that Patroni starts it in the end.

### Fairness

* The scripts run to their end: weak fairness of every script step.
* Patroni's HA loop, runit's supervision and streaming replication never stop
  for good: weak fairness of seeing the pause, starting a server, restarting
  Patroni, recreating the key, catching up. PatroniCrash, Failover, the operator,
  the end of the base backup and all faults get none.
* BaseBackup: watchers poll for ever; the server's own steps are fair only
  where the property says "a server that streams".
* SslReload: cron starts the script for ever; the reload succeeds if it is tried
  again and again (strong fairness), since a failure of `pg_ctl reload` is
  transient.
* CloneWithWale: the scripts, Patroni and the clone's server go on (weak
  fairness of `Clone` and `Upgrade`), the next attempt included as long as there
  is one: nothing is retried for ever. The source gets no fairness.
* PatroniService: callbacks get on, a running Patroni announces a role that has
  changed, runsv restarts what sleeps. Exits, elections, failures are not fair.
* WalFetch: the script's steps are fair; `DirStalled` gets strong fairness: a
  dead download cannot appear to grow for ever, as sizes do not change.

## 4. Known disagreements

Where the code does something else than a comment or a document says, or than
its user would expect. Each was met while modelling; the properties are stated
so that they say what does hold.

1. **Port 5432 is kept by rsyncd when no replica is left**
   (`major_upgrade/inplace_upgrade.py:577`). `stop_rsyncd` is only called inside
   `if self.replica_connections`. If CHECKPOINT failed on every replica, rsyncd
   keeps the port, `POST /restart` fails until it gives up, and the server comes
   back only after `post_cleanup` (`PrimaryComesBack`).
2. **The lock of pg_receivewal does not lock** (`scripts/basebackup.sh:34`): every
   run removes the lock file before it opens it, so that there may be two
   receivers although line 88 says "make sure that there is only one".
3. **TLS files that are never loaded** (`scripts/test_reload_ssl.sh:88`). A file
   is hashed after the server was signalled at line 87, so that one replaced in
   between has the hash of a content nobody has loaded (`raced`). A file rolled
   back to what its hash stands for, after the server has read another at a
   restart, has a matching hash too (`returned`): the hash says what the script
   has seen, not what the server has.
4. **The leader's name.** The image has Patroni 4.0.4
   (`src/postgres-appliance/Dockerfile:74`), which calls the leader `primary`;
   `scripts/callback_role.py:82` compares with `LEADER_LABEL_VALUE`, which is always
   its default `master`, since `runit/patroni/run:26-29` removes
   `KUBERNETES_LEADER_LABEL_VALUE` from the environment that
   `src/ENVIRONMENT.rst:105` says it is read from. The endpoints are therefore never
   patched, and the label of the leader is `primary`, not `master` as that line
   of ENVIRONMENT.rst says. (With Kubernetes as the DCS no callback is used.)
5. **Storage variables that do not fit.** A `WALG_S3_PREFIX` or `WALG_GS_PREFIX`
   alone, with the switches unset, makes wal-e archive to a prefix generated
   without a bucket; `WAL_S3_BUCKET` next to a `WALG_S3_PREFIX` makes the two
   tools use different places; `CLONE_WALE_GCS_PREFIX` and `CLONE_WAL_AZ_BUCKET`
   turn cloning on but are not known to `write_wale_environment`
   (`scripts/configure_spilo.py:862`); `CLONE_WALG_AZ_PREFIX` and
   `CLONE_WALG_GS_PREFIX` need `USE_WALG`, which the message at lines 619-620 does
   not say.
6. **Values given by the user and patched by an upgrade** (a prefix that has the
   shape of a generated one, `shared_preload_libraries`) go back in a new container.
7. **postgres_backup.sh takes no lock**: see `overlap` above.
8. **A member that is not asked to pause.** `toggle_pause` waits for the members it
   has read before it wrote the pause (`major_upgrade/inplace_upgrade.py:136,147-151`).
   A Patroni that was down then and comes back is not waited for; it may take the
   leader key while the primary's server is down, and a new leader's replica
   diverges.
9. **A second resume.** The child that `start_backup` forks (lines 665-669) returns
   through the `finally` clause of `try_upgrade` and runs `post_cleanup` with its
   copy of `self.paused`. If the first request to resume was refused, or its
   answer lost, it lifts, hours later, whatever pause there is, an operator's too.
10. **A signal between lines 91 and 92 of `scripts/basebackup.sh`** leaves the receiver,
    whose pid the handler does not know yet.
11. **A slow watcher.** It empties `wal_fast` a second after it has killed its
    receiver (`scripts/basebackup.sh:64-65`); a run that begins in this second loses
    its lock, its pid file and its WAL.
12. **"starting before".** `bootstrap/clone_with_wale.py:68` says that the backup
    chosen is the latest "starting before" the target; the code compares
    `last_modified`, when the backup was complete, which is what recovery needs
    (`LatestBackup`).
13. **MAX_RESTARTS and the clone.** A clone whose source has no backup yet is tried
    `MAX_RESTARTS` times and then never again: `runit/patroni/finish` stops the service.

Further: the precreated predecessor segment of `start_receivewal` is zero-filled
and visible to `restore_command.sh`; a backup that finishes within one polling
interval leaves `start_receivewal` waiting for `backup_label` for ever; packed
logs of failed uploads are never removed.

## 5. Proofs

All proofs are checked by TLAPS for every value of the constants (any finite
set of replicas, any subset of the faults, any number of runs and attempts).
Every invariant and every action property that a run checks is stated by one of
the theorems; a hypothesis, where there is one, is named below with the reason.

* **InplaceUpgradeProofs**
  * `TypeCorrect`: `Spec => []TypeOK`.
  * `CopyAfterCatchUp`: `Spec => []CaughtUpBeforeCopy`. The property is not
    inductive: it needs that after `WaitForReplicas` every connected replica has
    replayed, that `conns` only shrinks afterwards, that `todo` is part of
    `conns`, and that no replica script starts earlier (`CopyInv`).
  * `UpgradeOnLeader`: `Spec => []UpgradeOnlyOnLeader`, for all faults. `LeaderInv`
    says: once the wait for the pause is over, every member that was asked runs
    paused or not at all, a restarted Patroni starts paused while the pause lasts,
    and only a Patroni that has not seen the pause takes the key. Nothing is
    assumed of members that were not asked. That the script goes on only with all
    replicas connected follows from their number being what the operator gave
    (`AllRegistered`, by `FS_Subset`).
  * `ForeignPauseSafe`: `Spec => []ForeignPauseKept`, for all faults. `PauseInv`
    relates `self.paused` of the script and of its child, the place of the script
    and the pause in the DCS: unless the first resume is `unconfirmed` the child is
    forked with `self.paused` unset.
  * `OwnPauseReleased`: `Spec => []PauseReleased`, for all faults. `ReleaseInv`
    says that every pause in the DCS is an operator's, one that `self.paused`
    knows of, or one the DCS has hidden.
  * `Refinement`: `Spec => ImplementsClusterUpgrade`, for any replicas and
    faults: every step of `InplaceUpgrade` is a step of `ClusterUpgrade` or a
    stutter. What the mapping of a step needs to know is the invariant `IInv`:
    `PrimaryInv` ties the primary's directories and configuration to the place
    of the script (before, in or after the cut-over) and says where the server
    is down; `ReplicaInv` says that a replica's script starts only after the
    primary's new configuration is in place, what the replica's directories
    hold at every step of it, those of a failure included, and that nothing has
    run on the new data when a copy begins; `ExitInv` that as long as the exit code is going
    to be 0 no replica has been given up, and that feedback stands for a
    complete copy. Each of them is inductive only next to the others and to
    `LeaderInv`. The theorems below rest on the same invariant.
  * `DataIsKept`: `Spec => []UsableDataKept`, for all faults. `PrimaryInv` names
    the directory that holds the data at each step that moves or removes one.
  * `RecoveryConfGone`: `Spec => []NoStaleRecoveryConf`, for all faults.
    `RecoveryInv` says that after the kill a replica's Patroni is down or has the
    new binaries, and only one with the old ones writes a recovery.conf.
  * `KeyIsFixed`: assuming that neither `"dcs"` nor `"failover"` is among the
    faults, `Spec => []InitializeKeyNotStale`. `KeyInv` says that the leader is
    the primary and that its Patroni, once killed, has cached the new identifier.
    Both assumptions are needed: a DCS that refuses the last attempt leaves the
    old key, and a replica that takes the leader key when the wait for its
    restart has timed out brings the old key back.
  * `SysidsAgree`: assuming `Calmly` (none of the faults `timeout`, `dcs`,
    `checkpoint`, `copy`, `patroni`; disks, links, rsync, the leader and the
    operator may fail), `Spec => []NoSysidMismatch`, for any number of replicas.
    `SysidInv` says that outside maintenance mode the cluster is on one side of
    the upgrade: the old key and every Patroni with the old identifier
    (`OldSide`), or a key that is not the old one and every Patroni that runs
    restarted on the new data (`NewSide`); that on a replica only the script
    ends a Patroni, after the copy; and that no replica is left out in between.
* **CronJobsProofs**
  * `WindowIsKept`: `Spec => []WindowIsRestorable`, for any number of scripts,
    backups and days. `NameInv`: names are given once and every backup's full
    backup was completed. `ListInv`: a script about to delete has found an old
    enough backup, however long ago. `KeptInv` is what makes the property
    inductive: either nothing was ever deleted, or there is an old backup with
    its full backup such that all that was deleted had been started before that
    full backup. A deletion keeps it with the backup it was told to delete
    before, or, if that needs an older full backup than the one kept, with the
    same as before (`DeleteKeeps`).
  * `FullsAreKept` and `RetainedAreLeft`: `DeltasKeepTheirFull` and
    `EnoughAreLeft`. As long as no two backups were made at once (`overlap`,
    which is in the properties) `InOrder` holds: starts and completions have the
    same order, full backups too (`OrderInv`); what is deleted is older than all
    that is left (`ArchiveInv`); a script about to delete has seen as many newer
    backups as are to be left (`ChoiceInv`), and backups only get more
    meanwhile. Scripts may still delete at once, and from old lists.
  * `UploadsAreDaily`: `JobsSpec => []UploadedIsThatDay`, for a week of any three
    days or more. `FileInv` says that the files of the last `Week` days are each
    a file of its own (`TwoFiles`, by arithmetic modulo `Week`) and hold what is
    promised of their day; `ScriptInv` that the script, even past midnight,
    works at a day whose file has not come round again.
* **BaseBackupProofs**
  * `TypeCorrect`: `Spec => []TypeOK`, next to the number of attempts (`Counts`).
  * `NoReceiverLeft`, for any number of runs and attempts, overlapping or not: a
    run that failed after it took down the pid of its receiver has none.
    `ReceiverKnown` says that the run of a live receiver has its pid, is just about
    to take it down, or was ended in between.
  * `RecoversFromWal`: `Spec => []WalForRecovery`. As long as the last run is not
    `disturbed`, `CalmInv` says that no other script and no watcher in its last
    second is about, unless the backup has served its purpose; `LastInv` that the
    receiver started no later than the backup, whichever attempt succeeded, and
    that what it got and recovery has not taken is there. When `~disturbed` is
    dropped from the property TLC shows the `rm` of another run, or of a slow
    watcher, emptying `wal_fast` while PostgreSQL recovers from it.
* **SslReloadProofs**: `NothingMissed`, `Spec => []HashesMatchLoaded`, for any of
  the four files in any order and any number of rotations. The property is not
  inductive while hashes are being written; `LoadedWhenHashed` also counts the
  files whose hash the run in progress is still going to write. A file that gets the
  content of its hash leaves the server with exactly the files there are, or sets
  `returned`.
* **WaleRestoreProofs**
  * `PrecreatedCorrect` and `PrefetchCorrect`, for every segment and every length
    of the window, by arithmetic. The state they range over is that of `Names`,
    the server's walk through its segments, which every step of `WaleRestore`
    takes or stutters.
  * `CheapRestore` and `AskedRestore`, for any thresholds, sizes and numbers of
    attempts. `MeasureInv` says that the measured distance is that (by
    `BytesSinceNumber`) of the backup of the list, which is never newer than the
    newest in the archive; so `LATEST`, fetched later, has less to replay, not
    more. `DecideInv` says what is known at each place of the script.
* **CloneWithWaleProofs**
  * `NoOldWal`, `CleanUpgrade`, `CompleteSuccess`, for any versions, source and
    faults. `ArchiveInv` says where archive_mode is off and where the server is
    down, `DataInv` that a primary has been recovered past its backup,
    `SuccessInv` what each step has established when the next begins; the three
    are inductive only together.
  * `LatestIsCopied`: `Spec => []LatestBackup`, for any versions, times and
    backups. `SourceInv` says that the source goes from prefix to prefix in the
    order of time, so that a backup of a later version is a later backup;
    `FindInv` that no prefix above the one being listed, nor the one a previous
    attempt left in the envdir, hides a backup that would do; `ChosenInv` that
    the last entry of a sorted list is its latest (`MaxIsLast`).
* **ArchiveProofs**
  * `ReturnsWholeSegment`, `NothingFetchedTwice`, `PrefetchDirBounded`,
    `PrefetchersAreAlone`, for any window and number of segments, prefetchers
    that are killed and files that are renamed at any time. `DirWhileWanted`
    says that a prefetcher of the window has its directory, so that a call that
    sees none may start one; `FilesComplete` that only what the archive has gets
    a name; `Cleared` that `clear_except`, which removes the directories before
    the files, leaves nobody who could add a file outside the window.
  * `FilesAreOfData`: `FilesSpec => []FilesFollowData`, for any versions and
    environments. `FilesInv`: sections that got through have left their files,
    `postgres.yml` is throughout that of the version it names, that version is
    the data's unless an upgrade is under way or was cut, and the envdir is what
    a new container would write but for given prefixes, which an upgrade patches
    alike.
  * `ArchiveAgrees` and `CloneAgrees`: `ArchiveIsFound` and `CloneIsFound`,
    assuming of every environment that what it gives of the cluster (of the
    source of a clone) are names of one store (`OneStore`). TLC shows that this
    is needed: two stores at once, or names the code does not take for the same
    (`WALE_AZ_PREFIX` next to `WALG_AZ_PREFIX`, `WALE_GCS_PREFIX` next to
    `WALG_GCS_PREFIX`), make one tool look where the other does not write.
    ENVIRONMENT.rst describes one store, and the environments of the run have
    one. By `StoreIsFound` the tool chosen for archiving and the one for
    restoring are told one and the same prefix, in each of the ways
    `get_placeholders` and `write_wale_environment` can choose them.
* **PatroniServiceProofs**: `StopsInTime`, for any number of pods and any
  `MaxRestarts`. `CountInv` relates the status file to the history of exits: it
  is one ahead of them, or missing, or cut short in a service that has stopped.

Constants' assumptions are named in the module that declares them and evaluated
by TLC in every run: the primary is no replica, the replicas are finitely many,
faults are among the known kinds; bounds are natural numbers, some of them
positive; the TLS files are among the four names the script knows, the
certificate and its key in any case; a week of logs has at least three days.

Only model-checked: the eight liveness properties (`Completes`, `PrimaryComesBack`,
`UpgradeSucceeds`, `StreamingEndsReceivewal`, `RotationIsLoaded`, `CallsEnd`,
`CloneSucceeds`, `LabelsSettle`), as fairness and ENABLED are
outside what the prover handles.

## 6. Not modelled

* `patroni_wait.sh`, `on_role_change.sh`, `clone_with_basebackup.py`,
  `callback_aws.py`: no state of their own, a chain of commands or a polling loop
  whose failure is an exit code. `restore_command.sh` has none either; that its line
  33 moves segments out of `wal_fast` is part of `BaseBackup` (`Restore`).
* The parts of `configure_spilo.py` that copy values from the environment into
  files (certificates, crontab, pgbouncer, PAM, DCS, credentials).
* ANALYZE and the statistics targets of the upgrade, ALTER EXTENSION, and the
  SQL of `post_init.sh` and the helpers: they run against a server whose
  databases are not modelled, and their failures are only logged.
* Two upgrade scripts at once, or one started again next to what a killed one
  left (`major_upgrade/pg_upgrade.py:218` removes `data_new` under the first):
  nothing in the code expects it, and an operator has to start it.
* A server of a clone that pauses at its target, and a restore from a replica.
* Image build, deployment and the other services (cron, etcd, pgbouncer, pgqd):
  descriptions and start lines of third-party programs.
