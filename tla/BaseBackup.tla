----------------------------- MODULE BaseBackup -----------------------------
(***************************************************************************)
(* scripts/basebackup.sh: Patroni creates a replica with pg_basebackup     *)
(* while pg_receivewal, started next to it, saves the WAL of the primary   *)
(* in wal_fast, from where restore_command.sh takes it.  pg_receivewal and *)
(* a watcher outlive the script: they stop once PostgreSQL streams.        *)
(*                                                                         *)
(* Patroni runs the script again when the replica does not come up or has  *)
(* to be made anew, perhaps while the script of a killed Patroni goes on.  *)
(* Each run has its own script, receiver and watcher process; all of them  *)
(* inherit file descriptor 9, on which the lock is taken.  WAL positions   *)
(* are segment numbers; a lock file is identified by the run that created  *)
(* it, because removing the file leaves the lock on the old inode.         *)
(***************************************************************************)
EXTENDS Integers

CONSTANTS
    MaxRuns,   \* runs of the script (bound)
    Retries,   \* --retries
    MaxWal     \* last segment the primary writes (bound)

ASSUME BaseBackupAssumption ==
    /\ MaxRuns \in Nat \ {0} /\ Retries \in 1 .. 9
    /\ MaxWal \in Nat \ {0}

Runs == 1 .. MaxRuns
NoLabel == 0

VARIABLES
    pc,        \* where every run of the script is
    attempt,   \* ATTEMPT
    fd9,       \* the lock file the run has open, named by its creator
    owned,     \* the run holds the lock of its fd9
    lockFile,  \* the file wal_fast/receivewal.lock is, 0 if there is none
    pidFile,   \* wal_fast/receivewal.pid: the run of the receiver, 0 if none
    killPid,   \* receivewal_pid of the run, 0 if empty
    recv,      \* start_receivewal: the process of every run
    from,      \* the first segment that receiver fetches
    next,      \* the segment it fetches next
    watch,     \* the watcher of start_receivewal
    label,     \* START WAL LOCATION of backup_label, NoLabel if no such file
    copied,    \* start of the backup that the run completed
    walFast,   \* complete segments in wal_fast
    wal,       \* the segment the primary writes
    pg,        \* PostgreSQL of this node; "dropped": it has lost its stream
    redo,      \* the segment that recovery needs next, 0 if it needs none
    disturbed  \* history: the last run began while another script was at work or
               \* a watcher was about to empty wal_fast

scripts == <<pc, attempt, fd9, owned, killPid, copied>>
files   == <<lockFile, pidFile, label>>
recvs   == <<recv, from, next, watch>>
server  == <<pg, redo>>
vars    == <<scripts, files, recvs, walFast, wal, server, disturbed>>

TypeOK ==
    /\ pc \in [Runs -> {"idle", "clean", "open", "lock", "forked", "pid",
                        "start", "copy", "end", "ok", "failed"}]
    /\ attempt \in [Runs -> 0 .. Retries + 1]
    /\ fd9 \in [Runs -> 0 .. MaxRuns] /\ owned \in [Runs -> BOOLEAN]
    /\ lockFile \in 0 .. MaxRuns /\ pidFile \in 0 .. MaxRuns
    /\ killPid \in [Runs -> 0 .. MaxRuns]
    /\ recv \in [Runs -> {"none", "waiting", "running", "gone"}]
    /\ from \in [Runs -> 0 .. MaxWal] /\ next \in [Runs -> 0 .. MaxWal]
    /\ watch \in [Runs -> {"none", "watching", "cleaning", "gone"}]
    /\ label \in 0 .. MaxWal /\ copied \in [Runs -> 0 .. MaxWal]
    /\ walFast \subseteq 1 .. MaxWal /\ wal \in 1 .. MaxWal
    /\ pg \in {"down", "recovery", "streaming", "dropped"}
    /\ redo \in 0 .. MaxWal /\ disturbed \in BOOLEAN

Init ==
    /\ pc = [s \in Runs |-> "idle"] /\ attempt = [s \in Runs |-> 0]
    /\ fd9 = [s \in Runs |-> 0] /\ owned = [s \in Runs |-> FALSE]
    /\ killPid = [s \in Runs |-> 0] /\ copied = [s \in Runs |-> 0]
    /\ lockFile = 0 /\ pidFile = 0 /\ label = NoLabel
    /\ recv = [s \in Runs |-> "none"] /\ watch = [s \in Runs |-> "none"]
    /\ from = [s \in Runs |-> 0] /\ next = [s \in Runs |-> 0]
    /\ walFast = {} /\ wal = 1 /\ pg = "down" /\ redo = 0
    /\ disturbed = FALSE

Ended(s) == pc[s] \in {"idle", "ok", "failed"}
Alive(s) == recv[s] \in {"waiting", "running"}

\* The lock on a file lasts as long as a process with that descriptor.
Locked(file) ==
    \E s \in Runs : /\ owned[s] /\ fd9[s] = file
                    /\ ~Ended(s) \/ Alive(s) \/ watch[s] \in {"watching", "cleaning"}

Step(s, label1, label2) == pc[s] = label1 /\ pc' = [pc EXCEPT ![s] = label2]

-----------------------------------------------------------------------------
(* The script *)

\* Patroni starts the next run when there is no working replica; the script of a
\* Patroni that was killed goes on meanwhile.
StartRun(s) ==
    /\ Step(s, "idle", "clean")
    /\ \A t \in Runs : t < s => pc[t] # "idle"
    /\ pg = "down"
    /\ disturbed' = \E t \in Runs : ~Ended(t) \/ watch[t] = "cleaning"
    /\ UNCHANGED <<attempt, fd9, owned, killPid, copied, files, recvs, walFast,
                   wal, server>>

\* rm -fr "$DATA_DIR" "${WAL_FAST:?}"/*
RemoveAll(s) ==
    /\ Step(s, "clean", "open")
    /\ label' = NoLabel /\ lockFile' = 0 /\ pidFile' = 0 /\ walFast' = {}
    /\ UNCHANGED <<attempt, fd9, owned, killPid, copied, recvs, wal, server, disturbed>>

\* exec 9>"$WAL_FAST/receivewal.lock"
OpenLock(s) ==
    /\ Step(s, "open", "lock")
    /\ lockFile' = IF lockFile = 0 THEN s ELSE lockFile
    /\ fd9' = [fd9 EXCEPT ![s] = lockFile']
    /\ UNCHANGED <<attempt, owned, killPid, copied, pidFile, label, recvs,
                   walFast, wal, server, disturbed>>

\* flock: the winner forks a receiver, the loser reads the pid of the other's.
TakeLock(s) ==
    /\ \/ /\ ~Locked(fd9[s]) /\ Step(s, "lock", "forked")
          /\ owned' = [owned EXCEPT ![s] = TRUE]
          /\ recv' = [recv EXCEPT ![s] = "waiting"]
          /\ UNCHANGED killPid
       \/ /\ Locked(fd9[s]) /\ Step(s, "lock", "start")
          /\ killPid' = [killPid EXCEPT ![s] = pidFile]
          /\ UNCHANGED <<owned, recv>>
    /\ UNCHANGED <<attempt, fd9, copied, files, from, next, watch, walFast, wal,
                   server, disturbed>>

\* receivewal_pid=$!
KeepPid(s) ==
    /\ Step(s, "forked", "pid")
    /\ killPid' = [killPid EXCEPT ![s] = s]
    /\ UNCHANGED <<attempt, fd9, owned, copied, files, recvs, walFast, wal,
                   server, disturbed>>

WritePid(s) ==
    /\ Step(s, "pid", "start")
    /\ pidFile' = s
    /\ UNCHANGED <<attempt, fd9, owned, killPid, copied, lockFile, label, recvs,
                   walFast, wal, server, disturbed>>

\* pg_basebackup connects and sends backup_label first, or fails before that.
StartBackup(s) ==
    /\ attempt' = [attempt EXCEPT ![s] = @ + 1]
    /\ \/ Step(s, "start", "copy") /\ label' = wal
       \/ Step(s, "start", "end") /\ UNCHANGED label
    /\ UNCHANGED <<fd9, owned, killPid, copied, lockFile, pidFile, recvs,
                   walFast, wal, server, disturbed>>

BackupSucceeds(s) ==
    /\ Step(s, "copy", "ok")
    /\ copied' = [copied EXCEPT ![s] = label]
    /\ UNCHANGED <<attempt, fd9, owned, killPid, files, recvs, walFast, wal, server, disturbed>>

BackupFails(s) ==
    /\ Step(s, "copy", "end")
    /\ UNCHANGED <<attempt, fd9, owned, killPid, copied, files, recvs, walFast,
                   wal, server, disturbed>>

\* kill "$receivewal_pid"
KillReceiver(s) ==
    recv' = [r \in Runs |-> IF r = killPid[s] /\ Alive(r) THEN "gone" ELSE recv[r]]

\* Mutant: the last failure leaves the receiver running.
GiveUp_KeepReceiver(s) ==
    /\ attempt[s] > Retries /\ Step(s, "end", "failed")
    /\ UNCHANGED <<attempt, fd9, owned, killPid, copied, files, recvs, walFast,
                   wal, server, disturbed>>

\* RETRIES + 1 attempts were made: kill the receiver.
GiveUp(s) ==
    /\ attempt[s] > Retries /\ Step(s, "end", "failed")
    /\ KillReceiver(s)
    /\ UNCHANGED <<attempt, fd9, owned, killPid, copied, files, from, next,
                   watch, walFast, wal, server, disturbed>>

\* Remove the partial data directory; the receiver goes on.
Retry(s) ==
    /\ attempt[s] <= Retries /\ Step(s, "end", "start")
    /\ label' = NoLabel
    /\ UNCHANGED <<attempt, fd9, owned, killPid, copied, lockFile, pidFile,
                   recvs, walFast, wal, server, disturbed>>

\* A signal ends the script; once sigterm_handler is installed, after the
\* directories were emptied, it kills the receiver that receivewal_pid names.
Terminate(s) ==
    /\ ~Ended(s)
    /\ pc' = [pc EXCEPT ![s] = "failed"]
    /\ KillReceiver(s)
    /\ UNCHANGED <<attempt, fd9, owned, killPid, copied, files, from, next,
                   watch, walFast, wal, server, disturbed>>

-----------------------------------------------------------------------------
(* start_receivewal and its watcher *)

\* backup_label is there: start the watcher, create the previous segment, full of
\* zeros, so that pg_receivewal starts at the segment of the label.
ReadLabel(s) ==
    /\ recv[s] = "waiting" /\ label # NoLabel
    /\ recv' = [recv EXCEPT ![s] = "running"]
    /\ from' = [from EXCEPT ![s] = label] /\ next' = [next EXCEPT ![s] = label]
    /\ watch' = [watch EXCEPT ![s] = "watching"]
    /\ UNCHANGED <<scripts, files, walFast, wal, server, disturbed>>

\* backup_label is there, but pg_basebackup has not written its text yet.
ReadEmptyLabel(s) ==
    /\ recv[s] = "waiting" /\ label # NoLabel
    /\ \E t \in Runs : pc[t] = "copy"
    /\ recv' = [recv EXCEPT ![s] = "gone"]
    /\ UNCHANGED <<scripts, files, from, next, watch, walFast, wal, server, disturbed>>

Receive(s) ==
    /\ recv[s] = "running" /\ next[s] < wal
    /\ walFast' = walFast \union {next[s]}
    /\ next' = [next EXCEPT ![s] = @ + 1]
    /\ UNCHANGED <<scripts, files, recv, from, watch, wal, server, disturbed>>

\* Mutant: the watcher cleans up as soon as PostgreSQL runs.
WatchStreaming_Recovery(s) ==
    /\ watch[s] = "watching" /\ pg # "down"
    /\ watch' = [watch EXCEPT ![s] = "cleaning"]
    /\ recv' = [recv EXCEPT ![s] = "gone"]
    /\ UNCHANGED <<scripts, files, from, next, walFast, wal, server, disturbed>>

\* The watcher sees a WAL receiver of PostgreSQL and kills pg_receivewal, ...
WatchStreaming(s) ==
    /\ watch[s] = "watching" /\ pg = "streaming"
    /\ watch' = [watch EXCEPT ![s] = "cleaning"]
    /\ recv' = [recv EXCEPT ![s] = "gone"]
    /\ UNCHANGED <<scripts, files, from, next, walFast, wal, server, disturbed>>

\* ... and a second later empties wal_fast.
WatchClean(s) ==
    /\ watch[s] = "cleaning"
    /\ watch' = [watch EXCEPT ![s] = "gone"]
    /\ walFast' = {} /\ lockFile' = 0 /\ pidFile' = 0
    /\ UNCHANGED <<scripts, label, recv, from, next, wal, server, disturbed>>

\* Mutant: the watcher leaves together with the script.
WatchLeave_WithScript(s) ==
    /\ watch[s] = "watching" /\ Ended(s) /\ pg # "streaming"
    /\ watch' = [watch EXCEPT ![s] = "gone"]
    /\ UNCHANGED <<scripts, files, recv, from, next, walFast, wal, server, disturbed>>

\* It leaves if pg_receivewal is not running any more.
WatchLeave(s) ==
    /\ watch[s] = "watching" /\ ~Alive(s) /\ pg # "streaming"
    /\ watch' = [watch EXCEPT ![s] = "gone"]
    /\ UNCHANGED <<scripts, files, recv, from, next, walFast, wal, server, disturbed>>

-----------------------------------------------------------------------------
(* The primary, Patroni and PostgreSQL of the node *)

WriteWal ==
    /\ wal < MaxWal /\ wal' = wal + 1
    /\ UNCHANGED <<scripts, files, recvs, walFast, server, disturbed>>

Last == CHOOSE s \in Runs \union {0} :
          /\ s = 0 \/ pc[s] # "idle"
          /\ \A t \in Runs : t > s => pc[t] = "idle"

\* Patroni starts PostgreSQL on a complete backup; recovery renames the label.
PgStart ==
    /\ pg = "down" /\ Last # 0 /\ pc[Last] = "ok" /\ label # NoLabel
    /\ pg' = "recovery" /\ redo' = copied[Last] /\ label' = NoLabel
    /\ UNCHANGED <<scripts, lockFile, pidFile, recvs, walFast, wal, disturbed>>

\* restore_command.sh moves a segment that is in wal_fast out of it, and fetches
\* another from the archive.
Restore ==
    /\ pg \in {"recovery", "dropped"} /\ redo < wal
    /\ walFast' = walFast \ {redo} /\ redo' = redo + 1
    /\ UNCHANGED <<scripts, files, recvs, wal, pg, disturbed>>

PgStream ==
    /\ pg \in {"recovery", "dropped"} /\ pg' = "streaming" /\ redo' = 0
    /\ UNCHANGED <<scripts, files, recvs, walFast, wal, disturbed>>

\* The stream breaks off: PostgreSQL asks restore_command for what comes next.
PgDrop ==
    /\ pg = "streaming" /\ pg' = "dropped" /\ redo' = wal
    /\ UNCHANGED <<scripts, files, recvs, walFast, wal, disturbed>>

\* PostgreSQL fails: Patroni removes the data directory and makes a new replica.
PgFails ==
    /\ pg # "down" /\ pg' = "down" /\ redo' = 0
    /\ UNCHANGED <<scripts, files, recvs, walFast, wal, disturbed>>

Next ==
    \/ \E s \in Runs :
         \/ StartRun(s) \/ RemoveAll(s) \/ OpenLock(s) \/ TakeLock(s) \/ KeepPid(s)
         \/ WritePid(s) \/ StartBackup(s) \/ BackupSucceeds(s) \/ BackupFails(s)
         \/ GiveUp(s) \/ Retry(s) \/ Terminate(s)
         \/ ReadLabel(s) \/ ReadEmptyLabel(s) \/ Receive(s)
         \/ WatchStreaming(s) \/ WatchClean(s) \/ WatchLeave(s)
    \/ WriteWal \/ PgStart \/ Restore \/ PgStream \/ PgDrop \/ PgFails

Spec == Init /\ [][Next]_vars

\* The watchers poll every second for as long as they live.
FairSpec == Spec /\ \A s \in Runs : WF_vars(WatchStreaming(s))

-----------------------------------------------------------------------------
(* Properties *)

\* While PostgreSQL recovers from the latest backup, every segment it still needs
\* of those its receiver got is in wal_fast, where restore_command.sh looks first;
\* and the zeros created before the receiver's first segment are not among them,
\* also when the backup is not the first attempt the receiver was started for and
\* when receivers and watchers of earlier runs are still about.  A run that began
\* next to another script, or while a watcher was in the second between its kill
\* and its rm (lines 64-65), is excepted: nothing guards it against them.
WalForRecovery ==
    pg = "recovery" /\ from[Last] # 0 /\ ~disturbed =>
      /\ from[Last] <= redo
      /\ redo .. (next[Last] - 1) \subseteq walFast

\* A run that gave up or was told to end has not left a receiver behind (lines 38
\* and 112), even if runs overlap and the pid file names another run's receiver.
\* A signal between the fork and receivewal_pid=$! (lines 91-92) is excepted.
FailedRunLeavesNoReceiver ==
    \A s \in Runs : pc[s] = "failed" /\ killPid[s] # 0 => ~Alive(s)

\* "run pg_receivewal until postgres will not start streaming" (line 57): when
\* PostgreSQL streams for good, every pg_receivewal, of earlier runs too, comes to
\* its end, although a watcher may miss a stream that breaks off.
StreamingEndsReceivewal ==
    <>[](pg = "streaming") => <>[](\A s \in Runs : recv[s] # "running")
=============================================================================
