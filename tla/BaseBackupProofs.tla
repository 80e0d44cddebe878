-------------------------- MODULE BaseBackupProofs --------------------------
(***************************************************************************)
(* Machine-checked proofs about BaseBackup, for every number of runs,      *)
(* retries and WAL segments, and for runs that overlap.                    *)
(***************************************************************************)
EXTENDS BaseBackup, TLAPS

\* What the script of a run knows of the receiver it has started: it would kill
\* this very process and no other run's, unless it has ended, or may end, before it
\* took down the pid.
ReceiverKnown(s) ==
    /\ pc[s] \in {"idle", "clean", "open", "lock", "forked"} => killPid[s] = 0
    /\ Alive(s) => \/ pc[s] = "forked"
                   \/ pc[s] = "failed" /\ killPid[s] = 0
                   \/ killPid[s] = s /\ pc[s] \in {"pid", "start", "copy", "end", "ok"}

\* The part of TypeOK that matters here.
Shape ==
    /\ pc = [s \in Runs |-> pc[s]]
    /\ killPid = [s \in Runs |-> killPid[s]]
    /\ recv = [s \in Runs |-> recv[s]]

IInv == Shape /\ \A s \in Runs : ReceiverKnown(s)

LEMMA InitIInv == Init => IInv
  BY DEF Init, IInv, Shape, ReceiverKnown, Alive

\* No step of a script breaks it: both ways to fail kill the receiver, once its pid
\* has been taken down.
LEMMA ScriptIInv ==
  ASSUME IInv, NEW s \in Runs,
         \/ StartRun(s) \/ RemoveAll(s) \/ OpenLock(s) \/ TakeLock(s)
         \/ KeepPid(s) \/ WritePid(s) \/ StartBackup(s) \/ BackupSucceeds(s)
         \/ BackupFails(s) \/ GiveUp(s) \/ Retry(s) \/ Terminate(s)
  PROVE  IInv'
  <1> USE DEF IInv, Shape, ReceiverKnown, Alive, Step, files, recvs
  <1>1. CASE StartRun(s)
    BY <1>1 DEF StartRun
  <1>2. CASE RemoveAll(s)
    BY <1>2 DEF RemoveAll
  <1>3. CASE OpenLock(s)
    BY <1>3 DEF OpenLock
  <1>4. CASE TakeLock(s)
    BY <1>4 DEF TakeLock
  <1>5. CASE WritePid(s)
    BY <1>5 DEF WritePid
  <1>6. CASE StartBackup(s)
    BY <1>6 DEF StartBackup
  <1>7. CASE BackupSucceeds(s)
    BY <1>7 DEF BackupSucceeds
  <1>8. CASE BackupFails(s)
    BY <1>8 DEF BackupFails
  <1>9. CASE GiveUp(s)
    BY <1>9 DEF GiveUp, KillReceiver
  <1>10. CASE Retry(s)
    BY <1>10 DEF Retry
  <1>11. CASE Terminate(s)
    BY <1>11 DEF Terminate, KillReceiver, Ended
  <1>12. CASE KeepPid(s)
    BY <1>12 DEF KeepPid
  <1> QED
    BY <1>1, <1>2, <1>3, <1>4, <1>5, <1>6, <1>7, <1>8, <1>9, <1>10, <1>11, <1>12

\* Receivers and watchers only ever end a receiver, or let a waiting one run.
LEMMA ReceiverIInv ==
  ASSUME IInv, NEW s \in Runs,
         \/ ReadLabel(s) \/ ReadEmptyLabel(s) \/ Receive(s)
         \/ WatchStreaming(s) \/ WatchClean(s) \/ WatchLeave(s)
  PROVE  IInv'
  BY DEF IInv, Shape, ReceiverKnown, Alive, scripts, ReadLabel, ReadEmptyLabel, Receive,
         WatchStreaming, WatchClean, WatchLeave

EnvStep ==
    \/ WriteWal \/ PgStart \/ Restore \/ PgStream \/ PgDrop \/ PgFails
    \/ UNCHANGED vars

LEMMA EnvironmentIInv == IInv /\ EnvStep => IInv'
  BY DEF IInv, Shape, ReceiverKnown, Alive, EnvStep, WriteWal, PgStart, Restore,
         PgStream, PgDrop, PgFails, vars, scripts, recvs

LEMMA NextIInv == IInv /\ [Next]_vars => IInv'
  BY ScriptIInv, ReceiverIInv, EnvironmentIInv DEF Next, EnvStep

\* A run that gave up, or was told to end after it took down the pid of its
\* pg_receivewal, has not left it behind, also when runs overlap and overwrite each
\* other's pid file.
THEOREM NoReceiverLeft == Spec => []FailedRunLeavesNoReceiver
  <1>1. IInv => FailedRunLeavesNoReceiver
    BY DEF IInv, ReceiverKnown, FailedRunLeavesNoReceiver
  <1> QED
    BY <1>1, InitIInv, NextIInv, PTL DEF Spec

-----------------------------------------------------------------------------
(* Types, and the number of attempts *)

\* The run that was started last.
IsLast(s) == pc[s] # "idle" /\ \A t \in Runs : t > s => pc[t] = "idle"

\* Runs are started in order.
Ordered ==
    /\ \A s, t \in Runs : s < t /\ pc[t] # "idle" => pc[s] # "idle"
    /\ (\A s \in Runs : pc[s] = "idle") \/ (\E s \in Runs : IsLast(s))

\* The attempts are counted where one is started, and only so many are; segments
\* are counted from 1.
Counts ==
    \A s \in Runs :
        /\ pc[s] \in {"idle", "clean", "open", "lock", "forked", "pid"} => attempt[s] = 0
        /\ pc[s] = "start" => attempt[s] <= Retries
        /\ recv[s] = "running" => next[s] > 0

TInv == TypeOK /\ Ordered /\ Counts

RunPC == {"idle", "clean", "open", "lock", "forked", "pid", "start", "copy", "end", "ok",
          "failed"}

LEMMA TInvInit == Init => TInv
  <1> SUFFICES ASSUME Init PROVE TypeOK /\ Ordered /\ Counts
    BY DEF TInv
  <1>1. \A s \in Runs : pc[s] = "idle" /\ attempt[s] = 0 /\ recv[s] = "none"
    BY DEF Init
  <1>2. 0 \in 0 .. MaxRuns /\ 0 \in 0 .. MaxWal /\ 1 \in 1 .. MaxWal /\ 0 \in 0 .. Retries + 1
    BY BaseBackupAssumption
  <1>3. TypeOK
    BY <1>2 DEF Init, TypeOK, NoLabel
  <1>4. Ordered /\ Counts
    BY <1>1 DEF Ordered, Counts
  <1> QED
    BY <1>3, <1>4

\* The numbers, so that the steps below need neither intervals of runs nor bounds.
LEMMA Numbers == Retries \in Nat /\ MaxWal \in Nat /\ 0 \in 0 .. MaxRuns /\ Runs \subseteq 0 .. MaxRuns
  BY BaseBackupAssumption DEF Runs

LEMMA RunsAreNumbers == Runs \subseteq Nat /\ \A s \in Runs : s > 0
  BY DEF Runs

\* Last is the last run, if there is one.
LEMMA LastRun ==
  ASSUME NEW s \in Runs, IsLast(s)
  PROVE  Last = s
  <1>1. /\ s \in Runs \union {0} /\ (s = 0 \/ pc[s] # "idle")
        /\ \A t \in Runs : t > s => pc[t] = "idle"
    BY DEF IsLast
  <1>2. /\ Last \in Runs \union {0} /\ (Last = 0 \/ pc[Last] # "idle")
        /\ \A t \in Runs : t > Last => pc[t] = "idle"
    BY <1>1 DEF Last
  <1> QED
    BY <1>1, <1>2, RunsAreNumbers DEF IsLast

\* PostgreSQL is started on the backup of the last run.
LEMMA StartedOnLast ==
  ASSUME Ordered, PgStart
  PROVE  \E s \in Runs : IsLast(s) /\ pc[s] = "ok" /\ Last = s
  <1>1. ~\A s \in Runs : pc[s] = "idle"
    <2>1. ASSUME \A s \in Runs : pc[s] = "idle" PROVE Last \in Runs \union {0}
      BY <2>1 DEF Last
    <2> QED
      BY <2>1 DEF PgStart
  <1>2. PICK s \in Runs : IsLast(s)
    BY <1>1 DEF Ordered
  <1> QED
    BY <1>2, LastRun DEF PgStart

\* A step of a script leaves the order of the runs alone, once the run has begun.
LEMMA SameOrder ==
  ASSUME Ordered, \A s \in Runs : (pc'[s] = "idle") <=> (pc[s] = "idle")
  PROVE  Ordered' /\ \A s \in Runs : IsLast(s)' <=> IsLast(s)
  BY DEF Ordered, IsLast

LEMMA TInvScript ==
  ASSUME TInv, NEW s \in Runs,
         \/ StartRun(s) \/ RemoveAll(s) \/ OpenLock(s) \/ TakeLock(s)
         \/ KeepPid(s) \/ WritePid(s) \/ StartBackup(s) \/ BackupSucceeds(s)
         \/ BackupFails(s) \/ GiveUp(s) \/ Retry(s) \/ Terminate(s)
  PROVE  TypeOK' /\ Counts'
  <1> USE Numbers DEF TInv, TypeOK, Counts, Step, files, recvs, server, NoLabel
  <1>1. CASE StartRun(s)
    <2>1. disturbed' \in BOOLEAN
      BY <1>1, Zenon DEF StartRun
    <2>2. UNCHANGED <<attempt, fd9, owned, killPid, copied, files, recvs, walFast, wal, server>>
          /\ pc[s] = "idle" /\ pc' = [pc EXCEPT ![s] = "clean"]
      BY <1>1 DEF StartRun
    <2>3. TypeOK'
      BY <2>1, <2>2
    <2>4. Counts'
      BY <2>2
    <2> QED
      BY <2>3, <2>4
  <1>2. CASE RemoveAll(s)
    <2>1. TypeOK'
      BY <1>2 DEF RemoveAll
    <2>2. Counts'
      BY <1>2 DEF RemoveAll
    <2> QED
      BY <2>1, <2>2
  <1>3. CASE OpenLock(s)
    <2>1. TypeOK'
      BY <1>3 DEF OpenLock
    <2>2. Counts'
      BY <1>3 DEF OpenLock
    <2> QED
      BY <2>1, <2>2
  <1>4. CASE TakeLock(s)
    <2>1. /\ UNCHANGED <<attempt, fd9, copied, lockFile, pidFile, label, from, next, watch,
                         walFast, wal, pg, redo, disturbed>>
      BY <1>4 DEF TakeLock
    <2>2. pc' \in [Runs -> RunPC]
      BY <1>4 DEF TakeLock, RunPC
    <2>3. /\ owned' \in [Runs -> BOOLEAN]
          /\ recv' \in [Runs -> {"none", "waiting", "running", "gone"}]
      BY <1>4 DEF TakeLock
    <2>4. killPid' \in [Runs -> 0 .. MaxRuns]
      BY <1>4 DEF TakeLock
    <2>5. Counts'
      <3>1. /\ pc[s] = "lock" /\ pc' = [pc EXCEPT ![s] = pc'[s]] /\ pc'[s] \in {"forked", "start"}
            /\ \A t \in Runs : recv'[t] = "running" => recv[t] = "running"
        BY <1>4 DEF TakeLock
      <3> QED
        BY <2>1, <3>1
    <2> QED
      BY <2>1, <2>2, <2>3, <2>4, <2>5 DEF RunPC
  <1>5. CASE WritePid(s)
    <2>1. TypeOK'
      BY <1>5 DEF WritePid
    <2>2. Counts'
      BY <1>5 DEF WritePid
    <2> QED
      BY <2>1, <2>2
  <1>6. CASE StartBackup(s)
    <2>1. TypeOK'
      BY <1>6 DEF StartBackup
    <2>2. Counts'
      BY <1>6 DEF StartBackup
    <2> QED
      BY <2>1, <2>2
  <1>7. CASE BackupSucceeds(s)
    <2>1. TypeOK'
      BY <1>7 DEF BackupSucceeds
    <2>2. Counts'
      BY <1>7 DEF BackupSucceeds
    <2> QED
      BY <2>1, <2>2
  <1>8. CASE BackupFails(s)
    <2>1. TypeOK'
      BY <1>8 DEF BackupFails
    <2>2. Counts'
      BY <1>8 DEF BackupFails
    <2> QED
      BY <2>1, <2>2
  <1>9. CASE GiveUp(s)
    <2>1. TypeOK'
      BY <1>9 DEF GiveUp, KillReceiver
    <2>2. Counts'
      BY <1>9, <2>1 DEF GiveUp, KillReceiver
    <2> QED
      BY <2>1, <2>2
  <1>10. CASE Retry(s)
    <2>1. TypeOK'
      BY <1>10 DEF Retry
    <2>2. Counts'
      BY <1>10 DEF Retry
    <2> QED
      BY <2>1, <2>2
  <1>11. CASE Terminate(s)
    <2>1. TypeOK'
      BY <1>11 DEF Terminate, KillReceiver
    <2>2. Counts'
      BY <1>11, <2>1 DEF Terminate, KillReceiver
    <2> QED
      BY <2>1, <2>2
  <1>12. CASE KeepPid(s)
    <2>1. TypeOK'
      BY <1>12 DEF KeepPid
    <2>2. Counts'
      BY <1>12 DEF KeepPid
    <2> QED
      BY <2>1, <2>2
  <1> QED
    BY <1>1, <1>2, <1>3, <1>4, <1>5, <1>6, <1>7, <1>8, <1>9, <1>10, <1>11, <1>12

LEMMA TInvReceiver ==
  ASSUME TInv, NEW s \in Runs,
         \/ ReadLabel(s) \/ ReadEmptyLabel(s) \/ Receive(s)
         \/ WatchStreaming(s) \/ WatchClean(s) \/ WatchLeave(s)
  PROVE  TypeOK' /\ Counts'
  <1> USE DEF TInv, TypeOK, scripts, files, server, ReadLabel, ReadEmptyLabel, Receive,
              WatchStreaming, WatchClean, WatchLeave
  <1>1. UNCHANGED <<pc, attempt, fd9, owned, killPid, copied, label, wal, pg, redo, disturbed>>
    OBVIOUS
  <1>2. lockFile' \in 0 .. MaxRuns /\ pidFile' \in 0 .. MaxRuns
    BY Numbers
  <1>3. /\ recv' \in [Runs -> {"none", "waiting", "running", "gone"}]
        /\ watch' \in [Runs -> {"none", "watching", "cleaning", "gone"}]
        /\ from' \in [Runs -> 0 .. MaxWal]
    OBVIOUS
  <1>4. next[s] < wal => next[s] + 1 \in 0 .. MaxWal
    BY Numbers
  <1>5. next' \in [Runs -> 0 .. MaxWal]
    BY <1>4
  <1>6. walFast' \subseteq 1 .. MaxWal
    <2>1. Receive(s) => next[s] \in 1 .. MaxWal
      BY Numbers DEF Counts
    <2> QED
      BY <2>1
  <1>7. Counts'
    BY Numbers DEF Counts, NoLabel
  <1> QED
    BY <1>1, <1>2, <1>3, <1>5, <1>6, <1>7

LEMMA TInvEnvironment == ASSUME TInv, EnvStep PROVE TypeOK' /\ Counts'
  <1> USE DEF EnvStep, WriteWal, PgStart, Restore, PgStream, PgDrop, PgFails, vars, scripts,
              files, recvs, server
  <1>1. UNCHANGED <<scripts, lockFile, pidFile, recvs, disturbed>>
    OBVIOUS
  <1>2. label' \in {label, NoLabel} /\ wal' \in {wal, wal + 1} /\ (wal' = wal + 1 => wal < MaxWal)
    BY DEF TInv, TypeOK
  <1>3. label' \in 0 .. MaxWal /\ wal' \in 1 .. MaxWal
    BY <1>2, Numbers DEF TInv, TypeOK, NoLabel
  <1>4. pg' \in {"down", "recovery", "streaming", "dropped"} /\ walFast' \subseteq 1 .. MaxWal
    BY DEF TInv, TypeOK
  <1>5. redo' \in 0 .. MaxWal
    <2>1. PgStart => copied[Last] \in 0 .. MaxWal
      BY StartedOnLast DEF TInv, TypeOK
    <2>2. PgStart => redo' = copied[Last]
      OBVIOUS
    <2>3. ~PgStart => redo' \in {redo, 0, wal} \/ (redo' = redo + 1 /\ redo < wal)
      OBVIOUS
    <2> QED
      BY <2>1, <2>2, <2>3, Numbers DEF TInv, TypeOK
  <1> QED
    BY <1>1, <1>3, <1>4, <1>5 DEF TInv, TypeOK, Counts

\* StartRun makes its run the last; no other step changes which one that is.
LEMMA OrderStart ==
  ASSUME TInv, NEW s \in Runs, StartRun(s)
  PROVE  Ordered' /\ \A t \in Runs : IsLast(t)' <=> t = s
  <1>1. /\ pc[s] = "idle" /\ pc' = [pc EXCEPT ![s] = "clean"]
        /\ \A t \in Runs : t < s => pc[t] # "idle"
    BY DEF StartRun, Step
  <1>2. \A t \in Runs : t > s => pc[t] = "idle"
    BY <1>1 DEF TInv, Ordered
  <1>3. /\ pc'[s] = "clean" /\ \A t \in Runs \ {s} : pc'[t] = pc[t]
    BY <1>1 DEF TInv, TypeOK
  <1>4. \A t \in Runs : IsLast(t)' <=> t = s
    BY <1>1, <1>2, <1>3, RunsAreNumbers DEF IsLast
  <1>5. \A t, u \in Runs : t < u /\ pc'[u] # "idle" => pc'[t] # "idle"
    BY <1>1, <1>2, <1>3, RunsAreNumbers
  <1> QED
    BY <1>4, <1>5 DEF Ordered

\* The other steps of a script, in short.
LEMMA ScriptMoves ==
  ASSUME TInv, NEW s \in Runs,
         \/ RemoveAll(s) \/ OpenLock(s) \/ TakeLock(s) \/ KeepPid(s)
         \/ WritePid(s) \/ StartBackup(s) \/ BackupSucceeds(s)
         \/ BackupFails(s) \/ GiveUp(s) \/ Retry(s) \/ Terminate(s)
  PROVE  /\ ~Ended(s) /\ UNCHANGED <<from, next, watch, wal, pg, redo, disturbed>>
         /\ \E to \in RunPC \ {"idle", "clean"} : pc' = [pc EXCEPT ![s] = to]
  <1>1. ~Ended(s) /\ UNCHANGED <<from, next, watch, wal, pg, redo, disturbed>>
    BY DEF RemoveAll, OpenLock, TakeLock, KeepPid, WritePid, StartBackup, BackupSucceeds,
           BackupFails, GiveUp, Retry, Terminate, Step, Ended, recvs, server
  <1>2. \E to \in RunPC \ {"idle", "clean"} : pc' = [pc EXCEPT ![s] = to]
    BY DEF RemoveAll, OpenLock, TakeLock, KeepPid, WritePid, StartBackup, BackupSucceeds,
           BackupFails, GiveUp, Retry, Terminate, Step, RunPC
  <1> QED
    BY <1>1, <1>2

LEMMA OrderKept ==
  ASSUME TInv,
         \/ \E s \in Runs :
              \/ RemoveAll(s) \/ OpenLock(s) \/ TakeLock(s) \/ KeepPid(s)
              \/ WritePid(s) \/ StartBackup(s) \/ BackupSucceeds(s)
              \/ BackupFails(s) \/ GiveUp(s) \/ Retry(s) \/ Terminate(s)
         \/ UNCHANGED pc
  PROVE  Ordered' /\ \A s \in Runs : IsLast(s)' <=> IsLast(s)
  <1>1. \A s \in Runs : (pc'[s] = "idle") <=> (pc[s] = "idle")
    <2>1. CASE UNCHANGED pc
      BY <2>1
    <2>2. ASSUME NEW s \in Runs,
                 \/ RemoveAll(s) \/ OpenLock(s) \/ TakeLock(s) \/ KeepPid(s)
                 \/ WritePid(s) \/ StartBackup(s) \/ BackupSucceeds(s)
                 \/ BackupFails(s) \/ GiveUp(s) \/ Retry(s) \/ Terminate(s)
          PROVE  \A t \in Runs : (pc'[t] = "idle") <=> (pc[t] = "idle")
      BY <2>2, ScriptMoves DEF Ended, TInv, TypeOK
    <2> QED
      BY <2>1, <2>2
  <1> QED
    BY <1>1, SameOrder DEF TInv

LEMMA PcKept ==
  ASSUME \/ \E s \in Runs : \/ ReadLabel(s) \/ ReadEmptyLabel(s) \/ Receive(s)
                            \/ WatchStreaming(s) \/ WatchClean(s) \/ WatchLeave(s)
         \/ EnvStep
  PROVE  UNCHANGED <<pc, copied, disturbed>>
  BY DEF ReadLabel, ReadEmptyLabel, Receive, WatchStreaming, WatchClean, WatchLeave, EnvStep,
         WriteWal, PgStart, Restore, PgStream, PgDrop, PgFails, vars, scripts

LEMMA TInvNext == TInv /\ [Next]_vars => TInv'
  <1> SUFFICES ASSUME TInv, [Next]_vars PROVE TInv'
    OBVIOUS
  <1>1. TypeOK' /\ Counts'
    BY TInvScript, TInvReceiver, TInvEnvironment DEF Next, EnvStep
  <1>2. Ordered'
    BY OrderStart, OrderKept, PcKept DEF Next, EnvStep
  <1> QED
    BY <1>1, <1>2 DEF TInv

\* The types of the variables; the script makes Retries + 1 attempts at most.
THEOREM TypeCorrect == Spec => []TypeOK
  <1>1. TInv => TypeOK
    BY DEF TInv
  <1> QED
    BY <1>1, TInvInit, TInvNext, PTL DEF Spec

-----------------------------------------------------------------------------
(* What a replica recovers from *)

\* PostgreSQL runs on the backup of the last run.
ServerInv ==
    pg # "down" => /\ \E s \in Runs : IsLast(s)
                   /\ \A s \in Runs : IsLast(s) => pc[s] = "ok"

\* A receiver starts at a label, and labels are segments that exist.
LabelInv ==
    /\ label <= wal
    /\ \A s \in Runs : /\ from[s] <= wal
                       /\ pc[s] \in {"idle", "clean"} => from[s] = 0 /\ next[s] = 0

\* The backup of the last run has been used: PostgreSQL streams, or did and failed.
Spent ==
    /\ label = NoLabel /\ pg # "recovery"
    /\ \A s \in Runs : IsLast(s) => pc[s] = "ok"

\* If the last run began undisturbed it is the only one at work, and no watcher is
\* about to empty wal_fast before the backup is used.
CalmInv ==
    /\ \A s \in Runs : IsLast(s) \/ Ended(s)
    /\ pg # "down" => label = NoLabel
    /\ \A s \in Runs : watch[s] = "cleaning" => Spent

\* The backup of the last run starts where its receiver has started or later,
\* whichever attempt it is; what the receiver got and recovery still needs is in
\* wal_fast.
LastInv ==
    \A s \in Runs : IsLast(s) =>
        /\ pc[s] = "copy" => label # NoLabel /\ from[s] <= label
        /\ pc[s] = "ok" => from[s] <= copied[s] /\ label \in {NoLabel, copied[s]}
        /\ pg = "recovery" => from[s] <= redo
        /\ pg = "recovery" /\ from[s] # 0 => redo .. (next[s] - 1) \subseteq walFast
        /\ pg = "down" /\ ~Spent /\ from[s] # 0 => from[s] .. (next[s] - 1) \subseteq walFast

UndisturbedInv == ~disturbed => CalmInv /\ LastInv

RInv == TInv /\ IInv /\ ServerInv /\ LabelInv /\ UndisturbedInv

\* The functions and numbers that the steps below are about.
RTypes ==
    /\ pc \in [Runs -> RunPC]
    /\ from \in [Runs -> Nat] /\ next \in [Runs -> Nat] /\ copied \in [Runs -> Nat]
    /\ watch \in [Runs -> {"none", "watching", "cleaning", "gone"}]
    /\ label \in Nat /\ wal \in Nat \ {0} /\ redo \in Nat

LEMMA RTypesHold == TypeOK => RTypes
  BY DEF TypeOK, RTypes, RunPC

LEMMA OnlyLast == \A s, t \in Runs : IsLast(s) /\ IsLast(t) => s = t
  BY RunsAreNumbers DEF IsLast

LEMMA RInvInit == Init => RInv
  <1> SUFFICES ASSUME Init PROVE ServerInv /\ LabelInv /\ CalmInv /\ LastInv
    BY TInvInit, InitIInv DEF RInv, UndisturbedInv
  <1> QED
    BY DEF Init, ServerInv, LabelInv, CalmInv, LastInv, IsLast, Ended, NoLabel

\* A new run starts with nothing received.
LEMMA RStart ==
  ASSUME RTypes, RInv, NEW s \in Runs, StartRun(s)
  PROVE  (ServerInv /\ LabelInv /\ UndisturbedInv)'
  <1>1. /\ pc[s] = "idle" /\ pc' = [pc EXCEPT ![s] = "clean"] /\ pg = "down"
        /\ disturbed' = \E t \in Runs : ~Ended(t) \/ watch[t] = "cleaning"
        /\ UNCHANGED <<label, from, next, watch, copied, walFast, wal, pg, redo>>
    BY DEF StartRun, Step, files, recvs, server
  <1>2. \A t \in Runs : IsLast(t)' <=> t = s
    BY OrderStart DEF RInv
  <1>3. ServerInv'
    BY <1>1 DEF ServerInv
  <1>4. LabelInv'
    BY <1>1 DEF RInv, LabelInv, RTypes
  <1>5. pc'[s] = "clean" /\ from'[s] = 0 /\ \A t \in Runs \ {s} : pc'[t] = pc[t]
    BY <1>1 DEF RInv, LabelInv, RTypes
  <1>6. ASSUME ~disturbed' PROVE CalmInv'
    <2>1. \A t \in Runs : Ended(t) /\ watch[t] # "cleaning"
      BY <1>1, <1>6
    <2> QED
      BY <1>1, <1>2, <1>5, <2>1 DEF CalmInv, Ended
  <1>7. LastInv'
    BY <1>1, <1>2, <1>5 DEF LastInv
  <1> QED
    BY <1>3, <1>4, <1>6, <1>7 DEF UndisturbedInv

\* What the other steps of a script do to labels and to wal_fast: the label of
\* a backup is the segment the primary writes, one that is removed is none.
LEMMA RScript ==
  ASSUME RTypes, RInv, NEW s \in Runs,
         \/ RemoveAll(s) \/ OpenLock(s) \/ TakeLock(s) \/ KeepPid(s)
         \/ WritePid(s) \/ StartBackup(s) \/ BackupSucceeds(s)
         \/ BackupFails(s) \/ GiveUp(s) \/ Retry(s) \/ Terminate(s)
  PROVE  (ServerInv /\ LabelInv /\ UndisturbedInv)'
  <1>1. ~Ended(s) /\ UNCHANGED <<from, next, watch, wal, pg, redo, disturbed>>
    BY ScriptMoves DEF RInv
  <1>2. PICK to \in RunPC \ {"idle", "clean"} : pc' = [pc EXCEPT ![s] = to]
    BY ScriptMoves DEF RInv
  <1>3. pc'[s] = to /\ \A t \in Runs \ {s} : pc'[t] = pc[t]
    BY <1>2 DEF RTypes
  <1>4. /\ to = "copy" => label' = wal
        /\ to = "ok" => pc[s] = "copy" /\ label' = label /\ copied' = [copied EXCEPT ![s] = label]
        /\ label' \in {label, NoLabel, wal}
        /\ walFast' = walFast \/ pc[s] = "clean"
    BY <1>3 DEF RemoveAll, OpenLock, TakeLock, KeepPid, WritePid, StartBackup, BackupSucceeds,
           BackupFails, GiveUp, Retry, Terminate, Step, RTypes, files
  <1>5. \A t \in Runs : IsLast(t)' <=> IsLast(t)
    BY OrderKept DEF RInv
  <1>6. ServerInv'
    BY <1>1, <1>3, <1>5 DEF RInv, ServerInv, Ended
  <1>7. LabelInv'
    BY <1>1, <1>3, <1>4 DEF RInv, LabelInv, RTypes, NoLabel
  <1>8. ASSUME ~disturbed PROVE CalmInv' /\ LastInv'
    <2>1. CalmInv /\ LastInv
      BY <1>8 DEF RInv, UndisturbedInv
    <2>2. IsLast(s) /\ \A t \in Runs : IsLast(t) => t = s
      BY <1>1, <2>1, OnlyLast DEF CalmInv
    <2>3. pg = "down" /\ ~Spent
      BY <1>1, <2>2 DEF RInv, ServerInv, Ended, Spent
    <2>4. CalmInv'
      BY <1>1, <1>3, <1>5, <2>1, <2>2, <2>3 DEF CalmInv, Ended
    <2>5. to = "copy" => label' # NoLabel /\ from'[s] <= label'
      BY <1>1, <1>4 DEF RInv, LabelInv, RTypes, NoLabel
    <2>6. to = "ok" => from'[s] <= copied'[s] /\ label' = copied'[s]
      BY <1>1, <1>4, <2>1, <2>2 DEF LastInv, RTypes
    <2>7. from'[s] # 0 => from'[s] .. (next'[s] - 1) \subseteq walFast'
      BY <1>1, <1>4, <2>1, <2>2, <2>3 DEF RInv, LabelInv, LastInv
    <2>8. LastInv'
      BY <1>1, <1>3, <1>5, <2>2, <2>3, <2>5, <2>6, <2>7 DEF LastInv
    <2> QED
      BY <2>4, <2>8
  <1> QED
    BY <1>1, <1>6, <1>7, <1>8 DEF UndisturbedInv

\* The receiver of any run takes the label there is, and adds to wal_fast.
LEMMA RReceiver ==
  ASSUME RTypes, RInv, NEW s \in Runs, ReadLabel(s) \/ ReadEmptyLabel(s) \/ Receive(s)
  PROVE  (ServerInv /\ LabelInv /\ UndisturbedInv)'
  <1>1. /\ UNCHANGED <<pc, copied, label, wal, pg, redo, disturbed>> /\ walFast \subseteq walFast'
        /\ \A t \in Runs : watch'[t] = "cleaning" => watch[t] = "cleaning"
    BY DEF ReadLabel, ReadEmptyLabel, Receive, RTypes, scripts, files, server
  <1>2. pc[s] \notin {"idle", "clean"}
    BY DEF ReadLabel, ReadEmptyLabel, Receive, RInv, IInv, ReceiverKnown, Alive
  <1>3. \A t \in Runs \ {s} : from'[t] = from[t] /\ next'[t] = next[t]
    BY DEF ReadLabel, ReadEmptyLabel, Receive, RTypes
  <1>4. \/ from'[s] = label /\ next'[s] = label /\ label # NoLabel
        \/ from'[s] = from[s] /\ next'[s] = next[s]
        \/ /\ from'[s] = from[s] /\ next'[s] = next[s] + 1
           /\ walFast' = walFast \union {next[s]}
    BY DEF ReadLabel, ReadEmptyLabel, Receive, RTypes
  <1>5. \A t \in Runs : IsLast(t)' <=> IsLast(t)
    BY <1>1 DEF IsLast
  <1>6. ServerInv'
    BY <1>1, <1>5 DEF RInv, ServerInv
  <1>7. LabelInv'
    BY <1>1, <1>2, <1>3, <1>4 DEF RInv, LabelInv, RTypes
  <1>8. Spent' <=> Spent
    BY <1>1, <1>5 DEF Spent
  <1>9. ASSUME ~disturbed PROVE CalmInv' /\ LastInv'
    <2>1. CalmInv /\ LastInv
      BY <1>9 DEF RInv, UndisturbedInv
    <2>2. CalmInv'
      BY <1>1, <1>5, <1>8, <2>1 DEF CalmInv, Ended
    <2>3. ASSUME NEW t \in Runs, IsLast(t)
          PROVE  /\ pc[t] = "copy" => label # NoLabel /\ from'[t] <= label
                 /\ pc[t] = "ok" => from'[t] <= copied[t] /\ label \in {NoLabel, copied[t]}
                 /\ pg = "recovery" => from'[t] <= redo
                 /\ pg = "recovery" /\ from'[t] # 0 => redo .. (next'[t] - 1) \subseteq walFast'
                 /\ pg = "down" /\ ~Spent /\ from'[t] # 0 =>
                      from'[t] .. (next'[t] - 1) \subseteq walFast'
      <3>1. CASE from'[t] = from[t] /\ next'[t] = next[t]
        BY <1>1, <2>1, <2>3, <3>1 DEF LastInv
      <3>2. CASE t = s /\ from'[s] = label /\ next'[s] = label /\ label # NoLabel
        <4>1. pg = "down"
          BY <2>1, <3>2 DEF CalmInv
        <4> QED
          BY <2>1, <2>3, <3>2, <4>1 DEF LastInv, RTypes
      <3>3. CASE t = s /\ from'[s] = from[s] /\ next'[s] = next[s] + 1
                 /\ walFast' = walFast \union {next[s]}
        BY <2>1, <2>3, <3>3 DEF LastInv, RTypes
      <3> QED
        BY <1>3, <1>4, <3>1, <3>2, <3>3
    <2>4. LastInv'
      BY <1>1, <1>5, <1>8, <2>3 DEF LastInv
    <2> QED
      BY <2>2, <2>4
  <1> QED
    BY <1>1, <1>6, <1>7, <1>9 DEF UndisturbedInv

\* A watcher is about to empty wal_fast only once PostgreSQL has streamed.
LEMMA RWatcher ==
  ASSUME RTypes, RInv, NEW s \in Runs, WatchStreaming(s) \/ WatchClean(s) \/ WatchLeave(s)
  PROVE  (ServerInv /\ LabelInv /\ UndisturbedInv)'
  <1>1. /\ UNCHANGED <<pc, copied, label, from, next, wal, pg, redo, disturbed>>
        /\ \A t \in Runs : watch'[t] = "cleaning" => watch[t] = "cleaning" \/ pg = "streaming"
        /\ walFast' = walFast \/ watch[s] = "cleaning"
    BY DEF WatchStreaming, WatchClean, WatchLeave, RTypes, scripts, files, server
  <1>2. \A t \in Runs : IsLast(t)' <=> IsLast(t)
    BY <1>1 DEF IsLast
  <1>3. ServerInv' /\ LabelInv' /\ (Spent' <=> Spent)
    BY <1>1, <1>2 DEF RInv, ServerInv, LabelInv, Spent
  <1>4. ASSUME ~disturbed PROVE CalmInv' /\ LastInv'
    <2>1. CalmInv /\ LastInv
      BY <1>4 DEF RInv, UndisturbedInv
    <2>2. pg = "streaming" => Spent
      BY <2>1 DEF CalmInv, RInv, ServerInv, Spent
    <2>3. CalmInv'
      BY <1>1, <1>2, <1>3, <2>1, <2>2 DEF CalmInv, Ended
    <2>4. walFast' = walFast \/ Spent
      BY <1>1, <2>1 DEF CalmInv
    <2>5. LastInv'
      BY <1>1, <1>2, <1>3, <2>1, <2>4 DEF LastInv, Spent
    <2> QED
      BY <2>3, <2>5
  <1> QED
    BY <1>1, <1>3, <1>4 DEF UndisturbedInv

\* Recovery starts at the backup, and takes from wal_fast only what it needs next.
LEMMA REnvironment ==
  ASSUME RTypes, RInv, EnvStep
  PROVE  (ServerInv /\ LabelInv /\ UndisturbedInv)'
  <1>1. /\ UNCHANGED <<pc, copied, from, next, watch, disturbed>>
        /\ wal' \in {wal, wal + 1} /\ label' \in {label, NoLabel}
    BY DEF EnvStep, WriteWal, PgStart, Restore, PgStream, PgDrop, PgFails, vars, scripts, files,
           recvs
  <1>2. \A t \in Runs : IsLast(t)' <=> IsLast(t)
    BY <1>1 DEF IsLast
  <1>3. LabelInv'
    BY <1>1 DEF RInv, LabelInv, RTypes, NoLabel
  <1>4. CASE PgStart
    <2>1. PICK s \in Runs : IsLast(s) /\ pc[s] = "ok" /\ Last = s
      BY <1>4, StartedOnLast DEF RInv, TInv
    <2>2. /\ pg = "down" /\ pg' = "recovery" /\ label # NoLabel /\ label' = NoLabel
          /\ redo' = copied[s] /\ walFast' = walFast
      BY <1>4, <2>1 DEF PgStart
    <2>3. \A t \in Runs : IsLast(t) => t = s
      BY <2>1, OnlyLast
    <2>4. ServerInv'
      BY <1>1, <1>2, <2>1, <2>3 DEF ServerInv
    <2>5. ASSUME ~disturbed PROVE CalmInv' /\ LastInv'
      <3>1. CalmInv /\ LastInv
        BY <2>5 DEF RInv, UndisturbedInv
      <3>2. ~Spent
        BY <2>2 DEF Spent
      <3>3. CalmInv'
        BY <1>1, <1>2, <2>2, <3>1, <3>2 DEF CalmInv, Ended
      <3>4. from[s] <= copied[s]
            /\ (from[s] # 0 => from[s] .. (next[s] - 1) \subseteq walFast)
        BY <2>1, <2>2, <3>1, <3>2 DEF LastInv
      <3>5. from[s] # 0 => copied[s] .. (next[s] - 1) \subseteq walFast
        BY <3>4 DEF RTypes
      <3>6. LastInv'
        BY <1>1, <1>2, <2>1, <2>2, <2>3, <3>4, <3>5 DEF LastInv
      <3> QED
        BY <3>3, <3>6
    <2> QED
      BY <1>1, <1>3, <2>4, <2>5 DEF UndisturbedInv
  <1>5. CASE Restore
    <2>1. /\ pg \in {"recovery", "dropped"} /\ redo' = redo + 1 /\ walFast' = walFast \ {redo}
          /\ UNCHANGED <<label, pg>>
      BY <1>5 DEF Restore, files
    <2>2. Spent' <=> Spent
      BY <1>1, <1>2, <2>1 DEF Spent
    <2>3. ServerInv' /\ (CalmInv => CalmInv')
      BY <1>1, <1>2, <2>1, <2>2 DEF RInv, ServerInv, CalmInv, Ended
    <2>4. LastInv => LastInv'
      <3> SUFFICES ASSUME LastInv, NEW t \in Runs, IsLast(t), pg = "recovery"
                   PROVE  /\ from[t] <= redo + 1
                          /\ from[t] # 0 => (redo + 1) .. (next[t] - 1) \subseteq walFast \ {redo}
        BY <1>1, <1>2, <2>1 DEF LastInv
      <3> QED
        BY DEF LastInv, RTypes
    <2> QED
      BY <1>1, <1>3, <2>3, <2>4 DEF RInv, UndisturbedInv
  <1>6. CASE WriteWal \/ PgStream \/ PgDrop \/ PgFails \/ UNCHANGED vars
    <2>1. /\ UNCHANGED <<label, walFast>> /\ (pg' # "down" => pg # "down")
          /\ pg' = "recovery" => pg = "recovery" /\ redo' = redo
          /\ (pg # "down" /\ pg' = "down") \/ pg' = pg \/ pg' \in {"streaming", "dropped"}
      BY <1>6 DEF WriteWal, PgStream, PgDrop, PgFails, vars, files, server
    <2>2. ServerInv'
      BY <1>1, <1>2, <2>1 DEF RInv, ServerInv
    <2>3. ASSUME ~disturbed PROVE CalmInv' /\ LastInv'
      <3>1. CalmInv /\ LastInv
        BY <2>3 DEF RInv, UndisturbedInv
      <3>2. Spent => Spent'
        BY <1>1, <1>2, <2>1 DEF Spent
      <3>3. CalmInv'
        BY <1>1, <1>2, <2>1, <3>1, <3>2 DEF CalmInv, Ended
      <3>4. pg # "down" /\ pg' = "down" => Spent'
        BY <1>1, <1>2, <2>1, <3>1 DEF CalmInv, RInv, ServerInv, Spent
      <3>5. LastInv'
        BY <1>1, <1>2, <2>1, <3>1, <3>2, <3>4 DEF LastInv
      <3> QED
        BY <3>3, <3>5
    <2> QED
      BY <1>1, <1>3, <2>2, <2>3 DEF UndisturbedInv
  <1> QED
    BY <1>4, <1>5, <1>6 DEF EnvStep

LEMMA RInvNext == RInv /\ [Next]_vars => RInv'
  <1> SUFFICES ASSUME RInv, [Next]_vars PROVE RInv'
    OBVIOUS
  <1>1. RTypes
    BY RTypesHold DEF RInv, TInv
  <1>2. (TInv /\ IInv)'
    BY TInvNext, NextIInv DEF RInv
  <1>3. (ServerInv /\ LabelInv /\ UndisturbedInv)'
    BY <1>1, RStart, RScript, RReceiver, RWatcher, REnvironment DEF Next, EnvStep
  <1> QED
    BY <1>2, <1>3 DEF RInv

\* While PostgreSQL recovers, wal_fast has every segment that recovery still needs of
\* those its receiver got, for any number of runs, attempts and segments, whatever
\* receivers and watchers of earlier runs are about and however often a replica that
\* streamed is made anew; a run that began next to another script or next to a
\* watcher about to empty wal_fast is excepted, and said to be by the property.
THEOREM RecoversFromWal == Spec => []WalForRecovery
  <1>1. RInv => WalForRecovery
    <2> SUFFICES ASSUME RInv, pg = "recovery", ~disturbed, from[Last] # 0
                 PROVE  from[Last] <= redo /\ redo .. (next[Last] - 1) \subseteq walFast
      BY DEF WalForRecovery
    <2>1. \E s \in Runs : IsLast(s)
      BY DEF RInv, ServerInv
    <2>2. PICK s \in Runs : IsLast(s)
      BY <2>1
    <2> QED
      BY <2>2, LastRun DEF RInv, UndisturbedInv, LastInv
  <1> QED
    BY <1>1, RInvInit, RInvNext, PTL DEF Spec
=============================================================================
