-------------------------- MODULE BackupRetention ---------------------------
(***************************************************************************)
(* Base backups and their retention: scripts/postgres_backup.sh, started   *)
(* by cron, by launch.sh when a container comes up, and in other pods when *)
(* the role moves there.  Nothing keeps two of them from running at once.  *)
(*                                                                         *)
(* The tool is external: a full backup, or a delta of the latest backup    *)
(* there is when it starts; the list, which shows what is finished; and    *)
(* "delete before FIND_FULL b", which deletes what was started before the  *)
(* full backup that b is or needs, in the order of the starts, while the   *)
(* script sorts by the times of completion.                                *)
(***************************************************************************)
EXTENDS Integers, FiniteSets

CONSTANTS
    Runs,                  \* processes of the script
    BACKUP_NUM_TO_RETAIN,
    Day,                   \* ticks of the clock in a day
    MaxTime,               \* bound on the clock
    MaxBackups             \* bound on the backups started

ASSUME BackupAssumption ==
    /\ BACKUP_NUM_TO_RETAIN \in Nat /\ Day \in Nat \ {0}
    /\ MaxTime \in Nat /\ MaxBackups \in Nat

VARIABLES
    now,       \* the clock
    started,   \* the number of backups started; their names in that order
    archive,   \* the backups in the archive
    pc,        \* of every run: where it is
    pushing,   \* of every run: the backup it is making
    records,   \* of every run: backup_records
    BEFORE,    \* of every run: the backup to delete before, 0: none
    completed, \* history: all backups ever completed
    overlap    \* history: a backup was made while another one was

vars == <<now, started, archive, pc, pushing, records, BEFORE, completed, overlap>>

\* A backup: its name, when it was completed, and the full backup it needs.
Backups == [name : 1 .. MaxBackups, time : 0 .. MaxTime, full : 1 .. MaxBackups]
NoBackup == [name |-> 0, time |-> 0, full |-> 0]

Init ==
    /\ now = 0 /\ started = 0 /\ archive = {} /\ completed = {} /\ overlap = FALSE
    /\ pc = [r \in Runs |-> "idle"] /\ pushing = [r \in Runs |-> NoBackup]
    /\ records = [r \in Runs |-> {}] /\ BEFORE = [r \in Runs |-> 0]

-----------------------------------------------------------------------------

\* Leave at least 2 days of base backups and 2 backups.
Keep == IF BACKUP_NUM_TO_RETAIN < 2 THEN 2 ELSE BACKUP_NUM_TO_RETAIN
DAYS_TO_RETAIN == IF BACKUP_NUM_TO_RETAIN < 2 THEN 2 ELSE BACKUP_NUM_TO_RETAIN

\* (NOW - last_modified) / 86400 >= DAYS_TO_RETAIN, an integer division.
Window == DAYS_TO_RETAIN * Day
Aged(b, time) == time - b.time >= Window

\* The position of a backup in a list sorted by the time of completion, the
\* newest at 0; two of the same time are in any order, here in that of the names.
Index(list, b) == Cardinality({c \in list : c.time > b.time \/ (c.time = b.time /\ c.name > b.name)})

\* Mutant: one backup less is left alone.
Candidates_OneLess(list, time) == {b \in list : Index(list, b) >= Keep - 2 /\ Aged(b, time)}

\* Mutant: a backup is old enough a day earlier.
Candidates_Younger(list, time) == {b \in list : Index(list, b) >= Keep - 1 /\ Aged(b, time + Day)}

\* Those the loop stops at: old enough, and not among the newest; it stops at the
\* first.
Candidates(list, time) == {b \in list : Index(list, b) >= Keep - 1 /\ Aged(b, time)}

Chosen(list, time) ==
    {b \in Candidates(list, time) : \A c \in Candidates(list, time) : Index(list, b) <= Index(list, c)}

\* The latest backup in the archive, as the tool sees it when a delta is started.
Latest == {b \in archive : Index(archive, b) = 0}

\* The tool starts a full backup or a delta of the latest.  In a pod whose role is
\* not the one that backs up, the script ends here and nothing changes.
Start(r) ==
    /\ pc[r] = "idle" /\ started < MaxBackups
    /\ started' = started + 1
    /\ \E full \in {started + 1} \union {b.full : b \in Latest} :
         pushing' = [pushing EXCEPT ![r] = [name |-> started + 1, time |-> 0, full |-> full]]
    /\ pc' = [pc EXCEPT ![r] = "push"]
    /\ overlap' = (overlap \/ \E s \in Runs : pc[s] = "push")
    /\ UNCHANGED <<now, archive, records, BEFORE, completed>>

\* The backup is completed, or not: the exit code is not looked at.
Push(r) ==
    /\ pc[r] = "push"
    /\ \/ LET b == [pushing[r] EXCEPT !.time = now] IN
          archive' = archive \union {b} /\ completed' = completed \union {b}
       \/ UNCHANGED <<archive, completed>>
    /\ pushing' = [pushing EXCEPT ![r] = NoBackup]
    /\ pc' = [pc EXCEPT ![r] = "list"]
    /\ UNCHANGED <<now, started, records, BEFORE, overlap>>

\* The list, empty if it fails.
List(r) ==
    /\ pc[r] = "list"
    /\ records' = [records EXCEPT ![r] = archive] \/ records' = [records EXCEPT ![r] = {}]
    /\ pc' = [pc EXCEPT ![r] = "choose"]
    /\ UNCHANGED <<now, started, archive, pushing, BEFORE, completed, overlap>>

\* NOW and the loop: nothing to delete, or a backup to delete before.
Loop(r) ==
    /\ pc[r] = "choose"
    /\ \/ /\ Chosen(records[r], now) = {} \/ Cardinality(records[r]) <= Keep
          /\ pc' = [pc EXCEPT ![r] = "idle"] /\ UNCHANGED BEFORE
       \/ /\ Cardinality(records[r]) > Keep
          /\ \E b \in Chosen(records[r], now) : BEFORE' = [BEFORE EXCEPT ![r] = b.name]
          /\ pc' = [pc EXCEPT ![r] = "delete"]
    /\ records' = [records EXCEPT ![r] = {}]
    /\ UNCHANGED <<now, started, archive, pushing, completed, overlap>>

\* Mutant: delete before the backup itself, be it a delta.
Deleted_NotFull(b) == {c \in archive : c.name < b.name}

\* delete before FIND_FULL
Deleted(b) == {c \in archive : c.name < b.full}

\* Nothing is deleted if the backup is not there any more.
Delete(r) ==
    /\ pc[r] = "delete"
    /\ archive' = archive \ UNION {Deleted(b) : b \in {c \in archive : c.name = BEFORE[r]}}
    /\ pc' = [pc EXCEPT ![r] = "idle"] /\ BEFORE' = [BEFORE EXCEPT ![r] = 0]
    /\ UNCHANGED <<now, started, pushing, records, completed, overlap>>

\* The container is stopped, or the deletion fails.
Kill(r) ==
    /\ pc[r] # "idle"
    /\ pc' = [pc EXCEPT ![r] = "idle"] /\ pushing' = [pushing EXCEPT ![r] = NoBackup]
    /\ records' = [records EXCEPT ![r] = {}] /\ BEFORE' = [BEFORE EXCEPT ![r] = 0]
    /\ UNCHANGED <<now, started, archive, completed, overlap>>

Tick ==
    /\ now < MaxTime /\ now' = now + 1
    /\ UNCHANGED <<started, archive, pc, pushing, records, BEFORE, completed, overlap>>

Next ==
    \/ \E r \in Runs : Start(r) \/ Push(r) \/ List(r) \/ Loop(r) \/ Delete(r) \/ Kill(r)
    \/ Tick

Spec == Init /\ [][Next]_vars

-----------------------------------------------------------------------------
(* Properties *)

TypeOK ==
    /\ now \in 0 .. MaxTime /\ started \in 0 .. MaxBackups
    /\ archive \subseteq Backups /\ completed \subseteq Backups
    /\ pc \in [Runs -> {"idle", "push", "list", "choose", "delete"}]
    /\ pushing \in [Runs -> [name : 0 .. MaxBackups, time : {0}, full : 0 .. MaxBackups]]
    /\ records \in [Runs -> SUBSET Backups] /\ BEFORE \in [Runs -> 0 .. MaxBackups]
    /\ overlap \in BOOLEAN

\* What can be restored: the backup it is a delta of is still there.
Restorable == {b \in archive : \E f \in archive : f.name = b.full}

\* No delta loses its full backup, neither one that is there nor one being made.
DeltasKeepTheirFull ==
    ~overlap =>
      /\ Restorable = archive
      /\ \A r \in Runs : pc[r] = "push" =>
           pushing[r].full = pushing[r].name \/ \E f \in archive : f.name = pushing[r].full

\* Every moment of the last days that could ever be restored still can: a backup
\* from before them is left ("leave at least 2 days base backups and/or 2 backups"),
\* even if scripts overlap, lists are out of date and pushes and deletions fail.
WindowIsRestorable ==
    LET old == {b \in completed : Aged(b, now)} IN
    old # {} => old \intersect Restorable # {}

\* However many scripts delete from however old a list, as many backups are left as
\* are to be retained, or all there ever were.
EnoughAreLeft ==
    ~overlap => \/ Cardinality(Restorable) >= Keep
                \/ Cardinality(Restorable) >= Cardinality(completed)
=============================================================================
