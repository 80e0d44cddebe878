---------------------------- MODULE WaleRestore ----------------------------
(***************************************************************************)
(* scripts/wale_restore.sh: Patroni creates a replica from a backup in the *)
(* archive, unless the leader has written so much WAL since that copying   *)
(* the leader is cheaper.  The script asks the archive, then the leader,   *)
(* then fetches LATEST; each answer may be missing, and each is asked for  *)
(* a limited number of times.  Meanwhile the leader goes on and backups    *)
(* are added.                                                              *)
(*                                                                         *)
(* The leader writes segment <<log, seg>> (WalSegment).  Positions are in  *)
(* units of 64 kB, as are the size of the cluster and the thresholds.      *)
(***************************************************************************)
EXTENDS WalSegment

CONSTANTS
    Retries,    \* --retries
    Threshold,  \* --threshold-megabytes
    Percentage, \* --threshold-backup-size-percentage
    Sizes       \* sizes the cluster may have

ASSUME WaleRestoreAssumption ==
    /\ Retries \in Nat /\ Threshold \in Nat /\ Percentage \in Nat
    /\ Sizes \subseteq Nat

NoBackup == 0
Unknown == -1

VARIABLES
    connstr,    \* --connstring is given
    noMaster,   \* --no-master is given
    pc,         \* where the script is
    attempt,    \* ATTEMPT
    backup,     \* wal_segment_backup_start, as the number of a segment
    reached,    \* server_version is known
    diff,       \* diff_in_bytes
    size,       \* cluster_size
    dataDir,    \* what the data directory holds
    fetched,    \* the first segment of the backup in it
    measured,   \* the segment the leader wrote when diff was computed
    code,       \* exit code, Unknown while the script runs
    newest      \* the newest backup in the archive, by its first segment

script == <<pc, attempt, backup, reached, diff, size, dataDir, fetched, measured, code>>
vars   == <<connstr, noMaster, script, newest, position>>

Segments == FirstSegment .. LastSegment
Current == Number(Name(log, seg))

TypeOK ==
    /\ connstr \in BOOLEAN /\ noMaster \in BOOLEAN
    /\ pc \in {"list", "version", "found", "diff", "size", "known", "decide",
               "fetch", "retry", "exit"}
    /\ attempt \in 0 .. Retries
    /\ backup \in Segments \cup {NoBackup} /\ reached \in BOOLEAN
    /\ diff \in {Unknown} \cup {256 * d : d \in 0 .. LastSegment - FirstSegment}
    /\ size \in Sizes \cup {Unknown}
    /\ dataDir \in {"none", "partial", "complete"}
    /\ fetched \in Segments \cup {NoBackup} /\ measured \in Segments \cup {NoBackup}
    /\ code \in {Unknown, 0, 1} /\ newest \in Segments \cup {NoBackup}
    /\ Current \in Segments

\* Without --no-master the connection string is required.
Init ==
    /\ FirstName
    /\ connstr \in BOOLEAN /\ noMaster \in BOOLEAN /\ (noMaster \/ connstr)
    /\ pc = "list" /\ attempt = 0 /\ backup = NoBackup /\ reached = FALSE
    /\ diff = Unknown /\ size = Unknown /\ dataDir = "none"
    /\ fetched = NoBackup /\ measured = NoBackup /\ code = Unknown
    /\ newest = NoBackup

-----------------------------------------------------------------------------
(* The archive and the leader *)

Write == SwitchSegment /\ UNCHANGED <<connstr, noMaster, script, newest>>

\* A backup begun at some earlier segment ends and becomes LATEST.
PushBackup ==
    /\ newest' \in newest + 1 .. Current /\ newest' >= FirstSegment
    /\ UNCHANGED <<connstr, noMaster, script, position>>

-----------------------------------------------------------------------------
(* The script *)

Exit(c) == pc' = "exit" /\ code' = c

\* The end of a loop that asks for two answers: on with both of them, or when
\* there have been enough attempts.
LoopEnd(here, again, on, complete) ==
    /\ pc = here
    /\ IF complete \/ attempt >= Retries
       THEN pc' = on /\ attempt' = 0
       ELSE pc' = again /\ attempt' = attempt + 1
    /\ UNCHANGED <<connstr, noMaster, backup, reached, diff, size, dataDir, fetched,
                   measured, code, newest, position>>

\* backup-list | ... | sort -bk2 | tail -n1, unless the backup is known.
ListBackups ==
    /\ pc = "list" /\ pc' = "version"
    /\ IF backup = NoBackup THEN backup' \in {newest, NoBackup} ELSE UNCHANGED backup
    /\ UNCHANGED <<connstr, noMaster, attempt, reached, diff, size, dataDir, fetched,
                   measured, code, newest, position>>

AskVersion ==
    /\ pc = "version" /\ pc' = "found"
    /\ reached' \in {reached, connstr}
    /\ UNCHANGED <<connstr, noMaster, attempt, backup, diff, size, dataDir, fetched,
                   measured, code, newest, position>>

\* Mutant: a leader that cannot be reached is no reason to give up.
NotFound_BackupOnly == backup = NoBackup

\* Can not find any backups, or failed to reach master
NotFound == backup = NoBackup \/ (~noMaster /\ ~reached)

EndOfSearch ==
    /\ pc = "found" /\ NotFound /\ attempt >= Retries
    /\ Exit(1)
    /\ UNCHANGED <<connstr, noMaster, attempt, backup, reached, diff, size, dataDir,
                   fetched, measured, newest, position>>

\* ATTEMPT is set to 0 before the next loop in either branch.
Search ==
    /\ ~(NotFound /\ attempt >= Retries)
    /\ LoopEnd("found", "list", IF reached THEN "diff" ELSE "fetch",
               backup # NoBackup /\ (reached \/ ~connstr))

\* pg_wal_lsn_diff(pg_current_wal_lsn(), backup_start_lsn)
BytesSince(name) ==
    LET lsn == StartLsn(name.log, name.seg)
    IN 256 * Current - (65536 * lsn.hi + lsn.lo)

AskDifference ==
    /\ pc = "diff" /\ pc' = "size"
    /\ \/ /\ diff = Unknown /\ measured' = Current
          /\ diff' = BytesSince(Name(backup \div 256, backup % 256))
       \/ UNCHANGED <<diff, measured>>
    /\ UNCHANGED <<connstr, noMaster, attempt, backup, reached, size, dataDir, fetched,
                   code, newest, position>>

AskSize ==
    /\ pc = "size" /\ pc' = "known"
    /\ size' \in {size} \cup (IF size = Unknown THEN Sizes ELSE {})
    /\ UNCHANGED <<connstr, noMaster, attempt, backup, reached, diff, dataDir, fetched,
                   measured, code, newest, position>>

Measure == LoopEnd("known", "diff", "decide", diff # Unknown /\ size # Unknown)

\* Mutant: the size of the cluster is not looked at.
Decide_MegabytesOnly ==
    /\ pc = "decide"
    /\ IF diff = Unknown \/ size = Unknown \/ diff > Threshold
       THEN Exit(1)
       ELSE pc' = "fetch" /\ UNCHANGED code
    /\ UNCHANGED <<connstr, noMaster, attempt, backup, reached, diff, size, dataDir,
                   fetched, measured, newest, position>>

\* Without both answers, or above one of the thresholds, the script gives up.
Decide ==
    /\ pc = "decide"
    /\ IF \/ diff = Unknown \/ size = Unknown
          \/ diff > Threshold \/ (size * Percentage) \div 100 < diff
       THEN Exit(1)
       ELSE pc' = "fetch" /\ UNCHANGED code
    /\ UNCHANGED <<connstr, noMaster, attempt, backup, reached, diff, size, dataDir,
                   fetched, measured, newest, position>>

\* backup-fetch LATEST copies the newest backup, or a part of it.
Fetch ==
    /\ pc = "fetch"
    /\ \/ dataDir' = "complete" /\ fetched' = newest /\ Exit(0)
       \/ dataDir' = "partial" /\ pc' = "retry" /\ UNCHANGED <<fetched, code>>
    /\ UNCHANGED <<connstr, noMaster, attempt, backup, reached, diff, size, measured,
                   newest, position>>

\* The data directory is removed only if there is another attempt.
RetryFetch ==
    /\ pc = "retry"
    /\ IF attempt >= Retries
       THEN Exit(1) /\ UNCHANGED <<attempt, dataDir>>
       ELSE /\ pc' = "fetch" /\ attempt' = attempt + 1 /\ dataDir' = "none"
            /\ UNCHANGED code
    /\ UNCHANGED <<connstr, noMaster, backup, reached, diff, size, fetched, measured,
                   newest, position>>

Script ==
    \/ ListBackups \/ AskVersion \/ EndOfSearch \/ Search
    \/ AskDifference \/ AskSize \/ Measure \/ Decide \/ Fetch \/ RetryFetch

Next == Write \/ PushBackup \/ Script

Spec == Init /\ [][Next]_vars

-----------------------------------------------------------------------------
(* Properties *)

\* What has been restored is worth it: when the leader was asked, the WAL to
\* replay from the first segment of the fetched backup on was within both
\* thresholds ("amount of generated wals exceeds", lines 79-82), although
\* LATEST may be another backup by then than the one that was measured.
RestoreIsCheap ==
    code = 0 /\ measured # NoBackup =>
        LET replay == 256 * (measured - fetched)
        IN replay <= Threshold /\ 100 * replay <= size * Percentage

\* Without --no-master no backup is fetched before the leader has answered
\* all the questions (line 57 "Failed to reach master"), and with it the
\* thresholds still hold once the leader has been reached.
NoBlindRestore ==
    pc \in {"fetch", "retry"} \/ code = 0 =>
        /\ backup # NoBackup
        /\ ~noMaster \/ reached => diff # Unknown /\ size # Unknown

=============================================================================
