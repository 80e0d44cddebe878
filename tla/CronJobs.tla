------------------------------ MODULE CronJobs ------------------------------
(***************************************************************************)
(* The two jobs of the crontab that keep something, postgres_backup.sh and *)
(* upload_pg_log_to_s3.py, each in states of its own: they share nothing,  *)
(* so that a behaviour has steps of one of them.                           *)
(***************************************************************************)
EXTENDS BackupRetention

CONSTANTS Week, MaxDay, max_retries

\* Names of log files come round after the days or the hours of a week.  A script
\* may last into the day after the next, whose file must be another one.
ASSUME LogAssumption ==
    /\ Week \in Nat /\ Week >= 3
    /\ MaxDay \in Nat /\ max_retries \in Nat \ {0}

VARIABLES job, today, running, log, logPc, names, archived, attempts, bucket, written,
          rotated, torn

Log == INSTANCE UploadLog WITH pc <- logPc

logVars == <<today, running, log, logPc, names, archived, attempts, bucket, written, rotated, torn>>

JobsInit == job \in {"backup", "log"} /\ Init /\ Log!Init

JobsNext == /\ UNCHANGED job
            /\ \/ job = "backup" /\ Next /\ UNCHANGED logVars
               \/ job = "log" /\ Log!Next /\ UNCHANGED vars

JobsSpec == JobsInit /\ [][JobsNext]_<<vars, logVars, job>>

\* UploadLog: what is uploaded under a date is the log of that day.
UploadedIsThatDay == Log!UploadedIsThatDay
=============================================================================
