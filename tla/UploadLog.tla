----------------------------- MODULE UploadLog ------------------------------
(***************************************************************************)
(* The upload of the server's log (scripts/upload_pg_log_to_s3.py), by     *)
(* cron once a day.  The server writes one file for every day of the week, *)
(* and empties it at midnight, if it is running then; the script packs the *)
(* file of yesterday and uploads it under yesterday's date.  The server,   *)
(* gzip and the bucket are external.                                       *)
(*                                                                         *)
(* The content of a file is the set of the days its lines are of.          *)
(***************************************************************************)
EXTENDS Naturals

CONSTANTS
    Week,        \* files in the circle: days in a week, or hours if shipped hourly
    MaxDay,      \* bound on the days
    max_retries

VARIABLES
    today,     \* the day
    running,   \* the server is running
    log,       \* the files of the server, by day of the week
    pc,        \* the script: "idle", "compress" or "upload"
    names,     \* of the script: the file to pack, and the day to name it for
    archived,  \* the packed file
    attempts,  \* uploads that have failed
    bucket,    \* the uploaded files, by day; none is empty
    written,   \* history: days on which the server has written something
    rotated,   \* history: days that began with an empty file
    torn       \* history: days for which gzip has failed

vars == <<today, running, log, pc, names, archived, attempts, bucket, written, rotated, torn>>
server == <<today, running, log, written, rotated>>

Days == 0 .. MaxDay

Init ==
    /\ today = 0 /\ running = TRUE /\ log = [w \in 0 .. Week - 1 |-> {}]
    /\ pc = "idle" /\ names = [log_file |-> 0, day |-> 0] /\ archived = {} /\ attempts = 0
    /\ bucket = [d \in Days |-> {}] /\ written = {} /\ rotated = {0} /\ torn = {}

-----------------------------------------------------------------------------
(* The server *)

\* A run of the script does not last from one day to the day after the next.
Midnight ==
    /\ today < MaxDay /\ (pc # "idle" => names.day + 1 = today)
    /\ today' = today + 1
    /\ \/ /\ running /\ log' = [log EXCEPT ![(today + 1) % Week] = {}]
          /\ rotated' = rotated \union {today + 1}
       \/ ~running /\ UNCHANGED <<log, rotated>>
    /\ UNCHANGED <<running, pc, names, archived, attempts, bucket, written, torn>>

Write ==
    /\ running
    /\ log' = [log EXCEPT ![today % Week] = @ \union {today}]
    /\ written' = written \union {today}
    /\ UNCHANGED <<today, running, pc, names, archived, attempts, bucket, rotated, torn>>

\* A server that starts appends to the file there is.
StartOrStop ==
    /\ running' = ~running
    /\ UNCHANGED <<today, log, pc, names, archived, attempts, bucket, written, rotated, torn>>

-----------------------------------------------------------------------------
(* The script *)

\* Mutant: the file of today under the date of yesterday.
get_file_names_Today == [log_file |-> today % Week, day |-> today - 1]

get_file_names == [log_file |-> (today - 1) % Week, day |-> today - 1]

\* Nothing is done for an empty file.
Start ==
    /\ pc = "idle" /\ today > 0
    /\ names' = get_file_names
    /\ pc' = IF log[get_file_names.log_file] = {} THEN "idle" ELSE "compress"
    /\ attempts' = 0
    /\ UNCHANGED <<server, archived, bucket, torn>>

\* The exit code of gzip is not looked at, whatever it leaves is uploaded.
compress_pg_log ==
    /\ pc = "compress" /\ pc' = "upload"
    /\ \/ archived' = log[names.log_file] /\ UNCHANGED torn
       \/ \E left \in SUBSET log[names.log_file] :
             archived' = left /\ torn' = torn \union {names.day}
    /\ UNCHANGED <<server, names, attempts, bucket>>

\* Uploaded, and the packed file removed.
Uploaded ==
    /\ pc = "upload" /\ pc' = "idle"
    /\ bucket' = [bucket EXCEPT ![names.day] = archived] /\ archived' = {}
    /\ UNCHANGED <<server, names, attempts, torn>>

\* An upload has failed: again, or leave the packed file where it is.
UploadFailed ==
    /\ pc = "upload" /\ attempts' = attempts + 1
    /\ pc' = IF attempts' = max_retries THEN "idle" ELSE "upload"
    /\ UNCHANGED <<server, names, archived, bucket, torn>>

\* The script is killed, or raises.
Killed ==
    /\ pc # "idle" /\ pc' = "idle"
    /\ UNCHANGED <<server, names, archived, attempts, bucket, torn>>

Next ==
    \/ Midnight \/ Write \/ StartOrStop
    \/ Start \/ compress_pg_log \/ Uploaded \/ UploadFailed \/ Killed

Spec == Init /\ [][Next]_vars

-----------------------------------------------------------------------------
(* Properties *)

TypeOK ==
    /\ today \in Days /\ running \in BOOLEAN
    /\ log \in [0 .. Week - 1 -> SUBSET Days]
    /\ pc \in {"idle", "compress", "upload"}
    /\ names \in [log_file : 0 .. Week - 1, day : Days]
    /\ archived \subseteq Days /\ attempts \in 0 .. max_retries
    /\ bucket \in [Days -> SUBSET Days]
    /\ written \subseteq Days /\ rotated \subseteq Days /\ torn \subseteq Days

\* What is uploaded under a date has all the lines of that day, though the names
\* of the files come round every week, and a server that is down at midnight does
\* not empty its file; it has no line of another day, if the server was up then.
\* Where gzip fails, nothing is promised: its exit code is not looked at.
UploadedIsThatDay ==
    \A d \in Days \ torn :
        bucket[d] # {} => /\ (d \in written => d \in bucket[d])
                         /\ (d \in rotated => bucket[d] \subseteq {d})
=============================================================================
