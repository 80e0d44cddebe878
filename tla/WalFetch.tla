------------------------------ MODULE WalFetch ------------------------------
(***************************************************************************)
(* scripts/wal-e-wal-fetch.sh, the restore_command on AWS: recovery asks   *)
(* for one segment after the other; each call downloads the segment, or    *)
(* takes the file an earlier call has prefetched, and leaves background    *)
(* processes behind that prefetch the next ones.  Calls and prefetchers    *)
(* share PREFETCHDIR and nothing else: running/<segment> is a directory a  *)
(* prefetcher works in, <segment> its result.                              *)
(*                                                                         *)
(* A segment is its number (WalSegment models the file names).  Signing    *)
(* of the S3 requests is left out.                                         *)
(***************************************************************************)
EXTENDS Integers

CONSTANTS
    Prefetch,   \* --prefetch
    MaxSegment  \* last segment that is archived or asked for (bound)

ASSUME WalFetchAssumption == Prefetch \in Nat \ {0} /\ MaxSegment \in Nat \ {0}

Segments == 1 .. MaxSegment + Prefetch

VARIABLES
    pc,        \* where the call in progress is, "idle" between calls
    segment,   \* SEGMENT
    cursor,    \* the segment the prefetch loop looks at
    outcome,   \* of the search in PREFETCHDIR: found, absent or stalled
    dest,      \* DESTINATION: "none", "partial" or "complete"
    code,      \* exit code of the last call, -1 while one runs
    archived,  \* the archive holds the segments up to this one
    running,   \* the directories running/<segment>
    files,     \* prefetched segments
    worker     \* prefetcher of every segment

vars == <<pc, segment, cursor, outcome, dest, code, archived, running, files,
          worker>>

TypeOK ==
    /\ pc \in {"idle", "testdir", "testfile", "promote", "size", "promote2",
               "cleardirs", "clearfiles", "get"}
    /\ segment \in 1 .. MaxSegment /\ cursor \in 1 .. MaxSegment + Prefetch + 1
    /\ outcome \in {"none", "found", "absent", "stalled"}
    /\ dest \in {"none", "partial", "complete"}
    /\ code \in {-1, 0, 1} /\ archived \in 0 .. MaxSegment
    /\ running \subseteq Segments /\ files \subseteq Segments
    /\ worker \in [Segments -> {"none", "fetching", "got", "ending"}]

Init ==
    /\ pc = "idle" /\ segment = 1 /\ cursor = 1 /\ outcome = "none"
    /\ dest = "none" /\ code = 1 /\ archived = 0
    /\ running = {} /\ files = {}
    /\ worker = [s \in Segments |-> "none"]

\* PREFETCHES (generate_next_segments)
Window == segment + 1 .. segment + Prefetch

-----------------------------------------------------------------------------
(* One call of the script *)

\* Recovery asks for the next segment, or again for one it did not get.
Call ==
    /\ pc = "idle" /\ (code = 0 => segment < MaxSegment)
    /\ segment' = IF code = 0 THEN segment + 1 ELSE segment
    /\ pc' = "testdir" /\ cursor' = segment' + 1
    /\ dest' = "none" /\ code' = -1
    /\ UNCHANGED <<outcome, archived, running, files, worker>>

\* The prefetch loop goes to the next segment, or ends.
Advance ==
    IF cursor < segment + Prefetch
    THEN pc' = "testdir" /\ cursor' = cursor + 1
    ELSE pc' = "promote" /\ UNCHANGED cursor

\* [[ -d $running || ... ]] && continue
TestDir ==
    /\ pc = "testdir"
    /\ IF cursor \in running THEN Advance ELSE pc' = "testfile" /\ UNCHANGED cursor
    /\ UNCHANGED <<segment, outcome, dest, code, archived, running, files, worker>>

\* Mutant: the result of an earlier prefetch is not looked for.
TestFile_Ignore ==
    /\ pc = "testfile" /\ Advance
    /\ running' = running \union {cursor}
    /\ worker' = [worker EXCEPT ![cursor] = "fetching"]
    /\ UNCHANGED <<segment, outcome, dest, code, archived, files>>

\* [[ ... || -f $PREFETCHDIR/$segment ]] && continue; else start a prefetcher
TestFile ==
    /\ pc = "testfile" /\ Advance
    /\ IF cursor \in files
       THEN UNCHANGED <<running, worker>>
       ELSE /\ running' = running \union {cursor}
            /\ worker' = [worker EXCEPT ![cursor] = "fetching"]
    /\ UNCHANGED <<segment, outcome, dest, code, archived, files>>

\* try_to_promote_prefetched, as the loop condition ("promote") and once more
\* when the directory was found missing ("promote2").  mv is a rename below one
\* directory; when it fails the function is false, as for a missing file.
Promote(from, otherwise) ==
    /\ pc = from
    /\ \/ /\ segment \in files /\ files' = files \ {segment}
          /\ dest' = "complete" /\ outcome' = "found" /\ pc' = "cleardirs"
       \/ pc' = otherwise /\ outcome' = "absent" /\ UNCHANGED <<files, dest>>
    /\ UNCHANGED <<segment, cursor, code, archived, running, worker>>

\* du does not find the running directory: the prefetcher may have ended since
\* the file was looked for.
DirMissing ==
    /\ pc = "size" /\ segment \notin running /\ pc' = "promote2"
    /\ UNCHANGED <<segment, cursor, outcome, dest, code, archived, running, files, worker>>

\* The directory has grown since it was last measured.
DirGrown ==
    /\ pc = "size" /\ segment \in running /\ worker[segment] = "fetching"
    /\ pc' = "promote"
    /\ UNCHANGED <<segment, cursor, outcome, dest, code, archived, running, files, worker>>

\* Mutant: give up waiting only for a prefetcher that is alive.
DirStalled_LiveOnly ==
    /\ pc = "size" /\ segment \in running /\ worker[segment] # "none"
    /\ pc' = "cleardirs" /\ outcome' = "stalled"
    /\ UNCHANGED <<segment, cursor, dest, code, archived, running, files, worker>>

\* It has not grown.
DirStalled ==
    /\ pc = "size" /\ segment \in running
    /\ pc' = "cleardirs" /\ outcome' = "stalled"
    /\ UNCHANGED <<segment, cursor, dest, code, archived, running, files, worker>>

\* Mutant: the directory of a prefetcher at work is spared.
ClearDirs_SpareLive ==
    /\ pc = "cleardirs" /\ pc' = "clearfiles"
    /\ running' = {s \in running : s \in Window \/ worker[s] # "none"}
    /\ UNCHANGED <<segment, cursor, outcome, dest, code, archived, files, worker>>

\* clear_except, first loop: directories outside the window, in use or not
ClearDirs ==
    /\ pc = "cleardirs" /\ pc' = "clearfiles"
    /\ running' = running \intersect Window
    /\ UNCHANGED <<segment, cursor, outcome, dest, code, archived, files, worker>>

\* clear_except, second loop: files outside the window
ClearFiles ==
    /\ pc = "clearfiles"
    /\ files' = files \intersect Window
    /\ IF outcome = "found" THEN pc' = "idle" /\ code' = 0
                           ELSE pc' = "get" /\ UNCHANGED code
    /\ UNCHANGED <<segment, cursor, outcome, dest, archived, running, worker>>

\* s3_get into DESTINATION, which is removed when the download fails
Get ==
    /\ pc = "get"
    /\ \/ /\ segment <= archived /\ dest' = "complete"
          /\ code' = 0 /\ pc' = "idle"
       \/ dest = "none" /\ dest' = "partial" /\ UNCHANGED <<code, pc>>
       \/ dest' = "none" /\ code' = 1 /\ pc' = "idle"
    /\ UNCHANGED <<segment, cursor, outcome, archived, running, files, worker>>

Script ==
    \/ Call \/ TestDir \/ TestFile
    \/ Promote("promote", "size")
    \/ DirMissing \/ DirGrown \/ DirStalled
    \/ Promote("promote2", "cleardirs")
    \/ ClearDirs \/ ClearFiles \/ Get

-----------------------------------------------------------------------------
(* The prefetcher of segment s *)

\* s3_get into a temporary file; when it fails the EXIT trap removes the
\* directory
Download(s) ==
    /\ worker[s] = "fetching"
    /\ \/ s <= archived /\ worker' = [worker EXCEPT ![s] = "got"]
       \/ worker' = [worker EXCEPT ![s] = "ending"]
    /\ UNCHANGED <<pc, segment, cursor, outcome, dest, code, archived, running, files>>

\* Mutant: the result is there before its content.
Rename_InPlace(s) ==
    /\ worker[s] = "fetching"
    /\ worker' = [worker EXCEPT ![s] = "got"]
    /\ files' = files \union {s}
    /\ UNCHANGED <<pc, segment, cursor, outcome, dest, code, archived, running>>

\* mv "$TMPFILE" "$PREFETCHDIR/$segment", which fails if the directory with
\* the temporary file is gone
Rename(s) ==
    /\ worker[s] = "got"
    /\ worker' = [worker EXCEPT ![s] = "ending"]
    /\ files' = IF s \in running THEN files \union {s} ELSE files
    /\ UNCHANGED <<pc, segment, cursor, outcome, dest, code, archived, running>>

ExitTrap(s) ==
    /\ worker[s] = "ending"
    /\ worker' = [worker EXCEPT ![s] = "none"]
    /\ running' = running \ {s}
    /\ UNCHANGED <<pc, segment, cursor, outcome, dest, code, archived, files>>

\* SIGKILL: the directory stays.
Killed(s) ==
    /\ worker[s] # "none"
    /\ worker' = [worker EXCEPT ![s] = "none"]
    /\ UNCHANGED <<pc, segment, cursor, outcome, dest, code, archived, running, files>>

Archive ==
    /\ archived < MaxSegment /\ archived' = archived + 1
    /\ UNCHANGED <<pc, segment, cursor, outcome, dest, code, running, files, worker>>

Next ==
    \/ Script \/ Archive
    \/ \E s \in Segments : Download(s) \/ Rename(s) \/ ExitTrap(s) \/ Killed(s)

Spec == Init /\ [][Next]_vars

\* A call runs to its end, and a download does not grow for ever.  Nothing is
\* assumed of prefetchers.
FairSpec == Spec /\ WF_vars(Script /\ pc # "idle") /\ SF_vars(DirStalled)

-----------------------------------------------------------------------------
(* Properties *)

\* Exit code 0 means that the segment is there, whole, and that the archive
\* has it; recovery would take a half-written file for the end of WAL.
SuccessIsComplete ==
    pc = "idle" /\ code = 0 => dest = "complete" /\ segment <= archived

\* A segment is not downloaded again while its file waits in PREFETCHDIR,
\* although the prefetcher and the two tests are not synchronised (line 197).
NoRefetch == \A s \in Segments : worker[s] \in {"fetching", "got"} => s \notin files

\* After a call, no file outside the window is left, and none turns up later
\* from a prefetcher that is still at work: PREFETCHDIR stays bounded.
NoStalePrefetch == pc = "idle" => files \subseteq Window

\* Every call ends, even if its prefetcher died and left its directory behind.
CallsEnd == (pc # "idle") ~> (pc = "idle")
=============================================================================
