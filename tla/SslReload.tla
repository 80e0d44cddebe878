----------------------------- MODULE SslReload ------------------------------
(***************************************************************************)
(* scripts/test_reload_ssl.sh: cron starts it every few minutes to reload  *)
(* PostgreSQL when a TLS file differs from the hash stored at the last     *)
(* reload.  Files are rotated by someone else (a mounted Kubernetes        *)
(* secret), one after the other, at any time.                              *)
(*                                                                         *)
(* The content of a file is the number of the rotation that wrote it; a    *)
(* hash is the content it was computed from.                               *)
(***************************************************************************)
EXTENDS Integers, Sequences

CONSTANTS
    Order,        \* the files, in the order in which the script looks at them
    MaxVersion    \* last rotation (bound)

ASSUME SslReloadAssumption ==
    /\ Order \in Seq({"SSL_CA_FILE", "SSL_CRL_FILE", "SSL_CERTIFICATE_FILE",
                      "SSL_PRIVATE_KEY_FILE"})
    /\ {"SSL_CERTIFICATE_FILE", "SSL_PRIVATE_KEY_FILE"} \subseteq
         {Order[i] : i \in DOMAIN Order}
    /\ MaxVersion \in Nat \ {0}

TlsFiles == {Order[i] : i \in DOMAIN Order}
Absent  == 0     \* of disk: there is no such file; of hash: an empty hash file
NoHash  == -1    \* there is no hash file

VARIABLES
    pc,       \* "idle", "check", "reload" or "write"
    at,       \* position in Order of the file being looked at
    disk,     \* content of every file
    hash,     \* content that the stored hash stands for
    sighup,   \* the postmaster was signalled and has not read the files yet
    loaded,   \* content that the server works with
    running,  \* the server runs
    raced,    \* history: a file was replaced between the last signal and the
              \* last of the hashes written after it
    returned  \* history: a file became again what its hash stands for while the
              \* server worked with other files, which it has not left since

vars == <<pc, at, disk, hash, sighup, loaded, running, raced, returned>>

TypeOK ==
    /\ pc \in {"idle", "check", "reload", "write"} /\ at \in DOMAIN Order
    /\ disk \in [TlsFiles -> 0 .. MaxVersion]
    /\ hash \in [TlsFiles -> -1 .. MaxVersion]
    /\ loaded \in [TlsFiles -> 0 .. MaxVersion]
    /\ sighup \in BOOLEAN /\ running \in BOOLEAN
    /\ raced \in BOOLEAN /\ returned \in BOOLEAN

\* A server started with the files of the first rotation; the script has not
\* run in this container.
Init ==
    /\ pc = "idle" /\ at = 1
    /\ disk = [f \in TlsFiles |-> 1] /\ loaded = disk
    /\ hash = [f \in TlsFiles |-> NoHash]
    /\ sighup = FALSE /\ running = TRUE
    /\ raced = FALSE /\ returned = FALSE

\* The server can load the files: the certificate and the key are those of
\* the same rotation.
Consistent ==
    /\ \A f \in TlsFiles : disk[f] # Absent
    /\ disk["SSL_CERTIFICATE_FILE"] = disk["SSL_PRIVATE_KEY_FILE"]

\* Mutant: a file without a hash counts as unchanged.
HasChanged_NoHash(f) ==
    disk[f] # Absent /\ hash[f] # NoHash /\ hash[f] # disk[f]

HasChanged(f) == disk[f] # Absent /\ hash[f] # disk[f]

-----------------------------------------------------------------------------
(* The script *)

Start ==
    /\ pc = "idle" /\ pc' = "check" /\ at' = 1
    /\ UNCHANGED <<disk, hash, sighup, loaded, running, raced, returned>>

\* has_changed A || has_changed B || ...
Check ==
    /\ pc = "check"
    /\ \/ HasChanged(Order[at]) /\ pc' = "reload" /\ UNCHANGED at
       \/ /\ ~HasChanged(Order[at]) /\ at < Len(Order)
          /\ at' = at + 1 /\ UNCHANGED pc
       \/ /\ ~HasChanged(Order[at]) /\ at = Len(Order)
          /\ pc' = "idle" /\ at' = 1
    /\ UNCHANGED <<disk, hash, sighup, loaded, running, raced, returned>>

\* Mutant: the script goes on when pg_ctl fails.
Reload_IgnoreError ==
    /\ pc = "reload" /\ pc' = "write" /\ at' = 1
    /\ sighup' \in {sighup, sighup \/ running} /\ raced' = FALSE
    /\ UNCHANGED <<disk, hash, loaded, running, returned>>

\* pg_ctl reload signals the postmaster and does not wait for it.  It fails
\* when there is no server, or for reasons of its own; set -e then ends the
\* script before a hash is written.
Reload ==
    /\ pc = "reload" /\ at' = 1
    /\ \/ running /\ sighup' = TRUE /\ pc' = "write" /\ raced' = FALSE
       \/ pc' = "idle" /\ UNCHANGED <<sighup, raced>>
    /\ UNCHANGED <<disk, hash, loaded, running, returned>>

\* write_hash computes the hash of what the file is now.  A file that is
\* missing is skipped; one that vanishes under sha256sum leaves an empty hash
\* file and ends the script.
WriteHash ==
    /\ pc = "write"
    /\ \/ /\ hash' = IF disk[Order[at]] = Absent THEN hash
                     ELSE [hash EXCEPT ![Order[at]] = disk[Order[at]]]
          /\ IF at < Len(Order) THEN at' = at + 1 /\ UNCHANGED pc
                                ELSE at' = 1 /\ pc' = "idle"
       \/ /\ disk[Order[at]] = Absent
          /\ hash' = [hash EXCEPT ![Order[at]] = Absent]
          /\ pc' = "idle" /\ at' = 1
    /\ UNCHANGED <<disk, sighup, loaded, running, raced, returned>>

-----------------------------------------------------------------------------
(* The server and whoever rotates the files *)

\* The postmaster reads the files; if they do not fit it keeps the old ones.
ServerReloads ==
    /\ sighup /\ sighup' = FALSE
    /\ IF Consistent THEN loaded' = disk /\ returned' = FALSE
                     ELSE UNCHANGED <<loaded, returned>>
    /\ UNCHANGED <<pc, at, disk, hash, running, raced>>

ServerStops ==
    /\ running /\ running' = FALSE /\ sighup' = FALSE
    /\ UNCHANGED <<pc, at, disk, hash, loaded, raced, returned>>

\* A start reads the files, as they are, or fails.
ServerStarts ==
    /\ ~running /\ Consistent
    /\ running' = TRUE /\ loaded' = disk /\ returned' = FALSE
    /\ UNCHANGED <<pc, at, disk, hash, sighup, raced>>

\* One file is replaced or removed.  The content may be an earlier one.
Rotate(f) ==
    /\ \E v \in (0 .. MaxVersion) \ {disk[f]} :
         /\ disk' = [disk EXCEPT ![f] = v]
         /\ returned' = (returned \/ (v # Absent /\ v = hash[f] /\ disk' # loaded))
    /\ raced' = (raced \/ pc = "write")
    /\ UNCHANGED <<pc, at, hash, sighup, loaded, running>>

Next ==
    \/ Start \/ Check \/ Reload \/ WriteHash
    \/ ServerReloads \/ ServerStops \/ ServerStarts
    \/ \E f \in TlsFiles : Rotate(f)

Spec == Init /\ [][Next]_vars

\* cron starts the script again and again, the script ends, and the server
\* handles the signal or is started again.  pg_ctl does not fail for ever
\* while there is a server to signal.
FairSpec ==
    /\ Spec
    /\ WF_vars(Start) /\ WF_vars(Check) /\ WF_vars(Reload) /\ WF_vars(WriteHash)
    /\ SF_vars(Reload /\ pc' = "write")
    /\ WF_vars(ServerReloads) /\ WF_vars(ServerStarts)

-----------------------------------------------------------------------------
(* Properties *)

\* "check if the spilo or postgres configuration need to be reloaded due to
\* changes in TLS files" (line 3): when no file differs from its hash, which
\* is when the script will do nothing any more, the server works with the
\* files that are there.  There are two exceptions.  A file replaced after the
\* signal and before its hash is taken: the hash is that of a file nobody has
\* loaded.  A file that becomes again what its hash stands for, when the server
\* has meanwhile read others (it was started, or handled the signal late) or
\* did not read this one (another was missing or did not fit).
HashesMatchLoaded ==
    /\ running /\ pc = "idle" /\ ~sighup /\ Consistent /\ ~raced /\ ~returned
    /\ \A f \in TlsFiles : hash[f] = disk[f]
    => loaded = disk

\* A set of files that fit and are not changed again is loaded, also when the
\* server was down for a run of the script, when the script saw half of the
\* rotation, when the files are those of an earlier rotation, and when the
\* script has never run before; with the same exceptions.
RotationIsLoaded ==
    \A v \in 1 .. MaxVersion :
      <>[](~raced /\ ~returned /\ \A f \in TlsFiles : disk[f] = v) =>
        <>[](\A f \in TlsFiles : loaded[f] = v)
=============================================================================
