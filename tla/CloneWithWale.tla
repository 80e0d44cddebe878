--------------------------- MODULE CloneWithWale ---------------------------
(***************************************************************************)
(* bootstrap/clone_with_wale.py: clone a cluster from its archive, up to a *)
(* point in time if one is given.  The archive keeps one prefix per major  *)
(* version; which version the source had at that time is not known.        *)
(*                                                                         *)
(* The source goes on meanwhile: it writes and archives WAL, makes and     *)
(* deletes backups, and is upgraded.  If the script fails, Patroni stops   *)
(* the server, removes the data directory and exits with an error;         *)
(* runit/patroni/finish lets it begin again MAX_RESTARTS - 1 times.        *)
(***************************************************************************)
EXTENDS MaybePgUpgrade, FiniteSetsExt

CONSTANT MaxRestarts   \* MAX_RESTARTS

ASSUME MaxRestartsAssumption == MaxRestarts \in Nat \ {0}

VARIABLES
    pc,       \* where clone_with_wale.py is
    target,   \* --recovery-target-time, None if not given
    begun,    \* when the script last began with an envdir without version
    todo,     \* what get_wale_environments has still to yield
    prefix,   \* the prefix env names, once a backup has been found
    chosen,   \* when the chosen backup ended, None for LATEST
    restarts, \* failed attempts, which runit/patroni/finish counts
    excused,  \* history: the source or a fault gave the attempt a reason to fail
    now,      \* the position of the source
    srcVer,   \* its version
    srcPrefix,\* the prefix it archives to
    srcStart, \* when the backup it is making began, None if it makes none
    archive   \* the backups in the archive

search == <<target, begun, todo, prefix, chosen>>
clone  == <<pc, search, restarts, excused>>
source == <<now, srcVer, srcPrefix, srcStart, archive>>
vars   == <<clone, source, upgradeVars>>

Backups == [prefix : Prefixes, version : Versions, started : Time, modified : Time]

TypeOK ==
    /\ UpgradeTypeOK
    /\ pc \in {"idle", "finding", "fetching", "upgrading"}
    /\ target \in Time \cup {None} /\ begun \in Time \cup {None}
    /\ todo \subseteq Prefixes /\ prefix \in Prefixes /\ chosen \in Time \cup {None}
    /\ restarts \in 0 .. MaxRestarts /\ excused \in BOOLEAN
    /\ now \in Time /\ srcVer \in Versions /\ srcPrefix \in {srcVer, None}
    /\ srcStart \in Time \cup {None} /\ archive \subseteq Backups

Init ==
    /\ UpgradeInit
    /\ pc = "idle" /\ target \in Time \cup {None}
    /\ begun = None /\ todo = {} /\ prefix = None /\ chosen = None
    /\ restarts = 0 /\ excused = TRUE
    /\ now = 1 /\ srcVer \in Versions /\ srcPrefix \in {srcVer, None}
    /\ srcStart = None /\ archive = {}

-----------------------------------------------------------------------------
(* The source cluster and its archive *)

Write ==
    /\ now < MaxTime /\ now' = now + 1
    /\ UNCHANGED <<clone, srcVer, srcPrefix, srcStart, archive, upgradeVars>>

Archive ==
    /\ walEnd[srcPrefix] < now /\ walEnd' = [walEnd EXCEPT ![srcPrefix] = now]
    /\ UNCHANGED <<clone, source, upc, script, server, dirs, position, consistent,
                   envdir, walFrom, faults>>

BeginBackup ==
    /\ srcStart = None /\ srcStart' = now
    /\ UNCHANGED <<clone, now, srcVer, srcPrefix, archive, upgradeVars>>

\* The server waits until the WAL of the backup has been archived.
EndBackup ==
    /\ srcStart # None /\ srcStart' = None
    /\ \A b \in archive : b.modified # now
    /\ archive' = archive \cup {[prefix |-> srcPrefix, version |-> srcVer,
                                 started |-> srcStart, modified |-> now]}
    /\ walEnd' = [walEnd EXCEPT ![srcPrefix] = now]
    /\ UNCHANGED <<clone, now, srcVer, srcPrefix, upc, script, server, dirs,
                   position, consistent, envdir, walFrom, faults>>

\* The oldest backup under its prefix and the WAL that only it needs.
DeleteBackup(b) ==
    LET left == {c \in archive \ {b} : c.prefix = srcPrefix}
    IN /\ b \in archive /\ b.prefix = srcPrefix
       /\ left # {} /\ \A c \in left : c.modified > b.modified
       /\ archive' = archive \ {b} /\ excused' = TRUE
       /\ walFrom' = [walFrom EXCEPT ![srcPrefix] = Min({c.started : c \in left})]
       /\ UNCHANGED <<pc, search, restarts, now, srcVer, srcPrefix, srcStart, upc, script,
                      server, dirs, position, consistent, envdir, walEnd, faults>>

\* A clean shutdown archives everything, then the new version goes on.
UpgradeSource(v) ==
    /\ v > srcVer /\ now < MaxTime
    /\ walEnd' = [walEnd EXCEPT ![srcPrefix] = now]
    /\ walFrom' = [walFrom EXCEPT ![v] = now + 1]
    /\ now' = now + 1 /\ srcVer' = v /\ srcPrefix' = v /\ srcStart' = None
    /\ UNCHANGED <<clone, archive, upc, script, server, dirs, position, consistent,
                   envdir, faults>>

Source ==
    \/ Write \/ Archive \/ BeginBackup \/ EndBackup
    \/ \E b \in archive : DeleteBackup(b)
    \/ \E v \in Versions : UpgradeSource(v)

-----------------------------------------------------------------------------
(* The clone *)

\* get_wale_environments: an envdir that names no version is tried with every
\* version that can be run, in descending order, and then as it is.
Environments ==
    IF envdir = None THEN {v \in Versions : v <= Bin} \cup {None} ELSE {envdir}

Wanted(b) == target = None \/ b.modified < target

Usable == \E b \in archive :
              b.prefix \in Environments /\ b.version <= Bin /\ Wanted(b)

Start ==
    /\ pc = "idle" /\ restarts < MaxRestarts /\ pc' = "finding"
    /\ todo' = Environments
    /\ begun' = IF envdir = None THEN now ELSE begun
    /\ excused' = ~Usable
    /\ UNCHANGED <<target, prefix, chosen, restarts, source, upgradeVars>>

\* Patroni cannot bootstrap and exits with an error; its service is started
\* again, or stopped for good when that has happened MAX_RESTARTS times.
AttemptFails ==
    /\ pc' = "idle" /\ restarts' = restarts + 1
    /\ todo' = {} /\ prefix' = None /\ chosen' = None

Listed(p) == {b \in archive : b.prefix = p}

\* mutant: a backup only has to begin before the target.
Matching_Started(backups) == {b \in backups : b.started < target}

\* choose_backup
Matching(backups) == {b \in backups : b.modified < target}

\* One turn of the loop of find_backup.
FindBackup ==
    /\ pc = "finding" /\ todo # {}
    /\ LET p == Max(todo)
           usable == IF target = None THEN Listed(p) ELSE Matching(Listed(p))
       IN IF usable = {}
          THEN todo' = todo \ {p} /\ UNCHANGED <<pc, prefix, chosen>>
          ELSE /\ pc' = "fetching" /\ prefix' = p
               /\ chosen' = IF target = None THEN None
                            ELSE Max({b.modified : b \in usable})
               /\ todo' = {}
    /\ UNCHANGED <<target, begun, restarts, excused, source, upgradeVars>>

\* backup-list fails, whichever prefix it is at, or there is nothing to be had.
NoBackup ==
    /\ pc = "finding" /\ AttemptFails
    /\ \/ todo = {} /\ UNCHANGED <<faults, excused>>
       \/ Fault("list") /\ excused' = TRUE
    /\ UNCHANGED <<target, begun, source, upc, script, server, dirs, position, consistent,
                   served>>

\* The backup that backup-fetch copies: LATEST is looked up now.
Fetched ==
    {b \in Listed(prefix) :
        IF chosen = None THEN \A c \in Listed(prefix) : c.modified <= b.modified
        ELSE b.modified = chosen}

\* The envdir is written after the copy, then maybe_pg_upgrade.py is called.
FetchBackup ==
    /\ pc = "fetching" /\ pc' = "upgrading"
    /\ \E b \in Fetched :
          /\ version' = b.version /\ dataDir' = "backup"
          /\ position' = b.started /\ consistent' = b.modified
    /\ envdir' = prefix /\ prefix' = None /\ chosen' = None
    /\ upc' = "called" /\ goal' = target /\ binDir' = Bin /\ archiveMode' = TRUE
    /\ UNCHANGED <<target, begun, todo, restarts, excused, source, server, newDir, oldDir,
                   walFrom, walEnd, faults>>

FetchFails ==
    /\ pc = "fetching" /\ AttemptFails
    /\ \/ Fetched = {} /\ UNCHANGED <<faults, excused>>
       \/ Fault("fetch") /\ excused' = TRUE
    /\ UNCHANGED <<target, begun, source, upc, script, server, dirs, position, consistent,
                   served>>

\* The process has ended, and Patroni removes the clone it failed to make; data_new
\* and data_old are not its concern.
PatroniCleansUp ==
    /\ pc = "upgrading" /\ upc = "failed" /\ AttemptFails /\ upc' = "idle"
    /\ srv' = "down" /\ archiving' = FALSE
    /\ dataDir' = "none" /\ version' = None /\ position' = None /\ consistent' = None
    /\ goal' = None /\ binDir' = Bin /\ archiveMode' = TRUE
    /\ UNCHANGED <<target, begun, excused, source, logTail, newDir, oldDir, served, faults>>

Clone == Start \/ FindBackup \/ NoBackup \/ FetchBackup \/ FetchFails \/ PatroniCleansUp

\* A step of maybe_pg_upgrade.py or of its server; one that fails is an excuse.
Upgrade ==
    /\ UpgradeNext
    /\ excused' = (excused \/ faults' # faults)
    /\ UNCHANGED <<pc, search, restarts, source>>

Next == Source \/ Clone \/ Upgrade

Spec == Init /\ [][Next]_vars

\* The script, the server and Patroni go on; the source promises nothing.
FairSpec == Spec /\ WF_vars(Clone) /\ WF_vars(Upgrade)

-----------------------------------------------------------------------------
(* Properties *)

\* choose_backup: "the latest backup file starting before time
\* recovery_target_time" (clone_with_wale.py:68).  The backup that was copied
\* ended before the target, so that the recovery can stop there, and no
\* archive of a version that can be run has a later one which was there when
\* the script began, although the archives are listed one after the other
\* while the source goes on, and LATEST is looked up a second time.
LatestBackup ==
    pc = "upgrading" /\ consistent # None =>
        /\ target # None => consistent < target
        /\ \A b \in archive :
              b.prefix <= Bin /\ Wanted(b) /\ b.modified < begun
                  => b.modified <= consistent

\* An attempt that begins when the archive has a usable backup leads to the clone,
\* with a target that is never reached, with the first, the last or any attempt
\* that runit/patroni/finish grants, and with what failed attempts left in the
\* envdir, in data_new and in data_old; unless one of its steps fails or the
\* source deletes a backup meanwhile.
CloneSucceeds == (pc = "finding" /\ ~excused) ~> (upc = "ok" \/ excused)

=============================================================================
