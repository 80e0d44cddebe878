------------------------ MODULE CloneWithWaleProofs ------------------------
(***************************************************************************)
(* Machine-checked proofs about CloneWithWale and MaybePgUpgrade, for any  *)
(* set of versions, any source and any faults: what the clone archives,    *)
(* and in which state it lets pg_upgrade at its data.                      *)
(***************************************************************************)
EXTENDS CloneWithWale, WellFoundedInduction, TLAPS

\* Where the server is the primary on recovered data.
OnPrimary == {"waiting", "post_init", "initdb", "drop", "stop"}

\* The server runs only between its first start and its stop; while it may
\* run on an older version, archive_mode is off, in the configuration (until
\* prepare_new_pgdata restores it) and in the server.
ArchiveInv ==
    /\ archiving \in BOOLEAN /\ archiveMode \in BOOLEAN
    /\ pc # "upgrading" => srv = "down"
    /\ upc \in {"called", "pg_upgrade", "switch", "cleanup", "start"} => srv = "down"
    /\ upc \in Recovery \cup {"post_init", "initdb"} /\ archiveMode => version = Bin
    /\ upc \in {"cleanup", "start", "analyze"} => version = Bin
    /\ srv # "down" /\ archiving => version = Bin

\* A primary has been recovered past the end of its backup, and the script
\* goes on from the recovery only with a primary.
DataInv ==
    /\ pc # "upgrading" => upc = "idle" /\ srv = "down"
    /\ srv = "recovering" => upc \in {"starting", "restarting"}
    /\ upc \in {"starting", "restarting"} /\ srv = "primary" =>
           dataDir = "recovered" /\ position >= consistent
    /\ upc \in OnPrimary =>
           srv = "primary" /\ dataDir = "recovered" /\ position >= consistent
    /\ UpgradeOfCleanData

\* What a clone of the same version has from the start, and what the steps of
\* an upgrade add one after the other.
SuccessInv ==
    /\ upc = "called" => archiveMode /\ binDir = Bin
    /\ upc \in Recovery /\ version = Bin => archiveMode /\ (srv # "down" => archiving)
    /\ upc \in Recovery /\ srv = "primary" => binDir = version
    /\ upc \in {"drop", "stop", "pg_upgrade", "switch", "cleanup", "start"} => archiveMode
    /\ upc \in {"switch", "cleanup", "start", "analyze"} => binDir = Bin
    /\ upc = "switch" => newDir = "upgraded"
    /\ upc \in {"cleanup", "start", "analyze"} => dataDir = "upgraded" /\ newDir = "none"
    /\ upc \in {"start", "analyze"} => ~oldDir
    /\ upc = "analyze" => srv = "primary" /\ archiving
    /\ SuccessIsComplete

-----------------------------------------------------------------------------
(* The source does not touch the clone. *)

LEMMA SourceLeavesClone ==
  Source => UNCHANGED <<pc, upc, script, server, dirs, position, consistent>>
  BY DEF Source, Write, Archive, BeginBackup, EndBackup, DeleteBackup, UpgradeSource,
         clone, upgradeVars

-----------------------------------------------------------------------------
(* Archiving *)

LEMMA InitArchiveInv == Init => ArchiveInv
  BY DEF Init, UpgradeInit, ArchiveInv, Recovery

LEMMA UpgradeArchiveInv == ArchiveInv /\ pc = "upgrading" /\ Upgrade => ArchiveInv'
  <1> SUFFICES ASSUME ArchiveInv, pc = "upgrading", Upgrade
               PROVE  ArchiveInv'
    OBVIOUS
  <1> pc' = pc
    BY DEF Upgrade, clone
  <1> USE DEF ArchiveInv, Recovery, script, server, dirs
  <1>1. CASE Replay
    BY <1>1 DEF Replay
  <1>2. CASE EndsBeforeTarget
    BY <1>2 DEF EndsBeforeTarget
  <1>3. CASE Promote
    BY <1>3 DEF Promote
  <1>4. CASE ServerFails
    BY <1>4 DEF ServerFails
  <1>5. CASE AssertVersion
    BY <1>5 DEF AssertVersion, Raise
  <1>6. CASE PerformPitr
    BY <1>6 DEF PerformPitr, Goes, Starts
  <1>7. CASE BootstrapSucceeds
    BY <1>7 DEF BootstrapSucceeds
  <1>8. CASE RetryWithoutTarget
    BY <1>8 DEF RetryWithoutTarget, Goes, Starts
  <1>9. CASE BootstrapFails
    BY <1>9 DEF BootstrapFails, Raise
  <1>10. CASE WaitEndOfRecovery
    BY <1>10 DEF WaitEndOfRecovery
  <1>11. CASE PostInit
    BY <1>11 DEF PostInit, Raise
  <1>12. CASE PrepareNewPgdata
    BY <1>12 DEF PrepareNewPgdata
  <1>13. CASE DropIncompatibleObjects
    BY <1>13 DEF DropIncompatibleObjects, Raise
  <1>14. CASE StopServer
    BY <1>14 DEF StopServer, Raise
  <1>15. CASE PgUpgrade
    BY <1>15 DEF PgUpgrade
  <1>16. CASE SwitchPgdata
    BY <1>16 DEF SwitchPgdata, Goes
  <1>17. CASE CleanupOldPgdata
    BY <1>17 DEF CleanupOldPgdata
  <1>18. CASE StartUpgraded
    BY <1>18 DEF StartUpgraded, Raise
  <1>19. CASE Analyze
    BY <1>19 DEF Analyze, Raise
  <1> QED
    BY <1>1, <1>2, <1>3, <1>4, <1>5, <1>6, <1>7, <1>8, <1>9, <1>10, <1>11, <1>12,
       <1>13, <1>14, <1>15, <1>16, <1>17, <1>18, <1>19 DEF Upgrade, UpgradeNext

\* Patroni's and the script's own steps: the copy is made with the server
\* down, and the clean-up stops it.
LEMMA CloneArchiveInv == ArchiveInv /\ DataInv /\ Clone => ArchiveInv'
  <1> SUFFICES ASSUME ArchiveInv, DataInv, Clone
               PROVE  ArchiveInv'
    OBVIOUS
  <1> USE DEF ArchiveInv, DataInv, Recovery, script, server, dirs, upgradeVars
  <1>1. CASE Start
    BY <1>1 DEF Start
  <1>2. CASE FindBackup
    <2> UNCHANGED <<upgradeVars, archiving>> /\ pc' # "upgrading" /\ pc = "finding"
      BY <1>2, Zenon DEF FindBackup
    <2> QED
      OBVIOUS
  <1>3. CASE NoBackup
    BY <1>3 DEF NoBackup
  <1>4. CASE FetchBackup
    BY <1>4 DEF FetchBackup
  <1>5. CASE FetchFails
    BY <1>5 DEF FetchFails
  <1>6. CASE PatroniCleansUp
    BY <1>6 DEF PatroniCleansUp
  <1> QED
    BY <1>1, <1>2, <1>3, <1>4, <1>5, <1>6 DEF Clone

-----------------------------------------------------------------------------
(* The data *)

LEMMA InitDataInv == Init => DataInv
  BY DEF Init, UpgradeInit, DataInv, OnPrimary, UpgradeOfCleanData

LEMMA UpgradeDataInv == DataInv /\ pc = "upgrading" /\ Upgrade => DataInv'
  <1> SUFFICES ASSUME DataInv, pc = "upgrading", Upgrade
               PROVE  DataInv'
    OBVIOUS
  <1> pc' = pc
    BY DEF Upgrade, clone
  <1> USE DEF DataInv, OnPrimary, UpgradeOfCleanData, script, server, dirs
  <1>1. CASE Replay
    BY <1>1 DEF Replay
  <1>2. CASE EndsBeforeTarget
    BY <1>2 DEF EndsBeforeTarget
  <1>3. CASE Promote
    BY <1>3 DEF Promote
  <1>4. CASE ServerFails
    BY <1>4 DEF ServerFails
  <1>5. CASE AssertVersion
    BY <1>5 DEF AssertVersion, Raise
  <1>6. CASE PerformPitr
    BY <1>6 DEF PerformPitr, Goes, Starts
  <1>7. CASE BootstrapSucceeds
    BY <1>7 DEF BootstrapSucceeds
  <1>8. CASE RetryWithoutTarget
    BY <1>8 DEF RetryWithoutTarget, Goes, Starts
  <1>9. CASE BootstrapFails
    BY <1>9 DEF BootstrapFails, Raise
  <1>10. CASE WaitEndOfRecovery
    BY <1>10 DEF WaitEndOfRecovery
  <1>11. CASE PostInit
    BY <1>11 DEF PostInit, Raise
  <1>12. CASE PrepareNewPgdata
    BY <1>12 DEF PrepareNewPgdata
  <1>13. CASE DropIncompatibleObjects
    BY <1>13 DEF DropIncompatibleObjects, Raise
  <1>14. CASE StopServer
    BY <1>14 DEF StopServer, Raise
  <1>15. CASE PgUpgrade
    BY <1>15 DEF PgUpgrade
  <1>16. CASE SwitchPgdata
    BY <1>16 DEF SwitchPgdata, Goes
  <1>17. CASE CleanupOldPgdata
    BY <1>17 DEF CleanupOldPgdata
  <1>18. CASE StartUpgraded
    BY <1>18 DEF StartUpgraded, Raise
  <1>19. CASE Analyze
    BY <1>19 DEF Analyze, Raise
  <1> QED
    BY <1>1, <1>2, <1>3, <1>4, <1>5, <1>6, <1>7, <1>8, <1>9, <1>10, <1>11, <1>12,
       <1>13, <1>14, <1>15, <1>16, <1>17, <1>18, <1>19 DEF Upgrade, UpgradeNext

LEMMA CloneDataInv == DataInv /\ ArchiveInv /\ Clone => DataInv'
  <1> SUFFICES ASSUME DataInv, ArchiveInv, Clone
               PROVE  DataInv'
    OBVIOUS
  <1> USE DEF DataInv, OnPrimary, UpgradeOfCleanData, script, server, dirs, upgradeVars
  <1>1. CASE Start
    BY <1>1 DEF Start
  <1>2. CASE FindBackup
    <2> UNCHANGED upgradeVars /\ pc' # "upgrading" /\ pc = "finding"
      BY <1>2, Zenon DEF FindBackup
    <2> QED
      OBVIOUS
  <1>3. CASE NoBackup
    BY <1>3 DEF NoBackup
  <1>4. CASE FetchBackup
    BY <1>4 DEF FetchBackup
  <1>5. CASE FetchFails
    BY <1>5 DEF FetchFails
  <1>6. CASE PatroniCleansUp
    BY <1>6 DEF PatroniCleansUp
  <1> QED
    BY <1>1, <1>2, <1>3, <1>4, <1>5, <1>6 DEF Clone

-----------------------------------------------------------------------------
(* Success *)

LEMMA InitSuccessInv == Init => SuccessInv
  BY DEF Init, UpgradeInit, SuccessInv, Recovery, SuccessIsComplete

LEMMA UpgradeSuccessInv ==
  SuccessInv /\ DataInv /\ ArchiveInv /\ Upgrade => SuccessInv'
  <1> SUFFICES ASSUME SuccessInv, DataInv, ArchiveInv, Upgrade
               PROVE  SuccessInv'
    OBVIOUS
  <1> USE DEF SuccessInv, Recovery, SuccessIsComplete, script, server, dirs
  <1>0. /\ srv = "recovering" => upc \in {"starting", "restarting"}
        /\ upc = "waiting" => dataDir = "recovered"
        /\ upc \in {"cleanup", "start", "analyze"} => version = Bin
    BY DEF DataInv, ArchiveInv, OnPrimary
  <1>1. CASE Replay
    BY <1>0, <1>1 DEF Replay
  <1>2. CASE EndsBeforeTarget
    BY <1>0, <1>2 DEF EndsBeforeTarget
  <1>3. CASE Promote
    BY <1>0, <1>3 DEF Promote
  <1>4. CASE ServerFails
    BY <1>0, <1>4 DEF ServerFails
  <1>5. CASE AssertVersion
    BY <1>0, <1>5 DEF AssertVersion, Raise
  <1>6. CASE PerformPitr
    BY <1>0, <1>6 DEF PerformPitr, Goes, Starts
  <1>7. CASE BootstrapSucceeds
    BY <1>0, <1>7 DEF BootstrapSucceeds
  <1>8. CASE RetryWithoutTarget
    BY <1>0, <1>8 DEF RetryWithoutTarget, Goes, Starts
  <1>9. CASE BootstrapFails
    BY <1>0, <1>9 DEF BootstrapFails, Raise
  <1>10. CASE WaitEndOfRecovery
    BY <1>0, <1>10 DEF WaitEndOfRecovery
  <1>11. CASE PostInit
    BY <1>0, <1>11 DEF PostInit, Raise
  <1>12. CASE PrepareNewPgdata
    BY <1>0, <1>12 DEF PrepareNewPgdata
  <1>13. CASE DropIncompatibleObjects
    BY <1>0, <1>13 DEF DropIncompatibleObjects, Raise
  <1>14. CASE StopServer
    BY <1>0, <1>14 DEF StopServer, Raise
  <1>15. CASE PgUpgrade
    BY <1>0, <1>15 DEF PgUpgrade
  <1>16. CASE SwitchPgdata
    BY <1>0, <1>16 DEF SwitchPgdata, Goes
  <1>17. CASE CleanupOldPgdata
    BY <1>0, <1>17 DEF CleanupOldPgdata
  <1>18. CASE StartUpgraded
    <2>1. archiveMode /\ upc = "start" /\ UNCHANGED <<script, dirs>>
      BY <1>18 DEF StartUpgraded, Raise
    <2>2. \/ upc' = "failed"
          \/ upc' = "analyze" /\ srv' = "primary" /\ archiving' = archiveMode
      BY <1>18 DEF StartUpgraded, Raise
    <2>3. upc' = "analyze" => archiving' = archiveMode
      BY <2>2
    <2>4. upc' = "analyze" => archiving'
      BY <2>1, <2>3, Zenon
    <2> QED
      BY <1>0, <2>1, <2>2, <2>4
  <1>19. CASE Analyze
    BY <1>0, <1>19 DEF Analyze, Raise
  <1> QED
    BY <1>1, <1>2, <1>3, <1>4, <1>5, <1>6, <1>7, <1>8, <1>9, <1>10, <1>11, <1>12,
       <1>13, <1>14, <1>15, <1>16, <1>17, <1>18, <1>19 DEF Upgrade, UpgradeNext

LEMMA CloneSuccessInv == SuccessInv /\ DataInv /\ Clone => SuccessInv'
  <1> SUFFICES ASSUME SuccessInv, DataInv, Clone
               PROVE  SuccessInv'
    OBVIOUS
  <1> USE DEF SuccessInv, Recovery, SuccessIsComplete, script, server, dirs, upgradeVars
  <1>0. pc # "upgrading" => upc = "idle"
    BY DEF DataInv
  <1>1. CASE Start
    BY <1>0, <1>1 DEF Start
  <1>2. CASE FindBackup
    <2> UNCHANGED upgradeVars
      BY <1>2, Zenon DEF FindBackup
    <2> QED
      OBVIOUS
  <1>3. CASE NoBackup
    BY <1>0, <1>3 DEF NoBackup
  <1>4. CASE FetchBackup
    BY <1>0, <1>4 DEF FetchBackup
  <1>5. CASE FetchFails
    BY <1>0, <1>5 DEF FetchFails
  <1>6. CASE PatroniCleansUp
    BY <1>0, <1>6 DEF PatroniCleansUp
  <1> QED
    BY <1>1, <1>2, <1>3, <1>4, <1>5, <1>6 DEF Clone

-----------------------------------------------------------------------------
(* The inductive invariant, and what follows from it *)

IInv == ArchiveInv /\ DataInv /\ SuccessInv

LEMMA NextIInv == IInv /\ [Next]_vars => IInv'
  <1> SUFFICES ASSUME IInv, [Next]_vars
               PROVE  IInv'
    OBVIOUS
  <1> USE DEF IInv
  <1>1. CASE UNCHANGED <<pc, upc, script, server, dirs, position, consistent>>
    BY <1>1 DEF ArchiveInv, DataInv, SuccessInv, Recovery, OnPrimary,
                UpgradeOfCleanData, SuccessIsComplete, script, server, dirs
  <1>2. CASE Source
    BY <1>1, <1>2, SourceLeavesClone
  <1>3. CASE Clone
    BY <1>3, CloneArchiveInv, CloneDataInv, CloneSuccessInv
  <1>4. CASE Upgrade
    <2>1. CASE pc = "upgrading"
      BY <1>4, <2>1, UpgradeArchiveInv, UpgradeDataInv, UpgradeSuccessInv
    <2>2. CASE pc # "upgrading"
      <3>1. upc = "idle" /\ srv = "down"
        BY <2>2 DEF DataInv
      <3>2. ~UpgradeNext
        BY <3>1 DEF UpgradeNext, Replay, EndsBeforeTarget, Promote, ServerFails,
           AssertVersion, PerformPitr, BootstrapSucceeds, RetryWithoutTarget,
           BootstrapFails, WaitEndOfRecovery, PostInit, PrepareNewPgdata,
           DropIncompatibleObjects, StopServer, PgUpgrade, SwitchPgdata,
           CleanupOldPgdata, StartUpgraded, Analyze, Goes
      <3> QED
        BY <1>4, <3>2 DEF Upgrade
    <2> QED
      BY <2>1, <2>2
  <1>5. CASE UNCHANGED vars
    BY <1>1, <1>5 DEF vars, clone, upgradeVars
  <1> QED
    BY <1>2, <1>3, <1>4, <1>5 DEF Next

LEMMA SpecIInv == Spec => []IInv
  <1>1. Init => IInv
    BY InitArchiveInv, InitDataInv, InitSuccessInv DEF IInv
  <1> QED
    BY <1>1, NextIInv, PTL DEF Spec

\* The WAL of an older version never gets into the archive of the clone.
THEOREM NoOldWal == Spec => []OldNeverArchives
  <1>1. IInv => OldNeverArchives
    BY DEF IInv, ArchiveInv, OldNeverArchives
  <1> QED
    BY <1>1, SpecIInv, PTL

\* pg_upgrade only meets recovered data of a server that has been shut down.
THEOREM CleanUpgrade == Spec => []UpgradeOfCleanData
  <1>1. IInv => UpgradeOfCleanData
    BY DEF IInv, DataInv
  <1> QED
    BY <1>1, SpecIInv, PTL

\* Exit code 0 is the truth: whatever failed before, the clone runs the wanted
\* version on recovered data and archives.
THEOREM CompleteSuccess == Spec => []SuccessIsComplete
  <1>1. IInv => SuccessIsComplete
    BY DEF IInv, SuccessInv
  <1> QED
    BY <1>1, SpecIInv, PTL

-----------------------------------------------------------------------------
(* The backup that is copied *)

\* A bounded set of numbers has a last one.
LEMMA MaxIsLast ==
  ASSUME NEW n \in Nat, NEW S, S \subseteq 0 .. n, S # {}
  PROVE  Max(S) \in S /\ \A x \in S : x <= Max(S)
  <1>1. PICK T : T = {n - x : x \in S}
    OBVIOUS
  <1>2. T \subseteq Nat
    <2> SUFFICES ASSUME NEW t \in T PROVE t \in Nat
      OBVIOUS
    <2>1. PICK x \in S : t = n - x
      BY <1>1
    <2>2. x \in 0 .. n
      OBVIOUS
    <2> QED
      BY <2>1, <2>2
  <1>3. T # {}
    BY <1>1
  <1>4. PICK R : R = {ss \in Nat \X Nat : ss[1] < ss[2]}
    OBVIOUS
  <1>5. IsWellFoundedOn(R, Nat)
    BY <1>4, NatLessThanWellFounded DEF OpToRel
  <1>6. PICK t \in T : \A u \in T : <<u, t>> \notin R
    BY <1>2, <1>3, <1>5, WFMin
  <1>7. \A u \in T : t <= u
    <2> TAKE u \in T
    <2>1. u \in Nat /\ t \in Nat
      BY <1>2
    <2>2. u < t => <<u, t>> \in R
      BY <1>4, <2>1
    <2> QED
      BY <1>6, <2>1, <2>2
  <1>8. PICK x \in S : t = n - x
    BY <1>1
  <1>9. \A y \in S : n - y \in T
    BY <1>1
  <1>10. \A y \in S : x >= y
    BY <1>7, <1>8, <1>9
  <1> QED
    BY <1>10 DEF Max

Offers(b) == b.prefix <= Bin /\ Wanted(b) /\ b.modified < begun

\* The source goes from prefix to prefix in the order of time.
SourceInv ==
    /\ now \in Time /\ begun <= now /\ begun \in Nat
    /\ srcVer \in Versions /\ srcPrefix \in {srcVer, None}
    /\ target \in Time \cup {None}
    /\ \A b \in archive : /\ b.prefix \in Prefixes /\ b.modified \in Time
                          /\ b.modified <= now /\ b.prefix <= srcPrefix
                          /\ b.prefix < srcPrefix => b.modified < now
    /\ \A b, c \in archive : b.prefix < c.prefix => b.modified < c.modified

\* No archive of a later version offers anything.
Passed(p) == \A b \in archive : Offers(b) => b.prefix <= p

\* What is still to be listed is all there is up to the last one that has been
\* listed, or the one prefix the envdir names.
FindInv ==
    /\ envdir \in Prefixes /\ envdir <= Bin
    /\ envdir # None => Passed(envdir)
    /\ pc = "finding" =>
         /\ todo \subseteq {p \in Prefixes : p <= Bin}
         /\ todo # {} => \A b \in archive : Offers(b) => \E p \in todo : b.prefix <= p
         /\ \/ todo \subseteq {envdir}
            \/ \A p \in todo, q \in Prefixes : q < p => q \in todo

ChosenInv ==
    pc = "fetching" =>
      /\ prefix \in Prefixes /\ prefix <= Bin /\ Passed(prefix)
      /\ target # None => /\ chosen \in Time /\ chosen < target
                          /\ \A b \in archive : Offers(b) => b.modified <= chosen
      /\ target = None => chosen = None

LatestInv == SourceInv /\ FindInv /\ ChosenInv /\ LatestBackup

LEMMA Numbers == Versions \subseteq Nat \ {0} /\ Bin \in Nat /\ Prefixes \subseteq Nat /\ Time \subseteq Nat
  BY MaybePgUpgradeAssumption DEF Prefixes, None, Time

LEMMA ArchiveTypes ==
  ASSUME LatestInv, NEW b \in archive
  PROVE  b.prefix \in Prefixes /\ b.prefix \in Nat /\ b.modified \in Time /\ b.modified \in Nat
  <1>1. b.prefix \in Prefixes /\ b.modified \in Time
    BY DEF LatestInv, SourceInv
  <1> QED
    BY <1>1, Numbers

LEMMA InitLatest == Init => LatestInv
  <1> SUFFICES ASSUME Init PROVE LatestInv
    OBVIOUS
  <1>1. SourceInv
    BY Numbers, MaybePgUpgradeAssumption DEF Init, SourceInv, None, Time
  <1>2. FindInv /\ ChosenInv
    BY Numbers DEF Init, UpgradeInit, FindInv, ChosenInv, Prefixes, None
  <1>3. LatestBackup
    BY DEF Init, LatestBackup
  <1> QED
    BY <1>1, <1>2, <1>3 DEF LatestInv

\* What the source may do to its archive: a backup ends now, or is deleted.
LEMMA SourceAdds ==
  ASSUME Source
  PROVE  \/ /\ UNCHANGED <<now, srcVer, srcPrefix>>
            /\ \E b : /\ archive' = archive \cup {b} /\ b.prefix = srcPrefix /\ b.modified = now
                      /\ \A c \in archive : c.modified # now
         \/ /\ UNCHANGED <<srcVer, srcPrefix>> /\ archive' \subseteq archive
            /\ now' = now \/ (now < MaxTime /\ now' = now + 1)
         \/ /\ now < MaxTime /\ now' = now + 1 /\ UNCHANGED archive
            /\ srcVer' \in Versions /\ srcVer' > srcVer /\ srcPrefix' = srcVer'
  <1>1. CASE Write \/ Archive \/ BeginBackup
    <2>1. /\ UNCHANGED <<archive, srcVer, srcPrefix>>
          /\ now' = now \/ (now < MaxTime /\ now' = now + 1)
      BY <1>1 DEF Write, Archive, BeginBackup, source
    <2> QED
      BY <2>1
  <1>2. CASE EndBackup
    <2>1. PICK b : b = [prefix |-> srcPrefix, version |-> srcVer, started |-> srcStart, modified |-> now]
      OBVIOUS
    <2>2. /\ UNCHANGED <<now, srcVer, srcPrefix>> /\ archive' = archive \cup {b}
          /\ \A c \in archive : c.modified # now
      BY <1>2, <2>1 DEF EndBackup
    <2>3. b.prefix = srcPrefix /\ b.modified = now
      BY <2>1
    <2> QED
      BY <2>2, <2>3
  <1>3. CASE \E b \in archive : DeleteBackup(b)
    <2>1. archive' \subseteq archive /\ UNCHANGED <<now, srcVer, srcPrefix>>
      BY <1>3 DEF DeleteBackup
    <2> QED
      BY <2>1
  <1>4. CASE \E v \in Versions : UpgradeSource(v)
    <2>1. /\ now < MaxTime /\ now' = now + 1 /\ UNCHANGED archive
          /\ srcVer' \in Versions /\ srcVer' > srcVer /\ srcPrefix' = srcVer'
      BY <1>4 DEF UpgradeSource
    <2> QED
      BY <2>1
  <1> QED
    BY <1>1, <1>2, <1>3, <1>4 DEF Source

LEMMA SourceOrder ==
  ASSUME SourceInv, Source
  PROVE  SourceInv' /\ \A b \in archive' : b \in archive \/ b.modified >= begun
  <1>1. UNCHANGED <<begun, target>>
    BY DEF Source, Write, Archive, BeginBackup, EndBackup, DeleteBackup, UpgradeSource, clone,
       search
  <1>2. /\ begun \in Nat /\ now \in Nat /\ srcPrefix \in Nat /\ srcVer \in Nat /\ MaxTime \in Nat
        /\ begun <= now /\ srcPrefix \in Prefixes
    BY Numbers, MaybePgUpgradeAssumption DEF SourceInv, Time, None, Prefixes
  <1>3. \A b \in archive : b.prefix \in Nat /\ b.modified \in Nat
    BY Numbers DEF SourceInv
  <1> USE DEF SourceInv, Time, None
  <1>4. ASSUME UNCHANGED <<now, srcVer, srcPrefix>>, NEW b, archive' = archive \cup {b},
               b.prefix = srcPrefix, b.modified = now, \A c \in archive : c.modified # now
        PROVE  SourceInv' /\ b.modified >= begun
    <2>1. \A c \in archive : c.prefix <= b.prefix /\ (c.prefix < b.prefix => c.modified < b.modified)
      BY <1>4
    <2>2. \A c, d \in archive' : c.prefix < d.prefix => c.modified < d.modified
      BY <1>2, <1>3, <1>4, <2>1
    <2>3. \A c \in archive' : /\ c.prefix \in Prefixes /\ c.modified \in Time
                              /\ c.modified <= now /\ c.prefix <= srcPrefix
                              /\ c.prefix < srcPrefix => c.modified < now
      BY <1>2, <1>4
    <2> QED
      BY <1>1, <1>2, <1>4, <2>2, <2>3
  <1>5. ASSUME UNCHANGED <<srcVer, srcPrefix>>, archive' \subseteq archive,
               now' = now \/ (now < MaxTime /\ now' = now + 1)
        PROVE  SourceInv'
    <2>1. now' \in Time /\ now <= now'
      BY <1>2, <1>5
    <2>2. \A c \in archive' : /\ c.modified <= now' /\ c.prefix < srcPrefix => c.modified < now'
      BY <1>2, <1>3, <1>5, <2>1
    <2> QED
      BY <1>1, <1>2, <1>5, <2>1, <2>2
  <1>6. ASSUME now < MaxTime, now' = now + 1, UNCHANGED archive, srcVer' \in Versions,
               srcVer' > srcVer, srcPrefix' = srcVer'
        PROVE  SourceInv'
    <2>1. srcPrefix <= srcVer /\ srcVer' \in Nat /\ now' \in Time
      BY <1>2, <1>6, Numbers
    <2>2. \A c \in archive : c.modified < now' /\ c.prefix <= srcPrefix'
      BY <1>2, <1>3, <1>6, <2>1
    <2> QED
      BY <1>1, <1>2, <1>6, <2>1, <2>2
  <1> QED
    BY <1>4, <1>5, <1>6, SourceAdds

\* What the source does takes nothing from what the script has found out.
LEMMA SourceKeepsLatest == ASSUME LatestInv, Source PROVE LatestInv'
  <1>1. SourceInv'
    BY SourceOrder DEF LatestInv
  <1>2. UNCHANGED <<pc, target, begun, todo, prefix, chosen, envdir, consistent>>
    BY DEF Source, Write, Archive, BeginBackup, EndBackup, DeleteBackup, UpgradeSource, clone, search,
       upgradeVars, served
  <1>3. ASSUME NEW b \in archive', Offers(b)' PROVE b \in archive /\ Offers(b)
    <2>1. Offers(b)
      BY <1>2, <1>3 DEF Offers, Wanted
    <2>2. ~ (b.modified >= begun)
      BY <1>1, <1>2, <2>1, MaybePgUpgradeAssumption DEF Offers, SourceInv, Time
    <2> QED
      BY <1>2, <2>1, <2>2, SourceOrder DEF LatestInv
  <1>4. \A p : Passed(p) => Passed(p)'
    BY <1>3 DEF Passed
  <1>5. FindInv' /\ ChosenInv'
    BY <1>2, <1>3, <1>4 DEF LatestInv, FindInv, ChosenInv
  <1>6. LatestBackup'
    BY <1>2, <1>3 DEF LatestInv, LatestBackup, Offers, Wanted
  <1> QED
    BY <1>1, <1>5, <1>6 DEF LatestInv

LEMMA StartKeepsLatest == ASSUME LatestInv, Start PROVE LatestInv'
  <1>1. /\ pc = "idle" /\ pc' = "finding" /\ todo' = Environments
        /\ begun' = IF envdir = None THEN now ELSE begun
        /\ UNCHANGED <<target, now, srcVer, srcPrefix, archive, envdir>>
    BY DEF Start, source, upgradeVars, served
  <1>2. SourceInv'
    BY <1>1, Numbers DEF LatestInv, SourceInv
  <1>3. FindInv'
    <2>1. CASE envdir = None
      <3>1. todo' = {v \in Versions : v <= Bin} \cup {None}
        BY <1>1, <2>1 DEF Environments
      <3>2. todo' = {p \in Prefixes : p <= Bin}
        BY <3>1, Numbers DEF Prefixes, None
      <3>3. \A b \in archive : b.prefix <= Bin => b.prefix \in todo' /\ b.prefix <= b.prefix
        BY <3>2, ArchiveTypes
      <3>4. \A p \in todo', q \in Prefixes : q < p => q \in todo'
        BY <3>2, Numbers
      <3> QED
        BY <1>1, <2>1, <3>2, <3>3, <3>4 DEF LatestInv, FindInv, Offers
    <2>2. CASE envdir # None
      <3>1. todo' = {envdir} /\ begun' = begun
        BY <1>1, <2>2 DEF Environments
      <3>2. Passed(envdir)'
        BY <1>1, <2>2, <3>1 DEF LatestInv, FindInv, Passed, Offers, Wanted
      <3> QED
        BY <1>1, <2>2, <3>1, <3>2 DEF LatestInv, FindInv, Passed
    <2> QED
      BY <2>1, <2>2
  <1> QED
    BY <1>1, <1>2, <1>3 DEF LatestInv, ChosenInv, LatestBackup

\* One prefix listed: nothing there, or the latest backup that can be had.
LEMMA FindKeepsLatest == ASSUME LatestInv, FindBackup PROVE LatestInv'
  <1>0. PICK p : p = Max(todo)
    OBVIOUS
  <1>1. PICK usable : usable = IF target = None THEN Listed(p) ELSE Matching(Listed(p))
    OBVIOUS
  <1>2. /\ pc = "finding" /\ todo # {}
        /\ UNCHANGED <<target, begun, now, srcVer, srcPrefix, archive, envdir>>
    BY DEF FindBackup, source, upgradeVars, served
  <1>3. \/ usable = {} /\ todo' = todo \ {p} /\ UNCHANGED <<pc, prefix, chosen>>
        \/ /\ usable # {} /\ pc' = "fetching" /\ prefix' = p
           /\ chosen' = IF target = None THEN None ELSE Max({b.modified : b \in usable})
    BY <1>0, <1>1, Zenon DEF FindBackup
  <1>4. /\ p \in todo /\ p \in Prefixes /\ p <= Bin /\ \A q \in todo : q <= p
    <2>1. todo \subseteq {q \in Prefixes : q <= Bin}
      BY <1>2 DEF LatestInv, FindInv
    <2>2. todo \subseteq 0 .. Bin
      BY <2>1, Numbers
    <2> QED
      BY <1>0, <1>2, <2>1, <2>2, Numbers, MaxIsLast
  <1>5. Passed(p)
    <2>1. ASSUME NEW b \in archive, Offers(b) PROVE b.prefix <= p
      <3>1. PICK q \in todo : b.prefix <= q
        BY <1>2, <2>1 DEF LatestInv, FindInv
      <3>2. q \in Nat /\ p \in Nat /\ q <= p
        BY <1>2, <1>4, <3>1, Numbers DEF LatestInv, FindInv
      <3> QED
        BY <3>1, <3>2, ArchiveTypes
    <2> QED
      BY <2>1 DEF Passed
  <1>6. usable = {b \in archive : b.prefix = p /\ Wanted(b)}
    BY <1>1 DEF Listed, Matching, Wanted
  <1>7. SourceInv'
    BY <1>2, Numbers DEF LatestInv, SourceInv
  <1>8. Passed(p)' /\ \A q : Passed(q) => Passed(q)'
    BY <1>2, <1>5 DEF Passed, Offers, Wanted
  <1>9. CASE usable = {}
    <2>1. \A b \in archive : Offers(b) => b.prefix # p
      BY <1>6, <1>9 DEF Offers
    <2>2. todo' = todo \ {p} /\ UNCHANGED <<pc, prefix, chosen>>
      BY <1>3, <1>9
    <2>3. ASSUME todo' # {}, NEW b \in archive, Offers(b) PROVE \E q \in todo' : b.prefix <= q
      <3>1. \A q \in todo, r \in Prefixes : r < q => r \in todo
        BY <1>2, <1>4, <2>2, <2>3 DEF LatestInv, FindInv
      <3>2. b.prefix \in Prefixes /\ b.prefix < p
        <4>1. p \in Nat /\ b.prefix \in Nat /\ b.prefix \in Prefixes
          BY <1>4, <2>3, Numbers, ArchiveTypes
        <4>2. b.prefix <= p /\ b.prefix # p
          BY <1>5, <2>1, <2>3 DEF Passed
        <4> QED
          BY <4>1, <4>2
      <3>3. b.prefix \in todo' /\ b.prefix <= b.prefix
        <4>1. b.prefix \in Nat /\ b.prefix # p
          BY <2>1, <2>3, ArchiveTypes
        <4> QED
          BY <1>4, <2>2, <3>1, <3>2, <4>1
      <3> QED
        BY <3>3
    <2>4. \/ todo' \subseteq {envdir}
          \/ \A q \in todo', r \in Prefixes : r < q => r \in todo'
      <3>1. CASE todo \subseteq {envdir}
        BY <2>2, <3>1
      <3>2. CASE \A q \in todo, r \in Prefixes : r < q => r \in todo
        BY <1>2, <1>4, <2>2, <3>2, Numbers DEF LatestInv, FindInv
      <3> QED
        BY <1>2, <3>1, <3>2 DEF LatestInv, FindInv
    <2>5. FindInv'
      BY <1>2, <1>8, <2>2, <2>3, <2>4 DEF LatestInv, FindInv, Offers, Wanted
    <2> QED
      BY <1>2, <1>7, <2>2, <2>5 DEF LatestInv, ChosenInv, LatestBackup
  <1>10. CASE usable # {}
    <2>1. /\ pc' = "fetching" /\ prefix' = p
          /\ chosen' = IF target = None THEN None ELSE Max({b.modified : b \in usable})
      BY <1>3, <1>10
    <2>2. ASSUME target # None
          PROVE  /\ chosen' \in Time /\ chosen' < target
                 /\ \A b \in archive : Offers(b) => b.modified <= chosen'
      <3>1. PICK ends : ends = {b.modified : b \in usable}
        OBVIOUS
      <3>2. ends \subseteq Time /\ ends # {} /\ Time \subseteq 0 .. MaxTime /\ MaxTime \in Nat
        BY <1>6, <1>10, <3>1, MaybePgUpgradeAssumption DEF LatestInv, SourceInv, Time
      <3>3. chosen' \in ends /\ \A t \in ends : t <= chosen'
        BY <2>1, <2>2, <3>1, <3>2, MaxIsLast
      <3>4. PICK c \in usable : chosen' = c.modified
        BY <3>1, <3>3
      <3>5. c \in archive /\ c.prefix = p /\ c.modified < target
        BY <1>6, <2>2, <3>4 DEF Wanted
      <3>6. ASSUME NEW b \in archive, Offers(b) PROVE b.modified <= chosen'
        <4>1. CASE b.prefix = p
          <5>1. b \in usable
            BY <1>6, <3>6, <4>1 DEF Offers
          <5> QED
            BY <3>1, <3>3, <5>1
        <4>2. CASE b.prefix # p
          <5>1. b.prefix < c.prefix
            <6>1. b.prefix \in Nat /\ c.prefix \in Nat
              BY <3>5, <3>6, ArchiveTypes
            <6> QED
              BY <1>5, <3>5, <3>6, <4>2, <6>1 DEF Passed
          <5>2. b.modified < c.modified /\ b.modified \in Nat /\ c.modified \in Nat
            BY <3>5, <5>1, Numbers DEF LatestInv, SourceInv
          <5> QED
            BY <3>4, <5>2
        <4> QED
          BY <4>1, <4>2
      <3> QED
        BY <3>2, <3>3, <3>4, <3>5, <3>6
    <2>3. ChosenInv'
      BY <1>2, <1>4, <1>8, <2>1, <2>2 DEF ChosenInv, Offers, Wanted
    <2>4. FindInv'
      BY <1>2, <1>8, <2>1 DEF LatestInv, FindInv
    <2> QED
      BY <1>7, <2>1, <2>3, <2>4 DEF LatestInv, LatestBackup
  <1> QED
    BY <1>9, <1>10

\* The backup is copied; LATEST is the latest of all, for no archive of a later
\* version offers one.
LEMMA FetchKeepsLatest == ASSUME LatestInv, FetchBackup PROVE LatestInv'
  <1>1. /\ pc = "fetching" /\ pc' = "upgrading" /\ envdir' = prefix
        /\ UNCHANGED <<target, begun, now, srcVer, srcPrefix, archive>>
    BY DEF FetchBackup, source
  <1>2. PICK c \in Fetched : consistent' = c.modified
    BY DEF FetchBackup
  <1>3. c \in archive /\ c.prefix = prefix
    BY DEF Fetched, Listed
  <1>4. SourceInv'
    BY <1>1, Numbers DEF LatestInv, SourceInv
  <1>5. FindInv'
    <2>1. prefix \in Prefixes /\ prefix <= Bin /\ Passed(prefix)
      BY <1>1 DEF LatestInv, ChosenInv
    <2>2. PICK q : q = prefix
      OBVIOUS
    <2>3. Passed(q)'
      BY <1>1, <2>1, <2>2 DEF Passed, Offers, Wanted
    <2> QED
      BY <1>1, <2>1, <2>2, <2>3 DEF FindInv, Passed, Prefixes
  <1>6. LatestBackup'
    <2>1. CASE target # None
      <3>1. c.modified = chosen /\ chosen < target /\ \A b \in archive : Offers(b) => b.modified <= chosen
        BY <1>1, <2>1, Numbers DEF LatestInv, ChosenInv, Fetched, None, Time
      <3> QED
        BY <1>1, <1>2, <3>1 DEF LatestBackup, Offers, Wanted
    <2>2. CASE target = None
      <3>1. \A b \in archive : b.prefix = prefix => b.modified <= c.modified
        BY <1>1, <2>2 DEF LatestInv, ChosenInv, Fetched, Listed
      <3>2. ASSUME NEW b \in archive, Offers(b) PROVE b.modified <= c.modified
        <4>1. b.prefix <= c.prefix
          BY <1>1, <1>3, <3>2 DEF LatestInv, ChosenInv, Passed
        <4>2. b.prefix \in Nat /\ c.prefix \in Nat /\ b.modified \in Nat /\ c.modified \in Nat
              /\ (b.prefix < c.prefix => b.modified < c.modified)
          BY <1>3, Numbers DEF LatestInv, SourceInv
        <4> QED
          BY <1>3, <3>1, <4>1, <4>2
      <3> QED
        BY <1>1, <1>2, <2>2, <3>2 DEF LatestBackup, Offers, Wanted
    <2> QED
      BY <2>1, <2>2
  <1> QED
    BY <1>1, <1>4, <1>5, <1>6 DEF LatestInv, ChosenInv

LEMMA OthersKeepLatest ==
  ASSUME LatestInv, NoBackup \/ FetchFails \/ PatroniCleansUp \/ Upgrade \/ UNCHANGED vars
  PROVE  LatestInv'
  <1>1. UNCHANGED <<target, begun, now, srcVer, srcPrefix, archive, envdir>>
    BY DEF NoBackup, FetchFails, AttemptFails, PatroniCleansUp, Upgrade, UpgradeNext, Replay,
       EndsBeforeTarget, Promote, ServerFails, AssertVersion, PerformPitr, BootstrapSucceeds,
       RetryWithoutTarget, BootstrapFails, WaitEndOfRecovery, PostInit, PrepareNewPgdata,
       DropIncompatibleObjects, StopServer, PgUpgrade, SwitchPgdata, CleanupOldPgdata,
       StartUpgraded, Analyze, Goes, Raise, source, clone, search, vars, upgradeVars, served
  <1>2. pc' = "idle" \/ UNCHANGED <<pc, consistent, prefix, chosen, todo>>
    BY DEF NoBackup, FetchFails, AttemptFails, PatroniCleansUp, Upgrade, UpgradeNext, Replay,
       EndsBeforeTarget, Promote, ServerFails, AssertVersion, PerformPitr, BootstrapSucceeds,
       RetryWithoutTarget, BootstrapFails, WaitEndOfRecovery, PostInit, PrepareNewPgdata,
       DropIncompatibleObjects, StopServer, PgUpgrade, SwitchPgdata, CleanupOldPgdata,
       StartUpgraded, Analyze, Goes, Raise, source, clone, search, vars, upgradeVars, served
  <1>3. \A b : Offers(b)' = Offers(b)
    BY <1>1 DEF Offers, Wanted
  <1>4. SourceInv'
    BY <1>1, Numbers DEF LatestInv, SourceInv
  <1> QED
    BY <1>1, <1>2, <1>3, <1>4 DEF LatestInv, FindInv, ChosenInv, LatestBackup, Passed, Wanted

LEMMA LatestStep == LatestInv /\ [Next]_vars => LatestInv'
  BY SourceKeepsLatest, StartKeepsLatest, FindKeepsLatest, FetchKeepsLatest, OthersKeepLatest
  DEF Next, Clone

\* LatestBackup: the backup that is copied ends before the target and, of all that
\* were there when the script began, is the latest, for any versions and any
\* history of the source.
THEOREM LatestIsCopied == Spec => []LatestBackup
  <1>1. LatestInv => LatestBackup
    BY DEF LatestInv
  <1> QED
    BY <1>1, InitLatest, LatestStep, PTL DEF Spec
=============================================================================
