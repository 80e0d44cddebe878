--------------------------- MODULE ConfigureSpilo ---------------------------
(***************************************************************************)
(* The files a container is configured by: scripts/configure_spilo.py      *)
(* writes them from the environment when the container starts, the major   *)
(* upgrade changes them (inplace_upgrade.py, update_configs), and nothing  *)
(* is overwritten when the same container starts again.  postgres.yml has  *)
(* the binaries, the libraries and the archive_command, the two envdirs    *)
(* what the backup tool is to find its archive with.                       *)
(*                                                                         *)
(* A variable of the environment is a pair: <<"WAL", "S3">> is             *)
(* WAL_S3_BUCKET, <<"WALE", "S3">> is WALE_S3_PREFIX and so on.  Values    *)
(* are left out but for the prefixes, of which it matters whether they     *)
(* lead anywhere and which version they end in.                            *)
(***************************************************************************)
EXTENDS Naturals, FiniteSets, Functions

CONSTANTS
    Versions,       \* the major versions installed in the image
    Environments    \* the environments to look at

ASSUME VersionsAssumption ==
    Versions \subseteq Nat \ {0} /\ Versions # {} /\ IsFiniteSet(Versions)

None == 0

\* What the environment may say: the storage variables given (one store) and
\* the three switches, for the cluster and, with CLONE_, for its source; the
\* version a given prefix ends in, in case it has the shape of a generated one;
\* whether shared_preload_libraries is given; PGVERSION, none if it is not valid.
Stores   == {"S3", "GS", "GCS", "SWIFT", "AZ"}
SSHNames == {<<"WALG", "SSH">>, <<"SSH", "PRIVATE_KEY_PATH">>, <<"SSH", "USERNAME">>,
             <<"SSH", "PORT">>}
Names    == ({"WAL", "WALE", "WALG"} \X Stores) \union SSHNames
Switches == {"USE_WALG", "BACKUP", "RESTORE"}
Side     == [given    : SUBSET Names,
             scope    : BOOLEAN,
             switches : [Switches -> {"unset", "true", "false"}]]

ASSUME EnvironmentsAssumption ==
    \A e \in Environments :
        /\ e.main \in Side /\ e.main.scope /\ e.clone \in Side
        /\ e.ends \in Versions \union {None} /\ e.libraries \in BOOLEAN

VARIABLES
    env,         \* the environment of the cluster
    pgversion,   \* PGVERSION of the container
    data,        \* PG_VERSION in the data directory
    config,      \* postgres.yml
    envdir,      \* the envdir of the cluster
    cloneEnvdir, \* the envdir of the cluster it is cloned from
    upgrading,   \* the data is switched to the new version, the files are not
    mixed,       \* history: the files of this container may be for two versions
    foreign,     \* history: the data came from a leader of another version than
                 \* the one this container is configured for
    configured   \* history: the sections that have got through in this container

filesVars == <<env, pgversion, data, config, envdir, cloneEnvdir, upgrading,
               mixed, foreign, configured>>

NoFile == [written |-> FALSE]
NoDir  == [n \in {} |-> None]

-----------------------------------------------------------------------------
(* Placeholders: which tool serves which archive *)

AUTO_ENABLE_WALG_RESTORE ==
    {<<"WAL", "S3">>, <<"WALE", "S3">>, <<"WALG", "S3">>, <<"WALG", "AZ">>, <<"WALG", "SSH">>}

Given(side, names) == side.given \intersect names # {}

\* Mutant: a bucket is enough, without CLONE_SCOPE.
set_extended_wale_placeholders_NoScope(side) ==
    {n \in Stores : Given(side, {"WAL", "WALE", "WALG"} \X {n})}

\* The stores by which a source is given well enough to be found.
set_extended_wale_placeholders(side) ==
    {n \in Stores : \/ <<"WALE", n>> \in side.given
                    \/ n \in {"S3", "GS", "AZ"} /\ <<"WALG", n>> \in side.given
                    \/ <<"WAL", n>> \in side.given /\ side.scope}

\* Mutant: wal-g for stores it has no prefix for.
set_walg_placeholders_AnyStore(side) ==
    LET Value(name) == IF side.switches[name] = "unset" THEN side.switches["USE_WALG"]
                       ELSE side.switches[name]
    IN {name \in {"BACKUP", "RESTORE"} : Value(name) = "true"}

\* Whether backup and restore go by wal-g: {"BACKUP", "RESTORE"} or less.
set_walg_placeholders(side) ==
    LET walg_supported == Given(side, AUTO_ENABLE_WALG_RESTORE \union
                                      {<<"WAL", "GS">>, <<"WALE", "GS">>, <<"WALG", "GS">>})
        Value(name) == IF side.switches[name] = "unset" THEN side.switches["USE_WALG"]
                       ELSE side.switches[name]
    IN {name \in {"BACKUP", "RESTORE"} : walg_supported /\ Value(name) = "true"}

SetDefault(side, name, value) ==
    IF side.switches[name] = "unset" THEN [side EXCEPT !.switches[name] = value] ELSE side

\* get_placeholders, the cluster's own archive.
MainSide(e) ==
    LET restore == IF Given(e.main, AUTO_ENABLE_WALG_RESTORE)
                   THEN SetDefault(e.main, "RESTORE", "true") ELSE e.main
        backup  == IF <<"WALG", "AZ">> \in e.main.given \/ SSHNames \subseteq e.main.given
                   THEN SetDefault(restore, "BACKUP", "true") ELSE restore
    IN SetDefault(backup, "USE_WALG", "false")

USE_WALE(e) ==
    Given(e.main, AUTO_ENABLE_WALG_RESTORE \union
                  {<<"WAL", "SWIFT">>, <<"WALE", "SWIFT">>, <<"WAL", "GCS">>,
                   <<"WAL", "GS">>, <<"WALE", "GS">>, <<"WALG", "GS">>})

\* get_placeholders, the archive to clone from: wal-g for S3, or else as USE_WALG
\* says for the cluster itself.
CLONE_WITH_WALE(e) == set_extended_wale_placeholders(e.clone) # {}

CloneSide(e) ==
    SetDefault(IF "S3" \in set_extended_wale_placeholders(e.clone)
               THEN SetDefault(e.clone, "USE_WALG", "true") ELSE e.clone,
               "USE_WALG", MainSide(e).switches["USE_WALG"])

\* WALE_BINARY of the archive_command.
WALE_BINARY(e) == IF "BACKUP" \in set_walg_placeholders(MainSide(e)) THEN "WALG" ELSE "WALE"

-----------------------------------------------------------------------------
(* The envdir *)

\* The branches of write_wale_environment: the names that are written, of which
\* the first two are the prefix and its copy for the other tool, if it has one.
StoreOf(side) ==
    CASE Given(side, {"WAL", "WALE", "WALG"} \X {"S3"})   -> <<<<"WALE", "S3">>, <<"WALG", "S3">>>>
      [] Given(side, {<<"WAL", "GCS">>, <<"WAL", "GS">>, <<"WALE", "GS">>, <<"WALG", "GS">>})
                                                          -> <<<<"WALE", "GS">>, <<"WALG", "GS">>>>
      [] Given(side, {"WAL", "WALE"} \X {"SWIFT"})        -> <<<<"WALE", "SWIFT">>>>
      [] <<"WALG", "AZ">> \in side.given                  -> <<<<"WALG", "AZ">>>>
      [] <<"WALG", "SSH">> \in side.given                 -> <<<<"WALG", "SSH">>>>
      [] OTHER                                            -> << >>

\* The value of a prefix: where it leads, and the version it ends in.
Prefix(place, version) == [place |-> place, version |-> version]

\* A given prefix is taken as it is, another one generated from bucket, scope and
\* version, even if there is no bucket; the copy is for future compatibility.
write_wale_environment(side, ends, version) ==
    LET write_envdir_names == StoreOf(side)
        store  == write_envdir_names[1][2]
        bucket == Given(side, {<<"WAL", store>>} \union
                              (IF store = "GS" THEN {<<"WAL", "GCS">>} ELSE {}))
        Value(name) == IF name \in side.given THEN Prefix("given", ends)
                       ELSE Prefix(IF bucket /\ side.scope THEN "bucket" ELSE "nowhere", version)
        first  == Value(write_envdir_names[1])
        copied == IF store \in {"S3", "GS"} /\ write_envdir_names[2] \notin side.given
                  THEN first ELSE Prefix("given", ends)
        tools  == IF store = "SWIFT" THEN {} ELSE set_walg_placeholders(side)
    IN IF write_envdir_names = << >> THEN NoDir
       ELSE [n \in Range(write_envdir_names) \union ({"USE_WALG"} \X tools) |->
               IF n[1] = "USE_WALG" THEN Prefix("true", None)
               ELSE IF n = write_envdir_names[1] THEN first ELSE copied]

\* write_file without overwrite: what is there stays.
Keep(old, new) == [n \in DOMAIN old \union DOMAIN new |->
                     IF n \in DOMAIN old THEN old[n] ELSE new[n]]

-----------------------------------------------------------------------------
(* configure_spilo.py and update_configs *)

\* The libraries of the template, and those appended in the versions that have
\* them; every installed version is in the range of those there are.
Template   == {"bg_mon", "pg_stat_statements", "pgextwlist", "pg_auth_mon", "set_user"}
extensions == [timescaledb |-> 9 .. 17, pg_cron |-> 9 .. 17, pg_stat_kcache |-> 9 .. 17]
UserGiven  == {"bg_mon"}

append_extensions(old, version) ==
    {name \in old \union DOMAIN extensions :
        name \in DOMAIN extensions => version \in extensions[name]}

\* main: the version of the data decides, PGVERSION if there is no data.
BinDir(version, datadir) == IF datadir # None THEN datadir ELSE version

Configuration(e, version) ==
    [written         |-> TRUE,
     bin_dir         |-> version,
     libraries       |-> IF e.libraries THEN UserGiven ELSE append_extensions(Template, version),
     archive_command |-> IF USE_WALE(e) THEN WALE_BINARY(e) ELSE "true"]

Sections == {"patroni", "wal-e", "bootstrap"}

\* main: the sections come in the order of a Python set.  One that raises ends the
\* script, launch.sh goes on: any of them may be left out.
main(version, datadir, old, oldEnvdir, oldCloneEnvdir, before) ==
    \E sections \in SUBSET Sections :
        LET bin_dir == BinDir(version, datadir) IN
        /\ configured' = before \union sections
        /\ config' = IF "patroni" \in sections /\ ~old.written
                     THEN Configuration(env, bin_dir) ELSE old
        /\ envdir' = IF "wal-e" \in sections /\ USE_WALE(env)
                     THEN Keep(oldEnvdir,
                               write_wale_environment(MainSide(env), env.ends, bin_dir))
                     ELSE oldEnvdir
        /\ cloneEnvdir' = IF "bootstrap" \in sections /\ CLONE_WITH_WALE(env)
                          THEN Keep(oldCloneEnvdir,
                                    write_wale_environment(CloneSide(env), env.ends, None))
                          ELSE oldCloneEnvdir

\* A prefix that ends like a generated one gets the new version.
patch_wale_prefix(value, new_version) ==
    IF value.version # None THEN [value EXCEPT !.version = new_version] ELSE value

\* Mutant: only the prefixes of wal-e are patched.
update_configs_WaleOnly(new_version) ==
    /\ config' = [config EXCEPT !.bin_dir = new_version,
                                !.libraries = append_extensions(@, new_version)]
    /\ envdir' = IF config.archive_command = "true" THEN envdir
                 ELSE [n \in DOMAIN envdir |->
                         IF n[1] = "WALE" THEN patch_wale_prefix(envdir[n], new_version)
                         ELSE envdir[n]]

update_configs(new_version) ==
    /\ config' = [config EXCEPT !.bin_dir = new_version,
                                !.libraries = append_extensions(@, new_version)]
    /\ envdir' = IF config.archive_command = "true" THEN envdir
                 ELSE [n \in DOMAIN envdir |-> patch_wale_prefix(envdir[n], new_version)]

-----------------------------------------------------------------------------
(* The life of a container and its volume *)

FilesInit ==
    /\ env \in Environments /\ pgversion \in Versions
    /\ data \in Versions \union {None}
    /\ config = NoFile /\ envdir = NoDir /\ cloneEnvdir = NoDir
    /\ upgrading = FALSE /\ mixed = FALSE /\ foreign = FALSE /\ configured = {}

\* launch.sh in a new container on the same volume, possibly with another PGVERSION.
FreshContainer ==
    /\ pgversion' \in Versions
    /\ main(pgversion', data, NoFile, NoDir, NoDir, {})
    /\ upgrading' = FALSE /\ mixed' = FALSE /\ foreign' = FALSE
    /\ UNCHANGED <<env, data>>

\* launch.sh again in the same container, after anything.  A file that is missing
\* is written for the version of the data now, the others are for another one if
\* an upgrade was cut or the data is foreign or gone.
RestartContainer ==
    /\ main(pgversion, data, config, envdir, cloneEnvdir, configured)
    /\ upgrading' = FALSE
    /\ mixed' = (mixed \/ (config.written /\ config.bin_dir # BinDir(pgversion, data)))
    /\ UNCHANGED <<env, pgversion, data, foreign>>

\* Patroni makes the data directory: by initdb, or from a backup or a leader of
\* whatever version.
CreateData ==
    /\ config.written /\ data = None
    /\ data' \in Versions /\ foreign' = (data' # config.bin_dir)
    /\ UNCHANGED <<env, pgversion, config, envdir, cloneEnvdir, upgrading, mixed,
                   configured>>

\* The data directory is removed, to be made anew.
RemoveData ==
    /\ config.written /\ data # None /\ ~upgrading
    /\ data' = None /\ foreign' = FALSE
    /\ UNCHANGED <<env, pgversion, config, envdir, cloneEnvdir, upgrading, mixed,
                   configured>>

\* The upgrade to PGVERSION, of a running server, up to the switch of the data.
SwitchData ==
    /\ config.written /\ ~upgrading /\ data = config.bin_dir /\ data < pgversion
    /\ data' = pgversion /\ upgrading' = TRUE
    /\ UNCHANGED <<env, pgversion, config, envdir, cloneEnvdir, mixed, foreign,
                   configured>>

UpdateConfigs ==
    /\ upgrading /\ upgrading' = FALSE
    /\ update_configs(data)
    /\ UNCHANGED <<env, pgversion, data, cloneEnvdir, mixed, foreign, configured>>

\* The upgrade is killed in the middle of update_configs: postgres.yml is new, some
\* of the prefixes are not.
CutUpdateConfigs ==
    /\ upgrading /\ upgrading' = FALSE /\ mixed' = TRUE
    /\ config' = [config EXCEPT !.bin_dir = data,
                                !.libraries = append_extensions(@, data)]
    /\ \E patched \in SUBSET DOMAIN envdir :
         envdir' = [n \in DOMAIN envdir |->
                      IF n \in patched THEN patch_wale_prefix(envdir[n], data) ELSE envdir[n]]
    /\ UNCHANGED <<env, pgversion, data, cloneEnvdir, foreign, configured>>

FilesNext ==
    \/ FreshContainer \/ RestartContainer
    \/ CreateData \/ RemoveData
    \/ SwitchData \/ UpdateConfigs \/ CutUpdateConfigs

FilesSpec == FilesInit /\ [][FilesNext]_filesVars

-----------------------------------------------------------------------------
(* Properties *)

Values == [place : {"given", "bucket", "nowhere", "true"}, version : Versions \union {None}]

FilesTypeOK ==
    /\ pgversion \in Versions /\ data \in Versions \union {None}
    /\ config.written =>
         /\ config.bin_dir \in Versions
         /\ config.libraries \subseteq Template \union DOMAIN extensions
         /\ config.archive_command \in {"WALE", "WALG", "true"}
    /\ \A dir \in {envdir, cloneEnvdir} :
         DOMAIN dir \subseteq Names \union ({"USE_WALG"} \X Switches) /\ Range(dir) \subseteq Values
    /\ upgrading \in BOOLEAN /\ mixed \in BOOLEAN /\ foreign \in BOOLEAN
    /\ configured \subseteq Sections

\* What a tool finds in an envdir: wal-e the WALE_ prefixes, wal-g the WALG_ ones.
Found(tool, dir) == {dir[n] : n \in {n \in DOMAIN dir : n[1] = tool /\ n \in Names}}

\* The tool of restore_command.sh, wale_restore.sh and clone_with_wale.py.
RestoreTool(dir) == IF <<"USE_WALG", "RESTORE">> \in DOMAIN dir THEN "WALG" ELSE "WALE"

\* What the environment may ask for.  The switches are heeded in any combination,
\* if the store is given by a bucket or a WALE_ prefix.  A WALG_ prefix without
\* one, which ENVIRONMENT.rst names for Azure and SSH only, serves wal-g: every
\* switch must ask for it, or none be set where wal-g is the default.
Consistent(side, byDefault) ==
    LET On(name) == \/ side.switches[name] = "true"
                    \/ side.switches[name] = "unset" /\ side.switches["USE_WALG"] = "true"
    IN \/ side.given \intersect ({"WALG"} \X (Stores \union {"SSH"})) = {}
       \/ \E s \in Stores : {<<"WALE", s>>, <<"WALG", s>>} \subseteq side.given
       \/ On("BACKUP") /\ On("RESTORE")
       \/ byDefault /\ \A name \in Switches : side.switches[name] = "unset"

\* The archive_command and the restore_command find the archive in the envdir, and
\* in one place, whichever of the two tools each of them is: a server that cannot
\* find what it has archived cannot be restored, and nothing says so before.
\* (An upgrade cut short may leave the two prefixes with different versions.)
ArchiveIsFound ==
    /\ {"patroni", "wal-e"} \subseteq configured
    /\ config.archive_command # "true" /\ ~mixed
    /\ Consistent(env.main, <<"WALG", "AZ">> \in env.main.given \/ SSHNames \subseteq env.main.given)
    => LET found == Found(RestoreTool(envdir), envdir) IN
       /\ Cardinality(found) = 1 /\ \A prefix \in found : prefix.place # "nowhere"
       /\ Found(config.archive_command, envdir) = found

\* If clone_with_wale is configured at all, the tool it runs finds the archive of
\* the source.  CLONE_WALE_GCS_PREFIX and CLONE_WAL_AZ_BUCKET, which turn it on
\* but are not known to write_wale_environment, are left out.
CloneIsFound ==
    /\ "bootstrap" \in configured /\ CLONE_WITH_WALE(env)
    /\ ~Given(env.clone, {<<"WALE", "GCS">>, <<"WAL", "AZ">>})
    /\ Consistent(env.clone, <<"WALG", "S3">> \in env.clone.given)
    => LET found == Found(RestoreTool(cloneEnvdir), cloneEnvdir) IN
       Cardinality(found) = 1 /\ \A prefix \in found : prefix.place # "nowhere"

\* The files say what a new container would write, whatever upgrades and restarts
\* there were and however many attempts the files took: the binaries are those of
\* the data, and WAL goes to the directory of the version that wrote it.  Except
\* after an upgrade that was cut before its last step, with data of a leader of
\* another version, and with values given by the user, which update_configs
\* changes as if they were generated: a new container goes back to them.
FilesFollowData ==
    data # None /\ config.written /\ ~upgrading /\ ~mixed /\ ~foreign
    => /\ config = [Configuration(env, data) EXCEPT
                        !.libraries = IF env.libraries THEN config.libraries ELSE @]
       /\ envdir # NoDir =>
            LET new == write_wale_environment(MainSide(env), env.ends, data) IN
            /\ DOMAIN envdir = DOMAIN new
            /\ \A n \in DOMAIN new : new[n].place # "given" => envdir[n] = new[n]
=============================================================================
