---------------------------- MODULE ArchiveProofs ----------------------------
(***************************************************************************)
(* Proofs about the way to the WAL archive and back.                       *)
(*                                                                         *)
(* ConfigureSpilo, for any versions and any environment that gives one     *)
(* store: however often the container is restarted, replaced and upgraded, *)
(* its files are those of the data, and what the configured tools archive  *)
(* is what they find.                                                      *)
(*                                                                         *)
(* WalFetch, for every number of prefetched segments and any number of     *)
(* archived ones: what a call of wal-e-wal-fetch.sh returns is the whole   *)
(* segment, no segment is downloaded twice, and PREFETCHDIR stays bounded, *)
(* although calls and prefetchers only share directories.                  *)
(***************************************************************************)
EXTENDS ConfigureSpilo, WalFetch, FiniteSetTheorems, TLAPS

\* The names by which one store is given (ENVIRONMENT.rst, and those that the
\* code takes for the same).
StoreNames ==
    {{"WAL", "WALE", "WALG"} \X {"S3"},
     ({"WAL", "WALE", "WALG"} \X {"GS"}) \union ({"WAL", "WALE"} \X {"GCS"}),
     {"WAL", "WALE"} \X {"SWIFT"},
     {"WAL", "WALG"} \X {"AZ"},
     SSHNames}

OneStore(side) == \E names \in StoreNames : side.given \subseteq names

\* The version that the files of this container are for: postgres.yml has it,
\* or the next attempt to write it will see it.
VersionOf == IF config.written THEN config.bin_dir ELSE BinDir(pgversion, data)

\* An envdir is what a new container would write, but for the given prefixes,
\* which an upgrade may have patched, one like the other.
Like(dir, new) ==
    /\ DOMAIN dir = DOMAIN new
    /\ \A n \in DOMAIN new : IF new[n].place = "given"
                             THEN dir[n] = Prefix("given", dir[n].version)
                             ELSE dir[n] = new[n]
    /\ \A n, m \in DOMAIN new : new[n].place = "given" /\ new[m].place = "given"
                                => dir[n] = dir[m]

\* Two directories without files are the same.
IsFunction(dir) == dir = [n \in DOMAIN dir |-> dir[n]]

\* What a new container writes for the cluster and for its source.
MainEnvdir(version) == write_wale_environment(MainSide(env), env.ends, version)

CloneEnvdir == write_wale_environment(CloneSide(env), env.ends, None)

\* The sections that got through have left their files.
SectionsWrite ==
    /\ env \in Environments
    /\ "patroni" \in configured => config.written
    /\ "wal-e" \in configured /\ USE_WALE(env) => envdir # NoDir
    /\ "bootstrap" \in configured /\ CLONE_WITH_WALE(env) => cloneEnvdir = CloneEnvdir
    /\ cloneEnvdir # NoDir => cloneEnvdir = CloneEnvdir

\* postgres.yml is that of the version in it, in the middle of an upgrade too.
ConfigOfVersion ==
    config.written =>
        config = [Configuration(env, config.bin_dir) EXCEPT
                      !.libraries = IF env.libraries THEN config.libraries ELSE @]

\* The version is that of the data.
VersionOfData ==
    /\ upgrading => config.written /\ data # None
    /\ config.written => config.bin_dir \in Versions
    /\ pgversion \in Versions /\ data \in Versions \union {None}
    /\ config.written /\ ~mixed /\ upgrading => config.bin_dir # data
    /\ config.written /\ data # None /\ ~upgrading /\ ~mixed /\ ~foreign => config.bin_dir = data

\* The envdir is that of the version.
EnvdirOfVersion ==
    /\ IsFunction(envdir)
    /\ envdir # NoDir => USE_WALE(env)
    /\ envdir # NoDir /\ ~mixed => Like(envdir, MainEnvdir(VersionOf))

FilesInv == SectionsWrite /\ ConfigOfVersion /\ VersionOfData /\ EnvdirOfVersion

-----------------------------------------------------------------------------
(* The sides of an environment *)

Values3 == {"unset", "true", "false"}

\* A default touches one switch that is not set.
LEMMA SetDefaultKeeps ==
    ASSUME NEW side \in Side, NEW name \in Switches, NEW value \in Values3
    PROVE  /\ SetDefault(side, name, value) \in Side
           /\ SetDefault(side, name, value).given = side.given
           /\ SetDefault(side, name, value).scope <=> side.scope
           /\ \A s \in Switches :
                SetDefault(side, name, value).switches[s] =
                    IF s = name /\ side.switches[s] = "unset" THEN value ELSE side.switches[s]
  BY DEF SetDefault, Side, Values3

LEMMA SetDefaultKeepsGiven ==
    ASSUME NEW side \in Side, NEW name \in Switches, NEW value \in Values3
    PROVE  SetDefault(side, name, value).given = side.given
  BY SetDefaultKeeps

LEMMA SetDefaultSwitch ==
    ASSUME NEW side \in Side, NEW name \in Switches, NEW value \in Values3,
           NEW other \in Switches
    PROVE  /\ side.switches[name] = "unset" => SetDefault(side, name, value).switches[name] = value
           /\ other # name \/ side.switches[other] # "unset" =>
                SetDefault(side, name, value).switches[other] = side.switches[other]
  BY SetDefaultKeeps

\* The same storage; what was switched on or off is as it was, and the default
\* of a tool can only be wal-g.
Follows(side, given) ==
    /\ side \in Side /\ side.given = given.given /\ (side.scope <=> given.scope)
    /\ \A s \in Switches : IF given.switches[s] # "unset"
                          THEN side.switches[s] = given.switches[s]
                          ELSE s = "USE_WALG" \/ side.switches[s] # "false"

LEMMA FollowsItself == \A side \in Side : Follows(side, side)
  BY DEF Follows

LEMMA SetDefaultFollows ==
    ASSUME NEW given, NEW side \in Side, Follows(side, given),
           NEW name \in Switches, NEW value \in Values3,
           name = "USE_WALG" \/ value = "true"
    PROVE  Follows(SetDefault(side, name, value), given)
  BY SetDefaultKeeps DEF Follows

LEMMA MainSideFollows ==
    ASSUME NEW e \in Environments
    PROVE  Follows(MainSide(e), e.main)
<1> DEFINE restore == IF Given(e.main, AUTO_ENABLE_WALG_RESTORE)
                      THEN SetDefault(e.main, "RESTORE", "true") ELSE e.main
           backup == IF <<"WALG", "AZ">> \in e.main.given \/ SSHNames \subseteq e.main.given
                     THEN SetDefault(restore, "BACKUP", "true") ELSE restore
<1>1. e.main \in Side /\ Follows(e.main, e.main)
  BY EnvironmentsAssumption, FollowsItself
<1>2. /\ "RESTORE" \in Switches /\ "BACKUP" \in Switches /\ "USE_WALG" \in Switches
      /\ "true" \in Values3 /\ "false" \in Values3
  BY DEF Switches, Values3
<1>3. Follows(restore, e.main)
  BY <1>1, <1>2, SetDefaultFollows
<1>4. \A side : Follows(side, e.main) => side \in Side
  BY DEF Follows
<1> HIDE DEF restore
<1>5. Follows(backup, e.main)
  BY <1>2, <1>3, <1>4, SetDefaultFollows
<1>6. MainSide(e) = SetDefault(backup, "USE_WALG", "false")
  BY DEF MainSide, restore
<1> HIDE DEF backup
<1> QED
  BY <1>2, <1>4, <1>5, <1>6, SetDefaultFollows

-----------------------------------------------------------------------------
(* write_wale_environment *)

LEMMA StoreOfCases ==
    ASSUME NEW side
    PROVE  \/ StoreOf(side) = <<<<"WALE", "S3">>, <<"WALG", "S3">>>>
           \/ StoreOf(side) = <<<<"WALE", "GS">>, <<"WALG", "GS">>>>
           \/ StoreOf(side) = <<<<"WALE", "SWIFT">>>>
           \/ StoreOf(side) = <<<<"WALG", "AZ">>>>
           \/ StoreOf(side) = <<<<"WALG", "SSH">>>>
           \/ StoreOf(side) = << >>
  BY DEF StoreOf

LEMMA StoreOfShape ==
    ASSUME NEW side
    PROVE  StoreOf(side) = << >> \/ StoreOf(side)[1] \in Range(StoreOf(side))
<1>1. \A a, b : <<a, b>>[1] \in Range(<<a, b>>) /\ <<a>>[1] \in Range(<<a>>)
  BY DEF Range
<1> QED
  BY <1>1, StoreOfCases

\* If the cluster has an archive its envdir has something in it.
LEMMA EnvdirOfArchive ==
    ASSUME NEW side, NEW ends, NEW version, StoreOf(side) # << >>
    PROVE  write_wale_environment(side, ends, version) # NoDir
<1>1. StoreOf(side)[1] \in DOMAIN write_wale_environment(side, ends, version)
  BY StoreOfShape DEF write_wale_environment
<1>2. DOMAIN NoDir = {}
  BY DEF NoDir
<1> QED
  BY <1>1, <1>2

LEMMA ArchiveHasStore ==
    ASSUME NEW e \in Environments, USE_WALE(e)
    PROVE  StoreOf(MainSide(e)) # << >>
<1>1. MainSide(e).given = e.main.given
  BY MainSideFollows DEF Follows
<1>2. \A a, b : <<a, b>> # << >> /\ <<a>> # << >>
  OBVIOUS
<1> DEFINE g == e.main.given
           side == MainSide(e)
<1>3. \/ Given(side, {"WAL", "WALE", "WALG"} \X {"S3"})
      \/ Given(side, {<<"WAL", "GCS">>, <<"WAL", "GS">>, <<"WALE", "GS">>, <<"WALG", "GS">>})
      \/ Given(side, {"WAL", "WALE"} \X {"SWIFT"})
      \/ <<"WALG", "AZ">> \in side.given
      \/ <<"WALG", "SSH">> \in side.given
  BY <1>1 DEF USE_WALE, Given, AUTO_ENABLE_WALG_RESTORE
<1> QED
  BY <1>2, <1>3 DEF StoreOf

\* The version is in the prefixes that are generated, and nowhere else, in the
\* form that an upgrade patches.
LEMMA EnvdirVersions ==
    ASSUME NEW side, NEW ends, NEW old \in Versions, NEW new \in Versions
    PROVE  LET Old == write_wale_environment(side, ends, old)
               New == write_wale_environment(side, ends, new)
           IN /\ DOMAIN Old = DOMAIN New
              /\ \A n \in DOMAIN Old :
                   IF Old[n].place = "given" THEN Old[n] = Prefix("given", ends) /\ New[n] = Old[n]
                   ELSE New[n].place # "given" /\ New[n] = patch_wale_prefix(Old[n], new)
<1>1. old # None /\ new # None
  BY VersionsAssumption DEF None
<1>2. CASE StoreOf(side) = << >>
  BY <1>2 DEF write_wale_environment, NoDir
<1>3. CASE StoreOf(side) # << >>
  <2> DEFINE names == StoreOf(side)
             store == names[1][2]
             bucket == Given(side, {<<"WAL", store>>} \union
                                   (IF store = "GS" THEN {<<"WAL", "GCS">>} ELSE {}))
             Value(name, v) == IF name \in side.given THEN Prefix("given", ends)
                               ELSE Prefix(IF bucket /\ side.scope THEN "bucket"
                                           ELSE "nowhere", v)
             first(v) == Value(names[1], v)
             copied(v) == IF store \in {"S3", "GS"} /\ names[2] \notin side.given
                          THEN first(v) ELSE Prefix("given", ends)
             Element(n, v) == IF n[1] = "USE_WALG" THEN Prefix("true", None)
                              ELSE IF n = names[1] THEN first(v) ELSE copied(v)
             written == Range(names) \union
                        ({"USE_WALG"} \X (IF store = "SWIFT" THEN {}
                                          ELSE set_walg_placeholders(side)))
  <2>1. \A v : write_wale_environment(side, ends, v) = [n \in written |-> Element(n, v)]
    BY <1>3 DEF write_wale_environment
  <2>2. ASSUME NEW a, NEW b,
               \/ a = Prefix("given", ends) /\ b = a
               \/ a = Prefix("true", None) /\ b = a
               \/ \E place \in {"bucket", "nowhere"} :
                    a = Prefix(place, old) /\ b = Prefix(place, new)
        PROVE  IF a.place = "given" THEN a = Prefix("given", ends) /\ b = a
               ELSE b.place # "given" /\ b = patch_wale_prefix(a, new)
    BY <2>2, <1>1 DEF Prefix, patch_wale_prefix
  <2>3. ASSUME NEW n
        PROVE  \/ Element(n, old) = Prefix("given", ends) /\ Element(n, new) = Element(n, old)
               \/ Element(n, old) = Prefix("true", None) /\ Element(n, new) = Element(n, old)
               \/ \E place \in {"bucket", "nowhere"} :
                    Element(n, old) = Prefix(place, old) /\ Element(n, new) = Prefix(place, new)
    OBVIOUS
  <2> HIDE DEF written, Element
  <2> QED
    BY <2>1, <2>2, <2>3
<1> QED
  BY <1>2, <1>3

\* Without an upgrade all given prefixes end in the same.
LEMMA EnvdirIsLike ==
    ASSUME NEW side, NEW ends, NEW version
    PROVE  Like(write_wale_environment(side, ends, version),
                write_wale_environment(side, ends, version))
<1> DEFINE new == write_wale_environment(side, ends, version)
<1>1. ASSUME NEW n \in DOMAIN new
      PROVE  new[n] = Prefix("given", ends) \/ new[n].place # "given"
  <2>1. CASE StoreOf(side) = << >>
    BY <1>1, <2>1 DEF write_wale_environment, NoDir
  <2>2. CASE StoreOf(side) # << >>
    BY <1>1, <2>2 DEF write_wale_environment, Prefix
  <2> QED
    BY <2>1, <2>2
<1>2. Prefix("given", ends) = Prefix("given", Prefix("given", ends).version)
  BY DEF Prefix
<1> HIDE DEF new
<1>3. Like(new, new)
  BY <1>1, <1>2 DEF Like
<1> QED
  BY <1>3 DEF new

\* write_file keeps what is there, which is like what it would write.
LEMMA KeepEnvdir ==
    ASSUME NEW side, NEW ends, NEW version
    PROVE  LET new == write_wale_environment(side, ends, version)
           IN Keep(NoDir, new) = new /\ Keep(new, new) = new
<1>1. PICK new : new = write_wale_environment(side, ends, version)
  OBVIOUS
<1>2. new = [n \in DOMAIN new |-> new[n]]
  BY <1>1 DEF write_wale_environment, NoDir
<1>3. DOMAIN NoDir = {}
  BY DEF NoDir
<1>4. Keep(NoDir, new) = [n \in DOMAIN new |-> new[n]]
  BY <1>3 DEF Keep
<1>5. Keep(new, new) = [n \in DOMAIN new |-> new[n]]
  BY DEF Keep
<1> QED
  BY <1>1, <1>2, <1>4, <1>5

LEMMA NotEmpty ==
    ASSUME NEW dir, IsFunction(dir), dir # NoDir,
           NEW other, DOMAIN dir \subseteq DOMAIN other
    PROVE  other # NoDir
<1>1. DOMAIN NoDir = {} /\ NoDir = [n \in {} |-> None]
  BY DEF NoDir
<1>2. DOMAIN dir # {}
  BY <1>1 DEF IsFunction
<1> QED
  BY <1>1, <1>2

LEMMA KeepNotEmpty ==
    ASSUME NEW new, NEW old, IsFunction(old), old # NoDir
    PROVE  Keep(old, new) # NoDir
<1>1. DOMAIN old \subseteq DOMAIN Keep(old, new)
  BY DEF Keep
<1> QED
  BY <1>1, NotEmpty

LEMMA KeepLike ==
    ASSUME NEW old, NEW new, Like(old, new)
    PROVE  Like(Keep(old, new), new)
  BY DEF Keep, Like

\* What the upgrade makes of an envdir is what a new container writes.
LEMMA PatchedIsLike ==
    ASSUME NEW side, NEW ends, NEW old \in Versions, NEW new \in Versions, NEW dir,
           Like(dir, write_wale_environment(side, ends, old))
    PROVE  Like([n \in DOMAIN dir |-> patch_wale_prefix(dir[n], new)],
                write_wale_environment(side, ends, new))
<1> DEFINE Old == write_wale_environment(side, ends, old)
           New == write_wale_environment(side, ends, new)
           patched == [n \in DOMAIN dir |-> patch_wale_prefix(dir[n], new)]
<1>1. /\ DOMAIN Old = DOMAIN New
      /\ \A n \in DOMAIN Old :
           IF Old[n].place = "given" THEN Old[n] = Prefix("given", ends) /\ New[n] = Old[n]
           ELSE New[n].place # "given" /\ New[n] = patch_wale_prefix(Old[n], new)
  BY EnvdirVersions
<1>2. /\ DOMAIN dir = DOMAIN Old
      /\ \A n \in DOMAIN Old : IF Old[n].place = "given"
                               THEN dir[n] = Prefix("given", dir[n].version)
                               ELSE dir[n] = Old[n]
      /\ \A n, m \in DOMAIN Old : Old[n].place = "given" /\ Old[m].place = "given"
                                  => dir[n] = dir[m]
  BY DEF Like
<1>3. ASSUME NEW value, value = Prefix("given", value.version)
      PROVE  patch_wale_prefix(value, new) =
                 Prefix("given", patch_wale_prefix(value, new).version)
  BY <1>3 DEF patch_wale_prefix, Prefix
<1> HIDE DEF Old, New
<1>4. DOMAIN patched = DOMAIN New /\ \A n \in DOMAIN dir : patched[n] = patch_wale_prefix(dir[n], new)
  BY <1>1, <1>2
<1> HIDE DEF patched
<1>5. \A n \in DOMAIN New : IF New[n].place = "given"
                           THEN patched[n] = Prefix("given", patched[n].version)
                           ELSE patched[n] = New[n]
  BY <1>1, <1>2, <1>3, <1>4
<1>6. \A n, m \in DOMAIN New : New[n].place = "given" /\ New[m].place = "given"
                               => patched[n] = patched[m]
  BY <1>1, <1>2, <1>4
<1>7. Like(patched, New)
  BY <1>4, <1>5, <1>6 DEF Like
<1> QED
  BY <1>7 DEF patched, New

-----------------------------------------------------------------------------
(* The inductive invariant *)

\* Libraries that are appended again, for another version, are those of the
\* template for that version.
LEMMA LibrariesOfVersion ==
    ASSUME NEW old, NEW new
    PROVE  append_extensions(append_extensions(Template, old), new)
               = append_extensions(Template, new)
  BY DEF append_extensions

\* update_configs leaves the postgres.yml of a version that of another one.
LEMMA ConfigUpdated ==
    ASSUME ConfigOfVersion, config.written, env \in Environments, NEW version,
           config' = [config EXCEPT !.bin_dir = version,
                                    !.libraries = append_extensions(@, version)]
    PROVE  /\ config'.written /\ config'.bin_dir = version
           /\ config' = [Configuration(env, version) EXCEPT
                             !.libraries = IF env.libraries THEN config'.libraries ELSE @]
<1>1. PICK b, l, a :
        config = [written |-> TRUE, bin_dir |-> b, libraries |-> l, archive_command |-> a]
  BY DEF ConfigOfVersion, Configuration
<1>2. config' = [written |-> TRUE, bin_dir |-> version,
                 libraries |-> append_extensions(l, version), archive_command |-> a]
  BY <1>1
<1>3. a = IF USE_WALE(env) THEN WALE_BINARY(env) ELSE "true"
  BY <1>1 DEF ConfigOfVersion, Configuration
<1>4. ~env.libraries => l = append_extensions(Template, b)
  BY <1>1 DEF ConfigOfVersion, Configuration
<1>5. ~env.libraries => append_extensions(l, version) = append_extensions(Template, version)
  BY <1>4, LibrariesOfVersion
<1>6. env.libraries \in BOOLEAN
  BY EnvironmentsAssumption
<1>7. Configuration(env, version) =
          [written |-> TRUE, bin_dir |-> version,
           libraries |-> IF env.libraries THEN UserGiven ELSE append_extensions(Template, version),
           archive_command |-> a]
  BY <1>3 DEF Configuration
<1>8. config'.written /\ config'.bin_dir = version /\ config'.libraries = append_extensions(l, version)
  BY ONLY <1>2
<1>9. [Configuration(env, version) EXCEPT !.libraries = config'.libraries] = config'
  <2>1. \A t, y, z :
          [[written |-> t, bin_dir |-> version, libraries |-> y, archive_command |-> a]
              EXCEPT !.libraries = z]
          = [written |-> t, bin_dir |-> version, libraries |-> z, archive_command |-> a]
    OBVIOUS
  <2>2. \A y, z :
          [[written |-> TRUE, bin_dir |-> version, libraries |-> y, archive_command |-> a]
              EXCEPT !.libraries = z]
          = [written |-> TRUE, bin_dir |-> version, libraries |-> z, archive_command |-> a]
    BY ONLY <2>1, Zenon
  <2>3. \E y : Configuration(env, version) =
            [written |-> TRUE, bin_dir |-> version, libraries |-> y, archive_command |-> a]
    BY ONLY <1>7
  <2> QED
    BY ONLY <1>2, <1>8, <2>2, <2>3
<1>10. ~env.libraries => config'.libraries = Configuration(env, version).libraries
  BY ONLY <1>5, <1>7, <1>8
<1>11. (IF env.libraries THEN config'.libraries ELSE Configuration(env, version).libraries)
           = config'.libraries
  BY ONLY <1>6, <1>10
<1> QED
  BY ONLY <1>8, <1>9, <1>11

LEMMA ConfigWritten ==
    ASSUME NEW version
    PROVE  /\ Configuration(env, version).written /\ NoFile.written = FALSE
           /\ Configuration(env, version).bin_dir = version
           /\ Configuration(env, version) = [Configuration(env, version) EXCEPT
                  !.libraries = IF env.libraries THEN Configuration(env, version).libraries
                                ELSE @]
  BY DEF Configuration, NoFile

LEMMA InitFiles == FilesInit => FilesInv
<1>1. NoFile.written = FALSE
  BY DEF NoFile
<1>2. IsFunction(NoDir)
  BY DEF NoDir, IsFunction
<1> QED
  BY <1>1, <1>2 DEF FilesInit, FilesInv, SectionsWrite, ConfigOfVersion, VersionOfData, EnvdirOfVersion

\* What main does to the files, started on files of the version that it writes
\* for, as far as they are not for two versions anyway.
LEMMA MainWrites ==
    ASSUME env \in Environments, UNCHANGED env,
           NEW version \in Versions, NEW datadir \in Versions \union {None},
           NEW old, NEW oldEnvdir, NEW oldCloneEnvdir, NEW before, NEW twoVersions,
           main(version, datadir, old, oldEnvdir, oldCloneEnvdir, before),
           IsFunction(oldEnvdir), oldEnvdir # NoDir => USE_WALE(env),
           oldEnvdir # NoDir /\ ~twoVersions => Like(oldEnvdir, MainEnvdir(BinDir(version, datadir))),
           "patroni" \in before => old.written,
           "wal-e" \in before /\ USE_WALE(env) => oldEnvdir # NoDir,
           "bootstrap" \in before /\ CLONE_WITH_WALE(env) => oldCloneEnvdir = CloneEnvdir,
           oldCloneEnvdir \in {NoDir, CloneEnvdir}
    PROVE  /\ IF old.written THEN config' = old
              ELSE config' \in {old, Configuration(env, BinDir(version, datadir))}
           /\ "patroni" \in configured' => config'.written
           /\ IsFunction(envdir') /\ (envdir' # NoDir => USE_WALE(env))
           /\ envdir' # NoDir /\ ~twoVersions => Like(envdir', MainEnvdir(BinDir(version, datadir)))
           /\ "wal-e" \in configured' /\ USE_WALE(env) => envdir' # NoDir
           /\ "bootstrap" \in configured' /\ CLONE_WITH_WALE(env) => cloneEnvdir' = CloneEnvdir
           /\ cloneEnvdir' \in {NoDir, CloneEnvdir}
<1> DEFINE bin_dir == BinDir(version, datadir)
           new == MainEnvdir(bin_dir)
<1>1. bin_dir \in Versions
  BY DEF BinDir
<1>2. PICK sections \in SUBSET Sections :
        /\ configured' = before \union sections
        /\ config' = IF "patroni" \in sections /\ ~old.written
                     THEN Configuration(env, bin_dir) ELSE old
        /\ envdir' = IF "wal-e" \in sections /\ USE_WALE(env)
                     THEN Keep(oldEnvdir, new) ELSE oldEnvdir
        /\ cloneEnvdir' = IF "bootstrap" \in sections /\ CLONE_WITH_WALE(env)
                          THEN Keep(oldCloneEnvdir, CloneEnvdir) ELSE oldCloneEnvdir
  BY DEF main, MainEnvdir, CloneEnvdir
<1>3. Configuration(env, bin_dir).written
  BY ConfigWritten
<1>4. USE_WALE(env) => new # NoDir
  BY ArchiveHasStore, EnvdirOfArchive DEF MainEnvdir
<1>5. Like(new, new)
  BY <1>1, EnvdirIsLike DEF MainEnvdir
<1>6. /\ Keep(NoDir, new) = new
      /\ Keep(NoDir, CloneEnvdir) = CloneEnvdir /\ Keep(CloneEnvdir, CloneEnvdir) = CloneEnvdir
  BY KeepEnvdir DEF MainEnvdir, CloneEnvdir
<1>7. oldEnvdir # NoDir => Keep(oldEnvdir, new) # NoDir
  BY KeepNotEmpty
<1>8. Like(oldEnvdir, new) => Like(Keep(oldEnvdir, new), new)
  BY KeepLike
<1> HIDE DEF new
<1>9. IsFunction(envdir')
  BY <1>2 DEF Keep, IsFunction
<1>10. /\ envdir' # NoDir => USE_WALE(env)
       /\ envdir' # NoDir /\ ~twoVersions => Like(envdir', new)
       /\ "wal-e" \in configured' /\ USE_WALE(env) => envdir' # NoDir
  BY <1>2, <1>4, <1>5, <1>6, <1>7, <1>8 DEF new
<1>11. /\ "bootstrap" \in configured' /\ CLONE_WITH_WALE(env) => cloneEnvdir' = CloneEnvdir
       /\ cloneEnvdir' \in {NoDir, CloneEnvdir}
  BY <1>2, <1>6
<1> QED
  BY <1>2, <1>3, <1>10, <1>11, <1>9 DEF new

\* What depends on the environment only does not change.
LEMMA SameEnvironment ==
    ASSUME UNCHANGED env
    PROVE  /\ USE_WALE(env)' = USE_WALE(env) /\ CLONE_WITH_WALE(env)' = CLONE_WITH_WALE(env)
           /\ CloneEnvdir' = CloneEnvdir
           /\ \A version : MainEnvdir(version)' = MainEnvdir(version)
  BY DEF USE_WALE, CLONE_WITH_WALE, CloneEnvdir, MainEnvdir

\* A new container: nothing is there yet.
LEMMA FilesFreshContainer == FilesInv /\ FreshContainer => FilesInv'
<1> SUFFICES ASSUME FilesInv, FreshContainer PROVE FilesInv'
  OBVIOUS
<1>1. /\ env \in Environments /\ UNCHANGED <<env, data>> /\ pgversion' \in Versions
      /\ data \in Versions \union {None}
      /\ ~upgrading' /\ ~mixed' /\ ~foreign'
      /\ main(pgversion', data, NoFile, NoDir, NoDir, {})
  BY DEF FilesInv, SectionsWrite, VersionOfData, FreshContainer
<1>2. NoFile.written = FALSE /\ IsFunction(NoDir)
  BY DEF NoFile, NoDir, IsFunction
<1> DEFINE bin_dir == BinDir(pgversion', data)
<1>3. /\ config' \in {NoFile, Configuration(env, bin_dir)}
      /\ "patroni" \in configured' => config'.written
      /\ IsFunction(envdir') /\ (envdir' # NoDir => USE_WALE(env))
      /\ envdir' # NoDir => Like(envdir', MainEnvdir(bin_dir))
      /\ "wal-e" \in configured' /\ USE_WALE(env) => envdir' # NoDir
      /\ "bootstrap" \in configured' /\ CLONE_WITH_WALE(env) => cloneEnvdir' = CloneEnvdir
      /\ cloneEnvdir' \in {NoDir, CloneEnvdir}
  BY <1>1, <1>2, MainWrites
<1>4. /\ Configuration(env, bin_dir).written /\ Configuration(env, bin_dir).bin_dir = bin_dir
      /\ Configuration(env, bin_dir) = [Configuration(env, bin_dir) EXCEPT
             !.libraries = IF env.libraries THEN Configuration(env, bin_dir).libraries ELSE @]
  BY ConfigWritten
<1>5. bin_dir \in Versions /\ (data # None => bin_dir = data)
  BY <1>1 DEF BinDir
<1>6. config'.written => config'.bin_dir = bin_dir
  BY <1>2, <1>3, <1>4
<1>7. SectionsWrite'
  BY <1>1, <1>3, SameEnvironment DEF SectionsWrite
<1>8. ConfigOfVersion'
  BY <1>1, <1>2, <1>3, <1>4 DEF ConfigOfVersion
<1>9. VersionOfData'
  BY <1>1, <1>5, <1>6 DEF VersionOfData
<1>10. VersionOf' = bin_dir
  BY <1>1, <1>6 DEF VersionOf, BinDir
<1>11. EnvdirOfVersion'
  BY <1>1, <1>3, <1>10, SameEnvironment DEF EnvdirOfVersion
<1> QED
  BY <1>7, <1>8, <1>9, <1>11 DEF FilesInv

\* The same container: what is there is of the version that is written for, or
\* the container's files are for two versions.
LEMMA FilesRestartContainer == FilesInv /\ RestartContainer => FilesInv'
<1> SUFFICES ASSUME FilesInv, RestartContainer PROVE FilesInv'
  OBVIOUS
<1> DEFINE bin_dir == BinDir(pgversion, data)
           twoVersions == mixed \/ (config.written /\ config.bin_dir # bin_dir)
<1>1. /\ env \in Environments /\ UNCHANGED <<env, pgversion, data, foreign>>
      /\ pgversion \in Versions /\ data \in Versions \union {None}
      /\ ~upgrading' /\ mixed' = twoVersions
      /\ main(pgversion, data, config, envdir, cloneEnvdir, configured)
  BY DEF FilesInv, SectionsWrite, VersionOfData, RestartContainer
<1>2. /\ IsFunction(envdir) /\ (envdir # NoDir => USE_WALE(env))
      /\ envdir # NoDir /\ ~twoVersions => Like(envdir, MainEnvdir(bin_dir))
  BY DEF FilesInv, EnvdirOfVersion, VersionOf
<1>3. /\ IF config.written THEN config' = config
         ELSE config' \in {config, Configuration(env, bin_dir)}
      /\ "patroni" \in configured' => config'.written
      /\ IsFunction(envdir') /\ (envdir' # NoDir => USE_WALE(env))
      /\ envdir' # NoDir /\ ~twoVersions => Like(envdir', MainEnvdir(bin_dir))
      /\ "wal-e" \in configured' /\ USE_WALE(env) => envdir' # NoDir
      /\ "bootstrap" \in configured' /\ CLONE_WITH_WALE(env) => cloneEnvdir' = CloneEnvdir
      /\ cloneEnvdir' \in {NoDir, CloneEnvdir}
  <2>1. /\ "patroni" \in configured => config.written
        /\ "wal-e" \in configured /\ USE_WALE(env) => envdir # NoDir
        /\ "bootstrap" \in configured /\ CLONE_WITH_WALE(env) => cloneEnvdir = CloneEnvdir
        /\ cloneEnvdir \in {NoDir, CloneEnvdir}
    BY DEF FilesInv, SectionsWrite
  <2> HIDE DEF twoVersions
  <2> QED
    BY <1>1, <1>2, <2>1, MainWrites
<1>4. /\ Configuration(env, bin_dir).written /\ Configuration(env, bin_dir).bin_dir = bin_dir
      /\ Configuration(env, bin_dir) = [Configuration(env, bin_dir) EXCEPT
             !.libraries = IF env.libraries THEN Configuration(env, bin_dir).libraries ELSE @]
  BY ConfigWritten
<1>5. bin_dir \in Versions /\ (data # None => bin_dir = data)
  BY <1>1 DEF BinDir
<1>6. config'.written /\ ~mixed' => config'.bin_dir = bin_dir
  BY <1>1, <1>3, <1>4
<1>7. SectionsWrite'
  BY <1>1, <1>3, SameEnvironment DEF SectionsWrite
<1>8. ConfigOfVersion'
  BY <1>1, <1>3, <1>4 DEF FilesInv, ConfigOfVersion
<1>9. config'.written => config'.bin_dir \in Versions
  BY <1>3, <1>4, <1>5 DEF FilesInv, VersionOfData
<1>10. VersionOfData'
  BY <1>1, <1>5, <1>6, <1>9 DEF VersionOfData
<1>11. ~mixed' => VersionOf' = bin_dir
  BY <1>1, <1>6 DEF VersionOf, BinDir
<1>12. envdir' # NoDir /\ ~mixed' => Like(envdir', MainEnvdir(bin_dir))
  BY <1>1, <1>3
<1>13. EnvdirOfVersion'
  BY <1>1, <1>3, <1>11, <1>12, SameEnvironment DEF EnvdirOfVersion
<1> QED
  BY <1>7, <1>8, <1>10, <1>13 DEF FilesInv

LEMMA FilesCreateData == FilesInv /\ CreateData => FilesInv'
<1> SUFFICES ASSUME FilesInv, CreateData PROVE FilesInv'
  OBVIOUS
<1>1. SectionsWrite'
  BY SameEnvironment DEF FilesInv, SectionsWrite, CreateData
<1>2. ConfigOfVersion'
  BY DEF FilesInv, ConfigOfVersion, CreateData
<1>3. VersionOfData'
  BY VersionsAssumption DEF FilesInv, VersionOfData, CreateData, None
<1>4. EnvdirOfVersion'
  BY SameEnvironment DEF FilesInv, EnvdirOfVersion, CreateData, VersionOf
<1> QED
  BY <1>1, <1>2, <1>3, <1>4 DEF FilesInv

LEMMA FilesRemoveData == FilesInv /\ RemoveData => FilesInv'
<1> SUFFICES ASSUME FilesInv, RemoveData PROVE FilesInv'
  OBVIOUS
<1>1. SectionsWrite'
  BY SameEnvironment DEF FilesInv, SectionsWrite, RemoveData
<1>2. ConfigOfVersion'
  BY DEF FilesInv, ConfigOfVersion, RemoveData
<1>3. VersionOfData'
  BY VersionsAssumption DEF FilesInv, VersionOfData, RemoveData, None
<1>4. EnvdirOfVersion'
  BY SameEnvironment DEF FilesInv, EnvdirOfVersion, RemoveData, VersionOf
<1> QED
  BY <1>1, <1>2, <1>3, <1>4 DEF FilesInv

LEMMA FilesSwitchData == FilesInv /\ SwitchData => FilesInv'
<1> SUFFICES ASSUME FilesInv, SwitchData PROVE FilesInv'
  OBVIOUS
<1>1. SectionsWrite'
  BY SameEnvironment DEF FilesInv, SectionsWrite, SwitchData
<1>2. ConfigOfVersion'
  BY DEF FilesInv, ConfigOfVersion, SwitchData
<1>3. VersionOfData'
  BY VersionsAssumption DEF FilesInv, VersionOfData, SwitchData, None
<1>4. EnvdirOfVersion'
  BY SameEnvironment DEF FilesInv, EnvdirOfVersion, SwitchData, VersionOf
<1> QED
  BY <1>1, <1>2, <1>3, <1>4 DEF FilesInv

LEMMA FilesUpdateConfigs == FilesInv /\ UpdateConfigs => FilesInv'
<1> SUFFICES ASSUME FilesInv, UpdateConfigs PROVE FilesInv'
  OBVIOUS
<1>1. /\ upgrading /\ ~upgrading' /\ config.written /\ data \in Versions
      /\ env \in Environments /\ config.bin_dir \in Versions
      /\ UNCHANGED <<env, pgversion, data, cloneEnvdir, mixed, foreign, configured>>
      /\ config' = [config EXCEPT !.bin_dir = data,
                                  !.libraries = append_extensions(@, data)]
      /\ envdir' = IF config.archive_command = "true" THEN envdir
                   ELSE [n \in DOMAIN envdir |-> patch_wale_prefix(envdir[n], data)]
  BY DEF FilesInv, VersionOfData, SectionsWrite, UpdateConfigs, update_configs
<1>2. /\ config'.written /\ config'.bin_dir = data
      /\ config' = [Configuration(env, data) EXCEPT
                        !.libraries = IF env.libraries THEN config'.libraries ELSE @]
  BY <1>1, ConfigUpdated DEF FilesInv
<1>3. ConfigOfVersion'
  BY <1>1, <1>2 DEF ConfigOfVersion
<1>4. VersionOfData'
  BY <1>1, <1>2 DEF FilesInv, VersionOfData
<1>5. USE_WALE(env) => config.archive_command # "true"
  BY <1>1 DEF FilesInv, ConfigOfVersion, Configuration, WALE_BINARY
<1>6. envdir # NoDir => envdir' = [n \in DOMAIN envdir |-> patch_wale_prefix(envdir[n], data)]
  BY <1>1, <1>5 DEF FilesInv, EnvdirOfVersion
<1>7. envdir = NoDir => envdir' = NoDir
  BY <1>1 DEF NoDir
<1>8. envdir # NoDir => envdir' # NoDir
  <2>1. envdir # NoDir => DOMAIN envdir \subseteq DOMAIN envdir'
    BY <1>6
  <2> QED
    BY <2>1, NotEmpty DEF FilesInv, EnvdirOfVersion
<1>9. EnvdirOfVersion'
  <2>1. IsFunction(envdir')
    BY <1>6, <1>7 DEF FilesInv, EnvdirOfVersion, IsFunction
  <2>2. VersionOf = config.bin_dir /\ VersionOf' = data
    BY <1>1, <1>2 DEF VersionOf
  <2>3. envdir # NoDir /\ ~mixed => Like(envdir, MainEnvdir(config.bin_dir))
    BY <2>2 DEF FilesInv, EnvdirOfVersion
  <2>4. envdir # NoDir /\ ~mixed => Like(envdir', MainEnvdir(data))
    BY <1>1, <1>6, <2>3, PatchedIsLike DEF MainEnvdir
  <2> QED
    BY <1>1, <1>7, <2>1, <2>2, <2>4, SameEnvironment DEF FilesInv, EnvdirOfVersion
<1>10. SectionsWrite'
  BY <1>1, <1>2, <1>8, SameEnvironment DEF FilesInv, SectionsWrite
<1> QED
  BY <1>3, <1>4, <1>9, <1>10 DEF FilesInv

\* The upgrade is cut: postgres.yml is as after the whole of it.
LEMMA FilesCutUpdateConfigs == FilesInv /\ CutUpdateConfigs => FilesInv'
<1> SUFFICES ASSUME FilesInv, CutUpdateConfigs PROVE FilesInv'
  OBVIOUS
<1>1. PICK patched \in SUBSET DOMAIN envdir :
        envdir' = [n \in DOMAIN envdir |->
                     IF n \in patched THEN patch_wale_prefix(envdir[n], data) ELSE envdir[n]]
  BY DEF CutUpdateConfigs
<1>2. /\ upgrading /\ ~upgrading' /\ mixed' /\ config.written /\ data \in Versions
      /\ env \in Environments
      /\ UNCHANGED <<env, pgversion, data, cloneEnvdir, foreign, configured>>
      /\ config' = [config EXCEPT !.bin_dir = data,
                                  !.libraries = append_extensions(@, data)]
  BY DEF FilesInv, VersionOfData, SectionsWrite, CutUpdateConfigs
<1>3. /\ config'.written /\ config'.bin_dir = data
      /\ config' = [Configuration(env, data) EXCEPT
                        !.libraries = IF env.libraries THEN config'.libraries ELSE @]
  BY <1>2, ConfigUpdated DEF FilesInv
<1>4. ConfigOfVersion'
  BY <1>2, <1>3 DEF ConfigOfVersion
<1>5. VersionOfData'
  BY <1>2, <1>3 DEF FilesInv, VersionOfData
<1>6. IsFunction(envdir')
  BY <1>1 DEF IsFunction
<1>7. envdir = NoDir => envdir' = NoDir
  BY <1>1 DEF NoDir
<1>8. DOMAIN envdir' = DOMAIN envdir
  BY <1>1
<1>9. envdir # NoDir => envdir' # NoDir
  BY <1>8, NotEmpty DEF FilesInv, EnvdirOfVersion
<1>10. EnvdirOfVersion'
  BY <1>2, <1>6, <1>7, SameEnvironment DEF FilesInv, EnvdirOfVersion
<1>11. SectionsWrite'
  BY <1>2, <1>3, <1>9, SameEnvironment DEF FilesInv, SectionsWrite
<1> QED
  BY <1>4, <1>5, <1>10, <1>11 DEF FilesInv

LEMMA FilesStutter == FilesInv /\ UNCHANGED filesVars => FilesInv'
<1> SUFFICES ASSUME FilesInv, UNCHANGED filesVars PROVE FilesInv'
  OBVIOUS
<1>1. SectionsWrite'
  BY SameEnvironment DEF FilesInv, SectionsWrite, filesVars
<1>2. ConfigOfVersion' /\ VersionOfData'
  BY DEF FilesInv, ConfigOfVersion, VersionOfData, filesVars
<1>3. EnvdirOfVersion'
  BY SameEnvironment DEF FilesInv, EnvdirOfVersion, filesVars, VersionOf
<1> QED
  BY <1>1, <1>2, <1>3 DEF FilesInv

LEMMA FilesInvariant == FilesSpec => []FilesInv
<1>1. FilesInv /\ [FilesNext]_filesVars => FilesInv'
  BY FilesFreshContainer, FilesRestartContainer, FilesCreateData, FilesRemoveData,
     FilesSwitchData, FilesUpdateConfigs, FilesCutUpdateConfigs, FilesStutter DEF FilesNext
<1> QED
  BY InitFiles, <1>1, PTL DEF FilesSpec

\* After any restarts, replacements and upgrades the files are those of the data,
\* whatever the environment: binaries, libraries and the prefixes of the archive
\* are what configure_spilo.py would write for it now (main, update_configs).
THEOREM FilesAreOfData == FilesSpec => []FilesFollowData
<1>1. FilesInv => FilesFollowData
  <2> SUFFICES ASSUME FilesInv, data # None, config.written, ~upgrading, ~mixed, ~foreign
               PROVE  /\ config = [Configuration(env, data) EXCEPT
                                      !.libraries = IF env.libraries THEN config.libraries ELSE @]
                      /\ envdir # NoDir =>
                           LET new == MainEnvdir(data) IN
                           /\ DOMAIN envdir = DOMAIN new
                           /\ \A n \in DOMAIN new :
                                new[n].place # "given" => envdir[n] = new[n]
    BY DEF FilesFollowData, MainEnvdir
  <2>1. config.bin_dir = data /\ VersionOf = data
    BY DEF FilesInv, VersionOfData, VersionOf
  <2>2. config = [Configuration(env, data) EXCEPT
                      !.libraries = IF env.libraries THEN config.libraries ELSE @]
    BY <2>1 DEF FilesInv, ConfigOfVersion
  <2>3. envdir # NoDir => Like(envdir, MainEnvdir(data))
    BY <2>1 DEF FilesInv, EnvdirOfVersion
  <2> QED
    BY <2>2, <2>3 DEF Like
<1> QED
  BY <1>1, FilesInvariant, PTL

-----------------------------------------------------------------------------
(* One store: what is written for it, and what its tools find *)

\* A tool that is switched on is used, if the store has a wal-g.
LEMMA OnIsUsed ==
    ASSUME NEW given \in Side, NEW side, Follows(side, given),
           Given(given, AUTO_ENABLE_WALG_RESTORE \union
                        {<<"WAL", "GS">>, <<"WALE", "GS">>, <<"WALG", "GS">>}),
           NEW name \in {"BACKUP", "RESTORE"},
           \/ given.switches[name] = "true"
           \/ given.switches[name] = "unset" /\ given.switches["USE_WALG"] = "true"
    PROVE  name \in set_walg_placeholders(side)
<1>1. name \in Switches /\ "USE_WALG" \in Switches
  BY DEF Switches
<1>2. side.given = given.given /\ side.switches[name] \in {"unset", "true", "false"}
  BY <1>1 DEF Follows, Side
<1>3. \/ side.switches[name] = "true"
      \/ side.switches[name] = "unset" /\ side.switches["USE_WALG"] = "true"
  BY <1>1, <1>2 DEF Follows
<1> QED
  BY <1>2, <1>3 DEF set_walg_placeholders, Given

\* The value of a prefix: given, or generated from the bucket.
BucketGiven(side, store) ==
    Given(side, {<<"WAL", store>>} \union (IF store = "GS" THEN {<<"WAL", "GCS">>} ELSE {}))

ValueOf(side, store, name, ends, version) ==
    IF name \in side.given THEN Prefix("given", ends)
    ELSE Prefix(IF BucketGiven(side, store) /\ side.scope THEN "bucket" ELSE "nowhere", version)

\* The envdir of a store with a prefix for each tool.
WithTwo(new, side, store, ends, version) ==
    /\ DOMAIN new = {<<"WALE", store>>, <<"WALG", store>>}
                      \union ({"USE_WALG"} \X set_walg_placeholders(side))
    /\ new[<<"WALE", store>>] = ValueOf(side, store, <<"WALE", store>>, ends, version)
    /\ new[<<"WALG", store>>] = IF <<"WALG", store>> \in side.given THEN Prefix("given", ends)
                               ELSE new[<<"WALE", store>>]

LEMMA EnvdirOfTwo ==
    ASSUME NEW side, NEW ends, NEW version, NEW store \in {"S3", "GS"},
           StoreOf(side) = <<<<"WALE", store>>, <<"WALG", store>>>>
    PROVE  WithTwo(write_wale_environment(side, ends, version), side, store, ends, version)
<1>1. \A a, b : /\ <<a, b>>[1] = a /\ <<a, b>>[2] = b /\ <<a, b>> # << >>
                /\ Range(<<a, b>>) = {a, b}
  BY DEF Range
<1>2. store # "SWIFT"
  OBVIOUS
<1> QED
  BY <1>1, <1>2 DEF write_wale_environment, ValueOf, BucketGiven, WithTwo

\* The envdir of a store with one prefix only.
WithOne(new, side, tool, store, ends, version) ==
    /\ DOMAIN new = {<<tool, store>>} \union
                    ({"USE_WALG"} \X (IF store = "SWIFT" THEN {} ELSE set_walg_placeholders(side)))
    /\ new[<<tool, store>>] = ValueOf(side, store, <<tool, store>>, ends, version)

LEMMA EnvdirOfOne ==
    ASSUME NEW side, NEW ends, NEW version, NEW tool, NEW store \in {"SWIFT", "AZ", "SSH"},
           tool # "USE_WALG", StoreOf(side) = <<<<tool, store>>>>
    PROVE  WithOne(write_wale_environment(side, ends, version), side, tool, store, ends, version)
<1>1. \A a : <<a>>[1] = a /\ <<a>> # << >> /\ Range(<<a>>) = {a}
  BY DEF Range
<1> DEFINE name == <<tool, store>>
           first == ValueOf(side, store, name, ends, version)
           written == {name} \union ({"USE_WALG"} \X (IF store = "SWIFT" THEN {}
                                                    ELSE set_walg_placeholders(side)))
           copied == IF store \in {"S3", "GS"} /\ StoreOf(side)[2] \notin side.given
                     THEN first ELSE Prefix("given", ends)
<1>2. name[1] = tool /\ name[2] = store
  OBVIOUS
<1>3. StoreOf(side)[1] = name /\ Range(StoreOf(side)) = {name} /\ StoreOf(side) # << >>
  BY <1>1
<1> HIDE DEF name
<1>4. write_wale_environment(side, ends, version) =
          [n \in written |-> IF n[1] = "USE_WALG" THEN Prefix("true", None)
                            ELSE IF n = name THEN first ELSE copied]
  BY <1>2, <1>3 DEF write_wale_environment, ValueOf, BucketGiven
<1> HIDE DEF first, copied
<1>5. /\ DOMAIN write_wale_environment(side, ends, version) = written
      /\ write_wale_environment(side, ends, version)[name] = first
  BY <1>2, <1>4
<1> QED
  BY <1>5 DEF first, name, WithOne

\* What the tools find in them.
LEMMA FoundInTwo ==
    ASSUME NEW dir, NEW tools, NEW store \in {"S3", "GS"},
           DOMAIN dir = {<<"WALE", store>>, <<"WALG", store>>} \union ({"USE_WALG"} \X tools)
    PROVE  /\ Found("WALE", dir) = {dir[<<"WALE", store>>]}
           /\ Found("WALG", dir) = {dir[<<"WALG", store>>]}
           /\ RestoreTool(dir) = IF "RESTORE" \in tools THEN "WALG" ELSE "WALE"
<1>1. <<"WALE", store>> \in Names /\ <<"WALG", store>> \in Names
  BY DEF Names, Stores
<1> QED
  BY <1>1 DEF Found, RestoreTool

FoundOne(dir, tool, store, tools) ==
    /\ Found(tool, dir) = {dir[<<tool, store>>]}
    /\ RestoreTool(dir) = IF "RESTORE" \in tools THEN "WALG" ELSE "WALE"

LEMMA FoundInOne ==
    ASSUME NEW dir, NEW tools, NEW tool \in {"WALE", "WALG"}, NEW store,
           <<tool, store>> \in Names,
           DOMAIN dir = {<<tool, store>>} \union ({"USE_WALG"} \X tools)
    PROVE  FoundOne(dir, tool, store, tools)
  BY DEF FoundOne, Found, RestoreTool

\* Of one store, the branch that is taken is that of the store.
LEMMA StoreOfGiven ==
    ASSUME NEW side, OneStore(side), StoreOf(side) # << >>
    PROVE  \/ /\ StoreOf(side) = <<<<"WALE", "S3">>, <<"WALG", "S3">>>>
              /\ side.given \subseteq {"WAL", "WALE", "WALG"} \X {"S3"}
              /\ Given(side, {<<"WAL", "S3">>, <<"WALE", "S3">>, <<"WALG", "S3">>})
           \/ /\ StoreOf(side) = <<<<"WALE", "GS">>, <<"WALG", "GS">>>>
              /\ side.given \subseteq ({"WAL", "WALE", "WALG"} \X {"GS"}) \union ({"WAL", "WALE"} \X {"GCS"})
              /\ Given(side, {<<"WAL", "GCS">>, <<"WAL", "GS">>, <<"WALE", "GS">>, <<"WALG", "GS">>})
           \/ /\ StoreOf(side) = <<<<"WALE", "SWIFT">>>>
              /\ side.given \subseteq {"WAL", "WALE"} \X {"SWIFT"}
              /\ Given(side, {<<"WAL", "SWIFT">>, <<"WALE", "SWIFT">>})
           \/ /\ StoreOf(side) = <<<<"WALG", "AZ">>>>
              /\ side.given \subseteq {"WAL", "WALG"} \X {"AZ"} /\ <<"WALG", "AZ">> \in side.given
           \/ /\ StoreOf(side) = <<<<"WALG", "SSH">>>>
              /\ side.given \subseteq SSHNames /\ <<"WALG", "SSH">> \in side.given
<1>1. PICK names \in StoreNames : side.given \subseteq names
  BY DEF OneStore
<1>2. CASE names = {"WAL", "WALE", "WALG"} \X {"S3"}
  <2>1. /\ ~Given(side, {<<"WAL", "GCS">>, <<"WAL", "GS">>, <<"WALE", "GS">>, <<"WALG", "GS">>})
        /\ ~Given(side, {"WAL", "WALE"} \X {"SWIFT"})
        /\ <<"WALG", "AZ">> \notin side.given /\ <<"WALG", "SSH">> \notin side.given
    BY <1>1, <1>2 DEF Given
  <2>2. Given(side, {"WAL", "WALE", "WALG"} \X {"S3"})
    BY <2>1 DEF StoreOf
  <2>3. StoreOf(side) = <<<<"WALE", "S3">>, <<"WALG", "S3">>>>
    BY <2>1, <2>2 DEF StoreOf
  <2>4. PICK n : n \in side.given /\ n \in {"WAL", "WALE", "WALG"} \X {"S3"}
    BY <2>2 DEF Given
  <2>5. n \in {<<"WAL", "S3">>, <<"WALE", "S3">>, <<"WALG", "S3">>}
    BY <2>4
  <2> QED
    BY <1>1, <1>2, <2>3, <2>4, <2>5 DEF Given
<1>3. CASE names = ({"WAL", "WALE", "WALG"} \X {"GS"}) \union ({"WAL", "WALE"} \X {"GCS"})
  <2>1. /\ ~Given(side, {"WAL", "WALE", "WALG"} \X {"S3"})
        /\ ~Given(side, {"WAL", "WALE"} \X {"SWIFT"})
        /\ <<"WALG", "AZ">> \notin side.given /\ <<"WALG", "SSH">> \notin side.given
    BY <1>1, <1>3 DEF Given
  <2>2. Given(side, {<<"WAL", "GCS">>, <<"WAL", "GS">>, <<"WALE", "GS">>, <<"WALG", "GS">>})
    BY <2>1 DEF StoreOf
  <2>3. StoreOf(side) = <<<<"WALE", "GS">>, <<"WALG", "GS">>>>
    BY <2>1, <2>2 DEF StoreOf
  <2> QED
    BY <1>1, <1>3, <2>2, <2>3
<1>4. CASE names = {"WAL", "WALE"} \X {"SWIFT"}
  <2>1. /\ ~Given(side, {"WAL", "WALE", "WALG"} \X {"S3"})
        /\ ~Given(side, {<<"WAL", "GCS">>, <<"WAL", "GS">>, <<"WALE", "GS">>, <<"WALG", "GS">>})
        /\ <<"WALG", "AZ">> \notin side.given /\ <<"WALG", "SSH">> \notin side.given
    BY <1>1, <1>4 DEF Given
  <2>2. Given(side, {"WAL", "WALE"} \X {"SWIFT"})
    BY <2>1 DEF StoreOf
  <2>3. StoreOf(side) = <<<<"WALE", "SWIFT">>>>
    BY <2>1, <2>2 DEF StoreOf
  <2>4. {"WAL", "WALE"} \X {"SWIFT"} = {<<"WAL", "SWIFT">>, <<"WALE", "SWIFT">>}
    OBVIOUS
  <2> QED
    BY <1>1, <1>4, <2>2, <2>3, <2>4
<1>5. CASE names = {"WAL", "WALG"} \X {"AZ"}
  <2>1. /\ ~Given(side, {"WAL", "WALE", "WALG"} \X {"S3"})
        /\ ~Given(side, {<<"WAL", "GCS">>, <<"WAL", "GS">>, <<"WALE", "GS">>, <<"WALG", "GS">>})
        /\ ~Given(side, {"WAL", "WALE"} \X {"SWIFT"})
        /\ <<"WALG", "SSH">> \notin side.given
    BY <1>1, <1>5 DEF Given
  <2>2. <<"WALG", "AZ">> \in side.given
    BY <2>1 DEF StoreOf
  <2>3. StoreOf(side) = <<<<"WALG", "AZ">>>>
    BY <2>1, <2>2 DEF StoreOf
  <2> QED
    BY <1>1, <1>5, <2>2, <2>3
<1>6. CASE names = SSHNames
  <2>1. /\ ~Given(side, {"WAL", "WALE", "WALG"} \X {"S3"})
        /\ ~Given(side, {<<"WAL", "GCS">>, <<"WAL", "GS">>, <<"WALE", "GS">>, <<"WALG", "GS">>})
        /\ ~Given(side, {"WAL", "WALE"} \X {"SWIFT"})
        /\ <<"WALG", "AZ">> \notin side.given
    BY <1>1, <1>6 DEF Given, SSHNames
  <2>2. <<"WALG", "SSH">> \in side.given
    BY <2>1 DEF StoreOf
  <2>3. StoreOf(side) = <<<<"WALG", "SSH">>>>
    BY <2>1, <2>2 DEF StoreOf
  <2> QED
    BY <1>1, <1>6, <2>2, <2>3
<1> QED
  BY <1>1, <1>2, <1>3, <1>4, <1>5, <1>6 DEF StoreNames

\* An archive is given well enough to be found, and in agreement with the switches.
WellGiven(side) ==
    \/ side.scope
    \/ \E store \in {"S3", "GS", "SWIFT", "AZ", "SSH"} :
         <<"WALE", store>> \in side.given \/ <<"WALG", store>> \in side.given

Agreed(side) ==
    \/ side.given \intersect ({"WALG"} \X (Stores \union {"SSH"})) = {}
    \/ \E store \in Stores : {<<"WALE", store>>, <<"WALG", store>>} \subseteq side.given
    \/ {"BACKUP", "RESTORE"} \subseteq set_walg_placeholders(side)

\* The tool that restores and the one that archives find one prefix, the same one.
IsFound(side, dir) ==
    \E prefix :
       /\ prefix.place # "nowhere"
       /\ Found(RestoreTool(dir), dir) = {prefix}
       /\ Found(IF "BACKUP" \in set_walg_placeholders(side) THEN "WALG" ELSE "WALE", dir)
            = {prefix}

LEMMA StoreIsFound ==
    ASSUME NEW side, OneStore(side), StoreOf(side) # << >>, WellGiven(side), Agreed(side),
           NEW ends, NEW version, NEW dir, Like(dir, write_wale_environment(side, ends, version))
    PROVE  IsFound(side, dir)
<1> DEFINE new == write_wale_environment(side, ends, version)
           tools == set_walg_placeholders(side)
<1>1. /\ DOMAIN dir = DOMAIN new
      /\ \A n \in DOMAIN new : IF new[n].place = "given" THEN dir[n].place = "given"
                               ELSE dir[n] = new[n]
      /\ \A n, m \in DOMAIN new : new[n].place = "given" /\ new[m].place = "given"
                                  => dir[n] = dir[m]
  <2>1. Prefix("given", 1).place = "given" /\ \A v : Prefix("given", v).place = "given"
    BY DEF Prefix
  <2> QED
    BY <2>1 DEF Like
<1>2. \A place, v : Prefix(place, v).place = place
  BY DEF Prefix
<1>3. ASSUME NEW store \in {"S3", "GS"},
             StoreOf(side) = <<<<"WALE", store>>, <<"WALG", store>>>>,
             \A other \in Stores \union {"SSH"} : other # store =>
                 /\ <<"WALG", other>> \notin side.given
                 /\ other # "GCS" => <<"WALE", other>> \notin side.given,
             \/ <<"WALE", store>> \in side.given \/ <<"WALG", store>> \in side.given
             \/ BucketGiven(side, store)
      PROVE  IsFound(side, dir)
  <2> DEFINE wale == <<"WALE", store>>
             walg == <<"WALG", store>>
  <2>1. /\ DOMAIN new = {wale, walg} \union ({"USE_WALG"} \X tools)
        /\ new[wale] = ValueOf(side, store, wale, ends, version)
        /\ new[walg] = IF walg \in side.given THEN Prefix("given", ends) ELSE new[wale]
    <3>1. store \in {"S3", "GS"} /\ StoreOf(side) = <<<<"WALE", store>>, <<"WALG", store>>>>
      BY <1>3
    <3>2. WithTwo(new, side, store, ends, version)
      BY <3>1, EnvdirOfTwo
    <3> HIDE DEF new
    <3> QED
      BY <3>2 DEF WithTwo
  <2>2. /\ Found("WALE", dir) = {dir[wale]} /\ Found("WALG", dir) = {dir[walg]}
        /\ RestoreTool(dir) = IF "RESTORE" \in tools THEN "WALG" ELSE "WALE"
    <3>1. DOMAIN dir = {<<"WALE", store>>, <<"WALG", store>>} \union ({"USE_WALG"} \X tools)
      BY <1>1, <2>1
    <3> HIDE DEF tools
    <3> QED
      BY <3>1, FoundInTwo
  <2> HIDE DEF new, tools
  <2>3. CASE wale \in side.given
    <3>1. new[wale].place = "given" /\ new[walg].place = "given" /\ wale \in DOMAIN new /\ walg \in DOMAIN new
      BY <1>2, <2>1, <2>3 DEF ValueOf
    <3>2. dir[wale] = dir[walg] /\ dir[wale].place = "given"
      BY <1>1, <3>1
    <3> QED
      BY <2>2, <3>2 DEF IsFound
  <2>4. CASE walg \in side.given /\ wale \notin side.given
    <3>1. "BACKUP" \in tools /\ "RESTORE" \in tools
      <4>1. side.given \intersect ({"WALG"} \X (Stores \union {"SSH"})) # {}
        BY <2>4 DEF Stores
      <4>2. \A other \in Stores : ~({<<"WALE", other>>, <<"WALG", other>>} \subseteq side.given)
        BY <1>3, <2>4
      <4> QED
        BY <4>1, <4>2 DEF Agreed, tools
    <3>2. dir[walg].place # "nowhere"
      BY <1>1, <1>2, <2>1, <2>4
    <3> QED
      BY <2>2, <3>1, <3>2 DEF IsFound, tools
  <2>5. CASE walg \notin side.given /\ wale \notin side.given
    <3>1. \A other \in {"S3", "GS", "SWIFT", "AZ", "SSH"} :
            <<"WALE", other>> \notin side.given /\ <<"WALG", other>> \notin side.given
      BY <1>3, <2>5 DEF Stores
    <3>2. BucketGiven(side, store) /\ side.scope
      BY <1>3, <2>5, <3>1 DEF WellGiven
    <3>3. new[wale].place = "bucket" /\ new[walg] = new[wale] /\ wale \in DOMAIN new /\ walg \in DOMAIN new
      BY <1>2, <2>1, <2>5, <3>2 DEF ValueOf
    <3>4. dir[wale] = new[wale] /\ dir[walg] = new[wale]
      BY <1>1, <3>3
    <3> QED
      BY <2>2, <3>3, <3>4 DEF IsFound, tools
  <2> QED
    BY <2>3, <2>4, <2>5
<1>4. ASSUME NEW tool \in {"WALE", "WALG"}, NEW store \in {"SWIFT", "AZ", "SSH"},
             StoreOf(side) = <<<<tool, store>>>>, <<tool, store>> \in Names,
             \/ <<tool, store>> \in side.given
             \/ <<"WAL", store>> \in side.given /\ side.scope,
             IF store = "SWIFT" THEN tool = "WALE" /\ "BACKUP" \notin tools
             ELSE tool = "WALG" /\ "BACKUP" \in tools /\ "RESTORE" \in tools
      PROVE  IsFound(side, dir)
  <2> DEFINE name == <<tool, store>>
             used == IF store = "SWIFT" THEN {} ELSE tools
  <2>1. /\ DOMAIN new = {name} \union ({"USE_WALG"} \X used)
        /\ new[name] = ValueOf(side, store, name, ends, version)
    <3>1. /\ store \in {"SWIFT", "AZ", "SSH"} /\ StoreOf(side) = <<<<tool, store>>>>
          /\ tool # "USE_WALG"
      BY <1>4
    <3>2. WithOne(new, side, tool, store, ends, version)
      BY <3>1, EnvdirOfOne
    <3> HIDE DEF new
    <3> QED
      BY <3>2 DEF WithOne
  <2>2. /\ Found(tool, dir) = {dir[name]}
        /\ RestoreTool(dir) = IF "RESTORE" \in used THEN "WALG" ELSE "WALE"
    <3>1. DOMAIN dir = {<<tool, store>>} \union ({"USE_WALG"} \X used)
      BY <1>1, <2>1
    <3>2. tool \in {"WALE", "WALG"} /\ <<tool, store>> \in Names
      BY <1>4
    <3> HIDE DEF used
    <3>3. FoundOne(dir, tool, store, used)
      BY <3>1, <3>2, FoundInOne
    <3> QED
      BY <3>3 DEF FoundOne
  <2> HIDE DEF new, tools
  <2>3. RestoreTool(dir) = tool /\ tool = IF "BACKUP" \in tools THEN "WALG" ELSE "WALE"
    BY <1>4, <2>2
  <2>4. new[name].place \in {"given", "bucket"} /\ name \in DOMAIN new
    BY <1>2, <1>4, <2>1 DEF ValueOf, BucketGiven, Given
  <2>5. dir[name].place # "nowhere"
    BY <1>1, <2>4
  <2> QED
    BY <2>2, <2>3, <2>5 DEF IsFound, tools
<1>5. CASE StoreOf(side) = <<<<"WALE", "S3">>, <<"WALG", "S3">>>>
  <2>1. /\ side.given \subseteq {"WAL", "WALE", "WALG"} \X {"S3"}
        /\ Given(side, {<<"WAL", "S3">>, <<"WALE", "S3">>, <<"WALG", "S3">>})
    BY <1>5, StoreOfGiven
  <2>2. \A other \in Stores \union {"SSH"} : other # "S3" =>
            /\ <<"WALG", other>> \notin side.given
            /\ other # "GCS" => <<"WALE", other>> \notin side.given
    BY <2>1
  <2>3. \/ <<"WALE", "S3">> \in side.given \/ <<"WALG", "S3">> \in side.given
        \/ BucketGiven(side, "S3")
    BY <2>1 DEF Given, BucketGiven
  <2> QED
    BY <1>3, <1>5, <2>2, <2>3
<1>6. CASE StoreOf(side) = <<<<"WALE", "GS">>, <<"WALG", "GS">>>>
  <2>1. /\ side.given \subseteq ({"WAL", "WALE", "WALG"} \X {"GS"}) \union ({"WAL", "WALE"} \X {"GCS"})
        /\ Given(side, {<<"WAL", "GCS">>, <<"WAL", "GS">>, <<"WALE", "GS">>, <<"WALG", "GS">>})
    BY <1>6, StoreOfGiven
  <2>2. \A other \in Stores \union {"SSH"} : other # "GS" =>
            /\ <<"WALG", other>> \notin side.given
            /\ other # "GCS" => <<"WALE", other>> \notin side.given
    BY <2>1
  <2>3. \/ <<"WALE", "GS">> \in side.given \/ <<"WALG", "GS">> \in side.given
        \/ BucketGiven(side, "GS")
    BY <2>1 DEF Given, BucketGiven
  <2> QED
    BY <1>3, <1>6, <2>2, <2>3
<1>7. CASE StoreOf(side) = <<<<"WALE", "SWIFT">>>>
  <2>1. /\ side.given \subseteq {"WAL", "WALE"} \X {"SWIFT"}
        /\ Given(side, {<<"WAL", "SWIFT">>, <<"WALE", "SWIFT">>})
    BY <1>7, StoreOfGiven
  <2>2. "BACKUP" \notin tools
    <3>1. ~Given(side, AUTO_ENABLE_WALG_RESTORE \union
                       {<<"WAL", "GS">>, <<"WALE", "GS">>, <<"WALG", "GS">>})
      BY <2>1 DEF Given, AUTO_ENABLE_WALG_RESTORE
    <3> QED
      BY <3>1 DEF set_walg_placeholders
  <2>3. \/ <<"WALE", "SWIFT">> \in side.given
        \/ <<"WAL", "SWIFT">> \in side.given /\ side.scope
    <3>1. \A store \in {"S3", "GS", "SWIFT", "AZ", "SSH"} :
            <<"WALG", store>> \notin side.given
            /\ (store # "SWIFT" => <<"WALE", store>> \notin side.given)
      BY <2>1
    <3> QED
      BY <2>1, <3>1 DEF Given, WellGiven
  <2>4. <<"WALE", "SWIFT">> \in Names
    BY DEF Names, Stores
  <2> QED
    BY <1>4, <1>7, <2>2, <2>3, <2>4
<1>8. CASE StoreOf(side) = <<<<"WALG", "AZ">>>>
  <2>1. side.given \subseteq {"WAL", "WALG"} \X {"AZ"} /\ <<"WALG", "AZ">> \in side.given
    BY <1>8, StoreOfGiven
  <2>2. <<"WALG", "AZ">> \in {"WALG"} \X (Stores \union {"SSH"}) /\ <<"WALG", "AZ">> \in Names
    BY DEF Names, Stores
  <2>3. \A store \in Stores : <<"WALE", store>> \notin side.given
    BY <2>1
  <2>4. "BACKUP" \in tools /\ "RESTORE" \in tools
    BY <2>1, <2>2, <2>3 DEF Agreed
  <2> QED
    BY <1>4, <1>8, <2>1, <2>2, <2>4
<1>9. CASE StoreOf(side) = <<<<"WALG", "SSH">>>>
  <2>1. side.given \subseteq SSHNames /\ <<"WALG", "SSH">> \in side.given
    BY <1>9, StoreOfGiven
  <2>2. <<"WALG", "SSH">> \in {"WALG"} \X (Stores \union {"SSH"}) /\ <<"WALG", "SSH">> \in Names
    BY DEF Names, SSHNames
  <2>3. \A store \in Stores : <<"WALE", store>> \notin side.given
    BY <2>1 DEF SSHNames
  <2>4. "BACKUP" \in tools /\ "RESTORE" \in tools
    BY <2>1, <2>2, <2>3 DEF Agreed
  <2> QED
    BY <1>4, <1>9, <2>1, <2>2, <2>4
<1> QED
  BY <1>5, <1>6, <1>7, <1>8, <1>9, StoreOfGiven

-----------------------------------------------------------------------------
(* The theorems *)

\* For Azure and SSH wal-g is the default of both tools.
LEMMA DefaultOfMain ==
    ASSUME NEW e \in Environments,
           <<"WALG", "AZ">> \in e.main.given \/ SSHNames \subseteq e.main.given,
           \A name \in Switches : e.main.switches[name] = "unset"
    PROVE  {"BACKUP", "RESTORE"} \subseteq set_walg_placeholders(MainSide(e))
<1> DEFINE restore == SetDefault(e.main, "RESTORE", "true")
           backup == SetDefault(restore, "BACKUP", "true")
<1>1. Given(e.main, AUTO_ENABLE_WALG_RESTORE)
  BY DEF Given, AUTO_ENABLE_WALG_RESTORE, SSHNames
<1>2. MainSide(e) = SetDefault(backup, "USE_WALG", "false")
  BY <1>1 DEF MainSide
<1>3. e.main \in Side /\ "true" \in Values3 /\ "false" \in Values3
  BY EnvironmentsAssumption DEF Values3
<1>4. "RESTORE" \in Switches /\ "BACKUP" \in Switches /\ "USE_WALG" \in Switches
  BY DEF Switches
<1>5. restore \in Side /\ restore.given = e.main.given
  BY <1>3, <1>4, SetDefaultKeeps
<1>6. e.main.switches["RESTORE"] = "unset" /\ e.main.switches["BACKUP"] = "unset"
  BY <1>4
<1>7. restore.switches["RESTORE"] = "true" /\ restore.switches["BACKUP"] = "unset"
  BY <1>3, <1>4, <1>6, SetDefaultSwitch
<1> HIDE DEF restore
<1>8. backup \in Side /\ backup.given = e.main.given
  BY <1>3, <1>4, <1>5, SetDefaultKeeps
<1>9. backup.switches["RESTORE"] = "true" /\ backup.switches["BACKUP"] = "true"
  <2>1. backup.switches["BACKUP"] = "true"
    BY <1>3, <1>4, <1>5, <1>7, SetDefaultSwitch
  <2>2. "RESTORE" # "BACKUP"
    OBVIOUS
  <2>3. backup.switches["RESTORE"] = restore.switches["RESTORE"]
    BY <1>3, <1>4, <1>5, <2>2, SetDefaultSwitch
  <2> QED
    BY <1>7, <2>1, <2>3
<1> HIDE DEF backup
<1>10. MainSide(e).given = e.main.given
  BY MainSideFollows DEF Follows
<1>11. MainSide(e).switches["RESTORE"] = "true" /\ MainSide(e).switches["BACKUP"] = "true"
  <2>1. "RESTORE" # "USE_WALG" /\ "BACKUP" # "USE_WALG"
    OBVIOUS
  <2>2. /\ MainSide(e).switches["RESTORE"] = backup.switches["RESTORE"]
        /\ MainSide(e).switches["BACKUP"] = backup.switches["BACKUP"]
    BY <1>2, <1>3, <1>4, <1>8, <2>1, SetDefaultSwitch
  <2> QED
    BY <1>9, <2>2
<1> QED
  BY <1>1, <1>10, <1>11 DEF set_walg_placeholders, Given

\* What the environment may ask for is enough for the tools to be found.
LEMMA ConsistentTools ==
    ASSUME NEW given \in Side, NEW side, Follows(side, given), NEW byDefault,
           Consistent(given, byDefault), StoreOf(side) # << >>, OneStore(given),
           byDefault /\ (\A name \in Switches : given.switches[name] = "unset")
             => {"BACKUP", "RESTORE"} \subseteq set_walg_placeholders(side)
    PROVE  Agreed(side)
<1>1. side.given = given.given /\ OneStore(side)
  BY DEF Follows, OneStore
<1>2. \/ given.given \intersect ({"WALG"} \X (Stores \union {"SSH"})) = {}
      \/ Given(given, AUTO_ENABLE_WALG_RESTORE \union
                      {<<"WAL", "GS">>, <<"WALE", "GS">>, <<"WALG", "GS">>})
  <2>1. ASSUME NEW store \in Stores \union {"SSH"}, <<"WALG", store>> \in given.given
        PROVE  <<"WALG", store>> \in AUTO_ENABLE_WALG_RESTORE \union
                      {<<"WAL", "GS">>, <<"WALE", "GS">>, <<"WALG", "GS">>}
    BY <2>1 DEF OneStore, StoreNames, SSHNames, Stores, AUTO_ENABLE_WALG_RESTORE
  <2> QED
    BY <2>1 DEF Given
<1> DEFINE On(name) == \/ given.switches[name] = "true"
                       \/ given.switches[name] = "unset" /\ given.switches["USE_WALG"] = "true"
<1>3. CASE On("BACKUP") /\ On("RESTORE")
  <2>1. CASE given.given \intersect ({"WALG"} \X (Stores \union {"SSH"})) = {}
    BY <1>1, <2>1 DEF Agreed
  <2>2. CASE Given(given, AUTO_ENABLE_WALG_RESTORE \union
                          {<<"WAL", "GS">>, <<"WALE", "GS">>, <<"WALG", "GS">>})
    <3>1. "BACKUP" \in set_walg_placeholders(side) /\ "RESTORE" \in set_walg_placeholders(side)
      BY <1>3, <2>2, OnIsUsed
    <3> QED
      BY <3>1 DEF Agreed
  <2> QED
    BY <1>2, <2>1, <2>2
<1> HIDE DEF On
<1>4. CASE \/ given.given \intersect ({"WALG"} \X (Stores \union {"SSH"})) = {}
           \/ \E s \in Stores : {<<"WALE", s>>, <<"WALG", s>>} \subseteq given.given
           \/ byDefault /\ \A name \in Switches : given.switches[name] = "unset"
  BY <1>1, <1>4 DEF Agreed
<1> QED
  BY <1>3, <1>4 DEF Consistent, On

\* However often containers are restarted, replaced and upgraded, the tool of the
\* restore_command finds the one prefix under which the tool of the archive_command
\* archives, if the environment gives one store (get_placeholders,
\* write_wale_environment, update_configs).
THEOREM ArchiveAgrees ==
    ASSUME \A e \in Environments : OneStore(e.main)
    PROVE  FilesSpec => []ArchiveIsFound
<1>1. ASSUME FilesInv, {"patroni", "wal-e"} \subseteq configured,
             config.archive_command # "true", ~mixed,
             Consistent(env.main, <<"WALG", "AZ">> \in env.main.given
                                  \/ SSHNames \subseteq env.main.given)
      PROVE  LET found == Found(RestoreTool(envdir), envdir) IN
             /\ Cardinality(found) = 1 /\ \A prefix \in found : prefix.place # "nowhere"
             /\ Found(config.archive_command, envdir) = found
  <2> DEFINE side == MainSide(env)
  <2>1. env \in Environments /\ config.written
    BY <1>1 DEF FilesInv, SectionsWrite
  <2>2. USE_WALE(env) /\ config.archive_command = WALE_BINARY(env)
    BY <1>1, <2>1 DEF FilesInv, ConfigOfVersion, Configuration
  <2>3. envdir # NoDir /\ Like(envdir, MainEnvdir(VersionOf))
    BY <1>1, <2>2 DEF FilesInv, SectionsWrite, EnvdirOfVersion
  <2>4. Follows(side, env.main) /\ env.main \in Side /\ env.main.scope
    BY <2>1, MainSideFollows, EnvironmentsAssumption
  <2>5. StoreOf(side) # << >>
    BY <2>1, <2>2, ArchiveHasStore
  <2>6. OneStore(env.main) /\ OneStore(side) /\ side.scope
    BY <2>1, <2>4 DEF OneStore, Follows
  <2>7. Agreed(side) /\ WellGiven(side)
    <3> HIDE DEF side
    <3>1. (<<"WALG", "AZ">> \in env.main.given \/ SSHNames \subseteq env.main.given)
          /\ (\A name \in Switches : env.main.switches[name] = "unset")
            => {"BACKUP", "RESTORE"} \subseteq set_walg_placeholders(side)
      BY <2>1, DefaultOfMain DEF side
    <3> QED
      BY <1>1, <2>4, <2>5, <2>6, <3>1, ConsistentTools DEF WellGiven
  <2>8. IsFound(side, envdir)
    <3>1. Like(envdir, write_wale_environment(side, env.ends, VersionOf))
      BY <2>3 DEF MainEnvdir
    <3> HIDE DEF side
    <3> QED
      BY <2>5, <2>6, <2>7, <3>1, StoreIsFound
  <2>9. PICK prefix :
          /\ prefix.place # "nowhere"
          /\ Found(RestoreTool(envdir), envdir) = {prefix}
          /\ Found(config.archive_command, envdir) = {prefix}
    BY <2>2, <2>8 DEF WALE_BINARY, IsFound
  <2> QED
    BY <2>9, FS_Singleton
<1>2. FilesInv => ArchiveIsFound
  BY <1>1 DEF ArchiveIsFound
<1> QED
  BY <1>2, FilesInvariant, PTL

\* A source that clone_with_wale is configured for has a branch of its own.
LEMMA CloneHasStore ==
    ASSUME NEW e \in Environments, CLONE_WITH_WALE(e), OneStore(e.clone),
           ~Given(e.clone, {<<"WALE", "GCS">>, <<"WAL", "AZ">>})
    PROVE  /\ Follows(CloneSide(e), e.clone) /\ StoreOf(CloneSide(e)) # << >>
           /\ WellGiven(e.clone)
<1>1. e.clone \in Side /\ Follows(e.clone, e.clone) /\ "USE_WALG" \in Switches /\ "true" \in Values3
  BY EnvironmentsAssumption, FollowsItself DEF Switches, Values3
<1>2. MainSide(e).switches["USE_WALG"] \in Values3
  BY <1>1, MainSideFollows DEF Follows, Side, Values3
<1>3. Follows(CloneSide(e), e.clone)
  <2> DEFINE first == IF "S3" \in set_extended_wale_placeholders(e.clone)
                      THEN SetDefault(e.clone, "USE_WALG", "true") ELSE e.clone
  <2>1. Follows(first, e.clone)
    BY <1>1, SetDefaultFollows
  <2>2. first \in Side
    BY <2>1 DEF Follows
  <2>3. CloneSide(e) = SetDefault(first, "USE_WALG", MainSide(e).switches["USE_WALG"])
    BY DEF CloneSide
  <2> HIDE DEF first
  <2> QED
    BY <1>1, <1>2, <2>1, <2>2, <2>3, SetDefaultFollows
<1>4. PICK n \in Stores : \/ <<"WALE", n>> \in e.clone.given
                          \/ n \in {"S3", "GS", "AZ"} /\ <<"WALG", n>> \in e.clone.given
                          \/ <<"WAL", n>> \in e.clone.given /\ e.clone.scope
  BY DEF CLONE_WITH_WALE, set_extended_wale_placeholders
<1>5. WellGiven(e.clone)
  BY <1>4 DEF WellGiven, Given, Stores
<1>6. <<"WALE", "AZ">> \notin e.clone.given
  BY DEF OneStore, StoreNames, SSHNames
<1>7. CloneSide(e).given = e.clone.given
  BY <1>3 DEF Follows
<1>8. \/ Given(CloneSide(e), {"WAL", "WALE", "WALG"} \X {"S3"})
      \/ Given(CloneSide(e), {<<"WAL", "GCS">>, <<"WAL", "GS">>, <<"WALE", "GS">>, <<"WALG", "GS">>})
      \/ Given(CloneSide(e), {"WAL", "WALE"} \X {"SWIFT"})
      \/ <<"WALG", "AZ">> \in CloneSide(e).given
  BY <1>4, <1>6, <1>7 DEF Given, Stores
<1>9. \A a, b : <<a, b>> # << >> /\ <<a>> # << >>
  OBVIOUS
<1>10. StoreOf(CloneSide(e)) # << >>
  BY <1>8, <1>9 DEF StoreOf
<1> QED
  BY <1>3, <1>5, <1>10

\* For S3 wal-g is the default.
LEMMA DefaultOfClone ==
    ASSUME NEW e \in Environments, <<"WALG", "S3">> \in e.clone.given,
           \A name \in Switches : e.clone.switches[name] = "unset"
    PROVE  {"BACKUP", "RESTORE"} \subseteq set_walg_placeholders(CloneSide(e))
<1> DEFINE first == SetDefault(e.clone, "USE_WALG", "true")
           value == MainSide(e).switches["USE_WALG"]
<1>1. /\ e.clone \in Side /\ "true" \in Values3
      /\ "RESTORE" \in Switches /\ "BACKUP" \in Switches /\ "USE_WALG" \in Switches
  BY EnvironmentsAssumption DEF Switches, Values3
<1>2. value \in Values3
  BY <1>1, MainSideFollows DEF Follows, Side, Values3
<1>3. "S3" \in set_extended_wale_placeholders(e.clone)
  BY DEF set_extended_wale_placeholders, Stores
<1>4. CloneSide(e) = SetDefault(first, "USE_WALG", value)
  BY <1>3 DEF CloneSide
<1>5. first \in Side /\ first.given = e.clone.given
  BY <1>1, SetDefaultKeeps
<1>6. "RESTORE" # "USE_WALG" /\ "BACKUP" # "USE_WALG"
  OBVIOUS
<1>7. first.switches["USE_WALG"] = "true"
  BY <1>1, SetDefaultSwitch
<1>8. first.switches["RESTORE"] = "unset" /\ first.switches["BACKUP"] = "unset"
  BY <1>1, <1>6, SetDefaultSwitch
<1> HIDE DEF first, value
<1>9. CloneSide(e).given = e.clone.given
  BY <1>1, <1>2, <1>4, <1>5, SetDefaultKeepsGiven
<1>10. CloneSide(e).switches["USE_WALG"] = "true"
  BY <1>1, <1>2, <1>4, <1>5, <1>7, SetDefaultSwitch
<1>11. CloneSide(e).switches["RESTORE"] = "unset" /\ CloneSide(e).switches["BACKUP"] = "unset"
  BY <1>1, <1>2, <1>4, <1>5, <1>6, <1>8, SetDefaultSwitch
<1>12. Given(CloneSide(e), AUTO_ENABLE_WALG_RESTORE)
  BY <1>9 DEF Given, AUTO_ENABLE_WALG_RESTORE
<1> QED
  BY <1>10, <1>11, <1>12 DEF set_walg_placeholders, Given

\* If clone_with_wale is configured, by one store, its tool finds the archive of the
\* source, in any of the containers (get_placeholders, write_wale_environment).
THEOREM CloneAgrees ==
    ASSUME \A e \in Environments : OneStore(e.clone)
    PROVE  FilesSpec => []CloneIsFound
<1>1. ASSUME FilesInv, "bootstrap" \in configured, CLONE_WITH_WALE(env),
             ~Given(env.clone, {<<"WALE", "GCS">>, <<"WAL", "AZ">>}),
             Consistent(env.clone, <<"WALG", "S3">> \in env.clone.given)
      PROVE  LET found == Found(RestoreTool(cloneEnvdir), cloneEnvdir) IN
             Cardinality(found) = 1 /\ \A prefix \in found : prefix.place # "nowhere"
  <2> DEFINE side == CloneSide(env)
  <2>1. env \in Environments /\ cloneEnvdir = CloneEnvdir
    BY <1>1 DEF FilesInv, SectionsWrite
  <2>2. env.clone \in Side /\ OneStore(env.clone)
    BY <2>1, EnvironmentsAssumption
  <2>3. Follows(side, env.clone) /\ StoreOf(side) # << >> /\ WellGiven(env.clone)
    BY <1>1, <2>1, <2>2, CloneHasStore
  <2>4. OneStore(side) /\ WellGiven(side)
    BY <2>2, <2>3 DEF OneStore, Follows, WellGiven
  <2>5. Agreed(side)
    <3>1. <<"WALG", "S3">> \in env.clone.given
          /\ (\A name \in Switches : env.clone.switches[name] = "unset")
            => {"BACKUP", "RESTORE"} \subseteq set_walg_placeholders(side)
      BY <2>1, DefaultOfClone
    <3> HIDE DEF side
    <3> QED
      BY <1>1, <2>2, <2>3, <3>1, ConsistentTools
  <2>6. IsFound(side, cloneEnvdir)
    <3>1. cloneEnvdir = write_wale_environment(side, env.ends, None)
      BY <2>1 DEF CloneEnvdir
    <3>2. Like(cloneEnvdir, write_wale_environment(side, env.ends, None))
      BY <3>1, EnvdirIsLike
    <3> HIDE DEF side
    <3> QED
      BY <2>3, <2>4, <2>5, <3>2, StoreIsFound
  <2>7. PICK prefix : prefix.place # "nowhere" /\ Found(RestoreTool(cloneEnvdir), cloneEnvdir) = {prefix}
    BY <2>6 DEF IsFound
  <2> QED
    BY <2>7, FS_Singleton
<1>2. FilesInv => CloneIsFound
  BY <1>1 DEF CloneIsFound
<1> QED
  BY <1>2, FilesInvariant, PTL

-----------------------------------------------------------------------------
(* WalFetch: the invariant *)

\* The actions of the prefetchers, which run beside every call.
Prefetcher == \E s \in Segments : Download(s) \/ Rename(s) \/ ExitTrap(s) \/ Killed(s)

\* The state of the call that the prefetchers do not write.
callVars == <<pc, segment, cursor, outcome, dest, code, archived>>

\* What is in PREFETCHDIR under the name of a segment, and what a prefetcher
\* is about to rename, the archive has.
FilesComplete ==
    /\ \A s \in files : s <= archived
    /\ \A s \in Segments : worker[s] = "got" => s <= archived

\* The result taken from PREFETCHDIR stays in place while the call cleans up.
FoundComplete ==
    pc \in {"cleardirs", "clearfiles"} /\ outcome = "found"
        => dest = "complete" /\ segment <= archived

\* The order of the two loops of clear_except: once the directories outside
\* the window are gone no prefetcher can add a file outside it.
Cleared ==
    /\ pc \in {"clearfiles", "get", "idle"} => running \subseteq Window
    /\ pc \in {"get", "idle"} => files \subseteq Window

\* No prefetcher is ahead of the window, and one that is still wanted has its
\* directory, so the test for the directory is a test for the prefetcher.
DirWhileWanted ==
    \A s \in Segments : worker[s] # "none" =>
        s <= segment + Prefetch /\ (s > segment => s \in running)

\* The loop looks at segments after SEGMENT only, and starts a prefetcher
\* only where the directory was missing.
LoopCursor ==
    /\ pc \in {"testdir", "testfile"} => cursor \in Window
    /\ pc = "testfile" => cursor \notin running

IInv ==
    /\ TypeOK /\ SuccessIsComplete /\ NoRefetch
    /\ FilesComplete /\ FoundComplete /\ Cleared /\ DirWhileWanted /\ LoopCursor

\* A prefetcher is started only for a segment that has none: the test for the
\* directory and the mkdir are two steps, and a directory may be removed under
\* a prefetcher that is at work (lines 119 and 197).
OnePrefetcher ==
    [][\A s \in Segments :
          worker[s] # "fetching" /\ worker'[s] = "fetching" => worker[s] = "none"]_vars

-----------------------------------------------------------------------------
(* The inductive invariant *)

\* Between two calls PREFETCHDIR holds only segments of the window.
LEMMA ClearedGivesNoStale == Cleared => NoStalePrefetch
  BY DEF Cleared, NoStalePrefetch

LEMMA IInvInit == Init => IInv
  BY WalFetchAssumption
     DEF Init, IInv, TypeOK, Segments, Window, SuccessIsComplete, NoRefetch,
         FilesComplete, FoundComplete, Cleared, DirWhileWanted, LoopCursor

LEMMA IInvStutter == IInv /\ UNCHANGED vars => IInv'
  BY DEF vars, IInv, TypeOK, Segments, Window, SuccessIsComplete, NoRefetch,
         FilesComplete, FoundComplete, Cleared, DirWhileWanted, LoopCursor

\* What the loop over the window needs of the numbers.
LEMMA WindowIsSegments ==
    ASSUME TypeOK
    PROVE  /\ Window \subseteq Segments
           /\ \A s \in Window : s > segment /\ s <= segment + Prefetch
  BY WalFetchAssumption DEF TypeOK, Window, Segments

\* The start of a call: what was true between calls is all that is known.
LEMMA IInvCall == IInv /\ Call => IInv'
<1> SUFFICES ASSUME IInv, Call PROVE IInv'
  OBVIOUS
<1> USE WalFetchAssumption DEF IInv, TypeOK, Segments, Call
<1>1. segment' \in 1 .. MaxSegment /\ segment' >= segment
  OBVIOUS
<1>2. TypeOK'
  BY <1>1
<1>3. (DirWhileWanted /\ LoopCursor)'
  BY <1>1 DEF DirWhileWanted, LoopCursor, Window
<1>4. (SuccessIsComplete /\ FoundComplete /\ Cleared)'
  BY DEF SuccessIsComplete, FoundComplete, Cleared
<1>5. (NoRefetch /\ FilesComplete)'
  BY DEF NoRefetch, FilesComplete
<1> QED
  BY <1>2, <1>3, <1>4, <1>5 DEF IInv

\* The loop that starts prefetchers.
LEMMA IInvLoop == IInv /\ (TestDir \/ TestFile) => IInv'
<1> SUFFICES ASSUME IInv, TestDir \/ TestFile PROVE IInv'
  OBVIOUS
<1> USE WalFetchAssumption DEF IInv
<1>1. cursor \in Window /\ cursor \in Segments /\ cursor > segment /\ cursor <= segment + Prefetch
  BY WindowIsSegments DEF LoopCursor, TestDir, TestFile
<1>2. UNCHANGED <<segment, outcome, dest, code, archived, files>> /\ Window' = Window
  BY DEF TestDir, TestFile, Window
<1>3. Advance => cursor' \in 1 .. MaxSegment + Prefetch + 1 /\ pc' \in {"testdir", "promote"}
                 /\ (pc' = "testdir" => cursor' \in Window)
  BY <1>1 DEF Advance, TypeOK, Window, Segments
<1>4. CASE TestDir
  <2>1. TypeOK' /\ LoopCursor'
    BY <1>1, <1>2, <1>3, <1>4 DEF TestDir, TypeOK, LoopCursor, Segments
  <2>2. (SuccessIsComplete /\ FoundComplete /\ Cleared)'
    BY <1>3, <1>4 DEF TestDir, SuccessIsComplete, FoundComplete, Cleared
  <2>3. (NoRefetch /\ FilesComplete /\ DirWhileWanted)'
    BY <1>4 DEF TestDir, NoRefetch, FilesComplete, DirWhileWanted
  <2> QED
    BY <2>1, <2>2, <2>3
<1>5. CASE TestFile
  <2>1. TypeOK' /\ LoopCursor'
    BY <1>1, <1>2, <1>3, <1>5 DEF TestFile, TypeOK, LoopCursor
  <2>2. (SuccessIsComplete /\ FoundComplete /\ Cleared)'
    BY <1>3, <1>5 DEF TestFile, SuccessIsComplete, FoundComplete, Cleared
  <2>3. (NoRefetch /\ FilesComplete /\ DirWhileWanted)'
    BY <1>1, <1>5 DEF TestFile, TypeOK, NoRefetch, FilesComplete, DirWhileWanted
  <2> QED
    BY <2>1, <2>2, <2>3
<1> QED
  BY <1>4, <1>5

\* Waiting for a prefetcher and taking its result.
LEMMA IInvPromote ==
    IInv /\ (Promote("promote", "size") \/ Promote("promote2", "cleardirs")) => IInv'
<1> SUFFICES ASSUME IInv, NEW from, NEW otherwise, Promote(from, otherwise),
                    <<from, otherwise>> \in {<<"promote", "size">>, <<"promote2", "cleardirs">>}
             PROVE  IInv'
  OBVIOUS
<1> USE DEF IInv, Promote
<1>1. TypeOK' /\ pc' \in {"size", "cleardirs"} /\ files' \subseteq files
  BY DEF TypeOK
<1>2. FoundComplete'
  BY DEF FoundComplete, FilesComplete
<1>3. (SuccessIsComplete /\ Cleared /\ LoopCursor)'
  BY <1>1 DEF SuccessIsComplete, Cleared, LoopCursor
<1>4. (NoRefetch /\ FilesComplete /\ DirWhileWanted)'
  BY <1>1 DEF NoRefetch, FilesComplete, DirWhileWanted
<1> QED
  BY <1>1, <1>2, <1>3, <1>4

LEMMA IInvWait == IInv /\ (DirMissing \/ DirGrown \/ DirStalled) => IInv'
<1> SUFFICES ASSUME IInv, DirMissing \/ DirGrown \/ DirStalled PROVE IInv'
  OBVIOUS
<1> USE DEF IInv
<1>1. /\ pc' \in {"promote", "promote2", "cleardirs"}
      /\ pc' = "cleardirs" => outcome' = "stalled"
      /\ outcome' \in {outcome, "stalled"}
      /\ UNCHANGED <<segment, cursor, dest, code, archived, running, files, worker>>
  BY DEF DirMissing, DirGrown, DirStalled
<1>2. TypeOK'
  BY <1>1 DEF TypeOK
<1>3. (SuccessIsComplete /\ FoundComplete /\ Cleared /\ LoopCursor)'
  BY <1>1 DEF SuccessIsComplete, FoundComplete, Cleared, LoopCursor
<1>4. (NoRefetch /\ FilesComplete /\ DirWhileWanted)'
  BY <1>1 DEF NoRefetch, FilesComplete, DirWhileWanted
<1> QED
  BY <1>2, <1>3, <1>4

\* clear_except: first the directories, then the files.
LEMMA IInvClear == IInv /\ (ClearDirs \/ ClearFiles) => IInv'
<1> SUFFICES ASSUME IInv, ClearDirs \/ ClearFiles PROVE IInv'
  OBVIOUS
<1> USE DEF IInv
<1>1. Window' = Window
  BY DEF ClearDirs, ClearFiles, Window
<1>2. CASE ClearDirs
  <2>1. TypeOK'
    BY <1>2 DEF ClearDirs, TypeOK
  <2>2. (SuccessIsComplete /\ FoundComplete /\ LoopCursor)'
    BY <1>2 DEF ClearDirs, SuccessIsComplete, FoundComplete, LoopCursor
  <2>3. Cleared'
    BY <1>1, <1>2 DEF ClearDirs, Cleared
  <2>4. (NoRefetch /\ FilesComplete)'
    BY <1>2 DEF ClearDirs, NoRefetch, FilesComplete
  <2>5. DirWhileWanted'
    BY <1>2 DEF ClearDirs, DirWhileWanted, Window, TypeOK, Segments
  <2> QED
    BY <2>1, <2>2, <2>3, <2>4, <2>5
<1>3. CASE ClearFiles
  <2>1. TypeOK'
    BY <1>3 DEF ClearFiles, TypeOK
  <2>2. (SuccessIsComplete /\ FoundComplete /\ LoopCursor)'
    BY <1>3 DEF ClearFiles, SuccessIsComplete, FoundComplete, LoopCursor, TypeOK
  <2>3. Cleared'
    BY <1>1, <1>3 DEF ClearFiles, Cleared
  <2>4. (NoRefetch /\ FilesComplete /\ DirWhileWanted)'
    BY <1>3 DEF ClearFiles, NoRefetch, FilesComplete, DirWhileWanted
  <2> QED
    BY <2>1, <2>2, <2>3, <2>4
<1> QED
  BY <1>2, <1>3

LEMMA IInvGet == IInv /\ (Get \/ Archive) => IInv'
<1> SUFFICES ASSUME IInv, Get \/ Archive PROVE IInv'
  OBVIOUS
<1> USE WalFetchAssumption DEF IInv
<1>1. /\ archived' \in 0 .. MaxSegment /\ archived' >= archived
      /\ UNCHANGED <<segment, cursor, outcome, running, files, worker>>
  BY DEF Get, Archive, TypeOK
<1>2. TypeOK'
  BY <1>1 DEF Get, Archive, TypeOK
<1>3. (SuccessIsComplete /\ FoundComplete)'
  BY <1>1 DEF Get, Archive, TypeOK, SuccessIsComplete, FoundComplete
<1>4. (NoRefetch /\ DirWhileWanted)'
  BY <1>1 DEF NoRefetch, DirWhileWanted
<1>5. FilesComplete'
  BY <1>1 DEF FilesComplete, TypeOK, Segments
<1>6. (Cleared /\ LoopCursor)'
  BY <1>1 DEF Get, Archive, Cleared, LoopCursor, Window
<1> QED
  BY <1>2, <1>3, <1>4, <1>5, <1>6

\* What a prefetcher does, whatever the call is doing meanwhile.
LEMMA IInvPrefetcher == IInv /\ Prefetcher => IInv'
<1> SUFFICES ASSUME IInv, NEW s \in Segments,
                    Download(s) \/ Rename(s) \/ ExitTrap(s) \/ Killed(s)
             PROVE  IInv'
  BY DEF Prefetcher
<1> USE DEF IInv
<1>1. /\ UNCHANGED callVars /\ Window' = Window
      /\ running' \subseteq running /\ running \subseteq running' \union {s}
      /\ files' = files \/ (files' = files \union {s} /\ worker[s] = "got" /\ s \in running)
      /\ worker'[s] # "fetching" /\ (worker'[s] = "got" => worker[s] = "fetching" /\ s <= archived)
      /\ worker' \in [Segments -> {"none", "fetching", "got", "ending"}]
      /\ \A t \in Segments \ {s} : worker'[t] = worker[t]
  BY DEF Download, Rename, ExitTrap, Killed, callVars, Window, TypeOK
<1>2. /\ worker[s] # "none"
      /\ files' = files \/ worker'[s] = "ending"
      /\ running' = running \/ worker'[s] = "none"
  BY DEF Download, Rename, ExitTrap, Killed, TypeOK
<1>3. TypeOK'
  BY <1>1 DEF callVars, TypeOK
<1>4. (SuccessIsComplete /\ FoundComplete)'
  BY <1>1 DEF callVars, SuccessIsComplete, FoundComplete
<1>5. (Cleared /\ LoopCursor)'
  BY <1>1 DEF callVars, Cleared, LoopCursor
<1>6. NoRefetch'
  BY <1>1, <1>2 DEF NoRefetch
<1>7. FilesComplete'
  BY <1>1 DEF callVars, FilesComplete
<1>8. DirWhileWanted'
  BY <1>1, <1>2 DEF callVars, DirWhileWanted
<1> QED
  BY <1>3, <1>4, <1>5, <1>6, <1>7, <1>8

LEMMA IInvNext == IInv /\ [Next]_vars => IInv'
  BY IInvStutter, IInvCall, IInvLoop, IInvPromote, IInvWait, IInvClear, IInvGet,
     IInvPrefetcher
     DEF Next, Script, Prefetcher

LEMMA Invariance == Spec => []IInv
  BY IInvInit, IInvNext, PTL DEF Spec

-----------------------------------------------------------------------------
(* What recovery and the disk rely on *)

\* Exit code 0 of a call means that the whole segment is in place.
THEOREM ReturnsWholeSegment == Spec => []SuccessIsComplete
<1>1. IInv => SuccessIsComplete
  BY DEF IInv
<1> QED
  BY <1>1, Invariance, PTL

\* No prefetcher works on a segment whose file is already there, although the
\* two tests before it starts are not synchronised with the others' renames.
THEOREM NothingFetchedTwice == Spec => []NoRefetch
<1>1. IInv => NoRefetch
  BY DEF IInv
<1> QED
  BY <1>1, Invariance, PTL

\* Between calls PREFETCHDIR has only files of the window, whatever stale
\* prefetchers are still at work.
THEOREM PrefetchDirBounded == Spec => []NoStalePrefetch
<1>1. IInv => NoStalePrefetch
  BY ClearedGivesNoStale DEF IInv
<1> QED
  BY <1>1, Invariance, PTL

\* There is one prefetcher for a segment at a time.
THEOREM PrefetchersAreAlone == Spec => OnePrefetcher
<1>1. ASSUME IInv, [Next]_vars, NEW s \in Segments,
             worker[s] # "fetching", worker'[s] = "fetching"
      PROVE  worker[s] = "none"
  <2>1. TestFile
    BY <1>1 DEF Next, Script, vars, IInv, TypeOK, Call, TestDir, Promote, DirMissing,
                DirGrown, DirStalled, ClearDirs, ClearFiles, Get, Archive, Download,
                Rename, ExitTrap, Killed
  <2>2. s = cursor
    BY <1>1, <2>1 DEF TestFile, IInv, TypeOK
  <2>3. s > segment /\ s \notin running
    BY <1>1, <2>1, <2>2, WindowIsSegments DEF TestFile, IInv, LoopCursor
  <2> QED
    BY <1>1, <2>3 DEF IInv, DirWhileWanted
<1>2. IInv /\ [Next]_vars =>
        [\A s \in Segments :
           worker[s] # "fetching" /\ worker'[s] = "fetching" => worker[s] = "none"]_vars
  BY <1>1
<1> QED
  BY <1>2, Invariance, PTL DEF Spec, OnePrefetcher
=============================================================================
