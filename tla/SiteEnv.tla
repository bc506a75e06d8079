------------------------------- MODULE SiteEnv -------------------------------
(***************************************************************************)
(* The environment one site's deployments run with.  Its values live in   *)
(* two stores, the legacy site_env_vars rows (components/sites) and the    *)
(* native secrets of the site's project, and move from the first to the    *)
(* second by a resumable migration (components/backup).  The resolver of   *)
(* components/deploy reads one store after the other while handlers edit   *)
(* the rows and the secrets and the migration copies them, and redacts     *)
(* what the build or the app prints.  Values are numbered by their write.  *)
(***************************************************************************)
EXTENDS Naturals

CONSTANTS
    EnvKeys,        \* environment variables of the site
    ManifestKeys,   \* those the repository's manifest sets
    ReservedKeys,   \* those the platform sets last (PORT, WRITABLE_DIR, DB_PATH)
    EnvCalls,       \* requests that edit the rows at the same time
    MaxEnvWrites    \* bound: edits of the rows and of the secrets

ASSUME EnvBounds ==
    /\ ManifestKeys \subseteq EnvKeys /\ ReservedKeys \subseteq EnvKeys
    /\ MaxEnvWrites \in Nat

VARIABLES
    envRow,         \* site_env_vars
    native,         \* secrets of the production environment, by key; 0 none
    hasProject,       \* sites.project_id is set
    checkpoint,     \* legacy_migration_checkpoints.state of the site
    envMig,         \* the migration: where it is, the rows it read, its report
    unreported,     \* keys the finishing run skipped when its report was lost
    envRes,         \* a resolution: where it is and what it has merged so far
    envCall,        \* the edits in progress
    envLog,         \* values that appear in the deployment's log
    envWrites,      \* bound: edits so far
    rowSince        \* auxiliary: rows and secrets edited since the migration read or wrote
                    \* them, or the resolution began to read

envVars == <<envRow, native, hasProject, checkpoint, envMig, unreported, envRes, envCall, envLog,
             envWrites, rowSince>>

\* Values of the layers that are no store; edits are numbered from FirstWrite on.
Unset == 0
ManifestValue == 1
ReservedValue == 2
LegacyValue == 3
NativeValue == 4
FirstWrite == 5

\* sealed: the row was encrypted with a key BigBase no longer has.
EnvRow(v, forBuild, forRun, sealed) ==
    [value |-> v, build |-> forBuild, runtime |-> forRun, sealed |-> sealed]
NoEnvRow == EnvRow(Unset, FALSE, FALSE, FALSE)
LegacyRows == {NoEnvRow} \cup {EnvRow(LegacyValue, FALSE, TRUE, s) : s \in BOOLEAN}

NoEnvCall == [at |-> "idle", key |-> Unset, todo |-> {}]
NoEnvMig == [at |-> "idle", rows |-> [k \in EnvKeys |-> NoEnvRow], todo |-> {}, skipped |-> {}]
NoEnvRes == [at |-> "idle", scope |-> "runtime", project |-> FALSE, todo |-> {}, secret |-> {},
             env |-> [k \in EnvKeys |-> IF k \in ManifestKeys THEN ManifestValue ELSE Unset]]
InScope(row, scope) == IF scope = "build" THEN row.build ELSE row.runtime

EnvInit ==
    /\ envRow \in [EnvKeys -> LegacyRows]
    /\ hasProject \in BOOLEAN
    /\ native \in [EnvKeys -> IF hasProject THEN {Unset, NativeValue} ELSE {Unset}]
    /\ checkpoint = "none"
    /\ envMig = NoEnvMig
    /\ unreported = {}
    /\ envRes = NoEnvRes
    /\ envCall = [c \in EnvCalls |-> NoEnvCall]
    /\ envLog = {}
    /\ envWrites = 0
    /\ rowSince = [migration |-> {}, secret |-> {}, resolution |-> {}, native |-> {}]

----------------------------------------------------------------------------
(* The edits.  Every one looks the row up, or inserts it, and then writes in *)
(* a statement of its own; a failed statement ends the request.              *)

EnvCallGoes(c, to) == envCall' = [envCall EXCEPT ![c] = to]

\* Edits are remembered while a resolution is on, and once a migration has read.
During(k) == {x \in {k} : envRes.at # "idle"}
Migrating(k) == {x \in {k} : checkpoint # "none" \/ envMig.at # "idle"}

WriteRow(k, row) ==
    /\ envWrites < MaxEnvWrites /\ envWrites' = envWrites + 1
    /\ envRow' = [envRow EXCEPT ![k] = row]
    /\ rowSince' = [rowSince EXCEPT !.migration = @ \cup Migrating(k),
                                    !.resolution = @ \cup During(k)]

\* createEnvVar: one INSERT, which UNIQUE(site_id, key) refuses for a key in use;
\* decodeEnvVarBody wants at least one of the two flags.
CreateEnvVar(k, forBuild, forRun) ==
    /\ forBuild \/ forRun
    /\ envRow[k] = NoEnvRow
    /\ WriteRow(k, EnvRow(FirstWrite + envWrites, forBuild, forRun, FALSE))
    /\ UNCHANGED <<native, hasProject, checkpoint, envMig, unreported, envRes, envCall, envLog>>

\* updateEnvVar and deleteEnvVar find the row and only then UPDATE or DELETE it.
LookupEnvVar(c, k, next) ==
    /\ envCall[c].at = "idle" /\ envRow[k] # NoEnvRow
    /\ EnvCallGoes(c, [at |-> next, key |-> k, todo |-> {}])
    /\ UNCHANGED <<envRow, native, hasProject, checkpoint, envMig, unreported, envRes, envLog, envWrites, rowSince>>

\* A row that is gone by now is not written back: the UPDATE matches nothing.
UpdateEnvVar(c, forBuild, forRun) ==
    /\ envCall[c].at = "update" /\ (forBuild \/ forRun)
    /\ LET k == envCall[c].key IN
         \/ envRow[k] # NoEnvRow /\ WriteRow(k, EnvRow(FirstWrite + envWrites, forBuild, forRun, FALSE))
         \/ envRow[k] = NoEnvRow /\ UNCHANGED <<envRow, envWrites, rowSince>>
    /\ EnvCallGoes(c, NoEnvCall)
    /\ UNCHANGED <<native, hasProject, checkpoint, envMig, unreported, envRes, envLog>>

DeleteEnvVar(c) ==
    /\ envCall[c].at = "delete"
    /\ WriteRow(envCall[c].key, NoEnvRow)
    /\ EnvCallGoes(c, NoEnvCall)
    /\ UNCHANGED <<native, hasProject, checkpoint, envMig, unreported, envRes, envLog>>

\* SetSiteEnvVars takes the keys in any order, each a lookup and then an INSERT or
\* an UPDATE, without a transaction around the batch.
SetSiteEnvVars(c, keys) ==
    /\ envCall[c].at = "idle" /\ keys # {}
    /\ EnvCallGoes(c, [at |-> "set", key |-> Unset, todo |-> keys])
    /\ UNCHANGED <<envRow, native, hasProject, checkpoint, envMig, unreported, envRes, envLog, envWrites, rowSince>>

SetLooksUp(c) ==
    /\ envCall[c].at = "set"
    /\ \E k \in envCall[c].todo :
         EnvCallGoes(c, [at |-> IF envRow[k] = NoEnvRow THEN "insert" ELSE "replace",
                         key |-> k, todo |-> envCall[c].todo \ {k}])
    /\ UNCHANGED <<envRow, native, hasProject, checkpoint, envMig, unreported, envRes, envLog, envWrites, rowSince>>

\* An INSERT that lost the race for the key ends the batch; an UPDATE of a row that
\* is gone matches nothing and the batch goes on.
SetWrites(c) ==
    LET k == envCall[c].key
        on == IF envCall[c].todo = {} THEN NoEnvCall ELSE [envCall[c] EXCEPT !.at = "set", !.key = Unset]
        there == envRow[k] # NoEnvRow
        fresh == EnvRow(FirstWrite + envWrites, FALSE, TRUE, FALSE)
    IN  /\ \/ envCall[c].at = "insert" /\ ~there /\ WriteRow(k, fresh) /\ EnvCallGoes(c, on)
           \/ envCall[c].at = "replace" /\ there /\ WriteRow(k, fresh) /\ EnvCallGoes(c, on)
           \/ /\ envCall[c].at = "replace" /\ ~there /\ EnvCallGoes(c, on)
              /\ UNCHANGED <<envRow, envWrites, rowSince>>
           \/ /\ envCall[c].at = "insert" /\ there /\ EnvCallGoes(c, NoEnvCall)
              /\ UNCHANGED <<envRow, envWrites, rowSince>>
        /\ UNCHANGED <<native, hasProject, checkpoint, envMig, unreported, envRes, envLog>>

\* A statement fails: the answer is an error and what was written stays written.
EnvCallFails(c) ==
    /\ envCall[c].at # "idle" /\ EnvCallGoes(c, NoEnvCall)
    /\ UNCHANGED <<envRow, native, hasProject, checkpoint, envMig, unreported, envRes, envLog, envWrites, rowSince>>

\* EnsureSiteProject makes the site a project of its own, with a production environment.
AttachProject ==
    /\ ~hasProject /\ hasProject' = TRUE
    /\ UNCHANGED <<envRow, native, checkpoint, envMig, unreported, envRes, envCall, envLog, envWrites, rowSince>>

\* CreateSecret, UpdateSecret and DeleteSecret for the members of the project: each
\* takes effect in its COMMIT.
WriteSecret(k, v) ==
    /\ envWrites < MaxEnvWrites /\ envWrites' = envWrites + 1
    /\ native' = [native EXCEPT ![k] = v]
    /\ rowSince' = [rowSince EXCEPT !.secret = @ \cup Migrating(k), !.native = @ \cup During(k)]
    /\ UNCHANGED <<envRow, hasProject, checkpoint, envMig, unreported, envRes, envCall, envLog>>

CreateSecret(k) == native[k] = Unset /\ WriteSecret(k, FirstWrite + envWrites)
UpdateSecret(k) == native[k] # Unset /\ WriteSecret(k, FirstWrite + envWrites)
DeleteSecret(k) == native[k] # Unset /\ WriteSecret(k, Unset)

----------------------------------------------------------------------------
(* The migration of the site, run by an operator; it may die at any step.   *)

MigGoes(mig) == envMig' = mig
CheckpointDone == checkpoint = "done"
MarkCheckpoint(state) == checkpoint' = state

\* MigrateLegacyValues skips a site that is done; migrateSite first reads its rows.
MigrateSite ==
    /\ envMig.at = "idle" /\ ~CheckpointDone
    /\ MigGoes([at |-> "read", rows |-> envRow, todo |-> {k \in EnvKeys : envRow[k].runtime},
                skipped |-> {}])
    /\ rowSince' = [rowSince EXCEPT !.migration = {}, !.secret = {}]
    /\ UNCHANGED <<envRow, native, hasProject, checkpoint, unreported, envRes, envCall, envLog, envWrites>>

\* A site without rows is done, one without a project waits for a later run.  The
\* build-only rows stay and are reported; one runtime row that cannot be decrypted
\* ends the run before anything is written.
ValidateRows ==
    LET there == {k \in EnvKeys : envMig.rows[k] # NoEnvRow}
        report == [envMig EXCEPT !.skipped = there \ envMig.todo]
    IN  /\ envMig.at = "read"
        /\ \/ /\ there = {} \/ (hasProject /\ envMig.todo = {})
              /\ MarkCheckpoint("done") /\ MigGoes([report EXCEPT !.at = "marked"])
           \/ /\ hasProject /\ envMig.todo # {} /\ \A k \in envMig.todo : ~envMig.rows[k].sealed
              /\ MarkCheckpoint("in_progress") /\ MigGoes([report EXCEPT !.at = "folder"])
           \/ there # {} /\ ~hasProject /\ MigGoes(NoEnvMig) /\ UNCHANGED checkpoint
        /\ UNCHANGED <<envRow, native, hasProject, unreported, envRes, envCall, envLog, envWrites, rowSince>>

EnsureDefaultFolder ==
    /\ envMig.at = "folder" /\ MigGoes([envMig EXCEPT !.at = "write"])
    /\ UNCHANGED <<envRow, native, hasProject, checkpoint, unreported, envRes, envCall, envLog, envWrites,
                   rowSince>>

\* CreateSecret, or UpdateSecret for a key that exists.  Every other error of
\* CreateSecret leaves the key on the report, also when only the re-read after its
\* COMMIT failed.
MigrateKey(k) ==
    /\ envMig.at = "write" /\ k \in envMig.todo
    /\ LET on == [envMig EXCEPT !.todo = @ \ {k}]
           failed == [on EXCEPT !.skipped = @ \cup {k}]
       IN  \/ /\ MigGoes(on) \/ (native[k] = Unset /\ MigGoes(failed))
              /\ native' = [native EXCEPT ![k] = envMig.rows[k].value]
              /\ rowSince' = [rowSince EXCEPT !.secret = @ \ {k}, !.native = @ \cup During(k)]
           \/ MigGoes(failed) /\ UNCHANGED <<native, rowSince>>
    /\ UNCHANGED <<envRow, hasProject, checkpoint, unreported, envRes, envCall, envLog, envWrites>>

\* A run that marks the site before it has written, as a two-line swap would.
MarkDoneEarly ==
    /\ envMig.at = "write"
    /\ MarkCheckpoint("done") /\ MigGoes([envMig EXCEPT !.at = "marked", !.todo = {}])
    /\ UNCHANGED <<envRow, native, hasProject, unreported, envRes, envCall, envLog, envWrites, rowSince>>

\* The site is marked, and the run goes on to the next one: its report is still to come.
MarkDone ==
    /\ envMig.at = "write" /\ envMig.todo = {}
    /\ MarkCheckpoint("done") /\ MigGoes([envMig EXCEPT !.at = "marked"])
    /\ UNCHANGED <<envRow, native, hasProject, unreported, envRes, envCall, envLog, envWrites, rowSince>>

\* After its last site MigrateLegacyValues returns the report of them all.
ReturnReport ==
    /\ envMig.at = "marked" /\ MigGoes([envMig EXCEPT !.at = "idle"])
    /\ UNCHANGED <<envRow, native, hasProject, checkpoint, unreported, envRes, envCall, envLog, envWrites,
                   rowSince>>

\* A read, the folder, an UpdateSecret or a checkpoint statement fails, of this site or
\* of a later one, or the run is killed: its report is lost, and a site that is marked
\* is not visited again.
MigrationDies ==
    /\ envMig.at # "idle" /\ MigGoes(NoEnvMig)
    /\ unreported' = IF envMig.at = "marked" THEN envMig.skipped ELSE unreported
    /\ UNCHANGED <<envRow, native, hasProject, checkpoint, envRes, envCall, envLog, envWrites, rowSince>>

----------------------------------------------------------------------------
(* A resolution, for a build or for a start.                                *)

\* ResolveOptions: the manifest's values, then ListSecrets of the project, if any.
ResolveBegins(scope) ==
    /\ envRes.at = "idle"
    /\ envRes' = [NoEnvRes EXCEPT !.at = "secrets", !.scope = scope, !.project = hasProject,
                                   !.todo = {k \in EnvKeys : hasProject /\ native[k] # Unset}]
    /\ rowSince' = [rowSince EXCEPT !.resolution = {}, !.native = {}]
    /\ UNCHANGED <<envRow, native, hasProject, checkpoint, envMig, unreported, envCall, envLog, envWrites>>

ReadSecretValue(k) ==
    /\ envRes.at = "secrets" /\ k \in envRes.todo /\ native[k] # Unset
    /\ envRes' = [envRes EXCEPT !.todo = @ \ {k}, !.secret = @ \cup {k}, !.env[k] = native[k]]
    /\ UNCHANGED <<envRow, native, hasProject, checkpoint, envMig, unreported, envCall, envLog, envWrites, rowSince>>

\* resolveSiteEnvVars: the rows of the scope override the secrets; the first row
\* that cannot be decrypted fails the resolution.  The reserved values come last.
Overlay(env, rows) ==
    [k \in EnvKeys |-> IF k \in ReservedKeys THEN ReservedValue
                       ELSE IF k \in rows THEN envRow[k].value ELSE env[k]]

ResolveSiteEnvVars ==
    LET rows == {k \in EnvKeys : InScope(envRow[k], envRes.scope)}
    IN  /\ envRes.at = "secrets" /\ envRes.todo = {}
        /\ \/ /\ \A k \in rows : ~envRow[k].sealed
              /\ envRes' = [envRes EXCEPT !.at = "given", !.secret = @ \cup rows,
                                          !.env = Overlay(@, rows)]
           \/ /\ \E k \in rows : envRow[k].sealed
              /\ envRes' = [NoEnvRes EXCEPT !.at = "failed"]
        /\ UNCHANGED <<envRow, native, hasProject, checkpoint, envMig, unreported, envCall, envLog, envWrites, rowSince>>

\* A statement fails, or a secret is gone that ListSecrets named.
ResolveFails ==
    /\ envRes.at = "secrets" /\ envRes' = [NoEnvRes EXCEPT !.at = "failed"]
    /\ UNCHANGED <<envRow, native, hasProject, checkpoint, envMig, unreported, envCall, envLog, envWrites, rowSince>>

\* RedactLogText: every value of a secret key of this resolution is masked.
RedactLogText(text) == text \ {envRes.env[k] : k \in envRes.secret}

\* The build's output, or a line the app prints, may hold any value it was given.
AppPrints ==
    /\ envRes.at = "given"
    /\ \E k \in EnvKeys : envLog' = envLog \cup RedactLogText({envRes.env[k]})
    /\ UNCHANGED <<envRow, native, hasProject, checkpoint, envMig, unreported, envRes, envCall, envWrites, rowSince>>

EnvNext ==
    \/ \E k \in EnvKeys, b, r \in BOOLEAN : CreateEnvVar(k, b, r)
    \/ \E c \in EnvCalls :
         \/ \E k \in EnvKeys : LookupEnvVar(c, k, "update") \/ LookupEnvVar(c, k, "delete")
         \/ \E b, r \in BOOLEAN : UpdateEnvVar(c, b, r)
         \/ \E ks \in SUBSET EnvKeys : SetSiteEnvVars(c, ks)
         \/ DeleteEnvVar(c) \/ SetLooksUp(c) \/ SetWrites(c) \/ EnvCallFails(c)
    \/ AttachProject
    \/ \E k \in EnvKeys : CreateSecret(k) \/ UpdateSecret(k) \/ DeleteSecret(k)
    \/ MigrateSite \/ ValidateRows \/ EnsureDefaultFolder \/ MarkDone \/ ReturnReport \/ MigrationDies
    \/ \E k \in EnvKeys : MigrateKey(k) \/ ReadSecretValue(k)
    \/ \E scope \in {"build", "runtime"} : ResolveBegins(scope)
    \/ ResolveSiteEnvVars \/ ResolveFails \/ AppPrints

EnvSpec == EnvInit /\ [][EnvNext]_envVars

----------------------------------------------------------------------------
EnvRows == {NoEnvRow} \cup [value : {LegacyValue} \cup FirstWrite .. (FirstWrite + MaxEnvWrites),
                            build : BOOLEAN, runtime : BOOLEAN, sealed : BOOLEAN]
EnvValues == 0 .. (FirstWrite + MaxEnvWrites)

EnvTypeOK ==
    /\ envRow \in [EnvKeys -> EnvRows]
    /\ native \in [EnvKeys -> EnvValues]
    /\ hasProject \in BOOLEAN
    /\ checkpoint \in {"none", "in_progress", "done"}
    /\ envMig \in [at : {"idle", "read", "folder", "write", "marked"}, rows : [EnvKeys -> EnvRows],
                   todo : SUBSET EnvKeys, skipped : SUBSET EnvKeys]
    /\ unreported \subseteq EnvKeys
    /\ envRes \in [at : {"idle", "secrets", "given", "failed"}, scope : {"build", "runtime"},
                   project : BOOLEAN, todo : SUBSET EnvKeys, secret : SUBSET EnvKeys, env : [EnvKeys -> EnvValues]]
    /\ envCall \in [EnvCalls -> [at : {"idle", "update", "delete", "set", "insert", "replace"},
                                 key : EnvKeys \cup {Unset}, todo : SUBSET EnvKeys]]
    /\ envLog \subseteq EnvValues /\ envWrites \in 0 .. MaxEnvWrites
    /\ rowSince \in [migration : SUBSET EnvKeys, secret : SUBSET EnvKeys, resolution : SUBSET EnvKeys,
                     native : SUBSET EnvKeys]

\* Once a site's checkpoint is done, through crashes, re-runs and edits of either store,
\* every runtime row that was not edited since the finishing run read it is in the
\* project with the same value, unless the secret was edited since the run wrote it, or
\* was skipped: then it is on the report, which the run still holds or has returned, or
\* the run was cut between the checkpoint and the report (migrateSite, markCheckpoint,
\* MigrateLegacyValues).  A report is lost only so.
MigrationComplete ==
    /\ checkpoint = "done" =>
         \A k \in EnvKeys \ rowSince.migration :
             envRow[k].runtime =>
                 \/ native[k] = envRow[k].value \/ k \in rowSince.secret
                 \/ k \in envMig.skipped \cup unreported
    /\ unreported # {} => checkpoint = "done" /\ envMig = NoEnvMig

\* What a deployment is given, whatever the handlers and the migration did while it
\* was resolved: the platform's value for a reserved key; the row's for a key whose
\* row was not edited meanwhile; otherwise, with no row in the scope, the secret's,
\* if it did not change either.  None of the stored values it was given reaches the
\* log (ResolveOptions, RedactLogText).
EnvDelivered ==
    envRes.at = "given" =>
        /\ \A k \in EnvKeys \ rowSince.resolution :
             envRes.env[k] =
                 IF k \in ReservedKeys THEN ReservedValue
                 ELSE IF InScope(envRow[k], envRes.scope) THEN envRow[k].value
                 ELSE IF k \in rowSince.native THEN envRes.env[k]
                 ELSE IF envRes.project /\ native[k] # Unset THEN native[k]
                 ELSE NoEnvRes.env[k]
        /\ \A v \in envLog : v \in {Unset, ManifestValue, ReservedValue}

\* What a deployment relies on, before, during and after the migration of its site's
\* environment (ResolveSiteEnvVars, migrateSite).
EnvCorrect == MigrationComplete /\ EnvDelivered

=============================================================================
