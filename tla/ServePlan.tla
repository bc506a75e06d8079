------------------------------ MODULE ServePlan ------------------------------
(***************************************************************************)
(* From a checkout to what serves it (components/deploy: engine.go,        *)
(* framework_mode.go, static_serve.go, manifest.go, node_pm.go, python.go, *)
(* runtimes.go, utils.go).  A deployment decides its app type from the     *)
(* request, the manifest or the files, builds, and then either serves a    *)
(* directory or starts a process.  A restart (orchestrator.go) and a       *)
(* rollback (rollback.go) decide again, from the app_type column and the   *)
(* build directory alone: they know neither the site's root_path, nor the  *)
(* request, nor the output directory of the framework.                     *)
(***************************************************************************)
EXTENDS Naturals, Sequences, FiniteSets

CONSTANTS
    Checkouts,      \* repositories: see CheckoutsType
    AppRequests,    \* triggers: the app_type they ask for ("" for none), and whether they name a manifest
    ToolSets,       \* what may be on the host's PATH
    MaxReplays      \* bound: restarts and rollbacks

AppTypes == {"node", "go", "python", "php", "rust", "java", "ruby", "static", "static-sidecar"}
PackageManagers == {"npm", "pnpm", "yarn", "bun"}
Bases == {"top", "pkg"}                                 \* the checkout, and the package root_path names
Rels == {".", "dist", "build", "public", "out"}
Places == Bases \X Rels

NoManifest == [framework |-> "", named |-> FALSE, numbers |-> TRUE, build |-> "", output |-> "", start |-> "",
               asgi |-> ""]

ASSUME CheckoutsType == \A c \in Checkouts :
    /\ c.root \in Bases             \* the site's root_path, as ResolveAppRoot resolves it
    /\ {c.files, c.deps, c.locks} \subseteq SUBSET STRING  \* markers; frameworks and adapters; lockfiles
    /\ c.index \subseteq Places     \* directories with an index.html
    /\ DOMAIN c.manifest = DOMAIN NoManifest /\ c.manifest.output \in Rels \cup {""}
    /\ c.pm \in PackageManagers \cup {""}   \* the packageManager field
    /\ c.pages \in Rels \cup {""}   \* pages: of svelte.config
    /\ c.scripts \subseteq {"web", "cli"}                       \* [project.scripts]
ASSUME PlanBounds == MaxReplays \in Nat /\ \A r \in AppRequests : r.named \in BOOLEAN

VARIABLES
    checkout,       \* the repository that is deployed; files is its set of marker files
    asked,          \* the trigger
    tools,          \* binaries on PATH
    corepack,       \* corepackEnableOnce and corepackEnableErr of this process
    stage, why,     \* where the pipeline stands, and why it ended
    appType,        \* appType of runDeployment
    stored,         \* the app_type column
    hint,           \* outDirHint
    dirs, index,    \* directories there are, and those with an index.html
    serveDir,
    startManifest,  \* the manifest startApp is given
    live, first,    \* what serves now, and what the deployment served first
    replays
planVars == <<checkout, asked, tools, corepack, stage, why, appType, stored, hint, dirs, index, serveDir,
              startManifest, live, first, replays>>

Nothing == <<>>
Down(reason) == stage' = "down" /\ why' = reason /\ live' = Nothing

PlanInit ==
    /\ checkout \in Checkouts /\ asked \in AppRequests /\ tools \in ToolSets
    /\ corepack = "untried" /\ stage = "clone" /\ why = ""
    /\ appType = "" /\ stored = "" /\ hint = ""
    /\ index = checkout.index /\ dirs = checkout.index
    /\ serveDir = <<"top", ".">> /\ startManifest = NoManifest
    /\ live = Nothing /\ first = Nothing /\ replays = 0

\* The markers below a directory (project stands for a pyproject.toml that names a project); the top of a monorepo has no app of its own.
Files(base) == IF base = checkout.root THEN checkout.files ELSE {}

----------------------------------------------------------------------------
(* Detection.                                                               *)

\* An ambiguous framework has a name and no type.
\* deps are the dependencies and the names in the config; server-output is output: server or hybrid.
NoFramework == [framework |-> "", type |-> "", out |-> ""]
DetectAstroMode(c) ==
    [framework |-> "astro", out |-> "dist",
     type |-> IF "server-output" \notin c.deps THEN "static" ELSE IF "@astrojs/node" \in c.deps THEN "node" ELSE ""]
DetectSvelteKitMode(c) ==
    LET adapters == c.deps \cap {"adapter-static", "adapter-node"} IN
    [framework |-> "sveltekit", out |-> IF c.pages # "" THEN c.pages ELSE "build",
     type |-> CASE adapters = {"adapter-static"} -> "static" [] adapters = {"adapter-node"} -> "node" [] OTHER -> ""]
DetectFrameworkMode(c) ==
    CASE "package.json" \notin c.files -> NoFramework
      [] "package.json" \in c.files /\ "astro" \in c.deps -> DetectAstroMode(c)
      [] "package.json" \in c.files /\ "astro" \notin c.deps /\ "kit" \in c.deps -> DetectSvelteKitMode(c)
      [] OTHER -> NoFramework

\* In the order they are looked for.
Detections == << <<"package.json", "node">>, <<"go.mod", "go">>, <<"Cargo.toml", "rust">>, <<"composer.json", "php">>,
                 <<"project", "python">>, <<"app.py", "python">>, <<"pom.xml", "java">>, <<"build.gradle", "java">>,
                 <<"Gemfile", "ruby">> >>
DetectAppType(c) ==
    LET found == {i \in DOMAIN Detections : Detections[i][1] \in c.files} IN
    IF DetectFrameworkMode(c).type # "" THEN DetectFrameworkMode(c).type
    ELSE IF found = {} THEN "static"
    ELSE Detections[CHOOSE i \in found : \A j \in found : i <= j][2]

\* The type and the output directory; no type when the deployment is refused.
Refused == [type |-> "", out |-> ""]
ResolveDeployAppType(c, explicit) ==
    LET fm == DetectFrameworkMode(c) IN
    CASE explicit = "" -> IF fm.framework # "" /\ fm.type = "" THEN Refused
                          ELSE [type |-> DetectAppType(c), out |-> fm.out]
      [] explicit = "static-sidecar" -> [type |-> explicit, out |-> ""]
      [] explicit \in AppTypes \ {"static-sidecar"} -> IF fm.type \notin {"", explicit} THEN Refused
                                                       ELSE [type |-> explicit, out |-> fm.out]
      [] OTHER -> Refused

ManifestAppType(m) == IF m.framework \in AppTypes THEN m.framework ELSE "node"
ValidFrameworks == AppTypes \cup {"sveltekit", "astro", "next", "vue", "react"}

\* numbers: the version is positive and the port is one.
Valid(m) == /\ m.framework \in ValidFrameworks /\ m.numbers /\ m.build # ""
            /\ m.start # "" \/ (m.framework = "python" /\ m.asgi # "")

\* nil for a missing manifest, and for an invalid one, which is only logged.
LoadManifest(base, named) ==
    LET m == checkout.manifest IN
    IF base = checkout.root /\ m.named = named /\ Valid(m) THEN m ELSE NoManifest

----------------------------------------------------------------------------
(* The directories.                                                         *)

FirstIndexed(candidates) ==
    LET hits == {i \in DOMAIN candidates : candidates[i] \in index} IN
    IF hits = {} THEN Nothing ELSE candidates[CHOOSE i \in hits : \A j \in hits : i <= j]

ResolvePureStaticServeDir(base, out) ==
    FirstIndexed((IF out # "" THEN << <<base, out>> >> ELSE << >>) \o << <<base, "public">>, <<base, ".">> >>)

FindStaticServeDirAfterNodeBuild(base, out) ==
    FirstIndexed((IF out # "" THEN << <<base, out>> >> ELSE << >>) \o << <<base, "dist">>, <<base, "build">> >>)

Static(dir) == <<"static", dir>>
Serves(dir) == stage' = "up" /\ live' = Static(dir) /\ UNCHANGED why

----------------------------------------------------------------------------
(* The commands, by their binary and what they run.                         *)

PmOrder == <<"bun", "pnpm", "yarn", "npm">>
\* The packageManager field, then the lockfiles, then npm.
DetectNodePackageManager(base) ==
    LET locked == {i \in DOMAIN PmOrder : PmOrder[i] \in checkout.locks} IN
    CASE "package.json" \in Files(base) /\ checkout.pm # "" -> checkout.pm
      [] ("package.json" \notin Files(base) \/ checkout.pm = "") /\ base = checkout.root /\ locked # {} ->
           PmOrder[CHOOSE i \in locked : \A j \in locked : i <= j]
      [] OTHER -> "npm"

\* What `bigbase init' writes into a checkout without a manifest.
InitManifest ==
    LET c == checkout
        a == [NoManifest EXCEPT !.build = "sh", !.start = "sh"]
        pm == DetectNodePackageManager(c.root)
    IN CASE "package.json" \in c.files /\ "kit" \in c.deps ->
              [a EXCEPT !.framework = "sveltekit", !.build = pm, !.output = "build", !.start = "node"]
         [] "package.json" \in c.files /\ "kit" \notin c.deps ->
              [a EXCEPT !.framework = "node", !.start = IF "start" \in c.files THEN pm ELSE "node"]
         [] "package.json" \notin c.files /\ "go.mod" \in c.files -> [a EXCEPT !.framework = "go", !.build = "go"]
         [] c.files \cap {"package.json", "go.mod"} = {} /\ "app.py" \in c.files ->
              [a EXCEPT !.framework = "python", !.start = "python"]
         [] OTHER -> [a EXCEPT !.framework = "static"]

\* Without a start script a build output without a page is taken to hold the server's index.js.
GetStartCommand(base) ==
    CASE {"package.json", "start"} \subseteq Files(base) -> "start"
      [] "package.json" \in Files(base) /\ "start" \notin Files(base) /\ <<base, "build">> \in dirs \ index ->
           "build/index.js"
      [] OTHER -> "index.js"
NodeStartCommand(base) == <<DetectNodePackageManager(base), GetStartCommand(base)>>

PythonBin == IF "python3" \in tools THEN "python3" ELSE "python"
\* The scripts are a Go map: with two of them either may be the entry point.
EntryPoints == IF checkout.scripts = {} THEN {""} ELSE checkout.scripts
\* The manifest's import, else the entry point unless it is a console script.
ASGIImport(m, entry) ==
    CASE m.asgi # "" -> m.asgi [] m.asgi = "" /\ entry = "web" -> entry [] OTHER -> "app:app"
PythonStartCommands(base, m) ==
    LET bin == IF "uv" \in tools THEN "uv" ELSE PythonBin IN
    CASE "pyproject.toml" \notin Files(base) -> {<<PythonBin, "app.py">>}
      [] {"pyproject.toml", "uvicorn"} \subseteq Files(base) -> {<<bin, "uvicorn", ASGIImport(m, s)>> : s \in EntryPoints}
      [] OTHER -> {IF s = "" THEN <<bin, "app.py">> ELSE <<bin, "-m", s>> : s \in EntryPoints}

PHPStartCommand(base) == <<"php", IF <<base, "public">> \in dirs THEN "public" ELSE ".">>
RubyStartCommand(base) == <<"bundle", IF "config.ru" \in Files(base) THEN "rackup" ELSE "app.rb">>
JavaJarPath(base) ==
    CASE "app.jar" \in Files(base) -> "app.jar"
      [] "app.jar" \notin Files(base) /\ "pom.xml" \notin Files(base) /\ "build.gradle" \in Files(base) -> "build/libs"
      [] OTHER -> "target"

\* Empty when there is no start command for the type.
StartCommands(base, type, m) ==
    CASE m.start # "" -> {<<m.start, "manifest">>}
      [] m.start = "" /\ type = "node" -> {NodeStartCommand(base)}
      [] m.start = "" /\ type = "go" -> {<<"./app">>}
      [] m.start = "" /\ type = "python" -> PythonStartCommands(base, m)
      [] m.start = "" /\ type = "php" -> {PHPStartCommand(base)}
      [] m.start = "" /\ type = "rust" -> {<<"target/release">>}
      [] m.start = "" /\ type = "java" -> {<<"java", JavaJarPath(base)>>}
      [] m.start = "" /\ type = "ruby" -> {RubyStartCommand(base)}
      [] OTHER -> {}

\* The tool a build of the type runs, and the ones it looks for first.
JavaBuildCommand(base) == CASE "pom.xml" \in Files(base) -> "mvn"
                            [] "pom.xml" \notin Files(base) /\ "gradlew" \in Files(base) -> "./gradlew"
                            [] OTHER -> "gradle"
BuildTool(base) ==
    CASE startManifest.build # "" -> startManifest.build
      [] startManifest.build = "" /\ appType = "node" -> DetectNodePackageManager(base)
      [] startManifest.build = "" /\ appType = "go" -> "go"
      [] startManifest.build = "" /\ appType = "rust" -> "cargo"
      [] startManifest.build = "" /\ appType = "php" -> "composer"
      [] startManifest.build = "" /\ appType = "java" -> JavaBuildCommand(base)
      [] startManifest.build = "" /\ appType = "ruby" -> "bundle"
      [] startManifest.build = "" /\ appType = "python" ->
           IF "project" \in Files(base) /\ "uv" \in tools THEN "uv" ELSE "pip"
      [] OTHER -> "none"
ToolMissing(base) ==
    /\ startManifest.build = ""
    /\ \/ appType \in {"go", "rust", "php", "ruby"} /\ BuildTool(base) \notin tools
       \/ appType = "php" /\ "php" \notin tools
       \/ appType = "java" /\ Files(base) \cap {"pom.xml", "build.gradle"} # {}
          /\ BuildTool(base) \notin tools \cup {"./gradlew"}
       \/ appType = "python" /\ tools \cap {"python3", "python"} = {}

----------------------------------------------------------------------------
(* The pipeline.                                                            *)

Clone ==
    /\ stage = "clone" /\ stage' = "resolve"
    /\ UNCHANGED <<checkout, asked, tools, corepack, why, appType, stored, hint, dirs, index, serveDir,
                   startManifest, live, first, replays>>

CloneFails ==
    /\ stage = "clone" /\ Down("clone")
    /\ UNCHANGED <<checkout, asked, tools, corepack, appType, stored, hint, dirs, index, serveDir,
                   startManifest, first, replays>>

\* The request decides, then the manifest, then the files.
Resolve ==
    /\ stage = "resolve"
    /\ LET m == LoadManifest(checkout.root, asked.named)
           r == IF asked.type = "" /\ m # NoManifest THEN [type |-> ManifestAppType(m), out |-> ""]
                ELSE ResolveDeployAppType(checkout, asked.type)
       IN /\ startManifest' = m
          /\ appType' = r.type /\ hint' = r.out
          /\ IF r.type = "" THEN Down("refused") /\ UNCHANGED stored
             ELSE stage' = "plan" /\ stored' = r.type /\ UNCHANGED <<why, live>>
    /\ serveDir' = <<checkout.root, ".">>
    /\ UNCHANGED <<checkout, asked, tools, corepack, dirs, index, first, replays>>

NeedsNodeBuild == "package.json" \in checkout.files /\ <<checkout.root, ".">> \notin index

PureStatic ==
    /\ stage = "plan" /\ appType = "static" /\ ~NeedsNodeBuild
    /\ LET dir == ResolvePureStaticServeDir(checkout.root, hint)
       IN IF dir = Nothing THEN Down("static_output_missing") /\ UNCHANGED <<serveDir, first>>
          ELSE Serves(dir) /\ serveDir' = dir /\ first' = Static(dir)
    /\ UNCHANGED <<checkout, asked, tools, corepack, appType, stored, hint, dirs, index, startManifest, replays>>

\* A static site that has to be built is built as a Node app; the column keeps "static".
PlanBuild ==
    /\ stage = "plan" /\ (appType = "static" => NeedsNodeBuild)
    /\ appType' = (IF appType = "static" THEN "node" ELSE appType)
    /\ stage' = "tools"
    /\ UNCHANGED <<checkout, asked, tools, corepack, why, stored, hint, dirs, index, serveDir, startManifest, live,
                   first, replays>>

\* ensureNodePackageManager; corepack is asked once in the life of the process, whatever came of it.
Ensured(pm) == pm \in tools \/ pm \notin PackageManagers
EnableCorepack(pm) ==
    /\ pm \in {"pnpm", "yarn"} \ tools /\ corepack = "untried"
    /\ \/ corepack' = "enabled" /\ tools' = tools \cup {"pnpm", "yarn"}
       \/ corepack' = "failed" /\ UNCHANGED tools
    /\ UNCHANGED <<checkout, asked, stage, why, appType, stored, hint, dirs, index, serveDir, startManifest, live,
                   first, replays>>
PmMissing(pm) == pm \in PackageManagers \ tools /\ (pm \in {"pnpm", "yarn"} => corepack # "untried")

EnsureBuildTools ==
    LET pm == BuildTool(checkout.root) IN
    /\ stage = "tools"
    /\ \/ EnableCorepack(pm)
       \/ /\ PmMissing(pm) \/ ToolMissing(checkout.root)
          /\ Down("tool_missing")
          /\ UNCHANGED <<checkout, asked, tools, corepack, appType, stored, hint, dirs, index, serveDir, startManifest,
                         first, replays>>
       \/ /\ Ensured(pm) /\ ~ToolMissing(checkout.root)
          /\ stage' = (IF startManifest = NoManifest /\ appType = "node" THEN "install" ELSE "build")
          /\ UNCHANGED <<checkout, asked, tools, corepack, why, appType, stored, hint, dirs, index, serveDir,
                         startManifest, live, first, replays>>

HasNodeBuildScript == {"package.json", "script"} \subseteq checkout.files

\* The install, or a hit of the cache; only then is the build script looked for.
NodeInstall ==
    /\ stage = "install"
    /\ \/ HasNodeBuildScript /\ stage' = "build" /\ UNCHANGED <<why, live>>
       \/ Down("build")
    /\ UNCHANGED <<checkout, asked, tools, corepack, appType, stored, hint, dirs, index, serveDir, startManifest,
                   first, replays>>

\* A build leaves output directories, with or without a page.
BuildApp ==
    /\ stage = "build" /\ BuildTool(checkout.root) \in tools \cup {"./gradlew", "none"}
    /\ \E made \in SUBSET {<<checkout.root, r>> : r \in {"dist", "build", "out"}} :
          \E paged \in SUBSET made :
             /\ BuildTool(checkout.root) = "none" => made = {}
             /\ dirs' = dirs \cup made /\ index' = index \cup paged
    /\ stage' = "promote"
    /\ UNCHANGED <<checkout, asked, tools, corepack, why, appType, stored, hint, serveDir, startManifest, live, first,
                   replays>>

BuildAppFails ==
    /\ stage = "build" /\ BuildTool(checkout.root) # "none" /\ Down("build")
    /\ UNCHANGED <<checkout, asked, tools, corepack, appType, stored, hint, dirs, index, serveDir, startManifest,
                   first, replays>>

\* The manifest's output if it is there; without one, the output of a Node build that has a page.
Promoted ==
    LET output == <<checkout.root, startManifest.output>> IN
    CASE startManifest.output # "" -> IF output \in dirs THEN output ELSE Nothing
      [] startManifest.output = "" /\ appType = "node" -> FindStaticServeDirAfterNodeBuild(checkout.root, hint)
      [] OTHER -> Nothing
Promote ==
    /\ stage = "promote"
    /\ IF Promoted = Nothing THEN stage' = "start" /\ UNCHANGED <<appType, stored, serveDir>>
       ELSE stage' = "static" /\ appType' = "static" /\ stored' = "static" /\ serveDir' = Promoted
    /\ UNCHANGED <<checkout, asked, tools, corepack, why, hint, dirs, index, startManifest, live, first, replays>>

RequireStaticIndex(dir) == dir \in index

ServeBuilt ==
    /\ stage = "static"
    /\ IF RequireStaticIndex(serveDir) THEN Serves(serveDir) /\ first' = Static(serveDir)
       ELSE Down("static_output_missing") /\ UNCHANGED first
    /\ UNCHANGED <<checkout, asked, tools, corepack, appType, stored, hint, dirs, index, serveDir, startManifest,
                   replays>>

\* startApp, of the pipeline, of a restart and of a rollback.
StartApp ==
    LET base == serveDir[1]
        cmds == StartCommands(base, appType, startManifest)
        pm == IF startManifest.start # "" THEN startManifest.start
              ELSE IF appType = "node" THEN DetectNodePackageManager(base) ELSE "none"
    IN /\ stage = "start"
       /\ \/ EnableCorepack(pm)
          \/ /\ PmMissing(pm) \/ cmds = {}
             /\ Down("no_command")
             /\ UNCHANGED <<checkout, asked, tools, corepack, appType, stored, hint, dirs, index, serveDir,
                            startManifest, first, replays>>
          \/ /\ Ensured(pm)
             /\ \E cmd \in cmds : /\ live' = <<"process", serveDir, cmd>>
                                  /\ first' = IF replays = 0 THEN live' ELSE first
             /\ stage' = "up"
             /\ UNCHANGED <<checkout, asked, tools, corepack, why, appType, stored, hint, dirs, index, serveDir,
                            startManifest, replays>>

----------------------------------------------------------------------------
(* Served again.                                                            *)

\* Of a static site: dist, public and the top, then build, public and the top.
ReplayDir ==
    LET dist == ResolvePureStaticServeDir("top", "dist") IN
    IF dist # Nothing THEN dist ELSE ResolvePureStaticServeDir("top", "build")
ReplayStatic ==
    IF ReplayDir = Nothing THEN Down("static_output_missing") /\ UNCHANGED serveDir
    ELSE Serves(ReplayDir) /\ serveDir' = ReplayDir
ReplayProcess(m) ==
    /\ stage' = "start" /\ live' = Nothing /\ serveDir' = <<"top", ".">> /\ startManifest' = m
    /\ UNCHANGED why

\* The plausible bug: every Node app is promoted, pages or not.
ResumesEveryNode == stored \in {"static", "node"}

\* resumeCandidates: a Node app that has pages is promoted again, as at deploy time; the manifest
\* is looked for where a checkout without root_path has it.  The new process has asked no corepack.
ResumesStatic == stored = "static" \/ (stored = "node" /\ FindStaticServeDirAfterNodeBuild("top", "") # Nothing)
Resume ==
    /\ stage = "up" /\ replays < MaxReplays /\ replays' = replays + 1
    /\ corepack' = "untried" /\ appType' = (IF ResumesStatic THEN "static" ELSE stored)
    /\ IF ResumesStatic THEN ReplayStatic /\ UNCHANGED startManifest
       ELSE ReplayProcess(LoadManifest("top", FALSE))
    /\ UNCHANGED <<checkout, asked, tools, stored, hint, dirs, index, first>>

\* Rollback to this deployment, which another one has replaced meanwhile; startApp gets no manifest.
RollbackTo ==
    /\ stage = "up" /\ replays < MaxReplays /\ replays' = replays + 1
    /\ appType' = stored
    /\ IF stored = "static" THEN ReplayStatic /\ UNCHANGED startManifest ELSE ReplayProcess(NoManifest)
    /\ UNCHANGED <<checkout, asked, tools, corepack, stored, hint, dirs, index, first>>

PlanNext ==
    \/ Clone \/ CloneFails \/ Resolve \/ PureStatic \/ PlanBuild \/ EnsureBuildTools \/ NodeInstall
    \/ BuildApp \/ BuildAppFails \/ Promote \/ ServeBuilt \/ StartApp \/ Resume \/ RollbackTo

PlanSpec == PlanInit /\ [][PlanNext]_planVars

----------------------------------------------------------------------------
\* Every variable has its type.
PlanTypeOK ==
    /\ checkout \in Checkouts /\ asked \in AppRequests /\ corepack \in {"untried", "enabled", "failed"}
    /\ stage \in {"clone", "resolve", "plan", "tools", "install", "build", "promote", "static", "start", "up", "down"}
    /\ appType \in AppTypes \cup {""} /\ stored \in AppTypes \cup {""} /\ hint \in Rels \cup {""}
    /\ index \subseteq dirs /\ dirs \subseteq Places /\ serveDir \in Places /\ replays \in 0..MaxReplays

\* Whatever serves files, a new deployment, a restart or a rollback, serves a directory with an
\* index.html and never a listing of the checkout (engine.go:364, orchestrator.go:79-87,
\* rollback.go:128-131).
NeverLists == stage = "up" /\ live[1] = "static" => live[2] \in index

\* What a restart or a rollback can get right from the column and the build directory alone: the
\* app is the whole checkout, nothing was taken from a manifest, one directory at most has a page
\* and it is one they look into, the column tells what was started, and there are no two scripts.
Recoverable ==
    /\ checkout.root = "top" /\ ~Valid(checkout.manifest)
    /\ Cardinality(index) <= 1 /\ <<"top", "out">> \notin index
    /\ first # Nothing /\ (first[1] = "static" <=> stored = "static")
    /\ Cardinality(checkout.scripts) <= 1

\* Such a deployment comes back from a restart or a rollback as it was: the same directory or the
\* same command, and it is not given up for a page it never needed (orchestrator.go:62-117,
\* rollback.go:121-136).
ReplayedAsDeployed ==
    Recoverable /\ replays > 0 => /\ stage = "up" => live = first
                                  /\ why # "static_output_missing"

\* The deployment accepts every manifest `bigbase init' writes (manifest.go:327).
InitAccepted == Valid(InitManifest)

\* What a deployment serves has a page and comes back after a restart or a rollback as it was, and
\* what `bigbase init' writes is accepted (engine.go, orchestrator.go, rollback.go, manifest.go).
PlanKept == NeverLists /\ ReplayedAsDeployed /\ InitAccepted

=============================================================================
