------------------------------ MODULE MCPlatform ------------------------------
(***************************************************************************)
(* The components around the deployment engine, one at a time: `part' says *)
(* which of them moves, and the others stay in an initial state of theirs. *)
(* They share no variable, so that the behaviours are those of the         *)
(* components' own specifications, and one run checks them all.            *)
(***************************************************************************)
EXTENDS RealtimeHub, KernelLifecycle, InstanceSupervisor, DeployLogs, BuildCache,
        ProjectSites, SitePolicies, SiteDomains, AuthAccounts, AlertPipeline,
        CollectionFeed, FunctionRuns, SiteEnv, SecretsAccess, Outbound, DiskRows,
        RequestGate, SchemaUpkeep, ServePlan, TLC

CONSTANTS x1, x2,   \* interchangeable clients, requests, workers, sites
          tl, tr, ti,  \* mailed tokens, one of each kind
          shop         \* the name two sites are created under

VARIABLE part

Parts == {"hub", "kernel", "supervisor", "logs", "cache", "sites", "policies", "domains", "accounts",
          "alerts", "feed", "functions", "env", "secrets", "outbound", "disk", "gate", "upkeep",
          "plan"}

Interchangeable == Permutations({x1, x2})

----------------------------------------------------------------------------
(* The constants that a configuration file cannot write.                    *)

Components == {"db", "auth", "api", "realtime", "proxy"}
Needs(auth, api, realtime) ==
    [n \in Components |-> CASE n = "auth" -> auth [] n = "api" -> api [] n = "realtime" -> realtime
                            [] OTHER -> <<>>]
\* main's own diamond, a ring of two, and a component nobody registered.
MCWirings ==
    { [registered |-> Components, deps |-> Needs(<<"db">>, <<"db">>, <<"auth", "api">>)],
      [registered |-> Components \ {"proxy"}, deps |-> Needs(<<"db", "api">>, <<"auth">>, <<>>)],
      [registered |-> Components \ {"auth"}, deps |-> Needs(<<>>, <<"db">>, <<"auth">>)] }

MCSiteOf == [k \in Keys |-> "site"]
MCNameOf == [s \in Sites |-> shop]
MCOrgOf == [s \in Sites |-> 1]
MCKindOf == tl :> "link" @@ tr :> "reset" @@ ti :> "invite"
MCKindOfCaller == "m" :> "user" @@ "o" :> "orgkey" @@ "s" :> "sitekey"
MCScopesOf == "m" :> {} @@ "o" :> {"provision", "write"} @@ "s" :> {"read"}

Asking(rt, cred) == [route |-> rt, cred |-> cred, from |-> "a1", origin |-> "none", git |-> FALSE]
MCAsks == { Asking("login", "none"),
            Asking("keys", "member"), Asking("sql", "member"), Asking("host_api", "orgkey"),
            Asking("page", "otherkey"), [Asking("service", "none") EXCEPT !.origin = "foreign"] }
MCLimitOf == [kind \in Kinds |-> 1]
\* The deploy keys' hour, against a sweep every ten minutes, is the longer window.
MCWindowOf == [kind \in Kinds |-> IF kind = "keys_user" THEN 2 ELSE 1]
MCEveryOf == [l \in Limiters |-> 1]
MCFirstWorlds == {[policy |-> "key", host |-> "site", row |-> "owned",
                   keys |-> {"orgkey", "otherkey"}, verified |-> FALSE]}

Pages(c, rels) == [c EXCEPT !.index = {<<c.root, r>> : r \in rels}]
PlainPages == [root |-> "top", files |-> {}, deps |-> {}, locks |-> {}, pm |-> "", pages |-> "", scripts |-> {},
               index |-> {<<"top", ".">>}, manifest |-> NoManifest]
App(files) == [PlainPages EXCEPT !.files = files, !.index = {}]
NodeApp(names) == [App({"package.json", "script"}) EXCEPT !.deps = names]
Told(c, m) == [c EXCEPT !.manifest = m]
StaticManifest == [NoManifest EXCEPT !.framework = "vue", !.build = "npm", !.output = "out", !.start = "npm"]
\* Plain pages; the frameworks, their adapters and the ambiguous mix; one repository of every
\* runtime; a monorepo; manifests that are valid, named by the request, or wrong.
MCCheckouts ==
    { PlainPages, Pages(PlainPages, {}), Pages(PlainPages, {"public", "dist"}),
      NodeApp({}), [NodeApp({}) EXCEPT !.pm = "pnpm", !.files = @ \cup {"start"}],
      [NodeApp({}) EXCEPT !.locks = {"yarn", "npm"}, !.root = "pkg"],
      Pages(NodeApp({}), {"public"}), App({"package.json"}),
      NodeApp({"astro"}), NodeApp({"astro", "server-output"}), NodeApp({"astro", "server-output", "@astrojs/node"}),
      NodeApp({"kit", "adapter-static"}), [NodeApp({"kit", "adapter-static"}) EXCEPT !.pages = "out"],
      NodeApp({"kit", "adapter-node"}), NodeApp({"kit", "adapter-static", "adapter-node"}), NodeApp({"kit"}),
      App({"go.mod"}), App({"Cargo.toml"}), Pages(App({"composer.json"}), {"public"}), App({"Gemfile", "config.ru"}),
      App({"pom.xml"}), App({"build.gradle", "gradlew"}), App({"build.gradle"}), App({"app.jar", "pom.xml"}),
      App({"app.py"}), App({"pyproject.toml", "project"}),
      [App({"pyproject.toml", "project"}) EXCEPT !.scripts = {"web"}],
      [App({"pyproject.toml", "project", "uvicorn"}) EXCEPT !.scripts = {"web", "cli"}],
      Told(NodeApp({}), StaticManifest), Told(NodeApp({}), [StaticManifest EXCEPT !.named = TRUE]),
      Told(NodeApp({}), [StaticManifest EXCEPT !.build = ""]),
      Told([App({"pyproject.toml", "project", "uvicorn"}) EXCEPT !.root = "pkg"],
           [NoManifest EXCEPT !.framework = "python", !.build = "sh", !.asgi = "site:app"]) }
MCAppRequests == {[type |-> t, named |-> FALSE] : t \in {"", "static", "node", "java", "static-sidecar", "wasm"}}
                 \cup {[type |-> "", named |-> TRUE]}
AllTools == {"npm", "sh", "go", "cargo", "composer", "php", "mvn", "gradle", "bundle", "python3", "pip", "uv"}
MCToolSets == {AllTools, AllTools \ {"uv", "go", "gradle", "php"}, {"sh", "pip", "python"}}

----------------------------------------------------------------------------
\* The initial state of a component that rests is the first of its initial states.
Init ==
    /\ part \in Parts
    /\ HubInit
    /\ KernelInit /\ (part # "kernel" => wiring.registered = Components)
    /\ SupInit /\ (part # "supervisor" => spec = [static |-> FALSE, polled |-> TRUE])
    /\ LogInit /\ (part # "logs" => born = {})
    /\ CacheInit /\ (part # "cache" => \A b \in Builds : want[b] = "k1")
    /\ PsInit /\ PolInit /\ DomInit
    /\ AccInit /\ (part # "accounts" => Present = {})
    /\ AlertInit
    /\ FeedInit /\ (part # "feed" => lastId = 0)
    /\ FnInit
    /\ EnvInit /\ (part # "env" => \A k \in EnvKeys : envRow[k] = NoEnvRow) /\ (part # "env" => ~hasProject)
    /\ SecInit
    /\ OutInit /\ (part # "outbound" => ~recipients)
    /\ DiskInit /\ GateInit /\ UpkeepInit
    /\ PlanInit /\ (part # "plan" => checkout = PlainPages /\ ~asked.named /\ asked.type = ""
                                    /\ tools = AllTools)

Rest(p, vars) == IF part = p THEN TRUE ELSE UNCHANGED vars

OthersRest ==
    /\ UNCHANGED part
    /\ Rest("hub", hubVars) /\ Rest("kernel", kernelVars) /\ Rest("supervisor", supVars)
    /\ Rest("logs", logVars) /\ Rest("cache", cacheVars) /\ Rest("sites", psVars)
    /\ Rest("policies", polVars) /\ Rest("domains", domVars) /\ Rest("accounts", accVars)
    /\ Rest("alerts", alertVars) /\ Rest("feed", feedVars) /\ Rest("functions", fnVars)
    /\ Rest("env", envVars) /\ Rest("secrets", secVars) /\ Rest("outbound", outVars)
    /\ Rest("disk", diskVars) /\ Rest("gate", gateVars) /\ Rest("upkeep", upkeepVars)
    /\ Rest("plan", planVars)

Next ==
    \/ part = "hub" /\ HubNext /\ OthersRest
    \/ part = "kernel" /\ KernelNext /\ OthersRest
    \/ part = "supervisor" /\ SupNext /\ OthersRest
    \/ part = "logs" /\ LogNext /\ OthersRest
    \/ part = "cache" /\ CacheNext /\ OthersRest
    \/ part = "sites" /\ PsNext /\ OthersRest
    \/ part = "policies" /\ PolNext /\ OthersRest
    \/ part = "domains" /\ DomNext /\ OthersRest
    \/ part = "accounts" /\ AccNext /\ OthersRest
    \/ part = "alerts" /\ AlertNext /\ OthersRest
    \/ part = "feed" /\ FeedNext /\ OthersRest
    \/ part = "functions" /\ FnNext /\ OthersRest
    \/ part = "env" /\ EnvNext /\ OthersRest
    \/ part = "secrets" /\ SecNext /\ OthersRest
    \/ part = "outbound" /\ OutNext /\ OthersRest
    \/ part = "disk" /\ DiskNext /\ OthersRest
    \/ part = "gate" /\ GateNext /\ OthersRest
    \/ part = "upkeep" /\ UpkeepNext /\ OthersRest
    \/ part = "plan" /\ PlanNext /\ OthersRest

platformVars == <<part, hubVars, kernelVars, supVars, logVars, cacheVars, psVars, polVars, domVars, accVars,
                  alertVars, feedVars, fnVars, envVars, secVars, outVars, diskVars, gateVars, upkeepVars,
                  planVars>>

Spec == Init /\ [][Next]_platformVars

\* The types of the variables of the component that moves; the others are as initially.
PlatformTypeOK ==
    /\ part \in Parts
    /\ part = "hub" => HubTypeOK
    /\ part = "kernel" => KernelTypeOK
    /\ part = "supervisor" => SupTypeOK
    /\ part = "logs" => LogTypeOK
    /\ part = "cache" => CacheTypeOK
    /\ part = "sites" => PsTypeOK
    /\ part = "policies" => PolTypeOK
    /\ part = "domains" => DomTypeOK
    /\ part = "accounts" => AccTypeOK
    /\ part = "alerts" => AlertTypeOK
    /\ part = "feed" => FeedTypeOK
    /\ part = "functions" => FnTypeOK
    /\ part = "env" => EnvTypeOK
    /\ part = "secrets" => SecTypeOK
    /\ part = "outbound" => OutTypeOK
    /\ part = "disk" => DiskTypeOK
    /\ part = "gate" => GateTypeOK
    /\ part = "upkeep" => UpkeepTypeOK
    /\ part = "plan" => PlanTypeOK

\* Builds: once their evictions have run the dependency cache fits its limit (cache.go), and what a
\* deployment serves has a page and comes back after a restart or a rollback (engine.go,
\* orchestrator.go, rollback.go).
BuildsCorrect == CacheBounded /\ PlanKept

=============================================================================
