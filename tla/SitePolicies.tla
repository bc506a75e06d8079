---------------------------- MODULE SitePolicies ----------------------------
(***************************************************************************)
(* The access policy, the content security policy (CSP) and the deploy     *)
(* defaults of a site: columns of its row, and caches of the proxy that    *)
(* are filled on a miss, overwritten by the handlers that change the row,  *)
(* and refreshed whenever a host of the site is registered                 *)
(* (components/proxy/proxy.go, hosts.go, components/sites/sites.go,        *)
(* components/deploy/engine.go).  No lock spans the row and a cache.  A    *)
(* static site that is resumed after a restart is registered under the id  *)
(* of its deployment (components/deploy/supervisor.go).                    *)
(***************************************************************************)
EXTENDS Naturals, FiniteSets

CONSTANTS
    Policies,       \* values of auth_policy; the row begins with DefaultPolicy
    DefaultPolicy,
    Csps,           \* content security policies
    Workers,        \* requests and deployments that run at the same time
    MaxOps          \* bound: requests and deployments

ASSUME PoliciesType == DefaultPolicy \in Policies /\ MaxOps \in Nat

NoValue == "none"
ASSUME NoValueIsNew == NoValue \notin Policies \cup Csps

VARIABLES
    policyRow,      \* sites.auth_policy
    defaultsRow,    \* sites.deploy_defaults: the CSP and the other fields
    policyCache,    \* p.authPolicies[site]
    cspCache,       \* p.cspPolicies[site]
    hosted,         \* the id the site's host has in p.deployHosts, if it is there
    supervised,     \* the deployment was resumed under the supervisor
    worker,         \* each request: where it is and the values it carries
    ops,            \* bound: requests begun
    saved,          \* auxiliary: the other fields as a request last saved them
    disturbed       \* auxiliary: the settings whose row was written while another request
                    \* carried an older value, or whose handler never told the proxy

rowVars == <<policyRow, defaultsRow>>
policyCaches == <<policyCache, cspCache, hosted, supervised>>
polVars == <<rowVars, policyCaches, worker, ops, saved, disturbed>>

Settings == {"policy", "csp", "fields"}

\* new: its manifest's CSP is in the row and the proxy does not know it yet; due: the
\* policies a visitor's request may be checked against; why: what it found none for.
Resting == [at |-> "idle", policy |-> NoValue, csp |-> NoValue, fields |-> 0, new |-> FALSE,
            due |-> {}, why |-> "found"]

PolInit ==
    /\ policyRow = DefaultPolicy
    /\ defaultsRow = [csp |-> NoValue, fields |-> 0]
    /\ policyCache = NoValue
    /\ cspCache = NoValue
    /\ hosted = "no"
    /\ supervised = FALSE
    /\ worker = [w \in Workers |-> Resting]
    /\ ops = 0
    /\ saved = 0
    /\ disturbed = {}

\* A request or a deployment begins with what it carries.
Begins(w, carried) ==
    /\ worker[w] = Resting /\ ops < MaxOps
    /\ ops' = ops + 1
    /\ worker' = [worker EXCEPT ![w] = carried]

Continues(w, carried) ==
    /\ worker' = [worker EXCEPT ![w] = carried]
    /\ UNCHANGED ops

Ends(w) == Continues(w, Resting)

\* On its way to the proxy's cache: a policy, or a CSP.
CarriesPolicy(v) == worker[v].at \in {"setPolicy", "cachePolicy", "fillPolicy"} /\ worker[v].policy # NoValue
CarriesCsp(v) == \/ worker[v].at = "setCsp"
                 \/ worker[v].at \in {"cachePolicy", "cacheCsp", "fillCsp"} /\ worker[v].csp # NoValue
CarriesFields(v) == worker[v].at \in {"manifest", "manifestBlind"}

\* Somebody else still carries another value than the one written now.
OutdatedPolicy(w, policy) == \E v \in Workers \ {w} : CarriesPolicy(v) /\ worker[v].policy # policy
OutdatedCsp(w, csp) == \E v \in Workers \ {w} : CarriesCsp(v) /\ worker[v].csp # csp
OutdatedFields(w) == \E v \in Workers \ {w} : CarriesFields(v)

----------------------------------------------------------------------------
(***************************************************************************)
(* The handlers of sites: the row first, then the proxy's cache.           *)
(***************************************************************************)

SetSiteAuthPolicy(w, policy) ==
    /\ Begins(w, [Resting EXCEPT !.at = "setPolicy", !.policy = policy])
    /\ policyRow' = policy
    /\ disturbed' = disturbed \cup {x \in {"policy"} : OutdatedPolicy(w, policy)}
    /\ UNCHANGED <<defaultsRow, policyCaches, saved>>

\* A plausible slip: the policy is cached only where none was.
ProxySetSiteAuthPolicyOnce(w) ==
    /\ worker[w].at = "setPolicy"
    /\ policyCache' = IF policyCache = NoValue THEN worker[w].policy ELSE policyCache
    /\ Ends(w)
    /\ disturbed' = IF OutdatedPolicy(w, policyRow) \/ worker[w].policy # policyRow THEN disturbed
                    ELSE disturbed \ {"policy"}
    /\ UNCHANGED <<rowVars, cspCache, hosted, supervised, saved>>

\* With no older value on its way the proxy has the policy from now on.
ProxySetSiteAuthPolicy(w) ==
    /\ worker[w].at = "setPolicy"
    /\ policyCache' = worker[w].policy
    /\ Ends(w)
    /\ disturbed' = IF OutdatedPolicy(w, policyRow) \/ worker[w].policy # policyRow THEN disturbed
                    ELSE disturbed \ {"policy"}
    /\ UNCHANGED <<rowVars, cspCache, hosted, supervised, saved>>

\* The fields of a save are in the row; a deployment that merges its manifest with
\* what it read before takes them back.
SetSiteDeployDefaults(w, csp, fields) ==
    /\ Begins(w, [Resting EXCEPT !.at = "setCsp", !.csp = csp])
    /\ defaultsRow' = [csp |-> csp, fields |-> fields]
    /\ saved' = fields
    /\ disturbed' = (disturbed \ {"fields"}) \cup {x \in {"csp"} : OutdatedCsp(w, csp)}
                                            \cup {x \in {"fields"} : OutdatedFields(w)}
    /\ UNCHANGED <<policyRow, policyCaches>>

\* SetSiteCSP; an empty CSP deletes the entry.
ProxySetSiteCSP(w) ==
    /\ worker[w].at = "setCsp"
    /\ cspCache' = worker[w].csp
    /\ Ends(w)
    /\ disturbed' = IF OutdatedCsp(w, defaultsRow.csp) \/ worker[w].csp # defaultsRow.csp THEN disturbed
                    ELSE disturbed \ {"csp"}
    /\ UNCHANGED <<rowVars, policyCache, hosted, supervised, saved>>

\* The UPDATE reported an error although it took effect: the handler answers with it
\* and does not tell the proxy.
UpdateReportsError(w) ==
    /\ \/ worker[w].at = "setPolicy" /\ disturbed' = disturbed \cup {"policy"}
       \/ worker[w].at = "setCsp" /\ disturbed' = disturbed \cup {"csp"}
    /\ Ends(w)
    /\ UNCHANGED <<rowVars, policyCaches, saved>>

----------------------------------------------------------------------------
(***************************************************************************)
(* A deployment: applyManifestCSP when the manifest declares a CSP, then   *)
(* RegisterDeploymentHost.  Each reads first, and a read that fails counts *)
(* as an empty column; the error of the write is ignored.                  *)
(***************************************************************************)

ManifestRead(w, csp) ==
    /\ \/ Begins(w, [Resting EXCEPT !.at = "manifest", !.csp = csp, !.fields = defaultsRow.fields])
       \/ Begins(w, [Resting EXCEPT !.at = "manifestBlind", !.csp = csp])
    /\ UNCHANGED <<rowVars, policyCaches, saved, disturbed>>

ManifestWrite(w) ==
    /\ CarriesFields(w)
    /\ \/ /\ Continues(w, [Resting EXCEPT !.at = "register", !.new = TRUE])
          /\ defaultsRow' = [csp |-> worker[w].csp, fields |-> worker[w].fields]
          /\ disturbed' = disturbed \cup {x \in {"fields"} : worker[w].at = "manifestBlind"}
                                    \cup {x \in {"csp"} : OutdatedCsp(w, worker[w].csp)}
       \/ Continues(w, [Resting EXCEPT !.at = "register"]) /\ UNCHANGED <<defaultsRow, disturbed>>
    /\ UNCHANGED <<policyRow, policyCaches, saved>>

DeployStarts(w) ==
    /\ Begins(w, [Resting EXCEPT !.at = "register"])
    /\ UNCHANGED <<rowVars, policyCaches, saved, disturbed>>

\* The build fails: what the manifest wrote stays in the row.
DeployFails(w) ==
    /\ worker[w].at = "register" /\ Ends(w)
    /\ disturbed' = disturbed \cup {x \in {"csp"} : worker[w].new}
    /\ UNCHANGED <<rowVars, policyCaches, saved>>

RegisterRead(w) ==
    /\ worker[w].at = "register"
    /\ \/ /\ Continues(w, [Resting EXCEPT !.at = "cachePolicy", !.policy = policyRow,
                                          !.csp = defaultsRow.csp, !.new = worker[w].new])
          /\ UNCHANGED disturbed
       \/ /\ Continues(w, [Resting EXCEPT !.at = "cachePolicy"])
          /\ disturbed' = disturbed \cup {x \in {"csp"} : worker[w].new}
    /\ UNCHANGED <<rowVars, policyCaches, saved>>

RegisterPolicy(w) ==
    /\ worker[w].at = "cachePolicy"
    /\ policyCache' = IF worker[w].policy # NoValue THEN worker[w].policy ELSE policyCache
    /\ Continues(w, [worker[w] EXCEPT !.at = "cacheCsp", !.policy = NoValue])
    /\ UNCHANGED <<rowVars, cspCache, hosted, supervised, saved, disturbed>>

RegisterDeploymentHost(w) ==
    /\ worker[w].at = "cacheCsp"
    /\ cspCache' = IF worker[w].csp # NoValue THEN worker[w].csp ELSE cspCache
    /\ hosted' = "site"
    /\ Ends(w)
    /\ UNCHANGED <<rowVars, policyCache, supervised, saved, disturbed>>

----------------------------------------------------------------------------
(***************************************************************************)
(* A visitor's request: deploymentHostMiddleware asks for the policy, then *)
(* for the CSP; each is read from the row when the cache has none, and     *)
(* cached in a step of its own.  What is not found is not applied.         *)
(***************************************************************************)

\* The row's policy, unless a change is under way or the proxy was left outdated.
PoliciesDue ==
    IF "policy" \in disturbed \/ \E v \in Workers : worker[v].at = "setPolicy" THEN Policies
    ELSE {policyRow}

Checked(policy, why) == [Resting EXCEPT !.at = "getCsp", !.policy = policy, !.due = PoliciesDue, !.why = why]

ServeRequest(w) ==
    /\ \/ /\ hosted = "site" /\ policyCache # NoValue
          /\ Begins(w, Checked(policyCache, "found"))
       \/ /\ hosted = "site" /\ policyCache = NoValue
          /\ \/ Begins(w, [Checked(policyRow, "found") EXCEPT !.at = "fillPolicy"])
             \/ Begins(w, Checked(NoValue, "unread"))
       \/ /\ hosted = "deployment"
          /\ Begins(w, Checked(NoValue, "not a site"))
    /\ UNCHANGED <<rowVars, policyCaches, saved, disturbed>>

FillPolicy(w) ==
    /\ worker[w].at = "fillPolicy"
    /\ policyCache' = worker[w].policy
    /\ Continues(w, [worker[w] EXCEPT !.at = "getCsp"])
    /\ UNCHANGED <<rowVars, cspCache, hosted, supervised, saved, disturbed>>

\* The request may also end before the CSP: the policy refuses it.
GetSiteCSP(w) ==
    /\ worker[w].at = "getCsp"
    /\ \/ Ends(w)
       \/ /\ worker[w].why # "not a site" /\ cspCache = NoValue /\ defaultsRow.csp # NoValue
          /\ Continues(w, [Resting EXCEPT !.at = "fillCsp", !.csp = defaultsRow.csp])
    /\ UNCHANGED <<rowVars, policyCaches, saved, disturbed>>

FillCsp(w) ==
    /\ worker[w].at = "fillCsp"
    /\ cspCache' = worker[w].csp
    /\ Ends(w)
    /\ UNCHANGED <<rowVars, policyCache, hosted, supervised, saved, disturbed>>

----------------------------------------------------------------------------
\* The process starts again: the caches are empty and the hosts are restored under
\* their site's id, while the query that lists them holds the only connection, so
\* nothing is read.  A static site is then resumed under the supervisor.
RestartProxy ==
    /\ worker' = [w \in Workers |-> Resting]
    /\ policyCache' = NoValue
    /\ cspCache' = NoValue
    /\ hosted' = IF hosted = "no" THEN "no" ELSE "site"
    /\ supervised' \in {FALSE, hosted # "no"}
    /\ disturbed' = disturbed \cap {"fields"}
    /\ UNCHANGED <<rowVars, ops, saved>>

\* Supervisor.Run registers the host whenever it has spawned the server, with the id
\* of the deployment where the site's belongs; sites has no row of that id.
SupervisorRegisters ==
    /\ supervised /\ hosted' = "deployment"
    /\ UNCHANGED <<rowVars, policyCache, cspCache, supervised, worker, ops, saved, disturbed>>

\* A later deployment of the site stops the resumed one, and its supervisor.
SupervisorStops ==
    /\ supervised /\ supervised' = FALSE
    /\ UNCHANGED <<rowVars, policyCache, cspCache, hosted, worker, ops, saved, disturbed>>

PolNext ==
    \/ \E w \in Workers :
        \/ \E p \in Policies : SetSiteAuthPolicy(w, p)
        \/ \E c \in Csps \cup {NoValue}, n \in 1..2 : SetSiteDeployDefaults(w, c, n)
        \/ \E c \in Csps : ManifestRead(w, c)
        \/ ProxySetSiteAuthPolicy(w) \/ ProxySetSiteCSP(w) \/ UpdateReportsError(w) \/ ManifestWrite(w)
        \/ DeployStarts(w) \/ DeployFails(w) \/ RegisterRead(w) \/ RegisterPolicy(w) \/ RegisterDeploymentHost(w)
        \/ ServeRequest(w) \/ FillPolicy(w) \/ GetSiteCSP(w) \/ FillCsp(w)
    \/ RestartProxy \/ SupervisorRegisters \/ SupervisorStops

PolSpec == PolInit /\ [][PolNext]_polVars

----------------------------------------------------------------------------

\* The types of the variables.
PolTypeOK ==
    /\ policyRow \in Policies
    /\ defaultsRow \in [csp : Csps \cup {NoValue}, fields : 0..2]
    /\ policyCache \in Policies \cup {NoValue}
    /\ cspCache \in Csps \cup {NoValue}
    /\ hosted \in {"no", "site", "deployment"} /\ supervised \in BOOLEAN
    /\ \A w \in Workers : worker[w].fields \in 0..2 /\ worker[w].new \in BOOLEAN
    /\ ops \in 0..MaxOps /\ saved \in 0..2
    /\ disturbed \subseteq Settings

\* A request that is about to tell the proxy the CSP that is in the row.
Announcing(w) ==
    \/ worker[w].at = "setCsp"
    \/ /\ worker[w].new /\ defaultsRow.csp # NoValue
       /\ worker[w].at = "register" \/ worker[w].csp = defaultsRow.csp

\* A setting takes effect and stays in effect, whatever else is under way.  The proxy
\* holds the row's policy and CSP, or none, or somebody is about to tell it; the deploy
\* defaults are the ones last saved.  A setting is left otherwise only where its row was
\* written while another request carried an older value, where its handler failed after
\* the write or the deployment that wrote it did, until it is set with nothing older on
\* its way.  And every visitor is checked against the policy in force, but for one the
\* proxy could not read it for and the host of a static site resumed after a restart,
\* which the proxy knows by its deployment (sites.go:1346-1357, 1418-1428, hosts.go:47-83,
\* proxy.go:1452-1526, engine.go:902-920, supervisor.go:88).
SettingsTakeEffect ==
    /\ "policy" \notin disturbed =>
         policyCache \in {NoValue, policyRow} \/ \E w \in Workers : worker[w].at = "setPolicy"
    /\ "csp" \notin disturbed =>
         cspCache \in {NoValue, defaultsRow.csp} \/ \E w \in Workers : Announcing(w)
    /\ "fields" \notin disturbed => defaultsRow.fields = saved
    /\ \A w \in Workers :
         worker[w].at = "getCsp" =>
             IF worker[w].why = "found" THEN worker[w].policy \in worker[w].due
             ELSE worker[w].policy = NoValue

============================================================================
