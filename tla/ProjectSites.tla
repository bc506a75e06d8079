---------------------------- MODULE ProjectSites ----------------------------
(***************************************************************************)
(* Sites and the projects they are attached to (components/sites/sites.go, *)
(* components/projects/projects.go).  A request that creates a site checks *)
(* the name, inserts the row, then inserts a project and its production    *)
(* environment and attaches the site: five statements and no transaction,  *)
(* and the request's context may be cancelled between any two.  Projects   *)
(* are renamed and deleted, and sites deleted, meanwhile.                  *)
(***************************************************************************)
EXTENDS Naturals, FiniteSets

CONSTANTS
    Sites,          \* site ids, one per POST /api/sites or create_site call
    SiteNames,      \* createSite refuses the empty name
    NameOf,         \* the name each request asks for
    Orgs,           \* organizations; 0 is a request without one
    OrgOf,          \* the organization of each request
    AdminOrg,       \* default_org_id of the admin; 0 when there is none
    Manual,         \* projects created by hand
    MaxReleased     \* bound: renamed and deleted projects, by name

ASSUME SitesType ==
    /\ NameOf \in [Sites -> SiteNames] /\ <<>> \notin SiteNames
    /\ OrgOf \in [Sites -> Orgs] /\ 0 \in Orgs /\ AdminOrg \in Orgs
    /\ MaxReleased \in Nat

VARIABLES
    siteRows,       \* sites: the rows
    siteOrg,        \* sites.org_id
    attached,       \* sites.project_id
    projects,       \* projects: the row's name and organization
    environments,   \* project_environments with slug production
    deployed,       \* sites with rows in deployments
    creating,       \* where each create request is
    cancelled,      \* create requests whose context has ended
    deleting,       \* where the delete request of each site is
    counted,        \* DeleteProject: projects found without sites, not yet deleted
    boot,           \* where the start of the process is
    released        \* auxiliary: the names a project gave up, and of which organization

siteTables == <<siteRows, siteOrg, attached>>
projectTables == <<projects, environments>>
psVars == <<siteTables, projectTables, deployed, creating, cancelled, deleting, counted, boot, released>>

\* Projects are named by what generated their id.
ProjectIds == (Sites \X {"site", "compatibility"}) \cup (Manual \X {"manual"})

NoProject == <<>>
NoName == [name |-> NoProject, org |-> 0]
HasRow(p) == projects[p] # NoName

PsInit ==
    /\ siteRows = {}
    /\ siteOrg = [s \in Sites |-> 0]
    /\ attached = [s \in Sites |-> NoProject]
    /\ projects = [p \in ProjectIds |-> NoName]
    /\ environments = {}
    /\ deployed = {}
    /\ creating = [s \in Sites |-> "idle"]
    /\ cancelled = {}
    /\ deleting = [s \in Sites |-> "idle"]
    /\ counted = {}
    /\ boot = "serving"
    /\ released = {}

\* UNIQUE (org_id, name) of projects.
Taken(name, org) == \E p \in ProjectIds : projects[p] = [name |-> name, org |-> org]

InsertRow(p, name, org) ==
    /\ ~Taken(name, org)
    /\ projects' = [projects EXCEPT ![p] = [name |-> name, org |-> org]]

----------------------------------------------------------------------------
(***************************************************************************)
(* createSite and CreateSite.                                              *)
(***************************************************************************)

\* insertSite: the name is free in the organization and among the sites that
\* have none.
CheckName(s) ==
    /\ creating[s] = "idle"
    /\ creating' = [creating EXCEPT ![s] =
           IF \E t \in siteRows : NameOf[t] = NameOf[s] /\ siteOrg[t] \in {OrgOf[s], 0}
           THEN "refused" ELSE "insert"]
    /\ UNCHANGED <<siteTables, projectTables, deployed, cancelled, deleting, counted, released>>

InsertSite(s) ==
    /\ creating[s] = "insert"
    /\ siteRows' = siteRows \cup {s}
    /\ siteOrg' = [siteOrg EXCEPT ![s] = OrgOf[s]]
    /\ creating' = [creating EXCEPT ![s] = "project"]
    /\ UNCHANGED <<attached, projectTables, deployed, cancelled, deleting, counted, released>>

InsertProjectUnchecked(s) ==
    /\ creating[s] = "project"
    /\ projects' = [projects EXCEPT ![<<s, "site">>] = [name |-> NameOf[s], org |-> OrgOf[s]]]
    /\ creating' = [creating EXCEPT ![s] = "environment"]
    /\ UNCHANGED <<siteTables, environments, deployed, cancelled, deleting, counted, released>>

\* ensureSiteProject: the project's row, unless its name is taken.
InsertProject(s) ==
    /\ creating[s] = "project"
    /\ \/ /\ InsertRow(<<s, "site">>, NameOf[s], OrgOf[s])
          /\ creating' = [creating EXCEPT ![s] = "environment"]
       \/ /\ Taken(NameOf[s], OrgOf[s])
          /\ creating' = [creating EXCEPT ![s] = "undo"]
          /\ UNCHANGED projects
    /\ UNCHANGED <<siteTables, environments, deployed, cancelled, deleting, counted, released>>

InsertEnvironment(s) ==
    /\ creating[s] = "environment"
    /\ environments' = environments \cup {<<s, "site">>}
    /\ creating' = [creating EXCEPT ![s] = "attach"]
    /\ UNCHANGED <<siteTables, projects, deployed, cancelled, deleting, counted, released>>

\* UPDATE sites ... WHERE project_id IS NULL, which finds no row when the site was
\* deleted meanwhile; the request goes on as if it had.
Attach(s) ==
    /\ creating[s] = "attach"
    /\ attached' = IF s \in siteRows /\ attached[s] = NoProject
                   THEN [attached EXCEPT ![s] = <<s, "site">>] ELSE attached
    /\ creating' = [creating EXCEPT ![s] = "trigger"]
    /\ UNCHANGED <<siteRows, siteOrg, projectTables, deployed, cancelled, deleting, counted, released>>

\* The client is gone, or a statement failed for another reason.
Cancel(s) ==
    /\ creating[s] \in {"insert", "project", "environment", "attach"}
    /\ \/ /\ creating[s] = "insert"
          /\ creating' = [creating EXCEPT ![s] = "refused"]
          /\ UNCHANGED cancelled
       \/ /\ creating[s] # "insert"
          /\ creating' = [creating EXCEPT ![s] = "undo"]
          /\ cancelled' = cancelled \cup {s}
    /\ UNCHANGED <<siteTables, projectTables, deployed, deleting, counted, released>>

\* EnsureSiteProject failed: the row is deleted again, with the same context, so a
\* cancelled request leaves it behind.  The project stays in any case.
UndoSite(s) ==
    /\ creating[s] = "undo"
    /\ \/ siteRows' = siteRows \ {s} /\ s \notin cancelled
       \/ UNCHANGED siteRows /\ s \in cancelled
    /\ creating' = [creating EXCEPT ![s] = "refused"]
    /\ cancelled' = cancelled \ {s}
    /\ UNCHANGED <<siteOrg, attached, projectTables, deployed, deleting, counted, released>>

\* createSite triggers the first deployment; redeploySite one of an existing site.
TriggerFirst(s) ==
    /\ creating[s] = "trigger"
    /\ deployed' = deployed \cup {s}
    /\ creating' = [creating EXCEPT ![s] = "created"]
    /\ UNCHANGED <<siteTables, projectTables, cancelled, deleting, counted, released>>

RedeploySite(s) ==
    /\ s \in siteRows
    /\ deployed' = deployed \cup {s}
    /\ UNCHANGED <<siteTables, projectTables, creating, cancelled, deleting, counted, released>>

----------------------------------------------------------------------------
(***************************************************************************)
(* deleteSite.                                                             *)
(***************************************************************************)

\* The site is found and its deployments are stopped and deleted
\* (DeleteSiteDeployments); an error of that is logged and no more.
DeleteSite(s) ==
    /\ deleting[s] = "idle" /\ s \in siteRows
    /\ deleting' = [deleting EXCEPT ![s] = "records"]
    /\ deployed' \in {deployed, deployed \ {s}}
    /\ UNCHANGED <<siteTables, projectTables, creating, cancelled, counted, released>>

\* deleteSiteRecords: domains, logs and deployments, then the row; a statement
\* that fails ends it.  Neither the project nor its environments are touched.
DeleteSiteRecords(s) ==
    /\ deleting[s] = "records"
    /\ \/ /\ deployed' = deployed \ {s}
          /\ deleting' = [deleting EXCEPT ![s] = "row"]
       \/ /\ deleting' = [deleting EXCEPT ![s] = "idle"]
          /\ UNCHANGED deployed
    /\ UNCHANGED <<siteTables, projectTables, creating, cancelled, counted, released>>

DeleteSiteRow(s) ==
    /\ deleting[s] = "row"
    /\ \/ siteRows' = siteRows \ {s} /\ attached' = [attached EXCEPT ![s] = NoProject]
       \/ UNCHANGED <<siteRows, attached>>
    /\ deleting' = [deleting EXCEPT ![s] = "idle"]
    /\ UNCHANGED <<siteOrg, projectTables, deployed, creating, cancelled, counted, released>>

----------------------------------------------------------------------------
(***************************************************************************)
(* The operations on projects.                                             *)
(***************************************************************************)

CreateProject(m, name, org) ==
    /\ org # 0 /\ ~HasRow(<<m, "manual">>)
    /\ InsertRow(<<m, "manual">>, name, org)
    /\ UNCHANGED <<siteTables, environments, deployed, creating, cancelled, deleting, counted, released>>

UpdateProject(p, name) ==
    /\ HasRow(p) /\ projects[p].org # 0 /\ projects[p].name # name
    /\ Cardinality(released) < MaxReleased
    /\ InsertRow(p, name, projects[p].org)
    /\ released' = released \cup {projects[p]}
    /\ UNCHANGED <<siteTables, environments, deployed, creating, cancelled, deleting, counted>>

\* CreateEnvironment, for the slug production of a project that has none.
CreateEnvironment(p) ==
    /\ HasRow(p) /\ projects[p].org # 0 /\ p \notin environments
    /\ environments' = environments \cup {p}
    /\ UNCHANGED <<siteTables, projects, deployed, creating, cancelled, deleting, counted, released>>

\* DeleteProject counts the sites and deletes in two statements; the foreign keys
\* of the schema are not enforced, so nothing cascades.
CountAttached(p) ==
    /\ HasRow(p) /\ projects[p].org # 0 /\ p \notin counted
    /\ Cardinality(released) + Cardinality(counted) < MaxReleased
    /\ \A s \in siteRows : attached[s] # p
    /\ counted' = counted \cup {p}
    /\ UNCHANGED <<siteTables, projectTables, deployed, creating, cancelled, deleting, released>>

DeleteProject(p) ==
    /\ p \in counted /\ HasRow(p)
    /\ counted' = counted \ {p}
    /\ projects' = [projects EXCEPT ![p] = NoName]
    /\ released' = released \cup {projects[p]}
    /\ UNCHANGED <<siteTables, environments, deployed, creating, cancelled, deleting>>

----------------------------------------------------------------------------

\* The process dies with its requests and starts again: projects start, and
\* Sites.Start gives the sites without organization to the admin's.
RestartSites ==
    /\ creating' = [s \in Sites |-> IF creating[s] \in {"idle", "created"} THEN creating[s] ELSE "refused"]
    /\ deleting' = [s \in Sites |-> "idle"]
    /\ cancelled' = {}
    /\ counted' = {}
    /\ siteOrg' = [s \in Sites |-> IF s \in siteRows /\ siteOrg[s] = 0 THEN AdminOrg ELSE siteOrg[s]]
    /\ boot' = "migrating"
    /\ UNCHANGED <<siteRows, attached, projectTables, deployed, released>>

Unattached == {s \in siteRows : attached[s] = NoProject}

\* MigrateSiteAttachments: the project of the next site.  The name is built from
\* the site's id; when it is taken Start fails and main exits.
MigrateProject(s) ==
    /\ boot = "migrating" /\ s \in Unattached
    /\ \/ /\ InsertRow(<<s, "compatibility">>, <<s, "compatibility">>, siteOrg[s])
          /\ boot' = "attaching"
       \/ /\ Taken(<<s, "compatibility">>, siteOrg[s])
          /\ boot' = "failed"
          /\ UNCHANGED projects
    /\ UNCHANGED <<siteTables, environments, deployed, creating, cancelled, deleting, counted, released>>

\* Its environment, and the attachment.
MigrateAttach(s) ==
    /\ boot = "attaching" /\ s \in Unattached /\ HasRow(<<s, "compatibility">>)
    /\ environments' = environments \cup {<<s, "compatibility">>}
    /\ attached' = [attached EXCEPT ![s] = <<s, "compatibility">>]
    /\ boot' = "migrating"
    /\ UNCHANGED <<siteRows, siteOrg, projects, deployed, creating, cancelled, deleting, counted, released>>

SitesStarted ==
    /\ boot = "migrating" /\ Unattached = {}
    /\ boot' = "serving"
    /\ UNCHANGED <<siteTables, projectTables, deployed, creating, cancelled, deleting, counted, released>>

Requests ==
    \/ \E s \in Sites :
        \/ CheckName(s) \/ InsertSite(s) \/ InsertProject(s) \/ InsertEnvironment(s)
        \/ Attach(s) \/ Cancel(s) \/ UndoSite(s) \/ TriggerFirst(s) \/ RedeploySite(s)
        \/ DeleteSite(s) \/ DeleteSiteRecords(s) \/ DeleteSiteRow(s)
    \/ \E m \in Manual, name \in SiteNames, org \in Orgs : CreateProject(m, name, org)
    \/ \E p \in ProjectIds :
        \/ CreateEnvironment(p) \/ CountAttached(p) \/ DeleteProject(p)
        \/ \E name \in SiteNames : UpdateProject(p, name)

PsNext ==
    \/ boot = "serving" /\ Requests /\ UNCHANGED boot
    \/ RestartSites
    \/ \E s \in Sites : MigrateProject(s) \/ MigrateAttach(s)
    \/ SitesStarted

PsSpec == PsInit /\ [][PsNext]_psVars

----------------------------------------------------------------------------

\* The types of the variables.
PsTypeOK ==
    /\ siteRows \subseteq Sites /\ deployed \subseteq Sites /\ cancelled \subseteq Sites
    /\ siteOrg \in [Sites -> Orgs]
    /\ attached \in [Sites -> ProjectIds \cup {NoProject}]
    /\ DOMAIN projects = ProjectIds
    /\ environments \subseteq ProjectIds /\ counted \subseteq ProjectIds
    /\ creating \in [Sites -> {"idle", "insert", "project", "environment", "attach", "undo",
                               "trigger", "created", "refused"}]
    /\ deleting \in [Sites -> {"idle", "records", "row"}]
    /\ boot \in {"migrating", "attaching", "serving", "failed"}

\* Two requests that both found the name free do not both get a site: of the sites
\* created in one organization under one name, two are attached to the projects
\* they created only if the first one's project gave up the name meanwhile.  The
\* check of insertSite does not see to that (sites.go:834-841); the UNIQUE of
\* projects does, through the row that is inserted and deleted again
\* (projects.go:377-381, sites.go:859-863).
NamesUnique ==
    \A s, t \in siteRows :
        /\ s # t /\ attached[s] = <<s, "site">> /\ attached[t] = <<t, "site">>
        /\ NameOf[s] = NameOf[t] /\ OrgOf[s] = OrgOf[t]
        => [name |-> NameOf[s], org |-> OrgOf[s]] \in released

============================================================================
