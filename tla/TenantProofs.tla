---------------------------- MODULE TenantProofs ----------------------------
(***************************************************************************)
(* What the tenants of an instance own: the sites with their settings,     *)
(* domains, environment and secrets, the records, the files, the messages  *)
(* and the accounts. Each specification is proved to keep its type         *)
(* invariant and its safety property.                                      *)
(***************************************************************************)
EXTENDS ProjectSites, SiteDomains, SitePolicies, SiteEnv, SecretsAccess,
        CollectionFeed, DiskRows, Outbound, AuthAccounts,
        FiniteSetTheorems, SequenceTheorems, TLAPS

-----------------------------------------------------------------------------
(* Projects and their sites.                                               *)

\* The row a request asks for: its name, in its organization.
Asked(s) == [name |-> NameOf[s], org |-> OrgOf[s]]

\* A request past its INSERT of the project, or a site attached to that project.
Claims(s) == creating[s] \in {"environment", "attach"} \/ attached[s] = <<s, "site">>

\* UNIQUE (org_id, name): no two rows of projects are equal.
RowsUnique ==
    \A p, q \in ProjectIds : projects[p] = projects[q] /\ projects[p] # NoName => p = q

\* Whoever claims the name has the project of that name, unless it gave it up.
ClaimsHold ==
    \A s \in Sites : Claims(s) => projects[<<s, "site">>] = Asked(s) \/ Asked(s) \in released

\* The inductive invariant.
PsInv == PsTypeOK /\ RowsUnique /\ ClaimsHold

\* Two such sites would have equal rows of projects, which the UNIQUE forbids.
LEMMA PsInvNames == PsInv => NamesUnique
  <1> SUFFICES ASSUME PsInv, NEW s \in siteRows, NEW t \in siteRows, s # t,
                      attached[s] = <<s, "site">>, attached[t] = <<t, "site">>,
                      NameOf[s] = NameOf[t], OrgOf[s] = OrgOf[t], Asked(s) \notin released
               PROVE  FALSE
      BY DEF NamesUnique, Asked
  <1>1. s \in Sites /\ t \in Sites /\ Asked(s) = Asked(t)
        BY DEF PsInv, PsTypeOK, Asked
  <1>2. projects[<<s, "site">>] = Asked(s) /\ projects[<<t, "site">>] = Asked(s)
        BY <1>1 DEF PsInv, ClaimsHold, Claims
  <1>3. Asked(s) # NoName
        BY <1>1, SitesType DEF Asked, NoName, NoProject
  <1>4. <<s, "site">> \in ProjectIds /\ <<t, "site">> \in ProjectIds
        BY <1>1 DEF ProjectIds
  <1> HIDE DEF Asked
  <1>5. <<s, "site">> = <<t, "site">>
        BY <1>2, <1>3, <1>4 DEF PsInv, RowsUnique
  <1> QED BY <1>5

\* The invariant holds at the start.
LEMMA PsInvInit == PsInit => PsInv
  BY SitesType DEF PsInit, PsInv, PsTypeOK, RowsUnique, ClaimsHold, Claims, NoProject, ProjectIds

\* A step that leaves the rows of projects as they are, and claims nothing new.
LEMMA PsKeeps ==
    ASSUME PsInv, PsTypeOK', UNCHANGED <<projects, released>>,
           \A s \in Sites : Claims(s)' => Claims(s)
    PROVE  PsInv'
  <1>1. RowsUnique'
        BY DEF PsInv, RowsUnique
  <1>2. ClaimsHold'
        BY DEF PsInv, ClaimsHold, Asked
  <1> QED BY <1>1, <1>2 DEF PsInv

\* An INSERT, or an UPDATE of the name, that the UNIQUE admits.
LEMMA PsInserts ==
    ASSUME PsInv, PsTypeOK', NEW p \in ProjectIds, NEW name, NEW org, InsertRow(p, name, org),
           \A r \in released : r \in released',
           \A s \in Sites : Claims(s)' =>
             \/ <<s, "site">> # p /\ Claims(s)
             \/ <<s, "site">> = p /\ Asked(s) = [name |-> name, org |-> org]
             \/ <<s, "site">> = p /\ Claims(s) /\ projects[p] \in released'
    PROVE  PsInv'
  <1> DEFINE row == [name |-> name, org |-> org]
  <1>1. /\ \A q \in ProjectIds : projects[q] # row
        /\ projects'[p] = row
        /\ \A q \in ProjectIds \ {p} : projects'[q] = projects[q]
        BY DEF InsertRow, Taken, PsInv, PsTypeOK
  <1> HIDE DEF row
  <1>2. RowsUnique'
        BY <1>1 DEF PsInv, RowsUnique
  <1>3. ASSUME NEW s \in Sites, Claims(s)'
        PROVE  projects'[<<s, "site">>] = Asked(s) \/ Asked(s) \in released'
    <2>0. <<s, "site">> \in ProjectIds
          BY DEF ProjectIds
    <2>1. CASE <<s, "site">> # p /\ Claims(s)
          BY <1>1, <2>0, <2>1 DEF PsInv, ClaimsHold
    <2>2. CASE <<s, "site">> = p /\ Asked(s) = row
          BY <1>1, <2>2
    <2>3. CASE <<s, "site">> = p /\ Claims(s) /\ projects[p] \in released'
          BY <2>3 DEF PsInv, ClaimsHold
    <2> QED BY <1>3, <2>1, <2>2, <2>3 DEF row
  <1>4. ClaimsHold'
        BY <1>3 DEF ClaimsHold, Asked
  <1> QED BY <1>2, <1>4 DEF PsInv

\* The steps of a create request.
LEMMA PsCreates ==
    ASSUME PsInv, NEW s \in Sites, UNCHANGED boot,
           \/ CheckName(s) \/ InsertSite(s) \/ InsertProject(s) \/ InsertEnvironment(s)
           \/ Attach(s) \/ Cancel(s) \/ UndoSite(s) \/ TriggerFirst(s) \/ RedeploySite(s)
    PROVE  PsInv'
  <1> USE DEF siteTables, projectTables
  <1>0. <<s, "site">> \in ProjectIds
        BY DEF ProjectIds
  <1>t. PsTypeOK
        BY DEF PsInv
  <1>1. ASSUME CheckName(s) \/ InsertSite(s) \/ Cancel(s) \/ UndoSite(s) \/ TriggerFirst(s) \/ RedeploySite(s)
        PROVE  PsInv'
    <2>1. PsTypeOK'
          BY <1>1, <1>t, SitesType DEF PsTypeOK, CheckName, InsertSite, Cancel, UndoSite, TriggerFirst, RedeploySite
    <2>2. UNCHANGED <<projects, released, attached>>
          BY <1>1 DEF CheckName, InsertSite, Cancel, UndoSite, TriggerFirst, RedeploySite
    <2>3. ASSUME NEW t \in Sites PROVE creating'[t] \in {"environment", "attach"} => creating'[t] = creating[t]
          BY <1>1, <1>t DEF PsTypeOK, CheckName, InsertSite, Cancel, UndoSite, TriggerFirst, RedeploySite
    <2>4. \A t \in Sites : Claims(t)' => Claims(t)
          BY <2>2, <2>3 DEF Claims
    <2> QED BY <2>1, <2>2, <2>4, PsKeeps
  <1>2. CASE InsertEnvironment(s) \/ Attach(s)
    <2>1. PsTypeOK'
          BY <1>0, <1>2, <1>t DEF PsTypeOK, InsertEnvironment, Attach
    <2>2. UNCHANGED <<projects, released>>
          BY <1>2 DEF InsertEnvironment, Attach
    <2>3. ASSUME NEW t \in Sites, Claims(t)' PROVE Claims(t)
          BY <1>2, <1>t, <2>3 DEF PsTypeOK, InsertEnvironment, Attach, Claims
    <2> QED BY <2>1, <2>2, <2>3, PsKeeps
  <1>3. CASE InsertProject(s)
    <2>1. PsTypeOK'
          BY <1>3, <1>t DEF PsTypeOK, InsertProject, InsertRow
    <2>2. UNCHANGED <<attached, released>>
          BY <1>3 DEF InsertProject
    <2>3. CASE InsertRow(<<s, "site">>, NameOf[s], OrgOf[s])
      <3> DEFINE p == <<s, "site">>
      <3>1. \A t \in Sites \ {s} : creating'[t] = creating[t]
            BY <1>3, <1>t DEF InsertProject, PsTypeOK
      <3>2. ASSUME NEW t \in Sites, Claims(t)'
            PROVE  \/ <<t, "site">> # p /\ Claims(t)
                   \/ <<t, "site">> = p /\ Asked(t) = [name |-> NameOf[s], org |-> OrgOf[s]]
            BY <2>2, <3>1, <3>2 DEF Claims, Asked
      <3>3. p \in ProjectIds /\ InsertRow(p, NameOf[s], OrgOf[s])
            BY <1>0, <2>3
      <3> HIDE DEF p
      <3> QED BY <2>1, <2>2, <3>2, <3>3, PsInserts
    <2>4. CASE ~InsertRow(<<s, "site">>, NameOf[s], OrgOf[s])
      <3>1. UNCHANGED projects /\ creating' = [creating EXCEPT ![s] = "undo"]
            BY <1>3, <2>4 DEF InsertProject
      <3>2. \A t \in Sites : Claims(t)' => Claims(t)
            BY <1>t, <2>2, <3>1 DEF Claims, PsTypeOK
      <3> QED BY <2>1, <2>2, <3>1, <3>2, PsKeeps
    <2> QED BY <2>3, <2>4
  <1> QED BY <1>1, <1>2, <1>3

\* The steps of a delete request.
LEMMA PsDeletes ==
    ASSUME PsInv, NEW s \in Sites, UNCHANGED boot,
           DeleteSite(s) \/ DeleteSiteRecords(s) \/ DeleteSiteRow(s)
    PROVE  PsInv'
  <1> USE DEF siteTables, projectTables
  <1>t. PsTypeOK
        BY DEF PsInv
  <1>1. PsTypeOK'
        BY <1>t DEF PsTypeOK, DeleteSite, DeleteSiteRecords, DeleteSiteRow
  <1>2. UNCHANGED <<projects, released, creating>>
        BY DEF DeleteSite, DeleteSiteRecords, DeleteSiteRow
  <1>3. ASSUME NEW t \in Sites PROVE attached'[t] = attached[t] \/ attached'[t] = NoProject
        BY <1>t DEF PsTypeOK, DeleteSite, DeleteSiteRecords, DeleteSiteRow
  <1>4. \A t \in Sites : Claims(t)' => Claims(t)
        BY <1>2, <1>3 DEF Claims, NoProject
  <1> QED BY <1>1, <1>2, <1>4, PsKeeps

\* The operations on projects.
LEMMA PsProjects ==
    ASSUME PsInv, UNCHANGED boot,
           \/ \E m \in Manual, name \in SiteNames, org \in Orgs : CreateProject(m, name, org)
           \/ \E p \in ProjectIds :
               \/ CreateEnvironment(p) \/ CountAttached(p) \/ DeleteProject(p)
               \/ \E name \in SiteNames : UpdateProject(p, name)
    PROVE  PsInv'
  <1> USE DEF siteTables, projectTables
  <1>t. PsTypeOK
        BY DEF PsInv
  <1>1. ASSUME NEW m \in Manual, NEW name \in SiteNames, NEW org \in Orgs, CreateProject(m, name, org)
        PROVE  PsInv'
    <2>1. PsTypeOK'
          BY <1>1, <1>t DEF PsTypeOK, CreateProject, InsertRow
    <2>2. <<m, "manual">> \in ProjectIds /\ InsertRow(<<m, "manual">>, name, org)
          BY <1>1 DEF ProjectIds, CreateProject
    <2>3. UNCHANGED <<attached, creating, released>>
          BY <1>1 DEF CreateProject
    <2>4. ASSUME NEW s \in Sites PROVE Claims(s)' => Claims(s) /\ <<s, "site">> # <<m, "manual">>
          BY <2>3 DEF Claims
    <2> QED BY <2>1, <2>2, <2>3, <2>4, PsInserts
  <1>2. ASSUME NEW p \in ProjectIds, CreateEnvironment(p) \/ CountAttached(p) PROVE PsInv'
    <2>1. PsTypeOK'
          BY <1>2, <1>t DEF PsTypeOK, CreateEnvironment, CountAttached
    <2>2. UNCHANGED <<attached, creating, released, projects>>
          BY <1>2 DEF CreateEnvironment, CountAttached
    <2>3. \A s \in Sites : Claims(s)' => Claims(s)
          BY <2>2 DEF Claims
    <2> QED BY <2>1, <2>2, <2>3, PsKeeps
  <1>3. ASSUME NEW p \in ProjectIds, NEW name \in SiteNames, UpdateProject(p, name) PROVE PsInv'
    <2>1. PsTypeOK'
          BY <1>3, <1>t DEF PsTypeOK, UpdateProject, InsertRow
    <2>2. /\ InsertRow(p, name, projects[p].org)
          /\ UNCHANGED <<attached, creating>> /\ released' = released \cup {projects[p]}
          BY <1>3 DEF UpdateProject
    <2>3. \A s \in Sites : Claims(s)' => Claims(s)
          BY <2>2 DEF Claims
    <2> QED BY <2>1, <2>2, <2>3, PsInserts
  <1>4. ASSUME NEW p \in ProjectIds, DeleteProject(p) PROVE PsInv'
    <2>1. PsTypeOK'
          BY <1>4, <1>t DEF PsTypeOK, DeleteProject
    <2>2. /\ projects'[p] = NoName /\ \A q \in ProjectIds \ {p} : projects'[q] = projects[q]
          /\ UNCHANGED <<attached, creating>> /\ released' = released \cup {projects[p]}
          BY <1>4, <1>t DEF DeleteProject, PsTypeOK
    <2>3. RowsUnique'
          BY <2>2 DEF PsInv, RowsUnique
    <2>4. ASSUME NEW s \in Sites, Claims(s)'
          PROVE  projects'[<<s, "site">>] = Asked(s) \/ Asked(s) \in released'
      <3>1. <<s, "site">> \in ProjectIds /\ Claims(s)
            BY <2>2, <2>4 DEF ProjectIds, Claims
      <3>2. projects[<<s, "site">>] = Asked(s) \/ Asked(s) \in released
            BY <3>1 DEF PsInv, ClaimsHold
      <3> QED BY <2>2, <3>1, <3>2
    <2>5. ClaimsHold'
          BY <2>4 DEF ClaimsHold, Asked
    <2> QED BY <2>1, <2>3, <2>5 DEF PsInv
  <1> QED BY <1>1, <1>2, <1>3, <1>4

\* The start of the process.
LEMMA PsStarts ==
    ASSUME PsInv,
           RestartSites \/ SitesStarted \/ \E s \in Sites : MigrateProject(s) \/ MigrateAttach(s)
    PROVE  PsInv'
  <1> USE DEF siteTables, projectTables
  <1>t. PsTypeOK
        BY DEF PsInv
  <1>1. CASE RestartSites
    <2>1. PsTypeOK'
          BY <1>1, <1>t, SitesType DEF PsTypeOK, RestartSites
    <2>2. UNCHANGED <<projects, released, attached>>
          BY <1>1 DEF RestartSites
    <2>3. \A t \in Sites : creating'[t] \notin {"environment", "attach"}
          BY <1>1 DEF RestartSites
    <2>4. \A t \in Sites : Claims(t)' => Claims(t)
          BY <2>2, <2>3 DEF Claims
    <2> QED BY <2>1, <2>2, <2>4, PsKeeps
  <1>2. CASE SitesStarted
    <2>1. PsTypeOK'
          BY <1>2, <1>t DEF PsTypeOK, SitesStarted
    <2> QED BY <1>2, <2>1, PsKeeps DEF SitesStarted, Claims
  <1>3. ASSUME NEW s \in Sites, MigrateProject(s) PROVE PsInv'
    <2>0. <<s, "compatibility">> \in ProjectIds /\ \A t \in Sites : <<t, "site">> # <<s, "compatibility">>
          BY DEF ProjectIds
    <2>1. PsTypeOK'
          BY <1>3, <1>t DEF PsTypeOK, MigrateProject, InsertRow
    <2>2. UNCHANGED <<released, attached, creating>>
          BY <1>3 DEF MigrateProject
    <2>3. \A t \in Sites : Claims(t)' => Claims(t)
          BY <2>2 DEF Claims
    <2>4. CASE InsertRow(<<s, "compatibility">>, <<s, "compatibility">>, siteOrg[s])
          BY <2>0, <2>1, <2>2, <2>3, <2>4, PsInserts
    <2>5. CASE UNCHANGED projects
          BY <2>1, <2>2, <2>3, <2>5, PsKeeps
    <2> QED BY <1>3, <2>4, <2>5 DEF MigrateProject
  <1>4. ASSUME NEW s \in Sites, MigrateAttach(s) PROVE PsInv'
    <2>0. <<s, "compatibility">> \in ProjectIds /\ <<s, "compatibility">> # <<s, "site">>
          BY DEF ProjectIds
    <2>1. PsTypeOK'
          BY <1>4, <1>t, <2>0 DEF PsTypeOK, MigrateAttach
    <2>2. UNCHANGED <<projects, released, creating>>
          BY <1>4 DEF MigrateAttach
    <2>3. ASSUME NEW t \in Sites, Claims(t)' PROVE Claims(t)
      <3>1. attached'[s] = <<s, "compatibility">> /\ (t # s => attached'[t] = attached[t])
            BY <1>4, <1>t DEF MigrateAttach, PsTypeOK
      <3> QED BY <2>0, <2>2, <2>3, <3>1 DEF Claims
    <2> QED BY <2>1, <2>2, <2>3, PsKeeps
  <1> QED BY <1>1, <1>2, <1>3, <1>4

\* Every step keeps the invariant.
LEMMA PsInvStep == PsInv /\ [PsNext]_psVars => PsInv'
  <1> SUFFICES ASSUME PsInv, [PsNext]_psVars PROVE PsInv'
      OBVIOUS
  <1>1. CASE UNCHANGED psVars
    <2>1. PsTypeOK'
          BY <1>1 DEF PsInv, PsTypeOK, psVars, siteTables, projectTables
    <2> QED BY <1>1, <2>1, PsKeeps DEF psVars, siteTables, projectTables, Claims
  <1>2. ASSUME NEW s \in Sites, UNCHANGED boot,
               \/ CheckName(s) \/ InsertSite(s) \/ InsertProject(s) \/ InsertEnvironment(s)
               \/ Attach(s) \/ Cancel(s) \/ UndoSite(s) \/ TriggerFirst(s) \/ RedeploySite(s)
        PROVE  PsInv'
        BY <1>2, PsCreates
  <1>3. ASSUME NEW s \in Sites, UNCHANGED boot,
               DeleteSite(s) \/ DeleteSiteRecords(s) \/ DeleteSiteRow(s)
        PROVE  PsInv'
        BY <1>3, PsDeletes
  <1>4. ASSUME UNCHANGED boot,
               \/ \E m \in Manual, name \in SiteNames, org \in Orgs : CreateProject(m, name, org)
               \/ \E p \in ProjectIds :
                   \/ CreateEnvironment(p) \/ CountAttached(p) \/ DeleteProject(p)
                   \/ \E name \in SiteNames : UpdateProject(p, name)
        PROVE  PsInv'
        BY <1>4, PsProjects
  <1>5. ASSUME RestartSites \/ SitesStarted \/ \E s \in Sites : MigrateProject(s) \/ MigrateAttach(s)
        PROVE  PsInv'
        BY <1>5, PsStarts
  <1> QED BY <1>1, <1>2, <1>3, <1>4, <1>5 DEF PsNext, Requests

\* Two requests that both found a name free do not both get a site attached to
\* the project they created, unless the first one's project gave up the name
\* meanwhile, wherever requests to create and delete fail or the process stops
\* (components/sites/sites.go: insertSite; components/projects/projects.go).
THEOREM SiteNamesHeld == PsSpec => [](PsTypeOK /\ NamesUnique)
  <1>1. PsInv => PsTypeOK /\ NamesUnique
        BY PsInvNames DEF PsInv
  <1> QED BY <1>1, PsInvInit, PsInvStep, PTL DEF PsSpec

-----------------------------------------------------------------------------
(* Custom domains.                                                         *)

\* A row of custom_domains.
RowSet == [present : BOOLEAN, verified : BOOLEAN, attempts : Nat, started : Nat, retryAfter : Nat]
\* Where a request on a domain is.
DomainPlaces == {"free", "unregister", "verify", "retry", "activate", "register", "record"}
\* A request and the row it works on.
HandlerSet == [at : DomainPlaces, key : Keyed \cup {<<>>}]

\* A row counts its attempts from the time of its reset, one per window, and the
\* window it waits for is at most the next one.
RowOK(k) ==
    /\ domainRow[k].verified => domainRow[k].present
    /\ ~domainRow[k].present => domainRow[k].attempts = 0
    /\ domainRow[k].attempts = 0 \/ domainRow[k].attempts + reset[k] <= domainRow[k].retryAfter
    /\ domainRow[k].retryAfter <= now + 1
    /\ reset[k] <= now

\* The domain of a handler that is on its way to the route: verified, or deleted
\* on the way, or its site was, or the verification could not be written.
Excused(k) == k \in overtaken \cup unwritten \/ k[1] \notin ownerRows
\* A request past its check: what it checked still holds, or a deletion
\* overtook it or its site is gone.
HandlerOK(h) ==
    /\ handler[h].at # "free" => handler[h].key \in Keyed
    /\ handler[h].at = "verify" => domainRow[handler[h].key].present \/ Excused(handler[h].key)
    /\ handler[h].at \in {"retry", "activate", "register"} =>
         domainRow[handler[h].key].verified \/ Excused(handler[h].key)

\* A route of a present owner has its verified row, or the request that will
\* remove it, or is overtaken.
RouteOK(k) ==
    routes[k[2]] = k[1] /\ k[1] \in ownerRows =>
        \/ domainRow[k].verified
        \/ \E h \in Handlers : handler[h].at = "unregister" /\ handler[h].key[2] = k[2]
        \/ k \in overtaken \cup unwritten

\* The types, with the numbers that TLC bounds.
DomTypes ==
    /\ DomTypeOK
    /\ handler \in [Handlers -> HandlerSet]
    /\ reset \in [Keyed -> Nat]

\* The inductive invariant.
DomInv ==
    /\ DomTypes
    /\ \A k \in Keyed : RowOK(k) /\ RouteOK(k)
    /\ \A h \in Handlers : HandlerOK(h)

\* The invariant gives the property.
LEMMA DomInvCorrect == DomInv => DomTypeOK /\ DomainsCorrect
  <1> SUFFICES ASSUME DomInv PROVE DomTypeOK /\ DomainsCorrect
      OBVIOUS
  <1>1. RoutedOnlyVerified
        BY DEF DomInv, RouteOK, RoutedOnlyVerified
  <1>2. ASSUME NEW k \in Keyed PROVE domainRow[k].attempts <= now - reset[k] + 1
    <2>1. RowOK(k) /\ domainRow[k] \in RowSet /\ now \in Nat /\ reset[k] \in Nat
          BY DomainBounds DEF DomInv, DomTypes, DomTypeOK, RowSet
    <2>2. domainRow[k].attempts \in Nat /\ domainRow[k].retryAfter \in Nat
          BY <2>1 DEF RowSet
    <2> QED BY <2>1, <2>2 DEF RowOK
  <1> QED BY <1>1, <1>2 DEF DomInv, DomTypes, DomainsCorrect, OneAttemptPerWindow

\* The row that is not there.
LEMMA NoRowTyped ==
    /\ NoRowYet \in RowSet /\ ~NoRowYet.present /\ ~NoRowYet.verified
    /\ NoRowYet.attempts = 0 /\ NoRowYet.retryAfter = 0
  BY DomainBounds DEF NoRowYet, RowSet, NoTime

\* The request that is over.
LEMMA FreeTyped == Free \in HandlerSet /\ Free.at = "free"
  BY DEF Free, HandlerSet, DomainPlaces

\* The invariant holds at the start.
LEMMA DomInvInit == DomInit => DomInv
  <1> SUFFICES ASSUME DomInit PROVE DomInv
      OBVIOUS
  <1> USE NoRowTyped, FreeTyped
  <1>1. \A k \in Keyed : domainRow[k] = NoRowYet /\ reset[k] = 0 /\ routes[k[2]] = NoOwner
        BY DEF DomInit, Keyed
  <1>2. \A h \in Handlers : handler[h] = Free
        BY DEF DomInit
  <1>3. handler \in [Handlers -> HandlerSet] /\ domainRow \in [Keyed -> RowSet] /\ reset \in [Keyed -> Nat]
        BY DEF DomInit
  <1>4. DomTypes
    <2>1. \A h \in Handlers : handler[h].at = "free"
          BY <1>2
    <2> QED BY <1>3, <2>1, DomainBounds DEF DomInit, DomTypes, DomTypeOK, RowSet
  <1>5. ASSUME NEW k \in Keyed PROVE RowOK(k) /\ RouteOK(k)
    <2>1. RowOK(k)
          BY <1>1 DEF RowOK, DomInit
    <2>2. k[1] # NoOwner
          BY DomainBounds DEF Keyed, NoOwner
    <2> QED BY <1>1, <2>1, <2>2 DEF RouteOK
  <1>6. \A h \in Handlers : HandlerOK(h)
        BY <1>2 DEF HandlerOK
  <1> QED BY <1>4, <1>5, <1>6 DEF DomInv

\* A step of one handler that touches neither the rows nor the routes.
LEMMA DomMoves ==
    ASSUME DomInv, NEW h \in Handlers, NEW o \in HandlerSet,
           handler' = [handler EXCEPT ![h] = o], handler[h].at # "unregister",
           UNCHANGED <<ownerRows, domainRow, running, routes, certs, now, reset, overtaken, unwritten>>,
           requests' \in 0 .. MaxRequests,
           o.at # "free" => o.key \in Keyed,
           o.at = "verify" => domainRow[o.key].present \/ Excused(o.key),
           o.at \in {"retry", "activate", "register"} => domainRow[o.key].verified \/ Excused(o.key)
    PROVE  DomInv'
  <1>1. /\ handler' \in [Handlers -> HandlerSet] /\ handler'[h] = o
        /\ \A g \in Handlers \ {h} : handler'[g] = handler[g]
        BY DEF DomInv, DomTypes
  <1>2. \A g \in Handlers : handler'[g].at \in DomainPlaces
        BY <1>1 DEF HandlerSet
  <1>3. DomTypes'
        BY <1>1, <1>2 DEF DomInv, DomTypes, DomTypeOK, DomainPlaces
  <1>4. ASSUME NEW k \in Keyed PROVE RowOK(k)' /\ RouteOK(k)'
        BY <1>1 DEF DomInv, RowOK, RouteOK
  <1>5. ASSUME NEW g \in Handlers PROVE HandlerOK(g)'
        BY <1>1 DEF DomInv, HandlerOK, Excused
  <1> QED BY <1>3, <1>4, <1>5 DEF DomInv

\* A new request that goes on with a row it found.
LEMMA DomArrives ==
    ASSUME DomInv, NEW h \in Handlers, NEW k \in Keyed,
           \/ Verify(h, k) \/ RetryDomainCert(h, k) \/ ListDomain(h, k)
    PROVE  DomInv'
  <1>1. handler[h].at # "unregister" /\ requests < MaxRequests /\ requests' = requests + 1
        BY FreeTyped DEF Verify, RetryDomainCert, ListDomain, Arrive
  <1>2. requests' \in 0 .. MaxRequests
        BY <1>1, DomainBounds DEF DomInv, DomTypes, DomTypeOK
  <1>3. ASSUME NEW pc \in DomainPlaces, Arrive(h, pc, k), pc # "free",
               UNCHANGED <<ownerRows, domainRow, running, routes, certs, now, reset, overtaken, unwritten>>,
               pc = "verify" => domainRow[k].present,
               pc \in {"retry", "activate", "register"} => domainRow[k].verified
        PROVE  DomInv'
    <2> DEFINE o == [at |-> pc, key |-> k]
    <2>1. o \in HandlerSet /\ o.at = pc /\ o.key = k
          BY DEF HandlerSet
    <2>2. handler' = [handler EXCEPT ![h] = o]
          BY <1>3 DEF Arrive
    <2> HIDE DEF o
    <2> QED BY <1>1, <1>2, <1>3, <2>1, <2>2, DomMoves
  <1>4. CASE Verify(h, k)
        BY <1>3, <1>4 DEF Verify, DomainPlaces
  <1>5. CASE RetryDomainCert(h, k)
        BY <1>3, <1>5 DEF RetryDomainCert, DomainPlaces
  <1>6. CASE ListDomain(h, k)
        BY <1>3, <1>6 DEF ListDomain, DomainPlaces
  <1> QED BY <1>4, <1>5, <1>6

\* A verification that fails, and the read before the activation.
LEMMA DomWaits ==
    ASSUME DomInv, NEW h \in Handlers, NotVerified(h) \/ UpdateFails(h) \/ ActivateRead(h)
    PROVE  DomInv'
  <1>1. requests' \in 0 .. MaxRequests
        BY DEF DomInv, DomTypes, DomTypeOK, NotVerified, UpdateFails, ActivateRead, Step, Done
  <1>2. /\ handler[h].at # "unregister"
        /\ UNCHANGED <<ownerRows, domainRow, running, routes, certs, now, reset, overtaken, unwritten>>
        BY DEF NotVerified, UpdateFails, ActivateRead
  <1>3. CASE Done(h)
        BY <1>1, <1>2, <1>3, FreeTyped, DomMoves DEF Done
  <1>4. CASE ActivateRead(h) /\ Step(h, "register")
    <2> DEFINE o == [handler[h] EXCEPT !.at = "register"]
    <2>1. handler[h] \in HandlerSet
          BY DEF DomInv, DomTypes
    <2>2. o \in HandlerSet /\ o.at = "register" /\ o.key = handler[h].key
          BY <2>1 DEF HandlerSet, DomainPlaces
    <2>3. handler' = [handler EXCEPT ![h] = o]
          BY <1>4 DEF Step
    <2> HIDE DEF o
    <2>4. HandlerOK(h) /\ handler[h].at = "activate"
          BY <1>4 DEF DomInv, ActivateRead
    <2> QED BY <1>1, <1>2, <2>2, <2>3, <2>4, DomMoves DEF HandlerOK
  <1> QED BY <1>3, <1>4 DEF NotVerified, UpdateFails, ActivateRead

\* A handler changes its row, and goes on: the row keeps what it has been verified for.
LEMMA DomWrites ==
    ASSUME DomInv, NEW h \in Handlers, NEW k \in Keyed, NEW o \in HandlerSet, NEW row \in RowSet,
           handler' = [handler EXCEPT ![h] = o], handler[h].at # "unregister", handler[h].key = k,
           o.key = k \/ o.at = "free",
           o.at \in {"free", "activate"},
           o.at = "activate" => row.verified \/ Excused(k) \/ k \in unwritten',
           domainRow' = [domainRow EXCEPT ![k] = row],
           row.present = domainRow[k].present, domainRow[k].verified => row.verified,
           row.verified => row.present,
           reset' \in [Keyed -> Nat], \A j \in Keyed \ {k} : reset'[j] = reset[j],
           reset'[k] <= now,
           ~row.present => row.attempts = 0,
           row.attempts = 0 \/ row.attempts + reset'[k] <= row.retryAfter,
           row.retryAfter <= now + 1,
           UNCHANGED <<ownerRows, running, routes, certs, now, overtaken, requests>>,
           unwritten' \subseteq Keyed,
           \A j \in unwritten : j \in unwritten' \/ (j = k /\ row.verified)
    PROVE  DomInv'
  <1>1. /\ handler' \in [Handlers -> HandlerSet] /\ handler'[h] = o
        /\ \A g \in Handlers \ {h} : handler'[g] = handler[g]
        /\ domainRow' \in [Keyed -> RowSet] /\ domainRow'[k] = row
        /\ \A j \in Keyed \ {k} : domainRow'[j] = domainRow[j]
    <2>1. domainRow \in [Keyed -> RowSet]
          BY DEF DomInv, DomTypes, DomTypeOK, RowSet
    <2> QED BY <2>1 DEF DomInv, DomTypes
  <1>2. \A g \in Handlers : handler'[g].at \in DomainPlaces
        BY <1>1 DEF HandlerSet
  <1>3. DomTypes'
        BY <1>1, <1>2 DEF DomInv, DomTypes, DomTypeOK, DomainPlaces, RowSet
  <1>4. ASSUME NEW j \in Keyed PROVE RowOK(j)' /\ RouteOK(j)'
    <2>1. RowOK(j) /\ RouteOK(j)
          BY DEF DomInv
    <2>2. RowOK(j)'
      <3>1. CASE j = k
            BY <1>1, <3>1 DEF RowOK
      <3>2. CASE j # k
            BY <1>1, <2>1, <3>2 DEF RowOK
      <3> QED BY <3>1, <3>2
    <2>3. domainRow[j].verified => domainRow'[j].verified
          BY <1>1
    <2>4. RouteOK(j)'
          BY <1>1, <2>1, <2>3 DEF RouteOK
    <2> QED BY <2>2, <2>4
  <1>5. ASSUME NEW g \in Handlers PROVE HandlerOK(g)'
    <2>1. \A j \in Keyed : /\ domainRow[j].verified => domainRow'[j].verified
                           /\ domainRow[j].present => domainRow'[j].present
          BY <1>1
    <2>2. CASE g # h
          BY <1>1, <2>1, <2>2 DEF DomInv, HandlerOK, Excused
    <2>3. CASE g = h
          BY <1>1, <2>3 DEF HandlerOK, Excused
    <2> QED BY <2>2, <2>3
  <1> QED BY <1>3, <1>4, <1>5 DEF DomInv

\* What retryDomainCert writes.
LEMMA RowReset ==
    ASSUME NEW r \in RowSet, NEW n \in Nat,
           NEW o, o = [r EXCEPT !.attempts = 0, !.started = n, !.retryAfter = n + 1]
    PROVE  /\ o \in RowSet /\ o.present = r.present /\ o.verified = r.verified
           /\ o.attempts = 0 /\ o.retryAfter = n + 1
  <1>1. n + 1 \in Nat
        OBVIOUS
  <1> QED BY <1>1 DEF RowSet

\* A row verified, its attempts reset, an attempt recorded.
LEMMA DomRowSteps ==
    ASSUME DomInv, NEW h \in Handlers, Verified(h) \/ ResetAttempts(h) \/ RecordCertAttempt(h)
    PROVE  DomInv'
  <1> DEFINE k == handler[h].key
             r == domainRow[k]
             o == [handler[h] EXCEPT !.at = "activate"]
  <1>1. /\ handler[h] \in HandlerSet /\ domainRow \in [Keyed -> RowSet] /\ HandlerOK(h)
        /\ now \in 0 .. MaxTime /\ reset \in [Keyed -> Nat]
        BY DEF DomInv, DomTypes, DomTypeOK, RowSet
  <1>2. k \in Keyed /\ handler[h].at # "unregister"
        BY <1>1 DEF HandlerOK, Verified, ResetAttempts, RecordCertAttempt
  <1>3. o \in HandlerSet /\ o.at = "activate" /\ o.key = k
        BY <1>1 DEF HandlerSet, DomainPlaces
  <1>4. /\ r \in RowSet /\ RowOK(k) /\ reset[k] \in Nat /\ now \in Nat
        BY <1>1, <1>2, DomainBounds DEF DomInv
  <1>5. /\ r.attempts \in Nat /\ r.retryAfter \in Nat /\ r.present \in BOOLEAN /\ r.verified \in BOOLEAN
        /\ r.started \in Nat
        BY <1>4 DEF RowSet
  <1>6. /\ UNCHANGED <<ownerRows, running, routes, certs, now, overtaken, requests>>
        /\ unwritten \subseteq Keyed /\ unwritten' \subseteq Keyed
        /\ ResetAttempts(h) \/ RecordCertAttempt(h) => unwritten' = unwritten
        BY <1>2 DEF Verified, ResetAttempts, RecordCertAttempt, Step, Done, DomInv, DomTypes, DomTypeOK
  <1>10. CASE Verified(h) /\ UNCHANGED domainRow /\ unwritten' = unwritten \cup {k}
    <2>1. domainRow' = [domainRow EXCEPT ![k] = r] /\ UNCHANGED reset
          BY <1>1, <1>2, <1>10 DEF Verified
    <2>2. handler' = [handler EXCEPT ![h] = o]
          BY <1>10 DEF Verified, Step
    <2> HIDE DEF o, r, k
    <2> QED BY <1>1, <1>2, <1>3, <1>4, <1>5, <1>6, <1>10, <2>1, <2>2, DomWrites DEF RowOK, r, k
  <1>7. CASE Verified(h) /\ ~(UNCHANGED domainRow /\ unwritten' = unwritten \cup {k})
    <2> DEFINE row == IF r.present THEN [r EXCEPT !.verified = TRUE, !.started = IF @ = NoTime THEN now ELSE @]
                      ELSE r
    <2>1. /\ row \in RowSet /\ row.present = r.present /\ row.verified = (r.present \/ r.verified)
          /\ row.attempts = r.attempts /\ row.retryAfter = r.retryAfter
          BY <1>4, <1>5 DEF RowSet
    <2>2. domainRow' = [domainRow EXCEPT ![k] = row] /\ UNCHANGED reset
          BY <1>1, <1>2, <1>7 DEF Verified
    <2>3. handler' = [handler EXCEPT ![h] = o]
          BY <1>7 DEF Verified, Step
    <2>4. r.present \/ Excused(k)
          BY <1>1, <1>7 DEF Verified, HandlerOK
    <2>6. \A j \in unwritten : j \in unwritten' \/ (j = k /\ r.present)
          BY <1>7 DEF Verified
    <2> HIDE DEF row, o, r, k
    <2>5. row.verified \/ Excused(k)
          BY <1>4, <2>1, <2>4 DEF RowOK, r
    <2> QED BY <1>1, <1>2, <1>3, <1>4, <1>5, <1>6, <2>1, <2>2, <2>3, <2>5, <2>6, DomWrites DEF RowOK, r, k
  <1>8. CASE ResetAttempts(h)
    <2> DEFINE row == IF r.present THEN [r EXCEPT !.attempts = 0, !.started = now, !.retryAfter = now + 1]
                      ELSE r
    <2>1. /\ row \in RowSet /\ row.present = r.present /\ row.verified = r.verified
          /\ row.attempts = IF r.present THEN 0 ELSE r.attempts
          /\ row.retryAfter = IF r.present THEN now + 1 ELSE r.retryAfter
      <3> HIDE DEF r
      <3>1. CASE r.present
        <4>1. row = [r EXCEPT !.attempts = 0, !.started = now, !.retryAfter = now + 1]
              BY <3>1
        <4> HIDE DEF row
        <4>2. now \in Nat /\ r \in RowSet
              BY <1>4
        <4>3. /\ row \in RowSet /\ row.present = r.present /\ row.verified = r.verified
              /\ row.attempts = 0 /\ row.retryAfter = now + 1
              BY <4>1, <4>2, RowReset
        <4> QED BY <3>1, <4>3
      <3>2. CASE ~r.present
            BY <1>4, <3>2
      <3> QED BY <3>1, <3>2
    <2>2. domainRow' = [domainRow EXCEPT ![k] = row]
          BY <1>1, <1>2, <1>8 DEF ResetAttempts
    <2>3. PICK goes \in {o, Free} : handler' = [handler EXCEPT ![h] = goes]
          BY <1>8 DEF ResetAttempts, Step, Done
    <2>4. r.verified \/ Excused(k)
          BY <1>1, <1>8 DEF ResetAttempts, HandlerOK
    <2>5. reset' \in [Keyed -> Nat] /\ reset'[k] = now /\ \A j \in Keyed \ {k} : reset'[j] = reset[j]
          BY <1>1, <1>2, <1>4, <1>8 DEF ResetAttempts
    <2> HIDE DEF row, o, r, k
    <2>6. row.attempts = 0 /\ row.retryAfter <= now + 1
          BY <1>4, <1>5, <2>1 DEF RowOK, r
    <2>7. row.verified => row.present
          BY <1>4, <2>1 DEF RowOK, r
    <2>8. reset'[k] <= now /\ (goes.at = "activate" => row.verified \/ Excused(k))
          BY <1>4, <2>1, <2>4, <2>5
    <2>10. goes \in HandlerSet /\ (goes.key = k \/ goes.at = "free") /\ goes.at \in {"free", "activate"}
          BY <1>3, <2>3, FreeTyped
    <2>9. handler[h].key = k /\ domainRow[k] = r
          BY DEF r, k
    <2> QED BY <1>2, <1>6, <1>8, <2>1, <2>2, <2>3, <2>5, <2>6, <2>7, <2>8, <2>9, <2>10, DomWrites
  <1>9. CASE RecordCertAttempt(h)
    <2> DEFINE counts == r.present /\ r.retryAfter <= now
               row == IF counts
                      THEN [r EXCEPT !.attempts = @ + 1, !.retryAfter = now + 1,
                                     !.started = IF @ = NoTime THEN now ELSE @]
                      ELSE r
    <2>1. /\ row \in RowSet /\ row.present = r.present /\ row.verified = r.verified
          /\ row.attempts = IF counts THEN r.attempts + 1 ELSE r.attempts
          /\ row.retryAfter = IF counts THEN now + 1 ELSE r.retryAfter
      <3> HIDE DEF r, counts
      <3>1. CASE counts
        <4> DEFINE began == IF r.started = NoTime THEN now ELSE r.started
                   count == r.attempts + 1
                   due == now + 1
        <4>1. row = [r EXCEPT !.attempts = count, !.retryAfter = due, !.started = began]
              BY <3>1
        <4>2. r \in RowSet /\ began \in Nat /\ count \in Nat /\ due \in Nat
              BY <1>4, <1>5
        <4> HIDE DEF row, began, count, due
        <4>3. /\ row \in RowSet /\ row.present = r.present /\ row.verified = r.verified
              /\ row.attempts = count /\ row.retryAfter = due
              BY <4>1, <4>2 DEF RowSet
        <4> QED BY <3>1, <4>3 DEF count, due
      <3>2. CASE ~counts
            BY <1>4, <3>2
      <3> QED BY <3>1, <3>2
    <2>2. domainRow' = [domainRow EXCEPT ![k] = row] /\ UNCHANGED reset
          BY <1>1, <1>2, <1>9 DEF RecordCertAttempt
    <2>3. handler' = [handler EXCEPT ![h] = Free]
          BY <1>9 DEF RecordCertAttempt, Done
    <2>4. counts => r.present /\ r.retryAfter <= now
          OBVIOUS
    <2> HIDE DEF row, o, r, k, counts
    <2>5. /\ row.attempts = 0 \/ row.attempts + reset[k] <= row.retryAfter
          /\ row.retryAfter <= now + 1
          /\ ~row.present => row.attempts = 0
          BY <1>4, <1>5, <2>1, <2>4 DEF RowOK, r
    <2> QED BY <1>1, <1>2, <1>4, <1>5, <1>6, <1>9, <2>1, <2>2, <2>3, <2>5, FreeTyped, DomWrites DEF RowOK, r, k
  <1> QED BY <1>7, <1>8, <1>9, <1>10

\* A row deleted: a request takes over the removal of its route.
LEMMA DomDeletes ==
    ASSUME DomInv, NEW h \in Handlers, NEW k \in Keyed, DeleteDomain(h, k)
    PROVE  DomInv'
  <1> DEFINE failed == UNCHANGED handler /\ k \in overtaken'
             o == IF failed THEN Free ELSE [at |-> "unregister", key |-> k]
  <1>1. o \in HandlerSet /\ (~failed => o.at = "unregister" /\ o.key = k) /\ (failed => o.at = "free")
        BY FreeTyped DEF HandlerSet, DomainPlaces
  <1>2. /\ handler' = [handler EXCEPT ![h] = o] /\ handler[h].at = "free"
        /\ requests < MaxRequests /\ requests' = requests + 1
    <2>1. handler[h] = Free /\ handler = [handler EXCEPT ![h] = handler[h]]
          BY DEF DeleteDomain, Arrive, DomInv, DomTypes
    <2>2. CASE failed
          BY <2>1, <2>2, FreeTyped DEF DeleteDomain, Arrive
    <2>3. CASE ~failed
          BY <2>1, <2>3, FreeTyped DEF DeleteDomain, Arrive
    <2> QED BY <2>2, <2>3
  <1>3. /\ domainRow' = [domainRow EXCEPT ![k] = NoRowYet]
        /\ overtaken \subseteq overtaken' /\ overtaken' \subseteq overtaken \cup {k}
        /\ Activating(k) => k \in overtaken'
        /\ failed => k \in overtaken'
        /\ UNCHANGED <<ownerRows, running, routes, certs, now, reset, unwritten>>
        BY DEF DeleteDomain
  <1> HIDE DEF o, failed
  <1>4. /\ handler' \in [Handlers -> HandlerSet] /\ handler'[h] = o
        /\ \A g \in Handlers \ {h} : handler'[g] = handler[g]
        /\ domainRow' \in [Keyed -> RowSet] /\ domainRow'[k] = NoRowYet
        /\ \A j \in Keyed \ {k} : domainRow'[j] = domainRow[j]
    <2>1. domainRow \in [Keyed -> RowSet]
          BY DEF DomInv, DomTypes, DomTypeOK, RowSet
    <2> QED BY <1>1, <1>2, <1>3, <2>1, NoRowTyped DEF DomInv, DomTypes
  <1>5. \A g \in Handlers : handler'[g].at \in DomainPlaces
        BY <1>4 DEF HandlerSet
  <1>6. DomTypes'
    <2>1. requests' \in 0 .. MaxRequests
          BY <1>2, DomainBounds DEF DomInv, DomTypes, DomTypeOK
    <2> QED BY <1>3, <1>4, <1>5, <2>1 DEF DomInv, DomTypes, DomTypeOK, DomainPlaces, RowSet
  <1>7. ASSUME NEW j \in Keyed PROVE RowOK(j)' /\ RouteOK(j)'
    <2>1. CASE j = k
      <3>1. RowOK(j)'
        <4>1. reset[k] <= now /\ now \in Nat
              BY DomainBounds DEF DomInv, RowOK, DomTypes, DomTypeOK
        <4> QED BY <1>3, <1>4, <2>1, <4>1, NoRowTyped DEF RowOK
      <3>2. RouteOK(j)'
            BY <1>1, <1>3, <1>4, <2>1 DEF RouteOK
      <3> QED BY <3>1, <3>2
    <2>2. CASE j # k
      <3>1. \A g \in Handlers : handler[g].at = "unregister" => handler'[g] = handler[g]
            BY <1>2, <1>4
      <3> QED BY <1>3, <1>4, <2>2, <3>1 DEF DomInv, RowOK, RouteOK
    <2> QED BY <2>1, <2>2
  <1>8. ASSUME NEW g \in Handlers PROVE HandlerOK(g)'
    <2>1. CASE g = h
          BY <1>1, <1>4, <2>1 DEF HandlerOK
    <2>2. CASE g # h /\ handler[g].key = k
          BY <1>3, <1>4, <2>2 DEF DomInv, HandlerOK, Activating, Excused
    <2>3. CASE g # h /\ handler[g].key # k
          BY <1>3, <1>4, <2>3 DEF DomInv, HandlerOK, Excused
    <2> QED BY <2>1, <2>2, <2>3
  <1> QED BY <1>6, <1>7, <1>8 DEF DomInv

\* The steps that change rows, routes or owners and no handler on its way.
LEMMA DomRegisters ==
    ASSUME DomInv, NEW h \in Handlers, NEW k \in Keyed, RegisterDomain(h, k)
    PROVE  DomInv'
  <1> DEFINE row == [NoRowYet EXCEPT !.present = TRUE]
  <1>1. row \in RowSet /\ row.present /\ ~row.verified /\ row.attempts = 0 /\ row.retryAfter = 0
    <2> HIDE DEF NoRowYet
    <2> QED BY NoRowTyped DEF RowSet
  <1>2. /\ ~domainRow[k].present /\ domainRow' = [domainRow EXCEPT ![k] = row]
        /\ reset' = [reset EXCEPT ![k] = now]
        /\ requests < MaxRequests /\ requests' = requests + 1
        /\ UNCHANGED <<ownerRows, running, routes, certs, handler, now, overtaken, unwritten>>
        BY DEF RegisterDomain
  <1> HIDE DEF row
  <1>3. /\ domainRow' \in [Keyed -> RowSet] /\ domainRow'[k] = row
        /\ \A j \in Keyed \ {k} : domainRow'[j] = domainRow[j] /\ reset'[j] = reset[j]
        /\ reset' \in [Keyed -> Nat] /\ reset'[k] = now /\ now \in Nat
    <2>1. domainRow \in [Keyed -> RowSet] /\ reset \in [Keyed -> Nat] /\ now \in Nat
          BY DomainBounds DEF DomInv, DomTypes, DomTypeOK, RowSet
    <2> QED BY <1>1, <1>2, <2>1
  <1>4. DomTypes'
    <2>1. requests' \in 0 .. MaxRequests
          BY <1>2, DomainBounds DEF DomInv, DomTypes, DomTypeOK
    <2> QED BY <1>2, <1>3, <2>1 DEF DomInv, DomTypes, DomTypeOK, RowSet
  <1>5. ~domainRow[k].verified
        BY <1>2 DEF DomInv, RowOK
  <1>6. ASSUME NEW j \in Keyed PROVE RowOK(j)' /\ RouteOK(j)'
    <2>1. RowOK(j)'
      <3>1. CASE j = k
            BY <1>1, <1>2, <1>3, <3>1 DEF RowOK
      <3>2. CASE j # k
            BY <1>2, <1>3, <3>2 DEF DomInv, RowOK
      <3> QED BY <3>1, <3>2
    <2>2. RouteOK(j)'
      <3>1. domainRow[j].verified => domainRow'[j].verified
            BY <1>3, <1>5
      <3> QED BY <1>2, <3>1 DEF DomInv, RouteOK
    <2> QED BY <2>1, <2>2
  <1>7. ASSUME NEW g \in Handlers PROVE HandlerOK(g)'
    <2>1. \A j \in Keyed : /\ domainRow[j].verified => domainRow'[j].verified
                           /\ domainRow[j].present => domainRow'[j].present
          BY <1>1, <1>3, <1>5
    <2> QED BY <1>2, <2>1 DEF DomInv, HandlerOK, Excused
  <1> QED BY <1>4, <1>6, <1>7 DEF DomInv

\* The proxy's routes removed and registered.
LEMMA DomRoutes ==
    ASSUME DomInv, NEW h \in Handlers, UnregisterHost(h) \/ ActivateRegister(h)
    PROVE  DomInv'
  <1> DEFINE k == handler[h].key
             to == IF handler[h].at = "register" THEN k[1] ELSE NoOwner
  <1>1. k \in Keyed /\ handler[h].at \in {"unregister", "register"} /\ HandlerOK(h)
        BY DEF DomInv, HandlerOK, UnregisterHost, ActivateRegister
  <1>2. /\ routes' = [routes EXCEPT ![k[2]] = to] /\ handler' = [handler EXCEPT ![h] = Free]
        /\ UNCHANGED <<ownerRows, domainRow, running, certs, now, reset, requests>>
        /\ overtaken' \subseteq overtaken /\ unwritten' \subseteq unwritten
        /\ handler[h].at = "register" => UNCHANGED <<overtaken, unwritten>>
        /\ \A j \in overtaken \cup unwritten : (j[2] = k[2] /\ ~Activating(j)) \/ j \in overtaken' \cup unwritten'
        BY DEF UnregisterHost, ActivateRegister, Route, Done
  <1>3. k[1] \in Owners /\ k[2] \in Domains /\ to \in Owners \cup {NoOwner}
        BY <1>1 DEF Keyed
  <1>4. /\ handler' \in [Handlers -> HandlerSet] /\ handler'[h] = Free
        /\ \A g \in Handlers \ {h} : handler'[g] = handler[g]
        /\ routes' \in [Domains -> Owners \cup {NoOwner}] /\ routes'[k[2]] = to
        /\ \A d \in Domains \ {k[2]} : routes'[d] = routes[d]
        BY <1>2, <1>3, FreeTyped DEF DomInv, DomTypes, DomTypeOK
  <1>5. \A g \in Handlers : handler'[g].at \in DomainPlaces
        BY <1>4 DEF HandlerSet
  <1>6. DomTypes'
        BY <1>2, <1>4, <1>5 DEF DomInv, DomTypes, DomTypeOK, DomainPlaces
  <1>7. ASSUME NEW j \in Keyed PROVE RowOK(j)' /\ RouteOK(j)'
    <2>0. j[1] \in Owners /\ j[2] \in Domains /\ j[1] # NoOwner
          BY DomainBounds DEF Keyed, NoOwner
    <2>1. RowOK(j)'
          BY <1>2 DEF DomInv, RowOK
    <2>2. CASE j[2] # k[2]
      <3>1. \A g \in Handlers : handler[g].at = "unregister" /\ handler[g].key[2] = j[2]
                                    => handler'[g] = handler[g]
            BY <1>4, <2>2
      <3> QED BY <1>2, <1>4, <2>0, <2>1, <2>2, <3>1 DEF DomInv, RouteOK
    <2>3. CASE j[2] = k[2] /\ handler[h].at = "unregister"
          BY <1>2, <1>4, <2>0, <2>1, <2>3 DEF RouteOK
    <2>4. CASE j[2] = k[2] /\ handler[h].at = "register"
      <3>1. CASE j[1] # k[1]
            BY <1>4, <2>1, <2>4, <3>1 DEF RouteOK
      <3>2. CASE j[1] = k[1]
        <4>1. j = k
              BY <1>1, <2>4, <3>2 DEF Keyed
        <4>2. domainRow[j].verified \/ Excused(j)
              BY <1>1, <2>4, <4>1 DEF HandlerOK
        <4> QED BY <1>2, <2>1, <2>4, <4>2 DEF RouteOK, Excused
      <3> QED BY <3>1, <3>2
    <2> QED BY <1>1, <2>2, <2>3, <2>4
  <1>8. ASSUME NEW g \in Handlers PROVE HandlerOK(g)'
    <2>1. CASE g = h
          BY <1>4, <2>1, FreeTyped DEF HandlerOK
    <2>2. CASE g # h
      <3>1. handler[g].at \in {"verify", "retry", "activate", "register"} => Activating(handler[g].key)
            BY DEF Activating
      <3> QED BY <1>2, <1>4, <2>2, <3>1 DEF DomInv, HandlerOK, Excused
    <2> QED BY <2>1, <2>2
  <1> QED BY <1>6, <1>7, <1>8 DEF DomInv

\* A site deleted, or deployed again.
LEMMA DomOwners ==
    ASSUME DomInv, NEW s \in Owners, DeleteOwner(s) \/ DeployRegisters(s)
    PROVE  DomInv'
  <1>1. requests' \in 0 .. MaxRequests
        BY DomainBounds DEF DomInv, DomTypes, DomTypeOK, DeleteOwner, DeployRegisters
  <1>2. CASE DeleteOwner(s)
    <2>1. /\ domainRow' \in [Keyed -> RowSet]
          /\ \A j \in Keyed : domainRow'[j] = IF j[1] = s THEN NoRowYet ELSE domainRow[j]
      <3>1. domainRow \in [Keyed -> RowSet]
            BY DEF DomInv, DomTypes, DomTypeOK, RowSet
      <3> QED BY <1>2, <3>1, NoRowTyped DEF DeleteOwner
    <2>2. /\ ownerRows' = ownerRows \ {s} /\ running' = running \ {s}
          /\ UNCHANGED <<routes, certs, handler, now, reset, overtaken, unwritten>>
          BY <1>2 DEF DeleteOwner
    <2>3. DomTypes'
          BY <1>1, <2>1, <2>2 DEF DomInv, DomTypes, DomTypeOK, RowSet
    <2>4. ASSUME NEW j \in Keyed PROVE RowOK(j)' /\ RouteOK(j)'
      <3>1. CASE j[1] = s
        <4>1. reset[j] <= now /\ now \in Nat
              BY DomainBounds DEF DomInv, RowOK, DomTypes, DomTypeOK
        <4> QED BY <2>1, <2>2, <3>1, <4>1, NoRowTyped DEF RowOK, RouteOK
      <3>2. CASE j[1] # s
            BY <2>1, <2>2, <3>2 DEF DomInv, RowOK, RouteOK
      <3> QED BY <3>1, <3>2
    <2>5. ASSUME NEW g \in Handlers PROVE HandlerOK(g)'
      <3>1. CASE handler[g].at = "free"
            BY <2>2, <3>1 DEF HandlerOK
      <3>2. CASE handler[g].at # "free" /\ handler[g].key[1] = s
            BY <2>1, <2>2, <3>2 DEF DomInv, HandlerOK, Excused
      <3>3. CASE handler[g].at # "free" /\ handler[g].key[1] # s
            BY <2>1, <2>2, <3>3 DEF DomInv, HandlerOK, Excused
      <3> QED BY <3>1, <3>2, <3>3
    <2> QED BY <2>3, <2>4, <2>5 DEF DomInv
  <1>3. CASE DeployRegisters(s)
    <2>1. /\ routes' \in [Domains -> Owners \cup {NoOwner}]
          /\ \A d \in Domains : routes'[d] = routes[d] \/ (routes'[d] = s /\ domainRow[<<s, d>>].verified)
          /\ running' = running \cup {s}
          /\ UNCHANGED <<ownerRows, domainRow, certs, handler, now, reset, overtaken, unwritten>>
          BY <1>3 DEF DeployRegisters, DomInv, DomTypes, DomTypeOK
    <2>2. DomTypes'
          BY <1>1, <2>1 DEF DomInv, DomTypes, DomTypeOK
    <2>3. ASSUME NEW j \in Keyed PROVE RowOK(j)' /\ RouteOK(j)'
      <3>0. j[2] \in Domains /\ j = <<j[1], j[2]>>
            BY DEF Keyed
      <3>1. RowOK(j)'
            BY <2>1 DEF DomInv, RowOK
      <3>2. CASE routes'[j[2]] = s /\ domainRow[<<s, j[2]>>].verified
        <4>1. j[1] = s => domainRow[j].verified
              BY <3>0, <3>2
        <4> QED BY <2>1, <3>1, <3>2, <4>1 DEF RouteOK
      <3>3. CASE routes'[j[2]] = routes[j[2]]
            BY <2>1, <3>1, <3>3 DEF DomInv, RouteOK
      <3> QED BY <2>1, <3>0, <3>2, <3>3
    <2>4. ASSUME NEW g \in Handlers PROVE HandlerOK(g)'
          BY <2>1 DEF DomInv, HandlerOK, Excused
    <2> QED BY <2>2, <2>3, <2>4 DEF DomInv
  <1> QED BY <1>2, <1>3

\* The window passes, or the proxy issues a certificate.
LEMMA DomClock ==
    ASSUME DomInv, WindowPasses \/ (\E d \in Domains : Issue(d)) \/ UNCHANGED domVars
    PROVE  DomInv'
  <1>1. /\ certs' \subseteq Domains /\ now' \in 0 .. MaxTime /\ now \in Nat /\ now' \in Nat /\ now <= now'
        /\ UNCHANGED <<ownerRows, domainRow, running, routes, handler, requests, reset, overtaken, unwritten>>
        BY DomainBounds DEF WindowPasses, Issue, domVars, DomInv, DomTypes, DomTypeOK
  <1>2. DomTypes'
        BY <1>1 DEF DomInv, DomTypes, DomTypeOK
  <1>3. ASSUME NEW j \in Keyed PROVE RowOK(j)' /\ RouteOK(j)'
    <2>1. domainRow[j].retryAfter \in Nat /\ reset[j] \in Nat
          BY DEF DomInv, DomTypes, DomTypeOK
    <2>2. RowOK(j)'
          BY <1>1, <2>1 DEF DomInv, RowOK
    <2> QED BY <1>1, <2>2 DEF DomInv, RouteOK
  <1>4. ASSUME NEW g \in Handlers PROVE HandlerOK(g)'
        BY <1>1 DEF DomInv, HandlerOK, Excused
  <1> QED BY <1>2, <1>3, <1>4 DEF DomInv

\* Every step keeps the invariant.
LEMMA DomInvStep == DomInv /\ [DomNext]_domVars => DomInv'
  <1> SUFFICES ASSUME DomInv, [DomNext]_domVars PROVE DomInv'
      OBVIOUS
  <1>1. ASSUME NEW h \in Handlers, NEW k \in Keyed,
               \/ RegisterDomain(h, k) \/ DeleteDomain(h, k) \/ Verify(h, k)
               \/ RetryDomainCert(h, k) \/ ListDomain(h, k)
        PROVE  DomInv'
        BY <1>1, DomRegisters, DomDeletes, DomArrives
  <1>2. ASSUME NEW h \in Handlers,
               \/ UnregisterHost(h) \/ Verified(h) \/ NotVerified(h) \/ ResetAttempts(h) \/ UpdateFails(h)
               \/ ActivateRead(h) \/ ActivateRegister(h) \/ RecordCertAttempt(h)
        PROVE  DomInv'
        BY <1>2, DomRoutes, DomRowSteps, DomWaits
  <1>3. ASSUME NEW s \in Owners, DeployRegisters(s) \/ DeleteOwner(s) PROVE DomInv'
        BY <1>3, DomOwners
  <1> QED BY <1>1, <1>2, <1>3, DomClock DEF DomNext

\* A host is routed to a present site only while the site has it verified, or
\* the request that removes the route is under way, or a deletion overtook the
\* request that set it; and no domain counts more than one attempt per retry
\* window (components/sites/domains.go: verifyDomain, deleteDomain,
\* recordCertAttempt; components/proxy/hosts.go).
THEOREM DomainsRouted == DomSpec => [](DomTypeOK /\ DomainsCorrect)
  <1> QED BY DomInvCorrect, DomInvInit, DomInvStep, PTL DEF DomSpec

-----------------------------------------------------------------------------
(* The settings of a site and the caches of the proxy.                     *)

\* Where a request or a deployment is.
Pcs == {"idle", "setPolicy", "setCsp", "manifest", "manifestBlind", "register", "cachePolicy",
        "cacheCsp", "fillPolicy", "getCsp", "fillCsp"}
\* Its place, what it has read, and for a visitor what it may be checked against.
Works == [at : Pcs, policy : Policies \cup {NoValue}, csp : Csps \cup {NoValue}, fields : 0..2,
          new : BOOLEAN, due : SUBSET Policies, why : {"found", "unread", "not a site"}]
\* The deploy defaults of a site, as far as they are told apart.
Defaults == [csp : Csps \cup {NoValue}, fields : 0..2]

\* The types, but for the requests.
StoreTypes ==
    /\ policyRow \in Policies
    /\ defaultsRow \in Defaults
    /\ policyCache \in Policies \cup {NoValue}
    /\ cspCache \in Csps \cup {NoValue}
    /\ hosted \in {"no", "site", "deployment"} /\ supervised \in BOOLEAN
    /\ ops \in 0..MaxOps /\ saved \in 0..2
    /\ disturbed \subseteq Settings

\* What a request carries at each place.
Carrying(k) ==
    /\ k.at \in {"setPolicy", "fillPolicy"} => k.policy # NoValue
    /\ k.at \in {"manifest", "manifestBlind", "fillCsp"} => k.csp # NoValue
    /\ k.new => k.at \in {"register", "cachePolicy", "cacheCsp"}
    /\ k.at \in {"fillPolicy", "getCsp"} =>
         IF k.why = "found" THEN k.policy \in k.due ELSE k.policy = NoValue

\* Whoever carries a policy carries the row's, and the proxy has it or will be told.
PolicyOK ==
    "policy" \notin disturbed =>
        /\ \A v \in Workers : CarriesPolicy(v) => worker[v].policy = policyRow
        /\ policyCache \in {NoValue, policyRow} \/ \E v \in Workers : worker[v].at = "setPolicy"
\* The same for the CSP.
CspOK ==
    "csp" \notin disturbed =>
        /\ \A v \in Workers : CarriesCsp(v) => worker[v].csp = defaultsRow.csp
        /\ cspCache \in {NoValue, defaultsRow.csp} \/ \E v \in Workers : Announcing(v)
\* The row has the fields last saved, and so has whoever will write them back.
FieldsOK ==
    "fields" \notin disturbed =>
        /\ defaultsRow.fields = saved
        /\ \A v \in Workers : worker[v].at = "manifest" => worker[v].fields = defaultsRow.fields

\* The inductive invariant.
PolInv ==
    /\ StoreTypes /\ worker \in [Workers -> Works]
    /\ \A v \in Workers : Carrying(worker[v])
    /\ PolicyOK /\ CspOK /\ FieldsOK

----------------------------------------------------------------------------

\* The request that is not there.
LEMMA RestingTyped ==
    /\ Resting \in Works /\ Resting.at = "idle" /\ Resting.csp = NoValue /\ Resting.policy = NoValue
    /\ Resting.fields = 0 /\ Resting.new = FALSE /\ Resting.why = "found" /\ Carrying(Resting)
  BY DEF Resting, Works, Pcs, Carrying

\* The invariant gives the property.
LEMMA PolInvCorrect == PolInv => PolTypeOK /\ SettingsTakeEffect
  <1> SUFFICES ASSUME PolInv PROVE PolTypeOK /\ SettingsTakeEffect
      OBVIOUS
  <1>1. PolTypeOK
        BY DEF PolInv, StoreTypes, PolTypeOK, Works, Defaults
  <1>2. SettingsTakeEffect
        BY DEF PolInv, SettingsTakeEffect, PolicyOK, CspOK, FieldsOK, Carrying
  <1> QED BY <1>1, <1>2

\* The invariant holds at the start.
LEMMA PolInvInit == PolInit => PolInv
  <1> SUFFICES ASSUME PolInit PROVE PolInv
      OBVIOUS
  <1>1. worker \in [Workers -> Works] /\ \A w \in Workers : worker[w] = Resting
        BY RestingTyped DEF PolInit
  <1>2. defaultsRow \in Defaults /\ defaultsRow.csp = NoValue /\ defaultsRow.fields = 0
        BY DEF PolInit, Defaults
  <1>3. StoreTypes
    <2>1. 0 \in 0..MaxOps /\ 0 \in 0..2 /\ DefaultPolicy \in Policies
          BY PoliciesType
    <2>2. policyRow \in Policies /\ policyCache = NoValue /\ cspCache = NoValue /\ hosted = "no"
          /\ supervised = FALSE /\ disturbed = {} /\ ops \in 0..MaxOps /\ saved \in 0..2
          BY <2>1 DEF PolInit
    <2> QED BY <1>2, <2>2 DEF StoreTypes
  <1>4. PolicyOK /\ CspOK /\ FieldsOK
        BY <1>1, <1>2, RestingTyped DEF PolInit, PolicyOK, CspOK, FieldsOK, CarriesPolicy, CarriesCsp
  <1> QED BY <1>1, <1>3, <1>4, RestingTyped DEF PolInv

----------------------------------------------------------------------------

\* One request moves: what remains is to show that the settings are kept.
LEMMA PolMoves ==
    ASSUME PolInv, NEW w \in Workers, NEW k \in Works, Carrying(k), worker' = [worker EXCEPT ![w] = k],
           StoreTypes', PolicyOK', CspOK', FieldsOK'
    PROVE  PolInv'
  BY DEF PolInv, Carrying

\* The values of the requests after one has moved.
LEMMA PolWorkers ==
    ASSUME PolInv, NEW w \in Workers, NEW k \in Works, worker' = [worker EXCEPT ![w] = k]
    PROVE  worker'[w] = k /\ \A v \in Workers \ {w} : worker'[v] = worker[v]
  BY DEF PolInv

\* A request begins within the bound.
LEMMA PolBegins ==
    ASSUME PolInv, NEW w \in Workers, NEW k, Begins(w, k)
    PROVE  worker' = [worker EXCEPT ![w] = k] /\ ops' \in 0..MaxOps /\ worker[w] = Resting
  BY PoliciesType DEF Begins, PolInv, StoreTypes

\* A move that leaves every row and cache alone, and to no place that matters to the
\* policy, keeps what is said of it.
LEMMA PolicyKept ==
    ASSUME PolInv, NEW w \in Workers, NEW k \in Works, worker' = [worker EXCEPT ![w] = k],
           disturbed' = disturbed \/ "policy" \in disturbed' \/ ("policy" \notin disturbed),
           worker[w].at # "setPolicy" \/ "policy" \in disturbed',
           k.at \in {"setPolicy", "cachePolicy", "fillPolicy"} => k.policy \in {NoValue, policyRow},
           policyRow' = policyRow, policyCache' \in {policyCache, policyRow}
    PROVE  PolicyOK'
  BY PolWorkers DEF PolInv, PolicyOK, CarriesPolicy

\* The same for the CSP.
LEMMA CspKept ==
    ASSUME PolInv, NEW w \in Workers, NEW k \in Works, worker' = [worker EXCEPT ![w] = k],
           disturbed' = disturbed \/ "csp" \in disturbed' \/ ("csp" \notin disturbed),
           (worker[w].at # "setCsp" /\ ~worker[w].new) \/ "csp" \in disturbed',
           k.at # "setCsp",
           k.at \in {"cachePolicy", "cacheCsp", "fillCsp"} => k.csp \in {NoValue, defaultsRow.csp},
           defaultsRow'.csp = defaultsRow.csp, cspCache' \in {cspCache, defaultsRow.csp}
    PROVE  CspOK'
  BY PolWorkers DEF PolInv, CspOK, CarriesCsp, Announcing

\* The same for the other fields.
LEMMA FieldsKept ==
    ASSUME PolInv, NEW w \in Workers, NEW k \in Works, worker' = [worker EXCEPT ![w] = k],
           disturbed' = disturbed \/ "fields" \in disturbed' \/ ("fields" \notin disturbed),
           k.at = "manifest" => k.fields = defaultsRow.fields,
           defaultsRow'.fields = defaultsRow.fields, saved' = saved
    PROVE  FieldsOK'
  BY PolWorkers DEF PolInv, FieldsOK

----------------------------------------------------------------------------

\* The handler of the policy writes the row, and then tells the proxy.
LEMMA SetSiteAuthPolicyStep ==
    ASSUME PolInv, NEW w \in Workers, NEW p \in Policies, SetSiteAuthPolicy(w, p) PROVE PolInv'
  <1> DEFINE k == [Resting EXCEPT !.at = "setPolicy", !.policy = p]
  <1>1. /\ k \in Works /\ k.at = "setPolicy" /\ k.policy = p /\ k.new = FALSE /\ Carrying(k)
    <2> HIDE DEF Resting
    <2> QED BY RestingTyped, NoValueIsNew DEF Works, Pcs, Carrying
  <1>2. /\ Begins(w, k) /\ policyRow' = p
        /\ disturbed' = disturbed \cup {x \in {"policy"} : OutdatedPolicy(w, p)}
        /\ UNCHANGED <<defaultsRow, policyCache, cspCache, hosted, supervised, saved>>
        BY DEF SetSiteAuthPolicy, policyCaches
  <1> HIDE DEF k
  <1>3. /\ worker' = [worker EXCEPT ![w] = k] /\ worker[w] = Resting /\ ops' \in 0..MaxOps
        BY <1>2, PolBegins
  <1>4. StoreTypes'
        BY <1>2, <1>3 DEF PolInv, StoreTypes, Settings
  <1>5. worker'[w] = k /\ \A v \in Workers \ {w} : worker'[v] = worker[v]
        BY <1>1, <1>3, PolWorkers
  <1>6. PolicyOK'
    <2>1. ASSUME "policy" \notin disturbed', NEW v \in Workers, CarriesPolicy(v)' PROVE worker'[v].policy = p
          BY <1>1, <1>2, <1>5, <2>1 DEF OutdatedPolicy, CarriesPolicy
    <2> QED BY <1>1, <1>2, <1>5, <2>1 DEF PolicyOK
  <1>7. CspOK' /\ FieldsOK'
        BY <1>1, <1>2, <1>3, RestingTyped, CspKept, FieldsKept
  <1> QED BY <1>1, <1>3, <1>4, <1>6, <1>7, PolMoves

\* The proxy is told.
LEMMA ProxySetSiteAuthPolicyStep ==
    ASSUME PolInv, NEW w \in Workers, ProxySetSiteAuthPolicy(w) PROVE PolInv'
  <1>1. /\ worker[w].at = "setPolicy" /\ policyCache' = worker[w].policy
        /\ worker' = [worker EXCEPT ![w] = Resting] /\ ops' = ops
        /\ disturbed' = IF OutdatedPolicy(w, policyRow) \/ worker[w].policy # policyRow THEN disturbed
                        ELSE disturbed \ {"policy"}
        /\ UNCHANGED <<policyRow, defaultsRow, cspCache, hosted, supervised, saved>>
        BY DEF ProxySetSiteAuthPolicy, rowVars, Ends, Continues
  <1>2. worker[w] \in Works /\ Carrying(worker[w])
        BY DEF PolInv
  <1>3. StoreTypes'
        BY <1>1, <1>2 DEF PolInv, StoreTypes, Works
  <1>4. worker'[w] = Resting /\ \A v \in Workers \ {w} : worker'[v] = worker[v]
        BY <1>1, RestingTyped, PolWorkers
  <1>5. ~worker[w].new
        BY <1>1, <1>2 DEF Carrying
  <1>6. PolicyOK'
    <2>1. CASE OutdatedPolicy(w, policyRow) \/ worker[w].policy # policyRow
      <3>1. "policy" \in disturbed
            BY <1>1, <1>2, <2>1 DEF OutdatedPolicy, CarriesPolicy, Carrying, PolInv, PolicyOK
      <3> QED BY <1>1, <2>1, <3>1 DEF PolicyOK
    <2>2. CASE ~OutdatedPolicy(w, policyRow) /\ worker[w].policy = policyRow
      <3>1. ASSUME NEW v \in Workers, CarriesPolicy(v)' PROVE worker'[v].policy = policyRow
            BY <1>4, <2>2, <3>1, RestingTyped DEF OutdatedPolicy, CarriesPolicy
      <3> QED BY <1>1, <2>2, <3>1 DEF PolicyOK
    <2> QED BY <2>1, <2>2
  <1>7. CspOK' /\ FieldsOK'
    <2>1. CspOK'
          BY <1>1, <1>4, <1>5, RestingTyped DEF PolInv, CspOK, CarriesCsp, Announcing
    <2>2. FieldsOK'
          BY <1>1, <1>4, RestingTyped DEF PolInv, FieldsOK
    <2> QED BY <2>1, <2>2
  <1> QED BY <1>1, <1>3, <1>6, <1>7, RestingTyped, PolMoves

\* The handler of the deploy defaults writes the row, and then tells the proxy.
LEMMA SetSiteDeployDefaultsStep ==
    ASSUME PolInv, NEW w \in Workers, NEW c \in Csps \cup {NoValue}, NEW n \in 1..2,
           SetSiteDeployDefaults(w, c, n)
    PROVE  PolInv'
  <1> DEFINE k == [Resting EXCEPT !.at = "setCsp", !.csp = c]
             r == [csp |-> c, fields |-> n]
  <1>1. /\ k \in Works /\ k.at = "setCsp" /\ k.csp = c /\ Carrying(k)
    <2> HIDE DEF Resting
    <2> QED BY RestingTyped DEF Works, Pcs, Carrying
  <1>2. /\ Begins(w, k) /\ defaultsRow' = r /\ saved' = n
        /\ disturbed' = (disturbed \ {"fields"}) \cup {x \in {"csp"} : OutdatedCsp(w, c)}
                                                \cup {x \in {"fields"} : OutdatedFields(w)}
        /\ UNCHANGED <<policyRow, policyCache, cspCache, hosted, supervised>>
        BY DEF SetSiteDeployDefaults, policyCaches
  <1>3. r \in Defaults /\ r.csp = c /\ r.fields = n
        BY DEF Defaults
  <1> HIDE DEF k, r
  <1>4. /\ worker' = [worker EXCEPT ![w] = k] /\ worker[w] = Resting /\ ops' \in 0..MaxOps
        BY <1>2, PolBegins
  <1>5. StoreTypes'
    <2>1. disturbed' \subseteq Settings
          BY <1>2 DEF PolInv, StoreTypes, Settings
    <2>2. saved' \in 0..2
          BY <1>2
    <2> QED BY <1>2, <1>3, <1>4, <2>1, <2>2 DEF PolInv, StoreTypes
  <1>6. worker'[w] = k /\ \A v \in Workers \ {w} : worker'[v] = worker[v]
        BY <1>1, <1>4, PolWorkers
  <1>7. CspOK'
    <2>1. ASSUME "csp" \notin disturbed', NEW v \in Workers, CarriesCsp(v)' PROVE worker'[v].csp = c
          BY <1>1, <1>2, <1>6, <2>1 DEF OutdatedCsp, CarriesCsp
    <2> QED BY <1>1, <1>2, <1>3, <1>6, <2>1 DEF CspOK, Announcing
  <1>8. FieldsOK'
    <2>1. ASSUME "fields" \notin disturbed', NEW v \in Workers PROVE worker'[v].at # "manifest"
          BY <1>1, <1>2, <1>6, <2>1 DEF OutdatedFields, CarriesFields
    <2> QED BY <1>2, <1>3, <2>1 DEF FieldsOK
  <1>9. PolicyOK'
    <2>1. "policy" \in disturbed <=> "policy" \in disturbed'
          BY <1>2
    <2> QED BY <1>1, <1>2, <1>4, <1>6, <2>1, RestingTyped DEF PolInv, PolicyOK, CarriesPolicy
  <1> QED BY <1>1, <1>4, <1>5, <1>7, <1>8, <1>9, PolMoves

\* The proxy is told.
LEMMA ProxySetSiteCSPStep ==
    ASSUME PolInv, NEW w \in Workers, ProxySetSiteCSP(w) PROVE PolInv'
  <1>1. /\ worker[w].at = "setCsp" /\ cspCache' = worker[w].csp
        /\ worker' = [worker EXCEPT ![w] = Resting] /\ ops' = ops
        /\ disturbed' = IF OutdatedCsp(w, defaultsRow.csp) \/ worker[w].csp # defaultsRow.csp THEN disturbed
                        ELSE disturbed \ {"csp"}
        /\ UNCHANGED <<policyRow, defaultsRow, policyCache, hosted, supervised, saved>>
        BY DEF ProxySetSiteCSP, rowVars, Ends, Continues
  <1>2. worker[w] \in Works
        BY DEF PolInv
  <1>3. StoreTypes'
        BY <1>1, <1>2 DEF PolInv, StoreTypes, Works
  <1>4. worker'[w] = Resting /\ \A v \in Workers \ {w} : worker'[v] = worker[v]
        BY <1>1, RestingTyped, PolWorkers
  <1>5. CspOK'
    <2>1. CASE OutdatedCsp(w, defaultsRow.csp) \/ worker[w].csp # defaultsRow.csp
      <3>1. "csp" \in disturbed
            BY <1>1, <2>1 DEF OutdatedCsp, CarriesCsp, PolInv, CspOK
      <3> QED BY <1>1, <2>1, <3>1 DEF CspOK
    <2>2. CASE ~OutdatedCsp(w, defaultsRow.csp) /\ worker[w].csp = defaultsRow.csp
      <3>1. ASSUME NEW v \in Workers, CarriesCsp(v)' PROVE worker'[v].csp = defaultsRow.csp
            BY <1>4, <2>2, <3>1, RestingTyped DEF OutdatedCsp, CarriesCsp
      <3> QED BY <1>1, <2>2, <3>1 DEF CspOK
    <2> QED BY <2>1, <2>2
  <1>6. PolicyOK'
        BY <1>1, <1>4, RestingTyped DEF PolInv, PolicyOK, CarriesPolicy
  <1>7. FieldsOK'
        BY <1>1, <1>4, RestingTyped DEF PolInv, FieldsOK
  <1> QED BY <1>1, <1>3, <1>5, <1>6, <1>7, RestingTyped, PolMoves

\* A handler fails after its UPDATE: the setting is disturbed.
LEMMA UpdateReportsErrorStep ==
    ASSUME PolInv, NEW w \in Workers, UpdateReportsError(w) PROVE PolInv'
  <1>1. /\ \/ worker[w].at = "setPolicy" /\ disturbed' = disturbed \cup {"policy"}
           \/ worker[w].at = "setCsp" /\ disturbed' = disturbed \cup {"csp"}
        /\ worker' = [worker EXCEPT ![w] = Resting] /\ ops' = ops
        /\ UNCHANGED <<policyRow, defaultsRow, policyCache, cspCache, hosted, supervised, saved>>
        BY DEF UpdateReportsError, rowVars, policyCaches, Ends, Continues
  <1>2. StoreTypes'
        BY <1>1 DEF PolInv, StoreTypes, Settings
  <1>3. worker'[w] = Resting /\ \A v \in Workers \ {w} : worker'[v] = worker[v]
        BY <1>1, RestingTyped, PolWorkers
  <1>4. ~worker[w].new
        BY <1>1 DEF PolInv, Carrying
  <1>5. PolicyOK'
        BY <1>1, <1>3, RestingTyped DEF PolInv, PolicyOK, CarriesPolicy
  <1>6. CspOK'
        BY <1>1, <1>3, <1>4, RestingTyped DEF PolInv, CspOK, CarriesCsp, Announcing
  <1>7. FieldsOK'
        BY <1>1, <1>3, RestingTyped DEF PolInv, FieldsOK
  <1> QED BY <1>1, <1>2, <1>5, <1>6, <1>7, RestingTyped, PolMoves

----------------------------------------------------------------------------

\* A deployment reads what its manifest will be merged with, or begins without one.
LEMMA ManifestReadStep ==
    ASSUME PolInv, NEW w \in Workers, NEW c \in Csps, ManifestRead(w, c) PROVE PolInv'
  <1> DEFINE f == [Resting EXCEPT !.at = "manifest", !.csp = c, !.fields = defaultsRow.fields]
             b == [Resting EXCEPT !.at = "manifestBlind", !.csp = c]
  <1>0. defaultsRow.fields \in 0..2
        BY DEF PolInv, StoreTypes, Defaults
  <1>1. /\ f \in Works /\ f.at = "manifest" /\ f.fields = defaultsRow.fields /\ Carrying(f)
        /\ b \in Works /\ b.at = "manifestBlind" /\ Carrying(b)
    <2> HIDE DEF Resting
    <2> QED BY <1>0, RestingTyped, NoValueIsNew DEF Works, Pcs, Carrying
  <1> HIDE DEF f, b
  <1>2. PICK k \in {f, b} : Begins(w, k)
        BY DEF ManifestRead, f, b
  <1>3. UNCHANGED <<policyRow, defaultsRow, policyCache, cspCache, hosted, supervised, saved, disturbed>>
        BY DEF ManifestRead, rowVars, policyCaches
  <1>4. worker' = [worker EXCEPT ![w] = k] /\ worker[w] = Resting /\ ops' \in 0..MaxOps
        BY <1>2, PolBegins
  <1>5. StoreTypes'
        BY <1>3, <1>4 DEF PolInv, StoreTypes
  <1>6. k \in Works /\ Carrying(k) /\ k.at \in {"manifest", "manifestBlind"}
        /\ (k.at = "manifest" => k.fields = defaultsRow.fields)
        BY <1>1
  <1>7. PolicyOK' /\ CspOK' /\ FieldsOK'
        BY <1>3, <1>4, <1>6, RestingTyped, PolicyKept, CspKept, FieldsKept
  <1> QED BY <1>4, <1>5, <1>6, <1>7, PolMoves

\* It writes the merged defaults, or fails to.
LEMMA ManifestWriteStep ==
    ASSUME PolInv, NEW w \in Workers, ManifestWrite(w) PROVE PolInv'
  <1> DEFINE k == [Resting EXCEPT !.at = "register", !.new = TRUE]
             o == [Resting EXCEPT !.at = "register"]
             r == [csp |-> worker[w].csp, fields |-> worker[w].fields]
  <1>1. /\ k \in Works /\ k.at = "register" /\ k.new /\ Carrying(k)
        /\ o \in Works /\ o.at = "register" /\ Carrying(o)
    <2> HIDE DEF Resting
    <2> QED BY RestingTyped DEF Works, Pcs, Carrying
  <1>2. /\ worker[w] \in Works /\ worker[w].at \in {"manifest", "manifestBlind"} /\ worker[w].csp # NoValue
        /\ ~worker[w].new
        BY DEF ManifestWrite, CarriesFields, PolInv, Carrying
  <1>3. r \in Defaults /\ r.csp = worker[w].csp /\ r.fields = worker[w].fields
        BY <1>2 DEF Works, Defaults
  <1>4. /\ UNCHANGED <<ops, policyRow, policyCache, cspCache, hosted, supervised, saved>>
        /\ \/ /\ worker' = [worker EXCEPT ![w] = k] /\ defaultsRow' = r
              /\ disturbed' = disturbed \cup {x \in {"fields"} : worker[w].at = "manifestBlind"}
                                        \cup {x \in {"csp"} : OutdatedCsp(w, worker[w].csp)}
           \/ worker' = [worker EXCEPT ![w] = o] /\ UNCHANGED <<defaultsRow, disturbed>>
        BY DEF ManifestWrite, policyCaches, Continues
  <1> HIDE DEF k, o, r
  <1>5. CASE /\ worker' = [worker EXCEPT ![w] = k] /\ defaultsRow' = r
             /\ disturbed' = disturbed \cup {x \in {"fields"} : worker[w].at = "manifestBlind"}
                                       \cup {x \in {"csp"} : OutdatedCsp(w, worker[w].csp)}
    <2>1. StoreTypes'
          BY <1>3, <1>4, <1>5 DEF PolInv, StoreTypes, Settings
    <2>2. worker'[w] = k /\ \A v \in Workers \ {w} : worker'[v] = worker[v]
          BY <1>1, <1>5, PolWorkers
    <2>3. CspOK'
      <3>1. ASSUME "csp" \notin disturbed', NEW v \in Workers, CarriesCsp(v)' PROVE worker'[v].csp = r.csp
            BY <1>1, <1>3, <1>5, <2>2, <3>1 DEF OutdatedCsp, CarriesCsp
      <3> QED BY <1>1, <1>2, <1>3, <1>5, <2>2, <3>1 DEF CspOK, Announcing
    <2>4. FieldsOK'
      <3>1. CASE worker[w].at = "manifestBlind"
            BY <1>5, <3>1 DEF FieldsOK
      <3>2. CASE worker[w].at = "manifest"
            BY <1>1, <1>3, <1>4, <1>5, <2>2, <3>2 DEF PolInv, FieldsOK
      <3> QED BY <1>2, <3>1, <3>2
    <2>5. PolicyOK'
      <3>1. "policy" \in disturbed <=> "policy" \in disturbed'
            BY <1>5
      <3> QED BY <1>1, <1>2, <1>4, <2>2, <3>1 DEF PolInv, PolicyOK, CarriesPolicy
    <2> QED BY <1>1, <1>5, <2>1, <2>3, <2>4, <2>5, PolMoves
  <1>6. CASE worker' = [worker EXCEPT ![w] = o] /\ UNCHANGED <<defaultsRow, disturbed>>
    <2>1. StoreTypes'
          BY <1>4, <1>6 DEF PolInv, StoreTypes
    <2>2. PolicyOK' /\ CspOK' /\ FieldsOK'
          BY <1>1, <1>2, <1>4, <1>6, PolicyKept, CspKept, FieldsKept
    <2> QED BY <1>1, <1>6, <2>1, <2>2, PolMoves
  <1> QED BY <1>4, <1>5, <1>6

\* A deployment without a CSP of its own begins.
LEMMA DeployStartsStep ==
    ASSUME PolInv, NEW w \in Workers, DeployStarts(w) PROVE PolInv'
  <1> DEFINE k == [Resting EXCEPT !.at = "register"]
  <1>1. k \in Works /\ k.at = "register" /\ Carrying(k)
    <2> HIDE DEF Resting
    <2> QED BY RestingTyped DEF Works, Pcs, Carrying
  <1>2. /\ Begins(w, k)
        /\ UNCHANGED <<policyRow, defaultsRow, policyCache, cspCache, hosted, supervised, saved, disturbed>>
        BY DEF DeployStarts, rowVars, policyCaches
  <1> HIDE DEF k
  <1>3. worker' = [worker EXCEPT ![w] = k] /\ worker[w] = Resting /\ ops' \in 0..MaxOps
        BY <1>2, PolBegins
  <1>4. StoreTypes'
        BY <1>2, <1>3 DEF PolInv, StoreTypes
  <1>5. PolicyOK' /\ CspOK' /\ FieldsOK'
        BY <1>1, <1>2, <1>3, RestingTyped, PolicyKept, CspKept, FieldsKept
  <1> QED BY <1>1, <1>3, <1>4, <1>5, PolMoves

\* A deployment fails before it is registered.
LEMMA DeployFailsStep ==
    ASSUME PolInv, NEW w \in Workers, DeployFails(w) PROVE PolInv'
  <1>1. /\ worker[w].at = "register" /\ worker' = [worker EXCEPT ![w] = Resting] /\ ops' = ops
        /\ disturbed' = disturbed \cup {x \in {"csp"} : worker[w].new}
        /\ UNCHANGED <<policyRow, defaultsRow, policyCache, cspCache, hosted, supervised, saved>>
        BY DEF DeployFails, rowVars, policyCaches, Ends, Continues
  <1>2. StoreTypes'
        BY <1>1 DEF PolInv, StoreTypes, Settings
  <1>3. worker'[w] = Resting /\ \A v \in Workers \ {w} : worker'[v] = worker[v]
        BY <1>1, RestingTyped, PolWorkers
  <1>4. PolicyOK'
        BY <1>1, <1>3, RestingTyped DEF PolInv, PolicyOK, CarriesPolicy
  <1>5. CspOK'
        BY <1>1, <1>3, RestingTyped DEF PolInv, CspOK, CarriesCsp, Announcing
  <1>6. FieldsOK'
        BY <1>1, <1>3, RestingTyped DEF PolInv, FieldsOK
  <1> QED BY <1>1, <1>2, <1>4, <1>5, <1>6, RestingTyped, PolMoves

\* The registration reads the row, or fails to.
LEMMA RegisterReadStep ==
    ASSUME PolInv, NEW w \in Workers, RegisterRead(w) PROVE PolInv'
  <1> DEFINE f == [Resting EXCEPT !.at = "cachePolicy", !.policy = policyRow, !.csp = defaultsRow.csp,
                                  !.new = worker[w].new]
             b == [Resting EXCEPT !.at = "cachePolicy"]
  <1>0. policyRow \in Policies /\ defaultsRow.csp \in Csps \cup {NoValue} /\ worker[w].new \in BOOLEAN
        BY DEF PolInv, StoreTypes, Defaults, Works
  <1>1. /\ f \in Works /\ f.at = "cachePolicy" /\ f.policy = policyRow /\ f.csp = defaultsRow.csp
        /\ f.new = worker[w].new /\ Carrying(f)
        /\ b \in Works /\ b.at = "cachePolicy" /\ b.policy = NoValue /\ b.csp = NoValue /\ Carrying(b)
    <2> HIDE DEF Resting
    <2> QED BY <1>0, RestingTyped DEF Works, Pcs, Carrying
  <1>2. /\ worker[w].at = "register" /\ ops' = ops
        /\ \/ worker' = [worker EXCEPT ![w] = f] /\ disturbed' = disturbed
           \/ /\ worker' = [worker EXCEPT ![w] = b]
              /\ disturbed' = disturbed \cup {x \in {"csp"} : worker[w].new}
        /\ UNCHANGED <<policyRow, defaultsRow, policyCache, cspCache, hosted, supervised, saved>>
        BY DEF RegisterRead, Continues, rowVars, policyCaches
  <1> HIDE DEF f, b
  <1>3. StoreTypes'
        BY <1>2 DEF PolInv, StoreTypes, Settings
  <1>4. CASE worker' = [worker EXCEPT ![w] = f] /\ disturbed' = disturbed
    <2>1. worker'[w] = f /\ \A v \in Workers \ {w} : worker'[v] = worker[v]
          BY <1>1, <1>4, PolWorkers
    <2>2. PolicyOK'
          BY <1>1, <1>2, <1>4, <2>1 DEF PolInv, PolicyOK, CarriesPolicy
    <2>3. CspOK'
          BY <1>1, <1>2, <1>4, <2>1 DEF PolInv, CspOK, CarriesCsp, Announcing
    <2>4. FieldsOK'
          BY <1>1, <1>2, <1>4, <2>1 DEF PolInv, FieldsOK
    <2> QED BY <1>1, <1>3, <1>4, <2>2, <2>3, <2>4, PolMoves
  <1>5. CASE worker' = [worker EXCEPT ![w] = b] /\ disturbed' = disturbed \cup {x \in {"csp"} : worker[w].new}
    <2>1. worker'[w] = b /\ \A v \in Workers \ {w} : worker'[v] = worker[v]
          BY <1>1, <1>5, PolWorkers
    <2>2. PolicyOK'
          BY <1>1, <1>2, <1>5, <2>1 DEF PolInv, PolicyOK, CarriesPolicy
    <2>3. CspOK'
          BY <1>1, <1>2, <1>5, <2>1 DEF PolInv, CspOK, CarriesCsp, Announcing
    <2>4. FieldsOK'
          BY <1>1, <1>2, <1>5, <2>1 DEF PolInv, FieldsOK
    <2> QED BY <1>1, <1>3, <1>5, <2>2, <2>3, <2>4, PolMoves
  <1> QED BY <1>2, <1>4, <1>5

\* It caches the policy it read.
LEMMA RegisterPolicyStep ==
    ASSUME PolInv, NEW w \in Workers, RegisterPolicy(w) PROVE PolInv'
  <1> DEFINE k == [worker[w] EXCEPT !.at = "cacheCsp", !.policy = NoValue]
  <1>0. worker[w] \in Works /\ Carrying(worker[w])
        BY DEF PolInv
  <1>1. k \in Works /\ k.at = "cacheCsp" /\ k.csp = worker[w].csp /\ k.new = worker[w].new /\ Carrying(k)
        BY <1>0 DEF Works, Pcs, Carrying
  <1>2. /\ worker[w].at = "cachePolicy" /\ worker' = [worker EXCEPT ![w] = k] /\ ops' = ops
        /\ policyCache' = IF worker[w].policy # NoValue THEN worker[w].policy ELSE policyCache
        /\ UNCHANGED <<policyRow, defaultsRow, cspCache, hosted, supervised, saved, disturbed>>
        BY DEF RegisterPolicy, Continues, rowVars
  <1> HIDE DEF k
  <1>3. StoreTypes'
        BY <1>0, <1>2 DEF PolInv, StoreTypes, Works
  <1>4. worker'[w] = k /\ \A v \in Workers \ {w} : worker'[v] = worker[v]
        BY <1>1, <1>2, PolWorkers
  <1>5. PolicyOK'
        BY <1>1, <1>2, <1>4 DEF PolInv, PolicyOK, CarriesPolicy
  <1>6. CspOK'
        BY <1>1, <1>2, <1>4 DEF PolInv, CspOK, CarriesCsp, Announcing
  <1>7. FieldsOK'
        BY <1>1, <1>2, <1>4 DEF PolInv, FieldsOK
  <1> QED BY <1>1, <1>2, <1>3, <1>5, <1>6, <1>7, PolMoves

\* It caches the CSP it read, and registers the host.
LEMMA RegisterDeploymentHostStep ==
    ASSUME PolInv, NEW w \in Workers, RegisterDeploymentHost(w) PROVE PolInv'
  <1>1. /\ worker[w].at = "cacheCsp" /\ hosted' = "site"
        /\ worker' = [worker EXCEPT ![w] = Resting] /\ ops' = ops
        /\ cspCache' = IF worker[w].csp # NoValue THEN worker[w].csp ELSE cspCache
        /\ UNCHANGED <<policyRow, defaultsRow, policyCache, supervised, saved, disturbed>>
        BY DEF RegisterDeploymentHost, rowVars, Ends, Continues
  <1>2. worker[w] \in Works
        BY DEF PolInv
  <1>3. StoreTypes'
        BY <1>1, <1>2 DEF PolInv, StoreTypes, Works
  <1>4. worker'[w] = Resting /\ \A v \in Workers \ {w} : worker'[v] = worker[v]
        BY <1>1, RestingTyped, PolWorkers
  <1>5. PolicyOK'
        BY <1>1, <1>4, RestingTyped DEF PolInv, PolicyOK, CarriesPolicy
  <1>6. CspOK'
        BY <1>1, <1>4, RestingTyped DEF PolInv, CspOK, CarriesCsp, Announcing
  <1>7. FieldsOK'
        BY <1>1, <1>4, RestingTyped DEF PolInv, FieldsOK
  <1> QED BY <1>1, <1>3, <1>5, <1>6, <1>7, RestingTyped, PolMoves

----------------------------------------------------------------------------

\* A visitor's request is checked against a policy that is due, or finds none.
LEMMA ServeRequestStep ==
    ASSUME PolInv, NEW w \in Workers, ServeRequest(w) PROVE PolInv'
  <1> DEFINE hit == Checked(policyCache, "found")
             miss == [Checked(policyRow, "found") EXCEPT !.at = "fillPolicy"]
             unread == Checked(NoValue, "unread")
             lost == Checked(NoValue, "not a site")
  <1>0. policyRow \in Policies /\ policyCache \in Policies \cup {NoValue} /\ PoliciesDue \subseteq Policies
        /\ policyRow \in PoliciesDue
        BY DEF PolInv, StoreTypes, PoliciesDue
  <1>1. policyCache # NoValue => policyCache \in PoliciesDue
        BY <1>0 DEF PolInv, PolicyOK, PoliciesDue
  <1>2. ASSUME NEW p \in Policies \cup {NoValue}, NEW y \in {"found", "unread", "not a site"}
        PROVE  /\ Checked(p, y) \in Works /\ Checked(p, y).at = "getCsp" /\ Checked(p, y).policy = p
               /\ Checked(p, y).why = y /\ Checked(p, y).due = PoliciesDue /\ ~Checked(p, y).new
    <2> HIDE DEF Resting
    <2> QED BY <1>0, <1>2, RestingTyped DEF Checked, Works, Pcs
  <1>3. /\ miss \in Works /\ miss.at = "fillPolicy" /\ miss.policy = policyRow /\ miss.why = "found"
        /\ miss.due = PoliciesDue /\ ~miss.new
    <2> DEFINE m == Checked(policyRow, "found")
    <2>1. m \in Works /\ m.policy = policyRow /\ m.why = "found" /\ m.due = PoliciesDue /\ ~m.new
          BY <1>0, <1>2
    <2> HIDE DEF m
    <2>2. [m EXCEPT !.at = "fillPolicy"] \in Works
          BY <2>1 DEF Works, Pcs
    <2> QED BY <2>1, <2>2 DEF Works, m
  <1>4. /\ UNCHANGED <<policyRow, defaultsRow, policyCache, cspCache, hosted, supervised, saved, disturbed>>
        /\ \/ policyCache # NoValue /\ Begins(w, hit)
           \/ Begins(w, miss) \/ Begins(w, unread) \/ Begins(w, lost)
        BY DEF ServeRequest, rowVars, policyCaches
  <1>5. /\ (policyCache # NoValue => Carrying(hit)) /\ hit \in Works /\ hit.at = "getCsp"
        /\ Carrying(miss)
        /\ Carrying(unread) /\ unread \in Works /\ unread.at = "getCsp"
        /\ Carrying(lost) /\ lost \in Works /\ lost.at = "getCsp"
    <2>1. /\ hit \in Works /\ hit.at = "getCsp" /\ hit.policy = policyCache /\ hit.why = "found"
          /\ hit.due = PoliciesDue /\ ~hit.new
          BY <1>0, <1>2
    <2>2. /\ unread \in Works /\ unread.at = "getCsp" /\ unread.policy = NoValue
          /\ unread.why = "unread" /\ ~unread.new
          BY <1>2
    <2>3. /\ lost \in Works /\ lost.at = "getCsp" /\ lost.policy = NoValue
          /\ lost.why = "not a site" /\ ~lost.new
          BY <1>2
    <2>4. policyRow # NoValue
          BY <1>0, NoValueIsNew
    <2> HIDE DEF hit, miss, unread, lost
    <2>5. policyCache # NoValue => Carrying(hit)
          BY <1>1, <2>1 DEF Carrying
    <2>6. Carrying(miss)
          BY <1>0, <1>3, <2>4 DEF Carrying
    <2>7. Carrying(unread) /\ Carrying(lost)
          BY <2>2, <2>3 DEF Carrying
    <2> QED BY <2>1, <2>2, <2>3, <2>5, <2>6, <2>7
  <1> HIDE DEF hit, miss, unread, lost
  <1>6. PICK k \in {hit, miss, unread, lost} : Begins(w, k) /\ (k = hit => policyCache # NoValue \/ Carrying(hit))
        BY <1>4, <1>5
  <1>7. /\ k \in Works /\ Carrying(k) /\ k.at \in {"getCsp", "fillPolicy"}
        /\ (k.at = "fillPolicy" => k.policy = policyRow)
        BY <1>3, <1>5, <1>6
  <1>8. worker' = [worker EXCEPT ![w] = k] /\ worker[w] = Resting /\ ops' \in 0..MaxOps
        BY <1>6, PolBegins
  <1>9. StoreTypes'
        BY <1>4, <1>8 DEF PolInv, StoreTypes
  <1>10. PolicyOK' /\ CspOK' /\ FieldsOK'
        BY <1>4, <1>7, <1>8, RestingTyped, PolicyKept, CspKept, FieldsKept
  <1> QED BY <1>7, <1>8, <1>9, <1>10, PolMoves

\* The proxy fills its cache with the policy it read.
LEMMA FillPolicyStep ==
    ASSUME PolInv, NEW w \in Workers, FillPolicy(w) PROVE PolInv'
  <1> DEFINE k == [worker[w] EXCEPT !.at = "getCsp"]
  <1>0. worker[w] \in Works /\ Carrying(worker[w]) /\ worker[w].at = "fillPolicy"
        BY DEF PolInv, FillPolicy
  <1>1. k \in Works /\ k.at = "getCsp" /\ Carrying(k)
        BY <1>0 DEF Works, Pcs, Carrying
  <1>2. /\ worker' = [worker EXCEPT ![w] = k] /\ ops' = ops
        /\ policyCache' = worker[w].policy
        /\ UNCHANGED <<policyRow, defaultsRow, cspCache, hosted, supervised, saved, disturbed>>
        BY DEF FillPolicy, Continues, rowVars
  <1> HIDE DEF k
  <1>3. StoreTypes'
        BY <1>0, <1>2 DEF PolInv, StoreTypes, Works
  <1>4. worker'[w] = k /\ \A v \in Workers \ {w} : worker'[v] = worker[v]
        BY <1>1, <1>2, PolWorkers
  <1>5. PolicyOK'
        BY <1>0, <1>1, <1>2, <1>4 DEF PolInv, PolicyOK, CarriesPolicy, Carrying
  <1>6. ~worker[w].new
        BY <1>0 DEF Carrying
  <1>7. CspOK' /\ FieldsOK'
        BY <1>0, <1>1, <1>2, <1>6, CspKept, FieldsKept
  <1> QED BY <1>1, <1>2, <1>3, <1>5, <1>7, PolMoves

\* The proxy looks for the CSP, and reads it when it has none.
LEMMA GetSiteCSPStep ==
    ASSUME PolInv, NEW w \in Workers, GetSiteCSP(w) PROVE PolInv'
  <1> DEFINE f == [Resting EXCEPT !.at = "fillCsp", !.csp = defaultsRow.csp]
  <1>0. defaultsRow.csp \in Csps \cup {NoValue}
        BY DEF PolInv, StoreTypes, Defaults
  <1>1. f \in Works /\ f.at = "fillCsp" /\ f.csp = defaultsRow.csp /\ (defaultsRow.csp # NoValue => Carrying(f))
    <2> HIDE DEF Resting
    <2> QED BY <1>0, RestingTyped DEF Works, Pcs, Carrying
  <1>2. /\ worker[w].at = "getCsp" /\ ops' = ops
        /\ \/ worker' = [worker EXCEPT ![w] = Resting]
           \/ worker' = [worker EXCEPT ![w] = f] /\ defaultsRow.csp # NoValue
        /\ UNCHANGED <<policyRow, defaultsRow, policyCache, cspCache, hosted, supervised, saved, disturbed>>
        BY DEF GetSiteCSP, Continues, Ends, rowVars, policyCaches
  <1> HIDE DEF f
  <1>3. PICK k \in Works : /\ worker' = [worker EXCEPT ![w] = k] /\ Carrying(k)
                           /\ k.at \in {"idle", "fillCsp"} /\ (k.at = "fillCsp" => k.csp = defaultsRow.csp)
        BY <1>1, <1>2, RestingTyped
  <1>4. StoreTypes'
        BY <1>2 DEF PolInv, StoreTypes
  <1>5. ~worker[w].new
        BY <1>2 DEF PolInv, Carrying
  <1>6. PolicyOK' /\ CspOK' /\ FieldsOK'
        BY <1>2, <1>3, <1>5, PolicyKept, CspKept, FieldsKept
  <1> QED BY <1>3, <1>4, <1>6, PolMoves

\* The proxy fills its cache with the CSP it read.
LEMMA FillCspStep ==
    ASSUME PolInv, NEW w \in Workers, FillCsp(w) PROVE PolInv'
  <1>1. /\ worker[w].at = "fillCsp" /\ worker' = [worker EXCEPT ![w] = Resting] /\ ops' = ops
        /\ cspCache' = worker[w].csp
        /\ UNCHANGED <<policyRow, defaultsRow, policyCache, hosted, supervised, saved, disturbed>>
        BY DEF FillCsp, rowVars, Ends, Continues
  <1>2. worker[w] \in Works /\ Carrying(worker[w])
        BY DEF PolInv
  <1>3. StoreTypes'
        BY <1>1, <1>2 DEF PolInv, StoreTypes, Works
  <1>4. worker'[w] = Resting /\ \A v \in Workers \ {w} : worker'[v] = worker[v]
        BY <1>1, RestingTyped, PolWorkers
  <1>5. PolicyOK'
        BY <1>1, <1>4, RestingTyped DEF PolInv, PolicyOK, CarriesPolicy
  <1>6. CspOK'
        BY <1>1, <1>2, <1>4, RestingTyped DEF PolInv, CspOK, CarriesCsp, Announcing, Carrying
  <1>7. FieldsOK'
        BY <1>1, <1>4, RestingTyped DEF PolInv, FieldsOK
  <1> QED BY <1>1, <1>3, <1>5, <1>6, <1>7, RestingTyped, PolMoves

----------------------------------------------------------------------------

\* A restart empties the caches and ends every request.
LEMMA RestartProxyStep ==
    ASSUME PolInv, RestartProxy PROVE PolInv'
  <1>1. worker' \in [Workers -> Works] /\ \A w \in Workers : worker'[w] = Resting
        BY RestingTyped DEF RestartProxy
  <1>2. /\ policyCache' = NoValue /\ cspCache' = NoValue /\ disturbed' = disturbed \cap {"fields"}
        /\ hosted' \in {"no", "site"} /\ supervised' \in BOOLEAN
        /\ UNCHANGED <<policyRow, defaultsRow, ops, saved>>
        BY DEF RestartProxy, rowVars
  <1>3. StoreTypes'
        BY <1>2 DEF PolInv, StoreTypes
  <1>4. PolicyOK' /\ CspOK' /\ FieldsOK'
        BY <1>1, <1>2, RestingTyped DEF PolInv, PolicyOK, CspOK, FieldsOK, CarriesPolicy, CarriesCsp
  <1> QED BY <1>1, <1>3, <1>4, RestingTyped DEF PolInv

\* The supervisor of a resumed deployment registers its host, or is stopped.
LEMMA SupervisorSteps ==
    ASSUME PolInv, SupervisorRegisters \/ SupervisorStops PROVE PolInv'
  <1>1. /\ hosted' \in {hosted, "deployment"} /\ supervised' \in BOOLEAN
        /\ UNCHANGED <<policyRow, defaultsRow, policyCache, cspCache, worker, ops, saved, disturbed>>
        BY DEF SupervisorRegisters, SupervisorStops, rowVars, PolInv, StoreTypes
  <1>2. StoreTypes'
        BY <1>1 DEF PolInv, StoreTypes
  <1> QED BY <1>1, <1>2 DEF PolInv, PolicyOK, CspOK, FieldsOK, CarriesPolicy, CarriesCsp, Announcing, Carrying

\* Every step keeps the invariant.
LEMMA PolInvStep == ASSUME PolInv, [PolNext]_polVars PROVE PolInv'
  <1>1. ASSUME NEW w \in Workers, NEW p \in Policies, SetSiteAuthPolicy(w, p) PROVE PolInv'
        BY <1>1, SetSiteAuthPolicyStep
  <1>2. ASSUME NEW w \in Workers, NEW c \in Csps \cup {NoValue}, NEW n \in 1..2, SetSiteDeployDefaults(w, c, n)
        PROVE  PolInv'
        BY <1>2, SetSiteDeployDefaultsStep
  <1>3. ASSUME NEW w \in Workers, NEW c \in Csps, ManifestRead(w, c) PROVE PolInv'
        BY <1>3, ManifestReadStep
  <1>4. ASSUME NEW w \in Workers,
               \/ ProxySetSiteAuthPolicy(w) \/ ProxySetSiteCSP(w) \/ UpdateReportsError(w) \/ ManifestWrite(w)
               \/ DeployStarts(w) \/ DeployFails(w) \/ RegisterRead(w) \/ RegisterPolicy(w)
               \/ RegisterDeploymentHost(w)
               \/ ServeRequest(w) \/ FillPolicy(w) \/ GetSiteCSP(w) \/ FillCsp(w)
        PROVE  PolInv'
        BY <1>4, ProxySetSiteAuthPolicyStep, ProxySetSiteCSPStep, UpdateReportsErrorStep, ManifestWriteStep,
           DeployStartsStep, DeployFailsStep, RegisterReadStep, RegisterPolicyStep,
           RegisterDeploymentHostStep, ServeRequestStep, FillPolicyStep, GetSiteCSPStep, FillCspStep
  <1>5. CASE UNCHANGED polVars
    <2>1. UNCHANGED <<policyRow, defaultsRow, policyCache, cspCache, hosted, supervised, worker, ops, saved,
                      disturbed>>
          BY <1>5 DEF polVars, rowVars, policyCaches
    <2> QED BY <2>1 DEF PolInv, StoreTypes, PolicyOK, CspOK, FieldsOK, CarriesPolicy, CarriesCsp,
                        Announcing, Carrying
  <1> QED BY <1>1, <1>2, <1>3, <1>4, <1>5, RestartProxyStep, SupervisorSteps DEF PolNext

\* Whatever requests and deployments overlap, the proxy holds the policy and the
\* CSP of the row or none, or is about to be told, and the deploy defaults are
\* those last saved, for each setting that was not left outdated by an older value
\* on its way or a failure after the write; and a visitor is checked against the
\* policy in force, unless the proxy could not read it or knows the host by its
\* deployment (components/sites/sites.go; components/proxy/hosts.go, proxy.go;
\* components/deploy/engine.go, supervisor.go).
THEOREM SettingsHeld == PolSpec => [](PolTypeOK /\ SettingsTakeEffect)
  <1>1. PolInv /\ [PolNext]_polVars => PolInv'
        BY PolInvStep
  <1> QED BY <1>1, PolInvInit, PolInvCorrect, PTL DEF PolSpec
-----------------------------------------------------------------------------
(* The environment of a deployment.                                        *)

\* A migration of the legacy variables of a site.
EnvMigs == [at : {"idle", "read", "folder", "write", "marked"}, rows : [EnvKeys -> EnvRows],
            todo : SUBSET EnvKeys, skipped : SUBSET EnvKeys]
\* A resolution of the environment of a deployment.
EnvResolutions == [at : {"idle", "secrets", "given", "failed"}, scope : {"build", "runtime"},
                   project : BOOLEAN, todo : SUBSET EnvKeys, secret : SUBSET EnvKeys,
                   env : [EnvKeys -> EnvValues]]
\* A request that edits the variables.
EditRecords == [at : {"idle", "update", "delete", "set", "insert", "replace"},
                key : EnvKeys \cup {Unset}, todo : SUBSET EnvKeys]

\* An edit that is about to write has the key it looked up.
EnvEdits == {e \in EditRecords : e.at \in {"update", "delete", "insert", "replace"} => e.key \in EnvKeys}
\* The keys edited since the migration, or the resolution, read the rows, and
\* the secrets written since.
EnvSince == [migration : SUBSET EnvKeys, secret : SUBSET EnvKeys, resolution : SUBSET EnvKeys,
             native : SUBSET EnvKeys]

\* The types.
EnvTypes ==
    /\ envRow \in [EnvKeys -> EnvRows]
    /\ native \in [EnvKeys -> EnvValues]
    /\ hasProject \in BOOLEAN
    /\ checkpoint \in {"none", "in_progress", "done"}
    /\ envMig \in EnvMigs
    /\ unreported \subseteq EnvKeys
    /\ envRes \in EnvResolutions
    /\ envCall \in [EnvCalls -> EnvEdits]
    /\ envLog \subseteq EnvValues /\ envWrites \in 0 .. MaxEnvWrites
    /\ rowSince \in EnvSince

\* What the repository's manifest says of a key.
Manifested(k) == IF k \in ManifestKeys THEN ManifestValue ELSE Unset

\* A run of the migration: what it read is what is there, but for the edits since, and
\* the keys it is done with are in the project, but for the edits since, or on the report.
MigOK ==
    /\ checkpoint = "done" => envMig.at \in {"idle", "marked"}
    /\ envMig.at = "marked" => checkpoint = "done"
    /\ envMig.at # "idle" =>
         /\ \A k \in EnvKeys \ rowSince.migration : envMig.rows[k] = envRow[k]
         /\ \A k \in EnvKeys \ (envMig.todo \cup envMig.skipped \cup rowSince.secret) :
              envMig.rows[k].runtime => native[k] = envMig.rows[k].value

\* A resolution that is reading the secrets: it has, or has still to read, the ones
\* that did not change meanwhile.
Reading(k) ==
    k \notin rowSince.native =>
        IF envRes.project /\ native[k] # Unset
        THEN k \in envRes.todo \/ envRes.env[k] = native[k]
        ELSE k \notin envRes.todo /\ envRes.env[k] = Manifested(k)

\* A resolution has read each key as it is, or as the row was; and only secret
\* keys hold secret values.
ResOK ==
    /\ envRes.at = "secrets" => \A k \in EnvKeys : Reading(k)
    /\ envRes.at \in {"secrets", "given"} =>
         \A k \in EnvKeys \ envRes.secret : envRes.env[k] \in {Unset, ManifestValue, ReservedValue}
    /\ envLog \subseteq {Unset, ManifestValue, ReservedValue}

\* The inductive invariant.
EnvInv == EnvTypes /\ MigOK /\ ResOK /\ MigrationComplete /\ EnvDelivered

----------------------------------------------------------------------------

\* The row that is not there.
LEMMA NoEnvRowTyped ==
    NoEnvRow \in EnvRows /\ ~NoEnvRow.runtime /\ ~NoEnvRow.build /\ NoEnvRow.value = Unset
  BY DEF NoEnvRow, EnvRow, EnvRows

\* The request that is not there.
LEMMA NoEnvCallTyped == NoEnvCall \in EnvEdits
  BY DEF NoEnvCall, EnvEdits, EditRecords

\* The migration that is not under way.
LEMMA NoEnvMigTyped == NoEnvMig \in EnvMigs /\ NoEnvMig.at = "idle"
  BY NoEnvRowTyped DEF NoEnvMig, EnvMigs

\* The named values, and those of the rows.
LEMMA EnvValuesTyped ==
    /\ {Unset, ManifestValue, ReservedValue, LegacyValue, NativeValue} \subseteq EnvValues
    /\ \A row \in EnvRows : row.value \in EnvValues
  BY EnvBounds DEF EnvValues, EnvRows, Unset, ManifestValue, ReservedValue, LegacyValue, NativeValue, FirstWrite,
                   NoEnvRow, EnvRow

\* The resolution that is not under way.
LEMMA NoEnvResTyped ==
    /\ NoEnvRes \in EnvResolutions /\ NoEnvRes.at = "idle" /\ NoEnvRes.secret = {}
    /\ \A k \in EnvKeys : NoEnvRes.env[k] = Manifested(k)
  <1> DEFINE env == [k \in EnvKeys |-> IF k \in ManifestKeys THEN ManifestValue ELSE Unset]
  <1>1. env \in [EnvKeys -> EnvValues]
        BY EnvValuesTyped
  <1>2. \A k \in EnvKeys : env[k] = Manifested(k)
        BY DEF Manifested
  <1>3. NoEnvRes = [at |-> "idle", scope |-> "runtime", project |-> FALSE, todo |-> {}, secret |-> {}, env |-> env]
        BY DEF NoEnvRes
  <1> HIDE DEF env
  <1> QED BY <1>1, <1>2, <1>3 DEF EnvResolutions

\* The invariant gives the property.
LEMMA EnvInvCorrect == EnvInv => EnvTypeOK /\ EnvCorrect
  BY DEF EnvInv, EnvTypes, EnvTypeOK, EnvCorrect, EnvMigs, EnvResolutions, EnvEdits, EditRecords, EnvSince

\* The invariant holds at the start.
LEMMA EnvInvInit == EnvInit => EnvInv
  <1> SUFFICES ASSUME EnvInit PROVE EnvInv
      OBVIOUS
  <1>1. envRow \in [EnvKeys -> EnvRows]
    <2>0. ASSUME NEW b \in BOOLEAN PROVE EnvRow(LegacyValue, FALSE, TRUE, b) \in EnvRows
          BY DEF EnvRow, EnvRows
    <2>1. LegacyRows \subseteq EnvRows
          BY <2>0, NoEnvRowTyped DEF LegacyRows
    <2> QED BY <2>1 DEF EnvInit
  <1>2. native \in [EnvKeys -> EnvValues] /\ hasProject \in BOOLEAN
        BY EnvValuesTyped DEF EnvInit
  <1>3. rowSince \in EnvSince
        BY DEF EnvInit, EnvSince
  <1>6. envCall \in [EnvCalls -> EnvEdits] /\ envMig \in EnvMigs /\ envRes \in EnvResolutions
        BY NoEnvMigTyped, NoEnvResTyped, NoEnvCallTyped DEF EnvInit
  <1>7. 0 \in 0 .. MaxEnvWrites
        BY EnvBounds
  <1>4. EnvTypes
        BY <1>1, <1>2, <1>3, <1>6, <1>7 DEF EnvInit, EnvTypes
  <1>5. envMig.at = "idle" /\ envRes.at = "idle" /\ envLog = {} /\ checkpoint = "none" /\ unreported = {}
        BY NoEnvMigTyped, NoEnvResTyped DEF EnvInit
  <1> QED BY <1>4, <1>5 DEF EnvInv, MigOK, ResOK, MigrationComplete, EnvDelivered

----------------------------------------------------------------------------

\* A step of an edit that writes nothing.
LEMMA EnvEditMoves ==
    ASSUME EnvInv, envCall' \in [EnvCalls -> EnvEdits], hasProject' \in BOOLEAN,
           UNCHANGED <<envRow, native, checkpoint, envMig, unreported, envRes, envLog, envWrites, rowSince>>
    PROVE  EnvInv'
  <1>1. EnvTypes'
        BY DEF EnvInv, EnvTypes
  <1>2. MigOK' /\ ResOK' /\ MigrationComplete' /\ EnvDelivered'
        BY DEF EnvInv, MigOK, ResOK, Reading, MigrationComplete, EnvDelivered
  <1> QED BY <1>1, <1>2 DEF EnvInv

\* A write of a row: it is remembered, if a migration or a resolution has read.
LEMMA EnvEditWrites ==
    ASSUME EnvInv, NEW k \in EnvKeys, NEW row \in EnvRows, WriteRow(k, row),
           envCall' \in [EnvCalls -> EnvEdits],
           UNCHANGED <<native, hasProject, checkpoint, envMig, unreported, envRes, envLog>>
    PROVE  EnvInv'
  <1>1. /\ envRow' \in [EnvKeys -> EnvRows]
        /\ \A j \in EnvKeys \ {k} : envRow'[j] = envRow[j]
        BY DEF EnvInv, EnvTypes, WriteRow
  <1>2. /\ rowSince' \in EnvSince
        /\ rowSince'.migration = rowSince.migration \cup Migrating(k) /\ rowSince'.secret = rowSince.secret
        /\ rowSince'.resolution = rowSince.resolution \cup During(k)
        /\ rowSince'.native = rowSince.native
        BY DEF EnvInv, EnvTypes, WriteRow, EnvSince, During, Migrating
  <1>3. envWrites' \in 0 .. MaxEnvWrites
        BY EnvBounds DEF EnvInv, EnvTypes, WriteRow
  <1>4. EnvTypes'
        BY <1>1, <1>2, <1>3 DEF EnvInv, EnvTypes
  <1>5. MigOK'
    <2>1. envMig.at # "idle" => k \in rowSince'.migration
          BY <1>2 DEF Migrating
    <2> QED BY <1>1, <1>2, <2>1 DEF EnvInv, MigOK
  <1>6. ResOK'
        BY <1>2 DEF EnvInv, ResOK, Reading
  <1>7. MigrationComplete'
    <2>1. checkpoint = "done" => k \in rowSince'.migration
          BY <1>2 DEF Migrating
    <2> QED BY <1>1, <1>2, <2>1 DEF EnvInv, MigrationComplete
  <1>8. EnvDelivered'
    <2>1. envRes.at = "given" => k \in rowSince'.resolution
          BY <1>2 DEF During
    <2>2. rowSince.resolution \subseteq rowSince'.resolution
          BY <1>2
    <2> QED BY <1>1, <1>2, <2>1, <2>2 DEF EnvInv, EnvDelivered
  <1> QED BY <1>4, <1>5, <1>6, <1>7, <1>8 DEF EnvInv

\* A row with a value nobody has written before.
LEMMA FreshTyped ==
    ASSUME EnvInv, envWrites < MaxEnvWrites, NEW b \in BOOLEAN, NEW r \in BOOLEAN
    PROVE  EnvRow(FirstWrite + envWrites, b, r, FALSE) \in EnvRows
  <1>1. FirstWrite + envWrites \in FirstWrite .. (FirstWrite + MaxEnvWrites)
        BY EnvBounds DEF EnvInv, EnvTypes, FirstWrite
  <1> DEFINE v == FirstWrite + envWrites
  <1> HIDE DEF v
  <1>2. v \in {LegacyValue} \cup FirstWrite .. (FirstWrite + MaxEnvWrites)
        BY <1>1 DEF v
  <1>3. EnvRow(v, b, r, FALSE) \in EnvRows
        BY <1>2 DEF EnvRow, EnvRows
  <1> QED BY <1>3 DEF v

\* CreateEnvVar keeps the invariant.
LEMMA EnvCreates ==
    ASSUME EnvInv, NEW k \in EnvKeys, NEW b \in BOOLEAN, NEW r \in BOOLEAN, CreateEnvVar(k, b, r)
    PROVE  EnvInv'
  <1> DEFINE row == EnvRow(FirstWrite + envWrites, b, r, FALSE)
  <1>1. row \in EnvRows /\ WriteRow(k, row)
        BY FreshTyped DEF CreateEnvVar, WriteRow
  <1> HIDE DEF row
  <1>2. envCall' \in [EnvCalls -> EnvEdits]
        BY DEF CreateEnvVar, EnvInv, EnvTypes
  <1> QED BY <1>1, <1>2, EnvEditWrites DEF CreateEnvVar

\* A step of a request keeps the types of the requests.
LEMMA EnvCallTyped ==
    ASSUME EnvInv, NEW c \in EnvCalls, NEW to \in EnvEdits, EnvCallGoes(c, to)
    PROVE  envCall' \in [EnvCalls -> EnvEdits]
  BY DEF EnvInv, EnvTypes, EnvCallGoes

\* A request that looks a key up, or fails, changes no row.
LEMMA EnvLookups ==
    ASSUME EnvInv, NEW c \in EnvCalls,
           \/ \E k \in EnvKeys : LookupEnvVar(c, k, "update") \/ LookupEnvVar(c, k, "delete")
           \/ \E ks \in SUBSET EnvKeys : SetSiteEnvVars(c, ks)
           \/ SetLooksUp(c) \/ EnvCallFails(c)
    PROVE  EnvInv'
  <1>0. envCall[c] \in EnvEdits /\ envCall[c].todo \subseteq EnvKeys
        BY DEF EnvInv, EnvTypes, EnvEdits, EditRecords
  <1>1. hasProject' \in BOOLEAN /\
        UNCHANGED <<envRow, native, checkpoint, envMig, unreported, envRes, envLog, envWrites, rowSince>>
        BY DEF LookupEnvVar, SetSiteEnvVars, SetLooksUp, EnvCallFails, EnvInv, EnvTypes
  <1>2. \E to \in EnvEdits : EnvCallGoes(c, to)
    <2>1. ASSUME NEW k \in EnvKeys, LookupEnvVar(c, k, "update") \/ LookupEnvVar(c, k, "delete")
          PROVE  \E to \in EnvEdits : EnvCallGoes(c, to)
      <3>1. \A next \in {"update", "delete"} : [at |-> next, key |-> k, todo |-> {}] \in EnvEdits
            BY DEF EnvEdits, EditRecords
      <3> QED BY <2>1, <3>1 DEF LookupEnvVar
    <2>2. ASSUME NEW ks \in SUBSET EnvKeys, SetSiteEnvVars(c, ks)
          PROVE  \E to \in EnvEdits : EnvCallGoes(c, to)
      <3>1. [at |-> "set", key |-> Unset, todo |-> ks] \in EnvEdits
            BY DEF EnvEdits, EditRecords
      <3> QED BY <2>2, <3>1 DEF SetSiteEnvVars
    <2>3. ASSUME SetLooksUp(c) PROVE \E to \in EnvEdits : EnvCallGoes(c, to)
      <3>1. PICK k \in envCall[c].todo :
              EnvCallGoes(c, [at |-> IF envRow[k] = NoEnvRow THEN "insert" ELSE "replace",
                              key |-> k, todo |-> envCall[c].todo \ {k}])
            BY <2>3 DEF SetLooksUp
      <3>2. \A at \in {"insert", "replace"} : [at |-> at, key |-> k, todo |-> envCall[c].todo \ {k}] \in EnvEdits
            BY <1>0 DEF EnvEdits, EditRecords
      <3> QED BY <3>1, <3>2
    <2>4. ASSUME EnvCallFails(c) PROVE \E to \in EnvEdits : EnvCallGoes(c, to)
          BY <2>4, NoEnvCallTyped DEF EnvCallFails
    <2> QED BY <2>1, <2>2, <2>3, <2>4
  <1> QED BY <1>1, <1>2, EnvCallTyped, EnvEditMoves

\* An edit writes a row, and marks it as changed.
LEMMA EnvEditSteps ==
    ASSUME EnvInv, NEW c \in EnvCalls,
           (\E b, r \in BOOLEAN : UpdateEnvVar(c, b, r)) \/ DeleteEnvVar(c) \/ SetWrites(c)
    PROVE  EnvInv'
  <1> DEFINE k == envCall[c].key
  <1>0. envCall[c] \in EnvEdits
        BY DEF EnvInv, EnvTypes
  <1>1. k \in EnvKeys /\ envCall[c] \in EditRecords
        BY <1>0 DEF EnvEdits, UpdateEnvVar, DeleteEnvVar, SetWrites
  <1>2. UNCHANGED <<native, hasProject, checkpoint, envMig, unreported, envRes, envLog>>
        BY DEF UpdateEnvVar, DeleteEnvVar, SetWrites
  <1>3. envCall' \in [EnvCalls -> EnvEdits]
    <2>1. [envCall[c] EXCEPT !.at = "set", !.key = Unset] \in EnvEdits
          BY <1>1 DEF EnvEdits, EditRecords
    <2> QED BY <2>1, NoEnvCallTyped, EnvCallTyped DEF UpdateEnvVar, DeleteEnvVar, SetWrites
  <1>4. (\E row \in EnvRows : WriteRow(k, row)) \/ UNCHANGED <<envRow, envWrites, rowSince>>
    <2>1. ASSUME NEW b \in BOOLEAN, NEW r \in BOOLEAN, WriteRow(k, EnvRow(FirstWrite + envWrites, b, r, FALSE))
          PROVE  \E row \in EnvRows : WriteRow(k, row)
          BY <2>1, FreshTyped DEF WriteRow
    <2> QED BY <2>1, NoEnvRowTyped DEF UpdateEnvVar, DeleteEnvVar, SetWrites
  <1>5. hasProject' \in BOOLEAN
        BY <1>2 DEF EnvInv, EnvTypes
  <1> HIDE DEF k
  <1> QED BY <1>1, <1>2, <1>3, <1>4, <1>5, EnvEditWrites, EnvEditMoves

\* The site gets a project.
LEMMA EnvAttaches ==
    ASSUME EnvInv, AttachProject
    PROVE  EnvInv'
  <1>1. envCall' \in [EnvCalls -> EnvEdits] /\ hasProject' \in BOOLEAN
        BY DEF EnvInv, EnvTypes, AttachProject
  <1> QED BY <1>1, EnvEditMoves DEF AttachProject

----------------------------------------------------------------------------

\* A secret is created, changed or deleted: it is remembered, if a migration or a
\* resolution has read.
LEMMA EnvWritesSecret ==
    ASSUME EnvInv, NEW k \in EnvKeys, NEW v \in EnvValues, WriteSecret(k, v)
    PROVE  EnvInv'
  <1>1. /\ native' \in [EnvKeys -> EnvValues]
        /\ \A j \in EnvKeys \ {k} : native'[j] = native[j]
        BY DEF EnvInv, EnvTypes, WriteSecret
  <1>2. /\ rowSince' \in EnvSince
        /\ rowSince'.secret = rowSince.secret \cup Migrating(k) /\ rowSince'.migration = rowSince.migration
        /\ rowSince'.resolution = rowSince.resolution /\ rowSince'.native = rowSince.native \cup During(k)
        BY DEF EnvInv, EnvTypes, WriteSecret, EnvSince, During, Migrating
  <1>3. envWrites' \in 0 .. MaxEnvWrites
        BY EnvBounds DEF EnvInv, EnvTypes, WriteSecret
  <1>4. UNCHANGED <<envRow, hasProject, checkpoint, envMig, unreported, envRes, envCall, envLog>>
        BY DEF WriteSecret
  <1>5. EnvTypes'
        BY <1>1, <1>2, <1>3, <1>4 DEF EnvInv, EnvTypes
  <1>6. MigOK'
    <2>1. envMig.at # "idle" => k \in rowSince'.secret
          BY <1>2 DEF Migrating
    <2> QED BY <1>1, <1>2, <1>4, <2>1 DEF EnvInv, MigOK
  <1>7. MigrationComplete'
    <2>1. checkpoint = "done" => k \in rowSince'.secret
          BY <1>2 DEF Migrating
    <2> QED BY <1>1, <1>2, <1>4, <2>1 DEF EnvInv, MigrationComplete
  <1>8. envRes.at # "idle" => k \in rowSince'.native
        BY <1>2 DEF During
  <1>9. rowSince.native \subseteq rowSince'.native
        BY <1>2
  <1>10. ResOK'
    <2>1. ASSUME envRes.at = "secrets", NEW j \in EnvKeys PROVE Reading(j)'
          BY <1>1, <1>4, <1>8, <1>9, <2>1 DEF EnvInv, ResOK, Reading, Manifested
    <2> QED BY <1>4, <2>1 DEF EnvInv, ResOK
  <1>11. EnvDelivered'
        BY <1>1, <1>2, <1>4, <1>8, <1>9 DEF EnvInv, EnvDelivered
  <1> QED BY <1>5, <1>6, <1>7, <1>10, <1>11 DEF EnvInv

\* The edits of the secrets keep the invariant.
LEMMA EnvSecretSteps ==
    ASSUME EnvInv, NEW k \in EnvKeys, CreateSecret(k) \/ UpdateSecret(k) \/ DeleteSecret(k)
    PROVE  EnvInv'
  <1>1. Unset \in EnvValues
        BY EnvValuesTyped
  <1>2. envWrites < MaxEnvWrites => FirstWrite + envWrites \in EnvValues
        BY EnvBounds DEF EnvInv, EnvTypes, EnvValues, FirstWrite
  <1>3. PICK v \in EnvValues : WriteSecret(k, v)
    <2>1. CASE DeleteSecret(k)
          BY <1>1, <2>1 DEF DeleteSecret
    <2>2. CASE CreateSecret(k) \/ UpdateSecret(k)
      <3>1. WriteSecret(k, FirstWrite + envWrites) /\ envWrites < MaxEnvWrites
            BY <2>2 DEF CreateSecret, UpdateSecret, WriteSecret
      <3> QED BY <1>2, <3>1
    <2> QED BY <2>1, <2>2
  <1> QED BY <1>3, EnvWritesSecret

----------------------------------------------------------------------------

\* The migration moves: what concerns the resolution stays.
LEMMA EnvMigMoves ==
    ASSUME EnvInv, envMig' \in EnvMigs, checkpoint' \in {"none", "in_progress", "done"},
           unreported' \subseteq EnvKeys, rowSince' \in EnvSince,
           rowSince'.resolution = rowSince.resolution, rowSince'.native = rowSince.native,
           MigOK', MigrationComplete',
           UNCHANGED <<envRow, native, hasProject, envRes, envCall, envLog, envWrites>>
    PROVE  EnvInv'
  <1>1. EnvTypes'
        BY DEF EnvInv, EnvTypes
  <1>2. ResOK' /\ EnvDelivered'
        BY DEF EnvInv, ResOK, Reading, EnvDelivered
  <1> QED BY <1>1, <1>2 DEF EnvInv

\* The migration begins with a copy of the rows.
LEMMA EnvMigrates ==
    ASSUME EnvInv, MigrateSite
    PROVE  EnvInv'
  <1> DEFINE todo == {k \in EnvKeys : envRow[k].runtime}
  <1>0. UNCHANGED <<envRow, native, hasProject, checkpoint, unreported, envRes, envCall, envLog, envWrites>>
        BY DEF MigrateSite
  <1>1. /\ rowSince' \in EnvSince /\ rowSince'.migration = {}
        /\ rowSince'.resolution = rowSince.resolution /\ rowSince'.native = rowSince.native
        BY DEF MigrateSite, EnvInv, EnvTypes, EnvSince
  <1>2. /\ checkpoint # "done" /\ checkpoint \in {"none", "in_progress", "done"}
        /\ unreported = {} /\ unreported' \subseteq EnvKeys
        BY DEF MigrateSite, CheckpointDone, EnvInv, EnvTypes, MigrationComplete
  <1>3. envRow \in [EnvKeys -> EnvRows]
        BY DEF EnvInv, EnvTypes
  <1>4. /\ envMig' \in EnvMigs /\ envMig'.at = "read" /\ envMig'.rows = envRow
        /\ envMig'.todo = todo
        BY <1>3 DEF MigrateSite, MigGoes, EnvMigs
  <1>5. MigOK' /\ MigrationComplete'
        BY <1>0, <1>2, <1>4 DEF MigOK, MigrationComplete
  <1> QED BY <1>0, <1>1, <1>2, <1>4, <1>5, EnvMigMoves

\* The migration checks the rows it has read.
LEMMA EnvValidates ==
    ASSUME EnvInv, ValidateRows
    PROVE  EnvInv'
  <1> DEFINE there == {k \in EnvKeys : envMig.rows[k] # NoEnvRow}
             report == [envMig EXCEPT !.skipped = there \ envMig.todo]
  <1>0. /\ UNCHANGED <<envRow, native, hasProject, unreported, envRes, envCall, envLog, envWrites, rowSince>>
        /\ rowSince' \in EnvSince /\ unreported' \subseteq EnvKeys
        BY DEF ValidateRows, EnvInv, EnvTypes
  <1>1. /\ envMig \in EnvMigs /\ envMig.at = "read" /\ checkpoint # "done" /\ unreported = {}
        /\ checkpoint \in {"none", "in_progress", "done"}
        BY DEF ValidateRows, EnvInv, EnvTypes, MigOK, MigrationComplete
  <1>2. ASSUME NEW at \in {"folder", "marked"}
        PROVE  /\ [report EXCEPT !.at = at] \in EnvMigs /\ [report EXCEPT !.at = at].at = at
               /\ [report EXCEPT !.at = at].rows = envMig.rows /\ [report EXCEPT !.at = at].todo = envMig.todo
        BY <1>1 DEF EnvMigs
  <1>3. ASSUME NEW k \in EnvKeys \ (envMig.todo \cup rowSince.secret), envMig.rows[k].runtime
        PROVE  envMig.rows[k] # NoEnvRow /\ k \in there \ envMig.todo
        BY <1>3, NoEnvRowTyped
  <1>4. CASE /\ there = {} \/ (hasProject /\ envMig.todo = {})
             /\ MarkCheckpoint("done") /\ MigGoes([report EXCEPT !.at = "marked"])
    <2>1. /\ envMig' \in EnvMigs /\ envMig'.at = "marked" /\ envMig'.rows = envMig.rows
          /\ envMig'.todo = envMig.todo /\ envMig'.skipped = there \ envMig.todo
          BY <1>1, <1>2, <1>4 DEF MigGoes, EnvMigs
    <2>2. checkpoint' = "done"
          BY <1>4 DEF MarkCheckpoint
    <2>3. \A k \in EnvKeys : envMig.rows[k].runtime => k \in there \ envMig.todo \/ (k \in envMig.todo /\ k \in there)
          BY NoEnvRowTyped
    <2>4. MigOK'
          BY <1>0, <1>1, <1>3, <2>1, <2>2 DEF EnvInv, MigOK
    <2>5. MigrationComplete'
      <3>1. ASSUME NEW k \in EnvKeys \ rowSince.migration, envRow[k].runtime PROVE k \in envMig'.skipped
        <4>1. envMig.rows[k] = envRow[k]
              BY <1>1 DEF EnvInv, MigOK
        <4> QED BY <1>4, <2>1, <2>3, <3>1, <4>1
      <3> QED BY <1>0, <1>1, <3>1 DEF MigrationComplete
    <2> QED BY <1>0, <2>1, <2>2, <2>4, <2>5, EnvMigMoves
  <1>5. CASE /\ MarkCheckpoint("in_progress") /\ MigGoes([report EXCEPT !.at = "folder"])
    <2>1. /\ envMig' \in EnvMigs /\ envMig'.at = "folder" /\ envMig'.rows = envMig.rows
          /\ envMig'.todo = envMig.todo /\ envMig'.skipped = there \ envMig.todo
          BY <1>1, <1>2, <1>5 DEF MigGoes, EnvMigs
    <2>2. checkpoint' = "in_progress"
          BY <1>5 DEF MarkCheckpoint
    <2>3. MigOK'
          BY <1>0, <1>1, <1>3, <2>1, <2>2 DEF EnvInv, MigOK
    <2>4. MigrationComplete'
          BY <1>0, <1>1, <2>2 DEF MigrationComplete
    <2> QED BY <1>0, <2>1, <2>2, <2>3, <2>4, EnvMigMoves
  <1>6. CASE MigGoes(NoEnvMig) /\ UNCHANGED checkpoint
    <2>1. envMig' \in EnvMigs /\ envMig'.at = "idle"
          BY <1>6, NoEnvMigTyped DEF MigGoes
    <2>2. MigOK' /\ MigrationComplete'
          BY <1>0, <1>1, <1>6, <2>1 DEF MigOK, MigrationComplete
    <2> QED BY <1>0, <1>1, <1>6, <2>1, <2>2, EnvMigMoves
  <1> QED BY <1>4, <1>5, <1>6 DEF ValidateRows

\* The migration makes its folder, ends, returns its report or dies.
LEMMA EnvMigSteps ==
    ASSUME EnvInv, EnsureDefaultFolder \/ MarkDone \/ ReturnReport \/ MigrationDies
    PROVE  EnvInv'
  <1>0. /\ UNCHANGED <<envRow, native, hasProject, envRes, envCall, envLog, envWrites, rowSince>>
        /\ rowSince' \in EnvSince
        BY DEF EnsureDefaultFolder, MarkDone, ReturnReport, MigrationDies, EnvInv, EnvTypes
  <1>1. /\ envMig \in EnvMigs /\ envMig.at # "idle" /\ checkpoint \in {"none", "in_progress", "done"}
        /\ unreported = {} /\ {} \subseteq EnvKeys
        BY NoEnvMigTyped DEF EnsureDefaultFolder, MarkDone, ReturnReport, MigrationDies, EnvInv, EnvTypes,
                             MigrationComplete
  <1>2. CASE EnsureDefaultFolder
    <2>1. /\ envMig' \in EnvMigs /\ envMig'.at = "write" /\ envMig'.rows = envMig.rows
          /\ envMig'.todo = envMig.todo /\ envMig'.skipped = envMig.skipped
          BY <1>1, <1>2 DEF EnsureDefaultFolder, MigGoes, EnvMigs
    <2>2. checkpoint' = checkpoint /\ checkpoint # "done" /\ unreported' = {}
          BY <1>1, <1>2 DEF EnsureDefaultFolder, EnvInv, MigOK
    <2>3. MigOK'
          BY <1>0, <1>1, <2>1, <2>2 DEF EnvInv, MigOK
    <2>4. MigrationComplete'
          BY <2>2 DEF MigrationComplete
    <2> QED BY <1>0, <1>1, <2>1, <2>2, <2>3, <2>4, EnvMigMoves
  <1>3. CASE MarkDone
    <2>1. /\ envMig' \in EnvMigs /\ envMig'.at = "marked" /\ envMig'.rows = envMig.rows
          /\ envMig'.skipped = envMig.skipped /\ envMig'.todo = {} /\ envMig.todo = {}
          BY <1>1, <1>3 DEF MarkDone, MigGoes, EnvMigs
    <2>2. checkpoint' = "done" /\ unreported' = {}
          BY <1>1, <1>3 DEF MarkDone, MarkCheckpoint
    <2>3. MigOK'
          BY <1>0, <1>1, <2>1, <2>2 DEF EnvInv, MigOK
    <2>4. ASSUME NEW k \in EnvKeys \ (rowSince.migration \cup rowSince.secret \cup envMig.skipped),
                 envRow[k].runtime
          PROVE  native[k] = envRow[k].value
          BY <1>1, <2>1, <2>4 DEF EnvInv, MigOK
    <2>5. MigrationComplete'
          BY <1>0, <2>1, <2>2, <2>4 DEF MigrationComplete
    <2> QED BY <1>0, <1>1, <2>1, <2>2, <2>3, <2>5, EnvMigMoves
  <1>4. CASE ReturnReport
    <2>1. envMig' \in EnvMigs /\ envMig'.at = "idle" /\ envMig'.skipped = envMig.skipped
          BY <1>1, <1>4 DEF ReturnReport, MigGoes, EnvMigs
    <2>2. checkpoint' = checkpoint /\ unreported' = {}
          BY <1>1, <1>4 DEF ReturnReport
    <2>3. MigOK'
          BY <2>1 DEF MigOK
    <2>4. MigrationComplete'
          BY <1>0, <1>1, <2>1, <2>2 DEF EnvInv, MigrationComplete
    <2> QED BY <1>0, <1>1, <2>1, <2>2, <2>3, <2>4, EnvMigMoves
  <1>5. CASE MigrationDies
    <2>1. envMig' = NoEnvMig /\ envMig' \in EnvMigs /\ envMig'.at = "idle" /\ checkpoint' = checkpoint
          BY <1>5, NoEnvMigTyped DEF MigrationDies, MigGoes
    <2>2. MigOK'
          BY <2>1 DEF MigOK
    <2>3. NoEnvMig' = NoEnvMig
          BY DEF NoEnvMig
    <2>4. CASE envMig.at = "marked"
      <3>1. unreported' = envMig.skipped /\ unreported' \subseteq EnvKeys /\ checkpoint = "done"
            BY <1>1, <1>5, <2>4 DEF MigrationDies, EnvMigs, EnvInv, MigOK
      <3>2. MigrationComplete'
            BY <1>0, <1>1, <2>1, <2>3, <3>1 DEF EnvInv, MigrationComplete
      <3> QED BY <1>0, <1>1, <2>1, <2>2, <3>1, <3>2, EnvMigMoves
    <2>5. CASE envMig.at # "marked"
      <3>1. unreported' = {} /\ checkpoint # "done"
            BY <1>1, <1>5, <2>5 DEF MigrationDies, EnvInv, MigOK
      <3>2. MigrationComplete'
            BY <2>1, <3>1 DEF MigrationComplete
      <3> QED BY <1>0, <1>1, <2>1, <2>2, <3>1, <3>2, EnvMigMoves
    <2> QED BY <2>4, <2>5
  <1> QED BY <1>2, <1>3, <1>4, <1>5

\* The migration writes one key, or reports it.
LEMMA EnvMigratesKey ==
    ASSUME EnvInv, NEW k \in EnvKeys, MigrateKey(k)
    PROVE  EnvInv'
  <1> DEFINE on == [envMig EXCEPT !.todo = @ \ {k}]
             off == [on EXCEPT !.skipped = @ \cup {k}]
  <1>0. UNCHANGED <<envRow, hasProject, checkpoint, unreported, envRes, envCall, envLog, envWrites>>
        BY DEF MigrateKey
  <1>1. /\ envMig \in EnvMigs /\ envMig.at = "write" /\ checkpoint \in {"none", "in_progress"}
        /\ native \in [EnvKeys -> EnvValues] /\ rowSince \in EnvSince
        /\ unreported = {} /\ unreported \subseteq EnvKeys
        BY DEF MigrateKey, EnvInv, EnvTypes, MigOK, MigrationComplete
  <1>2. /\ on \in EnvMigs /\ on.at = "write" /\ on.rows = envMig.rows
        /\ on.todo = envMig.todo \ {k} /\ on.skipped = envMig.skipped
        BY <1>1 DEF EnvMigs
  <1>3. /\ off \in EnvMigs /\ off.at = "write" /\ off.rows = envMig.rows
        /\ off.todo = envMig.todo \ {k} /\ off.skipped = envMig.skipped \cup {k}
    <2> HIDE DEF on
    <2> QED BY <1>2 DEF EnvMigs
  <1> HIDE DEF on, off
  <1>4. CASE /\ MigGoes(on) \/ MigGoes(off)
             /\ native' = [native EXCEPT ![k] = envMig.rows[k].value]
             /\ rowSince' = [rowSince EXCEPT !.secret = @ \ {k}, !.native = @ \cup During(k)]
    <2>1. envMig.rows[k].value \in EnvValues
      <3>1. envMig.rows[k] \in EnvRows
            BY <1>1 DEF EnvMigs
      <3> QED BY <3>1, EnvValuesTyped
    <2>2. /\ native' \in [EnvKeys -> EnvValues] /\ native'[k] = envMig.rows[k].value
          /\ \A j \in EnvKeys \ {k} : native'[j] = native[j]
          BY <1>1, <1>4, <2>1
    <2>3. /\ rowSince' \in EnvSince /\ rowSince'.migration = rowSince.migration
          /\ rowSince'.resolution = rowSince.resolution /\ rowSince'.secret = rowSince.secret \ {k}
          /\ rowSince'.native = rowSince.native \cup During(k)
          BY <1>1, <1>4 DEF EnvSince, During
    <2>4. /\ envMig' \in EnvMigs /\ envMig'.at = "write" /\ envMig'.rows = envMig.rows
          /\ envMig'.todo = envMig.todo \ {k} /\ envMig.skipped \subseteq envMig'.skipped
          BY <1>2, <1>3, <1>4 DEF MigGoes
    <2>5. EnvTypes'
          BY <1>0, <2>2, <2>3, <2>4 DEF EnvInv, EnvTypes
    <2>6. MigOK'
      <3>1. ASSUME NEW j \in EnvKeys \ (envMig'.todo \cup envMig'.skipped \cup rowSince'.secret),
                   envMig.rows[j].runtime
            PROVE  native'[j] = envMig.rows[j].value
        <4>1. CASE j = k
              BY <2>2, <4>1
        <4>2. CASE j # k
              BY <1>1, <2>2, <2>3, <2>4, <3>1, <4>2 DEF EnvInv, MigOK
        <4> QED BY <4>1, <4>2
      <3> QED BY <1>0, <1>1, <2>3, <2>4, <3>1 DEF EnvInv, MigOK
    <2>7. envRes.at # "idle" => k \in rowSince'.native
          BY <2>3 DEF During
    <2>8. rowSince.native \subseteq rowSince'.native
          BY <2>3
    <2>9. ResOK'
      <3>1. ASSUME envRes.at = "secrets", NEW j \in EnvKeys PROVE Reading(j)'
            BY <1>0, <2>2, <2>7, <2>8, <3>1 DEF EnvInv, ResOK, Reading, Manifested
      <3> QED BY <1>0, <3>1 DEF EnvInv, ResOK
    <2>10. MigrationComplete'
          BY <1>0, <1>1 DEF MigrationComplete
    <2>11. EnvDelivered'
          BY <1>0, <2>2, <2>3, <2>7, <2>8 DEF EnvInv, EnvDelivered
    <2> QED BY <2>5, <2>6, <2>9, <2>10, <2>11 DEF EnvInv
  <1>5. CASE MigGoes(off) /\ UNCHANGED <<native, rowSince>>
    <2>1. envMig' = off
          BY <1>5 DEF MigGoes
    <2>2. MigOK'
          BY <1>0, <1>1, <1>3, <1>5, <2>1 DEF EnvInv, MigOK
    <2>3. MigrationComplete'
          BY <1>0, <1>1 DEF MigrationComplete
    <2> QED BY <1>0, <1>1, <1>3, <1>5, <2>1, <2>2, <2>3, EnvMigMoves
  <1> QED BY <1>4, <1>5 DEF MigrateKey, on, off

----------------------------------------------------------------------------

\* The resolution moves: what concerns the migration stays.
LEMMA EnvResMoves ==
    ASSUME EnvInv, envRes' \in EnvResolutions, rowSince' \in EnvSince,
           rowSince'.migration = rowSince.migration, rowSince'.secret = rowSince.secret,
           envLog' \subseteq EnvValues,
           ResOK', EnvDelivered',
           UNCHANGED <<envRow, native, hasProject, checkpoint, envMig, unreported, envCall, envWrites>>
    PROVE  EnvInv'
  <1>1. EnvTypes'
        BY DEF EnvInv, EnvTypes
  <1>2. MigOK' /\ MigrationComplete'
        BY DEF EnvInv, MigOK, MigrationComplete
  <1> QED BY <1>1, <1>2 DEF EnvInv

\* A resolution begins with the manifest and the rows.
LEMMA EnvResolves ==
    ASSUME EnvInv, NEW scope \in {"build", "runtime"}, ResolveBegins(scope)
    PROVE  EnvInv'
  <1> DEFINE todo == {k \in EnvKeys : hasProject /\ native[k] # Unset}
  <1>0. UNCHANGED <<envRow, native, hasProject, checkpoint, envMig, unreported, envCall, envLog, envWrites>>
        BY DEF ResolveBegins
  <1>1. /\ rowSince' \in EnvSince /\ rowSince'.migration = rowSince.migration
        /\ rowSince'.secret = rowSince.secret
        BY DEF ResolveBegins, EnvInv, EnvTypes, EnvSince
  <1>2. /\ envRes' \in EnvResolutions /\ envRes'.at = "secrets" /\ envRes'.project = hasProject
        /\ envRes'.todo = todo /\ envRes'.env = NoEnvRes.env
        BY NoEnvResTyped DEF ResolveBegins, EnvResolutions, EnvInv, EnvTypes
  <1>3. ASSUME NEW k \in EnvKeys PROVE Reading(k)' /\ envRes'.env[k] \in {Unset, ManifestValue, ReservedValue}
        BY <1>0, <1>2, NoEnvResTyped DEF Reading, Manifested
  <1>4. ResOK'
        BY <1>0, <1>2, <1>3 DEF EnvInv, ResOK
  <1>5. EnvDelivered'
        BY <1>2 DEF EnvDelivered
  <1>6. envLog' \subseteq EnvValues
        BY <1>0 DEF EnvInv, EnvTypes
  <1> QED BY <1>0, <1>1, <1>2, <1>4, <1>5, <1>6, EnvResMoves

\* A resolution reads a secret over what it has.
LEMMA EnvReads ==
    ASSUME EnvInv, NEW k \in EnvKeys, ReadSecretValue(k)
    PROVE  EnvInv'
  <1>0. /\ UNCHANGED <<envRow, native, hasProject, checkpoint, envMig, unreported, envCall, envLog, envWrites, rowSince>>
        /\ rowSince' \in EnvSince /\ envLog' \subseteq EnvValues
        BY DEF ReadSecretValue, EnvInv, EnvTypes
  <1>1. envRes \in EnvResolutions /\ envRes.at = "secrets" /\ native[k] \in EnvValues /\ k \in envRes.todo
        BY DEF ReadSecretValue, EnvInv, EnvTypes
  <1>2. envRes.env \in [EnvKeys -> EnvValues]
        BY <1>1 DEF EnvResolutions
  <1> DEFINE env == [envRes.env EXCEPT ![k] = native[k]]
  <1>3. env \in [EnvKeys -> EnvValues] /\ env[k] = native[k] /\ \A j \in EnvKeys \ {k} : env[j] = envRes.env[j]
        BY <1>1, <1>2
  <1>4. envRes' = [envRes EXCEPT !.todo = @ \ {k}, !.secret = @ \cup {k}, !.env = env]
        BY DEF ReadSecretValue
  <1> HIDE DEF env
  <1>5. /\ envRes' \in EnvResolutions /\ envRes'.at = "secrets" /\ envRes'.project = envRes.project
        /\ envRes'.todo = envRes.todo \ {k} /\ envRes'.secret = envRes.secret \cup {k} /\ envRes'.env = env
        BY <1>1, <1>3, <1>4 DEF EnvResolutions
  <1>6. ASSUME NEW j \in EnvKeys PROVE Reading(j)'
        BY <1>0, <1>1, <1>3, <1>5 DEF EnvInv, ResOK, Reading, Manifested
  <1>7. ResOK'
        BY <1>0, <1>1, <1>3, <1>5, <1>6 DEF EnvInv, ResOK
  <1>8. EnvDelivered'
        BY <1>5 DEF EnvDelivered
  <1> QED BY <1>0, <1>5, <1>7, <1>8, EnvResMoves

\* A resolution ends and gives the environment, or fails.
LEMMA EnvGives ==
    ASSUME EnvInv, ResolveSiteEnvVars \/ ResolveFails
    PROVE  EnvInv'
  <1> DEFINE rows == {k \in EnvKeys : InScope(envRow[k], envRes.scope)}
             env == Overlay(envRes.env, rows)
  <1>0. /\ UNCHANGED <<envRow, native, hasProject, checkpoint, envMig, unreported, envCall, envLog, envWrites, rowSince>>
        /\ rowSince' \in EnvSince /\ envLog' \subseteq EnvValues
        BY DEF ResolveSiteEnvVars, ResolveFails, EnvInv, EnvTypes
  <1>1. envRes \in EnvResolutions /\ envRes.at = "secrets" /\ envRow \in [EnvKeys -> EnvRows]
        BY DEF ResolveSiteEnvVars, ResolveFails, EnvInv, EnvTypes
  <1>2. CASE envRes' = [NoEnvRes EXCEPT !.at = "failed"]
    <2>1. envRes' \in EnvResolutions /\ envRes'.at = "failed"
          BY <1>2, NoEnvResTyped DEF EnvResolutions
    <2>2. ResOK' /\ EnvDelivered'
          BY <1>0, <2>1 DEF EnvInv, ResOK, EnvDelivered
    <2> QED BY <1>0, <2>1, <2>2, EnvResMoves
  <1>3. CASE envRes.todo = {} /\ envRes' = [envRes EXCEPT !.at = "given", !.secret = @ \cup rows, !.env = env]
    <2>1. envRes.env \in [EnvKeys -> EnvValues]
          BY <1>1 DEF EnvResolutions
    <2>2. /\ env \in [EnvKeys -> EnvValues]
          /\ \A k \in EnvKeys : env[k] = IF k \in ReservedKeys THEN ReservedValue
                                         ELSE IF k \in rows THEN envRow[k].value ELSE envRes.env[k]
      <3>1. ASSUME NEW k \in EnvKeys PROVE envRow[k].value \in EnvValues /\ envRes.env[k] \in EnvValues
            BY <1>1, <2>1, EnvValuesTyped
      <3> QED BY <3>1, EnvValuesTyped DEF Overlay
    <2> HIDE DEF env
    <2>3. /\ envRes' \in EnvResolutions /\ envRes'.at = "given" /\ envRes'.project = envRes.project
          /\ envRes'.scope = envRes.scope /\ envRes'.secret = envRes.secret \cup rows /\ envRes'.env = env
          BY <1>1, <1>3, <2>2 DEF EnvResolutions
    <2>4. ASSUME NEW k \in EnvKeys PROVE Reading(k) /\ k \notin envRes.todo
          BY <1>1, <1>3 DEF EnvInv, ResOK
    <2>5. ASSUME NEW k \in EnvKeys \ envRes'.secret
          PROVE  env[k] \in {Unset, ManifestValue, ReservedValue}
      <3>1. k \notin rows /\ envRes.env[k] \in {Unset, ManifestValue, ReservedValue}
            BY <1>1, <2>3 DEF EnvInv, ResOK
      <3> QED BY <2>2, <3>1
    <2>6. ResOK'
          BY <1>0, <2>3, <2>5 DEF EnvInv, ResOK
    <2>7. ASSUME NEW k \in EnvKeys
          PROVE  env[k] = IF k \in ReservedKeys THEN ReservedValue
                          ELSE IF InScope(envRow[k], envRes.scope) THEN envRow[k].value
                          ELSE IF k \in rowSince.native THEN env[k]
                          ELSE IF envRes.project /\ native[k] # Unset THEN native[k]
                          ELSE NoEnvRes.env[k]
      <3>1. NoEnvRes.env[k] = Manifested(k)
            BY NoEnvResTyped
      <3>2. CASE k \in ReservedKeys \/ k \in rows
            BY <2>2, <3>2
      <3>3. CASE k \notin ReservedKeys /\ k \notin rows
        <4>1. env[k] = envRes.env[k]
              BY <2>2, <3>3
        <4>2. k \notin rowSince.native =>
                env[k] = IF envRes.project /\ native[k] # Unset THEN native[k] ELSE NoEnvRes.env[k]
              BY <2>4, <3>1, <4>1 DEF Reading
        <4> QED BY <3>3, <4>2
      <3> QED BY <3>2, <3>3
    <2>8. envLog \subseteq {Unset, ManifestValue, ReservedValue}
          BY DEF EnvInv, ResOK
    <2>9. EnvDelivered'
          BY <1>0, <2>3, <2>7, <2>8 DEF EnvDelivered, InScope
    <2> QED BY <1>0, <2>3, <2>6, <2>9, EnvResMoves
  <1> QED BY <1>2, <1>3 DEF ResolveSiteEnvVars, ResolveFails

\* The application prints a value, and the log redacts those that are secret.
LEMMA EnvPrints ==
    ASSUME EnvInv, AppPrints
    PROVE  EnvInv'
  <1>0. /\ UNCHANGED <<envRow, native, hasProject, checkpoint, envMig, unreported, envRes, envCall, envWrites, rowSince>>
        /\ rowSince' \in EnvSince /\ envRes' \in EnvResolutions
        BY DEF AppPrints, EnvInv, EnvTypes
  <1>1. PICK k \in EnvKeys : envLog' = envLog \cup RedactLogText({envRes.env[k]})
        BY DEF AppPrints
  <1>2. envRes.at = "given" /\ envRes.env \in [EnvKeys -> EnvValues]
        BY DEF AppPrints, EnvInv, EnvTypes, EnvResolutions
  <1>3. k \in envRes.secret => RedactLogText({envRes.env[k]}) = {}
        BY DEF RedactLogText
  <1>4. k \notin envRes.secret => envRes.env[k] \in {Unset, ManifestValue, ReservedValue}
        BY <1>2 DEF EnvInv, ResOK
  <1>5. envLog' \subseteq {Unset, ManifestValue, ReservedValue}
        BY <1>1, <1>3, <1>4 DEF RedactLogText, EnvInv, ResOK
  <1>6. envLog' \subseteq EnvValues
        BY <1>5, EnvValuesTyped
  <1>7. ResOK' /\ EnvDelivered'
        BY <1>0, <1>2, <1>5 DEF EnvInv, ResOK, EnvDelivered
  <1> QED BY <1>0, <1>6, <1>7, EnvResMoves

\* Every step keeps the invariant.
LEMMA EnvInvStep == EnvInv /\ [EnvNext]_envVars => EnvInv'
  <1> SUFFICES ASSUME EnvInv, [EnvNext]_envVars PROVE EnvInv'
      OBVIOUS
  <1>1. CASE UNCHANGED envVars
    <2>1. envCall' \in [EnvCalls -> EnvEdits] /\ hasProject' \in BOOLEAN
          BY <1>1 DEF envVars, EnvInv, EnvTypes
    <2> QED BY <1>1, <2>1, EnvEditMoves DEF envVars
  <1>2. ASSUME NEW k \in EnvKeys, NEW b \in BOOLEAN, NEW r \in BOOLEAN, CreateEnvVar(k, b, r) PROVE EnvInv'
        BY <1>2, EnvCreates
  <1>3. ASSUME NEW c \in EnvCalls,
               \/ \E k \in EnvKeys : LookupEnvVar(c, k, "update") \/ LookupEnvVar(c, k, "delete")
               \/ \E ks \in SUBSET EnvKeys : SetSiteEnvVars(c, ks)
               \/ SetLooksUp(c) \/ EnvCallFails(c)
        PROVE  EnvInv'
        BY <1>3, EnvLookups
  <1>4. ASSUME NEW c \in EnvCalls,
               (\E b, r \in BOOLEAN : UpdateEnvVar(c, b, r)) \/ DeleteEnvVar(c) \/ SetWrites(c)
        PROVE  EnvInv'
        BY <1>4, EnvEditSteps
  <1>5. ASSUME \/ AttachProject
               \/ \E k \in EnvKeys : CreateSecret(k) \/ UpdateSecret(k) \/ DeleteSecret(k)
               \/ MigrateSite \/ ValidateRows \/ EnsureDefaultFolder \/ MarkDone \/ ReturnReport \/ MigrationDies
               \/ \E k \in EnvKeys : MigrateKey(k)
        PROVE  EnvInv'
        BY <1>5, EnvAttaches, EnvSecretSteps, EnvMigrates, EnvValidates, EnvMigSteps, EnvMigratesKey
  <1>6. ASSUME \/ \E k \in EnvKeys : ReadSecretValue(k)
               \/ \E scope \in {"build", "runtime"} : ResolveBegins(scope)
               \/ ResolveSiteEnvVars \/ ResolveFails \/ AppPrints
        PROVE  EnvInv'
        BY <1>6, EnvReads, EnvResolves, EnvGives, EnvPrints
  <1> QED BY <1>1, <1>2, <1>3, <1>4, <1>5, <1>6 DEF EnvNext

\* A site's finished migration holds every runtime row not edited since it was
\* read, unless its secret was edited since, or has it on a report that only a cut
\* between the checkpoint and the report loses; a deployment is given for each key the platform's, the
\* row's or the secret's value in that order, unless the row or the secret
\* changed meanwhile; and no stored value it was given reaches the log
\* (components/backup/legacy_migration.go: migrateSite;
\* components/deploy/envresolver.go: ResolveOptions).
THEOREM EnvironmentsResolved == EnvSpec => [](EnvTypeOK /\ EnvCorrect)
  <1> QED BY EnvInvCorrect, EnvInvInit, EnvInvStep, PTL DEF EnvSpec

-----------------------------------------------------------------------------
(* Access to the secrets.                                                  *)

\* What a request must have been found to hold before it acts.
Rights == {"credential", "right", "project"}
\* A request through REST or MCP and where it is.
SecRequests == [at : {"idle", "owns", "role", "limit", "target", "folder", "act", "create", "created", "updated",
                       "deleted", "audit", "done"},
         who : Callers \cup {"none"}, via : {"rest", "mcp"}, op : RestOps \cup McpOps, window : 0 .. MaxWindows]
\* The tokens of a caller in a window.
Buckets == [tokens : 0 .. MutationLimit, window : 0 .. MaxWindows, open : BOOLEAN]
\* The audit log: its rows, those to be written, those lost, and the requests that failed.
Audits == [rows : SUBSET SecCalls, pending : SUBSET SecCalls, lost : SUBSET SecCalls, failed : SUBSET SecCalls]
\* The places of a mutation whose transaction has been tried, and of one that committed.
Tried == {"create", "created", "updated", "deleted"}
Acted == {"created", "updated", "deleted", "audit"}

\* The types.
SecTypes ==
    /\ standing \in [Callers -> Standings]
    /\ project \in BOOLEAN /\ siteBound \in BOOLEAN /\ secret \in BOOLEAN
    /\ secCall \in [SecCalls -> SecRequests]
    /\ bucket \in [Callers -> Buckets]
    /\ window \in 0 .. MaxWindows /\ grants \in 0 .. MaxGrants
    /\ audit \in Audits
    /\ held \in [SecCalls -> SUBSET Rights]
    /\ did \subseteq SecCalls

\* How far a request has been let, and what its caller has held: everything it holds
\* now, and everything it has been checked for.
Underway(c) ==
    LET ask == secCall[c]
    IN  /\ ask.who \in Callers
        /\ Holdings(ask) \subseteq held[c] /\ "credential" \in held[c]
        /\ ask.via = "rest" => KindOfCaller[ask.who] # "sitekey" /\ ask.op \in RestOps
        /\ ask.via = "mcp" => "right" \in held[c]
        /\ ask.at \in {"owns", "role", "limit"} => ask.via = "rest"
        /\ ask.at \in {"target", "create"} => ask.via = "mcp"
        /\ ask.at \notin {"owns", "target"} => "project" \in held[c]
        /\ ask.at \notin {"owns", "role", "target"} => "right" \in held[c]

\* A request on its way has passed the checks before its place, and one that
\* acted passed them all; only a mutation has something to commit.
CallOK(c) ==
    /\ Active(c) => Underway(c)
    /\ c \in did => secCall[c].at \in Tried \cup Acted \cup {"done"} /\ held[c] = Rights
    /\ secCall[c].at \in Acted => c \in did
    /\ secCall[c].at \in Tried => secCall[c].op \in Mutations

\* The mutations a caller has been charged for in a window: those past the limiter.
Charges(ask, w, n) ==
    /\ ask.who = w /\ ask.window = n /\ ask.via = "rest" /\ ask.op \in Mutations
    /\ ask.at \notin {"idle", "owns", "role", "limit"}
\* The requests that took a token of the caller in the window.
Charged(w, n) == {c \in SecCalls : Charges(secCall[c], w, n)}

\* The bucket of a caller accounts for the charges of its window, and has none of a
\* later window.
CountOK(w) ==
    /\ \A n \in 0 .. MaxWindows : Cardinality(Charged(w, n)) <= MutationLimit
    /\ \A n \in 0 .. MaxWindows : Charged(w, n) # {} => bucket[w].open /\ n <= bucket[w].window
    /\ bucket[w].open => Cardinality(Charged(w, bucket[w].window)) + bucket[w].tokens <= MutationLimit
    /\ bucket[w].window <= window

\* What was done through REST and is over is in the audit log, about to be
\* written, lost or answered with an error, and nothing else is in the log.
AuditOK ==
    /\ \A c \in did : secCall[c].at = "done" /\ secCall[c].via = "rest" /\ secCall[c].op # "describe" =>
         c \in audit.rows \cup audit.pending \cup audit.lost \cup audit.failed
    /\ \A c \in audit.rows \cup audit.pending :
         c \in did /\ secCall[c].via = "rest" /\ secCall[c].op # "describe" /\ secCall[c].at = "done"
    /\ \A c \in audit.failed : c \in did /\ secCall[c].op \in Mutations /\ secCall[c].at = "done"
    /\ audit.failed \cap (audit.rows \cup audit.pending) = {}

\* The inductive invariant.
SecInv ==
    /\ SecTypes /\ AuditOK
    /\ \A c \in SecCalls : CallOK(c)
    /\ grants = 0 => \A w \in Callers : CountOK(w)

----------------------------------------------------------------------------

\* The invariant gives the property.
LEMMA SecInvCorrect == SecInv => SecTypeOK /\ SecretsCorrect
  <1> SUFFICES ASSUME SecInv PROVE SecTypeOK /\ SecretsCorrect
      OBVIOUS
  <1>1. SecTypeOK
        BY DEF SecInv, SecTypes, SecTypeOK, SecRequests, Buckets, Audits, Rights
  <1>2. AccessEarned
        BY DEF SecInv, CallOK, AccessEarned, Rights, SecTypes
  <1>3. ASSUME grants = 0, NEW w \in Callers, NEW n \in 0 .. MaxWindows
        PROVE  Cardinality({c \in did : /\ secCall[c].who = w /\ secCall[c].window = n
                                        /\ secCall[c].via = "rest" /\ secCall[c].op \in Mutations})
                 <= MutationLimit
    <2> DEFINE T == {c \in did : /\ secCall[c].who = w /\ secCall[c].window = n
                                 /\ secCall[c].via = "rest" /\ secCall[c].op \in Mutations}
               S == Charged(w, n)
    <2>1. T \in SUBSET S
          BY DEF SecInv, SecTypes, CallOK, Charged, Charges, Tried, Acted
    <2>2. IsFiniteSet(S)
      <3>1. S \in SUBSET SecCalls
            BY DEF Charged
      <3> QED BY <3>1, SecBounds, FS_Subset
    <2>3. Cardinality(S) <= MutationLimit /\ MutationLimit \in Nat
          BY <1>3, SecBounds DEF SecInv, CountOK
    <2> HIDE DEF S, T
    <2>4. Cardinality(T) <= Cardinality(S) /\ Cardinality(T) \in Nat /\ Cardinality(S) \in Nat
          BY <2>1, <2>2, FS_Subset, FS_CardinalityType
    <2>5. Cardinality(T) <= MutationLimit
          BY <2>3, <2>4
    <2> QED BY <2>5 DEF T
  <1>4. {c \in did : secCall[c].at = "done" /\ secCall[c].via = "rest" /\ secCall[c].op # "describe"}
          \subseteq audit.rows \cup audit.pending \cup audit.lost \cup audit.failed
        BY DEF SecInv, AuditOK
  <1>5. /\ audit.rows \subseteq {c \in did : secCall[c].op # "describe" /\ secCall[c].via = "rest"}
        /\ audit.failed \subseteq {c \in did : secCall[c].op \in Mutations}
        /\ audit.failed \cap (audit.rows \cup audit.pending) = {}
        BY DEF SecInv, AuditOK
  <1> QED BY <1>1, <1>2, <1>3, <1>4, <1>5 DEF SecretsCorrect, SecretsAccountable

\* The request that is not there.
LEMMA NoSecCallTyped ==
    /\ NoSecCall \in SecRequests /\ NoSecCall.at = "idle" /\ NoSecCall.op \notin Mutations
  BY SecBounds DEF NoSecCall, SecRequests, RestOps, Mutations

\* The bucket that is not there.
LEMMA NoBucketTyped == NoBucket \in Buckets /\ ~NoBucket.open /\ NoBucket.window = 0
  BY SecBounds DEF NoBucket, Buckets

\* The invariant holds at the start.
LEMMA SecInvInit == SecInit => SecInv
  <1> SUFFICES ASSUME SecInit PROVE SecInv
      OBVIOUS
  <1>1. SecTypes
    <2>1. secCall \in [SecCalls -> SecRequests] /\ bucket \in [Callers -> Buckets]
          BY NoSecCallTyped, NoBucketTyped DEF SecInit
    <2>2. audit \in Audits
          BY DEF SecInit, Audits
    <2>3. window \in 0 .. MaxWindows /\ grants \in 0 .. MaxGrants
          BY SecBounds DEF SecInit
    <2>4. standing \in [Callers -> Standings]
          BY DEF SecInit, Standings
    <2>5. held \in [SecCalls -> SUBSET Rights] /\ did \subseteq SecCalls
          BY DEF SecInit
    <2> QED BY <2>1, <2>2, <2>3, <2>4, <2>5 DEF SecInit, SecTypes
  <1>2. \A c \in SecCalls : secCall[c].at = "idle" /\ secCall[c].op \notin Mutations
        BY NoSecCallTyped DEF SecInit
  <1>3. \A c \in SecCalls : CallOK(c)
        BY <1>2 DEF SecInit, CallOK, Active, Tried, Acted
  <1>4. AuditOK
        BY DEF SecInit, AuditOK
  <1>5. ASSUME NEW w \in Callers PROVE CountOK(w)
    <2>1. \A n : Charged(w, n) = {}
          BY <1>2 DEF Charged, Charges
    <2>2. ~bucket[w].open /\ bucket[w].window = 0 /\ window = 0
          BY NoBucketTyped DEF SecInit
    <2> QED BY <2>1, <2>2, FS_EmptySet, SecBounds DEF CountOK
  <1> QED BY <1>1, <1>3, <1>4, <1>5 DEF SecInv

\* A step that charges nobody keeps the account.
LEMMA CountKeeps ==
    ASSUME NEW w \in Callers, CountOK(w), SecTypes, SecTypes', bucket'[w] = bucket[w], window <= window',
           \A c \in SecCalls, n \in 0 .. MaxWindows : Charges(secCall[c], w, n)' => Charges(secCall[c], w, n)
    PROVE  CountOK(w)'
  <1>1. ASSUME NEW n \in 0 .. MaxWindows
        PROVE  /\ Charged(w, n)' \subseteq Charged(w, n)
               /\ Cardinality(Charged(w, n)') <= Cardinality(Charged(w, n))
               /\ Cardinality(Charged(w, n)') \in Nat /\ Cardinality(Charged(w, n)) \in Nat
    <2> DEFINE S == Charged(w, n)
               T == Charged(w, n)'
    <2>1. T \in SUBSET S
          BY DEF Charged
    <2>2. IsFiniteSet(S)
      <3>1. S \in SUBSET SecCalls
            BY DEF Charged
      <3> QED BY <3>1, SecBounds, FS_Subset
    <2> HIDE DEF S, T
    <2>3. Cardinality(T) <= Cardinality(S) /\ Cardinality(T) \in Nat /\ Cardinality(S) \in Nat
          BY <2>1, <2>2, FS_Subset, FS_CardinalityType
    <2> QED BY <2>1, <2>3 DEF S, T
  <1>2. bucket[w] \in Buckets /\ MutationLimit \in Nat /\ window \in Nat /\ window' \in Nat
        BY SecBounds DEF SecTypes
  <1>3. bucket[w].window \in 0 .. MaxWindows /\ bucket[w].window \in Nat /\ bucket[w].tokens \in Nat
        BY <1>2, SecBounds DEF Buckets
  <1> QED BY <1>1, <1>2, <1>3 DEF CountOK

\* A step of one request.
LEMMA SecCallStep ==
    ASSUME SecInv, NEW c \in SecCalls, NEW o \in SecRequests, SecGoes(c, o),
           did \subseteq did', did' \subseteq did \cup {c}, secret' \in BOOLEAN,
           held' \in [SecCalls -> SUBSET Rights], \A d \in SecCalls \ {c} : held'[d] = held[d],
           CallOK(c)', audit' \in Audits, AuditOK', bucket' \in [Callers -> Buckets],
           grants = 0 => \A w \in Callers : CountOK(w)',
           UNCHANGED <<standing, project, siteBound, window, grants>>
    PROVE  SecInv'
  <1>1. secCall' \in [SecCalls -> SecRequests] /\ \A d \in SecCalls \ {c} : secCall'[d] = secCall[d]
        BY DEF SecInv, SecTypes, SecGoes
  <1>2. SecTypes'
        BY <1>1 DEF SecInv, SecTypes
  <1>3. ASSUME NEW d \in SecCalls PROVE CallOK(d)'
    <2>1. CASE d # c
          BY <1>1, <2>1 DEF SecInv, CallOK, Active, Underway, Holdings, Role, Owns, Scoped
    <2> QED BY <2>1
  <1> QED BY <1>2, <1>3 DEF SecInv

\* A request that has not acted moves on, or ends, and one that has acted goes on; none
\* is charged.
LEMMA SecQuietStep ==
    ASSUME SecInv, NEW c \in SecCalls, NEW o \in SecRequests, SecGoes(c, o),
           secCall[c].at # "done",
           c \in did => o.via = secCall[c].via /\ o.op = secCall[c].op /\ o.at # "done",
           held' \in [SecCalls -> SUBSET Rights], \A d \in SecCalls \ {c} : held'[d] = held[d],
           CallOK(c)',
           \A w \in Callers, n \in 0 .. MaxWindows : Charges(o, w, n) => Charges(secCall[c], w, n),
           UNCHANGED <<standing, project, siteBound, secret, bucket, window, audit, grants, did>>
    PROVE  SecInv'
  <1>1. /\ secCall' \in [SecCalls -> SecRequests] /\ secCall'[c] = o
        /\ \A d \in SecCalls \ {c} : secCall'[d] = secCall[d]
        BY DEF SecInv, SecTypes, SecGoes
  <1>2. SecTypes'
        BY <1>1 DEF SecInv, SecTypes
  <1>3. AuditOK'
        BY <1>1 DEF SecInv, AuditOK, SecTypes, Audits
  <1>4. ASSUME grants = 0, NEW w \in Callers PROVE CountOK(w)'
    <2>1. ASSUME NEW d \in SecCalls, NEW n \in 0 .. MaxWindows, Charges(secCall[d], w, n)'
          PROVE  Charges(secCall[d], w, n)
          BY <1>1, <2>1 DEF Charges
    <2>2. window <= window' /\ SecTypes /\ CountOK(w)
          BY <1>4, SecBounds DEF SecInv, SecTypes
    <2> QED BY <1>2, <2>1, <2>2, CountKeeps
  <1>5. /\ did \subseteq did' /\ did' \subseteq did \cup {c} /\ secret' \in BOOLEAN /\ audit' \in Audits
        /\ bucket' \in [Callers -> Buckets]
        BY DEF SecInv, SecTypes
  <1> QED BY <1>3, <1>4, <1>5, SecCallStep

\* What becomes of a request that ends without having acted.
LEMMA SecEndsStep ==
    ASSUME SecInv, NEW c \in SecCalls, Active(c), c \notin did, SecEnds(c),
           UNCHANGED <<standing, project, siteBound, secret, bucket, window, audit, grants, held, did>>
    PROVE  SecInv'
  <1> DEFINE o == [NoSecCall EXCEPT !.at = "done"]
  <1>1. o \in SecRequests /\ o.at = "done" /\ o.op \notin Mutations
    <2> HIDE DEF NoSecCall
    <2> QED BY NoSecCallTyped DEF SecRequests
  <1>2. SecGoes(c, o)
        BY DEF SecEnds
  <1> HIDE DEF o
  <1>3. secCall'[c] = o
        BY <1>2 DEF SecGoes, SecInv, SecTypes
  <1>4. CallOK(c)'
        BY <1>1, <1>3 DEF CallOK, Active, Tried, Acted
  <1>5. \A w \in Callers, n \in 0 .. MaxWindows : ~Charges(o, w, n)
        BY <1>1 DEF Charges
  <1>6. held' \in [SecCalls -> SUBSET Rights] /\ \A d \in SecCalls \ {c} : held'[d] = held[d]
        BY DEF SecInv, SecTypes
  <1> QED BY <1>1, <1>2, <1>4, <1>5, <1>6, SecQuietStep DEF Active

\* A request passes a check: the check is what the next place asks for.
LEMMA SecMovesStep ==
    ASSUME SecInv, NEW c \in SecCalls, Active(c),
           NEW pc \in {"role", "limit", "folder", "act", "create", "audit"}, SecMoves(c, pc),
           c \in did => pc \in {"create", "audit"},
           UNCHANGED <<standing, project, siteBound, secret, bucket, window, audit, grants, held, did>>,
           pc \in {"role", "limit"} => secCall[c].via = "rest",
           pc = "create" => secCall[c].via = "mcp" /\ secCall[c].op \in Mutations,
           pc = "audit" => c \in did,
           "project" \in held[c],
           pc # "role" => "right" \in held[c],
           pc \in {"folder", "act", "audit"} /\ secCall[c].via = "rest" /\ secCall[c].op \in Mutations =>
             secCall[c].at \notin {"owns", "role", "limit"}
    PROVE  SecInv'
  <1> DEFINE o == [secCall[c] EXCEPT !.at = pc]
  <1>0. secCall[c] \in SecRequests /\ secCall \in [SecCalls -> SecRequests]
        BY DEF SecInv, SecTypes
  <1>1. /\ o \in SecRequests /\ o.at = pc /\ o.who = secCall[c].who /\ o.via = secCall[c].via
        /\ o.op = secCall[c].op /\ o.window = secCall[c].window
        BY <1>0 DEF SecRequests
  <1>2. SecGoes(c, o)
        BY DEF SecMoves
  <1> HIDE DEF o
  <1>3. secCall'[c] = o
        BY <1>0, <1>2 DEF SecGoes
  <1>4. Holdings(secCall[c])' = Holdings(secCall[c])
        BY <1>1, <1>3 DEF Holdings, Role, Owns, Scoped
  <1>5. Underway(c)
        BY DEF SecInv, CallOK
  <1>6. Underway(c)'
        BY <1>1, <1>3, <1>4, <1>5 DEF Underway
  <1>7. CallOK(c)'
        BY <1>1, <1>3, <1>6 DEF SecInv, CallOK, Tried, Acted
  <1>8. ASSUME NEW w \in Callers, NEW n \in 0 .. MaxWindows, Charges(o, w, n) PROVE Charges(secCall[c], w, n)
        BY <1>1, <1>5, <1>8 DEF Charges, Active, Underway
  <1>9. held' \in [SecCalls -> SUBSET Rights] /\ \A d \in SecCalls \ {c} : held'[d] = held[d]
        BY DEF SecInv, SecTypes
  <1> QED BY <1>1, <1>2, <1>7, <1>8, <1>9, SecQuietStep DEF Active

\* A request is answered with an error: what it has committed has no row and gets none.
LEMMA SecErrsStep ==
    ASSUME SecInv, NEW c \in SecCalls, Active(c), secCall[c].at # "audit", SecErrs(c),
           UNCHANGED <<standing, project, siteBound, secret, bucket, window, grants, held, did>>
    PROVE  SecInv'
  <1>1. SecTypes /\ AuditOK /\ CallOK(c) /\ audit \in Audits /\ secCall[c] \in SecRequests
        BY DEF SecInv, SecTypes
  <1>2. CASE c \notin did
    <2>1. audit' = [audit EXCEPT !.failed = @ \cup {}]
          BY <1>2 DEF SecErrs
    <2>2. audit' = audit
          BY <1>1, <2>1 DEF Audits
    <2> QED BY <1>2, <2>2, SecEndsStep DEF SecErrs
  <1>3. CASE c \in did
    <2> DEFINE o == [secCall[c] EXCEPT !.at = "done"]
    <2>1. /\ o \in SecRequests /\ o.at = "done" /\ o.who = secCall[c].who /\ o.via = secCall[c].via
          /\ o.op = secCall[c].op /\ o.window = secCall[c].window
          BY <1>1 DEF SecRequests
    <2>2. SecGoes(c, o)
          BY <1>3 DEF SecErrs, SecEnds
    <2> HIDE DEF o
    <2>3. /\ secCall' \in [SecCalls -> SecRequests] /\ secCall'[c] = o
          /\ \A d \in SecCalls \ {c} : secCall'[d] = secCall[d]
          BY <1>1, <2>1, <2>2 DEF SecGoes, SecTypes
    <2>4. secCall[c].at \in Tried /\ secCall[c].op \in Mutations
          BY <1>1, <1>3 DEF CallOK, Active, Tried, Acted
    <2>5. CallOK(c)'
          BY <1>1, <1>3, <2>1, <2>3 DEF CallOK, Active, Tried, Acted
    <2>6. /\ audit' \in Audits /\ audit'.rows = audit.rows /\ audit'.pending = audit.pending
          /\ audit'.lost = audit.lost /\ audit'.failed = audit.failed \cup {c}
      <3>1. audit' = [audit EXCEPT !.failed = @ \cup {c}]
            BY <1>3 DEF SecErrs
      <3> QED BY <1>1, <3>1 DEF Audits
    <2>7. AuditOK'
      <3>1. c \notin audit.rows \cup audit.pending
            BY <1>1 DEF AuditOK, Active
      <3>2. ASSUME NEW d \in did, secCall'[d].at = "done" /\ secCall'[d].via = "rest" /\ secCall'[d].op # "describe"
            PROVE  d \in audit'.rows \cup audit'.pending \cup audit'.lost \cup audit'.failed
        <4>1. d \in SecCalls
              BY <1>1 DEF SecTypes
        <4> QED BY <1>1, <2>3, <2>6, <3>2, <4>1 DEF AuditOK
      <3>3. ASSUME NEW d \in audit'.rows \cup audit'.pending
            PROVE  d \in did /\ secCall'[d].via = "rest" /\ secCall'[d].op # "describe" /\ secCall'[d].at = "done"
        <4>1. d \in SecCalls /\ d # c /\ d \in audit.rows \cup audit.pending
              BY <1>1, <2>6, <3>1, <3>3 DEF Audits
        <4> QED BY <1>1, <2>3, <4>1 DEF AuditOK
      <3>4. ASSUME NEW d \in audit'.failed
            PROVE  d \in did /\ secCall'[d].op \in Mutations /\ secCall'[d].at = "done"
        <4>1. CASE d = c
              BY <1>3, <2>1, <2>3, <2>4, <4>1
        <4>2. CASE d # c
          <5>1. d \in SecCalls /\ d \in audit.failed
                BY <1>1, <2>6, <3>4, <4>2 DEF Audits
          <5> QED BY <1>1, <2>3, <4>2, <5>1 DEF AuditOK
        <4> QED BY <4>1, <4>2
      <3>5. audit'.failed \cap (audit'.rows \cup audit'.pending) = {}
            BY <1>1, <2>6, <3>1 DEF AuditOK
      <3> QED BY <3>2, <3>3, <3>4, <3>5 DEF AuditOK
    <2>8. SecTypes'
          BY <1>1, <2>3, <2>6 DEF SecTypes
    <2>9. ASSUME grants = 0, NEW w \in Callers PROVE CountOK(w)'
      <3>1. ASSUME NEW d \in SecCalls, NEW n \in 0 .. MaxWindows, Charges(secCall[d], w, n)'
            PROVE  Charges(secCall[d], w, n)
            BY <2>1, <2>3, <2>4, <3>1 DEF Charges, Tried
      <3>2. window <= window' /\ CountOK(w) /\ bucket'[w] = bucket[w]
            BY <1>1, <2>9, SecBounds DEF SecInv, SecTypes
      <3> QED BY <1>1, <2>8, <3>1, <3>2, CountKeeps
    <2>10. /\ did \subseteq did' /\ did' \subseteq did \cup {c} /\ bucket' \in [Callers -> Buckets]
           /\ secret' \in BOOLEAN /\ held' \in [SecCalls -> SUBSET Rights]
           /\ \A d \in SecCalls : held'[d] = held[d]
          BY <1>1 DEF SecTypes
    <2> QED BY <2>1, <2>2, <2>5, <2>6, <2>7, <2>9, <2>10, SecCallStep
  <1> QED BY <1>2, <1>3

----------------------------------------------------------------------------

\* A request begins: what its caller holds is what it is admitted with.
LEMMA SecBegins ==
    ASSUME SecInv, NEW c \in SecCalls, NEW w \in Callers, NEW op \in RestOps \cup McpOps,
           NEW ask \in SecRequests, ask.at \in {"owns", "target"}, ask.who = w, ask.op = op,
           ask.at = "owns" => ask.via = "rest", ask.at = "target" => ask.via = "mcp",
           secCall[c].at = "idle", SecGoes(c, ask), held' = [held EXCEPT ![c] = Holdings(ask)],
           "credential" \in Holdings(ask),
           ask.via = "rest" => KindOfCaller[w] # "sitekey" /\ op \in RestOps,
           ask.via = "mcp" => "right" \in Holdings(ask) /\ op \in McpOps,
           UNCHANGED <<standing, project, siteBound, secret, bucket, window, audit, grants, did>>
    PROVE  SecInv'
  <1>1. secCall \in [SecCalls -> SecRequests] /\ held \in [SecCalls -> SUBSET Rights]
        BY DEF SecInv, SecTypes
  <1>2. secCall'[c] = ask
        BY <1>1 DEF SecGoes
  <1>3. Holdings(ask) \in SUBSET Rights
        BY DEF Holdings, Rights
  <1>4. /\ held' \in [SecCalls -> SUBSET Rights] /\ held'[c] = Holdings(ask)
        /\ \A d \in SecCalls \ {c} : held'[d] = held[d]
        BY <1>1, <1>3
  <1>5. Holdings(secCall[c])' = Holdings(ask)
        BY <1>2 DEF Holdings, Role, Owns, Scoped
  <1>6. c \notin did
        BY DEF SecInv, CallOK, Tried, Acted
  <1>7. Underway(c)'
        BY <1>2, <1>4, <1>5 DEF Underway
  <1>8. CallOK(c)'
        BY <1>2, <1>6, <1>7 DEF CallOK, Tried, Acted
  <1>9. \A x \in Callers, n \in 0 .. MaxWindows : Charges(ask, x, n) => FALSE
        BY DEF Charges, Mutations, RestOps, McpOps
  <1> QED BY <1>4, <1>6, <1>8, <1>9, SecQuietStep

\* A REST request is authenticated.
LEMMA AuthenticateStep ==
    ASSUME SecInv, NEW c \in SecCalls, NEW w \in Callers, NEW op \in RestOps, Authenticate(c, w, op)
    PROVE  SecInv'
  <1> DEFINE ask == [at |-> "owns", who |-> w, via |-> "rest", op |-> op, window |-> 0]
  <1>1. /\ ask \in SecRequests /\ ask.at = "owns" /\ ask.who = w /\ ask.op = op /\ ask.via = "rest"
        BY SecBounds DEF SecRequests
  <1>2. SecGoes(c, ask) /\ held' = [held EXCEPT ![c] = Holdings(ask)] /\ secCall[c].at = "idle"
        BY DEF Authenticate
  <1> HIDE DEF ask
  <1>3. "credential" \in Holdings(ask)
        BY <1>1 DEF Authenticate, Holdings
  <1>4. KindOfCaller[w] # "sitekey"
        BY DEF Authenticate
  <1>5. UNCHANGED <<standing, project, siteBound, secret, bucket, window, audit, grants, did>>
        BY DEF Authenticate
  <1> QED BY <1>1, <1>2, <1>3, <1>4, <1>5, SecBegins

\* A call of an MCP tool is checked against its scope.
LEMMA EnforceToolAuthStep ==
    ASSUME SecInv, NEW c \in SecCalls, NEW w \in Callers, NEW op \in McpOps, EnforceToolAuth(c, w, op)
    PROVE  SecInv'
  <1> DEFINE ask == [at |-> "target", who |-> w, via |-> "mcp", op |-> op, window |-> 0]
  <1>1. /\ ask \in SecRequests /\ ask.at = "target" /\ ask.who = w /\ ask.op = op /\ ask.via = "mcp"
        BY SecBounds DEF SecRequests
  <1>2. SecGoes(c, ask) /\ held' = [held EXCEPT ![c] = Holdings(ask)] /\ secCall[c].at = "idle"
        BY DEF EnforceToolAuth
  <1> HIDE DEF ask
  <1>3. "credential" \in Holdings(ask) /\ "right" \in Holdings(ask)
        BY <1>1 DEF EnforceToolAuth, AuthenticatePost, Holdings
  <1>5. UNCHANGED <<standing, project, siteBound, secret, bucket, window, audit, grants, did>>
        BY DEF EnforceToolAuth
  <1> QED BY <1>1, <1>2, <1>3, <1>5, SecBegins

\* Where a request is, it has not acted, and it holds what its caller holds.
LEMMA UnderwayFacts ==
    ASSUME SecInv, NEW c \in SecCalls, Active(c), secCall[c].at \notin Tried \cup Acted
    PROVE  /\ c \notin did /\ Underway(c) /\ secCall[c] \in SecRequests
  BY DEF SecInv, CallOK, SecTypes, Active

\* The project is the caller's.
LEMMA RequireProjectOwnershipStep ==
    ASSUME SecInv, NEW c \in SecCalls, RequireProjectOwnership(c) PROVE SecInv'
  <1>1. Active(c) /\ secCall[c].at # "audit"
        BY DEF RequireProjectOwnership, Active
  <1>2. c \notin did /\ Underway(c)
        BY <1>1, UnderwayFacts DEF Tried, Acted, RequireProjectOwnership
  <1>3. UNCHANGED <<standing, project, siteBound, secret, bucket, window, audit, grants, held, did>>
        BY DEF RequireProjectOwnership
  <1>4. CASE ~project
        BY <1>1, <1>2, <1>3, <1>4, SecEndsStep DEF RequireProjectOwnership
  <1>5. CASE project
    <2>1. "project" \in held[c] /\ secCall[c].via = "rest"
          BY <1>2, <1>5 DEF Underway, Holdings, Owns, RequireProjectOwnership
    <2>2. SecMoves(c, "role")
          BY <1>5 DEF RequireProjectOwnership
    <2> QED BY <1>1, <1>2, <1>3, <2>1, <2>2, SecMovesStep
  <1> QED BY <1>4, <1>5

\* The caller's role allows the operation.
LEMMA ResolveRoleStep ==
    ASSUME SecInv, NEW c \in SecCalls, ResolveRole(c) PROVE SecInv'
  <1>1. Active(c) /\ secCall[c].at = "role"
        BY DEF ResolveRole, Active
  <1>2. c \notin did /\ Underway(c)
        BY <1>1, UnderwayFacts DEF Tried, Acted, ResolveRole
  <1>3. UNCHANGED <<standing, project, siteBound, secret, bucket, window, audit, grants, held, did>>
        BY DEF ResolveRole
  <1> DEFINE passes == KindOfCaller[secCall[c].who] = "orgkey" \/ Role(secCall[c].who)
  <1>4. CASE ~passes
        BY <1>1, <1>2, <1>3, <1>4, SecEndsStep DEF ResolveRole
  <1>5. CASE passes
    <2>1. "project" \in held[c] /\ secCall[c].via = "rest"
          BY <1>1, <1>2 DEF Underway
    <2>2. "right" \in held[c]
          BY <1>2, <1>5, <2>1 DEF Underway, Holdings
    <2>3. CASE secCall[c].op \in Mutations
      <3>1. SecMoves(c, "limit")
            BY <1>5, <2>3 DEF ResolveRole
      <3> QED BY <1>1, <1>2, <1>3, <2>1, <2>2, <3>1, SecMovesStep
    <2>4. CASE secCall[c].op \notin Mutations
      <3>1. SecMoves(c, "folder")
            BY <1>5, <2>4 DEF ResolveRole
      <3> QED BY <1>1, <1>2, <1>3, <2>1, <2>2, <2>4, <3>1, SecMovesStep
    <2> QED BY <2>3, <2>4
  <1> QED BY <1>4, <1>5

\* The target of an MCP call is the caller's.
LEMMA AuthorizeProjectTargetStep ==
    ASSUME SecInv, NEW c \in SecCalls, AuthorizeProjectTarget(c) PROVE SecInv'
  <1>1. Active(c) /\ secCall[c].at = "target"
        BY DEF AuthorizeProjectTarget, Active
  <1>2. c \notin did /\ Underway(c)
        BY <1>1, UnderwayFacts DEF Tried, Acted, AuthorizeProjectTarget
  <1>3. UNCHANGED <<standing, project, siteBound, secret, bucket, window, audit, grants, held, did>>
        BY DEF AuthorizeProjectTarget
  <1>4. CASE ~Owns(secCall[c].who)
        BY <1>1, <1>2, <1>3, <1>4, SecEndsStep DEF AuthorizeProjectTarget
  <1>5. CASE Owns(secCall[c].who)
    <2>1. "project" \in held[c] /\ secCall[c].via = "mcp" /\ "right" \in held[c]
          BY <1>1, <1>2, <1>5 DEF Underway, Holdings
    <2>2. SecMoves(c, "folder")
          BY <1>5 DEF AuthorizeProjectTarget
    <2> QED BY <1>1, <1>2, <1>3, <2>1, <2>2, SecMovesStep
  <1> QED BY <1>4, <1>5

\* The folder is found.
LEMMA ResolveFolderStep ==
    ASSUME SecInv, NEW c \in SecCalls, ResolveFolder(c) PROVE SecInv'
  <1>1. Active(c) /\ secCall[c].at = "folder"
        BY DEF ResolveFolder, Active
  <1>2. c \notin did /\ Underway(c)
        BY <1>1, UnderwayFacts DEF Tried, Acted, ResolveFolder
  <1>3. UNCHANGED <<standing, project, siteBound, secret, bucket, window, audit, grants, held, did>>
        BY DEF ResolveFolder
  <1>4. CASE SecEnds(c)
        BY <1>1, <1>2, <1>3, <1>4, SecEndsStep
  <1>5. CASE SecMoves(c, "act")
    <2>1. "project" \in held[c] /\ "right" \in held[c]
          BY <1>1, <1>2 DEF Underway
    <2> QED BY <1>1, <1>2, <1>3, <1>5, <2>1, SecMovesStep
  <1> QED BY <1>4, <1>5 DEF ResolveFolder

\* A request fails and changes nothing more.
LEMMA SecCallFailsStep ==
    ASSUME SecInv, NEW c \in SecCalls, SecCallFails(c) PROVE SecInv'
  BY SecErrsStep DEF SecCallFails

\* A request acts: it has been let through every check, and is not on record yet.
LEMMA SecActs ==
    ASSUME SecInv, NEW c \in SecCalls, secCall[c].at \in {"act", "create"},
           NEW pc \in Acted, SecMoves(c, pc), pc # "audit" => secCall[c].op \in Mutations,
           did' = did \cup {c}, secret' \in BOOLEAN,
           UNCHANGED <<standing, project, siteBound, bucket, window, audit, grants, held>>
    PROVE  SecInv'
  <1> DEFINE o == [secCall[c] EXCEPT !.at = pc]
  <1>0. secCall[c] \in SecRequests /\ secCall \in [SecCalls -> SecRequests] /\ Active(c) /\ Underway(c)
        BY DEF SecInv, SecTypes, CallOK, Active
  <1>1. /\ o \in SecRequests /\ o.at = pc /\ pc \notin {"idle", "done", "owns", "role", "limit", "target", "create"}
        /\ o.who = secCall[c].who /\ o.via = secCall[c].via
        /\ o.op = secCall[c].op /\ o.window = secCall[c].window
        BY <1>0 DEF SecRequests, Acted
  <1>2. SecGoes(c, o)
        BY DEF SecMoves
  <1> HIDE DEF o
  <1>3. secCall' \in [SecCalls -> SecRequests] /\ secCall'[c] = o /\ \A d \in SecCalls \ {c} : secCall'[d] = secCall[d]
        BY <1>0, <1>1, <1>2 DEF SecGoes
  <1>4. Holdings(secCall[c])' = Holdings(secCall[c])
        BY <1>1, <1>3 DEF Holdings, Role, Owns, Scoped
  <1>5. Underway(c)'
        BY <1>0, <1>1, <1>3, <1>4 DEF Underway
  <1>6. held[c] = Rights /\ held' \in [SecCalls -> SUBSET Rights] /\ \A d \in SecCalls : held'[d] = held[d]
    <2>1. held[c] \in SUBSET Rights
          BY DEF SecInv, SecTypes
    <2>2. Rights \subseteq held[c]
          BY <1>0 DEF Underway, Rights
    <2> QED BY <2>1, <2>2 DEF SecInv, SecTypes
  <1>7. CallOK(c)'
        BY <1>1, <1>3, <1>5, <1>6 DEF CallOK, Tried, Acted
  <1>8. AuditOK'
        BY <1>1, <1>3, <1>0 DEF SecInv, AuditOK, SecTypes, Audits, Active
  <1>9. SecTypes'
    <2>1. did' \subseteq SecCalls
          BY DEF SecInv, SecTypes
    <2> QED BY <1>3, <1>6, <2>1 DEF SecInv, SecTypes
  <1>10. ASSUME grants = 0, NEW w \in Callers PROVE CountOK(w)'
    <2>1. ASSUME NEW d \in SecCalls, NEW n \in 0 .. MaxWindows, Charges(secCall[d], w, n)'
          PROVE  Charges(secCall[d], w, n)
          BY <1>1, <1>3, <2>1 DEF Charges
    <2>2. window <= window' /\ SecTypes /\ CountOK(w) /\ bucket'[w] = bucket[w]
          BY <1>10, SecBounds DEF SecInv, SecTypes
    <2> QED BY <1>9, <2>1, <2>2, CountKeeps
  <1>11. /\ did \subseteq did' /\ did' \subseteq did \cup {c} /\ audit' \in Audits
         /\ bucket' \in [Callers -> Buckets]
        BY DEF SecInv, SecTypes
  <1> QED BY <1>1, <1>2, <1>6, <1>7, <1>8, <1>10, <1>11, SecCallStep

\* A request acts: it has passed every check of its way.
LEMMA ManagesStep ==
    ASSUME SecInv, NEW c \in SecCalls, NEW via, NEW op, NEW fits, NEW after \in BOOLEAN,
           Manages(c, via, op, fits, after)
    PROVE  SecInv'
  <1>1. secCall[c].at = "act" /\ UNCHANGED <<standing, project, siteBound, bucket, window, audit, grants, held>>
        BY DEF Manages
  <1>2. CASE project /\ fits /\ secret' = after /\ did' = did \cup {c} /\ SecMoves(c, Committed(op))
    <2>1. secCall[c].op = op /\ Committed(op) \in Acted
          BY DEF Manages, Committed, Acted
    <2>2. Committed(op) # "audit" => op \in Mutations
          BY DEF Committed, Mutations
    <2> QED BY <1>1, <1>2, <2>1, <2>2, SecActs
  <1>3. CASE SecEnds(c) /\ UNCHANGED <<secret, did>>
    <2>1. c \notin did /\ Active(c)
          BY <1>1, UnderwayFacts DEF Active, Tried, Acted
    <2> QED BY <1>1, <1>3, <2>1, SecEndsStep
  <1> QED BY <1>2, <1>3 DEF Manages

\* SetProjectSecret acts, or goes on to create.
LEMMA SetProjectSecretStep ==
    ASSUME SecInv, NEW c \in SecCalls, SetProjectSecret(c) PROVE SecInv'
  <1>1. CASE Manages(c, "mcp", "set", TRUE, TRUE)
        BY <1>1, ManagesStep
  <1>2. CASE /\ secCall[c].at = "act" /\ secCall[c].op = "set" /\ SecMoves(c, "create")
             /\ UNCHANGED <<standing, project, siteBound, secret, bucket, window, audit, grants, held, did>>
    <2>1. c \notin did /\ Underway(c) /\ secCall[c] \in SecRequests /\ Active(c)
          BY <1>2, UnderwayFacts DEF Active, Tried, Acted
    <2>2. secCall[c].via = "mcp" /\ "project" \in held[c] /\ "right" \in held[c] /\ secCall[c].op \in Mutations
          BY <1>2, <2>1 DEF Underway, RestOps, SecRequests, Mutations
    <2> QED BY <1>2, <2>1, <2>2, SecMovesStep
  <1> QED BY <1>1, <1>2 DEF SetProjectSecret

\* It creates what there was not to update.
LEMMA CreateAfterUpdateStep ==
    ASSUME SecInv, NEW c \in SecCalls, CreateAfterUpdate(c) PROVE SecInv'
  <1>1. secCall[c].at = "create" /\ UNCHANGED <<standing, project, siteBound, bucket, window, grants, held>>
        BY DEF CreateAfterUpdate
  <1>2. CASE project /\ ~secret
    <2>1. secCall[c].op \in Mutations /\ "created" \in Acted
          BY <1>1 DEF SecInv, CallOK, Tried, Acted
    <2>2. secret' = TRUE /\ did' = did \cup {c} /\ SecMoves(c, "created") /\ UNCHANGED audit
          BY <1>2 DEF CreateAfterUpdate
    <2> QED BY <1>1, <2>1, <2>2, SecActs
  <1>3. CASE ~(project /\ ~secret)
    <2>1. SecErrs(c) /\ UNCHANGED <<secret, did>>
          BY <1>3 DEF CreateAfterUpdate
    <2> QED BY <1>1, <2>1, SecErrsStep DEF Active
  <1> QED BY <1>2, <1>3

\* It reads again what it has committed.
LEMMA GetSecretMetadataStep ==
    ASSUME SecInv, NEW c \in SecCalls, GetSecretMetadata(c) PROVE SecInv'
  <1>1. /\ secCall[c].at \in {"created", "updated", "deleted"} /\ secCall[c].at # "audit"
        /\ Active(c) /\ c \in did /\ Underway(c) /\ secCall[c] \in SecRequests
        BY DEF GetSecretMetadata, SecInv, CallOK, Active, Acted, SecTypes
  <1>2. UNCHANGED <<standing, project, siteBound, secret, bucket, window, grants, held, did>>
        BY DEF GetSecretMetadata
  <1>3. "project" \in held[c] /\ "right" \in held[c]
        BY <1>1 DEF Underway
  <1>4. CASE SecMoves(c, "audit") /\ UNCHANGED audit
        BY <1>1, <1>2, <1>3, <1>4, SecMovesStep
  <1>5. CASE secCall[c].op = "set" /\ SecMoves(c, "create") /\ UNCHANGED audit
    <2>1. secCall[c].via = "mcp" /\ secCall[c].op \in Mutations
          BY <1>1, <1>5 DEF Underway, RestOps, SecRequests, Mutations
    <2> QED BY <1>1, <1>2, <1>3, <1>5, <2>1, SecMovesStep
  <1>6. CASE SecErrs(c)
        BY <1>1, <1>2, <1>6, SecErrsStep
  <1> QED BY <1>4, <1>5, <1>6 DEF GetSecretMetadata

\* The handler hands the entry to the audit log.
LEMMA RecordAuditStep ==
    ASSUME SecInv, NEW c \in SecCalls, RecordAudit(c) PROVE SecInv'
  <1> DEFINE o == [secCall[c] EXCEPT !.at = "done"]
  <1>0. secCall[c] \in SecRequests /\ secCall \in [SecCalls -> SecRequests] /\ secCall[c].at = "audit" /\ c \in did
        BY DEF SecInv, SecTypes, CallOK, RecordAudit, Acted
  <1>1. /\ o \in SecRequests /\ o.at = "done" /\ o.who = secCall[c].who /\ o.via = secCall[c].via
        /\ o.op = secCall[c].op /\ o.window = secCall[c].window
        BY <1>0 DEF SecRequests
  <1>2. SecGoes(c, o)
        BY <1>0 DEF RecordAudit, SecEnds
  <1> HIDE DEF o
  <1>3. secCall' \in [SecCalls -> SecRequests] /\ secCall'[c] = o /\ \A d \in SecCalls \ {c} : secCall'[d] = secCall[d]
        BY <1>0, <1>1, <1>2 DEF SecGoes
  <1>4. UNCHANGED <<standing, project, siteBound, secret, bucket, window, grants, held, did>>
        BY DEF RecordAudit
  <1>5. CallOK(c)'
        BY <1>0, <1>1, <1>3, <1>4 DEF SecInv, CallOK, Active, Tried, Acted
  <1>6. audit \in Audits
        BY DEF SecInv, SecTypes
  <1>7. /\ audit' \in Audits /\ audit'.rows = audit.rows /\ audit'.lost = audit.lost /\ audit'.failed = audit.failed
        /\ \/ /\ secCall[c].via = "rest" /\ secCall[c].op # "describe"
              /\ audit'.pending = audit.pending \cup {c}
           \/ /\ ~(secCall[c].via = "rest" /\ secCall[c].op # "describe")
              /\ audit'.pending = audit.pending
    <2>1. CASE secCall[c].via = "rest" /\ secCall[c].op # "describe"
      <3>1. audit' = [audit EXCEPT !.pending = @ \cup {c}]
            BY <2>1 DEF RecordAudit
      <3> QED BY <1>6, <2>1, <3>1 DEF Audits
    <2>2. CASE ~(secCall[c].via = "rest" /\ secCall[c].op # "describe")
      <3>1. audit' = audit
            BY <2>2 DEF RecordAudit
      <3> QED BY <1>6, <2>2, <3>1
    <2> QED BY <2>1, <2>2
  <1>8. AuditOK'
    <2>1. AuditOK
          BY DEF SecInv
    <2>2. ASSUME NEW d \in did, secCall'[d].at = "done" /\ secCall'[d].via = "rest" /\ secCall'[d].op # "describe"
          PROVE  d \in audit'.rows \cup audit'.pending \cup audit'.lost \cup audit'.failed
      <3>1. d \in SecCalls
            BY DEF SecInv, SecTypes
      <3> QED BY <1>0, <1>1, <1>3, <1>7, <2>1, <2>2, <3>1 DEF AuditOK
    <2>3. ASSUME NEW d \in audit'.rows \cup audit'.pending
          PROVE  d \in did /\ secCall'[d].via = "rest" /\ secCall'[d].op # "describe" /\ secCall'[d].at = "done"
      <3>1. CASE d = c
            BY <1>0, <1>1, <1>3, <1>7, <2>1, <2>3, <3>1 DEF AuditOK
      <3>2. CASE d # c
        <4>1. d \in audit.rows \cup audit.pending
              BY <1>7, <2>3, <3>2
        <4>2. d \in SecCalls
              BY <4>1, <1>6 DEF Audits
        <4> QED BY <1>3, <2>1, <3>2, <4>1, <4>2 DEF AuditOK
      <3> QED BY <3>1, <3>2
    <2>4. c \notin audit.failed
          BY <1>0, <2>1 DEF AuditOK
    <2>5. ASSUME NEW d \in audit'.failed
          PROVE  d \in did /\ secCall'[d].op \in Mutations /\ secCall'[d].at = "done"
      <3>1. d \in SecCalls /\ d \in audit.failed
            BY <1>6, <1>7, <2>5 DEF Audits
      <3> QED BY <1>3, <2>1, <2>4, <3>1 DEF AuditOK
    <2>6. audit'.failed \cap (audit'.rows \cup audit'.pending) = {}
          BY <1>7, <2>1, <2>4 DEF AuditOK
    <2> QED BY <1>4, <2>2, <2>3, <2>5, <2>6 DEF AuditOK
  <1>9. SecTypes'
        BY <1>3, <1>4, <1>7 DEF SecInv, SecTypes
  <1>10. ASSUME grants = 0, NEW w \in Callers PROVE CountOK(w)'
    <2>1. ASSUME NEW d \in SecCalls, NEW n \in 0 .. MaxWindows, Charges(secCall[d], w, n)'
          PROVE  Charges(secCall[d], w, n)
          BY <1>0, <1>1, <1>3, <2>1 DEF Charges
    <2>2. window <= window' /\ SecTypes /\ CountOK(w) /\ bucket'[w] = bucket[w]
          BY <1>4, <1>10, SecBounds DEF SecInv, SecTypes
    <2> QED BY <1>9, <2>1, <2>2, CountKeeps
  <1>11. /\ did \subseteq did' /\ did' \subseteq did \cup {c} /\ bucket' \in [Callers -> Buckets]
         /\ secret' \in BOOLEAN /\ held' \in [SecCalls -> SUBSET Rights]
         /\ \A d \in SecCalls : held'[d] = held[d]
        BY <1>4 DEF SecInv, SecTypes
  <1> QED BY <1>1, <1>2, <1>4, <1>5, <1>7, <1>8, <1>10, <1>11, SecCallStep

\* The audit log writes an entry.
LEMMA WriteAuditStep ==
    ASSUME SecInv, NEW c \in SecCalls, WriteAudit(c) PROVE SecInv'
  <1>1. audit \in Audits /\ c \in audit.pending
        BY DEF SecInv, SecTypes, WriteAudit
  <1>2. /\ audit' \in Audits /\ audit'.failed = audit.failed
        /\ audit'.rows \cup audit'.pending \subseteq audit.rows \cup audit.pending
        /\ audit.rows \cup audit.pending \cup audit.lost \subseteq audit'.rows \cup audit'.pending \cup audit'.lost
    <2>1. CASE audit' = [audit EXCEPT !.pending = @ \ {c}, !.rows = @ \cup {c}]
      <3>1. /\ audit' \in Audits /\ audit'.failed = audit.failed /\ audit'.rows = audit.rows \cup {c}
            /\ audit'.pending = audit.pending \ {c} /\ audit'.lost = audit.lost
            BY <1>1, <2>1 DEF Audits
      <3> QED BY <1>1, <3>1
    <2>2. CASE audit' = [audit EXCEPT !.pending = @ \ {c}, !.lost = @ \cup {c}]
      <3>1. /\ audit' \in Audits /\ audit'.failed = audit.failed /\ audit'.rows = audit.rows
            /\ audit'.pending = audit.pending \ {c} /\ audit'.lost = audit.lost \cup {c}
            BY <1>1, <2>2 DEF Audits
      <3> QED BY <1>1, <3>1
    <2> QED BY <2>1, <2>2 DEF WriteAudit
  <1>3. UNCHANGED <<standing, project, siteBound, secret, secCall, bucket, window, grants, held, did>>
        BY DEF WriteAudit
  <1>4. SecTypes'
        BY <1>2, <1>3 DEF SecInv, SecTypes
  <1>5. AuditOK'
        BY <1>2, <1>3 DEF SecInv, AuditOK
  <1>6. \A d \in SecCalls : CallOK(d)'
        BY <1>3 DEF SecInv, CallOK, Active, Underway, Holdings, Role, Owns, Scoped
  <1>7. ASSUME grants' = 0, NEW w \in Callers PROVE CountOK(w)'
        BY <1>3, <1>7 DEF SecInv, CountOK, Charged
  <1> QED BY <1>4, <1>5, <1>6, <1>7 DEF SecInv

\* The window of the rate limit passes.
LEMMA NextWindowStep ==
    ASSUME SecInv, NextWindow PROVE SecInv'
  <1>3. UNCHANGED <<standing, project, siteBound, secret, secCall, bucket, audit, grants, held, did>>
        BY DEF NextWindow
  <1>4. SecTypes'
    <2>1. window' \in 0 .. MaxWindows
          BY SecBounds DEF SecInv, SecTypes, NextWindow
    <2> QED BY <1>3, <2>1 DEF SecInv, SecTypes
  <1>5. AuditOK'
        BY <1>3 DEF SecInv, AuditOK
  <1>6. \A d \in SecCalls : CallOK(d)'
        BY <1>3 DEF SecInv, CallOK, Active, Underway, Holdings, Role, Owns, Scoped
  <1>7. ASSUME grants' = 0, NEW w \in Callers PROVE CountOK(w)'
    <2>1. \A d \in SecCalls, n \in 0 .. MaxWindows : Charges(secCall[d], w, n)' => Charges(secCall[d], w, n)
          BY <1>3
    <2>2. window <= window' /\ SecTypes /\ CountOK(w) /\ bucket'[w] = bucket[w]
          BY <1>3, <1>7, SecBounds DEF SecInv, SecTypes, NextWindow
    <2> QED BY <1>4, <2>1, <2>2, CountKeeps
  <1> QED BY <1>4, <1>5, <1>6, <1>7 DEF SecInv

\* Rights are granted or withdrawn while requests are under way.
LEMMA GrantChangesStep ==
    ASSUME SecInv, GrantChanges, standing' \in [Callers -> Standings],
           project' \in BOOLEAN, siteBound' \in BOOLEAN
    PROVE  SecInv'
  <1>1. UNCHANGED <<secret, secCall, bucket, window, audit, did>> /\ grants' = grants + 1 /\ grants < MaxGrants
        BY DEF GrantChanges
  <1>2. grants \in 0 .. MaxGrants /\ held \in [SecCalls -> SUBSET Rights]
        BY DEF SecInv, SecTypes
  <1>3. grants' \in 0 .. MaxGrants /\ grants' # 0
        BY <1>1, <1>2, SecBounds
  <1>4. ASSUME NEW c \in SecCalls
        PROVE  /\ held'[c] = IF Active(c) THEN held[c] \cup Holdings(secCall[c])' ELSE held[c]
               /\ held'[c] \in SUBSET Rights
    <2>1. held'[c] = IF Active(c) THEN held[c] \cup Holdings(secCall[c])' ELSE held[c]
          BY DEF GrantChanges
    <2>2. Holdings(secCall[c])' \in SUBSET Rights
          BY DEF Holdings, Rights
    <2> QED BY <1>2, <2>1, <2>2
  <1>5. held' \in [SecCalls -> SUBSET Rights]
    <2>1. held' = [c \in SecCalls |-> held'[c]]
          BY DEF GrantChanges
    <2> QED BY <1>4, <2>1
  <1>6. SecTypes'
        BY <1>1, <1>3, <1>5 DEF SecInv, SecTypes
  <1>7. AuditOK'
        BY <1>1 DEF SecInv, AuditOK
  <1>8. ASSUME NEW c \in SecCalls PROVE CallOK(c)'
    <2>1. CallOK(c)
          BY DEF SecInv
    <2>2. Active(c)' => Underway(c)'
          BY <1>1, <1>4, <2>1 DEF CallOK, Active, Underway
    <2>3. held[c] = Rights => held'[c] = Rights
          BY <1>4
    <2> QED BY <1>1, <2>1, <2>2, <2>3 DEF CallOK
  <1> QED BY <1>3, <1>6, <1>7, <1>8 DEF SecInv

\* The process stops and starts again: the requests end and what was to be
\* written is lost.
LEMMA RestartSecretsStep ==
    ASSUME SecInv, RestartSecrets PROVE SecInv'
  <1>1. UNCHANGED <<standing, project, siteBound, secret, window, held, did>> /\ grants' = grants + 1 /\ grants < MaxGrants
        BY DEF RestartSecrets
  <1>2. grants' \in 0 .. MaxGrants /\ grants' # 0
    <2>1. grants \in 0 .. MaxGrants
          BY DEF SecInv, SecTypes
    <2> QED BY <1>1, <2>1, SecBounds
  <1>3. ASSUME NEW c \in SecCalls
        PROVE  /\ secCall'[c] \in SecRequests
               /\ ~Active(c) => secCall'[c] = secCall[c]
               /\ Active(c) => secCall'[c].at = "done"
               /\ c \in did => secCall'[c].via = secCall[c].via /\ secCall'[c].op = secCall[c].op
    <2>1. secCall'[c] = IF Active(c)
                        THEN [(IF c \in did THEN secCall[c] ELSE NoSecCall) EXCEPT !.at = "done"]
                        ELSE secCall[c]
          BY DEF RestartSecrets
    <2>2. secCall[c] \in SecRequests /\ NoSecCall \in SecRequests
          BY NoSecCallTyped DEF SecInv, SecTypes
    <2> HIDE DEF NoSecCall
    <2>3. ASSUME NEW r \in SecRequests
          PROVE  /\ [r EXCEPT !.at = "done"] \in SecRequests /\ [r EXCEPT !.at = "done"].at = "done"
                 /\ [r EXCEPT !.at = "done"].via = r.via /\ [r EXCEPT !.at = "done"].op = r.op
          BY DEF SecRequests
    <2>4. CASE ~Active(c)
          BY <2>1, <2>2, <2>4
    <2>5. CASE Active(c) /\ c \in did
      <3>1. secCall'[c] = [secCall[c] EXCEPT !.at = "done"]
            BY <2>1, <2>5
      <3> QED BY <2>2, <2>3, <2>5, <3>1
    <2>6. CASE Active(c) /\ c \notin did
      <3>1. secCall'[c] = [NoSecCall EXCEPT !.at = "done"]
            BY <2>1, <2>6
      <3> QED BY <2>2, <2>3, <2>6, <3>1
    <2> QED BY <2>4, <2>5, <2>6
  <1>4. secCall' \in [SecCalls -> SecRequests]
    <2>1. secCall' = [c \in SecCalls |-> secCall'[c]]
          BY DEF RestartSecrets
    <2> QED BY <1>3, <2>1
  <1>5. bucket' \in [Callers -> Buckets]
        BY NoBucketTyped DEF RestartSecrets
  <1>6. audit \in Audits /\ did \subseteq SecCalls
        BY DEF SecInv, SecTypes
  <1>7. /\ audit' \in Audits /\ audit'.rows = audit.rows /\ audit'.pending = {}
        /\ audit'.lost = audit.lost \cup audit.pending \cup {c \in did : Active(c)} /\ audit'.failed = audit.failed
        BY <1>6 DEF RestartSecrets, Audits
  <1>8. SecTypes'
        BY <1>1, <1>2, <1>4, <1>5, <1>7 DEF SecInv, SecTypes
  <1>9. ASSUME NEW c \in SecCalls PROVE CallOK(c)' /\ ~Active(c)'
    <2>1. CallOK(c)
          BY DEF SecInv
    <2> QED BY <1>1, <1>3, <2>1 DEF CallOK, Active, Tried, Acted
  <1>10. AuditOK'
    <2>1. AuditOK
          BY DEF SecInv
    <2>2. ASSUME NEW d \in did, secCall'[d].at = "done" /\ secCall'[d].via = "rest" /\ secCall'[d].op # "describe"
          PROVE  d \in audit'.rows \cup audit'.pending \cup audit'.lost \cup audit'.failed
      <3>1. d \in SecCalls /\ (secCall[d].at = "done" \/ Active(d))
            BY <1>6 DEF SecInv, CallOK, Active, Tried, Acted
      <3> QED BY <1>3, <1>7, <2>1, <2>2, <3>1 DEF AuditOK, Active
    <2>3. ASSUME NEW d \in audit'.rows \cup audit'.pending
          PROVE  /\ d \in did /\ secCall'[d].via = "rest" /\ secCall'[d].op # "describe"
                 /\ secCall'[d].at = "done"
      <3>1. d \in SecCalls /\ d \in audit.rows
            BY <1>6, <1>7, <2>3 DEF Audits
      <3> QED BY <1>3, <2>1, <3>1 DEF AuditOK, Active
    <2>4. ASSUME NEW d \in audit'.failed
          PROVE  d \in did /\ secCall'[d].op \in Mutations /\ secCall'[d].at = "done"
      <3>1. d \in SecCalls /\ d \in audit.failed
            BY <1>6, <1>7, <2>4 DEF Audits
      <3> QED BY <1>3, <2>1, <3>1 DEF AuditOK, Active
    <2>5. audit'.failed \cap (audit'.rows \cup audit'.pending) = {}
          BY <1>7, <2>1 DEF AuditOK
    <2> QED BY <1>1, <2>2, <2>3, <2>4, <2>5 DEF AuditOK
  <1> QED BY <1>2, <1>8, <1>9, <1>10 DEF SecInv

----------------------------------------------------------------------------

\* The requests charged can be counted.
LEMMA ChargedFinite ==
    ASSUME NEW w, NEW n
    PROVE  IsFiniteSet(Charged(w, n)) /\ Cardinality(Charged(w, n)) \in Nat
  <1>1. Charged(w, n) \in SUBSET SecCalls
        BY DEF Charged
  <1> QED BY <1>1, SecBounds, FS_Subset, FS_CardinalityType

\* The bucket allow works on: opened or refilled for the window if it is of an older one.
WindowOpened(w) ==
    IF bucket[w].open /\ bucket[w].window = window THEN bucket[w]
    ELSE [tokens |-> MutationLimit, window |-> window, open |-> TRUE]

\* A bucket refilled for a new window, with the requests charged in it, is
\* within the limit.
LEMMA RefilledAccounts ==
    ASSUME SecTypes, NEW w \in Callers
    PROVE  /\ WindowOpened(w) \in Buckets /\ WindowOpened(w).open /\ WindowOpened(w).window = window
           /\ CountOK(w) => Cardinality(Charged(w, window)) + WindowOpened(w).tokens <= MutationLimit
  <1>1. bucket[w] \in Buckets /\ window \in 0 .. MaxWindows /\ window \in Nat /\ MutationLimit \in Nat
        BY SecBounds DEF SecTypes
  <1>2. bucket[w].window \in Nat
        BY <1>1, SecBounds DEF Buckets
  <1>3. CASE bucket[w].open /\ bucket[w].window = window
        BY <1>1, <1>3 DEF WindowOpened, CountOK
  <1>4. CASE ~(bucket[w].open /\ bucket[w].window = window)
    <2> DEFINE b == [tokens |-> MutationLimit, window |-> window, open |-> TRUE]
    <2>1. b \in Buckets /\ b.open /\ b.window = window /\ b.tokens = MutationLimit
          BY <1>1 DEF Buckets
    <2>2. WindowOpened(w) = b
          BY <1>4 DEF WindowOpened
    <2>3. CountOK(w) => Charged(w, window) = {}
          BY <1>1, <1>2, <1>4 DEF CountOK
    <2>4. CountOK(w) => Cardinality(Charged(w, window)) = 0
          BY <2>3, FS_EmptySet
    <2> HIDE DEF b
    <2> QED BY <1>1, <2>1, <2>2, <2>4
  <1> QED BY <1>3, <1>4

\* The account of a caller whose bucket is of this window.
LEMMA CountMoves ==
    ASSUME NEW w \in Callers, CountOK(w), SecTypes, SecTypes', window' = window, NEW c \in SecCalls,
           bucket'[w].open, bucket'[w].window = window,
           \A d \in SecCalls \ {c}, n \in 0 .. MaxWindows : Charges(secCall[d], w, n)' => Charges(secCall[d], w, n),
           \A n \in (0 .. MaxWindows) \ {window} : Charges(secCall[c], w, n)' => Charges(secCall[c], w, n),
           Cardinality(Charged(w, window)') + bucket'[w].tokens <= MutationLimit
    PROVE  CountOK(w)'
  <1>0. /\ window \in 0 .. MaxWindows /\ window \in Nat /\ MutationLimit \in Nat
        /\ bucket[w] \in Buckets /\ bucket'[w] \in Buckets /\ MaxWindows \in Nat
        BY SecBounds DEF SecTypes
  <1>1. bucket[w].window \in Nat /\ bucket'[w].tokens \in Nat /\ bucket[w].window <= window
        BY <1>0 DEF Buckets, CountOK
  <1>2. \A n \in 0 .. MaxWindows : n # window => Charged(w, n)' \subseteq Charged(w, n)
        BY DEF Charged
  <1>3. ASSUME NEW n \in 0 .. MaxWindows, n # window
        PROVE  Cardinality(Charged(w, n)') <= MutationLimit
    <2> DEFINE S == Charged(w, n)
               T == Charged(w, n)'
    <2>1. T \in SUBSET S
          BY <1>2, <1>3
    <2>2. IsFiniteSet(S) /\ Cardinality(S) \in Nat /\ Cardinality(S) <= MutationLimit
          BY ChargedFinite DEF CountOK
    <2> HIDE DEF S, T
    <2>3. Cardinality(T) <= Cardinality(S) /\ Cardinality(T) \in Nat
          BY <2>1, <2>2, FS_Subset, FS_CardinalityType
    <2>4. Cardinality(T) <= MutationLimit
          BY <1>0, <2>2, <2>3
    <2> QED BY <2>4 DEF T
  <1>4. Cardinality(Charged(w, window)') \in Nat
    <2>1. Charged(w, window)' \in SUBSET SecCalls
          BY DEF Charged
    <2> QED BY <2>1, SecBounds, FS_Subset, FS_CardinalityType
  <1>5. Cardinality(Charged(w, window)') <= MutationLimit
        BY <1>0, <1>1, <1>4
  <1>6. \A n \in 0 .. MaxWindows : Charged(w, n)' # {} => bucket'[w].open /\ n <= bucket'[w].window
        BY <1>0, <1>1, <1>2 DEF CountOK
  <1>7. \A n \in 0 .. MaxWindows : Cardinality(Charged(w, n)') <= MutationLimit
        BY <1>3, <1>5
  <1>8. Cardinality(Charged(w, bucket[w].window)') + bucket'[w].tokens <= MutationLimit
    <2>1. Charged(w, bucket[w].window)' = Charged(w, window)'
          BY DEF Charged
    <2> QED BY <2>1
  <1>9. bucket'[w].window <= window'
        BY <1>0
  <1> QED BY <1>6, <1>7, <1>8, <1>9 DEF CountOK

\* AllowMutation takes a token: one more request is charged, one token fewer is
\* left.
LEMMA AllowMutationStep ==
    ASSUME SecInv, NEW c \in SecCalls, AllowMutation(c) PROVE SecInv'
  <1>1. Active(c) /\ secCall[c].at = "limit"
        BY DEF AllowMutation, Active
  <1>2. c \notin did /\ Underway(c) /\ secCall[c] \in SecRequests /\ SecTypes
        BY <1>1, UnderwayFacts DEF SecInv, Tried, Acted
  <1> PICK w \in Callers : w = secCall[c].who
        BY <1>2 DEF Underway
  <1> PICK b : b = WindowOpened(w)
        OBVIOUS
  <1>3. secCall \in [SecCalls -> SecRequests] /\ bucket \in [Callers -> Buckets]
        BY <1>2 DEF SecTypes
  <1>4. UNCHANGED <<standing, project, siteBound, secret, window, audit, grants, held, did>>
        BY DEF AllowMutation
  <1>5. /\ b \in Buckets /\ b.open /\ b.window = window
        /\ CountOK(w) => Cardinality(Charged(w, window)) + b.tokens <= MutationLimit
        BY <1>2, <1>3, RefilledAccounts
  <1>6. \/ /\ b.tokens > 0
           /\ bucket' = [bucket EXCEPT ![w] = [b EXCEPT !.tokens = @ - 1]]
           /\ SecGoes(c, [secCall[c] EXCEPT !.at = "folder", !.window = window])
        \/ /\ b.tokens = 0
           /\ bucket' = [bucket EXCEPT ![w] = b]
           /\ SecEnds(c)
        BY DEF AllowMutation, WindowOpened
  <1>7. \A n : ~Charges(secCall[c], w, n)
        BY <1>1 DEF Charges
  <1>8. b.tokens \in Nat /\ b.tokens <= MutationLimit /\ MutationLimit \in Nat /\ window \in 0 .. MaxWindows
        BY <1>2, <1>5, SecBounds DEF Buckets, SecTypes
  <1>9. ASSUME NEW o \in SecRequests, SecGoes(c, o), NEW e \in Buckets, bucket' = [bucket EXCEPT ![w] = e],
               o.who \in {w, "none"} \/ o.op \notin Mutations,
               e.open, e.window = window, CallOK(c)',
               \A v \in Callers \ {w}, n \in 0 .. MaxWindows : ~Charges(o, v, n),
               \A n \in (0 .. MaxWindows) \ {window} : ~Charges(o, w, n),
               CountOK(w) => Cardinality(Charged(w, window)') + e.tokens <= MutationLimit
        PROVE  SecInv'
    <2>1. secCall' \in [SecCalls -> SecRequests] /\ secCall'[c] = o /\ \A d \in SecCalls \ {c} : secCall'[d] = secCall[d]
          BY <1>3, <1>9 DEF SecGoes
    <2>2. bucket' \in [Callers -> Buckets] /\ bucket'[w] = e /\ \A v \in Callers \ {w} : bucket'[v] = bucket[v]
          BY <1>3, <1>9
    <2>3. SecTypes'
          BY <1>4, <2>1, <2>2 DEF SecInv, SecTypes
    <2>4. AuditOK'
          BY <1>2, <1>4, <2>1 DEF SecInv, AuditOK, SecTypes, Audits
    <2>5. ASSUME grants = 0, NEW v \in Callers PROVE CountOK(v)'
      <3>1. CountOK(v)
            BY <2>5 DEF SecInv
      <3>2. CASE v = w
        <4>1. \A d \in SecCalls \ {c}, n \in 0 .. MaxWindows :
                 Charges(secCall[d], w, n)' => Charges(secCall[d], w, n)
              BY <2>1 DEF Charges
        <4>2. \A n \in (0 .. MaxWindows) \ {window} : Charges(secCall[c], w, n)' => Charges(secCall[c], w, n)
              BY <1>9, <2>1 DEF Charges
        <4> QED BY <1>2, <1>3, <1>4, <1>9, <2>2, <2>3, <3>1, <3>2, <4>1, <4>2, CountMoves
      <3>3. CASE v # w
        <4>1. ASSUME NEW d \in SecCalls, NEW n \in 0 .. MaxWindows, Charges(secCall[d], v, n)'
              PROVE  Charges(secCall[d], v, n)
              BY <1>9, <2>1, <3>3, <4>1 DEF Charges
        <4>2. window <= window' /\ bucket'[v] = bucket[v]
              BY <1>4, <1>8, <2>2, <3>3, SecBounds
        <4> QED BY <1>2, <2>3, <3>1, <4>1, <4>2, CountKeeps
      <3> QED BY <3>2, <3>3
    <2>6. /\ did \subseteq did' /\ did' \subseteq did \cup {c} /\ audit' \in Audits /\ secret' \in BOOLEAN
          /\ held' \in [SecCalls -> SUBSET Rights] /\ \A d \in SecCalls : held'[d] = held[d]
          BY <1>4 DEF SecInv, SecTypes
    <2> QED BY <1>4, <1>9, <2>2, <2>4, <2>5, <2>6, SecCallStep
  <1>10. CASE /\ b.tokens > 0
              /\ bucket' = [bucket EXCEPT ![w] = [b EXCEPT !.tokens = @ - 1]]
              /\ SecGoes(c, [secCall[c] EXCEPT !.at = "folder", !.window = window])
    <2> DEFINE left == b.tokens - 1
               e == [b EXCEPT !.tokens = left]
               o == [secCall[c] EXCEPT !.at = "folder", !.window = window]
    <2>0. left \in 0 .. MutationLimit /\ left \in Nat /\ left + 1 = b.tokens
          BY <1>8, <1>10
    <2>1. bucket' = [bucket EXCEPT ![w] = e] /\ SecGoes(c, o)
          BY <1>10
    <2>2. /\ o \in SecRequests /\ o.at = "folder" /\ o.who = w /\ o.via = secCall[c].via
          /\ o.op = secCall[c].op /\ o.window = window
          BY <1>2, <1>8 DEF SecRequests
    <2> HIDE DEF left
    <2>3. e \in Buckets /\ e.open /\ e.window = window /\ e.tokens = left
          BY <1>5, <2>0 DEF Buckets
    <2> HIDE DEF e, o
    <2>4. secCall'[c] = o /\ \A d \in SecCalls \ {c} : secCall'[d] = secCall[d]
          BY <1>3, <2>1, <2>2 DEF SecGoes
    <2>5. CallOK(c)'
      <3>1. Holdings(secCall[c])' = Holdings(secCall[c])
            BY <1>4, <2>2, <2>4 DEF Holdings, Role, Owns, Scoped
      <3>2. Underway(c)'
            BY <1>1, <1>2, <1>4, <2>2, <2>4, <3>1 DEF Underway
      <3> QED BY <1>2, <1>4, <2>2, <2>4, <3>2 DEF CallOK, Tried, Acted
    <2>6. \A v \in Callers \ {w}, n \in 0 .. MaxWindows : ~Charges(o, v, n)
          BY <2>2 DEF Charges
    <2>7. \A n \in (0 .. MaxWindows) \ {window} : ~Charges(o, w, n)
          BY <2>2 DEF Charges
    <2>8. ASSUME CountOK(w) PROVE Cardinality(Charged(w, window)') + left <= MutationLimit
      <3> DEFINE S == Charged(w, window)
                 T == Charged(w, window)'
      <3>1. T \in SUBSET (S \cup {c}) /\ c \notin S
        <4>1. c \notin S
              BY <1>7 DEF Charged
        <4>2. ASSUME NEW d \in T, d # c PROVE d \in S
              BY <1>4, <2>4, <4>2 DEF Charged, Charges
        <4> QED BY <4>1, <4>2
      <3>2. IsFiniteSet(S) /\ Cardinality(S) \in Nat /\ Cardinality(S) + b.tokens <= MutationLimit
            BY <1>5, <2>8, ChargedFinite
      <3> HIDE DEF S, T
      <3>3. IsFiniteSet(S \cup {c}) /\ Cardinality(S \cup {c}) = Cardinality(S) + 1
            BY <3>1, <3>2, FS_AddElement
      <3>4. Cardinality(T) <= Cardinality(S \cup {c}) /\ Cardinality(T) \in Nat
            BY <3>1, <3>3, FS_Subset, FS_CardinalityType
      <3>5. Cardinality(T) + left <= MutationLimit
            BY <1>8, <2>0, <3>2, <3>3, <3>4
      <3> QED BY <3>5 DEF T
    <2> QED BY <1>9, <2>1, <2>2, <2>3, <2>5, <2>6, <2>7, <2>8
  <1>11. CASE b.tokens = 0 /\ bucket' = [bucket EXCEPT ![w] = b] /\ SecEnds(c)
    <2> DEFINE o == [NoSecCall EXCEPT !.at = "done"]
    <2>1. o \in SecRequests /\ o.at = "done" /\ o.op \notin Mutations
      <3> HIDE DEF NoSecCall
      <3> QED BY NoSecCallTyped DEF SecRequests
    <2>2. SecGoes(c, o)
          BY <1>2, <1>11 DEF SecEnds
    <2> HIDE DEF o
    <2>3. secCall'[c] = o /\ \A d \in SecCalls \ {c} : secCall'[d] = secCall[d]
          BY <1>3, <2>2 DEF SecGoes
    <2>4. CallOK(c)'
          BY <1>2, <1>4, <2>1, <2>3 DEF CallOK, Active, Tried, Acted
    <2>5. \A v, n : ~Charges(o, v, n)
          BY <2>1 DEF Charges
    <2>6. ASSUME CountOK(w) PROVE Cardinality(Charged(w, window)') + b.tokens <= MutationLimit
      <3> DEFINE S == Charged(w, window)
                 T == Charged(w, window)'
      <3>1. T \in SUBSET S
        <4>1. ASSUME NEW d \in T PROVE d \in S
              BY <1>4, <2>3, <2>5, <4>1 DEF Charged, Charges
        <4> QED BY <4>1
      <3>2. IsFiniteSet(S) /\ Cardinality(S) \in Nat /\ Cardinality(S) + b.tokens <= MutationLimit
            BY <1>5, <2>6, ChargedFinite
      <3> HIDE DEF S, T
      <3>4. Cardinality(T) <= Cardinality(S) /\ Cardinality(T) \in Nat
            BY <3>1, <3>2, FS_Subset, FS_CardinalityType
      <3>5. Cardinality(T) + b.tokens <= MutationLimit
            BY <1>8, <3>2, <3>4
      <3> QED BY <3>5 DEF T
    <2> QED BY <1>5, <1>9, <1>11, <2>1, <2>2, <2>4, <2>5, <2>6
  <1> QED BY <1>6, <1>10, <1>11

\* Every step keeps the invariant.
LEMMA SecInvStep ==
    ASSUME SecInv, [SecNext]_secVars PROVE SecInv'
  <1>1. ASSUME NEW c \in SecCalls, NEW w \in Callers, NEW op \in RestOps, Authenticate(c, w, op) PROVE SecInv'
        BY <1>1, AuthenticateStep
  <1>2. ASSUME NEW c \in SecCalls, NEW w \in Callers, NEW op \in McpOps, EnforceToolAuth(c, w, op) PROVE SecInv'
        BY <1>2, EnforceToolAuthStep
  <1>3. ASSUME NEW c \in SecCalls,
               \/ RequireProjectOwnership(c) \/ ResolveRole(c) \/ AllowMutation(c)
               \/ AuthorizeProjectTarget(c) \/ ResolveFolder(c)
        PROVE  SecInv'
        BY <1>3, RequireProjectOwnershipStep, ResolveRoleStep, AllowMutationStep,
           AuthorizeProjectTargetStep, ResolveFolderStep
  <1>4. ASSUME NEW c \in SecCalls, NEW via, NEW op, NEW fits, NEW after \in BOOLEAN,
               Manages(c, via, op, fits, after)
        PROVE  SecInv'
        BY <1>4, ManagesStep
  <1>5. ASSUME NEW c \in SecCalls,
               \/ HandleListSecrets(c) \/ HandleGetSecret(c) \/ HandleReadValue(c)
               \/ HandleCreateSecret(c) \/ HandleUpdateSecret(c) \/ HandleDeleteSecret(c)
               \/ ListProjectSecrets(c) \/ GetProjectSecret(c) \/ ReadProjectSecretValue(c)
               \/ DeleteProjectSecret(c)
        PROVE  SecInv'
    <2>1. secret \in BOOLEAN
          BY DEF SecInv, SecTypes
    <2> QED BY <1>4, <1>5, <2>1 DEF HandleListSecrets, HandleGetSecret, HandleReadValue, HandleCreateSecret,
               HandleUpdateSecret, HandleDeleteSecret, ListProjectSecrets, GetProjectSecret,
               ReadProjectSecretValue, DeleteProjectSecret
  <1>6. ASSUME NEW c \in SecCalls, SetProjectSecret(c) \/ CreateAfterUpdate(c) PROVE SecInv'
        BY <1>6, SetProjectSecretStep, CreateAfterUpdateStep
  <1>7. ASSUME NEW c \in SecCalls, GetSecretMetadata(c) \/ RecordAudit(c) \/ WriteAudit(c) \/ SecCallFails(c)
        PROVE  SecInv'
        BY <1>7, GetSecretMetadataStep, RecordAuditStep, WriteAuditStep, SecCallFailsStep
  <1>8. ASSUME NEW w \in Callers, ChangeStanding(w) PROVE SecInv'
    <2>1. GrantChanges /\ UNCHANGED <<project, siteBound>>
          BY <1>8 DEF ChangeStanding
    <2>2. standing' \in [Callers -> Standings]
          BY <1>8 DEF ChangeStanding, SecInv, SecTypes, Standings
    <2>3. project' \in BOOLEAN /\ siteBound' \in BOOLEAN
          BY <2>1 DEF SecInv, SecTypes
    <2> QED BY <2>1, <2>2, <2>3, GrantChangesStep
  <1>9. CASE ChangeProject
    <2>1. GrantChanges /\ standing' \in [Callers -> Standings]
          BY <1>9 DEF ChangeProject, SecInv, SecTypes
    <2>2. project' \in BOOLEAN /\ siteBound' \in BOOLEAN
          BY <1>9 DEF ChangeProject, SecInv, SecTypes
    <2> QED BY <2>1, <2>2, GrantChangesStep
  <1>10. CASE NextWindow \/ RestartSecrets
        BY <1>10, NextWindowStep, RestartSecretsStep
  <1>11. CASE UNCHANGED secVars
    <2>1. UNCHANGED <<standing, project, siteBound, secret, secCall, bucket, window, audit, grants, held, did>>
          BY <1>11 DEF secVars
    <2>2. SecTypes' /\ AuditOK'
          BY <2>1 DEF SecInv, SecTypes, AuditOK
    <2>3. \A c \in SecCalls : CallOK(c)'
          BY <2>1 DEF SecInv, CallOK, Active, Underway, Holdings, Role, Owns, Scoped
    <2>4. ASSUME grants' = 0, NEW w \in Callers PROVE CountOK(w)'
          BY <2>1, <2>4 DEF SecInv, CountOK, Charged
    <2> QED BY <2>2, <2>3, <2>4 DEF SecInv
  <1> QED BY <1>1, <1>2, <1>3, <1>5, <1>6, <1>7, <1>8, <1>9, <1>10, <1>11 DEF SecNext

\* Whatever is revoked, removed or deleted while a request passes from check to
\* check, it acts on the secret only if its caller held a live credential, the
\* right and the project at some moment of the request; a caller's mutations
\* charged to one window are within MutationLimit; what was done through REST is
\* audited, about to be, lost, or answered with an error after its commit; and
\* nothing that was answered with an error is audited (components/secrets/store.go,
\* components/api/secrets_api.go,
\* secret_rate.go, secret_audit.go; components/mcp/secrets.go).
THEOREM SecretsKept == SecSpec => [](SecTypeOK /\ SecretsCorrect)
  <1>1. SecInit => SecInv
        BY SecInvInit
  <1>2. SecInv /\ [SecNext]_secVars => SecInv'
        BY SecInvStep
  <1> QED BY <1>1, <1>2, SecInvCorrect, PTL DEF SecSpec

-----------------------------------------------------------------------------
(* Collections: records and events.                                        *)

\* The number of a call, which stands for the value it writes.
Value == 0..MaxFeedCalls
\* An event of the feed.
Event == [type : {"create", "update", "delete"}, id : RecordIds]
\* A record: its organization, whether it is there, its fields.
RecordRow == [org : Tenants, there : BOOLEAN, data : [Fields -> Value]]
\* A request on a collection and what it holds.
FeedCallState ==
    [at : Steps, id : 0..MaxRecords, event : Event \cup {NoEvent}, copy : [Fields -> Value],
     set : SUBSET Fields, no : Value, excess : Nat, api : BOOLEAN]

\* The types, with the sequences that TLC does not enumerate.
FeedTypes ==
    /\ record \in [RecordIds -> RecordRow]
    /\ lastId \in 0..MaxRecords
    /\ feedCall \in [FeedCalls -> FeedCallState]
    /\ eventRows \in Seq(Event)
    /\ sse \in [on : BOOLEAN, sent : SUBSET Event]
    /\ author \in Seq(Tenants) /\ Len(author) <= MaxFeedCalls
    /\ lastWrite \in [RecordIds -> [Fields -> Value]]
    /\ erased \in SUBSET (1..lastId)
    /\ stale \in SUBSET RecordIds
    /\ untrimmed \in BOOLEAN

\* A value was written by its organization, or by a request without one.
WrittenBy(v, org) == v # 0 => v \in 1..Len(author) /\ author[v] \in {org, 0}

\* A record is as its last writer left it, was deleted exactly if it is gone,
\* and holds what its organization wrote.
RowGood(i) ==
    /\ record[i].there /\ i \notin stale => record[i].data = lastWrite[i]
    /\ record[i].there <=> i \notin erased
    /\ \A f \in Fields : WrittenBy(record[i].data[f], record[i].org)

\* An event is about a record there has been, and a delete about one that is
\* gone.
EventTrue(e) == e \in Event /\ e.id \in 1..lastId /\ (e.type = "delete" => e.id \in erased)

\* Where a request is about to change a record it has checked.
Touching == {"merge", "delete"}
\* Where a request has changed a record and is about to tell.
Recording == {"record", "count", "trim", "stream"}

\* What a request holds still fits the record.
FeedCallGood(c) ==
    /\ feedCall[c].at = "insert" => feedCall[c].no \in 1..Len(author)
    /\ feedCall[c].at \in Touching =>
         /\ feedCall[c].id \in 1..lastId
         /\ feedCall[c].no \in 1..Len(author)
         /\ author[feedCall[c].no] \in {record[feedCall[c].id].org, 0}
    /\ feedCall[c].at = "merge" =>
         /\ record[feedCall[c].id].there /\ feedCall[c].id \notin stale =>
              feedCall[c].copy = record[feedCall[c].id].data
         /\ \A f \in Fields : WrittenBy(feedCall[c].copy[f], record[feedCall[c].id].org)
    /\ feedCall[c].at \in Recording => EventTrue(feedCall[c].event)
    /\ feedCall[c].at = "trim" => feedCall[c].excess > 0

\* The requests that have added an event and not yet trimmed the table.
Trimmers == {c \in FeedCalls : feedCall[c].at \in {"count", "trim"}}

\* Every record is good, and its id was given.
RowsGood ==
    /\ \A i \in 1..lastId : RowGood(i)
    /\ \A i \in RecordIds : record[i].there => i \in 1..lastId
\* Every request is good.
FeedCallsGood == \A c \in FeedCalls : FeedCallGood(c)
\* Every event kept is true.
EventRowsTrue == \A i \in 1..Len(eventRows) : EventTrue(eventRows[i])
\* Every event sent is true.
SentTrue == \A e \in sse.sent : EventTrue(e)
\* The events kept exceed the cap by no more than the requests about to trim
\* them.
Trimmed == ~untrimmed => Len(eventRows) <= EventCap + Cardinality(Trimmers)

\* The inductive invariant.
FeedInv == FeedTypes /\ RowsGood /\ FeedCallsGood /\ EventRowsTrue /\ SentTrue /\ Trimmed

----------------------------------------------------------------------------

\* The limits are numbers.
LEMMA FeedNumbers == EventCap \in Nat /\ MaxRecords \in Nat /\ MaxFeedCalls \in Nat
  BY FeedBounds

\* The invariant gives the property.
LEMMA FeedInvCorrect == FeedInv => FeedTypeOK /\ CollectionsConsistent
  <1> SUFFICES ASSUME FeedInv PROVE FeedTypeOK /\ CollectionsConsistent
      OBVIOUS
  <1>1. FeedTypeOK
    <2>1. \A c \in FeedCalls : feedCall[c].at \in Steps /\ feedCall[c].excess \in Nat
          BY DEF FeedInv, FeedTypes, FeedCallState
    <2>2. erased \cup stale \subseteq RecordIds
          BY FeedNumbers DEF FeedInv, FeedTypes, RecordIds
    <2>3. record \in [RecordIds -> RecordRow] /\ eventRows \in Seq(Event)
          BY DEF FeedInv, FeedTypes
    <2>4. lastId \in 0..MaxRecords /\ author \in Seq(Tenants) /\ untrimmed \in BOOLEAN
          BY DEF FeedInv, FeedTypes
    <2> QED BY <2>1, <2>2, <2>3, <2>4, Zenon DEF FeedTypeOK, RecordRow, Event, Value
  <1>2. WritesKept
        BY DEF FeedInv, RowsGood, RowGood, WrittenBy, WritesKept
  <1>3. EventsTrue
    <2>1. DOMAIN eventRows = 1..Len(eventRows)
          BY DEF FeedInv, FeedTypes
    <2>2. \A i \in DOMAIN eventRows : eventRows[i].type = "delete" => eventRows[i].id \in erased
          BY <2>1 DEF FeedInv, EventRowsTrue, EventTrue
    <2>3. \A e \in sse.sent : e.id <= lastId /\ (e.type = "delete" => e.id \in erased)
      <3>1. ASSUME NEW e \in sse.sent PROVE e.id <= lastId
        <4>1. e.id \in 1..lastId
              BY DEF FeedInv, SentTrue, EventTrue
        <4> QED BY <4>1, FeedNumbers DEF FeedInv, FeedTypes
      <3> QED BY <3>1 DEF FeedInv, SentTrue, EventTrue
    <2> QED BY <2>2, <2>3 DEF FeedInv, Trimmed, Trimmers, EventsTrue
  <1> QED BY <1>1, <1>2, <1>3 DEF CollectionsConsistent

\* The request that is over.
LEMMA QuietTyped == NoData \in [Fields -> Value] /\ Quiet \in FeedCallState /\ Quiet.at = "idle"
  <1>1. NoData \in [Fields -> Value]
        BY FeedNumbers DEF NoData, Value
  <1> QED BY <1>1, FeedNumbers DEF Quiet, FeedCallState, Steps, Value

\* The invariant holds at the start.
LEMMA FeedInvInit == FeedInit => FeedInv
  <1> SUFFICES ASSUME FeedInit PROVE FeedInv
      OBVIOUS
  <1>0. lastId \in 0..MaxRecords /\ lastId \in Nat /\ (1..lastId) \subseteq RecordIds
        BY FeedNumbers DEF FeedInit, RecordIds
  <1>1. PICK tenants \in [1..lastId -> Tenants] :
           record = [i \in RecordIds |-> IF i \in 1..lastId
                                         THEN [org |-> tenants[i], there |-> TRUE, data |-> NoData]
                                         ELSE NoRecord]
        BY DEF FeedInit
  <1>2. \A i \in RecordIds : record[i] \in RecordRow
        BY <1>1, QuietTyped, FeedBounds DEF NoRecord, RecordRow
  <1>3. Len(<<>>) = 0 /\ <<>> \in Seq(Event) /\ <<>> \in Seq(Tenants)
        OBVIOUS
  <1>4. FeedTypes
    <2>1. record \in [RecordIds -> RecordRow]
          BY <1>1, <1>2
    <2>2. feedCall \in [FeedCalls -> FeedCallState]
          BY QuietTyped DEF FeedInit
    <2>3. lastWrite \in [RecordIds -> [Fields -> Value]]
          BY QuietTyped DEF FeedInit
    <2>4. sse \in [on : BOOLEAN, sent : SUBSET Event] /\ untrimmed \in BOOLEAN
          BY DEF FeedInit
    <2>5. eventRows \in Seq(Event) /\ author \in Seq(Tenants) /\ Len(author) <= MaxFeedCalls
          BY <1>3, FeedNumbers DEF FeedInit
    <2> QED BY <1>0, <2>1, <2>2, <2>3, <2>4, <2>5 DEF FeedInit, FeedTypes
  <1>5. RowsGood
    <2>1. ASSUME NEW i \in 1..lastId PROVE RowGood(i)
      <3>1. record[i].there = TRUE /\ record[i].data = NoData /\ lastWrite[i] = NoData /\ erased = {}
            BY <1>0, <1>1 DEF FeedInit
      <3> QED BY <3>1 DEF RowGood, WrittenBy, NoData
    <2>2. \A i \in RecordIds : record[i].there => i \in 1..lastId
          BY <1>1 DEF NoRecord
    <2> QED BY <2>1, <2>2 DEF RowsGood
  <1>6. FeedCallsGood
        BY DEF FeedInit, FeedCallsGood, FeedCallGood, Quiet, Touching, Recording
  <1>7. EventRowsTrue /\ SentTrue
        BY <1>3 DEF FeedInit, EventRowsTrue, SentTrue
  <1>8. Trimmed
    <2>1. Trimmers = {}
          BY DEF FeedInit, Trimmers, Quiet
    <2>2. Cardinality(Trimmers) = 0
          BY <2>1, FS_EmptySet
    <2> QED BY <1>3, <2>2, FeedNumbers DEF FeedInit, Trimmed
  <1> QED BY <1>4, <1>5, <1>6, <1>7, <1>8 DEF FeedInv

----------------------------------------------------------------------------

\* What no step takes back.
FeedGrows ==
    /\ author' \in Seq(Tenants) /\ Len(author') <= MaxFeedCalls /\ Len(author) <= Len(author')
    /\ \A n \in 1..Len(author) : author'[n] = author[n]
    /\ lastId' \in 0..MaxRecords /\ lastId <= lastId'
    /\ erased \subseteq erased' /\ stale \subseteq stale'
    /\ \A i \in 1..lastId : record'[i].org = record[i].org /\ (record'[i].there => record[i].there)

\* A value keeps its author.
LEMMA WrittenKeeps ==
    ASSUME FeedTypes, FeedGrows, NEW v, NEW org, WrittenBy(v, org)
    PROVE  WrittenBy(v, org)'
  <1>1. Len(author) \in Nat /\ Len(author') \in Nat /\ Len(author) <= Len(author')
        BY DEF FeedTypes, FeedGrows
  <1>2. (1..Len(author)) \subseteq (1..Len(author'))
        BY <1>1
  <1> QED BY <1>2 DEF FeedGrows, WrittenBy

\* An event that is true stays true as records come and go.
LEMMA EventKeeps ==
    ASSUME FeedTypes, FeedGrows, NEW e, EventTrue(e)
    PROVE  EventTrue(e)'
  <1>1. lastId \in Nat /\ lastId' \in Nat /\ lastId <= lastId'
        BY FeedNumbers DEF FeedTypes, FeedGrows
  <1>2. (1..lastId) \subseteq (1..lastId')
        BY <1>1
  <1> QED BY <1>2 DEF FeedGrows, EventTrue

\* A record that is not touched.
LEMMA RowKeeps ==
    ASSUME FeedTypes, FeedGrows, NEW i \in 1..lastId, RowGood(i),
           record'[i] = record[i], lastWrite'[i] = lastWrite[i],
           i \in erased' => i \in erased
    PROVE  RowGood(i)'
  <1>1. ASSUME NEW f \in Fields PROVE WrittenBy(record[i].data[f], record[i].org)'
    <2> PICK v : v = record[i].data[f]
        OBVIOUS
    <2> PICK org : org = record[i].org
        OBVIOUS
    <2>1. WrittenBy(v, org)
          BY DEF RowGood
    <2>2. WrittenBy(v, org)'
          BY <2>1, WrittenKeeps
    <2>3. v = record'[i].data[f] /\ org = record'[i].org
          OBVIOUS
    <2> QED BY <2>2, <2>3 DEF WrittenBy
  <1> QED BY <1>1 DEF RowGood, FeedGrows

\* A call that does not step.
LEMMA CallKeeps ==
    ASSUME FeedTypes, FeedGrows, NEW d \in FeedCalls, FeedCallGood(d), feedCall'[d] = feedCall[d],
           feedCall[d].at = "merge" /\ record'[feedCall[d].id].there /\ feedCall[d].id \notin stale' =>
             record'[feedCall[d].id].data = record[feedCall[d].id].data
    PROVE  FeedCallGood(d)'
  <1> PICK k : k = feedCall[d]
      OBVIOUS
  <1> PICK i : i = k.id
      OBVIOUS
  <1>0. k = feedCall'[d]
        OBVIOUS
  <1>1. Len(author) \in Nat /\ Len(author') \in Nat /\ Len(author) <= Len(author') /\ lastId \in Nat /\ lastId' \in Nat /\ lastId <= lastId'
        BY FeedNumbers DEF FeedTypes, FeedGrows
  <1>2. (1..Len(author)) \subseteq (1..Len(author')) /\ (1..lastId) \subseteq (1..lastId')
        BY <1>1
  <1>3. k.at = "insert" => k.no \in 1..Len(author')
        BY <1>2 DEF FeedCallGood
  <1>4. k.at \in Touching => k.id \in 1..lastId
        BY DEF FeedCallGood
  <1>5. k.at \in Touching => k.id \in 1..lastId' /\ k.no \in 1..Len(author') /\ author'[k.no] \in {record'[k.id].org, 0}
        BY <1>2, <1>4 DEF FeedCallGood, FeedGrows
  <1>6. ASSUME k.at = "merge"
        PROVE  /\ record'[k.id].there /\ k.id \notin stale' => k.copy = record'[k.id].data
               /\ \A f \in Fields : WrittenBy(k.copy[f], record[k.id].org)'
    <2>1. k.id \in 1..lastId
          BY <1>4, <1>6 DEF Touching
    <2>2. record'[k.id].there /\ k.id \notin stale' => k.copy = record'[k.id].data
          BY <1>6, <2>1 DEF FeedCallGood, FeedGrows
    <2>3. ASSUME NEW f \in Fields PROVE WrittenBy(k.copy[f], record[k.id].org)'
      <3> PICK org : org = record[k.id].org
          OBVIOUS
      <3>1. WrittenBy(k.copy[f], org)
            BY <1>6 DEF FeedCallGood
      <3>2. WrittenBy(k.copy[f], org)'
            BY <3>1, WrittenKeeps
      <3>3. org = record'[k.id].org
            BY <2>1 DEF FeedGrows
      <3> QED BY <3>2, <3>3 DEF WrittenBy
    <2> QED BY <2>2, <2>3
  <1>7. k.at \in Recording => EventTrue(k.event)'
        BY EventKeeps DEF FeedCallGood
  <1>8. k.at = "trim" => k.excess > 0
        BY DEF FeedCallGood
  <1> HIDE DEF WrittenBy, EventTrue, Touching, Recording
  <1> QED BY <1>0, <1>3, <1>5, <1>6, <1>7, <1>8 DEF FeedCallGood, WrittenBy, EventTrue

\* The recorded and the streamed events stay true.
LEMMA EventsKeep ==
    ASSUME FeedTypes, FeedGrows
    PROVE  /\ EventRowsTrue /\ eventRows' = eventRows => EventRowsTrue'
           /\ SentTrue /\ sse' = sse => SentTrue'
  <1>1. \A e : EventTrue(e) => EventTrue(e)'
        BY EventKeeps
  <1>2. ASSUME EventRowsTrue, eventRows' = eventRows PROVE EventRowsTrue'
    <2>1. ASSUME NEW i \in 1..Len(eventRows') PROVE EventTrue(eventRows[i])'
      <3> PICK e : e = eventRows[i]
          OBVIOUS
      <3>1. EventTrue(e)'
            BY <1>1, <1>2 DEF EventRowsTrue
      <3> QED BY <1>2, <3>1 DEF EventTrue
    <2> QED BY <2>1 DEF EventRowsTrue
  <1>3. ASSUME SentTrue, sse' = sse PROVE SentTrue'
        BY <1>1, <1>3 DEF SentTrue
  <1> QED BY <1>2, <1>3

\* The calls that are about to trim are finitely many.
LEMMA TrimmersFinite == IsFiniteSet(Trimmers) /\ Cardinality(Trimmers) \in Nat
  <1>1. Trimmers \in SUBSET FeedCalls
        BY DEF Trimmers
  <1>2. IsFiniteSet(Trimmers)
        BY <1>1, FeedBounds, FS_Subset
  <1> QED BY <1>2, FS_CardinalityType

\* A request that does not come to the trimming, or leave it, leaves the
\* trimmers alone.
LEMMA TrimmersSame ==
    ASSUME NEW c \in FeedCalls, \A d \in FeedCalls \ {c} : feedCall'[d] = feedCall[d],
           feedCall[c].at \in {"count", "trim"} <=> feedCall'[c].at \in {"count", "trim"}
    PROVE  Trimmers' = Trimmers
  <1>1. \A d \in FeedCalls : feedCall[d].at \in {"count", "trim"} <=> feedCall'[d].at \in {"count", "trim"}
        OBVIOUS
  <1> QED BY <1>1 DEF Trimmers

\* One request more is about to trim.
LEMMA TrimmerEnters ==
    ASSUME NEW c \in FeedCalls, \A d \in FeedCalls \ {c} : feedCall'[d] = feedCall[d],
           feedCall[c].at \notin {"count", "trim"}, feedCall'[c].at \in {"count", "trim"}
    PROVE  Cardinality(Trimmers') = Cardinality(Trimmers) + 1
  <1>1. Trimmers' = Trimmers \cup {c} /\ c \notin Trimmers
        BY DEF Trimmers
  <1> HIDE DEF Trimmers
  <1> QED BY <1>1, TrimmersFinite, FS_AddElement

\* One request fewer is about to trim.
LEMMA TrimmerLeaves ==
    ASSUME NEW c \in FeedCalls, \A d \in FeedCalls \ {c} : feedCall'[d] = feedCall[d],
           feedCall[c].at \in {"count", "trim"}, feedCall'[c].at \notin {"count", "trim"}
    PROVE  Cardinality(Trimmers') = Cardinality(Trimmers) - 1 /\ Cardinality(Trimmers) > 0 /\ Cardinality(Trimmers') \in Nat
  <1>1. Trimmers' = Trimmers \ {c} /\ c \in Trimmers
        BY DEF Trimmers
  <1> HIDE DEF Trimmers
  <1>2. Cardinality(Trimmers') = Cardinality(Trimmers) - 1
        BY <1>1, TrimmersFinite, FS_RemoveElement
  <1>3. IsFiniteSet(Trimmers')
        BY <1>1, TrimmersFinite, FS_RemoveElement
  <1>4. Cardinality(Trimmers') \in Nat
        BY <1>3, FS_CardinalityType
  <1> QED BY <1>2, <1>4, TrimmersFinite

----------------------------------------------------------------------------

\* The other requests stay where they are.
OthersSame(c) == \A d \in FeedCalls \ {c} : feedCall'[d] = feedCall[d]

\* A call goes on to a state, and nobody else moves.
LEMMA GoesOn ==
    ASSUME FeedTypes, NEW c \in FeedCalls, NEW k \in FeedCallState, CallGoes(c, k)
    PROVE  /\ feedCall' \in [FeedCalls -> FeedCallState] /\ feedCall'[c] = k /\ OthersSame(c)
           /\ author' = author
  BY DEF FeedTypes, CallGoes, OthersSame

\* What leaves the records alone leaves events true.
LEMMA StillGrows ==
    ASSUME FeedTypes, UNCHANGED <<recordVars, author>>
    PROVE  FeedGrows
  <1>1. lastId \in Nat /\ Len(author) \in Nat
        BY FeedNumbers DEF FeedTypes
  <1> QED BY <1>1 DEF FeedGrows, FeedTypes, recordVars

\* A step of one call that leaves the records alone.
LEMMA StillKeeps ==
    ASSUME FeedInv, NEW c \in FeedCalls, FeedGrows, UNCHANGED recordVars, OthersSame(c), FeedCallGood(c)'
    PROVE  RowsGood' /\ FeedCallsGood'
  <1>1. record' = record /\ lastId' = lastId /\ lastWrite' = lastWrite /\ erased' = erased /\ stale' = stale
        BY DEF recordVars
  <1>2. RowsGood'
    <2>1. ASSUME NEW i \in 1..lastId PROVE RowGood(i)'
          BY <1>1, RowKeeps DEF FeedInv, RowsGood
    <2>2. \A i \in RecordIds : record'[i].there => i \in 1..lastId'
          BY <1>1 DEF FeedInv, RowsGood
    <2> HIDE DEF RowGood
    <2> QED BY <1>1, <2>1, <2>2 DEF RowsGood
  <1>3. ASSUME NEW d \in FeedCalls, d # c PROVE FeedCallGood(d)'
        BY <1>1, <1>3, CallKeeps DEF FeedInv, FeedCallsGood, OthersSame
  <1>4. FeedCallsGood'
    <2> HIDE DEF FeedCallGood
    <2> QED BY <1>3 DEF FeedCallsGood
  <1> QED BY <1>2, <1>4

\* The types of the records, where a step leaves them alone.
LEMMA StillTyped ==
    ASSUME FeedTypes, UNCHANGED recordVars, feedCall' \in [FeedCalls -> FeedCallState],
           eventRows' \in Seq(Event), sse' \in [on : BOOLEAN, sent : SUBSET Event],
           author' \in Seq(Tenants), Len(author') <= MaxFeedCalls, untrimmed' \in BOOLEAN
    PROVE  FeedTypes'
  BY DEF FeedTypes, recordVars

\* A call begins, with the next number.
LEMMA BeginsKeep ==
    ASSUME FeedInv, NEW c \in FeedCalls, NEW org \in Tenants, NEW k \in FeedCallState,
           CallBegins(c, org, k), UNCHANGED <<recordVars, eventVars>>,
           k.at \in {"insert", "merge", "delete"},
           k.at \in Touching => k.id \in 1..lastId /\ org \in {record[k.id].org, 0},
           k.at = "merge" => k.copy = record[k.id].data
    PROVE  FeedInv'
  <1> PICK n : n = Len(author) + 1
      OBVIOUS
  <1> PICK o : o = [k EXCEPT !.no = n]
      OBVIOUS
  <1>0. record' = record /\ lastId' = lastId /\ lastWrite' = lastWrite /\ erased' = erased /\ stale' = stale
        BY DEF recordVars
  <1>1. author \in Seq(Tenants) /\ Len(author) \in Nat /\ n \in 1..MaxFeedCalls /\ n \in Value /\ author' = Append(author, org)
        BY FeedNumbers DEF FeedInv, FeedTypes, CallBegins, Value
  <1>2. /\ author' \in Seq(Tenants) /\ Len(author') = n /\ author'[n] = org
        /\ \A m \in 1..Len(author) : author'[m] = author[m]
        BY <1>1, AppendProperties
  <1>3. Len(author') <= MaxFeedCalls /\ Len(author) <= Len(author') /\ n \in 1..Len(author')
        BY <1>1, <1>2, FeedNumbers
  <1>4. FeedGrows
    <2>1. lastId <= lastId
          BY FeedNumbers DEF FeedInv, FeedTypes
    <2> QED BY <1>0, <1>2, <1>3, <2>1 DEF FeedGrows, FeedInv, FeedTypes
  <1>5. o \in FeedCallState
        BY <1>1 DEF FeedCallState
  <1>6. o.at = k.at /\ o.id = k.id /\ o.copy = k.copy /\ o.no = n
        BY DEF FeedCallState
  <1>7. feedCall' \in [FeedCalls -> FeedCallState] /\ feedCall'[c] = o /\ OthersSame(c) /\ feedCall[c] = Quiet
    <2>1. feedCall' = [feedCall EXCEPT ![c] = o] /\ feedCall[c] = Quiet
          BY DEF CallBegins
    <2>2. feedCall \in [FeedCalls -> FeedCallState]
          BY DEF FeedInv, FeedTypes
    <2> QED BY <1>5, <2>1, <2>2 DEF OthersSame
  <1>8. FeedTypes'
        BY <1>2, <1>3, <1>7, StillTyped DEF FeedInv, FeedTypes, eventVars
  <1>9. FeedCallGood(c)'
    <2>1. o.at \in Touching => o.id \in 1..lastId' /\ o.no \in 1..Len(author') /\ author'[o.no] \in {record'[o.id].org, 0}
          BY <1>0, <1>2, <1>3, <1>6
    <2>2. o.at = "insert" => o.no \in 1..Len(author')
          BY <1>3, <1>6
    <2>3. ASSUME o.at = "merge" PROVE o.copy = record'[o.id].data /\ \A f \in Fields : WrittenBy(o.copy[f], record[o.id].org)'
      <3>1. o.id \in 1..lastId /\ o.copy = record[o.id].data
            BY <1>6, <2>3 DEF Touching
      <3>2. ASSUME NEW f \in Fields PROVE WrittenBy(o.copy[f], record[o.id].org)'
        <4> PICK g : g = record[o.id].org
            OBVIOUS
        <4>1. WrittenBy(o.copy[f], g)
              BY <3>1 DEF FeedInv, RowsGood, RowGood
        <4>2. WrittenBy(o.copy[f], g)'
              BY <1>4, <4>1, WrittenKeeps DEF FeedInv
        <4> QED BY <1>0, <4>2 DEF WrittenBy
      <3> QED BY <1>0, <3>1, <3>2
    <2>4. o.at \notin Recording /\ o.at # "trim"
          BY <1>6 DEF Recording
    <2> HIDE DEF Touching, Recording
    <2> QED BY <1>7, <2>1, <2>2, <2>3, <2>4 DEF FeedCallGood, WrittenBy
  <1>10. RowsGood' /\ FeedCallsGood'
        BY <1>4, <1>7, <1>9, StillKeeps
  <1>11. EventRowsTrue' /\ SentTrue'
        BY <1>4, EventsKeep DEF FeedInv, eventVars
  <1>12. Trimmed'
    <2>1. feedCall[c].at = "idle" /\ feedCall'[c].at \in {"insert", "merge", "delete"}
          BY <1>6, <1>7 DEF Quiet
    <2>2. Trimmers' = Trimmers
          BY <1>7, <2>1, TrimmersSame DEF OthersSame
    <2> QED BY <2>2 DEF FeedInv, Trimmed, eventVars
  <1> QED BY <1>8, <1>10, <1>11, <1>12 DEF FeedInv

\* A request to create a record begins.
LEMMA CreateKeeps ==
    ASSUME FeedInv, NEW c \in FeedCalls, NEW org \in Tenants, NEW api \in BOOLEAN, CreateRecord(c, org, api)
    PROVE  FeedInv'
  <1> PICK k : k = [Quiet EXCEPT !.at = "insert", !.api = api]
      OBVIOUS
  <1>1. k \in FeedCallState /\ k.at = "insert"
        BY QuietTyped DEF FeedCallState, Steps
  <1> QED BY <1>1, BeginsKeep DEF CreateRecord, Touching

\* A request to delete a record has found it to be its organization's.
LEMMA CheckKeeps ==
    ASSUME FeedInv, NEW c \in FeedCalls, NEW org \in Tenants, NEW api \in BOOLEAN, NEW i \in RecordIds,
           CheckOwner(c, org, api, i)
    PROVE  FeedInv'
  <1>0. i \in 1..lastId
        BY DEF CheckOwner, FeedInv, RowsGood
  <1> PICK k : k = [Quiet EXCEPT !.at = "delete", !.id = i, !.api = api]
      OBVIOUS
  <1>1. i \in 0..MaxRecords
        BY FeedNumbers DEF RecordIds
  <1>2. k \in FeedCallState /\ k.at = "delete" /\ k.id = i
        BY <1>1, QuietTyped DEF FeedCallState, Steps
  <1>3. org \in {record[i].org, 0}
        BY DEF CheckOwner, MayTouch
  <1> QED BY <1>0, <1>2, <1>3, BeginsKeep DEF CheckOwner, Touching

\* A request to change a record has read it.
LEMMA ReadKeeps ==
    ASSUME FeedInv, NEW c \in FeedCalls, NEW org \in Tenants, NEW api \in BOOLEAN, NEW i \in RecordIds,
           NEW fs \in SUBSET Fields, ReadRecord(c, org, api, i, fs)
    PROVE  FeedInv'
  <1>0. i \in 1..lastId
        BY DEF ReadRecord, FeedInv, RowsGood
  <1> PICK k : k = [Quiet EXCEPT !.at = "merge", !.id = i, !.copy = record[i].data, !.set = fs, !.api = api]
      OBVIOUS
  <1>1. i \in 0..MaxRecords
        BY FeedNumbers DEF RecordIds
  <1>2. record[i].data \in [Fields -> Value]
        BY DEF FeedInv, FeedTypes, RecordRow
  <1>3. k \in FeedCallState /\ k.at = "merge" /\ k.id = i /\ k.copy = record[i].data
        BY <1>1, <1>2, QuietTyped DEF FeedCallState, Steps
  <1>4. org \in {record[i].org, 0}
        BY DEF ReadRecord, MayTouch
  <1> QED BY <1>0, <1>3, <1>4, BeginsKeep DEF ReadRecord, Touching

----------------------------------------------------------------------------

\* A call goes quiet, and nothing else changes.
LEMMA FailKeeps ==
    ASSUME FeedInv, NEW c \in FeedCalls, CallFails(c)
    PROVE  FeedInv'
  <1>1. /\ feedCall' \in [FeedCalls -> FeedCallState] /\ feedCall'[c] = Quiet /\ OthersSame(c) /\ author' = author
        BY QuietTyped, GoesOn DEF CallFails, FeedInv
  <1>2. UNCHANGED recordVars /\ UNCHANGED eventVars
        BY DEF CallFails
  <1>3. FeedGrows
        BY <1>1, <1>2, StillGrows DEF FeedInv
  <1>4. FeedTypes'
        BY <1>1, <1>2, StillTyped DEF FeedInv, FeedTypes, eventVars
  <1>5. FeedCallGood(c)'
        BY <1>1 DEF FeedCallGood, Quiet, Touching, Recording
  <1>6. RowsGood' /\ FeedCallsGood'
        BY <1>1, <1>2, <1>3, <1>5, StillKeeps
  <1>7. EventRowsTrue' /\ SentTrue'
        BY <1>2, <1>3, EventsKeep DEF FeedInv, eventVars
  <1>8. Trimmed'
    <2>1. feedCall[c].at \in {"insert", "merge", "delete"} /\ feedCall'[c].at = "idle"
          BY <1>1 DEF CallFails, Quiet
    <2>2. Trimmers' = Trimmers
          BY <1>1, <2>1, TrimmersSame DEF OthersSame
    <2> QED BY <1>2, <2>2 DEF FeedInv, Trimmed, eventVars
  <1> QED BY <1>4, <1>6, <1>7, <1>8 DEF FeedInv

\* Steps of the recorder: the call goes on with its event.
LEMMA RecorderKeeps ==
    ASSUME FeedInv, NEW c \in FeedCalls, NEW k \in FeedCallState, CallGoes(c, k), UNCHANGED recordVars,
           feedCall[c].at \in Recording, k.at \in Recording, k.event = feedCall[c].event,
           k.at = "trim" => k.excess > 0,
           eventRows' \in Seq(Event), untrimmed' \in BOOLEAN, sse' = sse, EventRowsTrue', Trimmed'
    PROVE  FeedInv'
  <1>1. /\ feedCall' \in [FeedCalls -> FeedCallState] /\ feedCall'[c] = k /\ OthersSame(c) /\ author' = author
        BY GoesOn DEF FeedInv
  <1>3. FeedGrows
        BY <1>1, StillGrows DEF FeedInv
  <1>4. FeedTypes'
        BY <1>1, StillTyped DEF FeedInv, FeedTypes
  <1>5. FeedCallGood(c)'
    <2> PICK e : e = k.event
        OBVIOUS
    <2>1. EventTrue(e)
          BY DEF FeedInv, FeedCallsGood, FeedCallGood
    <2>2. EventTrue(e)'
          BY <1>3, <2>1, EventKeeps DEF FeedInv
    <2>3. k.at # "insert" /\ k.at \notin Touching /\ k.at # "merge"
          BY DEF Recording, Touching
    <2> QED BY <1>1, <2>2, <2>3 DEF FeedCallGood, EventTrue
  <1>6. RowsGood' /\ FeedCallsGood'
        BY <1>1, <1>3, <1>5, StillKeeps
  <1>7. SentTrue'
        BY <1>3, EventsKeep DEF FeedInv
  <1> QED BY <1>4, <1>6, <1>7 DEF FeedInv

\* A call's state with other fields.
LEMMA CallMoved ==
    ASSUME NEW k \in FeedCallState, NEW at \in Steps, NEW n \in Nat
    PROVE  /\ [k EXCEPT !.at = at] \in FeedCallState
           /\ [k EXCEPT !.at = at].at = at /\ [k EXCEPT !.at = at].event = k.event
           /\ [k EXCEPT !.at = at, !.excess = n] \in FeedCallState
           /\ [k EXCEPT !.at = at, !.excess = n].at = at /\ [k EXCEPT !.at = at, !.excess = n].event = k.event
           /\ [k EXCEPT !.at = at, !.excess = n].excess = n
  BY DEF FeedCallState

\* The event is inserted: one row more, one trimmer more.
LEMMA RecordEventKeeps ==
    ASSUME FeedInv, NEW c \in FeedCalls, RecordEvent(c)
    PROVE  FeedInv'
  <1>0. feedCall[c] \in FeedCallState /\ feedCall[c].at = "record" /\ UNCHANGED <<recordVars, sse, untrimmed>>
        BY DEF RecordEvent, FeedInv, FeedTypes
  <1>1. CASE eventRows' = Append(eventRows, feedCall[c].event) /\ CallGoes(c, [feedCall[c] EXCEPT !.at = "count"])
    <2> PICK k : k = [feedCall[c] EXCEPT !.at = "count"]
        OBVIOUS
    <2> PICK e : e = feedCall[c].event
        OBVIOUS
    <2> PICK n : n = Len(eventRows)
        OBVIOUS
    <2>1. k \in FeedCallState /\ k.at = "count" /\ k.event = e
          BY <1>0, CallMoved DEF Steps
    <2>2. EventTrue(e) /\ e \in Event
          BY <1>0 DEF FeedInv, FeedCallsGood, FeedCallGood, Recording, EventTrue
    <2>3. eventRows \in Seq(Event) /\ n \in Nat
          BY DEF FeedInv, FeedTypes
    <2>4. /\ eventRows' \in Seq(Event) /\ Len(eventRows') = n + 1 /\ eventRows'[n + 1] = e
          /\ \A i \in 1..n : eventRows'[i] = eventRows[i]
          BY <1>1, <2>2, <2>3, AppendProperties
    <2>5. feedCall'[c] = k /\ OthersSame(c) /\ author' = author
          BY <1>1, <2>1, GoesOn DEF FeedInv
    <2>6. FeedGrows
          BY <1>0, <2>5, StillGrows DEF FeedInv
    <2>7. EventRowsTrue'
      <3>1. ASSUME NEW i \in 1..Len(eventRows') PROVE EventTrue(eventRows[i])'
        <4> PICK x : x = eventRows'[i]
            OBVIOUS
        <4>1. i = n + 1 \/ i \in 1..n
              BY <2>3, <2>4
        <4>2. EventTrue(x)
              BY <2>2, <2>4, <4>1 DEF FeedInv, EventRowsTrue
        <4>3. EventTrue(x)'
              BY <2>6, <4>2, EventKeeps DEF FeedInv
        <4> QED BY <4>3 DEF EventTrue
      <3> QED BY <3>1 DEF EventRowsTrue
    <2>8. Trimmed'
      <3>1. Cardinality(Trimmers') = Cardinality(Trimmers) + 1
            BY <1>0, <2>1, <2>5, TrimmerEnters DEF OthersSame
      <3>2. Cardinality(Trimmers) \in Nat
            BY TrimmersFinite
      <3>3. untrimmed' = untrimmed
            BY <1>0
      <3> QED BY <2>3, <2>4, <3>1, <3>2, <3>3, FeedNumbers DEF FeedInv, Trimmed
    <2> QED BY <1>0, <1>1, <2>1, <2>4, <2>7, <2>8, RecorderKeeps DEF FeedInv, FeedTypes, Recording
  <1>2. CASE CallGoes(c, [feedCall[c] EXCEPT !.at = "stream"]) /\ UNCHANGED eventRows
    <2> PICK k : k = [feedCall[c] EXCEPT !.at = "stream"]
        OBVIOUS
    <2>1. k \in FeedCallState /\ k.at = "stream" /\ k.event = feedCall[c].event
          BY <1>0, CallMoved DEF Steps
    <2>5. feedCall'[c] = k /\ OthersSame(c) /\ author' = author
          BY <1>2, <2>1, GoesOn DEF FeedInv
    <2>6. FeedGrows
          BY <1>0, <2>5, StillGrows DEF FeedInv
    <2>7. EventRowsTrue'
          BY <1>2, <2>6, EventsKeep DEF FeedInv
    <2>8. Trimmed'
      <3>1. Trimmers' = Trimmers
            BY <1>0, <2>1, <2>5, TrimmersSame DEF OthersSame
      <3> QED BY <1>0, <1>2, <3>1 DEF FeedInv, Trimmed
    <2> QED BY <1>0, <1>2, <2>1, <2>7, <2>8, RecorderKeeps DEF FeedInv, FeedTypes, Recording
  <1> QED BY <1>1, <1>2 DEF RecordEvent

\* The rows are counted: the excess is what is above the cap.
LEMMA RecordCountKeeps ==
    ASSUME FeedInv, NEW c \in FeedCalls, CountEvents(c)
    PROVE  FeedInv'
  <1> PICK n : n = Len(eventRows)
      OBVIOUS
  <1> PICK at : at = IF n > EventCap THEN "trim" ELSE "stream"
      OBVIOUS
  <1> PICK x : x = IF n > EventCap THEN n - EventCap ELSE 0
      OBVIOUS
  <1> PICK k : k = [feedCall[c] EXCEPT !.at = at, !.excess = x]
      OBVIOUS
  <1>0. /\ feedCall[c] \in FeedCallState /\ feedCall[c].at = "count" /\ UNCHANGED <<recordVars, eventVars>>
        /\ CallGoes(c, k)
        BY DEF CountEvents, FeedInv, FeedTypes
  <1>1. n \in Nat /\ x \in Nat /\ at \in Steps /\ (at = "trim" => x > 0) /\ at \in {"trim", "stream"} /\ (at = "stream" => n <= EventCap)
        BY FeedNumbers DEF FeedInv, FeedTypes, Steps
  <1>2. k \in FeedCallState /\ k.at = at /\ k.event = feedCall[c].event /\ k.excess = x
    <2> PICK j \in FeedCallState : j = feedCall[c]
        BY <1>0
    <2>1. at \in Steps /\ x \in Nat /\ k = [j EXCEPT !.at = at, !.excess = x]
          BY <1>1
    <2>2. k \in FeedCallState /\ k.at = at /\ k.event = j.event /\ k.excess = x
          BY <2>1 DEF FeedCallState
    <2> QED BY <2>2
  <1>3. feedCall'[c] = k /\ OthersSame(c) /\ author' = author
        BY <1>0, <1>2, GoesOn DEF FeedInv
  <1>4. FeedGrows
        BY <1>0, <1>3, StillGrows DEF FeedInv
  <1>5. EventRowsTrue'
        BY <1>0, <1>4, EventsKeep DEF FeedInv, eventVars
  <1>6. Trimmed'
    <2>1. CASE at = "trim"
      <3>1. Trimmers' = Trimmers
            BY <1>0, <1>2, <1>3, <2>1, TrimmersSame DEF OthersSame
      <3> QED BY <1>0, <3>1 DEF FeedInv, Trimmed, eventVars
    <2>2. CASE at = "stream"
      <3>1. Cardinality(Trimmers') \in Nat
            BY <1>0, <1>2, <1>3, <2>2, TrimmerLeaves DEF OthersSame
      <3>2. Len(eventRows') = n
            BY <1>0 DEF eventVars
      <3> QED BY <1>1, <2>2, <3>1, <3>2, FeedNumbers DEF Trimmed
    <2> QED BY <1>1, <2>1, <2>2
  <1> QED BY <1>0, <1>1, <1>2, <1>5, <1>6, RecorderKeeps DEF FeedInv, FeedTypes, Recording, eventVars

\* The oldest events go.
LEMMA TrimKeeps ==
    ASSUME FeedInv, NEW c \in FeedCalls, TrimEvents(c)
    PROVE  FeedInv'
  <1> PICK m : m = Len(eventRows)
      OBVIOUS
  <1> PICK x : x = feedCall[c].excess
      OBVIOUS
  <1> PICK n : n = IF x > m THEN m ELSE x
      OBVIOUS
  <1> PICK k : k = [feedCall[c] EXCEPT !.at = "stream"]
      OBVIOUS
  <1>0. /\ feedCall[c] \in FeedCallState /\ feedCall[c].at = "trim" /\ UNCHANGED <<recordVars, sse, untrimmed>>
        /\ CallGoes(c, k) /\ eventRows' = SubSeq(eventRows, n + 1, m) /\ eventRows \in Seq(Event)
        BY DEF TrimEvents, FeedInv, FeedTypes
  <1>1. m \in Nat /\ x \in Nat /\ x > 0 /\ n \in Nat /\ n <= m /\ (n > 0 \/ m = 0)
        BY <1>0 DEF FeedInv, FeedCallsGood, FeedCallGood, FeedCallState
  <1>2. k \in FeedCallState /\ k.at = "stream" /\ k.event = feedCall[c].event
        BY <1>0, CallMoved DEF Steps
  <1>3. feedCall'[c] = k /\ OthersSame(c) /\ author' = author
        BY <1>0, <1>2, GoesOn DEF FeedInv
  <1>4. FeedGrows
        BY <1>0, <1>3, StillGrows DEF FeedInv
  <1>5. /\ eventRows' \in Seq(Event) /\ Len(eventRows') = m - n
        /\ \A i \in 1..(m - n) : eventRows'[i] = eventRows[n + i]
    <2>1. \A i \in (n + 1)..m : eventRows[i] \in Event
          BY <1>0, <1>1
    <2>2. n + 1 \in Int /\ m \in Int
          BY <1>1
    <2> PICK t : t = SubSeq(eventRows, n + 1, m)
        OBVIOUS
    <2>3. /\ t \in Seq(Event) /\ Len(t) = IF n + 1 <= m THEN m - (n + 1) + 1 ELSE 0
          /\ \A i \in 1..(m - (n + 1) + 1) : t[i] = eventRows[(n + 1) + i - 1]
          BY <2>1, <2>2, SubSeqProperties
    <2>4. Len(t) = m - n
          BY <1>1, <2>3
    <2>5. ASSUME NEW i \in 1..(m - n) PROVE t[i] = eventRows[n + i]
      <3>1. i \in 1..(m - (n + 1) + 1) /\ (n + 1) + i - 1 = n + i
            BY <1>1
      <3> QED BY <2>3, <3>1
    <2>6. eventRows' = t
          BY <1>0
    <2> QED BY <2>3, <2>4, <2>5, <2>6
  <1>6. EventRowsTrue'
    <2>1. ASSUME NEW i \in 1..Len(eventRows') PROVE EventTrue(eventRows[i])'
      <3> PICK e : e = eventRows'[i]
          OBVIOUS
      <3>1. i \in 1..(m - n) /\ n + i \in 1..m
            BY <1>1, <1>5
      <3>2. EventTrue(e)
            BY <1>5, <3>1 DEF FeedInv, EventRowsTrue
      <3>3. EventTrue(e)'
            BY <1>4, <3>2, EventKeeps DEF FeedInv
      <3> QED BY <3>3 DEF EventTrue
    <2> QED BY <2>1 DEF EventRowsTrue
  <1>7. Trimmed'
    <2>1. Cardinality(Trimmers') = Cardinality(Trimmers) - 1 /\ Cardinality(Trimmers) > 0 /\ Cardinality(Trimmers') \in Nat
          BY <1>0, <1>2, <1>3, TrimmerLeaves DEF OthersSame
    <2>2. Cardinality(Trimmers) \in Nat
          BY TrimmersFinite
    <2>3. untrimmed' = untrimmed /\ Len(eventRows') = m - n
          BY <1>0, <1>5
    <2> QED BY <1>1, <2>1, <2>2, <2>3, FeedNumbers DEF FeedInv, Trimmed
  <1> QED BY <1>0, <1>2, <1>5, <1>6, <1>7, RecorderKeeps DEF FeedInv, FeedTypes, Recording

\* A trim that fails is the excuse of the cap.
LEMMA TrimFailKeeps ==
    ASSUME FeedInv, NEW c \in FeedCalls, TrimFails(c)
    PROVE  FeedInv'
  <1> PICK k : k = [feedCall[c] EXCEPT !.at = "stream"]
      OBVIOUS
  <1>0. /\ feedCall[c] \in FeedCallState /\ feedCall[c].at \in {"count", "trim"} /\ UNCHANGED <<recordVars, sse, eventRows>>
        /\ CallGoes(c, k) /\ untrimmed' = TRUE
        BY DEF TrimFails, FeedInv, FeedTypes
  <1>2. k \in FeedCallState /\ k.at = "stream" /\ k.event = feedCall[c].event
        BY <1>0, CallMoved DEF Steps
  <1>3. author' = author
        BY <1>0, <1>2, GoesOn DEF FeedInv
  <1>4. FeedGrows
        BY <1>0, <1>3, StillGrows DEF FeedInv
  <1>5. EventRowsTrue'
        BY <1>0, <1>4, EventsKeep DEF FeedInv
  <1>6. Trimmed'
        BY <1>0 DEF Trimmed
  <1>7. untrimmed' \in BOOLEAN
        BY <1>0
  <1> QED BY <1>0, <1>2, <1>5, <1>6, <1>7, RecorderKeeps DEF FeedInv, FeedTypes, Recording

\* The SSE client is sent the event, or nobody is subscribed.
LEMMA StreamKeeps ==
    ASSUME FeedInv, NEW c \in FeedCalls, StreamEvent(c)
    PROVE  FeedInv'
  <1> PICK e : e = feedCall[c].event
      OBVIOUS
  <1>0. /\ feedCall[c].at = "stream" /\ UNCHANGED recordVars /\ UNCHANGED <<eventRows, untrimmed>>
        /\ CallGoes(c, Quiet) /\ (sse' = sse \/ sse' = [sse EXCEPT !.sent = {e}])
        BY DEF StreamEvent
  <1>1. /\ feedCall' \in [FeedCalls -> FeedCallState] /\ feedCall'[c] = Quiet /\ OthersSame(c) /\ author' = author
        BY <1>0, QuietTyped, GoesOn DEF FeedInv
  <1>2. EventTrue(e) /\ e \in Event
        BY <1>0 DEF FeedInv, FeedCallsGood, FeedCallGood, Recording, EventTrue
  <1>3. FeedGrows
        BY <1>0, <1>1, StillGrows DEF FeedInv
  <1>4. sse \in [on : BOOLEAN, sent : SUBSET Event]
        BY DEF FeedInv, FeedTypes
  <1>5. sse' \in [on : BOOLEAN, sent : SUBSET Event] /\ (sse' = sse \/ sse'.sent = {e})
        BY <1>0, <1>2, <1>4
  <1>6. FeedTypes'
        BY <1>0, <1>1, <1>5, StillTyped DEF FeedInv, FeedTypes
  <1>7. FeedCallGood(c)'
        BY <1>1 DEF FeedCallGood, Quiet, Touching, Recording
  <1>8. RowsGood' /\ FeedCallsGood'
        BY <1>0, <1>1, <1>3, <1>7, StillKeeps
  <1>9. EventRowsTrue'
        BY <1>0, <1>3, EventsKeep DEF FeedInv
  <1>10. SentTrue'
    <2>1. CASE sse' = sse
          BY <1>3, <2>1, EventsKeep DEF FeedInv
    <2>2. CASE sse'.sent = {e}
      <3>1. EventTrue(e)'
            BY <1>2, <1>3, EventKeeps DEF FeedInv
      <3> QED BY <2>2, <3>1 DEF SentTrue
    <2> QED BY <1>5, <2>1, <2>2
  <1>11. Trimmed'
    <2>1. feedCall'[c].at = "idle"
          BY <1>1 DEF Quiet
    <2>2. Trimmers' = Trimmers
          BY <1>0, <1>1, <2>1, TrimmersSame DEF OthersSame
    <2> QED BY <1>0, <2>2 DEF FeedInv, Trimmed
  <1> QED BY <1>6, <1>8, <1>9, <1>10, <1>11 DEF FeedInv

\* A client comes, or goes, with nothing sent.
LEMMA ClientKeeps ==
    ASSUME FeedInv, SubscribeSSE \/ UnsubscribeSSE
    PROVE  FeedInv'
  <1>0. UNCHANGED recordVars /\ UNCHANGED <<feedCall, eventRows, author, untrimmed>>
        BY DEF SubscribeSSE, UnsubscribeSSE
  <1>1. sse' \in [on : BOOLEAN, sent : SUBSET Event] /\ sse'.sent = {}
    <2>1. PICK b \in BOOLEAN : sse' = [on |-> b, sent |-> {}]
          BY DEF SubscribeSSE, UnsubscribeSSE
    <2> QED BY <2>1
  <1>2. FeedTypes'
        BY <1>0, <1>1, StillTyped DEF FeedInv, FeedTypes
  <1>3. SentTrue'
        BY <1>1 DEF SentTrue
  <1>4. Trimmed'
        BY <1>0 DEF FeedInv, Trimmed, Trimmers
  <1>5. RowsGood' /\ FeedCallsGood' /\ EventRowsTrue'
    <2>1. record' = record /\ lastId' = lastId /\ lastWrite' = lastWrite /\ erased' = erased /\ stale' = stale
          BY <1>0 DEF recordVars
    <2> QED BY <1>0, <2>1 DEF FeedInv, RowsGood, RowGood, FeedCallsGood, FeedCallGood, EventRowsTrue,
                  EventTrue, WrittenBy
  <1> QED BY <1>2, <1>3, <1>4, <1>5 DEF FeedInv

\* A mutation is announced by the API, and by nobody else.
LEMMA Announces ==
    ASSUME FeedInv, NEW c \in FeedCalls, NEW e \in Event, CallAnnounces(c, e)
    PROVE  /\ feedCall' \in [FeedCalls -> FeedCallState] /\ OthersSame(c) /\ author' = author
           /\ EventTrue(e)' => FeedCallGood(c)'
           /\ feedCall'[c].at \in {"idle", "record"}
  <1> PICK k : k = IF feedCall[c].api THEN [feedCall[c] EXCEPT !.at = "record", !.event = e] ELSE Quiet
      OBVIOUS
  <1>1. feedCall[c] \in FeedCallState
        BY DEF FeedInv, FeedTypes
  <1>2. k \in FeedCallState /\ (k = Quiet \/ (k.at = "record" /\ k.event = e))
    <2>1. CASE feedCall[c].api
      <3>1. k = [feedCall[c] EXCEPT !.at = "record", !.event = e]
            BY <2>1
      <3> QED BY <1>1, <3>1 DEF FeedCallState, Steps
    <2>2. CASE ~feedCall[c].api
          BY <2>2, QuietTyped
    <2> QED BY <2>1, <2>2
  <1>3. CallGoes(c, k)
        BY DEF CallAnnounces
  <1>4. feedCall' \in [FeedCalls -> FeedCallState] /\ feedCall'[c] = k /\ OthersSame(c) /\ author' = author
        BY <1>2, <1>3, GoesOn DEF FeedInv
  <1>5. k.at \in {"idle", "record"}
        BY <1>2 DEF Quiet
  <1>6. ASSUME EventTrue(e)' PROVE FeedCallGood(c)'
    <2>1. CASE k = Quiet
      <3>1. feedCall'[c].at = "idle"
            BY <1>4, <2>1, QuietTyped
      <3> QED BY <3>1 DEF FeedCallGood, Touching, Recording
    <2>2. CASE k.at = "record" /\ k.event = e
          BY <1>4, <1>6, <2>2 DEF FeedCallGood, Touching, Recording, EventTrue
    <2> QED BY <1>2, <2>1, <2>2
  <1> QED BY <1>4, <1>5, <1>6

\* What is left of a mutation once the records are settled.
LEMMA MutationKeeps ==
    ASSUME FeedInv, NEW c \in FeedCalls, NEW e \in Event, CallAnnounces(c, e), UNCHANGED eventVars,
           feedCall[c].at \in {"insert", "merge", "delete"},
           FeedGrows, EventTrue(e)', RowsGood', 
           record' \in [RecordIds -> RecordRow], lastWrite' \in [RecordIds -> [Fields -> Value]],
           erased' \in SUBSET (1..lastId'), stale' \in SUBSET RecordIds,
           \A d \in FeedCalls \ {c} :
             feedCall[d].at = "merge" /\ record'[feedCall[d].id].there /\ feedCall[d].id \notin stale' =>
               record'[feedCall[d].id].data = record[feedCall[d].id].data
    PROVE  FeedInv'
  <1>1. /\ feedCall' \in [FeedCalls -> FeedCallState] /\ OthersSame(c) /\ author' = author
        /\ FeedCallGood(c)' /\ feedCall'[c].at \in {"idle", "record"}
        BY Announces
  <1>2. eventRows' = eventRows /\ sse' = sse /\ untrimmed' = untrimmed
        BY DEF eventVars
  <1>3. FeedTypes'
        BY <1>1, <1>2 DEF FeedInv, FeedTypes, FeedGrows
  <1>4. FeedCallsGood'
    <2>1. ASSUME NEW d \in FeedCalls, d # c PROVE FeedCallGood(d)'
          BY <2>1, <1>1, CallKeeps DEF FeedInv, FeedCallsGood, OthersSame
    <2> HIDE DEF FeedCallGood
    <2> QED BY <1>1, <2>1 DEF FeedCallsGood
  <1>5. EventRowsTrue' /\ SentTrue'
        BY <1>2, EventsKeep DEF FeedInv
  <1>6. Trimmed'
    <2>1. Trimmers' = Trimmers
          BY <1>1, TrimmersSame DEF OthersSame
    <2> QED BY <1>2, <2>1 DEF FeedInv, Trimmed
  <1> QED BY <1>3, <1>4, <1>5, <1>6 DEF FeedInv

\* The record is inserted under a new id.
LEMMA InsertKeeps ==
    ASSUME FeedInv, NEW c \in FeedCalls, InsertRecord(c)
    PROVE  FeedInv'
  <1> PICK n : n = feedCall[c].no
      OBVIOUS
  <1> PICK i : i = lastId + 1
      OBVIOUS
  <1> PICK w : w = [f \in Fields |-> n]
      OBVIOUS
  <1> PICK x : x = [org |-> author[n], there |-> TRUE, data |-> w]
      OBVIOUS
  <1> PICK e : e = [type |-> "create", id |-> i]
      OBVIOUS
  <1>0. /\ feedCall[c].at = "insert" /\ lastId < MaxRecords /\ lastId' = i
        /\ record' = [record EXCEPT ![i] = x] /\ lastWrite' = [lastWrite EXCEPT ![i] = w]
        /\ CallAnnounces(c, e) /\ erased' = erased /\ stale' = stale /\ UNCHANGED eventVars
        BY DEF InsertRecord
  <1>1. /\ lastId \in Nat /\ i \in RecordIds /\ i \in 1..i /\ i \notin 1..lastId /\ (1..lastId) \subseteq (1..i)
        /\ (1..i) \subseteq (1..lastId) \cup {i} /\ i \in 0..MaxRecords /\ lastId <= i /\ (1..lastId) \subseteq RecordIds
        BY <1>0, FeedNumbers DEF FeedInv, FeedTypes, RecordIds
  <1>2. n \in 1..Len(author) /\ n \in Value /\ n # 0 /\ author[n] \in Tenants
    <2>1. n \in 1..Len(author)
          BY <1>0 DEF FeedInv, FeedCallsGood, FeedCallGood
    <2>2. author \in Seq(Tenants) /\ Len(author) \in Nat /\ Len(author) <= MaxFeedCalls
          BY DEF FeedInv, FeedTypes
    <2> QED BY <2>1, <2>2, FeedNumbers DEF Value
  <1>3. w \in [Fields -> Value] /\ x \in RecordRow /\ e \in Event
        BY <1>1, <1>2 DEF RecordRow, Event
  <1>4. /\ record \in [RecordIds -> RecordRow] /\ lastWrite \in [RecordIds -> [Fields -> Value]]
        /\ erased \in SUBSET (1..lastId) /\ stale \in SUBSET RecordIds
        BY DEF FeedInv, FeedTypes
  <1>5. /\ record' \in [RecordIds -> RecordRow] /\ lastWrite' \in [RecordIds -> [Fields -> Value]]
        /\ record'[i] = x /\ lastWrite'[i] = w
        /\ \A j \in RecordIds \ {i} : record'[j] = record[j] /\ lastWrite'[j] = lastWrite[j]
        BY <1>0, <1>1, <1>3, <1>4
  <1>6. author' = author
        BY <1>0, <1>3, Announces
  <1>7. \A j \in 1..lastId : record'[j] = record[j] /\ lastWrite'[j] = lastWrite[j]
        BY <1>1, <1>5
  <1>8. FeedGrows
    <2>1. Len(author) \in Nat
          BY DEF FeedInv, FeedTypes
    <2> QED BY <1>0, <1>1, <1>6, <1>7, <2>1 DEF FeedGrows, FeedInv, FeedTypes
  <1>9. EventTrue(e)'
        BY <1>0, <1>1, <1>3 DEF EventTrue
  <1>10. RowsGood'
    <2>1. ASSUME NEW j \in 1..lastId PROVE RowGood(j)'
          BY <1>0, <1>7, <1>8, RowKeeps DEF FeedInv, RowsGood
    <2>2. RowGood(i)'
      <3>1. x.there = TRUE /\ x.data = w /\ x.org = author[n] /\ \A f \in Fields : w[f] = n
            OBVIOUS
      <3>2. i \notin erased'
            BY <1>0, <1>1, <1>4
      <3> QED BY <1>2, <1>5, <1>6, <3>1, <3>2 DEF RowGood, WrittenBy
    <2>3. \A j \in RecordIds : record'[j].there => j \in 1..i
      <3>1. \A j \in RecordIds : record[j].there => j \in 1..lastId
            BY DEF FeedInv, RowsGood
      <3> QED BY <1>1, <1>5, <3>1
    <2> HIDE DEF RowGood
    <2>4. \A j \in 1..i : RowGood(j)'
          BY <1>1, <2>1, <2>2
    <2> QED BY <1>0, <2>3, <2>4 DEF RowsGood
  <1>11. \A d \in FeedCalls \ {c} : feedCall[d].at = "merge" => record'[feedCall[d].id] = record[feedCall[d].id]
    <2>1. \A d \in FeedCalls : feedCall[d].at = "merge" => feedCall[d].id \in 1..lastId
          BY DEF FeedInv, FeedCallsGood, FeedCallGood, Touching
    <2> QED BY <1>7, <2>1
  <1>12. erased' \in SUBSET (1..lastId') /\ stale' \in SUBSET RecordIds
        BY <1>0, <1>1, <1>4
  <1> QED BY <1>0, <1>3, <1>5, <1>8, <1>9, <1>10, <1>11, <1>12, MutationKeeps

\* The UPDATE of a record that is there.
LEMMA UpdateKeeps ==
    ASSUME FeedInv, NEW c \in FeedCalls, UpdateRecord(c)
    PROVE  FeedInv'
  <1> PICK k : k = feedCall[c]
      OBVIOUS
  <1> PICK i : i = k.id
      OBVIOUS
  <1> PICK w : w = Merged(k)
      OBVIOUS
  <1> PICK e : e = [type |-> "update", id |-> i]
      OBVIOUS
  <1> DEFINE others == {d \in FeedCalls \ {c} : feedCall[d].at = "merge" /\ feedCall[d].id = i}
  <1>0. /\ k.at = "merge" /\ k \in FeedCallState /\ CallAnnounces(c, e) /\ lastId' = lastId /\ erased' = erased
        /\ UNCHANGED eventVars
        BY DEF UpdateRecord, FeedInv, FeedTypes
  <1>1. /\ i \in 1..lastId /\ k.no \in 1..Len(author) /\ author[k.no] \in {record[i].org, 0}
        /\ (record[i].there /\ i \notin stale => k.copy = record[i].data)
        /\ \A f \in Fields : WrittenBy(k.copy[f], record[i].org)
        BY <1>0 DEF FeedInv, FeedCallsGood, FeedCallGood, Touching
  <1>2. i \in RecordIds /\ (1..lastId) \subseteq RecordIds /\ lastId \in Nat /\ lastId <= lastId /\ Len(author) \in Nat /\ Len(author) <= Len(author)
        BY <1>1, FeedNumbers DEF FeedInv, FeedTypes, RecordIds
  <1>3. /\ record \in [RecordIds -> RecordRow] /\ lastWrite \in [RecordIds -> [Fields -> Value]]
        /\ erased \in SUBSET (1..lastId) /\ stale \in SUBSET RecordIds
        BY DEF FeedInv, FeedTypes
  <1>4. e \in Event
        BY <1>2 DEF Event
  <1>5. author' = author
        BY <1>0, <1>4, Announces
  <1>6. EventTrue(e)'
        BY <1>0, <1>1, <1>4 DEF EventTrue
  <1>7. CASE record[i].there
    <2>0. /\ record' = [record EXCEPT ![i].data = w]
          /\ lastWrite' = [lastWrite EXCEPT ![i] = [f \in Fields |-> IF f \in k.set THEN k.no ELSE @[f]]]
          /\ stale' = IF others # {} THEN stale \cup {i} ELSE stale
          BY <1>7 DEF UpdateRecord
    <2>1. w \in [Fields -> Value] /\ \A f \in Fields : w[f] = IF f \in k.set THEN k.no ELSE k.copy[f]
          BY <1>0 DEF FeedCallState, Merged
    <2>2. /\ record' \in [RecordIds -> RecordRow]
          /\ record'[i].data = w /\ record'[i].there = record[i].there /\ record'[i].org = record[i].org
          /\ \A j \in RecordIds \ {i} : record'[j] = record[j]
          BY <1>2, <1>3, <2>0, <2>1 DEF RecordRow
    <2>3. /\ lastWrite' \in [RecordIds -> [Fields -> Value]]
          /\ \A f \in Fields : lastWrite'[i][f] = IF f \in k.set THEN k.no ELSE lastWrite[i][f]
          /\ \A j \in RecordIds \ {i} : lastWrite'[j] = lastWrite[j]
      <3> PICK v : v = [f \in Fields |-> IF f \in k.set THEN k.no ELSE lastWrite[i][f]]
          OBVIOUS
      <3>1. lastWrite' = [lastWrite EXCEPT ![i] = v]
            BY <2>0
      <3>2. v \in [Fields -> Value]
            BY <1>0, <1>2, <1>3 DEF FeedCallState
      <3> QED BY <1>2, <1>3, <3>1, <3>2
    <2>4. stale \subseteq stale' /\ stale' \in SUBSET RecordIds /\ (stale' \ {i}) \subseteq stale /\ (others # {} => i \in stale')
          BY <1>2, <1>3, <2>0
    <2>5. FeedGrows
      <3>1. \A j \in 1..lastId : record'[j].org = record[j].org /\ (record'[j].there => record[j].there)
            BY <1>2, <2>2
      <3> QED BY <1>0, <1>2, <1>5, <2>4, <3>1 DEF FeedGrows, FeedInv, FeedTypes
    <2>6. RowsGood'
      <3>1. ASSUME NEW j \in 1..lastId, j # i PROVE RowGood(j)'
            BY <1>0, <1>2, <2>2, <2>3, <2>5, <3>1, RowKeeps DEF FeedInv, RowsGood
      <3>2. RowGood(i)'
        <4>1. i \notin stale' => record'[i].data = lastWrite'[i]
          <5> SUFFICES ASSUME i \notin stale' PROVE w = lastWrite'[i]
              BY <2>2
          <5>1. k.copy = record[i].data /\ record[i].data = lastWrite[i]
                BY <1>1, <1>7, <2>4 DEF FeedInv, RowsGood, RowGood
          <5>2. lastWrite'[i] \in [Fields -> Value]
                BY <1>2, <2>3
          <5>3. \A f \in Fields : w[f] = lastWrite'[i][f]
                BY <2>1, <2>3, <5>1
          <5> QED BY <2>1, <5>2, <5>3
        <4>2. record'[i].there <=> i \notin erased'
              BY <1>0, <1>1, <2>2 DEF FeedInv, RowsGood, RowGood
        <4>3. \A f \in Fields : WrittenBy(w[f], record[i].org)
              BY <1>1, <2>1 DEF WrittenBy
        <4> QED BY <1>5, <2>2, <4>1, <4>2, <4>3 DEF RowGood, WrittenBy
      <3>3. \A j \in RecordIds : record'[j].there => j \in 1..lastId'
            BY <1>0, <1>1, <2>2 DEF FeedInv, RowsGood
      <3> HIDE DEF RowGood
      <3> QED BY <1>0, <3>1, <3>2, <3>3 DEF RowsGood
    <2>7. ASSUME NEW d \in FeedCalls \ {c}, feedCall[d].at = "merge", feedCall[d].id \notin stale'
          PROVE  record'[feedCall[d].id].data = record[feedCall[d].id].data
      <3>1. feedCall[d].id # i
            BY <2>4, <2>7
      <3>2. feedCall[d].id \in 1..lastId
            BY <2>7 DEF FeedInv, FeedCallsGood, FeedCallGood, Touching
      <3> QED BY <1>2, <2>2, <3>1, <3>2
    <2> HIDE DEF others
    <2> QED BY <1>0, <1>3, <1>4, <1>6, <2>2, <2>3, <2>4, <2>5, <2>6, <2>7, MutationKeeps
  <1>8. CASE ~record[i].there
    <2>0. record' = record /\ lastWrite' = lastWrite /\ stale' = stale
          BY <1>8 DEF UpdateRecord
    <2>1. FeedGrows
          BY <1>0, <1>2, <1>5, <2>0 DEF FeedGrows, FeedInv, FeedTypes
    <2>2. RowsGood'
      <3>1. ASSUME NEW j \in 1..lastId PROVE RowGood(j)'
            BY <1>0, <2>0, <2>1, RowKeeps DEF FeedInv, RowsGood
      <3>2. \A j \in RecordIds : record'[j].there => j \in 1..lastId'
            BY <1>0, <2>0 DEF FeedInv, RowsGood
      <3> HIDE DEF RowGood
      <3> QED BY <1>0, <3>1, <3>2 DEF RowsGood
    <2> HIDE DEF others
    <2> QED BY <1>0, <1>3, <1>4, <1>6, <2>0, <2>1, <2>2, MutationKeeps
  <1> QED BY <1>7, <1>8

\* The record is deleted.
LEMMA DeleteKeeps ==
    ASSUME FeedInv, NEW c \in FeedCalls, DeleteRecord(c)
    PROVE  FeedInv'
  <1> PICK i : i = feedCall[c].id
      OBVIOUS
  <1> PICK e : e = [type |-> "delete", id |-> i]
      OBVIOUS
  <1>0. feedCall[c].at = "delete" /\ lastId' = lastId /\ lastWrite' = lastWrite /\ stale' = stale /\ UNCHANGED eventVars
        BY DEF DeleteRecord
  <1>1. i \in 1..lastId
        BY <1>0 DEF FeedInv, FeedCallsGood, FeedCallGood, Touching
  <1>2. i \in RecordIds /\ (1..lastId) \subseteq RecordIds /\ lastId \in Nat /\ lastId <= lastId /\ Len(author) \in Nat /\ Len(author) <= Len(author)
        BY <1>1, FeedNumbers DEF FeedInv, FeedTypes, RecordIds
  <1>3. /\ record \in [RecordIds -> RecordRow] /\ lastWrite \in [RecordIds -> [Fields -> Value]]
        /\ erased \in SUBSET (1..lastId) /\ stale \in SUBSET RecordIds
        BY DEF FeedInv, FeedTypes
  <1>4. e \in Event
        BY <1>2 DEF Event
  <1>5. CASE record[i].there /\ record' = [record EXCEPT ![i].there = FALSE] /\ erased' = erased \cup {i} /\ CallAnnounces(c, e)
    <2>1. author' = author
          BY <1>4, <1>5, Announces
    <2>2. /\ record' \in [RecordIds -> RecordRow]
          /\ record'[i].data = record[i].data /\ record'[i].there = FALSE /\ record'[i].org = record[i].org
          /\ \A j \in RecordIds \ {i} : record'[j] = record[j]
      <3> PICK x : x = [record[i] EXCEPT !.there = FALSE]
          OBVIOUS
      <3>1. x \in RecordRow /\ x.data = record[i].data /\ x.there = FALSE /\ x.org = record[i].org
            BY <1>2, <1>3 DEF RecordRow
      <3>2. record' = [record EXCEPT ![i] = x]
            BY <1>5
      <3> QED BY <1>2, <1>3, <3>1, <3>2
    <2>3. FeedGrows
      <3>1. \A j \in 1..lastId : record'[j].org = record[j].org /\ (record'[j].there => record[j].there)
            BY <1>2, <2>2
      <3> QED BY <1>0, <1>2, <1>5, <2>1, <3>1 DEF FeedGrows, FeedInv, FeedTypes
    <2>4. EventTrue(e)'
          BY <1>0, <1>1, <1>4, <1>5 DEF EventTrue
    <2>5. RowsGood'
      <3>1. ASSUME NEW j \in 1..lastId, j # i PROVE RowGood(j)'
            BY <1>0, <1>2, <1>5, <2>2, <2>3, <3>1, RowKeeps DEF FeedInv, RowsGood
      <3>2. RowGood(i)'
        <4>1. ASSUME NEW f \in Fields PROVE WrittenBy(record[i].data[f], record[i].org)
              BY <1>1 DEF FeedInv, RowsGood, RowGood
        <4>2. record'[i].there = FALSE /\ i \in erased'
              BY <1>5, <2>2
        <4> QED BY <2>1, <2>2, <4>1, <4>2 DEF RowGood, WrittenBy
      <3>3. \A j \in RecordIds : record'[j].there => j \in 1..lastId'
            BY <1>0, <1>1, <2>2 DEF FeedInv, RowsGood
      <3> HIDE DEF RowGood
      <3> QED BY <1>0, <3>1, <3>2, <3>3 DEF RowsGood
    <2>6. ASSUME NEW d \in FeedCalls \ {c}, feedCall[d].at = "merge"
          PROVE  record'[feedCall[d].id].data = record[feedCall[d].id].data
      <3>1. feedCall[d].id \in 1..lastId
            BY <2>6 DEF FeedInv, FeedCallsGood, FeedCallGood, Touching
      <3> QED BY <1>2, <2>2, <3>1
    <2>7. erased' \in SUBSET (1..lastId') /\ stale' \in SUBSET RecordIds /\ lastWrite' \in [RecordIds -> [Fields -> Value]]
          BY <1>0, <1>1, <1>3, <1>5
    <2> QED BY <1>0, <1>4, <1>5, <2>2, <2>3, <2>4, <2>5, <2>6, <2>7, MutationKeeps
  <1>6. CASE CallGoes(c, Quiet) /\ UNCHANGED <<record, erased>>
    <2>1. /\ feedCall' \in [FeedCalls -> FeedCallState] /\ feedCall'[c] = Quiet /\ OthersSame(c) /\ author' = author
          BY <1>6, QuietTyped, GoesOn DEF FeedInv
    <2>2. UNCHANGED recordVars
          BY <1>0, <1>6 DEF recordVars
    <2>3. FeedGrows
          BY <2>1, <2>2, StillGrows DEF FeedInv
    <2>4. FeedTypes'
          BY <1>0, <2>1, <2>2, StillTyped DEF FeedInv, FeedTypes, eventVars
    <2>5. FeedCallGood(c)'
          BY <2>1 DEF FeedCallGood, Quiet, Touching, Recording
    <2>6. RowsGood' /\ FeedCallsGood'
          BY <2>1, <2>2, <2>3, <2>5, StillKeeps
    <2>7. EventRowsTrue' /\ SentTrue'
          BY <1>0, <2>3, EventsKeep DEF FeedInv, eventVars
    <2>8. Trimmed'
      <3>1. feedCall'[c].at = "idle"
            BY <2>1 DEF Quiet
      <3>2. Trimmers' = Trimmers
            BY <1>0, <2>1, <3>1, TrimmersSame DEF OthersSame
      <3> QED BY <1>0, <3>2 DEF FeedInv, Trimmed, eventVars
    <2> QED BY <2>4, <2>6, <2>7, <2>8 DEF FeedInv
  <1> QED BY <1>5, <1>6 DEF DeleteRecord

\* Every step keeps the invariant.
LEMMA FeedInvStep == FeedInv /\ [FeedNext]_feedVars => FeedInv'
  <1> SUFFICES ASSUME FeedInv, [FeedNext]_feedVars PROVE FeedInv'
      OBVIOUS
  <1>1. CASE UNCHANGED feedVars
        BY <1>1 DEF feedVars, recordVars, eventVars, FeedInv, FeedTypes, RowsGood, RowGood, FeedCallsGood,
             FeedCallGood, EventRowsTrue, SentTrue, EventTrue, WrittenBy, Trimmed, Trimmers
  <1>2. ASSUME NEW c \in FeedCalls, NEW org \in Tenants, NEW api \in BOOLEAN, NEW i \in RecordIds,
               NEW f \in Fields, ReadRecord(c, org, api, i, {f})
        PROVE  FeedInv'
    <2>1. {f} \in SUBSET Fields
          OBVIOUS
    <2> QED BY <1>2, <2>1, ReadKeeps
  <1> QED BY <1>1, <1>2, FailKeeps, RecordEventKeeps, RecordCountKeeps, TrimKeeps, TrimFailKeeps, StreamKeeps,
         ClientKeeps, InsertKeeps, UpdateKeeps, DeleteKeeps, CreateKeeps, CheckKeeps DEF FeedNext

\* An acknowledged write stays until the next one unless two updates of the
\* record overlapped, a delete is final, a record holds only what its
\* organization or a request without one wrote; every event recorded or
\* streamed is true; and the recorder exceeds its cap only by the requests
\* about to trim, or once a trim has failed (components/api/api.go;
\* components/functions/runtime.go;
\* components/internal/eventrecorder/eventrecorder.go).
THEOREM CollectionsHold == FeedSpec => [](FeedTypeOK /\ CollectionsConsistent)
  <1>1. FeedInv /\ [FeedNext]_feedVars => FeedInv'
        BY FeedInvStep
  <1> QED BY <1>1, FeedInvInit, FeedInvCorrect, PTL DEF FeedSpec

-----------------------------------------------------------------------------
(* Rows and the files they name.                                           *)

(* Steps at which the request is the only one to know its id.              *)
Making(c) == diskCall[c].at \in {"write", "meta", "init", "repo", "clone", "upsert"}

\* The ids that rows name.
RowIds == fileRow \cup RepoIds
\* The content is whole, or is being deleted; or an INSERT that reported an error took it away.
Sound(i) == disk[i] = "whole" \/ i \in gone
Settled(i) == Sound(i) \/ i \in emptied

\* What a request holds: who makes a file is alone with it until the row names
\* it, and who read a row finds the file whole or taken away.
DiskCallOK(c) ==
    LET i == diskCall[c].id
    IN  /\ diskCall[c].at = "idle" => i = "none"
        /\ diskCall[c].at # "idle" => i \in Ids \ {"none"}
        /\ diskCall[c].at \in {"init", "repo", "clone", "upsert", "link"} => diskCall[c].name \in RepoNames
        /\ Making(c) => /\ i \notin gone /\ i \notin emptied /\ i \notin RowIds
                        /\ \A n \in RepoNames : link[n] # i
        /\ diskCall[c].at \in {"meta", "repo", "upsert"} => disk[i] = "whole"
        /\ diskCall[c].at = "open" => Settled(i)
        /\ diskCall[c].at = "link" => Sound(i)
        /\ diskCall[c].at = "remove" => i \in gone

\* Every row names a whole file of its own, or one of which nothing is left.
RowsOK ==
    /\ \A i \in RowIds : /\ i \in Ids \ {"none"} /\ i \notin gone
                         /\ disk[i] = IF i \in emptied THEN "nothing" ELSE "whole"
    /\ emptied \subseteq RowIds \cup gone
    /\ \A i \in fileRow : i \notin RepoIds
    /\ \A n, m \in RepoNames : n # m /\ repoRow[n] # "none" => repoRow[n] # repoRow[m]
    /\ \A n \in RepoNames : link[n] # "none" => Sound(link[n])

\* The inductive invariant.
DiskInv ==
    /\ DiskTypeOK
    /\ served = TRUE
    /\ RowsOK
    /\ \A c \in DiskCalls : DiskCallOK(c)
    /\ \A c, d \in DiskCalls : Making(c) /\ d # c => diskCall[d].id # diskCall[c].id

\* Where a request is.
DiskAts == {"idle", "write", "meta", "open", "remove", "init", "repo", "clone", "upsert", "link"}

\* The ids of the repositories' rows.
LEMMA RepoId == \A i : i \in RepoIds <=> i # "none" /\ \E n \in RepoNames : repoRow[n] = i
  BY DEF RepoIds

\* The invariant holds at the start.
LEMMA DiskInvInit == DiskInit => DiskInv
<1> SUFFICES ASSUME DiskInit PROVE DiskInv
  OBVIOUS
<1>1. DiskTypeOK
  BY DiskBounds DEF DiskInit, DiskTypeOK, NoDiskCall
<1>2. RepoIds = {}
  BY DEF DiskInit, RepoIds
<1> QED
  BY <1>1, <1>2 DEF DiskInit, DiskInv, RowsOK, RowIds, DiskCallOK, Making, NoDiskCall

(* Where a request goes, and what a step does to one id on disk.           *)
LEMMA DiskGoesTo ==
    ASSUME DiskTypeOK, NEW c \in DiskCalls, NEW pc \in DiskAts, NEW i \in Ids \cup {"none"},
           NEW n \in RepoNames \cup {"none"}, DiskGoes(c, pc, i, n)
    PROVE  /\ diskCall' \in [DiskCalls -> [at : DiskAts, id : Ids \cup {"none"}, name : RepoNames \cup {"none"}]]
           /\ diskCall'[c].at = pc
           /\ pc = "idle" => diskCall'[c].id = "none"
           /\ pc # "idle" => diskCall'[c].id = i /\ diskCall'[c].name = n
           /\ \A d \in DiskCalls : d # c => diskCall'[d] = diskCall[d]
<1>1. NoDiskCall \in [at : DiskAts, id : Ids \cup {"none"}, name : RepoNames \cup {"none"}]
  BY DEF NoDiskCall, DiskAts
<1>2. diskCall \in [DiskCalls -> [at : DiskAts, id : Ids \cup {"none"}, name : RepoNames \cup {"none"}]]
  BY DEF DiskTypeOK, DiskAts
<1>3. [at |-> pc, id |-> i, name |-> n] \in [at : DiskAts, id : Ids \cup {"none"}, name : RepoNames \cup {"none"}]
  OBVIOUS
<1> QED
  BY <1>1, <1>2, <1>3 DEF DiskGoes, NoDiskCall

(* No request but c has the id j.                                          *)
Own(c, j) == \A d \in DiskCalls : d # c => diskCall[d].id # j

(* What a step of c may change without disturbing the other requests.      *)
LEMMA DiskKeeps ==
    ASSUME DiskInv, NEW c \in DiskCalls, DiskTypeOK', RowsOK', DiskCallOK(c)', served' = TRUE,
           \A d \in DiskCalls : d # c => diskCall'[d] = diskCall[d],
           \A j \in Ids : disk'[j] # disk[j] => j \in gone' \/ Own(c, j),
           gone \subseteq gone', \A j \in gone' : j \in gone \/ j \in RowIds,
           emptied \subseteq emptied', \A j \in emptied' : j \in emptied \/ Own(c, j),
           \A j \in RowIds' : j \in RowIds \/ Own(c, j),
           \A n \in RepoNames : link'[n] # link[n] => \A d \in DiskCalls : d # c /\ Making(d) => diskCall[d].id # link'[n],
           \A d \in DiskCalls : d # c /\ Making(d) => diskCall'[c].id # diskCall[d].id,
           Making(c)' => Own(c, diskCall'[c].id)
    PROVE  DiskInv'
<1>1. ASSUME NEW d \in DiskCalls, d # c PROVE DiskCallOK(d)'
  <2>1. DiskCallOK(d) /\ diskCall'[d] = diskCall[d] /\ (Making(d)' <=> Making(d))
    BY <1>1 DEF DiskInv, Making
  <2>2. CASE diskCall[d].at = "idle"
    BY <2>1, <2>2 DEF DiskCallOK, Making
  <2>3. CASE diskCall[d].at # "idle"
    <3>1. diskCall[d].id \in Ids /\ ~Own(c, diskCall[d].id)
      BY <1>1, <2>1, <2>3 DEF DiskCallOK, Own
    <3>2. Making(d) => diskCall[d].id \notin gone' /\ diskCall[d].id \notin emptied' /\ diskCall[d].id \notin RowIds'
                       /\ disk'[diskCall[d].id] = disk[diskCall[d].id]
      BY <2>1, <3>1 DEF DiskCallOK
    <3>3. Making(d) => \A n \in RepoNames : link'[n] # diskCall[d].id
      BY <1>1, <2>1 DEF DiskCallOK
    <3>4. /\ Sound(diskCall[d].id) => Sound(diskCall[d].id)'
          /\ Settled(diskCall[d].id) => Settled(diskCall[d].id)'
      BY <2>1, <3>1 DEF Sound, Settled
    <3>5. diskCall[d].at \in {"meta", "repo", "upsert"} => Making(d)
      BY DEF Making
    <3> QED
      BY <2>1, <2>3, <3>2, <3>3, <3>4, <3>5 DEF DiskCallOK
  <2> QED
    BY <2>2, <2>3
<1>2. ASSUME NEW a \in DiskCalls, NEW d \in DiskCalls, Making(a)', d # a PROVE diskCall'[d].id # diskCall'[a].id
  <2>1. CASE a = c
    BY <1>2, <2>1 DEF Own
  <2>2. CASE a # c
    BY <1>2, <2>2 DEF Making, DiskInv
  <2> QED
    BY <2>1, <2>2
<1>3. \A d \in DiskCalls : DiskCallOK(d)'
  BY <1>1
<1> QED
  BY <1>2, <1>3 DEF DiskInv

(* The rows of a step that changes neither them nor a link.                *)
LEMMA RowsKept ==
    ASSUME DiskInv, UNCHANGED <<fileRow, repoRow, link, gone, emptied>>,
           \A j \in Ids : disk'[j] # disk[j] => j \in gone' \/ (j \notin RowIds /\ \A n \in RepoNames : link[n] # j)
    PROVE  RowsOK' /\ RowIds' = RowIds /\ RepoIds' = RepoIds
<1>1. RowIds' = RowIds /\ RepoIds' = RepoIds
  BY DEF RowIds, RepoIds
<1>2. \A i \in RowIds : disk'[i] = disk[i]
  BY DEF DiskInv, RowsOK
<1>3. ASSUME NEW n \in RepoNames, link[n] # "none" PROVE Sound(link[n])'
  <2>1. link[n] \in Ids /\ Sound(link[n])
    BY <1>3 DEF DiskInv, RowsOK, DiskTypeOK
  <2> QED
    BY <2>1 DEF Sound
<1> QED
  BY <1>1, <1>2, <1>3 DEF DiskInv, RowsOK

(* A request takes an id nothing has: it alone makes it.                   *)
LEMMA DiskMakes ==
    ASSUME DiskInv, NEW c \in DiskCalls, NEW i \in Ids, NEW pc \in {"write", "init", "clone"},
           NEW n \in RepoNames \cup {"none"}, pc # "write" => n \in RepoNames,
           FreshId(i), DiskBegins(c, pc, i, n), OnDisk(i, "part"),
           dotted' \subseteq Ids, UNCHANGED <<fileRow, repoRow, link, gone, emptied, served>>
    PROVE  DiskInv'
<1>1. /\ diskCall' \in [DiskCalls -> [at : DiskAts, id : Ids \cup {"none"}, name : RepoNames \cup {"none"}]]
      /\ diskCall'[c].at = pc /\ diskCall'[c].id = i /\ diskCall'[c].name = n
      /\ \A d \in DiskCalls : d # c => diskCall'[d] = diskCall[d]
  BY DiskGoesTo DEF DiskBegins, DiskInv, DiskAts
<1>2. disk' \in [Ids -> {"nothing", "part", "whole"}] /\ \A j \in Ids : j # i => disk'[j] = disk[j]
  BY DEF OnDisk, DiskInv, DiskTypeOK
<1>3. diskCalls' \in 0 .. MaxDiskCalls
  BY DiskBounds DEF DiskBegins, DiskInv, DiskTypeOK
<1>4. DiskTypeOK'
  BY <1>1, <1>2, <1>3 DEF DiskInv, DiskTypeOK, DiskAts
<1>5. /\ i # "none" /\ i \notin gone /\ i \notin RowIds /\ i \notin emptied /\ disk[i] = "nothing"
      /\ \A d \in DiskCalls : diskCall[d].id # i
  BY DEF FreshId, RowIds, DiskBegins, DiskInv, DiskCallOK, RowsOK
<1>6. \A m \in RepoNames : link[m] # i
  BY <1>5 DEF DiskInv, RowsOK, Sound
<1>7. RowsOK' /\ RowIds' = RowIds
  BY <1>2, <1>5, <1>6, RowsKept
<1>8. DiskCallOK(c)'
  BY <1>1, <1>5, <1>6, <1>7 DEF DiskCallOK, Making
<1>9. Own(c, i) /\ served' = TRUE
  BY <1>5 DEF Own, DiskInv
<1> QED
  BY <1>1, <1>2, <1>4, <1>5, <1>7, <1>8, <1>9, DiskKeeps

(* What the invariant says of the id a request makes.                      *)
LEMMA DiskOwns ==
    ASSUME DiskInv, NEW c \in DiskCalls, Making(c)
    PROVE  LET i == diskCall[c].id
           IN  /\ i \in Ids /\ i # "none" /\ i \notin gone /\ i \notin emptied /\ i \notin RowIds /\ Own(c, i)
               /\ \A n \in RepoNames : link[n] # i
<1>1. DiskCallOK(c) /\ diskCall[c].at # "idle"
  BY DEF DiskInv, Making
<1> QED
  BY <1>1 DEF DiskInv, DiskCallOK, Own

\* A request goes to its next place and keeps its id.
LEMMA DiskMovesTo ==
    ASSUME DiskInv, NEW c \in DiskCalls, NEW pc \in DiskAts, DiskMoves(c, pc)
    PROVE  /\ diskCall' \in [DiskCalls -> [at : DiskAts, id : Ids \cup {"none"}, name : RepoNames \cup {"none"}]]
           /\ diskCall'[c].at = pc
           /\ pc = "idle" => diskCall'[c].id = "none"
           /\ pc # "idle" => diskCall'[c].id = diskCall[c].id /\ diskCall'[c].name = diskCall[c].name
           /\ \A d \in DiskCalls : d # c => diskCall'[d] = diskCall[d]
<1>1. diskCall[c].id \in Ids \cup {"none"} /\ diskCall[c].name \in RepoNames \cup {"none"}
  BY DEF DiskInv, DiskTypeOK
<1> QED
  BY <1>1, DiskGoesTo DEF DiskMoves, DiskInv

(* The request that makes an id finishes a step on disk, or gives the id up. *)
LEMMA DiskMade ==
    ASSUME DiskInv, NEW c \in DiskCalls, Making(c), NEW pc \in {"meta", "repo", "upsert", "idle"},
           pc = "meta" => diskCall[c].at = "write", pc = "repo" => diskCall[c].at = "init",
           pc = "upsert" => diskCall[c].at = "clone",
           OnDisk(diskCall[c].id, IF pc = "idle" THEN "nothing" ELSE "whole"), DiskMoves(c, pc),
           UNCHANGED <<fileRow, repoRow, link, dotted, diskCalls, gone, emptied, served>>
    PROVE  DiskInv'
<1> DEFINE i == diskCall[c].id
<1>1. /\ i \in Ids /\ i # "none" /\ i \notin gone /\ i \notin emptied /\ i \notin RowIds /\ Own(c, i)
      /\ \A n \in RepoNames : link[n] # i
  BY DiskOwns
<1>2. /\ diskCall' \in [DiskCalls -> [at : DiskAts, id : Ids \cup {"none"}, name : RepoNames \cup {"none"}]]
      /\ diskCall'[c].at = pc
      /\ pc = "idle" => diskCall'[c].id = "none"
      /\ pc # "idle" => diskCall'[c].id = diskCall[c].id /\ diskCall'[c].name = diskCall[c].name
      /\ \A d \in DiskCalls : d # c => diskCall'[d] = diskCall[d]
  BY DiskMovesTo DEF DiskAts
<1>3. /\ disk' \in [Ids -> {"nothing", "part", "whole"}] /\ \A j \in Ids : j # i => disk'[j] = disk[j]
      /\ pc # "idle" => disk'[i] = "whole"
  BY <1>1 DEF OnDisk, DiskInv, DiskTypeOK
<1>4. DiskTypeOK'
  BY <1>2, <1>3 DEF DiskInv, DiskTypeOK, DiskAts
<1>5. RowsOK' /\ RowIds' = RowIds
  BY <1>1, <1>3, RowsKept
<1>6. pc # "idle" => (pc \in {"repo", "upsert"} => diskCall[c].name \in RepoNames)
  BY DEF DiskInv, DiskCallOK
<1>7. DiskCallOK(c)'
  BY <1>1, <1>2, <1>3, <1>5, <1>6 DEF DiskCallOK, Making
<1>8. \A d \in DiskCalls : d # c /\ Making(d) => diskCall'[c].id # diskCall[d].id
  <2>1. \A d \in DiskCalls : Making(d) => diskCall[d].id # "none"
    BY DiskOwns
  <2> QED
    BY <1>1, <1>2, <2>1 DEF Own
<1>9. Making(c)' => Own(c, diskCall'[c].id)
  BY <1>1, <1>2 DEF Making
<1> QED
  BY <1>1, <1>2, <1>3, <1>4, <1>5, <1>7, <1>8, <1>9, DiskKeeps DEF DiskInv

(* A step that changes nothing but the request, which makes nothing after it. *)
LEMMA DiskMoved ==
    ASSUME DiskInv, NEW c \in DiskCalls, NEW pc \in {"idle", "open", "link"}, NEW i \in Ids \cup {"none"},
           NEW n \in RepoNames \cup {"none"}, DiskGoes(c, pc, i, n),
           pc # "idle" => i # "none" /\ Settled(i), pc = "link" => n \in RepoNames /\ Sound(i),
           \A d \in DiskCalls : d # c /\ Making(d) => diskCall[d].id # i,
           diskCalls' \in 0 .. MaxDiskCalls, served' = TRUE,
           UNCHANGED <<fileRow, repoRow, link, disk, dotted, gone, emptied>>
    PROVE  DiskInv'
<1>1. /\ diskCall' \in [DiskCalls -> [at : DiskAts, id : Ids \cup {"none"}, name : RepoNames \cup {"none"}]]
      /\ diskCall'[c].at = pc
      /\ pc = "idle" => diskCall'[c].id = "none"
      /\ pc # "idle" => diskCall'[c].id = i /\ diskCall'[c].name = n
      /\ \A d \in DiskCalls : d # c => diskCall'[d] = diskCall[d]
  BY DiskGoesTo DEF DiskAts, DiskInv
<1>2. DiskTypeOK'
  BY <1>1 DEF DiskInv, DiskTypeOK, DiskAts
<1>3. RowsOK' /\ RowIds' = RowIds
  BY RowsKept
<1>4. ~Making(c)'
  BY <1>1 DEF Making
<1>5. DiskCallOK(c)'
  BY <1>1, <1>4 DEF DiskCallOK, Sound, Settled
<1>6. \A d \in DiskCalls : d # c /\ Making(d) => diskCall'[c].id # diskCall[d].id
  <2>1. \A d \in DiskCalls : Making(d) => diskCall[d].id # "none"
    BY DiskOwns
  <2> QED
    BY <1>1, <2>1
<1> QED
  BY <1>1, <1>2, <1>3, <1>4, <1>5, <1>6, DiskKeeps

(* A row, of a file or of a repository, is inserted for the id a request made; *)
(* with an error, its content goes.                                            *)
LEMMA DiskRowed ==
    ASSUME DiskInv, NEW c \in DiskCalls, diskCall[c].at \in {"meta", "repo", "upsert"},
           NEW pc \in {"idle", "link"}, pc = "link" => diskCall[c].at = "upsert", DiskMoves(c, pc),
           \/ (fileRow' = fileRow \cup {diskCall[c].id} /\ repoRow' = repoRow)
           \/ /\ diskCall[c].at # "meta" /\ repoRow[diskCall[c].name] = "none" /\ fileRow' = fileRow
              /\ repoRow' = [repoRow EXCEPT ![diskCall[c].name] = diskCall[c].id],
           \/ UNCHANGED <<disk, emptied>>
           \/ OnDisk(diskCall[c].id, "nothing") /\ emptied' = emptied \cup {diskCall[c].id} /\ pc = "idle",
           UNCHANGED <<link, dotted, diskCalls, gone, served>>
    PROVE  DiskInv'
<1> DEFINE i == diskCall[c].id
<1>1. /\ i \in Ids /\ i # "none" /\ i \notin gone /\ i \notin emptied /\ i \notin RowIds /\ Own(c, i)
      /\ \A n \in RepoNames : link[n] # i
  BY DiskOwns DEF Making
<1>2. /\ diskCall' \in [DiskCalls -> [at : DiskAts, id : Ids \cup {"none"}, name : RepoNames \cup {"none"}]]
      /\ diskCall'[c].at = pc
      /\ pc = "idle" => diskCall'[c].id = "none"
      /\ pc # "idle" => diskCall'[c].id = diskCall[c].id /\ diskCall'[c].name = diskCall[c].name
      /\ \A d \in DiskCalls : d # c => diskCall'[d] = diskCall[d]
  BY DiskMovesTo DEF DiskAts
<1>3. disk[i] = "whole" /\ (diskCall[c].at # "meta" => diskCall[c].name \in RepoNames)
  BY DEF DiskInv, DiskCallOK
<1>4. /\ fileRow' \subseteq Ids /\ repoRow' \in [RepoNames -> Ids \cup {"none"}]
      /\ fileRow' = fileRow \/ (repoRow' = repoRow /\ fileRow' = fileRow \cup {i})
      /\ \A n \in RepoNames : \/ repoRow'[n] = repoRow[n]
                              \/ repoRow[n] = "none" /\ repoRow'[n] = i /\ fileRow' = fileRow
                                 /\ \A m \in RepoNames : m # n => repoRow'[m] = repoRow[m]
  <2>1. CASE fileRow' = fileRow \cup {i} /\ repoRow' = repoRow
    BY <1>1, <2>1 DEF DiskInv, DiskTypeOK
  <2>2. CASE /\ diskCall[c].at # "meta" /\ repoRow[diskCall[c].name] = "none" /\ fileRow' = fileRow
             /\ repoRow' = [repoRow EXCEPT ![diskCall[c].name] = i]
    <3>1. diskCall[c].name \in RepoNames /\ repoRow \in [RepoNames -> Ids \cup {"none"}]
      BY <1>3, <2>2 DEF DiskInv, DiskTypeOK
    <3>2. repoRow' \in [RepoNames -> Ids \cup {"none"}]
          /\ \A n \in RepoNames : repoRow'[n] = IF n = diskCall[c].name THEN i ELSE repoRow[n]
      BY <1>1, <2>2, <3>1
    <3>3. fileRow' \subseteq Ids
      BY <2>2 DEF DiskInv, DiskTypeOK
    <3>4. ASSUME NEW n \in RepoNames, repoRow'[n] # repoRow[n]
          PROVE  repoRow[n] = "none" /\ repoRow'[n] = i /\ \A m \in RepoNames : m # n => repoRow'[m] = repoRow[m]
      <4>1. n = diskCall[c].name
        BY <3>2, <3>4
      <4> QED
        BY <2>2, <3>2, <4>1
    <3> QED
      BY <2>2, <3>2, <3>3, <3>4
  <2> QED
    BY <2>1, <2>2
<1>12. /\ disk' \in [Ids -> {"nothing", "part", "whole"}] /\ \A j \in Ids : j # i => disk'[j] = disk[j]
       /\ emptied \subseteq emptied' /\ \A j \in emptied' : j \in emptied \/ j = i
       /\ disk'[i] = IF i \in emptied' THEN "nothing" ELSE "whole"
       /\ pc = "link" => disk'[i] = "whole"
       /\ emptied' \subseteq Ids
  <2>1. disk \in [Ids -> {"nothing", "part", "whole"}] /\ emptied \subseteq Ids /\ i \notin emptied
    BY <1>1 DEF DiskInv, DiskTypeOK
  <2>2. CASE UNCHANGED <<disk, emptied>>
    BY <1>1, <1>3, <2>1, <2>2
  <2>3. CASE OnDisk(i, "nothing") /\ emptied' = emptied \cup {i} /\ pc = "idle"
    <3>1. disk' = [disk EXCEPT ![i] = "nothing"]
      BY <2>3 DEF OnDisk
    <3> QED
      BY <1>1, <2>1, <2>3, <3>1
  <2> QED
    BY <2>2, <2>3
<1>5. DiskTypeOK'
  BY <1>2, <1>4, <1>12 DEF DiskInv, DiskTypeOK, DiskAts
<1>6. /\ \A j : j \in RepoIds => j # "none" /\ \E n \in RepoNames : repoRow[n] = j
      /\ \A j : j \in RepoIds' => j # "none" /\ \E n \in RepoNames : repoRow'[n] = j
      /\ \A n \in RepoNames : repoRow[n] # "none" => repoRow[n] \in RepoIds
  BY DEF RepoIds
<1>7. RowIds = fileRow \cup RepoIds /\ RowIds' = fileRow' \cup RepoIds'
  BY DEF RowIds
<1>8. \A j \in RowIds' : j \in RowIds \/ j = i
  BY <1>4, <1>6, <1>7
<1>13. RowIds \cup {i} \subseteq RowIds'
  <2>1. \A j \in RepoIds : j \in RepoIds'
    <3>1. ASSUME NEW j \in RepoIds PROVE j \in RepoIds'
      <4>1. PICK n \in RepoNames : repoRow[n] = j /\ j # "none"
        BY <1>6
      <4>2. repoRow'[n] = j
        BY <1>4, <4>1
      <4> QED
        BY <4>1, <4>2 DEF RepoIds
    <3> QED
      BY <3>1
  <2>2. i \in fileRow' \/ i \in RepoIds'
    <3>1. CASE fileRow' = fileRow \cup {i}
      BY <3>1
    <3>2. CASE /\ diskCall[c].at # "meta" /\ repoRow[diskCall[c].name] = "none"
               /\ repoRow' = [repoRow EXCEPT ![diskCall[c].name] = i]
      <4>1. diskCall[c].name \in RepoNames /\ repoRow'[diskCall[c].name] = i
        BY <1>3, <3>2 DEF DiskInv, DiskTypeOK
      <4> QED
        BY <1>1, <4>1 DEF RepoIds
    <3> QED
      BY <3>1, <3>2
  <2>3. fileRow \subseteq fileRow'
    BY <1>4
  <2> QED
    BY <1>7, <2>1, <2>2, <2>3
<1>9. RowsOK'
  <2>1. /\ \A j \in RowIds' : /\ j \in Ids \ {"none"} /\ j \notin gone
                              /\ disk'[j] = IF j \in emptied' THEN "nothing" ELSE "whole"
        /\ emptied' \subseteq RowIds' \cup gone
    <3>1. \A j \in RowIds : /\ j \in Ids \ {"none"} /\ j \notin gone /\ j # i
                            /\ disk[j] = IF j \in emptied THEN "nothing" ELSE "whole"
      BY <1>1 DEF DiskInv, RowsOK
    <3>2. emptied \subseteq RowIds \cup gone
      BY DEF DiskInv, RowsOK
    <3>3. \A j \in RowIds' : j = i \/ (j \in RowIds /\ disk'[j] = disk[j] /\ (j \in emptied' <=> j \in emptied))
      BY <1>8, <1>12, <3>1
    <3> QED
      BY <1>1, <1>12, <1>13, <3>1, <3>2, <3>3
  <2>2. \A j \in fileRow' : j \notin RepoIds'
    <3>1. CASE repoRow' = repoRow
      <4>1. RepoIds' = RepoIds
        BY <3>1 DEF RepoIds
      <4> QED
        BY <1>1, <1>4, <1>7, <4>1 DEF DiskInv, RowsOK
    <3>2. CASE fileRow' = fileRow
      <4>1. \A j \in RepoIds' : j \in RepoIds \/ j = i
        BY <1>4, <1>6
      <4> QED
        BY <1>1, <1>7, <3>2, <4>1 DEF DiskInv, RowsOK
    <3> QED
      BY <1>4, <3>1, <3>2
  <2>3. \A n, m \in RepoNames : n # m /\ repoRow'[n] # "none" => repoRow'[n] # repoRow'[m]
    BY <1>1, <1>4, <1>6, <1>7 DEF DiskInv, RowsOK
  <2>4. ASSUME NEW n \in RepoNames, link[n] # "none" PROVE Sound(link[n])'
    <3>1. link[n] \in Ids /\ link[n] # i /\ Sound(link[n])
      BY <1>1, <2>4 DEF DiskInv, RowsOK, DiskTypeOK
    <3> QED
      BY <1>12, <3>1 DEF Sound
  <2> QED
    BY <2>1, <2>2, <2>3, <2>4 DEF RowsOK
<1>10. DiskCallOK(c)' /\ ~Making(c)'
  BY <1>1, <1>2, <1>3, <1>12 DEF DiskCallOK, Making, Sound, Settled
<1>11. \A d \in DiskCalls : d # c /\ Making(d) => diskCall'[c].id # diskCall[d].id
  <2>1. \A d \in DiskCalls : Making(d) => diskCall[d].id # "none"
    BY DiskOwns
  <2> QED
    BY <1>1, <1>2, <2>1 DEF Own
<1> QED
  BY <1>1, <1>2, <1>5, <1>8, <1>9, <1>10, <1>11, <1>12, DiskKeeps DEF DiskInv

(* A row is deleted, and the request goes on to the disk.                  *)
LEMMA DiskDeleted ==
    ASSUME DiskInv, NEW c \in DiskCalls, NEW i \in RowIds, NEW n \in RepoNames \cup {"none"},
           DiskBegins(c, "remove", i, n), gone' = gone \cup {i},
           fileRow' \subseteq fileRow, repoRow' \in [RepoNames -> Ids \cup {"none"}],
           \A m \in RepoNames : repoRow'[m] \in {repoRow[m], "none"},
           i \notin fileRow', \A m \in RepoNames : repoRow'[m] # i,
           fileRow \subseteq fileRow' \cup {i}, \A m \in RepoNames : repoRow[m] # i => repoRow'[m] = repoRow[m],
           UNCHANGED <<link, disk, dotted, emptied, served>>
    PROVE  DiskInv'
<1>1. i \in Ids /\ i # "none"
  BY DEF DiskInv, RowsOK
<1>2. /\ diskCall' \in [DiskCalls -> [at : DiskAts, id : Ids \cup {"none"}, name : RepoNames \cup {"none"}]]
      /\ diskCall'[c].at = "remove" /\ diskCall'[c].id = i
      /\ \A d \in DiskCalls : d # c => diskCall'[d] = diskCall[d]
  BY <1>1, DiskGoesTo DEF DiskBegins, DiskInv, DiskAts
<1>3. diskCalls' \in 0 .. MaxDiskCalls
  BY DiskBounds DEF DiskBegins, DiskInv, DiskTypeOK
<1>4. DiskTypeOK'
  BY <1>1, <1>2, <1>3 DEF DiskInv, DiskTypeOK, DiskAts
<1>5. RepoIds' \subseteq RepoIds /\ i \notin RepoIds'
  BY DEF RepoIds
<1>6. RowIds' \subseteq RowIds /\ i \notin RowIds'
  BY <1>5 DEF RowIds
<1>7. RowsOK'
  <2>1. /\ \A j \in RowIds' : /\ j \in Ids \ {"none"} /\ j \notin gone'
                              /\ disk[j] = IF j \in emptied THEN "nothing" ELSE "whole"
        /\ emptied \subseteq RowIds' \cup gone'
    <3>1. RowIds \subseteq RowIds' \cup {i}
      BY DEF RowIds, RepoIds
    <3> QED
      BY <1>6, <3>1 DEF DiskInv, RowsOK
  <2>2. \A j \in fileRow' : j \notin RepoIds'
    BY <1>5 DEF DiskInv, RowsOK
  <2>3. \A k, m \in RepoNames : k # m /\ repoRow'[k] # "none" => repoRow'[k] # repoRow'[m]
    BY DEF DiskInv, RowsOK
  <2>4. \A m \in RepoNames : link[m] # "none" => Sound(link[m])'
    BY DEF DiskInv, RowsOK, Sound
  <2> QED
    BY <2>1, <2>2, <2>3, <2>4 DEF RowsOK
<1>8. DiskCallOK(c)' /\ ~Making(c)'
  BY <1>1, <1>2 DEF DiskCallOK, Making
<1>9. \A d \in DiskCalls : d # c /\ Making(d) => i # diskCall[d].id
  BY DiskOwns
<1> QED
  BY <1>2, <1>4, <1>6, <1>7, <1>8, <1>9, DiskKeeps DEF DiskInv

\* Every step keeps the invariant.
LEMMA DiskInvStep == DiskInv /\ [DiskNext]_diskVars => DiskInv'
<1> SUFFICES ASSUME DiskInv, [DiskNext]_diskVars PROVE DiskInv'
  OBVIOUS
<1>0. /\ \A c \in DiskCalls : DiskCallOK(c) /\ diskCall[c].id \in Ids \cup {"none"}
                              /\ diskCall[c].name \in RepoNames \cup {"none"}
      /\ served = TRUE /\ diskCalls \in 0 .. MaxDiskCalls /\ MaxDiskCalls \in Nat
  BY DiskBounds DEF DiskInv, DiskTypeOK
<1>1. ASSUME NEW c \in DiskCalls, NEW i \in Ids, HandleUpload(c, i) PROVE DiskInv'
  BY <1>1, DiskMakes DEF HandleUpload, DiskInv, DiskTypeOK
<1>2. ASSUME NEW c \in DiskCalls, NEW i \in Ids, FindFile(c, i) PROVE DiskInv'
  <2>1. i \in RowIds
    BY <1>2 DEF FindFile, RowIds
  <2>2. i # "none" /\ Settled(i) /\ \A d \in DiskCalls : d # c /\ Making(d) => diskCall[d].id # i
    BY <2>1, DiskOwns DEF DiskInv, RowsOK, Sound, Settled
  <2>3. diskCalls' \in 0 .. MaxDiskCalls
    BY <1>0, <1>2 DEF FindFile, DiskBegins
  <2> QED
    BY <1>0, <1>2, <2>2, <2>3, DiskMoved DEF FindFile, DiskBegins
<1>3. ASSUME NEW c \in DiskCalls, NEW i \in Ids, HandleFileDelete(c, i) PROVE DiskInv'
  <2>1. i \in RowIds /\ i # "none"
    BY <1>3 DEF HandleFileDelete, RowIds, DiskInv, RowsOK
  <2>2. \A m \in RepoNames : repoRow[m] # i
    BY <1>3, <2>1 DEF HandleFileDelete, DiskInv, RowsOK, RepoIds
  <2> QED
    BY <1>3, <2>1, <2>2, DiskDeleted DEF HandleFileDelete, DiskInv, DiskTypeOK
<1>4. ASSUME NEW c \in DiskCalls, WriteFile(c) PROVE DiskInv'
  BY <1>4, DiskMade DEF WriteFile, Making
<1>5. ASSUME NEW c \in DiskCalls, InsertFileMeta(c) PROVE DiskInv'
  <2>1. CASE /\ fileRow' = fileRow \cup {diskCall[c].id}
             /\ \/ UNCHANGED <<disk, emptied>>
                \/ OnDisk(diskCall[c].id, "nothing") /\ emptied' = emptied \cup {diskCall[c].id}
    BY <1>5, <2>1, DiskRowed DEF InsertFileMeta
  <2>2. CASE OnDisk(diskCall[c].id, "nothing") /\ UNCHANGED <<fileRow, emptied>>
    BY <1>5, <2>2, DiskMade DEF InsertFileMeta, Making
  <2> QED
    BY <1>5, <2>1, <2>2 DEF InsertFileMeta
<1>6. ASSUME NEW c \in DiskCalls, ServeFile(c) PROVE DiskInv'
  <2>1. Settled(diskCall[c].id)
    BY <1>0, <1>6 DEF ServeFile, DiskCallOK
  <2>2. served' = TRUE
    BY <1>0, <1>6, <2>1 DEF ServeFile, Sound, Settled
  <2>3. \A d \in DiskCalls : d # c /\ Making(d) => diskCall[d].id # diskCall[c].id
    BY DEF DiskInv
  <2>4. /\ DiskGoes(c, "idle", diskCall[c].id, diskCall[c].name)
        /\ UNCHANGED <<fileRow, repoRow, link, disk, dotted, diskCalls, gone, emptied>>
    BY <1>6 DEF ServeFile, DiskMoves
  <2> QED
    BY <1>0, <2>2, <2>3, <2>4, DiskMoved
<1>18. ASSUME NEW c \in DiskCalls, RefuseThumbnail(c) PROVE DiskInv'
  <2>1. \A d \in DiskCalls : d # c /\ Making(d) => diskCall[d].id # diskCall[c].id
    BY DEF DiskInv
  <2>2. /\ DiskGoes(c, "idle", diskCall[c].id, diskCall[c].name) /\ served' = TRUE
        /\ UNCHANGED <<fileRow, repoRow, link, disk, dotted, diskCalls, gone, emptied>>
    BY <1>0, <1>18 DEF RefuseThumbnail, DiskMoves
  <2> QED
    BY <1>0, <2>1, <2>2, DiskMoved
<1>7. ASSUME NEW c \in DiskCalls, RemoveFile(c) PROVE DiskInv'
  <2> DEFINE i == diskCall[c].id
  <2>1. i \in gone /\ i \in Ids
    BY <1>0, <1>7 DEF RemoveFile, DiskCallOK
  <2>2. /\ diskCall' \in [DiskCalls -> [at : DiskAts, id : Ids \cup {"none"}, name : RepoNames \cup {"none"}]]
        /\ diskCall'[c].at = "idle" /\ diskCall'[c].id = "none"
        /\ \A d \in DiskCalls : d # c => diskCall'[d] = diskCall[d]
    BY <1>7, DiskMovesTo DEF RemoveFile, DiskAts
  <2>3. disk' \in [Ids -> {"nothing", "part", "whole"}] /\ \A j \in Ids : j # i => disk'[j] = disk[j]
    BY <1>7 DEF RemoveFile, OnDisk, DiskInv, DiskTypeOK
  <2>4. DiskTypeOK'
    BY <1>7, <2>2, <2>3 DEF RemoveFile, DiskInv, DiskTypeOK, DiskAts
  <2>5. UNCHANGED <<fileRow, repoRow, link, gone, emptied, served>>
    BY <1>7 DEF RemoveFile
  <2>6. RowsOK' /\ RowIds' = RowIds
    BY <2>1, <2>3, <2>5, RowsKept
  <2>7. DiskCallOK(c)' /\ ~Making(c)'
    BY <2>2 DEF DiskCallOK, Making
  <2>8. \A d \in DiskCalls : Making(d) => diskCall[d].id # "none"
    BY DiskOwns
  <2> QED
    BY <1>0, <2>1, <2>2, <2>3, <2>4, <2>5, <2>6, <2>7, <2>8, DiskKeeps
<1>8. ASSUME NEW c \in DiskCalls, NEW i \in Ids, NEW n \in RepoNames, CreateRepo(c, i, n) PROVE DiskInv'
  BY <1>8, DiskMakes DEF CreateRepo, DiskInv, DiskTypeOK
<1>9. ASSUME NEW c \in DiskCalls, PlainInit(c) \/ CloneBare(c) PROVE DiskInv'
  <2>1. CASE PlainInit(c)
    BY <2>1, DiskMade DEF PlainInit, Making
  <2>2. CASE CloneBare(c)
    BY <2>2, DiskMade DEF CloneBare, Making
  <2> QED
    BY <1>9, <2>1, <2>2
<1>10. ASSUME NEW c \in DiskCalls, InsertRepo(c) PROVE DiskInv'
  <2>1. CASE repoRow[diskCall[c].name] = "none" /\ repoRow' = [repoRow EXCEPT ![diskCall[c].name] = diskCall[c].id]
             /\ \/ UNCHANGED <<disk, emptied>>
                \/ OnDisk(diskCall[c].id, "nothing") /\ emptied' = emptied \cup {diskCall[c].id}
    BY <1>10, <2>1, DiskRowed DEF InsertRepo
  <2>2. CASE OnDisk(diskCall[c].id, "nothing") /\ UNCHANGED <<repoRow, emptied>>
    BY <1>10, <2>2, DiskMade DEF InsertRepo, Making
  <2> QED
    BY <1>10, <2>1, <2>2 DEF InsertRepo
<1>11. ASSUME NEW c \in DiskCalls, NEW n \in RepoNames, DeleteRepo(c, n) PROVE DiskInv'
  <2>1. repoRow[n] \in RowIds /\ repoRow[n] \in RepoIds
    BY <1>11 DEF DeleteRepo, RowIds, RepoIds
  <2>2. repoRow[n] \notin fileRow
    BY <2>1 DEF DiskInv, RowsOK
  <2>3. /\ repoRow' \in [RepoNames -> Ids \cup {"none"}] /\ repoRow[n] # "none"
        /\ \A m \in RepoNames : repoRow'[m] = IF m = n THEN "none" ELSE repoRow[m]
    BY <1>11 DEF DeleteRepo, DiskInv, DiskTypeOK
  <2>4. \A m \in RepoNames : repoRow'[m] # repoRow[n]
    BY <2>3 DEF DiskInv, RowsOK
  <2> QED
    BY <1>11, <2>1, <2>2, <2>3, <2>4, DiskDeleted DEF DeleteRepo
<1>12. ASSUME NEW c \in DiskCalls, NEW n \in RepoNames, HandleConnect(c, n) PROVE DiskInv'
  <2>1. CASE link[n] # "none" /\ DiskBegins(c, "link", link[n], n) /\ UNCHANGED disk
    <3>1. link[n] \in Ids \cup {"none"} /\ Sound(link[n])
      BY <2>1 DEF DiskInv, DiskTypeOK, RowsOK
    <3>2. \A d \in DiskCalls : d # c /\ Making(d) => diskCall[d].id # link[n]
      BY DiskOwns
    <3>3. diskCalls' \in 0 .. MaxDiskCalls
      BY <1>0, <2>1 DEF DiskBegins
    <3> QED
      BY <1>0, <1>12, <2>1, <3>1, <3>2, <3>3, DiskMoved DEF HandleConnect, DiskBegins, Settled
  <2>2. CASE \E i \in Ids : FreshId(i) /\ DiskBegins(c, "clone", i, n) /\ OnDisk(i, "part")
    BY <1>12, <2>2, DiskMakes DEF HandleConnect, DiskInv, DiskTypeOK
  <2> QED
    BY <1>12, <2>1, <2>2 DEF HandleConnect
<1>13. ASSUME NEW c \in DiskCalls, UpsertRepo(c) PROVE DiskInv'
  <2>1. CASE repoRow[diskCall[c].name] = "none" /\ repoRow' = [repoRow EXCEPT ![diskCall[c].name] = diskCall[c].id]
             /\ (DiskMoves(c, "link") \/ DiskMoves(c, "idle"))
    BY <1>13, <2>1, DiskRowed DEF UpsertRepo
  <2>2. /\ diskCall[c].name \in RepoNames /\ diskCall[c].id # "none" /\ Sound(diskCall[c].id)
        /\ \A d \in DiskCalls : d # c /\ Making(d) => diskCall[d].id # diskCall[c].id
    BY <1>0, <1>13 DEF UpsertRepo, DiskCallOK, Sound, Settled, DiskInv
  <2>3. ASSUME NEW pc \in {"idle", "link"}, UNCHANGED repoRow, DiskMoves(c, pc) PROVE DiskInv'
    BY <1>0, <1>13, <2>2, <2>3, DiskMoved DEF UpsertRepo, DiskMoves, Settled
  <2> QED
    BY <1>13, <2>1, <2>3 DEF UpsertRepo
<1>14. ASSUME NEW c \in DiskCalls, LinkRepo(c) PROVE DiskInv'
  <2> DEFINE i == diskCall[c].id
  <2>1. i \in Ids /\ i # "none" /\ Sound(i) /\ diskCall[c].name \in RepoNames
    BY <1>0, <1>14 DEF LinkRepo, DiskCallOK
  <2>2. /\ diskCall' \in [DiskCalls -> [at : DiskAts, id : Ids \cup {"none"}, name : RepoNames \cup {"none"}]]
        /\ diskCall'[c].at = "idle" /\ diskCall'[c].id = "none"
        /\ \A d \in DiskCalls : d # c => diskCall'[d] = diskCall[d]
    BY <1>14, DiskMovesTo DEF LinkRepo, DiskAts
  <2>3. link' \in [RepoNames -> Ids \cup {"none"}] /\ \A n \in RepoNames : link'[n] \in {link[n], i}
    BY <1>14, <2>1 DEF LinkRepo, DiskInv, DiskTypeOK
  <2>4. UNCHANGED <<fileRow, repoRow, disk, dotted, diskCalls, gone, emptied, served>>
    BY <1>14 DEF LinkRepo
  <2>5. DiskTypeOK'
    BY <2>2, <2>3, <2>4 DEF DiskInv, DiskTypeOK, DiskAts
  <2>6. RowIds' = RowIds /\ RepoIds' = RepoIds
    BY <2>4 DEF RowIds, RepoIds
  <2>7. RowsOK'
    BY <2>1, <2>3, <2>4, <2>6 DEF DiskInv, RowsOK, Sound
  <2>8. DiskCallOK(c)' /\ ~Making(c)'
    BY <2>2 DEF DiskCallOK, Making
  <2>9. \A d \in DiskCalls : d # c /\ Making(d) => diskCall[d].id # i /\ diskCall[d].id # "none"
    BY DiskOwns DEF Own
  <2>10. \A n \in RepoNames : link'[n] # link[n] => \A d \in DiskCalls : d # c /\ Making(d) => diskCall[d].id # link'[n]
    BY <2>3, <2>9
  <2> QED
    BY <1>0, <2>2, <2>4, <2>5, <2>6, <2>7, <2>8, <2>9, <2>10, DiskKeeps
<1>15. ASSUME NEW c \in DiskCalls, NEW n \in RepoNames, HandlePush(c, n) PROVE DiskInv'
  <2>1. diskCalls' \in 0 .. MaxDiskCalls
    BY <1>0, <1>15 DEF HandlePush, DiskBegins
  <2>2. \A d \in DiskCalls : d # c /\ Making(d) => diskCall[d].id # "none"
    BY DiskOwns
  <2> QED
    BY <1>0, <1>15, <2>1, <2>2, DiskMoved DEF HandlePush, DiskBegins
<1>16. ASSUME RestartDisk PROVE DiskInv'
  <2>1. UNCHANGED <<fileRow, repoRow, link, disk, diskCalls, gone, emptied, served>>
        /\ \A c \in DiskCalls : diskCall'[c] = NoDiskCall
    BY <1>16 DEF RestartDisk
  <2>2. RowsOK'
    BY <2>1, RowsKept
  <2>3. DiskTypeOK'
    BY <1>16 DEF RestartDisk, DiskInv, DiskTypeOK, NoDiskCall
  <2>4. \A c \in DiskCalls : DiskCallOK(c)' /\ ~Making(c)'
    BY <2>1 DEF DiskCallOK, Making, NoDiskCall
  <2> QED
    BY <2>1, <2>2, <2>3, <2>4 DEF DiskInv
<1>17. ASSUME UNCHANGED diskVars PROVE DiskInv'
  BY <1>17 DEF diskVars, DiskInv, DiskTypeOK, RowsOK, RowIds, RepoIds, Sound, Settled, DiskCallOK, Making
<1> QED
  BY <1>1, <1>2, <1>3, <1>4, <1>5, <1>6, <1>18, <1>7, <1>8, <1>9, <1>10, <1>11, <1>12, <1>13, <1>14, <1>15, <1>16, <1>17
     DEF DiskNext

\* Through failed writes, overlapping requests and stops at any step, every
\* file row and repository row has its whole content on disk, or none if its
\* INSERT took effect and reported an error; a download that found its row serves
\* the file unless the row is of that kind, the file is being deleted or its
\* stored path contains ".."; and a link names a repository that was cloned
\* unless that one was deleted
\* (components/storage/storage.go; components/git/git.go;
\* components/github/github.go).
THEOREM DiskRowsWhole == DiskSpec => [](DiskTypeOK /\ RowsHaveFiles)
<1>1. DiskInv => DiskTypeOK /\ RowsHaveFiles
  BY DEF DiskInv, RowsOK, RowIds, Sound, RowsHaveFiles
<1> QED
  BY <1>1, DiskInvInit, DiskInvStep, PTL DEF DiskSpec

-----------------------------------------------------------------------------
(* Webhooks and messages.                                                  *)

\* A sending: its place, its kind, its attempts and its outcome.
OutRecord == [at : {"idle", "waits", "backoff", "insert", "done"}, kind : {"hook", "message", "alert"},
              attempt : 0 .. MaxAttempts, result : {"none", "ok", "error"}]

\* The types, with the counts that TLC bounds.
OutWellTyped ==
    /\ provider \in BOOLEAN /\ recipients \in BOOLEAN /\ hookRow \subseteq Hooks
    /\ out \in [Sends -> OutRecord]
    /\ wire \in [Sends -> {"none", "asked", "good", "bad", "lost"}]
    /\ handled \in [Sends -> Nat] /\ accepted \in [Sends -> Nat]
    /\ message \in [Sends -> {"none", "sent", "failed"}]

(* Nobody was to take the message: its channel had no provider.            *)
ByNobody(s) == out[s].kind = "message" /\ out[s].attempt = 0

(* What relates a sending, its request, the receiver and the table.        *)
SendingOK(s) ==
    /\ accepted[s] <= handled[s] /\ handled[s] <= out[s].attempt
    /\ wire[s] = "asked" => handled[s] < out[s].attempt /\ (out[s].at = "waits" \/ out[s].kind = "alert")
    /\ wire[s] = "good" => accepted[s] >= 1
    /\ out[s].at = "idle" => out[s] = NoOut
    /\ out[s].at = "waits" => out[s].result = "none"
    /\ out[s].at = "backoff" => /\ out[s].kind = "hook" /\ out[s].result = "none"
                                /\ wire[s] \in {"bad", "lost"} /\ out[s].attempt < MaxAttempts
    /\ out[s].at = "insert" => out[s].kind = "message"
    /\ out[s].result = "ok" => accepted[s] >= 1 \/ ByNobody(s)
    /\ message[s] # "none" => out[s].at = "done"
    /\ message[s] = "sent" => accepted[s] >= 1 \/ ByNobody(s)
    /\ out[s].at = "done" /\ out[s].kind = "hook" /\ wire[s] = "good" => out[s].result = "ok"

\* The inductive invariant.
OutInv == OutWellTyped /\ \A s \in Sends : SendingOK(s)

\* The invariant holds at the start.
LEMMA OutInvInit == OutInit => OutInv
<1> SUFFICES ASSUME OutInit PROVE OutInv
  OBVIOUS
<1>1. NoOut \in OutRecord
  BY OutBounds DEF NoOut, OutRecord
<1>2. OutWellTyped
  BY <1>1 DEF OutInit, OutWellTyped
<1>3. ASSUME NEW s \in Sends PROVE SendingOK(s)
  BY OutBounds DEF OutInit, SendingOK, NoOut
<1> QED
  BY <1>2, <1>3 DEF OutInv

(* A step of one sending leaves the others alone.                          *)
LEMMA OutKeeps ==
    ASSUME OutInv, NEW s \in Sends, OutWellTyped', SendingOK(s)',
           \A u \in Sends \ {s} : /\ out'[u] = out[u] /\ wire'[u] = wire[u] /\ handled'[u] = handled[u]
                                  /\ accepted'[u] = accepted[u] /\ message'[u] = message[u]
    PROVE  OutInv'
<1>1. ASSUME NEW u \in Sends \ {s} PROVE SendingOK(u)'
  BY DEF OutInv, SendingOK, ByNobody
<1> QED
  BY <1>1 DEF OutInv

(* A step that moves a sending and, at most, its request.                  *)
LEMMA OutMoves ==
    ASSUME OutInv, NEW s \in Sends, NEW o \in OutRecord, NEW w \in {"none", "asked", "good", "bad", "lost"},
           out' = [out EXCEPT ![s] = o], wire' = [wire EXCEPT ![s] = w] \/ (wire' = wire /\ w = wire[s]),
           UNCHANGED <<provider, recipients, hookRow, handled, accepted>>,
           message' \in [Sends -> {"none", "sent", "failed"}],
           \A u \in Sends \ {s} : message'[u] = message[u],
           out'[s] = o /\ wire'[s] = w => SendingOK(s)'
    PROVE  OutInv'
<1>1. OutWellTyped'
  BY DEF OutInv, OutWellTyped
<1>2. out'[s] = o /\ wire'[s] = w
  BY DEF OutInv, OutWellTyped
<1>3. \A u \in Sends \ {s} : /\ out'[u] = out[u] /\ wire'[u] = wire[u] /\ handled'[u] = handled[u]
                             /\ accepted'[u] = accepted[u] /\ message'[u] = message[u]
  BY DEF OutInv, OutWellTyped
<1> QED
  BY <1>1, <1>2, <1>3, OutKeeps

\* Every step keeps the invariant.
LEMMA OutInvStep == OutInv /\ [OutNext]_outVars => OutInv'
<1> SUFFICES ASSUME OutInv, [OutNext]_outVars PROVE OutInv'
  OBVIOUS
<1>1. ASSUME NEW s \in Sends
      PROVE  /\ SendingOK(s) /\ out[s] \in OutRecord /\ out[s].attempt \in Nat /\ MaxAttempts \in Nat \ {0}
             /\ handled[s] \in Nat /\ accepted[s] \in Nat
             /\ wire[s] \in {"none", "asked", "good", "bad", "lost"}
  BY OutBounds DEF OutInv, OutWellTyped, OutRecord
<1>2. ASSUME NEW s \in Sends, Take(s) PROVE OutInv'
  <2>1. OutWellTyped'
    BY <1>1, <1>2 DEF Take, OutInv, OutWellTyped
  <2>2. handled'[s] = handled[s] + 1 /\ out' = out /\ message' = message
        /\ \/ wire'[s] = "good" /\ accepted'[s] = accepted[s] + 1
           \/ wire'[s] = "bad" /\ accepted'[s] = accepted[s]
    BY <1>2 DEF Take, OutInv, OutWellTyped
  <2>3. SendingOK(s)'
    BY <1>1, <1>2, <2>2 DEF Take, SendingOK, ByNobody
  <2>4. \A u \in Sends \ {s} : /\ out'[u] = out[u] /\ wire'[u] = wire[u] /\ handled'[u] = handled[u]
                               /\ accepted'[u] = accepted[u] /\ message'[u] = message[u]
    BY <1>2 DEF Take, OutInv, OutWellTyped
  <2> QED
    BY <2>1, <2>3, <2>4, OutKeeps
<1>3. ASSUME NEW s \in Sends, Lose(s) PROVE OutInv'
  <2>1. OutWellTyped' /\ wire'[s] = "lost"
    BY <1>3 DEF Lose, OutInv, OutWellTyped
  <2>2. SendingOK(s)'
    BY <1>1, <1>3, <2>1 DEF Lose, SendingOK, ByNobody
  <2> QED
    BY <1>3, <2>1, <2>2, OutKeeps DEF Lose, OutInv, OutWellTyped
<1>4. ASSUME NEW s \in Sends, NEW kind \in {"hook", "message", "alert"}, NEW n \in 1 .. MaxAttempts,
             out[s].at \in {"idle", "backoff"}, n = out[s].attempt + 1, Ask(s, kind, n),
             UNCHANGED <<provider, recipients, hookRow, handled, accepted, message>>
      PROVE  OutInv'
  <2> DEFINE o == [at |-> "waits", kind |-> kind, attempt |-> n, result |-> "none"]
  <2>1. o \in OutRecord
    BY <1>4, OutBounds DEF OutRecord
  <2>2. ASSUME out'[s] = o, wire'[s] = "asked" PROVE SendingOK(s)'
    BY <1>1, <1>4, <2>2 DEF SendingOK, ByNobody
  <2> QED
    BY <1>4, <2>1, <2>2, OutMoves DEF Ask, OutInv, OutWellTyped
<1>5. ASSUME NEW s \in Sends, NEW o \in OutRecord, out' = [out EXCEPT ![s] = o],
             UNCHANGED <<provider, recipients, hookRow, wire, handled, accepted, message>>,
             out'[s] = o => SendingOK(s)'
      PROVE  OutInv'
  BY <1>1, <1>5, OutMoves DEF OutInv, OutWellTyped
<1>6. ASSUME NEW s \in Sends, NEW result \in {"ok", "error"}, OutEnds(s, result),
             \/ out[s].at = "waits" /\ wire[s] = "good" /\ result = "ok"
             \/ out[s].at = "waits" /\ wire[s] \in {"bad", "lost"} /\ result = "error"
             \/ out[s].at = "waits" /\ wire[s] = "asked" /\ out[s].kind = "alert" /\ result = "error"
             \/ out[s].at \in {"backoff", "insert"} /\ result = "error",
             UNCHANGED <<provider, recipients, hookRow, wire, handled, accepted, message>>
      PROVE  OutInv'
  <2> DEFINE o == [out[s] EXCEPT !.at = "done", !.result = result]
  <2>1. o \in OutRecord /\ out' = [out EXCEPT ![s] = o]
    BY <1>1, <1>6 DEF OutRecord, OutEnds
  <2>2. o.at = "done" /\ o.result = result /\ o.kind = out[s].kind /\ o.attempt = out[s].attempt
    BY <1>1 DEF OutRecord
  <2>3. ASSUME out'[s] = o PROVE SendingOK(s)'
    BY <1>1, <1>6, <2>2, <2>3 DEF SendingOK, ByNobody
  <2> QED
    BY <1>5, <1>6, <2>1, <2>3
<1>7. ASSUME NEW s \in Sends, Deliver(s) PROVE OutInv'
  <2>1. CASE wire[s] = "good" /\ OutEnds(s, "ok") /\ UNCHANGED wire
    BY <1>6, <1>7, <2>1 DEF Deliver
  <2>2. CASE wire[s] \in {"bad", "lost"} /\ out[s].attempt < MaxAttempts
             /\ out' = [out EXCEPT ![s].at = "backoff"] /\ UNCHANGED wire
    <3> DEFINE o == [out[s] EXCEPT !.at = "backoff"]
    <3>1. o \in OutRecord /\ out' = [out EXCEPT ![s] = o]
      BY <1>1, <2>2 DEF OutRecord
    <3>2. o.at = "backoff" /\ o.result = out[s].result /\ o.kind = "hook" /\ o.attempt = out[s].attempt
      BY <1>1, <1>7 DEF OutRecord, Deliver
    <3>3. ASSUME out'[s] = o PROVE SendingOK(s)'
      BY <1>1, <1>7, <2>2, <3>2, <3>3 DEF SendingOK, ByNobody, Deliver
    <3> QED
      BY <1>5, <1>7, <2>2, <3>1, <3>3 DEF Deliver
  <2>3. CASE wire[s] \in {"bad", "lost"} /\ OutEnds(s, "error") /\ UNCHANGED wire
    BY <1>6, <1>7, <2>3 DEF Deliver
  <2> QED
    BY <1>7, <2>1, <2>2, <2>3 DEF Deliver
<1>8. ASSUME NEW s \in Sends, Backoff(s) PROVE OutInv'
  <2>1. CASE OutEnds(s, "error") /\ UNCHANGED wire
    BY <1>6, <1>8, <2>1 DEF Backoff
  <2>2. CASE Ask(s, "hook", out[s].attempt + 1)
    <3>1. out[s].attempt + 1 \in 1 .. MaxAttempts
      BY <1>1, <1>8 DEF Backoff, SendingOK
    <3> QED
      BY <1>4, <1>8, <2>2, <3>1 DEF Backoff
  <2> QED
    BY <1>8, <2>1, <2>2 DEF Backoff
<1>9. ASSUME NEW s \in Sends, out[s].at = "idle" PROVE 1 \in 1 .. MaxAttempts /\ 1 = out[s].attempt + 1 /\ out[s] = NoOut
  BY <1>1, <1>9 DEF SendingOK, NoOut
<1>10. ASSUME NEW s \in Sends, DeliverWithBackoff(s) PROVE OutInv'
  BY <1>4, <1>9, <1>10 DEF DeliverWithBackoff
<1>11. ASSUME NEW s \in Sends, SendMessage(s) PROVE OutInv'
  <2>1. CASE Ask(s, "message", 1)
    BY <1>4, <1>9, <1>11, <2>1 DEF SendMessage
  <2>2. CASE UNCHANGED wire
             /\ out' = [out EXCEPT ![s] = [at |-> "insert", kind |-> "message", attempt |-> 0, result |-> "ok"]]
    <3> DEFINE o == [at |-> "insert", kind |-> "message", attempt |-> 0, result |-> "ok"]
    <3>1. o \in OutRecord
      BY OutBounds DEF OutRecord
    <3>2. ASSUME out'[s] = o PROVE SendingOK(s)'
      BY <1>1, <1>9, <1>11, <2>2, <3>2 DEF SendingOK, ByNobody, SendMessage, NoOut
    <3> QED
      BY <1>5, <1>11, <2>2, <3>1, <3>2 DEF SendMessage
  <2> QED
    BY <1>11, <2>1, <2>2 DEF SendMessage
<1>12. ASSUME NEW s \in Sends, ProviderAnswers(s) PROVE OutInv'
  <2> DEFINE r == IF wire[s] = "good" THEN "ok" ELSE "error"
             o == [out[s] EXCEPT !.at = "insert", !.result = r]
  <2>1. o \in OutRecord /\ out' = [out EXCEPT ![s] = o]
    BY <1>1, <1>12 DEF OutRecord, ProviderAnswers
  <2>2. o.at = "insert" /\ o.result = r /\ o.kind = "message" /\ o.attempt = out[s].attempt
    BY <1>1, <1>12 DEF OutRecord, ProviderAnswers
  <2> HIDE DEF o
  <2>3. ASSUME out'[s] = o PROVE SendingOK(s)'
    BY <1>1, <1>12, <2>2, <2>3 DEF SendingOK, ByNobody, ProviderAnswers
  <2> QED
    BY <1>5, <1>12, <2>1, <2>3 DEF ProviderAnswers
<1>13. ASSUME NEW s \in Sends, InsertMessage(s) PROVE OutInv'
  <2>1. CASE OutEnds(s, "error") /\ UNCHANGED message
    BY <1>6, <1>13, <2>1 DEF InsertMessage
  <2>2. CASE /\ message' = [message EXCEPT ![s] = IF out[s].result = "ok" THEN "sent" ELSE "failed"]
             /\ out' = [out EXCEPT ![s].at = "done"]
    <3> DEFINE o == [out[s] EXCEPT !.at = "done"]
    <3>1. o \in OutRecord /\ out' = [out EXCEPT ![s] = o]
      BY <1>1, <2>2 DEF OutRecord
    <3>2. o.at = "done" /\ o.result = out[s].result /\ o.kind = out[s].kind /\ o.attempt = out[s].attempt
      BY <1>1 DEF OutRecord
    <3>3. /\ message' \in [Sends -> {"none", "sent", "failed"}]
          /\ message'[s] = IF out[s].result = "ok" THEN "sent" ELSE "failed"
          /\ \A u \in Sends \ {s} : message'[u] = message[u]
      BY <2>2 DEF OutInv, OutWellTyped
    <3> HIDE DEF o
    <3>4. ASSUME out'[s] = o, wire'[s] = wire[s] PROVE SendingOK(s)'
      BY <1>1, <1>13, <2>2, <3>2, <3>3, <3>4 DEF SendingOK, ByNobody, InsertMessage
    <3>5. UNCHANGED <<provider, recipients, hookRow, wire, handled, accepted>>
      BY <1>13 DEF InsertMessage
    <3>6. wire[s] \in {"none", "asked", "good", "bad", "lost"}
      BY <1>1
    <3> QED
      BY <3>1, <3>3, <3>4, <3>5, <3>6, OutMoves
  <2> QED
    BY <1>13, <2>1, <2>2 DEF InsertMessage
<1>14. ASSUME NEW s \in Sends, NotifyAlert(s) PROVE OutInv'
  <2>1. CASE Ask(s, "alert", 1)
    BY <1>4, <1>9, <1>14, <2>1 DEF NotifyAlert
  <2>2. CASE out' = [out EXCEPT ![s] = [NoOut EXCEPT !.at = "done", !.kind = "alert"]] /\ UNCHANGED wire
    <3> DEFINE o == [out[s] EXCEPT !.at = "done", !.kind = "alert"]
    <3>1. o \in OutRecord /\ out' = [out EXCEPT ![s] = o]
      BY <1>1, <1>9, <1>14, <2>2 DEF OutRecord, NotifyAlert
    <3>2. o.at = "done" /\ o.kind = "alert" /\ o.attempt = out[s].attempt /\ o.result = out[s].result
      BY <1>1 DEF OutRecord
    <3>3. out[s].attempt = 0 /\ out[s].result = "none"
      BY <1>9, <1>14 DEF NotifyAlert, NoOut
    <3> HIDE DEF o
    <3>4. ASSUME out'[s] = o PROVE SendingOK(s)'
      BY <1>1, <1>14, <2>2, <3>2, <3>3, <3>4 DEF SendingOK, ByNobody, NotifyAlert
    <3> QED
      BY <1>5, <1>14, <2>2, <3>1, <3>4 DEF NotifyAlert
  <2> QED
    BY <1>14, <2>1, <2>2 DEF NotifyAlert
<1>15. ASSUME NEW s \in Sends, MailEnds(s) PROVE OutInv'
  BY <1>6, <1>15 DEF MailEnds
<1>16. ASSUME \/ RegisterProvider \/ UNCHANGED outVars
              \/ \E h \in Hooks : CreateWebhook(h) \/ DeleteWebhook(h)
       PROVE  OutInv'
  <2>1. OutWellTyped' /\ UNCHANGED <<out, wire, handled, accepted, message>>
    BY <1>16 DEF RegisterProvider, CreateWebhook, DeleteWebhook, outVars, OutInv, OutWellTyped
  <2> QED
    BY <2>1 DEF OutInv, SendingOK, ByNobody
<1> QED
  BY <1>2, <1>3, <1>7, <1>8, <1>10, <1>11, <1>12, <1>13, <1>14, <1>15, <1>16 DEF OutNext

\* A sending reported as done was accepted by its receiver, except a message
\* whose channel had no provider; a receiver handles it no more often than
\* there were attempts; and a delivery whose last answer was good is not
\* reported as failed, whatever answers are lost or late
\* (components/webhooks/webhooks.go: Deliver, DeliverWithBackoff;
\* components/messaging/messaging.go: send).
THEOREM OutHonest == OutSpec => [](OutTypeOK /\ DeliveryHonest)
<1>1. OutInv => OutTypeOK
  <2> SUFFICES ASSUME OutInv PROVE OutTypeOK
    OBVIOUS
  <2>1. ASSUME NEW s \in Sends PROVE handled[s] \in 0 .. MaxAttempts /\ accepted[s] \in 0 .. MaxAttempts
    BY OutBounds DEF OutInv, OutWellTyped, SendingOK, OutRecord
  <2> QED
    BY <2>1 DEF OutInv, OutWellTyped, OutTypeOK, OutRecord
<1>2. OutInv => DeliveryHonest
  BY DEF OutInv, SendingOK, ByNobody, DeliveryHonest
<1> QED
  BY <1>1, <1>2, OutInvInit, OutInvStep, PTL DEF OutSpec

-----------------------------------------------------------------------------
(* Accounts and mailed tokens.                                             *)

\* A row of users.
UserRecord == [present : BOOLEAN, role : {"user", "admin"}, org : BOOLEAN, verified : BOOLEAN, pending : BOOLEAN]

\* The places of a request that has read a mailed token and not finished with
\* it.
SpendSteps == {"reset", "mark", "invite", "member"}
\* The places of a request.
CallSteps == {"idle", "insert", "org", "default", "verify"} \cup SpendSteps
\* A request, its place and what it holds.
CallRecord == [at : CallSteps, email : Emails \cup {""}, token : Tokens \cup {"", "google"}, role : {"user", "admin"}]

(* The request c is between the read of the token t and the end of its use. *)
Spends(c, t) == call[c].at \in SpendSteps /\ call[c].token = t
\* The request is about to mark the token as used.
Marks(c, t) == call[c].at = "mark" /\ call[c].token = t

\* The types, with the count of uses that TLC bounds.
AccWellTyped ==
    /\ users \in [Emails -> UserRecord]
    /\ orgs \in [Emails -> {"none", "named", "renamed"}] /\ members \subseteq Emails
    /\ token \in [Tokens -> {"unsent", "live", "used", "expired"}]
    /\ apiKey \in [ApiKeys -> {"none", "org", "site", "deleted", "revoked"}]
    /\ call \in [Calls -> CallRecord]
    /\ \A c \in Calls : /\ call[c].at # "idle" => call[c].email \in Emails
                        /\ call[c].at \in SpendSteps => call[c].token \in Tokens
    /\ calls \in 0..MaxCalls /\ uses \in [Tokens -> Nat] /\ overlapped \subseteq Tokens

(* A magic link is used in one step; a token of the tables has one request that *)
(* spends it, and is fresh until that one has.                              *)
LinkOK(t) == uses[t] <= 1 /\ (token[t] \in {"unsent", "live"} => uses[t] = 0)
\* A token that no two requests held at once: used once at most, by one
\* request, and marked by it.
TokenOK(t) ==
    /\ uses[t] <= 1
    /\ \A c, d \in Calls : Spends(c, t) /\ Spends(d, t) => c = d
    /\ \A c \in Calls : Spends(c, t) /\ ~Marks(c, t) => uses[t] = 0
    /\ uses[t] = 0 \/ token[t] \in {"used", "expired"} \/ \E c \in Calls : Marks(c, t)

\* The inductive invariant. A magic link is marked as it is read, so it needs
\* less than the tokens that are read first and marked later.
AccInv ==
    /\ AccWellTyped
    /\ \A c \in Calls : /\ call[c].at \in SpendSteps => KindOf[call[c].token] # "link"
                        /\ call[c].at = "member" => token[call[c].token] = "used"
    /\ \A t \in Tokens : /\ KindOf[t] = "link" => LinkOK(t)
                         /\ KindOf[t] # "link" /\ t \notin overlapped => TokenOK(t)

USE DEF SpendSteps

\* The records that stand for nobody and nothing.
LEMMA AccRecords ==
    /\ NoUser \in UserRecord /\ OldUser \in UserRecord /\ NoCall \in CallRecord
    /\ NoCall.at = "idle"
  BY DEF NoUser, OldUser, UserRecord, NoCall, CallRecord, CallSteps

\* The invariant holds at the start.
LEMMA AccInvInit == AccInit => AccInv
<1> SUFFICES ASSUME AccInit PROVE AccInv
  OBVIOUS
<1>1. users \in [Emails -> UserRecord] /\ call \in [Calls -> CallRecord]
  BY AccRecords DEF AccInit
<1>2. \A c \in Calls : call[c].at = "idle"
  BY AccRecords DEF AccInit
<1>3. AccWellTyped
  BY <1>1, <1>2, AccountsType DEF AccInit, AccWellTyped
<1> QED
  BY <1>2, <1>3 DEF AccInit, AccInv, LinkOK, TokenOK, Spends, Marks

(* A step that moves no token and no spending request.                     *)
LEMMA AccKeeps ==
    ASSUME AccInv, AccWellTyped', UNCHANGED <<token, uses, overlapped>>,
           \A c \in Calls : call'[c].at \in SpendSteps => call'[c] = call[c],
           \A c \in Calls : call[c].at = "mark" => call'[c] = call[c]
    PROVE  AccInv'
<1>1. \A c \in Calls : (/\ call[c].at \in SpendSteps => KindOf[call[c].token] # "link"
                      /\ call[c].at = "member" => token[call[c].token] = "used")'
  BY DEF AccInv
<1>2. \A c \in Calls, t \in Tokens : (Spends(c, t)' => Spends(c, t)) /\ (Marks(c, t)' <=> Marks(c, t))
  BY DEF Spends, Marks
<1>3. ASSUME NEW t \in Tokens, KindOf[t] # "link", t \notin overlapped PROVE TokenOK(t)'
  BY <1>2, <1>3 DEF AccInv, TokenOK
<1>4. ASSUME NEW t \in Tokens, KindOf[t] = "link" PROVE LinkOK(t)'
  BY <1>4 DEF AccInv, LinkOK
<1> QED
  BY <1>1, <1>3, <1>4 DEF AccInv

(* Where a request goes.                                                   *)
LEMMA AccGoes ==
    ASSUME AccWellTyped, NEW c \in Calls, NEW r \in CallRecord, call' = [call EXCEPT ![c] = r]
    PROVE  /\ call' \in [Calls -> CallRecord] /\ call'[c] = r
           /\ \A d \in Calls : d # c => call'[d] = call[d]
  BY DEF AccWellTyped

(* A step of a request that neither is nor becomes one that spends.        *)
LEMMA AccPlain ==
    ASSUME AccInv, NEW c \in Calls, NEW r \in CallRecord, call' = [call EXCEPT ![c] = r],
           call[c].at # "mark", r.at \notin SpendSteps, r.at # "idle" => r.email \in Emails,
           users' \in [Emails -> UserRecord], orgs' \in [Emails -> {"none", "named", "renamed"}],
           calls' \in 0..MaxCalls,
           UNCHANGED <<token, apiKey, members, uses, overlapped>>
    PROVE  AccInv'
<1>1. /\ call' \in [Calls -> CallRecord] /\ call'[c] = r
      /\ \A d \in Calls : d # c => call'[d] = call[d]
  BY AccGoes DEF AccInv
<1>2. AccWellTyped'
  BY <1>1 DEF AccInv, AccWellTyped
<1> QED
  BY <1>1, <1>2, AccKeeps

(* A step on one token and one request that has it.                        *)
LEMMA AccOneToken ==
    ASSUME AccInv, NEW c \in Calls, NEW t \in Tokens, NEW r \in CallRecord, call' = [call EXCEPT ![c] = r],
           call[c].at \in SpendSteps => call[c].token = t, r.at \in SpendSteps => r.token = t /\ KindOf[t] # "link",
           r.at # "idle" => r.email \in Emails, calls' \in 0..MaxCalls,
           token' \in [Tokens -> {"unsent", "live", "used", "expired"}], uses' \in [Tokens -> Nat],
           overlapped' \in {overlapped, overlapped \cup {t}}, members' \subseteq Emails,
           \A u \in Tokens : u # t => token'[u] = token[u] /\ uses'[u] = uses[u],
           token'[t] \in {token[t], "used"}, r.at = "member" => token'[t] = "used",
           UNCHANGED <<users, orgs, apiKey>>,
           KindOf[t] = "link" => LinkOK(t)',
           call'[c] = r /\ (\A d \in Calls : d # c => call'[d] = call[d]) /\ KindOf[t] # "link" /\ t \notin overlapped'
               => TokenOK(t)'
    PROVE  AccInv'
<1>1. /\ call' \in [Calls -> CallRecord] /\ call'[c] = r
      /\ \A d \in Calls : d # c => call'[d] = call[d]
  BY AccGoes DEF AccInv
<1>2. AccWellTyped'
  BY <1>1 DEF AccInv, AccWellTyped
<1>3. \A d \in Calls : (/\ call[d].at \in SpendSteps => KindOf[call[d].token] # "link"
                      /\ call[d].at = "member" => token[call[d].token] = "used")'
  BY <1>1 DEF AccInv, AccWellTyped
<1>4. \A d \in Calls, u \in Tokens : u # t => (Spends(d, u)' <=> Spends(d, u)) /\ (Marks(d, u)' <=> Marks(d, u))
  BY <1>1 DEF Spends, Marks
<1>5. ASSUME NEW u \in Tokens, u # t PROVE /\ KindOf[u] = "link" => LinkOK(u)'
                                           /\ KindOf[u] # "link" /\ u \notin overlapped' => TokenOK(u)'
  <2>1. KindOf[u] = "link" => LinkOK(u)'
    BY <1>5 DEF AccInv, LinkOK
  <2>2. ASSUME KindOf[u] # "link", u \notin overlapped' PROVE TokenOK(u)'
    <3>1. TokenOK(u) /\ token'[u] = token[u] /\ uses'[u] = uses[u]
      BY <1>5, <2>2 DEF AccInv
    <3> QED
      BY <1>4, <1>5, <3>1 DEF TokenOK
  <2> QED
    BY <2>1, <2>2
<1> QED
  BY <1>1, <1>2, <1>3, <1>5 DEF AccInv

(* A step that sends a token out or lets it expire.                        *)
LEMMA AccSent ==
    ASSUME AccInv, NEW t \in Tokens,
           \/ (token[t] = "unsent" /\ token' = [token EXCEPT ![t] = "live"])
           \/ (token[t] = "live" /\ token' = [token EXCEPT ![t] = "expired"]),
           UNCHANGED <<users, orgs, apiKey, members, call, calls, uses, overlapped>>
    PROVE  AccInv'
<1>1. /\ token' \in [Tokens -> {"unsent", "live", "used", "expired"}]
      /\ \A u \in Tokens : \/ token'[u] = token[u]
                           \/ token[u] = "unsent" /\ token'[u] = "live"
                           \/ token[u] = "live" /\ token'[u] = "expired"
  BY DEF AccInv, AccWellTyped
<1>2. AccWellTyped'
  BY <1>1 DEF AccInv, AccWellTyped
<1>3. \A c \in Calls, u \in Tokens : (Spends(c, u)' <=> Spends(c, u)) /\ (Marks(c, u)' <=> Marks(c, u))
  BY DEF Spends, Marks
<1>6. \A c \in Calls : call[c].at = "member" => token'[call[c].token] = "used"
  BY <1>1 DEF AccInv, AccWellTyped
<1>4. ASSUME NEW u \in Tokens, KindOf[u] = "link" PROVE LinkOK(u)'
  BY <1>1, <1>4 DEF AccInv, LinkOK
<1>5. ASSUME NEW u \in Tokens, KindOf[u] # "link", u \notin overlapped PROVE TokenOK(u)'
  BY <1>1, <1>3, <1>5 DEF AccInv, TokenOK
<1> QED
  BY <1>2, <1>4, <1>5, <1>6 DEF AccInv

\* Every step keeps the invariant.
LEMMA AccInvStep == AccInv /\ [AccNext]_accVars => AccInv'
<1> SUFFICES ASSUME AccInv, [AccNext]_accVars PROVE AccInv'
  OBVIOUS
<1> USE DEF BeginCall, ToStep, EndCall
<1>0. /\ MaxCalls \in Nat /\ calls \in 0..MaxCalls
      /\ users \in [Emails -> UserRecord] /\ orgs \in [Emails -> {"none", "named", "renamed"}]
      /\ NoUser \in UserRecord /\ NoCall \in CallRecord /\ NoCall.at = "idle"
  BY AccountsType, AccRecords DEF AccInv, AccWellTyped
<1>1. ASSUME NEW c \in Calls PROVE call[c] \in CallRecord /\ (call[c].at # "idle" => call[c].email \in Emails)
  BY DEF AccInv, AccWellTyped
<1>2. calls < MaxCalls => calls + 1 \in 0..MaxCalls
  BY <1>0
<1>3. ASSUME NEW c \in Calls, GiveUp(c) PROVE AccInv'
  BY <1>0, <1>3, AccPlain DEF GiveUp
<1>4. ASSUME NEW c \in Calls, NEW e \in Emails, Register(c, e) PROVE AccInv'
  <2> DEFINE r == [NoCall EXCEPT !.at = "insert", !.email = e, !.role = IF Present = {} THEN "admin" ELSE "user"]
  <2>1. r \in CallRecord /\ r.at = "insert" /\ r.email = e
    BY <1>0 DEF CallRecord, CallSteps
  <2>2. call' = [call EXCEPT ![c] = r] /\ call[c] = NoCall
    BY <1>4 DEF Register
  <2> HIDE DEF r
  <2> QED
    BY <1>0, <1>2, <1>4, <2>1, <2>2, AccPlain DEF Register
<1>5. ASSUME NEW c \in Calls, NEW e \in Emails, FindOrCreateGoogleUser(c, e) PROVE AccInv'
  <2> DEFINE r == [NoCall EXCEPT !.at = "insert", !.email = e, !.token = "google"]
  <2>1. r \in CallRecord /\ r.at = "insert" /\ r.email = e
    BY <1>0 DEF CallRecord, CallSteps
  <2>2. call[c] = NoCall /\ (call' = [call EXCEPT ![c] = r] \/ call' = call)
        /\ calls < MaxCalls /\ calls' = calls + 1
    BY <1>5 DEF FindOrCreateGoogleUser, FindOrCreateUser
  <2> HIDE DEF r
  <2>3. UNCHANGED <<users, orgs, token, apiKey, members, uses, overlapped>>
    BY <1>5 DEF FindOrCreateGoogleUser
  <2>4. CASE call' = call
    <3>1. AccWellTyped'
      BY <1>2, <2>2, <2>3, <2>4 DEF AccInv, AccWellTyped
    <3> QED
      BY <2>3, <2>4, <3>1, AccKeeps
  <2>5. CASE call' = [call EXCEPT ![c] = r]
    BY <1>0, <1>2, <2>1, <2>2, <2>3, <2>5, AccPlain
  <2> QED
    BY <2>2, <2>4, <2>5
<1>6. ASSUME NEW c \in Calls, InsertUser(c) PROVE AccInv'
  <2> DEFINE e == call[c].email
  <2>1. e \in Emails /\ call[c] \in CallRecord
    BY <1>1, <1>6 DEF InsertUser
  <2>2. CASE /\ users' = [users EXCEPT ![e] = [NoUser EXCEPT !.present = TRUE, !.role = call[c].role]]
             /\ ToStep(c, [call[c] EXCEPT !.at = "org"])
    <3> DEFINE r == [call[c] EXCEPT !.at = "org"]
    <3>1. r \in CallRecord /\ r.at = "org" /\ r.email = e
      BY <2>1 DEF CallRecord, CallSteps
    <3>2. [NoUser EXCEPT !.present = TRUE, !.role = call[c].role] \in UserRecord
      BY <1>0, <2>1 DEF UserRecord, CallRecord
    <3>3. users' \in [Emails -> UserRecord]
      BY <1>0, <2>2, <3>2
    <3>4. call' = [call EXCEPT ![c] = r] /\ calls' = calls
      BY <2>2
    <3> HIDE DEF r
    <3> QED
      BY <1>0, <1>6, <2>1, <3>1, <3>3, <3>4, AccPlain DEF InsertUser
  <2>3. CASE EndCall(c) /\ UNCHANGED users
    BY <1>0, <1>6, <2>3, AccPlain DEF InsertUser
  <2> QED
    BY <1>6, <2>2, <2>3 DEF InsertUser
<1>7. ASSUME NEW c \in Calls, AfterOrg(c), call[c].at \in {"org", "default"},
             users' \in [Emails -> UserRecord], orgs' \in [Emails -> {"none", "named", "renamed"}],
             UNCHANGED <<token, apiKey, members, uses, overlapped>>
      PROVE  AccInv'
  <2> DEFINE r == [call[c] EXCEPT !.at = "verify"]
  <2>1. r \in CallRecord /\ r.at = "verify" /\ r.email \in Emails
    BY <1>1, <1>7 DEF CallRecord, CallSteps
  <2>2. calls' = calls /\ (call' = [call EXCEPT ![c] = r] \/ call' = [call EXCEPT ![c] = NoCall])
    BY <1>7 DEF AfterOrg
  <2> HIDE DEF r
  <2> QED
    BY <1>0, <1>7, <2>1, <2>2, AccPlain
<1>8. ASSUME NEW c \in Calls, CreateOrg(c) PROVE AccInv'
  <2> DEFINE e == call[c].email
             r == [call[c] EXCEPT !.at = "default"]
  <2>1. CASE orgs' = [orgs EXCEPT ![e] = "named"] /\ ToStep(c, [call[c] EXCEPT !.at = "default"])
    <3>1. r \in CallRecord /\ r.at = "default" /\ r.email \in Emails
      BY <1>1, <1>8 DEF CallRecord, CallSteps, CreateOrg
    <3>2. orgs' \in [Emails -> {"none", "named", "renamed"}] /\ call' = [call EXCEPT ![c] = r] /\ calls' = calls
      BY <1>0, <2>1
    <3> HIDE DEF r
    <3> QED
      BY <1>0, <1>8, <3>1, <3>2, AccPlain DEF CreateOrg
  <2>2. CASE UNCHANGED orgs /\ AfterOrg(c)
    BY <1>0, <1>7, <1>8, <2>2 DEF CreateOrg
  <2> QED
    BY <1>8, <2>1, <2>2 DEF CreateOrg
<1>9. ASSUME NEW e \in Emails PROVE users[e] \in UserRecord /\ users[e].present \in BOOLEAN
  BY <1>0 DEF UserRecord
<1>10. ASSUME NEW c \in Calls, SetDefaultOrg(c) PROVE AccInv'
  <2>1. call[c].email \in Emails
    BY <1>1, <1>10 DEF SetDefaultOrg
  <2>2. users' \in [Emails -> UserRecord]
    BY <1>0, <1>9, <1>10, <2>1 DEF SetDefaultOrg, UserRecord
  <2> QED
    BY <1>0, <1>7, <1>10, <2>2 DEF SetDefaultOrg
<1>11. ASSUME NEW c \in Calls, StoreVerifyToken(c) PROVE AccInv'
  <2>1. call[c].email \in Emails
    BY <1>1, <1>11 DEF StoreVerifyToken
  <2>2. users' \in [Emails -> UserRecord]
    BY <1>0, <1>9, <1>11, <2>1 DEF StoreVerifyToken, UserRecord
  <2> QED
    BY <1>0, <1>11, <2>2, AccPlain DEF StoreVerifyToken
<1>12. ASSUME users' \in [Emails -> UserRecord], orgs' \in [Emails -> {"none", "named", "renamed"}],
              apiKey' \in [ApiKeys -> {"none", "org", "site", "deleted", "revoked"}], calls' \in 0..MaxCalls,
              UNCHANGED <<token, members, call, uses, overlapped>>
       PROVE  AccInv'
  <2>1. AccWellTyped'
    BY <1>12 DEF AccInv, AccWellTyped
  <2> QED
    BY <1>12, <2>1, AccKeeps
<1>13. apiKey \in [ApiKeys -> {"none", "org", "site", "deleted", "revoked"}]
  BY DEF AccInv, AccWellTyped
<1>14. ASSUME NEW e \in Emails, VerifyEmail(e) \/ DeleteUser(e) \/ HandleUpdateOrg(e) \/ HandleDeleteOrg(e) PROVE AccInv'
  <2>1. CASE VerifyEmail(e)
    <3>1. users' \in [Emails -> UserRecord]
      BY <1>0, <2>1 DEF VerifyEmail, UserRecord
    <3> QED
      BY <1>0, <1>12, <1>13, <2>1, <3>1 DEF VerifyEmail
  <2>2. CASE DeleteUser(e)
    <3>1. users' \in [Emails -> UserRecord]
      BY <1>0, <2>2 DEF DeleteUser
    <3> QED
      BY <1>0, <1>2, <1>12, <1>13, <2>2, <3>1 DEF DeleteUser
  <2>3. CASE HandleUpdateOrg(e) \/ HandleDeleteOrg(e)
    <3>1. orgs' \in [Emails -> {"none", "named", "renamed"}]
      BY <1>0, <2>3 DEF HandleUpdateOrg, HandleDeleteOrg
    <3> QED
      BY <1>0, <1>12, <1>13, <2>3, <3>1 DEF HandleUpdateOrg, HandleDeleteOrg
  <2> QED
    BY <1>14, <2>1, <2>2, <2>3
<1>15. ASSUME NEW k \in ApiKeys, \/ HandleCreateAPIKey(k) \/ HandleCreateSiteKey(k)
                                 \/ HandleDeleteAPIKey(k) \/ HandleRevokeSiteKey(k)
       PROVE  AccInv'
  <2>1. apiKey' \in [ApiKeys -> {"none", "org", "site", "deleted", "revoked"}]
    BY <1>13, <1>15 DEF HandleCreateAPIKey, HandleCreateSiteKey, HandleDeleteAPIKey, HandleRevokeSiteKey, KeyBecomes
  <2> QED
    BY <1>0, <1>12, <1>15, <2>1
       DEF HandleCreateAPIKey, HandleCreateSiteKey, HandleDeleteAPIKey, HandleRevokeSiteKey, KeyBecomes
<1>16. ASSUME NEW t \in Tokens, \/ HandleSendMagicLink(t) \/ HandleForgotPassword(t) \/ HandleCreateInvite(t)
                                \/ Expire(t)
       PROVE  AccInv'
  BY <1>16, AccSent DEF HandleSendMagicLink, HandleForgotPassword, HandleCreateInvite, Expire, SendToken
<1>17. ASSUME NEW c \in Calls, NEW t \in Tokens, NEW e \in Emails, VerifyMagicLink(c, t, e) PROVE AccInv'
  <2> DEFINE r == [NoCall EXCEPT !.at = "insert", !.email = e, !.token = t]
  <2>1. r \in CallRecord /\ r.at = "insert" /\ r.email = e
    BY <1>0 DEF CallRecord, CallSteps
  <2>2. /\ call[c] = NoCall /\ (call' = [call EXCEPT ![c] = r] \/ call' = [call EXCEPT ![c] = NoCall])
        /\ calls < MaxCalls /\ calls' = calls + 1
    <3>1. call = [call EXCEPT ![c] = call[c]]
      BY DEF AccInv, AccWellTyped
    <3> QED
      BY <1>17, <3>1 DEF VerifyMagicLink, FindOrCreateUser
  <2> HIDE DEF r
  <2>3. /\ token' \in [Tokens -> {"unsent", "live", "used", "expired"}] /\ uses' \in [Tokens -> Nat]
        /\ token'[t] = "used" /\ uses'[t] = uses[t] + 1 /\ KindOf[t] = "link" /\ token[t] = "live" /\ uses[t] \in Nat
        /\ \A u \in Tokens : u # t => token'[u] = token[u] /\ uses'[u] = uses[u]
    BY <1>17 DEF VerifyMagicLink, Spend, AccInv, AccWellTyped
  <2>4. LinkOK(t)'
    BY <2>3 DEF AccInv, LinkOK
  <2>5. UNCHANGED <<users, orgs, apiKey, members, overlapped>> /\ members \subseteq Emails
    BY <1>17 DEF VerifyMagicLink, AccInv, AccWellTyped
  <2> QED
    BY <1>0, <1>2, <2>1, <2>2, <2>3, <2>4, <2>5, AccOneToken
<1>18. ASSUME NEW c \in Calls, NEW t \in Tokens, NEW e \in Emails, ReadToken(c, t, e) PROVE AccInv'
  <2> DEFINE r == [NoCall EXCEPT !.at = KindOf[t], !.email = e, !.token = t]
  <2>1. r \in CallRecord /\ r.at = KindOf[t] /\ r.email = e /\ r.token = t
    BY <1>0, <1>18 DEF CallRecord, CallSteps, ReadToken
  <2>2. /\ call[c] = NoCall /\ call' = [call EXCEPT ![c] = r] /\ calls < MaxCalls /\ calls' = calls + 1
        /\ KindOf[t] \in {"reset", "invite"} /\ token[t] = "live"
        /\ UNCHANGED <<users, orgs, token, apiKey, members, uses>>
        /\ overlapped' \in {overlapped, overlapped \cup {t}}
        /\ (t \notin overlapped' => t \notin overlapped /\ HeldBy(t) = {})
    BY <1>18 DEF ReadToken
  <2> HIDE DEF r
  <2>3. ASSUME call'[c] = r, \A d \in Calls : d # c => call'[d] = call[d], KindOf[t] # "link", t \notin overlapped'
        PROVE  TokenOK(t)'
    <3>1. TokenOK(t) /\ \A d \in Calls : call[d].token # t
      BY <2>2, <2>3 DEF HeldBy, AccInv
    <3>2. uses[t] = 0
      BY <2>2, <3>1 DEF TokenOK, Marks
    <3>3. \A d \in Calls : Spends(d, t)' => d = c
      BY <2>3, <3>1 DEF Spends
    <3> QED
      BY <2>2, <3>2, <3>3 DEF TokenOK
  <2>4. /\ members \subseteq Emails /\ token \in [Tokens -> {"unsent", "live", "used", "expired"}]
        /\ uses \in [Tokens -> Nat]
    BY DEF AccInv, AccWellTyped
  <2> QED
    BY <1>0, <1>2, <2>1, <2>2, <2>3, <2>4, AccOneToken
<1>19. ASSUME NEW c \in Calls, call[c].at \in SpendSteps
       PROVE  /\ call[c] \in CallRecord /\ call[c].token \in Tokens /\ call[c].email \in Emails
              /\ KindOf[call[c].token] # "link" /\ Spends(c, call[c].token)
              /\ token \in [Tokens -> {"unsent", "live", "used", "expired"}] /\ uses \in [Tokens -> Nat]
              /\ members \subseteq Emails
  BY <1>19 DEF AccInv, AccWellTyped, Spends
<1>20. ASSUME NEW c \in Calls, NEW t \in Tokens, call[c].token = t, UpdatePassword(c) PROVE AccInv'
  <2> DEFINE r == [call[c] EXCEPT !.at = "mark"]
  <2>1. r \in CallRecord /\ r.at = "mark" /\ r.email \in Emails /\ r.token = t /\ KindOf[t] # "link"
    BY <1>19, <1>20 DEF UpdatePassword, CallRecord, CallSteps
  <2>2. /\ call' = [call EXCEPT ![c] = r] /\ calls' = calls
        /\ UNCHANGED <<users, orgs, token, apiKey, members, overlapped>>
    BY <1>20 DEF UpdatePassword
  <2>3. /\ uses' \in [Tokens -> Nat] /\ uses'[t] = uses[t] + 1 /\ uses[t] \in Nat
        /\ \A u \in Tokens : u # t => uses'[u] = uses[u]
    BY <1>19, <1>20, <2>1 DEF UpdatePassword, Spend
  <2> HIDE DEF r
  <2>4. ASSUME call'[c] = r, \A d \in Calls : d # c => call'[d] = call[d], KindOf[t] # "link", t \notin overlapped'
        PROVE  TokenOK(t)'
    <3>1. TokenOK(t) /\ Spends(c, t) /\ ~Marks(c, t)
      BY <1>19, <1>20, <2>1, <2>2, <2>4 DEF AccInv, UpdatePassword, Marks
    <3>2. uses[t] = 0 /\ \A d \in Calls : Spends(d, t) => d = c
      BY <3>1 DEF TokenOK
    <3>3. Marks(c, t)'
      BY <2>1, <2>4 DEF Marks
    <3>4. \A d \in Calls : Spends(d, t)' => d = c
      BY <2>1, <2>4, <3>2 DEF Spends
    <3> QED
      BY <2>1, <2>3, <2>4, <3>2, <3>3, <3>4 DEF TokenOK
  <2>5. /\ token \in [Tokens -> {"unsent", "live", "used", "expired"}] /\ members \subseteq Emails
    BY DEF AccInv, AccWellTyped
  <2>6. calls' \in 0..MaxCalls /\ call[c].token = t /\ token'[t] = token[t] /\ overlapped' = overlapped
    BY <1>0, <1>20, <2>2
  <2> QED
    BY <2>1, <2>2, <2>3, <2>4, <2>5, <2>6, AccOneToken
<1>21. ASSUME NEW c \in Calls, NEW t \in Tokens, call[c].token = t, MarkReset(c) PROVE AccInv'
  <2>1. /\ call' = [call EXCEPT ![c] = NoCall] /\ calls' = calls /\ UNCHANGED <<users, orgs, apiKey, members, uses>>
        /\ call[c].at = "mark"
    BY <1>21 DEF MarkReset
  <2>2. /\ token' \in [Tokens -> {"unsent", "live", "used", "expired"}] /\ overlapped' \in {overlapped, overlapped \cup {t}}
        /\ \A u \in Tokens : u # t => token'[u] = token[u]
        /\ t \notin overlapped' => token'[t] = "used" /\ t \notin overlapped
    BY <1>19, <1>21 DEF MarkReset
  <2>3. ASSUME call'[c] = NoCall, \A d \in Calls : d # c => call'[d] = call[d], KindOf[t] # "link", t \notin overlapped'
        PROVE  TokenOK(t)'
    <3>1. TokenOK(t) /\ Spends(c, t)
      BY <1>19, <1>21, <2>2, <2>1, <2>3 DEF AccInv
    <3>2. \A d \in Calls : ~Spends(d, t)'
      BY <1>0, <2>3, <3>1 DEF TokenOK, Spends
    <3> QED
      BY <2>1, <2>2, <2>3, <3>1, <3>2 DEF TokenOK
  <2>4. uses \in [Tokens -> Nat] /\ members \subseteq Emails /\ KindOf[t] # "link"
    BY <1>19, <1>21, <2>1
  <2>5. token'[t] \in {token[t], "used"} /\ calls' \in 0..MaxCalls /\ members' \subseteq Emails
    BY <1>0, <1>19, <1>21, <2>1, <2>4 DEF MarkReset
  <2> QED
    BY <1>0, <1>21, <2>1, <2>2, <2>3, <2>4, <2>5, AccOneToken
<1>22. ASSUME NEW c \in Calls, NEW t \in Tokens, call[c].token = t, AcceptInvite(c) PROVE AccInv'
  <2> DEFINE r == [call[c] EXCEPT !.at = "member"]
  <2>1. r \in CallRecord /\ r.at = "member" /\ r.email \in Emails /\ r.token = t /\ KindOf[t] # "link"
    BY <1>19, <1>22 DEF AcceptInvite, CallRecord, CallSteps
  <2>2. /\ call' = [call EXCEPT ![c] = r] /\ calls' = calls
        /\ UNCHANGED <<users, orgs, apiKey, members, uses, overlapped>>
    BY <1>22 DEF AcceptInvite
  <2>3. /\ token' \in [Tokens -> {"unsent", "live", "used", "expired"}] /\ token'[t] = "used"
        /\ \A u \in Tokens : u # t => token'[u] = token[u]
    BY <1>19, <1>22 DEF AcceptInvite
  <2> HIDE DEF r
  <2>4. ASSUME call'[c] = r, \A d \in Calls : d # c => call'[d] = call[d], KindOf[t] # "link", t \notin overlapped'
        PROVE  TokenOK(t)'
    <3>1. TokenOK(t) /\ Spends(c, t) /\ ~Marks(c, t)
      BY <1>19, <1>22, <2>1, <2>2, <2>4 DEF AccInv, AcceptInvite, Marks
    <3>2. uses[t] = 0 /\ \A d \in Calls : Spends(d, t) => d = c
      BY <3>1 DEF TokenOK
    <3>3. \A d \in Calls : Spends(d, t)' => d = c
      BY <2>1, <2>4, <3>2 DEF Spends
    <3> QED
      BY <2>2, <3>2, <3>3 DEF TokenOK
  <2>5. uses \in [Tokens -> Nat] /\ members \subseteq Emails
    BY DEF AccInv, AccWellTyped
  <2> QED
    BY <1>0, <1>22, <2>1, <2>2, <2>3, <2>4, <2>5, AccOneToken
<1>23. ASSUME NEW c \in Calls, NEW t \in Tokens, call[c].token = t, InsertMember(c) PROVE AccInv'
  <2>1. /\ call' = [call EXCEPT ![c] = NoCall] /\ calls' = calls /\ UNCHANGED <<users, orgs, token, apiKey, overlapped>>
        /\ call[c].at = "member"
    BY <1>23 DEF InsertMember
  <2>2. /\ uses' \in [Tokens -> Nat] /\ uses'[t] \in {uses[t], uses[t] + 1} /\ uses[t] \in Nat
        /\ \A u \in Tokens : u # t => uses'[u] = uses[u]
        /\ members' \subseteq Emails /\ token \in [Tokens -> {"unsent", "live", "used", "expired"}]
    BY <1>19, <1>23 DEF InsertMember, Spend
  <2>3. ASSUME call'[c] = NoCall, \A d \in Calls : d # c => call'[d] = call[d], KindOf[t] # "link", t \notin overlapped'
        PROVE  TokenOK(t)'
    <3>1. TokenOK(t) /\ Spends(c, t) /\ ~Marks(c, t) /\ token'[t] = "used"
      BY <1>19, <1>23, <2>1, <2>3 DEF AccInv, Marks
    <3>2. uses[t] = 0 /\ \A d \in Calls : Spends(d, t) => d = c
      BY <3>1 DEF TokenOK
    <3>3. \A d \in Calls : ~Spends(d, t)'
      BY <1>0, <2>3, <3>2 DEF Spends
    <3> QED
      BY <2>2, <3>1, <3>2, <3>3 DEF TokenOK
  <2>4. KindOf[t] # "link"
    BY <1>19, <1>23, <2>1
  <2> QED
    BY <1>0, <1>23, <2>1, <2>2, <2>3, <2>4, AccOneToken
<1>24. ASSUME RestartAuth PROVE AccInv'
  <2>1. users' \in [Emails -> UserRecord] /\ orgs' \in [Emails -> {"none", "named", "renamed"}]
    <3>1. \A e \in Emails : [users[e] EXCEPT !.org = TRUE] \in UserRecord
      BY <1>9 DEF UserRecord
    <3> QED
      BY <1>0, <1>24, <3>1 DEF RestartAuth
  <2>2. \A c \in Calls : call'[c] = NoCall
    BY <1>24 DEF RestartAuth
  <2>3. overlapped' \subseteq Tokens /\ overlapped \subseteq overlapped'
        /\ \A c \in Calls : call[c].at = "mark" => call[c].token \in overlapped'
    BY <1>24 DEF RestartAuth, AccInv, AccWellTyped
  <2>4. /\ token' \in [Tokens -> {"unsent", "live", "used", "expired"}] /\ uses' = uses
        /\ \A t \in Tokens : token'[t] = IF KindOf[t] = "link" /\ token[t] = "live" THEN "expired" ELSE token[t]
    BY <1>24 DEF RestartAuth, AccInv, AccWellTyped
  <2>5. AccWellTyped'
    <3>1. call' \in [Calls -> CallRecord]
      BY <1>0, <1>24 DEF RestartAuth
    <3> QED
      BY <1>0, <1>24, <2>1, <2>2, <2>3, <2>4, <3>1 DEF RestartAuth, AccInv, AccWellTyped
  <2>6. ASSUME NEW t \in Tokens, KindOf[t] # "link", t \notin overlapped' PROVE TokenOK(t)'
    <3>1. TokenOK(t) /\ \A c \in Calls : ~Marks(c, t) /\ ~Spends(c, t)'
      BY <1>0, <2>2, <2>3, <2>6 DEF AccInv, Marks, Spends
    <3> QED
      BY <2>4, <2>6, <3>1 DEF TokenOK
  <2>7. ASSUME NEW t \in Tokens, KindOf[t] = "link" PROVE LinkOK(t)'
    BY <2>4, <2>7 DEF AccInv, LinkOK
  <2> QED
    BY <1>0, <2>2, <2>5, <2>6, <2>7 DEF AccInv
<1>25. ASSUME UNCHANGED accVars PROVE AccInv'
  BY <1>0, <1>12, <1>13, <1>25 DEF accVars
<1>26. ASSUME NEW c \in Calls, UpdatePassword(c) \/ MarkReset(c) \/ AcceptInvite(c) \/ InsertMember(c) PROVE AccInv'
  <2>1. call[c].token \in Tokens
    BY <1>19, <1>26 DEF UpdatePassword, MarkReset, AcceptInvite, InsertMember
  <2> QED
    BY <1>20, <1>21, <1>22, <1>23, <1>26, <2>1
<1> QED
  BY <1>3, <1>4, <1>5, <1>6, <1>8, <1>10, <1>11, <1>14, <1>15, <1>16, <1>17, <1>18, <1>24, <1>25, <1>26 DEF AccNext

\* A token takes effect once: a magic link in every interleaving and through
\* restarts, a reset token or an invitation unless two requests had read it
\* before either wrote, or its use could not be recorded
\* (components/auth/magiclink.go, passwordreset.go, membership.go).
THEOREM AccTokens == AccSpec => [](AccTypeOK /\ TokensSpentOnce)
<1>1. AccInv => AccTypeOK
  BY DEF AccInv, AccWellTyped, AccTypeOK, UserRecord, CallRecord, CallSteps
<1>2. AccInv => TokensSpentOnce
  BY DEF AccInv, AccWellTyped, LinkOK, TokenOK, TokensSpentOnce
<1> QED
  BY <1>1, <1>2, AccInvInit, AccInvStep, PTL DEF AccSpec

=============================================================================
