SPECIFICATION Spec
CONSTANTS
    x1 = x1
    x2 = x2
    tl = tl
    tr = tr
    ti = ti
    shop = shop
    \* RealtimeHub
    Clients = {x1, x2}
    Rooms = {r1}
    SendBuf = 1
    ChanCap = 1
    MaxReads = 1
    MaxEmits = 2
    \* KernelLifecycle
    Names <- Components
    Wirings <- MCWirings
    Proxy = "proxy"
    \* InstanceSupervisor
    Burst = 2
    Window = 1
    BackoffCap = 1
    HealthFailures = 2
    MaxSpawns = 3
    MaxClock = 2
    \* DeployLogs
    Deployments = {d1, d2}
    Writers = {x1, x2}
    Watchers = {s1}
    MaxLogDeployments = 1
    MaxLogLines = 1
    WatchBuf = 1
    MaxLines = 2
    \* BuildCache
    Keys = {"k1", "k2"}
    SiteOf <- MCSiteOf
    Sizes = {1, 2}
    Limits = {1}
    DefaultLimit = 2
    Builds = {x1, x2}
    Admins = {a1}
    MaxSaves = 3
    \* ProjectSites
    Sites = {x1, x2}
    SiteNames = {shop}
    NameOf <- MCNameOf
    Orgs = {0, 1}
    OrgOf <- MCOrgOf
    AdminOrg = 1
    Manual = {}
    MaxReleased = 1
    \* SitePolicies
    Policies = {p1, p2}
    DefaultPolicy = p1
    Csps = {c1}
    Workers = {x1, x2}
    MaxOps = 3
    \* SiteDomains
    Owners = {o1, o2}
    Domains = {d1}
    Handlers = {x1, x2}
    CertMaxAttempts = 2
    CertStaleAfter = 2
    MaxTime = 2
    MaxRequests = 4
    \* AuthAccounts
    Emails = {e1}
    Tokens = {tl, tr, ti}
    KindOf <- MCKindOf
    ApiKeys = {k1}
    Calls = {x1, x2}
    MaxCalls = 2
    \* AlertPipeline
    Rules = {r1}
    Durations = {1}
    KeptInvestigations = 1
    MaxIncidents = 2
    MaxChecks = 3
    \* CollectionFeed
    Tenants = {0, 1}
    Fields = {f1, f2}
    FeedCalls = {x1, x2}
    EventCap = 1
    MaxRecords = 1
    MaxFeedCalls = 2
    \* FunctionRuns
    FnIds = {f1}
    FnOrgs = {0, 1}
    FnHandlers = {x1, x2}
    FnRuns = {r1}
    MaxWrites = 3
    \* SiteEnv
    EnvKeys = {k1}
    ManifestKeys = {k1}
    ReservedKeys = {}
    EnvCalls = {w1}
    MaxEnvWrites = 1
    \* SecretsAccess
    Callers = {"m", "o", "s"}
    KindOfCaller <- MCKindOfCaller
    ScopesOf <- MCScopesOf
    SecCalls = {x1, x2}
    MutationLimit = 1
    MaxGrants = 1
    MaxWindows = 1
    \* Outbound
    Hooks = {h1}
    Sends = {x1, x2}
    MaxAttempts = 2
    \* DiskRows
    Ids = {i1, i2}
    RepoNames = {n1}
    DiskCalls = {x1, x2}
    MaxDiskCalls = 4
    \* RequestGate
    Reqs = {x1, x2}
    Addresses = {"a1"}
    Asks <- MCAsks
    LimitOf <- MCLimitOf
    WindowOf <- MCWindowOf
    EveryOf <- MCEveryOf
    HttpsPort = FALSE
    FirstWorlds <- MCFirstWorlds
    MaxGateRequests = 3
    MaxGateTime = 2
    MaxChanges = 1
    \* SchemaUpkeep
    Versions = {1, 2}
    MaxCommands = 4
    MaxRowWrites = 2
    \* ServePlan
    Checkouts <- MCCheckouts
    AppRequests <- MCAppRequests
    ToolSets <- MCToolSets
    MaxReplays = 2
SYMMETRY Interchangeable
INVARIANTS
    PlatformTypeOK
    OnlyLateSubscribersPanic
    KernelCorrect
    SupervisorCorrect
    LogsCorrect
    BuildsCorrect
    NamesUnique
    SettingsTakeEffect
    DomainsCorrect
    TokensSpentOnce
    AlarmPerIncident
    CollectionsConsistent
    ScheduleFollowsTable
    EnvCorrect
    SecretsCorrect
    DeliveryHonest
    RowsHaveFiles
    GateCorrect
    UpkeepSound
CHECK_DEADLOCK FALSE
