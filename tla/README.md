# BigBase in TLA+

BigBase is one Go binary that hosts the sites of a small team: it clones and
builds a repository, runs the result behind its own reverse proxy, and brings
along authentication, secrets, CI, realtime channels, functions, storage,
monitoring and webhooks. Everything is a component registered with a kernel; the
components share one database (SQLite with a single connection by default,
`components/db/db.go:97`) and an in-process event bus. What is hard about it is
not the data, it is that many goroutines of one process, and the processes it
starts, change the same rows and the same maps, that most of them ignore the
errors of the others, and that the whole may be killed at any statement.

This directory models the parts where that matters (27 modules of components), checks them with TLC on small
instances and proves the central invariants with TLAPS for all values of the
constants. `PROJECT.json` maps every definition to the lines it models.

## 1. Inventory

| Component | State | Operations | Hard behaviour | What makes it correct |
|---|---|---|---|---|
| deploy: status machine (`state_machine.go`, `state_transitions.go`, `forceStatus`) | `status`, `status_history` of a row, `d.mu` | TransitionState (read, validate, CAS, append, event), forceStatus, raw resume write, DELETE | two goroutines on one row; the row deleted under a call; a statement that fails | only declared edges; the audit trail loses, doubles and invents nothing; events follow their record |
| deploy: engine (`engine.go`, `orchestrator.go`, `rollback.go`, `reconcile.go`, `gateway.go`) | deployments table, `d.apps`, `d.oldDeployments`, `d.draining`, OS processes, the site's proxy host | Trigger, build, start, probe, drain, rollback, delete, reconcile, resume | every pair of those overlapping; status writes whose errors are dropped; processes that die or outlive BigBase; young rows at boot | no row says running with nothing behind it, but where a write was lost; a stop is not recorded as a crash; nothing stays in flight; the site stays served |
| deploy: what serves a checkout (`framework_mode.go`, `manifest.go`, `static_serve.go`, `node_pm.go`, `python.go`, `runtimes.go`) | the build directory, `app_type` column | detect, build, choose a directory or a command; decide again at a restart and at a rollback | three pieces of code that must agree | an index page and never a listing; a restart serves what the deployment served |
| deploy: supervisor (`supervisor.go`, `deploy_runner.go`, `runner.go`) | the instance, `stopping`, crash times, the host | Run, Stop, health loop, backoff | Stop racing a spawn; crash loops | a stopped instance is not respawned and stays "stopped"; restarts in a window are bounded |
| deploy: logs (`logs.go`, `log_stream.go`) | buffers, hubs, subscribers | append, subscribe with replay, close, delete | a line between replay and stream; writers after the delete | the stream is what was broadcast; buffers bounded |
| deploy: build caches (`cache.go`, `cache_api.go`) | archive and metadata files, the limit in memory and in a row | restore, save, evict, prune, purge, set limit | saves at the same time; crash between two files | within the limit |
| environment (`envresolver.go`, `sites/env_vars.go`, `backup/legacy_migration.go`) | legacy rows, project secrets, checkpoint | edit rows and secrets, migrate, resolve, redact | a resolution during edits and migration; a migration cut and resumed, its report lost | the right value reaches the app, none reaches the log; done means done |
| secrets (`store.go`, `rotation.go`, `manager.go`) | data keys, secrets, versions | create, update, delete, begin/rotate/complete rotation | stale reads before a transaction; interruption between the three calls; a late or repeated completion | exactly one active key; every version opens at every moment; versions immutable |
| secrets access (`api/secrets_api.go`, `mcp/secrets.go`, `auth/secret_policy.go`) | memberships, keys, buckets, audit rows | authenticate, own, role or scope, charge, commit, read again, audit | revocation between two checks; a commit whose request is answered with an error | whoever acts may, and what was answered as done is on record |
| auth sessions | refresh-token families, lockout and rate rows, codes | rotate, reuse detection, record failure, send, verify | two requests with one token; read-modify-write of a counter | a token is used once; reuse kills the family; a lock is earned; limits of codes hold |
| auth accounts | accounts, organizations, mailed tokens, API keys | register, verify, reset, invite, revoke | a token read by two requests; a half-done registration | a token takes effect once |
| request gate (`auth/middleware.go`, `policy.go`, `ratelimit.go`, `proxy.go`) | keys, policies, buckets | the chain of checks | each check reads at its own moment; a policy that cannot be read, a host known by its deployment; a swept bucket still held | who is served may be, but for pages the proxy finds no policy for; no bucket gives too much |
| proxy settings and domains (`hosts.go`, `proxy.go`, `sites/domains.go`, `domain_routing.go`) | policy, CSP and host caches, domain rows, routes | set, fill on a miss, register, verify, delete | no lock spans row and cache; a DNS wait between read and write | a setting takes effect; only verified domains are routed |
| sites and projects (`sites.go`, `projects.go`) | site, project and environment rows | create, attach, rename, delete, migrate | five statements without a transaction, cancelled contexts | one site per name |
| cici (`runs.go`, `state.go`, `cici.go`) | `cici_runs.status`, `cici_logs`, one goroutine per run | trigger, execute, log, finish, boot reconciliation | deadline against completion; commands that leave descendants; swallowed database errors; crash during a run | a run ends exactly once and is not reported running for ever; success is earned; the log is finished before the status |
| functions | table, cron schedule, runs | create, update, delete, reload, fire, time out | reloads that overlap writes | cron holds what the table holds |
| collections (`api/api.go`, `functions/runtime.go`, `eventrecorder.go`, `monitoring/events.go`) | records, recorded and streamed events | create, merge-update, delete, announce, trim | lost updates; events after the fact | acknowledged writes stay; events are true |
| monitoring alerts | rules, incidents, beginnings of breaches | check, open, announce, mark, resolve | statements that fail one by one; restarts | one alarm per incident, incidents for real breaches |
| realtime and event bus | hub, rooms, client channels | register, subscribe, broadcast, drop, stop | slow client dropped while it subscribes | no send on a closed channel |
| kernel, shutdown | components, their order, started ones | resolve, start, stop | map order; partial start | dependencies up while a component runs; rings and gaps refused |
| webhooks, messaging | hooks, messages, sendings | deliver with retries, send, mail an alert | lost answers, ended contexts | what is reported as done was accepted |
| storage, git, github | rows with files or directories | upload, serve, delete, create, mirror, link | row and disk without a transaction; an INSERT that took effect and reported an error | what a table names is on disk, but for such rows |
| backup, migrations | schema, `schema_migrations`, dump | up, down, dump, restore | killed between apply and record; torn dump | schema and record agree |
| metrics, dashboards, mcp tools, forge, admin, ui | little state of their own | reads, formatting, single statements | none of the kinds above | section 7 |

How they interact: `git`/`github`/`sites`/`mcp`/`api` call `deploy.Trigger`;
`deploy` calls `proxy.RegisterDeploymentHost` and `UnregisterDeploymentHost`, reads
secrets through the environment resolver, and emits `deploy.state_changed` on the
bus, to which `monitoring`, `webhooks` and `realtime` subscribe. Cross-component
calls are wired in `main.go` and `adapters.go`.

The hazards of this code, each at its line, with the properties aimed at it and what those
leave out, are `hazards` in `PROJECT.json`.

## 2. Modules

| Module | Models | Composition |
|---|---|---|
| `DeployStateMachine` | the table of edges and the classifications of a status | extended by the two below |
| `DeployStatus` | abstract: what the status column of one row promises to its readers | implemented by `DeployTransitions` |
| `DeployTransitions` | the statements of all concurrent status changes of one row | instantiates `DeployStatus` |
| `DeployEngine` | all deployments of one site, with the processes, the drains, the proxy host and the restarts of BigBase | uses a status change as one step, which the refinement above licenses, and which may be lost |
| `SecretRotation` | the data keys and secrets of one project | |
| `RunLifecycle` | abstract: what the status of pipeline runs promises to the readers of the run list | implemented by `CiciRuns` |
| `CiciRuns` | trigger handlers, run goroutines, deadlines and boots of CICI | instantiates `RunLifecycle` |
| `AuthSessions` | the concurrent login, one-time-code, refresh and logout handlers of one account | |
| `RealtimeHub` | hub, clients and pumps, the bus that feeds them | part of `MCPlatform` |
| `KernelLifecycle` | `resolveOrder` call by call, start, serve, stop | part of `MCPlatform` |
| `InstanceSupervisor` | `Supervisor.Run` of one deployment with its stoppers | part of `MCPlatform` |
| `DeployLogs`, `BuildCache`, `ServePlan` | logs, caches, and what serves a checkout | parts of `MCPlatform` |
| `ProjectSites`, `SitePolicies`, `SiteDomains`, `SiteEnv` | the rows of a site, its settings, domains, environment | parts of `MCPlatform` |
| `AuthAccounts`, `SecretsAccess` | tokens and accounts, who may touch a secret | parts of `MCPlatform` |
| `RequestGate` | what a request passes before a handler or a site sees it | part of `MCPlatform` |
| `CollectionFeed`, `FunctionRuns`, `AlertPipeline` | records and their events, functions, alarms | parts of `MCPlatform` |
| `Outbound`, `DiskRows`, `SchemaUpkeep` | what is sent, what is half on disk, the operator's commands | parts of `MCPlatform` |
| `MCPlatform` | the nineteen modules above, one moving at a time | extends them all |
| `DeployTransitionsProofs`, `DeployEngineProofs`, `SecretRotationProofs`, `CiciRunsProofs`, `AuthSessionsProofs` | the theorems about one module | extend it |
| `RuntimeProofs`, `TenantProofs` | the theorems about eighteen of the modules of `MCPlatform`: what the process runs, what its tenants own | extend them |
| `PlatformProofs` | the theorems about `RequestGate`; that the platform is its nineteen parts, so that their theorems are its own | extends `MCPlatform` and the two above |
| `MC*` | what the runs instantiate | |

### DeployTransitions

A *writer* is a goroutine inside `TransitionState`, `forceStatus` or the raw
`UPDATE` of `resumeCandidates`. Each SQL statement is one action
(`ReadStatus`, `CompareAndSwap`, `ForceRead`, `ForceWrite`, `AppendRead`,
`AppendWrite`, `RawFail`), each `d.mu.Lock()` is one (`LockHistory`,
`LockForce`), the event is one (`Emit`), and a failing statement is one
(`StatementFails`, or the third disjunct of `AppendWrite`, where the code only
logs). `attempt` is the loop counter of `state_transitions.go:38`. The sequence
`applied` and the numbers in the history entries are auxiliary: they let the
properties say *which* change an entry records.

### DeployEngine

One goroutine per deployment runs the pipeline (`pipe`), one the process or the
static server (`starter`, `exited`), any number the drains ordered by
`drainOldDeployments` (`drains` not begun, `drain` the one that owns
`d.draining`). A *handle* (`pid` column, `runningApp`) names nothing, the process
that listens, or a dead one: this is what makes a kill hit or miss. `Restart`
covers a clean stop and a crash, the choice of the rows that
`reconcileOrphanedDeployments` finds old enough, the hosts restored at boot and
the resume candidates; processes that survive become `orphan`. `raced` and
`restarted` are auxiliary, with `lost`, `quiet` and `left`, and mark the exact
exceptions of the properties: a rollback to a deployment that was not at rest or has
lost its files (`raced`); a process that exited with 0 or a static server that could not
listen, which the code only logs (`quiet`); an active row the last boot neither resumed
nor failed (`left`). `restarted` are the rows older than the running BigBase. A
deployment that `resumeCandidates` has still to start is not at rest either: a
rollback to it starts it a second time, and a later rollback from it kills the
first process while the second start registers, which records the stop as a
failure. It takes a restart, a replacement and two rollbacks, more than the run's
two events; the attempt to prove `StopOwnsStatus` found it.

Every status write is a `Write`, which happens or is lost: the callers drop its error
(`engine.go:391`, `:403`, `rollback.go:211` and the rest), the first three under a
context that a slow build, or a client that leaves, may have ended. A pipeline whose
write was lost routes to the new deployment and drains the old one all the same, a stop
kills the app all the same; the row keeps its old status. `lost` remembers which write of
which row, so that a property can say which one it takes to break it: `NoZombieRunning`
gives way only to a lost write that was to take the row out of "running" or to record a
failure, `StopOwnsStatus` only to the first kind.

Deliberate coarseness: `Collect` merges a SELECT with the append of its rows, and
`StartProcess` merges `cmd.Start` with the `UPDATE` of the pid. Neither step
reads or writes what another goroutine could change in between with a different
outcome for the properties.

### SecretRotation

A transaction is one action because an open transaction holds the only
connection; what a call reads before it is an action of its own and stale by
then. Ciphertext is the key that opens it (`sealedBy`) with the plaintext it opens
to; `keyRecord` is the `key_record_id` column, which can disagree. `Interrupt`
ends a call at any statement: BigBase stopped.

### CiciRuns

`pc` is where the trigger handler, and then the goroutine it starts, stands with a
run; `step` and `result` are the loop of `executeRun`. A workflow is reduced to
the number of its commands (jobs run one after the other). Each database statement
is one action, and any may fail (`Fault`). Where an error after the statement took
effect makes a difference, it is modelled: the request may be cancelled under the
insert (`Trigger`, second disjunct) or under the compare-and-swap (`StartRun`,
second disjunct). `expired` is the deadline of the run's context, which kills the
command (`CommandKilled`) and drops log records (`AppendLog`), but not the final
write (`Finish`), whose context is detached. `held` is what a kill of the shell does
not reach: a descendant that keeps the output pipe open, on which `cmd.Run` waits.
`Down` ends the process at any point; `Normalize`, `Reconcile` and `BootFails` are
the parts of `Start`. The refinement maps the status column through
`NormalizeRunStatus`, as `handleRuns` does. `lost` and `bad` are auxiliary.

### AuthSessions

`pc` is where a handler stands between two database statements; `arg`, `seen` and
`at` are what it read and when (the refresh token it was given, the lockout row, the
clock). A refresh token is its family and its `used` column, and its id is its
position in `tokens`; the guarded `UPDATE ... AND used = 0` of `handleRefresh` is
`Rotate`, the insert of the next token `Issue`. The lockout row is written back whole
from the row that was loaded (`LoadFailures`, `WriteFailures`), the rate row is
looked at first and then incremented under a guard, opened or renewed
(`SendOTP`, `IncrementRate`, `OpenRate`, `ResetRate`). Mail and SMS codes go through
the same statements with different keys, so they are one pair of operations here.
`Fail` ends a handler between any two statements. Expired refresh tokens, unknown
codes and locked accounts are refused without a write and take no step.
`closed`, `failed`, `granted` and `reopened` are auxiliary.

### The parts of MCPlatform

Each of these modules is a specification of its own (`HubSpec`, `KernelSpec`, ...)
with one action per statement or per critical section of the code. `MCPlatform`
lets one of them move in each behaviour (`part`) and keeps the others in one initial
state; they share no variable, so this is the union of their state spaces, not their
product, and one run checks them all.

* **RealtimeHub**: the five channels of `Hub.Run` are sequences of bounded length; `Run`
  takes from any that is not empty. `Broadcast` walks a room and unregisters clients
  whose buffer is full. A send on, or a second close of, a closed channel is
  `hub = "panicked"`.
* **KernelLifecycle**: the depth-first search with its three colours, roots in any order (Go
  ranges over a map), a start that may fail at any component, the proxy-first stop,
  and a stop order that is resolved anew.
* **InstanceSupervisor**: spawn, host registration, `setInstance` and the recheck of the
  stop mark are steps; crash times are kept with a clock of ticks.
* **DeployLogs**: a line goes to the buffer and then to the hub, as in the code; hubs have a
  history, subscribers a bounded channel.
* **BuildCache**: archive and metadata are two files; sizes are small numbers.
* **ServePlan**: a checkout is the set of facts that detection, manifests and builds ask
  about. `Resume` and `RollbackTo` repeat the decision from `app_type` and the build
  directory alone, as `orchestrator.go:48-120` and `rollback.go:121-136` do.
  `Recoverable` says exactly for which deployments the three agree. Outside it they
  do not: a site built into `build/` that also has a `public/index.html` is served from
  `public/` after a restart; pages in another output directory are given up as
  `static_output_missing`; a static-host framework started as a Node process keeps
  `app_type` static (`engine.go:265`) and is failed or served from `public/`; two
  `[project.scripts]` make the Python command a matter of map order.
* **ProjectSites**: check of the name, insert of the site, of the project, of its environment,
  attachment, and the undo with a context that may be cancelled.
* **SitePolicies**: row write and cache write of a handler, the cache fill of a miss and the
  refresh on host registration are separate steps, and each read, write and build may fail.
  `hosted` is the id the proxy has for the site's host: after a restart it is the site's
  until the supervisor of a resumed static site registers the id of the deployment
  (`supervisor.go:88`), under which no policy and no CSP is found. A visitor carries why it
  found none (`why`).
* **SiteDomains**: verification reads the row, waits for DNS, writes the row, then the route,
  also when the row could not be written (`unwritten`); a DELETE may report an error that ends
  the request before the route is taken back (`overtaken`);
  the listing counts certificate attempts under a guarded `UPDATE`.
* **AuthAccounts**: magic links under their mutex; reset tokens and invitations read, checked
  and marked in separate statements.
* **AlertPipeline**: one check is a copy of the rules and then, per rule, look up, insert,
  announce and mark, any of which may fail.
* **CollectionFeed**: an update is a read, a merge and a write; events are recorded in the
  goroutine of the request, counted and trimmed.
* **FunctionRuns**: a handler writes the table and reloads; a reload reads the table and
  replaces every cron entry under `f.mu`; cron fires the copy it holds.
* **SiteEnv**: values are numbered by the write they come from; members edit rows and native
  secrets at any time; the resolver reads secrets, then rows, then overlays reserved keys. The
  migration marks the site in one step and returns its report in a later one, between which
  another site may fail or the run be killed (`unreported`).
* **SecretsAccess**: `held` collects what the caller of a request held at any moment of it. An
  operation commits, reads the secret again, and then goes to the audit; where the commit or
  the second read reports an error the request ends unaudited (`audit.failed`).
* **Outbound**: the receiver's acceptance and the sender's report are separate; requests and
  answers are lost or late.
* **DiskRows**: rows, directories and files change one at a time, BigBase stops between them. An
  INSERT may take effect and report an error, after which the handler removes what its row
  names (`emptied`); paths that contain ".." are stored and then refused (`dotted`).
* **RequestGate**: one action per check of the chain, each of which reads its own piece of
  `world` (keys, policy, host, ownership, verification) at its own moment; `saw` collects the
  worlds there were during a request. `getSiteAuthPolicy` answers from its cache
  (`policyKnown`), from the row, or not at all, and what has no policy is not checked; the
  host may be known by its deployment. A bucket belongs to a user or to an address as the
  request claims it: a client that changes its X-Forwarded-For changes its bucket, so nothing
  is said of clients, only of what one key is granted. Buckets are objects, so a request may
  hold one the sweeper dropped.
* **SchemaUpkeep**: migrations, dump and restore are processes beside the server; a restore is
  one transaction only because the dump says so.

## 3. Runs

| Run | Question | Result |
|---|---|---|
| `deploy_transitions` | Do concurrent status changes keep a complete and truthful trail, look atomic to readers, and return? | holds |
| `deploy_force` | Does the lock of `forceStatus` keep transitions out, as its comment says? | violated |
| `deploy_engine` | Under any two of rollback, delete, restart, process exit and a lost status write: no zombie running row, no stop recorded as failure? | holds |
| `deploy_engine_live` | Does everything in flight settle, does a replaced deployment leave? | holds |
| `deploy_serving` | Does the site stay served while a new deployment comes up? | violated |
| `deploy_delete` | Does deleting one deployment leave the route of another alone? | violated |
| `secret_rotation` | One active key, every version decryptable and immutable, under interleaved, repeated, interrupted rotations? | holds |
| `cici_runs` | Do reported statuses follow the lifecycle, is no run stranded, is success earned, do logs end first, do runs end? | holds |
| `auth_sessions` | Does a token family keep one working token and die for good, is a lock earned, do the limits on codes hold, under concurrent handlers? | holds |
| `platform` | Do the nineteen components around the engine keep what their callers rely on, each under overlapping requests, failing statements, crashes and restarts? | holds |
| `hub_disconnect` | Do clients disconnect cleanly from the realtime hub, as the test plan says? | violated |
| `secret_retired` | Is the retired key out of use, as `CompleteKeyRotation` verifies? | violated |

The five disagreements with the repository's own words (`findings`):

* **`forceStatus`** (`engine.go:134-136`) says a transition cannot slip between its
  read and its write. `TransitionState` takes the mutex only around the history, so
  its compare-and-swap can; the recorded From is then stale. That is why
  `EntriesTruthful` promises the source of an entry only for unforced changes.
* **Two overlapping triggers**: the second collects the first deployment as
  "previous" in the window between its `running` and its own
  `drainOldDeployments`; the first then drains itself with no newer one healthy.
* **Deleting a failed deployment** that is still registered unregisters the host
  shared with the running one.
* **`CompleteKeyRotation`** counts and spot-checks before its transaction; a write
  in between leaves a current version under the key that is then retired. It still
  opens (`AlwaysDecryptable`).
* **The realtime hub** (`hub.go:72-77`) serves a subscribe request without looking whether
  the client is still registered; after a drop its channel is closed, it is back in the
  room, and the next event sends on the closed channel (`hub.go:92`): a panic that ends
  BigBase. `OnlyLateSubscribersPanic` shows that there is no other way to panic.

Two more that the models have, where properties name them as exceptions:

* **A static site resumed after a restart** (`supervisor.go:88`) is registered under the id of
  its deployment where the site's belongs. `deploymentHostMiddleware` asks for the policy of
  that id, finds none and lets every request pass, until a deployment registers the host
  again; `specs/tech-architecture/tech-stack.md:211` has every request evaluated
  (`SettingsTakeEffect`, `GateCorrect`).
* **The migration's report** is returned after its last site, each site is marked done when it
  is finished (`legacy_migration.go:279`): an error of a later site returns no report
  (`:164-166`), and no later run visits the site, so a key that "is reported by name"
  (`:273-275`) is not (`EnvCorrect`).

### Bounds, and why they are enough

* `deploy_transitions`: 2 writers, 3 calls, 1 failing statement, a retry budget of 2
  instead of 4. Every property relates at most two writers; three calls let one
  writer lose the CAS until its budget is exhausted while the row is also forced or
  deleted. The proofs remove these bounds. `deploy_force` uses the real budget.
* `deploy_engine`: 2 deployments, one process and one static site, so that either can
  replace, roll back to or outlive the other; two events out of rollback, delete,
  restart, exit and a lost status write, so every ordered pair of them meets every
  interleaving of the pipelines and drains. `deploy_engine_live` allows one event, since liveness
  checking needs the whole behaviour graph. The violation runs switch off the
  events they do not need.
* `secret_rotation`: 2 concurrent calls, 6 in all, 2 secrets, 2 versions, 3 data keys:
  two complete rotations, so a call can be stale by a whole rotation. Symmetric in
  the clients. The proofs remove these bounds.
* `cici_runs`: 2 runs, 2 steps, 2 failing statements, 1 restart. The goroutines of
  two runs share only the database and the boot, so two suffice; with two steps a
  run fails or times out at its first, between the two, or at its last; two faults
  let the start of a run and then its final write fail; one restart reaches
  every state a boot can find. The proofs remove these bounds for safety.

* `auth_sessions`: 3 handlers, 5 requests, 2 ticks of time; 2 failures lock, 2 codes an
  hour, 1 wrong guess, windows of 1 tick. Three handlers let a rotation, a second
  rotation and a replay of one token overlap; five requests let a family be started,
  rotated, replayed and presented again, or a window be opened, filled, outlived
  and renewed; two ticks outlive the window that was renewed. Symmetric in the
  handlers. The proofs remove these bounds for the token properties and the
  guessing limit.

* `platform`: two interchangeable actors (`x1`, `x2`: clients, requests, workers, sites) per
  component, because every property relates at most two overlapping requests and a
  third party (an operator, a restart, a sweeper) that each module has as an action of
  its own; two or three requests in all, so that one finds what the other left; limits of
  one or two (buffers, tokens, attempts, entries), so that each is reached and passed;
  three wirings of the kernel (main's diamond, a ring, a missing component); 32
  checkouts, seven requests and three sets of tools for `ServePlan`, one for every branch
  of its detections, and two replays, so that a restart follows a rollback and the other
  way round. `RequestGate` has two requests at a time and three in all, so that one holds what
  another's check or the sweeper changes and a third finds it; limits of one, windows of one
  and two ticks against a sweep period of one (the deploy keys' hour against ten minutes),
  and one change of the world, which is all it takes to fall between two checks. Symmetric in
  the two actors. About 550,000 states.
* `hub_disconnect`: one client, one room, buffers of one and two, one event.

Deadlock is not checked: a BigBase to which nobody talks does stop moving, and the
bounds on calls and events end every behaviour.

### Fairness, and why the code justifies it

A goroutine inside a call is scheduled by the Go runtime: weak fairness of its
steps. Clones, builds, probes and drains run under contexts with deadlines, so
they finish one way or the other. `sync.Mutex` switches to starvation mode and
hands the lock to a goroutine that waited for a millisecond: strong fairness of
the two Lock steps. Nobody is assumed to trigger, call, crash, delete or restart
anything; process exits are events, not obligations. `SecretRotation` and
`AuthSessions` and the parts of `MCPlatform` claim no liveness and assume no fairness. In `CiciRuns` the goroutine of a run goes on, time
passes (`Expire`), and a boot goes on; that a command, or what it left running,
ends by itself is not assumed.

## 4. Properties

* `AuditSound` (`AuditComplete` and `EntriesTruthful`), `EventAfterRecord`: the trail of a row.
* `ImplementsStatus`: refinement of `DeployStatus`.
* `CallReturns`: every call ends, locks included.
* `NoZombieRunning`: behind a row that says running there is a registered process or server
  that listens, an exit about to be recorded, or somebody who is starting or stopping it. The
  exceptions are a write whose error the code dropped (`lost`), a process that exits with 0
  and a server that cannot listen (`quiet`), rows the last boot left (`left`), and a rollback
  to a deployment that was not at rest or has no files (`raced`).
* `StopOwnsStatus`: the exit of a process killed on purpose is not recorded as a
  failure (`engine.go:785-786`), but where the row is being deleted, a rollback raced, or the
  status of the stop could not be written.
* `InFlightSettles`, `ReplacedLeaves`: progress of pipelines and drains; a row whose status
  write was lost, or that a boot left, is not promised any.
* `OneActiveKey`, `AlwaysDecryptable`, `VersionsImmutable`: secrets.
* `ImplementsLifecycle`: refinement of `RunLifecycle`, across failures and restarts.
* `NeverStranded`, `RunEnds`: an unfinished run has somebody working on it, and ends.
  The exceptions are exact: a run whose insert or final write reported an error
  (`lost`) waits for the next boot, and a run whose command left a descendant
  holding its output (`held`) waits for that, deadline or not.
* `SuccessEarned`, `LogsBeforeEnd`: what a reader may conclude from a final status.
* `OneLiveToken`, `FamilyStaysDead`: refresh tokens. The second speaks of families
  invalidated with no rotation under way: a handler between its `Rotate` and its
  `Issue` adds a working token to a family that a replay has just invalidated, and
  the code does not check again.
* `ThrottlesHold`, of which `LockEarned`: the failures a lockout row counts happened in its window, although
  rows are overwritten. The converse, that every failure is counted, does not hold
  for concurrent ones.
* `SendsBounded` (the other half of `ThrottlesHold`), `AttemptsBounded`: the limits on codes, with the exact slack of
  looking first and writing later (`reopened`; the other handlers under way).

The properties of `platform`, one per component, name their exceptions in their own text:

* `OnlyLateSubscribersPanic`: the hub panics only over a late subscriber.
* `KernelCorrect`: dependencies are up while a component runs; a wiring is refused exactly
  when it has a ring or a gap, whichever component is visited first.
* `SupervisorCorrect`: Stop reaches the instance, has the last word, restarts are bounded.
* `LogsCorrect`: the stream of a subscriber that kept up is what the hub broadcast.
* `BuildsCorrect`: once every save has been followed by its eviction, the archives listed fit
  (`CacheBounded`); whatever serves files has an index page, recoverable deployments come back
  as they were, and `bigbase init` writes valid manifests (`PlanKept`).
* `NamesUnique`: two overlapping creations of one name do not both get a site.
* `SettingsTakeEffect`: the proxy holds the row's policy and CSP, or none, or somebody is about
  to tell it, and the defaults are those saved, unless an older value was on its way or a
  handler or deployment failed after its write (`disturbed`); a visitor is checked against a
  policy that was in force, unless it could not be read or the host is known by its
  deployment since a restart.
* `DomainsCorrect`: only verified domains are routed, but for one deleted under its
  verification or by a DELETE that reported an error (`overtaken`), and one whose verification
  could not be written (`unwritten`); one certificate attempt per window.
* `EnvCorrect`: a finished migration holds every runtime row that was not edited since, or has
  skipped it on a report that is still to come, was returned, or was lost with the run;
  a deployment is given the value in force of each key, and none of them reaches the log.
* `SecretsCorrect`: nobody acts without credential, right and project; charges stay within the
  limit; an operation is audited, or its audit was lost, or its request ended with an error
  after the commit, and nothing that did not happen is audited.
* `RowsHaveFiles`: what a row names has its whole content, but for the rows whose INSERT took
  effect and reported an error; who found a row is served, but for a file of those, being
  deleted, or under a path the download refuses.
* `GateCorrect`: who is served was entitled to it by what there was while the request was under
  way, but for a page the proxy found no policy for (`Unprotected`); a user, or an address as
  claimed, is granted at most one limit more than its bucket can have been renewed. The grant a
  request takes from a bucket that was dropped under it is not counted.
* `TokensSpentOnce`, `AlarmPerIncident`, `CollectionsConsistent`, `ScheduleFollowsTable`,
  `DeliveryHonest`, `UpkeepSound`: as in the inventory.

What the exceptions say about the code is worth knowing: a reset token or an invitation
read by two requests acts twice; a deletion that overtakes a verification leaves a route to
a domain nobody owns until it is deleted again; a record updated by two requests keeps one
of the updates, and an update of a record deleted meanwhile is acknowledged and announced;
a message on a channel without a provider is recorded as sent; a bucket of the hourly
deploy-keys limiter is dropped by the ten-minute sweeper, and is full when it is next asked
for; a dump taken while the server writes may be torn. A status write that fails leaves a row
running that was stopped, or deploying that is served; a domain whose verification could not
be written is routed all the same; a policy that cannot be read in two seconds lets the
visitor in; a secret that was changed goes unaudited when it cannot be read again; an INSERT
cancelled as it took effect leaves a row whose file is removed.

Each has a mutant in `PROJECT.json`, a plausible slip in the code it is about (a
dropped guard, a missing status write, an unlocked append), under which TLC finds
it violated.

## 5. Theorems

`DeployTransitionsProofs`, for any set of writers and any bounds, from
`AttemptsAssumption` (the budget is positive) and `BoundsAssumption`:
`TypeCorrect`, `AuditTrailComplete`, `AuditTrailTruthful`, their conjunction
`AuditTrailSound`, `EventsFollowTrail`, `StatusRefinement`.

The audit properties are not inductive. The append is a read and a write of the
whole column, so one needs `LockInv` (the mutex has one holder, exactly the
goroutine in a critical section) to get `SnapshotCurrent` (who is about to write
the column read its present value), and `NumbersInv` (two writers never hold the
same change, and each holds the one it made) to know that the entry written is
the missing one. `IInv` is the conjunction. The refinement adds `RequestInv`: a
CAS writes only what was validated against the status it compares with.

`DeployEngineProofs`, for any set of deployments, any of them static, any events and any
bound on them, from `KindsAssumption` (static deployments are deployments, and no
deployment is called like the missing route): `EngineTypes`, `NoZombies`
(`NoZombieRunning`), `StopsOwnStatus` (`StopOwnsStatus`). The invariant is said of one
deployment at a time, and `Frame` shows that a step about one leaves it true of the
others (`Same`). Each part holds of a deployment unless one of its exceptions has happened to
it. `NoZombieRunning` needs `Unborn`, `Origin` and `Young` (what may be under way about a
deployment in the first part of its life), `Ripe` (only what has been live is ever listed,
drained or rolled back, so a drain cannot meet a pipeline), `Going` (a drain past its intent
and a rollback past its mark have taken the row out of "running", or lost that write, so that
the app they remove or the flag they drop was not the last thing behind it) and `Served` (what
is registered listens, or its exit is still to be looked at, or the start is not over). A
process cannot die unseen: its handle is dead only with its exit awaited, or after a kill by
somebody who has taken the row out of running. `StopOwnsStatus` needs
`Owned`: the exit of a killed process finds its row draining, stopped, failed or rolled
back, or its rollback has unregistered it and not marked it yet, in which case nobody may
register it again. That last point is `Single`, at most one start of a deployment at a
time, which only a rollback to a deployment that is not at rest breaks.

`SecretRotationProofs`, for any clients, secrets, keys and versions, from
`SecretBounds` and `SecretsFinite` (there are finitely many secrets, so they can be
counted): `TypeCorrect`, `ExactlyOneActiveKey`, `DecryptabilityKept`,
`PlaintextsImmutable`. The invariant adds `LoadedKeys` (a call past its loads holds
real keys) and `VersionsInv` (the versions of a live secret are 1 to
`current_version`, each sealed under the key its record names).
`ExactlyOneActiveKey` needs no more than the partial unique index, modelled in
`Promote`, and the ON CONFLICT clauses: the proof shows that the verification in
`CompleteKeyRotation` plays no part in it.

`CiciRunsProofs`, for any runs, steps and bounds, from `StepsAssumption` and
`CiciBounds`: `TypeCorrect`, `NoRunStranded`, `SuccessIsEarned`, `LogsEndFirst`,
`LifecycleRefinement`. The invariant adds `WorkerInv` (nobody works while BigBase is
down, and the row is where its goroutine thinks it is, which makes the guarded
`UPDATE`s succeed and the compare-and-swap an edge of the table) and `LogInv` (a run
that may still succeed has had no failure, and its log is exactly the outputs of
the steps done, unless its deadline or the database took a record).

`AuthSessionsProofs`, for any finite set of handlers, any limits and bounds, from
`RequestsFinite`, `LimitsAssumption` and `AuthBounds`: `TypeCorrect`,
`RotationSingleUse`, `DeadFamilies`, `AttemptLimit`, `ThrottlesAreFair`
(`ThrottlesHold`). `TokenInv` restates the two
token properties over tokens and handlers and adds that families are named by
existing tokens, so that the family of a new sign-in is nobody else's; the
argument is that a working token and a handler about to issue one exclude each
other, and `Rotate` and `Issue` turn one into the other. `AttemptsBounded` is
inductive: the handlers past the check are counted together with the guesses
recorded. `ThrottlesHold` needs `ThrottleInv`: the lockout row is read and written in two
steps, so a handler about to write one must already be owed it (`Owed`: its count is below
the failures there have been since the start it read, its own included), and the rate row
counts every code granted since its window began, unless one was granted between the look at
an expired window and its renewal.

The requests granted and the failures are kept, here and in `RequestGate`, as the sequence of their
times and counted by the cardinality of a set of places, so that no sum has to be unfolded.

The two modules that follow prove, for each component that `platform` checks on a small
instance, that its specification keeps its type invariant and its property for every value
of its constants. Their bounds (`MaxLines`, `MaxRequests`, ...) are arbitrary numbers there,
so they bound nothing that matters. Each is an inductive invariant `XInv`, checked with TLC
before it was proved, with `XInvInit`, `XInvStep` and one lemma per action or group of
actions; each listed theorem has the form `XSpec => [](XTypeOK /\ Property)`.

`RuntimeProofs`:

* `KernelOrders` (`KernelCorrect`). `Searched` is the invariant of a depth-first search:
  black components are exactly those in the order, gray ones are on the stack, each frame's
  dependencies before its index are black but for the one whose visit is above it. So a gray
  dependency closes a ring (`RingFound`), and what is appended has its dependencies before it
  (`Sorted`), from which both the starts and the stops follow. The wiring is any one in which
  nobody depends on the proxy, which `Stop` takes down first.
* `SupervisionHolds` (`SupervisorCorrect`). `Reached` ties the place of `Run` to the mark, the
  slot and the captured instance. `Paced` explains why the check of the history bounds the
  spawns: everything that died since the last `Burst` spawns is in the history, so a spawn
  after a quiet check is more than a window later than the one `Burst` before it. The bound on
  every window follows by counting (`RestartsBounded`).
* `LogsHold` (`LogsCorrect`): the property is inductive with the types and `HubsOpen` (a
  watcher is attached only to a hub that is open). `RemoveLogs` drops the first place of a
  deployment in the order, as the code does; the count of the buffers needs finitely many
  deployments.
* `HubPanics` (`OnlyLateSubscribersPanic`): a queued registration is for a connection the hub
  has neither known nor closed (`Queued`), and `client.rooms` names every room that holds the
  client (`InStep`), so that `unregisterClient` misses none.
* `UpkeepIsSound` (`UpkeepSound`): a dump's tables and its `schema_migrations` agree
  (`DumpOK`), which a restore brings back. The versions are finitely many, so that the latest
  one exists.
* `CacheFits` (`CacheBounded`). `SizeOf` counts the bytes of the entries, as pairs of a key and
  a place in its archive, so that the sum needs no recursion: `NoSize` and `SizeAdds` show it
  is the sum. `EvictsEnough` is about the loop of `Cache.Evict`: the number of entries it
  removes (`EvictCount`) is the least that brings the rest under the limit, and removing all of
  them would. With the types the property is inductive: a save opens the window in which the
  limit may be passed, its eviction closes it, and `slack` carries the largest limit in force
  since, or what an eviction that failed or died left behind.
* `PlansHold` (`PlanKept`), for any checkouts, requests and tools. The invariant follows a
  deployment from its files to what serves them and back. `PlanBuilds` says what the pipeline
  holds on its way: the app type is the one in the column, but for a static site that is built
  as a Node app, and a Node app that gets as far as a start had no page to promote. So when
  something is served first, the column and the directories tell what it was (`PlanFirst`); a
  restart and a rollback read nothing else, and `PlanReplays` is that they arrive there. Two
  facts carry the step: with one page at most, the directory a replay looks for first is the
  one that was served (`RecoversPages`), and with one script at most the start command is
  determined and does not change when corepack adds package managers (`OneCommand`,
  `SameCommands`). Without the hypotheses of `Recoverable` the step fails.
* `FnSchedule` (`ScheduleFollowsTable`), and `AlarmsRaisedOnce` (`AlarmPerIncident`: a breach
  began after the last check that did not see it).

The least member and the bound of a set of numbers are proved from the well-foundedness of
the order on sets (`Least`, `FiniteBound`), not by induction over a predicate.

`TenantProofs`:

* `SiteNamesHeld` (`NamesUnique`): no two rows of `projects` are equal (the UNIQUE), and
  whoever claims a project has the row or its name was released (`ClaimsHold`). A name is
  never empty.
* `DomainsRouted` (`DomainsCorrect`): what a request checked still holds, or it was overtaken
  (`HandlerOK`); a route has its verified row, a removal under way, or is `Excused` (`RouteOK`);
  a row counts its attempts from its reset (`RowOK`).
* `SettingsHeld` (`SettingsTakeEffect`), setting by setting (`PolicyOK`, `CspOK`, `FieldsOK`):
  whoever carries a value to the proxy (`Carrying`) carries the row's, unless the setting is
  disturbed, which only a write beside an older value on its way, or a failure after a write,
  does.
* `EnvironmentsResolved` (`EnvCorrect`): the migration's copy of the rows, what is written of
  it, and what it still has to report once the site is marked (`MigOK`); what a resolution has
  read key by key (`ResOK`). Members edit both stores at every step of both.
* `SecretsKept` (`SecretsCorrect`): each place of a request implies the rights it has shown
  (`CallOK`); the tokens left in a bucket and the requests charged to its window add up to no
  more than the limit (`CountOK`), over finitely many requests; what was done is in the audit,
  on its way to it, or excused (`AuditOK`).
* `CollectionsHold` (`CollectionsConsistent`): who is about to merge holds the record as it is
  unless it is marked stale (`FeedCallGood`), and the events exceed the cap by no more than
  the requests about to trim (`Trimmed`), over finitely many requests.
* `DiskRowsWhole` (`RowsHaveFiles`: who makes a file is alone with it until a row names it, and
  a row has lost its content only if its INSERT reported an error, `Settled`),
  `OutHonest` (`DeliveryHonest`), `AccTokens` (`TokensSpentOnce`: a token that no two requests
  held at once has one spender).

`PlatformProofs`:

* `GateTyped`, `GateHolds` (`GateCorrect`), for any requests, addresses, first worlds, limits,
  windows and sweep periods, from `GateNumbers` (limits, windows and periods are positive) and
  `GateInputs` (requests have the routes and credentials the model knows). `Access` says what
  each check a request has passed tells of the worlds it saw: a request in the middle of the
  chain is `Cleared` up to where it stands, and since what entitles it only grows with what it
  has seen (`EntitledMore`), a key revoked or a policy changed between two checks takes nothing
  back that was shown. `RateInv` follows a key through its periods. Within one, the tokens
  left and the requests granted add up to no more than the limit; a period ends by a refill,
  after the window, or by the sweeper, after a whole interval without use, so never before
  `Renewal`, one more than the shorter of the two, and a stretch of `n` renewals touches at
  most `n + 1` periods. A request that holds a bucket holds one that no other key has.

The run `platform` moves one component at a time and lets the others rest.
`PlatformIsItsParts` shows that this is no more than the components do by themselves: every
behaviour of the platform is a behaviour of each component, whose step it is or which stutters.
`PlatformTypes` (`PlatformTypeOK`) and `PlatformHolds` (all that the run checks; `BuildsCorrect`
is `CacheFits` and `PlansHold`) then follow from the theorems of the components, for every value
of the constants.

The assumptions are the ones the modules state: limits are positive, bounds are numbers, the
sets that are counted are finite, the constants that stand for "none" are not members of the
sets they are added to.

Only model-checked: liveness (`CallReturns`, `InFlightSettles`, `ReplacedLeaves`, `RunEnds`),
which is beyond this prover. Every invariant and every action property that a passing run checks is
stated by a theorem.

## 6. Limits of the models

* Atomicity of a statement and of a transaction rests on the single SQLite
  connection. The optional Postgres backend (`components/db/postgres.go`) allows
  more interleavings inside transactions than `SecretRotation` has.
* `DeployEngine` gives every deployment its own port; port reuse is not modelled.
  Logs, caches, the choice of what is served and the supervisor's restarts are modules of
  their own (`DeployLogs`, `BuildCache`, `ServePlan`, `InstanceSupervisor`); in
  `DeployEngine` the supervisor appears as far as a resumed static site needs it (first
  spawn and Stop).
* `DeployEngine` is one site, with one `Rollback` call and one delete under way at a time;
  sites share nothing but the port range and the database connection. Its runs have two
  deployments, its theorems any number.
* `CiciRuns` leaves out the saving and listing of workflows, the ownership check of a
  trigger and the paging of the run list. A failed statement that took effect all
  the same is modelled only where the code then does something else; elsewhere it
  is indistinguishable from a success whose error is logged.

* `AuthSessions` is one account; a handler looks at the clock in the step of its first
  read, where the code looks just before or just after. Passwords, hashes and codes
  are only right or wrong.

* `DeployEngine` lets a status write fail; what the code reads of the deployments table on the
  way (`hasTerminalStopStatus`, `collectPreviousDeployments`, the `UPDATE` of the pid) is
  assumed to answer.
* The parts of `MCPlatform` do not act on each other: what one reads of another (the policy and
  the id of the host in `RequestGate`, the deployments in `SiteDomains`, the native secrets in
  `SiteEnv`) is a variable of the reader that changes by actions of its own. What is covered is
  what those actions say: policies are set and may be unreadable, hosts come and go and may be
  known by a deployment, secrets are created, edited and deleted by members; that a change
  takes several steps in the component that makes it is not seen by the reader.
* `SiteEnv` is one folder of one project, with one run of the migration at a time; the failure
  of another site is an end of the run (`MigrationDies`).
* In `RequestGate` rows change only before the clock has moved, and the clock moves only if
  they do not: neither reads the other.
* `KernelLifecycle` has one `Start` and one `Stop`; a `Stop` that fails ends at the first error, as
  the code does, and the process exits.
* `ServePlan` knows a file by the facts detection asks for, a build by the directories it leaves;
  `bigbase init` is its manifest.
* `SecretsAccess` is one project, one secret, one organization; `RequestGate` one site.
* `SchemaUpkeep`'s migrations make one table each and undo it.

## 7. Not modelled, and what is left

* **Ports** (`port_allocator.go`): a counter under a mutex hands out each number once and
  probes it by listening on it; who takes the port before the app binds it, minutes later,
  is outside BigBase. Models give each deployment its own.
* **The orphan without a pid** (`engine.go:753`): BigBase killed between `cmd.Start` and the
  `UPDATE` of the pid leaves a process nobody can find; the pid column is all a restart
  has, so there is nothing to check beyond the statement itself.
* **Read models**: metrics, dashboards, status pages, listings, the hub's stats request.
* **Front ends**: most MCP tools, the console, onboarding, scaffolding, forge, administration
  of users, anonymous accounts, phone numbers: single statements or calls into what is
  modelled.
* **External**: SQLite and Postgres, operating system processes, git, GitHub, SMTP, OAuth
  providers, ACME, DNS, the JavaScript machine.
* **Code without a caller outside tests**: `MergeManifests`, `DefaultProfile`,
  `db/migrator.go`, the service hosts of the proxy. Two that are modelled all the same:
  `MigrateLegacyValues`, which its comment calls an operator command (`SiteEnv`), and the
  handlers of webhooks, which `main.go` does not register (`Outbound`).
* User interface, packages, scripts, infrastructure.
