---------------------------- MODULE DeployEngine ----------------------------
(***************************************************************************)
(* The deployments of ONE site (components/deploy): triggers, pipelines,   *)
(* application processes and static servers, health checks, zero-downtime  *)
(* drains, rollbacks, deletes and restarts of BigBase, all goroutines of   *)
(* one process that meet in the deployments table, in d.apps, in           *)
(* d.oldDeployments, in d.draining and in the proxy's host table.          *)
(*                                                                         *)
(* A status change is one step: DeployTransitions shows that the many      *)
(* statements of TransitionState and forceStatus implement it.  It may     *)
(* fail: the request's or the pipeline's context has ended, or the         *)
(* database refuses.  Every caller ignores the error and goes on.          *)
(*                                                                         *)
(* All deployments of a site share one proxy host.  A deployment has its   *)
(* own port, so a second process of the same deployment cannot listen      *)
(* while the first one does.                                               *)
(***************************************************************************)
EXTENDS Naturals, Sequences, FiniteSets, DeployStateMachine

CONSTANTS
    Deployments,    \* deployment ids
    Static,         \* those whose build is served as files by BigBase itself
    NoRoute,        \* the host is not in the proxy's table
    Events,         \* which of rollback, delete, restart, exit, fault may happen
    MaxEvents       \* bound: how many of them in one behaviour

ASSUME KindsAssumption == Static \subseteq Deployments /\ NoRoute \notin Deployments
ASSUME EngineBounds == MaxEvents \in Nat

VARIABLES
    status,     \* the deployments table: status column
    order,      \* the deployments table: the ids ever inserted, by created_at
    pid,        \* the deployments table: what the pid column names
    apps,       \* d.apps: what the registered handle names
    up,         \* processes and servers that listen on their port
    orphan,     \* processes that outlived the BigBase that started them
    host,       \* proxy host table: the deployment whose port it routes to
    old,        \* d.oldDeployments[site]: how often each id is in the list
    pipe,       \* the goroutine Trigger / runDeployment of each deployment
    starter,    \* the goroutine startApp / serveStatic / supervisor.Run
    exited,     \* startApp goroutines whose cmd.Wait returned an error
    drains,     \* go drainDeployment calls that have not begun
    drain,      \* the drain that has set d.draining[id]
    handle,     \* its local app
    rb,         \* the Rollback call
    del,        \* the delete handler
    resume,     \* candidates that resumeCandidates still has to start
    events,     \* bound: events so far
    lost,       \* auxiliary: status writes <<d, to>> that did not happen
    raced,      \* auxiliary: restored by a rollback before they were at rest,
                \* or without the files to serve
    quiet,      \* auxiliary: their process exited with 0, or their server
                \* could not listen: both are only logged
    left,       \* auxiliary: active rows the last boot did nothing about
    restarted   \* auxiliary: rows older than the running BigBase

table == <<status, order, pid>>
memory == <<apps, old, drains, drain, handle>>
procs == <<up, orphan, exited>>
calls == <<rb, del, resume>>
users == <<calls, events>>
marks == <<raced, quiet, left, restarted>>
aux == <<lost, marks>>
vars == <<table, memory, procs, host, pipe, starter, users, aux>>

(* A handle (the pid column, a runningApp) names nothing, the process that *)
(* listens, or one that has exited since.                                  *)
Handle == {"none", "live", "dead"}

Processes == Deployments \ Static
Exists(d) == status[d] # NoRow

(* An event that only the world decides on: a user, a death, a restart, a  *)
(* context that ends or a database that refuses.                           *)
Happens(event) == event \in Events /\ events < MaxEvents /\ events' = events + 1

(* A write that is to make the status column new, with `known' of the      *)
(* losses still of interest; it happens, or is lost and nobody knows.      *)
Write(new, d, to, known) ==
    \/ /\ status' = new /\ lost' = known
       /\ UNCHANGED events
    \/ /\ new # status /\ lost' = known \cup {<<d, to>>}
       /\ Happens("fault")
       /\ UNCHANGED status

(* TransitionState as one step.                                            *)
Moved(d, to) == IF Exists(d) /\ MayTransition(status[d], to)
                THEN [status EXCEPT ![d] = to] ELSE status
Transition(d, to) == Write(Moved(d, to), d, to, lost)

(* forceStatus, or a plain UPDATE of the status, as one step.              *)
Forced(d, to) == IF Exists(d) THEN [status EXCEPT ![d] = to] ELSE status
ForceStatus(d, to) == Write(Forced(d, to), d, to, lost)

KillKeepsOrphan(d, h) ==
    /\ up' = IF h = "live" THEN up \ {d} ELSE up
    /\ UNCHANGED <<orphan, exited>>

(* Killing what a handle names: only the live process notices.  Its        *)
(* startApp goroutine, if it belongs to this BigBase, sees Wait fail.      *)
Kill(d, h) ==
    /\ up' = IF h = "live" THEN up \ {d} ELSE up
    /\ orphan' = IF h = "live" THEN orphan \ {d} ELSE orphan
    /\ exited' = IF h = "live" /\ d \in up \ (Static \cup orphan)
                 THEN exited \cup {<<d, "killed", "exited">>} ELSE exited

(* From now on handles of an earlier process of d name a dead one.         *)
Stale(h) == IF h = "live" THEN "dead" ELSE h

NoRollback == [pc |-> "idle", cur |-> NoRoute, prev |-> NoRoute]
NoDelete == [pc |-> "idle", id |-> NoRoute]
None == [d \in Deployments |-> "none"]

Init ==
    /\ status = [d \in Deployments |-> NoRow]
    /\ order = <<>>
    /\ pid = None /\ apps = None /\ handle = None
    /\ up = {} /\ orphan = {} /\ exited = {}
    /\ host = NoRoute
    /\ old = [d \in Deployments |-> 0]
    /\ drains = [d \in Deployments |-> 0]
    /\ pipe = None /\ starter = None
    /\ drain = [d \in Deployments |-> "idle"]
    /\ rb = NoRollback /\ del = NoDelete /\ resume = {}
    /\ events = 0
    /\ lost = {} /\ raced = {} /\ quiet = {} /\ left = {} /\ restarted = {}

-----------------------------------------------------------------------------
(* Trigger and runDeployment.                                              *)

At(d, from, to) == pipe[d] = from /\ pipe' = [pipe EXCEPT ![d] = to]

(* collectPreviousDeployments: the running rows of the site join the list  *)
(* that whichever pipeline succeeds next will drain.  Its SELECT and its   *)
(* append are one step: what it read is just as stale once it is listed.   *)
Collect(d) ==
    /\ At(d, "none", "insert")
    /\ old' = [e \in Deployments |->
                  IF status[e] = "running" THEN old[e] + 1 ELSE old[e]]
    /\ UNCHANGED <<table, apps, drains, drain, handle, procs, host, starter,
                   users, aux>>

Insert(d) ==
    /\ At(d, "insert", "pending")
    /\ status' = [status EXCEPT ![d] = "pending"]
    /\ order' = Append(order, d)
    /\ UNCHANGED <<pid, memory, procs, host, starter, users, aux>>

Build(d) ==
    /\ At(d, "pending", "building")
    /\ Transition(d, "building")
    /\ UNCHANGED <<order, pid, memory, procs, host, starter, calls, marks>>

(* Clone, type detection or build fails, or the static output is missing.  *)
BuildFails(d) ==
    /\ At(d, "building", "done")
    /\ Transition(d, "failed")
    /\ UNCHANGED <<order, pid, memory, procs, host, starter, calls, marks>>

(* The build succeeds: a static site is declared running, a process is     *)
(* started and probed.                                                     *)
BuildStatic(d) ==
    /\ d \in Static
    /\ At(d, "building", "live")
    /\ Transition(d, "running")
    /\ UNCHANGED <<order, pid, memory, procs, host, starter, calls, marks>>

BuildProcess(d) ==
    /\ d \in Processes
    /\ At(d, "building", "probing")
    /\ Transition(d, "deploying")
    /\ starter' = [starter EXCEPT ![d] = "start"]
    /\ UNCHANGED <<order, pid, memory, procs, host, calls, marks>>

(* runHealthCheck: it can only succeed against a process that listens, and *)
(* can always fail.  The verdict is acted on in a later step.              *)
ProbeOK(d) ==
    /\ d \in up
    /\ At(d, "probing", "healthy")
    /\ UNCHANGED <<table, memory, procs, host, starter, users, aux>>

ProbeFails(d) ==
    /\ At(d, "probing", "done")
    /\ Transition(d, "failed")
    /\ UNCHANGED <<order, pid, memory, procs, host, starter, calls, marks>>

(* Under the pipeline's five minutes, which the build and the probe may    *)
(* have used up: it is routed, and the old one drained, all the same.      *)
GoRunning(d) ==
    /\ At(d, "healthy", "live")
    /\ Transition(d, "running")
    /\ UNCHANGED <<order, pid, memory, procs, host, starter, calls, marks>>

(* finalizeDeploymentURL: the shared host now routes here.                 *)
Route(d) ==
    /\ At(d, "live", "routed")
    /\ host' = d
    /\ UNCHANGED <<table, memory, procs, starter, users, aux>>

(* drainOldDeployments takes the whole list; a static site is served only  *)
(* after that.                                                             *)
DrainOld(d) ==
    /\ At(d, "routed", "done")
    /\ drains' = [e \in Deployments |-> drains[e] + old[e]]
    /\ old' = [e \in Deployments |-> 0]
    /\ starter' = IF d \in Static THEN [starter EXCEPT ![d] = "serve"] ELSE starter
    /\ UNCHANGED <<table, apps, drain, handle, procs, host, users, aux>>

-----------------------------------------------------------------------------
(* startApp, serveStatic and the resumed static server.                    *)

StartFrom(d, from, to) ==
    starter[d] = from /\ starter' = [starter EXCEPT ![d] = to]

(* No start command, package manager or environment, or cmd.Start fails.   *)
StartFails(d) ==
    /\ StartFrom(d, "start", "none")
    /\ Transition(d, "failed")
    /\ UNCHANGED <<order, pid, memory, procs, host, pipe, calls, marks>>

(* cmd.Start and the UPDATE of the pid.  If d's port is taken the child    *)
(* exits at once; Wait is called only after it is registered.              *)
StartProcess(d) ==
    /\ IF d \in up
       THEN /\ StartFrom(d, "start", "clashed")
            /\ pid' = [pid EXCEPT ![d] = "dead"]
            /\ UNCHANGED <<up, apps, handle>>
       ELSE /\ StartFrom(d, "start", "started")
            /\ pid' = [pid EXCEPT ![d] = "live"]
            /\ up' = up \cup {d}
            /\ apps' = [apps EXCEPT ![d] = Stale(@)]
            /\ handle' = [handle EXCEPT ![d] = Stale(@)]
    /\ UNCHANGED <<status, order, orphan, exited, old, drains, drain, host, pipe,
                   users, aux>>

RegisterApp(d) ==
    /\ \/ /\ StartFrom(d, "started", "none")
          /\ apps' = [apps EXCEPT ![d] = pid[d]]
          /\ UNCHANGED exited
       \/ /\ StartFrom(d, "clashed", "none")
          /\ apps' = [apps EXCEPT ![d] = "dead"]
          /\ exited' = exited \cup {<<d, "crash", "exited">>}
    /\ UNCHANGED <<table, old, drains, drain, handle, up, orphan, host, pipe, users,
                   aux>>

(* A process ends by itself; Wait returns an error unless it exits with 0. *)
Crash(d) ==
    /\ d \in up \cap Processes
    /\ Happens("exit")
    /\ up' = up \ {d}
    /\ orphan' = orphan \ {d}
    /\ \/ d \in orphan /\ UNCHANGED <<exited, quiet>>
       \/ /\ d \notin orphan
          /\ exited' = exited \cup {<<d, "crash", "exited">>}
          /\ UNCHANGED quiet
       \/ /\ d \notin orphan
          /\ quiet' = quiet \cup {d}
          /\ UNCHANGED exited
    /\ UNCHANGED <<table, memory, host, pipe, starter, calls, lost, raced, left,
                   restarted>>

CheckRegistryOnly(d, cause) ==
    /\ <<d, cause, "exited">> \in exited
    /\ starter[d] # "started"
    /\ LET rest == exited \ {<<d, cause, "exited">>} IN
       exited' = IF apps[d] = "none" THEN rest
                                     ELSE rest \cup {<<d, cause, "failing">>}
    /\ UNCHANGED <<table, memory, up, orphan, host, pipe, starter, users, aux>>

(* hasTerminalStopStatus, hasRegisteredApp: was this an intentional stop?  *)
(* cmd.Wait is reached only once the app is registered.                    *)
CheckExit(d, cause) ==
    /\ <<d, cause, "exited">> \in exited
    /\ starter[d] # "started"
    /\ LET rest == exited \ {<<d, cause, "exited">>} IN
       exited' = IF status[d] \in {"stopped", "replaced", "draining"}
                    \/ apps[d] = "none"
                 THEN rest ELSE rest \cup {<<d, cause, "failing">>}
    /\ UNCHANGED <<table, memory, up, orphan, host, pipe, starter, users, aux>>

RecordExit(d, cause) ==
    /\ <<d, cause, "failing">> \in exited
    /\ exited' = exited \ {<<d, cause, "failing">>}
    /\ Transition(d, "failed")
    /\ UNCHANGED <<order, pid, memory, up, orphan, host, pipe, starter, calls, marks>>

(* serveStatic registers its server and then listens.  On its port when    *)
(* that is taken, by d or by somebody else, or after a Shutdown in         *)
(* between, it never does.                                                 *)
RegisterServer(d) ==
    /\ StartFrom(d, "serve", "listen")
    /\ apps' = [apps EXCEPT ![d] = IF d \in up THEN "dead" ELSE "live"]
    /\ handle' = [handle EXCEPT ![d] = Stale(@)]
    /\ UNCHANGED <<table, old, drains, drain, procs, host, pipe, users, aux>>

ShutDown(d) ==
    apps[d] = "none" \/ (drain[d] \in {"waiting", "remove"} /\ handle[d] = "live")

Listen(d) ==
    /\ StartFrom(d, "listen", "none")
    /\ \/ /\ up' = IF apps[d] = "live" /\ ~ShutDown(d) THEN up \cup {d} ELSE up
          /\ UNCHANGED <<quiet, events>>
       \/ /\ Happens("exit")
          /\ quiet' = quiet \cup {d}
          /\ UNCHANGED up
    /\ UNCHANGED <<table, memory, orphan, exited, host, pipe, calls, lost, raced,
                   left, restarted>>

(* supervisor.Run of a resumed static site: unless it was told to stop, it *)
(* spawns the server and registers the host again; a Stop that came in     *)
(* between stops the server at once and leaves the host registered.        *)
SuperviseCheck(d) ==
    /\ StartFrom(d, "supervise", IF ShutDown(d) THEN "none" ELSE "spawn")
    /\ UNCHANGED <<table, memory, procs, host, pipe, users, aux>>

Supervise(d) ==
    /\ StartFrom(d, "spawn", "none")
    /\ host' = d
    /\ up' = IF ShutDown(d) THEN up ELSE up \cup {d}
    /\ UNCHANGED <<table, memory, orphan, exited, pipe, users, aux>>

-----------------------------------------------------------------------------
(* stopDeployment's shared half, and drainDeployment.                      *)

(* The registered app is forgotten, killed and its host unregistered,      *)
(* whoever the host routes to; without one, the pid column is used.        *)
StopApp(d) ==
    /\ apps' = [apps EXCEPT ![d] = "none"]
    /\ IF apps[d] # "none"
       THEN Kill(d, apps[d]) /\ host' = NoRoute
       ELSE Kill(d, pid[d]) /\ UNCHANGED host

(* A drain begins: it owns d.draining[id] and remembers the app.  One that *)
(* finds the flag set returns.                                             *)
DrainBegin(d) ==
    /\ drains[d] > 0
    /\ drains' = [drains EXCEPT ![d] = @ - 1]
    /\ IF drain[d] = "idle"
       THEN /\ drain' = [drain EXCEPT ![d] = "intent"]
            /\ handle' = [handle EXCEPT ![d] = apps[d]]
       ELSE UNCHANGED <<drain, handle>>
    /\ UNCHANGED <<table, apps, old, procs, host, pipe, starter, users, aux>>

DrainTo(d, from, to) == drain[d] = from /\ drain' = [drain EXCEPT ![d] = to]

DrainWithoutIntent(d) ==
    /\ DrainTo(d, "intent", IF handle[d] = "none" THEN "stop" ELSE "signal")
    /\ UNCHANGED <<table, apps, old, drains, handle, procs, host, pipe, starter,
                   users, aux>>

DrainIntent(d) ==
    /\ DrainTo(d, "intent", IF handle[d] = "none" THEN "stop" ELSE "signal")
    /\ Transition(d, "draining")
    /\ UNCHANGED <<order, pid, apps, old, drains, handle, procs, host, pipe,
                   starter, calls, marks>>

(* SIGTERM to the process, or Shutdown of the server.                      *)
DrainSignal(d) ==
    /\ DrainTo(d, "signal", "waiting")
    /\ UNCHANGED <<table, apps, old, drains, handle, procs, host, pipe, starter,
                   users, aux>>

(* The app has gone: by the signal, by the kill after DrainTimeout, or     *)
(* with exit code 0, which Wait does not report.                           *)
DrainExit(d) ==
    /\ DrainTo(d, "waiting", "remove")
    /\ \/ Kill(d, handle[d])
       \/ /\ handle[d] = "live" /\ d \in Processes
          /\ up' = up \ {d} /\ orphan' = orphan \ {d}
          /\ UNCHANGED exited
    /\ UNCHANGED <<table, apps, old, drains, handle, host, pipe, starter, users,
                   aux>>

DrainRemove(d) ==
    /\ DrainTo(d, "remove", "finish")
    /\ apps' = [apps EXCEPT ![d] = "none"]
    /\ UNCHANGED <<table, old, drains, handle, procs, host, pipe, starter, users,
                   aux>>

DrainForgetsStatus(d) ==
    /\ DrainTo(d, "finish", "idle")
    /\ handle' = [handle EXCEPT ![d] = "none"]
    /\ UNCHANGED <<table, apps, old, drains, procs, host, pipe, starter, users, aux>>

DrainFinish(d) ==
    /\ DrainTo(d, "finish", "idle")
    /\ handle' = [handle EXCEPT ![d] = "none"]
    /\ Transition(d, "stopped")
    /\ UNCHANGED <<order, pid, apps, old, drains, procs, host, pipe, starter, calls,
                   marks>>

(* No app was registered: stopDeployment(id, "stopped").                   *)
DrainStop(d) ==
    /\ DrainTo(d, "stop", "force")
    /\ StopApp(d)
    /\ UNCHANGED <<table, old, drains, handle, pipe, starter, users, aux>>

DrainForce(d) ==
    /\ DrainTo(d, "force", "idle")
    /\ ForceStatus(d, "stopped")
    /\ UNCHANGED <<order, pid, apps, old, drains, handle, procs, host, pipe,
                   starter, calls, marks>>

-----------------------------------------------------------------------------
(* Rollback.                                                               *)

Eligible(c) == {d \in Deployments \ {c} :
                   status[d] \notin {NoRow, "failed", "rolled_back"}
                   /\ ~IsInFlight(status[d])}

Newest(S, d) ==
    /\ d \in S
    /\ \E i \in DOMAIN order :
          order[i] = d /\ \A j \in DOMAIN order : order[j] \in S => j <= i

RollbackBegin(c) ==
    /\ rb.pc = "idle"
    /\ Happens("rollback")
    /\ status[c] = "running"
    /\ \E p \in Deployments :
          /\ Newest(Eligible(c), p)
          /\ rb' = [pc |-> "stop", cur |-> c, prev |-> p]
    /\ UNCHANGED <<table, memory, procs, host, pipe, starter, del, resume, aux>>

(* stopDeploymentWithTransition, which never looks at the pid column.      *)
RollbackStop ==
    /\ rb.pc = "stop"
    /\ rb' = [rb EXCEPT !.pc = "mark"]
    /\ IF apps[rb.cur] # "none" THEN StopApp(rb.cur)
       ELSE UNCHANGED <<apps, procs, host>>
    /\ UNCHANGED <<table, old, drains, drain, handle, pipe, starter, del, resume,
                   events, aux>>

(* The caller's request carries this transition: when the client is gone,  *)
(* the app is stopped and its row still says "running".                    *)
RollbackMark ==
    /\ rb.pc = "mark"
    /\ rb' = [rb EXCEPT !.pc = "restore"]
    /\ Transition(rb.cur, "rolled_back")
    /\ UNCHANGED <<order, pid, memory, procs, host, pipe, starter, del, resume,
                   marks>>

(* No exit of a process of d waits to be looked at or recorded.            *)
NoExit(d) ==
    \A cause \in {"killed", "crash"}, step \in {"exited", "failing"} :
        <<d, cause, step>> \notin exited

(* d has come to rest: no goroutine is starting, serving or stopping it,   *)
(* or, like resumeCandidates, is about to; and no exit of its process      *)
(* waits to be looked at.                                                  *)
AtRest(d) ==
    /\ status[d] = "stopped"
    /\ pipe[d] = "done" /\ starter[d] = "none" /\ apps[d] = "none"
    /\ drain[d] = "idle" /\ drains[d] = 0 /\ old[d] = 0
    /\ del.id # d /\ d \notin resume
    /\ NoExit(d)

(* A deployment restored at rest starts anew, whatever befell it before.   *)
RollbackRestore ==
    /\ rb.pc = "restore"
    /\ rb' = [rb EXCEPT !.pc = "serve"]
    /\ IF AtRest(rb.prev)
       THEN /\ Write(Moved(rb.prev, "running"), rb.prev, "running",
                     {w \in lost : w[1] # rb.prev})
            /\ raced' = raced \ {rb.prev}
            /\ quiet' = quiet \ {rb.prev}
            /\ left' = left \ {rb.prev}
       ELSE /\ Transition(rb.prev, "running")
            /\ raced' = raced \cup {rb.prev}
            /\ UNCHANGED <<quiet, left>>
    /\ UNCHANGED <<order, pid, memory, procs, host, pipe, starter, del, resume,
                   restarted>>

(* Route the host and start the old build.  A static site whose output is  *)
(* missing returns an error instead, with the statuses already changed.    *)
RollbackServe ==
    /\ rb.pc = "serve"
    /\ rb' = NoRollback
    /\ host' = rb.prev
    /\ \/ /\ starter' = [starter EXCEPT ![rb.prev] =
                           IF rb.prev \in Static THEN "serve" ELSE "start"]
          /\ UNCHANGED raced
       \/ /\ rb.prev \in Static
          /\ raced' = raced \cup {rb.prev}
          /\ UNCHANGED starter
    /\ UNCHANGED <<table, memory, procs, pipe, del, resume, events, lost, quiet,
                   left, restarted>>

-----------------------------------------------------------------------------
(* The delete handler.                                                     *)

DeleteBegin(d) ==
    /\ del.pc = "idle"
    /\ Happens("delete")
    /\ Exists(d) /\ CanDelete(status[d])
    /\ del' = [pc |-> "stop", id |-> d]
    /\ UNCHANGED <<table, memory, procs, host, pipe, starter, rb, resume, aux>>

DeleteStop ==
    /\ del.pc = "stop"
    /\ del' = [del EXCEPT !.pc = "force"]
    /\ StopApp(del.id)
    /\ UNCHANGED <<table, old, drains, drain, handle, pipe, starter, rb, resume,
                   events, aux>>

DeleteForce ==
    /\ del.pc = "force"
    /\ del' = [del EXCEPT !.pc = "row"]
    /\ ForceStatus(del.id, "stopped")
    /\ UNCHANGED <<order, pid, memory, procs, host, pipe, starter, rb, resume,
                   marks>>

(* The row goes, unless the request that asked for it has; its place in    *)
(* the order is never looked at again.                                     *)
DeleteRow ==
    /\ del.pc = "row"
    /\ del' = NoDelete
    /\ Write([status EXCEPT ![del.id] = NoRow], del.id, NoRow, lost)
    /\ pid' = IF status'[del.id] = NoRow THEN [pid EXCEPT ![del.id] = "none"] ELSE pid
    /\ UNCHANGED <<order, memory, procs, host, pipe, starter, rb, resume, marks>>

-----------------------------------------------------------------------------
(* BigBase stops or crashes, and boots.                                    *)

(* What keeps listening: on a clean Stop the processes d.apps does not     *)
(* name, on a crash all of them (each has its own process group); never    *)
(* the static servers.                                                     *)
Survivors(clean) ==
    {d \in up \cap Processes : ~clean \/ apps[d] # "live"}

(* reconcileOrphanedDeployments fails the in-flight rows old enough        *)
(* (stale); younger ones keep their status.                                *)
Reconciled(stale) ==
    [d \in Deployments |->
        IF d \in stale /\ IsInFlight(status[d]) THEN "failed" ELSE status[d]]

(* Every goroutine is gone, and with them what was lost or raced.          *)
(* restoreRunningDeploymentHosts lets the last running row it meets have   *)
(* the host, loadResumeCandidates takes the newest running row.            *)
Restart(clean, stale) ==
    /\ Happens("restart")
    /\ status' = Reconciled(stale)
    /\ apps' = None /\ handle' = None
    /\ old' = [d \in Deployments |-> 0]
    /\ drains' = [d \in Deployments |-> 0]
    /\ drain' = [d \in Deployments |-> "idle"]
    /\ up' = Survivors(clean) /\ orphan' = Survivors(clean) /\ exited' = {}
    /\ pipe' = [d \in Deployments |-> IF pipe[d] \in {"none", "insert"}
                                      THEN "none" ELSE "done"]
    /\ starter' = None
    /\ rb' = NoRollback /\ del' = NoDelete
    /\ LET running == {d \in Deployments : status'[d] = "running"} IN
       /\ host' \in IF running = {} THEN {NoRoute} ELSE running
       /\ resume' = {d \in running : Newest(running, d)}
    /\ restarted' = {d \in Deployments : Exists(d)}
    /\ left' = {d \in Deployments : IsActive(status'[d])} \ resume'
    /\ lost' = {} /\ raced' = {} /\ quiet' = {}
    /\ UNCHANGED <<order, pid>>

(* resumeCandidates: start the process, hand the static site to the        *)
(* supervisor, or mark it failed when its output is missing; a candidate   *)
(* whose build directory has gone is skipped.                              *)
Resume(d) ==
    /\ d \in resume
    /\ resume' = resume \ {d}
    /\ \/ /\ d \in Processes
          /\ starter' = [starter EXCEPT ![d] = "start"]
          /\ UNCHANGED <<status, events, lost, apps, left>>
       \/ /\ d \in Static
          /\ starter' = [starter EXCEPT ![d] = "supervise"]
          /\ apps' = [apps EXCEPT ![d] = "live"]
          /\ UNCHANGED <<status, events, lost, left>>
       \/ /\ d \in Static
          /\ ForceStatus(d, "failed")
          /\ UNCHANGED <<starter, apps, left>>
       \/ /\ left' = left \cup {d}
          /\ UNCHANGED <<status, events, lost, starter, apps>>
    /\ UNCHANGED <<order, pid, old, drains, drain, handle, procs, host, pipe, rb,
                   del, raced, quiet, restarted>>

-----------------------------------------------------------------------------

Pipeline(d) ==
    \/ Insert(d) \/ Build(d) \/ BuildFails(d) \/ BuildStatic(d) \/ BuildProcess(d)
    \/ ProbeOK(d) \/ ProbeFails(d) \/ GoRunning(d) \/ Route(d) \/ DrainOld(d)

Starter(d) ==
    \/ StartFails(d) \/ StartProcess(d) \/ RegisterApp(d)
    \/ RegisterServer(d) \/ Listen(d) \/ SuperviseCheck(d) \/ Supervise(d)

Exit(d) == \E cause \in {"killed", "crash"} :
              CheckExit(d, cause) \/ RecordExit(d, cause)

Drain(d) ==
    \/ DrainBegin(d) \/ DrainIntent(d) \/ DrainSignal(d) \/ DrainExit(d)
    \/ DrainRemove(d) \/ DrainFinish(d) \/ DrainStop(d) \/ DrainForce(d)

Rollback == RollbackStop \/ RollbackMark \/ RollbackRestore \/ RollbackServe
Delete == DeleteStop \/ DeleteForce \/ DeleteRow

Next ==
    \/ \E d \in Deployments :
          \/ Collect(d) \/ Pipeline(d) \/ Starter(d) \/ Exit(d) \/ Drain(d)
          \/ Crash(d) \/ RollbackBegin(d) \/ DeleteBegin(d) \/ Resume(d)
    \/ Rollback \/ Delete
    \/ \E clean \in BOOLEAN, stale \in SUBSET Deployments : Restart(clean, stale)

Spec == Init /\ [][Next]_vars

(* Goroutines that can run do; clones, builds and probes have timeouts.    *)
(* Nobody has to trigger, roll back, delete or restart anything.           *)
Fairness ==
    /\ \A d \in Deployments : /\ WF_vars(Pipeline(d)) /\ WF_vars(Starter(d))
                              /\ WF_vars(Exit(d)) /\ WF_vars(Drain(d))
                              /\ WF_vars(Resume(d))
    /\ WF_vars(Rollback) /\ WF_vars(Delete)

FairSpec == Spec /\ Fairness

-----------------------------------------------------------------------------
(* Properties.                                                             *)

(* Every variable keeps its type; in particular an orphan of an earlier    *)
(* BigBase is a process that still listens.                                *)
TypeOK ==
    /\ status \in [Deployments -> RowStatus \cup {NoRow}]
    /\ order \in Seq(Deployments)
    /\ pid \in [Deployments -> Handle]
    /\ apps \in [Deployments -> Handle] /\ handle \in [Deployments -> Handle]
    /\ up \subseteq Deployments /\ orphan \subseteq up
    /\ exited \subseteq Deployments \X {"killed", "crash"} \X {"exited", "failing"}
    /\ host \in Deployments \cup {NoRoute}
    /\ old \in [Deployments -> Nat] /\ drains \in [Deployments -> Nat]
    /\ pipe \in [Deployments -> {"none", "insert", "pending", "building", "probing",
                                 "healthy", "live", "routed", "done"}]
    /\ starter \in [Deployments -> {"none", "start", "started", "clashed", "serve",
                                    "listen", "supervise", "spawn"}]
    /\ drain \in [Deployments -> {"idle", "intent", "signal", "waiting", "remove",
                                  "finish", "stop", "force"}]
    /\ resume \subseteq Deployments
    /\ lost \subseteq Deployments \X (RowStatus \cup {NoRow})
    /\ raced \subseteq Deployments /\ quiet \subseteq Deployments
    /\ left \subseteq Deployments /\ restarted \subseteq Deployments

Rising(d) ==
    \/ starter[d] # "none"
    \/ d \in Static /\ pipe[d] \in {"live", "routed"}
    \/ rb.prev = d /\ rb.pc = "serve"
    \/ d \in resume

Falling(d) == drain[d] # "idle" \/ del.id = d \/ rb.cur = d

(* It is registered, and a process or server of this BigBase listens, or   *)
(* its exit is about to be looked at.                                      *)
Backed(d) == apps[d] # "none" /\ (d \in up \ orphan \/ ~NoExit(d))

(* The write by which whoever stopped d took its row out of "running", or  *)
(* the one that recorded a failure, did not happen.                        *)
StopLost(d) == \E to \in {"draining", "stopped", "rolled_back", NoRow} :
                  <<d, to>> \in lost
FailureLost(d) == <<d, "failed">> \in lost

(* No row says "running" with nothing behind it: its own process or server *)
(* listens, or somebody is on the way to start it, to stop it or to record *)
(* its exit.  The exceptions are the code's: the write that was to take    *)
(* the row out of "running" failed, the process exited with 0 or the       *)
(* static server could not listen, the boot resumed another row or found   *)
(* no build, a rollback to a deployment that was not at rest yet or whose  *)
(* static output is gone.                                                  *)
NoZombieRunning ==
    \A d \in Deployments :
        status[d] = "running" =>
            \/ Backed(d) \/ Rising(d) \/ Falling(d)
            \/ StopLost(d) \/ FailureLost(d)
            \/ d \in quiet \cup left \cup raced

(* "the stop path owns the final status; do not race it with failed"       *)
(* (engine.go:785-786): the exit of a process that was killed on purpose   *)
(* is never recorded as a failure, unless its row is being deleted anyway, *)
(* a rollback restored the deployment before it was at rest, or the status *)
(* of the stop could not be written.                                       *)
StopOwnsStatus ==
    [][\A d \in Deployments :
          /\ <<d, "killed", "failing">> \in exited
          /\ <<d, "killed", "failing">> \notin exited'
          /\ status'[d] # status[d]
          => d \in raced \/ del.id = d \/ StopLost(d)]_vars

(* A deployment never stays in flight: its pipeline or its drain takes it  *)
(* to running, stopped or failed, unless one of its status writes fails    *)
(* (engine.go:391 and :403 among them), or a restart finds it in flight    *)
(* and young (it then keeps its status, reconcile.go:10-12).               *)
InFlightSettles ==
    \A d \in Deployments :
        IsInFlight(status[d]) ~>
            ~IsInFlight(status[d]) \/ d \in left \/ \E w \in lost : w[1] = d

(* A deployment that a newer one replaces does stop: once its drain is     *)
(* ordered it leaves "running", unless that write fails or a restart       *)
(* forgets the drain.                                                      *)
ReplacedLeaves ==
    \A d \in Deployments :
        drains[d] > 0 ~>
            status[d] # "running" \/ d \in restarted \/ d \in raced \/ StopLost(d)

(* "Old deployments are NOT stopped here - they continue serving existing  *)
(* connections until the new deployment passes health check"               *)
(* (engine.go:40-42): a site that is served stays served.                  *)
KeepsServing == [][(host \in up)' \/ host \notin up]_vars

(* "the host may be shared with another running deployment for the same    *)
(* site" (engine.go:793-795): taking one deployment away leaves the route  *)
(* of another alone.                                                       *)
RouteOfOthersKept ==
    [][\A d \in Deployments :
          del = [pc |-> "stop", id |-> d] /\ del' # del /\ host # d
              => host' = host]_vars
=============================================================================
