------------------------- MODULE InstanceSupervisor -------------------------
(***************************************************************************)
(* The supervision of ONE deployment (components/deploy/supervisor.go,     *)
(* deploy_runner.go, runner.go): Supervisor.Run spawns an instance, puts   *)
(* its host on the proxy, waits for it to exit and restarts it with a      *)
(* backoff, until too many crashes fall into a window or somebody calls    *)
(* Stop.  Stop comes from stopDeployment (engine.go) or from a drain       *)
(* (orchestrator.go), health polling stops an instance that does not       *)
(* answer, and a newer deployment of the site may take the host over.      *)
(* Time passes in ticks.                                                   *)
(***************************************************************************)
EXTENDS Naturals, Sequences, FiniteSets, DeployStateMachine

CONSTANTS
    Burst,          \* crashLoopBurst
    Window,         \* crashLoopWindow
    BackoffCap,     \* backoffCap
    HealthFailures, \* healthFailureThreshold
    MaxSpawns,      \* bound: instances spawned
    MaxClock        \* bound: ticks

ASSUME SupervisorLimits == {Burst, HealthFailures} \subseteq Nat \ {0}
ASSUME SupervisorBounds == {Window, BackoffCap, MaxSpawns, MaxClock} \subseteq Nat

VARIABLES
    spec,           \* the Spec: kind of app and whether health is polled
    run,            \* where Supervisor.Run is
    attempt,        \* Run: its loop counter
    history,        \* Run: the times of the crashes it counted
    wake,           \* Run: when its backoff ends
    inst,           \* the instance of the current attempt
    slot,           \* s.instances holds it
    halted,         \* s.stopping
    stopper,        \* where the caller of Stop is
    captured,       \* Stop: the spawn whose instance it found in s.instances
    health,         \* healthLoop: consecutive failures, or that it does not run
    route,          \* whose port the host of the deployment routes to
    status,         \* the status of the deployment row
    clock,          \* the time
    spawnedAt       \* auxiliary: when each instance was spawned

runVars == <<run, attempt, history, wake>>
stopVars == <<halted, stopper, captured>>
supVars == <<spec, runVars, inst, slot, stopVars, health, route, status, clock, spawnedAt>>

NoHealth == HealthFailures
Gen == Len(spawnedAt)

SupInit ==
    /\ spec \in [static : BOOLEAN, polled : BOOLEAN]
    /\ run = "check" /\ attempt = 0 /\ history = <<>> /\ wake = 0
    /\ inst = "none" /\ slot = FALSE
    /\ halted = FALSE /\ stopper = "idle" /\ captured = 0
    /\ health = NoHealth
    /\ route = "self"
    /\ status = "running"
    /\ clock = 0
    /\ spawnedAt = <<>>

\* TransitionState, as far as one row goes.
Transition(to) == status' = IF MayTransition(status, to) THEN to ELSE status

----------------------------------------------------------------------------
(***************************************************************************)
(* Supervisor.Run.                                                         *)
(***************************************************************************)

\* The loop begins: a deployment told to stop is not spawned again.
RunCheck ==
    /\ run = "check"
    /\ run' = IF halted THEN "done" ELSE "spawn"
    /\ UNCHANGED <<spec, attempt, history, wake, inst, slot, stopVars, health, route, status, clock, spawnedAt>>

\* isCrashLooping over a history and the present.
IsCrashLooping(h) == Cardinality({i \in DOMAIN h : h[i] + Window >= clock}) >= Burst

\* nextBackoff: the ceiling of the delay; full jitter picks anything below.
BackoffCeiling == IF 2 ^ attempt > BackoffCap THEN BackoffCap ELSE 2 ^ attempt

\* A crash, or a spawn that failed: the loop is given up or sleeps.
CountCrash ==
    /\ history' = Append(history, clock)
    /\ \/ /\ IsCrashLooping(history')
          /\ run' = "trip"
          /\ UNCHANGED wake
       \/ /\ ~IsCrashLooping(history')
          /\ run' = "sleep"
          /\ \E delay \in 0..BackoffCeiling : wake' = clock + delay

\* Runner.Spawn: a process runs from here on, a static server only listens once
\* Wait is called.
Spawn ==
    /\ run = "spawn" /\ Gen < MaxSpawns
    /\ \/ /\ inst' = IF spec.static THEN "spawned" ELSE "live"
          /\ spawnedAt' = Append(spawnedAt, clock)
          /\ run' = "register"
          /\ UNCHANGED <<history, wake>>
       \/ /\ ~spec.static
          /\ CountCrash
          /\ UNCHANGED <<inst, spawnedAt>>
    /\ UNCHANGED <<spec, attempt, slot, stopVars, health, route, status, clock>>

RegisterHost ==
    /\ run = "register"
    /\ route' = "self"
    /\ run' = "enter"
    /\ UNCHANGED <<spec, attempt, history, wake, inst, slot, stopVars, health, status, clock, spawnedAt>>

SetInstance ==
    /\ run = "enter"
    /\ slot' = TRUE
    /\ run' = "recheck"
    /\ UNCHANGED <<spec, attempt, history, wake, inst, stopVars, health, route, status, clock, spawnedAt>>

\* A Run that does not look at the mark again.
RecheckNever ==
    /\ run = "recheck"
    /\ run' = "wait"
    /\ health' = IF spec.polled THEN 0 ELSE NoHealth
    /\ UNCHANGED <<spec, attempt, history, wake, inst, slot, stopVars, route, status, clock, spawnedAt>>

\* A Stop that came before the instance was entered could not reach it.
Recheck ==
    /\ run = "recheck"
    /\ \/ /\ halted
          /\ inst' = "dead"
          /\ slot' = FALSE
          /\ run' = "done"
          /\ UNCHANGED health
       \/ /\ ~halted
          /\ run' = "wait"
          /\ health' = IF spec.polled THEN 0 ELSE NoHealth
          /\ UNCHANGED <<inst, slot>>
    /\ UNCHANGED <<spec, attempt, history, wake, stopVars, route, status, clock, spawnedAt>>

\* staticInstance.Wait: ListenAndServe binds the port, or finds it taken.
Listen ==
    /\ run = "wait" /\ inst = "spawned"
    /\ inst' \in {"live", "dead"}
    /\ UNCHANGED <<spec, runVars, slot, stopVars, health, route, status, clock, spawnedAt>>

\* The instance exits by itself.
Exit ==
    /\ inst = "live"
    /\ inst' = "dead"
    /\ UNCHANGED <<spec, runVars, slot, stopVars, health, route, status, clock, spawnedAt>>

\* Wait returns; the health loop is cancelled and waited for.
WaitReturns ==
    /\ run = "wait" /\ inst = "dead"
    /\ health' = NoHealth
    /\ slot' = FALSE
    /\ run' = "exited"
    /\ UNCHANGED <<spec, attempt, history, wake, inst, stopVars, route, status, clock, spawnedAt>>

ExitCheck ==
    /\ run = "exited"
    /\ run' = IF halted THEN "done" ELSE "crashed"
    /\ UNCHANGED <<spec, attempt, history, wake, inst, slot, stopVars, health, route, status, clock, spawnedAt>>

Verdict ==
    /\ run = "crashed"
    /\ CountCrash
    /\ UNCHANGED <<spec, attempt, inst, slot, stopVars, health, route, status, clock, spawnedAt>>

Wake ==
    /\ run = "sleep" /\ clock >= wake
    /\ attempt' = attempt + 1
    /\ run' = "check"
    /\ UNCHANGED <<spec, history, wake, inst, slot, stopVars, health, route, status, clock, spawnedAt>>

\* tripCrashLoop: the host is taken off the proxy, whoever it routes to ...
TripCrashLoop ==
    /\ run = "trip"
    /\ route' = "none"
    /\ run' = "onFailed"
    /\ UNCHANGED <<spec, attempt, history, wake, inst, slot, stopVars, health, status, clock, spawnedAt>>

\* ... and onFailed asks the status machine for "failed".
OnFailed ==
    /\ run = "onFailed"
    /\ Transition("failed")
    /\ run' = "done"
    /\ UNCHANGED <<spec, attempt, history, wake, inst, slot, stopVars, health, route, clock, spawnedAt>>

----------------------------------------------------------------------------
(***************************************************************************)
(* Stop and its callers, the health loop, and the rest of the world.       *)
(***************************************************************************)

\* drainDeployment first moves the row to draining; stopDeployment begins with
\* Supervisor.Stop.
DrainBegins ==
    /\ stopper = "idle"
    /\ Transition("draining")
    /\ stopper' = "draining"
    /\ UNCHANGED <<spec, runVars, inst, slot, halted, captured, health, route, clock, spawnedAt>>

\* Supervisor.Stop under its lock: the mark, and the instance there is.
StopMark ==
    /\ stopper \in {"idle", "draining"}
    /\ halted' = TRUE
    /\ captured' = IF slot THEN Gen ELSE 0
    /\ stopper' = IF stopper = "idle" THEN "forceKill" ELSE "drainKill"
    /\ UNCHANGED <<spec, runVars, inst, slot, health, route, status, clock, spawnedAt>>

\* Supervisor.Stop after it: the captured instance is stopped.  A server that has
\* not begun to listen will not.
StopKill ==
    /\ stopper \in {"forceKill", "drainKill"}
    /\ inst' = IF captured = Gen /\ captured # 0 THEN "dead" ELSE inst
    /\ stopper' = IF stopper = "forceKill" THEN "unroute" ELSE "drained"
    /\ UNCHANGED <<spec, runVars, slot, halted, captured, health, route, status, clock, spawnedAt>>

\* stopDeployment: the host is taken off the proxy, whoever it routes to.
StopUnroute ==
    /\ stopper = "unroute"
    /\ route' = "none"
    /\ stopper' = "force"
    /\ UNCHANGED <<spec, runVars, inst, slot, halted, captured, health, status, clock, spawnedAt>>

\* stopDeployment forces the status, a drain asks for it.
StopEnds ==
    /\ stopper \in {"force", "drained"}
    /\ IF stopper = "force" THEN status' = "stopped" ELSE Transition("stopped")
    /\ stopper' = IF stopper = "force" THEN "forced" ELSE "gone"
    /\ UNCHANGED <<spec, runVars, inst, slot, halted, captured, health, route, clock, spawnedAt>>

\* healthLoop: a poll succeeds, or one more fails; at the threshold the instance
\* is stopped and the loop ends.
HealthPoll ==
    /\ health < HealthFailures /\ run = "wait"
    /\ \/ /\ inst = "live"
          /\ health' = 0
          /\ UNCHANGED inst
       \/ /\ health' = health + 1
          /\ inst' = IF health + 1 = HealthFailures THEN "dead" ELSE inst
    /\ UNCHANGED <<spec, runVars, slot, stopVars, route, status, clock, spawnedAt>>

\* finalizeDeploymentURL of a newer deployment of the site, which shares the host.
TakeOver ==
    /\ route # "other"
    /\ route' = "other"
    /\ UNCHANGED <<spec, runVars, inst, slot, stopVars, health, status, clock, spawnedAt>>

Tick ==
    /\ clock < MaxClock
    /\ clock' = clock + 1
    /\ UNCHANGED <<spec, runVars, inst, slot, stopVars, health, route, status, spawnedAt>>

SupNext ==
    \/ RunCheck \/ Spawn \/ RegisterHost \/ SetInstance \/ Recheck \/ Listen \/ Exit
    \/ WaitReturns \/ ExitCheck \/ Verdict \/ Wake \/ TripCrashLoop \/ OnFailed
    \/ DrainBegins \/ StopMark \/ StopKill \/ StopUnroute \/ StopEnds
    \/ HealthPoll \/ TakeOver \/ Tick

SupSpec == SupInit /\ [][SupNext]_supVars

----------------------------------------------------------------------------

RunSteps == {"check", "spawn", "register", "enter", "recheck", "wait", "exited", "crashed",
             "sleep", "trip", "onFailed", "done"}
StopSteps == {"idle", "draining", "forceKill", "drainKill", "unroute", "force", "drained",
              "forced", "gone"}

\* The types of the variables.
SupTypeOK ==
    /\ spec \in [static : BOOLEAN, polled : BOOLEAN]
    /\ run \in RunSteps /\ attempt \in Nat /\ history \in Seq(Nat) /\ wake \in Nat
    /\ inst \in {"none", "spawned", "live", "dead"}
    /\ slot \in BOOLEAN /\ halted \in BOOLEAN
    /\ stopper \in StopSteps /\ captured \in Nat
    /\ health \in 0..HealthFailures
    /\ route \in {"none", "self", "other"}
    /\ status \in {"running", "draining", "stopped", "failed"}
    /\ clock \in Nat
    /\ spawnedAt \in Seq(Nat)

Running == inst \in {"spawned", "live"}

\* No instance outlives its supervision, and none that Stop should have ended is
\* waited for: either Stop still holds that very instance, or the check after
\* setInstance (supervisor.go:91) will find the mark.
StopReachesInstance ==
    /\ run \in {"check", "spawn", "exited", "crashed", "sleep", "trip", "onFailed", "done"} => ~Running
    /\ halted /\ run = "wait" /\ Running =>
           stopper \in {"forceKill", "drainKill"} /\ captured = Gen

\* No more than crashLoopBurst instances are spawned within any crashLoopWindow,
\* whatever the jitter of the backoff (supervisor.go:214, 227).
RestartsBounded ==
    \A t \in 0..clock :
        Cardinality({i \in DOMAIN spawnedAt : spawnedAt[i] \in t..(t + Window)}) <= Burst

\* A completed stopDeployment has the last word on the status: a crash-loop
\* verdict that was reached at the same time (supervisor.go:116) cannot turn
\* "stopped" into "failed" afterwards.
StoppedStays == stopper = "forced" => status = "stopped"

\* What the engine relies on: Stop reaches the instance and keeps the last word, and a
\* crashing app is not restarted without end (Run, Stop, setInstance, isCrashLooping).
SupervisorCorrect == StopReachesInstance /\ RestartsBounded /\ StoppedStays

============================================================================
