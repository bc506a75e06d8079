------------------------------ MODULE CiciRuns ------------------------------
(***************************************************************************)
(* The pipeline runs of CICI (components/cici/runs.go, state.go, Start in  *)
(* cici.go): the trigger handler inserts and starts a run, a goroutine     *)
(* executes its steps under the persisted deadline and records the end,    *)
(* and a boot fails what an earlier process left behind.                   *)
(*                                                                         *)
(* A workflow is the number of its steps that have a command; jobs run one *)
(* after the other, and the first failing step ends the run.  Any database *)
(* statement may fail, and most failures are only logged.                  *)
(***************************************************************************)
EXTENDS Naturals, Sequences

CONSTANTS
    Runs,           \* run ids
    Steps,          \* commands in a workflow
    MaxFaults,      \* bound: database statements that fail
    MaxRestarts     \* bound: restarts of BigBase

ASSUME StepsAssumption == Steps \in Nat
ASSUME CiciBounds == MaxFaults \in Nat /\ MaxRestarts \in Nat

VARIABLES
    status,     \* cici_runs: status column, NoRun without a row
    logs,       \* cici_logs of each run
    boot,       \* where Start is, "up" once BigBase serves, "down" without it
    pc,         \* the trigger handler and then the goroutine of each run
    step,       \* executeRun: steps completed
    result,     \* executeRun: the outcome of the current command, then of all
    expired,    \* runs whose deadline_at has passed
    held,       \* runs whose command left a descendant that keeps its output
    lost,       \* auxiliary: runs whose insert or final write failed
    bad,        \* auxiliary: runs with a workflow or a command that failed
    faults,     \* bound: failed statements so far
    restarts    \* bound: restarts so far

worker == <<pc, step, result>>
aux == <<lost, bad>>
bounds == <<faults, restarts>>
vars == <<status, logs, boot, worker, expired, held, aux, bounds>>

RunStatus == {"queued", "running", "success", "failure", "cancelled"}
legacyPendingStatus == "pending"
NoRun == "none"
IsTerminal(s) == s \in {"success", "failure", "cancelled"}

(* The statuses finishRun and reconcileOrphanedRuns may overwrite.         *)
Unfinished == {"queued", "running", legacyPendingStatus}

Executing == {"context", "exec", "log", "logFail", "finish"}
Busy == Executing \cup {"start", "abort"}

(* A log record: the step it is about, and its output or "FAIL: ...".      *)
Log == (1..Steps) \X {"output", "FAIL"}

(* The first boot of this release over the rows of an older one.           *)
Init ==
    /\ status \in [Runs -> {NoRun, legacyPendingStatus, "queued"}]
    /\ logs = [r \in Runs |-> <<>>]
    /\ boot = "down"
    /\ pc = [r \in Runs |-> IF status[r] = NoRun THEN "none" ELSE "done"]
    /\ step = [r \in Runs |-> 0]
    /\ result = [r \in Runs |-> "success"]
    /\ expired = {} /\ held = {} /\ lost = {} /\ bad = {}
    /\ faults = 0 /\ restarts = 0

Fault == faults < MaxFaults /\ faults' = faults + 1 /\ UNCHANGED restarts

At(r, from, to) == pc[r] = from /\ pc' = [pc EXCEPT ![r] = to]

-----------------------------------------------------------------------------
(* triggerRun.                                                             *)

(* INSERT of the queued row with its deadline.  One that fails leaves no   *)
(* trace; one that reports an error although the row is there, as when the *)
(* request is cancelled under it, leaves a queued run nobody works on.     *)
Trigger(r) ==
    /\ boot = "up"
    /\ status' = [status EXCEPT ![r] = "queued"]
    /\ \/ /\ At(r, "none", "start")
          /\ UNCHANGED <<lost, bounds>>
       \/ /\ At(r, "none", "done")
          /\ Fault
          /\ lost' = lost \cup {r}
    /\ UNCHANGED <<logs, boot, step, result, expired, held, bad>>

(* transitionRun(queued, running), a compare-and-swap under the request's  *)
(* context.  An error, which may come after the row has changed, leads to  *)
(* finishRun(failure) instead of the goroutine.                            *)
Started(r) == [status EXCEPT ![r] = IF @ = "queued" THEN "running" ELSE @]

StartRun(r) ==
    /\ \/ /\ status[r] = "queued"
          /\ At(r, "start", "context")
          /\ status' = Started(r)
          /\ UNCHANGED bounds
       \/ /\ At(r, "start", "abort")
          /\ status' \in {status, Started(r)}
          /\ Fault
    /\ UNCHANGED <<logs, boot, step, result, expired, held, aux>>

(* The guarded UPDATE of finishRun.                                        *)
Finished(r, s) == [status EXCEPT ![r] = IF @ \in Unfinished THEN s ELSE @]

(* finishRun of a run that did not start.  Its own failure is only logged. *)
Abort(r) ==
    /\ At(r, "abort", "done")
    /\ \/ /\ status' = Finished(r, "failure")
          /\ UNCHANGED <<lost, bounds>>
       \/ /\ Fault
          /\ lost' = lost \cup {r}
          /\ UNCHANGED status
    /\ UNCHANGED <<logs, boot, step, result, expired, held, bad>>

-----------------------------------------------------------------------------
(* executeRun.                                                             *)

(* What the workflow or the current command came to.                       *)
Outcome(r, res) ==
    /\ result' = [result EXCEPT ![r] = res]
    /\ bad' = IF res = "failure" THEN bad \cup {r} ELSE bad

(* runContext, and the workflow is parsed; one that does not parse fails.  *)
Parse(r) ==
    /\ \/ /\ At(r, "context", "exec")
          /\ UNCHANGED <<result, bad>>
       \/ /\ At(r, "context", "finish")
          /\ Outcome(r, "failure")
    /\ UNCHANGED <<status, logs, boot, step, expired, held, lost, bounds>>

(* The deadline of the run's context.                                      *)
Expire(r) ==
    /\ pc[r] \in Executing
    /\ r \notin expired
    /\ expired' = expired \cup {r}
    /\ UNCHANGED <<status, logs, boot, worker, held, aux, bounds>>

(* A command ends by itself, well or badly, ...                            *)
CommandEnds(r) ==
    /\ step[r] < Steps
    /\ At(r, "exec", "log")
    /\ r \notin expired \cup held
    /\ \E res \in {"success", "failure"} : Outcome(r, res)
    /\ UNCHANGED <<status, logs, boot, step, expired, held, lost, bounds>>

(* ... leaves a descendant behind that still has the pipe of its output,   *)
(* so that cmd.Run goes on waiting, whatever becomes of the shell, ...     *)
CommandLingers(r) ==
    /\ step[r] < Steps
    /\ pc[r] = "exec"
    /\ r \notin expired \cup held
    /\ held' = held \cup {r}
    /\ UNCHANGED <<status, logs, boot, worker, expired, aux, bounds>>

(* ... until that one ends too.  The result is the shell's: a shell that   *)
(* ended well before the deadline succeeds, however late that is known.    *)
DescendantEnds(r) ==
    /\ step[r] < Steps
    /\ At(r, "exec", "log")
    /\ r \in held
    /\ held' = held \ {r}
    /\ \E res \in {"success", "failure"} : Outcome(r, res)
    /\ UNCHANGED <<status, logs, boot, step, expired, lost, bounds>>

WaitGoesOn(r) ==
    /\ step[r] < Steps
    /\ pc[r] = "exec"
    /\ r \in expired \ held
    /\ bad' = bad \cup {r}
    /\ UNCHANGED <<status, logs, boot, worker, expired, held, lost, bounds>>

(* Or the command is not started, or is killed, once the deadline has      *)
(* passed.  The kill reaches the shell only.                               *)
CommandKilled(r) ==
    /\ step[r] < Steps
    /\ At(r, "exec", "log")
    /\ r \in expired \ held
    /\ Outcome(r, "failure")
    /\ UNCHANGED <<status, logs, boot, step, expired, held, lost, bounds>>

(* validateCommand rejects a command: executeStep logs no output.          *)
CommandRejected(r) ==
    /\ step[r] < Steps
    /\ At(r, "exec", "logFail")
    /\ r \notin held
    /\ Outcome(r, "failure")
    /\ UNCHANGED <<status, logs, boot, step, expired, held, lost, bounds>>

(* appendLog, under the run's own context: past the deadline, or when the  *)
(* database fails, the record is dropped and only the server's log knows.  *)
AppendLog(r, kind) ==
    \/ /\ r \notin expired
       /\ logs' = [logs EXCEPT ![r] = Append(@, <<step[r] + 1, kind>>)]
       /\ UNCHANGED bounds
    \/ /\ r \in expired
       /\ UNCHANGED <<logs, bounds>>
    \/ /\ Fault
       /\ UNCHANGED logs

LogIgnoresResult(r) ==
    /\ AppendLog(r, "output")
    /\ At(r, "log", "exec") /\ step' = [step EXCEPT ![r] = @ + 1]
    /\ result' = [result EXCEPT ![r] = "success"]
    /\ UNCHANGED <<status, boot, expired, held, aux>>

FinishBeforeFail(r) ==
    /\ AppendLog(r, "output")
    /\ IF result[r] = "success"
       THEN /\ At(r, "log", "exec") /\ step' = [step EXCEPT ![r] = @ + 1]
            /\ UNCHANGED status
       ELSE /\ At(r, "log", "logFail") /\ status' = Finished(r, "failure")
            /\ UNCHANGED step
    /\ UNCHANGED <<boot, result, expired, held, aux>>

(* The step is over; the first one that failed ends the run.               *)
LogOutput(r) ==
    /\ AppendLog(r, "output")
    /\ IF result[r] = "success"
       THEN At(r, "log", "exec") /\ step' = [step EXCEPT ![r] = @ + 1]
       ELSE At(r, "log", "logFail") /\ UNCHANGED step
    /\ UNCHANGED <<status, boot, result, expired, held, aux>>

LogFail(r) ==
    /\ AppendLog(r, "FAIL")
    /\ At(r, "logFail", "finish")
    /\ UNCHANGED <<status, boot, step, result, expired, held, aux>>

AllDone(r) ==
    /\ step[r] = Steps
    /\ At(r, "exec", "finish")
    /\ UNCHANGED <<status, logs, boot, step, result, expired, held, aux, bounds>>

(* finishRun under a context detached from the deadline.  Its error is     *)
(* logged and dropped.                                                     *)
Finish(r) ==
    /\ At(r, "finish", "done")
    /\ \/ /\ status' = Finished(r, result[r])
          /\ UNCHANGED <<lost, bounds>>
       \/ /\ Fault
          /\ lost' = lost \cup {r}
          /\ UNCHANGED status
    /\ UNCHANGED <<logs, boot, step, result, expired, held, bad>>

-----------------------------------------------------------------------------
(* BigBase ends, and starts.                                               *)

(* The goroutines end with the process; Stop does nothing about them.      *)
Down ==
    /\ boot = "up"
    /\ restarts < MaxRestarts
    /\ restarts' = restarts + 1
    /\ boot' = "down"
    /\ pc' = [r \in Runs |-> IF status[r] = NoRun THEN "none" ELSE "done"]
    /\ UNCHANGED <<status, logs, step, result, expired, held, aux, faults>>

(* Start: migrateRunColumns turns legacy rows into queued ones, ...        *)
Normalize ==
    /\ boot = "down"
    /\ boot' = "reconcile"
    /\ status' = [r \in Runs |-> IF status[r] = legacyPendingStatus
                                 THEN "queued" ELSE status[r]]
    /\ UNCHANGED <<logs, worker, expired, held, aux, bounds>>

ReconcileEverything == [r \in Runs |-> IF status[r] = NoRun THEN NoRun ELSE "failure"]

ReconcileRunning ==
    [r \in Runs |-> IF status[r] = "running" THEN "failure" ELSE status[r]]

(* ... reconcileOrphanedRuns ends every run that is not finished, ...      *)
Reconciled ==
    [r \in Runs |-> IF status[r] \in Unfinished THEN "failure" ELSE status[r]]

Reconcile ==
    /\ boot = "reconcile"
    /\ boot' = "up"
    /\ status' = Reconciled
    /\ lost' = {}
    /\ UNCHANGED <<logs, worker, expired, held, bad, bounds>>

(* ... and an error of either fails the boot.                              *)
BootFails ==
    /\ boot \in {"down", "reconcile"}
    /\ boot' = "down"
    /\ Fault
    /\ UNCHANGED <<status, logs, worker, expired, held, aux>>

-----------------------------------------------------------------------------

Work(r) ==
    \/ StartRun(r) \/ Abort(r) \/ Parse(r) \/ CommandKilled(r)
    \/ LogOutput(r) \/ LogFail(r) \/ AllDone(r) \/ Finish(r)

Command(r) ==
    CommandEnds(r) \/ CommandLingers(r) \/ DescendantEnds(r) \/ CommandRejected(r)

Start == Normalize \/ Reconcile

Next ==
    \/ \E r \in Runs : Trigger(r) \/ Work(r) \/ Command(r) \/ Expire(r)
    \/ Down \/ Start \/ BootFails

Spec == Init /\ [][Next]_vars

(* The goroutine of a run goes on, time passes, and a boot that has begun  *)
(* goes on; that a command, or what it left behind, ends by itself is not  *)
(* promised, nor that anybody triggers a run.                              *)
Fairness == /\ \A r \in Runs : WF_vars(Work(r)) /\ WF_vars(Expire(r))
            /\ WF_vars(Start)

FairSpec == Spec /\ Fairness

-----------------------------------------------------------------------------
(* Properties.                                                             *)

(* Every variable keeps its type; in particular executeRun runs, and logs, *)
(* no step beyond the last (runs.go:121).                                  *)
TypeOK ==
    /\ status \in [Runs -> RunStatus \cup {NoRun, legacyPendingStatus}]
    /\ logs \in [Runs -> Seq(Log)]
    /\ boot \in {"down", "reconcile", "up"}
    /\ pc \in [Runs -> Busy \cup {"none", "done"}]
    /\ step \in [Runs -> 0..Steps]
    /\ result \in [Runs -> {"success", "failure"}]
    /\ expired \subseteq Runs /\ held \subseteq Runs
    /\ lost \subseteq Runs /\ bad \subseteq Runs
    /\ faults \in 0..MaxFaults /\ restarts \in 0..MaxRestarts

(* NormalizeRunStatus, through which every reader sees the column.         *)
NormalizeRunStatus(s) == IF s = legacyPendingStatus THEN "queued" ELSE s
Reported == [r \in Runs |-> NormalizeRunStatus(status[r])]

(* "queued -> running -> success | failure | cancelled ... Terminal        *)
(* statuses never transition again" (state.go:12-15): what readers see is  *)
(* the lifecycle, whatever fails and however often BigBase restarts.       *)
Lifecycle == INSTANCE RunLifecycle WITH status <- Reported
ImplementsLifecycle == Lifecycle!Spec

(* Reconciliation at boot "keeps GET /api/cici/runs truthful instead of    *)
(* reporting runs that will never finish" (runs.go:236-237): while BigBase *)
(* serves, an unfinished run has a goroutine working on it, unless its     *)
(* insert or its final write reported an error in this very process.       *)
NeverStranded ==
    boot = "up" => \A r \in Runs : status[r] \in Unfinished => pc[r] \in Busy \/ r \in lost

(* The complete log of n successful steps.                                 *)
Outputs(n) == [i \in 1..n |-> <<i, "output">>]

(* "RunStatusSuccess means every step completed successfully"              *)
(* (state.go:23): a successful run has done all its steps, logged no       *)
(* failure, and its log is complete and in order unless its deadline       *)
(* passed or the database failed at the wrong moment.                      *)
SuccessEarned ==
    \A r \in Runs : status[r] = "success" =>
        /\ step[r] = Steps /\ r \notin bad
        /\ \A i \in DOMAIN logs[r] : logs[r][i][2] = "output"
        /\ r \in expired \/ faults > 0 \/ logs[r] = Outputs(Steps)

(* A reader who finds a run finished finds its log finished too: no record *)
(* is added once the status is final, FAIL included (runs.go:128).         *)
LogsBeforeEnd ==
    [][\A r \in Runs : logs'[r] # logs[r] => status[r] = "running"]_vars

(* A run ends: by its steps, by its deadline, which the final write        *)
(* survives (runs.go:210-211), or by the next boot.  It does not while a   *)
(* descendant of its command keeps the output open, since the kill of the  *)
(* deadline reaches the shell only, nor when its insert or its final write *)
(* reported an error.                                                      *)
RunEnds ==
    \A r \in Runs : status[r] \in Unfinished ~>
        IsTerminal(status[r]) \/ r \in held \/ r \in lost

(* What these rest on: while BigBase is not up nobody works; a run has a   *)
(* row once it is triggered, and the row is where its goroutine thinks it  *)
(* is, ...                                                                 *)
WorkerInv ==
    /\ boot # "up" => \A r \in Runs : pc[r] \in {"none", "done"}
    /\ boot # "down" => \A r \in Runs : status[r] # legacyPendingStatus
    /\ \A r \in Runs : /\ pc[r] = "none" <=> status[r] = NoRun
                       /\ pc[r] = "start" => status[r] = "queued"
                       /\ pc[r] = "abort" => status[r] \in {"queued", "running"}
                       /\ pc[r] \in Executing => status[r] = "running"

(* ... a run that may still succeed has had no failure, ...                *)
Promising(r) ==
    \/ pc[r] \in {"none", "start", "context", "exec"}
    \/ pc[r] \in {"log", "finish"} /\ result[r] = "success"

(* ... and its log is the outputs of the steps it has done.                *)
LogInv ==
    \A r \in Runs :
        /\ Promising(r) =>
              /\ result[r] = "success" /\ r \notin bad
              /\ \A i \in DOMAIN logs[r] : logs[r][i][2] = "output"
              /\ r \in expired \/ faults > 0 \/ logs[r] = Outputs(step[r])
        /\ pc[r] = "log" => step[r] < Steps
        /\ pc[r] = "logFail" => result[r] = "failure" /\ step[r] < Steps
        /\ pc[r] = "finish" /\ result[r] = "success" => step[r] = Steps

IInv == TypeOK /\ WorkerInv /\ NeverStranded /\ LogInv /\ SuccessEarned
=============================================================================
