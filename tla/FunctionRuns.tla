---------------------------- MODULE FunctionRuns ----------------------------
(***************************************************************************)
(* Functions (components/functions): their table, the cron schedule that   *)
(* mirrors it, and their runs.  A handler writes the table and then        *)
(* rebuilds the whole schedule from it under f.mu; several handlers do so  *)
(* at the same time, any statement may fail, and cron fires the copy of    *)
(* the function it was given.  A run is a goroutine with the JavaScript    *)
(* machine, raced by a timer.                                              *)
(***************************************************************************)
EXTENDS Naturals, FiniteSets

CONSTANTS
    FnIds,          \* functions
    FnOrgs,         \* organizations; 0 is a request, or a cron run, without one
    FnHandlers,     \* requests that run at the same time
    FnRuns,         \* runs
    MaxWrites       \* bound: writes of the functions table

ASSUME FnBounds == 0 \in FnOrgs /\ MaxWrites \in Nat

VARIABLES
    fnRow,          \* functions: organization, schedule and the write it is from; 0 no row
    entry,          \* scheduleEntryIDs: the write the copy is from; 0 no entry
    fnCall,         \* where each request is, and its function
    fnRun,          \* where each run is, what it runs and how the machine ended
    execution,      \* function_executions, by run
    writes,         \* bound: writes so far
    unreloaded      \* auxiliary: the last reload failed, or was skipped after a write

fnVars == <<fnRow, entry, fnCall, fnRun, execution, writes, unreloaded>>

NoFn == [org |-> 0, schedule |-> "none", write |-> 0]
NoFnCall == [at |-> "idle", fn |-> 0]
NoFnRun == [at |-> "idle", fn |-> 0, org |-> 0, write |-> 0, machine |-> "idle"]
NoExecution == [org |-> 0, status |-> "none"]

\* schedule != '' of a function with trigger schedule; AddFunc may refuse it.
Schedules == {"none", "valid", "refused"}

FnInit ==
    /\ fnRow = [f \in FnIds |-> NoFn]
    /\ entry = [f \in FnIds |-> 0]
    /\ fnCall = [h \in FnHandlers |-> NoFnCall]
    /\ fnRun = [r \in FnRuns |-> NoFnRun]
    /\ execution = [r \in FnRuns |-> NoExecution]
    /\ writes = 0
    /\ unreloaded = FALSE

FnExists(f) == fnRow[f].write # 0
FnGoes(h, pc, f) == fnCall' = [fnCall EXCEPT ![h] = IF pc = "idle" THEN NoFnCall ELSE [at |-> pc, fn |-> f]]

\* A statement of the table by a request that was idle; the organization is in the
\* WHERE, so another one's function is not found.
FnWrite(h, f, row, pc) ==
    /\ fnCall[h] = NoFnCall /\ writes < MaxWrites
    /\ writes' = writes + 1
    /\ fnRow' = [fnRow EXCEPT ![f] = row]
    /\ FnGoes(h, pc, f)

----------------------------------------------------------------------------
(***************************************************************************)
(* The handlers and the schedule.                                          *)
(***************************************************************************)

\* handleCreate reloads for a scheduled function only.
HandleCreate(h, f, org, s) ==
    /\ ~FnExists(f)
    /\ FnWrite(h, f, [org |-> org, schedule |-> s, write |-> writes + 1], IF s = "none" THEN "idle" ELSE "reload")
    /\ UNCHANGED <<entry, fnRun, execution, unreloaded>>

HandleUpdate(h, f, org, s) ==
    /\ FnExists(f) /\ fnRow[f].org = org
    /\ FnWrite(h, f, [org |-> org, schedule |-> s, write |-> writes + 1], "fetch")
    /\ UNCHANGED <<entry, fnRun, execution, unreloaded>>

\* handleUpdate reads the function back; a read that fails ends the request
\* without a reload, and so does a function deleted meanwhile.
FetchAfterUpdate(h) ==
    /\ fnCall[h].at = "fetch"
    /\ \/ /\ FnExists(fnCall[h].fn)
          /\ FnGoes(h, "reload", fnCall[h].fn)
          /\ UNCHANGED unreloaded
       \/ /\ FnGoes(h, "idle", fnCall[h].fn)
          /\ unreloaded' = (unreloaded \/ FnExists(fnCall[h].fn))
    /\ UNCHANGED <<fnRow, entry, fnRun, execution, writes>>

HandleDelete(h, f, org) ==
    /\ FnExists(f) /\ fnRow[f].org = org
    /\ FnWrite(h, f, NoFn, "reload")
    /\ UNCHANGED <<entry, fnRun, execution, unreloaded>>

Scheduled == [f \in FnIds |-> IF fnRow[f].schedule = "valid" THEN fnRow[f].write ELSE 0]

\* A plausible slip: entries are added, and none is removed first.
ReloadScheduleAdding(h) ==
    /\ fnCall[h].at = "reload"
    /\ FnGoes(h, "idle", 0)
    /\ entry' = [f \in FnIds |-> IF Scheduled[f] # 0 THEN Scheduled[f] ELSE entry[f]]
    /\ unreloaded' = FALSE
    /\ UNCHANGED <<fnRow, fnRun, execution, writes>>

\* reloadSchedule under f.mu: every entry is removed, then the table is read; when
\* the read fails nothing is scheduled any more.
ReloadSchedule(h) ==
    /\ fnCall[h].at = "reload"
    /\ FnGoes(h, "idle", 0)
    /\ \/ entry' = Scheduled /\ unreloaded' = FALSE
       \/ entry' = [f \in FnIds |-> 0] /\ unreloaded' = TRUE
    /\ UNCHANGED <<fnRow, fnRun, execution, writes>>

\* The process dies and Start schedules the table anew; its failure ends the start.
RestartFunctions ==
    /\ entry' = Scheduled
    /\ unreloaded' = FALSE
    /\ fnCall' = [h \in FnHandlers |-> NoFnCall]
    /\ fnRun' = [r \in FnRuns |-> IF fnRun[r].at = "idle" THEN NoFnRun ELSE [fnRun[r] EXCEPT !.at = "gone"]]
    /\ UNCHANGED <<fnRow, execution, writes>>

----------------------------------------------------------------------------
(***************************************************************************)
(* Runs.                                                                   *)
(***************************************************************************)

RunBegins(r, f, org, write) ==
    /\ fnRun[r] = NoFnRun
    /\ fnRun' = [fnRun EXCEPT ![r] = [at |-> "executing", fn |-> f, org |-> org, write |-> write, machine |-> "running"]]
    /\ UNCHANGED <<fnRow, entry, fnCall, execution, writes, unreloaded>>

\* cron fires the copy it was given, without an organization.
ExecuteScheduled(r, f) == entry[f] # 0 /\ RunBegins(r, f, 0, entry[f])

HandleRun(r, f, org) == FnExists(f) /\ fnRow[f].org = org /\ RunBegins(r, f, org, fnRow[f].write)

\* execAsync: the machine returns, throws or panics; an interrupted one ends at its
\* next instruction, after a fetch it may be in.
MachineEnds(r) ==
    /\ fnRun[r].machine \in {"running", "interrupted"} /\ fnRun[r].at \in {"executing", "timedOut"}
    /\ \/ fnRun' = [fnRun EXCEPT ![r].machine = "threw"]
       \/ fnRun[r].machine = "running" /\ fnRun' = [fnRun EXCEPT ![r].machine = "returned"]
    /\ UNCHANGED <<fnRow, entry, fnCall, execution, writes, unreloaded>>

\* Execute's select: the result, or the timer; when both are ready either.
TimerFires(r) ==
    /\ fnRun[r].at = "executing"
    /\ fnRun' = [fnRun EXCEPT ![r].at = "timedOut", ![r].machine = IF @ = "running" THEN "interrupted" ELSE @]
    /\ UNCHANGED <<fnRow, entry, fnCall, execution, writes, unreloaded>>

\* The result is received, and saveExecution writes the row or fails.
SaveExecution(r) ==
    /\ fnRun[r].at \in {"executing", "timedOut"} /\ fnRun[r].machine \in {"returned", "threw"}
    /\ fnRun' = [fnRun EXCEPT ![r].at = "ended"]
    /\ \/ UNCHANGED execution
       \/ execution' = [execution EXCEPT ![r] = [org |-> fnRun[r].org,
              status |-> IF fnRun[r].at = "executing" /\ fnRun[r].machine = "returned" THEN "success" ELSE "error"]]
    /\ UNCHANGED <<fnRow, entry, fnCall, writes, unreloaded>>

FnNext ==
    \/ \E h \in FnHandlers :
        \/ FetchAfterUpdate(h) \/ ReloadSchedule(h)
        \/ \E f \in FnIds, org \in FnOrgs :
            \/ HandleDelete(h, f, org)
            \/ \E s \in Schedules : HandleCreate(h, f, org, s) \/ HandleUpdate(h, f, org, s)
    \/ \E r \in FnRuns :
        \/ MachineEnds(r) \/ TimerFires(r) \/ SaveExecution(r)
        \/ \E f \in FnIds : ExecuteScheduled(r, f) \/ \E org \in FnOrgs : HandleRun(r, f, org)
    \/ RestartFunctions

FnSpec == FnInit /\ [][FnNext]_fnVars

----------------------------------------------------------------------------

\* The types of the variables.
FnTypeOK ==
    /\ fnRow \in [FnIds -> [org : FnOrgs, schedule : Schedules, write : 0..MaxWrites]]
    /\ entry \in [FnIds -> 0..MaxWrites]
    /\ \A h \in FnHandlers : fnCall[h].at \in {"idle", "fetch", "reload"}
    /\ \A r \in FnRuns : /\ fnRun[r].at \in {"idle", "executing", "timedOut", "ended", "gone"}
                         /\ fnRun[r].machine \in {"idle", "running", "interrupted", "returned", "threw"}
    /\ execution \in [FnRuns -> [org : FnOrgs, status : {"none", "success", "error"}]]
    /\ writes \in 0..MaxWrites /\ unreloaded \in BOOLEAN

\* However writes and reloads of several requests interleave, once every writer has
\* reloaded cron holds exactly the scheduled functions of the table, each in its
\* latest version: nothing deleted or edited keeps firing.  Only a reload that
\* failed, or was skipped because the read after an update failed, leaves it
\* otherwise, until the next one (functions.go:180-215, handlers.go:192-205).
ScheduleFollowsTable ==
    (\A h \in FnHandlers : fnCall[h] = NoFnCall) /\ ~unreloaded => entry = Scheduled

==============================================================================
