---------------------------- MODULE RunLifecycle ----------------------------
(***************************************************************************)
(* What the status of CICI pipeline runs promises to the readers of        *)
(* GET /api/cici/runs (components/cici/state.go): a run is queued, runs    *)
(* and ends once, and a status that is final stays.  No workers, no        *)
(* database errors, no restarts: CiciRuns, which has all three, implements *)
(* it.                                                                     *)
(***************************************************************************)
CONSTANT Runs

VARIABLE status

RunStatus == {"queued", "running", "success", "failure", "cancelled"}

(* The run has no row.                                                     *)
NoRun == "none"

(* runTransitions: the table of valid edges.                               *)
RunTransitions ==
    [s \in RunStatus |->
        CASE s = "queued"  -> {"running", "failure", "cancelled"}
          [] s = "running" -> {"success", "failure", "cancelled"}
          [] OTHER         -> {}]

CanTransition(from, to) ==
    from \in RunStatus /\ from # to /\ to \in RunTransitions[from]

(* Runs that older releases left behind are queued to the readers.         *)
Init == status \in [Runs -> {NoRun, "queued"}]

Queue(r) ==
    /\ status[r] = NoRun
    /\ status' = [status EXCEPT ![r] = "queued"]

(* A boot ends any number of runs in one statement, a worker one of them.  *)
Move ==
    /\ status' \in [Runs -> RunStatus \cup {NoRun}]
    /\ \A r \in Runs : status'[r] # status[r] => CanTransition(status[r], status'[r])

Next == Move \/ \E r \in Runs : Queue(r)

Spec == Init /\ [][Next]_status
=============================================================================
