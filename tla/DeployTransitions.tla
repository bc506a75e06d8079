------------------------- MODULE DeployTransitions --------------------------
(***************************************************************************)
(* Concurrent status changes of ONE deployment row                         *)
(* (components/deploy/state_transitions.go, forceStatus in engine.go, the  *)
(* raw UPDATE of resumeCandidates in orchestrator.go, the DELETE of        *)
(* gateway.go).                                                            *)
(*                                                                         *)
(* A writer is a goroutine: the pipeline, the drain, the Wait handler of   *)
(* the started process, a rollback, a boot step or an HTTP handler.  Every *)
(* database statement is one step, so the steps of two calls interleave    *)
(* anywhere except inside a statement.  d.mu is the variable mu: only      *)
(* forceStatus holds it around its status write; TransitionState holds it  *)
(* around the read-modify-write of status_history only.                    *)
(*                                                                         *)
(* Every change of status that must be recorded gets a number, its place   *)
(* in the auxiliary sequence applied; an entry of status_history carries   *)
(* the number of the change it records.  The program never sees either.    *)
(***************************************************************************)
EXTENDS Naturals, Sequences, DeployStateMachine

CONSTANTS
    Writers,                \* goroutines that change the status
    transitionMaxAttempts,  \* retry budget of TransitionState
    MaxCalls,               \* bound: calls made in one behaviour
    MaxFaults               \* bound: database statements that fail

ASSUME AttemptsAssumption == transitionMaxAttempts \in Nat \ {0}
ASSUME BoundsAssumption == MaxCalls \in Nat /\ MaxFaults \in Nat

VARIABLES
    status,     \* the status column, NoRow once the row is deleted
    history,    \* the status_history column
    mu,         \* d.mu: its holder, {} when free
    pc,         \* where each writer is in its call
    target,     \* the status each writer's call asks for (newStatus)
    seen,       \* the status it read (current)
    attempt,    \* its attempt in TransitionState's loop
    snap,       \* the history it read before appending to it
    num,        \* the number of the change it made
    applied,    \* auxiliary: the changes to record, in the order they hit the row
    lost,       \* auxiliary: changes whose append failed
    emitted,    \* auxiliary: changes announced as deploy.state_changed
    calls,      \* bound: calls made so far
    faults      \* bound: failed statements so far

locals == <<target, seen, attempt, snap, num>>
vars == <<status, history, mu, pc, locals, applied, lost, emitted, calls, faults>>

ForceTarget == "stopped"

Idle == "idle"
ForceSteps == {"forceRead", "forceWrite", "forceAppendRead", "forceAppendWrite"}
AppendSteps == {"appendRead", "appendWrite"}
Critical == ForceSteps \cup AppendSteps
Labels == {Idle, "read", "cas", "lockHistory", "emit", "lockForce", "raw"}
            \cup Critical

(* The writer changed the row and its history entry is still to come.      *)
MustRecord == {"lockHistory", "forceAppendRead", "forceAppendWrite"}
                \cup AppendSteps

(* A change of the row, and its record in status_history.                  *)
Change == [from : RowStatus, to : RowStatus, forced : BOOLEAN]
Entry == [from : RowStatus, to : RowStatus, n : Nat]

Exists == status # NoRow

-----------------------------------------------------------------------------

Init ==
    /\ status \in {"pending"} \cup LegacyStatus
    /\ history = <<>>
    /\ mu = {}
    /\ pc = [w \in Writers |-> Idle]
    /\ target = [w \in Writers |-> ForceTarget]
    /\ seen = [w \in Writers |-> "pending"]
    /\ attempt = [w \in Writers |-> 0]
    /\ snap = [w \in Writers |-> <<>>]
    /\ num = [w \in Writers |-> 0]
    /\ applied = <<>>
    /\ lost = {}
    /\ emitted = {}
    /\ calls = 0
    /\ faults = 0

Goto(w, label) == pc' = [pc EXCEPT ![w] = label]

(* The writer's locals when it starts or ends a call for the status to.    *)
Fresh(w, to) ==
    /\ target' = [target EXCEPT ![w] = to]
    /\ seen' = [seen EXCEPT ![w] = "pending"]
    /\ attempt' = [attempt EXCEPT ![w] = 0]
    /\ snap' = [snap EXCEPT ![w] = <<>>]
    /\ num' = [num EXCEPT ![w] = 0]

Begin(w, to, label) == Goto(w, label) /\ Fresh(w, to)

Return(w) == Goto(w, Idle) /\ Fresh(w, ForceTarget)

(* A goroutine calls TransitionState(id, to), stopDeployment's             *)
(* forceStatus(id, "stopped"), or reaches the raw UPDATE of the resume.    *)
Call(w) ==
    /\ pc[w] = Idle
    /\ calls < MaxCalls
    /\ calls' = calls + 1
    /\ \/ \E to \in DeploymentState \ {"pending"} : Begin(w, to, "read")
       \/ Begin(w, ForceTarget, "lockForce")
       \/ Begin(w, "failed", "raw")
    /\ UNCHANGED <<status, history, mu, applied, lost, emitted, faults>>

(* TransitionState: SELECT status, the idempotent return, the validation.  *)
ReadStatus(w) ==
    /\ pc[w] = "read"
    /\ \/ /\ Exists
          /\ MayTransition(status, target[w])
          /\ seen' = [seen EXCEPT ![w] = status]
          /\ Goto(w, "cas")
          /\ UNCHANGED <<target, attempt, snap, num>>
       \/ /\ ~Exists \/ ~MayTransition(status, target[w])
          /\ Return(w)
    /\ UNCHANGED <<status, history, mu, applied, lost, emitted, calls, faults>>

(* The row changes from the status it has now to the one w asks for.       *)
Apply(w, forced) ==
    /\ status' = target[w]
    /\ applied' = Append(applied, [from |-> status, to |-> target[w],
                                   forced |-> forced])
    /\ num' = [num EXCEPT ![w] = Len(applied) + 1]
    /\ UNCHANGED <<target, seen, attempt, snap>>

CASBlind(w) ==
    /\ pc[w] = "cas"
    /\ Exists
    /\ Apply(w, FALSE)
    /\ Goto(w, "lockHistory")
    /\ UNCHANGED <<history, mu, lost, emitted, calls, faults>>

CASForgetsHistory(w) ==
    /\ pc[w] = "cas"
    /\ status = seen[w]
    /\ Apply(w, FALSE)
    /\ Goto(w, "emit")
    /\ UNCHANGED <<history, mu, lost, emitted, calls, faults>>

(* compareAndSwapStatus: UPDATE ... WHERE id = ? AND status = ?; no row    *)
(* affected means a lost race and another attempt, up to the budget.       *)
CompareAndSwap(w) ==
    /\ pc[w] = "cas"
    /\ \/ /\ status = seen[w]
          /\ Apply(w, FALSE)
          /\ Goto(w, "lockHistory")
       \/ /\ status # seen[w]
          /\ attempt[w] + 1 < transitionMaxAttempts
          /\ attempt' = [attempt EXCEPT ![w] = @ + 1]
          /\ Goto(w, "read")
          /\ UNCHANGED <<status, applied, target, seen, snap, num>>
       \/ /\ status # seen[w]
          /\ attempt[w] + 1 >= transitionMaxAttempts
          /\ Return(w)
          /\ UNCHANGED <<status, applied>>
    /\ UNCHANGED <<history, mu, lost, emitted, calls, faults>>

LockNobody(w) ==
    /\ pc[w] = "lockHistory"
    /\ mu' = mu \cup {w}
    /\ Goto(w, "appendRead")
    /\ UNCHANGED <<status, history, locals, applied, lost, emitted, calls, faults>>

(* d.mu.Lock() of the CAS winner.                                          *)
LockHistory(w) ==
    /\ pc[w] = "lockHistory"
    /\ mu = {}
    /\ mu' = {w}
    /\ Goto(w, "appendRead")
    /\ UNCHANGED <<status, history, locals, applied, lost, emitted, calls, faults>>

(* d.mu.Lock() of forceStatus.                                             *)
LockForce(w) ==
    /\ pc[w] = "lockForce"
    /\ mu = {}
    /\ mu' = {w}
    /\ Goto(w, "forceRead")
    /\ UNCHANGED <<status, history, locals, applied, lost, emitted, calls, faults>>

(* forceStatus: SELECT status; nothing to do if the row is gone or already *)
(* has the status.  The deferred Unlock runs with the return.              *)
ForceRead(w) ==
    /\ pc[w] = "forceRead"
    /\ \/ /\ status \notin {NoRow, target[w]}
          /\ seen' = [seen EXCEPT ![w] = status]
          /\ Goto(w, "forceWrite")
          /\ UNCHANGED <<mu, target, attempt, snap, num>>
       \/ /\ status \in {NoRow, target[w]}
          /\ mu' = mu \ {w}
          /\ Return(w)
    /\ UNCHANGED <<status, history, applied, lost, emitted, calls, faults>>

(* forceStatus: UPDATE ... WHERE id = ?, whatever the status is by now.    *)
(* On a deleted row it affects nothing and the append that follows gives   *)
(* up as well, so the call simply ends.                                    *)
ForceWrite(w) ==
    /\ pc[w] = "forceWrite"
    /\ \/ /\ Exists
          /\ Apply(w, TRUE)
          /\ Goto(w, "forceAppendRead")
          /\ UNCHANGED mu
       \/ /\ ~Exists
          /\ mu' = mu \ {w}
          /\ Return(w)
          /\ UNCHANGED <<status, applied>>
    /\ UNCHANGED <<history, lost, emitted, calls, faults>>

AppendKeepsLock(w) ==
    /\ Goto(w, IF pc[w] \in AppendSteps THEN "emit" ELSE Idle)
    /\ UNCHANGED <<mu, locals>>

(* appendStatusHistory is over: Unlock, and either TransitionState goes on *)
(* to its event or forceStatus returns.                                    *)
AppendDone(w) ==
    /\ mu' = mu \ {w}
    /\ IF pc[w] \in AppendSteps
       THEN /\ Goto(w, "emit")
            /\ snap' = [snap EXCEPT ![w] = <<>>]
            /\ UNCHANGED <<target, seen, attempt, num>>
       ELSE Return(w)

(* First statement: SELECT status_history.  On a deleted row it gives up,  *)
(* and the entry is lost with the row.                                     *)
AppendRead(w) ==
    /\ pc[w] \in {"appendRead", "forceAppendRead"}
    /\ \/ /\ Exists
          /\ snap' = [snap EXCEPT ![w] = history]
          /\ Goto(w, IF pc[w] = "appendRead" THEN "appendWrite"
                                             ELSE "forceAppendWrite")
          /\ UNCHANGED <<lost, mu, target, seen, attempt, num>>
       \/ /\ ~Exists
          /\ lost' = lost \cup {num[w]}
          /\ AppendDone(w)
    /\ UNCHANGED <<status, history, applied, emitted, calls, faults>>

(* Second statement: the whole column is written from what was read, with  *)
(* the transition the caller believes it made.  A failing UPDATE is only   *)
(* logged, one on a deleted row affects nothing.                           *)
AppendWrite(w) ==
    /\ pc[w] \in {"appendWrite", "forceAppendWrite"}
    /\ \/ /\ Exists
          /\ history' = Append(snap[w], [from |-> seen[w],
                                              to |-> target[w],
                                              n |-> num[w]])
          /\ UNCHANGED <<lost, faults>>
       \/ /\ ~Exists
          /\ lost' = lost \cup {num[w]}
          /\ UNCHANGED <<history, faults>>
       \/ /\ faults < MaxFaults
          /\ faults' = faults + 1
          /\ lost' = lost \cup {num[w]}
          /\ UNCHANGED history
    /\ AppendDone(w)
    /\ UNCHANGED <<status, applied, emitted, calls>>

(* deploy.state_changed, outside the lock, then return nil.                *)
Emit(w) ==
    /\ pc[w] = "emit"
    /\ emitted' = emitted \cup {num[w]}
    /\ Return(w)
    /\ UNCHANGED <<status, history, mu, applied, lost, calls, faults>>

(* The UPDATE status = 'failed' of resumeCandidates: no validation, no     *)
(* lock, no history, no event.                                             *)
RawFail(w) ==
    /\ pc[w] = "raw"
    /\ status' = IF Exists THEN "failed" ELSE status
    /\ Return(w)
    /\ UNCHANGED <<history, mu, applied, lost, emitted, calls, faults>>

(* A SELECT or UPDATE of the status fails: both calls give up, and         *)
(* forceStatus releases the lock.                                          *)
StatementFails(w) ==
    /\ pc[w] \in {"read", "cas", "forceRead", "forceWrite"}
    /\ faults < MaxFaults
    /\ faults' = faults + 1
    /\ mu' = mu \ {w}
    /\ Return(w)
    /\ UNCHANGED <<status, history, applied, lost, emitted, calls>>

(* DELETE FROM deployments of the delete handlers.                         *)
DeleteRow ==
    /\ Exists
    /\ calls < MaxCalls
    /\ calls' = calls + 1
    /\ status' = NoRow
    /\ history' = <<>>
    /\ UNCHANGED <<mu, pc, locals, applied, lost, emitted, faults>>

Step(w) ==
    \/ ReadStatus(w)
    \/ CompareAndSwap(w)
    \/ LockHistory(w)
    \/ LockForce(w)
    \/ ForceRead(w)
    \/ ForceWrite(w)
    \/ AppendRead(w)
    \/ AppendWrite(w)
    \/ Emit(w)
    \/ RawFail(w)

Next ==
    \/ \E w \in Writers : Call(w) \/ Step(w) \/ StatementFails(w)
    \/ DeleteRow

Spec == Init /\ [][Next]_vars

(* A goroutine inside a call keeps running, and sync.Mutex hands a waiting *)
(* goroutine the lock after at most a millisecond of starvation: strong    *)
(* fairness of the two Lock steps, weak fairness of the others.  Nothing   *)
(* says that anybody calls.                                                *)
Fairness ==
    \A w \in Writers : /\ WF_vars(Step(w))
                       /\ SF_vars(LockHistory(w))
                       /\ SF_vars(LockForce(w))

FairSpec == Spec /\ Fairness

-----------------------------------------------------------------------------
(* Properties.                                                             *)

(* Every variable keeps its type; in particular no call tries more often   *)
(* than the retry budget of TransitionState (state_transitions.go:38).     *)
TypeOK ==
    /\ status \in RowStatus \cup {NoRow}
    /\ history \in Seq(Entry)
    /\ mu \in SUBSET Writers
    /\ pc \in [Writers -> Labels]
    /\ target \in [Writers -> DeploymentState]
    /\ seen \in [Writers -> RowStatus]
    /\ attempt \in [Writers -> 0..(transitionMaxAttempts - 1)]
    /\ snap \in [Writers -> Seq(Entry)]
    /\ num \in [Writers -> Nat]
    /\ applied \in Seq(Change)
    /\ lost \in SUBSET Nat
    /\ emitted \in SUBSET Nat
    /\ calls \in 0..MaxCalls
    /\ faults \in 0..MaxFaults

(* Change n is in the status_history column.                               *)
Recorded(n) == \E i \in DOMAIN history : history[i].n = n

(* Writer w made change n and is on its way to recording it.               *)
Pending(w, n) == pc[w] \in MustRecord /\ num[w] = n

(* "history can never be appended twice" (state_transitions.go:90) and     *)
(* "the audit trail never loses a transition" (engine.go:131): while the   *)
(* row exists every change made through TransitionState or forceStatus is  *)
(* recorded exactly once, or exactly one goroutine is still about to       *)
(* record it, or its append failed in the database.                        *)
AuditComplete ==
    Exists =>
        /\ \A n \in 1..Len(applied) :
              Recorded(n) \/ n \in lost \/ \E w \in Writers : Pending(w, n)
        /\ \A i, j \in DOMAIN history : history[i].n = history[j].n => i = j
        /\ \A i \in DOMAIN history, w \in Writers : ~Pending(w, history[i].n)

(* Each entry says what happened to the row: the source and the target of  *)
(* a TransitionState entry are the ones of the change it records, however  *)
(* many writers raced; of a forceStatus entry only the target is.          *)
EntriesTruthful ==
    \A i \in DOMAIN history :
        LET e == history[i] IN
        /\ e.n \in 1..Len(applied)
        /\ e.to = applied[e.n].to
        /\ ~applied[e.n].forced => e.from = applied[e.n].from

(* The trail an operator reads back: complete and true.                    *)
AuditSound == AuditComplete /\ EntriesTruthful

(* "status_history and events are only written after the CAS succeeds"     *)
(* (state_transitions.go:31): a subscriber told of a change finds it in    *)
(* the history of a row that still exists, unless its append failed.       *)
EventAfterRecord ==
    Exists => \A n \in emitted : Recorded(n) \/ n \in lost

(* What the audit properties rest on: d.mu has one holder, the goroutine   *)
(* inside a critical section, ...                                          *)
LockInv ==
    /\ \A w \in Writers : w \in mu <=> pc[w] \in Critical
    /\ \A v, w \in mu : v = w

(* ... so nobody overwrites an entry appended since he read the column;    *)
SnapshotCurrent ==
    \A w \in Writers :
        pc[w] \in {"appendWrite", "forceAppendWrite"} /\ Exists
            => snap[w] = history

(* ... and the writers that must record hold different changes, which are  *)
(* the ones they made.                                                     *)
NumbersInv ==
    /\ \A w \in Writers : pc[w] \in MustRecord =>
          /\ num[w] \in 1..Len(applied)
          /\ applied[num[w]].to = target[w]
          /\ ~applied[num[w]].forced => applied[num[w]].from = seen[w]
    /\ \A v, w \in Writers :
          /\ pc[v] \in MustRecord
          /\ pc[w] \in MustRecord
          /\ num[v] = num[w]
          => v = w
    /\ \A w \in Writers : pc[w] = "emit" /\ Exists =>
          Recorded(num[w]) \/ num[w] \in lost

(* The refinement needs to know what a call is still entitled to do: a CAS *)
(* writes only what was validated against the status it compares with, and *)
(* forceStatus is only ever asked for "stopped".                           *)
RequestInv ==
    \A w \in Writers :
        /\ pc[w] = "cas" => MayTransition(seen[w], target[w])
        /\ pc[w] \in ForceSteps \cup {"lockForce"} => target[w] = ForceTarget

IInv ==
    /\ TypeOK
    /\ LockInv
    /\ SnapshotCurrent
    /\ NumbersInv
    /\ AuditComplete
    /\ EntriesTruthful
    /\ EventAfterRecord

(* Readers of the status column see the atomic machine of DeployStatus,    *)
(* whatever the interleaving of CAS, retry, force, raw write and delete.   *)
Abstract == INSTANCE DeployStatus
ImplementsStatus == Abstract!Spec

(* Every call returns: retries are bounded and no goroutine keeps d.mu.    *)
CallReturns == \A w \in Writers : pc[w] # Idle ~> pc[w] = Idle

(* What the comment of forceStatus (engine.go:134-136) says: no transition *)
(* changes the row between its read and its write.                         *)
NoTransitionSlipsIn ==
    [][\A w \in Writers :
          pc[w] = "forceWrite" /\ pc'[w] = "forceWrite"
              => applied' = applied]_vars
=============================================================================
