--------------------------- MODULE CiciRunsProofs ---------------------------
(***************************************************************************)
(* Proofs about CiciRuns for every set of runs, every number of steps and  *)
(* every bound on failures and restarts.                                   *)
(***************************************************************************)
EXTENDS CiciRuns, TLAPS

USE DEF RunStatus, legacyPendingStatus, NoRun, Unfinished, Executing, Busy

-----------------------------------------------------------------------------
(* Types.                                                                  *)

(* A record about the step under way is a log record.                      *)
LEMMA AppendType ==
    ASSUME TypeOK, NEW r \in Runs, NEW kind \in {"output", "FAIL"},
           step[r] < Steps, AppendLog(r, kind)
    PROVE  /\ logs' \in [Runs -> Seq(Log)]
           /\ faults' \in 0..MaxFaults /\ restarts' \in 0..MaxRestarts
<1> DEFINE e == <<step[r] + 1, kind>>
<1>1. e \in Log
  BY StepsAssumption DEF TypeOK, Log
<1>2. logs \in [Runs -> Seq(Log)] /\ logs[r] \in Seq(Log)
  BY DEF TypeOK
<1>3. logs' = logs \/ logs' = [logs EXCEPT ![r] = Append(logs[r], e)]
  BY DEF AppendLog
<1> HIDE DEF e
<1>4. Append(logs[r], e) \in Seq(Log)
  BY <1>1, <1>2
<1>5. logs' \in [Runs -> Seq(Log)]
  BY <1>2, <1>3, <1>4
<1>6. faults' \in 0..MaxFaults /\ restarts' \in 0..MaxRestarts
  BY CiciBounds DEF TypeOK, AppendLog, Fault, bounds
<1> QED
  BY <1>5, <1>6

LEMMA TypeStep ==
    ASSUME TypeOK, LogInv, [Next]_vars
    PROVE  TypeOK'
<1> USE DEF At
<1>1. ASSUME NEW r \in Runs, Trigger(r) PROVE TypeOK'
  <2>1. /\ status' \in [Runs -> RunStatus \cup {NoRun, legacyPendingStatus}]
        /\ pc' \in [Runs -> Busy \cup {"none", "done"}]
        /\ lost' \subseteq Runs
    BY <1>1 DEF TypeOK, Trigger
  <2>2. faults' \in 0..MaxFaults /\ restarts' \in 0..MaxRestarts
    BY <1>1, CiciBounds DEF TypeOK, Trigger, Fault, bounds
  <2> QED
    BY <1>1, <2>1, <2>2 DEF TypeOK, Trigger
<1>2. ASSUME NEW r \in Runs, StartRun(r) PROVE TypeOK'
  <2>1. status' \in [Runs -> RunStatus \cup {NoRun, legacyPendingStatus}]
    BY <1>2 DEF TypeOK, StartRun, Started
  <2>2. pc' \in [Runs -> Busy \cup {"none", "done"}]
    BY <1>2 DEF TypeOK, StartRun
  <2>3. faults' \in 0..MaxFaults /\ restarts' \in 0..MaxRestarts
    BY <1>2, CiciBounds DEF TypeOK, StartRun, Fault, bounds
  <2> QED
    BY <1>2, <2>1, <2>2, <2>3 DEF TypeOK, StartRun, aux
<1>3. ASSUME NEW r \in Runs, Abort(r) PROVE TypeOK'
  <2>1. status' \in [Runs -> RunStatus \cup {NoRun, legacyPendingStatus}]
    BY <1>3 DEF TypeOK, Abort, Finished
  <2>2. faults' \in 0..MaxFaults /\ restarts' \in 0..MaxRestarts
    BY <1>3, CiciBounds DEF TypeOK, Abort, Fault, bounds
  <2>3. lost' \subseteq Runs
    BY <1>3 DEF TypeOK, Abort
  <2> QED
    BY <1>3, <2>1, <2>2, <2>3 DEF TypeOK, Abort
<1>4. ASSUME NEW r \in Runs, Parse(r) PROVE TypeOK'
  <2>1. /\ pc' \in [Runs -> Busy \cup {"none", "done"}]
        /\ result' \in [Runs -> {"success", "failure"}]
        /\ bad' \subseteq Runs
    BY <1>4 DEF TypeOK, Parse, Outcome
  <2> QED
    BY <1>4, <2>1 DEF TypeOK, Parse, bounds
<1>5. ASSUME NEW r \in Runs, NEW res \in {"success", "failure"}, Outcome(r, res)
      PROVE  result' \in [Runs -> {"success", "failure"}] /\ bad' \subseteq Runs
  BY <1>5 DEF TypeOK, Outcome
<1>6. ASSUME NEW r \in Runs,
             \/ CommandEnds(r) \/ DescendantEnds(r) \/ CommandKilled(r)
             \/ CommandRejected(r)
      PROVE  TypeOK'
  <2>1. \E res \in {"success", "failure"} : Outcome(r, res)
    BY <1>6 DEF CommandEnds, DescendantEnds, CommandKilled, CommandRejected
  <2>2. result' \in [Runs -> {"success", "failure"}] /\ bad' \subseteq Runs
    BY <1>5, <2>1
  <2>3. pc' \in [Runs -> Busy \cup {"none", "done"}]
    BY <1>6 DEF TypeOK, CommandEnds, DescendantEnds, CommandKilled, CommandRejected
  <2>4. /\ UNCHANGED <<status, logs, boot, step, expired, lost, bounds>>
        /\ held' \subseteq held
    BY <1>6 DEF CommandEnds, DescendantEnds, CommandKilled, CommandRejected
  <2> QED
    BY <2>2, <2>3, <2>4 DEF TypeOK, bounds
<1>7. ASSUME NEW r \in Runs, CommandLingers(r) \/ Expire(r)
      PROVE  TypeOK'
  BY <1>7 DEF TypeOK, CommandLingers, Expire, worker, aux, bounds
<1>8. ASSUME NEW r \in Runs, LogOutput(r) PROVE TypeOK'
  <2>1. pc[r] = "log" /\ AppendLog(r, "output")
    BY <1>8 DEF LogOutput
  <2>2. step[r] < Steps
    BY <2>1 DEF LogInv
  <2>3. /\ logs' \in [Runs -> Seq(Log)]
        /\ faults' \in 0..MaxFaults /\ restarts' \in 0..MaxRestarts
    BY <2>1, <2>2, AppendType
  <2>4. step[r] + 1 \in 0..Steps
    BY <2>2, StepsAssumption DEF TypeOK
  <2>5. /\ step' \in [Runs -> 0..Steps]
        /\ pc' \in [Runs -> Busy \cup {"none", "done"}]
    BY <1>8, <2>4 DEF TypeOK, LogOutput
  <2> QED
    BY <1>8, <2>3, <2>5 DEF TypeOK, LogOutput, aux
<1>9. ASSUME NEW r \in Runs, LogFail(r) PROVE TypeOK'
  <2>1. pc[r] = "logFail" /\ AppendLog(r, "FAIL")
    BY <1>9 DEF LogFail
  <2>2. step[r] < Steps
    BY <2>1 DEF LogInv
  <2>3. /\ logs' \in [Runs -> Seq(Log)]
        /\ faults' \in 0..MaxFaults /\ restarts' \in 0..MaxRestarts
    BY <2>1, <2>2, AppendType
  <2> QED
    BY <1>9, <2>3 DEF TypeOK, LogFail, aux
<1>10. ASSUME NEW r \in Runs, AllDone(r) PROVE TypeOK'
  BY <1>10 DEF TypeOK, AllDone, aux, bounds
<1>11. ASSUME NEW r \in Runs, Finish(r) PROVE TypeOK'
  <2>1. status' \in [Runs -> RunStatus \cup {NoRun, legacyPendingStatus}]
    BY <1>11 DEF TypeOK, Finish, Finished
  <2>2. faults' \in 0..MaxFaults /\ restarts' \in 0..MaxRestarts
    BY <1>11, CiciBounds DEF TypeOK, Finish, Fault, bounds
  <2>3. lost' \subseteq Runs
    BY <1>11 DEF TypeOK, Finish
  <2> QED
    BY <1>11, <2>1, <2>2, <2>3 DEF TypeOK, Finish
<1>12. CASE Down
  BY <1>12, CiciBounds DEF TypeOK, Down, aux
<1>13. CASE Normalize
  BY <1>13 DEF TypeOK, Normalize, worker, aux, bounds
<1>14. CASE Reconcile
  BY <1>14 DEF TypeOK, Reconcile, Reconciled, worker, bounds
<1>15. CASE BootFails
  BY <1>15, CiciBounds DEF TypeOK, BootFails, Fault, worker, aux
<1>16. CASE UNCHANGED vars
  BY <1>16 DEF TypeOK, vars, worker, aux, bounds
<1> QED
  BY <1>1, <1>2, <1>3, <1>4, <1>6, <1>7, <1>8, <1>9, <1>10, <1>11, <1>12, <1>13,
     <1>14, <1>15, <1>16 DEF Next, Work, Command, Start
-----------------------------------------------------------------------------
(* Rows and goroutines.                                                    *)

(* The goroutine of one run moves on from the label from, and may write    *)
(* its own row.                                                            *)
Moves(r, from, to, s) ==
    /\ pc[r] = from
    /\ pc' = [pc EXCEPT ![r] = to]
    /\ status' = [status EXCEPT ![r] = s]
    /\ boot' = boot

(* What the steps of the goroutines do to the row, the label and lost.     *)
LEMMA RowEffects ==
    ASSUME TypeOK, WorkerInv, NEW r \in Runs,
           Trigger(r) \/ Work(r) \/ Command(r) \/ Expire(r)
    PROVE  \/ /\ boot = "up" /\ lost' = lost
              /\ Moves(r, "none", "start", "queued")
           \/ /\ boot = "up" /\ lost' = lost \cup {r}
              /\ Moves(r, "none", "done", "queued")
           \/ /\ lost' = lost
              /\ Moves(r, "start", "context", "running")
           \/ /\ lost' = lost
              /\ \E s \in {"queued", "running"} : Moves(r, "start", "abort", s)
           \/ \/ /\ Moves(r, "abort", "done", "failure") /\ lost' = lost
              \/ /\ Moves(r, "abort", "done", status[r]) /\ lost' = lost \cup {r}
              \/ /\ Moves(r, "finish", "done", result[r]) /\ lost' = lost
              \/ /\ Moves(r, "finish", "done", status[r]) /\ lost' = lost \cup {r}
           \/ /\ lost' = lost
              /\ \E from \in Executing \ {"finish"}, to \in Executing :
                    Moves(r, from, to, status[r])
           \/ UNCHANGED <<status, pc, boot, lost>>
<1> USE DEF At, Moves
<1>0. status = [status EXCEPT ![r] = status[r]]
  BY DEF TypeOK
<1>1. CASE Trigger(r)
  BY <1>1 DEF Trigger, aux
<1>2. CASE StartRun(r)
  <2>1. status[r] = "queued" /\ UNCHANGED <<boot, lost>>
    BY <1>2 DEF StartRun, WorkerInv, aux
  <2>2. Started(r) = [status EXCEPT ![r] = "running"]
    BY <2>1 DEF Started
  <2>3. status = [status EXCEPT ![r] = "queued"]
    BY <1>0, <2>1
  <2> QED
    BY <1>2, <2>1, <2>2, <2>3 DEF StartRun
<1>3. CASE Abort(r)
  <2>1. status[r] \in Unfinished
    BY <1>3 DEF Abort, WorkerInv
  <2>2. Finished(r, "failure") = [status EXCEPT ![r] = "failure"]
    BY <2>1 DEF Finished
  <2> QED
    BY <1>0, <1>3, <2>2 DEF Abort
<1>4. CASE Finish(r)
  <2>1. status[r] \in Unfinished
    BY <1>4 DEF Finish, WorkerInv
  <2>2. Finished(r, result[r]) = [status EXCEPT ![r] = result[r]]
    BY <2>1 DEF Finished
  <2> QED
    BY <1>0, <1>4, <2>2 DEF Finish
<1>5. CASE \/ Parse(r) \/ CommandKilled(r) \/ LogOutput(r) \/ LogFail(r) \/ AllDone(r)
           \/ CommandEnds(r) \/ DescendantEnds(r) \/ CommandRejected(r)
  <2>1. UNCHANGED <<status, boot, lost>>
    BY <1>5 DEF Parse, CommandKilled, LogOutput, LogFail, AllDone, CommandEnds,
                DescendantEnds, CommandRejected, aux
  <2>2. \E from \in Executing \ {"finish"}, to \in Executing : At(r, from, to)
    BY <1>5 DEF Parse, CommandKilled, LogOutput, LogFail, AllDone, CommandEnds,
                DescendantEnds, CommandRejected
  <2> QED
    BY <1>0, <2>1, <2>2
<1>6. CASE CommandLingers(r) \/ Expire(r)
  BY <1>6 DEF CommandLingers, Expire, worker, aux
<1> QED
  BY <1>1, <1>2, <1>3, <1>4, <1>5, <1>6 DEF Work, Command

LEMMA WorkerStep ==
    ASSUME TypeOK, WorkerInv, NeverStranded, [Next]_vars
    PROVE  WorkerInv' /\ NeverStranded'
<1>1. ASSUME NEW r \in Runs, Trigger(r) \/ Work(r) \/ Command(r) \/ Expire(r)
      PROVE  WorkerInv' /\ NeverStranded'
  <2>1. CASE UNCHANGED <<status, pc, boot, lost>>
    BY <2>1 DEF WorkerInv, NeverStranded
  <2>2. ASSUME NEW from \in Busy \cup {"none"}, NEW to \in Busy \cup {"done"}, NEW s,
               Moves(r, from, to, s), lost \subseteq lost',
               boot = "up" \/ from # "none",
               s \in RunStatus,
               to = "start" => s = "queued",
               to = "abort" => s \in {"queued", "running"},
               to \in Executing => s = "running",
               to = "done" => s \notin Unfinished \/ r \in lost'
        PROVE  WorkerInv' /\ NeverStranded'
    <3>1. boot = "up" /\ boot' = "up"
      BY <2>2 DEF Moves, WorkerInv
    <3>2. ASSUME NEW q \in Runs
          PROVE  /\ status'[q] = IF q = r THEN s ELSE status[q]
                 /\ pc'[q] = IF q = r THEN to ELSE pc[q]
      BY <2>2 DEF Moves, TypeOK
    <3>3. WorkerInv'
      BY <2>2, <3>1, <3>2 DEF WorkerInv
    <3>4. NeverStranded'
      BY <2>2, <3>1, <3>2 DEF NeverStranded
    <3> QED
      BY <3>3, <3>4
  <2>3. pc[r] = "abort" => status[r] \in RunStatus
    BY DEF WorkerInv
  <2>4. pc[r] \in Executing => status[r] = "running"
    BY DEF WorkerInv
  <2>5. result[r] \in {"success", "failure"}
    BY DEF TypeOK
  <2>6. CASE boot = "up" /\ lost' = lost /\ Moves(r, "none", "start", "queued")
    BY <2>2, <2>6
  <2>14. CASE boot = "up" /\ lost' = lost \cup {r} /\ Moves(r, "none", "done", "queued")
    BY <2>2, <2>14
  <2>7. CASE lost' = lost /\ Moves(r, "start", "context", "running")
    BY <2>2, <2>7
  <2>8. CASE lost' = lost /\ \E s \in {"queued", "running"} : Moves(r, "start", "abort", s)
    BY <2>2, <2>8
  <2>9. CASE Moves(r, "abort", "done", "failure") /\ lost' = lost
    BY <2>2, <2>9
  <2>10. CASE Moves(r, "abort", "done", status[r]) /\ lost' = lost \cup {r}
    <3>1. status[r] \in RunStatus
      BY <2>3, <2>10 DEF Moves
    <3> QED
      BY <2>2, <2>10, <3>1
  <2>11. CASE Moves(r, "finish", "done", result[r]) /\ lost' = lost
    BY <2>2, <2>5, <2>11
  <2>12. CASE Moves(r, "finish", "done", status[r]) /\ lost' = lost \cup {r}
    <3>1. status[r] \in RunStatus
      BY <2>4, <2>12 DEF Moves
    <3> QED
      BY <2>2, <2>12, <3>1
  <2>13. CASE /\ lost' = lost
              /\ \E from \in Executing \ {"finish"}, to \in Executing :
                    Moves(r, from, to, status[r])
    <3>1. PICK from \in Executing \ {"finish"}, to \in Executing :
             Moves(r, from, to, status[r])
      BY <2>13
    <3>2. status[r] = "running"
      BY <2>4, <3>1 DEF Moves
    <3> QED
      BY <2>2, <2>13, <3>1, <3>2
  <2> QED
    BY <1>1, RowEffects, <2>1, <2>6, <2>7, <2>8, <2>9, <2>10, <2>11, <2>12, <2>13, <2>14
<1>2. CASE Down
  BY <1>2 DEF Down, WorkerInv, NeverStranded, TypeOK
<1>3. CASE Normalize
  BY <1>3 DEF Normalize, WorkerInv, NeverStranded, TypeOK, worker
<1>4. CASE Reconcile
  BY <1>4 DEF Reconcile, Reconciled, WorkerInv, NeverStranded, TypeOK, worker
<1>5. CASE BootFails
  BY <1>5 DEF BootFails, WorkerInv, NeverStranded, worker
<1>6. CASE UNCHANGED vars
  BY <1>6 DEF vars, worker, aux, WorkerInv, NeverStranded
<1> QED
  BY <1>1, <1>2, <1>3, <1>4, <1>5, <1>6 DEF Next, Start
-----------------------------------------------------------------------------
(* Logs.                                                                   *)

(* The log of n + 1 successful steps is the log of n and one more record.  *)
LEMMA OneMoreOutput ==
    ASSUME NEW n \in Nat
    PROVE  Append(Outputs(n), <<n + 1, "output">>) = Outputs(n + 1)
<1>1. Outputs(n) \in Seq(Nat \X {"output"}) /\ Len(Outputs(n)) = n
  BY DEF Outputs
<1>3. \A i \in 1..n : Outputs(n)[i] = <<i, "output">>
  BY DEF Outputs
<1> DEFINE a == Append(Outputs(n), <<n + 1, "output">>)
<1>5. a \in Seq(Nat \X {"output"}) /\ Len(a) = n + 1
  BY <1>1
<1>6. \A i \in 1..(n + 1) : a[i] = <<i, "output">>
  BY <1>1, <1>3
<1> HIDE DEF a
<1>7. a = [i \in 1..(n + 1) |-> a[i]]
  BY <1>5
<1>8. a = Outputs(n + 1)
  BY <1>6, <1>7 DEF Outputs
<1> QED
  BY <1>8 DEF a

(* LogInv and SuccessEarned of one run.                                    *)
LogOf(r) ==
    /\ Promising(r) =>
          /\ result[r] = "success" /\ r \notin bad
          /\ \A i \in DOMAIN logs[r] : logs[r][i][2] = "output"
          /\ r \in expired \/ faults > 0 \/ logs[r] = Outputs(step[r])
    /\ pc[r] = "log" => step[r] < Steps
    /\ pc[r] = "logFail" => result[r] = "failure" /\ step[r] < Steps
    /\ pc[r] = "finish" /\ result[r] = "success" => step[r] = Steps

EarnedBy(r) ==
    status[r] = "success" =>
        /\ step[r] = Steps /\ r \notin bad
        /\ \A i \in DOMAIN logs[r] : logs[r][i][2] = "output"
        /\ r \in expired \/ faults > 0 \/ logs[r] = Outputs(Steps)

(* A step leaves the log of run q, and all it says about it, alone.        *)
Untouched(q) ==
    /\ step'[q] = step[q] /\ result'[q] = result[q] /\ logs'[q] = logs[q]
    /\ q \in bad' <=> q \in bad
    /\ q \in expired => q \in expired'
    /\ faults > 0 => faults' > 0

LEMMA UntouchedKeeps ==
    ASSUME NEW q \in Runs, Untouched(q), LogOf(q), EarnedBy(q),
           pc'[q] \in {pc[q], "done"}, status'[q] = "success" => status[q] = "success"
    PROVE  LogOf(q)' /\ EarnedBy(q)'
BY DEF Untouched, LogOf, EarnedBy, Promising

(* The goroutine of one run leaves the other runs alone.                   *)
LEMMA OthersUntouched ==
    ASSUME TypeOK, NEW r \in Runs, NEW q \in Runs, q # r,
           Trigger(r) \/ Work(r) \/ Command(r) \/ Expire(r)
    PROVE  Untouched(q) /\ pc'[q] = pc[q] /\ status'[q] = status[q]
<1> USE DEF At, Untouched, aux, bounds
<1>0. faults \in Nat
  BY CiciBounds DEF TypeOK
<1>1. CASE Trigger(r)
  BY <1>0, <1>1 DEF Trigger, Fault, TypeOK
<1>2. CASE StartRun(r)
  BY <1>0, <1>2 DEF StartRun, Started, Fault, TypeOK
<1>3. CASE Abort(r)
  BY <1>0, <1>3 DEF Abort, Finished, Fault, TypeOK
<1>4. CASE Finish(r)
  BY <1>0, <1>4 DEF Finish, Finished, Fault, TypeOK
<1>5. CASE Parse(r)
  BY <1>5 DEF Parse, Outcome, TypeOK
<1>6. CASE \/ CommandKilled(r) \/ CommandEnds(r) \/ DescendantEnds(r)
           \/ CommandRejected(r)
  BY <1>6 DEF CommandKilled, CommandEnds, DescendantEnds, CommandRejected, Outcome,
              TypeOK
<1>7. CASE LogOutput(r)
  <2>1. logs'[q] = logs[q] /\ (faults > 0 => faults' > 0)
    BY <1>0, <1>7 DEF LogOutput, AppendLog, Fault, TypeOK
  <2> QED
    BY <1>7, <2>1 DEF LogOutput, TypeOK
<1>8. CASE LogFail(r)
  <2>1. logs'[q] = logs[q] /\ (faults > 0 => faults' > 0)
    BY <1>0, <1>8 DEF LogFail, AppendLog, Fault, TypeOK
  <2> QED
    BY <1>8, <2>1 DEF LogFail, TypeOK
<1>9. CASE AllDone(r)
  BY <1>9 DEF AllDone, TypeOK
<1>10. CASE CommandLingers(r) \/ Expire(r)
  BY <1>10 DEF CommandLingers, Expire, worker
<1> QED
  BY <1>1, <1>2, <1>3, <1>4, <1>5, <1>6, <1>7, <1>8, <1>9, <1>10 DEF Work, Command

(* A record appended to the log of a run that has logged outputs only.     *)
LEMMA OutputAppended ==
    ASSUME TypeOK, NEW r \in Runs, step[r] < Steps, AppendLog(r, "output"),
           expired' = expired,
           \A i \in DOMAIN logs[r] : logs[r][i][2] = "output",
           r \in expired \/ faults > 0 \/ logs[r] = Outputs(step[r])
    PROVE  /\ \A i \in DOMAIN logs'[r] : logs'[r][i][2] = "output"
           /\ r \in expired' \/ faults' > 0 \/ logs'[r] = Outputs(step[r] + 1)
<1> DEFINE e == <<step[r] + 1, "output">>
<1>0. faults \in Nat /\ step[r] \in Nat /\ logs[r] \in Seq(Log)
  BY CiciBounds, StepsAssumption DEF TypeOK
<1>1. CASE r \notin expired /\ logs' = [logs EXCEPT ![r] = Append(logs[r], e)] /\ UNCHANGED bounds
  <2>1. logs'[r] = Append(logs[r], e) /\ faults' = faults
    BY <1>1 DEF TypeOK, bounds
  <2>2. e[2] = "output"
    OBVIOUS
  <2>3. e \in Log
    BY <1>0, StepsAssumption DEF Log
  <2>4. logs[r] = Outputs(step[r]) => logs'[r] = Outputs(step[r] + 1)
    BY <1>0, <2>1, OneMoreOutput
  <2> HIDE DEF e
  <2>5. \A i \in DOMAIN logs'[r] : \/ i \in DOMAIN logs[r] /\ logs'[r][i] = logs[r][i]
                                  \/ logs'[r][i] = e
    BY <1>0, <2>1, <2>3
  <2> QED
    BY <2>1, <2>2, <2>4, <2>5
<1>2. CASE r \in expired /\ UNCHANGED <<logs, bounds>>
  BY <1>2
<1>3. CASE Fault /\ UNCHANGED logs
  BY <1>0, <1>3 DEF Fault
<1> QED
  BY <1>1, <1>2, <1>3 DEF AppendLog
LEMMA LogStep ==
    ASSUME IInv, [Next]_vars
    PROVE  LogInv' /\ SuccessEarned'
<1>0. TypeOK /\ WorkerInv /\ \A q \in Runs : LogOf(q) /\ EarnedBy(q)
  BY DEF IInv, LogInv, SuccessEarned, LogOf, EarnedBy
<1>1. faults \in Nat
  BY <1>0, CiciBounds DEF TypeOK
<1> SUFFICES \A q \in Runs : LogOf(q)' /\ EarnedBy(q)'
  BY DEF LogInv, SuccessEarned, LogOf, EarnedBy, Promising
<1>2. ASSUME NEW r \in Runs, Trigger(r) \/ Work(r) \/ Command(r) \/ Expire(r)
      PROVE  LogOf(r)' /\ EarnedBy(r)'
  <2> USE DEF At, aux, bounds
  <2>0. /\ pc[r] \in Executing => status[r] = "running"
        /\ pc[r] = "start" => status[r] = "queued"
        /\ pc[r] = "abort" => status[r] \in {"queued", "running"}
    BY <1>0 DEF WorkerInv
  <2>1. CASE Trigger(r)
    <3>1. /\ Untouched(r) /\ pc[r] = "none" /\ pc'[r] \in {"start", "done"}
          /\ status'[r] = "queued"
      BY <1>0, <1>1, <2>1 DEF Trigger, Fault, Untouched, TypeOK
    <3> QED
      BY <1>0, <3>1 DEF Untouched, LogOf, EarnedBy, Promising
  <2>2. CASE StartRun(r)
    <3>1. /\ Untouched(r) /\ pc[r] = "start" /\ pc'[r] \in {"context", "abort"}
          /\ status'[r] \in {"queued", "running"}
      BY <1>0, <1>1, <2>0, <2>2 DEF StartRun, Started, Fault, Untouched, TypeOK
    <3> QED
      BY <1>0, <3>1 DEF Untouched, LogOf, EarnedBy, Promising
  <2>3. CASE Abort(r)
    <3>1. Untouched(r) /\ pc'[r] = "done" /\ status'[r] # "success"
      BY <1>0, <1>1, <2>0, <2>3 DEF Abort, Finished, Fault, Untouched, TypeOK
    <3> QED
      BY <1>0, <3>1, UntouchedKeeps
  <2>4. CASE Parse(r)
    <3>1. /\ pc[r] = "context" /\ status'[r] = "running"
          /\ UNCHANGED <<logs, step, expired, faults>>
      BY <2>0, <2>4 DEF Parse
    <3>2. \/ pc'[r] = "exec" /\ UNCHANGED <<result, bad>>
          \/ pc'[r] = "finish" /\ result'[r] = "failure"
      BY <1>0, <2>4 DEF Parse, Outcome, TypeOK
    <3> QED
      BY <1>0, <3>1, <3>2 DEF LogOf, EarnedBy, Promising
  <2>5. CASE \/ CommandEnds(r) \/ DescendantEnds(r) \/ CommandKilled(r)
             \/ CommandRejected(r)
    <3>1. /\ pc[r] = "exec" /\ status'[r] = "running" /\ step[r] < Steps
          /\ UNCHANGED <<logs, step, expired, faults>>
      BY <2>0, <2>5 DEF CommandEnds, DescendantEnds, CommandKilled, CommandRejected
    <3>2. \/ pc'[r] = "log" /\ result'[r] = "success" /\ bad' = bad
          \/ pc'[r] \in {"log", "logFail"} /\ result'[r] = "failure"
      BY <1>0, <2>5 DEF CommandEnds, DescendantEnds, CommandKilled, CommandRejected,
                        Outcome, TypeOK
    <3> QED
      BY <1>0, <3>1, <3>2 DEF LogOf, EarnedBy, Promising
  <2>6. CASE LogOutput(r)
    <3>1. /\ pc[r] = "log" /\ status'[r] = "running" /\ AppendLog(r, "output")
          /\ UNCHANGED <<result, expired, bad>>
      BY <2>0, <2>6 DEF LogOutput
    <3>2. step[r] < Steps
      BY <1>0, <3>1 DEF LogOf
    <3>3. CASE result[r] = "success"
      <4>1. pc'[r] = "exec" /\ step'[r] = step[r] + 1
        BY <1>0, <2>6, <3>3 DEF LogOutput, TypeOK
      <4>2. /\ r \notin bad
            /\ \A i \in DOMAIN logs[r] : logs[r][i][2] = "output"
            /\ r \in expired \/ faults > 0 \/ logs[r] = Outputs(step[r])
        BY <1>0, <3>1, <3>3 DEF LogOf, Promising
      <4>3. /\ \A i \in DOMAIN logs'[r] : logs'[r][i][2] = "output"
            /\ r \in expired' \/ faults' > 0 \/ logs'[r] = Outputs(step[r] + 1)
        BY <1>0, <3>1, <3>2, <4>2, OutputAppended
      <4> QED
        BY <3>1, <3>3, <4>1, <4>2, <4>3 DEF LogOf, EarnedBy, Promising
    <3>4. CASE result[r] # "success"
      <4>1. pc'[r] = "logFail" /\ step' = step /\ result[r] = "failure"
        BY <1>0, <2>6, <3>4 DEF LogOutput, TypeOK
      <4> QED
        BY <3>1, <3>2, <4>1 DEF LogOf, EarnedBy, Promising
    <3> QED
      BY <3>3, <3>4
  <2>7. CASE LogFail(r)
    <3>1. /\ pc[r] = "logFail" /\ status'[r] = "running" /\ pc'[r] = "finish"
          /\ UNCHANGED <<result, step>>
      BY <1>0, <2>0, <2>7 DEF LogFail, TypeOK
    <3> QED
      BY <1>0, <3>1 DEF LogOf, EarnedBy, Promising
  <2>8. CASE AllDone(r)
    <3>1. /\ pc[r] = "exec" /\ pc'[r] = "finish" /\ step[r] = Steps
          /\ status'[r] = "running"
          /\ UNCHANGED <<logs, step, result, expired, bad, faults>>
      BY <1>0, <2>0, <2>8 DEF AllDone, TypeOK
    <3> QED
      BY <1>0, <3>1 DEF LogOf, EarnedBy, Promising
  <2>9. CASE Finish(r)
    <3>1. /\ Untouched(r) /\ pc[r] = "finish" /\ pc'[r] = "done"
          /\ status'[r] = "success" => result[r] = "success"
      BY <1>0, <1>1, <2>0, <2>9 DEF Finish, Finished, Fault, Untouched, TypeOK
    <3> QED
      BY <1>0, <3>1 DEF Untouched, LogOf, EarnedBy, Promising
  <2>10. CASE CommandLingers(r) \/ Expire(r)
    <3>1. Untouched(r) /\ UNCHANGED <<pc, status>>
      BY <2>10 DEF CommandLingers, Expire, worker, Untouched
    <3> QED
      BY <1>0, <3>1, UntouchedKeeps
  <2> QED
    BY <1>2, <2>1, <2>2, <2>3, <2>4, <2>5, <2>6, <2>7, <2>8, <2>9, <2>10
    DEF Work, Command
<1>3. ASSUME NEW r \in Runs, Trigger(r) \/ Work(r) \/ Command(r) \/ Expire(r),
             NEW q \in Runs
      PROVE  LogOf(q)' /\ EarnedBy(q)'
  <2>1. CASE q = r
    BY <1>2, <1>3, <2>1
  <2>2. CASE q # r
    <3>1. Untouched(q) /\ pc'[q] = pc[q] /\ status'[q] = status[q]
      BY <1>0, <1>3, <2>2, OthersUntouched
    <3> QED
      BY <1>0, <3>1, UntouchedKeeps
  <2> QED
    BY <2>1, <2>2
<1>4. ASSUME Down \/ Start \/ BootFails \/ UNCHANGED vars, NEW q \in Runs
      PROVE  LogOf(q)' /\ EarnedBy(q)'
  <2>1. Untouched(q)
    BY <1>1, <1>4 DEF Down, Start, Normalize, Reconcile, BootFails, Fault, vars,
                      worker, aux, bounds, Untouched
  <2>2. status'[q] = "success" => status[q] = "success"
    BY <1>4 DEF Down, Start, Normalize, Reconcile, Reconciled, BootFails, vars
  <2>3. pc'[q] \in {pc[q], "done"}
    BY <1>0, <1>4 DEF Down, Start, Normalize, Reconcile, BootFails, vars, worker,
                      WorkerInv
  <2> QED
    BY <1>0, <2>1, <2>2, <2>3, UntouchedKeeps
<1> QED
  BY <1>3, <1>4 DEF Next

-----------------------------------------------------------------------------
(* The invariant and what follows from it.                                 *)

LEMMA Invariance == Spec => []IInv
<1>1. Init => IInv
  <2> SUFFICES ASSUME Init PROVE IInv
    OBVIOUS
  <2>1. <<>> \in Seq(Log) /\ <<>> = Outputs(0)
    BY DEF Outputs
  <2>2. TypeOK
    BY <2>1, StepsAssumption, CiciBounds DEF Init, TypeOK
  <2>3. WorkerInv /\ NeverStranded /\ SuccessEarned
    BY DEF Init, WorkerInv, NeverStranded, SuccessEarned
  <2>4. LogInv
    <3>1. ASSUME NEW r \in Runs
          PROVE  /\ logs[r] = <<>> /\ step[r] = 0 /\ result[r] = "success" /\ bad = {}
                 /\ pc[r] \in {"none", "done"}
      BY DEF Init
    <3>2. DOMAIN <<>> = {}
      OBVIOUS
    <3> QED
      BY <2>1, <3>1, <3>2 DEF LogInv, Promising
  <2> QED
    BY <2>2, <2>3, <2>4 DEF IInv
<1>2. IInv /\ [Next]_vars => IInv'
  BY TypeStep, WorkerStep, LogStep DEF IInv
<1> QED
  BY <1>1, <1>2, PTL DEF Spec

(* No step beyond the last is run or logged, only known program points are *)
(* reached.                                                                *)
THEOREM TypeCorrect == Spec => []TypeOK
<1>1. IInv => TypeOK
  BY DEF IInv
<1> QED
  BY <1>1, Invariance, PTL

(* While BigBase serves, an unfinished run has a goroutine, or its final   *)
(* write failed: reconcileOrphanedRuns leaves none behind.                 *)
THEOREM NoRunStranded == Spec => []NeverStranded
<1>1. IInv => NeverStranded
  BY DEF IInv
<1> QED
  BY <1>1, Invariance, PTL

(* A run reported as success has done every step, none failed, and its log *)
(* is complete unless the deadline or the database cut it.                 *)
THEOREM SuccessIsEarned == Spec => []SuccessEarned
<1>1. IInv => SuccessEarned
  BY DEF IInv
<1> QED
  BY <1>1, Invariance, PTL

(* Nothing is logged for a run whose status is final.                      *)
THEOREM LogsEndFirst == Spec => LogsBeforeEnd
<1>1. IInv /\ [Next]_vars =>
         [\A r \in Runs : logs'[r] # logs[r] => status[r] = "running"]_vars
  <2> SUFFICES ASSUME IInv, Next, NEW q \in Runs, logs'[q] # logs[q]
               PROVE  status[q] = "running"
    OBVIOUS
  <2>1. TypeOK /\ WorkerInv
    BY DEF IInv
  <2>2. PICK r \in Runs : Trigger(r) \/ Work(r) \/ Command(r) \/ Expire(r)
    BY DEF Next, Down, Start, Normalize, Reconcile, BootFails
  <2>3. q = r
    BY <2>1, <2>2, OthersUntouched DEF Untouched
  <2>4. LogOutput(r) \/ LogFail(r)
    BY <2>2, <2>3 DEF Work, Command, Trigger, StartRun, Abort, Parse, CommandKilled,
       AllDone, Finish, CommandEnds, CommandLingers, DescendantEnds, CommandRejected,
       Expire
  <2>5. pc[r] \in Executing
    BY <2>4 DEF LogOutput, LogFail, At
  <2> QED
    BY <2>1, <2>3, <2>5 DEF WorkerInv
<1> QED
  BY <1>1, Invariance, PTL DEF Spec, LogsBeforeEnd

-----------------------------------------------------------------------------
(* Refinement.                                                             *)

(* A run's own step takes its row along an edge of the lifecycle.          *)
LEMMA LifecycleStep ==
    ASSUME IInv, [Next]_vars
    PROVE  [Lifecycle!Next]_Reported
<1> USE DEF Lifecycle!RunStatus, Lifecycle!NoRun, Lifecycle!CanTransition,
            Lifecycle!RunTransitions
<1>0. TypeOK /\ WorkerInv
  BY DEF IInv
<1>1. \A r \in Runs : Reported[r] = NormalizeRunStatus(status[r])
  BY DEF Reported
<1>2. \A r \in Runs : Reported'[r] = NormalizeRunStatus(status[r])'
  BY DEF Reported
<1>3. ASSUME \A r \in Runs : status'[r] = status[r] \/ Reported'[r] = Reported[r]
      PROVE  Reported' = Reported
  BY <1>1, <1>2, <1>3 DEF Reported, NormalizeRunStatus
<1>4. Reported' \in [Runs -> Lifecycle!RunStatus \cup {Lifecycle!NoRun}]
  <2>1. TypeOK'
    BY TypeStep DEF IInv
  <2> QED
    BY <2>1 DEF TypeOK, Reported, NormalizeRunStatus
<1>5. ASSUME \A r \in Runs : Reported'[r] # Reported[r] =>
                Lifecycle!CanTransition(Reported[r], Reported'[r])
      PROVE  Lifecycle!Move
  BY <1>4, <1>5 DEF Lifecycle!Move
<1>6. ASSUME NEW r \in Runs, Trigger(r) \/ Work(r) \/ Command(r) \/ Expire(r)
      PROVE  [Lifecycle!Next]_Reported
  <2>1. CASE UNCHANGED status
    BY <1>3, <2>1
  <2>2. ASSUME NEW from, NEW to, NEW s, Moves(r, from, to, s)
        PROVE  \A q \in Runs : status'[q] = IF q = r THEN s ELSE status[q]
    BY <1>0, <2>2 DEF Moves, TypeOK
  <2>3. CASE /\ boot = "up"
             /\ Moves(r, "none", "start", "queued") \/ Moves(r, "none", "done", "queued")
    <3>1. status[r] = NoRun
      BY <1>0, <2>3 DEF WorkerInv, Moves
    <3>2. Reported' = [Reported EXCEPT ![r] = "queued"] /\ Reported[r] = NoRun
      BY <2>2, <2>3, <3>1 DEF Reported, NormalizeRunStatus
    <3> QED
      BY <3>2 DEF Lifecycle!Next, Lifecycle!Queue
  <2>4. ASSUME NEW from, NEW to, NEW s, Moves(r, from, to, s),
               s = status[r] \/ Lifecycle!CanTransition(status[r], s),
               status[r] # legacyPendingStatus, s # legacyPendingStatus
        PROVE  [Lifecycle!Next]_Reported
    <3>1. \A q \in Runs : Reported'[q] # Reported[q] =>
             Lifecycle!CanTransition(Reported[q], Reported'[q])
      BY <1>1, <1>2, <2>2, <2>4 DEF NormalizeRunStatus
    <3> QED
      BY <1>5, <3>1 DEF Lifecycle!Next
  <2>5. /\ pc[r] \in Executing => status[r] = "running"
        /\ pc[r] = "start" => status[r] = "queued"
        /\ pc[r] = "abort" => status[r] \in {"queued", "running"}
        /\ result[r] \in {"success", "failure"}
    BY <1>0 DEF WorkerInv, TypeOK
  <2>11. /\ Lifecycle!CanTransition("queued", "running")
        /\ Lifecycle!CanTransition("queued", "failure")
        /\ Lifecycle!CanTransition("running", "success")
        /\ Lifecycle!CanTransition("running", "failure")
    OBVIOUS
  <2> HIDE DEF Lifecycle!CanTransition, Lifecycle!RunTransitions
  <2>6. CASE Moves(r, "start", "context", "running")
    <3>1. status[r] = "queued"
      BY <2>5, <2>6 DEF Moves
    <3> QED
      BY <2>4, <2>6, <2>11, <3>1
  <2>7. CASE \E s \in {"queued", "running"} : Moves(r, "start", "abort", s)
    <3>1. PICK s \in {"queued", "running"} : Moves(r, "start", "abort", s)
      BY <2>7
    <3>2. status[r] = "queued"
      BY <2>5, <3>1 DEF Moves
    <3> QED
      BY <2>4, <2>11, <3>1, <3>2
  <2>8. CASE \/ Moves(r, "abort", "done", "failure")
             \/ Moves(r, "abort", "done", status[r])
    <3>1. status[r] \in {"queued", "running"}
      BY <2>5, <2>8 DEF Moves
    <3> QED
      BY <2>4, <2>8, <2>11, <3>1
  <2>9. CASE \/ Moves(r, "finish", "done", result[r])
             \/ Moves(r, "finish", "done", status[r])
    <3>1. status[r] = "running" /\ result[r] \in {"success", "failure"}
      BY <2>5, <2>9 DEF Moves
    <3> QED
      BY <2>4, <2>9, <2>11, <3>1
  <2>10. CASE \E from \in Executing \ {"finish"}, to \in Executing :
                 Moves(r, from, to, status[r])
    <3>1. PICK from \in Executing \ {"finish"}, to \in Executing :
             Moves(r, from, to, status[r])
      BY <2>10
    <3>2. status[r] = "running"
      BY <2>5, <3>1 DEF Moves
    <3> QED
      BY <2>4, <3>1, <3>2
  <2> QED
    BY <1>0, <1>6, RowEffects, <2>1, <2>3, <2>6, <2>7, <2>8, <2>9, <2>10
<1>7. CASE Normalize
  BY <1>1, <1>2, <1>3, <1>7 DEF Normalize, NormalizeRunStatus
<1>8. CASE Reconcile
  <2>1. \A r \in Runs : Reported'[r] # Reported[r] =>
           Lifecycle!CanTransition(Reported[r], Reported'[r])
    BY <1>0, <1>1, <1>2, <1>8 DEF Reconcile, Reconciled, NormalizeRunStatus, TypeOK
  <2> QED
    BY <1>5, <2>1 DEF Lifecycle!Next
<1>9. CASE Down \/ BootFails \/ UNCHANGED vars
  BY <1>3, <1>9 DEF Down, BootFails, vars
<1> QED
  BY <1>6, <1>7, <1>8, <1>9 DEF Next, Start

(* What GET /api/cici/runs reports is the lifecycle of RunLifecycle: a run *)
(* ends once and a final status stays, through failures and restarts.      *)
THEOREM LifecycleRefinement == Spec => ImplementsLifecycle
<1>1. Init => Lifecycle!Init
  BY DEF Init, Lifecycle!Init, Lifecycle!NoRun, Reported, NormalizeRunStatus
<1> QED
  BY <1>1, Invariance, LifecycleStep, PTL DEF Spec, ImplementsLifecycle, Lifecycle!Spec
=============================================================================
