---------------------- MODULE DeployTransitionsProofs -----------------------
(***************************************************************************)
(* Proofs about DeployTransitions for every set of writers, every retry    *)
(* budget and every bound on calls and failures.                           *)
(***************************************************************************)
EXTENDS DeployTransitions, TLAPS

USE DEF DeploymentState, LegacyStatus, RowStatus, NoRow, ForceTarget, Idle,
        ForceSteps, AppendSteps, Critical, Labels, Exists

(* Every local variable of a call keeps its type when the call begins or   *)
(* returns.                                                                *)
LEMMA FreshType ==
    ASSUME TypeOK, NEW w \in Writers, NEW to \in DeploymentState, Fresh(w, to)
    PROVE  /\ target' \in [Writers -> DeploymentState]
           /\ seen' \in [Writers -> RowStatus]
           /\ attempt' \in [Writers -> 0..(transitionMaxAttempts - 1)]
           /\ snap' \in [Writers -> Seq(Entry)]
           /\ num' \in [Writers -> Nat]
<1>1. <<>> \in Seq(Entry)
  OBVIOUS
<1> QED
  BY <1>1, AttemptsAssumption DEF TypeOK, Fresh

(* A change of the row is typed, and so is the number it gets.             *)
LEMMA ApplyType ==
    ASSUME TypeOK, Exists, NEW w \in Writers, NEW forced \in BOOLEAN,
           Apply(w, forced)
    PROVE  /\ status' \in RowStatus
           /\ applied' \in Seq(Change)
           /\ num' \in [Writers -> Nat]
<1> DEFINE c == [from |-> status, to |-> target[w], forced |-> forced]
<1>1. c \in Change
  BY DEF TypeOK, Change
<1>2. applied' = Append(applied, c) /\ applied \in Seq(Change)
  BY DEF Apply, TypeOK
<1> HIDE DEF c
<1>3. applied' \in Seq(Change)
  BY <1>1, <1>2
<1>4. Len(applied) + 1 \in Nat
  BY DEF TypeOK
<1> QED
  BY <1>3, <1>4 DEF Apply, TypeOK

(* Every step keeps every variable's type.                                 *)
LEMMA TypeStep == TypeOK /\ [Next]_vars => TypeOK'
<1> SUFFICES ASSUME TypeOK, [Next]_vars PROVE TypeOK'
  OBVIOUS
<1> USE DEF Goto
<1>1. ASSUME NEW w \in Writers, Call(w) PROVE TypeOK'
  <2>1. PICK to \in DeploymentState, l \in Labels : Begin(w, to, l)
    BY <1>1 DEF Call
  <2> QED
    BY <1>1, <2>1, FreshType, BoundsAssumption DEF TypeOK, Call, Begin
<1>2. ASSUME NEW w \in Writers, ReadStatus(w) PROVE TypeOK'
  <2>1. CASE Exists /\ MayTransition(status, target[w])
    <3>1. /\ seen' = [seen EXCEPT ![w] = status]
          /\ pc' = [pc EXCEPT ![w] = "cas"]
          /\ UNCHANGED <<target, attempt, snap, num>>
      BY <1>2, <2>1 DEF ReadStatus, Return, Fresh
    <3> QED
      BY <1>2, <2>1, <3>1 DEF TypeOK, ReadStatus
  <2>2. CASE ~(Exists /\ MayTransition(status, target[w]))
    BY <1>2, <2>2, FreshType DEF TypeOK, ReadStatus, Return
  <2> QED
    BY <2>1, <2>2
<1>3. ASSUME NEW w \in Writers, CompareAndSwap(w) PROVE TypeOK'
  <2>1. CASE status = seen[w]
    <3>1. Exists
      BY <2>1 DEF TypeOK
    <3>2. Apply(w, FALSE)
      BY <1>3, <2>1 DEF CompareAndSwap
    <3> QED
      BY <1>3, <2>1, <3>1, <3>2, ApplyType DEF TypeOK, CompareAndSwap, Apply
  <2>2. CASE status # seen[w] /\ attempt[w] + 1 < transitionMaxAttempts
    <3>1. attempt[w] + 1 \in 0..(transitionMaxAttempts - 1)
      BY <2>2, AttemptsAssumption DEF TypeOK
    <3>2. /\ attempt' = [attempt EXCEPT ![w] = attempt[w] + 1]
          /\ pc' = [pc EXCEPT ![w] = "read"]
          /\ UNCHANGED <<status, applied, target, seen, snap, num>>
      BY <1>3, <2>2, <3>1, AttemptsAssumption DEF CompareAndSwap, Return, Fresh, Apply
    <3> QED
      BY <1>3, <2>2, <3>1, <3>2 DEF TypeOK, CompareAndSwap
  <2>3. CASE status # seen[w] /\ ~(attempt[w] + 1 < transitionMaxAttempts)
    BY <1>3, <2>3, FreshType DEF TypeOK, CompareAndSwap, Return
  <2> QED
    BY <2>1, <2>2, <2>3
<1>4. ASSUME NEW w \in Writers, LockHistory(w) PROVE TypeOK'
  BY <1>4 DEF TypeOK, LockHistory, locals
<1>5. ASSUME NEW w \in Writers, LockForce(w) PROVE TypeOK'
  BY <1>5 DEF TypeOK, LockForce, locals
<1>6. ASSUME NEW w \in Writers, ForceRead(w) PROVE TypeOK'
  <2>1. CASE status \notin {NoRow, target[w]}
    <3>1. /\ seen' = [seen EXCEPT ![w] = status]
          /\ pc' = [pc EXCEPT ![w] = "forceWrite"]
          /\ UNCHANGED <<mu, target, attempt, snap, num>>
      BY <1>6, <2>1 DEF ForceRead, Return, Fresh
    <3> QED
      BY <1>6, <2>1, <3>1 DEF TypeOK, ForceRead
  <2>2. CASE status \in {NoRow, target[w]}
    BY <1>6, <2>2, FreshType DEF TypeOK, ForceRead, Return
  <2> QED
    BY <2>1, <2>2
<1>7. ASSUME NEW w \in Writers, ForceWrite(w) PROVE TypeOK'
  <2>1. CASE Exists
    <3>1. Apply(w, TRUE)
      BY <1>7, <2>1 DEF ForceWrite
    <3> QED
      BY <1>7, <2>1, <3>1, ApplyType DEF TypeOK, ForceWrite, Apply
  <2>2. CASE ~Exists
    BY <1>7, <2>2, FreshType DEF TypeOK, ForceWrite, Return
  <2> QED
    BY <2>1, <2>2
<1>8. ASSUME NEW w \in Writers, AppendDone(w)
      PROVE  /\ mu' \in SUBSET Writers
             /\ pc' \in [Writers -> Labels]
             /\ target' \in [Writers -> DeploymentState]
             /\ seen' \in [Writers -> RowStatus]
             /\ attempt' \in [Writers -> 0..(transitionMaxAttempts - 1)]
             /\ snap' \in [Writers -> Seq(Entry)]
             /\ num' \in [Writers -> Nat]
  <2>1. CASE pc[w] \in AppendSteps
    <3>1. <<>> \in Seq(Entry)
      OBVIOUS
    <3> QED
      BY <1>8, <2>1, <3>1 DEF TypeOK, AppendDone
  <2>2. CASE pc[w] \notin AppendSteps
    BY <1>8, <2>2, FreshType DEF TypeOK, AppendDone, Return
  <2> QED
    BY <2>1, <2>2
<1>9. ASSUME NEW w \in Writers, AppendRead(w) PROVE TypeOK'
  <2>0. UNCHANGED <<status, history, applied, emitted, calls, faults>>
    BY <1>9 DEF AppendRead
  <2>1. CASE Exists
    <3>1. PICK label \in {"appendWrite", "forceAppendWrite"} :
             pc' = [pc EXCEPT ![w] = label]
      BY <1>9, <2>1 DEF AppendRead, Goto
    <3>2. /\ snap' = [snap EXCEPT ![w] = history]
          /\ UNCHANGED <<lost, mu, target, seen, attempt, num>>
      BY <1>9, <2>1 DEF AppendRead
    <3>3. pc' \in [Writers -> Labels] /\ snap' \in [Writers -> Seq(Entry)]
      <4>1. label \in Labels
        BY <3>1 DEF Labels, Critical, AppendSteps, ForceSteps
      <4> QED
        BY <3>1, <3>2, <4>1 DEF TypeOK
    <3> QED
      BY <2>0, <3>2, <3>3 DEF TypeOK
  <2>2. CASE ~Exists
    <3>1. AppendDone(w) /\ lost' = lost \cup {num[w]}
      BY <1>9, <2>2 DEF AppendRead
    <3>2. lost' \in SUBSET Nat
      BY <3>1 DEF TypeOK
    <3> QED
      BY <2>0, <3>1, <3>2, <1>8 DEF TypeOK
  <2> QED
    BY <2>1, <2>2
<1>10. ASSUME NEW w \in Writers, AppendWrite(w) PROVE TypeOK'
  <2> DEFINE e == [from |-> seen[w], to |-> target[w], n |-> num[w]]
  <2>1. e \in Entry
    BY DEF TypeOK, Entry
  <2>2. history' = Append(snap[w], e) \/ history' = history
    BY <1>10 DEF AppendWrite
  <2> HIDE DEF e
  <2>3. history' \in Seq(Entry)
    <3>1. snap[w] \in Seq(Entry) /\ history \in Seq(Entry)
      BY DEF TypeOK
    <3>2. Append(snap[w], e) \in Seq(Entry)
      BY <2>1, <3>1
    <3> QED
      BY <2>2, <3>1, <3>2
  <2>4. lost' \in SUBSET Nat
    <3>1. lost' = lost \/ lost' = lost \cup {num[w]}
      BY <1>10 DEF AppendWrite
    <3>2. num[w] \in Nat /\ lost \in SUBSET Nat
      BY DEF TypeOK
    <3> QED
      BY <3>1, <3>2
  <2>6. faults' \in 0..MaxFaults
    BY <1>10, BoundsAssumption DEF TypeOK, AppendWrite
  <2>5. AppendDone(w)
    BY <1>10 DEF AppendWrite
  <2> QED
    BY <1>10, <2>3, <2>4, <2>5, <2>6, <1>8 DEF TypeOK, AppendWrite
<1>11. ASSUME NEW w \in Writers, Emit(w) PROVE TypeOK'
  BY <1>11, FreshType DEF TypeOK, Emit, Return
<1>12. ASSUME NEW w \in Writers, RawFail(w) PROVE TypeOK'
  BY <1>12, FreshType DEF TypeOK, RawFail, Return
<1>13. ASSUME NEW w \in Writers, StatementFails(w) PROVE TypeOK'
  BY <1>13, FreshType, BoundsAssumption DEF TypeOK, StatementFails, Return
<1>14. CASE DeleteRow
  <2>1. <<>> \in Seq(Entry)
    OBVIOUS
  <2> QED
    BY <1>14, <2>1, BoundsAssumption DEF TypeOK, DeleteRow, locals
<1>15. CASE UNCHANGED vars
  BY <1>15 DEF TypeOK, vars, locals
<1> QED
  BY <1>1, <1>2, <1>3, <1>4, <1>5, <1>6, <1>7, <1>9, <1>10, <1>11, <1>12,
     <1>13, <1>14, <1>15 DEF Next, Step

(* Status and history stay well-formed, the attempt of TransitionState's   *)
(* loop stays below its budget, only known program points are reached.     *)
THEOREM TypeCorrect == Spec => []TypeOK
<1>1. Init => TypeOK
  <2>1. <<>> \in Seq(Entry) /\ <<>> \in Seq(Change)
    OBVIOUS
  <2> QED
    BY <2>1, AttemptsAssumption, BoundsAssumption DEF Init, TypeOK
<1> QED
  BY <1>1, TypeStep, PTL DEF Spec

-----------------------------------------------------------------------------
(* The audit trail.                                                        *)

(* A step that leaves the trail alone and takes no change away from the    *)
(* writer that must record it.                                             *)
TrailKept ==
    /\ UNCHANGED <<history, applied, lost>>
    /\ Exists' => Exists
    /\ \A v \in Writers :
          /\ pc'[v] \in MustRecord <=> pc[v] \in MustRecord
          /\ pc[v] \in MustRecord =>
                num'[v] = num[v] /\ target'[v] = target[v] /\ seen'[v] = seen[v]
          /\ pc'[v] = "emit" => pc[v] = "emit" /\ num'[v] = num[v]
    /\ \A n \in emitted' : \/ n \in emitted
                           \/ \E v \in Writers : pc[v] = "emit" /\ num[v] = n

(* Such a step preserves everything the trail promises.                    *)
LEMMA KeepTrail ==
    ASSUME IInv, TypeOK', TrailKept
    PROVE  NumbersInv' /\ AuditComplete' /\ EntriesTruthful' /\ EventAfterRecord'
<1>1. NumbersInv'
  BY DEF IInv, NumbersInv, TrailKept, Recorded
<1>2. AuditComplete'
  BY DEF IInv, AuditComplete, TrailKept, Recorded, Pending
<1>3. EntriesTruthful'
  BY DEF IInv, EntriesTruthful, TrailKept
<1>4. EventAfterRecord'
  BY DEF IInv, EventAfterRecord, NumbersInv, TrailKept, Recorded
<1> QED
  BY <1>1, <1>2, <1>3, <1>4

(* A change of the row gets a number nobody has used.                      *)
LEMMA ApplyTrail ==
    ASSUME IInv, TypeOK', Exists, NEW w \in Writers, NEW forced \in BOOLEAN,
           NEW l \in {"lockHistory", "forceAppendRead"},
           pc[w] \notin MustRecord \cup {"emit"},
           forced \/ status = seen[w],
           Apply(w, forced), Goto(w, l),
           UNCHANGED <<history, lost, emitted>>
    PROVE  NumbersInv' /\ AuditComplete' /\ EntriesTruthful' /\ EventAfterRecord'
<1> DEFINE c == [from |-> status, to |-> target[w], forced |-> forced]
<1>1. /\ Len(applied') = Len(applied) + 1
      /\ \A n \in 1..Len(applied) : applied'[n] = applied[n]
      /\ applied'[Len(applied) + 1] = c
      /\ Len(applied) \in Nat
  BY DEF IInv, TypeOK, Apply
<1>2. c.to = target[w] /\ c.forced = forced /\ c.from = status
  OBVIOUS
<1> HIDE DEF c
<1>3. /\ num' = [num EXCEPT ![w] = Len(applied) + 1]
      /\ pc' = [pc EXCEPT ![w] = l]
      /\ UNCHANGED <<target, seen, history, lost, emitted>>
      /\ Exists'
      /\ l \in MustRecord
  BY DEF Apply, Goto, IInv, TypeOK, MustRecord
<1>9. \A v \in Writers : v # w => pc'[v] = pc[v] /\ num'[v] = num[v]
  BY <1>3 DEF IInv, TypeOK
<1>10. pc'[w] = l /\ num'[w] = Len(applied) + 1
  BY <1>3 DEF IInv, TypeOK
<1>4. \A i \in DOMAIN history : history[i].n \in 1..Len(applied)
  BY DEF IInv, EntriesTruthful
<1>5. NumbersInv'
  <2>1. ASSUME NEW v \in Writers, pc'[v] \in MustRecord
        PROVE  /\ num'[v] \in 1..Len(applied')
               /\ applied'[num'[v]].to = target'[v]
               /\ ~applied'[num'[v]].forced => applied'[num'[v]].from = seen'[v]
    <3>1. CASE v = w
      BY <1>1, <1>2, <1>3, <3>1 DEF IInv, TypeOK
    <3>2. CASE v # w
      <4>1. pc[v] \in MustRecord /\ num'[v] = num[v]
        BY <1>9, <2>1, <3>2
      <4>2. num[v] \in 1..Len(applied)
        BY <4>1 DEF IInv, NumbersInv
      <4>3. applied'[num[v]] = applied[num[v]]
        BY <1>1, <4>2
      <4>4. num[v] \in 1..Len(applied')
        BY <1>1, <4>2
      <4> QED
        BY <1>3, <4>1, <4>3, <4>4 DEF IInv, NumbersInv
    <3> QED
      BY <3>1, <3>2
  <2>2. ASSUME NEW u \in Writers, NEW v \in Writers, pc'[u] \in MustRecord,
               pc'[v] \in MustRecord, num'[u] = num'[v]
        PROVE  u = v
    <3>1. \A x \in Writers : x # w /\ pc'[x] \in MustRecord =>
              num'[x] = num[x] /\ num[x] \in 1..Len(applied)
      BY <1>3 DEF IInv, NumbersInv, TypeOK
    <3>2. num'[w] = Len(applied) + 1
      BY <1>3 DEF IInv, TypeOK
    <3>3. CASE u # w /\ v # w
      BY <1>9, <2>2, <3>3 DEF IInv, NumbersInv
    <3>4. CASE u = w /\ v # w
      BY <1>1, <2>2, <3>1, <3>2, <3>4
    <3>5. CASE u # w /\ v = w
      BY <1>1, <2>2, <3>1, <3>2, <3>5
    <3> QED
      BY <3>3, <3>4, <3>5
  <2>3. ASSUME NEW v \in Writers, pc'[v] = "emit"
        PROVE  Recorded(num[v])' \/ num'[v] \in lost'
    <3>1. v # w
      BY <1>10, <2>3
    <3>2. pc[v] = "emit" /\ num'[v] = num[v]
      BY <1>9, <2>3, <3>1
    <3> QED
      BY <1>3, <3>2 DEF IInv, NumbersInv, Recorded
  <2> QED
    BY <2>1, <2>2, <2>3 DEF NumbersInv, Recorded
<1>6. AuditComplete'
  <2>1. ASSUME NEW n \in 1..Len(applied')
        PROVE  \/ Recorded(n)' \/ n \in lost'
               \/ \E v \in Writers : Pending(v, n)'
    <3>1. CASE n = Len(applied) + 1
      BY <1>3, <3>1 DEF Pending, IInv, TypeOK
    <3>2. CASE n # Len(applied) + 1
      <4>1. n \in 1..Len(applied)
        BY <1>1, <3>2
      <4>2. CASE \E v \in Writers : Pending(v, n)
        <5>1. PICK v \in Writers : Pending(v, n)
          BY <4>2
        <5>2. v # w
          BY <5>1 DEF Pending
        <5> QED
          BY <1>3, <5>1, <5>2 DEF Pending, IInv, TypeOK
      <4>3. CASE Recorded(n) \/ n \in lost
        BY <1>3, <4>3 DEF Recorded
      <4> QED
        BY <4>1, <4>2, <4>3 DEF IInv, AuditComplete
    <3> QED
      BY <3>1, <3>2
  <2>2. ASSUME NEW i \in DOMAIN history', NEW v \in Writers
        PROVE  ~Pending(v, history[i].n)'
    <3>1. CASE v = w
      BY <1>1, <1>3, <1>4, <3>1 DEF Pending, IInv, TypeOK
    <3>2. CASE v # w
      <4>1. ~Pending(v, history[i].n)
        BY <1>3 DEF IInv, AuditComplete
      <4> QED
        BY <1>3, <1>9, <3>2, <4>1 DEF Pending
    <3> QED
      BY <3>1, <3>2
  <2>3. \A i, j \in DOMAIN history' : history'[i].n = history'[j].n => i = j
    BY <1>3 DEF IInv, AuditComplete
  <2> QED
    BY <2>1, <2>2, <2>3 DEF AuditComplete
<1>7. EntriesTruthful'
  BY <1>1, <1>3, <1>4 DEF IInv, EntriesTruthful
<1>8. EventAfterRecord'
  BY <1>3 DEF IInv, EventAfterRecord, Recorded
<1> QED
  BY <1>5, <1>6, <1>7, <1>8

(* What AppendDone does to the program counter and the change number.      *)
LEMMA AppendDoneStep ==
    ASSUME TypeOK, NEW w \in Writers, pc[w] \in MustRecord, AppendDone(w)
    PROVE  /\ \A v \in Writers : v # w =>
                /\ pc'[v] = pc[v]
                /\ num'[v] = num[v]
                /\ target'[v] = target[v]
                /\ seen'[v] = seen[v]
                /\ snap'[v] = snap[v]
           /\ pc'[w] \in {"emit", Idle}
           /\ pc'[w] = "emit" => num'[w] = num[w]
           /\ mu' = mu \ {w}
<1>1. CASE pc[w] \in AppendSteps
  BY <1>1 DEF TypeOK, AppendDone, Goto
<1>2. CASE pc[w] \notin AppendSteps
  BY <1>2 DEF TypeOK, AppendDone, Goto, Return, Fresh
<1> QED
  BY <1>1, <1>2

(* A successful append moves one change from its writer into the history.  *)
LEMMA AppendTrail ==
    ASSUME IInv, TypeOK', NEW w \in Writers,
           pc[w] \in {"appendWrite", "forceAppendWrite"}, Exists,
           history' = Append(snap[w], [from |-> seen[w], to |-> target[w],
                                       n |-> num[w]]),
           AppendDone(w), UNCHANGED <<status, applied, lost, emitted>>
    PROVE  NumbersInv' /\ AuditComplete' /\ EntriesTruthful' /\ EventAfterRecord'
<1> DEFINE e == [from |-> seen[w], to |-> target[w], n |-> num[w]]
<1>1. snap[w] = history
  BY DEF IInv, SnapshotCurrent
<1>2. e.from = seen[w] /\ e.to = target[w] /\ e.n = num[w]
  OBVIOUS
<1>3. history' = Append(history, e)
  BY <1>1
<1>4. /\ Len(history) \in Nat
      /\ DOMAIN history = 1..Len(history)
      /\ DOMAIN history' = 1..(Len(history) + 1)
      /\ \A i \in 1..Len(history) : history'[i] = history[i]
      /\ history'[Len(history) + 1] = e
  <2>1. history \in Seq(Entry) /\ e \in Entry
    BY DEF IInv, TypeOK, Entry
  <2> HIDE DEF e
  <2> QED
    BY <1>3, <2>1
<1> HIDE DEF e
<1>5. pc[w] \in MustRecord
  BY DEF MustRecord
<1>6. /\ \A v \in Writers : v # w =>
              /\ pc'[v] = pc[v]
              /\ num'[v] = num[v]
              /\ target'[v] = target[v]
              /\ seen'[v] = seen[v]
      /\ pc'[w] \in {"emit", Idle}
      /\ pc'[w] = "emit" => num'[w] = num[w]
  BY <1>5, AppendDoneStep DEF IInv
<1>7. pc'[w] \notin MustRecord
  BY <1>6 DEF MustRecord
<1>8. \A n : Recorded(n)' <=> Recorded(n) \/ n = num[w]
  <2> SUFFICES ASSUME NEW n
               PROVE  (\E i \in DOMAIN history' : history'[i].n = n)
                        <=> (\E i \in DOMAIN history : history[i].n = n)
                              \/ n = num[w]
    BY DEF Recorded
  <2>1. ASSUME NEW i \in DOMAIN history', history'[i].n = n
        PROVE  (\E j \in DOMAIN history : history[j].n = n) \/ n = num[w]
    <3>1. CASE i \in 1..Len(history)
      BY <1>4, <2>1, <3>1
    <3>2. CASE i = Len(history) + 1
      BY <1>2, <1>4, <2>1, <3>2
    <3> QED
      BY <1>4, <3>1, <3>2
  <2>2. ASSUME NEW i \in DOMAIN history, history[i].n = n
        PROVE  i \in DOMAIN history' /\ history'[i].n = n
    BY <1>4, <2>2
  <2>3. Len(history) + 1 \in DOMAIN history' /\ history'[Len(history) + 1].n = num[w]
    BY <1>2, <1>4
  <2> QED
    BY <2>1, <2>2, <2>3
<1>9. NumbersInv'
  <2>1. ASSUME NEW v \in Writers, pc'[v] \in MustRecord
        PROVE  v # w /\ pc[v] \in MustRecord
    BY <1>6, <1>7, <2>1
  <2>2. ASSUME NEW v \in Writers, pc'[v] = "emit"
        PROVE  Recorded(num[v])' \/ num'[v] \in lost'
    <3>1. CASE v = w
      BY <1>6, <1>2, <1>4, <2>2, <3>1 DEF Recorded
    <3>2. CASE v # w
      <4>1. pc[v] = "emit" /\ num'[v] = num[v]
        BY <1>6, <2>2, <3>2
      <4>2. Recorded(num[v]) \/ num[v] \in lost
        BY <4>1 DEF IInv, NumbersInv
      <4> QED
        BY <4>1, <4>2, <1>4 DEF Recorded
    <3> QED
      BY <3>1, <3>2
  <2> QED
    BY <1>6, <2>1, <2>2 DEF IInv, NumbersInv, Recorded
<1>10. AuditComplete'
  <2>1. ASSUME NEW n \in 1..Len(applied')
        PROVE  \/ Recorded(n)' \/ n \in lost'
               \/ \E v \in Writers : Pending(v, n)'
    <3>1. CASE Recorded(n) \/ n \in lost \/ n = num[w]
      BY <1>8, <3>1
    <3>2. CASE ~(Recorded(n) \/ n \in lost \/ n = num[w])
      <4>1. PICK v \in Writers : Pending(v, n)
        BY <2>1, <3>2 DEF IInv, AuditComplete
      <4> QED
        BY <1>6, <3>2, <4>1 DEF Pending
    <3> QED
      BY <3>1, <3>2
  <2>2. ASSUME NEW i \in DOMAIN history', NEW j \in DOMAIN history',
               history'[i].n = history'[j].n
        PROVE  i = j
    <3>1. \A k \in 1..Len(history) : history'[k].n # num[w]
      BY <1>4, <1>5 DEF IInv, AuditComplete, Pending
    <3>2. CASE i \in 1..Len(history) /\ j \in 1..Len(history)
      BY <1>4, <2>2, <3>2 DEF IInv, AuditComplete
    <3> QED
      BY <1>2, <1>4, <2>2, <3>1, <3>2
  <2>3. ASSUME NEW i \in DOMAIN history', NEW v \in Writers
        PROVE  ~Pending(v, history[i].n)'
    <3>1. CASE v = w
      BY <1>7, <3>1 DEF Pending
    <3>2. CASE v # w /\ i \in 1..Len(history)
      <4>1. ~Pending(v, history[i].n)
        BY <1>4, <3>2 DEF IInv, AuditComplete
      <4> QED
        BY <1>4, <1>6, <3>2, <4>1 DEF Pending
    <3>3. CASE v # w /\ i = Len(history) + 1
      <4>1. pc[v] \in MustRecord => num[v] # num[w]
        BY <1>5, <3>3 DEF IInv, NumbersInv
      <4> QED
        BY <1>2, <1>4, <1>6, <3>3, <4>1 DEF Pending
    <3> QED
      BY <1>4, <3>1, <3>2, <3>3
  <2> QED
    BY <2>1, <2>2, <2>3 DEF AuditComplete
<1>11. EntriesTruthful'
  <2>1. /\ num[w] \in 1..Len(applied)
        /\ applied[num[w]].to = target[w]
        /\ ~applied[num[w]].forced => applied[num[w]].from = seen[w]
    BY <1>5 DEF IInv, NumbersInv
  <2> QED
    BY <1>2, <1>4, <2>1 DEF IInv, EntriesTruthful
<1>12. EventAfterRecord'
  BY <1>8 DEF IInv, EventAfterRecord
<1> QED
  BY <1>9, <1>10, <1>11, <1>12

(* An append that fails, or finds the row deleted, gives its change up.    *)
LEMMA LoseTrail ==
    ASSUME IInv, TypeOK', NEW w \in Writers, pc[w] \in MustRecord,
           lost' = lost \cup {num[w]}, AppendDone(w),
           UNCHANGED <<status, history, applied, emitted>>
    PROVE  NumbersInv' /\ AuditComplete' /\ EntriesTruthful' /\ EventAfterRecord'
<1>1. /\ \A v \in Writers : v # w =>
              /\ pc'[v] = pc[v]
              /\ num'[v] = num[v]
              /\ target'[v] = target[v]
              /\ seen'[v] = seen[v]
      /\ pc'[w] \in {"emit", Idle}
      /\ pc'[w] = "emit" => num'[w] = num[w]
  BY AppendDoneStep DEF IInv
<1>2. pc'[w] \notin MustRecord
  BY <1>1 DEF MustRecord
<1>3. NumbersInv'
  <2>1. ASSUME NEW v \in Writers, pc'[v] \in MustRecord
        PROVE  v # w /\ pc[v] \in MustRecord
    BY <1>1, <1>2, <2>1
  <2>2. ASSUME NEW v \in Writers, pc'[v] = "emit", Exists'
        PROVE  Recorded(num[v])' \/ num'[v] \in lost'
    BY <1>1, <2>2 DEF IInv, NumbersInv, Recorded
  <2> QED
    BY <1>1, <2>1, <2>2 DEF IInv, NumbersInv, Recorded
<1>4. AuditComplete'
  BY <1>1, <1>2 DEF IInv, AuditComplete, Recorded, Pending
<1>5. EntriesTruthful'
  BY DEF IInv, EntriesTruthful
<1>6. EventAfterRecord'
  BY DEF IInv, EventAfterRecord, Recorded
<1> QED
  BY <1>3, <1>4, <1>5, <1>6

(* A step of w that leaves the column and the other writers alone keeps    *)
(* the lock discipline, if w holds the lock exactly in critical sections.  *)
LEMMA LockStep ==
    ASSUME IInv, NEW w \in Writers,
           \A v \in Writers : v # w => pc'[v] = pc[v] /\ snap'[v] = snap[v],
           history' = history, Exists' => Exists,
           \/ mu' = mu /\ (pc'[w] \in Critical <=> pc[w] \in Critical)
           \/ mu' = mu \ {w} /\ pc'[w] \notin Critical,
           pc'[w] \in {"appendWrite", "forceAppendWrite"} => snap'[w] = history
    PROVE  LockInv' /\ SnapshotCurrent'
<1>1. LockInv'
  BY DEF IInv, LockInv
<1>2. SnapshotCurrent'
  BY DEF IInv, SnapshotCurrent
<1> QED
  BY <1>1, <1>2

(* Every step of every writer preserves the invariant.                     *)
LEMMA IInvStep == IInv /\ [Next]_vars => IInv'
<1> SUFFICES ASSUME IInv, [Next]_vars PROVE IInv'
  OBVIOUS
<1>0. TypeOK /\ TypeOK'
  BY TypeStep DEF IInv
<1> USE DEF Goto
<1>1. ASSUME NEW w \in Writers, Call(w) PROVE IInv'
  <2>1. PICK to \in DeploymentState, l \in {"read", "lockForce", "raw"} :
            Begin(w, to, l)
    BY <1>1 DEF Call
  <2>2. /\ pc[w] = Idle /\ pc'[w] = l
        /\ UNCHANGED <<status, history, mu, applied, lost, emitted>>
        /\ \A v \in Writers : v # w => /\ pc'[v] = pc[v]
                                       /\ snap'[v] = snap[v]
                                       /\ num'[v] = num[v]
                                       /\ target'[v] = target[v]
                                       /\ seen'[v] = seen[v]
    BY <1>0, <1>1, <2>1 DEF TypeOK, Call, Begin, Fresh
  <2>3. LockInv' /\ SnapshotCurrent'
    BY <2>2, LockStep
  <2>4. TrailKept
    BY <2>2 DEF TrailKept, MustRecord
  <2> QED
    BY <1>0, <2>3, <2>4, KeepTrail DEF IInv
<1>2. ASSUME NEW w \in Writers, ReadStatus(w) PROVE IInv'
  <2>1. /\ pc[w] = "read" /\ pc'[w] \in {"cas", Idle}
        /\ UNCHANGED <<status, history, mu, applied, lost, emitted>>
        /\ \A v \in Writers : v # w => pc'[v] = pc[v] /\ snap'[v] = snap[v]
    <3>1. CASE Exists /\ MayTransition(status, target[w])
      BY <1>0, <1>2, <3>1 DEF TypeOK, ReadStatus, Return, Fresh
    <3>2. CASE ~(Exists /\ MayTransition(status, target[w]))
      BY <1>0, <1>2, <3>2 DEF TypeOK, ReadStatus, Return, Fresh
    <3> QED
      BY <3>1, <3>2
  <2>2. LockInv' /\ SnapshotCurrent'
    BY <2>1, LockStep
  <2>3. TrailKept
    BY <1>0, <1>2 DEF TrailKept, TypeOK, ReadStatus, Return, Fresh, MustRecord
  <2> QED
    BY <1>0, <2>2, <2>3, KeepTrail DEF IInv
<1>3. ASSUME NEW w \in Writers, CompareAndSwap(w) PROVE IInv'
  <2>1. pc[w] = "cas" /\ UNCHANGED <<history, mu, lost, emitted>>
    BY <1>3 DEF CompareAndSwap
  <2>2. CASE status = seen[w]
    <3>1. Exists
      BY <1>0, <2>2 DEF TypeOK
    <3>2. Apply(w, FALSE) /\ Goto(w, "lockHistory")
      BY <1>3, <2>2 DEF CompareAndSwap
    <3>3. /\ pc'[w] = "lockHistory"
          /\ \A v \in Writers : v # w => pc'[v] = pc[v] /\ snap'[v] = snap[v]
      BY <1>0, <3>2 DEF TypeOK, Apply
    <3>4. LockInv' /\ SnapshotCurrent'
      BY <2>1, <3>1, <3>3, LockStep
    <3>5. pc[w] \notin MustRecord \cup {"emit"}
      BY <2>1 DEF MustRecord
    <3> QED
      BY <1>0, <2>1, <2>2, <3>1, <3>2, <3>4, <3>5, ApplyTrail DEF IInv
  <2>3. CASE status # seen[w]
    <3>1. /\ UNCHANGED <<status, applied>>
          /\ \E l \in {"read", Idle} : pc' = [pc EXCEPT ![w] = l]
          /\ \A v \in Writers : v # w => /\ snap'[v] = snap[v]
                                         /\ num'[v] = num[v]
                                         /\ target'[v] = target[v]
                                         /\ seen'[v] = seen[v]
      <4>1. CASE attempt[w] + 1 < transitionMaxAttempts
        <5>1. /\ pc' = [pc EXCEPT ![w] = "read"]
              /\ UNCHANGED <<status, applied, target, seen, snap, num>>
          BY <1>0, <1>3, <2>3, <4>1, AttemptsAssumption
             DEF TypeOK, CompareAndSwap, Return, Fresh, Apply
        <5> QED
          BY <5>1
      <4>2. CASE ~(attempt[w] + 1 < transitionMaxAttempts)
        <5>1. Return(w) /\ UNCHANGED <<status, applied>>
          BY <1>3, <2>3, <4>2 DEF CompareAndSwap
        <5> QED
          BY <1>0, <5>1 DEF TypeOK, Return, Fresh
      <4> QED
        BY <4>1, <4>2
    <3>2. /\ pc'[w] \in {"read", Idle}
          /\ \A v \in Writers : v # w => pc'[v] = pc[v]
      BY <1>0, <3>1 DEF TypeOK
    <3>3. LockInv' /\ SnapshotCurrent'
      BY <2>1, <3>1, <3>2, LockStep
    <3>4. TrailKept
      BY <2>1, <3>1, <3>2 DEF TrailKept, MustRecord
    <3> QED
      BY <1>0, <3>3, <3>4, KeepTrail DEF IInv
  <2> QED
    BY <2>2, <2>3
<1>4. ASSUME NEW w \in Writers, LockHistory(w) PROVE IInv'
  <2>1. LockInv' /\ SnapshotCurrent'
    BY <1>0, <1>4 DEF IInv, LockInv, SnapshotCurrent, TypeOK, LockHistory, locals
  <2>2. TrailKept
    BY <1>0, <1>4 DEF TrailKept, TypeOK, LockHistory, locals, MustRecord
  <2> QED
    BY <1>0, <2>1, <2>2, KeepTrail DEF IInv
<1>5. ASSUME NEW w \in Writers, LockForce(w) PROVE IInv'
  <2>1. LockInv' /\ SnapshotCurrent'
    BY <1>0, <1>5 DEF IInv, LockInv, SnapshotCurrent, TypeOK, LockForce, locals
  <2>2. TrailKept
    BY <1>0, <1>5 DEF TrailKept, TypeOK, LockForce, locals, MustRecord
  <2> QED
    BY <1>0, <2>1, <2>2, KeepTrail DEF IInv
<1>6. ASSUME NEW w \in Writers, ForceRead(w) PROVE IInv'
  <2>1. pc[w] = "forceRead" /\ UNCHANGED <<status, history>>
    BY <1>6 DEF ForceRead
  <2>2. /\ \/ mu' = mu /\ pc'[w] = "forceWrite"
           \/ mu' = mu \ {w} /\ pc'[w] = Idle
        /\ \A v \in Writers : v # w => pc'[v] = pc[v] /\ snap'[v] = snap[v]
    <3>1. CASE status \notin {NoRow, target[w]}
      BY <1>0, <1>6, <3>1 DEF TypeOK, ForceRead, Return, Fresh
    <3>2. CASE status \in {NoRow, target[w]}
      BY <1>0, <1>6, <3>2 DEF TypeOK, ForceRead, Return, Fresh
    <3> QED
      BY <3>1, <3>2
  <2>3. LockInv' /\ SnapshotCurrent'
    BY <2>1, <2>2, LockStep
  <2>4. TrailKept
    BY <1>0, <1>6 DEF TrailKept, TypeOK, ForceRead, Return, Fresh, MustRecord
  <2> QED
    BY <1>0, <2>3, <2>4, KeepTrail DEF IInv
<1>7. ASSUME NEW w \in Writers, ForceWrite(w) PROVE IInv'
  <2>1. pc[w] = "forceWrite" /\ UNCHANGED <<history, lost, emitted>>
    BY <1>7 DEF ForceWrite
  <2>2. CASE Exists
    <3>1. Apply(w, TRUE) /\ Goto(w, "forceAppendRead") /\ UNCHANGED mu
      BY <1>7, <2>2 DEF ForceWrite
    <3>2. /\ pc'[w] = "forceAppendRead"
          /\ \A v \in Writers : v # w => pc'[v] = pc[v] /\ snap'[v] = snap[v]
      BY <1>0, <3>1 DEF TypeOK, Apply
    <3>3. LockInv' /\ SnapshotCurrent'
      BY <2>1, <2>2, <3>1, <3>2, LockStep
    <3>4. pc[w] \notin MustRecord \cup {"emit"}
      BY <2>1 DEF MustRecord
    <3> QED
      BY <1>0, <2>1, <2>2, <3>1, <3>3, <3>4, ApplyTrail DEF IInv
  <2>3. CASE ~Exists
    <3>1. mu' = mu \ {w} /\ Return(w) /\ UNCHANGED <<status, applied>>
      BY <1>7, <2>3 DEF ForceWrite
    <3>2. /\ pc'[w] = Idle
          /\ \A v \in Writers : v # w => /\ pc'[v] = pc[v]
                                         /\ snap'[v] = snap[v]
                                         /\ num'[v] = num[v]
                                         /\ target'[v] = target[v]
                                         /\ seen'[v] = seen[v]
      BY <1>0, <3>1 DEF TypeOK, Return, Fresh
    <3>3. LockInv' /\ SnapshotCurrent'
      BY <2>1, <3>1, <3>2, LockStep
    <3>4. TrailKept
      BY <2>1, <3>1, <3>2 DEF TrailKept, MustRecord
    <3> QED
      BY <1>0, <3>3, <3>4, KeepTrail DEF IInv
  <2> QED
    BY <2>2, <2>3
<1>8. ASSUME NEW w \in Writers, pc[w] \in Critical, pc[w] \in MustRecord,
             AppendDone(w), status' = status, history' = history \/ mu = {w}
      PROVE  LockInv' /\ SnapshotCurrent'
  <2>1. /\ \A v \in Writers : v # w => pc'[v] = pc[v] /\ snap'[v] = snap[v]
        /\ pc'[w] \in {"emit", Idle}
        /\ mu' = mu \ {w}
    BY <1>0, <1>8, AppendDoneStep
  <2>2. mu = {w}
    BY <1>8 DEF IInv, LockInv
  <2>3. LockInv'
    BY <2>1, <2>2 DEF IInv, LockInv
  <2>4. \A v \in Writers : pc'[v] \notin Critical
    BY <2>1, <2>2 DEF IInv, LockInv
  <2>5. SnapshotCurrent'
    BY <2>4 DEF SnapshotCurrent
  <2> QED
    BY <2>3, <2>5
<1>9. ASSUME NEW w \in Writers, AppendRead(w) PROVE IInv'
  <2>0. pc[w] \in Critical /\ pc[w] \in MustRecord
    BY <1>9 DEF AppendRead, MustRecord
  <2>1. CASE Exists
    <3>0. /\ UNCHANGED <<status, history, mu>>
          /\ pc'[w] \in {"appendWrite", "forceAppendWrite"}
          /\ snap'[w] = history
          /\ \A v \in Writers : v # w => pc'[v] = pc[v] /\ snap'[v] = snap[v]
      BY <1>0, <1>9, <2>1 DEF TypeOK, AppendRead
    <3>1. LockInv' /\ SnapshotCurrent'
      BY <2>0, <3>0, LockStep
    <3>2. TrailKept
      BY <1>0, <1>9, <2>1 DEF TrailKept, TypeOK, AppendRead, MustRecord
    <3> QED
      BY <1>0, <3>1, <3>2, KeepTrail DEF IInv
  <2>2. CASE ~Exists
    <3>1. /\ lost' = lost \cup {num[w]} /\ AppendDone(w)
          /\ UNCHANGED <<status, history, applied, emitted>>
      BY <1>9, <2>2 DEF AppendRead
    <3> QED
      BY <1>0, <1>8, <2>0, <3>1, LoseTrail DEF IInv
  <2> QED
    BY <2>1, <2>2
<1>10. ASSUME NEW w \in Writers, AppendWrite(w) PROVE IInv'
  <2>1. /\ pc[w] \in {"appendWrite", "forceAppendWrite"}
        /\ pc[w] \in Critical /\ pc[w] \in MustRecord
        /\ AppendDone(w)
        /\ UNCHANGED <<status, applied, emitted>>
    BY <1>10 DEF AppendWrite, MustRecord
  <2>2. mu = {w}
    BY <2>1 DEF IInv, LockInv
  <2>3. LockInv' /\ SnapshotCurrent'
    BY <1>8, <2>1, <2>2
  <2>4. \/ /\ Exists
           /\ history' = Append(snap[w], [from |-> seen[w], to |-> target[w],
                                          n |-> num[w]])
           /\ lost' = lost
        \/ lost' = lost \cup {num[w]} /\ history' = history
    BY <1>10 DEF AppendWrite, AppendDone, Return, Fresh
  <2> QED
    BY <1>0, <2>1, <2>3, <2>4, AppendTrail, LoseTrail DEF IInv
<1>11. ASSUME NEW w \in Writers, Emit(w) PROVE IInv'
  <2>1. LockInv' /\ SnapshotCurrent'
    BY <1>0, <1>11 DEF IInv, LockInv, SnapshotCurrent, TypeOK, Emit, Return, Fresh
  <2>2. TrailKept
    BY <1>0, <1>11 DEF TrailKept, TypeOK, Emit, Return, Fresh, MustRecord
  <2> QED
    BY <1>0, <2>1, <2>2, KeepTrail DEF IInv
<1>12. ASSUME NEW w \in Writers, RawFail(w) PROVE IInv'
  <2>1. LockInv' /\ SnapshotCurrent'
    BY <1>0, <1>12 DEF IInv, LockInv, SnapshotCurrent, TypeOK, RawFail, Return,
                       Fresh
  <2>2. TrailKept
    BY <1>0, <1>12 DEF TrailKept, TypeOK, RawFail, Return, Fresh, MustRecord
  <2> QED
    BY <1>0, <2>1, <2>2, KeepTrail DEF IInv
<1>13. ASSUME NEW w \in Writers, StatementFails(w) PROVE IInv'
  <2>1. LockInv' /\ SnapshotCurrent'
    BY <1>0, <1>13 DEF IInv, LockInv, SnapshotCurrent, TypeOK, StatementFails,
                       Return, Fresh
  <2>2. TrailKept
    BY <1>0, <1>13 DEF TrailKept, TypeOK, StatementFails, Return, Fresh,
                       MustRecord
  <2> QED
    BY <1>0, <2>1, <2>2, KeepTrail DEF IInv
<1>14. CASE DeleteRow
  <2>1. ~Exists' /\ history' = <<>> /\ UNCHANGED <<mu, pc, applied, target,
                                                 seen, num>>
    BY <1>14 DEF DeleteRow, locals
  <2>2. DOMAIN history' = {}
    BY <2>1
  <2> QED
    BY <1>0, <2>1, <2>2 DEF IInv, LockInv, SnapshotCurrent, NumbersInv,
                            AuditComplete, EntriesTruthful, EventAfterRecord
<1>15. CASE UNCHANGED vars
  <2>1. TrailKept
    BY <1>15 DEF TrailKept, vars, locals
  <2>2. LockInv' /\ SnapshotCurrent'
    BY <1>15 DEF IInv, LockInv, SnapshotCurrent, vars, locals
  <2> QED
    BY <1>0, <2>1, <2>2, KeepTrail DEF IInv
<1> QED
  BY <1>1, <1>2, <1>3, <1>4, <1>5, <1>6, <1>7, <1>9, <1>10, <1>11, <1>12,
     <1>13, <1>14, <1>15 DEF Next, Step

(* The invariant that makes AuditComplete inductive.                       *)
LEMMA Invariance == Spec => []IInv
<1>1. Init => IInv
  <2>1. Init => TypeOK
    <3>1. <<>> \in Seq(Entry) /\ <<>> \in Seq(Change)
      OBVIOUS
    <3> QED
      BY <3>1, AttemptsAssumption, BoundsAssumption DEF Init, TypeOK
  <2>2. Init => /\ LockInv /\ SnapshotCurrent /\ NumbersInv
                /\ AuditComplete /\ EntriesTruthful /\ EventAfterRecord
    BY DEF Init, LockInv, SnapshotCurrent, NumbersInv, AuditComplete,
           EntriesTruthful, EventAfterRecord, MustRecord
  <2> QED
    BY <2>1, <2>2 DEF IInv
<1> QED
  BY <1>1, IInvStep, PTL DEF Spec

(* While the row exists, every change made by TransitionState or by        *)
(* forceStatus is in status_history exactly once, or one goroutine is on   *)
(* its way to write it, or the database refused it: concurrent goroutines  *)
(* lose no entry and write none twice (state_transitions.go:89-93).        *)
THEOREM AuditTrailComplete == Spec => []AuditComplete
<1>1. IInv => AuditComplete
  BY DEF IInv
<1> QED
  BY <1>1, Invariance, PTL

(* The entries are true: a TransitionState entry has the source and the    *)
(* target of the change it records (state_transitions.go:83-87), and a     *)
(* forceStatus entry the target.                                           *)
THEOREM AuditTrailTruthful == Spec => []EntriesTruthful
<1>1. IInv => EntriesTruthful
  BY DEF IInv
<1> QED
  BY <1>1, Invariance, PTL

(* Together: the trail is complete and its entries are true, whatever      *)
(* races and whatever fails in between (TransitionState, forceStatus).     *)
THEOREM AuditTrailSound == Spec => []AuditSound
<1>1. AuditComplete /\ EntriesTruthful => AuditSound
  BY DEF AuditSound
<1> QED
  BY <1>1, AuditTrailComplete, AuditTrailTruthful, PTL

(* deploy.state_changed comes after the entry it announces                 *)
(* (state_transitions.go:91-108).                                          *)
THEOREM EventsFollowTrail == Spec => []EventAfterRecord
<1>1. IInv => EventAfterRecord
  BY DEF IInv
<1> QED
  BY <1>1, Invariance, PTL

-----------------------------------------------------------------------------
(* The refinement.                                                         *)

(* A step that only w takes, and that keeps what w may still do.           *)
LEMMA RequestKept ==
    ASSUME TypeOK, RequestInv, NEW w \in Writers,
           \A v \in Writers : v # w => /\ pc'[v] = pc[v]
                                       /\ target'[v] = target[v]
                                       /\ seen'[v] = seen[v],
           pc'[w] = "cas" => MayTransition(seen'[w], target'[w]),
           pc'[w] \in ForceSteps \cup {"lockForce"} => target'[w] = ForceTarget
    PROVE  RequestInv'
BY DEF RequestInv

LEMMA RequestStep == TypeOK /\ RequestInv /\ [Next]_vars => RequestInv'
<1> SUFFICES ASSUME TypeOK, RequestInv, [Next]_vars PROVE RequestInv'
  OBVIOUS
<1> USE DEF Goto
<1>0. ASSUME NEW w \in Writers, Return(w) PROVE RequestInv'
  <2>1. pc'[w] = Idle /\ \A v \in Writers : v # w => /\ pc'[v] = pc[v]
                                                     /\ target'[v] = target[v]
                                                     /\ seen'[v] = seen[v]
    BY <1>0 DEF TypeOK, Return, Fresh
  <2> QED
    BY <2>1, RequestKept
<1>1. ASSUME NEW w \in Writers, NEW l \in Labels \ {"cas"},
             pc' = [pc EXCEPT ![w] = l], UNCHANGED <<target, seen>>,
             \/ l \notin ForceSteps \cup {"lockForce"}
             \/ pc[w] \in ForceSteps \cup {"lockForce"}
      PROVE  RequestInv'
  <2>1. pc'[w] = l /\ \A v \in Writers : v # w => pc'[v] = pc[v]
    BY <1>1 DEF TypeOK
  <2> QED
    BY <1>1, <2>1, RequestKept DEF RequestInv
<1>2. ASSUME NEW w \in Writers, Call(w) PROVE RequestInv'
  <2>1. PICK to \in DeploymentState, l \in {"read", "lockForce", "raw"} :
            Begin(w, to, l) /\ (l = "lockForce" => to = ForceTarget)
    BY <1>2 DEF Call
  <2>2. /\ pc'[w] = l /\ target'[w] = to
        /\ \A v \in Writers : v # w => /\ pc'[v] = pc[v]
                                       /\ target'[v] = target[v]
                                       /\ seen'[v] = seen[v]
    BY <2>1 DEF TypeOK, Begin, Fresh
  <2> QED
    BY <2>1, <2>2, RequestKept
<1>3. ASSUME NEW w \in Writers, ReadStatus(w) PROVE RequestInv'
  <2>1. CASE Exists /\ MayTransition(status, target[w])
    <3>1. /\ seen' = [seen EXCEPT ![w] = status]
          /\ pc' = [pc EXCEPT ![w] = "cas"]
          /\ UNCHANGED target
      BY <1>3, <2>1 DEF ReadStatus, Return, Fresh
    <3>2. /\ pc'[w] = "cas" /\ seen'[w] = status /\ target'[w] = target[w]
          /\ \A v \in Writers : v # w => /\ pc'[v] = pc[v]
                                         /\ target'[v] = target[v]
                                         /\ seen'[v] = seen[v]
      BY <3>1 DEF TypeOK
    <3>3. MayTransition(seen'[w], target'[w])
      BY <2>1, <3>2
    <3> QED
      BY <3>2, <3>3, RequestKept
  <2>2. CASE ~(Exists /\ MayTransition(status, target[w]))
    <3>1. Return(w)
      BY <1>3, <2>2 DEF ReadStatus
    <3> QED
      BY <1>0, <3>1
  <2> QED
    BY <2>1, <2>2
<1>4. ASSUME NEW w \in Writers, CompareAndSwap(w) PROVE RequestInv'
  <2>1. \/ Return(w)
        \/ Goto(w, "lockHistory") /\ UNCHANGED <<target, seen>>
        \/ Goto(w, "read") /\ UNCHANGED <<target, seen>>
    BY <1>4 DEF CompareAndSwap, Apply
  <2> QED
    BY <1>0, <1>1, <2>1
<1>5. ASSUME NEW w \in Writers, LockHistory(w) \/ LockForce(w) PROVE RequestInv'
  BY <1>1, <1>5 DEF LockHistory, LockForce, locals
<1>6. ASSUME NEW w \in Writers, ForceRead(w) PROVE RequestInv'
  <2>1. CASE status \notin {NoRow, target[w]}
    <3>1. /\ seen' = [seen EXCEPT ![w] = status]
          /\ pc' = [pc EXCEPT ![w] = "forceWrite"]
          /\ UNCHANGED target /\ pc[w] = "forceRead"
      BY <1>6, <2>1 DEF ForceRead, Return, Fresh
    <3>2. /\ pc'[w] = "forceWrite" /\ target'[w] = ForceTarget
          /\ \A v \in Writers : v # w => /\ pc'[v] = pc[v]
                                         /\ target'[v] = target[v]
                                         /\ seen'[v] = seen[v]
      BY <3>1 DEF TypeOK, RequestInv
    <3> QED
      BY <3>2, RequestKept
  <2>2. CASE status \in {NoRow, target[w]}
    <3>1. Return(w)
      BY <1>6, <2>2 DEF ForceRead
    <3> QED
      BY <1>0, <3>1
  <2> QED
    BY <2>1, <2>2
<1>7. ASSUME NEW w \in Writers, ForceWrite(w) PROVE RequestInv'
  <2>1. \/ Return(w)
        \/ /\ Goto(w, "forceAppendRead") /\ UNCHANGED <<target, seen>>
           /\ pc[w] = "forceWrite"
    BY <1>7 DEF ForceWrite, Apply
  <2> QED
    BY <1>0, <1>1, <2>1
<1>8. ASSUME NEW w \in Writers, AppendDone(w) PROVE RequestInv'
  <2>1. \/ Return(w)
        \/ Goto(w, "emit") /\ UNCHANGED <<target, seen>>
    BY <1>8 DEF AppendDone
  <2> QED
    BY <1>0, <1>1, <2>1
<1>9. ASSUME NEW w \in Writers, AppendRead(w) PROVE RequestInv'
  <2>1. \/ AppendDone(w)
        \/ Goto(w, "appendWrite") /\ UNCHANGED <<target, seen>>
        \/ /\ Goto(w, "forceAppendWrite") /\ UNCHANGED <<target, seen>>
           /\ pc[w] = "forceAppendRead"
    BY <1>9 DEF AppendRead
  <2> QED
    BY <1>1, <1>8, <2>1
<1>10. ASSUME NEW w \in Writers,
              AppendWrite(w) \/ Emit(w) \/ RawFail(w) \/ StatementFails(w)
       PROVE  RequestInv'
  <2>1. AppendDone(w) \/ Return(w)
    BY <1>10 DEF AppendWrite, Emit, RawFail, StatementFails
  <2> QED
    BY <1>0, <1>8, <2>1
<1>11. CASE DeleteRow \/ UNCHANGED vars
  BY <1>11 DEF RequestInv, DeleteRow, vars, locals
<1> QED
  BY <1>2, <1>3, <1>4, <1>5, <1>6, <1>7, <1>9, <1>10, <1>11 DEF Next, Step

(* Every step is one step of the abstract status column, or none.          *)
LEMMA StatusStep ==
    TypeOK /\ RequestInv /\ [Next]_vars => [Abstract!Next]_status
<1> SUFFICES ASSUME TypeOK, RequestInv, [Next]_vars, status' # status
             PROVE  Abstract!Next
  BY DEF vars
<1> USE DEF Goto, Abstract!NoRow
<1>0. \A from, to : Abstract!MayTransition(from, to) <=> MayTransition(from, to)
  BY DEF MayTransition, CanTransition, IsValidState, ValidTransitions,
         Abstract!MayTransition, Abstract!CanTransition, Abstract!IsValidState,
         Abstract!ValidTransitions, Abstract!DeploymentState
<1>1. ASSUME NEW w \in Writers, CompareAndSwap(w) PROVE Abstract!Transition
  <2>1. /\ pc[w] = "cas" /\ status = seen[w] /\ status' = target[w]
    BY <1>1 DEF CompareAndSwap, Apply
  <2>2. MayTransition(status, target[w]) /\ status # NoRow
    BY <2>1 DEF TypeOK, RequestInv
  <2> QED
    BY <1>0, <2>1, <2>2 DEF TypeOK, Abstract!Transition,
                             Abstract!DeploymentState
<1>2. ASSUME NEW w \in Writers, ForceWrite(w) PROVE Abstract!ForceStop
  BY <1>2 DEF ForceWrite, Apply, RequestInv, Abstract!ForceStop
<1>3. ASSUME NEW w \in Writers, RawFail(w) PROVE Abstract!MarkFailed
  BY <1>3 DEF RawFail, Abstract!MarkFailed
<1>4. CASE DeleteRow
  BY <1>4 DEF DeleteRow, Abstract!Next, Abstract!Delete
<1>5. ASSUME NEW w \in Writers,
             \/ Call(w) \/ ReadStatus(w) \/ LockHistory(w) \/ LockForce(w)
             \/ ForceRead(w) \/ AppendRead(w) \/ AppendWrite(w) \/ Emit(w)
             \/ StatementFails(w)
      PROVE  FALSE
  BY <1>5 DEF Call, ReadStatus, LockHistory, LockForce, ForceRead, AppendRead,
              AppendWrite, Emit, StatementFails
<1>6. ~UNCHANGED vars
  BY DEF vars
<1> QED
  BY <1>1, <1>2, <1>3, <1>4, <1>5, <1>6 DEF Next, Step, Abstract!Next

(* TransitionState's compare-and-swap loop, forceStatus, the raw UPDATE    *)
(* and the DELETE, interleaved statement by statement, implement the       *)
(* atomic status column: nobody who reads a deployment's status ever sees  *)
(* a move that state_machine.go does not allow, other than a forced stop   *)
(* or a failed resume.                                                     *)
THEOREM StatusRefinement == Spec => ImplementsStatus
<1>1. Init => RequestInv /\ Abstract!Init
  BY DEF Init, RequestInv, Abstract!Init, Abstract!LegacyStatus
<1>2. Spec => []TypeOK
  BY TypeCorrect
<1> QED
  BY <1>1, <1>2, RequestStep, StatusStep, PTL DEF Spec, ImplementsStatus, Abstract!Spec
=============================================================================
