------------------------- MODULE DeployEngineProofs -------------------------
(***************************************************************************)
(* Proofs about DeployEngine for every set of deployments, every mix of    *)
(* processes and static sites, and any number of rollbacks, deletes,       *)
(* exits and restarts: its types, that no row says "running" with nothing  *)
(* behind it, and that the stop path owns the status of what it kills.     *)
(*                                                                         *)
(* The inductive invariant is said of one deployment at a time (Holds).    *)
(* A step of one deployment leaves all that Holds says of the others alone *)
(* (Same, Frame), so each action is proved at the deployment it is about.  *)
(***************************************************************************)
EXTENDS DeployEngine, TLAPS

-----------------------------------------------------------------------------
(* The invariant.                                                          *)

(* Statuses a pipeline gives on its way up, the steps of a pipeline before *)
(* it declares the deployment live, and the statuses of a deployment that  *)
(* is leaving or has left.                                                 *)
Fresh == {"pending", "building", "deploying"}
Early == {"none", "insert", "pending", "building", "probing", "healthy"}
Leaving == {"draining", "stopped", "failed", "rolled_back", NoRow}
Left == {"stopped", "failed", "rolled_back", NoRow}

(* The part a rollback has for d: about to serve it, has marked it rolled  *)
(* back, has stopped it and not marked it yet.                             *)
Serving(d) == rb.prev = d /\ rb.pc = "serve"
Marked(d) == rb.cur = d /\ rb.pc \in {"restore", "serve"}
Halted(d) == rb.cur = d /\ rb.pc = "mark"

(* The Rollback call and the delete handler name deployments, and a        *)
(* rollback two different ones.                                            *)
CallsOK ==
    /\ \/ rb = NoRollback
       \/ /\ rb.pc \in {"stop", "mark", "restore", "serve"}
          /\ rb.cur \in Deployments /\ rb.prev \in Deployments /\ rb.cur # rb.prev
          /\ rb = [pc |-> rb.pc, cur |-> rb.cur, prev |-> rb.prev]
    /\ \/ del = NoDelete
       \/ /\ del.pc \in {"stop", "force", "row"} /\ del.id \in Deployments
          /\ del = [pc |-> del.pc, id |-> del.id]

(* Before its INSERT nothing in the program is about d.                    *)
Unborn(d) ==
    pipe[d] \in {"none", "insert"} =>
        /\ status[d] = NoRow /\ starter[d] = "none" /\ d \notin resume
        /\ d \notin raced /\ d \notin up /\ NoExit(d)
        /\ old[d] = 0 /\ drains[d] = 0 /\ drain[d] = "idle"
        /\ rb.cur # d /\ rb.prev # d /\ del.id # d

(* Where what surrounds d comes from: a started process has its pid in the *)
(* row, only static sites are served or supervised and only processes are  *)
(* started, probed, killed or left behind, only rows of an earlier boot    *)
(* are resumed.                                                            *)
Origin(d) ==
    /\ status[d] # "replaced"
    /\ starter[d] = "started" /\ Exists(d) => pid[d] # "none"
    /\ starter[d] \in {"supervise", "spawn"} \/ d \in resume => d \in restarted
    /\ starter[d] \in {"serve", "listen", "supervise", "spawn"} => d \in Static
    /\ starter[d] \in {"start", "started", "clashed"} => d \notin Static
    /\ pipe[d] \in {"probing", "healthy"} => d \notin Static
    /\ d \in restarted => pipe[d] = "done"
    /\ d \in orphan => d \notin Static /\ pipe[d] = "done"
    /\ <<d, "killed", "exited">> \in exited => d \notin Static

(* A row on its way up has never been live: nobody drains it, rolls it     *)
(* back or deletes it.                                                     *)
Young(d) ==
    status[d] \in Fresh =>
        /\ old[d] = 0 /\ drains[d] = 0 /\ drain[d] = "idle"
        /\ rb.cur # d /\ del.id # d

(* Only what has been live is drained, listed or rolled back.              *)
Ripe(d) ==
    \/ d \in raced \/ StopLost(d)
    \/ pipe[d] \in Early =>
        /\ status[d] \notin {"running", "draining", "rolled_back"}
        /\ status[d] = "stopped" => del.id = d
        /\ old[d] = 0 /\ drains[d] = 0 /\ drain[d] = "idle" /\ rb.cur # d

(* A drain past its intent and a rollback past its mark have taken d out   *)
(* of "running".                                                           *)
Going(d) ==
    \/ d \in raced \/ StopLost(d)
    \/ /\ drain[d] \notin {"idle", "intent"} => status[d] \in Leaving
       /\ Marked(d) => status[d] \in Leaving

(* At most one start of d is under way, and none while it is registered or *)
(* before it is built, unless a rollback raced.                            *)
Single(d) ==
    \/ d \in raced
    \/ /\ apps[d] # "none" =>
             starter[d] \in {"none", "listen", "supervise", "spawn"} /\ d \notin resume
       /\ d \in resume => starter[d] = "none"
       /\ pipe[d] \in {"none", "insert", "pending", "building"} =>
             apps[d] = "none" /\ starter[d] = "none" /\ d \notin up
       /\ d \in Static /\ pipe[d] \in {"live", "routed"} =>
             apps[d] = "none" /\ starter[d] = "none"
       /\ Serving(d) =>
             /\ apps[d] = "none" /\ starter[d] = "none" /\ d \notin resume
             /\ pipe[d] = "done"
       /\ starter[d] \in {"serve", "listen"} => pipe[d] = "done"

(* The exceptions of NoZombieRunning.                                      *)
Excused(d) ==
    d \in raced \/ d \in quiet \/ d \in left \/ StopLost(d) \/ FailureLost(d)

(* A process or server of this BigBase listens, or its exit waits.         *)
Own(d) == d \in up \ orphan \/ ~NoExit(d)

(* Behind every row that says "running", or is about to, there is          *)
(* somebody: the claim of NoZombieRunning and what it rests on.  A probed  *)
(* deployment is registered or about to be; a started process listens, its *)
(* exit waits or it is being stopped; a server about to listen is          *)
(* registered.                                                             *)
Served(d) ==
    \/ Excused(d)
    \/ /\ pipe[d] \in {"probing", "healthy"} /\ d \in up
             /\ status[d] \in {"building", "deploying"}
          => apps[d] # "none" \/ starter[d] = "started"
       /\ pipe[d] = "healthy" /\ status[d] \in {"building", "deploying"} =>
             Backed(d) \/ starter[d] = "started"
       /\ starter[d] = "started" /\ status[d] \in Fresh \cup {"running"} =>
             Own(d) \/ Falling(d)
       /\ starter[d] \in {"listen", "supervise", "spawn"} /\ status[d] = "running" =>
             \/ apps[d] = "live"
             \/ apps[d] # "none" /\ d \in up
             \/ Falling(d) \/ Serving(d)
       /\ status[d] = "running" => Backed(d) \/ Rising(d) \/ Falling(d)

(* The exit of a process killed on purpose finds its row on the way out,   *)
(* or its rollback has still to mark it and has unregistered it.           *)
Owned(d) ==
    \/ d \in raced \/ del.id = d \/ StopLost(d)
    \/ /\ <<d, "killed", "failing">> \in exited => status[d] \in Left
       /\ <<d, "killed", "exited">> \in exited =>
             \/ status[d] \in Leaving
             \/ /\ Halted(d) /\ apps[d] = "none"
                /\ starter[d] = "none" /\ d \notin resume

(* All that is said of one deployment.                                     *)
Holds(d) ==
    /\ Unborn(d) /\ Origin(d) /\ Young(d) /\ Ripe(d)
    /\ Going(d) /\ Single(d) /\ Served(d) /\ Owned(d)

(* The inductive invariant.                                                *)
Inv == TypeOK /\ CallsOK /\ \A d \in Deployments : Holds(d)

USE DEF NoRow, NoRollback, NoDelete, Processes, table, memory, procs, calls, users,
        marks, aux

-----------------------------------------------------------------------------
(* Types.                                                                  *)

(* The sets TypeOK is made of.                                             *)
StatusType == [Deployments -> RowStatus \cup {NoRow}]
PipeSteps == {"none", "insert", "pending", "building", "probing", "healthy", "live",
              "routed", "done"}
StartSteps == {"none", "start", "started", "clashed", "serve", "listen", "supervise",
               "spawn"}
DrainSteps == {"idle", "intent", "signal", "waiting", "remove", "finish", "stop",
               "force"}
Exits == Deployments \X {"killed", "crash"} \X {"exited", "failing"}

LostType == Deployments \X (RowStatus \cup {NoRow})

USE DEF StatusType, LostType, PipeSteps, StartSteps, DrainSteps, Exits

(* What TransitionState and forceStatus leave in the status column.        *)
LEMMA StatusTypes ==
    ASSUME TypeOK, NEW d \in Deployments, NEW to \in DeploymentState,
           Transition(d, to) \/ ForceStatus(d, to)
    PROVE  status' \in StatusType /\ lost' \subseteq LostType
<1>1. status' \in StatusType
  BY DEF TypeOK, Transition, Moved, ForceStatus, Forced, Write, RowStatus
<1>2. lost' = lost \/ lost' = lost \cup {<<d, to>>}
  BY DEF Transition, ForceStatus, Write
<1>3. lost \subseteq LostType /\ <<d, to>> \in LostType
  BY DEF TypeOK, RowStatus
<1> QED
  BY <1>1, <1>2, <1>3

(* What killing a process does to the processes and their exits.           *)
LEMMA KillType ==
    ASSUME TypeOK, NEW d \in Deployments, NEW h, Kill(d, h)
    PROVE  /\ up' \subseteq Deployments /\ orphan' \subseteq up'
           /\ exited' \subseteq Exits
  BY DEF TypeOK, Kill

(* What the shared half of stopDeployment does.                            *)
LEMMA StopType ==
    ASSUME TypeOK, NEW d \in Deployments, StopApp(d)
    PROVE  /\ apps' \in [Deployments -> Handle]
           /\ up' \subseteq Deployments /\ orphan' \subseteq up'
           /\ exited' \subseteq Exits
           /\ host' \in Deployments \cup {NoRoute}
<1>1. PICK h : Kill(d, h)
  BY DEF StopApp
<1>2. apps' \in [Deployments -> Handle] /\ host' \in Deployments \cup {NoRoute}
  BY DEF TypeOK, StopApp, Handle
<1> QED
  BY <1>1, <1>2, KillType

(* Trigger and runDeployment.                                              *)
LEMMA PipelineTypes ==
    ASSUME TypeOK, NEW d \in Deployments, Collect(d) \/ Pipeline(d)
    PROVE  TypeOK'
<1> USE DEF At
<1>1. CASE Collect(d)
  <2>1. old' \in [Deployments -> Nat] /\ UNCHANGED <<status, drains, starter>>
    BY <1>1 DEF TypeOK, Collect
  <2> QED
    BY <1>1, <2>1 DEF TypeOK, Collect
<1>2. CASE Insert(d)
  <2>1. status' \in StatusType /\ order' \in Seq(Deployments)
    BY <1>2 DEF TypeOK, Insert, RowStatus, DeploymentState
  <2> QED
    BY <1>2, <2>1 DEF TypeOK, Insert
<1>3. ASSUME NEW to \in DeploymentState, Transition(d, to),
             UNCHANGED <<order, pid, memory, procs, host, calls, marks>>,
             \E step \in PipeSteps : pipe' = [pipe EXCEPT ![d] = step],
             starter' \in [Deployments -> StartSteps]
      PROVE  TypeOK'
  <2>1. /\ status' \in StatusType /\ lost' \subseteq LostType
        /\ pipe' \in [Deployments -> PipeSteps]
    BY <1>3, StatusTypes DEF TypeOK
  <2> QED
    BY <1>3, <2>1 DEF TypeOK
<1>4. CASE \/ Build(d) \/ BuildFails(d) \/ BuildStatic(d) \/ BuildProcess(d)
           \/ ProbeFails(d) \/ GoRunning(d)
  <2>1. \E to \in DeploymentState : Transition(d, to)
    BY <1>4 DEF Build, BuildFails, BuildStatic, BuildProcess, ProbeFails, GoRunning,
                DeploymentState
  <2>2. UNCHANGED <<order, pid, memory, procs, host, calls, marks>>
    BY <1>4 DEF Build, BuildFails, BuildStatic, BuildProcess, ProbeFails, GoRunning
  <2>3. \E to \in PipeSteps : pipe' = [pipe EXCEPT ![d] = to]
    BY <1>4 DEF Build, BuildFails, BuildStatic, BuildProcess, ProbeFails, GoRunning,
                PipeSteps
  <2>4. starter' \in [Deployments -> StartSteps]
    BY <1>4 DEF TypeOK, Build, BuildFails, BuildStatic, BuildProcess, ProbeFails,
                GoRunning
  <2> QED
    BY <1>3, <2>1, <2>2, <2>3, <2>4
<1>5. CASE ProbeOK(d) \/ Route(d)
  BY <1>5 DEF TypeOK, ProbeOK, Route
<1>6. CASE DrainOld(d)
  <2>1. old' \in [Deployments -> Nat] /\ drains' \in [Deployments -> Nat]
    BY <1>6 DEF TypeOK, DrainOld
  <2>2. starter' \in [Deployments -> StartSteps]
    BY <1>6 DEF TypeOK, DrainOld
  <2> QED
    BY <1>6, <2>1, <2>2 DEF TypeOK, DrainOld
<1> QED
  BY <1>1, <1>2, <1>4, <1>5, <1>6 DEF Pipeline

(* startApp, serveStatic and the supervisor.                               *)
LEMMA StarterTypes ==
    ASSUME TypeOK, NEW d \in Deployments, Starter(d)
    PROVE  TypeOK'
<1>1. starter' \in [Deployments -> StartSteps]
  <2>1. \E to \in StartSteps : starter' = [starter EXCEPT ![d] = to]
    BY DEF Starter, StartFails, StartProcess, RegisterApp, RegisterServer, Listen,
           SuperviseCheck, Supervise, StartFrom, StartSteps
  <2> QED
    BY <2>1 DEF TypeOK, StartSteps
<1>2. CASE StartFails(d)
  <2>1. status' \in StatusType /\ lost' \subseteq LostType
    BY <1>2, StatusTypes DEF StartFails, DeploymentState
  <2> QED
    BY <1>1, <1>2, <2>1 DEF TypeOK, StartFails
<1>3. CASE StartProcess(d)
  <2>1. pid' \in [Deployments -> Handle]
    BY <1>3 DEF TypeOK, StartProcess, Handle
  <2>2. /\ \E h \in Handle : apps' = [apps EXCEPT ![d] = h]
        /\ \E h \in Handle : handle' = [handle EXCEPT ![d] = h]
    <3>1. Stale(apps[d]) \in Handle /\ Stale(handle[d]) \in Handle
      BY DEF TypeOK, Handle, Stale
    <3>2. apps = [apps EXCEPT ![d] = @] /\ handle = [handle EXCEPT ![d] = @]
      BY DEF TypeOK
    <3>3. apps[d] \in Handle /\ handle[d] \in Handle
      BY DEF TypeOK
    <3> QED
      BY <1>3, <3>1, <3>2, <3>3 DEF StartProcess
  <2>3. apps' \in [Deployments -> Handle] /\ handle' \in [Deployments -> Handle]
    BY <2>2 DEF TypeOK
  <2>4. up' \subseteq Deployments /\ orphan' \subseteq up'
    BY <1>3 DEF TypeOK, StartProcess
  <2> QED
    BY <1>1, <1>3, <2>1, <2>2, <2>3, <2>4 DEF TypeOK, StartProcess
<1>4. CASE RegisterApp(d)
  <2>1. \E h \in Handle : apps' = [apps EXCEPT ![d] = h]
    BY <1>4 DEF TypeOK, RegisterApp, Handle
  <2>2. exited' \subseteq Exits
    BY <1>4 DEF TypeOK, RegisterApp
  <2> QED
    BY <1>1, <1>4, <2>1, <2>2 DEF TypeOK, RegisterApp
<1>5. CASE RegisterServer(d)
  <2>1. apps' \in [Deployments -> Handle] /\ handle' \in [Deployments -> Handle]
    BY <1>5 DEF TypeOK, RegisterServer, Handle, Stale
  <2> QED
    BY <1>1, <1>5, <2>1 DEF TypeOK, RegisterServer
<1>6. CASE Listen(d) \/ SuperviseCheck(d) \/ Supervise(d)
  BY <1>1, <1>6 DEF TypeOK, Listen, SuperviseCheck, Supervise
<1> QED
  BY <1>2, <1>3, <1>4, <1>5, <1>6 DEF Starter

(* Exits and their records.                                                *)
LEMMA ExitTypes ==
    ASSUME TypeOK, NEW d \in Deployments, Exit(d) \/ Crash(d)
    PROVE  TypeOK'
<1>1. exited' \subseteq Exits
  BY DEF TypeOK, Exit, CheckExit, RecordExit, Crash
<1>2. ASSUME NEW c \in {"killed", "crash"}, CheckExit(d, c)
      PROVE  TypeOK'
  BY <1>1, <1>2 DEF TypeOK, CheckExit
<1>3. ASSUME NEW c \in {"killed", "crash"}, RecordExit(d, c)
      PROVE  TypeOK'
  <2>1. status' \in StatusType /\ lost' \subseteq LostType
    BY <1>3, StatusTypes DEF RecordExit, DeploymentState
  <2> QED
    BY <1>1, <1>3, <2>1 DEF TypeOK, RecordExit
<1>4. CASE Crash(d)
  BY <1>1, <1>4 DEF TypeOK, Crash
<1> QED
  BY <1>2, <1>3, <1>4 DEF Exit

(* drainDeployment.                                                        *)
LEMMA DrainTypes ==
    ASSUME TypeOK, NEW d \in Deployments, Drain(d)
    PROVE  TypeOK'
<1> USE DEF DrainTo
<1>1. drain' \in [Deployments -> DrainSteps]
  <2>1. drain' = drain \/ \E to \in DrainSteps : drain' = [drain EXCEPT ![d] = to]
    BY DEF Drain, DrainBegin, DrainIntent, DrainSignal, DrainExit, DrainRemove,
           DrainFinish, DrainStop, DrainForce, DrainSteps
  <2> QED
    BY <2>1 DEF TypeOK, DrainSteps
<1>2. handle' \in [Deployments -> Handle]
  <2>1. handle' = handle \/ \E h \in Handle : handle' = [handle EXCEPT ![d] = h]
    BY DEF TypeOK, Drain, DrainBegin, DrainIntent, DrainSignal, DrainExit, DrainRemove,
           DrainFinish, DrainStop, DrainForce, Handle
  <2> QED
    BY <2>1 DEF TypeOK
<1>3. CASE DrainBegin(d)
  <2>1. drains[d] - 1 \in Nat
    BY <1>3 DEF TypeOK, DrainBegin
  <2>2. drains' \in [Deployments -> Nat]
    BY <1>3, <2>1 DEF TypeOK, DrainBegin
  <2> QED
    BY <1>1, <1>2, <1>3, <2>2 DEF TypeOK, DrainBegin
<1>4. CASE DrainIntent(d)
  <2>1. status' \in StatusType /\ lost' \subseteq LostType
    BY <1>4, StatusTypes DEF DrainIntent, DeploymentState
  <2> QED
    BY <1>1, <1>4, <2>1 DEF TypeOK, DrainIntent
<1>5. CASE DrainSignal(d)
  BY <1>1, <1>5 DEF TypeOK, DrainSignal
<1>6. CASE DrainExit(d)
  <2>1. \/ \E h : Kill(d, h)
        \/ up' = up \ {d} /\ orphan' = orphan \ {d} /\ UNCHANGED exited
    BY <1>6 DEF DrainExit
  <2>2. /\ up' \subseteq Deployments /\ orphan' \subseteq up'
        /\ exited' \subseteq Exits
    BY <2>1, KillType DEF TypeOK
  <2> QED
    BY <1>1, <1>6, <2>2 DEF TypeOK, DrainExit
<1>7. CASE DrainRemove(d)
  <2>1. apps' \in [Deployments -> Handle]
    BY <1>7 DEF TypeOK, DrainRemove, Handle
  <2> QED
    BY <1>1, <1>7, <2>1 DEF TypeOK, DrainRemove
<1>8. CASE DrainFinish(d)
  <2>1. status' \in StatusType /\ lost' \subseteq LostType
    BY <1>8, StatusTypes DEF DrainFinish, DeploymentState
  <2> QED
    BY <1>1, <1>2, <1>8, <2>1 DEF TypeOK, DrainFinish
<1>9. CASE DrainStop(d)
  BY <1>1, <1>9, StopType DEF TypeOK, DrainStop
<1>10. CASE DrainForce(d)
  <2>1. status' \in StatusType /\ lost' \subseteq LostType
    BY <1>10, StatusTypes DEF DrainForce, DeploymentState
  <2> QED
    BY <1>1, <1>10, <2>1 DEF TypeOK, DrainForce
<1> QED
  BY <1>3, <1>4, <1>5, <1>6, <1>7, <1>8, <1>9, <1>10 DEF Drain

(* Rollback and the delete handler.                                        *)
LEMMA CallTypes ==
    ASSUME TypeOK, CallsOK,
           \/ Rollback \/ Delete
           \/ \E d \in Deployments : RollbackBegin(d) \/ DeleteBegin(d)
    PROVE  TypeOK'
<1>1. CASE \E d \in Deployments : RollbackBegin(d) \/ DeleteBegin(d)
  BY <1>1 DEF TypeOK, RollbackBegin, DeleteBegin
<1>2. rb.pc # "idle" => rb.cur \in Deployments /\ rb.prev \in Deployments
  BY DEF CallsOK
<1>3. del.pc # "idle" => del.id \in Deployments
  BY DEF CallsOK
<1>4. CASE RollbackStop
  BY <1>2, <1>4, StopType DEF TypeOK, RollbackStop
<1>5. CASE RollbackMark
  <2>1. status' \in StatusType /\ lost' \subseteq LostType
    BY <1>2, <1>5, StatusTypes DEF RollbackMark, DeploymentState
  <2> QED
    BY <1>5, <2>1 DEF TypeOK, RollbackMark
<1>6. CASE RollbackRestore
  <2>1. status' \in StatusType /\ lost' \subseteq LostType
    <3>1. rb.prev \in Deployments
      BY <1>2, <1>6 DEF RollbackRestore
    <3>2. CASE AtRest(rb.prev)
      <4>1. status' \in StatusType
        BY <1>6, <3>1, <3>2 DEF TypeOK, RollbackRestore, Write, Moved, RowStatus,
                                DeploymentState
      <4>2. \/ lost' = {w \in lost : w[1] # rb.prev}
            \/ lost' = {w \in lost : w[1] # rb.prev} \cup {<<rb.prev, "running">>}
        BY <1>6, <3>2 DEF RollbackRestore, Write
      <4>3. lost \subseteq LostType /\ <<rb.prev, "running">> \in LostType
        BY <3>1 DEF TypeOK, RowStatus, DeploymentState
      <4> QED
        BY <4>1, <4>2, <4>3
    <3>3. CASE ~AtRest(rb.prev)
      BY <1>6, <3>1, <3>3, StatusTypes DEF RollbackRestore, DeploymentState
    <3> QED
      BY <3>2, <3>3
  <2>2. /\ raced' \subseteq Deployments /\ quiet' \subseteq Deployments
        /\ left' \subseteq Deployments
    BY <1>2, <1>6 DEF TypeOK, RollbackRestore
  <2> QED
    BY <1>6, <2>1, <2>2 DEF TypeOK, RollbackRestore
<1>7. CASE RollbackServe
  <2>1. rb.prev \in Deployments
    BY <1>2, <1>7 DEF RollbackServe
  <2>2. starter' \in [Deployments -> StartSteps]
    BY <1>7, <2>1 DEF TypeOK, RollbackServe
  <2>3. raced' \subseteq Deployments /\ host' \in Deployments \cup {NoRoute}
    BY <1>7, <2>1 DEF TypeOK, RollbackServe
  <2> QED
    BY <1>7, <2>2, <2>3 DEF TypeOK, RollbackServe
<1>8. CASE DeleteStop
  BY <1>3, <1>8, StopType DEF TypeOK, DeleteStop
<1>9. CASE DeleteForce
  <2>1. status' \in StatusType /\ lost' \subseteq LostType
    BY <1>3, <1>9, StatusTypes DEF DeleteForce, DeploymentState
  <2> QED
    BY <1>9, <2>1 DEF TypeOK, DeleteForce
<1>10. CASE DeleteRow
  <2>1. del.id \in Deployments
    BY <1>3, <1>10 DEF DeleteRow
  <2>2. status' \in StatusType /\ pid' \in [Deployments -> Handle]
    BY <1>10, <2>1 DEF TypeOK, DeleteRow, Write, Handle
  <2>3. lost' = lost \/ lost' = lost \cup {<<del.id, NoRow>>}
    BY <1>10 DEF DeleteRow, Write
  <2>4. lost \subseteq LostType /\ <<del.id, NoRow>> \in LostType
    BY <2>1 DEF TypeOK
  <2>5. lost' \subseteq LostType
    BY <2>3, <2>4
  <2> QED
    BY <1>10, <2>2, <2>5 DEF TypeOK, DeleteRow
<1> QED
  BY <1>1, <1>4, <1>5, <1>6, <1>7, <1>8, <1>9, <1>10 DEF Rollback, Delete

(* Boot and resumeCandidates.                                              *)
LEMMA BootTypes ==
    ASSUME TypeOK,
           \/ \E d \in Deployments : Resume(d)
           \/ \E clean \in BOOLEAN, stale \in SUBSET Deployments : Restart(clean, stale)
    PROVE  TypeOK'
<1>1. ASSUME NEW d \in Deployments, Resume(d) PROVE TypeOK'
  <2>1. status' \in StatusType /\ lost' \subseteq LostType
    <3>1. CASE ForceStatus(d, "failed")
      BY <3>1, StatusTypes DEF DeploymentState
    <3>2. CASE UNCHANGED <<status, lost>>
      BY <3>2 DEF TypeOK
    <3> QED
      BY <1>1, <3>1, <3>2 DEF Resume
  <2>2. apps' \in [Deployments -> Handle] /\ left' \subseteq Deployments
    BY <1>1 DEF TypeOK, Resume, Handle
  <2>3. starter' \in [Deployments -> StartSteps]
    BY <1>1 DEF TypeOK, Resume
  <2> QED
    BY <1>1, <2>1, <2>2, <2>3 DEF TypeOK, Resume
<1>2. ASSUME NEW clean \in BOOLEAN, NEW stale \in SUBSET Deployments,
             Restart(clean, stale)
      PROVE  TypeOK'
  <2>1. status' \in StatusType
    BY <1>2 DEF TypeOK, Restart, Reconciled, RowStatus, DeploymentState
  <2>2. /\ apps' \in [Deployments -> Handle] /\ handle' \in [Deployments -> Handle]
        /\ old' \in [Deployments -> Nat] /\ drains' \in [Deployments -> Nat]
    BY <1>2 DEF Restart, None, Handle
  <2>3. /\ up' \subseteq Deployments /\ orphan' \subseteq up'
        /\ exited' \subseteq Exits
    BY <1>2 DEF TypeOK, Restart, Survivors
  <2>4. drain' \in [Deployments -> DrainSteps]
    BY <1>2 DEF Restart
  <2>5. /\ pipe' \in [Deployments -> PipeSteps]
        /\ starter' \in [Deployments -> StartSteps]
    BY <1>2 DEF Restart, None
  <2>6. host' \in Deployments \cup {NoRoute} /\ resume' \subseteq Deployments
    BY <1>2 DEF Restart
  <2>7. /\ restarted' \subseteq Deployments /\ left' \subseteq Deployments
        /\ lost' = {} /\ raced' = {} /\ quiet' = {} /\ UNCHANGED <<order, pid>>
    BY <1>2 DEF Restart
  <2> QED
    BY <2>1, <2>2, <2>3, <2>4, <2>5, <2>6, <2>7 DEF TypeOK
<1> QED
  BY <1>1, <1>2

(* Only Rollback, the delete handler and a restart change the two calls.   *)
LEMMA CallsStep ==
    ASSUME TypeOK, CallsOK, [Next]_vars
    PROVE  CallsOK'
<1>1. CASE RollbackStop \/ RollbackMark \/ RollbackRestore \/ RollbackServe
  BY <1>1 DEF CallsOK, RollbackStop, RollbackMark, RollbackRestore, RollbackServe
<1>2. CASE DeleteStop \/ DeleteForce \/ DeleteRow
  BY <1>2 DEF CallsOK, DeleteStop, DeleteForce, DeleteRow
<1>3. ASSUME NEW d \in Deployments, RollbackBegin(d) PROVE CallsOK'
  BY <1>3 DEF CallsOK, RollbackBegin, Newest, Eligible
<1>4. ASSUME NEW d \in Deployments, DeleteBegin(d) PROVE CallsOK'
  BY <1>4 DEF CallsOK, DeleteBegin
<1>5. ASSUME NEW clean \in BOOLEAN, NEW stale \in SUBSET Deployments,
             Restart(clean, stale)
      PROVE  CallsOK'
  BY <1>5 DEF CallsOK, Restart
<1>6. CASE UNCHANGED <<rb, del>>
  BY <1>6 DEF CallsOK
<1>7. ASSUME NEW d \in Deployments, Collect(d) \/ Pipeline(d) \/ Starter(d)
      PROVE  UNCHANGED <<rb, del>>
  BY <1>7 DEF Collect, Pipeline, Insert, Build, BuildFails, BuildStatic, BuildProcess,
              ProbeOK, ProbeFails, GoRunning, Route, DrainOld, Starter, StartFails,
              StartProcess, RegisterApp, RegisterServer, Listen, SuperviseCheck,
              Supervise
<1>8. ASSUME NEW d \in Deployments, Exit(d) \/ Drain(d) \/ Crash(d) \/ Resume(d)
      PROVE  UNCHANGED <<rb, del>>
  BY <1>8 DEF Exit, CheckExit, RecordExit, Drain, DrainBegin, DrainIntent, DrainSignal,
              DrainExit, DrainRemove, DrainFinish, DrainStop, DrainForce, Crash, Resume
<1>9. CASE UNCHANGED vars
  BY <1>6, <1>9 DEF vars
<1> QED
  BY <1>1, <1>2, <1>3, <1>4, <1>5, <1>6, <1>7, <1>8, <1>9 DEF Next, Rollback, Delete

-----------------------------------------------------------------------------
(* The status machine.                                                     *)

(* The edges of the table, by target.                                      *)
LEMMA Edges ==
    ASSUME NEW s \in DeploymentState
    PROVE  /\ MayTransition(s, "building") <=> s = "pending"
           /\ MayTransition(s, "deploying") <=> s = "building"
           /\ MayTransition(s, "running")
                <=> s \in {"building", "deploying", "draining", "stopped"}
           /\ MayTransition(s, "failed") <=> s \in Fresh \cup {"running", "draining"}
           /\ MayTransition(s, "rolled_back") <=> s = "running"
           /\ MayTransition(s, "draining") <=> s = "running"
           /\ MayTransition(s, "stopped") <=> s = "draining"
  BY DEF MayTransition, CanTransition, IsValidState, ValidTransitions, DeploymentState,
         Fresh

(* The writes that take a deployment out of "running" on purpose, and a    *)
(* step that loses no further one of those, or of the failures, of d.      *)
Stops == {"draining", "stopped", "rolled_back", NoRow}
NoLoss(d) == (StopLost(d)' <=> StopLost(d)) /\ (FailureLost(d)' <=> FailureLost(d))

(* A step that writes only the row of d, and loses only writes of it.      *)
RowOf(d) == \A e \in Deployments : e # d => status'[e] = status[e] /\ NoLoss(e)

(* The losses after a write of d that may be lost.                         *)
LEMMA LossAt ==
    ASSUME NEW d \in Deployments, NEW to,
           lost' = lost \/ lost' = lost \cup {<<d, to>>}
    PROVE  /\ \A e \in Deployments : e # d => NoLoss(e)
           /\ to \notin Stops \cup {"failed"} => NoLoss(d)
           /\ lost' = lost => NoLoss(d)
           /\ lost' = lost \cup {<<d, to>>} =>
                /\ to \in Stops => StopLost(d)' /\ (FailureLost(d)' <=> FailureLost(d))
                /\ to = "failed" => FailureLost(d)' /\ (StopLost(d)' <=> StopLost(d))
  BY DEF NoLoss, StopLost, FailureLost, Stops

(* TransitionState changes the row of d at most, and only along an edge,   *)
(* unless the write is lost.                                               *)
LEMMA TransitionAt ==
    ASSUME TypeOK, NEW d \in Deployments, Origin(d), NEW to \in DeploymentState,
           Transition(d, to)
    PROVE  /\ status[d] \in DeploymentState \cup {NoRow}
           /\ RowOf(d)
           /\ to \notin Stops \cup {"failed"} => NoLoss(d)
           /\ \/ /\ status'[d] = IF /\ status[d] \in DeploymentState
                                   /\ MayTransition(status[d], to)
                                THEN to ELSE status[d]
                 /\ NoLoss(d)
              \/ /\ status'[d] = status[d]
                 /\ to \in Stops => StopLost(d)' /\ (FailureLost(d)' <=> FailureLost(d))
                 /\ to = "failed" => FailureLost(d)' /\ (StopLost(d)' <=> StopLost(d))
<1>1. status[d] \in DeploymentState \cup {NoRow}
  BY DEF TypeOK, RowStatus, LegacyStatus, Origin
<1>2. status[d] \in DeploymentState <=> Exists(d)
  BY <1>1 DEF Exists, DeploymentState
<1>3. \A e \in Deployments : e # d => status'[e] = status[e]
  BY DEF TypeOK, Transition, Write, Moved
<1>4. \/ /\ status'[d] = IF /\ status[d] \in DeploymentState
                            /\ MayTransition(status[d], to)
                         THEN to ELSE status[d]
         /\ lost' = lost
      \/ status'[d] = status[d] /\ lost' = lost \cup {<<d, to>>}
  BY <1>2 DEF TypeOK, Transition, Write, Moved
<1> QED
  BY <1>1, <1>3, <1>4, LossAt DEF RowOf

(* forceStatus changes the row of d at most, unless the write is lost.     *)
LEMMA ForceAt ==
    ASSUME TypeOK, NEW d \in Deployments, NEW to \in {"stopped", "failed"},
           ForceStatus(d, to)
    PROVE  /\ RowOf(d)
           /\ \/ /\ status'[d] = IF status[d] # NoRow THEN to ELSE status[d]
                 /\ NoLoss(d)
              \/ /\ status'[d] = status[d]
                 /\ to = "stopped" =>
                       StopLost(d)' /\ (FailureLost(d)' <=> FailureLost(d))
                 /\ to = "failed" =>
                       FailureLost(d)' /\ (StopLost(d)' <=> StopLost(d))
<1>1. \A e \in Deployments : e # d => status'[e] = status[e]
  BY DEF TypeOK, ForceStatus, Write, Forced
<1>2. \/ /\ status'[d] = IF status[d] # NoRow THEN to ELSE status[d]
         /\ lost' = lost
      \/ status'[d] = status[d] /\ lost' = lost \cup {<<d, to>>}
  BY DEF TypeOK, ForceStatus, Write, Forced, Exists
<1> QED
  BY <1>1, <1>2, LossAt DEF RowOf, Stops

(* Where no write is lost, no loss is added.                               *)
LEMMA LossKept ==
    ASSUME UNCHANGED lost
    PROVE  \A e \in Deployments : NoLoss(e)
  BY DEF NoLoss, StopLost, FailureLost

-----------------------------------------------------------------------------
(* Frames.                                                                 *)

USE DEF Exists, Fresh, Early, Leaving, Left

(* A step that leaves all that Holds says of d alone; only a running row   *)
(* may be listed for a drain.                                              *)
Same(d) ==
    /\ UNCHANGED <<status[d], pid[d], apps[d], drain[d], pipe[d], starter[d]>>
    /\ old[d] = 0 /\ drains[d] = 0 /\ status[d] # "running"
          => old'[d] = 0 /\ drains'[d] = 0
    /\ UNCHANGED <<d \in up, d \in orphan, d \in resume, d \in raced, d \in quiet,
                   d \in left, d \in restarted>>
    /\ NoLoss(d)
    /\ \A c \in {"killed", "crash"}, s \in {"exited", "failing"} :
          UNCHANGED (<<d, c, s>> \in exited)
    /\ UNCHANGED <<rb.cur = d, rb.prev = d, del.id = d, Serving(d), Marked(d), Halted(d)>>

(* What holds of d still holds after such a step.                          *)
LEMMA Frame ==
    ASSUME NEW d \in Deployments, Holds(d), Same(d)
    PROVE  Holds(d)'
<1>1. NoExit(d)' <=> NoExit(d)
  BY DEF Same, NoExit
<1>2. (<<d, "killed", "failing">> \in exited)' <=> <<d, "killed", "failing">> \in exited
  BY DEF Same
<1>3. (<<d, "killed", "exited">> \in exited)' <=> <<d, "killed", "exited">> \in exited
  BY DEF Same
<1>4. (StopLost(d)' <=> StopLost(d)) /\ (FailureLost(d)' <=> FailureLost(d))
  BY DEF Same, NoLoss
<1>5. Unborn(d)' /\ Origin(d)'
  BY <1>1, <1>3 DEF Holds, Same, Unborn, Origin, Exists
<1>6. Young(d)' /\ Ripe(d)' /\ Going(d)' /\ Single(d)'
  BY <1>4 DEF Holds, Same, Young, Ripe, Going, Single
<1>7. Served(d)'
  BY <1>1, <1>4 DEF Holds, Same, Served, Excused, Own, Backed, Rising, Falling, Serving
<1>8. Owned(d)'
  BY <1>2, <1>3, <1>4 DEF Holds, Same, Owned
<1> QED
  BY <1>5, <1>6, <1>7, <1>8 DEF Holds

(* It is enough to look at the one deployment a step is about.             *)
LEMMA OnlyOne ==
    ASSUME Inv, NEW d \in Deployments, Holds(d)',
           \A e \in Deployments : e # d => Same(e)
    PROVE  \A e \in Deployments : Holds(e)'
  BY Frame DEF Inv

-----------------------------------------------------------------------------
(* One step of one deployment.                                             *)

(* Trigger and runDeployment.                                              *)
LEMMA PipelineHolds ==
    ASSUME Inv, NEW d \in Deployments, Collect(d) \/ Pipeline(d)
    PROVE  \A e \in Deployments : Holds(e)'
<1> USE DEF Unborn, Origin, Young, Ripe, Going, Single, Served, Owned, Excused, Own,
            Backed, Rising, Falling, Serving, Marked, Halted, NoLoss
<1>1. TypeOK /\ Holds(d)
  BY DEF Inv
<1>2. CASE Collect(d)
  <2>1. /\ pipe[d] = "none" /\ pipe'[d] = "insert"
        /\ old'[d] = IF status[d] = "running" THEN old[d] + 1 ELSE old[d]
        /\ UNCHANGED <<status, pid, apps, drains, drain, starter, up, orphan,
                      resume, raced, quiet, left, restarted, exited, rb, del>>
        /\ NoExit(d)' <=> NoExit(d)
    BY <1>1, <1>2 DEF TypeOK, NoExit, Collect, At
  <2>2. lost' = lost /\ NoLoss(d)
    BY <1>1, <1>2, LossKept DEF Collect
  <2>3. ASSUME NEW e \in Deployments, e # d PROVE Same(e)
    BY <1>1, <1>2, <2>1, <2>2, <2>3, LossKept DEF TypeOK, Collect, At, Same
  <2>4. Unborn(d)' /\ Origin(d)' /\ Young(d)'
    BY <1>1, <2>1, <2>2 DEF TypeOK, Holds
  <2>5. Ripe(d)' /\ Going(d)' /\ Single(d)'
    BY <1>1, <2>1, <2>2 DEF TypeOK, Holds
  <2>6. Served(d)'
    BY <1>1, <2>1, <2>2 DEF TypeOK, Holds
  <2>7. Owned(d)'
    BY <1>1, <2>1, <2>2 DEF TypeOK, Holds
  <2> QED
    BY <2>3, <2>4, <2>5, <2>6, <2>7, OnlyOne DEF Holds
<1>3. CASE Insert(d)
  <2>1. /\ pipe[d] = "insert" /\ pipe'[d] = "pending"
        /\ status'[d] = "pending"
        /\ UNCHANGED <<pid, apps, old, drains, drain, starter, up, orphan, resume,
                      raced, quiet, left, restarted, exited, rb, del>>
        /\ NoExit(d)' <=> NoExit(d)
    BY <1>1, <1>3 DEF TypeOK, NoExit, Insert, At
  <2>2. lost' = lost /\ NoLoss(d)
    BY <1>1, <1>3, LossKept DEF Insert
  <2>3. ASSUME NEW e \in Deployments, e # d PROVE Same(e)
    BY <1>1, <1>3, <2>1, <2>2, <2>3, LossKept DEF TypeOK, Insert, At, Same
  <2>4. Unborn(d)' /\ Origin(d)' /\ Young(d)'
    BY <1>1, <2>1, <2>2 DEF TypeOK, Holds
  <2>5. Ripe(d)' /\ Going(d)' /\ Single(d)'
    BY <1>1, <2>1, <2>2 DEF TypeOK, Holds
  <2>6. Served(d)'
    BY <1>1, <2>1, <2>2 DEF TypeOK, Holds
  <2>7. Owned(d)'
    BY <1>1, <2>1, <2>2 DEF TypeOK, Holds, NoExit
  <2> QED
    BY <2>3, <2>4, <2>5, <2>6, <2>7, OnlyOne DEF Holds
<1>4. CASE Build(d)
  <2>1. /\ pipe[d] = "pending" /\ pipe'[d] = "building"
        /\ UNCHANGED <<pid, apps, old, drains, drain, starter, up, orphan, resume,
                      raced, quiet, left, restarted, exited, rb, del>>
        /\ NoExit(d)' <=> NoExit(d)
    BY <1>1, <1>4 DEF TypeOK, NoExit, Build, At
  <2>2. /\ status[d] \in DeploymentState \cup {NoRow} /\ RowOf(d) /\ NoLoss(d)
        /\ \/ status'[d] = IF status[d] = "pending" THEN "building" ELSE status[d]
           \/ status'[d] = status[d]
    BY <1>1, <1>4, TransitionAt, Edges DEF Build, Holds, DeploymentState, Stops
  <2>3. ASSUME NEW e \in Deployments, e # d PROVE Same(e)
    BY <1>1, <1>4, <2>1, <2>2, <2>3 DEF TypeOK, Build, At, Same, RowOf
  <2>4. Unborn(d)' /\ Origin(d)' /\ Young(d)'
    BY <1>1, <2>1, <2>2 DEF TypeOK, Holds, DeploymentState
  <2>5. Ripe(d)' /\ Going(d)' /\ Single(d)'
    BY <1>1, <2>1, <2>2 DEF TypeOK, Holds, DeploymentState
  <2>6. Served(d)'
    BY <1>1, <2>1, <2>2 DEF TypeOK, Holds, DeploymentState
  <2>7. Owned(d)'
    BY <1>1, <2>1, <2>2 DEF TypeOK, Holds, DeploymentState
  <2> QED
    BY <2>3, <2>4, <2>5, <2>6, <2>7, OnlyOne DEF Holds
<1>5. CASE BuildFails(d)
  <2>1. /\ pipe[d] = "building" /\ pipe'[d] = "done"
        /\ UNCHANGED <<pid, apps, old, drains, drain, starter, up, orphan, resume,
                      raced, quiet, left, restarted, exited, rb, del>>
        /\ NoExit(d)' <=> NoExit(d)
    BY <1>1, <1>5 DEF TypeOK, NoExit, BuildFails, At
  <2>2. /\ status[d] \in DeploymentState \cup {NoRow} /\ RowOf(d)
        /\ \/ /\ status'[d] = IF status[d] \in Fresh \cup {"running", "draining"}
                                 THEN "failed" ELSE status[d]
              /\ NoLoss(d)
           \/ status'[d] = status[d] /\ FailureLost(d)' /\ (StopLost(d)' <=> StopLost(d))
    BY <1>1, <1>5, TransitionAt, Edges DEF BuildFails, Holds, DeploymentState, Stops
  <2>3. ASSUME NEW e \in Deployments, e # d PROVE Same(e)
    BY <1>1, <1>5, <2>1, <2>2, <2>3 DEF TypeOK, BuildFails, At, Same, RowOf
  <2>4. Unborn(d)' /\ Origin(d)' /\ Young(d)'
    BY <1>1, <2>1, <2>2 DEF TypeOK, Holds, DeploymentState
  <2>5. Ripe(d)' /\ Going(d)' /\ Single(d)'
    BY <1>1, <2>1, <2>2 DEF TypeOK, Holds, DeploymentState
  <2>6. Served(d)'
    BY <1>1, <2>1, <2>2 DEF TypeOK, Holds, DeploymentState
  <2>7. Owned(d)'
    BY <1>1, <2>1, <2>2 DEF TypeOK, Holds, DeploymentState
  <2> QED
    BY <2>3, <2>4, <2>5, <2>6, <2>7, OnlyOne DEF Holds
<1>6. CASE BuildStatic(d)
  <2>1. /\ d \in Static
        /\ pipe[d] = "building" /\ pipe'[d] = "live"
        /\ UNCHANGED <<pid, apps, old, drains, drain, starter, up, orphan, resume,
                      raced, quiet, left, restarted, exited, rb, del>>
        /\ NoExit(d)' <=> NoExit(d)
    BY <1>1, <1>6 DEF TypeOK, NoExit, BuildStatic, At
  <2>2. /\ status[d] \in DeploymentState \cup {NoRow} /\ RowOf(d) /\ NoLoss(d)
        /\ \/ status'[d] = IF status[d] \in {"building", "deploying", "draining", "stopped"}
                              THEN "running" ELSE status[d]
           \/ status'[d] = status[d]
    BY <1>1, <1>6, TransitionAt, Edges DEF BuildStatic, Holds, DeploymentState, Stops
  <2>3. ASSUME NEW e \in Deployments, e # d PROVE Same(e)
    BY <1>1, <1>6, <2>1, <2>2, <2>3 DEF TypeOK, BuildStatic, At, Same, RowOf
  <2>4. Unborn(d)' /\ Origin(d)' /\ Young(d)'
    BY <1>1, <2>1, <2>2 DEF TypeOK, Holds, DeploymentState
  <2>5. Ripe(d)' /\ Going(d)' /\ Single(d)'
    BY <1>1, <2>1, <2>2 DEF TypeOK, Holds, DeploymentState
  <2>6. Served(d)'
    BY <1>1, <2>1, <2>2 DEF TypeOK, Holds, DeploymentState
  <2>7. Owned(d)'
    BY <1>1, <2>1, <2>2 DEF TypeOK, Holds, DeploymentState
  <2> QED
    BY <2>3, <2>4, <2>5, <2>6, <2>7, OnlyOne DEF Holds
<1>7. CASE BuildProcess(d)
  <2>1. /\ d \notin Static
        /\ pipe[d] = "building" /\ pipe'[d] = "probing"
        /\ starter'[d] = "start"
        /\ UNCHANGED <<pid, apps, old, drains, drain, up, orphan, resume, raced,
                      quiet, left, restarted, exited, rb, del>>
        /\ NoExit(d)' <=> NoExit(d)
    BY <1>1, <1>7 DEF TypeOK, NoExit, BuildProcess, At
  <2>2. /\ status[d] \in DeploymentState \cup {NoRow} /\ RowOf(d) /\ NoLoss(d)
        /\ \/ status'[d] = IF status[d] = "building" THEN "deploying" ELSE status[d]
           \/ status'[d] = status[d]
    BY <1>1, <1>7, TransitionAt, Edges DEF BuildProcess, Holds, DeploymentState, Stops
  <2>3. ASSUME NEW e \in Deployments, e # d PROVE Same(e)
    BY <1>1, <1>7, <2>1, <2>2, <2>3 DEF TypeOK, BuildProcess, At, Same, RowOf
  <2>4. Unborn(d)' /\ Origin(d)' /\ Young(d)'
    BY <1>1, <2>1, <2>2 DEF TypeOK, Holds, DeploymentState
  <2>5. Ripe(d)' /\ Going(d)' /\ Single(d)'
    BY <1>1, <2>1, <2>2 DEF TypeOK, Holds, DeploymentState
  <2>6. Served(d)'
    BY <1>1, <2>1, <2>2 DEF TypeOK, Holds, DeploymentState
  <2>7. Owned(d)'
    BY <1>1, <2>1, <2>2 DEF TypeOK, Holds, DeploymentState
  <2> QED
    BY <2>3, <2>4, <2>5, <2>6, <2>7, OnlyOne DEF Holds
<1>8. CASE ProbeOK(d)
  <2>1. /\ d \in up
        /\ pipe[d] = "probing" /\ pipe'[d] = "healthy"
        /\ UNCHANGED <<status, pid, apps, old, drains, drain, starter, up, orphan,
                      resume, raced, quiet, left, restarted, exited, rb, del>>
        /\ NoExit(d)' <=> NoExit(d)
    BY <1>1, <1>8 DEF TypeOK, NoExit, ProbeOK, At
  <2>2. lost' = lost /\ NoLoss(d)
    BY <1>1, <1>8, LossKept DEF ProbeOK
  <2>3. ASSUME NEW e \in Deployments, e # d PROVE Same(e)
    BY <1>1, <1>8, <2>1, <2>2, <2>3, LossKept DEF TypeOK, ProbeOK, At, Same
  <2>4. Unborn(d)' /\ Origin(d)' /\ Young(d)'
    BY <1>1, <2>1, <2>2 DEF TypeOK, Holds
  <2>5. Ripe(d)' /\ Going(d)' /\ Single(d)'
    BY <1>1, <2>1, <2>2 DEF TypeOK, Holds
  <2>6. Served(d)'
    BY <1>1, <2>1, <2>2 DEF TypeOK, Holds
  <2>7. Owned(d)'
    BY <1>1, <2>1, <2>2 DEF TypeOK, Holds
  <2> QED
    BY <2>3, <2>4, <2>5, <2>6, <2>7, OnlyOne DEF Holds
<1>9. CASE ProbeFails(d)
  <2>1. /\ pipe[d] = "probing" /\ pipe'[d] = "done"
        /\ UNCHANGED <<pid, apps, old, drains, drain, starter, up, orphan, resume,
                      raced, quiet, left, restarted, exited, rb, del>>
        /\ NoExit(d)' <=> NoExit(d)
    BY <1>1, <1>9 DEF TypeOK, NoExit, ProbeFails, At
  <2>2. /\ status[d] \in DeploymentState \cup {NoRow} /\ RowOf(d)
        /\ \/ /\ status'[d] = IF status[d] \in Fresh \cup {"running", "draining"}
                                 THEN "failed" ELSE status[d]
              /\ NoLoss(d)
           \/ status'[d] = status[d] /\ FailureLost(d)' /\ (StopLost(d)' <=> StopLost(d))
    BY <1>1, <1>9, TransitionAt, Edges DEF ProbeFails, Holds, DeploymentState, Stops
  <2>3. ASSUME NEW e \in Deployments, e # d PROVE Same(e)
    BY <1>1, <1>9, <2>1, <2>2, <2>3 DEF TypeOK, ProbeFails, At, Same, RowOf
  <2>4. Unborn(d)' /\ Origin(d)' /\ Young(d)'
    BY <1>1, <2>1, <2>2 DEF TypeOK, Holds, DeploymentState
  <2>5. Ripe(d)' /\ Going(d)' /\ Single(d)'
    BY <1>1, <2>1, <2>2 DEF TypeOK, Holds, DeploymentState
  <2>6. Served(d)'
    BY <1>1, <2>1, <2>2 DEF TypeOK, Holds, DeploymentState
  <2>7. Owned(d)'
    BY <1>1, <2>1, <2>2 DEF TypeOK, Holds, DeploymentState
  <2> QED
    BY <2>3, <2>4, <2>5, <2>6, <2>7, OnlyOne DEF Holds
<1>10. CASE GoRunning(d)
  <2>1. /\ pipe[d] = "healthy" /\ pipe'[d] = "live"
        /\ UNCHANGED <<pid, apps, old, drains, drain, starter, up, orphan, resume,
                      raced, quiet, left, restarted, exited, rb, del>>
        /\ NoExit(d)' <=> NoExit(d)
    BY <1>1, <1>10 DEF TypeOK, NoExit, GoRunning, At
  <2>2. /\ status[d] \in DeploymentState \cup {NoRow} /\ RowOf(d) /\ NoLoss(d)
        /\ \/ status'[d] = IF status[d] \in {"building", "deploying", "draining", "stopped"}
                              THEN "running" ELSE status[d]
           \/ status'[d] = status[d]
    BY <1>1, <1>10, TransitionAt, Edges DEF GoRunning, Holds, DeploymentState, Stops
  <2>3. ASSUME NEW e \in Deployments, e # d PROVE Same(e)
    BY <1>1, <1>10, <2>1, <2>2, <2>3 DEF TypeOK, GoRunning, At, Same, RowOf
  <2>4. Unborn(d)' /\ Origin(d)' /\ Young(d)'
    BY <1>1, <2>1, <2>2 DEF TypeOK, Holds, DeploymentState
  <2>5. Ripe(d)' /\ Going(d)' /\ Single(d)'
    BY <1>1, <2>1, <2>2 DEF TypeOK, Holds, DeploymentState
  <2>6. Served(d)'
    <3>1. CASE Excused(d)
      BY <2>1, <2>2, <3>1
    <3>2. CASE ~Excused(d) /\ status'[d] = status[d]
      BY <1>1, <2>1, <2>2, <3>2 DEF Holds
    <3>3. CASE /\ ~Excused(d) /\ status'[d] = "running"
               /\ status[d] \in {"building", "deploying"}
      <4>1. Backed(d) \/ starter[d] = "started"
        BY <1>1, <2>1, <3>3 DEF Holds
      <4>2. starter[d] = "started" => Own(d) \/ Falling(d)
        BY <1>1, <3>3 DEF Holds
      <4>3. starter[d] \notin {"listen", "supervise", "spawn"}
        BY <1>1, <2>1 DEF Holds
      <4> QED
        BY <2>1, <4>1, <4>2, <4>3
    <3>4. CASE /\ ~Excused(d) /\ status'[d] = "running"
               /\ status[d] \in {"draining", "stopped"}
      <4>1. del.id = d
        BY <1>1, <2>1, <3>4 DEF Holds
      <4>2. starter[d] \notin {"listen", "supervise", "spawn"}
        BY <1>1, <2>1 DEF Holds
      <4> QED
        BY <2>1, <3>4, <4>1, <4>2
    <3> QED
      BY <2>2, <3>1, <3>2, <3>3, <3>4
  <2>7. Owned(d)'
    BY <1>1, <2>1, <2>2 DEF TypeOK, Holds, DeploymentState
  <2> QED
    BY <2>3, <2>4, <2>5, <2>6, <2>7, OnlyOne DEF Holds
<1>11. CASE Route(d)
  <2>1. /\ pipe[d] = "live" /\ pipe'[d] = "routed"
        /\ UNCHANGED <<status, pid, apps, old, drains, drain, starter, up, orphan,
                      resume, raced, quiet, left, restarted, exited, rb, del>>
        /\ NoExit(d)' <=> NoExit(d)
    BY <1>1, <1>11 DEF TypeOK, NoExit, Route, At
  <2>2. lost' = lost /\ NoLoss(d)
    BY <1>1, <1>11, LossKept DEF Route
  <2>3. ASSUME NEW e \in Deployments, e # d PROVE Same(e)
    BY <1>1, <1>11, <2>1, <2>2, <2>3, LossKept DEF TypeOK, Route, At, Same
  <2>4. Unborn(d)' /\ Origin(d)' /\ Young(d)'
    BY <1>1, <2>1, <2>2 DEF TypeOK, Holds
  <2>5. Ripe(d)' /\ Going(d)' /\ Single(d)'
    BY <1>1, <2>1, <2>2 DEF TypeOK, Holds
  <2>6. Served(d)'
    BY <1>1, <2>1, <2>2 DEF TypeOK, Holds
  <2>7. Owned(d)'
    BY <1>1, <2>1, <2>2 DEF TypeOK, Holds
  <2> QED
    BY <2>3, <2>4, <2>5, <2>6, <2>7, OnlyOne DEF Holds
<1>12. CASE DrainOld(d)
  <2>1. /\ pipe[d] = "routed" /\ pipe'[d] = "done"
        /\ old'[d] = 0 /\ drains'[d] = drains[d] + old[d]
        /\ starter'[d] = IF d \in Static THEN "serve" ELSE starter[d]
        /\ UNCHANGED <<status, pid, apps, drain, up, orphan, resume, raced, quiet,
                      left, restarted, exited, rb, del>>
        /\ NoExit(d)' <=> NoExit(d)
    BY <1>1, <1>12 DEF TypeOK, NoExit, DrainOld, At
  <2>2. lost' = lost /\ NoLoss(d)
    BY <1>1, <1>12, LossKept DEF DrainOld
  <2>3. ASSUME NEW e \in Deployments, e # d PROVE Same(e)
    BY <1>1, <1>12, <2>1, <2>2, <2>3, LossKept DEF TypeOK, DrainOld, At, Same
  <2>4. Unborn(d)' /\ Origin(d)' /\ Young(d)'
    BY <1>1, <2>1, <2>2 DEF TypeOK, Holds
  <2>5. Ripe(d)' /\ Going(d)' /\ Single(d)'
    BY <1>1, <2>1, <2>2 DEF TypeOK, Holds
  <2>6. Served(d)'
    BY <1>1, <2>1, <2>2 DEF TypeOK, Holds
  <2>7. Owned(d)'
    BY <1>1, <2>1, <2>2 DEF TypeOK, Holds
  <2> QED
    BY <2>3, <2>4, <2>5, <2>6, <2>7, OnlyOne DEF Holds
<1> QED
  BY <1>2, <1>3, <1>4, <1>5, <1>6, <1>7, <1>8, <1>9, <1>10, <1>11, <1>12 DEF Pipeline

(* startApp, serveStatic and the supervisor.                               *)
LEMMA StarterHolds ==
    ASSUME Inv, NEW d \in Deployments, Starter(d)
    PROVE  \A e \in Deployments : Holds(e)'
<1> USE DEF Unborn, Origin, Young, Ripe, Going, Single, Served, Owned, Excused, Own,
            Backed, Rising, Falling, Serving, Marked, Halted, NoLoss
<1>1. TypeOK /\ Holds(d)
  BY DEF Inv
<1>2. CASE StartFails(d)
  <2>1. /\ starter[d] = "start" /\ starter'[d] = "none"
        /\ UNCHANGED <<pid, apps, old, drains, drain, pipe, up, orphan, resume,
                      raced, quiet, left, restarted, exited, rb, del>>
        /\ NoExit(d)' <=> NoExit(d)
    BY <1>1, <1>2 DEF TypeOK, NoExit, StartFails, StartFrom
  <2>2. /\ status[d] \in DeploymentState \cup {NoRow} /\ RowOf(d)
        /\ \/ /\ status'[d] = IF status[d] \in Fresh \cup {"running", "draining"}
                                 THEN "failed" ELSE status[d]
              /\ NoLoss(d)
           \/ status'[d] = status[d] /\ FailureLost(d)' /\ (StopLost(d)' <=> StopLost(d))
    BY <1>1, <1>2, TransitionAt, Edges DEF StartFails, Holds, DeploymentState, Stops
  <2>3. ASSUME NEW e \in Deployments, e # d PROVE Same(e)
    BY <1>1, <1>2, <2>1, <2>2, <2>3 DEF TypeOK, StartFails, StartFrom, Same, RowOf
  <2>4. Unborn(d)' /\ Origin(d)' /\ Young(d)'
    BY <1>1, <2>1, <2>2 DEF TypeOK, Holds, DeploymentState
  <2>5. Ripe(d)' /\ Going(d)' /\ Single(d)'
    BY <1>1, <2>1, <2>2 DEF TypeOK, Holds, DeploymentState
  <2>6. Served(d)'
    BY <1>1, <2>1, <2>2 DEF TypeOK, Holds, DeploymentState
  <2>7. Owned(d)'
    BY <1>1, <2>1, <2>2 DEF TypeOK, Holds, DeploymentState
  <2> QED
    BY <2>3, <2>4, <2>5, <2>6, <2>7, OnlyOne DEF Holds
<1>3. CASE StartProcess(d)
  <2>1. /\ starter[d] = "start"
        /\ starter'[d] \in {"started", "clashed"}
        /\ starter'[d] = "started" => pid'[d] # "none" /\ d \notin up /\ d \in up'
        /\ starter'[d] = "clashed" => (d \in up <=> d \in up')
        /\ apps'[d] = "none" <=> apps[d] = "none"
        /\ UNCHANGED <<status, old, drains, drain, pipe, orphan, resume, raced,
                      quiet, left, restarted, exited, rb, del>>
        /\ NoExit(d)' <=> NoExit(d)
    BY <1>1, <1>3 DEF TypeOK, NoExit, StartProcess, StartFrom, Stale
  <2>2. lost' = lost /\ NoLoss(d)
    BY <1>1, <1>3, LossKept DEF StartProcess
  <2>3. ASSUME NEW e \in Deployments, e # d PROVE Same(e)
    BY <1>1, <1>3, <2>1, <2>2, <2>3, LossKept DEF TypeOK, StartProcess, StartFrom, Stale, Same
  <2>4. Unborn(d)' /\ Origin(d)' /\ Young(d)'
    BY <1>1, <2>1, <2>2 DEF TypeOK, Holds
  <2>5. Ripe(d)' /\ Going(d)' /\ Single(d)'
    BY <1>1, <2>1, <2>2 DEF TypeOK, Holds
  <2>6. Served(d)'
    BY <1>1, <2>1, <2>2 DEF TypeOK, Holds
  <2>7. Owned(d)'
    BY <1>1, <2>1, <2>2 DEF TypeOK, Holds
  <2> QED
    BY <2>3, <2>4, <2>5, <2>6, <2>7, OnlyOne DEF Holds
<1>4. CASE RegisterApp(d)
  <2>1. /\ starter'[d] = "none"
        /\ \/ /\ starter[d] = "started" /\ apps'[d] = pid[d]
              /\ UNCHANGED exited /\ (NoExit(d)' <=> NoExit(d))
           \/ /\ starter[d] = "clashed" /\ apps'[d] = "dead" /\ ~NoExit(d)'
              /\ exited' = exited \cup {<<d, "crash", "exited">>}
        /\ UNCHANGED <<status, pid, old, drains, drain, pipe, up, orphan, resume,
                      raced, quiet, left, restarted, rb, del>>
    BY <1>1, <1>4 DEF TypeOK, NoExit, RegisterApp, StartFrom
  <2>2. lost' = lost /\ NoLoss(d)
    BY <1>1, <1>4, LossKept DEF RegisterApp
  <2>3. ASSUME NEW e \in Deployments, e # d PROVE Same(e)
    BY <1>1, <1>4, <2>1, <2>2, <2>3, LossKept DEF TypeOK, RegisterApp, StartFrom, Same
  <2>4. Unborn(d)' /\ Origin(d)' /\ Young(d)'
    BY <1>1, <2>1, <2>2 DEF TypeOK, Holds
  <2>5. Ripe(d)' /\ Going(d)' /\ Single(d)'
    BY <1>1, <2>1, <2>2 DEF TypeOK, Holds
  <2>6. Served(d)'
    BY <1>1, <2>1, <2>2 DEF TypeOK, Holds
  <2>7. Owned(d)'
    BY <1>1, <2>1, <2>2 DEF TypeOK, Holds
  <2> QED
    BY <2>3, <2>4, <2>5, <2>6, <2>7, OnlyOne DEF Holds
<1>5. CASE RegisterServer(d)
  <2>1. /\ starter[d] = "serve" /\ starter'[d] = "listen"
        /\ apps'[d] = "live" \/ (apps'[d] = "dead" /\ d \in up)
        /\ UNCHANGED <<status, pid, old, drains, drain, pipe, up, orphan, resume,
                      raced, quiet, left, restarted, exited, rb, del>>
        /\ NoExit(d)' <=> NoExit(d)
    BY <1>1, <1>5 DEF TypeOK, NoExit, RegisterServer, StartFrom
  <2>2. lost' = lost /\ NoLoss(d)
    BY <1>1, <1>5, LossKept DEF RegisterServer
  <2>3. ASSUME NEW e \in Deployments, e # d PROVE Same(e)
    BY <1>1, <1>5, <2>1, <2>2, <2>3, LossKept DEF TypeOK, RegisterServer, StartFrom, Same
  <2>4. Unborn(d)' /\ Origin(d)' /\ Young(d)'
    BY <1>1, <2>1, <2>2 DEF TypeOK, Holds
  <2>5. Ripe(d)' /\ Going(d)' /\ Single(d)'
    BY <1>1, <2>1, <2>2 DEF TypeOK, Holds
  <2>6. Served(d)'
    BY <1>1, <2>1, <2>2 DEF TypeOK, Holds
  <2>7. Owned(d)'
    BY <1>1, <2>1, <2>2 DEF TypeOK, Holds
  <2> QED
    BY <2>3, <2>4, <2>5, <2>6, <2>7, OnlyOne DEF Holds
<1>6. CASE Listen(d)
  <2>1. /\ starter[d] = "listen" /\ starter'[d] = "none"
        /\ \/ d \in quiet' /\ UNCHANGED (d \in up)
           \/ d \in up' /\ UNCHANGED (d \in quiet)
           \/ /\ apps[d] # "live" \/ drain[d] \in {"waiting", "remove"}
              /\ UNCHANGED <<d \in up, d \in quiet>>
        /\ UNCHANGED <<status, pid, apps, old, drains, drain, pipe, orphan, resume,
                      raced, left, restarted, exited, rb, del>>
        /\ NoExit(d)' <=> NoExit(d)
    BY <1>1, <1>6 DEF TypeOK, NoExit, Listen, StartFrom, ShutDown
  <2>2. lost' = lost /\ NoLoss(d)
    BY <1>1, <1>6, LossKept DEF Listen
  <2>3. ASSUME NEW e \in Deployments, e # d PROVE Same(e)
    BY <1>1, <1>6, <2>1, <2>2, <2>3, LossKept DEF TypeOK, Listen, StartFrom, ShutDown, Same
  <2>4. Unborn(d)' /\ Origin(d)' /\ Young(d)'
    BY <1>1, <2>1, <2>2 DEF TypeOK, Holds
  <2>5. Ripe(d)' /\ Going(d)' /\ Single(d)'
    BY <1>1, <2>1, <2>2 DEF TypeOK, Holds
  <2>6. Served(d)'
    BY <1>1, <2>1, <2>2 DEF TypeOK, Holds
  <2>7. Owned(d)'
    BY <1>1, <2>1, <2>2 DEF TypeOK, Holds
  <2> QED
    BY <2>3, <2>4, <2>5, <2>6, <2>7, OnlyOne DEF Holds
<1>7. CASE SuperviseCheck(d)
  <2>1. /\ starter[d] = "supervise"
        /\ \/ starter'[d] = "spawn"
           \/ /\ starter'[d] = "none"
              /\ apps[d] = "none" \/ drain[d] \in {"waiting", "remove"}
        /\ UNCHANGED <<status, pid, apps, old, drains, drain, pipe, up, orphan,
                      resume, raced, quiet, left, restarted, exited, rb, del>>
        /\ NoExit(d)' <=> NoExit(d)
    BY <1>1, <1>7 DEF TypeOK, NoExit, SuperviseCheck, StartFrom, ShutDown
  <2>2. lost' = lost /\ NoLoss(d)
    BY <1>1, <1>7, LossKept DEF SuperviseCheck
  <2>3. ASSUME NEW e \in Deployments, e # d PROVE Same(e)
    BY <1>1, <1>7, <2>1, <2>2, <2>3, LossKept DEF TypeOK, SuperviseCheck, StartFrom, ShutDown, Same
  <2>4. Unborn(d)' /\ Origin(d)' /\ Young(d)'
    BY <1>1, <2>1, <2>2 DEF TypeOK, Holds
  <2>5. Ripe(d)' /\ Going(d)' /\ Single(d)'
    BY <1>1, <2>1, <2>2 DEF TypeOK, Holds
  <2>6. Served(d)'
    BY <1>1, <2>1, <2>2 DEF TypeOK, Holds
  <2>7. Owned(d)'
    BY <1>1, <2>1, <2>2 DEF TypeOK, Holds
  <2> QED
    BY <2>3, <2>4, <2>5, <2>6, <2>7, OnlyOne DEF Holds
<1>8. CASE Supervise(d)
  <2>1. /\ starter[d] = "spawn" /\ starter'[d] = "none"
        /\ \/ d \in up'
           \/ /\ apps[d] = "none" \/ drain[d] \in {"waiting", "remove"}
              /\ UNCHANGED up
        /\ UNCHANGED <<status, pid, apps, old, drains, drain, pipe, orphan, resume,
                      raced, quiet, left, restarted, exited, rb, del>>
        /\ NoExit(d)' <=> NoExit(d)
    BY <1>1, <1>8 DEF TypeOK, NoExit, Supervise, StartFrom, ShutDown
  <2>2. lost' = lost /\ NoLoss(d)
    BY <1>1, <1>8, LossKept DEF Supervise
  <2>3. ASSUME NEW e \in Deployments, e # d PROVE Same(e)
    BY <1>1, <1>8, <2>1, <2>2, <2>3, LossKept DEF TypeOK, Supervise, StartFrom, ShutDown, Same
  <2>4. Unborn(d)' /\ Origin(d)' /\ Young(d)'
    BY <1>1, <2>1, <2>2 DEF TypeOK, Holds
  <2>5. Ripe(d)' /\ Going(d)' /\ Single(d)'
    BY <1>1, <2>1, <2>2 DEF TypeOK, Holds
  <2>6. Served(d)'
    BY <1>1, <2>1, <2>2 DEF TypeOK, Holds
  <2>7. Owned(d)'
    BY <1>1, <2>1, <2>2 DEF TypeOK, Holds
  <2> QED
    BY <2>3, <2>4, <2>5, <2>6, <2>7, OnlyOne DEF Holds
<1> QED
  BY <1>2, <1>3, <1>4, <1>5, <1>6, <1>7, <1>8 DEF Starter

(* Exits and their records.                                                *)
LEMMA ExitHolds ==
    ASSUME Inv, NEW d \in Deployments, Exit(d) \/ Crash(d)
    PROVE  \A e \in Deployments : Holds(e)'
<1> USE DEF Unborn, Origin, Young, Ripe, Going, Single, Served, Owned, Excused, Own,
            Backed, Rising, Falling, Serving, Marked, Halted, NoLoss
<1>1. TypeOK /\ Holds(d)
  BY DEF Inv
<1>2. ASSUME NEW c \in {"killed", "crash"}, CheckExit(d, c)
      PROVE  \A e \in Deployments : Holds(e)'
  <2>1. /\ <<d, c, "exited">> \in exited /\ starter[d] # "started"
        /\ \/ /\ exited' = exited \ {<<d, c, "exited">>}
              /\ status[d] \in {"stopped", "replaced", "draining"} \/ apps[d] = "none"
           \/ /\ exited' = (exited \ {<<d, c, "exited">>}) \cup {<<d, c, "failing">>}
              /\ apps[d] # "none" /\ status[d] \notin {"stopped", "draining"}
        /\ ~NoExit(d)
        /\ NoExit(d)' => status[d] \in {"stopped", "replaced", "draining"} \/ apps[d] = "none"
        /\ UNCHANGED <<status, pid, apps, old, drains, drain, pipe, starter, up,
                      orphan, resume, raced, quiet, left, restarted, rb, del>>
    BY <1>1, <1>2 DEF TypeOK, NoExit, CheckExit
  <2>2. lost' = lost /\ NoLoss(d)
    BY <1>1, <1>2, LossKept DEF CheckExit
  <2>3. ASSUME NEW e \in Deployments, e # d PROVE Same(e)
    BY <1>1, <1>2, <2>1, <2>2, <2>3, LossKept DEF TypeOK, CheckExit, Same
  <2>4. Unborn(d)' /\ Origin(d)' /\ Young(d)'
    BY <1>1, <2>1, <2>2 DEF TypeOK, Holds
  <2>5. Ripe(d)' /\ Going(d)' /\ Single(d)'
    BY <1>1, <2>1, <2>2 DEF TypeOK, Holds
  <2>6. Served(d)'
    BY <1>1, <2>1, <2>2 DEF TypeOK, Holds
  <2>7. Owned(d)'
    <3>1. /\ <<d, "killed", "exited">> \in exited' => <<d, "killed", "exited">> \in exited
          /\ <<d, "killed", "failing">> \in exited' =>
                \/ <<d, "killed", "failing">> \in exited
                \/ /\ <<d, "killed", "exited">> \in exited
                   /\ apps[d] # "none" /\ status[d] \notin {"stopped", "draining"}
      BY <2>1
    <3> QED
      BY <1>1, <2>1, <2>2, <3>1 DEF Holds
  <2> QED
    BY <2>3, <2>4, <2>5, <2>6, <2>7, OnlyOne DEF Holds
<1>3. ASSUME NEW c \in {"killed", "crash"}, RecordExit(d, c)
      PROVE  \A e \in Deployments : Holds(e)'
  <2>1. /\ <<d, c, "failing">> \in exited /\ ~NoExit(d)
        /\ exited' = exited \ {<<d, c, "failing">>}
        /\ UNCHANGED <<pid, apps, old, drains, drain, pipe, starter, up, orphan,
                      resume, raced, quiet, left, restarted, rb, del>>
    BY <1>1, <1>3 DEF TypeOK, NoExit, RecordExit
  <2>2. /\ status[d] \in DeploymentState \cup {NoRow} /\ RowOf(d)
        /\ \/ /\ status'[d] = IF status[d] \in Fresh \cup {"running", "draining"}
                                 THEN "failed" ELSE status[d]
              /\ NoLoss(d)
           \/ status'[d] = status[d] /\ FailureLost(d)' /\ (StopLost(d)' <=> StopLost(d))
    BY <1>1, <1>3, TransitionAt, Edges DEF RecordExit, Holds, DeploymentState, Stops
  <2>3. ASSUME NEW e \in Deployments, e # d PROVE Same(e)
    BY <1>1, <1>3, <2>1, <2>2, <2>3 DEF TypeOK, RecordExit, Same, RowOf
  <2>4. Unborn(d)' /\ Origin(d)' /\ Young(d)'
    BY <1>1, <2>1, <2>2 DEF TypeOK, Holds, DeploymentState
  <2>5. Ripe(d)' /\ Going(d)' /\ Single(d)'
    BY <1>1, <2>1, <2>2 DEF TypeOK, Holds, DeploymentState
  <2>6. Served(d)'
    BY <1>1, <2>1, <2>2 DEF TypeOK, Holds, DeploymentState
  <2>7. Owned(d)'
    BY <1>1, <2>1, <2>2 DEF TypeOK, Holds, DeploymentState
  <2> QED
    BY <2>3, <2>4, <2>5, <2>6, <2>7, OnlyOne DEF Holds
<1>4. CASE Crash(d)
  <2>1. /\ d \in up /\ d \notin up' /\ d \notin Static
        /\ d \in orphan' => d \in orphan
        /\ \/ d \in orphan /\ UNCHANGED <<exited, quiet>> /\ (NoExit(d)' <=> NoExit(d))
           \/ /\ exited' = exited \cup {<<d, "crash", "exited">>} /\ ~NoExit(d)'
              /\ UNCHANGED quiet
           \/ d \in quiet' /\ UNCHANGED exited /\ (NoExit(d)' <=> NoExit(d))
        /\ UNCHANGED <<status, pid, apps, old, drains, drain, pipe, starter, resume,
                      raced, left, restarted, rb, del>>
    BY <1>1, <1>4 DEF TypeOK, NoExit, Crash, Happens
  <2>2. lost' = lost /\ NoLoss(d)
    BY <1>1, <1>4, LossKept DEF Crash
  <2>3. ASSUME NEW e \in Deployments, e # d PROVE Same(e)
    BY <1>1, <1>4, <2>1, <2>2, <2>3, LossKept DEF TypeOK, Crash, Happens, Same
  <2>4. Unborn(d)' /\ Origin(d)' /\ Young(d)'
    BY <1>1, <2>1, <2>2 DEF TypeOK, Holds
  <2>5. Ripe(d)' /\ Going(d)' /\ Single(d)'
    BY <1>1, <2>1, <2>2 DEF TypeOK, Holds
  <2>6. Served(d)'
    BY <1>1, <2>1, <2>2 DEF TypeOK, Holds
  <2>7. Owned(d)'
    BY <1>1, <2>1, <2>2 DEF TypeOK, Holds
  <2> QED
    BY <2>3, <2>4, <2>5, <2>6, <2>7, OnlyOne DEF Holds
<1> QED
  BY <1>2, <1>3, <1>4 DEF Exit

(* drainDeployment.                                                        *)
LEMMA DrainHolds ==
    ASSUME Inv, NEW d \in Deployments, Drain(d)
    PROVE  \A e \in Deployments : Holds(e)'
<1> USE DEF Unborn, Origin, Young, Ripe, Going, Single, Served, Owned, Excused, Own,
            Backed, Rising, Falling, Serving, Marked, Halted, NoLoss
<1>1. TypeOK /\ Holds(d)
  BY DEF Inv
<1>2. CASE DrainBegin(d)
  <2>1. /\ drains[d] > 0 /\ drains'[d] = drains[d] - 1
        /\ drain'[d] = IF drain[d] = "idle" THEN "intent" ELSE drain[d]
        /\ UNCHANGED <<status, pid, apps, old, pipe, starter, up, orphan, resume,
                      raced, quiet, left, restarted, exited, rb, del>>
        /\ NoExit(d)' <=> NoExit(d)
    BY <1>1, <1>2 DEF TypeOK, NoExit, DrainBegin
  <2>2. lost' = lost /\ NoLoss(d)
    BY <1>1, <1>2, LossKept DEF DrainBegin
  <2>3. ASSUME NEW e \in Deployments, e # d PROVE Same(e)
    BY <1>1, <1>2, <2>1, <2>2, <2>3, LossKept DEF TypeOK, DrainBegin, Same
  <2>4. Unborn(d)' /\ Origin(d)' /\ Young(d)'
    BY <1>1, <2>1, <2>2 DEF TypeOK, Holds
  <2>5. Ripe(d)' /\ Going(d)' /\ Single(d)'
    BY <1>1, <2>1, <2>2 DEF TypeOK, Holds
  <2>6. Served(d)'
    BY <1>1, <2>1, <2>2 DEF TypeOK, Holds
  <2>7. Owned(d)'
    BY <1>1, <2>1, <2>2 DEF TypeOK, Holds
  <2> QED
    BY <2>3, <2>4, <2>5, <2>6, <2>7, OnlyOne DEF Holds
<1>3. CASE DrainIntent(d)
  <2>1. /\ drain[d] = "intent" /\ drain'[d] \in {"stop", "signal"}
        /\ UNCHANGED <<pid, apps, old, drains, pipe, starter, up, orphan, resume,
                      raced, quiet, left, restarted, exited, rb, del>>
        /\ NoExit(d)' <=> NoExit(d)
    BY <1>1, <1>3 DEF TypeOK, NoExit, DrainIntent, DrainTo
  <2>2. /\ status[d] \in DeploymentState \cup {NoRow} /\ RowOf(d)
        /\ \/ /\ status'[d] = IF status[d] = "running" THEN "draining" ELSE status[d]
              /\ NoLoss(d)
           \/ status'[d] = status[d] /\ StopLost(d)' /\ (FailureLost(d)' <=> FailureLost(d))
    BY <1>1, <1>3, TransitionAt, Edges DEF DrainIntent, Holds, DeploymentState, Stops
  <2>3. ASSUME NEW e \in Deployments, e # d PROVE Same(e)
    BY <1>1, <1>3, <2>1, <2>2, <2>3 DEF TypeOK, DrainIntent, DrainTo, Same, RowOf
  <2>4. Unborn(d)' /\ Origin(d)' /\ Young(d)'
    BY <1>1, <2>1, <2>2 DEF TypeOK, Holds, DeploymentState
  <2>5. Ripe(d)' /\ Going(d)' /\ Single(d)'
    BY <1>1, <2>1, <2>2 DEF TypeOK, Holds, DeploymentState
  <2>6. Served(d)'
    BY <1>1, <2>1, <2>2 DEF TypeOK, Holds, DeploymentState
  <2>7. Owned(d)'
    BY <1>1, <2>1, <2>2 DEF TypeOK, Holds, DeploymentState
  <2> QED
    BY <2>3, <2>4, <2>5, <2>6, <2>7, OnlyOne DEF Holds
<1>4. CASE DrainSignal(d)
  <2>1. /\ drain[d] = "signal" /\ drain'[d] = "waiting"
        /\ UNCHANGED <<status, pid, apps, old, drains, pipe, starter, up, orphan,
                      resume, raced, quiet, left, restarted, exited, rb, del>>
        /\ NoExit(d)' <=> NoExit(d)
    BY <1>1, <1>4 DEF TypeOK, NoExit, DrainSignal, DrainTo
  <2>2. lost' = lost /\ NoLoss(d)
    BY <1>1, <1>4, LossKept DEF DrainSignal
  <2>3. ASSUME NEW e \in Deployments, e # d PROVE Same(e)
    BY <1>1, <1>4, <2>1, <2>2, <2>3, LossKept DEF TypeOK, DrainSignal, DrainTo, Same
  <2>4. Unborn(d)' /\ Origin(d)' /\ Young(d)'
    BY <1>1, <2>1, <2>2 DEF TypeOK, Holds
  <2>5. Ripe(d)' /\ Going(d)' /\ Single(d)'
    BY <1>1, <2>1, <2>2 DEF TypeOK, Holds
  <2>6. Served(d)'
    BY <1>1, <2>1, <2>2 DEF TypeOK, Holds
  <2>7. Owned(d)'
    BY <1>1, <2>1, <2>2 DEF TypeOK, Holds
  <2> QED
    BY <2>3, <2>4, <2>5, <2>6, <2>7, OnlyOne DEF Holds
<1>5. CASE DrainExit(d)
  <2>1. /\ drain[d] = "waiting" /\ drain'[d] = "remove"
        /\ <<d, "killed", "exited">> \in exited' \ exited => d \notin Static
        /\ \/ exited' = exited /\ (NoExit(d)' <=> NoExit(d))
           \/ exited' = exited \cup {<<d, "killed", "exited">>} /\ ~NoExit(d)'
        /\ d \in up' => d \in up
        /\ d \in orphan' => d \in orphan
        /\ UNCHANGED <<status, pid, apps, old, drains, pipe, starter, resume, raced,
                      quiet, left, restarted, rb, del>>
    BY <1>1, <1>5 DEF TypeOK, NoExit, DrainExit, DrainTo, Kill
  <2>2. lost' = lost /\ NoLoss(d)
    BY <1>1, <1>5, LossKept DEF DrainExit
  <2>3. ASSUME NEW e \in Deployments, e # d PROVE Same(e)
    BY <1>1, <1>5, <2>1, <2>2, <2>3, LossKept DEF TypeOK, DrainExit, DrainTo, Kill, Same
  <2>4. Unborn(d)' /\ Origin(d)' /\ Young(d)'
    BY <1>1, <2>1, <2>2 DEF TypeOK, Holds
  <2>5. Ripe(d)' /\ Going(d)' /\ Single(d)'
    BY <1>1, <2>1, <2>2 DEF TypeOK, Holds
  <2>6. Served(d)'
    BY <1>1, <2>1, <2>2 DEF TypeOK, Holds
  <2>7. Owned(d)'
    BY <1>1, <2>1, <2>2 DEF TypeOK, Holds
  <2> QED
    BY <2>3, <2>4, <2>5, <2>6, <2>7, OnlyOne DEF Holds
<1>6. CASE DrainRemove(d)
  <2>1. /\ drain[d] = "remove" /\ drain'[d] = "finish"
        /\ apps'[d] = "none"
        /\ UNCHANGED <<status, pid, old, drains, pipe, starter, up, orphan, resume,
                      raced, quiet, left, restarted, exited, rb, del>>
        /\ NoExit(d)' <=> NoExit(d)
    BY <1>1, <1>6 DEF TypeOK, NoExit, DrainRemove, DrainTo
  <2>2. lost' = lost /\ NoLoss(d)
    BY <1>1, <1>6, LossKept DEF DrainRemove
  <2>3. ASSUME NEW e \in Deployments, e # d PROVE Same(e)
    BY <1>1, <1>6, <2>1, <2>2, <2>3, LossKept DEF TypeOK, DrainRemove, DrainTo, Same
  <2>4. Unborn(d)' /\ Origin(d)' /\ Young(d)'
    BY <1>1, <2>1, <2>2 DEF TypeOK, Holds
  <2>5. Ripe(d)' /\ Going(d)' /\ Single(d)'
    BY <1>1, <2>1, <2>2 DEF TypeOK, Holds
  <2>6. Served(d)'
    BY <1>1, <2>1, <2>2 DEF TypeOK, Holds
  <2>7. Owned(d)'
    BY <1>1, <2>1, <2>2 DEF TypeOK, Holds
  <2> QED
    BY <2>3, <2>4, <2>5, <2>6, <2>7, OnlyOne DEF Holds
<1>7. CASE DrainFinish(d)
  <2>1. /\ drain[d] = "finish" /\ drain'[d] = "idle"
        /\ UNCHANGED <<pid, apps, old, drains, pipe, starter, up, orphan, resume,
                      raced, quiet, left, restarted, exited, rb, del>>
        /\ NoExit(d)' <=> NoExit(d)
    BY <1>1, <1>7 DEF TypeOK, NoExit, DrainFinish, DrainTo
  <2>2. /\ status[d] \in DeploymentState \cup {NoRow} /\ RowOf(d)
        /\ \/ /\ status'[d] = IF status[d] = "draining" THEN "stopped" ELSE status[d]
              /\ NoLoss(d)
           \/ status'[d] = status[d] /\ StopLost(d)' /\ (FailureLost(d)' <=> FailureLost(d))
    BY <1>1, <1>7, TransitionAt, Edges DEF DrainFinish, Holds, DeploymentState, Stops
  <2>3. ASSUME NEW e \in Deployments, e # d PROVE Same(e)
    BY <1>1, <1>7, <2>1, <2>2, <2>3 DEF TypeOK, DrainFinish, DrainTo, Same, RowOf
  <2>4. Unborn(d)' /\ Origin(d)' /\ Young(d)'
    BY <1>1, <2>1, <2>2 DEF TypeOK, Holds, DeploymentState
  <2>5. Ripe(d)' /\ Going(d)' /\ Single(d)'
    BY <1>1, <2>1, <2>2 DEF TypeOK, Holds, DeploymentState
  <2>6. Served(d)'
    BY <1>1, <2>1, <2>2 DEF TypeOK, Holds, DeploymentState
  <2>7. Owned(d)'
    BY <1>1, <2>1, <2>2 DEF TypeOK, Holds, DeploymentState
  <2> QED
    BY <2>3, <2>4, <2>5, <2>6, <2>7, OnlyOne DEF Holds
<1>8. CASE DrainStop(d)
  <2>1. /\ drain[d] = "stop" /\ drain'[d] = "force"
        /\ apps'[d] = "none"
        /\ <<d, "killed", "exited">> \in exited' \ exited => d \notin Static
        /\ \/ exited' = exited /\ (NoExit(d)' <=> NoExit(d))
           \/ exited' = exited \cup {<<d, "killed", "exited">>} /\ ~NoExit(d)'
        /\ d \in up' => d \in up
        /\ d \in orphan' => d \in orphan
        /\ UNCHANGED <<status, pid, old, drains, pipe, starter, resume, raced,
                      quiet, left, restarted, rb, del>>
    BY <1>1, <1>8 DEF TypeOK, NoExit, DrainStop, DrainTo, StopApp, Kill
  <2>2. lost' = lost /\ NoLoss(d)
    BY <1>1, <1>8, LossKept DEF DrainStop
  <2>3. ASSUME NEW e \in Deployments, e # d PROVE Same(e)
    BY <1>1, <1>8, <2>1, <2>2, <2>3, LossKept DEF TypeOK, DrainStop, DrainTo, StopApp, Kill, Same
  <2>4. Unborn(d)' /\ Origin(d)' /\ Young(d)'
    BY <1>1, <2>1, <2>2 DEF TypeOK, Holds
  <2>5. Ripe(d)' /\ Going(d)' /\ Single(d)'
    BY <1>1, <2>1, <2>2 DEF TypeOK, Holds
  <2>6. Served(d)'
    BY <1>1, <2>1, <2>2 DEF TypeOK, Holds
  <2>7. Owned(d)'
    BY <1>1, <2>1, <2>2 DEF TypeOK, Holds
  <2> QED
    BY <2>3, <2>4, <2>5, <2>6, <2>7, OnlyOne DEF Holds
<1>9. CASE DrainForce(d)
  <2>1. /\ drain[d] = "force" /\ drain'[d] = "idle"
        /\ UNCHANGED <<pid, apps, old, drains, pipe, starter, up, orphan, resume,
                      raced, quiet, left, restarted, exited, rb, del>>
        /\ NoExit(d)' <=> NoExit(d)
    BY <1>1, <1>9 DEF TypeOK, NoExit, DrainForce, DrainTo
  <2>2. /\ RowOf(d)
        /\ \/ /\ status'[d] = IF status[d] # NoRow THEN "stopped" ELSE status[d]
              /\ NoLoss(d)
           \/ status'[d] = status[d] /\ StopLost(d)' /\ (FailureLost(d)' <=> FailureLost(d))
    BY <1>1, <1>9, ForceAt DEF DrainForce
  <2>3. ASSUME NEW e \in Deployments, e # d PROVE Same(e)
    BY <1>1, <1>9, <2>1, <2>2, <2>3 DEF TypeOK, DrainForce, DrainTo, Same, RowOf
  <2>4. Unborn(d)' /\ Origin(d)' /\ Young(d)'
    BY <1>1, <2>1, <2>2 DEF TypeOK, Holds, DeploymentState
  <2>5. Ripe(d)' /\ Going(d)' /\ Single(d)'
    BY <1>1, <2>1, <2>2 DEF TypeOK, Holds, DeploymentState
  <2>6. Served(d)'
    BY <1>1, <2>1, <2>2 DEF TypeOK, Holds, DeploymentState
  <2>7. Owned(d)'
    BY <1>1, <2>1, <2>2 DEF TypeOK, Holds, DeploymentState
  <2> QED
    BY <2>3, <2>4, <2>5, <2>6, <2>7, OnlyOne DEF Holds
<1> QED
  BY <1>2, <1>3, <1>4, <1>5, <1>6, <1>7, <1>8, <1>9 DEF Drain

(* Rollback: the deployment it replaces is c, the one it restores is p.    *)
LEMMA RollbackHolds ==
    ASSUME Inv, Rollback
    PROVE  \A e \in Deployments : Holds(e)'
<1> USE DEF Unborn, Origin, Young, Ripe, Going, Single, Served, Owned, Excused, Own,
            Backed, Rising, Falling, Serving, Marked, Halted, NoLoss
<1>1. PICK c \in Deployments, p \in Deployments :
         /\ rb.cur = c /\ rb.prev = p /\ c # p
         /\ rb = [pc |-> rb.pc, cur |-> c, prev |-> p]
  BY DEF Inv, CallsOK, Rollback, RollbackStop, RollbackMark, RollbackRestore,
         RollbackServe
<1>2. TypeOK /\ CallsOK /\ Holds(c) /\ Holds(p)
  BY DEF Inv
<1>3. CASE RollbackStop
  <2>1. /\ rb.pc = "stop" /\ rb' = [pc |-> "mark", cur |-> c, prev |-> p]
        /\ apps'[c] = "none"
        /\ \/ exited' = exited
           \/ /\ exited' = exited \cup {<<c, "killed", "exited">>}
              /\ apps[c] # "none" /\ c \notin Static
        /\ c \in up' => c \in up /\ orphan' = orphan
        /\ c \in orphan' => c \in orphan
        /\ apps[c] = "none" => UNCHANGED <<up, orphan, exited>>
        /\ UNCHANGED <<status, pid, old, drains, drain, pipe, starter, resume, raced,
                       quiet, left, restarted, del>>
    BY <1>1, <1>2, <1>3 DEF TypeOK, RollbackStop, StopApp, Kill
  <2>2. lost' = lost /\ NoLoss(c)
    BY <1>3, LossKept DEF RollbackStop
  <2>3. ASSUME NEW e \in Deployments, e # c PROVE Same(e)
    BY <1>1, <1>2, <1>3, <2>1, <2>2, <2>3, LossKept
       DEF TypeOK, RollbackStop, StopApp, Kill, Same
  <2>4. /\ NoExit(c)' => NoExit(c)
        /\ apps[c] = "none" => (NoExit(c)' <=> NoExit(c))
    BY <2>1 DEF NoExit
  <2>5. Unborn(c)' /\ Origin(c)' /\ Young(c)'
    BY <1>1, <1>2, <2>1, <2>2, <2>4 DEF Holds
  <2>6. Ripe(c)' /\ Going(c)' /\ Single(c)'
    BY <1>1, <1>2, <2>1, <2>2 DEF Holds
  <2>7. Served(c)'
    BY <1>1, <1>2, <2>1, <2>2, <2>4 DEF Holds
  <2>8. Owned(c)'
    BY <1>1, <1>2, <2>1, <2>2 DEF Holds
  <2> QED
    BY <2>3, <2>5, <2>6, <2>7, <2>8, OnlyOne DEF Holds
<1>4. CASE RollbackMark
  <2>1. /\ status[c] \in DeploymentState \cup {NoRow} /\ RowOf(c)
        /\ \/ /\ status'[c] = IF status[c] = "running" THEN "rolled_back" ELSE status[c]
              /\ NoLoss(c)
           \/ status'[c] = status[c] /\ StopLost(c)' /\ (FailureLost(c)' <=> FailureLost(c))
    BY <1>1, <1>2, <1>4, TransitionAt, Edges
       DEF RollbackMark, Holds, DeploymentState, Stops
  <2>2. /\ rb.pc = "mark" /\ rb' = [pc |-> "restore", cur |-> c, prev |-> p]
        /\ UNCHANGED <<pid, apps, old, drains, drain, pipe, starter, up, orphan, resume,
                       raced, quiet, left, restarted, exited, del>>
        /\ NoExit(c)' <=> NoExit(c)
    BY <1>1, <1>4 DEF RollbackMark, NoExit
  <2>3. ASSUME NEW e \in Deployments, e # c PROVE Same(e)
    BY <1>1, <2>1, <2>2, <2>3 DEF Same, RowOf
  <2>4. Unborn(c)' /\ Origin(c)' /\ Young(c)'
    BY <1>1, <1>2, <2>1, <2>2 DEF TypeOK, Holds, DeploymentState
  <2>5. Ripe(c)' /\ Going(c)' /\ Single(c)'
    BY <1>1, <1>2, <2>1, <2>2 DEF TypeOK, Holds, DeploymentState
  <2>6. Served(c)'
    BY <1>1, <1>2, <2>1, <2>2 DEF Holds
  <2>7. Owned(c)'
    BY <1>1, <1>2, <2>1, <2>2 DEF TypeOK, Holds, DeploymentState
  <2> QED
    BY <2>3, <2>4, <2>5, <2>6, <2>7, OnlyOne DEF Holds
<1>5. CASE RollbackRestore
  <2>1. /\ rb.pc = "restore" /\ rb' = [pc |-> "serve", cur |-> c, prev |-> p]
        /\ UNCHANGED <<pid, apps, old, drains, drain, pipe, starter, up, orphan, resume,
                       restarted, exited, del>>
        /\ NoExit(p)' <=> NoExit(p)
        /\ \A e \in Deployments : e # p =>
              /\ e \in raced' <=> e \in raced
              /\ e \in quiet' <=> e \in quiet
              /\ e \in left' <=> e \in left
    <3>1. /\ rb.pc = "restore" /\ rb' = [pc |-> "serve", cur |-> c, prev |-> p]
          /\ UNCHANGED <<pid, apps, old, drains, drain, pipe, starter, up, orphan,
                         resume, restarted, exited, del>>
      BY <1>1, <1>2, <1>5 DEF RollbackRestore
    <3>2. \/ UNCHANGED <<quiet, left>> /\ raced' = raced \cup {p}
          \/ raced' = raced \ {p} /\ quiet' = quiet \ {p} /\ left' = left \ {p}
      BY <1>1, <1>5 DEF RollbackRestore
    <3> QED
      BY <3>1, <3>2 DEF NoExit
  <2>2. CASE AtRest(p)
    <3>1. /\ \A e \in Deployments : e # p => status'[e] = status[e]
          /\ status[p] = "stopped" /\ status'[p] \in {"running", "stopped"}
      BY <1>1, <1>2, <1>5, <2>2 DEF TypeOK, RollbackRestore, Write, Moved, AtRest
    <3>2. \/ lost' = {w \in lost : w[1] # p}
          \/ lost' = {w \in lost : w[1] # p} \cup {<<p, "running">>}
      BY <1>1, <1>5, <2>2 DEF RollbackRestore, Write
    <3>3. /\ ~StopLost(p)' /\ ~FailureLost(p)'
          /\ \A e \in Deployments : e # p => NoLoss(e)
      BY <3>2 DEF StopLost, FailureLost
    <3>4. p \notin raced' /\ p \notin quiet' /\ p \notin left'
      BY <1>1, <1>5, <2>2 DEF RollbackRestore
    <3>5. ASSUME NEW e \in Deployments, e # p PROVE Same(e)
      BY <1>1, <2>1, <3>1, <3>3, <3>5 DEF Same
    <3>6. /\ pipe[p] = "done" /\ starter[p] = "none" /\ apps[p] = "none"
          /\ drain[p] = "idle" /\ p \notin resume /\ NoExit(p)
      BY <2>2 DEF AtRest
    <3>7. Unborn(p)' /\ Origin(p)' /\ Young(p)'
      BY <1>1, <1>2, <2>1, <3>1, <3>6 DEF Holds
    <3>8. Ripe(p)' /\ Going(p)' /\ Single(p)' /\ Served(p)'
      BY <1>1, <1>2, <2>1, <3>1, <3>6 DEF Holds
    <3>9. Owned(p)'
      BY <2>1, <3>6 DEF NoExit
    <3> QED
      BY <3>5, <3>7, <3>8, <3>9, OnlyOne DEF Holds
  <2>3. CASE ~AtRest(p)
    <3>1. /\ status[p] \in DeploymentState \cup {NoRow} /\ RowOf(p)
          /\ status'[p] \in {"running", status[p]}
          /\ status[p] = NoRow => status'[p] = NoRow
      BY <1>1, <1>2, <1>5, <2>3, TransitionAt
         DEF RollbackRestore, Holds, DeploymentState, Stops
    <3>2. p \in raced'
      BY <1>1, <1>5, <2>3 DEF RollbackRestore
    <3>3. ASSUME NEW e \in Deployments, e # p PROVE Same(e)
      BY <1>1, <2>1, <3>1, <3>3 DEF Same, RowOf
    <3>4. Unborn(p)' /\ Origin(p)' /\ Young(p)'
      BY <1>1, <1>2, <2>1, <3>1 DEF Holds, DeploymentState
    <3> QED
      BY <3>2, <3>3, <3>4, OnlyOne DEF Holds
  <2> QED
    BY <2>2, <2>3
<1>6. CASE RollbackServe
  <2>1. /\ rb.pc = "serve" /\ rb' = NoRollback
        /\ \A e \in Deployments : e # p =>
              UNCHANGED <<starter[e], e \in raced>>
        /\ \/ starter'[p] = (IF p \in Static THEN "serve" ELSE "start") /\ UNCHANGED raced
           \/ p \in raced' /\ UNCHANGED starter
        /\ UNCHANGED <<status, pid, apps, old, drains, drain, pipe, up, orphan, resume,
                       quiet, left, restarted, exited, del>>
    BY <1>1, <1>2, <1>6 DEF TypeOK, RollbackServe
  <2>2. /\ lost' = lost /\ NoLoss(c) /\ NoLoss(p)
        /\ NoExit(c)' <=> NoExit(c)
        /\ NoExit(p)' <=> NoExit(p)
    BY <1>6, <2>1, LossKept DEF RollbackServe, NoExit
  <2>3. ASSUME NEW e \in Deployments, e # c, e # p PROVE Holds(e)'
    <3>1. Same(e)
      BY <1>1, <2>1, <2>2, <2>3, LossKept, KindsAssumption DEF Same
    <3> QED
      BY <3>1, Frame DEF Inv
  <2>4. Holds(c)'
    <3>1. Unborn(c)' /\ Origin(c)' /\ Young(c)'
      BY <1>1, <1>2, <2>1, <2>2, KindsAssumption DEF Holds
    <3>2. Ripe(c)' /\ Going(c)' /\ Single(c)'
      BY <1>1, <1>2, <2>1, <2>2, KindsAssumption DEF Holds
    <3>3. Served(c)'
      BY <1>1, <1>2, <2>1, <2>2, KindsAssumption DEF Holds
    <3>4. Owned(c)'
      BY <1>1, <1>2, <2>1, <2>2, KindsAssumption DEF Holds
    <3> QED
      BY <3>1, <3>2, <3>3, <3>4 DEF Holds
  <2>5. Holds(p)'
    <3>1. Unborn(p)' /\ Origin(p)' /\ Young(p)'
      BY <1>1, <1>2, <2>1, <2>2, KindsAssumption DEF Holds
    <3>2. Ripe(p)' /\ Going(p)' /\ Single(p)'
      BY <1>1, <1>2, <2>1, <2>2, KindsAssumption DEF Holds
    <3>3. Served(p)'
      BY <1>1, <1>2, <2>1, <2>2, KindsAssumption DEF Holds
    <3>4. Owned(p)'
      BY <1>1, <1>2, <2>1, <2>2, KindsAssumption DEF Holds
    <3> QED
      BY <3>1, <3>2, <3>3, <3>4 DEF Holds
  <2> QED
    BY <2>3, <2>4, <2>5
<1> QED
  BY <1>3, <1>4, <1>5, <1>6 DEF Rollback

(* A rollback is asked for.                                                *)
LEMMA RollbackBeginHolds ==
    ASSUME Inv, NEW d \in Deployments, RollbackBegin(d)
    PROVE  \A e \in Deployments : Holds(e)'
<1> USE DEF Unborn, Origin, Young, Ripe, Going, Single, Served, Owned, Excused, Own,
            Backed, Rising, Falling, Serving, Marked, Halted, NoLoss
<1>1. PICK p \in Deployments : /\ p \in Eligible(d)
                               /\ rb' = [pc |-> "stop", cur |-> d, prev |-> p]
  BY DEF RollbackBegin, Newest
<1>2. p # d /\ status[p] \notin {NoRow, "pending", "building", "deploying"}
  BY <1>1 DEF Eligible, IsInFlight
<1>3. /\ rb = NoRollback /\ status[d] = "running"
      /\ UNCHANGED <<status, pid, apps, old, drains, drain, pipe, starter, up, orphan,
                     resume, raced, quiet, left, restarted, exited, del>>
      /\ NoExit(d)' <=> NoExit(d)
      /\ NoExit(p)' <=> NoExit(p)
  BY DEF Inv, CallsOK, RollbackBegin, Happens, NoExit
<1>4. TypeOK /\ Holds(d) /\ Holds(p)
  BY DEF Inv
<1>5. lost' = lost /\ NoLoss(d) /\ NoLoss(p)
  BY LossKept DEF RollbackBegin
<1>6. ASSUME NEW e \in Deployments, e # d, e # p PROVE Holds(e)'
  <2>1. Same(e)
    BY <1>1, <1>3, <1>5, <1>6, LossKept, KindsAssumption DEF Same
  <2> QED
    BY <2>1, Frame DEF Inv
<1>7. Holds(d)'
  <2>1. Unborn(d)' /\ Origin(d)' /\ Young(d)'
    BY <1>1, <1>2, <1>3, <1>4, <1>5 DEF Holds
  <2>2. Ripe(d)' /\ Going(d)' /\ Single(d)'
    BY <1>1, <1>2, <1>3, <1>4, <1>5, KindsAssumption DEF Holds
  <2>3. Served(d)'
    BY <1>1, <1>2, <1>3, <1>4, <1>5, KindsAssumption DEF Holds
  <2>4. Owned(d)'
    BY <1>1, <1>2, <1>3, <1>4, <1>5, KindsAssumption DEF Holds
  <2> QED
    BY <2>1, <2>2, <2>3, <2>4 DEF Holds
<1>8. Holds(p)'
  <2>1. Unborn(p)' /\ Origin(p)' /\ Young(p)'
    BY <1>1, <1>2, <1>3, <1>4, <1>5 DEF Holds
  <2>2. Ripe(p)' /\ Going(p)' /\ Single(p)'
    BY <1>1, <1>2, <1>3, <1>4, <1>5, KindsAssumption DEF Holds
  <2>3. Served(p)'
    BY <1>1, <1>2, <1>3, <1>4, <1>5, KindsAssumption DEF Holds
  <2>4. Owned(p)'
    BY <1>1, <1>2, <1>3, <1>4, <1>5, KindsAssumption DEF Holds
  <2> QED
    BY <2>1, <2>2, <2>3, <2>4 DEF Holds
<1> QED
  BY <1>6, <1>7, <1>8

(* The delete handler.                                                     *)
LEMMA DeleteHolds ==
    ASSUME Inv, Delete \/ \E d \in Deployments : DeleteBegin(d)
    PROVE  \A e \in Deployments : Holds(e)'
<1> USE DEF Unborn, Origin, Young, Ripe, Going, Single, Served, Owned, Excused, Own,
            Backed, Rising, Falling, Serving, Marked, Halted, NoLoss
<1>1. ASSUME NEW d \in Deployments, DeleteBegin(d)
      PROVE  \A e \in Deployments : Holds(e)'
  <2>1. /\ del.id = NoRoute /\ del' = [pc |-> "stop", id |-> d]
        /\ status[d] \notin Fresh \cup {NoRow}
        /\ UNCHANGED <<status, pid, apps, old, drains, drain, pipe, starter, up, orphan,
                       resume, raced, quiet, left, restarted, exited, rb>>
        /\ NoExit(d)' <=> NoExit(d)
    BY <1>1 DEF Inv, CallsOK, DeleteBegin, Happens, CanDelete, IsInFlight, NoExit
  <2>2. lost' = lost /\ NoLoss(d)
    BY <1>1, LossKept DEF DeleteBegin
  <2>3. ASSUME NEW e \in Deployments, e # d PROVE Same(e)
    BY <2>1, <2>2, <2>3, LossKept, KindsAssumption DEF Same
  <2>4. Holds(d)
    BY DEF Inv
  <2>5. Unborn(d)' /\ Origin(d)' /\ Young(d)'
    BY <2>1, <2>2, <2>4, KindsAssumption DEF Holds
  <2>6. Ripe(d)' /\ Going(d)' /\ Single(d)'
    BY <2>1, <2>2, <2>4, KindsAssumption DEF Holds
  <2>7. Served(d)' /\ Owned(d)'
    BY <2>1, <2>2, <2>4, KindsAssumption DEF Holds
  <2> QED
    BY <2>3, <2>5, <2>6, <2>7, OnlyOne DEF Holds
<1>2. ASSUME Delete PROVE \A e \in Deployments : Holds(e)'
  <2>1. PICK d \in Deployments : del.id = d /\ del = [pc |-> del.pc, id |-> d]
    BY <1>2 DEF Inv, CallsOK, Delete, DeleteStop, DeleteForce, DeleteRow
  <2>2. TypeOK /\ Holds(d)
    BY DEF Inv
  <2>3. CASE DeleteStop
    <3>1. /\ del' = [pc |-> "force", id |-> d] /\ apps'[d] = "none"
          /\ \/ exited' = exited
             \/ exited' = exited \cup {<<d, "killed", "exited">>} /\ d \notin Static
          /\ d \in up' => d \in up /\ orphan' = orphan
          /\ d \in orphan' => d \in orphan
          /\ UNCHANGED <<status, pid, old, drains, drain, pipe, starter, resume, raced,
                         quiet, left, restarted, rb>>
      BY <2>1, <2>2, <2>3 DEF TypeOK, DeleteStop, StopApp, Kill
    <3>2. lost' = lost /\ NoLoss(d)
      BY <2>3, LossKept DEF DeleteStop
    <3>3. ASSUME NEW e \in Deployments, e # d PROVE Same(e)
      BY <2>1, <2>2, <2>3, <3>1, <3>2, <3>3, LossKept
         DEF TypeOK, DeleteStop, StopApp, Kill, Same
    <3>4. /\ NoExit(d)' => NoExit(d)
          /\ d \in up /\ d \notin up' => ~NoExit(d)' \/ d \in orphan \/ d \in Static
      BY <2>1, <2>2, <2>3 DEF TypeOK, NoExit, DeleteStop, StopApp, Kill
    <3>5. Unborn(d)' /\ Origin(d)' /\ Young(d)'
      BY <2>1, <2>2, <3>1, <3>2 DEF Holds
    <3>6. Ripe(d)' /\ Going(d)' /\ Single(d)'
      BY <2>1, <2>2, <3>1, <3>2 DEF Holds
    <3>7. Served(d)'
      BY <2>1, <2>2, <3>1, <3>2, <3>4 DEF Holds
    <3>8. Owned(d)'
      BY <2>1, <2>2, <3>1, <3>2 DEF Holds
    <3> QED
      BY <3>3, <3>5, <3>6, <3>7, <3>8, OnlyOne DEF Holds
  <2>4. CASE DeleteForce
    <3>1. /\ RowOf(d)
          /\ \/ /\ status'[d] = IF status[d] # NoRow THEN "stopped" ELSE status[d]
                /\ NoLoss(d)
             \/ status'[d] = status[d] /\ StopLost(d)' /\ (FailureLost(d)' <=> FailureLost(d))
      BY <2>1, <2>2, <2>4, ForceAt DEF DeleteForce
    <3>2. /\ del' = [pc |-> "row", id |-> d]
          /\ UNCHANGED <<pid, apps, old, drains, drain, pipe, starter, up, orphan, resume,
                         raced, quiet, left, restarted, exited, rb>>
          /\ NoExit(d)' <=> NoExit(d)
      BY <2>1, <2>4 DEF DeleteForce, NoExit
    <3>3. ASSUME NEW e \in Deployments, e # d PROVE Same(e)
      BY <2>1, <3>1, <3>2, <3>3 DEF Same, RowOf
    <3>4. Unborn(d)' /\ Origin(d)' /\ Young(d)'
      BY <2>1, <2>2, <3>1, <3>2 DEF Holds
    <3>5. Ripe(d)' /\ Going(d)' /\ Single(d)'
      BY <2>1, <2>2, <3>1, <3>2 DEF Holds
    <3>6. Served(d)' /\ Owned(d)'
      BY <2>1, <2>2, <3>1, <3>2 DEF Holds
    <3> QED
      BY <3>3, <3>4, <3>5, <3>6, OnlyOne DEF Holds
  <2>5. CASE DeleteRow
    <3>1. /\ del' = NoDelete
          /\ \A e \in Deployments : e # d => UNCHANGED <<status[e], pid[e]>>
          /\ \/ status'[d] = NoRow /\ lost' = lost
             \/ /\ status'[d] = status[d] /\ lost' = lost \cup {<<d, NoRow>>}
                /\ status'[d] = NoRow \/ pid'[d] = pid[d]
          /\ UNCHANGED <<apps, old, drains, drain, pipe, starter, up, orphan, resume,
                         raced, quiet, left, restarted, exited, rb>>
          /\ NoExit(d)' <=> NoExit(d)
      BY <2>1, <2>2, <2>5 DEF TypeOK, DeleteRow, Write, NoExit
    <3>2. /\ \A e \in Deployments : e # d => NoLoss(e)
          /\ \/ status'[d] = NoRow
             \/ status'[d] = status[d] /\ StopLost(d)' /\ pid'[d] = pid[d]
      BY <3>1, LossAt DEF Stops
    <3>3. ASSUME NEW e \in Deployments, e # d PROVE Same(e)
      BY <2>1, <3>1, <3>2, <3>3, KindsAssumption DEF Same
    <3>4. Unborn(d)' /\ Origin(d)' /\ Young(d)'
      BY <2>1, <2>2, <3>1, <3>2, KindsAssumption DEF Holds
    <3>5. (StopLost(d) => StopLost(d)') /\ (FailureLost(d) => FailureLost(d)')
      BY <3>1 DEF StopLost, FailureLost
    <3>6. Ripe(d)' /\ Going(d)' /\ Single(d)'
      BY <2>1, <2>2, <3>1, <3>2, <3>5, KindsAssumption DEF Holds
    <3>7. Served(d)' /\ Owned(d)'
      BY <2>1, <2>2, <3>1, <3>2, <3>5, KindsAssumption DEF Holds
    <3> QED
      BY <3>3, <3>4, <3>6, <3>7, OnlyOne DEF Holds
  <2> QED
    BY <1>2, <2>3, <2>4, <2>5 DEF Delete
<1> QED
  BY <1>1, <1>2

(* resumeCandidates.                                                       *)
LEMMA ResumeHolds ==
    ASSUME Inv, NEW d \in Deployments, Resume(d)
    PROVE  \A e \in Deployments : Holds(e)'
<1> USE DEF Unborn, Origin, Young, Ripe, Going, Single, Served, Owned, Excused, Own,
            Backed, Rising, Falling, Serving, Marked, Halted, NoLoss
<1>1. TypeOK /\ Holds(d)
  BY DEF Inv
<1>2. /\ d \in resume /\ d \notin resume'
      /\ UNCHANGED <<pid, old, drains, drain, pipe, up, orphan, raced, quiet, restarted,
                     exited, rb, del>>
      /\ NoExit(d)' <=> NoExit(d)
  BY DEF Resume, NoExit
<1>3. /\ RowOf(d) /\ (StopLost(d)' <=> StopLost(d)) /\ (FailureLost(d) => FailureLost(d)')
      /\ status'[d] = NoRow <=> status[d] = NoRow
      /\ d \in left => d \in left'
      /\ \/ /\ d \notin Static /\ starter'[d] = "start"
            /\ UNCHANGED <<status, apps>>
         \/ /\ d \in Static /\ starter'[d] = "supervise" /\ apps'[d] = "live"
            /\ UNCHANGED status
         \/ /\ UNCHANGED <<starter, apps>>
            /\ \/ status'[d] = IF status[d] # NoRow THEN "failed" ELSE status[d]
               \/ status'[d] = status[d] /\ FailureLost(d)'
         \/ /\ UNCHANGED <<starter, apps, status>>
            /\ d \in left'
  <2>1. CASE ForceStatus(d, "failed") /\ UNCHANGED <<starter, apps, left>>
    BY <1>1, <2>1, ForceAt
  <2>2. CASE /\ UNCHANGED <<status, lost, apps, left>>
             /\ d \notin Static /\ starter'[d] = "start"
    BY <2>2, LossKept DEF RowOf
  <2>3. CASE /\ UNCHANGED <<status, lost, left>>
             /\ d \in Static /\ starter'[d] = "supervise" /\ apps'[d] = "live"
    BY <2>3, LossKept DEF RowOf
  <2>4. CASE UNCHANGED <<status, lost, starter, apps>> /\ left' = left \cup {d}
    BY <2>4, LossKept DEF RowOf
  <2> QED
    BY <1>1, <2>1, <2>2, <2>3, <2>4 DEF TypeOK, Resume
<1>4. ASSUME NEW e \in Deployments, e # d PROVE Same(e)
  BY <1>1, <1>2, <1>3, <1>4 DEF TypeOK, Resume, Same, RowOf
<1>5. Unborn(d)' /\ Origin(d)' /\ Young(d)'
  BY <1>1, <1>2, <1>3 DEF Holds
<1>6. Ripe(d)' /\ Going(d)' /\ Single(d)'
  BY <1>1, <1>2, <1>3 DEF Holds
<1>7. Served(d)'
  BY <1>1, <1>2, <1>3 DEF Holds
<1>8. Owned(d)'
  BY <1>1, <1>2, <1>3 DEF Holds
<1> QED
  BY <1>4, <1>5, <1>6, <1>7, <1>8, OnlyOne DEF Holds

(* BigBase restarts: every goroutine is gone, every row is an older one.   *)
LEMMA RestartHolds ==
    ASSUME Inv, NEW clean \in BOOLEAN, NEW stale \in SUBSET Deployments,
           Restart(clean, stale)
    PROVE  \A e \in Deployments : Holds(e)'
<1> USE DEF Unborn, Origin, Young, Ripe, Going, Single, Served, Owned, Excused, Own,
            Backed, Rising, Falling, Serving, Marked, Halted
<1> SUFFICES ASSUME NEW e \in Deployments PROVE Holds(e)'
  OBVIOUS
<1>1. TypeOK /\ Holds(e)
  BY DEF Inv
<1>2. /\ status'[e] \in {"failed", status[e]}
      /\ status'[e] = NoRow <=> status[e] = NoRow
      /\ apps'[e] = "none" /\ starter'[e] = "none" /\ drain'[e] = "idle"
      /\ old'[e] = 0 /\ drains'[e] = 0 /\ exited' = {}
      /\ pipe'[e] = IF pipe[e] \in {"none", "insert"} THEN "none" ELSE "done"
      /\ rb' = NoRollback /\ del' = NoDelete
      /\ e \in restarted' <=> status[e] # NoRow
      /\ raced' = {}
  BY <1>1 DEF TypeOK, Restart, Reconciled, None, IsInFlight
<1>3. /\ e \in up' => e \in up /\ e \in orphan' /\ e \notin Static
      /\ e \in orphan' => e \in up /\ e \notin Static
      /\ e \in resume' => status'[e] = "running"
      /\ status'[e] = "running" => e \in resume' \/ e \in left'
  BY DEF Restart, Survivors, IsActive
<1>4. NoExit(e)'
  BY <1>2 DEF NoExit
<1>5. Unborn(e)' /\ Origin(e)' /\ Young(e)'
  BY <1>1, <1>2, <1>3, <1>4, KindsAssumption DEF Holds
<1>6. Ripe(e)' /\ Going(e)' /\ Single(e)'
  BY <1>1, <1>2, <1>3, KindsAssumption DEF Holds
<1>7. Served(e)'
  BY <1>1, <1>2, <1>3, <1>4, KindsAssumption DEF Holds
<1>8. Owned(e)'
  BY <1>1, <1>2, <1>3, KindsAssumption DEF Holds
<1> QED
  BY <1>5, <1>6, <1>7, <1>8 DEF Holds

-----------------------------------------------------------------------------
(* The theorems.                                                           *)

(* Before the first trigger there is nothing.                              *)
LEMMA InitInv == Init => Inv
<1> SUFFICES ASSUME Init PROVE Inv
  OBVIOUS
<1>1. TypeOK
  BY DEF Init, TypeOK, None, Handle
<1>2. CallsOK
  BY DEF Init, CallsOK
<1>3. ASSUME NEW d \in Deployments PROVE Holds(d)
  BY <1>3, KindsAssumption DEF Init, None, Holds, Unborn, Origin, Young, Ripe, Going,
         Single, Served, Owned, NoExit, Serving, Marked, Halted
<1> QED
  BY <1>1, <1>2, <1>3 DEF Inv

(* Every step of the engine keeps the invariant.                           *)
LEMMA NextInv == Inv /\ [Next]_vars => Inv'
<1> SUFFICES ASSUME Inv, [Next]_vars PROVE Inv'
  OBVIOUS
<1>1. TypeOK /\ CallsOK
  BY DEF Inv
<1>2. CallsOK'
  BY <1>1, CallsStep
<1>3. ASSUME NEW d \in Deployments,
             \/ Collect(d) \/ Pipeline(d) \/ Starter(d) \/ Exit(d) \/ Drain(d)
             \/ Crash(d) \/ RollbackBegin(d) \/ DeleteBegin(d) \/ Resume(d)
      PROVE  TypeOK' /\ \A e \in Deployments : Holds(e)'
  <2>1. CASE Collect(d) \/ Pipeline(d)
    BY <1>1, <2>1, PipelineTypes, PipelineHolds
  <2>2. CASE Starter(d)
    BY <1>1, <2>2, StarterTypes, StarterHolds
  <2>3. CASE Exit(d) \/ Crash(d)
    BY <1>1, <2>3, ExitTypes, ExitHolds
  <2>4. CASE Drain(d)
    BY <1>1, <2>4, DrainTypes, DrainHolds
  <2>5. CASE RollbackBegin(d)
    BY <1>1, <2>5, CallTypes, RollbackBeginHolds
  <2>6. CASE DeleteBegin(d)
    BY <1>1, <2>6, CallTypes, DeleteHolds
  <2>7. CASE Resume(d)
    BY <1>1, <2>7, BootTypes, ResumeHolds
  <2> QED
    BY <1>3, <2>1, <2>2, <2>3, <2>4, <2>5, <2>6, <2>7
<1>4. CASE Rollback
  BY <1>1, <1>2, <1>4, CallTypes, RollbackHolds DEF Inv
<1>5. CASE Delete
  BY <1>1, <1>2, <1>5, CallTypes, DeleteHolds DEF Inv
<1>6. ASSUME NEW clean \in BOOLEAN, NEW stale \in SUBSET Deployments,
             Restart(clean, stale)
      PROVE  TypeOK' /\ \A e \in Deployments : Holds(e)'
  BY <1>1, <1>6, BootTypes, RestartHolds
<1>7. CASE UNCHANGED vars
  <2>1. TypeOK'
    BY <1>1, <1>7 DEF TypeOK, vars
  <2>2. ASSUME NEW e \in Deployments PROVE Holds(e)'
    <3>1. Same(e)
      BY <1>7, LossKept DEF vars, Same, Serving, Marked, Halted
    <3> QED
      BY <3>1, Frame DEF Inv
  <2> QED
    BY <1>2, <2>1, <2>2 DEF Inv
<1> QED
  BY <1>2, <1>3, <1>4, <1>5, <1>6, <1>7 DEF Next, Inv

(* The invariant always holds.                                             *)
LEMMA EngineInv == Spec => []Inv
  BY InitInv, NextInv, PTL DEF Spec

(* Every variable of the engine keeps its type, for any set of             *)
(* deployments, any kinds and any number of events.                        *)
THEOREM EngineTypes == Spec => []TypeOK
<1>1. Inv => TypeOK
  BY DEF Inv
<1> QED
  BY <1>1, EngineInv, PTL

(* No row says "running" with nothing behind it: drainDeployment, Rollback *)
(* and the delete handler take an app out of d.apps only on the way to     *)
(* another status, startApp's Wait looks at every exit, and what is        *)
(* excused is named: a lost status write, an exit with 0, a server that    *)
(* could not listen, a row the boot left alone, a restored deployment that *)
(* was not at rest.                                                        *)
THEOREM NoZombies == Spec => []NoZombieRunning
<1>1. Inv => NoZombieRunning
  BY DEF Inv, Holds, Served, Excused, NoZombieRunning
<1> QED
  BY <1>1, EngineInv, PTL

(* An exit that is about to be recorded is recorded, or forgotten by a     *)
(* restart.                                                                *)
LEMMA ExitsStay ==
    ASSUME Inv, NEW d \in Deployments, <<d, "killed", "failing">> \in exited, [Next]_vars,
           <<d, "killed", "failing">> \notin exited'
    PROVE  \/ RecordExit(d, "killed")
           \/ \E clean \in BOOLEAN, stale \in SUBSET Deployments : Restart(clean, stale)
<1> DEFINE x == <<d, "killed", "failing">>
<1>1. ASSUME NEW e \in Deployments, Collect(e) \/ Pipeline(e)
      PROVE  UNCHANGED exited
  BY <1>1 DEF Collect, Pipeline, Insert, Build, BuildFails, BuildStatic, BuildProcess,
              ProbeOK, ProbeFails, GoRunning, Route, DrainOld
<1>2. ASSUME NEW e \in Deployments, Starter(e)
      PROVE  exited \subseteq exited'
  BY <1>2 DEF Starter, StartFails, StartProcess, RegisterApp, RegisterServer, Listen,
              SuperviseCheck, Supervise
<1>3. ASSUME NEW e \in Deployments, Drain(e)
      PROVE  exited \subseteq exited'
  BY <1>3 DEF Drain, DrainBegin, DrainIntent, DrainSignal, DrainExit, DrainRemove,
              DrainFinish, DrainStop, DrainForce, StopApp, Kill
<1>4. ASSUME NEW e \in Deployments,
             Crash(e) \/ RollbackBegin(e) \/ DeleteBegin(e) \/ Resume(e)
      PROVE  exited \subseteq exited'
  BY <1>4 DEF Crash, RollbackBegin, DeleteBegin, Resume
<1>5. ASSUME Rollback \/ Delete
      PROVE  exited \subseteq exited'
  BY <1>5 DEF Rollback, RollbackStop, RollbackMark, RollbackRestore, RollbackServe,
              Delete, DeleteStop, DeleteForce, DeleteRow, StopApp, Kill
<1>6. ASSUME NEW e \in Deployments, NEW c \in {"killed", "crash"}, CheckExit(e, c)
      PROVE  x \in exited'
  BY <1>6 DEF CheckExit
<1>7. ASSUME NEW e \in Deployments, NEW c \in {"killed", "crash"}, RecordExit(e, c)
      PROVE  e = d /\ c = "killed"
  BY <1>7 DEF RecordExit
<1>8. CASE UNCHANGED vars
  BY <1>8 DEF vars
<1> QED
  BY <1>1, <1>2, <1>3, <1>4, <1>5, <1>6, <1>7, <1>8 DEF Next, Exit

(* The exit of a process that was killed on purpose never turns its row    *)
(* into a failure (engine.go:785-786): whoever killed it owns the status.  *)
THEOREM StopsOwnStatus == Spec => StopOwnsStatus
<1> DEFINE Kept(d) ==
        /\ <<d, "killed", "failing">> \in exited
        /\ <<d, "killed", "failing">> \notin exited'
        /\ status'[d] # status[d]
        => d \in raced \/ del.id = d \/ StopLost(d)
<1>1. ASSUME Inv, [Next]_vars, NEW d \in Deployments,
             <<d, "killed", "failing">> \in exited,
             <<d, "killed", "failing">> \notin exited',
             d \notin raced, del.id # d, ~StopLost(d)
      PROVE  status'[d] = status[d]
  <2>1. status[d] \in Left /\ Origin(d) /\ TypeOK
    BY <1>1 DEF Inv, Holds, Owned
  <2>2. CASE RecordExit(d, "killed")
    <3>1. Transition(d, "failed")
      BY <2>2 DEF RecordExit
    <3>2. \/ status'[d] = status[d]
          \/ /\ status[d] \in DeploymentState
             /\ MayTransition(status[d], "failed")
      BY <2>1, <3>1, TransitionAt DEF DeploymentState
    <3> QED
      BY <2>1, <3>2, Edges
  <2>3. ASSUME NEW clean \in BOOLEAN, NEW stale \in SUBSET Deployments,
               Restart(clean, stale)
        PROVE  status'[d] = status[d]
    BY <2>1, <2>3 DEF Restart, Reconciled, IsInFlight, TypeOK
  <2> QED
    BY <1>1, <2>2, <2>3, ExitsStay
<1>2. Inv /\ [Next]_vars => [\A d \in Deployments : Kept(d)]_vars
  BY <1>1
<1> QED
  BY <1>2, EngineInv, PTL DEF Spec, StopOwnsStatus
=============================================================================
