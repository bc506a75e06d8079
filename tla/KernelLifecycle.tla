-------------------------- MODULE KernelLifecycle --------------------------
(***************************************************************************)
(* The kernel (kernel/kernel.go) and the life of the server process around *)
(* it (main.go): resolveOrder sorts the components by their dependencies,  *)
(* Start brings them up in that order, and after a signal the proxy is     *)
(* stopped first and Stop brings the rest down.  resolveOrder ranges over  *)
(* a Go map, so Stop may compute another order than Start used.            *)
(***************************************************************************)
EXTENDS Naturals, Sequences, FiniteSets, SequencesExt

CONSTANTS
    Names,          \* component names, registered or not
    Wirings,        \* records: the registered names and their Dependencies()
    Proxy           \* the component main.go stops by itself

\* No component names the proxy among its Dependencies().
ASSUME WiringsType ==
    \A w \in Wirings : /\ w.registered \subseteq Names
                       /\ w.deps \in [Names -> Seq(Names)]
                       /\ \A n \in Names : \A i \in DOMAIN w.deps[n] : w.deps[n][i] # Proxy

VARIABLES
    wiring,         \* k.components: what main registered
    phase,          \* where the process is
    colour,         \* resolveOrder: state
    stack,          \* resolveOrder: the calls of visit under way
    order,          \* resolveOrder: its result so far
    startedOrder,   \* k.startedOrder
    up,             \* auxiliary: components that are really running
    failure         \* auxiliary: why Start returned an error

kernelVars == <<wiring, phase, colour, stack, order, startedOrder, up, failure>>

deps == wiring.deps
registered == wiring.registered

Phases == {"resolveStart", "starting", "serving", "stopProxy", "resolveStop", "stopping", "exited"}

\* A call of resolveOrder begins.
ResolveOrderBegins ==
    /\ colour' = [n \in Names |-> "white"]
    /\ stack' = <<>>
    /\ order' = <<>>

KernelInit ==
    /\ wiring \in Wirings
    /\ phase = "resolveStart"
    /\ colour = [n \in Names |-> "white"]
    /\ stack = <<>>
    /\ order = <<>>
    /\ startedOrder = <<>>
    /\ up = {}
    /\ failure = "none"

\* main.go: Start failed, os.Exit(1); nothing is stopped.
ExitWith(why) ==
    /\ phase' = "exited"
    /\ failure' = why
    /\ up' = {}
    /\ UNCHANGED <<colour, stack, order, startedOrder>>

----------------------------------------------------------------------------
(***************************************************************************)
(* resolveOrder: a depth-first search, one step per call of visit.         *)
(***************************************************************************)

Resolving == phase \in {"resolveStart", "resolveStop"}

Top == stack[Len(stack)]

\* visit(n) is called and colours n gray.
Enter(n) ==
    /\ colour' = [colour EXCEPT ![n] = "gray"]
    /\ stack' = Append(stack, [name |-> n, next |-> 1])

\* The range over k.components reaches a component that was not visited.
VisitRoot(n) ==
    /\ Resolving /\ stack = <<>>
    /\ n \in registered /\ colour[n] = "white"
    /\ Enter(n)
    /\ UNCHANGED <<wiring, phase, order, startedOrder, up, failure>>

\* visit looks at its next dependency: black ones are skipped, a gray one is a
\* cycle, one that is not registered is missing.  In Stop an
\* error would leave no order to stop by, and main exits as well.
VisitDependency ==
    /\ Resolving /\ stack # <<>> /\ Top.next <= Len(deps[Top.name])
    /\ UNCHANGED wiring
    /\ LET d == deps[Top.name][Top.next]
           advanced == [stack EXCEPT ![Len(stack)].next = @ + 1]
       IN  \/ /\ colour[d] = "black"
              /\ stack' = advanced
              /\ UNCHANGED <<phase, colour, order, startedOrder, up, failure>>
           \/ /\ colour[d] = "white" /\ d \in registered
              /\ colour' = [colour EXCEPT ![d] = "gray"]
              /\ stack' = Append(advanced, [name |-> d, next |-> 1])
              /\ UNCHANGED <<phase, order, startedOrder, up, failure>>
           \/ /\ colour[d] = "gray"
              /\ ExitWith("cycle")
           \/ /\ colour[d] = "white" /\ d \notin registered
              /\ ExitWith("missing")

\* A visit that returns without colouring its component black.
VisitDoneGray ==
    /\ Resolving /\ stack # <<>> /\ Top.next > Len(deps[Top.name])
    /\ order' = Append(order, Top.name)
    /\ stack' = Front(stack)
    /\ UNCHANGED <<wiring, phase, colour, startedOrder, up, failure>>

\* visit returns: the component follows everything it depends on.
VisitDone ==
    /\ Resolving /\ stack # <<>> /\ Top.next > Len(deps[Top.name])
    /\ colour' = [colour EXCEPT ![Top.name] = "black"]
    /\ order' = Append(order, Top.name)
    /\ stack' = Front(stack)
    /\ UNCHANGED <<wiring, phase, startedOrder, up, failure>>

\* Every registered component was visited: resolveOrder returns.
OrderResolved ==
    /\ Resolving /\ stack = <<>> /\ \A n \in registered : colour[n] = "black"
    /\ phase' = IF phase = "resolveStart" THEN "starting" ELSE "stopping"
    /\ UNCHANGED <<wiring, colour, stack, order, startedOrder, up, failure>>

----------------------------------------------------------------------------
(***************************************************************************)
(* Start, the signal, and Stop.                                            *)
(***************************************************************************)

\* The loop of Start: Init and Start of the next component succeed, or either
\* fails and main exits with the components before it still up.
StartNext ==
    /\ phase = "starting" /\ Len(startedOrder) < Len(order)
    /\ UNCHANGED wiring
    /\ LET n == order[Len(startedOrder) + 1]
       IN  \/ /\ up' = up \cup {n}
              /\ startedOrder' = Append(startedOrder, n)
              /\ UNCHANGED <<phase, colour, stack, order, failure>>
           \/ ExitWith("start")

Started ==
    /\ phase = "starting" /\ Len(startedOrder) = Len(order)
    /\ phase' = "serving"
    /\ UNCHANGED <<wiring, colour, stack, order, startedOrder, up, failure>>

\* main.go: SIGINT or SIGTERM arrives.
Signal ==
    /\ phase = "serving"
    /\ phase' = "stopProxy"
    /\ UNCHANGED <<wiring, colour, stack, order, startedOrder, up, failure>>

\* main.go: the proxy is stopped before the kernel, so that no request arrives
\* while the others go down; Stop then resolves the order again.
StopProxy ==
    /\ phase = "stopProxy"
    /\ up' = up \ {Proxy}
    /\ phase' = "resolveStop"
    /\ ResolveOrderBegins
    /\ UNCHANGED <<wiring, startedOrder, failure>>

\* The loop of Stop, from the end of the order; the first error ends it, and
\* main exits in any case.
StopNext ==
    /\ phase = "stopping" /\ order # <<>>
    /\ \/ /\ up' = up \ {Last(order)}
          /\ order' = Front(order)
          /\ UNCHANGED <<phase, startedOrder>>
       \/ /\ phase' = "exited"
          /\ up' = {}
          /\ UNCHANGED <<order, startedOrder>>
    /\ UNCHANGED <<wiring, colour, stack, failure>>

Stopped ==
    /\ phase = "stopping" /\ order = <<>>
    /\ phase' = "exited"
    /\ startedOrder' = <<>>
    /\ up' = {}
    /\ UNCHANGED <<wiring, colour, stack, order, failure>>

KernelNext ==
    \/ \E n \in Names : VisitRoot(n)
    \/ VisitDependency \/ VisitDone \/ OrderResolved
    \/ StartNext \/ Started \/ Signal \/ StopProxy \/ StopNext \/ Stopped

KernelSpec == KernelInit /\ [][KernelNext]_kernelVars

----------------------------------------------------------------------------

\* The types of the variables.
KernelTypeOK ==
    /\ wiring \in Wirings
    /\ phase \in Phases
    /\ colour \in [Names -> {"white", "gray", "black"}]
    /\ stack \in Seq([name : Names, next : Nat \ {0}])
    /\ order \in Seq(Names)
    /\ startedOrder \in Seq(Names)
    /\ up \subseteq Names
    /\ failure \in {"none", "cycle", "missing", "start"}

\* While the process lives, a running component's dependencies are running:
\* through a Start in any order the map iteration gives, and through a Stop that
\* resolved the order anew (kernel.go:68-71).
DependenciesUp ==
    \A n \in up : \A i \in DOMAIN deps[n] : deps[n][i] \in up

\* Some components require each other in a ring.
Cyclic ==
    \E ring \in (SUBSET registered) \ {{}} :
        \A n \in ring : \E i \in DOMAIN deps[n] : deps[n][i] \in ring

Incomplete ==
    \E n \in registered : \E i \in DOMAIN deps[n] : deps[n][i] \notin registered

\* resolveOrder refuses exactly the wirings that cannot be started, whichever
\* component it visits first: no order is produced with a ring or a missing
\* dependency, and each error it reports is true.
OrderOrRefusal ==
    /\ failure = "cycle" => Cyclic
    /\ failure = "missing" => Incomplete
    /\ phase \in Phases \ {"resolveStart", "exited"} => ~Cyclic /\ ~Incomplete

\* What main relies on: the order of the starts and stops, and a refusal of every wiring
\* that has none (resolveOrder, Start, Stop).
KernelCorrect == DependenciesUp /\ OrderOrRefusal

============================================================================
