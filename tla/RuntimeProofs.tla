---------------------------- MODULE RuntimeProofs ---------------------------
(***************************************************************************)
(* What the process runs: the kernel that starts and stops the components, *)
(* the supervisor of an instance, the log streams, the realtime hub, the   *)
(* upkeep of the schema, the cache of the builds, what serves a checkout,  *)
(* the functions and the alerts. Each specification is proved to keep its  *)
(* type invariant and its safety property.                                 *)
(***************************************************************************)
EXTENDS KernelLifecycle, InstanceSupervisor, DeployLogs, RealtimeHub, SchemaUpkeep,
        BuildCache, ServePlan, FunctionRuns, AlertPipeline,
        FiniteSetTheorems, SequenceTheorems, WellFoundedInduction, TLAPS

-----------------------------------------------------------------------------
(* Numbers: every non-empty set has a least member, every finite one a     *)
(* bound. Induction over the numbers is used in its well-founded form, on  *)
(* a set.                                                                  *)

\* The order of the natural numbers, as a relation.
Below == {p \in Nat \X Nat : p[1] < p[2]}

\* There is no infinite descent in the natural numbers.
LEMMA BelowWF == IsWellFoundedOn(Below, Nat)
  BY NatLessThanWellFounded, Zenon DEF OpToRel, Below

\* Every non-empty set of numbers has a least one.
LEMMA Least == ASSUME NEW S \in SUBSET Nat, S # {} PROVE \E m \in S : \A k \in S : m <= k
<1>1. \E m \in S : \A k \in S : ~(<<k, m>> \in Below)
  BY BelowWF, WFMin, Zenon
<1>2. PICK m \in S : \A k \in S : ~(<<k, m>> \in Below)
  BY <1>1
<1>3. \A k \in S : ~(k < m)
  <2> SUFFICES ASSUME NEW k \in S, k < m PROVE FALSE
    OBVIOUS
  <2>1. <<k, m>> \in Nat \X Nat
    OBVIOUS
  <2> QED
    BY <1>2, <2>1 DEF Below
<1> QED
  BY <1>3

\* Every finite set of numbers has a bound: otherwise the first index of a list
\* of its members up to which none bounds it would be no index.
LEMMA FiniteBound == ASSUME NEW S \in SUBSET Nat, IsFiniteSet(S) PROVE \E m \in Nat : \A s \in S : s <= m
<1> DEFINE n == Cardinality(S)
<1>1. PICK f : n \in Nat /\ f \in Bijection(1..n, S)
  BY FS_CardinalityType DEF ExistsBijection
<1>2. f \in [1..n -> S] /\ \A s \in S : \E i \in 1..n : f[i] = s
  BY <1>1 DEF Bijection, Injection, Surjection
<1> HIDE DEF n
<1> DEFINE Bounded(k) == \E m \in Nat : \A i \in 1..k : f[i] <= m
           T == {k \in 0..n : ~Bounded(k)}
<1>0. n \in 0..n /\ 0 \in 0..n /\ T \in SUBSET Nat
  BY <1>1
<1>5. Bounded(0)
  <2>1. \A i \in 1..0 : f[i] <= 0
    OBVIOUS
  <2> QED
    BY <2>1
<1>6. \A k \in 0..n : k \in T <=> ~Bounded(k)
  OBVIOUS
<1>7. \A k \in T : k \in 0..n
  OBVIOUS
<1> HIDE DEF T
<1>3. CASE T = {}
  <2>1. Bounded(n)
    BY <1>0, <1>3, <1>6
  <2> QED
    BY <1>2, <2>1
<1>4. CASE T # {}
  <2>1. PICK k \in T : \A j \in T : k <= j
    BY <1>0, <1>4, Least
  <2>2. k \in 0..n /\ k # 0
    BY <1>0, <1>5, <1>6, <1>7, <2>1
  <2>3. k \in 1..n /\ k - 1 \in 0..n /\ Bounded(k - 1)
    <3>1. k \in 1..n /\ k - 1 \in 0..n /\ ~(k <= k - 1)
      BY <1>1, <2>2
    <3> QED
      BY <1>6, <2>1, <3>1
  <2>4. PICK m \in Nat : \A i \in 1..(k-1) : f[i] <= m
    BY <2>3
  <2>5. PICK p \in Nat : m <= p /\ f[k] <= p
    <3>1. f[k] \in Nat
      BY <1>2, <2>3
    <3>2. m <= m + f[k] /\ f[k] <= m + f[k] /\ m + f[k] \in Nat
      BY <3>1
    <3> QED
      BY <3>2
  <2>6. ASSUME NEW i \in 1..k PROVE f[i] <= p
    <3>0. i \in 1..n
      BY <1>1, <2>3
    <3>1. f[i] \in Nat
      BY <1>2, <3>0
    <3>2. CASE i = k
      BY <2>5, <3>2
    <3>3. CASE i # k
      <4>1. i \in 1..(k-1)
        BY <2>3, <3>3
      <4> QED
        BY <2>4, <2>5, <3>1, <4>1
    <3> QED
      BY <3>2, <3>3
  <2>7. Bounded(k)
    BY <2>6
  <2> QED
    BY <1>6, <2>1, <2>2, <2>7
<1> QED
  BY <1>3, <1>4

\* Min of a non-empty set of numbers is its least member.
LEMMA MinIn == ASSUME NEW S \in SUBSET Nat, S # {} PROVE Min(S) \in S /\ \A k \in S : Min(S) <= k
  BY Least DEF Min

\* Max of a non-empty finite set of numbers is its greatest member.
LEMMA MaxIn == ASSUME NEW S \in SUBSET Nat, S # {}, IsFiniteSet(S) PROVE Max(S) \in S /\ \A k \in S : Max(S) >= k
<1> DEFINE U == {m \in Nat : \A s \in S : s <= m}
<1>1. U # {} /\ U \subseteq Nat
  BY FiniteBound
<1>2. PICK m \in U : \A k \in U : m <= k
  BY <1>1, Least
<1>3. m \in S
  <2> SUFFICES ASSUME m \notin S PROVE FALSE
    OBVIOUS
  <2>1. PICK s \in S : TRUE
    OBVIOUS
  <2>2. m > 0 /\ m - 1 \in Nat
    BY <1>2, <2>1
  <2>3. \A k \in S : k <= m - 1
    BY <1>2
  <2> QED
    BY <1>2, <2>2, <2>3
<1> QED
  BY <1>2, <1>3 DEF Max

-----------------------------------------------------------------------------
(* The kernel: the order of Start and Stop.                                *)

\* A visit under way: the component and the index of the next dependency to
\* look at.
Frames == [name : Names, next : Nat \ {0}]

\* The order has the component.
Ordered(n) == \E i \in 1..Len(order) : order[i] = n

\* An order to start by: without repetition, registered, each after what it needs.
Sorted ==
    /\ \A i, j \in 1..Len(order) : order[i] = order[j] => i = j
    /\ \A i \in 1..Len(order) : order[i] \in registered
    /\ \A i \in 1..Len(order) : \A j \in 1..Len(deps[order[i]]) :
         \E k \in 1..Len(order) : k < i /\ order[k] = deps[order[i]][j]

\* A visit under way: what it has looked at is in the order, or is the visit above it.
FrameOK(i) ==
    /\ colour[stack[i].name] = "gray" /\ stack[i].name \in registered
    /\ stack[i].next <= Len(deps[stack[i].name]) + 1
    /\ \A j \in 1..Len(deps[stack[i].name]) :
         j < stack[i].next =>
           colour[deps[stack[i].name][j]] = "black" \/ (i < Len(stack) /\ j + 1 = stack[i].next)
    /\ i < Len(stack) => stack[i].next > 1 /\ deps[stack[i].name][stack[i].next - 1] = stack[i + 1].name

\* The depth-first search: black is listed, gray is on the stack, once.
Searched ==
    /\ \A n \in Names : colour[n] = "black" <=> Ordered(n)
    /\ \A i \in 1..Len(stack) : FrameOK(i)
    /\ \A i, j \in 1..Len(stack) : stack[i].name = stack[j].name => i = j
    /\ \A n \in Names : colour[n] = "gray" => \E i \in 1..Len(stack) : stack[i].name = n

\* What is up, by phase: its dependencies are up too, and what will be stopped
\* is in the order.
Brought ==
    /\ up \subseteq registered /\ DependenciesUp
    /\ phase = "resolveStart" => up = {} /\ startedOrder = <<>>
    /\ phase = "starting" =>
         /\ Len(startedOrder) <= Len(order)
         /\ \A i \in 1..Len(startedOrder) : order[i] \in up
    /\ phase = "stopping" => \A n \in up : Ordered(n)

\* The search matters only while it runs; Sorted and Brought outlive it.
KerInv ==
    /\ KernelTypeOK /\ Sorted /\ Brought /\ OrderOrRefusal
    /\ Resolving => Searched

----------------------------------------------------------------------------

\* What a wiring is made of.
LEMMA WiringTyped ==
    ASSUME wiring \in Wirings
    PROVE  /\ registered \subseteq Names /\ deps \in [Names -> Seq(Names)]
           /\ \A n \in Names : DOMAIN deps[n] = 1..Len(deps[n]) /\ Len(deps[n]) \in Nat
           /\ \A n \in Names : \A i \in 1..Len(deps[n]) : deps[n][i] \in Names /\ deps[n][i] # Proxy
  BY WiringsType DEF registered, deps

\* An order that lists every component leaves no room for a ring or a gap.
LEMMA SortedStarts ==
    ASSUME KernelTypeOK, Sorted, \A n \in registered : Ordered(n) PROVE ~Cyclic /\ ~Incomplete
  <1>0. order \in Seq(Names) /\ wiring \in Wirings
        BY DEF KernelTypeOK
  <1>1. /\ registered \subseteq Names
        /\ \A n \in Names : DOMAIN deps[n] = 1..Len(deps[n])
        BY <1>0, WiringTyped
  <1>2. ~Incomplete
    <2> SUFFICES ASSUME NEW n \in registered, NEW j \in DOMAIN deps[n] PROVE deps[n][j] \in registered
        BY DEF Incomplete
    <2>1. PICK i \in 1..Len(order) : order[i] = n
          BY DEF Ordered
    <2>2. PICK k \in 1..Len(order) : order[k] = deps[n][j]
          BY <1>1, <2>1 DEF Sorted
    <2> QED BY <2>2 DEF Sorted
  <1>3. ~Cyclic
    <2> SUFFICES ASSUME NEW ring \in SUBSET registered, ring # {},
                        \A n \in ring : \E i \in DOMAIN deps[n] : deps[n][i] \in ring
                 PROVE  FALSE
        BY DEF Cyclic
    <2> DEFINE S == {i \in 1..Len(order) : order[i] \in ring}
    <2>1. S \subseteq Nat /\ S # {}
          BY DEF Ordered
    <2>2. PICK i \in S : \A k \in S : i <= k
          BY <2>1, Least
    <2>3. PICK j \in DOMAIN deps[order[i]] : deps[order[i]][j] \in ring
          BY <2>2
    <2>4. PICK k \in 1..Len(order) : k < i /\ order[k] = deps[order[i]][j]
          BY <1>1, <2>2, <2>3 DEF Sorted
    <2>5. k \in S
          BY <2>3, <2>4
    <2>6. i <= k /\ k < i /\ i \in Nat /\ k \in Nat
          BY <2>1, <2>2, <2>4, <2>5
    <2> QED BY <2>6
  <1> QED BY <1>2, <1>3

\* The invariant gives the property.
LEMMA KerInvCorrect == KerInv => KernelTypeOK /\ KernelCorrect
  BY DEF KerInv, KernelCorrect, Brought

\* The invariant holds at the start.
LEMMA KerInvInit == KernelInit => KerInv
  <1> SUFFICES ASSUME KernelInit PROVE KerInv
      OBVIOUS
  <1>1. stack = <<>> /\ order = <<>> /\ startedOrder = <<>> /\ Len(order) = 0 /\ Len(stack) = 0
        BY DEF KernelInit
  <1>2. KernelTypeOK
    <2>1. <<>> \in Seq([name : Names, next : Nat \ {0}]) /\ <<>> \in Seq(Names)
          OBVIOUS
    <2> QED BY <1>1, <2>1 DEF KernelInit, KernelTypeOK, Phases
  <1>3. Sorted
        BY <1>1 DEF Sorted
  <1>4. Searched
        BY <1>1 DEF Searched, Ordered, KernelInit
  <1>5. Brought
        BY <1>1 DEF Brought, DependenciesUp, KernelInit
  <1>6. OrderOrRefusal
        BY DEF OrderOrRefusal, KernelInit
  <1> QED BY <1>2, <1>3, <1>4, <1>5, <1>6 DEF KerInv

----------------------------------------------------------------------------

\* The order stays sorted while nothing it is about changes.
LEMMA SortedKeeps ==
    ASSUME Sorted, order' = order, deps' = deps, registered' = registered PROVE Sorted'
  <1>1. \A i, j \in 1..Len(order') : order'[i] = order'[j] => i = j
        BY Zenon DEF Sorted
  <1>2. \A i \in 1..Len(order') : order'[i] \in registered'
        BY Zenon DEF Sorted
  <1>3. \A i \in 1..Len(order') : \A j \in 1..Len(deps'[order'[i]]) :
          \E k \in 1..Len(order') : k < i /\ order'[k] = deps'[order'[i]][j]
    <2>1. \A i \in 1..Len(order) : \A j \in 1..Len(deps[order[i]]) :
            \E k \in 1..Len(order) : k < i /\ order[k] = deps[order[i]][j]
          BY Zenon DEF Sorted
    <2> QED BY <2>1
  <1> QED BY <1>1, <1>2, <1>3, Zenon DEF Sorted

\* What does not depend on the search.
LEMMA SearchKeeps ==
    ASSUME KerInv, UNCHANGED <<wiring, phase, startedOrder, up, failure>>, KernelTypeOK', Sorted',
           phase \in {"resolveStart", "resolveStop"}, Searched'
    PROVE  KerInv'
  <1>1. deps' = deps /\ registered' = registered
        BY DEF deps, registered
  <1>2. Brought'
        BY <1>1 DEF KerInv, Brought, DependenciesUp
  <1>3. OrderOrRefusal'
    <2>1. (Cyclic <=> Cyclic') /\ (Incomplete <=> Incomplete')
          BY <1>1 DEF Cyclic, Incomplete
    <2> QED BY <2>1 DEF KerInv, OrderOrRefusal
  <1> QED BY <1>2, <1>3 DEF KerInv

\* visit(d) is called, by the visit on top or by the range over the components.
LEMMA Pushes ==
    ASSUME KerInv, phase \in {"resolveStart", "resolveStop"},
           NEW d \in registered, colour[d] = "white", colour' = [colour EXCEPT ![d] = "gray"],
           NEW s \in Seq(Frames), stack' = Append(s, [name |-> d, next |-> 1]), Len(s) = Len(stack),
           \A i \in 1..Len(stack) :
             /\ s[i].name = stack[i].name
             /\ s[i].next > 1 /\ s[i].next <= Len(deps[stack[i].name]) + 1
             /\ \A j \in 1..Len(deps[stack[i].name]) :
                  j < s[i].next => colour[deps[stack[i].name][j]] = "black" \/ j + 1 = s[i].next
             /\ i < Len(stack) => deps[stack[i].name][s[i].next - 1] = stack[i + 1].name
             /\ i = Len(stack) => deps[stack[i].name][s[i].next - 1] = d,
           UNCHANGED <<wiring, phase, order, startedOrder, up, failure>>
    PROVE  KerInv'
  <1> DEFINE top == [name |-> d, next |-> 1]
             n == Len(stack)
  <1>0. /\ stack \in Seq(Frames) /\ n \in Nat /\ colour \in [Names -> {"white", "gray", "black"}]
        /\ wiring \in Wirings /\ Searched /\ order \in Seq(Names)
        BY DEF KerInv, KernelTypeOK, Frames, Resolving
  <1>1. deps' = deps /\ registered' = registered /\ d \in Names
        BY <1>0, WiringTyped DEF deps, registered
  <1>2. /\ top \in Frames /\ top.name = d /\ top.next = 1
        BY <1>1 DEF Frames
  <1> HIDE DEF top
  <1>3. /\ stack' \in Seq(Frames) /\ Len(stack') = n + 1 /\ stack'[n + 1] = top
        /\ \A i \in 1..n : stack'[i] = s[i] /\ stack'[i].name = stack[i].name
    <2>1. stack' = Append(s, top)
          BY DEF top
    <2>2. /\ Append(s, top) \in Seq(Frames) /\ Len(Append(s, top)) = Len(s) + 1
          /\ \A i \in 1..Len(s) : Append(s, top)[i] = s[i]
          /\ Append(s, top)[Len(s) + 1] = top
          BY <1>2, AppendProperties
    <2>3. PICK t : t = Append(s, top)
          OBVIOUS
    <2>4. /\ t \in Seq(Frames) /\ Len(t) = n + 1 /\ t[n + 1] = top
          /\ \A i \in 1..n : t[i] = s[i]
          BY <2>2, <2>3, Zenon
    <2>5. \A i \in 1..n : s[i].name = stack[i].name
          OBVIOUS
    <2> QED BY <2>1, <2>3, <2>4, <2>5, Zenon
  <1>4. /\ colour' \in [Names -> {"white", "gray", "black"}] /\ colour'[d] = "gray"
        /\ \A x \in Names : x # d => colour'[x] = colour[x]
        BY <1>0, <1>1
  <1>5. \A i \in 1..n : stack[i].name \in Names /\ stack[i].name \in registered /\ colour[stack[i].name] = "gray"
    <2>1. \A i \in 1..n : FrameOK(i)
          BY <1>0 DEF Searched
    <2>2. registered \subseteq Names
          BY <1>0, WiringTyped
    <2>3. \A i \in 1..n : stack[i].name \in registered /\ colour[stack[i].name] = "gray"
          BY <2>1, Zenon DEF FrameOK
    <2> QED BY <2>2, <2>3, Zenon
  <1>6. ASSUME NEW i \in 1..Len(stack') PROVE FrameOK(i)'
    <2>1. CASE i = n + 1
      <3>1. stack'[i] = top /\ ~(i < Len(stack'))
            BY <1>0, <1>3, <2>1
      <3>2. Len(deps[d]) \in Nat
            BY <1>0, <1>1, WiringTyped
      <3> QED BY <1>1, <1>2, <1>4, <3>1, <3>2 DEF FrameOK
    <2>2. CASE i # n + 1
      <3>1. i \in 1..n /\ i < Len(stack')
            BY <1>0, <1>3, <2>2
      <3> DEFINE m == stack[i].name
      <3>2. m \in Names /\ m \in registered /\ colour[m] = "gray" /\ stack'[i].name = m /\ stack'[i].next = s[i].next
            BY <1>3, <1>5, <3>1
      <3>3. colour'[m] = "gray"
            BY <1>4, <3>2
      <3>4. \A j \in 1..Len(deps[m]) : j < s[i].next => colour'[deps[m][j]] = "black" \/ j + 1 = s[i].next
        <4>1. \A j \in 1..Len(deps[m]) : deps[m][j] \in Names
              BY <1>0, <3>2, WiringTyped
        <4> QED BY <1>4, <3>1, <4>1
      <3>5. deps[m][s[i].next - 1] = stack'[i + 1].name
        <4>1. CASE i = n
              BY <1>2, <1>3, <3>1, <4>1
        <4>2. CASE i # n
          <5>1. i + 1 \in 1..n /\ i < n
                BY <1>0, <3>1, <4>2
          <5> QED BY <1>3, <3>1, <5>1
        <4> QED BY <4>1, <4>2
      <3>6. s[i].next > 1 /\ s[i].next <= Len(deps[m]) + 1
            BY <3>1
      <3> HIDE DEF m, n
      <3> QED BY <1>1, <3>1, <3>2, <3>3, <3>4, <3>5, <3>6 DEF FrameOK
    <2> QED BY <2>1, <2>2
  <1>7. ASSUME NEW i \in 1..Len(stack'), NEW j \in 1..Len(stack'), stack'[i].name = stack'[j].name PROVE i = j
    <2>1. \A k \in 1..n : stack[k].name # d
          BY <1>5
    <2>2. \A k \in 1..Len(stack') : k = n + 1 \/ k \in 1..n
          BY <1>0, <1>3
    <2>3. \A k \in 1..n : stack'[k].name = stack[k].name
          BY <1>3
    <2>4. stack'[n + 1].name = d
          BY <1>2, <1>3
    <2>5. \A k, l \in 1..n : stack[k].name = stack[l].name => k = l
          BY <1>0 DEF Searched
    <2> QED BY <1>7, <2>1, <2>2, <2>3, <2>4, <2>5
  <1>8. ASSUME NEW x \in Names, colour'[x] = "gray" PROVE \E i \in 1..Len(stack') : stack'[i].name = x
    <2>1. CASE x = d
      <3>1. n + 1 \in 1..Len(stack') /\ stack'[n + 1].name = d
            BY <1>0, <1>2, <1>3
      <3> QED BY <2>1, <3>1
    <2>2. CASE x # d
      <3>1. PICK i \in 1..n : stack[i].name = x
            BY <1>0, <1>4, <1>8, <2>2 DEF Searched
      <3>2. i \in 1..Len(stack') /\ stack'[i].name = x
            BY <1>0, <1>3, <3>1
      <3> QED BY <3>2
    <2> QED BY <2>1, <2>2
  <1>9. ASSUME NEW x \in Names PROVE colour'[x] = "black" <=> Ordered(x)'
        BY <1>0, <1>4 DEF Searched, Ordered
  <1>10. Searched'
        BY <1>6, <1>7, <1>8, <1>9 DEF Searched
  <1>11. KernelTypeOK'
        BY <1>3, <1>4 DEF KerInv, KernelTypeOK, Frames
  <1>12. Sorted'
        BY <1>1, SortedKeeps DEF KerInv
  <1> QED BY <1>10, <1>11, <1>12, SearchKeeps

\* The range over the components visits one that is white.
LEMMA VisitRootStep ==
    ASSUME KerInv, NEW n \in Names, VisitRoot(n) PROVE KerInv'
  <1>1. /\ phase \in {"resolveStart", "resolveStop"} /\ stack = <<>> /\ n \in registered /\ colour[n] = "white"
        /\ colour' = [colour EXCEPT ![n] = "gray"] /\ stack' = Append(stack, [name |-> n, next |-> 1])
        /\ UNCHANGED <<wiring, phase, order, startedOrder, up, failure>>
        BY DEF VisitRoot, Enter, Resolving
  <1>2. stack \in Seq(Frames) /\ \A i \in 1..Len(stack) : FALSE
        BY <1>1 DEF KerInv, KernelTypeOK, Frames
  <1> QED BY <1>1, <1>2, Pushes

\* main exits on an error of resolveOrder: the error is true.
LEMMA Refuses ==
    ASSUME KerInv, NEW cause \in {"cycle", "missing", "start"}, ExitWith(cause), wiring' = wiring,
           cause = "cycle" => Cyclic, cause = "missing" => Incomplete
    PROVE  KerInv'
  <1>1. deps' = deps /\ registered' = registered
        BY DEF deps, registered
  <1>2. (Cyclic <=> Cyclic') /\ (Incomplete <=> Incomplete')
        BY <1>1 DEF Cyclic, Incomplete
  <1>3. KernelTypeOK'
        BY DEF KerInv, KernelTypeOK, ExitWith, Phases
  <1>4. Sorted'
        BY <1>1, SortedKeeps DEF KerInv, ExitWith
  <1>5. Brought' /\ ~Resolving'
        BY DEF Brought, DependenciesUp, ExitWith, Resolving
  <1>6. OrderOrRefusal'
        BY <1>2 DEF OrderOrRefusal, ExitWith
  <1> QED BY <1>3, <1>4, <1>5, <1>6 DEF KerInv

\* The types of a frame of the stack.
LEMMA FrameFacts ==
    ASSUME KerInv, phase \in {"resolveStart", "resolveStop"}, NEW i \in 1..Len(stack)
    PROVE  /\ FrameOK(i) /\ stack[i] \in Frames /\ stack[i].name \in Names
           /\ stack[i].next \in Nat /\ stack[i].next # 0
           /\ Len(deps[stack[i].name]) \in Nat /\ i \in Nat /\ Len(stack) \in Nat
           /\ \A j \in 1..Len(deps[stack[i].name]) : deps[stack[i].name][j] \in Names
  <1>1. FrameOK(i) /\ stack \in Seq(Frames) /\ wiring \in Wirings
        BY DEF KerInv, KernelTypeOK, Frames, Resolving, Searched
  <1>2. stack[i] \in Frames
        BY <1>1
  <1>3. stack[i].name \in Names /\ stack[i].next \in Nat /\ stack[i].next # 0
        BY <1>2 DEF Frames
  <1>4. i \in Nat /\ Len(stack) \in Nat
        BY <1>1
  <1> QED BY <1>1, <1>2, <1>3, <1>4, WiringTyped

\* The stack with the index of its top advanced.
LEMMA AdvancedFacts ==
    ASSUME NEW s \in Seq(Frames), s # <<>>
    PROVE  LET n == Len(s)
               a == [s EXCEPT ![n].next = @ + 1]
           IN  /\ n \in Nat /\ n > 0 /\ a \in Seq(Frames) /\ Len(a) = n
               /\ a[n].name = s[n].name /\ a[n].next = s[n].next + 1
               /\ \A i \in 1..n : i # n => a[i] = s[i]
  <1> DEFINE n == Len(s)
             f == [s[n] EXCEPT !.next = @ + 1]
  <1>1. n \in Nat /\ n > 0 /\ n \in 1..Len(s)
        OBVIOUS
  <1>2. s[n] \in Frames
        BY <1>1
  <1>3. f \in Frames /\ f.name = s[n].name /\ f.next = s[n].next + 1
        BY <1>2 DEF Frames
  <1>4. [s EXCEPT ![n].next = @ + 1] = [s EXCEPT ![n] = f]
        BY <1>1
  <1> HIDE DEF f, n
  <1>5. /\ [s EXCEPT ![n] = f] \in Seq(Frames) /\ Len([s EXCEPT ![n] = f]) = Len(s)
        /\ \A i \in 1..Len(s) : [s EXCEPT ![n] = f][i] = IF i = n THEN f ELSE s[i]
        BY <1>1, <1>3, ExceptSeq
  <1> QED BY <1>1, <1>3, <1>4, <1>5 DEF n

\* A gray dependency of the top is below it on the stack, and the frames
\* between them are a ring: the error of a cycle is true.
LEMMA RingFound ==
    ASSUME KerInv, phase \in {"resolveStart", "resolveStop"}, stack # <<>>,
           Top.next <= Len(deps[Top.name]), colour[deps[Top.name][Top.next]] = "gray"
    PROVE  Cyclic
  <1> DEFINE n == Len(stack)
             d == deps[stack[n].name][stack[n].next]
  <1>0. stack \in Seq(Frames) /\ wiring \in Wirings /\ Searched
        BY DEF KerInv, KernelTypeOK, Frames, Resolving
  <1>1. n \in Nat /\ n \in 1..Len(stack)
        BY <1>0
  <1>2. \A q \in 1..n : FrameOK(q) /\ stack[q].name \in Names /\ stack[q].next \in Nat
                        /\ Len(deps[stack[q].name]) \in Nat
        BY FrameFacts
  <1>3. stack[n].next \in 1..Len(deps[stack[n].name]) /\ d \in Names /\ colour[d] = "gray"
    <2>1. stack[n].next \in Nat \ {0}
          BY <1>1, FrameFacts
    <2>2. stack[n].next \in 1..Len(deps[stack[n].name])
          BY <1>1, <1>2, <2>1 DEF Top
    <2> QED BY <1>0, <1>1, <1>2, <2>2, WiringTyped DEF Top
  <1>4. PICK p \in 1..n : stack[p].name = d
        BY <1>0, <1>3 DEF Searched
  <1> DEFINE ring == {stack[q].name : q \in {x \in 1..n : p <= x}}
  <1> HIDE DEF d
  <1>5. ring \in (SUBSET registered) \ {{}}
    <2>1. stack[p].name \in ring
          BY <1>1, <1>4
    <2>2. \A q \in 1..n : stack[q].name \in registered
          BY <1>2 DEF FrameOK
    <2> QED BY <2>1, <2>2
  <1>6. ASSUME NEW x \in ring PROVE \E i \in DOMAIN deps[x] : deps[x][i] \in ring
    <2>1. PICK q \in 1..n : p <= q /\ x = stack[q].name
          OBVIOUS
    <2>2. x \in Names /\ DOMAIN deps[x] = 1..Len(deps[x])
          BY <1>0, <1>2, <2>1, WiringTyped
    <2>3. CASE q = n
      <3>1. stack[n].next \in DOMAIN deps[x] /\ deps[x][stack[n].next] = stack[p].name
            BY <1>3, <1>4, <2>1, <2>2, <2>3 DEF d
      <3>2. stack[p].name \in ring
            BY <1>1, <1>4
      <3> QED BY <3>1, <3>2
    <2>4. CASE q # n
      <3>1. q < n /\ q + 1 \in 1..n /\ p <= q + 1
            BY <1>1, <2>1, <2>4
      <3>2. FrameOK(q) /\ stack[q].next \in Nat /\ Len(deps[x]) \in Nat
            BY <1>2, <2>1
      <3>3. /\ stack[q].next > 1 /\ stack[q].next <= Len(deps[x]) + 1
            /\ deps[x][stack[q].next - 1] = stack[q + 1].name
            BY <2>1, <3>1, <3>2 DEF FrameOK
      <3>4. stack[q].next - 1 \in 1..Len(deps[x])
            BY <3>2, <3>3
      <3>5. stack[q + 1].name \in ring
            BY <3>1
      <3> QED BY <2>2, <3>3, <3>4, <3>5
    <2> QED BY <2>3, <2>4
  <1> QED BY <1>5, <1>6 DEF Cyclic

\* The top looks at its next dependency: it visits a white one, passes a black
\* one, refuses a gray or missing one.
LEMMA VisitDependencyStep ==
    ASSUME KerInv, VisitDependency PROVE KerInv'
  <1> PICK n : n = Len(stack)
      OBVIOUS
  <1> PICK s : s = [stack EXCEPT ![Len(stack)].next = @ + 1]
      OBVIOUS
  <1> PICK d : d = deps[Top.name][Top.next]
      OBVIOUS
  <1>0. /\ phase \in {"resolveStart", "resolveStop"} /\ stack # <<>> /\ Top.next <= Len(deps[Top.name])
        /\ wiring' = wiring
        BY DEF VisitDependency, Resolving
  <1>1. stack \in Seq(Frames) /\ wiring \in Wirings /\ Searched
        BY <1>0 DEF KerInv, KernelTypeOK, Frames, Resolving
  <1>2. /\ n \in Nat /\ n > 0 /\ s \in Seq(Frames) /\ Len(s) = n
        /\ s[n].name = stack[n].name /\ s[n].next = stack[n].next + 1
        /\ \A i \in 1..n : i # n => s[i] = stack[i]
        BY <1>0, <1>1, AdvancedFacts
  <1>3. n \in 1..Len(stack) /\ Top = stack[n]
        BY <1>2 DEF Top
  <1>4. \A i \in 1..n : FrameOK(i) /\ stack[i].name \in Names /\ stack[i].next \in Nat
                        /\ Len(deps[stack[i].name]) \in Nat
        BY <1>0, FrameFacts
  <1>5. stack[n].next \in 1..Len(deps[stack[n].name])
    <2>1. stack[n].next \in Nat \ {0}
          BY <1>0, <1>3, FrameFacts
    <2> QED BY <1>0, <1>3, <1>4, <2>1
  <1>6. d = deps[stack[n].name][stack[n].next] /\ d \in Names
    <2>1. stack[n].name \in Names
          BY <1>3, <1>4
    <2> QED BY <1>1, <1>3, <1>5, <2>1, WiringTyped
  <1>7. \A i \in 1..n : s[i].name = stack[i].name
        BY <1>2
  <1>8. CASE colour[d] = "white" /\ d \in registered /\ colour' = [colour EXCEPT ![d] = "gray"]
             /\ stack' = Append(s, [name |-> d, next |-> 1])
             /\ UNCHANGED <<phase, order, startedOrder, up, failure>>
    <2>1. ASSUME NEW i \in 1..Len(stack)
          PROVE  /\ s[i].name = stack[i].name
                 /\ s[i].next > 1 /\ s[i].next <= Len(deps[stack[i].name]) + 1
                 /\ \A j \in 1..Len(deps[stack[i].name]) :
                      j < s[i].next => colour[deps[stack[i].name][j]] = "black" \/ j + 1 = s[i].next
                 /\ i < Len(stack) => deps[stack[i].name][s[i].next - 1] = stack[i + 1].name
                 /\ i = Len(stack) => deps[stack[i].name][s[i].next - 1] = d
      <3>0. FrameOK(i) /\ stack[i].next \in Nat /\ Len(deps[stack[i].name]) \in Nat /\ i \in Nat
            BY <1>4
      <3>1. CASE i = n
        <4>1. s[i].next = stack[n].next + 1 /\ s[i].next - 1 = stack[n].next
              BY <1>2, <3>0, <3>1
        <4>2. ~(i < Len(stack))
              BY <1>2, <3>1
        <4>3. deps[stack[i].name][s[i].next - 1] = d
              BY <1>6, <3>1, <4>1
        <4>4. s[i].next > 1 /\ s[i].next <= Len(deps[stack[i].name]) + 1
              BY <1>5, <3>0, <3>1, <4>1
        <4>5. ASSUME NEW j \in 1..Len(deps[stack[i].name]), j < s[i].next
              PROVE  colour[deps[stack[i].name][j]] = "black" \/ j + 1 = s[i].next
          <5>1. j < stack[i].next \/ j + 1 = s[i].next
                BY <3>0, <3>1, <4>1, <4>5
          <5>2. j < stack[i].next => colour[deps[stack[i].name][j]] = "black"
                BY <3>0, <4>2 DEF FrameOK
          <5> QED BY <5>1, <5>2
        <4> QED BY <1>7, <4>2, <4>3, <4>4, <4>5
      <3>2. CASE i # n
        <4>1. s[i] = stack[i] /\ i < Len(stack)
              BY <1>2, <3>2
        <4> QED BY <3>0, <3>2, <4>1 DEF FrameOK
      <3> QED BY <3>1, <3>2
    <2>2. Len(s) = Len(stack) /\ s \in Seq(Frames)
          BY <1>2
    <2>3. UNCHANGED <<wiring, phase, order, startedOrder, up, failure>>
          BY <1>0, <1>8
    <2> HIDE DEF FrameOK, Top
    <2> QED BY <1>0, <1>8, <2>1, <2>2, <2>3, Pushes, Zenon
  <1>9. CASE colour[d] = "black" /\ stack' = s /\ UNCHANGED <<phase, colour, order, startedOrder, up, failure>>
    <2>1. deps' = deps /\ registered' = registered
          BY <1>0 DEF deps, registered
    <2>2. ASSUME NEW i \in 1..Len(stack') PROVE FrameOK(i)'
      <3>0. i \in 1..n /\ FrameOK(i) /\ stack[i].next \in Nat /\ Len(deps[stack[i].name]) \in Nat /\ i \in Nat
            BY <1>2, <1>4, <1>9
      <3>1. CASE i = n
        <4>1. stack'[i].name = stack[i].name /\ stack'[i].next = stack[i].next + 1 /\ ~(i < Len(stack'))
              BY <1>2, <1>9, <3>1
        <4>2. ASSUME NEW j \in 1..Len(deps[stack[i].name]), j < stack[i].next + 1
              PROVE  colour[deps[stack[i].name][j]] = "black"
          <5>1. j < stack[i].next \/ j = stack[i].next
                BY <3>0, <4>2
          <5>2. ~(i < Len(stack))
                BY <1>2, <3>1
          <5> QED BY <1>6, <1>9, <3>0, <3>1, <5>1, <5>2 DEF FrameOK
        <4>3. stack[i].next + 1 <= Len(deps[stack[i].name]) + 1
              BY <1>5, <3>0, <3>1
        <4>4. colour[stack[i].name] = "gray" /\ stack[i].name \in registered
              BY <3>0 DEF FrameOK
        <4> QED BY <1>9, <2>1, <4>1, <4>2, <4>3, <4>4 DEF FrameOK
      <3>2. CASE i # n
        <4>1. stack'[i] = stack[i] /\ i < Len(stack') /\ i < Len(stack) /\ stack'[i + 1].name = stack[i + 1].name
              BY <1>2, <1>7, <1>9, <3>0, <3>2
        <4> QED BY <1>9, <2>1, <3>0, <4>1 DEF FrameOK
      <3> QED BY <3>1, <3>2
    <2>3. /\ \A i, j \in 1..Len(stack') : stack'[i].name = stack'[j].name => i = j
          /\ \A x \in Names : colour'[x] = "gray" => \E i \in 1..Len(stack') : stack'[i].name = x
          BY <1>1, <1>2, <1>7, <1>9 DEF Searched
    <2>4. Searched'
          BY <1>1, <1>9, <2>2, <2>3 DEF Searched, Ordered
    <2>5. KernelTypeOK'
          BY <1>0, <1>2, <1>9 DEF KerInv, KernelTypeOK, Frames
    <2>6. Sorted'
          BY <1>9, <2>1, SortedKeeps DEF KerInv
    <2> QED BY <1>0, <1>9, <2>4, <2>5, <2>6, SearchKeeps
  <1>10. CASE colour[d] = "gray" /\ ExitWith("cycle")
        BY <1>0, <1>10, RingFound, Refuses
  <1>11. CASE d \notin registered /\ ExitWith("missing")
    <2>1. Incomplete
      <3>1. stack[n].name \in registered /\ DOMAIN deps[stack[n].name] = 1..Len(deps[stack[n].name])
            BY <1>1, <1>3, <1>4, WiringTyped DEF FrameOK
      <3> QED BY <1>5, <1>6, <1>11, <3>1 DEF Incomplete
    <2> QED BY <1>0, <1>11, <2>1, Refuses
  <1> QED BY <1>8, <1>9, <1>10, <1>11 DEF VisitDependency

\* A sequence without its last member.
LEMMA FrontFacts ==
    ASSUME NEW S, NEW s \in Seq(S), s # <<>>
    PROVE  /\ Front(s) \in Seq(S) /\ Len(s) \in Nat /\ Len(s) > 0 /\ Len(Front(s)) = Len(s) - 1
           /\ \A i \in 1..(Len(s) - 1) : Front(s)[i] = s[i]
           /\ Last(s) = s[Len(s)] /\ Last(s) \in S
  <1>1. Len(s) \in Nat /\ Len(s) > 0 /\ Len(s) \in 1..Len(s)
        OBVIOUS
  <1>2. /\ SubSeq(s, 1, Len(s) - 1) \in Seq(S)
        /\ Len(SubSeq(s, 1, Len(s) - 1)) = Len(s) - 1
        /\ \A i \in 1..(Len(s) - 1) : SubSeq(s, 1, Len(s) - 1)[i] = s[i]
    <2>1. PICK k : k = Len(s) - 1
          OBVIOUS
    <2>2. k \in Nat /\ k \in Int /\ 1 \in Int /\ \A i \in 1..k : s[i] \in S
          BY <1>1, <2>1
    <2>3. /\ SubSeq(s, 1, k) \in Seq(S)
          /\ Len(SubSeq(s, 1, k)) = IF 1 <= k THEN k - 1 + 1 ELSE 0
          /\ \A i \in 1..(k - 1 + 1) : SubSeq(s, 1, k)[i] = s[1 + i - 1]
          BY <2>2, SubSeqProperties
    <2>4. PICK f : f = SubSeq(s, 1, k)
          OBVIOUS
    <2>5. /\ f \in Seq(S) /\ Len(f) = IF 1 <= k THEN k - 1 + 1 ELSE 0
          /\ \A i \in 1..(k - 1 + 1) : f[i] = s[1 + i - 1]
          BY <2>3, <2>4, Zenon
    <2>6. Len(f) = k /\ \A i \in 1..k : f[i] = s[i]
          BY <2>2, <2>5
    <2> QED BY <2>1, <2>4, <2>5, <2>6, Zenon
  <1> QED BY <1>1, <1>2 DEF Front, Last

\* A visit that has looked at every dependency appends its component to the
\* order: each of them is black, so listed.
LEMMA VisitDoneStep ==
    ASSUME KerInv, VisitDone PROVE KerInv'
  <1> PICK n : n = Len(stack)
      OBVIOUS
  <1> PICK t : t = Top.name
      OBVIOUS
  <1> PICK m : m = Len(order)
      OBVIOUS
  <1>0. /\ phase \in {"resolveStart", "resolveStop"} /\ stack # <<>> /\ stack[n].next > Len(deps[t])
        /\ t = stack[n].name /\ colour' = [colour EXCEPT ![t] = "black"] /\ order' = Append(order, t)
        /\ stack' = Front(stack) /\ UNCHANGED <<wiring, phase, startedOrder, up, failure>>
        BY DEF VisitDone, Resolving, Top
  <1>1. /\ stack \in Seq(Frames) /\ wiring \in Wirings /\ Searched /\ Sorted /\ order \in Seq(Names)
        /\ colour \in [Names -> {"white", "gray", "black"}] /\ m \in Nat
        BY <1>0 DEF KerInv, KernelTypeOK, Frames, Resolving
  <1>2. /\ n \in Nat /\ n > 0 /\ stack' \in Seq(Frames) /\ Len(stack') = n - 1
        /\ \A i \in 1..(n - 1) : stack'[i] = stack[i]
        BY <1>0, <1>1, FrontFacts
  <1>3. deps' = deps /\ registered' = registered
        BY <1>0 DEF deps, registered
  <1>4. /\ \A i \in 1..n : FrameOK(i) /\ stack[i].name \in Names /\ stack[i].next \in Nat
                           /\ Len(deps[stack[i].name]) \in Nat
        /\ n \in 1..n
        BY <1>0, <1>2, FrameFacts
  <1>5. t \in Names /\ t \in registered /\ colour[t] = "gray" /\ Len(deps[t]) \in Nat
        BY <1>0, <1>4 DEF FrameOK
  <1>6. /\ order' \in Seq(Names) /\ Len(order') = m + 1 /\ order'[m + 1] = t
        /\ \A i \in 1..m : order'[i] = order[i]
        BY <1>0, <1>1, <1>5, AppendProperties
  <1>7. /\ colour' \in [Names -> {"white", "gray", "black"}] /\ colour'[t] = "black"
        /\ \A x \in Names : x # t => colour'[x] = colour[x]
        BY <1>0, <1>1, <1>5
  <1>8. \A i \in 1..m : order[i] \in Names /\ order[i] # t
    <2>1. ~Ordered(t)
          BY <1>1, <1>5 DEF Searched
    <2> QED BY <1>1, <2>1 DEF Ordered
  <1>9. \A j \in 1..Len(deps[t]) : deps[t][j] \in Names /\ Ordered(deps[t][j])
    <2>1. \A j \in 1..Len(deps[t]) : deps[t][j] \in Names
          BY <1>1, <1>5, WiringTyped
    <2>2. ~(n < Len(stack)) /\ FrameOK(n) /\ stack[n].next \in Nat
          BY <1>2, <1>4
    <2>3. \A j \in 1..Len(deps[t]) : colour[deps[t][j]] = "black"
          BY <1>0, <1>5, <2>2 DEF FrameOK
    <2> QED BY <1>1, <2>1, <2>3 DEF Searched
  <1>10. Sorted'
    <2>1. \A i \in 1..Len(order') : i = m + 1 \/ i \in 1..m
          BY <1>1, <1>6
    <2>2. ASSUME NEW i \in 1..Len(order'), NEW j \in 1..Len(order'), order'[i] = order'[j] PROVE i = j
      <3>1. \A k, l \in 1..m : order[k] = order[l] => k = l
            BY <1>1 DEF Sorted
      <3> QED BY <1>6, <1>8, <2>1, <2>2, <3>1
    <2>3. ASSUME NEW i \in 1..Len(order') PROVE order'[i] \in registered
      <3>1. \A k \in 1..m : order[k] \in registered
            BY <1>1 DEF Sorted
      <3> QED BY <1>5, <1>6, <2>1, <3>1
    <2>4. ASSUME NEW i \in 1..Len(order'), NEW j \in 1..Len(deps[order'[i]])
          PROVE  \E k \in 1..Len(order') : k < i /\ order'[k] = deps[order'[i]][j]
      <3>1. CASE i = m + 1
        <4>1. order'[i] = t
              BY <1>6, <3>1
        <4>2. PICK k \in 1..m : order[k] = deps[t][j]
              BY <1>9, <2>4, <4>1 DEF Ordered
        <4>3. k \in 1..Len(order') /\ k < i /\ order'[k] = deps[t][j]
              BY <1>1, <1>6, <3>1, <4>2
        <4> QED BY <4>1, <4>3
      <3>2. CASE i # m + 1
        <4>1. i \in 1..m /\ order'[i] = order[i]
              BY <1>6, <2>1, <3>2
        <4>2. PICK k \in 1..m : k < i /\ order[k] = deps[order[i]][j]
              BY <1>1, <2>4, <4>1 DEF Sorted
        <4>3. k \in 1..Len(order') /\ k < i /\ order'[k] = deps[order[i]][j]
              BY <1>1, <1>6, <4>2
        <4> QED BY <4>1, <4>3
      <3> QED BY <3>1, <3>2
    <2> QED BY <1>3, <2>2, <2>3, <2>4 DEF Sorted
  <1>11. ASSUME NEW x \in Names PROVE colour'[x] = "black" <=> Ordered(x)'
    <2>1. Ordered(x)' <=> x = t \/ Ordered(x)
      <3>1. ASSUME x = t PROVE Ordered(x)'
        <4>1. m + 1 \in 1..Len(order')
              BY <1>1, <1>6
        <4> QED BY <1>6, <3>1, <4>1 DEF Ordered
      <3>2. ASSUME Ordered(x) PROVE Ordered(x)'
        <4>1. PICK i \in 1..m : order[i] = x
              BY <3>2 DEF Ordered
        <4>2. i \in 1..Len(order') /\ order'[i] = x
              BY <1>1, <1>6, <4>1
        <4> QED BY <4>2 DEF Ordered
      <3>3. ASSUME Ordered(x)' PROVE x = t \/ Ordered(x)
        <4>1. PICK i \in 1..Len(order') : order'[i] = x
              BY <3>3 DEF Ordered
        <4>2. i = m + 1 \/ i \in 1..m
              BY <1>1, <1>6, <4>1
        <4> QED BY <1>6, <4>1, <4>2 DEF Ordered
      <3> QED BY <3>1, <3>2, <3>3
    <2>2. colour[x] = "black" <=> Ordered(x)
          BY <1>1 DEF Searched
    <2> QED BY <1>7, <2>1, <2>2
  <1>12. \A i \in 1..(n - 1) : i \in 1..n /\ i < n /\ stack[i].name # t
    <2>1. \A i, j \in 1..n : stack[i].name = stack[j].name => i = j
          BY <1>1 DEF Searched
    <2>2. \A i \in 1..(n - 1) : i \in 1..n /\ i < n
          BY <1>2
    <2> QED BY <1>0, <1>4, <2>1, <2>2
  <1>13. ASSUME NEW i \in 1..Len(stack') PROVE FrameOK(i)'
    <2>0. i \in 1..(n - 1) /\ i \in 1..n /\ i < n /\ stack[i].name # t /\ i \in Nat
          BY <1>2, <1>12
    <2> PICK x : x = stack[i].name
        OBVIOUS
    <2>1. FrameOK(i) /\ x \in Names /\ stack[i].next \in Nat /\ Len(deps[x]) \in Nat /\ stack'[i] = stack[i]
          BY <1>2, <1>4, <2>0
    <2>2. /\ colour[x] = "gray" /\ x \in registered /\ stack[i].next <= Len(deps[x]) + 1
          /\ stack[i].next > 1 /\ deps[x][stack[i].next - 1] = stack[i + 1].name
          /\ \A j \in 1..Len(deps[x]) : j < stack[i].next => colour[deps[x][j]] = "black" \/ j + 1 = stack[i].next
          BY <2>0, <2>1 DEF FrameOK
    <2>3. \A j \in 1..Len(deps[x]) : deps[x][j] \in Names
          BY <1>1, <2>1, WiringTyped
    <2>4. ASSUME NEW j \in 1..Len(deps[x]), j < stack[i].next
          PROVE  colour'[deps[x][j]] = "black" \/ (i < n - 1 /\ j + 1 = stack[i].next)
      <3>1. CASE colour[deps[x][j]] = "black"
            BY <1>5, <1>7, <2>3, <3>1
      <3>2. CASE j + 1 = stack[i].next
        <4>1. CASE i = n - 1
          <5>1. i + 1 = n
                BY <1>2, <2>0, <4>1
          <5>2. j \in Nat /\ stack[i].next \in Nat
                BY <2>1
          <5>3. j = stack[i].next - 1
                BY <3>2, <5>2
          <5> QED BY <1>0, <1>7, <2>2, <5>1, <5>3
        <4>2. CASE i # n - 1
              BY <1>2, <2>0, <3>2, <4>2
        <4> QED BY <4>1, <4>2
      <3> QED BY <2>2, <2>4, <3>1, <3>2
    <2>5. i < n - 1 => stack'[i + 1] = stack[i + 1]
      <3>1. i < n - 1 => i + 1 \in 1..(n - 1)
            BY <1>2, <2>0
      <3> QED BY <1>2, <3>1
    <2>6. colour'[x] = "gray"
          BY <1>7, <2>0, <2>1, <2>2
    <2>7. stack'[i].name = x /\ stack'[i].next = stack[i].next /\ Len(stack') = n - 1
          BY <1>2, <2>1
    <2> QED BY <1>3, <2>2, <2>4, <2>5, <2>6, <2>7 DEF FrameOK
  <1>14. \A i, j \in 1..Len(stack') : stack'[i].name = stack'[j].name => i = j
    <2>1. \A i, j \in 1..n : stack[i].name = stack[j].name => i = j
          BY <1>1 DEF Searched
    <2>2. 1..Len(stack') = 1..(n - 1)
          BY <1>2
    <2>3. \A i \in 1..(n - 1) : i \in 1..n /\ stack'[i].name = stack[i].name
          BY <1>2, <1>12
    <2> QED BY <2>1, <2>2, <2>3
  <1>15. ASSUME NEW x \in Names, colour'[x] = "gray" PROVE \E i \in 1..Len(stack') : stack'[i].name = x
    <2>1. x # t /\ colour[x] = "gray"
          BY <1>7, <1>15
    <2>2. PICK i \in 1..n : stack[i].name = x
          BY <1>1, <2>1 DEF Searched
    <2>3. i \in 1..(n - 1)
          BY <1>0, <1>2, <2>1, <2>2
    <2> QED BY <1>2, <2>2, <2>3
  <1>16. Searched'
        BY <1>11, <1>13, <1>14, <1>15 DEF Searched
  <1>17. KernelTypeOK'
    <2>1. UNCHANGED <<wiring, phase, startedOrder, up, failure>>
          BY <1>0
    <2>2. KernelTypeOK
          BY DEF KerInv
    <2>3. stack' \in Seq([name : Names, next : Nat \ {0}]) /\ order' \in Seq(Names)
          BY <1>2, <1>6 DEF Frames
    <2> QED BY <1>7, <2>1, <2>2, <2>3 DEF KernelTypeOK
  <1> QED BY <1>0, <1>10, <1>16, <1>17, SearchKeeps

----------------------------------------------------------------------------

\* When every component is black the order lists them all.
LEMMA OrderResolvedStep ==
    ASSUME KerInv, OrderResolved PROVE KerInv'
  <1>0. /\ phase \in {"resolveStart", "resolveStop"} /\ stack = <<>> /\ \A n \in registered : colour[n] = "black"
        /\ phase' = IF phase = "resolveStart" THEN "starting" ELSE "stopping"
        /\ UNCHANGED <<wiring, colour, stack, order, startedOrder, up, failure>>
        BY DEF OrderResolved, Resolving
  <1>1. Searched /\ KernelTypeOK /\ Sorted /\ Brought /\ OrderOrRefusal
        BY <1>0 DEF KerInv, Resolving
  <1>2. deps' = deps /\ registered' = registered
        BY <1>0 DEF deps, registered
  <1>3. (Cyclic <=> Cyclic') /\ (Incomplete <=> Incomplete')
        BY <1>2 DEF Cyclic, Incomplete
  <1>4. \A n \in registered : Ordered(n)
    <2>1. registered \subseteq Names
          BY <1>1, WiringTyped DEF KernelTypeOK
    <2> QED BY <1>0, <1>1, <2>1 DEF Searched
  <1>5. ~Cyclic /\ ~Incomplete
        BY <1>1, <1>4, SortedStarts
  <1>6. KernelTypeOK'
        BY <1>0, <1>1 DEF KernelTypeOK, Phases
  <1>7. Sorted'
        BY <1>0, <1>1, <1>2, SortedKeeps
  <1>8. OrderOrRefusal'
        BY <1>0, <1>1, <1>3, <1>5 DEF OrderOrRefusal
  <1>9. Brought'
    <2>1. up' \subseteq registered' /\ DependenciesUp'
          BY <1>0, <1>1, <1>2 DEF Brought, DependenciesUp
    <2>2. ASSUME phase' = "starting"
          PROVE  Len(startedOrder') <= Len(order') /\ \A i \in 1..Len(startedOrder') : order'[i] \in up'
      <3>1. startedOrder' = <<>> /\ order' = order /\ order \in Seq(Names)
            BY <1>0, <1>1, <2>2 DEF Brought, KernelTypeOK
      <3>2. Len(startedOrder') = 0 /\ Len(order') \in Nat
            BY <3>1
      <3> QED BY <3>2
    <2>3. phase' = "stopping" => \A n \in up' : Ordered(n)'
          BY <1>0, <1>1, <1>4 DEF Brought, Ordered
    <2> QED BY <1>0, <2>1, <2>2, <2>3 DEF Brought
  <1>10. ~Resolving'
        BY <1>0 DEF Resolving
  <1> QED BY <1>6, <1>7, <1>8, <1>9, <1>10 DEF KerInv

\* Start, in the order: what the component needs is up, because it is before
\* it.
LEMMA StartNextStep ==
    ASSUME KerInv, StartNext PROVE KerInv'
  <1> PICK m : m = Len(startedOrder)
      OBVIOUS
  <1> PICK n : n = order[m + 1]
      OBVIOUS
  <1>0. phase = "starting" /\ m < Len(order) /\ wiring' = wiring
        BY DEF StartNext
  <1>1. KernelTypeOK /\ Sorted /\ Brought /\ OrderOrRefusal
        BY DEF KerInv
  <1>2. CASE ExitWith("start")
        BY <1>0, <1>2, Refuses
  <1>3. CASE /\ up' = up \cup {n} /\ startedOrder' = Append(startedOrder, n)
             /\ UNCHANGED <<phase, colour, stack, order, failure>>
    <2>0. order \in Seq(Names) /\ startedOrder \in Seq(Names) /\ m \in Nat /\ Len(order) \in Nat
          BY <1>1 DEF KernelTypeOK
    <2>1. m + 1 \in 1..Len(order) /\ n \in Names /\ n \in registered
          BY <1>0, <1>1, <2>0 DEF Sorted
    <2>2. startedOrder' \in Seq(Names) /\ Len(startedOrder') = m + 1
          BY <1>3, <2>0, <2>1, AppendProperties
    <2>3. deps' = deps /\ registered' = registered /\ wiring \in Wirings
          BY <1>0, <1>1 DEF deps, registered, KernelTypeOK
    <2>4. (Cyclic <=> Cyclic') /\ (Incomplete <=> Incomplete')
          BY <2>3 DEF Cyclic, Incomplete
    <2>5. KernelTypeOK'
      <3>1. up' \subseteq Names
            BY <1>1, <1>3, <2>1 DEF KernelTypeOK
      <3> QED BY <1>0, <1>1, <1>3, <2>2, <3>1 DEF KernelTypeOK
    <2>6. Sorted'
          BY <1>1, <1>3, <2>3, SortedKeeps
    <2>7. OrderOrRefusal'
          BY <1>1, <1>3, <2>4 DEF OrderOrRefusal
    <2>8. \A i \in 1..m : order[i] \in up
          BY <1>0, <1>1 DEF Brought
    <2>9. \A i \in 1..Len(startedOrder') : order'[i] \in up'
      <3>1. \A i \in 1..(m + 1) : i \in 1..m \/ i = m + 1
            BY <2>0
      <3> QED BY <1>3, <2>2, <2>8, <3>1
    <2>10. DependenciesUp'
      <3>1. ASSUME NEW x \in up', NEW i \in DOMAIN deps[x] PROVE deps[x][i] \in up'
        <4>1. CASE x \in up
              BY <1>1, <1>3, <3>1, <4>1 DEF Brought, DependenciesUp
        <4>2. CASE x = n
          <5>1. i \in 1..Len(deps[n])
                BY <2>1, <2>3, <3>1, <4>2, WiringTyped
          <5>2. PICK k \in 1..Len(order) : k < m + 1 /\ order[k] = deps[n][i]
                BY <1>1, <2>1, <5>1 DEF Sorted
          <5>3. k \in 1..m
                BY <2>0, <5>2
          <5> QED BY <1>3, <2>8, <4>2, <5>2, <5>3
        <4> QED BY <1>3, <4>1, <4>2
      <3> QED BY <2>3, <3>1 DEF DependenciesUp
    <2>11. Brought'
      <3>1. up' \subseteq registered'
            BY <1>1, <1>3, <2>1, <2>3 DEF Brought
      <3>2. Len(startedOrder') <= Len(order')
            BY <1>0, <1>3, <2>0, <2>2
      <3> QED BY <1>0, <1>3, <2>9, <2>10, <3>1, <3>2 DEF Brought
    <2> QED BY <1>0, <1>3, <2>5, <2>6, <2>7, <2>11 DEF KerInv, Resolving
  <1> QED BY <1>2, <1>3 DEF StartNext

\* A step that ends a phase.
LEMMA PhaseEnds ==
    ASSUME KerInv, phase \in {"starting", "serving"}, phase' \in {"serving", "stopProxy"},
           UNCHANGED <<wiring, colour, stack, order, startedOrder, up, failure>>
    PROVE  KerInv'
  <1>1. deps' = deps /\ registered' = registered
        BY DEF deps, registered
  <1>2. (Cyclic <=> Cyclic') /\ (Incomplete <=> Incomplete')
        BY <1>1 DEF Cyclic, Incomplete
  <1>3. KernelTypeOK'
        BY DEF KerInv, KernelTypeOK, Phases
  <1>4. Sorted'
        BY <1>1, SortedKeeps DEF KerInv
  <1>5. OrderOrRefusal'
        BY <1>2 DEF KerInv, OrderOrRefusal, Phases
  <1>6. Brought' /\ ~Resolving'
        BY <1>1 DEF KerInv, Brought, DependenciesUp, Resolving
  <1> QED BY <1>3, <1>4, <1>5, <1>6 DEF KerInv

\* The proxy is stopped first: no component depends on it.
LEMMA StopProxyStep ==
    ASSUME KerInv, StopProxy PROVE KerInv'
  <1>0. /\ phase = "stopProxy" /\ up' = up \ {Proxy} /\ phase' = "resolveStop"
        /\ colour' = [n \in Names |-> "white"] /\ stack' = <<>> /\ order' = <<>>
        /\ UNCHANGED <<wiring, startedOrder, failure>>
        BY DEF StopProxy, ResolveOrderBegins
  <1>1. deps' = deps /\ registered' = registered /\ wiring \in Wirings
        BY <1>0 DEF deps, registered, KerInv, KernelTypeOK
  <1>2. (Cyclic <=> Cyclic') /\ (Incomplete <=> Incomplete')
        BY <1>1 DEF Cyclic, Incomplete
  <1>3. <<>> \in Seq([name : Names, next : Nat \ {0}]) /\ <<>> \in Seq(Names) /\ Len(<<>>) = 0
        OBVIOUS
  <1>4. KernelTypeOK'
        BY <1>0, <1>3 DEF KerInv, KernelTypeOK, Phases
  <1>5. Len(order') = 0 /\ Len(stack') = 0
        BY <1>0, <1>3
  <1>6. Sorted'
        BY <1>5 DEF Sorted
  <1>7. OrderOrRefusal'
        BY <1>0, <1>2 DEF KerInv, OrderOrRefusal, Phases
  <1>8. DependenciesUp'
    <2>1. ASSUME NEW x \in up, NEW i \in DOMAIN deps[x] PROVE deps[x][i] \in up /\ deps[x][i] # Proxy
      <3>1. x \in Names /\ i \in 1..Len(deps[x])
            BY <1>1, <2>1, WiringTyped DEF KerInv, KernelTypeOK
      <3> QED BY <1>1, <2>1, <3>1, WiringTyped DEF KerInv, Brought, DependenciesUp
    <2> QED BY <1>0, <1>1, <2>1 DEF DependenciesUp
  <1>9. Brought'
        BY <1>0, <1>1, <1>8 DEF KerInv, Brought
  <1>10. Searched'
        BY <1>0, <1>5 DEF Searched, Ordered
  <1> QED BY <1>4, <1>6, <1>7, <1>9, <1>10 DEF KerInv

\* Stop, from the end of the order: whoever needs the component is after it,
\* and down.
LEMMA StopNextStep ==
    ASSUME KerInv, StopNext PROVE KerInv'
  <1>0. phase = "stopping" /\ order # <<>> /\ UNCHANGED <<wiring, colour, stack, failure, startedOrder>>
        BY DEF StopNext
  <1>1. KernelTypeOK /\ Sorted /\ Brought /\ OrderOrRefusal /\ order \in Seq(Names) /\ wiring \in Wirings
        BY DEF KerInv, KernelTypeOK
  <1>2. deps' = deps /\ registered' = registered
        BY <1>0 DEF deps, registered
  <1>3. (Cyclic <=> Cyclic') /\ (Incomplete <=> Incomplete')
        BY <1>2 DEF Cyclic, Incomplete
  <1>4. CASE phase' = "exited" /\ up' = {} /\ UNCHANGED order
    <2>1. KernelTypeOK'
          BY <1>0, <1>1, <1>4 DEF KernelTypeOK, Phases
    <2>2. Sorted'
          BY <1>1, <1>2, <1>4 DEF Sorted
    <2>3. Brought' /\ ~Resolving'
          BY <1>4 DEF Brought, DependenciesUp, Resolving
    <2>4. OrderOrRefusal'
          BY <1>0, <1>1, <1>3, <1>4 DEF OrderOrRefusal
    <2> QED BY <2>1, <2>2, <2>3, <2>4 DEF KerInv
  <1>5. CASE up' = up \ {Last(order)} /\ order' = Front(order) /\ UNCHANGED phase
    <2> PICK m : m = Len(order)
        OBVIOUS
    <2> PICK l : l = Last(order)
        OBVIOUS
    <2>1. /\ order' \in Seq(Names) /\ m \in Nat /\ m > 0 /\ Len(order') = m - 1
          /\ \A i \in 1..(m - 1) : order'[i] = order[i]
          /\ l = order[m] /\ l \in Names
          BY <1>0, <1>1, <1>5, FrontFacts
    <2>2. 1..Len(order') = 1..(m - 1) /\ \A i \in 1..(m - 1) : i \in 1..m /\ i < m
          BY <2>1
    <2>3. m \in 1..m /\ \A i \in 1..m : i = m \/ i \in 1..(m - 1)
          BY <2>1
    <2>4. /\ \A i, j \in 1..m : order[i] = order[j] => i = j
          /\ \A i \in 1..m : order[i] \in registered
          /\ \A i \in 1..m : \A j \in 1..Len(deps[order[i]]) :
               \E k \in 1..m : k < i /\ order[k] = deps[order[i]][j]
          BY <1>1 DEF Sorted
    <2>5. KernelTypeOK'
      <3>1. up' \subseteq Names
            BY <1>1, <1>5 DEF KernelTypeOK
      <3> QED BY <1>0, <1>1, <1>5, <2>1, <3>1 DEF KernelTypeOK
    <2>6. ASSUME NEW i \in 1..(m - 1), NEW j \in 1..Len(deps[order[i]])
          PROVE  \E k \in 1..(m - 1) : k < i /\ order[k] = deps[order[i]][j]
      <3>1. PICK k \in 1..m : k < i /\ order[k] = deps[order[i]][j]
            BY <2>2, <2>4
      <3>2. k \in 1..(m - 1)
            BY <2>1, <3>1
      <3> QED BY <3>1, <3>2
    <2>7. Sorted'
      <3>1. \A i, j \in 1..Len(order') : order'[i] = order'[j] => i = j
            BY <2>1, <2>2, <2>4
      <3>2. \A i \in 1..Len(order') : order'[i] \in registered'
            BY <1>2, <2>1, <2>2, <2>4
      <3>3. ASSUME NEW i \in 1..Len(order'), NEW j \in 1..Len(deps'[order'[i]])
            PROVE  \E k \in 1..Len(order') : k < i /\ order'[k] = deps'[order'[i]][j]
        <4>1. i \in 1..(m - 1) /\ order'[i] = order[i]
              BY <2>1, <2>2
        <4>2. PICK k \in 1..(m - 1) : k < i /\ order[k] = deps[order[i]][j]
              BY <1>2, <2>6, <3>3, <4>1
        <4> QED BY <1>2, <2>1, <2>2, <4>1, <4>2
      <3> QED BY <3>1, <3>2, <3>3 DEF Sorted
    <2>8. \A x \in up : \E i \in 1..m : order[i] = x
          BY <1>0, <1>1 DEF Brought, Ordered
    <2>9. DependenciesUp'
      <3>1. ASSUME NEW x \in up, x # l, NEW j \in DOMAIN deps[x] PROVE deps[x][j] \in up /\ deps[x][j] # l
        <4>1. PICK i \in 1..m : order[i] = x
              BY <2>8
        <4>2. i \in 1..(m - 1)
              BY <2>1, <2>3, <3>1, <4>1
        <4>3. x \in Names /\ j \in 1..Len(deps[x])
              BY <1>1, <3>1, WiringTyped DEF KernelTypeOK
        <4>4. PICK k \in 1..(m - 1) : k < i /\ order[k] = deps[x][j]
              BY <2>6, <4>1, <4>2, <4>3
        <4>5. order[k] # l
              BY <2>1, <2>2, <2>3, <2>4
        <4> QED BY <1>1, <3>1, <4>4, <4>5 DEF Brought, DependenciesUp
      <3> QED BY <1>2, <1>5, <3>1 DEF DependenciesUp
    <2>10. \A x \in up' : Ordered(x)'
      <3>1. ASSUME NEW x \in up, x # l PROVE \E i \in 1..Len(order') : order'[i] = x
        <4>1. PICK i \in 1..m : order[i] = x
              BY <2>8
        <4>2. i \in 1..(m - 1)
              BY <2>1, <2>3, <3>1, <4>1
        <4> QED BY <2>1, <2>2, <4>1, <4>2
      <3> QED BY <1>5, <3>1 DEF Ordered
    <2>11. Brought'
          BY <1>0, <1>1, <1>2, <1>5, <2>9, <2>10 DEF Brought
    <2>12. OrderOrRefusal' /\ ~Resolving'
          BY <1>0, <1>1, <1>3, <1>5 DEF OrderOrRefusal, Resolving
    <2> QED BY <2>5, <2>7, <2>11, <2>12 DEF KerInv
  <1> QED BY <1>4, <1>5 DEF StopNext

\* The last one stops.
LEMMA StoppedStep ==
    ASSUME KerInv, Stopped PROVE KerInv'
  <1>0. /\ phase' = "exited" /\ startedOrder' = <<>> /\ up' = {}
        /\ UNCHANGED <<wiring, colour, stack, order, failure>>
        BY DEF Stopped
  <1>1. deps' = deps /\ registered' = registered
        BY <1>0 DEF deps, registered
  <1>2. (Cyclic <=> Cyclic') /\ (Incomplete <=> Incomplete')
        BY <1>1 DEF Cyclic, Incomplete
  <1>3. <<>> \in Seq(Names)
        OBVIOUS
  <1>4. KernelTypeOK'
        BY <1>0, <1>3 DEF KerInv, KernelTypeOK, Phases
  <1>5. Sorted'
    <2>1. Sorted /\ order' = order
          BY <1>0 DEF KerInv
    <2> QED BY <1>1, <2>1, SortedKeeps
  <1>6. Brought' /\ ~Resolving'
        BY <1>0 DEF Brought, DependenciesUp, Resolving
  <1>7. OrderOrRefusal'
        BY <1>0, <1>2 DEF KerInv, OrderOrRefusal
  <1> QED BY <1>4, <1>5, <1>6, <1>7 DEF KerInv

\* Every step keeps the invariant.
LEMMA KerInvStep == ASSUME KerInv, [KernelNext]_kernelVars PROVE KerInv'
  <1>1. ASSUME NEW n \in Names, VisitRoot(n) PROVE KerInv'
        BY <1>1, VisitRootStep
  <1>2. CASE Started \/ Signal
        BY <1>2, PhaseEnds DEF Started, Signal
  <1>3. CASE UNCHANGED kernelVars
    <2>1. UNCHANGED <<wiring, phase, colour, stack, order, startedOrder, up, failure>>
          BY <1>3 DEF kernelVars
    <2>2. deps' = deps /\ registered' = registered
          BY <2>1 DEF deps, registered
    <2>3. (Cyclic <=> Cyclic') /\ (Incomplete <=> Incomplete')
          BY <2>2 DEF Cyclic, Incomplete
    <2>4. KernelTypeOK' /\ Sorted'
      <3>1. KernelTypeOK'
            BY <2>1 DEF KerInv, KernelTypeOK
      <3>2. Sorted'
            BY <2>1, <2>2, SortedKeeps DEF KerInv
      <3> QED BY <3>1, <3>2
    <2>5. Brought' /\ OrderOrRefusal'
          BY <2>1, <2>2, <2>3 DEF KerInv, Brought, OrderOrRefusal, DependenciesUp, Ordered
    <2>6. Resolving' => Searched'
          BY <2>1, <2>2 DEF KerInv, Resolving, Searched, FrameOK, Ordered
    <2> QED BY <2>4, <2>5, <2>6 DEF KerInv
  <1> QED BY <1>1, <1>2, <1>3, VisitDependencyStep, VisitDoneStep, OrderResolvedStep, StartNextStep,
             StopProxyStep, StopNextStep, StoppedStep DEF KernelNext

\* Whatever the wiring and whichever component is visited first, a running
\* component's dependencies are running, through the starts and through the
\* stops in the order resolved anew; and resolveOrder refuses exactly the
\* wirings that have a ring or a missing dependency (kernel/kernel.go:
\* resolveOrder, Start, Stop).
THEOREM KernelOrders == KernelSpec => [](KernelTypeOK /\ KernelCorrect)
  <1>1. KerInv /\ [KernelNext]_kernelVars => KerInv'
        BY KerInvStep
  <1> QED BY <1>1, KerInvInit, KerInvCorrect, PTL DEF KernelSpec

-----------------------------------------------------------------------------
(* The supervisor of an instance.                                          *)

\* The instance, the slot and the mark, as far as Stop depends on them.
Reached ==
    /\ run \notin {"register", "enter", "recheck", "wait"} => ~Running
    /\ run \in {"register", "enter", "recheck", "wait"} => Gen > 0
    /\ slot <=> run \in {"recheck", "wait"}
    /\ halted <=> stopper \notin {"idle", "draining"}
    /\ halted /\ run = "wait" /\ Running => stopper \in {"forceKill", "drainKill"} /\ captured = Gen

\* A record of times in the order they were taken.
Nondecreasing(s) == \A i, j \in 1..Len(s) : i <= j => s[i] <= s[j]

\* Run goes on: its verdict has not been given.
Going == run \notin {"trip", "onFailed", "done"}

\* The crashes counted since a spawn that is not the last one, and since the last one
\* if its crash has been counted.
Counted(p) == IF run \in {"check", "spawn", "sleep"} THEN Gen - p + 1 ELSE Gen - p

\* Whatever the instance has died of since the last Burst spawns is in the
\* history, so a spawn that found the history quiet is a window later than the
\* one Burst before it.
Paced ==
    /\ Nondecreasing(history) /\ \A i \in 1..Len(history) : history[i] <= clock
    /\ Nondecreasing(spawnedAt) /\ \A i \in 1..Gen : spawnedAt[i] <= clock
    /\ Going /\ Len(history) >= Burst => history[Len(history) - Burst + 1] + Window < history[Len(history)]
    /\ Going => \A p \in 1..Gen : Counted(p) > 0 =>
         Counted(p) <= Len(history) /\ history[Len(history) - Counted(p) + 1] >= spawnedAt[p]
    /\ \A k \in 1..Gen : k > Burst => spawnedAt[k - Burst] + Window < spawnedAt[k]

\* The inductive invariant: the two parts above with the property itself.
SupInv == SupTypeOK /\ Reached /\ Paced /\ StoppedStays

----------------------------------------------------------------------------

\* The limits are numbers.
LEMMA SupNumbers ==
    /\ Burst \in Nat /\ Burst > 0 /\ HealthFailures \in Nat /\ HealthFailures > 0
    /\ Window \in Nat /\ BackoffCap \in Nat /\ MaxSpawns \in Nat /\ MaxClock \in Nat
  BY SupervisorLimits, SupervisorBounds

\* Spawns that lie Burst apart are more than a window apart, so no window holds more.
LEMMA PacedBounded ==
    ASSUME SupTypeOK, Paced PROVE RestartsBounded
  <1> SUFFICES ASSUME NEW t \in 0..clock
               PROVE  Cardinality({i \in DOMAIN spawnedAt : spawnedAt[i] \in t..(t + Window)}) <= Burst
      BY DEF RestartsBounded
  <1> DEFINE S == {i \in DOMAIN spawnedAt : spawnedAt[i] \in t..(t + Window)}
  <1>0. spawnedAt \in Seq(Nat) /\ Gen \in Nat /\ clock \in Nat /\ t \in Nat /\ DOMAIN spawnedAt = 1..Gen
        BY DEF SupTypeOK, Gen
  <1>1. CASE S = {}
    <2>1. Cardinality(S) = 0
          BY <1>1, FS_EmptySet
    <2> HIDE DEF S
    <2>2. Cardinality(S) <= Burst
          BY <2>1, SupNumbers
    <2> QED BY <2>2 DEF S
  <1>2. CASE S # {}
    <2>1. S \subseteq Nat
          BY <1>0
    <2>2. PICK m \in S : \A k \in S : m <= k
          BY <1>2, <2>1, Least
    <2>3. S \in SUBSET (m..(m + Burst - 1))
      <3>1. ASSUME NEW k \in S, k > m + Burst - 1 PROVE FALSE
        <4>1. k \in Nat /\ m \in Nat /\ k \in 1..Gen /\ m \in 1..Gen /\ k - Burst \in 1..Gen /\ m <= k - Burst /\ k > Burst
              BY <1>0, <2>2, <3>1, SupNumbers
        <4>2. spawnedAt[k - Burst] + Window < spawnedAt[k]
              BY <4>1 DEF Paced
        <4>3. spawnedAt[m] <= spawnedAt[k - Burst]
              BY <4>1 DEF Paced, Nondecreasing, Gen
        <4>4. spawnedAt[m] \in Nat /\ spawnedAt[k] \in Nat /\ spawnedAt[k - Burst] \in Nat
              BY <1>0, <4>1
        <4>5. spawnedAt[m] >= t /\ spawnedAt[k] <= t + Window
              BY <2>2, <3>1
        <4> QED BY <1>0, <4>2, <4>3, <4>4, <4>5, SupNumbers
      <3>2. \A k \in S : k \in Nat /\ m <= k /\ k <= m + Burst - 1
            BY <2>1, <2>2, <3>1, SupNumbers
      <3> QED BY <2>1, <2>2, <3>2, SupNumbers
    <2>4. m \in Int /\ m + Burst - 1 \in Int /\ ~(m > m + Burst - 1) /\ (m + Burst - 1) - m + 1 = Burst
          BY <2>1, <2>2, SupNumbers
    <2>5. IsFiniteSet(m..(m + Burst - 1)) /\ Cardinality(m..(m + Burst - 1)) = Burst
          BY <2>4, FS_Interval
    <2> HIDE DEF S
    <2>6. Cardinality(S) <= Burst
          BY <2>3, <2>5, FS_Subset
    <2> QED BY <2>6 DEF S
  <1> QED BY <1>1, <1>2

\* The invariant gives the property.
LEMMA SupInvCorrect == SupInv => SupTypeOK /\ SupervisorCorrect
  <1> SUFFICES ASSUME SupInv PROVE SupTypeOK /\ SupervisorCorrect
      OBVIOUS
  <1>1. RestartsBounded
        BY PacedBounded DEF SupInv
  <1>2. StopReachesInstance
        BY DEF SupInv, Reached, StopReachesInstance
  <1> QED BY <1>1, <1>2 DEF SupInv, SupervisorCorrect

\* The invariant holds at the start.
LEMMA SupInvInit == SupInit => SupInv
  <1> SUFFICES ASSUME SupInit PROVE SupInv
      OBVIOUS
  <1>1. <<>> \in Seq(Nat) /\ Len(<<>>) = 0
        OBVIOUS
  <1>2. SupTypeOK
    <2>1. slot \in BOOLEAN /\ halted \in BOOLEAN
          BY DEF SupInit
    <2>2. health \in 0..HealthFailures
          BY SupNumbers DEF SupInit, NoHealth
    <2> QED BY <1>1, <2>1, <2>2 DEF SupInit, SupTypeOK, RunSteps, StopSteps
  <1>3. Reached
        BY DEF SupInit, Reached, Running
  <1>4. Paced
    <2>1. Len(history) = 0 /\ Gen = 0
          BY <1>1 DEF SupInit, Gen
    <2> QED BY <2>1, SupNumbers DEF Paced, Nondecreasing, Gen
  <1> QED BY <1>2, <1>3, <1>4 DEF SupInv, StoppedStays, SupInit

\* The number of recent crashes is at least Burst if the Burst-th last one is recent.
LEMMA RecentLoop ==
    ASSUME NEW h \in Seq(Nat), Nondecreasing(h), clock \in Nat, Len(h) >= Burst,
           h[Len(h) - Burst + 1] + Window >= clock
    PROVE  IsCrashLooping(h)
  <1> DEFINE n == Len(h)
             S == {i \in DOMAIN h : h[i] + Window >= clock}
             T == (n - Burst + 1)..n
  <1>1. n \in Nat /\ DOMAIN h = 1..n /\ n - Burst + 1 \in 1..n
        BY SupNumbers
  <1>2. T \in SUBSET S
    <2>1. ASSUME NEW i \in T PROVE i \in S
      <3>1. i \in 1..n /\ n - Burst + 1 <= i
            BY <1>1, SupNumbers
      <3>2. h[n - Burst + 1] <= h[i] /\ h[i] \in Nat /\ h[n - Burst + 1] \in Nat
            BY <1>1, <3>1 DEF Nondecreasing
      <3>3. h[i] + Window >= clock
            BY <3>2, SupNumbers
      <3> QED BY <1>1, <3>1, <3>3
    <2> QED BY <2>1
  <1>3. IsFiniteSet(S)
    <2>1. S \in SUBSET (1..n)
          BY <1>1
    <2>2. IsFiniteSet(1..n)
          BY <1>1, FS_Interval
    <2> QED BY <2>1, <2>2, FS_Subset
  <1>4. Cardinality(T) = Burst
    <2>1. n - Burst + 1 \in Int /\ n \in Int /\ ~(n - Burst + 1 > n) /\ n - (n - Burst + 1) + 1 = Burst
          BY <1>1, SupNumbers
    <2> QED BY <2>1, FS_Interval
  <1> HIDE DEF S, T
  <1>5. Cardinality(T) <= Cardinality(S)
        BY <1>2, <1>3, FS_Subset
  <1>6. Cardinality(S) >= Burst
        BY <1>3, <1>4, <1>5, FS_CardinalityType, SupNumbers
  <1> QED BY <1>6 DEF S, IsCrashLooping

----------------------------------------------------------------------------

\* Where the supervisor has no instance and will spawn one.
Between == {"check", "spawn", "sleep"}

\* A step that counts no crash and spawns nothing.
LEMMA PacedStays ==
    ASSUME SupTypeOK, Paced, UNCHANGED <<history, spawnedAt>>, clock' \in Nat, clock <= clock',
           Going' => Going /\ (run' \in Between <=> run \in Between)
    PROVE  Paced'
  <1>1. /\ clock \in Nat /\ history \in Seq(Nat) /\ spawnedAt \in Seq(Nat) /\ Gen' = Gen
        BY DEF SupTypeOK, Gen
  <1>2. \A i \in 1..Len(history) : history[i] <= clock'
    <2>1. \A i \in 1..Len(history) : history[i] \in Nat /\ history[i] <= clock
          BY <1>1 DEF Paced
    <2> QED BY <1>1, <2>1
  <1>3. \A i \in 1..Gen : spawnedAt[i] <= clock'
    <2>1. \A i \in 1..Gen : spawnedAt[i] \in Nat /\ spawnedAt[i] <= clock
          BY <1>1 DEF Paced, Gen
    <2> QED BY <1>1, <2>1
  <1>4. Going' => \A p : Counted(p)' = Counted(p)
        BY <1>1 DEF Counted, Between
  <1>5. Nondecreasing(history)' /\ Nondecreasing(spawnedAt)'
        BY DEF Paced, Nondecreasing
  <1>6. \A k \in 1..Gen' : k > Burst => spawnedAt'[k - Burst] + Window < spawnedAt'[k]
        BY <1>1 DEF Paced
  <1>7. Going' /\ Len(history') >= Burst =>
          history'[Len(history') - Burst + 1] + Window < history'[Len(history')]
        BY DEF Paced
  <1>8. Going' => \A p \in 1..Gen' : Counted(p)' > 0 =>
          Counted(p)' <= Len(history') /\ history'[Len(history') - Counted(p)' + 1] >= spawnedAt'[p]
    <2> HIDE DEF Counted
    <2> QED BY <1>1, <1>4 DEF Paced
  <1>9. (\A i \in 1..Len(history') : history'[i] <= clock') /\ (\A i \in 1..Gen' : spawnedAt'[i] <= clock')
        BY <1>1, <1>2, <1>3
  <1> HIDE DEF Counted, Going, Gen, Nondecreasing
  <1> QED BY <1>5, <1>6, <1>7, <1>8, <1>9 DEF Paced

\* A crash is counted, at the end of a sequence of crashes that grows older.
LEMMA PacedCounts ==
    ASSUME SupTypeOK, Paced, Going, run \in {"spawn", "crashed"}, UNCHANGED <<spawnedAt, clock>>, CountCrash
    PROVE  Paced' /\ history' \in Seq(Nat) /\ run' \in {"trip", "sleep"} /\ wake' \in Nat
  <1> PICK n : n = Len(history)
      OBVIOUS
  <1>1. /\ clock \in Nat /\ history \in Seq(Nat) /\ spawnedAt \in Seq(Nat) /\ Gen' = Gen /\ n \in Nat /\ Gen \in Nat
        BY DEF SupTypeOK, Gen
  <1>2. /\ history' \in Seq(Nat) /\ Len(history') = n + 1 /\ history'[n + 1] = clock
        /\ \A i \in 1..n : history'[i] = history[i]
        BY <1>1, AppendProperties DEF CountCrash
  <1>3. \A i \in 1..n : history[i] \in Nat /\ history[i] <= clock
        BY <1>1 DEF Paced
  <1>4. \A i \in 1..(n + 1) : i = n + 1 \/ i \in 1..n
        BY <1>1
  <1>5. \A i \in 1..Len(history') : history'[i] \in Nat /\ history'[i] <= clock'
    <2>1. ASSUME NEW i \in 1..Len(history') PROVE history'[i] \in Nat /\ history'[i] <= clock
      <3>1. i = n + 1 \/ i \in 1..n
            BY <1>2, <1>4
      <3>2. clock <= clock
            BY <1>1
      <3> QED BY <1>1, <1>2, <1>3, <3>1, <3>2, Zenon
    <2> QED BY <2>1
  <1>6. Nondecreasing(history')
    <2>1. ASSUME NEW i \in 1..Len(history'), NEW j \in 1..Len(history'), i <= j
          PROVE  history'[i] <= history'[j]
      <3>1. CASE j = n + 1
            BY <1>2, <1>5, <3>1
      <3>2. CASE j # n + 1
        <4>1. i \in 1..n /\ j \in 1..n
              BY <1>1, <1>2, <2>1, <3>2
        <4> QED BY <1>2, <2>1, <4>1 DEF Paced, Nondecreasing
      <3> QED BY <3>1, <3>2
    <2> QED BY <2>1 DEF Nondecreasing
  <1>7. /\ run' \in {"trip", "sleep"} /\ (run' = "sleep" => ~IsCrashLooping(history')) /\ wake' \in Nat
    <2>1. wake \in Nat
          BY DEF SupTypeOK
    <2>2. \A delay \in 0..BackoffCeiling : clock + delay \in Nat
          BY <1>1
    <2> QED BY <2>1, <2>2 DEF CountCrash
  <1>8. ASSUME Going', Len(history') >= Burst
        PROVE  history'[Len(history') - Burst + 1] + Window < history'[Len(history')]
    <2>1. ~IsCrashLooping(history')
          BY <1>7, <1>8 DEF Going
    <2>2. ~(history'[Len(history') - Burst + 1] + Window >= clock)
          BY <1>1, <1>2, <1>6, <1>8, <2>1, RecentLoop
    <2>3. Len(history') - Burst + 1 \in 1..Len(history')
          BY <1>1, <1>2, <1>8, SupNumbers
    <2>4. history'[Len(history') - Burst + 1] \in Nat
          BY <1>5, <2>3
    <2> QED BY <1>1, <1>2, <2>2, <2>4, SupNumbers
  <1>9. ASSUME Going', NEW p \in 1..Gen, Counted(p)' > 0
        PROVE  Counted(p)' <= Len(history') /\ history'[Len(history') - Counted(p)' + 1] >= spawnedAt[p]
    <2> PICK c : c = Counted(p)
        OBVIOUS
    <2> PICK e : e = Counted(p)'
        OBVIOUS
    <2>1. e = Gen - p + 1 /\ c \in Nat /\ e \in Nat /\ p \in Nat /\ (e = c \/ e = c + 1)
      <3>1. run' \in {"check", "spawn", "sleep"}
            BY <1>7, <1>9 DEF Going
      <3>2. e = Gen - p + 1
            BY <1>1, <3>1 DEF Counted
      <3>3. c = Gen - p + 1 \/ c = Gen - p
            BY DEF Counted
      <3> QED BY <1>1, <3>2, <3>3
    <2>2. spawnedAt[p] <= clock /\ spawnedAt[p] \in Nat
          BY <1>1 DEF Paced, Gen
    <2>3. c > 0 => c <= n /\ history[n - c + 1] >= spawnedAt[p]
          BY DEF Paced
    <2>4. CASE e = 1
      <3>1. e <= n + 1 /\ (n + 1) - e + 1 = n + 1
            BY <1>1, <2>4
      <3> QED BY <1>1, <1>2, <2>2, <3>1
    <2>5. CASE e > 1 /\ e = c
      <3>1. c > 0 /\ c <= n /\ n - c + 1 \in 1..n /\ (n + 1) - e + 1 \in 1..n /\ n - c + 1 <= (n + 1) - e + 1
        <4>1. c > 0 /\ c \in Nat
              BY <2>1, <2>5
        <4>2. c <= n
              BY <2>3, <4>1
        <4> QED BY <1>1, <2>5, <4>1, <4>2
      <3>2. history[n - c + 1] <= history[(n + 1) - e + 1]
            BY <3>1 DEF Paced, Nondecreasing
      <3>3. history[n - c + 1] \in Nat /\ history[(n + 1) - e + 1] \in Nat /\ history'[(n + 1) - e + 1] = history[(n + 1) - e + 1]
            BY <1>2, <1>3, <3>1
      <3>4. history'[(n + 1) - e + 1] >= spawnedAt[p]
            BY <2>2, <2>3, <3>1, <3>2, <3>3
      <3>5. e <= n + 1
            BY <1>1, <2>1, <2>5, <3>1
      <3> QED BY <1>2, <3>4, <3>5
    <2>6. CASE e > 1 /\ e = c + 1
      <3>1. c > 0 /\ c <= n /\ (n + 1) - e + 1 = n - c + 1 /\ n - c + 1 \in 1..n /\ e <= n + 1
        <4>1. c > 0 /\ c \in Nat
              BY <2>1, <2>6
        <4>2. c <= n
              BY <2>3, <4>1
        <4> QED BY <1>1, <2>6, <4>1, <4>2
      <3>2. history'[(n + 1) - e + 1] = history[n - c + 1]
            BY <1>2, <3>1
      <3> QED BY <1>2, <2>3, <3>1, <3>2
    <2> QED BY <1>9, <2>1, <2>4, <2>5, <2>6
  <1>10. Nondecreasing(spawnedAt)' /\ \A i \in 1..Gen' : spawnedAt'[i] <= clock'
        BY <1>1 DEF Paced, Nondecreasing
  <1>11. \A k \in 1..Gen' : k > Burst => spawnedAt'[k - Burst] + Window < spawnedAt'[k]
        BY <1>1 DEF Paced
  <1>12. Going' => \A p \in 1..Gen' : Counted(p)' > 0 =>
          Counted(p)' <= Len(history') /\ history'[Len(history') - Counted(p)' + 1] >= spawnedAt'[p]
    <2> HIDE DEF Counted
    <2> QED BY <1>1, <1>9
  <1>13. Nondecreasing(history)' /\ \A i \in 1..Len(history') : history'[i] <= clock'
        BY <1>5, <1>6 DEF Nondecreasing
  <1>14. Paced'
    <2> HIDE DEF Counted, Going, Gen, Nondecreasing
    <2> QED BY <1>8, <1>10, <1>11, <1>12, <1>13 DEF Paced
  <1> QED BY <1>2, <1>7, <1>14

\* What lies a window before something earlier does so before the present.
LEMMA LaterBy ==
    ASSUME NEW a \in Nat, NEW b \in Nat, NEW c \in Nat, NEW s \in Nat, NEW w \in Nat,
           a >= s, a + w < b, b <= c
    PROVE  s + w < c
  OBVIOUS

\* A spawn: the one Burst before it is more than a window old.
LEMMA PacedSpawns ==
    ASSUME SupTypeOK, Paced, run = "spawn", run' = "register", spawnedAt' = Append(spawnedAt, clock),
           UNCHANGED <<history, clock>>
    PROVE  Paced' /\ spawnedAt' \in Seq(Nat) /\ Gen' = Gen + 1
  <1> PICK g : g = Gen
      OBVIOUS
  <1> PICK n : n = Len(history)
      OBVIOUS
  <1>1. /\ clock \in Nat /\ history \in Seq(Nat) /\ spawnedAt \in Seq(Nat) /\ g \in Nat /\ n \in Nat
        BY DEF SupTypeOK, Gen
  <1>2. /\ spawnedAt' \in Seq(Nat) /\ Gen' = g + 1 /\ spawnedAt'[g + 1] = clock
        /\ \A i \in 1..g : spawnedAt'[i] = spawnedAt[i]
        BY <1>1, AppendProperties DEF Gen
  <1>3. \A i \in 1..g : spawnedAt[i] \in Nat /\ spawnedAt[i] <= clock
        BY <1>1 DEF Paced, Gen
  <1>4. \A i \in 1..(g + 1) : i = g + 1 \/ i \in 1..g
        BY <1>1
  <1>5. \A i \in 1..Gen' : spawnedAt'[i] \in Nat /\ spawnedAt'[i] <= clock'
    <2>1. ASSUME NEW i \in 1..Gen' PROVE spawnedAt'[i] \in Nat /\ spawnedAt'[i] <= clock
      <3>1. i = g + 1 \/ i \in 1..g
            BY <1>2, <1>4
      <3>2. clock <= clock
            BY <1>1
      <3> QED BY <1>1, <1>2, <1>3, <3>1, <3>2, Zenon
    <2> QED BY <2>1
  <1>6. Nondecreasing(spawnedAt')
    <2>1. ASSUME NEW i \in 1..Len(spawnedAt'), NEW j \in 1..Len(spawnedAt'), i <= j
          PROVE  spawnedAt'[i] <= spawnedAt'[j]
      <3>0. Len(spawnedAt') = g + 1
            BY <1>2 DEF Gen
      <3>1. CASE j = g + 1
            BY <1>2, <1>5, <3>0, <3>1
      <3>2. CASE j # g + 1
        <4>1. i \in 1..g /\ j \in 1..g
              BY <1>1, <2>1, <3>0, <3>2
        <4> QED BY <1>2, <2>1, <4>1 DEF Paced, Nondecreasing, Gen
      <3> QED BY <3>1, <3>2
    <2> QED BY <2>1 DEF Nondecreasing
  <1>7. ASSUME NEW k \in 1..Gen', k > Burst PROVE spawnedAt'[k - Burst] + Window < spawnedAt'[k]
    <2>1. CASE k = g + 1
      <3> PICK p : p = k - Burst
          OBVIOUS
      <3>1. p \in 1..g /\ Counted(p) = Burst
            BY <1>1, <1>7, <2>1, SupNumbers DEF Counted
      <3>2. Burst <= n /\ history[n - Burst + 1] >= spawnedAt[p]
            BY <3>1, SupNumbers DEF Paced, Going
      <3>3. history[n - Burst + 1] + Window < history[n] /\ history[n] <= clock
        <4>1. Going /\ Len(history) >= Burst /\ n \in 1..Len(history)
              BY <1>1, <3>2, SupNumbers DEF Going
        <4> QED BY <4>1 DEF Paced
      <3>4. history[n - Burst + 1] \in Nat /\ history[n] \in Nat
        <4>1. n - Burst + 1 \in 1..n /\ n \in 1..n
              BY <1>1, <3>2, SupNumbers
        <4> QED BY <1>1, <4>1
      <3>5. spawnedAt[p] \in Nat /\ spawnedAt'[p] = spawnedAt[p] /\ spawnedAt'[k] = clock
            BY <1>2, <1>3, <2>1, <3>1
      <3>6. spawnedAt[p] + Window < clock
        <4> PICK a : a = history[n - Burst + 1]
            OBVIOUS
        <4> PICK b : b = history[n]
            OBVIOUS
        <4> PICK s : s = spawnedAt[p]
            OBVIOUS
        <4>1. a >= s /\ a + Window < b /\ b <= clock /\ a \in Nat /\ b \in Nat /\ s \in Nat
              BY <3>2, <3>3, <3>4, <3>5
        <4>2. s + Window < clock
              BY <1>1, <4>1, SupNumbers, LaterBy, Zenon
        <4> QED BY <4>2
      <3> QED BY <3>5, <3>6
    <2>2. CASE k # g + 1
      <3>1. k \in 1..g /\ k - Burst \in 1..g
            BY <1>1, <1>2, <1>7, <2>2, SupNumbers
      <3> QED BY <1>2, <1>7, <3>1 DEF Paced
    <2> QED BY <2>1, <2>2
  <1>8. ASSUME NEW p \in 1..Gen', Counted(p)' > 0
        PROVE  Counted(p)' <= Len(history') /\ history'[Len(history') - Counted(p)' + 1] >= spawnedAt'[p]
    <2>1. Counted(p)' = (g + 1) - p
          BY <1>2 DEF Counted
    <2>2. p \in 1..g /\ Counted(p) = (g + 1) - p
          BY <1>1, <1>2, <1>8, <2>1 DEF Counted
    <2>3. spawnedAt'[p] = spawnedAt[p]
          BY <1>2, <2>2
    <2> QED BY <1>8, <2>1, <2>2, <2>3 DEF Paced, Going
  <1>9. Going' /\ Len(history') >= Burst =>
          history'[Len(history') - Burst + 1] + Window < history'[Len(history')]
        BY DEF Paced, Going
  <1>10. Nondecreasing(history)' /\ (\A i \in 1..Len(history') : history'[i] <= clock')
        BY DEF Paced, Nondecreasing
  <1>11. Nondecreasing(spawnedAt)' /\ \A i \in 1..Gen' : spawnedAt'[i] <= clock'
        BY <1>5, <1>6 DEF Nondecreasing
  <1>12. Paced'
    <2> HIDE DEF Counted, Going, Gen, Nondecreasing
    <2> QED BY <1>7, <1>8, <1>9, <1>10, <1>11 DEF Paced
  <1> QED BY <1>2, <1>12

----------------------------------------------------------------------------

\* The status machine has no edge from "stopped" to "failed" (state_machine.go).
LEMMA NoVerdictAfterStop == ~MayTransition("stopped", "failed")
  BY DEF MayTransition, IsValidState, CanTransition, ValidTransitions, DeploymentState

\* The steps at which neither a crash is counted nor an instance spawned.
Calm ==
    \/ RunCheck
    \/ RegisterHost
    \/ SetInstance
    \/ Recheck
    \/ Listen
    \/ Exit
    \/ WaitReturns
    \/ ExitCheck
    \/ Wake
    \/ TripCrashLoop
    \/ OnFailed
    \/ DrainBegins
    \/ StopMark
    \/ StopKill
    \/ StopUnroute
    \/ StopEnds
    \/ HealthPoll
    \/ TakeOver

\* A calm step keeps the types.
LEMMA CalmTypes ==
    ASSUME SupInv, Calm
    PROVE  SupTypeOK'
  <1> USE DEF SupInv, SupTypeOK, RunSteps, StopSteps, runVars, stopVars
  <1>1. CASE RunCheck
    <2>1. slot' \in BOOLEAN /\ halted' \in BOOLEAN
          BY <1>1 DEF RunCheck
    <2> QED BY <1>1, <2>1 DEF RunCheck
  <1>2. CASE RegisterHost
    <2>1. slot' \in BOOLEAN /\ halted' \in BOOLEAN
          BY <1>2 DEF RegisterHost
    <2> QED BY <1>2, <2>1 DEF RegisterHost
  <1>3. CASE SetInstance
    <2>1. slot' \in BOOLEAN /\ halted' \in BOOLEAN
          BY <1>3 DEF SetInstance
    <2> QED BY <1>3, <2>1 DEF SetInstance
  <1>4. CASE Recheck
    <2>1. slot' \in BOOLEAN /\ halted' \in BOOLEAN
          BY <1>4 DEF Recheck
    <2> QED BY SupNumbers, <1>4, <2>1 DEF Recheck, NoHealth
  <1>5. CASE Listen
    <2>1. slot' \in BOOLEAN /\ halted' \in BOOLEAN
          BY <1>5 DEF Listen
    <2> QED BY <1>5, <2>1 DEF Listen
  <1>6. CASE Exit
    <2>1. slot' \in BOOLEAN /\ halted' \in BOOLEAN
          BY <1>6 DEF Exit
    <2> QED BY <1>6, <2>1 DEF Exit
  <1>7. CASE WaitReturns
    <2>1. slot' \in BOOLEAN /\ halted' \in BOOLEAN
          BY <1>7 DEF WaitReturns
    <2> QED BY SupNumbers, <1>7, <2>1 DEF WaitReturns, NoHealth
  <1>8. CASE ExitCheck
    <2>1. slot' \in BOOLEAN /\ halted' \in BOOLEAN
          BY <1>8 DEF ExitCheck
    <2> QED BY <1>8, <2>1 DEF ExitCheck
  <1>9. CASE Wake
    <2>1. slot' \in BOOLEAN /\ halted' \in BOOLEAN
          BY <1>9 DEF Wake
    <2> QED BY <1>9, <2>1 DEF Wake
  <1>10. CASE TripCrashLoop
    <2>1. slot' \in BOOLEAN /\ halted' \in BOOLEAN
          BY <1>10 DEF TripCrashLoop
    <2> QED BY <1>10, <2>1 DEF TripCrashLoop
  <1>11. CASE OnFailed
    <2>1. slot' \in BOOLEAN /\ halted' \in BOOLEAN
          BY <1>11 DEF OnFailed
    <2> QED BY <1>11, <2>1 DEF OnFailed, Transition
  <1>12. CASE DrainBegins
    <2>1. slot' \in BOOLEAN /\ halted' \in BOOLEAN
          BY <1>12 DEF DrainBegins
    <2> QED BY <1>12, <2>1 DEF DrainBegins, Transition
  <1>13. CASE StopMark
    <2>1. slot' \in BOOLEAN /\ halted' \in BOOLEAN
          BY <1>13 DEF StopMark
    <2> QED BY <1>13, <2>1 DEF StopMark, Gen
  <1>14. CASE StopKill
    <2>1. slot' \in BOOLEAN /\ halted' \in BOOLEAN
          BY <1>14 DEF StopKill
    <2> QED BY <1>14, <2>1 DEF StopKill
  <1>15. CASE StopUnroute
    <2>1. slot' \in BOOLEAN /\ halted' \in BOOLEAN
          BY <1>15 DEF StopUnroute
    <2> QED BY <1>15, <2>1 DEF StopUnroute
  <1>16. CASE StopEnds
    <2>1. slot' \in BOOLEAN /\ halted' \in BOOLEAN
          BY <1>16 DEF StopEnds
    <2> QED BY <1>16, <2>1 DEF StopEnds, Transition
  <1>17. CASE HealthPoll
    <2>1. slot' \in BOOLEAN /\ halted' \in BOOLEAN
          BY <1>17 DEF HealthPoll
    <2> QED BY SupNumbers, <1>17, <2>1 DEF HealthPoll
  <1>18. CASE TakeOver
    <2>1. slot' \in BOOLEAN /\ halted' \in BOOLEAN
          BY <1>18 DEF TakeOver
    <2> QED BY <1>18, <2>1 DEF TakeOver
  <1> QED BY <1>1, <1>2, <1>3, <1>4, <1>5, <1>6, <1>7, <1>8, <1>9, <1>10, <1>11, <1>12, <1>13, <1>14, <1>15, <1>16, <1>17, <1>18 DEF Calm

\* A calm step leaves Stop able to reach the instance.
LEMMA CalmReached ==
    ASSUME SupInv, Calm
    PROVE  Reached'
  <1>0. slot \in BOOLEAN /\ halted \in BOOLEAN /\ run \in RunSteps /\ stopper \in StopSteps /\ Gen \in Nat
        BY DEF SupInv, SupTypeOK, Gen
  <1>00. Gen' = Gen
        BY DEF Calm, Gen, RunCheck, RegisterHost, SetInstance, Recheck, Listen, Exit, WaitReturns, ExitCheck, Wake, TripCrashLoop, OnFailed, DrainBegins, StopMark, StopKill, StopUnroute, StopEnds, HealthPoll, TakeOver
  <1> USE DEF SupInv, Reached, RunSteps, StopSteps, runVars, stopVars, Running
  <1>1. CASE RunCheck
        BY <1>0, <1>00, <1>1 DEF RunCheck
  <1>2. CASE RegisterHost
        BY <1>0, <1>00, <1>2 DEF RegisterHost
  <1>3. CASE SetInstance
        BY <1>0, <1>00, <1>3 DEF SetInstance
  <1>4. CASE Recheck
        BY <1>0, <1>00, <1>4 DEF Recheck
  <1>5. CASE Listen
        BY <1>0, <1>00, <1>5 DEF Listen
  <1>6. CASE Exit
        BY <1>0, <1>00, <1>6 DEF Exit
  <1>7. CASE WaitReturns
        BY <1>0, <1>00, <1>7 DEF WaitReturns
  <1>8. CASE ExitCheck
        BY <1>0, <1>00, <1>8 DEF ExitCheck
  <1>9. CASE Wake
        BY <1>0, <1>00, <1>9 DEF Wake
  <1>10. CASE TripCrashLoop
        BY <1>0, <1>00, <1>10 DEF TripCrashLoop
  <1>11. CASE OnFailed
        BY <1>0, <1>00, <1>11 DEF OnFailed
  <1>12. CASE DrainBegins
        BY <1>0, <1>00, <1>12 DEF DrainBegins
  <1>13. CASE StopMark
        BY <1>0, <1>00, <1>13 DEF StopMark
  <1>14. CASE StopKill
        BY <1>0, <1>00, <1>14 DEF StopKill
  <1>15. CASE StopUnroute
        BY <1>0, <1>00, <1>15 DEF StopUnroute
  <1>16. CASE StopEnds
        BY <1>0, <1>00, <1>16 DEF StopEnds
  <1>17. CASE HealthPoll
        BY <1>0, <1>00, <1>17 DEF HealthPoll
  <1>18. CASE TakeOver
        BY <1>0, <1>00, <1>18 DEF TakeOver
  <1> QED BY <1>1, <1>2, <1>3, <1>4, <1>5, <1>6, <1>7, <1>8, <1>9, <1>10, <1>11, <1>12, <1>13, <1>14, <1>15, <1>16, <1>17, <1>18 DEF Calm

\* A calm step keeps the last word of stopDeployment.
LEMMA CalmStopped ==
    ASSUME SupInv, Calm
    PROVE  StoppedStays'
  <1> USE DEF SupInv, StoppedStays, stopVars
  <1>1. CASE RunCheck
        BY <1>1 DEF RunCheck
  <1>2. CASE RegisterHost
        BY <1>2 DEF RegisterHost
  <1>3. CASE SetInstance
        BY <1>3 DEF SetInstance
  <1>4. CASE Recheck
        BY <1>4 DEF Recheck
  <1>5. CASE Listen
        BY <1>5 DEF Listen
  <1>6. CASE Exit
        BY <1>6 DEF Exit
  <1>7. CASE WaitReturns
        BY <1>7 DEF WaitReturns
  <1>8. CASE ExitCheck
        BY <1>8 DEF ExitCheck
  <1>9. CASE Wake
        BY <1>9 DEF Wake
  <1>10. CASE TripCrashLoop
        BY <1>10 DEF TripCrashLoop
  <1>11. CASE OnFailed
        BY <1>11, NoVerdictAfterStop DEF OnFailed, Transition
  <1>12. CASE DrainBegins
        BY <1>12 DEF DrainBegins, Transition
  <1>13. CASE StopMark
        BY <1>13 DEF StopMark
  <1>14. CASE StopKill
        BY <1>14 DEF StopKill
  <1>15. CASE StopUnroute
        BY <1>15 DEF StopUnroute
  <1>16. CASE StopEnds
        BY <1>16 DEF StopEnds, Transition
  <1>17. CASE HealthPoll
        BY <1>17 DEF HealthPoll
  <1>18. CASE TakeOver
        BY <1>18 DEF TakeOver
  <1> QED BY <1>1, <1>2, <1>3, <1>4, <1>5, <1>6, <1>7, <1>8, <1>9, <1>10, <1>11, <1>12, <1>13, <1>14, <1>15, <1>16, <1>17, <1>18 DEF Calm

\* A calm step keeps the pace of crashes and spawns.
LEMMA CalmPaced ==
    ASSUME SupInv, Calm
    PROVE  Paced'
  <1>1. UNCHANGED <<history, spawnedAt, clock>>
        BY DEF Calm, runVars, stopVars, RunCheck, RegisterHost, SetInstance, Recheck, Listen, Exit, WaitReturns, ExitCheck, Wake, TripCrashLoop, OnFailed, DrainBegins, StopMark, StopKill, StopUnroute, StopEnds, HealthPoll, TakeOver
  <1>2. Going' => Going /\ (run' \in Between <=> run \in Between)
        BY DEF Calm, Going, Between, runVars, stopVars, SupInv, SupTypeOK, RunSteps, RunCheck, RegisterHost, SetInstance, Recheck, Listen, Exit, WaitReturns, ExitCheck, Wake, TripCrashLoop, OnFailed, DrainBegins, StopMark, StopKill, StopUnroute, StopEnds, HealthPoll, TakeOver
  <1>3. clock' \in Nat /\ clock <= clock'
        BY <1>1 DEF SupInv, SupTypeOK
  <1> QED BY <1>1, <1>2, <1>3, PacedStays DEF SupInv

\* Steps that neither spawn nor move the clock keep the invariant.
LEMMA SupCalm == SupInv /\ Calm => SupInv'
  BY CalmTypes, CalmReached, CalmStopped, CalmPaced DEF SupInv

\* What a counted crash leaves alone.
LEMMA SupCounts ==
    ASSUME SupInv, run \in {"spawn", "crashed"}, CountCrash,
           UNCHANGED <<spec, attempt, inst, slot, stopVars, health, route, status, clock, spawnedAt>>
    PROVE  SupInv'
  <1>1. Paced' /\ history' \in Seq(Nat) /\ run' \in {"trip", "sleep"} /\ wake' \in Nat
    <2>1. Going
          BY DEF Going
    <2> QED BY <2>1, PacedCounts DEF SupInv
  <1>2. SupTypeOK'
    <2>1. slot' \in BOOLEAN /\ halted' \in BOOLEAN
          BY DEF SupInv, SupTypeOK, stopVars
    <2> QED BY <1>1, <2>1 DEF SupInv, SupTypeOK, RunSteps, StopSteps, stopVars
  <1>3. Reached'
    <2>1. slot = FALSE /\ slot' = FALSE /\ ~Running /\ inst' = inst
          BY DEF SupInv, SupTypeOK, Reached
    <2> QED BY <1>1, <2>1 DEF SupInv, Reached, stopVars, Running
  <1>4. StoppedStays'
        BY DEF SupInv, StoppedStays, stopVars
  <1> QED BY <1>1, <1>2, <1>3, <1>4 DEF SupInv

\* A spawn keeps the invariant: the check before it saw fewer than Burst
\* failures in the window.
LEMMA SupSpawns == SupInv /\ Spawn => SupInv'
  <1> SUFFICES ASSUME SupInv, Spawn PROVE SupInv'
      OBVIOUS
  <1>1. CASE CountCrash /\ UNCHANGED <<inst, spawnedAt>>
        BY <1>1, SupCounts DEF Spawn
  <1>2. CASE /\ inst' = IF spec.static THEN "spawned" ELSE "live"
             /\ spawnedAt' = Append(spawnedAt, clock)
             /\ run' = "register"
             /\ UNCHANGED <<history, wake>>
    <2>1. Paced' /\ spawnedAt' \in Seq(Nat) /\ Gen' = Gen + 1
          BY <1>2, PacedSpawns DEF Spawn, SupInv
    <2>2. SupTypeOK'
      <3>1. slot' \in BOOLEAN /\ halted' \in BOOLEAN
            BY DEF Spawn, SupInv, SupTypeOK, stopVars
      <3> QED BY <1>2, <2>1, <3>1 DEF Spawn, SupInv, SupTypeOK, RunSteps, StopSteps, stopVars
    <2>3. Reached'
      <3>1. slot = FALSE /\ slot' = FALSE
            BY DEF Spawn, SupInv, SupTypeOK, Reached
      <3>2. Gen \in Nat
            BY DEF SupInv, SupTypeOK, Gen
      <3>3. Gen' > 0
            BY <2>1, <3>2
      <3> QED BY <1>2, <3>1, <3>3 DEF Spawn, SupInv, Reached, stopVars
    <2>4. StoppedStays'
          BY DEF Spawn, SupInv, StoppedStays, stopVars
    <2> QED BY <2>1, <2>2, <2>3, <2>4 DEF SupInv
  <1> QED BY <1>1, <1>2 DEF Spawn

\* Time only makes the windows longer.
LEMMA SupTicks == SupInv /\ Tick => SupInv'
  <1> SUFFICES ASSUME SupInv, Tick PROVE SupInv'
      OBVIOUS
  <1>1. clock' \in Nat /\ clock <= clock'
        BY DEF Tick, SupInv, SupTypeOK
  <1>2. Paced'
    <2>1. Going' => Going /\ (run' \in Between <=> run \in Between)
          BY DEF Tick, Going, Between, runVars
    <2> QED BY <1>1, <2>1, PacedStays DEF SupInv, Tick, runVars
  <1>3. SupTypeOK'
    <2>1. slot' \in BOOLEAN /\ halted' \in BOOLEAN
          BY DEF Tick, SupInv, SupTypeOK, stopVars
    <2> QED BY <1>1, <2>1 DEF Tick, SupInv, SupTypeOK, RunSteps, StopSteps, stopVars, runVars
  <1>4. Reached' /\ StoppedStays'
        BY DEF Tick, SupInv, Reached, StoppedStays, stopVars, runVars, Running, Gen
  <1> QED BY <1>2, <1>3, <1>4 DEF SupInv

\* Every step keeps the invariant.
LEMMA SupInvStep == SupInv /\ [SupNext]_supVars => SupInv'
  <1> SUFFICES ASSUME SupInv, [SupNext]_supVars PROVE SupInv'
      OBVIOUS
  <1>1. CASE UNCHANGED supVars
    <2>1. SupTypeOK' /\ Reached' /\ StoppedStays'
          BY <1>1 DEF SupInv, SupTypeOK, Reached, StoppedStays, supVars, runVars, stopVars, Running, Gen
    <2>2. Paced'
          BY <1>1 DEF SupInv, Paced, supVars, runVars, Nondecreasing, Going, Counted, Gen
    <2> QED BY <2>1, <2>2 DEF SupInv
  <1>2. CASE Calm
        BY <1>2, SupCalm
  <1>3. CASE Verdict
        BY <1>3, SupCounts DEF Verdict
  <1> QED BY <1>1, <1>2, <1>3, SupSpawns, SupTicks DEF SupNext, Calm

\* In every interleaving of exits, failed health checks, backoffs and Stop, no
\* instance outlives its supervision and none that Stop should have ended is
\* waited for; no more than Burst instances are spawned within any window; and
\* a completed stop keeps the status (components/deploy/supervisor.go: Run,
\* Stop, setInstance, isCrashLooping).
THEOREM SupervisionHolds == SupSpec => [](SupTypeOK /\ SupervisorCorrect)
  <1>1. SupInv /\ [SupNext]_supVars => SupInv'
        BY SupInvStep
  <1> QED BY <1>1, SupInvInit, SupInvCorrect, PTL DEF SupSpec

-----------------------------------------------------------------------------
(* The log streams of the deployments.                                     *)

\* A subscriber: its deployment, whether it is on, what is queued and what it
\* has received.
WatchState == [id : Deployments \cup {"none"}, on : BOOLEAN, queued : 0..WatchBuf, lines : Seq(Line)]
\* A line appended to the buffer and not broadcast yet.
PendingState == [id : Deployments \cup {"none"}, line : 0..MaxLines]

\* The types, with the sequences that TLC does not enumerate.
LogTypes ==
    /\ born \in SUBSET Deployments
    /\ DOMAIN buffer \subseteq born
    /\ \A d \in DOMAIN buffer : buffer[d] \in Seq(Line) /\ Len(buffer[d]) <= MaxLogLines
    /\ logOrder \in Seq(Deployments)
    /\ DOMAIN hist \subseteq Deployments
    /\ \A d \in DOMAIN hist : hist[d] \in Seq(Line)
    /\ ended \subseteq DOMAIN hist
    /\ pending \in [Writers -> PendingState]
    /\ watch \in [Watchers -> WatchState]
    /\ lineCount \in 0..MaxLines
    /\ lagged \subseteq Watchers
    /\ unlisted \subseteq DOMAIN buffer

\* An open subscription is one of an open hub.
HubsOpen == \A s \in Watchers : watch[s].on => watch[s].id \in DOMAIN hist \ ended

\* The inductive invariant: the types and HubsOpen with the two properties.
LogInv == LogTypes /\ HubsOpen /\ StreamFaithful /\ BuffersBounded

----------------------------------------------------------------------------

\* The limits are numbers.
LEMMA LogNumbers ==
    /\ MaxLogDeployments \in Nat /\ MaxLogDeployments > 0 /\ MaxLogLines \in Nat /\ MaxLogLines > 0
    /\ WatchBuf \in Nat /\ WatchBuf > 0 /\ MaxLines \in Nat
  BY LogLimits

\* The invariant gives the property.
LEMMA LogInvCorrect == LogInv => LogTypeOK /\ LogsCorrect
  <1> SUFFICES ASSUME LogInv PROVE LogTypeOK /\ LogsCorrect
      OBVIOUS
  <1>1. \A s \in Watchers : watch[s].queued \in 0..WatchBuf /\ watch[s].lines \in Seq(Line)
        BY DEF LogInv, LogTypes, WatchState
  <1>2. LogTypeOK
        BY <1>1 DEF LogInv, LogTypes, LogTypeOK, PendingState
  <1> QED BY <1>2 DEF LogInv, LogsCorrect

\* The invariant holds at the start.
LEMMA LogInvInit == LogInit => LogInv
  <1> SUFFICES ASSUME LogInit PROVE LogInv
      OBVIOUS
  <1>0. <<>> \in Seq(Line) /\ <<>> \in Seq(Deployments) /\ DOMAIN <<>> = {} /\ Len(<<>>) = 0
        OBVIOUS
  <1>1. LogTypes
    <2>1. NotWatching \in WatchState
          BY <1>0, LogNumbers DEF NotWatching, WatchState
    <2>2. watch \in [Watchers -> WatchState]
          BY <2>1 DEF LogInit
    <2>3. pending \in [Writers -> PendingState]
          BY LogNumbers DEF LogInit, PendingState, NoLine, NotWatching
    <2> QED BY <1>0, <2>2, <2>3, LogNumbers DEF LogInit, LogTypes
  <1>2. HubsOpen /\ StreamFaithful
        BY DEF LogInit, HubsOpen, StreamFaithful, NotWatching
  <1>3. BuffersBounded
    <2>1. DOMAIN buffer \ unlisted = {}
          BY <1>0 DEF LogInit
    <2>2. Cardinality({}) = 0
          BY FS_EmptySet
    <2> QED BY <2>1, <2>2, LogNumbers DEF BuffersBounded
  <1> QED BY <1>1, <1>2, <1>3 DEF LogInv

----------------------------------------------------------------------------

\* What a map with another key, or without some, holds.
LEMMA WithIs ==
    ASSUME NEW f, NEW k, NEW v
    PROVE  /\ DOMAIN With(f, k, v) = DOMAIN f \cup {k} /\ With(f, k, v)[k] = v
           /\ \A x \in DOMAIN f \ {k} : With(f, k, v)[x] = f[x]
  BY DEF With

\* A map without some of its keys.
LEMMA WithoutIs ==
    ASSUME NEW f, NEW ks
    PROVE  DOMAIN Without(f, ks) = DOMAIN f \ ks /\ \A x \in DOMAIN f \ ks : Without(f, ks)[x] = f[x]
  BY DEF Without

\* The buffers of the map are finitely many.
LEMMA BuffersFinite ==
    ASSUME LogTypes, NEW S \in SUBSET DOMAIN buffer
    PROVE  IsFiniteSet(S) /\ Cardinality(S) \in Nat
  <1>1. S \in SUBSET Deployments
        BY DEF LogTypes
  <1>2. IsFiniteSet(S)
        BY <1>1, LogFinite, FS_Subset
  <1> QED BY <1>2, FS_CardinalityType

\* Any buffers of those in the order are within the limit.
LEMMA BuffersFewer ==
    ASSUME LogTypes, BuffersBounded, NEW S \in SUBSET (DOMAIN buffer \ unlisted)
    PROVE  Cardinality(S) <= MaxLogDeployments
  <1> DEFINE T == DOMAIN buffer \ unlisted
  <1>1. T \in SUBSET DOMAIN buffer
        OBVIOUS
  <1>2. IsFiniteSet(T) /\ Cardinality(T) \in Nat
        BY <1>1, BuffersFinite
  <1>3. Cardinality(T) <= MaxLogDeployments
        BY DEF BuffersBounded
  <1>4. S \in SUBSET T
        OBVIOUS
  <1> HIDE DEF T
  <1>5. Cardinality(S) <= Cardinality(T) /\ IsFiniteSet(S)
        BY <1>2, <1>4, FS_Subset
  <1>6. Cardinality(S) \in Nat
        BY <1>5, FS_CardinalityType
  <1> QED BY <1>2, <1>3, <1>5, <1>6, LogNumbers

\* The parts of the invariant that do not depend on the buffers.
LEMMA StreamsKeep ==
    ASSUME LogInv, UNCHANGED <<hist, ended, watch, lagged>>
    PROVE  HubsOpen' /\ StreamFaithful'
  BY DEF LogInv, HubsOpen, StreamFaithful

\* A step that leaves the buffers alone keeps their limit.
LEMMA BuffersKeep ==
    ASSUME LogInv, UNCHANGED <<buffer, logOrder, unlisted>>
    PROVE  BuffersBounded'
  BY DEF LogInv, BuffersBounded

\* CreateHub keeps the invariant.
LEMMA CreateHubKeeps ==
    ASSUME LogInv, NEW d \in Deployments, CreateHub(d)
    PROVE  LogInv'
  <1>00. <<>> \in Seq(Line)
        OBVIOUS
  <1> PICK e \in Seq(Line) : e = <<>>
      BY <1>00
  <1>0. /\ hist' = With(hist, d, e) /\ d \notin DOMAIN hist
        /\ UNCHANGED <<born, buffer, logOrder, ended, pending, watch, lineCount, lagged, unlisted, initPanics>>
        BY DEF CreateHub
  <1>1. DOMAIN hist' = DOMAIN hist \cup {d} /\ hist'[d] = e /\ \A x \in DOMAIN hist : hist'[x] = hist[x]
        BY <1>0 DEF With
  <1>2. LogTypes'
        BY <1>0, <1>1 DEF LogInv, LogTypes
  <1>3. HubsOpen'
        BY <1>0, <1>1 DEF LogInv, HubsOpen
  <1>4. StreamFaithful'
        BY <1>0, <1>1 DEF LogInv, HubsOpen, StreamFaithful
  <1> QED BY <1>0, <1>2, <1>3, <1>4, BuffersKeep DEF LogInv

\* CloseStream keeps the invariant: it takes watchers off the hub and sends
\* nothing.
LEMMA CloseKeeps ==
    ASSUME LogInv, NEW d \in Deployments, CloseStream(d)
    PROVE  LogInv'
  <1>0. /\ d \in DOMAIN hist \ ended /\ ended' = ended \cup {d}
        /\ watch' = [s \in Watchers |-> IF s \in Attached(d) THEN [watch[s] EXCEPT !.on = FALSE] ELSE watch[s]]
        /\ UNCHANGED <<born, buffer, logOrder, hist, pending, lineCount, lagged, unlisted, initPanics>>
        BY DEF CloseStream
  <1>1. ASSUME NEW s \in Watchers
        PROVE  /\ watch'[s] \in WatchState
               /\ watch'[s].on => watch'[s] = watch[s] /\ watch[s].id # d
    <2>0. watch[s] \in WatchState
          BY DEF LogInv, LogTypes
    <2>1. CASE s \in Attached(d)
      <3>1. watch'[s] = [watch[s] EXCEPT !.on = FALSE]
            BY <1>0, <2>1
      <3> QED BY <2>0, <3>1 DEF WatchState
    <2>2. CASE s \notin Attached(d)
          BY <1>0, <2>0, <2>2 DEF Attached
    <2> QED BY <2>1, <2>2
  <1>2. watch' \in [Watchers -> WatchState]
    <2>1. \E f : watch' = [s \in Watchers |-> f[s]]
      <3>1. watch' = [s \in Watchers |-> watch'[s]]
            BY <1>0
      <3> QED BY <3>1
    <2> QED BY <1>0, <1>1, <2>1
  <1>3. LogTypes'
        BY <1>0, <1>2 DEF LogInv, LogTypes
  <1>4. HubsOpen'
    <2>1. ASSUME NEW s \in Watchers, watch'[s].on PROVE watch'[s].id \in DOMAIN hist' \ ended'
      <3>1. watch'[s] = watch[s] /\ watch[s].id # d
            BY <1>1, <2>1
      <3>2. watch[s].id \in DOMAIN hist \ ended
            BY <2>1, <3>1 DEF LogInv, HubsOpen
      <3> QED BY <1>0, <3>1, <3>2
    <2> QED BY <2>1 DEF HubsOpen
  <1>5. StreamFaithful'
    <2>1. ASSUME NEW s \in Watchers \ lagged, watch'[s].on PROVE watch'[s].lines = hist[watch'[s].id]
      <3>1. watch'[s] = watch[s]
            BY <1>1, <2>1
      <3> QED BY <2>1, <3>1 DEF LogInv, StreamFaithful
    <2> QED BY <1>0, <2>1 DEF StreamFaithful
  <1> QED BY <1>0, <1>3, <1>4, <1>5, BuffersKeep DEF LogInv

\* A subscriber's own step that leaves its lines alone.
LEMMA WatcherKeeps ==
    ASSUME LogInv, NEW s \in Watchers, ReceiveLine(s) \/ StopWatching(s)
    PROVE  LogInv'
  <1>0. UNCHANGED <<born, buffer, logOrder, hist, ended, pending, lineCount, lagged, unlisted, initPanics>>
        BY DEF ReceiveLine, StopWatching
  <1>1. watch \in [Watchers -> WatchState] /\ watch[s] \in WatchState
        BY DEF LogInv, LogTypes
  <1>2. PICK x \in WatchState : /\ watch' = [watch EXCEPT ![s] = x]
                                /\ x.on => watch[s].on /\ x.id = watch[s].id /\ x.lines = watch[s].lines
    <2>1. CASE ReceiveLine(s)
      <3> PICK x : x = [watch[s] EXCEPT !.queued = @ - 1]
          OBVIOUS
      <3>1. watch' = [watch EXCEPT ![s] = x]
            BY <2>1 DEF ReceiveLine
      <3>2. watch[s].queued \in 0..WatchBuf /\ watch[s].queued > 0
            BY <1>1, <2>1 DEF ReceiveLine, WatchState
      <3>3. watch[s].queued - 1 \in 0..WatchBuf
            BY <3>2, LogNumbers
      <3>4. x \in WatchState /\ x.on = watch[s].on /\ x.id = watch[s].id /\ x.lines = watch[s].lines
            BY <1>1, <3>3 DEF WatchState
      <3> QED BY <3>1, <3>4
    <2>2. CASE StopWatching(s)
      <3> PICK x : x = [watch[s] EXCEPT !.on = FALSE, !.queued = 0]
          OBVIOUS
      <3>1. watch' = [watch EXCEPT ![s] = x]
            BY <1>1, <2>2 DEF StopWatching
      <3>2. 0 \in 0..WatchBuf
            BY LogNumbers
      <3>3. x \in WatchState /\ x.on = FALSE
            BY <1>1, <3>2 DEF WatchState
      <3> QED BY <3>1, <3>3
    <2> QED BY <2>1, <2>2
  <1>3. watch' \in [Watchers -> WatchState] /\ watch'[s] = x /\ \A t \in Watchers \ {s} : watch'[t] = watch[t]
        BY <1>1, <1>2
  <1>4. LogTypes'
        BY <1>0, <1>3 DEF LogInv, LogTypes
  <1>5. HubsOpen' /\ StreamFaithful'
        BY <1>0, <1>2, <1>3 DEF LogInv, HubsOpen, StreamFaithful
  <1> QED BY <1>0, <1>4, <1>5, BuffersKeep DEF LogInv

\* Subscribe keeps the invariant: the history it replays is the whole record.
LEMMA SubscribeKeeps ==
    ASSUME LogInv, NEW s \in Watchers, NEW d \in Deployments, Subscribe(s, d)
    PROVE  LogInv'
  <1> PICK h : h = hist[d]
      OBVIOUS
  <1> PICK q : q = IF Len(h) > WatchBuf THEN SubSeq(h, 1, WatchBuf) ELSE h
      OBVIOUS
  <1> PICK b \in BOOLEAN : b = (d \notin ended)
      OBVIOUS
  <1> PICK x : x = [id |-> d, on |-> b, queued |-> Len(q), lines |-> q]
      OBVIOUS
  <1>0. /\ d \in DOMAIN hist /\ watch' = [watch EXCEPT ![s] = x]
        /\ lagged' = IF Len(h) > WatchBuf THEN lagged \cup {s} ELSE lagged
        /\ UNCHANGED <<born, buffer, logOrder, hist, ended, pending, lineCount, unlisted, initPanics>>
        BY DEF Subscribe
  <1>1. watch \in [Watchers -> WatchState] /\ h \in Seq(Line) /\ Len(h) \in Nat
        BY <1>0 DEF LogInv, LogTypes
  <1>2. q \in Seq(Line) /\ Len(q) \in 0..WatchBuf /\ (~(Len(h) > WatchBuf) => q = h)
    <2>1. CASE Len(h) > WatchBuf
      <3> PICK t : t = SubSeq(h, 1, WatchBuf)
          OBVIOUS
      <3>1. \A i \in 1..WatchBuf : h[i] \in Line
            BY <1>1, <2>1, LogNumbers
      <3>2. 1 \in Int /\ WatchBuf \in Int
            BY LogNumbers
      <3>3. t \in Seq(Line) /\ Len(t) = IF 1 <= WatchBuf THEN WatchBuf - 1 + 1 ELSE 0
            BY <3>1, <3>2, SubSeqProperties
      <3>4. Len(t) \in 0..WatchBuf
            BY <3>3, LogNumbers
      <3>5. q = t
            BY <2>1
      <3> QED BY <2>1, <3>3, <3>4, <3>5
    <2>2. CASE ~(Len(h) > WatchBuf)
      <3>1. q = h
            BY <2>2
      <3> QED BY <1>1, <2>2, <3>1, LogNumbers
    <2> QED BY <2>1, <2>2
  <1>3. x \in WatchState /\ x.id = d /\ x.lines = q /\ x.on = b
        BY <1>2 DEF WatchState
  <1>4. watch' \in [Watchers -> WatchState] /\ watch'[s] = x /\ \A t \in Watchers \ {s} : watch'[t] = watch[t]
        BY <1>0, <1>1, <1>3
  <1>5. LogTypes'
    <2>1. lagged' \subseteq Watchers
          BY <1>0 DEF LogInv, LogTypes
    <2> QED BY <1>0, <1>4, <2>1 DEF LogInv, LogTypes
  <1>6. HubsOpen'
        BY <1>0, <1>3, <1>4 DEF LogInv, HubsOpen
  <1>7. StreamFaithful'
    <2>1. ASSUME NEW t \in Watchers \ lagged', watch'[t].on PROVE watch'[t].lines = hist[watch'[t].id]
      <3>1. CASE t = s
        <4>1. ~(Len(h) > WatchBuf)
              BY <1>0, <2>1, <3>1
        <4> QED BY <1>2, <1>3, <1>4, <3>1, <4>1
      <3>2. CASE t # s
        <4>1. watch'[t] = watch[t] /\ t \notin lagged
              BY <1>0, <1>4, <2>1, <3>2
        <4> QED BY <2>1, <4>1 DEF LogInv, StreamFaithful
      <3> QED BY <3>1, <3>2
    <2> QED BY <1>0, <2>1 DEF StreamFaithful
  <1> QED BY <1>0, <1>5, <1>6, <1>7, BuffersKeep DEF LogInv

\* AppendLine keeps the invariant: the oldest lines go first.
LEMMA AppendKeeps ==
    ASSUME LogInv, NEW w \in Writers, NEW d \in Deployments, AppendLine(w, d)
    PROVE  LogInv'
  <1> PICK n : n = lineCount + 1
      OBVIOUS
  <1> PICK old : old = IF d \in DOMAIN buffer THEN buffer[d] ELSE <<>>
      OBVIOUS
  <1> PICK all : all = Append(old, n)
      OBVIOUS
  <1> PICK v : v = IF Len(all) > MaxLogLines THEN Tail(all) ELSE all
      OBVIOUS
  <1> PICK x : x = [id |-> d, line |-> n]
      OBVIOUS
  <1>0. /\ d \in born /\ lineCount < MaxLines /\ lineCount' = n /\ buffer' = With(buffer, d, v)
        /\ unlisted' = (IF d \in DOMAIN buffer THEN unlisted ELSE unlisted \cup {d})
        /\ pending' = [pending EXCEPT ![w] = x]
        /\ UNCHANGED <<born, logOrder, hist, ended, watch, lagged, initPanics>>
        BY DEF AppendLine
  <1>1. n \in Line /\ n \in 0..MaxLines
        BY <1>0, LogNumbers DEF LogInv, LogTypes, Line
  <1>2. old \in Seq(Line) /\ Len(old) \in Nat /\ Len(old) <= MaxLogLines
    <2>1. CASE d \in DOMAIN buffer
      <3>1. old = buffer[d]
            BY <2>1
      <3> QED BY <2>1, <3>1 DEF LogInv, LogTypes
    <2>2. CASE d \notin DOMAIN buffer
      <3>1. old = <<>>
            BY <2>2
      <3>2. <<>> \in Seq(Line) /\ Len(<<>>) = 0
            OBVIOUS
      <3>3. old \in Seq(Line) /\ Len(old) = 0
            BY <3>1, <3>2, Zenon
      <3> QED BY <3>3, LogNumbers
    <2> QED BY <2>1, <2>2
  <1>3. all \in Seq(Line) /\ Len(all) = Len(old) + 1
        BY <1>1, <1>2, AppendProperties
  <1>4. v \in Seq(Line) /\ Len(v) <= MaxLogLines
    <2>1. CASE Len(all) > MaxLogLines
      <3>1. v = Tail(all)
            BY <2>1
      <3>2. all # <<>>
            BY <1>2, <1>3
      <3>3. Tail(all) \in Seq(Line) /\ Len(Tail(all)) = Len(all) - 1
            BY <1>3, <3>2, HeadTailProperties
      <3> QED BY <1>2, <1>3, <3>1, <3>3, LogNumbers
    <2>2. CASE ~(Len(all) > MaxLogLines)
      <3>1. v = all
            BY <2>2
      <3> QED BY <1>2, <1>3, <2>2, <3>1, LogNumbers
    <2> QED BY <2>1, <2>2
  <1>5. DOMAIN buffer' = DOMAIN buffer \cup {d} /\ buffer'[d] = v /\ \A y \in DOMAIN buffer \ {d} : buffer'[y] = buffer[y]
        BY <1>0 DEF With
  <1>6. pending' \in [Writers -> PendingState]
    <2>1. x \in PendingState
          BY <1>1 DEF PendingState
    <2>2. pending \in [Writers -> PendingState]
          BY DEF LogInv, LogTypes
    <2> QED BY <1>0, <2>1, <2>2
  <1>7. LogTypes'
    <2>1. DOMAIN buffer' \subseteq born' /\ unlisted' \subseteq DOMAIN buffer'
          BY <1>0, <1>5 DEF LogInv, LogTypes
    <2>2. \A y \in DOMAIN buffer' : buffer'[y] \in Seq(Line) /\ Len(buffer'[y]) <= MaxLogLines
          BY <1>4, <1>5 DEF LogInv, LogTypes
    <2> QED BY <1>0, <1>1, <1>6, <2>1, <2>2 DEF LogInv, LogTypes
  <1>8. BuffersBounded'
    <2>1. DOMAIN buffer' \ unlisted' = DOMAIN buffer \ unlisted
          BY <1>0, <1>5
    <2> QED BY <1>0, <2>1 DEF LogInv, BuffersBounded
  <1> QED BY <1>0, <1>7, <1>8, StreamsKeep DEF LogInv

\* BroadcastLine keeps the invariant: a watcher that is full is marked, any
\* other one gets the line.
LEMMA BroadcastKeeps ==
    ASSUME LogInv, NEW w \in Writers, BroadcastLine(w)
    PROVE  LogInv'
  <1> PICK d : d = pending[w].id
      OBVIOUS
  <1> PICK n : n = pending[w].line
      OBVIOUS
  <1> PICK open : open = (d \in DOMAIN hist \ ended)
      OBVIOUS
  <1> PICK reached : reached = {s \in Attached(d) : open /\ ~Full(s)}
      OBVIOUS
  <1>0. /\ n # NoLine /\ pending' = [pending EXCEPT ![w].line = NoLine]
        /\ hist' = (IF open THEN [hist EXCEPT ![d] = Append(@, n)] ELSE hist)
        /\ watch' = [s \in Watchers |->
                           IF s \in reached
                           THEN [watch[s] EXCEPT !.queued = @ + 1, !.lines = Append(@, n)]
                           ELSE watch[s]]
        /\ lagged' = lagged \cup (IF open THEN Attached(d) \ reached ELSE {})
        /\ UNCHANGED <<born, buffer, logOrder, ended, lineCount, unlisted, initPanics>>
        BY DEF BroadcastLine
  <1>1. pending \in [Writers -> PendingState] /\ watch \in [Watchers -> WatchState]
        BY DEF LogInv, LogTypes
  <1>2. n \in Line
    <2>1. pending[w] \in PendingState
          BY <1>1
    <2>2. n \in 0..MaxLines
          BY <2>1 DEF PendingState
    <2>3. n # 0
          BY <1>0 DEF NoLine
    <2> QED BY <2>2, <2>3, LogNumbers DEF Line
  <1>3. pending' \in [Writers -> PendingState]
    <2> PICK x : x = [pending[w] EXCEPT !.line = NoLine]
        OBVIOUS
    <2>1. x \in PendingState
          BY <1>1, LogNumbers DEF PendingState, NoLine
    <2>2. pending' = [pending EXCEPT ![w] = x]
          BY <1>0, <1>1
    <2> QED BY <1>1, <2>1, <2>2
  <1>4. /\ DOMAIN hist' = DOMAIN hist /\ \A y \in DOMAIN hist \ {d} : hist'[y] = hist[y]
        /\ open => hist'[d] = Append(hist[d], n) /\ hist[d] \in Seq(Line) /\ d \in DOMAIN hist
        /\ ~open => hist' = hist
        BY <1>0 DEF LogInv, LogTypes
  <1>5. \A y \in DOMAIN hist' : hist'[y] \in Seq(Line)
    <2>1. ASSUME NEW y \in DOMAIN hist' PROVE hist'[y] \in Seq(Line)
      <3>1. CASE open /\ y = d
        <4> PICK h : h = hist[d]
            OBVIOUS
        <4>1. h \in Seq(Line) /\ hist'[y] = Append(h, n)
              BY <1>4, <3>1
        <4>2. Append(h, n) \in Seq(Line)
              BY <1>2, <4>1, AppendProperties
        <4> QED BY <4>1, <4>2
      <3>2. CASE ~(open /\ y = d)
            BY <1>4, <2>1, <3>2 DEF LogInv, LogTypes
      <3> QED BY <3>1, <3>2
    <2> QED BY <2>1
  <1>6. ASSUME NEW s \in Watchers
        PROVE  /\ watch'[s] \in WatchState /\ watch'[s].on = watch[s].on /\ watch'[s].id = watch[s].id
               /\ s \in reached => watch'[s].lines = Append(watch[s].lines, n)
               /\ s \notin reached => watch'[s] = watch[s]
    <2>0. watch[s] \in WatchState
          BY <1>1
    <2>1. CASE s \in reached
      <3> PICK x : x = [watch[s] EXCEPT !.queued = @ + 1, !.lines = Append(@, n)]
          OBVIOUS
      <3>1. watch'[s] = x
            BY <1>0, <2>1
      <3>2. watch[s].queued + 1 \in 0..WatchBuf
        <4>1. watch[s].queued \in 0..WatchBuf /\ watch[s].queued # WatchBuf
              BY <2>0, <2>1 DEF WatchState, Full
        <4> QED BY <4>1, LogNumbers
      <3>3. Append(watch[s].lines, n) \in Seq(Line)
        <4>1. watch[s].lines \in Seq(Line)
              BY <2>0 DEF WatchState
        <4> QED BY <1>2, <4>1, AppendProperties
      <3> PICK l \in Seq(Line) : l = Append(watch[s].lines, n)
          BY <3>3
      <3>4. x = [watch[s] EXCEPT !.queued = @ + 1, !.lines = l]
            BY <2>0 DEF WatchState
      <3>5. x \in WatchState /\ x.on = watch[s].on /\ x.id = watch[s].id /\ x.lines = l
            BY <2>0, <3>2, <3>4 DEF WatchState
      <3> QED BY <2>1, <3>1, <3>5
    <2>2. CASE s \notin reached
      <3>1. watch'[s] = watch[s]
            BY <1>0, <2>2
      <3> QED BY <2>0, <2>2, <3>1
    <2> QED BY <2>1, <2>2
  <1>7. watch' \in [Watchers -> WatchState]
    <2>1. watch' = [s \in Watchers |-> watch'[s]]
          BY <1>0
    <2> QED BY <1>6, <2>1
  <1>8. LogTypes'
    <2>1. lagged' \subseteq Watchers
          BY <1>0 DEF LogInv, LogTypes, Attached
    <2> QED BY <1>0, <1>3, <1>4, <1>5, <1>7, <2>1 DEF LogInv, LogTypes
  <1>9. HubsOpen'
        BY <1>0, <1>4, <1>6 DEF LogInv, HubsOpen
  <1>10. StreamFaithful'
    <2>1. ASSUME NEW s \in Watchers \ lagged', watch'[s].on PROVE watch'[s].lines = hist'[watch'[s].id]
      <3>1. watch[s].on /\ s \notin lagged /\ watch'[s].id = watch[s].id /\ watch[s].id \in DOMAIN hist \ ended
            BY <1>0, <1>6, <2>1 DEF LogInv, HubsOpen
      <3>2. watch[s].lines = hist[watch[s].id]
            BY <3>1 DEF LogInv, StreamFaithful
      <3>3. CASE watch[s].id = d
        <4>1. open /\ s \in Attached(d)
              BY <3>1, <3>3 DEF Attached
        <4>2. s \in reached
              BY <1>0, <2>1, <4>1
        <4>3. watch'[s].lines = Append(watch[s].lines, n)
              BY <1>6, <4>2
        <4> QED BY <1>4, <3>1, <3>2, <3>3, <4>1, <4>3
      <3>4. CASE watch[s].id # d
        <4>1. s \notin reached
              BY <3>4 DEF Attached
        <4>2. watch'[s] = watch[s]
              BY <1>6, <4>1
        <4> QED BY <1>4, <3>1, <3>2, <3>4, <4>2
      <3> QED BY <3>3, <3>4
    <2> QED BY <2>1 DEF StreamFaithful
  <1> QED BY <1>0, <1>8, <1>9, <1>10, BuffersKeep DEF LogInv

\* Where the members of a concatenation come from.
LEMMA ConcatAt ==
    ASSUME NEW S, NEW a \in Seq(S), NEW b \in Seq(S)
    PROVE  /\ (a \o b) \in Seq(S) /\ Len(a \o b) = Len(a) + Len(b)
           /\ \A j \in 1..(Len(a) + Len(b)) : (a \o b)[j] = IF j <= Len(a) THEN a[j] ELSE b[j - Len(a)]
  BY ConcatProperties

\* The other places of an order survive the removal of one.
LEMMA RemoveAtKeeps ==
    ASSUME NEW S, NEW q \in Seq(S), NEW i \in 1..Len(q)
    PROVE  RemoveAt(q, i) \in Seq(S) /\ (ToSet(q) \ {q[i]}) \subseteq ToSet(RemoveAt(q, i))
  <1> PICK n : n = Len(q)
      OBVIOUS
  <1> PICK a : a = SubSeq(q, 1, i - 1)
      OBVIOUS
  <1> PICK b : b = SubSeq(q, i + 1, n)
      OBVIOUS
  <1>1. n \in Nat /\ i \in Nat /\ i \in Int /\ n \in Int /\ 1 \in Int /\ i - 1 \in Int /\ i + 1 \in Int /\ 1 <= i /\ i <= n
        OBVIOUS
  <1>2. (\A j \in 1..(i - 1) : q[j] \in S) /\ \A j \in (i + 1)..n : q[j] \in S
        BY <1>1
  <1>3. /\ a \in Seq(S) /\ Len(a) = (IF 1 <= i - 1 THEN (i - 1) - 1 + 1 ELSE 0)
        /\ \A j \in 1..((i - 1) - 1 + 1) : a[j] = q[1 + j - 1]
        BY <1>1, <1>2, SubSeqProperties
  <1>4. /\ b \in Seq(S) /\ Len(b) = (IF i + 1 <= n THEN n - (i + 1) + 1 ELSE 0)
        /\ \A j \in 1..(n - (i + 1) + 1) : b[j] = q[(i + 1) + j - 1]
        BY <1>1, <1>2, SubSeqProperties
  <1>5. Len(a) = i - 1 /\ Len(b) = n - i
        BY <1>1, <1>3, <1>4
  <1>6. \A j \in 1..(i - 1) : a[j] = q[j]
    <2>1. ASSUME NEW j \in 1..(i - 1) PROVE a[j] = q[j]
      <3>1. j \in 1..((i - 1) - 1 + 1) /\ 1 + j - 1 = j
            BY <1>1
      <3> QED BY <1>3, <3>1
    <2> QED BY <2>1
  <1>7. \A j \in 1..(n - i) : b[j] = q[i + j]
    <2>1. ASSUME NEW j \in 1..(n - i) PROVE b[j] = q[i + j]
      <3>1. j \in 1..(n - (i + 1) + 1) /\ (i + 1) + j - 1 = i + j
            BY <1>1
      <3> QED BY <1>4, <3>1
    <2> QED BY <2>1
  <1> PICK r : r = a \o b
      OBVIOUS
  <1>8. r \in Seq(S) /\ Len(r) = Len(a) + Len(b) /\ \A j \in 1..(Len(a) + Len(b)) : r[j] = IF j <= Len(a) THEN a[j] ELSE b[j - Len(a)]
    <2>1. a \in Seq(S) /\ b \in Seq(S)
          BY <1>3, <1>4
    <2> QED BY <2>1, ConcatAt
  <1>9. ASSUME NEW j \in 1..n, j # i PROVE \E k \in 1..Len(r) : r[k] = q[j]
    <2>0. Len(r) = n - 1 /\ \A k \in 1..(n - 1) : r[k] = IF k <= i - 1 THEN a[k] ELSE b[k - (i - 1)]
      <3>1. Len(a) + Len(b) = n - 1
        <4>1. \A x, y \in Int : (x - 1) + (y - x) = y - 1
              OBVIOUS
        <4> QED BY <1>1, <1>5, <4>1, Zenon
      <3> QED BY <1>5, <1>8, <3>1
    <2>1. CASE j < i
      <3>1. j \in 1..(n - 1) /\ j <= i - 1 /\ j \in 1..(i - 1)
            BY <1>1, <2>1
      <3>2. r[j] = q[j]
            BY <1>6, <2>0, <3>1
      <3> QED BY <2>0, <3>1, <3>2
    <2>2. CASE j > i
      <3> PICK k : k = j - 1
          OBVIOUS
      <3> PICK m : m = j - i
          OBVIOUS
      <3>1. k \in 1..(n - 1) /\ ~(k <= i - 1) /\ k - (i - 1) = m /\ m \in 1..(n - i) /\ i + m = j
            BY <1>1, <2>2
      <3>2. r[k] = b[m] /\ b[m] = q[j]
            BY <1>7, <2>0, <3>1
      <3> QED BY <2>0, <3>1, <3>2
    <2>3. j < i \/ j > i
          BY <1>1, <1>9
    <2> QED BY <2>1, <2>2, <2>3
  <1>10. RemoveAt(q, i) = r
        BY DEF RemoveAt
  <1>11. ASSUME NEW x \in ToSet(q) \ {q[i]} PROVE x \in ToSet(r)
    <2>1. PICK j \in 1..n : q[j] = x
          BY DEF ToSet
    <2>2. j # i
          BY <1>11, <2>1
    <2>3. PICK k \in 1..Len(r) : r[k] = x
          BY <1>9, <2>1, <2>2
    <2>4. DOMAIN r = 1..Len(r)
          BY <1>8
    <2> QED BY <2>3, <2>4 DEF ToSet
  <1> QED BY <1>8, <1>10, <1>11

\* RemoveLogs keeps the invariant: only the first place in the order goes, and
\* the buffer with it.
LEMMA RemoveKeeps ==
    ASSUME LogInv, NEW d \in Deployments, RemoveLogs(d)
    PROVE  LogInv'
  <1>0. /\ buffer' = Without(buffer, {d}) /\ unlisted' = unlisted \ {d}
        /\ UNCHANGED <<born, hist, ended, pending, watch, lineCount, lagged, initPanics>>
        BY DEF RemoveLogs
  <1>1. DOMAIN buffer' = DOMAIN buffer \ {d} /\ \A y \in DOMAIN buffer \ {d} : buffer'[y] = buffer[y]
        BY <1>0, WithoutIs
  <1>2. logOrder' \in Seq(Deployments) /\ (ToSet(logOrder) \ {d}) \subseteq ToSet(logOrder')
    <2>0. logOrder \in Seq(Deployments)
          BY DEF LogInv, LogTypes
    <2>1. ASSUME NEW i \in 1..Len(logOrder), logOrder[i] = d, logOrder' = RemoveAt(logOrder, i)
          PROVE  logOrder' \in Seq(Deployments) /\ (ToSet(logOrder) \ {d}) \subseteq ToSet(logOrder')
          BY <2>0, <2>1, RemoveAtKeeps
    <2>2. CASE logOrder' = logOrder
          BY <2>0, <2>2
    <2> QED BY <2>1, <2>2 DEF RemoveLogs
  <1>3. LogTypes'
        BY <1>0, <1>1, <1>2 DEF LogInv, LogTypes
  <1>4. BuffersBounded'
    <2>1. DOMAIN buffer' \ unlisted' = (DOMAIN buffer \ unlisted) \ {d}
          BY <1>0, <1>1
    <2>2. (DOMAIN buffer \ unlisted) \ {d} \in SUBSET (DOMAIN buffer \ unlisted)
          OBVIOUS
    <2>3. Cardinality(DOMAIN buffer' \ unlisted') <= MaxLogDeployments
          BY <2>1, <2>2, BuffersFewer DEF LogInv
    <2> QED BY <1>2, <2>1, <2>3 DEF LogInv, BuffersBounded
  <1> QED BY <1>0, <1>3, <1>4, StreamsKeep DEF LogInv

\* A place of an order lies among the evicted ones or among those that stay.
LEMMA PlaceIn ==
    ASSUME NEW S, NEW q \in Seq(S), NEW n \in 0..Len(q), NEW x \in ToSet(q)
    PROVE  /\ SubSeq(q, n + 1, Len(q)) \in Seq(S)
           /\ x \in ToSet(SubSeq(q, 1, n)) \/ x \in ToSet(SubSeq(q, n + 1, Len(q)))
  <1> PICK m : m = Len(q)
      OBVIOUS
  <1> PICK a : a = SubSeq(q, 1, n)
      OBVIOUS
  <1> PICK b : b = SubSeq(q, n + 1, m)
      OBVIOUS
  <1>1. m \in Nat /\ n \in Nat /\ n <= m /\ 1 \in Int /\ n \in Int /\ n + 1 \in Int /\ m \in Int
        OBVIOUS
  <1>2. (\A j \in 1..n : q[j] \in S) /\ \A j \in (n + 1)..m : q[j] \in S
        BY <1>1
  <1>3. /\ a \in Seq(S) /\ Len(a) = (IF 1 <= n THEN n - 1 + 1 ELSE 0)
        /\ \A j \in 1..(n - 1 + 1) : a[j] = q[1 + j - 1]
        BY <1>1, <1>2, SubSeqProperties
  <1>4. /\ b \in Seq(S) /\ Len(b) = (IF n + 1 <= m THEN m - (n + 1) + 1 ELSE 0)
        /\ \A j \in 1..(m - (n + 1) + 1) : b[j] = q[(n + 1) + j - 1]
        BY <1>1, <1>2, SubSeqProperties
  <1>5. PICK j \in 1..m : q[j] = x
        BY DEF ToSet
  <1>6. DOMAIN a = 1..Len(a) /\ DOMAIN b = 1..Len(b)
        BY <1>3, <1>4
  <1>7. CASE j <= n
    <2>1. j \in 1..(n - 1 + 1) /\ 1 + j - 1 = j /\ 1 <= n
          BY <1>1, <1>7
    <2>2. a[j] = x /\ j \in 1..Len(a)
          BY <1>3, <1>5, <2>1
    <2>3. x \in ToSet(a)
          BY <1>6, <2>2 DEF ToSet
    <2> QED BY <1>4, <2>3
  <1>8. CASE j > n
    <2> PICK k : k = j - n
        OBVIOUS
    <2>1. k \in 1..(m - (n + 1) + 1) /\ (n + 1) + k - 1 = j /\ n + 1 <= m
          BY <1>1, <1>8
    <2>2. b[k] = x /\ k \in 1..Len(b)
          BY <1>4, <1>5, <2>1
    <2>3. x \in ToSet(b)
          BY <1>6, <2>2 DEF ToSet
    <2> QED BY <1>4, <2>3
  <1>9. j <= n \/ j > n
        BY <1>1
  <1> QED BY <1>7, <1>8, <1>9

\* An order keeps its places and gains the last one.
LEMMA AppendPlaces ==
    ASSUME NEW S, NEW q \in Seq(S), NEW d \in S
    PROVE  Append(q, d) \in Seq(S) /\ ToSet(q) \cup {d} \subseteq ToSet(Append(q, d))
  <1> PICK n : n = Len(q)
      OBVIOUS
  <1> PICK r : r = Append(q, d)
      OBVIOUS
  <1>1. n \in Nat /\ DOMAIN q = 1..n
        OBVIOUS
  <1>2. r \in Seq(S) /\ Len(r) = n + 1 /\ r[n + 1] = d /\ \A j \in 1..n : r[j] = q[j]
        BY AppendProperties
  <1>3. DOMAIN r = 1..(n + 1)
        BY <1>2
  <1>4. (1..n) \subseteq (1..(n + 1)) /\ n + 1 \in 1..(n + 1)
        BY <1>1
  <1>5. d \in ToSet(r)
        BY <1>2, <1>3, <1>4 DEF ToSet
  <1>6. ASSUME NEW x \in ToSet(q) PROVE x \in ToSet(r)
    <2>1. PICK j \in 1..n : q[j] = x
          BY <1>1 DEF ToSet
    <2>2. r[j] = x /\ j \in DOMAIN r
          BY <1>2, <1>3, <1>4, <2>1
    <2> QED BY <2>2 DEF ToSet
  <1> QED BY <1>2, <1>5, <1>6

\* The map loses the evicted deployments and gains the new one.
LEMMA InitKeeps ==
    ASSUME LogInv, NEW d \in Deployments, InitLogs(d)
    PROVE  LogInv'
  <1> PICK e \in Seq(Line) : e = <<>>
    <2>1. <<>> \in Seq(Line)
          OBVIOUS
    <2> QED BY <2>1
  <1>0. /\ d \notin born /\ born' = born \cup {d} /\ d \notin DOMAIN buffer /\ d \notin unlisted
        /\ UNCHANGED <<hist, ended, pending, watch, lineCount, lagged>>
        BY DEF InitLogs, LogInv, LogTypes
  <1>01. \A z \in Seq(Deployments) : Append(z, d) \in Seq(Deployments) /\ ToSet(z) \cup {d} \subseteq ToSet(Append(z, d))
        BY AppendPlaces, Zenon
  <1>00. logOrder \in Seq(Deployments) /\ Len(e) = 0
    <2>1. Len(<<>>) = 0
          OBVIOUS
    <2> QED BY <2>1 DEF LogInv, LogTypes
  <1>1. CASE Evictions # {}
    <2>1. Evictions \in SUBSET Nat
          BY <1>00 DEF Evictions
    <2>2. \E n \in Evictions : \A m \in Evictions : n <= m
          BY <1>1, <2>1, Least
    <2> PICK n : n = CHOOSE k \in Evictions : \A m \in Evictions : k <= m
        OBVIOUS
    <2> PICK E : E = ToSet(SubSeq(logOrder, 1, n))
        OBVIOUS
    <2> PICK q : q = SubSeq(logOrder, n + 1, Len(logOrder))
        OBVIOUS
    <2>3. n \in Evictions
          BY <2>2
    <2>4. n \in 0..Len(logOrder) /\ Cardinality(DOMAIN buffer \ E) < MaxLogDeployments
          BY <2>3 DEF Evictions
    <2>5. /\ buffer' = With(Without(buffer, E), d, e) /\ logOrder' = Append(q, d) /\ unlisted' = unlisted \ E
          BY <1>1 DEF InitLogs
    <2>6. q \in Seq(Deployments)
      <3>1. \A j \in (n + 1)..Len(logOrder) : logOrder[j] \in Deployments
            BY <1>00, <2>4
      <3>2. n + 1 \in Int /\ Len(logOrder) \in Int
            BY <1>00, <2>4
      <3> QED BY <3>1, <3>2, SubSeqProperties
    <2>7. logOrder' \in Seq(Deployments) /\ ToSet(q) \cup {d} \subseteq ToSet(logOrder')
      <3> PICK r : r = Append(q, d)
          OBVIOUS
      <3>1. r \in Seq(Deployments) /\ ToSet(q) \cup {d} \subseteq ToSet(r)
            BY <1>01, <2>6, Zenon
      <3>2. logOrder' = r
            BY <2>5
      <3> QED BY <3>1, <3>2
    <2>8. ToSet(q) \cup {d} \subseteq ToSet(logOrder')
          BY <2>7
    <2>9. /\ DOMAIN buffer' = (DOMAIN buffer \ E) \cup {d} /\ buffer'[d] = e
          /\ \A x \in DOMAIN buffer \ E : buffer'[x] = buffer[x]
          BY <1>0, <2>5 DEF With, Without
    <2>10. LogTypes'
      <3>1. \A x \in DOMAIN buffer' : buffer'[x] \in Seq(Line) /\ Len(buffer'[x]) <= MaxLogLines
        <4>1. Len(e) <= MaxLogLines
              BY <1>00, LogNumbers
        <4> QED BY <2>9, <4>1 DEF LogInv, LogTypes
      <3>2. DOMAIN buffer' \subseteq born' /\ unlisted' \subseteq DOMAIN buffer' /\ born' \in SUBSET Deployments
            BY <1>0, <2>5, <2>9 DEF LogInv, LogTypes
      <3> QED BY <1>0, <2>7, <3>1, <3>2 DEF LogInv, LogTypes
    <2>11. DOMAIN buffer' \ unlisted' \subseteq ToSet(logOrder')
      <3>1. ASSUME NEW x \in DOMAIN buffer' \ unlisted' PROVE x \in ToSet(logOrder')
        <4>1. CASE x = d
              BY <2>8, <4>1
        <4>2. CASE x # d
          <5>1. x \in DOMAIN buffer \ unlisted /\ x \notin E
                BY <2>5, <2>9, <4>2
          <5>2. x \in ToSet(logOrder)
                BY <5>1 DEF LogInv, BuffersBounded
          <5>3. x \in ToSet(q)
                BY <1>00, <2>4, <5>1, <5>2, PlaceIn
          <5> QED BY <2>8, <5>3
        <4> QED BY <4>1, <4>2
      <3> QED BY <3>1
    <2>12. Cardinality(DOMAIN buffer' \ unlisted') <= MaxLogDeployments
      <3> DEFINE T == DOMAIN buffer \ E
                 U == DOMAIN buffer' \ unlisted'
      <3>1. T \in SUBSET DOMAIN buffer /\ d \notin T /\ U \in SUBSET (T \cup {d})
            BY <1>0, <2>9
      <3>2. IsFiniteSet(T) /\ Cardinality(T) \in Nat
            BY <3>1, BuffersFinite DEF LogInv
      <3>3. Cardinality(T) < MaxLogDeployments
            BY <2>4
      <3> HIDE DEF T, U
      <3>4. IsFiniteSet(T \cup {d}) /\ Cardinality(T \cup {d}) = Cardinality(T) + 1
            BY <3>1, <3>2, FS_AddElement
      <3>5. IsFiniteSet(U) /\ Cardinality(U) <= Cardinality(T \cup {d})
            BY <3>1, <3>4, FS_Subset
      <3>6. Cardinality(U) \in Nat
            BY <3>5, FS_CardinalityType
      <3>7. Cardinality(U) <= MaxLogDeployments
            BY <3>2, <3>3, <3>4, <3>5, <3>6, LogNumbers
      <3> QED BY <3>7 DEF U
    <2>13. BuffersBounded'
          BY <2>11, <2>12 DEF BuffersBounded
    <2> QED BY <1>0, <2>10, <2>13, StreamsKeep DEF LogInv
  <1>2. CASE Evictions = {}
    <2>1. /\ buffer' = Without(buffer, ToSet(logOrder)) /\ logOrder' = <<>> /\ unlisted' = unlisted \ ToSet(logOrder)
          BY <1>2 DEF InitLogs
    <2>2. /\ DOMAIN buffer' = DOMAIN buffer \ ToSet(logOrder)
          /\ \A x \in DOMAIN buffer \ ToSet(logOrder) : buffer'[x] = buffer[x]
          BY <2>1 DEF Without
    <2>3. <<>> \in Seq(Deployments)
          OBVIOUS
    <2>4. LogTypes'
      <3>1. DOMAIN buffer' \subseteq born' /\ unlisted' \subseteq DOMAIN buffer' /\ born' \in SUBSET Deployments
            BY <1>0, <2>1, <2>2 DEF LogInv, LogTypes
      <3>2. logOrder' \in Seq(Deployments)
            BY <2>1, <2>3
      <3> QED BY <1>0, <2>2, <3>1, <3>2 DEF LogInv, LogTypes
    <2>5. DOMAIN buffer' \ unlisted' = {}
          BY <2>1, <2>2 DEF LogInv, BuffersBounded
    <2>6. Cardinality({}) = 0
          BY FS_EmptySet
    <2>7. BuffersBounded'
      <3>1. 0 <= MaxLogDeployments
            BY LogNumbers
      <3>2. Cardinality(DOMAIN buffer' \ unlisted') <= MaxLogDeployments
            BY <2>5, <2>6, <3>1, Zenon
      <3> QED BY <2>5, <3>2 DEF BuffersBounded
    <2> QED BY <1>0, <2>4, <2>7, StreamsKeep DEF LogInv
  <1> QED BY <1>1, <1>2

\* Every step keeps the invariant.
LEMMA LogInvStep == LogInv /\ [LogNext]_logVars => LogInv'
  <1> SUFFICES ASSUME LogInv, [LogNext]_logVars PROVE LogInv'
      OBVIOUS
  <1>1. CASE UNCHANGED logVars
        BY <1>1, StreamsKeep, BuffersKeep DEF logVars, LogInv, LogTypes
  <1> QED BY <1>1, InitKeeps, CreateHubKeeps, CloseKeeps, RemoveKeeps, AppendKeeps, SubscribeKeeps,
         BroadcastKeeps, WatcherKeeps DEF LogNext

\* A subscriber whose channel never overflowed has been given exactly what the
\* hub has broadcast, in its order, and the buffers that the order lists are no
\* more than MaxLogDeployments, whatever writers, watchers, closings and
\* deletions interleave (components/deploy/log_stream.go: subscribe, broadcast;
\* logs.go: init, append, delete).
THEOREM LogsHold == LogSpec => [](LogTypeOK /\ LogsCorrect)
  <1>1. LogInv /\ [LogNext]_logVars => LogInv'
        BY LogInvStep
  <1> QED BY <1>1, LogInvInit, LogInvCorrect, PTL DEF LogSpec

-----------------------------------------------------------------------------
(* The hub of the realtime connections.                                    *)

\* A request to register is for a new connection, which the hub does not know and
\* has not closed, and there is one per connection.
Queued ==
    \A i \in 1 .. Len(chan["register"]) :
        /\ conn[chan["register"][i]] # "none"
        /\ chan["register"][i] \notin clients \cup shut
        /\ \A j \in 1 .. Len(chan["register"]) :
             chan["register"][i] = chan["register"][j] => i = j

\* The hub knows and closes connections only, and never both.
Known ==
    /\ \A c \in clients \cup shut : conn[c] # "none"
    /\ clients \cap shut = {}

\* client.rooms names every room that has the client.
InStep == \A r \in Rooms : \A c \in rooms[r] : r \in crooms[c]

\* The inductive invariant.
HubInv == HubTypeOK /\ Queued /\ Known /\ InStep /\ OnlyLateSubscribersPanic

\* The channels, within their capacity.
ChanOK == DOMAIN chan = Channels /\ \A k \in Channels : chan[k] \in Seq(Carries(k)) /\ Len(chan[k]) <= ChanCap

\* A send on a channel appends one message.
LEMMA HubSends ==
    ASSUME ChanOK, NEW k \in Channels, HasRoom(k), NEW m \in Carries(k), Send(k, m)
    PROVE  /\ ChanOK'
           /\ \A l \in Channels \ {k} : chan'[l] = chan[l]
           /\ Len(chan'[k]) = Len(chan[k]) + 1
           /\ chan'[k][Len(chan[k]) + 1] = m
           /\ \A i \in 1 .. Len(chan[k]) : chan'[k][i] = chan[k][i]
  <1>1. chan[k] \in Seq(Carries(k)) /\ Len(chan[k]) < ChanCap
        BY DEF ChanOK, HasRoom
  <1>2. /\ Append(chan[k], m) \in Seq(Carries(k))
        /\ Len(Append(chan[k], m)) = Len(chan[k]) + 1
        /\ Append(chan[k], m)[Len(chan[k]) + 1] = m
        /\ \A i \in 1 .. Len(chan[k]) : Append(chan[k], m)[i] = chan[k][i]
        /\ Len(chan[k]) \in Nat
        BY <1>1
  <1>3. chan'[k] = Append(chan[k], m) /\ \A l \in Channels \ {k} : chan'[l] = chan[l]
        BY DEF ChanOK, Send
  <1>4. DOMAIN chan' = Channels
        BY DEF ChanOK, Send
  <1>5. Len(chan'[k]) <= ChanCap
        BY <1>1, <1>2, <1>3, HubBounds
  <1>6. ASSUME NEW l \in Channels PROVE chan'[l] \in Seq(Carries(l)) /\ Len(chan'[l]) <= ChanCap
        BY <1>2, <1>3, <1>5, <1>6 DEF ChanOK
  <1>7. ChanOK'
        BY <1>4, <1>6 DEF ChanOK, Carries
  <1> QED BY <1>2, <1>3, <1>7

\* A receive takes the oldest message.
LEMMA HubReceives ==
    ASSUME ChanOK, NEW k \in Channels, chan[k] # <<>>, Receive(k)
    PROVE  /\ ChanOK'
           /\ \A l \in Channels \ {k} : chan'[l] = chan[l]
           /\ Head(chan[k]) \in Carries(k)
           /\ Head(chan[k]) = chan[k][1]
           /\ Len(chan[k]) \in Nat \ {0}
           /\ Len(chan'[k]) = Len(chan[k]) - 1
           /\ \A i \in 1 .. Len(chan'[k]) : chan'[k][i] = chan[k][i + 1]
  <1>1. chan[k] \in Seq(Carries(k)) /\ Len(chan[k]) <= ChanCap
        BY DEF ChanOK
  <1>2. /\ Tail(chan[k]) \in Seq(Carries(k))
        /\ Len(Tail(chan[k])) = Len(chan[k]) - 1
        /\ Len(chan[k]) \in Nat \ {0}
        /\ Head(chan[k]) \in Carries(k)
        /\ Head(chan[k]) = chan[k][1]
        /\ \A i \in 1 .. Len(Tail(chan[k])) : Tail(chan[k])[i] = chan[k][i + 1]
        BY <1>1
  <1>3. chan'[k] = Tail(chan[k]) /\ \A l \in Channels \ {k} : chan'[l] = chan[l]
        BY DEF ChanOK, Receive
  <1>4. DOMAIN chan' = Channels
        BY DEF ChanOK, Receive
  <1>5. Len(chan'[k]) <= ChanCap
        BY <1>1, <1>2, <1>3, HubBounds
  <1>6. ASSUME NEW l \in Channels PROVE chan'[l] \in Seq(Carries(l)) /\ Len(chan'[l]) <= ChanCap
        BY <1>2, <1>3, <1>5, <1>6 DEF ChanOK
  <1>7. ChanOK'
        BY <1>4, <1>6 DEF ChanOK, Carries
  <1> QED BY <1>2, <1>3, <1>7

\* The invariant holds at the start.
LEMMA HubInvInit == HubInit => HubInv
  <1> SUFFICES ASSUME HubInit PROVE HubInv
      OBVIOUS
  <1>1. \A k \in Channels : chan[k] = << >>
        BY DEF HubInit
  <1>2. HubTypeOK
    <2>1. \A k \in Channels : chan[k] \in Seq(Carries(k)) /\ Len(chan[k]) <= ChanCap
      <3>1. ASSUME NEW S PROVE << >> \in Seq(S) /\ Len(<< >>) = 0
            OBVIOUS
      <3>2. 0 <= ChanCap
            BY HubBounds
      <3> QED BY <1>1, <3>1, <3>2
    <2>2. sendq \in [Clients -> 0 .. SendBuf]
          BY HubBounds DEF HubInit
    <2> QED BY <2>1, <2>2 DEF HubInit, HubTypeOK
  <1>3. Queued
        BY <1>1 DEF Queued, Channels
  <1> QED BY <1>2, <1>3 DEF HubInit, HubInv, Known, InStep, OnlyLateSubscribersPanic

\* What the pumps and the bus leave alone.
HubFrame == UNCHANGED <<hub, hubTables, shut, lateSub>>

\* A step of a pump, of a handler other than serveWS, or of the bus: the tables stay,
\* and no connection becomes new.
LEMMA HubPumps ==
    ASSUME HubInv, HubTypeOK', HubFrame,
           chan'["register"] = chan["register"],
           \A c \in Clients : conn[c] # "none" => conn'[c] # "none"
    PROVE  HubInv'
  <1>0. \A i \in 1 .. Len(chan["register"]) : chan["register"][i] \in Clients
        BY DEF HubInv, HubTypeOK, Carries, Channels
  <1>1. Queued'
        BY <1>0 DEF HubInv, Queued, HubFrame, hubTables
  <1>2. Known' /\ InStep' /\ OnlyLateSubscribersPanic'
        BY DEF HubInv, Known, InStep, OnlyLateSubscribersPanic, HubFrame, hubTables, HubTypeOK
  <1> QED BY <1>1, <1>2 DEF HubInv

\* The invariant types the channels.
LEMMA ChanInv == HubInv => ChanOK
  BY DEF HubInv, HubTypeOK, ChanOK

\* The pumps of a connection keep the invariant.
LEMMA HubPumpSteps ==
    ASSUME HubInv, NEW c \in Clients,
           \/ ReadPumpExit(c) \/ WriteMessage(c) \/ WritePumpExit(c)
           \/ \E action \in {"subscribe", "unsubscribe"}, r \in Rooms : ReadFrame(c, action, r)
    PROVE  HubInv'
  <1>0. ChanOK
        BY ChanInv
  <1>1. CASE ReadPumpExit(c)
    <2>1. ChanOK' /\ chan'["register"] = chan["register"]
      <3>1. CASE HasRoom("unregister")
            BY <1>0, <1>1, <3>1, HubSends DEF ReadPumpExit, Channels, Carries
      <3>2. CASE ~HasRoom("unregister")
            BY <1>0, <1>1, <3>2 DEF ReadPumpExit, ChanOK, Carries
      <3> QED BY <3>1, <3>2
    <2>2. HubTypeOK'
          BY <1>1, <2>1 DEF ReadPumpExit, HubInv, HubTypeOK, ChanOK, hubTables, hubBus
    <2> QED BY <1>1, <2>1, <2>2, HubPumps DEF ReadPumpExit, HubFrame, HubInv, HubTypeOK
  <1>2. CASE WriteMessage(c)
    <2>1. ChanOK' /\ chan' = chan
          BY <1>0, <1>2 DEF WriteMessage, ChanOK, Carries
    <2>2. HubTypeOK'
          BY <1>2, <2>1, HubBounds DEF WriteMessage, HubInv, HubTypeOK, ChanOK, hubTables, hubBus, hubPumps
    <2> QED BY <1>2, <2>1, <2>2, HubPumps DEF WriteMessage, HubFrame, HubInv, HubTypeOK, hubPumps
  <1>3. CASE WritePumpExit(c)
    <2>1. ChanOK' /\ chan' = chan
          BY <1>0, <1>3 DEF WritePumpExit, ChanOK, Carries
    <2>2. HubTypeOK'
          BY <1>3, <2>1 DEF WritePumpExit, HubInv, HubTypeOK, ChanOK, hubTables, hubBus
    <2> QED BY <1>3, <2>1, <2>2, HubPumps DEF WritePumpExit, HubFrame, HubInv, HubTypeOK
  <1>4. ASSUME NEW action \in {"subscribe", "unsubscribe"}, NEW r \in Rooms, ReadFrame(c, action, r)
        PROVE  HubInv'
    <2>0. [client |-> c, room |-> r] \in Carries(action)
          BY DEF Carries
    <2>1. ChanOK' /\ chan'["register"] = chan["register"]
          BY <1>0, <1>4, <2>0, HubSends DEF ReadFrame, Channels
    <2>2. HubTypeOK'
          BY <1>4, <2>1 DEF ReadFrame, HubInv, HubTypeOK, ChanOK, hubTables, hubBus, hubPumps
    <2> QED BY <1>4, <2>1, <2>2, HubPumps DEF ReadFrame, HubFrame, hubPumps
  <1> QED BY <1>1, <1>2, <1>3, <1>4

\* The bus and its subscription keep the invariant.
LEMMA HubBusSteps ==
    ASSUME HubInv,
           \/ \E r \in Rooms : Emit(r)
           \/ \E e \in emitting : Broadcast(e)
           \/ RealtimeStop \/ Unsubscribe
    PROVE  HubInv'
  <1>0. ChanOK
        BY ChanInv
  <1>1. ASSUME NEW r \in Rooms, Emit(r) PROVE HubInv'
    <2>1. ChanOK' /\ chan' = chan
          BY <1>0, <1>1 DEF Emit, ChanOK, Carries
    <2>2. HubTypeOK'
          BY <1>1, <2>1 DEF Emit, HubInv, HubTypeOK, ChanOK, hubTables, hubPumps
    <2> QED BY <1>1, <2>1, <2>2, HubPumps DEF Emit, HubFrame, hubPumps
  <1>2. ASSUME NEW e \in emitting, Broadcast(e) PROVE HubInv'
    <2>0. e.room \in Carries("broadcast") /\ e.room \in Rooms
          BY DEF HubInv, HubTypeOK, Carries
    <2>1. ChanOK' /\ chan'["register"] = chan["register"]
      <3>1. CASE HasRoom("broadcast")
            BY <1>0, <1>2, <2>0, <3>1, HubSends DEF Broadcast, Channels
      <3>2. CASE ~HasRoom("broadcast")
            BY <1>0, <1>2, <3>2 DEF Broadcast, ChanOK, Carries
      <3> QED BY <3>1, <3>2
    <2>2. HubTypeOK'
          BY <1>2, <2>1 DEF Broadcast, HubInv, HubTypeOK, ChanOK, hubTables, hubPumps
    <2> QED BY <1>2, <2>1, <2>2, HubPumps DEF Broadcast, HubFrame, hubPumps
  <1>3. ASSUME RealtimeStop \/ Unsubscribe PROVE HubInv'
    <2>1. ChanOK' /\ chan' = chan
          BY <1>0, <1>3 DEF RealtimeStop, Unsubscribe, ChanOK, Carries
    <2>2. HubTypeOK'
          BY <1>3, <2>1 DEF RealtimeStop, Unsubscribe, HubInv, HubTypeOK, ChanOK, hubTables, hubPumps, hubBus
    <2> QED BY <1>3, <2>1, <2>2, HubPumps DEF RealtimeStop, Unsubscribe, HubFrame, hubPumps
  <1> QED BY <1>1, <1>2, <1>3

\* serveWS asks once for a connection nobody has seen.
LEMMA HubServes ==
    ASSUME HubInv, NEW c \in Clients, ServeWS(c)
    PROVE  HubInv'
  <1>0. ChanOK /\ c \in Carries("register") /\ "register" \in Channels
        BY ChanInv DEF Carries, Channels
  <1> DEFINE q == chan["register"]
             n == Len(chan["register"])
  <1>1. /\ ChanOK' /\ Len(q') = n + 1 /\ q'[n + 1] = c
        /\ \A i \in 1 .. n : q'[i] = q[i]
        BY <1>0, HubSends DEF ServeWS
  <1>2. n \in Nat /\ \A i \in 1 .. n : q[i] \in Clients
        BY <1>0 DEF ChanOK, Carries
  <1>3. HubTypeOK'
        BY <1>1 DEF ServeWS, HubInv, HubTypeOK, ChanOK, hubTables, hubBus
  <1>4. conn[c] = "none" /\ conn'[c] = "open" /\ \A d \in Clients \ {c} : conn'[d] = conn[d]
        BY DEF ServeWS, HubInv, HubTypeOK
  <1>5. c \notin clients \cup shut /\ \A i \in 1 .. n : q[i] # c
        BY <1>4 DEF HubInv, Known, Queued
  <1>6. UNCHANGED <<clients, rooms, crooms, shut, hub, lateSub>>
        BY DEF ServeWS, hubTables
  <1>7. Queued'
    <2> SUFFICES ASSUME NEW i \in 1 .. n + 1
                 PROVE  /\ conn'[q'[i]] # "none"
                        /\ q'[i] \notin clients \cup shut
                        /\ \A j \in 1 .. n + 1 : q'[i] = q'[j] => i = j
        BY <1>1, <1>6 DEF Queued
    <2>1. CASE i = n + 1
          BY <1>1, <1>2, <1>4, <1>5, <2>1
    <2>2. CASE i # n + 1
      <3>1. i \in 1 .. n
            BY <1>2, <2>2
      <3>2. conn'[q'[i]] # "none" /\ q'[i] \notin clients \cup shut
            BY <1>1, <1>2, <1>4, <1>5, <3>1 DEF HubInv, Queued
      <3>3. ASSUME NEW j \in 1 .. n + 1, q'[i] = q'[j] PROVE i = j
        <4>1. CASE j = n + 1
              BY <1>1, <1>5, <3>1, <3>3, <4>1
        <4>2. CASE j # n + 1
              BY <1>1, <1>2, <3>1, <3>3, <4>2 DEF HubInv, Queued
        <4> QED BY <4>1, <4>2
      <3> QED BY <3>2, <3>3
    <2> QED BY <2>1, <2>2
  <1>8. Known' /\ InStep' /\ OnlyLateSubscribersPanic'
        BY <1>4, <1>6 DEF HubInv, Known, InStep, OnlyLateSubscribersPanic, HubTypeOK
  <1> QED BY <1>3, <1>7, <1>8 DEF HubInv

\* A request taken from the channel to register leaves the others queued.
LEMMA QueuedAfter ==
    ASSUME HubInv, HubTypeOK', chan'["register"] = chan["register"], UNCHANGED conn,
           clients' \cup shut' \subseteq clients \cup shut
    PROVE  Queued'
  BY DEF HubInv, Queued

\* The connection that registers is new, so not closed.
LEMMA HubRegisters ==
    ASSUME HubInv, HubRegister
    PROVE  HubInv'
  <1> DEFINE q == chan["register"]
             c == Head(chan["register"])
  <1>0. ChanOK /\ "register" \in Channels
        BY ChanInv DEF Channels
  <1>1. /\ ChanOK' /\ c \in Clients /\ c = q[1] /\ Len(q) \in Nat \ {0}
        /\ Len(q') = Len(q) - 1
        /\ \A i \in 1 .. Len(q') : q'[i] = q[i + 1]
        BY <1>0, HubReceives DEF HubRegister, Ready, Carries
  <1>2. /\ clients' = clients \cup {c}
        /\ UNCHANGED <<rooms, crooms, shut, hub, lateSub, conn, sendq>>
        BY DEF HubRegister, hubPumps
  <1>3. HubTypeOK'
        BY <1>1, <1>2 DEF HubRegister, HubInv, HubTypeOK, ChanOK, hubPumps, hubBus
  <1>4. conn[c] # "none" /\ c \notin clients \cup shut
        BY <1>1 DEF HubInv, Queued
  <1>5. ASSUME NEW i \in 1 .. Len(q')
        PROVE  /\ conn'[q'[i]] # "none"
               /\ q'[i] \notin clients' \cup shut'
               /\ \A j \in 1 .. Len(q') : q'[i] = q'[j] => i = j
    <2>1. i + 1 \in 1 .. Len(q) /\ i + 1 # 1 /\ 1 \in 1 .. Len(q) /\ q'[i] = q[i + 1]
          BY <1>1
    <2>2. q[i + 1] # c
          BY <1>1, <2>1 DEF HubInv, Queued
    <2>3. conn'[q'[i]] # "none" /\ q'[i] \notin clients' \cup shut'
          BY <1>2, <2>1, <2>2 DEF HubInv, Queued
    <2>4. ASSUME NEW j \in 1 .. Len(q'), q'[i] = q'[j] PROVE i = j
      <3>1. j + 1 \in 1 .. Len(q) /\ q'[j] = q[j + 1]
            BY <1>1
      <3>2. i + 1 = j + 1
            BY <2>1, <2>4, <3>1 DEF HubInv, Queued
      <3> QED BY <1>1, <3>2
    <2> QED BY <2>3, <2>4
  <1>6. Queued'
        BY <1>5 DEF Queued
  <1>7. Known' /\ InStep' /\ OnlyLateSubscribersPanic'
        BY <1>2, <1>4 DEF HubInv, Known, InStep, OnlyLateSubscribersPanic
  <1> QED BY <1>3, <1>6, <1>7 DEF HubInv

\* Dropping clients keeps the tables in step, and leaves nobody in a room whose
\* channel it has closed.
LEMMA Unregistering ==
    ASSUME HubInv, NEW cs, cs \subseteq Clients, UnregisterAll(cs), UNCHANGED <<crooms, conn>>
    PROVE  /\ clients' \subseteq Clients /\ shut' \subseteq Clients
           /\ rooms' \in [Rooms -> SUBSET Clients]
           /\ clients' \cup shut' \subseteq clients \cup shut
           /\ Known' /\ InStep'
           /\ \A r \in Rooms : rooms'[r] \cap shut' \subseteq lateSub
  <1> DEFINE known == cs \cap clients
  <1>1. /\ clients' = clients \ known /\ shut' = shut \cup known
        /\ rooms' = [r \in Rooms |-> rooms[r] \ {c \in known : r \in crooms[c]}]
        BY DEF UnregisterAll
  <1>2. \A r \in Rooms : rooms'[r] = rooms[r] \ {c \in known : r \in crooms[c]}
        BY <1>1
  <1>3. rooms' \in [Rooms -> SUBSET Clients]
        BY <1>1 DEF HubInv, HubTypeOK
  <1>4. Known'
        BY <1>1 DEF HubInv, Known
  <1>5. InStep'
        BY <1>2 DEF HubInv, InStep
  <1>6. ASSUME NEW r \in Rooms PROVE rooms'[r] \cap shut' \subseteq lateSub
        BY <1>1, <1>2 DEF HubInv, InStep, OnlyLateSubscribersPanic
  <1> QED BY <1>1, <1>3, <1>4, <1>5, <1>6 DEF HubInv, HubTypeOK

\* A client that unregisters leaves every room it is in.
LEMMA HubUnregisters ==
    ASSUME HubInv, HubUnregister
    PROVE  HubInv'
  <1> DEFINE c == Head(chan["unregister"])
  <1>0. ChanOK /\ "unregister" \in Channels /\ "register" \in Channels
        BY ChanInv DEF Channels
  <1>1. ChanOK' /\ c \in Clients /\ chan'["register"] = chan["register"]
        BY <1>0, HubReceives DEF HubUnregister, Ready, Carries
  <1>2. UnregisterAll({c}) /\ UNCHANGED <<crooms, conn, hub, lateSub, sendq>>
        BY DEF HubUnregister, hubPumps
  <1>3. /\ clients' \subseteq Clients /\ shut' \subseteq Clients
        /\ rooms' \in [Rooms -> SUBSET Clients]
        /\ clients' \cup shut' \subseteq clients \cup shut
        /\ Known' /\ InStep'
        /\ \A r \in Rooms : rooms'[r] \cap shut' \subseteq lateSub
    <2>1. {c} \subseteq Clients
          BY <1>1
    <2> HIDE DEF c
    <2> QED BY <1>2, <2>1, Unregistering
  <1>4. HubTypeOK'
        BY <1>1, <1>2, <1>3 DEF HubUnregister, HubInv, HubTypeOK, ChanOK, hubPumps, hubBus
  <1>5. Queued'
        BY <1>1, <1>2, <1>3, <1>4, QueuedAfter
  <1>6. OnlyLateSubscribersPanic'
        BY <1>2, <1>3 DEF OnlyLateSubscribersPanic, Known, HubInv
  <1> QED BY <1>3, <1>4, <1>5, <1>6 DEF HubInv

\* A subscription of a client the hub no longer knows is the late one that the
\* property excuses.
LEMMA HubSubscribes ==
    ASSUME HubInv, HubSubscribe
    PROVE  HubInv'
  <1> DEFINE q == Head(chan["subscribe"])
  <1>0. ChanOK /\ "subscribe" \in Channels /\ "register" \in Channels
        BY ChanInv DEF Channels
  <1>1. ChanOK' /\ q \in Carries("subscribe") /\ chan'["register"] = chan["register"]
        BY <1>0, HubReceives DEF HubSubscribe, Ready
  <1>2. q.client \in Clients /\ q.room \in Rooms
        BY <1>1 DEF Carries
  <1>3. /\ rooms' = [rooms EXCEPT ![q.room] = @ \cup {q.client}]
        /\ crooms' = [crooms EXCEPT ![q.client] = @ \cup {q.room}]
        /\ lateSub' = lateSub \cup ({q.client} \cap shut)
        /\ UNCHANGED <<hub, clients, sendq, shut, conn>>
        BY DEF HubSubscribe, hubPumps
  <1> HIDE DEF q
  <1>4. /\ rooms' \in [Rooms -> SUBSET Clients] /\ crooms' \in [Clients -> SUBSET Rooms]
        /\ lateSub' \subseteq Clients
        BY <1>2, <1>3 DEF HubInv, HubTypeOK
  <1>5. HubTypeOK'
        BY <1>1, <1>3, <1>4 DEF HubSubscribe, HubInv, HubTypeOK, ChanOK, hubPumps, hubBus
  <1>6. Queued'
        BY <1>1, <1>3, <1>5, QueuedAfter
  <1>7. /\ rooms'[q.room] = rooms[q.room] \cup {q.client}
        /\ \A r \in Rooms \ {q.room} : rooms'[r] = rooms[r]
        /\ crooms'[q.client] = crooms[q.client] \cup {q.room}
        /\ \A c \in Clients \ {q.client} : crooms'[c] = crooms[c]
        BY <1>2, <1>3 DEF HubInv, HubTypeOK
  <1>8. InStep'
        BY <1>2, <1>4, <1>7 DEF HubInv, InStep, HubTypeOK
  <1>9. Known' /\ OnlyLateSubscribersPanic'
        BY <1>2, <1>3, <1>7 DEF HubInv, Known, OnlyLateSubscribersPanic
  <1> QED BY <1>5, <1>6, <1>8, <1>9 DEF HubInv

\* A client that leaves a room leaves it on both sides.
LEMMA HubUnsubscribes ==
    ASSUME HubInv, HubUnsubscribe
    PROVE  HubInv'
  <1> DEFINE q == Head(chan["unsubscribe"])
  <1>0. ChanOK /\ "unsubscribe" \in Channels /\ "register" \in Channels
        BY ChanInv DEF Channels
  <1>1. ChanOK' /\ q \in Carries("unsubscribe") /\ chan'["register"] = chan["register"]
        BY <1>0, HubReceives DEF HubUnsubscribe, Ready
  <1>2. q.client \in Clients /\ q.room \in Rooms
        BY <1>1 DEF Carries
  <1>3. /\ rooms' = [rooms EXCEPT ![q.room] = @ \ {q.client}]
        /\ crooms' = [crooms EXCEPT ![q.client] = @ \ {q.room}]
        /\ UNCHANGED <<hub, clients, sendq, shut, conn, lateSub>>
        BY DEF HubUnsubscribe, hubPumps
  <1> HIDE DEF q
  <1>4. rooms' \in [Rooms -> SUBSET Clients] /\ crooms' \in [Clients -> SUBSET Rooms]
        BY <1>2, <1>3 DEF HubInv, HubTypeOK
  <1>5. HubTypeOK'
        BY <1>1, <1>3, <1>4 DEF HubUnsubscribe, HubInv, HubTypeOK, ChanOK, hubPumps, hubBus
  <1>6. Queued'
        BY <1>1, <1>3, <1>5, QueuedAfter
  <1>7. /\ rooms'[q.room] = rooms[q.room] \ {q.client}
        /\ \A r \in Rooms \ {q.room} : rooms'[r] = rooms[r]
        /\ crooms'[q.client] = crooms[q.client] \ {q.room}
        /\ \A c \in Clients \ {q.client} : crooms'[c] = crooms[c]
        BY <1>2, <1>3 DEF HubInv, HubTypeOK
  <1>8. InStep'
        BY <1>2, <1>4, <1>7 DEF HubInv, InStep, HubTypeOK
  <1>9. Known' /\ OnlyLateSubscribersPanic'
        BY <1>2, <1>3, <1>7 DEF HubInv, Known, OnlyLateSubscribersPanic
  <1> QED BY <1>5, <1>6, <1>8, <1>9 DEF HubInv

\* Clients whose queue is full are dropped like those that unregister.
LEMMA HubBroadcasts ==
    ASSUME HubInv, HubBroadcast
    PROVE  HubInv'
  <1> DEFINE r == Head(chan["broadcast"])
             members == rooms[r]
             slow == {c \in members : sendq[c] = SendBuf}
  <1>0. ChanOK /\ "broadcast" \in Channels /\ "register" \in Channels
        BY ChanInv DEF Channels
  <1>1. ChanOK' /\ r \in Rooms /\ chan'["register"] = chan["register"]
        BY <1>0, HubReceives DEF HubBroadcast, Ready, Carries
  <1>2. UNCHANGED <<crooms, conn, lateSub>>
        BY DEF HubBroadcast, hubPumps
  <1>3. members \subseteq Clients
        BY <1>1 DEF HubInv, HubTypeOK
  <1>4. CASE members \cap shut # {}
    <2>1. hub' = "panicked" /\ UNCHANGED <<clients, rooms, shut, sendq>>
          BY <1>4 DEF HubBroadcast
    <2>2. HubTypeOK'
          BY <1>1, <1>2, <2>1 DEF HubBroadcast, HubInv, HubTypeOK, ChanOK, hubPumps, hubBus
    <2>3. Queued'
          BY <1>1, <1>2, <2>1, <2>2, QueuedAfter
    <2>4. lateSub # {}
          BY <1>1, <1>4 DEF HubInv, OnlyLateSubscribersPanic
    <2>5. Known' /\ InStep' /\ OnlyLateSubscribersPanic'
          BY <1>2, <2>1, <2>4 DEF HubInv, Known, InStep, OnlyLateSubscribersPanic
    <2> QED BY <2>2, <2>3, <2>5 DEF HubInv
  <1>5. CASE members \cap shut = {}
    <2>1. /\ UnregisterAll(slow)
          /\ sendq' = [c \in Clients |-> IF c \in members \ slow THEN sendq[c] + 1 ELSE sendq[c]]
          /\ UNCHANGED hub
          BY <1>5 DEF HubBroadcast
    <2>2. sendq' \in [Clients -> 0 .. SendBuf]
      <3>1. ASSUME NEW c \in Clients
            PROVE  (IF c \in members \ slow THEN sendq[c] + 1 ELSE sendq[c]) \in 0 .. SendBuf
            BY HubBounds DEF HubInv, HubTypeOK
      <3> QED BY <2>1, <3>1
    <2>3. slow \subseteq Clients
          BY <1>3
    <2> HIDE DEF slow
    <2>4. /\ clients' \subseteq Clients /\ shut' \subseteq Clients
          /\ rooms' \in [Rooms -> SUBSET Clients]
          /\ clients' \cup shut' \subseteq clients \cup shut
          /\ Known' /\ InStep'
          /\ \A x \in Rooms : rooms'[x] \cap shut' \subseteq lateSub
          BY <1>2, <2>1, <2>3, Unregistering
    <2>5. HubTypeOK'
          BY <1>1, <1>2, <2>1, <2>2, <2>4 DEF HubBroadcast, HubInv, HubTypeOK, ChanOK, hubPumps, hubBus
    <2>6. Queued'
          BY <1>1, <1>2, <2>4, <2>5, QueuedAfter
    <2>7. OnlyLateSubscribersPanic'
          BY <1>2, <2>1, <2>4 DEF OnlyLateSubscribersPanic, Known, HubInv
    <2> QED BY <2>4, <2>5, <2>6, <2>7 DEF HubInv
  <1> QED BY <1>4, <1>5

\* Stop closes every client and empties the rooms.
LEMMA HubStops ==
    ASSUME HubInv, HubStop
    PROVE  HubInv'
  <1>0. ChanOK'
        BY ChanInv DEF ChanOK, HubStop, Carries
  <1>1. /\ hub' = "stopped" /\ shut' = shut \cup clients /\ clients' = {}
        /\ rooms' = [r \in Rooms |-> {}]
        /\ UNCHANGED <<crooms, conn, chan, lateSub>>
        BY DEF HubStop, hubPumps
  <1>2. HubTypeOK'
        BY <1>0, <1>1 DEF HubStop, HubInv, HubTypeOK, ChanOK, hubPumps, hubBus
  <1>3. Queued'
        BY <1>1, <1>2, QueuedAfter
  <1>4. Known' /\ InStep' /\ OnlyLateSubscribersPanic'
        BY <1>1 DEF HubInv, Known, InStep, OnlyLateSubscribersPanic
  <1> QED BY <1>2, <1>3, <1>4 DEF HubInv

\* Every step keeps the invariant.
LEMMA HubInvStep == HubInv /\ [HubNext]_hubVars => HubInv'
  <1> SUFFICES ASSUME HubInv, [HubNext]_hubVars PROVE HubInv'
      OBVIOUS
  <1>1. CASE UNCHANGED hubVars
    <2>1. HubTypeOK'
          BY <1>1 DEF hubVars, hubTables, hubPumps, hubBus, HubInv, HubTypeOK, Carries
    <2> QED BY <1>1, <2>1, HubPumps DEF hubVars, hubTables, hubPumps, hubBus, HubFrame
  <1>2. ASSUME NEW c \in Clients, ServeWS(c) PROVE HubInv'
        BY <1>2, HubServes
  <1>3. ASSUME NEW c \in Clients,
               \/ ReadPumpExit(c) \/ WriteMessage(c) \/ WritePumpExit(c)
               \/ \E action \in {"subscribe", "unsubscribe"}, r \in Rooms : ReadFrame(c, action, r)
        PROVE  HubInv'
        BY <1>3, HubPumpSteps
  <1>4. ASSUME \/ \E r \in Rooms : Emit(r)
               \/ \E e \in emitting : Broadcast(e)
               \/ RealtimeStop \/ Unsubscribe
        PROVE  HubInv'
        BY <1>4, HubBusSteps
  <1>5. ASSUME HubRegister \/ HubUnregister \/ HubSubscribe \/ HubUnsubscribe \/ HubBroadcast \/ HubStop
        PROVE  HubInv'
        BY <1>5, HubRegisters, HubUnregisters, HubSubscribes, HubUnsubscribes, HubBroadcasts, HubStops
  <1> QED BY <1>1, <1>2, <1>3, <1>4, <1>5 DEF HubNext

\* The hub closes a channel once, and sends on a closed one, which panics, only
\* for a client whose subscribe request it served after it had dropped the
\* client: no other interleaving of pumps, broadcasts, slow clients and Stop
\* leads there (components/realtime/hub.go: Run, unregisterClient).
THEOREM HubPanics == HubSpec => [](HubTypeOK /\ OnlyLateSubscribersPanic)
  <1>1. HubInv => HubTypeOK /\ OnlyLateSubscribersPanic
        BY DEF HubInv
  <1> QED BY <1>1, HubInvInit, HubInvStep, PTL DEF HubSpec

-----------------------------------------------------------------------------
(* Migrations of the schema, and dumps.                                    *)

\* A command of the migration CLI and where it is.
CliRecord == [at : {"idle", "up", "record", "down", "unrecord", "dump1", "dump2", "restoring"},
              known : SUBSET Versions, version : Nat]
\* A dump: the server's two tables and the versions, as it read them.
DumpRecord == [state : {"none", "part", "whole"}, first : Nat, second : Nat, recorded : SUBSET Versions,
               tables : SUBSET Versions, adrift : SUBSET Versions]

\* The types, with the numbers that TLC bounds.
UpkeepWellTyped ==
    /\ schema \in [Versions -> {"no", "part", "yes"}]
    /\ recorded \subseteq Versions /\ adrift \subseteq Versions
    /\ pair \in [first : Nat, second : Nat]
    /\ dump \in DumpRecord /\ cli \in CliRecord
    /\ rowWrites \in Nat

(* The version under way: what its statement has done to the schema.       *)
CliOK ==
    /\ cli.at \in {"record", "down", "unrecord"} => cli.version \in Versions
    /\ cli.at = "record" => schema[cli.version] = "yes"
    /\ cli.at = "unrecord" => schema[cli.version] = "no"

(* A dump's tables and its schema_migrations are those of one moment: no other command runs. *)
DumpOK ==
    /\ cli.at = "dump1" => dump.state = "part" /\ dump.adrift = adrift /\ \A v \in Versions : v \in dump.tables <=> schema[v] = "yes"
    /\ cli.at = "dump2" \/ dump.state = "whole" =>
           \A v \in Versions : v \in dump.adrift \/ (v \in dump.tables <=> v \in dump.recorded)

\* A version is applied exactly when it is recorded, unless it was left adrift
\* or is under way.
Agrees(v) == \/ v \in adrift
             \/ (schema[v] = "yes" <=> v \in recorded)
             \/ (cli.at \in {"record", "unrecord"} /\ v = cli.version)

\* The inductive invariant.
UpkeepInv ==
    /\ UpkeepWellTyped /\ CliOK /\ DumpOK
    /\ \A v \in Versions : Agrees(v)
    /\ pair.first # pair.second => torn

\* The invariant holds at the start.
LEMMA UpkeepInvInit == UpkeepInit => UpkeepInv
<1> SUFFICES ASSUME UpkeepInit PROVE UpkeepInv
  OBVIOUS
<1>1. NoDump \in DumpRecord /\ NoCli \in CliRecord
  BY DEF NoDump, NoCli, DumpRecord, CliRecord
<1>2. UpkeepWellTyped
  BY <1>1 DEF UpkeepInit, UpkeepWellTyped
<1>3. cli.at = "idle" /\ dump.state = "none" /\ pair.first = pair.second
  BY DEF UpkeepInit, NoDump, NoCli
<1> QED
  BY <1>2, <1>3 DEF UpkeepInit, UpkeepInv, CliOK, DumpOK, Agrees

(* The least of the pending versions, and the latest recorded one, exist.   *)
LEMMA MinPending == ASSUME UpkeepWellTyped, Pending # {} PROVE Min(Pending) \in Versions /\ Min(Pending) \in Nat
<1>1. Pending \in SUBSET Nat /\ Pending \subseteq Versions
  BY UpkeepBounds DEF Pending
<1> QED
  BY <1>1, MinIn

\* The latest recorded version is one of the finitely many.
LEMMA MaxRecorded == ASSUME UpkeepWellTyped, recorded # {} PROVE Max(recorded) \in Versions /\ Max(recorded) \in Nat
<1>1. recorded \in SUBSET Nat /\ recorded \in SUBSET Versions
  BY UpkeepBounds DEF UpkeepWellTyped
<1>2. IsFiniteSet(recorded)
  BY <1>1, UpkeepBounds, FS_Subset
<1> QED
  BY <1>1, <1>2, MaxIn

(* A step on one version that goes on with it or leaves it adrift.         *)
LEMMA VersionStep ==
    ASSUME UpkeepInv, NEW v \in Versions,
           schema' \in [Versions -> {"no", "part", "yes"}], recorded' \subseteq Versions,
           \A u \in Versions : u # v => schema'[u] = schema[u] /\ (u \in recorded' <=> u \in recorded),
           adrift' \in {adrift, adrift \cup {v}}, cli' \in CliRecord,
           cli'.at \in {"idle", "up", "record", "unrecord"}, cli.at \in {"up", "record", "down", "unrecord"},
           cli.at \in {"record", "unrecord"} => cli.version = v,
           cli'.at \in {"record", "unrecord"} => cli'.version = v,
           CliOK', Agrees(v)', UNCHANGED <<pair, dump, rowWrites, torn>>
    PROVE  UpkeepInv'
<1>1. UpkeepWellTyped'
  BY DEF UpkeepInv, UpkeepWellTyped
<1>2. DumpOK'
  BY DEF UpkeepInv, DumpOK
<1>3. ASSUME NEW u \in Versions PROVE Agrees(u)'
  <2>1. CASE u = v
    BY <2>1
  <2>2. CASE u # v
    BY <2>2 DEF UpkeepInv, Agrees
  <2> QED
    BY <2>1, <2>2
<1> QED
  BY <1>1, <1>2, <1>3 DEF UpkeepInv

(* A step that leaves the schema and its record alone.                     *)
LEMMA CommandStep ==
    ASSUME UpkeepInv, UpkeepWellTyped', CliOK', DumpOK', UNCHANGED <<schema, recorded>>, adrift \subseteq adrift',
           cli.at \in {"record", "unrecord"} =>
               cli.version \in adrift' \/ (cli'.at \in {"record", "unrecord"} /\ cli'.version = cli.version),
           pair'.first # pair'.second => torn'
    PROVE  UpkeepInv'
<1>1. ASSUME NEW v \in Versions PROVE Agrees(v)'
  BY DEF UpkeepInv, Agrees
<1> QED
  BY <1>1 DEF UpkeepInv

\* Every step keeps the invariant.
LEMMA UpkeepInvStep == UpkeepInv /\ [UpkeepNext]_upkeepVars => UpkeepInv'
<1> SUFFICES ASSUME UpkeepInv, [UpkeepNext]_upkeepVars PROVE UpkeepInv'
  OBVIOUS
<1> USE DEF BeginCommand, EndCommand, database
<1>0. /\ UpkeepWellTyped /\ CliOK /\ DumpOK /\ cli \in CliRecord /\ dump \in DumpRecord
      /\ NoCli \in CliRecord /\ NoCli.at = "idle" /\ NoDump \in DumpRecord
      /\ schema \in [Versions -> {"no", "part", "yes"}] /\ recorded \subseteq Versions /\ adrift \subseteq Versions
      /\ pair \in [first : Nat, second : Nat] /\ rowWrites \in Nat /\ (pair.first # pair.second => torn)
  BY DEF UpkeepInv, UpkeepWellTyped, NoCli, CliRecord, NoDump, DumpRecord
<1>1. ASSUME ServerWrites PROVE UpkeepInv'
  <2>1. UpkeepWellTyped' /\ pair'.first = pair'.second
    BY <1>0, <1>1 DEF ServerWrites, UpkeepWellTyped
  <2>2. CliOK' /\ DumpOK'
    BY <1>0, <1>1 DEF ServerWrites, CliOK, DumpOK
  <2> QED
    BY <1>1, <2>1, <2>2, CommandStep DEF ServerWrites
<1>2. ASSUME NEW c \in CliRecord, cli' = c, cli.at = "idle", c.at \in {"up", "down", "restoring"},
             c.at = "down" => c.version \in Versions,
             UNCHANGED <<schema, recorded, pair, dump, rowWrites, adrift, torn>>
      PROVE  UpkeepInv'
  <2>1. UpkeepWellTyped'
    BY <1>0, <1>2 DEF UpkeepWellTyped
  <2>2. CliOK' /\ DumpOK'
    BY <1>0, <1>2 DEF CliOK, DumpOK
  <2> QED
    BY <1>0, <1>2, <2>1, <2>2, CommandStep
<1>3. ASSUME cli' = NoCli, adrift' \subseteq Versions, adrift \subseteq adrift',
             cli.at \in {"record", "unrecord"} => cli.version \in adrift',
             UNCHANGED <<schema, recorded, pair, dump, rowWrites, torn>>
      PROVE  UpkeepInv'
  <2>1. UpkeepWellTyped'
    BY <1>0, <1>3 DEF UpkeepWellTyped
  <2>2. CliOK' /\ DumpOK'
    BY <1>0, <1>3 DEF CliOK, DumpOK
  <2> QED
    BY <1>0, <1>3, <2>1, <2>2, CommandStep
<1>4. ASSUME MigrateUp PROVE UpkeepInv'
  <2> DEFINE c == [at |-> "up", known |-> recorded, version |-> 0]
  <2>1. c \in CliRecord
    BY <1>0 DEF CliRecord
  <2> QED
    BY <1>2, <1>4, <2>1 DEF MigrateUp
<1>5. ASSUME MigrateDown PROVE UpkeepInv'
  <2> DEFINE c == [at |-> "down", known |-> {}, version |-> Max(recorded)]
  <2>1. Max(recorded) \in Versions /\ Max(recorded) \in Nat
    BY <1>0, <1>5, MaxRecorded DEF MigrateDown
  <2>2. c \in CliRecord
    BY <2>1 DEF CliRecord
  <2> QED
    BY <1>2, <1>5, <2>1, <2>2 DEF MigrateDown
<1>6. ASSUME RunRestore PROVE UpkeepInv'
  <2> DEFINE c == [NoCli EXCEPT !.at = "restoring"]
  <2>1. c \in CliRecord /\ c.at = "restoring"
    BY <1>0 DEF CliRecord
  <2>2. cli' = c /\ cli.at = "idle" /\ UNCHANGED <<schema, recorded, pair, dump, rowWrites, adrift, torn>>
    BY <1>6 DEF RunRestore
  <2> HIDE DEF c
  <2> QED
    BY <1>2, <2>1, <2>2
<1>7. ASSUME UpEnds PROVE UpkeepInv'
  BY <1>0, <1>3, <1>7 DEF UpEnds
<1>8. ASSUME KillCommand PROVE UpkeepInv'
  <2>1. adrift' \subseteq Versions /\ adrift \subseteq adrift' /\ (cli.at \in {"record", "unrecord"} => cli.version \in adrift')
    BY <1>0, <1>8 DEF KillCommand, CliOK
  <2> QED
    BY <1>3, <1>8, <2>1 DEF KillCommand
<1>9. ASSUME ApplyNext PROVE UpkeepInv'
  <2>1. PICK v \in Versions : v = Min(Pending) /\ v \in Nat
    BY <1>0, <1>9, MinPending DEF ApplyNext
  <2>2. UNCHANGED <<recorded, pair, dump, rowWrites, torn>> /\ cli.at = "up"
    BY <1>9 DEF ApplyNext
  <2>3. CASE /\ schema' = [schema EXCEPT ![v] = "yes"]
             /\ cli' = [cli EXCEPT !.at = "record", !.version = v] /\ UNCHANGED adrift
    <3>1. /\ schema' \in [Versions -> {"no", "part", "yes"}] /\ schema'[v] = "yes"
          /\ \A u \in Versions : u # v => schema'[u] = schema[u]
      BY <1>0, <2>3
    <3>2. cli' \in CliRecord /\ cli'.at = "record" /\ cli'.version = v
      BY <1>0, <2>1, <2>3 DEF CliRecord
    <3>3. CliOK' /\ Agrees(v)'
      BY <3>1, <3>2 DEF CliOK, Agrees
    <3> QED
      BY <1>0, <2>2, <2>3, <3>1, <3>2, <3>3, VersionStep
  <2>4. CASE /\ schema' = [schema EXCEPT ![v] = IF @ = "no" THEN "part" ELSE @]
             /\ adrift' = adrift \cup {v} /\ cli' = NoCli
    <3>1. /\ schema' \in [Versions -> {"no", "part", "yes"}]
          /\ \A u \in Versions : u # v => schema'[u] = schema[u]
      BY <1>0, <2>4
    <3>2. CliOK' /\ Agrees(v)'
      BY <1>0, <2>4 DEF CliOK, Agrees
    <3> QED
      BY <1>0, <2>2, <2>4, <3>1, <3>2, VersionStep
  <2> QED
    BY <1>9, <2>1, <2>3, <2>4 DEF ApplyNext
<1>10. ASSUME RecordVersion PROVE UpkeepInv'
  <2>1. PICK v \in Versions : v = cli.version /\ schema[v] = "yes"
    BY <1>0, <1>10 DEF RecordVersion, CliOK
  <2>2. UNCHANGED <<schema, pair, dump, rowWrites, torn>> /\ cli.at = "record"
    BY <1>10 DEF RecordVersion
  <2>3. CASE recorded' = recorded \cup {v} /\ cli' = [cli EXCEPT !.at = "up"] /\ UNCHANGED adrift
    <3>1. cli' \in CliRecord /\ cli'.at = "up"
      BY <1>0, <2>3 DEF CliRecord
    <3>2. CliOK' /\ Agrees(v)'
      BY <2>1, <2>2, <2>3, <3>1 DEF CliOK, Agrees
    <3> QED
      BY <1>0, <2>1, <2>2, <2>3, <3>1, <3>2, VersionStep
  <2>4. CASE adrift' = adrift \cup {v} /\ cli' = NoCli /\ UNCHANGED recorded
    BY <1>0, <1>3, <2>1, <2>2, <2>4
  <2> QED
    BY <1>10, <2>1, <2>3, <2>4 DEF RecordVersion
<1>11. ASSUME Revert PROVE UpkeepInv'
  <2>1. PICK v \in Versions : v = cli.version
    BY <1>0, <1>11 DEF Revert, CliOK
  <2>2. UNCHANGED <<recorded, pair, dump, rowWrites, torn>> /\ cli.at = "down"
    BY <1>11 DEF Revert
  <2>3. CASE schema' = [schema EXCEPT ![v] = "no"] /\ cli' = [cli EXCEPT !.at = "unrecord"] /\ UNCHANGED adrift
    <3>1. /\ schema' \in [Versions -> {"no", "part", "yes"}] /\ schema'[v] = "no"
          /\ \A u \in Versions : u # v => schema'[u] = schema[u]
      BY <1>0, <2>3
    <3>2. cli' \in CliRecord /\ cli'.at = "unrecord" /\ cli'.version = v
      BY <1>0, <2>1, <2>3 DEF CliRecord
    <3>3. CliOK' /\ Agrees(v)'
      BY <3>1, <3>2 DEF CliOK, Agrees
    <3> QED
      BY <1>0, <2>2, <2>3, <3>1, <3>2, <3>3, VersionStep
  <2>4. CASE /\ schema' = [schema EXCEPT ![v] = IF @ = "yes" THEN "part" ELSE @]
             /\ adrift' = adrift \cup {v} /\ cli' = NoCli
    <3>1. /\ schema' \in [Versions -> {"no", "part", "yes"}]
          /\ \A u \in Versions : u # v => schema'[u] = schema[u]
      BY <1>0, <2>4
    <3>2. CliOK' /\ Agrees(v)'
      BY <1>0, <2>4 DEF CliOK, Agrees
    <3> QED
      BY <1>0, <2>2, <2>4, <3>1, <3>2, VersionStep
  <2> QED
    BY <1>11, <2>1, <2>3, <2>4 DEF Revert
<1>12. ASSUME Unrecord PROVE UpkeepInv'
  <2>1. PICK v \in Versions : v = cli.version /\ schema[v] = "no"
    BY <1>0, <1>12 DEF Unrecord, CliOK
  <2>2. UNCHANGED <<schema, pair, dump, rowWrites, torn>> /\ cli.at = "unrecord" /\ cli' = NoCli
    BY <1>12 DEF Unrecord
  <2>3. CASE recorded' = recorded \ {v} /\ UNCHANGED adrift
    <3>1. CliOK' /\ Agrees(v)'
      BY <1>0, <2>1, <2>2, <2>3 DEF CliOK, Agrees
    <3> QED
      BY <1>0, <2>1, <2>2, <2>3, <3>1, VersionStep
  <2>4. CASE adrift' = adrift \cup {v} /\ UNCHANGED recorded
    BY <1>0, <1>3, <2>1, <2>2, <2>4
  <2> QED
    BY <1>12, <2>1, <2>3, <2>4 DEF Unrecord
<1>13. ASSUME RunBackup PROVE UpkeepInv'
  <2> DEFINE c == [NoCli EXCEPT !.at = "dump1"]
             d == [NoDump EXCEPT !.state = "part", !.adrift = adrift, !.tables = {v \in Versions : schema[v] = "yes"}]
  <2>1. c \in CliRecord /\ c.at = "dump1"
    BY <1>0 DEF CliRecord
  <2>2. d \in DumpRecord /\ d.state = "part" /\ d.adrift = adrift /\ d.tables = {v \in Versions : schema[v] = "yes"}
    BY <1>0 DEF DumpRecord
  <2>3. cli' = c /\ dump' = d /\ cli.at = "idle" /\ UNCHANGED <<schema, recorded, pair, rowWrites, adrift, torn>>
    BY <1>13 DEF RunBackup
  <2> HIDE DEF c, d
  <2>4. UpkeepWellTyped' /\ CliOK' /\ DumpOK'
    BY <1>0, <2>1, <2>2, <2>3 DEF UpkeepWellTyped, CliOK, DumpOK
  <2> QED
    BY <1>0, <2>3, <2>4, CommandStep
<1>14. ASSUME DumpTable PROVE UpkeepInv'
  <2>1. UNCHANGED <<schema, recorded, pair, rowWrites, adrift, torn>>
    BY <1>14 DEF DumpTable
  <2>2. CASE /\ cli.at = "dump1" /\ dump' = [dump EXCEPT !.first = pair.first, !.recorded = recorded]
             /\ cli' = [cli EXCEPT !.at = "dump2"]
    <3>1. cli' \in CliRecord /\ cli'.at = "dump2"
      BY <1>0, <2>2 DEF CliRecord
    <3>2. /\ dump' \in DumpRecord /\ dump'.recorded = recorded /\ dump'.tables = dump.tables
          /\ dump'.adrift = dump.adrift
      BY <1>0, <2>2 DEF DumpRecord
    <3>3. \A v \in Versions : v \in adrift \/ (schema[v] = "yes" <=> v \in recorded)
      BY <2>2 DEF UpkeepInv, Agrees
    <3>4. UpkeepWellTyped' /\ CliOK' /\ DumpOK'
      BY <1>0, <2>1, <2>2, <3>1, <3>2, <3>3 DEF UpkeepWellTyped, CliOK, DumpOK
    <3> QED
      BY <1>0, <2>1, <2>2, <3>4, CommandStep
  <2>3. CASE cli.at = "dump2" /\ dump' = [dump EXCEPT !.second = pair.second, !.state = "whole"] /\ cli' = NoCli
    <3>1. /\ dump' \in DumpRecord /\ dump'.recorded = dump.recorded /\ dump'.tables = dump.tables
          /\ dump'.adrift = dump.adrift
      BY <1>0, <2>3 DEF DumpRecord
    <3>2. UpkeepWellTyped' /\ CliOK' /\ DumpOK'
      BY <1>0, <2>1, <2>3, <3>1 DEF UpkeepWellTyped, CliOK, DumpOK
    <3> QED
      BY <1>0, <2>1, <2>3, <3>2, CommandStep
  <2> QED
    BY <1>14, <2>2, <2>3 DEF DumpTable
<1>15. ASSUME RestoreDump PROVE UpkeepInv'
  <2>1. cli' = NoCli /\ cli.at = "restoring" /\ UNCHANGED <<dump, rowWrites>>
    BY <1>15 DEF RestoreDump
  <2>2. CASE UNCHANGED <<schema, recorded, pair, adrift, torn>>
    BY <1>0, <1>3, <2>1, <2>2
  <2>3. CASE /\ dump.state = "whole"
             /\ pair' = [first |-> dump.first, second |-> dump.second]
             /\ recorded' = dump.recorded
             /\ schema' = [v \in Versions |-> IF v \in dump.tables THEN "yes" ELSE schema[v]]
             /\ adrift' = dump.adrift \cup {v \in Versions \ dump.tables : schema[v] # "no"}
             /\ torn' = (dump.first # dump.second)
    <3>1. UpkeepWellTyped'
      BY <1>0, <2>1, <2>3 DEF UpkeepWellTyped, DumpRecord
    <3>2. CliOK' /\ DumpOK'
      BY <1>0, <2>1, <2>3 DEF CliOK, DumpOK
    <3>3. ASSUME NEW v \in Versions PROVE Agrees(v)'
      <4>1. v \in dump.adrift \/ (v \in dump.tables <=> v \in dump.recorded)
        BY <1>0, <2>3 DEF DumpOK
      <4> QED
        BY <2>3, <4>1 DEF Agrees
    <3>4. pair'.first # pair'.second => torn'
      BY <2>3
    <3> QED
      BY <3>1, <3>2, <3>3, <3>4 DEF UpkeepInv
  <2> QED
    BY <1>15, <2>2, <2>3 DEF RestoreDump
<1>16. ASSUME UNCHANGED upkeepVars PROVE UpkeepInv'
  BY <1>16 DEF upkeepVars, UpkeepInv, UpkeepWellTyped, CliOK, DumpOK, Agrees
<1> QED
  BY <1>1, <1>4, <1>5, <1>6, <1>7, <1>8, <1>9, <1>10, <1>11, <1>12, <1>13, <1>14, <1>15, <1>16 DEF UpkeepNext

\* schema_migrations and the schema agree on every version that no failed or
\* killed command and no restore has left adrift, and the server's two tables
\* agree unless a dump torn by the server's writes was restored
\* (components/backup/migrate.go: Up, Down; backup.go: Dump, Restore).
THEOREM UpkeepIsSound == UpkeepSpec => [](UpkeepTypeOK /\ UpkeepSound)
<1>1. UpkeepInv => UpkeepTypeOK
  BY DEF UpkeepInv, UpkeepWellTyped, UpkeepTypeOK, DumpRecord, CliRecord
<1>2. UpkeepInv => UpkeepSound
  BY DEF UpkeepInv, Agrees, UpkeepSound
<1> QED
  BY <1>1, <1>2, UpkeepInvInit, UpkeepInvStep, PTL DEF UpkeepSpec

-----------------------------------------------------------------------------
(* The build cache.                                                        *)

CacheEntries == [Keys -> [size : Nat, created : Nat]]
\* The bytes of some entries; SizeOf counts them.
Bytes(m, ks) == UNION {{k} \X (1..m[k].size) : k \in ks}

LEMMA UpTo == ASSUME NEW n \in Nat PROVE IsFiniteSet(1..n) /\ Cardinality(1..n) = n
  BY FS_Interval

LEMMA OneAlone == ASSUME NEW x PROVE IsFiniteSet({x}) /\ Cardinality({x}) = 1
  BY FS_Singleton, Zenon

LEMMA BytesFinite ==
    ASSUME NEW m \in CacheEntries, NEW ks \in SUBSET Keys
    PROVE  IsFiniteSet(Bytes(m, ks)) /\ Cardinality(Bytes(m, ks)) \in Nat
<1> DEFINE of == [k \in ks |-> {k} \X (1..m[k].size)]
           T == {{k} \X (1..m[k].size) : k \in ks}
<1>1. IsFiniteSet(ks)
  BY CacheFinite, FS_Subset
<1>2. of \in Surjection(ks, T)
  BY DEF Surjection
<1>3. IsFiniteSet(T)
  BY <1>1, <1>2, FS_Surjection
<1>4. ASSUME NEW t \in T PROVE IsFiniteSet(t)
  <2>1. PICK k \in ks : t = {k} \X (1..m[k].size)
    OBVIOUS
  <2>2. m[k].size \in Nat
    BY DEF CacheEntries
  <2>3. IsFiniteSet(1..m[k].size) /\ IsFiniteSet({k})
    BY <2>2, UpTo, OneAlone
  <2> QED
    BY <2>1, <2>3, FS_Product
<1>5. IsFiniteSet(UNION T)
  BY <1>3, <1>4, FS_UNION
<1> QED
  BY <1>5, FS_CardinalityType DEF Bytes

\* The size of the entries is the sum of their sizes: nothing for none, ...
LEMMA NoSize == SizeOf({}) = 0
<1>1. UNION {{k} \X (1..meta[k].size) : k \in {}} = {}
  OBVIOUS
<1> QED
  BY <1>1, FS_EmptySet DEF SizeOf

\* ... and one entry more adds its own.
LEMMA SizeAdds ==
    ASSUME meta \in CacheEntries, NEW ks \in SUBSET Keys, NEW k \in Keys \ ks
    PROVE  SizeOf(ks \cup {k}) = SizeOf(ks) + meta[k].size
<1> DEFINE own == {k} \X (1..meta[k].size)
           n == meta[k].size
<1>1. n \in Nat
  BY DEF CacheEntries
<1>2. Bytes(meta, ks \cup {k}) = Bytes(meta, ks) \cup own
  BY DEF Bytes
<1>3. Bytes(meta, ks) \cap own = {}
  BY DEF Bytes
<1>4. IsFiniteSet({k}) /\ Cardinality({k}) = 1 /\ IsFiniteSet(1..n) /\ Cardinality(1..n) = n
  BY <1>1, UpTo, OneAlone
<1>5. IsFiniteSet(own) /\ Cardinality(own) = n
  <2>1. IsFiniteSet(own) /\ Cardinality(own) = Cardinality({k}) * Cardinality(1..n)
    BY <1>4, FS_Product
  <2> QED
    BY <1>1, <1>4, <2>1
<1>6. IsFiniteSet(Bytes(meta, ks)) /\ Cardinality(Bytes(meta, ks)) \in Nat
  BY BytesFinite
<1> HIDE DEF own, n
<1>7. Cardinality(Bytes(meta, ks) \cup own) =
        Cardinality(Bytes(meta, ks)) + Cardinality(own) - Cardinality(Bytes(meta, ks) \cap own)
  BY <1>5, <1>6, FS_Union
<1>8. Cardinality(Bytes(meta, ks) \cup own) = Cardinality(Bytes(meta, ks)) + n
  <2>1. Cardinality(Bytes(meta, ks) \cap own) = 0
    BY <1>3, FS_EmptySet, Zenon
  <2> QED
    BY <1>1, <1>5, <1>6, <1>7, <2>1
<1> QED
  BY <1>2, <1>8 DEF SizeOf, Bytes, n

\* Fewer entries of the same sizes are no larger.
LEMMA BytesFewer ==
    ASSUME NEW m \in CacheEntries, NEW n \in CacheEntries, NEW js \in SUBSET Keys, NEW ks \in SUBSET js,
           \A k \in ks : n[k].size = m[k].size
    PROVE  Cardinality(Bytes(n, ks)) <= Cardinality(Bytes(m, js))
<1>1. Bytes(n, ks) \subseteq Bytes(m, js)
  <2> SUFFICES ASSUME NEW b \in Bytes(n, ks) PROVE b \in Bytes(m, js)
    OBVIOUS
  <2>1. PICK k \in ks : b \in {k} \X (1..n[k].size)
    BY DEF Bytes
  <2>2. k \in js /\ b \in {k} \X (1..m[k].size)
    BY <2>1
  <2> QED
    BY <2>2 DEF Bytes
<1>2. IsFiniteSet(Bytes(m, js))
  BY BytesFinite
<1> QED
  BY <1>1, <1>2, FS_Subset

LEMMA ListedFinite == IsFiniteSet(Listed) /\ Cardinality(Listed) \in Nat /\ Listed \subseteq Keys
<1>1. Listed \subseteq Keys
  BY DEF Listed
<1> QED
  BY <1>1, CacheFinite, FS_Subset, FS_CardinalityType

\* Evict has enough entries to remove: all of them would do.
LEMMA EvictsEnough ==
    ASSUME CacheTypeOK
    PROVE  SizeOf(Listed \ EvictedFirst(EvictCount)) <= maxBytes
<1> DEFINE Fits(n) == SizeOf(Listed \ EvictedFirst(n)) <= maxBytes
           S == {n \in 0..Cardinality(Listed) : Fits(n)}
           c == Cardinality(Listed)
<1>1. c \in Nat /\ IsFiniteSet(Listed)
  BY ListedFinite
<1>2. ASSUME NEW k \in Listed
      PROVE  Cardinality({j \in Listed : meta[j].created < meta[k].created}) < c
  <2> DEFINE older == {j \in Listed : meta[j].created < meta[k].created}
  <2>1. meta[k].created \in Nat
    BY ListedFinite DEF CacheTypeOK
  <2>2. older \subseteq Listed /\ k \notin older
    BY <2>1
  <2>3. IsFiniteSet(older) /\ Cardinality(older) <= c /\ (c = Cardinality(older) => Listed = older)
    BY <1>1, <2>2, FS_Subset
  <2>4. Cardinality(older) \in Nat
    BY <2>3, FS_CardinalityType
  <2> HIDE DEF older, c
  <2>5. Cardinality(older) < c
    BY <1>1, <2>2, <2>3, <2>4
  <2> QED
    BY <2>5 DEF older
<1>3. Listed \ EvictedFirst(c) = {}
  BY <1>2 DEF EvictedFirst
<1>4. Fits(c)
  <2>1. SizeOf(Listed \ EvictedFirst(c)) = 0
    BY <1>3, NoSize, Zenon
  <2> QED
    BY <2>1 DEF CacheTypeOK
<1>5. c \in S
  BY <1>1, <1>4
<1>6. PICK n \in S : \A m \in S : n <= m
  <2>1. S \in SUBSET Nat
    OBVIOUS
  <2> HIDE DEF S
  <2> QED
    BY <1>5, <2>1, Least
<1>7. n \in 0..c /\ Fits(n)
  OBVIOUS
<1>8. ASSUME NEW m \in 0..(n - 1) PROVE SizeOf(Listed \ EvictedFirst(m)) > maxBytes
  <2>1. m \in 0..c /\ m < n
    BY <1>1, <1>7
  <2>2. m \notin S
    BY <1>6, <1>7, <2>1, <1>1
  <2>3. ~Fits(m)
    BY <2>1, <2>2
  <2>4. Listed \ EvictedFirst(m) \in SUBSET Keys /\ meta \in CacheEntries
    BY ListedFinite DEF CacheTypeOK, CacheEntries
  <2>5. SizeOf(Listed \ EvictedFirst(m)) \in Nat /\ maxBytes \in Nat
    BY <2>4, BytesFinite DEF SizeOf, Bytes, CacheTypeOK
  <2> QED
    BY <2>3, <2>5
<1>9. \E e \in 0..Cardinality(Listed) :
         /\ SizeOf(Listed \ EvictedFirst(e)) <= maxBytes
         /\ \A m \in 0..(e - 1) : SizeOf(Listed \ EvictedFirst(m)) > maxBytes
  <2> HIDE DEF S
  <2> QED
    BY <1>7, <1>8
<1> QED
  BY <1>9 DEF EvictCount

\* Removing entries leaves the others, with their sizes.
LEMMA Removes ==
    ASSUME CacheTypeOK, NEW ks \in SUBSET Listed, NEW stuck, RemoveEntries(ks, stuck)
    PROVE  /\ archive' \in [Keys -> Nat] /\ whole' \subseteq Keys /\ meta' \in CacheEntries
           /\ Listed' = Listed \ ks
           /\ \A k \in Listed' : meta'[k].size = meta[k].size
<1>1. /\ archive' \in [Keys -> Nat] /\ whole' \subseteq Keys
  BY DEF RemoveEntries, CacheTypeOK
<1>2. /\ meta' = [k \in Keys |-> IF k \in ks THEN NoMeta ELSE meta[k]]
      /\ meta \in CacheEntries /\ NoMeta \in [size : Nat, created : Nat] /\ NoMeta.size = 0
  BY DEF RemoveEntries, CacheTypeOK, CacheEntries, NoMeta
<1>3. meta' \in CacheEntries
  BY <1>2 DEF CacheEntries
<1>4. \A k \in Keys : meta'[k] = IF k \in ks THEN NoMeta ELSE meta[k]
  BY <1>2
<1>5. Listed' = Listed \ ks
  BY <1>2, <1>4 DEF Listed
<1>6. \A k \in Listed' : meta'[k].size = meta[k].size
  BY <1>4, <1>5 DEF Listed
<1> QED
  BY <1>1, <1>3, <1>5, <1>6

\* What is left after some removals is no larger than what was left out of them.
LEMMA LessListed ==
    ASSUME CacheTypeOK, NEW ks \in SUBSET Listed, NEW stuck, RemoveEntries(ks, stuck)
    PROVE  /\ SizeOf(Listed)' <= SizeOf(Listed \ ks) /\ SizeOf(Listed)' <= SizeOf(Listed)
           /\ SizeOf(Listed)' \in Nat /\ SizeOf(Listed) \in Nat /\ SizeOf(Listed \ ks) \in Nat
<1>1. meta' \in CacheEntries /\ Listed' = Listed \ ks /\ \A k \in Listed' : meta'[k].size = meta[k].size
  BY Removes
<1>2. meta \in CacheEntries /\ Listed \in SUBSET Keys /\ Listed \ ks \in SUBSET Keys
      /\ Listed' \in SUBSET (Listed \ ks) /\ Listed' \in SUBSET Listed /\ Listed' \in SUBSET Keys
  BY <1>1, ListedFinite DEF CacheTypeOK, CacheEntries
<1>3. Cardinality(Bytes(meta', Listed')) <= Cardinality(Bytes(meta, Listed \ ks))
  BY <1>1, <1>2, BytesFewer
<1>4. Cardinality(Bytes(meta', Listed')) <= Cardinality(Bytes(meta, Listed))
  BY <1>1, <1>2, BytesFewer
<1>5. /\ Cardinality(Bytes(meta', Listed')) \in Nat /\ Cardinality(Bytes(meta, Listed)) \in Nat
      /\ Cardinality(Bytes(meta, Listed \ ks)) \in Nat
  BY <1>1, <1>2, BytesFinite
<1> QED
  BY <1>3, <1>4, <1>5 DEF SizeOf, Bytes

\* What is removed in turn is some of the entries, and stops at the first that resists.
LEMMA InTurn ==
    ASSUME NEW ks \in SUBSET Listed, RemoveInTurn(ks)
    PROVE  \E js \in SUBSET Listed : \E stuck : RemoveEntries(js, stuck)
<1>1. CASE RemoveEntries(ks, {})
  BY <1>1
<1>2. CASE RemovalFails(ks)
  <2>1. PICK k \in ks : RemoveEntries({j \in ks : meta[j].created <= meta[k].created}, {k})
    BY <1>2 DEF RemovalFails
  <2>2. {j \in ks : meta[j].created <= meta[k].created} \in SUBSET Listed
    OBVIOUS
  <2> QED
    BY <2>1, <2>2
<1> QED
  BY <1>1, <1>2 DEF RemoveInTurn

LEMMA SizeNumber == ASSUME CacheTypeOK PROVE SizeOf(Listed) \in Nat
<1>1. meta \in CacheEntries /\ Listed \in SUBSET Keys
  BY ListedFinite DEF CacheTypeOK, CacheEntries
<1> QED
  BY <1>1, BytesFinite DEF SizeOf, Bytes

\* An operator removes entries and touches nothing else.
LEMMA OnlyRemoved ==
    ASSUME CacheTypeOK, CacheBounded, NEW ks \in SUBSET Listed, NEW stuck, RemoveEntries(ks, stuck),
           UNCHANGED <<maxBytes, limitRow, build, want, admin, saves, slack>>
    PROVE  CacheTypeOK' /\ CacheBounded'
<1>1. CacheTypeOK'
  BY Removes DEF CacheTypeOK, CacheEntries
<1>2. SizeOf(Listed)' <= SizeOf(Listed) /\ SizeOf(Listed)' \in Nat /\ SizeOf(Listed) \in Nat /\ slack \in Nat
  BY LessListed DEF CacheTypeOK
<1>3. CacheBounded'
  <2> SUFFICES ASSUME \A b \in Builds : build'[b] # "evict" PROVE SizeOf(Listed)' <= slack'
    BY DEF CacheBounded
  <2>1. SizeOf(Listed) <= slack
    BY DEF CacheBounded
  <2> QED
    BY <1>2, <2>1
<1> QED
  BY <1>1, <1>3

LEMMA LargerOfTwo ==
    ASSUME NEW a \in Nat, NEW b \in Nat
    PROVE  Max({a, b}) \in Nat /\ Max({a, b}) >= a /\ Max({a, b}) >= b
<1>1. \E x \in {a, b} : \A y \in {a, b} : x >= y
  OBVIOUS
<1> QED
  BY <1>1 DEF Max

LEMMA LargestOfThree ==
    ASSUME NEW a \in Nat, NEW b \in Nat, NEW c \in Nat
    PROVE  Max({a, b, c}) \in Nat /\ Max({a, b, c}) >= a /\ Max({a, b, c}) >= b /\ Max({a, b, c}) >= c
<1>1. \E x \in {a, b, c} : \A y \in {a, b, c} : x >= y
  OBVIOUS
<1> QED
  BY <1>1 DEF Max

LEMMA SaveStep ==
    ASSUME CacheTypeOK, CacheBounded, NEW b \in Builds, Save(b)
    PROVE  CacheTypeOK' /\ CacheBounded'
<1>1. PICK n \in Sizes :
        \/ /\ archive' = [archive EXCEPT ![want[b]] = n]
           /\ whole' = whole \cup {want[b]}
           /\ \/ /\ meta' = [meta EXCEPT ![want[b]] = [size |-> n, created |-> saves + 1]]
                 /\ build' = [build EXCEPT ![b] = "evict"]
              \/ /\ build' = [build EXCEPT ![b] = "done"]
                 /\ UNCHANGED meta
        \/ /\ archive' = [archive EXCEPT ![want[b]] = 0]
           /\ whole' = whole \ {want[b]}
           /\ build' = [build EXCEPT ![b] = "done"]
           /\ UNCHANGED meta
  BY DEF Save
<1>2. n \in Nat /\ want[b] \in Keys /\ saves + 1 \in Nat
  BY CacheNumbers DEF CacheTypeOK
<1>3. build[b] = "install" /\ saves' = saves + 1 /\ UNCHANGED <<maxBytes, limitRow, want, admin, slack>>
  BY DEF Save
<1>4. CacheTypeOK'
  <2>1. archive' \in [Keys -> Nat] /\ whole' \subseteq Keys
    BY <1>1, <1>2 DEF CacheTypeOK
  <2>2. build' \in [Builds -> {"idle", "install", "evict", "done"}]
    BY <1>1 DEF CacheTypeOK
  <2>3. meta' \in [Keys -> [size : Nat, created : Nat]]
    BY <1>1, <1>2 DEF CacheTypeOK
  <2> QED
    BY <1>2, <1>3, <2>1, <2>2, <2>3 DEF CacheTypeOK
<1>5. CacheBounded'
  <2> SUFFICES ASSUME \A a \in Builds : build'[a] # "evict" PROVE SizeOf(Listed)' <= slack'
    BY DEF CacheBounded
  <2>1. UNCHANGED meta /\ build' = [build EXCEPT ![b] = "done"]
    BY <1>1 DEF CacheTypeOK
  <2>2. SizeOf(Listed)' = SizeOf(Listed)
    BY <2>1 DEF SizeOf, Listed
  <2>3. \A a \in Builds : build[a] # "evict"
    BY <1>3, <2>1 DEF CacheTypeOK
  <2> QED
    BY <1>3, <2>2, <2>3 DEF CacheBounded
<1> QED
  BY <1>4, <1>5

LEMMA EvictStep ==
    ASSUME CacheTypeOK, NEW b \in Builds, Evict(b)
    PROVE  CacheTypeOK' /\ CacheBounded'
<1> DEFINE ks == EvictedFirst(EvictCount)
<1>1. ks \in SUBSET Listed
  BY DEF EvictedFirst
<1>2. /\ build' \in [Builds -> {"idle", "install", "evict", "done"}]
      /\ UNCHANGED <<maxBytes, limitRow, want, admin, saves>>
  BY DEF Evict, CacheTypeOK
<1>3. CASE RemoveEntries(ks, {}) /\ slack' = maxBytes
  <2>1. CacheTypeOK'
    BY <1>1, <1>2, <1>3, Removes DEF CacheTypeOK, CacheEntries
  <2>2. /\ SizeOf(Listed)' <= SizeOf(Listed \ ks) /\ SizeOf(Listed)' \in Nat /\ SizeOf(Listed \ ks) \in Nat
    BY <1>1, <1>3, LessListed
  <2>3. SizeOf(Listed \ ks) <= maxBytes /\ maxBytes \in Nat
    BY EvictsEnough DEF CacheTypeOK
  <2>4. SizeOf(Listed)' <= slack'
    BY <1>3, <2>2, <2>3
  <2> QED
    BY <2>1, <2>4 DEF CacheBounded
<1>4. CASE RemovalFails(ks) /\ slack' = SizeOf(Listed)
  <2>1. PICK js \in SUBSET Listed : \E stuck : RemoveEntries(js, stuck)
    BY <1>1, <1>4, InTurn DEF RemoveInTurn
  <2>2. PICK stuck : RemoveEntries(js, stuck)
    BY <2>1
  <2>3. SizeOf(Listed)' <= SizeOf(Listed) /\ SizeOf(Listed) \in Nat
    BY <2>2, LessListed
  <2>4. CacheTypeOK'
    BY <1>2, <1>4, <2>2, <2>3, Removes DEF CacheTypeOK, CacheEntries
  <2> QED
    BY <1>4, <2>3, <2>4 DEF CacheBounded
<1> QED
  BY <1>3, <1>4 DEF Evict

LEMMA CacheRestartStep ==
    ASSUME CacheTypeOK, Restart
    PROVE  CacheTypeOK' /\ CacheBounded'
<1>1. /\ meta' = meta /\ build' = [b \in Builds |-> "idle"] /\ admin' = [a \in Admins |-> 0]
      /\ maxBytes' = (IF limitRow # 0 THEN limitRow ELSE DefaultLimit)
      /\ slack' = Max({slack, maxBytes', SizeOf(Listed)})
      /\ UNCHANGED <<limitRow, want>>
  BY DEF Restart, cacheFiles
<1>2. maxBytes' \in Nat \ {0}
  BY <1>1, CacheNumbers DEF CacheTypeOK
<1>3. slack' \in Nat /\ slack' >= SizeOf(Listed)
  BY <1>1, <1>2, SizeNumber, LargestOfThree DEF CacheTypeOK
<1>4. archive' \in [Keys -> Nat] /\ whole' \subseteq Keys /\ saves' \in Nat
  <2>1. CASE UNCHANGED <<cacheFiles, saves>>
    BY <2>1 DEF cacheFiles, CacheTypeOK
  <2>2. CASE \E b \in Builds : \E n \in Sizes :
                 /\ saves' = saves + 1
                 /\ archive' = [archive EXCEPT ![want[b]] = n]
                 /\ whole' = whole \ {want[b]} \/ whole' = whole \cup {want[b]}
    <3>1. PICK b \in Builds, n \in Sizes :
                 /\ saves' = saves + 1
                 /\ archive' = [archive EXCEPT ![want[b]] = n]
                 /\ whole' = whole \ {want[b]} \/ whole' = whole \cup {want[b]}
      BY <2>2
    <3>2. n \in Nat /\ want[b] \in Keys
      BY CacheNumbers DEF CacheTypeOK
    <3> QED
      BY <3>1, <3>2 DEF CacheTypeOK
  <2> QED
    BY <2>1, <2>2 DEF Restart
<1>5. CacheTypeOK'
  BY <1>1, <1>2, <1>3, <1>4 DEF CacheTypeOK
<1>6. SizeOf(Listed)' = SizeOf(Listed)
  BY <1>1 DEF SizeOf, Listed
<1> QED
  BY <1>1, <1>3, <1>5, <1>6, SizeNumber DEF CacheBounded

\* The limit and the builds change, the entries do not.
LEMMA CacheOtherSteps ==
    ASSUME CacheTypeOK, CacheBounded,
           \/ \E b \in Builds : Restore(b)
           \/ \E a \in Admins : SetMaxBytes(a) \/ \E n \in Limits : PersistLimit(a, n)
           \/ UNCHANGED cacheVars
    PROVE  CacheTypeOK' /\ CacheBounded'
<1>1. meta' = meta /\ archive' = archive /\ whole' = whole
  BY DEF Restore, SetMaxBytes, PersistLimit, cacheVars, cacheFiles
<1>2. SizeOf(Listed)' = SizeOf(Listed) /\ SizeOf(Listed) \in Nat
  BY <1>1, SizeNumber DEF SizeOf, Listed
<1>3. ASSUME NEW b \in Builds, Restore(b) PROVE CacheTypeOK' /\ CacheBounded'
  <2>1. /\ \/ build' = [build EXCEPT ![b] = "done"]
           \/ build' = [build EXCEPT ![b] = "install"]
        /\ build[b] = "idle"
        /\ UNCHANGED <<maxBytes, limitRow, want, admin, saves, slack>>
    BY <1>3 DEF Restore
  <2>2. CacheTypeOK'
    BY <1>1, <2>1 DEF CacheTypeOK
  <2>3. (\A a \in Builds : build'[a] # "evict") => \A a \in Builds : build[a] # "evict"
    BY <2>1 DEF CacheTypeOK
  <2> QED
    BY <1>2, <2>1, <2>2, <2>3 DEF CacheBounded
<1>4. ASSUME NEW a \in Admins, SetMaxBytes(a) PROVE CacheTypeOK' /\ CacheBounded'
  <2>1. /\ admin[a] \in Nat \ {0} /\ maxBytes' = admin[a] /\ slack' = Max({slack, admin[a]})
        /\ admin' = [admin EXCEPT ![a] = 0] /\ UNCHANGED <<limitRow, build, want, saves>>
    BY <1>4 DEF SetMaxBytes, CacheTypeOK
  <2>2. slack' \in Nat /\ slack' >= slack /\ slack \in Nat
    BY <2>1, LargerOfTwo DEF CacheTypeOK
  <2>3. CacheTypeOK'
    BY <1>1, <2>1, <2>2 DEF CacheTypeOK
  <2> QED
    BY <1>2, <2>1, <2>2, <2>3 DEF CacheBounded
<1>5. ASSUME NEW a \in Admins, NEW n \in Limits, PersistLimit(a, n) PROVE CacheTypeOK' /\ CacheBounded'
  <2>1. n \in Nat
    BY CacheNumbers
  <2>2. CacheTypeOK' /\ UNCHANGED <<build, slack>>
    BY <1>1, <1>5, <2>1 DEF PersistLimit, CacheTypeOK
  <2> QED
    BY <1>2, <2>2 DEF CacheBounded
<1>6. CASE UNCHANGED cacheVars
  <2>1. CacheTypeOK' /\ UNCHANGED <<build, slack>>
    BY <1>6 DEF cacheVars, cacheFiles, CacheTypeOK
  <2> QED
    BY <1>2, <2>1 DEF CacheBounded
<1> QED
  BY <1>3, <1>4, <1>5, <1>6

LEMMA CacheStep ==
    ASSUME CacheTypeOK, CacheBounded, [CacheNext]_cacheVars
    PROVE  CacheTypeOK' /\ CacheBounded'
<1>1. CASE Clear
  <2>1. PICK stuck : RemoveEntries(Listed, stuck)
    BY <1>1 DEF Clear
  <2> QED
    BY <1>1, <2>1, OnlyRemoved DEF Clear
<1>2. ASSUME NEW ks \in SUBSET Listed, RemoveInTurn(ks),
             UNCHANGED <<maxBytes, limitRow, build, want, admin, saves, slack>>
      PROVE  CacheTypeOK' /\ CacheBounded'
  <2>1. PICK js \in SUBSET Listed : \E stuck : RemoveEntries(js, stuck)
    BY <1>2, InTurn
  <2> QED
    BY <1>2, <2>1, OnlyRemoved
<1>3. ASSUME NEW k \in Keys, PurgeSite(SiteOf[k]) PROVE CacheTypeOK' /\ CacheBounded'
  <2>1. {j \in Listed : SiteOf[j] = SiteOf[k]} \in SUBSET Listed
    OBVIOUS
  <2> QED
    BY <1>2, <1>3, <2>1 DEF PurgeSite
<1>4. ASSUME NEW cutoff, Prune(cutoff) PROVE CacheTypeOK' /\ CacheBounded'
  <2>1. {j \in Listed : meta[j].created < cutoff} \in SUBSET Listed
    OBVIOUS
  <2> QED
    BY <1>2, <1>4, <2>1 DEF Prune
<1> QED
  BY <1>1, <1>3, <1>4, SaveStep, EvictStep, CacheRestartStep, CacheOtherSteps DEF CacheNext

\* However builds save at the same time, operators clear, prune, purge and change the limit,
\* removals fail and the process dies: once every save has been followed by its eviction, the
\* entries fit the largest limit since the last one that succeeded (Cache.Save, Cache.Evict,
\* handleCacheConfig, loadCacheConfig).
THEOREM CacheFits == CacheSpec => [](CacheTypeOK /\ CacheBounded)
<1>1. CacheInit => CacheTypeOK /\ CacheBounded
  <2> SUFFICES ASSUME CacheInit PROVE CacheTypeOK /\ CacheBounded
    OBVIOUS
  <2>1. CacheTypeOK
    BY CacheNumbers DEF CacheInit, CacheTypeOK, NoMeta
  <2>2. Listed = {}
    BY DEF CacheInit, Listed, NoMeta
  <2>3. SizeOf(Listed) = 0
    BY <2>2, NoSize, Zenon
  <2> QED
    BY <2>1, <2>3 DEF CacheBounded, CacheTypeOK
<1>2. (CacheTypeOK /\ CacheBounded) /\ [CacheNext]_cacheVars => (CacheTypeOK /\ CacheBounded)'
  BY CacheStep
<1> QED
  BY <1>1, <1>2, PTL DEF CacheSpec

-----------------------------------------------------------------------------
(* What serves a checkout.                                                 *)

\* The types, with the manifest in force, which is none unless the checkout's is valid.
PlanTypes ==
    /\ PlanTypeOK
    /\ startManifest \in {NoManifest, checkout.manifest}
    /\ ~Valid(checkout.manifest) => startManifest = NoManifest

\* What is said of the end of a pipeline and of what is up.
PlanRuns ==
    /\ stage # "down" => why = ""
    /\ stage = "up" => \/ \E d \in index : live = Static(d)
                       \/ \E dir, cmd : live = <<"process", dir, cmd>>
    /\ stage = "up" => first # Nothing
    /\ replays > 0 => first # Nothing
    /\ first # Nothing => /\ stage \in {"up", "start", "down"}
                          /\ replays = 0 => stage = "up" /\ live = first

\* On the way to its first app, a deployment is of the type in its column, but for a static
\* site that is built as a Node app; and a Node app that is started has no page to serve.
PlanBuilds ==
    replays = 0 =>
        /\ stage \in {"plan", "tools", "install", "build", "promote", "start"} => serveDir = <<checkout.root, ".">>
        /\ stage = "plan" => stored = appType
        /\ stage \in {"tools", "install", "build", "promote", "start"} =>
              stored = appType \/ stored = "static"
        /\ stage = "static" => serveDir[1] = checkout.root
        /\ stage = "start" /\ startManifest = NoManifest /\ appType = "node" =>
              FindStaticServeDirAfterNodeBuild(checkout.root, hint) = Nothing

\* What a deployment without a manifest served first, as the column and the directories tell it.
PlanFirst ==
    first # Nothing /\ ~Valid(checkout.manifest) =>
        \/ \E d \in index : first = Static(d) /\ d[1] = checkout.root
        \/ stored = "static" /\ first[1] = "process"
        \/ /\ \E cmd \in StartCommands(checkout.root, stored, NoManifest) :
                 first = <<"process", <<checkout.root, ".">>, cmd>>
           /\ stored = "node" => FindStaticServeDirAfterNodeBuild(checkout.root, "") = Nothing

\* A deployment that can be recovered is on its way back to what it served first.
PlanReplays ==
    replays > 0 /\ Recoverable =>
        /\ why # "static_output_missing"
        /\ stage = "up" => live = first
        /\ stage = "start" => /\ first[1] = "process" /\ appType = stored
                              /\ serveDir = <<"top", ".">> /\ startManifest = NoManifest

PlanInv == PlanTypes /\ PlanRuns /\ PlanBuilds /\ PlanFirst /\ PlanReplays

LEMMA CheckoutTyped ==
    ASSUME PlanTypeOK
    PROVE  /\ checkout.root \in Bases /\ checkout.index \subseteq Places
           /\ checkout.manifest.output \in Rels \cup {""} /\ checkout.pm \in PackageManagers \cup {""}
           /\ checkout.pages \in Rels \cup {""} /\ checkout.scripts \subseteq {"web", "cli"}
  BY CheckoutsType DEF PlanTypeOK

\* The package manager is one of the four.
LEMMA PmIsOne == ASSUME PlanTypeOK, NEW base PROVE DetectNodePackageManager(base) \in PackageManagers
<1> DEFINE locked == {i \in DOMAIN PmOrder : PmOrder[i] \in checkout.locks}
<1>1. DOMAIN PmOrder = 1..4 /\ \A i \in 1..4 : PmOrder[i] \in PackageManagers
  BY DEF PmOrder, PackageManagers
<1>2. ASSUME locked # {} PROVE PmOrder[CHOOSE i \in locked : \A j \in locked : i <= j] \in PackageManagers
  <2>1. locked \in SUBSET Nat /\ locked \subseteq 1..4
    BY <1>1
  <2> HIDE DEF locked
  <2>2. \E i \in locked : \A j \in locked : i <= j
    BY <1>2, <2>1, Least
  <2>3. (CHOOSE i \in locked : \A j \in locked : i <= j) \in locked
    BY <2>2
  <2> QED
    BY <1>1, <2>1, <2>3
<1>3. "npm" \in PackageManagers
  BY DEF PackageManagers
<1> QED
  BY <1>2, <1>3, CheckoutTyped DEF DetectNodePackageManager

\* Every manifest that `bigbase init' writes is one the deployment accepts.
LEMMA InitIsValid == ASSUME PlanTypeOK PROVE InitAccepted
<1>1. DetectNodePackageManager(checkout.root) # ""
  BY PmIsOne DEF PackageManagers
<1> QED
  BY <1>1 DEF InitAccepted, InitManifest, Valid, ValidFrameworks, AppTypes, NoManifest

-----------------------------------------------------------------------------
(* The directories looked into.                                            *)

\* The first of them that has a page, or none has.
LEMMA FirstOfThem ==
    ASSUME NEW s \in Seq(Places)
    PROVE  \/ FirstIndexed(s) \in index /\ \E i \in DOMAIN s : s[i] = FirstIndexed(s)
           \/ FirstIndexed(s) = Nothing /\ \A i \in DOMAIN s : s[i] \notin index
<1> DEFINE hits == {i \in DOMAIN s : s[i] \in index}
<1>1. hits \in SUBSET Nat
  OBVIOUS
<1>2. CASE hits = {}
  BY <1>2 DEF FirstIndexed
<1>3. CASE hits # {}
  <2>1. (CHOOSE i \in hits : \A j \in hits : i <= j) \in hits
    <3> HIDE DEF hits
    <3>1. \E i \in hits : \A j \in hits : i <= j
      BY <1>1, <1>3, Least
    <3> QED
      BY <3>1
  <2>2. FirstIndexed(s) = s[CHOOSE i \in hits : \A j \in hits : i <= j]
    BY <1>3 DEF FirstIndexed
  <2> QED
    BY <2>1, <2>2
<1> QED
  BY <1>2, <1>3

\* A place is not nothing.
LEMMA SomePlace == Nothing \notin Places
  BY DEF Nothing, Places

\* What is looked into below a directory, after what is hinted at.
PagesBelow(base, out, rest) == {<<base, r>> : r \in rest \cup (IF out = "" THEN {} ELSE {out})}

LEMMA Two == ASSUME NEW x \in Places, NEW y \in Places
             PROVE  /\ << >> \o <<x, y>> = <<x, y>> /\ <<x, y>> \in Seq(Places) /\ DOMAIN <<x, y>> = {1, 2}
                    /\ <<x, y>>[1] = x /\ <<x, y>>[2] = y
  OBVIOUS

LEMMA Three == ASSUME NEW x \in Places, NEW y \in Places, NEW z \in Places
               PROVE  /\ <<x>> \o <<y, z>> = <<x, y, z>> /\ <<x, y, z>> \in Seq(Places)
                      /\ DOMAIN <<x, y, z>> = {1, 2, 3}
                      /\ <<x, y, z>>[1] = x /\ <<x, y, z>>[2] = y /\ <<x, y, z>>[3] = z
<1>1. <<x, y, z>> \in Seq(Places)
  OBVIOUS
<1>2. <<x>> \in Seq(Places) /\ <<y, z>> \in Seq(Places)
  OBVIOUS
<1>3. Len(<<x>>) = 1 /\ Len(<<y, z>>) = 2 /\ Len(<<x, y, z>>) = 3
  OBVIOUS
<1>4. DOMAIN <<x, y, z>> = {1, 2, 3}
  OBVIOUS
<1>5. <<x>> \o <<y, z>> = <<x, y, z>>
  <2>1. <<x>> \o <<y, z>> \in Seq(Places) /\ Len(<<x>> \o <<y, z>>) = 3
    BY <1>2, <1>3, ConcatProperties
  <2>2. \A i \in 1..3 : (<<x>> \o <<y, z>>)[i] = <<x, y, z>>[i]
    <3>1. (<<x>> \o <<y, z>>)[1] = x /\ (<<x>> \o <<y, z>>)[2] = y /\ (<<x>> \o <<y, z>>)[3] = z
      BY <1>2, <1>3, ConcatProperties
    <3> QED
      BY <3>1
  <2> QED
    BY <1>1, <1>3, <2>1, <2>2, SeqEqual
<1> QED
  BY <1>1, <1>4, <1>5

LEMMA LooksIn ==
    ASSUME NEW s \in Seq(Places), NEW base, NEW L \in SUBSET Places, \A p \in L : p[1] = base,
           \A i \in DOMAIN s : s[i] \in L, \A p \in L : \E i \in DOMAIN s : s[i] = p
    PROVE  \/ /\ FirstIndexed(s) \in L /\ FirstIndexed(s) \in index /\ FirstIndexed(s) # Nothing
              /\ FirstIndexed(s)[1] = base /\ FirstIndexed(s) \in Places
           \/ FirstIndexed(s) = Nothing /\ \A p \in L : p \notin index
<1>1. CASE FirstIndexed(s) \in index /\ \E i \in DOMAIN s : s[i] = FirstIndexed(s)
  <2>1. FirstIndexed(s) \in L
    BY <1>1
  <2> QED
    BY <1>1, <2>1, SomePlace
<1>2. CASE FirstIndexed(s) = Nothing /\ \A i \in DOMAIN s : s[i] \notin index
  BY <1>2
<1> QED
  BY <1>1, <1>2, FirstOfThem

LEMMA LooksInto ==
    ASSUME NEW base \in Bases, NEW out \in Rels \cup {""}, NEW a \in Rels, NEW b \in Rels
    PROVE  LET d == FirstIndexed((IF out # "" THEN << <<base, out>> >> ELSE << >>) \o << <<base, a>>, <<base, b>> >>)
           IN  \/ d \in PagesBelow(base, out, {a, b}) /\ d \in index /\ d # Nothing /\ d[1] = base /\ d \in Places
               \/ d = Nothing /\ \A p \in PagesBelow(base, out, {a, b}) : p \notin index
<1> DEFINE x == <<base, out>>
           y == <<base, a>>
           z == <<base, b>>
           L == PagesBelow(base, out, {a, b})
           q == (IF out # "" THEN <<x>> ELSE << >>) \o <<y, z>>
<1> SUFFICES \/ /\ FirstIndexed(q) \in L /\ FirstIndexed(q) \in index /\ FirstIndexed(q) # Nothing
                /\ FirstIndexed(q)[1] = base /\ FirstIndexed(q) \in Places
             \/ FirstIndexed(q) = Nothing /\ \A p \in L : p \notin index
  BY Zenon
<1>1. y \in Places /\ z \in Places /\ y[1] = base /\ z[1] = base /\ x[1] = base /\ (out # "" => x \in Places)
  BY DEF Places
<1>2. L = {y, z} \cup (IF out = "" THEN {} ELSE {x})
  BY DEF PagesBelow
<1> HIDE DEF x, y, z, L, q
<1>3. CASE out = ""
  <2> DEFINE s == <<y, z>>
  <2>1. << >> \o <<y, z>> = s /\ s \in Seq(Places) /\ DOMAIN s = {1, 2} /\ s[1] = y /\ s[2] = z
    BY <1>1, Two
  <2> HIDE DEF s
  <2>2. L \in SUBSET Places /\ \A p \in L : p[1] = base
    BY <1>1, <1>2, <1>3
  <2>3. \A i \in DOMAIN s : s[i] \in L
    BY <1>2, <1>3, <2>1
  <2>4. \A p \in L : \E i \in DOMAIN s : s[i] = p
    BY <1>2, <1>3, <2>1
  <2>5. \/ /\ FirstIndexed(s) \in L /\ FirstIndexed(s) \in index /\ FirstIndexed(s) # Nothing
           /\ FirstIndexed(s)[1] = base /\ FirstIndexed(s) \in Places
        \/ FirstIndexed(s) = Nothing /\ \A p \in L : p \notin index
    BY <2>1, <2>2, <2>3, <2>4, LooksIn
  <2>6. q = s
    BY <1>3, <2>1 DEF q
  <2> QED
    BY <2>5, <2>6, Zenon
<1>4. CASE out # ""
  <2> DEFINE s == <<x, y, z>>
  <2>0. /\ <<x>> \o <<y, z>> = <<x, y, z>> /\ <<x, y, z>> \in Seq(Places)
        /\ DOMAIN <<x, y, z>> = {1, 2, 3}
        /\ <<x, y, z>>[1] = x /\ <<x, y, z>>[2] = y /\ <<x, y, z>>[3] = z
    <3>1. x \in Places /\ y \in Places /\ z \in Places
      BY <1>1, <1>4
    <3> QED
      BY <3>1, Three
  <2>1. <<x>> \o <<y, z>> = s /\ s \in Seq(Places) /\ DOMAIN s = {1, 2, 3} /\ s[1] = x /\ s[2] = y /\ s[3] = z
    BY <2>0, Zenon
  <2> HIDE DEF s
  <2>2. L \in SUBSET Places /\ \A p \in L : p[1] = base
    BY <1>1, <1>2, <1>4
  <2>3. \A i \in DOMAIN s : s[i] \in L
    BY <1>2, <1>4, <2>1
  <2>4. \A p \in L : \E i \in DOMAIN s : s[i] = p
    BY <1>2, <1>4, <2>1
  <2>5. \/ /\ FirstIndexed(s) \in L /\ FirstIndexed(s) \in index /\ FirstIndexed(s) # Nothing
           /\ FirstIndexed(s)[1] = base /\ FirstIndexed(s) \in Places
        \/ FirstIndexed(s) = Nothing /\ \A p \in L : p \notin index
    BY <2>1, <2>2, <2>3, <2>4, LooksIn
  <2>6. q = s
    BY <1>4, <2>1 DEF q
  <2> QED
    BY <2>5, <2>6, Zenon
<1> QED
  BY <1>3, <1>4

LEMMA PureLooks ==
    ASSUME NEW base \in Bases, NEW out \in Rels \cup {""}, index \subseteq Places
    PROVE  LET d == ResolvePureStaticServeDir(base, out)
           IN  \/ d \in PagesBelow(base, out, {"public", "."}) /\ d \in index /\ d # Nothing /\ d[1] = base /\ d \in Places
               \/ d = Nothing /\ \A p \in PagesBelow(base, out, {"public", "."}) : p \notin index
<1>1. "public" \in Rels /\ "." \in Rels
  BY DEF Rels
<1> QED
  BY <1>1, LooksInto DEF ResolvePureStaticServeDir

LEMMA NodeLooks ==
    ASSUME NEW base \in Bases, NEW out \in Rels \cup {""}, index \subseteq Places
    PROVE  LET d == FindStaticServeDirAfterNodeBuild(base, out)
           IN  \/ d \in PagesBelow(base, out, {"dist", "build"}) /\ d \in index /\ d # Nothing /\ d[1] = base /\ d \in Places
               \/ d = Nothing /\ \A p \in PagesBelow(base, out, {"dist", "build"}) : p \notin index
<1>1. "dist" \in Rels /\ "build" \in Rels
  BY DEF Rels
<1> QED
  BY <1>1, LooksInto DEF FindStaticServeDirAfterNodeBuild

\* Without the framework's hint a build has no more pages than with it.
LEMMA NoPageWithoutHint ==
    ASSUME NEW base \in Bases, NEW out \in Rels \cup {""}, index \subseteq Places,
           FindStaticServeDirAfterNodeBuild(base, out) = Nothing
    PROVE  FindStaticServeDirAfterNodeBuild(base, "") = Nothing
<1>1. \A p \in PagesBelow(base, out, {"dist", "build"}) : p \notin index
  BY NodeLooks
<1>2. PagesBelow(base, "", {"dist", "build"}) \subseteq PagesBelow(base, out, {"dist", "build"})
  BY DEF PagesBelow
<1> QED
  BY <1>1, <1>2, NodeLooks

\* The directory of a restart or a rollback has a page and is of the whole checkout; there is
\* none only if no directory but out has a page.
LEMMA ReplayLooks ==
    ASSUME index \subseteq Places
    PROVE  \/ ReplayDir \in index /\ ReplayDir # Nothing /\ ReplayDir[1] = "top" /\ ReplayDir \in Places
           \/ ReplayDir = Nothing /\ \A r \in Rels \ {"out"} : <<"top", r>> \notin index
<1>1. "top" \in Bases /\ "dist" \in Rels /\ "build" \in Rels /\ Rels = {".", "dist", "build", "public", "out"}
  BY DEF Bases, Rels
<1> DEFINE d == ResolvePureStaticServeDir("top", "dist")
           b == ResolvePureStaticServeDir("top", "build")
<1>2. \/ d \in index /\ d # Nothing /\ d[1] = "top" /\ d \in Places
      \/ d = Nothing /\ \A p \in PagesBelow("top", "dist", {"public", "."}) : p \notin index
  BY <1>1, PureLooks
<1>3. \/ b \in index /\ b # Nothing /\ b[1] = "top" /\ b \in Places
      \/ b = Nothing /\ \A p \in PagesBelow("top", "build", {"public", "."}) : p \notin index
  BY <1>1, PureLooks
<1>4. ReplayDir = IF d # Nothing THEN d ELSE b
  BY DEF ReplayDir
<1> HIDE DEF d, b
<1>5. CASE d # Nothing
  BY <1>2, <1>4, <1>5
<1>6. CASE d = Nothing /\ b # Nothing
  BY <1>3, <1>4, <1>6
<1>7. CASE d = Nothing /\ b = Nothing
  <2>1. \A p \in PagesBelow("top", "dist", {"public", "."}) \cup PagesBelow("top", "build", {"public", "."}) : p \notin index
    BY <1>2, <1>3, <1>7, SomePlace
  <2>2. \A r \in Rels \ {"out"} :
           <<"top", r>> \in PagesBelow("top", "dist", {"public", "."}) \cup PagesBelow("top", "build", {"public", "."})
    BY <1>1 DEF PagesBelow
  <2> QED
    BY <1>4, <1>7, <2>1, <2>2
<1> QED
  BY <1>5, <1>6, <1>7

-----------------------------------------------------------------------------
(* The commands.                                                           *)

LEMMA OnlyMember ==
    ASSUME NEW S, IsFiniteSet(S), Cardinality(S) <= 1, NEW x \in S, NEW y \in S
    PROVE  x = y
<1>1. Cardinality(S) \in Nat /\ Cardinality(S) # 0
  BY FS_CardinalityType, FS_EmptySet
<1>2. Cardinality(S) = 1
  BY <1>1
<1>3. \E z : S = {z}
  BY <1>2, FS_Singleton
<1> QED
  BY <1>3

LEMMA PlacesFinite == IsFiniteSet(Places)
<1>1. IsFiniteSet({"top"}) /\ IsFiniteSet({"."})
  BY FS_Singleton
<1>2. IsFiniteSet(Bases)
  <2>1. Bases = {"top"} \cup {"pkg"}
    BY DEF Bases
  <2> QED
    BY <1>1, <2>1, FS_AddElement
<1>3. IsFiniteSet(Rels)
  <2>1. Rels = ((({"."} \cup {"dist"}) \cup {"build"}) \cup {"public"}) \cup {"out"}
    BY DEF Rels
  <2>2. IsFiniteSet({"."} \cup {"dist"})
    BY <1>1, FS_AddElement
  <2>3. IsFiniteSet(({"."} \cup {"dist"}) \cup {"build"})
    BY <2>2, FS_AddElement
  <2>4. IsFiniteSet((({"."} \cup {"dist"}) \cup {"build"}) \cup {"public"})
    BY <2>3, FS_AddElement
  <2> QED
    BY <2>1, <2>4, FS_AddElement
<1> QED
  BY <1>2, <1>3, FS_Product DEF Places

\* No manifest has no command of its own.
LEMMA NoManifestHasNone ==
    NoManifest.start = "" /\ NoManifest.asgi = "" /\ NoManifest.output = "" /\ ~Valid(NoManifest)
  BY DEF NoManifest, Valid

LEMMA OneEntryPoint ==
    ASSUME PlanTypeOK, Cardinality(checkout.scripts) <= 1, NEW s \in EntryPoints, NEW t \in EntryPoints
    PROVE  s = t
<1>1. IsFiniteSet(checkout.scripts)
  <2>1. IsFiniteSet({"web"} \cup {"cli"})
    BY FS_Singleton, FS_AddElement
  <2>2. {"web", "cli"} = {"web"} \cup {"cli"}
    OBVIOUS
  <2> QED
    BY <2>1, <2>2, CheckoutTyped, FS_Subset
<1> QED
  BY <1>1, OnlyMember DEF EntryPoints

\* With a single script at most, what starts an app is determined.
LEMMA OneCommand ==
    ASSUME PlanTypeOK, Cardinality(checkout.scripts) <= 1, NEW base, NEW type,
           NEW c \in StartCommands(base, type, NoManifest), NEW d \in StartCommands(base, type, NoManifest)
    PROVE  c = d
<1> DEFINE python == PythonStartCommands(base, NoManifest)
<1>1. ASSUME NEW x \in python, NEW y \in python PROVE x = y
  <2>1. \A s, t \in EntryPoints : s = t
    BY OneEntryPoint
  <2> QED
    BY <1>1, <2>1 DEF PythonStartCommands
<1> HIDE DEF python
<1>2. CASE type = "python"
  BY <1>1, <1>2, NoManifestHasNone DEF StartCommands, python
<1>3. CASE type # "python"
  <2> DEFINE cmds == StartCommands(base, type, NoManifest)
  <2>1. \/ cmds = {NodeStartCommand(base)} \/ cmds = {<<"./app">>} \/ cmds = {PHPStartCommand(base)}
        \/ cmds = {<<"target/release">>} \/ cmds = {<<"java", JavaJarPath(base)>>}
        \/ cmds = {RubyStartCommand(base)} \/ cmds = {}
    <3>1. CASE type \in {"node", "go", "php", "rust", "java", "ruby"}
      BY <3>1, NoManifestHasNone DEF StartCommands
    <3>2. CASE type \notin {"node", "go", "php", "rust", "java", "ruby"}
      BY <1>3, <3>2, NoManifestHasNone DEF StartCommands
    <3> QED
      BY <3>1, <3>2
  <2>2. c \in cmds /\ d \in cmds
    OBVIOUS
  <2> HIDE DEF cmds
  <2> QED
    BY <2>1, <2>2
<1> QED
  BY <1>2, <1>3

\* What starts an app is read from the checkout, the directories and the Python tools.
LEMMA SameCommands ==
    ASSUME UNCHANGED <<checkout, dirs, index>>, stored' = stored,
           \A t \in {"uv", "python3"} : t \in tools' <=> t \in tools
    PROVE  StartCommands(checkout.root, stored, NoManifest)' = StartCommands(checkout.root, stored, NoManifest)
<1>1. Files(checkout.root)' = Files(checkout.root)
  BY DEF Files
<1>2. DetectNodePackageManager(checkout.root)' = DetectNodePackageManager(checkout.root)
  BY <1>1 DEF DetectNodePackageManager
<1>3. NodeStartCommand(checkout.root)' = NodeStartCommand(checkout.root)
  BY <1>1, <1>2 DEF NodeStartCommand, GetStartCommand
<1>4. PythonBin' = PythonBin /\ EntryPoints' = EntryPoints /\ ("uv" \in tools' <=> "uv" \in tools)
  BY DEF PythonBin, EntryPoints
<1>5. PythonStartCommands(checkout.root, NoManifest)' = PythonStartCommands(checkout.root, NoManifest)
  BY <1>1, <1>4 DEF PythonStartCommands, ASGIImport
<1>6. PHPStartCommand(checkout.root)' = PHPStartCommand(checkout.root)
  BY DEF PHPStartCommand
<1>7. RubyStartCommand(checkout.root)' = RubyStartCommand(checkout.root)
  BY <1>1 DEF RubyStartCommand
<1>8. JavaJarPath(checkout.root)' = JavaJarPath(checkout.root)
  BY <1>1 DEF JavaJarPath
<1> QED
  BY <1>3, <1>5, <1>6, <1>7, <1>8, NoManifestHasNone DEF StartCommands

LEMMA SamePages ==
    ASSUME UNCHANGED <<checkout, index>>, NEW out
    PROVE  FindStaticServeDirAfterNodeBuild(checkout.root, out)' = FindStaticServeDirAfterNodeBuild(checkout.root, out)
  BY DEF FindStaticServeDirAfterNodeBuild, FirstIndexed

-----------------------------------------------------------------------------
(* The types.                                                              *)

LEMMA DetectsAType == ASSUME NEW c PROVE DetectAppType(c) \in AppTypes
<1> DEFINE found == {i \in DOMAIN Detections : Detections[i][1] \in c.files}
<1>1. DOMAIN Detections = 1..9 /\ \A i \in 1..9 : Detections[i][2] \in AppTypes
  BY DEF Detections, AppTypes
<1>2. ASSUME found # {} PROVE (CHOOSE i \in found : \A j \in found : i <= j) \in 1..9
  <2>1. found \in SUBSET Nat /\ found \subseteq 1..9
    BY <1>1
  <2> HIDE DEF found
  <2>2. \E i \in found : \A j \in found : i <= j
    BY <1>2, <2>1, Least
  <2> QED
    BY <2>1, <2>2
<1>3. "static" \in AppTypes /\ "node" \in AppTypes
  BY DEF AppTypes
<1>4. DetectFrameworkMode(c).type \in {"", "static", "node"}
  BY DEF DetectFrameworkMode, DetectAstroMode, DetectSvelteKitMode, NoFramework
<1> QED
  BY <1>1, <1>2, <1>3, <1>4 DEF DetectAppType

LEMMA ResolvesAType ==
    ASSUME NEW c, c.pages \in Rels \cup {""}, NEW e
    PROVE  /\ ResolveDeployAppType(c, e).type \in AppTypes \cup {""}
           /\ ResolveDeployAppType(c, e).out \in Rels \cup {""}
<1>1. DetectFrameworkMode(c).out \in Rels \cup {""}
  BY DEF DetectFrameworkMode, DetectAstroMode, DetectSvelteKitMode, NoFramework, Rels
<1>2. "static-sidecar" \in AppTypes
  BY DEF AppTypes
<1>3. CASE e = ""
  BY <1>1, <1>3, DetectsAType DEF ResolveDeployAppType, Refused
<1>4. CASE e = "static-sidecar"
  BY <1>2, <1>4 DEF ResolveDeployAppType
<1>5. CASE e \in AppTypes \ {"static-sidecar"} /\ e # ""
  BY <1>1, <1>5 DEF ResolveDeployAppType, Refused
<1>6. CASE e \notin AppTypes \cup {""}
  BY <1>2, <1>6 DEF ResolveDeployAppType, Refused
<1> QED
  BY <1>3, <1>4, <1>5, <1>6

LEMMA ManifestNamesAType == ASSUME NEW m PROVE ManifestAppType(m) \in AppTypes
  BY DEF ManifestAppType, AppTypes

\* The manifest that is loaded is the checkout's, and is valid.
LEMMA LoadsTheManifest ==
    ASSUME NEW base, NEW named
    PROVE  /\ LoadManifest(base, named) \in {NoManifest, checkout.manifest}
           /\ ~Valid(checkout.manifest) => LoadManifest(base, named) = NoManifest
  BY DEF LoadManifest

LEMMA TopAndTop == <<"top", ".">> \in Places /\ "top" \in Bases /\ "static" \in AppTypes /\ "node" \in AppTypes
  BY DEF Places, Bases, Rels, AppTypes

\* What a checkout is promoted to is in it.
LEMMA PromotedIn ==
    ASSUME PlanTypes
    PROVE  \/ Promoted = Nothing /\ (startManifest = NoManifest /\ appType = "node" =>
                                        FindStaticServeDirAfterNodeBuild(checkout.root, hint) = Nothing)
           \/ Promoted # Nothing /\ Promoted \in Places /\ Promoted[1] = checkout.root
<1>1. /\ checkout.root \in Bases /\ hint \in Rels \cup {""} /\ index \subseteq Places /\ dirs \subseteq Places
  BY CheckoutTyped DEF PlanTypes, PlanTypeOK
<1>2. CASE startManifest.output # ""
  <2>1. startManifest # NoManifest
    BY <1>2, NoManifestHasNone
  <2>2. <<checkout.root, startManifest.output>> # Nothing
    BY DEF Nothing
  <2> QED
    BY <1>1, <1>2, <2>1, <2>2 DEF Promoted
<1>3. CASE startManifest.output = "" /\ appType = "node"
  <2>1. Promoted = FindStaticServeDirAfterNodeBuild(checkout.root, hint)
    BY <1>3 DEF Promoted
  <2> QED
    BY <1>1, <2>1, NodeLooks
<1>4. CASE startManifest.output = "" /\ appType # "node"
  BY <1>4 DEF Promoted
<1> QED
  BY <1>2, <1>3, <1>4

LEMMA PlanTypesInit == PlanInit => PlanTypes
<1> SUFFICES ASSUME PlanInit PROVE PlanTypes
  OBVIOUS
<1>1. checkout.index \subseteq Places
  BY CheckoutsType DEF PlanInit
<1>2. 0 \in 0..MaxReplays
  BY PlanBounds
<1> QED
  BY <1>1, <1>2, TopAndTop DEF PlanInit, PlanTypes, PlanTypeOK

LEMMA OneMore == ASSUME NEW n \in 0..MaxReplays, n < MaxReplays PROVE n + 1 \in 0..MaxReplays
  BY PlanBounds

LEMMA PlanTypesStep == PlanTypes /\ [PlanNext]_planVars => PlanTypes'
<1> SUFFICES ASSUME PlanTypes, [PlanNext]_planVars PROVE PlanTypes'
  OBVIOUS
<1> USE DEF PlanTypes, PlanTypeOK
<1>0. checkout' = checkout /\ asked' = asked
  BY DEF PlanNext, planVars, Clone, CloneFails, Resolve, PureStatic, PlanBuild, EnsureBuildTools, EnableCorepack,
         NodeInstall, BuildApp, BuildAppFails, Promote, ServeBuilt, StartApp, Resume, RollbackTo
<1>v. Valid(checkout.manifest)' <=> Valid(checkout.manifest)
  BY <1>0 DEF Valid
<1>1. CASE Clone \/ CloneFails \/ BuildAppFails \/ NodeInstall \/ UNCHANGED planVars
  BY <1>0, <1>v, <1>1 DEF Clone, CloneFails, BuildAppFails, NodeInstall, Down, planVars
<1>2. CASE Resolve
  <2> DEFINE m == LoadManifest(checkout.root, asked.named)
             r == IF asked.type = "" /\ m # NoManifest THEN [type |-> ManifestAppType(m), out |-> ""]
                  ELSE ResolveDeployAppType(checkout, asked.type)
  <2>1. r.type \in AppTypes \cup {""} /\ r.out \in Rels \cup {""}
    BY ResolvesAType, ManifestNamesAType, CheckoutTyped
  <2>2. m \in {NoManifest, checkout.manifest} /\ (~Valid(checkout.manifest) => m = NoManifest)
    BY LoadsTheManifest
  <2>3. /\ startManifest' = m /\ appType' = r.type /\ hint' = r.out
        /\ stored' = stored \/ stored' = r.type
        /\ stage' \in {"down", "plan"} /\ serveDir' = <<checkout.root, ".">>
        /\ UNCHANGED <<tools, corepack, dirs, index, replays>>
    BY <1>2 DEF Resolve, Down
  <2> HIDE DEF m, r
  <2>4. <<checkout.root, ".">> \in Places
    BY CheckoutTyped DEF Places, Rels
  <2> QED
    BY <1>0, <1>v, <2>1, <2>2, <2>3, <2>4
<1>3. CASE PureStatic
  <2> DEFINE dir == ResolvePureStaticServeDir(checkout.root, hint)
  <2>1. dir = Nothing \/ dir \in Places
    BY PureLooks, CheckoutTyped
  <2>2. /\ stage' \in {"up", "down"} /\ (serveDir' = serveDir \/ (dir # Nothing /\ serveDir' = dir))
        /\ UNCHANGED <<corepack, appType, stored, hint, dirs, index, startManifest, replays>>
    BY <1>3 DEF PureStatic, Down, Serves
  <2> HIDE DEF dir
  <2> QED
    BY <1>0, <1>v, <2>1, <2>2
<1>4. CASE PlanBuild
  BY <1>0, <1>v, <1>4, TopAndTop DEF PlanBuild
<1>5. CASE EnsureBuildTools
  BY <1>0, <1>v, <1>5 DEF EnsureBuildTools, EnableCorepack, Down
<1>6. CASE BuildApp
  <2>1. PICK made \in SUBSET {<<checkout.root, r>> : r \in {"dist", "build", "out"}} : \E paged \in SUBSET made :
           dirs' = dirs \cup made /\ index' = index \cup paged
    BY <1>6 DEF BuildApp
  <2>2. PICK paged \in SUBSET made : dirs' = dirs \cup made /\ index' = index \cup paged
    BY <2>1
  <2>3. made \subseteq Places
    <3>1. \A r \in {"dist", "build", "out"} : <<checkout.root, r>> \in Places
      BY CheckoutTyped DEF Places, Rels
    <3>2. {<<checkout.root, r>> : r \in {"dist", "build", "out"}} \subseteq Places
      BY <3>1
    <3> QED
      BY <3>2
  <2>4. /\ stage' = "promote"
        /\ UNCHANGED <<corepack, appType, stored, hint, serveDir, startManifest, replays>>
    BY <1>6 DEF BuildApp
  <2> QED
    BY <1>0, <1>v, <2>2, <2>3, <2>4
<1>7. CASE Promote
  BY <1>0, <1>v, <1>7, PromotedIn, TopAndTop DEF Promote
<1>8. CASE ServeBuilt
  BY <1>0, <1>v, <1>8 DEF ServeBuilt, Serves, Down
<1>9. CASE StartApp
  <2>1. /\ stage' \in {"start", "up", "down"} /\ corepack' \in {corepack, "enabled", "failed"}
        /\ UNCHANGED <<appType, stored, hint, dirs, index, serveDir, startManifest, replays>>
    BY <1>9 DEF StartApp, EnableCorepack, Down
  <2> QED
    BY <1>0, <1>v, <2>1
<1>10. CASE Resume \/ RollbackTo
  <2>1. /\ stage' \in {"up", "down", "start"} /\ replays' = replays + 1 /\ replays < MaxReplays
        /\ corepack' \in {corepack, "untried"} /\ appType' \in {"static", stored}
        /\ serveDir' \in {serveDir, <<"top", ".">>} \/ (ReplayDir # Nothing /\ serveDir' = ReplayDir)
        /\ \/ startManifest' = startManifest \/ startManifest' = NoManifest
           \/ startManifest' = LoadManifest("top", FALSE)
        /\ UNCHANGED <<stored, hint, dirs, index>>
    BY <1>10 DEF Resume, RollbackTo, ReplayStatic, ReplayProcess, Serves, Down
  <2>2. ReplayDir = Nothing \/ ReplayDir \in Places
    BY ReplayLooks
  <2>3. replays + 1 \in 0..MaxReplays
    <3>1. replays \in 0..MaxReplays
      OBVIOUS
    <3>2. replays < MaxReplays
      BY <2>1
    <3> QED
      BY <3>1, <3>2, OneMore
  <2> QED
    BY <1>0, <1>v, <2>1, <2>2, <2>3, TopAndTop, LoadsTheManifest
<1> QED
  BY <1>1, <1>2, <1>3, <1>4, <1>5, <1>6, <1>7, <1>8, <1>9, <1>10 DEF PlanNext

-----------------------------------------------------------------------------
(* What runs, and how it came to be.                                       *)

LEMMA ReplaysCount == ASSUME PlanTypes PROVE replays \in Nat
<1>1. \A n \in 0..MaxReplays : n \in Nat
  BY PlanBounds
<1> QED
  BY <1>1 DEF PlanTypes, PlanTypeOK

LEMMA SamePagesHinted ==
    ASSUME UNCHANGED <<checkout, index, hint>>
    PROVE  FindStaticServeDirAfterNodeBuild(checkout.root, hint)' = FindStaticServeDirAfterNodeBuild(checkout.root, hint)
  BY DEF FindStaticServeDirAfterNodeBuild, FirstIndexed

LEMMA PlanRunsStep == PlanTypes /\ PlanRuns /\ [PlanNext]_planVars => PlanRuns'
<1> SUFFICES ASSUME PlanTypes, PlanRuns, [PlanNext]_planVars PROVE PlanRuns'
  OBVIOUS
<1>0. replays \in Nat
  BY ReplaysCount
<1>p. \A x, y : <<"process", x, y>> # Nothing
  BY DEF Nothing
<1>s. \A d : Static(d) # Nothing
  BY DEF Static, Nothing
<1>1. CASE Clone \/ CloneFails \/ PlanBuild \/ EnsureBuildTools \/ NodeInstall \/ BuildApp \/ BuildAppFails \/ Promote
  <2>1. stage \notin {"up", "start", "down"} /\ stage' # "up" /\ (stage' # "down" => why' = why)
        /\ UNCHANGED <<first, replays>>
    BY <1>1 DEF Clone, CloneFails, PlanBuild, EnsureBuildTools, EnableCorepack, NodeInstall, BuildApp, BuildAppFails,
                Promote, Down
  <2> QED
    BY <1>0, <2>1 DEF PlanRuns
<1>2. CASE Resolve
  <2>1. stage = "resolve" /\ stage' \in {"down", "plan"} /\ (stage' # "down" => why' = why)
        /\ UNCHANGED <<first, replays>>
    BY <1>2 DEF Resolve, Down
  <2> QED
    BY <1>0, <2>1 DEF PlanRuns
<1>3. CASE PureStatic
  <2> DEFINE dir == ResolvePureStaticServeDir(checkout.root, hint)
  <2>1. stage = "plan" /\ UNCHANGED <<index, replays>>
    BY <1>3 DEF PureStatic
  <2>2. dir = Nothing \/ dir \in index
    BY PureLooks, CheckoutTyped DEF PlanTypes, PlanTypeOK
  <2>3. \/ dir = Nothing /\ stage' = "down" /\ first' = first
        \/ dir # Nothing /\ stage' = "up" /\ live' = Static(dir) /\ why' = why /\ first' = Static(dir)
    BY <1>3 DEF PureStatic, Down, Serves
  <2> HIDE DEF dir
  <2> QED
    BY <1>0, <1>s, <2>1, <2>2, <2>3 DEF PlanRuns
<1>4. CASE ServeBuilt
  <2>1. stage = "static" /\ UNCHANGED <<index, replays>>
    BY <1>4 DEF ServeBuilt
  <2>2. \/ stage' = "down" /\ first' = first
        \/ serveDir \in index /\ stage' = "up" /\ live' = Static(serveDir) /\ why' = why /\ first' = Static(serveDir)
    BY <1>4 DEF ServeBuilt, RequireStaticIndex, Down, Serves
  <2> QED
    BY <1>0, <1>s, <2>1, <2>2 DEF PlanRuns
<1>5. CASE StartApp
  <2>1. stage = "start" /\ UNCHANGED <<index, replays>>
    BY <1>5 DEF StartApp, EnableCorepack, Down
  <2>2. \/ stage' \in {"start", "down"} /\ (stage' = "start" => why' = why) /\ first' = first
        \/ \E cmd : /\ stage' = "up" /\ why' = why /\ live' = <<"process", serveDir, cmd>>
                    /\ first' = IF replays = 0 THEN live' ELSE first
    BY <1>5 DEF StartApp, EnableCorepack, Down
  <2>3. CASE stage' \in {"start", "down"} /\ (stage' = "start" => why' = why) /\ first' = first
    BY <1>0, <2>1, <2>3 DEF PlanRuns
  <2>4. ASSUME NEW cmd, stage' = "up", why' = why, live' = <<"process", serveDir, cmd>>,
               first' = IF replays = 0 THEN live' ELSE first
        PROVE  PlanRuns'
    <3>1. live' # Nothing /\ \E x, y : live' = <<"process", x, y>>
      BY <1>p, <2>4
    <3>2. CASE replays = 0
      BY <2>1, <2>4, <3>1, <3>2 DEF PlanRuns
    <3>3. CASE replays # 0
      <4>0. replays > 0
        BY <1>0, <3>3
      <4>1. first # Nothing /\ first' = first
        BY <2>4, <3>3, <4>0 DEF PlanRuns
      <4> QED
        BY <2>1, <2>4, <3>1, <3>3, <4>1 DEF PlanRuns
    <3> QED
      BY <3>2, <3>3
  <2> QED
    BY <2>2, <2>3, <2>4
<1>6. CASE Resume \/ RollbackTo
  <2>1. /\ stage = "up" /\ replays' = replays + 1 /\ UNCHANGED <<index, first>>
        /\ \/ stage' = "down"
           \/ stage' = "up" /\ ReplayDir # Nothing /\ live' = Static(ReplayDir) /\ why' = why
           \/ stage' = "start" /\ why' = why
    BY <1>6 DEF Resume, RollbackTo, ReplayStatic, ReplayProcess, Down, Serves
  <2>2. ReplayDir = Nothing \/ ReplayDir \in index
    BY ReplayLooks DEF PlanTypes, PlanTypeOK
  <2>3. replays' # 0 /\ first' # Nothing
    <3>1. replays + 1 # 0
      BY <1>0
    <3> QED
      BY <2>1, <3>1 DEF PlanRuns
  <2>4. ASSUME stage' = "up" PROVE \E d \in index' : live' = Static(d)
    BY <2>1, <2>2, <2>4
  <2> QED
    BY <2>1, <2>3, <2>4 DEF PlanRuns
<1>7. CASE UNCHANGED planVars
  BY <1>7 DEF planVars, PlanRuns
<1> QED
  BY <1>1, <1>2, <1>3, <1>4, <1>5, <1>6, <1>7 DEF PlanNext

LEMMA PlanBuildsStep == PlanTypes /\ PlanRuns /\ PlanBuilds /\ [PlanNext]_planVars => PlanBuilds'
<1> SUFFICES ASSUME PlanTypes, PlanRuns, PlanBuilds, [PlanNext]_planVars PROVE PlanBuilds'
  OBVIOUS
<1> USE DEF PlanBuilds
<1>0. checkout' = checkout /\ replays \in Nat
  <2>1. replays \in Nat
    BY ReplaysCount
  <2> QED
    BY <2>1 DEF PlanNext, planVars, Clone, CloneFails, Resolve, PureStatic, PlanBuild, EnsureBuildTools, EnableCorepack,
         NodeInstall, BuildApp, BuildAppFails, Promote, ServeBuilt, StartApp, Resume, RollbackTo
<1>1. CASE Clone \/ CloneFails \/ PureStatic \/ BuildAppFails \/ ServeBuilt
  BY <1>1 DEF Clone, CloneFails, PureStatic, BuildAppFails, ServeBuilt, Down, Serves
<1>2. CASE Resolve
  BY <1>0, <1>2 DEF Resolve, Down
<1>3. CASE PlanBuild \/ EnsureBuildTools \/ NodeInstall \/ BuildApp
  <2>1. /\ stage \in {"plan", "tools", "install", "build"} /\ stage' \in {"down", "tools", "install", "build", "promote"}
        /\ \/ stage # "plan" /\ appType' = appType
           \/ stage = "plan" /\ (appType # "static" => appType' = appType)
        /\ UNCHANGED <<stored, serveDir, replays>>
    BY <1>3 DEF PlanBuild, EnsureBuildTools, EnableCorepack, NodeInstall, BuildApp, Down
  <2> QED
    BY <1>0, <2>1
<1>4. CASE Promote
  <2>1. /\ stage = "promote" /\ UNCHANGED <<hint, index, startManifest, replays>>
        /\ \/ Promoted = Nothing /\ stage' = "start" /\ UNCHANGED <<appType, stored, serveDir>>
           \/ Promoted # Nothing /\ stage' = "static" /\ serveDir' = Promoted
    BY <1>4 DEF Promote
  <2>2. FindStaticServeDirAfterNodeBuild(checkout.root, hint)' = FindStaticServeDirAfterNodeBuild(checkout.root, hint)
    BY <1>0, <2>1, SamePagesHinted
  <2> QED
    BY <1>0, <2>1, <2>2, PromotedIn
<1>5. CASE StartApp
  <2>1. /\ stage = "start" /\ stage' \in {"start", "up", "down"}
        /\ UNCHANGED <<appType, stored, hint, index, serveDir, startManifest, replays>>
    BY <1>5 DEF StartApp, EnableCorepack, Down
  <2>2. FindStaticServeDirAfterNodeBuild(checkout.root, hint)' = FindStaticServeDirAfterNodeBuild(checkout.root, hint)
    BY <1>0, <2>1, SamePagesHinted
  <2> QED
    BY <1>0, <2>1, <2>2
<1>6. CASE Resume \/ RollbackTo
  <2>1. replays' = replays + 1
    BY <1>6 DEF Resume, RollbackTo
  <2>2. replays + 1 # 0
    BY <1>0
  <2> QED
    BY <2>1, <2>2
<1>7. CASE UNCHANGED planVars
  <2>1. FindStaticServeDirAfterNodeBuild(checkout.root, hint)' = FindStaticServeDirAfterNodeBuild(checkout.root, hint)
    BY <1>7, SamePagesHinted DEF planVars
  <2> QED
    BY <1>7, <2>1 DEF planVars
<1> QED
  BY <1>1, <1>2, <1>3, <1>4, <1>5, <1>6, <1>7 DEF PlanNext

\* What a deployment served first is told the same way as long as its files, its row and the
\* Python tools stay: corepack adds other tools.
LEMMA FirstKept ==
    ASSUME PlanFirst, UNCHANGED <<checkout, dirs, index, stored, first>>,
           \A t \in {"uv", "python3"} : t \in tools' <=> t \in tools
    PROVE  PlanFirst'
<1>1. StartCommands(checkout.root, stored, NoManifest)' = StartCommands(checkout.root, stored, NoManifest)
  BY SameCommands
<1>2. FindStaticServeDirAfterNodeBuild(checkout.root, "")' = FindStaticServeDirAfterNodeBuild(checkout.root, "")
  BY SamePages
<1>3. Valid(checkout.manifest)' <=> Valid(checkout.manifest)
  BY DEF Valid
<1> HIDE DEF StartCommands, FindStaticServeDirAfterNodeBuild, Valid
<1>4. CASE first = Nothing \/ Valid(checkout.manifest)
  BY <1>3, <1>4 DEF PlanFirst
<1>5. CASE \E d \in index : first = Static(d) /\ d[1] = checkout.root
  BY <1>5 DEF PlanFirst
<1>6. CASE stored = "static" /\ first[1] = "process"
  BY <1>6 DEF PlanFirst
<1>7. CASE /\ \E cmd \in StartCommands(checkout.root, stored, NoManifest) :
                 first = <<"process", <<checkout.root, ".">>, cmd>>
           /\ stored = "node" => FindStaticServeDirAfterNodeBuild(checkout.root, "") = Nothing
  BY <1>1, <1>2, <1>7 DEF PlanFirst
<1> QED
  BY <1>4, <1>5, <1>6, <1>7 DEF PlanFirst

\* What a process that is started first is, when there is no manifest.
LEMMA FirstStarted ==
    ASSUME PlanTypes, PlanBuilds, replays = 0, stage = "start", ~Valid(checkout.manifest),
           NEW cmd \in StartCommands(serveDir[1], appType, startManifest)
    PROVE  \/ stored = "static"
           \/ /\ cmd \in StartCommands(checkout.root, stored, NoManifest)
              /\ stored = "node" => FindStaticServeDirAfterNodeBuild(checkout.root, "") = Nothing
<1>1. startManifest = NoManifest /\ checkout.root \in Bases /\ hint \in Rels \cup {""} /\ index \subseteq Places
  BY CheckoutTyped DEF PlanTypes, PlanTypeOK
<1>2. /\ serveDir = <<checkout.root, ".">> /\ (stored = appType \/ stored = "static")
      /\ appType = "node" => FindStaticServeDirAfterNodeBuild(checkout.root, hint) = Nothing
  BY <1>1 DEF PlanBuilds
<1>3. serveDir[1] = checkout.root
  BY <1>2
<1>4. appType = "node" => FindStaticServeDirAfterNodeBuild(checkout.root, "") = Nothing
  BY <1>1, <1>2, NoPageWithoutHint
<1> QED
  BY <1>1, <1>2, <1>3, <1>4

LEMMA PlanFirstStep == PlanTypes /\ PlanRuns /\ PlanBuilds /\ PlanFirst /\ [PlanNext]_planVars => PlanFirst'
<1> SUFFICES ASSUME PlanTypes, PlanRuns, PlanBuilds, PlanFirst, [PlanNext]_planVars PROVE PlanFirst'
  OBVIOUS
<1>0. replays \in Nat
  BY ReplaysCount
<1>1. CASE Clone \/ CloneFails \/ Resolve \/ PlanBuild \/ EnsureBuildTools \/ NodeInstall \/ BuildApp \/ BuildAppFails
           \/ Promote
  <2>1. stage \notin {"up", "start", "down"} /\ first' = first
    BY <1>1 DEF Clone, CloneFails, Resolve, PlanBuild, EnsureBuildTools, EnableCorepack, NodeInstall, BuildApp,
                BuildAppFails, Promote
  <2>2. first' = Nothing
    BY <2>1 DEF PlanRuns
  <2> QED
    BY <2>2 DEF PlanFirst
<1>2. CASE PureStatic
  <2> DEFINE dir == ResolvePureStaticServeDir(checkout.root, hint)
  <2>1. stage = "plan" /\ UNCHANGED <<index, checkout>>
    BY <1>2 DEF PureStatic
  <2>2. dir = Nothing \/ (dir \in index /\ dir[1] = checkout.root)
    BY PureLooks, CheckoutTyped DEF PlanTypes, PlanTypeOK
  <2>3. \/ dir = Nothing /\ stage' = "down" /\ first' = first
        \/ dir # Nothing /\ stage' = "up" /\ first' = Static(dir)
    BY <1>2 DEF PureStatic, Down, Serves
  <2>4. first = Nothing
    BY <2>1 DEF PlanRuns
  <2> HIDE DEF dir
  <2> QED
    BY <2>1, <2>2, <2>3, <2>4 DEF PlanFirst
<1>3. CASE ServeBuilt
  <2>1. /\ stage = "static" /\ UNCHANGED <<index, checkout>>
        /\ \/ stage' = "down" /\ first' = first
           \/ serveDir \in index /\ stage' = "up" /\ first' = Static(serveDir)
    BY <1>3 DEF ServeBuilt, RequireStaticIndex, Down, Serves
  <2>2. first = Nothing
    BY <2>1 DEF PlanRuns
  <2>3. replays = 0
    <3>1. ~(replays > 0)
      BY <2>2 DEF PlanRuns
    <3> QED
      BY <1>0, <3>1
  <2>4. serveDir[1] = checkout.root
    BY <2>1, <2>3 DEF PlanBuilds
  <2> QED
    BY <2>1, <2>2, <2>4 DEF PlanFirst
<1>4. CASE StartApp
  <2>1. stage = "start" /\ UNCHANGED <<checkout, dirs, index, stored, serveDir>>
    BY <1>4 DEF StartApp, EnableCorepack, Down
  <2>2. \A t \in {"uv", "python3"} : t \in tools' <=> t \in tools
    BY <1>4 DEF StartApp, EnableCorepack
  <2>3. \/ first' = first
        \/ /\ tools' = tools /\ replays = 0
           /\ \E cmd \in StartCommands(serveDir[1], appType, startManifest) : first' = <<"process", serveDir, cmd>>
    BY <1>4 DEF StartApp, EnableCorepack
  <2>4. CASE first' = first
    BY <2>1, <2>2, <2>4, FirstKept
  <2>5. ASSUME NEW cmd \in StartCommands(serveDir[1], appType, startManifest), replays = 0,
               first' = <<"process", serveDir, cmd>>
        PROVE  PlanFirst'
    <3>1. CASE Valid(checkout.manifest)
      <4>1. Valid(checkout.manifest)'
        BY <2>1, <3>1 DEF Valid
      <4> QED
        BY <4>1 DEF PlanFirst
    <3>2. CASE stored = "static"
      BY <2>1, <2>5, <3>2 DEF PlanFirst
    <3>3. CASE ~Valid(checkout.manifest) /\ stored # "static"
      <4>1. /\ cmd \in StartCommands(checkout.root, stored, NoManifest)
            /\ stored = "node" => FindStaticServeDirAfterNodeBuild(checkout.root, "") = Nothing
        BY <2>1, <2>5, <3>3, FirstStarted
      <4>2. serveDir = <<checkout.root, ".">>
        BY <2>1, <2>5 DEF PlanBuilds
      <4>3. StartCommands(checkout.root, stored, NoManifest)' = StartCommands(checkout.root, stored, NoManifest)
        BY <2>1, <2>2, SameCommands
      <4>4. FindStaticServeDirAfterNodeBuild(checkout.root, "")' = FindStaticServeDirAfterNodeBuild(checkout.root, "")
        BY <2>1, SamePages
      <4> QED
        BY <2>1, <2>5, <4>1, <4>2, <4>3, <4>4 DEF PlanFirst
    <3> QED
      BY <3>1, <3>2, <3>3
  <2> QED
    BY <2>3, <2>4, <2>5
<1>5. CASE Resume \/ RollbackTo
  BY <1>5, FirstKept DEF Resume, RollbackTo
<1>6. CASE UNCHANGED planVars
  BY <1>6, FirstKept DEF planVars
<1> QED
  BY <1>1, <1>2, <1>3, <1>4, <1>5, <1>6 DEF PlanNext

-----------------------------------------------------------------------------
(* Served again.                                                           *)

\* A static deployment that can be recovered: the only page there is is the one looked for.
LEMMA RecoversPages ==
    ASSUME PlanTypes, PlanFirst, Recoverable, stored = "static"
    PROVE  ReplayDir # Nothing /\ first = Static(ReplayDir)
<1>1. PICK d \in index : first = Static(d) /\ d[1] = "top"
  BY DEF PlanFirst, Recoverable
<1>2. index \subseteq Places /\ Places = Bases \X Rels
  BY DEF PlanTypes, PlanTypeOK, Places
<1>3. PICK r \in Rels : d = <<"top", r>>
  BY <1>1, <1>2
<1>4. r # "out"
  BY <1>1, <1>3 DEF Recoverable
<1>5. ReplayDir \in index /\ ReplayDir # Nothing
  BY <1>1, <1>2, <1>3, <1>4, ReplayLooks
<1>6. IsFiniteSet(index)
  BY <1>2, PlacesFinite, FS_Subset
<1>7. ReplayDir = d
  BY <1>1, <1>5, <1>6, OnlyMember DEF Recoverable
<1> QED
  BY <1>1, <1>5, <1>7

\* One that was started as a process has no page that a restart would serve instead.
LEMMA RecoversCommand ==
    ASSUME PlanFirst, Recoverable, stored # "static"
    PROVE  /\ \E cmd \in StartCommands("top", stored, NoManifest) : first = <<"process", <<"top", ".">>, cmd>>
           /\ first[1] = "process" /\ ~ResumesStatic
<1>1. ~(\E d \in index : first = Static(d))
  BY DEF Recoverable, Static
<1>2. /\ \E cmd \in StartCommands(checkout.root, stored, NoManifest) :
             first = <<"process", <<checkout.root, ".">>, cmd>>
      /\ stored = "node" => FindStaticServeDirAfterNodeBuild(checkout.root, "") = Nothing
  BY <1>1 DEF PlanFirst, Recoverable
<1>3. checkout.root = "top"
  BY DEF Recoverable
<1>4. stored = "node" => FindStaticServeDirAfterNodeBuild("top", "") = Nothing
  BY <1>2, <1>3
<1>5. ~ResumesStatic
  BY <1>4 DEF ResumesStatic
<1>6. PICK cmd \in StartCommands("top", stored, NoManifest) : first = <<"process", <<"top", ".">>, cmd>>
  BY <1>2, <1>3
<1>7. first[1] = "process"
  BY <1>6
<1> QED
  BY <1>5, <1>6, <1>7

LEMMA PlanReplaysStep == PlanInv /\ [PlanNext]_planVars => PlanReplays'
<1> SUFFICES ASSUME PlanInv, [PlanNext]_planVars PROVE PlanReplays'
  OBVIOUS
<1>0. PlanTypes /\ PlanRuns /\ PlanBuilds /\ PlanFirst /\ PlanReplays /\ replays \in Nat
  BY ReplaysCount DEF PlanInv
<1>1. CASE Clone \/ CloneFails \/ Resolve \/ PlanBuild \/ EnsureBuildTools \/ NodeInstall \/ BuildApp \/ BuildAppFails
           \/ Promote \/ PureStatic \/ ServeBuilt
  <2>1. stage \notin {"up", "start", "down"} /\ replays' = replays
    BY <1>1 DEF Clone, CloneFails, Resolve, PlanBuild, EnsureBuildTools, EnableCorepack, NodeInstall, BuildApp,
                BuildAppFails, Promote, PureStatic, ServeBuilt
  <2>2. ~(replays > 0)
    BY <1>0, <2>1 DEF PlanRuns
  <2> QED
    BY <2>1, <2>2 DEF PlanReplays
<1>2. CASE StartApp
  <2> SUFFICES ASSUME replays' > 0, Recoverable'
               PROVE  /\ why' # "static_output_missing"
                      /\ stage' = "up" => live' = first'
                      /\ stage' = "start" => /\ first'[1] = "process" /\ appType' = stored'
                                             /\ serveDir' = <<"top", ".">> /\ startManifest' = NoManifest
    BY DEF PlanReplays
  <2>1. stage = "start" /\ UNCHANGED <<checkout, index, stored, appType, serveDir, startManifest, replays>>
    BY <1>2 DEF StartApp, EnableCorepack, Down
  <2>2. \/ stage' = "start" /\ why' = why /\ first' = first
        \/ stage' = "down" /\ why' = "no_command" /\ first' = first
        \/ /\ stage' = "up" /\ why' = why /\ (first' = IF replays = 0 THEN live' ELSE first)
           /\ \E cmd \in StartCommands(serveDir[1], appType, startManifest) : live' = <<"process", serveDir, cmd>>
    BY <1>2 DEF StartApp, EnableCorepack, Down
  <2>3. replays > 0 /\ replays # 0
    BY <1>0, <2>1
  <2>4. first' = first /\ why = ""
    BY <1>0, <2>1, <2>2, <2>3 DEF PlanRuns
  <2>5. Recoverable
    <3>1. Valid(checkout.manifest)' <=> Valid(checkout.manifest)
      BY <2>1 DEF Valid
    <3> HIDE DEF Valid
    <3> QED
      BY <2>1, <2>4, <3>1 DEF Recoverable
  <2>6. first[1] = "process" /\ appType = stored /\ serveDir = <<"top", ".">> /\ startManifest = NoManifest
    BY <1>0, <2>1, <2>3, <2>5 DEF PlanReplays
  <2>7. ASSUME NEW cmd \in StartCommands(serveDir[1], appType, startManifest), live' = <<"process", serveDir, cmd>>
        PROVE  live' = first'
    <3>1. stored # "static"
      BY <2>5, <2>6 DEF Recoverable
    <3>2. PICK c \in StartCommands("top", stored, NoManifest) : first = <<"process", <<"top", ".">>, c>>
      BY <1>0, <2>5, <3>1, RecoversCommand
    <3>3. serveDir[1] = "top" /\ Cardinality(checkout.scripts) <= 1 /\ PlanTypeOK
      BY <1>0, <2>5, <2>6 DEF Recoverable, PlanTypes
    <3>4. cmd \in StartCommands("top", stored, NoManifest)
      BY <2>6, <2>7, <3>3
    <3>5. cmd = c
      BY <3>2, <3>3, <3>4, OneCommand
    <3> QED
      BY <2>4, <2>6, <2>7, <3>2, <3>5
  <2> QED
    BY <2>1, <2>2, <2>4, <2>6, <2>7
<1>3. CASE Resume \/ RollbackTo
  <2> SUFFICES ASSUME Recoverable'
               PROVE  /\ why' # "static_output_missing"
                      /\ stage' = "up" => live' = first'
                      /\ stage' = "start" => /\ first'[1] = "process" /\ appType' = stored'
                                             /\ serveDir' = <<"top", ".">> /\ startManifest' = NoManifest
    BY DEF PlanReplays
  <2>1. stage = "up" /\ UNCHANGED <<checkout, index, stored, first>>
    BY <1>3 DEF Resume, RollbackTo
  <2>2. Recoverable
    <3>1. Valid(checkout.manifest)' <=> Valid(checkout.manifest)
      BY <2>1 DEF Valid
    <3> HIDE DEF Valid
    <3> QED
      BY <2>1, <3>1 DEF Recoverable
  <2>3. why = ""
    BY <1>0, <2>1 DEF PlanRuns
  <2>4. CASE stored = "static"
    <3>1. ReplayDir # Nothing /\ first = Static(ReplayDir)
      BY <1>0, <2>2, <2>4, RecoversPages
    <3>2. ReplayStatic
      BY <1>3, <2>4 DEF Resume, RollbackTo, ResumesStatic
    <3> QED
      BY <2>1, <2>3, <3>1, <3>2 DEF ReplayStatic, Serves
  <2>5. CASE stored # "static"
    <3>1. first[1] = "process" /\ ~ResumesStatic
      BY <1>0, <2>2, <2>5, RecoversCommand
    <3>2. LoadManifest("top", FALSE) = NoManifest
      BY <2>2, LoadsTheManifest DEF Recoverable
    <3>3. appType' = stored /\ ReplayProcess(NoManifest)
      BY <1>3, <2>5, <3>1, <3>2 DEF Resume, RollbackTo
    <3> QED
      BY <2>1, <2>3, <3>1, <3>3 DEF ReplayProcess
  <2> QED
    BY <2>4, <2>5
<1>4. CASE UNCHANGED planVars
  <2>1. Valid(checkout.manifest)' <=> Valid(checkout.manifest)
    BY <1>4 DEF Valid, planVars
  <2> HIDE DEF Valid
  <2>2. Recoverable' <=> Recoverable
    BY <1>4, <2>1 DEF Recoverable, planVars
  <2> HIDE DEF Recoverable
  <2> QED
    BY <1>0, <1>4, <2>2 DEF PlanReplays, planVars
<1> QED
  BY <1>1, <1>2, <1>3, <1>4 DEF PlanNext

LEMMA PlanInvInit == PlanInit => PlanInv
<1> SUFFICES ASSUME PlanInit PROVE PlanInv
  OBVIOUS
<1>1. stage = "clone" /\ why = "" /\ first = Nothing /\ replays = 0
  BY DEF PlanInit
<1>2. PlanRuns
  <2>1. stage # "up"
    BY <1>1
  <2>2. ~(replays > 0)
    <3>1. replays = 0
      BY <1>1, Zenon
    <3>2. ~(0 > 0)
      OBVIOUS
    <3> QED
      BY <3>1, <3>2
  <2> QED
    BY <1>1, <2>1, <2>2 DEF PlanRuns
<1>3. PlanBuilds
  BY <1>1 DEF PlanBuilds
<1>4. PlanFirst
  BY <1>1 DEF PlanFirst
<1>5. PlanReplays
  BY <1>1 DEF PlanReplays
<1> QED
  BY <1>2, <1>3, <1>4, <1>5, PlanTypesInit DEF PlanInv

LEMMA PlanInvStep == PlanInv /\ [PlanNext]_planVars => PlanInv'
  BY PlanTypesStep, PlanRunsStep, PlanBuildsStep, PlanFirstStep, PlanReplaysStep DEF PlanInv

LEMMA PlanInvKeeps == PlanInv => PlanTypeOK /\ PlanKept
<1> SUFFICES ASSUME PlanInv PROVE PlanTypeOK /\ PlanKept
  OBVIOUS
<1>0. PlanTypes /\ PlanRuns /\ PlanReplays /\ PlanTypeOK
  BY DEF PlanInv, PlanTypes
<1>1. NeverLists
  <2> SUFFICES ASSUME stage = "up", live[1] = "static" PROVE live[2] \in index
    BY DEF NeverLists
  <2>1. ~(\E dir, cmd : live = <<"process", dir, cmd>>)
    OBVIOUS
  <2>2. PICK d \in index : live = Static(d)
    BY <1>0, <2>1 DEF PlanRuns
  <2> QED
    BY <2>2 DEF Static
<1>2. ReplayedAsDeployed
  BY <1>0 DEF ReplayedAsDeployed, PlanReplays
<1>3. InitAccepted
  BY <1>0, InitIsValid
<1> QED
  BY <1>0, <1>1, <1>2, <1>3 DEF PlanKept

\* What a deployment serves has a page, and a deployment that its column and its directory
\* describe comes back from a restart or a rollback as it was (engine.go, orchestrator.go:62-117,
\* rollback.go:121-136).
THEOREM PlansHold == PlanSpec => [](PlanTypeOK /\ PlanKept)
<1>1. PlanInit => PlanInv
  BY PlanInvInit
<1>2. PlanInv /\ [PlanNext]_planVars => PlanInv'
  BY PlanInvStep
<1>3. PlanInv => PlanTypeOK /\ PlanKept
  BY PlanInvKeeps
<1> QED
  BY <1>1, <1>2, <1>3, PTL DEF PlanSpec

-----------------------------------------------------------------------------
(* Functions: the schedule and the runs.                                   *)

\* A run of a function: its place and that of its JavaScript machine.
FnRunRecord ==
    [at : {"idle", "executing", "timedOut", "ended", "gone"}, fn : FnIds \cup {0}, org : FnOrgs,
     write : 0..MaxWrites, machine : {"idle", "running", "interrupted", "returned", "threw"}]

\* The types.
FnWellTyped ==
    /\ fnRow \in [FnIds -> [org : FnOrgs, schedule : Schedules, write : 0..MaxWrites]]
    /\ entry \in [FnIds -> 0..MaxWrites]
    /\ fnCall \in [FnHandlers -> {NoFnCall} \cup [at : {"fetch", "reload"}, fn : FnIds]]
    /\ fnRun \in [FnRuns -> FnRunRecord]
    /\ execution \in [FnRuns -> [org : FnOrgs, status : {"none", "success", "error"}]]
    /\ writes \in 0..MaxWrites /\ unreloaded \in BOOLEAN

(* A request that has still to reload, or to read back a function that exists. *)
FnOwesReload(h) == fnCall[h].at = "reload" \/ (fnCall[h].at = "fetch" /\ FnExists(fnCall[h].fn))

\* The inductive invariant: the schedule is the table's unless a handler still
\* owes its reload or one has failed.
FnInv ==
    /\ FnWellTyped
    /\ \A f \in FnIds : ~FnExists(f) => fnRow[f] = NoFn
    /\ ~unreloaded /\ (\A h \in FnHandlers : ~FnOwesReload(h)) => entry = Scheduled

\* The invariant holds at the start.
LEMMA FnInvInit == FnInit => FnInv
<1> SUFFICES ASSUME FnInit PROVE FnInv
  OBVIOUS
<1>1. 0 \in 0..MaxWrites /\ 0 \in FnOrgs /\ 0 \in FnIds \cup {0}
  BY FnBounds
<1>2. FnWellTyped
  BY <1>1 DEF FnInit, FnWellTyped, FnRunRecord, NoFn, NoFnCall, NoFnRun, NoExecution, Schedules
<1>3. entry = Scheduled
  BY DEF FnInit, Scheduled, NoFn
<1> QED
  BY <1>2, <1>3 DEF FnInv, FnInit

(* A statement on the table: its row is new or none, and the request reloads unless the schedule is as before. *)
LEMMA FnWriteKeeps ==
    ASSUME FnInv, NEW h \in FnHandlers, NEW f \in FnIds, NEW org \in FnOrgs, NEW s \in Schedules,
           NEW row, NEW pc \in {"idle", "fetch", "reload"},
           row = NoFn \/ row = [org |-> org, schedule |-> s, write |-> writes + 1],
           pc = "idle" => row = [org |-> org, schedule |-> "none", write |-> writes + 1] /\ ~FnExists(f),
           pc = "fetch" => row # NoFn,
           FnWrite(h, f, row, pc), UNCHANGED <<entry, fnRun, execution, unreloaded>>
    PROVE  FnInv'
<1>1. writes + 1 \in 0..MaxWrites /\ writes + 1 # 0 /\ 0 \in FnOrgs /\ 0 \in 0..MaxWrites
  BY FnBounds DEF FnInv, FnWellTyped, FnWrite
<1>2. row \in [org : FnOrgs, schedule : Schedules, write : 0..MaxWrites] /\ (row.write = 0 => row = NoFn)
  BY <1>1 DEF NoFn, Schedules
<1>3. fnRow' \in [FnIds -> [org : FnOrgs, schedule : Schedules, write : 0..MaxWrites]]
      /\ fnRow'[f] = row /\ \A g \in FnIds \ {f} : fnRow'[g] = fnRow[g]
  BY <1>2 DEF FnWrite, FnInv, FnWellTyped
<1>4. /\ fnCall' \in [FnHandlers -> {NoFnCall} \cup [at : {"fetch", "reload"}, fn : FnIds]]
      /\ fnCall'[h] = IF pc = "idle" THEN NoFnCall ELSE [at |-> pc, fn |-> f]
      /\ \A g \in FnHandlers \ {h} : fnCall'[g] = fnCall[g]
  BY DEF FnWrite, FnInv, FnWellTyped, FnGoes
<1>5. FnWellTyped'
  BY <1>1, <1>3, <1>4 DEF FnWrite, FnInv, FnWellTyped
<1>6. (\A g \in FnIds : ~FnExists(g) => fnRow[g] = NoFn)'
  BY <1>2, <1>3 DEF FnInv, FnExists
<1>7. ASSUME (~unreloaded)', \A g \in FnHandlers : ~FnOwesReload(g)' PROVE (entry = Scheduled)'
  <2>1. CASE pc = "reload"
    BY <1>4, <1>7, <2>1 DEF FnOwesReload
  <2>2. CASE pc = "fetch"
    <3>1. FnExists(f)'
      BY <1>1, <1>3, <2>2 DEF FnExists
    <3> QED
      BY <1>4, <1>7, <2>2, <3>1 DEF FnOwesReload
  <2>3. CASE pc = "idle"
    <3>1. fnCall[h] = NoFnCall
      BY DEF FnWrite
    <3>2. \A g \in FnIds : FnExists(g) => FnExists(g)'
      BY <1>1, <1>3, <2>3 DEF FnExists
    <3>3. \A g \in FnHandlers : ~FnOwesReload(g)
      BY <1>4, <1>7, <3>1, <3>2 DEF FnOwesReload, NoFnCall, FnInv, FnWellTyped
    <3>4. entry = Scheduled /\ fnRow[f] = NoFn
      BY <1>7, <2>3, <3>3 DEF FnInv
    <3>5. \A g \in FnIds : Scheduled'[g] = Scheduled[g]
      BY <1>3, <2>3, <3>4 DEF Scheduled, NoFn
    <3> QED
      BY <3>4, <3>5 DEF Scheduled
  <2> QED
    BY <2>1, <2>2, <2>3
<1> QED
  BY <1>5, <1>6, <1>7 DEF FnInv

(* A step of the runs leaves the table, the schedule and the requests alone. *)
LEMMA FnRunsKeep ==
    ASSUME FnInv, UNCHANGED <<fnRow, entry, fnCall, writes, unreloaded>>,
           fnRun' \in [FnRuns -> FnRunRecord],
           execution' \in [FnRuns -> [org : FnOrgs, status : {"none", "success", "error"}]]
    PROVE  FnInv'
<1>1. FnWellTyped'
  BY DEF FnInv, FnWellTyped
<1>2. \A f \in FnIds : ~FnExists(f)' => fnRow'[f] = NoFn
  BY DEF FnInv, FnExists
<1>3. Scheduled' = Scheduled /\ \A h \in FnHandlers : FnOwesReload(h)' = FnOwesReload(h)
  BY DEF Scheduled, FnOwesReload, FnExists
<1> QED
  BY <1>1, <1>2, <1>3 DEF FnInv

\* Every step keeps the invariant.
LEMMA FnInvStep == FnInv /\ [FnNext]_fnVars => FnInv'
<1> SUFFICES ASSUME FnInv, [FnNext]_fnVars PROVE FnInv'
  OBVIOUS
<1> USE DEF Schedules
<1>1. ASSUME NEW h \in FnHandlers, FetchAfterUpdate(h) PROVE FnInv'
  <2>1. fnCall[h] \in [at : {"fetch", "reload"}, fn : FnIds]
    BY <1>1 DEF FetchAfterUpdate, FnInv, FnWellTyped, NoFnCall
  <2>2. /\ fnCall' \in [FnHandlers -> {NoFnCall} \cup [at : {"fetch", "reload"}, fn : FnIds]]
        /\ fnCall'[h] \in {NoFnCall, [at |-> "reload", fn |-> fnCall[h].fn]}
        /\ \A g \in FnHandlers \ {h} : fnCall'[g] = fnCall[g]
    BY <1>1, <2>1 DEF FetchAfterUpdate, FnGoes, FnInv, FnWellTyped
  <2>3. FnWellTyped'
    BY <1>1, <2>2 DEF FetchAfterUpdate, FnInv, FnWellTyped, FnExists
  <2>4. \A f \in FnIds : (~FnExists(f) => fnRow[f] = NoFn)'
    BY <1>1 DEF FetchAfterUpdate, FnInv, FnExists
  <2>5. ASSUME (~unreloaded)', \A g \in FnHandlers : ~FnOwesReload(g)' PROVE (entry = Scheduled)'
    <3>1. ~unreloaded /\ ~FnOwesReload(h)
      <4>1. ~FnGoes(h, "reload", fnCall[h].fn)
        BY <2>5 DEF FnGoes, FnOwesReload, FnInv, FnWellTyped
      <4>2. unreloaded' = (unreloaded \/ FnExists(fnCall[h].fn)) /\ ~unreloaded'
        BY <1>1, <2>5, <4>1 DEF FetchAfterUpdate
      <4>3. ~unreloaded /\ ~FnExists(fnCall[h].fn)
        BY <4>2, Zenon
      <4> QED
        BY <1>1, <4>3 DEF FetchAfterUpdate, FnOwesReload
    <3>2. \A g \in FnHandlers \ {h} : ~FnOwesReload(g)
      BY <1>1, <2>2, <2>5 DEF FetchAfterUpdate, FnOwesReload, FnExists
    <3> QED
      BY <1>1, <3>1, <3>2 DEF FetchAfterUpdate, FnInv, Scheduled
  <2> QED
    BY <2>3, <2>4, <2>5 DEF FnInv
<1>2. ASSUME NEW h \in FnHandlers, ReloadSchedule(h) PROVE FnInv'
  <2>1. /\ fnCall' \in [FnHandlers -> {NoFnCall} \cup [at : {"fetch", "reload"}, fn : FnIds]]
    BY <1>2 DEF ReloadSchedule, FnGoes, FnInv, FnWellTyped
  <2>2. Scheduled \in [FnIds -> 0..MaxWrites] /\ 0 \in 0..MaxWrites
    BY FnBounds DEF Scheduled, FnInv, FnWellTyped
  <2>3. FnWellTyped'
    <3>1. entry' \in [FnIds -> 0..MaxWrites] /\ unreloaded' \in BOOLEAN
      BY <1>2, <2>2 DEF ReloadSchedule
    <3> QED
      BY <1>2, <2>1, <3>1 DEF ReloadSchedule, FnInv, FnWellTyped
  <2>4. \A f \in FnIds : (~FnExists(f) => fnRow[f] = NoFn)'
    BY <1>2 DEF ReloadSchedule, FnInv, FnExists
  <2>5. Scheduled' = Scheduled
    BY <1>2 DEF ReloadSchedule, Scheduled
  <2> QED
    BY <1>2, <2>3, <2>4, <2>5 DEF FnInv, ReloadSchedule
<1>3. ASSUME NEW h \in FnHandlers, NEW f \in FnIds, NEW org \in FnOrgs, HandleDelete(h, f, org) PROVE FnInv'
  BY <1>3, FnWriteKeeps DEF HandleDelete
<1>4. ASSUME NEW h \in FnHandlers, NEW f \in FnIds, NEW org \in FnOrgs, NEW s \in Schedules, HandleCreate(h, f, org, s)
      PROVE FnInv'
  <2>1. CASE s = "none"
    BY <1>4, <2>1, FnWriteKeeps DEF HandleCreate
  <2>2. CASE s # "none"
    BY <1>4, <2>2, FnWriteKeeps DEF HandleCreate
  <2> QED
    BY <2>1, <2>2
<1>5. ASSUME NEW h \in FnHandlers, NEW f \in FnIds, NEW org \in FnOrgs, NEW s \in Schedules, HandleUpdate(h, f, org, s)
      PROVE FnInv'
  <2>1. writes + 1 # 0
    BY FnBounds DEF FnInv, FnWellTyped
  <2> QED
    BY <1>5, <2>1, FnWriteKeeps DEF HandleUpdate, NoFn
<1>6. ASSUME NEW r \in FnRuns, MachineEnds(r) \/ TimerFires(r) PROVE FnInv'
  <2>1. fnRun' \in [FnRuns -> FnRunRecord]
    <3>1. fnRun \in [FnRuns -> FnRunRecord]
      BY DEF FnInv, FnWellTyped
    <3>2. CASE MachineEnds(r)
      BY <3>1, <3>2 DEF MachineEnds, FnRunRecord
    <3>3. CASE TimerFires(r)
      <4> PICK m : m = IF fnRun[r].machine = "running" THEN "interrupted" ELSE fnRun[r].machine
        OBVIOUS
      <4> PICK x : x = [fnRun[r] EXCEPT !.at = "timedOut", !.machine = m]
        OBVIOUS
      <4>1. fnRun[r] \in FnRunRecord
        BY <3>1
      <4>2. m \in {"idle", "running", "interrupted", "returned", "threw"}
        BY <4>1 DEF FnRunRecord
      <4>3. x \in FnRunRecord
        BY <4>1, <4>2 DEF FnRunRecord
      <4>4. fnRun' = [fnRun EXCEPT ![r] = x]
        BY <3>1, <3>3 DEF TimerFires
      <4> QED
        BY <3>1, <4>3, <4>4
    <3> QED
      BY <1>6, <3>2, <3>3
  <2>2. UNCHANGED <<fnRow, entry, fnCall, execution, writes, unreloaded>>
    BY <1>6 DEF MachineEnds, TimerFires
  <2> QED
    BY <2>1, <2>2, FnRunsKeep DEF FnInv, FnWellTyped
<1>7. ASSUME NEW r \in FnRuns, SaveExecution(r) PROVE FnInv'
  <2>1. fnRun' \in [FnRuns -> FnRunRecord]
    <3>1. fnRun \in [FnRuns -> FnRunRecord] /\ fnRun' = [fnRun EXCEPT ![r].at = "ended"]
      BY <1>7 DEF SaveExecution, FnInv, FnWellTyped
    <3> QED
      BY <3>1 DEF FnRunRecord
  <2>2. execution' \in [FnRuns -> [org : FnOrgs, status : {"none", "success", "error"}]]
    <3>1. fnRun[r].org \in FnOrgs /\ execution \in [FnRuns -> [org : FnOrgs, status : {"none", "success", "error"}]]
      BY DEF FnInv, FnWellTyped, FnRunRecord
    <3>2. PICK outcome \in {"success", "error"} :
             execution' = execution \/ execution' = [execution EXCEPT ![r] = [org |-> fnRun[r].org, status |-> outcome]]
      BY <1>7 DEF SaveExecution
    <3> QED
      BY <3>1, <3>2
  <2> QED
    BY <1>7, <2>1, <2>2, FnRunsKeep DEF SaveExecution
<1>8. ASSUME NEW r \in FnRuns, NEW f \in FnIds, NEW org \in FnOrgs, ExecuteScheduled(r, f) \/ HandleRun(r, f, org)
      PROVE FnInv'
  <2>1. fnRun' \in [FnRuns -> FnRunRecord]
    <3>1. \E o \in FnOrgs, w \in 0..MaxWrites : RunBegins(r, f, o, w)
      <4>1. CASE ExecuteScheduled(r, f)
        <5>1. 0 \in FnOrgs /\ entry[f] \in 0..MaxWrites
          BY FnBounds DEF FnInv, FnWellTyped
        <5> QED
          BY <4>1, <5>1 DEF ExecuteScheduled
      <4>2. CASE HandleRun(r, f, org)
        <5>1. fnRow[f].write \in 0..MaxWrites
          BY DEF FnInv, FnWellTyped
        <5> QED
          BY <4>2, <5>1 DEF HandleRun
      <4> QED
        BY <1>8, <4>1, <4>2
    <3>2. PICK o \in FnOrgs, w \in 0..MaxWrites : RunBegins(r, f, o, w)
      BY <3>1
    <3> QED
      BY <3>2 DEF RunBegins, FnInv, FnWellTyped, FnRunRecord
  <2> QED
    BY <1>8, <2>1, FnRunsKeep DEF ExecuteScheduled, HandleRun, RunBegins, FnInv, FnWellTyped
<1>9. ASSUME RestartFunctions PROVE FnInv'
  <2>1. Scheduled \in [FnIds -> 0..MaxWrites] /\ 0 \in 0..MaxWrites /\ 0 \in FnOrgs
    BY FnBounds DEF Scheduled, FnInv, FnWellTyped
  <2>2. FnWellTyped'
    <3>1. fnRun' \in [FnRuns -> FnRunRecord]
      <4>1. \A r \in FnRuns : fnRun[r] \in FnRunRecord
        BY DEF FnInv, FnWellTyped
      <4>2. NoFnRun \in FnRunRecord
        BY <2>1 DEF NoFnRun, FnRunRecord
      <4>3. \A r \in FnRuns : [fnRun[r] EXCEPT !.at = "gone"] \in FnRunRecord
        BY <4>1 DEF FnRunRecord
      <4> QED
        BY <1>9, <4>1, <4>2, <4>3 DEF RestartFunctions
    <3> QED
      BY <1>9, <2>1, <3>1 DEF RestartFunctions, FnInv, FnWellTyped
  <2>3. \A f \in FnIds : (~FnExists(f) => fnRow[f] = NoFn)'
    BY <1>9 DEF RestartFunctions, FnInv, FnExists
  <2>4. Scheduled' = Scheduled
    BY <1>9 DEF RestartFunctions, Scheduled
  <2> QED
    BY <1>9, <2>2, <2>3, <2>4 DEF FnInv, RestartFunctions
<1>10. ASSUME UNCHANGED fnVars PROVE FnInv'
  BY <1>10, FnRunsKeep DEF fnVars, FnInv, FnWellTyped
<1>11. ASSUME NEW r \in FnRuns, NEW f \in FnIds, ExecuteScheduled(r, f) PROVE FnInv'
  BY <1>8, <1>11, FnBounds
<1> QED
  BY <1>1, <1>2, <1>3, <1>4, <1>5, <1>6, <1>7, <1>8, <1>9, <1>10, <1>11 DEF FnNext

\* However writes and reloads of several requests interleave, once every writer
\* has reloaded and none has failed, cron holds exactly the scheduled functions
\* of the table, each in its latest version (components/functions/functions.go:
\* reload of the schedules; handlers.go).
THEOREM FnSchedule == FnSpec => [](FnTypeOK /\ ScheduleFollowsTable)
<1>1. FnInv => FnTypeOK
  BY DEF FnInv, FnWellTyped, FnTypeOK, FnRunRecord, NoFnCall
<1>2. FnInv => ScheduleFollowsTable
  BY DEF FnInv, ScheduleFollowsTable, FnOwesReload, NoFnCall
<1> QED
  BY <1>1, <1>2, FnInvInit, FnInvStep, PTL DEF FnSpec

-----------------------------------------------------------------------------
(* Alerts and incidents.                                                   *)

\* A rule, as a row and as the checker's copy.
RuleSet == [present : BOOLEAN, enabled : BOOLEAN, known : BOOLEAN, duration : Nat]
\* An incident: its rule, whether it is open and triggered, and how long it has
\* lasted.
IncidentSet == [rule : Rules \cup {""}, open : BOOLEAN, triggered : BOOLEAN, lasted : Nat, duration : Nat]
\* The checker and the incident it works on.
CheckerSet == [at : {"idle", "rules", "emit", "mark"}, incident : 0 .. MaxIncidents]

\* A breach began after the last check that did not see it, and every such check is
\* over when a new one looks.
BreachOK(r) ==
    /\ clearAt[r] <= ticks /\ breachStart[r] <= ticks
    /\ breachStart[r] # 0 => clearAt[r] < breachStart[r]
    /\ checker.at # "idle" => clearAt[r] < ticks

\* The life of an incident: opened in order, announced, then marked; one that was
\* announced and is not marked is being marked, or its mark was lost.
IncidentOK(i) ==
    /\ i > opened => announced[i] = 0 /\ ~incident[i].open /\ ~incident[i].triggered
    /\ incident[i].open => incident[i].lasted > incident[i].duration
    /\ incident[i].triggered => announced[i] > 0
    /\ announced[i] > 0 /\ ~incident[i].triggered =>
         i \in unmarked \/ (checker.at = "mark" /\ checker.incident = i)
    /\ announced[i] > 1 => i \in unmarked

\* What the checker is about to announce or to mark.
CheckerOK ==
    /\ checker.at \in {"emit", "mark"} => checker.incident \in 1 .. opened
    /\ checker.at = "emit" => ~incident[checker.incident].triggered
    /\ checker.at = "mark" => announced[checker.incident] > 0

\* A rule has one open incident, unless the checker could not read them.
OneOpen ==
    \A i \in Incidents : \A j \in Incidents \ {i} :
        incident[i].open /\ incident[j].open /\ incident[i].rule = incident[j].rule =>
            incident[i].rule \in blind

\* The types, with the numbers that TLC bounds.
AlertTypes ==
    /\ rule \in [Rules -> RuleSet] /\ copied \in [Rules -> RuleSet]
    /\ incident \in [Incidents -> IncidentSet]
    /\ opened \in 0 .. MaxIncidents /\ ticks \in 0 .. MaxChecks
    /\ checker \in CheckerSet
    /\ breachStart \in [Rules -> 0 .. MaxChecks] /\ clearAt \in [Rules -> 0 .. MaxChecks]
    /\ investigating \cup delivering \cup unmarked \subseteq Incidents
    /\ active \cup blind \subseteq Rules
    /\ investigations \in Nat /\ announced \in [Incidents -> Nat]

\* The inductive invariant.
AlertInv ==
    /\ AlertTypes /\ CheckerOK /\ OneOpen
    /\ \A r \in Rules : BreachOK(r)
    /\ \A i \in Incidents : IncidentOK(i)

\* The limits are numbers.
LEMMA AlertNats ==
    Durations \subseteq Nat /\ MaxIncidents \in Nat /\ MaxChecks \in Nat /\ KeptInvestigations \in Nat
  BY AlertBounds

\* The invariant gives the property.
LEMMA AlertInvAlarms == AlertInv => AlertTypeOK /\ AlarmPerIncident
  <1> SUFFICES ASSUME AlertInv PROVE AlertTypeOK /\ AlarmPerIncident
      OBVIOUS
  <1>1. AlertTypeOK
        BY DEF AlertInv, AlertTypes, AlertTypeOK, RuleSet, IncidentSet, CheckerSet
  <1>2. AlarmPerIncident
        BY DEF AlertInv, AlarmPerIncident, IncidentOK, OneOpen
  <1> QED BY <1>1, <1>2

\* The rule that is not there.
LEMMA NoRuleTyped == NoRule \in RuleSet /\ ~NoRule.known /\ ~NoRule.present
  BY DEF NoRule, RuleSet

\* The invariant holds at the start.
LEMMA AlertInvInit == AlertInit => AlertInv
  <1> SUFFICES ASSUME AlertInit PROVE AlertInv
      OBVIOUS
  <1>1. AlertTypes
    <2>1. NoIncident \in IncidentSet /\ [at |-> "idle", incident |-> 0] \in CheckerSet
          BY AlertNats DEF NoIncident, IncidentSet, CheckerSet
    <2> QED BY <2>1, NoRuleTyped, AlertNats DEF AlertInit, AlertTypes
  <1>2. \A r \in Rules : BreachOK(r)
        BY DEF AlertInit, BreachOK
  <1>3. \A i \in Incidents : IncidentOK(i)
    <2>1. ~NoIncident.open /\ ~NoIncident.triggered
          BY DEF NoIncident
    <2>2. \A i \in Incidents : incident[i] = NoIncident /\ announced[i] = 0
          BY DEF AlertInit
    <2> QED BY <2>1, <2>2 DEF IncidentOK
  <1>4. CheckerOK /\ OneOpen
        BY DEF AlertInit, CheckerOK, OneOpen, NoIncident
  <1> QED BY <1>1, <1>2, <1>3, <1>4 DEF AlertInv

\* Rules are edited and the hooks run beside the checker.
LEMMA AlertBeside ==
    ASSUME AlertInv, AlertTypes', UNCHANGED <<incidentVars, checkVars>>
    PROVE  AlertInv'
  <1>1. CheckerOK' /\ OneOpen'
        BY DEF AlertInv, CheckerOK, OneOpen, incidentVars, checkVars
  <1>2. ASSUME NEW r \in Rules PROVE BreachOK(r)'
        BY DEF AlertInv, BreachOK, checkVars
  <1>3. ASSUME NEW i \in Incidents PROVE IncidentOK(i)'
        BY DEF AlertInv, IncidentOK, incidentVars, checkVars
  <1> QED BY <1>1, <1>2, <1>3 DEF AlertInv

\* A rule created, changed or deleted leaves the incidents alone.
LEMMA AlertEdits ==
    ASSUME AlertInv, NEW r \in Rules, HandleAlertCreate(r) \/ HandleAlertUpdate(r) \/ HandleAlertDelete(r)
    PROVE  AlertInv'
  <1>1. rule \in [Rules -> RuleSet] /\ rule[r] \in RuleSet
        BY DEF AlertInv, AlertTypes
  <1>2. rule' \in [Rules -> RuleSet]
    <2>1. CASE HandleAlertCreate(r)
      <3>1. PICK known \in BOOLEAN, enabled \in BOOLEAN, d \in Durations :
              rule' = [rule EXCEPT ![r] = [present |-> TRUE, enabled |-> enabled, known |-> known, duration |-> d]]
            BY <2>1 DEF HandleAlertCreate
      <3>2. [present |-> TRUE, enabled |-> enabled, known |-> known, duration |-> d] \in RuleSet
            BY AlertNats DEF RuleSet
      <3> QED BY <1>1, <3>1, <3>2
    <2>2. CASE HandleAlertUpdate(r)
      <3>1. PICK known \in BOOLEAN, enabled \in BOOLEAN :
              rule' = [rule EXCEPT ![r].known = known, ![r].enabled = enabled]
            BY <2>2 DEF HandleAlertUpdate
      <3> QED BY <1>1, <3>1 DEF RuleSet
    <2>3. CASE HandleAlertDelete(r)
          BY <1>1, <2>3 DEF HandleAlertDelete, RuleSet
    <2> QED BY <2>1, <2>2, <2>3
  <1>3. UNCHANGED <<incidentVars, checkVars, hookVars>>
        BY DEF HandleAlertCreate, HandleAlertUpdate, HandleAlertDelete
  <1>4. AlertTypes'
        BY <1>2, <1>3 DEF AlertInv, AlertTypes, incidentVars, checkVars, hookVars
  <1> QED BY <1>3, <1>4, AlertBeside

\* The investigation and the delivery follow the announcement.
LEMMA AlertHooks ==
    ASSUME AlertInv, NEW i \in Incidents, OnAlertTriggered(i) \/ DeliverAlert(i)
    PROVE  AlertInv'
  <1>1. investigations' \in Nat
        BY AlertNats DEF OnAlertTriggered, DeliverAlert, AlertInv, AlertTypes
  <1>2. /\ investigating' \subseteq investigating /\ delivering' \subseteq delivering
        /\ UNCHANGED <<ruleVars, incidentVars, checkVars>>
        BY DEF OnAlertTriggered, DeliverAlert
  <1>3. AlertTypes'
        BY <1>1, <1>2 DEF AlertInv, AlertTypes, incidentVars, checkVars, ruleVars
  <1> QED BY <1>2, <1>3, AlertBeside

\* The checker moves on without touching an incident.
LEMMA AlertChecks ==
    ASSUME AlertInv, AlertTypes', UNCHANGED incidentVars,
           checker'.at \in {"emit", "mark"} =>
             \E i \in 1 .. opened : checker' = [at |-> "emit", incident |-> i] /\ ~incident[i].triggered,
           checker.at # "mark",
           \A r \in Rules : BreachOK(r)'
    PROVE  AlertInv'
  <1>1. CheckerOK'
        BY DEF CheckerOK, incidentVars
  <1>2. OneOpen'
        BY DEF AlertInv, OneOpen, incidentVars
  <1>3. ASSUME NEW i \in Incidents PROVE IncidentOK(i)'
        BY DEF AlertInv, IncidentOK, incidentVars
  <1> QED BY <1>1, <1>2, <1>3 DEF AlertInv

\* A check begins with a copy of the rules.
LEMMA AlertBegins ==
    ASSUME AlertInv, CheckBegins
    PROVE  AlertInv'
  <1>0. checker \in CheckerSet /\ ticks \in Nat
        BY AlertNats DEF AlertInv, AlertTypes
  <1>1. checker' \in CheckerSet /\ checker'.at \in {"idle", "rules"} /\ checker.at = "idle"
        BY <1>0 DEF CheckBegins, CheckerSet
  <1>2. ticks' \in 0 .. MaxChecks /\ ticks' = ticks + 1
        BY AlertNats DEF CheckBegins, AlertInv, AlertTypes
  <1>3. copied' \in [Rules -> RuleSet]
        BY NoRuleTyped DEF CheckBegins, AlertInv, AlertTypes
  <1>4. AlertTypes'
        BY <1>1, <1>2, <1>3 DEF CheckBegins, AlertInv, AlertTypes, ruleVars, incidentVars, hookVars
  <1>5. ASSUME NEW r \in Rules PROVE BreachOK(r)'
    <2>1. clearAt[r] \in Nat /\ breachStart[r] \in Nat /\ BreachOK(r)
          BY AlertNats DEF AlertInv, AlertTypes
    <2>2. UNCHANGED <<clearAt, breachStart>>
          BY DEF CheckBegins
    <2> QED BY <1>0, <1>2, <2>1, <2>2 DEF BreachOK
  <1> QED BY <1>1, <1>4, <1>5, AlertChecks DEF CheckBegins

\* A check ends: what it did not see in breach is clear.
LEMMA AlertEnds ==
    ASSUME AlertInv, CheckEnds
    PROVE  AlertInv'
  <1>0. checker \in CheckerSet /\ ticks \in 0 .. MaxChecks /\ ticks \in Nat
        BY AlertNats DEF AlertInv, AlertTypes
  <1>1. checker' \in CheckerSet /\ checker'.at = "idle" /\ checker.at = "rules"
        BY <1>0 DEF CheckEnds, CheckerSet
  <1>2. breachStart' \in [Rules -> 0 .. MaxChecks] /\ clearAt' \in [Rules -> 0 .. MaxChecks]
        BY <1>0, AlertNats DEF CheckEnds, AlertInv, AlertTypes
  <1>3. AlertTypes'
        BY <1>1, <1>2 DEF CheckEnds, AlertInv, AlertTypes, ruleVars, incidentVars, hookVars
  <1>4. ASSUME NEW r \in Rules PROVE BreachOK(r)'
    <2>1. clearAt[r] \in Nat /\ breachStart[r] \in Nat /\ BreachOK(r)
          BY AlertNats DEF AlertInv, AlertTypes
    <2>2. /\ ticks' = ticks
          /\ \/ breachStart'[r] = breachStart[r] /\ clearAt'[r] = clearAt[r]
             \/ breachStart'[r] = 0 /\ clearAt'[r] = ticks
          BY DEF CheckEnds
    <2> QED BY <1>0, <1>1, <2>1, <2>2 DEF BreachOK
  <1> QED BY <1>1, <1>3, <1>4, AlertChecks DEF CheckEnds

\* What a look at one rule does to the memory of its breach.
LEMMA AlertLooks ==
    ASSUME AlertInv, NEW r \in Rules, checker.at = "rules",
           \/ breachStart' = [breachStart EXCEPT ![r] = 0]
           \/ breachStart' = [breachStart EXCEPT ![r] = Since(r)],
           Looked(r), UNCHANGED <<ticks, clearAt>>
    PROVE  /\ breachStart' \in [Rules -> 0 .. MaxChecks]
           /\ copied' \in [Rules -> RuleSet]
           /\ clearAt[r] < Since(r) /\ Since(r) \in 0 .. MaxChecks
           /\ \A s \in Rules : BreachOK(s)'
  <1>0. ticks \in 0 .. MaxChecks /\ ticks \in Nat
        BY AlertNats DEF AlertInv, AlertTypes
  <1>1. \A s \in Rules : clearAt[s] \in Nat /\ breachStart[s] \in Nat /\ BreachOK(s) /\ breachStart[s] \in 0 .. MaxChecks
        BY AlertNats DEF AlertInv, AlertTypes
  <1>2. Since(r) \in 0 .. MaxChecks /\ Since(r) <= ticks /\ Since(r) \in Nat
        BY <1>0, <1>1, AlertNats DEF Since, BreachOK
  <1>3. clearAt[r] < Since(r)
        BY <1>0, <1>1 DEF Since, BreachOK
  <1>4. breachStart \in [Rules -> 0 .. MaxChecks]
        BY DEF AlertInv, AlertTypes
  <1>5. /\ breachStart' \in [Rules -> 0 .. MaxChecks]
        /\ breachStart'[r] \in {0, Since(r)} /\ \A s \in Rules \ {r} : breachStart'[s] = breachStart[s]
    <2>1. 0 \in 0 .. MaxChecks
          BY AlertNats
    <2>2. CASE breachStart' = [breachStart EXCEPT ![r] = 0]
          BY <1>4, <2>1, <2>2
    <2>3. CASE breachStart' = [breachStart EXCEPT ![r] = Since(r)]
          BY <1>2, <1>4, <2>3
    <2> QED BY <2>2, <2>3
  <1>6. copied' \in [Rules -> RuleSet]
        BY NoRuleTyped DEF Looked, AlertInv, AlertTypes
  <1>7. ASSUME NEW s \in Rules PROVE BreachOK(s)'
    <2>1. clearAt[s] < ticks
          BY <1>1 DEF BreachOK
    <2>2. CASE s = r
          BY <1>0, <1>1, <1>2, <1>3, <1>5, <2>1, <2>2 DEF BreachOK
    <2>3. CASE s # r
          BY <1>1, <1>5, <2>1, <2>3 DEF BreachOK
    <2> QED BY <2>2, <2>3
  <1> QED BY <1>2, <1>3, <1>5, <1>6, <1>7

\* A rule that is skipped, or whose breach goes on, or whose incident is found.
LEMMA AlertPasses ==
    ASSUME AlertInv, NEW r \in Rules, SkipRule(r) \/ BreachGoesOn(r) \/ GetIncident(r)
    PROVE  AlertInv'
  <1>1. /\ checker.at = "rules" /\ Looked(r) /\ UNCHANGED <<ticks, clearAt>>
        /\ \/ breachStart' = [breachStart EXCEPT ![r] = 0]
           \/ breachStart' = [breachStart EXCEPT ![r] = Since(r)]
        BY DEF SkipRule, BreachGoesOn, GetIncident, Breached
  <1>2. /\ breachStart' \in [Rules -> 0 .. MaxChecks] /\ copied' \in [Rules -> RuleSet]
        /\ \A s \in Rules : BreachOK(s)'
        BY <1>1, AlertLooks
  <1>3. /\ UNCHANGED <<ruleVars, incidentVars, hookVars>>
        /\ active' \subseteq active \cup {r}
        BY DEF SkipRule, BreachGoesOn, GetIncident, Breached
  <1>4. \/ checker' = checker
        \/ \E i \in 1 .. opened : checker' = [at |-> "emit", incident |-> i] /\ ~incident[i].triggered
    <2>1. CASE GetIncident(r)
      <3>1. PICK i \in OpenIncidents(r) : ~incident[i].triggered /\ checker' = [at |-> "emit", incident |-> i]
            BY <2>1 DEF GetIncident
      <3>2. i \in Incidents /\ incident[i].open /\ IncidentOK(i)
            BY DEF AlertInv, OpenIncidents
      <3>3. i \in 1 .. opened
            BY <3>2, AlertNats DEF IncidentOK, Incidents, AlertInv, AlertTypes
      <3> QED BY <3>1, <3>3
    <2>2. CASE SkipRule(r) \/ BreachGoesOn(r)
          BY <2>2 DEF SkipRule, BreachGoesOn
    <2> QED BY <2>1, <2>2
  <1>5. checker' \in CheckerSet
    <2>1. checker \in CheckerSet /\ opened \in 0 .. MaxIncidents
          BY DEF AlertInv, AlertTypes
    <2>2. ASSUME NEW i \in 1 .. opened PROVE [at |-> "emit", incident |-> i] \in CheckerSet
          BY <2>1, AlertNats DEF CheckerSet
    <2> QED BY <1>4, <2>1, <2>2
  <1>6. AlertTypes'
        BY <1>1, <1>2, <1>3, <1>5 DEF AlertInv, AlertTypes, ruleVars, incidentVars, hookVars
  <1> QED BY <1>1, <1>2, <1>3, <1>4, <1>6, AlertChecks

\* A rule that holds resolves its incident.
LEMMA AlertResolves ==
    ASSUME AlertInv, NEW r \in Rules, RuleHolds(r)
    PROVE  AlertInv'
  <1>1. /\ checker.at = "rules" /\ Looked(r) /\ UNCHANGED <<ticks, clearAt, checker>>
        /\ breachStart' = [breachStart EXCEPT ![r] = 0]
        BY DEF RuleHolds
  <1>2. /\ breachStart' \in [Rules -> 0 .. MaxChecks] /\ copied' \in [Rules -> RuleSet]
        /\ \A s \in Rules : BreachOK(s)'
        BY <1>1, AlertLooks
  <1>3. /\ UNCHANGED <<ruleVars, opened, announced, unmarked, blind, hookVars, active>>
        BY DEF RuleHolds
  <1>4. incident \in [Incidents -> IncidentSet]
        BY DEF AlertInv, AlertTypes
  <1>5. /\ incident' \in [Incidents -> IncidentSet]
        /\ \A i \in Incidents : /\ incident'[i].rule = incident[i].rule
                                /\ incident'[i].open => incident[i].open
                                /\ incident'[i].triggered <=> incident[i].triggered
                                /\ incident'[i].lasted = incident[i].lasted
                                /\ incident'[i].duration = incident[i].duration
    <2>1. CASE UNCHANGED incident
          BY <1>4, <2>1
    <2>2. CASE incident' = [i \in Incidents |-> IF incident[i].rule = r THEN [incident[i] EXCEPT !.open = FALSE]
                                                                       ELSE incident[i]]
      <3>1. ASSUME NEW i \in Incidents, NEW o, o = [incident[i] EXCEPT !.open = FALSE]
            PROVE  /\ o \in IncidentSet /\ o.rule = incident[i].rule /\ ~o.open
                   /\ o.triggered = incident[i].triggered
                   /\ o.lasted = incident[i].lasted /\ o.duration = incident[i].duration
            BY <1>4, <3>1 DEF IncidentSet
      <3>2. \A i \in Incidents : incident'[i] = incident[i] \/ incident'[i] = [incident[i] EXCEPT !.open = FALSE]
            BY <2>2
      <3>3. \A i \in Incidents : incident'[i] \in IncidentSet
            BY <1>4, <3>1, <3>2
      <3>4. incident' \in [Incidents -> IncidentSet]
            BY <2>2, <3>3
      <3> QED BY <3>1, <3>2, <3>4
    <2> QED BY <2>1, <2>2 DEF RuleHolds
  <1>6. AlertTypes'
        BY <1>1, <1>2, <1>3, <1>5 DEF AlertInv, AlertTypes, ruleVars, hookVars
  <1>7. CheckerOK'
        BY <1>1 DEF CheckerOK
  <1>8. OneOpen'
        BY <1>3, <1>5 DEF AlertInv, OneOpen
  <1>9. ASSUME NEW i \in Incidents PROVE IncidentOK(i)'
        BY <1>1, <1>3, <1>5 DEF AlertInv, IncidentOK
  <1> QED BY <1>2, <1>6, <1>7, <1>8, <1>9 DEF AlertInv

\* A rule in breach opens an incident when it has none.
LEMMA AlertOpens ==
    ASSUME AlertInv, NEW r \in Rules, OpenIncident(r)
    PROVE  AlertInv'
  <1>1. /\ checker.at = "rules" /\ Looked(r) /\ UNCHANGED <<ticks, clearAt>>
        /\ breachStart' = [breachStart EXCEPT ![r] = Since(r)]
        BY DEF OpenIncident, Breached
  <1>2. /\ breachStart' \in [Rules -> 0 .. MaxChecks] /\ copied' \in [Rules -> RuleSet]
        /\ \A s \in Rules : BreachOK(s)'
        /\ clearAt[r] < Since(r) /\ Since(r) \in 0 .. MaxChecks
        BY <1>1, AlertLooks
  <1>3. /\ UNCHANGED <<ruleVars, hookVars, announced, unmarked>>
        /\ active' = active \cup {r}
        /\ blind \subseteq blind' /\ blind' \subseteq blind \cup {r}
        /\ OpenIncidents(r) # {} => r \in blind'
        BY DEF OpenIncident, Breached
  <1>4. /\ opened \in 0 .. MaxIncidents /\ MaxIncidents \in Nat /\ opened \in Nat
        /\ incident \in [Incidents -> IncidentSet] /\ checker \in CheckerSet
        BY AlertNats DEF AlertInv, AlertTypes
  <1>5. CASE UNCHANGED <<opened, incident, checker>>
    <2>1. AlertTypes'
          BY <1>1, <1>2, <1>3, <1>5 DEF AlertInv, AlertTypes, ruleVars, hookVars
    <2>2. CheckerOK'
          BY <1>3, <1>5 DEF AlertInv, CheckerOK
    <2>3. OneOpen'
          BY <1>3, <1>5 DEF AlertInv, OneOpen
    <2>4. \A i \in Incidents : IncidentOK(i)'
          BY <1>3, <1>5 DEF AlertInv, IncidentOK
    <2> QED BY <1>2, <2>1, <2>2, <2>3, <2>4 DEF AlertInv
  <1>6. CASE ~UNCHANGED <<opened, incident, checker>>
    <2> DEFINE n == opened + 1
               o == [rule |-> r, open |-> TRUE, triggered |-> FALSE,
                     lasted |-> ticks - clearAt[r], duration |-> copied[r].duration]
    <2>1. /\ opened < MaxIncidents /\ opened' = n /\ incident' = [incident EXCEPT ![n] = o]
          /\ checker' = [at |-> "emit", incident |-> n]
          BY <1>6 DEF OpenIncident
    <2>2. n \in Incidents /\ n \in 1 .. n /\ n > opened /\ n \in 0 .. MaxIncidents
          BY <1>4, <2>1 DEF Incidents
    <2>3. /\ ticks \in Nat /\ clearAt[r] \in Nat /\ Since(r) \in Nat /\ clearAt[r] < ticks
          /\ copied[r].duration \in Nat
      <3>1. copied[r] \in RuleSet
            BY DEF AlertInv, AlertTypes
      <3>2. copied[r].duration \in Nat
            BY <3>1 DEF RuleSet
      <3>3. ticks \in Nat /\ clearAt[r] \in Nat /\ Since(r) \in Nat
            BY <1>2, AlertNats DEF AlertInv, AlertTypes
      <3>4. clearAt[r] < ticks
            BY <1>1 DEF AlertInv, BreachOK
      <3> QED BY <3>2, <3>3, <3>4
    <2>4. /\ o \in IncidentSet /\ o.rule = r /\ o.open /\ ~o.triggered
          /\ o.lasted = ticks - clearAt[r] /\ o.duration = copied[r].duration
      <3>1. ticks - clearAt[r] \in Nat
            BY <2>3
      <3> QED BY <2>3, <3>1 DEF IncidentSet
    <2>5. ticks - Since(r) >= copied[r].duration
          BY DEF OpenIncident, Due
    <2>6. o.lasted > o.duration
          BY <1>2, <2>3, <2>4, <2>5
    <2>7. checker'.at = "emit" /\ checker'.incident = n /\ checker' \in CheckerSet
          BY <2>1, <2>2 DEF CheckerSet
    <2> HIDE DEF o
    <2>8. /\ incident' \in [Incidents -> IncidentSet] /\ incident'[n] = o
          /\ \A i \in Incidents \ {n} : incident'[i] = incident[i]
          BY <1>4, <2>1, <2>2, <2>4
    <2>9. AlertTypes'
          BY <1>1, <1>2, <1>3, <2>1, <2>2, <2>7, <2>8
             DEF AlertInv, AlertTypes, ruleVars, hookVars
    <2>10. CheckerOK'
          BY <2>1, <2>2, <2>4, <2>7, <2>8 DEF CheckerOK
    <2>11. ASSUME NEW i \in Incidents PROVE IncidentOK(i)'
      <3>0. IncidentOK(i) /\ i \in Nat
            BY DEF AlertInv, Incidents
      <3>1. CASE i = n
        <4>1. announced[i] = 0
              BY <2>2, <3>0, <3>1 DEF IncidentOK
        <4> QED BY <1>3, <2>1, <2>2, <2>4, <2>6, <2>8, <3>1, <4>1 DEF IncidentOK
      <3>2. CASE i # n
        <4>1. i > n => i > opened
              BY <1>4, <3>0
        <4> QED BY <1>1, <1>3, <2>1, <2>8, <3>0, <3>2, <4>1 DEF IncidentOK
      <3> QED BY <3>1, <3>2
    <2>12. ASSUME NEW i \in Incidents, NEW j \in Incidents \ {i},
                  incident'[i].open, incident'[j].open, incident'[i].rule = incident'[j].rule
           PROVE  incident'[i].rule \in blind'
      <3>1. CASE i = n
            BY <1>3, <2>4, <2>8, <2>12, <3>1 DEF OpenIncidents
      <3>2. CASE j = n
            BY <1>3, <2>4, <2>8, <2>12, <3>2 DEF OpenIncidents
      <3>3. CASE i # n /\ j # n
            BY <1>3, <2>8, <2>12, <3>3 DEF AlertInv, OneOpen
      <3> QED BY <3>1, <3>2, <3>3
    <2>13. OneOpen'
           BY <2>12 DEF OneOpen
    <2> QED BY <1>2, <2>9, <2>10, <2>11, <2>13 DEF AlertInv
  <1> QED BY <1>5, <1>6

\* An incident that has lasted is announced.
LEMMA AlertEmits ==
    ASSUME AlertInv, EmitAlertTriggered
    PROVE  AlertInv'
  <1> DEFINE n == checker.incident
  <1>1. /\ checker \in CheckerSet /\ opened \in 0 .. MaxIncidents /\ MaxIncidents \in Nat
        /\ announced \in [Incidents -> Nat] /\ CheckerOK
        BY AlertNats DEF AlertInv, AlertTypes
  <1>2. checker.at = "emit" /\ n \in 1 .. opened /\ n \in Incidents /\ ~incident[n].triggered
        BY <1>1 DEF EmitAlertTriggered, CheckerOK, Incidents
  <1>3. checker' \in CheckerSet /\ checker'.at = "mark" /\ checker'.incident = n
        BY <1>1 DEF EmitAlertTriggered, CheckerSet
  <1>4. /\ announced' \in [Incidents -> Nat] /\ announced'[n] = announced[n] + 1
        /\ \A i \in Incidents \ {n} : announced'[i] = announced[i]
        BY <1>1, <1>2 DEF EmitAlertTriggered
  <1>5. /\ investigating' = investigating \cup {n} /\ delivering' = delivering \cup {n}
        /\ UNCHANGED <<ruleVars, incident, opened, unmarked, blind, investigations, copied, breachStart, active,
                       ticks, clearAt>>
        BY DEF EmitAlertTriggered
  <1> HIDE DEF n
  <1>6. AlertTypes'
        BY <1>2, <1>3, <1>4, <1>5 DEF AlertInv, AlertTypes, ruleVars
  <1>7. CheckerOK'
        BY <1>1, <1>2, <1>3, <1>4, <1>5 DEF CheckerOK
  <1>8. OneOpen'
        BY <1>5 DEF AlertInv, OneOpen
  <1>9. ASSUME NEW r \in Rules PROVE BreachOK(r)'
        BY <1>2, <1>3, <1>5 DEF AlertInv, BreachOK
  <1>10. ASSUME NEW i \in Incidents PROVE IncidentOK(i)'
    <2>0. IncidentOK(i) /\ announced[i] \in Nat /\ i \in Nat
          BY <1>1 DEF AlertInv, Incidents
    <2>1. CASE i = n
      <3>1. ~(i > opened)
            BY <1>1, <1>2, <2>0, <2>1
      <3>2. announced[i] > 0 => i \in unmarked
            BY <1>2, <2>0, <2>1 DEF IncidentOK
      <3>3. announced'[i] > 1 => announced[i] > 0
            BY <1>4, <2>0, <2>1
      <3>4. announced'[i] > 0
            BY <1>4, <2>0, <2>1
      <3> QED BY <1>3, <1>5, <2>0, <2>1, <3>1, <3>2, <3>3, <3>4 DEF IncidentOK
    <2>2. CASE i # n
          BY <1>2, <1>3, <1>4, <1>5, <2>0, <2>2 DEF IncidentOK
    <2> QED BY <2>1, <2>2
  <1> QED BY <1>6, <1>7, <1>8, <1>9, <1>10 DEF AlertInv

\* It is marked as announced, or the mark fails.
LEMMA AlertMarks ==
    ASSUME AlertInv, MarkIncidentTriggered
    PROVE  AlertInv'
  <1> DEFINE n == checker.incident
  <1>1. /\ checker \in CheckerSet /\ opened \in 0 .. MaxIncidents /\ MaxIncidents \in Nat
        /\ incident \in [Incidents -> IncidentSet] /\ CheckerOK
        BY AlertNats DEF AlertInv, AlertTypes
  <1>2. checker.at = "mark" /\ n \in 1 .. opened /\ n \in Incidents /\ announced[n] > 0
        BY <1>1 DEF MarkIncidentTriggered, CheckerOK, Incidents
  <1>3. checker' \in CheckerSet /\ checker'.at = "rules"
        BY <1>1 DEF MarkIncidentTriggered, CheckerSet
  <1>4. UNCHANGED <<ruleVars, opened, announced, blind, hookVars, copied, breachStart, active, ticks, clearAt>>
        BY DEF MarkIncidentTriggered
  <1>5. /\ incident' \in [Incidents -> IncidentSet]
        /\ \A i \in Incidents : /\ incident'[i].rule = incident[i].rule
                                /\ incident'[i].open <=> incident[i].open
                                /\ incident'[i].lasted = incident[i].lasted
                                /\ incident'[i].duration = incident[i].duration
                                /\ i # n => incident'[i] = incident[i]
        /\ unmarked \subseteq unmarked' /\ unmarked' \subseteq unmarked \cup {n}
        /\ incident'[n].triggered \/ (n \in unmarked' /\ incident' = incident)
    <2>1. CASE incident' = [incident EXCEPT ![n].triggered = TRUE] /\ UNCHANGED unmarked
      <3> DEFINE o == [incident[n] EXCEPT !.triggered = TRUE]
      <3>1. /\ o \in IncidentSet /\ o.rule = incident[n].rule /\ o.open = incident[n].open /\ o.triggered
            /\ o.lasted = incident[n].lasted /\ o.duration = incident[n].duration
            BY <1>1, <1>2 DEF IncidentSet
      <3>2. incident' = [incident EXCEPT ![n] = o]
            BY <2>1
      <3> HIDE DEF o, n
      <3>3. incident'[n] = o /\ \A i \in Incidents \ {n} : incident'[i] = incident[i]
            BY <1>1, <1>2, <3>2
      <3>4. incident' \in [Incidents -> IncidentSet]
            BY <1>1, <1>2, <3>1, <3>2
      <3> QED BY <2>1, <3>1, <3>3, <3>4
    <2>2. CASE unmarked' = unmarked \cup {n} /\ UNCHANGED incident
          BY <1>1, <2>2
    <2> QED BY <2>1, <2>2 DEF MarkIncidentTriggered
  <1> HIDE DEF n
  <1>6. AlertTypes'
        BY <1>2, <1>3, <1>4, <1>5 DEF AlertInv, AlertTypes, ruleVars, hookVars
  <1>7. CheckerOK'
        BY <1>3 DEF CheckerOK
  <1>8. OneOpen'
        BY <1>4, <1>5 DEF AlertInv, OneOpen
  <1>9. ASSUME NEW r \in Rules PROVE BreachOK(r)'
        BY <1>2, <1>3, <1>4 DEF AlertInv, BreachOK
  <1>10. ASSUME NEW i \in Incidents PROVE IncidentOK(i)'
    <2>0. IncidentOK(i)
          BY DEF AlertInv
    <2>1. CASE i = n
      <3>1. ~(i > opened)
            BY <1>1, <1>2, <2>1
      <3> QED BY <1>2, <1>3, <1>4, <1>5, <2>0, <2>1, <3>1 DEF IncidentOK
    <2>2. CASE i # n
          BY <1>3, <1>4, <1>5, <2>0, <2>2 DEF IncidentOK, n
    <2> QED BY <2>1, <2>2
  <1> QED BY <1>6, <1>7, <1>8, <1>9, <1>10 DEF AlertInv

\* A restart forgets the breaches and the announcements under way.
LEMMA AlertRestarts ==
    ASSUME AlertInv, RestartMonitoring
    PROVE  AlertInv'
  <1>1. checker' \in CheckerSet /\ checker'.at = "idle"
    <2>1. 0 \in 0 .. MaxIncidents
          BY AlertNats
    <2> QED BY <2>1 DEF RestartMonitoring, CheckerSet
  <1>2. copied' \in [Rules -> RuleSet] /\ breachStart' = [r \in Rules |-> 0]
        BY NoRuleTyped DEF RestartMonitoring
  <1>3. checker.at = "mark" => checker.incident \in Incidents
        BY AlertNats DEF AlertInv, AlertTypes, CheckerOK, Incidents
  <1>4. /\ unmarked \subseteq unmarked' /\ unmarked' \subseteq Incidents
        /\ checker.at = "mark" => checker.incident \in unmarked'
        /\ active' = {} /\ investigating' = {} /\ delivering' = {}
        /\ UNCHANGED <<ruleVars, incident, opened, announced, blind, investigations, ticks, clearAt>>
        BY <1>3 DEF RestartMonitoring, AlertInv, AlertTypes
  <1>5. breachStart' \in [Rules -> 0 .. MaxChecks]
        BY <1>2, AlertNats
  <1>6. AlertTypes'
        BY <1>1, <1>2, <1>4, <1>5 DEF AlertInv, AlertTypes, ruleVars
  <1>7. CheckerOK' /\ OneOpen'
        BY <1>1, <1>4 DEF AlertInv, CheckerOK, OneOpen
  <1>8. ASSUME NEW r \in Rules PROVE BreachOK(r)'
        BY <1>1, <1>2, <1>4, AlertNats DEF AlertInv, AlertTypes, BreachOK
  <1>9. ASSUME NEW i \in Incidents PROVE IncidentOK(i)'
        BY <1>1, <1>4 DEF AlertInv, IncidentOK
  <1> QED BY <1>6, <1>7, <1>8, <1>9 DEF AlertInv

\* Every step keeps the invariant.
LEMMA AlertInvStep == AlertInv /\ [AlertNext]_alertVars => AlertInv'
  <1> SUFFICES ASSUME AlertInv, [AlertNext]_alertVars PROVE AlertInv'
      OBVIOUS
  <1>1. CASE UNCHANGED alertVars
    <2>1. AlertTypes'
          BY <1>1 DEF alertVars, ruleVars, incidentVars, checkVars, hookVars, AlertInv, AlertTypes
    <2> QED BY <1>1, <2>1, AlertBeside DEF alertVars
  <1>2. ASSUME NEW r \in Rules,
               \/ HandleAlertCreate(r) \/ HandleAlertUpdate(r) \/ HandleAlertDelete(r)
               \/ SkipRule(r) \/ RuleHolds(r) \/ BreachGoesOn(r) \/ GetIncident(r) \/ OpenIncident(r)
        PROVE  AlertInv'
        BY <1>2, AlertEdits, AlertPasses, AlertResolves, AlertOpens
  <1>3. CASE CheckBegins \/ EmitAlertTriggered \/ MarkIncidentTriggered \/ CheckEnds \/ RestartMonitoring
        BY <1>3, AlertBegins, AlertEmits, AlertMarks, AlertEnds, AlertRestarts
  <1>4. ASSUME NEW i \in Incidents, OnAlertTriggered(i) \/ DeliverAlert(i) PROVE AlertInv'
        BY <1>4, AlertHooks
  <1> QED BY <1>1, <1>2, <1>3, <1>4 DEF AlertNext

\* An incident is opened only for a breach that lasted longer than its rule's
\* duration, whatever was disabled, edited or restarted meanwhile; a rule has
\* one open incident unless its incidents could not be read; and an incident is
\* announced again only when its mark was lost
\* (components/monitoring/alert_checker.go, evidence.go).
THEOREM AlarmsRaisedOnce == AlertSpec => [](AlertTypeOK /\ AlarmPerIncident)
  <1> QED BY AlertInvAlarms, AlertInvInit, AlertInvStep, PTL DEF AlertSpec

=============================================================================
