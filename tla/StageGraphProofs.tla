--------------------------- MODULE StageGraphProofs ---------------------------
(***************************************************************************)
(* Proofs about StageGraph, for every registry: topological_order raises   *)
(* exactly on a cycle and otherwise sorts the stages; reachable_from       *)
(* returns what the scheduler's model takes it to.                         *)
(***************************************************************************)
EXTENDS StagePicture, TLAPS, FiniteSetTheorems

States ==
  {"loading", "ordering", "cycle", "ordered", "unknown", "narrowing", "narrowed"}

Typed ==
  /\ registry \in Seq(StageDef) /\ at \in States
  /\ stack \in Seq(Stage) /\ order \in Seq(Stage)
  /\ memo \in [Name -> {"unset", "true", "false"}]

(* What is known of the computation from its place alone.                  *)
Phases ==
  /\ at = "loading" => order = <<>>
  /\ at \in {"loading", "ordered", "unknown", "narrowed"} => stack = <<>>
  /\ at \in {"loading", "ordering", "ordered"} => \A n \in Name : memo[n] = "unset"
  /\ at \in {"ordered", "unknown", "narrowing", "narrowed"} => Stage \subseteq visited
  /\ at = "narrowing" => start_from \in Stage

(* The calls in progress are a path of dependencies without a repetition.  *)
Path ==
  /\ IsInjective(stack)
  /\ \A k \in 1..(Len(stack) - 1) : stack[k + 1] \in DependsOn[stack[k]]

(* What visit has visited so far is sorted, and lacks no dependency.       *)
Sorted ==
  /\ visited = ToSet(order) /\ IsInjective(order)
  /\ \A n \in visited : DependsOn[n] \cap Stage \subseteq visited
  /\ \A i, j \in DOMAIN order : order[i] \in DependsOn[order[j]] => i < j
  /\ at = "ordering" => ToSet(stack) \cap visited = {}
  /\ at = "cycle" => ~Graph!Acyclic

(* The answers of depends_on_start so far, and that a call in progress has *)
(* none yet.                                                               *)
Answers ==
  /\ \A n \in Name : memo[n] = "true" => n \in Graph!ReachableFrom(start_from)
  /\ \A n \in Name : memo[n] = "false" =>
       /\ n \in Stage /\ n # start_from
       /\ \A m \in DependsOn[n] \cap Stage : memo[m] = "false"
  /\ at = "narrowing" => \A k \in DOMAIN stack : memo[stack[k]] = "unset"
  /\ at = "narrowed" => range = Graph!ReachableFrom(start_from)

GraphInv == Typed /\ Phases /\ Path /\ Sorted /\ Answers

-----------------------------------------------------------------------------
(* Sequences.                                                              *)

(* The natural numbers are well ordered.                                   *)
LEMMA Least ==
  ASSUME NEW P \in SUBSET Nat, P # {}
  PROVE  \E k \in P : \A m \in P : k <= m
<1> DEFINE T == {1..k : k \in P}
<1>1. IsWellFoundedOn(StrictSubsetOrdering(Nat), FiniteSubsetsOf(Nat))
  BY FS_StrictSubsetOrderingWellFounded
<1>2. T \subseteq FiniteSubsetsOf(Nat) /\ T # {}
  <2>1. \A k \in P : 1..k \subseteq Nat /\ IsFiniteSet(1..k)
    BY FS_Interval
  <2> QED
    BY <2>1 DEF FiniteSubsetsOf
<1>3. \E x \in T : \A y \in T : ~ (<<y, x>> \in StrictSubsetOrdering(Nat))
  BY <1>1, <1>2, WFMin
<1>4. PICK k \in P : \A m \in P : ~ (<<1..m, 1..k>> \in StrictSubsetOrdering(Nat))
  BY <1>3
<1>5. ASSUME NEW m \in P, m < k
      PROVE  FALSE
  <2>1. 1..m \in SUBSET Nat /\ 1..k \in SUBSET Nat
    OBVIOUS
  <2>2. 1..m \subseteq 1..k /\ k \in 1..k /\ k \notin 1..m
    BY <1>5
  <2> QED
    BY <2>1, <2>2, <1>4 DEF StrictSubsetOrdering
<1> QED
  BY <1>4, <1>5

(* Of the elements of a sequence that are in S, one is the first.          *)
LEMMA FirstExists ==
  ASSUME NEW T, NEW s \in Seq(T), NEW S, NEW i \in DOMAIN s, s[i] \in S
  PROVE  \E x \in T : First(s, S, x)
<1> DEFINE P == {k \in DOMAIN s : s[k] \in S}
<1>1. P \subseteq Nat /\ P # {}
  OBVIOUS
<1>2. PICK k \in P : \A m \in P : k <= m
  BY <1>1, Least
<1>3. s[k] \in T /\ \A m \in 1..(k - 1) : m \in DOMAIN s /\ m \in Nat /\ m < k
  BY <1>2
<1>4. First(s, S, s[k])
  BY <1>2, <1>3 DEF First
<1> QED
  BY <1>3, <1>4

(* Append, seen by its positions.                                          *)
LEMMA Pushed ==
  ASSUME NEW T, NEW s \in Seq(T), NEW x \in T
  PROVE  LET t == Append(s, x) IN
         /\ t \in Seq(T) /\ Len(t) = Len(s) + 1
         /\ DOMAIN t = 1..(Len(s) + 1)
         /\ t[Len(s) + 1] = x
         /\ \A k \in 1..Len(s) : t[k] = s[k]
         /\ ToSet(t) = ToSet(s) \cup {x}
<1>1. ToSet(Append(s, x)) = ToSet(s) \cup {x}
  <2>1. \A y \in ToSet(Append(s, x)) : y \in ToSet(s) \cup {x}
    BY DEF ToSet
  <2>2. \A y \in ToSet(s) : y \in ToSet(Append(s, x))
    <3> TAKE y \in ToSet(s)
    <3>1. PICK k \in DOMAIN s : s[k] = y
      BY DEF ToSet
    <3>2. k \in DOMAIN Append(s, x) /\ Append(s, x)[k] = y
      BY <3>1
    <3> QED
      BY <3>2 DEF ToSet
  <2>3. x \in ToSet(Append(s, x))
    <3>1. Len(s) + 1 \in DOMAIN Append(s, x) /\ Append(s, x)[Len(s) + 1] = x
      OBVIOUS
    <3> QED
      BY <3>1 DEF ToSet
  <2> QED
    BY <2>1, <2>2, <2>3
<1> QED
  BY <1>1

(* And Front and Last.                                                     *)
LEMMA Popped ==
  ASSUME NEW T, NEW s \in Seq(T), s # <<>>
  PROVE  /\ Front(s) \in Seq(T) /\ Len(Front(s)) = Len(s) - 1
         /\ DOMAIN Front(s) = 1..(Len(s) - 1)
         /\ \A k \in 1..(Len(s) - 1) : Front(s)[k] = s[k]
         /\ Len(s) \in DOMAIN s /\ Last(s) = s[Len(s)] /\ Last(s) \in T
<1>1. Len(s) \in Nat /\ Len(s) # 0 /\ DOMAIN s = 1..Len(s)
  OBVIOUS
<1>2. Front(s) = [k \in 1..(Len(s) - 1) |-> s[k]]
  BY <1>1 DEF Front
<1>3. \A k \in 1..(Len(s) - 1) : s[k] \in T
  BY <1>1
<1>4. Front(s) \in Seq(T) /\ Len(Front(s)) = Len(s) - 1
  BY <1>1, <1>2, <1>3
<1>5. Len(s) \in DOMAIN s /\ Last(s) = s[Len(s)] /\ Last(s) \in T
  BY <1>1 DEF Last
<1> QED
  BY <1>2, <1>4, <1>5

-----------------------------------------------------------------------------
(* The graph.                                                              *)

(* The graph of a registry whose elements are StageDefs.                   *)
LEMMA GraphOfRegistry ==
  ASSUME registry \in Seq(StageDef)
  PROVE  /\ Stage \subseteq Name
         /\ \A n \in Stage : Dependencies(n) \in Seq(Name)
         /\ \A n \in Stage : DependsOn[n] = ToSet(Dependencies(n))
         /\ StageNames \in Seq(Stage) /\ ToSet(StageNames) = Stage
<1>1. Stage \subseteq Name
  <2>1. \A d \in StageDef : d.name \in StageName
    BY DEF StageDef
  <2>2. \A i \in DOMAIN registry : registry[i] \in StageDef
    OBVIOUS
  <2> QED
    BY <2>1, <2>2, GraphAssumption DEF Stage, Names
<1>2. ASSUME NEW n \in Stage
      PROVE  ByName(registry, n) \in StageDef
  <2>1. \E d \in ToSet(registry) : d.name = n
    BY DEF Stage, Names, ToSet
  <2>2. ByName(registry, n) \in ToSet(registry)
    BY <2>1 DEF ByName
  <2> QED
    BY <2>2 DEF ToSet
<1>3. ASSUME NEW n \in Stage
      PROVE  Dependencies(n) \in Seq(Name)
  <2>1. PICK k \in 0..MaxDeps : Dependencies(n) \in [1..k -> Name]
    BY <1>2 DEF StageDef, Dependencies
  <2> QED
    BY <2>1, GraphAssumption
<1>4. ASSUME NEW n \in Stage
      PROVE  DependsOn[n] = ToSet(Dependencies(n))
  BY DEF DependsOn, Dependencies
<1>5. StageNames \in Seq(Stage) /\ ToSet(StageNames) = Stage
  BY DEF StageNames, Stage, Names, ToSet
<1> QED
  BY <1>1, <1>3, <1>4, <1>5

(* The graph is a function of the registry.                                *)
LEMMA SameGraph ==
  ASSUME registry' = registry
  PROVE  /\ Stage' = Stage /\ DependsOn' = DependsOn /\ StageNames' = StageNames
         /\ Graph!Acyclic' <=> Graph!Acyclic
         /\ \A n : Graph!ReachableFrom(n)' = Graph!ReachableFrom(n)
<1>1. Stage' = Stage
  BY DEF Stage, Names
<1>2. DependsOn' = DependsOn
  BY <1>1 DEF DependsOn, ByName
<1>3. StageNames' = StageNames
  BY DEF StageNames
<1> QED
  BY <1>1, <1>2, <1>3 DEF Graph!Acyclic, Graph!ReachableFrom

(* A dependency of the last stage of a path that is on the path closes a   *)
(* cycle.                                                                  *)
LEMMA ChainCycle ==
  ASSUME stack \in Seq(Stage), stack # <<>>, Path,
         NEW p \in DOMAIN stack, stack[p] \in DependsOn[Current]
  PROVE  ~Graph!Acyclic
<1> DEFINE S == {stack[k] : k \in p..Len(stack)}
<1>1. S \in (SUBSET Stage) \ {{}}
  OBVIOUS
<1>2. ASSUME NEW s \in S
      PROVE  DependsOn[s] \cap S # {}
  <2>1. PICK k \in p..Len(stack) : s = stack[k]
    OBVIOUS
  <2>2. CASE k = Len(stack)
    <3>1. Current = s
      BY <2>1, <2>2, Popped DEF Current
    <3>2. stack[p] \in S
      OBVIOUS
    <3> QED
      BY <3>1, <3>2
  <2>3. CASE k # Len(stack)
    <3>1. k \in 1..(Len(stack) - 1) /\ k + 1 \in p..Len(stack)
      BY <2>3
    <3>2. stack[k + 1] \in DependsOn[s]
      BY <3>1, <2>1 DEF Path
    <3> QED
      BY <3>1, <3>2
  <2> QED
    BY <2>2, <2>3
<1> QED
  BY <1>1, <1>2 DEF Graph!Acyclic

(* A graph that can be sorted has no cycle.                                *)
LEMMA SortedAcyclic ==
  ASSUME order \in Seq(Stage), Stage \subseteq ToSet(order),
         \A i, j \in DOMAIN order : order[i] \in DependsOn[order[j]] => i < j
  PROVE  Graph!Acyclic
<1> SUFFICES ASSUME NEW S \in (SUBSET Stage) \ {{}}
             PROVE  \E s \in S : DependsOn[s] \cap S = {}
  BY DEF Graph!Acyclic
<1> DEFINE P == {i \in DOMAIN order : order[i] \in S}
<1>1. P \subseteq Nat /\ P # {}
  BY DEF ToSet
<1>2. PICK i \in P : \A m \in P : i <= m
  BY <1>1, Least
<1>3. ASSUME NEW d \in DependsOn[order[i]] \cap S
      PROVE  FALSE
  <2>1. PICK j \in DOMAIN order : order[j] = d
    BY DEF ToSet
  <2>2. j \in P /\ j < i
    BY <2>1, <1>3
  <2> QED
    BY <2>2, <1>2, <1>1
<1> QED
  BY <1>2, <1>3

(* The start is in its range, and what depends on a stage of it is.        *)
LEMMA StartReachable ==
  ASSUME NEW n \in Stage
  PROVE  n \in Graph!ReachableFrom(n)
  BY DEF Graph!ReachableFrom

LEMMA DependentReachable ==
  ASSUME NEW start, NEW n \in Stage, NEW m \in Graph!ReachableFrom(start),
         m \in DependsOn[n]
  PROVE  n \in Graph!ReachableFrom(start)
<1> SUFFICES ASSUME NEW S \in SUBSET Stage, start \in S,
                    \A s \in Stage : DependsOn[s] \cap S # {} => s \in S
             PROVE  n \in S
  BY DEF Graph!ReachableFrom
<1>1. m \in S
  BY DEF Graph!ReachableFrom
<1> QED
  BY <1>1

-----------------------------------------------------------------------------
(* The stack.                                                              *)

(* A call of a dependency that is not being visited prolongs the path.     *)
LEMMA CallPath ==
  ASSUME registry' = registry, stack \in Seq(Stage), Path,
         NEW n \in Stage, n \notin ToSet(stack),
         stack # <<>> => n \in DependsOn[Current],
         Call(n)
  PROVE  /\ stack' \in Seq(Stage') /\ Path'
         /\ stack' # <<>> /\ Len(stack') = Len(stack) + 1
         /\ DOMAIN stack' = 1..(Len(stack) + 1)
         /\ stack'[Len(stack) + 1] = n
         /\ \A k \in DOMAIN stack : stack'[k] = stack[k]
         /\ ToSet(stack') = ToSet(stack) \cup {n}
<1>1. stack' = Append(stack, n)
  BY DEF Call
<1>2. Stage' = Stage /\ DependsOn' = DependsOn
  BY SameGraph
<1>3. /\ stack' \in Seq(Stage) /\ Len(stack') = Len(stack) + 1
      /\ DOMAIN stack' = 1..(Len(stack) + 1)
      /\ stack'[Len(stack) + 1] = n
      /\ \A k \in 1..Len(stack) : stack'[k] = stack[k]
      /\ ToSet(stack') = ToSet(stack) \cup {n}
  BY <1>1, Pushed
<1>4. Len(stack) \in Nat /\ DOMAIN stack = 1..Len(stack)
  OBVIOUS
<1>5. \A k \in DOMAIN stack : stack[k] # n
  BY DEF ToSet
<1>6. ASSUME NEW a \in DOMAIN stack', NEW b \in DOMAIN stack', stack'[a] = stack'[b]
      PROVE  a = b
  <2>1. CASE a \in DOMAIN stack /\ b \in DOMAIN stack
    BY <2>1, <1>3, <1>4, <1>6 DEF Path, IsInjective
  <2>2. CASE a \notin DOMAIN stack \/ b \notin DOMAIN stack
    BY <2>2, <1>3, <1>4, <1>5, <1>6
  <2> QED
    BY <2>1, <2>2
<1>7. ASSUME NEW k \in 1..(Len(stack') - 1)
      PROVE  stack'[k + 1] \in DependsOn[stack'[k]]
  <2>1. k \in 1..Len(stack)
    BY <1>3, <1>4
  <2>2. CASE k = Len(stack)
    <3>1. stack # <<>>
      BY <2>1
    <3>2. Current = stack[k]
      BY <3>1, <2>2, Popped DEF Current
    <3> QED
      BY <3>1, <3>2, <2>1, <2>2, <1>3
  <2>3. CASE k # Len(stack)
    <3>1. \A l \in Nat : \A i \in 1..l : i # l => i \in 1..(l - 1) /\ i + 1 \in 1..l
      OBVIOUS
    <3>2. k \in 1..(Len(stack) - 1) /\ k + 1 \in 1..Len(stack)
      BY <3>1, <2>1, <2>3, <1>4
    <3> QED
      BY <3>2, <2>1, <1>3 DEF Path
  <2> QED
    BY <2>2, <2>3
<1>8. Path'
  BY <1>2, <1>6, <1>7 DEF Path, IsInjective
<1> QED
  BY <1>2, <1>3, <1>4, <1>8

(* A return shortens it.                                                   *)
LEMMA ReturnPath ==
  ASSUME registry' = registry, stack \in Seq(Stage), stack # <<>>, Path, Return
  PROVE  /\ stack' \in Seq(Stage') /\ Path'
         /\ Current \in Stage /\ Current \in ToSet(stack)
         /\ DOMAIN stack' \subseteq DOMAIN stack
         /\ \A k \in DOMAIN stack' : stack'[k] = stack[k] /\ stack[k] # Current
         /\ ToSet(stack') \subseteq ToSet(stack) \ {Current}
<1>1. stack' = Front(stack)
  BY DEF Return
<1>2. Stage' = Stage /\ DependsOn' = DependsOn
  BY SameGraph
<1>3. /\ stack' \in Seq(Stage) /\ Len(stack') = Len(stack) - 1
      /\ DOMAIN stack' = 1..(Len(stack) - 1)
      /\ \A k \in 1..(Len(stack) - 1) : stack'[k] = stack[k]
      /\ Len(stack) \in DOMAIN stack
      /\ Current = stack[Len(stack)] /\ Current \in Stage
  BY <1>1, Popped DEF Current
<1>4. Len(stack) \in Nat /\ DOMAIN stack = 1..Len(stack)
  OBVIOUS
<1>5. \A k \in DOMAIN stack' : k \in DOMAIN stack /\ stack'[k] = stack[k]
  BY <1>3, <1>4
<1>6. \A k \in DOMAIN stack' : stack[k] # Current
  BY <1>3, <1>4 DEF Path, IsInjective
<1>7. \A a, b \in DOMAIN stack' : stack'[a] = stack'[b] => a = b
  BY <1>5 DEF Path, IsInjective
<1>8. \A k \in 1..(Len(stack') - 1) : stack'[k + 1] \in DependsOn[stack'[k]]
  BY <1>3, <1>4 DEF Path
<1>9. Path'
  BY <1>2, <1>7, <1>8 DEF Path, IsInjective
<1>10. Current \in ToSet(stack) /\ ToSet(stack') \subseteq ToSet(stack) \ {Current}
  BY <1>3, <1>5, <1>6 DEF ToSet
<1> QED
  BY <1>2, <1>3, <1>5, <1>6, <1>9, <1>10

(* What a loop over the dependencies of a call comes to is one of them.    *)
LEMMA FirstIsDependency ==
  ASSUME registry \in Seq(StageDef), stack \in Seq(Stage), stack # <<>>,
         NEW S \in SUBSET Stage, NEW n, First(Dependencies(Current), S, n)
  PROVE  n \in S /\ n \in Stage /\ n \in DependsOn[Current]
<1>1. Current \in Stage
  BY Popped DEF Current
<1>2. n \in S /\ n \in ToSet(Dependencies(Current))
  BY DEF First, ToSet
<1> QED
  BY <1>1, <1>2, GraphOfRegistry

-----------------------------------------------------------------------------
(* The invariant.                                                          *)

LEMMA InvInit == Init => GraphInv
<1> SUFFICES ASSUME Init
             PROVE  GraphInv
  OBVIOUS
<1> USE DEF Init
<1>1. Typed
  BY DEF Typed, States
<1>2. Phases
  BY DEF Phases
<1>3. Path
  BY DEF Path, IsInjective
<1>4. Sorted
  BY DEF Sorted, ToSet, IsInjective
<1>5. Answers
  BY DEF Answers
<1> QED
  BY <1>1, <1>2, <1>3, <1>4, <1>5 DEF GraphInv

(* While the workflow's module runs, nothing has been computed.            *)
LEMMA RegisterInv ==
  ASSUME GraphInv, NEW d \in StageDef, Register(d)
  PROVE  GraphInv'
<1> USE DEF GraphInv
<1>1. /\ at = "loading" /\ at' = "loading" /\ stack' = <<>> /\ order' = <<>>
      /\ visited' = {} /\ memo' = memo /\ range' = range
  <2>1. ToSet(<<>>) = {}
    BY DEF ToSet
  <2> QED
    BY <2>1 DEF Register, Phases, Sorted
<1>2. \A n \in Name : memo[n] = "unset"
  BY <1>1 DEF Phases
<1>3. registry' \in Seq(StageDef)
  <2>1. CASE d.name \in Stage
    <3>1. registry' = [i \in DOMAIN registry |->
                         IF registry[i].name = d.name THEN d ELSE registry[i]]
      BY <2>1 DEF Register
    <3>2. registry \in Seq(StageDef) /\ DOMAIN registry = 1..Len(registry)
      BY DEF Typed
    <3>3. registry' \in [1..Len(registry) -> StageDef] /\ Len(registry) \in Nat
      BY <3>1, <3>2
    <3> QED
      BY <3>3
  <2>2. CASE d.name \notin Stage
    BY <2>2 DEF Register, Typed
  <2> QED
    BY <2>1, <2>2
<1>4. Typed'
  BY <1>1, <1>3 DEF Typed, States
<1>5. Phases'
  BY <1>1, <1>2 DEF Phases
<1>6. Path'
  BY <1>1 DEF Path, IsInjective
<1>7. Sorted'
  BY <1>1 DEF Sorted, ToSet, IsInjective
<1>8. Answers'
  BY <1>1, <1>2 DEF Answers
<1> QED
  BY <1>4, <1>5, <1>6, <1>7, <1>8

(* A call of visit.                                                        *)
LEMMA VisitInv ==
  ASSUME GraphInv, NEW n, VisitStage(n) \/ VisitDependency(n)
  PROVE  GraphInv'
<1> USE DEF GraphInv
<1>1. /\ registry \in Seq(StageDef) /\ stack \in Seq(Stage)
      /\ registry' = registry /\ at = "ordering" /\ at' = at
      /\ visited' = visited /\ order' = order /\ start_from' = start_from
      /\ memo' = memo /\ range' = range /\ Call(n)
  BY DEF VisitStage, VisitDependency, Typed
<1>2. /\ n \in Stage /\ n \notin visited /\ n \notin ToSet(stack)
      /\ stack # <<>> => n \in DependsOn[Current]
  <2>1. CASE VisitStage(n)
    <3>1. n \in Stage \ visited /\ stack = <<>>
      BY <2>1 DEF VisitStage, First
    <3>2. ToSet(stack) = {}
      BY <3>1 DEF ToSet
    <3> QED
      BY <3>1, <3>2
  <2>2. CASE VisitDependency(n)
    <3>1. First(Dependencies(Current), Stage \ visited, n) /\ stack # <<>>
      BY <2>2 DEF VisitDependency
    <3>2. n \in Stage \ visited /\ n \in DependsOn[Current]
      BY <3>1, <1>1, FirstIsDependency
    <3> QED
      BY <3>2, <2>2 DEF VisitDependency
  <2> QED
    BY <2>1, <2>2
<1>3. stack' \in Seq(Stage') /\ Path' /\ ToSet(stack') = ToSet(stack) \cup {n}
  BY <1>1, <1>2, CallPath
<1>4. /\ Stage' = Stage /\ DependsOn' = DependsOn
      /\ \A m : Graph!ReachableFrom(m)' = Graph!ReachableFrom(m)
  BY <1>1, SameGraph
<1>5. Typed'
  BY <1>1, <1>3, <1>4 DEF Typed
<1>6. Phases'
  BY <1>1 DEF Phases
<1>7. Sorted'
  BY <1>1, <1>2, <1>3, <1>4 DEF Sorted
<1>8. Answers'
  BY <1>1, <1>4 DEF Answers
<1> QED
  BY <1>3, <1>5, <1>6, <1>7, <1>8

LEMMA RaiseCycleInv ==
  ASSUME GraphInv, NEW n, RaiseCycle(n)
  PROVE  GraphInv'
<1> USE DEF GraphInv
<1>1. /\ registry \in Seq(StageDef) /\ stack \in Seq(Stage) /\ stack # <<>>
      /\ registry' = registry /\ at = "ordering" /\ at' = "cycle"
      /\ visited' = visited /\ order' = order /\ start_from' = start_from
      /\ memo' = memo /\ range' = range /\ stack' = stack
  BY DEF RaiseCycle, Typed
<1>2. ~Graph!Acyclic
  <2>1. n \in DependsOn[Current]
    BY <1>1, FirstIsDependency DEF RaiseCycle
  <2>2. PICK p \in DOMAIN stack : stack[p] = n
    BY DEF RaiseCycle, ToSet
  <2> QED
    BY <2>1, <2>2, <1>1, ChainCycle
<1>3. /\ Stage' = Stage /\ DependsOn' = DependsOn /\ (Graph!Acyclic' <=> Graph!Acyclic)
      /\ \A m : Graph!ReachableFrom(m)' = Graph!ReachableFrom(m)
  BY <1>1, SameGraph
<1>4. Typed'
  BY <1>1, <1>3 DEF Typed, States
<1>5. Phases'
  BY <1>1 DEF Phases
<1>6. Path'
  BY <1>1, <1>3 DEF Path
<1>7. Sorted'
  BY <1>1, <1>2, <1>3 DEF Sorted
<1>8. Answers'
  BY <1>1, <1>3 DEF Answers
<1> QED
  BY <1>4, <1>5, <1>6, <1>7, <1>8

(* The return of visit: what it visited comes after its dependencies, and  *)
(* nothing that was visited before depends on it.                          *)
LEMMA VisitReturnsInv ==
  ASSUME GraphInv, VisitReturns
  PROVE  GraphInv'
<1> USE DEF GraphInv
<1>1. /\ registry \in Seq(StageDef) /\ stack \in Seq(Stage) /\ stack # <<>>
      /\ order \in Seq(Stage)
      /\ registry' = registry /\ at = "ordering" /\ at' = at
      /\ start_from' = start_from
      /\ memo' = memo /\ range' = range /\ Return
      /\ visited' = visited \cup {Current} /\ order' = Append(order, Current)
  BY DEF VisitReturns, Typed
<1>2. /\ stack' \in Seq(Stage') /\ Path' /\ Current \in Stage
      /\ Current \in ToSet(stack) /\ ToSet(stack') \subseteq ToSet(stack) \ {Current}
  BY <1>1, ReturnPath
<1>3. /\ Stage' = Stage /\ DependsOn' = DependsOn
      /\ \A m : Graph!ReachableFrom(m)' = Graph!ReachableFrom(m)
  BY <1>1, SameGraph
<1>4. /\ order' \in Seq(Stage) /\ Len(order') = Len(order) + 1
      /\ DOMAIN order' = 1..(Len(order) + 1)
      /\ order'[Len(order) + 1] = Current
      /\ \A k \in 1..Len(order) : order'[k] = order[k]
      /\ ToSet(order') = ToSet(order) \cup {Current}
  BY <1>1, <1>2, Pushed
<1>5. DependsOn[Current] \cap Stage \subseteq visited
  BY <1>1, <1>2, GraphOfRegistry DEF VisitReturns
<1>6. Current \notin visited
  BY <1>1, <1>2 DEF Sorted
<1>7. Len(order) \in Nat /\ DOMAIN order = 1..Len(order)
  BY <1>1
<1>8. \A k \in DOMAIN order : order[k] \in Stage /\ order[k] \in visited /\ order[k] # Current
  BY <1>1, <1>6 DEF Sorted, ToSet
<1>9. Typed'
  BY <1>1, <1>2, <1>3, <1>4 DEF Typed
<1>10. Phases'
  BY <1>1 DEF Phases
<1>11. Sorted'
  <2>1. visited' = ToSet(order')
    BY <1>1, <1>4 DEF Sorted
  <2>2. IsInjective(order)'
    BY <1>4, <1>7, <1>8 DEF Sorted, IsInjective
  <2>3. \A n \in visited' : DependsOn'[n] \cap Stage' \subseteq visited'
    BY <1>1, <1>3, <1>5 DEF Sorted
  <2>4. ASSUME NEW i \in DOMAIN order', NEW j \in DOMAIN order',
               order'[i] \in DependsOn'[order'[j]]
        PROVE  i < j
    <3>1. CASE i = Len(order) + 1
      <4>1. Current \in DependsOn[order'[j]] /\ Current \notin DependsOn[Current]
        BY <3>1, <2>4, <1>2, <1>3, <1>4, <1>5, <1>6
      <4>2. j \in DOMAIN order /\ order'[j] = order[j]
        BY <4>1, <1>4, <1>7
      <4>3. Current \in visited
        BY <4>1, <4>2, <1>2, <1>8 DEF Sorted
      <4> QED
        BY <4>3, <1>6
    <3>2. CASE i # Len(order) + 1 /\ j = Len(order) + 1
      BY <3>2, <1>4, <1>7
    <3>3. CASE i # Len(order) + 1 /\ j # Len(order) + 1
      <4>1. i \in DOMAIN order /\ j \in DOMAIN order
        BY <3>3, <1>4, <1>7
      <4> QED
        BY <4>1, <2>4, <1>3, <1>4, <1>7 DEF Sorted
    <3> QED
      BY <3>1, <3>2, <3>3
  <2>5. ToSet(stack') \cap visited' = {}
    BY <1>1, <1>2 DEF Sorted
  <2> QED
    BY <2>1, <2>2, <2>3, <2>4, <2>5, <1>1 DEF Sorted
<1>12. Answers'
  BY <1>1, <1>3 DEF Answers
<1> QED
  BY <1>2, <1>9, <1>10, <1>11, <1>12

(* A step that leaves the registry and the sorted order alone.             *)
LEMMA SortedKept ==
  ASSUME registry' = registry, visited' = visited, order' = order, Sorted,
         at \notin {"ordering", "cycle"}, at' \notin {"ordering", "cycle"}
  PROVE  Sorted'
<1>1. Stage' = Stage /\ DependsOn' = DependsOn
  BY SameGraph
<1> QED
  BY <1>1 DEF Sorted

(* topological_order is called, it returns, and reachable_from is called.  *)
LEMMA PhaseInv ==
  ASSUME GraphInv, ListStages \/ OrderReturned \/ \E n \in Name : Narrow(n)
  PROVE  GraphInv'
<1> USE DEF GraphInv
<1>1. /\ registry' = registry /\ stack' = stack /\ stack = <<>>
      /\ visited' = visited /\ order' = order /\ memo' = memo /\ range' = range
      /\ \A n \in Name : memo[n] = "unset"
      /\ at \in {"loading", "ordering", "ordered"}
      /\ at' \in {"ordering", "ordered", "narrowing", "unknown"}
  BY DEF ListStages, OrderReturned, Narrow, Phases
<1>2. /\ Stage' = Stage /\ DependsOn' = DependsOn
      /\ \A m : Graph!ReachableFrom(m)' = Graph!ReachableFrom(m)
  BY <1>1, SameGraph
<1>3. Typed'
  BY <1>1, <1>2 DEF Typed, States
<1>4. Phases'
  <2>1. CASE ListStages
    BY <2>1, <1>1, <1>2 DEF ListStages, Phases
  <2>2. CASE OrderReturned
    BY <2>2, <1>1, <1>2 DEF OrderReturned, Phases
  <2>3. CASE \E n \in Name : Narrow(n)
    BY <2>3, <1>1, <1>2 DEF Narrow, Phases
  <2> QED
    BY <2>1, <2>2, <2>3
<1>5. Path'
  BY <1>1, <1>2 DEF Path
<1>6. Sorted'
  <2>1. ToSet(stack') = {}
    BY <1>1 DEF ToSet
  <2> QED
    BY <2>1, <1>1, <1>2 DEF Sorted
<1>7. Answers'
  BY <1>1 DEF Answers
<1> QED
  BY <1>3, <1>4, <1>5, <1>6, <1>7

(* The graph that topological_order has sorted has no cycle.               *)
LEMMA SortedGraph ==
  ASSUME GraphInv, at \in {"ordered", "unknown", "narrowing", "narrowed"}
  PROVE  Graph!Acyclic
<1>1. Stage \subseteq ToSet(order)
  BY DEF GraphInv, Phases, Sorted
<1>2. /\ order \in Seq(Stage)
      /\ \A i, j \in DOMAIN order : order[i] \in DependsOn[order[j]] => i < j
  BY DEF GraphInv, Typed, Sorted
<1> QED
  BY <1>1, <1>2, SortedAcyclic

(* A call of depends_on_start: of a stage it has no answer for, which      *)
(* without a cycle no call in progress is about.                           *)
LEMMA AskInv ==
  ASSUME GraphInv, NEW n, AskStage(n) \/ AskDependency(n)
  PROVE  GraphInv'
<1> USE DEF GraphInv
<1>1. /\ registry \in Seq(StageDef) /\ stack \in Seq(Stage)
      /\ registry' = registry /\ at = "narrowing" /\ at' = at
      /\ visited' = visited /\ order' = order /\ start_from' = start_from
      /\ memo' = memo /\ range' = range /\ Call(n)
  BY DEF AskStage, AskDependency, Typed
<1>2. /\ n \in Stage /\ memo[n] = "unset" /\ n \notin ToSet(stack)
      /\ stack # <<>> => n \in DependsOn[Current]
  <2>1. CASE AskStage(n)
    <3>1. n \in {s \in Stage : memo[s] = "unset"} /\ stack = <<>>
      BY <2>1 DEF AskStage, First
    <3>2. ToSet(stack) = {}
      BY <3>1 DEF ToSet
    <3> QED
      BY <3>1, <3>2
  <2>2. CASE AskDependency(n)
    <3>1. /\ First(Dependencies(Current), {s \in Stage : memo[s] # "false"}, n)
          /\ stack # <<>> /\ memo[n] = "unset"
      BY <2>2 DEF AskDependency, Decisive
    <3>2. n \in Stage /\ n \in DependsOn[Current]
      BY <3>1, <1>1, FirstIsDependency
    <3>3. ASSUME NEW p \in DOMAIN stack, stack[p] = n
          PROVE  FALSE
      <4>1. ~Graph!Acyclic
        BY <3>1, <3>2, <3>3, <1>1, ChainCycle
      <4> QED
        BY <4>1, <1>1, SortedGraph
    <3> QED
      BY <3>1, <3>2, <3>3 DEF ToSet
  <2> QED
    BY <2>1, <2>2
<1>3. /\ stack' \in Seq(Stage') /\ Path'
      /\ DOMAIN stack' = 1..(Len(stack) + 1) /\ DOMAIN stack = 1..Len(stack)
      /\ stack'[Len(stack) + 1] = n
      /\ \A k \in DOMAIN stack : stack'[k] = stack[k]
  BY <1>1, <1>2, CallPath
<1>4. /\ Stage' = Stage /\ DependsOn' = DependsOn
      /\ \A m : Graph!ReachableFrom(m)' = Graph!ReachableFrom(m)
  BY <1>1, SameGraph
<1>5. Typed'
  BY <1>1, <1>3, <1>4 DEF Typed
<1>6. Phases'
  BY <1>1, <1>4 DEF Phases
<1>7. Sorted'
  BY <1>1, SortedKept
<1>8. \A k \in DOMAIN stack' : memo[stack'[k]] = "unset"
  <2> TAKE k \in DOMAIN stack'
  <2>1. k \in DOMAIN stack \/ k = Len(stack) + 1
    BY <1>1, <1>3
  <2> QED
    BY <2>1, <1>1, <1>2, <1>3 DEF Answers
<1>9. Answers'
  BY <1>1, <1>4, <1>8 DEF Answers
<1> QED
  BY <1>3, <1>5, <1>6, <1>7, <1>9

(* The facts that both returns of depends_on_start share.                  *)
LEMMA Remembered ==
  ASSUME GraphInv, at = "narrowing", at' = at, stack # <<>>,
         NEW v \in {"true", "false"}, Remember(v)
  PROVE  /\ Typed' /\ Phases' /\ Path' /\ Sorted'
         /\ Current \in Stage /\ Current \in Name
         /\ memo[Current] = "unset" /\ memo'[Current] = v
         /\ \A n \in Name : n # Current => memo'[n] = memo[n]
         /\ \A k \in DOMAIN stack' : memo'[stack'[k]] = "unset"
<1> USE DEF GraphInv
<1>1. /\ registry \in Seq(StageDef) /\ stack \in Seq(Stage)
      /\ memo \in [Name -> {"unset", "true", "false"}]
      /\ registry' = registry
      /\ visited' = visited /\ order' = order /\ start_from' = start_from
      /\ memo' = [memo EXCEPT ![Current] = v] /\ range' = range /\ Return
  BY DEF Remember, Typed
<1>2. /\ stack' \in Seq(Stage') /\ Path' /\ Current \in Stage
      /\ Current \in ToSet(stack) /\ DOMAIN stack' \subseteq DOMAIN stack
      /\ \A k \in DOMAIN stack' : stack'[k] = stack[k] /\ stack[k] # Current
  BY <1>1, ReturnPath
<1>3. Stage' = Stage /\ Stage \subseteq Name
  BY <1>1, SameGraph, GraphOfRegistry
<1>4. /\ memo' \in [Name -> {"unset", "true", "false"}] /\ memo'[Current] = v
      /\ \A n \in Name : n # Current => memo'[n] = memo[n]
  BY <1>1, <1>2, <1>3
<1>5. \A k \in DOMAIN stack : memo[stack[k]] = "unset"
  BY DEF Answers
<1>6. memo[Current] = "unset"
  BY <1>2, <1>5 DEF ToSet
<1>7. \A k \in DOMAIN stack' : memo'[stack'[k]] = "unset"
  <2> TAKE k \in DOMAIN stack'
  <2>1. k \in DOMAIN stack /\ stack'[k] = stack[k] /\ stack[k] # Current
    BY <1>2
  <2>2. stack[k] \in Name
    BY <2>1, <1>1, <1>3
  <2> QED
    BY <2>1, <2>2, <1>4, <1>5
<1>8. Typed'
  BY <1>1, <1>2, <1>3, <1>4 DEF Typed
<1>9. Phases'
  BY <1>1, <1>3 DEF Phases
<1>10. Sorted'
  BY <1>1, SortedKept
<1> QED
  BY <1>2, <1>3, <1>4, <1>6, <1>7, <1>8, <1>9, <1>10

LEMMA DependsOnStartInv ==
  ASSUME GraphInv, DependsOnStart
  PROVE  GraphInv'
<1> USE DEF GraphInv
<1>1. /\ at = "narrowing" /\ at' = at /\ stack # <<>> /\ Remember("true")
      /\ registry' = registry /\ start_from' = start_from
  BY DEF DependsOnStart, Remember
<1>2. /\ Typed' /\ Phases' /\ Path' /\ Sorted'
      /\ Current \in Stage /\ memo[Current] = "unset" /\ memo'[Current] = "true"
      /\ \A n \in Name : n # Current => memo'[n] = memo[n]
      /\ \A k \in DOMAIN stack' : memo'[stack'[k]] = "unset"
  BY <1>1, Remembered
<1>3. /\ Stage' = Stage /\ DependsOn' = DependsOn
      /\ \A m : Graph!ReachableFrom(m)' = Graph!ReachableFrom(m)
  BY <1>1, SameGraph
<1>4. Current \in Graph!ReachableFrom(start_from)
  <2>1. CASE Current = start_from
    BY <2>1, <1>2, StartReachable
  <2>2. CASE \E n \in Name : Decisive(n) /\ memo[n] = "true"
    <3>1. PICK n \in Name : Decisive(n) /\ memo[n] = "true"
      BY <2>2
    <3>2. n \in DependsOn[Current]
      BY <3>1, <1>1, FirstIsDependency DEF Decisive, Typed
    <3>3. n \in Graph!ReachableFrom(start_from)
      BY <3>1 DEF Answers
    <3> QED
      BY <3>2, <3>3, <1>2, DependentReachable
  <2> QED
    BY <2>1, <2>2 DEF DependsOnStart
<1>5. \A n \in Name : memo'[n] = "true" => n \in Graph!ReachableFrom(start_from)
  BY <1>2, <1>4 DEF Answers
<1>6. ASSUME NEW n \in Name, memo'[n] = "false"
      PROVE  /\ n \in Stage /\ n # start_from
             /\ \A m \in DependsOn[n] \cap Stage : memo'[m] = "false"
  <2>1. memo[n] = "false"
    BY <1>2, <1>6
  <2>2. /\ n \in Stage /\ n # start_from
        /\ \A m \in DependsOn[n] \cap Stage : memo[m] = "false"
    BY <2>1 DEF Answers
  <2>3. Stage \subseteq Name
    BY GraphOfRegistry DEF Typed
  <2> QED
    BY <2>2, <2>3, <1>2
<1>7. Answers'
  BY <1>1, <1>2, <1>3, <1>5, <1>6 DEF Answers
<1> QED
  BY <1>2, <1>7

LEMMA DoesNotDependOnStartInv ==
  ASSUME GraphInv, DoesNotDependOnStart
  PROVE  GraphInv'
<1> USE DEF GraphInv
<1>1. /\ at = "narrowing" /\ at' = at /\ stack # <<>> /\ Remember("false")
      /\ registry' = registry /\ start_from' = start_from /\ Current # start_from
  BY DEF DoesNotDependOnStart, Remember
<1>2. /\ Typed' /\ Phases' /\ Path' /\ Sorted'
      /\ Current \in Stage /\ memo[Current] = "unset" /\ memo'[Current] = "false"
      /\ \A n \in Name : n # Current => memo'[n] = memo[n]
      /\ \A k \in DOMAIN stack' : memo'[stack'[k]] = "unset"
  BY <1>1, Remembered
<1>3. /\ Stage' = Stage /\ DependsOn' = DependsOn
      /\ \A m : Graph!ReachableFrom(m)' = Graph!ReachableFrom(m)
  BY <1>1, SameGraph
<1>4. /\ Stage \subseteq Name /\ Dependencies(Current) \in Seq(Name)
      /\ DependsOn[Current] = ToSet(Dependencies(Current))
  BY <1>2, GraphOfRegistry DEF Typed
<1>5. ASSUME NEW m \in DependsOn[Current] \cap Stage
      PROVE  memo[m] = "false"
  <2>1. SUFFICES ASSUME memo[m] # "false"
                 PROVE  FALSE
    OBVIOUS
  <2> DEFINE S == {s \in Stage : memo[s] # "false"}
  <2>2. PICK i \in DOMAIN Dependencies(Current) : Dependencies(Current)[i] = m
    BY <1>4 DEF ToSet
  <2>3. Dependencies(Current)[i] \in S
    BY <2>1, <2>2
  <2>4. \E x \in Name : First(Dependencies(Current), S, x)
    BY <2>3, <1>4, FirstExists
  <2> QED
    BY <2>4 DEF DoesNotDependOnStart, Decisive
<1>6. \A n \in Name : memo'[n] = "true" => n \in Graph!ReachableFrom(start_from)
  BY <1>2 DEF Answers
<1>7. ASSUME NEW n \in Name, memo'[n] = "false"
      PROVE  /\ n \in Stage /\ n # start_from
             /\ \A m \in DependsOn[n] \cap Stage : memo'[m] = "false"
  <2>1. CASE n = Current
    BY <2>1, <1>1, <1>2, <1>4, <1>5
  <2>2. CASE n # Current
    <3>1. /\ n \in Stage /\ n # start_from
          /\ \A m \in DependsOn[n] \cap Stage : memo[m] = "false"
      BY <2>2, <1>2, <1>7 DEF Answers
    <3> QED
      BY <3>1, <1>2, <1>4
  <2> QED
    BY <2>1, <2>2
<1>8. Answers'
  BY <1>1, <1>2, <1>3, <1>6, <1>7 DEF Answers
<1> QED
  BY <1>2, <1>8

(* With every answer there, the stages that depend on the start are closed *)
(* under "depends on one of them".                                         *)
LEMMA RangeReturnedInv ==
  ASSUME GraphInv, RangeReturned
  PROVE  GraphInv'
<1> USE DEF GraphInv
<1>1. /\ registry' = registry /\ at = "narrowing" /\ at' = "narrowed"
      /\ stack' = stack /\ stack = <<>> /\ start_from' = start_from
      /\ visited' = visited /\ order' = order /\ memo' = memo
      /\ \A n \in Stage : memo[n] # "unset"
      /\ range' = {n \in Stage : memo[n] = "true"}
  BY DEF RangeReturned
<1>2. /\ Stage' = Stage /\ DependsOn' = DependsOn
      /\ \A m : Graph!ReachableFrom(m)' = Graph!ReachableFrom(m)
  BY <1>1, SameGraph
<1>3. /\ Stage \subseteq Name /\ start_from \in Stage
      /\ memo \in [Name -> {"unset", "true", "false"}]
  BY <1>1, GraphOfRegistry DEF Typed, Phases
<1>4. range' \subseteq Graph!ReachableFrom(start_from)
  BY <1>1, <1>3 DEF Answers
<1>5. Graph!ReachableFrom(start_from) \subseteq range'
  <2>1. start_from \in range'
    BY <1>1, <1>3 DEF Answers
  <2>2. ASSUME NEW n \in Stage, DependsOn[n] \cap range' # {}
        PROVE  n \in range'
    <3>1. memo[n] # "false"
      BY <2>2, <1>1, <1>3 DEF Answers
    <3> QED
      BY <3>1, <1>1, <1>3
  <2>3. range' \in SUBSET Stage
    BY <1>1
  <2> QED
    BY <2>1, <2>2, <2>3 DEF Graph!ReachableFrom
<1>6. Typed'
  BY <1>1, <1>2 DEF Typed, States
<1>7. Phases'
  BY <1>1, <1>2 DEF Phases
<1>8. Path'
  BY <1>1, <1>2 DEF Path
<1>9. Sorted'
  BY <1>1, SortedKept
<1>10. Answers'
  BY <1>1, <1>2, <1>4, <1>5 DEF Answers
<1> QED
  BY <1>6, <1>7, <1>8, <1>9, <1>10

LEMMA InvNext == GraphInv /\ [Next]_vars => GraphInv'
<1> SUFFICES ASSUME GraphInv, [Next]_vars
             PROVE  GraphInv'
  OBVIOUS
<1>1. CASE \E d \in StageDef : Register(d)
  BY <1>1, RegisterInv
<1>2. CASE ListStages \/ OrderReturned \/ \E n \in Name : Narrow(n)
  BY <1>2, PhaseInv
<1>3. CASE \E n \in Name : VisitStage(n) \/ VisitDependency(n)
  BY <1>3, VisitInv
<1>4. CASE \E n \in Name : RaiseCycle(n)
  BY <1>4, RaiseCycleInv
<1>5. CASE VisitReturns
  BY <1>5, VisitReturnsInv
<1>6. CASE \E n \in Name : AskStage(n) \/ AskDependency(n)
  BY <1>6, AskInv
<1>7. CASE DependsOnStart
  BY <1>7, DependsOnStartInv
<1>8. CASE DoesNotDependOnStart
  BY <1>8, DoesNotDependOnStartInv
<1>9. CASE RangeReturned
  BY <1>9, RangeReturnedInv
<1>10. CASE UNCHANGED vars
  <2>1. /\ registry' = registry /\ at' = at /\ stack' = stack /\ visited' = visited
        /\ order' = order /\ start_from' = start_from /\ memo' = memo
        /\ range' = range
    BY <1>10 DEF vars
  <2>2. /\ Stage' = Stage /\ DependsOn' = DependsOn /\ (Graph!Acyclic' <=> Graph!Acyclic)
        /\ \A m : Graph!ReachableFrom(m)' = Graph!ReachableFrom(m)
    BY <2>1, SameGraph
  <2> QED
    BY <2>1, <2>2 DEF GraphInv, Typed, Phases, Path, Sorted, Answers
<1> QED
  BY <1>1, <1>2, <1>3, <1>4, <1>5, <1>6, <1>7, <1>8, <1>9, <1>10 DEF Next

-----------------------------------------------------------------------------
(* The computation on the way: the calls in progress are a path, what has  *)
(* been visited is sorted, and every answer so far is right.               *)
THEOREM GraphInvariant == Spec => []GraphInv
  BY InvInit, InvNext, PTL DEF Spec

(* topological_order (lib/dag.py) raises on a cycle and only then, and     *)
(* otherwise returns every stage once, after its dependencies.             *)
THEOREM OrderSorted == Spec => []OrderIsTopological
<1>1. GraphInv => OrderIsTopological
  <2> SUFFICES ASSUME GraphInv
               PROVE  OrderIsTopological
    OBVIOUS
  <2> USE DEF GraphInv
  <2>1. at \in States
    BY DEF Typed
  <2>2. at \notin {"loading", "ordering"} => (at = "cycle" <=> ~Graph!Acyclic)
    <3>1. at = "cycle" => ~Graph!Acyclic
      BY DEF Sorted
    <3>2. at \in {"ordered", "unknown", "narrowing", "narrowed"} => Graph!Acyclic
      BY SortedGraph
    <3> QED
      BY <2>1, <3>1, <3>2 DEF States
  <2>3. at \notin {"loading", "ordering", "cycle"} => ToSet(order) = Stage
    <3>1. ToSet(order) \subseteq Stage
      BY DEF Typed, ToSet
    <3> QED
      BY <2>1, <3>1 DEF States, Phases, Sorted
  <2>4. /\ IsInjective(order)
        /\ \A i, j \in DOMAIN order : order[i] \in DependsOn[order[j]] => i < j
    BY DEF Sorted
  <2> QED
    BY <2>2, <2>3, <2>4 DEF OrderIsTopological
<1> QED
  BY <1>1, GraphInvariant, PTL

(* reachable_from (lib/dag.py) returns start_from and what depends on it   *)
(* through any number of stages, as the scheduler's model defines a run's  *)
(* range.                                                                  *)
THEOREM RangeReachable == Spec => []RangeIsReachable
<1>1. GraphInv => RangeIsReachable
  BY DEF GraphInv, Answers, RangeIsReachable
<1> QED
  BY <1>1, GraphInvariant, PTL

-----------------------------------------------------------------------------
(* The picture.                                                            *)

(* A stage is one further from the left than the furthest of those it      *)
(* depends on.                                                             *)
RightDepth(n) ==
  /\ n \in Stage /\ depth[n] \in Nat
  /\ InGraph(n) \subseteq DOMAIN depth
  /\ \A m \in InGraph(n) : depth[m] < depth[n]
  /\ \/ InGraph(n) = {} /\ depth[n] = 0
     \/ \E m \in InGraph(n) : depth[n] = depth[m] + 1

RightColumn(n, c) ==
  \/ n \in Externals /\ c = 0
  \/ n \in Stage /\ c = depth[n] + Shift

(* What is known of the picture from what is being computed.               *)
Drawing ==
  /\ drawing \in {"no", "depths", "nodes", "drawn"}
  /\ drawing # "no" => at = "ordered"
  /\ drawing = "no" => DOMAIN depth = {}
  /\ drawing \in {"no", "depths"} => DOMAIN levels = {}
  /\ drawing \in {"nodes", "drawn"} => DOMAIN depth = Stage
  /\ drawing = "drawn" => Externals \cup Stage \subseteq Placed

(* Every node put so far is in its column, and once.                       *)
Columns ==
  /\ DOMAIN levels \subseteq Nat
  /\ \A c \in DOMAIN levels : levels[c] \in Seq(Name) /\ levels[c] # <<>>
  /\ \A c \in DOMAIN levels : \A i \in DOMAIN levels[c] : RightColumn(levels[c][i], c)
  /\ \A c, d \in DOMAIN levels : \A i \in DOMAIN levels[c], j \in DOMAIN levels[d] :
       levels[c][i] = levels[d][j] => c = d /\ i = j

PictureInv ==
  /\ Drawing /\ Columns
  /\ \A n \in DOMAIN depth : RightDepth(n)

(* A finite set of numbers has a greatest one.                             *)
LEMMA Greatest ==
  ASSUME NEW P \in SUBSET Nat, P # {}, IsFiniteSet(P)
  PROVE  Max(P) \in P /\ \A m \in P : m <= Max(P)
<1> DEFINE Above(x) == {y \in P : y > x}
           T == {Above(x) : x \in P}
<1>1. IsWellFoundedOn(StrictSubsetOrdering(Nat), FiniteSubsetsOf(Nat))
  BY FS_StrictSubsetOrderingWellFounded
<1>2. T \subseteq FiniteSubsetsOf(Nat) /\ T # {}
  <2>1. \A x \in P : Above(x) \subseteq Nat /\ IsFiniteSet(Above(x))
    BY FS_Subset
  <2> QED
    BY <2>1 DEF FiniteSubsetsOf
<1>3. \E x \in T : \A y \in T : ~ (<<y, x>> \in StrictSubsetOrdering(Nat))
  BY <1>1, <1>2, WFMin
<1>4. PICK x \in P :
        \A y \in P : ~ (<<Above(y), Above(x)>> \in StrictSubsetOrdering(Nat))
  BY <1>3
<1>5. ASSUME NEW y \in P, y > x
      PROVE  FALSE
  <2>1. Above(x) \in SUBSET Nat /\ Above(y) \in SUBSET Nat
    OBVIOUS
  <2>2. Above(y) \subseteq Above(x) /\ y \in Above(x) /\ y \notin Above(y)
    <3>1. x \in Nat /\ y \in Nat
      OBVIOUS
    <3>2. \A z \in Nat : z > y => z > x
      BY <3>1, <1>5
    <3>3. ~(y > y)
      BY <3>1
    <3> QED
      BY <3>2, <3>3, <1>5
  <2> QED
    BY <2>1, <2>2, <1>4 DEF StrictSubsetOrdering
<1>6. \A y \in P : x >= y
  BY <1>5
<1>7. Max(P) \in P /\ \A y \in P : Max(P) >= y
  BY <1>6 DEF Max
<1> QED
  BY <1>7

(* The dependencies of a stage are finitely many, and so are their depths. *)
LEMMA DepthsFinite ==
  ASSUME registry \in Seq(StageDef), NEW n \in Stage
  PROVE  IsFiniteSet(Depths(n))
<1> DEFINE s == Dependencies(n)
<1>1. s \in Seq(Name)
  BY GraphOfRegistry
<1>2. IsFiniteSet(1..Len(s)) /\ DOMAIN s = 1..Len(s)
  BY <1>1, FS_Interval
<1> DEFINE D == {depth[s[i]] : i \in DOMAIN s}
           f == [i \in DOMAIN s |-> depth[s[i]]]
<1>3. IsFiniteSet(D)
  <2>1. f \in Surjection(DOMAIN s, D)
    BY DEF Surjection
  <2> QED
    BY <2>1, <1>2, FS_Surjection
<1>4. Depths(n) \subseteq D
  BY DEF Depths, InGraph, ToSet
<1> QED
  BY <1>3, <1>4, FS_Subset

(* The steps of the picture leave the graph alone.                         *)
LEMMA SamePicture ==
  ASSUME registry' = registry
  PROVE  /\ Stage' = Stage /\ Externals' = Externals /\ Shift' = Shift
         /\ \A n : InGraph(n)' = InGraph(n)
<1>1. Stage' = Stage /\ DependsOn' = DependsOn
  BY SameGraph
<1>2. Externals' = Externals
  BY <1>1 DEF Externals
<1>3. Shift' = Shift
  BY <1>2 DEF Shift
<1>4. \A n : InGraph(n)' = InGraph(n)
  BY <1>1 DEF InGraph, Dependencies, ByName
<1> QED
  BY <1>1, <1>2, <1>3, <1>4

LEMMA InGraphIsDependsOn ==
  ASSUME registry \in Seq(StageDef), NEW n \in Stage
  PROVE  InGraph(n) = DependsOn[n] \cap Stage
  BY GraphOfRegistry DEF InGraph

(* The list is sorted, so what a stage depends on has its depth before it. *)
LEMMA DepthOfInv ==
  ASSUME GraphInv, PictureInv, NEW n, DepthOf(n)
  PROVE  PictureInv'
<1> USE DEF GraphInv, PictureInv
<1>1. /\ drawing = "depths" /\ drawing' = "depths" /\ at = "ordered" /\ at' = at
      /\ DOMAIN levels = {} /\ levels' = levels /\ registry' = registry
      /\ registry \in Seq(StageDef)
      /\ depth' = [m \in DOMAIN depth \cup {n} |->
                     IF m = n THEN DepthAfter(n) ELSE depth[m]]
  BY DEF DepthOf, Drawing, Typed, vars
<1>2. PICK i \in DOMAIN order :
        /\ order[i] = n /\ n \in Stage \ DOMAIN depth
        /\ \A k \in 1..(i - 1) : order[k] \notin Stage \ DOMAIN depth
  BY DEF DepthOf, First
<1>3. /\ Stage' = Stage /\ Externals' = Externals /\ Shift' = Shift
      /\ \A m : InGraph(m)' = InGraph(m)
  BY <1>1, SamePicture
<1>4. InGraph(n) \subseteq DOMAIN depth
  <2> SUFFICES ASSUME NEW m \in InGraph(n)
               PROVE  m \in DOMAIN depth
    OBVIOUS
  <2>1. m \in Stage /\ m \in DependsOn[n]
    BY <1>1, <1>2, InGraphIsDependsOn
  <2>2. PICK j \in DOMAIN order : order[j] = m
    BY <1>1, <2>1 DEF Phases, Sorted, ToSet
  <2>3. j < i
    BY <1>2, <2>1, <2>2 DEF Sorted
  <2>4. j \in 1..(i - 1)
    <3>1. DOMAIN order = 1..Len(order) /\ Len(order) \in Nat
      BY DEF Typed
    <3> QED
      BY <2>3, <3>1
  <2> QED
    BY <1>2, <2>1, <2>2, <2>4
<1>5. \A m \in DOMAIN depth : m # n /\ depth'[m] = depth[m]
  BY <1>1, <1>2
<1>6. RightDepth(n)'
  <2>1. n \in Stage /\ depth'[n] = DepthAfter(n) /\ n \in DOMAIN depth'
    BY <1>1, <1>2
  <2>2. Depths(n) \subseteq Nat
    BY <1>4 DEF Depths, RightDepth
  <2>3. \A m \in InGraph(n) : depth'[m] = depth[m] /\ depth[m] \in Depths(n)
    BY <1>4, <1>5 DEF Depths
  <2>4. InGraph(n) \subseteq DOMAIN depth'
    BY <1>1, <1>4
  <2>5. CASE InGraph(n) = {}
    BY <2>1, <2>5, <1>3 DEF RightDepth, DepthAfter
  <2>6. CASE InGraph(n) # {}
    <3>1. Depths(n) # {}
      BY <2>6 DEF Depths
    <3>2. Max(Depths(n)) \in Depths(n) /\ \A d \in Depths(n) : d <= Max(Depths(n))
      BY <1>1, <1>2, <2>2, <3>1, DepthsFinite, Greatest
    <3>3. depth'[n] = 1 + Max(Depths(n)) /\ Max(Depths(n)) \in Nat
      BY <2>1, <2>2, <2>6, <3>2 DEF DepthAfter
    <3>4. PICK m \in InGraph(n) : depth[m] = Max(Depths(n))
      BY <3>2 DEF Depths
    <3>5. \A l \in InGraph(n) : depth'[l] < depth'[n]
      BY <2>2, <2>3, <3>2, <3>3
    <3>6. depth'[n] = depth'[m] + 1 /\ depth'[n] \in Nat
      BY <2>3, <3>3, <3>4
    <3> QED
      BY <2>1, <2>4, <3>5, <3>6, <1>3 DEF RightDepth
  <2> QED
    BY <2>5, <2>6
<1>7. ASSUME NEW m \in DOMAIN depth
      PROVE  RightDepth(m)'
  <2>1. RightDepth(m)
    OBVIOUS
  <2>2. InGraph(m) \subseteq DOMAIN depth /\ InGraph(m) \subseteq DOMAIN depth'
    BY <2>1, <1>1 DEF RightDepth
  <2>3. \A l \in InGraph(m) : depth'[l] = depth[l]
    BY <2>2, <1>5
  <2> QED
    BY <2>1, <2>2, <2>3, <1>3, <1>5 DEF RightDepth
<1>8. \A m \in DOMAIN depth' : RightDepth(m)'
  BY <1>1, <1>6, <1>7
<1>9. Drawing'
  BY <1>1 DEF Drawing
<1>10. Columns'
  BY <1>1 DEF Columns
<1> QED
  BY <1>8, <1>9, <1>10

(* A node that has been put is in its column.                              *)
LEMMA PlacedIn ==
  ASSUME Columns, NEW n \in Placed
  PROVE  \E c \in DOMAIN levels :
           /\ c \in Nat /\ RightColumn(n, c)
           /\ \E i \in DOMAIN levels[c] : levels[c][i] = n
<1>1. PICK c \in DOMAIN levels : n \in ToSet(levels[c])
  BY DEF Placed
<1>2. PICK i \in DOMAIN levels[c] : levels[c][i] = n
  BY <1>1 DEF ToSet
<1> QED
  BY <1>2 DEF Columns

(* A node that has not been put yet is put into its column.                *)
LEMMA PushInv ==
  ASSUME Columns, NEW c \in Nat, NEW n \in Name, n \notin Placed,
         RightColumn(n, c), Push(c, n)
  PROVE  Columns'
<1> DEFINE old == IF c \in DOMAIN levels THEN levels[c] ELSE <<>>
<1>1. /\ registry' = registry /\ depth' = depth
      /\ DOMAIN levels' = DOMAIN levels \cup {c}
      /\ levels'[c] = Append(old, n)
      /\ \A d \in DOMAIN levels : d # c => levels'[d] = levels[d]
  BY DEF Push, vars
<1>2. \A m, d : RightColumn(m, d)' <=> RightColumn(m, d)
  BY <1>1, SamePicture DEF RightColumn
<1>3. old \in Seq(Name)
  BY DEF Columns
<1>4. /\ levels'[c] \in Seq(Name) /\ levels'[c] # <<>>
      /\ DOMAIN levels'[c] = 1..(Len(old) + 1)
      /\ levels'[c][Len(old) + 1] = n
      /\ \A k \in 1..Len(old) : levels'[c][k] = old[k]
  <2>1. Append(old, n) # <<>>
    BY <1>3
  <2> HIDE DEF old
  <2> QED
    BY <1>1, <1>3, <2>1, Pushed
<1>5. \A d \in DOMAIN levels : \A i \in DOMAIN levels[d] : levels[d][i] # n
  BY DEF Placed, ToSet
<1>6. ASSUME NEW d \in DOMAIN levels', NEW i \in DOMAIN levels'[d]
      PROVE  \/ d = c /\ i = Len(old) + 1 /\ levels'[d][i] = n
             \/ /\ d \in DOMAIN levels /\ i \in DOMAIN levels[d]
                /\ levels'[d][i] = levels[d][i] /\ levels'[d][i] # n
  <2>1. CASE d # c
    BY <2>1, <1>1, <1>5
  <2>2. CASE d = c /\ i # Len(old) + 1
    <3>1. Len(old) \in Nat /\ i \in 1..(Len(old) + 1)
      BY <2>2, <1>3, <1>4
    <3>2. i \in 1..Len(old)
      BY <3>1, <2>2
    <3>3. c \in DOMAIN levels /\ old = levels[c]
      BY <3>2
    <3>4. i \in DOMAIN levels[c]
      BY <3>2, <3>3, <1>3
    <3> QED
      BY <2>2, <3>2, <3>3, <3>4, <1>4, <1>5
  <2>3. CASE d = c /\ i = Len(old) + 1
    BY <2>3, <1>4
  <2> QED
    BY <2>1, <2>2, <2>3
<1> HIDE DEF old
<1>7. DOMAIN levels' \subseteq Nat
  BY <1>1 DEF Columns
<1>8. \A d \in DOMAIN levels' : levels'[d] \in Seq(Name) /\ levels'[d] # <<>>
  BY <1>1, <1>4 DEF Columns
<1>9. \A d \in DOMAIN levels' : \A i \in DOMAIN levels'[d] :
        RightColumn(levels'[d][i], d)
  BY <1>6 DEF Columns
<1>10. \A d, e \in DOMAIN levels' : \A i \in DOMAIN levels'[d], j \in DOMAIN levels'[e] :
         levels'[d][i] = levels'[e][j] => d = e /\ i = j
  <2> SUFFICES ASSUME NEW d \in DOMAIN levels', NEW e \in DOMAIN levels',
                      NEW i \in DOMAIN levels'[d], NEW j \in DOMAIN levels'[e],
                      levels'[d][i] = levels'[e][j]
               PROVE  d = e /\ i = j
    OBVIOUS
  <2>1. CASE levels'[d][i] = n
    <3>1. d = c /\ i = Len(old) + 1
      BY <2>1, <1>6
    <3>2. e = c /\ j = Len(old) + 1
      BY <2>1, <1>6
    <3> QED
      BY <3>1, <3>2
  <2>2. CASE levels'[d][i] # n
    <3>1. /\ d \in DOMAIN levels /\ i \in DOMAIN levels[d]
          /\ e \in DOMAIN levels /\ j \in DOMAIN levels[e]
          /\ levels[d][i] = levels[e][j]
      BY <2>2, <1>6
    <3> QED
      BY <3>1 DEF Columns
  <2> QED
    BY <2>1, <2>2
<1> QED
  BY <1>2, <1>7, <1>8, <1>9, <1>10 DEF Columns

LEMMA PlaceInv ==
  ASSUME GraphInv, PictureInv, NEW n \in Name, PlaceExternal(n) \/ PlaceStage(n)
  PROVE  PictureInv'
<1> USE DEF GraphInv, PictureInv
<1> DEFINE c == IF PlaceExternal(n) THEN 0 ELSE depth[n] + Shift
<1>1. /\ drawing = "nodes" /\ Push(c, n) /\ n \notin Placed
      /\ \/ n \in Externals /\ c = 0
         \/ n \in Stage /\ c = depth[n] + Shift
  BY DEF PlaceExternal, PlaceStage, First
<1>2. c \in Nat /\ RightColumn(n, c)
  <2>1. n \in Stage => depth[n] \in Nat
    BY <1>1 DEF Drawing, RightDepth
  <2>2. Shift \in Nat
    BY DEF Shift
  <2> QED
    BY <1>1, <2>1, <2>2 DEF RightColumn
<1> HIDE DEF c
<1>3. /\ drawing' = drawing /\ depth' = depth /\ registry' = registry /\ at' = at
  BY <1>1 DEF Push, vars
<1>4. Columns'
  BY <1>1, <1>2, PushInv
<1>5. Drawing'
  BY <1>1, <1>3, SamePicture DEF Drawing
<1>6. \A m \in DOMAIN depth' : RightDepth(m)'
  BY <1>3, SamePicture DEF RightDepth
<1> QED
  BY <1>4, <1>5, <1>6

(* No column is left out below one that is used: a node in it is right     *)
(* after another.                                                          *)
LEMMA NoGap ==
  ASSUME PictureInv, drawing = "nodes", Externals \cup Stage \subseteq Placed,
         NEW d \in DOMAIN levels, NEW c \in 0..d
  PROVE  c \in DOMAIN levels
<1> USE DEF PictureInv
<1> SUFFICES ASSUME c \notin DOMAIN levels
             PROVE  FALSE
  OBVIOUS
<1> DEFINE G == {e \in DOMAIN levels : e > c}
<1>1. DOMAIN levels \subseteq Nat /\ d \in Nat /\ c \in Nat
  BY DEF Columns
<1>2. G \subseteq Nat /\ d \in G
  BY <1>1
<1>3. PICK e \in G : \A f \in G : e <= f
  BY <1>2, Least
<1>4. e \in Nat /\ e > c /\ e - 1 \in Nat /\ e # 0
  BY <1>1
<1>5. \A f \in DOMAIN levels : f # e - 1
  <2> SUFFICES ASSUME NEW f \in DOMAIN levels, f = e - 1
               PROVE  FALSE
    OBVIOUS
  <2>1. f \in Nat /\ f # c
    BY <1>1
  <2>2. f \in G
    BY <2>1, <1>1, <1>4
  <2> QED
    BY <2>1, <2>2, <1>3, <1>4
<1>6. PICK n : RightColumn(n, e)
  <2>1. levels[e] \in Seq(Name) /\ levels[e] # <<>>
    BY DEF Columns
  <2>2. 1 \in DOMAIN levels[e]
    BY <2>1
  <2> QED
    BY <2>2 DEF Columns
<1>7. n \in Stage /\ e = depth[n] + Shift /\ RightDepth(n)
  BY <1>4, <1>6 DEF RightColumn, Drawing
<1>8. \A m \in Stage : depth[m] + Shift \in DOMAIN levels
  <2> TAKE m \in Stage
  <2>1. m \in Placed /\ m \notin Externals
    BY DEF Externals
  <2> QED
    BY <2>1, PlacedIn DEF RightColumn
<1>9. CASE depth[n] = 0
  <2>1. Shift = 1 /\ Externals # {} /\ e = 1
    BY <1>4, <1>7, <1>9 DEF Shift
  <2>2. PICK x \in Externals : x \in Placed /\ x \notin Stage
    BY <2>1 DEF Externals
  <2>3. 0 \in DOMAIN levels
    BY <2>2, PlacedIn DEF RightColumn
  <2> QED
    BY <2>1, <2>3, <1>5
<1>10. CASE depth[n] # 0
  <2>1. PICK m \in InGraph(n) : depth[n] = depth[m] + 1
    BY <1>7, <1>10 DEF RightDepth
  <2>2. m \in Stage /\ depth[m] \in Nat /\ Shift \in Nat
    BY DEF InGraph, Drawing, RightDepth, Shift
  <2>3. depth[m] + Shift = e - 1
    BY <2>1, <2>2, <1>7
  <2> QED
    BY <2>2, <2>3, <1>5, <1>8
<1> QED
  BY <1>9, <1>10

LEMMA FillColumnsInv ==
  ASSUME PictureInv, FillColumns
  PROVE  PictureInv'
<1> USE DEF PictureInv
<1>1. /\ drawing = "nodes" /\ drawing' = "drawn" /\ depth' = depth
      /\ registry' = registry /\ at' = at /\ Externals \cup Stage \subseteq Placed
      /\ levels' = [c \in UNION {0..d : d \in DOMAIN levels} |->
                      IF c \in DOMAIN levels THEN levels[c] ELSE <<>>]
  BY DEF FillColumns, vars
<1>2. UNION {0..d : d \in DOMAIN levels} = DOMAIN levels
  <2>1. \A d \in DOMAIN levels : d \in 0..d
    BY DEF Columns
  <2>2. \A d \in DOMAIN levels : \A c \in 0..d : c \in DOMAIN levels
    BY <1>1, NoGap
  <2> QED
    BY <2>1, <2>2
<1>3. DOMAIN levels' = DOMAIN levels /\ \A c \in DOMAIN levels : levels'[c] = levels[c]
  BY <1>1, <1>2
<1>4. Placed' = Placed
  BY <1>3 DEF Placed
<1>5. /\ Stage' = Stage /\ Externals' = Externals
      /\ \A m, c : RightColumn(m, c)' <=> RightColumn(m, c)
      /\ \A m : RightDepth(m)' <=> RightDepth(m)
  BY <1>1, SamePicture DEF RightColumn, RightDepth
<1>6. Columns'
  BY <1>3, <1>5 DEF Columns
<1>7. Drawing'
  BY <1>1, <1>4, <1>5 DEF Drawing
<1> QED
  BY <1>1, <1>5, <1>6, <1>7

LEMMA PictureInvInit == PictureInit => GraphInv /\ PictureInv
<1> SUFFICES ASSUME PictureInit
             PROVE  PictureInv
  BY InvInit DEF PictureInit
<1>1. drawing = "no" /\ DOMAIN depth = {} /\ DOMAIN levels = {}
  BY DEF PictureInit
<1> QED
  BY <1>1 DEF PictureInv, Drawing, Columns

LEMMA PictureInvNext ==
  GraphInv /\ PictureInv /\ [PictureNext]_<<vars, picture>> => GraphInv' /\ PictureInv'
<1> SUFFICES ASSUME GraphInv, PictureInv, [PictureNext]_<<vars, picture>>
             PROVE  GraphInv' /\ PictureInv'
  OBVIOUS
<1>1. GraphInv'
  <2>1. [Next]_vars
    BY DEF PictureNext, Draw, DepthOf, DepthsReturned, PlaceExternal, PlaceStage,
           Push, FillColumns
  <2> QED
    BY <2>1, InvNext
<1>2. CASE Next /\ drawing = "no" /\ UNCHANGED picture
  BY <1>1, <1>2 DEF PictureInv, Drawing, Columns, picture
<1>3. CASE Draw \/ DepthsReturned \/ UNCHANGED <<vars, picture>>
  <2>1. /\ depth' = depth /\ levels' = levels /\ registry' = registry /\ at' = at
    BY <1>3 DEF Draw, DepthsReturned, vars, picture
  <2>2. /\ Stage' = Stage /\ Externals' = Externals /\ Placed' = Placed
        /\ \A m, c : RightColumn(m, c)' <=> RightColumn(m, c)
        /\ \A m : RightDepth(m)' <=> RightDepth(m)
    BY <2>1, SamePicture DEF RightColumn, RightDepth, Placed
  <2>3. Columns' /\ \A m \in DOMAIN depth' : RightDepth(m)'
    BY <2>1, <2>2 DEF PictureInv, Columns
  <2>4. Drawing'
    <3>1. CASE Draw
      BY <3>1, <2>1, <2>2 DEF Draw, PictureInv, Drawing
    <3>2. CASE DepthsReturned
      <4>1. DOMAIN depth \subseteq Stage
        BY DEF PictureInv, RightDepth
      <4> QED
        BY <3>2, <4>1, <2>1, <2>2 DEF DepthsReturned, PictureInv, Drawing
    <3>3. CASE UNCHANGED <<vars, picture>>
      BY <3>3, <2>1, <2>2 DEF PictureInv, Drawing, picture
    <3> QED
      BY <3>1, <3>2, <3>3, <1>3
  <2> QED
    BY <1>1, <2>3, <2>4 DEF PictureInv
<1>4. CASE \E n \in Name : DepthOf(n) \/ PlaceExternal(n) \/ PlaceStage(n)
  BY <1>1, <1>4, DepthOfInv, PlaceInv
<1>5. CASE FillColumns
  BY <1>1, <1>5, FillColumnsInv
<1> QED
  BY <1>1, <1>2, <1>3, <1>4, <1>5 DEF PictureNext

(* The picture on the way, next to the graph it is drawn of: depths are    *)
(* right as soon as they are known, and every node put so far is in the    *)
(* column of its depth, once.                                              *)
THEOREM PictureInvariant == PictureSpec => [](GraphInv /\ PictureInv)
  BY PictureInvInit, PictureInvNext, PTL DEF PictureSpec

(* What the web UI draws (dagLayout.js) has every stage and every external *)
(* resource in one place, edges that only go right, and each stage right   *)
(* after one it depends on, with no empty column.                          *)
THEOREM PictureSound == PictureSpec => []PictureIsSound
<1>1. GraphInv /\ PictureInv => PictureIsSound
  <2> SUFFICES ASSUME GraphInv, PictureInv, drawing = "drawn"
               PROVE  /\ \A c \in DOMAIN levels : levels[c] # <<>>
                      /\ \A n \in Stage \cup Externals :
                           \E c \in DOMAIN levels : \E i \in DOMAIN levels[c] :
                             \A d \in DOMAIN levels : \A j \in DOMAIN levels[d] :
                               levels[d][j] = n <=> <<d, j>> = <<c, i>>
                      /\ \A e \in Edges : \A c, d \in DOMAIN levels :
                           In(e[1], c) /\ In(e[2], d) => c < d
                      /\ \A n \in Stage : \A c \in DOMAIN levels :
                           In(n, c) => \/ InGraph(n) = {} /\ c = Shift
                                       \/ \E m \in InGraph(n) : In(m, c - 1)
    BY DEF PictureIsSound
  <2> USE DEF GraphInv, PictureInv
  <2>1. /\ DOMAIN depth = Stage /\ Externals \cup Stage \subseteq Placed
        /\ registry \in Seq(StageDef) /\ Shift \in {0, 1}
    BY DEF Drawing, Typed, Shift
  <2>2. \A n, c : In(n, c) => RightColumn(n, c) /\ c \in Nat
    BY DEF In, ToSet, Columns
  <2>3. \A n \in Stage : n \notin Externals /\ depth[n] \in Nat /\ RightDepth(n)
    BY <2>1 DEF Externals, RightDepth
  <2>4. \A n \in Stage : \A c : In(n, c) => c = depth[n] + Shift
    BY <2>2, <2>3 DEF RightColumn
  <2>5. ASSUME NEW n \in Stage
        PROVE  In(n, depth[n] + Shift)
    <3>1. PICK c \in DOMAIN levels : \E i \in DOMAIN levels[c] : levels[c][i] = n
      BY <2>1, PlacedIn
    <3>2. In(n, c)
      BY <3>1 DEF In, ToSet
    <3> QED
      BY <3>2, <2>4
  <2>6. \A c \in DOMAIN levels : levels[c] # <<>>
    BY DEF Columns
  <2>7. ASSUME NEW n \in Stage \cup Externals
        PROVE  \E c \in DOMAIN levels : \E i \in DOMAIN levels[c] :
                 \A d \in DOMAIN levels : \A j \in DOMAIN levels[d] :
                   levels[d][j] = n <=> <<d, j>> = <<c, i>>
    <3>1. PICK c \in DOMAIN levels : \E i \in DOMAIN levels[c] : levels[c][i] = n
      BY <2>1, PlacedIn
    <3>2. PICK i \in DOMAIN levels[c] : levels[c][i] = n
      BY <3>1
    <3>3. ASSUME NEW d \in DOMAIN levels, NEW j \in DOMAIN levels[d]
          PROVE  levels[d][j] = n <=> d = c /\ j = i
      BY <3>2 DEF Columns
    <3> QED
      BY <3>3
  <2>8. ASSUME NEW e \in Edges, NEW c \in DOMAIN levels, NEW d \in DOMAIN levels,
               In(e[1], c), In(e[2], d)
        PROVE  c < d
    <3>1. e[2] \in Stage /\ e[1] \in DependsOn[e[2]]
      BY DEF Edges
    <3>2. d = depth[e[2]] + Shift
      BY <3>1, <2>4, <2>8
    <3>3. CASE e[1] \in Stage
      <4>1. e[1] \in InGraph(e[2])
        BY <3>1, <3>3, <2>1, InGraphIsDependsOn
      <4>2. depth[e[1]] < depth[e[2]] /\ depth[e[1]] \in Nat /\ depth[e[2]] \in Nat
        BY <3>1, <3>3, <4>1, <2>3 DEF RightDepth
      <4>3. c = depth[e[1]] + Shift
        BY <3>3, <2>4, <2>8
      <4> QED
        BY <4>2, <4>3, <3>2, <2>1
    <3>4. CASE e[1] \notin Stage
      <4>1. e[1] \in Externals
        BY <3>1, <3>4 DEF Externals
      <4>2. c = 0 /\ Shift = 1
        BY <3>4, <4>1, <2>2, <2>8 DEF RightColumn, Shift
      <4> QED
        BY <4>2, <3>1, <3>2, <2>3
    <3> QED
      BY <3>3, <3>4
  <2>9. ASSUME NEW n \in Stage, NEW c \in DOMAIN levels, In(n, c)
        PROVE  \/ InGraph(n) = {} /\ c = Shift
               \/ \E m \in InGraph(n) : In(m, c - 1)
    <3>1. c = depth[n] + Shift
      BY <2>4, <2>9
    <3>2. CASE InGraph(n) = {} /\ depth[n] = 0
      BY <3>1, <3>2, <2>1
    <3>3. CASE \E m \in InGraph(n) : depth[n] = depth[m] + 1
      <4>1. PICK m \in InGraph(n) : depth[n] = depth[m] + 1
        BY <3>3
      <4>2. m \in Stage /\ depth[m] \in Nat
        BY <2>3 DEF InGraph
      <4>3. depth[m] + Shift = c - 1
        BY <4>1, <4>2, <3>1, <2>1
      <4> QED
        BY <4>2, <4>3, <2>5
    <3> QED
      BY <3>2, <3>3, <2>3 DEF RightDepth
  <2> QED
    BY <2>6, <2>7, <2>8, <2>9
<1> QED
  BY <1>1, PictureInvariant, PTL
=============================================================================
