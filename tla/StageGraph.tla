------------------------------ MODULE StageGraph ------------------------------
(***************************************************************************)
(* The stages a workflow's module registers (lib/stages.py), and the order *)
(* and the sub-graph that lib/dag.py computes from them, as its functions  *)
(* run: one step is a call of visit or depends_on_start, or its return.    *)
(* What they must compute is stated with the definitions of Workflow,      *)
(* which the scheduler's model uses.                                       *)
(***************************************************************************)
EXTENDS Naturals, Sequences, SequencesExt

CONSTANTS
  Name,      \* resource names
  StageName, \* the names a stage may be registered under
  MaxDeps    \* bound: names in a depends_on

ASSUME GraphAssumption == StageName \subseteq Name /\ MaxDeps \in Nat

VARIABLES
  registry,   \* StageRegistry._stages: StageDefs in the order of the dict
  at,         \* what is being or has been computed
  stack,      \* the calls in progress, each of its argument
  visited,    \* visit's set of that name
  order,      \* the names, as topological_order returns them
  start_from, \* the argument of reachable_from
  memo,       \* depends_on_start's dict: "true", "false" or not in it
  range       \* what reachable_from returns

vars == <<registry, at, stack, visited, order, start_from, memo, range>>

StageDef == [name : StageName, depends_on : UNION {[1..k -> Name] : k \in 0..MaxDeps}]

Names(stages) == {stages[i].name : i \in DOMAIN stages}
ByName(stages, n) == CHOOSE d \in ToSet(stages) : d.name = n

(* The graph as the scheduler's model knows it.                            *)
Stage == Names(registry)
DependsOn == [n \in Stage |-> ToSet(ByName(registry, n).depends_on)]

Graph ==
  INSTANCE Workflow WITH
    Run <- {}, Request <- {}, None <- "none", DefaultOnFailure <- "halt"

-----------------------------------------------------------------------------
(* A loop over s that passes over what is not in S comes to x.             *)
First(s, S, x) ==
  \E i \in DOMAIN s : s[i] = x /\ x \in S /\ \A k \in 1..(i - 1) : s[k] \notin S

StageNames == [i \in DOMAIN registry |-> registry[i].name]
Dependencies(n) == ByName(registry, n).depends_on

(* The call on top of the stack.                                           *)
Current == Last(stack)
Call(n) == stack' = Append(stack, n)
Return == stack' = Front(stack)

Init ==
  /\ registry = <<>>
  /\ at = "loading"
  /\ stack = <<>> /\ visited = {} /\ order = <<>>
  /\ start_from = "none"
  /\ memo = [n \in Name |-> "unset"]
  /\ range = {}

(* The decorator `stage`: a name that is registered again keeps its place. *)
Register(d) ==
  /\ at = "loading"
  /\ registry' = IF d.name \in Stage
                 THEN [i \in DOMAIN registry |->
                         IF registry[i].name = d.name THEN d ELSE registry[i]]
                 ELSE Append(registry, d)
  /\ UNCHANGED <<at, stack, visited, order, start_from, memo, range>>

-----------------------------------------------------------------------------
(* topological_order, as list_stages and _load_graph call it.              *)
ListStages ==
  /\ at = "loading"
  /\ at' = "ordering"
  /\ UNCHANGED <<registry, stack, visited, order, start_from, memo, range>>

(* The loop over all stages visits one.                                    *)
VisitStage(n) ==
  /\ at = "ordering" /\ stack = <<>>
  /\ First(StageNames, Stage \ visited, n)
  /\ Call(n)
  /\ UNCHANGED <<registry, at, visited, order, start_from, memo, range>>

(* A visit visits a dependency: in_progress has the calls on the stack.    *)
VisitDependency(n) ==
  /\ at = "ordering" /\ stack # <<>>
  /\ First(Dependencies(Current), Stage \ visited, n)
  /\ n \notin ToSet(stack)
  /\ Call(n)
  /\ UNCHANGED <<registry, at, visited, order, start_from, memo, range>>

RaiseCycle(n) ==
  /\ at = "ordering" /\ stack # <<>>
  /\ First(Dependencies(Current), Stage \ visited, n)
  /\ n \in ToSet(stack)
  /\ at' = "cycle"
  /\ UNCHANGED <<registry, stack, visited, order, start_from, memo, range>>

(* Mutant of VisitReturns: without waiting for the dependencies that are   *)
(* being visited.                                                          *)
VisitReturnsEarly ==
  /\ at = "ordering" /\ stack # <<>>
  /\ ToSet(Dependencies(Current)) \cap Stage \subseteq visited \cup ToSet(stack)
  /\ Return
  /\ visited' = visited \cup {Current}
  /\ order' = Append(order, Current)
  /\ UNCHANGED <<registry, at, start_from, memo, range>>

VisitReturns ==
  /\ at = "ordering" /\ stack # <<>>
  /\ ToSet(Dependencies(Current)) \cap Stage \subseteq visited
  /\ Return
  /\ visited' = visited \cup {Current}
  /\ order' = Append(order, Current)
  /\ UNCHANGED <<registry, at, start_from, memo, range>>

OrderReturned ==
  /\ at = "ordering" /\ stack = <<>>
  /\ Stage \subseteq visited
  /\ at' = "ordered"
  /\ UNCHANGED <<registry, stack, visited, order, start_from, memo, range>>

-----------------------------------------------------------------------------
(* reachable_from, as the poller calls it to narrow a run to the stages    *)
(* from start on.                                                          *)
Narrow(start) ==
  /\ at = "ordered"
  /\ at' = IF start \in Stage THEN "narrowing" ELSE "unknown"
  /\ start_from' = start
  /\ UNCHANGED <<registry, stack, visited, order, memo, range>>

(* The comprehension over by_name, which has the order, asks of one.       *)
AskStage(n) ==
  /\ at = "narrowing" /\ stack = <<>>
  /\ First(order, {s \in Stage : memo[s] = "unset"}, n)
  /\ Call(n)
  /\ UNCHANGED <<registry, at, visited, order, start_from, memo, range>>

(* any() has come to n: those before it do not depend on the start.        *)
Decisive(n) == First(Dependencies(Current), {s \in Stage : memo[s] # "false"}, n)

AskDependency(n) ==
  /\ at = "narrowing" /\ stack # <<>>
  /\ Current # start_from
  /\ Decisive(n)
  /\ memo[n] = "unset"
  /\ Call(n)
  /\ UNCHANGED <<registry, at, visited, order, start_from, memo, range>>

Remember(v) ==
  /\ memo' = [memo EXCEPT ![Current] = v]
  /\ Return
  /\ UNCHANGED <<registry, at, visited, order, start_from, range>>

DependsOnStart ==
  /\ at = "narrowing" /\ stack # <<>>
  /\ Current = start_from \/ \E n \in Name : Decisive(n) /\ memo[n] = "true"
  /\ Remember("true")

(* Mutant of DoesNotDependOnStart: all() for any().                        *)
NotAllDependOnStart ==
  /\ at = "narrowing" /\ stack # <<>>
  /\ Current # start_from
  /\ \/ ~\E n \in Name : Decisive(n)
     \/ \E n \in ToSet(Dependencies(Current)) \cap Stage : memo[n] = "false"
  /\ Remember("false")

DoesNotDependOnStart ==
  /\ at = "narrowing" /\ stack # <<>>
  /\ Current # start_from
  /\ ~\E n \in Name : Decisive(n)
  /\ Remember("false")

RangeReturned ==
  /\ at = "narrowing" /\ stack = <<>>
  /\ \A n \in Stage : memo[n] # "unset"
  /\ at' = "narrowed"
  /\ range' = {n \in Stage : memo[n] = "true"}
  /\ UNCHANGED <<registry, stack, visited, order, start_from, memo>>

Next ==
  \/ \E d \in StageDef : Register(d)
  \/ ListStages
  \/ \E n \in Name : VisitStage(n) \/ VisitDependency(n) \/ RaiseCycle(n)
  \/ VisitReturns \/ OrderReturned
  \/ \E n \in Name : Narrow(n) \/ AskStage(n) \/ AskDependency(n)
  \/ DependsOnStart \/ DoesNotDependOnStart \/ RangeReturned

Spec == Init /\ [][Next]_vars

-----------------------------------------------------------------------------
(* topological_order raises exactly on a cycle (a dependency that is no    *)
(* stage closes none), and otherwise returns every stage once, after the   *)
(* stages it depends on.                                                   *)
OrderIsTopological ==
  /\ at \notin {"loading", "ordering"} => (at = "cycle" <=> ~Graph!Acyclic)
  /\ at \notin {"loading", "ordering", "cycle"} =>
       /\ ToSet(order) = Stage /\ IsInjective(order)
       /\ \A i, j \in DOMAIN order :
            order[i] \in DependsOn[order[j]] => i < j

(* reachable_from returns the least set with start_from in it that is      *)
(* closed under "depends on one of them", of the scheduler's model.        *)
RangeIsReachable == at = "narrowed" => range = Graph!ReachableFrom(start_from)
=============================================================================
