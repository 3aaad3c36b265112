------------------------------ MODULE ToolOrder ------------------------------
(***************************************************************************)
(* order_tools_by_dependencies (tools/spec.rs): Kahn's algorithm over the  *)
(* tools that `jarvy setup` must install, run once per setup before the    *)
(* tools are grouped into batches.  One thread; one action per iteration   *)
(* of the `while let Some(tool)` loop, of the loop over the dependents of  *)
(* a popped tool, and of the closing length test.                          *)
(*                                                                         *)
(* A version travels with its name and is abstracted away.  An edge that   *)
(* the code enters twice (a tool named twice in the list, or named by both *)
(* dependency fields) is entered twice in the in-degree AND twice in the   *)
(* dependents of the same tool, and both copies go in the same pop; here   *)
(* it is one edge.  The dependents of a tool are taken in any order: the   *)
(* code's order comes from the iteration order of a HashMap.               *)
(***************************************************************************)
EXTENDS ToolDeps

CONSTANTS
    Tools,        \* tool names, lower-cased
    OSes,
    Registries,   \* the tool inventories
    Lists,        \* the inputs: (lower-cased) names of the tools to install
    None          \* no tool is being processed

ASSUME ToolsFinite == IsFiniteSet(Tools) /\ None \notin Tools

ASSUME RegistriesTyped == \A inv \in Registries : inv \in Inventories(Tools, OSes)

ASSUME ListsTyped == \A l \in Lists : l \in Seq(Tools)

VARIABLES
    registry,    \* the compiled-in inventory, fixed for the run
    tool_list,   \* the input, fixed for the run
    in_degree,   \* dependencies inside the list not yet released
    dependents,  \* tool -> the tools waiting for it
    queue,       \* VecDeque of the tools whose dependencies are all out
    current,     \* the popped tool whose dependents are being released
    todo,        \* the dependents of `current` still to be visited
    result,      \* the order built so far
    returned,    \* <<>> before the return, else <<the returned list>>
    warned       \* "Circular dependency detected" was printed

vars == <<registry, tool_list, in_degree, dependents, queue, current, todo,
          result, returned, warned>>

------------------------------------------------------------------------------
\* The orders in which a HashMap with these keys may be iterated.
IterationOrders(S) ==
    {q \in [1..Cardinality(S) -> S] : Names(q) = S /\ NoRepeats(q)}

tool_set == Names(tool_list)

Deps(t) == DepsIn(registry, tool_set, t)

DependentsOf(d) == {t \in tool_set : d \in Deps(t)}

Ready == {t \in tool_set : Deps(t) = {}}

------------------------------------------------------------------------------
Init ==
    /\ registry \in Registries
    /\ tool_list \in Lists
    /\ in_degree = [t \in tool_set |-> Cardinality(Deps(t))]
    /\ dependents = [d \in tool_set |-> DependentsOf(d)]
    /\ queue \in IterationOrders(Ready)
    /\ current = None
    /\ todo = {}
    /\ result = <<>>
    /\ returned = <<>>
    /\ warned = FALSE

\* queue.pop_front() and dependents.remove(&tool)
PopFront ==
    /\ current = None
    /\ queue # <<>>
    /\ current' = Head(queue)
    /\ queue' = Tail(queue)
    /\ todo' = dependents[Head(queue)]
    /\ dependents' = [dependents EXCEPT ![Head(queue)] = {}]
    /\ UNCHANGED <<registry, tool_list, in_degree, result, returned, warned>>

\* Mutant of Release: pushed back when one dependency is left.
ReleaseAtOne(t) ==
    /\ t \in todo
    /\ todo' = todo \ {t}
    /\ in_degree' = [in_degree EXCEPT ![t] = IF @ = 0 THEN 0 ELSE @ - 1]
    /\ queue' = IF in_degree'[t] <= 1 THEN Append(queue, t) ELSE queue
    /\ UNCHANGED <<registry, tool_list, dependents, current, result, returned, warned>>

\* deg.saturating_sub(1), and push_back when it reaches zero
Release(t) ==
    /\ t \in todo
    /\ todo' = todo \ {t}
    /\ in_degree' = [in_degree EXCEPT ![t] = IF @ = 0 THEN 0 ELSE @ - 1]
    /\ queue' = IF in_degree'[t] = 0 THEN Append(queue, t) ELSE queue
    /\ UNCHANGED <<registry, tool_list, dependents, current, result, returned, warned>>

\* Mutant of Emit: before the dependents of the tool have been visited.
EmitAtOnce ==
    /\ current # None
    /\ result' = Append(result, current)
    /\ current' = None
    /\ UNCHANGED <<registry, tool_list, in_degree, dependents, queue, todo, returned, warned>>

\* result.push((tool, version))
Emit ==
    /\ current # None
    /\ todo = {}
    /\ result' = Append(result, current)
    /\ current' = None
    /\ UNCHANGED <<registry, tool_list, in_degree, dependents, queue, todo, returned, warned>>

\* What the closing lines leave alone.
SortUnchanged ==
    UNCHANGED <<registry, tool_list, in_degree, dependents, queue, current, todo, result>>

\* Mutants of Return: a cycle is seen only when it keeps every tool back; what
\* was ordered is returned in any case; the loop waits for every tool.
ReturnUnlessEmpty ==
    /\ current = None /\ queue = <<>> /\ returned = <<>>
    /\ warned' = (result = <<>>)
    /\ returned' = IF result = <<>> THEN <<tool_list>> ELSE <<result>>
    /\ SortUnchanged

ReturnOrdered ==
    /\ current = None /\ queue = <<>> /\ returned = <<>>
    /\ warned' = (Len(result) # Len(tool_list))
    /\ returned' = <<result>>
    /\ SortUnchanged

ReturnWhenAll ==
    /\ current = None /\ queue = <<>> /\ returned = <<>>
    /\ Len(result) = Len(tool_list)
    /\ warned' = FALSE
    /\ returned' = <<result>>
    /\ SortUnchanged

\* The queue is empty: compare the lengths and return.
Return ==
    /\ current = None
    /\ queue = <<>>
    /\ returned = <<>>
    /\ warned' = (Len(result) # Len(tool_list))
    /\ returned' = IF Len(result) # Len(tool_list) THEN <<tool_list>> ELSE <<result>>
    /\ UNCHANGED <<registry, tool_list, in_degree, dependents, queue, current, todo, result>>

Next ==
    \/ PopFront
    \/ \E t \in Tools : Release(t)
    \/ Emit
    \/ Return

Spec == Init /\ [][Next]_vars /\ WF_vars(Next)

------------------------------------------------------------------------------
\* The types of the state, and that no dependents are left over between two pops.
TypeOK ==
    /\ registry \in Registries
    /\ tool_list \in Lists
    /\ in_degree \in [tool_set -> Nat]
    /\ dependents \in [tool_set -> SUBSET tool_set]
    /\ queue \in Seq(tool_set)
    /\ current \in tool_set \cup {None}
    /\ todo \in SUBSET tool_set
    /\ current = None => todo = {}
    /\ result \in Seq(tool_set)
    /\ returned \in Seq(Seq(tool_set))
    /\ warned \in BOOLEAN

\* The tools popped from the queue so far.
Popped == Names(result) \cup ({current} \ {None})

\* The dependencies of t that have not been released yet.
Waiting(t) ==
    {d \in tool_set : t \in dependents[d]} \cup (IF t \in todo THEN {current} ELSE {})

\* in_degree is a counter that the code never recomputes: at every iteration it
\* still equals the number of dependencies that have not been released.
CountersExact == \A t \in tool_set : in_degree[t] = Cardinality(Waiting(t))

\* Every tool that waits for nothing is queued or out, and no other tool is:
\* none is stranded with a zero count, none is queued too early.
QueueHoldsTheReady ==
    /\ \A t \in tool_set : (Waiting(t) = {} /\ t \notin Popped) <=> t \in Names(queue)
    /\ \A t \in Popped : Waiting(t) = {}

\* Whatever order the queue started in, the list built so far never places a
\* tool before something it depends on (spec.rs:1800-1806).
DependenciesFirst == InDependencyOrder(registry, tool_set, result)

\* No tool is scheduled twice, and none is both scheduled and still queued,
\* although the queue is fed from inside the loop that drains it.
ScheduledOnce ==
    /\ NoRepeats(result \o queue)
    /\ current # None => current \notin Names(result \o queue)

\* The length test of the last lines decides exactly whether the tools can be
\* ordered, when no name is in the list twice: the warning is printed, and the
\* input order returned, if and only if some tools wait for each other.
WarnsExactlyOnCycle ==
    (returned # <<>> /\ NoRepeats(tool_list)) =>
        (warned <=> HasCycle(registry, tool_set))

\* The returned list schedules every tool of the input and nothing else.
NothingLostOrInvented ==
    returned # <<>> => /\ Names(returned[1]) = tool_set
                       /\ Len(returned[1]) = Len(tool_list)

\* The rest of what holds at every iteration, for the proofs.
Distinct == NoRepeats(queue) /\ NoRepeats(result) /\ current \notin Names(result)

EdgesUntilPopped ==
    \A d \in tool_set : dependents[d] = IF d \in Popped THEN {} ELSE DependentsOf(d)

DepsPlaced ==
    \A i \in DOMAIN result : Deps(result[i]) \subseteq {result[j] : j \in 1..(i - 1)}

CurrentReady ==
    current # None => Deps(current) \subseteq Names(result) /\ todo \subseteq DependentsOf(current)

ReturnDecided ==
    /\ returned # <<>> =>
          /\ queue = <<>> /\ current = None
          /\ warned = (Len(result) # Len(tool_list))
          /\ returned = IF warned THEN <<tool_list>> ELSE <<result>>
    /\ warned => returned # <<>>

\* The inductive invariant behind the theorems of ToolOrder_proofs.
Inv ==
    /\ TypeOK
    /\ CountersExact
    /\ QueueHoldsTheReady
    /\ Distinct
    /\ EdgesUntilPopped
    /\ DepsPlaced
    /\ CurrentReady
    /\ ReturnDecided

\* What doctor and diff announce agrees with what setup then does: whatever
\* else is configured or installed already, the alternative they name as "will
\* be installed first" for a tool (spec.rs:1778-1787) is scheduled before it.
AnnouncedFlexibleFirst ==
    \A i \in DOMAIN result :
        \A installed \in SUBSET (Tools \ tool_set) :
            \A config \in {tool_set \cup E : E \in SUBSET installed} :
                LET status == DependencyStatus(registry, config, installed, result[i])
                IN  status[1] = "WillInstallFlexible" =>
                        status[2] \cap {result[j] : j \in 1..(i - 1)} # {}

\* The sort ends: every popped tool's dependents are visited and it returns.
Terminates == <>(returned # <<>>)
==============================================================================
