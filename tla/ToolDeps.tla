------------------------------ MODULE ToolDeps -------------------------------
(***************************************************************************)
(* The dependency facts of the tool registry (tools/spec.rs), as pure      *)
(* operators.  An inventory `inv` is the compiled-in table seen from one   *)
(* operating system:                                                       *)
(*   os                 the current one                                    *)
(*   depends_on         tool -> the tools it always needs                  *)
(*   depends_on_by_os   tool -> <<os, tool>> pairs                         *)
(*   depends_on_one_of  tool -> alternatives, in order of preference       *)
(* S is always the set of (lower-cased) names being installed.             *)
(***************************************************************************)
EXTENDS Naturals, Sequences, FiniteSets

Names(s) == {s[i] : i \in DOMAIN s}

NoRepeats(s) == \A i, j \in DOMAIN s : s[i] = s[j] => i = j

Inventories(Tools, OSes) ==
    [os : OSes,
     depends_on : [Tools -> SUBSET Tools],
     depends_on_by_os : [Tools -> SUBSET (OSes \X Tools)],
     depends_on_one_of : [Tools -> Seq(Tools)]]

\* merge_dependencies: the cross-platform ones and those of the current OS.
StrictDeps(inv, t) ==
    inv.depends_on[t] \cup {p[2] : p \in {q \in inv.depends_on_by_os[t] : q[1] = inv.os}}

\* The first member of the sequence that is in S: at most one element.
FirstIn(s, S) ==
    {s[i] : i \in {k \in DOMAIN s : s[k] \in S /\ \A j \in 1..(k - 1) : s[j] \notin S}}

\* Mutant of DepsIn: the flexible dependencies are left out.
StrictDepsIn(inv, S, t) == StrictDeps(inv, t) \cap S

\* The dependencies of t that count when the tools of S are installed together.
DepsIn(inv, S, t) ==
    (StrictDeps(inv, t) \cap S) \cup FirstIn(inv.depends_on_one_of[t], S)

\* check_tool_dependencies_for_os: what doctor and diff report for a tool,
\* from the configured and the installed tools.
DependencyStatus(inv, config, installed, t) ==
    LET missing == StrictDeps(inv, t) \ (installed \cup config)
        oneOf == inv.depends_on_one_of[t]
    IN  IF missing # {} THEN <<"MissingRequired", missing>>
        ELSE IF oneOf = <<>> \/ Names(oneOf) \cap installed # {} THEN <<"Satisfied", {}>>
        ELSE IF Names(oneOf) \cap config # {}
             THEN <<"WillInstallFlexible", FirstIn(oneOf, config)>>
             ELSE <<"MissingFlexible", Names(oneOf)>>

\* A set of tools each of which waits for another of the set.
IsKnot(inv, S, U) == U # {} /\ \A t \in U : DepsIn(inv, S, t) \cap U # {}

HasCycle(inv, S) == \E U \in SUBSET S : IsKnot(inv, S, U)

\* s puts every tool after all its strict dependencies in S and, when an
\* alternative of its flexible dependency is in S, after one of those.
InDependencyOrder(inv, S, s) ==
    \A i \in DOMAIN s :
        LET before == {s[j] : j \in 1..(i - 1)}
            wanted == Names(inv.depends_on_one_of[s[i]]) \cap S
        IN  /\ StrictDeps(inv, s[i]) \cap S \subseteq before
            /\ wanted # {} => wanted \cap before # {}

\* Mutant of Plans: in the order in which the config was iterated.
UnsortedPlans(inv, S) == {q \in [1..Cardinality(S) -> S] : Names(q) = S}

\* The orders of the tools of S that order_tools_by_dependencies may return, for
\* some order of the config.
Plans(inv, S) ==
    {q \in [1..Cardinality(S) -> S] :
        /\ Names(q) = S
        /\ HasCycle(inv, S) \/ InDependencyOrder(inv, S, q)}

\* The tools of s that are in T, in the order of s: what the loop of
\* group_tools_for_installation has pushed into one group after n tools.
Kept(s, T) ==
    LET kept[n \in 0..Len(s)] ==
            IF n = 0 THEN <<>>
            ELSE IF s[n] \in T THEN Append(kept[n - 1], s[n]) ELSE kept[n - 1]
    IN  kept[Len(s)]
==============================================================================
