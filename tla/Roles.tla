-------------------------------- MODULE Roles --------------------------------
(***************************************************************************)
(* RoleResolver (roles/resolver.rs): the tools of the assigned roles and of *)
(* every role they extend.  resolve_internal goes through the parents depth *)
(* first; its calls are frames of a stack here, so that a resolution is a   *)
(* value that the operators below take one call or one return further.     *)
(*                                                                          *)
(* A tool's specification is known by the role that gives it, and the chain *)
(* of a role is the set of the roles in it.  The resolver's cache only      *)
(* repeats what a resolution of the same role has returned.                 *)
(***************************************************************************)
EXTENDS Naturals, Sequences

CONSTANTS
    Roles,       \* role names, defined or not
    Tools,
    MaxDepth,    \* MAX_INHERITANCE_DEPTH
    None

ASSUME RolesTyped == MaxDepth \in Nat /\ None \notin Roles

\* [roles]: what a role extends, in order, and the tools it names; None if it is not
\* defined.
RoleDefs == [Roles -> [extends : Seq(Roles), tools : SUBSET Tools] \cup {None}]
Defined(defs) == {r \in Roles : defs[r] # None}

\* Tools and where they are from.  `new` is written over `old`.
ToolMaps == [Tools -> Roles \cup {None}]
NoTools == [t \in Tools |-> None]
Over(new, old) == [t \in Tools |-> IF new[t] # None THEN new[t] ELSE old[t]]
OwnTools(defs, r) == [t \in Tools |-> IF t \in defs[r].tools THEN r ELSE None]

------------------------------------------------------------------------------
\* A call of resolve_internal that waits for a parent, or is about to go on.
Frames ==
    [role : Roles,
     next : Nat \ {0},            \* index of the next parent
     tools : ToolMaps,            \* of the parents so far
     chain : SUBSET Roles]        \* their chains

Frame(r) == [role |-> r, next |-> 1, tools |-> NoTools, chain |-> {}]

Outcomes ==
    {"resolving", "ok", "role_not_found", "parent_not_found", "circular", "too_deep"}

Resolutions ==
    [todo : Seq(Roles),           \* assigned roles that are not resolved yet
     stack : Seq(Frames),
     visited : SUBSET Roles,
     tools : ToolMaps,            \* of the roles that are
     chain : SUBSET Roles,
     outcome : Outcomes,
     culprit : Roles \cup {None}] \* the role that an error names

Resolving(names) ==
    [todo |-> names, stack |-> <<>>, visited |-> {}, tools |-> NoTools, chain |-> {},
     outcome |-> "resolving", culprit |-> None]

Top(res) == res.stack[Len(res.stack)]
ParentsLeft(defs, res) == Top(res).next <= Len(defs[Top(res).role].extends)

Refused(res, why, r) == [res EXCEPT !.outcome = why, !.culprit = r]

\* Mutant of Call: depth is checked a level too early.
CallShallow(defs, res, r) ==
    IF Len(res.stack) >= MaxDepth THEN Refused(res, "too_deep", r)
    ELSE IF r \in res.visited THEN Refused(res, "circular", r)
    ELSE IF r \notin Defined(defs) THEN Refused(res, "role_not_found", r)
    ELSE [res EXCEPT !.visited = @ \cup {r}, !.stack = Append(@, Frame(r))]

\* Mutant of Call: depth is not checked.
CallUnbounded(defs, res, r) ==
    IF r \in res.visited THEN Refused(res, "circular", r)
    ELSE IF r \notin Defined(defs) THEN Refused(res, "role_not_found", r)
    ELSE [res EXCEPT !.visited = @ \cup {r}, !.stack = Append(@, Frame(r))]

\* resolve_internal is called at depth Len(res.stack).
Call(defs, res, r) ==
    IF Len(res.stack) > MaxDepth THEN Refused(res, "too_deep", r)
    ELSE IF r \in res.visited THEN Refused(res, "circular", r)
    ELSE IF r \notin Defined(defs) THEN Refused(res, "role_not_found", r)
    ELSE [res EXCEPT !.visited = @ \cup {r}, !.stack = Append(@, Frame(r))]

\* resolve, for the next assigned role.
ResolveNext(defs, res) == Call(defs, res, Head(res.todo))

\* The loop over the parents.
ResolveParent(defs, res) ==
    LET parent == defs[Top(res).role].extends[Top(res).next]
    IN  IF parent \notin Defined(defs) THEN Refused(res, "parent_not_found", parent)
        ELSE Call(defs, res, parent)

\* A frame with what a parent gives.
Taken(frame, tools, chain) ==
    [frame EXCEPT !.next = @ + 1, !.tools = Over(tools, @), !.chain = @ \cup chain]

\* A call returns its own tools over those of its parents, and the caller takes
\* them over what earlier parents gave: a frame, or the loop over the roles.
Return(defs, res) ==
    LET top == Top(res)
        below == SubSeq(res.stack, 1, Len(res.stack) - 1)
        tools == Over(OwnTools(defs, top.role), top.tools)
        chain == top.chain \cup {top.role}
        returned == [res EXCEPT !.stack = below, !.visited = @ \ {top.role}]
    IN  IF below = <<>>
        THEN [returned EXCEPT !.todo = Tail(@), !.tools = Over(tools, @), !.chain = @ \cup chain]
        ELSE [returned EXCEPT !.stack =
                [below EXCEPT ![Len(below)] = Taken(@, tools, chain)]]

AllResolved(res) == [res EXCEPT !.outcome = "ok"]

------------------------------------------------------------------------------
(* What a resolution should say, without its steps. *)

Elements(s) == {s[k] : k \in DOMAIN s}
Parents(defs, r) == Elements(defs[r].extends)

\* The least set with the roles S and all that its members extend.
Closed(defs, S) == \A r \in S \cap Defined(defs) : Parents(defs, r) \subseteq S
Ancestry(defs, S) ==
    {q \in Roles : \A C \in SUBSET Roles : (S \subseteq C /\ Closed(defs, C)) => q \in C}

OnCycle(defs, r) == r \in Defined(defs) /\ r \in Ancestry(defs, Parents(defs, r))

\* A line of inheritance from a role upwards, and one from an assigned role that is too
\* long.
LineFrom(defs, r, n) ==
    \E line \in [1..n + 1 -> Roles] :
        /\ line[1] = r
        /\ \A k \in 1..n : line[k] \in Defined(defs) /\ line[k + 1] \in Parents(defs, line[k])
TooDeep(defs, names) == \E r \in Elements(names) : LineFrom(defs, r, MaxDepth + 1)

Provides(defs, r, t) == \E q \in Ancestry(defs, {r}) : t \in defs[q].tools

\* The last of some roles that provides a tool, directly or not.
LastWith(defs, names, t) ==
    LET with == {k \in DOMAIN names : Provides(defs, names[k], t)}
    IN  IF with = {} THEN None ELSE names[CHOOSE k \in with : \A j \in with : j <= k]

\* Who gives a tool to a role, n levels of inheritance at most above it: the role
\* itself, or else the last of its parents that has the tool.
GivenBy(defs, t) ==
    LET from[n \in 0..MaxDepth] ==
            [r \in Defined(defs) \cup {None} |->
                IF r = None \/ t \in defs[r].tools \/ n = 0 THEN r
                ELSE from[n - 1][LastWith(defs, defs[r].extends, t)]]
    IN  from

Giver(defs, names, t) == GivenBy(defs, t)[MaxDepth][LastWith(defs, names, t)]

\* Roles that resolve do so with all their ancestors, none of them undefined, on a
\* cycle or too deep, and with exactly the tools that those name.
AcceptedTruly(defs, names, res) ==
    res.outcome = "ok" =>
        /\ res.chain = Ancestry(defs, Elements(names))
        /\ res.chain \subseteq Defined(defs)
        /\ \A r \in res.chain : ~OnCycle(defs, r)
        /\ ~TooDeep(defs, names)
        /\ \A t \in Tools :
              IF res.tools[t] = None THEN \A q \in res.chain : t \notin defs[q].tools
              ELSE res.tools[t] \in res.chain /\ t \in defs[res.tools[t]].tools

\* The error that is reported is one: the role it names is undefined and needed,
\* extends itself, or is the end of a line that is too long.
RefusedTruly(defs, names, res) ==
    CASE res.outcome \in {"role_not_found", "parent_not_found"} ->
            res.culprit \in Ancestry(defs, Elements(names)) \ Defined(defs)
      [] res.outcome = "circular" ->
            res.culprit \in Ancestry(defs, Elements(names)) /\ OnCycle(defs, res.culprit)
      [] res.outcome = "too_deep" -> TooDeep(defs, names)
      [] OTHER -> TRUE
==============================================================================
