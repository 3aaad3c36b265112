------------------------- MODULE ProjectTools_proofs -------------------------
(***************************************************************************)
(* What a resolution of roles accepts or refuses is right, for every graph  *)
(* of roles, every list of assigned roles and every limit on the depth.     *)
(* Good is the invariant of a resolution that goes on; each of its steps    *)
(* keeps it or ends the resolution with an outcome that is true.            *)
(*                                                                          *)
(* And whatever the layout of the repository, the commands that are run at  *)
(* once and where they are killed, each of them has a resolution that is    *)
(* right for the config it has loaded.  An invariant of one command carries *)
(* Good from LoadConfig to CollectTools: no other command touches what it   *)
(* says.                                                                    *)
(*                                                                          *)
(* The last part is about what comes of it.  Gives, an invariant of a       *)
(* resolution like Good, says who gives each tool; Faithful, one of a       *)
(* command, that what it has in hand is what the files say as long as       *)
(* nobody disturbs it.                                                      *)
(***************************************************************************)
EXTENDS ProjectTools, FiniteSetTheorems, TLAPS

\* Roles of which all ancestors are among them, with what they give.
Settled(defs, chain, tools) ==
    /\ chain \subseteq Defined(defs)
    /\ Closed(defs, chain)
    /\ \A r \in chain : ~OnCycle(defs, r)
    /\ \A t \in Tools :
          IF tools[t] = None THEN \A q \in chain : t \notin defs[q].tools
          ELSE tools[t] \in chain /\ t \in defs[tools[t]].tools

Assigned(defs, names) == Ancestry(defs, Elements(names))

\* The stack is a line of inheritance from the next assigned role upwards, without
\* repetitions and not too long.
Line(defs, stack) ==
    /\ Len(stack) <= MaxDepth + 1
    /\ \A k \in 1..Len(stack) : stack[k].role \in Defined(defs)
    /\ \A j, k \in 1..Len(stack) : j < k =>
          /\ stack[j].role # stack[k].role
          /\ stack[k].role \in Ancestry(defs, Parents(defs, stack[j].role))
    /\ \A k \in 1..Len(stack) - 1 :
          /\ stack[k].next <= Len(defs[stack[k].role].extends)
          /\ stack[k + 1].role = defs[stack[k].role].extends[stack[k].next]

\* The chain of a frame has the parents so far, and no role of a frame below.
FrameGood(defs, names, stack, k) ==
    LET f == stack[k]
    IN  /\ Settled(defs, f.chain, f.tools)
        /\ f.chain \subseteq Assigned(defs, names)
        /\ f.role \in Assigned(defs, names)
        /\ f.next <= Len(defs[f.role].extends) + 1
        /\ \A m \in 1..f.next - 1 : defs[f.role].extends[m] \in f.chain
        /\ \A j \in 1..k : stack[j].role \notin f.chain

\* No line that is too long goes through a parent or an assigned role that is resolved.
Shallow(defs, names, stack, todo) ==
    /\ \A k \in 1..Len(stack) : \A m \in 1..stack[k].next - 1 :
          ~LineFrom(defs, defs[stack[k].role].extends[m], MaxDepth + 1 - k)
    /\ \A r \in Elements(names) \ Elements(todo) : ~LineFrom(defs, r, MaxDepth + 1)

Good(defs, names, res) ==
    /\ res.outcome = "resolving"
    /\ res.visited = {res.stack[k].role : k \in 1..Len(res.stack)}
    /\ Line(defs, res.stack)
    /\ \A k \in 1..Len(res.stack) : FrameGood(defs, names, res.stack, k)
    /\ Shallow(defs, names, res.stack, res.todo)
    /\ res.stack # <<>> => res.todo # <<>> /\ res.stack[1].role = res.todo[1]
    /\ Elements(res.todo) \subseteq Elements(names)
    /\ Elements(names) \subseteq Elements(res.todo) \cup res.chain
    /\ Settled(defs, res.chain, res.tools)
    /\ res.chain \subseteq Assigned(defs, names)

\* What a step may leave: a resolution that goes on, or one whose outcome is true.
Right(defs, names, res) ==
    /\ res.outcome = "resolving" => Good(defs, names, res)
    /\ AcceptedTruly(defs, names, res)
    /\ RefusedTruly(defs, names, res)

------------------------------------------------------------------------------
\* The parents of a defined role are roles, defined or not.
LEMMA ParentsAreRoles ==
    ASSUME NEW defs \in RoleDefs, NEW r \in Defined(defs)
    PROVE  /\ defs[r] \in [extends : Seq(Roles), tools : SUBSET Tools]
           /\ Parents(defs, r) \subseteq Roles
BY DEF RoleDefs, Defined, Parents, Elements

\* An ancestry has the roles it is of.
LEMMA AncestryHolds ==
    ASSUME NEW defs \in RoleDefs, NEW S \in SUBSET Roles
    PROVE  /\ Ancestry(defs, S) \subseteq Roles
           /\ S \subseteq Ancestry(defs, S)
BY DEF Ancestry

\* An ancestry has all parents of its defined roles.
LEMMA AncestryClosed ==
    ASSUME NEW defs \in RoleDefs, NEW S \in SUBSET Roles
    PROVE  Closed(defs, Ancestry(defs, S))
<1>1. SUFFICES ASSUME NEW r \in Ancestry(defs, S), r \in Defined(defs),
                      NEW p \in Parents(defs, r)
               PROVE  p \in Ancestry(defs, S)
  BY DEF Closed
<1>2. p \in Roles
  BY <1>1, ParentsAreRoles
<1>3. ASSUME NEW C \in SUBSET Roles, S \subseteq C, Closed(defs, C)
      PROVE  p \in C
  <2>1. r \in C
    BY <1>1, <1>3 DEF Ancestry
  <2>. QED
    BY <2>1, <1>1, <1>3 DEF Closed
<1>. QED
  BY <1>2, <1>3 DEF Ancestry

\* An ancestry is in every set that has them.
LEMMA AncestryLeast ==
    ASSUME NEW defs, NEW S, NEW C \in SUBSET Roles, S \subseteq C, Closed(defs, C)
    PROVE  Ancestry(defs, S) \subseteq C
BY DEF Ancestry

\* A line from a role goes through one of its parents.
LEMMA LineThroughParent ==
    ASSUME NEW defs \in RoleDefs, NEW r \in Roles, NEW n \in Nat,
           \A p \in Parents(defs, r) : ~LineFrom(defs, p, n)
    PROVE  ~LineFrom(defs, r, n + 1)
<1>. SUFFICES ASSUME LineFrom(defs, r, n + 1)
              PROVE  FALSE
  OBVIOUS
<1>1. PICK line \in [1..(n + 1) + 1 -> Roles] :
            /\ line[1] = r
            /\ \A k \in 1..n + 1 :
                  line[k] \in Defined(defs) /\ line[k + 1] \in Parents(defs, line[k])
  BY DEF LineFrom
<1>. DEFINE tail == [k \in 1..n + 1 |-> line[k + 1]]
<1>2. tail \in [1..n + 1 -> Roles]
  OBVIOUS
<1>3. tail[1] \in Parents(defs, r)
  BY <1>1
<1>4. ASSUME NEW k \in 1..n
      PROVE  tail[k] \in Defined(defs) /\ tail[k + 1] \in Parents(defs, tail[k])
  <2>1. k \in 1..n + 1 /\ k + 1 \in 1..n + 1
    OBVIOUS
  <2>2. tail[k] = line[k + 1] /\ tail[k + 1] = line[(k + 1) + 1]
    BY <2>1
  <2>. QED
    BY <1>1, <2>1, <2>2
<1>. HIDE DEF tail
<1>5. LineFrom(defs, tail[1], n)
  BY <1>2, <1>4 DEF LineFrom
<1>. QED
  BY <1>3, <1>5

------------------------------------------------------------------------------
(* Chains of roles that are settled. *)

\* Before anything is resolved, nothing is given.
LEMMA NothingSettled ==
    ASSUME NEW defs \in RoleDefs
    PROVE  Settled(defs, {}, NoTools) /\ NoTools \in ToolMaps
BY DEF Settled, NoTools, ToolMaps, Closed

\* Tools over tools are tools.
LEMMA OverTyped ==
    ASSUME NEW new \in ToolMaps, NEW old \in ToolMaps
    PROVE  Over(new, old) \in ToolMaps
BY DEF Over, ToolMaps

\* A role's own tools are tools.
LEMMA OwnToolsTyped ==
    ASSUME NEW defs \in RoleDefs, NEW r \in Roles
    PROVE  OwnTools(defs, r) \in ToolMaps
BY DEF OwnTools, ToolMaps

\* The tools of some settled roles over those of others.
LEMMA SettledTogether ==
    ASSUME NEW defs \in RoleDefs, NEW new \in ToolMaps, NEW old \in ToolMaps,
           NEW C, NEW D, Settled(defs, C, new), Settled(defs, D, old)
    PROVE  Settled(defs, D \cup C, Over(new, old))
<1>1. D \cup C \subseteq Defined(defs) /\ Closed(defs, D \cup C)
  BY DEF Settled, Closed
<1>2. \A r \in D \cup C : ~OnCycle(defs, r)
  BY DEF Settled
<1>3. ASSUME NEW t \in Tools
      PROVE  IF Over(new, old)[t] = None THEN \A q \in D \cup C : t \notin defs[q].tools
             ELSE Over(new, old)[t] \in D \cup C /\ t \in defs[Over(new, old)[t]].tools
  BY DEF Over, Settled
<1>. QED
  BY <1>1, <1>2, <1>3 DEF Settled

\* A role with its tools over those of its parents.
LEMMA SettledWithRole ==
    ASSUME NEW defs \in RoleDefs, NEW tools \in ToolMaps, NEW C, NEW r \in Defined(defs),
           Settled(defs, C, tools), r \notin C, Parents(defs, r) \subseteq C
    PROVE  Settled(defs, C \cup {r}, Over(OwnTools(defs, r), tools))
<1>. DEFINE all == Over(OwnTools(defs, r), tools)
<1>1. C \cup {r} \subseteq Defined(defs) /\ Closed(defs, C \cup {r})
  BY DEF Settled, Closed
<1>2. ~OnCycle(defs, r)
  <2>1. C \in SUBSET Roles
    BY DEF Settled, Defined
  <2>2. Ancestry(defs, Parents(defs, r)) \subseteq C
    BY <2>1, AncestryLeast DEF Settled
  <2>. QED
    BY <2>2 DEF OnCycle
<1>3. ASSUME NEW t \in Tools
      PROVE  IF all[t] = None THEN \A q \in C \cup {r} : t \notin defs[q].tools
             ELSE all[t] \in C \cup {r} /\ t \in defs[all[t]].tools
  BY RolesTyped DEF Over, OwnTools, Settled, Defined
<1>. QED
  BY <1>1, <1>2, <1>3 DEF Settled

------------------------------------------------------------------------------
(* The steps of a resolution. *)

\* The fields of a resolution, and of the frames of its stack, have their types.
LEMMA Typed ==
    ASSUME NEW res \in Resolutions
    PROVE  /\ res.todo \in Seq(Roles) /\ res.stack \in Seq(Frames)
           /\ res.visited \subseteq Roles /\ res.chain \subseteq Roles
           /\ res.tools \in ToolMaps
           /\ Len(res.stack) \in Nat
           /\ \A k \in 1..Len(res.stack) :
                 /\ res.stack[k] \in Frames
                 /\ res.stack[k].role \in Roles /\ res.stack[k].next \in Nat \ {0}
                 /\ res.stack[k].tools \in ToolMaps /\ res.stack[k].chain \subseteq Roles
<1>1. /\ res.todo \in Seq(Roles) /\ res.stack \in Seq(Frames)
      /\ res.visited \subseteq Roles /\ res.chain \subseteq Roles
      /\ res.tools \in ToolMaps
  BY DEF Resolutions
<1>2. \A k \in 1..Len(res.stack) : res.stack[k] \in Frames
  BY <1>1
<1>3. \A f \in Frames : /\ f.role \in Roles /\ f.next \in Nat \ {0}
                        /\ f.tools \in ToolMaps /\ f.chain \subseteq Roles
  BY DEF Frames
<1>. QED
  BY <1>1, <1>2, <1>3

\* A resolution begins well.
LEMMA BeginsGood ==
    ASSUME NEW defs \in RoleDefs, NEW names \in Seq(Roles)
    PROVE  Good(defs, names, Resolving(names)) /\ Resolving(names) \in Resolutions
<1>. DEFINE res == Resolving(names)
<1>1. res \in Resolutions
  BY NothingSettled DEF Resolving, Resolutions, Outcomes
<1>2. res.stack = <<>> /\ Len(res.stack) = 0 /\ res.todo = names /\ res.chain = {}
      /\ res.tools = NoTools /\ res.visited = {} /\ res.outcome = "resolving"
  BY DEF Resolving
<1>3. Line(defs, res.stack)
  BY <1>2, RolesTyped DEF Line
<1>4. Settled(defs, res.chain, res.tools)
  BY <1>2, NothingSettled
<1>5. Good(defs, names, res)
  <2>. HIDE DEF res
  <2>1. res.visited = {res.stack[k].role : k \in 1..Len(res.stack)}
    BY <1>2
  <2>. QED
    BY <1>2, <1>3, <1>4, <2>1 DEF Good, Shallow
<1>. QED
  BY <1>1, <1>5

\* The assigned roles are among the roles to be resolved, which are closed.
LEMMA AssignedHolds ==
    ASSUME NEW defs \in RoleDefs, NEW names \in Seq(Roles)
    PROVE  /\ Elements(names) \in SUBSET Roles
           /\ Assigned(defs, names) \in SUBSET Roles
           /\ Elements(names) \subseteq Assigned(defs, names)
           /\ Closed(defs, Assigned(defs, names))
<1>1. Elements(names) \in SUBSET Roles
  BY DEF Elements
<1>. QED
  BY <1>1, AncestryHolds, AncestryClosed DEF Assigned

\* What resolve_internal is called for: the next assigned role, or the next parent.
Calls(defs, res, r) ==
    \/ res.stack = <<>> /\ res.todo # <<>> /\ r = res.todo[1]
    \/ res.stack # <<>> /\ ParentsLeft(defs, res) /\ r = defs[Top(res).role].extends[Top(res).next]

\* A role that is called for is to be resolved, and a parent of the caller.
LEMMA CalledAssigned ==
    ASSUME NEW defs \in RoleDefs, NEW names \in Seq(Roles), NEW res \in Resolutions,
           Good(defs, names, res), NEW r, Calls(defs, res, r)
    PROVE  /\ r \in Roles /\ r \in Assigned(defs, names)
           /\ res.stack # <<>> =>
                 /\ Top(res).role \in Defined(defs)
                 /\ Top(res).next \in 1..Len(defs[Top(res).role].extends)
                 /\ r = defs[Top(res).role].extends[Top(res).next]
                 /\ r \in Parents(defs, Top(res).role)
<1>1. CASE res.stack = <<>>
  <2>1. r = res.todo[1] /\ res.todo # <<>> /\ res.todo \in Seq(Roles)
    BY <1>1, Typed DEF Calls
  <2>2. r \in Elements(res.todo)
    BY <2>1 DEF Elements
  <2>. QED
    BY <1>1, <2>1, <2>2, AssignedHolds DEF Good
<1>2. CASE res.stack # <<>>
  <2>. DEFINE L == Len(res.stack)
  <2>1. L \in 1..L /\ Top(res) = res.stack[L]
    BY <1>2, Typed DEF Top
  <2>2. Top(res).role \in Defined(defs) /\ Top(res).role \in Assigned(defs, names)
    BY <2>1 DEF Good, Line, FrameGood
  <2>3. defs[Top(res).role].extends \in Seq(Roles)
    BY <2>2, ParentsAreRoles
  <2>4. Top(res).next \in Nat \ {0}
    BY <2>1, Typed
  <2>5. Top(res).next \in 1..Len(defs[Top(res).role].extends)
    BY <1>2, <2>3, <2>4 DEF Calls, ParentsLeft
  <2>6. r = defs[Top(res).role].extends[Top(res).next]
    BY <1>2 DEF Calls
  <2>7. r \in Parents(defs, Top(res).role) /\ r \in Roles
    BY <2>3, <2>5, <2>6 DEF Parents, Elements
  <2>8. r \in Assigned(defs, names)
    BY <2>2, <2>7, AssignedHolds DEF Closed
  <2>. QED
    BY <1>2, <2>2, <2>5, <2>6, <2>7, <2>8
<1>. QED
  BY <1>1, <1>2

\* An error leaves everything but the outcome and the role it names.
LEMMA RefusedFields ==
    ASSUME NEW res \in Resolutions, NEW why \in Outcomes, NEW r \in Roles
    PROVE  /\ Refused(res, why, r) \in Resolutions
           /\ Refused(res, why, r).outcome = why
           /\ Refused(res, why, r).culprit = r
           /\ Refused(res, why, r).stack = res.stack
BY DEF Refused, Resolutions

\* A stack as high as that is a line that is too long, with the role above it.
LEMMA LineTooLong ==
    ASSUME NEW defs \in RoleDefs, NEW names \in Seq(Roles), NEW res \in Resolutions,
           Good(defs, names, res), NEW r, Calls(defs, res, r), Len(res.stack) > MaxDepth
    PROVE  TooDeep(defs, names)
<1>. DEFINE L == Len(res.stack)
            line == [k \in 1..MaxDepth + 2 |-> IF k <= L THEN res.stack[k].role ELSE r]
<1>1. L = MaxDepth + 1 /\ L \in 1..L /\ res.stack # <<>> /\ MaxDepth \in Nat
  BY RolesTyped, Typed DEF Good, Line
<1>2. r \in Roles /\ Top(res) = res.stack[L] /\ r \in Parents(defs, res.stack[L].role)
  BY <1>1, CalledAssigned DEF Top
<1>3. line \in [1..MaxDepth + 2 -> Roles]
  BY <1>1, <1>2, Typed
<1>4. line[1] \in Elements(names)
  <2>1. line[1] = res.todo[1] /\ res.todo # <<>> /\ res.todo \in Seq(Roles)
    BY <1>1, Typed DEF Good
  <2>2. res.todo[1] \in Elements(res.todo)
    BY <2>1 DEF Elements
  <2>. QED
    BY <2>1, <2>2 DEF Good
<1>5. ASSUME NEW k \in 1..MaxDepth + 1
      PROVE  line[k] \in Defined(defs) /\ line[k + 1] \in Parents(defs, line[k])
  <2>1. line[k] = res.stack[k].role /\ res.stack[k].role \in Defined(defs)
    BY <1>1 DEF Good, Line
  <2>2. CASE k = L
    BY <1>1, <1>2, <2>1, <2>2
  <2>3. CASE k # L
    <3>1. k \in 1..L - 1 /\ line[k + 1] = res.stack[k + 1].role
      BY <1>1, <2>3
    <3>2. /\ res.stack[k].next <= Len(defs[res.stack[k].role].extends)
          /\ res.stack[k + 1].role = defs[res.stack[k].role].extends[res.stack[k].next]
      BY <3>1 DEF Good, Line
    <3>3. res.stack[k].next \in Nat \ {0} /\ defs[res.stack[k].role].extends \in Seq(Roles)
      BY <1>1, <2>1, Typed, ParentsAreRoles
    <3>4. res.stack[k].next \in 1..Len(defs[res.stack[k].role].extends)
      BY <3>2, <3>3
    <3>5. res.stack[k + 1].role \in Parents(defs, res.stack[k].role)
      <4>. DEFINE s == defs[res.stack[k].role].extends
                  n == res.stack[k].next
      <4>1. s \in Seq(Roles) /\ n \in 1..Len(s)
        BY <3>3, <3>4
      <4>. HIDE DEF s, n
      <4>2. s[n] \in Elements(s)
        BY <4>1 DEF Elements
      <4>. QED
        BY <3>2, <4>2 DEF s, n, Parents
    <3>. HIDE DEF line, L
    <3>. QED
      BY <2>1, <3>1, <3>5
  <2>. QED
    BY <2>2, <2>3
<1>. HIDE DEF line
<1>6. LineFrom(defs, line[1], MaxDepth + 1)
  <2>1. (MaxDepth + 1) + 1 = MaxDepth + 2
    BY <1>1
  <2>. QED
    BY <1>3, <1>5, <2>1 DEF LineFrom
<1>. QED
  BY <1>4, <1>6 DEF TooDeep

\* A role that is called again, while a call for it waits, is its own ancestor.
LEMMA CalledAgain ==
    ASSUME NEW defs \in RoleDefs, NEW names \in Seq(Roles), NEW res \in Resolutions,
           Good(defs, names, res), NEW r, Calls(defs, res, r), r \in res.visited
    PROVE  OnCycle(defs, r)
<1>. DEFINE L == Len(res.stack)
<1>1. PICK j \in 1..L : res.stack[j].role = r
  BY DEF Good
<1>2. L \in 1..L /\ res.stack # <<>> /\ L \in Nat
  BY <1>1, Typed
<1>3. r \in Defined(defs) /\ Parents(defs, r) \in SUBSET Roles
  BY <1>1, ParentsAreRoles DEF Good, Line
<1>4. /\ Top(res) = res.stack[L] /\ res.stack[L].role \in Defined(defs)
      /\ r \in Parents(defs, res.stack[L].role)
  BY <1>2, CalledAssigned DEF Top
<1>5. CASE j = L
  BY <1>1, <1>3, <1>4, <1>5, AncestryHolds DEF OnCycle
<1>6. CASE j # L
  <2>1. res.stack[L].role \in Ancestry(defs, Parents(defs, r))
    BY <1>1, <1>2, <1>6 DEF Good, Line
  <2>2. r \in Ancestry(defs, Parents(defs, r))
    BY <1>3, <1>4, <2>1, AncestryClosed DEF Closed
  <2>. QED
    BY <1>3, <2>2 DEF OnCycle
<1>. QED
  BY <1>5, <1>6

\* A call goes on well, or is refused for a reason that is true.
LEMMA CallRight ==
    ASSUME NEW defs \in RoleDefs, NEW names \in Seq(Roles), NEW res \in Resolutions,
           Good(defs, names, res), NEW r, Calls(defs, res, r)
    PROVE  Right(defs, names, Call(defs, res, r)) /\ Call(defs, res, r) \in Resolutions
<1>. DEFINE L == Len(res.stack)
            new == Call(defs, res, r)
<1>1. r \in Roles /\ r \in Assigned(defs, names)
  BY CalledAssigned
<1>2. L \in Nat /\ MaxDepth \in Nat
  BY Typed, RolesTyped
<1>3. CASE L > MaxDepth
  <2>1. new = Refused(res, "too_deep", r)
    BY <1>3 DEF Call
  <2>2. "too_deep" \in Outcomes
    BY DEF Outcomes
  <2>3. new.outcome = "too_deep" /\ new \in Resolutions
    BY <1>1, <2>1, <2>2, RefusedFields
  <2>. HIDE DEF new
  <2>4. TooDeep(defs, names)
    BY <1>3, LineTooLong
  <2>5. Right(defs, names, new)
    BY <2>3, <2>4 DEF Right, AcceptedTruly, RefusedTruly
  <2>. QED
    BY <2>3, <2>5 DEF new
<1>4. CASE ~(L > MaxDepth) /\ r \in res.visited
  <2>1. new = Refused(res, "circular", r)
    BY <1>4 DEF Call
  <2>2. "circular" \in Outcomes
    BY DEF Outcomes
  <2>3. new.outcome = "circular" /\ new.culprit = r /\ new \in Resolutions
    BY <1>1, <2>1, <2>2, RefusedFields
  <2>. HIDE DEF new
  <2>4. OnCycle(defs, r)
    BY <1>4, CalledAgain
  <2>5. Right(defs, names, new)
    BY <1>1, <2>3, <2>4 DEF Right, AcceptedTruly, RefusedTruly, Assigned
  <2>. QED
    BY <2>3, <2>5 DEF new
<1>5. CASE ~(L > MaxDepth) /\ r \notin res.visited /\ r \notin Defined(defs)
  <2>1. new = Refused(res, "role_not_found", r)
    BY <1>5 DEF Call
  <2>2. "role_not_found" \in Outcomes
    BY DEF Outcomes
  <2>3. new.outcome = "role_not_found" /\ new.culprit = r /\ new \in Resolutions
    BY <1>1, <2>1, <2>2, RefusedFields
  <2>. HIDE DEF new
  <2>4. Right(defs, names, new)
    BY <1>1, <1>5, <2>3 DEF Right, AcceptedTruly, RefusedTruly, Assigned
  <2>. QED
    BY <2>3, <2>4 DEF new
<1>6. CASE ~(L > MaxDepth) /\ r \notin res.visited /\ r \in Defined(defs)
  <2>1. new = [res EXCEPT !.visited = @ \cup {r}, !.stack = Append(@, Frame(r))]
    BY <1>6 DEF Call
  <2>2. Frame(r) \in Frames
    BY <1>1, NothingSettled DEF Frame, Frames
  <2>3. Append(res.stack, Frame(r)) \in Seq(Frames)
    BY <2>2, Typed
  <2>4. /\ new \in Resolutions
        /\ new.visited = res.visited \cup {r} /\ new.stack = Append(res.stack, Frame(r))
        /\ new.todo = res.todo /\ new.chain = res.chain /\ new.tools = res.tools
        /\ new.outcome = res.outcome
    <3>1. res.visited \cup {r} \in SUBSET Roles
      BY <1>1, Typed
    <3>. DEFINE stack == Append(res.stack, Frame(r))
                visited == res.visited \cup {r}
    <3>2. new = [res EXCEPT !.visited = visited, !.stack = stack]
      BY <2>1
    <3>. HIDE DEF new, stack, visited
    <3>3. /\ new \in Resolutions /\ new.visited = visited /\ new.stack = stack
          /\ new.todo = res.todo /\ new.chain = res.chain /\ new.tools = res.tools
          /\ new.outcome = res.outcome
      BY <2>3, <3>1, <3>2 DEF Resolutions, stack, visited
    <3>. QED
      BY <3>3 DEF stack, visited
  <2>. HIDE DEF new
  <2>5. /\ Len(new.stack) = L + 1
        /\ \A k \in 1..L : new.stack[k] = res.stack[k]
        /\ new.stack[L + 1] = Frame(r)
    BY <2>2, <2>4, Typed
  <2>6. /\ Frame(r).role = r /\ Frame(r).next = 1
        /\ Frame(r).tools = NoTools /\ Frame(r).chain = {}
    BY DEF Frame
  <2>7. /\ \A k \in 1..L : res.stack[k].role \in Defined(defs)
        /\ \A j, k \in 1..L : j < k =>
              /\ res.stack[j].role # res.stack[k].role
              /\ res.stack[k].role \in Ancestry(defs, Parents(defs, res.stack[j].role))
        /\ \A k \in 1..L - 1 :
              /\ res.stack[k].next <= Len(defs[res.stack[k].role].extends)
              /\ res.stack[k + 1].role = defs[res.stack[k].role].extends[res.stack[k].next]
    BY DEF Good, Line
  <2>. HIDE DEF L
  <2>8. Good(defs, names, new)
    <3>1. new.visited = {new.stack[k].role : k \in 1..Len(new.stack)}
      BY <1>2, <2>4, <2>5, <2>6 DEF Good, L
    <3>2. Line(defs, new.stack)
      <4>1. Len(new.stack) <= MaxDepth + 1
        BY <1>2, <1>6, <2>5
      <4>2. \A k \in 1..L + 1 : new.stack[k].role \in Defined(defs)
        BY <1>2, <1>6, <2>5, <2>6, <2>7
      <4>3. ASSUME NEW j \in 1..L + 1, NEW k \in 1..L + 1, j < k
            PROVE  /\ new.stack[j].role # new.stack[k].role
                   /\ new.stack[k].role \in Ancestry(defs, Parents(defs, new.stack[j].role))
        <5>1. j \in 1..L /\ new.stack[j] = res.stack[j]
          BY <1>2, <2>5, <4>3
        <5>2. CASE k \in 1..L
          BY <2>5, <2>7, <4>3, <5>1, <5>2
        <5>3. CASE k = L + 1
          <6>1. new.stack[j].role # new.stack[k].role
            BY <1>6, <2>5, <2>6, <5>1, <5>3 DEF Good, L
          <6>2. res.stack # <<>> /\ L \in 1..L /\ Top(res) = res.stack[L]
            BY <1>2, <5>1, Typed DEF Top, L
          <6>3. res.stack[L].role \in Defined(defs) /\ r \in Parents(defs, res.stack[L].role)
            BY <6>2, CalledAssigned
          <6>4. /\ res.stack[j].role \in Defined(defs)
                /\ Parents(defs, res.stack[j].role) \in SUBSET Roles
            BY <2>7, <5>1, ParentsAreRoles
          <6>5. r \in Ancestry(defs, Parents(defs, res.stack[j].role))
            <7>1. CASE j = L
              BY <6>3, <6>4, <7>1, AncestryHolds
            <7>2. CASE j # L
              <8>1. res.stack[L].role \in Ancestry(defs, Parents(defs, res.stack[j].role))
                BY <1>2, <2>7, <5>1, <6>2, <7>2
              <8>. QED
                BY <6>3, <6>4, <8>1, AncestryClosed DEF Closed
            <7>. QED
              BY <7>1, <7>2
          <6>. QED
            BY <2>5, <2>6, <5>1, <5>3, <6>1, <6>5
        <5>. QED
          BY <1>2, <5>2, <5>3
      <4>4. ASSUME NEW k \in 1..L
            PROVE  /\ new.stack[k].next <= Len(defs[new.stack[k].role].extends)
                   /\ new.stack[k + 1].role = defs[new.stack[k].role].extends[new.stack[k].next]
        <5>1. CASE k = L
          <6>1. res.stack # <<>> /\ Top(res) = res.stack[L]
            BY <1>2, <5>1, Typed DEF Top, L
          <6>2. /\ Top(res).next \in 1..Len(defs[Top(res).role].extends)
                /\ r = defs[Top(res).role].extends[Top(res).next]
            BY <6>1, CalledAssigned
          <6>3. new.stack[k] = Top(res) /\ new.stack[k + 1].role = r
            BY <2>5, <2>6, <5>1, <6>1
          <6>. QED
            BY <6>2, <6>3
        <5>2. CASE k # L
          <6>1. k \in 1..L - 1 /\ k + 1 \in 1..L
            BY <1>2, <5>2
          <6>. QED
            BY <2>5, <2>7, <6>1
        <5>. QED
          BY <5>1, <5>2
      <4>. QED
        BY <1>2, <2>5, <4>1, <4>2, <4>3, <4>4 DEF Line
    <3>3. ASSUME NEW k \in 1..L + 1
          PROVE  FrameGood(defs, names, new.stack, k)
      <4>1. CASE k \in 1..L
        <5>1. \A j \in 1..k : new.stack[j] = res.stack[j]
          BY <1>2, <2>5, <4>1
        <5>2. FrameGood(defs, names, res.stack, k)
          BY <4>1 DEF Good, L
        <5>. QED
          BY <2>5, <4>1, <5>1, <5>2 DEF FrameGood
      <4>2. CASE k = L + 1
        <5>1. Settled(defs, {}, NoTools)
          BY NothingSettled
        <5>2. Len(defs[r].extends) \in Nat
          BY <1>6, ParentsAreRoles
        <5>3. /\ new.stack[k].role = r /\ new.stack[k].next = 1
              /\ new.stack[k].tools = NoTools /\ new.stack[k].chain = {}
          BY <2>5, <2>6, <4>2
        <5>. QED
          BY <1>1, <5>1, <5>2, <5>3 DEF FrameGood
      <4>. QED
        BY <1>2, <4>1, <4>2
    <3>4. new.todo # <<>> /\ new.stack[1].role = new.todo[1]
      <4>1. CASE res.stack = <<>>
        BY <2>4, <2>5, <2>6, <4>1 DEF Calls, L
      <4>2. CASE res.stack # <<>>
        <5>1. 1 \in 1..L
          BY <4>2, <1>2, Typed DEF L
        <5>. QED
          BY <2>4, <2>5, <4>2, <5>1 DEF Good
      <4>. QED
        BY <4>1, <4>2
    <3>5. Shallow(defs, names, new.stack, new.todo)
      <4>1. ASSUME NEW k \in 1..L + 1, NEW m \in 1..new.stack[k].next - 1
            PROVE  ~LineFrom(defs, defs[new.stack[k].role].extends[m], MaxDepth + 1 - k)
        <5>1. k # L + 1
          BY <2>5, <2>6
        <5>2. k \in 1..L /\ new.stack[k] = res.stack[k]
          BY <1>2, <2>5, <5>1
        <5>. QED
          BY <5>2 DEF Good, Shallow, L
      <4>. QED
        BY <2>4, <2>5, <4>1 DEF Good, Shallow
    <3>. QED
      BY <2>4, <2>5, <3>1, <3>2, <3>3, <3>4, <3>5 DEF Good
  <2>9. Right(defs, names, new)
    BY <2>8 DEF Right, AcceptedTruly, RefusedTruly, Good
  <2>. QED
    BY <2>4, <2>9 DEF new
<1>. QED
  BY <1>3, <1>4, <1>5, <1>6

\* The call for the next assigned role is right.
LEMMA ResolveNextRight ==
    ASSUME NEW defs \in RoleDefs, NEW names \in Seq(Roles), NEW res \in Resolutions,
           Good(defs, names, res), res.stack = <<>>, res.todo # <<>>
    PROVE  /\ Right(defs, names, ResolveNext(defs, res))
           /\ ResolveNext(defs, res) \in Resolutions
<1>1. Head(res.todo) = res.todo[1]
  BY Typed
<1>2. Calls(defs, res, Head(res.todo))
  BY <1>1 DEF Calls
<1>. QED
  BY <1>2, CallRight DEF ResolveNext

\* The call for the next parent is right, or refused where it is not defined.
LEMMA ResolveParentRight ==
    ASSUME NEW defs \in RoleDefs, NEW names \in Seq(Roles), NEW res \in Resolutions,
           Good(defs, names, res), res.stack # <<>>, ParentsLeft(defs, res)
    PROVE  /\ Right(defs, names, ResolveParent(defs, res))
           /\ ResolveParent(defs, res) \in Resolutions
<1>. DEFINE parent == defs[Top(res).role].extends[Top(res).next]
            new == ResolveParent(defs, res)
<1>1. Calls(defs, res, parent)
  BY DEF Calls
<1>2. parent \in Roles /\ parent \in Assigned(defs, names)
  BY <1>1, CalledAssigned
<1>3. CASE parent \in Defined(defs)
  <2>1. new = Call(defs, res, parent)
    BY <1>3 DEF ResolveParent
  <2>. QED
    BY <1>1, <2>1, CallRight
<1>4. CASE parent \notin Defined(defs)
  <2>1. new = Refused(res, "parent_not_found", parent)
    BY <1>4 DEF ResolveParent
  <2>2. "parent_not_found" \in Outcomes
    BY DEF Outcomes
  <2>3. new.outcome = "parent_not_found" /\ new.culprit = parent /\ new \in Resolutions
    BY <1>2, <2>1, <2>2, RefusedFields
  <2>. HIDE DEF new, parent
  <2>4. Right(defs, names, new)
    BY <1>2, <1>4, <2>3 DEF Right, AcceptedTruly, RefusedTruly, Assigned
  <2>. QED
    BY <2>3, <2>4 DEF new
<1>. QED
  BY <1>3, <1>4

\* What a call returns is settled, and has no role that is still waited for.
LEMMA ReturnsSettled ==
    ASSUME NEW defs \in RoleDefs, NEW names \in Seq(Roles), NEW res \in Resolutions,
           Good(defs, names, res), res.stack # <<>>, ~ParentsLeft(defs, res),
           NEW top, top = Top(res)
    PROVE  /\ top = res.stack[Len(res.stack)] /\ Len(res.stack) \in Nat \ {0}
           /\ Over(OwnTools(defs, top.role), top.tools) \in ToolMaps
           /\ top.chain \cup {top.role} \in SUBSET Roles
           /\ Settled(defs, top.chain \cup {top.role}, Over(OwnTools(defs, top.role), top.tools))
           /\ top.chain \cup {top.role} \subseteq Assigned(defs, names)
           /\ \A j \in 1..Len(res.stack) - 1 : res.stack[j].role \notin top.chain \cup {top.role}
           /\ ~LineFrom(defs, top.role, MaxDepth + 2 - Len(res.stack))
<1>. DEFINE L == Len(res.stack)
<1>1. L \in Nat \ {0} /\ L \in 1..L /\ top = res.stack[L]
  BY Typed DEF Top
<1>2. /\ top.role \in Roles /\ top.next \in Nat \ {0}
      /\ top.tools \in ToolMaps /\ top.chain \subseteq Roles
  BY <1>1, Typed
<1>3. top.role \in Defined(defs) /\ FrameGood(defs, names, res.stack, L)
  BY <1>1 DEF Good, Line
<1>4. defs[top.role].extends \in Seq(Roles)
  BY <1>3, ParentsAreRoles
<1>5. top.next = Len(defs[top.role].extends) + 1
  <2>1. Len(defs[top.role].extends) \in Nat
    BY <1>4
  <2>2. ~(top.next <= Len(defs[top.role].extends))
    BY DEF ParentsLeft
  <2>3. top.next <= Len(defs[top.role].extends) + 1
    BY <1>1, <1>3 DEF FrameGood
  <2>. QED
    BY <1>2, <2>1, <2>2, <2>3
<1>6. Parents(defs, top.role) \subseteq top.chain
  <2>1. top.next - 1 = Len(defs[top.role].extends)
    BY <1>4, <1>5
  <2>2. \A m \in 1..Len(defs[top.role].extends) : defs[top.role].extends[m] \in top.chain
    BY <1>1, <1>3, <2>1 DEF FrameGood
  <2>. QED
    BY <1>4, <2>2 DEF Parents, Elements
<1>7. Settled(defs, top.chain, top.tools) /\ top.role \notin top.chain
  BY <1>1, <1>3 DEF FrameGood
<1>8. Settled(defs, top.chain \cup {top.role}, Over(OwnTools(defs, top.role), top.tools))
  BY <1>2, <1>3, <1>6, <1>7, SettledWithRole
<1>9. Over(OwnTools(defs, top.role), top.tools) \in ToolMaps
  BY <1>2, OwnToolsTyped, OverTyped
<1>10. top.chain \cup {top.role} \subseteq Assigned(defs, names)
  BY <1>1, <1>3 DEF FrameGood
<1>11. ASSUME NEW j \in 1..L - 1
       PROVE  res.stack[j].role \notin top.chain \cup {top.role}
  <2>1. j \in 1..L /\ j < L
    BY <1>1
  <2>2. res.stack[j].role \notin top.chain
    BY <1>1, <1>3, <2>1 DEF FrameGood
  <2>3. res.stack[j].role # res.stack[L].role
    BY <1>1, <2>1 DEF Good, Line
  <2>. QED
    BY <1>1, <2>2, <2>3
<1>12. ~LineFrom(defs, top.role, MaxDepth + 2 - L)
  <2>1. MaxDepth + 1 - L \in Nat /\ (MaxDepth + 1 - L) + 1 = MaxDepth + 2 - L
    BY <1>1, RolesTyped DEF Good, Line
  <2>2. \A m \in 1..Len(defs[top.role].extends) :
            ~LineFrom(defs, defs[top.role].extends[m], MaxDepth + 1 - L)
    <3>1. top.next - 1 = Len(defs[top.role].extends)
      BY <1>4, <1>5
    <3>. QED
      BY <1>1, <3>1 DEF Good, Shallow
  <2>3. \A p \in Parents(defs, top.role) : ~LineFrom(defs, p, MaxDepth + 1 - L)
    BY <1>4, <2>2 DEF Parents, Elements
  <2>. QED
    BY <1>2, <2>1, <2>3, LineThroughParent
<1>. QED
  BY <1>1, <1>2, <1>8, <1>9, <1>10, <1>11, <1>12

\* An assigned role is resolved.
LEMMA ReturnToLoop ==
    ASSUME NEW defs \in RoleDefs, NEW names \in Seq(Roles), NEW res \in Resolutions,
           Good(defs, names, res), res.stack # <<>>, ~ParentsLeft(defs, res),
           Len(res.stack) = 1
    PROVE  Good(defs, names, Return(defs, res)) /\ Return(defs, res) \in Resolutions
<1>. DEFINE top == Top(res)
            tools == Over(OwnTools(defs, top.role), top.tools)
            chain == top.chain \cup {top.role}
            new == Return(defs, res)
<1>1. /\ top = res.stack[1] /\ tools \in ToolMaps /\ chain \in SUBSET Roles
      /\ Settled(defs, chain, tools) /\ chain \subseteq Assigned(defs, names)
  <2>. HIDE DEF top
  <2>. QED
    BY ReturnsSettled DEF top
<1>2. SubSeq(res.stack, 1, Len(res.stack) - 1) = <<>>
  BY Typed
<1>3. new = [[res EXCEPT !.stack = <<>>, !.visited = @ \ {top.role}] EXCEPT
                !.todo = Tail(@), !.tools = Over(tools, @), !.chain = @ \cup chain]
  BY <1>2 DEF Return
<1>4. Over(tools, res.tools) \in ToolMaps
  BY <1>1, Typed, OverTyped
<1>5. res.todo # <<>> /\ res.todo \in Seq(Roles) /\ top.role = res.todo[1]
  BY <1>1, Typed DEF Good
<1>6. Tail(res.todo) \in Seq(Roles) /\ Elements(res.todo) = {res.todo[1]} \cup Elements(Tail(res.todo))
  <2>1. /\ Tail(res.todo) \in Seq(Roles) /\ Len(Tail(res.todo)) = Len(res.todo) - 1
        /\ Len(res.todo) \in Nat \ {0}
        /\ \A k \in 1..Len(res.todo) - 1 : Tail(res.todo)[k] = res.todo[k + 1]
    BY <1>5
  <2>2. Elements(res.todo) \subseteq {res.todo[1]} \cup Elements(Tail(res.todo))
    <3>1. ASSUME NEW k \in 1..Len(res.todo)
          PROVE  res.todo[k] \in {res.todo[1]} \cup Elements(Tail(res.todo))
      <4>1. CASE k = 1
        BY <4>1
      <4>2. CASE k # 1
        <5>1. k - 1 \in 1..Len(res.todo) - 1 /\ (k - 1) + 1 = k
          BY <2>1, <4>2
        <5>2. Tail(res.todo)[k - 1] = res.todo[k]
          BY <2>1, <5>1
        <5>3. k - 1 \in DOMAIN Tail(res.todo)
          BY <2>1, <5>1
        <5>. QED
          BY <5>2, <5>3 DEF Elements
      <4>. QED
        BY <4>1, <4>2
    <3>. QED
      BY <1>5, <3>1 DEF Elements
  <2>3. {res.todo[1]} \cup Elements(Tail(res.todo)) \subseteq Elements(res.todo)
    BY <1>5, <2>1 DEF Elements
  <2>. QED
    BY <2>1, <2>2, <2>3
<1>. HIDE DEF top, tools, chain
<1>7. /\ new \in Resolutions
      /\ new.stack = <<>> /\ new.visited = res.visited \ {top.role}
      /\ new.todo = Tail(res.todo) /\ new.chain = res.chain \cup chain
      /\ new.tools = Over(tools, res.tools) /\ new.outcome = res.outcome
  <2>. DEFINE popped == [res EXCEPT !.stack = <<>>, !.visited = @ \ {top.role}]
  <2>1. <<>> \in Seq(Frames)
    OBVIOUS
  <2>2. /\ popped \in Resolutions /\ popped.stack = <<>>
        /\ popped.visited = res.visited \ {top.role} /\ popped.todo = res.todo
        /\ popped.chain = res.chain /\ popped.tools = res.tools /\ popped.outcome = res.outcome
    BY <2>1 DEF Resolutions
  <2>3. new = [popped EXCEPT !.todo = Tail(@), !.tools = Over(tools, @), !.chain = @ \cup chain]
    BY <1>3
  <2>4. res.chain \cup chain \in SUBSET Roles
    BY <1>1, Typed
  <2>. HIDE DEF popped, new
  <2>. QED
    BY <1>4, <1>6, <2>2, <2>3, <2>4 DEF Resolutions
<1>8. Good(defs, names, new)
  <2>. HIDE DEF new
  <2>1. Line(defs, <<>>)
    BY RolesTyped DEF Line
  <2>2. new.visited = {new.stack[k].role : k \in 1..Len(new.stack)}
    BY <1>1, <1>7 DEF Good
  <2>3. Settled(defs, new.chain, new.tools)
    <3>1. Settled(defs, res.chain, res.tools) /\ res.tools \in ToolMaps
      BY Typed DEF Good
    <3>. QED
      BY <1>1, <1>7, <3>1, SettledTogether
  <2>4. /\ Elements(new.todo) \subseteq Elements(names)
        /\ Elements(names) \subseteq Elements(new.todo) \cup new.chain
    BY <1>5, <1>6, <1>7 DEF Good, chain
  <2>5. Shallow(defs, names, new.stack, new.todo)
    <3>1. ~LineFrom(defs, top.role, MaxDepth + 1)
      <4>1. ~LineFrom(defs, top.role, MaxDepth + 2 - 1)
        BY ReturnsSettled DEF top
      <4>2. MaxDepth + 2 - 1 = MaxDepth + 1
        BY RolesTyped
      <4>. QED
        BY <4>1, <4>2
    <3>2. \A r \in Elements(names) \ Elements(res.todo) : ~LineFrom(defs, r, MaxDepth + 1)
      BY DEF Good, Shallow
    <3>3. \A r \in Elements(names) \ Elements(new.todo) : ~LineFrom(defs, r, MaxDepth + 1)
      BY <1>5, <1>6, <1>7, <3>1, <3>2
    <3>. QED
      BY <1>7, <3>3 DEF Shallow
  <2>. QED
    BY <1>1, <1>7, <2>1, <2>2, <2>3, <2>4, <2>5 DEF Good
<1>. QED
  BY <1>7, <1>8

\* The stack of a resolution without its last frame.
LEMMA Below ==
    ASSUME NEW s \in Seq(Frames), NEW L \in Nat, L = Len(s), L > 1
    PROVE  /\ SubSeq(s, 1, L - 1) \in Seq(Frames) /\ Len(SubSeq(s, 1, L - 1)) = L - 1
           /\ SubSeq(s, 1, L - 1) # <<>>
           /\ \A k \in 1..L - 1 : SubSeq(s, 1, L - 1)[k] = s[k]
<1>1. L - 1 \in Nat /\ L - 1 >= 1 /\ L - 1 <= L
  OBVIOUS
<1>2. \A k \in 1..L : s[k] \in Frames
  OBVIOUS
<1>3. SubSeq(s, 1, L - 1) = [k \in 1..L - 1 |-> s[k]]
  BY <1>1, <1>2
<1>4. \A k \in 1..L - 1 : s[k] \in Frames
  BY <1>1, <1>2
<1>5. Len(SubSeq(s, 1, L - 1)) = L - 1
  BY <1>1, <1>2
<1>6. SubSeq(s, 1, L - 1) \in Seq(Frames)
  BY <1>1, <1>3, <1>4
<1>7. SubSeq(s, 1, L - 1) # <<>>
  BY <1>1, <1>5
<1>. QED
  BY <1>3, <1>5, <1>6, <1>7

\* A frame that takes over what a parent gives goes on to the next one.
LEMMA TakenFields ==
    ASSUME NEW f \in Frames, NEW tools, NEW chain, Over(tools, f.tools) \in ToolMaps,
           f.chain \cup chain \in SUBSET Roles, f.next + 1 \in Nat \ {0}
    PROVE  LET taken == Taken(f, tools, chain)
           IN  /\ taken \in Frames /\ taken.role = f.role /\ taken.next = f.next + 1
               /\ taken.tools = Over(tools, f.tools) /\ taken.chain = f.chain \cup chain
<1>. DEFINE all == Over(tools, f.tools)
            both == f.chain \cup chain
            next == f.next + 1
            taken == [f EXCEPT !.next = next, !.tools = all, !.chain = both]
<1>1. Taken(f, tools, chain) = taken
  BY DEF Taken
<1>. HIDE DEF all, both, next
<1>2. all \in ToolMaps /\ both \in SUBSET Roles /\ next \in Nat \ {0}
  BY DEF all, both, next
<1>3. /\ taken \in Frames /\ taken.role = f.role /\ taken.next = next
      /\ taken.tools = all /\ taken.chain = both
  BY <1>2 DEF Frames
<1>. QED
  BY <1>1, <1>3 DEF all, both, next

\* A parent is resolved.
LEMMA ReturnToFrame ==
    ASSUME NEW defs \in RoleDefs, NEW names \in Seq(Roles), NEW res \in Resolutions,
           Good(defs, names, res), res.stack # <<>>, ~ParentsLeft(defs, res),
           Len(res.stack) # 1
    PROVE  Good(defs, names, Return(defs, res)) /\ Return(defs, res) \in Resolutions
<1>. DEFINE L == Len(res.stack)
            top == Top(res)
            tools == Over(OwnTools(defs, top.role), top.tools)
            chain == top.chain \cup {top.role}
            below == SubSeq(res.stack, 1, L - 1)
            caller == Taken(res.stack[L - 1], tools, chain)
            new == Return(defs, res)
<1>1. /\ top = res.stack[L] /\ L \in Nat /\ L > 1 /\ tools \in ToolMaps /\ chain \in SUBSET Roles
      /\ Settled(defs, chain, tools) /\ chain \subseteq Assigned(defs, names)
      /\ \A j \in 1..L - 1 : res.stack[j].role \notin chain
  <2>1. /\ top = res.stack[L] /\ L \in Nat \ {0}
        /\ tools \in ToolMaps /\ chain \in SUBSET Roles
        /\ Settled(defs, chain, tools) /\ chain \subseteq Assigned(defs, names)
        /\ \A j \in 1..L - 1 : res.stack[j].role \notin chain
    BY ReturnsSettled
  <2>2. L > 1
    <3>1. L # 1 /\ L \in Nat \ {0}
      BY <2>1
    <3>. HIDE DEF L
    <3>. QED
      BY <3>1
  <2>. QED
    BY <2>1, <2>2
<1>2. /\ below \in Seq(Frames) /\ Len(below) = L - 1 /\ below # <<>>
      /\ \A k \in 1..L - 1 : below[k] = res.stack[k]
  BY <1>1, Typed, Below
<1>3. /\ res.stack[L - 1] \in Frames /\ L - 1 \in 1..L
      /\ res.stack[L - 1].tools \in ToolMaps /\ res.stack[L - 1].chain \subseteq Roles
      /\ res.stack[L - 1].next \in Nat \ {0}
  <2>1. L - 1 \in 1..L
    BY <1>1
  <2>. QED
    BY <2>1, Typed
<1>4. /\ caller \in Frames /\ caller.role = res.stack[L - 1].role
      /\ caller.next = res.stack[L - 1].next + 1
      /\ caller.tools = Over(tools, res.stack[L - 1].tools)
      /\ caller.chain = res.stack[L - 1].chain \cup chain
  <2>1. Over(tools, res.stack[L - 1].tools) \in ToolMaps
    BY <1>1, <1>3, OverTyped
  <2>. HIDE DEF tools, chain, L
  <2>2. /\ res.stack[L - 1].chain \cup chain \in SUBSET Roles
        /\ res.stack[L - 1].next + 1 \in Nat \ {0}
    BY <1>1, <1>3
  <2>. QED
    BY <1>3, <2>1, <2>2, TakenFields
<1>5. new = [[res EXCEPT !.stack = below, !.visited = @ \ {top.role}] EXCEPT !.stack =
                [below EXCEPT ![L - 1] = Taken(below[L - 1], tools, chain)]]
  BY <1>2 DEF Return
<1>. DEFINE stack == [below EXCEPT ![L - 1] = caller]
<1>6. /\ stack \in Seq(Frames) /\ Len(stack) = L - 1
      /\ \A k \in 1..L - 1 : stack[k] = IF k = L - 1 THEN caller ELSE res.stack[k]
  <2>. HIDE DEF caller, below
  <2>. QED
    BY <1>1, <1>2, <1>4
<1>7. /\ new \in Resolutions
      /\ new.stack = stack /\ new.visited = res.visited \ {top.role}
      /\ new.todo = res.todo /\ new.chain = res.chain
      /\ new.tools = res.tools /\ new.outcome = res.outcome
  <2>. DEFINE visited == res.visited \ {top.role}
              popped == [res EXCEPT !.stack = below, !.visited = visited]
  <2>. HIDE DEF below, top, L, tools, chain, caller, stack
  <2>1. visited \in SUBSET Roles
    BY Typed
  <2>2. /\ popped \in Resolutions /\ popped.stack = below
        /\ popped.visited = visited /\ popped.todo = res.todo
        /\ popped.chain = res.chain /\ popped.tools = res.tools /\ popped.outcome = res.outcome
    <3>. HIDE DEF visited
    <3>. QED
      BY <1>2, <2>1 DEF Resolutions
  <2>3. below[L - 1] = res.stack[L - 1]
    BY <1>1, <1>2
  <2>4. new = [popped EXCEPT !.stack = stack]
    BY <1>5, <2>3 DEF stack, caller
  <2>. HIDE DEF popped, new, visited
  <2>. QED
    BY <1>6, <2>2, <2>4 DEF Resolutions, visited
<1>8. /\ \A k \in 1..L : res.stack[k].role \in Defined(defs) /\ FrameGood(defs, names, res.stack, k)
      /\ \A j, k \in 1..L : j < k =>
            /\ res.stack[j].role # res.stack[k].role
            /\ res.stack[k].role \in Ancestry(defs, Parents(defs, res.stack[j].role))
      /\ \A k \in 1..L - 1 :
            /\ res.stack[k].next <= Len(defs[res.stack[k].role].extends)
            /\ res.stack[k + 1].role = defs[res.stack[k].role].extends[res.stack[k].next]
      /\ L <= MaxDepth + 1
  BY DEF Good, Line
<1>. HIDE DEF L, tools, chain, below, caller, stack, top
<1>9. \A k \in 1..L - 1 : stack[k].role = res.stack[k].role
  BY <1>4, <1>6
<1>10. Line(defs, stack)
  <2>1. Len(stack) <= MaxDepth + 1 /\ MaxDepth \in Nat
    BY <1>1, <1>6, <1>8, RolesTyped
  <2>2. \A k \in 1..L - 1 : stack[k].role \in Defined(defs)
    BY <1>1, <1>8, <1>9
  <2>3. ASSUME NEW j \in 1..L - 1, NEW k \in 1..L - 1, j < k
        PROVE  /\ stack[j].role # stack[k].role
               /\ stack[k].role \in Ancestry(defs, Parents(defs, stack[j].role))
    BY <1>1, <1>8, <1>9, <2>3
  <2>4. ASSUME NEW k \in 1..(L - 1) - 1
        PROVE  /\ stack[k].next <= Len(defs[stack[k].role].extends)
               /\ stack[k + 1].role = defs[stack[k].role].extends[stack[k].next]
    <3>1. k \in 1..L - 1 /\ k + 1 \in 1..L - 1 /\ k # L - 1
      BY <1>1
    <3>2. stack[k] = res.stack[k] /\ stack[k + 1].role = res.stack[k + 1].role
      BY <1>6, <1>9, <3>1
    <3>. QED
      BY <1>8, <3>1, <3>2
  <2>. QED
    BY <1>6, <2>1, <2>2, <2>3, <2>4 DEF Line
<1>11. ASSUME NEW k \in 1..L - 1
       PROVE  FrameGood(defs, names, stack, k)
  <2>1. FrameGood(defs, names, res.stack, k) /\ k \in 1..L
    BY <1>1, <1>8
  <2>2. \A j \in 1..k : stack[j].role = res.stack[j].role
    BY <1>1, <1>9
  <2>3. CASE k # L - 1
    <3>1. stack[k] = res.stack[k]
      BY <1>6, <2>3
    <3>. QED
      BY <2>1, <2>2, <3>1 DEF FrameGood
  <2>4. CASE k = L - 1
    <3>. DEFINE f == res.stack[k]
    <3>1. /\ stack[k].role = f.role /\ stack[k].next = f.next + 1
          /\ stack[k].tools = Over(tools, f.tools) /\ stack[k].chain = f.chain \cup chain
      BY <1>4, <1>6, <2>4
    <3>2. f.tools \in ToolMaps /\ f.next \in Nat \ {0}
      BY <2>1, Typed DEF L
    <3>3. Settled(defs, stack[k].chain, stack[k].tools)
      BY <1>1, <2>1, <3>1, <3>2, SettledTogether DEF FrameGood
    <3>4. /\ f.next <= Len(defs[f.role].extends)
          /\ res.stack[L].role = defs[f.role].extends[f.next]
      <4>1. k + 1 = L /\ k \in 1..L - 1
        BY <1>1, <2>4
      <4>. QED
        BY <1>8, <4>1
    <3>5. Len(defs[f.role].extends) \in Nat
      BY <1>8, <2>1, ParentsAreRoles
    <3>6. ASSUME NEW m \in 1..stack[k].next - 1
          PROVE  defs[f.role].extends[m] \in stack[k].chain
      <4>1. CASE m = f.next
        BY <1>1, <3>1, <3>4, <4>1 DEF chain
      <4>2. CASE m # f.next
        <5>1. m \in 1..f.next - 1
          BY <3>1, <3>2, <4>2
        <5>. QED
          BY <2>1, <3>1, <5>1 DEF FrameGood
      <4>. QED
        BY <4>1, <4>2
    <3>7. \A j \in 1..k : stack[j].role \notin stack[k].chain
      BY <1>1, <2>1, <2>2, <2>4, <3>1 DEF FrameGood
    <3>8. /\ stack[k].chain \subseteq Assigned(defs, names)
          /\ stack[k].role \in Assigned(defs, names)
      BY <1>1, <2>1, <3>1 DEF FrameGood
    <3>9. stack[k].next <= Len(defs[stack[k].role].extends) + 1
      <4>. HIDE DEF f
      <4>1. f.next + 1 <= Len(defs[f.role].extends) + 1
        BY <3>2, <3>4, <3>5
      <4>. QED
        BY <3>1, <4>1
    <3>. QED
      BY <3>1, <3>3, <3>6, <3>7, <3>8, <3>9 DEF FrameGood
  <2>. QED
    BY <2>3, <2>4
<1>12. Good(defs, names, new)
  <2>. HIDE DEF new
  <2>1. new.visited = {new.stack[k].role : k \in 1..Len(new.stack)}
    <3>1. new.visited = {res.stack[k].role : k \in 1..L} \ {res.stack[L].role}
      BY <1>1, <1>7 DEF Good, L
    <3>2. {res.stack[k].role : k \in 1..L} \ {res.stack[L].role} = {res.stack[k].role : k \in 1..L - 1}
      BY <1>1, <1>8
    <3>3. new.stack = stack /\ Len(new.stack) = L - 1
      BY <1>6, <1>7
    <3>4. {stack[k].role : k \in 1..L - 1} = {res.stack[k].role : k \in 1..L - 1}
      BY <1>9
    <3>. QED
      BY <3>1, <3>2, <3>3, <3>4
  <2>2. new.todo # <<>> /\ new.stack[1].role = new.todo[1]
    BY <1>1, <1>7, <1>9 DEF Good
  <2>3. Shallow(defs, names, new.stack, new.todo)
    <3>1. \A k \in 1..L : \A m \in 1..res.stack[k].next - 1 :
              ~LineFrom(defs, defs[res.stack[k].role].extends[m], MaxDepth + 1 - k)
      BY DEF Good, Shallow, L
    <3>2. ASSUME NEW k \in 1..L - 1, NEW m \in 1..stack[k].next - 1
          PROVE  ~LineFrom(defs, defs[stack[k].role].extends[m], MaxDepth + 1 - k)
      <4>1. CASE k # L - 1
        <5>1. stack[k] = res.stack[k] /\ k \in 1..L
          BY <1>1, <1>6, <4>1
        <5>. QED
          BY <3>1, <5>1
      <4>2. CASE k = L - 1
        <5>. DEFINE f == res.stack[k]
        <5>1. stack[k].role = f.role /\ stack[k].next = f.next + 1 /\ k \in 1..L
          BY <1>1, <1>4, <1>6, <4>2
        <5>2. f.next \in Nat \ {0}
          BY <1>3, <4>2
        <5>3. CASE m = f.next
          <6>1. top.role = defs[f.role].extends[f.next]
            BY <1>1, <1>8, <4>2
          <6>2. ~LineFrom(defs, top.role, MaxDepth + 2 - L)
            BY ReturnsSettled DEF top, L
          <6>3. MaxDepth + 2 - L = MaxDepth + 1 - k
            BY <1>1, <4>2, RolesTyped
          <6>. QED
            BY <5>1, <5>3, <6>1, <6>2, <6>3
        <5>4. CASE m # f.next
          <6>1. m \in 1..f.next - 1
            BY <5>1, <5>2, <5>4
          <6>. QED
            BY <3>1, <5>1, <6>1
        <5>. QED
          BY <5>3, <5>4
      <4>. QED
        BY <4>1, <4>2
    <3>. QED
      BY <1>6, <1>7, <3>2 DEF Good, Shallow
  <2>. QED
    BY <1>6, <1>7, <1>10, <1>11, <2>1, <2>2, <2>3 DEF Good
<1>. QED
  BY <1>7, <1>12

\* A return leaves a resolution that goes on well.
LEMMA ReturnRight ==
    ASSUME NEW defs \in RoleDefs, NEW names \in Seq(Roles), NEW res \in Resolutions,
           Good(defs, names, res), res.stack # <<>>, ~ParentsLeft(defs, res)
    PROVE  Right(defs, names, Return(defs, res)) /\ Return(defs, res) \in Resolutions
<1>1. Good(defs, names, Return(defs, res)) /\ Return(defs, res) \in Resolutions
  BY ReturnToLoop, ReturnToFrame
<1>. QED
  BY <1>1 DEF Right, Good, AcceptedTruly, RefusedTruly

\* With all assigned roles settled, the chain is their ancestry.
LEMMA AllResolvedRight ==
    ASSUME NEW defs \in RoleDefs, NEW names \in Seq(Roles), NEW res \in Resolutions,
           Good(defs, names, res), res.todo = <<>>
    PROVE  Right(defs, names, AllResolved(res)) /\ AllResolved(res) \in Resolutions
<1>. DEFINE new == AllResolved(res)
<1>1. /\ new \in Resolutions /\ new.outcome = "ok"
      /\ new.chain = res.chain /\ new.tools = res.tools
  BY DEF AllResolved, Resolutions, Outcomes
<1>. HIDE DEF new
<1>2. Elements(names) \subseteq res.chain
  BY DEF Good, Elements
<1>3. res.chain = Assigned(defs, names)
  <2>1. res.chain \in SUBSET Roles /\ Closed(defs, res.chain)
    BY Typed DEF Good, Settled
  <2>. QED
    BY <1>2, <2>1, AncestryLeast DEF Good, Assigned
<1>4. ~TooDeep(defs, names)
  BY DEF Good, Shallow, TooDeep, Elements
<1>5. AcceptedTruly(defs, names, new)
  BY <1>1, <1>3, <1>4 DEF AcceptedTruly, Good, Settled, Assigned
<1>6. Right(defs, names, new)
  BY <1>1, <1>5 DEF Right, RefusedTruly
<1>. QED
  BY <1>1, <1>6 DEF new
------------------------------------------------------------------------------
(* Who gives a tool. *)

\* `tools` are those of the last of the first m roles of s that has them, when n levels
\* of inheritance at most are above it,
LastGives(defs, s, m, n, tools) ==
    \A t \in Tools :
        IF tools[t] = None THEN \A k \in 1..m : ~Provides(defs, s[k], t)
        ELSE \E k \in 1..m :
                /\ Provides(defs, s[k], t)
                /\ \A j \in 1..m : Provides(defs, s[j], t) => j <= k
                /\ tools[t] = GivenBy(defs, t)[n][s[k]]

\* or those of one role.
RoleGives(defs, r, n, tools) ==
    \A t \in Tools :
        IF tools[t] = None THEN ~Provides(defs, r, t)
        ELSE Provides(defs, r, t) /\ tools[t] = GivenBy(defs, t)[n][r]

\* The assigned roles are resolved from the first to the last, the parents of a frame
\* too, and what has been resolved gives its tools as it should.
Gives(defs, names, res) ==
    LET resolved == Len(names) - Len(res.todo)
    IN  /\ resolved \in Nat
        /\ \A j \in 1..Len(res.todo) : res.todo[j] = names[resolved + j]
        /\ LastGives(defs, names, resolved, MaxDepth, res.tools)
        /\ \A k \in 1..Len(res.stack) :
              LET f == res.stack[k]
              IN  /\ k > MaxDepth => f.next = 1
                  /\ LastGives(defs, defs[f.role].extends, f.next - 1, MaxDepth - k, f.tools)

\* Every non-empty set of naturals has a least element.
LEMMA LeastNatural ==
    ASSUME NEW I \in SUBSET Nat, I # {}
    PROVE  \E m \in I : \A k \in I : m <= k
<1>. DEFINE below(m) == 1..m
            R == StrictSubsetOrdering(Nat)
            T == {below(m) : m \in I}
<1>1. T \subseteq FiniteSubsetsOf(Nat)
  <2>. SUFFICES ASSUME NEW m \in I PROVE below(m) \in FiniteSubsetsOf(Nat)
    OBVIOUS
  <2>1. IsFiniteSet(1..m) /\ 1..m \in SUBSET Nat
    BY FS_Interval
  <2>. QED
    BY <2>1 DEF FiniteSubsetsOf
<1>2. IsWellFoundedOn(R, FiniteSubsetsOf(Nat))
  BY FS_StrictSubsetOrderingWellFounded
<1>3. PICK x \in T : \A y \in T : ~ (<<y, x>> \in R)
  <2>1. T # {}
    OBVIOUS
  <2>. HIDE DEF T, R
  <2>. QED
    BY <1>1, <1>2, <2>1, WFMin
<1>4. PICK m \in I : x = below(m)
  BY <1>3
<1>5. ASSUME NEW k \in I, k < m
      PROVE  FALSE
  <2>1. below(k) \in T
    OBVIOUS
  <2>2. /\ below(k) \subseteq below(m) /\ below(k) # below(m)
        /\ below(k) \in SUBSET Nat /\ below(m) \in SUBSET Nat
    BY <1>5
  <2>3. <<below(k), below(m)>> \in R
    BY <2>2 DEF StrictSubsetOrdering
  <2>. QED
    BY <1>3, <1>4, <2>1, <2>3
<1>. QED
  BY <1>5

\* A role gives its own tools; with some levels above it, the last parent that has a
\* tool gives it: the recursion has a solution, one level after the other.
LEMMA GivenHere ==
    ASSUME NEW defs, NEW t, NEW n \in 0..MaxDepth, NEW q \in Defined(defs) \cup {None}
    PROVE  GivenBy(defs, t)[n][q] =
              IF q = None \/ t \in defs[q].tools \/ n = 0 THEN q
              ELSE GivenBy(defs, t)[n - 1][LastWith(defs, defs[q].extends, t)]
<1>. DEFINE D == Defined(defs) \cup {None}
            Own(r) == r = None \/ t \in defs[r].tools
            Level(f, l) == [r \in D |-> IF Own(r) \/ l = 0 THEN r
                                        ELSE f[l - 1][LastWith(defs, defs[r].extends, t)]]
            Builds(f, m) == f = [l \in 0..m |-> Level(f, l)]
<1>0. MaxDepth \in Nat
  BY RolesTyped
<1>1. \A m \in 0..MaxDepth : \E f : Builds(f, m)
  <2>. DEFINE Bad == {m \in 0..MaxDepth : ~ \E f : Builds(f, m)}
  <2>. SUFFICES ASSUME Bad # {} PROVE FALSE
    OBVIOUS
  <2>0. Bad \in SUBSET Nat
    OBVIOUS
  <2>1. PICK m \in Bad : \A k \in Bad : m <= k
    <3>. HIDE DEF Bad
    <3>. QED
      BY <2>0, LeastNatural
  <2>2. m # 0
    <3>. DEFINE f == [l \in 0..0 |-> [r \in D |-> r]]
    <3>1. \A l \in 0..0 : Level(f, l) = [r \in D |-> r]
      OBVIOUS
    <3>2. Builds(f, 0)
      <4>. HIDE DEF Level
      <4>. QED
        BY <3>1
    <3>. QED
      BY <3>2
  <2>3. m - 1 \in 0..MaxDepth /\ m - 1 \notin Bad /\ m \in 1..MaxDepth
    <3>1. m \in 0..MaxDepth
      BY <2>1
    <3>. HIDE DEF Bad
    <3>. QED
      BY <1>0, <2>0, <2>1, <2>2, <3>1
  <2>4. PICK f : Builds(f, m - 1)
    BY <2>3
  <2>. DEFINE g == [l \in 0..m |-> IF l = m THEN Level(f, m) ELSE f[l]]
  <2>5. Builds(g, m)
    <3>1. ASSUME NEW l \in 0..m
          PROVE  g[l] = Level(g, l)
      <4>1. l # 0 => l - 1 \in 0..m /\ g[l - 1] = f[l - 1]
        <5>. HIDE DEF Level
        <5>. QED
          BY <2>3
      <4>2. Level(g, l) = Level(f, l)
        <5>. HIDE DEF g
        <5>. QED
          BY <4>1
      <4>3. l # m => l \in 0..(m - 1) /\ f[l] = Level(f, l)
        <5>. HIDE DEF Level
        <5>1. \A k \in 0..(m - 1) : f[k] = Level(f, k)
          BY <2>4
        <5>2. l # m => l \in 0..(m - 1)
          BY <2>3
        <5>. QED
          BY <5>1, <5>2
      <4>. HIDE DEF Level
      <4>. QED
        BY <4>2, <4>3
    <3>. HIDE DEF Level
    <3>. QED
      BY <3>1
  <2>. QED
    BY <2>1, <2>5
<1>. DEFINE from[l \in 0..MaxDepth] ==
              [r \in Defined(defs) \cup {None} |->
                  IF r = None \/ t \in defs[r].tools \/ l = 0 THEN r
                  ELSE from[l - 1][LastWith(defs, defs[r].extends, t)]]
<1>2. \E f : f = [l \in 0..MaxDepth |-> Level(f, l)]
  <2>1. MaxDepth \in 0..MaxDepth
    BY <1>0
  <2>. QED
    BY <1>1, <2>1
<1>3. from = [l \in 0..MaxDepth |-> Level(from, l)]
  BY <1>2
<1>4. GivenBy(defs, t) = from
  BY DEF GivenBy
<1>. HIDE DEF from
<1>5. from[n] = Level(from, n)
  BY <1>3
<1>. QED
  BY <1>4, <1>5

\* The last role that has a tool is the one after which none has it.
LEMMA LastWithIs ==
    ASSUME NEW defs, NEW s \in Seq(Roles), NEW t
    PROVE  /\ (\A k \in 1..Len(s) : ~Provides(defs, s[k], t)) => LastWith(defs, s, t) = None
           /\ \A k \in 1..Len(s) :
                 Provides(defs, s[k], t) /\ (\A j \in 1..Len(s) : Provides(defs, s[j], t) => j <= k)
                    => LastWith(defs, s, t) = s[k]
<1>. DEFINE P(k) == Provides(defs, s[k], t)
            with == {k \in DOMAIN s : P(k)}
<1>1. DOMAIN s = 1..Len(s) /\ Len(s) \in Nat
  OBVIOUS
<1>2. LastWith(defs, s, t) =
          IF with = {} THEN None ELSE s[CHOOSE k \in with : \A j \in with : j <= k]
  BY DEF LastWith
<1>. HIDE DEF P
<1>3. (\A k \in 1..Len(s) : ~P(k)) => LastWith(defs, s, t) = None
  BY <1>1, <1>2
<1>4. ASSUME NEW k \in 1..Len(s), P(k), \A j \in 1..Len(s) : P(j) => j <= k
      PROVE  LastWith(defs, s, t) = s[k]
  <2>. DEFINE last == CHOOSE x \in with : \A j \in with : j <= x
  <2>1. k \in with /\ \A j \in with : j <= k
    BY <1>1, <1>4
  <2>2. last \in with /\ \A j \in with : j <= last
    <3>. HIDE DEF with
    <3>. QED
      BY <2>1
  <2>3. last = k
    <3>1. last \in Nat /\ k \in Nat
      BY <1>1, <2>2
    <3>. HIDE DEF last, with
    <3>. QED
      BY <2>1, <2>2, <3>1
  <2>4. LastWith(defs, s, t) = s[last]
    BY <1>2, <2>1
  <2>. HIDE DEF last
  <2>. QED
    BY <2>3, <2>4
<1>. QED
  BY <1>3, <1>4 DEF P

\* What a role provides is its own or one of its parents provides it.
LEMMA ProvidesThrough ==
    ASSUME NEW defs \in RoleDefs, NEW r \in Defined(defs), NEW t
    PROVE  Provides(defs, r, t) <=>
              t \in defs[r].tools \/ \E p \in Parents(defs, r) : Provides(defs, p, t)
<1>. DEFINE above == {q \in Roles : \E p \in Parents(defs, r) : q \in Ancestry(defs, {p})}
<1>1. r \in Roles /\ Parents(defs, r) \subseteq Roles
  BY ParentsAreRoles DEF Defined
<1>2. ASSUME NEW p \in Roles
      PROVE  /\ p \in Ancestry(defs, {p}) /\ Ancestry(defs, {p}) \in SUBSET Roles
             /\ Closed(defs, Ancestry(defs, {p}))
  BY <1>2, AncestryHolds, AncestryClosed
<1>3. ASSUME NEW p \in Parents(defs, r)
      PROVE  Ancestry(defs, {p}) \subseteq Ancestry(defs, {r})
  <2>1. p \in Ancestry(defs, {r})
    BY <1>1, <1>2, <1>3 DEF Closed
  <2>. QED
    BY <1>1, <1>2, <2>1, AncestryLeast
<1>4. Ancestry(defs, {r}) \subseteq {r} \cup above
  <2>1. Closed(defs, {r} \cup above)
    <3>1. ASSUME NEW q \in above, q \in Defined(defs), NEW x \in Parents(defs, q)
          PROVE  x \in above
      <4>1. PICK p \in Parents(defs, r) : q \in Ancestry(defs, {p})
        BY <3>1
      <4>2. x \in Ancestry(defs, {p}) /\ x \in Roles
        BY <1>1, <1>2, <3>1, <4>1, ParentsAreRoles DEF Closed
      <4>. QED
        BY <4>1, <4>2
    <3>2. Parents(defs, r) \subseteq above
      BY <1>1, <1>2
    <3>. HIDE DEF above
    <3>. QED
      BY <3>1, <3>2 DEF Closed
  <2>2. {r} \cup above \in SUBSET Roles
    BY <1>1
  <2>. QED
    BY <2>1, <2>2, AncestryLeast
<1>5. r \in Ancestry(defs, {r})
  BY <1>1, <1>2
<1>6. ASSUME Provides(defs, r, t)
      PROVE  t \in defs[r].tools \/ \E p \in Parents(defs, r) : Provides(defs, p, t)
  BY <1>4, <1>6 DEF Provides
<1>7. ASSUME t \in defs[r].tools \/ \E p \in Parents(defs, r) : Provides(defs, p, t)
      PROVE  Provides(defs, r, t)
  BY <1>3, <1>5, <1>7 DEF Provides
<1>. QED
  BY <1>6, <1>7

\* What is not among the tools of settled roles is provided by none of them.
LEMMA SettledProvides ==
    ASSUME NEW defs \in RoleDefs, NEW C, NEW tools, Settled(defs, C, tools),
           NEW r \in C, NEW t \in Tools, tools[t] = None
    PROVE  ~Provides(defs, r, t)
<1>1. C \in SUBSET Roles /\ Closed(defs, C)
  BY DEF Settled, Defined
<1>2. Ancestry(defs, {r}) \subseteq C
  BY <1>1, AncestryLeast
<1>. QED
  BY <1>2 DEF Settled, Provides

\* Before anything is resolved nothing is given.
LEMMA NothingGiven ==
    ASSUME NEW defs, NEW s, NEW n
    PROVE  LastGives(defs, s, 0, n, NoTools)
BY DEF LastGives, NoTools

\* The next role of a list is taken over the ones before it.
LEMMA TakenGives ==
    ASSUME NEW defs, NEW s, NEW m \in Nat, NEW n, NEW new \in ToolMaps, NEW old \in ToolMaps,
           LastGives(defs, s, m, n, old), RoleGives(defs, s[m + 1], n, new)
    PROVE  LastGives(defs, s, m + 1, n, Over(new, old))
<1>. DEFINE P(k, t) == Provides(defs, s[k], t)
            all == Over(new, old)
            V(k, t) == GivenBy(defs, t)[n][s[k]]
<1>1. ASSUME NEW t \in Tools
      PROVE  IF all[t] = None THEN \A k \in 1..m + 1 : ~P(k, t)
             ELSE \E k \in 1..m + 1 : /\ P(k, t) /\ \A j \in 1..m + 1 : P(j, t) => j <= k
                                      /\ all[t] = V(k, t)
  <2>1. all[t] = IF new[t] # None THEN new[t] ELSE old[t]
    BY DEF Over
  <2>2. IF new[t] = None THEN ~P(m + 1, t) ELSE P(m + 1, t) /\ new[t] = V(m + 1, t)
    BY DEF RoleGives
  <2>3. IF old[t] = None THEN \A k \in 1..m : ~P(k, t)
        ELSE \E k \in 1..m : /\ P(k, t) /\ \A j \in 1..m : P(j, t) => j <= k
                             /\ old[t] = V(k, t)
    BY DEF LastGives
  <2>4. 1..m + 1 = 1..m \cup {m + 1}
    OBVIOUS
  <2>. HIDE DEF P, V, all
  <2>5. CASE new[t] # None
    <3>1. \A j \in 1..m + 1 : j <= m + 1
      OBVIOUS
    <3>. QED
      BY <2>1, <2>2, <2>4, <2>5, <3>1
  <2>6. CASE new[t] = None /\ old[t] = None
    BY <2>1, <2>2, <2>3, <2>4, <2>6
  <2>7. CASE new[t] = None /\ old[t] # None
    <3>1. PICK k \in 1..m : /\ P(k, t) /\ \A j \in 1..m : P(j, t) => j <= k
                            /\ old[t] = V(k, t)
      BY <2>3, <2>7
    <3>2. \A j \in 1..m + 1 : P(j, t) => j <= k
      BY <2>2, <2>4, <2>7, <3>1
    <3>. QED
      BY <2>1, <2>4, <2>7, <3>1, <3>2
  <2>. QED
    BY <2>5, <2>6, <2>7
<1>. HIDE DEF all
<1>2. LastGives(defs, s, m + 1, n, all)
  BY <1>1 DEF LastGives
<1>. QED
  BY <1>2 DEF all

\* A role that returns gives its own tools, and what its parents give.
LEMMA ReturnsGives ==
    ASSUME NEW defs \in RoleDefs, NEW names \in Seq(Roles), NEW res \in Resolutions,
           Good(defs, names, res), Gives(defs, names, res),
           res.stack # <<>>, ~ParentsLeft(defs, res)
    PROVE  /\ MaxDepth + 1 - Len(res.stack) \in 0..MaxDepth
           /\ RoleGives(defs, Top(res).role, MaxDepth + 1 - Len(res.stack),
                        Over(OwnTools(defs, Top(res).role), Top(res).tools))
<1>. DEFINE L == Len(res.stack)
            top == res.stack[L]
            r == top.role
            s == defs[r].extends
            n == MaxDepth + 1 - L
            tools == Over(OwnTools(defs, r), top.tools)
            chain == top.chain \cup {r}
<1>1. /\ L \in Nat \ {0} /\ L \in 1..L /\ Top(res) = top
      /\ top.next \in Nat \ {0} /\ MaxDepth \in Nat
  BY Typed, RolesTyped DEF Top
<1>2. /\ r \in Defined(defs) /\ s \in Seq(Roles) /\ r \in Roles /\ L <= MaxDepth + 1
  <2>1. r \in Defined(defs) /\ L <= MaxDepth + 1
    BY <1>1 DEF Good, Line
  <2>. QED
    BY <2>1, ParentsAreRoles DEF Defined
<1>3. top.next = Len(s) + 1
  <2>1. top.next <= Len(s) + 1 /\ ~(top.next <= Len(s))
    BY <1>1 DEF ParentsLeft, Good, FrameGood
  <2>2. Len(s) \in Nat
    BY <1>2
  <2>. HIDE DEF s, top
  <2>. QED
    BY <1>1, <2>1, <2>2
<1>4. /\ L > MaxDepth => top.next = 1
      /\ LastGives(defs, s, Len(s), MaxDepth - L, top.tools)
  <2>1. /\ L > MaxDepth => top.next = 1
        /\ LastGives(defs, s, top.next - 1, MaxDepth - L, top.tools)
    BY <1>1 DEF Gives
  <2>2. top.next - 1 = Len(s)
    <3>1. Len(s) \in Nat
      BY <1>2
    <3>. HIDE DEF top, s
    <3>. QED
      BY <1>3, <3>1
  <2>. QED
    BY <2>1, <2>2
<1>5. n \in 0..MaxDepth
  BY <1>1, <1>2
<1>6. Settled(defs, chain, tools)
  BY <1>1, ReturnsSettled
<1>. HIDE DEF top, L
<1>7. ASSUME NEW t \in Tools
      PROVE  IF tools[t] = None THEN ~Provides(defs, r, t)
             ELSE Provides(defs, r, t) /\ tools[t] = GivenBy(defs, t)[n][r]
  <2>. DEFINE P(k) == Provides(defs, s[k], t)
  <2>1. tools[t] = IF t \in defs[r].tools THEN r ELSE top.tools[t]
    <3>1. OwnTools(defs, r)[t] = IF t \in defs[r].tools THEN r ELSE None
      BY DEF OwnTools
    <3>. QED
      BY <1>2, <3>1, RolesTyped DEF Over
  <2>2. GivenBy(defs, t)[n][r] =
            IF t \in defs[r].tools \/ n = 0 THEN r
            ELSE GivenBy(defs, t)[n - 1][LastWith(defs, s, t)]
    BY <1>2, <1>5, GivenHere, RolesTyped
  <2>3. Provides(defs, r, t) <=> t \in defs[r].tools \/ \E k \in 1..Len(s) : P(k)
    <3>1. Parents(defs, r) = {s[k] : k \in 1..Len(s)}
      BY <1>2 DEF Parents, Elements
    <3>. HIDE DEF s
    <3>. QED
      BY <1>2, <3>1, ProvidesThrough
  <2>4. CASE tools[t] = None
    BY <1>6, <2>4, SettledProvides
  <2>5. CASE t \in defs[r].tools
    BY <1>2, <2>1, <2>2, <2>3, <2>5, RolesTyped
  <2>6. CASE t \notin defs[r].tools /\ tools[t] # None
    <3>1. PICK k \in 1..Len(s) :
              /\ P(k) /\ \A j \in 1..Len(s) : P(j) => j <= k
              /\ tools[t] = GivenBy(defs, t)[MaxDepth - L][s[k]]
      BY <1>4, <2>1, <2>6 DEF LastGives
    <3>2. LastWith(defs, s, t) = s[k]
      BY <1>2, <3>1, LastWithIs
    <3>3. n # 0 /\ n - 1 = MaxDepth - L
      <4>1. Len(s) \in Nat /\ Len(s) # 0
        BY <1>2, <3>1
      <4>. HIDE DEF s
      <4>. QED
        BY <1>1, <1>2, <1>3, <1>4, <4>1
    <3>. HIDE DEF P, s, tools, n
    <3>. QED
      BY <2>2, <2>3, <2>6, <3>1, <3>2, <3>3
  <2>. HIDE DEF tools, P
  <2>. QED
    BY <2>4, <2>5, <2>6
<1>. HIDE DEF tools
<1>8. RoleGives(defs, r, n, tools)
  BY <1>7 DEF RoleGives
<1>. QED
  BY <1>1, <1>5, <1>8 DEF tools, L

\* A call that is not refused puts a role on the stack of which no parent is resolved.
LEMMA CallGives ==
    ASSUME NEW defs \in RoleDefs, NEW names \in Seq(Roles), NEW res \in Resolutions,
           Gives(defs, names, res), NEW r \in Roles, Call(defs, res, r).outcome = "resolving",
           Good(defs, names, res)
    PROVE  Gives(defs, names, Call(defs, res, r))
<1>. DEFINE new == Call(defs, res, r)
            L == Len(res.stack)
<1>1. L \in Nat /\ res.stack \in Seq(Frames) /\ Frame(r) \in Frames
  <2>1. Frame(r) \in Frames
    BY DEF Frame, Frames, NoTools, ToolMaps
  <2>. QED
    BY <2>1, Typed
<1>2. ASSUME NEW why \in Outcomes \ {"resolving"}
      PROVE  Refused(res, why, r).outcome # "resolving"
  BY RefusedFields
<1>3. new = [res EXCEPT !.visited = @ \cup {r}, !.stack = Append(@, Frame(r))]
  BY <1>2 DEF Call, Outcomes
<1>4. new.stack = Append(res.stack, Frame(r)) /\ new.todo = res.todo /\ new.tools = res.tools
  BY <1>3 DEF Resolutions
<1>5. /\ Len(new.stack) = L + 1 /\ new.stack[L + 1] = Frame(r)
      /\ \A k \in 1..L : new.stack[k] = res.stack[k]
  BY <1>1, <1>4
<1>6. Frame(r).next = 1 /\ Frame(r).role = r /\ Frame(r).tools = NoTools
  BY DEF Frame
<1>. HIDE DEF new, L
<1>7. ASSUME NEW k \in 1..L + 1
      PROVE  /\ k > MaxDepth => new.stack[k].next = 1
             /\ LastGives(defs, defs[new.stack[k].role].extends, new.stack[k].next - 1,
                          MaxDepth - k, new.stack[k].tools)
  <2>1. CASE k = L + 1
    <3>1. new.stack[k].next = 1 /\ new.stack[k].next - 1 = 0 /\ new.stack[k].tools = NoTools
      BY <1>5, <1>6, <2>1
    <3>. QED
      BY <3>1, NothingGiven
  <2>2. CASE k # L + 1
    <3>1. k \in 1..L /\ new.stack[k] = res.stack[k]
      BY <1>1, <1>5, <2>2 DEF L
    <3>. QED
      BY <3>1 DEF Gives, L
  <2>. QED
    BY <2>1, <2>2
<1>8. Gives(defs, names, new)
  BY <1>4, <1>5, <1>7 DEF Gives
<1>. QED
  BY <1>8 DEF new

\* An assigned role that returns is the next one that is resolved.
LEMMA LoopGives ==
    ASSUME NEW defs \in RoleDefs, NEW names \in Seq(Roles), NEW res \in Resolutions,
           Good(defs, names, res), Gives(defs, names, res),
           res.stack # <<>>, ~ParentsLeft(defs, res), Len(res.stack) = 1
    PROVE  Gives(defs, names, Return(defs, res))
<1>. DEFINE top == Top(res)
            tools == Over(OwnTools(defs, top.role), top.tools)
            new == Return(defs, res)
            m == Len(names) - Len(res.todo)
<1>1. tools \in ToolMaps /\ top = res.stack[1]
  BY ReturnsSettled
<1>2. RoleGives(defs, top.role, MaxDepth, tools)
  <2>1. RoleGives(defs, top.role, MaxDepth + 1 - 1, tools)
    BY ReturnsGives
  <2>2. MaxDepth + 1 - 1 = MaxDepth
    BY RolesTyped
  <2>. HIDE DEF tools, top
  <2>. QED
    BY <2>1, <2>2
<1>3. /\ new.stack = <<>> /\ new.todo = Tail(res.todo) /\ new.tools = Over(tools, res.tools)
  <2>1. SubSeq(res.stack, 1, Len(res.stack) - 1) = <<>>
    BY Typed
  <2>2. new = [[res EXCEPT !.stack = <<>>, !.visited = @ \ {top.role}] EXCEPT
                  !.todo = Tail(@), !.tools = Over(tools, @), !.chain = @ \cup (top.chain \cup {top.role})]
    BY <2>1 DEF Return
  <2>. HIDE DEF tools, top, new
  <2>. QED
    BY <2>2 DEF Resolutions
<1>4. res.todo # <<>> /\ res.todo \in Seq(Roles) /\ top.role = res.todo[1] /\ res.tools \in ToolMaps
  BY <1>1, Typed DEF Good
<1>5. /\ Len(res.todo) \in Nat \ {0} /\ Len(Tail(res.todo)) = Len(res.todo) - 1
      /\ \A j \in 1..Len(res.todo) - 1 : Tail(res.todo)[j] = res.todo[j + 1]
      /\ Len(names) \in Nat
  BY <1>4
<1>6. /\ m \in Nat /\ \A j \in 1..Len(res.todo) : res.todo[j] = names[m + j]
      /\ LastGives(defs, names, m, MaxDepth, res.tools)
  BY DEF Gives
<1>7. Len(names) - Len(new.todo) = m + 1
  <2>1. Len(new.todo) = Len(res.todo) - 1
    BY <1>3, <1>5
  <2>. HIDE DEF new
  <2>. QED
    BY <1>5, <2>1
<1>. HIDE DEF m, top, tools, new
<1>8. names[m + 1] = top.role
  BY <1>4, <1>5, <1>6
<1>9. LastGives(defs, names, m + 1, MaxDepth, new.tools)
  BY <1>1, <1>2, <1>3, <1>4, <1>6, <1>8, TakenGives
<1>10. \A j \in 1..Len(new.todo) : new.todo[j] = names[(m + 1) + j]
  <2>1. ASSUME NEW j \in 1..Len(res.todo) - 1
        PROVE  Tail(res.todo)[j] = names[(m + 1) + j]
    <3>1. j + 1 \in 1..Len(res.todo) /\ m + (j + 1) = (m + 1) + j
      BY <1>5, <1>6
    <3>. QED
      BY <1>5, <1>6, <3>1
  <2>. QED
    BY <1>3, <1>5, <2>1
<1>11. Len(new.stack) = 0
  BY <1>3
<1>12. Gives(defs, names, new)
  <2>1. m + 1 \in Nat
    BY <1>6
  <2>2. \A k \in 1..Len(new.stack) : FALSE
    BY <1>11
  <2>. QED
    BY <1>7, <1>9, <1>10, <2>1, <2>2 DEF Gives
<1>. QED
  BY <1>12 DEF new

\* A parent that returns is the next one of its caller.
LEMMA FrameGives ==
    ASSUME NEW defs \in RoleDefs, NEW names \in Seq(Roles), NEW res \in Resolutions,
           Good(defs, names, res), Gives(defs, names, res),
           res.stack # <<>>, ~ParentsLeft(defs, res), Len(res.stack) # 1
    PROVE  Gives(defs, names, Return(defs, res))
<1>. DEFINE L == Len(res.stack)
            top == Top(res)
            tools == Over(OwnTools(defs, top.role), top.tools)
            chain == top.chain \cup {top.role}
            below == SubSeq(res.stack, 1, L - 1)
            caller == res.stack[L - 1]
            new == Return(defs, res)
            stack == [below EXCEPT ![L - 1] = Taken(caller, tools, chain)]
<1>1. L \in Nat \ {0} /\ tools \in ToolMaps /\ top = res.stack[L]
  BY ReturnsSettled
<1>2. RoleGives(defs, top.role, MaxDepth + 1 - L, tools) /\ MaxDepth + 1 - L \in 0..MaxDepth
  BY ReturnsGives
<1>3. L > 1 /\ L - 1 \in 1..L /\ L \in 1..L
  <2>1. L \in Nat \ {0} /\ L # 1
    BY <1>1
  <2>. HIDE DEF L
  <2>. QED
    BY <2>1
<1>4. /\ below \in Seq(Frames) /\ Len(below) = L - 1 /\ below # <<>>
      /\ \A k \in 1..L - 1 : below[k] = res.stack[k]
  <2>. HIDE DEF L
  <2>1. L \in Nat /\ res.stack \in Seq(Frames) /\ L = Len(res.stack)
    BY <1>1, Typed DEF L
  <2>. QED
    BY <1>3, <2>1, Below
<1>5. /\ caller \in Frames /\ caller.tools \in ToolMaps /\ caller.next \in Nat \ {0}
  BY <1>3, Typed
<1>6. new.stack = stack /\ new.todo = res.todo /\ new.tools = res.tools
  <2>. HIDE DEF L
  <2>1. below[Len(below)] = caller
    BY <1>3, <1>4
  <2>2. new = [[res EXCEPT !.stack = below, !.visited = @ \ {top.role}] EXCEPT !.stack = stack]
    BY <1>4, <2>1 DEF Return, L
  <2>. HIDE DEF below, stack, new, top
  <2>. QED
    BY <2>2 DEF Resolutions
<1>7. /\ Taken(caller, tools, chain).next = caller.next + 1
      /\ Taken(caller, tools, chain).role = caller.role
      /\ Taken(caller, tools, chain).tools = Over(tools, caller.tools)
  <2>. HIDE DEF caller, tools, chain
  <2>. QED
    BY <1>5 DEF Taken, Frames
<1>8. /\ Len(stack) = L - 1
      /\ \A k \in 1..L - 1 : stack[k] = IF k = L - 1 THEN Taken(caller, tools, chain) ELSE res.stack[k]
  <2>. HIDE DEF caller, below, tools, chain, L
  <2>. QED
    BY <1>3, <1>4
<1>9. /\ top.role = defs[caller.role].extends[caller.next]
      /\ L <= MaxDepth + 1
  <2>1. L - 1 \in 1..Len(res.stack) - 1
    BY <1>1, <1>3
  <2>2. (L - 1) + 1 = L
    BY <1>1
  <2>. HIDE DEF L
  <2>3. res.stack[(L - 1) + 1].role = defs[caller.role].extends[caller.next]
    BY <2>1 DEF Good, Line
  <2>. QED
    BY <1>1, <2>2, <2>3 DEF Good, Line, L
<1>10. LastGives(defs, defs[caller.role].extends, caller.next - 1, MaxDepth - (L - 1), caller.tools)
  BY <1>3 DEF Gives
<1>11. \A k \in 1..L : /\ k > MaxDepth => res.stack[k].next = 1
                       /\ LastGives(defs, defs[res.stack[k].role].extends, res.stack[k].next - 1,
                                    MaxDepth - k, res.stack[k].tools)
  BY DEF Gives
<1>. HIDE DEF top, tools, chain, below, caller, stack, new, L
<1>12. LastGives(defs, defs[caller.role].extends, caller.next, MaxDepth - (L - 1), Over(tools, caller.tools))
  <2>1. MaxDepth + 1 - L = MaxDepth - (L - 1)
    BY <1>1, RolesTyped
  <2>2. caller.next - 1 \in Nat /\ (caller.next - 1) + 1 = caller.next
    BY <1>5
  <2>3. RoleGives(defs, defs[caller.role].extends[(caller.next - 1) + 1], MaxDepth - (L - 1), tools)
    BY <1>2, <1>9, <2>1, <2>2
  <2>4. LastGives(defs, defs[caller.role].extends, (caller.next - 1) + 1, MaxDepth - (L - 1), Over(tools, caller.tools))
    BY <1>1, <1>5, <1>10, <2>2, <2>3, TakenGives
  <2>. QED
    BY <2>2, <2>4
<1>13. ASSUME NEW k \in 1..L - 1
       PROVE  /\ k > MaxDepth => stack[k].next = 1
              /\ LastGives(defs, defs[stack[k].role].extends, stack[k].next - 1, MaxDepth - k, stack[k].tools)
  <2>1. CASE k = L - 1
    <3>1. /\ stack[k].role = caller.role /\ stack[k].next = caller.next + 1
          /\ stack[k].tools = Over(tools, caller.tools)
      BY <1>7, <1>8, <2>1
    <3>2. stack[k].next - 1 = caller.next /\ ~(k > MaxDepth)
      BY <1>1, <1>5, <1>9, <2>1, <3>1, RolesTyped
    <3>. QED
      BY <1>12, <2>1, <3>1, <3>2
  <2>2. CASE k # L - 1
    <3>1. stack[k] = res.stack[k] /\ k \in 1..L
      BY <1>1, <1>8, <2>2
    <3>. QED
      BY <1>11, <3>1
  <2>. QED
    BY <2>1, <2>2
<1>14. Gives(defs, names, new)
  BY <1>6, <1>8, <1>13 DEF Gives
<1>. QED
  BY <1>14 DEF new

\* With all assigned roles resolved, a tool is from who should give it.
LEMMA GivesGiver ==
    ASSUME NEW defs \in RoleDefs, NEW names \in Seq(Roles), NEW tools, NEW t \in Tools,
           LastGives(defs, names, Len(names), MaxDepth, tools)
    PROVE  tools[t] = Giver(defs, names, t)
<1>. DEFINE P(k) == Provides(defs, names[k], t)
<1>1. MaxDepth \in 0..MaxDepth
  BY RolesTyped
<1>2. CASE tools[t] = None
  <2>1. LastWith(defs, names, t) = None
    BY <1>2, LastWithIs DEF LastGives
  <2>. QED
    BY <1>1, <1>2, <2>1, GivenHere DEF Giver
<1>3. CASE tools[t] # None
  <2>1. PICK k \in 1..Len(names) :
            /\ P(k) /\ \A j \in 1..Len(names) : P(j) => j <= k
            /\ tools[t] = GivenBy(defs, t)[MaxDepth][names[k]]
    BY <1>3 DEF LastGives
  <2>2. LastWith(defs, names, t) = names[k]
    BY <2>1, LastWithIs
  <2>. QED
    BY <2>1, <2>2 DEF Giver
<1>. QED
  BY <1>2, <1>3

------------------------------------------------------------------------------

\* A command, as it should be where it is.  `text` is the root's jarvy.toml.
Proper(r, text) ==
    /\ Len(r.res.stack) <= MaxDepth + 1
    /\ r.pc # "idle" => r.cmd \in Commands /\ r.cwd \in Dirs
    /\ r.pc \in {"make", "truncate", "write"} => r.path.kind = "made" /\ r.path.dir \in Dirs
    /\ r.pc \in {"make", "truncate", "write", "root", "load"} => r.path \in Paths
    /\ r.pc = "make" => text \in Configs
    /\ r.pc = "roles" =>
          r.config.roles \in RoleDefs /\ Good(r.config.roles, r.names, r.res)
    /\ r.pc \in {"tools", "done"} /\ r.config.roles # None =>
          /\ AcceptedTruly(r.config.roles, r.names, r.res)
          /\ RefusedTruly(r.config.roles, r.names, r.res)

Inv ==
    /\ TypeOK
    /\ \A i \in Procs : Proper(proc[i], files[Root])

------------------------------------------------------------------------------
\* The fields of a command have their types.
LEMMA FieldTypes ==
    ASSUME NEW r \in ProcStates
    PROVE  /\ r.pc \in {"idle", "search", "project", "make", "truncate", "write", "root", "load",
                        "roles", "tools", "done"}
           /\ r.cmd \in Commands \cup {None} /\ r.cwd \in Dirs \cup {None}
           /\ r.path \in Paths \cup {None} /\ r.base \in Configs \cup {None}
           /\ r.config \in Configs /\ r.names \in Seq(Roles) /\ r.res \in Resolutions
           /\ r.tools \in [Tools -> Origins \cup {None}]
           /\ r.exit \in {None, "ok", "config_error", "killed"} /\ r.disturbed \in BOOLEAN
BY DEF ProcStates

\* The fields of a config have their types.
LEMMA ConfigTypes ==
    ASSUME NEW c \in Configs
    PROVE  /\ c.provisioner \in [Tools -> Origins \cup {None}] \cup {None}
           /\ c.roles \in RoleDefs \cup {None} /\ c.role \in Seq(Roles) \cup {None}
BY DEF Configs

\* A config without sections is one.
LEMMA EmptyTyped == EmptyConfig \in Configs
BY DEF EmptyConfig, Configs

\* The tools of a config over others are tools.
LEMMA CollectedTyped ==
    ASSUME NEW base \in [Tools -> Origins \cup {None}],
           NEW over \in [Tools -> Origins \cup {None}] \cup {None}
    PROVE  MergeTools(base, over) \in [Tools -> Origins \cup {None}]
<1>1. CASE base = None \/ over = None
  BY <1>1 DEF MergeTools, Section
<1>2. CASE ~(base = None \/ over = None)
  BY <1>2 DEF MergeTools
<1>. QED
  BY <1>1, <1>2

\* What two configs are merged to is one.
LEMMA MergeTyped ==
    ASSUME NEW base \in Configs, NEW over \in Configs, NEW inherit
    PROVE  Merge(base, over, inherit) \in Configs
<1>1. ASSUME NEW x \in [Tools -> Origins \cup {None}] \cup {None},
             NEW y \in [Tools -> Origins \cup {None}] \cup {None}
      PROVE  MergeTools(x, y) \in [Tools -> Origins \cup {None}] \cup {None}
  BY DEF MergeTools, Section
<1>2. MergeTools(base.provisioner, over.provisioner) \in [Tools -> Origins \cup {None}] \cup {None}
  BY <1>1, ConfigTypes
<1>3. Section(base.roles, over.roles) \in RoleDefs \cup {None}
  BY ConfigTypes DEF Section
<1>4. Section(base.role, over.role) \in Seq(Roles) \cup {None}
  BY ConfigTypes DEF Section
<1>. QED
  BY <1>2, <1>3, <1>4, ConfigTypes DEF Merge, Configs

\* A resolution that begins has its type, whatever the graph of roles.
LEMMA ResolvingTyped ==
    ASSUME NEW names \in Seq(Roles)
    PROVE  /\ Resolving(names) \in Resolutions /\ Len(Resolving(names).stack) = 0
           /\ Resolving(names).outcome = "resolving"
<1>1. NoTools \in ToolMaps /\ "resolving" \in Outcomes /\ <<>> \in Seq(Frames)
  BY DEF NoTools, ToolMaps, Outcomes
<1>. QED
  BY <1>1 DEF Resolving, Resolutions

\* A process that does nothing is proper.
LEMMA IdleProper ==
    ASSUME NEW e \in {None, "ok", "config_error", "killed"}, NEW text
    PROVE  /\ [Idle EXCEPT !.exit = e] \in ProcStates /\ Proper([Idle EXCEPT !.exit = e], text)
           /\ Idle \in ProcStates /\ Proper(Idle, text)
<1>. DEFINE r == [Idle EXCEPT !.exit = e]
<1>1. <<>> \in Seq(Roles) /\ NoTools \in [Tools -> Origins \cup {None}]
  BY DEF NoTools
<1>2. Idle \in ProcStates /\ Idle.pc = "idle" /\ Idle.res = Resolving(<<>>)
  BY <1>1, ResolvingTyped, EmptyTyped DEF Idle, ProcStates
<1>3. r \in ProcStates /\ r.pc = "idle" /\ r.res = Resolving(<<>>)
  BY <1>2 DEF ProcStates
<1>. HIDE DEF r
<1>4. Len(Resolving(<<>>).stack) <= MaxDepth + 1
  <2>1. Len(Resolving(<<>>).stack) = 0
    BY <1>1, ResolvingTyped
  <2>. QED
    BY <2>1, RolesTyped
<1>5. Proper(r, text) /\ Proper(Idle, text)
  BY <1>2, <1>3, <1>4 DEF Proper
<1>. QED
  BY <1>2, <1>3, <1>5 DEF r

\* What a command is said to have been disturbed by is only history.
LEMMA DisturbedProper ==
    ASSUME NEW r \in ProcStates, NEW b \in BOOLEAN, NEW text
    PROVE  /\ [r EXCEPT !.disturbed = b] \in ProcStates
           /\ Proper(r, text) => Proper([r EXCEPT !.disturbed = b], text)
<1>. DEFINE q == [r EXCEPT !.disturbed = b]
<1>1. /\ q \in ProcStates /\ q.pc = r.pc /\ q.cmd = r.cmd /\ q.cwd = r.cwd /\ q.path = r.path
      /\ q.config = r.config /\ q.names = r.names /\ q.res = r.res
  BY DEF ProcStates
<1>. HIDE DEF q
<1>2. Proper(r, text) => Proper(q, text)
  BY <1>1 DEF Proper
<1>. QED
  BY <1>1, <1>2 DEF q

------------------------------------------------------------------------------
\* No step of a resolution makes the stack too high.
LEMMA CallBounded ==
    ASSUME NEW defs, NEW res \in Resolutions, NEW r \in Roles,
           Len(res.stack) <= MaxDepth + 1
    PROVE  Len(Call(defs, res, r).stack) <= MaxDepth + 1
<1>1. Len(res.stack) \in Nat /\ res.stack \in Seq(Frames)
  BY Typed
<1>2. ASSUME NEW why
      PROVE  Refused(res, why, r).stack = res.stack
  BY DEF Refused, Resolutions
<1>3. CASE Len(res.stack) > MaxDepth \/ r \in res.visited \/ r \notin Defined(defs)
  BY <1>2, <1>3 DEF Call
<1>4. CASE ~(Len(res.stack) > MaxDepth \/ r \in res.visited \/ r \notin Defined(defs))
  <2>1. Frame(r) \in Frames
    BY DEF Frame, Frames, NoTools, ToolMaps
  <2>2. Call(defs, res, r).stack = Append(res.stack, Frame(r))
    BY <1>4 DEF Call, Resolutions
  <2>3. Len(Append(res.stack, Frame(r))) = Len(res.stack) + 1
    BY <1>1, <2>1
  <2>. QED
    BY <1>1, <1>4, <2>2, <2>3, RolesTyped
<1>. QED
  BY <1>3, <1>4

\* One step of the resolution of a command that is proper.
LEMMA ResolvesProper ==
    ASSUME NEW r \in ProcStates, NEW text, Proper(r, text), r.pc = "roles",
           NEW res \in Resolutions, Right(r.config.roles, r.names, res),
           Len(res.stack) <= MaxDepth + 1
    PROVE  LET q == [r EXCEPT !.res = res,
                              !.pc = IF res.outcome = "resolving" THEN "roles" ELSE "tools"]
           IN  q \in ProcStates /\ Proper(q, text)
<1>. DEFINE pc == IF res.outcome = "resolving" THEN "roles" ELSE "tools"
            q == [r EXCEPT !.res = res, !.pc = pc]
<1>1. pc \in {"roles", "tools"} /\ (pc = "roles" => res.outcome = "resolving")
  OBVIOUS
<1>. HIDE DEF pc
<1>2. /\ q \in ProcStates /\ q.pc = pc /\ q.res = res /\ q.cmd = r.cmd /\ q.cwd = r.cwd
      /\ q.config = r.config /\ q.names = r.names
  BY <1>1 DEF ProcStates
<1>. HIDE DEF q
<1>3. r.config.roles \in RoleDefs /\ r.cmd \in Commands /\ r.cwd \in Dirs
  BY DEF Proper
<1>4. Proper(q, text)
  BY <1>1, <1>2, <1>3 DEF Proper, Right
<1>. QED
  BY <1>2, <1>4 DEF q, pc

------------------------------------------------------------------------------
(* The types of what the actions look up. *)

\* The machine has its type.
LEMMA SiteTypes ==
    ASSUME TypeOK
    PROVE  /\ site.workspace \in Workspaces \cup {None}
           /\ site.personal \in Configs \cup {None}
           /\ site.remote \in Configs /\ site.edited \in Configs
           /\ Planned \in Plan
           /\ Root \in Dirs
BY ProjectToolsTyped DEF TypeOK, Site, Planned

\* A config of a path, where there is one.
LEMMA ContentTyped ==
    ASSUME TypeOK, NEW i \in Procs, proc[i].path \in Paths
    PROVE  Content(i) \in Configs \cup {None, Garbled}
<1>. DEFINE path == proc[i].path
<1>1. path = Remote \/ (path.kind \in {"file", "made"} /\ path.dir \in Dirs)
  BY DEF Paths, Remote
<1>2. CASE path = Remote
  <2>1. Content(i) = site.remote
    BY <1>2 DEF Content, Remote
  <2>. QED
    BY <2>1, SiteTypes
<1>3. CASE path.kind \in {"file", "made"} /\ path.dir \in Dirs
  BY <1>3 DEF Content, TypeOK
<1>. QED
  BY <1>1, <1>2, <1>3

\* The member that a command is scoped to is a directory.
LEMMA TargetTyped ==
    ASSUME TypeOK, NEW i \in Procs, Cmd(i) \in Commands, Target(i) # Unresolved, Target(i) # None
    PROVE  Target(i) \in Dirs /\ FoundFromFile(i)
<1>. DEFINE asked == Cmd(i).project
            current == IF FoundFromFile(i) THEN CurrentMember(i) ELSE None
            on == {m \in site.workspace.members \ {Root} : m \in UpFrom(FileDir(i))}
<1>1. UpFrom(FileDir(i)) \subseteq Dirs
  BY DEF UpFrom
<1>2. ASSUME current # None
      PROVE  current \in Dirs /\ FoundFromFile(i)
  <2>1. FoundFromFile(i) /\ current = CurrentMember(i)
    BY <1>2
  <2>2. on # {} /\ current = CHOOSE m \in on : TRUE
    BY <1>2, <2>1 DEF CurrentMember
  <2>. HIDE DEF current
  <2>3. current \in on
    BY <2>2
  <2>. QED
    BY <1>1, <2>1, <2>3
<1>3. CASE asked = "current"
  <2>1. Target(i) = IF current = None THEN Unresolved ELSE current
    BY <1>3, ProjectToolsTyped DEF Target
  <2>. HIDE DEF current
  <2>. QED
    BY <1>2, <2>1
<1>4. CASE asked # "current" /\ asked \in Dirs
  BY <1>4 DEF Target
<1>5. CASE asked # "current" /\ asked \notin Dirs
  <2>1. Target(i) = current \/ Target(i) \in {Unresolved, None}
    BY <1>5 DEF Target
  <2>. HIDE DEF current
  <2>. QED
    BY <1>2, <2>1
<1>. QED
  BY <1>3, <1>4, <1>5
------------------------------------------------------------------------------
(* Each step of a command leaves it proper. *)

\* What holds of a command and of what it may read, in a state that is right.
LEMMA Before ==
    ASSUME Inv, NEW i \in Procs
    PROVE  /\ TypeOK /\ proc[i] \in ProcStates /\ Proper(proc[i], files[Root])
           /\ files \in [Dirs -> Configs \cup {None}]
           /\ files[Root] \in Configs \cup {None}
BY SiteTypes DEF Inv, TypeOK

\* A command that has not loaded its config is proper at `pc`.
LEMMA EarlyProper ==
    ASSUME NEW r \in ProcStates, NEW text, r.pc \in {"search", "project", "make", "truncate",
                                                    "write", "root", "load"},
           r.cmd \in Commands, r.cwd \in Dirs, Len(r.res.stack) <= MaxDepth + 1,
           r.pc \in {"make", "truncate", "write"} => r.path.kind = "made" /\ r.path.dir \in Dirs,
           r.pc \in {"make", "truncate", "write", "root", "load"} => r.path \in Paths,
           r.pc = "make" => text \in Configs
    PROVE  Proper(r, text)
BY DEF Proper

\* A command that starts is proper.
LEMMA StartProper ==
    ASSUME Inv, NEW i \in Procs, Start(i)
    PROVE  \E r \in ProcStates : proc' = [proc EXCEPT ![i] = r] /\ Proper(r, files[Root])
<1>1. PICK c \in Planned.commands :
            proc' = [proc EXCEPT ![i] = [Idle EXCEPT !.pc = "search", !.cmd = c, !.cwd = c.cwd]]
  BY DEF Start
<1>2. c \in Commands /\ c.cwd \in Dirs
  BY Before, SiteTypes DEF Plan, Commands
<1>. DEFINE r == [Idle EXCEPT !.pc = "search", !.cmd = c, !.cwd = c.cwd]
<1>3. Idle \in ProcStates /\ Len(Idle.res.stack) <= MaxDepth + 1
  BY IdleProper DEF Proper
<1>4. /\ r \in ProcStates /\ r.pc = "search" /\ r.cmd = c /\ r.cwd = c.cwd
      /\ r.res = Idle.res
  BY <1>2, <1>3 DEF ProcStates
<1>. HIDE DEF r
<1>5. Proper(r, files[Root])
  BY <1>2, <1>3, <1>4, EarlyProper
<1>. QED
  BY <1>1, <1>4, <1>5 DEF r

\* So it is after the search upwards for a jarvy.toml,
LEMMA ParentSearchProper ==
    ASSUME Inv, NEW i \in Procs, ParentSearch(i)
    PROVE  \E r \in ProcStates : proc' = [proc EXCEPT ![i] = r] /\ Proper(r, files[Root])
<1>. DEFINE found == Nearest(proc[i].cwd)
            cwd == IF Cmd(i).file = None /\ found # None THEN found ELSE proc[i].cwd
            r == [proc[i] EXCEPT !.pc = "project", !.cwd = cwd]
<1>1. proc' = [proc EXCEPT ![i] = r]
  BY DEF ParentSearch
<1>2. proc[i].cmd \in Commands /\ proc[i].cwd \in Dirs /\ Len(proc[i].res.stack) <= MaxDepth + 1
  BY Before DEF Proper, ParentSearch, At
<1>3. found # None => found \in Dirs
  <2>. DEFINE with == {e \in UpFrom(proc[i].cwd) : files[e] # None}
  <2>1. with \subseteq Dirs
    BY DEF UpFrom
  <2>2. CASE with = {}
    BY <2>2 DEF Nearest
  <2>3. CASE with # {}
    <3>1. \E x \in with : with \subseteq UpFrom(x)
      <4>1. with \in SUBSET UpFrom(proc[i].cwd)
        OBVIOUS
      <4>. HIDE DEF with
      <4>. QED
        BY <1>2, <2>3, <4>1, DirsInLine
    <3>2. found = CHOOSE x \in with : with \subseteq UpFrom(x)
      BY <2>3 DEF Nearest
    <3>. HIDE DEF found, with
    <3>3. found \in with
      BY <3>1, <3>2
    <3>. QED
      BY <2>1, <3>3
  <2>. QED
    BY <2>2, <2>3
<1>4. cwd \in Dirs
  BY <1>2, <1>3
<1>. HIDE DEF cwd
<1>5. /\ r \in ProcStates /\ r.pc = "project" /\ r.cmd = proc[i].cmd /\ r.cwd = cwd
      /\ r.res = proc[i].res
  BY <1>4, Before DEF ProcStates
<1>. HIDE DEF r
<1>6. Proper(r, files[Root])
  BY <1>2, <1>4, <1>5, EarlyProper
<1>. QED
  BY <1>1, <1>5, <1>6 DEF r

\* `made` and `file` paths.
LEMMA PathTypes ==
    ASSUME NEW d \in Dirs
    PROVE  /\ FileOf(d) \in Paths /\ MadeFor(d) \in Paths /\ Remote \in Paths
           /\ MadeFor(d).kind = "made" /\ MadeFor(d).dir = d
BY DEF FileOf, MadeFor, Remote, Paths

\* after the member it is about has been found, or not,
LEMMA FindProjectProper ==
    ASSUME Inv, NEW i \in Procs, FindProject(i)
    PROVE  \E r \in ProcStates : proc' = [proc EXCEPT ![i] = r] /\ Proper(r, files[Root])
<1>. DEFINE m == Target(i)
<1>1. /\ proc[i].cmd \in Commands /\ proc[i].cwd \in Dirs /\ Len(proc[i].res.stack) <= MaxDepth + 1
      /\ proc[i] \in ProcStates
  BY Before DEF Proper, FindProject, At
<1>2. FileDir(i) \in Dirs
  <2>1. Cmd(i).file \in Dirs \cup {None}
    BY <1>1 DEF Cmd, Commands
  <2>. QED
    BY <1>1, <2>1 DEF FileDir
<1>3. CASE m = Unresolved
  <2>1. proc' = [proc EXCEPT ![i] = Fails(i)]
    BY <1>3 DEF FindProject
  <2>2. /\ Fails(i) \in ProcStates /\ Fails(i).pc = "idle" /\ Fails(i).res = proc[i].res
    BY <1>1 DEF Fails, ProcStates
  <2>3. Proper(Fails(i), files[Root])
    BY <1>1, <2>2 DEF Proper
  <2>. QED
    BY <2>1, <2>2, <2>3
<1>4. ASSUME NEW path \in Paths,
             proc' = [proc EXCEPT ![i] = [proc[i] EXCEPT !.pc = "root", !.path = path]]
      PROVE  \E r \in ProcStates : proc' = [proc EXCEPT ![i] = r] /\ Proper(r, files[Root])
  <2>. DEFINE r == [proc[i] EXCEPT !.pc = "root", !.path = path]
  <2>1. /\ r \in ProcStates /\ r.pc = "root" /\ r.path = path /\ r.cmd = proc[i].cmd
        /\ r.cwd = proc[i].cwd /\ r.res = proc[i].res
    BY <1>1 DEF ProcStates
  <2>. HIDE DEF r
  <2>2. Proper(r, files[Root])
    BY <1>1, <2>1, EarlyProper
  <2>. QED
    BY <1>4, <2>1, <2>2 DEF r
<1>5. ASSUME NEW path \in Paths
      PROVE  PathOf(i, path) \in Paths
  BY <1>2, <1>5, PathTypes DEF PathOf
<1>6. CASE m = None /\ m # Unresolved
  <2>1. proc' = [proc EXCEPT ![i] = [proc[i] EXCEPT !.pc = "root", !.path = PathOf(i, FileOf(FileDir(i)))]]
    BY <1>6 DEF FindProject
  <2>2. PathOf(i, FileOf(FileDir(i))) \in Paths
    BY <1>2, <1>5, PathTypes
  <2>. QED
    BY <1>4, <2>1, <2>2
<1>7. CASE m # None /\ m # Unresolved
  <2>1. m \in Dirs /\ FoundFromFile(i)
    BY <1>1, <1>7, Before, TargetTyped DEF Cmd
  <2>2. CASE files[m] # None
    <3>1. proc' = [proc EXCEPT ![i] = [proc[i] EXCEPT !.pc = "root", !.path = PathOf(i, FileOf(m))]]
      BY <1>7, <2>2 DEF FindProject
    <3>2. PathOf(i, FileOf(m)) \in Paths
      BY <1>5, <2>1, PathTypes
    <3>. QED
      BY <1>4, <3>1, <3>2
  <2>3. CASE files[m] = None
    <3>. DEFINE r == [proc[i] EXCEPT !.pc = "make", !.path = MadeFor(m)]
    <3>1. proc' = [proc EXCEPT ![i] = r]
      BY <1>7, <2>3 DEF FindProject
    <3>2. /\ r \in ProcStates /\ r.pc = "make" /\ r.path = MadeFor(m) /\ r.cmd = proc[i].cmd
          /\ r.cwd = proc[i].cwd /\ r.res = proc[i].res
      <4>1. MadeFor(m) \in Paths
        BY <2>1, PathTypes
      <4>. HIDE DEF m
      <4>. QED
        BY <1>1, <4>1 DEF ProcStates
    <3>. HIDE DEF r
    <3>3. files[Root] \in Configs
      BY <2>1, Before DEF FoundFromFile, HasWorkspace
    <3>4. r.path.kind = "made" /\ r.path.dir \in Dirs /\ r.path \in Paths
      BY <2>1, <3>2, PathTypes
    <3>5. Proper(r, files[Root])
      BY <1>1, <3>2, <3>3, <3>4, EarlyProper
    <3>. QED
      BY <3>1, <3>2, <3>5
  <2>. QED
    BY <2>2, <2>3
<1>. QED
  BY <1>3, <1>6, <1>7

\* after the root's config has been read for a member without jarvy.toml,
LEMMA ReadForMemberProper ==
    ASSUME Inv, NEW i \in Procs, ReadForMember(i)
    PROVE  \E r \in ProcStates : proc' = [proc EXCEPT ![i] = r] /\ Proper(r, files[Root])
<1>. DEFINE config == Merge(files[Root], EmptyConfig, site.workspace.inherit)
            r == [proc[i] EXCEPT !.pc = "truncate", !.config = config]
<1>1. /\ proc[i].cmd \in Commands /\ proc[i].cwd \in Dirs /\ Len(proc[i].res.stack) <= MaxDepth + 1
      /\ proc[i] \in ProcStates /\ files[Root] \in Configs
      /\ proc[i].path.kind = "made" /\ proc[i].path.dir \in Dirs /\ proc[i].path \in Paths
  BY Before DEF Proper, ReadForMember, At
<1>2. config \in Configs
  BY <1>1, EmptyTyped, MergeTyped
<1>3. proc' = [proc EXCEPT ![i] = r]
  BY DEF ReadForMember
<1>. HIDE DEF config
<1>4. /\ r \in ProcStates /\ r.pc = "truncate" /\ r.path = proc[i].path /\ r.cmd = proc[i].cmd
      /\ r.cwd = proc[i].cwd /\ r.res = proc[i].res
  BY <1>1, <1>2 DEF ProcStates
<1>. HIDE DEF r
<1>5. Proper(r, files[Root])
  BY <1>1, <1>4, EarlyProper
<1>. QED
  BY <1>3, <1>4, <1>5

\* and after each half of the writing of that member's file,
LEMMA TruncateMadeProper ==
    ASSUME Inv, NEW i \in Procs, TruncateMade(i)
    PROVE  /\ \E r \in ProcStates : Moves(i, r) /\ Proper(r, files[Root])
           /\ synth' \in [Dirs -> Configs \cup {None, Garbled}]
<1>. DEFINE r == [proc[i] EXCEPT !.pc = "write"]
<1>1. /\ proc[i].cmd \in Commands /\ proc[i].cwd \in Dirs /\ Len(proc[i].res.stack) <= MaxDepth + 1
      /\ proc[i] \in ProcStates
      /\ proc[i].path.kind = "made" /\ proc[i].path.dir \in Dirs /\ proc[i].path \in Paths
  BY Before DEF Proper, TruncateMade, At
<1>2. Moves(i, r)
  BY DEF TruncateMade
<1>3. /\ r \in ProcStates /\ r.pc = "write" /\ r.path = proc[i].path /\ r.cmd = proc[i].cmd
      /\ r.cwd = proc[i].cwd /\ r.res = proc[i].res
  BY <1>1 DEF ProcStates
<1>4. synth' = [synth EXCEPT ![proc[i].path.dir] = EmptyConfig]
  BY DEF TruncateMade
<1>5. synth' \in [Dirs -> Configs \cup {None, Garbled}]
  BY <1>1, <1>4, EmptyTyped DEF Inv, TypeOK
<1>. HIDE DEF r
<1>6. Proper(r, files[Root])
  BY <1>1, <1>3, EarlyProper
<1>. QED
  BY <1>2, <1>3, <1>5, <1>6

\* which others may read in between.
LEMMA WriteMadeProper ==
    ASSUME Inv, NEW i \in Procs, WriteMade(i)
    PROVE  /\ \E r \in ProcStates : Moves(i, r) /\ Proper(r, files[Root])
           /\ synth' \in [Dirs -> Configs \cup {None, Garbled}]
<1>. DEFINE path == PathOf(i, proc[i].path)
            r == [proc[i] EXCEPT !.pc = "root", !.path = path]
<1>1. /\ proc[i].cmd \in Commands /\ proc[i].cwd \in Dirs /\ Len(proc[i].res.stack) <= MaxDepth + 1
      /\ proc[i] \in ProcStates /\ proc[i].config \in Configs
      /\ proc[i].path.kind = "made" /\ proc[i].path.dir \in Dirs /\ proc[i].path \in Paths
  BY Before, FieldTypes DEF Proper, WriteMade, At
<1>2. Moves(i, r)
  BY DEF WriteMade
<1>3. path \in Paths
  BY <1>1, PathTypes DEF PathOf
<1>4. PICK left \in {proc[i].config, Garbled} :
            synth' = [synth EXCEPT ![proc[i].path.dir] = left]
  BY DEF WriteMade
<1>5. synth' \in [Dirs -> Configs \cup {None, Garbled}]
  BY <1>1, <1>4 DEF Inv, TypeOK
<1>. HIDE DEF path
<1>6. /\ r \in ProcStates /\ r.pc = "root" /\ r.path = path /\ r.cmd = proc[i].cmd
      /\ r.cwd = proc[i].cwd /\ r.res = proc[i].res
  BY <1>1, <1>3 DEF ProcStates
<1>. HIDE DEF r
<1>7. Proper(r, files[Root])
  BY <1>1, <1>3, <1>6, EarlyProper
<1>. QED
  BY <1>2, <1>5, <1>6, <1>7

\* So it is after the workspace root's config has been read.
LEMMA LoadRootProper ==
    ASSUME Inv, NEW i \in Procs, LoadRoot(i)
    PROVE  \E r \in ProcStates : proc' = [proc EXCEPT ![i] = r] /\ Proper(r, files[Root])
<1>. DEFINE base == IF LoadsRoot(i) THEN files[Root] ELSE None
            r == [proc[i] EXCEPT !.pc = "load", !.base = base]
<1>1. /\ proc[i].cmd \in Commands /\ proc[i].cwd \in Dirs /\ Len(proc[i].res.stack) <= MaxDepth + 1
      /\ proc[i] \in ProcStates /\ proc[i].path \in Paths
  BY Before DEF Proper, LoadRoot, At
<1>2. base \in Configs \cup {None}
  BY Before
<1>3. proc' = [proc EXCEPT ![i] = r]
  BY DEF LoadRoot
<1>. HIDE DEF base
<1>4. /\ r \in ProcStates /\ r.pc = "load" /\ r.path = proc[i].path /\ r.cmd = proc[i].cmd
      /\ r.cwd = proc[i].cwd /\ r.res = proc[i].res
  BY <1>1, <1>2 DEF ProcStates
<1>. HIDE DEF r
<1>5. Proper(r, files[Root])
  BY <1>1, <1>4, EarlyProper
<1>. QED
  BY <1>3, <1>4, <1>5

\* The resolution begins as it should.
LEMMA LoadConfigProper ==
    ASSUME Inv, NEW i \in Procs, LoadConfig(i)
    PROVE  \E r \in ProcStates : proc' = [proc EXCEPT ![i] = r] /\ Proper(r, files[Root])
<1>. DEFINE text == Content(i)
            merged == Personal(IF proc[i].base = None THEN text
                               ELSE Merge(proc[i].base, text, site.workspace.inherit))
            names == RoleNames(i, merged)
            fails == text \in {None, Garbled} \/ merged.provisioner = None
            pc == IF names = <<>> \/ merged.roles = None \/ Defined(merged.roles) = {}
                  THEN "tools" ELSE "roles"
            r == [proc[i] EXCEPT !.config = merged, !.names = names, !.res = Resolving(names),
                                 !.pc = pc]
<1>1. /\ proc[i].cmd \in Commands /\ proc[i].cwd \in Dirs /\ Len(proc[i].res.stack) <= MaxDepth + 1
      /\ proc[i] \in ProcStates /\ proc[i].path \in Paths /\ proc[i].base \in Configs \cup {None}
  BY Before, FieldTypes DEF Proper, LoadConfig, At
<1>2. proc' = [proc EXCEPT ![i] = IF fails THEN Fails(i) ELSE r]
  BY DEF LoadConfig
<1>3. CASE fails
  <2>1. proc' = [proc EXCEPT ![i] = Fails(i)]
    BY <1>2, <1>3
  <2>2. /\ Fails(i) \in ProcStates /\ Fails(i).pc = "idle" /\ Fails(i).res = proc[i].res
    BY <1>1 DEF Fails, ProcStates
  <2>3. Proper(Fails(i), files[Root])
    BY <1>1, <2>2 DEF Proper
  <2>. QED
    BY <2>1, <2>2, <2>3
<1>4. CASE ~fails
  <2>1. text \in Configs
    BY <1>1, <1>4, Before, ContentTyped
  <2>2. merged \in Configs
    <3>1. site.personal \in Configs \cup {None}
      BY Before, SiteTypes
    <3>. HIDE DEF text
    <3>. QED
      BY <1>1, <2>1, <3>1, MergeTyped DEF Personal
  <2>. HIDE DEF text, merged
  <2>3. merged.role \in Seq(Roles) \cup {None} /\ merged.roles \in RoleDefs \cup {None}
    BY <2>2, ConfigTypes
  <2>4. names \in Seq(Roles)
    <3>1. Cmd(i).role \in Roles \cup {None}
      BY <1>1 DEF Cmd, Commands
    <3>. QED
      BY <2>3, <3>1 DEF RoleNames
  <2>5. pc \in {"tools", "roles"} /\ (pc = "roles" => merged.roles # None)
    OBVIOUS
  <2>. HIDE DEF names, pc, fails
  <2>6. Resolving(names) \in Resolutions
    BY <2>4, ResolvingTyped
  <2>7. /\ r \in ProcStates /\ r.pc = pc /\ r.config = merged /\ r.names = names
        /\ r.res = Resolving(names) /\ r.cmd = proc[i].cmd /\ r.cwd = proc[i].cwd
    BY <1>1, <2>2, <2>4, <2>5, <2>6 DEF ProcStates
  <2>8. proc' = [proc EXCEPT ![i] = r]
    BY <1>2, <1>4
  <2>. HIDE DEF r
  <2>9. Len(Resolving(names).stack) <= MaxDepth + 1
    <3>1. Len(Resolving(names).stack) = 0
      BY <2>4, ResolvingTyped
    <3>. QED
      BY <3>1, RolesTyped
  <2>10. pc = "roles" => merged.roles \in RoleDefs /\ Good(merged.roles, names, Resolving(names))
    BY <2>3, <2>4, <2>5, BeginsGood
  <2>11. /\ AcceptedTruly(merged.roles, names, Resolving(names))
         /\ RefusedTruly(merged.roles, names, Resolving(names))
    <3>1. Resolving(names).outcome = "resolving"
      BY <2>4, ResolvingTyped
    <3>. QED
      BY <3>1 DEF AcceptedTruly, RefusedTruly
  <2>12. Proper(r, files[Root])
    BY <1>1, <2>5, <2>7, <2>9, <2>10, <2>11 DEF Proper
  <2>. QED
    BY <2>7, <2>8, <2>12
<1>. QED
  BY <1>3, <1>4

------------------------------------------------------------------------------
\* A step of the resolution: one call or return further.
LEMMA RoleStepProper ==
    ASSUME Inv, NEW i \in Procs,
           NextRole(i) \/ NextParent(i) \/ RoleReturns(i) \/ RolesResolved(i)
    PROVE  \E r \in ProcStates : proc' = [proc EXCEPT ![i] = r] /\ Proper(r, files[Root])
<1>. DEFINE defs == proc[i].config.roles
            names == proc[i].names
            res == proc[i].res
<1>1. /\ proc[i] \in ProcStates /\ Proper(proc[i], files[Root]) /\ proc[i].pc = "roles"
      /\ defs \in RoleDefs /\ names \in Seq(Roles) /\ res \in Resolutions
      /\ Good(defs, names, res) /\ Len(res.stack) <= MaxDepth + 1
  <2>1. proc[i].pc = "roles"
    BY DEF NextRole, NextParent, RoleReturns, RolesResolved, At
  <2>. QED
    BY <2>1, Before, FieldTypes DEF Proper
<1>2. ASSUME NEW new \in Resolutions, Resolves(i, new), Right(defs, names, new),
             Len(new.stack) <= MaxDepth + 1
      PROVE  \E r \in ProcStates : proc' = [proc EXCEPT ![i] = r] /\ Proper(r, files[Root])
  <2>. DEFINE q == [proc[i] EXCEPT !.res = new,
                        !.pc = IF new.outcome = "resolving" THEN "roles" ELSE "tools"]
  <2>1. proc' = [proc EXCEPT ![i] = q]
    BY <1>2 DEF Resolves
  <2>2. q \in ProcStates /\ Proper(q, files[Root])
    BY <1>1, <1>2, ResolvesProper
  <2>. HIDE DEF q
  <2>. QED
    BY <2>1, <2>2
<1>3. CASE NextRole(i)
  <2>1. res.stack = <<>> /\ res.todo # <<>> /\ Resolves(i, ResolveNext(defs, res))
    BY <1>3 DEF NextRole, Defs
  <2>. HIDE DEF defs, names, res
  <2>2. Right(defs, names, ResolveNext(defs, res)) /\ ResolveNext(defs, res) \in Resolutions
    BY <1>1, <2>1, ResolveNextRight
  <2>3. Len(ResolveNext(defs, res).stack) <= MaxDepth + 1
    <3>1. Head(res.todo) \in Roles
      <4>1. res.todo \in Seq(Roles)
        BY <1>1, Typed
      <4>. QED
        BY <2>1, <4>1
    <3>. QED
      BY <1>1, <3>1, CallBounded DEF ResolveNext
  <2>. QED
    BY <1>2, <2>1, <2>2, <2>3
<1>4. CASE NextParent(i)
  <2>1. res.stack # <<>> /\ ParentsLeft(defs, res) /\ Resolves(i, ResolveParent(defs, res))
    BY <1>4 DEF NextParent, Defs
  <2>. HIDE DEF defs, names, res
  <2>2. Right(defs, names, ResolveParent(defs, res)) /\ ResolveParent(defs, res) \in Resolutions
    BY <1>1, <2>1, ResolveParentRight
  <2>3. Len(ResolveParent(defs, res).stack) <= MaxDepth + 1
    <3>. DEFINE parent == defs[Top(res).role].extends[Top(res).next]
    <3>1. CASE parent \in Defined(defs)
      <4>1. ResolveParent(defs, res) = Call(defs, res, parent) /\ parent \in Roles
        BY <3>1 DEF ResolveParent, Defined
      <4>. HIDE DEF parent
      <4>. QED
        BY <1>1, <4>1, CallBounded
    <3>2. CASE parent \notin Defined(defs)
      <4>1. ResolveParent(defs, res).stack = res.stack
        BY <3>2, <1>1 DEF ResolveParent, Refused, Resolutions
      <4>. QED
        BY <1>1, <4>1
    <3>. QED
      BY <3>1, <3>2
  <2>. QED
    BY <1>2, <2>1, <2>2, <2>3
<1>5. CASE RoleReturns(i)
  <2>1. res.stack # <<>> /\ ~ParentsLeft(defs, res) /\ Resolves(i, Return(defs, res))
    BY <1>5 DEF RoleReturns, Defs
  <2>. HIDE DEF defs, names, res
  <2>2. Good(defs, names, Return(defs, res)) /\ Return(defs, res) \in Resolutions
    BY <1>1, <2>1, ReturnToLoop, ReturnToFrame
  <2>3. Right(defs, names, Return(defs, res))
    BY <1>1, <2>1, ReturnRight
  <2>4. Len(Return(defs, res).stack) <= MaxDepth + 1
    BY <2>2 DEF Good, Line
  <2>. QED
    BY <1>2, <2>1, <2>2, <2>3, <2>4
<1>6. CASE RolesResolved(i)
  <2>1. res.stack = <<>> /\ res.todo = <<>> /\ Resolves(i, AllResolved(res))
    BY <1>6 DEF RolesResolved
  <2>. HIDE DEF defs, names, res
  <2>2. Right(defs, names, AllResolved(res)) /\ AllResolved(res) \in Resolutions
    BY <1>1, <2>1, AllResolvedRight
  <2>3. AllResolved(res).stack = res.stack
    BY <1>1 DEF AllResolved, Resolutions
  <2>. QED
    BY <1>1, <1>2, <2>1, <2>2, <2>3
<1>. QED
  BY <1>3, <1>4, <1>5, <1>6

\* The tools of roles under a config's own are tools.
LEMMA CollectToolsProper ==
    ASSUME Inv, NEW i \in Procs, CollectTools(i)
    PROVE  \E r \in ProcStates : proc' = [proc EXCEPT ![i] = r] /\ Proper(r, files[Root])
<1>. DEFINE given == IF proc[i].res.outcome = "ok" THEN proc[i].res.tools ELSE NoTools
            tools == MergeTools(given, proc[i].config.provisioner)
            r == [proc[i] EXCEPT !.pc = "done", !.exit = "ok", !.tools = tools]
<1>1. /\ proc[i] \in ProcStates /\ Proper(proc[i], files[Root]) /\ proc[i].pc = "tools"
      /\ proc[i].config \in Configs /\ proc[i].res \in Resolutions
  BY Before, FieldTypes DEF CollectTools, At
<1>2. proc' = [proc EXCEPT ![i] = r]
  BY DEF CollectTools
<1>3. tools \in [Tools -> Origins \cup {None}]
  <2>1. given \in [Tools -> Origins \cup {None}]
    <3>1. proc[i].res.tools \in ToolMaps /\ NoTools \in ToolMaps
      BY <1>1, Typed DEF NoTools, ToolMaps
    <3>. QED
      BY <3>1, ProjectToolsTyped DEF ToolMaps
  <2>2. proc[i].config.provisioner \in [Tools -> Origins \cup {None}] \cup {None}
    BY <1>1, ConfigTypes
  <2>. HIDE DEF given
  <2>. QED
    BY <2>1, <2>2, CollectedTyped
<1>. HIDE DEF tools, given
<1>4. /\ r \in ProcStates /\ r.pc = "done" /\ r.cmd = proc[i].cmd /\ r.cwd = proc[i].cwd
      /\ r.config = proc[i].config /\ r.names = proc[i].names /\ r.res = proc[i].res
  BY <1>1, <1>3 DEF ProcStates
<1>. HIDE DEF r
<1>5. Proper(r, files[Root])
  BY <1>1, <1>4 DEF Proper
<1>. QED
  BY <1>2, <1>4, <1>5

------------------------------------------------------------------------------
(* Steps of one command leave the others proper. *)

\* A step that only moves one process, and at most writes a file made for a member.
LEMMA StepKeepsInv ==
    ASSUME Inv, NEW i \in Procs, NEW r \in ProcStates, Proper(r, files[Root]),
           \/ proc' = [proc EXCEPT ![i] = r]
           \/ Moves(i, r),
           UNCHANGED <<site, files, edits>>,
           synth' \in [Dirs -> Configs \cup {None, Garbled}],
           issued' \in 0..Planned.maxCommands
    PROVE  Inv'
<1>1. TypeOK /\ \A j \in Procs : proc[j] \in ProcStates /\ Proper(proc[j], files[Root])
  BY DEF Inv, TypeOK
<1>2. proc' \in [Procs -> ProcStates] /\ \A j \in Procs : Proper(proc'[j], files[Root])
  <2>1. CASE proc' = [proc EXCEPT ![i] = r]
    BY <1>1, <2>1 DEF TypeOK
  <2>2. CASE Moves(i, r)
    <3>. DEFINE b(j) == proc[j].disturbed \/ j \in Sharing(i)
                q(j) == IF j = i THEN r ELSE [proc[j] EXCEPT !.disturbed = b(j)]
    <3>1. proc' = [j \in Procs |-> q(j)]
      BY <2>2 DEF Moves
    <3>2. ASSUME NEW j \in Procs
          PROVE  q(j) \in ProcStates /\ Proper(q(j), files[Root])
      <4>1. b(j) \in BOOLEAN
        OBVIOUS
      <4>. HIDE DEF b
      <4>. QED
        BY <1>1, <4>1, DisturbedProper
    <3>. HIDE DEF q
    <3>. QED
      BY <3>1, <3>2
  <2>. QED
    BY <2>1, <2>2
<1>3. \A j \in Procs : Len(proc'[j].res.stack) <= MaxDepth + 1
  BY <1>2 DEF Proper
<1>4. TypeOK'
  BY <1>1, <1>2, <1>3 DEF TypeOK, Planned
<1>. QED
  BY <1>2, <1>4 DEF Inv

\* A process that has stopped, or been killed, is as one that has done nothing.
LEMMA EndProper ==
    ASSUME Inv, NEW i \in Procs, Finish(i) \/ Killed(i)
    PROVE  \E r \in ProcStates : proc' = [proc EXCEPT ![i] = r] /\ Proper(r, files[Root])
<1>1. CASE Finish(i)
  BY <1>1, IdleProper DEF Finish
<1>2. CASE Killed(i)
  BY <1>2, IdleProper DEF Killed
<1>. QED
  BY <1>1, <1>2

\* The user's edit reaches no command that has read the root's jarvy.toml.
LEMMA EditKeepsInv ==
    ASSUME Inv, EditRoot
    PROVE  Inv'
<1>1. /\ TypeOK /\ site.edited \in Configs /\ Root \in Dirs /\ Planned \in Plan
      /\ \A j \in Procs : proc[j] \in ProcStates /\ Proper(proc[j], files[Root])
  BY SiteTypes DEF Inv, TypeOK
<1>2. /\ files' \in [Dirs -> Configs \cup {None}] /\ files'[Root] \in Configs
  BY <1>1 DEF EditRoot, TypeOK
<1>3. ASSUME NEW r, Proper(r, files[Root])
      PROVE  Proper(r, files'[Root])
  BY <1>2, <1>3 DEF Proper
<1>. DEFINE b(j) == proc[j].disturbed \/ Running(j)
            q(j) == [proc[j] EXCEPT !.disturbed = b(j)]
<1>4. proc' = [j \in Procs |-> q(j)]
  BY DEF EditRoot
<1>5. ASSUME NEW j \in Procs
      PROVE  q(j) \in ProcStates /\ Proper(q(j), files'[Root])
  <2>1. b(j) \in BOOLEAN
    OBVIOUS
  <2>2. proc[j] \in ProcStates /\ Proper(proc[j], files'[Root])
    BY <1>1, <1>3
  <2>. HIDE DEF b
  <2>. QED
    BY <2>1, <2>2, DisturbedProper
<1>. HIDE DEF q
<1>6. proc' \in [Procs -> ProcStates] /\ \A j \in Procs : Proper(proc'[j], files'[Root])
  BY <1>4, <1>5
<1>7. \A j \in Procs : Len(proc'[j].res.stack) <= MaxDepth + 1
  BY <1>6 DEF Proper
<1>8. edits' \in 0..Planned.maxEdits
  BY <1>1 DEF EditRoot, TypeOK, Plan
<1>9. TypeOK'
  BY <1>1, <1>2, <1>6, <1>7, <1>8 DEF EditRoot, TypeOK, Planned
<1>. QED
  BY <1>6, <1>9 DEF Inv

------------------------------------------------------------------------------
\* The invariant holds at first.
LEMMA InitInv == Init => Inv
<1>. SUFFICES ASSUME Init
              PROVE  Inv
  OBVIOUS
<1>1. /\ site \in Site /\ files = site.files /\ synth = [m \in Dirs |-> None]
      /\ proc = [i \in Procs |-> Idle] /\ issued = 0 /\ edits = 0
  BY ProjectToolsTyped DEF Init
<1>2. files \in [Dirs -> Configs \cup {None}] /\ Planned \in Plan
  BY <1>1, ProjectToolsTyped DEF Site, Planned
<1>3. Idle \in ProcStates /\ Proper(Idle, files[Root])
  BY IdleProper
<1>4. \A i \in Procs : proc[i] = Idle
  BY <1>1
<1>5. 0 \in 0..Planned.maxCommands /\ 0 \in 0..Planned.maxEdits
  BY <1>2 DEF Plan
<1>6. TypeOK
  <2>1. proc \in [Procs -> ProcStates]
    BY <1>1, <1>3
  <2>2. \A i \in Procs : Len(proc[i].res.stack) <= MaxDepth + 1
    BY <1>3, <1>4 DEF Proper
  <2>. QED
    BY <1>1, <1>2, <1>5, <2>1, <2>2 DEF TypeOK
<1>. QED
  BY <1>3, <1>4, <1>6 DEF Inv

\* The invariant is kept by every step.
LEMMA NextInv == Inv /\ [Next]_vars => Inv'
<1>. SUFFICES ASSUME Inv, [Next]_vars
              PROVE  Inv'
  OBVIOUS
<1>1. CASE UNCHANGED vars
  BY <1>1 DEF vars, Inv, TypeOK, Planned
<1>2. CASE EditRoot
  BY <1>2, EditKeepsInv
<1>3. TypeOK /\ synth \in [Dirs -> Configs \cup {None, Garbled}] /\ Planned \in Plan
      /\ issued \in 0..Planned.maxCommands
  BY SiteTypes DEF Inv, TypeOK
<1>4. ASSUME NEW i \in Procs, Start(i)
      PROVE  Inv'
  <2>1. PICK r \in ProcStates : proc' = [proc EXCEPT ![i] = r] /\ Proper(r, files[Root])
    BY <1>4, StartProper
  <2>2. issued' \in 0..Planned.maxCommands
    BY <1>3, <1>4 DEF Start, Plan
  <2>3. UNCHANGED <<site, files, synth, edits>>
    BY <1>4 DEF Start
  <2>. QED
    BY <1>3, <2>1, <2>2, <2>3, StepKeepsInv
<1>5. ASSUME NEW i \in Procs, TruncateMade(i) \/ WriteMade(i)
      PROVE  Inv'
  <2>1. /\ \E r \in ProcStates : Moves(i, r) /\ Proper(r, files[Root])
        /\ synth' \in [Dirs -> Configs \cup {None, Garbled}]
    BY <1>5, TruncateMadeProper, WriteMadeProper
  <2>2. UNCHANGED <<site, files, issued, edits>>
    BY <1>5 DEF TruncateMade, WriteMade, OthersUnchanged
  <2>3. PICK r \in ProcStates : Moves(i, r) /\ Proper(r, files[Root])
    BY <2>1
  <2>. QED
    BY <1>3, <2>1, <2>2, <2>3, StepKeepsInv
<1>6. ASSUME NEW i \in Procs,
             \/ ParentSearch(i) \/ FindProject(i) \/ ReadForMember(i) \/ LoadRoot(i)
             \/ LoadConfig(i) \/ NextRole(i) \/ NextParent(i) \/ RoleReturns(i)
             \/ RolesResolved(i) \/ CollectTools(i) \/ Finish(i) \/ Killed(i)
      PROVE  Inv'
  <2>1. \E r \in ProcStates : proc' = [proc EXCEPT ![i] = r] /\ Proper(r, files[Root])
    BY <1>6, ParentSearchProper, FindProjectProper, ReadForMemberProper, LoadRootProper,
       LoadConfigProper, RoleStepProper, CollectToolsProper, EndProper
  <2>2. UNCHANGED <<site, files, synth, issued, edits>>
    BY <1>6 DEF ParentSearch, FindProject, ReadForMember, LoadRoot, LoadConfig, NextRole,
       NextParent, RoleReturns, RolesResolved, Resolves, CollectTools, Finish, Killed, OthersUnchanged
  <2>3. PICK r \in ProcStates : proc' = [proc EXCEPT ![i] = r] /\ Proper(r, files[Root])
    BY <2>1
  <2>. QED
    BY <1>3, <2>2, <2>3, StepKeepsInv
<1>. QED
  BY <1>1, <1>2, <1>4, <1>5, <1>6 DEF Next, Step

\* Every reachable state is one that the invariant describes.
THEOREM Invariance == Spec => []Inv
BY InitInv, NextInv, PTL DEF Spec

\* Commands keep to their types and resolve_internal to its limit, however the commands of
\* several processes, edits and kills follow one another.
THEOREM TypeCorrect == Spec => []TypeOK
<1>1. Inv => TypeOK
  BY DEF Inv
<1>. QED
  BY <1>1, Invariance, PTL

\* The roles of every config that any command reads are accepted with exactly the tools of
\* their ancestry, or refused for a reason that is true (resolve_internal).
THEOREM ResolutionIsExact == Spec => []ResolutionExact
<1>1. Inv => ResolutionExact
  <2>. SUFFICES ASSUME Inv, NEW i \in Procs, Resolved(i)
                PROVE  /\ AcceptedTruly(Defs(i), proc[i].names, proc[i].res)
                       /\ RefusedTruly(Defs(i), proc[i].names, proc[i].res)
    BY DEF ResolutionExact
  <2>1. proc[i].pc \in {"tools", "done"} /\ proc[i].config.roles # None
    BY DEF Resolved
  <2>. QED
    BY <2>1, Before DEF Proper, Defs
<1>. QED
  BY <1>1, Invariance, PTL
------------------------------------------------------------------------------
(* Where the config of a command comes from. *)

\* What a command should have read, by the files f of the machine s: of the root, for a
\* member without jarvy.toml, of its own file, and with the user's overlay.
RootRead(r, s, f) ==
    /\ r.cmd.op = "setup" /\ s.workspace # None /\ f[Root] # None
    /\ Root \in UpFrom(r.cwd) /\ r.path # FileOf(Root)

Inherited(s, f) == Merge(f[Root], EmptyConfig, s.workspace.inherit)

Text(r, s, f) ==
    CASE r.path.kind = "made" -> Inherited(s, f)
      [] r.path.kind = "file" -> f[r.path.dir]
      [] OTHER -> s.remote

Merged(r, s, f) ==
    LET project == IF RootRead(r, s, f) THEN Merge(f[Root], Text(r, s, f), s.workspace.inherit)
                   ELSE Text(r, s, f)
    IN  IF s.personal = None THEN project ELSE Merge(s.personal, project, Sections)

NamesFor(r, config) ==
    IF r.cmd.op = "inspect" THEN <<>>
    ELSE IF r.cmd.role # None THEN <<r.cmd.role>>
    ELSE IF config.role # None THEN config.role ELSE <<>>

\* A command that nobody has disturbed has read just that, also from the file y[m] made
\* for a member m: what earlier commands have left there is gone when it writes.
Faithful(r, s, f, y) ==
    ~r.disturbed =>
        /\ (r.pc \in {"make", "truncate", "write"}
                \/ (r.pc \in {"root", "load", "roles", "tools", "done"} /\ r.path.kind = "made"))
              => s.workspace # None /\ f[Root] # None
        /\ r.pc \in {"truncate", "write"} => r.config = Inherited(s, f)
        /\ r.pc = "write" => y[r.path.dir] = EmptyConfig
        /\ r.pc \in {"root", "load"} /\ r.path.kind = "made" => y[r.path.dir] = Inherited(s, f)
        /\ r.pc = "load" => r.base = IF RootRead(r, s, f) THEN f[Root] ELSE None
        /\ r.pc \in {"roles", "tools", "done"} =>
              /\ r.path \in Paths /\ Text(r, s, f) \in Configs
              /\ r.config = Merged(r, s, f) /\ r.config.provisioner # None
              /\ r.names = NamesFor(r, r.config)

\* Roles that are accepted give what they should, and what a command works with is that
\* under its own tools.
Given(r) ==
    /\ r.pc = "roles" => r.config.roles # None /\ Gives(r.config.roles, r.names, r.res)
    /\ r.pc \in {"tools", "done"} /\ r.res.outcome = "ok" =>
          /\ r.config.roles # None /\ r.config.roles \in RoleDefs
          /\ LastGives(r.config.roles, r.names, Len(r.names), MaxDepth, r.res.tools)
    /\ r.pc = "done" =>
          r.tools = MergeTools(IF r.res.outcome = "ok" THEN r.res.tools ELSE NoTools,
                               r.config.provisioner)

Traced == \A i \in Procs : Faithful(proc[i], site, files, synth) /\ Given(proc[i])

\* What a command should have read depends on its command line, place and path alone.
LEMMA SameReading ==
    ASSUME NEW r, NEW q, NEW s, NEW f,
           q.cmd = r.cmd, q.cwd = r.cwd, q.path = r.path
    PROVE  /\ RootRead(q, s, f) <=> RootRead(r, s, f)
           /\ Text(q, s, f) = Text(r, s, f)
           /\ Merged(q, s, f) = Merged(r, s, f)
           /\ \A c : NamesFor(q, c) = NamesFor(r, c)
<1>1. RootRead(q, s, f) <=> RootRead(r, s, f)
  BY DEF RootRead
<1>2. Text(q, s, f) = Text(r, s, f)
  BY DEF Text
<1>3. Merged(q, s, f) = Merged(r, s, f)
  BY <1>1, <1>2 DEF Merged
<1>. QED
  BY <1>1, <1>2, <1>3 DEF NamesFor

\* A command that has nothing of what this is about is right.
LEMMA EarlyTraced ==
    ASSUME NEW r, r.pc \in {"idle", "search", "project"}, NEW s, NEW f, NEW y
    PROVE  Faithful(r, s, f, y) /\ Given(r)
BY DEF Faithful, Given

\* Nothing is given before the roles are resolved.
LEMMA EarlyGiven ==
    ASSUME NEW r, r.pc \in {"make", "truncate", "write", "root", "load"}
    PROVE  Given(r)
BY DEF Given

\* The steps of a command, each of which leaves it right: it starts, stops, moves to where
\* the project is,
LEMMA MovesTraced ==
    ASSUME Inv, NEW i \in Procs, Start(i) \/ ParentSearch(i) \/ Finish(i) \/ Killed(i)
    PROVE  \E r : /\ proc' = [proc EXCEPT ![i] = r]
                  /\ Faithful(r, site, files, synth) /\ Given(r)
<1>1. proc[i] \in ProcStates /\ Idle \in ProcStates
  BY Before, IdleProper
<1>2. CASE Start(i)
  <2>1. PICK c \in Planned.commands :
            proc' = [proc EXCEPT ![i] = [Idle EXCEPT !.pc = "search", !.cmd = c, !.cwd = c.cwd]]
    BY <1>2 DEF Start
  <2>. DEFINE r == [Idle EXCEPT !.pc = "search", !.cmd = c, !.cwd = c.cwd]
  <2>2. r.pc = "search"
    BY <1>1 DEF ProcStates
  <2>. HIDE DEF r
  <2>3. Faithful(r, site, files, synth) /\ Given(r)
    BY <2>2, EarlyTraced
  <2>. QED
    BY <2>1, <2>3 DEF r
<1>3. CASE ParentSearch(i)
  <2>1. PICK cwd : proc' = [proc EXCEPT ![i] = [proc[i] EXCEPT !.pc = "project", !.cwd = cwd]]
    BY <1>3 DEF ParentSearch
  <2>. DEFINE r == [proc[i] EXCEPT !.pc = "project", !.cwd = cwd]
  <2>2. r.pc = "project"
    BY <1>1 DEF ProcStates
  <2>. HIDE DEF r
  <2>3. Faithful(r, site, files, synth) /\ Given(r)
    BY <2>2, EarlyTraced
  <2>. QED
    BY <2>1, <2>3 DEF r
<1>4. CASE Finish(i) \/ Killed(i)
  <2>1. PICK e \in {"ok", "killed"} : proc' = [proc EXCEPT ![i] = [Idle EXCEPT !.exit = e]]
    BY <1>4 DEF Finish, Killed
  <2>. DEFINE r == [Idle EXCEPT !.exit = e]
  <2>2. r.pc = "idle"
    BY DEF Idle
  <2>. HIDE DEF r
  <2>3. Faithful(r, site, files, synth) /\ Given(r)
    BY <2>2, EarlyTraced
  <2>. QED
    BY <2>1, <2>3 DEF r
<1>. QED
  BY <1>2, <1>3, <1>4

\* finds the member it is about, which only a workspace has,
LEMMA FindProjectTraced ==
    ASSUME Inv, NEW i \in Procs, FindProject(i)
    PROVE  \E r : /\ proc' = [proc EXCEPT ![i] = r]
                  /\ Faithful(r, site, files, synth) /\ Given(r)
<1>. DEFINE m == Target(i)
<1>1. proc[i] \in ProcStates /\ Cmd(i) \in Commands
  BY Before DEF Proper, FindProject, At, Cmd
<1>2. CASE m = Unresolved
  <2>1. proc' = [proc EXCEPT ![i] = Fails(i)]
    BY <1>2 DEF FindProject
  <2>2. Fails(i).pc = "idle"
    BY <1>1 DEF Fails, ProcStates
  <2>3. Faithful(Fails(i), site, files, synth) /\ Given(Fails(i))
    BY <2>2, EarlyTraced
  <2>. QED
    BY <2>1, <2>3
<1>3. ASSUME NEW d, proc' = [proc EXCEPT ![i] =
                                [proc[i] EXCEPT !.pc = "root", !.path = PathOf(i, FileOf(d))]]
      PROVE  \E r : /\ proc' = [proc EXCEPT ![i] = r]
                    /\ Faithful(r, site, files, synth) /\ Given(r)
  <2>. DEFINE r == [proc[i] EXCEPT !.pc = "root", !.path = PathOf(i, FileOf(d))]
  <2>1. r.pc = "root" /\ r.path = PathOf(i, FileOf(d))
    BY <1>1 DEF ProcStates
  <2>2. PathOf(i, FileOf(d)).kind # "made"
    BY DEF PathOf, FileOf, Remote
  <2>. HIDE DEF r
  <2>3. Faithful(r, site, files, synth) /\ Given(r)
    BY <2>1, <2>2, EarlyGiven DEF Faithful
  <2>. QED
    BY <1>3, <2>3 DEF r
<1>4. CASE m # Unresolved /\ m = None
  BY <1>3, <1>4 DEF FindProject
<1>5. CASE m # Unresolved /\ m # None /\ files[m] # None
  BY <1>3, <1>5 DEF FindProject
<1>6. CASE m # Unresolved /\ m # None /\ files[m] = None
  <2>. DEFINE r == [proc[i] EXCEPT !.pc = "make", !.path = MadeFor(m)]
  <2>1. proc' = [proc EXCEPT ![i] = r]
    BY <1>6 DEF FindProject
  <2>2. site.workspace # None /\ files[Root] # None
    BY <1>1, <1>6, Before, TargetTyped DEF FoundFromFile, HasWorkspace
  <2>3. r.pc = "make"
    BY <1>1 DEF ProcStates
  <2>. HIDE DEF r
  <2>4. Faithful(r, site, files, synth) /\ Given(r)
    BY <2>2, <2>3, EarlyGiven DEF Faithful
  <2>. QED
    BY <2>1, <2>4
<1>. QED
  BY <1>2, <1>4, <1>5, <1>6

\* reads the root's jarvy.toml for a member without one, or to merge it,
LEMMA ReadsTraced ==
    ASSUME Inv, NEW i \in Procs, Faithful(proc[i], site, files, synth),
           ReadForMember(i) \/ LoadRoot(i)
    PROVE  \E r : /\ proc' = [proc EXCEPT ![i] = r]
                  /\ Faithful(r, site, files, synth) /\ Given(r)
<1>1. proc[i] \in ProcStates
  BY Before
<1>2. CASE ReadForMember(i)
  <2>. DEFINE config == Merge(files[Root], EmptyConfig, site.workspace.inherit)
              r == [proc[i] EXCEPT !.pc = "truncate", !.config = config]
  <2>1. proc' = [proc EXCEPT ![i] = r] /\ proc[i].pc = "make"
    BY <1>2 DEF ReadForMember, At
  <2>2. r.pc = "truncate" /\ r.config = Inherited(site, files) /\ r.disturbed = proc[i].disturbed
    BY <1>1 DEF ProcStates, Inherited
  <2>. HIDE DEF r
  <2>3. Faithful(r, site, files, synth) /\ Given(r)
    BY <2>1, <2>2, EarlyGiven DEF Faithful
  <2>. QED
    BY <2>1, <2>3
<1>3. CASE LoadRoot(i)
  <2>. DEFINE base == IF LoadsRoot(i) THEN files[Root] ELSE None
              r == [proc[i] EXCEPT !.pc = "load", !.base = base]
  <2>1. proc' = [proc EXCEPT ![i] = r] /\ proc[i].pc = "root"
    BY <1>3 DEF LoadRoot, At
  <2>2. /\ r.pc = "load" /\ r.base = base /\ r.disturbed = proc[i].disturbed
        /\ r.cmd = proc[i].cmd /\ r.cwd = proc[i].cwd /\ r.path = proc[i].path
    BY <1>1 DEF ProcStates
  <2>3. LoadsRoot(i) <=> RootRead(r, site, files)
    <3>. HIDE DEF r
    <3>. QED
      BY <2>2 DEF LoadsRoot, RootRead, HasWorkspace, Cmd
  <2>4. r.base = IF RootRead(r, site, files) THEN files[Root] ELSE None
    <3>. HIDE DEF r
    <3>. QED
      BY <2>2, <2>3
  <2>. HIDE DEF r, base
  <2>5. Faithful(r, site, files, synth) /\ Given(r)
    BY <2>1, <2>2, <2>4, EarlyGiven DEF Faithful
  <2>. QED
    BY <2>1, <2>5
<1>. QED
  BY <1>2, <1>3

\* and writes what the member inherits, over whatever was there.
LEMMA TruncateTraced ==
    ASSUME Inv, NEW i \in Procs, Faithful(proc[i], site, files, synth), TruncateMade(i)
    PROVE  \E r : Moves(i, r) /\ Faithful(r, site, files, synth') /\ Given(r)
<1>. DEFINE r == [proc[i] EXCEPT !.pc = "write"]
            d == proc[i].path.dir
<1>1. proc[i] \in ProcStates /\ proc[i].pc = "truncate" /\ d \in Dirs
  BY Before DEF TruncateMade, At, Proper
<1>2. Moves(i, r) /\ synth' = [synth EXCEPT ![d] = EmptyConfig]
  BY DEF TruncateMade
<1>3. synth'[d] = EmptyConfig
  BY <1>1, <1>2, Before DEF TypeOK
<1>4. /\ r.pc = "write" /\ r.config = proc[i].config /\ r.path.dir = d
      /\ r.disturbed = proc[i].disturbed
  BY <1>1 DEF ProcStates
<1>. HIDE DEF r, d
<1>5. Faithful(r, site, files, synth') /\ Given(r)
  BY <1>1, <1>3, <1>4, EarlyGiven DEF Faithful
<1>. QED
  BY <1>2, <1>5

\* What is written is whole, unless somebody else has written in between.
LEMMA WriteTraced ==
    ASSUME Inv, NEW i \in Procs, Faithful(proc[i], site, files, synth), WriteMade(i)
    PROVE  \E r : Moves(i, r) /\ Faithful(r, site, files, synth') /\ Given(r)
<1>. DEFINE path == PathOf(i, proc[i].path)
            r == [proc[i] EXCEPT !.pc = "root", !.path = path]
            d == proc[i].path.dir
<1>1. proc[i] \in ProcStates /\ proc[i].pc = "write" /\ d \in Dirs
  BY Before DEF WriteMade, At, Proper
<1>2. Moves(i, r)
  BY DEF WriteMade
<1>3. PICK left \in {proc[i].config}
                      \cup (IF synth[d] \in {EmptyConfig, proc[i].config} THEN {} ELSE {Garbled}) :
          synth' = [synth EXCEPT ![d] = left]
  BY DEF WriteMade
<1>4. synth'[d] = left
  BY <1>1, <1>3, Before DEF TypeOK
<1>5. /\ r.pc = "root" /\ r.path = path /\ r.disturbed = proc[i].disturbed
  BY <1>1 DEF ProcStates
<1>6. path.kind = "made" => path.dir = d
  BY DEF PathOf, Remote
<1>. HIDE DEF r, path
<1>7. ASSUME ~r.disturbed
      PROVE  /\ site.workspace # None /\ files[Root] # None
             /\ left = Inherited(site, files)
  <2>1. synth[d] = EmptyConfig /\ proc[i].config = Inherited(site, files)
    BY <1>1, <1>5, <1>7 DEF Faithful
  <2>. QED
    BY <1>1, <1>3, <1>5, <1>7, <2>1 DEF Faithful
<1>8. Faithful(r, site, files, synth') /\ Given(r)
  BY <1>1, <1>4, <1>5, <1>6, <1>7, EarlyGiven DEF Faithful
<1>. QED
  BY <1>2, <1>8

\* A resolution that begins has given nothing.
LEMMA BeginsGives ==
    ASSUME NEW defs, NEW names \in Seq(Roles)
    PROVE  Gives(defs, names, Resolving(names))
<1>. DEFINE res == Resolving(names)
<1>1. res.todo = names /\ res.stack = <<>> /\ res.tools = NoTools
  BY DEF Resolving
<1>. HIDE DEF res
<1>2. Len(names) - Len(res.todo) = 0 /\ Len(names) \in Nat /\ Len(res.stack) = 0
  BY <1>1
<1>3. LastGives(defs, names, 0, MaxDepth, res.tools)
  BY <1>1, NothingGiven
<1>. DEFINE resolved == Len(names) - Len(res.todo)
<1>4. \A j \in 1..Len(res.todo) : res.todo[j] = names[resolved + j]
  <2>1. \A j \in 1..Len(res.todo) : resolved + j = j
    BY <1>2
  <2>. QED
    BY <1>1, <2>1
<1>5. 1..Len(res.stack) = {}
  BY <1>2
<1>6. resolved \in Nat /\ LastGives(defs, names, resolved, MaxDepth, res.tools)
  BY <1>2, <1>3
<1>. HIDE DEF resolved
<1>7. Gives(defs, names, res)
  BY <1>4, <1>5, <1>6 DEF Gives, resolved
<1>. QED
  BY <1>7 DEF res

\* Then it merges what it has read, which is all that it should have read,
LEMMA LoadConfigTraced ==
    ASSUME Inv, NEW i \in Procs, Faithful(proc[i], site, files, synth), LoadConfig(i)
    PROVE  \E r : /\ proc' = [proc EXCEPT ![i] = r]
                  /\ Faithful(r, site, files, synth) /\ Given(r)
<1>. DEFINE p == proc[i]
            text == Content(i)
            project == IF p.base = None THEN text ELSE Merge(p.base, text, site.workspace.inherit)
            merged == Personal(project)
            names == RoleNames(i, merged)
            fails == text \in {None, Garbled} \/ merged.provisioner = None
            pc == IF names = <<>> \/ merged.roles = None \/ Defined(merged.roles) = {}
                  THEN "tools" ELSE "roles"
            r == [p EXCEPT !.config = merged, !.names = names, !.res = Resolving(names),
                           !.pc = pc]
<1>1. /\ p \in ProcStates /\ p.path \in Paths /\ p.pc = "load" /\ p.cmd \in Commands
      /\ p.base \in Configs \cup {None}
  BY Before, FieldTypes DEF Proper, LoadConfig, At
<1>2. proc' = [proc EXCEPT ![i] = IF fails THEN Fails(i) ELSE r]
  BY DEF LoadConfig
<1>3. CASE fails
  <2>1. proc' = [proc EXCEPT ![i] = Fails(i)]
    BY <1>2, <1>3
  <2>2. Fails(i).pc = "idle"
    BY <1>1 DEF Fails, ProcStates
  <2>3. Faithful(Fails(i), site, files, synth) /\ Given(Fails(i))
    BY <2>2, EarlyTraced
  <2>. QED
    BY <2>1, <2>3
<1>4. CASE ~fails
  <2>1. text \in Configs
    BY <1>1, <1>4, Before, ContentTyped
  <2>2. merged.provisioner # None
    BY <1>4
  <2>3. merged = IF site.personal = None THEN project ELSE Merge(site.personal, project, Sections)
    BY DEF Personal
  <2>4. names = NamesFor(p, merged)
    BY DEF RoleNames, NamesFor, Cmd
  <2>5. merged \in Configs
    <3>1. site.personal \in Configs \cup {None}
      BY Before, SiteTypes
    <3>2. project \in Configs
      <4>. HIDE DEF text
      <4>. QED
        BY <1>1, <2>1, MergeTyped
    <3>. HIDE DEF text, project
    <3>. QED
      BY <2>3, <3>1, <3>2, MergeTyped
  <2>6. pc = "tools" \/ (pc = "roles" /\ merged.roles # None)
    OBVIOUS
  <2>. HIDE DEF merged
  <2>7. names \in Seq(Roles)
    <3>1. p.cmd.role \in Roles \cup {None} /\ merged.role \in Seq(Roles) \cup {None}
      BY <1>1, <2>5, ConfigTypes DEF Commands
    <3>. QED
      BY <2>4, <3>1 DEF NamesFor
  <2>8. proc' = [proc EXCEPT ![i] = r]
    BY <1>2, <1>4
  <2>. HIDE DEF names, pc, fails
  <2>9. /\ r.pc = pc /\ r.config = merged /\ r.names = names /\ r.res = Resolving(names)
        /\ r.cmd = p.cmd /\ r.cwd = p.cwd /\ r.path = p.path /\ r.disturbed = p.disturbed
    BY <1>1 DEF ProcStates
  <2>. HIDE DEF r
  <2>10. /\ RootRead(r, site, files) <=> RootRead(p, site, files)
         /\ Text(r, site, files) = Text(p, site, files)
         /\ Merged(r, site, files) = Merged(p, site, files)
         /\ \A c : NamesFor(r, c) = NamesFor(p, c)
    BY <2>9, SameReading
  <2>11. ASSUME ~p.disturbed
         PROVE  /\ p.path.kind = "made" => site.workspace # None /\ files[Root] # None
                /\ Text(p, site, files) = text /\ merged = Merged(p, site, files)
    <3>1. /\ p.path.kind = "made" => /\ site.workspace # None /\ files[Root] # None
                                     /\ synth[p.path.dir] = Inherited(site, files)
          /\ p.base = IF RootRead(p, site, files) THEN files[Root] ELSE None
      <4>. HIDE DEF p
      <4>. QED
        BY <1>1, <2>11 DEF Faithful, p
    <3>2. Text(p, site, files) = text
      BY <3>1 DEF Text, Content
    <3>3. project = IF RootRead(p, site, files)
                    THEN Merge(files[Root], Text(p, site, files), site.workspace.inherit)
                    ELSE Text(p, site, files)
      <4>1. RootRead(p, site, files) => files[Root] # None
        BY DEF RootRead
      <4>. HIDE DEF text, p
      <4>. QED
        BY <3>1, <3>2, <4>1
    <3>. HIDE DEF text, project, p
    <3>. QED
      BY <2>3, <3>1, <3>2, <3>3 DEF Merged
  <2>. HIDE DEF p, text, project
  <2>12. Faithful(r, site, files, synth)
    BY <1>1, <2>1, <2>2, <2>4, <2>6, <2>9, <2>10, <2>11 DEF Faithful
  <2>13. Given(r)
    <3>1. Gives(merged.roles, names, Resolving(names)) /\ Resolving(names).outcome = "resolving"
      BY <2>7, BeginsGives, ResolvingTyped
    <3>. QED
      BY <2>6, <2>9, <3>1 DEF Given
  <2>. QED
    BY <2>8, <2>12, <2>13
<1>. QED
  BY <1>3, <1>4

\* and resolves its roles. A call goes on or is refused.
LEMMA CallOutcome ==
    ASSUME NEW defs, NEW res \in Resolutions, NEW r, res.outcome = "resolving"
    PROVE  Call(defs, res, r).outcome # "ok"
<1>1. ASSUME NEW why
      PROVE  Refused(res, why, r).outcome = why
  BY DEF Refused, Resolutions
<1>2. CASE Len(res.stack) > MaxDepth \/ r \in res.visited \/ r \notin Defined(defs)
  <2>1. \/ Call(defs, res, r) = Refused(res, "too_deep", r)
        \/ Call(defs, res, r) = Refused(res, "circular", r)
        \/ Call(defs, res, r) = Refused(res, "role_not_found", r)
    BY <1>2 DEF Call
  <2>. QED
    BY <1>1, <2>1
<1>3. CASE ~(Len(res.stack) > MaxDepth \/ r \in res.visited \/ r \notin Defined(defs))
  <2>1. Call(defs, res, r).outcome = res.outcome
    BY <1>3 DEF Call, Resolutions
  <2>. QED
    BY <2>1
<1>. QED
  BY <1>2, <1>3

\* One more step of the resolution.
LEMMA RoleStepTraced ==
    ASSUME Inv, NEW i \in Procs, Faithful(proc[i], site, files, synth), Given(proc[i]),
           NextRole(i) \/ NextParent(i) \/ RoleReturns(i) \/ RolesResolved(i)
    PROVE  \E r : /\ proc' = [proc EXCEPT ![i] = r]
                  /\ Faithful(r, site, files, synth) /\ Given(r)
<1>. DEFINE p == proc[i]
            defs == p.config.roles
            names == p.names
            res == p.res
<1>1. /\ p \in ProcStates /\ p.pc = "roles"
      /\ defs \in RoleDefs /\ names \in Seq(Roles) /\ res \in Resolutions
      /\ Good(defs, names, res) /\ res.outcome = "resolving"
  <2>1. p.pc = "roles"
    BY DEF NextRole, NextParent, RoleReturns, RolesResolved, At
  <2>2. /\ p \in ProcStates /\ Proper(p, files[Root]) /\ names \in Seq(Roles)
        /\ res \in Resolutions
    BY Before, FieldTypes
  <2>3. defs \in RoleDefs /\ Good(defs, names, res)
    BY <2>1, <2>2 DEF Proper
  <2>. QED
    BY <2>1, <2>2, <2>3 DEF Good
<1>2. defs # None /\ Gives(defs, names, res)
  BY <1>1 DEF Given
<1>3. ASSUME NEW new \in Resolutions, Resolves(i, new),
             new.outcome = "resolving" => Gives(defs, names, new),
             new.outcome = "ok" => LastGives(defs, names, Len(names), MaxDepth, new.tools)
      PROVE  \E r : /\ proc' = [proc EXCEPT ![i] = r]
                    /\ Faithful(r, site, files, synth) /\ Given(r)
  <2>. DEFINE pc == IF new.outcome = "resolving" THEN "roles" ELSE "tools"
              r == [p EXCEPT !.res = new, !.pc = pc]
  <2>1. proc' = [proc EXCEPT ![i] = r]
    BY <1>3 DEF Resolves
  <2>2. pc = "tools" \/ (pc = "roles" /\ new.outcome = "resolving")
    OBVIOUS
  <2>. HIDE DEF pc
  <2>3. /\ r.pc = pc /\ r.res = new /\ r.config = p.config /\ r.names = names
        /\ r.cmd = p.cmd /\ r.cwd = p.cwd /\ r.path = p.path /\ r.disturbed = p.disturbed
    BY <1>1 DEF ProcStates
  <2>. HIDE DEF r
  <2>4. /\ Text(r, site, files) = Text(p, site, files)
        /\ Merged(r, site, files) = Merged(p, site, files)
        /\ \A c : NamesFor(r, c) = NamesFor(p, c)
    BY <2>3, SameReading
  <2>5. Faithful(r, site, files, synth)
    <3>1. r.pc \in {"roles", "tools"}
      BY <2>2, <2>3
    <3>. HIDE DEF p
    <3>. QED
      BY <1>1, <2>3, <2>4, <3>1 DEF Faithful, p
  <2>6. Given(r)
    BY <1>1, <1>2, <1>3, <2>2, <2>3 DEF Given
  <2>. QED
    BY <2>1, <2>5, <2>6
<1>4. CASE NextRole(i)
  <2>1. res.stack = <<>> /\ res.todo # <<>> /\ Resolves(i, ResolveNext(defs, res))
    BY <1>4 DEF NextRole, Defs
  <2>. HIDE DEF defs, names, res
  <2>2. Head(res.todo) \in Roles
    <3>1. res.todo \in Seq(Roles)
      BY <1>1, Typed
    <3>. QED
      BY <2>1, <3>1
  <2>3. ResolveNext(defs, res) \in Resolutions
    BY <1>1, <2>1, ResolveNextRight
  <2>4. ResolveNext(defs, res) = Call(defs, res, Head(res.todo))
    BY DEF ResolveNext
  <2>5. ResolveNext(defs, res).outcome # "ok"
    BY <1>1, <2>4, CallOutcome
  <2>6. ResolveNext(defs, res).outcome = "resolving" => Gives(defs, names, ResolveNext(defs, res))
    BY <1>1, <1>2, <2>2, <2>4, CallGives
  <2>. QED
    BY <1>3, <2>1, <2>3, <2>5, <2>6
<1>5. CASE NextParent(i)
  <2>1. res.stack # <<>> /\ ParentsLeft(defs, res) /\ Resolves(i, ResolveParent(defs, res))
    BY <1>5 DEF NextParent, Defs
  <2>. DEFINE parent == defs[Top(res).role].extends[Top(res).next]
              new == ResolveParent(defs, res)
  <2>. HIDE DEF defs, names, res
  <2>2. new \in Resolutions
    BY <1>1, <2>1, ResolveParentRight
  <2>3. CASE parent \in Defined(defs)
    <3>1. new = Call(defs, res, parent) /\ parent \in Roles
      BY <2>3 DEF ResolveParent, Defined
    <3>. HIDE DEF new, parent
    <3>2. new.outcome # "ok"
      BY <1>1, <3>1, CallOutcome
    <3>3. new.outcome = "resolving" => Gives(defs, names, new)
      BY <1>1, <1>2, <3>1, CallGives
    <3>. QED
      BY <1>3, <2>1, <2>2, <3>2, <3>3 DEF new
  <2>4. CASE parent \notin Defined(defs)
    <3>1. new.outcome = "parent_not_found"
      BY <1>1, <2>4 DEF ResolveParent, Refused, Resolutions
    <3>. HIDE DEF new
    <3>. QED
      BY <1>3, <2>1, <2>2, <3>1 DEF new
  <2>. QED
    BY <2>3, <2>4
<1>6. CASE RoleReturns(i)
  <2>1. res.stack # <<>> /\ ~ParentsLeft(defs, res) /\ Resolves(i, Return(defs, res))
    BY <1>6 DEF RoleReturns, Defs
  <2>. HIDE DEF defs, names, res
  <2>2. Good(defs, names, Return(defs, res)) /\ Return(defs, res) \in Resolutions
    BY <1>1, <2>1, ReturnToLoop, ReturnToFrame
  <2>3. Gives(defs, names, Return(defs, res))
    BY <1>1, <1>2, <2>1, LoopGives, FrameGives
  <2>4. Return(defs, res).outcome # "ok"
    BY <2>2 DEF Good
  <2>. QED
    BY <1>3, <2>1, <2>2, <2>3, <2>4
<1>7. CASE RolesResolved(i)
  <2>1. res.stack = <<>> /\ res.todo = <<>> /\ Resolves(i, AllResolved(res))
    BY <1>7 DEF RolesResolved
  <2>. DEFINE new == AllResolved(res)
  <2>. HIDE DEF defs, names, res
  <2>2. new \in Resolutions
    BY <1>1, <2>1, AllResolvedRight
  <2>3. new.outcome = "ok" /\ new.tools = res.tools
    BY <1>1 DEF AllResolved, Resolutions
  <2>. HIDE DEF new
  <2>4. Len(names) - Len(res.todo) = Len(names)
    BY <1>1, <2>1
  <2>5. LastGives(defs, names, Len(names), MaxDepth, res.tools)
    BY <1>2, <2>4 DEF Gives
  <2>. QED
    BY <1>3, <2>1, <2>2, <2>3, <2>5 DEF new
<1>. QED
  BY <1>4, <1>5, <1>6, <1>7

\* It works with its own tools over theirs.
LEMMA CollectToolsTraced ==
    ASSUME Inv, NEW i \in Procs, Faithful(proc[i], site, files, synth), Given(proc[i]),
           CollectTools(i)
    PROVE  \E r : /\ proc' = [proc EXCEPT ![i] = r]
                  /\ Faithful(r, site, files, synth) /\ Given(r)
<1>. DEFINE p == proc[i]
            given == IF p.res.outcome = "ok" THEN p.res.tools ELSE NoTools
            tools == MergeTools(given, p.config.provisioner)
            r == [p EXCEPT !.pc = "done", !.exit = "ok", !.tools = tools]
<1>1. p \in ProcStates /\ p.pc = "tools" /\ proc' = [proc EXCEPT ![i] = r]
  BY Before DEF CollectTools, At
<1>2. tools = MergeTools(IF p.res.outcome = "ok" THEN p.res.tools ELSE NoTools,
                         p.config.provisioner)
  OBVIOUS
<1>. HIDE DEF tools, given
<1>3. /\ r.pc = "done" /\ r.tools = tools /\ r.res = p.res /\ r.config = p.config
      /\ r.names = p.names /\ r.cmd = p.cmd /\ r.cwd = p.cwd /\ r.path = p.path
      /\ r.disturbed = p.disturbed
  BY <1>1 DEF ProcStates
<1>. HIDE DEF r
<1>4. /\ Text(r, site, files) = Text(p, site, files)
      /\ Merged(r, site, files) = Merged(p, site, files)
      /\ \A c : NamesFor(r, c) = NamesFor(p, c)
  BY <1>3, SameReading
<1>5. Faithful(r, site, files, synth)
  <2>. HIDE DEF p
  <2>. QED
    BY <1>1, <1>3, <1>4 DEF Faithful, p
<1>6. Given(r)
  <2>1. Given(p)
    OBVIOUS
  <2>. HIDE DEF p
  <2>. QED
    BY <1>1, <1>2, <1>3, <2>1 DEF Given
<1>. QED
  BY <1>1, <1>5, <1>6

------------------------------------------------------------------------------
(* Steps of one command, and edits, leave the others right. *)

\* A command that is said to be disturbed is not spoken of, and one that is not is as it was.
LEMMA DisturbedTraced ==
    ASSUME NEW r \in ProcStates, NEW b \in BOOLEAN, NEW s, NEW f, NEW y,
           Given(r), b \/ Faithful(r, s, f, y)
    PROVE  LET q == [r EXCEPT !.disturbed = r.disturbed \/ b]
           IN  Faithful(q, s, f, y) /\ Given(q)
<1>. DEFINE d == r.disturbed \/ b
            q == [r EXCEPT !.disturbed = d]
<1>1. d \in BOOLEAN /\ (d <=> r.disturbed \/ b)
  BY DEF ProcStates
<1>. HIDE DEF d
<1>2. /\ q.pc = r.pc /\ q.cmd = r.cmd /\ q.cwd = r.cwd /\ q.path = r.path /\ q.base = r.base
      /\ q.config = r.config /\ q.names = r.names /\ q.res = r.res /\ q.tools = r.tools
      /\ q.disturbed = d
  BY DEF ProcStates
<1>. HIDE DEF q
<1>3. /\ RootRead(q, s, f) <=> RootRead(r, s, f)
      /\ Text(q, s, f) = Text(r, s, f)
      /\ Merged(q, s, f) = Merged(r, s, f)
      /\ \A c : NamesFor(q, c) = NamesFor(r, c)
  BY <1>2, SameReading
<1>4. Faithful(q, s, f, y)
  BY <1>1, <1>2, <1>3 DEF Faithful
<1>5. Given(q)
  BY <1>2 DEF Given
<1>. QED
  BY <1>4, <1>5 DEF q, d

\* What one command does to the file made for a member disturbs those that rely on it.
LEMMA OthersUntouched ==
    ASSUME Inv, NEW i \in Procs, NEW j \in Procs \ {i}, j \notin Sharing(i),
           proc[i].path \in Paths, proc[i].path.kind = "made",
           NEW text, NEW y, y = [synth EXCEPT ![proc[i].path.dir] = text],
           Faithful(proc[j], site, files, synth)
    PROVE  Faithful(proc[j], site, files, y)
<1>. DEFINE p == proc[i]
            r == proc[j]
            d == p.path.dir
<1>1. synth \in [Dirs -> Configs \cup {None, Garbled}]
  BY DEF Inv, TypeOK
<1>2. ASSUME r.pc = "write" \/ (r.pc \in {"root", "load"} /\ r.path.kind = "made")
      PROVE  y[r.path.dir] = synth[r.path.dir]
  <2>1. /\ r.path \in Paths /\ r.path.kind = "made" /\ r.path.dir \in Dirs
    <3>1. Proper(r, files[Root])
      BY Before
    <3>2. r.path \in Paths /\ r.path.kind = "made"
      BY <1>2, <3>1 DEF Proper
    <3>. QED
      BY <3>2 DEF Paths
  <2>2. r.path.dir # d
    <3>1. r.path = MadeFor(r.path.dir)
      BY <2>1 DEF Paths, MadeFor
    <3>2. p.path = MadeFor(d)
      BY DEF Paths, MadeFor
    <3>3. r.path # p.path
      BY <1>2 DEF Sharing
    <3>. HIDE DEF r, p, d
    <3>. QED
      BY <3>1, <3>2, <3>3
  <2>. QED
    BY <1>1, <2>1, <2>2
<1>. HIDE DEF r
<1>. QED
  BY <1>2 DEF Faithful, r

\* A step that only moves one process.
LEMMA OneStepTraced ==
    ASSUME Inv, Traced, NEW i \in Procs, NEW r, proc' = [proc EXCEPT ![i] = r],
           UNCHANGED <<site, files, synth>>,
           Faithful(r, site, files, synth), Given(r)
    PROVE  Traced'
<1>1. proc \in [Procs -> ProcStates]
  BY DEF Inv, TypeOK
<1>2. ASSUME NEW j \in Procs
      PROVE  Faithful(proc'[j], site, files, synth) /\ Given(proc'[j])
  <2>1. CASE j = i
    BY <1>1, <2>1
  <2>2. CASE j # i
    <3>1. proc'[j] = proc[j]
      BY <1>1, <2>2
    <3>. QED
      BY <3>1 DEF Traced
  <2>. QED
    BY <2>1, <2>2
<1>3. ASSUME NEW j \in Procs
      PROVE  Faithful(proc'[j], site', files', synth') /\ Given(proc'[j])
  <2>1. site' = site /\ files' = files /\ synth' = synth
    OBVIOUS
  <2>. QED
    BY <1>2, <2>1
<1>. QED
  BY <1>3 DEF Traced

\* A step that also writes a file made for a member.
LEMMA MadeStepTraced ==
    ASSUME Inv, Traced, NEW i \in Procs, NEW r, Moves(i, r), UNCHANGED <<site, files>>,
           proc[i].path \in Paths, proc[i].path.kind = "made",
           NEW text, synth' = [synth EXCEPT ![proc[i].path.dir] = text],
           Faithful(r, site, files, synth'), Given(r)
    PROVE  Traced'
<1>. DEFINE b(j) == j \in Sharing(i)
            q(j) == [proc[j] EXCEPT !.disturbed = proc[j].disturbed \/ b(j)]
<1>1. proc' = [j \in Procs |-> IF j = i THEN r ELSE q(j)]
  BY DEF Moves
<1>2. ASSUME NEW j \in Procs
      PROVE  Faithful(proc'[j], site, files, synth') /\ Given(proc'[j])
  <2>1. CASE j = i
    BY <1>1, <2>1
  <2>2. CASE j # i
    <3>1. proc[j] \in ProcStates /\ Given(proc[j]) /\ Faithful(proc[j], site, files, synth)
      BY Before DEF Traced
    <3>2. b(j) \/ Faithful(proc[j], site, files, synth')
      BY <2>2, <3>1, OthersUntouched
    <3>3. b(j) \in BOOLEAN
      OBVIOUS
    <3>. HIDE DEF b
    <3>4. Faithful(q(j), site, files, synth') /\ Given(q(j))
      BY <3>1, <3>2, <3>3, DisturbedTraced
    <3>5. proc'[j] = q(j)
      BY <1>1, <2>2
    <3>. HIDE DEF q
    <3>. QED
      BY <3>4, <3>5
  <2>. QED
    BY <2>1, <2>2
<1>3. ASSUME NEW j \in Procs
      PROVE  Faithful(proc'[j], site', files', synth') /\ Given(proc'[j])
  <2>1. site' = site /\ files' = files
    OBVIOUS
  <2>. QED
    BY <1>2, <2>1
<1>. QED
  BY <1>3 DEF Traced

\* The user's edit disturbs whoever is running.
LEMMA EditTraced ==
    ASSUME Inv, Traced, EditRoot
    PROVE  Traced'
<1>. DEFINE b(j) == Running(j)
            q(j) == [proc[j] EXCEPT !.disturbed = proc[j].disturbed \/ b(j)]
<1>1. proc' = [j \in Procs |-> q(j)]
  BY DEF EditRoot
<1>2. ASSUME NEW j \in Procs
      PROVE  Faithful(proc'[j], site, files', synth) /\ Given(proc'[j])
  <2>1. proc[j] \in ProcStates /\ Given(proc[j])
    BY Before DEF Traced
  <2>2. b(j) \/ Faithful(proc[j], site, files', synth)
    BY EarlyTraced DEF Running, At
  <2>3. b(j) \in BOOLEAN
    BY DEF Running
  <2>. HIDE DEF b
  <2>4. Faithful(q(j), site, files', synth) /\ Given(q(j))
    BY <2>1, <2>2, <2>3, DisturbedTraced
  <2>. HIDE DEF q
  <2>. QED
    BY <1>1, <2>4
<1>3. ASSUME NEW j \in Procs
      PROVE  Faithful(proc'[j], site', files', synth') /\ Given(proc'[j])
  <2>1. site' = site /\ synth' = synth
    BY DEF EditRoot
  <2>. QED
    BY <1>2, <2>1
<1>. QED
  BY <1>3 DEF Traced

------------------------------------------------------------------------------
\* At first nobody has done anything.
LEMMA InitTraced == Init => Traced
<1>1. Idle.pc = "idle"
  BY DEF Idle
<1>. QED
  BY <1>1, EarlyTraced DEF Init, Traced

\* Every step keeps what commands have read traceable to the files.
LEMMA NextTraced == Inv /\ Traced /\ [Next]_vars => Traced'
<1>. SUFFICES ASSUME Inv, Traced, [Next]_vars
              PROVE  Traced'
  OBVIOUS
<1>1. CASE UNCHANGED vars
  BY <1>1 DEF vars, Traced
<1>2. CASE EditRoot
  BY <1>2, EditTraced
<1>3. ASSUME NEW i \in Procs, TruncateMade(i) \/ WriteMade(i)
      PROVE  Traced'
  <2>1. Faithful(proc[i], site, files, synth)
    BY DEF Traced
  <2>2. PICK r : Moves(i, r) /\ Faithful(r, site, files, synth') /\ Given(r)
    BY <1>3, <2>1, TruncateTraced, WriteTraced
  <2>3. UNCHANGED <<site, files>>
    BY <1>3 DEF TruncateMade, WriteMade, OthersUnchanged
  <2>4. proc[i].path \in Paths /\ proc[i].path.kind = "made"
    BY <1>3, Before DEF TruncateMade, WriteMade, At, Proper
  <2>5. PICK text : synth' = [synth EXCEPT ![proc[i].path.dir] = text]
    BY <1>3 DEF TruncateMade, WriteMade
  <2>. QED
    BY <2>2, <2>3, <2>4, <2>5, MadeStepTraced
<1>4. ASSUME NEW i \in Procs,
             \/ Start(i) \/ ParentSearch(i) \/ FindProject(i) \/ ReadForMember(i) \/ LoadRoot(i)
             \/ LoadConfig(i) \/ NextRole(i) \/ NextParent(i) \/ RoleReturns(i)
             \/ RolesResolved(i) \/ CollectTools(i) \/ Finish(i) \/ Killed(i)
      PROVE  Traced'
  <2>1. Faithful(proc[i], site, files, synth) /\ Given(proc[i])
    BY DEF Traced
  <2>2. \E r : proc' = [proc EXCEPT ![i] = r] /\ Faithful(r, site, files, synth) /\ Given(r)
    BY <1>4, <2>1, MovesTraced, FindProjectTraced, ReadsTraced, LoadConfigTraced,
       RoleStepTraced, CollectToolsTraced
  <2>3. UNCHANGED <<site, files, synth>>
    BY <1>4 DEF Start, ParentSearch, FindProject, ReadForMember, LoadRoot, LoadConfig, NextRole,
       NextParent, RoleReturns, RolesResolved, Resolves, CollectTools, Finish, Killed, OthersUnchanged
  <2>4. PICK r : proc' = [proc EXCEPT ![i] = r] /\ Faithful(r, site, files, synth) /\ Given(r)
    BY <2>2
  <2>. QED
    BY <2>3, <2>4, OneStepTraced
<1>. QED
  BY <1>1, <1>2, <1>3, <1>4 DEF Next, Step

\* Whatever commands do at once, what one that is not disturbed works with is traced to the
\* files as they are, and to the roles as they are written there.
THEOREM EveryToolTraced == Spec => []Traced
<1>1. Init => Inv /\ Traced
  BY InitInv, InitTraced
<1>2. (Inv /\ Traced) /\ [Next]_vars => (Inv /\ Traced)'
  BY NextInv, NextTraced
<1>. QED
  BY <1>1, <1>2, PTL DEF Spec

------------------------------------------------------------------------------
(* What is merged, layer by layer. *)

\* Where a config says that a tool is from.
ToolIn(config, t) == IF config.provisioner = None THEN None ELSE config.provisioner[t]

\* A config that says what `near` says, and else what `far` says.
Layered(config, near, far) ==
    /\ config.roles = Section(far.roles, near.roles)
    /\ config.role = Section(far.role, near.role)
    /\ \A t \in Tools : ToolIn(config, t) = Section(ToolIn(far, t), ToolIn(near, t))

\* A part of a config says of each section all or nothing.
LEMMA OnlyIs ==
    ASSUME NEW config, NEW sections
    PROVE  LET part == Only(config, sections)
           IN  /\ part.provisioner = IF "provisioner" \in sections THEN config.provisioner ELSE None
               /\ part.roles = IF "roles" \in sections THEN config.roles ELSE None
               /\ part.role = IF "role" \in sections THEN config.role ELSE None
BY DEF Only, Sections

\* merge_configs lays one config over what is inherited of the other.
LEMMA MergeLayered ==
    ASSUME NEW base \in Configs, NEW over \in Configs, NEW inherit
    PROVE  Layered(Merge(base, over, inherit), over, Only(base, inherit))
<1>. DEFINE c == Merge(base, over, inherit)
            part == Only(base, inherit)
            x == base.provisioner
            y == over.provisioner
<1>1. /\ c.provisioner = IF "provisioner" \in inherit THEN MergeTools(x, y) ELSE y
      /\ c.roles = IF "roles" \in inherit THEN Section(base.roles, over.roles) ELSE over.roles
      /\ c.role = IF "role" \in inherit THEN Section(base.role, over.role) ELSE over.role
  BY DEF Merge
<1>2. /\ part.provisioner = IF "provisioner" \in inherit THEN x ELSE None
      /\ part.roles = IF "roles" \in inherit THEN base.roles ELSE None
      /\ part.role = IF "role" \in inherit THEN base.role ELSE None
  BY OnlyIs
<1>3. /\ x \in [Tools -> Origins \cup {None}] \cup {None}
      /\ y \in [Tools -> Origins \cup {None}] \cup {None}
  BY ConfigTypes
<1>. HIDE DEF c, part, x, y
<1>4. ASSUME NEW t \in Tools
      PROVE  ToolIn(c, t) = Section(ToolIn(part, t), ToolIn(over, t))
  <2>1. ToolIn(over, t) = IF y = None THEN None ELSE y[t]
    BY DEF ToolIn, y
  <2>2. CASE "provisioner" \notin inherit \/ x = None \/ y = None
    BY <1>1, <1>2, <2>1, <2>2 DEF ToolIn, MergeTools, Section
  <2>3. CASE "provisioner" \in inherit /\ x # None /\ y # None
    <3>. DEFINE both == [u \in Tools |-> IF y[u] # None THEN y[u] ELSE x[u]]
    <3>1. c.provisioner = both
      BY <1>1, <2>3 DEF MergeTools
    <3>2. both \in [Tools -> Origins \cup {None}]
      BY <1>3, <2>3
    <3>3. both # None
      BY <3>2, ProjectToolsTyped
    <3>4. both[t] = IF y[t] # None THEN y[t] ELSE x[t]
      OBVIOUS
    <3>. HIDE DEF both
    <3>5. ToolIn(c, t) = both[t]
      BY <3>1, <3>3 DEF ToolIn
    <3>6. ToolIn(part, t) = x[t]
      BY <1>2, <2>3 DEF ToolIn
    <3>. QED
      BY <2>1, <2>3, <3>4, <3>5, <3>6 DEF Section
  <2>. QED
    BY <2>2, <2>3
<1>5. Layered(c, over, part)
  BY <1>1, <1>2, <1>4 DEF Layered, Section
<1>. QED
  BY <1>5 DEF c, part

\* A config that says what another does over nothing, or under nothing, says the same.
LEMMA LayeredAlone ==
    ASSUME NEW c, NEW d, Layered(c, EmptyConfig, d) \/ Layered(c, d, EmptyConfig)
    PROVE  c.roles = d.roles /\ c.role = d.role /\ \A t \in Tools : ToolIn(c, t) = ToolIn(d, t)
<1>1. /\ EmptyConfig.roles = None /\ EmptyConfig.role = None
      /\ \A t \in Tools : ToolIn(EmptyConfig, t) = None
  BY DEF EmptyConfig, ToolIn
<1>. QED
  BY <1>1 DEF Layered, Section

\* Every config is over nothing, or nothing over it.
LEMMA AloneLayered ==
    ASSUME NEW c
    PROVE  Layered(c, EmptyConfig, c) /\ Layered(c, c, EmptyConfig)
<1>1. /\ EmptyConfig.roles = None /\ EmptyConfig.role = None
      /\ \A t \in Tools : ToolIn(EmptyConfig, t) = None
  BY DEF EmptyConfig, ToolIn
<1>. QED
  BY <1>1 DEF Layered, Section

\* What is inherited twice is inherited once.
LEMMA LayeredTwice ==
    ASSUME NEW c, NEW d, NEW e, Layered(d, EmptyConfig, e), Layered(c, d, e)
    PROVE  Layered(c, EmptyConfig, e)
<1>1. /\ d.roles = e.roles /\ d.role = e.role /\ \A t \in Tools : ToolIn(d, t) = ToolIn(e, t)
  BY LayeredAlone
<1>2. Section(e.roles, e.roles) = e.roles /\ Section(e.role, e.role) = e.role
      /\ \A t \in Tools : Section(ToolIn(e, t), ToolIn(e, t)) = ToolIn(e, t)
  BY DEF Section
<1>3. c.roles = e.roles /\ c.role = e.role /\ \A t \in Tools : ToolIn(c, t) = ToolIn(e, t)
  BY <1>1, <1>2 DEF Layered
<1>4. Layered(e, EmptyConfig, e)
  BY AloneLayered
<1>. QED
  BY <1>3, <1>4 DEF Layered

\* The config of a command that nobody has disturbed is that of its layers.
LEMMA ConfigLayered ==
    ASSUME Inv, NEW i \in Procs, Faithful(proc[i], site, files, synth), At(i, "done"),
           ~proc[i].disturbed
    PROVE  \E project : /\ Layered(project, Layers(i)[1], Layers(i)[2])
                        /\ Layered(proc[i].config, project, Layers(i)[3])
<1>. DEFINE p == proc[i]
            inherit == site.workspace.inherit
            root == files[Root]
            text == Text(p, site, files)
            reads == RootRead(p, site, files)
            part == Only(root, inherit)
            project == IF reads THEN Merge(root, text, inherit) ELSE text
            made == p.path.kind = "made"
<1>1. /\ p.pc = "done" /\ text \in Configs /\ p.path \in Paths
      /\ p.config = Merged(p, site, files)
      /\ made => root # None
  <2>. HIDE DEF p
  <2>. QED
    BY DEF Faithful, At, p
<1>2. reads => root # None
  BY DEF RootRead
<1>3. root \in Configs \cup {None} /\ site.personal \in Configs \cup {None}
  BY Before, SiteTypes
<1>4. LoadsRoot(i) <=> reads
  BY DEF LoadsRoot, RootRead, HasWorkspace, Cmd
<1>5. ~made => Content(i) = text
  BY DEF Content, Text
<1>6. /\ Layers(i)[1] = IF made THEN EmptyConfig ELSE Content(i)
      /\ Layers(i)[2] = IF made \/ LoadsRoot(i) THEN part ELSE EmptyConfig
      /\ Layers(i)[3] = IF site.personal = None THEN EmptyConfig ELSE site.personal
  BY DEF Layers
<1>7. made => text = Merge(root, EmptyConfig, inherit)
  BY DEF Text, Inherited
<1>8. p.config = IF site.personal = None THEN project ELSE Merge(site.personal, project, Sections)
  BY <1>1 DEF Merged
<1>9. project = IF reads THEN Merge(root, text, inherit) ELSE text
  OBVIOUS
<1>. HIDE DEF p, root, text, reads, part, project, made
<1>10. Layered(project, Layers(i)[1], Layers(i)[2])
  <2>1. CASE made
    <3>1. text = Merge(root, EmptyConfig, inherit) /\ root \in Configs
      BY <1>1, <1>3, <1>7, <2>1
    <3>2. Layered(text, EmptyConfig, part)
      BY <3>1, EmptyTyped, MergeLayered DEF part
    <3>3. reads => Layered(project, text, part)
      BY <1>1, <1>9, <3>1, MergeLayered DEF part
    <3>4. Layered(project, EmptyConfig, part)
      BY <1>9, <3>2, <3>3, LayeredTwice
    <3>. QED
      BY <1>6, <2>1, <3>4
  <2>2. CASE ~made /\ reads
    <3>1. Layered(project, text, part)
      BY <1>1, <1>2, <1>3, <1>9, <2>2, MergeLayered DEF part
    <3>. QED
      BY <1>4, <1>5, <1>6, <2>2, <3>1
  <2>3. CASE ~made /\ ~reads
    <3>1. Layered(project, text, EmptyConfig)
      BY <1>9, <2>3, AloneLayered
    <3>. QED
      BY <1>4, <1>5, <1>6, <2>3, <3>1
  <2>. QED
    BY <2>1, <2>2, <2>3
<1>11. Layered(p.config, project, Layers(i)[3])
  <2>1. CASE site.personal = None
    BY <1>6, <1>8, <2>1, AloneLayered
  <2>2. CASE site.personal # None
    <3>. DEFINE all == Only(site.personal, Sections)
    <3>1. project \in Configs
      BY <1>1, <1>2, <1>3, <1>9, MergeTyped
    <3>2. Layered(p.config, project, all)
      BY <1>3, <1>8, <2>2, <3>1, MergeLayered
    <3>3. /\ all.roles = site.personal.roles /\ all.role = site.personal.role
          /\ all.provisioner = site.personal.provisioner
      BY OnlyIs DEF Sections
    <3>. HIDE DEF all
    <3>4. \A t : ToolIn(all, t) = ToolIn(site.personal, t)
      BY <3>3 DEF ToolIn
    <3>5. Layered(p.config, project, site.personal)
      BY <3>2, <3>3, <3>4 DEF Layered
    <3>. QED
      BY <1>6, <2>2, <3>5
  <2>. QED
    BY <2>1, <2>2
<1>. QED
  BY <1>10, <1>11 DEF p

\* The first of three layers.
LEMMA FirstIs ==
    ASSUME NEW on \in SUBSET (1..3)
    PROVE  First(on) = IF 1 \in on THEN 1 ELSE IF 2 \in on THEN 2 ELSE IF 3 \in on THEN 3 ELSE 4
<1>. DEFINE first == IF 1 \in on THEN 1 ELSE IF 2 \in on THEN 2 ELSE IF 3 \in on THEN 3 ELSE 4
<1>1. first \in on \cup {4} /\ \A j \in on : first <= j
  OBVIOUS
<1>2. ASSUME NEW k \in on \cup {4}, \A j \in on : k <= j
      PROVE  k = first
  BY <1>2
<1>. HIDE DEF first
<1>. QED
  BY <1>1, <1>2 DEF First, first

\* What three layers say is what the first of them that says something does.
LEMMA FirstSays ==
    ASSUME NEW a, NEW b, NEW c, NEW on \in SUBSET (1..3),
           1 \in on <=> a # None, 2 \in on <=> b # None, 3 \in on <=> c # None
    PROVE  /\ First(on) = 1 => Section(c, Section(b, a)) = a /\ a # None
           /\ First(on) = 2 => Section(c, Section(b, a)) = b /\ b # None
           /\ First(on) = 3 => Section(c, Section(b, a)) = c /\ c # None
           /\ First(on) = 4 => Section(c, Section(b, a)) = None
           /\ First(on) \in 1..4
BY FirstIs DEF Section

\* What a command that nobody has disturbed works with, whatever else is run at once and
\* wherever it is killed, is what the nearest of its own file, what its member inherits and
\* the user's overlay says, and else what the roles of the nearest that has some give
\* (merge_configs, apply_personal_overlay, resolve_internal, and synthesize_member_config,
\* whose file of an earlier command is never what is read).
THEOREM NearestLayerWins == Spec => []NearestLayer
<1>1. Inv /\ Traced => NearestLayer
  <2>. SUFFICES ASSUME Inv, Traced, NEW i \in Procs, At(i, "done"), ~proc[i].disturbed,
                       NEW t \in Tools
                PROVE  LET layers == Layers(i)
                           withRoles == First({k \in 1..3 : layers[k].roles # None})
                           withRole == First({k \in 1..3 : layers[k].role # None})
                           names == IF Cmd(i).op = "inspect" THEN <<>>
                                    ELSE IF Cmd(i).role # None THEN <<Cmd(i).role>>
                                    ELSE IF withRole = 4 THEN <<>> ELSE layers[withRole].role
                           with == First({k \in 1..3 : /\ layers[k].provisioner # None
                                                       /\ layers[k].provisioner[t] # None})
                       IN  proc[i].tools[t] =
                               IF with # 4 THEN layers[with].provisioner[t]
                               ELSE IF withRoles = 4 \/ proc[i].res.outcome # "ok" THEN None
                               ELSE Giver(layers[withRoles].roles, names, t)
    BY DEF NearestLayer
  <2>. DEFINE p == proc[i]
              L == Layers(i)
              onRoles == {k \in 1..3 : L[k].roles # None}
              onRole == {k \in 1..3 : L[k].role # None}
              on == {k \in 1..3 : L[k].provisioner # None /\ L[k].provisioner[t] # None}
              names == IF Cmd(i).op = "inspect" THEN <<>>
                       ELSE IF Cmd(i).role # None THEN <<Cmd(i).role>>
                       ELSE IF First(onRole) = 4 THEN <<>> ELSE L[First(onRole)].role
              given == IF p.res.outcome = "ok" THEN p.res.tools ELSE NoTools
  <2>1. p \in ProcStates /\ p.names \in Seq(Roles) /\ p.res.tools \in ToolMaps
        /\ p.config.provisioner \in [Tools -> Origins \cup {None}] \cup {None}
    BY Before, FieldTypes, ConfigTypes, Typed
  <2>2. Faithful(p, site, files, synth) /\ Given(p) /\ p.pc = "done"
    BY DEF Traced, At
  <2>3. p.config.provisioner # None /\ p.names = NamesFor(p, p.config)
    <3>. HIDE DEF p
    <3>. QED
      BY <2>2 DEF Faithful, p
  <2>4. PICK project : /\ Layered(project, L[1], L[2])
                       /\ Layered(p.config, project, L[3])
    BY <2>2, ConfigLayered
  <2>. HIDE DEF L
  <2>5. p.config.roles = IF First(onRoles) = 4 THEN None ELSE L[First(onRoles)].roles
    <3>1. p.config.roles = Section(L[3].roles, Section(L[2].roles, L[1].roles))
      BY <2>4 DEF Layered
    <3>. QED
      BY <3>1, FirstSays
  <2>6. p.config.role = IF First(onRole) = 4 THEN None ELSE L[First(onRole)].role
    <3>1. p.config.role = Section(L[3].role, Section(L[2].role, L[1].role))
      BY <2>4 DEF Layered
    <3>. QED
      BY <3>1, FirstSays
  <2>7. /\ First(on) # 4 => p.config.provisioner[t] = L[First(on)].provisioner[t]
                            /\ p.config.provisioner[t] # None
        /\ First(on) = 4 => p.config.provisioner[t] = None
    <3>1. p.config.provisioner[t]
            = Section(ToolIn(L[3], t), Section(ToolIn(L[2], t), ToolIn(L[1], t)))
      BY <2>3, <2>4 DEF Layered, ToolIn
    <3>2. \A k \in 1..3 : /\ k \in on <=> ToolIn(L[k], t) # None
                          /\ k \in on => ToolIn(L[k], t) = L[k].provisioner[t]
      BY DEF ToolIn
    <3>3. on \in SUBSET (1..3)
      OBVIOUS
    <3>. HIDE DEF on, p
    <3>4. First(on) # 4 => First(on) \in on
      BY <3>3, FirstIs
    <3>. QED
      BY <3>1, <3>2, <3>3, <3>4, FirstSays
  <2>8. p.names = names
    <3>1. First(onRole) # 4 => L[First(onRole)].role # None
      <4>1. onRole \in SUBSET (1..3)
        OBVIOUS
      <4>2. First(onRole) # 4 => First(onRole) \in onRole
        BY <4>1, FirstIs
      <4>. QED
        BY <4>2
    <3>. HIDE DEF onRole
    <3>. QED
      BY <2>3, <2>6, <3>1 DEF NamesFor, Cmd
  <2>9. p.tools[t] = IF p.config.provisioner[t] # None THEN p.config.provisioner[t] ELSE given[t]
    <3>1. p.tools = MergeTools(given, p.config.provisioner)
      BY <2>2 DEF Given
    <3>2. given # None
      <4>1. given \in [Tools -> Origins \cup {None}]
        BY <2>1, ProjectToolsTyped DEF NoTools, ToolMaps
      <4>. HIDE DEF given
      <4>. QED
        BY <4>1, ProjectToolsTyped
    <3>. HIDE DEF given, p
    <3>. QED
      BY <2>3, <3>1, <3>2 DEF MergeTools
  <2>10. given[t] = IF First(onRoles) = 4 \/ p.res.outcome # "ok" THEN None
                    ELSE Giver(L[First(onRoles)].roles, names, t)
    <3>1. CASE p.res.outcome # "ok"
      BY <3>1 DEF NoTools
    <3>2. CASE p.res.outcome = "ok"
      <4>1. /\ p.config.roles # None /\ p.config.roles \in RoleDefs
            /\ LastGives(p.config.roles, p.names, Len(p.names), MaxDepth, p.res.tools)
        BY <2>2, <3>2 DEF Given
      <4>2. p.res.tools[t] = Giver(p.config.roles, p.names, t)
        BY <2>1, <4>1, GivesGiver
      <4>. HIDE DEF names, onRoles
      <4>. QED
        BY <2>5, <2>8, <3>2, <4>1, <4>2
    <3>. QED
      BY <3>1, <3>2
  <2>. HIDE DEF p, on, onRoles, onRole, given, names
  <2>11. p.tools[t] = IF First(on) # 4 THEN L[First(on)].provisioner[t]
                      ELSE IF First(onRoles) = 4 \/ p.res.outcome # "ok" THEN None
                      ELSE Giver(L[First(onRoles)].roles, names, t)
    BY <2>7, <2>9, <2>10
  <2>. QED
    BY <2>11 DEF p, on, onRoles, onRole, names, L
<1>. QED
  BY <1>1, Invariance, EveryToolTraced, PTL
==============================================================================
