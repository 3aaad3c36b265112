--------------------------- MODULE ToolOrder_proofs ---------------------------
(* Theorems about ToolOrder for every inventory, every input list and every  *)
(* iteration order of the hash maps: the order is right, nothing is lost,    *)
(* and the length test detects exactly the cyclic inputs.                    *)
EXTENDS ToolOrder, FiniteSetTheorems, TLAPS

------------------------------------------------------------------------------
(* Sequences and their names.                                                *)

LEMMA AppendNames ==
  ASSUME NEW S, NEW s \in Seq(S), NEW x \in S
  PROVE  Names(Append(s, x)) = Names(s) \cup {x}
<1>1. /\ Len(s) \in Nat /\ DOMAIN s = 1..Len(s) /\ DOMAIN Append(s, x) = 1..(Len(s) + 1)
      /\ \A i \in 1..Len(s) : Append(s, x)[i] = s[i]
      /\ Append(s, x)[Len(s) + 1] = x
  OBVIOUS
<1>2. ASSUME NEW i \in DOMAIN Append(s, x) PROVE Append(s, x)[i] \in Names(s) \cup {x}
  BY <1>1 DEF Names
<1>3. ASSUME NEW i \in DOMAIN s PROVE s[i] \in Names(Append(s, x))
  BY <1>1 DEF Names
<1>4. x \in Names(Append(s, x))
  <2>1. Len(s) + 1 \in DOMAIN Append(s, x)
    BY <1>1
  <2> QED
    BY <1>1, <2>1 DEF Names
<1> QED
  BY <1>2, <1>3, <1>4 DEF Names

LEMMA AppendNoRepeats ==
  ASSUME NEW S, NEW s \in Seq(S), NEW x \in S, NoRepeats(s), x \notin Names(s)
  PROVE  NoRepeats(Append(s, x))
BY DEF Names, NoRepeats

LEMMA HeadTail ==
  ASSUME NEW S, NEW s \in Seq(S), s # <<>>
  PROVE  /\ Head(s) \in S /\ Tail(s) \in Seq(S)
         /\ Names(s) = Names(Tail(s)) \cup {Head(s)}
         /\ NoRepeats(s) => NoRepeats(Tail(s)) /\ Head(s) \notin Names(Tail(s))
<1>1. Head(s) \in S /\ Tail(s) \in Seq(S) /\ Head(s) = s[1] /\ Len(s) \in Nat /\ Len(s) # 0
  OBVIOUS
<1>2. /\ DOMAIN Tail(s) = 1..(Len(s) - 1) /\ DOMAIN s = 1..Len(s)
      /\ \A i \in 1..(Len(s) - 1) : Tail(s)[i] = s[i + 1]
  BY <1>1
<1>3. Names(s) = Names(Tail(s)) \cup {Head(s)}
  <2>1. ASSUME NEW i \in DOMAIN s PROVE s[i] \in Names(Tail(s)) \cup {Head(s)}
    <3>1. CASE i = 1
      BY <3>1, <1>1
    <3>2. CASE i # 1
      <4>1. i - 1 \in DOMAIN Tail(s) /\ Tail(s)[i - 1] = s[i]
        BY <1>1, <1>2, <3>2
      <4> QED
        BY <4>1 DEF Names
    <3> QED
      BY <3>1, <3>2
  <2>2. ASSUME NEW i \in DOMAIN Tail(s) PROVE Tail(s)[i] \in Names(s)
    <3>1. i + 1 \in DOMAIN s /\ Tail(s)[i] = s[i + 1]
      BY <1>1, <1>2
    <3> QED
      BY <3>1 DEF Names
  <2>3. Head(s) \in Names(s)
    BY <1>1, <1>2 DEF Names
  <2> QED
    BY <2>1, <2>2, <2>3 DEF Names
<1>4. ASSUME NoRepeats(s) PROVE NoRepeats(Tail(s)) /\ Head(s) \notin Names(Tail(s))
  BY <1>1, <1>2, <1>4 DEF NoRepeats, Names
<1> QED
  BY <1>1, <1>3, <1>4

(* A sequence without repeats is as long as the set of its names is large.   *)
LEMMA LengthIsCardinality ==
  ASSUME NEW S, NEW s \in Seq(S), NoRepeats(s)
  PROVE  /\ IsFiniteSet(Names(s)) /\ Cardinality(Names(s)) = Len(s)
<1>1. s \in Bijection(1..Len(s), Names(s))
  BY DEF Bijection, Injection, Surjection, IsInjective, Names, NoRepeats
<1>2. ExistsBijection(1..Len(s), Names(s)) /\ Len(s) \in Nat
  BY <1>1 DEF ExistsBijection
<1> QED
  BY <1>2, FS_CountingElements, FS_NatBijection

LEMMA NamesFinite ==
  ASSUME NEW S, NEW s \in Seq(S)
  PROVE  IsFiniteSet(Names(s))
<1>1. s \in Surjection(1..Len(s), Names(s)) /\ Len(s) \in Nat
  BY DEF Surjection, Names
<1> QED
  BY <1>1, FS_NatSurjection DEF ExistsSurjection

(* Every non-empty set of naturals has a least element.                      *)
LEMMA LeastNatural ==
  ASSUME NEW I \in SUBSET Nat, I # {}
  PROVE  \E m \in I : \A k \in I : m <= k
<1> DEFINE below(m) == 1..m
           R == StrictSubsetOrdering(Nat)
           T == {below(m) : m \in I}
<1>1. T \subseteq FiniteSubsetsOf(Nat)
  <2>1. \A m \in I : IsFiniteSet(below(m))
    BY FS_Interval
  <2> QED
    BY <2>1 DEF FiniteSubsetsOf
<1>2. IsWellFoundedOn(R, FiniteSubsetsOf(Nat))
  BY FS_StrictSubsetOrderingWellFounded
<1>3. PICK x \in T : \A y \in T : ~ (<<y, x>> \in R)
  <2>1. T # {}
    OBVIOUS
  <2> HIDE DEF T, R
  <2> QED
    BY <1>1, <1>2, <2>1, WFMin
<1>4. PICK m \in I : x = below(m)
  BY <1>3
<1>5. ASSUME NEW k \in I, k < m PROVE FALSE
  <2>1. below(k) \in T
    OBVIOUS
  <2>2. /\ below(k) \subseteq below(m) /\ below(k) # below(m)
        /\ below(k) \in SUBSET Nat /\ below(m) \in SUBSET Nat
    BY <1>5
  <2>3. <<below(k), below(m)>> \in R
    BY <2>2 DEF StrictSubsetOrdering
  <2> QED
    BY <1>3, <1>4, <2>1, <2>3
<1> QED
  BY <1>5

------------------------------------------------------------------------------
(* What the constants give.                                                  *)

LEMMA InputFacts ==
  ASSUME tool_list \in Lists
  PROVE  /\ tool_list \in Seq(Tools) /\ tool_list \in Seq(tool_set)
         /\ tool_set \subseteq Tools /\ IsFiniteSet(tool_set) /\ None \notin tool_set
<1>1. tool_list \in Seq(Tools)
  BY ListsTyped
<1>2. tool_set \subseteq Tools /\ tool_list \in Seq(tool_set)
  BY <1>1 DEF tool_set, Names
<1>3. IsFiniteSet(tool_set)
  BY <1>1, NamesFinite DEF tool_set
<1> QED
  BY <1>1, <1>2, <1>3, ToolsFinite

LEMMA DepsInside == \A t : Deps(t) \subseteq tool_set
BY DEF Deps, DepsIn, FirstIn

------------------------------------------------------------------------------
(* Type correctness.                                                         *)

LEMMA TypeInit == Init => TypeOK
<1> SUFFICES ASSUME Init PROVE TypeOK
  OBVIOUS
<1>1. IsFiniteSet(tool_set) /\ None \notin tool_set
  BY InputFacts DEF Init
<1>2. \A t \in tool_set : Cardinality(Deps(t)) \in Nat
  BY <1>1, DepsInside, FS_Subset, FS_CardinalityType
<1>3. in_degree \in [tool_set -> Nat]
  BY <1>2 DEF Init
<1>4. dependents \in [tool_set -> SUBSET tool_set]
  BY DEF Init, DependentsOf
<1>5. queue \in Seq(tool_set)
  <2>1. IsFiniteSet(Ready) /\ Cardinality(Ready) \in Nat
    BY <1>1, FS_Subset, FS_CardinalityType DEF Ready
  <2>2. queue \in [1..Cardinality(Ready) -> Ready] /\ Ready \subseteq tool_set
    BY DEF Init, IterationOrders, Ready
  <2> QED
    BY <2>1, <2>2
<1>6. result \in Seq(tool_set) /\ returned \in Seq(Seq(tool_set)) /\ todo \in SUBSET tool_set
  BY DEF Init
<1>7. /\ registry \in Registries /\ tool_list \in Lists /\ current = None /\ todo = {}
      /\ warned \in BOOLEAN
  BY DEF Init
<1> QED
  BY <1>3, <1>4, <1>5, <1>6, <1>7 DEF TypeOK

LEMMA TypeStep == TypeOK /\ [Next]_vars => TypeOK'
<1> SUFFICES ASSUME TypeOK, [Next]_vars PROVE TypeOK'
  OBVIOUS
<1> USE DEF TypeOK
<1>0. None \notin tool_set /\ tool_list \in Seq(tool_set)
  BY InputFacts
<1>1. CASE PopFront
  <2>1. Head(queue) \in tool_set /\ Tail(queue) \in Seq(tool_set)
    BY <1>1, HeadTail DEF PopFront
  <2>2. tool_set' = tool_set
    BY <1>1 DEF PopFront, tool_set
  <2> QED
    BY <1>0, <1>1, <2>1, <2>2 DEF PopFront
<1>2. ASSUME NEW t \in Tools, Release(t) PROVE TypeOK'
  <2>1. tool_set' = tool_set /\ t \in tool_set
    BY <1>2 DEF Release, tool_set
  <2>2. in_degree' \in [tool_set -> Nat]
    BY <1>2, <2>1 DEF Release
  <2>3. queue' \in Seq(tool_set)
    BY <1>2, <2>1 DEF Release
  <2> QED
    BY <1>2, <2>1, <2>2, <2>3 DEF Release
<1>3. CASE Emit
  <2>1. tool_set' = tool_set /\ current \in tool_set
    BY <1>3 DEF Emit, tool_set
  <2> QED
    BY <1>3, <2>1 DEF Emit
<1>4. CASE Return
  <2>1. tool_set' = tool_set
    BY <1>4 DEF Return, tool_set
  <2>2. returned' \in Seq(Seq(tool_set))
    BY <1>0, <1>4 DEF Return
  <2> QED
    BY <1>4, <2>1, <2>2 DEF Return
<1>5. CASE UNCHANGED vars
  BY <1>5 DEF vars, tool_set
<1> QED
  BY <1>1, <1>2, <1>3, <1>4, <1>5 DEF Next

(* The worklist, the counters and the returned list keep their types: in     *)
(* particular no counter is ever decremented below zero into a wrap-around.  *)
THEOREM TypeCorrect == Spec => []TypeOK
<1> QED
  BY TypeInit, TypeStep, PTL DEF Spec

------------------------------------------------------------------------------
(* The inductive invariant.                                                  *)

LEMMA InvInit == Init => Inv
<1> SUFFICES ASSUME Init PROVE Inv
  OBVIOUS
<1>0. TypeOK /\ None \notin tool_set /\ IsFiniteSet(tool_set)
  BY TypeInit, InputFacts DEF TypeOK
<1>1. Popped = {}
  BY DEF Init, Popped, Names
<1>2. \A t \in tool_set : Waiting(t) = Deps(t)
  BY DepsInside DEF Init, Waiting, DependentsOf
<1>3. CountersExact
  BY <1>2 DEF Init, CountersExact
<1>4. Names(queue) = Ready /\ NoRepeats(queue)
  BY DEF Init, IterationOrders
<1>5. QueueHoldsTheReady
  BY <1>1, <1>2, <1>4 DEF QueueHoldsTheReady, Ready
<1>6. Distinct /\ DepsPlaced /\ CurrentReady
  BY <1>4 DEF Init, Distinct, NoRepeats, Names, DepsPlaced, CurrentReady
<1>7. EdgesUntilPopped
  BY <1>1 DEF Init, EdgesUntilPopped
<1>8. ReturnDecided
  BY DEF Init, ReturnDecided
<1> QED
  BY <1>0, <1>3, <1>5, <1>6, <1>7, <1>8 DEF Inv

LEMMA PoppedInside == TypeOK => Popped \subseteq tool_set
<1> SUFFICES ASSUME TypeOK PROVE Popped \subseteq tool_set
  OBVIOUS
<1>1. Names(result) \subseteq tool_set
  BY DEF TypeOK, Names
<1> QED
  BY <1>1 DEF TypeOK, Popped

LEMMA InvPopFront == Inv /\ PopFront => Inv'
<1> SUFFICES ASSUME Inv, PopFront PROVE Inv'
  OBVIOUS
<1> DEFINE h == Head(queue)
<1>0. TypeOK /\ TypeOK' /\ None \notin tool_set
  BY TypeStep, InputFacts DEF Next, Inv, TypeOK
<1>1. /\ registry' = registry /\ tool_list' = tool_list /\ tool_set' = tool_set
      /\ result' = result /\ in_degree' = in_degree /\ current' = h /\ current = None
      /\ todo = {} /\ todo' = dependents[h] /\ queue' = Tail(queue)
      /\ dependents' = [dependents EXCEPT ![h] = {}]
  BY <1>0 DEF PopFront, tool_set, TypeOK
<1>2. /\ h \in tool_set /\ h # None
      /\ Names(queue) = Names(queue') \cup {h}
      /\ NoRepeats(queue') /\ h \notin Names(queue')
  <2>1. queue \in Seq(tool_set) /\ queue # <<>> /\ NoRepeats(queue)
    BY <1>0 DEF PopFront, TypeOK, Inv, Distinct
  <2> QED
    BY <1>0, <1>1, <2>1, HeadTail
<1>3. Waiting(h) = {} /\ h \notin Popped
  BY <1>2 DEF Inv, QueueHoldsTheReady
<1>4. Popped' = Popped \cup {h} /\ Popped = Names(result)
  BY <1>1, <1>2 DEF Popped
<1>5. \A t \in tool_set : Waiting(t)' = Waiting(t)
  <2> SUFFICES ASSUME NEW t \in tool_set PROVE Waiting(t)' = Waiting(t)
    OBVIOUS
  <2>1. Waiting(t) = {d \in tool_set : t \in dependents[d]}
    BY <1>1 DEF Waiting
  <2>2. Waiting(t)' = {d \in tool_set : t \in dependents'[d]}
                         \cup (IF t \in dependents[h] THEN {h} ELSE {})
    BY <1>1 DEF Waiting
  <2>3. \A d \in tool_set : dependents'[d] = IF d = h THEN {} ELSE dependents[d]
    BY <1>0, <1>1 DEF TypeOK
  <2> QED
    BY <1>2, <2>1, <2>2, <2>3
<1>6. CountersExact'
  BY <1>1, <1>5 DEF Inv, CountersExact
<1>7. QueueHoldsTheReady'
  <2>1. \A t \in tool_set : (Waiting(t) = {} /\ t \notin Popped) <=> t \in Names(queue)
    BY DEF Inv, QueueHoldsTheReady
  <2>2. \A t \in Popped : t \in tool_set /\ Waiting(t) = {}
    BY <1>0, PoppedInside DEF Inv, QueueHoldsTheReady
  <2> QED
    BY <1>1, <1>2, <1>3, <1>4, <1>5, <2>1, <2>2 DEF QueueHoldsTheReady
<1>8. Distinct'
  BY <1>1, <1>2, <1>3, <1>4 DEF Inv, Distinct
<1>9. EdgesUntilPopped'
  <2> SUFFICES ASSUME NEW d \in tool_set
               PROVE  dependents'[d] = IF d \in Popped' THEN {} ELSE DependentsOf(d)'
    BY <1>1 DEF EdgesUntilPopped
  <2>1. DependentsOf(d)' = DependentsOf(d)
    BY <1>1 DEF DependentsOf, Deps
  <2>2. dependents'[d] = IF d = h THEN {} ELSE dependents[d]
    BY <1>0, <1>1 DEF TypeOK
  <2> QED
    BY <1>4, <2>1, <2>2 DEF Inv, EdgesUntilPopped
<1>10. DepsPlaced'
  BY <1>1 DEF Inv, DepsPlaced, Deps
<1>11. CurrentReady'
  <2>1. Deps(h) \subseteq Names(result)
    <3> SUFFICES ASSUME NEW d \in Deps(h), d \notin Popped PROVE FALSE
      BY <1>4
    <3>1. d \in tool_set /\ h \in DependentsOf(d)
      BY <1>2, DepsInside DEF DependentsOf
    <3>2. h \in dependents[d]
      BY <3>1 DEF Inv, EdgesUntilPopped
    <3> QED
      BY <1>3, <3>1, <3>2 DEF Waiting
  <2>2. todo' = DependentsOf(h)
    BY <1>1, <1>2, <1>3 DEF Inv, EdgesUntilPopped
  <2>3. Deps(current)' = Deps(h) /\ DependentsOf(current)' = DependentsOf(h)
    BY <1>1 DEF DependentsOf, Deps
  <2> QED
    BY <1>1, <2>1, <2>2, <2>3 DEF CurrentReady
<1>12. ReturnDecided'
  BY DEF Inv, ReturnDecided, PopFront
<1> QED
  BY <1>0, <1>6, <1>7, <1>8, <1>9, <1>10, <1>11, <1>12 DEF Inv

LEMMA InvRelease ==
  ASSUME NEW t \in Tools, Inv, Release(t)
  PROVE  Inv'
<1>0. TypeOK /\ TypeOK' /\ None \notin tool_set /\ IsFiniteSet(tool_set)
  BY TypeStep, InputFacts DEF Next, Inv, TypeOK
<1>1. /\ registry' = registry /\ tool_list' = tool_list /\ tool_set' = tool_set
      /\ result' = result /\ current' = current /\ dependents' = dependents
      /\ Popped' = Popped /\ returned' = returned /\ warned' = warned
      /\ t \in todo /\ todo' = todo \ {t}
  BY DEF Release, tool_set, Popped
<1>2. /\ t \in tool_set /\ current \in tool_set /\ current # None /\ current \in Popped
      /\ current \in Waiting(t)
  BY <1>0, <1>1 DEF TypeOK, Popped, Waiting
<1>3. current \notin {d \in tool_set : t \in dependents[d]}
  BY <1>2 DEF Inv, EdgesUntilPopped
<1>4. t \notin Popped /\ t \notin Names(queue)
  BY <1>2 DEF Inv, QueueHoldsTheReady
<1>5. Waiting(t)' = Waiting(t) \ {current}
  BY <1>1, <1>3 DEF Waiting
<1>6. \A u \in tool_set : u # t => Waiting(u)' = Waiting(u)
  BY <1>1 DEF Waiting
<1>7. in_degree[t] = Cardinality(Waiting(t)) /\ in_degree \in [tool_set -> Nat]
  BY <1>0, <1>2 DEF Inv, CountersExact, TypeOK
<1>8. /\ Cardinality(Waiting(t)') = in_degree[t] - 1 /\ in_degree[t] # 0
      /\ Cardinality(Waiting(t)') = 0 <=> Waiting(t)' = {}
  <2>1. Waiting(t) \subseteq tool_set
    BY <1>2 DEF Waiting
  <2>2. IsFiniteSet(Waiting(t)) /\ IsFiniteSet(Waiting(t)')
    BY <1>0, <1>5, <2>1, FS_Subset, FS_RemoveElement
  <2>3. Cardinality(Waiting(t)') = in_degree[t] - 1
    BY <1>2, <1>5, <1>7, <2>2, FS_RemoveElement
  <2>4. Cardinality(Waiting(t)) # 0 /\ (Cardinality(Waiting(t)') = 0 <=> Waiting(t)' = {})
    BY <1>2, <2>2, FS_EmptySet
  <2> QED
    BY <1>7, <2>3, <2>4
<1>9. in_degree' = [in_degree EXCEPT ![t] = in_degree[t] - 1]
  BY <1>7, <1>8 DEF Release
<1>10. CountersExact'
  <2> SUFFICES ASSUME NEW u \in tool_set PROVE in_degree'[u] = Cardinality(Waiting(u)')
    BY <1>1 DEF CountersExact
  <2>1. CASE u = t
    BY <1>2, <1>7, <1>8, <1>9, <2>1
  <2>2. CASE u # t
    BY <1>6, <1>7, <1>9, <2>2 DEF Inv, CountersExact
  <2> QED
    BY <2>1, <2>2
<1>11. /\ queue' = IF Waiting(t)' = {} THEN Append(queue, t) ELSE queue
       /\ queue \in Seq(tool_set)
  <2>1. in_degree'[t] = in_degree[t] - 1
    BY <1>2, <1>7, <1>9
  <2> QED
    BY <1>0, <1>8, <2>1 DEF Release, TypeOK
<1>12. QueueHoldsTheReady'
  <2>1. Names(queue') = IF Waiting(t)' = {} THEN Names(queue) \cup {t} ELSE Names(queue)
    <3>1. Names(Append(queue, t)) = Names(queue) \cup {t}
      BY <1>2, <1>11, AppendNames
    <3> QED
      BY <1>11, <3>1
  <2>2. \A u \in tool_set : (Waiting(u)' = {} /\ u \notin Popped) <=> u \in Names(queue')
    BY <1>4, <1>6, <2>1 DEF Inv, QueueHoldsTheReady
  <2>3. \A u \in Popped : Waiting(u)' = {}
    BY <1>0, <1>4, <1>6, PoppedInside DEF Inv, QueueHoldsTheReady
  <2> QED
    BY <1>1, <2>2, <2>3 DEF QueueHoldsTheReady
<1>13. Distinct'
  BY <1>1, <1>2, <1>4, <1>11, AppendNoRepeats DEF Inv, Distinct
<1>14. EdgesUntilPopped' /\ DepsPlaced' /\ CurrentReady'
  <2>1. EdgesUntilPopped'
    BY <1>1 DEF Inv, EdgesUntilPopped, DependentsOf, Deps
  <2>2. DepsPlaced'
    BY <1>1 DEF Inv, DepsPlaced, Deps
  <2>3. CurrentReady'
    BY <1>1 DEF Inv, CurrentReady, DependentsOf, Deps
  <2> QED
    BY <2>1, <2>2, <2>3
<1>15. ReturnDecided'
  BY <1>1, <1>2 DEF Inv, ReturnDecided
<1> QED
  BY <1>0, <1>10, <1>12, <1>13, <1>14, <1>15 DEF Inv

LEMMA InvEmit == Inv /\ Emit => Inv'
<1> SUFFICES ASSUME Inv, Emit PROVE Inv'
  OBVIOUS
<1>0. TypeOK /\ TypeOK' /\ None \notin tool_set
  BY TypeStep, InputFacts DEF Next, Inv, TypeOK
<1>1. /\ registry' = registry /\ tool_list' = tool_list /\ tool_set' = tool_set
      /\ result' = Append(result, current) /\ current' = None /\ dependents' = dependents
      /\ queue' = queue /\ in_degree' = in_degree /\ todo' = {} /\ todo = {}
      /\ returned' = returned /\ warned' = warned
      /\ current # None /\ current \in tool_set /\ result \in Seq(tool_set)
  BY <1>0 DEF Emit, tool_set, TypeOK
<1>2. Names(result') = Names(result) \cup {current}
  BY <1>1, AppendNames
<1>3. Popped' = Popped
  BY <1>1, <1>2 DEF Popped
<1>4. \A u \in tool_set : Waiting(u)' = Waiting(u)
  BY <1>1 DEF Waiting
<1>5. CountersExact'
  BY <1>1, <1>4 DEF Inv, CountersExact
<1>6. QueueHoldsTheReady'
  BY <1>0, <1>1, <1>3, <1>4, PoppedInside DEF Inv, QueueHoldsTheReady
<1>7. Distinct'
  <2>1. NoRepeats(result')
    BY <1>1, AppendNoRepeats DEF Inv, Distinct
  <2>2. None \notin Names(result')
    BY <1>0, <1>3, PoppedInside, <1>2, <1>1 DEF Popped
  <2> QED
    BY <1>1, <2>1, <2>2 DEF Inv, Distinct
<1>8. EdgesUntilPopped'
  BY <1>1, <1>3 DEF Inv, EdgesUntilPopped, DependentsOf, Deps
<1>9. DepsPlaced'
  <2> SUFFICES ASSUME NEW i \in DOMAIN result'
               PROVE  Deps(result'[i]) \subseteq {result'[j] : j \in 1..(i - 1)}
    BY <1>1 DEF DepsPlaced, Deps
  <2>1. /\ Len(result) \in Nat /\ DOMAIN result = 1..Len(result) /\ i \in 1..(Len(result) + 1)
        /\ \A j \in 1..Len(result) : result'[j] = result[j]
        /\ result'[Len(result) + 1] = current
    BY <1>1
  <2>2. CASE i = Len(result) + 1
    <3>1. Deps(current) \subseteq Names(result)
      BY <1>1 DEF Inv, CurrentReady
    <3>2. Names(result) \subseteq {result'[j] : j \in 1..(i - 1)}
      BY <2>1, <2>2 DEF Names
    <3> QED
      BY <2>1, <2>2, <3>1, <3>2
  <2>3. CASE i # Len(result) + 1
    <3>1. i \in DOMAIN result /\ result'[i] = result[i]
      BY <2>1, <2>3
    <3>2. Deps(result[i]) \subseteq {result[j] : j \in 1..(i - 1)}
      BY <3>1 DEF Inv, DepsPlaced
    <3>3. {result[j] : j \in 1..(i - 1)} \subseteq {result'[j] : j \in 1..(i - 1)}
      BY <2>1, <2>3
    <3> QED
      BY <3>1, <3>2, <3>3
  <2> QED
    BY <2>2, <2>3
<1>10. CurrentReady'
  BY <1>1 DEF CurrentReady
<1>11. ReturnDecided'
  BY <1>1 DEF Inv, ReturnDecided
<1> QED
  BY <1>0, <1>5, <1>6, <1>7, <1>8, <1>9, <1>10, <1>11 DEF Inv

LEMMA InvReturn == Inv /\ Return => Inv'
<1> SUFFICES ASSUME Inv, Return PROVE Inv'
  OBVIOUS
<1>0. TypeOK /\ TypeOK'
  BY TypeStep DEF Next, Inv
<1>1. /\ registry' = registry /\ tool_list' = tool_list /\ tool_set' = tool_set
      /\ result' = result /\ current' = current /\ dependents' = dependents
      /\ queue' = queue /\ in_degree' = in_degree /\ todo' = todo /\ Popped' = Popped
  BY DEF Return, tool_set, Popped
<1>2. \A u : Waiting(u)' = Waiting(u) /\ Deps(u)' = Deps(u) /\ DependentsOf(u)' = DependentsOf(u)
  BY <1>1 DEF Waiting, DependentsOf, Deps
<1>3. CountersExact' /\ QueueHoldsTheReady' /\ Distinct' /\ EdgesUntilPopped' /\ DepsPlaced'
  BY <1>1, <1>2 DEF Inv, CountersExact, QueueHoldsTheReady, Distinct, EdgesUntilPopped, DepsPlaced
<1>4. CurrentReady'
  BY <1>1 DEF Return, CurrentReady
<1>5. ReturnDecided'
  BY <1>1 DEF Return, ReturnDecided
<1> QED
  BY <1>0, <1>3, <1>4, <1>5 DEF Inv

LEMMA InvStutter == Inv /\ UNCHANGED vars => Inv'
<1> SUFFICES ASSUME Inv, UNCHANGED vars PROVE Inv'
  OBVIOUS
<1> QED
  BY DEF Inv, vars, TypeOK, CountersExact, QueueHoldsTheReady, Distinct, EdgesUntilPopped,
         DepsPlaced, CurrentReady, ReturnDecided, Waiting, Popped, DependentsOf, Deps, tool_set

THEOREM Invariance == Spec => []Inv
<1>1. Inv /\ [Next]_vars => Inv'
  BY InvPopFront, InvRelease, InvEmit, InvReturn, InvStutter DEF Next
<1> QED
  BY InvInit, <1>1, PTL DEF Spec

------------------------------------------------------------------------------
(* What the sort guarantees.                                                 *)

(* The order never places a tool before a dependency of it that is being     *)
(* installed too, strict or flexible (spec.rs:1800-1806).                    *)
THEOREM OrderRespectsDependencies == Spec => []DependenciesFirst
<1>1. Inv => DependenciesFirst
  <2> SUFFICES ASSUME Inv, NEW i \in DOMAIN result
               PROVE  LET before == {result[j] : j \in 1..(i - 1)}
                          wanted == Names(registry.depends_on_one_of[result[i]]) \cap tool_set
                      IN  /\ StrictDeps(registry, result[i]) \cap tool_set \subseteq before
                          /\ wanted # {} => wanted \cap before # {}
    BY DEF DependenciesFirst, InDependencyOrder
  <2> DEFINE before == {result[j] : j \in 1..(i - 1)}
             oneOf == registry.depends_on_one_of[result[i]]
  <2>1. Deps(result[i]) \subseteq before
    BY DEF Inv, DepsPlaced
  <2>2. StrictDeps(registry, result[i]) \cap tool_set \subseteq before
    BY <2>1 DEF Deps, DepsIn
  <2>3. FirstIn(oneOf, tool_set) \subseteq before
    BY <2>1 DEF Deps, DepsIn
  <2>4. ASSUME Names(oneOf) \cap tool_set # {}
        PROVE  Names(oneOf) \cap tool_set \cap before # {}
    <3>1. oneOf \in Seq(Tools)
      <4>1. result[i] \in tool_set /\ registry \in Registries /\ tool_list \in Lists
        BY DEF Inv, TypeOK
      <4>2. result[i] \in Tools
        BY <4>1, InputFacts
      <4> QED
        BY <4>1, <4>2, RegistriesTyped DEF Inventories
    <3>2. DOMAIN oneOf \subseteq Nat
      BY <3>1
    <3> DEFINE I == {k \in DOMAIN oneOf : oneOf[k] \in tool_set}
    <3>3. PICK m \in I : \A k \in I : m <= k
      <4>1. I \in SUBSET Nat /\ I # {}
        BY <3>2, <2>4 DEF Names
      <4> HIDE DEF I
      <4> QED
        BY <4>1, LeastNatural
    <3>4. \A j \in 1..(m - 1) : oneOf[j] \notin tool_set
      BY <3>1, <3>3
    <3>5. oneOf[m] \in FirstIn(oneOf, tool_set)
      BY <3>3, <3>4 DEF FirstIn
    <3>6. oneOf[m] \in Names(oneOf) \cap tool_set
      BY <3>3 DEF Names
    <3> QED
      BY <2>3, <3>5, <3>6
  <2> QED
    BY <2>2, <2>4
<1> QED
  BY <1>1, Invariance, PTL

(* If the list names no tool twice, "Circular dependency detected" is        *)
(* printed exactly when some of the tools wait for each other.               *)
THEOREM WarningIsExact == Spec => []WarnsExactlyOnCycle
<1>1. Inv => WarnsExactlyOnCycle
  <2> SUFFICES ASSUME Inv, returned # <<>>, NoRepeats(tool_list)
               PROVE  warned <=> HasCycle(registry, tool_set)
    BY DEF WarnsExactlyOnCycle
  <2>1. /\ queue = <<>> /\ current = None /\ todo = {}
        /\ warned = (Len(result) # Len(tool_list))
    BY DEF Inv, ReturnDecided, TypeOK
  <2>2. /\ Popped = Names(result) /\ Names(queue) = {}
    BY <2>1 DEF Popped, Names, Inv, Distinct
  <2>3. /\ tool_list \in Seq(tool_set) /\ result \in Seq(tool_set)
        /\ IsFiniteSet(tool_set)
    BY InputFacts DEF Inv, TypeOK
  <2>4. /\ Cardinality(tool_set) = Len(tool_list)
        /\ Cardinality(Names(result)) = Len(result)
        /\ Names(result) \subseteq tool_set
    BY <2>2, <2>3, LengthIsCardinality, PoppedInside DEF Inv, Distinct, tool_set
  <2>5. warned <=> Names(result) # tool_set
    BY <2>1, <2>3, <2>4, FS_Subset
  <2>6. ASSUME Names(result) # tool_set PROVE HasCycle(registry, tool_set)
    <3> DEFINE U == tool_set \ Names(result)
    <3>1. U # {} /\ U \in SUBSET tool_set
      BY <2>4, <2>6
    <3>2. ASSUME NEW t \in U PROVE Deps(t) \cap U # {}
      <4>1. Waiting(t) # {}
        BY <2>2 DEF Inv, QueueHoldsTheReady
      <4>2. PICK d \in tool_set : t \in dependents[d]
        BY <2>1, <4>1 DEF Waiting
      <4>3. d \notin Popped /\ t \in DependentsOf(d)
        BY <4>2 DEF Inv, EdgesUntilPopped
      <4> QED
        BY <2>2, <4>3 DEF DependentsOf
    <3> QED
      BY <3>1, <3>2 DEF HasCycle, IsKnot, Deps
  <2>7. ASSUME Names(result) = tool_set PROVE ~ HasCycle(registry, tool_set)
    <3> SUFFICES ASSUME NEW U \in SUBSET tool_set, U # {},
                        \A t \in U : Deps(t) \cap U # {}
                 PROVE  FALSE
      BY DEF HasCycle, IsKnot, Deps
    <3> DEFINE I == {k \in DOMAIN result : result[k] \in U}
    <3>1. I \in SUBSET Nat /\ I # {}
      BY <2>3, <2>7 DEF Names
    <3>2. PICK m \in I : \A k \in I : m <= k
      <4> HIDE DEF I
      <4> QED
        BY <3>1, LeastNatural
    <3>3. PICK d \in Deps(result[m]) : d \in U
      OBVIOUS
    <3>4. PICK j \in 1..(m - 1) : result[j] = d
      BY <3>3 DEF Inv, DepsPlaced
    <3>5. j \in I /\ j < m
      BY <2>3, <3>3, <3>4
    <3> QED
      BY <3>1, <3>2, <3>5
  <2> QED
    BY <2>5, <2>6, <2>7
<1> QED
  BY <1>1, Invariance, PTL

(* No tool is scheduled twice, and none that is out is still queued.         *)
THEOREM EveryToolOnce == Spec => []ScheduledOnce
<1>1. Inv => ScheduledOnce
  <2> SUFFICES ASSUME Inv PROVE ScheduledOnce
    OBVIOUS
  <2> DEFINE both == result \o queue
  <2>1. result \in Seq(tool_set) /\ queue \in Seq(tool_set)
    BY DEF Inv, TypeOK
  <2>2. /\ Len(result) \in Nat /\ Len(queue) \in Nat
        /\ DOMAIN result = 1..Len(result) /\ DOMAIN queue = 1..Len(queue)
        /\ DOMAIN both = 1..(Len(result) + Len(queue))
        /\ \A i \in DOMAIN both : both[i] = IF i <= Len(result) THEN result[i]
                                                               ELSE queue[i - Len(result)]
    BY <2>1
  <2>3. \A x \in Names(queue) : x \notin Popped
    <3>1. Names(queue) \subseteq tool_set
      BY <2>1 DEF Names
    <3> QED
      BY <3>1 DEF Inv, QueueHoldsTheReady
  <2>4. NoRepeats(both)
    <3> SUFFICES ASSUME NEW i \in DOMAIN both, NEW j \in DOMAIN both, both[i] = both[j]
                 PROVE  i = j
      BY DEF NoRepeats
    <3>1. CASE i <= Len(result) /\ j <= Len(result)
      BY <2>2, <3>1 DEF Inv, Distinct, NoRepeats
    <3>2. CASE i > Len(result) /\ j > Len(result)
      <4>1. i - Len(result) = j - Len(result)
        <5>1. i - Len(result) \in DOMAIN queue /\ j - Len(result) \in DOMAIN queue
          BY <2>2, <3>2
        <5>2. queue[i - Len(result)] = queue[j - Len(result)]
          BY <2>2, <3>2
        <5> QED
          BY <5>1, <5>2 DEF Inv, Distinct, NoRepeats
      <4> QED
        BY <2>2, <4>1
    <3>3. ASSUME NEW k \in DOMAIN both, NEW l \in DOMAIN both,
                 k <= Len(result), l > Len(result), both[k] = both[l]
          PROVE  FALSE
      <4>1. both[k] \in Names(result)
        BY <2>2, <3>3 DEF Names
      <4>2. both[l] \in Names(queue)
        <5>1. l - Len(result) \in DOMAIN queue /\ both[l] = queue[l - Len(result)]
          BY <2>2, <3>3
        <5> QED
          BY <5>1 DEF Names
      <4> QED
        BY <2>3, <3>3, <4>1, <4>2 DEF Popped
    <3> QED
      BY <2>2, <3>1, <3>2, <3>3
  <2>5. ASSUME current # None PROVE current \notin Names(both)
    <3>1. Names(both) \subseteq Names(result) \cup Names(queue)
      <4> SUFFICES ASSUME NEW i \in DOMAIN both
                   PROVE  both[i] \in Names(result) \cup Names(queue)
        BY DEF Names
      <4>1. CASE i <= Len(result)
        BY <2>2, <4>1 DEF Names
      <4>2. CASE i > Len(result)
        <5>1. i - Len(result) \in DOMAIN queue /\ both[i] = queue[i - Len(result)]
          BY <2>2, <4>2
        <5> QED
          BY <5>1 DEF Names
      <4> QED
        BY <2>2, <4>1, <4>2
    <3>2. current \in Popped
      BY <2>5 DEF Popped
    <3> QED
      BY <2>3, <3>1, <3>2 DEF Inv, Distinct
  <2> QED
    BY <2>4, <2>5 DEF ScheduledOnce
<1> QED
  BY <1>1, Invariance, PTL

(* Whatever the outcome, the returned list schedules exactly the input.      *)
THEOREM SameTools == Spec => []NothingLostOrInvented
<1>1. Inv => NothingLostOrInvented
  <2> SUFFICES ASSUME Inv, returned # <<>>
               PROVE  Names(returned[1]) = tool_set /\ Len(returned[1]) = Len(tool_list)
    BY DEF NothingLostOrInvented
  <2>1. CASE warned
    <3>1. returned = <<tool_list>>
      BY <2>1 DEF Inv, ReturnDecided
    <3> QED
      BY <3>1 DEF tool_set
  <2>2. CASE ~ warned
    <3>1. returned = <<result>> /\ Len(result) = Len(tool_list)
      BY <2>2 DEF Inv, ReturnDecided
    <3>2. /\ result \in Seq(tool_set) /\ tool_list \in Seq(tool_set) /\ IsFiniteSet(tool_set)
          /\ NoRepeats(result)
      BY InputFacts DEF Inv, TypeOK, Distinct
    <3>3. Cardinality(Names(result)) = Len(tool_list)
      BY <3>1, <3>2, LengthIsCardinality
    <3>4. Cardinality(tool_set) <= Len(tool_list)
      <4>1. tool_list \in Surjection(1..Len(tool_list), tool_set) /\ Len(tool_list) \in Nat
        BY <3>2 DEF Surjection, tool_set, Names
      <4> QED
        BY <4>1, FS_SurjCardinalityBound DEF ExistsSurjection
    <3>5. Names(result) \in SUBSET tool_set
      BY <3>2 DEF Names
    <3>6. /\ Cardinality(Names(result)) <= Cardinality(tool_set)
          /\ Cardinality(tool_set) \in Nat /\ Len(tool_list) \in Nat
      BY <3>2, <3>5, FS_Subset, FS_CardinalityType
    <3>7. Cardinality(Names(result)) = Cardinality(tool_set)
      BY <3>3, <3>4, <3>6
    <3>8. Names(result) = tool_set
      BY <3>2, <3>5, <3>7, FS_Subset
    <3> QED
      BY <3>1, <3>8
  <2> QED
    BY <2>1, <2>2 DEF Inv, TypeOK
<1> QED
  BY <1>1, Invariance, PTL

(* What `jarvy doctor` and `jarvy diff` announce as "will be installed       *)
(* first" is what the sort does (spec.rs:1778-1787 against 1849-1861).       *)
THEOREM AnnouncementsHold == Spec => []AnnouncedFlexibleFirst
<1>1. Inv => AnnouncedFlexibleFirst
  <2> SUFFICES ASSUME Inv, NEW i \in DOMAIN result,
                      NEW installed \in SUBSET (Tools \ tool_set),
                      NEW E \in SUBSET installed,
                      DependencyStatus(registry, tool_set \cup E, installed, result[i])[1]
                          = "WillInstallFlexible"
               PROVE  DependencyStatus(registry, tool_set \cup E, installed, result[i])[2]
                          \cap {result[j] : j \in 1..(i - 1)} # {}
    BY DEF AnnouncedFlexibleFirst
  <2> DEFINE oneOf == registry.depends_on_one_of[result[i]]
             config == tool_set \cup E
             status == DependencyStatus(registry, config, installed, result[i])
  <2>1. /\ Names(oneOf) \cap installed = {} /\ Names(oneOf) \cap config # {}
        /\ status[2] = FirstIn(oneOf, config)
    BY DEF DependencyStatus
  <2>2. \A k \in DOMAIN oneOf : oneOf[k] \in config <=> oneOf[k] \in tool_set
    BY <2>1 DEF Names
  <2>3. DOMAIN oneOf \subseteq Nat /\ \A m \in DOMAIN oneOf : 1..(m - 1) \subseteq DOMAIN oneOf
    <3>1. result[i] \in tool_set /\ registry \in Registries /\ tool_list \in Lists
      BY DEF Inv, TypeOK
    <3>2. result[i] \in Tools
      BY <3>1, InputFacts
    <3>3. oneOf \in Seq(Tools)
      BY <3>1, <3>2, RegistriesTyped DEF Inventories
    <3> QED
      BY <3>3
  <2>4. FirstIn(oneOf, config) = FirstIn(oneOf, tool_set)
    BY <2>2, <2>3 DEF FirstIn
  <2>5. FirstIn(oneOf, config) # {}
    <3> DEFINE I == {k \in DOMAIN oneOf : oneOf[k] \in config}
    <3>1. I \in SUBSET Nat /\ I # {}
      BY <2>1, <2>3 DEF Names
    <3>2. PICK m \in I : \A k \in I : m <= k
      <4> HIDE DEF I
      <4> QED
        BY <3>1, LeastNatural
    <3>3. \A j \in 1..(m - 1) : oneOf[j] \notin config
      BY <2>3, <3>1, <3>2
    <3>4. oneOf[m] \in FirstIn(oneOf, config)
      BY <3>2, <3>3 DEF FirstIn
    <3> QED
      BY <3>4
  <2>6. FirstIn(oneOf, tool_set) \subseteq {result[j] : j \in 1..(i - 1)}
    BY DEF Inv, DepsPlaced, Deps, DepsIn
  <2> QED
    BY <2>1, <2>4, <2>5, <2>6
<1> QED
  BY <1>1, Invariance, PTL

(* What setup may rely on (the Plans of Setup): a list without repeats comes *)
(* back as some order of the same tools, in dependency order unless they     *)
(* wait for each other.                                                      *)
THEOREM ReturnsAPlan ==
  Spec => []((returned # <<>> /\ NoRepeats(tool_list)) =>
                returned[1] \in Plans(registry, tool_set))
<1>1. Inv /\ DependenciesFirst /\ WarnsExactlyOnCycle /\ NothingLostOrInvented =>
        ((returned # <<>> /\ NoRepeats(tool_list)) =>
            returned[1] \in Plans(registry, tool_set))
  <2> SUFFICES ASSUME Inv, DependenciesFirst, WarnsExactlyOnCycle, NothingLostOrInvented,
                      returned # <<>>, NoRepeats(tool_list)
               PROVE  returned[1] \in Plans(registry, tool_set)
    OBVIOUS
  <2>1. /\ tool_list \in Seq(tool_set) /\ result \in Seq(tool_set)
        /\ returned = IF warned THEN <<tool_list>> ELSE <<result>>
    BY InputFacts DEF Inv, TypeOK, ReturnDecided
  <2>2. Names(tool_list) = tool_set /\ Len(tool_list) = Cardinality(tool_set)
    BY <2>1, LengthIsCardinality DEF tool_set
  <2>3. /\ returned[1] \in Seq(tool_set)
        /\ Names(returned[1]) = tool_set /\ Len(returned[1]) = Cardinality(tool_set)
    BY <2>1, <2>2 DEF NothingLostOrInvented
  <2>4. returned[1] \in [1..Cardinality(tool_set) -> tool_set]
    BY <2>3
  <2>5. HasCycle(registry, tool_set) \/ InDependencyOrder(registry, tool_set, returned[1])
    <3>1. CASE warned
      BY <3>1 DEF WarnsExactlyOnCycle
    <3>2. CASE ~warned
      <4>1. returned[1] = result
        BY <2>1, <3>2
      <4> QED
        BY <4>1 DEF DependenciesFirst
    <3> QED
      BY <3>1, <3>2
  <2> QED
    BY <2>3, <2>4, <2>5 DEF Plans
<1> QED
  BY <1>1, Invariance, OrderRespectsDependencies, WarningIsExact, SameTools, PTL

==============================================================================
