----------------------------- MODULE Setup_proofs -----------------------------
(* Theorems about Setup for every registry, every config and settings, any   *)
(* number of runs and of threads: what a run tries, in which order, whose    *)
(* hooks it owes and what its baseline says.                                 *)
EXTENDS Setup, FiniteSetTheorems, TLAPS

------------------------------------------------------------------------------
(* Sequences and their names.                                                *)

LEMMA AppendNames ==
  ASSUME NEW S, NEW s \in Seq(S), NEW x \in S
  PROVE  Names(Append(s, x)) = Names(s) \cup {x}
<1>1. /\ Len(s) \in Nat /\ DOMAIN s = 1..Len(s) /\ DOMAIN Append(s, x) = 1..(Len(s) + 1)
      /\ \A i \in 1..Len(s) : Append(s, x)[i] = s[i]
      /\ Append(s, x)[Len(s) + 1] = x
  OBVIOUS
<1>2. ASSUME NEW i \in DOMAIN Append(s, x) PROVE Append(s, x)[i] \in Names(s) \cup {x}
  BY <1>1 DEF Names
<1>3. ASSUME NEW i \in DOMAIN s PROVE s[i] \in Names(Append(s, x))
  BY <1>1 DEF Names
<1>4. x \in Names(Append(s, x))
  <2>1. Len(s) + 1 \in DOMAIN Append(s, x)
    BY <1>1
  <2> QED
    BY <1>1, <2>1 DEF Names
<1> QED
  BY <1>2, <1>3, <1>4 DEF Names

LEMMA AppendNoRepeats ==
  ASSUME NEW S, NEW s \in Seq(S), NEW x \in S, NoRepeats(s), x \notin Names(s)
  PROVE  NoRepeats(Append(s, x))
BY DEF Names, NoRepeats

LEMMA HeadTail ==
  ASSUME NEW S, NEW s \in Seq(S), s # <<>>
  PROVE  /\ Head(s) \in S /\ Tail(s) \in Seq(S)
         /\ Names(s) = Names(Tail(s)) \cup {Head(s)}
         /\ NoRepeats(s) => NoRepeats(Tail(s)) /\ Head(s) \notin Names(Tail(s))
<1>1. Head(s) \in S /\ Tail(s) \in Seq(S) /\ Head(s) = s[1] /\ Len(s) \in Nat /\ Len(s) # 0
  OBVIOUS
<1>2. /\ DOMAIN Tail(s) = 1..(Len(s) - 1) /\ DOMAIN s = 1..Len(s)
      /\ \A i \in 1..(Len(s) - 1) : Tail(s)[i] = s[i + 1]
  BY <1>1
<1>3. Names(s) = Names(Tail(s)) \cup {Head(s)}
  <2>1. ASSUME NEW i \in DOMAIN s PROVE s[i] \in Names(Tail(s)) \cup {Head(s)}
    <3>1. CASE i = 1
      BY <3>1, <1>1
    <3>2. CASE i # 1
      <4>1. i - 1 \in DOMAIN Tail(s) /\ Tail(s)[i - 1] = s[i]
        BY <1>1, <1>2, <3>2
      <4> QED
        BY <4>1 DEF Names
    <3> QED
      BY <3>1, <3>2
  <2>2. ASSUME NEW i \in DOMAIN Tail(s) PROVE Tail(s)[i] \in Names(s)
    <3>1. i + 1 \in DOMAIN s /\ Tail(s)[i] = s[i + 1]
      BY <1>1, <1>2
    <3> QED
      BY <3>1 DEF Names
  <2>3. Head(s) \in Names(s)
    BY <1>1, <1>2 DEF Names
  <2> QED
    BY <2>1, <2>2, <2>3 DEF Names
<1>4. ASSUME NoRepeats(s) PROVE NoRepeats(Tail(s)) /\ Head(s) \notin Names(Tail(s))
  BY <1>1, <1>2, <1>4 DEF NoRepeats, Names
<1> QED
  BY <1>1, <1>3, <1>4

LEMMA ConcatNames ==
  ASSUME NEW S, NEW s \in Seq(S), NEW r \in Seq(S)
  PROVE  /\ s \o r \in Seq(S)
         /\ Names(s \o r) = Names(s) \cup Names(r)
         /\ (NoRepeats(s) /\ NoRepeats(r) /\ Names(s) \cap Names(r) = {}) => NoRepeats(s \o r)
<1>1. /\ s \o r \in Seq(S) /\ Len(s) \in Nat /\ Len(r) \in Nat
      /\ DOMAIN s = 1..Len(s) /\ DOMAIN r = 1..Len(r)
      /\ DOMAIN (s \o r) = 1..(Len(s) + Len(r))
      /\ \A i \in 1..Len(s) : (s \o r)[i] = s[i]
      /\ \A i \in 1..Len(r) : (s \o r)[Len(s) + i] = r[i]
  OBVIOUS
<1> DEFINE c == s \o r
<1> HIDE DEF c
<1>2. ASSUME NEW i \in DOMAIN c
      PROVE  \/ i \in DOMAIN s /\ c[i] = s[i]
             \/ i - Len(s) \in DOMAIN r /\ c[i] = r[i - Len(s)] /\ ~ (i \in DOMAIN s)
  BY <1>1 DEF c
<1>3. Names(c) = Names(s) \cup Names(r)
  <2>1. ASSUME NEW i \in DOMAIN s PROVE s[i] \in Names(c)
    <3>1. i \in DOMAIN c /\ c[i] = s[i]
      BY <1>1 DEF c
    <3> QED
      BY <3>1 DEF Names
  <2>2. ASSUME NEW i \in DOMAIN r PROVE r[i] \in Names(c)
    <3>1. Len(s) + i \in DOMAIN c /\ c[Len(s) + i] = r[i]
      BY <1>1 DEF c
    <3> QED
      BY <3>1 DEF Names
  <2> QED
    BY <1>2, <2>1, <2>2 DEF Names
<1>4. ASSUME NoRepeats(s), NoRepeats(r), Names(s) \cap Names(r) = {} PROVE NoRepeats(c)
  <2> SUFFICES ASSUME NEW i \in DOMAIN c, NEW j \in DOMAIN c, c[i] = c[j] PROVE i = j
    BY DEF NoRepeats
  <2>1. i \in Nat /\ j \in Nat
    BY <1>1 DEF c
  <2>2. CASE i \in DOMAIN s /\ j \in DOMAIN s
    BY <1>2, <1>4, <2>2 DEF NoRepeats
  <2>3. CASE ~ (i \in DOMAIN s) /\ ~ (j \in DOMAIN s)
    <3>1. i - Len(s) = j - Len(s)
      BY <1>2, <1>4, <2>3 DEF NoRepeats
    <3> QED
      BY <1>1, <2>1, <3>1
  <2>4. CASE (i \in DOMAIN s) # (j \in DOMAIN s)
    BY <1>2, <1>4, <2>4 DEF Names
  <2> QED
    BY <2>2, <2>3, <2>4
<1> QED
  BY <1>1, <1>3, <1>4 DEF c

(* Every non-empty set of naturals has a least element.                      *)
LEMMA LeastNatural ==
  ASSUME NEW I \in SUBSET Nat, I # {}
  PROVE  \E m \in I : \A k \in I : m <= k
<1> DEFINE below(m) == 1..m
           R == StrictSubsetOrdering(Nat)
           T == {below(m) : m \in I}
<1>1. T \subseteq FiniteSubsetsOf(Nat)
  <2> SUFFICES ASSUME NEW m \in I PROVE below(m) \in FiniteSubsetsOf(Nat)
    OBVIOUS
  <2>1. IsFiniteSet(1..m) /\ 1..m \in SUBSET Nat
    BY FS_Interval
  <2> QED
    BY <2>1 DEF FiniteSubsetsOf
<1>2. IsWellFoundedOn(R, FiniteSubsetsOf(Nat))
  BY FS_StrictSubsetOrderingWellFounded
<1>3. PICK x \in T : \A y \in T : ~ (<<y, x>> \in R)
  <2>1. T # {}
    OBVIOUS
  <2> HIDE DEF T, R
  <2> QED
    BY <1>1, <1>2, <2>1, WFMin
<1>4. PICK m \in I : x = below(m)
  BY <1>3
<1>5. ASSUME NEW k \in I, k < m PROVE FALSE
  <2>1. below(k) \in T
    OBVIOUS
  <2>2. /\ below(k) \subseteq below(m) /\ below(k) # below(m)
        /\ below(k) \in SUBSET Nat /\ below(m) \in SUBSET Nat
    BY <1>5
  <2>3. <<below(k), below(m)>> \in R
    BY <2>2 DEF StrictSubsetOrdering
  <2> QED
    BY <1>3, <1>4, <2>1, <2>3
<1> QED
  BY <1>5

------------------------------------------------------------------------------
(* The groups of a plan.                                                     *)

(* The function that defines Kept is there, for every sequence.             *)
LEMMA KeptStep ==
  ASSUME NEW S, NEW s \in Seq(S), NEW T
  PROVE  \E f : /\ f = [n \in 0..Len(s) |->
                        IF n = 0 THEN <<>>
                        ELSE IF s[n] \in T THEN Append(f[n - 1], s[n]) ELSE f[n - 1]]
                /\ Kept(s, T) = f[Len(s)]
<1> DEFINE Body(f, n) == IF n = 0 THEN <<>>
                         ELSE IF s[n] \in T THEN Append(f[n - 1], s[n]) ELSE f[n - 1]
           Builds(f, m) == f = [n \in 0..m |-> Body(f, n)]
<1>1. \A m \in 0..Len(s) : \E f : Builds(f, m)
  <2> DEFINE Bad == {m \in 0..Len(s) : ~ \E f : Builds(f, m)}
  <2> SUFFICES ASSUME Bad # {} PROVE FALSE
    OBVIOUS
  <2>0. Len(s) \in Nat /\ Bad \in SUBSET Nat
    OBVIOUS
  <2>1. PICK m \in Bad : \A k \in Bad : m <= k
    <3> HIDE DEF Bad
    <3> QED
      BY <2>0, LeastNatural
  <2>2. m # 0
    <3>1. Builds([n \in 0..0 |-> <<>>], 0)
      OBVIOUS
    <3> QED
      BY <3>1
  <2>3. m - 1 \in 0..Len(s) /\ m - 1 \notin Bad /\ m \in 1..Len(s)
    <3>1. m \in 0..Len(s)
      BY <2>1
    <3> HIDE DEF Bad
    <3> QED
      BY <2>0, <2>1, <2>2, <3>1
  <2>4. PICK f : Builds(f, m - 1)
    BY <2>3
  <2> DEFINE g == [n \in 0..m |-> IF n = m THEN Body(f, m) ELSE f[n]]
  <2>5. Builds(g, m)
    <3>1. \A n \in 0..m : g[n] = Body(g, n)
      <4> SUFFICES ASSUME NEW n \in 0..m PROVE g[n] = Body(g, n)
        OBVIOUS
      <4>1. n # 0 => n - 1 \in 0..m /\ g[n - 1] = f[n - 1]
        BY <2>3
      <4>2. Body(g, n) = Body(f, n)
        BY <4>1
      <4>3. n # m => n \in 0..(m - 1) /\ f[n] = Body(f, n)
        <5> HIDE DEF Body
        <5>1. \A k \in 0..(m - 1) : f[k] = Body(f, k)
          BY <2>4
        <5>2. n # m => n \in 0..(m - 1)
          BY <2>3
        <5> QED
          BY <5>1, <5>2
      <4> QED
        BY <4>2, <4>3
    <3> HIDE DEF Body
    <3> QED
      BY <3>1
  <2> QED
    BY <2>1, <2>5
<1> DEFINE kept[n \in 0..Len(s)] ==
             IF n = 0 THEN <<>>
             ELSE IF s[n] \in T THEN Append(kept[n - 1], s[n]) ELSE kept[n - 1]
<1>2. \E f : f = [n \in 0..Len(s) |-> Body(f, n)]
  <2>1. Len(s) \in 0..Len(s)
    OBVIOUS
  <2> QED
    BY <1>1, <2>1
<1>3. kept = [n \in 0..Len(s) |-> Body(kept, n)]
  BY <1>2
<1>4. Kept(s, T) = kept[Len(s)]
  BY DEF Kept
<1> HIDE DEF kept
<1> QED
  BY <1>3, <1>4

\* q consists of the members of T in s, the k-th of which is at place at[k].
Taken(q, s, T, at) ==
    /\ at \in [1..Len(q) -> 1..Len(s)]
    /\ \A k \in 1..Len(q) : q[k] = s[at[k]] /\ s[at[k]] \in T
    /\ \A k, l \in 1..Len(q) : k < l => at[k] < at[l]
    /\ \A i \in 1..Len(s) : s[i] \in T => \E k \in 1..Len(q) : at[k] = i

(* Kept(s, T) takes the members of T from s, each at its place, in order.    *)
LEMMA KeptPlaces ==
  ASSUME NEW S, NEW s \in Seq(S), NEW T
  PROVE  Kept(s, T) \in Seq(S) /\ \E at : Taken(Kept(s, T), s, T, at)
<1> DEFINE Places(q, n) ==
             /\ q \in Seq(S)
             /\ \E at \in [1..Len(q) -> 1..n] :
                  /\ \A k \in 1..Len(q) : q[k] = s[at[k]] /\ s[at[k]] \in T
                  /\ \A k, l \in 1..Len(q) : k < l => at[k] < at[l]
                  /\ \A i \in 1..n : s[i] \in T => \E k \in 1..Len(q) : at[k] = i
<1>1. PICK f : /\ f = [n \in 0..Len(s) |->
                         IF n = 0 THEN <<>>
                         ELSE IF s[n] \in T THEN Append(f[n - 1], s[n]) ELSE f[n - 1]]
               /\ Kept(s, T) = f[Len(s)]
  BY KeptStep
<1>2. \A n \in 0..Len(s) :
        f[n] = IF n = 0 THEN <<>>
               ELSE IF s[n] \in T THEN Append(f[n - 1], s[n]) ELSE f[n - 1]
  BY <1>1
<1>3. \A n \in 0..Len(s) : Places(f[n], n)
  <2> DEFINE Bad == {n \in 0..Len(s) : ~ Places(f[n], n)}
  <2> SUFFICES ASSUME Bad # {} PROVE FALSE
    <3> HIDE DEF Places
    <3> QED
      OBVIOUS
  <2>0. Len(s) \in Nat /\ Bad \in SUBSET Nat
    <3> HIDE DEF Places
    <3> QED
      OBVIOUS
  <2>1. PICK n \in Bad : \A k \in Bad : n <= k
    <3> HIDE DEF Bad
    <3> QED
      BY <2>0, LeastNatural
  <2>2. n \in 0..Len(s) /\ ~ Places(f[n], n)
    BY <2>1
  <2>3. CASE n = 0
    <3>1. f[n] = <<>>
      <4> HIDE DEF Places
      <4> QED
        BY <1>2, <2>2, <2>3
    <3>2. Places(<<>>, 0)
      <4>1. <<>> \in Seq(S) /\ Len(<<>>) = 0 /\ [k \in 1..0 |-> 1] \in [1..0 -> 1..0]
        OBVIOUS
      <4> DEFINE at == [k \in 1..0 |-> 1]
      <4>2. /\ at \in [1..Len(<<>>) -> 1..0]
            /\ \A k \in 1..Len(<<>>) : k \in {}
            /\ \A i \in 1..0 : i \in {}
        BY <4>1
      <4> HIDE DEF at
      <4> QED
        BY <4>1, <4>2
    <3>3. Places(f[n], n)
      <4> HIDE DEF Places
      <4> QED
        BY <2>3, <3>1, <3>2
    <3> QED
      BY <2>2, <3>3
  <2>4. CASE n # 0
    <3>1. n - 1 \in 0..Len(s) /\ n \in 1..Len(s) /\ n - 1 \notin Bad
      <4> HIDE DEF Bad, Places
      <4> QED
        BY <2>0, <2>1, <2>2, <2>4
    <3> DEFINE q == f[n - 1]
    <3>2. Places(q, n - 1)
      BY <3>1
    <3>3. PICK at \in [1..Len(q) -> 1..(n - 1)] :
             /\ \A k \in 1..Len(q) : q[k] = s[at[k]] /\ s[at[k]] \in T
             /\ \A k, l \in 1..Len(q) : k < l => at[k] < at[l]
             /\ \A i \in 1..(n - 1) : s[i] \in T => \E k \in 1..Len(q) : at[k] = i
      BY <3>2
    <3>4. q \in Seq(S) /\ Len(q) \in Nat
      BY <3>2
    <3>5. CASE s[n] \in T
      <4> DEFINE r == Append(q, s[n])
                 more == [k \in 1..Len(r) |-> IF k = Len(r) THEN n ELSE at[k]]
      <4>1. f[n] = r
        BY <1>2, <2>2, <2>4, <3>5
      <4>2. /\ r \in Seq(S) /\ Len(r) = Len(q) + 1 /\ r[Len(r)] = s[n]
            /\ \A k \in 1..Len(q) : r[k] = q[k]
        BY <3>1, <3>4
      <4> HIDE DEF r, q
      <4>3. more \in [1..Len(r) -> 1..n]
        BY <3>1, <3>3, <3>4, <4>2
      <4>4. \A k \in 1..Len(r) : r[k] = s[more[k]] /\ s[more[k]] \in T
        BY <3>1, <3>3, <3>4, <3>5, <4>2
      <4>5. \A k, l \in 1..Len(r) : k < l => more[k] < more[l]
        <5> SUFFICES ASSUME NEW k \in 1..Len(r), NEW l \in 1..Len(r), k < l
                     PROVE  more[k] < more[l]
          OBVIOUS
        <5>1. k \in 1..Len(q) /\ more[k] = at[k] /\ at[k] \in 1..(n - 1)
          BY <3>3, <3>4, <4>2
        <5>2. CASE l = Len(r)
          BY <3>1, <5>1, <5>2
        <5>3. CASE l # Len(r)
          <6>1. l \in 1..Len(q) /\ more[l] = at[l]
            BY <3>4, <4>2, <5>3
          <6> HIDE DEF more
          <6> QED
            BY <3>3, <5>1, <6>1
        <5> QED
          BY <5>2, <5>3
      <4>6. ASSUME NEW i \in 1..n, s[i] \in T PROVE \E k \in 1..Len(r) : more[k] = i
        <5>1. CASE i = n
          BY <5>1, <3>4, <4>2
        <5>2. CASE i # n
          <6>1. PICK k \in 1..Len(q) : at[k] = i
            BY <3>1, <3>3, <4>6, <5>2
          <6>2. k \in 1..Len(r) /\ more[k] = i
            BY <3>4, <4>2, <6>1
          <6> QED
            BY <6>2
        <5> QED
          BY <5>1, <5>2
      <4> HIDE DEF more
      <4>7. Places(r, n)
        BY <4>2, <4>3, <4>4, <4>5, <4>6
      <4> HIDE DEF Places
      <4> QED
        BY <2>2, <4>1, <4>7
    <3>6. CASE s[n] \notin T
      <4>1. f[n] = q
        BY <1>2, <2>2, <2>4, <3>6
      <4> HIDE DEF q
      <4>2. at \in [1..Len(q) -> 1..n]
        BY <3>1, <3>3
      <4>3. \A i \in 1..n : s[i] \in T => \E k \in 1..Len(q) : at[k] = i
        BY <3>1, <3>3, <3>6
      <4>4. Places(q, n)
        BY <3>3, <3>4, <4>2, <4>3
      <4> HIDE DEF Places
      <4> QED
        BY <2>2, <4>1, <4>4
    <3> QED
      BY <3>5, <3>6
  <2> QED
    BY <2>3, <2>4
<1>4. Places(f[Len(s)], Len(s))
  <2>1. Len(s) \in 0..Len(s)
    OBVIOUS
  <2> HIDE DEF Places
  <2> QED
    BY <1>3, <2>1
<1> DEFINE q == f[Len(s)]
<1>5. q = Kept(s, T) /\ Places(q, Len(s))
  BY <1>1, <1>4
<1> HIDE DEF q
<1>6. \E at : Taken(q, s, T, at)
  BY <1>5 DEF Taken
<1> QED
  BY <1>5, <1>6
LEMMA GroupFacts ==
  ASSUME needs \in Seq(Tools), NEW m
  PROVE  /\ Group(m) \in Seq(Tools)
         /\ Names(Group(m)) = {t \in Names(needs) : method[t] = m}
         /\ NoRepeats(needs) => NoRepeats(Group(m))
<1> DEFINE T == {t \in Tools : method[t] = m}
           g == Kept(needs, T)
<1>1. g \in Seq(Tools) /\ Group(m) = g
  BY KeptPlaces DEF Group
<1> HIDE DEF g
<1>2. PICK at : Taken(g, needs, T, at)
  BY KeptPlaces DEF g
<1>3. /\ DOMAIN g = 1..Len(g) /\ DOMAIN needs = 1..Len(needs) /\ Len(g) \in Nat
      /\ Len(needs) \in Nat
  BY <1>1
<1>4. Names(g) = {t \in Names(needs) : method[t] = m}
  <2>1. ASSUME NEW k \in DOMAIN g PROVE g[k] \in Names(needs) /\ method[g[k]] = m
    <3>1. g[k] = needs[at[k]] /\ needs[at[k]] \in T /\ at[k] \in DOMAIN needs
      BY <1>2, <1>3 DEF Taken
    <3> QED
      BY <3>1 DEF Names
  <2>2. ASSUME NEW i \in DOMAIN needs, method[needs[i]] = m PROVE needs[i] \in Names(g)
    <3>1. needs[i] \in T
      BY <2>2
    <3>2. PICK k \in 1..Len(g) : at[k] = i
      BY <1>2, <1>3, <3>1 DEF Taken
    <3> QED
      BY <1>2, <1>3, <3>2 DEF Names, Taken
  <2>3. Names(g) \subseteq {t \in Names(needs) : method[t] = m}
    BY <2>1 DEF Names
  <2>4. {t \in Names(needs) : method[t] = m} \subseteq Names(g)
    BY <2>2 DEF Names
  <2> QED
    BY <2>3, <2>4
<1>5. ASSUME NoRepeats(needs) PROVE NoRepeats(g)
  <2> SUFFICES ASSUME NEW k \in 1..Len(g), NEW l \in 1..Len(g), g[k] = g[l], k # l PROVE FALSE
    BY <1>3 DEF NoRepeats
  <2>1. at[k] = at[l]
    <3>1. /\ at[k] \in DOMAIN needs /\ at[l] \in DOMAIN needs
          /\ needs[at[k]] = needs[at[l]]
      BY <1>2, <1>3 DEF Taken
    <3> QED
      BY <1>5, <3>1 DEF NoRepeats
  <2>2. at[k] \in 1..Len(needs) /\ at[l] \in 1..Len(needs)
    BY <1>2 DEF Taken
  <2> QED
    BY <1>2, <1>3, <2>1, <2>2 DEF Taken
<1> QED
  BY <1>1, <1>4, <1>5

(* What comes before a tool in the plan comes before it in its group.        *)
LEMMA GroupOrder ==
  ASSUME needs \in Seq(Tools), NEW m, NEW i \in DOMAIN Group(m), NEW S,
         InDependencyOrder(Inventory, S, needs),
         NEW d \in StrictDeps(Inventory, Group(m)[i]) \cap S, d \in Names(Group(m))
  PROVE  \E j \in 1..(i - 1) : Group(m)[j] = d
<1> DEFINE T == {t \in Tools : method[t] = m}
           g == Kept(needs, T)
<1>1. g \in Seq(Tools) /\ Group(m) = g
  BY KeptPlaces DEF Group
<1> HIDE DEF g
<1>2. PICK at : Taken(g, needs, T, at)
  BY KeptPlaces DEF g
<1>3. /\ DOMAIN g = 1..Len(g) /\ DOMAIN needs = 1..Len(needs) /\ Len(g) \in Nat
      /\ Len(needs) \in Nat
  BY <1>1
<1>4. at[i] \in DOMAIN needs /\ g[i] = needs[at[i]]
  BY <1>1, <1>2, <1>3 DEF Taken
<1>5. d \in {needs[a] : a \in 1..(at[i] - 1)}
  BY <1>1, <1>4 DEF InDependencyOrder
<1>6. PICK a \in 1..(at[i] - 1) : needs[a] = d
  BY <1>5
<1>7. d \in T /\ a \in 1..Len(needs)
  <2>1. d \in T
    BY <1>1, <1>2, <1>3 DEF Names, Taken
  <2> QED
    BY <1>3, <1>4, <2>1
<1>8. PICK j \in 1..Len(g) : at[j] = a
  BY <1>2, <1>6, <1>7 DEF Taken
<1>9. j < i
  <2>1. i \in 1..Len(g) /\ at[i] \in Nat /\ at[j] < at[i]
    BY <1>1, <1>3, <1>4, <1>8
  <2>2. ~ (i < j) /\ i # j
    BY <1>2, <1>8, <2>1 DEF Taken
  <2> QED
    BY <1>3, <2>1, <2>2
<1>10. j \in 1..(i - 1) /\ g[j] = d
  BY <1>1, <1>2, <1>3, <1>6, <1>8, <1>9 DEF Taken
<1> QED
  BY <1>1, <1>10

(* The tool a package is credited to is of the batch and has that package.   *)
LEMMA CreditedFacts ==
  ASSUME needs \in Seq(Tools), NEW m, NEW t \in Names(Group(m))
  PROVE  /\ CreditedTool(m, Pkg[t]) \in Names(Group(m))
         /\ Pkg[CreditedTool(m, Pkg[t])] = Pkg[t]
<1> DEFINE g == Group(m)
           I == {k \in DOMAIN g : Pkg[g[k]] = Pkg[t]}
<1>1. DOMAIN g \in SUBSET Nat
  BY GroupFacts
<1>2. PICK i \in DOMAIN g : g[i] = t
  BY DEF Names
<1>3. I \in SUBSET Nat /\ I # {}
  BY <1>1, <1>2
<1>4. PICK k \in I : \A j \in I : k <= j
  <2> HIDE DEF I
  <2> QED
    BY <1>3, LeastNatural
<1>5. /\ k \in DOMAIN g /\ Pkg[g[k]] = Pkg[t]
      /\ \A j \in 1..(k - 1) : Pkg[g[j]] # Pkg[t]
  <2>1. k \in DOMAIN g /\ Pkg[g[k]] = Pkg[t] /\ k \in Nat
    BY <1>3
  <2>2. ASSUME NEW j \in 1..(k - 1), Pkg[g[j]] = Pkg[t] PROVE FALSE
    <3>1. j \in DOMAIN g
      BY <2>1, GroupFacts
    <3>2. j \in I
      BY <2>2, <3>1
    <3> QED
      BY <1>4, <2>1, <3>2
  <2> QED
    BY <2>1, <2>2
<1> DEFINE c == CHOOSE l \in DOMAIN g :
                   Pkg[g[l]] = Pkg[t] /\ \A j \in 1..(l - 1) : Pkg[g[j]] # Pkg[t]
<1>6. c \in DOMAIN g /\ Pkg[g[c]] = Pkg[t]
  BY <1>5
<1>7. CreditedTool(m, Pkg[t]) = g[c]
  BY DEF CreditedTool
<1> QED
  BY <1>6, <1>7 DEF Names

(* So is what a successful batch is credited with.                           *)
LEMMA CreditedGroup ==
  ASSUME needs \in Seq(Tools), NEW m
  PROVE  LET added == [i \in DOMAIN Group(m) |-> CreditedTool(m, Pkg[Group(m)[i]])]
         IN  added \in Seq(Tools) /\ Names(added) \subseteq Names(Group(m))
<1> DEFINE added == [i \in DOMAIN Group(m) |-> CreditedTool(m, Pkg[Group(m)[i]])]
<1>1. Group(m) \in Seq(Tools) /\ Names(Group(m)) \subseteq Tools
  BY GroupFacts DEF Names
<1>2. \A i \in DOMAIN Group(m) : added[i] \in Names(Group(m))
  BY CreditedFacts DEF Names
<1>3. DOMAIN added = DOMAIN Group(m) /\ DOMAIN Group(m) = 1..Len(Group(m))
  BY <1>1
<1>4. Names(added) \subseteq Names(Group(m))
  <2> HIDE DEF added
  <2> QED
    BY <1>2, <1>3 DEF Names
<1>5. added \in [1..Len(Group(m)) -> Tools] /\ Len(Group(m)) \in Nat
  BY <1>1, <1>2, <1>3
<1> HIDE DEF added
<1>6. added \in Seq(Tools)
  BY <1>5
<1> QED
  BY <1>4, <1>6 DEF added

(* A plan of S is a list of the tools of S, each once.                       *)
LEMMA PlanFacts ==
  ASSUME NEW S \in SUBSET Tools, NEW q \in Plans(Inventory, S)
  PROVE  /\ q \in Seq(Tools) /\ Names(q) = S /\ NoRepeats(q)
         /\ HasCycle(Inventory, Names(q)) \/ InDependencyOrder(Inventory, Names(q), q)
<1>1. IsFiniteSet(S) /\ Cardinality(S) \in Nat
  BY RegistryTyped, FS_Subset, FS_CardinalityType
<1> DEFINE n == Cardinality(S)
<1>2. /\ q \in [1..n -> S] /\ Names(q) = S
      /\ HasCycle(Inventory, S) \/ InDependencyOrder(Inventory, S, q)
  BY DEF Plans
<1>3. q \in Surjection(1..n, S)
  BY <1>2 DEF Surjection, Names
<1>4. IsFiniteSet(1..n) /\ Cardinality(1..n) = n
  BY <1>1, FS_Interval
<1>5. q \in Injection(1..n, S)
  BY <1>1, <1>3, <1>4, FS_SurjSameCardinalityImpliesInj
<1>6. NoRepeats(q)
  BY <1>2, <1>5 DEF Injection, IsInjective, NoRepeats
<1> QED
  BY <1>1, <1>2, <1>6

------------------------------------------------------------------------------
(* The inductive invariant, action by action.                                *)

(* The order of the only thread outlives every step that starts no worker    *)
(* and takes no result back.                                                 *)
LEMMA TurnKept ==
  ASSUME Inv, needs' = needs, method' = method, opts' = opts,
         \A u \in Tools : /\ worker[u] \in Finished => worker'[u] \in Finished
                          /\ worker'[u] # "waiting" => worker[u] # "waiting"
  PROVE  InTurn'
<1>1. Group(Custom)' = Group(Custom) /\ Workers' = Workers /\ Finished' = Finished
  BY DEF Group, Workers, Finished
<1>2. Group(Custom) \in Seq(Tools)
  BY GroupFacts DEF Inv, TypeOK
<1> DEFINE g == Group(Custom)
<1>3. /\ \A i \in DOMAIN g : g[i] \in Tools
      /\ \A i \in DOMAIN g : \A j \in 1..(i - 1) : j \in DOMAIN g
  BY <1>2
<1>4. Workers = 1 => \A i \in DOMAIN g : worker[g[i]] # "waiting" =>
                        \A j \in 1..(i - 1) : worker[g[j]] \in Finished
  BY DEF Inv, InTurn
<1> HIDE DEF g
<1>5. Workers = 1 => \A i \in DOMAIN g : worker'[g[i]] # "waiting" =>
                        \A j \in 1..(i - 1) : worker'[g[j]] \in Finished
  BY <1>3, <1>4
<1> QED
  BY <1>1, <1>5 DEF InTurn, g

(* The package that is retried is one of the batch that failed.              *)
LEMMA RetriedTool ==
  ASSUME Inv, pc = "retry"
  PROVE  LET c == CreditedTool(manager, Head(retry))
         IN  c \in Names(Group(manager)) /\ c \in Tools /\ Pkg[c] = Head(retry)
             /\ method[c] = manager /\ Method[c] = manager
<1>1. Head(retry) \in Names(retry)
  BY HeadTail DEF Inv, TypeOK, Credited
<1>2. PICK u \in Names(Group(manager)) : Pkg[u] = Head(retry)
  BY <1>1 DEF Inv, Credited
<1>3. /\ CreditedTool(manager, Pkg[u]) \in Names(Group(manager))
      /\ Pkg[CreditedTool(manager, Pkg[u])] = Pkg[u]
  BY CreditedFacts DEF Inv, TypeOK
<1>4. Names(Group(manager)) = {v \in Names(needs) : method[v] = manager}
  BY GroupFacts DEF Inv, TypeOK
<1>5. Names(needs) \subseteq Tools /\ manager # Custom
  BY RegistryTyped DEF Inv, TypeOK, Names, Credited
<1> QED
  BY <1>2, <1>3, <1>4, <1>5 DEF Inv, MethodRight

(* What has() remembers after it was asked for S.                            *)
LEMMA AskedFacts ==
  ASSUME Inv, NEW S
  PROVE  /\ Asked(S) \in [Commands -> {"unset", "yes", "no"}]
         /\ \A c \in Commands : Asked(S)[c] = "no" => has_cache[c] = "no" \/ c \in S
BY DEF Inv, TypeOK, Asked

(* What is asked before the pool starts is settled by the plan.              *)
LEMMA EarlyKept ==
  ASSUME UNCHANGED <<config, needs, method>>
  PROVE  AskedEarly' = AskedEarly
BY DEF AskedEarly, CheckAsked, GroupAsked

(* What has() remembers stays explained when no worker forgets its refusal.  *)
LEMMA ExplainedKept ==
  ASSUME Inv, UNCHANGED <<config, needs, method>>,
         \A c \in Commands : has_cache'[c] = "no" =>
            \/ has_cache[c] = "no" \/ c \in AskedEarly
            \/ \E u \in Tools : worker'[u] = "refused" /\ Prereq[u] = c,
         \A u \in Tools :
            /\ worker[u] = "refused" => worker'[u] = "refused"
            /\ worker'[u] \in {"started", "found", "absent", "refused"} =>
                  \/ worker[u] \in {"started", "found", "absent", "refused"}
                  \/ Prereq[u] # None
  PROVE  CacheExplained'
BY EarlyKept DEF Inv, CacheExplained

(* Nor when neither the workers nor the cache change.                         *)
LEMMA ExplainedStill ==
  ASSUME Inv, UNCHANGED <<config, needs, method, worker, has_cache>>
  PROVE  CacheExplained'
BY EarlyKept DEF Inv, CacheExplained

LEMMA InvPreSetup ==
  ASSUME Inv, PreSetup
  PROVE  Inv'
<1> USE DEF host, plan, batch, pool, hooks
<1>1. TypeOK'
  <2>1. installed' \in SUBSET Tools /\ UNCHANGED <<baseline, initialized, plan>>
    BY RegistryTyped DEF Inv, TypeOK, PreSetup, PlatformInstalls
  <2> QED
    BY <2>1 DEF Inv, TypeOK, PreSetup
<1>2. PlanRight'
  BY DEF Inv, TypeOK, PlanRight, PreSetup
<1>3. InPhase'
  BY DEF Inv, TypeOK, InPhase, PreSetup, On
<1>4. Tried'
  BY DEF Inv, TypeOK, Tried, PreSetup, Over, On
<1>5. Credited'
  BY DEF Inv, TypeOK, Credited, PreSetup, Group
<1>6. HooksRun'
  BY DEF Inv, TypeOK, HooksRun, PreSetup, Over, On, HasHook
<1>7. InTurn'
  <2>1. UNCHANGED <<needs, method, opts, worker>>
    BY DEF PreSetup
  <2> QED
    BY <2>1, TurnKept
<1>8. CacheExplained'
  <2>1. UNCHANGED <<config, needs, method, worker, has_cache>>
    BY DEF PreSetup
  <2> QED
    BY <2>1, ExplainedStill
<1>9. MethodRight'
  BY DEF Inv, MethodRight, PreSetup
<1> QED
  BY <1>1, <1>2, <1>3, <1>4, <1>5, <1>6, <1>7, <1>8, <1>9 DEF Inv

LEMMA InvVerifyOnlyPasses ==
  ASSUME Inv, VerifyOnlyPasses
  PROVE  Inv'
<1> USE DEF host, plan, batch, pool, hooks
<1>0. /\ has_cache' \in [Commands -> {"unset", "yes", "no"}]
      /\ \A c \in Commands : has_cache'[c] = "no" => has_cache[c] = "no" \/ c \in CheckAsked
  BY AskedFacts DEF VerifyOnlyPasses
<1>1. TypeOK'
  <2>1. baseline' = None \/ baseline' \in [by_drift : BOOLEAN, tools : SUBSET Tools]
    <3>1. [by_drift |-> FALSE, tools |-> Found]
             \in [by_drift : BOOLEAN, tools : SUBSET Tools]
      BY DEF Inv, TypeOK, Found
    <3> QED
      BY <3>1 DEF Inv, TypeOK, VerifyOnlyPasses
  <2> QED
    BY <1>0, <2>1 DEF Inv, TypeOK, VerifyOnlyPasses, Exit, ExitCodes
<1>2. PlanRight'
  BY DEF Inv, TypeOK, PlanRight, VerifyOnlyPasses, Exit
<1>3. InPhase'
  BY DEF Inv, TypeOK, InPhase, VerifyOnlyPasses, Exit, On
<1>4. Tried'
  <2>1. attempted = {} /\ needs = <<>> /\ Names(<<>>) = {}
    BY DEF Inv, InPhase, VerifyOnlyPasses, Names
  <2> QED
    BY <2>1 DEF Inv, Tried, VerifyOnlyPasses, Exit, Over, On
<1>5. Credited'
  BY DEF Inv, TypeOK, Credited, VerifyOnlyPasses, Exit, Group
<1>6. HooksRun'
  <2>1. successes = <<>> /\ Names(<<>>) = {}
    BY DEF Inv, InPhase, VerifyOnlyPasses, Names
  <2> QED
    BY <2>1 DEF Inv, HooksRun, VerifyOnlyPasses, Exit, Over, On
<1>7. InTurn'
  BY DEF Inv, TypeOK, InTurn, VerifyOnlyPasses, Exit, Group, Workers
<1>8. CacheExplained'
  <2>1. CheckAsked \subseteq AskedEarly /\ UNCHANGED <<config, needs, method, worker>>
    BY DEF VerifyOnlyPasses, AskedEarly
  <2> QED
    BY <1>0, <2>1, ExplainedKept
<1>9. MethodRight'
  BY DEF Inv, MethodRight, VerifyOnlyPasses
<1> QED
  BY <1>1, <1>2, <1>3, <1>4, <1>5, <1>6, <1>7, <1>8, <1>9 DEF Inv

LEMMA InvPlan ==
  ASSUME Inv, Plan
  PROVE  Inv'
<1> USE DEF host, plan, batch, pool, hooks
<1>0. /\ has_cache' \in [Commands -> {"unset", "yes", "no"}]
      /\ \A c \in Commands : has_cache'[c] = "no" => c \in CheckAsked \cup GroupAsked(Missing)
      /\ method' = Grouped /\ Grouped \in [Tools -> Managers \cup {Custom}]
  BY AskedFacts, RegistryTyped DEF Inv, InPhase, Plan, Grouped
<1>1. TypeOK'
  <2>1. needs' \in Seq(Tools)
    BY PlanFacts DEF Plan, Missing
  <2>2. groups' \in SUBSET Managers
    BY <1>0 DEF Plan, Missing, ManagersOf
  <2> QED
    BY <1>0, <2>1, <2>2 DEF Inv, TypeOK, Plan
<1>2. PlanRight'
  <2>1. /\ Names(needs') = Missing /\ NoRepeats(needs')
        /\ HasCycle(Inventory, Names(needs')) \/ InDependencyOrder(Inventory, Names(needs'), needs')
    BY PlanFacts DEF Plan, Missing
  <2> QED
    BY <2>1 DEF PlanRight, Plan, Missing
<1>3. InPhase'
  BY DEF Inv, TypeOK, InPhase, Plan, On
<1>4. Tried'
  <2>1. /\ attempted' = {} /\ Names(needs') = Missing /\ exit' = None /\ exit' # "EXIT_SUCCESS"
        /\ \A t \in Tools : worker'[t] = "waiting"
    BY PlanFacts, RegistryTyped DEF Inv, InPhase, Plan, Missing, ExitCodes
  <2>2. /\ \A t \in Names(needs') : method'[t] \notin Managers \ groups' /\ worker'[t] = "waiting"
        /\ groups' \subseteq {method'[t] : t \in Names(needs')} \ {Custom}
    BY <1>0, <2>1, RegistryTyped DEF Plan, ManagersOf, Missing
  <2>3. attempted' = {t \in Names(needs') :
                        method'[t] \in Managers \ groups' \/ worker'[t] # "waiting"}
    BY <2>1, <2>2
  <2>4. pc' = "post_setup" => opts' = opts /\ "dry_run" \in opts.flags
    BY DEF Plan, On
  <2>5. pc' \in {"post_setup", "batches"}
    BY DEF Plan
  <2> QED
    BY <2>1, <2>2, <2>3, <2>4, <2>5 DEF Tried, Over, On
<1>5. Credited'
  BY DEF Inv, TypeOK, Credited, Plan, Group
<1>6. HooksRun'
  <2>1. successes' = <<>> /\ Names(<<>>) = {} /\ exit' = None /\ hooked' = <<>>
    BY DEF Inv, InPhase, Plan, Names
  <2>2. pc' # "tool_hooks"
    BY DEF Plan
  <2> QED
    BY <2>1, <2>2 DEF HooksRun
<1>7. InTurn'
  <2>1. \A i \in DOMAIN Group(Custom)' : Group(Custom)'[i] \in Tools
    <3>1. needs' \in Seq(Tools)
      BY PlanFacts DEF Plan, Missing
    <3>2. Group(Custom)' \in Seq(Tools)
      BY <3>1, KeptPlaces DEF Group
    <3> QED
      BY <3>2
  <2>2. \A t \in Tools : worker'[t] = "waiting"
    BY DEF Inv, InPhase, Plan
  <2> QED
    BY <2>1, <2>2 DEF InTurn
<1>8. CacheExplained'
  <2>1. Names(needs') = Missing /\ CheckAsked' = CheckAsked
    BY PlanFacts DEF Plan, Missing, CheckAsked
  <2> QED
    BY <1>0, <2>1 DEF Inv, CacheExplained, Plan, AskedEarly, GroupAsked
<1>9. MethodRight'
  BY DEF Inv, MethodRight, Plan, Grouped
<1> QED
  BY <1>1, <1>2, <1>3, <1>4, <1>5, <1>6, <1>7, <1>8, <1>9 DEF Inv

LEMMA InvBatchSucceeds ==
  ASSUME Inv, NEW m \in Managers, BatchSucceeds(m)
  PROVE  Inv'
<1> USE DEF host, plan, batch, pool, hooks
<1>0. /\ has_cache' = Asked({Requires[m]}) /\ m \in groups
      /\ has_cache' \in [Commands -> {"unset", "yes", "no"}]
      /\ \A c \in Commands : has_cache'[c] = "no" => has_cache[c] = "no" \/ c = Requires[m]
  BY AskedFacts DEF StartBatch, BatchSucceeds
<1>1. TypeOK'
  <2>1. Group(m) \in Seq(Tools) /\ Names(Group(m)) \subseteq Tools
    BY GroupFacts DEF Inv, TypeOK, Names
  <2>2. installed' \in SUBSET Tools
    BY DEF Inv, TypeOK, BatchSucceeds, Delivered
  <2>3. successes' \in Seq(Tools)
    BY CreditedGroup, ConcatNames DEF Inv, TypeOK, BatchSucceeds
  <2>4. groups' \in SUBSET Managers /\ attempted' \in SUBSET Tools
    BY <2>1 DEF Inv, TypeOK, BatchSucceeds, StartBatch
  <2> QED
    BY <1>0, <2>2, <2>3, <2>4 DEF Inv, TypeOK, BatchSucceeds
<1>2. PlanRight'
  BY DEF Inv, TypeOK, PlanRight, BatchSucceeds, StartBatch
<1>3. InPhase'
  BY DEF Inv, TypeOK, InPhase, BatchSucceeds, StartBatch, On
<1>4. Tried'
  <2>1. /\ pc' \in {"batches", "retry"} /\ exit' # "EXIT_SUCCESS" /\ needs' = needs
        /\ method' = method /\ groups' \subseteq groups
        /\ \A t \in Tools : worker[t] = "waiting" /\ worker'[t] = "waiting"
    BY RegistryTyped DEF Inv, InPhase, BatchSucceeds, StartBatch, ExitCodes
  <2>2. Names(needs) \subseteq Tools
    BY DEF Inv, TypeOK, Names
  <2>3. Names(Group(m)) = {t \in Names(needs) : method[t] = m}
    BY GroupFacts DEF Inv, TypeOK
  <2>4. attempted' = {t \in Names(needs) :
                        method[t] \in Managers \ groups' \/ worker'[t] # "waiting"}
    <3>1. attempted = {t \in Names(needs) :
                         method[t] \in Managers \ groups \/ worker[t] # "waiting"}
      BY DEF Inv, Tried, BatchSucceeds, StartBatch
    <3> QED
      BY <2>1, <2>2, <2>3, <3>1 DEF BatchSucceeds, StartBatch
  <2>5. attempted' = {t \in Names(needs') :
                        method'[t] \in Managers \ groups' \/ worker'[t] # "waiting"}
    BY <2>1, <2>4
  <2> QED
    BY <2>1, <2>5 DEF Inv, Tried, Over
<1>5. Credited'
  <2>1. Names(successes') \subseteq Names(successes) \cup Names(Group(m))
    <3> DEFINE added == [i \in DOMAIN Group(m) |-> CreditedTool(m, Pkg[Group(m)[i]])]
    <3>1. added \in Seq(Tools) /\ Names(added) \subseteq Names(Group(m))
      BY CreditedGroup DEF Inv, TypeOK
    <3>2. successes' = successes \o added
      BY DEF BatchSucceeds
    <3>3. successes \in Seq(Tools)
      BY DEF Inv, TypeOK
    <3> HIDE DEF added
    <3> QED
      BY <3>1, <3>2, <3>3, ConcatNames
  <2>2. Names(Group(m)) \subseteq attempted' \cap installed'
    <3>1. Names(Group(m)) \subseteq {t \in Tools : Method[t] = m}
      <4>1. needs \in Seq(Tools) /\ Names(needs) \subseteq Tools
        BY DEF Inv, TypeOK, Names
      <4>2. Names(Group(m)) = {t \in Names(needs) : method[t] = m}
        BY <4>1, GroupFacts
      <4>3. m # Custom
        BY RegistryTyped
      <4> QED
        BY <4>1, <4>2, <4>3 DEF Inv, MethodRight
    <3>2. attempted' = attempted \cup Names(Group(m))
      BY DEF BatchSucceeds, StartBatch
    <3>3. \A t \in Names(Group(m)) :
             t \in Delivered(m, Pkg[t]) /\ Delivered(m, Pkg[t]) \subseteq installed'
      BY <3>1 DEF BatchSucceeds, Delivered
    <3> QED
      BY <3>2, <3>3
  <2>3. attempted \cap installed \subseteq attempted' \cap installed' /\ pc' # "retry"
    BY DEF BatchSucceeds, StartBatch
  <2> QED
    BY <2>1, <2>2, <2>3 DEF Inv, Credited
<1>6. HooksRun'
  <2>1. hooked' = <<>> /\ Names(<<>>) = {} /\ pc' = "batches" /\ exit' # "EXIT_SUCCESS"
    BY RegistryTyped DEF Inv, InPhase, BatchSucceeds, StartBatch, Names, ExitCodes
  <2> QED
    BY <2>1 DEF HooksRun, Over
<1>7. InTurn'
  <2>1. UNCHANGED <<needs, method, opts, worker>>
    BY DEF BatchSucceeds, StartBatch
  <2> QED
    BY <2>1, TurnKept
<1>8. CacheExplained'
  <2>1. Requires[m] \in AskedEarly
    BY <1>0 DEF Inv, Tried, AskedEarly
  <2>2. UNCHANGED <<config, needs, method, worker>>
    BY DEF BatchSucceeds, StartBatch
  <2> QED
    BY <1>0, <2>1, <2>2, ExplainedKept
<1>9. MethodRight'
  BY DEF Inv, MethodRight, BatchSucceeds
<1> QED
  BY <1>1, <1>2, <1>3, <1>4, <1>5, <1>6, <1>7, <1>8, <1>9 DEF Inv

LEMMA InvSingleFails ==
  ASSUME Inv, NEW m \in Managers, SingleFails(m)
  PROVE  Inv'
<1> USE DEF host, plan, batch, pool, hooks
<1>0. /\ has_cache' = Asked({Requires[m]}) /\ m \in groups
      /\ has_cache' \in [Commands -> {"unset", "yes", "no"}]
      /\ \A c \in Commands : has_cache'[c] = "no" => has_cache[c] = "no" \/ c = Requires[m]
  BY AskedFacts DEF StartBatch, SingleFails
<1>1. TypeOK'
  <2>1. Names(Group(m)) \subseteq Tools
    BY GroupFacts DEF Inv, TypeOK, Names
  <2>2. groups' \in SUBSET Managers /\ attempted' \in SUBSET Tools
    BY <2>1 DEF Inv, TypeOK, SingleFails, StartBatch
  <2> QED
    BY <1>0, <2>2 DEF Inv, TypeOK, SingleFails
<1>2. PlanRight'
  BY DEF Inv, TypeOK, PlanRight, SingleFails, StartBatch
<1>3. InPhase'
  BY DEF Inv, TypeOK, InPhase, SingleFails, StartBatch, On
<1>4. Tried'
  <2>1. /\ pc' \in {"batches", "retry"} /\ exit' # "EXIT_SUCCESS" /\ needs' = needs
        /\ method' = method /\ groups' \subseteq groups
        /\ \A t \in Tools : worker[t] = "waiting" /\ worker'[t] = "waiting"
    BY RegistryTyped DEF Inv, InPhase, SingleFails, StartBatch, ExitCodes
  <2>2. Names(needs) \subseteq Tools
    BY DEF Inv, TypeOK, Names
  <2>3. Names(Group(m)) = {t \in Names(needs) : method[t] = m}
    BY GroupFacts DEF Inv, TypeOK
  <2>4. attempted' = {t \in Names(needs) :
                        method[t] \in Managers \ groups' \/ worker'[t] # "waiting"}
    <3>1. attempted = {t \in Names(needs) :
                         method[t] \in Managers \ groups \/ worker[t] # "waiting"}
      BY DEF Inv, Tried, SingleFails, StartBatch
    <3> QED
      BY <2>1, <2>2, <2>3, <3>1 DEF SingleFails, StartBatch
  <2>5. attempted' = {t \in Names(needs') :
                        method'[t] \in Managers \ groups' \/ worker'[t] # "waiting"}
    BY <2>1, <2>4
  <2> QED
    BY <2>1, <2>5 DEF Inv, Tried, Over
<1>5. Credited'
  BY DEF Inv, TypeOK, Credited, SingleFails, StartBatch, Group
<1>6. HooksRun'
  BY DEF Inv, TypeOK, HooksRun, SingleFails, StartBatch, Over, On, HasHook
<1>7. InTurn'
  <2>1. UNCHANGED <<needs, method, opts, worker>>
    BY DEF SingleFails, StartBatch
  <2> QED
    BY <2>1, TurnKept
<1>8. CacheExplained'
  <2>1. Requires[m] \in AskedEarly
    BY <1>0 DEF Inv, Tried, AskedEarly
  <2>2. UNCHANGED <<config, needs, method, worker>>
    BY DEF SingleFails, StartBatch
  <2> QED
    BY <1>0, <2>1, <2>2, ExplainedKept
<1>9. MethodRight'
  BY DEF Inv, MethodRight, SingleFails
<1> QED
  BY <1>1, <1>2, <1>3, <1>4, <1>5, <1>6, <1>7, <1>8, <1>9 DEF Inv

LEMMA InvBatchFails ==
  ASSUME Inv, NEW m \in Managers, BatchFails(m)
  PROVE  Inv'
<1> USE DEF host, plan, batch, pool, hooks
<1>0. /\ has_cache' = Asked({Requires[m]}) /\ m \in groups
      /\ has_cache' \in [Commands -> {"unset", "yes", "no"}]
      /\ \A c \in Commands : has_cache'[c] = "no" => has_cache[c] = "no" \/ c = Requires[m]
  BY AskedFacts DEF StartBatch, BatchFails
<1>1. TypeOK'
  <2>1. Group(m) \in Seq(Tools) /\ Names(Group(m)) \subseteq Tools
    BY GroupFacts DEF Inv, TypeOK, Names
  <2>2. installed' \in SUBSET Tools
    BY DEF Inv, TypeOK, BatchFails, Delivered
  <2>3. retry' \in Seq({Pkg[t] : t \in Tools})
    BY <2>1 DEF BatchFails
  <2>4. groups' \in SUBSET Managers /\ attempted' \in SUBSET Tools
    BY <2>1 DEF Inv, TypeOK, BatchFails, StartBatch
  <2> QED
    BY <1>0, <2>2, <2>3, <2>4 DEF Inv, TypeOK, BatchFails
<1>2. PlanRight'
  BY DEF Inv, TypeOK, PlanRight, BatchFails, StartBatch
<1>3. InPhase'
  BY DEF Inv, TypeOK, InPhase, BatchFails, StartBatch, On
<1>4. Tried'
  <2>1. /\ pc' \in {"batches", "retry"} /\ exit' # "EXIT_SUCCESS" /\ needs' = needs
        /\ method' = method /\ groups' \subseteq groups
        /\ \A t \in Tools : worker[t] = "waiting" /\ worker'[t] = "waiting"
    BY RegistryTyped DEF Inv, InPhase, BatchFails, StartBatch, ExitCodes
  <2>2. Names(needs) \subseteq Tools
    BY DEF Inv, TypeOK, Names
  <2>3. Names(Group(m)) = {t \in Names(needs) : method[t] = m}
    BY GroupFacts DEF Inv, TypeOK
  <2>4. attempted' = {t \in Names(needs) :
                        method[t] \in Managers \ groups' \/ worker'[t] # "waiting"}
    <3>1. attempted = {t \in Names(needs) :
                         method[t] \in Managers \ groups \/ worker[t] # "waiting"}
      BY DEF Inv, Tried, BatchFails, StartBatch
    <3> QED
      BY <2>1, <2>2, <2>3, <3>1 DEF BatchFails, StartBatch
  <2>5. attempted' = {t \in Names(needs') :
                        method'[t] \in Managers \ groups' \/ worker'[t] # "waiting"}
    BY <2>1, <2>4
  <2> QED
    BY <2>1, <2>5 DEF Inv, Tried, Over
<1>5. Credited'
  <2>1. Names(successes') \subseteq attempted' \cap installed'
    BY DEF Inv, Credited, BatchFails, StartBatch
  <2>2. Group(m) \in Seq(Tools) /\ Group(m)' = Group(m) /\ manager' = m
    BY GroupFacts DEF Inv, TypeOK, BatchFails, Group
  <2>3. retry' # <<>> /\ Names(retry') \subseteq {Pkg[t] : t \in Names(Group(m))}
    BY <2>2 DEF BatchFails, Names
  <2>4. manager' \in Managers \ groups'
    BY <2>2 DEF BatchFails, StartBatch
  <2>5. Group(manager)' = Group(m)
    BY <2>2 DEF BatchFails, Group
  <2> QED
    BY <2>1, <2>3, <2>4, <2>5 DEF Credited
<1>6. HooksRun'
  BY DEF Inv, TypeOK, HooksRun, BatchFails, StartBatch, Over, On, HasHook
<1>7. InTurn'
  <2>1. UNCHANGED <<needs, method, opts, worker>>
    BY DEF BatchFails, StartBatch
  <2> QED
    BY <2>1, TurnKept
<1>8. CacheExplained'
  <2>1. Requires[m] \in AskedEarly
    BY <1>0 DEF Inv, Tried, AskedEarly
  <2>2. UNCHANGED <<config, needs, method, worker>>
    BY DEF BatchFails, StartBatch
  <2> QED
    BY <1>0, <2>1, <2>2, ExplainedKept
<1>9. MethodRight'
  BY DEF Inv, MethodRight, BatchFails
<1> QED
  BY <1>1, <1>2, <1>3, <1>4, <1>5, <1>6, <1>7, <1>8, <1>9 DEF Inv

LEMMA InvRetryPackage ==
  ASSUME Inv, RetryPackage
  PROVE  Inv'
<1> USE DEF host, plan, batch, pool, hooks
<1>1. TypeOK'
  <2>1. Head(retry) \in {Pkg[u] : u \in Tools} /\ retry' \in Seq({Pkg[u] : u \in Tools})
    BY HeadTail DEF Inv, TypeOK, Credited, RetryPackage
  <2>2. installed' \in SUBSET Tools
    BY DEF Inv, TypeOK, RetryPackage, Delivered
  <2>3. CreditedTool(manager, Head(retry)) \in Tools /\ successes \in Seq(Tools)
    BY RetriedTool DEF Inv, TypeOK, RetryPackage
  <2>4. successes' \in Seq(Tools)
    BY <2>3 DEF RetryPackage
  <2> QED
    BY <2>1, <2>2, <2>4 DEF Inv, TypeOK, RetryPackage
<1>2. PlanRight'
  BY DEF Inv, TypeOK, PlanRight, RetryPackage
<1>3. InPhase'
  BY DEF Inv, TypeOK, InPhase, RetryPackage, On
<1>4. Tried'
  <2>1. /\ pc' \in {"retry", "batches"} /\ exit' # "EXIT_SUCCESS" /\ pc = "retry"
        /\ UNCHANGED <<needs, method, groups, worker, attempted>>
    BY RegistryTyped DEF Inv, InPhase, RetryPackage, ExitCodes
  <2> QED
    BY <2>1 DEF Inv, Tried, Over
<1>5. Credited'
  <2> DEFINE c == CreditedTool(manager, Head(retry))
  <2>1. c \in Names(Group(manager)) /\ c \in Tools /\ Pkg[c] = Head(retry)
        /\ method[c] = manager /\ Method[c] = manager
    BY RetriedTool DEF Inv, RetryPackage
  <2>2. c \in attempted
    <3>1. c \in Names(needs) /\ manager \in Managers \ groups
      BY <2>1, GroupFacts DEF Inv, TypeOK, Credited, RetryPackage
    <3> QED
      BY <2>1, <3>1 DEF Inv, Tried, RetryPackage
  <2>3. Names(successes') \subseteq attempted' \cap installed'
    <3>1. CASE successes' = Append(successes, c) /\ installed' = installed \cup Delivered(manager, Head(retry))
      <4>1. c \in installed'
        BY <2>1, <3>1 DEF Delivered
      <4>2. Names(successes') = Names(successes) \cup {c}
        BY <2>1, <3>1, AppendNames DEF Inv, TypeOK
      <4> QED
        BY <2>2, <3>1, <4>1, <4>2 DEF Inv, Credited, RetryPackage
    <3>2. CASE UNCHANGED <<installed, successes>>
      BY <3>2 DEF Inv, Credited, RetryPackage
    <3> QED
      BY <3>1, <3>2 DEF RetryPackage
  <2>4. pc' = "retry" => retry' # <<>>
    <3>1. retry \in Seq({Pkg[u] : u \in Tools}) /\ retry # <<>>
      BY DEF Inv, TypeOK, Credited, RetryPackage
    <3>2. pc' = "retry" => Len(retry) # 1 /\ retry' = Tail(retry)
      BY DEF RetryPackage
    <3>3. /\ Len(retry) \in Nat /\ Len(retry) # 0 /\ Len(Tail(retry)) = Len(retry) - 1
          /\ Len(<<>>) = 0
      BY <3>1
    <3>4. Len(retry) # 1 => Len(Tail(retry)) # 0
      BY <3>3
    <3> QED
      BY <3>2, <3>3, <3>4
  <2>5. Names(retry') \subseteq Names(retry)
    BY HeadTail DEF Inv, TypeOK, Credited, RetryPackage
  <2>6. Group(manager)' = Group(manager) /\ manager' = manager /\ groups' = groups
    BY DEF RetryPackage, Group
  <2>7. pc = "retry"
    BY DEF RetryPackage
  <2> QED
    BY <2>3, <2>4, <2>5, <2>6, <2>7 DEF Inv, Credited
<1>6. HooksRun'
  <2>1. hooked' = <<>> /\ Names(<<>>) = {} /\ pc' \in {"retry", "batches"} /\ exit' # "EXIT_SUCCESS"
    BY RegistryTyped DEF Inv, InPhase, RetryPackage, Names, ExitCodes
  <2> QED
    BY <2>1 DEF HooksRun, Over
<1>7. InTurn'
  <2>1. UNCHANGED <<needs, method, opts, worker>>
    BY DEF RetryPackage
  <2> QED
    BY <2>1, TurnKept
<1>8. CacheExplained'
  <2>1. UNCHANGED <<config, needs, method, worker, has_cache>>
    BY DEF RetryPackage
  <2> QED
    BY <2>1, ExplainedStill
<1>9. MethodRight'
  BY DEF Inv, MethodRight, RetryPackage
<1> QED
  BY <1>1, <1>2, <1>3, <1>4, <1>5, <1>6, <1>7, <1>8, <1>9 DEF Inv

LEMMA InvBatchesDone ==
  ASSUME Inv, BatchesDone
  PROVE  Inv'
<1> USE DEF host, plan, batch, pool, hooks
<1>1. TypeOK'
  BY DEF Inv, TypeOK, BatchesDone
<1>2. PlanRight'
  BY DEF Inv, TypeOK, PlanRight, BatchesDone
<1>3. InPhase'
  BY DEF Inv, TypeOK, InPhase, BatchesDone, On
<1>4. Tried'
  BY DEF Inv, TypeOK, Tried, BatchesDone, Over, On
<1>5. Credited'
  BY DEF Inv, TypeOK, Credited, BatchesDone, Group
<1>6. HooksRun'
  BY DEF Inv, TypeOK, HooksRun, BatchesDone, Over, On, HasHook
<1>7. InTurn'
  <2>1. UNCHANGED <<needs, method, opts, worker>>
    BY DEF BatchesDone
  <2> QED
    BY <2>1, TurnKept
<1>8. CacheExplained'
  <2>1. UNCHANGED <<config, needs, method, worker, has_cache>>
    BY DEF BatchesDone
  <2> QED
    BY <2>1, ExplainedStill
<1>9. MethodRight'
  BY DEF Inv, MethodRight, BatchesDone
<1> QED
  BY <1>1, <1>2, <1>3, <1>4, <1>5, <1>6, <1>7, <1>8, <1>9 DEF Inv

LEMMA InvStartCustom ==
  ASSUME Inv, NEW t \in Tools, StartCustom(t)
  PROVE  Inv'
<1> USE DEF host, plan, batch, pool, hooks
<1>1. TypeOK'
  <2>1. worker' \in [Tools -> {"waiting"} \cup Busy \cup Finished]
    BY DEF Inv, TypeOK, StartCustom, Busy, Finished
  <2> QED
    BY <2>1 DEF Inv, TypeOK, StartCustom
<1>2. PlanRight'
  BY DEF Inv, TypeOK, PlanRight, StartCustom
<1>3. InPhase'
  BY DEF Inv, TypeOK, InPhase, StartCustom, On
<1>4. Tried'
  <2>1. /\ pc' = "custom" /\ exit' # "EXIT_SUCCESS" /\ needs' = needs /\ groups' = groups
        /\ method' = method /\ t \in Names(Group(Custom))
    BY RegistryTyped DEF Inv, InPhase, StartCustom, MayStart, ExitCodes
  <2>2. Names(needs) \subseteq Tools
    BY DEF Inv, TypeOK, Names
  <2>3. t \in Names(needs) /\ method[t] = Custom
    BY <2>1, GroupFacts DEF Inv, TypeOK
  <2>4. /\ worker'[t] # "waiting"
        /\ \A u \in Tools : u # t => worker'[u] = worker[u]
    BY DEF Inv, TypeOK, StartCustom
  <2>5. attempted' = {u \in Names(needs) :
                        method[u] \in Managers \ groups \/ worker'[u] # "waiting"}
    <3>1. attempted = {u \in Names(needs) :
                         method[u] \in Managers \ groups \/ worker[u] # "waiting"}
      BY DEF Inv, Tried, StartCustom
    <3> QED
      BY <2>2, <2>3, <2>4, <3>1 DEF StartCustom
  <2>6. \A u \in Tools : worker'[u] # "waiting" => u \in Names(needs') /\ method[u] = Custom
    BY <2>1, <2>3, <2>4 DEF Inv, Tried
  <2>8. groups \subseteq {method[u] : u \in Names(needs)} \ {Custom}
    BY DEF Inv, Tried
  <2>7. attempted' = {u \in Names(needs') :
                        method[u] \in Managers \ groups' \/ worker'[u] # "waiting"}
    BY <2>1, <2>5
  <2> QED
    BY <2>1, <2>6, <2>7, <2>8 DEF Tried, Over
<1>5. Credited'
  BY DEF Inv, TypeOK, Credited, StartCustom, Group
<1>6. HooksRun'
  BY DEF Inv, TypeOK, HooksRun, StartCustom, Over, On, HasHook
<1>7. InTurn'
  <2> DEFINE g == Group(Custom)
  <2>1. Group(Custom)' = Group(Custom) /\ Workers' = Workers /\ Finished' = Finished
    BY DEF StartCustom, Group, Workers, Finished
  <2>2. g \in Seq(Tools) /\ NoRepeats(g)
    BY GroupFacts DEF Inv, TypeOK, PlanRight
  <2>3. \A u \in Tools : /\ u # t => worker'[u] = worker[u]
                         /\ worker[u] \in Finished => worker'[u] \in Finished
    BY DEF Inv, TypeOK, StartCustom, MayStart, Finished
  <2>4. Workers = 1 => /\ \A i \in DOMAIN g : worker[g[i]] # "waiting" =>
                            \A j \in 1..(i - 1) : worker[g[j]] \in Finished
                       /\ \E i \in DOMAIN g :
                             g[i] = t /\ \A j \in 1..(i - 1) : worker[g[j]] \in Finished
    BY DEF Inv, InTurn, StartCustom, MayStart
  <2>5. /\ \A i \in DOMAIN g : g[i] \in Tools
        /\ \A i \in DOMAIN g : \A j \in 1..(i - 1) : j \in DOMAIN g
    BY <2>2
  <2> HIDE DEF g
  <2>6. Workers = 1 => \A i \in DOMAIN g : worker'[g[i]] # "waiting" =>
                          \A j \in 1..(i - 1) : worker'[g[j]] \in Finished
    <3> SUFFICES ASSUME Workers = 1, NEW i \in DOMAIN g, worker'[g[i]] # "waiting",
                        NEW j \in 1..(i - 1)
                 PROVE  worker'[g[j]] \in Finished
      OBVIOUS
    <3>1. worker[g[j]] \in Finished
      BY <2>2, <2>3, <2>4, <2>5 DEF NoRepeats
    <3> QED
      BY <2>3, <2>5, <3>1
  <2> QED
    BY <2>1, <2>6 DEF InTurn, g
<1>8. CacheExplained'
  <2>1. UNCHANGED <<config, needs, method>>
    BY DEF StartCustom
  <2>2. \A u \in Tools \ {t} : worker'[u] = worker[u]
    BY DEF Inv, TypeOK, StartCustom
  <2>3. /\ worker[t] # "refused"
        /\ worker'[t] \in {"started", "found", "absent", "refused"} =>
              \/ worker[t] \in {"started", "found", "absent", "refused"}
              \/ Prereq[t] # None
    BY DEF Inv, TypeOK, StartCustom, MayStart
  <2>4. \A c \in Commands : has_cache'[c] = "no" =>
            has_cache[c] = "no" \/ (worker'[t] = "refused" /\ Prereq[t] = c)
    BY DEF Inv, TypeOK, StartCustom
  <2> QED
    BY <2>1, <2>2, <2>3, <2>4, ExplainedKept
<1>9. MethodRight'
  BY DEF Inv, MethodRight, StartCustom
<1> QED
  BY <1>1, <1>2, <1>3, <1>4, <1>5, <1>6, <1>7, <1>8, <1>9 DEF Inv

LEMMA InvProbe ==
  ASSUME Inv, NEW t \in Tools, Probe(t)
  PROVE  Inv'
<1> USE DEF host, plan, batch, pool, hooks
<1>1. TypeOK'
  <2>1. worker' \in [Tools -> {"waiting"} \cup Busy \cup Finished]
    BY DEF Inv, TypeOK, Probe, Busy, Finished
  <2> QED
    BY <2>1 DEF Inv, TypeOK, Probe
<1>2. PlanRight'
  BY DEF Inv, TypeOK, PlanRight, Probe
<1>3. InPhase'
  BY DEF Inv, TypeOK, InPhase, Probe, On
<1>4. Tried'
  BY DEF Inv, TypeOK, Tried, Probe, Over, On
<1>5. Credited'
  BY DEF Inv, TypeOK, Credited, Probe, Group
<1>6. HooksRun'
  BY DEF Inv, TypeOK, HooksRun, Probe, Over, On, HasHook
<1>7. InTurn'
  BY TurnKept DEF Inv, TypeOK, Probe, Finished
<1>8. CacheExplained'
  <2>1. UNCHANGED <<config, needs, method>>
    BY DEF Probe
  <2>2. \A u \in Tools \ {t} : worker'[u] = worker[u]
    BY DEF Inv, TypeOK, Probe
  <2>3. /\ worker[t] # "refused"
        /\ worker'[t] \in {"started", "found", "absent", "refused"} =>
              \/ worker[t] \in {"started", "found", "absent", "refused"}
              \/ Prereq[t] # None
    BY DEF Inv, TypeOK, Probe
  <2>4. \A c \in Commands : has_cache'[c] = "no" =>
            has_cache[c] = "no" \/ (worker'[t] = "refused" /\ Prereq[t] = c)
    BY DEF Inv, TypeOK, Probe
  <2> QED
    BY <2>1, <2>2, <2>3, <2>4, ExplainedKept
<1>9. MethodRight'
  BY DEF Inv, MethodRight, Probe
<1> QED
  BY <1>1, <1>2, <1>3, <1>4, <1>5, <1>6, <1>7, <1>8, <1>9 DEF Inv

LEMMA InvRemember ==
  ASSUME Inv, NEW t \in Tools, Remember(t)
  PROVE  Inv'
<1> USE DEF host, plan, batch, pool, hooks
<1>1. TypeOK'
  <2>1. worker' \in [Tools -> {"waiting"} \cup Busy \cup Finished]
    BY DEF Inv, TypeOK, Remember, Busy, Finished
  <2>2. has_cache' \in [Commands -> {"unset", "yes", "no"}]
    BY DEF Inv, TypeOK, Remember
  <2> QED
    BY <2>1, <2>2 DEF Inv, TypeOK, Remember
<1>2. PlanRight'
  BY DEF Inv, TypeOK, PlanRight, Remember
<1>3. InPhase'
  BY DEF Inv, TypeOK, InPhase, Remember, On
<1>4. Tried'
  BY DEF Inv, TypeOK, Tried, Remember, Over, On
<1>5. Credited'
  BY DEF Inv, TypeOK, Credited, Remember, Group
<1>6. HooksRun'
  BY DEF Inv, TypeOK, HooksRun, Remember, Over, On, HasHook
<1>7. InTurn'
  BY TurnKept DEF Inv, TypeOK, Remember, Finished
<1>8. CacheExplained'
  <2>1. UNCHANGED <<config, needs, method>>
    BY DEF Remember
  <2>2. \A u \in Tools \ {t} : worker'[u] = worker[u]
    BY DEF Inv, TypeOK, Remember
  <2>3. /\ worker[t] # "refused"
        /\ worker'[t] \in {"started", "found", "absent", "refused"} =>
              \/ worker[t] \in {"started", "found", "absent", "refused"}
              \/ Prereq[t] # None
    BY DEF Inv, TypeOK, Remember
  <2>4. \A c \in Commands : has_cache'[c] = "no" =>
            has_cache[c] = "no" \/ (worker'[t] = "refused" /\ Prereq[t] = c)
    BY DEF Inv, TypeOK, Remember
  <2> QED
    BY <2>1, <2>2, <2>3, <2>4, ExplainedKept
<1>9. MethodRight'
  BY DEF Inv, MethodRight, Remember
<1> QED
  BY <1>1, <1>2, <1>3, <1>4, <1>5, <1>6, <1>7, <1>8, <1>9 DEF Inv

LEMMA InvInstallerSucceeds ==
  ASSUME Inv, NEW t \in Tools, InstallerSucceeds(t)
  PROVE  Inv'
<1> USE DEF host, plan, batch, pool, hooks
<1>1. TypeOK'
  <2>1. worker' \in [Tools -> {"waiting"} \cup Busy \cup Finished]
    BY DEF Inv, TypeOK, InstallerSucceeds, Busy, Finished
  <2>2. installed' \in SUBSET Tools /\ successes' \in Seq(Tools)
    BY DEF Inv, TypeOK, InstallerSucceeds
  <2> QED
    BY <2>1, <2>2 DEF Inv, TypeOK, InstallerSucceeds
<1>2. PlanRight'
  BY DEF Inv, TypeOK, PlanRight, InstallerSucceeds
<1>3. InPhase'
  BY DEF Inv, TypeOK, InPhase, InstallerSucceeds, On
<1>4. Tried'
  <2>1. \A u \in Tools : worker'[u] # "waiting" <=> worker[u] # "waiting"
    BY DEF Inv, TypeOK, InstallerSucceeds
  <2>2. UNCHANGED <<needs, method, groups, opts, pc, exit, attempted>>
    BY DEF InstallerSucceeds
  <2>3. pc = "custom" /\ (Over' <=> Over) /\ On("dry_run")' = On("dry_run")
    BY <2>2 DEF InstallerSucceeds, Over, On
  <2>4. {u \in Names(needs') : method'[u] \in Managers \ groups' \/ worker'[u] # "waiting"} =
           {u \in Names(needs) : method[u] \in Managers \ groups \/ worker[u] # "waiting"}
    <3>1. Names(needs) \subseteq Tools
      BY DEF Inv, TypeOK, Names
    <3> QED
      BY <2>1, <2>2, <3>1
  <2> QED
    BY <2>1, <2>2, <2>3, <2>4 DEF Inv, Tried
<1>5. Credited'
  <2>1. Names(successes') = Names(successes) \cup {t}
    BY AppendNames DEF Inv, TypeOK, InstallerSucceeds
  <2>2. t \in attempted
    BY DEF Inv, TypeOK, Tried, InstallerSucceeds
  <2> QED
    BY <2>1, <2>2 DEF Inv, Credited, InstallerSucceeds
<1>6. HooksRun'
  <2>1. hooked' = <<>> /\ Names(<<>>) = {} /\ pc' = "custom" /\ exit' # "EXIT_SUCCESS"
    BY RegistryTyped DEF Inv, InPhase, InstallerSucceeds, Names, ExitCodes
  <2> QED
    BY <2>1 DEF HooksRun, Over
<1>7. InTurn'
  BY TurnKept DEF Inv, TypeOK, InstallerSucceeds, Finished
<1>8. CacheExplained'
  <2>1. UNCHANGED <<config, needs, method>>
    BY DEF InstallerSucceeds
  <2>2. \A u \in Tools \ {t} : worker'[u] = worker[u]
    BY DEF Inv, TypeOK, InstallerSucceeds
  <2>3. /\ worker[t] # "refused"
        /\ worker'[t] \in {"started", "found", "absent", "refused"} =>
              \/ worker[t] \in {"started", "found", "absent", "refused"}
              \/ Prereq[t] # None
    BY DEF Inv, TypeOK, InstallerSucceeds
  <2>4. \A c \in Commands : has_cache'[c] = "no" =>
            has_cache[c] = "no" \/ (worker'[t] = "refused" /\ Prereq[t] = c)
    BY DEF Inv, TypeOK, InstallerSucceeds
  <2> QED
    BY <2>1, <2>2, <2>3, <2>4, ExplainedKept
<1>9. MethodRight'
  BY DEF Inv, MethodRight, InstallerSucceeds
<1> QED
  BY <1>1, <1>2, <1>3, <1>4, <1>5, <1>6, <1>7, <1>8, <1>9 DEF Inv

LEMMA InvInstallerFails ==
  ASSUME Inv, NEW t \in Tools, InstallerFails(t)
  PROVE  Inv'
<1> USE DEF host, plan, batch, pool, hooks
<1>1. TypeOK'
  <2>1. worker' \in [Tools -> {"waiting"} \cup Busy \cup Finished]
    BY DEF Inv, TypeOK, InstallerFails, Busy, Finished
  <2> QED
    BY <2>1 DEF Inv, TypeOK, InstallerFails
<1>2. PlanRight'
  BY DEF Inv, TypeOK, PlanRight, InstallerFails
<1>3. InPhase'
  BY DEF Inv, TypeOK, InPhase, InstallerFails, On
<1>4. Tried'
  BY DEF Inv, TypeOK, Tried, InstallerFails, Over, On
<1>5. Credited'
  BY DEF Inv, TypeOK, Credited, InstallerFails, Group
<1>6. HooksRun'
  BY DEF Inv, TypeOK, HooksRun, InstallerFails, Over, On, HasHook
<1>7. InTurn'
  BY TurnKept DEF Inv, TypeOK, InstallerFails, Finished
<1>8. CacheExplained'
  <2>1. UNCHANGED <<config, needs, method>>
    BY DEF InstallerFails
  <2>2. \A u \in Tools \ {t} : worker'[u] = worker[u]
    BY DEF Inv, TypeOK, InstallerFails
  <2>3. /\ worker[t] # "refused"
        /\ worker'[t] \in {"started", "found", "absent", "refused"} =>
              \/ worker[t] \in {"started", "found", "absent", "refused"}
              \/ Prereq[t] # None
    BY DEF Inv, TypeOK, InstallerFails
  <2>4. \A c \in Commands : has_cache'[c] = "no" =>
            has_cache[c] = "no" \/ (worker'[t] = "refused" /\ Prereq[t] = c)
    BY DEF Inv, TypeOK, InstallerFails
  <2> QED
    BY <2>1, <2>2, <2>3, <2>4, ExplainedKept
<1>9. MethodRight'
  BY DEF Inv, MethodRight, InstallerFails
<1> QED
  BY <1>1, <1>2, <1>3, <1>4, <1>5, <1>6, <1>7, <1>8, <1>9 DEF Inv

LEMMA InvCustomDone ==
  ASSUME Inv, CustomDone
  PROVE  Inv'
<1> USE DEF host, plan, batch, pool, hooks
<1>1. TypeOK'
  BY DEF Inv, TypeOK, CustomDone
<1>2. PlanRight'
  BY DEF Inv, TypeOK, PlanRight, CustomDone
<1>3. InPhase'
  BY DEF Inv, TypeOK, InPhase, CustomDone, On
<1>4. Tried'
  <2>1. /\ \A u \in Names(needs) : method[u] = Custom => worker[u] # "waiting"
        /\ Names(needs) \subseteq Tools
    <3>1. Names(Group(Custom)) = {u \in Names(needs) : method[u] = Custom}
      BY GroupFacts DEF Inv, TypeOK
    <3>2. Names(needs) \subseteq Tools
      BY DEF Inv, TypeOK, Names
    <3> QED
      BY <3>1, <3>2 DEF CustomDone, Finished
  <2>2. \A u \in Names(needs) : method[u] \in Managers \/ worker[u] # "waiting"
    BY <2>1, RegistryTyped DEF Inv, TypeOK
  <2>3. attempted = Names(needs)
    BY <2>2 DEF Inv, InPhase, Tried, CustomDone
  <2>4. exit' # "EXIT_SUCCESS"
    BY RegistryTyped DEF Inv, InPhase, CustomDone, ExitCodes
  <2> QED
    BY <2>3, <2>4 DEF Inv, Tried, CustomDone, Over
<1>5. Credited'
  BY DEF Inv, TypeOK, Credited, CustomDone, Group
<1>6. HooksRun'
  <2>1. /\ hooked' = <<>> /\ Names(<<>>) = {} /\ next_hook' = 1 /\ pc' = "tool_hooks"
        /\ exit' # "EXIT_SUCCESS" /\ successes' = successes
    BY RegistryTyped DEF Inv, InPhase, CustomDone, Names, ExitCodes
  <2>2. \A i \in DOMAIN successes : i \in Nat /\ ~ (i < 1)
    BY DEF Inv, TypeOK
  <2> QED
    BY <2>1, <2>2 DEF HooksRun, Over
<1>7. InTurn'
  <2>1. UNCHANGED <<needs, method, opts, worker>>
    BY DEF CustomDone
  <2> QED
    BY <2>1, TurnKept
<1>8. CacheExplained'
  <2>1. UNCHANGED <<config, needs, method, worker, has_cache>>
    BY DEF CustomDone
  <2> QED
    BY <2>1, ExplainedStill
<1>9. MethodRight'
  BY DEF Inv, MethodRight, CustomDone
<1> QED
  BY <1>1, <1>2, <1>3, <1>4, <1>5, <1>6, <1>7, <1>8, <1>9 DEF Inv

LEMMA InvRunToolHook ==
  ASSUME Inv, RunToolHook
  PROVE  Inv'
<1> USE DEF host, plan, batch, pool, hooks
<1>1. TypeOK'
  <2>1. successes[next_hook] \in Tools
    BY DEF Inv, TypeOK, RunToolHook, HookDue
  <2>2. hooked' \in Seq(Tools)
    BY <2>1 DEF Inv, TypeOK, RunToolHook
  <2>3. next_hook' \in Nat \ {0}
    BY DEF Inv, TypeOK, RunToolHook
  <2> QED
    BY <2>2, <2>3 DEF Inv, TypeOK, RunToolHook
<1>2. PlanRight'
  BY DEF Inv, TypeOK, PlanRight, RunToolHook
<1>3. InPhase'
  BY DEF Inv, InPhase, RunToolHook, HookDue, On
<1>4. Tried'
  BY DEF Inv, TypeOK, Tried, RunToolHook, Over, On
<1>5. Credited'
  BY DEF Inv, TypeOK, Credited, RunToolHook, Group
<1>6. HooksRun'
  <2> DEFINE h == successes[next_hook]
  <2>1. /\ pc = "tool_hooks" /\ pc' = pc /\ exit' # "EXIT_SUCCESS" /\ opts' = opts
        /\ successes' = successes /\ next_hook' = next_hook + 1 /\ ~On("no_hooks")
        /\ next_hook \in DOMAIN successes
    BY RegistryTyped DEF Inv, InPhase, RunToolHook, HookDue, ExitCodes
  <2>2. h \in Tools /\ h \in Names(successes)
    BY <2>1 DEF Inv, TypeOK, Names
  <2>3. Names(hooked') = IF HasHook(h) THEN Names(hooked) \cup {h} ELSE Names(hooked)
    <3>1. hooked' = IF HasHook(h) THEN Append(hooked, h) ELSE hooked
      BY DEF RunToolHook
    <3>2. hooked \in Seq(Tools)
      BY DEF Inv, TypeOK
    <3> HIDE DEF h
    <3>3. Names(Append(hooked, h)) = Names(hooked) \cup {h}
      BY <2>2, <3>2, AppendNames
    <3>4. CASE HasHook(h)
      BY <3>1, <3>3, <3>4
    <3>5. CASE ~ HasHook(h)
      BY <3>1, <3>5
    <3> QED
      BY <3>4, <3>5
  <2>4. Names(hooked') \subseteq Names(successes')
    BY <2>1, <2>2, <2>3 DEF Inv, HooksRun
  <2>5. ASSUME NEW i \in DOMAIN successes, i < next_hook', HasHook(successes[i])
        PROVE  successes[i] \in Names(hooked')
    <3>1. i \in Nat /\ next_hook \in Nat
      BY DEF Inv, TypeOK
    <3>2. CASE i = next_hook
      BY <2>3, <2>5, <3>2
    <3>3. CASE i # next_hook
      <4>1. i < next_hook
        BY <2>1, <2>5, <3>1, <3>3
      <4> QED
        BY <2>1, <2>3, <2>5, <4>1 DEF Inv, HooksRun
    <3> QED
      BY <3>2, <3>3
  <2> QED
    BY <2>1, <2>4, <2>5 DEF HooksRun, Over, HasHook
<1>7. InTurn'
  <2>1. UNCHANGED <<needs, method, opts, worker>>
    BY DEF RunToolHook
  <2> QED
    BY <2>1, TurnKept
<1>8. CacheExplained'
  <2>1. UNCHANGED <<config, needs, method, worker, has_cache>>
    BY DEF RunToolHook
  <2> QED
    BY <2>1, ExplainedStill
<1>9. MethodRight'
  BY DEF Inv, MethodRight, RunToolHook
<1> QED
  BY <1>1, <1>2, <1>3, <1>4, <1>5, <1>6, <1>7, <1>8, <1>9 DEF Inv

LEMMA InvToolHookFails ==
  ASSUME Inv, ToolHookFails
  PROVE  Inv'
<1> USE DEF host, plan, batch, pool, hooks
<1>1. TypeOK'
  <2>1. successes[next_hook] \in Tools
    BY DEF Inv, TypeOK, ToolHookFails, HookDue
  <2>2. hooked' \in Seq(Tools)
    BY <2>1 DEF Inv, TypeOK, ToolHookFails
  <2> QED
    BY <2>2 DEF Inv, TypeOK, ToolHookFails, Exit, ExitCodes
<1>2. PlanRight'
  BY DEF Inv, TypeOK, PlanRight, ToolHookFails, Exit
<1>3. InPhase'
  BY DEF Inv, TypeOK, InPhase, ToolHookFails, Exit, On
<1>4. Tried'
  BY DEF Inv, TypeOK, Tried, ToolHookFails, Exit, Over, On
<1>5. Credited'
  BY DEF Inv, TypeOK, Credited, ToolHookFails, Exit, Group
<1>6. HooksRun'
  <2>1. successes[next_hook] \in Tools /\ successes[next_hook] \in Names(successes)
    BY DEF Inv, TypeOK, ToolHookFails, HookDue, Names
  <2>2. Names(hooked') = Names(hooked) \cup {successes[next_hook]}
    BY <2>1, AppendNames DEF Inv, TypeOK, ToolHookFails
  <2> QED
    BY <2>1, <2>2 DEF Inv, HooksRun, ToolHookFails, Exit, Over
<1>7. InTurn'
  <2>1. UNCHANGED <<needs, method, opts, worker>>
    BY DEF ToolHookFails
  <2> QED
    BY <2>1, TurnKept
<1>8. CacheExplained'
  <2>1. UNCHANGED <<config, needs, method, worker, has_cache>>
    BY DEF ToolHookFails
  <2> QED
    BY <2>1, ExplainedKept
<1>9. MethodRight'
  BY DEF Inv, MethodRight, ToolHookFails
<1> QED
  BY <1>1, <1>2, <1>3, <1>4, <1>5, <1>6, <1>7, <1>8, <1>9 DEF Inv

LEMMA InvToolHooksDone ==
  ASSUME Inv, ToolHooksDone
  PROVE  Inv'
<1> USE DEF host, plan, batch, pool, hooks
<1>1. TypeOK'
  BY DEF Inv, TypeOK, ToolHooksDone
<1>2. PlanRight'
  BY DEF Inv, TypeOK, PlanRight, ToolHooksDone
<1>3. InPhase'
  BY DEF Inv, TypeOK, InPhase, ToolHooksDone, On
<1>4. Tried'
  <2>1. attempted = Names(needs) /\ ~On("dry_run")
    BY DEF Inv, InPhase, Tried, ToolHooksDone
  <2> QED
    BY <2>1 DEF Inv, Tried, ToolHooksDone, Over, On
<1>5. Credited'
  BY DEF Inv, TypeOK, Credited, ToolHooksDone, Group
<1>6. HooksRun'
  <2>1. /\ pc = "tool_hooks" /\ pc' = "post_setup" /\ opts' = opts
        /\ successes' = successes /\ hooked' = hooked
        /\ On("no_hooks") \/ next_hook \notin DOMAIN successes
    BY DEF ToolHooksDone, HookDue
  <2>2. ASSUME ~On("no_hooks"), NEW h \in Names(successes), HasHook(h)
        PROVE  h \in Names(hooked)
    <3>1. PICK i \in DOMAIN successes : successes[i] = h
      BY DEF Names
    <3>2. /\ DOMAIN successes = 1..Len(successes) /\ Len(successes) \in Nat
          /\ next_hook \in Nat /\ next_hook # 0
      BY DEF Inv, TypeOK
    <3>3. i < next_hook
      BY <2>1, <2>2, <3>2
    <3> QED
      BY <2>1, <2>2, <3>1, <3>3 DEF Inv, HooksRun
  <2>3. Names(hooked) \subseteq Names(successes)
    BY DEF Inv, HooksRun
  <2> QED
    BY <2>1, <2>2, <2>3 DEF HooksRun, On, HasHook
<1>7. InTurn'
  <2>1. UNCHANGED <<needs, method, opts, worker>>
    BY DEF ToolHooksDone
  <2> QED
    BY <2>1, TurnKept
<1>8. CacheExplained'
  <2>1. UNCHANGED <<config, needs, method, worker, has_cache>>
    BY DEF ToolHooksDone
  <2> QED
    BY <2>1, ExplainedStill
<1>9. MethodRight'
  BY DEF Inv, MethodRight, ToolHooksDone
<1> QED
  BY <1>1, <1>2, <1>3, <1>4, <1>5, <1>6, <1>7, <1>8, <1>9 DEF Inv

LEMMA InvPostSetup ==
  ASSUME Inv, PostSetup
  PROVE  Inv'
<1> USE DEF host, plan, batch, pool, hooks
<1>1. TypeOK'
  BY DEF Inv, TypeOK, PostSetup
<1>2. PlanRight'
  BY DEF Inv, TypeOK, PlanRight, PostSetup
<1>3. InPhase'
  BY DEF Inv, TypeOK, InPhase, PostSetup, On
<1>4. Tried'
  BY DEF Inv, TypeOK, Tried, PostSetup, Over, On
<1>5. Credited'
  BY DEF Inv, TypeOK, Credited, PostSetup, Group
<1>6. HooksRun'
  BY DEF Inv, TypeOK, HooksRun, PostSetup, Over, On, HasHook
<1>7. InTurn'
  <2>1. UNCHANGED <<needs, method, opts, worker>>
    BY DEF PostSetup
  <2> QED
    BY <2>1, TurnKept
<1>8. CacheExplained'
  <2>1. UNCHANGED <<config, needs, method, worker, has_cache>>
    BY DEF PostSetup
  <2> QED
    BY <2>1, ExplainedStill
<1>9. MethodRight'
  BY DEF Inv, MethodRight, PostSetup
<1> QED
  BY <1>1, <1>2, <1>3, <1>4, <1>5, <1>6, <1>7, <1>8, <1>9 DEF Inv

LEMMA InvWriteBaseline ==
  ASSUME Inv, WriteBaseline
  PROVE  Inv'
<1> USE DEF host, plan, batch, pool, hooks
<1>1. TypeOK'
  <2>1. baseline' = None \/ baseline' \in [by_drift : BOOLEAN, tools : SUBSET Tools]
    <3>1. [by_drift |-> On("drift"), tools |-> Found]
             \in [by_drift : BOOLEAN, tools : SUBSET Tools]
      BY DEF Inv, TypeOK, On, Found
    <3> QED
      BY <3>1 DEF Inv, TypeOK, WriteBaseline, CaptureBaseline
  <2> QED
    BY <2>1 DEF Inv, TypeOK, WriteBaseline
<1>2. PlanRight'
  BY DEF Inv, TypeOK, PlanRight, WriteBaseline
<1>3. InPhase'
  BY DEF Inv, TypeOK, InPhase, WriteBaseline, On
<1>4. Tried'
  BY DEF Inv, TypeOK, Tried, WriteBaseline, Over, On
<1>5. Credited'
  BY DEF Inv, TypeOK, Credited, WriteBaseline, Group
<1>6. HooksRun'
  BY DEF Inv, TypeOK, HooksRun, WriteBaseline, Over, On, HasHook
<1>7. InTurn'
  <2>1. UNCHANGED <<needs, method, opts, worker>>
    BY DEF WriteBaseline
  <2> QED
    BY <2>1, TurnKept
<1>8. CacheExplained'
  <2>1. UNCHANGED <<config, needs, method, worker, has_cache>>
    BY DEF WriteBaseline
  <2> QED
    BY <2>1, ExplainedStill
<1>9. MethodRight'
  BY DEF Inv, MethodRight, WriteBaseline
<1> QED
  BY <1>1, <1>2, <1>3, <1>4, <1>5, <1>6, <1>7, <1>8, <1>9 DEF Inv

LEMMA InvFinish ==
  ASSUME Inv, Finish
  PROVE  Inv'
<1> USE DEF host, plan, batch, pool, hooks
<1>1. TypeOK'
  <2>1. initialized' \in BOOLEAN
    BY DEF Inv, TypeOK, Finish, On
  <2> QED
    BY <2>1 DEF Inv, TypeOK, Finish, Exit, ExitCodes
<1>2. PlanRight'
  BY DEF Inv, TypeOK, PlanRight, Finish, Exit
<1>3. InPhase'
  BY DEF Inv, TypeOK, InPhase, Finish, Exit, On
<1>4. Tried'
  BY DEF Inv, TypeOK, Tried, Finish, Exit, Over, On
<1>5. Credited'
  BY DEF Inv, TypeOK, Credited, Finish, Exit, Group
<1>6. HooksRun'
  BY DEF Inv, TypeOK, HooksRun, Finish, Exit, Over, On, HasHook
<1>7. InTurn'
  <2>1. UNCHANGED <<needs, method, opts, worker>>
    BY DEF Finish
  <2> QED
    BY <2>1, TurnKept
<1>8. CacheExplained'
  <2>1. UNCHANGED <<config, needs, method, worker, has_cache>>
    BY DEF Finish
  <2> QED
    BY <2>1, ExplainedStill
<1>9. MethodRight'
  BY DEF Inv, MethodRight, Finish
<1> QED
  BY <1>1, <1>2, <1>3, <1>4, <1>5, <1>6, <1>7, <1>8, <1>9 DEF Inv

LEMMA InvBegin ==
  ASSUME Inv, NEW s \in Settings, Begin(s)
  PROVE  Inv'
<1> USE DEF host, plan, batch, pool, hooks
<1>1. TypeOK'
  <2>1. /\ runs' \in 0..MaxRuns /\ opts' \in Settings
        /\ method' \in [Tools -> Managers \cup {Custom}]
        /\ needs' = <<>> /\ groups' = {} /\ retry' = <<>> /\ manager' = None
        /\ worker' \in [Tools -> {"waiting"} \cup Busy \cup Finished]
        /\ has_cache' \in [Commands -> {"unset", "yes", "no"}]
        /\ successes' = <<>> /\ next_hook' = 1 /\ hooked' = <<>>
        /\ exit' = None /\ attempted' = {} /\ pc' = "pre_setup"
        /\ UNCHANGED <<host, config>>
    BY SettingsTyped, RegistryTyped DEF Inv, TypeOK, Begin
  <2>2. <<>> \in Seq(Tools) /\ <<>> \in Seq({Pkg[u] : u \in Tools})
    OBVIOUS
  <2> QED
    BY <2>1, <2>2 DEF Inv, TypeOK
<1>2. PlanRight'
  <2>1. /\ needs' = <<>> /\ Names(<<>>) = {} /\ DOMAIN <<>> = {} /\ pc' = "pre_setup"
        /\ successes' = <<>> /\ hooked' = <<>> /\ attempted' = {} /\ exit' # "EXIT_SUCCESS"
        /\ \A u \in Tools : worker'[u] = "waiting"
    BY RegistryTyped DEF Begin, Names, ExitCodes
  <2>2. NoRepeats(<<>>) /\ InDependencyOrder(Inventory, {}, <<>>)
    BY DEF NoRepeats, InDependencyOrder
  <2> QED
    BY <2>1, <2>2 DEF PlanRight
<1>3. InPhase'
  BY DEF Inv, TypeOK, InPhase, Begin, On
<1>4. Tried'
  <2>1. /\ needs' = <<>> /\ Names(<<>>) = {} /\ DOMAIN <<>> = {} /\ pc' = "pre_setup"
        /\ successes' = <<>> /\ hooked' = <<>> /\ attempted' = {} /\ exit' # "EXIT_SUCCESS"
        /\ \A u \in Tools : worker'[u] = "waiting"
        /\ groups' = {}
    BY RegistryTyped DEF Begin, Names, ExitCodes
  <2> QED
    BY <2>1 DEF Tried, Over
<1>5. Credited'
  <2>1. /\ needs' = <<>> /\ Names(<<>>) = {} /\ DOMAIN <<>> = {} /\ pc' = "pre_setup"
        /\ successes' = <<>> /\ hooked' = <<>> /\ attempted' = {} /\ exit' # "EXIT_SUCCESS"
        /\ \A u \in Tools : worker'[u] = "waiting"
    BY RegistryTyped DEF Begin, Names, ExitCodes
  <2> QED
    BY <2>1 DEF Credited
<1>6. HooksRun'
  BY DEF Inv, TypeOK, HooksRun, Begin, Over, On, HasHook
<1>7. InTurn'
  <2>1. needs' \in Seq(Tools)
    BY DEF Begin
  <2>2. Group(Custom)' \in Seq(Tools)
    BY <2>1, KeptPlaces DEF Group
  <2>3. \A u \in Tools : worker'[u] = "waiting"
    BY DEF Begin
  <2>4. \A i \in DOMAIN Group(Custom)' : Group(Custom)'[i] \in Tools
    BY <2>2
  <2> QED
    BY <2>3, <2>4 DEF InTurn
<1>8. CacheExplained'
  BY DEF Inv, TypeOK, CacheExplained, Begin
<1>9. MethodRight'
  BY DEF Inv, MethodRight, Begin
<1> QED
  BY <1>1, <1>2, <1>3, <1>4, <1>5, <1>6, <1>7, <1>8, <1>9 DEF Inv

(* A run that gives up: it is killed, or ends with an error.                  *)
LEMMA InvQuits ==
  ASSUME Inv, pc' = "idle", exit' \in ExitCodes \ {"EXIT_SUCCESS"},
         UNCHANGED <<host, plan, batch, worker, successes, hooks, attempted>>,
         has_cache' = has_cache \/ has_cache' = Asked(CheckAsked)
  PROVE  Inv'
<1> USE DEF host, plan, batch, hooks
<1>0. /\ has_cache' \in [Commands -> {"unset", "yes", "no"}]
      /\ \A c \in Commands : has_cache'[c] = "no" => has_cache[c] = "no" \/ c \in CheckAsked
  BY AskedFacts DEF Inv, TypeOK
<1>1. TypeOK'
  BY <1>0 DEF Inv, TypeOK, ExitCodes
<1>2. PlanRight'
  BY DEF Inv, TypeOK, PlanRight, ExitCodes
<1>3. InPhase'
  BY DEF Inv, TypeOK, InPhase, ExitCodes, On
<1>4. Tried'
  BY DEF Inv, TypeOK, Tried, ExitCodes, Over, On
<1>5. Credited'
  BY DEF Inv, TypeOK, Credited, ExitCodes, Group
<1>6. HooksRun'
  BY DEF Inv, TypeOK, HooksRun, ExitCodes, Over, On, HasHook
<1>7. InTurn'
  BY TurnKept
<1>8. CacheExplained'
  <2>1. CheckAsked \subseteq AskedEarly /\ UNCHANGED <<config, needs, method, worker>>
    BY DEF AskedEarly
  <2> QED
    BY <1>0, <2>1, ExplainedKept
<1>9. MethodRight'
  BY DEF Inv, MethodRight, plan
<1> QED
  BY <1>1, <1>2, <1>3, <1>4, <1>5, <1>6, <1>7, <1>8, <1>9 DEF Inv

LEMMA InvStutter == Inv /\ UNCHANGED vars => Inv'
<1> SUFFICES ASSUME Inv, UNCHANGED vars PROVE Inv'
  OBVIOUS
<1> USE DEF vars, host, plan, batch, pool, hooks
<1>1. TypeOK'
  BY DEF Inv, TypeOK, ExitCodes
<1>2. PlanRight'
  BY DEF Inv, TypeOK, PlanRight, ExitCodes
<1>3. InPhase'
  BY DEF Inv, TypeOK, InPhase, ExitCodes, On
<1>4. Tried'
  BY DEF Inv, TypeOK, Tried, ExitCodes, Over, On
<1>5. Credited'
  BY DEF Inv, TypeOK, Credited, ExitCodes, Group
<1>6. HooksRun'
  BY DEF Inv, TypeOK, HooksRun, ExitCodes, Over, On, HasHook
<1>7. InTurn'
  BY TurnKept
<1>8. CacheExplained'
  BY ExplainedStill
<1>9. MethodRight'
  BY DEF Inv, MethodRight, vars
<1> QED
  BY <1>1, <1>2, <1>3, <1>4, <1>5, <1>6, <1>7, <1>8, <1>9 DEF Inv

LEMMA InvInit == Init => Inv
<1> SUFFICES ASSUME Init PROVE Inv
  OBVIOUS
<1>0. /\ needs = <<>> /\ Names(<<>>) = {} /\ <<>> \in Seq(Tools)
      /\ <<>> \in Seq({Pkg[u] : u \in Tools}) /\ exit # "EXIT_SUCCESS"
  BY RegistryTyped DEF Init, Names, ExitCodes
<1>1. TypeOK
  <2>1. worker \in [Tools -> {"waiting"} \cup Busy \cup Finished]
    BY DEF Init
  <2>2. has_cache \in [Commands -> {"unset", "yes", "no"}]
    BY DEF Init
  <2>3. runs \in 0..MaxRuns
    BY SettingsTyped DEF Init
  <2>4. /\ installed \in SUBSET Tools /\ baseline = None /\ initialized \in BOOLEAN
        /\ config \in Configs /\ pc = "idle" /\ opts \in Settings /\ groups = {}
        /\ method \in [Tools -> Managers \cup {Custom}]
        /\ manager = None /\ next_hook = 1 /\ exit = None /\ attempted = {}
    BY RegistryTyped DEF Init
  <2>5. needs = <<>> /\ retry = <<>> /\ successes = <<>> /\ hooked = <<>>
    BY DEF Init
  <2> QED
    BY <1>0, <2>1, <2>2, <2>3, <2>4, <2>5 DEF TypeOK
<1>2. PlanRight
  <2>1. NoRepeats(<<>>) /\ InDependencyOrder(Inventory, {}, <<>>)
    BY DEF NoRepeats, InDependencyOrder
  <2> QED
    BY <1>0, <2>1 DEF Init, PlanRight
<1>3. InPhase
  BY DEF Init, InPhase
<1>4. Tried
  BY <1>0 DEF Init, Tried, Over
<1>5. Credited
  BY <1>0 DEF Init, Credited
<1>6. HooksRun
  BY <1>0 DEF Init, HooksRun, Over
<1>7. InTurn
  <2>1. Group(Custom) \in Seq(Tools)
    BY <1>0, KeptPlaces DEF Group
  <2>2. \A i \in DOMAIN Group(Custom) : worker[Group(Custom)[i]] = "waiting"
    BY <2>1 DEF Init
  <2> QED
    BY <2>2 DEF InTurn
<1>8. CacheExplained
  BY DEF Init, CacheExplained
<1>9. MethodRight
  BY RegistryTyped DEF MethodRight, Init
<1> QED
  BY <1>1, <1>2, <1>3, <1>4, <1>5, <1>6, <1>7, <1>8, <1>9 DEF Inv

LEMMA InvNext == Inv /\ [Next]_vars => Inv'
<1> SUFFICES ASSUME Inv, Next PROVE Inv'
  BY InvStutter
<1>1. ASSUME \/ PreSetupFails \/ VerifyOnlyRefuses \/ RefuseUnknown \/ PostSetupFails \/ Crash
      PROVE  Inv'
  <2>1. /\ pc' = "idle" /\ exit' \in ExitCodes \ {"EXIT_SUCCESS"}
        /\ UNCHANGED <<host, plan, batch, worker, successes, hooks, attempted>>
        /\ has_cache' = has_cache \/ has_cache' = Asked(CheckAsked)
    BY <1>1 DEF PreSetupFails, VerifyOnlyRefuses, RefuseUnknown, PostSetupFails, Crash, Exit,
                ExitCodes, pool
  <2> QED
    BY <2>1, InvQuits
<1>2. ASSUME NEW m \in Managers, BatchSucceeds(m) \/ SingleFails(m) \/ BatchFails(m)
      PROVE  Inv'
  BY <1>2, InvBatchSucceeds, InvSingleFails, InvBatchFails
<1>3. ASSUME NEW t \in Tools, \/ StartCustom(t) \/ Probe(t) \/ Remember(t)
                              \/ InstallerSucceeds(t) \/ InstallerFails(t)
      PROVE  Inv'
  BY <1>3, InvStartCustom, InvProbe, InvRemember, InvInstallerSucceeds, InvInstallerFails
<1>4. ASSUME NEW s \in Settings, Begin(s) PROVE Inv'
  BY <1>4, InvBegin
<1>5. CASE PreSetup \/ VerifyOnlyPasses \/ Plan \/ RetryPackage \/ BatchesDone \/ CustomDone
  BY <1>5, InvPreSetup, InvVerifyOnlyPasses, InvPlan, InvRetryPackage, InvBatchesDone, InvCustomDone
<1>6. CASE \/ RunToolHook \/ ToolHookFails \/ ToolHooksDone \/ PostSetup \/ WriteBaseline \/ Finish
  BY <1>6, InvRunToolHook, InvToolHookFails, InvToolHooksDone, InvPostSetup, InvWriteBaseline,
     InvFinish
<1> QED
  BY <1>1, <1>2, <1>3, <1>4, <1>5, <1>6 DEF Next, Step

(* The types hold in every run, however it ends.                             *)
THEOREM Invariance == Spec => []Inv
<1> QED
  BY InvInit, InvNext, PTL DEF Spec

(* Only known tools are ever planned, installed, credited or hooked, and     *)
(* only package managers have batches.                                       *)
THEOREM TypeCorrect == Spec => []TypeOK
<1>1. Inv => TypeOK
  BY DEF Inv
<1> QED
  BY <1>1, Invariance, PTL

(* A run that ends with 0 has tried every tool it found missing, whichever   *)
(* batches, retries and installers failed; a dry run has tried none.         *)
THEOREM AllTried == Spec => []EveryMissingToolTried
<1>1. Inv => EveryMissingToolTried
  BY DEF Inv, Tried, Over, EveryMissingToolTried
<1> QED
  BY <1>1, Invariance, PTL

LEMMA Honoured == Inv => SequentialHonoursOrder
<1> SUFFICES ASSUME Inv, Workers = 1, ~HasCycle(Inventory, Names(needs)),
                    NEW t \in Names(Group(Custom)), worker[t] # "waiting",
                    NEW d \in StrictDeps(Inventory, t) \cap Names(Group(Custom))
             PROVE  worker[d] \in Finished
  BY DEF SequentialHonoursOrder
<1>1. needs \in Seq(Tools) /\ InDependencyOrder(Inventory, Names(needs), needs)
  BY DEF Inv, TypeOK, PlanRight
<1>2. PICK i \in DOMAIN Group(Custom) : Group(Custom)[i] = t
  BY DEF Names
<1>3. d \in Names(needs)
  BY <1>1, GroupFacts
<1>4. PICK j \in 1..(i - 1) : Group(Custom)[j] = d
  BY <1>1, <1>2, <1>3, GroupOrder
<1> QED
  BY <1>2, <1>4 DEF Inv, InTurn

(* With one thread, whatever the settings that made it one, no installer     *)
(* starts before those of the tools it strictly depends on have ended.       *)
THEOREM OneThreadInOrder == Spec => []SequentialHonoursOrder
<1> QED
  BY Honoured, Invariance, PTL

------------------------------------------------------------------------------
(* The baseline.                                                             *)

(* Nothing else writes it.                                                   *)
LEMMA OnlyTheseWrite ==
  ASSUME [Next]_vars PROVE baseline' = baseline \/ VerifyOnlyPasses \/ WriteBaseline
BY DEF Next, Step, vars, host, plan, batch, pool, hooks, PreSetupFails, PreSetup,
       VerifyOnlyRefuses, RefuseUnknown, Plan, BatchSucceeds, SingleFails, BatchFails,
       RetryPackage, BatchesDone, StartCustom, Probe, Remember, InstallerSucceeds,
       InstallerFails, CustomDone, RunToolHook, ToolHookFails, ToolHooksDone,
       PostSetupFails, PostSetup, Finish, Crash, Begin

(* What capture finds when nothing is missing and nothing unknown.           *)
LEMMA FoundAll == config \subseteq installed => Found = config \ Markers
BY DEF Found

LEMMA BaselineStep == Inv /\ AutoBaselineComplete /\ [Next]_vars => AutoBaselineComplete'
<1> SUFFICES ASSUME Inv, AutoBaselineComplete, [Next]_vars PROVE AutoBaselineComplete'
  OBVIOUS
<1>1. config' = config
  BY DEF Next, Step, vars, host, plan, batch, pool, hooks, PreSetupFails, PreSetup,
         VerifyOnlyPasses, VerifyOnlyRefuses, RefuseUnknown, Plan, BatchSucceeds, SingleFails,
         BatchFails, RetryPackage, BatchesDone, StartCustom, Probe, Remember,
         InstallerSucceeds, InstallerFails, CustomDone, RunToolHook, ToolHookFails,
         ToolHooksDone, PostSetupFails, PostSetup, WriteBaseline, Finish, Crash, Begin
<1>2. CASE VerifyOnlyPasses
  <2>1. Found = config \ Markers
    BY <1>2, FoundAll DEF VerifyOnlyPasses, Missing, unknown
  <2>2. \/ baseline' = baseline \/ baseline' = None
        \/ baseline' = [by_drift |-> FALSE, tools |-> config \ Markers]
    BY <1>2, <2>1 DEF VerifyOnlyPasses
  <2> QED
    BY <1>1, <2>2 DEF AutoBaselineComplete
<1>3. CASE WriteBaseline
  <2>1. CASE baseline' = baseline
    BY <1>1, <2>1 DEF AutoBaselineComplete
  <2>2. CASE baseline' # baseline /\ On("drift")
    BY <1>3, <2>2 DEF WriteBaseline, CaptureBaseline, AutoBaselineComplete
  <2>3. CASE baseline' # baseline /\ ~On("drift")
    <3>1. needs = <<>> /\ unknown = {} /\ Names(<<>>) = {}
      BY <1>3, <2>3 DEF WriteBaseline, AutoBaselineEligible, Names
    <3>2. Found = config \ Markers
      BY <1>3, <3>1, FoundAll DEF Inv, PlanRight, WriteBaseline, unknown
    <3>3. baseline' = [by_drift |-> On("drift"), tools |-> config \ Markers]
      BY <1>3, <2>3, <3>2 DEF WriteBaseline, CaptureBaseline
    <3>4. baseline'.tools = (config \ Markers)'
      BY <1>1, <3>3
    <3> QED
      BY <3>4 DEF AutoBaselineComplete
  <2> QED
    BY <2>1, <2>2, <2>3
<1>4. CASE baseline' = baseline
  BY <1>1, <1>4 DEF AutoBaselineComplete
<1>5. baseline' = baseline \/ VerifyOnlyPasses \/ WriteBaseline
  BY OnlyTheseWrite
<1> QED
  BY <1>2, <1>3, <1>4, <1>5

(* A baseline nobody asked for always lists the whole config but for the     *)
(* tools that have no binary to look up: after any number of runs, killed or *)
(* not, and although other runs fail or are dry.                             *)
THEOREM AutoBaselineWhole == Spec => []AutoBaselineComplete
<1>1. Init => AutoBaselineComplete
  BY DEF Init, AutoBaselineComplete
<1> QED
  BY <1>1, BaselineStep, Invariance, PTL DEF Spec

(* The drift baseline changes only in a run that is not dry and that has run *)
(* the hook of everything it is credited with.                               *)
THEOREM BaselineWaitsForHooks == Spec => BaselineAfterHooks
<1>1. ASSUME Inv, [Next]_vars, baseline' # baseline
      PROVE  /\ ~On("dry_run")
             /\ On("no_hooks") \/ \A t \in Names(successes) : HasHook(t) => t \in Names(hooked)
  <2>1. CASE VerifyOnlyPasses
    <3>1. ~On("dry_run")
      BY <2>1 DEF VerifyOnlyPasses, VerifyOnly
    <3>2. successes = <<>> /\ Names(<<>>) = {}
      BY <1>1, <2>1 DEF Inv, InPhase, VerifyOnlyPasses, Names
    <3> QED
      BY <3>1, <3>2
  <2>2. CASE WriteBaseline
    <3>1. ~On("dry_run") /\ pc = "baseline"
      BY <1>1, <2>2 DEF WriteBaseline
    <3> QED
      BY <1>1, <3>1 DEF Inv, HooksRun, Over
  <2> QED
    BY <1>1, <2>1, <2>2, OnlyTheseWrite
<1>2. Inv /\ [Next]_vars =>
        [baseline' # baseline =>
            /\ ~On("dry_run")
            /\ On("no_hooks") \/ \A t \in Names(successes) : HasHook(t) => t \in Names(hooked)]_vars
  BY <1>1
<1> QED
  BY <1>2, Invariance, PTL DEF Spec, BaselineAfterHooks

------------------------------------------------------------------------------
(* What a thread has not found will not appear behind its back.              *)

\* The registry declares what an installer calls: a tool that provides the command
\* another one's installer looks for, and may have an installer of its own, is among
\* the strict dependencies of the other (tools/common.rs:572-576 asks for it), or
\* the check or the grouping of the two asks for the command.
ProvidersDeclared ==
    \A t \in Tools : Prereq[t] # None =>
        \A u \in Provides[Prereq[t]] :
            Method[u] = Custom \/ Detects[u] # None =>
                \/ u \in StrictDeps(Inventory, t)
                \/ Prereq[t] \in CheckAsks[u] \cup {Detects[t]}

LEMMA AbsenceInit == Init => AbsenceLasts
BY DEF Init, AbsenceLasts

LEMMA AbsenceStep ==
  ASSUME ProvidersDeclared, Inv, AbsenceLasts, [Next]_vars
  PROVE  AbsenceLasts'
<1> USE DEF host, plan, batch, pool, hooks
<1>0. Inv'
  BY InvNext
<1>1. CASE \A t \in Tools : worker'[t] = "waiting"
  BY <1>1 DEF AbsenceLasts
<1>2. CASE UNCHANGED <<installed, worker, needs, method, config, opts>>
  BY <1>2, EarlyKept DEF AbsenceLasts, Workers, Group, OnPath
<1>3. ASSUME NEW u \in Tools, \/ StartCustom(u) \/ Probe(u) \/ Remember(u) \/ InstallerFails(u)
      PROVE  AbsenceLasts'
  <2> SUFFICES ASSUME Workers = 1, ~HasCycle(Inventory, Names(needs)), NEW t \in Tools,
                      worker'[t] \in {"absent", "refused"}
               PROVE  ~OnPath(Prereq[t]) \/ Prereq[t] \in AskedEarly
    <3>1. UNCHANGED <<installed, needs, method, config, opts>>
      BY <1>3 DEF StartCustom, Probe, Remember, InstallerFails
    <3> QED
      BY <3>1, EarlyKept DEF AbsenceLasts, OnPath, Workers, Group
  <2>1. CASE worker[t] \in {"absent", "refused"}
    BY <2>1 DEF AbsenceLasts
  <2>2. CASE worker[t] \notin {"absent", "refused"}
    <3>1. t = u /\ worker \in [Tools -> {"waiting"} \cup Busy \cup Finished]
      BY <1>3, <2>2 DEF Inv, TypeOK, StartCustom, Probe, Remember, InstallerFails
    <3>2. CASE StartCustom(u)
      <4>1. Prereq[t] # None /\ has_cache[Prereq[t]] = "no" /\ Prereq[t] \in Commands
        BY <3>1, <3>2, RegistryTyped DEF StartCustom
      <4>2. CASE Prereq[t] \in AskedEarly
        BY <4>2
      <4>3. CASE Prereq[t] \notin AskedEarly
        <5>1. PICK v \in Tools : worker[v] = "refused" /\ Prereq[v] = Prereq[t]
          BY <4>1, <4>3 DEF Inv, CacheExplained
        <5> QED
          BY <5>1 DEF AbsenceLasts
      <4> QED
        BY <4>2, <4>3
    <3>3. CASE Probe(u)
      BY <3>1, <3>3 DEF Probe
    <3>4. CASE Remember(u)
      BY <2>2, <3>1, <3>4 DEF Remember
    <3>5. CASE InstallerFails(u)
      BY <3>1, <3>5 DEF InstallerFails
    <3> QED
      BY <1>3, <3>2, <3>3, <3>4, <3>5
  <2> QED
    BY <2>1, <2>2
<1>4. ASSUME NEW u \in Tools, InstallerSucceeds(u) PROVE AbsenceLasts'
  <2> SUFFICES ASSUME Workers = 1, ~HasCycle(Inventory, Names(needs)), NEW t \in Tools,
                      worker'[t] \in {"absent", "refused"}, Prereq[t] \notin AskedEarly
               PROVE  ~OnPath(Prereq[t])'
    <3>1. UNCHANGED <<needs, method, config, opts>>
      BY <1>4 DEF InstallerSucceeds
    <3> QED
      BY <3>1, EarlyKept DEF AbsenceLasts, Workers, Group
  <2>1. worker[u] = "installing" /\ worker[t] \in {"absent", "refused"}
    BY <1>4 DEF Inv, TypeOK, InstallerSucceeds
  <2>2. ~OnPath(Prereq[t]) /\ Prereq[t] # None
    BY <2>1 DEF AbsenceLasts, Inv, CacheExplained
  <2>3. Names(Group(Custom)) = {v \in Names(needs) : method[v] = Custom}
    BY GroupFacts DEF Inv, TypeOK
  <2>4. u \in Names(Group(Custom)) /\ t \in Names(Group(Custom)) /\ method[u] = Custom
    BY <2>1, <2>3 DEF Inv, Tried
  <2>5. u \notin Provides[Prereq[t]]
    <3> SUFFICES ASSUME u \in Provides[Prereq[t]] PROVE FALSE
      OBVIOUS
    <3>3. Method[u] = Custom \/ Detects[u] # None
      BY <2>4 DEF Inv, MethodRight
    <3>4. u \in Names(needs) /\ t \in Names(needs) /\ u \in config
      BY <2>3, <2>4 DEF Inv, PlanRight
    <3>5. Prereq[t] \notin CheckAsks[u] \cup {Detects[t]}
      <4>1. CheckAsks[u] \subseteq CheckAsked
        BY <3>4 DEF CheckAsked
      <4>2. Detects[t] # None => Detects[t] \in GroupAsked(Names(needs))
        BY <3>4 DEF GroupAsked
      <4> QED
        BY <2>2, <4>1, <4>2 DEF AskedEarly
    <3>1. u \in StrictDeps(Inventory, t) \cap Names(Group(Custom))
      BY <2>2, <2>4, <3>3, <3>5 DEF ProvidersDeclared
    <3>2. worker[u] \in Finished
      BY <2>1, <2>4, <3>1, Honoured DEF SequentialHonoursOrder
    <3> QED
      BY <2>1, <3>2 DEF Finished
  <2> QED
    BY <1>4, <2>2, <2>5 DEF InstallerSucceeds, OnPath
<1>5. ASSUME NEW m \in Managers, BatchSucceeds(m) \/ SingleFails(m) \/ BatchFails(m)
      PROVE  AbsenceLasts'
  <2>1. pc' \in {"batches", "retry"}
    BY <1>5 DEF BatchSucceeds, SingleFails, BatchFails, StartBatch
  <2> QED
    BY <1>0, <1>1, <2>1 DEF Inv, InPhase
<1>6. CASE PreSetup \/ Plan \/ RetryPackage
  <2>1. \A t \in Tools : worker[t] = "waiting"
    BY <1>6 DEF Inv, InPhase, PreSetup, Plan, RetryPackage
  <2>2. worker' = worker
    BY <1>6 DEF PreSetup, Plan, RetryPackage
  <2> QED
    BY <1>1, <2>1, <2>2
<1>7. ASSUME NEW s \in Settings, Begin(s) PROVE AbsenceLasts'
  BY <1>1, <1>7 DEF Begin
<1>8. CASE PreSetupFails \/ VerifyOnlyPasses \/ VerifyOnlyRefuses \/ RefuseUnknown \/ BatchesDone
           \/ CustomDone
  BY <1>2, <1>8 DEF PreSetupFails, VerifyOnlyPasses, VerifyOnlyRefuses, RefuseUnknown,
                    BatchesDone, CustomDone
<1>9. CASE RunToolHook \/ ToolHookFails \/ ToolHooksDone \/ PostSetupFails \/ PostSetup
           \/ WriteBaseline \/ Finish \/ Crash
  BY <1>2, <1>9 DEF RunToolHook, ToolHookFails, ToolHooksDone, PostSetupFails, PostSetup,
                    WriteBaseline, Finish, Crash
<1>10. CASE UNCHANGED vars
  BY <1>2, <1>10 DEF vars
<1> QED
  BY <1>3, <1>4, <1>5, <1>6, <1>7, <1>8, <1>9, <1>10 DEF Next, Step

(* With one thread an installer that is turned away for want of a command is *)
(* turned away rightly, at that moment and until the run is over, although   *)
(* has() goes on answering from its cache: the order of the plan sees to it. *)
THEOREM RefusedRightly == ASSUME ProvidersDeclared PROVE Spec => []SequentialRefusalsTrue
<1>1. Inv /\ AbsenceLasts /\ [Next]_vars => AbsenceLasts'
  BY AbsenceStep
<1>2. AbsenceLasts => SequentialRefusalsTrue
  BY DEF AbsenceLasts, SequentialRefusalsTrue
<1> QED
  BY <1>1, <1>2, AbsenceInit, Invariance, PTL DEF Spec

------------------------------------------------------------------------------
(* Each tool is credited once, and its hook runs once.                       *)

\* In no config do two tools share a package of one manager.  (kubectx and kubens
\* do on Homebrew: run SetupShared.)
OnePackageEach ==
    \A c \in Configs : \A t, u \in c \cap Tools :
        (Method[t] = Method[u] /\ Method[t] # Custom /\ Pkg[t] = Pkg[u]) => t = u

(* Under this hypothesis a package is credited to the tool it was meant for. *)
LEMMA CreditedRightly ==
  ASSUME OnePackageEach, Inv, NEW m \in Managers
  PROVE  /\ \A t, u \in Names(Group(m)) : Pkg[t] = Pkg[u] => t = u
         /\ [i \in DOMAIN Group(m) |-> CreditedTool(m, Pkg[Group(m)[i]])] = Group(m)
<1>1. Group(m) \in Seq(Tools) /\ Names(Group(m)) = {t \in Names(needs) : method[t] = m}
  BY GroupFacts DEF Inv, TypeOK
<1>2. Names(needs) \subseteq config \cap Tools /\ config \in Configs /\ m # Custom
  BY RegistryTyped DEF Inv, TypeOK, PlanRight, Names
<1>3. \A t, u \in Names(Group(m)) : Pkg[t] = Pkg[u] => t = u
  <2> SUFFICES ASSUME NEW t \in Names(Group(m)), NEW u \in Names(Group(m)), Pkg[t] = Pkg[u]
               PROVE  t = u
    OBVIOUS
  <2>1. t \in config \cap Tools /\ u \in config \cap Tools /\ method[t] = m /\ method[u] = m
    BY <1>1, <1>2
  <2>2. Method[t] = m /\ Method[u] = m
    BY <1>2, <2>1 DEF Inv, MethodRight
  <2> QED
    BY <1>2, <2>1, <2>2 DEF OnePackageEach
<1>4. \A i \in DOMAIN Group(m) : CreditedTool(m, Pkg[Group(m)[i]]) = Group(m)[i]
  <2> SUFFICES ASSUME NEW i \in DOMAIN Group(m)
               PROVE  CreditedTool(m, Pkg[Group(m)[i]]) = Group(m)[i]
    OBVIOUS
  <2>1. Group(m)[i] \in Names(Group(m))
    BY DEF Names
  <2> QED
    BY <1>3, <2>1, CreditedFacts DEF Inv, TypeOK
<1>5. [i \in DOMAIN Group(m) |-> CreditedTool(m, Pkg[Group(m)[i]])] = Group(m)
  BY <1>1, <1>4
<1> QED
  BY <1>3, <1>5

LEMMA OnceInit == Init => CreditedOnce
BY DEF Init, CreditedOnce, NoRepeats, Names

(* Steps that credit nothing and run no hook.                                *)
LEMMA OnceKept ==
  ASSUME CreditedOnce, UNCHANGED <<successes, hooks, retry, manager>>,
         method' = method \/ successes = <<>>,
         pc' = "retry" => pc = "retry", pc' = "tool_hooks" => pc = "tool_hooks",
         \A t \in Tools : worker[t] = "ok" => worker'[t] = "ok",
         successes \in Seq(Tools)
  PROVE  CreditedOnce'
<1>1. Names(successes) \subseteq Tools /\ Names(<<>>) = {}
  BY DEF Names
<1> QED
  BY <1>1 DEF CreditedOnce, hooks

LEMMA OnceBatchSucceeds ==
  ASSUME OnePackageEach, Inv, CreditedOnce, NEW m \in Managers, BatchSucceeds(m)
  PROVE  CreditedOnce'
<1> USE DEF plan, batch, pool, hooks
<1>1. /\ Group(m) \in Seq(Tools) /\ NoRepeats(Group(m))
      /\ Names(Group(m)) = {t \in Names(needs) : method[t] = m}
  BY GroupFacts DEF Inv, TypeOK, PlanRight
<1>2. successes' = successes \o Group(m)
  BY CreditedRightly DEF BatchSucceeds
<1>3. Names(successes) \cap Names(Group(m)) = {}
  <2> SUFFICES ASSUME NEW t \in Names(successes), t \in Names(Group(m)) PROVE FALSE
    OBVIOUS
  <2>1. method[t] = m /\ t \in attempted /\ t \in Tools
    BY <1>1 DEF Inv, TypeOK, Credited
  <2>2. method[t] \in Managers \ groups \/ worker[t] # "waiting"
    BY <2>1 DEF Inv, Tried, BatchSucceeds, StartBatch
  <2>3. worker[t] = "waiting"
    BY <2>1 DEF Inv, InPhase, BatchSucceeds, StartBatch
  <2> QED
    BY <2>1, <2>2, <2>3 DEF BatchSucceeds, StartBatch
<1>4. /\ Names(successes') = Names(successes) \cup Names(Group(m))
      /\ NoRepeats(successes')
  BY <1>1, <1>2, <1>3, ConcatNames DEF Inv, TypeOK, CreditedOnce
<1>5. /\ hooked' = hooked /\ pc' = "batches" /\ worker' = worker /\ m # Custom
      /\ method' = method
  BY RegistryTyped DEF BatchSucceeds, StartBatch
<1> QED
  BY <1>1, <1>4, <1>5 DEF CreditedOnce

LEMMA OnceBatchFails ==
  ASSUME OnePackageEach, Inv, CreditedOnce, NEW m \in Managers, BatchFails(m)
  PROVE  CreditedOnce'
<1> USE DEF plan, batch, pool, hooks
<1>1. /\ Group(m) \in Seq(Tools) /\ NoRepeats(Group(m))
      /\ Names(Group(m)) = {t \in Names(needs) : method[t] = m}
      /\ \A t, u \in Names(Group(m)) : Pkg[t] = Pkg[u] => t = u
  BY GroupFacts, CreditedRightly DEF Inv, TypeOK, PlanRight
<1>2. \A t \in Names(successes) : method[t] # m
  <2> SUFFICES ASSUME NEW t \in Names(successes), method[t] = m PROVE FALSE
    OBVIOUS
  <2>1. t \in attempted /\ t \in Tools
    BY DEF Inv, TypeOK, Credited
  <2>2. method[t] \in Managers \ groups \/ worker[t] # "waiting"
    BY <2>1 DEF Inv, Tried, BatchFails, StartBatch
  <2>3. worker[t] = "waiting"
    BY <2>1 DEF Inv, InPhase, BatchFails, StartBatch
  <2> QED
    BY <2>2, <2>3 DEF BatchFails, StartBatch
<1>3. /\ retry' = [i \in DOMAIN Group(m) |-> Pkg[Group(m)[i]]] /\ manager' = m
      /\ successes' = successes /\ hooked' = hooked /\ worker' = worker /\ pc' = "retry"
      /\ method' = method
  BY DEF BatchFails
<1>4. NoRepeats(retry')
  BY <1>1, <1>3 DEF NoRepeats, Names
<1> QED
  BY <1>2, <1>3, <1>4 DEF CreditedOnce

LEMMA OnceRetryPackage ==
  ASSUME OnePackageEach, Inv, CreditedOnce, RetryPackage
  PROVE  CreditedOnce'
<1> USE DEF plan, pool, hooks
<1> DEFINE c == CreditedTool(manager, Head(retry))
<1>1. /\ c \in Tools /\ Pkg[c] = Head(retry) /\ method[c] = manager
      /\ manager \in Managers /\ manager # Custom
  BY RetriedTool, RegistryTyped DEF Inv, Credited, RetryPackage
<1>2. /\ retry' = Tail(retry) /\ NoRepeats(retry)
      /\ Names(retry) = Names(retry') \cup {Head(retry)}
      /\ NoRepeats(retry') /\ Head(retry) \notin Names(retry')
  BY HeadTail DEF Inv, TypeOK, Credited, CreditedOnce, RetryPackage
<1>3. \A t \in Names(successes) : method[t] = manager => Pkg[t] \notin Names(retry)
  BY DEF CreditedOnce, RetryPackage
<1>4. /\ manager' = manager /\ hooked' = hooked /\ worker' = worker
      /\ method' = method /\ pc' \in {"retry", "batches"}
  BY DEF RetryPackage
<1>5. CASE successes' = successes
  BY <1>2, <1>3, <1>4, <1>5 DEF CreditedOnce
<1>6. CASE successes' = Append(successes, c)
  <2>1. c \notin Names(successes)
    BY <1>1, <1>2, <1>3
  <2>2. Names(successes') = Names(successes) \cup {c} /\ NoRepeats(successes')
    BY <1>1, <1>6, <2>1, AppendNames, AppendNoRepeats DEF Inv, TypeOK, CreditedOnce
  <2> HIDE DEF c
  <2> QED
    BY <1>1, <1>2, <1>3, <1>4, <2>2 DEF CreditedOnce
<1> QED
  BY <1>5, <1>6 DEF RetryPackage

LEMMA OnceInstallerSucceeds ==
  ASSUME Inv, CreditedOnce, NEW t \in Tools, InstallerSucceeds(t)
  PROVE  CreditedOnce'
<1> USE DEF plan, batch, hooks
<1>1. t \notin Names(successes)
  <2>1. method[t] = Custom /\ worker[t] = "installing"
    BY DEF Inv, Tried, InstallerSucceeds
  <2> QED
    BY <2>1 DEF CreditedOnce
<1>2. Names(successes') = Names(successes) \cup {t} /\ NoRepeats(successes')
  BY <1>1, AppendNames, AppendNoRepeats DEF Inv, TypeOK, CreditedOnce, InstallerSucceeds
<1>3. worker'[t] = "ok" /\ \A u \in Tools : u # t => worker'[u] = worker[u]
  BY DEF Inv, TypeOK, InstallerSucceeds
<1>4. Names(successes) \subseteq Tools /\ pc' = "custom" /\ hooked' = hooked
      /\ method' = method
  BY DEF Inv, TypeOK, Names, InstallerSucceeds
<1> QED
  BY <1>2, <1>3, <1>4 DEF CreditedOnce

LEMMA OnceHook ==
  ASSUME Inv, CreditedOnce, RunToolHook \/ ToolHookFails
  PROVE  CreditedOnce'
<1> USE DEF plan, batch, pool, hooks
<1> DEFINE h == successes[next_hook]
<1>1. /\ pc = "tool_hooks" /\ next_hook \in DOMAIN successes /\ next_hook \in Nat
      /\ h \in Tools /\ hooked \in Seq(Tools)
  BY DEF Inv, TypeOK, RunToolHook, ToolHookFails, HookDue
<1>2. h \notin Names(hooked)
  <2> SUFFICES ASSUME h \in Names(hooked) PROVE FALSE
    OBVIOUS
  <2>1. PICK i \in DOMAIN successes : i < next_hook /\ successes[i] = h
    BY <1>1 DEF CreditedOnce
  <2>2. i = next_hook
    BY <1>1, <2>1 DEF CreditedOnce, NoRepeats
  <2> QED
    BY <1>1, <2>1, <2>2
<1>3. /\ Names(Append(hooked, h)) = Names(hooked) \cup {h}
      /\ NoRepeats(Append(hooked, h))
  BY <1>1, <1>2, AppendNames, AppendNoRepeats DEF CreditedOnce
<1>4. hooked' \in {hooked, Append(hooked, h)}
  BY DEF RunToolHook, ToolHookFails
<1>5. NoRepeats(hooked') /\ Names(hooked') \subseteq Names(hooked) \cup {h}
  BY <1>3, <1>4 DEF CreditedOnce
<1>6. successes' = successes /\ worker' = worker /\ pc' # "retry"
      /\ method' = method
  BY <1>1 DEF RunToolHook, ToolHookFails, Exit
<1>7. ASSUME pc' = "tool_hooks", NEW t \in Names(hooked')
      PROVE  \E i \in DOMAIN successes : i < next_hook' /\ successes[i] = t
  <2>1. next_hook' = next_hook + 1
    BY <1>7 DEF RunToolHook, ToolHookFails, Exit
  <2>2. CASE t = h
    BY <1>1, <2>1, <2>2
  <2>3. CASE t \in Names(hooked)
    <3>1. PICK i \in DOMAIN successes : i < next_hook /\ successes[i] = t
      BY <1>1, <2>3 DEF CreditedOnce
    <3>2. i \in Nat
      BY DEF Inv, TypeOK
    <3> QED
      BY <1>1, <2>1, <3>1, <3>2
  <2> QED
    BY <1>5, <2>2, <2>3
<1> QED
  BY <1>5, <1>6, <1>7 DEF CreditedOnce

LEMMA OnceBegin ==
  ASSUME NEW s \in Settings, Begin(s) PROVE CreditedOnce'
<1>1. /\ successes' = <<>> /\ hooked' = <<>> /\ pc' = "pre_setup"
      /\ NoRepeats(<<>>) /\ Names(<<>>) = {}
  BY DEF Begin, hooks, NoRepeats, Names
<1> QED
  BY <1>1 DEF CreditedOnce

LEMMA OnceCustomDone ==
  ASSUME Inv, CreditedOnce, CustomDone PROVE CreditedOnce'
<1>1. /\ hooked = <<>> /\ Names(<<>>) = {} /\ pc' = "tool_hooks"
      /\ UNCHANGED <<successes, hooked, worker, method>>
  BY DEF Inv, InPhase, CustomDone, hooks, pool, plan, Names
<1> QED
  BY <1>1 DEF CreditedOnce

LEMMA OnceStep ==
  ASSUME OnePackageEach, Inv, CreditedOnce, [Next]_vars
  PROVE  CreditedOnce'
<1> USE DEF plan, batch, pool, hooks
<1>0. successes \in Seq(Tools) /\ worker \in [Tools -> {"waiting"} \cup Busy \cup Finished]
  BY DEF Inv, TypeOK
<1>1. ASSUME NEW m \in Managers, SingleFails(m) PROVE CreditedOnce'
  BY <1>0, <1>1, OnceKept DEF SingleFails, StartBatch
<1>2. ASSUME NEW t \in Tools, \/ StartCustom(t) \/ Probe(t) \/ Remember(t) \/ InstallerFails(t)
      PROVE  CreditedOnce'
  <2>1. \A u \in Tools : worker[u] = "ok" => worker'[u] = "ok"
    BY <1>0, <1>2 DEF StartCustom, MayStart, Probe, Remember, InstallerFails
  <2> QED
    BY <1>0, <1>2, <2>1, OnceKept DEF StartCustom, Probe, Remember, InstallerFails
<1>3. CASE PreSetupFails \/ PreSetup \/ VerifyOnlyPasses \/ VerifyOnlyRefuses \/ RefuseUnknown
           \/ Plan \/ BatchesDone
  <2>1. Plan => successes = <<>>
    BY DEF Inv, InPhase, Plan
  <2> QED
    BY <1>0, <1>3, <2>1, OnceKept DEF PreSetupFails, PreSetup, VerifyOnlyPasses,
       VerifyOnlyRefuses, RefuseUnknown, Plan, BatchesDone, Exit
<1>4. CASE ToolHooksDone \/ PostSetupFails \/ PostSetup \/ WriteBaseline \/ Finish \/ Crash
  BY <1>0, <1>4, OnceKept DEF ToolHooksDone, PostSetupFails, PostSetup, WriteBaseline, Finish,
                              Crash, Exit
<1>5. CASE UNCHANGED vars
  BY <1>0, <1>5, OnceKept DEF vars
<1> QED
  BY <1>1, <1>2, <1>3, <1>4, <1>5, OnceBatchSucceeds, OnceBatchFails, OnceRetryPackage,
     OnceInstallerSucceeds, OnceHook, OnceBegin, OnceCustomDone DEF Next, Step

(* The hook of a tool runs at most once in a run, only for a tool the run    *)
(* found missing, tried and has on the machine, and a run that ends with 0   *)
(* owes none: however the threads and the retries fill successfully_installed.*)
THEOREM HooksRunOnce == ASSUME OnePackageEach PROVE Spec => []HooksMatchInstalls
<1>1. Inv /\ CreditedOnce /\ [Next]_vars => CreditedOnce'
  BY OnceStep
<1>2. Inv /\ CreditedOnce => HooksMatchInstalls
  BY DEF Inv, Tried, Credited, HooksRun, Over, CreditedOnce, HooksMatchInstalls
<1> QED
  BY <1>1, <1>2, OnceInit, Invariance, PTL DEF Spec

(* Without the hypothesis a hook may run twice, but still for no other tool, *)
(* and none of a credited tool is left out.                                  *)
THEOREM HooksAreDue ==
  Spec => [](/\ Names(hooked) \subseteq Names(needs) \cap installed
             /\ (exit = "EXIT_SUCCESS" /\ ~On("no_hooks")) =>
                   \A t \in Names(successes) : HasHook(t) => t \in Names(hooked))
<1>1. Inv => /\ Names(hooked) \subseteq Names(needs) \cap installed
             /\ (exit = "EXIT_SUCCESS" /\ ~On("no_hooks")) =>
                   \A t \in Names(successes) : HasHook(t) => t \in Names(hooked)
  BY DEF Inv, Tried, Credited, HooksRun, Over
<1> QED
  BY <1>1, Invariance, PTL

==============================================================================
