--------------------------- MODULE Fallback_proofs ---------------------------
(* Theorems about Fallback for all tools, ecosystems and routes, any number  *)
(* of threads, commands and installations: when a tool is unsupported, and   *)
(* what a receipt says.                                                      *)
EXTENDS Fallback, FiniteSetTheorems, TLAPS

(* The PATH finds the ecosystems of a tool in the order of its routes, and   *)
(* before what the platform's package managers install.  The code does not   *)
(* see to that: only the last theorem is about such a PATH.                  *)
RoutesFirst ==
    \A t \in Tools : \A r \in 1..Len(Routes[t]) :
        \E i \in 1..Len(Path) :
            /\ Path[i] = Routes[t][r]
            /\ \A j \in 1..(i - 1) :
                  Path[j] \in Ecos \ {Routes[t][q] : q \in r..Len(Routes[t])}

------------------------------------------------------------------------------
(* Jobs and routes.                                                          *)

LEMMA RouteFacts ==
  ASSUME NEW t \in Tools
  PROVE  /\ Len(Routes[t]) \in Nat \ {0}
         /\ \A i \in 1..Len(Routes[t]) : Routes[t][i] \in Ecos
<1>1. Routes[t] \in Seq(Ecos) /\ Routes[t] # <<>>
  BY RoutesDeclared
<1> QED
  BY <1>1

LEMMA EcoKnown ==
  ASSUME TypeOK, NEW t \in Tools
  PROVE  /\ Eco(t) \in Ecos /\ job[t].route \in 1..Len(Routes[t])
         /\ job[t].route \in Nat /\ Eco(t) = Routes[t][job[t].route]
BY RouteFacts DEF TypeOK, Eco

LEMMA NoJobFacts ==
  /\ NoJob \in Job /\ NoJob.pc = "idle" /\ NoJob.route = 1
  /\ NoJob.again = FALSE /\ NoJob.eco = None
<1>1. NoReceipts \in [Tools -> Receipt \cup {None}]
  BY DEF NoReceipts
<1> QED
  BY <1>1 DEF NoJob, Job, Finished

(* What a thread does before it installs: it changes its own job and, at      *)
(* most, what is known of the ecosystem of its route.                        *)
Prepares(t) == Ask(t) \/ Remember(t) \/ CheckMemo(t) \/ Bootstrap(t) \/ Forget(t)

Stays(t) == job'[t].pc \in Pending /\ job'[t].route = job[t].route

Moves(t) ==
    /\ Eco(t) \in bootstrap_failed'
    /\ \/ /\ job'[t].pc = "ask" /\ job'[t].again = FALSE
          /\ job'[t].route = job[t].route + 1 /\ job[t].route < Len(Routes[t])
       \/ /\ job'[t].pc = "unsupported" /\ job'[t].route = 1 /\ job[t].route = Len(Routes[t])

OthersWait(t) == job' \in [Tools -> Job] /\ \A u \in Tools \ {t} : job'[u] = job[u]

LEMMA NextRouteMoves ==
  ASSUME TypeOK, NEW t \in Tools, NextRoute(t), Eco(t) \in bootstrap_failed'
  PROVE  Moves(t) /\ OthersWait(t)
<1>1. CASE job[t].route < Len(Routes[t])
  <2> DEFINE j == [NoJob EXCEPT !.pc = "ask", !.route = job[t].route + 1]
  <2>1. j \in Job /\ j.pc = "ask" /\ j.again = FALSE /\ j.route = job[t].route + 1
    <3>1. job[t].route + 1 \in Nat
      BY EcoKnown
    <3> QED
      BY <3>1, NoJobFacts DEF Job, Pending
  <2>2. job' = [job EXCEPT ![t] = j]
    BY <1>1 DEF NextRoute
  <2> HIDE DEF j
  <2>3. job'[t] = j /\ OthersWait(t)
    BY <2>1, <2>2 DEF TypeOK, OthersWait
  <2> QED
    BY <1>1, <2>1, <2>3 DEF Moves
<1>2. CASE ~(job[t].route < Len(Routes[t]))
  <2> DEFINE j == [NoJob EXCEPT !.pc = "unsupported"]
  <2>1. j \in Job /\ j.pc = "unsupported" /\ j.route = 1
    BY NoJobFacts DEF Job, Finished
  <2>2. job' = [job EXCEPT ![t] = j]
    BY <1>2 DEF NextRoute
  <2> HIDE DEF j
  <2>3. job'[t] = j /\ OthersWait(t)
    BY <2>1, <2>2 DEF TypeOK, OthersWait
  <2>4. job[t].route = Len(Routes[t])
    BY <1>2, EcoKnown, RouteFacts
  <2> QED
    BY <2>1, <2>3, <2>4 DEF Moves
<1> QED
  BY <1>1, <1>2

LEMMA GotoFacts ==
  ASSUME TypeOK, NEW t \in Tools, NEW pc \in Pending \cup Finished \cup {"load", "remove"}, Goto(t, pc)
  PROVE  OthersWait(t) /\ job'[t] = [job[t] EXCEPT !.pc = pc]
<1>1. job[t] \in Job
  BY DEF TypeOK
<1>2. [job[t] EXCEPT !.pc = pc] \in Job
  BY <1>1 DEF Job
<1> QED
  BY <1>2 DEF TypeOK, Goto, OthersWait

LEMMA AnsweredFacts ==
  ASSUME TypeOK, NEW t \in Tools, NEW found \in BOOLEAN, Answered(t, found)
  PROVE  /\ OthersWait(t)
         /\ \/ /\ found /\ UNCHANGED bootstrap_failed
               /\ job'[t] = [job[t] EXCEPT !.pc = "run"]
            \/ /\ ~found /\ ~job[t].again /\ UNCHANGED bootstrap_failed
               /\ job'[t] = [job[t] EXCEPT !.pc = "memo"]
            \/ /\ ~found /\ job[t].again /\ Moves(t)
               /\ bootstrap_failed' = bootstrap_failed \cup {Eco(t)}
<1>0. job[t].again \in BOOLEAN
  BY DEF TypeOK, Job
<1>1. CASE found
  <2>1. Goto(t, "run") /\ UNCHANGED bootstrap_failed
    BY <1>1 DEF Answered
  <2>2. "run" \in Pending
    BY DEF Pending
  <2> QED
    BY <1>1, <2>1, <2>2, GotoFacts
<1>2. CASE ~found /\ ~job[t].again
  <2>1. Goto(t, "memo") /\ UNCHANGED bootstrap_failed
    BY <1>2 DEF Answered
  <2>2. "memo" \in Pending
    BY DEF Pending
  <2> QED
    BY <1>2, <2>1, <2>2, GotoFacts
<1>3. CASE ~found /\ job[t].again
  <2>1. bootstrap_failed' = bootstrap_failed \cup {Eco(t)} /\ NextRoute(t)
    BY <1>3 DEF Answered
  <2> QED
    BY <1>3, <2>1, NextRouteMoves
<1> QED
  BY <1>0, <1>1, <1>2, <1>3

LEMMA PrepareFacts ==
  ASSUME TypeOK, NEW t \in Tools, Prepares(t)
  PROVE  /\ job[t].pc \in {"ask", "remember", "memo", "bootstrap", "forget"}
         /\ OthersWait(t) /\ (Stays(t) \/ Moves(t))
         /\ UNCHANGED <<copies, builds, receipts, command, commands, missed>>
         /\ present \subseteq present' /\ present' \subseteq present \cup {Eco(t)}
         /\ bootstrap_failed \subseteq bootstrap_failed'
         /\ bootstrap_failed' \subseteq bootstrap_failed \cup {Eco(t)}
         /\ has_cache' \in [Ecos -> {"unset", "yes", "no"}]
         /\ \A e \in Ecos \ {Eco(t)} : has_cache'[e] = has_cache[e]
<1> USE DEF At
<1>0. job[t] \in Job /\ Eco(t) \in Ecos
  BY EcoKnown DEF TypeOK
<1>1. CASE Ask(t)
  <2>1. UNCHANGED <<world, receipts, has_cache, command, commands, missed>> /\ job[t].pc = "ask"
    BY <1>1 DEF Ask
  <2>2. OthersWait(t) /\ (Stays(t) \/ Moves(t))
        /\ bootstrap_failed \subseteq bootstrap_failed'
        /\ bootstrap_failed' \subseteq bootstrap_failed \cup {Eco(t)}
    <3>1. CASE has_cache[Eco(t)] = "unset"
      <4> DEFINE b == Eco(t) \in present
                 j == [job[t] EXCEPT !.pc = "remember", !.saw = b]
      <4>0. b \in BOOLEAN
        OBVIOUS
      <4>1. j \in Job /\ j.pc = "remember" /\ j.route = job[t].route
        <5> HIDE DEF b
        <5> QED
          BY <1>0, <4>0 DEF Job, Pending
      <4>2. job' = [job EXCEPT ![t] = j] /\ UNCHANGED bootstrap_failed
        BY <1>1, <3>1 DEF Ask, TypeOK
      <4> HIDE DEF j
      <4>3. OthersWait(t) /\ job'[t] = j
        BY <4>1, <4>2 DEF TypeOK, OthersWait
      <4> QED
        BY <4>1, <4>2, <4>3 DEF Stays, Pending
    <3>2. CASE has_cache[Eco(t)] # "unset"
      <4>1. Answered(t, has_cache[Eco(t)] = "yes")
        BY <1>1, <3>2 DEF Ask
      <4>2. (has_cache[Eco(t)] = "yes") \in BOOLEAN
        OBVIOUS
      <4> QED
        BY <1>0, <4>1, <4>2, AnsweredFacts DEF Stays, Job, Pending
    <3> QED
      BY <3>1, <3>2
  <2> QED
    BY <2>1, <2>2 DEF world, TypeOK
<1>2. CASE Remember(t)
  <2>1. /\ UNCHANGED <<world, receipts, command, commands, missed>> /\ job[t].pc = "remember"
        /\ has_cache' = [has_cache EXCEPT ![Eco(t)] = IF job[t].saw THEN "yes" ELSE "no"]
        /\ Answered(t, job[t].saw) /\ job[t].saw \in BOOLEAN
    BY <1>0, <1>2 DEF Remember, Job
  <2>2. OthersWait(t) /\ (Stays(t) \/ Moves(t))
        /\ bootstrap_failed \subseteq bootstrap_failed'
        /\ bootstrap_failed' \subseteq bootstrap_failed \cup {Eco(t)}
    BY <1>0, <2>1, AnsweredFacts DEF Stays, Job, Pending
  <2>3. /\ has_cache' \in [Ecos -> {"unset", "yes", "no"}]
        /\ \A e \in Ecos \ {Eco(t)} : has_cache'[e] = has_cache[e]
    BY <1>0, <2>1 DEF TypeOK
  <2> QED
    BY <2>1, <2>2, <2>3 DEF world
<1>3. CASE CheckMemo(t)
  <2>1. UNCHANGED <<world, receipts, process, missed>> /\ job[t].pc = "memo"
    BY <1>3 DEF CheckMemo
  <2>2. bootstrap_failed' = bootstrap_failed
    BY <2>1 DEF process
  <2>3. CASE Eco(t) \in bootstrap_failed
    <3>1. NextRoute(t) /\ Eco(t) \in bootstrap_failed'
      BY <1>3, <2>2, <2>3 DEF CheckMemo
    <3> QED
      BY <2>1, <3>1, NextRouteMoves DEF world, process, TypeOK
  <2>4. CASE Eco(t) \notin bootstrap_failed
    <3>1. Goto(t, "bootstrap") /\ "bootstrap" \in Pending
      BY <1>3, <2>4 DEF CheckMemo, Pending
    <3>2. OthersWait(t) /\ job'[t] = [job[t] EXCEPT !.pc = "bootstrap"]
      BY <3>1, GotoFacts
    <3>3. Stays(t)
      BY <1>0, <3>1, <3>2 DEF Stays, Job
    <3> QED
      BY <2>1, <3>2, <3>3 DEF world, process, TypeOK
  <2> QED
    BY <2>3, <2>4
<1>4. CASE Bootstrap(t)
  <2>1. /\ UNCHANGED <<copies, builds, receipts, has_cache, command, commands, missed>>
        /\ job[t].pc = "bootstrap"
    BY <1>4 DEF Bootstrap
  <2>2. CASE present' \in {present, present \cup {Eco(t)}} /\ Goto(t, "forget") /\ UNCHANGED bootstrap_failed
    <3>1. "forget" \in Pending
      BY DEF Pending
    <3>2. OthersWait(t) /\ job'[t] = [job[t] EXCEPT !.pc = "forget"]
      BY <2>2, <3>1, GotoFacts
    <3>3. Stays(t)
      BY <1>0, <3>1, <3>2 DEF Stays, Job
    <3> QED
      BY <2>1, <2>2, <3>2, <3>3 DEF TypeOK
  <2>3. CASE bootstrap_failed' = bootstrap_failed \cup {Eco(t)} /\ NextRoute(t) /\ UNCHANGED present
    <3>1. Moves(t) /\ OthersWait(t)
      BY <2>3, NextRouteMoves
    <3> QED
      BY <2>1, <2>3, <3>1 DEF TypeOK
  <2> QED
    BY <1>4, <2>2, <2>3 DEF Bootstrap
<1>5. CASE Forget(t)
  <2> DEFINE j == [job[t] EXCEPT !.pc = "ask", !.again = TRUE]
  <2>1. /\ UNCHANGED <<world, receipts, bootstrap_failed, command, commands, missed>>
        /\ job[t].pc = "forget" /\ job' = [job EXCEPT ![t] = j]
        /\ has_cache' = [has_cache EXCEPT ![Eco(t)] = "unset"]
    BY <1>5 DEF Forget, TypeOK
  <2>2. j \in Job /\ j.pc = "ask" /\ j.route = job[t].route
    BY <1>0 DEF Job, Pending
  <2> HIDE DEF j
  <2>3. OthersWait(t) /\ Stays(t)
    BY <2>1, <2>2 DEF TypeOK, OthersWait, Stays, Pending
  <2>4. /\ has_cache' \in [Ecos -> {"unset", "yes", "no"}]
        /\ \A e \in Ecos \ {Eco(t)} : has_cache'[e] = has_cache[e]
    BY <1>0, <2>1 DEF TypeOK
  <2> QED
    BY <2>1, <2>3, <2>4 DEF world
<1> QED
  BY <1>1, <1>2, <1>3, <1>4, <1>5 DEF Prepares

------------------------------------------------------------------------------
(* What `which` finds.                                                       *)

(* Every non-empty set of naturals has a least element.                      *)
LEMMA LeastNatural ==
  ASSUME NEW I \in SUBSET Nat, I # {}
  PROVE  \E m \in I : \A k \in I : m <= k
<1> DEFINE below(m) == 1..m
           R == StrictSubsetOrdering(Nat)
           T == {below(m) : m \in I}
<1>1. T \subseteq FiniteSubsetsOf(Nat)
  <2> SUFFICES ASSUME NEW m \in I PROVE below(m) \in FiniteSubsetsOf(Nat)
    OBVIOUS
  <2>1. IsFiniteSet(1..m) /\ 1..m \in SUBSET Nat
    BY FS_Interval
  <2> QED
    BY <2>1 DEF FiniteSubsetsOf
<1>2. IsWellFoundedOn(R, FiniteSubsetsOf(Nat))
  BY FS_StrictSubsetOrderingWellFounded
<1>3. PICK x \in T : \A y \in T : ~ (<<y, x>> \in R)
  <2>1. T # {}
    OBVIOUS
  <2> HIDE DEF T, R
  <2> QED
    BY <1>1, <1>2, <2>1, WFMin
<1>4. PICK m \in I : x = below(m)
  BY <1>3
<1>5. ASSUME NEW k \in I, k < m PROVE FALSE
  <2>1. below(k) \in T
    OBVIOUS
  <2>2. /\ below(k) \subseteq below(m) /\ below(k) # below(m)
        /\ below(k) \in SUBSET Nat /\ below(m) \in SUBSET Nat
    BY <1>5
  <2>3. <<below(k), below(m)>> \in R
    BY <2>2 DEF StrictSubsetOrdering
  <2> QED
    BY <1>3, <1>4, <2>1, <2>3
<1> QED
  BY <1>5

LEMMA WhichFinds ==
  ASSUME TypeOK, NEW t \in Tools
  PROVE  /\ Which(t) \in Places \cup {None}
         /\ Which(t) # None => copies[t][Which(t)] # None
<1> DEFINE found == {i \in 1..Len(Path) : copies[t][Path[i]] # None}
           k == CHOOSE i \in found : \A j \in found : i <= j
<1>1. Len(Path) \in Nat /\ \A i \in 1..Len(Path) : Path[i] \in Places
  BY PlacesKnown DEF Places
<1>2. Which(t) = IF found = {} THEN None ELSE Path[k]
  BY DEF Which
<1>3. found # {} => k \in found
  <2> SUFFICES ASSUME found # {} PROVE k \in found
    OBVIOUS
  <2>1. found \in SUBSET Nat
    BY <1>1
  <2> HIDE DEF found
  <2>2. \E i \in found : \A j \in found : i <= j
    BY <2>1, LeastNatural
  <2> QED
    BY <2>2
<1>4. found # {} => Path[k] \in Places /\ copies[t][Path[k]] # None
  <2> HIDE DEF k
  <2> QED
    BY <1>1, <1>3
<1> HIDE DEF found, k
<1> QED
  BY <1>2, <1>4

LEMMA UnhiddenIsFound ==
  ASSUME TypeOK, NEW t \in Tools, NEW e, Unhidden(t, e), copies[t][e] # None
  PROVE  Which(t) = e
<1> DEFINE found == {i \in 1..Len(Path) : copies[t][Path[i]] # None}
           k == CHOOSE i \in found : \A j \in found : i <= j
<1>1. PICK i \in 1..Len(Path) :
        Path[i] = e /\ \A j \in 1..(i - 1) : copies[t][Path[j]] = None
  BY DEF Unhidden
<1>2. Len(Path) \in Nat
  BY PlacesKnown
<1>3. Which(t) = IF found = {} THEN None ELSE Path[k]
  BY DEF Which
<1>4. i \in found /\ \A j \in found : i <= j
  <2>1. i \in found
    BY <1>1
  <2>2. ASSUME NEW j \in found PROVE i <= j
    <3>1. j \in 1..Len(Path) /\ j \notin 1..(i - 1)
      BY <1>1
    <3> QED
      BY <1>2, <3>1
  <2> QED
    BY <2>1, <2>2
<1>5. k = i
  <2>1. found \subseteq Nat
    BY <1>2
  <2> HIDE DEF found
  <2>2. k \in found /\ \A j \in found : k <= j
    BY <1>4
  <2> HIDE DEF k
  <2> QED
    BY <1>4, <2>1, <2>2
<1> HIDE DEF k
<1> QED
  BY <1>1, <1>3, <1>4, <1>5

LEMMA ReceiptTyped ==
  ASSUME TypeOK, NEW t \in Tools, NEW e \in Ecos
  PROVE  /\ ReceiptFor(t, e) \in Receipt
         /\ ReceiptFor(t, e).route = e
         /\ Which(t) = e => TrueReceipt(ReceiptFor(t, e))
<1>1. /\ Which(t) \in Places \cup {None}
      /\ Which(t) # None => copies[t][Which(t)] \in 0..MaxBuilds
  BY WhichFinds DEF TypeOK
<1>2. e # None
  BY PlacesKnown
<1>3. None \notin 0..MaxBuilds
  BY Bounds
<1> DEFINE w == Which(t)
           c == IF w = None THEN None ELSE copies[t][w]
<1>4. ReceiptFor(t, e) = [route |-> e, at |-> w, sig |-> c]
  BY DEF ReceiptFor
<1>5. c \in 0..MaxBuilds \cup {None} /\ (w # None => c # None)
  BY <1>1, <1>3
<1> HIDE DEF c, w
<1>6. w \in Places \cup {None}
  BY <1>1 DEF w
<1> QED
  BY <1>2, <1>4, <1>5, <1>6 DEF Receipt, TrueReceipt, w

------------------------------------------------------------------------------
(* Installing and recording.                                                 *)

LEMMA BuildFacts ==
  ASSUME TypeOK, NEW t \in Tools, NEW place \in Places, Build(t, place)
  PROVE  /\ builds' \in 0..MaxBuilds
         /\ copies' \in [Tools -> [Places -> {None} \cup 0..MaxBuilds]]
         /\ copies'[t][place] # None
         /\ \A u \in Tools, p \in Places : u # t \/ p # place => copies'[u][p] = copies[u][p]
<1>1. builds + 1 \in 0..MaxBuilds /\ builds' = builds + 1
  BY Bounds DEF Build, TypeOK
<1>2. builds + 1 # None
  BY <1>1, Bounds
<1>3. copies' = [copies EXCEPT ![t][place] = builds + 1]
  BY DEF Build
<1> QED
  BY <1>1, <1>2, <1>3 DEF TypeOK

(* What a thread does once its route is decided.                             *)
Works(t) ==
    \/ RunRoute(t) \/ LoadReceipts(t) \/ SaveReceipts(t) \/ SaveFails(t)
    \/ Reroute(t) \/ UpgradeNative(t) \/ RemoveReceipt(t)

LEMMA WorkFacts ==
  ASSUME TypeOK, JobsInStep, NEW t \in Tools, Works(t)
  PROVE  /\ OthersWait(t)
         /\ job'[t].pc \notin Pending \cup {"unsupported"}
         /\ job'[t].route \in 1..Len(Routes[t])
         /\ job[t].pc \notin Finished
         /\ UNCHANGED <<present, process>>
         /\ receipts' \in [Tools -> Receipt \cup {None}] /\ missed' \in BOOLEAN
         /\ builds' \in 0..MaxBuilds
         /\ copies' \in [Tools -> [Places -> {None} \cup 0..MaxBuilds]]
<1> USE DEF At, Pending, Finished
<1>0. job[t] \in Job /\ Eco(t) \in Ecos /\ job[t].route \in 1..Len(Routes[t]) /\ Ecos \subseteq Places
  BY EcoKnown DEF TypeOK, Places
<1>a. /\ receipts \in [Tools -> Receipt \cup {None}] /\ missed \in BOOLEAN
      /\ builds \in 0..MaxBuilds /\ copies \in [Tools -> [Places -> {None} \cup 0..MaxBuilds]]
  BY DEF TypeOK
<1>1. CASE RunRoute(t)
  <2>1. job[t].pc = "run" /\ UNCHANGED <<present, receipts, process, missed>>
    BY <1>1 DEF RunRoute
  <2>2. CASE Build(t, Eco(t)) /\ job' = [job EXCEPT ![t].pc = "load", ![t].eco = Eco(t)]
    <3> DEFINE j == [job[t] EXCEPT !.pc = "load", !.eco = Eco(t)]
    <3>1. j \in Job /\ j.pc = "load" /\ j.route = job[t].route
      BY <1>0 DEF Job
    <3>2. job' = [job EXCEPT ![t] = j]
      BY <2>2 DEF TypeOK
    <3> HIDE DEF j
    <3>3. OthersWait(t) /\ job'[t] = j
      BY <3>1, <3>2 DEF OthersWait, TypeOK
    <3> QED
      BY <1>0, <1>a, <2>1, <2>2, <3>1, <3>3, BuildFacts
  <2>3. CASE UNCHANGED <<copies, builds>> /\ Goto(t, "failed")
    <3>1. OthersWait(t) /\ job'[t] = [job[t] EXCEPT !.pc = "failed"]
      BY <2>3, GotoFacts
    <3> QED
      BY <1>0, <1>a, <2>1, <2>3, <3>1 DEF Job
  <2> QED
    BY <1>1, <2>2, <2>3 DEF RunRoute
<1>2. CASE LoadReceipts(t)
  <2> DEFINE j == [job[t] EXCEPT !.pc = "save", !.store = receipts, !.receipt = ReceiptFor(t, job[t].eco)]
  <2>1. /\ job[t].pc = "load" /\ UNCHANGED <<world, receipts, process, missed>>
        /\ job' = [job EXCEPT ![t] = j]
    BY <1>2 DEF LoadReceipts, TypeOK
  <2>2. ReceiptFor(t, job[t].eco) \in Receipt
    BY <2>1, ReceiptTyped DEF JobsInStep
  <2>3. j \in Job /\ j.pc = "save" /\ j.route = job[t].route
    BY <1>0, <1>a, <2>2 DEF Job
  <2> HIDE DEF j
  <2>4. OthersWait(t) /\ job'[t] = j
    BY <2>1, <2>3 DEF OthersWait, TypeOK
  <2> QED
    BY <1>0, <1>a, <2>1, <2>3, <2>4 DEF world
<1>3. CASE SaveReceipts(t)
  <2> DEFINE j == [NoJob EXCEPT !.pc = "installed"]
  <2>1. /\ job[t].pc = "save" /\ UNCHANGED <<world, process>>
        /\ job' = [job EXCEPT ![t] = j]
        /\ receipts' = [job[t].store EXCEPT ![t] = job[t].receipt]
        /\ missed' \in BOOLEAN
    BY <1>3 DEF SaveReceipts, TypeOK
  <2>2. j \in Job /\ j.pc = "installed" /\ j.route = 1
    BY NoJobFacts DEF Job
  <2>3. receipts' \in [Tools -> Receipt \cup {None}]
    BY <1>0, <2>1 DEF Job
  <2> HIDE DEF j
  <2>4. OthersWait(t) /\ job'[t] = j
    BY <2>1, <2>2 DEF OthersWait, TypeOK
  <2> QED
    BY <1>0, <1>a, <2>1, <2>2, <2>3, <2>4, RouteFacts DEF world
<1>4. CASE SaveFails(t)
  <2> DEFINE j == [NoJob EXCEPT !.pc = "unrecorded"]
  <2>1. /\ job[t].pc = "save" /\ UNCHANGED <<world, receipts, process>>
        /\ job' = [job EXCEPT ![t] = j] /\ missed' = TRUE
    BY <1>4 DEF SaveFails
  <2>2. j \in Job /\ j.pc = "unrecorded" /\ j.route = 1
    BY NoJobFacts DEF Job
  <2> HIDE DEF j
  <2>3. OthersWait(t) /\ job'[t] = j
    BY <2>1, <2>2 DEF OthersWait, TypeOK
  <2> QED
    BY <1>0, <1>a, <2>1, <2>2, <2>3, RouteFacts DEF world
<1>5. CASE Reroute(t)
  <2>1. /\ job[t].pc = "reroute" /\ UNCHANGED <<present, receipts, process, missed>>
        /\ job[t].eco \in Places
    BY <1>0, <1>5 DEF Reroute, JobsInStep
  <2>2. CASE Build(t, job[t].eco) /\ Goto(t, "load")
    <3>1. OthersWait(t) /\ job'[t] = [job[t] EXCEPT !.pc = "load"]
      BY <2>2, GotoFacts
    <3> QED
      BY <1>0, <1>a, <2>1, <2>2, <3>1, BuildFacts DEF Job
  <2>3. CASE UNCHANGED <<copies, builds>> /\ Goto(t, "failed")
    <3>1. OthersWait(t) /\ job'[t] = [job[t] EXCEPT !.pc = "failed"]
      BY <2>3, GotoFacts
    <3> QED
      BY <1>0, <1>a, <2>1, <2>3, <3>1 DEF Job
  <2> QED
    BY <1>5, <2>2, <2>3 DEF Reroute
<1>6. CASE UpgradeNative(t)
  <2>1. job[t].pc \in {"native", "flag"} /\ UNCHANGED <<present, receipts, process, missed>>
    BY <1>6 DEF UpgradeNative
  <2>2. PICK pc \in {"remove", "upgraded", "failed"} :
          Goto(t, pc) /\ (Build(t, Native) \/ UNCHANGED <<copies, builds>>)
    BY <1>6 DEF UpgradeNative
  <2>3. OthersWait(t) /\ job'[t] = [job[t] EXCEPT !.pc = pc]
    BY <2>2, GotoFacts
  <2>4. builds' \in 0..MaxBuilds /\ copies' \in [Tools -> [Places -> {None} \cup 0..MaxBuilds]]
    BY <1>a, <2>2, BuildFacts DEF Places
  <2> QED
    BY <1>0, <1>a, <2>1, <2>3, <2>4 DEF Job
<1>7. CASE RemoveReceipt(t)
  <2>1. /\ job[t].pc = "remove" /\ UNCHANGED <<world, process, missed>>
        /\ receipts' \in {receipts, [receipts EXCEPT ![t] = None]} /\ Goto(t, "upgraded")
    BY <1>7 DEF RemoveReceipt
  <2>2. OthersWait(t) /\ job'[t] = [job[t] EXCEPT !.pc = "upgraded"]
    BY <2>1, GotoFacts
  <2> QED
    BY <1>0, <1>a, <2>1, <2>2 DEF Job, world
<1> QED
  BY <1>1, <1>2, <1>3, <1>4, <1>5, <1>6, <1>7 DEF Works

(* Its installation concerns its own tool, and the copy is there.             *)
LEMMA KeepsOthers ==
  ASSUME TypeOK, JobsInStep, NEW t \in Tools, Works(t)
  PROVE  \A u \in Tools \ {t}, p \in Places : copies'[u][p] = copies[u][p]
<1>1. CASE UNCHANGED copies
  BY <1>1
<1>2. ASSUME NEW p \in Places, Build(t, p)
      PROVE  \A u \in Tools \ {t}, q \in Places : copies'[u][q] = copies[u][q]
  BY <1>2, BuildFacts
<1>3. UNCHANGED copies \/ \E p \in Places : Build(t, p)
  <2>1. Eco(t) \in Places /\ Native \in Places
    BY EcoKnown DEF Places
  <2>2. Reroute(t) => job[t].eco \in Places
    BY DEF Reroute, At, JobsInStep, Places
  <2> QED
    BY <2>1, <2>2 DEF Works, RunRoute, LoadReceipts, SaveReceipts, SaveFails, Reroute, UpgradeNative,
                      RemoveReceipt, world
<1> QED
  BY <1>1, <1>2, <1>3

LEMMA OwnCopy ==
  ASSUME TypeOK, JobsInStep, NEW t \in Tools, Works(t)
  PROVE  /\ job'[t].pc \in {"reroute", "load", "save"} => job'[t].eco \in Ecos
         /\ job'[t].pc = "load" => copies'[t][job'[t].eco] # None
<1> USE DEF At
<1>0. job[t] \in Job /\ Eco(t) \in Ecos /\ Ecos \subseteq Places /\ Native \notin Ecos
  BY EcoKnown, PlacesKnown DEF TypeOK, Places
<1>1. CASE RunRoute(t) /\ Build(t, Eco(t)) /\ job' = [job EXCEPT ![t].pc = "load", ![t].eco = Eco(t)]
  <2>1. job'[t].eco = Eco(t)
    BY <1>0, <1>1 DEF TypeOK, Job
  <2> QED
    BY <1>0, <1>1, <2>1, BuildFacts
<1>2. CASE LoadReceipts(t)
  <2>1. job[t].pc = "load" /\ job[t].eco \in Ecos
    BY <1>2 DEF LoadReceipts, JobsInStep
  <2>2. job'[t].pc = "save" /\ job'[t].eco = job[t].eco
    BY <1>0, <1>2 DEF LoadReceipts, TypeOK, Job
  <2> QED
    BY <2>1, <2>2
<1>3. CASE Reroute(t) /\ Build(t, job[t].eco) /\ Goto(t, "load")
  <2>1. job[t].eco \in Ecos
    BY <1>3 DEF Reroute, JobsInStep
  <2>2. job'[t].eco = job[t].eco
    BY <1>0, <1>3, GotoFacts DEF Job
  <2> QED
    BY <1>0, <1>3, <2>1, <2>2, BuildFacts
<1>4. ASSUME NEW pc \in {"failed", "remove", "upgraded"}, Goto(t, pc)
      PROVE  job'[t].pc \notin {"reroute", "load", "save"}
  <2>1. pc \in Pending \cup Finished \cup {"load", "remove"}
    BY DEF Finished
  <2>2. job'[t] = [job[t] EXCEPT !.pc = pc]
    BY <1>4, <2>1, GotoFacts
  <2>3. job'[t].pc = pc
    BY <1>0, <2>2 DEF Job
  <2> QED
    BY <2>3
<1>5. CASE SaveReceipts(t)
  BY <1>5, NoJobFacts DEF SaveReceipts, NoJob, TypeOK
<1>6. CASE SaveFails(t)
  BY <1>6, NoJobFacts DEF SaveFails, NoJob, TypeOK
<1>7. \/ RunRoute(t) /\ Build(t, Eco(t)) /\ job' = [job EXCEPT ![t].pc = "load", ![t].eco = Eco(t)]
      \/ LoadReceipts(t) \/ (Reroute(t) /\ Build(t, job[t].eco) /\ Goto(t, "load"))
      \/ SaveReceipts(t) \/ SaveFails(t)
      \/ \E pc \in {"failed", "remove", "upgraded"} : Goto(t, pc)
  BY DEF Works, RunRoute, Reroute, UpgradeNative, RemoveReceipt
<1> QED
  BY <1>1, <1>2, <1>3, <1>4, <1>5, <1>6, <1>7

------------------------------------------------------------------------------
(* Commands and users.                                                       *)

LEMMA SetupFacts ==
  ASSUME TypeOK, StartSetup
  PROVE  /\ job' \in [Tools -> Job]
         /\ \A u \in Tools : job'[u].pc \in {"ask", "idle"} /\ job'[u].route = 1 /\ job'[u].again = FALSE
         /\ command = "none" /\ command' = "setup" /\ commands' \in 0..MaxCommands
         /\ \A e \in Ecos : has_cache'[e] = "unset"
         /\ has_cache' \in [Ecos -> {"unset", "yes", "no"}]
         /\ bootstrap_failed' = {} /\ UNCHANGED <<world, receipts, missed>>
<1> DEFINE j == [NoJob EXCEPT !.pc = "ask"]
<1>1. j \in Job /\ j.pc = "ask" /\ j.route = 1 /\ j.again = FALSE
  BY NoJobFacts DEF Job, Pending
<1> HIDE DEF j
<1>2. PICK wanted \in SUBSET Tools : job' = [t \in Tools |-> IF t \in wanted THEN j ELSE NoJob]
  BY DEF StartSetup, j
<1>3. job' \in [Tools -> Job]
      /\ \A u \in Tools : job'[u].pc \in {"ask", "idle"} /\ job'[u].route = 1 /\ job'[u].again = FALSE
  BY <1>1, <1>2, NoJobFacts
<1>4. commands' \in 0..MaxCommands
  BY Bounds DEF StartSetup, TypeOK
<1> QED
  BY <1>3, <1>4 DEF StartSetup

LEMMA UpgradeFacts ==
  ASSUME TypeOK, NEW t \in Tools, StartUpgrade(t)
  PROVE  /\ job' \in [Tools -> Job]
         /\ \A u \in Tools : job'[u].route = 1 /\ (u # t => job'[u].pc = "idle")
         /\ job'[t].pc \in {"reroute", "native", "flag"}
         /\ job'[t].pc = "reroute" => job'[t].eco \in ValidRoute(t) /\ job'[t].eco \in Ecos
         /\ command = "none" /\ command' = "upgrade" /\ commands' \in 0..MaxCommands
         /\ UNCHANGED <<world, receipts, has_cache, bootstrap_failed, missed>>
<1>1. /\ command = "none" /\ command' = "upgrade"
      /\ UNCHANGED <<world, receipts, has_cache, bootstrap_failed, missed>>
      /\ commands' \in 0..MaxCommands
  <2>1. /\ command = "none" /\ command' = "upgrade"
        /\ UNCHANGED <<world, receipts, has_cache, bootstrap_failed, missed>>
        /\ commands < MaxCommands /\ commands' = commands + 1
    BY DEF StartUpgrade
  <2> QED
    BY <2>1, Bounds DEF TypeOK
<1>2. PICK j \in Job :
        /\ job' = [u \in Tools |-> IF u = t THEN j ELSE NoJob]
        /\ j.route = 1 /\ j.pc \in {"reroute", "native", "flag"}
        /\ j.pc = "reroute" => j.eco \in ValidRoute(t) /\ j.eco \in Ecos
  <2>1. CASE \E eco \in ValidRoute(t) :
               job' = [u \in Tools |-> IF u = t THEN [NoJob EXCEPT !.pc = "reroute", !.eco = eco] ELSE NoJob]
    <3>1. PICK eco \in ValidRoute(t) :
            job' = [u \in Tools |-> IF u = t THEN [NoJob EXCEPT !.pc = "reroute", !.eco = eco] ELSE NoJob]
      BY <2>1
    <3>2. eco \in Ecos
      BY DEF ValidRoute, TypeOK, Receipt
    <3> DEFINE j == [NoJob EXCEPT !.pc = "reroute", !.eco = eco]
    <3>3. j \in Job /\ j.route = 1 /\ j.pc = "reroute" /\ j.eco = eco
      BY <3>2, NoJobFacts DEF Job
    <3> HIDE DEF j
    <3>4. job' = [u \in Tools |-> IF u = t THEN j ELSE NoJob]
      BY <3>1 DEF j
    <3> QED
      BY <3>2, <3>3, <3>4
  <2>2. ASSUME NEW pc \in {"native", "flag"},
               job' = [u \in Tools |-> IF u = t THEN [NoJob EXCEPT !.pc = pc] ELSE NoJob]
        PROVE  \E j \in Job :
                 /\ job' = [u \in Tools |-> IF u = t THEN j ELSE NoJob]
                 /\ j.route = 1 /\ j.pc \in {"reroute", "native", "flag"}
                 /\ j.pc = "reroute" => j.eco \in ValidRoute(t) /\ j.eco \in Ecos
    <3> DEFINE j == [NoJob EXCEPT !.pc = pc]
    <3>1. j \in Job /\ j.route = 1 /\ j.pc = pc
      BY NoJobFacts DEF Job
    <3> HIDE DEF j
    <3>2. job' = [u \in Tools |-> IF u = t THEN j ELSE NoJob]
      BY <2>2 DEF j
    <3> QED
      BY <3>1, <3>2
  <2> QED
    BY <2>1, <2>2 DEF StartUpgrade
<1> QED
  BY <1>1, <1>2, NoJobFacts

LEMMA EndFacts ==
  ASSUME TypeOK, End
  PROVE  /\ job' \in [Tools -> Job]
         /\ \A u \in Tools : job'[u] \in {job[u], NoJob} /\ job'[u].pc \in Finished
         /\ command' = "none"
         /\ missed' \in BOOLEAN
         /\ ~missed' => ~missed /\ \A u \in Tools : job[u].pc \notin {"load", "save"}
         /\ UNCHANGED <<world, receipts, has_cache, bootstrap_failed, commands>>
<1>1. CASE \A t \in Tools : job[t].pc \in Finished
  BY <1>1 DEF End, TypeOK, At
<1>2. CASE ~ \A t \in Tools : job[t].pc \in Finished
  <2>1. job' = [t \in Tools |-> NoJob]
    BY <1>2 DEF End
  <2>2. "idle" \in Finished
    BY DEF Finished
  <2> QED
    BY <2>1, <2>2, NoJobFacts DEF End, TypeOK, At
<1> QED
  BY <1>1, <1>2

(* A user changes copies of the platform, or removes some between commands.   *)
LEMMA UserFacts ==
  ASSUME TypeOK, UserInstalls \/ UserRemoves
  PROVE  /\ UNCHANGED <<present, receipts, process, job, missed>>
         /\ builds' \in 0..MaxBuilds
         /\ copies' \in [Tools -> [Places -> {None} \cup 0..MaxBuilds]]
         /\ \A t \in Tools, e \in Ecos :
               copies'[t][e] = copies[t][e] \/ (command = "none" /\ copies'[t][e] = None)
<1>0. Native \in Places /\ Native \notin Ecos /\ Ecos \subseteq Places
  BY PlacesKnown DEF Places
<1>1. CASE UserInstalls
  <2>1. PICK t \in Tools : Build(t, Native)
    BY <1>1 DEF UserInstalls
  <2> QED
    BY <1>0, <1>1, <2>1, BuildFacts DEF UserInstalls
<1>2. CASE UserRemoves
  <2>1. PICK t \in Tools, p \in Places :
          command = "none" /\ copies' = [copies EXCEPT ![t][p] = None]
    BY <1>2 DEF UserRemoves
  <2> QED
    BY <1>0, <1>2, <2>1 DEF UserRemoves, TypeOK
<1> QED
  BY <1>1, <1>2

(* The steps of the system, by who takes them.                               *)
LEMMA NextCases ==
  ASSUME [Next]_vars
  PROVE  \/ StartSetup \/ End \/ UserInstalls \/ UserRemoves \/ UNCHANGED vars
         \/ \E t \in Tools : StartUpgrade(t) \/ Prepares(t) \/ Works(t)
BY DEF Next, Step, Prepares, Works

------------------------------------------------------------------------------
(* Types and the steps of a job.                                             *)

LEMMA TypeInit == Init => TypeOK /\ JobsInStep
<1> SUFFICES ASSUME Init PROVE TypeOK /\ JobsInStep
  OBVIOUS
<1>1. job \in [Tools -> Job] /\ \A t \in Tools : job[t].route \in 1..Len(Routes[t]) /\ job[t].pc = "idle"
  BY NoJobFacts, RouteFacts DEF Init
<1>2. copies \in [Tools -> [Places -> {None} \cup 0..MaxBuilds]]
  <2>1. 0 \in 0..MaxBuilds
    BY Bounds
  <2> QED
    BY <2>1 DEF Init
<1>3. receipts \in [Tools -> Receipt \cup {None}]
  BY DEF Init, NoReceipts
<1>4. /\ present \subseteq Ecos /\ bootstrap_failed \subseteq Ecos /\ builds \in 0..MaxBuilds
      /\ has_cache \in [Ecos -> {"unset", "yes", "no"}]
      /\ command \in {"none", "setup", "upgrade"} /\ commands \in 0..MaxCommands /\ missed \in BOOLEAN
  <2>1. /\ present \subseteq Ecos /\ bootstrap_failed = {} /\ builds = 0
        /\ has_cache = [e \in Ecos |-> "unset"]
        /\ command = "none" /\ commands = 0 /\ missed = FALSE
    BY DEF Init
  <2>2. 0 \in 0..MaxBuilds /\ 0 \in 0..MaxCommands
    BY Bounds
  <2>3. [e \in Ecos |-> "unset"] \in [Ecos -> {"unset", "yes", "no"}]
    OBVIOUS
  <2> QED
    BY <2>1, <2>2, <2>3
<1>5. "idle" \in Finished
  BY DEF Finished
<1> QED
  BY <1>1, <1>2, <1>3, <1>4, <1>5 DEF TypeOK, JobsInStep

LEMMA TypeStep == TypeOK /\ JobsInStep /\ [Next]_vars => TypeOK'
<1> SUFFICES ASSUME TypeOK, JobsInStep, [Next]_vars PROVE TypeOK'
  OBVIOUS
<1>1. CASE StartSetup
  <2>1. \A u \in Tools : job'[u].route \in 1..Len(Routes[u])
    <3>1. \A u \in Tools : job'[u].route = 1
      BY <1>1, SetupFacts
    <3>2. \A u \in Tools : 1 \in 1..Len(Routes[u])
      BY RouteFacts
    <3> QED
      BY <3>1, <3>2
  <2>2. UNCHANGED <<present, copies, builds, receipts, missed>>
    BY <1>1, SetupFacts DEF world
  <2>3. /\ job' \in [Tools -> Job] /\ command' = "setup" /\ commands' \in 0..MaxCommands
        /\ has_cache' \in [Ecos -> {"unset", "yes", "no"}] /\ bootstrap_failed' = {}
    BY <1>1, SetupFacts
  <2> QED
    BY <2>1, <2>2, <2>3 DEF TypeOK
<1>2. CASE End
  <2>1. \A t \in Tools : job'[t].route \in 1..Len(Routes[t])
    <3>1. \A t \in Tools : job'[t] \in {job[t], NoJob}
      BY <1>2, EndFacts
    <3>2. \A t \in Tools : job[t].route \in 1..Len(Routes[t])
      BY DEF TypeOK
    <3>3. \A t \in Tools : NoJob.route \in 1..Len(Routes[t])
      BY NoJobFacts, RouteFacts
    <3> QED
      BY <3>1, <3>2, <3>3
  <2> QED
    BY <1>2, <2>1, EndFacts DEF TypeOK, world
<1>3. CASE UserInstalls \/ UserRemoves
  BY <1>3, UserFacts DEF TypeOK, process
<1>4. CASE UNCHANGED vars
  BY <1>4 DEF vars, world, process, TypeOK
<1>5. ASSUME NEW t \in Tools, StartUpgrade(t) PROVE TypeOK'
  BY <1>5, UpgradeFacts, RouteFacts DEF TypeOK, world
<1>6. ASSUME NEW t \in Tools, Prepares(t) PROVE TypeOK'
  <2>1. job'[t].route \in 1..Len(Routes[t])
    <3>1. job[t].route \in 1..Len(Routes[t]) /\ Len(Routes[t]) \in Nat \ {0}
      BY EcoKnown, RouteFacts
    <3>2. CASE Stays(t)
      BY <3>1, <3>2 DEF Stays
    <3>3. CASE Moves(t)
      BY <3>1, <3>3 DEF Moves
    <3> QED
      BY <1>6, <3>2, <3>3, PrepareFacts
  <2>2. \A u \in Tools : job'[u].route \in 1..Len(Routes[u])
    BY <1>6, <2>1, PrepareFacts DEF OthersWait, TypeOK
  <2>3. present' \subseteq Ecos /\ bootstrap_failed' \subseteq Ecos
    BY <1>6, PrepareFacts, EcoKnown DEF TypeOK
  <2> QED
    BY <1>6, <2>2, <2>3, PrepareFacts DEF OthersWait, TypeOK
<1>7. ASSUME NEW t \in Tools, Works(t) PROVE TypeOK'
  <2>1. \A u \in Tools : job'[u].route \in 1..Len(Routes[u])
    BY <1>7, WorkFacts DEF OthersWait, TypeOK
  <2> QED
    BY <1>7, <2>1, WorkFacts DEF OthersWait, TypeOK, process
<1> QED
  BY <1>1, <1>2, <1>3, <1>4, <1>5, <1>6, <1>7, NextCases

LEMMA JobsStep == TypeOK /\ JobsInStep /\ [Next]_vars => JobsInStep'
<1> SUFFICES ASSUME TypeOK, JobsInStep, [Next]_vars PROVE JobsInStep'
  OBVIOUS
<1> USE DEF Finished, Pending
<1>0. Ecos \subseteq Places
  BY DEF Places
<1>1. CASE StartSetup
  BY <1>1, SetupFacts DEF JobsInStep
<1>2. CASE End
  BY <1>2, EndFacts DEF JobsInStep
<1>3. CASE UserInstalls \/ UserRemoves
  <2>1. UNCHANGED <<job, command>>
    BY <1>3, UserFacts DEF process
  <2>2. ASSUME NEW t \in Tools, job[t].pc = "load" PROVE copies'[t][job[t].eco] # None
    <3>1. command # "none" /\ job[t].eco \in Ecos /\ copies[t][job[t].eco] # None
      BY <2>2 DEF JobsInStep
    <3> QED
      BY <1>3, <3>1, UserFacts
  <2> QED
    BY <2>1, <2>2 DEF JobsInStep
<1>4. CASE UNCHANGED vars
  BY <1>4 DEF vars, world, process, JobsInStep
<1>5. ASSUME NEW t \in Tools, StartUpgrade(t) PROVE JobsInStep'
  BY <1>5, UpgradeFacts DEF JobsInStep
<1>6. ASSUME NEW t \in Tools, Prepares(t) PROVE JobsInStep'
  <2>1. /\ command' = command /\ copies' = copies
        /\ \A u \in Tools \ {t} : job'[u] = job[u]
        /\ job'[t].pc \in Pending \cup {"unsupported"} /\ job[t].pc \in Pending
    BY <1>6, PrepareFacts DEF OthersWait, Stays, Moves
  <2>2. command # "none"
    BY <2>1 DEF JobsInStep
  <2> QED
    BY <2>1, <2>2 DEF JobsInStep
<1>7. ASSUME NEW t \in Tools, Works(t) PROVE JobsInStep'
  <2>1. command' = command /\ command # "none" /\ \A u \in Tools \ {t} : job'[u] = job[u]
    BY <1>7, WorkFacts DEF JobsInStep, OthersWait, process
  <2>2. \A u \in Tools \ {t}, p \in Places : copies'[u][p] = copies[u][p]
    BY <1>7, KeepsOthers
  <2>3. /\ job'[t].pc \in {"reroute", "load", "save"} => job'[t].eco \in Ecos
        /\ job'[t].pc = "load" => copies'[t][job'[t].eco] # None
    BY <1>7, OwnCopy
  <2>4. ASSUME NEW u \in Tools, u # t
        PROVE  /\ job'[u].pc \in {"reroute", "load", "save"} => job'[u].eco \in Ecos
               /\ job'[u].pc = "load" => copies'[u][job'[u].eco] # None
    BY <1>0, <2>1, <2>2, <2>4 DEF JobsInStep
  <2> QED
    BY <2>1, <2>3, <2>4 DEF JobsInStep
<1> QED
  BY <1>1, <1>2, <1>3, <1>4, <1>5, <1>6, <1>7, NextCases

------------------------------------------------------------------------------
(* Which toolchains have failed, and which have always been there.           *)

LEMMA RoutesStep ==
  TypeOK /\ JobsInStep /\ RoutesInOrder /\ UnsupportedIsExplained /\ [Next]_vars
    => RoutesInOrder' /\ UnsupportedIsExplained'
<1> SUFFICES ASSUME TypeOK, JobsInStep, RoutesInOrder, UnsupportedIsExplained, [Next]_vars
             PROVE  RoutesInOrder' /\ UnsupportedIsExplained'
  OBVIOUS
<1> USE DEF RoutesInOrder, UnsupportedIsExplained, At
<1>0. "unsupported" \notin Pending /\ Finished \cap Pending = {}
  BY DEF Pending, Finished
<1>1. CASE StartSetup
  <2>1. \A t \in Tools : job'[t].route - 1 = 0 /\ job'[t].pc # "unsupported"
    <3>1. \A t \in Tools : job'[t].pc \in {"ask", "idle"} /\ job'[t].route = 1
      BY <1>1, SetupFacts
    <3> QED
      BY <3>1
  <2> QED
    BY <2>1
<1>2. CASE End
  <2>1. ASSUME NEW t \in Tools PROVE job'[t].pc \notin Pending
    BY <1>0, <1>2, EndFacts
  <2>2. ASSUME NEW t \in Tools, job'[t].pc = "unsupported" PROVE job'[t] = job[t]
    BY <1>2, <2>2, EndFacts, NoJobFacts
  <2> QED
    BY <1>2, <2>1, <2>2, EndFacts
<1>3. CASE UserInstalls \/ UserRemoves \/ UNCHANGED vars
  BY <1>3, UserFacts DEF process, vars
<1>4. ASSUME NEW t \in Tools, StartUpgrade(t)
      PROVE  RoutesInOrder' /\ UnsupportedIsExplained'
  <2>1. \A u \in Tools : job'[u].pc \notin Pending \cup {"unsupported"}
    BY <1>4, UpgradeFacts DEF Pending
  <2> QED
    BY <2>1
<1>5. ASSUME NEW t \in Tools, Prepares(t)
      PROVE  RoutesInOrder' /\ UnsupportedIsExplained'
  <2>1. bootstrap_failed \subseteq bootstrap_failed' /\ \A u \in Tools \ {t} : job'[u] = job[u]
    BY <1>5, PrepareFacts DEF OthersWait
  <2>2. /\ job[t].route \in 1..Len(Routes[t]) /\ Len(Routes[t]) \in Nat
        /\ \A i \in 1..(job[t].route - 1) : Routes[t][i] \in bootstrap_failed
        /\ Eco(t) = Routes[t][job[t].route]
    BY <1>5, PrepareFacts, EcoKnown, RouteFacts DEF Pending
  <2>3. /\ job'[t].pc \in Pending =>
            \A i \in 1..(job'[t].route - 1) : Routes[t][i] \in bootstrap_failed'
        /\ job'[t].pc = "unsupported" =>
            \A i \in 1..Len(Routes[t]) : Routes[t][i] \in bootstrap_failed'
    <3>1. CASE Stays(t)
      BY <1>0, <2>1, <2>2, <3>1 DEF Stays
    <3>2. CASE Moves(t)
      <4>1. \A i \in 1..job[t].route : Routes[t][i] \in bootstrap_failed'
        <5> SUFFICES ASSUME NEW i \in 1..job[t].route PROVE Routes[t][i] \in bootstrap_failed'
          OBVIOUS
        <5>1. CASE i = job[t].route
          BY <2>2, <3>2, <5>1 DEF Moves
        <5>2. CASE i # job[t].route
          BY <2>1, <2>2, <5>2
        <5> QED
          BY <5>1, <5>2
      <4> QED
        BY <1>0, <2>2, <3>2, <4>1 DEF Moves
    <3> QED
      BY <1>5, <3>1, <3>2, PrepareFacts
  <2>4. ASSUME NEW u \in Tools, u # t
        PROVE  /\ job'[u].pc \in Pending =>
                    \A i \in 1..(job'[u].route - 1) : Routes[u][i] \in bootstrap_failed'
               /\ job'[u].pc = "unsupported" =>
                    \A i \in 1..Len(Routes[u]) : Routes[u][i] \in bootstrap_failed'
    <3>1. job'[u] = job[u]
      BY <2>1, <2>4
    <3> QED
      BY <2>1, <3>1
  <2> QED
    BY <2>3, <2>4
<1>6. ASSUME NEW t \in Tools, Works(t)
      PROVE  RoutesInOrder' /\ UnsupportedIsExplained'
  <2>1. /\ job'[t].pc \notin Pending \cup {"unsupported"}
        /\ bootstrap_failed' = bootstrap_failed /\ \A u \in Tools \ {t} : job'[u] = job[u]
    BY <1>6, WorkFacts DEF OthersWait, process
  <2> QED
    BY <2>1
<1> QED
  BY <1>1, <1>2, <1>3, <1>4, <1>5, <1>6, NextCases

LEMMA NeverMissingKept ==
  ASSUME TypeOK, NEW e \in Ecos, NeverMissing(e), NEW t \in Tools, Prepares(t)
  PROVE  NeverMissing(e)'
<1> USE DEF At
<1>0. job[t] \in Job /\ Eco(t) \in Ecos /\ job[t].pc \in Pending
  BY PrepareFacts, EcoKnown DEF TypeOK, Pending
<1>1. /\ e \in present' /\ OthersWait(t) /\ (Stays(t) \/ Moves(t))
      /\ bootstrap_failed' \subseteq bootstrap_failed \cup {Eco(t)}
      /\ \A d \in Ecos \ {Eco(t)} : has_cache'[d] = has_cache[d]
  BY PrepareFacts DEF NeverMissing
<1>2. ASSUME NEW u \in Tools \ {t}, job'[u].pc \in Pending, Eco(u)' = e
      PROVE  /\ job'[u].pc \in {"ask", "remember", "run"} /\ ~job'[u].again
             /\ job'[u].pc = "remember" => job'[u].saw
  <2>1. job'[u] = job[u] /\ Eco(u)' = Eco(u)
    BY <1>1 DEF OthersWait, Eco
  <2> QED
    BY <1>2, <2>1 DEF NeverMissing
<1>3. CASE Eco(t) # e
  <2>1. e \notin bootstrap_failed' /\ has_cache'[e] # "no"
    BY <1>1, <1>3 DEF NeverMissing
  <2>2. ASSUME job'[t].pc \in Pending, Eco(t)' = e
        PROVE  job'[t].pc = "ask" /\ job'[t].again = FALSE
    <3>1. ~Stays(t)
      BY <1>3, <2>2 DEF Stays, Eco
    <3> QED
      BY <1>1, <2>2, <3>1 DEF Moves, Pending
  <2> QED
    BY <1>1, <1>2, <2>1, <2>2 DEF NeverMissing
<1>4. CASE Eco(t) = e
  <2>1. /\ e \in present /\ e \notin bootstrap_failed /\ has_cache[e] # "no"
        /\ job[t].pc \in {"ask", "remember", "run"} /\ ~job[t].again
        /\ job[t].pc = "remember" => job[t].saw
    BY <1>0, <1>4 DEF NeverMissing
  <2>2. CASE Ask(t)
    <3>1. has_cache' = has_cache
      BY <2>2 DEF Ask
    <3>2. CASE has_cache[e] = "unset"
      <4> DEFINE b == Eco(t) \in present
      <4>0. b = TRUE
        BY <1>4, <2>1
      <4>1. job' = [job EXCEPT ![t].pc = "remember", ![t].saw = b] /\ UNCHANGED bootstrap_failed
        BY <1>4, <2>2, <3>2 DEF Ask
      <4> HIDE DEF b
      <4>2. job'[t].pc = "remember" /\ job'[t].saw = TRUE /\ job'[t].again = job[t].again
        BY <1>0, <4>0, <4>1 DEF TypeOK, Job
      <4> QED
        BY <1>1, <1>2, <2>1, <3>1, <4>1, <4>2 DEF NeverMissing
    <3>3. CASE has_cache[e] # "unset"
      <4>1. has_cache[e] = "yes"
        BY <2>1, <3>3 DEF TypeOK
      <4>2. Answered(t, TRUE)
        BY <1>4, <2>2, <4>1 DEF Ask
      <4>3. job'[t] = [job[t] EXCEPT !.pc = "run"] /\ UNCHANGED bootstrap_failed
        BY <4>2, AnsweredFacts
      <4>4. job'[t].pc = "run" /\ job'[t].again = job[t].again
        BY <1>0, <4>3 DEF Job
      <4> QED
        BY <1>1, <1>2, <2>1, <3>1, <4>3, <4>4 DEF NeverMissing
    <3> QED
      BY <3>2, <3>3
  <2>3. CASE Remember(t)
    <3>1. job[t].pc = "remember"
      BY <2>3 DEF Remember
    <3>2. job[t].saw = TRUE
      BY <1>0, <2>1, <3>1 DEF Job
    <3>3. has_cache' = [has_cache EXCEPT ![e] = "yes"] /\ Answered(t, TRUE)
      BY <1>4, <2>3, <3>2 DEF Remember
    <3>4. job'[t] = [job[t] EXCEPT !.pc = "run"] /\ UNCHANGED bootstrap_failed
      BY <3>3, AnsweredFacts
    <3>5. job'[t].pc = "run" /\ job'[t].again = job[t].again /\ has_cache'[e] = "yes"
      BY <1>0, <3>3, <3>4 DEF Job, TypeOK
    <3> QED
      BY <1>1, <1>2, <2>1, <3>4, <3>5 DEF NeverMissing
  <2>4. ~CheckMemo(t) /\ ~Bootstrap(t) /\ ~Forget(t)
    BY <2>1 DEF CheckMemo, Bootstrap, Forget
  <2> QED
    BY <2>2, <2>3, <2>4 DEF Prepares
<1> QED
  BY <1>3, <1>4

LEMMA OldToolchainsStep ==
  TypeOK /\ JobsInStep /\ OldToolchainsKnown /\ [Next]_vars => OldToolchainsKnown'
<1> SUFFICES ASSUME TypeOK, JobsInStep, OldToolchainsKnown, [Next]_vars,
                    NEW x \in Tools, NEW e \in Ecos, copies'[x][e] # None
             PROVE  e \in present' /\ (job'[x].pc \in Pending => NeverMissing(e)')
  BY DEF OldToolchainsKnown
<1> USE DEF At
<1>0. copies[x][e] # None => e \in present /\ (job[x].pc \in Pending => NeverMissing(e))
  BY DEF OldToolchainsKnown
<1>a. Finished \cap Pending = {}
  BY DEF Pending, Finished
<1>1. CASE StartSetup
  <2>1. e \in present'
    BY <1>0, <1>1, SetupFacts DEF world
  <2>2. \A u \in Tools : job'[u].pc \in {"ask", "idle"} /\ job'[u].again = FALSE
    BY <1>1, SetupFacts
  <2>3. has_cache'[e] = "unset" /\ bootstrap_failed' = {}
    BY <1>1, SetupFacts
  <2>4. NeverMissing(e)'
    BY <2>1, <2>2, <2>3 DEF NeverMissing, Pending
  <2> QED
    BY <2>1, <2>4
<1>2. CASE End
  BY <1>0, <1>2, <1>a, EndFacts DEF world
<1>3. CASE UserInstalls \/ UserRemoves
  <2>1. copies[x][e] # None
    BY <1>3, UserFacts
  <2>2. UNCHANGED <<present, bootstrap_failed, has_cache, job>>
    BY <1>3, UserFacts DEF process
  <2> QED
    BY <1>0, <2>1, <2>2 DEF NeverMissing, Eco
<1>4. CASE UNCHANGED vars
  BY <1>0, <1>4 DEF vars, world, process, NeverMissing, Eco
<1>5. ASSUME NEW t \in Tools, StartUpgrade(t)
      PROVE  e \in present' /\ (job'[x].pc \in Pending => NeverMissing(e)')
  <2>1. job'[x].pc \notin Pending
    BY <1>5, UpgradeFacts DEF Pending
  <2> QED
    BY <1>0, <1>5, <2>1, UpgradeFacts DEF world
<1>6. ASSUME NEW t \in Tools, Prepares(t)
      PROVE  e \in present' /\ (job'[x].pc \in Pending => NeverMissing(e)')
  <2>1. copies[x][e] # None /\ present \subseteq present'
    BY <1>6, PrepareFacts
  <2>2. job'[x].pc \in Pending => job[x].pc \in Pending
    BY <1>6, PrepareFacts DEF OthersWait, Pending
  <2> QED
    BY <1>0, <1>6, <2>1, <2>2, NeverMissingKept
<1>7. ASSUME NEW t \in Tools, Works(t)
      PROVE  e \in present' /\ (job'[x].pc \in Pending => NeverMissing(e)')
  <2>1. /\ UNCHANGED <<present, bootstrap_failed, has_cache>>
        /\ job'[t].pc \notin Pending /\ \A u \in Tools \ {t} : job'[u] = job[u]
    BY <1>7, WorkFacts DEF OthersWait, process
  <2>2. NeverMissing(e) => NeverMissing(e)'
    <3> SUFFICES ASSUME NeverMissing(e), NEW u \in Tools, job'[u].pc \in Pending, Eco(u)' = e
                 PROVE  /\ job'[u].pc \in {"ask", "remember", "run"} /\ ~job'[u].again
                        /\ job'[u].pc = "remember" => job'[u].saw
      BY <2>1 DEF NeverMissing
    <3>1. job'[u] = job[u] /\ Eco(u)' = Eco(u)
      BY <2>1 DEF Eco
    <3> QED
      BY <3>1 DEF NeverMissing
  <2>3. CASE x # t
    <3>1. copies[x][e] # None /\ job'[x] = job[x]
      BY <1>7, <2>1, <2>3, KeepsOthers DEF Places
    <3> QED
      BY <1>0, <2>1, <2>2, <3>1
  <2>4. CASE x = t
    <3>1. copies[t][e] # None \/ e \in present
      <4>1. CASE \E p \in Places : Build(t, p) /\ (p \in present \/ p \notin Ecos)
        BY <4>1, <2>4, BuildFacts DEF Places
      <4>2. CASE UNCHANGED copies
        BY <2>4, <4>2
      <4>3. (\E p \in Places : Build(t, p) /\ (p \in present \/ p \notin Ecos)) \/ UNCHANGED copies
        <5>1. Eco(t) \in Places /\ Native \in Places /\ Native \notin Ecos
          BY EcoKnown, PlacesKnown DEF Places
        <5>2. Reroute(t) => job[t].eco \in Places
          BY DEF Reroute, JobsInStep, Places
        <5> QED
          BY <1>7, <5>1, <5>2 DEF Works, RunRoute, LoadReceipts, SaveReceipts, SaveFails, Reroute,
                                  UpgradeNative, RemoveReceipt, world
      <4> QED
        BY <4>1, <4>2, <4>3
    <3> QED
      BY <1>0, <2>1, <2>4, <3>1
  <2> QED
    BY <2>3, <2>4
<1> QED
  BY <1>1, <1>2, <1>3, <1>4, <1>5, <1>6, <1>7, NextCases

------------------------------------------------------------------------------
(* Receipts.                                                                 *)

(* What others do to a tool leaves its receipt as true as it was.             *)
LEMMA Undisturbed ==
  ASSUME TypeOK, NEW t \in Tools, Recorded(t), receipts'[t] = receipts[t],
         \A e \in Ecos : copies'[t][e] \in {copies[t][e], None},
         \/ /\ job[t].pc \notin {"load", "save"}
            /\ job'[t].pc \notin {"reroute", "load", "save"}
         \/ /\ job'[t] = job[t]
            /\ \A e \in Ecos : copies'[t][e] = copies[t][e]
            /\ job[t].pc \in {"reroute", "load", "save"} => job[t].eco \in Ecos
  PROVE  Recorded(t)'
<1>1. \A e \in Ecos : copies'[t][e] # None => e \in {Routes[t][i] : i \in 1..Len(Routes[t])}
  BY DEF Recorded
<1>2. ASSUME NEW e, Unhidden(t, e) PROVE Unhidden(t, e)'
  <2>1. PICK i \in 1..Len(Path) :
          Path[i] = e /\ \A j \in 1..(i - 1) : Path[j] \in Ecos \ {e} /\ copies[t][Path[j]] = None
    BY <1>2 DEF Unhidden
  <2>2. \A j \in 1..(i - 1) : Path[j] \in Ecos \ {e} /\ copies'[t][Path[j]] = None
    BY <2>1
  <2> QED
    BY <2>1, <2>2 DEF Unhidden
<1>3. receipts'[t] # None => TrueReceipt(receipts'[t])
  BY DEF Recorded
<1>4. ASSUME NEW eco \in ValidRoute(t)' PROVE eco \in ValidRoute(t)
  <2>1. /\ receipts[t] # None /\ eco = receipts[t].route
        /\ receipts[t].at # None /\ copies'[t][receipts[t].at] = receipts[t].sig
    BY <1>4 DEF ValidRoute, IsValid
  <2>2. receipts[t].at = receipts[t].route /\ receipts[t].sig # None /\ receipts[t].route \in Ecos
    BY <2>1 DEF Recorded, TrueReceipt, TypeOK, Receipt
  <2>3. copies[t][receipts[t].at] = receipts[t].sig
    BY <2>1, <2>2
  <2> QED
    BY <2>1, <2>3 DEF ValidRoute, IsValid
<1>5. CASE /\ job[t].pc \notin {"load", "save"}
           /\ job'[t].pc \notin {"reroute", "load", "save"}
  <2>1. \A eco \in ValidRoute(t)' : Unhidden(t, eco)'
    BY <1>2, <1>4, <1>5 DEF Recorded
  <2> QED
    BY <1>1, <1>3, <1>5, <2>1 DEF Recorded, TrueReceipt
<1>6. CASE /\ job'[t] = job[t]
           /\ \A e \in Ecos : copies'[t][e] = copies[t][e]
           /\ job[t].pc \in {"reroute", "load", "save"} => job[t].eco \in Ecos
  <2>1. job'[t].pc = "reroute" => copies'[t][job'[t].eco] # None
    BY <1>6 DEF Recorded
  <2>2. job'[t].pc \in {"reroute", "load", "save"} => Unhidden(t, job[t].eco)'
    BY <1>2, <1>6 DEF Recorded
  <2>3. job'[t].pc = "save" => job'[t].receipt.route = job'[t].eco /\ TrueReceipt(job'[t].receipt)
    BY <1>6 DEF Recorded
  <2>4. job'[t].pc \notin {"load", "save"} => \A eco \in ValidRoute(t)' : Unhidden(t, eco)'
    BY <1>2, <1>4, <1>6 DEF Recorded
  <2>5. job'[t].eco = job[t].eco /\ job'[t].receipt = job[t].receipt
    BY <1>6
  <2> QED
    BY <1>1, <1>3, <1>6, <2>1, <2>2, <2>3, <2>4, <2>5 DEF Recorded, TrueReceipt, Unhidden
<1> QED
  BY <1>5, <1>6

(* A route that is run makes a copy that nothing hides: the routes before it  *)
(* have failed, and their toolchains have made none.                         *)
LEMMA RunIsFound ==
  ASSUME TypeOK, RoutesFirst, RoutesInOrder, OldToolchainsKnown, NEW t \in Tools, Recorded(t),
         At(t, "run"), NEW e, e = Eco(t), Build(t, e)
  PROVE  Unhidden(t, e)'
<1>1. /\ job[t].pc \in Pending /\ Eco(t) \in Places
      /\ job[t].route \in 1..Len(Routes[t]) /\ Eco(t) = Routes[t][job[t].route]
      /\ Len(Routes[t]) \in Nat
  BY EcoKnown, RouteFacts DEF At, Pending, Places
<1> DEFINE r == job[t].route
<1>2. PICK i \in 1..Len(Path) :
        /\ Path[i] = e
        /\ \A j \in 1..(i - 1) : Path[j] \in Ecos \ {Routes[t][q] : q \in r..Len(Routes[t])}
  BY <1>1 DEF RoutesFirst
<1>3. ASSUME NEW j \in 1..(i - 1) PROVE Path[j] \in Ecos \ {e} /\ copies'[t][Path[j]] = None
  <2>1. Path[j] \in Ecos /\ Path[j] \notin {Routes[t][q] : q \in r..Len(Routes[t])}
    BY <1>2
  <2>2. Path[j] # e
    BY <1>1, <2>1
  <2>3. copies'[t][Path[j]] = copies[t][Path[j]]
    BY <1>1, <2>1, <2>2, BuildFacts DEF Places
  <2>4. ASSUME copies[t][Path[j]] # None PROVE FALSE
    <3>1. Path[j] \in {Routes[t][q] : q \in 1..Len(Routes[t])}
      BY <2>1, <2>4 DEF Recorded
    <3>2. PICK q \in 1..Len(Routes[t]) : Path[j] = Routes[t][q]
      BY <3>1
    <3>3. q \in 1..(r - 1)
      BY <1>1, <2>1, <3>2
    <3>4. Path[j] \in bootstrap_failed
      BY <1>1, <3>2, <3>3 DEF RoutesInOrder
    <3> QED
      BY <1>1, <2>1, <2>4, <3>4 DEF OldToolchainsKnown, NeverMissing
  <2> QED
    BY <2>1, <2>2, <2>3, <2>4
<1> QED
  BY <1>2, <1>3 DEF Unhidden

LEMMA RecordsStep ==
  ASSUME RoutesFirst
  PROVE  TypeOK /\ JobsInStep /\ RoutesInOrder /\ OldToolchainsKnown /\ RecordsTrue /\ [Next]_vars
            => RecordsTrue'
<1> SUFFICES ASSUME TypeOK, JobsInStep, RoutesInOrder, OldToolchainsKnown, RecordsTrue,
                    [Next]_vars, ~missed', NEW x \in Tools
             PROVE  Recorded(x)'
  BY DEF RecordsTrue
<1> USE DEF At
<1>0. ~missed /\ Recorded(x)
  <2>1. ~missed
    <3>1. CASE End
      BY <3>1, EndFacts
    <3>2. CASE StartSetup \/ UserInstalls \/ UserRemoves \/ UNCHANGED vars
      BY <3>2, SetupFacts, UserFacts DEF vars
    <3>3. ASSUME NEW t \in Tools, StartUpgrade(t) \/ Prepares(t) PROVE missed' = missed
      BY <3>3, UpgradeFacts, PrepareFacts
    <3>4. ASSUME NEW t \in Tools, Works(t) PROVE ~missed
      BY <3>4 DEF Works, RunRoute, LoadReceipts, SaveReceipts, SaveFails, Reroute, UpgradeNative,
                  RemoveReceipt
    <3> QED
      BY <3>1, <3>2, <3>3, <3>4, NextCases
  <2> QED
    BY <2>1 DEF RecordsTrue
<1>a. /\ \A y \in Tools : job[y].pc \in {"reroute", "load", "save"} => job[y].eco \in Ecos
      /\ command = "none" => \A y \in Tools : job[y].pc \notin {"reroute", "load", "save"}
      /\ Ecos \subseteq Places
  BY DEF JobsInStep, Finished, Places
<1>b. \A pc \in Finished \cup Pending : pc \notin {"reroute", "load", "save"}
  BY DEF Finished, Pending
<1>1. CASE StartSetup
  <2>1. command = "none" /\ UNCHANGED <<copies, receipts>>
    BY <1>1, SetupFacts DEF world
  <2>2. job'[x].pc \in {"ask", "idle"}
    BY <1>1, SetupFacts
  <2> QED
    BY <1>0, <1>a, <2>1, <2>2, Undisturbed
<1>2. CASE End
  <2>1. job[x].pc \notin {"load", "save"} /\ job'[x].pc \in Finished /\ UNCHANGED <<copies, receipts>>
    BY <1>2, EndFacts DEF world
  <2> QED
    BY <1>0, <1>b, <2>1, Undisturbed
<1>3. CASE UserInstalls \/ UserRemoves
  <2>1. /\ UNCHANGED <<receipts, job>>
        /\ \A e \in Ecos : copies'[x][e] = copies[x][e] \/ (command = "none" /\ copies'[x][e] = None)
    BY <1>3, UserFacts
  <2>2. CASE \A e \in Ecos : copies'[x][e] = copies[x][e]
    BY <1>0, <1>a, <2>1, <2>2, Undisturbed
  <2>3. CASE command = "none"
    BY <1>0, <1>a, <2>1, <2>3, Undisturbed
  <2> QED
    BY <2>1, <2>2, <2>3
<1>4. CASE UNCHANGED vars
  BY <1>0, <1>4, <1>a, Undisturbed DEF vars, world
<1>5. ASSUME NEW t \in Tools, StartUpgrade(t) PROVE Recorded(x)'
  <2>1. /\ command = "none" /\ UNCHANGED <<copies, receipts>>
        /\ x # t => job'[x].pc = "idle"
        /\ x = t => job'[x].pc \in {"reroute", "native", "flag"}
        /\ x = t /\ job'[x].pc = "reroute" => job'[x].eco \in ValidRoute(x) /\ job'[x].eco \in Ecos
    BY <1>5, UpgradeFacts DEF world
  <2>2. CASE job'[x].pc # "reroute"
    BY <1>0, <1>a, <2>1, <2>2, Undisturbed
  <2>3. CASE job'[x].pc = "reroute"
    <3>1. job'[x].eco \in ValidRoute(x)
      BY <2>1, <2>3
    <3>2. \A eco \in ValidRoute(x) : Unhidden(x, eco) /\ copies[x][eco] # None
      <4>1. job[x].pc \notin {"load", "save"}
        BY <1>a, <2>1
      <4>2. ASSUME NEW eco \in ValidRoute(x) PROVE copies[x][eco] # None
        <5>1. receipts[x] # None /\ eco = receipts[x].route /\ copies[x][receipts[x].at] = receipts[x].sig
          BY <4>2 DEF ValidRoute, IsValid
        <5> QED
          BY <1>0, <5>1 DEF Recorded, TrueReceipt
      <4> QED
        BY <1>0, <4>1, <4>2 DEF Recorded
    <3>3. \A eco \in ValidRoute(x)' : Unhidden(x, eco)'
      BY <2>1, <3>2 DEF ValidRoute, IsValid, Unhidden
    <3>4. Unhidden(x, job[x].eco)'
      <4>1. PICK eco \in ValidRoute(x) : eco = job'[x].eco
        BY <3>1
      <4>2. PICK i \in 1..Len(Path) :
              Path[i] = eco /\ \A j \in 1..(i - 1) : Path[j] \in Ecos \ {eco} /\ copies[x][Path[j]] = None
        BY <3>2 DEF Unhidden
      <4> QED
        BY <2>1, <4>1, <4>2 DEF Unhidden
    <3>5. copies'[x][job'[x].eco] # None
      BY <2>1, <3>1, <3>2
    <3>6. /\ \A e \in Ecos : copies'[x][e] # None => e \in {Routes[x][i] : i \in 1..Len(Routes[x])}
          /\ receipts'[x] # None => TrueReceipt(receipts'[x])
      BY <1>0, <2>1 DEF Recorded
    <3> QED
      BY <2>3, <3>3, <3>4, <3>5, <3>6 DEF Recorded, TrueReceipt
  <2> QED
    BY <2>2, <2>3
<1>6. ASSUME NEW t \in Tools, Prepares(t) PROVE Recorded(x)'
  <2>1. UNCHANGED <<copies, receipts>> /\ OthersWait(t)
    BY <1>6, PrepareFacts
  <2>2. CASE x # t
    BY <1>0, <1>a, <2>1, <2>2, Undisturbed DEF OthersWait
  <2>3. CASE x = t
    <3>1. /\ job[t].pc \in {"ask", "remember", "memo", "bootstrap", "forget"}
          /\ job'[t].pc \in Pending \cup {"unsupported"}
      BY <1>6, PrepareFacts DEF Stays, Moves, Pending
    <3>2. job[t].pc \notin {"load", "save"} /\ job'[t].pc \notin {"reroute", "load", "save"}
      BY <1>b, <3>1 DEF Finished
    <3> QED
      BY <1>0, <2>1, <2>3, <3>2, Undisturbed
  <2> QED
    BY <2>2, <2>3
<1>7. ASSUME NEW t \in Tools, Works(t), x # t PROVE Recorded(x)'
  <2>1. job'[x] = job[x] /\ \A p \in Places : copies'[x][p] = copies[x][p]
    BY <1>7, WorkFacts, KeepsOthers DEF OthersWait
  <2>2. receipts'[x] = receipts[x]
    <3>1. CASE SaveReceipts(t)
      <4>1. receipts' = [receipts EXCEPT ![t] = job[t].receipt]
        BY <3>1 DEF SaveReceipts
      <4> QED
        BY <1>7, <4>1 DEF TypeOK
    <3>2. CASE ~SaveReceipts(t)
      BY <1>7, <3>2 DEF Works, RunRoute, LoadReceipts, SaveFails, Reroute, UpgradeNative, RemoveReceipt,
                        TypeOK
    <3> QED
      BY <3>1, <3>2
  <2> QED
    BY <1>0, <1>a, <2>1, <2>2, Undisturbed
<1>8. CASE Works(x)
  <2>0. job[x] \in Job /\ Eco(x) \in Ecos /\ Native \notin Ecos /\ Native \in Places
    BY EcoKnown, PlacesKnown DEF TypeOK, Places
  <2>1. ASSUME job[x].pc \notin {"load", "save"}, job'[x].pc \notin {"reroute", "load", "save"},
               receipts' = receipts, UNCHANGED copies \/ Build(x, Native)
        PROVE  Recorded(x)'
    <3>1. \A e \in Ecos : copies'[x][e] = copies[x][e]
      BY <1>a, <2>0, <2>1, BuildFacts
    <3> QED
      BY <1>0, <2>1, <3>1, Undisturbed
  <2>2. ASSUME NEW pc \in {"failed", "remove", "upgraded"}, Goto(x, pc)
        PROVE  job'[x].pc \notin {"reroute", "load", "save"}
    <3>1. pc \in Pending \cup Finished \cup {"load", "remove"}
      BY DEF Finished
    <3>2. job'[x] = [job[x] EXCEPT !.pc = pc]
      BY <2>2, <3>1, GotoFacts
    <3> QED
      BY <2>0, <3>2 DEF Job
  <2>3. CASE RunRoute(x)
    <3>1. CASE Build(x, Eco(x)) /\ job' = [job EXCEPT ![x].pc = "load", ![x].eco = Eco(x)]
      <4>0. PICK e \in Ecos : e = Eco(x)
        BY <2>0
      <4>1. /\ job'[x].pc = "load" /\ job'[x].eco = e /\ receipts' = receipts
            /\ job[x].pc = "run"
        BY <2>0, <2>3, <3>1, <4>0 DEF RunRoute, TypeOK, Job
      <4>2. \A d \in Ecos : d # e => copies'[x][d] = copies[x][d]
        BY <1>a, <2>0, <3>1, <4>0, BuildFacts
      <4>3. e \in {Routes[x][i] : i \in 1..Len(Routes[x])}
        BY <4>0, EcoKnown
      <4>4. Build(x, e)
        BY <3>1, <4>0
      <4>5. Unhidden(x, e)'
        BY <1>0, <4>0, <4>1, <4>4, RunIsFound
      <4>6. Unhidden(x, job[x].eco)'
        BY <4>1, <4>5 DEF Unhidden
      <4>7. \A d \in Ecos : copies'[x][d] # None => d \in {Routes[x][i] : i \in 1..Len(Routes[x])}
        BY <1>0, <4>2, <4>3 DEF Recorded
      <4> QED
        BY <1>0, <4>1, <4>6, <4>7 DEF Recorded, TrueReceipt
    <3>2. CASE UNCHANGED <<copies, builds>> /\ Goto(x, "failed")
      BY <2>1, <2>2, <2>3, <3>2 DEF RunRoute
    <3> QED
      BY <2>3, <3>1, <3>2 DEF RunRoute
  <2>4. CASE LoadReceipts(x)
    <3> DEFINE e == job[x].eco
               r == ReceiptFor(x, e)
    <3>1. job[x].pc = "load" /\ e \in Ecos /\ copies[x][e] # None /\ Unhidden(x, e)
      BY <1>0, <2>4 DEF LoadReceipts, JobsInStep, Recorded
    <3>2. r.route = e /\ TrueReceipt(r)
      BY <3>1, UnhiddenIsFound, ReceiptTyped
    <3>3. job' = [job EXCEPT ![x].pc = "save", ![x].store = receipts, ![x].receipt = r]
      BY <2>4 DEF LoadReceipts
    <3>4. UNCHANGED <<copies, receipts>>
      BY <2>4 DEF LoadReceipts, world
    <3> HIDE DEF r
    <3>5. job'[x].pc = "save" /\ job'[x].eco = e /\ job'[x].receipt = r
      BY <2>0, <3>3 DEF TypeOK, Job
    <3>6. Unhidden(x, job[x].eco)'
      BY <3>1, <3>4, <3>5 DEF Unhidden
    <3>7. /\ \A d \in Ecos : copies'[x][d] # None => d \in {Routes[x][i] : i \in 1..Len(Routes[x])}
          /\ receipts'[x] # None => TrueReceipt(receipts'[x])
      BY <1>0, <3>4 DEF Recorded
    <3>8. job'[x].receipt.route = job'[x].eco /\ TrueReceipt(job'[x].receipt)
      BY <3>2, <3>5
    <3> QED
      BY <3>5, <3>6, <3>7, <3>8 DEF Recorded, TrueReceipt
  <2>5. CASE SaveReceipts(x)
    <3> DEFINE e == job[x].eco
               r == job[x].receipt
    <3>1. job[x].pc = "save" /\ Unhidden(x, e) /\ r.route = e /\ TrueReceipt(r)
      BY <1>0, <2>5 DEF SaveReceipts, Recorded
    <3>2. /\ UNCHANGED copies /\ job'[x].pc = "installed"
          /\ receipts' = [receipts EXCEPT ![x] = r]
      BY <2>5, NoJobFacts DEF SaveReceipts, world, TypeOK, NoJob
    <3>3. receipts'[x] = r
      BY <3>2 DEF TypeOK
    <3>4. \A eco \in ValidRoute(x)' : Unhidden(x, eco)'
      BY <3>1, <3>2, <3>3 DEF ValidRoute, Unhidden
    <3>5. \A d \in Ecos : copies'[x][d] # None => d \in {Routes[x][i] : i \in 1..Len(Routes[x])}
      BY <1>0, <3>2 DEF Recorded
    <3> QED
      BY <3>1, <3>2, <3>3, <3>4, <3>5 DEF Recorded, TrueReceipt
  <2>6. ~SaveFails(x)
    BY DEF SaveFails
  <2>7. CASE Reroute(x)
    <3>1. CASE Build(x, job[x].eco) /\ Goto(x, "load")
      <4> DEFINE e == job[x].eco
      <4>1. /\ job[x].pc = "reroute" /\ receipts' = receipts /\ e \in Ecos
            /\ copies[x][e] # None /\ Unhidden(x, e)
        BY <1>0, <1>a, <2>7 DEF Reroute, Recorded
      <4>2. job'[x].pc = "load" /\ job'[x].eco = e
        <5>1. job'[x] = [job[x] EXCEPT !.pc = "load"]
          BY <3>1, GotoFacts
        <5> QED
          BY <2>0, <5>1 DEF Job
      <4>3. \A d \in Ecos : d # e => copies'[x][d] = copies[x][d]
        BY <1>a, <3>1, <4>1, BuildFacts
      <4>4. \A d \in Ecos : copies'[x][d] # None => d \in {Routes[x][i] : i \in 1..Len(Routes[x])}
        BY <1>0, <4>1, <4>3 DEF Recorded
      <4> HIDE DEF e
      <4>5. PICK i \in 1..Len(Path) :
              Path[i] = e /\ \A j \in 1..(i - 1) : Path[j] \in Ecos \ {e} /\ copies[x][Path[j]] = None
        BY <4>1 DEF Unhidden
      <4>6. Unhidden(x, job[x].eco)'
        BY <4>2, <4>3, <4>5 DEF Unhidden
      <4> QED
        BY <1>0, <4>1, <4>2, <4>4, <4>6 DEF Recorded, TrueReceipt
    <3>2. CASE UNCHANGED <<copies, builds>> /\ Goto(x, "failed")
      BY <2>1, <2>2, <2>7, <3>2 DEF Reroute
    <3> QED
      BY <2>7, <3>1, <3>2 DEF Reroute
  <2>8. CASE UpgradeNative(x)
    <3>1. job[x].pc \in {"native", "flag"} /\ receipts' = receipts
      BY <2>8 DEF UpgradeNative
    <3>2. PICK pc \in {"failed", "remove", "upgraded"} : Goto(x, pc)
      BY <2>8 DEF UpgradeNative
    <3>3. UNCHANGED copies \/ Build(x, Native)
      BY <2>8 DEF UpgradeNative
    <3> QED
      BY <2>1, <2>2, <3>1, <3>2, <3>3
  <2>9. CASE RemoveReceipt(x)
    <3>1. /\ job[x].pc = "remove" /\ Goto(x, "upgraded") /\ UNCHANGED copies
          /\ receipts' \in {receipts, [receipts EXCEPT ![x] = None]}
      BY <2>9 DEF RemoveReceipt, world
    <3>2. CASE receipts' = receipts
      BY <2>1, <2>2, <3>1, <3>2
    <3>3. CASE receipts' = [receipts EXCEPT ![x] = None]
      <4>1. receipts'[x] = None
        BY <3>3 DEF TypeOK
      <4>2. ValidRoute(x)' = {}
        BY <4>1 DEF ValidRoute
      <4>3. job'[x].pc \notin {"reroute", "load", "save"}
        BY <2>2, <3>1
      <4> QED
        BY <1>0, <3>1, <4>1, <4>2, <4>3 DEF Recorded, TrueReceipt
    <3> QED
      BY <3>1, <3>2, <3>3
  <2> QED
    BY <1>8, <2>3, <2>4, <2>5, <2>6, <2>7, <2>8, <2>9 DEF Works
<1> QED
  BY <1>1, <1>2, <1>3, <1>4, <1>5, <1>6, <1>7, <1>8, NextCases

------------------------------------------------------------------------------
(* The theorems.                                                             *)

IInv ==
    /\ TypeOK
    /\ JobsInStep
    /\ RoutesInOrder
    /\ UnsupportedIsExplained
    /\ OldToolchainsKnown

LEMMA InitHolds == Init => IInv /\ RecordsTrue
<1> SUFFICES ASSUME Init PROVE IInv /\ RecordsTrue
  OBVIOUS
<1>1. \A t \in Tools : job[t].pc = "idle" /\ receipts[t] = None
  BY NoJobFacts DEF Init, NoReceipts
<1>2. \A t \in Tools, e \in Ecos : copies[t][e] = None
  BY PlacesKnown DEF Init, Places
<1>3. RoutesInOrder /\ UnsupportedIsExplained
  BY <1>1 DEF RoutesInOrder, UnsupportedIsExplained, At, Pending
<1>4. OldToolchainsKnown
  BY <1>2 DEF OldToolchainsKnown
<1>5. RecordsTrue
  BY <1>1, <1>2 DEF RecordsTrue, Recorded, ValidRoute
<1> QED
  BY <1>3, <1>4, <1>5, TypeInit DEF IInv

LEMMA StepKeeps == IInv /\ [Next]_vars => IInv'
BY TypeStep, JobsStep, RoutesStep, OldToolchainsStep DEF IInv

(* IInv is an inductive invariant of setups, upgrades and users (fallback.rs,  *)
(* receipts.rs, upgrade.rs).                                                 *)
THEOREM Invariance == Spec => []IInv
<1>1. Init => IInv
  BY InitHolds
<1> QED
  BY <1>1, StepKeeps, PTL DEF Spec

(* The machine, the receipts and the threads have their types (fallback.rs,    *)
(* receipts.rs).                                                             *)
THEOREM TypeCorrect == Spec => []TypeOK
<1>1. IInv => TypeOK
  BY DEF IInv
<1> QED
  BY <1>1, Invariance, PTL

(* A tool is unsupported only when all its toolchains have failed in this very *)
(* process, whatever the other threads do (fallback.rs, ensure_toolchain).    *)
THEOREM RefusedOnlyByFailures == Spec => []UnsupportedIsExplained
<1>1. IInv => UnsupportedIsExplained
  BY DEF IInv
<1> QED
  BY <1>1, Invariance, PTL

(* What `record` writes is about the route's own binary, or one that hides it.  *)
LEMMA ReceiptPlaced ==
  ASSUME TypeOK, NEW t \in Tools, NEW e \in Ecos, copies[t][e] # None
  PROVE  Placed(ReceiptFor(t, e))
<1> DEFINE found == {i \in 1..Len(Path) : copies[t][Path[i]] # None}
           k == CHOOSE i \in found : \A j \in found : i <= j
           r == ReceiptFor(t, e)
<1>1. Len(Path) \in Nat /\ found \subseteq Nat
  BY PlacesKnown
<1>2. Which(t) = IF found = {} THEN None ELSE Path[k]
  BY DEF Which
<1>3. r.route = e /\ r.at = Which(t)
  BY DEF ReceiptFor
<1>4. ASSUME found # {}, Path[k] # e PROVE Placed(r)
  <2>1. k \in found /\ \A j \in found : k <= j
    <3> HIDE DEF found
    <3>1. \E i \in found : \A j \in found : i <= j
      BY <1>1, <1>4, LeastNatural
    <3> QED
      BY <3>1
  <2> HIDE DEF k
  <2>2. ASSUME NEW j \in 1..k PROVE Path[j] # e
    <3>1. CASE j = k
      BY <1>4, <3>1
    <3>2. CASE j # k
      <4>1. j \in 1..Len(Path) /\ j \notin found
        BY <1>1, <2>1, <3>2
      <4> QED
        BY <4>1
    <3> QED
      BY <3>1, <3>2
  <2>3. FoundBefore(Path[k], e)
    BY <2>1, <2>2 DEF FoundBefore
  <2> HIDE DEF r, found
  <2> QED
    BY <1>2, <1>3, <1>4, <2>3 DEF Placed
<1>5. ASSUME found = {} \/ Path[k] = e PROVE Placed(r)
  <2> HIDE DEF r, found, k
  <2> QED
    BY <1>2, <1>3, <1>5 DEF Placed
<1>6. Placed(r)
  BY <1>4, <1>5
<1> QED
  BY <1>6

LEMMA PlacedStep == TypeOK /\ JobsInStep /\ ReceiptsPlaced /\ [Next]_vars => ReceiptsPlaced'
<1> SUFFICES ASSUME TypeOK, JobsInStep, ReceiptsPlaced, [Next]_vars PROVE ReceiptsPlaced'
  OBVIOUS
<1> USE DEF At
<1>a. Placed(None)
  BY DEF Placed
<1>b. "save" \notin Pending \cup Finished
  BY DEF Pending, Finished
<1>1. ASSUME UNCHANGED receipts, \A t \in Tools : job'[t] = job[t] \/ job'[t].pc # "save"
      PROVE  ReceiptsPlaced'
  BY <1>1 DEF ReceiptsPlaced, Placed, FoundBefore
<1>2. CASE StartSetup \/ End \/ UserInstalls \/ UserRemoves \/ UNCHANGED vars
  <2>1. CASE StartSetup
    BY <1>1, <2>1, SetupFacts
  <2>2. CASE End
    BY <1>1, <1>b, <2>2, EndFacts
  <2>3. CASE UserInstalls \/ UserRemoves
    BY <1>1, <2>3, UserFacts
  <2>4. CASE UNCHANGED vars
    BY <1>1, <2>4 DEF vars
  <2> QED
    BY <1>2, <2>1, <2>2, <2>3, <2>4
<1>3. ASSUME NEW t \in Tools, StartUpgrade(t) PROVE ReceiptsPlaced'
  BY <1>1, <1>3, UpgradeFacts
<1>4. ASSUME NEW t \in Tools, Prepares(t) PROVE ReceiptsPlaced'
  <2>1. job'[t].pc # "save"
    BY <1>4, <1>b, PrepareFacts DEF Stays, Moves
  <2> QED
    BY <1>1, <1>4, <2>1, PrepareFacts DEF OthersWait
<1>5. ASSUME NEW t \in Tools, Works(t) PROVE ReceiptsPlaced'
  <2>0. \A u \in Tools \ {t} : job'[u] = job[u]
    BY <1>5, WorkFacts DEF OthersWait
  <2>1. CASE LoadReceipts(t)
    <3> DEFINE r == ReceiptFor(t, job[t].eco)
    <3>1. Placed(r)
      BY <2>1, ReceiptPlaced DEF LoadReceipts, JobsInStep
    <3>2. /\ receipts' = receipts
          /\ job' = [job EXCEPT ![t].pc = "save", ![t].store = receipts, ![t].receipt = r]
      BY <2>1 DEF LoadReceipts
    <3> HIDE DEF r
    <3>3. job'[t].store = receipts /\ job'[t].receipt = r
      BY <3>2 DEF TypeOK, Job
    <3>4. \A u \in Tools : Placed(receipts[u])
      BY DEF ReceiptsPlaced
    <3>5. Placed(job'[t].receipt) /\ \A u \in Tools : Placed(job'[t].store[u])
      BY <3>1, <3>3, <3>4
    <3>6. ASSUME NEW u \in Tools
          PROVE  /\ Placed(receipts'[u])
                 /\ job'[u].pc = "save" =>
                      Placed(job'[u].receipt) /\ \A v \in Tools : Placed(job'[u].store[v])
      <4>1. CASE u = t
        BY <3>2, <3>4, <3>5, <4>1
      <4>2. CASE u # t
        BY <2>0, <3>2, <3>4, <4>2 DEF ReceiptsPlaced
      <4> QED
        BY <4>1, <4>2
    <3> QED
      BY <3>6 DEF ReceiptsPlaced, Placed, FoundBefore
  <2>2. CASE SaveReceipts(t)
    <3>1. receipts' = [job[t].store EXCEPT ![t] = job[t].receipt] /\ job[t].pc = "save"
      BY <2>2 DEF SaveReceipts
    <3>2. job[t].store \in [Tools -> Receipt \cup {None}]
      BY DEF TypeOK, Job
    <3>3. \A u \in Tools : Placed(receipts'[u])
      BY <3>1, <3>2 DEF ReceiptsPlaced
    <3>4. job'[t].pc # "save"
      BY <2>2, NoJobFacts DEF SaveReceipts, TypeOK, NoJob
    <3> QED
      BY <2>0, <3>3, <3>4 DEF ReceiptsPlaced, Placed, FoundBefore
  <2>3. CASE RunRoute(t) \/ SaveFails(t) \/ Reroute(t) \/ UpgradeNative(t) \/ RemoveReceipt(t)
    <3>1. job'[t].pc # "save"
      <4> USE DEF TypeOK, Job, Goto
      <4>1. RunRoute(t) => job'[t].pc \in {"load", "failed"}
        BY DEF RunRoute
      <4>2. SaveFails(t) => job'[t].pc = "unrecorded"
        BY NoJobFacts DEF SaveFails, NoJob
      <4>3. Reroute(t) => job'[t].pc \in {"load", "failed"}
        BY DEF Reroute
      <4>4. UpgradeNative(t) => job'[t].pc \in {"remove", "upgraded", "failed"}
        BY DEF UpgradeNative
      <4>5. RemoveReceipt(t) => job'[t].pc = "upgraded"
        BY DEF RemoveReceipt
      <4> QED
        BY <2>3, <4>1, <4>2, <4>3, <4>4, <4>5
    <3>2. receipts' \in {receipts, [receipts EXCEPT ![t] = None]}
      BY <2>3 DEF RunRoute, SaveFails, Reroute, UpgradeNative, RemoveReceipt
    <3>3. \A u \in Tools : Placed(receipts'[u])
      BY <1>a, <3>2 DEF ReceiptsPlaced, TypeOK
    <3> QED
      BY <2>0, <3>1, <3>3 DEF ReceiptsPlaced, Placed, FoundBefore
  <2> QED
    BY <1>5, <2>1, <2>2, <2>3 DEF Works
<1> QED
  BY <1>2, <1>3, <1>4, <1>5, NextCases

(* For every PATH, also one on which the platform's places come first, and     *)
(* whatever receipts are lost or overwritten: a receipt that counts names the  *)
(* route that made its binary, or the binary lies where the shell looks before *)
(* it looks where the route installs (receipts.rs, record and is_valid).       *)
THEOREM WrongRoutesAreHidden == Spec => []FalseOnlyIfHidden
<1>1. Init => ReceiptsPlaced
  <2> SUFFICES ASSUME Init, NEW t \in Tools PROVE receipts[t] = None /\ job[t].pc # "save"
    BY DEF ReceiptsPlaced, Placed, At
  <2> QED
    BY NoJobFacts DEF Init, NoReceipts, NoJob
<1>2. IInv /\ ReceiptsPlaced /\ [Next]_vars => ReceiptsPlaced'
  BY PlacedStep DEF IInv
<1>3. ReceiptsPlaced => FalseOnlyIfHidden
  <2> SUFFICES ASSUME ReceiptsPlaced, NEW t \in Tools, NEW eco \in ValidRoute(t)
               PROVE  receipts[t].at = eco \/ FoundBefore(receipts[t].at, eco)
    BY DEF FalseOnlyIfHidden
  <2>1. receipts[t] # None /\ eco = receipts[t].route /\ receipts[t].at # None
    BY DEF ValidRoute, IsValid
  <2> QED
    BY <2>1 DEF ReceiptsPlaced, Placed
<1> QED
  BY <1>1, <1>2, <1>3, Invariance, PTL DEF Spec

(* The other half, for a PATH that no part of the code establishes: if it has  *)
(* the ecosystems of a tool in the order of its routes, before what the        *)
(* platform's package managers install, and no installation loses its receipt, *)
(* then a receipt that counts names the route that made its binary             *)
(* (receipts.rs, record and is_valid; upgrade.rs, which follows it).           *)
THEOREM ReceiptsAreTrueOnOrderedPath ==
  ASSUME RoutesFirst
  PROVE  Spec => []ValidReceiptIsTrue
<1>1. Init => RecordsTrue
  BY InitHolds
<1>2. IInv /\ RecordsTrue /\ [Next]_vars => RecordsTrue'
  BY RecordsStep DEF IInv
<1>3. RecordsTrue => ValidReceiptIsTrue
  <2> SUFFICES ASSUME RecordsTrue, ~missed, NEW t \in Tools, NEW eco \in ValidRoute(t)
               PROVE  receipts[t].at = eco
    BY DEF ValidReceiptIsTrue
  <2>1. receipts[t] # None /\ eco = receipts[t].route
    BY DEF ValidRoute
  <2> QED
    BY <2>1 DEF RecordsTrue, Recorded, TrueReceipt
<1> QED
  BY <1>1, <1>2, <1>3, Invariance, PTL DEF Spec

==============================================================================
