-------------------------- MODULE UpdateCache_proofs -------------------------
(* Theorems about UpdateCache for every number of runs, targets and limits:   *)
(* what is reported from the cache is recent, the lock is not shared and never *)
(* left behind, and only overlapping saves can spoil the cache.                *)
EXTENDS UpdateCache, TLAPS

IInv ==
    /\ TypeOK
    /\ LockNamesRun
    /\ AgesHonest
    /\ BeforeLock
    /\ YoungLockOnDisk
    /\ SavesInTurn

------------------------------------------------------------------------------
(* Entries and their ages.                                                     *)

LEMMA Limits ==
  /\ Ttl \in Nat \ {0} /\ Stale \in Nat \ {0} /\ ErrorTtl \in Nat \ {0}
  /\ ErrorTtl <= Ttl
  /\ \A ok \in BOOLEAN : Limit(ok) \in 1..Ttl
<1>1. Ttl \in Nat \ {0} /\ Stale \in Nat \ {0} /\ ErrorTtl \in Nat \ {0} /\ ErrorTtl <= Ttl
  BY Hours
<1> QED
  BY <1>1 DEF Limit

LEMMA AnswerIsEntry ==
  ASSUME NEW ok \in BOOLEAN, NEW age \in Nat, NEW asked \in 0..Ttl
  PROVE  /\ Answer(ok, age, asked) \in Entry
         /\ asked <= age => Honest(Answer(ok, age, asked))
BY Limits DEF Answer, Entry, Honest

LEMMA OlderStays ==
  ASSUME NEW limit \in Nat, NEW n \in 0..limit
  PROVE  Older(n, limit) \in 0..limit
BY DEF Older

LEMMA AgedStore ==
  ASSUME NEW s \in Stores
  PROVE  /\ Aged(s) \in Stores
         /\ (\A t \in Targets : Honest(s[t])) => \A t \in Targets : Honest(Aged(s)[t])
<1>1. Aged(s) = [t \in Targets |-> IF s[t] = Absent THEN Absent
                                   ELSE Answer(s[t].ok, s[t].age + 1, Older(s[t].asked, Ttl))]
  BY NoEntry DEF Aged
<1>2. ASSUME NEW t \in Targets, s[t] # Absent
      PROVE  /\ s[t].ok \in BOOLEAN /\ s[t].age + 1 \in Nat /\ Older(s[t].asked, Ttl) \in 0..Ttl
             /\ s[t].asked <= s[t].age => Older(s[t].asked, Ttl) <= s[t].age + 1
  BY <1>2, Limits DEF Stores, Entry, Older
<1>3. ASSUME NEW t \in Targets
      PROVE  /\ Aged(s)[t] \in Entry \cup {Absent}
             /\ Honest(s[t]) => Honest(Aged(s)[t])
  <2>1. CASE s[t] = Absent
    BY <1>1, <2>1 DEF Honest
  <2>2. CASE s[t] # Absent
    BY <1>1, <1>2, <2>2, AnswerIsEntry DEF Honest
  <2> QED
    BY <2>1, <2>2
<1> QED
  BY <1>1, <1>3 DEF Stores

LEMMA AgedFile ==
  ASSUME NEW file \in {Absent, Torn} \cup Stores
  PROVE  /\ Aged(file) \in {Absent, Torn} \cup Stores
         /\ file = Absent <=> Aged(file) = Absent
         /\ file = Torn <=> Aged(file) = Torn
<1>1. CASE file \in {Absent, Torn}
  BY <1>1 DEF Aged
<1>2. CASE file \in Stores
  BY <1>2, AgedStore, NoEntry
<1> QED
  BY <1>1, <1>2

LEMMA EmptyStore == Empty \in Stores /\ \A t \in Targets : Honest(Empty[t])
BY DEF Empty, Stores, Honest

LEMMA QuietRun ==
  /\ Quiet \in Runs
  /\ Quiet.pc = "idle" /\ ~Quiet.guarded /\ Quiet.held = 0 /\ Quiet.hits = {}
  /\ ~Quiet.outrun /\ Quiet.file = "none" /\ Quiet.store = Empty
BY EmptyStore, Limits DEF Quiet, Runs

------------------------------------------------------------------------------
(* What each action does to the runs.                                          *)

Others(p) == \A q \in Procs \ {p} : proc'[q] = proc[q]

LEMMA LoadEffect ==
  ASSUME TypeOK, NEW p \in Procs, NEW forced \in BOOLEAN, Load(p, forced)
  PROVE  /\ TypeOK' /\ Others(p)
         /\ proc'[p].pc \in {"acquire", "check"}
         /\ ~proc'[p].guarded /\ proc'[p].held = 0 /\ proc'[p].hits = {} /\ ~proc'[p].outrun
         /\ proc'[p].store = Empty \/ (cache \in Stores /\ proc'[p].store = cache)
<1> DEFINE store == IF cache \in {Absent, Torn} THEN Empty ELSE cache
           r == [Quiet EXCEPT !.pc = IF forced THEN "acquire" ELSE "check", !.forced = forced,
                              !.store = store]
<1>1. store \in Stores /\ (store = Empty \/ (cache \in Stores /\ store = cache))
  BY EmptyStore DEF TypeOK
<1>2. proc' = [proc EXCEPT ![p] = r]
  BY DEF Load
<1> HIDE DEF store
<1>3. /\ r \in Runs /\ r.pc \in {"acquire", "check"} /\ r.store = store
      /\ ~r.guarded /\ r.held = 0 /\ r.hits = {} /\ ~r.outrun
  BY <1>1, QuietRun DEF Runs
<1> HIDE DEF r
<1>4. proc' \in [Procs -> Runs] /\ proc'[p] = r /\ Others(p)
  BY <1>2, <1>3 DEF TypeOK, Others
<1>5. TypeOK'
  BY <1>4 DEF TypeOK, Load
<1> QED
  BY <1>1, <1>3, <1>4, <1>5

LEMMA ReadLockEffect ==
  ASSUME TypeOK, NEW p \in Procs, ReadLock(p)
  PROVE  /\ TypeOK' /\ Others(p) /\ proc[p].pc = "acquire"
         /\ \/ proc'[p] = Quiet
            \/ /\ lock.owner = Nobody \/ lock.age = Stale
               /\ proc'[p].pc = "write" /\ proc'[p].guarded = proc[p].guarded
               /\ proc'[p].held = proc[p].held /\ proc'[p].hits = proc[p].hits
               /\ proc'[p].store = proc[p].store
<1>1. CASE lock.owner # Nobody /\ lock.age < Stale
  <2>1. proc' = [proc EXCEPT ![p] = Quiet]
    BY <1>1 DEF ReadLock
  <2>2. proc' \in [Procs -> Runs] /\ proc'[p] = Quiet /\ Others(p)
    BY <2>1, QuietRun DEF TypeOK, Others
  <2> QED
    BY <2>2 DEF ReadLock, TypeOK, At
<1>2. CASE ~(lock.owner # Nobody /\ lock.age < Stale)
  <2>1. proc' = [proc EXCEPT ![p].pc = "write"]
    BY <1>2 DEF ReadLock
  <2>2. proc' \in [Procs -> Runs] /\ Others(p)
    BY <2>1 DEF TypeOK, Others, Runs
  <2>3. /\ proc'[p].pc = "write" /\ proc'[p].guarded = proc[p].guarded
        /\ proc'[p].held = proc[p].held /\ proc'[p].hits = proc[p].hits
        /\ proc'[p].store = proc[p].store
    BY <2>1 DEF TypeOK, Runs
  <2>4. lock.owner = Nobody \/ lock.age = Stale
    BY <1>2, Limits DEF TypeOK
  <2> QED
    BY <2>2, <2>3, <2>4 DEF ReadLock, TypeOK, At
<1> QED
  BY <1>1, <1>2

LEMMA OutrunEffect ==
  ASSUME TypeOK, NEW p \in Procs
  PROVE  /\ Outrun(p) \in [Procs -> Runs] /\ Outrun(p)[p] = proc[p]
         /\ \A q \in Procs : Outrun(p)[q] = IF q # p /\ proc[q].pc \in {"write", "remove"}
                                           THEN [proc[q] EXCEPT !.outrun = TRUE] ELSE proc[q]
<1>1. ASSUME NEW q \in Procs PROVE [proc[q] EXCEPT !.outrun = TRUE] \in Runs
  <2>1. proc[q] \in Runs
    BY DEF TypeOK
  <2> HIDE DEF TypeOK
  <2> QED
    BY <2>1 DEF Runs
<1> QED
  BY <1>1 DEF Outrun, TypeOK

(* The others see no more of a change of the lock than that there was one.     *)
OthersOutrun(p) ==
    \A q \in Procs \ {p} :
        /\ proc'[q].pc = proc[q].pc /\ proc'[q].guarded = proc[q].guarded
        /\ proc'[q].held = proc[q].held /\ proc'[q].hits = proc[q].hits
        /\ proc'[q].store = proc[q].store /\ proc'[q].file = proc[q].file
        /\ proc[q].pc \in {"write", "remove"} => proc'[q].outrun

LEMMA OutrunOthers ==
  ASSUME TypeOK, NEW p \in Procs, \A q \in Procs \ {p} : proc'[q] = Outrun(p)[q]
  PROVE  OthersOutrun(p)
<1> SUFFICES ASSUME NEW q \in Procs \ {p}
             PROVE /\ proc'[q].pc = proc[q].pc /\ proc'[q].guarded = proc[q].guarded
                   /\ proc'[q].held = proc[q].held /\ proc'[q].hits = proc[q].hits
                   /\ proc'[q].store = proc[q].store /\ proc'[q].file = proc[q].file
                   /\ proc[q].pc \in {"write", "remove"} => proc'[q].outrun
  BY DEF OthersOutrun
<1>1. proc[q] \in Runs
  BY DEF TypeOK
<1>2. CASE proc[q].pc \in {"write", "remove"}
  <2>1. proc'[q] = [proc[q] EXCEPT !.outrun = TRUE]
    BY <1>2, OutrunEffect
  <2> QED
    BY <1>1, <2>1 DEF Runs
<1>3. CASE proc[q].pc \notin {"write", "remove"}
  BY <1>3, OutrunEffect
<1> QED
  BY <1>2, <1>3

LEMMA WriteLockEffect ==
  ASSUME TypeOK, NEW p \in Procs, WriteLock(p)
  PROVE  /\ TypeOK' /\ OthersOutrun(p) /\ proc[p].pc = "write"
         /\ proc'[p].pc = "check" /\ proc'[p].guarded /\ proc'[p].held = proc[p].held
         /\ proc'[p].hits = proc[p].hits /\ proc'[p].store = proc[p].store
<1> DEFINE r == [proc[p] EXCEPT !.pc = "check", !.guarded = TRUE, !.outrun = FALSE]
<1>1. proc' = [Outrun(p) EXCEPT ![p] = r]
  BY OutrunEffect DEF WriteLock
<1>2. /\ r \in Runs /\ r.pc = "check" /\ r.guarded /\ r.held = proc[p].held
      /\ r.hits = proc[p].hits /\ r.store = proc[p].store
  BY DEF TypeOK, Runs
<1> HIDE DEF r
<1>3. proc' \in [Procs -> Runs] /\ proc'[p] = r /\ \A q \in Procs \ {p} : proc'[q] = Outrun(p)[q]
  BY <1>1, <1>2, OutrunEffect
<1>4. OthersOutrun(p)
  BY <1>3, OutrunOthers
<1>5. lock' \in [owner : Procs \cup {Nobody, Dead}, age : 0..Stale] /\ raced' \in BOOLEAN
  BY Limits DEF WriteLock, TypeOK
<1>6. TypeOK'
  BY <1>3, <1>5 DEF TypeOK, WriteLock
<1> QED
  BY <1>2, <1>3, <1>4, <1>6 DEF WriteLock, At

LEMMA UnguardedEffect ==
  ASSUME TypeOK, NEW p \in Procs, Unguarded(p)
  PROVE  /\ TypeOK' /\ Others(p) /\ proc[p].pc \in {"acquire", "write"}
         /\ proc'[p].pc = "check" /\ proc'[p].guarded = proc[p].guarded
         /\ proc'[p].held = proc[p].held /\ proc'[p].hits = proc[p].hits
         /\ proc'[p].store = proc[p].store
<1> DEFINE r == [proc[p] EXCEPT !.pc = "check", !.outrun = FALSE]
<1>1. proc' = [proc EXCEPT ![p] = r]
  BY DEF Unguarded, TypeOK
<1>2. /\ r \in Runs /\ r.pc = "check" /\ r.guarded = proc[p].guarded /\ r.held = proc[p].held
      /\ r.hits = proc[p].hits /\ r.store = proc[p].store
  BY DEF TypeOK, Runs
<1> HIDE DEF r
<1>3. proc' \in [Procs -> Runs] /\ proc'[p] = r /\ Others(p)
  BY <1>1, <1>2 DEF TypeOK, Others
<1> QED
  BY <1>2, <1>3 DEF TypeOK, Unguarded, At

LEMMA SplitEffect ==
  ASSUME TypeOK, NEW p \in Procs, Split(p)
  PROVE  /\ TypeOK' /\ Others(p) /\ proc[p].pc = "check"
         /\ proc'[p].pc = "probe" /\ proc'[p].guarded = proc[p].guarded
         /\ proc'[p].held = proc[p].held /\ proc'[p].store = proc[p].store
         /\ \A t \in proc'[p].hits : proc[p].store[t] # Absent /\ IsFresh(proc[p].store[t])
<1>1. PICK asked \in SUBSET Targets :
        LET store == proc[p].store
            hits == {t \in asked : ~proc[p].forced /\ store[t] # Absent /\ IsFresh(store[t])}
        IN proc' = [proc EXCEPT ![p].pc = "probe", ![p].forced = FALSE,
                                ![p].hits = hits, ![p].todo = asked \ hits]
  BY DEF Split
<1> DEFINE hits == {t \in asked : ~proc[p].forced /\ proc[p].store[t] # Absent
                                   /\ IsFresh(proc[p].store[t])}
           r == [proc[p] EXCEPT !.pc = "probe", !.forced = FALSE,
                                !.hits = hits, !.todo = asked \ hits]
<1>2. proc' = [proc EXCEPT ![p] = r]
  BY <1>1 DEF TypeOK
<1>3. hits \in SUBSET Targets /\ asked \ hits \in SUBSET Targets
      /\ \A t \in hits : proc[p].store[t] # Absent /\ IsFresh(proc[p].store[t])
  OBVIOUS
<1> HIDE DEF hits
<1>4. /\ r \in Runs /\ r.pc = "probe" /\ r.guarded = proc[p].guarded /\ r.held = proc[p].held
      /\ r.store = proc[p].store /\ r.hits = hits
  BY <1>3 DEF TypeOK, Runs
<1> HIDE DEF r
<1>5. proc' \in [Procs -> Runs] /\ proc'[p] = r /\ Others(p)
  BY <1>2, <1>4 DEF TypeOK, Others
<1> QED
  BY <1>3, <1>4, <1>5 DEF TypeOK, Split, At

LEMMA ProbeEffect ==
  ASSUME TypeOK, NEW p \in Procs, NEW t \in Targets, Probe(p, t)
  PROVE  /\ TypeOK' /\ Others(p) /\ proc[p].pc = "probe" /\ proc'[p].pc = "probe"
         /\ proc'[p].guarded = proc[p].guarded /\ proc'[p].held = proc[p].held
         /\ (\A u \in Targets : Honest(proc[p].store[u]))
              => \A u \in Targets : Honest(proc'[p].store[u])
<1>1. PICK ok \in BOOLEAN :
        proc' = [proc EXCEPT ![p].todo = @ \ {t},
                   ![p].store[t] = Answer(ok, proc[p].since, 0)]
  BY DEF Probe
<1> DEFINE e == Answer(ok, proc[p].since, 0)
           r == [proc[p] EXCEPT !.todo = @ \ {t}, !.store[t] = e]
<1>2. proc' = [proc EXCEPT ![p] = r]
  BY <1>1 DEF TypeOK
<1>3. proc[p] \in Runs /\ proc[p].since \in 0..Ttl
  BY DEF TypeOK, Runs
<1>4. e \in Entry /\ Honest(e)
  BY <1>3, Limits, AnswerIsEntry
<1> HIDE DEF e
<1>5. proc[p].store \in Stores /\ [proc[p].store EXCEPT ![t] = e] \in Stores
  BY <1>3, <1>4 DEF Runs, Stores
<1>6. r = [proc[p] EXCEPT !.todo = @ \ {t}, !.store = [proc[p].store EXCEPT ![t] = e]]
  BY <1>3 DEF Runs
<1>7. /\ r \in Runs /\ r.pc = proc[p].pc /\ r.guarded = proc[p].guarded /\ r.held = proc[p].held
      /\ r.store = [proc[p].store EXCEPT ![t] = e]
  BY <1>3, <1>5, <1>6 DEF Runs
<1> HIDE DEF r
<1>8. proc' \in [Procs -> Runs] /\ proc'[p] = r /\ Others(p)
  BY <1>2, <1>7 DEF TypeOK, Others
<1>9. \A u \in Targets : r.store[u] = IF u = t THEN e ELSE proc[p].store[u]
  BY <1>5, <1>7 DEF Stores
<1> QED
  BY <1>4, <1>7, <1>8, <1>9 DEF TypeOK, Probe, At

LEMMA OpenTmpEffect ==
  ASSUME TypeOK, NEW p \in Procs, OpenTmp(p)
  PROVE  /\ TypeOK' /\ Others(p) /\ proc[p].pc = "probe" /\ proc'[p].pc = "fill"
         /\ proc'[p].guarded = proc[p].guarded /\ proc'[p].held = proc[p].held
         /\ proc'[p].store = proc[p].store /\ proc'[p].file = "tmp"
<1> DEFINE r == [proc[p] EXCEPT !.pc = "fill", !.since = 0, !.file = "tmp"]
<1>1. proc' = [proc EXCEPT ![p] = r]
  BY DEF OpenTmp, TypeOK
<1>2. /\ r \in Runs /\ r.pc = "fill" /\ r.guarded = proc[p].guarded /\ r.held = proc[p].held
      /\ r.store = proc[p].store /\ r.file = "tmp"
  <2>1. proc[p] \in Runs /\ 0 \in 0..Ttl
    BY Limits DEF TypeOK
  <2> QED
    BY <2>1 DEF Runs
<1> HIDE DEF r
<1>3. proc' \in [Procs -> Runs] /\ proc'[p] = r /\ Others(p)
  BY <1>1, <1>2 DEF TypeOK, Others
<1>4. overlapped' \in BOOLEAN
  BY DEF OpenTmp
<1> QED
  BY <1>2, <1>3, <1>4 DEF TypeOK, OpenTmp, At

LEMMA FillTmpEffect ==
  ASSUME TypeOK, NEW p \in Procs, FillTmp(p)
  PROVE  /\ TypeOK' /\ Others(p) /\ proc[p].pc = "fill" /\ proc'[p].pc = "rename"
         /\ proc'[p].guarded = proc[p].guarded /\ proc'[p].held = proc[p].held
         /\ proc'[p].store = Empty
         /\ tmp' \in {tmp, proc[p].store, Torn} /\ cache' \in {cache, proc[p].store, Torn}
         /\ proc[p].file = "tmp" /\ tmp = Torn => tmp' = proc[p].store /\ cache' = cache
<1> DEFINE r == [proc[p] EXCEPT !.pc = "rename", !.store = Empty, !.file = "none"]
<1>1. proc' = [proc EXCEPT ![p] = r]
  BY DEF FillTmp, TypeOK
<1>2. /\ r \in Runs /\ r.pc = "rename" /\ r.guarded = proc[p].guarded /\ r.held = proc[p].held
      /\ r.store = Empty
  BY EmptyStore DEF TypeOK, Runs
<1> HIDE DEF r
<1>3. proc' \in [Procs -> Runs] /\ proc'[p] = r /\ Others(p)
  BY <1>1, <1>2 DEF TypeOK, Others
<1>4. tmp' \in {tmp, proc[p].store, Torn} /\ cache' \in {cache, proc[p].store, Torn}
  BY DEF FillTmp
<1>5. proc[p].file = "tmp" /\ tmp = Torn => tmp' = proc[p].store /\ cache' = cache
  BY DEF FillTmp
<1>6. proc[p].store \in Stores
  BY DEF TypeOK, Runs
<1> QED
  BY <1>2, <1>3, <1>4, <1>5, <1>6 DEF TypeOK, FillTmp, At

LEMMA SavedRun ==
  ASSUME TypeOK, NEW p \in Procs
  PROVE  /\ Saved(p) \in Runs /\ Saved(p).pc = "drop"
         /\ Saved(p).guarded = proc[p].guarded /\ Saved(p).held = proc[p].held
         /\ Saved(p).store = Empty
BY QuietRun DEF Saved, TypeOK, Runs

(* The others see no more of a rename than where their open file is.           *)
OthersMoved(p) ==
    \A q \in Procs \ {p} :
        /\ proc'[q].pc = proc[q].pc /\ proc'[q].guarded = proc[q].guarded
        /\ proc'[q].held = proc[q].held /\ proc'[q].hits = proc[q].hits
        /\ proc'[q].store = proc[q].store /\ proc'[q].outrun = proc[q].outrun

LEMMA RenameEffect ==
  ASSUME TypeOK, NEW p \in Procs, Rename(p)
  PROVE  /\ TypeOK' /\ OthersMoved(p) /\ proc[p].pc = "rename" /\ proc'[p] = Saved(p)
         /\ \/ UNCHANGED <<cache, tmp>>
            \/ tmp # Absent /\ cache' = tmp /\ tmp' = Absent
<1>1. CASE tmp = Absent
  <2>1. proc' = [proc EXCEPT ![p] = Saved(p)] /\ UNCHANGED <<cache, tmp>>
    BY <1>1 DEF Rename
  <2>2. proc' \in [Procs -> Runs] /\ proc'[p] = Saved(p) /\ OthersMoved(p)
    BY <2>1, SavedRun DEF TypeOK, OthersMoved
  <2> QED
    BY <2>1, <2>2 DEF TypeOK, Rename, At
<1>2. CASE tmp # Absent
  <2>1. /\ cache' = tmp /\ tmp' = Absent
        /\ proc' = [q \in Procs |-> IF q = p THEN Saved(p)
                                    ELSE [proc[q] EXCEPT !.file = AfterRename(@)]]
    BY <1>2 DEF Rename
  <2>2. proc'[p] = Saved(p) /\ Saved(p) \in Runs
    BY <2>1, SavedRun
  <2>3. ASSUME NEW q \in Procs \ {p}
        PROVE  /\ proc'[q] \in Runs
               /\ proc'[q].pc = proc[q].pc /\ proc'[q].guarded = proc[q].guarded
               /\ proc'[q].held = proc[q].held /\ proc'[q].hits = proc[q].hits
               /\ proc'[q].store = proc[q].store /\ proc'[q].outrun = proc[q].outrun
    <3>1. proc[q] \in Runs
      BY DEF TypeOK
    <3>2. AfterRename(proc[q].file) \in {"none", "tmp", "cache", "gone"}
      BY <3>1 DEF AfterRename, Runs
    <3>3. proc'[q] = [proc[q] EXCEPT !.file = AfterRename(proc[q].file)]
      BY <2>1
    <3> QED
      BY <3>1, <3>2, <3>3 DEF Runs
  <2>4. proc' \in [Procs -> Runs]
    BY <2>1, <2>2, <2>3
  <2> QED
    BY <2>1, <2>2, <2>3, <2>4 DEF TypeOK, Rename, At, OthersMoved
<1> QED
  BY <1>1, <1>2

LEMMA SaveFailsEffect ==
  ASSUME TypeOK, NEW p \in Procs, SaveFails(p)
  PROVE  /\ TypeOK' /\ Others(p) /\ proc[p].pc \in {"probe", "fill", "rename"}
         /\ proc'[p] = Saved(p)
<1>1. proc' \in [Procs -> Runs] /\ proc'[p] = Saved(p) /\ Others(p)
  BY SavedRun DEF SaveFails, TypeOK, Others
<1> QED
  BY <1>1 DEF TypeOK, SaveFails, At, Saving

LEMMA DropEffect ==
  ASSUME TypeOK, NEW p \in Procs, Drop(p)
  PROVE  /\ TypeOK' /\ Others(p) /\ proc[p].pc = "drop"
         /\ \/ /\ ~(proc[p].guarded /\ lock.owner = p) /\ proc'[p] = Quiet
            \/ /\ lock.owner = p /\ proc'[p].pc = "remove"
               /\ proc'[p].guarded = proc[p].guarded /\ proc'[p].held = proc[p].held
               /\ proc'[p].store = proc[p].store
<1>1. CASE proc[p].guarded /\ lock.owner = p
  <2>1. proc' = [proc EXCEPT ![p].pc = "remove"]
    BY <1>1 DEF Drop
  <2>2. proc' \in [Procs -> Runs] /\ Others(p)
    BY <2>1 DEF TypeOK, Others, Runs
  <2>3. /\ proc'[p].pc = "remove" /\ proc'[p].guarded = proc[p].guarded
        /\ proc'[p].held = proc[p].held /\ proc'[p].store = proc[p].store
    BY <2>1 DEF TypeOK, Runs
  <2> QED
    BY <1>1, <2>2, <2>3 DEF TypeOK, Drop, At
<1>2. CASE ~(proc[p].guarded /\ lock.owner = p)
  <2>1. proc' = [proc EXCEPT ![p] = Quiet]
    BY <1>2 DEF Drop
  <2>2. proc' \in [Procs -> Runs] /\ proc'[p] = Quiet /\ Others(p)
    BY <2>1, QuietRun DEF TypeOK, Others
  <2> QED
    BY <1>2, <2>2 DEF TypeOK, Drop, At
<1> QED
  BY <1>1, <1>2

LEMMA RemoveEffect ==
  ASSUME TypeOK, NEW p \in Procs, Remove(p)
  PROVE  /\ TypeOK' /\ OthersOutrun(p) /\ proc[p].pc = "remove" /\ proc'[p] = Quiet
<1>1. proc' = [Outrun(p) EXCEPT ![p] = Quiet]
  BY DEF Remove
<1>2. proc' \in [Procs -> Runs] /\ proc'[p] = Quiet /\ \A q \in Procs \ {p} : proc'[q] = Outrun(p)[q]
  BY <1>1, QuietRun, OutrunEffect
<1>3. OthersOutrun(p)
  BY <1>2, OutrunOthers
<1>4. lock' \in [owner : Procs \cup {Nobody, Dead}, age : 0..Stale] /\ raced' \in BOOLEAN
  BY Limits DEF Remove, TypeOK
<1> QED
  BY <1>2, <1>3, <1>4 DEF TypeOK, Remove, At

LEMMA KillEffect ==
  ASSUME TypeOK, NEW p \in Procs, Kill(p)
  PROVE  /\ TypeOK' /\ Others(p) /\ proc'[p] = Quiet
         /\ lock'.age = lock.age /\ lock'.owner = IF lock.owner = p THEN Dead ELSE lock.owner
<1>1. proc' \in [Procs -> Runs] /\ proc'[p] = Quiet /\ Others(p)
  BY QuietRun DEF Kill, TypeOK, Others
<1>2. /\ lock' \in [owner : Procs \cup {Nobody, Dead}, age : 0..Stale]
      /\ lock'.age = lock.age /\ lock'.owner = IF lock.owner = p THEN Dead ELSE lock.owner
  BY DEF Kill, TypeOK
<1> QED
  BY <1>1, <1>2 DEF TypeOK, Kill

LEMMA TickEffect ==
  ASSUME TypeOK, Tick
  PROVE  /\ TypeOK'
         /\ \A p \in Procs :
              /\ proc'[p].pc = proc[p].pc /\ proc'[p].guarded = proc[p].guarded
              /\ proc'[p].hits = proc[p].hits /\ proc'[p].outrun = proc[p].outrun
              /\ proc'[p].file = proc[p].file /\ proc'[p].store = Aged(proc[p].store)
              /\ proc'[p].held = IF proc[p].guarded THEN Older(proc[p].held, Stale) ELSE proc[p].held
         /\ lock'.owner = lock.owner
         /\ lock'.age = IF lock.owner = Nobody THEN lock.age ELSE Older(lock.age, Stale)
<1>1. ASSUME NEW p \in Procs
      PROVE  /\ proc'[p] \in Runs
             /\ proc'[p].pc = proc[p].pc /\ proc'[p].guarded = proc[p].guarded
             /\ proc'[p].hits = proc[p].hits /\ proc'[p].outrun = proc[p].outrun
             /\ proc'[p].file = proc[p].file /\ proc'[p].store = Aged(proc[p].store)
             /\ proc'[p].held = IF proc[p].guarded THEN Older(proc[p].held, Stale) ELSE proc[p].held
  <2>1. proc[p] \in Runs
    BY DEF TypeOK
  <2> DEFINE store == Aged(proc[p].store)
             since == IF At(p, "probe") THEN Older(proc[p].since, Ttl) ELSE proc[p].since
             held == IF proc[p].guarded THEN Older(proc[p].held, Stale) ELSE proc[p].held
  <2>2. store \in Stores
    BY <2>1, AgedStore DEF Runs
  <2>3. since \in 0..Ttl /\ held \in 0..Stale
    BY <2>1, OlderStays, Limits DEF Runs
  <2>4. proc'[p] = [proc[p] EXCEPT !.store = store, !.since = since, !.held = held]
    BY DEF Tick
  <2> HIDE DEF store, since, held
  <2>5. /\ proc'[p] \in Runs
        /\ proc'[p].pc = proc[p].pc /\ proc'[p].guarded = proc[p].guarded
        /\ proc'[p].hits = proc[p].hits /\ proc'[p].outrun = proc[p].outrun
        /\ proc'[p].file = proc[p].file /\ proc'[p].store = store /\ proc'[p].held = held
    BY <2>1, <2>2, <2>3, <2>4 DEF Runs
  <2> QED
    BY <2>5 DEF store, held
<1>2. proc' \in [Procs -> Runs]
  BY <1>1 DEF Tick
<1>3. /\ lock'.owner = lock.owner
      /\ lock'.age = IF lock.owner = Nobody THEN lock.age ELSE Older(lock.age, Stale)
      /\ lock' \in [owner : Procs \cup {Nobody, Dead}, age : 0..Stale]
  <2>1. lock \in [owner : Procs \cup {Nobody, Dead}, age : 0..Stale]
    BY DEF TypeOK
  <2>2. Older(lock.age, Stale) \in 0..Stale
    BY <2>1, OlderStays, Limits
  <2>3. lock' = IF lock.owner = Nobody THEN lock ELSE [lock EXCEPT !.age = Older(lock.age, Stale)]
    BY DEF Tick
  <2> QED
    BY <2>1, <2>2, <2>3
<1>4. cache' \in {Absent, Torn} \cup Stores /\ tmp' \in {Absent, Torn} \cup Stores
  BY AgedFile DEF Tick, TypeOK
<1> QED
  BY <1>1, <1>2, <1>3, <1>4 DEF TypeOK, Tick

------------------------------------------------------------------------------
(* The conjuncts of the invariant.                                             *)

LEMMA TypeStep == TypeOK /\ [Next]_vars => TypeOK'
<1> SUFFICES ASSUME TypeOK, [Next]_vars PROVE TypeOK'
  OBVIOUS
<1>1. CASE UNCHANGED vars
  BY <1>1 DEF vars, TypeOK
<1>2. CASE Tick
  BY <1>2, TickEffect
<1>3. ASSUME NEW p \in Procs, (\E forced \in BOOLEAN : Load(p, forced)) \/ Step(p) \/ Kill(p)
      PROVE TypeOK'
  BY <1>3, LoadEffect, ReadLockEffect, WriteLockEffect, UnguardedEffect, SplitEffect, ProbeEffect,
     OpenTmpEffect, FillTmpEffect, RenameEffect, SaveFailsEffect, DropEffect, RemoveEffect,
     KillEffect DEF Step
<1> QED
  BY <1>1, <1>2, <1>3 DEF Next

(* The owner of a lock file is a run that holds it.                            *)
LEMMA OwnerStep == TypeOK /\ LockNamesRun /\ BeforeLock /\ [Next]_vars => LockNamesRun'
<1> SUFFICES ASSUME TypeOK, LockNamesRun, BeforeLock, [Next]_vars PROVE LockNamesRun'
  OBVIOUS
<1>1. CASE UNCHANGED vars
  BY <1>1 DEF vars, LockNamesRun
<1>2. CASE Tick
  BY <1>2, TickEffect DEF LockNamesRun
<1>3. ASSUME NEW p \in Procs, (\E forced \in BOOLEAN : Load(p, forced)) \/ Step(p) \/ Kill(p)
      PROVE LockNamesRun'
  <2>1. CASE \E forced \in BOOLEAN : Load(p, forced)
    <3>1. ~proc[p].guarded /\ UNCHANGED lock /\ Others(p)
      BY <2>1, LoadEffect DEF Load, At, BeforeLock
    <3> QED
      BY <3>1 DEF LockNamesRun, Others
  <2>2. CASE ReadLock(p)
    <3>1. ~proc[p].guarded /\ UNCHANGED lock /\ Others(p)
      BY <2>2, ReadLockEffect DEF ReadLock, At, BeforeLock
    <3> QED
      BY <3>1 DEF LockNamesRun, Others
  <2>3. CASE WriteLock(p)
    <3>1. lock'.owner = p /\ proc'[p].guarded
      BY <2>3, WriteLockEffect DEF WriteLock
    <3> QED
      BY <3>1 DEF LockNamesRun
  <2>4. CASE \/ Unguarded(p) \/ Split(p) \/ (\E t \in Targets : Probe(p, t)) \/ OpenTmp(p)
             \/ FillTmp(p)
    <3>1. UNCHANGED lock /\ proc'[p].guarded = proc[p].guarded /\ Others(p)
      BY <2>4, UnguardedEffect, SplitEffect, ProbeEffect, OpenTmpEffect, FillTmpEffect
         DEF Unguarded, Split, Probe, OpenTmp, FillTmp
    <3> QED
      BY <3>1 DEF LockNamesRun, Others
  <2>5. CASE Rename(p) \/ SaveFails(p)
    <3>1. UNCHANGED lock /\ proc'[p].guarded = proc[p].guarded
          /\ \A q \in Procs \ {p} : proc'[q].guarded = proc[q].guarded
      BY <2>5, RenameEffect, SaveFailsEffect, SavedRun DEF Rename, SaveFails, Others, OthersMoved
    <3> QED
      BY <3>1 DEF LockNamesRun
  <2>6. CASE Drop(p)
    <3>1. UNCHANGED lock /\ Others(p)
      BY <2>6, DropEffect DEF Drop
    <3>2. lock.owner = p => proc'[p].guarded
      BY <2>6, DropEffect DEF LockNamesRun
    <3> QED
      BY <3>1, <3>2 DEF LockNamesRun, Others
  <2>7. CASE Remove(p)
    BY <2>7, NoOwner DEF Remove, LockNamesRun
  <2>8. CASE Kill(p)
    BY <2>8, KillEffect, NoOwner DEF LockNamesRun, Others
  <2> QED
    BY <1>3, <2>1, <2>2, <2>3, <2>4, <2>5, <2>6, <2>7, <2>8 DEF Step
<1> QED
  BY <1>1, <1>2, <1>3 DEF Next

LEMMA BeforeLockStep == TypeOK /\ BeforeLock /\ [Next]_vars => BeforeLock'
<1> SUFFICES ASSUME TypeOK, BeforeLock, [Next]_vars PROVE BeforeLock'
  OBVIOUS
<1>1. CASE UNCHANGED vars
  BY <1>1 DEF vars, BeforeLock
<1>2. CASE Tick
  BY <1>2, TickEffect DEF BeforeLock
<1>3. ASSUME NEW p \in Procs, (\E forced \in BOOLEAN : Load(p, forced)) \/ Step(p) \/ Kill(p)
      PROVE BeforeLock'
  <2> DEFINE Kept(q) ==
        /\ proc'[q].pc \in {"idle", "acquire", "write"} => ~proc'[q].guarded /\ proc'[q].held = 0
        /\ proc'[q].pc \in {"idle", "acquire", "write", "check"} => proc'[q].hits = {}
  <2>1. ASSUME NEW q \in Procs \ {p} PROVE Kept(q)
    <3>1. /\ proc'[q].pc = proc[q].pc /\ proc'[q].guarded = proc[q].guarded
          /\ proc'[q].held = proc[q].held /\ proc'[q].hits = proc[q].hits
      BY <1>3, LoadEffect, ReadLockEffect, WriteLockEffect, UnguardedEffect, SplitEffect, ProbeEffect,
         OpenTmpEffect, FillTmpEffect, RenameEffect, SaveFailsEffect, DropEffect, RemoveEffect,
         KillEffect DEF Step, Others, OthersOutrun, OthersMoved
    <3> QED
      BY <3>1 DEF BeforeLock
  <2>2. Kept(p)
    <3>1. CASE (\E forced \in BOOLEAN : Load(p, forced))
      BY <3>1, LoadEffect
    <3>2. CASE ReadLock(p)
      BY <3>2, ReadLockEffect, QuietRun DEF BeforeLock
    <3>3. CASE WriteLock(p)
      BY <3>3, WriteLockEffect DEF BeforeLock
    <3>4. CASE Unguarded(p)
      BY <3>4, UnguardedEffect DEF BeforeLock
    <3>5. CASE \/ Split(p) \/ (\E t \in Targets : Probe(p, t)) \/ OpenTmp(p) \/ FillTmp(p)
               \/ Rename(p) \/ SaveFails(p) \/ Drop(p) \/ Remove(p) \/ Kill(p)
      <4>1. proc'[p].pc \in {"probe", "fill", "rename", "drop", "remove"} \/ proc'[p] = Quiet
        BY <3>5, SplitEffect, ProbeEffect, OpenTmpEffect, FillTmpEffect, RenameEffect,
           SaveFailsEffect, DropEffect, RemoveEffect, KillEffect, SavedRun
      <4> QED
        BY <4>1, QuietRun
    <3> QED
      BY <1>3, <3>1, <3>2, <3>3, <3>4, <3>5 DEF Step
  <2> QED
    BY <2>1, <2>2 DEF BeforeLock
<1> QED
  BY <1>1, <1>2, <1>3 DEF Next

(* No entry anywhere is older than it says.                                    *)
LEMMA AgesStep == TypeOK /\ AgesHonest /\ [Next]_vars => AgesHonest'
<1> SUFFICES ASSUME TypeOK, AgesHonest, [Next]_vars PROVE AgesHonest'
  OBVIOUS
<1> DEFINE Good(s) == \A t \in Targets : Honest(s[t])
           FileGood(f) == f \in Stores => Good(f)
<1>1. CASE UNCHANGED vars
  BY <1>1 DEF vars, AgesHonest
<1>2. CASE Tick
  <2>1. ASSUME NEW f \in {cache, tmp} PROVE FileGood(Aged(f))
    <3>1. CASE f \in Stores
      BY <3>1, AgedStore DEF AgesHonest
    <3>2. CASE f \in {Absent, Torn}
      BY <3>2, NoEntry DEF Aged
    <3> QED
      BY <3>1, <3>2 DEF TypeOK
  <2>2. ASSUME NEW p \in Procs PROVE Good(proc'[p].store)
    <3>1. proc[p].store \in Stores
      BY DEF TypeOK, Runs
    <3>2. Good(proc[p].store)
      BY DEF AgesHonest
    <3> QED
      BY <1>2, <3>1, <3>2, AgedStore, TickEffect
  <2>3. cache' = Aged(cache) /\ tmp' = Aged(tmp)
    BY <1>2 DEF Tick
  <2>4. \A f \in {cache', tmp'} : FileGood(f)
    BY <2>1, <2>3
  <2> QED
    BY <2>2, <2>4 DEF AgesHonest
<1>3. ASSUME NEW p \in Procs, (\E forced \in BOOLEAN : Load(p, forced)) \/ Step(p) \/ Kill(p)
      PROVE AgesHonest'
  <2>1. \A q \in Procs : Good(proc[q].store)
    BY DEF AgesHonest
  <2>2. ASSUME NEW q \in Procs \ {p} PROVE Good(proc'[q].store)
    <3>1. proc'[q].store = proc[q].store
      BY <1>3, LoadEffect, ReadLockEffect, WriteLockEffect, UnguardedEffect, SplitEffect, ProbeEffect,
         OpenTmpEffect, FillTmpEffect, RenameEffect, SaveFailsEffect, DropEffect, RemoveEffect,
         KillEffect DEF Step, Others, OthersOutrun, OthersMoved
    <3> QED
      BY <2>1, <3>1
  <2>3. Good(proc'[p].store)
    <3>1. CASE (\E forced \in BOOLEAN : Load(p, forced))
      BY <3>1, LoadEffect, EmptyStore DEF AgesHonest
    <3>2. CASE \E t \in Targets : Probe(p, t)
      BY <2>1, <3>2, ProbeEffect
    <3>3. CASE \/ ReadLock(p) \/ WriteLock(p) \/ Unguarded(p) \/ Split(p) \/ OpenTmp(p)
               \/ FillTmp(p) \/ Rename(p) \/ SaveFails(p) \/ Drop(p) \/ Remove(p) \/ Kill(p)
      <4>1. proc'[p].store \in {proc[p].store, Empty}
        BY <3>3, ReadLockEffect, WriteLockEffect, UnguardedEffect, SplitEffect, OpenTmpEffect,
           FillTmpEffect, RenameEffect, SaveFailsEffect, DropEffect, RemoveEffect, KillEffect,
           SavedRun, QuietRun
      <4> QED
        BY <2>1, <4>1, EmptyStore
    <3> QED
      BY <1>3, <3>1, <3>2, <3>3 DEF Step
  <2>4. FileGood(cache') /\ FileGood(tmp')
    <3>1. FileGood(cache) /\ FileGood(tmp)
      BY DEF AgesHonest
    <3>2. CASE UNCHANGED <<cache, tmp>>
      BY <3>1, <3>2
    <3>3. CASE OpenTmp(p)
      BY <3>1, <3>3, NoEntry DEF OpenTmp
    <3>4. CASE FillTmp(p)
      BY <2>1, <3>1, <3>4, FillTmpEffect, NoEntry
    <3>5. CASE Rename(p)
      BY <3>1, <3>5, RenameEffect, NoEntry
    <3> QED
      BY <1>3, <3>2, <3>3, <3>4, <3>5 DEF Step, Load, ReadLock, WriteLock, Unguarded, Split,
         Probe, SaveFails, Drop, Remove, Kill
  <2> QED
    BY <2>2, <2>3, <2>4 DEF AgesHonest
<1> QED
  BY <1>1, <1>2, <1>3 DEF Next

(* A young lock in use is the one on the disk.                                 *)
LEMMA YoungLockStep ==
  TypeOK /\ LockNamesRun /\ BeforeLock /\ YoungLockOnDisk /\ [Next]_vars => YoungLockOnDisk'
<1> SUFFICES ASSUME TypeOK, LockNamesRun, BeforeLock, YoungLockOnDisk, [Next]_vars
             PROVE  YoungLockOnDisk'
  OBVIOUS
<1> USE DEF At
<1>0. \A p \in Procs : proc[p].held \in 0..Stale /\ Stale \in Nat \ {0} /\ lock.age \in 0..Stale
  BY Limits DEF TypeOK, Runs
<1>1. CASE UNCHANGED vars
  BY <1>1 DEF vars, YoungLockOnDisk
<1>2. CASE Tick
  <2> SUFFICES ASSUME NEW p \in Procs
               PROVE  /\ ~raced' /\ proc'[p].guarded /\ proc'[p].held < Stale =>
                            lock'.owner = p /\ lock'.age = proc'[p].held
                      /\ proc'[p].pc = "write" /\ ~proc'[p].outrun =>
                            lock'.owner = Nobody \/ lock'.age = Stale
                      /\ proc'[p].pc = "remove" /\ ~proc'[p].outrun => lock'.owner = p
    BY DEF YoungLockOnDisk
  <2>1. /\ proc'[p].pc = proc[p].pc /\ proc'[p].guarded = proc[p].guarded
        /\ proc'[p].outrun = proc[p].outrun
        /\ proc'[p].held = IF proc[p].guarded THEN Older(proc[p].held, Stale) ELSE proc[p].held
        /\ lock'.owner = lock.owner
        /\ lock'.age = IF lock.owner = Nobody THEN lock.age ELSE Older(lock.age, Stale)
        /\ raced' = raced
    BY <1>2, TickEffect DEF Tick
  <2>2. p # Nobody
    BY NoOwner
  <2>3. CASE proc[p].guarded
    BY <1>0, <2>1, <2>2, <2>3 DEF YoungLockOnDisk, Older
  <2>4. CASE ~proc[p].guarded
    BY <1>0, <2>1, <2>4 DEF YoungLockOnDisk, Older
  <2> QED
    BY <2>3, <2>4
<1>3. ASSUME NEW p \in Procs, (\E forced \in BOOLEAN : Load(p, forced)) \/ Step(p) \/ Kill(p)
      PROVE YoungLockOnDisk'
  <2> DEFINE Young(q) ==
               ~raced' /\ proc'[q].guarded /\ proc'[q].held < Stale =>
                   lock'.owner = q /\ lock'.age = proc'[q].held
             Seen(q) ==
               /\ proc'[q].pc = "write" /\ ~proc'[q].outrun => lock'.owner = Nobody \/ lock'.age = Stale
               /\ proc'[q].pc = "remove" /\ ~proc'[q].outrun => lock'.owner = q
  <2>1. CASE WriteLock(p)
    <3>1. /\ proc[p].pc = "write" /\ proc'[p].pc = "check" /\ proc'[p].guarded /\ proc'[p].held = 0
          /\ OthersOutrun(p)
      BY <2>1, WriteLockEffect DEF BeforeLock
    <3>2. /\ lock'.owner = p /\ lock'.age = 0
          /\ raced' <=> raced \/ proc[p].outrun
      BY <2>1 DEF WriteLock
    <3>3. Young(p) /\ Seen(p)
      BY <3>1, <3>2
    <3>4. ASSUME NEW q \in Procs \ {p} PROVE Young(q) /\ Seen(q)
      <4>1. /\ proc'[q].pc = proc[q].pc /\ proc'[q].guarded = proc[q].guarded
            /\ proc'[q].held = proc[q].held
            /\ proc[q].pc \in {"write", "remove"} => proc'[q].outrun
        BY <3>1 DEF OthersOutrun
      <4>2. Young(q)
        <5> SUFFICES ASSUME ~raced', proc[q].guarded, proc[q].held < Stale PROVE FALSE
          BY <4>1
        <5>1. lock.owner = q /\ lock.age = proc[q].held
          BY <3>2 DEF YoungLockOnDisk
        <5>2. lock.owner = Nobody \/ lock.age = Stale
          BY <3>1, <3>2 DEF YoungLockOnDisk
        <5> QED
          BY <1>0, <5>1, <5>2, NoOwner
      <4>3. Seen(q)
        BY <4>1
      <4> QED
        BY <4>2, <4>3
    <3> HIDE DEF Young, Seen
    <3>5. \A q \in Procs : Young(q) /\ Seen(q)
      BY <3>3, <3>4
    <3> QED
      BY <3>5 DEF YoungLockOnDisk, Young, Seen
  <2>2. CASE Remove(p)
    <3>1. proc[p].pc = "remove" /\ OthersOutrun(p) /\ proc'[p].pc = "idle" /\ ~proc'[p].guarded
      BY <2>2, RemoveEffect, QuietRun
    <3>2. lock'.owner = Nobody /\ (raced' <=> raced \/ proc[p].outrun)
      BY <2>2 DEF Remove
    <3>3. Young(p) /\ Seen(p)
      BY <3>1
    <3>4. ASSUME NEW q \in Procs \ {p} PROVE Young(q) /\ Seen(q)
      <4>1. /\ proc'[q].pc = proc[q].pc /\ proc'[q].guarded = proc[q].guarded
            /\ proc'[q].held = proc[q].held
            /\ proc[q].pc \in {"write", "remove"} => proc'[q].outrun
        BY <3>1 DEF OthersOutrun
      <4>2. Young(q)
        <5> SUFFICES ASSUME ~raced', proc[q].guarded, proc[q].held < Stale PROVE FALSE
          BY <4>1
        <5>1. lock.owner = q /\ lock.owner = p
          BY <3>1, <3>2 DEF YoungLockOnDisk
        <5> QED
          BY <5>1
      <4>3. Seen(q)
        BY <4>1
      <4> QED
        BY <4>2, <4>3
    <3> HIDE DEF Young, Seen
    <3>5. \A q \in Procs : Young(q) /\ Seen(q)
      BY <3>3, <3>4
    <3> QED
      BY <3>5 DEF YoungLockOnDisk, Young, Seen
  <2>3. CASE Kill(p)
    <3>1. /\ Others(p) /\ proc'[p].pc = "idle" /\ ~proc'[p].guarded /\ raced' = raced
          /\ lock'.age = lock.age /\ lock'.owner = IF lock.owner = p THEN Dead ELSE lock.owner
      BY <2>3, KillEffect, QuietRun DEF Kill
    <3>2. Young(p) /\ Seen(p)
      BY <3>1
    <3>3. ASSUME NEW q \in Procs \ {p} PROVE Young(q) /\ Seen(q)
      BY <3>1, NoOwner DEF Others, YoungLockOnDisk
    <3> HIDE DEF Young, Seen
    <3>4. \A q \in Procs : Young(q) /\ Seen(q)
      BY <3>2, <3>3
    <3> QED
      BY <3>4 DEF YoungLockOnDisk, Young, Seen
  <2>4. CASE UNCHANGED <<lock, raced>>
    <3>1. ASSUME NEW q \in Procs \ {p}, ~WriteLock(p), ~Remove(p)
          PROVE  /\ proc'[q].pc = proc[q].pc /\ proc'[q].guarded = proc[q].guarded
                 /\ proc'[q].held = proc[q].held /\ proc'[q].outrun = proc[q].outrun
      BY <1>3, <3>1, LoadEffect, ReadLockEffect, UnguardedEffect, SplitEffect, ProbeEffect,
         OpenTmpEffect, FillTmpEffect, RenameEffect, SaveFailsEffect, DropEffect, KillEffect
         DEF Step, Others, OthersMoved
    <3>2. ASSUME NEW q \in Procs \ {p}, ~WriteLock(p), ~Remove(p) PROVE Young(q) /\ Seen(q)
      BY <2>4, <3>1, <3>2 DEF YoungLockOnDisk
    <3>3. ASSUME ~WriteLock(p), ~Remove(p), ~Kill(p) PROVE Young(p) /\ Seen(p)
      <4>1. CASE (\E forced \in BOOLEAN : Load(p, forced))
        BY <4>1, LoadEffect
      <4>2. CASE ReadLock(p)
        BY <2>4, <4>2, ReadLockEffect, QuietRun DEF YoungLockOnDisk, BeforeLock
      <4>3. CASE \/ Unguarded(p) \/ Split(p) \/ (\E t \in Targets : Probe(p, t)) \/ OpenTmp(p)
                 \/ FillTmp(p) \/ Rename(p) \/ SaveFails(p)
        <5>1. /\ proc'[p].pc \in {"check", "probe", "fill", "rename", "drop"}
              /\ proc'[p].guarded = proc[p].guarded /\ proc'[p].held = proc[p].held
          BY <4>3, UnguardedEffect, SplitEffect, ProbeEffect, OpenTmpEffect, FillTmpEffect,
             RenameEffect, SaveFailsEffect, SavedRun
        <5> QED
          BY <2>4, <5>1 DEF YoungLockOnDisk
      <4>4. CASE Drop(p)
        BY <2>4, <4>4, DropEffect, QuietRun DEF YoungLockOnDisk
      <4> QED
        BY <1>3, <3>3, <4>1, <4>2, <4>3, <4>4 DEF Step
    <3>4. CASE ~WriteLock(p) /\ ~Remove(p) /\ ~Kill(p)
      <4> HIDE DEF Young, Seen
      <4>1. \A q \in Procs : Young(q) /\ Seen(q)
        BY <3>2, <3>3, <3>4
      <4> QED
        BY <4>1 DEF YoungLockOnDisk, Young, Seen
    <3> QED
      BY <2>1, <2>2, <2>3, <3>4
  <2> QED
    BY <1>3, <2>1, <2>2, <2>3, <2>4 DEF Step, Load, ReadLock, Unguarded, Split, Probe, OpenTmp,
       FillTmp, Rename, SaveFails, Drop
<1> QED
  BY <1>1, <1>2, <1>3 DEF Next

(* Runs that do not overlap save one after the other.                          *)
LEMMA SavesStep == TypeOK /\ SavesInTurn /\ [Next]_vars => SavesInTurn'
<1> SUFFICES ASSUME TypeOK, SavesInTurn, [Next]_vars, ~overlapped' PROVE SavesInTurn'
  BY DEF SavesInTurn
<1> USE DEF At, Saving
<1>0. ~overlapped
  BY DEF Next, Step, vars, Load, ReadLock, WriteLock, Unguarded, Split, Probe, OpenTmp, FillTmp,
     Rename, SaveFails, Drop, Remove, Kill, Tick
<1>1. /\ cache # Torn
      /\ \A p, q \in Procs : p # q => ~(Saving(p) /\ Saving(q))
      /\ \A p \in Procs : /\ proc[p].pc = "fill" => proc[p].file = "tmp" /\ tmp = Torn
                          /\ proc[p].pc = "rename" => tmp # Torn
  BY <1>0 DEF SavesInTurn
<1>2. CASE UNCHANGED vars
  BY <1>1, <1>2 DEF vars, SavesInTurn
<1>3. CASE Tick
  <2>1. /\ cache' # Torn /\ (tmp' = Torn <=> tmp = Torn)
    BY <1>1, <1>3, AgedFile DEF Tick, TypeOK
  <2>2. \A p \in Procs : proc'[p].pc = proc[p].pc /\ proc'[p].file = proc[p].file
    BY <1>3, TickEffect
  <2> QED
    BY <1>1, <2>1, <2>2 DEF SavesInTurn
<1>4. ASSUME NEW p \in Procs, (\E forced \in BOOLEAN : Load(p, forced)) \/ Step(p) \/ Kill(p)
      PROVE SavesInTurn'
  <2>1. CASE OpenTmp(p)
    <3>1. /\ proc'[p].pc = "fill" /\ proc'[p].file = "tmp" /\ Others(p)
          /\ tmp' = Torn /\ cache' = cache
      BY <2>1, OpenTmpEffect DEF OpenTmp
    <3>2. \A q \in Procs \ {p} : ~Saving(q)
      BY <2>1 DEF OpenTmp
    <3> QED
      BY <1>1, <3>1, <3>2 DEF SavesInTurn, Others
  <2>2. CASE FillTmp(p)
    <3>1. /\ proc[p].pc = "fill" /\ proc'[p].pc = "rename" /\ Others(p)
          /\ tmp' = proc[p].store /\ cache' = cache
      BY <1>1, <2>2, FillTmpEffect
    <3>2. \A q \in Procs \ {p} : ~Saving(q)
      BY <1>1, <3>1
    <3>3. proc[p].store # Torn
      BY NoEntry DEF TypeOK, Runs
    <3> QED
      BY <1>1, <3>1, <3>2, <3>3 DEF SavesInTurn, Others
  <2>3. CASE Rename(p)
    <3>1. /\ proc[p].pc = "rename" /\ proc'[p].pc = "drop" /\ tmp # Torn
          /\ cache' \in {cache, tmp}
          /\ \A q \in Procs \ {p} : proc'[q].pc = proc[q].pc
      BY <1>1, <2>3, RenameEffect, SavedRun DEF OthersMoved
    <3>2. \A q \in Procs \ {p} : ~Saving(q)
      BY <1>1, <3>1
    <3> QED
      BY <1>1, <3>1, <3>2 DEF SavesInTurn
  <2>4. CASE ~OpenTmp(p) /\ ~FillTmp(p) /\ ~Rename(p)
    <3>1. UNCHANGED <<cache, tmp>>
      BY <1>4, <2>4 DEF Step, Load, ReadLock, WriteLock, Unguarded, Split, Probe, SaveFails, Drop,
         Remove, Kill
    <3>2. \A q \in Procs \ {p} : proc'[q].pc = proc[q].pc /\ proc'[q].file = proc[q].file
      BY <1>4, <2>4, LoadEffect, ReadLockEffect, WriteLockEffect, UnguardedEffect, SplitEffect,
         ProbeEffect, SaveFailsEffect, DropEffect, RemoveEffect, KillEffect
         DEF Step, Others, OthersOutrun
    <3>3. proc'[p].pc \notin {"fill", "rename"}
      BY <1>4, <2>4, LoadEffect, ReadLockEffect, WriteLockEffect, UnguardedEffect, SplitEffect,
         ProbeEffect, SaveFailsEffect, DropEffect, RemoveEffect, KillEffect, SavedRun, QuietRun
         DEF Step
    <3> QED
      BY <1>1, <3>1, <3>2, <3>3 DEF SavesInTurn
  <2> QED
    BY <2>1, <2>2, <2>3, <2>4
<1> QED
  BY <1>2, <1>3, <1>4 DEF Next

------------------------------------------------------------------------------
(* The theorems.                                                               *)

LEMMA InitHolds == Init => IInv
<1> SUFFICES ASSUME Init PROVE IInv
  OBVIOUS
<1> USE DEF At, Saving
<1>1. /\ lock = [owner |-> Nobody, age |-> 0] /\ cache = Absent /\ tmp = Absent
      /\ proc \in [Procs -> Runs] /\ \A p \in Procs : proc[p] = Quiet
      /\ raced = FALSE /\ overlapped = FALSE
  BY QuietRun DEF Init
<1>2. TypeOK
  <2>1. lock \in [owner : Procs \cup {Nobody, Dead}, age : 0..Stale]
    BY <1>1, Limits
  <2> QED
    BY <1>1, <2>1 DEF TypeOK
<1>3. LockNamesRun /\ BeforeLock /\ YoungLockOnDisk /\ SavesInTurn
  BY <1>1, QuietRun, NoOwner, NoEntry DEF LockNamesRun, BeforeLock, YoungLockOnDisk, SavesInTurn
<1>4. AgesHonest
  BY <1>1, QuietRun, EmptyStore, NoEntry DEF AgesHonest
<1> QED
  BY <1>2, <1>3, <1>4 DEF IInv

LEMMA StepKeeps == IInv /\ [Next]_vars => IInv'
BY TypeStep, OwnerStep, AgesStep, BeforeLockStep, YoungLockStep, SavesStep DEF IInv

(* IInv is an inductive invariant of check-updates (check_updates_cmd.rs,       *)
(* maintenance/).                                                              *)
THEOREM Invariance == Spec => []IInv
<1> QED
  BY InitHolds, StepKeeps, PTL DEF Spec

(* The lock, the cache and the runs have their types (maintenance/).            *)
THEOREM TypeCorrect == Spec => []TypeOK
<1>1. IInv => TypeOK
  BY DEF IInv
<1> QED
  BY <1>1, Invariance, PTL

(* A run that ends leaves no lock behind (maintenance/lock.rs, Drop).           *)
THEOREM NoLockLeftBehind == Spec => []LockNamesRun
<1>1. IInv => LockNamesRun
  BY DEF IInv
<1> QED
  BY <1>1, Invariance, PTL

(* The lock is read, then written or removed, in two steps (maintenance/lock.rs, *)
(* acquire and Drop), so two runs that both read no lock, or a stale one, both    *)
(* hold young locks.  Nothing else makes two: as long as no run has changed a     *)
(* lock that another had changed since it read it, slow owners, takeovers and     *)
(* kills leave at most one run with a lock that is not stale.                     *)
THEOREM OnlyRacesShareLocks == Spec => []OneYoungHolder
<1>1. IInv => OneYoungHolder
  <2> SUFFICES ASSUME IInv, ~raced, NEW p \in Procs, NEW q \in Procs, p # q,
                      proc[p].guarded, proc[q].guarded
               PROVE  proc[p].held = Stale \/ proc[q].held = Stale
    BY DEF OneYoungHolder
  <2>1. proc[p].held \in 0..Stale /\ proc[q].held \in 0..Stale /\ Stale \in Nat
    BY Limits DEF IInv, TypeOK, Runs
  <2>2. /\ proc[p].held < Stale => lock.owner = p
        /\ proc[q].held < Stale => lock.owner = q
    BY DEF IInv, YoungLockOnDisk
  <2> QED
    BY <2>1, <2>2
<1> QED
  BY <1>1, Invariance, PTL

(* Saves at the same time share one temporary name and do tear the cache         *)
(* (maintenance/cache.rs, save).  Nothing else does: as long as no two have       *)
(* overlapped, no kill, refused rename or failed write leaves a torn cache.       *)
THEOREM OnlyOverlapsTearTheCache == Spec => []CacheWhole
<1>1. IInv => CacheWhole
  BY DEF IInv, SavesInTurn, CacheWhole
<1> QED
  BY <1>1, Invariance, PTL

(* Whatever a run reports from the cache was asked of a backend within the time *)
(* to live (maintenance/cache.rs, is_fresh).                                   *)
THEOREM ReportsAreRecent == Spec => HitsAreRecent
<1>1. IInv /\ [Next]_vars =>
        [\A p \in Procs : At(p, "check") => \A t \in proc'[p].hits :
            proc[p].store[t].asked < Limit(proc[p].store[t].ok)]_vars
  <2> SUFFICES ASSUME IInv, [Next]_vars, NEW p \in Procs, proc[p].pc = "check",
                      NEW t \in proc'[p].hits
               PROVE  proc[p].store[t].asked < Limit(proc[p].store[t].ok)
    BY DEF At
  <2>1. TypeOK /\ proc[p].hits = {}
    BY DEF IInv, BeforeLock
  <2>2. Split(p)
    <3> SUFFICES ASSUME ~Split(p) PROVE proc'[p].hits = {}
      OBVIOUS
    <3>1. CASE UNCHANGED vars
      BY <2>1, <3>1 DEF vars
    <3>2. CASE Tick
      BY <2>1, <3>2, TickEffect
    <3>3. ASSUME NEW q \in Procs, (\E forced \in BOOLEAN : Load(q, forced)) \/ Step(q) \/ Kill(q)
          PROVE proc'[p].hits = {}
      <4>1. CASE q # p
        BY <2>1, <3>3, <4>1, LoadEffect, ReadLockEffect, WriteLockEffect, UnguardedEffect,
           SplitEffect, ProbeEffect, OpenTmpEffect, FillTmpEffect, RenameEffect,
           SaveFailsEffect, DropEffect, RemoveEffect, KillEffect
           DEF Step, Others, OthersOutrun, OthersMoved
      <4>2. CASE q = p
        BY <2>1, <3>3, <4>2, LoadEffect, ReadLockEffect, WriteLockEffect, UnguardedEffect,
           ProbeEffect, OpenTmpEffect, FillTmpEffect, RenameEffect,
           SaveFailsEffect, DropEffect, RemoveEffect, KillEffect, QuietRun DEF Step
      <4> QED
        BY <4>1, <4>2
    <3> QED
      BY <3>1, <3>2, <3>3 DEF Next
  <2>3. proc[p].store[t] # Absent /\ IsFresh(proc[p].store[t])
    BY <2>1, <2>2, SplitEffect
  <2>4. t \in Targets /\ proc[p].store \in Stores
    <3>1. proc'[p].hits \in SUBSET Targets
      BY <2>1, <2>2, SplitEffect DEF TypeOK, Runs
    <3> QED
      BY <2>1, <3>1 DEF TypeOK, Runs
  <2>5. proc[p].store[t] \in Entry /\ Honest(proc[p].store[t])
    BY <2>3, <2>4 DEF Stores, IInv, AgesHonest
  <2>6. Limit(proc[p].store[t].ok) \in 1..Ttl
    BY <2>5, Limits DEF Entry
  <2> QED
    BY <2>3, <2>5, <2>6, Limits DEF Honest, IsFresh, Entry
<1> QED
  BY <1>1, Invariance, PTL DEF Spec, HitsAreRecent
==============================================================================
