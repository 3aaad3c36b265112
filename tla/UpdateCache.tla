----------------------------- MODULE UpdateCache -----------------------------
(***************************************************************************)
(* `jarvy check-updates` (commands/check_updates_cmd.rs, maintenance/):    *)
(* each run loads the cache of looked-up versions, takes the refresh lock  *)
(* if it was asked to look everything up again, asks the backends for what *)
(* the cache does not answer, saves the cache and gives the lock back.     *)
(* Several runs are under way at once: users start them, and every setup   *)
(* starts one in the background.  Any of them may be killed.               *)
(*                                                                         *)
(* Time counts in hours, as ages that stop at the longest that matters.    *)
(* One write of the lock file is one step: a half-written file reads as no *)
(* lock, just as the file did before the write.  The temporary file of the *)
(* cache is shared by all runs and is modelled write by write.  The clock  *)
(* is taken to go forwards.                                                *)
(***************************************************************************)
EXTENDS Integers

CONSTANTS
    Procs,     \* runs of the command
    Targets,   \* tools and packages that a backend is asked for
    Ttl,       \* cache_ttl_hours
    Stale,     \* STALE_AGE
    ErrorTtl,  \* the limit on the age of an error
    Nobody, Dead, \* the owner of no lock file, and of one left by a killed run
    Torn,      \* a file that is empty or not JSON
    Absent     \* no file, no entry

ASSUME Hours ==
    {Ttl, Stale, ErrorTtl} \subseteq Nat \ {0} /\ ErrorTtl <= Ttl /\ Stale <= Ttl

ASSUME NoOwner == Nobody \notin Procs /\ Dead \notin Procs /\ Nobody # Dead

VARIABLES
    lock,        \* update-cache.lock: its owner and age
    cache,       \* update-cache.json
    tmp,         \* update-cache.json.tmp
    proc,        \* what each run does
    raced,       \* history: a run has changed a lock that was no longer the one it read
    overlapped   \* history: two runs had the temporary file in use at once

vars == <<lock, cache, tmp, proc, raced, overlapped>>

------------------------------------------------------------------------------
\* An entry: the backend gave a version (or an error), the age of checked_at_unix,
\* and, which the file does not say, the time since the backend was asked.
Entry == [ok : BOOLEAN, age : 0..Ttl, asked : 0..Ttl]

Stores == [Targets -> Entry \cup {Absent}]

ASSUME NoEntry ==
    /\ \A e \in Entry : e # Absent
    /\ \A s \in Stores : s # Absent /\ s # Torn
    /\ Torn # Absent

Empty == [t \in Targets |-> Absent]

Limit(ok) == IF ok THEN Ttl ELSE ErrorTtl

\* CacheStore::is_fresh
IsFresh(e) == e.age < Limit(e.ok)

\* The entry of an answer; past its limit neither age matters any more.
Answer(ok, age, asked) ==
    IF age < Limit(ok) THEN [ok |-> ok, age |-> age, asked |-> asked]
    ELSE [ok |-> ok, age |-> Limit(ok), asked |-> Limit(ok)]

\* `file` is what the run has open for writing, `since` the age of its `now`, `held`
\* that of its lock, `outrun` that another has changed the lock since the run read it.
Quiet == [pc |-> "idle", forced |-> FALSE, guarded |-> FALSE, store |-> Empty, todo |-> {},
          hits |-> {}, since |-> 0, held |-> 0, outrun |-> FALSE, file |-> "none"]

Init ==
    /\ lock = [owner |-> Nobody, age |-> 0]
    /\ cache = Absent /\ tmp = Absent
    /\ proc = [p \in Procs |-> Quiet]
    /\ raced = FALSE /\ overlapped = FALSE

At(p, pc) == proc[p].pc = pc

------------------------------------------------------------------------------
(* Up to the lock. *)

\* Mutant of Load: only a missing file is an empty cache.
LoadAny(p, forced) ==
    /\ At(p, "idle")
    /\ proc' = [proc EXCEPT ![p] =
         [Quiet EXCEPT !.pc = IF forced THEN "acquire" ELSE "check", !.forced = forced,
                       !.store = IF cache = Absent THEN Empty ELSE cache]]
    /\ UNCHANGED <<lock, cache, tmp, raced, overlapped>>

\* cache::load; a missing or corrupt file is an empty cache.
Load(p, forced) ==
    /\ At(p, "idle")
    /\ proc' = [proc EXCEPT ![p] =
         [Quiet EXCEPT !.pc = IF forced THEN "acquire" ELSE "check", !.forced = forced,
                       !.store = IF cache \in {Absent, Torn} THEN Empty ELSE cache]]
    /\ UNCHANGED <<lock, cache, tmp, raced, overlapped>>

\* acquire, up to its return: AlreadyRunning ends the run.
ReadLock(p) ==
    /\ At(p, "acquire")
    /\ proc' = IF lock.owner # Nobody /\ lock.age < Stale
               THEN [proc EXCEPT ![p] = Quiet]
               ELSE [proc EXCEPT ![p].pc = "write"]
    /\ UNCHANGED <<lock, cache, tmp, raced, overlapped>>

\* Run p changes the lock file: whoever is about to do so has not seen that.
Outrun(p) ==
    [q \in Procs |-> IF q # p /\ proc[q].pc \in {"write", "remove"}
                     THEN [proc[q] EXCEPT !.outrun = TRUE] ELSE proc[q]]

\* Acquired
WriteLock(p) ==
    /\ At(p, "write")
    /\ lock' = [owner |-> p, age |-> 0]
    /\ raced' = (raced \/ proc[p].outrun)
    /\ proc' = [Outrun(p) EXCEPT ![p].pc = "check", ![p].guarded = TRUE, ![p].outrun = FALSE]
    /\ UNCHANGED <<cache, tmp, overlapped>>

\* IoError: the run goes on without a lock.
Unguarded(p) ==
    /\ At(p, "acquire") \/ At(p, "write")
    /\ proc' = [proc EXCEPT ![p].pc = "check", ![p].outrun = FALSE]
    /\ UNCHANGED <<lock, cache, tmp, raced, overlapped>>

------------------------------------------------------------------------------
(* run_check_with_progress. *)

\* `now` is read; the targets that pass --only and --ignore are split into hits and misses.
Split(p) ==
    /\ At(p, "check")
    /\ \E asked \in SUBSET Targets :
          LET store == proc[p].store
              hits == {t \in asked : ~proc[p].forced /\ store[t] # Absent /\ IsFresh(store[t])}
          IN proc' = [proc EXCEPT ![p].pc = "probe", ![p].forced = FALSE,
                                  ![p].hits = hits, ![p].todo = asked \ hits]
    /\ UNCHANGED <<lock, cache, tmp, raced, overlapped>>

\* Mutant of Probe: the entry is dated when the answer is written into the cache,
\* as if it had been asked for then.
ProbeDatedLate(p, t) ==
    /\ At(p, "probe") /\ t \in proc[p].todo
    /\ \E ok \in BOOLEAN :
          proc' = [proc EXCEPT ![p].todo = @ \ {t},
                     ![p].store[t] = Answer(ok, 0, proc[p].since)]
    /\ UNCHANGED <<lock, cache, tmp, raced, overlapped>>

\* probe_one: the pool asks for the misses in any order; an entry is dated with `now`.
Probe(p, t) ==
    /\ At(p, "probe") /\ t \in proc[p].todo
    /\ \E ok \in BOOLEAN :
          proc' = [proc EXCEPT ![p].todo = @ \ {t},
                     ![p].store[t] = Answer(ok, proc[p].since, 0)]
    /\ UNCHANGED <<lock, cache, tmp, raced, overlapped>>

------------------------------------------------------------------------------
(* cache::save, and the end of the run. *)

Saving(p) == proc[p].pc \in {"fill", "rename"}

\* Mutant of OpenTmp: the cache is written in place.
OpenInPlace(p) ==
    /\ At(p, "probe") /\ proc[p].todo = {}
    /\ cache' = Torn
    /\ proc' = [proc EXCEPT ![p].pc = "fill", ![p].since = 0, ![p].file = "cache"]
    /\ overlapped' = (overlapped \/ \E q \in Procs \ {p} : Saving(q))
    /\ UNCHANGED <<lock, tmp, raced>>

\* The temporary file is opened and emptied, in every mode.
OpenTmp(p) ==
    /\ At(p, "probe") /\ proc[p].todo = {}
    /\ tmp' = Torn
    /\ proc' = [proc EXCEPT ![p].pc = "fill", ![p].since = 0, ![p].file = "tmp"]
    /\ overlapped' = (overlapped \/ \E q \in Procs \ {p} : Saving(q))
    /\ UNCHANGED <<lock, cache, raced>>

\* It is written, wherever it is by now; over another's text it leaves the rest of that.
FillTmp(p) ==
    /\ At(p, "fill")
    /\ LET Written(was) == {proc[p].store} \cup (IF was = Torn THEN {} ELSE {Torn})
       IN /\ IF proc[p].file = "tmp" THEN tmp' \in Written(tmp) ELSE UNCHANGED tmp
          /\ IF proc[p].file = "cache" THEN cache' \in Written(cache) ELSE UNCHANGED cache
    /\ proc' = [proc EXCEPT ![p].pc = "rename", ![p].store = Empty, ![p].file = "none"]
    /\ UNCHANGED <<lock, raced, overlapped>>

\* Where the file that a run has open is after the rename of tmp over the cache.
AfterRename(file) == CASE file = "tmp" -> "cache" [] file = "cache" -> "gone" [] OTHER -> file

\* The run has done with the cache; its lock is left.
Saved(p) == [Quiet EXCEPT !.pc = "drop", !.guarded = proc[p].guarded, !.held = proc[p].held]

\* The temporary file is renamed into place; or another run has taken it away.
Rename(p) ==
    /\ At(p, "rename")
    /\ IF tmp = Absent
       THEN UNCHANGED <<cache, tmp>> /\ proc' = [proc EXCEPT ![p] = Saved(p)]
       ELSE /\ cache' = tmp /\ tmp' = Absent
            /\ proc' = [q \in Procs |->
                 IF q = p THEN Saved(p)
                 ELSE [proc[q] EXCEPT !.file = AfterRename(@)]]
    /\ UNCHANGED <<lock, raced, overlapped>>

\* A failed save is logged; the run goes on.
SaveFails(p) ==
    /\ Saving(p) \/ (At(p, "probe") /\ proc[p].todo = {})
    /\ proc' = [proc EXCEPT ![p] = Saved(p)]
    /\ UNCHANGED <<lock, cache, tmp, raced, overlapped>>

\* Mutant of Drop: the lock file is removed whoever wrote it.
DropAny(p) ==
    /\ At(p, "drop")
    /\ IF proc[p].guarded /\ lock.owner # Nobody
       THEN lock' = [owner |-> Nobody, age |-> 0] /\ proc' = [Outrun(p) EXCEPT ![p] = Quiet]
       ELSE UNCHANGED lock /\ proc' = [proc EXCEPT ![p] = Quiet]
    /\ UNCHANGED <<cache, tmp, raced, overlapped>>

\* Drop for RefreshLock: the file is read, and left alone unless it is the run's own.
Drop(p) ==
    /\ At(p, "drop")
    /\ proc' = IF proc[p].guarded /\ lock.owner = p
               THEN [proc EXCEPT ![p].pc = "remove"]
               ELSE [proc EXCEPT ![p] = Quiet]
    /\ UNCHANGED <<lock, cache, tmp, raced, overlapped>>

\* It is removed.
Remove(p) ==
    /\ At(p, "remove")
    /\ lock' = [owner |-> Nobody, age |-> 0]
    /\ raced' = (raced \/ proc[p].outrun)
    /\ proc' = [Outrun(p) EXCEPT ![p] = Quiet]
    /\ UNCHANGED <<cache, tmp, overlapped>>

------------------------------------------------------------------------------
\* The run is killed; its lock stays, and so does a temporary file.
Kill(p) ==
    /\ ~At(p, "idle")
    /\ lock' = IF lock.owner = p THEN [lock EXCEPT !.owner = Dead] ELSE lock
    /\ proc' = [proc EXCEPT ![p] = Quiet]
    /\ UNCHANGED <<cache, tmp, raced, overlapped>>

Older(n, limit) == IF n < limit THEN n + 1 ELSE n

Aged(file) ==
    IF file \in {Absent, Torn} THEN file
    ELSE [t \in Targets |-> IF file[t] = Absent THEN Absent
                            ELSE Answer(file[t].ok, file[t].age + 1, Older(file[t].asked, Ttl))]

\* An hour passes.
Tick ==
    /\ lock' = IF lock.owner = Nobody THEN lock ELSE [lock EXCEPT !.age = Older(@, Stale)]
    /\ cache' = Aged(cache) /\ tmp' = Aged(tmp)
    /\ proc' = [p \in Procs |->
         [proc[p] EXCEPT !.store = Aged(@),
                         !.since = IF At(p, "probe") THEN Older(@, Ttl) ELSE @,
                         !.held = IF proc[p].guarded THEN Older(@, Stale) ELSE @]]
    /\ UNCHANGED <<raced, overlapped>>

Step(p) ==
    \/ ReadLock(p) \/ WriteLock(p) \/ Unguarded(p)
    \/ Split(p) \/ (\E t \in Targets : Probe(p, t))
    \/ OpenTmp(p) \/ FillTmp(p) \/ Rename(p) \/ SaveFails(p)
    \/ Drop(p) \/ Remove(p)

Next ==
    \/ \E p \in Procs : (\E forced \in BOOLEAN : Load(p, forced)) \/ Step(p) \/ Kill(p)
    \/ Tick

Spec == Init /\ [][Next]_vars

------------------------------------------------------------------------------
(* Properties. *)

Runs ==
    [pc : {"idle", "acquire", "write", "check", "probe", "fill", "rename", "drop", "remove"},
     forced : BOOLEAN, guarded : BOOLEAN, store : Stores, todo : SUBSET Targets,
     hits : SUBSET Targets, since : 0..Ttl, held : 0..Stale,
     outrun : BOOLEAN, file : {"none", "tmp", "cache", "gone"}]

\* The state has the types that its comments give it.
TypeOK ==
    /\ lock \in [owner : Procs \cup {Nobody, Dead}, age : 0..Stale]
    /\ cache \in {Absent, Torn} \cup Stores
    /\ tmp \in {Absent, Torn} \cup Stores
    /\ proc \in [Procs -> Runs]
    /\ raced \in BOOLEAN /\ overlapped \in BOOLEAN

\* The time since a backend was asked is never more than the age the file says.
Honest(e) == e = Absent \/ e.asked <= e.age

AgesHonest ==
    /\ \A file \in {cache, tmp} : file \in Stores => \A t \in Targets : Honest(file[t])
    /\ \A p \in Procs : \A t \in Targets : Honest(proc[p].store[t])

\* What a run knows before it has the lock, and before it has split its targets.
BeforeLock ==
    \A p \in Procs :
        /\ proc[p].pc \in {"idle", "acquire", "write"} => ~proc[p].guarded /\ proc[p].held = 0
        /\ proc[p].pc \in {"idle", "acquire", "write", "check"} => proc[p].hits = {}

\* Without a race a young lock in use is the one in the file, of the same age, and
\* what a run has read in the lock file still holds.
YoungLockOnDisk ==
    \A p \in Procs :
        /\ ~raced /\ proc[p].guarded /\ proc[p].held < Stale =>
              lock.owner = p /\ lock.age = proc[p].held
        /\ At(p, "write") /\ ~proc[p].outrun => lock.owner = Nobody \/ lock.age = Stale
        /\ At(p, "remove") /\ ~proc[p].outrun => lock.owner = p

\* One run at a time saves, and what it has renamed is what it has written.
SavesInTurn ==
    ~overlapped =>
        /\ cache # Torn
        /\ \A p, q \in Procs : p # q => ~(Saving(p) /\ Saving(q))
        /\ \A p \in Procs :
              /\ At(p, "fill") => proc[p].file = "tmp" /\ tmp = Torn
              /\ At(p, "rename") => tmp # Torn

\* A lock file is that of a run under way or killed: no run that ends leaves one
\* behind, however locks are taken over and removed at once.
LockNamesRun == lock.owner \in Procs => proc[lock.owner].guarded

\* As long as no lock was changed between a run's look at it and its own change, no
\* two refreshers whose lock is not stale hold it at once: also a slow run whose
\* lock was taken over does not open the door for a third one.
OneYoungHolder ==
    ~raced => \A p, q \in Procs :
        p # q /\ proc[p].guarded /\ proc[q].guarded => proc[p].held = Stale \/ proc[q].held = Stale

\* A run killed while it saves leaves a whole cache: only saves at the same time
\* can spoil it.
CacheWhole == cache = Torn => overlapped

\* What a check reports from the cache was asked of the backend less than the time to
\* live ago, an error less than an hour ago, through slow, overlapping and killed runs.
HitsAreRecent ==
    [][\A p \in Procs : At(p, "check") => \A t \in proc'[p].hits :
          proc[p].store[t].asked < Limit(proc[p].store[t].ok)]_vars

==============================================================================
