-------------------------- MODULE SelfUpdate_proofs --------------------------
(* Theorems about SelfUpdate for every set of releases, platform, and number   *)
(* of commands and attempts: types for any number of processes, and for        *)
(* commands that do not overlap that the binary is whole, the previous one is  *)
(* kept, and that records and reported successes are true.                     *)
EXTENDS SelfUpdate, TLAPS

Pcs == {"idle", "prepare", "backup", "stage", "aside", "promote", "putback", "unlink",
        "verify", "record", "clear"}

(* A command under way has started, with a backup of its own or the recorded one. *)
Busy ==
    \A p \in Procs :
        /\ proc[p].pc # "idle" => proc[p].phase # "none"
        /\ proc[p].phase # "none" => proc[p].backup \in BackupNames /\ proc[p].version \in Versions

------------------------------------------------------------------------------
(* What a step does to the command.                                            *)

Others(p) == \A q \in Procs \ {p} : proc'[q] = proc[q]

SameTask(p) ==
    /\ proc'[p].version = proc[p].version /\ proc'[p].want = proc[p].want
    /\ proc'[p].backup = proc[p].backup

LEMMA BoundsFacts ==
  Attempts \in Nat /\ 1 \in 1..Attempts /\ MaxCommands \in Nat /\ Windows \subseteq BOOLEAN
BY Bounds

LEMMA GotoEffect ==
  ASSUME TypeOK, NEW p \in Procs, NEW pc \in Pcs, Goto(p, pc)
  PROVE  /\ proc' \in [Procs -> ProcStates] /\ Others(p) /\ SameTask(p)
         /\ proc'[p].pc = pc /\ proc'[p].phase = proc[p].phase /\ proc'[p].result = proc[p].result
<1>1. proc[p] \in ProcStates /\ proc \in [Procs -> ProcStates]
  BY DEF TypeOK
<1> DEFINE r == [proc[p] EXCEPT !.pc = pc]
<1>2. proc' = [proc EXCEPT ![p] = r]
  BY <1>1 DEF Goto
<1>3. /\ r \in ProcStates /\ r.pc = pc /\ r.phase = proc[p].phase /\ r.result = proc[p].result
      /\ r.version = proc[p].version /\ r.want = proc[p].want /\ r.backup = proc[p].backup
  BY <1>1 DEF ProcStates, Pcs
<1> HIDE DEF r
<1> QED
  BY <1>1, <1>2, <1>3 DEF Others, SameTask

LEMMA EndEffect ==
  ASSUME TypeOK, NEW p \in Procs, NEW result \in {"ok", "failed", "stranded", "killed"},
         End(p, result)
  PROVE  /\ proc' \in [Procs -> ProcStates] /\ Others(p) /\ SameTask(p)
         /\ proc'[p].pc = "idle" /\ proc'[p].phase = proc[p].phase /\ proc'[p].result = result
<1>1. proc[p] \in ProcStates /\ proc \in [Procs -> ProcStates]
  BY DEF TypeOK
<1> DEFINE r == [proc[p] EXCEPT !.pc = "idle", !.result = result]
<1>2. proc' = [proc EXCEPT ![p] = r]
  BY <1>1 DEF End
<1>3. /\ r \in ProcStates /\ r.pc = "idle" /\ r.phase = proc[p].phase /\ r.result = result
      /\ r.version = proc[p].version /\ r.want = proc[p].want /\ r.backup = proc[p].backup
  BY <1>1 DEF ProcStates
<1> HIDE DEF r
<1> QED
  BY <1>1, <1>2, <1>3 DEF Others, SameTask

LEMMA RetryEffect ==
  ASSUME TypeOK, NEW p \in Procs, MayRetry(p), Retry(p)
  PROVE  /\ proc' \in [Procs -> ProcStates] /\ Others(p) /\ SameTask(p)
         /\ proc'[p].pc = "aside" /\ proc'[p].phase = proc[p].phase
         /\ proc'[p].result = proc[p].result /\ UNCHANGED new /\ target' # Absent
<1>1. proc[p] \in ProcStates /\ proc \in [Procs -> ProcStates]
  BY DEF TypeOK
<1> DEFINE r == [proc[p] EXCEPT !.pc = "aside", !.attempt = @ + 1]
<1>2. proc' = [proc EXCEPT ![p] = r]
  BY <1>1 DEF Retry
<1>3. proc[p].attempt + 1 \in 1..Attempts
  BY <1>1, BoundsFacts DEF MayRetry, ProcStates
<1>4. /\ r \in ProcStates /\ r.pc = "aside" /\ r.phase = proc[p].phase /\ r.result = proc[p].result
      /\ r.version = proc[p].version /\ r.want = proc[p].want /\ r.backup = proc[p].backup
  BY <1>1, <1>3 DEF ProcStates
<1> HIDE DEF r
<1> QED
  BY <1>1, <1>2, <1>4 DEF Others, SameTask, Retry, MayRetry

LEMMA StartEffect ==
  ASSUME TypeOK, NEW p \in Procs, NEW phase \in {"install", "rollback"}, NEW pc \in {"prepare", "stage"},
         NEW want \in Contents, NEW b \in BackupNames, Start(p, phase, pc, want, b)
  PROVE  /\ proc' \in [Procs -> ProcStates] /\ Others(p)
         /\ proc[p].pc = "idle" /\ proc'[p].pc = pc /\ proc'[p].phase = phase
         /\ proc'[p].version = target /\ proc'[p].want = want /\ proc'[p].backup = b
         /\ proc'[p].result = "none" /\ Runs(target) /\ target \in Versions
         /\ commands' = commands + 1 /\ commands' \in 1..MaxCommands
         /\ UNCHANGED <<windows, target, old, new, backups, info>>
<1> DEFINE r == [Quiet EXCEPT !.pc = pc, !.phase = phase, !.version = target, !.want = want,
                              !.backup = b]
<1>1. proc' = [proc EXCEPT ![p] = r] /\ proc \in [Procs -> ProcStates]
  BY DEF Start, TypeOK
<1>2. Quiet \in ProcStates /\ Quiet.result = "none"
  BY BoundsFacts DEF Quiet, ProcStates, Contents
<1>3. target \in Contents /\ target \in Versions /\ Runs(target)
  BY DEF Start, Runs, TypeOK
<1>4. /\ r \in ProcStates /\ r.pc = pc /\ r.phase = phase /\ r.result = "none"
      /\ r.version = target /\ r.want = want /\ r.backup = b
  BY <1>2, <1>3 DEF ProcStates
<1>5. commands' = commands + 1 /\ commands' \in 1..MaxCommands
  BY BoundsFacts DEF Start, TypeOK
<1>6. proc[p].pc = "idle" /\ UNCHANGED <<windows, target, old, new, backups, info>>
  BY DEF Start, At, files
<1> HIDE DEF r
<1> QED
  BY <1>1, <1>3, <1>4, <1>5, <1>6 DEF Others

LEMMA InstallStarts ==
  ASSUME TypeOK, NEW p \in Procs, StartInstall(p)
  PROVE  \E v \in Versions : /\ <<target, commands + 1>> \in BackupNames
                             /\ Start(p, "install", "prepare", v, <<target, commands + 1>>)
<1>1. PICK v \in Versions : Start(p, "install", "prepare", v, <<target, commands + 1>>)
  BY DEF StartInstall
<1>2. target \in Versions /\ commands + 1 \in 1..MaxCommands
  BY <1>1, BoundsFacts DEF Start, Runs, TypeOK
<1> QED
  BY <1>1, <1>2 DEF BackupNames

LEMMA InfoFacts ==
  ASSUME TypeOK
  PROVE  info.state = "ok" =>
           \E u \in Versions, v \in Contents, b \in BackupNames :
              info = Recorded(u, v, b) /\ info.backup = b /\ info.previous = u
BY DEF TypeOK, Infos, NoInfo, Torn, Recorded

------------------------------------------------------------------------------
(* Types, for any number of processes.                                         *)

LEMMA TypeStep == TypeOK /\ Busy /\ [Next]_vars => TypeOK' /\ Busy'
<1> SUFFICES ASSUME TypeOK, Busy, [Next]_vars PROVE TypeOK' /\ Busy'
  OBVIOUS
<1> USE DEF At
<1>1. CASE UNCHANGED vars
  BY <1>1 DEF vars, files, TypeOK, Busy
<1>2. CASE UserMovesBack
  BY <1>2 DEF UserMovesBack, TypeOK, Busy
<1>3. ASSUME NEW p \in Procs, StartInstall(p) \/ StartRollback(p) \/ Step(p) \/ Kill(p)
      PROVE TypeOK' /\ Busy'
  <2>0. /\ proc[p] \in ProcStates /\ proc[p].want \in Contents /\ Versions \subseteq Contents
        /\ Absent \in Contents /\ Partial \in Contents /\ target \in Contents
        /\ \A b \in BackupNames : backups[b] \in Contents
    BY DEF TypeOK, ProcStates, Contents
  <2>1. CASE StartInstall(p)
    <3>1. PICK v \in Versions : /\ <<target, commands + 1>> \in BackupNames
                                /\ Start(p, "install", "prepare", v, <<target, commands + 1>>)
      BY <2>1, InstallStarts
    <3>2. /\ proc' \in [Procs -> ProcStates] /\ Others(p) /\ proc'[p].phase = "install"
          /\ proc'[p].backup \in BackupNames /\ commands' \in 1..MaxCommands
          /\ proc'[p].version \in Versions
          /\ UNCHANGED <<windows, target, old, new, backups, info>>
      BY <2>0, <3>1, StartEffect
    <3> QED
      BY <3>2 DEF TypeOK, Busy, Others
  <2>2. CASE StartRollback(p)
    <3>1. /\ info.backup \in BackupNames
          /\ Start(p, "rollback", "stage", backups[info.backup], info.backup)
      BY <2>2, InfoFacts DEF StartRollback
    <3>2. /\ proc' \in [Procs -> ProcStates] /\ Others(p) /\ proc'[p].phase = "rollback"
          /\ proc'[p].backup \in BackupNames /\ commands' \in 1..MaxCommands
          /\ proc'[p].version \in Versions
          /\ UNCHANGED <<windows, target, old, new, backups, info>>
      BY <2>0, <3>1, StartEffect
    <3> QED
      BY <3>2 DEF TypeOK, Busy, Others
  <2>3. ASSUME Step(p) \/ Kill(p)
        PROVE  /\ proc' \in [Procs -> ProcStates] /\ Others(p)
               /\ proc'[p].phase # "none" /\ proc'[p].backup \in BackupNames
               /\ proc'[p].version \in Versions
    <3>1. /\ proc[p].pc # "idle" /\ proc[p].phase # "none" /\ proc[p].backup \in BackupNames
          /\ proc[p].version \in Versions
      BY <2>3 DEF Busy, Step, Kill, Prepare, Backup, StageBeside, StageFails, MoveAside, AsideFails,
         Promote, PromoteFails, PutBack, Strand, Unlink, Verify, Record, RecordFails, ClearInfo
    <3>2. CASE \/ \E pc \in Pcs : Goto(p, pc)
               \/ \E result \in {"ok", "failed", "stranded", "killed"} : End(p, result)
               \/ MayRetry(p) /\ Retry(p)
      BY <3>1, <3>2, GotoEffect, EndEffect, RetryEffect DEF SameTask
    <3>3. CASE proc' = [proc EXCEPT ![p].pc = "stage", ![p].phase = "restore",
                                    ![p].want = backups[proc[p].backup]]
      <4> DEFINE r == [proc[p] EXCEPT !.pc = "stage", !.phase = "restore",
                                      !.want = backups[proc[p].backup]]
      <4>1. proc' = [proc EXCEPT ![p] = r]
        BY <3>3 DEF TypeOK
      <4>2. backups[proc[p].backup] \in Contents
        BY <2>0, <3>1
      <4>3. /\ r \in ProcStates /\ r.phase = "restore" /\ r.backup = proc[p].backup
            /\ r.version = proc[p].version
        BY <2>0, <4>2 DEF ProcStates
      <4> HIDE DEF r
      <4> QED
        BY <3>1, <4>1, <4>3 DEF TypeOK, Others
    <3>4. \/ \E pc \in Pcs : Goto(p, pc)
          \/ \E result \in {"ok", "failed", "stranded", "killed"} : End(p, result)
          \/ MayRetry(p) /\ Retry(p)
          \/ proc' = [proc EXCEPT ![p].pc = "stage", ![p].phase = "restore",
                                  ![p].want = backups[proc[p].backup]]
      <4> USE DEF Pcs
      <4>1. CASE Prepare(p) \/ Backup(p) \/ StageBeside(p) \/ StageFails(p)
        BY <4>1 DEF Prepare, Backup, StageBeside, StageFails
      <4>2. CASE MoveAside(p) \/ Promote(p) \/ PromoteFails(p)
        BY <4>2 DEF MoveAside, Promote, PromoteFails
      <4>3. CASE AsideFails(p)
        BY <4>3 DEF AsideFails, GiveUp
      <4>4. CASE PutBack(p) \/ Strand(p)
        BY <4>4 DEF PutBack, Strand, GiveUp
      <4>5. CASE Unlink(p)
        <5>1. proc[p].phase \in {"install", "restore", "rollback"}
          BY <2>0, <3>1 DEF ProcStates
        <5> QED
          BY <4>5, <5>1 DEF Unlink
      <4>6. CASE Verify(p)
        BY <4>6 DEF Verify
      <4>7. CASE Record(p) \/ RecordFails(p) \/ ClearInfo(p) \/ Kill(p)
        BY <4>7 DEF Record, RecordFails, ClearInfo, Kill
      <4> QED
        BY <2>3, <4>1, <4>2, <4>3, <4>4, <4>5, <4>6, <4>7 DEF Step
    <3> QED
      BY <3>2, <3>3, <3>4
  <2>4. ASSUME Step(p) \/ Kill(p)
        PROVE  /\ {target, old, new}' \subseteq Contents /\ backups' \in [BackupNames -> Contents]
               /\ info' \in Infos /\ UNCHANGED <<windows, commands>>
    <3>1. /\ proc[p].phase # "none" /\ proc[p].backup \in BackupNames
          /\ proc[p].version \in Versions
      BY <2>4 DEF Busy, Step, Kill, Prepare, Backup, StageBeside, StageFails, MoveAside, AsideFails,
         Promote, PromoteFails, PutBack, Strand, Unlink, Verify, Record, RecordFails, ClearInfo
    <3>2. {target, old, new}' \subseteq Contents /\ UNCHANGED <<windows, commands>>
      BY <2>0, <2>4 DEF TypeOK, Step, Kill, Prepare, Backup, StageBeside, StageFails, MoveAside,
         AsideFails, Promote, PromoteFails, PutBack, Strand, Unlink, Verify, Record, RecordFails,
         ClearInfo, GiveUp, Retry, files
    <3>3. backups' \in [BackupNames -> Contents]
      BY <2>0, <2>4, <3>1 DEF TypeOK, Step, Kill, Prepare, Backup, StageBeside, StageFails,
         MoveAside, AsideFails, Promote, PromoteFails, PutBack, Strand, Unlink, Verify, Record,
         RecordFails, ClearInfo, files
    <3>4. Recorded(proc[p].version, proc[p].want, proc[p].backup) \in Infos /\ {NoInfo, Torn} \subseteq Infos
      BY <2>0, <3>1 DEF Infos
    <3>5. info' \in Infos
      BY <2>4, <3>4 DEF TypeOK, Step, Kill, Prepare, Backup, StageBeside, StageFails, MoveAside,
         AsideFails, Promote, PromoteFails, PutBack, Strand, Unlink, Verify, Record, RecordFails,
         ClearInfo, files
    <3> QED
      BY <3>2, <3>3, <3>5
  <2> QED
    BY <1>3, <2>1, <2>2, <2>3, <2>4 DEF TypeOK, Busy, Others
<1> QED
  BY <1>1, <1>2, <1>3 DEF Next

------------------------------------------------------------------------------
(* Commands that do not overlap.                                               *)

Alone == \A p, q \in Procs : p = q

Knows(p) ==
    LET c == proc[p] IN
    /\ c.pc # "idle" => c.phase # "none" /\ c.result = "none"
    /\ c.phase # "none" =>
         /\ c.version \in Versions /\ Runs(c.version) /\ c.want \in Versions
         /\ c.backup \in BackupNames /\ c.backup[2] <= commands
    /\ c.phase \in {"install", "restore"} =>
         target = c.version \/ backups[c.backup] = c.version
    /\ c.phase = "rollback" => Runs(c.want)

Places(p) ==
    LET c == proc[p] IN
    /\ c.pc \in {"prepare", "backup"} =>
         /\ c.phase = "install" /\ target = c.version /\ c.backup[2] = commands
         /\ info.state = "ok" => info.backup[2] < commands
    /\ c.pc \notin {"idle", "prepare", "backup"} /\ c.phase \in {"install", "restore"} =>
         backups[c.backup] = c.version
    /\ c.pc \in {"aside", "promote", "putback"} => new = c.want
    /\ c.pc \in {"unlink", "verify", "record", "clear"} => target = c.want
    /\ c.pc \in {"verify", "record"} => c.phase = "install"
    /\ c.pc = "record" => Runs(target)
    /\ c.pc = "clear" => c.phase = "rollback"
    /\ c.result = "ok" => c.phase # "none"

Succeeded(p) ==
    proc[p].result = "ok" =>
      /\ target = proc[p].want /\ Runs(target)
      /\ proc[p].phase = "install" =>
            info = Recorded(proc[p].version, target, proc[p].backup)

IInv == TypeOK /\ Busy /\ DiskWhole /\ CommandKnows /\ CommandPlaces /\ SuccessTrue

Sound(p) == TypeOK /\ Busy /\ DiskWhole /\ Knows(p) /\ Places(p) /\ Succeeded(p)

LEMMA Only ==
  ASSUME Alone, NEW p \in Procs
  PROVE  /\ CommandKnows <=> Knows(p)
         /\ CommandPlaces <=> Places(p)
         /\ SuccessTrue <=> Succeeded(p)
         /\ CommandKnows' <=> Knows(p)'
         /\ CommandPlaces' <=> Places(p)'
         /\ SuccessTrue' <=> Succeeded(p)'
<1>1. \A q \in Procs : q = p
  BY DEF Alone
<1>2. /\ CommandKnows <=> Knows(p)
      /\ CommandKnows' <=> Knows(p)'
  BY <1>1, Zenon DEF CommandKnows, Knows
<1>3. /\ CommandPlaces <=> Places(p)
      /\ CommandPlaces' <=> Places(p)'
  BY <1>1, Zenon DEF CommandPlaces, Places
<1>4. /\ SuccessTrue <=> Succeeded(p)
      /\ SuccessTrue' <=> Succeeded(p)'
  BY <1>1, Zenon DEF SuccessTrue, Succeeded
<1> QED
  BY <1>2, <1>3, <1>4

LEMMA InstallSound ==
  ASSUME NEW p \in Procs, Sound(p), StartInstall(p)
  PROVE  DiskWhole' /\ Knows(p)' /\ Places(p)' /\ Succeeded(p)'
<1>1. PICK v \in Versions : /\ <<target, commands + 1>> \in BackupNames
                            /\ Start(p, "install", "prepare", v, <<target, commands + 1>>)
  BY InstallStarts DEF Sound
<1>2. /\ proc'[p].pc = "prepare" /\ proc'[p].phase = "install" /\ proc'[p].result = "none"
      /\ proc'[p].version = target /\ proc'[p].want = v /\ v \in Versions
      /\ proc'[p].backup = <<target, commands + 1>>
      /\ Runs(target) /\ target \in Versions /\ commands' = commands + 1
      /\ UNCHANGED <<windows, target, old, new, backups, info>>
  BY <1>1, StartEffect DEF Sound, Contents
<1>3. commands \in Nat /\ (info.state = "ok" => info.backup \in BackupNames /\ info.backup[2] \in Nat)
  BY BoundsFacts DEF Sound, TypeOK, DiskWhole, BackupNames
<1>4. DiskWhole'
  BY <1>2, <1>3 DEF Sound, DiskWhole, Runs
<1>5. Knows(p)'
  BY <1>1, <1>2, <1>3 DEF Knows, Runs
<1>6. Places(p)' /\ Succeeded(p)'
  BY <1>2, <1>3 DEF Sound, DiskWhole, Places, Succeeded
<1> QED
  BY <1>4, <1>5, <1>6

LEMMA RollbackSound ==
  ASSUME NEW p \in Procs, Sound(p), StartRollback(p)
  PROVE  DiskWhole' /\ Knows(p)' /\ Places(p)' /\ Succeeded(p)'
<1>1. /\ info.backup \in BackupNames /\ info.backup[2] <= commands
      /\ backups[info.backup] \in Versions /\ Runs(backups[info.backup])
      /\ Start(p, "rollback", "stage", backups[info.backup], info.backup)
  BY DEF StartRollback, Sound, DiskWhole
<1>2. /\ proc'[p].pc = "stage" /\ proc'[p].phase = "rollback" /\ proc'[p].result = "none"
      /\ proc'[p].version = target /\ proc'[p].want = backups[info.backup]
      /\ proc'[p].backup = info.backup
      /\ Runs(target) /\ target \in Versions /\ commands' = commands + 1
      /\ UNCHANGED <<windows, target, old, new, backups, info>>
  BY <1>1, StartEffect DEF Sound, Contents
<1>3. commands \in Nat /\ info.backup[2] \in Nat
  BY <1>1, BoundsFacts DEF Sound, TypeOK, BackupNames
<1>4. DiskWhole'
  BY <1>2, <1>3 DEF Sound, DiskWhole, Runs
<1>5. Knows(p)' /\ Places(p)' /\ Succeeded(p)'
  BY <1>1, <1>2, <1>3 DEF Knows, Places, Succeeded, Runs
<1> QED
  BY <1>4, <1>5

(* What a command under way keeps: its task.                                     *)
LEMMA UnderWay ==
  ASSUME NEW p \in Procs, Sound(p), proc[p].pc # "idle"
  PROVE  /\ proc[p].phase \in {"install", "restore", "rollback"} /\ proc[p].result = "none"
         /\ proc[p].version \in Versions /\ Runs(proc[p].version) /\ proc[p].want \in Versions
         /\ proc[p].backup \in BackupNames /\ proc[p].backup[2] <= commands
         /\ proc[p].phase \in {"install", "restore"} =>
              target = proc[p].version \/ backups[proc[p].backup] = proc[p].version
         /\ proc[p].phase = "rollback" => Runs(proc[p].want)
         /\ target \in Versions \cup {Absent} /\ old \in Versions \cup {Absent}
         /\ Absent \notin Versions /\ Partial \notin Versions
BY NoFiles DEF Sound, TypeOK, ProcStates, Knows, DiskWhole

(* The command moves on or ends, and the files are as the next step needs them.  *)
LEMMA StepKeeps ==
  ASSUME NEW p \in Procs, Sound(p), proc[p].pc # "idle", SameTask(p), UNCHANGED commands,
         proc'[p].phase = proc[p].phase, UNCHANGED <<backups, info>>,
         proc'[p].result \in {"none", "failed", "stranded", "killed"},
         proc'[p].pc # "idle" => proc'[p].result = "none",
         {target', old'} \subseteq Versions \cup {Absent},
         proc'[p].phase \in {"install", "restore"} =>
           target' = proc[p].version \/ backups[proc[p].backup] = proc[p].version,
         Places(p)'
  PROVE  DiskWhole' /\ Knows(p)' /\ Places(p)' /\ Succeeded(p)'
<1>1. DiskWhole'
  BY DEF Sound, DiskWhole, Runs
<1>2. Knows(p)'
  BY UnderWay DEF Knows, SameTask, Runs
<1>3. Succeeded(p)'
  BY DEF Succeeded
<1> QED
  BY <1>1, <1>2, <1>3

LEMMA PrepareSound ==
  ASSUME NEW p \in Procs, Sound(p), Prepare(p) \/ StageFails(p) \/ RecordFails(p)
  PROVE  DiskWhole' /\ Knows(p)' /\ Places(p)' /\ Succeeded(p)'
<1>0. proc[p].pc \in {"prepare", "backup", "stage", "record"} /\ UNCHANGED <<windows, files, commands>>
  BY DEF Prepare, StageFails, RecordFails, At
<1>1. /\ SameTask(p) /\ proc'[p].phase = proc[p].phase
      /\ \/ proc[p].pc = "prepare" /\ proc'[p].pc = "backup" /\ proc'[p].result = proc[p].result
         \/ proc'[p].pc = "idle" /\ proc'[p].result = "failed"
  BY GotoEffect, EndEffect DEF Sound, Prepare, StageFails, RecordFails, Pcs, At
<1>2. Places(p)'
  BY <1>0, <1>1, UnderWay DEF Sound, Places, SameTask, files, Runs
<1> QED
  BY <1>0, <1>1, <1>2, UnderWay, StepKeeps DEF files

LEMMA BackupSound ==
  ASSUME NEW p \in Procs, Sound(p), Backup(p)
  PROVE  DiskWhole' /\ Knows(p)' /\ Places(p)' /\ Succeeded(p)'
<1>0. /\ proc[p].pc = "backup" /\ proc[p].phase = "install" /\ target = proc[p].version
      /\ target # Absent /\ proc[p].backup[2] = commands
      /\ info.state = "ok" => info.backup[2] < commands
      /\ UNCHANGED <<windows, target, old, new, info, commands>>
  BY UnderWay DEF Backup, At, Sound, Places
<1>1. /\ SameTask(p) /\ proc'[p].phase = proc[p].phase
      /\ proc'[p].pc = "stage" /\ proc'[p].result = proc[p].result
      /\ backups' = [backups EXCEPT ![proc[p].backup] = target]
  BY <1>0, GotoEffect DEF Sound, Backup, Pcs
<1>2. /\ backups'[proc[p].backup] = proc[p].version
      /\ \A b \in BackupNames : b # proc[p].backup => backups'[b] = backups[b]
  BY <1>0, <1>1, UnderWay DEF Sound, TypeOK
<1>3. info.state = "ok" => info.backup \in BackupNames /\ info.backup # proc[p].backup
  BY <1>0, BoundsFacts DEF Sound, TypeOK, DiskWhole, BackupNames
<1>4. DiskWhole'
  BY <1>0, <1>2, <1>3 DEF Sound, DiskWhole, Runs
<1>5. Knows(p)'
  BY <1>0, <1>1, <1>2, UnderWay DEF Knows, SameTask, Runs
<1>6. Places(p)' /\ Succeeded(p)'
  BY <1>0, <1>1, <1>2, UnderWay DEF Places, Succeeded, SameTask
<1> QED
  BY <1>4, <1>5, <1>6

LEMMA StageSound ==
  ASSUME NEW p \in Procs, Sound(p), StageBeside(p)
  PROVE  DiskWhole' /\ Knows(p)' /\ Places(p)' /\ Succeeded(p)'
<1>0. proc[p].pc = "stage" /\ new' = proc[p].want /\ UNCHANGED <<windows, target, old, backups, info, commands>>
  BY DEF StageBeside, At
<1>1. /\ SameTask(p) /\ proc'[p].phase = proc[p].phase
      /\ proc'[p].pc = "aside" /\ proc'[p].result = proc[p].result
  BY GotoEffect DEF Sound, StageBeside, Pcs
<1>2. Places(p)'
  BY <1>0, <1>1, UnderWay DEF Sound, Places, SameTask
<1> QED
  BY <1>0, <1>1, <1>2, UnderWay, StepKeeps

LEMMA AsideSound ==
  ASSUME NEW p \in Procs, Sound(p), MoveAside(p)
  PROVE  DiskWhole' /\ Knows(p)' /\ Places(p)' /\ Succeeded(p)'
<1>0. /\ proc[p].pc = "aside" /\ target # Absent /\ old' = target /\ target' = Absent
      /\ UNCHANGED <<windows, new, backups, info, commands>>
  BY DEF MoveAside, At
<1>1. /\ SameTask(p) /\ proc'[p].phase = proc[p].phase
      /\ proc'[p].pc = "promote" /\ proc'[p].result = proc[p].result
  BY GotoEffect DEF Sound, MoveAside, Pcs
<1>2. proc[p].phase \in {"install", "restore"} => backups[proc[p].backup] = proc[p].version
  BY <1>0 DEF Sound, Places
<1>3. Places(p)'
  BY <1>0, <1>1, <1>2, UnderWay DEF Sound, Places, SameTask
<1> QED
  BY <1>0, <1>1, <1>2, <1>3, UnderWay, StepKeeps

LEMMA PromoteSound ==
  ASSUME NEW p \in Procs, Sound(p), Promote(p) \/ PromoteFails(p)
  PROVE  DiskWhole' /\ Knows(p)' /\ Places(p)' /\ Succeeded(p)'
<1>0. /\ proc[p].pc = "promote" /\ new = proc[p].want
      /\ UNCHANGED <<windows, old, backups, info, commands>>
      /\ proc[p].phase \in {"install", "restore"} => backups[proc[p].backup] = proc[p].version
  BY DEF Promote, PromoteFails, At, files, Sound, Places
<1>1. /\ SameTask(p) /\ proc'[p].phase = proc[p].phase /\ proc'[p].result = proc[p].result
      /\ \/ proc'[p].pc = "unlink" /\ target' = new
         \/ proc'[p].pc = "putback" /\ UNCHANGED <<target, new>>
  BY GotoEffect DEF Sound, Promote, PromoteFails, Pcs, files
<1>2. Places(p)'
  BY <1>0, <1>1, UnderWay DEF Sound, Places, SameTask
<1> QED
  BY <1>0, <1>1, <1>2, UnderWay, StepKeeps

LEMMA RetrySound ==
  ASSUME NEW p \in Procs, Sound(p), AsideFails(p) \/ PutBack(p) \/ Strand(p)
  PROVE  DiskWhole' /\ Knows(p)' /\ Places(p)' /\ Succeeded(p)'
<1>0. /\ proc[p].pc \in {"aside", "putback"} /\ new = proc[p].want
      /\ UNCHANGED <<windows, backups, info, commands>>
      /\ \/ UNCHANGED <<target, old>>
         \/ old # Absent /\ target' = old /\ old' = Absent
      /\ proc[p].phase \in {"install", "restore"} => backups[proc[p].backup] = proc[p].version
  BY DEF AsideFails, PutBack, Strand, At, Sound, Places
<1>1. /\ SameTask(p) /\ proc'[p].phase = proc[p].phase
      /\ \/ proc'[p].pc = "aside" /\ proc'[p].result = proc[p].result /\ UNCHANGED new
         \/ proc'[p].pc = "idle" /\ proc'[p].result \in {"failed", "stranded"}
  <2>1. \/ MayRetry(p) /\ Retry(p)
        \/ \E result \in {"failed", "stranded"} : End(p, result)
    BY DEF AsideFails, PutBack, Strand, GiveUp
  <2> QED
    BY <2>1, RetryEffect, EndEffect DEF Sound
<1>2. Places(p)'
  BY <1>0, <1>1, UnderWay DEF Sound, Places, SameTask
<1> QED
  BY <1>0, <1>1, <1>2, UnderWay, StepKeeps

LEMMA UnlinkSound ==
  ASSUME NEW p \in Procs, Sound(p), Unlink(p)
  PROVE  DiskWhole' /\ Knows(p)' /\ Places(p)' /\ Succeeded(p)'
<1>0. /\ proc[p].pc = "unlink" /\ target = proc[p].want /\ old' \in {old, Absent}
      /\ UNCHANGED <<windows, target, new, backups, info, commands>>
      /\ proc[p].phase \in {"install", "restore"} => backups[proc[p].backup] = proc[p].version
  BY DEF Unlink, At, Sound, Places
<1>1. /\ SameTask(p) /\ proc'[p].phase = proc[p].phase
      /\ \/ proc[p].phase = "install" /\ proc'[p].pc = "verify" /\ proc'[p].result = proc[p].result
         \/ proc[p].phase = "restore" /\ proc'[p].pc = "idle" /\ proc'[p].result = "failed"
         \/ proc[p].phase = "rollback" /\ proc'[p].pc = "clear" /\ proc'[p].result = proc[p].result
  <2>1. \/ proc[p].phase = "install" /\ Goto(p, "verify")
        \/ proc[p].phase = "restore" /\ End(p, "failed")
        \/ proc[p].phase = "rollback" /\ Goto(p, "clear")
    BY <1>0, UnderWay DEF Unlink
  <2> QED
    BY <2>1, GotoEffect, EndEffect DEF Sound, Pcs
<1>2. Places(p)'
  BY <1>0, <1>1, UnderWay DEF Sound, Places, SameTask
<1> QED
  BY <1>0, <1>1, <1>2, UnderWay, StepKeeps

LEMMA VerifySound ==
  ASSUME NEW p \in Procs, Sound(p), Verify(p)
  PROVE  DiskWhole' /\ Knows(p)' /\ Places(p)' /\ Succeeded(p)'
<1>0. /\ proc[p].pc = "verify" /\ proc[p].phase = "install" /\ target = proc[p].want
      /\ backups[proc[p].backup] = proc[p].version
      /\ UNCHANGED <<windows, target, old, new, backups, info, commands>>
  BY DEF Verify, At, files, Sound, Places
<1>1. CASE \/ Runs(target) /\ Goto(p, "record")
           \/ End(p, "failed")
  <2>1. /\ SameTask(p) /\ proc'[p].phase = proc[p].phase
        /\ \/ proc'[p].pc = "record" /\ proc'[p].result = proc[p].result /\ Runs(target)
           \/ proc'[p].pc = "idle" /\ proc'[p].result = "failed"
    BY <1>1, GotoEffect, EndEffect DEF Sound, Pcs
  <2>2. Places(p)'
    BY <1>0, <2>1, UnderWay DEF Sound, Places, SameTask, Runs
  <2> QED
    BY <1>0, <2>1, <2>2, UnderWay, StepKeeps
<1>2. CASE proc' = [proc EXCEPT ![p].pc = "stage", ![p].phase = "restore",
                                ![p].want = backups[proc[p].backup]]
  <2> DEFINE r == [proc[p] EXCEPT !.pc = "stage", !.phase = "restore",
                                  !.want = backups[proc[p].backup]]
  <2>1. proc' = [proc EXCEPT ![p] = r] /\ proc[p] \in ProcStates /\ proc \in [Procs -> ProcStates]
    BY <1>2 DEF Sound, TypeOK
  <2>2. /\ r.pc = "stage" /\ r.phase = "restore" /\ r.want = proc[p].version
        /\ r.version = proc[p].version /\ r.backup = proc[p].backup /\ r.result = proc[p].result
    BY <1>0, <2>1 DEF ProcStates
  <2> HIDE DEF r
  <2>3. proc'[p] = r
    BY <2>1
  <2>4. DiskWhole'
    BY <1>0 DEF Sound, DiskWhole, Runs
  <2>5. Knows(p)'
    BY <1>0, <2>2, <2>3, UnderWay DEF Knows, Runs
  <2>6. Places(p)' /\ Succeeded(p)'
    BY <1>0, <2>2, <2>3, UnderWay DEF Places, Succeeded
  <2> QED
    BY <2>4, <2>5, <2>6
<1> QED
  BY <1>1, <1>2 DEF Verify

LEMMA RecordSound ==
  ASSUME NEW p \in Procs, Sound(p), Record(p) \/ ClearInfo(p)
  PROVE  DiskWhole' /\ Knows(p)' /\ Places(p)' /\ Succeeded(p)'
<1>0. UNCHANGED <<windows, target, old, new, backups, commands>> /\ End(p, "ok")
  BY DEF Record, ClearInfo
<1>1. SameTask(p) /\ proc'[p].phase = proc[p].phase /\ proc'[p].pc = "idle" /\ proc'[p].result = "ok"
  BY <1>0, EndEffect DEF Sound
<1>2. proc[p].pc # "idle" /\ target = proc[p].want
  BY DEF Record, ClearInfo, At, Sound, Places
<1>3. Knows(p)'
  BY <1>0, <1>1, <1>2, UnderWay DEF Knows, SameTask, Runs
<1>4. Places(p)'
  BY <1>0, <1>1, <1>2, UnderWay DEF Places, SameTask
<1>5. CASE Record(p)
  <2>1. /\ proc[p].phase = "install" /\ Runs(target) /\ backups[proc[p].backup] = proc[p].version
        /\ info' = Recorded(proc[p].version, target, proc[p].backup)
    BY <1>2, <1>5 DEF Record, At, Sound, Places
  <2>2. DiskWhole'
    BY <1>0, <1>2, <2>1, UnderWay DEF Sound, DiskWhole, Runs, Recorded
  <2>3. Succeeded(p)'
    BY <1>0, <1>1, <1>2, <2>1 DEF Succeeded, SameTask, Runs, Recorded
  <2> QED
    BY <1>3, <1>4, <2>2, <2>3
<1>6. CASE ClearInfo(p)
  <2>1. proc[p].phase = "rollback" /\ Runs(target) /\ info' \in {NoInfo, info}
    BY <1>2, <1>6, UnderWay DEF ClearInfo, At, Sound, Places
  <2>2. DiskWhole'
    BY <1>0, <2>1 DEF Sound, DiskWhole, Runs, NoInfo
  <2>3. Succeeded(p)'
    BY <1>0, <1>1, <1>2, <2>1 DEF Succeeded, SameTask, Runs
  <2> QED
    BY <1>3, <1>4, <2>2, <2>3
<1> QED
  BY <1>5, <1>6

LEMMA KillSound ==
  ASSUME NEW p \in Procs, Sound(p), Kill(p)
  PROVE  DiskWhole' /\ Knows(p)' /\ Places(p)' /\ Succeeded(p)'
<1>0. proc[p].pc # "idle" /\ UNCHANGED <<windows, target, old, commands>>
  BY DEF Kill, At
<1>1. SameTask(p) /\ proc'[p].phase = proc[p].phase /\ proc'[p].pc = "idle" /\ proc'[p].result = "killed"
  BY EndEffect DEF Sound, Kill
<1>2. info' \in {info, Torn}
  BY DEF Kill
<1>3. \/ UNCHANGED backups
      \/ /\ proc[p].pc = "backup" /\ proc[p].phase = "install" /\ target = proc[p].version
         /\ backups' = [backups EXCEPT ![proc[p].backup] = Partial]
         /\ info.state = "ok" => info.backup \in BackupNames /\ info.backup # proc[p].backup
  <2>1. proc[p].pc = "backup" =>
          /\ proc[p].phase = "install" /\ target = proc[p].version
          /\ info.state = "ok" => info.backup \in BackupNames /\ info.backup # proc[p].backup
    BY BoundsFacts DEF Sound, TypeOK, DiskWhole, BackupNames, Places
  <2> QED
    BY <2>1 DEF Kill, At
<1>4. info.state = "ok" => backups'[info.backup] = backups[info.backup]
  BY <1>3, UnderWay, <1>0 DEF Sound, TypeOK
<1>5. DiskWhole'
  BY <1>0, <1>2, <1>4 DEF Sound, DiskWhole, Runs, Torn
<1>6. proc[p].phase \in {"install", "restore"} =>
        target = proc[p].version \/ backups'[proc[p].backup] = proc[p].version
  BY <1>0, <1>3, UnderWay
<1>7. Knows(p)'
  BY <1>0, <1>1, <1>6, UnderWay DEF Knows, SameTask, Runs
<1>8. Places(p)' /\ Succeeded(p)'
  BY <1>1 DEF Places, Succeeded
<1> QED
  BY <1>5, <1>7, <1>8

LEMMA UserSound ==
  ASSUME IInv, UserMovesBack
  PROVE  DiskWhole' /\ CommandKnows' /\ CommandPlaces' /\ SuccessTrue'
<1>0. /\ target = Absent /\ target' = old /\ old' = Absent /\ \A p \in Procs : proc[p].pc = "idle"
      /\ UNCHANGED <<windows, new, backups, info, commands, proc>>
      /\ Absent \notin Versions
  BY NoFiles DEF UserMovesBack, At
<1>1. DiskWhole'
  BY <1>0 DEF IInv, DiskWhole, Runs
<1>2. CommandKnows'
  BY <1>0 DEF IInv, CommandKnows, Runs
<1>3. CommandPlaces'
  BY <1>0 DEF IInv, CommandPlaces
<1>4. SuccessTrue'
  BY <1>0 DEF IInv, SuccessTrue, Runs
<1> QED
  BY <1>1, <1>2, <1>3, <1>4

LEMMA InitOK == Init => IInv
<1> SUFFICES ASSUME Init PROVE IInv
  OBVIOUS
<1>1. Quiet \in ProcStates
  BY BoundsFacts DEF Quiet, ProcStates, Contents
<1>2. TypeOK
  BY <1>1, BoundsFacts DEF Init, TypeOK, Contents, Infos
<1>3. \A p \in Procs : proc[p].pc = "idle" /\ proc[p].phase = "none" /\ proc[p].result = "none"
  BY DEF Init, Quiet
<1>4. Busy /\ CommandKnows /\ CommandPlaces /\ SuccessTrue
  BY <1>3 DEF Busy, CommandKnows, CommandPlaces, SuccessTrue
<1>5. DiskWhole
  BY DEF Init, DiskWhole, NoInfo
<1> QED
  BY <1>2, <1>4, <1>5 DEF IInv

LEMMA InvStep ==
  ASSUME Alone, IInv, [Next]_vars
  PROVE  IInv'
<1>1. TypeOK' /\ Busy'
  BY TypeStep DEF IInv
<1>2. CASE UNCHANGED vars
  BY <1>1, <1>2 DEF vars, files, IInv, DiskWhole, CommandKnows, CommandPlaces, SuccessTrue, Runs
<1>3. CASE UserMovesBack
  BY <1>1, <1>3, UserSound DEF IInv
<1>4. ASSUME NEW p \in Procs, StartInstall(p) \/ StartRollback(p) \/ Step(p) \/ Kill(p)
      PROVE  IInv'
  <2>1. Sound(p)
    BY Only DEF IInv, Sound
  <2>2. DiskWhole' /\ Knows(p)' /\ Places(p)' /\ Succeeded(p)'
    BY <1>4, <2>1, InstallSound, RollbackSound, PrepareSound, BackupSound, StageSound, AsideSound,
       PromoteSound, RetrySound, UnlinkSound, VerifySound, RecordSound, KillSound DEF Step
  <2> QED
    BY <1>1, <2>2, Only DEF IInv
<1> QED
  BY <1>2, <1>3, <1>4 DEF Next

------------------------------------------------------------------------------
(* The state has its types, with any number of processes at work.               *)
THEOREM TypeCorrect == Spec => []TypeOK
<1>1. Init => TypeOK /\ Busy
  BY InitOK DEF IInv
<1> QED
  BY <1>1, TypeStep, PTL DEF Spec

(* Commands one after the other, each of which may fail or be killed at any       *)
(* step: files, records, and what each command knows of them.                     *)
THEOREM Invariance == ASSUME Alone PROVE Spec => []IInv
<1>1. IInv /\ [Next]_vars => IInv'
  BY InvStep
<1> QED
  BY <1>1, InitOK, PTL DEF Spec

(* A copy that was cut short is never the installed binary.                       *)
THEOREM BinaryWhole == ASSUME Alone PROVE Spec => []NeverTorn
<1>1. IInv => NeverTorn
  BY NoFiles DEF IInv, DiskWhole, NeverTorn
<1> QED
  BY <1>1, Invariance, PTL

(* The version an install started from is never lost.                             *)
THEOREM NothingLost == ASSUME Alone PROVE Spec => []PreviousKept
<1>1. ASSUME IInv PROVE PreviousKept
  <2>1. ASSUME NEW p \in Procs, proc[p].phase \in {"install", "restore"}
        PROVE  \/ proc[p].version \in {target, old, new}
               \/ \E b \in BackupNames : backups[b] = proc[p].version
    <3>1. /\ proc[p].backup \in BackupNames
          /\ target = proc[p].version \/ backups[proc[p].backup] = proc[p].version
      BY <1>1, <2>1 DEF IInv, CommandKnows
    <3> QED
      BY <3>1
  <2> QED
    BY <2>1 DEF PreviousKept
<1> QED
  BY <1>1, Invariance, PTL

(* The record of an update names a backup of the version it names.                *)
THEOREM RollbackRestores == ASSUME Alone PROVE Spec => []RecordsTrue
<1>1. IInv => RecordsTrue
  BY DEF IInv, DiskWhole, RecordsTrue
<1> QED
  BY <1>1, Invariance, PTL

(* What a command reports as done is done.                                        *)
THEOREM ReportsTrue == ASSUME Alone PROVE Spec => []SuccessTrue
<1>1. IInv => SuccessTrue
  BY DEF IInv
<1> QED
  BY <1>1, Invariance, PTL
==============================================================================
