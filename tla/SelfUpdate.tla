----------------------------- MODULE SelfUpdate -----------------------------
(***************************************************************************)
(* `jarvy update` with the binary installer, and `jarvy update --rollback` *)
(* (update/installer.rs, rollback.rs, commands.rs): the running binary is  *)
(* copied to a backup, the new one is copied beside it and swapped in by   *)
(* two renames, tried with `--version`, replaced by the backup again if it *)
(* does not run, and the update is recorded for a later rollback.  Renames *)
(* may fail (on Windows they are tried again), and a command may be killed *)
(* between any two file operations or within a copy.                       *)
(*                                                                         *)
(* A binary is its version.  Download, checksum, signature and extraction  *)
(* either give the release that was asked for or end the command before it *)
(* has changed anything; they are one step.  Two copies to the same file   *)
(* do not overlap.  Backups are named after the version and the second;    *)
(* here after the version and the command, as no two commands come to the  *)
(* backup within one second.                                               *)
(***************************************************************************)
EXTENDS Integers

CONSTANTS
    Procs,         \* jarvy processes
    Versions,
    Mute,          \* releases whose binary starts, and fails
    Unstartable,   \* releases whose binary cannot be started on this machine
    Absent,        \* no such file
    Partial,       \* a file whose copy was cut short
    Windows,       \* the platforms to check: TRUE is Windows
    Attempts,      \* swap attempts on Windows
    MaxCommands    \* bound: commands started

ASSUME ReleasesTyped == Mute \subseteq Versions /\ Unstartable \subseteq Versions

ASSUME NoFiles == Absent \notin Versions /\ Partial \notin Versions /\ Absent # Partial

ASSUME Bounds == Attempts \in Nat \ {0} /\ MaxCommands \in Nat /\ Windows \subseteq BOOLEAN

VARIABLES
    windows,    \* cfg!(windows)
    target,     \* the installed binary
    old,        \* <target>.old
    new,        \* <target>.new
    backups,    \* ~/.jarvy/backup
    info,       \* rollback-info.json
    commands,   \* commands started so far
    proc        \* what each process does

files == <<target, old, new, backups, info>>
vars == <<windows, files, commands, proc>>

------------------------------------------------------------------------------
Contents == Versions \cup {Absent, Partial}

BackupNames == Versions \X (1..MaxCommands)

Runs(b) == b \in Versions \ (Mute \cup Unstartable)

NoInfo == [state |-> "none"]
Torn == [state |-> "torn"]
Recorded(prev, next, b) == [state |-> "ok", previous |-> prev, next |-> next, backup |-> b]

\* `version` is the running image, `want` the binary to be put in place, `phase`
\* what the swap is for, `result` how the command ended.
Quiet == [pc |-> "idle", phase |-> "none", version |-> Absent, want |-> Absent,
          backup |-> <<>>, attempt |-> 1, result |-> "none"]

Init ==
    /\ windows \in Windows
    /\ target \in {v \in Versions : Runs(v)}
    /\ old = Absent /\ new = Absent
    /\ backups = [b \in BackupNames |-> Absent]
    /\ info = NoInfo
    /\ commands = 0
    /\ proc = [p \in Procs |-> Quiet]

------------------------------------------------------------------------------
At(p, pc) == proc[p].pc = pc

Goto(p, pc) == proc' = [proc EXCEPT ![p].pc = pc]

End(p, result) == proc' = [proc EXCEPT ![p].pc = "idle", ![p].result = result]

\* A command starts only from a binary that runs.
Start(p, phase, pc, want, b) ==
    /\ At(p, "idle") /\ commands < MaxCommands /\ Runs(target)
    /\ commands' = commands + 1
    /\ proc' = [proc EXCEPT ![p] =
         [Quiet EXCEPT !.pc = pc, !.phase = phase, !.version = target, !.want = want, !.backup = b]]
    /\ UNCHANGED <<windows, files>>

\* run_install: another version is available, or was asked for.
StartInstall(p) ==
    \E v \in Versions : Start(p, "install", "prepare", v, <<target, commands + 1>>)

\* run_rollback: the record can be read and its backup is there.
StartRollback(p) ==
    /\ info.state = "ok"
    /\ backups[info.backup] # Absent
    /\ Start(p, "rollback", "stage", backups[info.backup], info.backup)

\* Downloaded, verified and extracted; or not.
Prepare(p) ==
    /\ At(p, "prepare")
    /\ Goto(p, "backup") \/ End(p, "failed")
    /\ UNCHANGED <<windows, files, commands>>

\* Mutant of Backup: none is made of a version that already has one.
BackupOnce(p) ==
    /\ At(p, "backup")
    /\ IF target = Absent
       THEN End(p, "failed") /\ UNCHANGED backups
       ELSE /\ backups' = IF \E b \in BackupNames : b[1] = proc[p].version /\ backups[b] # Absent
                          THEN backups ELSE [backups EXCEPT ![proc[p].backup] = target]
            /\ Goto(p, "stage")
    /\ UNCHANGED <<windows, target, old, new, info, commands>>

\* backup_current
Backup(p) ==
    /\ At(p, "backup")
    /\ IF target = Absent
       THEN End(p, "failed") /\ UNCHANGED backups
       ELSE backups' = [backups EXCEPT ![proc[p].backup] = target] /\ Goto(p, "stage")
    /\ UNCHANGED <<windows, target, old, new, info, commands>>

\* Mutant of StageBeside: a .new that is there is taken for the one to be staged.
StageUnlessThere(p) ==
    /\ At(p, "stage")
    /\ new' = IF new = Absent THEN proc[p].want ELSE new
    /\ Goto(p, "aside")
    /\ UNCHANGED <<windows, target, old, backups, info, commands>>

\* stage_beside
StageBeside(p) ==
    /\ At(p, "stage")
    /\ new' = proc[p].want
    /\ Goto(p, "aside")
    /\ UNCHANGED <<windows, target, old, backups, info, commands>>

------------------------------------------------------------------------------
(* swap_into_place, and the attempts of replace_binary. *)

\* The process gives up: .new is removed and the error returned.
GiveUp(p, result) == new' = Absent /\ End(p, result)

\* rename target -> .old
MoveAside(p) ==
    /\ At(p, "aside")
    /\ target # Absent
    /\ old' = target /\ target' = Absent
    /\ Goto(p, "promote")
    /\ UNCHANGED <<windows, new, backups, info, commands>>

\* Mutant of MayRetry: there is no last attempt.
RetryAlways(p) ==
    /\ windows /\ proc[p].phase = "install"
    /\ target' # Absent

\* Only an install tries again, only on Windows, and not without a target.
MayRetry(p) ==
    /\ windows /\ proc[p].phase = "install"
    /\ proc[p].attempt < Attempts
    /\ target' # Absent

Retry(p) ==
    /\ proc' = [proc EXCEPT ![p].pc = "aside", ![p].attempt = @ + 1]
    /\ UNCHANGED new

\* That rename fails: for want of a target, or because the file is held.
AsideFails(p) ==
    /\ At(p, "aside")
    /\ UNCHANGED target
    /\ IF MayRetry(p) THEN Retry(p) ELSE GiveUp(p, "failed")
    /\ UNCHANGED <<windows, old, backups, info, commands>>

\* rename .new -> target
Promote(p) ==
    /\ At(p, "promote")
    /\ new # Absent
    /\ target' = new /\ new' = Absent
    /\ Goto(p, "unlink")
    /\ UNCHANGED <<windows, old, backups, info, commands>>

PromoteFails(p) ==
    /\ At(p, "promote")
    /\ Goto(p, "putback")
    /\ UNCHANGED <<windows, files, commands>>

\* rename .old -> target
PutBack(p) ==
    /\ At(p, "putback")
    /\ old # Absent
    /\ target' = old /\ old' = Absent
    /\ IF MayRetry(p) THEN Retry(p) ELSE GiveUp(p, "failed")
    /\ UNCHANGED <<windows, backups, info, commands>>

\* That fails too: "the previous binary is at .old and could not be moved back".
Strand(p) ==
    /\ At(p, "putback")
    /\ UNCHANGED target
    /\ IF MayRetry(p) THEN Retry(p) ELSE GiveUp(p, "stranded")
    /\ UNCHANGED <<windows, old, backups, info, commands>>

\* Unix removes .old; the swap is done.
Unlink(p) ==
    /\ At(p, "unlink")
    /\ old' = IF windows THEN old ELSE Absent
    /\ CASE proc[p].phase = "install"  -> Goto(p, "verify")
         [] proc[p].phase = "restore"  -> End(p, "failed")
         [] proc[p].phase = "rollback" -> Goto(p, "clear")
    /\ UNCHANGED <<windows, target, new, backups, info, commands>>

------------------------------------------------------------------------------
\* Mutant of Verify: a binary that starts is good, whatever it answers.
VerifyStartOnly(p) ==
    /\ At(p, "verify")
    /\ IF target \in Versions \ Unstartable THEN Goto(p, "record") ELSE End(p, "failed")
    /\ UNCHANGED <<windows, files, commands>>

\* `<target> --version`: recorded if it runs, put back if it fails; an error on
\* starting it is returned at once.
Verify(p) ==
    /\ At(p, "verify")
    /\ CASE Runs(target) -> Goto(p, "record")
         [] target \in Mute ->
              proc' = [proc EXCEPT ![p].pc = "stage", ![p].phase = "restore",
                                   ![p].want = backups[proc[p].backup]]
         [] OTHER -> End(p, "failed")
    /\ UNCHANGED <<windows, files, commands>>

\* Mutant of Record: the record is that of the version installed now.
RecordSwapped(p) ==
    /\ At(p, "record")
    /\ info' = Recorded(proc[p].want, proc[p].version, proc[p].backup)
    /\ End(p, "ok")
    /\ UNCHANGED <<windows, target, old, new, backups, commands>>

\* RollbackManager::record_update
Record(p) ==
    /\ At(p, "record")
    /\ info' = Recorded(proc[p].version, proc[p].want, proc[p].backup)
    /\ End(p, "ok")
    /\ UNCHANGED <<windows, target, old, new, backups, commands>>

RecordFails(p) ==
    /\ At(p, "record")
    /\ End(p, "failed")
    /\ UNCHANGED <<windows, files, commands>>

\* RollbackInfo::clear, whose failure is ignored; the backup stays.
ClearInfo(p) ==
    /\ At(p, "clear")
    /\ info' \in {NoInfo, info}
    /\ End(p, "ok")
    /\ UNCHANGED <<windows, target, old, new, backups, commands>>

\* A copy or another preparation of the swap fails.
StageFails(p) ==
    /\ proc[p].pc \in {"backup", "stage"}
    /\ End(p, "failed")
    /\ UNCHANGED <<windows, files, commands>>

\* Killed between two steps, or within a copy or the write of the record.
Kill(p) ==
    /\ ~At(p, "idle")
    /\ backups' \in {backups} \cup
         (IF At(p, "backup") THEN {[backups EXCEPT ![proc[p].backup] = Partial]} ELSE {})
    /\ new' \in {new} \cup (IF At(p, "stage") THEN {Partial} ELSE {})
    /\ info' \in {info} \cup (IF At(p, "record") THEN {Torn} ELSE {})
    /\ End(p, "killed")
    /\ UNCHANGED <<windows, target, old, commands>>

\* What the message for a stranded binary asks the user to do.
UserMovesBack ==
    /\ target = Absent /\ old # Absent
    /\ \A p \in Procs : At(p, "idle")
    /\ target' = old /\ old' = Absent
    /\ UNCHANGED <<windows, new, backups, info, commands, proc>>

Step(p) ==
    \/ Prepare(p) \/ Backup(p) \/ StageBeside(p) \/ StageFails(p)
    \/ MoveAside(p) \/ AsideFails(p) \/ Promote(p) \/ PromoteFails(p) \/ PutBack(p) \/ Strand(p)
    \/ Unlink(p) \/ Verify(p) \/ Record(p) \/ RecordFails(p) \/ ClearInfo(p)

Next ==
    \/ \E p \in Procs : StartInstall(p) \/ StartRollback(p) \/ Step(p) \/ Kill(p)
    \/ UserMovesBack

Spec == Init /\ [][Next]_vars

------------------------------------------------------------------------------
(* Properties. *)

ProcStates ==
    [pc : {"idle", "prepare", "backup", "stage", "aside", "promote", "putback", "unlink",
           "verify", "record", "clear"},
     phase : {"none", "install", "restore", "rollback"},
     version : Contents, want : Contents, backup : BackupNames \cup {<<>>},
     attempt : 1..Attempts, result : {"none", "ok", "failed", "stranded", "killed"}]

Infos == {NoInfo, Torn} \cup {Recorded(u, v, b) : u \in Versions, v \in Contents, b \in BackupNames}

\* The state has the types that its comments give it.
TypeOK ==
    /\ windows \in BOOLEAN
    /\ {target, old, new} \subseteq Contents
    /\ backups \in [BackupNames -> Contents]
    /\ info \in Infos
    /\ commands \in 0..MaxCommands
    /\ proc \in [Procs -> ProcStates]

\* Files and records between the commands and while one runs, if it is the only one.
DiskWhole ==
    /\ {target, old} \subseteq Versions \cup {Absent}
    /\ info.state = "ok" =>
         /\ info.backup \in BackupNames /\ info.backup[2] <= commands
         /\ backups[info.backup] = info.previous
         /\ info.previous \in Versions /\ Runs(info.previous)

\* What a command knows of the version it started from and of the one it installs.
CommandKnows ==
    \A p \in Procs :
        LET c == proc[p] IN
        /\ c.pc # "idle" => c.phase # "none" /\ c.result = "none"
        /\ c.phase # "none" =>
             /\ c.version \in Versions /\ Runs(c.version) /\ c.want \in Versions
             /\ c.backup \in BackupNames /\ c.backup[2] <= commands
        /\ c.phase \in {"install", "restore"} =>
             target = c.version \/ backups[c.backup] = c.version
        /\ c.phase = "rollback" => Runs(c.want)

\* Where its files are at each of its steps.
CommandPlaces ==
    \A p \in Procs :
        LET c == proc[p] IN
        /\ c.pc \in {"prepare", "backup"} =>
             /\ c.phase = "install" /\ target = c.version /\ c.backup[2] = commands
             /\ info.state = "ok" => info.backup[2] < commands
        /\ c.pc \notin {"idle", "prepare", "backup"} /\ c.phase \in {"install", "restore"} =>
             backups[c.backup] = c.version
        /\ c.pc \in {"aside", "promote", "putback"} => new = c.want
        /\ c.pc \in {"unlink", "verify", "record", "clear"} => target = c.want
        /\ c.pc \in {"verify", "record"} => c.phase = "install"
        /\ c.pc = "record" => Runs(target)
        /\ c.pc = "clear" => c.phase = "rollback"
        /\ c.result = "ok" => c.phase # "none"

\* The installed binary is always a whole one: a copy that was cut short is never
\* swapped in, not by a later command or a rollback either.
NeverTorn == target # Partial

\* The version from which an install was started is still on the disk, whatever
\* fails and whenever it is killed.
PreviousKept ==
    \A p \in Procs : proc[p].phase \in {"install", "restore"} =>
        \/ proc[p].version \in {target, old, new}
        \/ \E b \in BackupNames : backups[b] = proc[p].version

\* A record of an update names a backup that holds the version it names, so that a
\* rollback restores what it says ("Rolled back to").
RecordsTrue ==
    info.state = "ok" => backups[info.backup] = info.previous

\* After "Successfully updated" the release asked for is installed, runs, and can be
\* rolled back to the version before; after "Rolled back" that version runs again.
SuccessTrue ==
    \A p \in Procs : proc[p].result = "ok" =>
        /\ target = proc[p].want /\ Runs(target)
        /\ proc[p].phase = "install" =>
              info = Recorded(proc[p].version, target, proc[p].backup)

\* installer.rs:141 "Rollback on failure": an update that fails because the new binary
\* does not work leaves one that does, also when that binary cannot even be started.
FailureLeavesRunning ==
    \A p \in Procs : proc[p].result = "failed" /\ target # Absent => Runs(target)
==============================================================================
