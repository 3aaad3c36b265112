---------------------------- MODULE AgentProfiles ----------------------------
(***************************************************************************)
(* `jarvy agents profile` (agent_profiles/, commands/agents_profile_cmd.rs) *)
(* in several terminals at once: jarvy processes that share, without any    *)
(* lock, the agents' config directories, the profile store and its registry *)
(* profiles.json.  A symlink-tier agent's directory is moved into the store *)
(* and replaced by a link; an env-tier agent's is copied.                   *)
(*                                                                          *)
(* One action is one file-system operation, or one whose parts nobody else  *)
(* can come between: re-pointing a link is one, copying a tree begins and   *)
(* ends, and saving the registry is truncate, write, rename.  `use` is      *)
(* `use --global`: without the flag it changes nothing on disk.             *)
(* What a directory holds is one identity, or Partial: less than one.       *)
(* Copying may fail (disk full, unreadable file), and so may moving a       *)
(* directory: the rename, the copy in its place and the removal of the      *)
(* source; other I/O does not.                                              *)
(***************************************************************************)
EXTENDS Naturals, Sequences

CONSTANTS
    Procs,
    AgentOrder,    \* Agent::ALL
    SymlinkTier,   \* the agents switched by link; the others by env var
    Profiles,      \* profile names
    Default,       \* the profile that init fills
    Ids,           \* identities: credentials and settings of an agent
    Fresh,         \* the one an agent gives itself when it finds none
    Partial,       \* in place of an identity: a directory not completely copied
    Commands,      \* the command lines that may be run
    Starts,        \* what is on disk at the start, and who runs what from there
    MaxCommands,   \* bound on the commands run
    MaxFresh,      \* bound on the directories that agents create
    None

Agents == {AgentOrder[k] : k \in DOMAIN AgentOrder}

\* How a command ends: well, killed, or failing at a stage.
Outcomes == {"ok", "killed", "plan", "agent", "registry_load", "registry_save", "config_error"}

ASSUME AgentsTyped ==
    /\ AgentOrder \in Seq(Agents)
    /\ \A j, k \in DOMAIN AgentOrder : AgentOrder[j] = AgentOrder[k] => j = k
    /\ SymlinkTier \in SUBSET Agents
    /\ Default \in Profiles
    /\ None \notin Profiles \cup Ids \cup {Partial} \cup Outcomes
    /\ Fresh \in Ids /\ Partial \notin Ids
    /\ MaxCommands \in Nat /\ MaxFresh \in Nat

Ops == {"init", "create", "use", "save", "restore", "delete"}

\* A command line: its profile, create's --from, the agents it is about and
\* whether --agents named them, --force.  No profile: save's default.
ASSUME CommandsTyped ==
    \A c \in Commands :
        /\ c \in [op : Ops, profile : Profiles \cup {None}, from : Profiles \cup {None},
                  agents : SUBSET Agents, explicit : BOOLEAN, force : BOOLEAN]
        /\ ~c.explicit => c.agents = Agents
        /\ c.profile = None => c.op = "save"
        /\ c.op = "init" => c.profile = Default

Contents == Ids \cup {Partial}

\* A live config directory: not there, a directory, jarvy's link into the store,
\* or the user's own link, to somewhere else.
Absent == [kind |-> "absent", at |-> None]
Dir(content) == [kind |-> "dir", at |-> content]
Link(p) == [kind |-> "link", at |-> p]
Foreign(content) == [kind |-> "foreign", at |-> content]

Lives ==
    {Absent} \cup {Dir(c) : c \in Contents} \cup {Link(p) : p \in Profiles}
             \cup {Foreign(c) : c \in Contents}

Registries == [default : Profiles \cup {None}, active : [Agents -> Profiles \cup {None}]]
EmptyRegistry == [default |-> None, active |-> [a \in Agents |-> None]]
Torn == [torn |-> TRUE]      \* a file that is not JSON: truncated, or garbled

\* active_profile_from_link
LinkOf(state) == IF state.kind = "link" THEN state.at ELSE None

\* A start is a machine on which jarvy has not run, or on which the commands before
\* have gone well: links lead into the store and the registry says so, and what is
\* not linked has not been moved there yet.
ASSUME StartsAtRest ==
    \A s \in Starts :
        /\ s \in [live : [Agents -> Lives], profiles : SUBSET Profiles,
                  snap : [Profiles -> [Agents -> Contents \cup {None}]], registry : Registries,
                  scope : [procs : SUBSET Procs, commands : SUBSET Commands, mishaps : BOOLEAN]]
        /\ \A p \in Profiles, a \in Agents : s.snap[p][a] # None => p \in s.profiles
        /\ \A a \in SymlinkTier :
              /\ s.registry.active[a] = LinkOf(s.live[a])
              /\ s.live[a].kind = "link" => s.snap[s.live[a].at][a] # None
              /\ s.live[a].kind \in {"dir", "foreign"} => \A p \in Profiles : s.snap[p][a] = None
              /\ s.live[a] \notin {Dir(Partial), Foreign(Partial)}
              /\ \A p \in Profiles : s.snap[p][a] # Partial

VARIABLES
    live,        \* agent -> its config directory
    profiles,    \* the profile directories of the store
    snap,        \* profile -> agent -> its snapshot there, or None
    registry,    \* profiles.json
    tmp,         \* profiles.json.tmp, the one temporary name all processes use
    proc,        \* process -> what it is doing
    scope,       \* the processes and command lines of this start, and its mishaps
    issued,      \* commands run so far
    fresh,       \* directories created by agents so far
    mishaps      \* what has gone wrong so far (history)

disk == <<live, profiles, snap, registry, tmp>>
vars == <<disk, proc, scope, issued, fresh, mishaps>>

------------------------------------------------------------------------------
ProcStates ==
    [pc : {"idle", "start", "agent", "wipe", "move", "relocating", "clear", "clearing",
           "link", "copy", "copying", "check", "remove", "load", "truncate", "write", "rename"},
     cmd : Commands \cup {None},
     todo : SUBSET Agents,        \* the agents it has still to go through
     done : SUBSET Agents,        \* the agents to record in the registry
     blocked : SUBSET Agents,     \* refused by the running-IDE guard
     reg : Registries,            \* the registry this process has loaded
     file : {None, "tmp", "disk"},\* where the file it writes is now
     result : Outcomes \cup {None}]

Idle ==
    [pc |-> "idle", cmd |-> None, todo |-> {}, done |-> {}, blocked |-> {},
     reg |-> EmptyRegistry, file |-> None, result |-> None]

Cmd(i) == proc[i].cmd

\* Every command goes through its agents in the order of Agent::ALL.
First(S) == AgentOrder[CHOOSE k \in DOMAIN AgentOrder :
                          /\ AgentOrder[k] \in S
                          /\ \A j \in DOMAIN AgentOrder : AgentOrder[j] \in S => k <= j]

Agent(i) == First(proc[i].todo)

WithSnapshot(p) == {a \in Agents : snap[p][a] # None}

\* The profile a process works on for its current agent: resolve_active_profile
\* when save names none (the shell has no config-dir variable set).
Target(i) ==
    IF Cmd(i).profile # None THEN Cmd(i).profile
    ELSE IF Agent(i) \notin SymlinkTier THEN proc[i].reg.active[Agent(i)]
    ELSE IF live[Agent(i)].kind = "link" THEN live[Agent(i)].at ELSE None

At(i, pc) == proc[i].pc = pc
Goto(i, pc) == proc' = [proc EXCEPT ![i].pc = pc]

\* Mutant of Advance: the agent is not taken off the list.
AdvanceToSame(i) == Goto(i, "agent")

\* The next agent's turn.
Advance(i) ==
    proc' = [proc EXCEPT ![i].pc = "agent", ![i].todo = @ \ {Agent(i)}]
AdvanceRecording(i) ==
    proc' = [proc EXCEPT ![i].pc = "agent", ![i].todo = @ \ {Agent(i)},
                         ![i].done = @ \cup {Agent(i)}]

\* A command has failed or was killed; a move was left half copied, or with its
\* source half removed.
Mishaps == {"failed", "killed", "half_copied", "half_removed"}

\* What is left half done by a process that ends where it is.
LeftHalf(i) ==
    (IF At(i, "relocating") THEN {"half_copied"} ELSE {})
        \cup (IF At(i, "clearing") THEN {"half_removed"} ELSE {})

Ends(i, result) ==
    /\ proc' = [proc EXCEPT ![i].pc = "idle", ![i].file = None, ![i].result = result]
    /\ mishaps' = mishaps \cup LeftHalf(i) \cup (CASE result = "ok" -> {}
                                                    [] result = "killed" -> {"killed"}
                                                    [] OTHER -> {"failed"})

Quietly == UNCHANGED <<scope, issued, fresh, mishaps>>
NoFiles == UNCHANGED disk

------------------------------------------------------------------------------
Init ==
    /\ \E s \in Starts :
          /\ live = s.live /\ profiles = s.profiles
          /\ snap = s.snap /\ registry = s.registry
          /\ scope = s.scope
    /\ tmp = None
    /\ proc = [i \in Procs |-> Idle]
    /\ issued = 0 /\ fresh = 0
    /\ mishaps = {}

Issue(i, c) ==
    /\ i \in scope.procs /\ c \in scope.commands
    /\ At(i, "idle") /\ issued < MaxCommands
    /\ issued' = issued + 1
    /\ proc' = [proc EXCEPT ![i] = [Idle EXCEPT !.pc = "start", !.cmd = c]]
    /\ NoFiles /\ UNCHANGED <<scope, fresh, mishaps>>

\* An agent that finds no config directory makes itself a new one.
AgentStarts(a) ==
    /\ scope.mishaps /\ fresh < MaxFresh /\ live[a] = Absent
    /\ live' = [live EXCEPT ![a] = Dir(Fresh)]
    /\ fresh' = fresh + 1
    /\ UNCHANGED <<profiles, snap, registry, tmp, proc, scope, issued, mishaps>>

\* A process fails: it prints the error and exits.
Fail(i, stage) == Ends(i, stage) /\ NoFiles /\ UNCHANGED <<scope, issued, fresh>>

------------------------------------------------------------------------------
\* init: the default profile's directory, then the agents one by one.
StartInit(i) ==
    /\ At(i, "start") /\ Cmd(i).op = "init"
    /\ profiles' = profiles \cup {Default}
    /\ proc' = [proc EXCEPT ![i].pc = "agent", ![i].todo = Cmd(i).agents]
    /\ UNCHANGED <<live, snap, registry, tmp>> /\ Quietly

\* use --global: plan_use checks the profile and the snapshots of all targets.
\* restore does the same, agent by agent.
StartUse(i) ==
    /\ At(i, "start") /\ Cmd(i).op \in {"use", "restore"}
    /\ LET p == Cmd(i).profile
           targets == IF Cmd(i).explicit THEN Cmd(i).agents ELSE WithSnapshot(p)
           refused == \/ p \notin profiles
                      \/ Cmd(i).op = "use" /\ (targets = {} \/ ~targets \subseteq WithSnapshot(p))
       IN  IF refused THEN Fail(i, "plan")
           ELSE /\ proc' = [proc EXCEPT
                      ![i].pc = "agent",
                      ![i].todo = IF Cmd(i).op = "use" THEN targets \cap SymlinkTier
                                  ELSE targets,
                      ![i].done = IF Cmd(i).op = "use" THEN targets ELSE {}]
                /\ NoFiles /\ Quietly

StartSave(i) ==
    /\ At(i, "start") /\ Cmd(i).op = "save"
    /\ IF registry = Torn THEN Fail(i, "registry_load")
       ELSE /\ proc' = [proc EXCEPT ![i].pc = "agent", ![i].reg = registry,
                                    ![i].todo = Cmd(i).agents]
            /\ NoFiles /\ Quietly

\* create: refuses an existing profile, then clones --from agent by agent.
StartCreate(i) ==
    /\ At(i, "start") /\ Cmd(i).op = "create"
    /\ IF Cmd(i).profile \in profiles \/ Cmd(i).from \notin profiles \cup {None}
       THEN Fail(i, "plan")
       ELSE /\ profiles' = profiles \cup {Cmd(i).profile}
            /\ proc' = [proc EXCEPT ![i].pc = "agent",
                          ![i].todo = IF Cmd(i).from = None THEN {}
                                      ELSE WithSnapshot(Cmd(i).from)]
            /\ UNCHANGED <<live, snap, registry, tmp>> /\ Quietly

\* delete: the registry is loaded before anything is checked.
StartDelete(i) ==
    /\ At(i, "start") /\ Cmd(i).op = "delete"
    /\ IF Cmd(i).profile \notin profiles THEN Fail(i, "plan")
       ELSE IF registry = Torn THEN Fail(i, "registry_load")
       ELSE /\ proc' = [proc EXCEPT ![i].pc = "check", ![i].reg = registry]
            /\ NoFiles /\ Quietly

------------------------------------------------------------------------------
\* apply_symlink_repoint: any link is replaced atomically, an absent directory
\* becomes a link, a real one is refused, and so is a target that is not there.
Repointable(a, p) == snap[p][a] # None /\ live[a].kind # "dir"

Repoint(i, p) ==
    IF Repointable(Agent(i), p)
    THEN /\ live' = [live EXCEPT ![Agent(i)] = Link(p)]
         /\ AdvanceRecording(i)
         /\ UNCHANGED <<profiles, snap, registry, tmp>> /\ Quietly
    ELSE Fail(i, "agent")

\* The running-IDE guard of use and restore.
SkipRunningIde(i) ==
    /\ At(i, "agent") /\ proc[i].todo # {}
    /\ Cmd(i).op \in {"use", "restore"} /\ ~Cmd(i).force
    /\ Agent(i) \in SymlinkTier
    /\ proc' = [proc EXCEPT ![i].todo = @ \ {Agent(i)}, ![i].blocked = @ \cup {Agent(i)}]
    /\ NoFiles /\ Quietly

SwitchLink(i) ==
    /\ At(i, "agent") /\ proc[i].todo # {}
    /\ Cmd(i).op \in {"use", "restore"}
    /\ Agent(i) \in SymlinkTier
    /\ Repoint(i, Cmd(i).profile)

\* restore, env tier: remove the live directory, then copy the snapshot.
RestoreWipe(i) ==
    /\ At(i, "agent") /\ proc[i].todo # {}
    /\ Cmd(i).op = "restore" /\ Agent(i) \notin SymlinkTier
    /\ IF snap[Cmd(i).profile][Agent(i)] = None \/ live[Agent(i)].kind \in {"link", "foreign"}
       THEN Fail(i, "agent")
       ELSE /\ live' = [live EXCEPT ![Agent(i)] = Absent]
            /\ Goto(i, "copy")
            /\ UNCHANGED <<profiles, snap, registry, tmp>> /\ Quietly

\* Mutant of NothingToSnapshot: what is managed already is moved again.
NothingThere(a) == live[a] = Absent

\* init skips an agent that is not installed, and a managed one.
NothingToSnapshot(a) ==
    live[a] = Absent \/ (a \in SymlinkTier /\ live[a].kind = "link")

\* save and init look at the live directory: nothing to do, refused, or go on.
\* A symlink-tier agent's save writes through its link already.
LookAtLive(i) ==
    /\ At(i, "agent") /\ proc[i].todo # {}
    /\ Cmd(i).op \in {"save", "init"}
    /\ LET a == Agent(i)
           p == Target(i)
       IN  \/ /\ Cmd(i).op = "save"
              /\ IF p = None THEN Advance(i) /\ NoFiles /\ Quietly
                 ELSE IF p \notin profiles THEN Fail(i, "agent")
                 ELSE IF a \in SymlinkTier
                      THEN IF live[a].kind = "link" THEN Advance(i) /\ NoFiles /\ Quietly
                                                    ELSE Fail(i, "agent")
                 ELSE /\ IF live[a] = Absent THEN Advance(i) ELSE Goto(i, "wipe")
                      /\ NoFiles /\ Quietly
           \/ /\ Cmd(i).op = "init"
              /\ IF NothingToSnapshot(a) THEN Advance(i) ELSE Goto(i, "wipe")
              /\ NoFiles /\ Quietly

\* snapshot_agent_at: the profile directory, and remove_existing(dest).
WipeSnapshot(i) ==
    /\ At(i, "wipe")
    /\ profiles' = profiles \cup {Target(i)}
    /\ snap' = [snap EXCEPT ![Target(i)][Agent(i)] = None]
    /\ Goto(i, IF Agent(i) \in SymlinkTier THEN "move" ELSE "copy")
    /\ UNCHANGED <<live, registry, tmp>> /\ Quietly

\* fs::rename(src, dest).  A link is moved as a link: jarvy's own, which only another
\* process can have put there, is a pointer without content.
MoveLive(i) ==
    /\ At(i, "move")
    /\ LET a == Agent(i)
           moved == IF live[a].kind \in {"dir", "foreign"} THEN live[a].at ELSE Partial
       IN  /\ live[a] # Absent /\ snap[Default][a] = None
           /\ profiles' = profiles \cup {Default}
           /\ snap' = [snap EXCEPT ![Default][a] = moved]
           /\ live' = [live EXCEPT ![a] = Absent]
    /\ Goto(i, "link")
    /\ UNCHANGED <<registry, tmp>> /\ Quietly

\* What is read through the config directory, a link followed.
ReadThrough(a) == IF live[a].kind = "link" THEN snap[live[a].at][a] ELSE live[a].at

\* The rename is refused, for whatever reason: move_dir_cross_device copies, which
\* begins with the directories,
RenameRefused(i) ==
    /\ At(i, "move")
    /\ profiles' = profiles \cup {Default}
    /\ snap' = [snap EXCEPT ![Default][Agent(i)] = Partial]
    /\ Goto(i, "relocating")
    /\ UNCHANGED <<live, registry, tmp>> /\ Quietly

\* ends with all that is there,
Relocated(i) ==
    /\ At(i, "relocating") /\ ReadThrough(Agent(i)) # None
    /\ profiles' = profiles \cup {Default}
    /\ snap' = [snap EXCEPT ![Default][Agent(i)] = ReadThrough(Agent(i))]
    /\ Goto(i, "clear")
    /\ UNCHANGED <<live, registry, tmp>> /\ Quietly

\* and removes the source: a link at once, a directory entry by entry.
ClearSource(i) ==
    /\ At(i, "clear") /\ live[Agent(i)] # Absent
    /\ IF live[Agent(i)].kind = "dir"
       THEN live' = [live EXCEPT ![Agent(i)] = Dir(Partial)] /\ Goto(i, "clearing")
       ELSE live' = [live EXCEPT ![Agent(i)] = Absent] /\ Goto(i, "link")
    /\ UNCHANGED <<profiles, snap, registry, tmp>> /\ Quietly

SourceCleared(i) ==
    /\ At(i, "clearing") /\ live[Agent(i)].kind \in {"dir", "absent"}
    /\ live' = [live EXCEPT ![Agent(i)] = Absent]
    /\ Goto(i, "link")
    /\ UNCHANGED <<profiles, snap, registry, tmp>> /\ Quietly

\* A copy that fails stays in the store, and what is not removed stays beside the copy.
MoveFails(i) ==
    /\ At(i, "relocating") \/ At(i, "clear") \/ At(i, "clearing")
    /\ Fail(i, "agent")

LinkBack(i) == At(i, "link") /\ Repoint(i, Default)

------------------------------------------------------------------------------
\* copy_tree: from where, to where.
CopyFrom(i) ==
    CASE Cmd(i).op = "restore" -> snap[Cmd(i).profile][Agent(i)]
      [] Cmd(i).op = "create" -> snap[Cmd(i).from][Agent(i)]
      [] OTHER -> IF live[Agent(i)].kind \in {"dir", "foreign"} THEN live[Agent(i)].at ELSE None

CopyTo(i, content) ==
    IF Cmd(i).op = "restore"
    THEN /\ live' = [live EXCEPT ![Agent(i)] = Dir(content)]
         /\ UNCHANGED <<profiles, snap>>
    ELSE /\ snap' = [snap EXCEPT ![Target(i)][Agent(i)] = content]
         /\ profiles' = profiles \cup {Target(i)}
         /\ UNCHANGED live

RemovesFailedCopy(i) == Cmd(i).op = "create"

\* A failed clone is removed (create); other failed copies are left half way.
CopyFails(i) ==
    /\ At(i, "copy") \/ At(i, "copying")
    /\ IF RemovesFailedCopy(i)
       THEN /\ profiles' = profiles \ {Cmd(i).profile}
            /\ snap' = [snap EXCEPT ![Cmd(i).profile] = [a \in Agents |-> None]]
       ELSE UNCHANGED <<profiles, snap>>
    /\ Ends(i, "agent")
    /\ UNCHANGED <<live, registry, tmp, scope, issued, fresh>>

BeginClone(i) ==
    /\ At(i, "agent") /\ proc[i].todo # {} /\ Cmd(i).op = "create"
    /\ Goto(i, "copy")
    /\ NoFiles /\ Quietly

BeginCopy(i) ==
    /\ At(i, "copy")
    /\ CopyTo(i, Partial)
    /\ Goto(i, "copying")
    /\ UNCHANGED <<registry, tmp>> /\ Quietly

\* The copy of a directory that is itself incomplete is whole, and incomplete.
EndCopy(i) ==
    /\ At(i, "copying") /\ CopyFrom(i) # None
    /\ CopyTo(i, CopyFrom(i))
    /\ AdvanceRecording(i)
    /\ UNCHANGED <<registry, tmp>> /\ Quietly

------------------------------------------------------------------------------
\* All agents done: save ends, create drops what --agents did not name, the
\* others go on to the registry.
AgentsDone(i) ==
    /\ At(i, "agent") /\ proc[i].todo = {}
    /\ CASE Cmd(i).op = "save" -> Ends(i, "ok") /\ NoFiles
         [] Cmd(i).op = "create" ->
              /\ snap' = [snap EXCEPT ![Cmd(i).profile] =
                    [a \in Agents |-> IF Cmd(i).explicit /\ a \notin Cmd(i).agents
                                      THEN None ELSE @[a]]]
              /\ Ends(i, "ok")
              /\ UNCHANGED <<live, profiles, registry, tmp>>
         [] OTHER -> Goto(i, "load") /\ NoFiles /\ UNCHANGED mishaps
    /\ UNCHANGED <<scope, issued, fresh>>

\* Mutant of InUse: the links are not looked at.
InUseByRegistry(i, p) == \E a \in SymlinkTier : proc[i].reg.active[a] = p

\* delete_profile's refusal, while a link or the registry has the profile active.
InUse(i, p) ==
    \E a \in SymlinkTier : live[a] = Link(p) \/ proc[i].reg.active[a] = p

CheckDelete(i) ==
    /\ At(i, "check")
    /\ IF InUse(i, Cmd(i).profile) THEN Fail(i, "agent")
       ELSE Goto(i, "remove") /\ NoFiles /\ Quietly

\* remove_dir_all, one subtree after the other and then the directory.
RemoveSubtree(i, a) ==
    /\ At(i, "remove")
    /\ snap[Cmd(i).profile][a] # None
    /\ snap' = [snap EXCEPT ![Cmd(i).profile][a] = None]
    /\ UNCHANGED <<live, profiles, registry, tmp, proc>> /\ Quietly

PrunedKeys(reg, p) ==
    [reg EXCEPT !.active = [a \in {b \in Agents : reg.active[b] # p} |-> reg.active[a]]]

\* The stale entries of the registry loaded at the start, saved if there are any.
Pruned(reg, p) ==
    [default |-> IF reg.default = p THEN None ELSE reg.default,
     active |-> [a \in Agents |-> IF reg.active[a] = p THEN None ELSE reg.active[a]]]

RemoveProfile(i) ==
    /\ At(i, "remove")
    /\ WithSnapshot(Cmd(i).profile) = {}
    /\ LET p == Cmd(i).profile
           reg == Pruned(proc[i].reg, p)
       IN  IF p \notin profiles THEN Fail(i, "agent")
           ELSE /\ profiles' = profiles \ {p}
                /\ IF reg = proc[i].reg THEN Ends(i, "ok")
                   ELSE /\ proc' = [proc EXCEPT ![i].pc = "truncate", ![i].reg = reg]
                        /\ UNCHANGED mishaps
                /\ UNCHANGED <<live, snap, registry, tmp, scope, issued, fresh>>

------------------------------------------------------------------------------
Linked(a) == LinkOf(live[a])

\* Mutant of ToRecord: the agents skipped by the running-IDE guard, too.
ToRecordAll(i) == proc[i].done

ToRecord(i) == proc[i].done \ proc[i].blocked

\* Mutant of Reconciles: only what this run has snapshotted.
ReconcilesSnapshotted(i, a) ==
    Cmd(i).op = "init" /\ a \in SymlinkTier \cap proc[i].done

Reconciles(i, a) == Cmd(i).op = "init" /\ a \in SymlinkTier

\* What a process records: init also reconciles the symlink tier with its links.
Recorded(i, reg) ==
    LET p == Cmd(i).profile
        claims == CASE Cmd(i).op = "use" -> ~Cmd(i).explicit /\ proc[i].blocked = {}
                    [] Cmd(i).op = "init" -> ~Cmd(i).explicit \/ reg.default = None
                    [] OTHER -> FALSE
    IN  [default |-> IF claims THEN p ELSE reg.default,
         active |-> [a \in Agents |->
            IF Reconciles(i, a) THEN Linked(a)
            ELSE IF a \in ToRecord(i) THEN p ELSE reg.active[a]]]

LoadRegistry(i) ==
    /\ At(i, "load")
    /\ IF registry = Torn THEN Fail(i, "registry_load")
       ELSE /\ proc' = [proc EXCEPT ![i].pc = "truncate", ![i].reg = Recorded(i, registry)]
            /\ NoFiles /\ Quietly

\* write_0600: open and truncate, then write.
TruncateTmp(i) ==
    /\ At(i, "truncate")
    /\ tmp' = Torn
    /\ proc' = [proc EXCEPT ![i].pc = "write", ![i].file = "tmp"]
    /\ UNCHANGED <<live, profiles, snap, registry>> /\ Quietly

\* The write goes to the file that was opened, wherever it has been renamed to.
\* Over what another process has written, a shorter body leaves its tail.
Written(old, new) == IF old \in {Torn, new} THEN {new} ELSE {new, Torn}

WriteTmp(i) ==
    /\ At(i, "write")
    /\ IF proc[i].file = "tmp" THEN tmp' \in Written(tmp, proc[i].reg) ELSE tmp' = tmp
    /\ IF proc[i].file = "disk" THEN registry' \in Written(registry, proc[i].reg)
       ELSE registry' = registry
    /\ Goto(i, "rename")
    /\ UNCHANGED <<live, profiles, snap>> /\ Quietly

\* use switched nothing: every target is a running editor's.
NothingSwitched(i) == Cmd(i).op = "use" /\ proc[i].done = proc[i].blocked

\* fs::rename(tmp, path): open files move along, and the old ones are lost.
RenameTmp(i) ==
    /\ At(i, "rename")
    /\ IF tmp = None THEN Fail(i, "registry_save")
       ELSE /\ registry' = tmp
            /\ tmp' = None
            /\ proc' = [j \in Procs |->
                 IF j = i
                 THEN [proc[i] EXCEPT !.pc = "idle", !.file = None,
                         !.result = IF NothingSwitched(i) THEN "config_error" ELSE "ok"]
                 ELSE [proc[j] EXCEPT !.file = IF @ = "tmp" THEN "disk" ELSE None]]
            /\ UNCHANGED <<live, profiles, snap>> /\ Quietly

Crash(i) ==
    /\ scope.mishaps /\ ~At(i, "idle")
    /\ Fail(i, "killed")

Step(i) ==
    \/ StartInit(i) \/ StartUse(i) \/ StartSave(i) \/ StartCreate(i) \/ StartDelete(i)
    \/ SkipRunningIde(i) \/ SwitchLink(i) \/ RestoreWipe(i) \/ LookAtLive(i)
    \/ WipeSnapshot(i) \/ MoveLive(i) \/ LinkBack(i)
    \/ RenameRefused(i) \/ Relocated(i) \/ ClearSource(i) \/ SourceCleared(i) \/ MoveFails(i)
    \/ BeginClone(i) \/ BeginCopy(i) \/ EndCopy(i) \/ CopyFails(i) \/ AgentsDone(i)
    \/ CheckDelete(i) \/ (\E a \in Agents : RemoveSubtree(i, a)) \/ RemoveProfile(i)
    \/ LoadRegistry(i) \/ TruncateTmp(i) \/ WriteTmp(i) \/ RenameTmp(i)

Next ==
    \/ \E i \in Procs : Step(i) \/ Crash(i) \/ \E c \in Commands : Issue(i, c)
    \/ \E a \in Agents : AgentStarts(a)

\* Every started command keeps being scheduled.
Spec == Init /\ [][Next]_vars /\ \A i \in Procs : WF_vars(Step(i))

------------------------------------------------------------------------------
\* The types of the state: in particular every registry on its way to the disk has
\* an entry, or none, for every agent.
TypeOK ==
    /\ live \in [Agents -> Lives]
    /\ profiles \in SUBSET Profiles
    /\ snap \in [Profiles -> [Agents -> Contents \cup {None}]]
    /\ registry \in Registries \cup {Torn}
    /\ tmp \in Registries \cup {Torn, None}
    /\ proc \in [Procs -> ProcStates]
    /\ issued \in 0..MaxCommands
    /\ fresh \in 0..MaxFresh
    /\ mishaps \subseteq Mishaps
    /\ scope \in [procs : SUBSET Procs, commands : SUBSET Commands, mishaps : BOOLEAN]

AllIdle == \A i \in Procs : At(i, "idle")

\* Only one process runs commands, one after the other.
OneAtATime == \A i, j \in scope.procs : i = j

\* Between commands that all went well, the registry says of each symlink-tier
\* agent what its link says, although the two are written one after the other, by
\* every command in its own way (docs/agent-profiles.md:115 "symlink-tier agents
\* are re-pointed atomically, the registry records the active profile per agent").
RegistryMatchesLinks ==
    (OneAtATime /\ AllIdle /\ mishaps = {}) => \A a \in SymlinkTier : registry.active[a] = Linked(a)

\* Whatever earlier commands left half done, an init that succeeds brings the
\* registry and the links together again (agents_profile_cmd.rs:86-105).
InitReconciles ==
    [][\A i \in Procs :
          (OneAtATime /\ ~At(i, "idle") /\ Cmd(i).op = "init" /\ proc'[i].result = "ok") =>
              /\ registry'.default # None
              /\ \A a \in SymlinkTier : registry'.active[a] = Linked(a)']_vars

\* A link of jarvy's leads to a snapshot, whichever command finishes, fails or is
\* killed half way.  As long as none was killed and no move has stopped half way, it
\* is one that was completely copied: a clone that failed (store.rs:378-384) and a
\* snapshot that is only being relocated (687-710) are never linked to.
LinksLeadToWholeTrees ==
    \A a \in SymlinkTier : live[a].kind = "link" =>
        /\ snap[live[a].at][a] # None
        /\ (OneAtATime /\ AllIdle /\ mishaps \subseteq {"failed"}) => snap[live[a].at][a] # Partial

\* Where the identity id of agent a is still to be found.
Held(a, id) == live[a] = Dir(id) \/ \E p \in Profiles : snap[p][a] = id

\* Moving a config directory into the store by rename or by copy, linking back, and
\* doing it again after a failure or a kill, by init, create or use, never loses the
\* only copy of a symlink-tier agent's identity, as long as the agent makes itself no
\* new one and no removal of a source has stopped half way: the next init then
\* removes the whole copy for what is left of the source (store.rs:273, 698).  The
\* copy of what a link of the user's own leads to may go: it is still there.
IdentitiesKept ==
    [][\A i \in Procs :
          (/\ OneAtATime /\ fresh = 0 /\ "half_removed" \notin mishaps
           /\ ~At(i, "idle") /\ Cmd(i).op \in {"init", "create", "use"}) =>
              \A a \in SymlinkTier, id \in Ids :
                  Held(a, id) => Held(a, id)' \/ live[a] = Foreign(id)]_vars

\* Every command ends, whatever the others do to the files it works on.
CommandEnds == \A i \in Procs : ~At(i, "idle") ~> At(i, "idle")

\* mod.rs:149 "Persist the registry atomically via write-to-temp + rename": what
\* profiles.json holds is at any time a complete document.
RegistryIsWhole == registry # Torn

------------------------------------------------------------------------------
(* What makes them inductive. *)

Moving == {"move", "relocating", "clear", "clearing", "link"}

\* A command is one of this start, and where it is says which one it can be and what
\* it works on.
InStep ==
    \A i \in Procs : ~At(i, "idle") =>
        /\ i \in scope.procs /\ Cmd(i) \in scope.commands /\ proc[i].result = None
        /\ Cmd(i).op \in CASE At(i, "start") -> Ops
                          [] At(i, "agent") -> Ops \ {"delete"}
                          [] At(i, "wipe") -> {"init", "save"}
                          [] proc[i].pc \in Moving -> {"init"}
                          [] At(i, "copy") \/ At(i, "copying") -> {"init", "save", "create", "restore"}
                          [] At(i, "check") \/ At(i, "remove") -> {"delete"}
                          [] At(i, "load") -> {"init", "use", "restore"}
                          [] OTHER -> {"init", "use", "restore", "delete"}
        /\ proc[i].pc \in {"wipe", "copy", "copying"} \cup Moving =>
              /\ proc[i].todo # {} /\ Target(i) # None
              /\ Cmd(i).op \in {"save", "restore"} => Agent(i) \notin SymlinkTier
              /\ Cmd(i).op = "init" /\ ~At(i, "wipe") =>
                    (Agent(i) \in SymlinkTier <=> proc[i].pc \in Moving)
        /\ At(i, "load") => proc[i].todo = {}
        /\ Cmd(i).op = "create" /\ Cmd(i).from = None => proc[i].todo = {}

SnapshotsInProfiles ==
    \A p \in Profiles, a \in Agents : snap[p][a] # None => p \in profiles

\* Commands that take nothing away: they may run beside others.
Harmless(c) ==
    \/ c.op \in {"use", "save", "restore"}
    \/ c.op = "create" /\ c.from = None /\ ~c.explicit

\* A command that takes something away is run by the only process.
Apart == OneAtATime \/ \A c \in scope.commands : Harmless(c)

LinksLead ==
    Apart => \A a \in SymlinkTier : live[a].kind = "link" => snap[live[a].at][a] # None

\* What init is about to move is there, and so is the copy before it is removed.
SourceThere ==
    \A i \in Procs :
        /\ proc[i].pc \in {"wipe", "move", "relocating", "clear"} /\ Agent(i) \in SymlinkTier =>
              live[Agent(i)].kind \in {"dir", "foreign"}
        /\ At(i, "clear") => snap[Default][Agent(i)] = live[Agent(i)].at
        /\ At(i, "clearing") => live[Agent(i)] = Dir(Partial)
        /\ proc[i].pc \in {"clearing", "link"} => snap[Default][Agent(i)] # None

\* A profile that is being created is nobody's, and has nothing of its own.
CloneApart ==
    \A i \in Procs : proc[i].pc \in {"agent", "copy", "copying"} /\ Cmd(i).op = "create" =>
        LET p == Cmd(i).profile
            f == Cmd(i).from
        IN  /\ \A a \in SymlinkTier : live[a] # Link(p)
            /\ f # None => f # p /\ proc[i].todo \subseteq WithSnapshot(f)
            /\ \A a \in Agents : snap[p][a] # None =>
                  f # None /\ snap[p][a] \in {Partial, snap[f][a]}

\* A profile that is being deleted is nobody's any more.
DeletedApart ==
    \A i \in Procs : proc[i].pc \in {"check", "remove"} =>
        /\ proc[i].reg = registry
        /\ At(i, "remove") => \A a \in SymlinkTier :
              live[a] # Link(Cmd(i).profile) /\ registry.active[a] # Cmd(i).profile

\* A process is at pc with agent a.
Handles(i, a, pc) == At(i, pc) /\ Agent(i) = a

\* Only what is being copied or removed is not whole.
Whole ==
    mishaps \subseteq {"failed"} => \A a \in SymlinkTier :
        /\ live[a] \in {Dir(Partial), Foreign(Partial)} => \E i \in Procs : Handles(i, a, "clearing")
        /\ \A p \in Profiles : snap[p][a] = Partial =>
              \E i \in Procs :
                  \/ Handles(i, a, "copying") /\ Cmd(i).op = "create" /\ Cmd(i).profile = p
                  \/ Handles(i, a, "relocating") /\ p = Default

\* What a process writes is what it then renames.
SavesWhole ==
    /\ registry # Torn
    /\ \A i \in Procs :
          /\ proc[i].pc \in {"write", "rename"} => proc[i].file = "tmp"
          /\ At(i, "write") => tmp = Torn
          /\ At(i, "rename") => tmp = proc[i].reg

Matches(reg) == \A a \in SymlinkTier : reg.active[a] = Linked(a)

Saving(i) == proc[i].pc \in {"truncate", "write", "rename"}

\* Links and registry agree between commands, and during one for the agents that it
\* has not switched; what is about to be saved agrees with the links.
Reconciled ==
    /\ mishaps = {} /\ AllIdle => Matches(registry)
    /\ \A i \in Procs : ~At(i, "idle") =>
          IF Saving(i)
          THEN /\ mishaps = {} \/ Cmd(i).op = "init" => Matches(proc[i].reg)
               /\ Cmd(i).op = "init" => proc[i].reg.default # None
          ELSE IF At(i, "start") \/ Cmd(i).op \in {"create", "save", "delete"}
          THEN /\ At(i, "start") => proc[i].blocked = {}
               /\ mishaps = {} => Matches(registry)
          ELSE Cmd(i).op \in {"use", "restore"} =>
               /\ proc[i].blocked \cap proc[i].todo = {}
               /\ mishaps = {} => \A a \in SymlinkTier :
                     IF a \in ToRecord(i) \ proc[i].todo THEN live[a] = Link(Cmd(i).profile)
                                                         ELSE registry.active[a] = Linked(a)

\* Of an agent whose directory was not made anew and is where it was, the store has
\* nothing else.
NotYetMoved ==
    (fresh = 0 /\ "half_removed" \notin mishaps) =>
        \A a \in SymlinkTier : live[a].kind \in {"dir", "foreign"} =>
            \/ \E i \in Procs : Handles(i, a, "clearing")
            \/ \A p \in Profiles : snap[p][a] \in {None, Partial, live[a].at}

\* All of this, as far as one process is alone.
Alone ==
    OneAtATime =>
        SourceThere /\ CloneApart /\ DeletedApart /\ Whole /\ SavesWhole /\ Reconciled /\ NotYetMoved

==============================================================================
