---------------------------- MODULE ProjectTools ----------------------------
(***************************************************************************)
(* Which tools a command works with: `jarvy setup` (dispatch.rs, setup_cmd, *)
(* config.rs) and `jarvy drift` and `jarvy doctor`, which read their config *)
(* in the same way up to a point, in a repository that may be a workspace.  *)
(* The command looks for a jarvy.toml, decides which member it is about,    *)
(* makes a file for a member that has none, merges the root's and the       *)
(* user's configs into the one it reads, and resolves the roles.            *)
(*                                                                          *)
(* A tool's specification in a config is known by the file that it is       *)
(* written in.  Only the sections that decide about tools are modelled.     *)
(* Files are read and replaced in one step, but the file made for a member, *)
(* which fs::write truncates before it writes.                              *)
(***************************************************************************)
EXTENDS Roles

CONSTANTS
    Procs,
    Dirs,          \* directories
    Root,          \* the workspace's
    Above,         \* directory -> its parent, or None: as far as jarvy looks
    Origins,       \* files in which a tool's specification may be written
    Plans,         \* the commands that may be run, by which processes, and bounds
    Sites          \* machines: see Site

\* A jarvy.toml, and one whose text is cut or garbled.  No section: None.
Configs ==
    [provisioner : [Tools -> Origins \cup {None}] \cup {None},
     roles : RoleDefs \cup {None},
     role : Seq(Roles) \cup {None}]
EmptyConfig == [provisioner |-> None, roles |-> None, role |-> None]
Sections == {"provisioner", "roles", "role"}
Garbled == [garbled |-> TRUE]

\* --file is None for the default ./jarvy.toml; otherwise the absolute path of the
\* jarvy.toml of a directory.
Commands ==
    [op : {"setup", "inspect"}, cwd : Dirs, file : Dirs \cup {None},
     project : Dirs \cup {None, "current"}, from : BOOLEAN, role : Roles \cup {None}]

Workspaces ==
    [members : SUBSET Dirs,       \* written out in `members`
     globs : SUBSET Dirs,         \* the directories whose `*` is in `members`
     exclude : SUBSET Dirs,
     inherit : SUBSET Sections]   \* effective_inherit

\* A machine: the jarvy.toml of each directory, the root's [workspace] if it has one, the
\* personal overlay and what --from fetches, the root's jarvy.toml after an edit, and the
\* plan, a name for:
Plan == [commands : SUBSET Commands, procs : SUBSET Procs,
         maxCommands : Nat, maxEdits : Nat]      \* bounds on what is run, and on edits
Site ==
    [files : [Dirs -> Configs \cup {None}], workspace : Workspaces \cup {None},
     personal : Configs \cup {None}, remote : Configs, edited : Configs,
     plan : DOMAIN Plans]

\* A directory and those above it.
UpFrom(d) ==
    {e \in Dirs : \A S \in SUBSET Dirs :
        (d \in S /\ \A x \in S : Above[x] \in Dirs => Above[x] \in S) => e \in S}

ASSUME ProjectToolsTyped ==
    /\ Root \in Dirs /\ Above \in [Dirs -> Dirs \cup {None}]
    /\ None \notin Dirs /\ "current" \notin Dirs
    /\ None \notin Origins /\ Roles \subseteq Origins
    /\ None \notin [Tools -> Origins \cup {None}]
    /\ \A name \in DOMAIN Plans : Plans[name] \in Plan
    /\ Sites \subseteq Site

\* They are in a line.
ASSUME DirsInLine ==
    \A d \in Dirs : \A S \in SUBSET UpFrom(d) : S # {} => \E e \in S : S \subseteq UpFrom(e)

VARIABLES
    site,        \* the machine, but for:
    files,       \* its jarvy.toml files
    synth,       \* member -> the file made for it, in ~/.jarvy/cache/synthesized
    proc,        \* process -> what it is doing
    issued,      \* commands run so far
    edits        \* edits of the root's jarvy.toml so far

vars == <<site, files, synth, proc, issued, edits>>

\* The config that a command reads: a directory's, one made for a member, a remote one.
Paths == [kind : {"file", "made"}, dir : Dirs] \cup {[kind |-> "remote", dir |-> None]}
FileOf(d) == [kind |-> "file", dir |-> d]
MadeFor(m) == [kind |-> "made", dir |-> m]
Remote == [kind |-> "remote", dir |-> None]

ProcStates ==
    [pc : {"idle", "search", "project", "make", "truncate", "write", "root", "load", "roles",
           "tools", "done"},
     cmd : Commands \cup {None},
     cwd : Dirs \cup {None},
     path : Paths \cup {None},
     base : Configs \cup {None},           \* the root's config, once it is read
     config : Configs,                     \* what is merged
     names : Seq(Roles),                   \* the roles that are resolved
     res : Resolutions,
     tools : [Tools -> Origins \cup {None}],
     exit : {None, "ok", "config_error", "killed"},
     disturbed : BOOLEAN]                  \* what it read was changed meanwhile (history)

Idle ==
    [pc |-> "idle", cmd |-> None, cwd |-> None, path |-> None, base |-> None,
     config |-> EmptyConfig, names |-> <<>>, res |-> Resolving(<<>>), tools |-> NoTools,
     exit |-> None, disturbed |-> FALSE]

Planned == Plans[site.plan]
At(i, pc) == proc[i].pc = pc
Cmd(i) == proc[i].cmd
Running(i) == ~At(i, "idle")
Defs(i) == proc[i].config.roles
OthersUnchanged == UNCHANGED <<site, issued, edits>>

Fails(i) == [proc[i] EXCEPT !.pc = "idle", !.exit = "config_error"]

------------------------------------------------------------------------------
Init ==
    /\ site \in Sites
    /\ files = site.files
    /\ synth = [m \in Dirs |-> None]
    /\ proc = [i \in Procs |-> Idle]
    /\ issued = 0 /\ edits = 0

Start(i) ==
    /\ i \in Planned.procs
    /\ ~Running(i) /\ issued < Planned.maxCommands
    /\ issued' = issued + 1
    /\ \E c \in Planned.commands :
          proc' = [proc EXCEPT ![i] = [Idle EXCEPT !.pc = "search", !.cmd = c, !.cwd = c.cwd]]
    /\ UNCHANGED <<site, files, synth, edits>>

\* The user saves another version of the root's jarvy.toml.
EditRoot ==
    /\ edits < Planned.maxEdits /\ files[Root] # None
    /\ edits' = edits + 1
    /\ files' = [files EXCEPT ![Root] = site.edited]
    /\ proc' = [i \in Procs |-> [proc[i] EXCEPT !.disturbed = @ \/ Running(i)]]
    /\ UNCHANGED <<site, synth, issued>>

------------------------------------------------------------------------------
\* The nearest directory upwards with a jarvy.toml.
Nearest(d) ==
    LET with == {e \in UpFrom(d) : files[e] # None}
    IN  IF with = {} THEN None ELSE CHOOSE e \in with : with \subseteq UpFrom(e)

\* resolve_project_root_from_cli: without ./jarvy.toml, the command moves up to one.
ParentSearch(i) ==
    /\ At(i, "search")
    /\ LET found == Nearest(proc[i].cwd)
       IN  proc' = [proc EXCEPT ![i] = [@ EXCEPT !.pc = "project",
                        !.cwd = IF Cmd(i).file = None /\ found # None THEN found
                                ELSE proc[i].cwd]]
    /\ UNCHANGED <<files, synth>> /\ OthersUnchanged

HasWorkspace == site.workspace # None /\ files[Root] # None

\* find_workspace_root goes up from the directory of --file, which for the default is
\* the relative path `.`: nothing is above it.
FoundFromFile(i) ==
    HasWorkspace /\ IF Cmd(i).file = None THEN proc[i].cwd = Root ELSE Root \in UpFrom(Cmd(i).file)
FileDir(i) == IF Cmd(i).file = None THEN proc[i].cwd ELSE Cmd(i).file

\* determine_member: `members` as they are written, without globs or `exclude`.
CurrentMember(i) ==
    LET on == {m \in site.workspace.members \ {Root} : m \in UpFrom(FileDir(i))}
    IN  IF Cmd(i).file = None \/ on = {} THEN None ELSE CHOOSE m \in on : TRUE

ResolvedMembers ==
    LET ws == site.workspace
    IN  (ws.members \cup {d \in Dirs : Above[d] \in ws.globs}) \ ws.exclude

\* auto_detect_project, and resolve_workspace_project for --project: the member that
\* the command is scoped to, or None, or that it cannot be resolved.  drift and doctor
\* then read --file.
Unresolved == "unresolved"
Target(i) ==
    LET asked == Cmd(i).project
        current == IF FoundFromFile(i) THEN CurrentMember(i) ELSE None
    IN  CASE asked = "current" -> IF current = None THEN Unresolved ELSE current
          [] asked \in Dirs ->
                IF FoundFromFile(i) /\ asked \in ResolvedMembers THEN asked ELSE Unresolved
          [] OTHER ->
                IF current = None \/ current \in ResolvedMembers THEN current
                ELSE IF Cmd(i).op = "setup" THEN Unresolved ELSE None

\* --from is fetched after the project is resolved, and read in its place.
PathOf(i, path) == IF Cmd(i).from THEN Remote ELSE path

FindProject(i) ==
    /\ At(i, "project")
    /\ LET m == Target(i)
       IN  proc' = [proc EXCEPT ![i] =
              IF m = Unresolved THEN Fails(i)
              ELSE IF m = None THEN [@ EXCEPT !.pc = "root", !.path = PathOf(i, FileOf(FileDir(i)))]
              ELSE IF files[m] # None THEN [@ EXCEPT !.pc = "root", !.path = PathOf(i, FileOf(m))]
              ELSE [@ EXCEPT !.pc = "make", !.path = MadeFor(m)]]
    /\ UNCHANGED <<files, synth>> /\ OthersUnchanged

------------------------------------------------------------------------------
Section(base, over) == IF over = None THEN base ELSE over

\* Mutant of MergeTools: the section is inherited whole or not at all.
MergeToolsWhole(base, over) == Section(base, over)

\* [provisioner] is merged tool by tool.
MergeTools(base, over) ==
    IF base = None \/ over = None THEN Section(base, over)
    ELSE [t \in Tools |-> IF over[t] # None THEN over[t] ELSE base[t]]

\* merge_configs: what `inherit` lists and `over` does not say is taken from `base`.
Merge(base, over, inherit) ==
    [provisioner |-> IF "provisioner" \in inherit THEN MergeTools(base.provisioner, over.provisioner)
                     ELSE over.provisioner,
     roles |-> IF "roles" \in inherit THEN Section(base.roles, over.roles) ELSE over.roles,
     role |-> IF "role" \in inherit THEN Section(base.role, over.role) ELSE over.role]

\* A member without jarvy.toml: read the root's, and write what the member inherits.
ReadForMember(i) ==
    /\ At(i, "make")
    /\ proc' = [proc EXCEPT ![i] = [@ EXCEPT !.pc = "truncate",
                    !.config = Merge(files[Root], EmptyConfig, site.workspace.inherit)]]
    /\ UNCHANGED <<files, synth>> /\ OthersUnchanged

\* Processes that have begun to write the file which i is writing, or are about to read it.
Sharing(i) ==
    {j \in Procs \ {i} : proc[j].path = proc[i].path /\ proc[j].pc \in {"write", "root", "load"}}

Moves(i, r) ==
    proc' = [j \in Procs |->
        IF j = i THEN r ELSE [proc[j] EXCEPT !.disturbed = @ \/ j \in Sharing(i)]]

TruncateMade(i) ==
    /\ At(i, "truncate")
    /\ synth' = [synth EXCEPT ![proc[i].path.dir] = EmptyConfig]
    /\ Moves(i, [proc[i] EXCEPT !.pc = "write"])
    /\ UNCHANGED files /\ OthersUnchanged

\* A shorter text over another process's leaves the end of that.
WriteMade(i) ==
    /\ At(i, "write")
    /\ \E left \in {proc[i].config}
                     \cup (IF synth[proc[i].path.dir] \in {EmptyConfig, proc[i].config} THEN {}
                           ELSE {Garbled}) :
          synth' = [synth EXCEPT ![proc[i].path.dir] = left]
    /\ Moves(i, [proc[i] EXCEPT !.pc = "root", !.path = PathOf(i, @)])
    /\ UNCHANGED files /\ OthersUnchanged

------------------------------------------------------------------------------
\* new_with_workspace looks for the root from where the command is.  drift and doctor
\* read the file alone.
LoadsRoot(i) ==
    /\ Cmd(i).op = "setup" /\ HasWorkspace
    /\ Root \in UpFrom(proc[i].cwd)
    /\ proc[i].path # FileOf(Root)

LoadRoot(i) ==
    /\ At(i, "root")
    /\ proc' = [proc EXCEPT ![i] = [@ EXCEPT !.pc = "load",
                    !.base = IF LoadsRoot(i) THEN files[Root] ELSE None]]
    /\ UNCHANGED <<files, synth>> /\ OthersUnchanged

Content(i) ==
    LET path == proc[i].path
    IN  CASE path.kind = "file" -> files[path.dir]
          [] path.kind = "made" -> synth[path.dir]
          [] OTHER -> site.remote

\* apply_personal_overlay: the project wins.
Personal(config) ==
    IF site.personal = None THEN config ELSE Merge(site.personal, config, Sections)

\* get_tool_configs_with_role_override: --role or the assigned roles.
RoleNames(i, config) ==
    IF Cmd(i).op = "inspect" THEN <<>>
    ELSE IF Cmd(i).role # None THEN <<Cmd(i).role>>
    ELSE IF config.role # None THEN config.role ELSE <<>>

\* A file that cannot be read or parsed, or has no [provisioner] in the end, is an error.
LoadConfig(i) ==
    /\ At(i, "load")
    /\ LET text == Content(i)
           merged == Personal(IF proc[i].base = None THEN text
                              ELSE Merge(proc[i].base, text, site.workspace.inherit))
           names == RoleNames(i, merged)
       IN  proc' = [proc EXCEPT ![i] =
              IF text \in {None, Garbled} \/ merged.provisioner = None THEN Fails(i)
              ELSE [@ EXCEPT !.config = merged, !.names = names, !.res = Resolving(names),
                      !.pc = IF names = <<>> \/ merged.roles = None \/ Defined(merged.roles) = {}
                             THEN "tools" ELSE "roles"]]
    /\ UNCHANGED <<files, synth>> /\ OthersUnchanged

------------------------------------------------------------------------------
Resolves(i, res) ==
    /\ proc' = [proc EXCEPT ![i] = [@ EXCEPT !.res = res,
                    !.pc = IF res.outcome = "resolving" THEN "roles" ELSE "tools"]]
    /\ UNCHANGED <<files, synth>> /\ OthersUnchanged

NextRole(i) ==
    /\ At(i, "roles") /\ proc[i].res.stack = <<>> /\ proc[i].res.todo # <<>>
    /\ Resolves(i, ResolveNext(Defs(i), proc[i].res))

NextParent(i) ==
    /\ At(i, "roles") /\ proc[i].res.stack # <<>>
    /\ ParentsLeft(Defs(i), proc[i].res)
    /\ Resolves(i, ResolveParent(Defs(i), proc[i].res))

RoleReturns(i) ==
    /\ At(i, "roles") /\ proc[i].res.stack # <<>>
    /\ ~ParentsLeft(Defs(i), proc[i].res)
    /\ Resolves(i, Return(Defs(i), proc[i].res))

RolesResolved(i) ==
    /\ At(i, "roles") /\ proc[i].res.stack = <<>> /\ proc[i].res.todo = <<>>
    /\ Resolves(i, AllResolved(proc[i].res))

\* The config's own tools over those of its roles, of which there are none when they
\* do not resolve: the error is dropped.
CollectTools(i) ==
    /\ At(i, "tools")
    /\ LET given == IF proc[i].res.outcome = "ok" THEN proc[i].res.tools ELSE NoTools
       IN  proc' = [proc EXCEPT ![i] = [@ EXCEPT !.pc = "done", !.exit = "ok",
                        !.tools = MergeTools(given, proc[i].config.provisioner)]]
    /\ UNCHANGED <<files, synth>> /\ OthersUnchanged

\* The command goes on to install or compare them, and ends.
Finish(i) ==
    /\ At(i, "done")
    /\ proc' = [proc EXCEPT ![i] = [Idle EXCEPT !.exit = "ok"]]
    /\ UNCHANGED <<files, synth>> /\ OthersUnchanged

Killed(i) ==
    /\ Running(i)
    /\ proc' = [proc EXCEPT ![i] = [Idle EXCEPT !.exit = "killed"]]
    /\ UNCHANGED <<files, synth>> /\ OthersUnchanged

Step(i) ==
    \/ ParentSearch(i) \/ FindProject(i)
    \/ ReadForMember(i) \/ TruncateMade(i) \/ WriteMade(i)
    \/ LoadRoot(i) \/ LoadConfig(i)
    \/ NextRole(i) \/ NextParent(i) \/ RoleReturns(i) \/ RolesResolved(i)
    \/ CollectTools(i) \/ Finish(i)

Next ==
    \/ EditRoot
    \/ \E i \in Procs : Start(i) \/ Step(i) \/ Killed(i)

Spec == Init /\ [][Next]_vars

------------------------------------------------------------------------------
TypeOK ==
    /\ site \in Site
    /\ files \in [Dirs -> Configs \cup {None}]
    /\ synth \in [Dirs -> Configs \cup {None, Garbled}]
    /\ proc \in [Procs -> ProcStates]
    /\ \A i \in Procs : Len(proc[i].res.stack) <= MaxDepth + 1
    /\ issued \in 0..Planned.maxCommands /\ edits \in 0..Planned.maxEdits

Resolved(i) ==
    proc[i].pc \in {"tools", "done"} /\ proc[i].names # <<>> /\ proc[i].config.roles # None

\* Roles that are accepted are given with all their ancestors and exactly the tools of
\* those, and an error is one: no cycle, missing role or line that is too long is accepted
\* or blamed wrongly, over any graph of roles (resolve_internal).
ResolutionExact ==
    \A i \in Procs : Resolved(i) =>
        /\ AcceptedTruly(Defs(i), proc[i].names, proc[i].res)
        /\ RefusedTruly(Defs(i), proc[i].names, proc[i].res)

\* The configs that say what a command works with, nearest first: its own, what a member
\* inherits of the root's, the user's.
Only(config, sections) == [s \in Sections |-> IF s \in sections THEN config[s] ELSE None]
Layers(i) ==
    LET path == proc[i].path
    IN  <<IF path.kind = "made" THEN EmptyConfig ELSE Content(i),
          IF path.kind = "made" \/ LoadsRoot(i) THEN Only(files[Root], site.workspace.inherit)
          ELSE EmptyConfig,
          IF site.personal = None THEN EmptyConfig ELSE site.personal>>

\* The first of some layers, or one past the last.
First(on) == CHOOSE k \in on \cup {4} : \A j \in on : k <= j

\* A command works with what the files say when it runs: a tool is as its nearest layer
\* has it, else as the roles of the nearest layer give it, whatever was left in a
\* member's made file by an earlier command, one that was killed, or another member's.
NearestLayer ==
    \A i \in Procs : (At(i, "done") /\ ~proc[i].disturbed) =>
        LET layers == Layers(i)
            withRoles == First({k \in 1..3 : layers[k].roles # None})
            withRole == First({k \in 1..3 : layers[k].role # None})
            names == IF Cmd(i).op = "inspect" THEN <<>>
                     ELSE IF Cmd(i).role # None THEN <<Cmd(i).role>>
                     ELSE IF withRole = 4 THEN <<>> ELSE layers[withRole].role
        IN  \A t \in Tools :
                LET with == First({k \in 1..3 : /\ layers[k].provisioner # None
                                                /\ layers[k].provisioner[t] # None})
                IN  proc[i].tools[t] =
                        IF with # 4 THEN layers[with].provisioner[t]
                        ELSE IF withRoles = 4 \/ proc[i].res.outcome # "ok" THEN None
                        ELSE Giver(layers[withRoles].roles, names, t)
==============================================================================
