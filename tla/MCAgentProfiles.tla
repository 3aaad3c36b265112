--------------------------- MODULE MCAgentProfiles ---------------------------
(* Small instances of AgentProfiles: one agent of each tier, the profile        *)
(* `default` and one other, at most three commands.                            *)
EXTENDS AgentProfiles

CONSTANTS p1, p2
MCProcs == {p1, p2}

MCProfiles == {"default", "work"}
MCIds == {"mine", "fresh"}

OneEach == <<"claude-code", "cursor">>
MCSymlinkTier == {"cursor"}

Run(op, p, from, S, explicit, force) ==
    [op |-> op, profile |-> p, from |-> from, agents |-> S, explicit |-> explicit,
     force |-> force]
All(op, p) == Run(op, p, None, Agents, FALSE, TRUE)
Just(op, p, S) == Run(op, p, None, S, TRUE, FALSE)

Inits == {All("init", "default"), Just("init", "default", {"cursor"})}
Creates == {All("create", "work"), Run("create", "work", "default", Agents, FALSE, FALSE),
            Run("create", "work", "default", {"cursor"}, TRUE, FALSE)}
Uses == {All("use", p) : p \in MCProfiles}
            \cup {Just("use", "work", {"cursor"}), Run("use", "work", None, Agents, FALSE, FALSE)}
Saves == {All("save", None), Just("save", "work", {"claude-code"})}
Restores == {All("restore", p) : p \in MCProfiles} \cup {Just("restore", "work", {"cursor"})}
Deletes == {All("delete", p) : p \in MCProfiles}

Every == Inits \cup Creates \cup Uses \cup Saves \cup Restores \cup Deletes
Switching == {All("create", "work")} \cup Uses \cup Saves
TwoUses == {All("use", p) : p \in MCProfiles}

\* What is on disk at the start.
NoSnapshots == [p \in MCProfiles |-> [a \in Agents |-> None]]
Solo == [procs |-> {p1}, commands |-> Every, mishaps |-> TRUE]
Virgin(l) == [live |-> l, profiles |-> {}, snap |-> NoSnapshots, registry |-> EmptyRegistry,
              scope |-> Solo]
Mine == [a \in Agents |-> Dir("mine")]

\* Before jarvy: directories, none, or a link of the user's own.
Untouched ==
    {Virgin(Mine), Virgin([Mine EXCEPT !["cursor"] = Absent]),
     Virgin([Mine EXCEPT !["cursor"] = Foreign("mine")])}

\* What `init` leaves of Mine, and what `create work --from default` then does.
Snapshots == [a \in Agents |-> "mine"]
AfterInit ==
    [live |-> [a \in Agents |-> IF a \in MCSymlinkTier THEN Link("default") ELSE Dir("mine")],
     profiles |-> {"default"},
     snap |-> [NoSnapshots EXCEPT !["default"] = Snapshots],
     registry |-> [default |-> "default", active |-> [a \in Agents |-> "default"]],
     scope |-> Solo]
AfterCreate ==
    [AfterInit EXCEPT !.profiles = MCProfiles, !.snap = [p \in MCProfiles |-> Snapshots]]
\* One process that runs any commands, and may be killed; or two at once that
\* switch between profiles; or, for the registry alone, two `use`s at once.
Together(start, commands) ==
    [start EXCEPT !.scope = [procs |-> Procs, commands |-> commands, mishaps |-> FALSE]]
AllStarts ==
    Untouched \cup {AfterCreate}
        \cup {Together(AfterInit, Switching), Together(AfterCreate, Uses \cup Restores)}
JustUses == {Together(AfterCreate, TwoUses)}
==============================================================================
