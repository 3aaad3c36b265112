------------------------------- MODULE MCSetup -------------------------------
(* Small instances of Setup, with the installers these tools have on Linux:   *)
(* rust, nextest, bacon and nvm come from installers of their own (nextest    *)
(* and bacon need cargo, which rust provides), git from apt, git-town,        *)
(* kubectx and kubens from Homebrew where it is there, the last two as one    *)
(* package, and Homebrew itself from an installer that jarvy runs.            *)
EXTENDS Setup

PoolTools == {"rust", "nextest", "bacon"}
BrewTools == {"brew", "kubectx", "git_town"}
SystemTools == {"git", "nvm"}
MostTools == PoolTools \cup BrewTools \cup SystemTools
SharedTools == {"brew", "kubectx", "kubens"}

MCManagers == {"apt", "homebrew"}
MCMethod ==
    [t \in Tools |-> CASE t \in PoolTools \cup {"brew", "nvm"} -> Custom
                       [] t = "git" -> "apt"
                       [] OTHER -> "homebrew"]
MCPkg == [t \in Tools |-> IF t = "kubens" THEN "kubectx" ELSE t]

\* apt-get comes with the system and does not change during a run.
MCCommands == {"cargo", "brew"}
MCProvides == [c \in MCCommands |-> Tools \cap IF c = "cargo" THEN {"rust"} ELSE {"brew"}]
MCCheckAsks == [t \in Tools |-> IF t = "brew" THEN {"brew"} ELSE {}]
MCDetects == [t \in Tools |-> IF MCMethod[t] = "homebrew" THEN "brew" ELSE None]
MCRequires == [m \in MCManagers |-> IF m = "homebrew" THEN "brew" ELSE None]
MCPrereq ==
    [t \in Tools |-> CASE t \in {"nextest", "bacon"} -> "cargo"
                       [] MCMethod[t] = "homebrew" -> "brew"
                       [] OTHER -> None]

MCInventory ==
    [os |-> "linux",
     depends_on |-> [t \in Tools |->
        CASE t \in {"nextest", "bacon"} -> {"rust"}
          [] t = "git_town" -> {"git"}
          [] OTHER -> {}],
     depends_on_by_os |-> [t \in Tools |-> {}],
     depends_on_one_of |-> [t \in Tools |-> <<>>]]

\* Custom tools only, a batch that may have to do without its manager, two batches
\* of which one has two packages, and configs with a name jarvy does not know.
PoolOrBatch ==
    {PoolTools, {"brew", "kubectx"}, {"git", "git_town", "kubectx"}, {"nvm", "git"}, {"nvm", "ghost"}, {"ghost"}}
MCMachines == {{}, {"brew"}, {"rust"}, {"brew", "git"}, {"kubectx", "nextest", "nvm"}}

SharedConfig == {{"kubectx", "kubens"}}
JustBrew == {{"brew"}}

NoTools == {}
JustNvm == Tools \cap {"nvm"}
JustRust == Tools \cap {"rust"}

Run(flags, jobs, user_hooks) == [flags |-> flags, jobs |-> jobs, user_hooks |-> user_hooks]

\* Every way a run can differ from another one of the same project.
AllSettings ==
    {Run({}, 1, {"bacon"}),
     Run({}, 2, {"git"}),
     Run({}, 3, {"bacon"}),
     Run({"pre_setup", "post_setup"}, 1, {"git", "kubectx"}),
     Run({"pre_setup", "post_setup", "continue_on_error", "drift"}, 2, {"git"}),
     Run({"drift", "no_hooks"}, 1, {"kubectx"}),
     Run({"drift"}, 1, {"git"}),
     Run({"dry_run", "drift", "pre_setup", "post_setup"}, 1, {"git"}),
     Run({"seamless"}, 1, {}),
     Run({"seamless", "verify_only"}, 1, {"git"}),
     Run({"seamless", "verify_only", "dry_run"}, 1, {})}

OneJob == {Run({}, 1, Tools)}
==============================================================================
