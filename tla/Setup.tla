-------------------------------- MODULE Setup --------------------------------
(***************************************************************************)
(* `jarvy setup` (commands/setup_cmd.rs, run_setup): one process checks     *)
(* which configured tools are missing, installs them (a batch per package   *)
(* manager, then the custom installers on a worker pool), runs the hooks of *)
(* what it installed and records a drift baseline.  It may be killed at any *)
(* point and started again: what is installed, the baseline and the         *)
(* first-run marker survive, everything else starts afresh.                 *)
(*                                                                          *)
(* External commands (package managers, installers, hooks) succeed or fail  *)
(* as they please.  A tool is either absent or present at a version that    *)
(* satisfies the config.  Every answer of has() is remembered until the     *)
(* process ends, whoever asked: the check of the versions, the grouping,    *)
(* a batch or an installer.  The phases that belong to other components     *)
(* (packages, git, AI hooks, MCP registration, env, services, dotfiles,     *)
(* Windows) report their failures and never end a run: they are left out.   *)
(***************************************************************************)
EXTENDS ToolDeps

CONSTANTS
    Tools,          \* the tools of the compiled-in registry
    Inventory,      \* their declared dependencies (ToolDeps)
    Managers,       \* the package managers
    Custom,         \* in place of a manager: the tool has its own installer
    Method,         \* tool -> its manager, or Custom
    Pkg,            \* tool -> its package under that manager
    Commands,       \* the commands jarvy asks for with has() and a tool may bring
    CheckAsks,      \* tool -> the commands its version check asks for
    Detects,        \* tool -> the command that must be there for it to be grouped
                    \* under its manager, or None
    Requires,       \* manager -> the command a batch of it requires, or None
    Prereq,         \* tool -> the command its installer requires, or None
    Provides,       \* command -> the tools that put it on PATH
    Markers,        \* the tools known by a file and not by a binary: nvm
    DefaultHooks,   \* the tools that ship a default hook
    PlatformTools,  \* what the platform setup may install on its own
    Machines,       \* the sets of tools a machine may have at first
    Configs,        \* the sets of names that may be configured
    Settings,       \* the flags and settings a run may have
    MaxRuns,        \* bound on the runs started, killed ones included
    None

Flags == {"dry_run", "no_hooks", "continue_on_error", "seamless", "verify_only",
          "drift", "pre_setup", "post_setup"}

\* error_codes.rs, and how a killed process ends
ExitCodes == {"EXIT_SUCCESS", "HOOK_FAILED", "PREREQ_MISSING", "TOOL_UNSUPPORTED", "killed"}

ASSUME RegistryTyped ==
    /\ IsFiniteSet(Tools) /\ None \notin Tools \cup Managers \cup Commands \cup ExitCodes
    /\ Custom \notin Managers
    /\ Method \in [Tools -> Managers \cup {Custom}]
    /\ DOMAIN Pkg = Tools
    /\ CheckAsks \in [Tools -> SUBSET Commands]
    /\ Detects \in [Tools -> Commands \cup {None}]
    /\ Requires \in [Managers -> Commands \cup {None}]
    /\ Prereq \in [Tools -> Commands \cup {None}]
    /\ Provides \in [Commands -> SUBSET Tools]
    /\ DefaultHooks \in SUBSET Tools
    /\ PlatformTools \in SUBSET Tools /\ Markers \in SUBSET Tools
    /\ Machines \subseteq SUBSET Tools

\* A verify-only machine is a detected sandbox, and a sandbox is seamless.
ASSUME SettingsTyped ==
    /\ \A s \in Settings :
          /\ s \in [flags : SUBSET Flags, jobs : Nat \ {0}, user_hooks : SUBSET Tools]
          /\ "verify_only" \in s.flags => "seamless" \in s.flags
    /\ MaxRuns \in Nat

VARIABLES
    \* the machine and the project directory
    installed,   \* the tools present at a satisfying version
    baseline,    \* .jarvy/state.json: absent (None), or who wrote it and what
    initialized, \* the first-run marker exists
    \* the configuration, and the run in progress or just ended
    config,      \* the names in the [provisioner] table
    runs,        \* runs started so far
    pc,          \* the phase of the run; "idle" between runs
    opts,        \* its settings
    needs,       \* needs_install, in the order it is to be installed
    method,      \* tool -> the manager it is grouped under, or Custom
    groups,      \* managers whose batch has not been installed yet
    retry,       \* packages of a failed batch still to be tried one by one
    manager,     \* the manager being retried
    worker,      \* tool -> where its custom installation is
    has_cache,   \* command -> what has() remembers of it
    successes,   \* successfully_installed
    next_hook,   \* index in successes of the next tool whose hook is due
    exit,        \* exit code of the last run that ended
    \* what an observer sees of the run
    attempted,   \* tools an installation was started for
    hooked       \* tools whose hook ran, in order

host == <<installed, baseline, initialized>>
plan == <<needs, method, config, opts, runs>>
batch == <<groups, retry, manager>>
pool == <<worker, has_cache>>
hooks == <<next_hook, hooked>>
vars == <<host, plan, pc, batch, pool, successes, hooks, exit, attempted>>

------------------------------------------------------------------------------
On(flag) == flag \in opts.flags

unknown == config \ Tools

Group(m) == Kept(needs, {t \in Tools : method[t] = m})

\* What a successful `install p` of manager m leaves behind.
Delivered(m, p) == {t \in Tools : Method[t] = m /\ Pkg[t] = p}

\* The tool a reported package is taken for: the first of the batch that has it.
CreditedTool(m, p) ==
    LET g == Group(m)
        i == CHOOSE k \in DOMAIN g :
                Pkg[g[k]] = p /\ \A j \in 1..(k - 1) : Pkg[g[j]] # p
    IN  g[i]

\* A tool's hook: the user's post_install, or else the tool's default hook.
HasHook(t) == t \in opts.user_hooks \cup DefaultHooks

\* Threads of the pool: never more than there are custom tools.
Workers == IF opts.jobs < Len(Group(Custom)) THEN opts.jobs ELSE Len(Group(Custom))

\* Mutant of Finished: the tools that were turned away are forgotten.
FinishedInstalling == {"ok", "failed"}

Busy == {"started", "absent", "found", "installing"}
Finished == {"ok", "failed", "refused"}

OnPath(cmd) == Provides[cmd] \cap installed # {}

\* has(), asked while nothing else runs: the remembered answer, or what is there.
Answer(cmd) == has_cache[cmd] = "yes" \/ (has_cache[cmd] = "unset" /\ OnPath(cmd))

\* ... and what it remembers once it was asked for the commands S.
Asked(S) ==
    [c \in Commands |-> IF c \notin S THEN has_cache[c]
                       ELSE IF Answer(c) THEN "yes" ELSE "no"]

\* What the check of the versions asks for, and the grouping of the tools S: a
\* tool known to jarvy only by name is looked for with has(), Linuxbrew, winget
\* and Chocolatey are used where they are.
CheckAsked == UNION {CheckAsks[t] : t \in config \cap Tools}
GroupAsked(S) == {Detects[t] : t \in S} \ {None}

\* return code
Exit(code) == pc' = "idle" /\ exit' = code

------------------------------------------------------------------------------
Init ==
    /\ installed \in Machines
    /\ baseline = None
    /\ initialized = FALSE
    /\ config \in Configs
    /\ runs = 0
    /\ pc = "idle"
    /\ opts \in Settings
    /\ needs = <<>>
    /\ method = Method
    /\ groups = {}
    /\ retry = <<>>
    /\ manager = None
    /\ worker = [t \in Tools |-> "waiting"]
    /\ has_cache = [c \in Commands |-> "unset"]
    /\ successes = <<>>
    /\ next_hook = 1
    /\ exit = None
    /\ attempted = {}
    /\ hooked = <<>>

\* A new process: empty caches, its own settings.
Begin(s) ==
    /\ pc = "idle"
    /\ runs < MaxRuns
    /\ runs' = runs + 1
    /\ opts' = s
    /\ pc' = "pre_setup"
    /\ needs' = <<>> /\ method' = Method /\ groups' = {} /\ retry' = <<>> /\ manager' = None
    /\ worker' = [t \in Tools |-> "waiting"]
    /\ has_cache' = [c \in Commands |-> "unset"]
    /\ successes' = <<>> /\ next_hook' = 1 /\ hooked' = <<>>
    /\ exit' = None /\ attempted' = {}
    /\ UNCHANGED <<host, config>>

\* run_with_policy: a failing hook ends the run unless errors are tolerated.
GlobalHookFails(kind) ==
    On(kind) /\ ~On("no_hooks") /\ ~On("dry_run") /\ ~On("continue_on_error")

\* What setup() may put on the machine.
PlatformInstalls == IF On("dry_run") THEN {{}} ELSE SUBSET PlatformTools

PreSetupFails ==
    /\ pc = "pre_setup"
    /\ GlobalHookFails("pre_setup")
    /\ Exit("HOOK_FAILED")
    /\ UNCHANGED <<host, plan, batch, pool, successes, hooks, attempted>>

\* pre_setup done; then setup(), which installs what the platform itself needs.
PreSetup ==
    /\ pc = "pre_setup"
    /\ pc' = "check"
    /\ \E S \in PlatformInstalls : installed' = installed \cup S
    /\ UNCHANGED <<baseline, initialized, plan, batch, pool, successes, hooks,
                   exit, attempted>>

------------------------------------------------------------------------------
\* check_tools_parallel: what is configured, known and not there.
Missing == (config \cap Tools) \ installed

VerifyOnly == On("verify_only") /\ ~On("dry_run")

\* What capture_drift_baseline records: the known configured tools whose binary
\* which::which finds, and nothing of a tool that has none.
Found == (config \cap installed) \ Markers

\* capture_drift_baseline; its save may fail, which is only reported.
CaptureBaseline == baseline' \in {baseline, [by_drift |-> On("drift"), tools |-> Found]}

\* A sandbox that cannot install anything only reports.
VerifyOnlyPasses ==
    /\ pc = "check" /\ VerifyOnly
    /\ Missing = {} /\ unknown = {}
    /\ IF baseline = None
       THEN baseline' \in {None, [by_drift |-> FALSE, tools |-> Found]}
       ELSE UNCHANGED baseline
    /\ has_cache' = Asked(CheckAsked)
    /\ Exit("EXIT_SUCCESS")
    /\ UNCHANGED <<installed, initialized, plan, batch, worker, successes, hooks, attempted>>

VerifyOnlyRefuses ==
    /\ pc = "check" /\ VerifyOnly
    /\ Missing \cup unknown # {}
    /\ has_cache' = Asked(CheckAsked)
    /\ Exit("PREREQ_MISSING")
    /\ UNCHANGED <<host, plan, batch, worker, successes, hooks, attempted>>

\* Nothing that is configured is known.
AllUnknown == unknown # {} /\ config \cap Tools = {}

RefuseUnknown ==
    /\ pc = "check" /\ ~VerifyOnly
    /\ AllUnknown
    /\ has_cache' = Asked(CheckAsked)
    /\ Exit("TOOL_UNSUPPORTED")
    /\ UNCHANGED <<host, plan, batch, worker, successes, hooks, attempted>>

\* Mutant of ManagersOf: the custom installers are taken for a manager.
MethodsOf(way, S) == {way[t] : t \in S}

\* by_package_manager: the managers that have a batch.
ManagersOf(way, S) == {way[t] : t \in S} \ {Custom}

\* get_tool_install_info: without the command of its manager a tool is left to
\* its own installer.
Grouped ==
    [t \in Tools |-> IF /\ t \in Missing /\ Detects[t] # None
                        /\ ~Answer(Detects[t])
                     THEN Custom ELSE Method[t]]

\* Order the missing tools and group them; a dry run then only prints.
Plan ==
    /\ pc = "check" /\ ~VerifyOnly
    /\ ~AllUnknown
    /\ needs' \in Plans(Inventory, Missing)
    /\ method' = Grouped
    /\ groups' = ManagersOf(Grouped, Missing)
    /\ has_cache' = Asked(CheckAsked \cup GroupAsked(Missing))
    /\ pc' = IF On("dry_run") THEN "post_setup" ELSE "batches"
    /\ UNCHANGED <<host, config, opts, runs, retry, manager, worker, successes, hooks,
                   exit, attempted>>

------------------------------------------------------------------------------
\* batch_install: one command for the whole batch; by_package_manager is a
\* HashMap, so the managers come in any order.  Each requires its command first.
StartBatch(m) ==
    /\ pc = "batches" /\ m \in groups
    /\ groups' = groups \ {m}
    /\ has_cache' = Asked({Requires[m]})
    /\ attempted' = attempted \cup Names(Group(m))

CanRun(m) == Requires[m] # None => Answer(Requires[m])

BatchSucceeds(m) ==
    /\ StartBatch(m) /\ CanRun(m)
    /\ installed' = installed \cup UNION {Delivered(m, Pkg[t]) : t \in Names(Group(m))}
    /\ successes' = successes \o
          [i \in DOMAIN Group(m) |-> CreditedTool(m, Pkg[Group(m)[i]])]
    /\ UNCHANGED <<baseline, initialized, plan, pc, retry, manager, worker, hooks, exit>>

\* A single package: its failure is the result.
SingleFails(m) ==
    /\ StartBatch(m)
    /\ Len(Group(m)) = 1
    /\ UNCHANGED <<host, plan, pc, retry, manager, worker, successes, hooks, exit>>

\* The command failed, possibly after some of its packages: retry each.
BatchFails(m) ==
    /\ StartBatch(m)
    /\ Len(Group(m)) > 1
    /\ \E S \in IF CanRun(m) THEN SUBSET Names(Group(m)) ELSE {{}} :
          installed' = installed \cup UNION {Delivered(m, Pkg[t]) : t \in S}
    /\ retry' = [i \in DOMAIN Group(m) |-> Pkg[Group(m)[i]]]
    /\ manager' = m
    /\ pc' = "retry"
    /\ UNCHANGED <<baseline, initialized, plan, worker, successes, hooks, exit>>

RetryPackage ==
    /\ pc = "retry"
    /\ retry' = Tail(retry)
    /\ pc' = IF Len(retry) = 1 THEN "batches" ELSE "retry"
    /\ \/ /\ CanRun(manager)
          /\ installed' = installed \cup Delivered(manager, Head(retry))
          /\ successes' = Append(successes, CreditedTool(manager, Head(retry)))
       \/ UNCHANGED <<installed, successes>>
    /\ UNCHANGED <<baseline, initialized, plan, groups, manager, pool, hooks, exit, attempted>>

BatchesDone ==
    /\ pc = "batches" /\ groups = {}
    /\ pc' = "custom"
    /\ UNCHANGED <<host, plan, batch, pool, successes, hooks, exit, attempted>>

------------------------------------------------------------------------------
\* Mutant of MayStart: one thread takes them in any order, too.
MayStartAny(t) ==
    /\ t \in Names(Group(Custom)) /\ worker[t] = "waiting"
    /\ Cardinality({u \in Tools : worker[u] \in Busy}) < Workers

\* The pool hands out the custom tools in any order; one thread takes them in
\* the order of the plan (--sequential, --jobs 1).
MayStart(t) ==
    LET g == Group(Custom)
    IN  /\ t \in Names(g) /\ worker[t] = "waiting"
        /\ Cardinality({u \in Tools : worker[u] \in Busy}) < Workers
        /\ Workers = 1 =>
              \E i \in DOMAIN g : g[i] = t /\ \A j \in 1..(i - 1) : worker[g[j]] \in Finished

\* tools::add, up to the installer's prerequisite check: has() answers from its
\* cache, or has to look.
StartCustom(t) ==
    /\ pc = "custom"
    /\ MayStart(t)
    /\ attempted' = attempted \cup {t}
    /\ worker' = [worker EXCEPT ![t] =
                    IF Prereq[t] = None THEN "installing"
                    ELSE CASE has_cache[Prereq[t]] = "yes" -> "installing"
                           [] has_cache[Prereq[t]] = "no" -> "refused"
                           [] OTHER -> "started"]
    /\ UNCHANGED <<host, plan, pc, batch, has_cache, successes, hooks, exit>>

\* has_uncached: spawn the command.
Probe(t) ==
    /\ pc = "custom" /\ worker[t] = "started"
    /\ worker' = [worker EXCEPT ![t] = IF OnPath(Prereq[t]) THEN "found" ELSE "absent"]
    /\ UNCHANGED <<host, plan, pc, batch, has_cache, successes, hooks, exit, attempted>>

\* has() writes what it saw into the cache and answers it.
Remember(t) ==
    /\ pc = "custom" /\ worker[t] \in {"found", "absent"}
    /\ has_cache' = [has_cache EXCEPT ![Prereq[t]] =
                        IF worker[t] = "found" THEN "yes" ELSE "no"]
    /\ worker' = [worker EXCEPT ![t] =
                    IF worker[t] = "found" THEN "installing" ELSE "refused"]
    /\ UNCHANGED <<host, plan, pc, batch, successes, hooks, exit, attempted>>

InstallerSucceeds(t) ==
    /\ pc = "custom" /\ worker[t] = "installing"
    /\ worker' = [worker EXCEPT ![t] = "ok"]
    /\ installed' = installed \cup {t}
    /\ successes' = Append(successes, t)
    /\ UNCHANGED <<baseline, initialized, plan, pc, batch, has_cache, hooks, exit, attempted>>

InstallerFails(t) ==
    /\ pc = "custom" /\ worker[t] = "installing"
    /\ worker' = [worker EXCEPT ![t] = "failed"]
    /\ UNCHANGED <<host, plan, pc, batch, has_cache, successes, hooks, exit, attempted>>

\* Mutant of CustomDone: the first failure ends the wait.
CustomDoneOrFailed ==
    /\ pc = "custom"
    /\ \/ \E t \in Names(Group(Custom)) : worker[t] = "failed"
       \/ \A t \in Names(Group(Custom)) : worker[t] \in Finished
    /\ pc' = "tool_hooks"
    /\ UNCHANGED <<host, plan, batch, pool, successes, hooks, exit, attempted>>

CustomDone ==
    /\ pc = "custom"
    /\ \A t \in Names(Group(Custom)) : worker[t] \in Finished
    /\ pc' = "tool_hooks"
    /\ UNCHANGED <<host, plan, batch, pool, successes, hooks, exit, attempted>>

------------------------------------------------------------------------------
\* Mutant of HookDue: the last tool is forgotten.
HookDueButLast ==
    pc = "tool_hooks" /\ ~On("no_hooks") /\ next_hook < Len(successes)

HookDue == pc = "tool_hooks" /\ ~On("no_hooks") /\ next_hook \in DOMAIN successes

\* The hook of the next installed tool; a default hook's failure is advisory.
RunToolHook ==
    /\ HookDue
    /\ hooked' = IF HasHook(successes[next_hook])
                 THEN Append(hooked, successes[next_hook]) ELSE hooked
    /\ next_hook' = next_hook + 1
    /\ UNCHANGED <<host, plan, pc, batch, pool, successes, exit, attempted>>

ToolHookFails ==
    /\ HookDue
    /\ successes[next_hook] \in opts.user_hooks
    /\ ~On("continue_on_error")
    /\ hooked' = Append(hooked, successes[next_hook])
    /\ Exit("HOOK_FAILED")
    /\ UNCHANGED <<host, plan, batch, pool, successes, next_hook, attempted>>

\* Mutant of ToolHooksDone: without waiting for the hooks.
ToolHooksStarted ==
    /\ pc = "tool_hooks"
    /\ pc' = "post_setup"
    /\ UNCHANGED <<host, plan, batch, pool, successes, hooks, exit, attempted>>

ToolHooksDone ==
    /\ pc = "tool_hooks" /\ ~HookDue
    /\ pc' = "post_setup"
    /\ UNCHANGED <<host, plan, batch, pool, successes, hooks, exit, attempted>>

PostSetupFails ==
    /\ pc = "post_setup"
    /\ GlobalHookFails("post_setup")
    /\ Exit("HOOK_FAILED")
    /\ UNCHANGED <<host, plan, batch, pool, successes, hooks, attempted>>

PostSetup ==
    /\ pc = "post_setup"
    /\ pc' = "baseline"
    /\ UNCHANGED <<host, plan, batch, pool, successes, hooks, exit, attempted>>

\* Mutants of AutoBaselineEligible: with unknown tools; over a baseline.
EligibleWithUnknown ==
    ~On("drift") /\ On("seamless") /\ needs = <<>> /\ baseline = None

\* auto_baseline_eligible
AutoBaselineEligible ==
    ~On("drift") /\ On("seamless") /\ needs = <<>> /\ unknown = {} /\ baseline = None

WriteBaseline ==
    /\ pc = "baseline"
    /\ IF ~On("dry_run") /\ (On("drift") \/ AutoBaselineEligible)
       THEN CaptureBaseline ELSE UNCHANGED baseline
    /\ pc' = "finish"
    /\ UNCHANGED <<installed, initialized, plan, batch, pool, successes, hooks, exit,
                   attempted>>

\* mark_initialized, whose failure is ignored; then the return code 0.
Finish ==
    /\ pc = "finish"
    /\ initialized' \in {initialized, initialized \/ ~On("dry_run")}
    /\ Exit("EXIT_SUCCESS")
    /\ UNCHANGED <<installed, baseline, plan, batch, pool, successes, hooks, attempted>>

\* The process is killed.  The installers it started may be gone half way.
Crash ==
    /\ pc # "idle"
    /\ Exit("killed")
    /\ UNCHANGED <<host, plan, batch, pool, successes, hooks, attempted>>

Step ==
    \/ PreSetupFails \/ PreSetup
    \/ VerifyOnlyPasses \/ VerifyOnlyRefuses \/ RefuseUnknown \/ Plan
    \/ \E m \in Managers : BatchSucceeds(m) \/ SingleFails(m) \/ BatchFails(m)
    \/ RetryPackage \/ BatchesDone
    \/ \E t \in Tools : \/ StartCustom(t) \/ Probe(t) \/ Remember(t)
                        \/ InstallerSucceeds(t) \/ InstallerFails(t)
    \/ CustomDone
    \/ RunToolHook \/ ToolHookFails \/ ToolHooksDone
    \/ PostSetupFails \/ PostSetup \/ WriteBaseline \/ Finish

Next == Step \/ Crash \/ \E s \in Settings : Begin(s)

\* Hooks have a timeout; that package managers and installers end is assumed.
Spec == Init /\ [][Next]_vars /\ WF_vars(Step)

------------------------------------------------------------------------------
\* The types of the state: what is planned, installed and hooked are known tools,
\* and only real package managers have batches.
TypeOK ==
    /\ installed \in SUBSET Tools
    /\ baseline = None \/ baseline \in [by_drift : BOOLEAN, tools : SUBSET Tools]
    /\ initialized \in BOOLEAN
    /\ config \in Configs
    /\ runs \in 0..MaxRuns
    /\ pc \in {"idle", "pre_setup", "check", "batches", "retry", "custom", "tool_hooks",
               "post_setup", "baseline", "finish"}
    /\ opts \in Settings
    /\ needs \in Seq(Tools)
    /\ groups \in SUBSET Managers
    /\ retry \in Seq({Pkg[t] : t \in Tools})
    /\ manager \in Managers \cup {None}
    /\ method \in [Tools -> Managers \cup {Custom}]
    /\ worker \in [Tools -> {"waiting"} \cup Busy \cup Finished]
    /\ has_cache \in [Commands -> {"unset", "yes", "no"}]
    /\ successes \in Seq(Tools)
    /\ next_hook \in Nat \ {0}
    /\ exit \in ExitCodes \cup {None}
    /\ attempted \in SUBSET Tools
    /\ hooked \in Seq(Tools)

\* One failing tool never keeps another from being tried: a run that ends with
\* 0 has tried every missing tool, whatever failed (setup_cmd.rs:526-745), and a dry
\* run, which passes through the same phases, none.
EveryMissingToolTried ==
    exit = "EXIT_SUCCESS" => attempted = IF On("dry_run") THEN {} ELSE Names(needs)

\* In a run, the hook of a tool runs at most once, only for a tool the run found
\* missing and has put on the machine, and a run that ends with 0 owes none: the
\* list that the batches, the retries and the threads fill feeds it (748-789).
HooksMatchInstalls ==
    /\ NoRepeats(hooked)
    /\ Names(hooked) \subseteq Names(needs) \cap installed
    /\ (exit = "EXIT_SUCCESS" /\ ~On("no_hooks")) =>
          \A t \in Names(successes) : HasHook(t) => t \in Names(hooked)

\* With one job, a custom installer starts only after those of the tools it
\* strictly depends on have ended (setup_cmd.rs:716-744).
SequentialHonoursOrder ==
    (Workers = 1 /\ ~HasCycle(Inventory, Names(needs))) =>
        \A t \in Names(Group(Custom)) :
            worker[t] # "waiting" =>
                \A d \in StrictDeps(Inventory, t) \cap Names(Group(Custom)) :
                    worker[d] \in Finished

\* The commands has() was asked for before the first installer of the pool.
AskedEarly ==
    CheckAsked \cup GroupAsked(Names(needs)) \cup
    {Requires[m] : m \in {method[t] : t \in Names(needs)} \ {Custom}}

\* With one job no installer is turned away for a missing toolchain command that
\* is there, as long as only installers look for it (cargo, say): the order of
\* the plan makes up for the cache of has().  It does not for a command that the
\* check, the grouping or a batch has asked for before: brew is remembered as
\* absent when the run itself installs it (spec.rs:1322, 1490; common.rs:602-613).
SequentialRefusalsTrue ==
    (Workers = 1 /\ ~HasCycle(Inventory, Names(needs))) =>
        \A t \in Tools :
            worker[t] = "refused" => ~OnPath(Prereq[t]) \/ Prereq[t] \in AskedEarly

\* A baseline that nobody asked for describes the whole config, but for the known
\* tools that have no binary to look up: it is written only when nothing was
\* missing or unknown (3044-3055), and a later automatic one never replaces it.
AutoBaselineComplete ==
    (baseline # None /\ ~baseline.by_drift) => baseline.tools = config \ Markers

\* A baseline is written only by a run that has run the hooks of everything it
\* installed: an aborted one leaves the old baseline, and so does a dry one.
BaselineAfterHooks ==
    [][baseline' # baseline =>
          /\ ~On("dry_run")
          /\ On("no_hooks") \/ \A t \in Names(successes) : HasHook(t) => t \in Names(hooked)]_vars

\* The rest of what holds at every step, for the proofs.  The plan is in order,
\* and once it is made every known configured tool is there or in it.
PlanRight ==
    /\ NoRepeats(needs) /\ Names(needs) \subseteq config
    /\ HasCycle(Inventory, Names(needs)) \/ InDependencyOrder(Inventory, Names(needs), needs)
    /\ pc \notin {"idle", "pre_setup", "check"} =>
          config \cap Tools \subseteq installed \cup Names(needs)

\* What a run has not touched before it comes to it.
InPhase ==
    /\ exit # None => pc = "idle"
    /\ pc \in {"pre_setup", "check"} =>
          /\ needs = <<>> /\ attempted = {} /\ successes = <<>>
          /\ \A c \in Commands : has_cache[c] = "unset"
    /\ pc \in {"pre_setup", "check", "batches", "retry"} => \A t \in Tools : worker[t] = "waiting"
    /\ pc \in {"pre_setup", "check", "batches", "retry", "custom"} =>
          hooked = <<>> /\ next_hook = 1
    /\ pc = "custom" => groups = {}
    /\ pc \in {"batches", "retry", "custom", "tool_hooks"} => ~On("dry_run")

\* The run has nothing more to install.
Over == pc \in {"post_setup", "baseline", "finish"} \/ exit = "EXIT_SUCCESS"

\* What has been tried, told from the batches left and the workers that started.
Tried ==
    /\ attempted \subseteq Names(needs)
    /\ groups \subseteq {method[t] : t \in Names(needs)} \ {Custom}
    /\ \A t \in Tools : worker[t] # "waiting" => t \in Names(needs) /\ method[t] = Custom
    /\ pc \in {"batches", "retry", "custom"} =>
          attempted = {t \in Names(needs) :
                          method[t] \in Managers \ groups \/ worker[t] # "waiting"}
    /\ pc = "tool_hooks" => attempted = Names(needs)
    /\ Over => attempted = IF On("dry_run") THEN {} ELSE Names(needs)

\* What is credited was tried and is there, and so will be what is retried.
Credited ==
    /\ Names(successes) \subseteq attempted \cap installed
    /\ pc = "retry" => /\ manager \in Managers \ groups /\ retry # <<>>
                       /\ Names(retry) \subseteq {Pkg[t] : t \in Names(Group(manager))}

\* The hooks of the first tools of successes have run.
HooksRun ==
    /\ Names(hooked) \subseteq Names(successes)
    /\ pc = "tool_hooks" /\ ~On("no_hooks") =>
          \A i \in DOMAIN successes :
              i < next_hook /\ HasHook(successes[i]) => successes[i] \in Names(hooked)
    /\ Over /\ ~On("no_hooks") =>
          \A t \in Names(successes) : HasHook(t) => t \in Names(hooked)

\* No tool is credited twice, when no package stands for two of the tools.
CreditedOnce ==
    /\ NoRepeats(successes) /\ NoRepeats(hooked)
    /\ pc = "retry" =>
          /\ NoRepeats(retry)
          /\ \A t \in Names(successes) : method[t] = manager => Pkg[t] \notin Names(retry)
    /\ \A t \in Names(successes) : method[t] = Custom => worker[t] = "ok"
    /\ pc = "tool_hooks" =>
          \A t \in Names(hooked) : \E i \in DOMAIN successes : i < next_hook /\ successes[i] = t

\* One thread takes the custom tools in the order of the plan.
InTurn ==
    Workers = 1 =>
        \A i \in DOMAIN Group(Custom) :
            worker[Group(Custom)[i]] # "waiting" =>
                \A j \in 1..(i - 1) : worker[Group(Custom)[j]] \in Finished

\* A tool is grouped under its own manager, or under none if one is to be there.
MethodRight ==
    \A t \in Tools : method[t] = Method[t] \/ (method[t] = Custom /\ Detects[t] # None)

\* What has() remembers is what one of the workers has been told, or jarvy itself
\* before.
CacheExplained ==
    /\ \A t \in Tools :
          worker[t] \in {"started", "found", "absent", "refused"} => Prereq[t] # None
    /\ \A c \in Commands :
          has_cache[c] = "no" =>
              c \in AskedEarly \/ \E t \in Tools : worker[t] = "refused" /\ Prereq[t] = c

\* A worker that has seen no toolchain command will not be proved wrong.
AbsenceLasts ==
    (Workers = 1 /\ ~HasCycle(Inventory, Names(needs))) =>
        \A t \in Tools :
            worker[t] \in {"absent", "refused"} => ~OnPath(Prereq[t]) \/ Prereq[t] \in AskedEarly

\* The inductive invariant behind the theorems of Setup_proofs.
Inv ==
    /\ TypeOK
    /\ PlanRight
    /\ InPhase
    /\ Tried
    /\ Credited
    /\ HooksRun
    /\ InTurn
    /\ MethodRight
    /\ CacheExplained

\* Every run ends, with every worker of the pool done.
RunEnds == pc # "idle" ~> pc = "idle"

\* docs/hooks.md:28 says of post_install "Immediately after a specific tool is
\* installed": every tool that a successful run has installed gets its hook.
InstalledToolsHooked ==
    (exit = "EXIT_SUCCESS" /\ ~On("no_hooks") /\ ~On("dry_run")) =>
        \A t \in Names(needs) \cap installed : HasHook(t) => t \in Names(hooked)
==============================================================================
