# Jarvy: a verification project

Jarvy (`src/`, Rust) brings a developer's machine to the state that a project's
`jarvy.toml` describes: it works out which tools a project, its workspace, its
roles and its user ask for, installs them in dependency order, runs hooks,
records a drift baseline, keeps several identities ("profiles") of AI agents'
configuration directories, synchronises tool definitions from a registry, and
updates itself. This directory holds TLA+ models of the parts where order,
concurrency, partial failure and crashes matter, TLC configurations that check
them, and TLAPS proofs.

Paths `src/...` in this file are relative to the repository root; in
`PROJECT.json` the root itself is `src/`, so `src/tools/spec.rs` is
`src/src/tools/spec.rs` there.

## 1. Inventory

| Component | State it keeps | Operations | Hard behaviour | What makes it correct |
|---|---|---|---|---|
| Tool dependencies and install order (`src/tools/spec.rs`) | a compiled-in inventory; nothing at run time | merge strict, OS-scoped and flexible dependencies; topological sort; status for `doctor` and `diff` | iteration order of a `HashMap`; counters that are only ever decremented; cycles; a name in the list twice | dependencies first, nothing lost or doubled, warning exactly on a cycle, the announced alternative is the one used |
| Setup (`src/commands/setup_cmd.rs`, `src/setup.rs`, `src/provisioner.rs`) | the machine; `.jarvy/state.json`; the first-run marker; per run: plan, successes, worker pool | `run_setup` from `pre_setup` to the exit code | batches that fail half way, a thread pool, hooks that end the run, kills and re-runs, dry and verify-only runs | every missing tool is tried, hooks match what was installed, a baseline describes what it claims to |
| Installation primitives (`src/tools/common.rs`, `src/tools/registry.rs`) | process-wide caches of `has()` and of versions | `has`, `batch_install`, prerequisite checks, sudo, timeouts | a cache that outlives what it remembers, shared by threads | nobody is refused for something that is there |
| Configuration, roles, workspaces (`src/config.rs`, `src/roles/`, `src/workspace/`, `setup_cmd.rs`) | `jarvy.toml` of root and members, the user's config, a file made for a member without one | find the project, merge the layers, resolve roles, collect tools | recursion with cycles, depth limits and diamonds in one function; globs and exclusions; a made file that other commands meet | roles are refused exactly when they should be and give exactly their tools; the nearest layer wins |
| Agent profiles (`src/agent_profiles/`, `src/commands/agents_profile_cmd.rs`) | the agents' config directories, the store `~/.jarvy/agent-profiles`, `profiles.json` and its temporary file | `init`, `create`, `use`, `save`, `restore`, `delete`, `list`, `status` | several processes without a lock; a kill between two file operations; copies that fail; agents that recreate their directories | links never dangle, links and registry agree, the only copy of an identity is not lost |
| Registry sync (`src/registry_remote/`, `src/tools/plugins.rs`) | `manifest.json`, `tools/`, `tools.new/`, `tools.old/`, `meta.json`, `index.json` | fetch, verify, stage, swap, index, clear; load at startup | a pool of fetching threads; two renames without an atomic exchange; an index trusted by a second's stamp; leftovers of killed syncs | what is loaded is one release, less what the loader rejects, and stays available |
| Update (`src/update/`) | the running binary, its `.new` and `.old`, backups, `rollback-info.json` | check, download, verify, install, roll back | kills between the renames; refused renames on Windows; a binary that does not start | there is always a whole binary, the previous one is kept, records are true |
| Maintenance (`src/maintenance/`, `check_updates_cmd.rs`) | `update-cache.json` and its temporary file, the refresh lock | check for updates, foreground and background; stale takeover | two processes holding one lock; a slow owner removing its successor's; ages against limits | at most one young lock holder; what is reported is recent |
| Fallbacks and receipts (`src/tools/fallback.rs`, `receipts.rs`, `upgrade.rs`) | the memo of failed bootstraps, `install-receipts.json` | bootstrap a toolchain, install by a route, record, upgrade by the record | several threads bootstrapping at once; users who change the machine behind the receipts | a receipt that counts is true; nobody is unsupported for another thread's sake |
| Drift (`src/drift/`) | the baseline in `.jarvy/state.json` | capture, detect, accept, fix | a shared temporary file; a fix that fails half way | a clean report means nothing differs |
| Hooks (`src/hooks.rs`) | a child process group and a deadline | run with a policy, kill the group on timeout | a timeout racing a late exit | every hook ends |
| Team `extends` (`src/team/`) | a cache of fetched configs | chains of URLs | cycles, limits, precedence | resolution ends and respects precedence |
| Library registry (`src/library_registry/`) | a cache of shared libraries | fetch, verify, replace | an old but verified manifest | what is used has been verified |
| MCP server (`src/mcp/`) | rate-limit windows, an audit log | the request loop | limits at their boundary | no mutating call without its confirmation |
| AI hooks, MCP registration, skills (`src/ai_hooks/`, `src/mcp_register/`, `src/skills/`) | other programs' configuration files | merge, remove | idempotence | the user's own entries survive |
| The rest: packages, git, git hooks, env, services, lock files, logging, telemetry, tickets, discovery, wizards, sandbox and CI detection, network, Windows, templates, dotfiles, command line, tool recipes, packaging | little or none | calls of external programs, text edits, output | hardly any of its own | - |

How they interact:

- **Calls.** A command finds its project and its config (`ProjectTools`), which
  asks the role resolver (`Roles`); `run_setup` then asks
  `check_tools_parallel` for what is missing, has
  `order_tools_by_dependencies` order it, splits the order into one batch per
  package manager (`batch_install`) and a list for the worker pool
  (`tools::add` per tool, with the fallback routes behind it), then runs hooks,
  writes the drift baseline and marks the first run. `doctor` and `diff` use
  `check_tool_dependencies`, which has to agree with the sort; setup itself
  never calls it.
- **Shared memory.** The threads of the pool share the `has()` cache, the memo of
  failed bootstraps and the machine; the threads of a sync share the list of tools
  to fetch and an error flag.
- **Shared files.** `jarvy` processes in several terminals share the profile
  store, the registry and its cache, the update cache, the receipts, the
  binary itself, the file made for a workspace member, the agents' directories
  and the project's `.jarvy/state.json`. There is a lock only in maintenance.
- **Callbacks.** Hooks are the user's programs; with the default policy a
  failing one ends the run.

`PROJECT.json` lists the hazards of this code line by line, and the properties
that would catch each.

## 2. Modules

| Module | Models | Built on |
|---|---|---|
| `ToolDeps` | the dependency facts as pure operators: merging, what counts when a set is installed together, `DependencyStatus` of `doctor` and `diff`, cycles, and the reference definition `InDependencyOrder` | - |
| `ToolOrder` | `order_tools_by_dependencies`, one action per loop iteration | `ToolDeps` |
| `Setup` | `run_setup` with the installation primitives it uses | `ToolDeps` |
| `Roles` | the role resolver, call by call, and what it has to return | - |
| `ProjectTools` | which tools a command works with: project, workspace, layers, roles | `Roles` |
| `AgentProfiles` | the profile commands in several processes | - |
| `ActiveSet` | abstract: what a sync may do to the set of synced tools | - |
| `RegistrySync` | `jarvy registry sync` and the loader at startup | implements `ActiveSet` |
| `SelfUpdate` | the binary installer and the rollback | - |
| `UpdateCache` | `check-updates` with its lock and cache | - |
| `Fallback` | fallback routes, bootstraps, receipts, upgrades | - |
| `*_proofs` | the theorems about `ToolOrder`, `Setup`, `ProjectTools` with `Roles`, `AgentProfiles`, `RegistrySync`, `SelfUpdate`, `UpdateCache` and `Fallback` | the module named, `TLAPS` |
| `MC*` | small instances for TLC | the module named |

Operators whose body would be a plausible slip of the code (`MergeToolsWhole`,
`BackupOnce`, `StageInPlace` and the like) stand beside the definition they
resemble. Nothing in the specifications uses them: put in the place of that
definition, each makes a property fail, which shows that the property depends on
that piece of code.

### ToolDeps and ToolOrder

An inventory is a record of the three dependency fields and the current
operating system. `ToolOrder` keeps the variables of the Rust function:
`in_degree`, `dependents`, `queue` and `result`, plus `current` and `todo` for
the popped tool and those of its dependents that the inner loop has not visited.
`PopFront`, `Release`, `Emit` and `Return` are the steps of the loop. The queue starts in
any order, because the code fills it from a `HashMap`. `returned` and `warned`
are what the caller and the user see.

An edge that the code enters twice (a name twice in the list, or in both
dependency fields) raises the in-degree twice, stands twice in the dependents of
the same tool, and both copies go in the same pop. It is one edge here.

### Setup

`installed`, `baseline` and `initialized` are the machine and survive a run;
everything else starts afresh in `Begin`. `pc` walks through the phases of
`run_setup` in their order. `Plans` is the one-step abstraction of the sort:
any order that `InDependencyOrder` accepts, or any at all when there is a cycle;
`ReturnsAPlan` of `ToolOrder_proofs` proves that the sort returns one of them. A batch succeeds, fails
as a single package, or fails half way and is retried package by package;
`successes` is `successfully_installed`, filled by package name as the code does
(`CreditedTool`). In the pool each custom tool goes `waiting`, `started` (looking
for the command its installer needs), `found` or `absent`, then `installing` or
`refused`, then `ok` or `failed`; what `has()` saw and what it writes to its cache
are two steps, because other threads run in between. `Crash` ends a run anywhere.

The cache of `has()` lives as long as the process and is filled from the start:
`check_tool_version` asks for the commands of tools that it knows only by name
(`CheckAsked`), the grouping asks whether Linuxbrew, winget or Chocolatey is there
and leaves a tool to its own installer where it is not (`Grouped`, `GroupAsked`), and a
batch requires the command of its manager (`CanRun`). Those phases run alone, so a
look and the write of its answer are one step there (`Asked`).

`Markers` are the tools known by a file and not by a binary (nvm). They count as
installed, but `capture_drift_baseline_borrowed` looks every tool up with `which` and
records none of them (`Found`).

Left out: what installers ask `has()` for beside the command they require; on
Windows, that Chocolatey and Scoop make jarvy forget an answer; the phases that
belong to other components (packages, git, AI hooks, MCP registration, env,
services, dotfiles, Windows), which only report their failures; versions (a tool is
there at a satisfying version, or not); sudo.

### Roles and ProjectTools

`Roles` turns the recursion of `RoleResolver::resolve_internal` into a stack of
frames (`role`, index of the next parent, the tools and the chain of the parents so
far), and `Call` and `Return` into operators on a resolution, with the order of the
code's checks: depth, cycle, existence. The specification of a tool
is represented by the role that gives it. `Ancestry`, `TooDeep` (a line of
parents longer than the limit) and `Circular` say independently of the resolver
what should come out, and `Giver` who wins.

`ProjectTools` is the way of a command to its tools. `ParentSearch` moves up to the
nearest `jarvy.toml` (only for the default `--file`); `FindProject` is
`auto_detect_project` or `resolve_workspace_project`; `ReadForMember`,
`TruncateMade` and `WriteMade` make the file of a member without one, which other
processes may meet half written; `LoadRoot` and `LoadConfig` read and merge the
root's, the member's and the user's layers, section by section and, for
`[provisioner]`, tool by tool; `NextRole`, `NextParent` and `RoleReturns` run the
resolver; `CollectTools` puts the roles' tools under those of the config. A role
error is dropped and the setup goes on, as the code does. `EditRoot` is the user
saving the root's file, `Killed` a kill at any step. `drift` and `doctor` take the
same way up to `LoadConfig` and are the operation `inspect`.

Left out: the sections that do not decide about tools, parsing, globs other than
"the children of a directory", and a member inside another member.

### AgentProfiles

`live` is what each agent's config directory is (absent, a directory, jarvy's
link, the user's own link), `snap` and `profiles` the store, `registry` and `tmp`
the file `profiles.json` and its temporary name, which all processes share. A
process is a record: its phase, its command, the agents it still has to visit (a set:
their order is `AgentOrder`, always), those it will record, the registry it has loaded, and where the file it is
writing is now (a rename by another process moves an open file).

One action is one file operation, or one whose parts nobody else can come
between. Copying a tree begins (`Partial`) and ends; saving the registry
truncates, writes and renames. Moving a directory into the store is a rename
(`MoveLive`), or, whenever that is refused, a copy and the removal of the source
(`RenameRefused`, `Relocated`, `ClearSource`, `SourceCleared`), each of which may fail or be
killed half way (`MoveFails`, `Crash`): `mishaps` then remembers that a half copy
(`half_copied`) or half a source (`half_removed`) was left. Copying, renaming and
removing a source may fail, other I/O does not. Where the
code looks twice in a row at the same directory the model looks once. `use`
without `--global`, `list` and `status` change nothing on disk and are left out. Two
details are coarser than the code: a user's own link that `init` moves into the
store counts as the tree it leads to, and `use --agents` visits agents in the
table's order, not the user's. A start is a machine without jarvy, or one that
commands have left in good order (`StartsAtRest`). The end of the module has the
invariants that the proofs add.

### ActiveSet and RegistrySync

A tool file is a pair of name and release; a directory is a set of them, or
`NoDir`. `FetchManifest` verifies, `PromoteManifest` keeps the manifest, `Stage`
empties `tools.new/`, and then each worker claims the next index (`Claim`) and
writes its file (`FetchTool`) or fails (`ToolFails`), which makes all stop.
`Join` refuses the set if one failed. `DropRetired`, `Retire` and `Promote` are
the swap, `PromoteFails` the attempt to put the old set back. `WriteMeta` and
`WriteIndex` end the sync; `Break` is a kill or a failing operation anywhere,
`Refuse` a manifest or tool that does not verify. The clock counts the seconds
that meta and index are compared by. The loader reads the index, then the meta,
and walks `tools/` file by file unless the index can be `Trusted`; `mixed` records that
a swap came while it walked. A tool is loaded under the name inside its file, and not
at all when that name, its command or one of its package names is not valid
(`OwnName`): one such tool makes the whole index useless, while a walk only skips its
file, and of two files that name the same tool a walk keeps the later one (`Accepted`,
`With`). A sync looks at none of this: it only parses the files. `Loads` says what may
come out.

`ActiveSet` says what all of that may look like from outside: the set is hidden,
replaced by a whole release, restored as it was, or lost. The refinement maps
`active` to `tools/`, or to `tools.old/` while `tools/` is away.

### SelfUpdate

One variable per file, holding a version, `Absent`, or `Partial` for a copy
that was cut short. `Backup`, `StageBeside`, `MoveAside`, `Promote`, `PutBack`,
`Unlink`, `Verify`, `Record` and `ClearInfo` are the file operations of
`install_with_options`, `swap_into_place` and the rollback; a process that restores a
backup after a failed verification (`phase` = `restore`) goes through the same
swap. On Windows a refused rename is tried again (`Retry`). Releases may be mute
(they start and fail) or unstartable, which the code treats differently.
`UserMovesBack` is what the message for a stranded binary asks the user to do.

### UpdateCache

`lock`, `cache` and `tmp` are the three files. A run loads the cache, reads the lock
and, when it is old or not there, writes its own (`ReadLock`, `WriteLock`: two
steps, because the code does not create the file exclusively), splits its
targets into hits and the rest, probes, and saves in three steps through the
temporary file. Each process knows which file its handle refers to, since another
run's rename moves it. `Drop` and `Remove` give the lock back after looking at
its owner again. Time is the age of every entry and lock; `Tick` makes all of
them older. The file says when a run began (`age`), while the model also remembers
when the backend was asked (`asked`). `raced` and `overlapped` are history.

### Fallback

`copies` says which builds of a tool lie where on the `PATH`; a build number is its
stat signature. The thread of a tool tries its routes in order: `Ask` and
`Remember` are `has()` with its cache, `CheckMemo` and `Bootstrap` the mutex over the
memo of failures, `Forget` drops what was cached, `RunRoute` installs;
`LoadReceipts` and `SaveReceipts` are two steps, because threads do them without
a lock: of two that overlap, the one that saves last puts back what it has loaded,
and the other's receipt is gone. `missed` is history: some installation was not
recorded, or its record was lost that way. Upgrades follow receipts that are still valid (`Reroute`), or the native
way. `UserInstalls` and `UserRemoves` change the machine at any time.

## 3. Runs

All runs use model values or strings for names and are exhaustive within their
bounds. `TypeOK` is checked in each passing run.

### Passing

- **ToolOrder** (`MCToolOrder`). Every strict dependency relation over three
  tools, two operating systems with a Windows-only dependency, four shapes of
  flexible dependencies, six lists, two of them with a repeated name. Three
  tools give every kind of knot (self, pair, ring, ring with a tail) and every
  shape of a diamond short of its fourth corner; the theorems lift the bound.
  `DependenciesFirst`, `WarnsExactlyOnCycle`, `AnnouncedFlexibleFirst`,
  `NothingLostOrInvented` and `Terminates`.
- **Setup** (`MCSetup`). Two runs in a row over eleven combinations of flags, threads
  and hooks, on a pool of one to three threads with custom installers that need
  each other's commands, batches of apt and of Linuxbrew, Linuxbrew itself there, missing
  or configured, an unknown tool, one without a binary, platform installs, and
  kills anywhere, from five sets of installed tools. `EveryMissingToolTried`;
  with one thread `SequentialHonoursOrder` and `SequentialRefusalsTrue` (the order
  of the plan makes up for the cache of `has()`, except for commands that the check,
  the grouping or a batch has asked for before, `AskedEarly`; the case with `brew`
  is in the instance); `HooksMatchInstalls` (a hook at most
  once, only for what this run installed, none owed at exit 0);
  `AutoBaselineComplete` (the baseline nobody asked for describes the whole config,
  less what has no binary to look up)
  and `BaselineAfterHooks`; `RunEnds`: no mix of refusals, failures and waiting
  stops the pool. Two runs are enough for a run to meet what an earlier one
  left: nothing else passes from run to run.
- **ProjectTools** (`MCProjectTools`), from three kinds of initial state. *Layouts*:
  48 combinations of the root's, a member's, the user's and a fetched config with
  four shapes of `[workspace]` (written-out members, a glob, exclusions, partial
  inheritance) or none, and one out of 500 command lines from five
  directories. *Roles*: 8,820 graphs of four roles with two assignments, with cycles,
  undefined roles, diamonds and lines that exceed the limit. *Together*: two
  processes, three commands about members without a file, one edit of the root and
  kills at every step. `ResolutionExact`: roles are accepted if and only if no
  ancestor is undefined, on a cycle or too deep, then with exactly the tools of all
  of them, and a refusal names the culprit. `NearestLayer`: a tool is as its
  nearest layer has it, else as the nearest roles give it, whatever an earlier
  command left behind, unless another command or edit came between. The
  depth limit is 2 here, so that four roles go past it; the theorems lift it.
- **Profiles** (`MCAgentProfiles`). One process: any three of sixteen command lines
  one after the other, from a machine without jarvy (with a directory, without
  one, with the user's own link) and from one after `init` and `create`; copies and
  moves may fail, each command may be killed between two file operations, and agents may make
  themselves a new directory. Two processes: `create`, `use`, `save` and
  `restore`, interleaved at every file operation. `RegistryMatchesLinks` while all
  goes well; `InitReconciles` whatever happened before; `LinksLeadToWholeTrees`
  (no link dangles, ever; none leads to a half copy unless a command was killed or a
  move has stopped half way); `IdentitiesKept` for `init`, `create` and `use`, unless half a
  source was left behind or the agent has made itself a new directory; `CommandEnds` (a process that finds
  its temporary file renamed away ends with an error). `init` and `delete` run
  alone: with a `use` beside them links do dangle (below); so does `create
  --from`, whose failing clone may be removed under another process's link.
- **RegistrySync** (`MCRegistrySync`). Two releases; one has two tools, the other a
  third, which names the same tool as the second, and its first is one that the loader
  rejects. Two threads, two seconds, up to two faults between two
  complete syncs (a fault is a kill, or an operation that fails), beside a
  starting CLI. `ReplacesWholeSets`: the sync implements `ActiveSet`.
  `LoadsOneRelease`: a startup loads one release, less what it rejects, or nothing,
  unless `tools/` is swapped while it walks. `ToolsStayAvailable` after the first
  complete sync at any time but between the two renames; there, too, and in spite of
  one fault, if the loader accepts every tool of the index. `SuccessIsVisible`: what a
  startup loads after a successful sync is what it accepts of that release, except
  with a failed index and one of the same second. 3.2 million states.
- **SelfUpdate** (`MCSelfUpdate`). Three updates or rollbacks in a row, on Unix and on
  Windows with a second attempt, to two releases that run, one that fails and one
  that cannot be started; killed anywhere, also within a copy. `NeverTorn`,
  `PreviousKept`, `RecordsTrue` and `SuccessTrue`. Three commands let each meet
  what an update and a failed or killed one left; the theorems lift the bound.
- **UpdateCache** (`MCUpdateCache`). Two runs at any time, one target, versions that
  live for two hours, errors and locks for one; kills at will. `OneYoungHolder`:
  unless a lock changed between a run's look at it and its own change, two runs do not
  hold young locks (two that acquire at once do); `CacheWhole`: only saves at the same
  time can leave a torn cache, and they do; `HitsAreRecent`: an answer from the cache was asked for less than its
  limit ago. The theorems lift the bounds.
- **Fallback** (`MCFallback`). Two tools, one with two routes, that share an
  ecosystem; three setups or upgrades, four builds, and a user who installs and
  removes copies at any time; the ecosystems come first on the `PATH`.
  `ValidReceiptIsTrue`: a receipt that counts names the route that made its binary,
  unless an installation missed its receipt or had it overwritten;
  `UnsupportedIsExplained`: nobody is turned away for a toolchain that has not
  failed in this very process. Four builds is the first number with which a lost
  receipt does harm: a tool's first route, its second, another tool's installation
  that overwrites the second receipt, and the upgrade that follows the first one.

### Violations

Each of these checks one promise of the repository that the code does not keep.

- **SetupShared**: `docs/hooks.md:28` promises a hook after a tool is installed.
  Two tools that share a package are credited to the first of them, and the hook
  of the second never runs.
- **ProfilesTorn**: `agent_profiles/mod.rs:149` calls the registry's save atomic. Two
  processes use one temporary file, and one renames what the other has just
  truncated.
- **SelfUpdateFailure**: `update/installer.rs:141` says "Rollback on failure". When
  the new binary cannot be started at all, the `?` in line 139 returns before it.
- **FallbackStale**: `tools/receipts.rs:12` says that a native reinstall makes a
  receipt stale. It stats the path in the receipt, so a native copy found first
  on the `PATH` leaves it valid.

### Differences without a run

Plain from the code, or seen while the models were written:

- *Order.* `docs/tool-dependencies.md:46` says that dependencies precede dependents;
  all batches come before all custom installers (`setup_cmd.rs:526`). The sort
  reports a cycle when a name is in the list twice, which two spellings of one tool
  leave there (`spec.rs:1820`, 1903); a test says that independent tools keep their
  relative order (`spec.rs:2802`), while the queue is filled from a `HashMap`.
- *Setup.* `tools/common.rs:413` assumes that the presence of binaries is stable
  during a setup; with two threads an installer is refused for a missing `cargo`
  that another thread has just installed (602). With one thread, too: where `brew` is
  missing and configured, the check asks for it (`spec.rs:1322`), remembers that it is
  not there, and refuses the installers that require it after it was installed. A run
  killed or ended by a hook between an installation and its hook leaves that hook
  undone for good (748): the next run finds the tool installed. Hooks run after all
  installations and only for what this run has installed, against
  `docs/hooks.md:28` and `docs/concepts/hooks-execution.md:111`. With drift enabled
  the baseline is written after failures too (`setup_cmd.rs:1034`), against
  `docs/architecture.md:131`; line 133 there says that any failure ends the run, the
  code exits with 0. The docs say that the default hook and then the user's run; the
  code lets the user's replace it.
- *Profiles.* `delete` refuses while a link leads into the profile (`store.rs:396`),
  but a `use` between the check and the removal (428) leaves a dangling link. A
  half-copied profile is removed when copying fails (378), not when the
  process is killed (381). Where a rename is refused, `init` copies the directory and
  removes it (687-710): a copy that fails half way stays in the store as the default
  profile, which `create --from` clones and a later `use` links to; a removal that stops
  half way leaves a directory for whose sake the next `init` removes the whole copy
  (273), of which 295-297 only warns. A kill between the move and the link (474), or
  after `restore` has wiped the directory (228), leaves the agent with no directory until
  the next command. `docs/agent-profiles.md:60` and 157 call `init`
  idempotent; after a restore it removes the default snapshot of a managed env-tier
  agent and copies the live directory over it (`store.rs:476`). A `use` that fails at
  its second agent has re-pointed the first (`docs/agent-profiles.md:247`);
  `apply_symlink_repoint` replaces the user's own links too (`status.rs:108`); of
  two `use` at once the links may be one's and the registry the other's.
- *Registry sync.* `cache.rs:93-96` speaks of a single flip of an inode; between the
  two renames there is no `tools/`. `sync.rs:23-24` says that a single failure
  leaves the cache as it was; by then `manifest.json` has been promoted, and
  after the swap a failing `meta.json` leaves new tools with an old stamp. Two syncs in
  one second, the second with a failing index, leave the first one's index
  trusted. A walk during a swap may mix two releases. `registry_cmd.rs:38` announces
  that the tools of a sync are now available; those with a name, command or package that
  `plugins.rs` rejects (345-354, 447-464) are not, and of two that name one tool only one
  is (472). One rejected tool also makes the index useless, so that startups between
  the two renames find nothing. Two syncs at once share
  `tools.new/` and `tools.old/`: none of the properties would hold.
- *Update.* With two processes `NeverTorn`, `RecordsTrue` and `SuccessTrue` do not
  hold, and the message about a stranded binary may be false. `docs/self-update.md:80-86`
  speaks of backups in `~/.jarvy/backups`, pruned to three; the code uses
  `backup` and prunes nothing.
- *Update cache.* A plain `check-updates` takes no lock (`check_updates_cmd.rs:104-107`)
  and saves all the same (186). `run_check_cache_only` (`checker.rs:342`) ignores the
  time to live.
- *Fallbacks.* `has()` may remember an absence that another thread has just ended
  (`fallback.rs:194`). Threads that record at once lose each other's receipts
  (`receipts.rs:166`), and a kill comes between an installation and its receipt: an
  older receipt then still counts, an upgrade follows its route, and records the
  binary that is found first on the `PATH` as that route's work.
- *Roles.* `docs/concepts/roles-and-inheritance.md`, "Inheritance limits", calls a
  cycle a configuration error; `config.rs:1216` drops it and goes on without the
  roles' tools. `roles/resolver.rs:66` says "from this role or first parent"; it is
  this role only. In a diamond the specification that a later parent
  inherits beats the one that an earlier parent has overridden. `team/inheritance.rs:5`
  says "load once, apply once", but its cache is unused; against line 7
  ("last-write-wins") earlier parents win there.
- *Workspaces.* `determine_member` knows neither globs nor `exclude`: from a member
  matched by a glob auto-detection and `--project current` fail, and `current`
  accepts an excluded member that auto-detection refuses. With the default
  `--file ./jarvy.toml` the root is looked for from `.` and never found above it:
  from a member's directory auto-detection does not happen and `--project` fails
  (`docs/workspace.md:128-156`). From the directory of a member without a file the
  command moves up and sets up the root. Two commands about such a member at once can
  meet a torn file, against the comment in `setup_cmd.rs:2509`. `drift` and `doctor`
  read neither the root's sections nor roles, against `docs/workspace.md:155`, and
  members without a file share one directory for their drift baselines
  (`drift_cmd.rs:16-20`).

## 4. Fairness and refinement

`ToolOrder` and `Setup` are given weak fairness of their step: the sort is a loop
without waiting; hooks have a timeout that kills their process group; that
package managers and installers end is assumed, as the code assumes it. A kill is
never forced. `AgentProfiles` has weak fairness per process: a process that the
operating system keeps scheduling takes its next step, and no step waits for
another process. The other modules state no fairness and are checked for safety only.

`RegistrySync` implements `ActiveSet`: `ReplacesWholeSets` is the abstract
specification under the refinement mapping, checked by TLC and proved for every
registry, pool and number of faults. `Setup` takes the sort in one step (`Plans`),
which `ReturnsAPlan` justifies.

## 5. What is proved

In all modules the theorems hold for every value of the constants that the named
assumptions of the module allow: finite types and bounds, names that differ from
the placeholders.

**`ToolOrder_proofs`**: for every inventory, finite set of tools and list,
`TypeCorrect`, `Invariance`, `OrderRespectsDependencies` (`DependenciesFirst`),
`EveryToolOnce` (`ScheduledOnce`, which no run checks), `WarningIsExact`
(`WarnsExactlyOnCycle`), `SameTools` (`NothingLostOrInvented`) and
`AnnouncementsHold` (`AnnouncedFlexibleFirst`). From them follows `ReturnsAPlan`:
what the sort returns is one of the `Plans` from which `Setup` starts. None of these
is inductive.
`Inv` adds what the loop really maintains:

- `CountersExact`: `in_degree[t]`, which is only decremented and never computed
  again, is the number of dependencies of `t` not yet released (`Waiting`).
- `QueueHoldsTheReady`: the queue holds exactly the tools that wait for nothing
  and have not been popped.
- `EdgesUntilPopped`: the dependents of a tool are intact until it is popped, so
  no release can be lost.
- `Distinct`, `DepsPlaced`, `CurrentReady`: nothing is queued or emitted twice; what
  has been emitted, and the tool in hand, has all its dependencies before it.
- `ReturnDecided`: what was returned is what the length test decided.

At the return the queue is empty, so by `QueueHoldsTheReady` every tool that was
not emitted still waits for another such tool: they form a knot. Conversely no
member of a knot can be the first of the knot to be emitted, by `DepsPlaced`. With
a list without repetitions, the lengths differ exactly then.

**`Setup_proofs`**: for every registry, config, number of threads and history of runs
and kills, `TypeCorrect`, `AllTried` (`EveryMissingToolTried`), `OneThreadInOrder`
(`SequentialHonoursOrder`), `RefusedRightly` (`SequentialRefusalsTrue`),
`HooksRunOnce` (`HooksMatchInstalls`), `HooksAreDue`, `AutoBaselineWhole`
(`AutoBaselineComplete`) and the action property `BaselineWaitsForHooks`
(`BaselineAfterHooks`). `Inv` says where a run is: the plan is one of the
right set (`PlanRight`), which of the variables of a phase are still empty and which
are complete (`InPhase`, `Over`), that every tool before the current position
has been tried (`Tried`), that credits and hooks follow installations (`Credited`,
`HooksRun`), and that a single thread takes the tools in turn (`InTurn`). Two more
invariants rest on hypotheses that the theorems state:

- `OnePackageEach` (no config has two tools in one package of one manager), for
  `HooksRunOnce`: `CreditedOnce` needs that the first tool with a package's name is
  the one that was meant. A config with both `kubectx` and `kubens` does not satisfy
  it, and there a hook is really lost (run SetupShared). `HooksAreDue` is what holds
  without it.
- `ProvidersDeclared` (a tool that provides the command another installer looks for,
  and has an installer of its own, is a strict dependency of the other), for
  `RefusedRightly`: it gives `AbsenceLasts`, an absence that `has()` remembers since the
  pool has started is still true when somebody asks again. It gives nothing for
  commands asked for before (`AskedEarly`), which the theorem leaves out. `tools/common.rs:572-576` asks the recipes for such
  declarations; `cypress` and `playwright` name `node` as a flexible dependency only,
  and satisfy it as long as `node` comes in a batch.

**`ProjectTools_proofs`** (with `Roles`): for every layout, graph of roles, depth
limit and number of processes, `TypeCorrect` (with it that no resolution goes deeper
than the limit), `ResolutionIsExact` (`ResolutionExact`) and `NearestLayerWins`
(`NearestLayer`). The assumptions are `RolesTyped`, `ProjectToolsTyped`, and `DirsInLine` (the directories above one are
in line, so that there is a nearest one). The invariant of a resolution is `Good`: the stack is a line of
inheritance without repetitions (`Line`); what a frame has gathered is closed under
inheritance, free of cycles and exact in its tools (`Settled`, `FrameGood`); and
`Shallow`, no line that is too long begins at what has already been resolved. `Call`
then refuses only for a true reason, and a role that returns joins a settled set:
its parents are in it, and a cycle through it would have to pass through
one of them. `Proper` carries `Good` through the steps of each command; other
commands do not touch it.

`NearestLayer` needs two more invariants, together `Traced`. `Given` is about the
tools of roles: what a resolution has gathered so far is, for each tool, what the
last role of the list so far that has it gives (`Gives`, `LastGives`), where `GivenBy`
follows that giver upwards level by level; the height of a frame is the number of
levels that are left above it, and the depth limit is the height of the whole.
`Faithful` is about files: what a command has in hand is what the files say, step by
step from the directory it is about to the merged config (`Merged`), and the file
made for its member, from the moment it truncates it, holds only its own text. A
command that meets another one there, or an edit, is `disturbed` and nothing is
said of it; `OthersUntouched` shows that this is all that steps of others can do.
`MergeLayered` then says what each merge keeps of its two sides (`Layered`), and three
layers are read through `FirstSays`.

**`AgentProfiles_proofs`**: for all agents, profiles, identities, numbers of
processes and commands, `TypeCorrect`, `RegistryAgrees` (`RegistryMatchesLinks`),
`LinksLeadToTrees` (`LinksLeadToWholeTrees`) and the action properties
`InitBringsTogether` (`InitReconciles`) and `IdentitiesAreKept` (`IdentitiesKept`).
`IInv` has two parts. For any number of processes: where a process is says which
command it can be running and on what (`InStep`), a snapshot is in a profile that
is there (`SnapshotsInProfiles`), and links lead to snapshots (`LinksLead`), as long
as whoever removes or moves a snapshot is alone: the hypothesis `Apart` of
`LinksLeadToTrees`, without which the property is false. All starts of the run
satisfy it. For one process (`Alone`; three of the properties say so themselves),
at every point of every command, failing or killed anywhere:

- `NotYetMoved` and `SourceThere`: a directory that is still in its old place has no
  snapshot under any name, so what `init` overwrites in the store is nobody's only
  copy, and what it is about to move is there. An agent that makes itself a new
  directory breaks the first, hence the hypothesis `fresh = 0` of `IdentitiesKept`.
- `CloneApart` and `DeletedApart`: no link leads into a profile that is being
  created or deleted, and what a clone holds its source holds too. So removing
  either takes no link's target and no identity away.
- `Whole`: without kills and moves that stopped half way a half copy is the one under
  way. A move by copy is why `Moving` has five phases: the identity is in the old place
  up to `clear`, in the store from there on.
- `Reconciled` and `SavesWhole`: which agents' links and entries agree, during a
  command, and that what it writes is what it renames. Once a command has
  failed the registry may lag behind the links, until an `init` writes what all
  links say.

**`RegistrySync_proofs`**: `TypeCorrect`, `StartupsLoadOneRelease`
(`LoadsOneRelease`), `AlwaysARelease` (`ToolsStayAvailable`), `SuccessIsSeen`
(`SuccessIsVisible`) and `SyncImplementsActiveSet` (`ReplacesWholeSets`), from
`ManifestsParse`, `OwnNames`, `Distinct`, `SomeWorker` and the bounds: whatever the
loader rejects and however many files name one tool. The invariant says where
the directories are at each step of the swap (`SwapPlaces`), that every claimed tool
is staged or in a thread's hands as long as there is no error
(`ClaimsAccounted`, which makes the staged set whole when all threads are done),
that indexed and swapped sets are whole (`SetsWhole`), and what an undisturbed walk
has seen (`WalkExact`). For what startups find it adds what is in `tools/` while meta
and index are behind (`SwappedIn`), which of `tools/` and the index is good at each
step once a sync has been complete, without a fault and after one (`OneIsEnough`),
and that a sync has no result while it runs (`NoResultYet`).

**`UpdateCache_proofs`**: for any number of runs and targets and all limits,
`TypeCorrect`, `NoLockLeftBehind`, `OnlyRacesShareLocks` (`OneYoungHolder`),
`OnlyOverlapsTearTheCache` (`CacheWhole`) and `ReportsAreRecent` (`HitsAreRecent`). The
second and third are as conditional as their names: two runs that read the same absent or
stale lock before either writes do both hold young locks (`raced`), and overlapping saves
do tear the cache (`overlapped`); the theorems say that nothing else does. A young
lock that is held is the one on disk, of the same age (`YoungLockOnDisk`): two holders
would be one. Entries never claim to be younger than they are (`AgesHonest`), and
saves that do not overlap take turns (`SavesInTurn`).

**`SelfUpdate_proofs`**: `TypeCorrect` for any number of processes; for commands
one after the other (the hypothesis `Alone`, stated in each theorem: with two
processes they are false) `BinaryWhole` (`NeverTorn`), `NothingLost`
(`PreviousKept`), `RollbackRestores` (`RecordsTrue`) and `ReportsTrue`
(`SuccessTrue`). The invariant keeps what is on disk between commands (`DiskWhole`),
what a command knows (`CommandKnows`) and where its files are at each step
(`CommandPlaces`).

**`Fallback_proofs`**: for any tools, ecosystems, routes, numbers of builds and
commands, `TypeCorrect`, `RefusedOnlyByFailures` (`UnsupportedIsExplained`) and
`WrongRoutesAreHidden` (`FalseOnlyIfHidden`). The first two need only that a thread leaves
a route when its toolchain has failed, and that failures are not forgotten while it
runs (`RoutesInOrder`). The third is for every `PATH`, whatever receipts are lost or
overwritten: a receipt that counts names the route that made its binary, or that
binary lies where the shell looks before the place of the route, since `record` takes what
it finds first for what the route has made (`receipts.rs:166-193`). The run FallbackStale
shows that the second happens.

The module also has a conditional result, `ReceiptsAreTrueOnOrderedPath`
(`ValidReceiptIsTrue`), whose hypothesis `RoutesFirst` the code does not establish: the
directories of the ecosystems are on the `PATH` in the order of a tool's routes and before
those of the platform's package managers, as in the run Fallback. Then nothing hides the
copy that a receipt is about (`Unhidden`): a toolchain that has made a copy of a tool stays
and is found by every later setup, which therefore never goes on to a later route
(`NeverMissing`, `OldToolchainsKnown`); an upgrade follows a receipt whose copy is not hidden
either. So what a thread is about to save names the place `which` finds (`Recorded`,
`TrueReceipt`), as long as nothing was missed (`RecordsTrue`).

Only model-checked: liveness (`Terminates`, `RunEnds`, `CommandEnds`), which is out
of the prover's reach. The library's induction theorems are not to be had either;
the few facts about recursive functions that the proofs need (`Kept`, what is left of
a list after filtering; `GivenHere`, that `GivenBy` is the function its definition
describes) come from the least counterexample (`LeastNatural`), an induction in
first-order steps.

## 6. Not modelled, and the plan

In the order in which they are to come:

1. Drift: detection, acceptance and fixing against the baseline that `Setup` writes,
   and concurrent setups over its shared temporary file.
2. Team `extends`: chains of URLs with their cache and limits, as frames of a stack
   like `Roles`.
3. Hooks with their timeout, the MCP server's limits and confirmations, the library
   registry, merging into other programs' files (AI hooks, MCP registration,
   skills), log rotation.

Simplifications to lift: a sync has no second sync beside it; the clock of
`UpdateCache` only goes forwards; `registry clear` is one step; `SelfUpdate`
copies to one file do not overlap; a workspace member lies in no other member.

Left out for good: the some 250 tool recipes (declarative data), parsing,
formatting and output, and components that only call external programs. They are
most of the repository's lines, and hold no state whose order or failure could
go wrong.
