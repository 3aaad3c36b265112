---------------------------- MODULE RegistrySync ----------------------------
(***************************************************************************)
(* `jarvy registry sync` (registry_remote/sync.rs, cache.rs) beside the    *)
(* plugin loader of another jarvy process (tools/plugins.rs).  A sync      *)
(* fetches the manifest of a release, verifies and keeps it, lets a pool   *)
(* of threads fetch the tool files into tools.new/, puts that directory in *)
(* the place of tools/ by two renames, and writes meta.json and the parsed *)
(* index.json, which the loader prefers as long as both carry the same     *)
(* second.  Syncs follow one another; each may be killed between any two   *)
(* file operations, and every operation may fail.                          *)
(*                                                                         *)
(* A tool file is its name and the release it comes from (in the code, its *)
(* digest).  Inside, it names its tool once more, and the loader goes by   *)
(* that name; a sync only looks whether it can be parsed.  The manifest's  *)
(* .unverified copies, which nobody reads after the sync that wrote them,  *)
(* the users' own plugins, which the loader adds to the synced ones, and   *)
(* file permissions are left out.                                          *)
(***************************************************************************)
EXTENDS Integers, Sequences

CONSTANTS
    Names,          \* tool names
    Releases,       \* states of the remote registry
    Manifest,       \* release -> sequence of the tools in its manifest
    OwnName,        \* tool file -> the name inside it, in lower case; None if the loader
                    \* rejects that name, its command or one of its package names
    Workers,        \* threads of the fetch pool
    MaxTime,        \* bound: seconds that the clock counts
    MaxFaults,      \* bound: faults between two complete syncs
    NoDir,          \* a directory that does not exist
    None            \* no release, no name, and no tool in a worker's hands

\* Manifest::parse: names are unique (DuplicateName)
ASSUME ManifestsParse ==
    /\ Manifest \in [Releases -> Seq(Names)]
    /\ \A r \in Releases : \A i, j \in 1..Len(Manifest[r]) :
          Manifest[r][i] = Manifest[r][j] => i = j

ASSUME Distinct ==
    /\ \A dir \in SUBSET (Names \X Releases) : dir # NoDir
    /\ {None, "done"} \cap Names = {} /\ None \notin Releases \cup {"done"}

\* Two files may name the same tool.
ASSUME OwnNames == OwnName \in [Names \X Releases -> Names \cup {None}]

\* sync.rs, max_parallel: at least one thread
ASSUME SomeWorker == Workers # {}

ASSUME BoundsAreNumbers == MaxTime \in Nat \ {0} /\ MaxFaults \in Nat

VARIABLES
    published,  \* the release that the server serves
    clock,      \* SystemTime::now(), in seconds
    manifest,   \* manifest.json
    tools,      \* tools/, the active set
    staged,     \* tools.new/
    retired,    \* tools.old/
    meta,       \* meta.json: last_synced_at_unix, 0 without the file
    index,      \* index.json: synced_at_unix (0 without the file) and the tools
    sync,       \* the sync under way: its step, release, next_idx and first_error
    hand,       \* worker -> the tool that it fetches, None, or "done"
    parsed,     \* the tools parsed by all workers
    loader,     \* a CLI startup in another process
    last,       \* the release of the last sync, None unless it succeeded
    complete,   \* since the last `clear`, a sync has written everything
    faults      \* kills and failed file operations since

disk == <<manifest, tools, staged, retired, meta, index>>
run == <<sync, hand, parsed>>
history == <<last, complete, faults>>
vars == <<published, clock, disk, run, loader, history>>

------------------------------------------------------------------------------
Files == Names \X Releases

Listed(r) == {Manifest[r][i] : i \in 1..Len(Manifest[r])}

\* The tool files of a release.
FilesOf(r) == Listed(r) \X {r}

NamesIn(dir) == {f[1] : f \in dir}

Total == Len(Manifest[sync.release])

Idle == [pc |-> "idle", release |-> None, next |-> 1, error |-> FALSE]

EmptyHands == [w \in Workers |-> None]

NoIndex == [stamp |-> 0, files |-> {}]

Init ==
    /\ published \in Releases
    /\ clock = 1
    /\ manifest = None /\ tools = NoDir /\ staged = NoDir /\ retired = NoDir
    /\ meta = 0 /\ index = NoIndex
    /\ sync = Idle /\ hand = EmptyHands /\ parsed = {}
    /\ loader = [pc |-> "done", index |-> NoIndex, left |-> {}, seen |-> {}, mixed |-> FALSE]
    /\ last = None /\ complete = FALSE /\ faults = 0

------------------------------------------------------------------------------
(* The world around a sync. *)

\* tools/ is replaced while the loader walks it.
Disturb == loader' = [loader EXCEPT !.mixed = @ \/ loader.pc = "walk"]

\* The maintainers of the registry publish another release.
Publish ==
    /\ published' \in Releases \ {published}
    /\ UNCHANGED <<clock, disk, run, loader, history>>

Tick ==
    /\ clock < MaxTime
    /\ clock' = clock + 1
    /\ UNCHANGED <<published, disk, run, loader, history>>

\* `jarvy registry clear`: remove_dir_all of the whole cache
Clear ==
    /\ sync.pc = "idle"
    /\ manifest' = None /\ tools' = NoDir /\ staged' = NoDir /\ retired' = NoDir
    /\ meta' = 0 /\ index' = NoIndex
    /\ last' = None /\ complete' = FALSE /\ faults' = 0
    /\ Disturb
    /\ UNCHANGED <<published, clock, run>>

------------------------------------------------------------------------------
(* A sync, up to the swap. *)

At(pc) == sync.pc = pc

Goto(pc) == sync' = [sync EXCEPT !.pc = pc] /\ UNCHANGED <<hand, parsed>>

Return == sync' = Idle /\ hand' = EmptyHands /\ parsed' = {}

\* Fetches and parses the manifest, and writes it as manifest.json.unverified.
FetchManifest ==
    /\ At("idle")
    /\ sync' = [Idle EXCEPT !.pc = "verify", !.release = published]
    /\ last' = None
    /\ UNCHANGED <<published, clock, disk, hand, parsed, loader, complete, faults>>

\* The signature is good, or none is required: the manifest is renamed into place.
PromoteManifest ==
    /\ At("verify")
    /\ manifest' = sync.release
    /\ Goto("stage")
    /\ UNCHANGED <<published, clock, tools, staged, retired, meta, index, loader, history>>

\* Mutant of Stage: what an earlier sync has left in tools.new/ stays there.
StageOnLeftovers ==
    /\ At("stage")
    /\ tools' = IF tools = NoDir THEN {} ELSE tools
    /\ staged' = IF staged = NoDir THEN {} ELSE staged
    /\ Goto("fetch")
    /\ UNCHANGED <<published, clock, manifest, retired, meta, index, loader, history>>

\* Mutant of Stage: the tools are fetched into tools/ itself, emptied first.
StageInPlace ==
    /\ At("stage")
    /\ tools' = {} /\ staged' = {}
    /\ Goto("fetch")
    /\ UNCHANGED <<published, clock, manifest, retired, meta, index, loader, history>>

\* list_cached_tool_files, whose tools_dir() creates tools/, and a fresh tools.new/
Stage ==
    /\ At("stage")
    /\ tools' = IF tools = NoDir THEN {} ELSE tools
    /\ staged' = {}
    /\ Goto("fetch")
    /\ UNCHANGED <<published, clock, manifest, retired, meta, index, loader, history>>

\* The loop head of a worker: it stops on another's error and at the end of the list.
Claim(w) ==
    /\ At("fetch")
    /\ hand[w] = None
    /\ IF sync.error \/ sync.next > Total
       THEN /\ hand' = [hand EXCEPT ![w] = "done"]
            /\ UNCHANGED sync
       ELSE /\ hand' = [hand EXCEPT ![w] = Manifest[sync.release][sync.next]]
            /\ sync' = [sync EXCEPT !.next = @ + 1]
    /\ UNCHANGED <<published, clock, disk, parsed, loader, history>>

\* Fetched, with the digest of the manifest, parsed, and written into tools.new/.
FetchTool(w) ==
    /\ At("fetch")
    /\ hand[w] \in Names
    /\ published = sync.release
    /\ staged' = staged \cup {<<hand[w], sync.release>>}
    /\ parsed' = parsed \cup {<<hand[w], sync.release>>}
    /\ hand' = [hand EXCEPT ![w] = None]
    /\ UNCHANGED <<published, clock, manifest, tools, retired, meta, index, sync, loader, history>>

\* Not fetched, not what the manifest says, not parsed or not written: set_first_error.
ToolFails(w) ==
    /\ At("fetch")
    /\ hand[w] \in Names
    /\ hand' = [hand EXCEPT ![w] = "done"]
    /\ sync' = [sync EXCEPT !.error = TRUE]
    /\ UNCHANGED <<published, clock, disk, parsed, loader, history>>

WorkersDone == \A w \in Workers : hand[w] = "done"

\* Mutant of Join: the error in the slot is not looked at.
JoinRegardless ==
    /\ At("fetch") /\ WorkersDone
    /\ Goto("drop")
    /\ UNCHANGED <<published, clock, disk, loader, history>>

\* All workers are joined; the first error is returned.
Join ==
    /\ At("fetch") /\ WorkersDone
    /\ IF sync.error THEN Return ELSE Goto("drop")
    /\ UNCHANGED <<published, clock, disk, loader, history>>

------------------------------------------------------------------------------
(* swap_staging_into_tools_dir, meta.json and index.json. *)

\* remove_dir_all of what an earlier swap has left in tools.old/
DropRetired ==
    /\ At("drop")
    /\ retired' = NoDir
    /\ Goto("retire")
    /\ UNCHANGED <<published, clock, manifest, tools, staged, meta, index, loader, history>>

\* rename tools/ -> tools.old/
Retire ==
    /\ At("retire")
    /\ retired' = tools /\ tools' = NoDir
    /\ Disturb
    /\ Goto("promote")
    /\ UNCHANGED <<published, clock, manifest, staged, meta, index, history>>

\* rename tools.new/ -> tools/
Promote ==
    /\ At("promote")
    /\ tools' = staged /\ staged' = NoDir
    /\ Disturb
    /\ Goto("sweep")
    /\ UNCHANGED <<published, clock, manifest, retired, meta, index, history>>

\* The second rename fails; tools.old/ is renamed back, which may fail as well.
PromoteFails ==
    /\ At("promote")
    /\ faults < MaxFaults
    /\ \/ tools' = retired /\ retired' = NoDir
       \/ UNCHANGED <<tools, retired>>
    /\ Disturb
    /\ faults' = faults + 1
    /\ Return
    /\ UNCHANGED <<published, clock, manifest, staged, meta, index, last, complete>>

\* remove_dir_all(tools.old/)
Sweep ==
    /\ At("sweep")
    /\ retired' = NoDir
    /\ Goto("meta")
    /\ UNCHANGED <<published, clock, manifest, tools, staged, meta, index, loader, history>>

\* Mutant of WriteMeta: the time is that of the next second.
WriteMetaAhead ==
    /\ At("meta")
    /\ meta' = clock + 1
    /\ Goto("index")
    /\ UNCHANGED <<published, clock, manifest, tools, staged, retired, index, loader, history>>

WriteMeta ==
    /\ At("meta")
    /\ meta' = clock
    /\ Goto("index")
    /\ UNCHANGED <<published, clock, manifest, tools, staged, retired, index, loader, history>>

\* Mutant of WriteIndex: an index of the second in meta.json is taken for its own.
WriteIndexOnce ==
    /\ At("index")
    /\ index' = IF index.stamp = meta THEN index ELSE [stamp |-> meta, files |-> parsed]
    /\ last' = sync.release /\ complete' = TRUE /\ faults' = 0
    /\ Return
    /\ UNCHANGED <<published, clock, manifest, tools, staged, retired, meta, loader>>

\* build_remote_index, with the time that is in meta.json; the sync has succeeded.
WriteIndex ==
    /\ At("index")
    /\ index' = [stamp |-> meta, files |-> parsed]
    /\ last' = sync.release /\ complete' = TRUE /\ faults' = 0
    /\ Return
    /\ UNCHANGED <<published, clock, manifest, tools, staged, retired, meta, loader>>

\* It succeeds too without the index: none is written, or the new one is removed
\* because its permissions cannot be tightened.
IndexFails ==
    /\ At("index")
    /\ faults < MaxFaults
    /\ index' \in {index, NoIndex}
    /\ last' = sync.release
    /\ faults' = faults + 1
    /\ Return
    /\ UNCHANGED <<published, clock, manifest, tools, staged, retired, meta, loader, complete>>

------------------------------------------------------------------------------
(* Failures. *)

\* What the network or the registry causes: the sync returns an error.
Refuse ==
    /\ At("verify")
    /\ Return
    /\ UNCHANGED <<published, clock, disk, loader, history>>

\* A file operation fails before it has changed anything, and the sync returns
\* the error; or the process is killed.
Break ==
    /\ sync.pc # "idle"
    /\ faults < MaxFaults
    /\ faults' = faults + 1
    /\ Return
    /\ UNCHANGED <<published, clock, disk, loader, last, complete>>

------------------------------------------------------------------------------
(* The loader: load_user_tools, try_load_remote_index, load_tools_from_dir. *)

Accepted(files) == {f \in files : OwnName[f] # None}

\* What may be loaded of these files, in whichever order they are met: of the accepted
\* ones that name the same tool, one.
Loads(files) ==
    {S \in SUBSET Accepted(files) :
        \A f \in Accepted(files) : \E g \in S : {h \in S : OwnName[h] = OwnName[f]} = {g}}

\* A file read is rejected, or takes the place of one that names the same tool.
With(seen, read) ==
    {g \in seen : \A f \in read : OwnName[f] # OwnName[g]} \cup Accepted(read)

ReadIndex ==
    /\ loader.pc = "done"
    /\ loader' = [pc |-> "meta", index |-> index, left |-> {}, seen |-> {}, mixed |-> FALSE]
    /\ UNCHANGED <<published, clock, disk, run, history>>

\* The index counts if meta.json is of the same second and every entry is accepted;
\* otherwise tools/ is walked.
Trusted(ix) == ix.stamp # 0 /\ ix.stamp = meta /\ Accepted(ix.files) = ix.files

ReadMeta ==
    /\ loader.pc = "meta"
    /\ IF Trusted(loader.index)
       THEN \E S \in Loads(loader.index.files) :
              loader' = [loader EXCEPT !.pc = "done", !.seen = S, !.mixed = FALSE,
                                       !.index = NoIndex]
       ELSE loader' = [loader EXCEPT !.pc = "open", !.index = NoIndex]
    /\ UNCHANGED <<published, clock, disk, run, history>>

OpenDir ==
    /\ loader.pc = "open"
    /\ loader' = IF tools = NoDir
                 THEN [loader EXCEPT !.pc = "done"]
                 ELSE [loader EXCEPT !.pc = "walk", !.left = NamesIn(tools), !.mixed = FALSE]
    /\ UNCHANGED <<published, clock, disk, run, history>>

\* The next entry is read by its path; a file that has gone is skipped, and so is one
\* that is not accepted.
ReadFile ==
    /\ loader.pc = "walk"
    /\ \E n \in loader.left :
          loader' = [loader EXCEPT
            !.left = @ \ {n},
            !.seen = With(@, IF tools = NoDir THEN {} ELSE {f \in tools : f[1] = n}),
            !.pc = IF loader.left = {n} THEN "done" ELSE "walk"]
    /\ UNCHANGED <<published, clock, disk, run, history>>

\* An empty directory has nothing to read.
NothingToRead ==
    /\ loader.pc = "walk" /\ loader.left = {}
    /\ loader' = [loader EXCEPT !.pc = "done"]
    /\ UNCHANGED <<published, clock, disk, run, history>>

------------------------------------------------------------------------------
Step ==
    \/ FetchManifest \/ PromoteManifest \/ Stage
    \/ \E w \in Workers : Claim(w) \/ FetchTool(w) \/ ToolFails(w)
    \/ Join \/ DropRetired \/ Retire \/ Promote \/ PromoteFails \/ Sweep
    \/ WriteMeta \/ WriteIndex \/ IndexFails \/ Refuse \/ Break

Next ==
    \/ Publish \/ Tick \/ Clear
    \/ Step
    \/ ReadIndex \/ ReadMeta \/ OpenDir \/ ReadFile \/ NothingToRead

Spec == Init /\ [][Next]_vars

------------------------------------------------------------------------------
(* Properties. *)

\* The state has the types that its comments give it.
TypeOK ==
    /\ published \in Releases
    /\ clock \in 1..MaxTime
    /\ manifest \in Releases \cup {None}
    /\ {tools, staged, retired} \subseteq {NoDir} \cup SUBSET Files
    /\ meta \in 0..MaxTime
    /\ index \in [stamp : 0..MaxTime, files : SUBSET Files]
    /\ sync \in [pc : {"idle", "verify", "stage", "fetch", "drop", "retire", "promote",
                       "sweep", "meta", "index"},
                 release : Releases \cup {None}, next : Nat \ {0}, error : BOOLEAN]
    /\ hand \in [Workers -> Names \cup {None, "done"}]
    /\ parsed \subseteq Files
    /\ loader \in [pc : {"done", "meta", "open", "walk"},
                   index : [stamp : 0..MaxTime, files : SUBSET Files],
                   left : SUBSET Names, seen : SUBSET Files, mixed : BOOLEAN]
    /\ last \in Releases \cup {None}
    /\ complete \in BOOLEAN
    /\ faults \in 0..MaxFaults

\* The active set is the one that readers find, or that the swap has put aside.
Active == INSTANCE ActiveSet WITH
    active <- CASE tools # NoDir -> tools
                [] tools = NoDir /\ retired # NoDir -> retired
                [] OTHER -> {},
    shown <- tools # NoDir

\* Whatever fails and whenever it is killed, a sync puts one whole release in the
\* place of another, in one step (cache.rs, "Fail-fast staging"): it implements
\* ActiveSet.
ReplacesWholeSets == Active!Spec

Whole == {FilesOf(r) : r \in Releases}

\* Where the directories are at the steps of a sync.
SwapPlaces ==
    /\ sync.pc # "idle" => sync.release \in Releases
    /\ sync.pc \in {"fetch", "drop", "retire", "sweep"} => tools # NoDir
    /\ At("promote") => tools = NoDir /\ retired # NoDir

\* Every tool of the manifest that has been claimed is fetched or in a hand, as
\* long as there is no error; and no thread stops before the end of the list.
ClaimsAccounted ==
    /\ sync.pc \in {"idle", "verify", "stage"} =>
        hand = EmptyHands /\ parsed = {} /\ sync.next = 1 /\ ~sync.error
    /\ At("fetch") =>
        /\ staged \subseteq FilesOf(sync.release) /\ parsed = staged
        /\ \A w \in Workers : hand[w] \in Names => hand[w] \in Listed(sync.release)
        /\ ~sync.error =>
            /\ \A w \in Workers : hand[w] = "done" => sync.next > Total
            /\ \A i \in 1..Total : i < sync.next =>
                \/ <<Manifest[sync.release][i], sync.release>> \in staged
                \/ \E w \in Workers : hand[w] = Manifest[sync.release][i]

\* What is swapped in, and what is indexed, is a whole release.
SetsWhole ==
    /\ sync.pc \in {"drop", "retire", "promote"} => staged = FilesOf(sync.release)
    /\ sync.pc \in {"drop", "retire", "promote", "sweep", "meta", "index"} =>
            parsed = FilesOf(sync.release)
    /\ {tools, retired} \subseteq Whole \cup {{}, NoDir}
    /\ {index.files, loader.index.files} \subseteq Whole \cup {{}}

\* An undisturbed walk has loaded the files that it has not left to read.
WalkExact ==
    /\ loader.pc \in {"meta", "open"} => loader.seen = {}
    /\ loader.pc = "walk" /\ ~loader.mixed =>
        /\ tools # NoDir
        /\ loader.seen \in Loads({f \in tools : f[1] \notin loader.left})

\* The files that a CLI startup would go through, and what it would load, if nothing
\* happened while it reads.
Offered == IF Trusted(index) THEN index.files ELSE IF tools # NoDir THEN tools ELSE {}
Loadable == Loads(Offered)

\* A startup loads one release, of which it leaves out only what it rejects, or nothing,
\* also when syncs are killed between the swap, meta.json and index.json, and a sync runs
\* beside it, unless tools/ is replaced while it is being walked.
LoadsOneRelease ==
    loader.pc = "done" /\ ~loader.mixed =>
        loader.seen = {} \/ \E r \in Releases : loader.seen \in Loads(FilesOf(r))

\* Once a sync has written everything, startups find one release, all of it that they
\* accept, at any time but between the two renames of a swap; there, too, as long as they
\* accept every entry of the index, and then one fault does not change it for the time
\* when no sync is running.
ToolsStayAvailable ==
    (complete /\ \/ faults = 0 /\ ~At("promote")
                 \/ /\ Accepted(index.files) = index.files
                    /\ faults = 0 \/ (faults = 1 /\ sync.pc = "idle"))
        => \E r \in Releases : Loadable = Loads(FilesOf(r))

\* From the second rename on, the release is in tools/; meta.json has a time before
\* the index is written; and an index has a whole release.
SwappedIn ==
    /\ sync.pc \in {"sweep", "meta", "index"} => tools = FilesOf(sync.release)
    /\ At("index") => meta # 0
    /\ index.stamp # 0 => index.files \in Whole

\* One of tools/ and the index is enough: without a fault both are good, except
\* between the two renames and between meta.json and index.json; after one fault one
\* of them is, up to the swap of the next sync.
OneIsEnough ==
    complete =>
        /\ faults = 0 =>
            /\ index.stamp # 0
            /\ tools \in Whole \/ At("promote")
            /\ index.stamp = meta \/ At("index")
        /\ faults = 1 /\ sync.pc \in {"idle", "verify", "stage", "fetch"} =>
            tools \in Whole \/ (index.stamp # 0 /\ index.stamp = meta)

\* After a sync that reports success startups load what they accept of its release,
\* except when its index could not be written and the index of a sync in the same second
\* is there.
SuccessIsVisible ==
    sync.pc = "idle" /\ last # None =>
        \/ Loadable = Loads(FilesOf(last))
        \/ faults > 0 /\ index.stamp = meta

\* A sync has no result while it runs.
NoResultYet == sync.pc # "idle" => last = None

==============================================================================
