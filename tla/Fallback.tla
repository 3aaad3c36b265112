------------------------------ MODULE Fallback ------------------------------
(***************************************************************************)
(* Tools without an installer for this platform (tools/fallback.rs,        *)
(* receipts.rs, commands/upgrade.rs): the threads of a setup try the       *)
(* declared routes of their tools in order, install a missing toolchain    *)
(* through jarvy itself, and leave a receipt that says which route a       *)
(* binary came from; `jarvy upgrade` follows the receipts that still       *)
(* describe the binary they name.  Beside them users install, replace and  *)
(* remove copies of the tools by other means.                              *)
(*                                                                         *)
(* A copy of a tool is identified by the place it is in and by its stat    *)
(* signature; no two builds have the same one.  Saving the receipts is one *)
(* step (UpdateCache has the steps of the same code); each package name is *)
(* the tool's, and good.                                                   *)
(***************************************************************************)
EXTENDS Integers, Sequences

CONSTANTS
    Tools,
    Ecos,       \* FallbackEco: the ecosystem package managers
    Routes,     \* tool -> the routes of its `fallback:` slot, in order
    Native,     \* where the platform's package managers put their tools
    Path,       \* the places on the PATH, in order
    MaxBuilds,  \* bound: binaries ever put on the machine
    MaxCommands, \* bound: commands started
    None        \* no copy, no receipt, no place

ASSUME RoutesDeclared == Routes \in [Tools -> Seq(Ecos) \ {<<>>}]

ASSUME PlacesKnown ==
    /\ Native \notin Ecos /\ None \notin Ecos \cup {Native}
    /\ Path \in Seq(Ecos \cup {Native})

ASSUME Bounds == MaxBuilds \in Nat /\ MaxCommands \in Nat /\ None \notin 0..MaxBuilds

VARIABLES
    present,    \* the ecosystems whose command is on the PATH
    copies,     \* tool -> place -> the signature of the binary there
    builds,     \* binaries made so far
    receipts,   \* install-receipts.json
    has_cache,  \* has(): what this process remembers of the commands
    bootstrap_failed, \* BOOTSTRAP_FAILED of this process
    job,        \* tool -> what its thread does
    command,    \* what the process does: "none", "setup", or "upgrade"
    commands,   \* commands started
    missed      \* history: a route has installed a tool whose receipt was not saved,
                \* or was overwritten by a thread that had loaded the receipts before

world == <<present, copies, builds>>
process == <<has_cache, bootstrap_failed, command, commands>>
vars == <<world, receipts, process, job, missed>>

------------------------------------------------------------------------------
Places == Ecos \cup {Native}

\* `which`: the copy that the shell finds.
Which(t) ==
    LET found == {i \in 1..Len(Path) : copies[t][Path[i]] # None}
    IN  IF found = {} THEN None ELSE Path[CHOOSE i \in found : \A j \in found : i <= j]

NoReceipts == [t \in Tools |-> None]

\* The receipt that `record` writes for a route, with the binary that `which` finds.
ReceiptFor(t, eco) ==
    [route |-> eco, at |-> Which(t), sig |-> IF Which(t) = None THEN None ELSE copies[t][Which(t)]]

\* is_valid
IsValid(t, r) == r.at # None /\ copies[t][r.at] = r.sig

\* The routes that load_valid and lookup leave for t: one, or none.
ValidRoute(t) == IF receipts[t] # None /\ IsValid(t, receipts[t]) THEN {receipts[t].route} ELSE {}

\* `route` is the route being tried, `again` whether its toolchain has just been
\* installed, `saw` what the lookup found, `store` the receipts as loaded.
NoJob == [pc |-> "idle", route |-> 1, again |-> FALSE, saw |-> FALSE, eco |-> None,
          receipt |-> None, store |-> NoReceipts]

Init ==
    /\ present \in SUBSET Ecos
    /\ copies \in [Tools -> {[p \in Places |-> None], [p \in Places |-> IF p = Native THEN 0 ELSE None]}]
    /\ builds = 0
    /\ receipts = NoReceipts
    /\ has_cache = [e \in Ecos |-> "unset"] /\ bootstrap_failed = {}
    /\ job = [t \in Tools |-> NoJob]
    /\ command = "none" /\ commands = 0
    /\ missed = FALSE

At(t, pc) == job[t].pc = pc

Goto(t, pc) == job' = [job EXCEPT ![t].pc = pc]

Eco(t) == Routes[t][job[t].route]

------------------------------------------------------------------------------
(* A setup. *)

\* The tools that are missing, or too old, and have no installer here.
StartSetup ==
    /\ command = "none" /\ commands < MaxCommands
    /\ command' = "setup" /\ commands' = commands + 1
    /\ has_cache' = [e \in Ecos |-> "unset"] /\ bootstrap_failed' = {}
    /\ \E wanted \in SUBSET Tools \ {{}} :
          job' = [t \in Tools |-> IF t \in wanted THEN [NoJob EXCEPT !.pc = "ask"] ELSE NoJob]
    /\ UNCHANGED <<world, receipts, missed>>

\* Mutant of NextRoute: one route too many.
NextRouteOffByOne(t) ==
    job' = [job EXCEPT ![t] =
        IF job[t].route <= Len(Routes[t])
        THEN [NoJob EXCEPT !.pc = "ask", !.route = job[t].route + 1]
        ELSE [NoJob EXCEPT !.pc = "unsupported"]]

\* The next route, or Unsupported when there is none.
NextRoute(t) ==
    job' = [job EXCEPT ![t] =
        IF job[t].route < Len(Routes[t])
        THEN [NoJob EXCEPT !.pc = "ask", !.route = job[t].route + 1]
        ELSE [NoJob EXCEPT !.pc = "unsupported"]]

\* ensure_toolchain, once has() has answered.
Answered(t, found) ==
    CASE found -> Goto(t, "run") /\ UNCHANGED bootstrap_failed
      [] ~found /\ ~job[t].again -> Goto(t, "memo") /\ UNCHANGED bootstrap_failed
      [] ~found /\ job[t].again ->
            /\ bootstrap_failed' = bootstrap_failed \cup {Eco(t)}
            /\ NextRoute(t)

\* has(): the answer is in the cache; or the command is looked for ...
Ask(t) ==
    /\ At(t, "ask")
    /\ IF has_cache[Eco(t)] = "unset"
       THEN /\ job' = [job EXCEPT ![t].pc = "remember", ![t].saw = Eco(t) \in present]
            /\ UNCHANGED bootstrap_failed
       ELSE Answered(t, has_cache[Eco(t)] = "yes")
    /\ UNCHANGED <<world, receipts, has_cache, command, commands, missed>>

\* ... and the answer remembered.
Remember(t) ==
    /\ At(t, "remember")
    /\ has_cache' = [has_cache EXCEPT ![Eco(t)] = IF job[t].saw THEN "yes" ELSE "no"]
    /\ Answered(t, job[t].saw)
    /\ UNCHANGED <<world, receipts, command, commands, missed>>

\* A toolchain that could not be installed before is not tried again.
CheckMemo(t) ==
    /\ At(t, "memo")
    /\ IF Eco(t) \in bootstrap_failed THEN NextRoute(t) ELSE Goto(t, "bootstrap")
    /\ UNCHANGED <<world, receipts, process, missed>>

\* Mutant of Bootstrap: a failure is not remembered.
BootstrapUnremembered(t) ==
    /\ At(t, "bootstrap")
    /\ \/ present' \in {present, present \cup {Eco(t)}}
          /\ Goto(t, "forget")
       \/ NextRoute(t) /\ UNCHANGED present
    /\ UNCHANGED <<copies, builds, receipts, has_cache, bootstrap_failed, command, commands, missed>>

\* registry::add of the toolchain: on the PATH, installed but elsewhere, or failed.
Bootstrap(t) ==
    /\ At(t, "bootstrap")
    /\ \/ present' \in {present, present \cup {Eco(t)}}
          /\ Goto(t, "forget") /\ UNCHANGED bootstrap_failed
       \/ bootstrap_failed' = bootstrap_failed \cup {Eco(t)}
          /\ NextRoute(t) /\ UNCHANGED present
    /\ UNCHANGED <<copies, builds, receipts, has_cache, command, commands, missed>>

\* forget_has, and has() once more
Forget(t) ==
    /\ At(t, "forget")
    /\ has_cache' = [has_cache EXCEPT ![Eco(t)] = "unset"]
    /\ job' = [job EXCEPT ![t].pc = "ask", ![t].again = TRUE]
    /\ UNCHANGED <<world, receipts, bootstrap_failed, command, commands, missed>>

\* A package manager puts a new binary of t into a place.
Build(t, place) ==
    /\ builds < MaxBuilds
    /\ builds' = builds + 1
    /\ copies' = [copies EXCEPT ![t][place] = builds + 1]

\* Mutant of RunRoute: after a failed installation the next route is tried.
RunRouteCascades(t) ==
    /\ At(t, "run")
    /\ \/ Eco(t) \in present /\ Build(t, Eco(t))
          /\ job' = [job EXCEPT ![t].pc = "load", ![t].eco = Eco(t)]
       \/ UNCHANGED <<copies, builds>> /\ NextRoute(t)
    /\ UNCHANGED <<present, receipts, process, missed>>

\* The route installs the tool; a failure ends the job, without another route.
RunRoute(t) ==
    /\ At(t, "run")
    /\ \/ Eco(t) \in present /\ Build(t, Eco(t))
          /\ job' = [job EXCEPT ![t].pc = "load", ![t].eco = Eco(t)]
       \/ UNCHANGED <<copies, builds>> /\ Goto(t, "failed")
    /\ UNCHANGED <<present, receipts, process, missed>>

------------------------------------------------------------------------------
(* Receipts. *)

\* record: the store is loaded, and the binary looked up.
LoadReceipts(t) ==
    /\ At(t, "load")
    /\ job' = [job EXCEPT ![t].pc = "save", ![t].store = receipts,
                          ![t].receipt = ReceiptFor(t, job[t].eco)]
    /\ UNCHANGED <<world, receipts, process, missed>>

\* It is saved with the receipt; a receipt that cannot be saved is done without.
SaveReceipts(t) ==
    /\ At(t, "save")
    /\ receipts' = [job[t].store EXCEPT ![t] = job[t].receipt]
    /\ job' = [job EXCEPT ![t] = [NoJob EXCEPT !.pc = "installed"]]
    /\ missed' = (missed \/ receipts # job[t].store)
    /\ UNCHANGED <<world, process>>

SaveFails(t) ==
    /\ At(t, "save")
    /\ job' = [job EXCEPT ![t] = [NoJob EXCEPT !.pc = "unrecorded"]]
    /\ missed' = TRUE
    /\ UNCHANGED <<world, receipts, process>>

------------------------------------------------------------------------------
(* `jarvy upgrade <tool>`, with and without --native. *)

\* A tool is upgraded if there is one: by the route of its valid receipt, or natively.
StartUpgrade(t) ==
    /\ command = "none" /\ commands < MaxCommands
    /\ Which(t) # None
    /\ command' = "upgrade" /\ commands' = commands + 1
    /\ \/ \E eco \in ValidRoute(t) :
             job' = [u \in Tools |-> IF u = t THEN [NoJob EXCEPT !.pc = "reroute", !.eco = eco] ELSE NoJob]
       \/ ValidRoute(t) = {} /\ job' = [u \in Tools |-> IF u = t THEN [NoJob EXCEPT !.pc = "native"] ELSE NoJob]
       \/ job' = [u \in Tools |-> IF u = t THEN [NoJob EXCEPT !.pc = "flag"] ELSE NoJob]
    /\ UNCHANGED <<world, receipts, has_cache, bootstrap_failed, missed>>

\* perform_fallback_upgrade: nothing is bootstrapped.
Reroute(t) ==
    /\ At(t, "reroute")
    /\ \/ job[t].eco \in present /\ Build(t, job[t].eco) /\ Goto(t, "load")
       \/ UNCHANGED <<copies, builds>> /\ Goto(t, "failed")
    /\ UNCHANGED <<present, receipts, process, missed>>

\* perform_upgrade
UpgradeNative(t) ==
    /\ At(t, "native") \/ At(t, "flag")
    /\ \/ copies[t][Native] # None /\ Build(t, Native)
          /\ Goto(t, IF At(t, "flag") THEN "remove" ELSE "upgraded")
       \/ UNCHANGED <<copies, builds>> /\ Goto(t, "failed")
    /\ UNCHANGED <<present, receipts, process, missed>>

\* receipts::remove, for --native
RemoveReceipt(t) ==
    /\ At(t, "remove")
    /\ receipts' \in {receipts, [receipts EXCEPT ![t] = None]}
    /\ Goto(t, "upgraded")
    /\ UNCHANGED <<world, process, missed>>

------------------------------------------------------------------------------
Pending == {"ask", "remember", "memo", "bootstrap", "forget", "run"}

Finished == {"idle", "unsupported", "failed", "installed", "unrecorded", "upgraded"}

\* The command ends, or is killed.
End ==
    /\ command # "none"
    /\ command' = "none"
    /\ IF \A t \in Tools : job[t].pc \in Finished
       THEN UNCHANGED job ELSE job' = [t \in Tools |-> NoJob]
    /\ missed' = (missed \/ \E t \in Tools : At(t, "load") \/ At(t, "save"))
    /\ UNCHANGED <<world, receipts, has_cache, bootstrap_failed, commands>>

\* Users install and replace copies of the platform at any time, and remove any
\* copy between commands.
UserInstalls == \E t \in Tools :
    Build(t, Native) /\ UNCHANGED <<present, receipts, process, job, missed>>

UserRemoves == \E t \in Tools, p \in Places :
    /\ command = "none" /\ copies[t][p] # None
    /\ copies' = [copies EXCEPT ![t][p] = None]
    /\ UNCHANGED <<present, builds, receipts, process, job, missed>>

Step(t) ==
    \/ Ask(t) \/ Remember(t) \/ CheckMemo(t) \/ Bootstrap(t) \/ Forget(t) \/ RunRoute(t)
    \/ LoadReceipts(t) \/ SaveReceipts(t) \/ SaveFails(t)
    \/ Reroute(t) \/ UpgradeNative(t) \/ RemoveReceipt(t)

Next ==
    \/ StartSetup \/ End \/ UserInstalls \/ UserRemoves
    \/ \E t \in Tools : StartUpgrade(t) \/ Step(t)

Spec == Init /\ [][Next]_vars

------------------------------------------------------------------------------
(* Properties. *)

Receipt == [route : Ecos, at : Places \cup {None}, sig : 0..MaxBuilds \cup {None}]

Job == [pc : Pending \cup Finished \cup {"reroute", "load", "save", "native", "flag", "remove"},
        route : Nat, again : BOOLEAN, saw : BOOLEAN, eco : Ecos \cup {None},
        receipt : Receipt \cup {None}, store : [Tools -> Receipt \cup {None}]]

\* The state has the types that its comments give it.
TypeOK ==
    /\ present \subseteq Ecos /\ bootstrap_failed \subseteq Ecos
    /\ builds \in 0..MaxBuilds
    /\ copies \in [Tools -> [Places -> {None} \cup 0..MaxBuilds]]
    /\ has_cache \in [Ecos -> {"unset", "yes", "no"}]
    /\ receipts \in [Tools -> Receipt \cup {None}]
    /\ command \in {"none", "setup", "upgrade"} /\ commands \in 0..MaxCommands
    /\ job \in [Tools -> Job]
    /\ \A t \in Tools : job[t].route \in 1..Len(Routes[t])
    /\ missed \in BOOLEAN

\* Where a tool's ecosystems are on the PATH in the order of its routes, and before
\* the platform's places, a receipt that counts names the route that made its
\* binary, through routes that change, upgrades, and what users install and remove,
\* as long as no installation has lost its receipt.
ValidReceiptIsTrue ==
    ~missed => \A t \in Tools : \A eco \in ValidRoute(t) : receipts[t].at = eco

\* receipts.rs:11-16 says that a receipt is honoured only while the live binary
\* still matches, and that a later native reinstall makes it stale.
ReceiptIsLive ==
    \A t \in Tools : \A eco \in ValidRoute(t) : Which(t) = eco

\* A tool is unsupported only when each of its toolchains has failed in this very
\* process: that another thread is installing one does not turn it away.
UnsupportedIsExplained ==
    \A t \in Tools : At(t, "unsupported") => \A i \in 1..Len(Routes[t]) : Routes[t][i] \in bootstrap_failed

------------------------------------------------------------------------------
(* What makes them inductive. *)

\* Routes have been left only because their toolchains failed.
RoutesInOrder ==
    \A t \in Tools : job[t].pc \in Pending =>
        \A i \in 1..(job[t].route - 1) : Routes[t][i] \in bootstrap_failed

\* A setup that has yet to install a tool does not miss a toolchain that has been
\* there all along: it has made a copy of the tool before.
NeverMissing(e) ==
    /\ e \in present /\ e \notin bootstrap_failed
    /\ has_cache[e] # "no"
    /\ \A u \in Tools : job[u].pc \in Pending /\ Eco(u) = e =>
        /\ job[u].pc \in {"ask", "remember", "run"} /\ ~job[u].again
        /\ job[u].pc = "remember" => job[u].saw

OldToolchainsKnown ==
    \A t \in Tools, e \in Ecos : copies[t][e] # None =>
        /\ e \in present
        /\ job[t].pc \in Pending => NeverMissing(e)

\* Nothing hides a copy that e makes of t.
Unhidden(t, e) ==
    \E i \in 1..Len(Path) :
        /\ Path[i] = e
        /\ \A j \in 1..(i - 1) : Path[j] \in Ecos \ {e} /\ copies[t][Path[j]] = None

\* What is recorded or upgraded by a route is known, and the copy is there; no thread
\* outlives its command.
JobsInStep ==
    /\ command = "none" => \A t \in Tools : job[t].pc \in Finished
    /\ \A t \in Tools :
        /\ job[t].pc \in {"reroute", "load", "save"} => job[t].eco \in Ecos
        /\ job[t].pc = "load" => copies[t][job[t].eco] # None

\* A receipt with the place of its route, and a copy.
TrueReceipt(r) == r.at = r.route /\ r.sig # None

\* The ecosystems that have made a copy of a tool are among its routes; a copy that is
\* about to be recorded, or upgraded, is the one that `which` finds, and so is that of
\* a receipt that counts.
Recorded(t) ==
    /\ \A e \in Ecos : copies[t][e] # None => e \in {Routes[t][i] : i \in 1..Len(Routes[t])}
    /\ job[t].pc = "reroute" => copies[t][job[t].eco] # None
    /\ job[t].pc \in {"reroute", "load", "save"} => Unhidden(t, job[t].eco)
    /\ job[t].pc = "save" => job[t].receipt.route = job[t].eco /\ TrueReceipt(job[t].receipt)
    /\ receipts[t] # None => TrueReceipt(receipts[t])
    /\ job[t].pc \notin {"load", "save"} => \A eco \in ValidRoute(t) : Unhidden(t, eco)

\* As long as no installation has lost its receipt, this holds of all tools.
RecordsTrue == ~missed => \A t \in Tools : Recorded(t)

\* The shell meets place p before it meets e.
FoundBefore(p, e) == \E i \in 1..Len(Path) : Path[i] = p /\ \A j \in 1..i : Path[j] # e

\* A receipt is about the binary of its route, or of a place that the shell searches
\* before that of the route.
Placed(r) == r # None => r.at \in {None, r.route} \/ FoundBefore(r.at, r.route)

ReceiptsPlaced ==
    \A t \in Tools :
        /\ Placed(receipts[t])
        /\ At(t, "save") => Placed(job[t].receipt) /\ \A u \in Tools : Placed(job[t].store[u])

\* Whatever the PATH and whatever receipts are lost: a receipt that counts without
\* being about the binary of its route is about one that hid it.
FalseOnlyIfHidden ==
    \A t \in Tools : \A eco \in ValidRoute(t) :
        receipts[t].at = eco \/ FoundBefore(receipts[t].at, eco)
==============================================================================
