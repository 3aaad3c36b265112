------------------------------ MODULE ActiveSet ------------------------------
(***************************************************************************)
(* What `jarvy registry sync` promises about the set of synced tools that  *)
(* the plugin loader finds (registry_remote/cache.rs, sync.rs): it is      *)
(* always all of one release or nothing, a release takes the place of      *)
(* another in one step, and only while the set is out of sight; out of     *)
(* sight, it may come back as it was, or be lost.                          *)
(***************************************************************************)
CONSTANTS
    Releases,
    FilesOf(_)    \* the tool files of a release

VARIABLES
    active,       \* the files of the active set
    shown         \* the active set is where readers look for it

Init == active = {} /\ shown = FALSE

Hide == shown /\ shown' = FALSE /\ active' = active

Replace(r) == ~shown /\ shown' = TRUE /\ active' = FilesOf(r)

Restore == ~shown /\ shown' = TRUE /\ active' = active

Forget == ~shown /\ active' = {} /\ shown' \in BOOLEAN

Clear == active' = {} /\ shown' = FALSE

Next == Hide \/ (\E r \in Releases : Replace(r)) \/ Restore \/ Forget \/ Clear

Spec == Init /\ [][Next]_<<active, shown>>
==============================================================================
