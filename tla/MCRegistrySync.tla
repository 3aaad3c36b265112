---------------------------- MODULE MCRegistrySync ---------------------------
(* Two releases of a registry: one of two tools, and one with a third tool file  *)
(* that names the same tool as another, and one that the loader rejects.         *)
EXTENDS RegistrySync

MCManifest ==
    [r \in Releases |-> IF r = "good" THEN <<"foo", "bar">> ELSE <<"foo", "bar", "baz">>]

MCOwnName ==
    [f \in Names \X Releases |->
        CASE f = <<"foo", "bad">> -> None
          [] f = <<"baz", "bad">> -> "bar"
          [] OTHER -> f[1]]
==============================================================================
