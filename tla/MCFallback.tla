----------------------------- MODULE MCFallback ------------------------------
(* Two tools, one with two routes; both share the first ecosystem.             *)
EXTENDS Fallback

MCRoutes == [t \in Tools |-> IF t = "knip" THEN <<"npm", "cargo">> ELSE <<"npm">>]

EcosFirst == <<"npm", "cargo", "native">>
NativeFirst == <<"native", "npm", "cargo">>
==============================================================================
