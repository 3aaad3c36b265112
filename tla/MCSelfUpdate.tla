----------------------------- MODULE MCSelfUpdate ----------------------------
(* Two releases that run, one that starts and fails, one for another machine. *)
EXTENDS SelfUpdate

Unix == {FALSE}
Both == BOOLEAN
==============================================================================
