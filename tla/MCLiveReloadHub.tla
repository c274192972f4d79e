-------------------------- MODULE MCLiveReloadHub --------------------------
(* LiveReloadHub on small instances. *)
EXTENDS LiveReloadHub, TLC

=============================================================================
