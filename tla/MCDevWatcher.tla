---------------------------- MODULE MCDevWatcher ----------------------------
(* DevWatcher on small instances. *)
EXTENDS DevWatcher, TLC
=============================================================================
