---------------------------- MODULE MCJITServing ----------------------------
(* JITServing on small instances. *)
EXTENDS JITServing, TLC
=============================================================================
