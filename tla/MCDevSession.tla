---------------------------- MODULE MCDevSession ----------------------------
(* DevSession on small instances. *)
EXTENDS DevSession, TLC
=============================================================================
