------------------------------ MODULE MCDaemon ------------------------------
(* Daemon on small instances. *)
EXTENDS Daemon, TLC

CONSTANTS f, g, d

MCIn == (f :> Site) @@ (g :> d)
=============================================================================
