------------------------- MODULE MCPluginLifecycle -------------------------
(* PluginLifecycle on small instances. *)
EXTENDS PluginLifecycle, TLC

CONSTANTS c, f, g, e, nc, nf, ng

MCNameOf == (c :> nc) @@ (f :> nf) @@ (g :> nf) @@ (e :> nc)
MCDerived == (f :> nf) @@ (g :> ng)
Workers == Permutations(Requests) \cup Permutations(Flushers)
=============================================================================
