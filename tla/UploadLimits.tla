----------------------------- MODULE UploadLimits -----------------------------
(***************************************************************************)
(* The constants that the upload limiter and the deployments it throttles  *)
(* share (NewLimiter in plugins/cloudflare/concurrency.go).                *)
(***************************************************************************)
EXTENDS Naturals, FiniteSets

CONSTANTS
    Workers,               \* goroutines that upload
    HTTPMaxParallel,       \* capacity of normalSem
    HTTPDegradedParallel   \* capacity of degradedSem

ASSUME LimiterAssumption ==
    /\ IsFiniteSet(Workers)
    /\ HTTPMaxParallel \in Nat \ {0}
    /\ HTTPDegradedParallel \in Nat \ {0}
=============================================================================
