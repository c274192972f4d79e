---------------------------- MODULE ChangeQueue ----------------------------
(***************************************************************************)
(* What a rebuild queue promises: builds run one at a time, and whatever   *)
(* is accepted while one runs is in a later one, whose batch holds it. No  *)
(* change waits while nothing runs.                                        *)
(***************************************************************************)

CONSTANT Item       \* what a caller can ask to be rebuilt

VARIABLES
    waiting,        \* accepted and in no batch yet
    batch,          \* what the running build was asked for; {} when idle
    open            \* requests are still accepted

vars == <<waiting, batch, open>>

Init == waiting = {} /\ batch = {} /\ open = TRUE

(* An idle queue builds what it accepts at once. *)
Start(S) ==
    /\ open /\ batch = {}
    /\ batch' = S
    /\ UNCHANGED <<waiting, open>>

Accept(S) ==
    /\ open /\ batch # {}
    /\ waiting' = waiting \cup S
    /\ UNCHANGED <<batch, open>>

(* A build ends: the next one takes all that waits, or there is none. *)
BuildEnds ==
    /\ batch # {}
    /\ batch' = waiting
    /\ waiting' = {}
    /\ UNCHANGED open

Close ==
    /\ open' = FALSE
    /\ UNCHANGED <<waiting, batch>>

Next ==
    \/ \E S \in (SUBSET Item) \ {{}} : Start(S) \/ Accept(S)
    \/ BuildEnds
    \/ Close

Spec == Init /\ [][Next]_vars

FairSpec == Spec /\ WF_vars(BuildEnds)
=============================================================================
