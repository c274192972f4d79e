------------------------------ MODULE Limiter ------------------------------
(***************************************************************************)
(* The limiter of concurrent uploads (plugins/cloudflare/concurrency.go):  *)
(* two buffered channels used as semaphores, and a flag that moves callers *)
(* from the first to the second for good. Tokens are alike, so a channel   *)
(* is the number of tokens in it. Reading the flag, sending and receiving  *)
(* are steps of their own.                                                 *)
(***************************************************************************)
EXTENDS UploadLimits

VARIABLES
    sem,           \* tokens in l.normalSem and in l.degradedSem
    degraded,      \* l.degraded
    at             \* where each worker is in Acquire or Release

limiter == <<sem, degraded, at>>

Sems == {"normal", "degraded"}

(* "normal" and "degraded": blocked on that channel in Acquire. "first",   *)
(* "second" and "third": about to try a channel in Release.                *)
Places == Sems \cup {"out", "in", "first", "second", "third"}

(* Between a successful Acquire and the end of Release. *)
Holding == {"in", "first", "second", "third"}
Holders == {w \in Workers : at[w] \in Holding}
InFlight == {w \in Workers : at[w] = "in"}

Capacity(s) == IF s = "normal" THEN HTTPMaxParallel ELSE HTTPDegradedParallel

TypeOK ==
    /\ sem \in [Sems -> Nat]
    /\ \A s \in Sems : sem[s] <= Capacity(s)
    /\ degraded \in BOOLEAN
    /\ at \in [Workers -> Places]

Init ==
    /\ sem = [s \in Sems |-> 0]
    /\ degraded = FALSE
    /\ at = [w \in Workers |-> "out"]

Goto(w, p) == at' = [at EXCEPT ![w] = p]

-----------------------------------------------------------------------------
(* Acquire picks its channel ... *)
Acquire(w) ==
    /\ at[w] = "out"
    /\ Goto(w, IF degraded THEN "degraded" ELSE "normal")
    /\ UNCHANGED <<sem, degraded>>

(* ... and sends a token, or sees the context cancelled. *)
Enter(w) ==
    /\ at[w] \in Sems /\ sem[at[w]] < Capacity(at[w])
    /\ sem' = [sem EXCEPT ![at[w]] = @ + 1]
    /\ Goto(w, "in")
    /\ UNCHANGED degraded

GiveUp(w) ==
    /\ at[w] \in Sems
    /\ Goto(w, "out")
    /\ UNCHANGED <<sem, degraded>>

(* Release reads the flag, then tries up to three receives. *)
Release(w) ==
    /\ at[w] = "in"
    /\ Goto(w, IF degraded THEN "first" ELSE "second")
    /\ UNCHANGED <<sem, degraded>>

Tries == {"first", "second", "third"}
Tried(p) == IF p = "second" THEN "normal" ELSE "degraded"

NextTry(p) == CASE p = "first" -> "second" [] p = "second" -> "third" [] OTHER -> "out"

(* A receive that does not block: it takes a token or falls through. *)
Try(w) ==
    /\ at[w] \in Tries
    /\ \/ /\ sem[Tried(at[w])] > 0
          /\ sem' = [sem EXCEPT ![Tried(at[w])] = @ - 1]
          /\ Goto(w, "out")
       \/ /\ sem[Tried(at[w])] = 0
          /\ Goto(w, NextTry(at[w]))
          /\ UNCHANGED sem
    /\ UNCHANGED degraded

Degrade ==
    /\ ~degraded
    /\ degraded' = TRUE
    /\ UNCHANGED <<sem, at>>

Leave(w) == Release(w) \/ Try(w)

Next ==
    \/ \E w \in Workers : Acquire(w) \/ Enter(w) \/ GiveUp(w) \/ Leave(w)
    \/ Degrade

Spec == Init /\ [][Next]_limiter

-----------------------------------------------------------------------------
(* Properties. *)

(* Releases take each other's tokens, from either channel, yet none is     *)
(* lost or left over: there are as many tokens as slots in use.            *)
SlotsPaid == Cardinality(Holders) = sem["normal"] + sem["degraded"]

(* What the limiter does guarantee: both channels full at most.            *)
BoundedInFlight ==
    Cardinality(InFlight) <= HTTPMaxParallel + HTTPDegradedParallel

(* A Release that gets to normalSem finds a token there: the last select,  *)
(* there "to avoid leaking a token if Degrade happened between Acquire and *)
(* Release", is never reached, and no order of releases needs it.          *)
SecondTryFinds == \A w \in Workers : at[w] # "third"
=============================================================================
