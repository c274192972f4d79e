---------------------------- MODULE RebuildQueue ----------------------------
(***************************************************************************)
(* The rebuild queue of `huan dev` (internal/dev/rebuild.go). Each step is *)
(* what a goroutine does in one critical section of q.mu. A batch of paths *)
(* is a set (the code drops duplicates); the empty set stands for the nil  *)
(* slice, which asks for a full rebuild. (Submit ignores an empty slice    *)
(* that is not nil, and every slice once the queue is closed.)             *)
(***************************************************************************)
EXTENDS Naturals, FiniteSets

CONSTANTS
    Callers,      \* goroutines using the queue
    Paths,        \* paths that change
    Rest,         \* what only a full rebuild covers (templates, settings...)
    MaxSubmits    \* bound: accepted submissions in a behaviour

ASSUME RebuildQueueAssumption ==
    /\ Rest \notin Paths
    /\ MaxSubmits \in Nat

VARIABLES
    running,      \* q.running
    closed,       \* q.closed
    full,         \* q.full
    pending,      \* q.pending (and q.seen)
    pc,           \* what each goroutine is doing in the queue
    batch,        \* the argument of the build callback it is running
    waited,       \* goroutines whose Wait returned after Close (history)
    submits

vars == <<running, closed, full, pending, pc, batch, waited, submits>>

(* A goroutine in Wait sleeps on q.idle until a broadcast wakes it. *)
PC == {"idle", "building", "asleep", "woken"}

TypeOK ==
    /\ running \in BOOLEAN /\ closed \in BOOLEAN /\ full \in BOOLEAN
    /\ pending \subseteq Paths
    /\ pc \in [Callers -> PC]
    /\ batch \in [Callers -> SUBSET Paths]
    /\ waited \subseteq Callers
    /\ submits \in 0..MaxSubmits

Init ==
    /\ running = FALSE /\ closed = FALSE /\ full = FALSE
    /\ pending = {}
    /\ pc = [c \in Callers |-> "idle"]
    /\ batch = [c \in Callers |-> {}]
    /\ waited = {}
    /\ submits = 0

-----------------------------------------------------------------------------
Arguments == SUBSET Paths

(* Variant for the checks: paths are kept beside a full request. *)
MergedKeepingPaths(paths) == pending \cup paths

(* A full request takes precedence over the paths of its batch. *)
Merged(paths) ==
    IF paths = {} \/ full THEN {} ELSE pending \cup paths

(* While a build runs, a submission is merged and returns. *)
SubmitBusy(c, paths) ==
    /\ pc[c] \in {"idle", "building"}
    /\ ~closed /\ running
    /\ submits < MaxSubmits /\ submits' = submits + 1
    /\ pending' = Merged(paths)
    /\ full' = (full \/ paths = {})
    /\ UNCHANGED <<running, closed, pc, batch, waited>>

(* The caller that finds the queue idle runs the build itself. *)
SubmitIdle(c, paths) ==
    /\ pc[c] = "idle"
    /\ ~closed /\ ~running
    /\ submits < MaxSubmits /\ submits' = submits + 1
    /\ running' = TRUE
    /\ batch' = [batch EXCEPT ![c] = Merged(paths)]
    /\ pending' = {} /\ full' = FALSE
    /\ pc' = [pc EXCEPT ![c] = "building"]
    /\ UNCHANGED <<closed, waited>>

Submit(c, paths) == SubmitBusy(c, paths) \/ SubmitIdle(c, paths)

(* The callback returned and more was submitted: build again. *)
BuildAgain(c) ==
    /\ pc[c] = "building"
    /\ full \/ pending # {}
    /\ batch' = [batch EXCEPT ![c] = pending]
    /\ pending' = {} /\ full' = FALSE
    /\ UNCHANGED <<running, closed, pc, waited, submits>>

Broadcast == [c \in Callers |-> IF pc[c] = "asleep" THEN "woken" ELSE pc[c]]

(* Variant for the checks: waiting goroutines are not woken. *)
BuildLastSilently(c) ==
    /\ pc[c] = "building"
    /\ ~full /\ pending = {}
    /\ running' = FALSE
    /\ pc' = [pc EXCEPT ![c] = "idle"]
    /\ UNCHANGED <<closed, full, pending, batch, waited, submits>>

(* It returned and nothing is pending: release the queue. *)
BuildLast(c) ==
    /\ pc[c] = "building"
    /\ ~full /\ pending = {}
    /\ running' = FALSE
    /\ pc' = [Broadcast EXCEPT ![c] = "idle"]
    /\ UNCHANGED <<closed, full, pending, batch, waited, submits>>

Close ==
    /\ ~closed
    /\ closed' = TRUE
    /\ UNCHANGED <<running, full, pending, pc, batch, waited, submits>>

(* The loop of Wait, entered from outside or after a broadcast. *)
Wait(c) ==
    /\ pc[c] \in {"idle", "woken"}
    /\ pc' = [pc EXCEPT ![c] = IF running THEN "asleep" ELSE "idle"]
    /\ waited' = IF closed /\ ~running THEN waited \cup {c} ELSE waited
    /\ UNCHANGED <<running, closed, full, pending, batch, submits>>

Next ==
    \/ \E c \in Callers : \/ \E paths \in Arguments : Submit(c, paths)
                          \/ BuildAgain(c) \/ BuildLast(c) \/ Wait(c)
    \/ Close

Spec == Init /\ [][Next]_vars

-----------------------------------------------------------------------------
(* Properties. *)

(* Once Wait has returned after Close, no build runs and none ever will:   *)
(* "Call Close first when shutting down so no later submission can start   *)
(* another build".                                                         *)
NoWorkAfterWait == waited # {} => ~running

(* The queue implements ChangeQueue: a full request stands for everything, *)
(* and the empty batch of the callback is one.                             *)
Everything == Paths \cup {Rest}
Covers(paths) == IF paths = {} THEN Everything ELSE paths
Building == {c \in Callers : pc[c] = "building"}

Promise == INSTANCE ChangeQueue WITH
    Item <- Everything,
    waiting <- IF full THEN Everything ELSE pending,
    batch <- UNION {Covers(batch[c]) : c \in Building},
    open <- ~closed

(* One build at a time, no accepted change is forgotten or left waiting in *)
(* an idle queue, and each is in the batch of some later build.            *)
KeepsPromise == Promise!FairSpec
=============================================================================
