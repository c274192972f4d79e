----------------------------- MODULE DevSession -----------------------------
(***************************************************************************)
(* A `huan dev` session (cmd/huan/dev.go): the callback of its rebuild     *)
(* queue builds into tmpDir.next and publishes it by renaming directories  *)
(* (internal/build/swap.go) while a worker deletes the previous output,    *)
(* and the deferred calls end the session around whatever still runs.      *)
(*                                                                         *)
(* A directory is Missing, Partial (being written or being deleted) or the *)
(* complete output of a build, named by how many accepted submissions its  *)
(* sources include at least. The n-th submission follows the n-th edit.    *)
(***************************************************************************)
EXTENDS RebuildQueue

CONSTANTS
    Watcher,      \* the goroutine of a callback of the watcher
    Main,         \* the goroutine of the command
    Missing, Partial

(* The other callers are the goroutines that admin requests start, which   *)
(* ask for a full rebuild, and further callbacks of the watcher, which     *)
(* start while an earlier one builds. Any of them may submit anything.     *)
Submitters == Callers \ {Main}

ASSUME DevSessionAssumption ==
    /\ Watcher # Main /\ {Watcher, Main} \subseteq Callers
    /\ Missing # Partial /\ {Missing, Partial} \cap Nat = {}

VARIABLES
    phase,        \* where each goroutine is in the callback
    revision,     \* the submissions its build includes
    live,         \* tmpDir, which is served
    next,         \* tmpDir.next
    old,          \* tmpDir.old
    cleaning,     \* swapper.workers counts a worker
    failed,       \* the last word to the browsers was an alert
    answered,     \* revision of the last reload or alert (history)
    lost,         \* some rollback failed (history)
    stage         \* how far Main is in the deferred calls

queue == vars
dirs == <<live, next, old>>
session == <<phase, revision, dirs, cleaning, failed, answered, lost>>
allVars == <<queue, session, stage>>

Phase == {"none", "build", "swap", "move", "publish", "rollback",
          "failed", "swapped", "done"}
Stage == {"serving", "closing", "closed", "drained", "quiet", "removed", "exited"}
Revision == 0..MaxSubmits
Dir == Revision \cup {Missing, Partial}

SessionTypeOK ==
    /\ TypeOK
    /\ phase \in [Callers -> Phase] /\ revision \in [Callers -> Revision]
    /\ live \in Dir /\ next \in Dir /\ old \in Dir
    /\ cleaning \in BOOLEAN /\ failed \in BOOLEAN /\ lost \in BOOLEAN
    /\ answered \in Revision /\ stage \in Stage

(* The first build went straight into tmpDir. *)
SessionInit ==
    /\ Init
    /\ phase = [c \in Callers |-> "none"]
    /\ revision = [c \in Callers |-> 0]
    /\ live = 0 /\ next = Missing /\ old = Missing
    /\ cleaning = FALSE /\ failed = FALSE /\ answered = 0 /\ lost = FALSE
    /\ stage = "serving"

-----------------------------------------------------------------------------
(* The callback. *)

Goto(c, p) == phase' = [phase EXCEPT ![c] = p]

Edit(c, paths) ==
    /\ stage # "exited" /\ phase[c] = "none" /\ pc[c] = "idle"
    /\ Submit(c, paths)
    /\ UNCHANGED <<session, stage>>

(* tmpDir.next is removed and written anew from the sources of the moment. *)
Begin(c) ==
    /\ pc[c] = "building" /\ phase[c] = "none"
    /\ next' = Partial
    /\ revision' = [revision EXCEPT ![c] = submits]
    /\ Goto(c, "build")
    /\ UNCHANGED <<queue, live, old, cleaning, failed, answered, lost, stage>>

Built(c) ==
    /\ phase[c] = "build"
    /\ next' = revision[c]
    /\ Goto(c, "swap")
    /\ UNCHANGED <<queue, revision, live, old, cleaning, failed, answered, lost, stage>>

BuildFails(c) ==
    /\ phase[c] = "build"
    /\ Goto(c, "failed")
    /\ UNCHANGED <<queue, revision, dirs, cleaning, failed, answered, lost, stage>>

(* Variant for the checks: the previous cleanup is not waited for. *)
ReclaimAtOnce(c) ==
    /\ phase[c] = "swap"
    /\ old' = Missing
    /\ Goto(c, "move")
    /\ UNCHANGED <<queue, revision, live, next, cleaning, failed, answered, lost, stage>>

(* The previous cleanup is over: the name tmpDir.old is free. *)
Reclaim(c) ==
    /\ phase[c] = "swap" /\ ~cleaning
    /\ old' = Missing
    /\ Goto(c, "move")
    /\ UNCHANGED <<queue, revision, live, next, cleaning, failed, answered, lost, stage>>

(* The first rename. *)
MoveLive(c) ==
    /\ phase[c] = "move"
    /\ live # Missing /\ old = Missing
    /\ old' = live /\ live' = Missing
    /\ Goto(c, "publish")
    /\ UNCHANGED <<queue, revision, next, cleaning, failed, answered, lost, stage>>

MoveFails(c) ==
    /\ phase[c] = "move"
    /\ Goto(c, "failed")
    /\ UNCHANGED <<queue, revision, dirs, cleaning, failed, answered, lost, stage>>

(* The second rename, and the worker that will delete the old output. *)
Publish(c) ==
    /\ phase[c] = "publish"
    /\ next # Missing /\ live = Missing
    /\ live' = next /\ next' = Missing
    /\ cleaning' = TRUE
    /\ Goto(c, "swapped")
    /\ UNCHANGED <<queue, revision, old, failed, answered, lost, stage>>

(* Variant for the checks: the error of the second rename is ignored. *)
PublishFailsUnnoticed(c) ==
    /\ phase[c] = "publish"
    /\ Goto(c, "swapped")
    /\ UNCHANGED <<queue, revision, dirs, cleaning, failed, answered, lost, stage>>

PublishFails(c) ==
    /\ phase[c] = "publish"
    /\ Goto(c, "rollback")
    /\ UNCHANGED <<queue, revision, dirs, cleaning, failed, answered, lost, stage>>

(* The rollback restores tmpDir when the rename succeeds. *)
Rollback(c) ==
    /\ phase[c] = "rollback"
    /\ old # Missing
    /\ live' = old /\ old' = Missing
    /\ Goto(c, "failed")
    /\ UNCHANGED <<queue, revision, next, cleaning, failed, answered, lost, stage>>

RollbackFails(c) ==
    /\ phase[c] = "rollback"
    /\ lost' = TRUE
    /\ Goto(c, "failed")
    /\ UNCHANGED <<queue, revision, dirs, cleaning, failed, answered, stage>>

(* rebuildErr # nil: drop the output, BroadcastAlert. *)
Alert(c) ==
    /\ phase[c] = "failed"
    /\ next' = Missing
    /\ failed' = TRUE /\ answered' = revision[c]
    /\ Goto(c, "done")
    /\ UNCHANGED <<queue, revision, live, old, cleaning, lost, stage>>

(* BroadcastReload. *)
Reload(c) ==
    /\ phase[c] = "swapped"
    /\ failed' = FALSE /\ answered' = revision[c]
    /\ Goto(c, "done")
    /\ UNCHANGED <<queue, revision, dirs, cleaning, lost, stage>>

(* The callback has returned to the loop of Submit. *)
Return(c) ==
    /\ phase[c] = "done"
    /\ BuildAgain(c) \/ BuildLast(c)
    /\ Goto(c, "none")
    /\ UNCHANGED <<revision, dirs, cleaning, failed, answered, lost, stage>>

Rebuild(c) ==
    \/ Begin(c) \/ Built(c) \/ BuildFails(c)
    \/ Reclaim(c) \/ MoveLive(c) \/ MoveFails(c)
    \/ Publish(c) \/ PublishFails(c) \/ Rollback(c) \/ RollbackFails(c)
    \/ Alert(c) \/ Reload(c) \/ Return(c)

-----------------------------------------------------------------------------
(* The worker that deletes the previous output. *)

CleanSome ==
    /\ cleaning
    /\ old \notin {Missing, Partial}
    /\ old' = Partial
    /\ UNCHANGED <<queue, phase, revision, live, next, cleaning, failed, answered, lost, stage>>

CleanEnds ==
    /\ cleaning
    /\ old' = Missing /\ cleaning' = FALSE
    /\ UNCHANGED <<queue, phase, revision, live, next, failed, answered, lost, stage>>

-----------------------------------------------------------------------------
(* The deferred calls, in the order they run. *)

(* The server has returned; a rebuild that an admin request started in a   *)
(* goroutine of its own may still run. cancel().                           *)
Cancel ==
    /\ stage = "serving"
    /\ stage' = "closing"
    /\ UNCHANGED <<queue, session>>

CloseQueue ==
    /\ stage = "closing"
    /\ Close
    /\ stage' = "closed"
    /\ UNCHANGED session

(* watcherWG.Wait: Run of the watcher waits for its callback. *)
WaitWatcher ==
    /\ stage = "closed"
    /\ pc[Watcher] # "building"
    /\ stage' = "drained"
    /\ UNCHANGED <<queue, session>>

(* Variant for the checks: Main does not wait for the queue. *)
SkipWaitQueue ==
    /\ stage = "drained"
    /\ stage' = "quiet"
    /\ UNCHANGED <<queue, session>>

(* queue.Wait *)
WaitQueue ==
    /\ stage = "drained"
    /\ Wait(Main)
    /\ stage' = IF running THEN "drained" ELSE "quiet"
    /\ UNCHANGED session

(* swapper.Wait, then the deferred removal of tmpDir.next *)
RemoveNext ==
    /\ stage = "quiet" /\ ~cleaning
    /\ next' = Missing
    /\ stage' = "removed"
    /\ UNCHANGED <<queue, phase, revision, live, old, cleaning, failed, answered, lost>>

(* The deferred removal of tmpDir; the process exits. *)
Exit ==
    /\ stage = "removed"
    /\ live' = Missing
    /\ stage' = "exited"
    /\ UNCHANGED <<queue, phase, revision, next, old, cleaning, failed, answered, lost>>

Shutdown == CloseQueue \/ WaitWatcher \/ WaitQueue \/ RemoveNext \/ Exit

SessionNext ==
    \/ \E c \in Submitters, paths \in Arguments : Edit(c, paths)
    \/ stage # "exited" /\ \E c \in Callers : Rebuild(c)
    \/ stage # "exited" /\ (CleanSome \/ CleanEnds)
    \/ Cancel \/ Shutdown

SessionSpec == SessionInit /\ [][SessionNext]_allVars

(* Builds return, deletions end, and Main goes on; nothing obliges a user  *)
(* to edit a file or to stop the session.                                  *)
SessionFairSpec ==
    /\ SessionSpec
    /\ \A c \in Callers : WF_allVars(stage # "exited" /\ Rebuild(c))
    /\ WF_allVars(stage # "exited" /\ CleanEnds)
    /\ WF_allVars(Shutdown)

-----------------------------------------------------------------------------
(* Properties. *)

(* What is served is never half written or half deleted, whatever builds,  *)
(* renames and rollbacks fail: a rebuild writes elsewhere, and the worker  *)
(* that deletes the previous output never reaches a directory that a       *)
(* rollback can restore.                                                   *)
ServesWholeBuilds == live # Partial

(* tmpDir is missing only between the two renames of a swap, as the        *)
(* comment of SwapBuildDir admits, at the end of the session, or once a    *)
(* rename and the rollback after it have both failed.                      *)
MissingOnlyInSwap ==
    live = Missing =>
        \/ \E c \in Callers : phase[c] \in {"publish", "rollback"}
        \/ lost \/ stage = "exited"

(* When nothing is being rebuilt, the site served includes every accepted  *)
(* edit, or the browsers have been alerted that it may not.                *)
UpToDateOrAlerted ==
    ~running => live = submits \/ failed \/ stage = "exited"

(* The session leaves no directory behind and kills no build and no        *)
(* deletion, unless a rollback failed.                                     *)
LeavesNothing ==
    stage = "exited" =>
        /\ ~running /\ ~cleaning
        /\ next = Missing
        /\ old = Missing \/ lost

(* The directories are safe in every interleaving of rebuilds, deletions   *)
(* and shutdown: no half directory is served, the site is missing only     *)
(* within a swap, and nothing works on them or is left once queue.Wait and *)
(* the deferred calls are through.                                         *)
DirectoriesSafe ==
    ServesWholeBuilds /\ MissingOnlyInSwap /\ NoWorkAfterWait /\ LeavesNothing

(* Every accepted edit is answered by a reload or an alert of a build that *)
(* read it, even one accepted while the session ends.                      *)
EditsAnswered == \A n \in Revision : submits >= n ~> answered >= n

(* Ctrl+C ends the session: the deferred calls wait for one another's      *)
(* goroutines, never for each other.                                       *)
SessionEnds == stage = "closing" ~> stage = "exited"
=============================================================================
