---------------------------- MODULE BuildQueue ----------------------------
(***************************************************************************)
(* The daemon's build queue (internal/daemon/builder.go): goroutines that  *)
(* ask the Builder for a build, the busy and pending flags that are to run *)
(* one build at a time, and what each build leaves in the served output.   *)
(*                                                                         *)
(* A file is reduced to its version: src[f] on disk (0: it does not exist) *)
(* and out[f] in the output directory (0: nothing is there). A goroutine   *)
(* of Procs is a bus handler, the periodic ticker or Run itself; the two   *)
(* atomic flags are read and written one operation per step.               *)
(***************************************************************************)
EXTENDS Naturals, FiniteSets

CONSTANTS
    Procs,         \* goroutines that call into the Builder
    Content,       \* files under content/
    Config,        \* files HasTemplateChanges answers TRUE for
    CleanPublish,  \* cfg.ShouldCleanPublishDir()
    MaxEdits       \* bound: version numbers of a file

ASSUME BuildQueueAssumption ==
    /\ Content \cap Config = {}
    /\ CleanPublish \in BOOLEAN
    /\ MaxEdits \in Nat

Files == Content \cup Config

VARIABLES
    src,       \* version of each file on disk
    out,       \* version of each file the output directory reflects
    hasDag,    \* DAG.NodeCount() # 0
    known,     \* content files in DAG.sources
    dirty,     \* paths the file watcher has collected and not yet reported
    busy,      \* Builder.busy
    pending,   \* Builder.pending
    pc,        \* where each goroutine stands in QueueBuild
    full,      \* the captured buildFn of a goroutine is executeFullBuild
    files,     \* changedFiles captured by its buildFn
    snap,      \* versions its running build loaded
    asked      \* versions on disk when its request was made (history)

vars == <<src, out, hasDag, known, dirty, busy, pending, pc, full, files,
          snap, asked>>

job == <<full, files, asked>>
site == <<src, dirty>>
output == <<out, hasDag, known>>

(* Inside buildFn or between it and busy.Store(false). *)
Rendering == {"clean", "renderFull", "renderPart"}
Owning == {"build", "check", "release"} \cup Rendering
PC == {"idle", "handle", "enter", "mark"} \cup Owning

Owns(p) == pc[p] \in Owning
Goto(p, l) == pc' = [pc EXCEPT ![p] = l]

TypeOK ==
    /\ src \in [Files -> 0..MaxEdits]
    /\ out \in [Files -> 0..MaxEdits]
    /\ hasDag \in BOOLEAN
    /\ known \subseteq Content
    /\ dirty \subseteq Files
    /\ busy \in BOOLEAN /\ pending \in BOOLEAN
    /\ pc \in [Procs -> PC]
    /\ full \in [Procs -> BOOLEAN]
    /\ files \in [Procs -> SUBSET Files]
    /\ snap \in [Procs -> [Files -> 0..MaxEdits]]
    /\ asked \in [Procs -> [Files -> 0..MaxEdits]]

Nothing == [f \in Files |-> 0]

(* The captured buildFn of p and what it has loaded are gone. *)
Forget(p) ==
    /\ full' = [full EXCEPT ![p] = FALSE]
    /\ files' = [files EXCEPT ![p] = {}]
    /\ snap' = [snap EXCEPT ![p] = Nothing]
    /\ asked' = [asked EXCEPT ![p] = Nothing]

Init ==
    /\ src \in [Files -> {0, 1} \cap 0..MaxEdits]
    /\ out = Nothing
    /\ hasDag = FALSE /\ known = {} /\ dirty = {}
    /\ busy = FALSE /\ pending = FALSE
    /\ pc = [p \in Procs |-> "idle"]
    /\ full = [p \in Procs |-> FALSE]
    /\ files = [p \in Procs |-> {}]
    /\ snap = [p \in Procs |-> Nothing]
    /\ asked = [p \in Procs |-> Nothing]

-----------------------------------------------------------------------------
(* Requests. *)

(* A file is created or saved; the watcher remembers its path. *)
Edit(f) ==
    /\ src[f] < MaxEdits
    /\ src' = [src EXCEPT ![f] = @ + 1]
    /\ dirty' = dirty \cup {f}
    /\ UNCHANGED <<output, busy, pending, pc, job, snap>>

Call(p, isFull, changed, at) ==
    /\ pc[p] = "idle"
    /\ Goto(p, at)
    /\ full' = [full EXCEPT ![p] = isFull]
    /\ files' = [files EXCEPT ![p] = changed]
    /\ asked' = [asked EXCEPT ![p] = src]
    /\ UNCHANGED <<src, output, busy, pending, snap>>

(* FullBuild: the initial build and the periodic ticker. *)
FullBuild(p) == Call(p, TRUE, {}, "enter") /\ UNCHANGED dirty

(* The watcher's debounce timer publishes the collected paths; the event   *)
(* bus runs HandleContentChanged in a goroutine of its own, some time.     *)
PublishChanges(p) ==
    /\ dirty # {}
    /\ dirty' = {}
    /\ Call(p, FALSE, dirty, "handle")

(* A trigger of the admin API: the same event without changed_files. *)
TriggerRebuild(p) == Call(p, FALSE, {}, "handle") /\ UNCHANGED dirty

(* Without a graph the request becomes a full build. *)
HandleContentChanged(p) ==
    /\ pc[p] = "handle"
    /\ full' = [full EXCEPT ![p] = ~hasDag]
    /\ Goto(p, "enter")
    /\ UNCHANGED <<site, output, busy, pending, files, asked, snap>>

-----------------------------------------------------------------------------
(* QueueBuild. *)

(* busy.CompareAndSwap(false, true) *)
Enter(p) ==
    /\ pc[p] = "enter"
    /\ busy' = TRUE
    /\ \/ ~busy /\ Goto(p, "build") /\ UNCHANGED <<job, snap>>
       \/ busy /\ Goto(p, "mark") /\ Forget(p)
    /\ UNCHANGED <<site, output, pending>>

(* pending.Store(true); return nil *)
Mark(p) ==
    /\ pc[p] = "mark"
    /\ pending' = TRUE
    /\ Goto(p, "idle")
    /\ UNCHANGED <<site, output, busy, job, snap>>

(* A changed template, configuration or i18n file, or no graph yet. *)
NeedsFull(p) == full[p] \/ files[p] \cap Config # {} \/ ~hasDag

Affected(p) == files[p] \cap known

(* Variant for the checks: an incremental build does not load again. *)
StartBuildFromCache(p) ==
    /\ pc[p] = "build"
    /\ \/ /\ NeedsFull(p)
          /\ snap' = [snap EXCEPT ![p] = src]
          /\ Goto(p, IF CleanPublish THEN "clean" ELSE "renderFull")
       \/ /\ ~NeedsFull(p)
          /\ Goto(p, IF Affected(p) # {} THEN "renderPart" ELSE "check")
          /\ UNCHANGED snap
    /\ UNCHANGED <<site, output, busy, pending, job>>

(* buildFn starts: it loads every file, or finds that no page is affected. *)
StartBuild(p) ==
    /\ pc[p] = "build"
    /\ \/ /\ NeedsFull(p)
          /\ snap' = [snap EXCEPT ![p] = src]
          /\ Goto(p, IF CleanPublish THEN "clean" ELSE "renderFull")
       \/ /\ ~NeedsFull(p) /\ Affected(p) # {}
          /\ snap' = [snap EXCEPT ![p] = src]
          /\ Goto(p, "renderPart")
       \/ /\ ~NeedsFull(p) /\ Affected(p) = {}
          /\ Goto(p, "check")
          /\ UNCHANGED snap
    /\ UNCHANGED <<site, output, busy, pending, job>>

(* cleanPublishDir moves the served directory aside. *)
Clean(p) ==
    /\ pc[p] = "clean"
    /\ out' = Nothing
    /\ Goto(p, "renderFull")
    /\ UNCHANGED <<site, hasDag, known, busy, pending, job, snap>>

(* renderPages, then buildAndPersistDAG. *)
RenderFull(p) ==
    /\ pc[p] = "renderFull"
    /\ out' = snap[p]
    /\ hasDag' = TRUE
    /\ known' = {f \in Content : snap[p][f] > 0}
    /\ Goto(p, "check")
    /\ UNCHANGED <<site, busy, pending, job, snap>>

(* IncrementalRender writes the affected pages only. *)
RenderPart(p) ==
    /\ pc[p] = "renderPart"
    /\ out' = [f \in Files |-> IF f \in Affected(p) THEN snap[p][f] ELSE out[f]]
    /\ Goto(p, "check")
    /\ UNCHANGED <<site, hasDag, known, busy, pending, job, snap>>

(* buildFn returns an error: busy is released, pending left as it is. *)
FailBuild(p) ==
    /\ pc[p] \in Rendering
    /\ busy' = FALSE
    /\ Forget(p)
    /\ Goto(p, "idle")
    /\ UNCHANGED <<site, output, pending>>

(* Variant for the checks: pending is read and never cleared. *)
CheckPendingByLoad(p) ==
    /\ pc[p] = "check"
    /\ Goto(p, IF pending THEN "build" ELSE "release")
    /\ UNCHANGED <<site, output, busy, pending, job, snap>>

(* pending.CompareAndSwap(true, false): run the same buildFn again. *)
CheckPending(p) ==
    /\ pc[p] = "check"
    /\ Goto(p, IF pending THEN "build" ELSE "release")
    /\ pending' = FALSE
    /\ UNCHANGED <<site, output, busy, job, snap>>

(* busy.Store(false); return nil *)
Release(p) ==
    /\ pc[p] = "release"
    /\ busy' = FALSE
    /\ Forget(p)
    /\ Goto(p, "idle")
    /\ UNCHANGED <<site, output, pending>>

QueueBuild(p) ==
    \/ HandleContentChanged(p) \/ Enter(p) \/ Mark(p) \/ StartBuild(p) \/ Clean(p)
    \/ RenderFull(p) \/ RenderPart(p) \/ FailBuild(p) \/ CheckPending(p) \/ Release(p)

Request(p) == FullBuild(p) \/ PublishChanges(p) \/ TriggerRebuild(p)

Next ==
    \/ \E f \in Files : Edit(f)
    \/ \E p \in Procs : Request(p) \/ QueueBuild(p)

Spec == Init /\ [][Next]_vars

(* A goroutine inside QueueBuild keeps running; nobody has to make a      *)
(* request, save a file or press the admin button.                        *)
FairSpec == Spec /\ \A p \in Procs : WF_vars(QueueBuild(p))

-----------------------------------------------------------------------------
(* Properties. *)

(* At most one goroutine is inside buildFn or about to release the queue:  *)
(* "QueueBuild ensures only one build runs at a time".                     *)
SingleBuild == \A p, q \in Procs : Owns(p) /\ Owns(q) => p = q

(* A build never puts an older version of a page over a newer one: what a  *)
(* build loaded is at least as new as anything written since it started.   *)
NeverOlder ==
    [][\A f \in Files : out'[f] = 0 \/ out'[f] >= out[f]]_vars

(* A caller that got the queue and whose build succeeded leaves the pages  *)
(* of its own changed files at least as new as the files were when it      *)
(* asked, however many trailing builds it has run.                         *)
OwnChangesBuilt ==
    \A p \in Procs : pc[p] = "release" =>
        \A f \in (IF full[p] THEN Files ELSE files[p] \cap known) :
            out[f] >= asked[p][f]

(* A call finds the queue busy and marks it. *)
Overlap == \E p \in Procs : pc[p] = "mark"

(* Every call into the queue returns, failed builds and trailing builds    *)
(* included, once calls stop finding the queue busy (marks that never end  *)
(* keep the owner building). What a failed build leaves pending for a      *)
(* later caller costs that caller one more build, not an endless loop.     *)
CallsReturn ==
    <>[]~Overlap => \A p \in Procs : pc[p] # "idle" ~> pc[p] = "idle"
=============================================================================
