------------------------- MODULE BuildQueue_proofs -------------------------
(***************************************************************************)
(* Proofs about the daemon's build queue, for any number of goroutines,    *)
(* files and edits; calls and failing builds are not bounded.               *)
(***************************************************************************)
EXTENDS BuildQueue, TLAPS

USE BuildQueueAssumption

(* busy is set exactly while some goroutine owns the queue. *)
BusyIsOwned == busy <=> \E p \in Procs : Owns(p)

(* Nothing served or loaded is newer than the disk, and what a running     *)
(* build loaded is no older than what is served or what its caller asked.  *)
Loaded ==
    /\ \A f \in Files : out[f] <= src[f]
    /\ \A p \in Procs, f \in Files : asked[p][f] <= src[f]
    /\ \A p \in Procs : pc[p] \in Rendering => \A f \in Files :
          /\ out[f] <= snap[p][f]
          /\ asked[p][f] <= snap[p][f]
          /\ snap[p][f] <= src[f]

(* Once buildFn has returned, the caller's files are in the output. *)
Built ==
    /\ \A p \in Procs : pc[p] = "renderPart" => ~full[p]
    /\ \A p \in Procs : pc[p] \in {"check", "release"} =>
          \A f \in (IF full[p] THEN Files ELSE files[p] \cap known) :
              out[f] >= asked[p][f]

IInv == TypeOK /\ SingleBuild /\ BusyIsOwned /\ Loaded /\ Built

-----------------------------------------------------------------------------
(* Every variable keeps to its type. *)
LEMMA TypeCorrectInit == Init => TypeOK
<1> SUFFICES ASSUME Init PROVE TypeOK
  OBVIOUS
<1>1. 0 \in 0..MaxEdits
  OBVIOUS
<1>2. src \in [Files -> 0..MaxEdits]
  BY DEF Init
<1>3. Nothing \in [Files -> 0..MaxEdits]
  BY <1>1 DEF Nothing
<1> QED
  BY <1>2, <1>3 DEF Init, TypeOK, PC

(* A goroutine without a captured build function is well typed. *)
LEMMA ForgetTypes ==
  ASSUME TypeOK, NEW p \in Procs, Forget(p)
  PROVE  /\ full' \in [Procs -> BOOLEAN] /\ files' \in [Procs -> SUBSET Files]
         /\ snap' \in [Procs -> [Files -> 0..MaxEdits]]
         /\ asked' \in [Procs -> [Files -> 0..MaxEdits]]
<1>1. Nothing \in [Files -> 0..MaxEdits]
  BY DEF Nothing
<1> QED
  BY <1>1 DEF Forget, TypeOK

LEMMA TypeCorrectStep == TypeOK /\ [Next]_vars => TypeOK'
<1> SUFFICES ASSUME TypeOK, [Next]_vars PROVE TypeOK'
  OBVIOUS
<1> USE DEF TypeOK, PC, Owning, Rendering, Goto, job, site, output
<1>1. ASSUME NEW f \in Files, Edit(f) PROVE TypeOK'
  BY <1>1 DEF Edit
<1>2. ASSUME NEW p \in Procs, FullBuild(p) PROVE TypeOK'
  BY <1>2 DEF FullBuild, Call
<1>3. ASSUME NEW p \in Procs, PublishChanges(p) PROVE TypeOK'
  BY <1>3 DEF PublishChanges, Call
<1>4. ASSUME NEW p \in Procs, TriggerRebuild(p) PROVE TypeOK'
  BY <1>4 DEF TriggerRebuild, Call
<1>5. ASSUME NEW p \in Procs, HandleContentChanged(p) PROVE TypeOK'
  BY <1>5 DEF HandleContentChanged
<1>6. ASSUME NEW p \in Procs, Enter(p) PROVE TypeOK'
  BY <1>6, ForgetTypes DEF Enter
<1>7. ASSUME NEW p \in Procs, Mark(p) PROVE TypeOK'
  BY <1>7 DEF Mark
<1>8. ASSUME NEW p \in Procs, StartBuild(p) PROVE TypeOK'
  BY <1>8 DEF StartBuild
<1>9. ASSUME NEW p \in Procs, Clean(p) PROVE TypeOK'
  BY <1>9 DEF Clean, Nothing
<1>10. ASSUME NEW p \in Procs, RenderFull(p) PROVE TypeOK'
  BY <1>10 DEF RenderFull, Files
<1>11. ASSUME NEW p \in Procs, RenderPart(p) PROVE TypeOK'
  BY <1>11 DEF RenderPart
<1>12. ASSUME NEW p \in Procs, FailBuild(p) PROVE TypeOK'
  BY <1>12, ForgetTypes DEF FailBuild
<1>13. ASSUME NEW p \in Procs, CheckPending(p) PROVE TypeOK'
  BY <1>13 DEF CheckPending
<1>14. ASSUME NEW p \in Procs, Release(p) PROVE TypeOK'
  BY <1>14, ForgetTypes DEF Release
<1>15. CASE UNCHANGED vars
  BY <1>15 DEF vars
<1>16. QED
  BY <1>1, <1>2, <1>3, <1>4, <1>5, <1>6, <1>7, <1>8, <1>9, <1>10, <1>11,
     <1>12, <1>13, <1>14, <1>15 DEF Next, Request, QueueBuild

(* The type invariant, for every instance. *)
THEOREM TypeCorrect == Spec => []TypeOK
  BY TypeCorrectInit, TypeCorrectStep, PTL DEF Spec

-----------------------------------------------------------------------------
(* The inductive invariant: mutual exclusion needs busy to be the presence *)
(* of an owner; that a build only ever moves pages forward needs, besides  *)
(* that there is one owner, that its snapshot bounds the output from above.*)
LEMMA InvInit == Init => IInv
<1> SUFFICES ASSUME Init PROVE IInv
  OBVIOUS
<1>1. TypeOK
  BY TypeCorrectInit
<1>2. SingleBuild /\ BusyIsOwned
  BY DEF Init, SingleBuild, BusyIsOwned, Owns, Owning, Rendering
<1>3. Loaded
  BY DEF Init, Loaded, Nothing, Rendering
<1>4. Built
  BY DEF Init, Built
<1> QED
  BY <1>1, <1>2, <1>3, <1>4 DEF IInv

(* Who owns the queue after a step. *)
LEMMA OwnerStep ==
  ASSUME TypeOK, SingleBuild, BusyIsOwned, [Next]_vars
  PROVE  SingleBuild' /\ BusyIsOwned'
<1> USE DEF TypeOK, SingleBuild, BusyIsOwned, Owns, Owning, Rendering, PC, Goto
<1>1. ASSUME NEW f \in Files, Edit(f) PROVE SingleBuild' /\ BusyIsOwned'
  BY <1>1 DEF Edit
<1>2. ASSUME NEW p \in Procs, Request(p) PROVE SingleBuild' /\ BusyIsOwned'
  <2>1. busy' = busy /\ \A q \in Procs : Owns(q)' <=> Owns(q)
    BY <1>2 DEF Request, FullBuild, PublishChanges, TriggerRebuild, Call
  <2> QED
    BY <2>1 DEF SingleBuild, BusyIsOwned
<1>3. ASSUME NEW p \in Procs, HandleContentChanged(p) \/ Mark(p)
      PROVE SingleBuild' /\ BusyIsOwned'
  <2>1. busy' = busy /\ \A q \in Procs : Owns(q)' <=> Owns(q)
    <3>1. CASE HandleContentChanged(p)
      BY <3>1 DEF HandleContentChanged
    <3>2. CASE Mark(p)
      BY <3>2 DEF Mark, output
    <3> QED
      BY <1>3, <3>1, <3>2
  <2> QED
    BY <2>1 DEF SingleBuild, BusyIsOwned
<1>4. ASSUME NEW p \in Procs, Enter(p) PROVE SingleBuild' /\ BusyIsOwned'
  BY <1>4 DEF Enter
<1>5. ASSUME NEW p \in Procs, StartBuild(p) PROVE SingleBuild' /\ BusyIsOwned'
  BY <1>5 DEF StartBuild
<1>6. ASSUME NEW p \in Procs, Clean(p) \/ RenderFull(p) \/ RenderPart(p) \/ CheckPending(p)
      PROVE SingleBuild' /\ BusyIsOwned'
  <2>1. busy' = busy /\ \A q \in Procs : Owns(q)' <=> Owns(q)
    <3>1. CASE Clean(p)
      BY <3>1 DEF Clean
    <3>2. CASE RenderFull(p)
      BY <3>2 DEF RenderFull
    <3>3. CASE RenderPart(p)
      BY <3>3 DEF RenderPart
    <3>4. CASE CheckPending(p)
      BY <3>4 DEF CheckPending, output
    <3> QED
      BY <1>6, <3>1, <3>2, <3>3, <3>4
  <2> QED
    BY <2>1 DEF SingleBuild, BusyIsOwned
<1>7. ASSUME NEW p \in Procs, FailBuild(p) \/ Release(p)
      PROVE SingleBuild' /\ BusyIsOwned'
  BY <1>7 DEF FailBuild, Release
<1>8. CASE UNCHANGED vars
  BY <1>8 DEF vars
<1> QED
  BY <1>1, <1>2, <1>3, <1>4, <1>5, <1>6, <1>7, <1>8 DEF Next, QueueBuild

(* Requests only read the disk; a save only makes files newer. *)
LEMMA LoadedStep ==
  ASSUME TypeOK, SingleBuild, Loaded, Built, [Next]_vars
  PROVE  Loaded'
<1> USE DEF TypeOK, Loaded, Rendering, PC, Owning, Goto, job, site, output
<1>1. ASSUME NEW f \in Files, Edit(f) PROVE Loaded'
  BY <1>1 DEF Edit
<1>2. ASSUME NEW p \in Procs, Request(p) PROVE Loaded'
  <2>1. /\ src' = src /\ out' = out /\ snap' = snap
        /\ pc' = [pc EXCEPT ![p] = pc'[p]] /\ pc'[p] \in {"enter", "handle"}
        /\ asked' = [asked EXCEPT ![p] = src]
    BY <1>2 DEF Request, FullBuild, PublishChanges, TriggerRebuild, Call
  <2> QED
    BY <2>1
<1>3. ASSUME NEW p \in Procs, HandleContentChanged(p) PROVE Loaded'
  BY <1>3 DEF HandleContentChanged
<1>4. ASSUME NEW p \in Procs, Enter(p) PROVE Loaded'
  <2>1. /\ src' = src /\ out' = out /\ pc' = [pc EXCEPT ![p] = pc'[p]]
        /\ pc'[p] \notin Rendering
    BY <1>4 DEF Enter
  <2>2. \A q \in Procs, f \in Files : asked'[q][f] \in {asked[q][f], 0}
    BY <1>4 DEF Enter, Forget, Nothing
  <2>3. \A q \in Procs \ {p} : snap'[q] = snap[q] /\ asked'[q] = asked[q]
    BY <1>4 DEF Enter, Forget
  <2>4. ASSUME NEW q \in Procs, NEW f \in Files PROVE asked'[q][f] <= src'[f]
    <3>1. asked[q][f] <= src[f] /\ src[f] >= 0
      OBVIOUS
    <3>2. asked'[q][f] = asked[q][f] \/ asked'[q][f] = 0
      BY <2>2
    <3> QED
      BY <2>1, <3>1, <3>2
  <2>5. ASSUME NEW q \in Procs, pc'[q] \in Rendering
        PROVE  q # p /\ pc[q] \in Rendering
    BY <2>1, <2>5
  <2> QED
    BY <2>1, <2>3, <2>4, <2>5
<1>5. ASSUME NEW p \in Procs, Mark(p) PROVE Loaded'
  BY <1>5 DEF Mark
<1>6. ASSUME NEW p \in Procs, StartBuild(p) PROVE Loaded'
  <2>1. src' = src /\ out' = out /\ asked' = asked
    BY <1>6 DEF StartBuild
  <2>2. ASSUME pc'[p] \in Rendering
        PROVE  snap'[p] = src /\ \A q \in Procs \ {p} : snap'[q] = snap[q]
    BY <1>6, <2>2 DEF StartBuild
  <2>3. \A q \in Procs \ {p} : pc'[q] = pc[q] /\ snap'[q] = snap[q]
    BY <1>6 DEF StartBuild
  <2> QED
    BY <2>1, <2>2, <2>3
<1>7. ASSUME NEW p \in Procs, Clean(p) PROVE Loaded'
  BY <1>7 DEF Clean, Nothing
<1>8. ASSUME NEW p \in Procs, RenderFull(p) PROVE Loaded'
  BY <1>8 DEF RenderFull, SingleBuild, Owns
<1>9. ASSUME NEW p \in Procs, RenderPart(p) PROVE Loaded'
  <2>1. \A q \in Procs : pc'[q] \notin Rendering
    BY <1>9 DEF RenderPart, SingleBuild, Owns
  <2>2. \A f \in Files : out'[f] <= src[f]
    BY <1>9 DEF RenderPart
  <2> QED
    BY <1>9, <2>1, <2>2 DEF RenderPart
<1>10. ASSUME NEW p \in Procs, FailBuild(p) PROVE Loaded'
  BY <1>10 DEF FailBuild, Forget, Nothing
<1>11. ASSUME NEW p \in Procs, CheckPending(p) PROVE Loaded'
  BY <1>11 DEF CheckPending
<1>12. ASSUME NEW p \in Procs, Release(p) PROVE Loaded'
  BY <1>12 DEF Release, Forget, Nothing
<1>13. CASE UNCHANGED vars
  BY <1>13 DEF vars
<1> QED
  BY <1>1, <1>2, <1>3, <1>4, <1>5, <1>6, <1>7, <1>8, <1>9, <1>10, <1>11,
     <1>12, <1>13 DEF Next, QueueBuild

(* Only the owner changes the graph or the output, so what it has built    *)
(* stays built until it releases the queue.                                *)
LEMMA BuiltStep ==
  ASSUME TypeOK, SingleBuild, Loaded, Built, [Next]_vars
  PROVE  Built'
<1> USE DEF TypeOK, Built, Rendering, PC, Owning, Goto, job, site, output
<1>1. ASSUME NEW f \in Files, Edit(f) PROVE Built'
  BY <1>1 DEF Edit
<1>2. ASSUME NEW p \in Procs, Request(p) PROVE Built'
  <2>1. /\ src' = src /\ out' = out /\ known' = known
        /\ pc' = [pc EXCEPT ![p] = pc'[p]] /\ pc'[p] \in {"enter", "handle"}
        /\ \A q \in Procs \ {p} : full'[q] = full[q] /\ files'[q] = files[q]
                                 /\ asked'[q] = asked[q]
    BY <1>2 DEF Request, FullBuild, PublishChanges, TriggerRebuild, Call
  <2> QED
    BY <2>1
<1>3. ASSUME NEW p \in Procs, HandleContentChanged(p) PROVE Built'
  BY <1>3 DEF HandleContentChanged
<1>4. ASSUME NEW p \in Procs, Enter(p) PROVE Built'
  BY <1>4 DEF Enter, Forget, Nothing
<1>5. ASSUME NEW p \in Procs, Mark(p) PROVE Built'
  BY <1>5 DEF Mark
<1>6. ASSUME NEW p \in Procs, StartBuild(p) PROVE Built'
  BY <1>6 DEF StartBuild, NeedsFull, Affected
<1>7. ASSUME NEW p \in Procs, Clean(p) PROVE Built'
  BY <1>7 DEF Clean, SingleBuild, Owns
<1>8. ASSUME NEW p \in Procs, RenderFull(p) PROVE Built'
  BY <1>8 DEF RenderFull, SingleBuild, Owns, Loaded, Files
<1>9. ASSUME NEW p \in Procs, RenderPart(p) PROVE Built'
  BY <1>9 DEF RenderPart, SingleBuild, Owns, Loaded, Affected
<1>10. ASSUME NEW p \in Procs, FailBuild(p) PROVE Built'
  BY <1>10 DEF FailBuild, Forget, Nothing
<1>11. ASSUME NEW p \in Procs, CheckPending(p) PROVE Built'
  BY <1>11 DEF CheckPending
<1>12. ASSUME NEW p \in Procs, Release(p) PROVE Built'
  BY <1>12 DEF Release, Forget, Nothing
<1>13. CASE UNCHANGED vars
  BY <1>13 DEF vars
<1> QED
  BY <1>1, <1>2, <1>3, <1>4, <1>5, <1>6, <1>7, <1>8, <1>9, <1>10, <1>11,
     <1>12, <1>13 DEF Next, QueueBuild

LEMMA InvStep == IInv /\ [Next]_vars => IInv'
  BY TypeCorrectStep, OwnerStep, LoadedStep, BuiltStep DEF IInv

LEMMA Inductive == Spec => []IInv
  BY InvInit, InvStep, PTL DEF Spec

(* One build at a time: the compare-and-swap on busy is enough, whatever   *)
(* happens to pending and however builds fail.                             *)
THEOREM OneBuildAtATime == Spec => []SingleBuild
<1>1. IInv => SingleBuild
  BY DEF IInv
<1> QED
  BY <1>1, Inductive, PTL

(* The caller that ran the build finds its own changes in the output.      *)
THEOREM OwnChangesAreBuilt == Spec => []OwnChangesBuilt
<1>1. IInv => OwnChangesBuilt
  BY DEF IInv, Built, OwnChangesBuilt
<1> QED
  BY <1>1, Inductive, PTL

(* No page is ever replaced by one made from an older version of its file. *)
THEOREM PagesNeverGoBack == Spec => NeverOlder
<1>1. IInv /\ [Next]_vars => [\A f \in Files : out'[f] = 0 \/ out'[f] >= out[f]]_vars
  <2> SUFFICES ASSUME IInv, [Next]_vars, NEW f \in Files
               PROVE  out'[f] = 0 \/ out'[f] >= out[f]
    OBVIOUS
  <2> USE DEF IInv, TypeOK, Loaded, Rendering
  <2>1. ASSUME NEW p \in Procs, Clean(p) PROVE out'[f] = 0
    BY <2>1 DEF Clean, Nothing
  <2>2. ASSUME NEW p \in Procs, RenderFull(p) PROVE out'[f] >= out[f]
    BY <2>2 DEF RenderFull
  <2>3. ASSUME NEW p \in Procs, RenderPart(p) PROVE out'[f] >= out[f]
    BY <2>3 DEF RenderPart
  <2>4. CASE UNCHANGED out
    BY <2>4
  <2>5. UNCHANGED out \/ \E p \in Procs : Clean(p) \/ RenderFull(p) \/ RenderPart(p)
    BY DEF Next, Request, FullBuild, PublishChanges, TriggerRebuild, Call, QueueBuild,
           HandleContentChanged, Enter, Mark, StartBuild, FailBuild, CheckPending,
           Release, Edit, output, vars
  <2> QED
    BY <2>1, <2>2, <2>3, <2>4, <2>5
<1> QED
  BY <1>1, Inductive, PTL DEF Spec, NeverOlder
=============================================================================
