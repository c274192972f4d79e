-------------------------- MODULE DevSession_proofs --------------------------
(***************************************************************************)
(* Proofs about `huan dev`, for any number of goroutines, paths and        *)
(* submissions. The rebuild queue: one build at a time, nothing after      *)
(* Wait, and it implements ChangeQueue. The session around it: what is     *)
(* served is whole, is there, and is not silently old, and the session     *)
(* leaves nothing behind. The watcher that feeds it: each path goes out    *)
(* once, and nothing after Run.                                            *)
(***************************************************************************)
EXTENDS DevSession, DevWatcher, TLAPS

USE RebuildQueueAssumption, DevSessionAssumption

-----------------------------------------------------------------------------
(* The rebuild queue. *)

(* q.running is set while exactly one goroutine is in the build callback. *)
OneBuilder ==
    /\ running <=> \E c \in Callers : pc[c] = "building"
    /\ \A c, d \in Callers : pc[c] = "building" /\ pc[d] = "building" => c = d

(* An idle queue holds nothing back; a full request holds no paths. *)
NothingStranded ==
    /\ ~running => ~full /\ pending = {}
    /\ full => pending = {}

(* Wait's answer is final. *)
WaitIsFinal == waited # {} => closed /\ ~running

IInv == TypeOK /\ OneBuilder /\ NothingStranded /\ WaitIsFinal

-----------------------------------------------------------------------------
LEMMA InvInit == Init => IInv
<1> SUFFICES ASSUME Init PROVE IInv
  OBVIOUS
<1>1. submits \in 0..MaxSubmits
  BY DEF Init
<1>2. TypeOK
  BY <1>1 DEF Init, TypeOK, PC
<1>3. OneBuilder /\ NothingStranded /\ WaitIsFinal
  BY DEF Init, OneBuilder, NothingStranded, WaitIsFinal
<1> QED
  BY <1>2, <1>3 DEF IInv

LEMMA TypeStep == TypeOK /\ [Next]_vars => TypeOK'
<1> SUFFICES ASSUME TypeOK, [Next]_vars PROVE TypeOK'
  OBVIOUS
<1> USE DEF TypeOK, PC
<1>1. ASSUME NEW c \in Callers, NEW paths \in Arguments, SubmitBusy(c, paths)
      PROVE  TypeOK'
  BY <1>1 DEF SubmitBusy, Merged, Arguments
<1>2. ASSUME NEW c \in Callers, NEW paths \in Arguments, SubmitIdle(c, paths)
      PROVE  TypeOK'
  <2>1. Merged(paths) \in SUBSET Paths
    BY DEF Merged, Arguments
  <2>2. submits' \in 0..MaxSubmits
    BY <1>2 DEF SubmitIdle
  <2> QED
    BY <1>2, <2>1, <2>2 DEF SubmitIdle
<1>3. ASSUME NEW c \in Callers, BuildAgain(c) PROVE TypeOK'
  BY <1>3 DEF BuildAgain
<1>4. ASSUME NEW c \in Callers, BuildLast(c) PROVE TypeOK'
  BY <1>4 DEF BuildLast, Broadcast
<1>5. ASSUME NEW c \in Callers, Wait(c) PROVE TypeOK'
  BY <1>5 DEF Wait
<1>6. CASE Close
  BY <1>6 DEF Close
<1>7. CASE UNCHANGED vars
  BY <1>7 DEF vars
<1> QED
  BY <1>1, <1>2, <1>3, <1>4, <1>5, <1>6, <1>7 DEF Next, Submit

LEMMA BuilderStep ==
  ASSUME TypeOK, OneBuilder, [Next]_vars
  PROVE  OneBuilder'
<1> USE DEF TypeOK, PC, OneBuilder
<1>1. ASSUME NEW c \in Callers, NEW paths \in Arguments, SubmitBusy(c, paths)
      PROVE  OneBuilder'
  BY <1>1 DEF SubmitBusy
<1>2. ASSUME NEW c \in Callers, NEW paths \in Arguments, SubmitIdle(c, paths)
      PROVE  OneBuilder'
  BY <1>2 DEF SubmitIdle
<1>3. ASSUME NEW c \in Callers, BuildAgain(c) PROVE OneBuilder'
  BY <1>3 DEF BuildAgain
<1>4. ASSUME NEW c \in Callers, BuildLast(c) PROVE OneBuilder'
  BY <1>4 DEF BuildLast, Broadcast
<1>5. ASSUME NEW c \in Callers, Wait(c) PROVE OneBuilder'
  BY <1>5 DEF Wait
<1>6. CASE Close
  BY <1>6 DEF Close
<1>7. CASE UNCHANGED vars
  BY <1>7 DEF vars
<1> QED
  BY <1>1, <1>2, <1>3, <1>4, <1>5, <1>6, <1>7 DEF Next, Submit

(* The empty check and the release of the queue are one critical section,  *)
(* and so are the merge and the test of q.running.                         *)
LEMMA StrandedStep ==
  ASSUME NothingStranded, WaitIsFinal, [Next]_vars
  PROVE  NothingStranded' /\ WaitIsFinal'
<1> USE DEF NothingStranded, WaitIsFinal
<1>1. ASSUME NEW c \in Callers, NEW paths \in Arguments, SubmitBusy(c, paths)
      PROVE  NothingStranded' /\ WaitIsFinal'
  BY <1>1 DEF SubmitBusy, Merged
<1>2. ASSUME NEW c \in Callers, NEW paths \in Arguments, SubmitIdle(c, paths)
      PROVE  NothingStranded' /\ WaitIsFinal'
  BY <1>2 DEF SubmitIdle
<1>3. ASSUME NEW c \in Callers, BuildAgain(c) PROVE NothingStranded' /\ WaitIsFinal'
  BY <1>3 DEF BuildAgain
<1>4. ASSUME NEW c \in Callers, BuildLast(c) PROVE NothingStranded' /\ WaitIsFinal'
  BY <1>4 DEF BuildLast
<1>5. ASSUME NEW c \in Callers, Wait(c) PROVE NothingStranded' /\ WaitIsFinal'
  BY <1>5 DEF Wait
<1>6. CASE Close
  BY <1>6 DEF Close
<1>7. CASE UNCHANGED vars
  BY <1>7 DEF vars
<1> QED
  BY <1>1, <1>2, <1>3, <1>4, <1>5, <1>6, <1>7 DEF Next, Submit

LEMMA InvStep == IInv /\ [Next]_vars => IInv'
  BY TypeStep, BuilderStep, StrandedStep DEF IInv

LEMMA Inductive == Spec => []IInv
  BY InvInit, InvStep, PTL DEF Spec

(* The type invariant, for every instance. *)
THEOREM TypeCorrect == Spec => []TypeOK
<1>1. IInv => TypeOK
  BY DEF IInv
<1> QED
  BY <1>1, Inductive, PTL

(* After Close, a goroutine that Wait let go can rely on the builds being  *)
(* over: the shutdown of `huan dev` then removes the directories.          *)
THEOREM ShutdownIsQuiet == Spec => []NoWorkAfterWait
<1>1. IInv => NoWorkAfterWait
  BY DEF IInv, WaitIsFinal, NoWorkAfterWait
<1> QED
  BY <1>1, Inductive, PTL

-----------------------------------------------------------------------------
(* The refinement. *)
AbsWaiting == IF full THEN Everything ELSE pending
AbsBatch == UNION {Covers(batch[c]) : c \in Building}

(* What the abstract batch is, by who builds. *)
LEMMA BatchOfBuilder ==
  ASSUME OneBuilder, NEW c \in Callers, pc[c] = "building"
  PROVE  AbsBatch = Covers(batch[c])
<1>1. Building = {c}
  BY DEF OneBuilder, Building
<1> QED
  BY <1>1 DEF AbsBatch

LEMMA BatchWhenIdle ==
  ASSUME OneBuilder, ~running
  PROVE  AbsBatch = {}
<1>1. Building = {}
  BY DEF OneBuilder, Building
<1> QED
  BY <1>1 DEF AbsBatch

LEMMA CoversNonEmpty ==
  ASSUME NEW S \in SUBSET Paths
  PROVE  Covers(S) \in SUBSET Everything /\ Covers(S) # {}
<1>1. Rest \in Everything
  BY DEF Everything
<1>2. S \in SUBSET Everything
  BY DEF Everything
<1> QED
  BY <1>1, <1>2 DEF Covers

LEMMA RefinesInit == Init => Promise!Init
<1> SUFFICES ASSUME Init PROVE Promise!Init
  OBVIOUS
<1>1. Building = {}
  BY DEF Init, Building
<1> QED
  BY <1>1 DEF Init, Promise!Init

LEMMA RefinesStep == IInv /\ IInv' /\ [Next]_vars => [Promise!Next]_Promise!vars
<1> SUFFICES ASSUME IInv, IInv', [Next]_vars PROVE [Promise!Next]_Promise!vars
  OBVIOUS
<1> USE DEF IInv, TypeOK, PC
<1>1. ASSUME NEW c \in Callers, NEW paths \in Arguments, SubmitBusy(c, paths)
      PROVE  Promise!Accept(Covers(paths))
  <2>1. PICK d \in Callers : pc[d] = "building"
    BY <1>1 DEF SubmitBusy, OneBuilder
  <2>2. AbsBatch = Covers(batch[d]) /\ AbsBatch' = AbsBatch
    BY <1>1, <2>1, BatchOfBuilder DEF SubmitBusy, AbsBatch, Building
  <2>3. AbsBatch # {}
    BY <2>1, <2>2, CoversNonEmpty
  <2>4. AbsWaiting' = AbsWaiting \cup Covers(paths)
    BY <1>1 DEF SubmitBusy, AbsWaiting, Merged, Covers, Everything, Arguments, NothingStranded
  <2> QED
    BY <1>1, <2>2, <2>3, <2>4 DEF SubmitBusy, Promise!Accept, AbsBatch, AbsWaiting
<1>2. ASSUME NEW c \in Callers, NEW paths \in Arguments, SubmitIdle(c, paths)
      PROVE  Promise!Start(Covers(paths))
  <2>1. AbsBatch = {}
    BY <1>2, BatchWhenIdle DEF SubmitIdle
  <2>2. pc'[c] = "building" /\ batch'[c] = paths
    BY <1>2 DEF SubmitIdle, Merged, NothingStranded
  <2>3. Building' = {c}
    BY <2>2 DEF Building, OneBuilder
  <2>4. AbsBatch' = Covers(paths)
    BY <2>2, <2>3 DEF AbsBatch, Covers, Everything
  <2>5. AbsWaiting = {} /\ AbsWaiting' = {}
    BY <1>2 DEF SubmitIdle, AbsWaiting, NothingStranded
  <2> QED
    BY <1>2, <2>1, <2>4, <2>5 DEF SubmitIdle, Promise!Start, AbsBatch, AbsWaiting
<1>3. ASSUME NEW c \in Callers, BuildAgain(c) PROVE Promise!BuildEnds
  <2>1. AbsBatch = Covers(batch[c]) /\ AbsBatch # {}
    BY <1>3, BatchOfBuilder, CoversNonEmpty DEF BuildAgain
  <2>2. Building' = {c}
    BY <1>3 DEF BuildAgain, Building, OneBuilder
  <2>3. AbsBatch' = Covers(pending)
    BY <1>3, <2>2 DEF BuildAgain, AbsBatch, Covers, Everything
  <2>4. Covers(pending) = AbsWaiting
    BY <1>3 DEF BuildAgain, Covers, AbsWaiting, NothingStranded
  <2>5. AbsWaiting' = {}
    BY <1>3 DEF BuildAgain, AbsWaiting
  <2> QED
    BY <1>3, <2>1, <2>3, <2>4, <2>5 DEF BuildAgain, Promise!BuildEnds, AbsBatch, AbsWaiting
<1>4. ASSUME NEW c \in Callers, BuildLast(c) PROVE Promise!BuildEnds
  <2>1. AbsBatch = Covers(batch[c]) /\ AbsBatch # {}
    BY <1>4, BatchOfBuilder, CoversNonEmpty DEF BuildLast
  <2>2. Building' = {}
    BY <1>4 DEF BuildLast, Building, OneBuilder
  <2>3. AbsBatch' = {}
    BY <2>2 DEF AbsBatch
  <2>4. AbsWaiting = {} /\ AbsWaiting' = {}
    BY <1>4 DEF BuildLast, AbsWaiting
  <2> QED
    BY <1>4, <2>1, <2>3, <2>4 DEF BuildLast, Promise!BuildEnds, AbsBatch, AbsWaiting
<1>5. ASSUME NEW c \in Callers, Wait(c) PROVE UNCHANGED Promise!vars
  <2>1. Building' = Building
    BY <1>5 DEF Wait, Building
  <2> QED
    BY <1>5, <2>1 DEF Wait, Promise!vars
<1>6. ASSUME Close PROVE Promise!Close
  <2>1. Building' = Building
    BY <1>6 DEF Close, Building
  <2> QED
    BY <1>6, <2>1 DEF Close, Promise!Close
<1>7. ASSUME UNCHANGED vars PROVE UNCHANGED Promise!vars
  <2>1. Building' = Building
    BY <1>7 DEF vars, Building
  <2> QED
    BY <1>7, <2>1 DEF vars, Promise!vars
<1>8. ASSUME NEW paths \in Arguments PROVE Covers(paths) \in (SUBSET Everything) \ {{}}
  <2>1. paths \in SUBSET Paths
    BY <1>8 DEF Arguments
  <2>2. Covers(paths) \in SUBSET Everything /\ Covers(paths) # {}
    BY <2>1, CoversNonEmpty
  <2> QED
    BY <2>2
<1> QED
  BY <1>1, <1>2, <1>3, <1>4, <1>5, <1>6, <1>7, <1>8 DEF Next, Submit, Promise!Next

(* The queue does what ChangeQueue promises (its liveness is checked by    *)
(* TLC): one build at a time, none of the accepted changes forgotten.      *)
THEOREM ImplementsChangeQueue == Spec => Promise!Spec
<1> QED
  BY RefinesInit, RefinesStep, Inductive, PTL DEF Spec, Promise!Spec

-----------------------------------------------------------------------------
(* The session. *)

(* A goroutine is in the callback only while the queue runs its build:     *)
(* with OneBuilder, no two goroutines touch the directories.               *)
InCallback == \A c \in Callers : phase[c] # "none" => pc[c] = "building"

(* What a build has left in the directories, by the step it has reached.   *)
BuildPlaces ==
    \A c \in Callers :
        /\ phase[c] \in {"swap", "move", "publish"} => next = revision[c]
        /\ phase[c] = "swapped" => live = revision[c]
        /\ phase[c] = "done" => failed \/ live = revision[c]

(* Between the renames the rollback has a whole copy that nobody deletes.  *)
CanRollBack ==
    \A c \in Callers :
        /\ phase[c] \in {"move", "publish", "rollback"} => ~cleaning
        /\ phase[c] \in {"publish", "rollback"} => live = Missing /\ old \in Revision

(* tmpDir.old is some goroutine's to rename or delete. *)
OldIsHeld ==
    old # Missing =>
        \/ cleaning \/ lost
        \/ \E c \in Callers : phase[c] \in {"publish", "rollback"}

(* A build that has read an old source will be followed by another.        *)
ReadsAll ==
    \A c \in Callers :
        phase[c] # "none" => full \/ pending # {} \/ revision[c] = submits

(* What each deferred call leaves to the next ones. *)
Ending ==
    /\ stage \notin {"serving", "closing"} => closed
    /\ stage \in {"quiet", "removed", "exited"} => Main \in waited
    /\ stage \in {"removed", "exited"} => next = Missing /\ ~cleaning

SInv ==
    /\ SessionTypeOK /\ IInv
    /\ InCallback /\ BuildPlaces /\ CanRollBack
    /\ ServesWholeBuilds /\ MissingOnlyInSwap /\ OldIsHeld
    /\ ReadsAll /\ UpToDateOrAlerted
    /\ Ending

-----------------------------------------------------------------------------
(* The session drives the queue and nothing else does. *)
LEMMA QueueStep == [SessionNext]_allVars => [Next]_vars
<1> SUFFICES ASSUME [SessionNext]_allVars PROVE [Next]_vars
  OBVIOUS
<1>1. ASSUME NEW c \in Submitters, NEW paths \in Arguments, Edit(c, paths)
      PROVE  Next
  BY <1>1 DEF Edit, Next, Submitters
<1>2. ASSUME NEW c \in Callers, Return(c) PROVE Next
  BY <1>2 DEF Return, Next
<1>3. ASSUME NEW c \in Callers, Rebuild(c), ~Return(c) PROVE UNCHANGED vars
  BY <1>3 DEF Rebuild, Begin, Built, BuildFails, Reclaim, MoveLive, MoveFails, Publish,
              PublishFails, Rollback, RollbackFails, Alert, Reload, queue
<1>4. CASE CleanSome \/ CleanEnds \/ Cancel \/ WaitWatcher \/ RemoveNext \/ Exit
  BY <1>4 DEF CleanSome, CleanEnds, Cancel, WaitWatcher, RemoveNext, Exit, queue
<1>5. CASE CloseQueue
  BY <1>5 DEF CloseQueue, Next
<1>6. CASE WaitQueue
  BY <1>6 DEF WaitQueue, Next
<1>7. CASE UNCHANGED allVars
  BY <1>7 DEF allVars, queue
<1> QED
  BY <1>1, <1>2, <1>3, <1>4, <1>5, <1>6, <1>7 DEF SessionNext, Shutdown

LEMMA SessionInvInit == SessionInit => SInv
<1> SUFFICES ASSUME SessionInit PROVE SInv
  OBVIOUS
<1>1. IInv
  BY InvInit DEF SessionInit
<1>2. 0 \in Revision /\ 0 # Missing /\ 0 # Partial
  BY DEF Revision
<1>3. SessionTypeOK
  BY <1>1, <1>2 DEF IInv, SessionInit, SessionTypeOK, Phase, Stage, Dir
<1>4. submits = 0
  BY DEF SessionInit, Init
<1> QED
  BY <1>1, <1>2, <1>3, <1>4 DEF SInv, SessionInit, InCallback, BuildPlaces, CanRollBack,
     ServesWholeBuilds, MissingOnlyInSwap, OldIsHeld, ReadsAll, UpToDateOrAlerted, Ending

LEMMA SessionTypeStep ==
  ASSUME SessionTypeOK, TypeOK', [SessionNext]_allVars
  PROVE  SessionTypeOK'
<1> USE DEF SessionTypeOK, Phase, Stage, Dir
<1>1. ASSUME NEW c \in Submitters, NEW paths \in Arguments, Edit(c, paths)
      PROVE  SessionTypeOK'
  BY <1>1 DEF Edit, session, dirs
<1>2. ASSUME NEW c \in Callers, Rebuild(c) PROVE SessionTypeOK'
  <2>1. submits \in Revision
    BY DEF TypeOK, Revision
  <2>2. CASE Begin(c) \/ Built(c) \/ BuildFails(c)
    BY <2>1, <2>2 DEF Begin, Built, BuildFails, Goto, dirs
  <2>3. CASE Reclaim(c) \/ MoveLive(c) \/ MoveFails(c)
    BY <2>3 DEF Reclaim, MoveLive, MoveFails, Goto, dirs
  <2>4. CASE Publish(c) \/ PublishFails(c)
    BY <2>4 DEF Publish, PublishFails, Goto, dirs
  <2>5. CASE Rollback(c) \/ RollbackFails(c)
    BY <2>5 DEF Rollback, RollbackFails, Goto, dirs
  <2>6. CASE Alert(c)
    BY <2>6 DEF Alert, Goto
  <2>7. CASE Reload(c)
    BY <2>7 DEF Reload, Goto, dirs
  <2>8. CASE Return(c)
    BY <2>8 DEF Return, Goto, dirs
  <2> QED
    BY <1>2, <2>2, <2>3, <2>4, <2>5, <2>6, <2>7, <2>8 DEF Rebuild
<1>3. CASE CleanSome \/ CleanEnds \/ Cancel
  BY <1>3 DEF CleanSome, CleanEnds, Cancel, session, dirs
<1>4. CASE CloseQueue \/ WaitWatcher \/ WaitQueue
  BY <1>4 DEF CloseQueue, WaitWatcher, WaitQueue, session, dirs
<1>5. CASE RemoveNext \/ Exit
  BY <1>5 DEF RemoveNext, Exit
<1>6. CASE UNCHANGED allVars
  BY <1>6 DEF allVars, session, dirs
<1> QED
  BY <1>1, <1>2, <1>3, <1>4, <1>5, <1>6 DEF SessionNext, Shutdown

-----------------------------------------------------------------------------
(* Only the goroutine that the queue lets build is in the callback. *)
LEMMA OneInCallback ==
  ASSUME OneBuilder, InCallback, NEW c \in Callers, phase[c] # "none"
  PROVE  /\ running /\ pc[c] = "building"
         /\ \A d \in Callers : d # c => phase[d] = "none"
  BY DEF OneBuilder, InCallback

(* Nobody else's step moves a goroutine that builds. *)
LEMMA InCallbackStep ==
  ASSUME SInv, [SessionNext]_allVars
  PROVE  InCallback'
<1> USE DEF SInv, InCallback, IInv
<1>0. phase \in [Callers -> Phase] /\ pc \in [Callers -> PC]
  BY DEF SessionTypeOK, TypeOK
<1>1. ASSUME NEW c \in Submitters, NEW paths \in Arguments, Edit(c, paths)
      PROVE  InCallback'
  BY <1>0, <1>1 DEF Edit, Submit, SubmitBusy, SubmitIdle, session, dirs
<1>2. ASSUME NEW c \in Callers, Return(c) PROVE InCallback'
  <2>1. \A d \in Callers : d # c => phase[d] = "none"
    BY <1>2, OneInCallback DEF Return
  <2> QED
    BY <1>0, <1>2, <2>1 DEF Return, Goto
<1>3. ASSUME NEW c \in Callers, Rebuild(c), ~Return(c) PROVE InCallback'
  <2>1. UNCHANGED pc /\ \E p \in Phase : Goto(c, p)
    BY <1>3 DEF Rebuild, Begin, Built, BuildFails, Reclaim, MoveLive, MoveFails, Publish,
                PublishFails, Rollback, RollbackFails, Alert, Reload, queue, vars, Phase
  <2>2. pc[c] = "building"
    BY <1>3 DEF Rebuild, Begin, Built, BuildFails, Reclaim, MoveLive, MoveFails, Publish,
                PublishFails, Rollback, RollbackFails, Alert, Reload
  <2> QED
    BY <1>0, <2>1, <2>2 DEF Goto
<1>4. CASE CleanSome \/ CleanEnds \/ Cancel \/ WaitWatcher \/ RemoveNext \/ Exit
  BY <1>4 DEF CleanSome, CleanEnds, Cancel, WaitWatcher, RemoveNext, Exit, session, queue, vars
<1>5. CASE CloseQueue
  BY <1>5 DEF CloseQueue, Close, session
<1>6. CASE WaitQueue
  BY <1>0, <1>6 DEF WaitQueue, Wait, session
<1>7. CASE UNCHANGED allVars
  BY <1>7 DEF allVars, session, queue, vars
<1> QED
  BY <1>1, <1>2, <1>3, <1>4, <1>5, <1>6, <1>7 DEF SessionNext, Shutdown

(* The directories. *)
Places == BuildPlaces /\ CanRollBack
Safe == ServesWholeBuilds /\ MissingOnlyInSwap /\ OldIsHeld

LEMMA RebuildPlaces ==
  ASSUME SInv, NEW c \in Callers, Rebuild(c), stage # "exited"
  PROVE  Places' /\ Safe'
<1> DEFINE At(p) == phase'[c] = p /\ \A d \in Callers : d # c => phase'[d] = "none"
<1> USE DEF Places, Safe, BuildPlaces, CanRollBack, ServesWholeBuilds, MissingOnlyInSwap, OldIsHeld
<1>0. /\ phase \in [Callers -> Phase] /\ revision \in [Callers -> Revision]
      /\ live \in Revision \cup {Missing}
      /\ \A n \in Revision : n # Missing /\ n # Partial
  BY DEF SInv, SessionTypeOK, Dir, Revision
<1>a. \A d \in Callers : d # c => phase[d] = "none"
  BY DEF Rebuild, Begin, Built, BuildFails, Reclaim, MoveLive, MoveFails, Publish, PublishFails,
         Rollback, RollbackFails, Alert, Reload, Return, SInv, IInv, OneBuilder, InCallback
<1>1. \A p \in Phase : Goto(c, p) => At(p)
  BY <1>0, <1>a DEF Goto
<1>2. CASE Begin(c)
  <2>1. At("build")
    BY <1>1, <1>2 DEF Begin, Phase
  <2> QED
    BY <1>0, <1>a, <1>2, <2>1 DEF Begin, SInv
<1>3. CASE Built(c)
  <2>1. At("swap")
    BY <1>1, <1>3 DEF Built, Phase
  <2> QED
    BY <1>0, <1>a, <1>3, <2>1 DEF Built, SInv
<1>4. CASE BuildFails(c)
  <2>1. At("failed")
    BY <1>1, <1>4 DEF BuildFails, Phase
  <2> QED
    BY <1>0, <1>a, <1>4, <2>1 DEF BuildFails, SInv, dirs
<1>5. CASE Reclaim(c)
  <2>1. At("move")
    BY <1>1, <1>5 DEF Reclaim, Phase
  <2> QED
    BY <1>0, <1>a, <1>5, <2>1 DEF Reclaim, SInv
<1>6. CASE MoveLive(c)
  <2>1. At("publish")
    BY <1>1, <1>6 DEF MoveLive, Phase
  <2> QED
    BY <1>0, <1>a, <1>6, <2>1 DEF MoveLive, SInv
<1>7. CASE MoveFails(c)
  <2>1. At("failed")
    BY <1>1, <1>7 DEF MoveFails, Phase
  <2> QED
    BY <1>0, <1>a, <1>7, <2>1 DEF MoveFails, SInv, dirs
<1>8. CASE Publish(c)
  <2>1. At("swapped")
    BY <1>1, <1>8 DEF Publish, Phase
  <2> QED
    BY <1>0, <1>a, <1>8, <2>1 DEF Publish, SInv
<1>9. CASE PublishFails(c)
  <2>1. At("rollback")
    BY <1>1, <1>9 DEF PublishFails, Phase
  <2> QED
    BY <1>0, <1>a, <1>9, <2>1 DEF PublishFails, SInv, dirs
<1>10. CASE Rollback(c)
  <2>1. At("failed")
    BY <1>1, <1>10 DEF Rollback, Phase
  <2> QED
    BY <1>0, <1>a, <1>10, <2>1 DEF Rollback, SInv
<1>11. CASE RollbackFails(c)
  <2>1. At("failed")
    BY <1>1, <1>11 DEF RollbackFails, Phase
  <2> QED
    BY <1>0, <1>a, <1>11, <2>1 DEF RollbackFails, SInv, dirs
<1>12. CASE Alert(c)
  <2>1. At("done")
    BY <1>1, <1>12 DEF Alert, Phase
  <2> QED
    BY <1>0, <1>a, <1>12, <2>1 DEF Alert, SInv
<1>13. CASE Reload(c)
  <2>1. At("done")
    BY <1>1, <1>13 DEF Reload, Phase
  <2> QED
    BY <1>0, <1>a, <1>13, <2>1 DEF Reload, SInv, dirs
<1>14. CASE Return(c)
  <2>1. At("none")
    BY <1>1, <1>14 DEF Return, Phase
  <2> QED
    BY <1>0, <1>a, <1>14, <2>1 DEF Return, SInv, dirs
<1> QED
  BY <1>2, <1>3, <1>4, <1>5, <1>6, <1>7, <1>8, <1>9, <1>10, <1>11, <1>12, <1>13, <1>14
  DEF Rebuild

LEMMA PlacesStep ==
  ASSUME SInv, [SessionNext]_allVars
  PROVE  Places' /\ Safe'
<1> USE DEF Places, Safe, BuildPlaces, CanRollBack, ServesWholeBuilds, MissingOnlyInSwap, OldIsHeld
<1>1. ASSUME NEW c \in Submitters, NEW paths \in Arguments, Edit(c, paths)
      PROVE  Places' /\ Safe'
  BY <1>1 DEF Edit, session, dirs, SInv
<1>2. ASSUME NEW c \in Callers, Rebuild(c), stage # "exited" PROVE Places' /\ Safe'
  BY <1>2, RebuildPlaces
<1>3. CASE CleanSome \/ CleanEnds
  BY <1>3 DEF CleanSome, CleanEnds, SInv
<1>4. CASE Cancel \/ CloseQueue \/ WaitWatcher
  BY <1>4 DEF Cancel, CloseQueue, WaitWatcher, session, dirs, SInv
<1>5. CASE WaitQueue
  BY <1>5 DEF WaitQueue, session, dirs, SInv
<1>6. ASSUME RemoveNext \/ Exit PROVE Places' /\ Safe'
  <2>1. \A c \in Callers : phase[c] = "none"
    BY <1>6 DEF RemoveNext, Exit, SInv, IInv, Ending, WaitIsFinal, OneBuilder, InCallback
  <2> QED
    BY <1>6, <2>1 DEF RemoveNext, Exit, SInv
<1>7. CASE UNCHANGED allVars
  BY <1>7 DEF allVars, session, dirs, SInv
<1> QED
  BY <1>1, <1>2, <1>3, <1>4, <1>5, <1>6, <1>7 DEF SessionNext, Shutdown

-----------------------------------------------------------------------------
(* A submission during a build leaves something pending, so the queue is   *)
(* released only by a build that has read every accepted edit.             *)
Current == ReadsAll /\ UpToDateOrAlerted

LEMMA CurrentStep ==
  ASSUME SInv, [SessionNext]_allVars
  PROVE  Current'
<1> USE DEF Current, ReadsAll, UpToDateOrAlerted
<1>0. phase \in [Callers -> Phase] /\ revision \in [Callers -> Revision]
  BY DEF SInv, SessionTypeOK
<1>1. ASSUME NEW c \in Submitters, NEW paths \in Arguments, Edit(c, paths)
      PROVE  Current'
  <2>1. UNCHANGED <<phase, revision>> /\ running'
    BY <1>1 DEF Edit, Submit, SubmitBusy, SubmitIdle, session
  <2>2. CASE SubmitBusy(c, paths)
    <3>1. full' \/ pending' # {}
      BY <2>2 DEF SubmitBusy, Merged
    <3> QED
      BY <2>1, <3>1
  <2>3. CASE SubmitIdle(c, paths)
    <3>1. \A d \in Callers : phase[d] = "none"
      BY <2>3 DEF SubmitIdle, SInv, IInv, OneBuilder, InCallback
    <3> QED
      BY <2>1, <3>1
  <2> QED
    BY <1>1, <2>2, <2>3 DEF Edit, Submit
<1>2. ASSUME NEW c \in Callers, Rebuild(c) PROVE Current'
  <2>1. \A d \in Callers : d # c => phase[d] = "none"
    BY <1>2 DEF Rebuild, Begin, Built, BuildFails, Reclaim, MoveLive, MoveFails, Publish,
                PublishFails, Rollback, RollbackFails, Alert, Reload, Return,
                SInv, IInv, OneBuilder, InCallback
  <2>2. CASE Begin(c)
    BY <1>0, <2>1, <2>2 DEF Begin, Goto, queue, vars, SInv, IInv, OneBuilder
  <2>3. CASE Return(c)
    <3>1. \A d \in Callers : phase'[d] = "none"
      BY <1>0, <2>1, <2>3 DEF Return, Goto
    <3>2. CASE BuildAgain(c)
      BY <2>3, <3>1, <3>2, OneInCallback DEF Return, BuildAgain, SInv, IInv
    <3>3. CASE BuildLast(c)
      <4>1. live = submits \/ failed
        BY <2>3, <3>3 DEF Return, BuildLast, SInv, BuildPlaces
      <4> QED
        BY <2>3, <3>1, <3>3, <4>1 DEF Return, BuildLast, dirs
    <3> QED
      BY <2>3, <3>2, <3>3 DEF Return
  <2>4. ASSUME Rebuild(c), ~Begin(c), ~Return(c) PROVE Current'
    <3>1. /\ UNCHANGED <<running, full, pending, submits, revision>>
          /\ phase[c] # "none" /\ \E p \in Phase : Goto(c, p)
      BY <2>4 DEF Rebuild, Built, BuildFails, Reclaim, MoveLive, MoveFails, Publish,
                  PublishFails, Rollback, RollbackFails, Alert, Reload, queue, vars, Phase
    <3> QED
      BY <1>0, <2>1, <3>1, OneInCallback DEF Goto, SInv, IInv
  <2> QED
    BY <1>2, <2>2, <2>3, <2>4
<1>3. CASE CleanSome \/ CleanEnds \/ Cancel \/ WaitWatcher \/ RemoveNext
  BY <1>3 DEF CleanSome, CleanEnds, Cancel, WaitWatcher, RemoveNext, session, dirs, queue, vars, SInv
<1>4. CASE CloseQueue
  BY <1>4 DEF CloseQueue, Close, session, dirs, SInv
<1>5. CASE WaitQueue
  BY <1>5 DEF WaitQueue, Wait, session, dirs, SInv
<1>6. CASE Exit
  BY <1>6 DEF Exit, queue, vars, SInv
<1>7. CASE UNCHANGED allVars
  BY <1>7 DEF allVars, session, dirs, queue, vars, SInv
<1> QED
  BY <1>1, <1>2, <1>3, <1>4, <1>5, <1>6, <1>7 DEF SessionNext, Shutdown

(* The deferred calls: once queue.Wait has let Main go on, no goroutine is *)
(* in the callback, so nothing writes tmpDir.next or starts a deletion.    *)
LEMMA EndingStep ==
  ASSUME SInv, [SessionNext]_allVars
  PROVE  Ending'
<1> USE DEF Ending
<1>1. ASSUME NEW c \in Submitters, NEW paths \in Arguments, Edit(c, paths)
      PROVE  Ending'
  BY <1>1 DEF Edit, Submit, SubmitBusy, SubmitIdle, session, dirs, SInv
<1>2. ASSUME NEW c \in Callers, Rebuild(c) PROVE Ending'
  <2>1. running
    BY <1>2 DEF Rebuild, Begin, Built, BuildFails, Reclaim, MoveLive, MoveFails, Publish,
                PublishFails, Rollback, RollbackFails, Alert, Reload, Return,
                SInv, IInv, OneBuilder, InCallback
  <2>2. stage \notin {"quiet", "removed", "exited"}
    BY <2>1 DEF SInv, IInv, WaitIsFinal
  <2>3. UNCHANGED <<stage, closed>>
    BY <1>2 DEF Rebuild, Begin, Built, BuildFails, Reclaim, MoveLive, MoveFails, Publish,
                PublishFails, Rollback, RollbackFails, Alert, Reload, Return,
                BuildAgain, BuildLast, queue, vars
  <2> QED
    BY <2>2, <2>3 DEF SInv
<1>3. CASE CleanSome \/ CleanEnds \/ Cancel \/ WaitWatcher \/ RemoveNext \/ Exit
  BY <1>3 DEF CleanSome, CleanEnds, Cancel, WaitWatcher, RemoveNext, Exit,
              session, dirs, queue, vars, SInv
<1>4. CASE CloseQueue
  BY <1>4 DEF CloseQueue, Close, SInv
<1>5. CASE WaitQueue
  BY <1>5 DEF WaitQueue, Wait, SInv
<1>6. CASE UNCHANGED allVars
  BY <1>6 DEF allVars, session, dirs, queue, vars, SInv
<1> QED
  BY <1>1, <1>2, <1>3, <1>4, <1>5, <1>6 DEF SessionNext, Shutdown

LEMMA SessionInvStep == SInv /\ [SessionNext]_allVars => SInv'
<1> SUFFICES ASSUME SInv, [SessionNext]_allVars PROVE SInv'
  OBVIOUS
<1>1. IInv'
  BY QueueStep, InvStep DEF SInv
<1>2. SessionTypeOK'
  BY <1>1, SessionTypeStep DEF SInv, IInv
<1> QED
  BY <1>1, <1>2, InCallbackStep, PlacesStep, CurrentStep, EndingStep
  DEF SInv, Places, Safe, Current

LEMMA SessionInductive == SessionSpec => []SInv
  BY SessionInvInit, SessionInvStep, PTL DEF SessionSpec

-----------------------------------------------------------------------------
(* The type invariant of the session and of its queue. *)
THEOREM SessionTypeCorrect == SessionSpec => []SessionTypeOK
<1>1. SInv => SessionTypeOK
  BY DEF SInv
<1> QED
  BY <1>1, SessionInductive, PTL

(* No rebuild, rename, rollback or deletion ever shows a half directory.   *)
THEOREM WholeBuildsServed == SessionSpec => []ServesWholeBuilds
<1>1. SInv => ServesWholeBuilds
  BY DEF SInv
<1> QED
  BY <1>1, SessionInductive, PTL

(* The only gap in what is served is the one between the two renames.      *)
THEOREM MissingOnlyWhileSwapping == SessionSpec => []MissingOnlyInSwap
<1>1. SInv => MissingOnlyInSwap
  BY DEF SInv
<1> QED
  BY <1>1, SessionInductive, PTL

(* An idle session serves the accepted edits or has said that it does not. *)
THEOREM NeverSilentlyOld == SessionSpec => []UpToDateOrAlerted
<1>1. SInv => UpToDateOrAlerted
  BY DEF SInv
<1> QED
  BY <1>1, SessionInductive, PTL

(* The deferred calls stop and remove everything, in an order that works.  *)
THEOREM NothingLeftBehind == SessionSpec => []LeavesNothing
<1>1. SInv => LeavesNothing
  <2> SUFFICES ASSUME SInv, stage = "exited"
               PROVE  ~running /\ ~cleaning /\ next = Missing /\ (old = Missing \/ lost)
    BY DEF LeavesNothing
  <2>1. ~running /\ \A c \in Callers : phase[c] = "none"
    BY DEF SInv, IInv, Ending, WaitIsFinal, OneBuilder, InCallback
  <2> QED
    BY <2>1 DEF SInv, Ending, OldIsHeld
<1> QED
  BY <1>1, SessionInductive, PTL

(* No interleaving of rebuilds, deletions and shutdown harms a directory.  *)
THEOREM DirectoriesAlwaysSafe == SessionSpec => []DirectoriesSafe
<1>1. SInv => NoWorkAfterWait
  BY DEF SInv, IInv, WaitIsFinal, OneBuilder, NoWorkAfterWait
<1> QED
  BY <1>1, SessionInductive, WholeBuildsServed, MissingOnlyWhileSwapping,
     NothingLeftBehind, PTL DEF DirectoriesSafe

(* The session steps as its queue does, so what is proved of the queue     *)
(* holds in the session: no accepted edit is forgotten between rebuilds.   *)
THEOREM SessionKeepsChanges == SessionSpec => Promise!Spec
<1>1. SessionSpec => Spec
  BY QueueStep, PTL DEF SessionSpec, SessionInit, Spec
<1> QED
  BY <1>1, ImplementsChangeQueue, PTL
-----------------------------------------------------------------------------
(* The debouncing watcher. The invariant is about generations: each is     *)
(* with the timer, in its fired goroutine, in a callback or gone, and      *)
(* never in two of them.                                                   *)

(* A generation that is armed is the newest, and nobody else has it. *)
ArmedIsNewest ==
    armed # 0 => armed = generation /\ armed \notin fired \cup callbacks

(* A timer fires once and starts one callback. *)
FiredOnce ==
    /\ fired \cap callbacks = {}
    /\ \A g \in fired \cup callbacks : g <= generation

(* Run returns after its callbacks. *)
ReturnIsLast == run = "returned" => callbacks = {}

WInv == WatcherTypeOK /\ ArmedIsNewest /\ FiredOnce /\ ReturnIsLast

LEMMA WatcherInvInit == WatcherInit => WInv
<1>1. WatcherInit => WatcherTypeOK
  <2>1. WatcherInit => delivered \in [Generations -> SUBSET Watched]
    BY DEF WatcherInit
  <2>2. WatcherInit => generation \in 0..MaxEvents /\ armed \in 0..MaxEvents
    BY DevWatcherAssumption DEF WatcherInit
  <2>3. WatcherInit => /\ reported \subseteq Watched /\ fired \subseteq Generations
                /\ callbacks \subseteq Generations
                /\ cancelled \in BOOLEAN /\ run \in {"loop", "stopped", "returned"}
    BY DEF WatcherInit
  <2> QED
    BY <2>1, <2>2, <2>3 DEF WatcherTypeOK
<1> QED
  BY <1>1 DEF WatcherInit, WInv, ArmedIsNewest, FiredOnce, ReturnIsLast

LEMMA WatcherTypeStep == WatcherTypeOK /\ [WatcherNext]_watcherVars => WatcherTypeOK'
<1> SUFFICES ASSUME WatcherTypeOK, [WatcherNext]_watcherVars PROVE WatcherTypeOK'
  OBVIOUS
<1> USE DevWatcherAssumption DEF WatcherTypeOK, Generations
<1>1. ASSUME NEW p \in Watched, Schedule(p) PROVE WatcherTypeOK'
  BY <1>1 DEF Schedule
<1>2. CASE TimerFires
  BY <1>2 DEF TimerFires
<1>3. ASSUME NEW g \in Generations, GiveUp(g) PROVE WatcherTypeOK'
  BY <1>3 DEF GiveUp
<1>4. ASSUME NEW g \in Generations, StartCallback(g) PROVE WatcherTypeOK'
  BY <1>4 DEF StartCallback
<1>5. ASSUME NEW g \in Generations, EndCallback(g) PROVE WatcherTypeOK'
  BY <1>5 DEF EndCallback
<1>6. CASE CancelContext
  BY <1>6 DEF CancelContext
<1>7. CASE Stop
  BY <1>7 DEF Stop
<1>8. CASE RunReturns
  BY <1>8 DEF RunReturns
<1>9. CASE UNCHANGED watcherVars
  BY <1>9 DEF watcherVars
<1> QED
  BY <1>1, <1>2, <1>3, <1>4, <1>5, <1>6, <1>7, <1>8, <1>9 DEF WatcherNext, Timer

LEMMA WatcherInvStep == WInv /\ [WatcherNext]_watcherVars => WInv'
<1> SUFFICES ASSUME WInv, [WatcherNext]_watcherVars PROVE (ArmedIsNewest /\ FiredOnce /\ ReturnIsLast)'
  BY WatcherTypeStep DEF WInv
<1> USE DevWatcherAssumption
        DEF WInv, WatcherTypeOK, Generations, ArmedIsNewest, FiredOnce, ReturnIsLast
<1>1. ASSUME NEW p \in Watched, Schedule(p)
      PROVE  (ArmedIsNewest /\ FiredOnce /\ ReturnIsLast)'
  BY <1>1 DEF Schedule, stopped
<1>2. CASE TimerFires
  BY <1>2 DEF TimerFires
<1>3. ASSUME NEW g \in Generations, GiveUp(g)
      PROVE  (ArmedIsNewest /\ FiredOnce /\ ReturnIsLast)'
  BY <1>3 DEF GiveUp
<1>4. ASSUME NEW g \in Generations, StartCallback(g)
      PROVE  (ArmedIsNewest /\ FiredOnce /\ ReturnIsLast)'
  BY <1>4 DEF StartCallback, Overruled, stopped
<1>5. ASSUME NEW g \in Generations, EndCallback(g)
      PROVE  (ArmedIsNewest /\ FiredOnce /\ ReturnIsLast)'
  BY <1>5 DEF EndCallback
<1>6. CASE CancelContext \/ Stop \/ RunReturns \/ UNCHANGED watcherVars
  BY <1>6 DEF CancelContext, Stop, RunReturns, watcherVars
<1> QED
  BY <1>1, <1>2, <1>3, <1>4, <1>5, <1>6 DEF WatcherNext, Timer

LEMMA WatcherInductive == WatcherSpec => []WInv
  BY WatcherInvInit, WatcherInvStep, PTL DEF WatcherSpec

-----------------------------------------------------------------------------
(* The type invariant of the watcher. *)
THEOREM WatcherTypeCorrect == WatcherSpec => []WatcherTypeOK
<1>1. WInv => WatcherTypeOK
  BY DEF WInv
<1> QED
  BY <1>1, WatcherInductive, PTL

(* After Run has returned its caller is alone: a timer that fired late     *)
(* finds Run stopped, and no callback is left.                             *)
THEOREM QuietAfterReturn == WatcherSpec => NoCallbackAfterReturn
<1>1. WInv /\ [WatcherNext]_watcherVars =>
        [run = "returned" => callbacks' = {} /\ delivered' = delivered]_watcherVars
  <2> SUFFICES ASSUME WInv, WatcherNext, run = "returned"
               PROVE  callbacks' = {} /\ delivered' = delivered
    OBVIOUS
  <2>1. callbacks = {} /\ stopped
    BY DEF WInv, ReturnIsLast, stopped
  <2> QED
    BY <2>1 DEF WatcherNext, Schedule, TimerFires, Timer, GiveUp, StartCallback, Overruled,
                EndCallback, CancelContext, Stop, RunReturns
<1> QED
  BY <1>1, WatcherInductive, PTL DEF WatcherSpec, NoCallbackAfterReturn

(* A path leaves the batch with a callback, and a batch goes to one        *)
(* callback, whatever timers are replaced or fire late.                    *)
THEOREM BatchesGoOutOnce == WatcherSpec => DeliveredOnce
<1> DEFINE Once == /\ \A p \in reported \ reported' :
                         run' # "loop" \/ \E g \in callbacks' \ callbacks : p \in delivered'[g]
                   /\ callbacks' \subseteq callbacks \/ reported' = {}
<1>1. WInv /\ [WatcherNext]_watcherVars => [Once]_watcherVars
  <2> SUFFICES ASSUME WInv, WatcherNext PROVE Once
    OBVIOUS
  <2>1. ASSUME NEW g \in Generations, StartCallback(g) PROVE Once
    <3>1. g \notin callbacks /\ g \in callbacks' /\ reported' = {}
      BY <2>1 DEF StartCallback, WInv, FiredOnce
    <3>2. delivered'[g] = reported
      BY <2>1 DEF StartCallback, WInv, WatcherTypeOK
    <3> QED
      BY <3>1, <3>2
  <2>2. CASE \A g \in Generations : ~StartCallback(g)
    BY <2>2 DEF WatcherNext, Schedule, TimerFires, Timer, GiveUp, EndCallback, CancelContext, Stop, RunReturns
  <2> QED
    BY <2>1, <2>2
<1> QED
  BY <1>1, WatcherInductive, PTL DEF WatcherSpec, DeliveredOnce
=============================================================================
