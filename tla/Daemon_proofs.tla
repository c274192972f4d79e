--------------------------- MODULE Daemon_proofs ---------------------------
(***************************************************************************)
(* Proofs about the daemon, for any files, clients, buffers and number of  *)
(* edits: who is told that a build is completed finds it in the index.     *)
(***************************************************************************)
EXTENDS Daemon, TLAPS

USE DaemonAssumption

Versions == [Files -> Nat]
AtLeast(v, w) == \A f \in Files : v[f] >= w[f]

Events ==
    [type : {"changed", "failed", "completed"}, full : BOOLEAN,
     files : SUBSET Paths, version : Versions]
Jobs ==
    [pc : {"idle", "load", "write", "reload", "publish", "check"}, full : BOOLEAN,
     files : SUBSET Paths, snap : Versions]

ContentType ==
    /\ dirs \in SUBSET (Dirs \cup {Site})
    /\ src \in Versions /\ out \in Versions /\ api \in Versions /\ index \in Versions
    /\ known \in SUBSET Files /\ reloadFailed \in BOOLEAN
BuilderType == build \in Jobs /\ queued \in BOOLEAN
WatcherType ==
    /\ events \in SUBSET Paths /\ collected \in SUBSET Paths
    /\ watched \in SUBSET (Dirs \cup {Site}) /\ reports \in SUBSET SUBSET Paths
    /\ armed \in BOOLEAN /\ firing \in Nat
BusType ==
    /\ log \in Seq(Events) /\ closed \in BOOLEAN
    /\ deliveries \in SUBSET ({"builder", "hub"} \X DOMAIN log)
HubType == conn \in [Clients -> {"out", "in", "gone"}] /\ buffer \in [Clients -> 0..Buffer]
RunType ==
    /\ stage \in {"building", "ready", "watching", "serving", "draining", "closing",
                  "stopped", "failed"}
    /\ spent \in 0..MaxSpent

TypeOK == ContentType /\ BuilderType /\ WatcherType /\ BusType /\ HubType /\ RunType

(* What the build at work has loaded, and what of it is on the disk and in *)
(* the index, by the step it has reached.                                  *)
BuildPlaces ==
    /\ build.pc = "write" => AtLeast(build.snap, api)
    /\ build.pc \in {"reload", "publish"} => api = build.snap
    /\ build.pc = "publish" /\ ~reloadFailed => index = api

(* Nothing on the disk is ahead of the sources. *)
BehindSource == AtLeast(src, api) /\ (build.pc = "write" => AtLeast(src, build.snap))

(* The JSON files hold every build that was announced. *)
ToldIsWritten ==
    \A i \in DOMAIN log : log[i].type = "completed" => AtLeast(api, log[i].version)

IInv == TypeOK /\ BuildPlaces /\ BehindSource /\ ToldIsWritten /\ NotifiedThenFresh

-----------------------------------------------------------------------------
LEMMA InvInit == Init => IInv
<1> SUFFICES ASSUME Init PROVE IInv
  OBVIOUS
<1>1. Nothing \in Versions /\ src \in Versions /\ \A f \in Files : src[f] >= Nothing[f]
  BY DEF Init, Nothing, Versions
<1>2. build \in Jobs /\ build.pc = "load"
  BY <1>1 DEF Init, Idle, Jobs
<1>3. log = <<>> /\ DOMAIN log = {} /\ log \in Seq(Events)
  BY DEF Init
<1>4. ContentType /\ BuilderType
  BY <1>1, <1>2 DEF Init, ContentType, BuilderType
<1>5. WatcherType /\ BusType
  BY <1>3 DEF Init, WatcherType, BusType
<1>6. HubType /\ RunType
  BY DEF Init, HubType, RunType
<1>7. BuildPlaces /\ BehindSource
  BY <1>1, <1>2 DEF Init, BuildPlaces, BehindSource, AtLeast
<1>8. ToldIsWritten /\ NotifiedThenFresh
  BY <1>3 DEF ToldIsWritten, NotifiedThenFresh
<1> QED
  BY <1>4, <1>5, <1>6, <1>7, <1>8 DEF IInv, TypeOK

(* Publishing adds an event at the end, or nothing once the bus is closed. *)
LEMMA PublishStep ==
  ASSUME BusType, NEW e \in Events, Publish(e)
  PROVE  /\ BusType'
         /\ \A i \in DOMAIN log' : (i \in DOMAIN log /\ log'[i] = log[i]) \/ log'[i] = e
<1>1. CASE closed
  BY <1>1 DEF Publish, BusType, bus
<1>2. CASE ~closed
  <2>1. log \in Seq(Events) /\ log' = Append(log, e) /\ closed' = closed
    BY <1>2 DEF Publish, BusType
  <2>2. log' \in Seq(Events) /\ DOMAIN log' = DOMAIN log \cup {Len(log) + 1}
    BY <2>1
  <2>3. \A i \in DOMAIN log' : (i \in DOMAIN log /\ log'[i] = log[i]) \/ log'[i] = e
    BY <2>1
  <2>4. Handlers(e.type) \X {Len(log) + 1} \in SUBSET ({"builder", "hub"} \X DOMAIN log')
    BY <2>2 DEF Handlers
  <2>5. deliveries \in SUBSET ({"builder", "hub"} \X DOMAIN log')
    BY <2>2 DEF BusType
  <2>6. deliveries' \in SUBSET ({"builder", "hub"} \X DOMAIN log')
    BY <1>2, <2>4, <2>5 DEF Publish
  <2> QED
    BY <2>1, <2>2, <2>3, <2>6 DEF BusType
<1> QED
  BY <1>1, <1>2

LEMMA QueueStep ==
  ASSUME BuilderType, NEW full \in BOOLEAN, NEW files \in SUBSET Paths, Queue(full, files)
  PROVE  BuilderType' /\ (build' = build \/ build'.pc = "load")
<1>1. Nothing \in Versions
  BY DEF Nothing, Versions
<1>2. Idle \in Jobs
  BY <1>1 DEF Idle, Jobs
<1> QED
  BY <1>2 DEF Queue, BuilderType, Jobs

LEMMA SentType ==
  ASSUME HubType
  PROVE  Sent \in [Clients -> 0..Buffer]
<1>1. \A c \in Clients : buffer[c] \in 0..Buffer /\ Buffer \in Nat
  BY DEF HubType
<1>2. \A c \in Clients : buffer[c] < Buffer => buffer[c] + 1 \in 0..Buffer
  BY <1>1
<1> QED
  BY <1>1, <1>2 DEF Sent

-----------------------------------------------------------------------------
(* Which steps change which part of the daemon. *)
LEMMA ContentSteps ==
  [Next]_vars =>
    \/ UNCHANGED content
    \/ FullWrite \/ IncrementalWrite \/ ReloadIndex
    \/ (\E f \in Files : Edit(f)) \/ (\E d \in Dirs : MakeDir(d))
BY DEF vars, Next, Build, Watch, Stream, Shutdown, HandleContentChanged, Broadcast, Tick,
       TriggerRebuild, BuildLoad, BuildFails, NothingAffected, BuildCompleted, BuildReturns,
       StartWatcher, ReadEvent, TimerFires, TakeCollected, OnChange, HandleSubscribe,
       Disconnect, WriteEvent, Unregister, Heartbeat, StartServing, Signal, Drained,
       DrainDeadline, CloseBus

LEMMA BuilderSteps ==
  [Next]_vars =>
    \/ UNCHANGED builder
    \/ \E i \in DOMAIN log : HandleContentChanged(i)
    \/ Tick \/ Build
BY DEF vars, Next, Watch, Stream, Shutdown, Broadcast, TriggerRebuild, Edit, MakeDir,
       StartWatcher, ReadEvent, TimerFires, TakeCollected, OnChange, HandleSubscribe,
       Disconnect, WriteEvent, Unregister, Heartbeat, StartServing, Signal, Drained,
       DrainDeadline, CloseBus

LEMMA WatcherSteps ==
  [Next]_vars =>
    \/ UNCHANGED watcher
    \/ StartWatcher \/ Watch
    \/ (\E f \in Files : Edit(f)) \/ (\E d \in Dirs : MakeDir(d))
BY DEF vars, Next, Build, Stream, Shutdown, HandleContentChanged, Broadcast, Tick,
       TriggerRebuild, BuildLoad, BuildFails, FullWrite, IncrementalWrite, NothingAffected,
       ReloadIndex, BuildCompleted, BuildReturns, HandleSubscribe, Disconnect, WriteEvent,
       Unregister, Heartbeat, StartServing, Signal, Drained, DrainDeadline, CloseBus

LEMMA BusSteps ==
  [Next]_vars =>
    \/ UNCHANGED bus
    \/ \E i \in DOMAIN log : HandleContentChanged(i) \/ Broadcast(i)
    \/ TriggerRebuild \/ BuildFails \/ BuildCompleted \/ CloseBus
    \/ \E files \in SUBSET Paths : OnChange(files)
BY DEF vars, Next, Build, Watch, Stream, Shutdown, Tick, BuildLoad, FullWrite,
       IncrementalWrite, NothingAffected, ReloadIndex, BuildReturns, Edit, MakeDir, StartWatcher,
       ReadEvent, TimerFires, TakeCollected, HandleSubscribe, Disconnect, WriteEvent,
       Unregister, Heartbeat, StartServing, Signal, Drained, DrainDeadline

LEMMA HubSteps ==
  [Next]_vars =>
    \/ UNCHANGED hub
    \/ \E i \in DOMAIN log : Broadcast(i)
    \/ \E c \in Clients : HandleSubscribe(c) \/ Disconnect(c) \/ Stream(c)
    \/ Heartbeat
BY DEF vars, Next, Build, Watch, Shutdown, HandleContentChanged, Tick, TriggerRebuild,
       BuildLoad, BuildFails, FullWrite, IncrementalWrite, NothingAffected, ReloadIndex,
       BuildCompleted, BuildReturns, Edit, MakeDir, StartWatcher, ReadEvent, TimerFires,
       TakeCollected, OnChange, StartServing, Signal, Drained, DrainDeadline, CloseBus

-----------------------------------------------------------------------------
(* Type correctness. *)
LEMMA ContentTypeStep == TypeOK /\ [Next]_vars => ContentType'
<1> SUFFICES ASSUME TypeOK, [Next]_vars PROVE ContentType'
  OBVIOUS
<1> USE DEF TypeOK, ContentType, BuilderType, Jobs
<1>1. CASE UNCHANGED content
  BY <1>1 DEF content
<1>2. CASE FullWrite
  BY <1>2 DEF FullWrite
<1>3. CASE IncrementalWrite
  BY <1>3 DEF IncrementalWrite, Versions
<1>4. CASE ReloadIndex
  BY <1>4 DEF ReloadIndex
<1>5. ASSUME NEW f \in Files, Edit(f) PROVE ContentType'
  BY <1>5 DEF Edit, Versions
<1>6. ASSUME NEW d \in Dirs, MakeDir(d) PROVE ContentType'
  BY <1>6 DEF MakeDir
<1> QED
  BY <1>1, <1>2, <1>3, <1>4, <1>5, <1>6, ContentSteps

LEMMA BuilderTypeStep == TypeOK /\ [Next]_vars => BuilderType'
<1> SUFFICES ASSUME TypeOK, [Next]_vars PROVE BuilderType'
  OBVIOUS
<1>1. CASE UNCHANGED builder
  BY <1>1 DEF builder, BuilderType, TypeOK
<1>2. ASSUME NEW i \in DOMAIN log, HandleContentChanged(i) PROVE BuilderType'
  <2>1. log \in Seq(Events)
    BY DEF TypeOK, BusType
  <2>2. log[i] \in Events
    BY <2>1
  <2>3. log[i].files \in SUBSET Paths
    BY <2>2 DEF Events
  <2> QED
    BY <1>2, <2>3, QueueStep DEF HandleContentChanged, TypeOK
<1>3. CASE Tick
  BY <1>3, QueueStep DEF Tick, TypeOK
<1>4. CASE Build
  <2>1. Idle \in Jobs
    BY DEF Idle, Jobs, Nothing, Versions
  <2>2. build \in Jobs /\ queued \in BOOLEAN /\ src \in Versions
    BY DEF TypeOK, BuilderType, ContentType
  <2>3. CASE BuildLoad
    BY <2>2, <2>3 DEF BuildLoad, BuilderType, Jobs
  <2>4. CASE BuildFails
    BY <2>1, <2>2, <2>4 DEF BuildFails, BuilderType
  <2>5. CASE FullWrite \/ IncrementalWrite \/ NothingAffected \/ ReloadIndex \/ BuildCompleted
    BY <2>2, <2>5 DEF FullWrite, IncrementalWrite, NothingAffected, ReloadIndex,
                      BuildCompleted, BuilderType, Jobs
  <2>6. CASE BuildReturns
    BY <2>1, <2>2, <2>6 DEF BuildReturns, BuilderType, Jobs
  <2> QED
    BY <1>4, <2>3, <2>4, <2>5, <2>6 DEF Build
<1> QED
  BY <1>1, <1>2, <1>3, <1>4, BuilderSteps

LEMMA WatcherTypeStep == TypeOK /\ [Next]_vars => WatcherType'
<1> SUFFICES ASSUME TypeOK, [Next]_vars PROVE WatcherType'
  OBVIOUS
<1> USE DEF TypeOK, WatcherType
<1>1. CASE UNCHANGED watcher
  BY <1>1 DEF watcher
<1>2. CASE StartWatcher
  BY <1>2 DEF StartWatcher, ContentType
<1>3. ASSUME NEW x \in Paths, ReadEvent(x) PROVE WatcherType'
  BY <1>3 DEF ReadEvent
<1>4. CASE TimerFires
  <2>1. firing' \in Nat
    BY <1>4 DEF TimerFires
  <2> QED
    BY <1>4, <2>1, Zenon DEF TimerFires
<1>5. CASE TakeCollected
  BY <1>5 DEF TakeCollected
<1>6. ASSUME NEW files \in SUBSET Paths, OnChange(files) PROVE WatcherType'
  BY <1>6 DEF OnChange
<1>7. ASSUME NEW f \in Files, Edit(f) PROVE WatcherType'
  BY <1>7 DEF Edit, Paths
<1>8. ASSUME NEW d \in Dirs, MakeDir(d) PROVE WatcherType'
  BY <1>8 DEF MakeDir, Paths
<1> QED
  BY <1>1, <1>2, <1>3, <1>4, <1>5, <1>6, <1>7, <1>8, WatcherSteps DEF Watch

(* What is published, and that it is an event. *)
LEMMA BusTypeStep == TypeOK /\ [Next]_vars => BusType'
<1> SUFFICES ASSUME TypeOK, [Next]_vars PROVE BusType'
  OBVIOUS
<1>0. BusType /\ src \in Versions /\ out \in Versions /\ build \in Jobs
  BY DEF TypeOK, ContentType, BuilderType
<1>1. CASE UNCHANGED bus
  BY <1>0, <1>1 DEF bus, BusType
<1>2. ASSUME NEW i \in DOMAIN log, HandleContentChanged(i) \/ Broadcast(i) PROVE BusType'
  BY <1>0, <1>2 DEF HandleContentChanged, Broadcast, Delivered, BusType
<1>3. CASE TriggerRebuild
  <2>1. [type |-> "changed", full |-> FALSE, files |-> {}, version |-> src] \in Events
    BY <1>0 DEF Events
  <2> QED
    BY <1>0, <1>3, <2>1, PublishStep DEF TriggerRebuild
<1>4. CASE BuildFails
  <2>1. [type |-> "failed", full |-> TRUE, files |-> {}, version |-> out] \in Events
    BY <1>0 DEF Events
  <2>2. CASE build.full
    BY <1>0, <1>4, <2>1, <2>2, PublishStep DEF BuildFails
  <2>3. CASE ~build.full
    BY <1>0, <1>4, <2>3 DEF BuildFails, bus, BusType
  <2> QED
    BY <2>2, <2>3
<1>5. CASE BuildCompleted
  <2>1. [type |-> "completed", full |-> build.full, files |-> build.files,
         version |-> build.snap] \in Events
    BY <1>0 DEF Events, Jobs
  <2> QED
    BY <1>0, <1>5, <2>1, PublishStep DEF BuildCompleted
<1>6. CASE CloseBus
  BY <1>0, <1>6 DEF CloseBus, BusType
<1>7. ASSUME NEW files \in SUBSET Paths, OnChange(files) PROVE BusType'
  <2>1. [type |-> "changed", full |-> FALSE, files |-> files, version |-> src] \in Events
    BY <1>0 DEF Events
  <2> QED
    BY <1>0, <1>7, <2>1, PublishStep DEF OnChange
<1> QED
  BY <1>1, <1>2, <1>3, <1>4, <1>5, <1>6, <1>7, BusSteps

LEMMA HubTypeStep == TypeOK /\ [Next]_vars => HubType'
<1> SUFFICES ASSUME TypeOK, [Next]_vars PROVE HubType'
  OBVIOUS
<1>0. HubType /\ 0 \in 0..Buffer /\ Sent \in [Clients -> 0..Buffer]
  BY SentType DEF TypeOK
<1>1. CASE UNCHANGED hub
  BY <1>0, <1>1 DEF hub, HubType
<1>2. ASSUME NEW i \in DOMAIN log, Broadcast(i) PROVE HubType'
  BY <1>0, <1>2 DEF Broadcast, HubType
<1>3. CASE Heartbeat
  BY <1>0, <1>3 DEF Heartbeat, HubType
<1>4. ASSUME NEW c \in Clients, HandleSubscribe(c) \/ Disconnect(c) \/ Unregister(c)
      PROVE  HubType'
  BY <1>0, <1>4 DEF HandleSubscribe, Disconnect, Unregister, HubType
<1>5. ASSUME NEW c \in Clients, WriteEvent(c) PROVE HubType'
  <2>1. buffer[c] \in 0..Buffer /\ buffer[c] > 0 /\ Buffer \in Nat
    BY <1>0, <1>5 DEF WriteEvent, HubType
  <2>2. buffer[c] - 1 \in 0..Buffer
    BY <2>1
  <2> QED
    BY <1>0, <1>5, <2>2 DEF WriteEvent, HubType
<1> QED
  BY <1>1, <1>2, <1>3, <1>4, <1>5, HubSteps DEF Stream

LEMMA RunTypeStep == TypeOK /\ [Next]_vars => RunType'
<1> SUFFICES ASSUME TypeOK, [Next]_vars PROVE RunType'
  OBVIOUS
<1>1. spent' = spent \/ Spend
  BY DEF vars, Next, Build, Watch, Stream, Shutdown, HandleContentChanged, Broadcast, Tick,
         TriggerRebuild, BuildLoad, BuildFails, FullWrite, IncrementalWrite, NothingAffected,
         ReloadIndex, BuildCompleted, BuildReturns, Edit, MakeDir, StartWatcher, ReadEvent, TimerFires,
         TakeCollected, OnChange, HandleSubscribe, Disconnect, WriteEvent, Unregister,
         Heartbeat, StartServing, Signal, Drained, DrainDeadline, CloseBus
<1>2. spent' \in 0..MaxSpent
  BY <1>1 DEF Spend, TypeOK, RunType
<1>3. stage' \in {stage, "failed", "ready", "watching", "serving", "draining", "closing", "stopped"}
  BY DEF vars, Next, Build, Watch, Stream, Shutdown, HandleContentChanged, Broadcast, Tick,
         TriggerRebuild, BuildLoad, BuildFails, FullWrite, IncrementalWrite, NothingAffected,
         ReloadIndex, BuildCompleted, BuildReturns, Edit, MakeDir, StartWatcher, ReadEvent, TimerFires,
         TakeCollected, OnChange, HandleSubscribe, Disconnect, WriteEvent, Unregister,
         Heartbeat, StartServing, Signal, Drained, DrainDeadline, CloseBus
<1> QED
  BY <1>2, <1>3 DEF TypeOK, RunType

LEMMA TypeStep == TypeOK /\ [Next]_vars => TypeOK'
  BY ContentTypeStep, BuilderTypeStep, WatcherTypeStep, BusTypeStep, HubTypeStep, RunTypeStep
     DEF TypeOK

-----------------------------------------------------------------------------
(* Who is told finds it: the index is loaded before the event. *)

(* No step but the writes, the reload, the announcement and an edit touch  *)
(* what the rest of the invariant is about.                                *)
Untold ==
    \A i \in DOMAIN log' :
        log'[i].type # "completed" \/ (i \in DOMAIN log /\ log'[i] = log[i])

LEMMA AtLeastTrans ==
  ASSUME NEW u \in Versions, NEW v \in Versions, NEW w \in Versions,
         AtLeast(u, v), AtLeast(v, w)
  PROVE  AtLeast(u, w)
<1>1. \A f \in Files : u[f] \in Nat /\ v[f] \in Nat /\ w[f] \in Nat
  BY DEF Versions
<1> QED
  BY <1>1 DEF AtLeast

LEMMA AtLeastSelf ==
  ASSUME NEW u \in Versions
  PROVE  AtLeast(u, u)
  BY DEF AtLeast, Versions

LEMMA UntoldSteps ==
  TypeOK /\ [Next]_vars => BuildCompleted \/ Untold
<1> SUFFICES ASSUME TypeOK, [Next]_vars, ~BuildCompleted PROVE Untold
  OBVIOUS
<1>0. BusType /\ src \in Versions /\ out \in Versions /\ build \in Jobs
  BY DEF TypeOK, ContentType, BuilderType
<1>1. CASE log' = log
  BY <1>1 DEF Untold
<1>2. CASE TriggerRebuild
  <2>1. [type |-> "changed", full |-> FALSE, files |-> {}, version |-> src] \in Events
    BY <1>0 DEF Events
  <2> QED
    BY <1>0, <1>2, <2>1, PublishStep DEF TriggerRebuild, Untold
<1>3. CASE BuildFails
  <2>1. [type |-> "failed", full |-> TRUE, files |-> {}, version |-> out] \in Events
    BY <1>0 DEF Events
  <2>2. CASE build.full
    BY <1>0, <1>3, <2>1, <2>2, PublishStep DEF BuildFails, Untold
  <2>3. CASE ~build.full
    BY <1>1, <1>3, <2>3 DEF BuildFails, bus
  <2> QED
    BY <2>2, <2>3
<1>4. ASSUME NEW files \in SUBSET Paths, OnChange(files) PROVE Untold
  <2>1. [type |-> "changed", full |-> FALSE, files |-> files, version |-> src] \in Events
    BY <1>0 DEF Events
  <2> QED
    BY <1>0, <1>4, <2>1, PublishStep DEF OnChange, Untold
<1> QED
  BY <1>1, <1>2, <1>3, <1>4, BusSteps DEF bus, HandleContentChanged, Broadcast, Delivered, CloseBus

(* What the announced versions are behind stays behind the JSON files and  *)
(* the index when those only grow.                                         *)
LEMMA ToldStays ==
  ASSUME IInv, TypeOK', Untold, AtLeast(api', api),
         ~reloadFailed' => (~reloadFailed /\ index' = index) \/ index' = api
  PROVE  ToldIsWritten' /\ NotifiedThenFresh'
<1>0. /\ log \in Seq(Events) /\ api \in Versions /\ api' \in Versions
      /\ \A i \in DOMAIN log : log[i] \in Events
  BY DEF IInv, TypeOK, BusType, ContentType
<1> SUFFICES ASSUME NEW i \in DOMAIN log', log'[i].type = "completed"
             PROVE  /\ AtLeast(api', log'[i].version)
                    /\ ~reloadFailed' => AtLeast(index', log'[i].version)
  BY DEF ToldIsWritten, NotifiedThenFresh, AtLeast
<1>1. i \in DOMAIN log /\ log'[i] = log[i]
  BY DEF Untold
<1>2. log[i].version \in Versions
  BY <1>0, <1>1 DEF Events
<1>3. AtLeast(api, log[i].version)
  BY <1>1 DEF IInv, ToldIsWritten
<1>4. AtLeast(api', log[i].version)
  BY <1>0, <1>2, <1>3, AtLeastTrans
<1>5. ~reloadFailed => AtLeast(index, log[i].version)
  BY <1>1 DEF IInv, NotifiedThenFresh, AtLeast
<1> QED
  BY <1>1, <1>3, <1>4, <1>5

LEMMA FreshStep == IInv /\ [Next]_vars => BuildPlaces' /\ BehindSource' /\ ToldIsWritten' /\ NotifiedThenFresh'
<1> SUFFICES ASSUME IInv, [Next]_vars
             PROVE  BuildPlaces' /\ BehindSource' /\ ToldIsWritten' /\ NotifiedThenFresh'
  OBVIOUS
<1> USE DEF IInv
<1>0. /\ TypeOK /\ TypeOK'
      /\ src \in Versions /\ api \in Versions /\ index \in Versions
      /\ build \in Jobs /\ build.snap \in Versions
  BY TypeStep DEF TypeOK, ContentType, BuilderType, Jobs
<1>1. AtLeast(api, api) /\ AtLeast(src, src)
  BY <1>0, AtLeastSelf
<1>2. CASE UNCHANGED content /\ UNCHANGED builder
  <2>1. BuildPlaces' /\ BehindSource'
    BY <1>2 DEF content, builder, BuildPlaces, BehindSource
  <2>2. Untold
    <3>1. ~BuildCompleted
      BY <1>0, <1>2 DEF BuildCompleted, builder, Jobs
    <3> QED
      BY <1>0, <3>1, UntoldSteps
  <2> QED
    BY <1>0, <1>1, <1>2, <2>1, <2>2, ToldStays DEF content
<1>3. ASSUME UNCHANGED content, build' = build \/ build'.pc \in {"load", "idle", "check"},
             Untold
      PROVE  BuildPlaces' /\ BehindSource' /\ ToldIsWritten' /\ NotifiedThenFresh'
  <2>1. BuildPlaces' /\ BehindSource'
    BY <1>3 DEF content, BuildPlaces, BehindSource
  <2> QED
    BY <1>0, <1>1, <1>3, <2>1, ToldStays DEF content
<1>4. ASSUME NEW i \in DOMAIN log, HandleContentChanged(i)
      PROVE  BuildPlaces' /\ BehindSource' /\ ToldIsWritten' /\ NotifiedThenFresh'
  <2>1. build' = build \/ build'.pc = "load"
    BY <1>0, <1>4 DEF HandleContentChanged, Queue, Idle
  <2>2. Untold
    BY <1>0, <1>4, UntoldSteps DEF HandleContentChanged, Delivered, Untold
  <2> QED
    BY <1>3, <1>4, <2>1, <2>2 DEF HandleContentChanged
<1>5. CASE Tick
  <2>1. build' = build \/ build'.pc = "load"
    BY <1>0, <1>5 DEF Tick, Queue, Idle
  <2>2. Untold
    BY <1>5 DEF Tick, bus, Untold
  <2> QED
    BY <1>3, <1>5, <2>1, <2>2 DEF Tick
<1>6. CASE BuildLoad
  <2>1. build'.pc = "write" /\ build'.snap = src /\ Untold
    BY <1>0, <1>6 DEF BuildLoad, Jobs, bus, Untold
  <2>2. UNCHANGED content
    BY <1>6 DEF BuildLoad
  <2>3. BuildPlaces' /\ BehindSource'
    BY <1>1, <2>1, <2>2 DEF content, BuildPlaces, BehindSource
  <2> QED
    BY <1>0, <1>1, <2>1, <2>2, <2>3, ToldStays DEF content
<1>7. CASE BuildFails
  <2>1. Untold /\ build'.pc = "idle" /\ UNCHANGED content
    <3>1. ~BuildCompleted
      BY <1>7 DEF BuildFails, BuildCompleted
    <3> QED
      BY <1>0, <1>7, <3>1, UntoldSteps DEF BuildFails, Idle
  <2> QED
    BY <1>3, <2>1
<1>8. CASE FullWrite \/ IncrementalWrite
  <2>1. /\ api' = build.snap /\ AtLeast(build.snap, api) /\ AtLeast(src, build.snap)
        /\ build'.pc = "reload" /\ build'.snap = build.snap
        /\ UNCHANGED <<src, index, reloadFailed>> /\ Untold
    BY <1>0, <1>8 DEF FullWrite, IncrementalWrite, Jobs, BuildPlaces, BehindSource, bus, Untold
  <2>2. BuildPlaces' /\ BehindSource'
    BY <2>1 DEF BuildPlaces, BehindSource
  <2> QED
    BY <1>0, <2>1, <2>2, ToldStays
<1>9. CASE NothingAffected \/ BuildReturns
  <2>1. Untold /\ build'.pc \in {"check", "load", "idle"} /\ UNCHANGED content
    BY <1>0, <1>9 DEF NothingAffected, BuildReturns, Jobs, Idle, bus, Untold
  <2> QED
    BY <1>3, <2>1
<1>10. CASE ReloadIndex
  <2>1. /\ build'.pc = "publish" /\ build'.snap = build.snap /\ api = build.snap
        /\ UNCHANGED <<src, api>> /\ Untold
    BY <1>0, <1>10 DEF ReloadIndex, Jobs, BuildPlaces, bus, Untold
  <2>2. ~reloadFailed' => index' = api
    BY <1>10 DEF ReloadIndex
  <2>3. BuildPlaces' /\ BehindSource'
    BY <2>1, <2>2 DEF BuildPlaces, BehindSource
  <2> QED
    BY <1>0, <1>1, <2>1, <2>2, <2>3, ToldStays
<1>11. CASE BuildCompleted
  <2>1. /\ build'.pc = "check" /\ UNCHANGED content /\ api = build.snap
        /\ ~reloadFailed => index = api
    BY <1>0, <1>11 DEF BuildCompleted, Jobs, BuildPlaces
  <2>2. BuildPlaces' /\ BehindSource'
    BY <2>1 DEF content, BuildPlaces, BehindSource
  <2> DEFINE told == [type |-> "completed", full |-> build.full, files |-> build.files,
                      version |-> build.snap]
  <2>3. told \in Events /\ told.version = api
    BY <1>0, <2>1 DEF Events, Jobs
  <2>4. \A i \in DOMAIN log' : (i \in DOMAIN log /\ log'[i] = log[i]) \/ log'[i] = told
    BY <1>0, <1>11, <2>3, PublishStep DEF BuildCompleted, TypeOK
  <2> HIDE DEF told
  <2>5. ToldIsWritten'
    BY <1>1, <2>1, <2>3, <2>4 DEF ToldIsWritten, content
  <2>6. NotifiedThenFresh'
    BY <1>1, <2>1, <2>3, <2>4 DEF NotifiedThenFresh, content, AtLeast
  <2> QED
    BY <2>2, <2>5, <2>6
<1>12. ASSUME NEW f \in Files, Edit(f)
       PROVE  BuildPlaces' /\ BehindSource' /\ ToldIsWritten' /\ NotifiedThenFresh'
  <2>1. /\ UNCHANGED <<api, index, reloadFailed, build>> /\ Untold
        /\ src' = [src EXCEPT ![f] = @ + 1]
    BY <1>12 DEF Edit, builder, bus, Untold
  <2>2. src' \in Versions /\ AtLeast(src', src)
    BY <1>0, <2>1 DEF Versions, AtLeast
  <2>3. AtLeast(src', api) /\ (build.pc = "write" => AtLeast(src', build.snap))
    BY <1>0, <2>2, AtLeastTrans DEF BehindSource
  <2>4. BuildPlaces' /\ BehindSource'
    BY <2>1, <2>3 DEF BuildPlaces, BehindSource
  <2> QED
    BY <1>0, <1>1, <2>1, <2>4, ToldStays
<1>13. ASSUME NEW d \in Dirs, MakeDir(d)
       PROVE  BuildPlaces' /\ BehindSource' /\ ToldIsWritten' /\ NotifiedThenFresh'
  <2>1. UNCHANGED <<src, api, index, reloadFailed, build>> /\ Untold
    BY <1>13 DEF MakeDir, builder, bus, Untold
  <2>2. BuildPlaces' /\ BehindSource'
    BY <2>1 DEF BuildPlaces, BehindSource
  <2> QED
    BY <1>0, <1>1, <2>1, <2>2, ToldStays
<1> QED
  BY <1>2, <1>4, <1>5, <1>6, <1>7, <1>8, <1>9, <1>10, <1>11, <1>12, <1>13, ContentSteps, BuilderSteps
     DEF Build

LEMMA InvStep == IInv /\ [Next]_vars => IInv'
  BY TypeStep, FreshStep DEF IInv

LEMMA Inductive == Spec => []IInv
  BY InvInit, InvStep, PTL DEF Spec

(* The type invariant, for every instance. *)
THEOREM DaemonTypeCorrect == Spec => []TypeOK
<1>1. IInv => TypeOK
  BY DEF IInv
<1> QED
  BY <1>1, Inductive, PTL

(* However edits, builds, failed reloads and requests interleave: who is   *)
(* told of a completed build finds in the index behind /api/v1 at least    *)
(* what that build loaded, unless the last reload failed.                  *)
THEOREM ToldFindsIt == Spec => []NotifiedThenFresh
<1>1. IInv => NotifiedThenFresh
  BY DEF IInv
<1> QED
  BY <1>1, Inductive, PTL
=============================================================================
