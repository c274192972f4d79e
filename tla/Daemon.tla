------------------------------- MODULE Daemon -------------------------------
(***************************************************************************)
(* The daemon around its builder: the order in which Run brings its parts  *)
(* up and takes them down, the file watcher with its debounce timer, the   *)
(* event bus with a goroutine for each handler of an event, the builds,    *)
(* the content index behind /api/v1 and the clients of /api/v1/events.     *)
(*                                                                         *)
(* A file is its version: src on disk, out in the pages, api in the JSON   *)
(* files of the output, index in memory. QueueBuild is taken one build at  *)
(* a time here; BuildQueue models it flag by flag.                         *)
(***************************************************************************)
EXTENDS Naturals, FiniteSets, Sequences

CONSTANTS
    Files, Dirs, \* files; directories that may be made later
    Site,        \* the directory the daemon starts with
    In,          \* the directory of each file
    Clients,     \* browsers that may open the event stream
    MaxClients,  \* maxClients of the hub
    Buffer,      \* clientBufferSize
    MaxSpent     \* bound: edits, ticks, triggers and failures together

Paths == Files \cup Dirs    \* what an event may name

ASSUME DaemonAssumption ==
    /\ Files \cap Dirs = {} /\ Site \notin Paths
    /\ In \in [Files -> Dirs \cup {Site}]
    /\ MaxClients \in Nat /\ Buffer \in Nat \ {0}
    /\ MaxSpent \in Nat

VARIABLES
    stage,       \* how far Run is
    src, out, api, index, known, dirs,   \* dirs: the directories there are
    reloadFailed,    \* the last LoadFromDir returned an error
    build, queued,   \* what the running build does; Builder.pending
    events, watched, collected, armed, firing, reports,   \* the file watcher
    log,         \* events published, in order
    deliveries,  \* <<handler, event>> goroutines that have not run
    closed,      \* ChannelBus.closed
    conn, buffer, \* the clients of the hub, and how much waits for each
    spent        \* against MaxSpent

content == <<src, dirs, out, api, index, known, reloadFailed>>
builder == <<build, queued>>
watcher == <<events, watched, collected, armed, firing, reports>>
bus == <<log, deliveries, closed>>
hub == <<conn, buffer>>
vars == <<stage, content, builder, watcher, bus, hub, spent>>

Nothing == [f \in Files |-> 0]
Idle == [pc |-> "idle", full |-> TRUE, files |-> {}, snap |-> Nothing]

(* Run up to the initial build: the handlers are subscribed, nothing is    *)
(* served, and the index of the empty output directory is empty.           *)
Init ==
    /\ stage = "building"
    /\ src = [f \in Files |-> IF In[f] = Site THEN 1 ELSE 0] /\ dirs = {Site}
    /\ out = Nothing /\ api = Nothing /\ index = Nothing /\ known = {}
    /\ reloadFailed = FALSE
    /\ build = [Idle EXCEPT !.pc = "load"] /\ queued = FALSE
    /\ events = {} /\ watched = {} /\ collected = {}
    /\ armed = FALSE /\ firing = 0 /\ reports = {}
    /\ log = <<>> /\ deliveries = {} /\ closed = FALSE
    /\ conn = [c \in Clients |-> "out"] /\ buffer = [c \in Clients |-> 0]
    /\ spent = 0

Spend == spent < MaxSpent /\ spent' = spent + 1
Running == stage \notin {"stopped", "failed"}

-----------------------------------------------------------------------------
(* The event bus: one goroutine for each handler of the type. *)

Handlers(type) == IF type = "changed" THEN {"builder", "hub"} ELSE {"hub"}

Publish(e) ==
    IF closed THEN UNCHANGED bus
    ELSE /\ log' = Append(log, e)
         /\ deliveries' = deliveries \cup (Handlers(e.type) \X {Len(log) + 1})
         /\ UNCHANGED closed

(* A handler runs, in any order with the others. *)
Delivered(h, i) ==
    /\ Running
    /\ <<h, i>> \in deliveries
    /\ deliveries' = deliveries \ {<<h, i>>}
    /\ UNCHANGED <<log, closed>>

-----------------------------------------------------------------------------
(* The builder. *)

Queue(full, files) ==
    IF build.pc = "idle"
    THEN build' = [Idle EXCEPT !.pc = "load", !.full = full, !.files = files] /\ UNCHANGED queued
    ELSE queued' = TRUE /\ UNCHANGED build

HandleContentChanged(i) ==
    /\ Delivered("builder", i)
    /\ Queue(known = {}, log[i].files)
    /\ UNCHANGED <<stage, content, watcher, hub, spent>>

(* The periodic rebuild is never stopped. *)
Tick ==
    /\ stage \in {"ready", "watching", "serving", "draining", "closing"}
    /\ Spend
    /\ Queue(TRUE, {})
    /\ UNCHANGED <<stage, content, watcher, bus, hub>>

(* A trigger of the admin API: the event names no files. *)
TriggerRebuild ==
    /\ stage \in {"serving", "draining"}
    /\ Spend
    /\ Publish([type |-> "changed", full |-> FALSE, files |-> {}, version |-> src])
    /\ UNCHANGED <<stage, content, builder, watcher, hub>>

BuildLoad ==
    /\ Running /\ build.pc = "load"
    /\ build' = [build EXCEPT !.pc = "write", !.snap = src]
    /\ UNCHANGED <<stage, content, queued, watcher, bus, hub, spent>>

(* Only a full build reports its failure; without the initial build Run    *)
(* gives up.                                                               *)
BuildFails ==
    /\ Running /\ build.pc = "write"
    /\ Spend
    /\ build' = Idle
    /\ stage' = IF stage = "building" THEN "failed" ELSE stage
    /\ IF build.full
       THEN Publish([type |-> "failed", full |-> TRUE, files |-> {}, version |-> out])
       ELSE UNCHANGED bus
    /\ UNCHANGED <<content, queued, watcher, hub>>

FullWrite ==
    /\ Running /\ build.pc = "write" /\ build.full
    /\ out' = build.snap /\ api' = build.snap
    /\ known' = {f \in Files : build.snap[f] # 0}
    /\ build' = [build EXCEPT !.pc = "reload"]
    /\ UNCHANGED <<stage, src, dirs, index, reloadFailed, queued, watcher, bus, hub, spent>>

(* IncrementalRender loads everything, writes the pages of the known files *)
(* among the changed ones, then the feeds and api/*.json as a whole.       *)
Affected == build.files \cap known

IncrementalWrite ==
    /\ Running /\ build.pc = "write" /\ ~build.full
    /\ Affected # {}
    /\ out' = [f \in Files |-> IF f \in Affected THEN build.snap[f] ELSE out[f]]
    /\ api' = build.snap
    /\ build' = [build EXCEPT !.pc = "reload"]
    /\ UNCHANGED <<stage, src, dirs, index, known, reloadFailed, queued, watcher, bus, hub, spent>>

NothingAffected ==
    /\ Running /\ build.pc = "write" /\ ~build.full
    /\ Affected = {}
    /\ build' = [build EXCEPT !.pc = "check"]
    /\ UNCHANGED <<stage, content, queued, watcher, bus, hub, spent>>

(* Variant for the checks: only a full build loads the index again. *)
ReloadWhenFull ==
    /\ Running /\ build.pc = "reload"
    /\ index' = IF build.full THEN api ELSE index
    /\ build' = [build EXCEPT !.pc = "publish"]
    /\ UNCHANGED <<stage, src, dirs, out, api, known, reloadFailed, queued, watcher, bus, hub, spent>>

(* LoadFromDir; a failure is logged and the old items stay. *)
ReloadIndex ==
    /\ Running /\ build.pc = "reload"
    /\ \/ index' = api /\ reloadFailed' = FALSE /\ UNCHANGED spent
       \/ /\ Spend
          /\ reloadFailed' = TRUE /\ UNCHANGED index
    /\ build' = [build EXCEPT !.pc = "publish"]
    /\ UNCHANGED <<stage, src, dirs, out, api, known, queued, watcher, bus, hub>>

BuildCompleted ==
    /\ Running /\ build.pc = "publish"
    /\ Publish([type |-> "completed", full |-> build.full, files |-> build.files,
                version |-> build.snap])
    /\ build' = [build EXCEPT !.pc = "check"]
    /\ UNCHANGED <<stage, content, queued, watcher, hub, spent>>

(* A build asked for meanwhile runs now. Run goes on when its build ends.  *)
BuildReturns ==
    /\ Running /\ build.pc = "check"
    /\ build' = IF queued THEN [build EXCEPT !.pc = "load"] ELSE Idle
    /\ queued' = FALSE
    /\ stage' = IF stage = "building" /\ ~queued THEN "ready" ELSE stage
    /\ UNCHANGED <<content, watcher, bus, hub, spent>>

Build ==
    \/ BuildLoad \/ BuildFails \/ FullWrite \/ IncrementalWrite \/ NothingAffected
    \/ ReloadIndex \/ BuildCompleted \/ BuildReturns

-----------------------------------------------------------------------------
(* The file watcher. *)

(* An event names the path, if the directory it is in is watched.          *)
Edit(f) ==
    /\ Running
    /\ In[f] \in dirs
    /\ Spend
    /\ src' = [src EXCEPT ![f] = @ + 1]
    /\ events' = IF In[f] \in watched THEN events \cup {f} ELSE events
    /\ UNCHANGED <<stage, dirs, out, api, index, known, reloadFailed, builder, watched, collected,
                   armed, firing, reports, bus, hub>>

(* What is then written to a new directory is in no event until it is      *)
(* watched itself.                                                         *)
MakeDir(d) ==
    /\ Running
    /\ d \notin dirs
    /\ Spend
    /\ dirs' = dirs \cup {d}
    /\ events' = IF Site \in watched THEN events \cup {d} ELSE events
    /\ UNCHANGED <<stage, src, out, api, index, known, reloadFailed, builder, watched, collected,
                   armed, firing, reports, bus, hub>>

(* addRecursive; without --watch, or when no watcher can be had, nothing   *)
(* is watched.                                                             *)
StartWatcher ==
    /\ stage = "ready"
    /\ stage' = "watching"
    /\ watched' \in {{}, dirs}
    /\ UNCHANGED <<content, builder, events, collected, armed, firing, reports, bus, hub, spent>>

(* A new directory is watched from here on. Its path is among the changed  *)
(* ones, not the files in it. The timer starts again.                      *)
ReadEvent(x) ==
    /\ Running
    /\ x \in events
    /\ events' = events \ {x}
    /\ watched' = IF x \in Dirs THEN watched \cup {x} ELSE watched
    /\ collected' = collected \cup {x}
    /\ armed' = TRUE
    /\ UNCHANGED <<stage, content, builder, firing, reports, bus, hub, spent>>

TimerFires ==
    /\ Running /\ armed
    /\ armed' = FALSE /\ firing' = firing + 1
    /\ UNCHANGED <<stage, content, builder, events, watched, collected, reports, bus, hub, spent>>

(* The callback takes the files under the lock and reports them after it. *)
TakeCollected ==
    /\ Running /\ firing > 0
    /\ firing' = firing - 1
    /\ collected' = {}
    /\ reports' = IF collected = {} THEN reports ELSE reports \cup {collected}
    /\ UNCHANGED <<stage, content, builder, events, watched, armed, bus, hub, spent>>

(* Variant for the checks: the files are forgotten once reported. *)
ReportThenForget(files) ==
    /\ Running /\ files \in reports
    /\ reports' = reports \ {files}
    /\ collected' = {}
    /\ Publish([type |-> "changed", full |-> FALSE, files |-> files, version |-> src])
    /\ UNCHANGED <<stage, content, builder, events, watched, armed, firing, hub, spent>>

OnChange(files) ==
    /\ Running /\ files \in reports
    /\ reports' = reports \ {files}
    /\ Publish([type |-> "changed", full |-> FALSE, files |-> files, version |-> src])
    /\ UNCHANGED <<stage, content, builder, events, watched, collected, armed, firing, hub, spent>>

Watch ==
    \/ \E x \in Paths : ReadEvent(x)
    \/ TimerFires \/ TakeCollected
    \/ \E files \in SUBSET Paths : OnChange(files)

-----------------------------------------------------------------------------
(* The clients of the event stream. *)

Registered == {c \in Clients : conn[c] # "out"}

HandleSubscribe(c) ==
    /\ stage = "serving" /\ conn[c] = "out"
    /\ Cardinality(Registered) < MaxClients
    /\ conn' = [conn EXCEPT ![c] = "in"]
    /\ buffer' = [buffer EXCEPT ![c] = 0]
    /\ UNCHANGED <<stage, content, builder, watcher, bus, spent>>

(* A client whose buffer is full does not get the event. *)
Sent ==
    [c \in Clients |-> IF c \in Registered /\ buffer[c] < Buffer THEN buffer[c] + 1 ELSE buffer[c]]

Broadcast(i) ==
    /\ Delivered("hub", i)
    /\ buffer' = Sent
    /\ UNCHANGED <<stage, content, builder, watcher, conn, spent>>

(* The heartbeat takes a place in the buffers too. *)
Heartbeat ==
    /\ Running
    /\ buffer' = Sent
    /\ UNCHANGED <<stage, content, builder, watcher, bus, conn, spent>>

WriteEvent(c) ==
    /\ Running /\ conn[c] = "in" /\ buffer[c] > 0
    /\ buffer' = [buffer EXCEPT ![c] = @ - 1]
    /\ UNCHANGED <<stage, content, builder, watcher, bus, conn, spent>>

Disconnect(c) ==
    /\ Running /\ conn[c] = "in"
    /\ conn' = [conn EXCEPT ![c] = "gone"]
    /\ UNCHANGED <<stage, content, builder, watcher, bus, buffer, spent>>

Unregister(c) ==
    /\ Running /\ conn[c] = "gone"
    /\ conn' = [conn EXCEPT ![c] = "out"]
    /\ buffer' = [buffer EXCEPT ![c] = 0]
    /\ UNCHANGED <<stage, content, builder, watcher, bus, spent>>

Stream(c) == WriteEvent(c) \/ Unregister(c)

-----------------------------------------------------------------------------
(* Serving and shutdown. *)

StartServing ==
    /\ stage = "watching"
    /\ stage' = "serving"
    /\ UNCHANGED <<content, builder, watcher, bus, hub, spent>>

(* SIGINT or SIGTERM. *)
Signal ==
    /\ stage = "serving"
    /\ stage' = "draining"
    /\ UNCHANGED <<content, builder, watcher, bus, hub, spent>>

(* Shutdown waits for the open streams, which nothing ends. *)
Drained ==
    /\ stage = "draining" /\ Registered = {}
    /\ stage' = "closing"
    /\ UNCHANGED <<content, builder, watcher, bus, hub, spent>>

(* Variant for the checks: no deadline for Shutdown. *)
NoDeadline ==
    /\ stage = "draining" /\ Registered = {}
    /\ stage' = "closing"
    /\ UNCHANGED <<content, builder, watcher, bus, hub, spent>>

DrainDeadline ==
    /\ stage = "draining" /\ Registered # {}
    /\ stage' = "closing"
    /\ UNCHANGED <<content, builder, watcher, bus, hub, spent>>

(* The bus is closed and the process ends. *)
CloseBus ==
    /\ stage = "closing"
    /\ stage' = "stopped" /\ closed' = TRUE
    /\ UNCHANGED <<content, builder, watcher, log, deliveries, hub, spent>>

Shutdown == Drained \/ DrainDeadline \/ CloseBus

Next ==
    \/ \E i \in DOMAIN log : HandleContentChanged(i) \/ Broadcast(i)
    \/ Tick \/ TriggerRebuild \/ Build
    \/ (\E f \in Files : Edit(f)) \/ (\E d \in Dirs : MakeDir(d))
    \/ StartWatcher \/ Watch
    \/ \E c \in Clients : HandleSubscribe(c) \/ Disconnect(c) \/ Stream(c)
    \/ Heartbeat
    \/ StartServing \/ Signal \/ Shutdown

(* Goroutines and timers run; nobody has to edit, connect or stop it.      *)
Fairness ==
    /\ WF_vars(Build) /\ WF_vars(StartWatcher) /\ WF_vars(StartServing)
    /\ \A x \in Paths : WF_vars(ReadEvent(x))
    /\ WF_vars(TimerFires) /\ WF_vars(TakeCollected)
    /\ \A files \in SUBSET Paths : WF_vars(OnChange(files))
    /\ WF_vars(Shutdown)

Spec == Init /\ [][Next]_vars /\ Fairness

-----------------------------------------------------------------------------
(* Properties. *)

(* "The index is reloaded by the Builder after every successful build so   *)
(* the query API always reflects the latest output" (daemon.go:96), and    *)
(* before the event: who is told of a build finds at least what that build *)
(* loaded in the index, unless the last reload failed.                     *)
NotifiedThenFresh ==
    ~reloadFailed => \A i \in DOMAIN log :
        log[i].type = "completed" => \A f \in Files : index[f] >= log[i].version[f]

(* A file there is an event of is announced to the builder in its last     *)
(* version, unless the daemon ends first: also one that is written while   *)
(* its directory is just being watched, while the timer runs or the        *)
(* callback reports, or while a build runs. What is written to a new       *)
(* directory before the watcher has read the event of the directory is in  *)
(* no event (watcher.go:136-145), and nothing is promised of it.           *)
Announced(f, v) ==
    \E i \in DOMAIN log : log[i].type = "changed" /\ f \in log[i].files /\ log[i].version[f] >= v

EditsAnnounced ==
    \A f \in Files : f \in events ~> (Announced(f, src[f]) \/ ~Running)

(* A signal ends the daemon, whatever the clients of the stream do.        *)
ShutdownEnds == stage = "draining" ~> stage = "stopped"
=============================================================================
