-------------------------- MODULE PluginLifecycle --------------------------
(***************************************************************************)
(* The plugin manager of the daemon (internal/plugin): a registry, the map *)
(* of loaded plugins, the handlers plugins have on the event bus, requests *)
(* of the admin API and the watcher of the plugin directory.               *)
(*                                                                         *)
(* A plugin is the file it comes from; the compiled ones are given. What   *)
(* runs under m.mu is one step, except that the watcher's scan is split at *)
(* each file. Opening a .so happens outside of the lock and may fail.      *)
(***************************************************************************)
EXTENDS Naturals, FiniteSets, Sequences

CONSTANTS
    Compiled,     \* plugins of the registry the daemon was given
    Files,        \* .so files that may come to the plugin directory
    Elsewhere,    \* .so files outside of it: $HUAN_HOME/plugins, which Start
                  \* scans too, and any path a Reload names; they stay
    Names, NameOf,   \* what Name() of each plugin returns
    Subscribers,  \* plugins that implement EventSubscriber
    Derived,      \* the name the watcher derives from a file name
    Requests, Flushers,   \* goroutines of requests and of fired timers
    MaxOps, MaxChanges, MaxHandlers,
    None

Plugins == Compiled \cup Files \cup Elsewhere

ASSUME PluginAssumption ==
    /\ NameOf \in [Plugins -> Names] /\ Derived \in [Files -> Names]
    /\ \A p, q \in Compiled : NameOf[p] = NameOf[q] => p = q
    /\ Compiled \cap (Files \cup Elsewhere) = {} /\ Files \cap Elsewhere = {}
    /\ None \notin Plugins \cup Requests \cup Flushers \cup Names
    /\ None \notin [plugin : Plugins, source : {"compiled", "loaded"}]
    /\ MaxOps \in Nat /\ MaxChanges \in Nat /\ MaxHandlers \in Nat

VARIABLES
    registry,     \* name -> plugin (Registry.plugins)
    loaded,       \* name -> plugin and source (m.loaded)
    handlers,     \* <<plugin, id>> subscribed on the bus
    subs,         \* m.subscriptionIDs
    stage,        \* "new", "running", "stopped"
    dir,          \* files in the plugin directory
    req,          \* what each request is doing
    mu,           \* the flusher that holds m.mu between its steps
    events,       \* kinds of fsnotify events not yet read
    pendingEvent, \* the unsynchronised variable of PluginWatcher.Start
    armed,        \* debounceTimer is set
    looping,      \* the loop of PluginWatcher.Start runs
    flush,        \* what the goroutine of each fired timer is doing
    ops, changes  \* bounds

manager == <<registry, loaded, handlers, subs>>
watching == <<events, pendingEvent, armed, looping, flush>>
bounds == <<ops, changes>>
vars == <<manager, stage, dir, req, mu, watching, bounds>>

Idle == [pc |-> "idle", name |-> None, file |-> None, old |-> None]
Resting == [pc |-> "idle", todo |-> {}, file |-> None]
Track(p, source) == [plugin |-> p, source |-> source]
Registered(n) == registry[n] # None
Loaded(n) == loaded[n] # None

Init ==
    /\ registry = [n \in Names |->
         IF \E p \in Compiled : NameOf[p] = n THEN CHOOSE p \in Compiled : NameOf[p] = n ELSE None]
    /\ loaded = [n \in Names |-> None]
    /\ handlers = {} /\ subs = [n \in Names |-> {}]
    /\ stage = "new" /\ dir \in SUBSET Files
    /\ req = [r \in Requests |-> Idle]
    /\ mu = None
    /\ events = <<>> /\ pendingEvent = "" /\ armed = FALSE /\ looping = FALSE
    /\ flush = [g \in Flushers |-> Resting]
    /\ ops = 0 /\ changes = 0

-----------------------------------------------------------------------------
(* Start and Stop of the manager. *)

(* The .so files of both directories that load: one that does not open is   *)
(* passed over, and so is one of a file name found before.                 *)
ScanAndLoad == SUBSET (dir \cup Elsewhere)

(* At most one of them for a name and none for a registered name join the  *)
(* compiled plugins; the watcher starts.                                   *)
Start ==
    /\ stage = "new"
    /\ \E found \in ScanAndLoad :
        LET new(n) == {p \in found : NameOf[p] = n}
        IN  /\ \A p \in found : ~Registered(NameOf[p]) /\ new(NameOf[p]) = {p}
            /\ registry' = [n \in Names |-> IF new(n) # {} THEN CHOOSE p \in new(n) : TRUE
                                            ELSE registry[n]]
    /\ loaded' = [n \in Names |-> IF registry'[n] = None THEN None
                                  ELSE Track(registry'[n],
                                             IF Registered(n) THEN "compiled" ELSE "loaded")]
    /\ subs' = [n \in Names |-> {registry'[n]} \cap Subscribers \X {1}]
    /\ handlers' = UNION {subs'[n] : n \in Names}
    /\ stage' = "running" /\ looping' = TRUE
    /\ UNCHANGED <<dir, req, mu, events, pendingEvent, armed, flush, bounds>>

Stop ==
    /\ stage = "running" /\ mu = None
    /\ stage' = "stopped"
    /\ handlers' = handlers \ UNION {subs[n] : n \in Names}
    /\ subs' = [n \in Names |-> {}]
    /\ LET gone(n) == Loaded(n) /\ loaded[n].source # "compiled"
       IN  /\ registry' = [n \in Names |-> IF gone(n) THEN None ELSE registry[n]]
           /\ loaded' = [n \in Names |-> IF gone(n) THEN None ELSE loaded[n]]
    /\ UNCHANGED <<dir, req, mu, watching, bounds>>

-----------------------------------------------------------------------------
(* Requests of the admin API. *)

Ask(r) ==
    /\ stage # "new" /\ req[r] = Idle
    /\ ops < MaxOps /\ ops' = ops + 1

(* The handlers of a plugin get identifiers nobody else has. *)
Subscribed(p) ==
    LET used == {h[2] : h \in {h \in handlers : h[1] = p}}
        id == CHOOSE k \in (1..MaxHandlers) \ used : \A j \in (1..MaxHandlers) \ used : k <= j
    IN  {<<p, id>>}

(* Load, up to the lock; a file that does not open changes nothing. *)
LoadOpen(r, f) ==
    /\ Ask(r)
    /\ f \in dir
    /\ req' = [req EXCEPT ![r] = [Idle EXCEPT !.pc = "load", !.file = f]]
    /\ UNCHANGED <<manager, stage, dir, mu, watching, changes>>

LoadConflicts(r) ==
    /\ req[r].pc = "load" /\ mu = None
    /\ Registered(NameOf[req[r].file])
    /\ req' = [req EXCEPT ![r] = Idle]
    /\ UNCHANGED <<manager, stage, dir, mu, watching, bounds>>

LoadCommit(r) ==
    /\ req[r].pc = "load" /\ mu = None
    /\ LET p == req[r].file
           n == NameOf[p]
       IN  /\ ~Registered(n)
           /\ registry' = [registry EXCEPT ![n] = p]
           /\ loaded' = [loaded EXCEPT ![n] = Track(p, "loaded")]
           /\ IF p \in Subscribers
              THEN /\ handlers' = handlers \cup Subscribed(p)
                   /\ subs' = [subs EXCEPT ![n] = Subscribed(p)]
              ELSE UNCHANGED <<handlers, subs>>
    /\ req' = [req EXCEPT ![r] = Idle]
    /\ UNCHANGED <<stage, dir, mu, watching, bounds>>

Unsubscribed(n) == handlers' = handlers \ subs[n] /\ subs' = [subs EXCEPT ![n] = {}]

(* Variant for the checks: the source of the plugin is not looked at. *)
UnloadAny(r, n) ==
    /\ Ask(r) /\ mu = None
    /\ Loaded(n)
    /\ Unsubscribed(n)
    /\ registry' = [registry EXCEPT ![n] = None]
    /\ loaded' = [loaded EXCEPT ![n] = None]
    /\ UNCHANGED <<stage, dir, req, mu, watching, changes>>

Unload(r, n) ==
    /\ Ask(r) /\ mu = None
    /\ Loaded(n) /\ loaded[n].source # "compiled"
    /\ Unsubscribed(n)
    /\ registry' = [registry EXCEPT ![n] = None]
    /\ loaded' = [loaded EXCEPT ![n] = None]
    /\ UNCHANGED <<stage, dir, req, mu, watching, changes>>

(* Reload unregisters, unlocks and opens the new file. *)
ReloadBegin(r, n, f) ==
    /\ Ask(r) /\ mu = None
    /\ Loaded(n) /\ loaded[n].source # "compiled"
    /\ registry' = [registry EXCEPT ![n] = None]
    /\ req' = [req EXCEPT ![r] = [pc |-> "open", name |-> n, file |-> f,
                                  old |-> loaded[n].plugin]]
    /\ UNCHANGED <<loaded, handlers, subs, stage, dir, mu, watching, changes>>

ReloadOpens(r) ==
    /\ req[r].pc = "open"
    /\ req[r].file \in dir \cup Elsewhere
    /\ req' = [req EXCEPT ![r].pc = "reload"]
    /\ UNCHANGED <<manager, stage, dir, mu, watching, bounds>>

ReloadFails(r) ==
    /\ req[r].pc = "open"
    /\ req' = [req EXCEPT ![r].pc = "rollback"]
    /\ UNCHANGED <<manager, stage, dir, mu, watching, bounds>>

(* Register of a name that is taken fails, and the error is dropped. *)
RegisterIfFree(p) ==
    registry' = [registry EXCEPT ![NameOf[p]] = IF @ = None THEN p ELSE @]

(* The new plugin may have another name. *)
ReloadCommit(r) ==
    /\ req[r].pc = "reload" /\ mu = None
    /\ RegisterIfFree(req[r].file)
    /\ loaded' = [loaded EXCEPT ![req[r].name] = None,
                                ![NameOf[req[r].file]] = Track(req[r].file, "loaded")]
    /\ req' = [req EXCEPT ![r] = Idle]
    /\ UNCHANGED <<handlers, subs, stage, dir, mu, watching, bounds>>

(* Variant for the checks: a failed reload does not restore the plugin. *)
ForgetOld(r) ==
    /\ req[r].pc = "rollback" /\ mu = None
    /\ req' = [req EXCEPT ![r] = Idle]
    /\ UNCHANGED <<manager, stage, dir, mu, watching, bounds>>

Rollback(r) ==
    /\ req[r].pc = "rollback" /\ mu = None
    /\ RegisterIfFree(req[r].old)
    /\ loaded' = [loaded EXCEPT ![req[r].name] = Track(req[r].old, "loaded")]
    /\ req' = [req EXCEPT ![r] = Idle]
    /\ UNCHANGED <<handlers, subs, stage, dir, mu, watching, bounds>>

(* List adopts what is registered and unknown. *)
List(r) ==
    /\ stage # "new" /\ req[r] = Idle /\ mu = None
    /\ loaded' = [n \in Names |-> IF Registered(n) /\ ~Loaded(n)
                                  THEN Track(registry[n], "compiled") ELSE loaded[n]]
    /\ UNCHANGED <<registry, handlers, subs, stage, dir, req, mu, watching, bounds>>

Request(r) ==
    \/ \E f \in Files : LoadOpen(r, f)
    \/ LoadConflicts(r) \/ LoadCommit(r)
    \/ \E n \in Names : Unload(r, n) \/ \E f \in Files \cup Elsewhere : ReloadBegin(r, n, f)
    \/ ReloadOpens(r) \/ ReloadFails(r) \/ ReloadCommit(r) \/ Rollback(r)
    \/ List(r)

-----------------------------------------------------------------------------
(* The plugin directory and its watcher. *)

Change ==
    /\ changes < MaxChanges /\ changes' = changes + 1
    /\ \E f \in Files :
        IF f \in dir
        THEN dir' = dir \ {f} /\ events' = Append(events, "remove")
        ELSE dir' = dir \cup {f} /\ events' = Append(events, "create")
    /\ UNCHANGED <<manager, stage, req, mu, pendingEvent, armed, looping, flush, ops>>

(* An event is only remembered by its kind, and starts the timer again. *)
ReadEvent ==
    /\ looping /\ events # <<>>
    /\ pendingEvent' = Head(events) /\ events' = Tail(events)
    /\ armed' = TRUE
    /\ UNCHANGED <<manager, stage, dir, req, mu, looping, flush, bounds>>

LoopEnds ==
    /\ looping /\ stage = "stopped"
    /\ looping' = FALSE /\ armed' = FALSE
    /\ UNCHANGED <<manager, stage, dir, req, mu, events, pendingEvent, flush, bounds>>

(* flushPending, in a goroutine of its own. *)
Fire(g) ==
    /\ armed /\ flush[g].pc = "idle"
    /\ armed' = FALSE
    /\ flush' = [flush EXCEPT ![g].pc = IF pendingEvent = "" THEN "clear" ELSE pendingEvent]
    /\ UNCHANGED <<manager, stage, dir, req, mu, events, pendingEvent, looping, bounds>>

(* handleCreateOrModify: lock and list the directory, then for each file   *)
(* that is not loaded under its derived name unlock, open, lock, register. *)
ScanBegin(g) ==
    /\ flush[g].pc = "create" /\ mu = None
    /\ mu' = g
    /\ flush' = [flush EXCEPT ![g].pc = "scan", ![g].todo = dir]
    /\ UNCHANGED <<manager, stage, dir, req, events, pendingEvent, armed, looping, bounds>>

ScanNext(g, f) ==
    /\ flush[g].pc = "scan"
    /\ f \in flush[g].todo /\ ~Loaded(Derived[f])
    /\ mu' = None
    /\ flush' = [flush EXCEPT ![g] = [pc |-> "open", todo |-> @.todo \ {f}, file |-> f]]
    /\ UNCHANGED <<manager, stage, dir, req, events, pendingEvent, armed, looping, bounds>>

ScanOpens(g, ok) ==
    /\ flush[g].pc = "open"
    /\ ok => flush[g].file \in dir
    /\ flush' = [flush EXCEPT ![g].pc = "commit", ![g].file = IF ok THEN @ ELSE None]
    /\ UNCHANGED <<manager, stage, dir, req, mu, events, pendingEvent, armed, looping, bounds>>

ScanCommit(g) ==
    /\ flush[g].pc = "commit" /\ mu = None
    /\ mu' = g
    /\ flush' = [flush EXCEPT ![g].pc = "scan", ![g].file = None]
    /\ LET p == flush[g].file
       IN  IF p # None /\ ~Registered(NameOf[p])
           THEN /\ registry' = [registry EXCEPT ![NameOf[p]] = p]
                /\ loaded' = [loaded EXCEPT ![NameOf[p]] = Track(p, "loaded")]
           ELSE UNCHANGED <<registry, loaded>>
    /\ UNCHANGED <<handlers, subs, stage, dir, req, events, pendingEvent, armed, looping, bounds>>

ScanEnds(g) ==
    /\ flush[g].pc = "scan"
    /\ \A f \in flush[g].todo : Loaded(Derived[f])
    /\ mu' = None
    /\ flush' = [flush EXCEPT ![g] = [Resting EXCEPT !.pc = "clear"]]
    /\ UNCHANGED <<manager, stage, dir, req, events, pendingEvent, armed, looping, bounds>>

(* handleRemove drops each plugin whose file is gone. *)
DropGone(g) ==
    /\ flush[g].pc = "remove" /\ mu = None
    /\ LET gone(n) == /\ Loaded(n) /\ loaded[n].source = "loaded"
                      /\ loaded[n].plugin \notin dir \cup Elsewhere
       IN  /\ registry' = [n \in Names |-> IF gone(n) THEN None ELSE registry[n]]
           /\ loaded' = [n \in Names |-> IF gone(n) THEN None ELSE loaded[n]]
    /\ flush' = [flush EXCEPT ![g].pc = "clear"]
    /\ UNCHANGED <<handlers, subs, stage, dir, req, mu, events, pendingEvent, armed, looping, bounds>>

(* pendingEvent = "", whatever the loop has put there meanwhile. *)
Clear(g) ==
    /\ flush[g].pc = "clear"
    /\ pendingEvent' = ""
    /\ flush' = [flush EXCEPT ![g] = Resting]
    /\ UNCHANGED <<manager, stage, dir, req, mu, events, armed, looping, bounds>>

Flush(g) ==
    \/ Fire(g) \/ ScanBegin(g) \/ (\E f \in Files : ScanNext(g, f))
    \/ (\E ok \in BOOLEAN : ScanOpens(g, ok)) \/ ScanCommit(g) \/ ScanEnds(g)
    \/ DropGone(g) \/ Clear(g)

Next ==
    \/ Start \/ Stop
    \/ \E r \in Requests : Request(r)
    \/ Change \/ ReadEvent \/ LoopEnds
    \/ \E g \in Flushers : Flush(g)

Spec == Init /\ [][Next]_vars

-----------------------------------------------------------------------------
(* Properties. *)

(* "Does NOT remove compiled plugins" (lifecycle.go:258): a plugin of the   *)
(* build stays registered and listed as compiled, whatever the requests    *)
(* and the directory do, but for a reload whose file brings its name.      *)
Kept(p) == registry[NameOf[p]] = p /\ loaded[NameOf[p]] = Track(p, "compiled")

Renames(r) ==
    req[r].pc = "reload" /\ NameOf[req[r].file] # req[r].name /\ ReloadCommit(r)

CompiledStay ==
    [][\A p \in Compiled : Kept(p) => Kept(p)' \/ \E r \in Requests : Renames(r)]_vars

(* The registry, which the builds use, and the list the administrator sees *)
(* hold the same plugin under each name, but for those a reload has taken  *)
(* out of the registry and will put back. (Of one file InitPlugin makes    *)
(* another instance each time. They are not told apart here, and need not  *)
(* be: every other step gives both maps the same instance.)                *)
Reloading(n) == \E r \in Requests : req[r].pc \in {"open", "reload", "rollback"} /\ req[r].name = n

Agree ==
    \A n \in Names :
        /\ Registered(n) => Loaded(n) /\ loaded[n].plugin = registry[n]
        /\ Loaded(n) => Registered(n) \/ Reloading(n)

(* A reload ends when its old or its new name has been registered again:   *)
(* Register fails, and the list gets what the registry refused.            *)
Collides(r) ==
    \/ ReloadCommit(r) /\ \E n \in {req[r].name, NameOf[req[r].file]} : Registered(n)
    \/ Rollback(r) /\ Registered(req[r].name)

(* Only such an end of a reload makes them differ: not what requests and   *)
(* the directory watcher do while the new file is being opened outside of  *)
(* the lock, nor a new name, of which lifecycle.go:328 says that it        *)
(* "creates inconsistent state".                                           *)
SamePlugins ==
    [][Agree \/ Start => Agree' \/ \E r \in Requests : Collides(r)]_vars
=============================================================================
