----------------------- MODULE PluginLifecycle_proofs -----------------------
(***************************************************************************)
(* CompiledStay and SamePlugins of PluginLifecycle for any plugins, files, *)
(* names, requests and timers.                                             *)
(*                                                                         *)
(* Both are promises about single steps, but not about any step of any     *)
(* state: a reload that has unlocked works with what it read before. The   *)
(* invariant says what it may still rely on: the old plugin came from a    *)
(* file and has the name that is being reloaded, and no compiled plugin    *)
(* has been registered under that name in the meantime.                    *)
(***************************************************************************)
EXTENDS PluginLifecycle, TLAPS

Sources == {"compiled", "loaded"}
Tracks == [plugin : Plugins, source : Sources]

(* Plugins that come from a file. *)
Movable == Files \cup Elsewhere

Kinds == {"create", "remove"}
ReloadSteps == {"open", "reload", "rollback"}
RequestSteps == ReloadSteps \cup {"idle", "load"}
FlushSteps == Kinds \cup {"idle", "clear", "scan", "open", "commit"}

TypeOK ==
    /\ registry \in [Names -> Plugins \cup {None}]
    /\ loaded \in [Names -> Tracks \cup {None}]
    /\ stage \in {"new", "running", "stopped"}
    /\ dir \in SUBSET Files
    /\ req \in [Requests -> [pc : RequestSteps, name : Names \cup {None},
                             file : Movable \cup {None}, old : Movable \cup {None}]]
    /\ mu \in Flushers \cup {None}
    /\ events \in Seq(Kinds) /\ pendingEvent \in Kinds \cup {""}
    /\ armed \in BOOLEAN /\ looping \in BOOLEAN
    /\ flush \in [Flushers -> [pc : FlushSteps, todo : SUBSET Files, file : Files \cup {None}]]
    /\ ops \in 0..MaxOps /\ changes \in 0..MaxChanges

(* The registry and the list have every plugin under its own name. *)
OwnNames ==
    \A n \in Names : /\ Registered(n) => NameOf[registry[n]] = n
                     /\ Loaded(n) => NameOf[loaded[n].plugin] = n

(* What counts as loaded came from a file. *)
FromFiles ==
    \A n \in Names : Loaded(n) /\ loaded[n].source # "compiled" => loaded[n].plugin \in Movable

(* What a request that has released m.mu still knows. *)
Loads(r) == req[r].pc = "load" => req[r].file \in Files

Reloads(r) ==
    req[r].pc \in ReloadSteps =>
        /\ req[r].name \in Names /\ req[r].file \in Movable /\ req[r].old \in Movable
        /\ NameOf[req[r].old] = req[r].name
        /\ registry[req[r].name] \notin Compiled

IInv ==
    /\ TypeOK /\ OwnNames /\ FromFiles
    /\ \A r \in Requests : Loads(r) /\ Reloads(r)

-----------------------------------------------------------------------------
(* None is not a plugin, a name or an entry of the list. *)
LEMMA Nothing ==
  /\ None \notin Plugins /\ None \notin Tracks /\ None \notin Names
  /\ \A p \in Plugins, s \in Sources : Track(p, s) \in Tracks /\ Track(p, s) # None
  /\ \A p \in Movable : p \in Plugins /\ p \notin Compiled
  /\ \A p \in Plugins : NameOf[p] \in Names
  /\ Files \subseteq Movable
  BY PluginAssumption DEF Plugins, Tracks, Sources, Track, Movable

(* The invariant reads these of the plugins, and these of the watcher.      *)
Manager == <<registry, loaded, req>>

Managed == OwnNames /\ FromFiles /\ \A r \in Requests : Loads(r) /\ Reloads(r)

LEMMA ManagedUnchanged == Managed /\ UNCHANGED Manager => Managed'
  BY DEF Manager, Managed, OwnNames, FromFiles, Loads, Reloads, Registered, Loaded

LEMMA Initially == Init => IInv
<1> SUFFICES ASSUME Init PROVE IInv
  OBVIOUS
<1> USE DEF Init
<1>1. registry \in [Names -> Plugins \cup {None}]
  BY Nothing DEF Plugins
<1>2. registry \in [Names -> Plugins \cup {None}] /\ loaded \in [Names -> Tracks \cup {None}]
  BY <1>1
<1>3. req \in [Requests -> [pc : RequestSteps, name : Names \cup {None},
                           file : Movable \cup {None}, old : Movable \cup {None}]]
  BY DEF Idle, RequestSteps
<1>4. flush \in [Flushers -> [pc : FlushSteps, todo : SUBSET Files, file : Files \cup {None}]]
  BY DEF Resting, FlushSteps
<1>5. TypeOK
  <2>2. armed \in BOOLEAN /\ looping \in BOOLEAN
    OBVIOUS
  <2> HIDE DEF Init
  <2>1. events \in Seq(Kinds)
    <3>1. events = <<>>
      BY DEF Init
    <3> QED
      BY <3>1
  <2>5. pendingEvent \in Kinds \cup {""}
    BY DEF Init
  <2>3. ops \in 0..MaxOps /\ changes \in 0..MaxChanges
    <3>1. ops = 0 /\ changes = 0
      BY DEF Init
    <3> QED
      BY <3>1, PluginAssumption
  <2>4. mu \in Flushers \cup {None} /\ stage \in {"new", "running", "stopped"} /\ dir \in SUBSET Files
    BY DEF Init
  <2> QED
    BY <1>2, <1>3, <1>4, <2>1, <2>2, <2>3, <2>4, <2>5, Zenon DEF TypeOK
<1>6. OwnNames /\ FromFiles
  <2>1. \A n \in Names : loaded[n] = None
    OBVIOUS
  <2>2. \A n \in Names : registry[n] # None => NameOf[registry[n]] = n
    BY Nothing
  <2> QED
    BY <2>1, <2>2 DEF OwnNames, FromFiles, Registered, Loaded
<1>7. \A r \in Requests : Loads(r) /\ Reloads(r)
  BY DEF Loads, Reloads, Idle, ReloadSteps
<1> QED
  BY <1>5, <1>6, <1>7 DEF IInv

-----------------------------------------------------------------------------
(* Each step of a request leaves the others as they were. *)
Alone(r) == \A s \in Requests \ {r} : req'[s] = req[s]

LEMMA StartKeeps == IInv /\ Start => IInv'
<1> SUFFICES ASSUME IInv, Start PROVE IInv'
  OBVIOUS
<1> USE Nothing
<1> DEFINE new(found, n) == {p \in found : NameOf[p] = n}
<1>1. PICK found \in ScanAndLoad :
        /\ \A p \in found : ~Registered(NameOf[p]) /\ new(found, NameOf[p]) = {p}
        /\ registry' = [n \in Names |-> IF new(found, n) # {} THEN CHOOSE p \in new(found, n) : TRUE
                                        ELSE registry[n]]
  BY DEF Start
<1>2. found \subseteq Movable
  BY DEF ScanAndLoad, IInv, TypeOK, Movable
<1>3. \A n \in Names : \/ registry'[n] = registry[n]
                       \/ /\ registry'[n] \in Movable /\ NameOf[registry'[n]] = n
                          /\ ~Registered(n)
  <2>1. ASSUME NEW n \in Names, new(found, n) # {}
        PROVE  /\ registry'[n] \in Movable /\ NameOf[registry'[n]] = n
               /\ ~Registered(n)
    <3>1. (CHOOSE p \in new(found, n) : TRUE) \in new(found, n)
      BY <2>1
    <3> QED
      BY <3>1, <2>1, <1>1, <1>2
  <2>2. ASSUME NEW n \in Names, new(found, n) = {} PROVE registry'[n] = registry[n]
    BY <2>2, <1>1
  <2> QED
    BY <2>1, <2>2
<1>4. registry' \in [Names -> Plugins \cup {None}]
  <2>1. DOMAIN registry' = Names /\ registry' = [n \in Names |-> registry'[n]]
    BY <1>1
  <2>2. \A n \in Names : registry'[n] \in Plugins \cup {None}
    BY <1>3 DEF IInv, TypeOK
  <2> QED
    BY <2>1, <2>2
<1> HIDE DEF new
<1>5. loaded' = [n \in Names |-> IF registry'[n] = None THEN None
                                 ELSE Track(registry'[n],
                                            IF Registered(n) THEN "compiled" ELSE "loaded")]
  BY DEF Start
<1>6. \A n \in Names : Registered(n) => registry'[n] = registry[n]
  BY <1>3
<1>7. \A n \in Names : \/ loaded'[n] = None
                       \/ Registered(n) /\ loaded'[n] = Track(registry[n], "compiled")
                       \/ /\ ~Registered(n) /\ registry'[n] # None
                          /\ loaded'[n] = Track(registry'[n], "loaded")
  BY <1>5, <1>6
<1>8. \A n \in Names : Registered(n) => registry[n] \in Plugins
  BY DEF IInv, TypeOK, Registered
<1>9. \A n \in Names : Registered(n) => registry[n] \in Plugins /\ NameOf[registry[n]] = n
  BY DEF IInv, TypeOK, OwnNames, Registered
<1>10. \A n \in Names : ~Registered(n) /\ registry'[n] # None =>
        registry'[n] \in Movable /\ NameOf[registry'[n]] = n
  BY <1>3 DEF Registered
<1>11. loaded' \in [Names -> Tracks \cup {None}]
  <2>1. loaded' = [n \in Names |-> loaded'[n]]
    BY <1>5
  <2>2. \A n \in Names : loaded'[n] \in Tracks \cup {None}
    BY <1>7, <1>9, <1>10 DEF Sources
  <2> QED
    BY <2>1, <2>2
<1>12. TypeOK'
  BY <1>4, <1>11 DEF TypeOK, IInv, Start, bounds
<1>13. OwnNames' /\ FromFiles'
  <2>1. \A n \in Names : loaded'[n] # None =>
          /\ NameOf[loaded'[n].plugin] = n
          /\ loaded'[n].source # "compiled" => loaded'[n].plugin \in Movable
    <3> SUFFICES ASSUME NEW n \in Names, loaded'[n] # None
                 PROVE  /\ NameOf[loaded'[n].plugin] = n
                        /\ loaded'[n].source # "compiled" => loaded'[n].plugin \in Movable
      OBVIOUS
    <3>1. CASE Registered(n) /\ loaded'[n] = Track(registry[n], "compiled")
      <4>1. loaded'[n].plugin = registry[n] /\ loaded'[n].source = "compiled"
        BY <3>1 DEF Track
      <4> QED
        BY <4>1, <3>1, <1>9
    <3>2. CASE ~Registered(n) /\ registry'[n] # None /\ loaded'[n] = Track(registry'[n], "loaded")
      <4>1. loaded'[n].plugin = registry'[n]
        BY <3>2 DEF Track
      <4> QED
        BY <4>1, <3>2, <1>10
    <3> QED
      BY <1>7, <3>1, <3>2
  <2>2. \A n \in Names : registry'[n] # None => NameOf[registry'[n]] = n
    BY <1>3, <1>9 DEF Registered
  <2> QED
    BY <2>1, <2>2 DEF OwnNames, FromFiles, Registered, Loaded
<1>14. \A r \in Requests : Loads(r)' /\ Reloads(r)'
  <2>1. req' = req /\ \A r \in Requests : Loads(r) /\ Reloads(r)
    BY DEF Start, IInv
  <2> QED
    BY <2>1, <1>3 DEF Loads, Reloads
<1> QED
  BY <1>12, <1>13, <1>14 DEF IInv

(* Entries that are dropped in pairs break nothing: so do Stop, Unload and  *)
(* the watcher that finds a file gone.                                     *)
LEMMA DroppingKeeps ==
  ASSUME Managed, req' = req,
         registry \in [Names -> Plugins \cup {None}], loaded \in [Names -> Tracks \cup {None}],
         registry' \in [Names -> Plugins \cup {None}], loaded' \in [Names -> Tracks \cup {None}],
         \A n \in Names : registry'[n] \in {registry[n], None} /\ loaded'[n] \in {loaded[n], None}
  PROVE  Managed'
<1> USE Nothing
<1>1. OwnNames'
  BY DEF Managed, OwnNames, Registered, Loaded
<1>2. FromFiles'
  BY DEF Managed, FromFiles, Loaded
<1>3. \A r \in Requests : Loads(r)' /\ Reloads(r)'
  <2>1. None \notin Compiled
    BY DEF Plugins
  <2> QED
    BY <2>1 DEF Managed, Loads, Reloads
<1> QED
  BY <1>1, <1>2, <1>3 DEF Managed

(* Entries that appear together, of a plugin that came from a file.         *)
LEMMA TypesOfTrack ==
  ASSUME NEW p \in Movable
  PROVE  /\ Track(p, "loaded") \in Tracks /\ Track(p, "loaded") # None
         /\ Track(p, "loaded").plugin = p /\ Track(p, "loaded").source = "loaded"
  BY Nothing DEF Track, Sources

(* Registering what came from a file, under its own name and where nothing *)
(* is registered: so do Load, the scan, Reload and its rollback.           *)
LEMMA RegisteringKeeps ==
  ASSUME IInv, NEW p \in Movable, NEW r \in Requests,
         registry' \in [Names -> Plugins \cup {None}], loaded' \in [Names -> Tracks \cup {None}],
         \A n \in Names : \/ registry'[n] = registry[n]
                          \/ n = NameOf[p] /\ registry'[n] = p,
         \A n \in Names : \/ loaded'[n] \in {loaded[n], None}
                          \/ n = NameOf[p] /\ loaded'[n] = Track(p, "loaded"),
         req'[r] = Idle \/ req'[r] = req[r], Alone(r)
  PROVE  Managed'
<1> USE Nothing, TypesOfTrack
<1>1. OwnNames'
  BY DEF IInv, OwnNames, Registered, Loaded
<1>2. FromFiles'
  BY DEF IInv, FromFiles, Loaded
<1>3. \A s \in Requests : Loads(s)' /\ Reloads(s)'
  <2>1. \A s \in Requests : req'[s] = Idle \/ req'[s] = req[s]
    BY DEF Alone
  <2>2. Idle.pc = "idle"
    BY DEF Idle
  <2>3. \A n \in Names : registry[n] \notin Compiled => registry'[n] \notin Compiled
    OBVIOUS
  <2>4. \A s \in Requests : Loads(s)'
    BY <2>1, <2>2 DEF IInv, Loads
  <2>5. \A s \in Requests : Reloads(s)'
    BY <2>1, <2>2, <2>3 DEF IInv, Reloads, ReloadSteps
  <2> QED
    BY <2>4, <2>5
<1> QED
  BY <1>1, <1>2, <1>3 DEF Managed

-----------------------------------------------------------------------------
(* Steps of a request. *)
RequestType == [pc : RequestSteps, name : Names \cup {None},
                file : Movable \cup {None}, old : Movable \cup {None}]

LEMMA IdleTyped == Idle \in RequestType /\ Idle.pc = "idle"
  BY DEF Idle, RequestType, RequestSteps

(* The typing of a step that a request takes with the watcher at rest. *)
LEMMA RequestTyped ==
  ASSUME TypeOK,
         registry' \in [Names -> Plugins \cup {None}], loaded' \in [Names -> Tracks \cup {None}],
         NEW r \in Requests, NEW x \in RequestType, req' = [req EXCEPT ![r] = x],
         UNCHANGED <<stage, dir, mu, watching, changes>>, ops' \in 0..MaxOps
  PROVE  TypeOK' /\ req'[r] = x /\ Alone(r)
  BY DEF TypeOK, watching, RequestType, Alone

LEMMA LoadKeeps ==
  ASSUME IInv, NEW r \in Requests,
         (\E f \in Files : LoadOpen(r, f)) \/ LoadConflicts(r) \/ LoadCommit(r)
  PROVE  IInv'
<1> USE Nothing
<1>1. ASSUME NEW f \in Files, LoadOpen(r, f) PROVE IInv'
  <2> DEFINE x == [Idle EXCEPT !.pc = "load", !.file = f]
  <2>1. x \in RequestType /\ x.pc = "load" /\ x.file = f
    BY DEF Idle, RequestType, RequestSteps
  <2>2. ops' \in 0..MaxOps
    <3>1. ops \in 0..MaxOps /\ ops < MaxOps /\ ops' = ops + 1
      BY <1>1 DEF LoadOpen, Ask, IInv, TypeOK
    <3> QED
      BY <3>1, PluginAssumption
  <2>3. req' = [req EXCEPT ![r] = x] /\ UNCHANGED <<registry, loaded, stage, dir, mu, watching, changes>>
    BY <1>1 DEF LoadOpen, manager
  <2> HIDE DEF x
  <2>4. TypeOK' /\ req'[r] = x /\ Alone(r)
    BY <2>1, <2>2, <2>3, RequestTyped DEF IInv, TypeOK
  <2>5. OwnNames' /\ FromFiles'
    BY <2>3 DEF IInv, OwnNames, FromFiles, Registered, Loaded
  <2>6. \A s \in Requests : Loads(s)' /\ Reloads(s)'
    BY <2>1, <2>3, <2>4 DEF IInv, Loads, Reloads, Alone, ReloadSteps
  <2> QED
    BY <2>4, <2>5, <2>6 DEF IInv
<1>2. CASE LoadConflicts(r)
  <2>1. /\ req' = [req EXCEPT ![r] = Idle] /\ req[r].file \in Movable
        /\ UNCHANGED <<registry, loaded, stage, dir, mu, watching, changes, ops>>
    BY <1>2 DEF LoadConflicts, manager, bounds, IInv, Loads
  <2>2. TypeOK' /\ req'[r] = Idle /\ Alone(r)
    BY <2>1, RequestTyped, IdleTyped DEF IInv, TypeOK
  <2>3. Managed'
    BY <2>1, <2>2, RegisteringKeeps DEF IInv, TypeOK
  <2> QED
    BY <2>2, <2>3 DEF IInv, Managed
<1>3. CASE LoadCommit(r)
  <2> DEFINE p == req[r].file
  <2>1. p \in Files /\ NameOf[p] \in Names
    BY <1>3 DEF LoadCommit, IInv, Loads
  <2>2. /\ registry' = [registry EXCEPT ![NameOf[p]] = p]
        /\ loaded' = [loaded EXCEPT ![NameOf[p]] = Track(p, "loaded")]
        /\ req' = [req EXCEPT ![r] = Idle]
        /\ UNCHANGED <<stage, dir, mu, watching, changes, ops>>
    BY <1>3 DEF LoadCommit, bounds
  <2> HIDE DEF p
  <2>3. /\ registry' \in [Names -> Plugins \cup {None}]
        /\ loaded' \in [Names -> Tracks \cup {None}]
    BY <2>1, <2>2, TypesOfTrack DEF IInv, TypeOK
  <2>4. TypeOK' /\ req'[r] = Idle /\ Alone(r)
    BY <2>2, <2>3, RequestTyped, IdleTyped DEF IInv, TypeOK
  <2>5. Managed'
    BY <2>1, <2>2, <2>3, <2>4, RegisteringKeeps DEF IInv, TypeOK
  <2> QED
    BY <2>4, <2>5 DEF IInv, Managed
<1> QED
  BY <1>1, <1>2, <1>3

LEMMA UnloadKeeps == ASSUME IInv, NEW r \in Requests, NEW n \in Names, Unload(r, n) PROVE IInv'
<1> USE Nothing
<1>1. /\ registry' = [registry EXCEPT ![n] = None] /\ loaded' = [loaded EXCEPT ![n] = None]
      /\ UNCHANGED <<stage, dir, req, mu, watching, changes>>
  BY DEF Unload
<1>2. /\ registry' \in [Names -> Plugins \cup {None}]
      /\ loaded' \in [Names -> Tracks \cup {None}]
      /\ ops' \in 0..MaxOps
  <2>1. ops \in 0..MaxOps /\ ops < MaxOps /\ ops' = ops + 1
    BY DEF Unload, Ask, IInv, TypeOK
  <2>2. ops' \in 0..MaxOps
    BY <2>1, PluginAssumption
  <2> QED
    BY <1>1, <2>2 DEF IInv, TypeOK
<1>3. TypeOK'
  BY <1>1, <1>2 DEF IInv, TypeOK, watching
<1>4. Managed'
  BY <1>1, <1>2, DroppingKeeps DEF IInv, TypeOK, Managed
<1> QED
  BY <1>3, <1>4 DEF IInv, Managed

LEMMA BeginKeeps ==
  ASSUME IInv, NEW r \in Requests, NEW n \in Names, NEW f \in Movable, ReloadBegin(r, n, f)
  PROVE  IInv'
<1> USE Nothing
<1> DEFINE x == [pc |-> "open", name |-> n, file |-> f, old |-> loaded[n].plugin]
<1>1. /\ registry' = [registry EXCEPT ![n] = None] /\ req' = [req EXCEPT ![r] = x]
      /\ UNCHANGED <<loaded, stage, dir, mu, watching, changes>>
  BY DEF ReloadBegin
<1>2. loaded[n].plugin \in Movable /\ NameOf[loaded[n].plugin] = n
  BY DEF ReloadBegin, IInv, FromFiles, OwnNames
<1>3. /\ x \in RequestType /\ x.pc = "open" /\ x.name = n /\ x.file = f
      /\ x.old \in Movable /\ NameOf[x.old] = n
  BY <1>2 DEF RequestType, RequestSteps, ReloadSteps
<1> HIDE DEF x
<1>4. registry' \in [Names -> Plugins \cup {None}] /\ ops' \in 0..MaxOps
  <2>1. ops \in 0..MaxOps /\ ops < MaxOps /\ ops' = ops + 1
    BY DEF ReloadBegin, Ask, IInv, TypeOK
  <2>2. ops' \in 0..MaxOps
    BY <2>1, PluginAssumption
  <2> QED
    BY <1>1, <2>2 DEF IInv, TypeOK
<1>5. TypeOK' /\ req'[r] = x /\ Alone(r)
  BY <1>1, <1>3, <1>4, RequestTyped DEF IInv, TypeOK
<1>6. OwnNames' /\ FromFiles'
  BY <1>1 DEF IInv, TypeOK, OwnNames, FromFiles, Registered, Loaded
<1>7. \A m \in Names : registry[m] \notin Compiled => registry'[m] \notin Compiled
  BY <1>1 DEF IInv, TypeOK, Plugins
<1>8. registry'[n] \notin Compiled
  BY <1>1 DEF IInv, TypeOK, Plugins
<1>9. \A s \in Requests : Loads(s)' /\ Reloads(s)'
  <2>1. Loads(r)' /\ Reloads(r)'
    BY <1>3, <1>5, <1>8 DEF Loads, Reloads
  <2>2. ASSUME NEW s \in Requests \ {r} PROVE Loads(s)' /\ Reloads(s)'
    BY <2>2, <1>5, <1>7 DEF IInv, Loads, Reloads, Alone
  <2> QED
    BY <2>1, <2>2
<1> QED
  BY <1>5, <1>6, <1>9 DEF IInv

LEMMA OpenKeeps == ASSUME IInv, NEW r \in Requests, ReloadOpens(r) \/ ReloadFails(r) PROVE IInv'
<1> USE Nothing
<1>1. PICK pc \in {"reload", "rollback"} :
        /\ req[r].pc = "open" /\ req' = [req EXCEPT ![r].pc = pc]
        /\ UNCHANGED <<registry, loaded, stage, dir, mu, watching, changes, ops>>
  BY DEF ReloadOpens, ReloadFails, manager, bounds
<1> DEFINE x == [req[r] EXCEPT !.pc = pc]
<1>2. req' = [req EXCEPT ![r] = x] /\ req[r] \in RequestType
  BY <1>1 DEF IInv, TypeOK, RequestType
<1>3. /\ x \in RequestType /\ x.pc = pc /\ x.name = req[r].name
      /\ x.file = req[r].file /\ x.old = req[r].old
  BY <1>2 DEF RequestType, RequestSteps, ReloadSteps
<1> HIDE DEF x
<1>4. TypeOK' /\ req'[r] = x /\ Alone(r)
  BY <1>1, <1>2, <1>3, RequestTyped DEF IInv, TypeOK
<1>5. OwnNames' /\ FromFiles'
  BY <1>1 DEF IInv, OwnNames, FromFiles, Registered, Loaded
<1>6. Loads(r)' /\ Reloads(r)'
  BY <1>1, <1>3, <1>4 DEF IInv, Loads, Reloads, ReloadSteps
<1>7. ASSUME NEW s \in Requests \ {r} PROVE Loads(s)' /\ Reloads(s)'
  BY <1>1, <1>4 DEF IInv, Loads, Reloads, Alone
<1> QED
  BY <1>4, <1>5, <1>6, <1>7 DEF IInv

LEMMA CommitKeeps == ASSUME IInv, NEW r \in Requests, ReloadCommit(r) \/ Rollback(r) PROVE IInv'
<1> USE Nothing
<1>1. PICK p \in Movable :
        /\ RegisterIfFree(p)
        /\ \/ loaded' = [loaded EXCEPT ![req[r].name] = None, ![NameOf[p]] = Track(p, "loaded")]
           \/ NameOf[p] = req[r].name /\ loaded' = [loaded EXCEPT ![req[r].name] = Track(p, "loaded")]
  <2>1. CASE ReloadCommit(r)
    <3>1. req[r].file \in Movable
      BY <2>1 DEF ReloadCommit, IInv, Reloads, ReloadSteps
    <3> QED
      BY <2>1, <3>1 DEF ReloadCommit
  <2>2. CASE Rollback(r)
    <3>1. req[r].old \in Movable /\ NameOf[req[r].old] = req[r].name
      BY <2>2 DEF Rollback, IInv, Reloads, ReloadSteps
    <3> QED
      BY <2>2, <3>1 DEF Rollback
  <2> QED
    BY <2>1, <2>2
<1>2. req[r].name \in Names /\ NameOf[p] \in Names
  BY DEF ReloadCommit, Rollback, IInv, Reloads, ReloadSteps
<1>3. registry' = [registry EXCEPT ![NameOf[p]] = IF @ = None THEN p ELSE @]
  BY <1>1 DEF RegisterIfFree
<1>4. registry' \in [Names -> Plugins \cup {None}]
  BY <1>2, <1>3 DEF IInv, TypeOK
<1>5. \A n \in Names : registry'[n] = registry[n] \/ (n = NameOf[p] /\ registry'[n] = p)
  BY <1>2, <1>3 DEF IInv, TypeOK
<1> DEFINE t == Track(p, "loaded")
<1>6. t \in Tracks /\ loaded \in [Names -> Tracks \cup {None}]
  BY TypesOfTrack DEF IInv, TypeOK
<1>7. \/ loaded' = [loaded EXCEPT ![req[r].name] = None, ![NameOf[p]] = t]
      \/ NameOf[p] = req[r].name /\ loaded' = [loaded EXCEPT ![req[r].name] = t]
  BY <1>1
<1> HIDE DEF t
<1>8. \A n \in Names : loaded'[n] \in {loaded[n], None} \/ (n = NameOf[p] /\ loaded'[n] = t)
  BY <1>7, <1>6, <1>2
<1>9. loaded' \in [Names -> Tracks \cup {None}]
  BY <1>7, <1>6, <1>2
<1>10. req' = [req EXCEPT ![r] = Idle] /\ UNCHANGED <<stage, dir, mu, watching, changes, ops>>
  BY DEF ReloadCommit, Rollback, bounds
<1>11. TypeOK' /\ req'[r] = Idle /\ Alone(r)
  BY <1>4, <1>9, <1>10, RequestTyped, IdleTyped DEF IInv, TypeOK
<1>12. Managed'
  BY <1>4, <1>5, <1>8, <1>9, <1>11, RegisteringKeeps DEF t
<1> QED
  BY <1>11, <1>12 DEF IInv, Managed

LEMMA ListKeeps == ASSUME IInv, NEW r \in Requests, List(r) PROVE IInv'
<1> USE Nothing
<1>1. /\ loaded' = [n \in Names |-> IF Registered(n) /\ ~Loaded(n)
                                   THEN Track(registry[n], "compiled") ELSE loaded[n]]
      /\ UNCHANGED <<registry, stage, dir, req, mu, watching, ops, changes>>
  BY DEF List, bounds
<1>2. \A n \in Names : Registered(n) => registry[n] \in Plugins /\ NameOf[registry[n]] = n
  BY DEF IInv, TypeOK, OwnNames, Registered
<1>3. \A p \in Plugins : /\ Track(p, "compiled") \in Tracks /\ Track(p, "compiled").plugin = p
                         /\ Track(p, "compiled").source = "compiled"
  BY DEF Track, Sources
<1>4. loaded' \in [Names -> Tracks \cup {None}]
  BY <1>1, <1>2, <1>3 DEF IInv, TypeOK
<1>5. TypeOK'
  BY <1>1, <1>4 DEF IInv, TypeOK, watching
<1>6. \A n \in Names : \/ loaded'[n] = loaded[n]
                       \/ Registered(n) /\ loaded'[n] = Track(registry[n], "compiled")
  BY <1>1
<1>7. OwnNames' /\ FromFiles'
  <2>1. ASSUME NEW n \in Names, loaded'[n] # None
        PROVE  /\ NameOf[loaded'[n].plugin] = n
               /\ loaded'[n].source # "compiled" => loaded'[n].plugin \in Movable
    <3>1. CASE loaded'[n] = loaded[n]
      BY <2>1, <3>1 DEF IInv, OwnNames, FromFiles, Loaded
    <3>2. CASE Registered(n) /\ loaded'[n] = Track(registry[n], "compiled")
      BY <3>2, <1>2, <1>3
    <3> QED
      BY <1>6, <3>1, <3>2
  <2> QED
    BY <2>1, <1>1, <1>2 DEF OwnNames, FromFiles, Registered, Loaded
<1>8. \A s \in Requests : Loads(s)' /\ Reloads(s)'
  BY <1>1 DEF IInv, Loads, Reloads
<1> QED
  BY <1>5, <1>7, <1>8 DEF IInv

LEMMA RequestKeeps == ASSUME IInv, NEW r \in Requests, Request(r) PROVE IInv'
<1> QED
  BY LoadKeeps, UnloadKeeps, BeginKeeps, OpenKeeps, CommitKeeps, ListKeeps DEF Request, Movable

-----------------------------------------------------------------------------
(* The manager stops; the directory and its watcher. *)
FlushType == [pc : FlushSteps, todo : SUBSET Files, file : Files \cup {None}]

LEMMA StopKeeps == ASSUME IInv, Stop PROVE IInv'
<1> USE Nothing
<1> DEFINE gone(n) == Loaded(n) /\ loaded[n].source # "compiled"
<1>1. /\ registry' = [n \in Names |-> IF gone(n) THEN None ELSE registry[n]]
      /\ loaded' = [n \in Names |-> IF gone(n) THEN None ELSE loaded[n]]
      /\ stage' = "stopped" /\ UNCHANGED <<dir, req, mu, watching, bounds>>
  BY DEF Stop
<1> HIDE DEF gone
<1>2. /\ registry' \in [Names -> Plugins \cup {None}]
      /\ loaded' \in [Names -> Tracks \cup {None}]
  BY <1>1 DEF IInv, TypeOK
<1>3. TypeOK'
  BY <1>1, <1>2 DEF IInv, TypeOK, watching, bounds
<1>4. Managed'
  BY <1>1, <1>2, DroppingKeeps DEF IInv, TypeOK, Managed
<1> QED
  BY <1>3, <1>4 DEF IInv, Managed

LEMMA DropKeeps == ASSUME IInv, NEW g \in Flushers, DropGone(g) PROVE IInv'
<1> USE Nothing
<1> DEFINE gone(n) == /\ Loaded(n) /\ loaded[n].source = "loaded"
                      /\ loaded[n].plugin \notin dir \cup Elsewhere
<1>1. /\ registry' = [n \in Names |-> IF gone(n) THEN None ELSE registry[n]]
      /\ loaded' = [n \in Names |-> IF gone(n) THEN None ELSE loaded[n]]
      /\ flush' = [flush EXCEPT ![g].pc = "clear"]
      /\ UNCHANGED <<stage, dir, req, mu, events, pendingEvent, armed, looping, bounds>>
  BY DEF DropGone
<1> HIDE DEF gone
<1>2. /\ registry' \in [Names -> Plugins \cup {None}]
      /\ loaded' \in [Names -> Tracks \cup {None}]
  BY <1>1 DEF IInv, TypeOK
<1>3. flush' \in [Flushers -> FlushType]
  BY <1>1 DEF IInv, TypeOK, FlushType, FlushSteps
<1>4. TypeOK'
  BY <1>1, <1>2, <1>3 DEF IInv, TypeOK, bounds, FlushType
<1>5. Managed'
  BY <1>1, <1>2, DroppingKeeps DEF IInv, TypeOK, Managed
<1> QED
  BY <1>4, <1>5 DEF IInv, Managed

(* The steps of a timer's goroutine up to the registry, and after it.       *)
LEMMA FlushTyped ==
  ASSUME IInv, NEW g \in Flushers, NEW x \in FlushType, flush' = [flush EXCEPT ![g] = x],
         mu' \in Flushers \cup {None}, pendingEvent' \in Kinds \cup {""},
         armed' = armed \/ armed' = FALSE,
         UNCHANGED <<registry, loaded, stage, dir, req, events, looping, bounds>>
  PROVE  IInv'
<1>1. flush' \in [Flushers -> FlushType]
  BY DEF IInv, TypeOK, FlushType
<1>2. armed' \in BOOLEAN
  BY DEF IInv, TypeOK
<1>3. /\ registry' \in [Names -> Plugins \cup {None}] /\ loaded' \in [Names -> Tracks \cup {None}]
      /\ stage' \in {"new", "running", "stopped"} /\ dir' \in SUBSET Files
      /\ req' \in [Requests -> [pc : RequestSteps, name : Names \cup {None},
                                file : Movable \cup {None}, old : Movable \cup {None}]]
      /\ events' \in Seq(Kinds)
  BY DEF IInv, TypeOK
<1>4. looping' \in BOOLEAN
  BY DEF IInv, TypeOK
<1>5. ops' \in 0..MaxOps /\ changes' \in 0..MaxChanges
  BY DEF IInv, TypeOK, bounds
<1>6. TypeOK'
  BY <1>1, <1>2, <1>3, <1>4, <1>5 DEF TypeOK, FlushType
<1>7. Managed'
  BY ManagedUnchanged DEF IInv, Managed, Manager
<1> QED
  BY <1>6, <1>7 DEF IInv, Managed

LEMMA CommitScanKeeps == ASSUME IInv, NEW g \in Flushers, ScanCommit(g) PROVE IInv'
<1> USE Nothing
<1> DEFINE p == flush[g].file
<1>1. /\ mu' = g /\ flush' = [flush EXCEPT ![g].pc = "scan", ![g].file = None]
      /\ UNCHANGED <<stage, dir, req, events, pendingEvent, armed, looping, bounds>>
      /\ \/ /\ p # None
            /\ registry' = [registry EXCEPT ![NameOf[p]] = p]
            /\ loaded' = [loaded EXCEPT ![NameOf[p]] = Track(p, "loaded")]
         \/ UNCHANGED <<registry, loaded>>
  BY DEF ScanCommit
<1>2. p \in Files \cup {None}
  BY DEF IInv, TypeOK
<1> HIDE DEF p
<1>3. flush' \in [Flushers -> FlushType]
  <2> DEFINE x == [flush[g] EXCEPT !.pc = "scan", !.file = None]
  <2>1. flush \in [Flushers -> FlushType]
    BY DEF IInv, TypeOK, FlushType
  <2>2. flush' = [flush EXCEPT ![g] = x]
    BY <1>1, <2>1
  <2>3. x \in FlushType
    BY <2>1 DEF FlushType, FlushSteps
  <2> HIDE DEF x
  <2> QED
    BY <2>1, <2>2, <2>3
<1>4. /\ registry' \in [Names -> Plugins \cup {None}] /\ loaded' \in [Names -> Tracks \cup {None}]
  <2>1. /\ registry \in [Names -> Plugins \cup {None}] /\ loaded \in [Names -> Tracks \cup {None}]
    BY DEF IInv, TypeOK
  <2>2. p # None => p \in Plugins /\ Track(p, "loaded") \in Tracks
    BY <1>2, TypesOfTrack
  <2> QED
    BY <1>1, <2>1, <2>2
<1>5. TypeOK'
  BY <1>1, <1>3, <1>4 DEF IInv, TypeOK, bounds, FlushType
<1>6. Managed'
  <2>1. CASE UNCHANGED <<registry, loaded>>
    BY <2>1, <1>1, ManagedUnchanged DEF IInv, Managed, Manager
  <2>2. CASE /\ p # None
             /\ registry' = [registry EXCEPT ![NameOf[p]] = p]
             /\ loaded' = [loaded EXCEPT ![NameOf[p]] = Track(p, "loaded")]
    <3>1. p \in Movable /\ NameOf[p] \in Names
      BY <1>2, <2>2
    <3>2. \A n \in Names : registry'[n] = registry[n] \/ (n = NameOf[p] /\ registry'[n] = p)
      BY <2>2, <3>1 DEF IInv, TypeOK
    <3>3. \A n \in Names : \/ loaded'[n] = loaded[n]
                           \/ n = NameOf[p] /\ loaded'[n] = Track(p, "loaded")
      BY <2>2, <3>1 DEF IInv, TypeOK
    <3>4. OwnNames'
      BY <3>1, <3>2, <3>3, TypesOfTrack DEF IInv, OwnNames, Registered, Loaded
    <3>5. FromFiles'
      BY <3>1, <3>3, TypesOfTrack DEF IInv, FromFiles, Loaded
    <3>6. \A r \in Requests : Loads(r)' /\ Reloads(r)'
      BY <1>1, <3>1, <3>2 DEF IInv, Loads, Reloads
    <3> QED
      BY <3>4, <3>5, <3>6 DEF Managed
  <2> QED
    BY <1>1, <2>1, <2>2
<1> QED
  BY <1>5, <1>6 DEF IInv, Managed

LEMMA FlushKeeps == ASSUME IInv, NEW g \in Flushers, Flush(g) PROVE IInv'
<1>1. flush[g] \in FlushType /\ mu \in Flushers \cup {None} /\ pendingEvent \in Kinds \cup {""}
      /\ dir \in SUBSET Files
  BY DEF IInv, TypeOK, FlushType
<1>2. CASE Fire(g)
  <2> DEFINE x == [flush[g] EXCEPT !.pc = IF pendingEvent = "" THEN "clear" ELSE pendingEvent]
  <2>1. x \in FlushType
    BY <1>1 DEF FlushType, FlushSteps
  <2>2. /\ flush' = [flush EXCEPT ![g] = x] /\ armed' = FALSE
        /\ UNCHANGED <<registry, loaded, stage, dir, req, mu, events, pendingEvent, looping, bounds>>
    BY <1>2 DEF Fire, manager, IInv, TypeOK
  <2> HIDE DEF x
  <2> QED
    BY <1>1, <2>1, <2>2, FlushTyped
<1>3. CASE ScanBegin(g)
  <2> DEFINE x == [flush[g] EXCEPT !.pc = "scan", !.todo = dir]
  <2>1. x \in FlushType
    BY <1>1 DEF FlushType, FlushSteps
  <2>2. /\ flush' = [flush EXCEPT ![g] = x] /\ mu' = g
        /\ UNCHANGED <<registry, loaded, stage, dir, req, events, pendingEvent, armed, looping, bounds>>
    BY <1>3 DEF ScanBegin, manager, IInv, TypeOK
  <2> HIDE DEF x
  <2> QED
    BY <1>1, <2>1, <2>2, FlushTyped
<1>4. ASSUME NEW f \in Files, ScanNext(g, f) PROVE IInv'
  <2> DEFINE x == [pc |-> "open", todo |-> flush[g].todo \ {f}, file |-> f]
  <2>1. x \in FlushType
    BY <1>1 DEF FlushType, FlushSteps
  <2>2. /\ flush' = [flush EXCEPT ![g] = x] /\ mu' = None
        /\ UNCHANGED <<registry, loaded, stage, dir, req, events, pendingEvent, armed, looping, bounds>>
    BY <1>4 DEF ScanNext, manager, IInv, TypeOK
  <2> HIDE DEF x
  <2> QED
    BY <1>1, <2>1, <2>2, FlushTyped
<1>5. ASSUME NEW ok \in BOOLEAN, ScanOpens(g, ok) PROVE IInv'
  <2> DEFINE x == [flush[g] EXCEPT !.pc = "commit", !.file = IF ok THEN @ ELSE None]
  <2>1. x \in FlushType
    BY <1>1 DEF FlushType, FlushSteps
  <2>2. /\ flush' = [flush EXCEPT ![g] = x]
        /\ UNCHANGED <<registry, loaded, stage, dir, req, mu, events, pendingEvent, armed, looping, bounds>>
    BY <1>5 DEF ScanOpens, manager, IInv, TypeOK
  <2> HIDE DEF x
  <2> QED
    BY <1>1, <2>1, <2>2, FlushTyped
<1>6. CASE ScanEnds(g) \/ Clear(g)
  <2> PICK x \in FlushType :
          /\ flush' = [flush EXCEPT ![g] = x] /\ mu' \in {mu, None} /\ pendingEvent' \in {pendingEvent, ""}
          /\ UNCHANGED <<registry, loaded, stage, dir, req, events, armed, looping, bounds>>
    <3>1. Resting \in FlushType /\ [Resting EXCEPT !.pc = "clear"] \in FlushType
      BY DEF Resting, FlushType, FlushSteps
    <3>2. CASE ScanEnds(g)
      BY <3>1, <3>2 DEF ScanEnds, manager
    <3>3. CASE Clear(g)
      BY <3>1, <3>3 DEF Clear, manager
    <3> QED
      BY <1>6, <3>2, <3>3
  <2> QED
    BY <1>1, FlushTyped
<1> QED
  BY <1>2, <1>3, <1>4, <1>5, <1>6, CommitScanKeeps, DropKeeps DEF Flush

LEMMA WatchKeeps == ASSUME IInv, Change \/ ReadEvent \/ LoopEnds PROVE IInv'
<1>1. /\ UNCHANGED <<registry, loaded, stage, req, mu, flush, ops>>
      /\ dir' \in SUBSET Files /\ events' \in Seq(Kinds) /\ pendingEvent' \in Kinds \cup {""}
      /\ changes' \in 0..MaxChanges
  <2>1. CASE Change
    <3>1. dir' \in SUBSET Files /\ events' \in Seq(Kinds)
      <4>1. PICK f \in Files :
              \/ dir' = dir \ {f} /\ events' = Append(events, "remove")
              \/ dir' = dir \cup {f} /\ events' = Append(events, "create")
        BY <2>1 DEF Change
      <4>2. dir \in SUBSET Files /\ events \in Seq(Kinds)
        BY DEF IInv, TypeOK
      <4>3. "remove" \in Kinds /\ "create" \in Kinds
        BY DEF Kinds
      <4>4. events' \in Seq(Kinds)
        BY <4>1, <4>2, <4>3
      <4> QED
        BY <4>1, <4>2, <4>4
    <3>2. changes' \in 0..MaxChanges
      <4>1. changes \in 0..MaxChanges /\ changes < MaxChanges /\ changes' = changes + 1
        BY <2>1 DEF Change, IInv, TypeOK
      <4> QED
        BY <4>1, PluginAssumption
    <3> QED
      BY <2>1, <3>1, <3>2 DEF Change, manager, IInv, TypeOK
  <2>2. CASE ReadEvent
    <3>1. events \in Seq(Kinds) /\ events # <<>>
      BY <2>2 DEF ReadEvent, IInv, TypeOK
    <3>2. Head(events) \in Kinds /\ Tail(events) \in Seq(Kinds)
      BY <3>1
    <3> QED
      BY <2>2, <3>2 DEF ReadEvent, manager, bounds, IInv, TypeOK
  <2>3. CASE LoopEnds
    BY <2>3 DEF LoopEnds, manager, bounds, IInv, TypeOK
  <2> QED
    BY <2>1, <2>2, <2>3
<1>2. armed' \in BOOLEAN /\ looping' \in BOOLEAN
  BY DEF Change, ReadEvent, LoopEnds, IInv, TypeOK
<1>3. TypeOK'
  BY <1>1, <1>2 DEF IInv, TypeOK
<1>4. Managed'
  BY <1>1, ManagedUnchanged DEF IInv, Managed, Manager
<1> QED
  BY <1>3, <1>4 DEF IInv, Managed

-----------------------------------------------------------------------------
(* The invariant. *)
LEMMA StepKeeps == IInv /\ [Next]_vars => IInv'
<1> SUFFICES ASSUME IInv, [Next]_vars PROVE IInv'
  OBVIOUS
<1>1. CASE Start
  BY <1>1, StartKeeps
<1>2. CASE Stop
  BY <1>2, StopKeeps
<1>3. ASSUME NEW r \in Requests, Request(r) PROVE IInv'
  BY <1>3, RequestKeeps
<1>4. CASE Change \/ ReadEvent \/ LoopEnds
  BY <1>4, WatchKeeps
<1>5. ASSUME NEW g \in Flushers, Flush(g) PROVE IInv'
  BY <1>5, FlushKeeps
<1>6. CASE UNCHANGED vars
  <2>1. TypeOK'
    BY <1>6 DEF vars, manager, watching, bounds, IInv, TypeOK
  <2>2. Managed'
    BY <1>6, ManagedUnchanged DEF vars, manager, IInv, Managed, Manager
  <2> QED
    BY <2>1, <2>2 DEF IInv, Managed
<1> QED
  BY <1>1, <1>2, <1>3, <1>4, <1>5, <1>6 DEF Next

LEMMA Inductive == Spec => []IInv
BY Initially, StepKeeps, PTL DEF Spec

(* Every reachable state of the plugin manager is well typed. *)
THEOREM PluginsTypeCorrect == Spec => []TypeOK
<1>1. IInv => TypeOK
  BY DEF IInv
<1> QED
  BY <1>1, Inductive, PTL


-----------------------------------------------------------------------------
(* CompiledStay. *)

(* While a compiled plugin is registered under a name, no request reloads  *)
(* that name, and an entry that counts as loaded is not its own.           *)
LEMMA KeptIsSafe ==
  ASSUME IInv, NEW p \in Compiled, Kept(p)
  PROVE  /\ NameOf[p] \in Names /\ Registered(NameOf[p]) /\ Loaded(NameOf[p])
         /\ loaded[NameOf[p]].source = "compiled"
         /\ \A r \in Requests : req[r].pc \in ReloadSteps => req[r].name # NameOf[p]
<1>1. p \in Plugins
  BY DEF Plugins
<1>2. Track(p, "compiled").source = "compiled"
  BY DEF Track
<1>3. Track(p, "compiled") # None
  BY <1>1, Nothing DEF Sources
<1> QED
  BY <1>1, <1>2, <1>3, Nothing DEF Kept, Registered, Loaded, IInv, Reloads

LEMMA RequestKeepsCompiled ==
  ASSUME IInv, NEW r \in Requests, Request(r), NEW p \in Compiled, Kept(p)
  PROVE  Kept(p)' \/ Renames(r)
<1> DEFINE n == NameOf[p]
<1>1. /\ n \in Names /\ Registered(n) /\ Loaded(n) /\ loaded[n].source = "compiled"
      /\ req[r].pc \in ReloadSteps => req[r].name # n
  BY KeptIsSafe
<1>2. Kept(p) <=> registry[n] = p /\ loaded[n] = Track(p, "compiled")
  BY DEF Kept
<1>3. Kept(p)' <=> registry'[n] = p /\ loaded'[n] = Track(p, "compiled")
  BY DEF Kept
<1>4. /\ registry \in [Names -> Plugins \cup {None}] /\ loaded \in [Names -> Tracks \cup {None}]
  BY DEF IInv, TypeOK
<1> HIDE DEF n
<1>5. CASE (\E f \in Files : LoadOpen(r, f)) \/ LoadConflicts(r) \/ ReloadOpens(r) \/ ReloadFails(r)
  BY <1>2, <1>3, <1>5 DEF LoadOpen, LoadConflicts, ReloadOpens, ReloadFails, manager
<1>6. CASE LoadCommit(r)
  <2>1. NameOf[req[r].file] # n
    BY <1>1, <1>6 DEF LoadCommit
  <2> QED
    BY <1>1, <1>2, <1>3, <1>4, <1>6, <2>1 DEF LoadCommit
<1>7. ASSUME NEW m \in Names, \/ Unload(r, m)
                              \/ \E f \in Files \cup Elsewhere : ReloadBegin(r, m, f)
      PROVE  Kept(p)'
  <2>1. m # n
    BY <1>1, <1>7 DEF Unload, ReloadBegin
  <2> QED
    BY <1>1, <1>2, <1>3, <1>4, <1>7, <2>1 DEF Unload, ReloadBegin
<1>8. CASE ReloadCommit(r)
  <2>1. CASE NameOf[req[r].file] # req[r].name
    BY <1>8, <2>1 DEF Renames, ReloadCommit
  <2>2. CASE NameOf[req[r].file] = req[r].name
    <3>1. req[r].name # n
      BY <1>1, <1>8 DEF ReloadCommit, ReloadSteps
    <3> QED
      BY <1>1, <1>2, <1>3, <1>4, <1>8, <2>2, <3>1 DEF ReloadCommit, RegisterIfFree
  <2> QED
    BY <2>1, <2>2
<1>9. CASE Rollback(r)
  <2>1. req[r].name # n /\ NameOf[req[r].old] = req[r].name
    BY <1>1, <1>9 DEF Rollback, ReloadSteps, IInv, Reloads
  <2> QED
    BY <1>1, <1>2, <1>3, <1>4, <1>9, <2>1 DEF Rollback, RegisterIfFree
<1>10. CASE List(r)
  BY <1>1, <1>2, <1>3, <1>10 DEF List
<1> QED
  BY <1>5, <1>6, <1>7, <1>8, <1>9, <1>10 DEF Request

LEMMA FlushKeepsCompiled ==
  ASSUME IInv, NEW g \in Flushers, Flush(g), NEW p \in Compiled, Kept(p)
  PROVE  Kept(p)'
<1> DEFINE n == NameOf[p]
<1>1. /\ n \in Names /\ Registered(n) /\ Loaded(n) /\ loaded[n].source = "compiled"
  BY KeptIsSafe
<1>2. Kept(p) <=> registry[n] = p /\ loaded[n] = Track(p, "compiled")
  BY DEF Kept
<1>3. Kept(p)' <=> registry'[n] = p /\ loaded'[n] = Track(p, "compiled")
  BY DEF Kept
<1>4. /\ registry \in [Names -> Plugins \cup {None}] /\ loaded \in [Names -> Tracks \cup {None}]
  BY DEF IInv, TypeOK
<1> HIDE DEF n
<1>5. CASE ScanCommit(g)
  BY <1>1, <1>2, <1>3, <1>4, <1>5 DEF ScanCommit
<1>6. CASE DropGone(g)
  BY <1>1, <1>2, <1>3, <1>6 DEF DropGone
<1>7. CASE UNCHANGED manager
  BY <1>2, <1>3, <1>7 DEF manager
<1>8. Flush(g) => ScanCommit(g) \/ DropGone(g) \/ UNCHANGED manager
  BY DEF Flush, Fire, ScanBegin, ScanNext, ScanOpens, ScanEnds, Clear
<1> QED
  BY <1>5, <1>6, <1>7, <1>8

(* A compiled plugin stays registered, and listed as compiled, through     *)
(* every request and every change of the directory, but for a reload whose *)
(* file brings its name.                                                   *)
THEOREM CompiledPluginsStay == Spec => CompiledStay
<1>1. ASSUME IInv, Next, NEW p \in Compiled, Kept(p)
      PROVE  Kept(p)' \/ \E r \in Requests : Renames(r)
  <2> DEFINE n == NameOf[p]
  <2>1. /\ n \in Names /\ Registered(n) /\ loaded[n].source = "compiled"
    BY <1>1, KeptIsSafe
  <2>2. registry[n] = p /\ loaded[n] = Track(p, "compiled")
    BY <1>1 DEF Kept
  <2>3. Kept(p)' <=> registry'[n] = p /\ loaded'[n] = Track(p, "compiled")
    BY DEF Kept
  <2> HIDE DEF n
  <2>4. CASE Start
    <3> DEFINE new(found, m) == {q \in found : NameOf[q] = m}
    <3>1. PICK found \in ScanAndLoad :
            /\ \A q \in found : ~Registered(NameOf[q])
            /\ registry' = [m \in Names |-> IF new(found, m) # {} THEN CHOOSE q \in new(found, m) : TRUE
                                            ELSE registry[m]]
      BY <2>4 DEF Start
    <3>2. new(found, n) = {}
      BY <2>1, <3>1
    <3>3. registry'[n] = p
      BY <2>1, <2>2, <3>1, <3>2
    <3>4. loaded' = [m \in Names |-> IF registry'[m] = None THEN None
                                     ELSE Track(registry'[m],
                                                IF Registered(m) THEN "compiled" ELSE "loaded")]
      BY <2>4 DEF Start
    <3>5. p # None
      BY Nothing DEF Plugins
    <3> QED
      BY <2>1, <2>3, <3>3, <3>4, <3>5
  <2>5. CASE Stop
    BY <2>1, <2>2, <2>3, <2>5 DEF Stop
  <2>6. ASSUME NEW r \in Requests, Request(r) PROVE Kept(p)' \/ Renames(r)
    BY <1>1, <2>6, RequestKeepsCompiled
  <2>7. ASSUME NEW g \in Flushers, Flush(g) PROVE Kept(p)'
    BY <1>1, <2>7, FlushKeepsCompiled
  <2>8. CASE Change \/ ReadEvent \/ LoopEnds
    BY <2>2, <2>3, <2>8 DEF Change, ReadEvent, LoopEnds, manager
  <2> QED
    BY <1>1, <2>4, <2>5, <2>6, <2>7, <2>8 DEF Next
<1>2. IInv /\ [Next]_vars =>
        [\A p \in Compiled : Kept(p) => Kept(p)' \/ \E r \in Requests : Renames(r)]_vars
  BY <1>1
<1> QED
  BY <1>2, Inductive, PTL DEF Spec, CompiledStay

-----------------------------------------------------------------------------
(* SamePlugins. *)
AgreeOn(n) ==
    /\ Registered(n) => Loaded(n) /\ loaded[n].plugin = registry[n]
    /\ Loaded(n) => Registered(n) \/ Reloading(n)

(* A name whose entries stay, go together, or become the same plugin.      *)
LEMMA AgreesStill ==
  ASSUME NEW n \in Names, AgreeOn(n),
         \/ UNCHANGED <<registry[n], loaded[n]>>
         \/ registry'[n] = None /\ loaded'[n] = None
         \/ registry'[n] # None /\ loaded'[n] # None /\ loaded'[n].plugin = registry'[n],
         Reloading(n) => Reloading(n)' \/ registry'[n] # None \/ loaded'[n] = None
  PROVE  AgreeOn(n)'
  BY DEF AgreeOn, Registered, Loaded

LEMMA ReloadingUnchanged == ASSUME req' = req, NEW n PROVE Reloading(n) => Reloading(n)'
  BY DEF Reloading

(* A request that is not reloading n does not decide whether n is reloaded. *)
LEMMA OthersReload ==
  ASSUME IInv, NEW r \in Requests, NEW x, req' = [req EXCEPT ![r] = x], NEW n,
         Reloading(n), ~(req[r].pc \in ReloadSteps /\ req[r].name = n)
  PROVE  Reloading(n)'
<1>1. PICK s \in Requests : req[s].pc \in ReloadSteps /\ req[s].name = n
  BY DEF Reloading, ReloadSteps
<1>2. s # r /\ req'[s] = req[s]
  BY <1>1 DEF IInv, TypeOK
<1> QED
  BY <1>1, <1>2 DEF Reloading, ReloadSteps

LEMMA RequestAgrees ==
  ASSUME IInv, NEW r \in Requests, Request(r), NEW n \in Names, AgreeOn(n)
  PROVE  AgreeOn(n)' \/ Collides(r)
<1> USE Nothing
<1>1. /\ registry \in [Names -> Plugins \cup {None}] /\ loaded \in [Names -> Tracks \cup {None}]
      /\ req \in [Requests -> RequestType]
  BY DEF IInv, TypeOK, RequestType
<1>2. CASE (\E f \in Files : LoadOpen(r, f)) \/ LoadConflicts(r)
  <2>1. PICK x : req' = [req EXCEPT ![r] = x]
    BY <1>2 DEF LoadOpen, LoadConflicts
  <2>2. req[r].pc \notin ReloadSteps /\ UNCHANGED <<registry, loaded>>
    BY <1>2, IdleTyped DEF LoadOpen, LoadConflicts, Ask, manager, ReloadSteps
  <2> QED
    BY <2>1, <2>2, OthersReload, AgreesStill
<1>3. CASE ReloadOpens(r) \/ ReloadFails(r)
  <2>1. PICK pc \in ReloadSteps : req' = [req EXCEPT ![r].pc = pc]
    BY <1>3 DEF ReloadOpens, ReloadFails, ReloadSteps
  <2>2. UNCHANGED <<registry, loaded>>
    BY <1>3 DEF ReloadOpens, ReloadFails, manager
  <2>3. req'[r].pc = pc /\ req'[r].name = req[r].name
    BY <1>1, <2>1 DEF RequestType
  <2>4. CASE req[r].name = n
    BY <2>2, <2>3, <2>4, AgreesStill DEF Reloading, ReloadSteps
  <2>5. CASE req[r].name # n
    <3>1. req' = [req EXCEPT ![r] = [req[r] EXCEPT !.pc = pc]]
      BY <2>1
    <3> QED
      BY <2>2, <2>5, <3>1, OthersReload, AgreesStill
  <2> QED
    BY <2>4, <2>5
<1>4. CASE LoadCommit(r)
  <2> DEFINE p == req[r].file
  <2>1. p \in Movable /\ p # None /\ req[r].pc \notin ReloadSteps
    BY <1>4 DEF LoadCommit, IInv, Loads, ReloadSteps
  <2>2. /\ registry' = [registry EXCEPT ![NameOf[p]] = p]
        /\ loaded' = [loaded EXCEPT ![NameOf[p]] = Track(p, "loaded")]
        /\ req' = [req EXCEPT ![r] = Idle]
    BY <1>4 DEF LoadCommit
  <2> HIDE DEF p
  <2>3. CASE n = NameOf[p]
    BY <1>1, <2>1, <2>2, <2>3, TypesOfTrack, AgreesStill
  <2>4. CASE n # NameOf[p]
    <3>1. UNCHANGED <<registry[n], loaded[n]>>
      BY <1>1, <2>2, <2>4
    <3>2. Reloading(n) => Reloading(n)'
      BY <2>1, <2>2, OthersReload
    <3> QED
      BY <3>1, <3>2, AgreesStill
  <2> QED
    BY <2>3, <2>4
<1>5. ASSUME NEW m \in Names, Unload(r, m) PROVE AgreeOn(n)'
  <2>1. /\ registry' = [registry EXCEPT ![m] = None] /\ loaded' = [loaded EXCEPT ![m] = None]
        /\ req' = req
    BY <1>5 DEF Unload
  <2>2. CASE m = n
    BY <1>1, <2>1, <2>2, AgreesStill
  <2>3. CASE m # n
    <3>1. UNCHANGED <<registry[n], loaded[n]>>
      BY <1>1, <2>1, <2>3
    <3> QED
      BY <2>1, <3>1, ReloadingUnchanged, AgreesStill
  <2> QED
    BY <2>2, <2>3
<1>6. ASSUME NEW m \in Names, NEW f \in Files \cup Elsewhere, ReloadBegin(r, m, f) PROVE AgreeOn(n)'
  <2> DEFINE x == [pc |-> "open", name |-> m, file |-> f, old |-> loaded[m].plugin]
  <2>1. /\ registry' = [registry EXCEPT ![m] = None] /\ loaded' = loaded
        /\ req' = [req EXCEPT ![r] = x]
    BY <1>6 DEF ReloadBegin
  <2>2. req[r].pc \notin ReloadSteps
    BY <1>6, IdleTyped DEF ReloadBegin, Ask, ReloadSteps
  <2>3. x.pc = "open" /\ x.name = m
    OBVIOUS
  <2> HIDE DEF x
  <2>4. CASE m = n
    <3>1. req'[r] = x
      BY <1>1, <2>1
    <3>2. Reloading(n)'
      BY <3>1, <2>3, <2>4 DEF Reloading
    <3> QED
      BY <1>1, <2>1, <2>4, <3>2 DEF AgreeOn, Registered
  <2>5. CASE m # n
    <3>1. UNCHANGED <<registry[n], loaded[n]>>
      BY <1>1, <2>1, <2>5
    <3>2. Reloading(n) => Reloading(n)'
      BY <2>1, <2>2, OthersReload
    <3> QED
      BY <3>1, <3>2, AgreesStill
  <2> QED
    BY <2>4, <2>5
<1>7. ASSUME NEW p \in Movable, ~Registered(NameOf[p]), RegisterIfFree(p),
             NEW m \in Names, ~Registered(m), req[r].pc \in ReloadSteps, req[r].name = m,
             loaded' = [loaded EXCEPT ![m] = None, ![NameOf[p]] = Track(p, "loaded")],
             req' = [req EXCEPT ![r] = Idle]
      PROVE  AgreeOn(n)'
  <2>1. registry' = [registry EXCEPT ![NameOf[p]] = IF @ = None THEN p ELSE @] /\ p # None
    BY <1>7 DEF RegisterIfFree
  <2>2. NameOf[p] \in Names /\ registry[NameOf[p]] = None /\ registry[m] = None
    BY <1>7 DEF Registered
  <2>3. CASE NameOf[p] = n
    <3>1. registry'[n] = p
      BY <1>1, <2>1, <2>2, <2>3
    <3>2. loaded'[n] = Track(p, "loaded")
      BY <1>1, <1>7, <2>3
    <3> QED
      BY <2>1, <3>1, <3>2, TypesOfTrack, AgreesStill
  <2>4. CASE NameOf[p] # n /\ m = n
    <3>1. registry'[n] = None /\ loaded'[n] = None
      BY <1>1, <1>7, <2>1, <2>2, <2>4
    <3> QED
      BY <3>1, AgreesStill
  <2>5. CASE NameOf[p] # n /\ m # n
    <3>1. UNCHANGED <<registry[n], loaded[n]>>
      BY <1>1, <1>7, <2>1, <2>5
    <3>2. Reloading(n) => Reloading(n)'
      BY <1>7, <2>5, OthersReload
    <3> QED
      BY <3>1, <3>2, AgreesStill
  <2> QED
    BY <2>3, <2>4, <2>5
<1>8. CASE ReloadCommit(r)
  <2>1. CASE \E k \in {req[r].name, NameOf[req[r].file]} : Registered(k)
    BY <1>8, <2>1 DEF Collides
  <2>2. CASE ~Registered(req[r].name) /\ ~Registered(NameOf[req[r].file])
    <3>1. /\ req[r].pc \in ReloadSteps /\ req[r].file \in Movable /\ req[r].name \in Names
          /\ RegisterIfFree(req[r].file) /\ req' = [req EXCEPT ![r] = Idle]
          /\ loaded' = [loaded EXCEPT ![req[r].name] = None,
                                      ![NameOf[req[r].file]] = Track(req[r].file, "loaded")]
      BY <1>8 DEF ReloadCommit, ReloadSteps, IInv, Reloads
    <3> QED
      BY <1>7, <2>2, <3>1
  <2> QED
    BY <2>1, <2>2
<1>9. CASE Rollback(r)
  <2>1. /\ req[r].pc \in ReloadSteps /\ req[r].old \in Movable /\ NameOf[req[r].old] = req[r].name
        /\ RegisterIfFree(req[r].old) /\ req' = [req EXCEPT ![r] = Idle] /\ req[r].name \in Names
        /\ loaded' = [loaded EXCEPT ![req[r].name] = Track(req[r].old, "loaded")]
    BY <1>9 DEF Rollback, ReloadSteps, IInv, Reloads
  <2>2. CASE Registered(req[r].name)
    BY <1>9, <2>2 DEF Collides
  <2>3. CASE ~Registered(req[r].name)
    <3>1. loaded' = [loaded EXCEPT ![req[r].name] = None,
                                   ![NameOf[req[r].old]] = Track(req[r].old, "loaded")]
      BY <1>1, <2>1
    <3> QED
      BY <1>7, <2>1, <2>3, <3>1
  <2> QED
    BY <2>2, <2>3
<1>10. CASE List(r)
  <2>1. /\ registry' = registry /\ req' = req
        /\ loaded'[n] = IF Registered(n) /\ ~Loaded(n) THEN Track(registry[n], "compiled") ELSE loaded[n]
    BY <1>10 DEF List
  <2>2. CASE Registered(n) /\ ~Loaded(n)
    <3>1. /\ Track(registry[n], "compiled") # None
          /\ Track(registry[n], "compiled").plugin = registry[n]
      BY <1>1, <2>2 DEF Registered, Sources, Track
    <3> QED
      BY <2>1, <2>2, <3>1, AgreesStill DEF Registered
  <2>3. CASE ~(Registered(n) /\ ~Loaded(n))
    BY <2>1, <2>3, ReloadingUnchanged, AgreesStill
  <2> QED
    BY <2>2, <2>3
<1> QED
  BY <1>2, <1>3, <1>4, <1>5, <1>6, <1>8, <1>9, <1>10 DEF Request

LEMMA FlushAgrees ==
  ASSUME IInv, NEW g \in Flushers, Flush(g), NEW n \in Names, AgreeOn(n)
  PROVE  AgreeOn(n)'
<1>1. req' = req
  BY DEF Flush, Fire, ScanBegin, ScanNext, ScanOpens, ScanEnds, Clear, ScanCommit, DropGone
<1>2. /\ registry \in [Names -> Plugins \cup {None}] /\ loaded \in [Names -> Tracks \cup {None}]
  BY DEF IInv, TypeOK
<1>3. CASE ScanCommit(g)
  <2> DEFINE p == flush[g].file
  <2>1. p \in Files \cup {None}
    BY DEF IInv, TypeOK
  <2>2. \/ /\ p # None
           /\ registry' = [registry EXCEPT ![NameOf[p]] = p]
           /\ loaded' = [loaded EXCEPT ![NameOf[p]] = Track(p, "loaded")]
        \/ UNCHANGED <<registry, loaded>>
    BY <1>3 DEF ScanCommit
  <2> HIDE DEF p
  <2>3. \/ UNCHANGED <<registry[n], loaded[n]>>
        \/ registry'[n] # None /\ loaded'[n] # None /\ loaded'[n].plugin = registry'[n]
    BY <1>2, <2>1, <2>2, Nothing, TypesOfTrack
  <2> QED
    BY <1>1, <2>3, ReloadingUnchanged, AgreesStill
<1>4. CASE DropGone(g)
  BY <1>1, <1>4, ReloadingUnchanged, AgreesStill DEF DropGone
<1>5. CASE UNCHANGED manager
  BY <1>1, <1>5, ReloadingUnchanged, AgreesStill DEF manager
<1>6. Flush(g) => ScanCommit(g) \/ DropGone(g) \/ UNCHANGED manager
  BY DEF Flush, Fire, ScanBegin, ScanNext, ScanOpens, ScanEnds, Clear
<1> QED
  BY <1>3, <1>4, <1>5, <1>6

(* The registry and the list of the administrator hold the same plugin     *)
(* under each name once the manager has started, but for those a reload    *)
(* has in hand, until a reload ends whose name has been registered again.  *)
THEOREM RegistryMatchesList == Spec => SamePlugins
<1>1. ASSUME IInv, Next, Agree \/ Start
      PROVE  Agree' \/ \E r \in Requests : Collides(r)
  <2>1. ASSUME Start, NEW n \in Names PROVE AgreeOn(n)'
    <3>1. loaded'[n] = IF registry'[n] = None THEN None
                       ELSE Track(registry'[n], IF Registered(n) THEN "compiled" ELSE "loaded")
      BY <2>1 DEF Start
    <3>2. registry'[n] \in Plugins \cup {None}
      BY <1>1, <2>1, StartKeeps DEF IInv, TypeOK
    <3>3. \A x \in Plugins, y \in Sources : Track(x, y) # None /\ Track(x, y).plugin = x
      BY Nothing DEF Track
    <3>4. registry'[n] # None => loaded'[n] # None /\ loaded'[n].plugin = registry'[n]
      BY <3>1, <3>2, <3>3 DEF Sources
    <3> QED
      BY <3>1, <3>4 DEF AgreeOn, Registered, Loaded
  <2>2. ASSUME Stop, NEW n \in Names, AgreeOn(n) PROVE AgreeOn(n)'
    <3>1. req' = req /\ \/ UNCHANGED <<registry[n], loaded[n]>>
                        \/ registry'[n] = None /\ loaded'[n] = None
      BY <2>2 DEF Stop
    <3> QED
      BY <2>2, <3>1, ReloadingUnchanged, AgreesStill
  <2>3. ASSUME Change \/ ReadEvent \/ LoopEnds, NEW n \in Names, AgreeOn(n) PROVE AgreeOn(n)'
    <3>1. UNCHANGED <<registry, loaded, req>>
      BY <2>3 DEF Change, ReadEvent, LoopEnds, manager
    <3> QED
      BY <2>3, <3>1, ReloadingUnchanged, AgreesStill
  <2>4. Agree => \A n \in Names : AgreeOn(n)
    BY Zenon DEF Agree, AgreeOn
  <2>5. (\A n \in Names : AgreeOn(n)') => Agree'
    BY Zenon DEF Agree, AgreeOn
  <2>6. CASE Start
    BY <2>1, <2>5, <2>6
  <2>7. ASSUME Agree, Stop \/ Change \/ ReadEvent \/ LoopEnds PROVE Agree'
    BY <2>2, <2>3, <2>4, <2>5, <2>7
  <2>8. ASSUME Agree, NEW r \in Requests, Request(r) PROVE Agree' \/ Collides(r)
    BY <1>1, <2>4, <2>5, <2>8, RequestAgrees
  <2>9. ASSUME Agree, NEW g \in Flushers, Flush(g) PROVE Agree'
    BY <1>1, <2>4, <2>5, <2>9, FlushAgrees
  <2> QED
    BY <1>1, <2>6, <2>7, <2>8, <2>9 DEF Next
<1>2. IInv /\ [Next]_vars => [Agree \/ Start => Agree' \/ \E r \in Requests : Collides(r)]_vars
  BY <1>1
<1> QED
  BY <1>2, Inductive, PTL DEF Spec, SamePlugins
=============================================================================
