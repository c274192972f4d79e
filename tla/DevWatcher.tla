----------------------------- MODULE DevWatcher -----------------------------
(***************************************************************************)
(* The debouncing file watcher of `huan dev` (internal/dev/watcher.go). A  *)
(* timer is known by the generation it was armed with. Its goroutine may   *)
(* have started when Stop is called on it, so that it takes w.mu late.     *)
(* Each step is one critical section of w.mu.                              *)
(***************************************************************************)
EXTENDS Naturals

CONSTANTS
    Watched,      \* paths the file system reports
    MaxEvents     \* bound: events reported in a behaviour

ASSUME DevWatcherAssumption == MaxEvents \in Nat

Generations == 1..MaxEvents

VARIABLES
    reported,     \* w.pending (and w.seen)
    generation,   \* w.generation
    armed,        \* generation of w.timer while it has not fired, else 0
    fired,        \* generations whose timer goroutine waits for w.mu
    delivered,    \* paths each callback goroutine was started with
    callbacks,    \* generations whose callback runs: w.callbacks
    cancelled,    \* the context is cancelled
    run           \* Run: "loop", "stopped" (waits for callbacks), "returned"

watcherVars == <<reported, generation, armed, fired, delivered, callbacks, cancelled, run>>

stopped == run # "loop"

WatcherTypeOK ==
    /\ reported \subseteq Watched
    /\ generation \in 0..MaxEvents
    /\ armed \in 0..MaxEvents
    /\ fired \subseteq Generations
    /\ delivered \in [Generations -> SUBSET Watched]
    /\ callbacks \subseteq Generations
    /\ cancelled \in BOOLEAN
    /\ run \in {"loop", "stopped", "returned"}

WatcherInit ==
    /\ reported = {} /\ generation = 0 /\ armed = 0
    /\ fired = {} /\ callbacks = {}
    /\ delivered = [g \in Generations |-> {}]
    /\ cancelled = FALSE /\ run = "loop"

-----------------------------------------------------------------------------
(* An event of the file system: schedule replaces the timer. *)
Schedule(p) ==
    /\ ~stopped
    /\ generation < MaxEvents
    /\ reported' = reported \cup {p}
    /\ generation' = generation + 1
    /\ armed' = generation'
    /\ UNCHANGED <<fired, delivered, callbacks, cancelled, run>>

TimerFires ==
    /\ armed # 0
    /\ fired' = fired \cup {armed}
    /\ armed' = 0
    /\ UNCHANGED <<reported, generation, delivered, callbacks, cancelled, run>>

(* Variant for the checks: a timer does not look at the end of Run. *)
OverruledByNewer(g) == g # generation

(* A newer timer, the end of Run or a cancelled context overrule a timer   *)
(* that has fired.                                                         *)
Overruled(g) == stopped \/ g # generation \/ cancelled

GiveUp(g) ==
    /\ g \in fired /\ Overruled(g)
    /\ fired' = fired \ {g}
    /\ UNCHANGED <<reported, generation, armed, delivered, callbacks, cancelled, run>>

(* Variant for the checks: the batch is kept for the next timer. *)
StartCallbackKeepingBatch(g) ==
    /\ g \in fired /\ ~Overruled(g)
    /\ fired' = fired \ {g}
    /\ delivered' = [delivered EXCEPT ![g] = reported]
    /\ callbacks' = callbacks \cup {g}
    /\ UNCHANGED <<reported, generation, armed, cancelled, run>>

StartCallback(g) ==
    /\ g \in fired /\ ~Overruled(g)
    /\ fired' = fired \ {g}
    /\ delivered' = [delivered EXCEPT ![g] = reported]
    /\ reported' = {}
    /\ callbacks' = callbacks \cup {g}
    /\ UNCHANGED <<generation, armed, cancelled, run>>

(* OnChanges has returned. *)
EndCallback(g) ==
    /\ g \in callbacks
    /\ callbacks' = callbacks \ {g}
    /\ UNCHANGED <<reported, generation, armed, fired, delivered, cancelled, run>>

CancelContext ==
    /\ ~cancelled
    /\ cancelled' = TRUE
    /\ UNCHANGED <<reported, generation, armed, fired, delivered, callbacks, run>>

(* Run sees the cancelled context; its deferred function stops the timer. *)
Stop ==
    /\ run = "loop" /\ cancelled
    /\ run' = "stopped"
    /\ armed' = 0
    /\ reported' = {}
    /\ UNCHANGED <<generation, fired, delivered, callbacks, cancelled>>

(* w.callbacks.Wait() *)
RunReturns ==
    /\ run = "stopped" /\ callbacks = {}
    /\ run' = "returned"
    /\ UNCHANGED <<reported, generation, armed, fired, delivered, callbacks, cancelled>>

Timer(g) == GiveUp(g) \/ StartCallback(g)

WatcherNext ==
    \/ \E p \in Watched : Schedule(p)
    \/ TimerFires
    \/ \E g \in Generations : Timer(g) \/ EndCallback(g)
    \/ CancelContext \/ Stop \/ RunReturns

WatcherSpec == WatcherInit /\ [][WatcherNext]_watcherVars

(* Timers fire, goroutines run, callbacks return; no file has to change.   *)
WatcherFairness ==
    /\ WF_watcherVars(TimerFires) /\ WF_watcherVars(Stop) /\ WF_watcherVars(RunReturns)
    /\ \A g \in Generations : WF_watcherVars(Timer(g)) /\ WF_watcherVars(EndCallback(g))

FairWatcherSpec == WatcherSpec /\ WatcherFairness

-----------------------------------------------------------------------------
(* Properties. *)

(* Once Run has returned no callback runs and none can start: its caller   *)
(* may take down what the callbacks use.                                   *)
NoCallbackAfterReturn ==
    [][run = "returned" => callbacks' = {} /\ delivered' = delivered]_watcherVars

(* A reported path leaves the watcher with a callback or not at all, until *)
(* Run ends, and goes out with one callback only.                          *)
DeliveredOnce ==
    [][/\ \A p \in reported \ reported' :
              run' # "loop" \/ \E g \in callbacks' \ callbacks : p \in delivered'[g]
       /\ callbacks' \subseteq callbacks \/ reported' = {}]_watcherVars

(* A reported path is delivered once events pause, or the watcher ends.    *)
ReportedSomeTime == \A p \in Watched : p \in reported ~> p \notin reported \/ cancelled
=============================================================================
