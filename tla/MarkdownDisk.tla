---------------------------- MODULE MarkdownDisk ----------------------------
(***************************************************************************)
(* The disk tier of the markdown cache (internal/build/markdown_disk.go):  *)
(* a directory of records shared by several processes over time. The one   *)
(* that holds the directory's lease writes, within a budget of bytes; it   *)
(* may crash at any step. What happens under d.mu is split at each file it *)
(* removes, what happens outside at each call to the file system. Any of   *)
(* these calls may fail. The size of a file is what it is charged, the     *)
(* order of modification times when a directory is scanned is any order.   *)
(***************************************************************************)
EXTENDS Integers, Sequences, Functions

CONSTANTS
    Instances,     \* caches opened over the directory
    Workers,       \* goroutines of the writer that render pages
    Keys,          \* names of records
    Temps,         \* names CreateTemp can give
    Cost,          \* markdownDiskCost of the record of each key
    Budget,        \* maxBytes of each instance
    None

ASSUME MarkdownDiskAssumption ==
    /\ Cost \in [Keys -> Nat \ {0}]
    /\ Budget \in [Instances -> Nat]
    /\ Keys \cap Temps = {} /\ None \notin Keys \cup Temps
    /\ None \notin Instances /\ None \notin Workers

VARIABLES
    disk,          \* files in the directory
    whole,         \* those that are completely written
    writer,        \* instance that holds the lease
    phase,         \* of the writer: initialize scans and prunes, then it is open
    records,       \* d.records
    oldest,        \* d.oldest
    charge,        \* cost of each record
    used, reserved, inflight,
    mu,            \* worker that holds d.mu in reserve
    at,            \* where each worker is in store
    key, tmp,      \* what it stores, and its temporary file
    retained       \* file it leaves behind

files == <<disk, whole>>
lease == <<writer, phase>>
index == <<records, oldest, charge, used>>
reservations == <<reserved, inflight>>
worker == <<mu, at, key, tmp, retained>>
vars == <<files, lease, index, reservations, worker>>

Names == Keys \cup Temps
Steps == {"idle", "room", "create", "write", "publish", "cleanup", "finish"}

TypeOK ==
    /\ disk \subseteq Names /\ whole \subseteq disk
    /\ writer \in Instances \cup {None}
    /\ phase \in {"none", "scan", "prune", "open"}
    /\ (writer = None) = (phase = "none")
    /\ records \subseteq Names
    /\ oldest \in Seq(Names)
    /\ charge \in [Names -> Nat]
    /\ used \in Int /\ reserved \in Int
    /\ inflight \subseteq Keys
    /\ mu \in Workers \cup {None}
    /\ at \in [Workers -> Steps]
    /\ key \in [Workers -> Keys \cup {None}]
    /\ tmp \in [Workers -> Temps \cup {None}]
    /\ retained \in [Workers -> Names \cup {None}]

NoCharge == [n \in Names |-> 0]
Nobody == [w \in Workers |-> None]
AllIdle == [w \in Workers |-> "idle"]

Init ==
    /\ disk \in SUBSET Keys /\ whole = disk
    /\ writer = None /\ phase = "none"
    /\ records = {} /\ oldest = <<>> /\ charge = NoCharge /\ used = 0
    /\ reserved = 0 /\ inflight = {} /\ mu = None
    /\ at = AllIdle /\ key = Nobody /\ tmp = Nobody /\ retained = Nobody

-----------------------------------------------------------------------------
(* Accounting, under d.mu. *)

addRecord(name, cost) ==
    /\ records' = records \cup {name}
    /\ oldest' = Append(oldest, name)
    /\ charge' = [charge EXCEPT ![name] = cost]
    /\ used' = used + cost

(* Without the i-th element. *)
Dropped(s, i) == [j \in 1..Len(s) - 1 |-> IF j < i THEN s[j] ELSE s[j + 1]]

(* Variant for the checks: the charge stays. *)
removeRecordCharged(i) ==
    /\ disk' = disk \ {oldest[i]}
    /\ whole' = whole \ {oldest[i]}
    /\ records' = records \ {oldest[i]}
    /\ oldest' = Dropped(oldest, i)
    /\ UNCHANGED <<charge, used>>

(* The i-th oldest record is unlinked and forgotten. *)
removeRecord(i) ==
    /\ disk' = disk \ {oldest[i]}
    /\ whole' = whole \ {oldest[i]}
    /\ used' = used - charge[oldest[i]]
    /\ records' = records \ {oldest[i]}
    /\ oldest' = Dropped(oldest, i)
    /\ charge' = [charge EXCEPT ![oldest[i]] = 0]

Over(cost) == used + reserved > Budget[writer] - cost

-----------------------------------------------------------------------------
(* The lease and initialize. *)

Locked(p) ==
    /\ writer = None
    /\ writer' = p /\ phase' = "scan"
    /\ UNCHANGED <<files, index, reservations, worker>>

(* Temporary files an earlier process left are removed, records charged.   *)
Scan ==
    /\ phase = "scan"
    /\ \/ \E n \in disk \cap Temps :
             /\ disk' = disk \ {n} /\ whole' = whole \ {n}
             /\ UNCHANGED <<phase, index>>
       \/ \E n \in (disk \cap Keys) \ records :
             /\ addRecord(n, Cost[n])
             /\ UNCHANGED <<files, phase>>
       \/ /\ disk \subseteq records
          /\ phase' = "prune"
          /\ UNCHANGED <<files, index>>
    /\ UNCHANGED <<writer, reservations, worker>>

(* "Recover over-budget directories". *)
Prune ==
    /\ phase = "prune"
    /\ \/ used > Budget[writer] /\ oldest # <<>> /\ removeRecord(1) /\ UNCHANGED phase
       \/ used <= Budget[writer] /\ phase' = "open" /\ UNCHANGED <<files, index>>
    /\ UNCHANGED <<writer, reservations, worker>>

(* The process exits, or closes the cache and what it had in memory goes. *)
Exit ==
    /\ writer' = None /\ phase' = "none"
    /\ records' = {} /\ oldest' = <<>> /\ charge' = NoCharge /\ used' = 0
    /\ reserved' = 0 /\ inflight' = {} /\ mu' = None
    /\ at' = AllIdle /\ key' = Nobody /\ tmp' = Nobody /\ retained' = Nobody
    /\ UNCHANGED files

(* At any step; also an initialize that fails to remove a file. *)
Crash == writer # None /\ Exit

(* "Call Close after all builds have stopped." *)
Close == phase = "open" /\ (\A w \in Workers : at[w] = "idle") /\ Exit

-----------------------------------------------------------------------------
(* store. *)

Goto(w, step) == at' = [at EXCEPT ![w] = step]

(* reserve takes d.mu and removes a prior copy; it gives up, changing      *)
(* nothing, when that fails, when the record is being written or too big.  *)
Reserve(w, k) ==
    /\ phase = "open" /\ mu = None /\ at[w] = "idle"
    /\ k \notin inflight /\ Cost[k] <= Budget[writer]
    /\ \/ k \notin records /\ UNCHANGED <<files, index>>
       \/ \E i \in DOMAIN oldest : oldest[i] = k /\ removeRecord(i)
    /\ mu' = w /\ key' = [key EXCEPT ![w] = k] /\ Goto(w, "room")
    /\ UNCHANGED <<lease, reservations, tmp, retained>>

MakeRoom(w) ==
    /\ at[w] = "room" /\ Over(Cost[key[w]]) /\ oldest # <<>>
    /\ removeRecord(1)
    /\ UNCHANGED <<lease, reservations, worker>>

(* A record cannot be removed, or nothing is left to remove. *)
NoRoom(w) ==
    /\ at[w] = "room" /\ Over(Cost[key[w]])
    /\ mu' = None /\ Goto(w, "idle") /\ key' = [key EXCEPT ![w] = None]
    /\ UNCHANGED <<files, lease, index, reservations, tmp, retained>>

Granted(w) ==
    /\ at[w] = "room" /\ ~Over(Cost[key[w]])
    /\ inflight' = inflight \cup {key[w]}
    /\ reserved' = reserved + Cost[key[w]]
    /\ mu' = None /\ Goto(w, "create")
    /\ UNCHANGED <<files, lease, index, key, tmp, retained>>

CreateTemp(w) ==
    /\ at[w] = "create"
    /\ \/ \E t \in Temps \ disk :
             /\ disk' = disk \cup {t}
             /\ tmp' = [tmp EXCEPT ![w] = t]
             /\ Goto(w, "write")
       \/ Goto(w, "finish") /\ UNCHANGED <<disk, tmp>>
    /\ UNCHANGED <<whole, lease, index, reservations, mu, key, retained>>

(* Write and Close. *)
Write(w) ==
    /\ at[w] = "write"
    /\ \/ whole' = whole \cup {tmp[w]} /\ Goto(w, "publish")
       \/ UNCHANGED whole /\ Goto(w, "cleanup")
    /\ UNCHANGED <<disk, lease, index, reservations, mu, key, tmp, retained>>

Rename(w) ==
    /\ at[w] = "publish"
    /\ \/ /\ disk' = (disk \ {tmp[w]}) \cup {key[w]}
          /\ whole' = IF tmp[w] \in whole THEN (whole \ {tmp[w]}) \cup {key[w]}
                      ELSE whole \ {tmp[w], key[w]}
          /\ retained' = [retained EXCEPT ![w] = key[w]]
          /\ tmp' = [tmp EXCEPT ![w] = None]
          /\ Goto(w, "finish")
       \/ Goto(w, "cleanup") /\ UNCHANGED <<files, tmp, retained>>
    /\ UNCHANGED <<lease, index, reservations, mu, key>>

(* Variant for the checks: a file that cannot be removed is forgotten. *)
CleanupForgetting(w) ==
    /\ at[w] = "cleanup"
    /\ \/ disk' = disk \ {tmp[w]} /\ whole' = whole \ {tmp[w]}
       \/ UNCHANGED files
    /\ tmp' = [tmp EXCEPT ![w] = None]
    /\ Goto(w, "finish")
    /\ UNCHANGED <<lease, index, reservations, mu, key, retained>>

(* "Keep a failed cleanup charged and eligible for later eviction." *)
Cleanup(w) ==
    /\ at[w] = "cleanup"
    /\ \/ disk' = disk \ {tmp[w]} /\ whole' = whole \ {tmp[w]} /\ UNCHANGED retained
       \/ retained' = [retained EXCEPT ![w] = tmp[w]] /\ UNCHANGED files
    /\ tmp' = [tmp EXCEPT ![w] = None]
    /\ Goto(w, "finish")
    /\ UNCHANGED <<lease, index, reservations, mu, key>>

Finish(w) ==
    /\ at[w] = "finish" /\ mu = None
    /\ inflight' = inflight \ {key[w]}
    /\ reserved' = reserved - Cost[key[w]]
    /\ IF retained[w] # None THEN addRecord(retained[w], Cost[key[w]]) ELSE UNCHANGED index
    /\ Goto(w, "idle")
    /\ key' = [key EXCEPT ![w] = None]
    /\ retained' = [retained EXCEPT ![w] = None]
    /\ UNCHANGED <<files, lease, mu, tmp>>

Store(w) ==
    \/ \E k \in Keys : Reserve(w, k)
    \/ MakeRoom(w) \/ NoRoom(w) \/ Granted(w)
    \/ CreateTemp(w) \/ Write(w) \/ Rename(w) \/ Cleanup(w) \/ Finish(w)

Next ==
    \/ \E p \in Instances : Locked(p)
    \/ Scan \/ Prune \/ Crash \/ Close
    \/ \E w \in Workers : Store(w)

Spec == Init /\ [][Next]_vars

-----------------------------------------------------------------------------
(* Properties. *)

(* What the writer counts never exceeds its budget, reservations included: *)
(* PruneDisk, makeRoom(0), finds nothing to remove.                        *)
Budgeted == phase = "open" => used + reserved <= Budget[writer]

(* The list and the map of records agree, and no record is listed twice:   *)
(* otherwise one would stay charged for ever.                              *)
IndexAgrees ==
    /\ {oldest[i] : i \in DOMAIN oldest} = records
    /\ \A i, j \in DOMAIN oldest : oldest[i] = oldest[j] => i = j

(* Files the workers have in hand. *)
InHand == {tmp[w] : w \in Workers} \cup {retained[w] : w \in Workers}

(* No file escapes the accounts, whatever failed and whoever crashed: each *)
(* is in the index or in the hand of a worker with a reservation, and all  *)
(* of those are on the disk.                                               *)
EveryFileCharged ==
    phase = "open" => disk \cup {None} = records \cup InHand \cup {None}

(* The counters are what they count: no failure leaves a reservation or a  *)
(* charge behind that would shrink the cache for good.                     *)
AccountsMatch ==
    /\ used = SumFunctionOnSet(charge, records)
    /\ reserved = SumFunctionOnSet(Cost, inflight)

(* The directory itself stays within the budget of its writer.             *)
Bytes(n) ==
    IF n \in Keys THEN Cost[n]
    ELSE IF n \in records THEN charge[n]
    ELSE LET w == CHOOSE v \in Workers : n \in {tmp[v], retained[v]} IN Cost[key[w]]

WithinBudget ==
    phase = "open" =>
        SumFunctionOnSet([n \in disk |-> Bytes(n)], disk) <= Budget[writer]

(* The accounts add up: the counters count, and what they count keeps the  *)
(* directory within its budget, whatever has failed and whoever crashed.   *)
AccountsAddUp == AccountsMatch /\ WithinBudget

(* "Readers can miss an evicted/replaced record but never observe a        *)
(* partially written one."                                                 *)
PublishedWhole == disk \cap Keys \subseteq whole
=============================================================================
