------------------------- MODULE MarkdownDisk_proofs -------------------------
(***************************************************************************)
(* Proofs about the disk tier of the markdown cache, for any number of     *)
(* instances, workers and keys, any costs and any budgets. The last part   *)
(* is about sums: the counters of the index against what they count.       *)
(***************************************************************************)
EXTENDS MarkdownDisk, FiniteSetTheorems, WellFoundedInduction, TLAPS

(* Before the cache is open no worker stores anything. *)
Quiet ==
    phase # "open" =>
        /\ mu = None /\ reserved = 0 /\ inflight = {}
        /\ \A w \in Workers : at[w] = "idle" /\ tmp[w] = None /\ retained[w] = None

(* From the reservation to the end of store. *)
Storing == {"create", "write", "publish", "cleanup", "finish"}

(* What a worker has in hand at each step. *)
Hands ==
    \A w \in Workers :
        /\ at[w] # "idle" => key[w] \in Keys /\ key[w] \notin records
        /\ mu = w <=> at[w] = "room"
        /\ at[w] = "room" => key[w] \notin inflight
        /\ at[w] \in Storing => key[w] \in inflight
        /\ tmp[w] # None <=> at[w] \in {"write", "publish", "cleanup"}
        /\ at[w] = "publish" => tmp[w] \in whole
        /\ tmp[w] \notin records
        /\ retained[w] # None => at[w] = "finish"
        /\ retained[w] \notin records
        /\ retained[w] \in Keys => retained[w] = key[w]

(* No two workers have the same file or the same key in hand. *)
Apart ==
    \A w, v \in Workers : w # v =>
        /\ at[w] \in Storing /\ at[v] \in Storing => key[w] # key[v]
        /\ tmp[w] # None => tmp[w] # tmp[v] /\ tmp[w] # retained[v]
        /\ retained[w] # None => retained[w] # retained[v]

(* What the index knows of the directory in each phase. *)
Known ==
    /\ phase = "none" => records = {}
    /\ phase = "scan" => records \subseteq disk \cap Keys
    /\ phase = "prune" => disk = records
    /\ EveryFileCharged

Inv ==
    /\ TypeOK /\ Budgeted /\ IndexAgrees /\ PublishedWhole
    /\ Quiet /\ Hands /\ Apart /\ Known

-----------------------------------------------------------------------------
(* Dropping an element of a sequence without repetitions. *)
LEMMA DroppedLemma ==
    ASSUME NEW S, NEW s \in Seq(S), NEW i \in DOMAIN s,
           \A j, k \in DOMAIN s : s[j] = s[k] => j = k
    PROVE  /\ Dropped(s, i) \in Seq(S)
           /\ {Dropped(s, i)[j] : j \in DOMAIN Dropped(s, i)}
                  = {s[j] : j \in DOMAIN s} \ {s[i]}
           /\ \A j, k \in DOMAIN Dropped(s, i) :
                  Dropped(s, i)[j] = Dropped(s, i)[k] => j = k
<1> DEFINE d == Dropped(s, i)
<1>1. Len(s) \in Nat /\ DOMAIN s = 1..Len(s) /\ i \in 1..Len(s)
  OBVIOUS
<1>2. d = [j \in 1..Len(s) - 1 |-> IF j < i THEN s[j] ELSE s[j + 1]]
  BY DEF Dropped
<1>3. d \in Seq(S)
  <2>1. d \in [1..Len(s) - 1 -> S]
    BY <1>1, <1>2
  <2>2. Len(s) - 1 \in Nat
    BY <1>1
  <2> QED
    BY <2>1, <2>2, SMT
<1>4. DOMAIN d = 1..Len(s) - 1
  BY <1>2
<1>5. ASSUME NEW j \in DOMAIN d PROVE d[j] \in {s[k] : k \in DOMAIN s} \ {s[i]}
  BY <1>1, <1>2, <1>4, <1>5
<1>6. ASSUME NEW j \in DOMAIN s, j # i PROVE \E k \in DOMAIN d : d[k] = s[j]
  <2>1. CASE j < i
    <3>1. j \in DOMAIN d
      BY <1>1, <1>4, <2>1
    <3> QED
      BY <1>2, <1>4, <2>1, <3>1
  <2>2. CASE j > i
    <3>1. j - 1 \in DOMAIN d /\ ~(j - 1 < i) /\ (j - 1) + 1 = j
      BY <1>1, <1>4, <2>2
    <3> QED
      BY <1>2, <1>4, <3>1
  <2> QED
    BY <1>1, <1>6, <2>1, <2>2
<1>7. ASSUME NEW j \in DOMAIN d, NEW k \in DOMAIN d, d[j] = d[k] PROVE j = k
  BY <1>1, <1>2, <1>4, <1>7
<1>8. {d[j] : j \in DOMAIN d} = {s[j] : j \in DOMAIN s} \ {s[i]}
  BY <1>5, <1>6
<1> QED
  BY <1>3, <1>7, <1>8

(* Appending a new element to one. *)
LEMMA AppendLemma ==
    ASSUME NEW S, NEW s \in Seq(S), NEW e \in S,
           e \notin {s[j] : j \in DOMAIN s},
           \A j, k \in DOMAIN s : s[j] = s[k] => j = k
    PROVE  /\ Append(s, e) \in Seq(S)
           /\ {Append(s, e)[j] : j \in DOMAIN Append(s, e)}
                  = {s[j] : j \in DOMAIN s} \cup {e}
           /\ \A j, k \in DOMAIN Append(s, e) :
                  Append(s, e)[j] = Append(s, e)[k] => j = k
<1> DEFINE a == Append(s, e)
<1>1. /\ a \in Seq(S) /\ Len(s) \in Nat /\ DOMAIN s = 1..Len(s)
      /\ DOMAIN a = 1..Len(s) + 1 /\ a[Len(s) + 1] = e
      /\ \A j \in 1..Len(s) : a[j] = s[j]
  OBVIOUS
<1>2. \A j \in DOMAIN a : j \in DOMAIN s \/ j = Len(s) + 1
  BY <1>1
<1>3. \A j \in DOMAIN s : j \in DOMAIN a /\ j # Len(s) + 1
  BY <1>1
<1>4. {a[j] : j \in DOMAIN a} = {s[j] : j \in DOMAIN s} \cup {e}
  <2>1. Len(s) + 1 \in DOMAIN a
    BY <1>1
  <2> HIDE DEF a
  <2> QED
    BY <1>1, <1>2, <1>3, <2>1
<1>5. ASSUME NEW j \in DOMAIN a, NEW k \in DOMAIN a, a[j] = a[k] PROVE j = k
  <2> HIDE DEF a
  <2> QED
    BY <1>1, <1>2, <1>3, <1>5
<1> QED
  BY <1>1, <1>4, <1>5

(* What unlinking a record does to the index and to the directory. *)
LEMMA RemoveLemma ==
    ASSUME TypeOK, IndexAgrees, NEW i \in DOMAIN oldest, removeRecord(i)
    PROVE  /\ oldest[i] \in records /\ oldest[i] \in Names
           /\ disk' = disk \ {oldest[i]} /\ whole' = whole \ {oldest[i]}
           /\ records' = records \ {oldest[i]}
           /\ oldest' \in Seq(Names) /\ charge' \in [Names -> Nat]
           /\ used' \in Int /\ used' <= used
           /\ IndexAgrees'
<1>1. oldest \in Seq(Names) /\ oldest[i] \in records /\ oldest[i] \in Names
  BY DEF TypeOK, IndexAgrees
<1>2. oldest' = Dropped(oldest, i)
  BY DEF removeRecord
<1>3. \A j, k \in DOMAIN oldest : oldest[j] = oldest[k] => j = k
  BY DEF IndexAgrees
<1>4. /\ oldest' \in Seq(Names)
      /\ {oldest'[j] : j \in DOMAIN oldest'} = {oldest[j] : j \in DOMAIN oldest} \ {oldest[i]}
      /\ \A j, k \in DOMAIN oldest' : oldest'[j] = oldest'[k] => j = k
  <2>1. /\ Dropped(oldest, i) \in Seq(Names)
        /\ {Dropped(oldest, i)[j] : j \in DOMAIN Dropped(oldest, i)}
               = {oldest[j] : j \in DOMAIN oldest} \ {oldest[i]}
        /\ \A j, k \in DOMAIN Dropped(oldest, i) :
               Dropped(oldest, i)[j] = Dropped(oldest, i)[k] => j = k
    BY <1>1, <1>3, DroppedLemma
  <2> QED
    BY <1>2, <2>1
<1>5. charge' \in [Names -> Nat] /\ used' \in Int /\ used' <= used
  <2>1. charge \in [Names -> Nat] /\ used \in Int /\ charge[oldest[i]] \in Nat
    BY <1>1 DEF TypeOK
  <2>2. used' = used - charge[oldest[i]] /\ charge' = [charge EXCEPT ![oldest[i]] = 0]
    BY DEF removeRecord
  <2>3. charge' \in [Names -> Nat]
    BY <2>1, <2>2
  <2>4. \A u \in Int, c \in Nat : u - c \in Int /\ u - c <= u
    OBVIOUS
  <2> QED
    BY <2>1, <2>2, <2>3, <2>4
<1>6. IndexAgrees'
  BY <1>1, <1>4 DEF removeRecord, IndexAgrees
<1> QED
  BY <1>1, <1>4, <1>5, <1>6 DEF removeRecord

(* What charging a new record does to the index. *)
LEMMA AddLemma ==
    ASSUME TypeOK, IndexAgrees, NEW n \in Names \ records, NEW c \in Nat, addRecord(n, c)
    PROVE  /\ records' = records \cup {n}
           /\ oldest' \in Seq(Names) /\ charge' \in [Names -> Nat]
           /\ used' = used + c /\ used' \in Int
           /\ IndexAgrees'
<1>1. oldest \in Seq(Names) /\ charge \in [Names -> Nat] /\ used \in Int
  BY DEF TypeOK
<1>2. /\ n \in Names /\ n \notin {oldest[j] : j \in DOMAIN oldest}
      /\ \A j, k \in DOMAIN oldest : oldest[j] = oldest[k] => j = k
  BY DEF IndexAgrees
<1>3. /\ Append(oldest, n) \in Seq(Names)
      /\ {Append(oldest, n)[j] : j \in DOMAIN Append(oldest, n)}
             = {oldest[j] : j \in DOMAIN oldest} \cup {n}
      /\ \A j, k \in DOMAIN Append(oldest, n) :
             Append(oldest, n)[j] = Append(oldest, n)[k] => j = k
  BY <1>1, <1>2, AppendLemma
<1>4. oldest' = Append(oldest, n) /\ records' = records \cup {n}
      /\ charge' = [charge EXCEPT ![n] = c] /\ used' = used + c
  BY DEF addRecord
<1>5. charge' \in [Names -> Nat] /\ used' \in Int
  BY <1>1, <1>2, <1>4
<1>6. IndexAgrees'
  BY <1>3, <1>4 DEF IndexAgrees
<1> QED
  BY <1>3, <1>4, <1>5, <1>6

-----------------------------------------------------------------------------
(* Each action preserves the invariant. *)

LEMMA ExitStep == Inv /\ Exit => Inv'
<1> SUFFICES ASSUME Inv, Exit PROVE Inv'
  OBVIOUS
<1> USE DEF Exit, NoCharge, Nobody, AllIdle
<1>1. TypeOK' /\ Budgeted'
  BY DEF Inv, TypeOK, Budgeted, files, Steps
<1>2. IndexAgrees'
  BY DEF IndexAgrees
<1>3. PublishedWhole' /\ Quiet'
  BY DEF Inv, PublishedWhole, Quiet, files
<1>4. Hands' /\ Apart'
  BY MarkdownDiskAssumption DEF Hands, Apart, Storing
<1>5. Known'
  BY DEF Known, EveryFileCharged
<1> QED
  BY <1>1, <1>2, <1>3, <1>4, <1>5 DEF Inv

LEMMA LockedStep == \A p \in Instances : Inv /\ Locked(p) => Inv'
<1> SUFFICES ASSUME NEW p \in Instances, Inv, Locked(p) PROVE Inv'
  OBVIOUS
<1> USE DEF Locked, files, index, reservations, worker
<1>1. TypeOK' /\ Budgeted'
  BY MarkdownDiskAssumption DEF Inv, TypeOK, Budgeted
<1>2. IndexAgrees' /\ PublishedWhole' /\ Quiet' /\ Hands' /\ Apart'
  BY DEF Inv, TypeOK, IndexAgrees, PublishedWhole, Quiet, Hands, Apart
<1>3. Known'
  BY DEF Inv, TypeOK, Known, EveryFileCharged
<1> QED
  BY <1>1, <1>2, <1>3 DEF Inv

LEMMA ScanStep == Inv /\ Scan => Inv'
<1> SUFFICES ASSUME Inv, Scan PROVE Inv'
  OBVIOUS
<1>1. CASE \E n \in disk \cap Temps : /\ disk' = disk \ {n} /\ whole' = whole \ {n}
                                      /\ UNCHANGED <<phase, index>>
  <2> PICK n \in disk \cap Temps : /\ disk' = disk \ {n} /\ whole' = whole \ {n}
                                   /\ UNCHANGED <<phase, index>>
    BY <1>1
  <2> USE DEF index, reservations, worker
  <2>1. TypeOK' /\ Budgeted' /\ IndexAgrees' /\ PublishedWhole' /\ Quiet'
    BY DEF Scan, Inv, TypeOK, Budgeted, IndexAgrees, PublishedWhole, Quiet
  <2>2. Hands' /\ Apart'
    BY DEF Scan, Inv, Hands, Apart, Quiet, Storing
  <2>3. Known'
    BY MarkdownDiskAssumption DEF Scan, Inv, Known, EveryFileCharged
  <2> QED
    BY <2>1, <2>2, <2>3 DEF Inv
<1>2. CASE \E n \in (disk \cap Keys) \ records :
              addRecord(n, Cost[n]) /\ UNCHANGED <<files, phase>>
  <2> PICK n \in (disk \cap Keys) \ records :
              addRecord(n, Cost[n]) /\ UNCHANGED <<files, phase>>
    BY <1>2
  <2> USE DEF files, reservations, worker
  <2>1. n \in Names \ records /\ Cost[n] \in Nat
    BY MarkdownDiskAssumption DEF Names
  <2>2. /\ records' = records \cup {n} /\ oldest' \in Seq(Names)
        /\ charge' \in [Names -> Nat] /\ used' \in Int /\ IndexAgrees'
    BY <2>1, AddLemma DEF Inv
  <2>3. TypeOK' /\ Budgeted' /\ PublishedWhole' /\ Quiet'
    BY <2>1, <2>2 DEF Scan, Inv, TypeOK, Budgeted, PublishedWhole, Quiet
  <2>4. Hands' /\ Apart'
    BY <2>1, <2>2, MarkdownDiskAssumption DEF Scan, Inv, Hands, Apart, Quiet, Storing, Names
  <2>5. Known'
    BY <2>2 DEF Scan, Inv, Known, EveryFileCharged
  <2> QED
    BY <2>2, <2>3, <2>4, <2>5 DEF Inv
<1>3. CASE disk \subseteq records /\ phase' = "prune" /\ UNCHANGED <<files, index>>
  <2> USE <1>3 DEF files, index, reservations, worker
  <2>1. TypeOK' /\ Budgeted' /\ IndexAgrees' /\ PublishedWhole' /\ Quiet'
    BY DEF Scan, Inv, TypeOK, Budgeted, IndexAgrees, PublishedWhole, Quiet
  <2>2. Hands' /\ Apart'
    BY DEF Scan, Inv, Hands, Apart, Quiet, Storing
  <2>3. Known'
    BY DEF Scan, Inv, Known, EveryFileCharged
  <2> QED
    BY <2>1, <2>2, <2>3 DEF Inv
<1> QED
  BY <1>1, <1>2, <1>3 DEF Scan

LEMMA PruneStep == Inv /\ Prune => Inv'
<1> SUFFICES ASSUME Inv, Prune PROVE Inv'
  OBVIOUS
<1>1. CASE oldest # <<>> /\ removeRecord(1) /\ UNCHANGED phase
  <2> USE DEF reservations, worker
  <2>1. 1 \in DOMAIN oldest
    BY <1>1 DEF Inv, TypeOK
  <2>2. /\ oldest[1] \in records
        /\ disk' = disk \ {oldest[1]} /\ whole' = whole \ {oldest[1]}
        /\ records' = records \ {oldest[1]}
        /\ oldest' \in Seq(Names) /\ charge' \in [Names -> Nat]
        /\ used' \in Int /\ IndexAgrees'
    BY <1>1, <2>1, RemoveLemma DEF Inv
  <2>3. TypeOK' /\ Budgeted' /\ PublishedWhole' /\ Quiet'
    BY <1>1, <2>2 DEF Prune, Inv, TypeOK, Budgeted, PublishedWhole, Quiet
  <2>4. Hands' /\ Apart'
    BY <1>1, <2>2 DEF Prune, Inv, Hands, Apart, Quiet, Storing
  <2>5. Known'
    BY <1>1, <2>2 DEF Prune, Inv, Known, EveryFileCharged
  <2> QED
    BY <2>2, <2>3, <2>4, <2>5 DEF Inv
<1>2. CASE used <= Budget[writer] /\ phase' = "open" /\ UNCHANGED <<files, index>>
  <2> USE <1>2 DEF files, index, reservations, worker
  <2>1. TypeOK' /\ IndexAgrees' /\ PublishedWhole' /\ Quiet' /\ Hands' /\ Apart'
    BY DEF Prune, Inv, TypeOK, IndexAgrees, PublishedWhole, Quiet, Hands, Apart
  <2>2. Budgeted'
    BY DEF Prune, Inv, TypeOK, Budgeted, Quiet
  <2>3. Known'
    <3>1. disk = records /\ \A w \in Workers : tmp[w] = None /\ retained[w] = None
      BY DEF Prune, Inv, Known, Quiet
    <3>2. InHand \subseteq {None}
      BY <3>1 DEF InHand
    <3>3. EveryFileCharged'
      BY <3>1, <3>2 DEF Prune, EveryFileCharged, InHand
    <3> QED
      BY <3>3 DEF Known
  <2> QED
    BY <2>1, <2>2, <2>3 DEF Inv
<1> QED
  BY <1>1, <1>2 DEF Prune

(* An evicted record was in nobody's hand, so the accounts still match.    *)
LEMMA EvictLemma ==
    ASSUME Inv, NEW i \in DOMAIN oldest, removeRecord(i), phase = "open",
           UNCHANGED <<phase, tmp, retained>>
    PROVE  /\ disk' = disk \ {oldest[i]} /\ whole' = whole \ {oldest[i]}
           /\ disk' \subseteq Names /\ whole' \subseteq disk'
           /\ records' = records \ {oldest[i]}
           /\ oldest' \in Seq(Names) /\ charge' \in [Names -> Nat]
           /\ used' \in Int /\ used' <= used
           /\ \A w \in Workers : tmp[w] # oldest[i]
           /\ IndexAgrees' /\ PublishedWhole' /\ Known'
<1>1. /\ oldest[i] \in records /\ oldest[i] \in Names
      /\ disk' = disk \ {oldest[i]} /\ whole' = whole \ {oldest[i]}
      /\ records' = records \ {oldest[i]}
      /\ oldest' \in Seq(Names) /\ charge' \in [Names -> Nat]
      /\ used' \in Int /\ used' <= used
      /\ IndexAgrees'
  BY RemoveLemma DEF Inv
<1>2. PublishedWhole' /\ disk' \subseteq Names /\ whole' \subseteq disk'
  BY <1>1 DEF Inv, PublishedWhole, TypeOK
<1>3. \A w \in Workers : tmp[w] # oldest[i] /\ retained[w] # oldest[i]
  BY <1>1 DEF Inv, Hands
<1>4. oldest[i] \notin InHand /\ InHand' = InHand /\ oldest[i] # None
  BY <1>1, <1>3, MarkdownDiskAssumption DEF InHand, Names
<1>5. Known'
  BY <1>1, <1>4 DEF Inv, Known, EveryFileCharged
<1> QED
  BY <1>1, <1>2, <1>3, <1>5

LEMMA ReserveStep == \A w \in Workers, k \in Keys : Inv /\ Reserve(w, k) => Inv'
<1> SUFFICES ASSUME NEW w \in Workers, NEW k \in Keys, Inv, Reserve(w, k) PROVE Inv'
  OBVIOUS
<1> USE DEF lease, reservations
<1>1. /\ phase = "open" /\ mu = None /\ at[w] = "idle" /\ k \notin inflight
      /\ mu' = w /\ key' = [key EXCEPT ![w] = k] /\ at' = [at EXCEPT ![w] = "room"]
      /\ UNCHANGED <<writer, phase, reserved, inflight, tmp, retained>>
  BY DEF Reserve, Goto
<1>2. /\ disk' \subseteq Names /\ whole' \subseteq disk'
      /\ records' \subseteq records /\ k \notin records'
      /\ oldest' \in Seq(Names) /\ charge' \in [Names -> Nat]
      /\ used' \in Int /\ used' <= used
      /\ \A v \in Workers : tmp[v] # None /\ tmp[v] \in whole => tmp[v] \in whole'
      /\ IndexAgrees' /\ PublishedWhole' /\ Known'
  <2>1. CASE k \notin records /\ UNCHANGED <<files, index>>
    <3>1. UNCHANGED <<disk, whole, records, oldest, charge, used>>
      BY <2>1 DEF files, index
    <3>2. disk' \subseteq Names /\ whole' \subseteq disk'
          /\ oldest' \in Seq(Names) /\ charge' \in [Names -> Nat]
          /\ used' \in Int /\ used' <= used
      BY <3>1 DEF Inv, TypeOK
    <3>3. IndexAgrees' /\ PublishedWhole'
      BY <3>1 DEF Inv, IndexAgrees, PublishedWhole
    <3>4. Known'
      BY <3>1, <1>1 DEF Inv, Known, EveryFileCharged, InHand
    <3> QED
      BY <2>1, <3>1, <3>2, <3>3, <3>4
  <2>2. CASE \E i \in DOMAIN oldest : oldest[i] = k /\ removeRecord(i)
    <3> PICK i \in DOMAIN oldest : oldest[i] = k /\ removeRecord(i)
      BY <2>2
    <3>1. /\ disk' = disk \ {k} /\ whole' = whole \ {k}
          /\ disk' \subseteq Names /\ whole' \subseteq disk'
          /\ records' = records \ {k}
          /\ oldest' \in Seq(Names) /\ charge' \in [Names -> Nat]
          /\ used' \in Int /\ used' <= used
          /\ \A v \in Workers : tmp[v] # k
          /\ IndexAgrees' /\ PublishedWhole' /\ Known'
      BY <1>1, EvictLemma
    <3> QED
      BY <3>1
  <2> QED
    BY <2>1, <2>2 DEF Reserve
<1>3. TypeOK'
  BY <1>1, <1>2, MarkdownDiskAssumption DEF Inv, TypeOK, Steps
<1>4. Budgeted'
  <2>1. used + reserved <= Budget[writer] /\ Budget[writer] \in Nat
        /\ used \in Int /\ reserved \in Int
    BY <1>1, MarkdownDiskAssumption DEF Inv, Budgeted, TypeOK
  <2> QED
    BY <1>1, <1>2, <2>1 DEF Budgeted
<1>5. Quiet'
  BY <1>1 DEF Quiet
<1>6. Hands'
  BY <1>1, <1>2, MarkdownDiskAssumption DEF Inv, TypeOK, Hands, Storing
<1>7. Apart'
  BY <1>1 DEF Inv, TypeOK, Apart, Storing
<1> QED
  BY <1>2, <1>3, <1>4, <1>5, <1>6, <1>7 DEF Inv

LEMMA MakeRoomStep == \A w \in Workers : Inv /\ MakeRoom(w) => Inv'
<1> SUFFICES ASSUME NEW w \in Workers, Inv, MakeRoom(w) PROVE Inv'
  OBVIOUS
<1>1. /\ at[w] = "room" /\ oldest # <<>> /\ removeRecord(1)
      /\ UNCHANGED <<writer, phase, reserved, inflight, mu, at, key, tmp, retained>>
  BY DEF MakeRoom, lease, reservations, worker
<1>2. phase = "open" /\ 1 \in DOMAIN oldest
  BY <1>1 DEF Inv, Quiet, TypeOK
<1>3. /\ disk' = disk \ {oldest[1]} /\ whole' = whole \ {oldest[1]}
      /\ disk' \subseteq Names /\ whole' \subseteq disk'
      /\ records' = records \ {oldest[1]}
      /\ oldest' \in Seq(Names) /\ charge' \in [Names -> Nat]
      /\ used' \in Int /\ used' <= used
      /\ \A v \in Workers : tmp[v] # oldest[1]
      /\ IndexAgrees' /\ PublishedWhole' /\ Known'
  BY <1>1, <1>2, EvictLemma
<1>4. TypeOK'
  BY <1>1, <1>3 DEF Inv, TypeOK
<1>5. Budgeted'
  <2>1. used + reserved <= Budget[writer] /\ Budget[writer] \in Nat
        /\ used \in Int /\ reserved \in Int
    BY <1>2, MarkdownDiskAssumption DEF Inv, Budgeted, TypeOK
  <2> QED
    BY <1>1, <1>3, <2>1 DEF Budgeted
<1>6. Quiet'
  BY <1>1, <1>2 DEF Quiet
<1>7. Hands' /\ Apart'
  BY <1>1, <1>3 DEF Inv, Hands, Apart
<1> QED
  BY <1>3, <1>4, <1>5, <1>6, <1>7 DEF Inv

LEMMA NoRoomStep == \A w \in Workers : Inv /\ NoRoom(w) => Inv'
<1> SUFFICES ASSUME NEW w \in Workers, Inv, NoRoom(w) PROVE Inv'
  OBVIOUS
<1>1. /\ at[w] = "room" /\ mu' = None
      /\ at' = [at EXCEPT ![w] = "idle"] /\ key' = [key EXCEPT ![w] = None]
      /\ UNCHANGED <<disk, whole, writer, phase, records, oldest, charge, used,
                     reserved, inflight, tmp, retained>>
  BY DEF NoRoom, Goto, files, lease, index, reservations
<1>2. mu = w /\ phase = "open"
  BY <1>1 DEF Inv, Hands, Quiet
<1>3. TypeOK' /\ Budgeted' /\ IndexAgrees' /\ PublishedWhole'
  BY <1>1 DEF Inv, TypeOK, Budgeted, IndexAgrees, PublishedWhole, Steps
<1>4. Quiet'
  BY <1>1, <1>2 DEF Quiet
<1>5. Hands'
  BY <1>1, <1>2, MarkdownDiskAssumption DEF Inv, TypeOK, Hands, Storing
<1>6. Apart'
  BY <1>1 DEF Inv, TypeOK, Apart, Storing
<1>7. Known'
  BY <1>1 DEF Inv, Known, EveryFileCharged, InHand
<1> QED
  BY <1>3, <1>4, <1>5, <1>6, <1>7 DEF Inv

LEMMA GrantedStep == \A w \in Workers : Inv /\ Granted(w) => Inv'
<1> SUFFICES ASSUME NEW w \in Workers, Inv, Granted(w) PROVE Inv'
  OBVIOUS
<1>1. /\ at[w] = "room" /\ ~Over(Cost[key[w]])
      /\ inflight' = inflight \cup {key[w]} /\ reserved' = reserved + Cost[key[w]]
      /\ mu' = None /\ at' = [at EXCEPT ![w] = "create"]
      /\ UNCHANGED <<disk, whole, writer, phase, records, oldest, charge, used,
                     key, tmp, retained>>
  BY DEF Granted, Goto, files, lease, index
<1>2. mu = w /\ phase = "open" /\ key[w] \in Keys /\ key[w] \notin inflight
  BY <1>1 DEF Inv, Hands, Quiet
<1>3. Cost[key[w]] \in Nat /\ used \in Int /\ reserved \in Int /\ Budget[writer] \in Nat
  BY <1>2, MarkdownDiskAssumption DEF Inv, TypeOK
<1>4. TypeOK'
  BY <1>1, <1>2, <1>3 DEF Inv, TypeOK, Steps
<1>5. Budgeted'
  BY <1>1, <1>3 DEF Over, Budgeted
<1>6. IndexAgrees' /\ PublishedWhole' /\ Quiet'
  BY <1>1, <1>2 DEF Inv, IndexAgrees, PublishedWhole, Quiet
<1>7. Hands'
  BY <1>1, <1>2, MarkdownDiskAssumption DEF Inv, TypeOK, Hands, Storing
<1>8. Apart'
  BY <1>1, <1>2 DEF Inv, TypeOK, Hands, Apart, Storing
<1>9. Known'
  BY <1>1 DEF Inv, Known, EveryFileCharged, InHand
<1> QED
  BY <1>4, <1>5, <1>6, <1>7, <1>8, <1>9 DEF Inv

LEMMA CreateTempStep == \A w \in Workers : Inv /\ CreateTemp(w) => Inv'
<1> SUFFICES ASSUME NEW w \in Workers, Inv, CreateTemp(w) PROVE Inv'
  OBVIOUS
<1>1. /\ at[w] = "create"
      /\ UNCHANGED <<whole, writer, phase, records, oldest, charge, used,
                     reserved, inflight, mu, key, retained>>
  BY DEF CreateTemp, lease, index, reservations
<1>2. phase = "open" /\ tmp[w] = None /\ retained[w] = None
  BY <1>1 DEF Inv, Hands, Quiet
<1>3. CASE \E t \in Temps \ disk : /\ disk' = disk \cup {t}
                                   /\ tmp' = [tmp EXCEPT ![w] = t]
                                   /\ at' = [at EXCEPT ![w] = "write"]
  <2> PICK t \in Temps \ disk : /\ disk' = disk \cup {t}
                                /\ tmp' = [tmp EXCEPT ![w] = t]
                                /\ at' = [at EXCEPT ![w] = "write"]
    BY <1>3
  <2>1. t \in Names /\ t \notin Keys /\ t # None
    BY MarkdownDiskAssumption DEF Names
  <2>2. disk = (records \cup InHand) \ {None}
    BY <1>2, MarkdownDiskAssumption DEF Inv, Known, EveryFileCharged, TypeOK, Names
  <2>3. t \notin records /\ \A v \in Workers : tmp[v] # t /\ retained[v] # t
    BY <2>1, <2>2 DEF InHand
  <2>4. TypeOK' /\ Budgeted' /\ IndexAgrees' /\ PublishedWhole' /\ Quiet'
    BY <1>1, <1>2, <2>1 DEF Inv, TypeOK, Budgeted, IndexAgrees, PublishedWhole, Quiet, Steps
  <2>5. Hands'
    BY <1>1, <1>2, <2>1, <2>3 DEF Inv, TypeOK, Hands, Storing
  <2>6. Apart'
    BY <1>1, <1>2, <2>3 DEF Inv, TypeOK, Apart, Storing
  <2>7. Known'
    <3>1. InHand' \cup {None} = InHand \cup {t} \cup {None}
      BY <1>1, <1>2 DEF Inv, TypeOK, InHand
    <3> QED
      BY <1>1, <1>2, <3>1 DEF Inv, Known, EveryFileCharged
  <2> QED
    BY <2>4, <2>5, <2>6, <2>7 DEF Inv
<1>4. CASE at' = [at EXCEPT ![w] = "finish"] /\ UNCHANGED <<disk, tmp>>
  <2>1. TypeOK' /\ Budgeted' /\ IndexAgrees' /\ PublishedWhole' /\ Quiet'
    BY <1>1, <1>2, <1>4 DEF Inv, TypeOK, Budgeted, IndexAgrees, PublishedWhole, Quiet, Steps
  <2>2. Hands' /\ Apart'
    BY <1>1, <1>2, <1>4 DEF Inv, TypeOK, Hands, Apart, Storing
  <2>3. Known'
    BY <1>1, <1>4 DEF Inv, Known, EveryFileCharged, InHand
  <2> QED
    BY <2>1, <2>2, <2>3 DEF Inv
<1> QED
  BY <1>3, <1>4 DEF CreateTemp, Goto

LEMMA WriteStep == \A w \in Workers : Inv /\ Write(w) => Inv'
<1> SUFFICES ASSUME NEW w \in Workers, Inv, Write(w) PROVE Inv'
  OBVIOUS
<1>1. /\ at[w] = "write"
      /\ \/ whole' = whole \cup {tmp[w]} /\ at' = [at EXCEPT ![w] = "publish"]
         \/ whole' = whole /\ at' = [at EXCEPT ![w] = "cleanup"]
      /\ UNCHANGED <<disk, writer, phase, records, oldest, charge, used,
                     reserved, inflight, mu, key, tmp, retained>>
  BY DEF Write, Goto, lease, index, reservations
<1>2. phase = "open" /\ tmp[w] # None
  BY <1>1 DEF Inv, Hands, Quiet
<1>3. tmp[w] \in disk
  BY <1>2 DEF Inv, Known, EveryFileCharged, InHand
<1>4. TypeOK' /\ Budgeted' /\ IndexAgrees' /\ PublishedWhole' /\ Quiet'
  BY <1>1, <1>2, <1>3 DEF Inv, TypeOK, Budgeted, IndexAgrees, PublishedWhole, Quiet, Steps
<1>5. Hands'
  BY <1>1, <1>2 DEF Inv, TypeOK, Hands, Storing
<1>6. Apart'
  BY <1>1 DEF Inv, TypeOK, Apart, Storing
<1>7. Known'
  BY <1>1 DEF Inv, Known, EveryFileCharged, InHand
<1> QED
  BY <1>4, <1>5, <1>6, <1>7 DEF Inv

LEMMA RenameStep == \A w \in Workers : Inv /\ Rename(w) => Inv'
<1> SUFFICES ASSUME NEW w \in Workers, Inv, Rename(w) PROVE Inv'
  OBVIOUS
<1>1. /\ at[w] = "publish"
      /\ UNCHANGED <<writer, phase, records, oldest, charge, used,
                     reserved, inflight, mu, key>>
  BY DEF Rename, lease, index, reservations
<1>2. /\ phase = "open" /\ tmp[w] # None /\ tmp[w] \in whole /\ retained[w] = None
      /\ key[w] \in Keys /\ key[w] \notin records /\ tmp[w] \notin records
  BY <1>1 DEF Inv, Hands, Quiet
<1>3. CASE /\ disk' = (disk \ {tmp[w]}) \cup {key[w]}
           /\ whole' = (whole \ {tmp[w]}) \cup {key[w]}
           /\ retained' = [retained EXCEPT ![w] = key[w]]
           /\ tmp' = [tmp EXCEPT ![w] = None]
           /\ at' = [at EXCEPT ![w] = "finish"]
  <2>1. tmp[w] \in Temps /\ tmp[w] \notin Keys /\ key[w] # None
    BY <1>2, MarkdownDiskAssumption DEF Inv, TypeOK
  <2>2. \A v \in Workers : v # w => tmp[v] # tmp[w] /\ retained[v] # tmp[w]
    BY <1>2 DEF Inv, Apart
  <2>3. \A v \in Workers : v # w => retained[v] # key[w]
    BY <1>1, <1>2, <2>1 DEF Inv, Hands, Apart, Storing
  <2>4. TypeOK' /\ Budgeted' /\ IndexAgrees' /\ PublishedWhole' /\ Quiet'
    BY <1>1, <1>2, <1>3 DEF Inv, TypeOK, Budgeted, IndexAgrees, PublishedWhole, Quiet, Steps, Names
  <2>5. Hands'
    BY <1>1, <1>2, <1>3, <2>1, <2>2, MarkdownDiskAssumption DEF Inv, TypeOK, Hands, Storing, Names
  <2>6. Apart'
    <3>1. \A v \in Workers : tmp[v] # key[w]
      BY <1>2, MarkdownDiskAssumption DEF Inv, TypeOK
    <3> QED
      BY <1>1, <1>2, <1>3, <2>1, <2>3, <3>1 DEF Inv, TypeOK, Apart, Storing
  <2>7. Known'
    <3>1. InHand' \cup {None} = ((InHand \ {tmp[w]}) \cup {key[w]}) \cup {None}
      BY <1>2, <1>3, <2>1, <2>2 DEF Inv, TypeOK, InHand
    <3>2. disk' \cup {None} = records' \cup InHand' \cup {None}
      BY <1>1, <1>2, <1>3, <3>1 DEF Inv, Known, EveryFileCharged
    <3> QED
      BY <1>1, <1>2, <3>2 DEF Known, EveryFileCharged
  <2> QED
    BY <2>4, <2>5, <2>6, <2>7 DEF Inv
<1>4. CASE at' = [at EXCEPT ![w] = "cleanup"] /\ UNCHANGED <<disk, whole, tmp, retained>>
  <2>1. TypeOK' /\ Budgeted' /\ IndexAgrees' /\ PublishedWhole' /\ Quiet'
    BY <1>1, <1>2, <1>4 DEF Inv, TypeOK, Budgeted, IndexAgrees, PublishedWhole, Quiet, Steps
  <2>2. Hands' /\ Apart'
    BY <1>1, <1>2, <1>4 DEF Inv, TypeOK, Hands, Apart, Storing
  <2>3. Known'
    BY <1>1, <1>4 DEF Inv, Known, EveryFileCharged, InHand
  <2> QED
    BY <2>1, <2>2, <2>3 DEF Inv
<1> QED
  BY <1>2, <1>3, <1>4 DEF Rename, Goto, files

LEMMA CleanupStep == \A w \in Workers : Inv /\ Cleanup(w) => Inv'
<1> SUFFICES ASSUME NEW w \in Workers, Inv, Cleanup(w) PROVE Inv'
  OBVIOUS
<1>1. /\ at[w] = "cleanup"
      /\ at' = [at EXCEPT ![w] = "finish"] /\ tmp' = [tmp EXCEPT ![w] = None]
      /\ UNCHANGED <<writer, phase, records, oldest, charge, used,
                     reserved, inflight, mu, key>>
  BY DEF Cleanup, Goto, lease, index, reservations
<1>2. /\ phase = "open" /\ tmp[w] # None /\ tmp[w] \notin records /\ retained[w] = None
      /\ tmp[w] \in Temps /\ tmp[w] \notin Keys
  BY <1>1, MarkdownDiskAssumption DEF Inv, Hands, Quiet, TypeOK
<1>3. \A v \in Workers : v # w => tmp[v] # tmp[w] /\ retained[v] # tmp[w]
  BY <1>2 DEF Inv, Apart
<1>4. CASE disk' = disk \ {tmp[w]} /\ whole' = whole \ {tmp[w]} /\ UNCHANGED retained
  <2>1. TypeOK' /\ Budgeted' /\ IndexAgrees' /\ PublishedWhole' /\ Quiet'
    BY <1>1, <1>2, <1>4 DEF Inv, TypeOK, Budgeted, IndexAgrees, PublishedWhole, Quiet, Steps
  <2>2. Hands'
    BY <1>1, <1>2, <1>3, <1>4, MarkdownDiskAssumption DEF Inv, TypeOK, Hands, Storing, Names
  <2>3. Apart'
    BY <1>1, <1>4 DEF Inv, TypeOK, Apart, Storing
  <2>4. Known'
    <3>1. InHand' \cup {None} = (InHand \ {tmp[w]}) \cup {None}
      BY <1>1, <1>2, <1>3, <1>4 DEF Inv, TypeOK, InHand
    <3>2. disk' \cup {None} = records' \cup InHand' \cup {None}
      BY <1>1, <1>2, <1>4, <3>1 DEF Inv, Known, EveryFileCharged
    <3> QED
      BY <1>1, <1>2, <3>2 DEF Known, EveryFileCharged
  <2> QED
    BY <2>1, <2>2, <2>3, <2>4 DEF Inv
<1>5. CASE retained' = [retained EXCEPT ![w] = tmp[w]] /\ UNCHANGED <<disk, whole>>
  <2>1. TypeOK' /\ Budgeted' /\ IndexAgrees' /\ PublishedWhole' /\ Quiet'
    BY <1>1, <1>2, <1>5 DEF Inv, TypeOK, Budgeted, IndexAgrees, PublishedWhole, Quiet, Steps, Names
  <2>2. Hands'
    BY <1>1, <1>2, <1>5, MarkdownDiskAssumption DEF Inv, TypeOK, Hands, Storing, Names
  <2>3. Apart'
    BY <1>1, <1>2, <1>3, <1>5 DEF Inv, TypeOK, Apart, Storing
  <2>4. Known'
    <3>1. InHand' \cup {None} = InHand \cup {None}
      BY <1>1, <1>2, <1>5 DEF Inv, TypeOK, InHand
    <3> QED
      BY <1>1, <1>2, <1>5, <3>1 DEF Inv, Known, EveryFileCharged
  <2> QED
    BY <2>1, <2>2, <2>3, <2>4 DEF Inv
<1> QED
  BY <1>4, <1>5 DEF Cleanup, files

LEMMA FinishStep == \A w \in Workers : Inv /\ Finish(w) => Inv'
<1> SUFFICES ASSUME NEW w \in Workers, Inv, Finish(w) PROVE Inv'
  OBVIOUS
<1>1. /\ at[w] = "finish" /\ mu = None
      /\ inflight' = inflight \ {key[w]} /\ reserved' = reserved - Cost[key[w]]
      /\ at' = [at EXCEPT ![w] = "idle"] /\ key' = [key EXCEPT ![w] = None]
      /\ retained' = [retained EXCEPT ![w] = None]
      /\ UNCHANGED <<disk, whole, writer, phase, mu, tmp>>
  BY DEF Finish, Goto, files, lease
<1>2. /\ phase = "open" /\ tmp[w] = None /\ key[w] \in Keys /\ key[w] \notin records
      /\ retained[w] \notin records /\ (retained[w] \in Keys => retained[w] = key[w])
  BY <1>1 DEF Inv, Hands, Quiet
<1>3. /\ Cost[key[w]] \in Nat /\ used \in Int /\ reserved \in Int
      /\ Budget[writer] \in Nat /\ used + reserved <= Budget[writer]
  BY <1>2, MarkdownDiskAssumption DEF Inv, TypeOK, Budgeted
<1>4. \A v \in Workers : v # w /\ at[v] \in Storing => key[v] # key[w]
  BY <1>1 DEF Inv, Apart, Storing
<1>5. Quiet' /\ PublishedWhole'
  BY <1>1, <1>2 DEF Inv, Quiet, PublishedWhole
<1>6. Apart'
  BY <1>1 DEF Inv, TypeOK, Apart, Storing
<1>7. CASE retained[w] # None /\ addRecord(retained[w], Cost[key[w]])
  <2> DEFINE n == retained[w]
  <2>1. n \in Names \ records
    BY <1>2, <1>7 DEF Inv, TypeOK
  <2>2. /\ records' = records \cup {n} /\ oldest' \in Seq(Names)
        /\ charge' \in [Names -> Nat] /\ used' = used + Cost[key[w]] /\ used' \in Int
        /\ IndexAgrees'
    BY <1>3, <1>7, <2>1, AddLemma DEF Inv
  <2>3. \A v \in Workers : v # w => tmp[v] # n /\ retained[v] # n
    BY <1>7 DEF Inv, Apart
  <2>4. \A v \in Workers : v # w /\ at[v] # "idle" => key[v] # n
    <3> SUFFICES ASSUME NEW v \in Workers, v # w, at[v] # "idle" PROVE key[v] # n
      OBVIOUS
    <3>1. key[v] \in Keys /\ at[v] # "room"
      BY <1>1, MarkdownDiskAssumption DEF Inv, Hands
    <3>2. at[v] \in Storing
      BY <3>1 DEF Inv, TypeOK, Steps, Storing
    <3>3. key[v] # key[w]
      BY <1>4, <3>2
    <3> QED
      BY <1>2, <3>1, <3>3
  <2>5. TypeOK'
    <3> HIDE DEF n
    <3>1. records' \subseteq Names /\ oldest' \in Seq(Names)
          /\ charge' \in [Names -> Nat] /\ used' \in Int /\ reserved' \in Int
      BY <1>1, <1>3, <2>1, <2>2 DEF Inv, TypeOK
    <3>2. /\ at' \in [Workers -> Steps] /\ key' \in [Workers -> Keys \cup {None}]
          /\ retained' \in [Workers -> Names \cup {None}] /\ inflight' \subseteq Keys
      BY <1>1 DEF Inv, TypeOK, Steps
    <3> QED
      BY <1>1, <3>1, <3>2 DEF Inv, TypeOK
  <2>6. Budgeted'
    BY <1>1, <1>3, <2>2 DEF Budgeted
  <2>7. Hands'
    <3> SUFFICES ASSUME NEW v \in Workers PROVE
            /\ at'[v] # "idle" => key'[v] \in Keys /\ key'[v] \notin records'
            /\ mu' = v <=> at'[v] = "room"
            /\ at'[v] = "room" => key'[v] \notin inflight'
            /\ at'[v] \in Storing => key'[v] \in inflight'
            /\ tmp'[v] # None <=> at'[v] \in {"write", "publish", "cleanup"}
            /\ at'[v] = "publish" => tmp'[v] \in whole'
            /\ tmp'[v] \notin records'
            /\ retained'[v] # None => at'[v] = "finish"
            /\ retained'[v] \notin records'
            /\ retained'[v] \in Keys => retained'[v] = key'[v]
      BY DEF Hands
    <3> HIDE DEF n
    <3>1. CASE v = w
      <4>1. None \notin records' /\ None \notin Keys /\ None # w
        BY <2>1, <2>2, MarkdownDiskAssumption DEF Inv, TypeOK, Names
      <4>2. at'[w] = "idle" /\ key'[w] = None /\ retained'[w] = None /\ tmp'[w] = None
        BY <1>1, <1>2 DEF Inv, TypeOK
      <4> QED
        BY <1>1, <3>1, <4>1, <4>2 DEF Storing
    <3>2. CASE v # w
      <4>1. at'[v] = at[v] /\ key'[v] = key[v] /\ retained'[v] = retained[v] /\ tmp'[v] = tmp[v]
        BY <1>1, <3>2 DEF Inv, TypeOK
      <4> QED
        BY <1>1, <1>4, <2>2, <2>3, <2>4, <3>2, <4>1 DEF Inv, Hands
    <3> QED
      BY <3>1, <3>2
  <2>8. Known'
    <3>1. InHand' \cup {None} = (InHand \ {n}) \cup {None}
      BY <1>1, <1>2, <1>7, <2>3 DEF Inv, TypeOK, InHand
    <3>2. n \in InHand
      BY DEF InHand
    <3>3. disk' \cup {None} = records' \cup InHand' \cup {None}
      BY <1>1, <1>2, <2>2, <3>1, <3>2 DEF Inv, Known, EveryFileCharged
    <3> QED
      BY <1>1, <1>2, <3>3 DEF Known, EveryFileCharged
  <2> QED
    BY <1>5, <1>6, <2>2, <2>5, <2>6, <2>7, <2>8 DEF Inv
<1>8. CASE retained[w] = None /\ UNCHANGED <<records, oldest, charge, used>>
  <2>1. TypeOK' /\ IndexAgrees'
    BY <1>1, <1>3, <1>8 DEF Inv, TypeOK, IndexAgrees, Steps
  <2>2. Budgeted'
    BY <1>1, <1>3, <1>8 DEF Budgeted
  <2>3. Hands'
    BY <1>1, <1>2, <1>4, <1>8, MarkdownDiskAssumption DEF Inv, TypeOK, Hands, Storing, Names
  <2>4. Known'
    <3>1. InHand' = InHand
      BY <1>1, <1>8 DEF Inv, TypeOK, InHand
    <3> QED
      BY <1>1, <1>2, <1>8, <3>1 DEF Inv, Known, EveryFileCharged
  <2> QED
    BY <1>5, <1>6, <2>1, <2>2, <2>3, <2>4 DEF Inv
<1> QED
  BY <1>7, <1>8 DEF Finish, index

-----------------------------------------------------------------------------
LEMMA Inductive == Spec => []Inv
<1>1. Init => Inv
  <2> SUFFICES ASSUME Init PROVE Inv
    OBVIOUS
  <2> USE DEF Init, NoCharge, Nobody, AllIdle
  <2>1. TypeOK /\ Budgeted
    BY DEF TypeOK, Budgeted, Names, Steps
  <2>2. IndexAgrees /\ PublishedWhole /\ Quiet
    BY DEF IndexAgrees, PublishedWhole, Quiet
  <2>3. Hands /\ Apart
    BY MarkdownDiskAssumption DEF Hands, Apart, Storing
  <2>4. Known
    BY DEF Known, EveryFileCharged
  <2> QED
    BY <2>1, <2>2, <2>3, <2>4 DEF Inv
<1>2. Inv /\ [Next]_vars => Inv'
  <2> SUFFICES ASSUME Inv, [Next]_vars PROVE Inv'
    OBVIOUS
  <2>1. CASE \E p \in Instances : Locked(p)
    BY <2>1, LockedStep
  <2>2. CASE Scan \/ Prune
    BY <2>2, ScanStep, PruneStep
  <2>3. CASE Crash \/ Close
    BY <2>3, ExitStep DEF Crash, Close
  <2>4. ASSUME NEW w \in Workers, Store(w) PROVE Inv'
    BY <2>4, ReserveStep, MakeRoomStep, NoRoomStep, GrantedStep, CreateTempStep,
       WriteStep, RenameStep, CleanupStep, FinishStep DEF Store
  <2>5. CASE UNCHANGED vars
    <3> USE <2>5 DEF vars, files, lease, index, reservations, worker
    <3>1. TypeOK' /\ Budgeted' /\ IndexAgrees' /\ PublishedWhole' /\ Quiet'
      BY DEF Inv, TypeOK, Budgeted, IndexAgrees, PublishedWhole, Quiet
    <3>2. Hands' /\ Apart'
      BY DEF Inv, Hands, Apart
    <3>3. Known'
      BY DEF Inv, Known, EveryFileCharged, InHand
    <3> QED
      BY <3>1, <3>2, <3>3 DEF Inv
  <2> QED
    BY <2>1, <2>2, <2>3, <2>4, <2>5 DEF Next
<1> QED
  BY <1>1, <1>2, PTL DEF Spec

(* Every reachable state is well typed.                                    *)
THEOREM TypeCorrect == Spec => []TypeOK
BY Inductive, PTL DEF Inv

(* The writer never accounts for more than its budget, whatever fails and  *)
(* whoever crashed before.                                                 *)
THEOREM BudgetKept == Spec => []Budgeted
BY Inductive, PTL DEF Inv

(* The list and the map of records never disagree.                         *)
THEOREM IndexConsistent == Spec => []IndexAgrees
BY Inductive, PTL DEF Inv

(* Once open, the accounts cover the files of the directory exactly.       *)
THEOREM NoFileEscapes == Spec => []EveryFileCharged
<1>1. Inv => EveryFileCharged
  BY DEF Inv, Known
<1> QED
  BY <1>1, Inductive, PTL

(* A record is published only when it is completely written.               *)
THEOREM NeverPartial == Spec => []PublishedWhole
BY Inductive, PTL DEF Inv

-----------------------------------------------------------------------------
(* Sums. The library's induction has operators as parameters; a least      *)
(* counterexample does without.                                            *)

LEMMA Least ==
  ASSUME NEW S, S \subseteq Nat, S # {}
  PROVE  \E n \in S : \A m \in S : n <= m
<1> DEFINE R == OpToRel(<, Nat)
<1>1. IsWellFoundedOn(R, Nat)
  BY NatLessThanWellFounded
<1>2. \A m, n \in Nat : m < n => <<m, n>> \in R
  BY DEF OpToRel
<1> HIDE DEF R
<1>3. \E n \in S : \A m \in S : ~ (<<m, n>> \in R)
  BY <1>1, WFMin
<1>4. \A m, n \in Nat : ~(m < n) => n <= m
  OBVIOUS
<1> QED
  BY <1>2, <1>3, <1>4

Smaller(s, t) == Cardinality(s) < Cardinality(t)

(* What holds of a subset whenever it holds of all smaller ones holds of   *)
(* all of them.                                                            *)
LEMMA SubsetInduction ==
  ASSUME NEW S, IsFiniteSet(S), NEW T,
         \A s \in SUBSET S : (\A t \in SUBSET S : Smaller(t, s) => t \in T) => s \in T
  PROVE  \A s \in SUBSET S : s \in T
<1> DEFINE Bad == {Cardinality(s) : s \in (SUBSET S) \ T}
<1>1. \A s \in SUBSET S : Cardinality(s) \in Nat
  BY FS_Subset, FS_CardinalityType
<1>2. ASSUME Bad # {} PROVE FALSE
  <2>1. Bad \subseteq Nat
    BY <1>1
  <2>2. PICK n \in Bad : \A m \in Bad : n <= m
    <3> HIDE DEF Bad
    <3> QED
      BY <1>2, <2>1, Least
  <2>3. PICK s \in (SUBSET S) \ T : n = Cardinality(s)
    BY <2>2
  <2>4. ASSUME NEW t \in SUBSET S, Smaller(t, s) PROVE t \in T
    <3>1. CASE t \notin T
      <4>1. Cardinality(s) <= Cardinality(t)
        BY <2>2, <2>3, <3>1
      <4> QED
        BY <1>1, <2>4, <4>1 DEF Smaller
    <3> QED
      BY <3>1
  <2> QED
    BY <2>3, <2>4
<1> QED
  BY <1>2

(* Functions!SumFunctionOnSet takes the elements in an order of its own.   *)
Pick(s) == CHOOSE x \in s : TRUE
Sum(f, S) == SumFunctionOnSet(f, S)

(* The sum over s, from the sums over smaller sets.                        *)
Adds(f, k, s) == IF s = {} THEN 0 ELSE f[Pick(s)] + k[s \ {Pick(s)}]
Sums(f, S, k) == k = [s \in SUBSET S |-> Adds(f, k, s)]

LEMMA PickSmaller ==
  ASSUME NEW s, IsFiniteSet(s), NEW x \in s
  PROVE  Smaller(s \ {x}, s) /\ Pick(s) \in s
<1>1. Cardinality(s \ {x}) = Cardinality(s) - 1 /\ Cardinality(s) \in Nat
  BY FS_RemoveElement, FS_CardinalityType
<1> QED
  BY <1>1 DEF Smaller, Pick


(* There are such sums: those over sets of up to n elements, for each n.   *)
LEMMA SumsExist ==
  ASSUME NEW S, IsFiniteSet(S), NEW f
  PROVE  \E k : Sums(f, S, k)
<1> DEFINE Up(n, k) == /\ k = [s \in SUBSET S |-> k[s]]
                       /\ \A s \in SUBSET S : Cardinality(s) <= n => k[s] = Adds(f, k, s)
           Bad == {n \in Nat : \A k : ~Up(n, k)}
<1>1. \A s \in SUBSET S : IsFiniteSet(s) /\ Cardinality(s) \in Nat
  BY FS_Subset, FS_CardinalityType
<1>2. 0 \notin Bad
  <2> DEFINE k == [s \in SUBSET S |-> 0]
  <2>1. ASSUME NEW s \in SUBSET S, Cardinality(s) <= 0 PROVE k[s] = Adds(f, k, s)
    <3>1. s = {}
      BY <1>1, <2>1, FS_EmptySet
    <3> QED
      BY <3>1 DEF Adds
  <2>2. k = [s \in SUBSET S |-> k[s]]
    OBVIOUS
  <2> HIDE DEF k
  <2> QED
    BY <2>1, <2>2
<1>3. ASSUME NEW n \in Nat \ {0}, n - 1 \notin Bad PROVE n \notin Bad
  <2>0. n - 1 \in Nat
    OBVIOUS
  <2>1. PICK g : Up(n - 1, g)
    BY <1>3, <2>0
  <2> DEFINE k == [s \in SUBSET S |-> Adds(f, g, s)]
  <2>2. ASSUME NEW s \in SUBSET S, Cardinality(s) <= n PROVE k[s] = Adds(f, k, s)
    <3>1. CASE s = {}
      BY <3>1 DEF Adds
    <3>2. CASE s # {}
      <4> DEFINE t == s \ {Pick(s)}
      <4>1. Pick(s) \in s
        BY <3>2 DEF Pick
      <4>2. t \in SUBSET S /\ Cardinality(t) <= n - 1
        <5>1. Cardinality(t) = Cardinality(s) - 1 /\ Cardinality(s) \in Nat
          BY <1>1, <4>1, FS_RemoveElement
        <5> QED
          BY <2>2, <5>1
      <4>3. g[t] = Adds(f, g, t) /\ k[t] = Adds(f, g, t)
        BY <2>1, <4>2
      <4> QED
        BY <3>2, <4>3 DEF Adds
    <3> QED
      BY <3>1, <3>2
  <2>3. k = [s \in SUBSET S |-> k[s]]
    OBVIOUS
  <2> HIDE DEF k
  <2>4. Up(n, k)
    BY <2>2, <2>3
  <2> QED
    BY <2>4
<1>4. Bad = {}
  <2>1. ASSUME Bad # {} PROVE FALSE
    <3>1. PICK n \in Bad : \A m \in Bad : n <= m
      <4>1. Bad \subseteq Nat
        OBVIOUS
      <4> HIDE DEF Bad
      <4> QED
        BY <2>1, <4>1, Least
    <3>2. n \in Nat
      OBVIOUS
    <3> HIDE DEF Bad
    <3>3. n \in Nat \ {0} /\ n - 1 \in Nat /\ ~(n <= n - 1)
      BY <1>2, <3>1, <3>2
    <3> QED
      BY <1>3, <3>1, <3>3
  <2> QED
    BY <2>1
<1>5. PICK k : Up(Cardinality(S), k)
  BY <1>1, <1>4
<1>6. \A s \in SUBSET S : Cardinality(s) <= Cardinality(S)
  BY FS_Subset
<1>7. Sums(f, S, k)
  <2>1. k = [s \in SUBSET S |-> k[s]]
    BY <1>5
  <2> QED
    BY <1>5, <1>6, <2>1 DEF Sums
<1> QED
  BY <1>7

LEMMA SumIs ==
  ASSUME NEW S, IsFiniteSet(S), NEW f
  PROVE  \E k : Sums(f, S, k) /\ Sum(f, S) = k[S]
<1> DEFINE k == CHOOSE g : Sums(f, S, g)
<1>1. Sums(f, S, k)
  BY SumsExist
<1>2. Sum(f, S) = k[S]
  BY DEF Sum, SumFunctionOnSet, FoldFunctionOnSet, MapThenFoldSet, Sums, Adds, Pick
<1> QED
  BY <1>1, <1>2

(* Sums over the same set agree, whatever the set they were made for.      *)
LEMMA SumsAgree ==
  ASSUME NEW S, IsFiniteSet(S), NEW U, S \subseteq U, NEW f, NEW g, NEW k, NEW l,
         \A x \in S : f[x] = g[x], Sums(f, S, k), Sums(g, U, l)
  PROVE  k[S] = l[S]
<1> DEFINE T == {s \in SUBSET S : k[s] = l[s]}
<1>1. ASSUME NEW s \in SUBSET S, \A t \in SUBSET S : Smaller(t, s) => t \in T
      PROVE  s \in T
  <2>1. k[s] = Adds(f, k, s) /\ l[s] = Adds(g, l, s)
    BY DEF Sums
  <2>2. CASE s = {}
    BY <2>1, <2>2 DEF Adds
  <2>3. CASE s # {}
    <3>1. Pick(s) \in s /\ IsFiniteSet(s)
      BY <2>3, FS_Subset DEF Pick
    <3>2. k[s \ {Pick(s)}] = l[s \ {Pick(s)}]
      BY <1>1, <3>1, PickSmaller
    <3> QED
      BY <2>1, <2>3, <3>1, <3>2 DEF Adds
  <2> QED
    BY <2>2, <2>3
<1> HIDE DEF T
<1>2. \A s \in SUBSET S : s \in T
  BY <1>1, SubsetInduction
<1> QED
  BY <1>2 DEF T

LEMMA SumSame ==
  ASSUME NEW S, IsFiniteSet(S), NEW f, NEW g, \A x \in S : f[x] = g[x]
  PROVE  Sum(f, S) = Sum(g, S)
<1>1. PICK k : Sums(f, S, k) /\ Sum(f, S) = k[S]
  BY SumIs
<1>2. PICK l : Sums(g, S, l) /\ Sum(g, S) = l[S]
  BY SumIs
<1> QED
  BY <1>1, <1>2, SumsAgree

LEMMA SumEmpty == \A f : Sum(f, {}) = 0
<1> SUFFICES ASSUME NEW f PROVE Sum(f, {}) = 0
  OBVIOUS
<1>1. PICK k : Sums(f, {}, k) /\ Sum(f, {}) = k[{}]
  BY FS_EmptySet, SumIs
<1>2. k[{}] = Adds(f, k, {})
  BY <1>1 DEF Sums
<1> QED
  BY <1>1, <1>2 DEF Adds

LEMMA SumPick ==
  ASSUME NEW S, IsFiniteSet(S), S # {}, NEW f
  PROVE  Sum(f, S) = f[Pick(S)] + Sum(f, S \ {Pick(S)})
<1> DEFINE R == S \ {Pick(S)}
<1>1. PICK k : Sums(f, S, k) /\ Sum(f, S) = k[S]
  BY SumIs
<1>2. IsFiniteSet(R)
  BY FS_Subset
<1>3. PICK l : Sums(f, R, l) /\ Sum(f, R) = l[R]
  BY <1>2, SumIs
<1>4. k[S] = f[Pick(S)] + k[R]
  BY <1>1 DEF Sums, Adds
<1>5. l[R] = k[R]
  BY <1>1, <1>2, <1>3, SumsAgree
<1> QED
  BY <1>1, <1>3, <1>4, <1>5

(* Over natural numbers, in any order.                                     *)
LEMMA SumType ==
  ASSUME NEW S, IsFiniteSet(S), NEW f, \A x \in S : f[x] \in Nat
  PROVE  Sum(f, S) \in Nat
<1> DEFINE T == {s \in SUBSET S : Sum(f, s) \in Nat}
<1>1. ASSUME NEW s \in SUBSET S, \A t \in SUBSET S : Smaller(t, s) => t \in T
      PROVE  s \in T
  <2>1. CASE s = {}
    BY <2>1, SumEmpty
  <2>2. CASE s # {}
    <3>1. Pick(s) \in s /\ IsFiniteSet(s)
      BY <2>2, FS_Subset DEF Pick
    <3>2. Sum(f, s \ {Pick(s)}) \in Nat /\ f[Pick(s)] \in Nat
      BY <1>1, <3>1, PickSmaller
    <3>3. Sum(f, s) = f[Pick(s)] + Sum(f, s \ {Pick(s)})
      BY <2>2, <3>1, SumPick
    <3> QED
      BY <3>2, <3>3
  <2> QED
    BY <2>1, <2>2
<1> HIDE DEF T
<1>2. \A s \in SUBSET S : s \in T
  BY <1>1, SubsetInduction
<1> QED
  BY <1>2 DEF T

LEMMA SumTake ==
  ASSUME NEW S, IsFiniteSet(S), NEW f, \A x \in S : f[x] \in Nat, NEW x \in S
  PROVE  Sum(f, S) = f[x] + Sum(f, S \ {x})
<1> DEFINE T == {s \in SUBSET S : \A y \in s : Sum(f, s) = f[y] + Sum(f, s \ {y})}
<1>1. ASSUME NEW s \in SUBSET S, \A t \in SUBSET S : Smaller(t, s) => t \in T
      PROVE  s \in T
  <2> SUFFICES ASSUME NEW y \in s PROVE Sum(f, s) = f[y] + Sum(f, s \ {y})
    OBVIOUS
  <2> DEFINE c == Pick(s)
  <2>1. c \in s /\ IsFiniteSet(s) /\ \A t \in SUBSET s : IsFiniteSet(t) /\ Sum(f, t) \in Nat
    BY FS_Subset, SumType DEF Pick
  <2>2. Sum(f, s) = f[c] + Sum(f, s \ {c})
    BY <2>1, SumPick
  <2>3. CASE y = c
    BY <2>2, <2>3
  <2>4. CASE y # c
    <3>1. Smaller(s \ {c}, s) /\ Smaller(s \ {y}, s)
      BY <2>1, PickSmaller
    <3>2. Sum(f, s \ {c}) = f[y] + Sum(f, (s \ {c}) \ {y})
      BY <1>1, <2>4, <3>1
    <3>3. Sum(f, s \ {y}) = f[c] + Sum(f, (s \ {y}) \ {c})
      BY <1>1, <2>1, <2>4, <3>1
    <3>4. (s \ {c}) \ {y} = (s \ {y}) \ {c}
      OBVIOUS
    <3>5. f[c] \in Nat /\ f[y] \in Nat /\ Sum(f, (s \ {c}) \ {y}) \in Nat
      BY <2>1
    <3> HIDE DEF c
    <3> QED
      BY <2>2, <3>2, <3>3, <3>4, <3>5
  <2> QED
    BY <2>3, <2>4
<1> HIDE DEF T
<1>2. \A s \in SUBSET S : s \in T
  BY <1>1, SubsetInduction
<1> QED
  BY <1>2 DEF T

LEMMA SumPut ==
  ASSUME NEW S, IsFiniteSet(S), NEW f, \A x \in S : f[x] \in Nat,
         NEW y, y \notin S, f[y] \in Nat
  PROVE  Sum(f, S \cup {y}) = Sum(f, S) + f[y]
<1>1. IsFiniteSet(S \cup {y}) /\ (S \cup {y}) \ {y} = S
  BY FS_AddElement
<1>2. Sum(f, S) \in Nat
  BY SumType
<1>3. Sum(f, S \cup {y}) = f[y] + Sum(f, S)
  <2>1. Sum(f, S \cup {y}) = f[y] + Sum(f, (S \cup {y}) \ {y})
    BY <1>1, SumTake
  <2> QED
    BY <1>1, <2>1
<1> QED
  BY <1>2, <1>3

(* A sum over another set that pays at least as much for each element.     *)
LEMMA SumInto ==
  ASSUME NEW S, IsFiniteSet(S), NEW f, \A x \in S : f[x] \in Nat,
         NEW U, IsFiniteSet(U), NEW g, \A y \in U : g[y] \in Nat,
         NEW h, \A x \in S : h[x] \in U /\ f[x] = g[h[x]],
         \A x, y \in S : h[x] = h[y] => x = y
  PROVE  Sum(f, S) <= Sum(g, U)
<1> DEFINE T == {s \in SUBSET S : \A u \in SUBSET U :
                     (\A x \in s : h[x] \in u) => Sum(f, s) <= Sum(g, u)}
<1>1. ASSUME NEW s \in SUBSET S, \A t \in SUBSET S : Smaller(t, s) => t \in T
      PROVE  s \in T
  <2> SUFFICES ASSUME NEW u \in SUBSET U, \A x \in s : h[x] \in u
               PROVE  Sum(f, s) <= Sum(g, u)
    OBVIOUS
  <2>0. IsFiniteSet(s) /\ IsFiniteSet(u) /\ Sum(f, s) \in Nat /\ Sum(g, u) \in Nat
    BY FS_Subset, SumType
  <2>1. CASE s = {}
    BY <2>0, <2>1, SumEmpty
  <2>2. CASE s # {}
    <3> DEFINE c == Pick(s)
    <3>1. c \in s /\ Smaller(s \ {c}, s)
      BY <2>0, <2>2, PickSmaller DEF Pick
    <3>2. \A x \in s \ {c} : h[x] \in u \ {h[c]}
      BY <3>1
    <3>3. Sum(f, s \ {c}) <= Sum(g, u \ {h[c]})
      BY <1>1, <3>1, <3>2
    <3>4. Sum(f, s) = f[c] + Sum(f, s \ {c})
      BY <2>0, <3>1, SumTake
    <3>5. Sum(g, u) = g[h[c]] + Sum(g, u \ {h[c]})
      BY <2>0, <3>1, SumTake
    <3>6. f[c] = g[h[c]] /\ f[c] \in Nat
      BY <3>1
    <3>7. Sum(f, s \ {c}) \in Nat /\ Sum(g, u \ {h[c]}) \in Nat
      BY <2>0, FS_Subset, SumType
    <3> HIDE DEF c
    <3> QED
      BY <3>3, <3>4, <3>5, <3>6, <3>7
  <2> QED
    BY <2>1, <2>2
<1> HIDE DEF T
<1>2. S \in T
  BY <1>1, SubsetInduction
<1> QED
  BY <1>2 DEF T

(* The sum over two sets.                                                  *)
LEMMA SumSplit ==
  ASSUME NEW A, IsFiniteSet(A), NEW B, IsFiniteSet(B), A \cap B = {},
         NEW f, \A x \in A \cup B : f[x] \in Nat
  PROVE  Sum(f, A \cup B) = Sum(f, A) + Sum(f, B)
<1> DEFINE T == {s \in SUBSET B : Sum(f, A \cup s) = Sum(f, A) + Sum(f, s)}
<1>1. ASSUME NEW s \in SUBSET B, \A t \in SUBSET B : Smaller(t, s) => t \in T
      PROVE  s \in T
  <2>0. Sum(f, A) \in Nat
    BY SumType
  <2>1. CASE s = {}
    <3>1. A \cup s = A /\ Sum(f, s) = 0
      BY <2>1, SumEmpty
    <3>2. Sum(f, A \cup s) = Sum(f, A) /\ Sum(f, A) + 0 = Sum(f, A)
      BY <2>0, <3>1
    <3> QED
      BY <3>1, <3>2
  <2>2. CASE s # {}
    <3> DEFINE c == Pick(s)
               t == s \ {c}
    <3>1. IsFiniteSet(s) /\ c \in s /\ IsFiniteSet(t) /\ IsFiniteSet(A \cup s)
      BY <2>2, FS_Subset, FS_Union DEF Pick
    <3>2. Sum(f, A \cup t) = Sum(f, A) + Sum(f, t)
      BY <1>1, <3>1, PickSmaller
    <3>3. Sum(f, s) = f[c] + Sum(f, t)
      BY <3>1, SumTake
    <3>4. Sum(f, A \cup s) = f[c] + Sum(f, A \cup t)
      <4>1. (A \cup s) \ {c} = A \cup t
        BY <3>1
      <4>2. Sum(f, A \cup s) = f[c] + Sum(f, (A \cup s) \ {c})
        BY <3>1, SumTake
      <4> QED
        BY <4>1, <4>2
    <3>5. f[c] \in Nat /\ Sum(f, t) \in Nat
      BY <3>1, SumType
    <3> HIDE DEF c, t
    <3> QED
      BY <2>0, <3>2, <3>3, <3>4, <3>5
  <2> QED
    BY <2>1, <2>2
<1> HIDE DEF T
<1>2. B \in T
  BY <1>1, SubsetInduction
<1> QED
  BY <1>2 DEF T

-----------------------------------------------------------------------------
(* The counters. *)

(* The charges of the index, which for a key are the cost of its record.   *)
UsedRight ==
    /\ IsFiniteSet(records)
    /\ used = Sum(charge, records)
    /\ \A n \in records \cap Keys : charge[n] = Cost[n]

(* The reservations.                                                       *)
ReservedRight == IsFiniteSet(inflight) /\ reserved = Sum(Cost, inflight)

(* What a step does to the index.                                          *)
LEMMA IndexSteps ==
  ASSUME Inv, [Next]_vars
  PROVE  \/ UNCHANGED <<records, charge, used>>
         \/ \E i \in DOMAIN oldest : removeRecord(i)
         \/ \E n \in Names \ records, c \in Nat : addRecord(n, c) /\ (n \in Keys => c = Cost[n])
         \/ Exit
<1> DEFINE Goal == \/ UNCHANGED <<records, charge, used>>
                   \/ \E i \in DOMAIN oldest : removeRecord(i)
                   \/ \E n \in Names \ records, c \in Nat :
                          addRecord(n, c) /\ (n \in Keys => c = Cost[n])
                   \/ Exit
<1> SUFFICES Goal
  OBVIOUS
<1>0. oldest # <<>> => 1 \in DOMAIN oldest
  BY DEF Inv, TypeOK
<1>1. CASE Scan
  <2>1. CASE \E n \in (disk \cap Keys) \ records : addRecord(n, Cost[n])
    BY <2>1, MarkdownDiskAssumption DEF Names
  <2> QED
    BY <1>1, <2>1 DEF Scan, index
<1>2. CASE Prune
  BY <1>0, <1>2 DEF Prune, index
<1>3. ASSUME NEW w \in Workers, NEW k \in Keys, Reserve(w, k) PROVE Goal
  BY <1>3 DEF Reserve, index
<1>4. ASSUME NEW w \in Workers, MakeRoom(w) PROVE Goal
  BY <1>0, <1>4 DEF MakeRoom
<1>5. ASSUME NEW w \in Workers, Finish(w) PROVE Goal
  <2>1. CASE retained[w] # None /\ addRecord(retained[w], Cost[key[w]])
    <3>1. /\ retained[w] \in Names \ records /\ key[w] \in Keys
          /\ retained[w] \in Keys => retained[w] = key[w]
      BY <1>5, <2>1 DEF Finish, Inv, TypeOK, Hands
    <3>2. Cost[key[w]] \in Nat
      BY <3>1, MarkdownDiskAssumption
    <3> QED
      BY <2>1, <3>1, <3>2
  <2> QED
    BY <1>5, <2>1 DEF Finish, index
<1>6. ASSUME NEW w \in Workers,
             NoRoom(w) \/ Granted(w) \/ CreateTemp(w) \/ Write(w) \/ Rename(w) \/ Cleanup(w)
      PROVE  Goal
  BY <1>6 DEF NoRoom, Granted, CreateTemp, Write, Rename, Cleanup, index
<1>7. CASE (\E p \in Instances : Locked(p)) \/ UNCHANGED vars
  BY <1>7 DEF Locked, vars, index
<1>8. CASE Crash \/ Close
  BY <1>8 DEF Crash, Close
<1> HIDE DEF Goal
<1>9. ASSUME NEW w \in Workers, Store(w) PROVE Goal
  <2>1. \/ \E k \in Keys : Reserve(w, k)
        \/ MakeRoom(w) \/ Finish(w)
        \/ NoRoom(w) \/ Granted(w) \/ CreateTemp(w) \/ Write(w) \/ Rename(w) \/ Cleanup(w)
    BY <1>9 DEF Store
  <2> QED
    BY <2>1, <1>3, <1>4, <1>5, <1>6
<1> QED
  BY <1>1, <1>2, <1>7, <1>8, <1>9 DEF Next

LEMMA UsedStep == Inv /\ UsedRight /\ [Next]_vars => UsedRight'
<1> SUFFICES ASSUME Inv, UsedRight, [Next]_vars PROVE UsedRight'
  OBVIOUS
<1>0. /\ charge \in [Names -> Nat] /\ records \subseteq Names /\ used \in Int
      /\ IsFiniteSet(records) /\ \A n \in records : charge[n] \in Nat
  BY DEF Inv, TypeOK, UsedRight
<1>1. CASE UNCHANGED <<records, charge, used>>
  BY <1>1 DEF UsedRight
<1>2. ASSUME NEW i \in DOMAIN oldest, removeRecord(i) PROVE UsedRight'
  <2> DEFINE n == oldest[i]
  <2>1. n \in records /\ used' = used - charge[n] /\ records' = records \ {n}
        /\ charge' = [charge EXCEPT ![n] = 0]
    BY <1>2 DEF removeRecord, Inv, IndexAgrees
  <2> HIDE DEF n
  <2>2. IsFiniteSet(records') /\ \A m \in records' : charge'[m] = charge[m] /\ m \in records
    BY <1>0, <2>1, FS_Subset
  <2>3. Sum(charge', records') = Sum(charge, records \ {n})
    BY <2>1, <2>2, SumSame
  <2>4. Sum(charge, records) = charge[n] + Sum(charge, records \ {n})
    BY <1>0, <2>1, SumTake
  <2>5. charge[n] \in Nat /\ Sum(charge, records \ {n}) \in Nat
    BY <1>0, <2>1, <2>2, SumType
  <2>6. used' = Sum(charge', records')
    BY <1>0, <2>1, <2>3, <2>4, <2>5 DEF UsedRight
  <2> QED
    BY <2>2, <2>6 DEF UsedRight
<1>3. ASSUME NEW n \in Names \ records, NEW c \in Nat, addRecord(n, c), n \in Keys => c = Cost[n]
      PROVE  UsedRight'
  <2>1. used' = used + c /\ records' = records \cup {n} /\ charge' = [charge EXCEPT ![n] = c]
    BY <1>3 DEF addRecord
  <2>2. charge'[n] = c /\ \A m \in records : charge'[m] = charge[m]
    BY <1>0, <2>1
  <2>3. Sum(charge', records) = Sum(charge, records)
    BY <1>0, <2>2, SumSame
  <2>4. Sum(charge', records \cup {n}) = Sum(charge', records) + c
    BY <1>0, <2>2, SumPut
  <2>5. IsFiniteSet(records')
    BY <1>0, <2>1, FS_AddElement
  <2> QED
    BY <1>3, <2>1, <2>2, <2>3, <2>4, <2>5 DEF UsedRight
<1>4. CASE Exit
  BY <1>4, SumEmpty, FS_EmptySet DEF Exit, UsedRight
<1> QED
  BY <1>1, <1>2, <1>3, <1>4, IndexSteps

LEMMA ReservedStep == Inv /\ ReservedRight /\ [Next]_vars => ReservedRight'
<1> SUFFICES ASSUME Inv, ReservedRight, [Next]_vars PROVE ReservedRight'
  OBVIOUS
<1>0. /\ inflight \subseteq Keys /\ reserved \in Int /\ IsFiniteSet(inflight)
      /\ \A k \in Keys : Cost[k] \in Nat
  BY MarkdownDiskAssumption DEF Inv, TypeOK, ReservedRight
<1>1. CASE UNCHANGED <<reserved, inflight>>
  BY <1>1 DEF ReservedRight
<1>2. ASSUME NEW w \in Workers, Granted(w) PROVE ReservedRight'
  <2>1. key[w] \in Keys /\ key[w] \notin inflight /\ inflight' = inflight \cup {key[w]}
        /\ reserved' = reserved + Cost[key[w]]
    BY <1>2 DEF Granted, Inv, Hands
  <2>2. Sum(Cost, inflight \cup {key[w]}) = Sum(Cost, inflight) + Cost[key[w]]
    BY <1>0, <2>1, SumPut
  <2> QED
    BY <1>0, <2>1, <2>2, FS_AddElement DEF ReservedRight
<1>3. ASSUME NEW w \in Workers, Finish(w) PROVE ReservedRight'
  <2>1. key[w] \in inflight /\ inflight' = inflight \ {key[w]}
        /\ reserved' = reserved - Cost[key[w]]
    BY <1>3 DEF Finish, Inv, Hands, Storing
  <2>2. Sum(Cost, inflight) = Cost[key[w]] + Sum(Cost, inflight \ {key[w]})
    BY <1>0, <2>1, SumTake
  <2>3. IsFiniteSet(inflight')
    BY <1>0, <2>1, FS_Subset
  <2>4. Cost[key[w]] \in Nat /\ Sum(Cost, inflight \ {key[w]}) \in Nat
    BY <1>0, <2>1, <2>3, SumType
  <2> QED
    BY <1>0, <2>1, <2>2, <2>3, <2>4 DEF ReservedRight
<1>4. CASE Exit
  BY <1>4, SumEmpty, FS_EmptySet DEF Exit, ReservedRight
<1> QED
  BY <1>1, <1>2, <1>3, <1>4 DEF Next, Store, Locked, Scan, Prune, Crash, Close, Reserve, MakeRoom,
     NoRoom, CreateTemp, Write, Rename, Cleanup, reservations, vars

(* A file that is in no record is in the hand of one worker, whose         *)
(* reservation is what the file costs.                                     *)
LEMMA HandsPaid ==
  ASSUME Inv, phase = "open"
  PROVE  LET H == disk \ records
             Of(n) == CHOOSE w \in Workers : n \in {tmp[w], retained[w]}
         IN  /\ \A n \in H : key[Of(n)] \in inflight /\ Bytes(n) = Cost[key[Of(n)]]
             /\ \A n, m \in H : key[Of(n)] = key[Of(m)] => n = m
<1> DEFINE H == disk \ records
           Of(n) == CHOOSE w \in Workers : n \in {tmp[w], retained[w]}
<1>1. ASSUME NEW n \in H
      PROVE  /\ Of(n) \in Workers /\ n \in {tmp[Of(n)], retained[Of(n)]} /\ n # None
             /\ at[Of(n)] \in Storing /\ key[Of(n)] \in inflight
             /\ Bytes(n) = Cost[key[Of(n)]]
             /\ n = IF tmp[Of(n)] # None THEN tmp[Of(n)] ELSE retained[Of(n)]
  <2>1. n \in InHand /\ n # None
    BY MarkdownDiskAssumption DEF Inv, Known, EveryFileCharged, TypeOK, Names
  <2>2. Of(n) \in Workers /\ n \in {tmp[Of(n)], retained[Of(n)]}
    BY <2>1 DEF InHand
  <2>3. Bytes(n) = IF n \in Keys THEN Cost[n] ELSE Cost[key[Of(n)]]
    BY DEF Bytes
  <2> DEFINE w == Of(n)
  <2> HIDE DEF Of
  <2>4. at[w] \in {"write", "publish", "cleanup"} \/ at[w] = "finish"
    BY <2>1, <2>2 DEF Inv, Hands
  <2>5. n \in Keys => n = key[w]
    BY <2>1, <2>2, MarkdownDiskAssumption DEF Inv, Hands, TypeOK
  <2>6. n = IF tmp[w] # None THEN tmp[w] ELSE retained[w]
    BY <2>1, <2>2, <2>4 DEF Inv, Hands
  <2>7. at[w] \in Storing /\ key[w] \in inflight
    BY <2>2, <2>4 DEF Inv, Hands, Storing
  <2> QED
    BY <2>1, <2>2, <2>3, <2>5, <2>6, <2>7
<1> HIDE DEF Of
<1>2. ASSUME NEW n \in H, NEW m \in H, key[Of(n)] = key[Of(m)] PROVE n = m
  <2>1. Of(n) = Of(m)
    BY <1>1, <1>2 DEF Inv, Apart
  <2> QED
    BY <1>1, <2>1
<1> QED
  BY <1>1, <1>2 DEF Of

LEMMA DirectoryWithin == Inv /\ UsedRight /\ ReservedRight => WithinBudget
<1> SUFFICES ASSUME Inv, UsedRight, ReservedRight, phase = "open"
             PROVE  Sum([n \in disk |-> Bytes(n)], disk) <= Budget[writer]
  BY DEF WithinBudget, Sum
<1> DEFINE f == [n \in disk |-> Bytes(n)]
           H == disk \ records
           h == [n \in H |-> key[CHOOSE w \in Workers : n \in {tmp[w], retained[w]}]]
<1>1. /\ \A n \in H : h[n] \in inflight /\ f[n] = Cost[h[n]]
      /\ \A n, m \in H : h[n] = h[m] => n = m
  BY HandsPaid
<1>2. records \subseteq disk /\ disk = records \cup H
  BY MarkdownDiskAssumption DEF Inv, Known, EveryFileCharged, TypeOK, Names
<1>3. /\ \A n \in records : f[n] = charge[n] /\ charge[n] \in Nat
      /\ \A k \in inflight : Cost[k] \in Nat
  BY <1>2, MarkdownDiskAssumption DEF Bytes, UsedRight, Inv, TypeOK
<1>4. IsFiniteSet(records) /\ IsFiniteSet(inflight)
  BY DEF UsedRight, ReservedRight
<1>5. IsFiniteSet(H)
  <2>1. h \in [H -> inflight]
    BY <1>1
  <2> HIDE DEF h, H
  <2>2. h \in Injection(H, inflight)
    BY <1>1, <2>1 DEF Injection, IsInjective
  <2> QED
    BY <1>4, <2>2, FS_Injection
<1> HIDE DEF f, h
<1>6. \A n \in H : f[n] \in Nat
  BY <1>1, <1>3
<1>7. Sum(f, disk) = Sum(f, records) + Sum(f, H)
  BY <1>2, <1>3, <1>4, <1>5, <1>6, SumSplit
<1>8. Sum(f, records) = used
  BY <1>3, <1>4, SumSame DEF UsedRight
<1>9. Sum(f, H) <= reserved
  BY <1>1, <1>3, <1>4, <1>5, <1>6, SumInto DEF ReservedRight
<1>10. used + reserved <= Budget[writer] /\ used \in Int /\ reserved \in Int
       /\ Budget[writer] \in Nat
  BY MarkdownDiskAssumption DEF Inv, Budgeted, TypeOK
<1>11. Sum(f, H) \in Nat
  BY <1>5, <1>6, SumType
<1> QED
  BY <1>7, <1>8, <1>9, <1>10, <1>11 DEF f

LEMMA CountersRight == Spec => [](UsedRight /\ ReservedRight)
<1>1. Init => UsedRight /\ ReservedRight
  BY SumEmpty, FS_EmptySet DEF Init, UsedRight, ReservedRight
<1>2. Inv /\ UsedRight /\ ReservedRight /\ [Next]_vars => (UsedRight /\ ReservedRight)'
  BY UsedStep, ReservedStep
<1> QED
  BY <1>1, <1>2, Inductive, PTL DEF Spec

(* The counters count what they should, and with them the directory stays  *)
(* within the budget of its writer, whatever fails and whoever crashed.    *)
THEOREM CountersAddUp == Spec => []AccountsAddUp
<1>1. Inv /\ UsedRight /\ ReservedRight => AccountsAddUp
  BY DirectoryWithin DEF UsedRight, ReservedRight, AccountsAddUp, AccountsMatch, Sum
<1> QED
  BY <1>1, CountersRight, Inductive, PTL
=============================================================================
