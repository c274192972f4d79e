------------------------------- MODULE R2Sync -------------------------------
(***************************************************************************)
(* The synchronisation of local files with an R2 bucket (Sync in           *)
(* plugins/cloudflare/r2.go): walk the mapped paths, list the bucket,      *)
(* upload what differs, and prune what has no local file.                  *)
(*                                                                         *)
(* A path `to` and a key are cut where the code looks at them: a leading   *)
(* slash, a name, and for `to` a trailing slash, for a key what follows    *)
(* the name. A content is its MD5; an object keeps it, and whether it was  *)
(* sent in parts, so that its ETag is not that MD5. Walking a mapping,     *)
(* listing, and each call for one object are steps; any of them may fail.  *)
(* The limiter is its cap alone, since nothing degrades it here.           *)
(***************************************************************************)
EXTENDS Naturals, FiniteSets, Functions, SequencesExt

CONSTANTS
    Mappings,        \* r2.sync: records [isFile, walk, to]; walk is a sequence of files
    MD5,             \* of each local file
    Begins,          \* pairs <<p, n>> of names: n begins with the string p
    Large,           \* files that the client sends in parts (more than 16 MiB)
    Buckets,         \* what the bucket may hold at first: functions from keys to objects
    MaxParallel,     \* HTTPMaxParallel
    MaxSyncs         \* bound: synchronisations, one after the other

VARIABLES
    sync,            \* the call of Sync: its locals and its result
    bucket,          \* the objects of the bucket: key -> [md5, parts]
    syncs, previous  \* calls begun; the local files of the last one if it was clean

history == <<syncs, previous>>

None == <<>>         \* the function with no keys
Key(lead, name, rest) == [lead |-> lead, name |-> name, rest |-> rest]

(* addFile: the key of file f of mapping m.                                *)
KeyOf(m, f) ==
    IF m.isFile /\ ~m.to.trail
    THEN Key(FALSE, m.to.name, "")
    ELSE Key(m.to.lead, m.to.name, f)

(* A listed key begins with the string `to`, without its trailing slash.   *)
HasPrefix(k, m) == k.lead = m.to.lead /\ <<m.to.name, k.name>> \in Begins
Listed(k) == \E m \in ToSet(Mappings) : HasPrefix(k, m)
ListAll == Restrict(bucket, {k \in DOMAIN bucket : Listed(k)})

Put(f, k, v) == [x \in DOMAIN f \cup {k} |-> IF x = k THEN v ELSE f[x]]

(* The entries of the first n files of m, put over those of earlier ones.  *)
WithFiles(objs, m, n) ==
    LET put[i \in 0..n] ==
            IF i = 0 THEN objs ELSE Put(put[i-1], KeyOf(m, m.walk[i]), m.walk[i])
    IN  put[n]

(* A call of Sync: `remote` is what listAll returned, `waiting` and        *)
(* `holding` are the goroutines without and with a slot of the limiter,    *)
(* `doomed` the listed keys that the prune loop has yet to look at, and    *)
(* `cut` the mappings of which some file was not read (history).           *)
Called(prune, dryRun) ==
    [step |-> "bucket", prune |-> prune, dryRun |-> dryRun, walked |-> 0,
     localObjs |-> None, remote |-> None, waiting |-> {}, holding |-> {}, doomed |-> {},
     attempted |-> 0, succeeded |-> 0, skipped |-> 0, failed |-> 0, pruned |-> 0,
     failures |-> {}, cut |-> {}, err |-> FALSE, cancelled |-> FALSE]

Local(k) == MD5[sync.localObjs[k]]

(* PutObject: the object that the local file of k becomes.                 *)
Object(k) == [md5 |-> Local(k), parts |-> sync.localObjs[k] \in Large]

(* The ETag of an object is the MD5 of the local file; what was sent in    *)
(* parts has the ETag "<md5>-N", which no MD5 is.                          *)
SameETag(object, k) == ~object.parts /\ object.md5 = Local(k)

Matches(k) == k \in DOMAIN sync.remote /\ SameETag(sync.remote[k], k)

-----------------------------------------------------------------------------
CheckBucket ==
    /\ sync.step = "bucket"
    /\ sync' \in {[sync EXCEPT !.step = "walk"], [sync EXCEPT !.step = "done", !.err = TRUE]}
    /\ UNCHANGED <<bucket, history>>

(* One mapping: missing, which is reported; or walked up to its end or to  *)
(* the first file that cannot be read, which is only logged: the upload    *)
(* and the prune go on with what was read.                                 *)
WalkLocal ==
    /\ sync.step = "walk" /\ sync.walked < Len(Mappings)
    /\ LET m == Mappings[sync.walked + 1]
           next == [sync EXCEPT !.walked = @ + 1]
           cut == sync.cut \cup {sync.walked + 1}
       IN  \/ sync' = [next EXCEPT !.failures = @ \cup {<<"walk", m.to.name>>}, !.cut = cut]
           \/ \E n \in 0..Len(m.walk) :
                  sync' = [next EXCEPT !.localObjs = WithFiles(@, m, n),
                                       !.cut = IF n < Len(m.walk) THEN cut ELSE @]
    /\ UNCHANGED <<bucket, history>>

(* The list fails, or starts the uploads, or ends a dry run.               *)
List ==
    /\ sync.step = "walk" /\ sync.walked = Len(Mappings)
    /\ LET keys == DOMAIN sync.localObjs
           next == [sync EXCEPT !.attempted = Cardinality(keys)]
           same == {k \in keys \cap DOMAIN ListAll : SameETag(ListAll[k], k)}
       IN  \/ sync' = [next EXCEPT !.step = "done", !.err = TRUE]
           \/ /\ sync.dryRun
              /\ sync' = [next EXCEPT !.step = "done", !.skipped = Cardinality(same),
                             !.pruned = IF sync.prune THEN Cardinality(DOMAIN ListAll \ keys)
                                        ELSE 0]
           \/ /\ ~sync.dryRun
              /\ sync' = [next EXCEPT !.step = "upload", !.remote = ListAll, !.waiting = keys]
    /\ UNCHANGED <<bucket, history>>

(* The goroutine of key k gets a slot, or sees the cancelled context.      *)
AcquireSlot(k) ==
    /\ k \in sync.waiting /\ Cardinality(sync.holding) < MaxParallel
    /\ sync' = [sync EXCEPT !.waiting = @ \ {k}, !.holding = @ \cup {k}]
    /\ UNCHANGED <<bucket, history>>

GiveUpSlot(k) ==
    /\ k \in sync.waiting /\ sync.cancelled
    /\ sync' = [sync EXCEPT !.waiting = @ \ {k}]
    /\ UNCHANGED <<bucket, history>>

(* Variant for the checks: an object that is there is not compared.        *)
UploadOneIfAbsent(k) ==
    /\ k \in sync.holding
    /\ sync' = [sync EXCEPT !.holding = @ \ {k},
                   !.skipped = IF k \in DOMAIN sync.remote THEN @ + 1 ELSE @,
                   !.succeeded = IF k \in DOMAIN sync.remote THEN @ ELSE @ + 1]
    /\ bucket' = IF k \in DOMAIN sync.remote THEN bucket ELSE Put(bucket, k, Object(k))
    /\ UNCHANGED history

(* The body of the goroutine, which ends with Release. An upload that is   *)
(* reported as failed may have reached the bucket.                         *)
UploadOne(k) ==
    /\ k \in sync.holding
    /\ LET next == [sync EXCEPT !.holding = @ \ {k}]
       IN  \/ /\ Matches(k)
              /\ sync' = [next EXCEPT !.skipped = @ + 1]
              /\ UNCHANGED bucket
           \/ /\ ~Matches(k)
              /\ sync' = [next EXCEPT !.succeeded = @ + 1]
              /\ bucket' = Put(bucket, k, Object(k))
           \/ /\ ~Matches(k)
              /\ sync' = [next EXCEPT !.failed = @ + 1, !.failures = @ \cup {<<"upload", k>>}]
              /\ bucket' \in {bucket, Put(bucket, k, Object(k))}
    /\ UNCHANGED history

(* wg.Wait() *)
UploadsDone ==
    /\ sync.step = "upload" /\ sync.waiting = {} /\ sync.holding = {}
    /\ sync' = IF sync.prune
               THEN [sync EXCEPT !.step = "prune", !.doomed = DOMAIN sync.remote]
               ELSE [sync EXCEPT !.step = "done"]
    /\ UNCHANGED <<bucket, history>>

Prune(k) ==
    /\ sync.step = "prune" /\ k \in sync.doomed
    /\ LET next == [sync EXCEPT !.doomed = @ \ {k}]
       IN  \/ k \in DOMAIN sync.localObjs /\ sync' = next /\ UNCHANGED bucket
           \/ /\ k \notin DOMAIN sync.localObjs
              /\ sync' = [next EXCEPT !.pruned = @ + 1]
              /\ bucket' = Restrict(bucket, DOMAIN bucket \ {k})
           \/ /\ k \notin DOMAIN sync.localObjs
              /\ sync' = [next EXCEPT !.failures = @ \cup {<<"prune", k>>}]
              /\ UNCHANGED bucket
    /\ UNCHANGED history

PruneDone ==
    /\ sync.step = "prune" /\ sync.doomed = {}
    /\ sync' = [sync EXCEPT !.step = "done"]
    /\ UNCHANGED <<bucket, history>>

CancelSync ==
    /\ ~sync.cancelled /\ sync.step \in {"upload", "prune"}
    /\ sync' = [sync EXCEPT !.cancelled = TRUE]
    /\ UNCHANGED <<bucket, history>>

(* The user deploys once more.                                             *)
Clean(s) == ~s.err /\ ~s.cancelled /\ ~s.dryRun /\ s.failures = {}
SyncAgain ==
    /\ sync.step = "done" /\ syncs < MaxSyncs
    /\ \E prune, dryRun \in BOOLEAN : sync' = Called(prune, dryRun)
    /\ syncs' = syncs + 1
    /\ previous' = IF Clean(sync) THEN sync.localObjs ELSE None
    /\ UNCHANGED bucket

R2Next ==
    \/ CheckBucket \/ WalkLocal \/ List \/ UploadsDone \/ PruneDone \/ CancelSync
    \/ \E k \in DOMAIN sync.localObjs : AcquireSlot(k) \/ GiveUpSlot(k) \/ UploadOne(k)
    \/ \E k \in sync.doomed : Prune(k)
    \/ SyncAgain

-----------------------------------------------------------------------------
(* Properties. *)

Sent == sync.step = "done" /\ ~sync.err /\ ~sync.dryRun /\ ~sync.cancelled

(* The keys of the files of every mapping that was read to its end.        *)
WholeKeys ==
    UNION {{KeyOf(Mappings[i], f) : f \in ToSet(Mappings[i].walk)} :
               i \in DOMAIN Mappings \ sync.cut}

(* What a sync that was not cancelled leaves in the bucket: every file it  *)
(* read is there in its local version or its upload is reported as failed, *)
(* which takes in all files of a mapping read to its end (the objects of   *)
(* one that was cut short are pruned although the files exist); and after  *)
(* a prune without failures nothing else is under the prefixes.            *)
Mirrored ==
    Sent => /\ \A k \in DOMAIN sync.localObjs \cup WholeKeys :
                   \/ <<"upload", k>> \in sync.failures
                   \/ k \in DOMAIN bucket /\ bucket[k].md5 = Local(k)
            /\ sync.prune /\ sync.failures = {} => DOMAIN ListAll \subseteq DOMAIN sync.localObjs

(* The counters agree with what happened, whichever goroutines failed.     *)
SyncAccounted ==
    Sent => /\ sync.succeeded + sync.skipped + sync.failed = sync.attempted
            /\ sync.failed = Cardinality({f \in sync.failures : f[1] = "upload"})

(* After a clean sync a second one of the same files uploads nothing but   *)
(* the files sent in parts, whose ETag never matches, and those whose key  *)
(* no prefix lists: a single file that is mapped to a name with a leading  *)
(* slash is stored without it and never found.                             *)
SentAgain(k) == ~Listed(k) \/ sync.localObjs[k] \in Large

SecondSyncSkips ==
    Sent /\ previous # None /\ sync.localObjs = previous =>
        sync.attempted - sync.skipped
            <= Cardinality({k \in DOMAIN sync.localObjs : SentAgain(k)})
=============================================================================
