-------------------------- MODULE CloudflareDeploy --------------------------
(***************************************************************************)
(* `huan deploy cloudflare` from its configuration to its report           *)
(* (plugins/cloudflare: ParseConfig and AllWorkers in options.go, Deploy   *)
(* in plugin.go, BuildManifest in manifest.go, the worker uploads of       *)
(* worker.go): one call deploys to one target, which is PagesDeploy,       *)
(* R2Sync, or the loop over the worker scripts that is modelled here.      *)
(***************************************************************************)
EXTENDS PagesDeploy

CONSTANTS
    Configs,              \* yaml configurations, as ParseConfig decodes them
    TargetLists,          \* opts.Targets
    Trees,                \* output directories: sequences of files [name, size, symlink]
    MaxFileCount, MaxFileSize,
    Mappings, MD5, Large, Begins, Buckets, MaxSyncs

Scripts == [name : STRING, script : STRING, date : STRING]

ASSUME DeployAssumption ==
    /\ Mappings \in Seq([isFile : BOOLEAN, walk : Seq(STRING),
                        to : [lead : BOOLEAN, name : STRING, trail : BOOLEAN]])
    /\ \A c \in Configs :
          /\ {"workers", "worker", "r2"} \subseteq DOMAIN c
          /\ c.workers \in Seq(Scripts) /\ c.worker \in Seq(Scripts)

VARIABLES
    deploying,            \* where Deploy stands: the target, or how it ended
    workers,              \* deployWorker: the scripts, those to go, the aggregate
    sync, bucket, syncs, previous

r2 == <<sync, bucket, syncs, previous>>
allVars == <<vars, deploying, workers, r2>>

R2 == INSTANCE R2Sync WITH MaxParallel <- HTTPMaxParallel

-----------------------------------------------------------------------------
(* The configuration.                                                      *)

(* The settings without which nothing is deployed, whatever the target.    *)
Valid(c) == \A field \in {"accountId", "apiToken", "project", "branch"} : c[field]
ParseConfig(c) == [c EXCEPT !.r2.accountId = @ \/ c.accountId]

HasR2Configured(c) == c.r2.accountId \/ c.r2.accessKeyId \/ c.r2.bucket \/ c.r2.sync # <<>>
ValidR2(c) ==
    (c.r2.accountId \/ c.r2.endpoint) /\ c.r2.accessKeyId /\ c.r2.secretAccessKey /\ c.r2.bucket

(* The plural form first, each name once, and then the singular one.       *)
Kept(out, w) ==
    IF \/ w.name = "" /\ w.script = ""
       \/ \E v \in ToSet(out) : v.name = w.name
    THEN out ELSE Append(out, w)

Distinct(scripts) ==
    LET out[n \in 0..Len(scripts)] == IF n = 0 THEN <<>> ELSE Kept(out[n-1], scripts[n])
    IN  out[Len(scripts)]

AllWorkers(c) == Distinct(c.workers \o c.worker)

ValidWorker(w) == w.name # "" /\ w.script # "" /\ w.date # "malformed"

(* The assets, or "refused": a file or the whole is too large. Symbolic    *)
(* links are skipped.                                                      *)
BuildManifest(files) ==
    LET assets == SelectSeq(files, LAMBDA f : ~f.symlink)
    IN  IF Len(assets) > MaxFileCount \/ \E f \in ToSet(assets) : f.size > MaxFileSize
        THEN <<"refused">>
        ELSE [i \in 1..Len(assets) |-> assets[i].name]

-----------------------------------------------------------------------------
DeployInit ==
    /\ Init
    /\ deploying = "cli"
    /\ workers = [dryRun |-> FALSE, scripts |-> <<>>, todo |-> <<>>, uploaded |-> {},
                  attempted |-> 0, succeeded |-> 0, failures |-> {}]
    /\ sync = R2!Called(FALSE, FALSE) /\ bucket = R2!None /\ syncs = 1 /\ previous = R2!None

Outcome(s) == deploying' = s

(* The command: a configuration that does not load, a build asked for that *)
(* fails, or no plugin that deploys, and nothing is called.                *)
RunDeployCloudflare ==
    /\ deploying = "cli"
    /\ Outcome("called") \/ Outcome("refused")
    /\ UNCHANGED <<vars, workers, r2>>

StartPages(files, dryRun) ==
    /\ Outcome(IF BuildManifest(files) # Assets THEN "refused"
               ELSE IF dryRun THEN "dry-run" ELSE "pages")
    /\ UNCHANGED <<workers, r2>>

StartR2(c, prune, dryRun) ==
    /\ IF HasR2Configured(c) /\ c.r2.sync # <<>> /\ ValidR2(c)
       THEN Outcome("r2") /\ sync' = R2!Called(prune, dryRun) /\ bucket' \in Buckets
       ELSE Outcome("refused") /\ UNCHANGED <<sync, bucket>>
    /\ UNCHANGED <<workers, syncs, previous>>

StartWorkers(c, dryRun) ==
    /\ IF AllWorkers(c) = <<>> THEN Outcome("refused") ELSE Outcome("worker")
    /\ workers' = [workers EXCEPT !.dryRun = dryRun, !.scripts = AllWorkers(c),
                       !.todo = AllWorkers(c), !.attempted = Len(AllWorkers(c))]
    /\ UNCHANGED r2

(* Deploy starts the work for the one target of a valid request.           *)
Deploy ==
    /\ deploying = "called"
    /\ \E raw \in Configs, targets \in TargetLists, files \in Trees, prune, dryRun \in BOOLEAN :
        LET c == ParseConfig(raw)
        IN  \/ /\ ~Valid(raw) \/ Len(targets) # 1
               /\ Outcome("refused") /\ UNCHANGED <<workers, r2>>
            \/ /\ Valid(raw) /\ Len(targets) = 1
               /\ CASE targets[1] = "pages" -> StartPages(files, dryRun)
                    [] targets[1] = "r2" -> stored = {} /\ StartR2(c, prune, dryRun)
                    [] targets[1] = "worker" -> stored = {} /\ StartWorkers(c, dryRun)
                    [] OTHER -> Outcome("refused") /\ UNCHANGED <<workers, r2>>
    /\ UNCHANGED vars

(* The next script: validated, read, and uploaded unless this is a dry     *)
(* run. A failure is collected and the loop goes on; an upload reported as *)
(* failed may have been carried out. A dry run counts as a success.        *)
DeployWorker ==
    /\ deploying = "worker" /\ workers.todo # <<>>
    /\ LET w == Head(workers.todo)
           next == [workers EXCEPT !.todo = Tail(@)]
           failed == [next EXCEPT !.failures = @ \cup {w.name}]
       IN  \/ workers' = failed
           \/ /\ ValidWorker(w) /\ ~workers.dryRun
              /\ workers' \in {[n EXCEPT !.uploaded = @ \cup {w}] :
                                   n \in {failed, [next EXCEPT !.succeeded = @ + 1]}}
           \/ /\ ValidWorker(w) /\ workers.dryRun
              /\ workers' = [next EXCEPT !.succeeded = @ + 1]
    /\ UNCHANGED <<vars, deploying, r2>>

DeployWorkersDone ==
    /\ deploying = "worker" /\ workers.todo = <<>>
    /\ Outcome(IF workers.failures = {} THEN "ok" ELSE "failed")
    /\ UNCHANGED <<vars, workers, r2>>

DeployPagesStep == deploying = "pages" /\ (Running \/ Cancel \/ Expire) /\ UNCHANGED <<deploying, workers, r2>>
DeployR2Step == deploying = "r2" /\ R2!R2Next /\ UNCHANGED <<vars, deploying, workers>>

(* Any other state without a step is a deadlock. *)
Finished ==
    /\ \/ deploying \in {"refused", "dry-run", "ok", "failed"}
       \/ deploying = "pages" /\ stage = "done"
       \/ deploying = "r2" /\ sync.step = "done"
    /\ UNCHANGED allVars

DeployNext ==
    \/ RunDeployCloudflare \/ Deploy \/ DeployPagesStep \/ DeployR2Step
    \/ DeployWorker \/ DeployWorkersDone \/ Finished

DeploySpec == DeployInit /\ [][DeployNext]_allVars

-----------------------------------------------------------------------------
(* Properties. *)

(* A sync that was not cancelled leaves in the bucket what it read, which  *)
(* is all of each mapping it could walk to the end, or says what it could  *)
(* not put there; after a prune without failures nothing else is under the *)
(* prefixes; and a second sync of the same files uploads nothing but what  *)
(* goes in parts and what no prefix lists.                                 *)
SyncMirrors == R2!Mirrored /\ R2!SecondSyncSkips

(* Each script ends up uploaded, failed or, in a dry run, only counted;    *)
(* one that fails does not keep the others from being uploaded; and no     *)
(* script is uploaded over another of the same name.                       *)
WorkersAccounted ==
    deploying \in {"ok", "failed"} =>
        /\ workers.succeeded + Cardinality(workers.failures) = workers.attempted
        /\ \A w \in ToSet(workers.scripts) :
               w.name \notin workers.failures /\ ~workers.dryRun => w \in workers.uploaded
        /\ \A v, w \in workers.uploaded : v.name = w.name => v = w

(* Whatever fails at whichever moment, the report of a deployment to any   *)
(* target adds up: assets, objects and scripts are each counted once.      *)
ReportsAddUp == Accounted /\ R2!SyncAccounted /\ WorkersAccounted
=============================================================================
