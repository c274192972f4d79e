---------------------------- MODULE PagesDeploy ----------------------------
(***************************************************************************)
(* A deployment to Cloudflare Pages (plugins/cloudflare: DeployPages in    *)
(* pages.go, the client with its retries and its cached JWT in client.go   *)
(* and retry.go, Batch in manifest.go), composed with the upload Limiter.  *)
(*                                                                         *)
(* Caller 0 is DeployPages itself; callers 1.. are the goroutines that     *)
(* upload a batch each. A caller makes one API call at a time; a request   *)
(* is sent in one step and answered in another. Tokens are the epochs they *)
(* were issued in: Cloudflare accepts those of the current epoch.          *)
(***************************************************************************)
EXTENDS UploadLimits, SequencesExt

CONSTANTS
    Assets,               \* the manifest: a sequence of assets
    Hash, Size,           \* of each asset
    MaxFilesPerBatch, MaxBatchSize,
    MaxRetries,
    MaxFaults,            \* bound: answers that are errors
    MaxExpiries           \* bound: times the JWTs expire

(* The goroutine of batch w is worker w.                                   *)
ASSUME PagesAssumption ==
    /\ Assets \in Seq(DOMAIN Hash)
    /\ 1..Len(Assets) \subseteq Workers /\ Workers \subseteq Nat \ {0}

VARIABLES
    stage,                \* where DeployPages stands
    err,                  \* what it returned
    report,               \* counters of the report
    jwtAuth,              \* the token DeployPages passes around
    missing,              \* answer of check-missing
    toUpload,             \* assets to upload
    firstErr,             \* first error of a batch
    phase,                \* where each caller is in its API call
    token,                \* the token it uses
    attempt,              \* retries made
    outcome,              \* what the call returned
    flying,               \* callers with a request in flight
    cached,               \* c.jwtCache[project], 0 for none
    sem, degraded, at,    \* the limiter
    cancelled,            \* the context
    epoch, faults,        \* Cloudflare and the network
    stored, upserted,     \* hashes uploaded, and acknowledged
    deployments           \* deployments created

main == <<stage, err, report, jwtAuth, missing, toUpload, firstErr>>
calls == <<phase, token, attempt, outcome, flying, cached>>
limiter == <<sem, degraded, at>>
world == <<cancelled, epoch, faults, stored, upserted, deployments>>
vars == <<main, calls, limiter, world>>

Hashes == {Hash[a] : a \in ToSet(Assets)}

(* The assets whose hash Cloudflare reported missing, in order. *)
Split(assets, hashes) ==
    LET upload[n \in 0..Len(assets)] ==
            IF n = 0 THEN <<>>
            ELSE IF Hash[assets[n]] \in hashes THEN Append(upload[n-1], assets[n])
            ELSE upload[n-1]
    IN  upload[Len(assets)]

(* Chunks of at most MaxFilesPerBatch files and MaxBatchSize bytes; an     *)
(* asset that does not fit into the last one begins another.               *)
Bytes(chunk) == FoldLeft(LAMBDA n, a : n + Size[a], 0, chunk)

Fits(chunk, a) ==
    Len(chunk) < MaxFilesPerBatch /\ Bytes(chunk) + Size[a] <= MaxBatchSize

Place(chunks, a) ==
    IF chunks # <<>> /\ Fits(chunks[Len(chunks)], a)
    THEN [chunks EXCEPT ![Len(chunks)] = Append(@, a)]
    ELSE Append(chunks, <<a>>)

Batch(assets) ==
    LET batches[n \in 0..Len(assets)] ==
            IF n = 0 THEN <<>> ELSE Place(batches[n-1], assets[n])
    IN  batches[Len(assets)]

Batches == Batch(toUpload)
Launched == 1..Len(Batches)
Callers == {0} \cup Workers

Limit == INSTANCE Limiter

(* "post" and "repost": the request itself, first and after a refresh of   *)
(* the token ("invalidate", "lock", "fetch").                              *)
Requests == {"post", "fetch", "repost"}

(* A cfError with a status from 500 to 599: no request ends with one, since *)
(* the client tries a 5xx answer again and then only says "exhausted". *)
Is5xx(e) == e = "unavailable"

Init ==
    /\ stage = "upload-token" /\ err = "none"
    /\ report = [attempted |-> 0, skipped |-> 0, succeeded |-> 0, failed |-> 0]
    /\ jwtAuth = 0 /\ missing = {} /\ toUpload = <<>> /\ firstErr = "none"
    /\ phase = [c \in Callers |-> IF c = 0 THEN "lock" ELSE "idle"]
    /\ token = [c \in Callers |-> 0]
    /\ attempt = [c \in Callers |-> 0]
    /\ outcome = [c \in Callers |-> "none"]
    /\ flying = {} /\ cached = 0
    /\ Limit!Init
    /\ cancelled = FALSE /\ epoch = 1 /\ faults = 0
    /\ stored \in SUBSET Hashes /\ upserted = {}
    /\ deployments = 0

-----------------------------------------------------------------------------
(* One API call. *)

Goto(c, p) == phase' = [phase EXCEPT ![c] = p]

(* The call returns r. *)
Returns(c, r) ==
    /\ Goto(c, "returned")
    /\ outcome' = [outcome EXCEPT ![c] = r]
    /\ attempt' = [attempt EXCEPT ![c] = 0]
    /\ UNCHANGED token

(* doForm has no retry, doJSONNoLock has MaxRetries. *)
Retries(c) == IF c = 0 /\ stage = "deployment" THEN 0 ELSE MaxRetries

(* A request is sent, also after the wait of a retry, unless the context   *)
(* is cancelled.                                                           *)
Send(c) ==
    /\ phase[c] \in Requests /\ c \notin flying
    /\ \/ /\ ~cancelled
          /\ flying' = flying \cup {c}
          /\ UNCHANGED <<phase, token, attempt, outcome>>
       \/ /\ cancelled
          /\ Returns(c, "cancelled")
          /\ UNCHANGED flying
    /\ UNCHANGED <<cached, main, limiter, world>>

(* What Cloudflare does with the request. *)
Applied(c) ==
    CASE phase[c] = "fetch" -> UNCHANGED <<stored, upserted, deployments>>
      [] OTHER ->
         /\ stored' = stored \cup
                (IF c \in Workers THEN {Hash[a] : a \in ToSet(Batches[c])} ELSE {})
         /\ upserted' = upserted \cup (IF c = 0 /\ stage = "upsert-hashes" THEN Hashes ELSE {})
         /\ deployments' = IF c = 0 /\ stage = "deployment" THEN 1 ELSE deployments

Expired(c) ==
    /\ phase[c] # "fetch" /\ token[c] # epoch
    /\ ~(c = 0 /\ stage = "deployment")    \* uses the API token

(* A good answer: check-missing reports, upload-token issues. *)
Ok(c) ==
    /\ ~Expired(c)
    /\ Applied(c)
    /\ missing' = IF c = 0 /\ stage = "check-missing" THEN Hashes \ stored ELSE missing
    /\ IF phase[c] = "fetch"
       THEN /\ cached' = epoch
            /\ token' = [token EXCEPT ![c] = epoch]
            /\ Goto(c, IF stage = "upload-token" THEN "returned" ELSE "repost")
            /\ outcome' = [outcome EXCEPT ![c] = IF stage = "upload-token" THEN "ok" ELSE @]
            /\ attempt' = [attempt EXCEPT ![c] = 0]
       ELSE Returns(c, "ok") /\ UNCHANGED cached
    /\ UNCHANGED <<faults>>

(* The first "jwt expired" refreshes the token, the second is an error. *)
TokenExpired(c) ==
    /\ Expired(c)
    /\ IF phase[c] = "post"
       THEN Goto(c, "invalidate") /\ attempt' = [attempt EXCEPT ![c] = 0]
                                  /\ UNCHANGED <<token, outcome>>
       ELSE Returns(c, "expired")
    /\ UNCHANGED <<cached, missing, faults, stored, upserted, deployments>>

(* A refusal, or the context cancelled while the answer is on its way. *)
Refused(c) ==
    /\ \/ faults < MaxFaults /\ faults' = faults + 1 /\ Returns(c, "refused")
       \/ cancelled /\ UNCHANGED faults /\ Returns(c, "cancelled")
    /\ UNCHANGED <<cached, missing, stored, upserted, deployments>>

RetriesLeft(c) == attempt[c] < Retries(c)

(* No answer, 5xx or 429, which ClassifyError finds worth a retry. The      *)
(* request may have been carried out.                                      *)
NotAnswered(c) ==
    /\ faults < MaxFaults /\ faults' = faults + 1
    /\ \/ Applied(c) /\ ~Expired(c)
       \/ UNCHANGED <<stored, upserted, deployments>>
    /\ IF RetriesLeft(c)
       THEN /\ attempt' = [attempt EXCEPT ![c] = @ + 1]
            /\ UNCHANGED <<phase, token, outcome>>
       ELSE Returns(c, "exhausted")
    /\ UNCHANGED <<cached, missing>>

Answer(c) ==
    /\ c \in flying
    /\ flying' = flying \ {c}
    /\ Ok(c) \/ TokenExpired(c) \/ Refused(c) \/ NotAnswered(c)
    /\ UNCHANGED <<stage, err, report, jwtAuth, toUpload, firstErr, limiter,
                   cancelled, epoch>>

(* jwtMu is held for the whole of the GET. *)
JwtMuFree == \A c \in Callers : phase[c] # "fetch"

(* Variant for the checks: the cached token stays. *)
InvalidateNothing(c) ==
    /\ phase[c] = "invalidate" /\ JwtMuFree
    /\ Goto(c, "lock")
    /\ UNCHANGED <<token, attempt, outcome, flying, cached, main, limiter, world>>

InvalidateJWT(c) ==
    /\ phase[c] = "invalidate" /\ JwtMuFree
    /\ cached' = 0
    /\ Goto(c, "lock")
    /\ UNCHANGED <<token, attempt, outcome, flying, main, limiter, world>>

(* UploadToken: the cached token unless the clock says it is near its end. *)
UploadToken(c) ==
    /\ phase[c] = "lock" /\ JwtMuFree
    /\ \/ /\ cached # 0
          /\ token' = [token EXCEPT ![c] = cached]
          /\ Goto(c, "repost")
       \/ Goto(c, "fetch") /\ UNCHANGED token
    /\ UNCHANGED <<attempt, outcome, flying, cached, main, limiter, world>>

Call(c) == Send(c) \/ Answer(c) \/ InvalidateJWT(c) \/ UploadToken(c)

-----------------------------------------------------------------------------
(* A batch. *)

Acquire(w) ==
    /\ stage = "upload" /\ w \in Launched /\ phase[w] = "idle"
    /\ Limit!Acquire(w)
    /\ Goto(w, "acquire")
    /\ UNCHANGED <<token, attempt, outcome, flying, cached, main, world>>

Enter(w) ==
    /\ phase[w] = "acquire"
    /\ Limit!Enter(w)
    /\ Goto(w, "post")
    /\ token' = [token EXCEPT ![w] = jwtAuth]
    /\ UNCHANGED <<attempt, outcome, flying, cached, main, world>>

(* Cancelled in Acquire: the batch is given up without a word. *)
GiveUp(w) ==
    /\ phase[w] = "acquire" /\ cancelled
    /\ Limit!GiveUp(w)
    /\ Goto(w, "left")
    /\ UNCHANGED <<token, attempt, outcome, flying, cached, main, world>>

(* Variant for the checks: only the first failing batch is counted. *)
CountFirst(w) ==
    report' = IF outcome[w] = "ok"
              THEN [report EXCEPT !.succeeded = @ + Len(Batches[w])]
              ELSE [report EXCEPT !.failed =
                       IF firstErr = "none" THEN @ + Len(Batches[w]) ELSE @]

Count(w) ==
    report' = IF outcome[w] = "ok"
              THEN [report EXCEPT !.succeeded = @ + Len(Batches[w])]
              ELSE [report EXCEPT !.failed = @ + Len(Batches[w])]

(* Variant for the checks: the error of a batch is only counted. *)
KeepNoError(w) == UNCHANGED firstErr

KeepFirstError(w) ==
    firstErr' = IF firstErr = "none" /\ outcome[w] # "ok" THEN outcome[w] ELSE firstErr

(* The batch ends; its goroutine has yet to release the slot. *)
Record(w) ==
    /\ w \in Workers /\ phase[w] = "returned"
    /\ Count(w)
    /\ KeepFirstError(w)
    /\ degraded' = (degraded \/ Is5xx(outcome[w]))
    /\ Goto(w, "left")
    /\ outcome' = [outcome EXCEPT ![w] = "none"]
    /\ UNCHANGED <<sem, at, stage, err, jwtAuth, missing, toUpload,
                   token, attempt, flying, cached, world>>

Release(w) ==
    /\ phase[w] = "left"
    /\ Limit!Leave(w)
    /\ UNCHANGED <<main, calls, world>>

Worker(w) == Acquire(w) \/ Enter(w) \/ GiveUp(w) \/ Record(w) \/ Release(w)

-----------------------------------------------------------------------------
(* DeployPages. *)

(* The next call of DeployPages, with the token t. *)
Begin(next, t) ==
    /\ stage' = next
    /\ Goto(0, "post")
    /\ token' = [token EXCEPT ![0] = t]
    /\ outcome' = [outcome EXCEPT ![0] = "none"]

Ends(e) ==
    /\ stage' = "done" /\ err' = e
    /\ Goto(0, "left")
    /\ outcome' = [outcome EXCEPT ![0] = "none"]

Fails ==
    /\ phase[0] = "returned" /\ outcome[0] # "ok"
    /\ Ends(outcome[0])
    /\ UNCHANGED <<report, jwtAuth, missing, toUpload, firstErr,
                   token, attempt, flying, cached, limiter, world>>

Succeeds(s) == stage = s /\ phase[0] = "returned" /\ outcome[0] = "ok"

GotToken ==
    /\ Succeeds("upload-token")
    /\ jwtAuth' = token[0]
    /\ report' = [report EXCEPT !.attempted = Len(Assets)]
    /\ Begin("check-missing", token[0])
    /\ UNCHANGED <<err, missing, toUpload, firstErr, attempt, flying, cached,
                   limiter, world>>

(* The assets are split; one goroutine per batch is launched. *)
GotMissing ==
    /\ Succeeds("check-missing")
    /\ toUpload' = Split(Assets, missing)
    /\ report' = [report EXCEPT !.skipped = Len(Assets) - Len(toUpload')]
    /\ stage' = "upload"
    /\ Goto(0, "idle")
    /\ outcome' = [outcome EXCEPT ![0] = "none"]
    /\ UNCHANGED <<err, jwtAuth, missing, firstErr, token, attempt, flying, cached,
                   limiter, world>>

(* Variant for the checks: nobody waits for the goroutines. *)
UploadedNoWait ==
    /\ stage = "upload"
    /\ IF firstErr = "none"
       THEN Begin("upsert-hashes", jwtAuth) /\ UNCHANGED err
       ELSE Ends(firstErr) /\ UNCHANGED token
    /\ UNCHANGED <<report, jwtAuth, missing, toUpload, firstErr, attempt, flying, cached,
                   limiter, world>>

(* wg.Wait() *)
Uploaded ==
    /\ stage = "upload"
    /\ \A w \in Launched : phase[w] = "left" /\ at[w] = "out"
    /\ IF firstErr = "none"
       THEN Begin("upsert-hashes", jwtAuth) /\ UNCHANGED err
       ELSE Ends(firstErr) /\ UNCHANGED token
    /\ UNCHANGED <<report, jwtAuth, missing, toUpload, firstErr, attempt, flying, cached,
                   limiter, world>>

(* One request with the whole manifest, never tried again.                  *)
CreateDeployment == Begin("deployment", jwtAuth)

Upserted ==
    /\ Succeeds("upsert-hashes")
    /\ CreateDeployment
    /\ UNCHANGED <<err, report, jwtAuth, missing, toUpload, firstErr, attempt,
                   flying, cached, limiter, world>>

Deployed ==
    /\ Succeeds("deployment")
    /\ report' = [report EXCEPT !.succeeded =
                   report.attempted - report.skipped - report.failed]
    /\ Ends("ok")
    /\ UNCHANGED <<jwtAuth, missing, toUpload, firstErr, token, attempt, flying, cached,
                   limiter, world>>

DeployPages == Fails \/ GotToken \/ GotMissing \/ Uploaded \/ Upserted \/ Deployed

-----------------------------------------------------------------------------
Cancel ==
    /\ ~cancelled /\ stage # "done"
    /\ cancelled' = TRUE
    /\ UNCHANGED <<main, calls, limiter, epoch, faults, stored, upserted, deployments>>

Expire ==
    /\ epoch <= MaxExpiries /\ stage # "done"
    /\ epoch' = epoch + 1
    /\ UNCHANGED <<main, calls, limiter, cancelled, faults, stored, upserted, deployments>>

Running ==
    \/ \E c \in Callers : Call(c)
    \/ \E w \in Workers : Worker(w)
    \/ DeployPages

(* DeployPages has returned. Any other state without a step is a deadlock: *)
(* a wait for a slot, a mutex or a batch that is never given back.         *)
Returned == stage = "done" /\ UNCHANGED vars

Next == Running \/ Cancel \/ Expire \/ Returned

Spec == Init /\ [][Next]_vars

-----------------------------------------------------------------------------
(* Properties. *)

(* A deployment is created only when Cloudflare has every file of the      *)
(* manifest and has acknowledged it: a batch that failed, was given up or  *)
(* is still under way keeps it from being created.                         *)
DeploymentComplete ==
    deployments = 1 => Hashes \subseteq stored /\ upserted = Hashes

(* Once DeployPages has returned no goroutine of its uploads acts any      *)
(* more: the report it returned does not change under its reader, and every *)
(* slot of the limiter is free, although the goroutines that left took     *)
(* whichever token they found.                                             *)
NoStragglers ==
    stage = "done" => /\ flying = {}
                      /\ \A w \in Workers : phase[w] \in {"idle", "left"} /\ at[w] = "out"
                      /\ \A s \in DOMAIN sem : sem[s] = 0

(* Whatever fails, the report accounts for every asset after the uploads,  *)
(* unless the deployment was cancelled.                                    *)
Accounted ==
    /\ ~cancelled
    /\ \/ stage \in {"upsert-hashes", "deployment"}
       \/ stage = "done" /\ (firstErr # "none" \/ err = "ok")
    => report.succeeded + report.skipped + report.failed = report.attempted

(* One expiry of the JWT at any moment is healed by the refresh, although  *)
(* the callers share one cache and one calls off the token another has     *)
(* just fetched.                                                           *)
OneExpirySurvived ==
    epoch <= 2 /\ faults = 0 /\ ~cancelled => err \in {"none", "ok"} /\ firstErr = "none"
=============================================================================
