------------------------------ MODULE AdminAPI ------------------------------
(***************************************************************************)
(* The write side of the admin panel, internal/admin: requests of several  *)
(* editors on the Markdown files of content/, the media of static/ and     *)
(* huan.yaml, the audit log they leave, and the rebuild they trigger: in   *)
(* huan dev a full build, in the daemon one of the changed files, of which *)
(* it names none.                                                          *)
(*                                                                         *)
(* No handler takes a lock.  A request is a sequence of steps, each one    *)
(* system call or one call into the logger, and the steps of requests      *)
(* interleave.  os.WriteFile is two of them: it opens the file and         *)
(* truncates it, then writes at offset 0, so that a reader may meet an     *)
(* empty file, and the longer of two documents written at once keeps its   *)
(* tail.  A file removed while a writer holds it open takes the writer's   *)
(* bytes with it, hence the inode numbers.                                 *)
(***************************************************************************)
EXTENDS Integers, FiniteSets, Sequences

CONSTANTS Editors,      \* clients with a token, one request each at a time
          Files,        \* content files: [dir, name, lang] records
          Existing,     \* the content files there are at the start
          Media,        \* files of static/, of the same shape
          Docs,         \* documents an editor may send
          Unreadable,   \* those whose front matter, once written, does not parse
          Long,         \* documents longer than the others
          MaxRequests   \* bound: requests and other asks for a build, together

Yaml == [dir |-> <<>>, name |-> "huan.yaml", lang |-> ""]
Paths == Files \union Media \union {Yaml}

Text(d) == [body |-> d]
Empty == Text("empty")              \* opened with O_TRUNC, not yet written
Torn == Text("torn")                \* two documents on top of each other
NoDoc == Text("none")
NoFile == [ino |-> 0, doc |-> NoDoc]
\* The keys of huan.yaml the settings form manages, and one it does not know.
Settings == [title: 0..2, extra: 0..1]
FirstSettings == [title |-> 0, extra |-> 0]

\* What each operation does after it is routed, in the order of its handler.
ContentSteps == [create |-> <<"statNew", "open", "write", "readBack", "audit">>,
                 update |-> <<"sha", "stat", "open", "write", "readBack", "audit">>,
                 delete |-> <<"sha", "remove", "audit">>]
SettingsSteps == [settings |-> <<"sha", "load", "open", "write", "audit", "rebuild">>,
                  yaml     |-> <<"sha", "open", "write", "audit", "rebuild">>,
                  build    |-> <<"rebuild">>]
MediaSteps == [upload |-> <<"open", "copy">>, discard |-> <<"remove">>]
Steps == [op \in DOMAIN ContentSteps \union DOMAIN SettingsSteps \union DOMAIN MediaSteps |->
            IF op \in DOMAIN ContentSteps THEN ContentSteps[op]
            ELSE IF op \in DOMAIN SettingsSteps THEN SettingsSteps[op] ELSE MediaSteps[op]]
PathsOf(op) == CASE op \in {"create", "update", "delete"} -> Files
                 [] op \in {"settings", "yaml", "build"}  -> {Yaml}
                 [] op \in {"upload", "discard"}          -> Media

\* A path belongs to one handler; the contents of a file the model adds are no
\* documents of the editors.
ASSUME AdminAssumption ==
  /\ IsFiniteSet(Files) /\ IsFiniteSet(Media) /\ IsFiniteSet(Editors)
  /\ Existing \subseteq Files /\ Files \intersect Media = {} /\ Yaml \notin Files \union Media
  /\ Docs \intersect {"empty", "torn", "none"} = {}
  /\ MaxRequests \in Nat

VARIABLES fs,        \* fs[p]: the file at p, its inode and its document
          req,       \* req[e]: the request of editor e
          log,       \* the audit records, in the order of AuditLogger.Log
          site,      \* the program, its build queue and what it built last:
                     \* job and pending are the queue's, loaded is what the full
                     \* build has read, built what the site was built with, failed
                     \* says that the last full build was not completed; history:
                     \* asked, a full build was asked for since the last write
          requests,  \* requests and other asks so far
          raced,     \* history: paths two requests worked on at once
          unlogged   \* history: paths changed by a request that then failed
vars == <<fs, req, log, site, requests, raced, unlogged>>

Idle == [op |-> "none", path |-> Yaml, doc |-> NoDoc, at |-> 0, before |-> NoDoc, ino |-> 0]
NotBuilding == NoDoc

Init == /\ fs = [p \in Paths |-> CASE p \in Existing -> [ino |-> 1, doc |-> Text("first")]
                                    [] p = Yaml -> [ino |-> 1, doc |-> FirstSettings]
                                    [] OTHER -> NoFile]
        /\ req = [e \in Editors |-> Idle]
        /\ log = <<>> /\ requests = 0 /\ raced = {} /\ unlogged = {}
        /\ \E daemon \in BOOLEAN :
             site = [daemon |-> daemon, job |-> "none", pending |-> FALSE, loaded |-> NotBuilding,
                     built |-> FirstSettings, failed |-> FALSE, asked |-> TRUE]

Busy(e) == req[e].op # "none"

Document == {Text(d) : d \in Docs \union {"first", "empty", "torn", "none"}} \union Settings
Request == [op: DOMAIN Steps \union {"none"}, path: Paths, doc: Document, at: 0..6,
            before: Document, ino: Nat]
TypeOK == /\ fs \in [Paths -> [ino: Nat, doc: Document]]
          /\ req \in [Editors -> Request]
          /\ \A e \in Editors : Busy(e) => /\ req[e].at \in DOMAIN Steps[req[e].op]
                                         /\ req[e].path \in PathsOf(req[e].op)
          /\ log \in Seq([op: DOMAIN Steps, path: Paths, before: Document, after: Document])
          /\ site \in [daemon: BOOLEAN, job: {"none", "full", "changes", "ending"}, pending: BOOLEAN,
                       loaded: Settings \union {NotBuilding}, built: Settings,
                       failed: BOOLEAN, asked: BOOLEAN]
          /\ requests \in 0..MaxRequests
          /\ raced \subseteq Paths /\ unlogged \subseteq Paths

StepOf(r) == Steps[r.op][r.at]
At(e, step) == Busy(e) /\ StepOf(req[e]) = step
\* The request goes on to its next step with the fields of r, or is over.
Advance(e, r) == req' = [req EXCEPT ![e] = IF r.at = Len(Steps[r.op]) THEN Idle
                                           ELSE [r EXCEPT !.at = r.at + 1]]
Step(e) == Advance(e, req[e])
\* The handler answers with an error and returns.
Refuse(e) == req' = [req EXCEPT ![e] = Idle]

\* A request passes TokenMiddleware and is routed.  A settings form sends the
\* keys it knows, the YAML editor the whole text, which must parse.
DocsOf(op) == CASE op = "settings" -> {FirstSettings, [title |-> 1, extra |-> 0]}
                [] op = "yaml"     -> {[title |-> 2, extra |-> 1]}
                [] op \in {"create", "upload"} -> {Text("first")}
                [] op = "update"   -> {Text(d) : d \in Docs}
                [] OTHER           -> {NoDoc}
ServeHTTP(e) ==
  /\ ~Busy(e) /\ requests < MaxRequests
  /\ requests' = requests + 1
  /\ \E op \in DOMAIN Steps : \E p \in PathsOf(op), d \in DocsOf(op) :
       /\ req' = [req EXCEPT ![e] = [Idle EXCEPT !.op = op, !.path = p, !.doc = d, !.at = 1]]
       /\ raced' = IF op # "build" /\ \E o \in Editors : Busy(o) /\ req[o].path = p /\ req[o].op # "build"
                   THEN raced \union {p} ELSE raced
  /\ UNCHANGED <<fs, log, site, unlogged>>

There(p) == fs[p].ino # 0

\* safeSHA of the file before the operation; "" when there is none.
SafeSHA(e) == /\ At(e, "sha")
              /\ Advance(e, [req[e] EXCEPT !.before = fs[req[e].path].doc])
              /\ UNCHANGED <<fs, log, site, requests, raced, unlogged>>

\* create refuses a name that is taken, update one that is not.
Stat(e) == /\ At(e, "statNew") \/ At(e, "stat")
           /\ IF There(req[e].path) = At(e, "stat") THEN Step(e) ELSE Refuse(e)
           /\ UNCHANGED <<fs, log, site, requests, raced, unlogged>>

\* A variant that writes the form without the keys it does not know.
LoadFormOnly(e) == /\ At(e, "load") /\ Step(e)
                   /\ UNCHANGED <<fs, log, site, requests, raced, unlogged>>

\* updateSettings reads the file and sets, in its tree, the keys that exist.
\* An empty file has no root node: the handler panics and the server drops
\* the request.
SetKnown(now, form) == [now EXCEPT !.title = form.title]
Load(e) == LET now == fs[Yaml].doc
           IN  /\ At(e, "load")
               /\ IF now \in Settings
                  THEN Advance(e, [req[e] EXCEPT !.doc = SetKnown(now, req[e].doc)])
                  ELSE Refuse(e)
               /\ UNCHANGED <<fs, log, site, requests, raced, unlogged>>

\* History: nobody has asked for a build since huan.yaml was written.
Rewritten(p) == site' = [site EXCEPT !.asked = @ /\ p # Yaml]

FreshIno == CHOOSE n \in 1..(Cardinality(Paths) + Cardinality(Editors) + 1) :
              \A p \in Paths, e \in Editors : fs[p].ino # n /\ req[e].ino # n

Open(e) == LET p == req[e].path
               ino == IF There(p) THEN fs[p].ino ELSE FreshIno
           IN  /\ At(e, "open")
               /\ fs' = [fs EXCEPT ![p] = [ino |-> ino, doc |-> Empty]]
               /\ Advance(e, [req[e] EXCEPT !.ino = ino])
               /\ Rewritten(p)
               /\ UNCHANGED <<log, requests, raced, unlogged>>

\* What the file holds once doc is written at offset 0 over what is there.
Over(old, doc) == IF old = Empty \/ doc.body \in Long THEN doc ELSE Torn
Written(old, doc) == IF doc \in Settings THEN IF old = Empty THEN doc ELSE Torn ELSE Over(old, doc)
Put(e) == LET p == req[e].path
          IN  fs' = IF fs[p].ino = req[e].ino THEN [fs EXCEPT ![p].doc = Written(@, req[e].doc)] ELSE fs
Write(e) == /\ At(e, "write") /\ Put(e) /\ Step(e)
            /\ Rewritten(req[e].path)
            /\ UNCHANGED <<log, requests, raced, unlogged>>

\* io.Copy of an upload; when it fails the file is removed, whoever made it.
Copy(e) == /\ At(e, "copy")
           /\ Put(e) \/ fs' = [fs EXCEPT ![req[e].path] = NoFile]
           /\ Step(e)
           /\ UNCHANGED <<log, site, requests, raced, unlogged>>

\* readOne after the write: a file that is gone or does not parse fails the
\* request, although it has changed the file.
Parses(doc) == doc.body \notin Unreadable
ReadBack(e) == /\ At(e, "readBack")
               /\ IF There(req[e].path) /\ Parses(fs[req[e].path].doc)
                  THEN Step(e) /\ UNCHANGED unlogged
                  ELSE Refuse(e) /\ unlogged' = unlogged \union {req[e].path}
               /\ UNCHANGED <<fs, log, site, requests, raced>>

RemoveFile(e) == LET p == req[e].path
             IN  /\ At(e, "remove")
                 /\ IF There(p) THEN fs' = [fs EXCEPT ![p] = NoFile] /\ Step(e)
                                ELSE UNCHANGED fs /\ Refuse(e)
                 /\ UNCHANGED <<log, site, requests, raced, unlogged>>

\* A variant that records what was sent for what is there.
SentSHA(r) == IF r.op = "delete" THEN NoDoc ELSE Text("first")

\* auditLog: the record has the hash of the file as it is now.
AfterSHA(r) == IF r.op = "delete" THEN NoDoc ELSE fs[r.path].doc
AuditRecord(r) == [op |-> r.op, path |-> r.path, before |-> r.before, after |-> AfterSHA(r)]
\* The end of today's note: records are never changed, one at a time.
Log(record) == log' = Append(log, record)
Audit(e) == /\ At(e, "audit")
            /\ Log(AuditRecord(req[e]))
            /\ Step(e)
            /\ UNCHANGED <<fs, site, requests, raced, unlogged>>

\* RebuildQueue of huan dev and QueueBuild of the daemon: one job at a time,
\* asked for again while it runs it runs again, as what it is: a build of
\* changed files of the daemon does not become a full one, and a request that
\* comes when the owner has looked at pending and not released the queue yet
\* ("ending") is left there.
Enqueue(job) == [site EXCEPT !.job = IF @ = "none" THEN job ELSE @,
                         !.pending = @ \/ site.job # "none",
                         !.asked = @ \/ (job = "full" /\ site.job \notin {"changes", "ending"})]
\* RebuildQueue goes on after a build that failed; QueueBuild does not, and
\* what was asked for stays pending.
Released(s, ok) == LET again == s.pending /\ (ok \/ ~s.daemon)
                   IN  [s EXCEPT !.loaded = NotBuilding, !.pending = @ /\ ~again,
                                 !.job = IF again THEN @ ELSE IF ok /\ s.daemon THEN "ending" ELSE "none"]

\* go h.rebuild(). The daemon publishes content.changed without files, which
\* builds nothing once there is a graph, and does not read huan.yaml.
TriggerRebuild(e) == /\ At(e, "rebuild") /\ Step(e)
                     /\ site' = Enqueue(IF site.daemon THEN "changes" ELSE "full")
                     /\ UNCHANGED <<fs, log, requests, raced, unlogged>>
\* The ticker of the daemon, or a watcher that reports huan.yaml.
FullBuildAsked == /\ requests < MaxRequests
                  /\ requests' = requests + 1
                  /\ site' = Enqueue("full")
                  /\ UNCHANGED <<fs, req, log, raced, unlogged>>

Building == site.job = "changes" \/ site.loaded # NotBuilding
Failed(s) == Released([s EXCEPT !.failed = TRUE], FALSE)
\* A full build loads huan.yaml first; it fails on what is not a configuration.
LoadConfig == /\ site.job = "full" /\ ~Building
              /\ site' = IF fs[Yaml].doc \in Settings
                         THEN [site EXCEPT !.loaded = fs[Yaml].doc] ELSE Failed(site)
              /\ UNCHANGED <<fs, req, log, requests, raced, unlogged>>

\* A variant that forgets what was asked for while it built.
BuildForgets == /\ Building
                /\ site' = [site EXCEPT !.job = "none", !.pending = FALSE, !.loaded = NotBuilding,
                              !.built = IF site.job = "full" THEN site.loaded ELSE @,
                              !.failed = @ /\ site.job # "full"]
                /\ UNCHANGED <<fs, req, log, requests, raced, unlogged>>

BuildDone == /\ Building
             /\ site' = Released([site EXCEPT !.built = IF site.job = "full" THEN site.loaded ELSE @,
                                              !.failed = @ /\ site.job # "full"], TRUE)
             /\ UNCHANGED <<fs, req, log, requests, raced, unlogged>>
BuildFails == /\ Building /\ site.job = "full"
              /\ site' = Failed(site)
              /\ UNCHANGED <<fs, req, log, requests, raced, unlogged>>
Release == /\ site.job = "ending"
           /\ site' = [site EXCEPT !.job = "none"]
           /\ UNCHANGED <<fs, req, log, requests, raced, unlogged>>

Handle(e) == \/ SafeSHA(e) \/ Stat(e) \/ Load(e) \/ Open(e) \/ Write(e) \/ Copy(e)
             \/ ReadBack(e) \/ RemoveFile(e) \/ Audit(e) \/ TriggerRebuild(e)
Build == LoadConfig \/ BuildDone \/ BuildFails \/ Release
Next == (\E e \in Editors : ServeHTTP(e) \/ Handle(e)) \/ FullBuildAsked \/ Build
Spec == Init /\ [][Next]_vars

-----------------------------------------------------------------------------
AtRest == \A e \in Editors : ~Busy(e)
Tainted == raced \union unlogged \union Media

\* The places in the log of the records of p, of the edits of huan.yaml as a
\* text; which is the last of them, and which two follow one another.
RecordsOf(p) == {i \in DOMAIN log : log[i].path = p}
YamlEdits == {i \in DOMAIN log : log[i].op = "yaml"}
IsLast(i, places) == \A k \in places : k <= i
Follows(i, j, places) == i < j /\ \A k \in places : k <= i \/ k >= j

\* The audit log explains the files: when no request is being handled, a file
\* that no two requests worked on at once, and no request changed and then
\* failed on, holds what its last record says, and each record starts from
\* where the one before it ended (api.go:157-218). Logged or not, a file is
\* whole unless two requests raced for it: os.WriteFile leaves an empty or a
\* mixed one only between the steps of a request.
LogExplainsFiles ==
  AtRest => /\ \A p \in Paths \ raced : fs[p].doc \notin {Empty, Torn}
            /\ \A p \in Paths \ Tainted : \A i \in RecordsOf(p) :
                 /\ IsLast(i, RecordsOf(p)) => log[i].after = fs[p].doc
                 /\ \A j \in RecordsOf(p) : Follows(i, j, RecordsOf(p)) => log[j].before = log[i].after

\* "Unknown fields in the YAML are left untouched" (settings.go:51): a key the
\* settings form does not know has the value the YAML editor gave it last, as
\* long as no two requests worked on huan.yaml at once.
UnknownFieldsKept ==
  AtRest /\ Yaml \notin raced =>
    /\ YamlEdits = {} => fs[Yaml].doc.extra = FirstSettings.extra
    /\ \A i \in YamlEdits : IsLast(i, YamlEdits) => fs[Yaml].doc.extra = log[i].after.extra

\* What is saved in huan.yaml reaches the site. When no request is being
\* handled and no build runs, the site is built with what the file holds, or
\* the last full build failed: in huan dev always, as every PUT asks for a full
\* build after it has written (api.go:346-349, 383-386), also one that finds a
\* build at work which has read the file before; in the daemon once a full
\* build has been asked for since, which its trigger does not do. (Asking for
\* it while a build of changed files runs, or when the owner of the queue has
\* looked at pending, is not enough: builder.go:174 runs that build again, or
\* does not.)
SettingsReachTheSite ==
  AtRest /\ site.job = "none" /\ (site.daemon => site.asked) =>
    site.built = fs[Yaml].doc \/ site.failed
=============================================================================
