# huan: models and proofs

TLA+ models of huan, a static site generator with a development server (`huan dev`), a content
daemon (`huan daemon`) with an admin panel and plugins, and direct deployment to Cloudflare
(`huan deploy`). Two kinds of code are modelled. The first is code in which several goroutines,
processes or remote services share state: the build queues, the file watchers, the directory swap,
live reload, page serving during builds, the event bus, the plugin manager, the admin API, the
deployment protocols, the on-disk Markdown cache. The second is the build itself: which files a
full and an incremental build write for a given content, configuration and history, and whether
those files agree with one another. TLC checks each model on small instances; for fourteen modules
TLAPS proves properties for every value of the constants.

Contents: [inventory](#inventory-of-the-system) · [modules](#modules) ·
[composition](#composition-and-abstract-specifications) · [runs](#runs) · [bounds](#bounds) ·
[fairness](#fairness) · [proofs](#proofs) · [finding](#finding) · [behaviour met](#behaviour-met) ·
[not modelled](#what-is-not-modelled) · [plan](#plan)

## Inventory of the system

| Part | State | Operations | What is hard | What makes it correct | Module |
|---|---|---|---|---|---|
| Build queue of the daemon (`internal/daemon/builder.go`) | `busy`, `pending`, dependency graph, output | `FullBuild`, `HandleContentChanged`, `IncrementalBuild`, `TriggerRebuild` | flags read one at a time, captured build functions, failures | a caller's own changes are built, calls return | `BuildQueue` |
| Daemon: life cycle, watcher, bus, SSE (`daemon.go`, `watcher.go`, `eventbus`, `sse`) | stage, collected paths, timer, deliveries, client buffers | start, watch, publish, subscribe, broadcast, shut down | goroutine per handler, callbacks that overlap, streams that never end | edits announced, index before event, shutdown ends | `Daemon` |
| JIT serving (`serving.go`, `jit_fast.go`, `build/cache/content.go`, `daemon/cache/jit.go`) | output, content cache, JIT cache | request, JIT render, build, invalidate, expire | a request loads, renders and stores while a build replaces what it loaded | pages current now or eventually | `JITServing` |
| Plugin manager (`internal/plugin`) | registry, loaded plugins, subscriptions | start, stop, load, unload, reload, directory watcher | reload with rollback outside the lock | registry and list agree, compiled plugins stay | `PluginLifecycle` |
| Admin API (`internal/admin`) | content files, media, `huan.yaml`, audit log | create, update, delete, upload, settings, YAML, rebuild, list, tree, status | no locks; files truncated and then written | log explains files, settings built | `AdminAPI`, `AdminListing` |
| Rebuild queue of `huan dev` (`internal/dev/rebuild.go`) | `running`, `closed`, `full`, `pending` | `Submit`, `Close`, `Wait` | merging of batches, end of a build against a submission | no accepted change lost | `RebuildQueue`, `ChangeQueue` |
| Watcher of `huan dev` (`internal/dev/watcher.go`) | pending paths, generation, timer, callbacks | `schedule`, timer, `Run` | stopped timers that fire all the same | each path goes out once, none after `Run` | `DevWatcher` |
| Session of `huan dev` (`cmd/huan/dev.go`, `build/swap.go`) | `tmpDir`, `.next`, `.old`, cleanup worker | rebuild, swap, roll back, alert, shut down | renames that fail, a worker that deletes by name, order of the deferred calls | whole builds served, edits answered, nothing left | `DevSession` |
| Live reload hub (`internal/dev/livereload.go`) | connections, buffered channels | connect, broadcast, disconnect | close against send, full buffers | every page ends up at the last build | `LiveReloadHub` |
| Upload limiter (`plugins/cloudflare/concurrency.go`) | two semaphores, one flag | `Acquire`, `Release`, `Degrade` | tokens taken from the other channel | no token lost, bounded uploads | `Limiter` |
| Pages deployment (`pages.go`, `client.go`, `retry.go`, `manifest.go`) | JWT cache, batches, report | token, check missing, upload, upsert, deploy | expiring tokens, retries, lost answers, cancellation | a deployment only of complete uploads | `PagesDeploy` |
| R2, workers, the command (`r2.go`, `worker.go`, `plugin.go`, `options.go`, `cmd/huan/deploy.go`) | listings, bucket, scripts, report | validate, walk, list, upload, prune | partial failures before a prune | bucket mirrors what was read, reports add up | `R2Sync`, `CloudflareDeploy` |
| Markdown cache, disk tier (`build/markdown_disk.go`) | directory, lease, index, accounts | open, scan, prune, store, evict, close | crashes, failing calls, several processes | within budget, no file uncounted | `MarkdownDisk` |
| Content tree (`internal/content`) | – | kinds, URLs, sections, cascades, lists | files that make up sections, shared addresses | – | `SiteTree` |
| Lists, taxonomies, pagination (`internal/taxonomy`, `template/context.go`) | – | visible lists, terms, pagers | a pager computed twice | no page lost or repeated | `SiteLists` |
| Languages (`config/languages.go`, `build/multisite.go`, `i18n_strict.go`) | one output for all | order, directories, translations, strict check | nested output directories | languages do not wipe one another | `SiteLanguages` |
| Dependency graph (`daemon/dag`) | nodes, edges | build from site, affected pages | graph of an earlier build | affected pages cover an edit | `SiteGraph` |
| Configuration, plugin settings, themes (`internal/config`, `plugin/validate.go`, `cmd/huan/plugins.go`, `internal/theme`) | registry of one command | load `.env`, interpolate, discover, validate, choose the theme | two readers of the same settings; failures some commands survive | plugins run with what was declared | `SitePlugins` |
| Build pipeline, output writer, feeds (`internal/build`, `internal/output`) | published directory, directories the writer remembers | full and incremental build, clean, minify, make links absolute, write | cleaning before failing; partial renders | published files agree | `SitePages`, `SiteBuild` |
| Output plugins (`html-injector`, `seo-injector`, `diagram-renderer`, `sitemap-enhancer`, `image-pipeline`) | cache of diagrams | rework the output of a full build | a file met twice; variants that share a name | each file worked on once; every image leads to a picture of its own | `PostBuild` |
| Query index and API (`daemon/contentindex`) | items, replaced under a lock | reload, query, answer a request | stale or partial `api/*.json` | every page of a section, once | `ContentIndex` |

Interactions. In `huan dev` the watcher's callback and the admin API call `RebuildQueue.Submit`; the
caller that finds the queue idle runs the rebuild, which builds into `tmpDir.next`, swaps
directories and tells the hub to broadcast. In the daemon the watcher publishes `content.changed`,
the bus starts a goroutine per handler, the handler calls the builder's queue, and a build replaces
the output directory, the content cache, the graph, the query index and, last, empties the JIT cache,
while requests read all of these; then `build.complete` goes to the clients of the event stream. The
admin API writes files under `content/` and `huan.yaml` and asks for a rebuild, which in `huan dev` is a full build and in the
daemon a `content.changed` that names no file. `huan deploy` runs one
goroutine per batch of assets over one client with a shared token and one limiter.

## Modules

A definition keeps the name of the function it models where there is one. Definitions whose comment
says "Variant for the checks" or "A variant" are faulty forms of the definition after them: with one in
its place, the property it is paired with fails.

`BuildQueue` – the daemon's queue. A goroutine of `Procs` is a bus handler, the ticker or `Run`. Each
atomic operation on `busy` and `pending` is a step; `enter`/`mark`/`build`/`check`/`release` are the
points of `QueueBuild` between them. A file is its version on disk (`src`) and in the output
(`out`). `full` and `files` are what the captured `buildFn` closes over; `known` and `hasDag` are the
graph.

`RebuildQueue` – the queue of `huan dev`; a step is a critical section of `q.mu`. The empty batch is
a full request. `Wait` sleeps (`asleep`) until the broadcast of the last build (`woken`).
`ChangeQueue` – what it promises: items wait or are in the running batch; nothing waits when nothing
runs. A full request maps to all items at once.

`DevWatcher` – timers are known by their generation; a timer that has fired waits for `w.mu` in `fired`
even after `Stop`.

`DevSession` – `RebuildQueue` with what the callback does (`phase`), the three directories and
the deferred calls of `runDev` (`stage`). A directory is `Missing`, `Partial` or the output of a build
known by the number of edits it includes. Every rename and build may fail.

`LiveReloadHub` – a reader, a writer and a buffered channel per connection; a broadcast copies the
channels under the lock (`todo`) and sends outside of it, one channel per step. A send on a closed
channel ends the process (`panicked`).

`JITServing` – requests that look up, load, render and store a page, against full and incremental
builds that read, store, clean, render and invalidate. A page is the version of its file. Pages are
independent, so a build handles all of them in one step per phase. A request whose fast path fails, and one
for a list page, loads the whole site and stores it in the content cache outside of the build queue
(`Scan`, `StoreScan`, `StoreSome`). History variables say what a build has overtaken: `overtaken` (requests
that loaded the site before a build did), `revived` (entries such a request stored), `late` (HTML loaded before a build ended).

`Daemon` – `Run` from the initial build to the end of the shutdown, the watcher, which has an event only of what
happens in a directory it watches and watches a new directory once it has read the event of it (`MakeDir`, `ReadEvent`),
its debounce timer whose callbacks may overlap, the bus with a goroutine per handler, the
index reloaded after a build, the hub with its cap on clients and its buffers. Builds are taken one
at a time here; `BuildQueue` has them flag by flag.

`PluginLifecycle` – registry, list, subscriptions, the directory and its debounced watcher, and
requests that reload outside of `m.mu` and roll back. A plugin is the file it comes from.

`AdminAPI` – a request is a sequence of steps (`Steps`), each one system call or one call of the
logger; `at` says which of them an editor takes next. `os.WriteFile` is an open that truncates and a
write; two writers of one file leave a torn one. `site` is the program
that runs the panel, its build queue in short and what the site was built with. In `huan dev` a PUT of `huan.yaml` ends in
`RebuildQueue.Submit(nil)`, a full build that reads the file when it gets to it. In the daemon it ends in `TriggerRebuild`, a
build of no files, which does not read `huan.yaml`: the file reaches the site with the next full build, asked for by the ticker
or by a watcher that saw the file (`FullBuildAsked`), and not lost in a queue that runs the owner's build again or has just looked
at `pending` (`Enqueue`, `Released`, `Release`). Builds fail. `AdminListing` has the listing, the folder tree and the status counts as
operators over the files of `AdminAPI`.

`UploadLimits` (shared constants) and `Limiter` – two counters for the two buffered channels; reading
the flag, sending and receiving are separate steps, and `Release` tries its channels one by one.

`PagesDeploy` – caller 0 is `DeployPages`, callers 1.. upload one batch each. A request is sent in one
step and answered in another; an answer may be lost, an error, or a refusal of an expired token,
which leads to `InvalidateJWT`, the mutex and one refresh. `Split` keeps the assets that Cloudflare
misses, `Batch` is the greedy chunking of `manifest.go`. Cloudflare is modelled from what the client
expects of it.

`R2Sync` – `Sync`: walk, list, compare, upload, prune, each of which may fail for any object. An object keeps its MD5 and whether
it was sent in parts, for its ETag is then not the MD5 that `r2.go:218` compares; `cut` has the mappings whose walk ended early.
`CloudflareDeploy` – the configuration, the choice of a target, the manifest, the worker scripts
and the report, around `PagesDeploy` and `R2Sync`.

`MarkdownDisk` – the directory, the lease that makes one process the writer, and the writer's index
and accounts; crash at any step, any file-system call may fail. What is under `d.mu` is split at each
file removed; what is outside, at each call.

The site, from the bottom up, mostly operators: `SiteTree` (a Markdown file as a record; its kind, URL,
section, parent, effective front matter, and the lists of a tree), `SiteLists` (the lists without drafts,
terms, both computations of a pager), `SitePlugins` (what `.env` and `huan.yaml` come to, which plugins load, what each takes
from its settings, the active theme), `SiteLanguages` (default language, order of builds, which files
belong to which, available translations, stale ones), `SitePages` (every file a build writes:
pages, pagers, feeds, sitemap, search index, content API, Markdown mirror, llms.txt, static files; with the template each is
made with, and what minifying and making links absolute do to its images),
`PostBuild` (what each plugin does to those files, the image pipeline at the end included; the drawing service may answer for
any diagram or none, and any drawing may fail to be stored), `SiteGraph` (the daemon's graph), `ContentIndex` (reload,
query and the requests of the public API). `SiteBuild` is the state machine over them: an author saves, deletes and changes templates; a full
build loads the configuration and the plugins, goes through its languages, each in the steps read, render, set up and write, and
outside of the daemon ends with the image pipeline over the whole site; an incremental
build renders what the graph says is affected. A visitor's request is what the development server would answer
(`Visit`). An output file is a path and a view: its
kind, language, page, list, links, next pager and what plugins left in it.

The `MC*` modules give these their small instances.

## Composition and abstract specifications

* `DevSession` EXTENDS `RebuildQueue`: each queue step is taken inside a step of the session, so the
  refinement of `ChangeQueue` (`KeepsPromise`, safety proved, liveness by TLC) holds in the surroundings
  the code gives the queue: one watcher, detached admin rebuilds, a main goroutine that closes and waits.
* `PagesDeploy` INSTANCEs `Limiter` with the uploading goroutines as workers; `CloudflareDeploy` EXTENDS
  `PagesDeploy` and INSTANCEs `R2Sync` (as `R2`) with the limiter's cap.
* `SiteBuild` EXTENDS `PostBuild`, `SiteGraph` and `ContentIndex`, which stand on `SitePages`, `SitePlugins`,
  `SiteLanguages`, `SiteLists` and `SiteTree`. A full build of the same files is the reference an incremental build is compared with (`IncrementalFresh`).
* `Daemon` takes builds one at a time and `SiteBuild` takes what a build read as given: `BuildQueue` and
  `JITServing` are where those abstractions are looked into.

## Runs

| Run | Instance | Distinct states | Shows |
|---|---|---|---|
| `build_queue` | 2 callers, 1 post, 1 layout, 2 versions of each; calls and failures without bound | 702 k | `OwnChangesBuilt`: a caller that gets the queue has its own changes built; `CallsReturn`: every call returns once calls stop finding the queue busy, trailing builds and failures included |
| `dev_watcher` | 2 paths, 4 events | 9 k | `NoCallbackAfterReturn`, `DeliveredOnce`, `ReportedSomeTime` |
| `livereload` | 2 browsers, buffer 2, 3 reloads, 1 alert | 191 k | `BroadcastEnds`: a broadcast never waits for a browser; `PagesCatchUp`: a full channel loses no last build; `LeaversForgotten` |
| `dev_session` | watcher, one admin rebuild and main, 2 paths, 3 submissions | 146 k | `KeepsPromise` (refinement), `UpToDateOrAlerted`, `DirectoriesSafe`, `EditsAnswered`, `SessionEnds` |
| `jit_serving` | a post and a draft, which may be new and may have been changed during the first build; 1 request, 1 edit, 1 failed build; deadlock checked | 1.08 M | `WriteThrough`: the content cache is older than the last build only through a request that left the fast path; `FreshUnlessLate`; `EventuallyCurrent` |
| `daemon` | a file, a directory to be made and a file in it, 1 client, 2 events of the environment | 218 k | `NotifiedThenFresh`: the index shows what an event tells of; `EditsAnnounced`; `ShutdownEnds` |
| `plugins` | 1 compiled, 2 files, 1 elsewhere, 2 requests, 2 timers, 2 operations, 2 changes | 954 k | `CompiledStay`; `SamePlugins`: registry and list hold the same plugin under a name until a reload ends whose name was registered again |
| `admin` | `huan dev` or the daemon, 2 editors, 3 requests and asks for a build, 2 language variants, an image, `huan.yaml` | 737 k | `LogExplainsFiles`, `UnknownFieldsKept`, `TreeCountsAll`, `SettingsReachTheSite` |
| `cloudflare` | 3 batches, 2 at a time, 1 retry, 2 faults, 1 expiry; 2 mappings and syncs; 3 scripts; deadlock checked | 710 k | `DeploymentComplete`, `NoStragglers`, `OneExpirySurvived`, `SyncMirrors`, `ReportsAddUp` |
| `markdown_disk` | 2 processes, 3 workers, 3 keys, 4 temporary names | 4.3 k (symmetry) | `EveryFileCharged`, `AccountsAddUp` |
| `site` | six sites, 2 edits each | 12.8 k | `IncrementalFresh`, `ListsResolve`, `PagersCoverMain`, `DraftsHidden`, `LanguagesKept`, `TranslationsExist`, `QueriesComplete`, `FailuresContained` |
| `site_drafts` | the same | – | violation of `DraftsStayOut`, see [finding](#finding) |

The properties of the site are conditional where the code is: `SameShape` names the edits the graph of the last
full build cannot see (new files, changed cascades, leaf bundles, deleted ones too), `SameAddress` the pages whose URL moved,
`OwnFile` the pages that share a file with another page, with what is copied, or with what is made from the whole site. `last.same` and
`last.moved` are history: whether every incremental build since has found the content in that shape (a new file that was listed and is gone
again leaves no trace in the graph), and the addresses pages had moved to meanwhile (where one met another, it may have written last).
Without these conditions the properties fail; what then happens is under [behaviour met](#behaviour-met).

## Bounds

They count events of the environment, never steps of the code.

* `BuildQueue`: the races need one owner and one late caller; a second edit tells stale from current. Calls and
  failing builds are not bounded: a build that fails with `pending` set is followed by callers that find it set, and the two
  callers may mark without end, which is why `CallsReturn` states its condition (the owner of the queue stays in the loop of
  `QueueBuild`, lines 166–178, for as long as every build meets a new mark).
* `DevWatcher`: four events make three replaced timers, one more than a late timer needs to meet its
  successor's successor.
* `DevSession`: three submissions are one that runs, one merged with it, one that arrives at the end;
  two paths tell a batch from a full request. Failures are unbounded.
* `LiveReloadHub`: a buffer of 2 overflows with three reloads. `PagesCatchUp` needs `MaxAlerts` smaller
  than `BufferSize`: an alert that fills the buffer displaces a reload, in the code as in the model.
* `JITServing`: an incremental build and a full one around a request; one failure leaves the state a
  failed build leaves. Requests for the same page meet only in two atomic caches, so one request at a
  time against the builder shows every order of load, clear and set. One edit is enough for an old and a
  new version of a page to meet; that the page may be new, and that an event may be left from the first build,
  gives the orders a second edit would. (Two edits are 4.7 M states.)
* `Daemon`: two events are an edit during the handling of another, a tick during a handled edit, a new directory and the
  file written to it before or after it is watched, or a failure and its repair; `MaxSpent` counts edits, new directories, ticks,
  triggers and failures together. A buffer of 1 overflows with one build.
* `PluginLifecycle`: two operations make a reload and what can come between; two files derive the same name or
  different ones; a file elsewhere has the name of the compiled plugin.
* `AdminAPI`: three requests are two that race and one that finds what they left, or a save, a build it finds at work and one
  asked for later; the editors are interchangeable (`EditorsAlike`); a document is longer than another,
  and one does not parse once written.
* `PagesDeploy`: two faults reach the second attempt of a retry and the end of it; one expiry is what a
  refresh is there for. With two, an upload fails by design (one refresh per request). Two assets share a hash, and the limits
  of a batch make three batches for two slots.
* `R2Sync`: a second synchronisation shows what the first one left; a name is the prefix of another, and
  a bucket holds a stale object under each; one file is large enough to be sent in parts.
* `MarkdownDisk`: budgets smaller than the sum of the costs, keys of different cost, one temporary name
  more than there are workers.
* `SiteBuild`: six configurations: a blog of the daemon with a theme plugin, a plugin that does not open and settings that refer to `.env`;
  the same in two languages, and in two languages that share content in strict mode; a site whose pictures make the image
  pipeline work; one whose settings the schema refuses, and one that refers to what is not set. A site has a section without a file, a section in it, drafts, pages whose addresses may come to coincide, terms
  in two spellings and more pages than fit on a pager; each edit is one that some rule of the code singles out, and the second
  edit meets what an incremental build left of the first.

Runs whose configuration says `CHECK_DEADLOCK FALSE` model systems that stop or wait for users (a session that has
exited, editors that have made their last request).

## Fairness

Fairness is on what the Go scheduler and terminating calls guarantee, never on users or networks.

* `BuildQueue`: a call in progress takes its next step (builds return). No caller has to call.
* `DevSession`: the callback, the cleanup worker, woken waiters and the deferred calls go on.
* `DevWatcher`: an armed timer fires, its goroutine gets the mutex, callbacks return. `ReportedSomeTime` is about what follows a burst:
  the run has finitely many events. While events keep coming closer together than the debounce, the code reports nothing.
* `LiveReloadHub`: the readers and the broadcaster run. Writes to a browser may block, so `PagesCatchUp` and
  `LeaversForgotten` assume `WritesReturn`; `BroadcastEnds` does not.
* `JITServing`: builds and requests run, and full builds are started again and again: the
  ticker of `Run`, which `BuildInterval` 0 disables. Without it `EventuallyCurrent` is not promised.
* `Daemon`: builds return, file events are read, timers fire, the watcher starts, and the shutdown goes on, of which the
  deadline of `http.Server.Shutdown` is part. Handlers of the bus are goroutines whose step is not needed by any property.
* `SiteBuild`: a build goes on; no property of it needs more.
* `AdminAPI`, `R2Sync`, `PagesDeploy`, `PluginLifecycle`: none; deadlock of a deployment is checked instead.

## Proofs

`tlapm` checks every leaf; nothing is assumed but the named assumptions on the constants, which TLC evaluates in the runs.

* `BuildQueue_proofs`: `TypeCorrect`, `OneBuildAtATime`, `OwnChangesAreBuilt`, `PagesNeverGoBack`.
  `SingleBuild` is not inductive alone: `BusyIsOwned` ties `busy` to there being an owner. For the content,
  `Loaded` says that what a running build has loaded lies between what is served or asked for and the disk, and
  `Built` that the caller's own files are written once `buildFn` has returned.
* `DevSession_proofs`, of the queue: `ShutdownIsQuiet`, `ImplementsChangeQueue`. The invariant of `RebuildQueue` adds
  that `running` means exactly one builder, that an idle queue holds nothing back, and that a full
  request holds no paths; the refinement is by cases on the steps. Of the session: `SessionTypeCorrect`,
  `WholeBuildsServed`, `MissingOnlyWhileSwapping`, `NeverSilentlyOld`, `NothingLeftBehind`, `DirectoriesAlwaysSafe`,
  `SessionKeepsChanges`. The session steps as its
  queue does, so the invariant of the queue carries over: one builder, and so one goroutine in the callback
  (`InCallback`). On top of it, `BuildPlaces` says where the build of each step lies, `CanRollBack` that between the
  renames `tmpDir.old` is whole and no worker counts on it, `ReadsAll` that a build which missed an edit has a
  successor pending, and `Ending` what each deferred call leaves to the next. Of the watcher:
  `WatcherTypeCorrect`, `QuietAfterReturn`, `BatchesGoOutOnce`. The armed timer is the newest
  (`ArmedIsNewest`), a generation fires once and is then either waiting or a callback (`FiredOnce`), and `Run` returns
  after its callbacks (`ReturnIsLast`); with `stopped` set no later timer gets past the lock.
* `DaemonServer_proofs`, of pages: `CacheIsWrittenThrough`, `OnlyLateIsStale`. The invariant orders versions:
  nothing read is newer than the file (`Ordered`), an entry of the content cache that no request has revived is nothing a build has replaced (`CacheIsFresh`),
  what a request rendered is no older than what had been cleared when it loaded the page (`RenderedIsFresh`), and what a request
  has loaded of the site is no older than what builds have read, until one reads again (`ScanIsFresh`).
* `Daemon_proofs`: `DaemonTypeCorrect`, `ToldFindsIt`. A client that is told of a build finds an index at least as new.
  `BuildPlaces` says what the build has loaded and what of it is on the disk and in the index, by the step it has reached;
  `BehindSource` that nothing on the disk is ahead of the files, and `ToldIsWritten` that the JSON files hold every build
  that was announced.
* `PluginLifecycle_proofs`: `PluginsTypeCorrect`, `CompiledPluginsStay`, `RegistryMatchesList`, whatever the interleaving of
  requests, timers and the directory watcher. `OwnNames` has every plugin of registry and list under its own name, `FromFiles`
  has what was loaded come from a file that may change, and `Loads` and `Reloads` say what a request that has released
  `m.mu` still knows.
* `DaemonServer_proofs`, of the admin panel: `AdminTypeCorrect`, `LogAlwaysExplains`, `FormKeepsTheRest`,
  `SettingsAlwaysReach`, `TreesCountAll`. Editors race without a lock, so the proof
  follows the one request that works on a file nobody else has touched since (`Alone`): what the file, what the request
  carries (`Carried`) and the last record of that file agree on at each step (`AllWhole`, `AllLogged`); `Ghosts` says that a path
  without a file has no document, and `KeyKept` follows the key of `huan.yaml` which the settings form does not know from
  the read to the write and the record. `SettingsAlwaysReach` rests on `Queued`: a full build asked for since the last write has not read
  the file yet, or holds what the file holds, or will run again; and in `huan dev` whoever has opened the file will still ask
  (`WillAsk`). `TreesCountAll` is about `buildTree`: the map gives the folders in any order that has longer
  paths first, so the loop's invariant counts, for each folder, the files under those of its subfolders that have been visited
  (`Counted`, `VisitCounts`), and the recursion is shown to have that solution and no other (`BuildTreeCounts`).
* `CloudflareDeploy_proofs`, of the limiter: `LimiterTypeCorrect`, `NoTokenLost`, `TwoTriesSuffice`, `InFlightBounded`, by counting:
  the tokens equal the slots in use, and there are at least as many tokens in `normalSem` as releases about to try it.
  The last select of `Release` (concurrency.go:64) is thus unreachable. Of the Pages protocol:
  `TypeCorrect`, `CompleteDeployments`, `NobodyLeftBehind`, `ExpiryHealed`, `ReportAccounted`, for every
  manifest, every batch limit and any number of faults and expiries. The limiter's invariant is inherited
  (`LimiterStep`). `Places` says where `DeployPages` and its goroutines can be at a time; `Known` what is stored at each
  point: what was not reported missing, the batches that came back without an error, in the end everything; the one gap,
  batches given up without an error, is covered by `NeverSent`, since the context is then cancelled and nothing more is
  sent. `Tokens` says which epochs tokens can be of until the second expiry, so that a refreshed one is good.
  That the goroutines upload whatever is missing needs what `Split` and `Batch` return for every
  sequence: `SplitKeeps` and `BatchCovers`, by induction. The library's induction theorems cannot be used by the
  provers installed, so `Induction` is proved from the existence of minimal elements (`WFMin`), and
  `Recursion` shows that the recursive functions in `Split` and `Batch` exist. `ReportAccounted` is the Pages part
  of `ReportsAddUp`: `Counted` has the counters equal the sum of the batches whose goroutines came back, and
  `BatchCounts` shows that the batches together are as long as what is to be uploaded. Of the command, where R2 and the
  workers join in: `BucketMirrored`, `EveryReportAddsUp`, `CommandKeepsPages`. `DeployInv` follows a synchronisation from what
  was walked and listed to what was uploaded and pruned (`WalkGoes`, `WalkedFinite`: of a mapping that is not cut, every file), and `DeployIsPages` maps the command's Pages steps to those of
  `PagesDeploy`, so that its invariant carries over.
* `MarkdownDisk_proofs`: `TypeCorrect`, `BudgetKept`, `IndexConsistent`, `NoFileEscapes`, `NeverPartial`, `CountersAddUp`.
  The invariant says what a worker has in hand at each step (`Hands`), that no two have the same
  (`Apart`), and what the index knows in each phase of opening (`Known`). `CountersAddUp` has the accounts equal the sum of
  the costs indexed at every step; it rests on how such a sum changes with one entry, which is proved by induction on the set.
* `SiteBuild_proofs`: `StepsHold`, `FailuresStayContained`, `PagersAgree`, `ItemsOnOnePager`,
  `SortedListsAll`, `QueriesShowAllOnce`, `LanguagesInTurn`, `DraftsStayHidden`, `LanguagesStayKept`, `IncrementalStaysFresh`, `QueriesStayComplete`. `StepsInv` says what a
  build still knows after each stage: what it read parses, and a site in one language has one round, so that nothing was
  wiped when its Markdown fails; content that does not parse, or a stale translation in strict mode, ends a build of any site
  where nothing has been wiped either (`ContentAtFault`). For the diagrams, every writer leaves them as code (`AllUndrawn`, one lemma for each kind
  of file), a language's plugins meet only files written anew (`FilesAnew`), and the cache holds only languages they draw
  (`SvgsInv`). The pagers rest on the arithmetic of `TotalPages` (`TotalIs`, `PageStarts`): the home template's
  computation and that of the files `page/N/` give the same pager, and each item is on one.
  That a finite set is listed whole and in order is shown by counting: `InOrder` puts at place i the element with i - 1
  before it, these counts differ (`RanksGrow`), and so they take every value below the size (`RanksAll`). It assumes what the
  loader gives: pages of one list have different paths (`Comparable`, `Distinct`; `Rank` orders paths). With it a reader of the query index
  who asks page by page, with any limit from 1 to 50, meets each matching item on exactly one page, as long as there are no
  more items than the largest page number taken (`MaxPage`).
  What a whole full build leaves rests on `LanguagesInv`, which follows the languages in turn: those still to come are the last of the
  build order; below the base directory of each language that is done lies a sitemap of that language; every HTML file has been through the
  plugins once, since a language cleans and works on its own directory only, and writes every file in it anew; and every file
  holds pages that may be shown (`Showable`), which goes through each writer, each plugin and the lists they are handed
  (`Picked` and `Ordered` keep to what they pick from). `SourcesInv` says that a file a build has read is one the site has ever had. After the last
  language this is `DraftsHidden` and `LanguagesKept`. `SitesAssumption` is what it takes: base directories that do not lie in one
  another (two languages in one directory do wipe one another), a daemon whose site has one language, files as the loader gives
  them, of which no page has both `foo.md` and `foo.<default>.md`, and no variant of a picture called like a page.
  `IncrementalStaysFresh` compares the published files with what a build of the present files would write, across any number of edits,
  incremental builds and failures. Its invariant is `FreshInv`: there is some content F, that of the last build, of which the output shows every page
  (`PagesShown`) and every file made from the whole site (`Has`), and where the disk differs from F the watcher has reported the path or the
  build under way has been told (`Pending`, `Told`); that the writer's directories are there (`Based`, `EnsuredAll`) is part of it. That an
  incremental build restores it is the work of the graph: `AffectedIs` shows that the breadth-first search finds what the changed paths reach within two steps,
  `ChangeReaches` that a page whose file changed, its section and the home page are among it, and `PageAlike` that any other page is, its lists
  included, the same in a build of the old files and of the new: sections and their cascades decide what is listed (`TreesAlike`), a page
  hangs in its own top directory (`ParentIn`), and a sorted list depends on its set only. The proof is also where the conditions above
  come from: attempts without `last.moved` and without the leaf bundles of the graph failed at steps that TLC then turned into
  behaviours of three edits. `QueriesStayComplete` follows a section from the content files to the answers of the query API. `FreshInv`
  gives the section's file of the content API as a build of the present files would write it (`Offered`; no output plugin
  touches its list, `PluginsKeepLists`); a second invariant, `IndexInv`, that the index holds what those files listed when the last build
  loaded them, unless that build failed; `ListedAlike` that the index puts a section's items in the order
  of its file; and `AskedAll` that the answers, asked as far as the total goes, put one behind the other, are that list. A section whose
  file is a copied one, and a list of more than `MaxPage` pages, are outside the statement: the index then holds what the copied file lists, and higher page numbers are taken for `MaxPage`.

Only model-checked: liveness (fairness and ENABLED are out of the prover's reach); `LiveReloadHub`, whose properties are all
liveness; and, of `SiteBuild`, `ListsResolve`, `PagersCoverMain` and `TranslationsExist`: they follow a reader through
several files of the output, from a list to a page, a pager or a picture, by recursive functions over what is there.
`TranslationsExist` depends on the sites of the instance: with a third language it does not hold for every site, see
[behaviour met](#behaviour-met).

## Finding

`site_drafts`: README.md:144 of huan has drafts in the output of the daemon only with `--buildDrafts`. An incremental build
renders whatever pages the graph calls affected without looking at their draft flag (`internal/build/build.go:391`), so a
published page that becomes a draft, or a draft that is edited while its node is in the graph, is published.
It disappears with the next full build.

## Behaviour met

Met while modelling; the models contain it, and no run claims the contrary.

Queues and sessions.
* `builder.go:180`: between reading `pending` and releasing `busy` a caller can mark `pending` and leave; no
  trailing build follows until another request comes.
* `builder.go:167`: the trailing build runs the owner's captured function, so the files of the caller that marked
  `pending` are built by nobody until something else asks.
* `pipeline.go:325` by way of `builder.go:409`: a request that leaves the fast path (a list page, a page without a template, a file that does
  not parse) stores all content it has read, outside of the queue: pages older than those a build has stored meanwhile come back into the
  content cache, and later requests render them until a build reads them again. This is `revived` in `JITServing`.
* `TriggerRebuild` does nothing once the graph exists: it names no file. So "Rebuild" in the daemon's admin panel and the
  PUTs of `huan.yaml` build nothing there (`daemon.go:228`, `builder.go:246`); in `huan dev` both make a full build.
* `daemon.go:295`: what is edited between the initial build's load and the start of the watcher is in no event. The event of a new
  directory names the directory only (`watcher.go:136-145`), so a file written there before the directory is watched is in none either.
* The loop of the event stream ends only when its client leaves; a shutdown with a client connected waits for its deadline.
* `livereload.go:128`: a browser that disconnects has its channel closed while a broadcast may hold a
  copy of it: a send on a closed channel ends the process.
* `swap.go:59, 66`: a rename and its rollback that both fail lose the site for the rest of a session.
* `lifecycle.go:313, 330, 341`: while a reload opens its file outside of `m.mu`, a `Load` or the directory watcher may register the
  name again. `Register` at the end of the reload, or of its rollback, then fails, its error is dropped, and the list shows a plugin that
  is not the one in the registry. These are the steps `Collides` that `SamePlugins` leaves out. A new name alone, of which
  a comment says that it "creates inconsistent state", keeps registry and list alike.
* `lifecycle.go:328, 662`: a reload whose file has another name overwrites the entry of that name, a compiled
  plugin too; the directory watcher drops a plugin and leaves its handlers on the bus.

Admin API. Uploads and deletions of media and changes of the theme are never recorded, where `handler.go:40` says that write
operations are; a read-back that fails leaves a change without a record; a settings PUT on an empty `huan.yaml` panics; a content folder called
`_root` is counted with the files of the root (content.go:424), which `ListingAssumption` leaves out.

Deployment. No request ends in a 5xx error as `pages.go:259` looks for it, so the limiter never degrades; errors of the directory
walk (`r2.go:339`) are not among the failures, and the prune that follows deletes what they left out; a file of more than 16 MiB is sent in parts,
its ETag never equals the MD5 it is compared with (`r2.go:218`), and every synchronisation uploads it again; a prefix `img` also lists
`img-old`; a single file mapped to a name with a leading slash is never found in the listing; up to
`HTTPMaxParallel + HTTPDegradedParallel` holders at the moment of a degrade, where a comment says "Hard-capped at 3".

Incremental builds. Besides the finding: future and expired pages are published like drafts; RSS and the Markdown mirror stay old
(build.go:427-433); a new file or a changed slug is not rendered and the old file stays; pages of terms that are gone stay, as does
the content API of a section whose last page became a draft; one file that does not render loses the other changes of
the batch; it overwrites a `static/llms.txt` that wins in a full build; leaf bundles name no section, so editing or deleting one leaves its section page old; of two pages that met at an address
the file keeps what the one wrote that has since moved away, until the other is affected; pages of the root are no section's, so a site that
had them among its main sections (`ContentAssumed` leaves it out) would keep an old home page; a changed
cascade reaches no other section. A new file that is saved together with a page the graph knows is listed, though not
rendered; when it is deleted, no page is affected (builder.go:249-253) and the lists keep it until a page of theirs changes. Pages and the sitemap written anew lose what the output plugins had put there, as
hooks run in full builds only. The writer kept from the last full build (`writer.go:117`) takes directories for
existing that a failed full build has wiped, and writes nothing into them.

Full builds. A template that does not parse is found after the published directory has been wiped; a second language that fails leaves
its part wiped; two languages in one directory wipe one another. A language link may lead to a page that the other
language leaves out or has under another slug (build.go:58-61); with three languages also to one in the default language that has no file,
when the page is there in the two others. Future, expired and never rendered pages are listed but not
written; links to `/posts/page/2/` of a section lead nowhere. Two pages of one address race for the file. `huan deploy --build` and the
daemon always build a single language. Without `api/` a reload of the index keeps the old items; pages of the root cannot be asked
for by section.

Output plugins. `guessKind` takes nearly every page for a section, so that kinds given as `page` match nothing;
`setDefaults` of the SEO plugin makes `injectOG: false` and `injectTwitter: false` ineffective; the address it gives a
translation is the default language's; a second language's home has a section's priority in the sitemap. A diagram whose
storing fails (`diagram-renderer/plugin.go:149`) is shown once and drawn again by the next build, which without the service leaves it as code; one
stored in part is taken for the drawing from then on. Every entry of a sitemap comes with the site's priority
and frequency, so the sitemap plugin changes nothing unless `huan.yaml` sets them to nothing; if it then fills in a single value, it writes the file anew
without the links to translations. The image pipeline finds an image only where the address still has quotes and starts at
the root: not with minifying on, which is the default, and not on a site with a `baseURL`; originals `a.jpg` and `a.png` make variants of one name, and the later
overwrites the other's. A command whose plugin settings do not load drops the error (main.go:105), builds without hooks, and panics
when it looks for the image pipeline; with a theme it panics before the build.

## What is not modelled

Text processing (templates, Markdown, shortcodes, the text of feeds) has no protocol, and the repository compares
its result with Hugo byte for byte; of minifying and of making links absolute the models have only what they do to the images the image pipeline looks for.
Of the configuration they have what decides which files are built and which plugins run; of the theme, which templates and
assets win, not its installation. Data races on Go values (the LRU list of the content cache moved under a
read lock, fields of a page filled in by two requests, the plugin registry read during a build) are outside of the models, which take
such a lookup as one step. The memory tiers of the build caches are maps behind one lock each. The admin panel's
React client, the ebook plugin, release tools and the other
commands of the CLI are sequential and have no state that outlives a call; so is the pixel work of the image plugin. A page loaded just before its
browser connects to the live reload hub is not modelled. Each component of `PROJECT.json` that is not modelled says why.

## Plan

Done, in this order: the queues and watchers (`BuildQueue`, `RebuildQueue`/`ChangeQueue`, `DevWatcher`), `LiveReloadHub`, `Limiter`,
`PagesDeploy`, `MarkdownDisk`, `DevSession`, `JITServing`; then `PluginLifecycle`, `Daemon`, `R2Sync`, `CloudflareDeploy`, `AdminAPI`, the
site (`SiteTree` up to `SiteBuild`); and the proofs of fourteen modules.

Left: `DevSession` with `DevWatcher` in place of its free submissions; `Daemon` with `BuildQueue` in place of its one build at
a time; the memory tier above `MarkdownDisk`; theorems about what a reader meets who
follows lists, pagers and links, from those about what builds leave.
