----------------------------- MODULE JITServing -----------------------------
(***************************************************************************)
(* How the daemon answers a request for a regular page: from the output    *)
(* directory, from the JIT cache, or by rendering the page from the        *)
(* content cache (internal/daemon/serving.go, RenderPageJIT in builder.go, *)
(* build.JITRenderFast), while the builder replaces all three. The builder *)
(* takes one request at a time; BuildQueue is about how it gets them.      *)
(*                                                                         *)
(* A page is known by the version of its source file it was made from;     *)
(* 0 means there is none. The HTML of list pages and templates are left    *)
(* out; a request for a list page stands for the content it loads. Pages   *)
(* are independent of one another, so a build, or a request that loads the *)
(* site, may read, store and write all of them in one step each.           *)
(***************************************************************************)
EXTENDS Naturals

CONSTANTS
    Pages,
    Drafts,         \* pages no build writes: only a request renders them
    List,           \* what a request has that asks for no page of Pages
    Requests,       \* goroutines serving a request
    CleanPublish,   \* a full build cleans the output directory first
    MaxEdits,       \* bound: files saved or deleted
    MaxFailures     \* bound: builds that return an error

ASSUME JITServingAssumption ==
    /\ Drafts \subseteq Pages /\ List \notin Pages
    /\ CleanPublish \in BOOLEAN
    /\ MaxEdits \in Nat /\ MaxFailures \in Nat

VARIABLES
    src,            \* the files under content/
    dirty,          \* changed since the last content.changed event
    edits, failures,
    out,            \* the output directory
    known,          \* sources in the dependency graph
    cached,         \* PipelineCache.ContentCache
    jit,            \* JITCache
    gone,           \* PipelineCache.Writer knows directories that are gone
    phase, full, files, snap,   \* the running build, and what it loaded
    at, page, html, scan,       \* each request; page: List at first
    base,           \* what cleared was when a request loaded its page
    loaded,         \* what the last build stored (history)
    cleared,        \* what a page's last removal from the JIT cache was for
    late,           \* pages whose JIT entry was loaded before that (history)
    overtaken,      \* requests that loaded the site before a build did
    revived         \* pages such a request stored in cached (history)

content == <<src, dirty, edits>>
build == <<phase, full, files, snap>>
request == <<at, page, html, scan, base>>
history == <<loaded, cleared, late, overtaken, revived>>
servingVars == <<content, failures, gone, out, known, cached, jit, build, request, history>>

Nothing == [p \in Pages |-> 0]
Published == Pages \ Drafts

(* The daemon serves once its first full build is done; what was changed   *)
(* before that build read it may still be reported.                        *)
ServingInit ==
    /\ src \in [Pages -> {0, 1}] /\ dirty \in SUBSET Pages
    /\ edits = 0 /\ failures = 0
    /\ out = [p \in Pages |-> IF p \in Drafts THEN 0 ELSE src[p]]
    /\ known = {p \in Published : src[p] # 0}
    /\ cached = src /\ jit = Nothing
    /\ phase = "idle" /\ full = FALSE /\ files = {} /\ snap = Nothing
    /\ gone = FALSE
    /\ at = [r \in Requests |-> "idle"]
    /\ page = [r \in Requests |-> List]
    /\ html = [r \in Requests |-> 0] /\ base = html
    /\ scan = [r \in Requests |-> Nothing]
    /\ loaded = src /\ cleared = src /\ late = {}
    /\ overtaken = {} /\ revived = {}

-----------------------------------------------------------------------------
(* The author. *)

Change(p, version) ==
    /\ edits < MaxEdits /\ edits' = edits + 1
    /\ src' = [src EXCEPT ![p] = version]
    /\ dirty' = dirty \cup {p}
    /\ UNCHANGED <<failures, gone, out, known, cached, jit, build, request, history>>

Save(p) == Change(p, edits + 2)
Delete(p) == src[p] # 0 /\ Change(p, 0)

-----------------------------------------------------------------------------
(* The builder. *)

Affected == files \cap known

(* A full build: the ticker, or a changed template. *)
StartFull ==
    /\ phase = "idle"
    /\ phase' = "read" /\ full' = TRUE /\ files' = {}
    /\ UNCHANGED <<content, failures, gone, out, known, cached, jit, snap, request, history>>

(* IncrementalBuild of the changed files: it invalidates them in the       *)
(* content cache, or returns at once when no page of the graph comes from  *)
(* one of them.                                                            *)
StartIncremental ==
    /\ phase = "idle" /\ dirty # {}
    /\ dirty' = {}
    /\ IF dirty \cap known = {}
       THEN UNCHANGED <<phase, full, files, cached, revived>>
       ELSE /\ phase' = "read" /\ full' = FALSE /\ files' = dirty
            /\ cached' = [p \in Pages |-> IF p \in dirty THEN 0 ELSE cached[p]]
            /\ revived' = revived \ dirty
    /\ UNCHANGED <<src, edits, failures, gone, out, known, jit, snap, request,
                   loaded, cleared, late, overtaken>>

(* LoadDir reads every file, drafts included. *)
Read ==
    /\ phase = "read"
    /\ snap' = src
    /\ phase' = "store"
    /\ overtaken' = {r \in Requests : at[r] = "store"}
    /\ UNCHANGED <<content, failures, gone, out, known, cached, jit, full, files, request,
                   loaded, cleared, late, revived>>

NextPhase == IF full /\ CleanPublish THEN "clean" ELSE "render"

Has(pages) == {p \in Pages : pages[p] # 0}

(* Variant for the checks: pages that are cached are not stored again. *)
StoreMissing ==
    /\ phase = "store"
    /\ cached' = [p \in Pages |-> IF cached[p] = 0 THEN snap[p] ELSE cached[p]]
    /\ loaded' = snap
    /\ phase' = NextPhase
    /\ revived' = revived \ Has(snap)
    /\ UNCHANGED <<content, failures, gone, out, known, jit, full, files, snap, request,
                   cleared, late, overtaken>>

(* ContentCache.Store of each page read: whatever the cache has for it is  *)
(* replaced.                                                               *)
Stored(pages) == [p \in Pages |-> IF pages[p] # 0 THEN pages[p] ELSE cached[p]]

(* Each page read is written through to the content cache. *)
Store ==
    /\ phase = "store"
    /\ cached' = Stored(snap)
    /\ loaded' = snap
    /\ phase' = NextPhase
    /\ revived' = revived \ Has(snap)
    /\ UNCHANGED <<content, failures, gone, out, known, jit, full, files, snap, request,
                   cleared, late, overtaken>>

(* The directory is renamed and a worker deletes it.                       *)
Clean ==
    /\ phase = "clean"
    /\ out' = Nothing /\ gone' = TRUE
    /\ phase' = "render"
    /\ UNCHANGED <<content, failures, known, cached, jit, full, files, snap, request, history>>

PagesWritten == {p \in IF full THEN Published ELSE Affected : snap[p] # 0}

(* A full build has a writer of its own, which it leaves in the cache, and *)
(* makes the dependency graph anew. An incremental one uses the writer in  *)
(* the cache, which creates a directory only once: when they are gone the  *)
(* pages are not written, and errors of the writer are only logged.        *)
Render ==
    /\ phase = "render"
    /\ out' = [p \in Pages |->
                IF p \in PagesWritten /\ (full \/ ~gone) THEN snap[p] ELSE out[p]]
    /\ gone' = (gone /\ ~full)
    /\ known' = IF full THEN PagesWritten ELSE known
    /\ phase' = "invalidate"
    /\ UNCHANGED <<content, failures, cached, jit, full, files, snap, request, history>>

Stale == IF full THEN Pages ELSE Affected

(* Variant for the checks: only the pages just written are removed. *)
InvalidateWritten ==
    /\ phase = "invalidate"
    /\ jit' = [p \in Pages |-> IF p \in PagesWritten THEN 0 ELSE jit[p]]
    /\ cleared' = [p \in Pages |-> IF p \in Stale THEN snap[p] ELSE cleared[p]]
    /\ late' = late \ Stale
    /\ phase' = "idle" /\ files' = {} /\ snap' = Nothing
    /\ UNCHANGED <<content, failures, gone, out, known, cached, full, request,
                   loaded, overtaken, revived>>

(* JITCache.Clear after a full build, Remove of the affected pages after   *)
(* an incremental one.                                                     *)
Invalidate ==
    /\ phase = "invalidate"
    /\ jit' = [p \in Pages |-> IF p \in Stale THEN 0 ELSE jit[p]]
    /\ cleared' = [p \in Pages |-> IF p \in Stale THEN snap[p] ELSE cleared[p]]
    /\ late' = late \ Stale
    /\ phase' = "idle" /\ files' = {} /\ snap' = Nothing
    /\ UNCHANGED <<content, failures, gone, out, known, cached, full, request,
                   loaded, overtaken, revived>>

(* An error return, which leaves things as they are. *)
Fail ==
    /\ phase \notin {"idle", "invalidate"}
    /\ failures < MaxFailures /\ failures' = failures + 1
    /\ phase' = "idle" /\ files' = {} /\ snap' = Nothing
    /\ UNCHANGED <<content, gone, out, known, cached, jit, full, request, history>>

Builder == Read \/ Store \/ Clean \/ Render \/ Invalidate

-----------------------------------------------------------------------------
(* The requests. *)

(* pathResolvesToFile finds no file: jitFallback. *)
Ask(r, p) ==
    /\ at[r] = "idle" /\ out[p] = 0
    /\ at' = [at EXCEPT ![r] = "get"]
    /\ page' = [page EXCEPT ![r] = p]
    /\ UNCHANGED <<content, failures, gone, out, known, cached, jit, build, html, scan, base, history>>

(* A list page, whose files are left out: the site is loaded. *)
AskList(r) ==
    /\ at[r] = "idle"
    /\ at' = [at EXCEPT ![r] = "scan"]
    /\ UNCHANGED <<content, failures, gone, out, known, cached, jit, build, page, html, scan, base, history>>

(* JITCache.Get *)
Get(r) ==
    /\ at[r] = "get"
    /\ at' = [at EXCEPT ![r] = IF jit[page[r]] # 0 THEN "idle" ELSE "load"]
    /\ page' = [page EXCEPT ![r] = IF jit[page[r]] # 0 THEN List ELSE page[r]]
    /\ UNCHANGED <<content, failures, gone, out, known, cached, jit, build, html, scan, base, history>>

(* ContentCache.GetOrLoad, which reads the file only when it has no entry. *)
FromCache(p) == IF cached[p] # 0 THEN cached[p] ELSE src[p]

(* An entry that a request revived may be older than what was cleared. *)
LoadPage(r) ==
    /\ at[r] = "load" /\ src[page[r]] # 0
    /\ html' = [html EXCEPT ![r] = FromCache(page[r])]
    /\ cached' = [cached EXCEPT ![page[r]] = FromCache(page[r])]
    /\ base' = [base EXCEPT ![r] = IF page[r] \in revived THEN 0 ELSE cleared[page[r]]]
    /\ at' = [at EXCEPT ![r] = "set"]
    /\ UNCHANGED <<content, failures, gone, out, known, jit, build, page, scan, history>>

(* There is no such file: 404. *)
NotFound(r) ==
    /\ at[r] = "load" /\ src[page[r]] = 0
    /\ at' = [at EXCEPT ![r] = "idle"] /\ page' = [page EXCEPT ![r] = List]
    /\ UNCHANGED <<content, failures, gone, out, known, cached, jit, build, html, scan, base, history>>

(* JITRenderFast fails: there is no such file, or no template, or the page *)
(* cannot be parsed or rendered. When the file is there, the site is       *)
(* loaded.                                                                 *)
LeaveFastPath(r) ==
    /\ at[r] = "load"
    /\ \/ cached' = cached
       \/ src[page[r]] # 0 /\ cached' = [cached EXCEPT ![page[r]] = FromCache(page[r])]
    /\ at' = [at EXCEPT ![r] = "scan"]
    /\ UNCHANGED <<content, failures, gone, out, known, jit, build, page, html, scan, base, history>>

(* RenderPageWithCache reads all content, ... *)
Scan(r) ==
    /\ at[r] = "scan"
    /\ scan' = [scan EXCEPT ![r] = src]
    /\ base' = [base EXCEPT ![r] = IF page[r] = List THEN 0 ELSE cleared[page[r]]]
    /\ at' = [at EXCEPT ![r] = "store"]
    /\ UNCHANGED <<content, failures, gone, out, known, cached, jit, build, page, html, history>>

Revived(r, pages) == (revived \ pages) \cup IF r \in overtaken THEN pages ELSE {}

(* ... stores it, outside the build queue, whatever was built meanwhile,   *)
(* and renders the page.                                                   *)
StoreScan(r) ==
    /\ at[r] = "store" /\ page[r] # List /\ scan[r][page[r]] # 0
    /\ cached' = Stored(scan[r])
    /\ revived' = Revived(r, Has(scan[r])) /\ overtaken' = overtaken \ {r}
    /\ html' = [html EXCEPT ![r] = scan[r][page[r]]]
    /\ scan' = [scan EXCEPT ![r] = Nothing]
    /\ at' = [at EXCEPT ![r] = "set"]
    /\ UNCHANGED <<content, failures, gone, out, known, jit, build, page, base, loaded, cleared, late>>

(* It may fail at any page (a file that is gone by then, os.Stat), or when *)
(* it renders: 404. A list page ends here too.                             *)
StoreSome(r) ==
    /\ at[r] = "store"
    /\ \E some \in SUBSET Has(scan[r]) :
        /\ cached' = [p \in Pages |-> IF p \in some THEN scan[r][p] ELSE cached[p]]
        /\ revived' = Revived(r, some)
    /\ overtaken' = overtaken \ {r}
    /\ scan' = [scan EXCEPT ![r] = Nothing] /\ base' = [base EXCEPT ![r] = 0]
    /\ at' = [at EXCEPT ![r] = "idle"] /\ page' = [page EXCEPT ![r] = List]
    /\ UNCHANGED <<content, failures, gone, out, known, jit, build, html, loaded, cleared, late>>

(* JITCache.Set, whatever was built meanwhile. *)
Set(r) ==
    /\ at[r] = "set"
    /\ jit' = [jit EXCEPT ![page[r]] = html[r]]
    /\ late' = IF base[r] < cleared[page[r]] THEN late \cup {page[r]} ELSE late \ {page[r]}
    /\ at' = [at EXCEPT ![r] = "idle"] /\ page' = [page EXCEPT ![r] = List]
    /\ html' = [html EXCEPT ![r] = 0] /\ base' = [base EXCEPT ![r] = 0]
    /\ UNCHANGED <<content, failures, gone, out, known, cached, build, scan,
                   loaded, cleared, overtaken, revived>>

Serve(r) ==
    \/ Get(r) \/ NotFound(r) \/ LoadPage(r) \/ LeaveFastPath(r)
    \/ Scan(r) \/ StoreScan(r) \/ StoreSome(r) \/ Set(r)

(* The TTL of an entry ends, or the cache is full. *)
Expire(p) ==
    /\ jit[p] # 0
    /\ jit' = [jit EXCEPT ![p] = 0]
    /\ late' = late \ {p}
    /\ UNCHANGED <<content, failures, gone, out, known, cached, build, request,
                   loaded, cleared, overtaken, revived>>

(* The content cache is full. *)
Evict(p) ==
    /\ cached[p] # 0
    /\ cached' = [cached EXCEPT ![p] = 0]
    /\ revived' = revived \ {p}
    /\ UNCHANGED <<content, failures, gone, out, known, jit, build, request,
                   loaded, cleared, late, overtaken>>

-----------------------------------------------------------------------------
ServingNext ==
    \/ \E p \in Pages : Save(p) \/ Delete(p) \/ Expire(p) \/ Evict(p)
    \/ StartFull \/ StartIncremental \/ Builder \/ Fail
    \/ \E r \in Requests : Serve(r) \/ AskList(r) \/ \E p \in Pages : Ask(r, p)

ServingSpec == ServingInit /\ [][ServingNext]_servingVars

(* The builder and the requests run, and full builds are asked for again   *)
(* and again: the ticker of Run.                                           *)
FairServing ==
    /\ ServingSpec
    /\ WF_servingVars(Builder) /\ WF_servingVars(StartFull)
    /\ \A r \in Requests : WF_servingVars(Serve(r))

-----------------------------------------------------------------------------
(* Properties. *)

(* A page in the content cache is as new as what the last build read,      *)
(* unless a request stored it that had left the fast path and loaded the   *)
(* site before a build did: such a request stores all it loaded, outside   *)
(* the build queue, and can bring back what the build has replaced. That   *)
(* is the only way: requests on the fast path, builds that fail, evictions *)
(* and deleted files do not.                                               *)
WriteThrough ==
    \A p \in Pages : cached[p] # 0 => cached[p] >= loaded[p] \/ p \in revived

(* "full rebuild means all cached HTML is stale": an entry of the JIT      *)
(* cache is as new as the last build that removed the page from it, unless *)
(* the request that stored it had loaded the page before that build        *)
(* finished, or had it from an entry of the content cache that another     *)
(* request revived. HTML that a build has replaced reappears in no other   *)
(* way.                                                                    *)
FreshUnlessLate == \A p \in Pages : jit[p] # 0 => jit[p] >= cleared[p] \/ p \in late

(* Once the author stops, the files written, the pages cached and the HTML *)
(* cached all become current and stay so: late and revived entries, failed *)
(* builds and deleted pages are all healed by the next full builds.        *)
Current ==
    \A p \in Pages :
        /\ out[p] \in {0, src[p]}
        /\ jit[p] \in {0, src[p]}
        /\ cached[p] \in {0, src[p]} \/ src[p] = 0

EventuallyCurrent == CleanPublish => <>[]Current

=============================================================================
