------------------------- MODULE DaemonServer_proofs -------------------------
(***************************************************************************)
(* What the requests the daemon answers can and cannot do, first those for *)
(* pages (JITServing), then the writes of the admin panel (AdminAPI), and  *)
(* what the panel shows of the files they leave (AdminListing).            *)
(***************************************************************************)
EXTENDS AdminListing, JITServing, FiniteSetTheorems, WellFoundedInduction, TLAPS

(***************************************************************************)
(* What requests can and cannot bring back while builds replace pages, for *)
(* any number of pages, requests, edits and failing builds. The argument   *)
(* is about versions: nothing that was read is newer than the file, a file *)
(* is never older than what a build has read, what a request rendered is   *)
(* no older than what had been replaced when it loaded the page, and what  *)
(* a request has loaded of the site is no older than what a build has,     *)
(* unless the request is overtaken.                                        *)
(***************************************************************************)
Stages == {"idle", "read", "store", "clean", "render", "invalidate"}

Typed ==
    /\ edits \in Nat /\ phase \in Stages /\ full \in BOOLEAN
    /\ src \in [Pages -> Nat] /\ cached \in [Pages -> Nat] /\ jit \in [Pages -> Nat]
    /\ snap \in [Pages -> Nat] /\ loaded \in [Pages -> Nat] /\ cleared \in [Pages -> Nat]
    /\ at \in [Requests -> {"idle", "get", "load", "scan", "store", "set"}]
    /\ page \in [Requests -> Pages \cup {List}]
    /\ scan \in [Requests -> [Pages -> Nat]]
    /\ html \in [Requests -> Nat] /\ base \in [Requests -> Nat]

(* No version is newer than the last edit, nor than a file that is there:  *)
(* so that a file is never older than what was made from it.               *)
NotNewer(p, version) == version <= edits + 1 /\ (src[p] # 0 => version <= src[p])

Ordered ==
    \A p \in Pages :
        /\ src[p] <= edits + 1
        /\ NotNewer(p, snap[p]) /\ NotNewer(p, loaded[p]) /\ NotNewer(p, cleared[p])

(* Unless it was revived, an entry of the content cache is nothing a build *)
(* has replaced: neither the last that stored pages nor the last that      *)
(* cleared the JIT cache.                                                  *)
CacheIsFresh ==
    \A p \in Pages :
        /\ cached[p] # 0 /\ p \notin revived =>
                cached[p] >= loaded[p] /\ cached[p] >= cleared[p]
        /\ snap[p] # 0 => snap[p] >= cleared[p]

(* Once a build has stored what it read, that is what it goes on with.     *)
StoredIsRead == phase \in {"clean", "render", "invalidate"} => loaded = snap

(* A request has rendered at least what had been cleared when it loaded.   *)
RenderedIsFresh == \A r \in Requests : at[r] = "set" => html[r] >= base[r]

(* A request that is on a page's way has a page. *)
AsksForPage == \A r \in Requests : at[r] \in {"get", "load", "set"} => page[r] \in Pages

(* A request that has loaded the site has nothing older than what its page *)
(* was cleared for; and, unless a build has read the site since, nothing   *)
(* older than what builds have read.                                       *)
ScanIsFresh ==
    \A r \in Requests :
        at[r] = "store" =>
            /\ page[r] # List /\ scan[r][page[r]] # 0 => scan[r][page[r]] >= base[r]
            /\ r \notin overtaken =>
                \A p \in Pages : scan[r][p] # 0 =>
                    /\ scan[r][p] >= snap[p]
                    /\ scan[r][p] >= loaded[p]
                    /\ scan[r][p] >= cleared[p]

JInv ==
    /\ Typed /\ Ordered /\ CacheIsFresh /\ StoredIsRead /\ RenderedIsFresh
    /\ AsksForPage /\ ScanIsFresh
    /\ FreshUnlessLate

LEMMA ServingHolds == ServingInit => JInv
<1> SUFFICES ASSUME ServingInit PROVE JInv
  OBVIOUS
<1>1. src \in [Pages -> Nat] /\ \A p \in Pages : src[p] <= 1
  BY DEF ServingInit
<1>2. Nothing \in [Pages -> Nat]
  BY DEF Nothing
<1>3. Typed
  BY <1>1, <1>2 DEF ServingInit, Typed, Stages
<1> QED
  BY <1>1, <1>3 DEF ServingInit, JInv, Ordered, NotNewer, CacheIsFresh, StoredIsRead,
              RenderedIsFresh, AsksForPage, ScanIsFresh, FreshUnlessLate, Nothing

-----------------------------------------------------------------------------
LEMMA AuthorStep ==
  ASSUME JInv, NEW p \in Pages, Save(p) \/ Delete(p)
  PROVE  JInv'
<1>1. PICK v \in {0, edits + 2} : Change(p, v)
  BY DEF Save, Delete, JInv, Typed
<1>2. Typed' /\ edits' = edits + 1 /\ src' = [src EXCEPT ![p] = v] /\ v \in Nat
  BY <1>1 DEF Change, build, request, history, JInv, Typed
<1>3. Ordered'
  BY <1>1, <1>2 DEF Change, build, history, JInv, Typed, Ordered, NotNewer
<1> QED
  BY <1>1, <1>2, <1>3 DEF Change, build, request, history, JInv, Typed, CacheIsFresh,
                          StoredIsRead, RenderedIsFresh, AsksForPage, ScanIsFresh,
                          FreshUnlessLate

LEMMA BuilderStep ==
  ASSUME JInv, StartFull \/ StartIncremental \/ Builder \/ Fail
  PROVE  JInv'
<1> USE DEF JInv, Typed, Ordered, NotNewer, CacheIsFresh, StoredIsRead, RenderedIsFresh,
            AsksForPage, ScanIsFresh, FreshUnlessLate, content, build, request, history, Nothing, Stages
<1>1. CASE StartFull
  BY <1>1 DEF StartFull
<1>2. CASE StartIncremental
  <2>1. CASE dirty \cap known = {}
    BY <1>2, <2>1 DEF StartIncremental
  <2>2. CASE dirty \cap known # {}
    <3>1. /\ phase' = "read" /\ full' = FALSE
          /\ cached' = [p \in Pages |-> IF p \in dirty THEN 0 ELSE cached[p]]
          /\ revived' = revived \ dirty
          /\ UNCHANGED <<src, edits, jit, snap, at, page, html, scan, base,
                         loaded, cleared, late, overtaken>>
      BY <1>2, <2>2 DEF StartIncremental
    <3>2. cached' \in [Pages -> Nat] /\ \A p \in Pages : cached'[p] \in {0, cached[p]}
      BY <3>1
    <3> QED
      BY <3>1, <3>2
  <2> QED
    BY <2>1, <2>2
<1>3. CASE Read
  BY <1>3 DEF Read
<1>4. CASE Store
  BY <1>4 DEF Store, Stored, Has, NextPhase
<1>5. CASE Clean
  BY <1>5 DEF Clean
<1>6. CASE Render
  BY <1>6 DEF Render
<1>7. CASE Invalidate
  BY <1>7 DEF Invalidate, Stale
<1>8. CASE Fail
  BY <1>8 DEF Fail
<1> QED
  BY <1>1, <1>2, <1>3, <1>4, <1>5, <1>6, <1>7, <1>8 DEF Builder

LEMMA RequestStep ==
  ASSUME JInv, NEW r \in Requests, Serve(r) \/ AskList(r) \/ \E p \in Pages : Ask(r, p)
  PROVE  JInv'
<1> USE DEF JInv, Typed, Ordered, NotNewer, CacheIsFresh, StoredIsRead, RenderedIsFresh,
            AsksForPage, ScanIsFresh, FreshUnlessLate, content, build, request, history, Stages
<1>1. ASSUME NEW p \in Pages, Ask(r, p) PROVE JInv'
  BY <1>1 DEF Ask
<1>2. CASE Get(r)
  BY <1>2 DEF Get
<1>3. CASE NotFound(r)
  BY <1>3 DEF NotFound
<1>4. CASE LoadPage(r)
  <2>1. FromCache(page[r]) \in Nat \ {0} /\ page[r] \in Pages
    BY <1>4 DEF LoadPage, FromCache
  <2>2. page[r] \notin revived =>
            FromCache(page[r]) >= loaded[page[r]] /\ FromCache(page[r]) >= cleared[page[r]]
    BY <1>4, <2>1 DEF LoadPage, FromCache
  <2> QED
    BY <1>4, <2>1, <2>2 DEF LoadPage
<1>5. CASE LeaveFastPath(r)
  <2>1. CASE cached' = cached
    BY <1>5, <2>1 DEF LeaveFastPath
  <2>2. CASE src[page[r]] # 0 /\ cached' = [cached EXCEPT ![page[r]] = FromCache(page[r])]
    <3>1. FromCache(page[r]) \in Nat \ {0} /\ page[r] \in Pages
      BY <1>5, <2>2 DEF LeaveFastPath, FromCache
    <3>2. page[r] \notin revived =>
              FromCache(page[r]) >= loaded[page[r]] /\ FromCache(page[r]) >= cleared[page[r]]
      BY <2>2, <3>1 DEF FromCache
    <3> QED
      BY <1>5, <2>2, <3>1, <3>2 DEF LeaveFastPath
  <2> QED
    BY <1>5, <2>1, <2>2 DEF LeaveFastPath
<1>6. CASE Scan(r)
  BY <1>6 DEF Scan
<1>7. CASE StoreScan(r)
  <2>1. cached' \in [Pages -> Nat] /\ html' \in [Requests -> Nat] /\ page[r] \in Pages
    BY <1>7 DEF StoreScan, Stored
  <2>2. ASSUME NEW p \in Pages, cached'[p] # 0, p \notin revived'
        PROVE  cached'[p] >= loaded[p] /\ cached'[p] >= cleared[p]
    <3>1. CASE scan[r][p] # 0
      <4>1. cached'[p] = scan[r][p] /\ r \notin overtaken
        BY <1>7, <2>2, <3>1 DEF StoreScan, Stored, Revived, Has
      <4> QED
        BY <1>7, <3>1, <4>1 DEF StoreScan
    <3>2. CASE scan[r][p] = 0
      BY <1>7, <2>2, <3>2 DEF StoreScan, Stored, Revived, Has
    <3> QED
      BY <3>1, <3>2
  <2>3. Nothing \in [Pages -> Nat]
    BY DEF Nothing
  <2>4. Typed'
    BY <1>7, <2>1, <2>3 DEF StoreScan
  <2>5. ScanIsFresh' /\ RenderedIsFresh' /\ AsksForPage'
    BY <1>7, <2>1, <2>3 DEF StoreScan
  <2>6. CacheIsFresh' /\ Ordered' /\ StoredIsRead' /\ FreshUnlessLate'
    BY <1>7, <2>2 DEF StoreScan
  <2> QED
    BY <2>4, <2>5, <2>6
<1>8. CASE StoreSome(r)
  <2>1. PICK some \in SUBSET Has(scan[r]) :
            /\ cached' = [p \in Pages |-> IF p \in some THEN scan[r][p] ELSE cached[p]]
            /\ revived' = Revived(r, some)
    BY <1>8 DEF StoreSome
  <2>2. cached' \in [Pages -> Nat]
    BY <2>1
  <2>3. ASSUME NEW p \in Pages, cached'[p] # 0, p \notin revived'
        PROVE  cached'[p] >= loaded[p] /\ cached'[p] >= cleared[p]
    <3>1. CASE p \in some
      <4>1. cached'[p] = scan[r][p] /\ scan[r][p] # 0 /\ r \notin overtaken
        BY <2>1, <2>3, <3>1 DEF Revived, Has
      <4> QED
        BY <1>8, <4>1 DEF StoreSome
    <3>2. CASE p \notin some
      BY <2>1, <2>3, <3>2 DEF Revived
    <3> QED
      BY <3>1, <3>2
  <2>4. Nothing \in [Pages -> Nat]
    BY DEF Nothing
  <2>5. Typed'
    BY <1>8, <2>2, <2>4 DEF StoreSome
  <2>6. ScanIsFresh' /\ RenderedIsFresh' /\ AsksForPage'
    BY <1>8, <2>4, <2>5 DEF StoreSome
  <2>7. CacheIsFresh' /\ Ordered' /\ StoredIsRead' /\ FreshUnlessLate'
    BY <1>8, <2>3 DEF StoreSome
  <2> QED
    BY <2>5, <2>6, <2>7
<1>9. CASE Set(r)
  BY <1>9 DEF Set
<1>10. CASE AskList(r)
  BY <1>10 DEF AskList
<1> QED
  BY <1>1, <1>2, <1>3, <1>4, <1>5, <1>6, <1>7, <1>8, <1>9, <1>10 DEF Serve

LEMMA CacheStep ==
  ASSUME JInv, NEW p \in Pages, Expire(p) \/ Evict(p)
  PROVE  JInv'
<1> USE DEF JInv, Typed, Ordered, NotNewer, CacheIsFresh, StoredIsRead, RenderedIsFresh,
            AsksForPage, ScanIsFresh, FreshUnlessLate, content, build, request, Stages
<1>1. CASE Expire(p)
  BY <1>1 DEF Expire
<1>2. CASE Evict(p)
  BY <1>2 DEF Evict
<1> QED
  BY <1>1, <1>2

LEMMA ServingInductive == ServingSpec => []JInv
<1>1. JInv /\ [ServingNext]_servingVars => JInv'
  <2> SUFFICES ASSUME JInv, [ServingNext]_servingVars PROVE JInv'
    OBVIOUS
  <2>1. CASE UNCHANGED servingVars
    BY <2>1 DEF servingVars, JInv, Typed, Ordered, NotNewer, CacheIsFresh, StoredIsRead,
                RenderedIsFresh, AsksForPage, ScanIsFresh, FreshUnlessLate,
                content, build, request, history
  <2> QED
    BY <2>1, AuthorStep, BuilderStep, RequestStep, CacheStep DEF ServingNext
<1> QED
  BY <1>1, ServingHolds, PTL DEF ServingSpec

-----------------------------------------------------------------------------
(* An older version of a page than a build has stored comes back into the  *)
(* content cache only when a request stores it that left the fast path and *)
(* loaded the site before a build did.                                     *)
THEOREM CacheIsWrittenThrough == ServingSpec => []WriteThrough
<1>1. JInv => WriteThrough
  BY DEF JInv, CacheIsFresh, WriteThrough
<1> QED
  BY <1>1, ServingInductive, PTL

(* HTML that a build replaced is only ever cached again by a request that  *)
(* had loaded the page before that build cleared the cache, or had it from *)
(* an entry of the content cache that such a request had revived.          *)
THEOREM OnlyLateIsStale == ServingSpec => []FreshUnlessLate
<1>1. JInv => FreshUnlessLate
  BY DEF JInv
<1> QED
  BY <1>1, ServingInductive, PTL

-----------------------------------------------------------------------------
(***************************************************************************)
(* What the writes of the admin panel keep to, for any editors, files and  *)
(* documents. The invariant follows the one request that works on a file   *)
(* nobody races for: what the file holds at each of its steps, and which   *)
(* of the file and the request the last record of the log speaks of.       *)
(***************************************************************************)
USE AdminAssumption

\* A request of e works on p. A request to rebuild works on no file.
On(e, p) == Busy(e) /\ req[e].path = p /\ req[e].op # "build"

\* The file is open and truncated; the file may have changed and the log does
\* not say so yet; the request knows what the file held before it.
Holds(e) == At(e, "write") \/ At(e, "copy")
Owes(e) == At(e, "write") \/ At(e, "readBack") \/ At(e, "audit")
Saw(e) == req[e].at > 1 /\ (At(e, "stat") \/ At(e, "load") \/ At(e, "open") \/ At(e, "remove"))

Sendable == {Text(d) : d \in Docs \union {"first"}}

-----------------------------------------------------------------------------
(* Two requests on one file have raced for it. *)
Alone == \A p \in Paths \ raced : \A e, f \in Editors : On(e, p) /\ On(f, p) => e = f

(* What the requests carry. *)
Carried ==
  \A e \in Editors : Busy(e) =>
    /\ req[e].op \in {"settings", "yaml"} => req[e].doc \in Settings
    /\ req[e].op \in {"create", "update", "upload"} => req[e].doc \in Sendable
    /\ req[e].op = "create" => req[e].before = NoDoc
    /\ Holds(e) => req[e].ino # 0

Ghosts == \A p \in Paths : fs[p].ino = 0 => fs[p].doc = NoDoc

WholeAt(p) ==
  /\ (\A e \in Editors : On(e, p) => ~Holds(e)) => fs[p].doc \notin {Empty, Torn}
  /\ \A e \in Editors : On(e, p) /\ Holds(e) => fs[p].ino = req[e].ino /\ fs[p].doc = Empty

(* The last record of p in l says d. *)
Says(l, p, d) ==
  \A i \in DOMAIN l : l[i].path = p /\ (\A k \in DOMAIN l : l[k].path = p => k <= i) => l[i].after = d
Chain(l, p) ==
  \A i, j \in DOMAIN l :
    /\ l[i].path = p /\ l[j].path = p /\ i < j
    /\ \A k \in DOMAIN l : l[k].path = p => k <= i \/ k >= j
    => l[j].before = l[i].after

LoggedAt(p) ==
  /\ Chain(log, p)
  /\ (\A e \in Editors : On(e, p) => ~Owes(e)) => Says(log, p, fs[p].doc)
  /\ \A e \in Editors : On(e, p) =>
       /\ Saw(e) => req[e].before = fs[p].doc
       /\ Owes(e) => Says(log, p, req[e].before)
       /\ At(e, "readBack") \/ At(e, "audit") =>
            fs[p].doc = IF req[e].op = "delete" THEN NoDoc ELSE req[e].doc

(* The unknown key, from the last edit of the text on. *)
KeyIs(l, x) ==
  /\ (\A k \in DOMAIN l : l[k].op # "yaml") => x = FirstSettings.extra
  /\ \A i \in DOMAIN l :
       l[i].op = "yaml" /\ (\A k \in DOMAIN l : l[k].op = "yaml" => k <= i) => x = l[i].after.extra
KeyAt ==
  /\ (\A e \in Editors : On(e, Yaml) => ~Owes(e)) => fs[Yaml].doc \in Settings /\ KeyIs(log, fs[Yaml].doc.extra)
  /\ \A e \in Editors : On(e, Yaml) =>
       /\ req[e].op = "settings" /\ (At(e, "open") \/ Owes(e)) => KeyIs(log, req[e].doc.extra)
       /\ At(e, "audit") => fs[Yaml].doc = req[e].doc

AllWhole == \A p \in Paths \ raced : WholeAt(p)
AllLogged == \A p \in Paths \ Tainted : LoggedAt(p)
KeyKept == Yaml \notin raced => KeyAt

AInv == TypeOK /\ Alone /\ Carried /\ Ghosts /\ AllWhole /\ AllLogged /\ KeyKept

-----------------------------------------------------------------------------
LEMMA StepsTable ==
  /\ DOMAIN Steps = {"create", "update", "delete", "settings", "yaml", "build", "upload", "discard"}
  /\ Steps["create"] = <<"statNew", "open", "write", "readBack", "audit">>
  /\ Steps["update"] = <<"sha", "stat", "open", "write", "readBack", "audit">>
  /\ Steps["delete"] = <<"sha", "remove", "audit">>
  /\ Steps["settings"] = <<"sha", "load", "open", "write", "audit", "rebuild">>
  /\ Steps["yaml"] = <<"sha", "open", "write", "audit", "rebuild">>
  /\ Steps["build"] = <<"rebuild">>
  /\ Steps["upload"] = <<"open", "copy">>
  /\ Steps["discard"] = <<"remove">>
  BY DEF Steps, ContentSteps, SettingsSteps, MediaSteps

(* The place of a step in its operation. *)
Turn(r, op, n) == r.op = op /\ r.at = n
Turns(r) ==
  LET s == StepOf(r)
  IN  /\ s = "statNew" <=> Turn(r, "create", 1)
      /\ s = "sha" <=> \/ Turn(r, "update", 1) \/ Turn(r, "delete", 1)
                       \/ Turn(r, "settings", 1) \/ Turn(r, "yaml", 1)
      /\ s = "stat" <=> Turn(r, "update", 2)
      /\ s = "load" <=> Turn(r, "settings", 2)
      /\ s = "open" <=> \/ Turn(r, "create", 2) \/ Turn(r, "update", 3) \/ Turn(r, "settings", 3)
                        \/ Turn(r, "yaml", 2) \/ Turn(r, "upload", 1)
      /\ s = "write" <=> \/ Turn(r, "create", 3) \/ Turn(r, "update", 4)
                         \/ Turn(r, "settings", 4) \/ Turn(r, "yaml", 3)
      /\ s = "copy" <=> Turn(r, "upload", 2)
      /\ s = "readBack" <=> Turn(r, "create", 4) \/ Turn(r, "update", 5)
      /\ s = "remove" <=> Turn(r, "delete", 2) \/ Turn(r, "discard", 1)
      /\ s = "audit" <=> \/ Turn(r, "create", 5) \/ Turn(r, "update", 6) \/ Turn(r, "delete", 3)
                         \/ Turn(r, "settings", 5) \/ Turn(r, "yaml", 4)
      /\ s = "rebuild" <=> \/ Turn(r, "settings", 6) \/ Turn(r, "yaml", 5) \/ Turn(r, "build", 1)

Placed(r) == r.op \in DOMAIN Steps /\ r.at \in DOMAIN Steps[r.op]
Lengths(op) == CASE op = "create" -> 5 [] op = "update" -> 6 [] op = "delete" -> 3
                 [] op = "settings" -> 6 [] op = "yaml" -> 5 [] op = "build" -> 1
                 [] op = "upload" -> 2 [] op = "discard" -> 1

LEMMA LengthsAre == \A op \in DOMAIN Steps : Len(Steps[op]) = Lengths(op) /\ DOMAIN Steps[op] = 1..Lengths(op)
<1> SUFFICES ASSUME NEW op \in DOMAIN Steps
             PROVE  Len(Steps[op]) = Lengths(op) /\ DOMAIN Steps[op] = 1..Lengths(op)
  OBVIOUS
<1>1. CASE op \in {"create", "yaml"}
  <2>1. Len(Steps[op]) = 5 /\ DOMAIN Steps[op] = 1..5
    BY <1>1, StepsTable
  <2> QED
    BY <1>1, <2>1 DEF Lengths
<1>2. CASE op \in {"update", "settings"}
  <2>1. Len(Steps[op]) = 6 /\ DOMAIN Steps[op] = 1..6
    BY <1>2, StepsTable
  <2> QED
    BY <1>2, <2>1 DEF Lengths
<1>3. CASE op = "delete"
  <2>1. Len(Steps[op]) = 3 /\ DOMAIN Steps[op] = 1..3
    BY <1>3, StepsTable
  <2> QED
    BY <1>3, <2>1 DEF Lengths
<1>4. CASE op = "upload"
  <2>1. Len(Steps[op]) = 2 /\ DOMAIN Steps[op] = 1..2
    BY <1>4, StepsTable
  <2> QED
    BY <1>4, <2>1 DEF Lengths
<1>5. CASE op \in {"build", "discard"}
  <2>1. Len(Steps[op]) = 1 /\ DOMAIN Steps[op] = 1..1
    BY <1>5, StepsTable
  <2> QED
    BY <1>5, <2>1 DEF Lengths
<1> QED
  BY <1>1, <1>2, <1>3, <1>4, <1>5, StepsTable

LEMMA TurnsAre == ASSUME NEW r, Placed(r) PROVE Turns(r)
<1>1. r.op \in DOMAIN Steps /\ r.at \in 1..Lengths(r.op)
  BY LengthsAre DEF Placed
<1> DEFINE op == r.op
<1>2. CASE op = "create"
  BY <1>1, <1>2, StepsTable DEF Turns, Turn, StepOf, Lengths
<1>3. CASE op = "update"
  BY <1>1, <1>3, StepsTable DEF Turns, Turn, StepOf, Lengths
<1>4. CASE op = "delete"
  BY <1>1, <1>4, StepsTable DEF Turns, Turn, StepOf, Lengths
<1>5. CASE op = "settings"
  BY <1>1, <1>5, StepsTable DEF Turns, Turn, StepOf, Lengths
<1>6. CASE op = "yaml"
  BY <1>1, <1>6, StepsTable DEF Turns, Turn, StepOf, Lengths
<1>7. CASE op \in {"build", "discard"}
  BY <1>1, <1>7, StepsTable DEF Turns, Turn, StepOf, Lengths
<1>8. CASE op = "upload"
  BY <1>1, <1>8, StepsTable DEF Turns, Turn, StepOf, Lengths
<1> QED
  BY <1>1, <1>2, <1>3, <1>4, <1>5, <1>6, <1>7, <1>8, StepsTable

LEMMA DocumentsDiffer ==
  /\ Empty \notin Settings /\ Torn \notin Settings /\ NoDoc \notin Settings
  /\ Empty \notin Sendable /\ Torn \notin Sendable /\ Sendable \intersect Settings = {}
  /\ NoDoc # Empty /\ NoDoc # Torn
  /\ FirstSettings \in Settings /\ Text("first") \in Sendable
  /\ {Empty, Torn, NoDoc} \union Sendable \union Settings = Document
<1>1. \A d : DOMAIN Text(d) = {"body"}
  BY DEF Text
<1>2. \A s \in Settings : DOMAIN s = {"title", "extra"}
  BY DEF Settings
<1>3. \A d : Text(d) \notin Settings
  BY <1>1, <1>2
<1>4. \A c, d : Text(c) = Text(d) => c = d
  BY DEF Text
<1>5. FirstSettings \in Settings
  BY DEF FirstSettings, Settings
<1>6. Empty \notin Sendable /\ Torn \notin Sendable /\ NoDoc # Empty /\ NoDoc # Torn
  BY <1>4 DEF Sendable, Empty, Torn, NoDoc
<1> QED
  BY <1>3, <1>5, <1>6 DEF Sendable, Empty, Torn, NoDoc, Document

(* There is always an inode that nobody uses. *)
LEMMA FreshInodes ==
  ASSUME TypeOK
  PROVE  /\ FreshIno \in Nat \ {0}
         /\ \A p \in Paths, e \in Editors : fs[p].ino # FreshIno /\ req[e].ino # FreshIno
<1> DEFINE P == Cardinality(Paths)
           E == Cardinality(Editors)
           U == {fs[p].ino : p \in Paths}
           V == {req[e].ino : e \in Editors}
<1>1. IsFiniteSet(Paths) /\ P \in Nat /\ E \in Nat
  BY FS_Union, FS_Singleton, FS_CardinalityType DEF Paths
<1>2. IsFiniteSet(U) /\ Cardinality(U) <= P /\ Cardinality(U) \in Nat
  <2>1. [p \in Paths |-> fs[p].ino] \in Surjection(Paths, U)
    BY DEF Surjection
  <2> QED
    BY <2>1, <1>1, FS_Surjection, FS_CardinalityType
<1>3. IsFiniteSet(V) /\ Cardinality(V) <= E /\ Cardinality(V) \in Nat
  <2>1. [e \in Editors |-> req[e].ino] \in Surjection(Editors, V)
    BY DEF Surjection
  <2> QED
    BY <2>1, <1>1, FS_Surjection, FS_CardinalityType
<1>4. IsFiniteSet(U \union V) /\ Cardinality(U \union V) <= P + E
  <2>1. Cardinality(U \intersect V) \in Nat /\ Cardinality(U \union V) \in Nat
    BY <1>2, <1>3, FS_Intersection, FS_Union, FS_CardinalityType
  <2>2. Cardinality(U \union V) = Cardinality(U) + Cardinality(V) - Cardinality(U \intersect V)
    BY <1>2, <1>3, FS_Union
  <2>3. IsFiniteSet(U \union V)
    BY <1>2, <1>3, FS_Union
  <2> HIDE DEF U, V, P, E
  <2> QED
    BY <2>1, <2>2, <2>3, <1>1, <1>2, <1>3
<1>5. Cardinality(1..(P + E + 1)) = P + E + 1
  BY <1>1, FS_Interval
<1>6. \E n \in 1..(P + E + 1) : n \notin U \union V
  <2> SUFFICES ASSUME 1..(P + E + 1) \subseteq U \union V PROVE FALSE
    OBVIOUS
  <2>1. Cardinality(1..(P + E + 1)) <= Cardinality(U \union V)
    BY <1>4, FS_Subset
  <2>2. Cardinality(U \union V) \in Nat
    BY <1>4, FS_CardinalityType
  <2> HIDE DEF U, V, P, E
  <2> QED
    BY <2>1, <2>2, <1>1, <1>4, <1>5
<1>7. \E n \in 1..(P + E + 1) : \A p \in Paths, e \in Editors : fs[p].ino # n /\ req[e].ino # n
  BY <1>6
<1>8. /\ FreshIno \in 1..(P + E + 1)
      /\ \A p \in Paths, e \in Editors : fs[p].ino # FreshIno /\ req[e].ino # FreshIno
  BY <1>7 DEF FreshIno
<1> QED
  BY <1>8, <1>1
-----------------------------------------------------------------------------
(* The requests, whole and apart. *)
RequestsOK ==
  /\ req \in [Editors -> Request]
  /\ \A e \in Editors : Busy(e) => Placed(req[e]) /\ req[e].path \in PathsOf(req[e].op)
FilesOK == fs \in [Paths -> [ino: Nat, doc: Document]]
LogOK == log \in Seq([op: DOMAIN Steps, path: Paths, before: Document, after: Document])

Sites == [daemon: BOOLEAN, job: {"none", "full", "changes", "ending"}, pending: BOOLEAN,
          loaded: Settings \union {NotBuilding}, built: Settings, failed: BOOLEAN, asked: BOOLEAN]

LEMMA TypeParts ==
  TypeOK <=> /\ RequestsOK /\ FilesOK /\ LogOK
             /\ site \in Sites
             /\ requests \in 0..MaxRequests /\ raced \subseteq Paths /\ unlogged \subseteq Paths
<1>1. \A e \in Editors : req \in [Editors -> Request] /\ Busy(e) => req[e].op \in DOMAIN Steps
  BY DEF Busy, Request
<1> QED
  BY <1>1 DEF TypeOK, RequestsOK, FilesOK, LogOK, Placed, Sites

LEMMA IdleIsOne == Idle \in Request
  BY DocumentsDiffer DEF Idle, Request, Paths

(* A request goes on to its next step, or is over. *)
NextIs(e, r) ==
  /\ req' \in [Editors -> Request]
  /\ \A f \in Editors \ {e} : req'[f] = req[f]
  /\ \/ req[e].at = Lengths(req[e].op) /\ req'[e] = Idle
     \/ /\ req[e].at < Lengths(req[e].op)
        /\ Placed(req'[e]) /\ req'[e].at = req[e].at + 1
        /\ req'[e].op = req[e].op /\ req'[e].path = req[e].path
        /\ req'[e].doc = r.doc /\ req'[e].before = r.before /\ req'[e].ino = r.ino

LEMMA Advances ==
  ASSUME RequestsOK, NEW e \in Editors, Busy(e), NEW r \in Request,
         r.op = req[e].op, r.path = req[e].path, r.at = req[e].at, Advance(e, r)
  PROVE  NextIs(e, r) /\ RequestsOK'
<1>1. Placed(req[e]) /\ req[e] \in Request
  BY DEF RequestsOK
<1>2. req[e].op \in DOMAIN Steps /\ req[e].at \in 1..Lengths(req[e].op) /\ Len(Steps[r.op]) = Lengths(r.op)
  BY <1>1, LengthsAre DEF Placed
<1>3. Lengths(r.op) \in 1..6
  BY <1>2, StepsTable DEF Lengths
<1> DEFINE n == [r EXCEPT !.at = r.at + 1]
<1>4. /\ n.op = r.op /\ n.path = r.path /\ n.doc = r.doc /\ n.before = r.before
      /\ n.ino = r.ino /\ n.at = r.at + 1
  BY DEF Request
<1>5. CASE r.at = Len(Steps[r.op])
  <2>1. req' = [req EXCEPT ![e] = Idle]
    BY <1>5 DEF Advance
  <2>2. req' \in [Editors -> Request] /\ req'[e] = Idle /\ \A f \in Editors \ {e} : req'[f] = req[f]
    BY <2>1, IdleIsOne DEF RequestsOK
  <2>3. NextIs(e, r)
    BY <2>2, <1>2, <1>5 DEF NextIs
  <2>4. Idle.op = "none"
    BY DEF Idle
  <2>5. RequestsOK'
    BY <2>2, <2>4 DEF RequestsOK, Busy, Placed
  <2> QED
    BY <2>3, <2>5
<1>6. CASE r.at # Len(Steps[r.op])
  <2>1. req' = [req EXCEPT ![e] = n]
    BY <1>6 DEF Advance
  <2>2. r.at < Lengths(r.op) /\ r.at + 1 \in 1..Lengths(r.op)
    BY <1>6, <1>2, <1>3
  <2>3. n \in Request
    <3>1. r.at + 1 \in 0..6
      BY <2>2, <1>3
    <3> QED
      BY <3>1 DEF Request
  <2>4. req' \in [Editors -> Request] /\ req'[e] = n /\ \A f \in Editors \ {e} : req'[f] = req[f]
    BY <2>1, <2>3 DEF RequestsOK
  <2>5. Placed(n)
    BY <1>2, <1>4, <2>2, LengthsAre DEF Placed
  <2> HIDE DEF n
  <2>6. NextIs(e, r)
    BY <2>2, <2>4, <2>5, <1>4 DEF NextIs
  <2>7. RequestsOK'
    BY <2>4, <2>5, <1>4 DEF RequestsOK, Busy, Placed
  <2> QED
    BY <2>6, <2>7
<1> QED
  BY <1>5, <1>6

LEMMA Steppings ==
  ASSUME RequestsOK, NEW e \in Editors, Busy(e), Step(e)
  PROVE  NextIs(e, req[e]) /\ RequestsOK'
  BY Advances DEF RequestsOK, Step

LEMMA Refusals ==
  ASSUME RequestsOK, NEW e \in Editors, Refuse(e)
  PROVE  /\ RequestsOK' /\ req'[e] = Idle /\ req' \in [Editors -> Request]
         /\ \A f \in Editors \ {e} : req'[f] = req[f]
<1>1. req' \in [Editors -> Request] /\ req'[e] = Idle /\ \A f \in Editors \ {e} : req'[f] = req[f]
  BY IdleIsOne DEF RequestsOK, Refuse
<1>2. Idle.op = "none"
  BY DEF Idle
<1> QED
  BY <1>1, <1>2 DEF RequestsOK, Busy, Placed

(* What each step does to its request: it goes on with the fields of Now,  *)
(* or the handler refuses.                                                 *)
Now(e) ==
  CASE At(e, "sha")  -> [req[e] EXCEPT !.before = fs[req[e].path].doc]
    [] At(e, "load") -> [req[e] EXCEPT !.doc = SetKnown(fs[Yaml].doc, req[e].doc)]
    [] At(e, "open") -> [req[e] EXCEPT !.ino = IF There(req[e].path) THEN fs[req[e].path].ino ELSE FreshIno]
    [] OTHER -> req[e]
GoesOn(e) ==
  /\ NextIs(e, Now(e))
  /\ At(e, "load") => fs[Yaml].doc \in Settings
  /\ At(e, "statNew") => ~There(req[e].path)
GivesUp(e) ==
  /\ req'[e] = Idle /\ req' \in [Editors -> Request]
  /\ \A f \in Editors \ {e} : req'[f] = req[f]
  /\ fs' = fs /\ log' = log
  /\ \/ At(e, "statNew") \/ At(e, "stat") \/ At(e, "load") \/ At(e, "remove")
     \/ At(e, "readBack") /\ req[e].path \in unlogged'

LEMMA AtBusy == ASSUME NEW e \in Editors, NEW s, At(e, s) PROVE Busy(e) /\ StepOf(req[e]) = s
  BY DEF At

LEMMA HandlerSteps ==
  ASSUME TypeOK, Carried, NEW e \in Editors, Handle(e)
  PROVE  Busy(e) /\ RequestsOK' /\ (GoesOn(e) \/ GivesUp(e))
<1>0. RequestsOK /\ FilesOK
  BY TypeParts
<1> DEFINE p == req[e].path
<1>1. p \in Paths /\ req[e] \in Request
  BY <1>0 DEF RequestsOK, Request
<1>2. CASE SafeSHA(e)
  <2> DEFINE r == [req[e] EXCEPT !.before = fs[p].doc]
  <2>1. At(e, "sha") /\ Advance(e, r)
    BY <1>2 DEF SafeSHA
  <2>2. r \in Request /\ r.op = req[e].op /\ r.path = req[e].path /\ r.at = req[e].at
    BY <1>0, <1>1 DEF Request, FilesOK
  <2>3. Now(e) = r
    BY <2>1 DEF Now, At
  <2> HIDE DEF r
  <2> QED
    BY <2>1, <2>2, <2>3, <1>0, AtBusy, Advances DEF GoesOn, At
<1>3. CASE Load(e)
  <2>1. At(e, "load")
    BY <1>3 DEF Load
  <2>2. CASE fs[Yaml].doc \in Settings
    <3> DEFINE d == SetKnown(fs[Yaml].doc, req[e].doc)
               r == [req[e] EXCEPT !.doc = d]
    <3>1. Advance(e, r)
      BY <1>3, <2>2 DEF Load
    <3>2. req[e].op = "settings"
      BY <2>1, <1>0, TurnsAre DEF At, Turns, Turn, RequestsOK
    <3>3. req[e].doc \in Settings
      BY <3>2, <2>1 DEF Carried, At
    <3>4. d \in Settings
      BY <3>3, <2>2 DEF SetKnown, Settings
    <3>5. d \in Document
      BY <3>4 DEF Document
    <3>6. r \in Request /\ r.op = req[e].op /\ r.path = req[e].path /\ r.at = req[e].at
      BY <3>5, <1>1 DEF Request
    <3>7. Now(e) = r
      BY <2>1 DEF Now, At
    <3> HIDE DEF r
    <3> QED
      BY <2>1, <2>2, <3>1, <3>6, <3>7, <1>0, AtBusy, Advances DEF GoesOn, At
  <2>3. CASE fs[Yaml].doc \notin Settings
    BY <2>1, <2>3, <1>3, <1>0, AtBusy, Refusals DEF Load, GivesUp, At
  <2> QED
    BY <2>2, <2>3
<1>4. CASE Open(e)
  <2> DEFINE i == IF There(p) THEN fs[p].ino ELSE FreshIno
             r == [req[e] EXCEPT !.ino = i]
  <2>1. At(e, "open") /\ Advance(e, r)
    BY <1>4 DEF Open
  <2>2. i \in Nat
    BY <1>0, <1>1, FreshInodes DEF FilesOK
  <2>3. r \in Request /\ r.op = req[e].op /\ r.path = req[e].path /\ r.at = req[e].at
    BY <2>2, <1>1 DEF Request
  <2>4. Now(e) = r
    BY <2>1 DEF Now, At
  <2> HIDE DEF r
  <2> QED
    BY <2>1, <2>3, <2>4, <1>0, AtBusy, Advances DEF GoesOn, At
<1>5. ASSUME Step(e), Busy(e), ~At(e, "sha"), ~At(e, "load"), ~At(e, "open"), At(e, "statNew") => ~There(p)
      PROVE  Busy(e) /\ RequestsOK' /\ (GoesOn(e) \/ GivesUp(e))
  <2>1. Now(e) = req[e]
    BY <1>5 DEF Now
  <2> QED
    BY <2>1, <1>5, <1>0, Steppings DEF GoesOn
<1>6. CASE Stat(e)
  <2>1. CASE There(p) <=> At(e, "stat")
    <3>1. Step(e) /\ (At(e, "statNew") \/ At(e, "stat"))
      BY <1>6, <2>1 DEF Stat, There, At, Busy
    <3> QED
      BY <1>5, <2>1, <3>1 DEF At
  <2>2. CASE ~(There(p) <=> At(e, "stat"))
    <3>1. Refuse(e) /\ (At(e, "statNew") \/ At(e, "stat")) /\ fs' = fs /\ log' = log
      BY <1>6, <2>2 DEF Stat, There, At, Busy
    <3> QED
      BY <3>1, <1>0, Refusals DEF GivesUp, At
  <2> QED
    BY <2>1, <2>2
<1>7. CASE ReadBack(e)
  <2>1. CASE Step(e)
    BY <1>5, <1>7, <2>1 DEF ReadBack, At
  <2>2. CASE Refuse(e) /\ p \in unlogged'
    BY <1>7, <2>2, <1>0, Refusals DEF ReadBack, GivesUp, At
  <2> QED
    BY <2>1, <2>2, <1>7 DEF ReadBack
<1>8. CASE RemoveFile(e)
  <2>1. CASE Step(e)
    BY <1>5, <1>8, <2>1 DEF RemoveFile, At
  <2>2. CASE Refuse(e) /\ fs' = fs
    BY <1>8, <2>2, <1>0, Refusals DEF RemoveFile, GivesUp, At
  <2> QED
    BY <2>1, <2>2, <1>8 DEF RemoveFile
<1>9. CASE Write(e) \/ Copy(e) \/ Audit(e) \/ TriggerRebuild(e)
  BY <1>5, <1>9 DEF Write, Copy, Audit, TriggerRebuild, At
<1> QED
  BY <1>2, <1>3, <1>4, <1>6, <1>7, <1>8, <1>9 DEF Handle

(* The files. *)
LEMMA Puts ==
  ASSUME FilesOK, RequestsOK, NEW e \in Editors, Put(e)
  PROVE  /\ FilesOK'
         /\ \A q \in Paths : \/ fs'[q] = fs[q]
                             \/ /\ q = req[e].path /\ fs[q].ino = req[e].ino /\ fs'[q].ino = fs[q].ino
                                /\ fs'[q].doc = Written(fs[q].doc, req[e].doc)
<1> DEFINE p == req[e].path
           w == Written(fs[p].doc, req[e].doc)
<1>1. p \in Paths /\ req[e].doc \in Document /\ fs[p] \in [ino: Nat, doc: Document]
  BY DEF RequestsOK, FilesOK, Request
<1>2. w \in Document
  BY <1>1 DEF Written, Over, Document, Torn
<1>3. CASE fs[p].ino = req[e].ino
  <2>1. fs' = [fs EXCEPT ![p].doc = w]
    BY <1>3 DEF Put
  <2>2. fs' = [fs EXCEPT ![p] = [fs[p] EXCEPT !.doc = w]]
    BY <2>1, <1>1 DEF FilesOK
  <2> DEFINE n == [fs[p] EXCEPT !.doc = w]
  <2>3. n \in [ino: Nat, doc: Document] /\ n.ino = fs[p].ino /\ n.doc = w
    BY <1>1, <1>2
  <2> HIDE DEF n, w
  <2> QED
    BY <2>2, <2>3, <1>1, <1>3 DEF FilesOK, w
<1>4. CASE fs[p].ino # req[e].ino
  BY <1>4 DEF Put, FilesOK
<1> QED
  BY <1>3, <1>4

LEMMA NoFileIsOne == NoFile \in [ino: Nat, doc: Document] /\ NoFile.ino = 0 /\ NoFile.doc = NoDoc
  BY DocumentsDiffer DEF NoFile

LEMMA FilesStep == ASSUME TypeOK, [Next]_vars PROVE FilesOK'
<1> USE TypeParts
<1>1. \A e \in Editors : req[e].path \in Paths
  BY DEF RequestsOK, Request
<1>2. ASSUME NEW e \in Editors, ServeHTTP(e) PROVE FilesOK'
  BY <1>2 DEF ServeHTTP, FilesOK
<1>3. ASSUME NEW e \in Editors, Open(e) PROVE FilesOK'
  <2> DEFINE p == req[e].path
             i == IF There(p) THEN fs[p].ino ELSE FreshIno
             n == [ino |-> i, doc |-> Empty]
  <2>1. i \in Nat /\ Empty \in Document
    BY <1>1, FreshInodes, DocumentsDiffer DEF FilesOK
  <2>2. n \in [ino: Nat, doc: Document]
    BY <2>1
  <2>3. fs' = [fs EXCEPT ![p] = n]
    BY <1>3 DEF Open
  <2> HIDE DEF n
  <2> QED
    BY <2>2, <2>3 DEF FilesOK
<1>4. ASSUME NEW e \in Editors, Write(e) \/ Copy(e) PROVE FilesOK'
  <2>1. CASE Put(e)
    BY <2>1, Puts
  <2>2. CASE fs' = [fs EXCEPT ![req[e].path] = NoFile]
    BY <2>2, NoFileIsOne DEF FilesOK
  <2> QED
    BY <2>1, <2>2, <1>4 DEF Write, Copy
<1>5. ASSUME NEW e \in Editors, RemoveFile(e) PROVE FilesOK'
  BY <1>5, NoFileIsOne DEF RemoveFile, FilesOK
<1>6. ASSUME NEW e \in Editors,
             \/ SafeSHA(e) \/ Stat(e) \/ Load(e) \/ ReadBack(e) \/ Audit(e) \/ TriggerRebuild(e)
      PROVE FilesOK'
  BY <1>6 DEF SafeSHA, Stat, Load, ReadBack, Audit, TriggerRebuild, FilesOK
<1>7. CASE FullBuildAsked \/ Build \/ UNCHANGED vars
  BY <1>7 DEF FullBuildAsked, Build, LoadConfig, BuildDone, BuildFails, Release, vars, FilesOK
<1> QED
  BY <1>2, <1>3, <1>4, <1>5, <1>6, <1>7 DEF Next, Handle

(* The log grows by records of what was audited. *)
LEMMA LogStep == ASSUME TypeOK, [Next]_vars PROVE LogOK'
<1> USE TypeParts
<1>1. ASSUME NEW e \in Editors, Audit(e) PROVE LogOK'
  <2> DEFINE r == AuditRecord(req[e])
  <2>1. req[e] \in Request /\ req[e].op \in DOMAIN Steps /\ fs[req[e].path].doc \in Document
    BY <1>1 DEF Audit, At, RequestsOK, Placed, FilesOK, Request
  <2>2. AfterSHA(req[e]) \in Document
    BY <2>1, DocumentsDiffer DEF AfterSHA
  <2>3. r \in [op: DOMAIN Steps, path: Paths, before: Document, after: Document]
    BY <2>1, <2>2 DEF AuditRecord, Request
  <2> HIDE DEF r
  <2> QED
    BY <1>1, <2>3 DEF Audit, Log, LogOK, r
<1>2. ASSUME NEW e \in Editors, Handle(e), ~Audit(e) PROVE log' = log
  BY <1>2 DEF Handle, SafeSHA, Stat, Load, Open, Write, Copy, ReadBack, RemoveFile, TriggerRebuild
<1>3. ASSUME NEW e \in Editors, ServeHTTP(e) PROVE log' = log
  BY <1>3 DEF ServeHTTP
<1>4. CASE FullBuildAsked \/ Build \/ UNCHANGED vars
  BY <1>4 DEF FullBuildAsked, Build, LoadConfig, BuildDone, BuildFails, Release, vars, LogOK
<1> QED
  BY <1>1, <1>2, <1>3, <1>4 DEF Next, LogOK

Routed(op, p, d) == [Idle EXCEPT !.op = op, !.path = p, !.doc = d, !.at = 1]
LEMMA RoutedOK ==
  ASSUME NEW op \in DOMAIN Steps, NEW p \in PathsOf(op), NEW d \in DocsOf(op),
         NEW r, r = Routed(op, p, d)
  PROVE  /\ r \in Request /\ Placed(r)
         /\ r.op = op /\ r.path = p /\ r.doc = d /\ r.at = 1 /\ r.before = NoDoc /\ r.ino = 0
         /\ op \in {"settings", "yaml"} => d \in Settings
         /\ op \in {"create", "update", "upload"} => d \in Sendable
<1>1. PathsOf(op) \subseteq Paths
  BY StepsTable DEF PathsOf, Paths
<1>2. /\ op \in {"settings", "yaml"} => d \in Settings
      /\ op \in {"create", "update", "upload"} => d \in Sendable
      /\ d \in Document
  <2>1. op = "settings" => d \in {FirstSettings, [title |-> 1, extra |-> 0]}
    BY DEF DocsOf
  <2>2. op = "yaml" => d \in {[title |-> 2, extra |-> 1]}
    BY DEF DocsOf
  <2>3. op \in {"create", "upload"} => d \in {Text("first")}
    BY DEF DocsOf
  <2>4. op = "update" => d \in {Text(x) : x \in Docs}
    BY DEF DocsOf
  <2>5. op \notin {"settings", "yaml", "create", "upload", "update"} => d \in {NoDoc}
    BY DEF DocsOf
  <2>6. [title |-> 1, extra |-> 0] \in Settings /\ [title |-> 2, extra |-> 1] \in Settings
    BY DEF Settings
  <2>7. op \in {"settings", "yaml"} => d \in Settings
    BY <2>1, <2>2, <2>6, DocumentsDiffer
  <2>8. op \in {"create", "update", "upload"} => d \in Sendable
    BY <2>3, <2>4 DEF Sendable
  <2> QED
    BY <2>5, <2>7, <2>8, DocumentsDiffer
<1>3. Idle \in Request /\ Idle.before = NoDoc /\ Idle.ino = 0
  BY IdleIsOne DEF Idle
<1>8. 1 \in 0..6 /\ p \in Paths
  BY <1>1
<1>4. r \in Request
  BY <1>2, <1>3, <1>8 DEF Request, Routed
<1>5. 1 \in DOMAIN Steps[op]
  BY LengthsAre, StepsTable DEF Lengths
<1>6. /\ r.op = op /\ r.path = p /\ r.doc = d /\ r.at = 1 /\ r.before = NoDoc /\ r.ino = 0
  BY <1>3 DEF Request, Routed
<1>7. Placed(r)
  BY <1>5, <1>6 DEF Placed
<1> QED
  BY <1>2, <1>4, <1>6, <1>7

(* A request is routed to e. *)
LEMMA Serves ==
  ASSUME TypeOK, NEW e \in Editors, ServeHTTP(e)
  PROVE  /\ RequestsOK' /\ req' \in [Editors -> Request] /\ fs' = fs /\ log' = log /\ unlogged' = unlogged
         /\ ~Busy(e) /\ \A f \in Editors \ {e} : req'[f] = req[f]
         /\ \E op \in DOMAIN Steps : \E p \in PathsOf(op), d \in DocsOf(op) :
              /\ req'[e] = Routed(op, p, d)
              /\ raced' = IF op # "build" /\ \E o \in Editors : Busy(o) /\ req[o].path = p /\ req[o].op # "build"
                          THEN raced \union {p} ELSE raced
<1>1. RequestsOK
  BY TypeParts
<1>2. PICK op \in DOMAIN Steps :
        \E p \in PathsOf(op), d \in DocsOf(op) :
          /\ req' = [req EXCEPT ![e] = Routed(op, p, d)]
          /\ raced' = IF op # "build" /\ \E o \in Editors : Busy(o) /\ req[o].path = p /\ req[o].op # "build"
                      THEN raced \union {p} ELSE raced
  BY DEF ServeHTTP, Routed
<1>9. PICK p \in PathsOf(op), d \in DocsOf(op) :
        /\ req' = [req EXCEPT ![e] = Routed(op, p, d)]
        /\ raced' = IF op # "build" /\ \E o \in Editors : Busy(o) /\ req[o].path = p /\ req[o].op # "build"
                    THEN raced \union {p} ELSE raced
  BY <1>2
<1> DEFINE r == Routed(op, p, d)
<1>3. r \in Request /\ Placed(r) /\ r.op = op /\ r.path = p
  BY RoutedOK
<1>4. req' = [req EXCEPT ![e] = r]
  BY <1>9
<1>5. \A o \in Editors \ {e} : req'[o] = req[o]
  BY <1>4, <1>1 DEF RequestsOK
<1> HIDE DEF r
<1>6. req'[e] = r /\ req' \in [Editors -> Request]
  BY <1>3, <1>4, <1>1 DEF RequestsOK
<1>7. RequestsOK'
  BY <1>3, <1>5, <1>6, <1>1 DEF RequestsOK, Busy
<1>8. ~Busy(e) /\ fs' = fs /\ log' = log /\ unlogged' = unlogged
  BY DEF ServeHTTP
<1>10. /\ req'[e] = Routed(op, p, d)
       /\ raced' = IF op # "build" /\ \E o \in Editors : Busy(o) /\ req[o].path = p /\ req[o].op # "build"
                   THEN raced \union {p} ELSE raced
  BY <1>6, <1>9 DEF r
<1> QED
  BY <1>10, <1>5, <1>6, <1>7, <1>8, Zenon

(* The site stays one, whatever is asked of the queue and however a build  *)
(* ends.                                                                   *)
LEMMA SiteStep == ASSUME TypeOK, [Next]_vars PROVE site' \in Sites
<1>1. site \in Sites
  BY TypeParts
<1>2. \A job \in {"full", "changes"} : Enqueue(job) \in Sites
  BY <1>1 DEF Enqueue, Sites
<1>3. \A s \in Sites : \A ok \in BOOLEAN : Released(s, ok) \in Sites
  BY DEF Released, Sites
<1>4. [site EXCEPT !.failed = TRUE] \in Sites
  BY <1>1 DEF Sites
<1>5. Failed(site) \in Sites
  BY <1>3, <1>4 DEF Failed
<1>6. ASSUME NEW e \in Editors, ServeHTTP(e) PROVE site' \in Sites
  BY <1>1, <1>6 DEF ServeHTTP
<1>7. ASSUME NEW e \in Editors, Handle(e) PROVE site' \in Sites
  <2>1. CASE Open(e) \/ Write(e)
    <3>1. \E p : Rewritten(p)
      BY <2>1 DEF Open, Write
    <3> QED
      BY <1>1, <3>1 DEF Rewritten, Sites
  <2>2. CASE TriggerRebuild(e)
    BY <1>2, <2>2 DEF TriggerRebuild
  <2>3. CASE \/ SafeSHA(e) \/ Stat(e) \/ Load(e) \/ Copy(e) \/ ReadBack(e) \/ RemoveFile(e) \/ Audit(e)
    BY <1>1, <2>3 DEF SafeSHA, Stat, Load, Copy, ReadBack, RemoveFile, Audit
  <2> QED
    BY <1>7, <2>1, <2>2, <2>3 DEF Handle
<1>8. CASE FullBuildAsked
  BY <1>2, <1>8 DEF FullBuildAsked
<1>9. CASE LoadConfig
  <2>1. fs[Yaml].doc \in Settings => [site EXCEPT !.loaded = fs[Yaml].doc] \in Sites
    BY <1>1 DEF Sites
  <2> QED
    BY <1>5, <1>9, <2>1 DEF LoadConfig
<1>10. CASE BuildDone
  <2> DEFINE s == [site EXCEPT !.built = IF site.job = "full" THEN site.loaded ELSE @,
                               !.failed = @ /\ site.job # "full"]
  <2>1. site.job = "full" => site.loaded \in Settings
    BY <1>1, <1>10 DEF BuildDone, Building, Sites
  <2>2. s \in Sites
    BY <1>1, <2>1 DEF Sites
  <2>3. site' = Released(s, TRUE)
    BY <1>10 DEF BuildDone
  <2> HIDE DEF s
  <2> QED
    BY <1>3, <2>2, <2>3
<1>11. CASE BuildFails
  BY <1>5, <1>11 DEF BuildFails
<1>12. CASE Release
  BY <1>1, <1>12 DEF Release, Sites
<1>13. CASE UNCHANGED vars
  BY <1>1, <1>13 DEF vars
<1> QED
  BY <1>6, <1>7, <1>8, <1>9, <1>10, <1>11, <1>12, <1>13 DEF Next, Build

LEMMA TypeStep == ASSUME TypeOK, Carried, [Next]_vars PROVE TypeOK'
<1> DEFINE Rest == requests \in 0..MaxRequests /\ raced \subseteq Paths /\ unlogged \subseteq Paths
<1>1. FilesOK' /\ LogOK' /\ RequestsOK /\ Rest /\ (site \in Sites)'
  BY FilesStep, LogStep, TypeParts, SiteStep
<1>2. \A e \in Editors : req[e].path \in Paths
  BY <1>1 DEF RequestsOK, Request
<1>3. requests' = requests + 1 /\ requests < MaxRequests => requests' \in 0..MaxRequests
  <2>1. MaxRequests \in Nat
    BY ONLY AdminAssumption
  <2>2. requests \in 0..MaxRequests
    BY <1>1
  <2> QED
    BY ONLY <2>1, <2>2
<1>4. ASSUME NEW e \in Editors, ServeHTTP(e) PROVE RequestsOK' /\ Rest'
  <2>1. requests' \in 0..MaxRequests
    BY <1>3, <1>4 DEF ServeHTTP
  <2>2. \A op \in DOMAIN Steps : PathsOf(op) \subseteq Paths
    BY StepsTable DEF PathsOf, Paths
  <2>3. raced' \subseteq Paths /\ unlogged' \subseteq Paths
    <3>1. PICK op \in DOMAIN Steps : \E p \in PathsOf(op) :
            raced' \in {raced, raced \union {p}}
      BY <1>4, Serves
    <3> QED
      BY <3>1, <2>2, <1>1, <1>4, Serves
  <2> QED
    BY <1>4, <2>1, <2>3, Serves
<1>5. ASSUME NEW e \in Editors, Handle(e) PROVE RequestsOK' /\ Rest'
  <2>1. raced' = raced /\ unlogged' \subseteq unlogged \union {req[e].path} /\ requests' = requests
    BY <1>5 DEF Handle, SafeSHA, Stat, Load, Open, Write, Copy, ReadBack, RemoveFile, Audit, TriggerRebuild
  <2> QED
    BY <2>1, <1>1, <1>2, <1>5, HandlerSteps
<1>6. ASSUME FullBuildAsked \/ Build \/ UNCHANGED vars PROVE RequestsOK' /\ Rest'
  <2>1. UNCHANGED <<req, raced, unlogged>>
    BY <1>6 DEF FullBuildAsked, Build, LoadConfig, BuildDone, BuildFails, Release, vars
  <2>2. requests' = requests \/ (requests' = requests + 1 /\ requests < MaxRequests)
    BY <1>6 DEF FullBuildAsked, Build, LoadConfig, BuildDone, BuildFails, Release, vars
  <2> QED
    BY <2>1, <2>2, <1>1, <1>3 DEF RequestsOK, Busy
<1>7. RequestsOK' /\ Rest'
  BY <1>4, <1>5, <1>6 DEF Next
<1> QED
  BY <1>1, <1>7, TypeParts, PTL
-----------------------------------------------------------------------------
(* Where a request comes from, and where it ends. *)
Came(e) ==
  Busy(e)' =>
    /\ req'[e].op = req[e].op /\ req'[e].path = req[e].path /\ req'[e].at > 1
    /\ ~At(e, "sha")' /\ ~At(e, "statNew")'
    /\ At(e, "stat")' => At(e, "sha")
    /\ At(e, "load")' => At(e, "sha")
    /\ At(e, "remove")' => At(e, "sha")
    /\ At(e, "open")' => \/ At(e, "statNew") \/ At(e, "stat") \/ At(e, "load")
                         \/ req[e].op = "yaml" /\ At(e, "sha")
    /\ At(e, "write")' => At(e, "open") /\ req[e].op # "upload"
    /\ At(e, "copy")' => At(e, "open") /\ req[e].op = "upload"
    /\ At(e, "readBack")' => At(e, "write") /\ req[e].op # "delete"
    /\ At(e, "audit")' => \/ (At(e, "readBack") \/ At(e, "write")) /\ req[e].op # "delete"
                          \/ At(e, "remove") /\ req[e].op = "delete"
    /\ At(e, "rebuild")' => At(e, "audit")
    /\ At(e, "open") => At(e, "write")' \/ At(e, "copy")'
    /\ At(e, "write") => At(e, "readBack")' \/ At(e, "audit")'
    /\ At(e, "readBack") \/ (At(e, "remove") /\ req[e].op = "delete") => At(e, "audit")'
Went(e) == ~Busy(e)' => \/ At(e, "copy") \/ At(e, "audit") \/ At(e, "rebuild")
                        \/ At(e, "remove") /\ req[e].op = "discard"

LEMMA Successor ==
  ASSUME NEW q, NEW r, Turns(q), Turns(r), q.at \in 1..6, r.at = q.at + 1, r.op = q.op
  PROVE  LET s == StepOf(q)
             t == StepOf(r)
         IN  /\ t # "sha" /\ t # "statNew"
             /\ t = "stat" => s = "sha"
             /\ t = "load" => s = "sha"
             /\ t = "remove" => s = "sha"
             /\ t = "open" => s = "statNew" \/ s = "stat" \/ s = "load" \/ (q.op = "yaml" /\ s = "sha")
             /\ t = "write" => s = "open" /\ q.op # "upload"
             /\ t = "copy" => s = "open" /\ q.op = "upload"
             /\ t = "readBack" => s = "write" /\ q.op # "delete"
             /\ t = "audit" => \/ (s = "readBack" \/ s = "write") /\ q.op # "delete"
                               \/ s = "remove" /\ q.op = "delete"
             /\ t = "rebuild" => s = "audit"
             /\ s = "open" => t = "write" \/ t = "copy"
             /\ s = "write" => t = "readBack" \/ t = "audit"
             /\ s = "readBack" \/ (s = "remove" /\ q.op = "delete") => t = "audit"
<1> DEFINE n == q.at
<1>1. q.at = n /\ r.at = n + 1 /\ n \in 1..6 /\ r.op = q.op
  OBVIOUS
<1> HIDE DEF n
<1>2. Turns(q) /\ Turns(r)
  OBVIOUS
<1> QED
  BY ONLY <1>1, <1>2 DEF Turns, Turn

LEMMA Transitions ==
  ASSUME RequestsOK, NEW e \in Editors, Busy(e), NextIs(e, Now(e))
  PROVE  Came(e) /\ Went(e)
<1>1. Placed(req[e]) /\ Turns(req[e]) /\ req[e].op \in DOMAIN Steps /\ req[e].at \in 1..Lengths(req[e].op)
  BY TurnsAre, LengthsAre DEF RequestsOK, Placed
<1>2. CASE req[e].at = Lengths(req[e].op) /\ req'[e] = Idle
  <2>1. ~Busy(e)'
    BY <1>2 DEF Busy, Idle
  <2>2. \/ At(e, "copy") \/ At(e, "audit") \/ At(e, "rebuild")
        \/ At(e, "remove") /\ req[e].op = "discard"
    BY <1>1, <1>2, StepsTable DEF At, Turns, Turn, Lengths
  <2> QED
    BY <2>1, <2>2 DEF Came, Went
<1>3. CASE /\ req[e].at < Lengths(req[e].op)
           /\ Placed(req'[e]) /\ req'[e].at = req[e].at + 1
           /\ req'[e].op = req[e].op /\ req'[e].path = req[e].path
  <2>1. Turns(req'[e])
    BY <1>3, TurnsAre
  <2>2. Busy(e)'
    BY <1>3, <1>1, StepsTable DEF Busy
  <2>3. req[e].at \in 1..6 /\ req'[e].at \in 2..6
    BY <1>1, <1>3, StepsTable DEF Lengths
  <2> DEFINE q == req[e]
             r == req'[e]
  <2>4. Turns(q) /\ Turns(r) /\ q.at \in 1..6 /\ r.at = q.at + 1 /\ r.op = q.op
    BY <1>1, <1>3, <2>1, <2>3
  <2>5. q.op \notin {"none"} /\ r.op \notin {"none"} /\ r.at > 1
    BY <1>1, <1>3, <2>3, StepsTable
  <2> HIDE DEF q, r
  <2>6. Came(e)
    <3>1. /\ StepOf(r) # "sha" /\ StepOf(r) # "statNew"
          /\ StepOf(r) = "stat" => StepOf(q) = "sha"
          /\ StepOf(r) = "load" => StepOf(q) = "sha"
          /\ StepOf(r) = "remove" => StepOf(q) = "sha"
          /\ StepOf(r) = "open" => \/ StepOf(q) = "statNew" \/ StepOf(q) = "stat" \/ StepOf(q) = "load"
                                   \/ (q.op = "yaml" /\ StepOf(q) = "sha")
          /\ StepOf(r) = "write" => StepOf(q) = "open" /\ q.op # "upload"
          /\ StepOf(r) = "copy" => StepOf(q) = "open" /\ q.op = "upload"
          /\ StepOf(r) = "readBack" => StepOf(q) = "write" /\ q.op # "delete"
          /\ StepOf(r) = "audit" => \/ (StepOf(q) = "readBack" \/ StepOf(q) = "write") /\ q.op # "delete"
                                    \/ StepOf(q) = "remove" /\ q.op = "delete"
          /\ StepOf(r) = "rebuild" => StepOf(q) = "audit"
          /\ StepOf(q) = "open" => StepOf(r) = "write" \/ StepOf(r) = "copy"
          /\ StepOf(q) = "write" => StepOf(r) = "readBack" \/ StepOf(r) = "audit"
          /\ StepOf(q) = "readBack" \/ (StepOf(q) = "remove" /\ q.op = "delete") => StepOf(r) = "audit"
      BY <2>4, Successor, Zenon
    <3> QED
      BY <3>1, <2>5, <1>3 DEF Came, At, Busy, q, r
  <2> QED
    BY <2>2, <2>6 DEF Went
<1> QED
  BY <1>2, <1>3 DEF NextIs

LEMMA AloneStep == ASSUME AInv, [Next]_vars PROVE Alone'
<1> USE DEF AInv
<1>1. ASSUME NEW e \in Editors, Handle(e) PROVE Alone'
  <2>1. \A f \in Editors, p \in Paths : On(f, p)' => On(f, p)
    <3>1. GoesOn(e) => Came(e)
      BY <1>1, HandlerSteps, Transitions, TypeParts DEF GoesOn
    <3>2. CASE GoesOn(e)
      BY <3>1, <3>2, <1>1, HandlerSteps DEF GoesOn, NextIs, Came, On, Busy
    <3>3. CASE GivesUp(e)
      BY <3>3 DEF GivesUp, On, Busy, Idle
    <3> QED
      BY <3>2, <3>3, <1>1, HandlerSteps
  <2>2. raced' = raced
    BY <1>1 DEF Handle, SafeSHA, Stat, Load, Open, Write, Copy, ReadBack, RemoveFile, Audit, TriggerRebuild
  <2> QED
    BY <2>1, <2>2 DEF Alone
<1>2. ASSUME NEW e \in Editors, ServeHTTP(e) PROVE Alone'
  <2>1. PICK op \in DOMAIN Steps : \E p \in PathsOf(op), d \in DocsOf(op) :
          /\ req'[e] = Routed(op, p, d)
          /\ raced' = IF op # "build" /\ \E o \in Editors : Busy(o) /\ req[o].path = p /\ req[o].op # "build"
                      THEN raced \union {p} ELSE raced
    BY <1>2, Serves
  <2>2. PICK p \in PathsOf(op), d \in DocsOf(op) :
          /\ req'[e] = Routed(op, p, d)
          /\ raced' = IF op # "build" /\ \E o \in Editors : Busy(o) /\ req[o].path = p /\ req[o].op # "build"
                      THEN raced \union {p} ELSE raced
    BY <2>1
  <2>3. req'[e].op = op /\ req'[e].path = p
    BY <2>2, RoutedOK
  <2>4. \A f \in Editors \ {e} : \A q \in Paths : On(f, q)' <=> On(f, q)
    BY <1>2, Serves DEF On, Busy
  <2>5. \A q \in Paths : On(e, q)' => q = p /\ op # "build"
    BY <2>3 DEF On
  <2>6. ASSUME NEW q \in Paths, q \notin raced', NEW f \in Editors, NEW g \in Editors, On(f, q)', On(g, q)'
        PROVE  f = g
    <3>1. q \notin raced
      BY <2>2, <2>6
    <3>2. CASE f # e /\ g # e
      BY <2>4, <2>6, <3>1, <3>2 DEF Alone
    <3>3. ASSUME NEW h \in Editors \ {e}, On(h, q)', On(e, q)' PROVE FALSE
      BY <2>2, <2>4, <2>5, <2>6, <3>3 DEF On
    <3> QED
      BY <3>2, <3>3, <2>6
  <2> QED
    BY <2>6 DEF Alone
<1>3. CASE FullBuildAsked \/ Build \/ UNCHANGED vars
  <2>1. req' = req /\ raced' = raced
    BY <1>3 DEF FullBuildAsked, Build, LoadConfig, BuildDone, BuildFails, Release, vars
  <2>2. \A f \in Editors, p \in Paths : On(f, p)' <=> On(f, p)
    BY <2>1 DEF On, Busy
  <2> QED
    BY <2>1, <2>2 DEF Alone
<1> QED
  BY <1>1, <1>2, <1>3 DEF Next

LEMMA CarriedStep == ASSUME AInv, [Next]_vars PROVE Carried'
<1> USE DEF AInv
<1>0. RequestsOK /\ FilesOK
  BY TypeParts
<1> DEFINE C(r) == /\ r.op \in {"settings", "yaml"} => r.doc \in Settings
                   /\ r.op \in {"create", "update", "upload"} => r.doc \in Sendable
                   /\ r.op = "create" => r.before = NoDoc
<1>1. ASSUME NEW e \in Editors, Handle(e) PROVE Carried'
  <2>1. CASE GoesOn(e)
    <3>1. Came(e) /\ RequestsOK' /\ Busy(e) /\ \A f \in Editors \ {e} : req'[f] = req[f]
      BY <1>1, <2>1, <1>0, HandlerSteps, Transitions DEF GoesOn, NextIs
    <3>2. C(req[e]) /\ (Holds(e) => req[e].ino # 0) /\ Turns(req[e]) /\ Placed(req[e]) /\ req[e] \in Request
      BY <3>1, <1>0, TurnsAre DEF Carried, RequestsOK
    <3>3. ASSUME Busy(e)' PROVE C(req'[e])
      <4>1. /\ req'[e].op = req[e].op /\ req'[e].doc = Now(e).doc /\ req'[e].before = Now(e).before
        BY <2>1, <3>3 DEF GoesOn, NextIs, Busy, Idle
      <4>2. CASE At(e, "sha")
        <5>1. Now(e).doc = req[e].doc /\ req[e].op # "create"
          BY <4>2, <3>2 DEF Now, At, Turns, Turn, Request
        <5> QED
          BY <5>1, <4>1, <3>2
      <4>3. CASE At(e, "load")
        <5>1. Now(e).doc = SetKnown(fs[Yaml].doc, req[e].doc) /\ Now(e).before = req[e].before
          BY <4>3, <3>2 DEF Now, At, Request
        <5>2. req[e].op = "settings" /\ fs[Yaml].doc \in Settings
          BY <4>3, <3>2, <2>1 DEF At, Turns, Turn, GoesOn
        <5>3. Now(e).doc \in Settings
          BY <5>1, <5>2, <3>2 DEF SetKnown, Settings
        <5> QED
          BY <5>2, <5>3, <4>1
      <4>4. CASE ~At(e, "sha") /\ ~At(e, "load")
        <5>1. Now(e).doc = req[e].doc /\ Now(e).before = req[e].before
          BY <4>4, <3>2 DEF Now, Request
        <5> QED
          BY <5>1, <4>1, <3>2
      <4> QED
        BY <4>2, <4>3, <4>4
    <3>4. ASSUME Holds(e)' PROVE req'[e].ino # 0
      <4>1. At(e, "open") /\ Busy(e)'
        BY <3>1, <3>4 DEF Holds, Came, At
      <4>2. req'[e].ino = Now(e).ino
        BY <2>1, <4>1 DEF GoesOn, NextIs, Busy, Idle
      <4>3. Now(e).ino = IF There(req[e].path) THEN fs[req[e].path].ino ELSE FreshIno
        BY <4>1, <3>2 DEF Now, At, Request
      <4> QED
        BY <4>2, <4>3, FreshInodes DEF There
    <3> HIDE DEF C
    <3>5. \A f \in Editors : Busy(f) => C(req[f]) /\ (Holds(f) => req[f].ino # 0)
      BY DEF Carried, C
    <3>6. \A f \in Editors : Busy(f)' => C(req'[f]) /\ (Holds(f)' => req'[f].ino # 0)
      BY <3>1, <3>3, <3>4, <3>5 DEF Busy, Holds, At
    <3> QED
      BY <3>6 DEF Carried, C
  <2>2. CASE GivesUp(e)
    <3>1. ~Busy(e)' /\ \A f \in Editors \ {e} : req'[f] = req[f]
      BY <2>2 DEF GivesUp, Busy, Idle
    <3> QED
      BY <3>1 DEF Carried, Busy, Holds, At
  <2> QED
    BY <2>1, <2>2, <1>1, HandlerSteps
<1>2. ASSUME NEW e \in Editors, ServeHTTP(e) PROVE Carried'
  <2>1. PICK op \in DOMAIN Steps : \E p \in PathsOf(op), d \in DocsOf(op) : req'[e] = Routed(op, p, d)
    BY <1>2, Serves
  <2>2. PICK p \in PathsOf(op), d \in DocsOf(op) : req'[e] = Routed(op, p, d)
    BY <2>1
  <2>3. C(req'[e]) /\ Placed(req'[e]) /\ req'[e].at = 1
    BY <2>2, RoutedOK
  <2>4. ~Holds(e)'
    BY <2>3, TurnsAre DEF Holds, At, Turns, Turn
  <2>5. \A f \in Editors \ {e} : req'[f] = req[f]
    BY <1>2, Serves
  <2> QED
    BY <2>3, <2>4, <2>5 DEF Carried, Busy, Holds, At
<1>3. CASE FullBuildAsked \/ Build \/ UNCHANGED vars
  BY <1>3 DEF FullBuildAsked, Build, LoadConfig, BuildDone, BuildFails, Release, vars, Carried, Busy, Holds, At
<1> QED
  BY <1>1, <1>2, <1>3 DEF Next

LEMMA GhostsStep == ASSUME AInv, [Next]_vars PROVE Ghosts'
<1> USE DEF AInv
<1>0. RequestsOK /\ FilesOK /\ \A e \in Editors : req[e].path \in Paths
  BY TypeParts DEF RequestsOK, Request
<1>1. ASSUME NEW e \in Editors, Open(e) PROVE Ghosts'
  <2> DEFINE p == req[e].path
             i == IF There(p) THEN fs[p].ino ELSE FreshIno
             n == [ino |-> i, doc |-> Empty]
  <2>1. i # 0
    BY FreshInodes DEF There
  <2>2. n.ino # 0
    BY <2>1
  <2>3. fs' = [fs EXCEPT ![p] = n]
    BY <1>1 DEF Open
  <2> HIDE DEF n
  <2> QED
    BY <2>2, <2>3, <1>0 DEF FilesOK, Ghosts
<1>2. ASSUME NEW e \in Editors, Put(e), At(e, "write") \/ At(e, "copy") PROVE Ghosts'
  <2>1. req[e].ino # 0
    BY <1>2 DEF Carried, Holds, At
  <2> QED
    BY <2>1, <1>2, <1>0, Puts DEF Ghosts
<1>3. ASSUME NEW e \in Editors, fs' = [fs EXCEPT ![req[e].path] = NoFile] PROVE Ghosts'
  BY <1>3, <1>0, NoFileIsOne DEF FilesOK, Ghosts
<1>4. ASSUME fs' = fs PROVE Ghosts'
  BY <1>4 DEF Ghosts
<1>5. ASSUME NEW e \in Editors, Handle(e) PROVE Ghosts'
  BY <1>1, <1>2, <1>3, <1>4, <1>5 DEF Handle, SafeSHA, Stat, Load, Write, Copy, ReadBack,
     RemoveFile, Audit, TriggerRebuild
<1>6. ASSUME NEW e \in Editors, ServeHTTP(e) PROVE Ghosts'
  BY <1>4, <1>6, Serves
<1>7. CASE FullBuildAsked \/ Build \/ UNCHANGED vars
  BY <1>4, <1>7 DEF FullBuildAsked, Build, LoadConfig, BuildDone, BuildFails, Release, vars
<1> QED
  BY <1>5, <1>6, <1>7 DEF Next
-----------------------------------------------------------------------------
(* A record more. *)
LEMMA Appended ==
  ASSUME NEW R, NEW l \in Seq(R), NEW r \in R
  PROVE  /\ DOMAIN Append(l, r) = 1..(Len(l) + 1) /\ DOMAIN l = 1..Len(l) /\ Len(l) \in Nat
         /\ \A i \in DOMAIN l : i \in DOMAIN Append(l, r) /\ Append(l, r)[i] = l[i]
         /\ Append(l, r)[Len(l) + 1] = r
  OBVIOUS

LEMMA OtherRecord ==
  ASSUME NEW R, NEW l \in Seq(R), NEW r \in R, NEW p, r.path # p
  PROVE  /\ \A d : Says(l, p, d) => Says(Append(l, r), p, d)
         /\ Chain(l, p) => Chain(Append(l, r), p)
<1> DEFINE m == Append(l, r)
<1>1. \A i \in DOMAIN m : i \in DOMAIN l \/ (i = Len(l) + 1 /\ m[i].path # p)
  BY Appended
<1>2. \A i \in DOMAIN l : i \in DOMAIN m /\ m[i] = l[i]
  BY Appended
<1> HIDE DEF m
<1>3. \A d : Says(l, p, d) => Says(m, p, d)
  BY <1>1, <1>2 DEF Says
<1>4. Chain(l, p) => Chain(m, p)
  BY <1>1, <1>2 DEF Chain
<1> QED
  BY <1>3, <1>4 DEF m

LEMMA OwnRecord ==
  ASSUME NEW R, NEW l \in Seq(R), NEW r \in R, NEW p, r.path = p
  PROVE  /\ Says(Append(l, r), p, r.after)
         /\ Chain(l, p) /\ Says(l, p, r.before) => Chain(Append(l, r), p)
<1> DEFINE m == Append(l, r)
           n == Len(l) + 1
<1>1. /\ DOMAIN m = 1..n /\ DOMAIN l = 1..(n - 1) /\ n \in Nat \ {0}
      /\ \A i \in DOMAIN l : m[i] = l[i]
      /\ m[n] = r
  BY Appended
<1> HIDE DEF m, n
<1>2. Says(m, p, r.after)
  BY <1>1 DEF Says
<1>3. ASSUME Chain(l, p), Says(l, p, r.before) PROVE Chain(m, p)
  <2> SUFFICES ASSUME NEW i \in DOMAIN m, NEW j \in DOMAIN m,
                      m[i].path = p, m[j].path = p, i < j,
                      \A k \in DOMAIN m : m[k].path = p => k <= i \/ k >= j
               PROVE  m[j].before = m[i].after
    BY DEF Chain
  <2>1. i \in DOMAIN l /\ m[i] = l[i]
    BY <1>1
  <2>2. CASE j = n
    <3>1. \A k \in DOMAIN l : l[k].path = p => k <= i
      BY <1>1, <2>2
    <3> QED
      BY <1>1, <1>3, <2>1, <2>2, <3>1 DEF Says
  <2>3. CASE j # n
    <3>1. j \in DOMAIN l /\ \A k \in DOMAIN l : l[k].path = p => k <= i \/ k >= j
      BY <1>1, <2>3
    <3> QED
      BY <1>1, <1>3, <2>1, <3>1 DEF Chain
  <2> QED
    BY <2>2, <2>3
<1> QED
  BY <1>2, <1>3 DEF m

LEMMA KeyRecord ==
  ASSUME NEW R, NEW l \in Seq(R), NEW r \in R
  PROVE  /\ r.op # "yaml" => \A x : KeyIs(l, x) => KeyIs(Append(l, r), x)
         /\ r.op = "yaml" => KeyIs(Append(l, r), r.after.extra)
<1> DEFINE m == Append(l, r)
           n == Len(l) + 1
<1>1. /\ DOMAIN m = 1..n /\ DOMAIN l = 1..(n - 1) /\ n \in Nat \ {0}
      /\ \A i \in DOMAIN l : m[i] = l[i]
      /\ m[n] = r
  BY Appended
<1> HIDE DEF m, n
<1>2. ASSUME r.op # "yaml", NEW x, KeyIs(l, x) PROVE KeyIs(m, x)
  <2>1. \A i \in DOMAIN m : m[i].op = "yaml" => i \in DOMAIN l /\ m[i] = l[i]
    BY <1>1, <1>2
  <2>2. \A i \in DOMAIN l : i \in DOMAIN m /\ m[i] = l[i]
    BY <1>1
  <2> QED
    BY <1>2, <2>1, <2>2 DEF KeyIs
<1>3. ASSUME r.op = "yaml" PROVE KeyIs(m, r.after.extra)
  <2>1. n \in DOMAIN m /\ \A i \in DOMAIN m : i <= n
    BY <1>1
  <2>2. \A i \in DOMAIN m : (\A k \in DOMAIN m : m[k].op = "yaml" => k <= i) => i = n
    BY <1>1, <1>3, <2>1
  <2> QED
    BY <1>1, <1>3, <2>1, <2>2 DEF KeyIs
<1> QED
  BY <1>2, <1>3 DEF m

-----------------------------------------------------------------------------
(* What a step of a request does to its file and to the log. *)
Effect(e, p) ==
  /\ \A q \in Paths : q # p => fs'[q] = fs[q]
  /\ raced' = raced /\ unlogged \subseteq unlogged'
  /\ At(e, "audit") => log' = Append(log, AuditRecord(req[e]))
  /\ ~At(e, "audit") => log' = log
  /\ At(e, "open") => fs'[p].doc = Empty /\ fs'[p].ino = Now(e).ino
  /\ Holds(e) => \/ fs[p].ino # req[e].ino
                 \/ fs'[p].doc = NoDoc /\ At(e, "copy")
                 \/ fs'[p].ino = fs[p].ino /\ fs'[p].doc = Written(fs[p].doc, req[e].doc)
  /\ At(e, "remove") => fs'[p].doc = NoDoc
  /\ ~At(e, "open") /\ ~Holds(e) /\ ~At(e, "remove") => fs' = fs

LEMMA Effects ==
  ASSUME AInv, NEW e \in Editors, Handle(e)
  PROVE  Effect(e, req[e].path)
<1> DEFINE p == req[e].path
<1>1. RequestsOK /\ FilesOK /\ p \in Paths /\ req[e] \in Request
  BY TypeParts DEF AInv, RequestsOK, Request
<1>2. CASE Open(e)
  <2> DEFINE i == IF There(p) THEN fs[p].ino ELSE FreshIno
             n == [ino |-> i, doc |-> Empty]
  <2>1. At(e, "open") /\ Now(e).ino = i
    BY <1>2, <1>1 DEF Open, Now, At, Request
  <2>2. n.ino = i /\ n.doc = Empty
    OBVIOUS
  <2>3. fs' = [fs EXCEPT ![p] = n] /\ UNCHANGED <<log, raced, unlogged>>
    BY <1>2 DEF Open
  <2> HIDE DEF n, i
  <2>4. fs'[p] = n /\ \A q \in Paths : q # p => fs'[q] = fs[q]
    BY <2>3, <1>1 DEF FilesOK
  <2> QED
    BY <2>1, <2>2, <2>3, <2>4 DEF Effect, At, Holds
<1>3. CASE Write(e) \/ Copy(e)
  <2>1. At(e, "write") \/ At(e, "copy")
    BY <1>3 DEF Write, Copy
  <2>2. UNCHANGED <<log, raced, unlogged>>
    BY <1>3 DEF Write, Copy
  <2>3. CASE Put(e)
    <3>1. \A q \in Paths : q # p => fs'[q] = fs[q]
      BY <2>3, <1>1, Puts
    <3>2. fs[p].ino = req[e].ino => fs'[p].ino = fs[p].ino /\ fs'[p].doc = Written(fs[p].doc, req[e].doc)
      <4> SUFFICES ASSUME fs[p].ino = req[e].ino
                   PROVE  fs'[p].ino = fs[p].ino /\ fs'[p].doc = Written(fs[p].doc, req[e].doc)
        OBVIOUS
      <4> DEFINE w == Written(fs[p].doc, req[e].doc)
                 n == [fs[p] EXCEPT !.doc = w]
      <4>1. fs' = [fs EXCEPT ![p].doc = w]
        BY <2>3 DEF Put
      <4>2. fs' = [fs EXCEPT ![p] = n]
        BY <4>1, <1>1 DEF FilesOK
      <4>3. n.ino = fs[p].ino /\ n.doc = w
        BY <1>1 DEF FilesOK
      <4> HIDE DEF n, w
      <4>4. fs'[p] = n
        BY <4>2, <1>1 DEF FilesOK
      <4> QED
        BY <4>3, <4>4 DEF w
    <3> QED
      BY <2>1, <2>2, <3>1, <3>2 DEF Effect, At, Holds
  <2>4. CASE fs' = [fs EXCEPT ![p] = NoFile] /\ At(e, "copy")
    BY <2>2, <2>4, <1>1, NoFileIsOne DEF Effect, At, Holds, FilesOK
  <2> QED
    BY <2>3, <2>4, <1>3 DEF Write, Copy
<1>4. CASE RemoveFile(e)
  <2>1. At(e, "remove") /\ UNCHANGED <<log, raced, unlogged>>
    BY <1>4 DEF RemoveFile
  <2>2. CASE There(p)
    BY <2>1, <2>2, <1>4, <1>1, NoFileIsOne DEF Effect, At, Holds, FilesOK, RemoveFile
  <2>3. CASE ~There(p)
    BY <2>1, <2>3, <1>4, <1>1 DEF Effect, At, Holds, RemoveFile, There, AInv, Ghosts
  <2> QED
    BY <2>2, <2>3
<1>5. CASE Audit(e)
  BY <1>5 DEF Audit, Log, Effect, At, Holds
<1>6. CASE SafeSHA(e) \/ Stat(e) \/ Load(e) \/ ReadBack(e) \/ TriggerRebuild(e)
  <2>1. UNCHANGED <<fs, log, raced>> /\ unlogged \subseteq unlogged'
    BY <1>6 DEF SafeSHA, Stat, Load, ReadBack, TriggerRebuild
  <2>2. ~At(e, "open") /\ ~At(e, "remove") /\ ~At(e, "audit") /\ ~Holds(e)
    BY <1>6 DEF SafeSHA, Stat, Load, ReadBack, TriggerRebuild, At, Holds
  <2> QED
    BY <2>1, <2>2 DEF Effect
<1> QED
  BY <1>2, <1>3, <1>4, <1>5, <1>6 DEF Handle

(* The requests that a step leaves alone, or has just begun, and those it  *)
(* ends, do not disturb what is known of a path.                           *)
Calm(e) == ~Holds(e) /\ ~Owes(e) /\ ~Saw(e) /\ ~(req[e].op = "settings" /\ At(e, "open"))
Undisturbed(p) ==
  /\ fs'[p] = fs[p]
  /\ \A f \in Editors : On(f, p)' => (On(f, p) /\ req'[f] = req[f]) \/ Calm(f)'
  /\ \A f \in Editors : On(f, p) /\ (Holds(f) \/ Owes(f)) => On(f, p)' /\ req'[f] = req[f]

LEMMA Same ==
  ASSUME NEW f \in Editors, req'[f] = req[f]
  PROVE  /\ On(f, Yaml)' <=> On(f, Yaml)
         /\ \A p : On(f, p)' <=> On(f, p)
         /\ Holds(f)' <=> Holds(f)
         /\ Owes(f)' <=> Owes(f)
         /\ Saw(f)' <=> Saw(f)
         /\ \A s : At(f, s)' <=> At(f, s)
  BY DEF On, Holds, Owes, Saw, At, Busy

LEMMA WholeFrame ==
  ASSUME NEW p \in Paths, Undisturbed(p), WholeAt(p)
  PROVE  WholeAt(p)'
<1>1. ASSUME \A f \in Editors : On(f, p)' => ~Holds(f)' PROVE fs'[p].doc \notin {Empty, Torn}
  <2>1. \A f \in Editors : On(f, p) => ~Holds(f)
    BY <1>1, Same DEF Undisturbed
  <2> QED
    BY <2>1 DEF Undisturbed, WholeAt
<1>2. ASSUME NEW f \in Editors, On(f, p)', Holds(f)' PROVE fs'[p].ino = req'[f].ino /\ fs'[p].doc = Empty
  <2>1. On(f, p) /\ Holds(f) /\ req'[f] = req[f]
    BY <1>2, Same DEF Undisturbed, Calm
  <2> QED
    BY <2>1 DEF Undisturbed, WholeAt
<1> QED
  BY <1>1, <1>2 DEF WholeAt

LEMMA LoggedFrame ==
  ASSUME NEW p \in Paths, Undisturbed(p), LoggedAt(p),
         Chain(log, p) => Chain(log', p),
         \A d : Says(log, p, d) => Says(log', p, d)
  PROVE  LoggedAt(p)'
<1>1. ASSUME \A f \in Editors : On(f, p)' => ~Owes(f)' PROVE Says(log', p, fs'[p].doc)
  <2>1. \A f \in Editors : On(f, p) => ~Owes(f)
    BY <1>1, Same DEF Undisturbed
  <2> QED
    BY <2>1 DEF Undisturbed, LoggedAt
<1>2. ASSUME NEW f \in Editors, On(f, p)', Saw(f)' PROVE req'[f].before = fs'[p].doc
  <2>1. On(f, p) /\ Saw(f) /\ req'[f] = req[f]
    BY <1>2, Same DEF Undisturbed, Calm
  <2> QED
    BY <2>1 DEF Undisturbed, LoggedAt
<1>3. ASSUME NEW f \in Editors, On(f, p)', Owes(f)' PROVE Says(log', p, req'[f].before)
  <2>1. On(f, p) /\ Owes(f) /\ req'[f] = req[f]
    BY <1>3, Same DEF Undisturbed, Calm
  <2> QED
    BY <2>1 DEF Undisturbed, LoggedAt
<1>4. ASSUME NEW f \in Editors, On(f, p)', At(f, "readBack")' \/ At(f, "audit")'
      PROVE  fs'[p].doc = IF req'[f].op = "delete" THEN NoDoc ELSE req'[f].doc
  <2>1. Owes(f)'
    BY <1>4 DEF Owes
  <2>2. On(f, p) /\ (At(f, "readBack") \/ At(f, "audit")) /\ req'[f] = req[f]
    BY <1>4, <2>1, Same DEF Undisturbed, Calm
  <2> QED
    BY <2>2 DEF Undisturbed, LoggedAt
<1> QED
  BY <1>1, <1>2, <1>3, <1>4 DEF LoggedAt

LEMMA KeyFrame ==
  ASSUME Undisturbed(Yaml), KeyAt, \A x : KeyIs(log, x) => KeyIs(log', x)
  PROVE  KeyAt'
<1>1. ASSUME \A f \in Editors : On(f, Yaml)' => ~Owes(f)'
      PROVE  fs'[Yaml].doc \in Settings /\ KeyIs(log', fs'[Yaml].doc.extra)
  <2>1. \A f \in Editors : On(f, Yaml) => ~Owes(f)
    BY <1>1, Same DEF Undisturbed
  <2> QED
    BY <2>1 DEF Undisturbed, KeyAt
<1>2. ASSUME NEW f \in Editors, On(f, Yaml)', req'[f].op = "settings", At(f, "open")' \/ Owes(f)'
      PROVE  KeyIs(log', req'[f].doc.extra)
  <2>1. On(f, Yaml) /\ req'[f] = req[f]
    BY <1>2, Same DEF Undisturbed, Calm
  <2>2. At(f, "open") \/ Owes(f)
    BY <1>2, <2>1, Same
  <2> QED
    BY <2>1, <2>2, <1>2 DEF KeyAt
<1>3. ASSUME NEW f \in Editors, On(f, Yaml)', At(f, "audit")' PROVE fs'[Yaml].doc = req'[f].doc
  <2>1. On(f, Yaml) /\ req'[f] = req[f]
    BY <1>3, Same DEF Undisturbed, Calm, Owes
  <2>2. At(f, "audit")
    BY <1>3, <2>1, Same
  <2> QED
    BY <2>1, <2>2 DEF KeyAt, Undisturbed
<1> QED
  BY <1>1, <1>2, <1>3 DEF KeyAt
-----------------------------------------------------------------------------
(* What is known of a request that takes a step. *)
LEMMA Acting ==
  ASSUME AInv, NEW e \in Editors, Handle(e)
  PROVE  /\ Busy(e) /\ Turns(req[e]) /\ req[e] \in Request /\ Placed(req[e])
         /\ req[e].path \in PathsOf(req[e].op)
         /\ \A f \in Editors \ {e} : req'[f] = req[f]
         /\ \/ GoesOn(e) /\ Came(e) /\ Went(e)
            \/ GivesUp(e) /\ ~Busy(e)'
         /\ (Came(e) \/ ~Busy(e)')
<1>1. Busy(e) /\ RequestsOK /\ RequestsOK' /\ (GoesOn(e) \/ GivesUp(e))
  BY HandlerSteps, TypeParts DEF AInv
<1>2. GoesOn(e) => Came(e) /\ Went(e)
  BY <1>1, Transitions DEF GoesOn
<1>3. GivesUp(e) => ~Busy(e)'
  BY DEF GivesUp, Busy, Idle
<1>4. \A f \in Editors \ {e} : req'[f] = req[f]
  BY <1>1 DEF GoesOn, GivesUp, NextIs
<1> QED
  BY <1>1, <1>2, <1>3, <1>4, TurnsAre DEF RequestsOK

LEMMA AuditedRecord ==
  ASSUME AInv, NEW e \in Editors, At(e, "audit")
  PROVE  /\ AuditRecord(req[e]) \in [op: DOMAIN Steps, path: Paths, before: Document, after: Document]
         /\ AuditRecord(req[e]).op = req[e].op /\ AuditRecord(req[e]).path = req[e].path
         /\ AuditRecord(req[e]).before = req[e].before
         /\ AuditRecord(req[e]).after = IF req[e].op = "delete" THEN NoDoc ELSE fs[req[e].path].doc
<1>0. RequestsOK /\ FilesOK
  BY TypeParts DEF AInv
<1> DEFINE r == AuditRecord(req[e])
<1>1. req[e] \in Request /\ req[e].op \in DOMAIN Steps /\ fs[req[e].path].doc \in Document
  BY <1>0 DEF At, RequestsOK, Placed, FilesOK, Request
<1>2. AfterSHA(req[e]) \in Document
  BY <1>1, DocumentsDiffer DEF AfterSHA
<1>3. r \in [op: DOMAIN Steps, path: Paths, before: Document, after: Document]
  BY <1>1, <1>2 DEF AuditRecord, Request
<1>4. r.op = req[e].op /\ r.path = req[e].path /\ r.before = req[e].before /\ r.after = AfterSHA(req[e])
  BY DEF AuditRecord
<1> QED
  BY <1>3, <1>4 DEF AfterSHA

(* A request that does not work on p leaves what is known of p. *)
LEMMA Elsewhere ==
  ASSUME AInv, NEW e \in Editors, Handle(e), NEW p \in Paths, ~On(e, p)
  PROVE  /\ Undisturbed(p)
         /\ Chain(log, p) => Chain(log', p)
         /\ \A d : Says(log, p, d) => Says(log', p, d)
         /\ p = Yaml => \A x : KeyIs(log, x) => KeyIs(log', x)
<1>1. Effect(e, req[e].path)
  BY Effects
<1>2. fs'[p] = fs[p]
  <2>1. CASE req[e].path # p
    BY <2>1, <1>1 DEF Effect
  <2>2. CASE req[e].op = "build"
    <3>1. ~At(e, "open") /\ ~Holds(e) /\ ~At(e, "remove")
      BY <2>2, Acting DEF Turns, Turn, At, Holds
    <3> QED
      BY <3>1, <1>1 DEF Effect
  <2> QED
    BY <2>1, <2>2, Acting DEF On
<1>3. ~On(e, p)'
  BY Acting DEF Came, On, Busy
<1>4. Undisturbed(p)
  BY <1>2, <1>3, Acting, Same DEF Undisturbed
<1>5. CASE At(e, "audit")
  <2> DEFINE r == AuditRecord(req[e])
             R == [op: DOMAIN Steps, path: Paths, before: Document, after: Document]
  <2>1. log' = Append(log, r) /\ r \in R /\ log \in Seq(R)
    BY <1>1, <1>5, AuditedRecord, TypeParts DEF Effect, AInv, LogOK
  <2>2. req[e].op # "build"
    BY <1>5, Acting DEF Turns, Turn, At
  <2>3. r.path # p /\ r.op = req[e].op
    BY <2>2, <1>5, AuditedRecord, Acting DEF On
  <2>4. p = Yaml => r.op # "yaml"
    <3>1. req[e].op = "yaml" => req[e].path = Yaml
      BY Acting DEF PathsOf
    <3> QED
      BY <3>1, <2>2, <2>3, Acting DEF On
  <2> HIDE DEF r, R
  <2> QED
    BY <1>4, <2>1, <2>3, <2>4, OtherRecord, KeyRecord
<1>6. CASE ~At(e, "audit")
  BY <1>1, <1>4, <1>6 DEF Effect
<1> QED
  BY <1>5, <1>6

(* A request alone on its file. *)
LEMMA Solo ==
  ASSUME AInv, NEW e \in Editors, Handle(e), NEW p \in Paths \ raced, On(e, p)
  PROVE  /\ \A f \in Editors : On(f, p) => f = e
         /\ \A f \in Editors : On(f, p)' => f = e
<1>1. \A f \in Editors : On(f, p) => f = e
  BY DEF AInv, Alone
<1> QED
  BY <1>1, Acting, Same

LEMMA OwnWhole ==
  ASSUME AInv, NEW e \in Editors, Handle(e), NEW p \in Paths \ raced, On(e, p)
  PROVE  WholeAt(p)'
<1>0. WholeAt(p) /\ p = req[e].path
  BY DEF AInv, AllWhole, On
<1>1. Effect(e, p)
  BY <1>0, Effects
<1>2. \A f \in Editors : (On(f, p) => f = e) /\ (On(f, p)' => f = e)
  BY Solo
<1>3. ASSUME Holds(e)' PROVE fs'[p].ino = req'[e].ino /\ fs'[p].doc = Empty
  <2>1. Busy(e)' /\ GoesOn(e) /\ Came(e)
    BY <1>3, Acting DEF Holds, At
  <2>2. At(e, "open")
    BY <2>1, <1>3 DEF Came, Holds
  <2>3. req'[e].ino = Now(e).ino
    BY <2>1 DEF GoesOn, NextIs, Busy, Idle
  <2> QED
    BY <2>2, <2>3, <1>1 DEF Effect
<1>4. ASSUME ~(On(e, p)' /\ Holds(e)') PROVE fs'[p].doc \notin {Empty, Torn}
  <2>1. ~At(e, "open")
    <3> SUFFICES ASSUME At(e, "open") PROVE FALSE
      OBVIOUS
    <3>1. GoesOn(e) /\ Came(e) /\ Went(e)
      BY Acting DEF GivesUp, At
    <3>2. Busy(e)'
      BY <3>1 DEF Went, At
    <3>3. Holds(e)' /\ On(e, p)'
      BY <3>1, <3>2, <1>0 DEF Came, Holds, On
    <3> QED
      BY <3>3, <1>4
  <2>2. CASE Holds(e)
    <3>1. fs[p].ino = req[e].ino /\ fs[p].doc = Empty
      BY <2>2, <1>0 DEF WholeAt
    <3>2. CASE fs'[p].doc = NoDoc
      BY <3>2, DocumentsDiffer
    <3>3. CASE fs'[p].doc = Written(Empty, req[e].doc)
      <4>1. req[e].doc \in Sendable \union Settings
        <5>1. req[e].op \in {"create", "update", "settings", "yaml", "upload"}
          BY <2>2, Acting DEF Holds, At, Turns, Turn
        <5> QED
          BY <5>1, Acting DEF AInv, Carried
      <4>2. Written(Empty, req[e].doc) = req[e].doc
        BY DEF Written, Over
      <4> QED
        BY <3>3, <4>1, <4>2, DocumentsDiffer
    <3> QED
      BY <2>2, <3>1, <3>2, <3>3, <1>1 DEF Effect
  <2>3. CASE At(e, "remove")
    BY <2>3, <1>1, DocumentsDiffer DEF Effect
  <2>4. CASE ~Holds(e) /\ ~At(e, "remove")
    <3>1. fs' = fs
      BY <2>1, <2>4, <1>1 DEF Effect
    <3>2. fs[p].doc \notin {Empty, Torn}
      BY <2>4, <1>0, <1>2 DEF WholeAt
    <3> QED
      BY <3>1, <3>2
  <2> QED
    BY <2>2, <2>3, <2>4
<1> QED
  BY <1>2, <1>3, <1>4 DEF WholeAt

(* What a writer leaves in a file nobody races for. *)
LEMMA OwnWrite ==
  ASSUME AInv, NEW e \in Editors, Handle(e), NEW p \in Paths \ raced, On(e, p), At(e, "write")
  PROVE  fs'[p].doc = req[e].doc
<1>1. fs[p].ino = req[e].ino /\ fs[p].doc = Empty
  BY DEF AInv, AllWhole, WholeAt, Holds
<1>2. fs'[p].doc = Written(Empty, req[e].doc)
  BY <1>1, Effects DEF Effect, On, Holds, At
<1> QED
  BY <1>2 DEF Written, Over

(* What the request keeps of itself. *)
LEMMA Keeps ==
  ASSUME AInv, NEW e \in Editors, Handle(e), GoesOn(e), Busy(e)'
  PROVE  /\ req'[e].op = req[e].op /\ req'[e].path = req[e].path
         /\ ~At(e, "load") => req'[e].doc = req[e].doc
         /\ At(e, "load") => req'[e].doc = SetKnown(fs[Yaml].doc, req[e].doc)
         /\ ~At(e, "sha") => req'[e].before = req[e].before
         /\ At(e, "sha") => req'[e].before = fs[req[e].path].doc
<1>1. /\ req'[e].op = req[e].op /\ req'[e].path = req[e].path
      /\ req'[e].doc = Now(e).doc /\ req'[e].before = Now(e).before
  BY DEF GoesOn, NextIs, Busy, Idle
<1>2. req[e] \in Request
  BY Acting
<1>3. CASE At(e, "sha")
  <2>1. Now(e).doc = req[e].doc /\ Now(e).before = fs[req[e].path].doc /\ ~At(e, "load")
    BY <1>2, <1>3 DEF Now, At, Request
  <2> QED
    BY <1>1, <1>3, <2>1
<1>4. CASE At(e, "load")
  <2>1. Now(e).before = req[e].before /\ Now(e).doc = SetKnown(fs[Yaml].doc, req[e].doc) /\ ~At(e, "sha")
    BY <1>2, <1>4 DEF Now, At, Request
  <2> QED
    BY <1>1, <1>4, <2>1
<1>5. CASE ~At(e, "sha") /\ ~At(e, "load")
  <2>1. Now(e).doc = req[e].doc /\ Now(e).before = req[e].before
    BY <1>2, <1>5 DEF Now, Request
  <2> QED
    BY <1>1, <1>5, <2>1
<1> QED
  BY <1>3, <1>4, <1>5

LEMMA OwnLogged ==
  ASSUME AInv, NEW e \in Editors, Handle(e), NEW p \in Paths \ Tainted, On(e, p), p \notin unlogged'
  PROVE  LoggedAt(p)'
<1>0. LoggedAt(p) /\ p = req[e].path /\ p \notin raced /\ p \notin Media /\ p \in Paths
  BY DEF AInv, AllLogged, On, Tainted
<1>1. Effect(e, p)
  BY <1>0, Effects
<1>2. \A f \in Editors : (On(f, p) => f = e) /\ (On(f, p)' => f = e)
  BY <1>0, Solo
<1>3. /\ Busy(e) /\ Turns(req[e]) /\ Placed(req[e])
      /\ (GoesOn(e) /\ Came(e) /\ Went(e)) \/ (GivesUp(e) /\ ~Busy(e)')
  BY Acting
<1>4. req[e].op \in {"create", "update", "delete", "settings", "yaml"}
  <2>1. req[e].op \notin {"upload", "discard"}
    BY <1>0, Acting DEF PathsOf
  <2>2. req[e].op \in DOMAIN Steps /\ req[e].op # "build"
    BY Acting DEF Placed, On
  <2> QED
    BY <2>1, <2>2, StepsTable
<1> DEFINE A == Owes(e)' /\ Busy(e)'
<1>5. SUFFICES
        /\ Chain(log', p)
        /\ ~Owes(e)' => Says(log', p, fs'[p].doc)
        /\ Busy(e)' /\ Saw(e)' => req'[e].before = fs'[p].doc
        /\ Owes(e)' => Says(log', p, req'[e].before)
        /\ At(e, "readBack")' \/ At(e, "audit")' =>
             fs'[p].doc = IF req'[e].op = "delete" THEN NoDoc ELSE req'[e].doc
  <2>1. Owes(e)' => On(e, p)'
    <3>1. Owes(e)' => Busy(e)'
      BY DEF Owes, At
    <3> QED
      BY <3>1, <1>3, <1>0 DEF Came, On
  <2>2. On(e, p)' => Busy(e)'
    BY DEF On
  <2> QED
    BY <1>2, <2>1, <2>2 DEF LoggedAt
<1>6. CASE ~Owes(e) /\ GivesUp(e) /\ ~Busy(e)'
  <2>1. fs' = fs /\ log' = log
    BY <1>6 DEF GivesUp
  <2>2. Says(log, p, fs[p].doc) /\ Chain(log, p)
    BY <1>6, <1>0, <1>2 DEF LoggedAt
  <2>3. ~Owes(e)' /\ ~At(e, "readBack")' /\ ~At(e, "audit")'
    BY <1>6 DEF Owes, At
  <2> QED
    BY <2>1, <2>2, <2>3, <1>6
<1>7. CASE Owes(e) /\ GivesUp(e) /\ ~Busy(e)'
  <2>1. At(e, "readBack") /\ p \in unlogged'
    BY <1>7, <1>0 DEF GivesUp, Owes, At
  <2> QED
    BY <2>1
<1>8. CASE GoesOn(e) /\ Came(e) /\ Went(e)
  <2>1. CASE At(e, "sha") \/ At(e, "statNew") \/ At(e, "stat") \/ At(e, "load")
    <3>1. fs' = fs /\ log' = log
      BY <2>1, <1>1 DEF Effect, At, Holds
    <3>2. ~Owes(e) /\ Busy(e)' /\ ~Owes(e)'
      BY <2>1, <1>8 DEF Went, Came, At, Owes
    <3>3. Says(log, p, fs[p].doc) /\ Chain(log, p)
      BY <3>2, <1>0, <1>2 DEF LoggedAt
    <3>4. req'[e].before = fs[p].doc
      <4>1. CASE At(e, "sha")
        BY <4>1, <3>2, <1>8, <1>0, Keeps
      <4>2. CASE At(e, "statNew")
        <5>1. req[e].op = "create" /\ ~There(p)
          BY <4>2, <1>3, <1>8, <1>0 DEF GoesOn, Turns, Turn, At
        <5>2. req[e].before = NoDoc /\ fs[p].doc = NoDoc
          BY <5>1, <1>3, <1>0 DEF AInv, Carried, Ghosts, There
        <5> QED
          BY <4>2, <5>2, <3>2, <1>8, Keeps DEF At
      <4>3. CASE At(e, "stat") \/ At(e, "load")
        <5>1. Saw(e)
          BY <4>3, <1>3 DEF Saw, Turns, Turn, At
        <5>2. req[e].before = fs[p].doc
          BY <5>1, <1>0 DEF LoggedAt, On
        <5> QED
          BY <4>3, <5>2, <3>2, <1>8, Keeps DEF At
      <4> QED
        BY <2>1, <4>1, <4>2, <4>3
    <3> QED
      BY <3>1, <3>2, <3>3, <3>4 DEF Owes
  <2>2. CASE At(e, "open")
    <3>1. log' = log /\ ~Owes(e) /\ Saw(e)
      BY <2>2, <1>1, <1>3, <1>4 DEF Effect, At, Owes, Saw, Turns, Turn
    <3>2. Says(log, p, fs[p].doc) /\ Chain(log, p) /\ req[e].before = fs[p].doc
      BY <3>1, <1>0, <1>2 DEF LoggedAt, On
    <3>3. Busy(e)' /\ req'[e].before = req[e].before
      BY <2>2, <1>8, Keeps DEF Went, At
    <3>4. At(e, "write")'
      BY <2>2, <1>4, <1>8, <3>3 DEF Came
    <3>5. Owes(e)' /\ ~Saw(e)' /\ ~At(e, "readBack")' /\ ~At(e, "audit")'
      BY <3>4 DEF Owes, Saw, At
    <3> QED
      BY <3>1, <3>2, <3>3, <3>5
  <2>3. CASE At(e, "write")
    <3>1. log' = log /\ Owes(e) /\ fs'[p].doc = req[e].doc /\ req[e].op # "delete"
      BY <2>3, <1>0, <1>1, <1>3, OwnWrite DEF Effect, At, Owes, Turns, Turn
    <3>2. Says(log, p, req[e].before) /\ Chain(log, p)
      BY <3>1, <1>0 DEF LoggedAt, On
    <3>3. Busy(e)'
      BY <2>3, <1>8 DEF Went, At
    <3>4. req'[e].before = req[e].before /\ req'[e].doc = req[e].doc /\ req'[e].op = req[e].op
      BY <2>3, <1>8, <3>3, Keeps DEF At
    <3>5. Owes(e)' /\ ~Saw(e)'
      BY <2>3, <1>8, <3>3 DEF Came, Owes, Saw, At
    <3> QED
      BY <3>1, <3>2, <3>4, <3>5
  <2>4. CASE At(e, "readBack")
    <3>1. log' = log /\ fs' = fs /\ Owes(e)
      BY <2>4, <1>1 DEF Effect, At, Owes, Holds
    <3>2. /\ Says(log, p, req[e].before) /\ Chain(log, p)
          /\ fs[p].doc = IF req[e].op = "delete" THEN NoDoc ELSE req[e].doc
      BY <2>4, <3>1, <1>0 DEF LoggedAt, On
    <3>3. Busy(e)'
      BY <2>4, <1>8 DEF Went, At
    <3>4. req'[e].before = req[e].before /\ req'[e].doc = req[e].doc /\ req'[e].op = req[e].op
      BY <2>4, <1>8, <3>3, Keeps DEF At
    <3>5. Owes(e)' /\ ~Saw(e)'
      BY <2>4, <1>8, <3>3 DEF Came, Owes, Saw, At
    <3> QED
      BY <3>1, <3>2, <3>4, <3>5
  <2>5. CASE At(e, "remove")
    <3>1. log' = log /\ ~Owes(e) /\ fs'[p].doc = NoDoc /\ req[e].op = "delete" /\ Saw(e)
      BY <2>5, <1>1, <1>3, <1>4 DEF Effect, At, Owes, Saw, Turns, Turn
    <3>2. Says(log, p, fs[p].doc) /\ Chain(log, p) /\ req[e].before = fs[p].doc
      BY <3>1, <1>0, <1>2 DEF LoggedAt, On
    <3>3. Busy(e)'
      BY <2>5, <3>1, <1>8 DEF Went, At
    <3>4. req'[e].before = req[e].before /\ req'[e].op = req[e].op
      BY <2>5, <1>8, <3>3, Keeps DEF At
    <3>5. Owes(e)' /\ ~Saw(e)'
      BY <2>5, <1>8, <3>1, <3>3 DEF Came, Owes, Saw, At
    <3> QED
      BY <3>1, <3>2, <3>4, <3>5
  <2>6. CASE At(e, "audit")
    <3> DEFINE r == AuditRecord(req[e])
               R == [op: DOMAIN Steps, path: Paths, before: Document, after: Document]
    <3>1. log' = Append(log, r) /\ fs' = fs /\ log \in Seq(R) /\ r \in R
      BY <2>6, <1>1, AuditedRecord, TypeParts DEF Effect, At, Holds, AInv, LogOK
    <3>2. /\ Says(log, p, req[e].before) /\ Chain(log, p)
          /\ fs[p].doc = IF req[e].op = "delete" THEN NoDoc ELSE req[e].doc
      BY <2>6, <1>0 DEF LoggedAt, On, Owes
    <3>3. r.path = p /\ r.before = req[e].before /\ r.after = fs[p].doc
      BY <2>6, <3>2, <1>0, AuditedRecord
    <3> HIDE DEF r, R
    <3>4. Chain(log', p) /\ Says(log', p, fs[p].doc)
      BY <3>1, <3>2, <3>3, OwnRecord
    <3>5. ~Owes(e)' /\ ~Saw(e)'
      BY <2>6, <1>8 DEF Came, Owes, Saw, At
    <3> QED
      BY <3>1, <3>4, <3>5 DEF Owes
  <2>7. CASE At(e, "rebuild")
    <3>1. log' = log /\ fs' = fs /\ ~Owes(e)
      BY <2>7, <1>1 DEF Effect, At, Owes, Holds
    <3>2. Says(log, p, fs[p].doc) /\ Chain(log, p)
      BY <3>1, <1>0, <1>2 DEF LoggedAt
    <3>3. ~Owes(e)' /\ ~Saw(e)'
      BY <2>7, <1>8 DEF Came, Owes, Saw, At
    <3> QED
      BY <3>1, <3>2, <3>3 DEF Owes
  <2>8. ~At(e, "copy")
    BY <1>3, <1>4 DEF Turns, Turn, At
  <2>9. \/ At(e, "sha") \/ At(e, "statNew") \/ At(e, "stat") \/ At(e, "load") \/ At(e, "open")
        \/ At(e, "write") \/ At(e, "copy") \/ At(e, "readBack") \/ At(e, "remove")
        \/ At(e, "audit") \/ At(e, "rebuild")
    BY DEF Handle, SafeSHA, Stat, Load, Open, Write, Copy, ReadBack, RemoveFile, Audit, TriggerRebuild
  <2> QED
    BY <2>1, <2>2, <2>3, <2>4, <2>5, <2>6, <2>7, <2>8, <2>9
<1> QED
  BY <1>3, <1>6, <1>7, <1>8

LEMMA OwnKey ==
  ASSUME AInv, NEW e \in Editors, Handle(e), Yaml \notin raced, On(e, Yaml)
  PROVE  KeyAt'
<1>0. KeyAt /\ Yaml = req[e].path /\ Yaml \in Paths
  BY DEF AInv, KeyKept, On, Paths
<1>1. Effect(e, Yaml)
  BY <1>0, Effects
<1>2. \A f \in Editors : (On(f, Yaml) => f = e) /\ (On(f, Yaml)' => f = e)
  BY <1>0, Solo
<1>3. /\ Busy(e) /\ Turns(req[e]) /\ Placed(req[e])
      /\ (GoesOn(e) /\ Came(e) /\ Went(e)) \/ (GivesUp(e) /\ ~Busy(e)')
  BY Acting
<1>4. req[e].op \in {"settings", "yaml"} /\ req[e].doc \in Settings
  <2>1. req[e].op \notin {"upload", "discard", "create", "update", "delete"}
    <3>1. Yaml \notin Files /\ Yaml \notin Media
      BY ONLY AdminAssumption
    <3> QED
      BY <3>1, <1>0, Acting DEF PathsOf
  <2>2. req[e].op \in DOMAIN Steps /\ req[e].op # "build"
    BY Acting DEF Placed, On
  <2>3. req[e].op \in {"settings", "yaml"}
    BY <2>1, <2>2, StepsTable
  <2> QED
    BY <2>3, <1>3 DEF AInv, Carried
<1>5. SUFFICES
        /\ ~Owes(e)' => fs'[Yaml].doc \in Settings /\ KeyIs(log', fs'[Yaml].doc.extra)
        /\ Busy(e)' /\ req'[e].op = "settings" /\ (At(e, "open")' \/ Owes(e)') => KeyIs(log', req'[e].doc.extra)
        /\ At(e, "audit")' => fs'[Yaml].doc = req'[e].doc
  <2>1. Owes(e)' => On(e, Yaml)'
    <3>1. Owes(e)' => Busy(e)'
      BY DEF Owes, At
    <3> QED
      BY <3>1, <1>3, <1>0 DEF Came, On
  <2>2. On(e, Yaml)' => Busy(e)'
    BY DEF On
  <2> QED
    BY <1>2, <2>1, <2>2 DEF KeyAt
<1>6. CASE GivesUp(e) /\ ~Busy(e)'
  <2>1. fs' = fs /\ log' = log
    BY <1>6 DEF GivesUp
  <2>2. ~Owes(e)
    BY <1>6, <1>3, <1>4 DEF GivesUp, Owes, At, Turns, Turn
  <2>3. fs[Yaml].doc \in Settings /\ KeyIs(log, fs[Yaml].doc.extra)
    BY <2>2, <1>0, <1>2 DEF KeyAt
  <2>4. ~Owes(e)' /\ ~At(e, "audit")'
    BY <1>6 DEF Owes, At
  <2> QED
    BY <2>1, <2>3, <2>4, <1>6
<1>7. CASE GoesOn(e) /\ Came(e) /\ Went(e)
  <2>1. CASE At(e, "sha")
    <3>1. fs' = fs /\ log' = log /\ ~Owes(e)
      BY <2>1, <1>1 DEF Effect, At, Holds, Owes
    <3>2. fs[Yaml].doc \in Settings /\ KeyIs(log, fs[Yaml].doc.extra)
      BY <3>1, <1>0, <1>2 DEF KeyAt
    <3>3. ~Owes(e)' /\ (At(e, "open")' => req'[e].op = "yaml") /\ ~At(e, "audit")'
      <4>1. Busy(e)'
        BY <2>1, <1>7 DEF Went, At
      <4> QED
        BY <4>1, <2>1, <1>7 DEF Came, Owes, At
    <3> QED
      BY <3>1, <3>2, <3>3
  <2>2. CASE At(e, "load")
    <3>1. fs' = fs /\ log' = log /\ ~Owes(e)
      BY <2>2, <1>1 DEF Effect, At, Holds, Owes
    <3>2. fs[Yaml].doc \in Settings /\ KeyIs(log, fs[Yaml].doc.extra)
      BY <3>1, <1>0, <1>2 DEF KeyAt
    <3>3. Busy(e)' /\ ~Owes(e)' /\ ~At(e, "audit")'
      BY <2>2, <1>7 DEF Went, Came, Owes, At
    <3>4. req'[e].doc = SetKnown(fs[Yaml].doc, req[e].doc)
      BY <2>2, <3>3, <1>7, Keeps
    <3>5. req'[e].doc.extra = fs[Yaml].doc.extra
      BY <3>2, <3>4 DEF SetKnown, Settings
    <3> QED
      BY <3>1, <3>2, <3>3, <3>5
  <2>3. CASE At(e, "open")
    <3>1. log' = log
      BY <2>3, <1>1 DEF Effect, At
    <3>2. req[e].op = "settings" => KeyIs(log, req[e].doc.extra)
      BY <2>3, <1>0 DEF KeyAt, On
    <3>3. Busy(e)'
      BY <2>3, <1>7 DEF Went, At
    <3>4. req'[e].doc = req[e].doc /\ req'[e].op = req[e].op
      BY <2>3, <3>3, <1>7, Keeps DEF At
    <3>5. Owes(e)' /\ ~At(e, "audit")'
      BY <2>3, <1>4, <1>7, <3>3 DEF Came, Owes, At
    <3> QED
      BY <3>1, <3>2, <3>4, <3>5
  <2>4. CASE At(e, "write")
    <3>1. log' = log /\ fs'[Yaml].doc = req[e].doc
      BY <2>4, <1>0, <1>1, OwnWrite DEF Effect, At
    <3>2. req[e].op = "settings" => KeyIs(log, req[e].doc.extra)
      BY <2>4, <1>0 DEF KeyAt, On, Owes
    <3>3. Busy(e)'
      BY <2>4, <1>7 DEF Went, At
    <3>4. req'[e].doc = req[e].doc /\ req'[e].op = req[e].op
      BY <2>4, <3>3, <1>7, Keeps DEF At
    <3>5. Owes(e)'
      BY <2>4, <1>7, <3>3 DEF Came, Owes, At
    <3> QED
      BY <3>1, <3>2, <3>4, <3>5
  <2>5. CASE At(e, "audit")
    <3> DEFINE r == AuditRecord(req[e])
               R == [op: DOMAIN Steps, path: Paths, before: Document, after: Document]
    <3>1. log' = Append(log, r) /\ fs' = fs /\ log \in Seq(R) /\ r \in R
      BY <2>5, <1>1, AuditedRecord, TypeParts DEF Effect, At, Holds, AInv, LogOK
    <3>2. fs[Yaml].doc = req[e].doc /\ (req[e].op = "settings" => KeyIs(log, req[e].doc.extra))
      BY <2>5, <1>0 DEF KeyAt, On, Owes
    <3>3. r.op = req[e].op /\ r.after = fs[Yaml].doc
      BY <2>5, <1>0, <1>4, AuditedRecord
    <3> HIDE DEF r, R
    <3>4. KeyIs(log', fs[Yaml].doc.extra)
      BY <3>1, <3>2, <3>3, <1>4, KeyRecord
    <3>5. ~Owes(e)' /\ ~At(e, "open")' /\ ~At(e, "audit")'
      BY <2>5, <1>7 DEF Came, Owes, At
    <3> QED
      BY <3>1, <3>2, <3>4, <3>5, <1>4
  <2>6. CASE At(e, "rebuild")
    <3>1. log' = log /\ fs' = fs /\ ~Owes(e)
      BY <2>6, <1>1 DEF Effect, At, Owes, Holds
    <3>2. fs[Yaml].doc \in Settings /\ KeyIs(log, fs[Yaml].doc.extra)
      BY <3>1, <1>0, <1>2 DEF KeyAt
    <3>3. ~Owes(e)' /\ ~At(e, "open")' /\ ~At(e, "audit")'
      BY <2>6, <1>7 DEF Came, Owes, At
    <3> QED
      BY <3>1, <3>2, <3>3
  <2>7. ~At(e, "copy") /\ ~At(e, "stat") /\ ~At(e, "statNew") /\ ~At(e, "readBack") /\ ~At(e, "remove")
    BY <1>3, <1>4 DEF Turns, Turn, At
  <2>8. \/ At(e, "sha") \/ At(e, "statNew") \/ At(e, "stat") \/ At(e, "load") \/ At(e, "open")
        \/ At(e, "write") \/ At(e, "copy") \/ At(e, "readBack") \/ At(e, "remove")
        \/ At(e, "audit") \/ At(e, "rebuild")
    BY DEF Handle, SafeSHA, Stat, Load, Open, Write, Copy, ReadBack, RemoveFile, Audit, TriggerRebuild
  <2> QED
    BY <2>1, <2>2, <2>3, <2>4, <2>5, <2>6, <2>7, <2>8
<1> QED
  BY <1>3, <1>6, <1>7

(* A request that is routed has done nothing yet. *)
LEMMA Arrival ==
  ASSUME AInv, NEW e \in Editors, ServeHTTP(e), NEW p \in Paths
  PROVE  Undisturbed(p)
<1>1. PICK op \in DOMAIN Steps : \E q \in PathsOf(op), d \in DocsOf(op) : req'[e] = Routed(op, q, d)
  BY Serves DEF AInv
<1>2. PICK q \in PathsOf(op), d \in DocsOf(op) : req'[e] = Routed(op, q, d)
  BY <1>1
<1>3. req'[e].at = 1 /\ Turns(req'[e])
  BY <1>2, RoutedOK, TurnsAre
<1>4. Calm(e)'
  BY <1>3 DEF Calm, Holds, Owes, Saw, At, Turns, Turn
<1>5. ~Busy(e) /\ fs' = fs /\ \A f \in Editors \ {e} : req'[f] = req[f]
  BY Serves DEF AInv
<1> QED
  BY <1>4, <1>5, Same DEF Undisturbed, On

LEMMA PathStep ==
  ASSUME AInv, [Next]_vars
  PROVE  AllWhole' /\ AllLogged' /\ KeyKept'
<1>1. ASSUME NEW e \in Editors, Handle(e) PROVE AllWhole' /\ AllLogged' /\ KeyKept'
  <2>0. raced' = raced /\ unlogged \subseteq unlogged'
    BY <1>1, Effects DEF Effect
  <2>1. ASSUME NEW p \in Paths \ raced PROVE WholeAt(p)'
    <3>1. CASE On(e, p)
      BY <3>1, <1>1, OwnWhole
    <3>2. CASE ~On(e, p)
      BY <3>2, <1>1, Elsewhere, WholeFrame DEF AInv, AllWhole
    <3> QED
      BY <3>1, <3>2
  <2>2. ASSUME NEW p \in Paths \ Tainted, p \notin unlogged' PROVE LoggedAt(p)'
    <3>1. CASE On(e, p)
      BY <2>2, <3>1, <1>1, OwnLogged
    <3>2. CASE ~On(e, p)
      BY <3>2, <1>1, Elsewhere, LoggedFrame DEF AInv, AllLogged
    <3> QED
      BY <3>1, <3>2
  <2>3. ASSUME Yaml \notin raced PROVE KeyAt'
    <3>1. CASE On(e, Yaml)
      BY <2>3, <3>1, <1>1, OwnKey
    <3>2. CASE ~On(e, Yaml)
      <4>1. Yaml \in Paths
        BY DEF Paths
      <4> QED
        BY <2>3, <3>2, <4>1, <1>1, Elsewhere, KeyFrame DEF AInv, KeyKept
    <3> QED
      BY <3>1, <3>2
  <2>4. \A p \in Paths \ Tainted' : p \in Paths \ Tainted /\ p \notin unlogged'
    BY <2>0 DEF Tainted
  <2> QED
    BY <2>0, <2>1, <2>2, <2>3, <2>4 DEF AllWhole, AllLogged, KeyKept
<1>2. ASSUME raced \subseteq raced', unlogged' = unlogged, log' = log, \A p \in Paths : Undisturbed(p)
      PROVE  AllWhole' /\ AllLogged' /\ KeyKept'
  <2>1. Yaml \in Paths /\ \A p \in Paths \ Tainted' : p \in Paths \ Tainted
    BY <1>2 DEF Paths, Tainted
  <2>2. AllWhole'
    BY <1>2, WholeFrame DEF AInv, AllWhole
  <2>3. AllLogged'
    BY <1>2, <2>1, LoggedFrame DEF AInv, AllLogged
  <2>4. KeyKept'
    BY <1>2, <2>1, KeyFrame DEF AInv, KeyKept
  <2> QED
    BY <2>2, <2>3, <2>4
<1>3. ASSUME NEW e \in Editors, ServeHTTP(e) PROVE AllWhole' /\ AllLogged' /\ KeyKept'
  <2>1. raced \subseteq raced' /\ unlogged' = unlogged /\ log' = log
    BY <1>3 DEF ServeHTTP
  <2> QED
    BY <1>2, <1>3, <2>1, Arrival
<1>4. CASE FullBuildAsked \/ Build \/ UNCHANGED vars
  <2>1. UNCHANGED <<fs, req, log, raced, unlogged>>
    BY <1>4 DEF FullBuildAsked, Build, LoadConfig, BuildDone, BuildFails, Release, vars
  <2>2. \A p \in Paths : Undisturbed(p)
    BY <2>1, Same DEF Undisturbed
  <2> QED
    BY <1>2, <2>1, <2>2
<1> QED
  BY <1>1, <1>3, <1>4 DEF Next

LEMMA AInvInit == Init => AInv
<1> SUFFICES ASSUME Init PROVE AInv
  OBVIOUS
<1> USE DEF Init
<1>1. \A e \in Editors : req[e] = Idle
  OBVIOUS
<1>2. \A e \in Editors : ~Busy(e)
  BY <1>1 DEF Busy, Idle
<1>3. RequestsOK
  BY <1>1, <1>2, IdleIsOne DEF RequestsOK
<1>4. \A p \in Paths : /\ fs[p] \in [ino: Nat, doc: Document]
                       /\ fs[p].ino = 0 => fs[p].doc = NoDoc
                       /\ fs[p].doc \notin {Empty, Torn}
  <2> SUFFICES ASSUME NEW p \in Paths
               PROVE  /\ fs[p] \in [ino: Nat, doc: Document]
                      /\ fs[p].ino = 0 => fs[p].doc = NoDoc
                      /\ fs[p].doc \notin {Empty, Torn}
    OBVIOUS
  <2> DEFINE F == [ino |-> 1, doc |-> Text("first")]
             S == [ino |-> 1, doc |-> FirstSettings]
  <2>1. F.ino = 1 /\ F.doc = Text("first") /\ F \in [ino: Nat, doc: Document]
    BY DocumentsDiffer
  <2>2. S.ino = 1 /\ S.doc = FirstSettings /\ S \in [ino: Nat, doc: Document]
    BY DocumentsDiffer
  <2>3. fs[p] \in {F, S, NoFile}
    OBVIOUS
  <2> HIDE DEF F, S
  <2> QED
    BY <2>1, <2>2, <2>3, NoFileIsOne, DocumentsDiffer
<1>5. FilesOK
  BY <1>4 DEF FilesOK
<1>6. LogOK /\ DOMAIN log = {}
  BY DEF LogOK
<1>7. site \in Sites
  BY DocumentsDiffer DEF Sites
<1>8. requests \in 0..MaxRequests /\ raced \subseteq Paths /\ unlogged \subseteq Paths
  <2>1. MaxRequests \in Nat
    BY ONLY AdminAssumption
  <2> QED
    BY <2>1
<1>9. TypeOK
  BY <1>3, <1>5, <1>6, <1>7, <1>8, TypeParts
<1>10. Alone /\ Carried /\ Ghosts
  BY <1>2, <1>4 DEF Alone, Carried, Ghosts, On
<1>11. AllWhole
  BY <1>2, <1>4 DEF AllWhole, WholeAt, On
<1>12. AllLogged
  BY <1>2, <1>6 DEF AllLogged, LoggedAt, On, Says, Chain
<1>13. KeyKept
  <2>1. fs[Yaml].doc = FirstSettings
    <3>1. Yaml \notin Existing /\ Yaml \in Paths
      <4>1. Yaml \notin Existing
        BY ONLY AdminAssumption
      <4> QED
        BY <4>1 DEF Paths
    <3> QED
      BY <3>1
  <2> QED
    BY <1>2, <1>6, <2>1, DocumentsDiffer DEF KeyKept, KeyAt, KeyIs, On
<1> QED
  BY <1>9, <1>10, <1>11, <1>12, <1>13 DEF AInv

LEMMA AInvStep == AInv /\ [Next]_vars => AInv'
<1> SUFFICES ASSUME AInv, [Next]_vars PROVE AInv'
  OBVIOUS
<1>1. TypeOK'
  BY TypeStep DEF AInv
<1>2. Alone' /\ Carried' /\ Ghosts'
  BY AloneStep, CarriedStep, GhostsStep
<1>3. AllWhole' /\ AllLogged' /\ KeyKept'
  BY PathStep
<1> QED
  BY <1>1, <1>2, <1>3 DEF AInv

LEMMA AInvAlways == Spec => []AInv
  BY AInvInit, AInvStep, PTL DEF Spec

-----------------------------------------------------------------------------
(* Every reachable state of the write side is well typed, for any editors, *)
(* files and documents.                                                    *)
THEOREM AdminTypeCorrect == Spec => []TypeOK
<1>1. AInv => TypeOK
  BY DEF AInv
<1> QED
  BY <1>1, AInvAlways, PTL

(* At rest the audit log explains the files, for any number of editors and *)
(* requests: what a file holds is what its last record says, records form  *)
(* a chain, and no file is left empty or mixed, unless two requests raced  *)
(* for it or one changed it and failed.                                    *)
THEOREM LogAlwaysExplains == Spec => []LogExplainsFiles
<1>1. AInv => LogExplainsFiles
  <2> SUFFICES ASSUME AInv, AtRest PROVE
        /\ \A p \in Paths \ raced : fs[p].doc \notin {Empty, Torn}
        /\ \A p \in Paths \ Tainted : \A i \in RecordsOf(p) :
             /\ IsLast(i, RecordsOf(p)) => log[i].after = fs[p].doc
             /\ \A j \in RecordsOf(p) : Follows(i, j, RecordsOf(p)) => log[j].before = log[i].after
    BY DEF LogExplainsFiles
  <2>1. \A e \in Editors, p \in Paths : ~On(e, p)
    BY DEF AtRest, On
  <2>2. \A p \in Paths \ raced : fs[p].doc \notin {Empty, Torn}
    BY <2>1 DEF AInv, AllWhole, WholeAt
  <2>3. \A p \in Paths \ Tainted : Chain(log, p) /\ Says(log, p, fs[p].doc)
    BY <2>1 DEF AInv, AllLogged, LoggedAt
  <2>4. ASSUME NEW p \in Paths \ Tainted, NEW i \in RecordsOf(p)
        PROVE  /\ IsLast(i, RecordsOf(p)) => log[i].after = fs[p].doc
               /\ \A j \in RecordsOf(p) : Follows(i, j, RecordsOf(p)) => log[j].before = log[i].after
    BY <2>3, <2>4 DEF RecordsOf, IsLast, Follows, Says, Chain
  <2> QED
    BY <2>2, <2>4
<1> QED
  BY <1>1, AInvAlways, PTL

(* The settings form never touches a key it does not know, whatever forms  *)
(* and texts are saved one after another.                                  *)
THEOREM FormKeepsTheRest == Spec => []UnknownFieldsKept
<1>1. AInv => UnknownFieldsKept
  <2> SUFFICES ASSUME AInv, AtRest, Yaml \notin raced PROVE
        /\ YamlEdits = {} => fs[Yaml].doc.extra = FirstSettings.extra
        /\ \A i \in YamlEdits : IsLast(i, YamlEdits) => fs[Yaml].doc.extra = log[i].after.extra
    BY DEF UnknownFieldsKept
  <2>1. KeyIs(log, fs[Yaml].doc.extra)
    BY DEF AtRest, On, AInv, KeyKept, KeyAt
  <2> QED
    BY <2>1 DEF KeyIs, YamlEdits, IsLast
<1> QED
  BY <1>1, AInvAlways, PTL

-----------------------------------------------------------------------------
(* From huan.yaml to the site. A full build that was asked for since the   *)
(* last write has not read the file yet, or has read what it holds, or     *)
(* runs again; and in huan dev who has opened the file will still ask.     *)
WillAsk(e) == On(e, Yaml) /\ (At(e, "write") \/ At(e, "audit") \/ At(e, "rebuild"))

Queued ==
  /\ site.job # "full" => site.loaded = NotBuilding
  /\ ~site.daemon => site.job \notin {"changes", "ending"} /\ (site.asked \/ \E e \in Editors : WillAsk(e))
  /\ site.asked =>
       IF site.job = "full"
       THEN site.pending \/ site.loaded = NotBuilding \/ site.loaded = fs[Yaml].doc
       ELSE site.built = fs[Yaml].doc \/ site.failed

LEMMA QueuedInit == Init => Queued
<1> SUFFICES ASSUME Init PROVE Queued
  OBVIOUS
<1>1. Yaml \in Paths /\ Yaml \notin Existing
  BY DEF Paths
<1>2. fs[Yaml].doc = FirstSettings
  BY <1>1 DEF Init
<1> QED
  BY <1>2 DEF Init, Queued

(* The handlers that write huan.yaml end with the audit record and the     *)
(* rebuild.                                                                *)
LEMMA LastButOne ==
  ASSUME NEW e \in Editors, Placed(req[e]), At(e, "audit"), req[e].op \in {"settings", "yaml"},
         NextIs(e, req[e])
  PROVE  At(e, "rebuild")' /\ req'[e].path = req[e].path /\ req'[e].op = req[e].op
<1>1. Turns(req[e]) /\ StepOf(req[e]) = "audit"
  BY TurnsAre DEF At
<1>2. \/ req[e].op = "settings" /\ req[e].at = 5
      \/ req[e].op = "yaml" /\ req[e].at = 4
  BY <1>1 DEF Turns, Turn
<1>3. req[e].at < Lengths(req[e].op)
  BY <1>2 DEF Lengths
<1>4. /\ Placed(req'[e]) /\ req'[e].at = req[e].at + 1
      /\ req'[e].op = req[e].op /\ req'[e].path = req[e].path
  BY <1>2, <1>3 DEF NextIs
<1>5. Turns(req'[e])
  BY <1>4, TurnsAre
<1>6. \/ Turn(req'[e], "settings", 6)
      \/ Turn(req'[e], "yaml", 5)
  BY <1>2, <1>4 DEF Turn
<1>7. StepOf(req'[e]) = "rebuild"
  BY <1>5, <1>6 DEF Turns
<1>8. req'[e].op # "none"
  BY <1>2, <1>4
<1> QED
  BY <1>4, <1>7, <1>8 DEF At, Busy

(* What a step of a request does to the file, to the site and to itself.   *)
LEMMA YamlStep ==
  ASSUME AInv, NEW e \in Editors, Handle(e)
  PROVE  /\ \/ site' = [site EXCEPT !.asked = FALSE] /\ (~site.daemon => WillAsk(e)')
            \/ At(e, "rebuild") /\ site' = Enqueue(IF site.daemon THEN "changes" ELSE "full") /\ fs' = fs
            \/ site' = site /\ fs'[Yaml] = fs[Yaml] /\ (WillAsk(e) => WillAsk(e)')
         /\ \A f \in Editors \ {e} : WillAsk(f) => WillAsk(f)'
<1>1. /\ Effect(e, req[e].path) /\ Turns(req[e]) /\ Busy(e) /\ Placed(req[e])
      /\ req[e].path \in PathsOf(req[e].op)
  BY Effects, Acting
<1>2. \A f \in Editors \ {e} : WillAsk(f) => WillAsk(f)'
  BY Acting, Same DEF WillAsk
<1>3. Yaml \notin Files \union Media /\ Yaml \in Paths
  BY DEF Paths
<1>4. CASE TriggerRebuild(e)
  BY <1>2, <1>4 DEF TriggerRebuild
<1>5. CASE (Open(e) \/ Write(e)) /\ req[e].path = Yaml
  <2>1. site' = [site EXCEPT !.asked = FALSE]
    <3>1. Rewritten(Yaml) /\ site \in Sites
      BY <1>5, TypeParts DEF Open, Write, AInv
    <3> QED
      BY <3>1 DEF Rewritten, Sites
  <2>2. req[e].op \notin {"create", "update", "delete", "upload", "discard"} /\ req[e].op # "build"
    <3>1. At(e, "open") \/ At(e, "write")
      BY <1>5 DEF Open, Write
    <3> QED
      BY <3>1, <1>1, <1>3, <1>5 DEF PathsOf, Turns, Turn, At
  <2>3. (At(e, "open") \/ At(e, "write")) /\ GoesOn(e) /\ Came(e) /\ Went(e)
    BY <1>5, Acting DEF Open, Write, GivesUp, At
  <2>4. Busy(e)'
    BY <2>3 DEF Went, At
  <2>5. req'[e].op = req[e].op /\ req'[e].path = Yaml
    BY <1>5, <2>3, <2>4 DEF Came
  <2>6. At(e, "write")' \/ At(e, "audit")'
    <3>1. Placed(req'[e])
      BY <2>3, <2>4 DEF GoesOn, NextIs, Busy, Idle
    <3>2. Turns(req'[e])
      BY <3>1, TurnsAre
    <3>3. StepOf(req'[e]) # "copy" /\ StepOf(req'[e]) # "readBack"
      BY ONLY <2>2, <2>5, <3>2 DEF Turns, Turn
    <3>4. ~At(e, "copy")' /\ ~At(e, "readBack")'
      BY <3>3 DEF At
    <3> QED
      BY <2>3, <2>4, <3>4 DEF Came
  <2> QED
    BY <1>2, <2>1, <2>2, <2>4, <2>5, <2>6 DEF WillAsk, On
<1>6. CASE ~TriggerRebuild(e) /\ ~((Open(e) \/ Write(e)) /\ req[e].path = Yaml)
  <2>1. site' = site
    <3>1. CASE Open(e) \/ Write(e)
      <4>1. Rewritten(req[e].path) /\ req[e].path # Yaml /\ site \in Sites
        BY <1>6, <3>1, TypeParts DEF Open, Write, AInv
      <4> QED
        BY <4>1 DEF Rewritten, Sites
    <3>2. CASE ~Open(e) /\ ~Write(e)
      BY <1>6, <3>2 DEF Handle, SafeSHA, Stat, Load, Copy, ReadBack, RemoveFile, Audit
    <3> QED
      BY <3>1, <3>2
  <2>2. fs'[Yaml] = fs[Yaml]
    <3>1. CASE req[e].path # Yaml
      BY <1>1, <1>3, <3>1 DEF Effect
    <3>2. CASE req[e].path = Yaml
      <4>1. req[e].op \in {"settings", "yaml", "build"}
        <5>1. req[e].op \in DOMAIN Steps /\ req[e].path \notin Files \union Media
          BY <1>1, <1>3, <3>2 DEF Placed
        <5> QED
          BY <1>1, <5>1, StepsTable DEF PathsOf
      <4>2. ~Copy(e) /\ ~RemoveFile(e)
        BY <1>1, <4>1 DEF Copy, RemoveFile, Turns, Turn, At
      <4> QED
        BY <1>6, <3>2, <4>2 DEF Handle, SafeSHA, Stat, Load, ReadBack, Audit
    <3> QED
      BY <3>1, <3>2
  <2>3. ASSUME WillAsk(e) PROVE WillAsk(e)'
    <3>1. Audit(e)
      <4>1. ~At(e, "open") /\ req[e].path = Yaml
        BY <2>3 DEF WillAsk, On, At
      <4> QED
        BY <1>6, <2>3, <4>1 DEF Handle, WillAsk, At, SafeSHA, Stat, Load, Open, Write, Copy, ReadBack,
                                RemoveFile, TriggerRebuild
    <3>2. At(e, "audit") /\ req[e].path = Yaml /\ req[e].op \in {"settings", "yaml"}
      BY <1>1, <1>3, <2>3, <3>1 DEF Audit, WillAsk, On, PathsOf, Turns, Turn, At
    <3>3. Step(e) /\ RequestsOK
      BY <3>1, TypeParts DEF Audit, AInv
    <3>4. NextIs(e, req[e])
      BY <1>1, <3>3, Steppings
    <3>5. Placed(req[e])
      BY <1>1, <3>3 DEF RequestsOK
    <3> QED
      BY <3>2, <3>4, <3>5, LastButOne DEF WillAsk, On, At, Busy
  <2> QED
    BY <1>2, <2>1, <2>2, <2>3
<1> QED
  BY <1>4, <1>5, <1>6

LEMMA QueuedStep == ASSUME AInv, Queued, [Next]_vars PROVE Queued'
<1>1. site \in Sites /\ site' \in Sites
  BY SiteStep, TypeParts DEF AInv
<1>2. ASSUME NEW e \in Editors, Handle(e) PROVE Queued'
  <2>1. CASE site' = [site EXCEPT !.asked = FALSE] /\ (~site.daemon => WillAsk(e)')
    BY <1>1, <2>1 DEF Queued, Sites
  <2>2. CASE At(e, "rebuild") /\ site' = Enqueue(IF site.daemon THEN "changes" ELSE "full") /\ fs' = fs
    BY <1>1, <2>2 DEF Queued, Enqueue, Sites
  <2>3. CASE /\ site' = site /\ fs'[Yaml] = fs[Yaml] /\ (WillAsk(e) => WillAsk(e)')
             /\ \A f \in Editors \ {e} : WillAsk(f) => WillAsk(f)'
    BY <1>1, <2>3 DEF Queued
  <2> QED
    BY <1>2, <2>1, <2>2, <2>3, YamlStep
<1>3. ASSUME NEW e \in Editors, ServeHTTP(e) PROVE Queued'
  <2>1. fs' = fs /\ site' = site
    BY <1>3 DEF ServeHTTP
  <2>2. \A f \in Editors : WillAsk(f) => WillAsk(f)'
    <3>1. \A f \in Editors \ {e} : req'[f] = req[f]
      BY <1>3, Serves DEF AInv
    <3>2. ~Busy(e)
      BY <1>3 DEF ServeHTTP
    <3> QED
      BY <3>1, <3>2, Same DEF WillAsk, On
  <2> QED
    BY <2>1, <2>2 DEF Queued
<1>4. ASSUME FullBuildAsked PROVE Queued'
  BY <1>1, <1>4 DEF FullBuildAsked, Queued, Enqueue, Sites, WillAsk, On, At, Busy
<1>5. ASSUME Build PROVE Queued'
  <2>1. fs' = fs /\ req' = req
    BY <1>5 DEF Build, LoadConfig, BuildDone, BuildFails, Release
  <2>2. \A f \in Editors : WillAsk(f) <=> WillAsk(f)'
    BY <2>1, Same DEF WillAsk
  <2>3. site' = [site EXCEPT !.loaded = fs[Yaml].doc] /\ site.job = "full" /\ site.loaded = NotBuilding
        => Queued'
    BY <1>1, <2>1, <2>2 DEF Queued, Sites
  <2>4. site' = Failed(site) /\ site.job = "full" => Queued'
    BY <1>1, <2>1, <2>2 DEF Queued, Sites, Failed, Released
  <2>5. BuildDone => Queued'
    BY <1>1, <2>1, <2>2 DEF BuildDone, Building, Queued, Sites, Released
  <2>6. Release => Queued'
    BY <1>1, <2>1, <2>2 DEF Release, Queued, Sites
  <2> QED
    BY <1>5, <2>3, <2>4, <2>5, <2>6 DEF Build, LoadConfig, BuildFails, Building
<1>6. ASSUME UNCHANGED vars PROVE Queued'
  BY <1>6 DEF vars, Queued, WillAsk, On, At, Busy
<1> QED
  BY <1>2, <1>3, <1>4, <1>5, <1>6 DEF Next

(* What is saved in huan.yaml reaches the site, however many editors write *)
(* it and whatever builds fail: no full build asked for after a write is   *)
(* forgotten, and in huan dev every write is followed by one.              *)
THEOREM SettingsAlwaysReach == Spec => []SettingsReachTheSite
<1>1. AInv /\ Queued => SettingsReachTheSite
  <2> SUFFICES ASSUME Queued, AtRest, site.job = "none", site.daemon => site.asked
               PROVE  site.built = fs[Yaml].doc \/ site.failed
    BY DEF SettingsReachTheSite
  <2>1. \A e \in Editors : ~WillAsk(e)
    BY DEF AtRest, WillAsk, On
  <2>2. site.asked
    BY <2>1 DEF Queued
  <2> QED
    BY <2>2 DEF Queued
<1>2. Queued /\ AInv /\ [Next]_vars => Queued'
  BY QueuedStep
<1> QED
  BY <1>1, <1>2, QueuedInit, AInvAlways, PTL DEF Spec

-----------------------------------------------------------------------------
(* Induction, over numbers and over subsets, by a least counterexample: the *)
(* library's induction has operators as parameters.                         *)

LEMMA Least ==
  ASSUME NEW S, S \subseteq Nat, S # {}
  PROVE  \E n \in S : \A m \in S : n <= m
<1> DEFINE R == OpToRel(<, Nat)
<1>1. IsWellFoundedOn(R, Nat)
  BY NatLessThanWellFounded
<1>2. \A m, n \in Nat : m < n => <<m, n>> \in R
  BY DEF OpToRel
<1> HIDE DEF R
<1>3. \E n \in S : \A m \in S : ~ (<<m, n>> \in R)
  BY <1>1, WFMin
<1>4. \A m, n \in Nat : ~(m < n) => n <= m
  OBVIOUS
<1> QED
  BY <1>2, <1>3, <1>4

(* What holds of 0 and goes from each number to the next holds up to N.    *)
LEMMA Induction ==
  ASSUME NEW N \in Nat, NEW T, 0 \in T, \A m \in 1..N : m - 1 \in T => m \in T
  PROVE  \A n \in 0..N : n \in T
<1> DEFINE Bad == (0..N) \ T
<1>1. ASSUME Bad # {} PROVE FALSE
  <2>1. Bad \subseteq Nat
    OBVIOUS
  <2>2. PICK m \in Bad : \A n \in Bad : m <= n
    <3> HIDE DEF Bad
    <3> QED
      BY <1>1, <2>1, Least
  <2>3. m \in 1..N /\ m - 1 \in 0..N /\ ~(m <= m - 1)
    OBVIOUS
  <2>4. m - 1 \in T
    BY <2>2, <2>3
  <2> QED
    BY <2>3, <2>4
<1> QED
  BY <1>1

Smaller(s, t) == Cardinality(s) < Cardinality(t)

(* What holds of a subset whenever it holds of all smaller ones holds of   *)
(* all of them.                                                            *)
LEMMA SubsetInduction ==
  ASSUME NEW S, IsFiniteSet(S), NEW T,
         \A s \in SUBSET S : (\A t \in SUBSET S : Smaller(t, s) => t \in T) => s \in T
  PROVE  \A s \in SUBSET S : s \in T
<1> DEFINE Bad == {Cardinality(s) : s \in (SUBSET S) \ T}
<1>1. \A s \in SUBSET S : Cardinality(s) \in Nat
  BY FS_Subset, FS_CardinalityType
<1>2. ASSUME Bad # {} PROVE FALSE
  <2>1. Bad \subseteq Nat
    BY <1>1
  <2>2. PICK n \in Bad : \A m \in Bad : n <= m
    <3> HIDE DEF Bad
    <3> QED
      BY <1>2, <2>1, Least
  <2>3. PICK s \in (SUBSET S) \ T : n = Cardinality(s)
    BY <2>2
  <2>4. ASSUME NEW t \in SUBSET S, Smaller(t, s) PROVE t \in T
    <3>1. CASE t \notin T
      <4>1. Cardinality(s) <= Cardinality(t)
        BY <2>2, <2>3, <3>1
      <4> QED
        BY <1>1, <2>4, <4>1 DEF Smaller
    <3> QED
      BY <3>1
  <2> QED
    BY <2>3, <2>4
<1> QED
  BY <1>2

Pick(s) == CHOOSE x \in s : TRUE

(***************************************************************************)
(* The tree and the counts the panel shows, in every state of the files.   *)
(***************************************************************************)
Top(d, n) == SubSeq(d, 1, n)
Within(items, d) == {p \in items : IsPrefix(d, p.dir)}

\* The part of a path that leads n levels deep.
LEMMA Tops ==
  ASSUME NEW d \in Seq(STRING), NEW n \in 0..Len(d)
  PROVE  /\ Top(d, n) \in Seq(STRING) /\ Len(Top(d, n)) = n
         /\ \A m \in 0..n : Top(Top(d, n), m) = Top(d, m)
         /\ \A i \in 1..n : Top(d, n)[i] = d[i]
         /\ n = Len(d) => Top(d, n) = d
         /\ n > 0 => Parent(Top(d, n)) = Top(d, n - 1)
<1>1. Top(d, n) \in Seq(STRING) /\ Len(Top(d, n)) = n
  BY DEF Top
<1>2. \A i \in 1..n : Top(d, n)[i] = d[i]
  BY DEF Top
<1>3. ASSUME NEW m \in 0..n PROVE Top(Top(d, n), m) = Top(d, m)
  <2>1. m \in 0..Len(d)
    OBVIOUS
  <2>2. Len(Top(Top(d, n), m)) = m /\ Len(Top(d, m)) = m
    BY <1>1, <2>1 DEF Top
  <2>3. ASSUME NEW i \in 1..m PROVE Top(Top(d, n), m)[i] = Top(d, m)[i]
    <3>1. i \in 1..n
      BY <2>3
    <3>2. Top(Top(d, n), m)[i] = Top(d, n)[i] /\ Top(d, m)[i] = d[i]
      BY <1>1, <2>1 DEF Top
    <3> QED
      BY <1>2, <3>1, <3>2
  <2>4. Top(Top(d, n), m) \in Seq(STRING) /\ Top(d, m) \in Seq(STRING)
    BY <1>1, <2>1 DEF Top
  <2> HIDE DEF Top
  <2> QED
    BY <2>2, <2>3, <2>4
<1>4. n = Len(d) => Top(d, n) = d
  <2>1. Top(d, n) \in Seq(STRING) /\ Len(Top(d, n)) = n /\ \A i \in 1..n : Top(d, n)[i] = d[i]
    BY <1>1, <1>2
  <2> QED
    BY <2>1
<1>5. ASSUME n > 0 PROVE Parent(Top(d, n)) = Top(d, n - 1)
  <2>1. Top(d, n) # <<>> /\ n - 1 \in 0..n
    BY <1>1, <1>5
  <2>2. Parent(Top(d, n)) = Top(Top(d, n), n - 1)
    BY <1>1, <2>1 DEF Parent, Front, Top
  <2> QED
    BY <1>3, <2>1, <2>2
<1> QED
  BY <1>1, <1>2, <1>3, <1>4, <1>5

\* What is under a folder, in terms of the part of a path above it.
LEMMA PrefixIs ==
  ASSUME NEW d \in Seq(STRING), NEW e \in Seq(STRING)
  PROVE  IsPrefix(d, e) <=> (Len(d) <= Len(e) /\ Top(e, Len(d)) = d)
<1>1. Top(d, Len(d)) = d
  <2>1. Len(d) \in 0..Len(d)
    OBVIOUS
  <2> QED
    BY <2>1, Tops
<1>2. IsPrefix(d, e) <=> (Len(d) <= Len(e) /\ Top(d, Len(d)) = Top(e, Len(d)))
  BY DEF IsPrefix, Top
<1> QED
  BY <1>1, <1>2

\* Folders of finitely many files.
LEMMA FoldersFinite ==
  ASSUME NEW items, IsFiniteSet(items), \A p \in items : p.dir \in Seq(STRING)
  PROVE  IsFiniteSet(Folders(items))
<1> DEFINE Of(p) == {Top(p.dir, n) : n \in 1..Len(p.dir)}
           All == {Of(p) : p \in items}
<1>1. ASSUME NEW p \in items PROVE IsFiniteSet(Of(p))
  <2> DEFINE f == [n \in 1..Len(p.dir) |-> Top(p.dir, n)]
  <2>1. f \in Surjection(1..Len(p.dir), Of(p))
    BY DEF Surjection
  <2>2. IsFiniteSet(1..Len(p.dir))
    <3>1. Len(p.dir) \in Nat
      BY <1>1
    <3> QED
      BY <3>1, FS_Interval
  <2> HIDE DEF f, Of
  <2> QED
    BY <2>1, <2>2, FS_Surjection
<1>2. IsFiniteSet(All)
  <2> DEFINE g == [p \in items |-> Of(p)]
  <2>1. g \in Surjection(items, All)
    BY DEF Surjection
  <2> QED
    BY <2>1, FS_Surjection
<1>3. IsFiniteSet(UNION All)
  <2>1. \A s \in All : IsFiniteSet(s)
    BY <1>1
  <2> HIDE DEF All
  <2> QED
    BY <1>2, <2>1, FS_UNION
<1> QED
  BY <1>3 DEF Folders, Top

\* An order takes each folder once.
LEMMA OrdersVisitAll ==
  ASSUME NEW dirs, IsFiniteSet(dirs), NEW order \in Orders(dirs)
  PROVE  \A d \in dirs : \E i \in DOMAIN order : order[i] = d
<1> DEFINE N == Cardinality(dirs)
<1>1. N \in Nat /\ IsFiniteSet(1..N) /\ Cardinality(1..N) = N
  BY FS_CardinalityType, FS_Interval
<1>2. order \in [1..N -> dirs]
  BY DEF Orders
<1>3. \A i, j \in 1..N : i < j => order[i] # order[j]
  BY DEF Orders
<1>4. order \in Injection(1..N, dirs)
  <2>1. \A i, j \in 1..N : i # j => i < j \/ j < i
    BY <1>1
  <2> HIDE DEF N
  <2> QED
    BY <1>2, <1>3, <2>1 DEF Injection, IsInjective
<1>5. order \in Surjection(1..N, dirs)
  <2> HIDE DEF N
  <2>1. N = Cardinality(dirs)
    BY DEF N
  <2> QED
    BY <1>1, <1>4, <2>1, FS_Injection
<1> QED
  BY <1>2, <1>5 DEF Surjection

-----------------------------------------------------------------------------
\* The count of a folder once the folders visited are these: the files in it,
\* if it is one of them, and those under the next level that are.
Seen(p, d, visited) == IF p.dir = d THEN d \in visited ELSE Top(p.dir, Len(d) + 1) \in visited
Counted(items, d, visited) == {p \in Within(items, d) : Seen(p, d, visited)}
FilesOf(items, d) == {p \in items : p.dir = d}

LEMMA CountedFinite ==
  ASSUME NEW items, IsFiniteSet(items), NEW d, NEW visited
  PROVE  /\ IsFiniteSet(Counted(items, d, visited)) /\ IsFiniteSet(FilesOf(items, d))
         /\ IsFiniteSet(Within(items, d))
         /\ Cardinality(Counted(items, d, visited)) \in Nat
         /\ Cardinality(FilesOf(items, d)) \in Nat /\ Cardinality(Within(items, d)) \in Nat
<1>1. /\ Counted(items, d, visited) \in SUBSET items /\ FilesOf(items, d) \in SUBSET items
      /\ Within(items, d) \in SUBSET items
  BY DEF Counted, Within, FilesOf
<1> QED
  BY <1>1, FS_Subset, FS_CardinalityType

LEMMA Disjoint ==
  ASSUME NEW S, NEW T, IsFiniteSet(S), IsFiniteSet(T), S \intersect T = {}
  PROVE  Cardinality(S \union T) = Cardinality(S) + Cardinality(T)
<1>1. Cardinality(S \union T) = Cardinality(S) + Cardinality(T) - Cardinality(S \intersect T)
  BY FS_Union
<1>2. Cardinality(S) \in Nat /\ Cardinality(T) \in Nat /\ Cardinality(S \intersect T) = 0
  BY FS_CardinalityType, FS_EmptySet
<1> QED
  BY <1>1, <1>2

Listed(items) == IsFiniteSet(items) /\ \A p \in items : p.dir \in Seq(STRING)

\* What the folders are.
LEMMA FolderIs ==
  ASSUME NEW items, Listed(items)
  PROVE  /\ \A d \in Folders(items) : d \in Seq(STRING) /\ Len(d) \in Nat \ {0} /\ d # <<>>
         /\ \A p \in items : \A n \in 1..Len(p.dir) : Top(p.dir, n) \in Folders(items)
         /\ \A d \in Folders(items) : \E p \in items : \E n \in 1..Len(p.dir) : d = Top(p.dir, n)
<1>1. ASSUME NEW p \in items, NEW n \in 1..Len(p.dir)
      PROVE  Top(p.dir, n) \in Seq(STRING) /\ Len(Top(p.dir, n)) = n /\ n \in Nat \ {0}
  BY Tops DEF Listed
<1>2. \A d \in Folders(items) : \E p \in items : \E n \in 1..Len(p.dir) : d = Top(p.dir, n)
  BY DEF Folders, Top
<1>3. \A p \in items : \A n \in 1..Len(p.dir) : Top(p.dir, n) \in Folders(items)
  BY DEF Folders, Top
<1>4. ASSUME NEW d \in Folders(items)
      PROVE  d \in Seq(STRING) /\ Len(d) \in Nat \ {0} /\ d # <<>>
  <2>1. d \in Seq(STRING) /\ Len(d) \in Nat \ {0}
    BY <1>1, <1>2
  <2> QED
    BY <2>1
<1> QED
  BY <1>2, <1>3, <1>4

CountsOnce(items, visited) ==
  [d \in Folders(items) \cup {<<>>} |-> Cardinality(Counted(items, d, visited))]
\* A folder is visited after those in it.
Ready(items, v, visited) ==
  /\ v \in Folders(items) /\ visited \subseteq Folders(items) /\ v \notin visited
  /\ \A w \in Folders(items) : DeeperFirst(w, v) => w \in visited

\* The step of the recursion.
LEMMA VisitCounts ==
  ASSUME NEW items, Listed(items), NEW v, NEW visited, Ready(items, v, visited)
  PROVE  Visit(items, v, CountsOnce(items, visited)) = CountsOnce(items, visited \union {v})
<1> DEFINE D == Folders(items) \cup {<<>>}
           q == Parent(v)
           C(d) == Counted(items, d, visited)
           E(d) == Counted(items, d, visited \union {v})
           count == CountsOnce(items, visited)
<1>0. /\ v \in Folders(items) /\ visited \subseteq Folders(items) /\ v \notin visited
      /\ \A w \in Folders(items) : DeeperFirst(w, v) => w \in visited
  BY DEF Ready
<1>1. v \in Seq(STRING) /\ Len(v) \in Nat \ {0} /\ v # <<>> /\ v \in D
  BY <1>0, FolderIs
<1>2. /\ q = Top(v, Len(v) - 1) /\ q \in Seq(STRING) /\ Len(q) = Len(v) - 1 /\ q # v
  <2>1. Len(v) - 1 \in 0..Len(v) /\ Len(v) \in 0..Len(v)
    BY <1>1
  <2>2. Top(v, Len(v)) = v /\ Parent(Top(v, Len(v))) = Top(v, Len(v) - 1)
    BY <1>1, <2>1, Tops
  <2>3. Top(v, Len(v) - 1) \in Seq(STRING) /\ Len(Top(v, Len(v) - 1)) = Len(v) - 1
    BY <1>1, <2>1, Tops
  <2> QED
    BY <1>1, <2>2, <2>3
<1>3. q \in D
  <2>1. CASE Len(v) = 1
    BY <1>1, <1>2, <2>1
  <2>2. CASE Len(v) # 1
    <3>1. PICK p \in items : \E n \in 1..Len(p.dir) : v = Top(p.dir, n)
      BY <1>0, FolderIs
    <3>2. PICK n \in 1..Len(p.dir) : v = Top(p.dir, n)
      BY <3>1
    <3>3. p.dir \in Seq(STRING) /\ n \in 0..Len(p.dir) /\ n > 0
      BY DEF Listed
    <3>4. Len(v) = n /\ q = Top(p.dir, n - 1)
      BY <3>2, <3>3, Tops
    <3>5. n - 1 \in 1..Len(p.dir)
      BY <2>2, <3>4
    <3> QED
      BY <3>4, <3>5, FolderIs
  <2> QED
    BY <2>1, <2>2
<1>4. ASSUME NEW p \in items
      PROVE  /\ p.dir \in Seq(STRING) /\ Len(p.dir) \in Nat
             /\ \A d \in D : IsPrefix(d, p.dir) <=> (Len(d) <= Len(p.dir) /\ Top(p.dir, Len(d)) = d)
             /\ \A d \in D : d \in Seq(STRING) /\ Len(d) \in Nat
             /\ Top(p.dir, Len(p.dir)) = p.dir
  <2>1. p.dir \in Seq(STRING)
    BY DEF Listed
  <2>2. \A d \in D : d \in Seq(STRING) /\ Len(d) \in Nat
    <3>1. <<>> \in Seq(STRING)
      OBVIOUS
    <3>2. \A d \in D : d \in Seq(STRING)
      BY <3>1, FolderIs
    <3> QED
      BY <3>2
  <2>3. Len(p.dir) \in Nat /\ Len(p.dir) \in 0..Len(p.dir)
    BY <2>1
  <2>4. \A d \in D : IsPrefix(d, p.dir) <=> (Len(d) <= Len(p.dir) /\ Top(p.dir, Len(d)) = d)
    BY <2>1, <2>2, PrefixIs
  <2> QED
    BY <2>1, <2>2, <2>3, <2>4, Tops
<1>5. E(v) = C(v) \union FilesOf(items, v) /\ C(v) \intersect FilesOf(items, v) = {}
  <2>1. ASSUME NEW p \in items PROVE p \in E(v) <=> p \in C(v) \/ p \in FilesOf(items, v)
    <3>1. CASE p.dir = v
      BY <1>1, <1>4, <3>1 DEF Counted, Within, Seen, FilesOf
    <3>2. CASE p.dir # v
      <4>1. IsPrefix(v, p.dir) => Len(Top(p.dir, Len(v) + 1)) = Len(v) + 1
        <5>1. IsPrefix(v, p.dir) => Len(v) + 1 \in 0..Len(p.dir)
          BY <1>1, <1>4, <3>2
        <5> QED
          BY <1>4, <5>1, Tops
      <4>2. IsPrefix(v, p.dir) => Top(p.dir, Len(v) + 1) # v
        BY <1>1, <4>1
      <4> QED
        BY <3>2, <4>2 DEF Counted, Within, Seen, FilesOf
    <3> QED
      BY <3>1, <3>2
  <2>2. E(v) \subseteq items /\ C(v) \subseteq items /\ FilesOf(items, v) \subseteq items
    BY DEF Counted, Within, FilesOf
  <2>3. C(v) \intersect FilesOf(items, v) = {}
    BY <1>0 DEF Counted, Within, Seen, FilesOf
  <2> HIDE DEF E, C
  <2> QED
    BY <2>1, <2>2, <2>3
<1>6. Within(items, v) = E(v)
  <2>1. ASSUME NEW p \in items, IsPrefix(v, p.dir) PROVE Seen(p, v, visited \union {v})
    <3>1. CASE p.dir = v
      BY <3>1 DEF Seen
    <3>2. CASE p.dir # v
      <4> DEFINE w == Top(p.dir, Len(v) + 1)
      <4>1. Len(v) + 1 \in 1..Len(p.dir) /\ Len(v) + 1 \in 0..Len(p.dir) /\ Len(v) \in 0..(Len(v) + 1)
        BY <1>1, <1>4, <2>1, <3>2
      <4>2. Len(w) = Len(v) + 1 /\ Top(w, Len(v)) = Top(p.dir, Len(v))
        BY <1>4, <4>1, Tops
      <4>3. w \in Folders(items)
        BY <4>1, FolderIs
      <4>4. Top(p.dir, Len(v)) = v
        BY <1>1, <1>4, <2>1
      <4>5. DeeperFirst(w, v)
        BY <1>1, <4>2, <4>4 DEF DeeperFirst, Top
      <4> QED
        BY <1>0, <3>2, <4>3, <4>5 DEF Seen
    <3> QED
      BY <3>1, <3>2
  <2> QED
    BY <2>1 DEF Within, Counted
<1>7. E(q) = C(q) \union Within(items, v) /\ C(q) \intersect Within(items, v) = {}
  <2>1. ASSUME NEW p \in items
        PROVE  /\ p \in E(q) <=> p \in C(q) \/ p \in Within(items, v)
               /\ ~(p \in C(q) /\ p \in Within(items, v))
    <3>1. CASE p.dir = q
      <4>1. ~IsPrefix(v, p.dir)
        BY <1>1, <1>2, <1>4, <3>1
      <4> QED
        BY <1>2, <3>1, <4>1 DEF Counted, Within, Seen
    <3>2. CASE p.dir # q
      <4>1. Seen(p, q, visited) <=> Top(p.dir, Len(v)) \in visited
        BY <1>1, <1>2, <3>2 DEF Seen
      <4>2. Seen(p, q, visited \union {v}) <=> Top(p.dir, Len(v)) \in visited \/ Top(p.dir, Len(v)) = v
        BY <1>1, <1>2, <3>2 DEF Seen
      <4>3. IsPrefix(v, p.dir) => IsPrefix(q, p.dir) /\ Top(p.dir, Len(v)) = v
        <5>1. SUFFICES ASSUME IsPrefix(v, p.dir) PROVE IsPrefix(q, p.dir) /\ Top(p.dir, Len(v)) = v
          OBVIOUS
        <5>2. Len(v) <= Len(p.dir) /\ Top(p.dir, Len(v)) = v
          BY <1>1, <1>4, <5>1
        <5>3. Len(v) \in 0..Len(p.dir) /\ Len(v) - 1 \in 0..Len(v)
          BY <1>1, <1>4, <5>2
        <5>4. Top(v, Len(v) - 1) = Top(p.dir, Len(v) - 1)
          BY <1>4, <5>2, <5>3, Tops
        <5>5. Len(q) <= Len(p.dir) /\ Top(p.dir, Len(q)) = q
          BY <1>1, <1>2, <1>4, <5>2, <5>4
        <5> QED
          BY <1>3, <1>4, <5>2, <5>5
      <4>4. IsPrefix(q, p.dir) /\ Top(p.dir, Len(v)) = v => IsPrefix(v, p.dir)
        <5>1. IsPrefix(q, p.dir) => Len(v) <= Len(p.dir)
          <6>1. SUFFICES ASSUME IsPrefix(q, p.dir) PROVE Len(v) <= Len(p.dir)
            OBVIOUS
          <6>2. Len(q) <= Len(p.dir) /\ Top(p.dir, Len(q)) = q
            BY <1>3, <1>4, <6>1
          <6>3. Len(q) # Len(p.dir)
            BY <1>4, <3>2, <6>2
          <6> QED
            BY <1>1, <1>2, <1>4, <6>2, <6>3
        <5> QED
          BY <1>1, <1>4, <5>1
      <4> HIDE DEF q
      <4>5. p \in E(q) <=> IsPrefix(q, p.dir) /\ Seen(p, q, visited \union {v})
        BY DEF Counted, Within
      <4>6. p \in C(q) <=> IsPrefix(q, p.dir) /\ Seen(p, q, visited)
        BY DEF Counted, Within
      <4>7. p \in Within(items, v) <=> IsPrefix(v, p.dir)
        BY DEF Within
      <4> HIDE DEF E, C
      <4> QED
        BY <1>0, <4>1, <4>2, <4>3, <4>4, <4>5, <4>6, <4>7
    <3> QED
      BY <3>1, <3>2
  <2>2. E(q) \subseteq items /\ C(q) \subseteq items /\ Within(items, v) \subseteq items
    BY DEF Counted, Within
  <2> HIDE DEF E, C, q
  <2> QED
    BY <2>1, <2>2
<1>8. ASSUME NEW d \in D, d # v, d # q PROVE E(d) = C(d)
  <2>1. ASSUME NEW p \in items, IsPrefix(d, p.dir)
        PROVE  Seen(p, d, visited \union {v}) <=> Seen(p, d, visited)
    <3>1. CASE p.dir = d
      BY <1>8, <3>1 DEF Seen
    <3>2. CASE p.dir # d
      <4>1. Top(p.dir, Len(d) + 1) # v
        <5>1. SUFFICES ASSUME Top(p.dir, Len(d) + 1) = v PROVE FALSE
          OBVIOUS
        <5>2. Len(d) <= Len(p.dir) /\ Top(p.dir, Len(d)) = d /\ d \in Seq(STRING) /\ Len(d) \in Nat
          BY <1>4, <2>1
        <5>3. Len(d) + 1 \in 0..Len(p.dir) /\ Len(d) + 1 > 0
          BY <1>4, <3>2, <5>2
        <5>4. Parent(v) = Top(p.dir, (Len(d) + 1) - 1)
          BY <1>4, <5>1, <5>3, Tops
        <5>5. (Len(d) + 1) - 1 = Len(d)
          BY <5>2
        <5> QED
          BY <1>8, <5>2, <5>4, <5>5
      <4> QED
        BY <3>2, <4>1 DEF Seen
    <3> QED
      BY <3>1, <3>2
  <2> QED
    BY <2>1 DEF Counted, Within
<1>9. /\ Cardinality(E(v)) = Cardinality(C(v)) + Cardinality(FilesOf(items, v))
      /\ Cardinality(E(q)) = Cardinality(C(q)) + Cardinality(E(v))
      /\ Cardinality(C(v)) \in Nat /\ Cardinality(C(q)) \in Nat /\ Cardinality(FilesOf(items, v)) \in Nat
  <2>1. IsFiniteSet(items)
    BY DEF Listed
  <2>2. \A d : IsFiniteSet(C(d)) /\ IsFiniteSet(E(d)) /\ Cardinality(C(d)) \in Nat
    BY <2>1, CountedFinite
  <2>3. IsFiniteSet(FilesOf(items, v)) /\ IsFiniteSet(Within(items, v)) /\ Cardinality(FilesOf(items, v)) \in Nat
    BY <2>1, CountedFinite
  <2> HIDE DEF E, C, q
  <2>4. Cardinality(E(v)) = Cardinality(C(v)) + Cardinality(FilesOf(items, v))
    BY <1>5, <2>2, <2>3, Disjoint
  <2>5. Cardinality(E(q)) = Cardinality(C(q)) + Cardinality(E(v))
    BY <1>6, <1>7, <2>2, <2>3, Disjoint
  <2> QED
    BY <2>2, <2>3, <2>4, <2>5
<1>10. Direct(items, v) = Cardinality(FilesOf(items, v))
  BY DEF Direct, FilesOf
<1>11. count = [d \in D |-> Cardinality(C(d))]
  BY DEF CountsOnce
<1> HIDE DEF D, E, C, q, count
<1>12. Visit(items, v, count) = [count EXCEPT ![q] = @ + count[v] + Direct(items, v), ![v] = @ + Direct(items, v)]
  BY DEF Visit, q
<1> DEFINE W == Visit(items, v, count)
<1>13. W = [d \in D |-> W[d]]
  BY <1>11, <1>12
<1>14. count[v] = Cardinality(C(v)) /\ count[q] = Cardinality(C(q))
  BY <1>1, <1>3, <1>11
<1>15. W[v] = Cardinality(E(v)) /\ W[q] = Cardinality(E(q))
  <2>1. W[v] = count[v] + Direct(items, v)
    BY <1>1, <1>2, <1>3, <1>11, <1>12
  <2>2. W[q] = count[q] + count[v] + Direct(items, v)
    BY <1>1, <1>2, <1>3, <1>11, <1>12
  <2> HIDE DEF W
  <2> QED
    BY <1>9, <1>10, <1>14, <2>1, <2>2
<1>16. \A d \in D : d # v /\ d # q => W[d] = Cardinality(E(d))
  BY <1>8, <1>11, <1>12
<1>17. W = [d \in D |-> Cardinality(E(d))]
  <2> HIDE DEF W
  <2> QED
    BY <1>13, <1>15, <1>16
<1> QED
  BY <1>17 DEF CountsOnce, count, D, E

LEMMA BuildTreeCounts ==
  ASSUME NEW items, Listed(items), NEW order \in Orders(Folders(items))
  PROVE  BuildTree(items, order) = [d \in Folders(items) |-> Cardinality(Within(items, d))]
<1> DEFINE F == Folders(items)
           N == Cardinality(F)
           Visited(n) == {order[i] : i \in 1..n}
           Counts(n) == CountsOnce(items, Visited(n))
           Goes(f) == f = [n \in 0..Len(order) |->
                             IF n = 0 THEN [d \in F \cup {<<>>} |-> 0] ELSE Visit(items, order[n], f[n - 1])]
           W == [n \in 0..N |-> Counts(n)]
           count == CHOOSE f : Goes(f)
<1>1. IsFiniteSet(F) /\ N \in Nat
  BY FoldersFinite, FS_CardinalityType DEF Listed
<1>2. order \in [1..N -> F] /\ DOMAIN order = 1..N /\ Len(order) = N
  BY <1>1 DEF Orders
<1>3. \A i, j \in 1..N : i < j => order[i] # order[j] /\ ~DeeperFirst(order[j], order[i])
  BY <1>2 DEF Orders
<1>4. Counts(0) = [d \in F \cup {<<>>} |-> 0]
  <2>1. ASSUME NEW d \in F \cup {<<>>} PROVE Cardinality(Counted(items, d, Visited(0))) = 0
    <3>1. Counted(items, d, Visited(0)) = {}
      BY DEF Counted, Seen
    <3> QED
      BY <3>1, FS_EmptySet
  <2> QED
    BY <2>1 DEF CountsOnce
<1>5. ASSUME NEW n \in 1..N PROVE Counts(n) = Visit(items, order[n], Counts(n - 1))
  <2>1. n - 1 \in 0..N /\ order[n] \in F /\ \A i \in 1..(n-1) : i \in 1..N /\ i < n
    BY <1>1, <1>2
  <2>2. Visited(n - 1) \subseteq F /\ order[n] \notin Visited(n - 1)
    BY <1>2, <1>3, <2>1
  <2>3. Visited(n) = Visited(n - 1) \union {order[n]}
    <3>1. 1..n = 1..(n - 1) \union {n}
      BY <1>1
    <3> QED
      BY <3>1
  <2>4. ASSUME NEW w \in F, DeeperFirst(w, order[n]) PROVE w \in Visited(n - 1)
    <3>1. PICK i \in 1..N : order[i] = w
      BY <1>1, <1>2, OrdersVisitAll
    <3>2. i # n
      <4>1. Len(order[n]) \in Nat
        BY <2>1, FolderIs
      <4> QED
        BY <2>4, <3>1, <4>1 DEF DeeperFirst
    <3>3. ~(n < i)
      BY <1>3, <2>4, <3>1
    <3>4. i \in 1..(n - 1)
      BY <1>1, <3>2, <3>3
    <3> QED
      BY <3>1, <3>4
  <2>5. Ready(items, order[n], Visited(n - 1))
    BY <2>1, <2>2, <2>4 DEF Ready
  <2> HIDE DEF Visited, F
  <2> QED
    BY <2>3, <2>5, VisitCounts
<1> HIDE DEF Counts, F, N
<1>6. Goes(W)
  <2>1. ASSUME NEW n \in 0..N
        PROVE  Counts(n) = IF n = 0 THEN [d \in F \cup {<<>>} |-> 0] ELSE Visit(items, order[n], W[n - 1])
    <3>1. CASE n = 0
      BY <1>4, <3>1
    <3>2. CASE n # 0
      <4>1. n \in 1..N /\ n - 1 \in 0..N
        BY <1>1, <3>2
      <4> QED
        BY <1>5, <3>2, <4>1
    <3> QED
      BY <3>1, <3>2
  <2> QED
    BY <1>2, <2>1
<1>7. Goes(count)
  <2> HIDE DEF Goes
  <2> QED
    BY <1>6
<1> HIDE DEF count
<1>8. \A n \in 0..N : count[n] = Counts(n)
  <2> DEFINE T == {n \in 0..N : count[n] = Counts(n)}
  <2>1. 0 \in T
    BY <1>1, <1>2, <1>4, <1>7
  <2>2. ASSUME NEW n \in 1..N, n - 1 \in T PROVE n \in T
    <3>1. n \in 0..N /\ n # 0
      BY <1>1
    <3>2. count[n] = Visit(items, order[n], count[n - 1])
      BY <1>2, <1>7, <3>1
    <3> QED
      BY <1>5, <2>2, <3>1, <3>2
  <2> HIDE DEF T
  <2>3. \A n \in 0..N : n \in T
    BY <1>1, <2>1, <2>2, Induction
  <2> QED
    BY <2>3 DEF T
<1>9. Accumulate(items, order) = count[Len(order)]
  BY DEF Accumulate, count, F
<1>10. \A d \in F : Accumulate(items, order)[d] = Cardinality(Counted(items, d, Visited(N)))
  <2>1. N \in 0..N
    BY <1>1
  <2>2. Accumulate(items, order) = Counts(N)
    BY <1>2, <1>8, <1>9, <2>1
  <2> HIDE DEF Visited
  <2> QED
    BY <2>2 DEF Counts, CountsOnce, F
<1>11. ASSUME NEW d \in F PROVE Counted(items, d, Visited(N)) = Within(items, d)
  <2>1. Visited(N) = F
    BY <1>1, <1>2, OrdersVisitAll DEF F
  <2>2. ASSUME NEW p \in items, IsPrefix(d, p.dir) PROVE Seen(p, d, F)
    <3>1. CASE p.dir = d
      BY <3>1 DEF Seen
    <3>2. CASE p.dir # d
      <4>1. p.dir \in Seq(STRING) /\ d \in Seq(STRING) /\ Len(d) \in Nat \ {0}
        BY FolderIs DEF F, Listed
      <4>2. Len(d) <= Len(p.dir) /\ Top(p.dir, Len(d)) = d
        BY <2>2, <4>1, PrefixIs
      <4>3. Len(d) # Len(p.dir)
        <5>1. Len(p.dir) \in 0..Len(p.dir)
          BY <4>1
        <5>2. Top(p.dir, Len(p.dir)) = p.dir
          BY <4>1, <5>1, Tops
        <5> QED
          BY <3>2, <4>2, <5>2
      <4>4. Len(d) + 1 \in 1..Len(p.dir)
        BY <4>1, <4>2, <4>3
      <4>5. Top(p.dir, Len(d) + 1) \in F
        BY <4>4, FolderIs DEF F
      <4> QED
        BY <3>2, <4>5 DEF Seen
    <3> QED
      BY <3>1, <3>2
  <2> HIDE DEF Visited
  <2> QED
    BY <2>1, <2>2 DEF Counted, Within
<1> HIDE DEF Visited
<1> QED
  BY <1>10, <1>11 DEF BuildTree, F

-----------------------------------------------------------------------------
\* Over the parts of a finite set, however they are added up, the sum is that
\* of the whole.
LEMMA BreakdownAddsUp ==
  ASSUME IsFiniteSet(Items)
  PROVE  SumFunction(Breakdown) = Cardinality(Items)
<1> DEFINE S == {DetectSection(p) : p \in Items}
           Of(s) == {p \in Items : DetectSection(p) \in s}
           Adds(k, s) == IF s = {} THEN 0 ELSE Breakdown[Pick(s)] + k[s \ {Pick(s)}]
           Goes(k) == k = [s \in SUBSET S |-> Adds(k, s)]
           W == [s \in SUBSET S |-> Cardinality(Of(s))]
           sum == CHOOSE k : Goes(k)
<1>1. IsFiniteSet(S)
  <2> DEFINE f == [p \in Items |-> DetectSection(p)]
  <2>1. f \in Surjection(Items, S)
    BY DEF Surjection
  <2> HIDE DEF f, S
  <2> QED
    BY <2>1, FS_Surjection
<1>2. \A s \in SUBSET S : s # {} => Pick(s) \in s
  BY DEF Pick
<1>3. ASSUME NEW s \in SUBSET S PROVE W[s] = Adds(W, s)
  <2>1. CASE s = {}
    <3>1. Of(s) = {}
      BY <2>1
    <3> QED
      BY <2>1, <3>1, FS_EmptySet
  <2>2. CASE s # {}
    <3> DEFINE x == Pick(s)
               A == {p \in Items : DetectSection(p) = x}
               B == Of(s \ {x})
    <3>1. x \in s
      BY <1>2, <2>2
    <3>2. Of(s) = A \union B /\ A \intersect B = {}
      BY <3>1
    <3>3. A \in SUBSET Items /\ B \in SUBSET Items
      OBVIOUS
    <3>4. Breakdown[x] = Cardinality(A)
      BY <3>1 DEF Breakdown
    <3>5. W[s \ {x}] = Cardinality(B) /\ W[s] = Cardinality(Of(s))
      OBVIOUS
    <3>6. Adds(W, s) = Breakdown[x] + W[s \ {x}]
      BY <2>2
    <3> HIDE DEF A, B, Of, W, Adds, x
    <3>7. IsFiniteSet(A) /\ IsFiniteSet(B)
      BY <3>3, FS_Subset
    <3>8. Cardinality(Of(s)) = Cardinality(A) + Cardinality(B)
      BY <3>2, <3>7, Disjoint
    <3> QED
      BY <3>4, <3>5, <3>6, <3>8
  <2> QED
    BY <2>1, <2>2
<1>4. Goes(W)
  <2>1. W = [s \in SUBSET S |-> W[s]]
    OBVIOUS
  <2> HIDE DEF W, Adds
  <2> QED
    BY <1>3, <2>1
<1>5. Goes(sum)
  <2> HIDE DEF Goes
  <2> QED
    BY <1>4
<1> HIDE DEF sum
<1>6. \A s \in SUBSET S : sum[s] = W[s]
  <2> DEFINE T == {s \in SUBSET S : sum[s] = W[s]}
  <2>1. ASSUME NEW s \in SUBSET S, \A t \in SUBSET S : Smaller(t, s) => t \in T
        PROVE  s \in T
    <3>1. sum[s] = Adds(sum, s)
      BY <1>5
    <3>2. CASE s = {}
      BY <1>3, <3>1, <3>2
    <3>3. CASE s # {}
      <4>1. Pick(s) \in s /\ s \ {Pick(s)} \in SUBSET S
        BY <1>2, <3>3
      <4>2. IsFiniteSet(s)
        BY <1>1, FS_Subset
      <4>3. Smaller(s \ {Pick(s)}, s)
        <5>1. Cardinality(s \ {Pick(s)}) = Cardinality(s) - 1 /\ Cardinality(s) \in Nat
          BY <4>1, <4>2, FS_RemoveElement, FS_CardinalityType
        <5> QED
          BY <5>1 DEF Smaller
      <4>4. sum[s \ {Pick(s)}] = W[s \ {Pick(s)}]
        BY <2>1, <4>1, <4>3
      <4> HIDE DEF W
      <4> QED
        BY <1>3, <3>1, <4>4
    <3> QED
      BY <3>2, <3>3
  <2> HIDE DEF T, S
  <2>2. \A s \in SUBSET S : s \in T
    BY <1>1, <2>1, SubsetInduction
  <2> QED
    BY <2>2 DEF T
<1>7. DOMAIN Breakdown = S
  BY DEF Breakdown
<1>8. SumFunction(Breakdown) = sum[S]
  BY <1>7 DEF SumFunction, SumFunctionOnSet, FoldFunctionOnSet, MapThenFoldSet, sum, Pick
<1>9. Of(S) = Items
  OBVIOUS
<1>10. W[S] = Cardinality(Items)
  BY <1>9
<1> HIDE DEF W, S
<1> QED
  BY <1>6, <1>8, <1>10

-----------------------------------------------------------------------------
LEMMA CountsHold == TreeCountsAll
<1>1. Items \in SUBSET Files /\ IsFiniteSet(Files)
  BY AdminAssumption DEF Items
<1>2. IsFiniteSet(Items)
  BY <1>1, FS_Subset
<1>3. Listed(Items)
  BY <1>1, <1>2, ListingAssumption DEF Listed
<1>4. ASSUME NEW order \in Orders(Folders(Items)), NEW d \in Folders(Items)
      PROVE  /\ BuildTree(Items, order)[d] = Cardinality(Within(Items, d))
             /\ Len(d) = 1 => Cardinality(Within(Items, d)) = Breakdown[d[1]]
  <2>1. BuildTree(Items, order)[d] = Cardinality(Within(Items, d))
    BY <1>3, BuildTreeCounts
  <2>2. ASSUME Len(d) = 1 PROVE Cardinality(Within(Items, d)) = Breakdown[d[1]]
    <3>1. d \in Seq(STRING) /\ d # <<>>
      BY <1>3, FolderIs
    <3>2. PICK q \in Items : \E n \in 1..Len(q.dir) : d = Top(q.dir, n)
      BY <1>3, FolderIs
    <3>3. PICK n \in 1..Len(q.dir) : d = Top(q.dir, n)
      BY <3>2
    <3>4. q.dir \in Seq(STRING) /\ (q.dir # <<>> => q.dir[1] # "_root")
      BY <1>1, ListingAssumption
    <3>5. n \in 0..Len(q.dir) /\ 1 \in 1..n /\ q.dir # <<>>
      BY <3>4
    <3>6. d[1] = q.dir[1]
      BY <3>3, <3>4, <3>5, Tops
    <3>7. d[1] = DetectSection(q) /\ d[1] # "_root"
      BY <3>4, <3>5, <3>6 DEF DetectSection
    <3>8. ASSUME NEW p \in Items PROVE IsPrefix(d, p.dir) <=> DetectSection(p) = d[1]
      <4>1. p.dir \in Seq(STRING) /\ Len(p.dir) \in Nat
        BY <1>1, ListingAssumption
      <4>2. IsPrefix(d, p.dir) <=> (1 <= Len(p.dir) /\ Top(p.dir, 1) = d)
        BY <2>2, <3>1, <4>1, PrefixIs
      <4>3. CASE p.dir = <<>>
        BY <3>7, <4>2, <4>3 DEF DetectSection
      <4>4. CASE p.dir # <<>>
        <5>1. 1 \in 0..Len(p.dir) /\ 1 \in 1..1 /\ 1 <= Len(p.dir)
          BY <4>1, <4>4
        <5>2. Top(p.dir, 1) \in Seq(STRING) /\ Len(Top(p.dir, 1)) = 1 /\ Top(p.dir, 1)[1] = p.dir[1]
          BY <4>1, <5>1, Tops
        <5>3. Top(p.dir, 1) = d <=> p.dir[1] = d[1]
          BY <2>2, <3>1, <5>2
        <5> QED
          BY <4>2, <4>4, <5>1, <5>3 DEF DetectSection
      <4> QED
        BY <4>3, <4>4
    <3>9. Within(Items, d) = {p \in Items : DetectSection(p) = d[1]}
      BY <3>8 DEF Within
    <3> QED
      BY <3>7, <3>9 DEF Breakdown
  <2> QED
    BY <2>1, <2>2
<1>5. SumFunction(Breakdown) = Cardinality(Items)
  BY <1>2, BreakdownAddsUp
<1>6. \A order \in Orders(Folders(Items)) : DOMAIN BuildTree(Items, order) = Folders(Items)
  BY DEF BuildTree
<1> QED
  BY <1>4, <1>5, <1>6 DEF TreeCountsAll, Within

(* Whatever the files at the time of a request, the folder tree shows for  *)
(* each folder all the files under it, in whichever order the map gives    *)
(* the folders that are not inside each other, and the sections of the     *)
(* status add up to the total (buildTree, getStatus).                      *)
THEOREM TreesCountAll == Spec => []TreeCountsAll
  BY CountsHold, PTL
=============================================================================
