-------------------------- MODULE SiteBuild_proofs --------------------------
(***************************************************************************)
(* What failing builds leave behind, for any sites, settings, contents and *)
(* edits; how a list is cut into pagers, for any list and size; that the   *)
(* sorted lists and the pages of the query index hold every page once;     *)
(* what a full build of any languages leaves: no draft, and every language;*)
(* and that the incremental builds of the daemon leave what a full build   *)
(* would write, and its query index the lists a full build would give.     *)
(***************************************************************************)
EXTENDS SiteBuild, FiniteSetTheorems, SequenceTheorems, WellFoundedInduction, TLAPS

(* The job of a build, by its four fields.                                   *)
JobOf(step, todo, files, affected) ==
    [step |-> step, todo |-> todo, files |-> files, affected |-> affected]

(* A build that has got past the start has content that parses; a site in   *)
(* one language is built in one round.                                      *)
StepsInv ==
    /\ job = JobOf(job.step, job.todo, job.files, job.affected)
    /\ last = [build |-> last.build, edits |-> last.edits, same |-> last.same, moved |-> last.moved]
    /\ job.step \in {"idle", "full", "images", "incremental"}
    /\ job.step # "idle" => Parses(job.files)
    /\ job.step = "full" /\ ~IsMultiLanguage(conf) => job.todo = <<"">>

LEMMA OneLanguage == ~(Len(<<"">>) > 1) /\ Head(<<"">>) = ""
  OBVIOUS

LEMMA OneRound == ASSUME NEW s, s = <<"">> PROVE ~(Len(s) > 1) /\ Head(s) = ""
  BY OneLanguage, Zenon

LEMMA ParsesNone == Parses({})
  BY DEF Parses

LEMMA InitSteps == Init => StepsInv
  BY DEF Init, StepsInv, NoJob, JobOf

(* How a step leaves the job: as it was, gone, begun, or a language further. *)
LEMMA JobMoves ==
  ASSUME StepsInv, Next
  PROVE  \/ job' = job /\ conf' = conf
         \/ job' = JobOf("idle", <<>>, {}, {})
         \/ job' = JobOf("images", <<>>, {}, {})
         \/ Parses(disk) /\ conf' = conf /\ job' = JobOf("full", BuildOrder(conf), disk, {})
         \/ /\ job.step = "full" /\ conf' = conf /\ Len(job.todo) > 1
            /\ job' = JobOf("full", Tail(job.todo), job.files, job.affected)
         \/ Parses(disk) /\ \E a : job' = JobOf("incremental", <<>>, disk, a)
<1> USE DEF NoJob, JobOf
<1>1. ASSUME NEW p, Save(p) \/ Delete(p) PROVE job' = job /\ conf' = conf
  BY <1>1 DEF Save, Delete
<1>2. EditTemplates => job' = job /\ conf' = conf
  BY DEF EditTemplates
<1>3. StartFull => \/ job' = JobOf("idle", <<>>, {}, {})
                   \/ Parses(disk) /\ conf' = conf /\ job' = JobOf("full", BuildOrder(conf), disk, {})
  BY DEF StartFull, Fail
<1>4. ASSUME NEW B, RenderMarkdown(B) \/ SetupTemplates(B) PROVE job' = JobOf("idle", <<>>, {}, {})
  BY <1>4 DEF RenderMarkdown, SetupTemplates, Fail
<1>5. ASSUME NEW B, BuildLanguage(B)
      PROVE  \/ job' = JobOf("idle", <<>>, {}, {})
             \/ job' = JobOf("images", <<>>, {}, {})
             \/ /\ job.step = "full" /\ conf' = conf /\ Len(job.todo) > 1
                /\ job' = JobOf("full", Tail(job.todo), job.files, job.affected)
  <2>1. job.step = "full" /\ conf' = conf
    BY <1>5 DEF BuildLanguage
  <2>2. job' = NoJob \/ (Len(job.todo) > 1 /\ job' = [job EXCEPT !.todo = Tail(@)])
        \/ job' = [NoJob EXCEPT !.step = "images"]
    BY <1>5 DEF BuildLanguage
  <2> QED
    BY <2>1, <2>2 DEF StepsInv
<1>6. RunImagePipeline => job' = JobOf("idle", <<>>, {}, {})
  BY DEF RunImagePipeline, Fail
<1>7. StartIncremental => \/ job' = JobOf("idle", <<>>, {}, {})
                          \/ job' = job /\ conf' = conf
                          \/ Parses(disk) /\ \E a : job' = JobOf("incremental", <<>>, disk, a)
  BY DEF StartIncremental, Fail
<1>8. ASSUME NEW B, IncrementalRender(B) PROVE job' = JobOf("idle", <<>>, {}, {})
  BY <1>8 DEF IncrementalRender
<1> QED
  <2> HIDE DEF NoJob, JobOf
  <2> QED
    BY <1>1, <1>2, <1>3, <1>4, <1>5, <1>6, <1>7, <1>8 DEF Next, Author, Build, InFull

LEMMA LastMoves ==
  ASSUME StepsInv, Next
  PROVE  last' = [build |-> last'.build, edits |-> last'.edits, same |-> last'.same, moved |-> last'.moved]
<1> USE DEF StepsInv
<1>1. ASSUME NEW p, Save(p) \/ Delete(p) PROVE last' = [last EXCEPT !.edits = @ + 1]
  BY <1>1 DEF Save, Delete, Edit
<1>2. EditTemplates => last' = [last EXCEPT !.edits = @ + 1]
  BY DEF EditTemplates, Edit
<1>3. StartFull \/ StartIncremental => last' = last \/ last' = [last EXCEPT !.build = "failed"]
  BY DEF StartFull, StartIncremental, Fail
<1>4. ASSUME NEW B, RenderMarkdown(B) \/ SetupTemplates(B) PROVE last' = [last EXCEPT !.build = "failed"]
  BY <1>4 DEF RenderMarkdown, SetupTemplates, Fail
<1>5. ASSUME NEW B, BuildLanguage(B)
      PROVE  last' = last \/ \E x, y, z : last' = [last EXCEPT !.build = x, !.same = y, !.moved = z]
  <2> DEFINE build == "full"
             same == TRUE
             moved == {}
  <2>1. last' = last \/ last' = [last EXCEPT !.build = build, !.same = same, !.moved = moved]
    BY <1>5 DEF BuildLanguage
  <2> HIDE DEF build, same, moved
  <2>2. last' = [last EXCEPT !.build = build, !.same = same, !.moved = moved]
          => \E x, y, z : last' = [last EXCEPT !.build = x, !.same = y, !.moved = z]
    BY Zenon
  <2> QED
    BY ONLY <2>1, <2>2, Zenon
<1>6. RunImagePipeline => \E x : last' = [last EXCEPT !.build = x]
  BY DEF RunImagePipeline, Fail
<1>7. ASSUME NEW B, IncrementalRender(B)
      PROVE  \/ \E x, y, z : last' = [last EXCEPT !.build = x, !.same = y, !.moved = z]
             \/ \E x : last' = [last EXCEPT !.build = x]
  <2> DEFINE build == IF last.build = "failed" THEN last.build ELSE "incremental"
             same == last.same /\ InGraph(B)
             moved == last.moved \cup {URL(p) : p \in {r \in B.pages : ~SameAddress(r)}}
  <2>1. \/ last' = [last EXCEPT !.build = build, !.same = same, !.moved = moved]
        \/ last' = [last EXCEPT !.build = "failed"]
    BY <1>7 DEF IncrementalRender
  <2> HIDE DEF build, same, moved
  <2> QED
    BY <2>1, Zenon
<1>8. \/ last' = last \/ last' = [last EXCEPT !.edits = @ + 1]
      \/ \E x : last' = [last EXCEPT !.build = x]
      \/ \E x, y, z : last' = [last EXCEPT !.build = x, !.same = y, !.moved = z]
  BY <1>1, <1>2, <1>3, <1>4, <1>5, <1>6, <1>7 DEF Next, Author, Build, InFull
<1>9. ASSUME NEW x, last' = [last EXCEPT !.build = x]
      PROVE  last' = [build |-> x, edits |-> last.edits, same |-> last.same, moved |-> last.moved]
  BY <1>9
<1>10. ASSUME NEW x, NEW y, NEW z, last' = [last EXCEPT !.build = x, !.same = y, !.moved = z]
       PROVE  last' = [build |-> x, edits |-> last.edits, same |-> y, moved |-> z]
  BY <1>10
<1>11. last' = [last EXCEPT !.edits = @ + 1]
         => last' = [build |-> last.build, edits |-> last.edits + 1, same |-> last.same, moved |-> last.moved]
  OBVIOUS
<1> QED
  BY <1>8, <1>9, <1>10, <1>11

LEMMA StepsStep == StepsInv /\ [Next]_vars => StepsInv'
<1> SUFFICES ASSUME StepsInv, [Next]_vars PROVE StepsInv'
  OBVIOUS
<1>1. CASE UNCHANGED vars
  BY <1>1 DEF vars, StepsInv
<1>2. CASE Next
  <2>1. last' = [build |-> last'.build, edits |-> last'.edits, same |-> last'.same, moved |-> last'.moved]
    BY <1>2, LastMoves
  <2>2. ASSUME NEW s \in {"idle", "images"}, job' = JobOf(s, <<>>, {}, {}) PROVE StepsInv'
    <3>1. job'.step = s /\ job'.files = {} /\ Parses(job'.files)
      BY <2>2, ParsesNone DEF JobOf
    <3> QED
      BY <2>1, <2>2, <3>1 DEF StepsInv, JobOf
  <2>3. CASE job' = job /\ conf' = conf
    BY <2>1, <2>3 DEF StepsInv
  <2>4. CASE Parses(disk) /\ conf' = conf /\ job' = JobOf("full", BuildOrder(conf), disk, {})
    <3>1. ~IsMultiLanguage(conf) => BuildOrder(conf) = <<"">>
      BY DEF BuildOrder
    <3> QED
      BY <2>1, <2>4, <3>1 DEF StepsInv, JobOf
  <2>5. CASE /\ job.step = "full" /\ conf' = conf /\ Len(job.todo) > 1
             /\ job' = JobOf("full", Tail(job.todo), job.files, job.affected)
    <3>1. IsMultiLanguage(conf)
      <4>2. job.todo # <<"">>
        BY <2>5, OneRound, Zenon
      <4> QED
        BY <2>5, <4>2 DEF StepsInv
    <3> QED
      BY <2>1, <2>5, <3>1 DEF StepsInv, JobOf
  <2>6. ASSUME NEW a, Parses(disk), job' = JobOf("incremental", <<>>, disk, a) PROVE  StepsInv'
    BY <2>1, <2>6 DEF StepsInv, JobOf
  <2> QED
    BY <1>2, <2>2, <2>3, <2>4, <2>5, <2>6, JobMoves
<1> QED
  BY <1>1, <1>2

(* At every step of a build what it read parses, and the build of a site in  *)
(* one language is in its only round.                                        *)
THEOREM StepsHold == Spec => []StepsInv
  BY InitSteps, StepsStep, PTL DEF Spec

-----------------------------------------------------------------------------
(* Content at fault: what cannot be read ends a build in its first step, what*)
(* cannot be rendered in the only round of a site in one language, and       *)
(* neither has cleaned anything before.                                      *)
LEMMA ContentStep == StepsInv /\ [Next]_vars => ContentErrorKeepsSite \/ UNCHANGED vars
<1> SUFFICES ASSUME StepsInv, Next, last'.build = "failed", ContentAtFault
             PROVE  out' = out
  BY DEF ContentErrorKeepsSite
<1>1. ASSUME NEW p, Save(p) \/ Delete(p) PROVE out' = out
  BY <1>1 DEF Save, Delete
<1>2. EditTemplates \/ StartFull \/ StartIncremental => out' = out
  BY DEF EditTemplates, StartFull, StartIncremental
<1>3. InFull => out' = out
  <2> SUFFICES ASSUME InFull PROVE out' = out
    OBVIOUS
  <2>1. ~IsMultiLanguage(conf) /\ ~BodiesRender(Load(conf, "", job.files))
    BY DEF InFull, ContentAtFault, Idle
  <2>2. Head(job.todo) = ""
    BY <2>1, OneRound DEF InFull, StepsInv
  <2>3. ~BodiesRender(Load(conf, "", job.files))
    BY <2>1
  <2> DEFINE B == Load(conf, "", job.files)
  <2>4. RenderMarkdown(B) \/ SetupTemplates(B) \/ BuildLanguage(B)
    BY <2>2 DEF InFull
  <2> HIDE DEF B
  <2>5. ~BodiesRender(B)
    BY <2>3 DEF B
  <2> QED
    BY <2>4, <2>5 DEF RenderMarkdown, SetupTemplates, BuildLanguage
<1>4. RunImagePipeline => out' = out
  <2> SUFFICES ASSUME RunImagePipeline, out' # out PROVE FALSE
    OBVIOUS
  <2>1. last' = [last EXCEPT !.build = "full"]
    BY DEF RunImagePipeline
  <2>2. last'.build = "full"
    BY <2>1 DEF StepsInv
  <2> QED
    BY <2>2
<1>5. job.step = "incremental" /\ IncrementalRender(Load(conf, "", job.files)) => out' = out
  <2> DEFINE B == Load(conf, "", job.files)
  <2> SUFFICES ASSUME job.step = "incremental", IncrementalRender(B) PROVE out' = out
    OBVIOUS
  <2> HIDE DEF B
  <2>1. ~BodiesRender(B)
    BY DEF ContentAtFault, Idle, B
  <2> QED
    BY <2>1 DEF IncrementalRender
<1> QED
  BY <1>1, <1>2, <1>3, <1>4, <1>5 DEF Next, Author, Build

-----------------------------------------------------------------------------
(* Every file a build writes is in its language and as no plugin has touched *)
(* it: its diagram, if any, still as code, nothing in it for the browser, and*)
(* its picture, if it is one, one of the site's.                             *)
Fresh(B, view) ==
    /\ {"as", "lang", "extra"} \subseteq DOMAIN view /\ view.lang = B.code
    /\ {"snippets", "diagram", "picture"} \subseteq DOMAIN view.extra /\ view.extra.snippets = 0
    /\ 1 \in DOMAIN view.extra.diagram /\ view.extra.diagram[1] \in {"none", "code"}
    /\ \/ view.extra.picture = <<>>
       \/ \E q \in DOMAIN B.conf.pictures : view.extra.picture = <<B.conf.pictures[q]>>

AllFresh(B, f) == \A q \in DOMAIN f : Fresh(B, f[q])

LEMMA OverFresh == ASSUME NEW B, NEW f, NEW g, AllFresh(B, f), AllFresh(B, g) PROVE AllFresh(B, f ++ g)
  BY DEF AllFresh, ++

LEMMA OneFresh == ASSUME NEW B, NEW q, NEW v, Fresh(B, v) PROVE AllFresh(B, OneFile(q, v))
  BY DEF AllFresh, OneFile

LEMMA NoneFresh == ASSUME NEW B PROVE AllFresh(B, <<>>)
  BY DEF AllFresh

LEMMA TripleHead == ASSUME NEW a, NEW b, NEW c PROVE 1 \in DOMAIN <<a, b, c>> /\ <<a, b, c>>[1] = a
  OBVIOUS

LEMMA ViewFresh == ASSUME NEW B, NEW as PROVE Fresh(B, View(B, as))
<1>1. /\ View(B, as).extra = Untouched /\ View(B, as).lang = B.code
      /\ {"as", "lang", "extra"} \subseteq DOMAIN View(B, as)
  BY DEF View
<1>2. /\ {"snippets", "diagram", "picture"} \subseteq DOMAIN Untouched /\ Untouched.snippets = 0
      /\ Untouched.diagram = <<"none", "", 0>> /\ Untouched.picture = <<>>
  BY DEF Untouched
<1>3. 1 \in DOMAIN Untouched.diagram /\ Untouched.diagram[1] = "none"
  <2>1. Untouched.diagram = <<"none", "", 0>>
    BY <1>2
  <2> QED
    BY ONLY <2>1, TripleHead
<1> QED
  BY <1>1, <1>2, <1>3 DEF Fresh

LEMMA PageFresh == ASSUME NEW B, NEW p PROVE Fresh(B, PageView(B, p))
<1> DEFINE chain == Chain(MainItems(B), B.conf.size)
           page == [View(B, "html") EXCEPT !.own = <<p>>, !.extra.diagram = Diagram(B.conf, p),
                     !.extra.imgs = Images(B, p), !.links = TranslationLinks(B.conf, B.available, p)]
<1>1. Fresh(B, page)
  <2>1. 1 \in DOMAIN Diagram(B.conf, p) /\ Diagram(B.conf, p)[1] \in {"none", "code"}
    <3>1. Untouched.diagram = <<"none", "", 0>>
      BY DEF Untouched
    <3>2. Diagram(B.conf, p) = <<"none", "", 0>>
          \/ Diagram(B.conf, p) = <<"code", B.conf.diagrams[p.body], p.body>>
      BY <3>1 DEF Diagram
    <3> DEFINE text == B.conf.diagrams[p.body]
    <3>3. 1 \in DOMAIN <<"none", "", 0>> /\ <<"none", "", 0>>[1] = "none"
      BY TripleHead
    <3>4. 1 \in DOMAIN <<"code", text, p.body>> /\ <<"code", text, p.body>>[1] = "code"
      BY TripleHead
    <3> QED
      BY <3>2, <3>3, <3>4
  <2>2. Fresh(B, View(B, "html"))
    BY ViewFresh
  <2> QED
    BY <2>1, <2>2 DEF Fresh
<1> HIDE DEF page
<1>2. PageView(B, p) \in {[page EXCEPT !.list = chain[1].items, !.next = chain[1].next], [page EXCEPT !.list = Children(B, p)]}
  BY DEF PageView, page
<1> HIDE DEF chain
<1> QED
  BY <1>1, <1>2 DEF Fresh

LEMMA StaticFresh == ASSUME NEW B PROVE AllFresh(B, StaticWrites(B))
<1> DEFINE file(q) == [View(B, "static") EXCEPT !.extra.picture =
                       IF q \in DOMAIN B.conf.pictures THEN <<B.conf.pictures[q]>> ELSE <<>>]
<1>1. ASSUME NEW q PROVE Fresh(B, file(q))
  BY ViewFresh DEF Fresh
<1> DEFINE lang == IF B.code \in Codes(B.conf) THEN B.conf.langs[B.code]
                   ELSE [staticExclude |-> {}, staticRoot |-> ""]
           local == {Tail(q) : q \in {r \in B.conf.static : Len(r) > 1 /\ r[1] = lang.staticRoot}}
           project == CopyStatic(B.conf.static, lang.staticExclude \cup {lang.staticRoot})
           theme == ThemeAssets(B.conf) \cup CopyStatic(B.conf.themeStatic, {})
           moved == [q \in local |-> file(<<lang.staticRoot>> \o q)]
           kept == [q \in project |-> file(q)]
           themed == [q \in theme |-> file(q)]
<1>2. StaticWrites(B) = moved ++ kept ++ themed
  BY DEF StaticWrites
<1>3. AllFresh(B, moved) /\ AllFresh(B, kept) /\ AllFresh(B, themed)
  <2> HIDE DEF file, lang, local, project, theme
  <2> QED
    BY <1>1 DEF AllFresh
<1> HIDE DEF moved, kept, themed
<1> QED
  BY <1>2, <1>3, OverFresh

LEMMA FeedsFresh == ASSUME NEW B PROVE AllFresh(B, FeedsAndSpecials(B))
<1>1. AllFresh(B, AIOutputs(B))
  <2>1. AllFresh(B, LlmsTxt(B))
    BY OneFresh, NoneFresh, ViewFresh DEF LlmsTxt
  <2>2. AllFresh(B, ContentAPI(B))
    <3>1. ASSUME NEW x PROVE Fresh(B, [View(B, "api") EXCEPT !.list = x])
      BY ViewFresh DEF Fresh
    <3> QED
      BY <3>1 DEF ContentAPI, AllFresh
  <2> QED
    BY <2>1, <2>2, NoneFresh, OverFresh DEF AIOutputs
<1>2. AllFresh(B, SearchIndex(B))
  <2>1. ASSUME NEW x, NEW y PROVE Fresh(B, [View(B, "search") EXCEPT !.own = x, !.list = y])
    BY ViewFresh DEF Fresh
  <2> QED
    BY <2>1, OneFresh DEF SearchIndex
<1>3. AllFresh(B, Sitemap(B))
  <2>1. ASSUME NEW x, NEW y, NEW z
        PROVE  Fresh(B, [View(B, "sitemap") EXCEPT !.list = x, !.extra.ranked = y, !.links = z])
    BY ViewFresh DEF Fresh
  <2> QED
    BY <2>1, OneFresh DEF Sitemap
<1>4. AllFresh(B, NotFound(B)) /\ AllFresh(B, CategoryWrites(B))
  BY ViewFresh, OneFresh, OverFresh DEF NotFound, CategoryWrites, EmptyTaxonomy
<1>5. AllFresh(B, HomePagers(B))
  <2> DEFINE home == PageView(B, Home(B.tree))
  <2>1. ASSUME NEW x, NEW y PROVE Fresh(B, [home EXCEPT !.list = x, !.next = y])
    BY PageFresh DEF Fresh
  <2> DEFINE items == MainItems(B)
             size == B.conf.size
             pager(k) == [home EXCEPT !.list = Clone(items, size, k).items,
                                 !.next = Clone(items, size, k).next]
             ks == 2..TotalPages(Len(items), size)
             pagers == [q \in {Pager(k) : k \in ks} |-> pager(CHOOSE k \in ks : Pager(k) = q)]
  <2>2. ASSUME NEW k PROVE Fresh(B, pager(k))
    BY <2>1
  <2>3. AllFresh(B, pagers)
    <3> HIDE DEF pager, ks
    <3> QED
      BY <2>2 DEF AllFresh
  <2>4. HomePagers(B) = OneFile(Pager(1), View(B, "redirect")) ++ pagers
    BY DEF HomePagers
  <2> HIDE DEF pagers
  <2> QED
    BY <2>3, <2>4, ViewFresh, OneFresh, OverFresh
<1>6. AllFresh(B, TaxonomyWrites(B))
  <2> DEFINE T == B.tree
             form(k) == OriginalCase(T, k)
             term(k) == [View(B, "term") EXCEPT !.list = TermPages(T, k), !.terms = <<form(k)>>]
             listing == [View(B, "terms") EXCEPT !.terms = ByCount(T, B.conf.termRank)]
             feed == [View(B, "rss") EXCEPT !.terms = TermStubs(T, B.conf.termRank)]
             ks == IF <<"_default", "list">> \in B.templates THEN Terms(T) ELSE {}
             htmls == [q \in {HTML(<<"tags", k>>) : k \in ks} |-> term(q[2])]
             feeds == [q \in {RSS(<<"tags", k>>) : k \in ks} |-> [term(q[2]) EXCEPT !.as = "rss"]]
  <2>1. Fresh(B, listing) /\ Fresh(B, feed)
    BY ViewFresh DEF Fresh
  <2>2. ASSUME NEW k PROVE Fresh(B, term(k))
    BY ViewFresh DEF Fresh
  <2>3. ASSUME NEW k PROVE Fresh(B, [term(k) EXCEPT !.as = "rss"])
    <3> HIDE DEF term
    <3> QED
      BY <2>2 DEF Fresh
  <2>4. AllFresh(B, htmls) /\ AllFresh(B, feeds)
    <3> HIDE DEF term, ks
    <3> QED
      BY <2>2, <2>3 DEF AllFresh
  <2>5. TaxonomyWrites(B) = IF Terms(T) = {} THEN <<>>
          ELSE OneFile(HTML(<<"tags">>), listing) ++ OneFile(RSS(<<"tags">>), feed) ++ htmls ++ feeds
    BY DEF TaxonomyWrites
  <2> HIDE DEF listing, feed, htmls, feeds
  <2> QED
    BY <2>1, <2>4, <2>5, NoneFresh, OneFresh, OverFresh
<1> QED
  BY <1>1, <1>2, <1>3, <1>4, <1>5, <1>6, OverFresh DEF FeedsAndSpecials

(* What the goroutines leave at a path is what one of them wrote there.      *)
LEMMA OutcomesAre ==
  ASSUME NEW W, NEW pages \in Outcomes(W)
  PROVE  \A q \in DOMAIN pages : \E w \in W : w.path = q /\ pages[q] = w.view
<1> DEFINE paths == {w.path : w \in W}
           at == [q \in paths |-> {w.view : w \in {x \in W : x.path = q}}]
           contested == {q \in paths : Cardinality(at[q]) > 1}
<1>1. \A q \in paths : \A v \in at[q] : \E w \in W : w.path = q /\ v = w.view
  OBVIOUS
<1>2. \A q \in paths : (CHOOSE v \in at[q] : TRUE) \in at[q]
  <2> SUFFICES ASSUME NEW q \in paths PROVE \E v \in at[q] : TRUE
    OBVIOUS
  <2> QED
    OBVIOUS
<1> HIDE DEF at
<1>3. PICK won : /\ \A q \in contested : won[q] \in at[q]
                 /\ pages = [q \in paths |-> IF q \in contested THEN won[q] ELSE CHOOSE v \in at[q] : TRUE]
  <2> USE DEF at
  <2> QED
    BY DEF Outcomes
<1> HIDE DEF contested, paths
<1>4. DOMAIN pages = paths /\ \A q \in paths : pages[q] = IF q \in contested THEN won[q] ELSE CHOOSE v \in at[q] : TRUE
  BY <1>3
<1>5. \A q \in paths : pages[q] \in at[q]
  BY <1>2, <1>3, <1>4
<1> QED
  BY <1>1, <1>4, <1>5

LEMMA PagesFresh == ASSUME NEW B, NEW pages \in Outcomes(PageWrites(B)) PROVE AllFresh(B, pages)
<1>1. \A w \in PageWrites(B) : Fresh(B, w.view)
  <2>1. ASSUME NEW p PROVE Fresh(B, MirrorView(B, p)) /\ Fresh(B, RSSView(B, p)) /\ Fresh(B, PageView(B, p))
    <3>1. Fresh(B, View(B, "mirror")) /\ Fresh(B, View(B, "rss"))
      BY ViewFresh
    <3> QED
      BY <3>1, PageFresh DEF Fresh, MirrorView, RSSView
  <2> QED
    BY <2>1 DEF PageWrites
<1> QED
  BY <1>1, OutcomesAre DEF AllFresh

(* What has been written anew is what a language's plugins meet. *)
LEMMA FilesAnew ==
  ASSUME NEW B, NEW written, NEW f, NEW dir, AllFresh(B, written),
         NEW q \in CollectHTMLFiles(Under(dir, written) ++ CleanPublishDir(f, dir), dir)
  PROVE  Fresh(B, (Under(dir, written) ++ CleanPublishDir(f, dir))[q])
<1>1. IsPrefix(dir, q) /\ q \in DOMAIN (Under(dir, written) ++ CleanPublishDir(f, dir))
  BY DEF CollectHTMLFiles
<1>2. q \notin DOMAIN CleanPublishDir(f, dir)
  BY <1>1 DEF CleanPublishDir
<1>3. q \in DOMAIN Under(dir, written)
  BY <1>1, <1>2 DEF ++
<1>4. (Under(dir, written) ++ CleanPublishDir(f, dir))[q] = Under(dir, written)[q]
  BY <1>1, <1>3 DEF ++
<1>5. PICK r \in DOMAIN written : Under(dir, written)[q] = written[r]
  BY <1>3 DEF Under
<1> QED
  BY <1>4, <1>5 DEF AllFresh

-----------------------------------------------------------------------------
(* The cache of drawings holds diagrams in the languages the plugin draws.   *)
Languages == Plugin(Registry, "diagram_renderer").languages
SvgsInv == \A key \in svgs : key[1] \in Languages

LEMMA KeyOf == ASSUME NEW d PROVE Key(d)[1] = d[2]
  BY DEF Key

(* What comes after the diagrams leaves them alone.                          *)
LEMMA ProcessKeeps ==
  ASSUME NEW r, NEW S, NEW a, NEW q, NEW extra, "diagram" \in DOMAIN extra
  PROVE  LET c == Plugin(r, "diagram_renderer")
         IN ProcessFile(r, S, a, q, extra).diagram
              = IF c.on /\ KindAllowed(c, GuessKind(q)) /\ FindDiagramBlocks(c, extra) # {}
                THEN RenderBlock(c, S, a, extra.diagram) ELSE extra.diagram
<1> DEFINE c == Plugin(r, "diagram_renderer")
           drawn == RenderDiagrams(c, GuessKind(q), S, a, extra)
<1>1. /\ "diagram" \in DOMAIN drawn
      /\ drawn.diagram = IF c.on /\ KindAllowed(c, GuessKind(q)) /\ FindDiagramBlocks(c, extra) # {}
                         THEN RenderBlock(c, S, a, extra.diagram) ELSE extra.diagram
  <2> HIDE DEF c
  <2> QED
    BY DEF RenderDiagrams
<1>2. ASSUME NEW h, NEW kind, NEW e, "diagram" \in DOMAIN e
      PROVE  "diagram" \in DOMAIN InjectHTML(h, kind, e) /\ InjectHTML(h, kind, e).diagram = e.diagram
  BY <1>2 DEF InjectHTML
<1>3. ASSUME NEW h, NEW e, "diagram" \in DOMAIN e
      PROVE  InjectMeta(h, q, e).diagram = e.diagram
  <2>1. PICK x : InjectMeta(h, q, e) = e \/ InjectMeta(h, q, e) = [e EXCEPT !.meta = x]
    BY DEF InjectMeta
  <2> QED
    BY <1>3, <2>1
<1> HIDE DEF drawn
<1>4. ProcessFile(r, S, a, q, extra) =
        InjectMeta(Plugin(r, "seo_injector"), q, InjectHTML(Plugin(r, "html_injector"), GuessKind(q), drawn))
  BY DEF ProcessFile, drawn
<1> QED
  BY <1>1, <1>2, <1>3, <1>4

(* A drawing that is cached is used, whether or not the service answers.     *)
LEMMA DrawnStays ==
  ASSUME NEW c, NEW S, NEW a, NEW extra, "diagram" \in DOMAIN extra,
         1 \in DOMAIN extra.diagram, extra.diagram[1] \in {"none", "code"},
         \A key \in S : key[1] \in c.languages,
         NEW d, d = IF FindDiagramBlocks(c, extra) # {} THEN RenderBlock(c, S, a, extra.diagram) ELSE extra.diagram,
         d[1] # "none", Key(d) \in S
  PROVE  d[1] = "svg"
<1>1. CASE FindDiagramBlocks(c, extra) # {}
  <2>1. d = RenderBlock(c, S, a, extra.diagram)
    BY <1>1
  <2>2. d[2] = extra.diagram[2] /\ d[3] = extra.diagram[3]
    BY <2>1 DEF RenderBlock
  <2>3. Key(extra.diagram) \in S
    BY <2>2 DEF Key
  <2> QED
    BY <2>1, <2>3 DEF RenderBlock
<1>2. CASE FindDiagramBlocks(c, extra) = {}
  <2>1. d = extra.diagram /\ d[1] = "code"
    BY <1>2
  <2>2. d[2] \notin c.languages
    BY <1>2, <2>1 DEF FindDiagramBlocks
  <2> QED
    BY <2>2, KeyOf
<1> QED
  BY <1>1, <1>2

LEMMA SvgsStep == SvgsInv /\ [Next]_vars => SvgsInv'
<1> SUFFICES ASSUME SvgsInv, [Next]_vars PROVE SvgsInv'
  OBVIOUS
<1>1. CASE svgs' = svgs /\ conf' = conf
  BY <1>1 DEF SvgsInv, Languages, Registry
<1>2. ASSUME NEW p, Save(p) \/ Delete(p) PROVE svgs' = svgs /\ conf' = conf
  BY <1>2 DEF Save, Delete
<1>3. EditTemplates \/ StartFull \/ RunImagePipeline \/ StartIncremental => svgs' = svgs /\ conf' = conf
  BY DEF EditTemplates, StartFull, RunImagePipeline, StartIncremental
<1>4. ASSUME NEW B, RenderMarkdown(B) \/ SetupTemplates(B) \/ IncrementalRender(B) PROVE svgs' = svgs /\ conf' = conf
  BY <1>4 DEF RenderMarkdown, SetupTemplates, IncrementalRender
<1>5. ASSUME NEW B, BuildLanguage(B) PROVE SvgsInv'
  <2>1. PICK f, answers : \E stored \in SUBSET Drawn(Plugin(Registry, "diagram_renderer"), f, answers) :
                            svgs' = svgs \cup stored
    BY <1>5 DEF BuildLanguage, Put
  <2>2. conf' = conf
    BY <1>5 DEF BuildLanguage
  <2> DEFINE c == Plugin(Registry, "diagram_renderer")
  <2>3. ASSUME NEW key \in Drawn(c, f, answers) PROVE key[1] \in Languages
    <3>1. PICK q \in answers : key \in FindDiagramBlocks(c, f[q].extra)
      BY <2>3 DEF Drawn
    <3>2. key = Key(f[q].extra.diagram) /\ f[q].extra.diagram[2] \in Languages
      BY <3>1 DEF FindDiagramBlocks, Languages
    <3> QED
      BY <3>2, KeyOf
  <2> HIDE DEF c
  <2>4. \A key \in svgs' : key[1] \in Languages
    BY <2>1, <2>3 DEF SvgsInv, c
  <2> QED
    BY <2>2, <2>4 DEF SvgsInv, Languages, Registry
<1>6. CASE UNCHANGED vars
  BY <1>1, <1>6 DEF vars
<1> QED
  BY <1>1, <1>2, <1>3, <1>4, <1>5, <1>6 DEF Next, Author, Build, InFull

LEMMA DiagramsStep == StepsInv /\ SvgsInv /\ Next => DiagramsKept
<1> DEFINE c == Plugin(Registry, "diagram_renderer")
<1> SUFFICES ASSUME StepsInv, SvgsInv, Next, job.step = "full", out' # out, last'.build # "failed", c.on,
                    NEW q \in CollectHTMLFiles(out', OutputDir),
                    KindAllowed(c, GuessKind(Below(q, OutputDir))),
                    out'[q].extra.diagram[1] # "none", Key(out'[q].extra.diagram) \in svgs
             PROVE  out'[q].extra.diagram[1] = "svg"
  BY DEF DiagramsKept
<1>1. PICK B : BuildLanguage(B)
  <2>1. ASSUME NEW p, Save(p) \/ Delete(p) PROVE out' = out
    BY <2>1 DEF Save, Delete
  <2>2. EditTemplates \/ StartFull \/ StartIncremental => out' = out
    BY DEF EditTemplates, StartFull, StartIncremental
  <2>3. RunImagePipeline \/ job.step = "incremental" => FALSE
    BY DEF RunImagePipeline
  <2>4. ASSUME NEW B PROVE ~RenderMarkdown(B) /\ ~SetupTemplates(B)
    <3>1. SetupTemplates(B) => last' = [last EXCEPT !.build = "failed"]
      BY DEF SetupTemplates, Fail
    <3>2. last' = [last EXCEPT !.build = "failed"] => last'.build = "failed"
      BY DEF StepsInv
    <3>3. RenderMarkdown(B) => out' = out
      BY DEF RenderMarkdown
    <3> QED
      BY <3>1, <3>2, <3>3
  <2>5. InFull
    BY <2>1, <2>2, <2>3 DEF Next, Author, Build
  <2> QED
    BY <2>4, <2>5 DEF InFull
<1>10. PICK pages \in Outcomes(PageWrites(B)) : \E answers :
         LET written == StaticWrites(B) ++ FeedsAndSpecials(B) ++ pages
             result == Under(Base, written) ++ CleanPublishDir(out, Base)
         IN out' = OnOutputWritten(Registry, result, OutputDir, svgs, answers)
  BY <1>1 DEF BuildLanguage
<1>2. PICK answers :
         LET written == StaticWrites(B) ++ FeedsAndSpecials(B) ++ pages
             result == Under(Base, written) ++ CleanPublishDir(out, Base)
         IN out' = OnOutputWritten(Registry, result, OutputDir, svgs, answers)
  BY <1>10
<1> DEFINE written == StaticWrites(B) ++ FeedsAndSpecials(B) ++ pages
           result == Under(Base, written) ++ CleanPublishDir(out, Base)
           extra == result[q].extra
<1>3. AllFresh(B, written)
  BY StaticFresh, FeedsFresh, PagesFresh, OverFresh
<1> HIDE DEF written
<1>4. out' = OnOutputWritten(Registry, result, Base, svgs, answers)
  BY <1>2 DEF OutputDir, written
<1>5. q \in CollectHTMLFiles(result, Base)
  <2> HIDE DEF result
  <2>1. DOMAIN out' = DOMAIN result
    BY <1>4 DEF OnOutputWritten
  <2> QED
    BY <2>1 DEF CollectHTMLFiles, OutputDir
<1>6. Fresh(B, result[q])
  BY <1>3, <1>5, FilesAnew
<1> HIDE DEF result
<1>7. out'[q] = [result[q] EXCEPT !.extra = ProcessFile(Registry, svgs, q \in answers, Below(q, Base), @)]
  <2>1. q \in DOMAIN result
    BY <1>5 DEF CollectHTMLFiles
  <2> QED
    BY <2>1, <1>4, <1>5 DEF OnOutputWritten
<1>8. out'[q].extra = ProcessFile(Registry, svgs, q \in answers, Below(q, Base), extra)
  BY <1>6, <1>7 DEF Fresh
<1>9. out'[q].extra.diagram = IF FindDiagramBlocks(c, extra) # {}
                             THEN RenderBlock(c, svgs, q \in answers, extra.diagram) ELSE extra.diagram
  <2>1. "diagram" \in DOMAIN extra
    BY <1>6 DEF Fresh
  <2> HIDE DEF extra
  <2> QED
    BY <2>1, <1>8, ProcessKeeps DEF OutputDir
<1> QED
  <2>1. "diagram" \in DOMAIN extra /\ 1 \in DOMAIN extra.diagram /\ extra.diagram[1] \in {"none", "code"}
    BY <1>6 DEF Fresh
  <2>2. \A key \in svgs : key[1] \in c.languages
    BY DEF SvgsInv, Languages
  <2> HIDE DEF extra, c
  <2> QED
    BY <2>1, <2>2, <1>9, DrawnStays

LEMMA InitSvgs == Init => SvgsInv
  BY DEF Init, SvgsInv

(* A build that gives up for its content leaves what was there: any site when*)
(* a file does not parse or a translation is stale, a site in one language   *)
(* also when a text cannot be rendered; and a silent drawing service takes no*)
(* diagram away that the cache has: for any sites, settings, contents, edits.*)
THEOREM FailuresStayContained == Spec => FailuresContained
<1>1. Init => StepsInv /\ SvgsInv
  BY InitSteps, InitSvgs
<1>2. StepsInv /\ SvgsInv /\ [Next]_vars => (StepsInv /\ SvgsInv)'
  BY StepsStep, SvgsStep
<1>3. StepsInv /\ SvgsInv /\ [Next]_vars => [ContentErrorKeepsSite /\ DiagramsKept]_vars
  BY ContentStep, DiagramsStep
<1> QED
  BY <1>1, <1>2, <1>3, PTL DEF Spec, FailuresContained

-----------------------------------------------------------------------------
(* Enough pagers for the items, and none without any.                        *)
LEMMA TotalIs ==
  ASSUME NEW n \in Nat, NEW size \in Nat \ {0}
  PROVE  LET t == TotalPages(n, size)
         IN t \in Nat /\ t * size < n + size /\ n <= t * size /\ (t = 0 <=> n = 0)
  BY Z3T(30) DEF TotalPages

LEMMA PageStarts ==
  ASSUME NEW n \in Nat, NEW size \in Nat \ {0}, NEW k \in 1..TotalPages(n, size)
  PROVE  (k - 1) * size < n /\ (k - 1) * size + size = k * size /\ (k - 1) * size \in Nat
<1> DEFINE t == TotalPages(n, size)
<1>1. t \in Nat /\ t * size < n + size
  BY TotalIs
<1> HIDE DEF t
<1>2. k \in 1..t
  BY DEF t
<1>3. k * size <= t * size
  BY <1>1, <1>2, Z3T(30)
<1>4. (k - 1) * size + size = k * size
  BY <1>1, <1>2, Z3T(30)
<1>5. (k - 1) * size \in Nat /\ k * size \in Nat /\ t * size \in Nat
  BY <1>1, <1>2, Z3T(30)
<1> QED
  BY <1>1, <1>3, <1>4, <1>5

(* The two computations of a pager, buildPaginator for the home template and *)
(* CloneContextForPagination for the files page/N/, agree on every list.     *)
THEOREM PagersAgree ==
  ASSUME NEW S, NEW items \in Seq(S), NEW size \in Nat \ {0},
         NEW k \in 1..TotalPages(Len(items), size)
  PROVE  Clone(items, size, k) = Chain(items, size)[k]
<1> DEFINE n == Len(items)
           t == TotalPages(n, size)
<1>1. n \in Nat
  OBVIOUS
<1>2. t \in Nat /\ t # 0 /\ ChainLength(n, size) = t
  <2>1. t \in Nat
    BY <1>1, TotalIs
  <2> QED
    BY <2>1 DEF ChainLength
<1>3. (k - 1) * size < n /\ (k - 1) * size + size = k * size /\ (k - 1) * size \in Nat
  BY <1>1, PageStarts
<1> DEFINE from == (k - 1) * size
<1>4. Least(from, n) = from
  BY <1>1, <1>3 DEF Least
<1>5. Chain(items, size)[k] =
        [items |-> SubSeq(items, from + 1, Least(k * size, n)), prev |-> k > 1, next |-> k < t]
  BY <1>2 DEF Chain
<1>6. Clone(items, size, k) =
        [items |-> SubSeq(items, from + 1, Least(from + size, n)), prev |-> k > 1, next |-> k < t]
  BY <1>4 DEF Clone
<1> QED
  BY <1>3, <1>5, <1>6

(* Every item of a list is on exactly one pager, at its place in the order.  *)
THEOREM ItemsOnOnePager ==
  ASSUME NEW S, NEW items \in Seq(S), NEW size \in Nat \ {0},
         NEW i \in 1..Len(items)
  PROVE  LET k == (i - 1) \div size + 1
             page(m) == Chain(items, size)[m].items
         IN /\ k \in 1..TotalPages(Len(items), size)
            /\ page(k)[i - (k - 1) * size] = items[i] /\ i - (k - 1) * size \in DOMAIN page(k)
            /\ \A m \in 1..TotalPages(Len(items), size) :
                  i - (m - 1) * size \in DOMAIN page(m) => m = k
<1> DEFINE n == Len(items)
           t == TotalPages(n, size)
           k == (i - 1) \div size + 1
           page(m) == Chain(items, size)[m].items
<1>0. n \in Nat /\ i \in 1..n
  OBVIOUS
<1>1. t \in Nat /\ n <= t * size
  BY <1>0, TotalIs
<1>2. k \in Nat /\ k >= 1 /\ (k - 1) * size < i /\ i <= (k - 1) * size + size
  <2>1. i - 1 \in Nat
    BY <1>0
  <2> QED
    BY <2>1, Z3T(30)
<1>3. ASSUME NEW m \in 1..t
      PROVE  /\ page(m) = SubSeq(items, (m - 1) * size + 1, Least(m * size, n))
             /\ (m - 1) * size < n /\ (m - 1) * size + size = m * size /\ (m - 1) * size \in Nat
  <2>1. ChainLength(n, size) = t
    BY <1>1 DEF ChainLength
  <2>2. (m - 1) * size < n /\ (m - 1) * size + size = m * size /\ (m - 1) * size \in Nat
    BY <1>0, PageStarts
  <2> QED
    BY <2>1, <2>2 DEF Chain
<1> HIDE DEF page, t, k
<1>4. k <= t
  <2>1. (k - 1) * size < t * size
    <3>1. (k - 1) * size \in Nat /\ t * size \in Nat
      BY <1>1, <1>2, Z3T(30)
    <3> QED
      BY <3>1, <1>0, <1>1, <1>2
  <2> QED
    BY <2>1, <1>1, <1>2, Z3T(30)
<1>5. ASSUME NEW m \in 1..t
      PROVE  /\ DOMAIN page(m) = 1..(Least(m * size, n) - (m - 1) * size)
             /\ \A j \in DOMAIN page(m) : page(m)[j] = items[(m - 1) * size + j]
  <2> DEFINE a == (m - 1) * size
             b == m * size
  <2>1. a \in Nat /\ b \in Nat /\ a < n /\ a + size = b /\ page(m) = SubSeq(items, a + 1, Least(b, n))
    BY <1>3
  <2> HIDE DEF a, b
  <2>2. Least(b, n) \in Nat /\ Least(b, n) <= n /\ a < Least(b, n)
    BY <2>1, <1>0 DEF Least
  <2>3. page(m) = [j \in 1..(Least(b, n) - a) |-> items[a + j]]
    BY <2>1, <2>2, <1>0
  <2> QED
    BY <2>3 DEF a, b
<1>6. k \in 1..t
  BY <1>2, <1>4, <1>1
<1>7. i - (k - 1) * size \in DOMAIN page(k) /\ page(k)[i - (k - 1) * size] = items[i]
  <2> DEFINE a == (k - 1) * size
             b == k * size
  <2>1. a \in Nat /\ a + size = b /\ a < i /\ i <= a + size
    BY <1>2, <1>3, <1>6
  <2>2. DOMAIN page(k) = 1..(Least(b, n) - a) /\ \A j \in DOMAIN page(k) : page(k)[j] = items[a + j]
    BY <1>5, <1>6
  <2> HIDE DEF a, b
  <2>3. i - a \in 1..(Least(b, n) - a) /\ a + (i - a) = i
    BY <2>1, <1>0 DEF Least
  <2>4. i - a \in DOMAIN page(k) /\ page(k)[i - a] = items[i]
    BY <2>2, <2>3
  <2> QED
    BY <2>4 DEF a
<1>8. ASSUME NEW m \in 1..t, i - (m - 1) * size \in DOMAIN page(m) PROVE m = k
  <2> DEFINE a == (m - 1) * size
             b == m * size
  <2>1. a \in Nat /\ a + size = b
    BY <1>3
  <2>2. i - a \in 1..(Least(b, n) - a)
    BY <1>5, <1>8
  <2> HIDE DEF a, b
  <2>3. a < i /\ i <= a + size
    BY <2>1, <2>2, <1>0 DEF Least
  <2>4. (m - 1) * size < i /\ i <= (m - 1) * size + size
    BY <2>3 DEF a
  <2>5. m <= k
    <3>1. (m - 1) * size < k * size
      <4>1. k * size = (k - 1) * size + size /\ (m - 1) * size \in Nat /\ (k - 1) * size \in Nat
        BY <1>3, <1>6
      <4> QED
        BY <4>1, <2>4, <1>2
    <3> QED
      BY <3>1, <1>6, <1>1, Z3T(30)
  <2>6. k <= m
    <3>1. (k - 1) * size < m * size
      <4>1. m * size = (m - 1) * size + size /\ (m - 1) * size \in Nat /\ (k - 1) * size \in Nat
        BY <1>3, <1>6
      <4> QED
        BY <4>1, <2>4, <1>2
    <3> QED
      BY <3>1, <1>6, <1>1, Z3T(30)
  <2> QED
    BY <2>5, <2>6, <1>6, <1>1
<1> QED
  BY <1>6, <1>7, <1>8 DEF page, k, t

-----------------------------------------------------------------------------
(* Sorted lists.  InOrder puts at place i the element with i - 1 elements    *)
(* before it; that there is one, and one only, is counted: the places of a   *)
(* finite set in a strict order are an injection into 0..n - 1, hence onto.  *)

(* The elements that come before p in a set.                                 *)
Smaller(S, R, p) == {q \in S : <<q, p>> \in R}

(* R orders any two elements of S, one way only.                             *)
StrictOrder(S, R) ==
    /\ \A a, b \in S : <<a, b>> \in R => a # b /\ <<b, a>> \notin R
    /\ \A a, b, c \in S : <<a, b>> \in R /\ <<b, c>> \in R => <<a, c>> \in R
    /\ \A a, b \in S : a = b \/ <<a, b>> \in R \/ <<b, a>> \in R

LEMMA RanksGrow ==
  ASSUME NEW S, IsFiniteSet(S), NEW R, StrictOrder(S, R), NEW a \in S, NEW b \in S, <<a, b>> \in R
  PROVE  Cardinality(Smaller(S, R, a)) < Cardinality(Smaller(S, R, b))
<1>1. Smaller(S, R, a) \subseteq Smaller(S, R, b) /\ a \in Smaller(S, R, b) /\ a \notin Smaller(S, R, a)
  BY DEF Smaller, StrictOrder
<1>2. IsFiniteSet(Smaller(S, R, b))
  BY FS_Subset DEF Smaller
<1>3. Smaller(S, R, a) # Smaller(S, R, b)
  BY <1>1
<1>4. Smaller(S, R, a) \in SUBSET Smaller(S, R, b)
  BY <1>1
<1> HIDE DEF Smaller
<1>5. Cardinality(Smaller(S, R, a)) \in Nat /\ Cardinality(Smaller(S, R, b)) \in Nat
  BY <1>2, <1>4, FS_Subset, FS_CardinalityType
<1> QED
  BY <1>2, <1>3, <1>4, <1>5, FS_Subset

LEMMA PlaceIn ==
  ASSUME NEW S, IsFiniteSet(S), NEW R, StrictOrder(S, R), NEW p \in S
  PROVE  Cardinality(Smaller(S, R, p)) \in 0..(Cardinality(S) - 1)
<1> DEFINE n == Cardinality(S)
           m == Cardinality(Smaller(S, R, p))
<1>1. Smaller(S, R, p) \in SUBSET S /\ Smaller(S, R, p) # S
  BY DEF Smaller, StrictOrder
<1>2. n \in Nat /\ m \in Nat /\ m <= n /\ m # n
  <2> HIDE DEF Smaller
  <2> QED
    BY <1>1, FS_Subset, FS_CardinalityType
<1> HIDE DEF n, m
<1>3. m \in 0..(n - 1)
  BY <1>2
<1> QED
  BY <1>3 DEF n, m

LEMMA Places ==
  ASSUME NEW n \in Nat
  PROVE  IsFiniteSet(0..(n - 1)) /\ Cardinality(0..(n - 1)) = n
<1>1. 0 \in Int /\ n - 1 \in Int /\ (0 > n - 1 => n = 0) /\ (n - 1) - 0 + 1 = n
  OBVIOUS
<1> QED
  BY <1>1, FS_Interval

LEMMA RanksAll ==
  ASSUME NEW S, IsFiniteSet(S), NEW R, StrictOrder(S, R), NEW i \in 1..Cardinality(S)
  PROVE  \E p \in S : Cardinality(Smaller(S, R, p)) = i - 1
<1> DEFINE n == Cardinality(S)
           rank == [p \in S |-> Cardinality(Smaller(S, R, p))]
<1>0. n \in Nat
  BY FS_CardinalityType
<1>1. \A p \in S : Cardinality(Smaller(S, R, p)) \in 0..(n - 1)
  BY PlaceIn
<1>2. rank \in [S -> 0..(n - 1)]
  BY <1>1
<1>3. \A a, b \in S : <<a, b>> \in R => rank[a] < rank[b]
  BY RanksGrow
<1> HIDE DEF rank, n
<1>4. \A a, b \in S : rank[a] = rank[b] => a = b
  <2> SUFFICES ASSUME NEW a \in S, NEW b \in S, rank[a] = rank[b] PROVE a = b
    OBVIOUS
  <2>1. rank[a] \in Int /\ rank[b] \in Int
    BY <1>0, <1>2
  <2>2. <<a, b>> \notin R /\ <<b, a>> \notin R
    BY <1>3, <2>1
  <2> QED
    BY <2>2, Zenon DEF StrictOrder
<1>5. rank \in Injection(S, 0..(n - 1))
  BY <1>2, <1>4 DEF Injection, IsInjective
<1>6. IsFiniteSet(0..(n - 1)) /\ Cardinality(0..(n - 1)) = Cardinality(S)
  BY <1>0, Places DEF n
<1>7. rank \in Surjection(S, 0..(n - 1))
  BY <1>5, <1>6, FS_Injection
<1>8. i - 1 \in 0..(n - 1)
  BY <1>0 DEF n
<1>9. \E p \in S : rank[p] = i - 1
  BY <1>7, <1>8 DEF Surjection
<1> QED
  BY <1>9 DEF rank

(* A finite set is listed whole and in order.                                *)
LEMMA Enumerated ==
  ASSUME NEW S, IsFiniteSet(S), NEW R, StrictOrder(S, R), NEW list \in [1..Cardinality(S) -> S],
         \A i \in 1..Cardinality(S) : Cardinality(Smaller(S, R, list[i])) = i - 1
  PROVE  /\ \A p \in S : \E i \in 1..Cardinality(S) : list[i] = p
         /\ \A i, j \in 1..Cardinality(S) : i < j => <<list[i], list[j]>> \in R
<1> DEFINE n == Cardinality(S)
           rank == [p \in S |-> Cardinality(Smaller(S, R, p))]
<1>0. n \in Nat
  BY FS_CardinalityType
<1>1. \A i \in 1..n : list[i] \in S /\ rank[list[i]] = i - 1
  OBVIOUS
<1>2. \A p \in S : rank[p] \in 0..(n - 1)
  BY PlaceIn
<1>3. \A a, b \in S : <<a, b>> \in R => rank[a] < rank[b]
  BY RanksGrow
<1>4. \A a, b \in S : a = b \/ <<a, b>> \in R \/ <<b, a>> \in R
  BY DEF StrictOrder
<1> HIDE DEF rank, n
<1>6. \A p \in S : rank[p] + 1 \in 1..n /\ list[rank[p] + 1] = p
  <2> SUFFICES ASSUME NEW p \in S PROVE rank[p] + 1 \in 1..n /\ list[rank[p] + 1] = p
    OBVIOUS
  <2> DEFINE k == rank[p] + 1
             q == list[k]
  <2>1. k \in 1..n /\ k - 1 = rank[p] /\ rank[p] \in Int
    BY ONLY <1>0, <1>2, p \in S
  <2>2. q \in S /\ rank[q] = rank[p]
    BY ONLY <2>1, <1>1
  <2> HIDE DEF q
  <2>3. q = p
    <3>1. <<q, p>> \notin R /\ <<p, q>> \notin R
      BY ONLY <2>1, <2>2, <1>3, p \in S
    <3> QED
      BY ONLY <3>1, <2>2, <1>4, p \in S, Zenon
  <2> QED
    BY ONLY <2>1, <2>3 DEF q, k
<1>7. \A i, j \in 1..n : i < j => <<list[i], list[j]>> \in R
  <2> SUFFICES ASSUME NEW i \in 1..n, NEW j \in 1..n, i < j PROVE <<list[i], list[j]>> \in R
    OBVIOUS
  <2>1. /\ list[i] \in S /\ rank[list[i]] = i - 1
        /\ list[j] \in S /\ rank[list[j]] = j - 1
    BY ONLY <1>1, i \in 1..n, j \in 1..n
  <2>2. list[i] = list[j] => FALSE
    BY ONLY <2>1, <1>0, i \in 1..n, j \in 1..n, i < j
  <2>3. <<list[j], list[i]>> \in R => FALSE
    BY ONLY <2>1, <1>0, <1>3, i \in 1..n, j \in 1..n, i < j
  <2> QED
    BY ONLY <2>1, <2>2, <2>3, <1>4
<1> QED
  BY <1>6, <1>7 DEF n

(* A finite set in a strict order is listed whole, once and in that order.   *)
LEMMA OrderedAll ==
  ASSUME NEW S, IsFiniteSet(S), NEW R, StrictOrder(S, R), NEW list, list = Ordered(S, R)
  PROVE  /\ Cardinality(S) \in Nat /\ list \in Seq(S) /\ Len(list) = Cardinality(S)
         /\ list \in [1..Cardinality(S) -> S]
         /\ \A p \in S : \E i \in 1..Cardinality(S) : list[i] = p
         /\ \A i, j \in 1..Cardinality(S) : i < j => <<list[i], list[j]>> \in R /\ list[i] # list[j]
<1> DEFINE n == Cardinality(S)
           P(i, p) == Cardinality(Smaller(S, R, p)) = i - 1
<1>0. n \in Nat
  BY FS_CardinalityType
<1>1. list = [i \in 1..n |-> CHOOSE p \in S : P(i, p)]
  BY DEF Ordered, Smaller
<1>2. \A i \in 1..n : \E p \in S : P(i, p)
  BY RanksAll
<1> HIDE DEF P, n
<1>3. \A i \in 1..n : list[i] \in S /\ P(i, list[i])
  <2> TAKE i \in 1..n
  <2>1. list[i] = CHOOSE p \in S : P(i, p)
    BY <1>1
  <2>2. \E p \in S : P(i, p)
    BY <1>2
  <2> QED
    BY <2>1, <2>2, Zenon
<1>4. list \in [1..n -> S]
  BY ONLY <1>1, <1>3
<1>5. /\ \A p \in S : \E i \in 1..n : list[i] = p
      /\ \A i, j \in 1..n : i < j => <<list[i], list[j]>> \in R
  <2>1. \A i \in 1..n : Cardinality(Smaller(S, R, list[i])) = i - 1
    BY <1>3 DEF P
  <2> QED
    BY ONLY IsFiniteSet(S), StrictOrder(S, R), <2>1, <1>4, Enumerated DEF n
<1>6. \A i, j \in 1..n : i < j => list[i] # list[j]
  BY <1>3, <1>5 DEF StrictOrder
<1>7. list \in Seq(S) /\ Len(list) = n
  BY <1>0, <1>4
<1> QED
  BY <1>0, <1>4, <1>5, <1>6, <1>7 DEF n

(* Pages that can be told apart by their path.                               *)
Comparable(S) ==
    /\ \A p \in S : p.weight \in Nat /\ p.date \in Nat /\ p.title \in Nat /\ Rank[Path(p)] \in Nat
    /\ \A a, b \in S : Rank[Path(a)] = Rank[Path(b)] => a = b

(* The order of pages tells any two of them apart, one way only.             *)
LEMMA BeforeOrders ==
  ASSUME NEW S, Comparable(S)
  PROVE  /\ \A a, b \in S : Before(a, b) => a # b /\ ~Before(b, a)
         /\ \A a, b, c \in S : Before(a, b) /\ Before(b, c) => Before(a, c)
         /\ \A a, b \in S : a = b \/ Before(a, b) \/ Before(b, a)
<1>1. ASSUME NEW a \in S, NEW b \in S, Before(a, b) PROVE a # b /\ ~Before(b, a)
  BY <1>1 DEF Before, Comparable
<1>2. ASSUME NEW a \in S, NEW b \in S, NEW c \in S, Before(a, b), Before(b, c) PROVE Before(a, c)
  BY <1>2 DEF Before, Comparable
<1>3. ASSUME NEW a \in S, NEW b \in S PROVE a = b \/ Before(a, b) \/ Before(b, a)
  BY DEF Before, Comparable
<1> QED
  BY <1>1, <1>2, <1>3

(* The sorted list of a section or a term (sortPagesDefault) has every page  *)
(* once, each before those that come after it by weight, date, title and     *)
(* path: no page is lost or doubled by the sorting, for any finite set.      *)
THEOREM SortedListsAll ==
  ASSUME NEW S, IsFiniteSet(S), Comparable(S)
  PROVE  /\ Sorted(S) \in [1..Cardinality(S) -> S]
         /\ \A p \in S : \E i \in DOMAIN Sorted(S) : Sorted(S)[i] = p
         /\ \A i, j \in DOMAIN Sorted(S) : i < j => Before(Sorted(S)[i], Sorted(S)[j])
<1> DEFINE R == {e \in S \X S : Before(e[1], e[2])}
           list == Sorted(S)
<1>1. \A a, b \in S : <<a, b>> \in R <=> Before(a, b)
  OBVIOUS
<1>2. StrictOrder(S, R)
  <2> HIDE DEF R
  <2> QED
    BY <1>1, BeforeOrders DEF StrictOrder
<1>3. list = Ordered(S, R)
  BY DEF Sorted, InOrder
<1> HIDE DEF R, list
<1>4. /\ list \in [1..Cardinality(S) -> S]
      /\ \A p \in S : \E i \in 1..Cardinality(S) : list[i] = p
      /\ \A i, j \in 1..Cardinality(S) : i < j => <<list[i], list[j]>> \in R
  BY <1>2, <1>3, OrderedAll
<1>5. DOMAIN list = 1..Cardinality(S)
  BY <1>4
<1>6. \A i, j \in DOMAIN list : i < j => Before(list[i], list[j])
  BY <1>1, <1>4, <1>5
<1> QED
  BY <1>4, <1>5, <1>6 DEF list

(* Items that can be told apart by their path.                               *)
Distinct(items) ==
    /\ \A a \in items : a.page.date \in Nat /\ Rank[Path(a.page)] \in Nat
    /\ \A a, b \in items : Rank[Path(a.page)] = Rank[Path(b.page)] => a = b

LEMMA ItemsInOrder ==
  ASSUME NEW items, NEW f, NEW S, S = Matched(items, f), IsFiniteSet(S), Distinct(S)
  PROVE  LET list == Listing(items, f)
         IN /\ list \in [1..Cardinality(S) -> S]
            /\ \A p \in S : \E i \in 1..Cardinality(S) : list[i] = p
            /\ \A i, j \in 1..Cardinality(S) : i < j => Newer(list[i], list[j]) /\ list[i] # list[j]
<1> DEFINE R == {e \in S \X S : Newer(e[1], e[2])}
           list == Listing(items, f)
<1>1. \A a, b \in S : <<a, b>> \in R <=> Newer(a, b)
  OBVIOUS
<1>2. StrictOrder(S, R)
  <2>1. ASSUME NEW a \in S, NEW b \in S, Newer(a, b) PROVE a # b /\ ~Newer(b, a)
    BY <2>1 DEF Newer, Distinct
  <2>2. ASSUME NEW a \in S, NEW b \in S, NEW c \in S, Newer(a, b), Newer(b, c) PROVE Newer(a, c)
    BY <2>2 DEF Newer, Distinct
  <2>3. ASSUME NEW a \in S, NEW b \in S PROVE a = b \/ Newer(a, b) \/ Newer(b, a)
    BY DEF Newer, Distinct
  <2> HIDE DEF R
  <2> QED
    BY <1>1, <2>1, <2>2, <2>3 DEF StrictOrder
<1>3. list = Ordered(S, R)
  BY DEF Listing, InOrder
<1> HIDE DEF R, list
<1>4. /\ list \in [1..Cardinality(S) -> S]
      /\ \A p \in S : \E i \in 1..Cardinality(S) : list[i] = p
      /\ \A i, j \in 1..Cardinality(S) : i < j => <<list[i], list[j]>> \in R /\ list[i] # list[j]
  BY <1>2, <1>3, OrderedAll
<1> QED
  BY <1>1, <1>4 DEF list

(* What pager m holds: the items from place (m - 1) * size on. *)
LEMMA ChainItems ==
  ASSUME NEW S, NEW items \in Seq(S), NEW size \in Nat \ {0},
         NEW m \in 1..TotalPages(Len(items), size), NEW j \in DOMAIN Chain(items, size)[m].items
  PROVE  /\ (m - 1) * size + j \in 1..Len(items)
         /\ Chain(items, size)[m].items[j] = items[(m - 1) * size + j]
         /\ ((m - 1) * size + j) - (m - 1) * size = j
<1> DEFINE n == Len(items)
           a == (m - 1) * size
           b == m * size
           page == Chain(items, size)[m].items
<1>0. n \in Nat
  OBVIOUS
<1>1. a \in Nat /\ a < n /\ a + size = b
  BY <1>0, PageStarts
<1>2. page = SubSeq(items, a + 1, Least(b, n))
  <2>1. TotalPages(n, size) \in Nat
    BY <1>0, TotalIs
  <2>2. m \in 1..ChainLength(n, size)
    BY <2>1 DEF ChainLength
  <2> QED
    BY <2>2 DEF Chain
<1> HIDE DEF a, b, page
<1>3. Least(b, n) \in Nat /\ Least(b, n) <= n /\ a < Least(b, n)
  BY <1>1, <1>0 DEF Least
<1>4. page = [x \in 1..(Least(b, n) - a) |-> items[a + x]]
  BY <1>1, <1>2, <1>3, <1>0
<1>5. j \in 1..(Least(b, n) - a)
  BY <1>4 DEF page
<1>6. a + j \in 1..n /\ page[j] = items[a + j] /\ (a + j) - a = j
  BY <1>0, <1>1, <1>3, <1>4, <1>5
<1> QED
  BY <1>6 DEF a, page

(* The item is on exactly one pager of the list. *)
OnOnePager(list, size, it) ==
    LET pages == 1..TotalPages(Len(list), size)
        page(m) == Chain(list, size)[m].items
    IN \E m \in pages : /\ \E j \in DOMAIN page(m) : page(m)[j] = it
                        /\ \A l \in pages : \A j \in DOMAIN page(l) : page(l)[j] = it => l = m

AtOnePlace(list, it) ==
    \E i \in 1..Len(list) : list[i] = it /\ \A j \in 1..Len(list) : list[j] = it => j = i

(* What is at one place of a list is on one of its pagers. *)
LEMMA EachOnOne ==
  ASSUME NEW S, NEW list \in Seq(S), NEW size \in Nat \ {0}, NEW it, AtOnePlace(list, it)
  PROVE  OnOnePager(list, size, it)
<1>0. PICK i \in 1..Len(list) : list[i] = it /\ \A j \in 1..Len(list) : list[j] = it => j = i
  BY DEF AtOnePlace
<1> DEFINE k == (i - 1) \div size + 1
           page(m) == Chain(list, size)[m].items
           t == TotalPages(Len(list), size)
<1>1. /\ k \in 1..t
      /\ i - (k - 1) * size \in DOMAIN page(k) /\ page(k)[i - (k - 1) * size] = it
      /\ \A l \in 1..t : i - (l - 1) * size \in DOMAIN page(l) => l = k
  <2>1. /\ k \in 1..t
        /\ page(k)[i - (k - 1) * size] = list[i] /\ i - (k - 1) * size \in DOMAIN page(k)
        /\ \A l \in 1..t : i - (l - 1) * size \in DOMAIN page(l) => l = k
    BY ONLY list \in Seq(S), size \in Nat \ {0}, i \in 1..Len(list), ItemsOnOnePager
  <2> HIDE DEF k, page, t
  <2> QED
    BY ONLY <2>1, <1>0
<1>2. ASSUME NEW l \in 1..t, NEW j \in DOMAIN page(l), page(l)[j] = it PROVE l = k
  <2> DEFINE h == (l - 1) * size + j
  <2>1. h \in 1..Len(list) /\ list[h] = it /\ h - (l - 1) * size = j
    <3>1. page(l)[j] = list[h] /\ h \in 1..Len(list) /\ h - (l - 1) * size = j
      BY ONLY l \in 1..t, j \in DOMAIN page(l), list \in Seq(S), size \in Nat \ {0}, ChainItems
    <3> QED
      BY ONLY <3>1, <1>2
  <2> HIDE DEF k, page, h
  <2>2. h = i
    BY <1>0, <2>1
  <2> QED
    BY <2>1, <2>2, <1>1, <1>2
<1> HIDE DEF k, page, t
<1>3. \E m \in 1..t : /\ \E j \in DOMAIN page(m) : page(m)[j] = it
                      /\ \A l \in 1..t : \A j \in DOMAIN page(l) : page(l)[j] = it => l = m
  BY <1>1, <1>2
<1> QED
  BY <1>3 DEF page, t, OnOnePager

(* A page of the index is a pager over what matches. *)
LEMMA QueryIsPager ==
  ASSUME NEW items, NEW f, Listing(items, f) \in Seq(Matched(items, f)), f.limit \in 1..50,
         f.page \in 1..TotalPages(Len(Listing(items, f)), f.limit), f.page <= MaxPage
  PROVE  Query(items, f).data = Chain(Listing(items, f), f.limit)[f.page].items
<1> DEFINE list == Listing(items, f)
           S == Matched(items, f)
           limit == f.limit
           page == f.page
<1>1. /\ list \in Seq(S) /\ limit \in 1..50 /\ page \in 1..TotalPages(Len(list), limit)
      /\ page <= MaxPage
  OBVIOUS
<1> DEFINE p == Between(page, 1, MaxPage)
           l == IF limit < 1 THEN 10 ELSE Between(limit, 1, 50)
           start == Least((p - 1) * l, Len(list))
           d == SubSeq(list, start + 1, Least(start + l, Len(list)))
           total == Len(list)
<1>2. Query(items, f) = [data |-> d, total |-> total, page |-> p, limit |-> l]
  BY ONLY DEF Query
<1>3. Query(items, f).data = d
  <2> HIDE DEF d, total, p, l
  <2> QED
    BY ONLY <1>2
<1> HIDE DEF list, S, limit, page
<1>4. limit \in Nat \ {0}
  BY ONLY <1>1
<1>5. Len(list) \in Nat
  BY ONLY <1>1
<1>6. TotalPages(Len(list), limit) \in Nat
  BY ONLY <1>4, <1>5, TotalIs
<1>7. page \in Nat /\ page >= 1
  BY ONLY <1>1, <1>6
<1>8. p = page /\ l = limit
  <2>1. MaxPage \in Nat
    BY ONLY DEF MaxPage
  <2> QED
    BY ONLY <2>1, <1>1, <1>7 DEF Between
<1>9. d = Clone(list, limit, page).items
  <2> HIDE DEF p, l
  <2> QED
    BY ONLY <1>8 DEF Clone
<1>10. Clone(list, limit, page) = Chain(list, limit)[page]
  BY ONLY <1>1, <1>4, PagersAgree
<1> HIDE DEF d
<1> QED
  BY ONLY <1>3, <1>9, <1>10 DEF list, limit, page

(* A request for page m of what carries a tag in a section. *)
AskFor(section, tag, limit, m) == [section |-> section, tag |-> tag, page |-> m, limit |-> limit]

LEMMA AskedSame ==
  ASSUME NEW section, NEW tag, NEW limit, NEW m, NEW items
  PROVE  /\ AskFor(section, tag, limit, m).limit = limit /\ AskFor(section, tag, limit, m).page = m
         /\ Matched(items, AskFor(section, tag, limit, m)) = Matched(items, AskFor(section, tag, limit, 1))
         /\ Listing(items, AskFor(section, tag, limit, m)) = Listing(items, AskFor(section, tag, limit, 1))
<1>1. AskFor(section, tag, limit, m).limit = limit /\ AskFor(section, tag, limit, m).page = m
  BY DEF AskFor
<1>2. Matched(items, AskFor(section, tag, limit, m)) = Matched(items, AskFor(section, tag, limit, 1))
  BY DEF AskFor, Matched
<1>3. Listing(items, AskFor(section, tag, limit, m)) = Listing(items, AskFor(section, tag, limit, 1))
  BY <1>2 DEF Listing, InOrder
<1> QED
  BY <1>1, <1>2, <1>3

LEMMA MatchedSome ==
  ASSUME NEW items, NEW f, IsFiniteSet(items), Distinct(items)
  PROVE  LET S == Matched(items, f) IN IsFiniteSet(S) /\ Distinct(S) /\ Cardinality(S) \in Nat
<1> DEFINE S == Matched(items, f)
<1>1. S \in SUBSET items
  BY DEF Matched
<1> HIDE DEF S
<1>2. IsFiniteSet(S) /\ Cardinality(S) \in Nat
  BY <1>1, FS_Subset, FS_CardinalityType
<1>3. Distinct(S)
  BY <1>1 DEF Distinct
<1> QED
  BY <1>2, <1>3 DEF S

LEMMA AskedIsPager ==
  ASSUME NEW items, NEW section, NEW tag, NEW limit \in 1..50, NEW list,
         Listing(items, AskFor(section, tag, limit, 1)) = list,
         list \in Seq(Matched(items, AskFor(section, tag, limit, 1))),
         NEW m \in 1..TotalPages(Len(list), limit), m <= MaxPage
  PROVE  Query(items, AskFor(section, tag, limit, m)).data = Chain(list, limit)[m].items
<1>1. PICK f : f = AskFor(section, tag, limit, m)
  OBVIOUS
<1>2. /\ Listing(items, f) = list /\ f.limit = limit /\ f.page = m
      /\ Matched(items, f) = Matched(items, AskFor(section, tag, limit, 1))
  BY ONLY <1>1, Listing(items, AskFor(section, tag, limit, 1)) = list, AskedSame
<1>3. Query(items, f).data = Chain(Listing(items, f), f.limit)[f.page].items
  BY <1>2, QueryIsPager
<1> QED
  BY ONLY <1>1, <1>2, <1>3

(* Asked page by page, with any limit the handler takes, the index gives     *)
(* every item that matches on exactly one of the pages it counts.            *)
THEOREM QueriesShowAllOnce ==
  ASSUME NEW items, IsFiniteSet(items), Distinct(items), NEW section, NEW tag, NEW limit \in 1..50,
         NEW total, total = Query(items, AskFor(section, tag, limit, 1)).total, total <= MaxPage,
         NEW it \in Matched(items, AskFor(section, tag, limit, 1))
  PROVE  LET data(m) == Query(items, AskFor(section, tag, limit, m)).data
             pages == 1..TotalPages(total, limit)
         IN \E m \in pages : /\ \E j \in DOMAIN data(m) : data(m)[j] = it
                             /\ \A l \in pages : \A j \in DOMAIN data(l) : data(l)[j] = it => l = m
<1> DEFINE S == Matched(items, AskFor(section, tag, limit, 1))
           list == Listing(items, AskFor(section, tag, limit, 1))
           n == Cardinality(S)
           t == TotalPages(total, limit)
           data(m) == Query(items, AskFor(section, tag, limit, m)).data
           page(m) == Chain(list, limit)[m].items
<1>0. total <= MaxPage /\ MaxPage \in Nat
  BY ONLY total <= MaxPage DEF MaxPage
<1>1. IsFiniteSet(S) /\ Distinct(S) /\ n \in Nat
  BY ONLY IsFiniteSet(items), Distinct(items), MatchedSome
<1>3. /\ list \in [1..n -> S]
      /\ \A p \in S : \E i \in 1..n : list[i] = p
      /\ \A i, j \in 1..n : i < j => Newer(list[i], list[j]) /\ list[i] # list[j]
  BY ONLY <1>1, ItemsInOrder
<1>4. total = Len(list)
  BY ONLY total = Query(items, AskFor(section, tag, limit, 1)).total DEF Query
<1> HIDE DEF S, list, n
<1>6. list \in Seq(S) /\ Len(list) = n
  BY <1>1, <1>3
<1>7. \A i, j \in 1..n : list[i] = list[j] => i = j
  BY ONLY <1>1, <1>3
<1>9. limit \in Nat \ {0} /\ total = n
  BY <1>4, <1>6
<1>10. t \in Nat /\ t <= n
  <2>1. t \in Nat /\ t * limit < n + limit
    BY ONLY <1>1, <1>9, TotalIs
  <2> HIDE DEF t
  <2> QED
    BY ONLY <2>1, <1>1, <1>9, Z3T(30)
<1>11. \A m \in 1..t : data(m) = page(m)
  <2> SUFFICES ASSUME NEW m \in 1..t PROVE data(m) = page(m)
    OBVIOUS
  <2>1. m <= MaxPage
    <3> HIDE DEF t
    <3> QED
      BY ONLY <1>9, <1>10, <1>1, m \in 1..t, <1>0
  <2>2. m \in 1..TotalPages(Len(list), limit)
    BY ONLY <1>4, m \in 1..t
  <2>3. Query(items, AskFor(section, tag, limit, m)).data = Chain(list, limit)[m].items
    <3>1. Listing(items, AskFor(section, tag, limit, 1)) = list
      BY ONLY DEF list
    <3>2. list \in Seq(Matched(items, AskFor(section, tag, limit, 1)))
      BY ONLY <1>6 DEF S
    <3> QED
      BY ONLY <3>1, <3>2, <2>1, <2>2, limit \in 1..50, AskedIsPager
  <2> QED
    BY ONLY <2>3
<1>12. it \in S
  BY DEF S
<1>13. PICK i \in 1..n : list[i] = it
  BY <1>3, <1>12
<1>14. \E m \in 1..t : /\ \E j \in DOMAIN page(m) : page(m)[j] = it
                       /\ \A l \in 1..t : \A j \in DOMAIN page(l) : page(l)[j] = it => l = m
  <2>1. AtOnePlace(list, it)
    BY <1>6, <1>7, <1>13 DEF AtOnePlace
  <2>2. OnOnePager(list, limit, it)
    BY ONLY <2>1, <1>6, <1>9, EachOnOne
  <2> QED
    BY ONLY <2>2, <1>4, Zenon DEF OnOnePager, t
<1> HIDE DEF t, data, page
<1>15. \E m \in 1..t : /\ \E j \in DOMAIN data(m) : data(m)[j] = it
                       /\ \A l \in 1..t : \A j \in DOMAIN data(l) : data(l)[j] = it => l = m
  BY <1>11, <1>14
<1> QED
  BY <1>15 DEF t, data

-----------------------------------------------------------------------------
(* The sites a run may start from, the disk and what a build has read of it. *)
SourcesInv ==
    /\ \E i \in DOMAIN Configs : conf = Configs[i]
    /\ disk \subseteq Contents(conf) /\ OneEach(disk)
    /\ job.files \subseteq Contents(conf) /\ OneEach(job.files)

LEMMA SiteAssumed == SourcesInv => ContentAssumed(conf) /\ LanguagesAssumed(conf) /\ FilesAssumed(conf)
  BY SitesAssumption DEF SourcesInv

LEMMA ConfKept == [Next]_vars => conf' = conf
<1> SUFFICES ASSUME [Next]_vars PROVE conf' = conf
  OBVIOUS
<1>1. ASSUME NEW p, Save(p) \/ Delete(p) PROVE conf' = conf
  BY <1>1 DEF Save, Delete
<1>2. EditTemplates \/ StartFull \/ RunImagePipeline \/ StartIncremental => conf' = conf
  BY DEF EditTemplates, StartFull, RunImagePipeline, StartIncremental
<1>3. ASSUME NEW B, RenderMarkdown(B) \/ SetupTemplates(B) \/ BuildLanguage(B) \/ IncrementalRender(B)
      PROVE  conf' = conf
  BY <1>3 DEF RenderMarkdown, SetupTemplates, BuildLanguage, IncrementalRender
<1> QED
  BY <1>1, <1>2, <1>3 DEF Next, Author, Build, InFull, vars

(* Saving replaces the file, whatever it held.                               *)
LEMMA DiskMoves ==
  ASSUME SourcesInv, [Next]_vars
  PROVE  disk' \subseteq Contents(conf) /\ OneEach(disk')
<1>0. disk \subseteq Contents(conf) /\ OneEach(disk)
  BY DEF SourcesInv
<1>1. ASSUME NEW p \in conf.versions, Save(p) PROVE disk' \subseteq Contents(conf) /\ OneEach(disk')
  <2>1. disk' = {q \in disk : File(q) # File(p)} \cup {p}
    BY <1>1 DEF Save
  <2> QED
    BY <1>0, <2>1 DEF OneEach, Contents
<1>2. ASSUME NEW p \in disk, Delete(p) PROVE disk' \subseteq Contents(conf) /\ OneEach(disk')
  <2>1. disk' = disk \ {p}
    BY <1>2 DEF Delete
  <2> QED
    BY <1>0, <2>1 DEF OneEach
<1>3. EditTemplates \/ StartFull \/ RunImagePipeline \/ StartIncremental => disk' = disk
  BY DEF EditTemplates, StartFull, RunImagePipeline, StartIncremental
<1>4. ASSUME NEW B, RenderMarkdown(B) \/ SetupTemplates(B) \/ BuildLanguage(B) \/ IncrementalRender(B)
      PROVE  disk' = disk
  BY <1>4 DEF RenderMarkdown, SetupTemplates, BuildLanguage, IncrementalRender
<1> QED
  BY <1>0, <1>1, <1>2, <1>3, <1>4 DEF Next, Author, Build, InFull, vars

LEMMA NoFiles == ASSUME NEW site PROVE {} \subseteq Contents(site) /\ OneEach({})
  BY DEF OneEach

LEMMA InitSources == Init => SourcesInv
<1> SUFFICES ASSUME Init PROVE SourcesInv
  OBVIOUS
<1>1. PICK i \in DOMAIN Configs : conf = Configs[i]
  BY DEF Init
<1>2. disk = conf.start /\ job.files = {}
  BY DEF Init, NoJob
<1>3. OneEach(conf.start)
  BY <1>1, SitesAssumption DEF ContentAssumed
<1> QED
  BY <1>1, <1>2, <1>3, NoFiles DEF SourcesInv, Contents

LEMMA SourcesStep == StepsInv /\ SourcesInv /\ [Next]_vars => SourcesInv'
<1> SUFFICES ASSUME StepsInv, SourcesInv, [Next]_vars PROVE SourcesInv'
  OBVIOUS
<1>1. conf' = conf
  BY ConfKept
<1>2. disk' \subseteq Contents(conf) /\ OneEach(disk')
  BY DiskMoves
<1>3. job'.files \subseteq Contents(conf) /\ OneEach(job'.files)
  <2>1. job' = job \/ job'.files = {} \/ job'.files = disk \/ job'.files = job.files
    <3>1. CASE Next
      BY <3>1, JobMoves DEF JobOf
    <3>2. CASE UNCHANGED vars
      BY <3>2 DEF vars
    <3> QED
      BY <3>1, <3>2
  <2> QED
    BY <2>1, NoFiles DEF SourcesInv
<1> QED
  BY <1>1, <1>2, <1>3 DEF SourcesInv

-----------------------------------------------------------------------------
(* What a build of a language reads and makes of it.                         *)
IsBuild(B, c, F) ==
    /\ ContentAssumed(conf) /\ LanguagesAssumed(conf) /\ FilesAssumed(conf) /\ c \in Builds(conf)
    /\ F \subseteq Contents(conf) /\ OneEach(F) /\ B = Load(conf, c, F)

(* Pages, made-up ones included.                                             *)
AllPages(site) ==
    Contents(site) \cup {Synthetic(<<p.dir[1]>>) : p \in {q \in Contents(site) : q.dir # <<>>}}
        \cup {Synthetic(<<>>)}

LEMMA RanksKnown ==
  ASSUME ContentAssumed(conf), NEW p \in AllPages(conf)
  PROVE  /\ Path(p) \in DOMAIN Rank /\ Rank[Path(p)] \in Nat
         /\ p.weight \in Nat /\ p.date \in Nat /\ p.title \in Nat
<1>1. Path(p) \in DOMAIN Rank /\ p.weight \in Nat /\ p.date \in Nat /\ p.title \in Nat
  <2>1. CASE p \in Contents(conf)
    BY <2>1 DEF ContentAssumed
  <2>2. ASSUME NEW d, p = Synthetic(d), <<d, "_index">> \in DOMAIN Rank
        PROVE  Path(p) \in DOMAIN Rank /\ p.weight \in Nat /\ p.date \in Nat /\ p.title \in Nat
    BY <2>2 DEF Synthetic, Path
  <2>3. CASE p = Synthetic(<<>>)
    BY <2>2, <2>3, SitesAssumption
  <2>4. ASSUME NEW q \in Contents(conf), q.dir # <<>>, p = Synthetic(<<q.dir[1]>>)
        PROVE  Path(p) \in DOMAIN Rank /\ p.weight \in Nat /\ p.date \in Nat /\ p.title \in Nat
    <3>1. <<<<q.dir[1]>>, "_index">> \in DOMAIN Rank
      BY <2>4 DEF ContentAssumed
    <3> QED
      BY <2>2, <2>4, <3>1
  <2> QED
    BY <2>1, <2>3, <2>4 DEF AllPages
<1> QED
  BY <1>1, SitesAssumption

LEMMA SyntheticIs ==
  ASSUME NEW d PROVE Synthetic(d).dir = d /\ Synthetic(d).base = "_index" /\ Path(Synthetic(d)) = <<d, "_index">>
                     /\ Synthetic(d).draft = FALSE /\ Synthetic(d).tags = <<>>
  BY DEF Synthetic, Path

LEMMA AutoIs ==
  ASSUME NEW F, NEW s \in AutoSections(F)
  PROVE  \E q \in F : /\ q.dir # <<>> /\ s = Synthetic(<<q.dir[1]>>)
                      /\ \A p \in F : ~(p.base = "_index" /\ p.dir = <<q.dir[1]>>)
<1> DEFINE tops == {p.dir[1] : p \in {q \in F : Kind(q) = "page" /\ q.dir # <<>>}}
           other(d) == \E p \in F : p.dir # <<>> /\ p.dir[1] = d /\ p.base # "index"
           covered(d) == \E p \in F : p.base = "_index" /\ p.dir = <<d>>
<1>1. PICK d \in tops : s = Synthetic(<<d>>) /\ ~covered(d)
  BY DEF AutoSections
<1>2. PICK q \in F : q.dir # <<>> /\ d = q.dir[1]
  BY <1>1
<1> QED
  BY <1>1, <1>2

LEMMA AutoFinite == ASSUME NEW F, IsFiniteSet(F) PROVE IsFiniteSet(AutoSections(F))
<1> DEFINE f == [q \in F |-> Synthetic(<<q.dir[1]>>)]
           R == {f[q] : q \in F}
<1>1. IsFiniteSet(R)
  <2>1. f \in Surjection(F, R)
    BY DEF Surjection
  <2> QED
    BY <2>1, FS_Surjection
<1>2. AutoSections(F) \in SUBSET R
  BY AutoIs
<1> HIDE DEF R
<1> QED
  BY <1>1, <1>2, FS_Subset

(* The home page of a tree is of its pages, and is one.                      *)
LEMMA HomeIs ==
  ASSUME NEW T, \A h \in T : Rank[Path(h)] \in Nat
  PROVE  /\ Kind(Home(T)) = "home"
         /\ Home(T) \in T \/ ((\A h \in T : Kind(h) # "home") /\ Home(T) = Synthetic(<<>>))
<1> DEFINE homes == {p \in T : Kind(p) = "home"}
           First(h) == \A g \in homes : Rank[Path(h)] <= Rank[Path(g)]
<1>1. CASE homes = {}
  BY <1>1, SyntheticIs DEF Home, Kind
<1>2. CASE homes # {}
  <2>1. \A h \in homes : h.dir = <<>> /\ h.base \in {"_index", "index"} /\ Rank[Path(h)] \in Nat
    BY DEF Kind
  <2>2. \A g, h \in homes : g.base = h.base => Path(g) = Path(h)
    BY <2>1 DEF Path
  <2>3. \E h \in homes : First(h)
    <3>1. PICK h \in homes : TRUE
      BY <1>2
    <3>2. CASE \E g \in homes : ~(Rank[Path(h)] <= Rank[Path(g)])
      <4>1. PICK g \in homes : ~(Rank[Path(h)] <= Rank[Path(g)])
        BY <3>2
      <4> HIDE DEF homes
      <4>2. g.base # h.base
        BY <2>1, <2>2, <4>1
      <4>3. \A k \in homes : Path(k) = Path(g) \/ Path(k) = Path(h)
        BY <2>1, <2>2, <4>2
      <4>4. First(g)
        BY <2>1, <4>1, <4>3
      <4> QED
        BY <4>4
    <3> QED
      BY <3>1, <3>2
  <2>4. Home(T) = CHOOSE h \in homes : First(h)
    BY <1>2 DEF Home
  <2> HIDE DEF homes, First
  <2>5. Home(T) \in homes
    BY <2>3, <2>4, Zenon
  <2> QED
    BY <2>5 DEF homes
<1> QED
  BY <1>1, <1>2

LEMMA FilesAre ==
  ASSUME NEW B, NEW c, NEW F, IsBuild(B, c, F)
  PROVE  /\ B.files = {p \in F : InLanguage(conf, c, p)} /\ B.tree = Tree(B.files)
         /\ B.pages = SitePages(B.tree) /\ B.conf = conf /\ B.code = c /\ B.templates = Templates(conf)
         /\ B.files \subseteq Contents(conf) /\ IsFiniteSet(B.files)
         /\ \A p, q \in B.files : Path(p) = Path(q) => p = q
<1>1. /\ B.files = {p \in F : InLanguage(conf, c, p)} /\ B.tree = Tree(B.files)
      /\ B.pages = SitePages(B.tree) /\ B.conf = conf /\ B.code = c /\ B.templates = Templates(conf)
  BY DEF IsBuild, Load
<1>2. B.files \in SUBSET Contents(conf) /\ IsFiniteSet(Contents(conf))
  BY <1>1 DEF IsBuild, ContentAssumed
<1>3. ASSUME NEW p \in B.files, NEW q \in B.files, Path(p) = Path(q) PROVE p = q
  <2>1. p.lang = q.lang
    BY <1>1, <1>2, <1>3 DEF IsBuild, ContentAssumed
  <2>2. File(p) = File(q)
    BY <1>3, <2>1 DEF File, Path
  <2> QED
    BY <1>1, <2>2 DEF IsBuild, OneEach
<1> QED
  BY <1>1, <1>2, <1>3, FS_Subset

LEMMA TreeIs ==
  ASSUME NEW B, NEW c, NEW F, IsBuild(B, c, F)
  PROVE  /\ B.tree \subseteq B.pages /\ B.pages \subseteq AllPages(conf)
         /\ IsFiniteSet(B.pages) /\ IsFiniteSet(B.tree) /\ Comparable(B.pages)
         /\ Home(B.tree) \in B.pages /\ Kind(Home(B.tree)) = "home"
<1> DEFINE T == B.tree
           P == B.pages
<1>1. /\ T = B.files \cup AutoSections(B.files) /\ P = T \cup {Home(T)}
      /\ B.files \subseteq Contents(conf) /\ IsFiniteSet(B.files)
      /\ \A p, q \in B.files : Path(p) = Path(q) => p = q
  BY FilesAre DEF Tree, SitePages
<1>2. ContentAssumed(conf)
  BY DEF IsBuild
<1>3. \A s \in AutoSections(B.files) :
        \E q \in B.files : /\ q.dir # <<>> /\ s = Synthetic(<<q.dir[1]>>)
                           /\ \A p \in B.files : ~(p.base = "_index" /\ p.dir = <<q.dir[1]>>)
  BY AutoIs
<1>4. T \subseteq AllPages(conf)
  BY <1>1, <1>3 DEF AllPages
<1>5. IsFiniteSet(T)
  <2>1. IsFiniteSet(B.files) /\ IsFiniteSet(AutoSections(B.files))
    BY <1>1, AutoFinite
  <2>2. IsFiniteSet(B.files \cup AutoSections(B.files))
    BY ONLY <2>1, FS_Union
  <2> QED
    BY <1>1, <2>2
<1> HIDE DEF T, P
<1>6. \A p \in AllPages(conf) : /\ Path(p) \in DOMAIN Rank /\ Rank[Path(p)] \in Nat
                                /\ p.weight \in Nat /\ p.date \in Nat /\ p.title \in Nat
  BY <1>2, RanksKnown
<1>7. /\ Kind(Home(T)) = "home"
      /\ Home(T) \in T \/ ((\A h \in T : Kind(h) # "home") /\ Home(T) = Synthetic(<<>>))
  BY <1>4, <1>6, HomeIs
<1>8. P \subseteq AllPages(conf)
  BY <1>1, <1>4, <1>7 DEF AllPages
<1>9. IsFiniteSet(P)
  BY <1>1, <1>5, FS_AddElement
<1>10. ASSUME NEW a \in T, NEW b \in T, Path(a) = Path(b) PROVE a = b
  <2>1. CASE a \in B.files /\ b \in B.files
    BY <1>1, <1>10, <2>1
  <2>2. ASSUME NEW x \in B.files, NEW y \in AutoSections(B.files), Path(x) = Path(y) PROVE FALSE
    <3>1. PICK q \in B.files : /\ y = Synthetic(<<q.dir[1]>>)
                               /\ \A p \in B.files : ~(p.base = "_index" /\ p.dir = <<q.dir[1]>>)
      BY <1>3
    <3>2. Path(y) = <<<<q.dir[1]>>, "_index">>
      BY <3>1, SyntheticIs
    <3> DEFINE d == <<q.dir[1]>>
    <3>3. x.dir = d /\ x.base = "_index"
      <4> HIDE DEF d
      <4>1. Path(x) = <<d, "_index">>
        BY <2>2, <3>2 DEF d
      <4> QED
        BY ONLY <4>1 DEF Path
    <3> QED
      BY <3>1, <3>3
  <2>3. CASE a \in AutoSections(B.files) /\ b \in AutoSections(B.files)
    <3>1. PICK d, e : a = Synthetic(d) /\ b = Synthetic(e)
      BY <1>3, <2>3
    <3>2. d = e
      <4>1. <<d, "_index">> = <<e, "_index">>
        BY <1>10, <3>1, SyntheticIs
      <4> QED
        BY ONLY <4>1
    <3> QED
      BY <3>1, <3>2
  <2> QED
    BY <1>1, <1>10, <2>1, <2>2, <2>3
<1>11. ASSUME NEW a \in P, NEW b \in P, Path(a) = Path(b) PROVE a = b
  <2>1. ASSUME NEW x \in T, \A h \in T : Kind(h) # "home", Path(x) = Path(Synthetic(<<>>)) PROVE FALSE
    BY <2>1, SyntheticIs DEF Kind, Path
  <2> QED
    BY <1>1, <1>7, <1>10, <1>11, <2>1
<1>12. Comparable(P)
  <2>1. \A a, b \in P : Rank[Path(a)] = Rank[Path(b)] => a = b
    BY <1>6, <1>8, <1>11, SitesAssumption
  <2> QED
    BY <1>6, <1>8, <2>1 DEF Comparable
<1> QED
  BY <1>1, <1>5, <1>7, <1>8, <1>9, <1>12 DEF T, P

-----------------------------------------------------------------------------
(* The lists of a build hold pages of it.                                    *)
LEMMA PickedIs ==
  ASSUME NEW S, NEW s \in Seq(S), NEW places, places \subseteq DOMAIN s
  PROVE  /\ Picked(s, places) \in Seq({s[k] : k \in places})
         /\ \A k \in places : \E i \in DOMAIN Picked(s, places) : Picked(s, places)[i] = s[k]
         /\ \A i, j \in DOMAIN Picked(s, places) : i < j =>
               \E k, l \in places : k < l /\ Picked(s, places)[i] = s[k] /\ Picked(s, places)[j] = s[l]
<1> DEFINE R == {e \in places \X places : e[1] < e[2]}
           order == Ordered(places, R)
           list == Picked(s, places)
<1>0. DOMAIN s = 1..Len(s) /\ Len(s) \in Nat
  OBVIOUS
<1>1. IsFiniteSet(places)
  <2>1. IsFiniteSet(1..Len(s))
    <3>1. 1 \in Int /\ Len(s) \in Int
      BY <1>0
    <3> QED
      BY <3>1, FS_Interval
  <2> QED
    BY <1>0, <2>1, FS_Subset
<1>2. StrictOrder(places, R)
  <2>1. \A a \in places : a \in Nat
    BY <1>0
  <2>2. \A a, b \in places : <<a, b>> \in R <=> a < b
    OBVIOUS
  <2> HIDE DEF R
  <2> QED
    BY <2>1, <2>2 DEF StrictOrder
<1>3. list = [i \in DOMAIN order |-> s[order[i]]]
  BY DEF Picked, InOrder
<1> HIDE DEF R
<1>o. /\ order \in [1..Cardinality(places) -> places] /\ Cardinality(places) \in Nat
      /\ \A p \in places : \E i \in 1..Cardinality(places) : order[i] = p
      /\ \A i, j \in 1..Cardinality(places) : i < j => <<order[i], order[j]>> \in R
  <2>1. order = Ordered(places, R)
    OBVIOUS
  <2> HIDE DEF order
  <2>2. /\ Cardinality(places) \in Nat /\ order \in Seq(places) /\ Len(order) = Cardinality(places)
        /\ order \in [1..Cardinality(places) -> places]
        /\ \A p \in places : \E i \in 1..Cardinality(places) : order[i] = p
        /\ \A i, j \in 1..Cardinality(places) : i < j => <<order[i], order[j]>> \in R /\ order[i] # order[j]
    BY ONLY <1>1, <1>2, <2>1, OrderedAll
  <2> QED
    BY <2>2
<1>4. /\ order \in [1..Cardinality(places) -> places] /\ Cardinality(places) \in Nat
      /\ \A p \in places : \E i \in 1..Cardinality(places) : order[i] = p
  BY <1>o
<1>9. \A i, j \in 1..Cardinality(places) : i < j => order[i] < order[j]
  <2>1. \A a, b \in places : <<a, b>> \in R => a < b
    BY DEF R
  <2> HIDE DEF order
  <2> QED
    BY <1>o, <2>1
<1> HIDE DEF order
<1>5. /\ list \in [1..Cardinality(places) -> {s[k] : k \in places}]
      /\ \A i \in 1..Cardinality(places) : list[i] = s[order[i]]
      /\ DOMAIN list = 1..Cardinality(places)
  BY <1>3, <1>4
<1> HIDE DEF list
<1>6. \A k \in places : \E i \in DOMAIN list : list[i] = s[k]
  BY <1>4, <1>5
<1>7. list \in Seq({s[k] : k \in places})
  BY ONLY <1>4, <1>5
<1>8. \A i, j \in DOMAIN list : i < j => \E k, l \in places : k < l /\ list[i] = s[k] /\ list[j] = s[l]
  BY <1>4, <1>5, <1>9
<1> QED
  BY <1>6, <1>7, <1>8 DEF list

LEMMA SeqWider == ASSUME NEW S, NEW T, S \subseteq T, NEW s \in Seq(S) PROVE s \in Seq(T)
  OBVIOUS

LEMMA VisibleIs ==
  ASSUME NEW S, NEW s \in Seq(S), NEW drafts
  PROVE  /\ Visible(s, drafts) \in Seq(S)
         /\ ~drafts => Visible(s, drafts) \in Seq({p \in S : ~p.draft})
<1> DEFINE places == {k \in DOMAIN s : drafts \/ ~s[k].draft}
<1>1. Visible(s, drafts) \in Seq({s[k] : k \in places})
  <2>1. places \subseteq DOMAIN s
    OBVIOUS
  <2> HIDE DEF places
  <2>2. Picked(s, places) \in Seq({s[k] : k \in places})
    BY ONLY <2>1, s \in Seq(S), PickedIs
  <2> QED
    BY <2>2 DEF Visible, places
<1>2. {s[k] : k \in places} \subseteq S
  OBVIOUS
<1>3. ~drafts => {s[k] : k \in places} \subseteq {p \in S : ~p.draft}
  OBVIOUS
<1> HIDE DEF places
<1> QED
  BY ONLY <1>1, <1>2, <1>3, SeqWider

LEMMA SortedIs ==
  ASSUME NEW S, IsFiniteSet(S), Comparable(S)
  PROVE  Sorted(S) \in Seq(S)
  BY SortedListsAll, FS_CardinalityType

LEMMA SomeComparable ==
  ASSUME NEW S, IsFiniteSet(S), Comparable(S), NEW T, T \subseteq S
  PROVE  IsFiniteSet(T) /\ Comparable(T)
  BY FS_Subset DEF Comparable

(* Pages by path, the sitemap's order.                                       *)
LEMMA ByPathIs ==
  ASSUME NEW S, IsFiniteSet(S), Comparable(S)
  PROVE  InOrder(S, LAMBDA a, b : Rank[Path(a)] < Rank[Path(b)]) \in Seq(S)
<1> DEFINE R == {e \in S \X S : Rank[Path(e[1])] < Rank[Path(e[2])]}
<1>1. StrictOrder(S, R)
  <2>1. \A a, b \in S : <<a, b>> \in R <=> Rank[Path(a)] < Rank[Path(b)]
    OBVIOUS
  <2> HIDE DEF R
  <2> QED
    BY <2>1 DEF StrictOrder, Comparable
<1>2. InOrder(S, LAMBDA a, b : Rank[Path(a)] < Rank[Path(b)]) = Ordered(S, R)
  BY DEF InOrder
<1> HIDE DEF R
<1>3. Ordered(S, R) \in Seq(S)
  BY <1>1, OrderedAll
<1> QED
  BY ONLY <1>2, <1>3

(* Pages by date, the order of the content API.                              *)
LEMMA ByDateIs ==
  ASSUME NEW S, IsFiniteSet(S), Comparable(S)
  PROVE  InOrder(S, LAMBDA a, b : a.date > b.date \/ (a.date = b.date /\ Rank[Path(a)] < Rank[Path(b)])) \in Seq(S)
<1> DEFINE newer(a, b) == a.date > b.date \/ (a.date = b.date /\ Rank[Path(a)] < Rank[Path(b)])
           R == {e \in S \X S : newer(e[1], e[2])}
<1>1. StrictOrder(S, R)
  <2>1. \A a, b \in S : <<a, b>> \in R <=> newer(a, b)
    OBVIOUS
  <2> HIDE DEF R
  <2> QED
    BY <2>1 DEF StrictOrder, Comparable
<1>2. InOrder(S, newer) = Ordered(S, R)
  BY DEF InOrder
<1> HIDE DEF R
<1>3. Ordered(S, R) \in Seq(S)
  BY <1>1, OrderedAll
<1> QED
  BY ONLY <1>2, <1>3

(* A page has each tag once for every time its front matter has it.          *)
LEMMA TagsKnown ==
  ASSUME ContentAssumed(conf), NEW p \in AllPages(conf)
  PROVE  p.tags \in Seq([key : STRING, form : STRING])
<1>1. ASSUME NEW d, p = Synthetic(d) PROVE p.tags \in Seq([key : STRING, form : STRING])
  <2>1. p.tags = <<>>
    BY <1>1, SyntheticIs
  <2> QED
    BY <2>1
<1>2. CASE p \in Contents(conf)
  BY <1>2 DEF ContentAssumed
<1> QED
  BY <1>1, <1>2 DEF AllPages

LEMMA PlacesFinite == ASSUME NEW n \in Nat PROVE IsFiniteSet(1..n)
<1>1. 1 \in Int /\ n \in Int
  OBVIOUS
<1> QED
  BY <1>1, FS_Interval

LEMMA EntriesAre ==
  ASSUME NEW B, NEW c, NEW F, IsBuild(B, c, F), NEW k
  PROVE  /\ IsFiniteSet(Entries(B.tree, k))
         /\ \A e \in Entries(B.tree, k) : /\ e[1] \in B.tree /\ ~e[1].draft
                                          /\ e[2] \in Nat /\ e = <<e[1], e[2]>>
<1> DEFINE D == Tagged(B.tree)
           f == [p \in D |-> {p} \X (DOMAIN p.tags)]
           R == {f[p] : p \in D}
<1>1. B.tree \subseteq AllPages(conf) /\ IsFiniteSet(B.tree) /\ ContentAssumed(conf)
  BY TreeIs DEF IsBuild
<1>2. D \subseteq B.tree /\ \A p \in D : ~p.draft
  BY DEF Tagged
<1>3. \A p \in D : Len(p.tags) \in Nat /\ DOMAIN p.tags = 1..Len(p.tags)
  <2>1. \A p \in D : p.tags \in Seq([key : STRING, form : STRING])
    BY <1>1, <1>2, TagsKnown
  <2> HIDE DEF D
  <2> QED
    BY <2>1
<1>4. Entries(B.tree, k) \in SUBSET (UNION R)
  BY DEF Entries
<1> HIDE DEF D
<1>5. IsFiniteSet(R)
  <2>1. f \in Surjection(D, R)
    BY DEF Surjection
  <2>2. IsFiniteSet(D)
    BY <1>1, <1>2, FS_Subset
  <2> QED
    BY <2>1, <2>2, FS_Surjection
<1>6. \A X \in R : IsFiniteSet(X)
  <2> SUFFICES ASSUME NEW p \in D PROVE IsFiniteSet({p} \X (DOMAIN p.tags))
    OBVIOUS
  <2>1. IsFiniteSet({p}) /\ IsFiniteSet(DOMAIN p.tags)
    <3>1. IsFiniteSet({p})
      BY FS_Singleton
    <3>2. IsFiniteSet(1..Len(p.tags))
      BY <1>3, PlacesFinite
    <3> QED
      BY <1>3, <3>1, <3>2
  <2> QED
    BY ONLY <2>1, FS_Product
<1>7. \A e \in UNION R : e[1] \in D /\ e[2] \in Nat /\ e = <<e[1], e[2]>>
  BY <1>3
<1> HIDE DEF R
<1>8. IsFiniteSet(UNION R)
  BY ONLY <1>5, <1>6, FS_UNION
<1> QED
  BY <1>2, <1>4, <1>7, <1>8, FS_Subset

LEMMA TermPagesAre ==
  ASSUME NEW B, NEW c, NEW F, IsBuild(B, c, F), NEW k
  PROVE  TermPages(B.tree, k) \in Seq({p \in B.tree : ~p.draft})
<1> DEFINE es == {e \in Entries(B.tree, k) : IsListed(B.tree, e[1])}
           less(a, b) == Before(a[1], b[1]) \/ (a[1] = b[1] /\ a[2] < b[2])
           R == {e \in es \X es : less(e[1], e[2])}
           order == Ordered(es, R)
           list == TermPages(B.tree, k)
<1>1. IsFiniteSet(es)
  <2>1. es \in SUBSET Entries(B.tree, k)
    OBVIOUS
  <2> HIDE DEF es
  <2> QED
    BY <2>1, EntriesAre, FS_Subset
<1>2. \A e \in es : e[1] \in B.tree /\ ~e[1].draft /\ e[2] \in Nat /\ e = <<e[1], e[2]>>
  BY EntriesAre
<1>3. \A a, b \in es : <<a, b>> \in R <=> less(a, b)
  OBVIOUS
<1>4. InOrder(es, less) = order
  BY DEF InOrder
<1>5. list = [i \in DOMAIN order |-> order[i][1]]
  BY <1>4 DEF TermPages
<1> HIDE DEF es, R, order, list
<1>6. StrictOrder(es, R)
  <2>1. Comparable(B.tree)
    BY TreeIs DEF Comparable
  <2>2. /\ \A a, b \in B.tree : Before(a, b) => a # b /\ ~Before(b, a)
        /\ \A a, b, d \in B.tree : Before(a, b) /\ Before(b, d) => Before(a, d)
        /\ \A a, b \in B.tree : a = b \/ Before(a, b) \/ Before(b, a)
    BY ONLY <2>1, BeforeOrders
  <2>3. ASSUME NEW a \in es, NEW b \in es, less(a, b) PROVE a # b /\ ~less(b, a)
    BY ONLY <1>2, <2>2, <2>3, a \in es, b \in es
  <2>4. ASSUME NEW a \in es, NEW b \in es, NEW d \in es, less(a, b), less(b, d) PROVE less(a, d)
    BY ONLY <1>2, <2>2, <2>4, a \in es, b \in es, d \in es
  <2>5. ASSUME NEW a \in es, NEW b \in es PROVE a = b \/ less(a, b) \/ less(b, a)
    <3>1. CASE a[1] = b[1]
      <4>1. a[2] = b[2] => a = b
        BY ONLY <1>2, <3>1, a \in es, b \in es
      <4>2. a[2] \in Nat /\ b[2] \in Nat
        BY <1>2
      <4> QED
        BY <3>1, <4>1, <4>2
    <3>2. CASE a[1] # b[1]
      BY <1>2, <2>2, <3>2
    <3> QED
      BY <3>1, <3>2
  <2> HIDE DEF less
  <2> QED
    BY ONLY <1>3, <2>3, <2>4, <2>5 DEF StrictOrder
<1>7. order \in [1..Cardinality(es) -> es] /\ Cardinality(es) \in Nat
  BY <1>1, <1>6, OrderedAll DEF order
<1>8. DOMAIN order = 1..Cardinality(es)
  BY <1>7
<1>9. list \in [1..Cardinality(es) -> {p \in B.tree : ~p.draft}]
  BY <1>2, <1>5, <1>7, <1>8
<1>10. list \in Seq({p \in B.tree : ~p.draft})
  BY ONLY <1>7, <1>9
<1> QED
  BY <1>10 DEF list
-----------------------------------------------------------------------------
(* Pages that are no drafts, home pages and sections left aside; and files    *)
(* that are about pages of a set and list only those.                        *)
Showable == {p \in AllPages(conf) : Kind(p) = "page" => ~p.draft}

Holds(S, view) == /\ {"own", "list"} \subseteq DOMAIN view
                  /\ view.own \in Seq(S) /\ view.list \in Seq(S)

AllHold(S, f) == \A q \in DOMAIN f : Holds(S, f[q])

Finished(B, c, F) == IsBuild(B, c, F) /\ ~conf.drafts

LEMMA ShowableIs ==
  ASSUME NEW B, NEW c, NEW F, Finished(B, c, F), NEW s
  PROVE  /\ s \in Seq({p \in B.tree : ~p.draft}) => s \in Seq(Showable)
         /\ s \in Seq({p \in B.pages : ~p.draft}) => s \in Seq(Showable)
<1>1. B.tree \subseteq AllPages(conf) /\ B.pages \subseteq AllPages(conf)
  BY TreeIs DEF Finished
<1>2. {p \in B.tree : ~p.draft} \subseteq Showable /\ {p \in B.pages : ~p.draft} \subseteq Showable
  BY <1>1 DEF Showable
<1> QED
  BY ONLY <1>2, SeqWider

(* The lists of a build, drafts taken out of them.                           *)
LEMMA VisibleShown ==
  ASSUME NEW B, NEW c, NEW F, Finished(B, c, F), NEW s \in Seq(B.tree)
  PROVE  Visible(s, B.conf.drafts) \in Seq({p \in B.tree : ~p.draft})
<1>1. ~B.conf.drafts
  BY FilesAre DEF Finished
<1>2. ~B.conf.drafts => Visible(s, B.conf.drafts) \in Seq({p \in B.tree : ~p.draft})
  BY ONLY VisibleIs, s \in Seq(B.tree)
<1> QED
  BY <1>1, <1>2

LEMMA SomeSorted ==
  ASSUME NEW B, NEW c, NEW F, IsBuild(B, c, F), NEW S, S \subseteq B.tree
  PROVE  Sorted(S) \in Seq(B.tree)
<1>1. S \subseteq B.pages /\ IsFiniteSet(B.pages) /\ Comparable(B.pages)
  BY TreeIs
<1>2. IsFiniteSet(S) /\ Comparable(S)
  BY ONLY <1>1, SomeComparable
<1>3. Sorted(S) \in Seq(S)
  BY ONLY <1>2, SortedIs
<1> QED
  BY ONLY <1>3, S \subseteq B.tree, SeqWider

LEMMA RegularAre ==
  ASSUME NEW B, NEW c, NEW F, IsBuild(B, c, F)
  PROVE  /\ SiteRegularPages(B.tree) \in Seq(B.tree)
         /\ \A d : RegularPages(B.tree, d) \in Seq(B.tree)
<1>1. SiteRegularPages(B.tree) \in Seq(B.tree)
  <2> DEFINE S == {p \in B.tree : Kind(p) = "page" /\ IsListed(B.tree, p)}
  <2>1. S \subseteq B.tree
    OBVIOUS
  <2> HIDE DEF S
  <2>2. Sorted(S) \in Seq(B.tree)
    BY ONLY <2>1, IsBuild(B, c, F), SomeSorted
  <2> QED
    BY <2>2 DEF SiteRegularPages, S
<1>2. ASSUME NEW d PROVE RegularPages(B.tree, d) \in Seq(B.tree)
  <2> DEFINE S == {p \in B.tree : Kind(p) = "page" /\ Parent(B.tree, p) = d /\ d # <<>> /\ IsListed(B.tree, p)}
  <2>1. S \subseteq B.tree
    OBVIOUS
  <2> HIDE DEF S
  <2>2. Sorted(S) \in Seq(B.tree)
    BY ONLY <2>1, IsBuild(B, c, F), SomeSorted
  <2> QED
    BY <2>2 DEF RegularPages, S
<1> QED
  BY <1>1, <1>2

LEMMA ListsShown ==
  ASSUME NEW B, NEW c, NEW F, Finished(B, c, F)
  PROVE  /\ Visible(SiteRegularPages(B.tree), B.conf.drafts) \in Seq(Showable)
         /\ \A p : Children(B, p) \in Seq(Showable)
         /\ MainItems(B) \in Seq(Showable)
         /\ \A k : TermPages(B.tree, k) \in Seq(Showable)
<1> DEFINE all == Visible(SiteRegularPages(B.tree), B.conf.drafts)
           U == {p \in B.tree : ~p.draft}
<1>0. IsBuild(B, c, F)
  BY DEF Finished
<1>1. all \in Seq(U)
  BY <1>0, RegularAre, VisibleShown
<1>2. ASSUME NEW p PROVE Children(B, p) \in Seq(U)
  <2> DEFINE s == CASE Kind(p) = "section" -> RegularPages(B.tree, p.dir)
                    [] Kind(p) = "home" /\ p \notin B.files -> SiteRegularPages(B.tree)
                    [] OTHER -> <<>>
  <2>1. <<>> \in Seq(B.tree)
    OBVIOUS
  <2>2. RegularPages(B.tree, p.dir) \in Seq(B.tree) /\ SiteRegularPages(B.tree) \in Seq(B.tree)
    BY <1>0, RegularAre
  <2>3. s \in Seq(B.tree)
    BY ONLY <2>1, <2>2
  <2>4. Children(B, p) = Visible(s, B.conf.drafts)
    BY DEF Children
  <2> HIDE DEF s
  <2> QED
    BY <2>3, <2>4, VisibleShown
<1>3. MainItems(B) \in Seq(U)
  <2> DEFINE places == {k \in DOMAIN all : Section(all[k]) \in B.conf.main}
  <2>1. MainItems(B) = Picked(all, places)
    BY DEF MainItems, MainPages
  <2>2. places \subseteq DOMAIN all
    OBVIOUS
  <2> HIDE DEF all, places, U
  <2>3. Picked(all, places) \in Seq({all[k] : k \in places})
    BY <1>1, <2>2, PickedIs
  <2>4. {all[k] : k \in places} \subseteq U
    BY <1>1, <2>2
  <2> QED
    BY ONLY <2>1, <2>3, <2>4, SeqWider
<1>4. ASSUME NEW k PROVE TermPages(B.tree, k) \in Seq(U)
  BY <1>0, TermPagesAre
<1> QED
  BY <1>1, <1>2, <1>3, <1>4, ShowableIs

LEMMA PartOf ==
  ASSUME NEW S, NEW s \in Seq(S), NEW m \in Nat \ {0}, NEW n \in Nat, n <= Len(s)
  PROVE  SubSeq(s, m, n) \in Seq(S)
<1>1. \A i \in m..n : s[i] \in S
  OBVIOUS
<1>2. m \in Int /\ n \in Int
  OBVIOUS
<1> QED
  BY ONLY <1>1, <1>2, SubSeqProperties

LEMMA PagersPart ==
  ASSUME NEW S, NEW items \in Seq(S), NEW size \in Nat \ {0}
  PROVE  /\ Chain(items, size)[1].items \in Seq(S)
         /\ \A k \in Nat \ {0} : Clone(items, size, k).items \in Seq(S)
<1> DEFINE n == Len(items)
<1>0. n \in Nat
  OBVIOUS
<1>1. Chain(items, size)[1].items \in Seq(S)
  <2>1. ChainLength(n, size) \in Nat /\ ChainLength(n, size) # 0
    BY <1>0, TotalIs DEF ChainLength
  <2>2. 1 \in 1..ChainLength(n, size)
    BY <2>1
  <2>3. (1 - 1) * size + 1 = 1
    OBVIOUS
  <2>4. 1 * size = size
    OBVIOUS
  <2>5. Chain(items, size)[1].items = SubSeq(items, 1, Least(size, n))
    BY <2>2, <2>3, <2>4 DEF Chain
  <2>6. Least(size, n) \in Nat /\ Least(size, n) <= n
    BY <1>0 DEF Least
  <2> QED
    BY <2>5, <2>6, PartOf
<1>2. ASSUME NEW k \in Nat \ {0} PROVE Clone(items, size, k).items \in Seq(S)
  <2> DEFINE start == Least((k - 1) * size, n)
             end == Least(start + size, n)
  <2>1. (k - 1) * size \in Nat
    <3>1. k - 1 \in Nat
      OBVIOUS
    <3> QED
      BY <3>1, Z3T(30)
  <2>2. start \in Nat /\ end \in Nat /\ end <= n
    BY <1>0, <2>1 DEF Least
  <2>3. Clone(items, size, k).items = SubSeq(items, start + 1, end)
    BY DEF Clone
  <2> HIDE DEF start, end
  <2>4. start + 1 \in Nat \ {0}
    BY <2>2
  <2>5. SubSeq(items, start + 1, end) \in Seq(S)
    BY ONLY <2>2, <2>4, items \in Seq(S), PartOf
  <2> QED
    BY <2>3, <2>5
<1> QED
  BY <1>1, <1>2

-----------------------------------------------------------------------------
(* The files of a build, kind by kind.                                       *)
LEMMA OverHold == ASSUME NEW S, NEW f, NEW g, AllHold(S, f), AllHold(S, g) PROVE AllHold(S, f ++ g)
  BY DEF AllHold, ++

LEMMA OneHolds == ASSUME NEW S, NEW q, NEW v, Holds(S, v) PROVE AllHold(S, OneFile(q, v))
  BY DEF AllHold, OneFile

LEMMA NoneHold == ASSUME NEW S PROVE AllHold(S, <<>>)
  BY DEF AllHold

(* A file as it is first made, without a page, and the changes made to it.   *)
LEMMA ViewHolds ==
  ASSUME NEW S, NEW B, NEW as
  PROVE  /\ Holds(S, View(B, as))
         /\ \A l \in Seq(S) : Holds(S, [View(B, as) EXCEPT !.list = l])
         /\ \A o, l \in Seq(S) : Holds(S, [View(B, as) EXCEPT !.own = o, !.list = l])
<1>1. /\ {"own", "list"} \subseteq DOMAIN View(B, as)
      /\ View(B, as).own = <<>> /\ View(B, as).list = <<>>
  BY DEF View
<1>2. <<>> \in Seq(S)
  OBVIOUS
<1> QED
  BY <1>1, <1>2 DEF Holds

LEMMA PageHolds ==
  ASSUME NEW B, NEW c, NEW F, Finished(B, c, F), NEW p \in Showable
  PROVE  Holds(Showable, PageView(B, p)) /\ Holds(Showable, MirrorView(B, p)) /\ Holds(Showable, RSSView(B, p))
<1> DEFINE chain == Chain(MainItems(B), B.conf.size)
           page == [View(B, "html") EXCEPT !.own = <<p>>, !.extra.diagram = Diagram(B.conf, p),
                     !.extra.imgs = Images(B, p), !.links = TranslationLinks(B.conf, B.available, p)]
<1>0. <<p>> \in Seq(Showable) /\ Children(B, p) \in Seq(Showable)
  BY ListsShown
<1>1. chain[1].items \in Seq(Showable)
  <2>1. B.conf.size \in Nat \ {0}
    BY FilesAre DEF Finished, IsBuild, ContentAssumed
  <2>2. MainItems(B) \in Seq(Showable)
    BY ListsShown
  <2> QED
    BY ONLY <2>1, <2>2, PagersPart
<1>2. Holds(Showable, page)
  <2>1. Holds(Showable, View(B, "html"))
    BY ViewHolds
  <2> QED
    BY <1>0, <2>1 DEF Holds
<1> HIDE DEF page
<1>3. PageView(B, p) \in {[page EXCEPT !.list = chain[1].items, !.next = chain[1].next], [page EXCEPT !.list = Children(B, p)]}
  BY DEF PageView, page
<1> HIDE DEF chain
<1>4. Holds(Showable, PageView(B, p))
  BY <1>0, <1>1, <1>2, <1>3 DEF Holds
<1>5. Holds(Showable, View(B, "mirror")) /\ Holds(Showable, View(B, "rss"))
  BY ViewHolds
<1>6. Holds(Showable, MirrorView(B, p)) /\ Holds(Showable, RSSView(B, p))
  BY <1>0, <1>5 DEF MirrorView, RSSView, Holds
<1> QED
  BY <1>4, <1>6

LEMMA StaticHold == ASSUME NEW S, NEW B PROVE AllHold(S, StaticWrites(B))
<1> DEFINE file(q) == [View(B, "static") EXCEPT !.extra.picture =
                       IF q \in DOMAIN B.conf.pictures THEN <<B.conf.pictures[q]>> ELSE <<>>]
<1>1. ASSUME NEW q PROVE Holds(S, file(q))
  BY ViewHolds DEF Holds
<1> DEFINE lang == IF B.code \in Codes(B.conf) THEN B.conf.langs[B.code]
                   ELSE [staticExclude |-> {}, staticRoot |-> ""]
           local == {Tail(q) : q \in {r \in B.conf.static : Len(r) > 1 /\ r[1] = lang.staticRoot}}
           project == CopyStatic(B.conf.static, lang.staticExclude \cup {lang.staticRoot})
           theme == ThemeAssets(B.conf) \cup CopyStatic(B.conf.themeStatic, {})
           moved == [q \in local |-> file(<<lang.staticRoot>> \o q)]
           kept == [q \in project |-> file(q)]
           themed == [q \in theme |-> file(q)]
<1>2. StaticWrites(B) = moved ++ kept ++ themed
  BY DEF StaticWrites
<1>3. AllHold(S, moved) /\ AllHold(S, kept) /\ AllHold(S, themed)
  <2> HIDE DEF file, lang, local, project, theme
  <2> QED
    BY <1>1 DEF AllHold
<1> HIDE DEF moved, kept, themed
<1> QED
  BY <1>2, <1>3, OverHold

LEMMA FeedsHold ==
  ASSUME NEW B, NEW c, NEW F, Finished(B, c, F)
  PROVE  AllHold(Showable, FeedsAndSpecials(B))
<1>0. /\ IsBuild(B, c, F) /\ ~B.conf.drafts /\ ContentAssumed(conf) /\ B.conf.size \in Nat \ {0}
      /\ B.tree \subseteq B.pages /\ IsFiniteSet(B.pages) /\ Comparable(B.pages)
      /\ Home(B.tree) \in B.pages /\ B.pages \subseteq AllPages(conf) /\ Kind(Home(B.tree)) = "home"
  <2>1. IsBuild(B, c, F) /\ ~conf.drafts
    BY DEF Finished
  <2>2. ContentAssumed(conf)
    BY <2>1 DEF IsBuild
  <2>3. conf.size \in Nat \ {0}
    BY <2>2 DEF ContentAssumed
  <2>4. B.conf = conf
    BY <2>1, FilesAre
  <2>5. /\ B.tree \subseteq B.pages /\ IsFiniteSet(B.pages) /\ Comparable(B.pages)
        /\ Home(B.tree) \in B.pages /\ B.pages \subseteq AllPages(conf) /\ Kind(Home(B.tree)) = "home"
    BY <2>1, TreeIs
  <2> QED
    BY <2>1, <2>2, <2>3, <2>4, <2>5
<1>h. Home(B.tree) \in Showable
  BY <1>0 DEF Showable
<1>1. AllHold(Showable, AIOutputs(B))
  <2>1. AllHold(Showable, LlmsTxt(B))
    BY OneHolds, NoneHold, ViewHolds DEF LlmsTxt
  <2>2. AllHold(Showable, ContentAPI(B))
    <3> DEFINE newer(a, b) == a.date > b.date \/ (a.date = b.date /\ Rank[Path(a)] < Rank[Path(b)])
               S(s) == {p \in APIPages(B) : Section(p) = s}
               of(s) == InOrder(S(s), newer)
               paths == {<<"api", Section(p)>> : p \in APIPages(B)}
    <3>1. ASSUME NEW s PROVE of(s) \in Seq(Showable)
      <4>1. S(s) \subseteq B.pages /\ S(s) \subseteq {p \in B.pages : ~p.draft}
        BY <1>0 DEF APIPages
      <4> HIDE DEF S
      <4>2. IsFiniteSet(S(s)) /\ Comparable(S(s))
        BY ONLY <1>0, <4>1, SomeComparable
      <4>3. InOrder(S(s), newer) \in Seq(S(s))
        BY ONLY <4>2, ByDateIs
      <4>4. of(s) \in Seq({p \in B.pages : ~p.draft})
        BY ONLY <4>1, <4>3, SeqWider DEF of
      <4> QED
        BY <4>4, ShowableIs
    <3>2. ASSUME NEW s PROVE Holds(Showable, [View(B, "api") EXCEPT !.list = of(s)])
      <4> HIDE DEF of
      <4> QED
        BY <3>1, ViewHolds
    <3>3. ContentAPI(B) = [q \in paths |-> [View(B, "api") EXCEPT !.list = of(q[2])]]
      BY DEF ContentAPI
    <3> HIDE DEF of, paths
    <3> QED
      BY <3>2, <3>3 DEF AllHold
  <2> QED
    BY <2>1, <2>2, NoneHold, OverHold DEF AIOutputs
<1>2. AllHold(Showable, SearchIndex(B))
  <2> DEFINE own == <<Home(B.tree)>>
             list == Visible(SiteRegularPages(B.tree), B.conf.drafts)
  <2>1. own \in Seq(Showable) /\ list \in Seq(Showable)
    BY <1>h, ListsShown
  <2> HIDE DEF own, list
  <2>2. Holds(Showable, [View(B, "search") EXCEPT !.own = own, !.list = list])
    BY <2>1, ViewHolds
  <2> QED
    BY <2>2, OneHolds DEF SearchIndex, own, list
<1>3. AllHold(Showable, Sitemap(B))
  <2> DEFINE shown == {p \in B.pages : B.conf.drafts \/ ~p.draft}
             less(a, b) == Rank[Path(a)] < Rank[Path(b)]
             order == InOrder(shown, less)
             ranked == [i \in DOMAIN order |-> MergeSitemap(B.conf.sitemap, InFrontMatter)]
             links == UNION {TranslationLinks(B.conf, B.available, p) : p \in shown}
             view == [View(B, "sitemap") EXCEPT !.list = order, !.extra.ranked = ranked, !.links = links]
  <2>1. order \in Seq(Showable)
    <3>1. shown \subseteq B.pages /\ shown \subseteq {p \in B.pages : ~p.draft}
      BY <1>0
    <3> HIDE DEF shown
    <3>2. IsFiniteSet(shown) /\ Comparable(shown)
      BY ONLY <1>0, <3>1, SomeComparable
    <3>3. InOrder(shown, less) \in Seq(shown)
      BY ONLY <3>2, ByPathIs
    <3>4. order \in Seq({p \in B.pages : ~p.draft})
      BY ONLY <3>1, <3>3, SeqWider DEF order
    <3> QED
      BY <3>4, ShowableIs
  <2>2. Sitemap(B) = OneFile(<<"sitemap.xml">>, view)
    BY DEF Sitemap
  <2> HIDE DEF order, ranked, links
  <2>3. Holds(Showable, view)
    <3>1. Holds(Showable, View(B, "sitemap"))
      BY ViewHolds
    <3> QED
      BY <2>1, <3>1 DEF Holds
  <2> HIDE DEF view
  <2> QED
    BY <2>2, <2>3, OneHolds
<1>4. AllHold(Showable, NotFound(B)) /\ AllHold(Showable, CategoryWrites(B))
  BY ViewHolds, OneHolds, OverHold DEF NotFound, CategoryWrites, EmptyTaxonomy
<1>5. AllHold(Showable, HomePagers(B))
  <2> DEFINE home == PageView(B, Home(B.tree))
             items == MainItems(B)
             size == B.conf.size
             total == TotalPages(Len(items), size)
             ks == 2..total
             pager(k) == [home EXCEPT !.list = Clone(items, size, k).items,
                                 !.next = Clone(items, size, k).next]
             pagers == [q \in {Pager(k) : k \in ks} |-> pager(CHOOSE k \in ks : Pager(k) = q)]
  <2>1. Holds(Showable, home)
    BY <1>h, PageHolds
  <2>2. items \in Seq(Showable)
    BY ListsShown
  <2>3. ks \subseteq Nat \ {0}
    OBVIOUS
  <2>4. ASSUME NEW k \in ks PROVE Holds(Showable, pager(k))
    <3>1. Clone(items, size, k).items \in Seq(Showable)
      <4> HIDE DEF items, ks
      <4> QED
        BY <1>0, <2>2, <2>3, PagersPart
    <3> HIDE DEF home, items
    <3> QED
      BY <2>1, <3>1 DEF Holds
  <2>5. \A q \in {Pager(k) : k \in ks} : (CHOOSE k \in ks : Pager(k) = q) \in ks
    <3> HIDE DEF ks
    <3> QED
      OBVIOUS
  <2>6. AllHold(Showable, pagers)
    <3> HIDE DEF pager, ks
    <3> QED
      BY <2>4, <2>5 DEF AllHold
  <2>7. HomePagers(B) = OneFile(Pager(1), View(B, "redirect")) ++ pagers
    BY DEF HomePagers
  <2> HIDE DEF pagers
  <2> QED
    BY <2>6, <2>7, ViewHolds, OneHolds, OverHold
<1>6. AllHold(Showable, TaxonomyWrites(B))
  <2> DEFINE T == B.tree
             form(k) == OriginalCase(T, k)
             term(k) == [View(B, "term") EXCEPT !.list = TermPages(T, k), !.terms = <<form(k)>>]
             listing == [View(B, "terms") EXCEPT !.terms = ByCount(T, B.conf.termRank)]
             feed == [View(B, "rss") EXCEPT !.terms = TermStubs(T, B.conf.termRank)]
             ks == IF <<"_default", "list">> \in B.templates THEN Terms(T) ELSE {}
             htmls == [q \in {HTML(<<"tags", k>>) : k \in ks} |-> term(q[2])]
             feeds == [q \in {RSS(<<"tags", k>>) : k \in ks} |-> [term(q[2]) EXCEPT !.as = "rss"]]
  <2>1. Holds(Showable, listing) /\ Holds(Showable, feed)
    BY ViewHolds DEF Holds
  <2>2. ASSUME NEW k PROVE Holds(Showable, term(k))
    <3>1. Holds(Showable, View(B, "term")) /\ TermPages(T, k) \in Seq(Showable)
      BY ViewHolds, ListsShown
    <3> QED
      BY <3>1 DEF Holds
  <2>3. ASSUME NEW k PROVE Holds(Showable, [term(k) EXCEPT !.as = "rss"])
    <3> HIDE DEF term
    <3> QED
      BY <2>2 DEF Holds
  <2>4. AllHold(Showable, htmls) /\ AllHold(Showable, feeds)
    <3> HIDE DEF term, ks
    <3> QED
      BY <2>2, <2>3 DEF AllHold
  <2>5. TaxonomyWrites(B) = IF Terms(T) = {} THEN <<>>
          ELSE OneFile(HTML(<<"tags">>), listing) ++ OneFile(RSS(<<"tags">>), feed) ++ htmls ++ feeds
    BY DEF TaxonomyWrites
  <2> HIDE DEF listing, feed, htmls, feeds
  <2> QED
    BY <2>1, <2>4, <2>5, NoneHold, OneHolds, OverHold
<1> QED
  BY <1>1, <1>2, <1>3, <1>4, <1>5, <1>6, OverHold DEF FeedsAndSpecials

LEMMA PagesHold ==
  ASSUME NEW B, NEW c, NEW F, Finished(B, c, F), NEW pages \in Outcomes(PageWrites(B))
  PROVE  AllHold(Showable, pages)
<1>1. \A w \in PageWrites(B) : Holds(Showable, w.view)
  <2>1. \A p \in Rendered(B) : p \in Showable
    <3>1. B.pages \subseteq AllPages(conf) /\ ~B.conf.drafts
      BY TreeIs, FilesAre DEF Finished
    <3> QED
      BY <3>1 DEF Rendered, ShouldRender, Showable
  <2>2. \A p \in Rendered(B) : Holds(Showable, MirrorView(B, p)) /\ Holds(Showable, RSSView(B, p))
                               /\ Holds(Showable, PageView(B, p))
    BY <2>1, PageHolds
  <2> QED
    BY <2>2 DEF PageWrites
<1> QED
  BY <1>1, OutcomesAre DEF AllHold

-----------------------------------------------------------------------------
(* Output files have paths: sequences of segments, whatever these are.       *)
IsPath(q) == q \in Seq({q[i] : i \in DOMAIN q})

AllPaths(f) == \A q \in DOMAIN f : IsPath(q)

LEMMA SeqPath == ASSUME NEW S, NEW q \in Seq(S) PROVE IsPath(q)
<1>1. Len(q) \in Nat /\ q \in [1..Len(q) -> {q[i] : i \in DOMAIN q}]
  OBVIOUS
<1>2. q \in Seq({q[i] : i \in DOMAIN q})
  BY ONLY <1>1
<1> QED
  BY <1>2 DEF IsPath

LEMMA PathIs == ASSUME NEW q, IsPath(q) PROVE Len(q) \in Nat /\ DOMAIN q = 1..Len(q) /\ q = [i \in 1..Len(q) |-> q[i]]
<1> DEFINE S == {q[i] : i \in DOMAIN q}
<1>1. q \in Seq(S)
  BY DEF IsPath
<1> HIDE DEF S
<1> QED
  BY ONLY <1>1

LEMMA JoinedPath ==
  ASSUME NEW p, IsPath(p), NEW q, IsPath(q)
  PROVE  IsPath(p \o q) /\ IsPrefix(p, p \o q)
<1> DEFINE S == {p[i] : i \in DOMAIN p} \cup {q[i] : i \in DOMAIN q}
<1>1. p \in Seq(S) /\ q \in Seq(S)
  <2>1. p \in Seq({p[i] : i \in DOMAIN p}) /\ q \in Seq({q[i] : i \in DOMAIN q})
    BY DEF IsPath
  <2> QED
    BY ONLY <2>1, SeqWider
<1> HIDE DEF S
<1>2. p \o q \in Seq(S)
  BY ONLY <1>1
<1>3. IsPrefix(p, p \o q)
  <2>1. /\ Len(p) \in Nat /\ Len(q) \in Nat /\ Len(p \o q) = Len(p) + Len(q)
        /\ \A i \in 1..Len(p) : (p \o q)[i] = p[i]
    BY ONLY <1>1
  <2>2. SubSeq(p, 1, Len(p)) = SubSeq(p \o q, 1, Len(p))
    BY ONLY <1>1, <1>2, <2>1
  <2> QED
    BY <2>1, <2>2 DEF IsPrefix
<1> QED
  BY <1>2, <1>3, SeqPath

LEMMA AppendedPath ==
  ASSUME NEW p, IsPath(p), NEW x PROVE IsPath(Append(p, x))
<1> DEFINE S == {p[i] : i \in DOMAIN p} \cup {x}
<1>1. p \in Seq(S) /\ x \in S
  <2>1. p \in Seq({p[i] : i \in DOMAIN p})
    BY DEF IsPath
  <2> QED
    BY ONLY <2>1, SeqWider
<1> HIDE DEF S
<1>2. Append(p, x) \in Seq(S)
  BY ONLY <1>1
<1> QED
  BY <1>2, SeqPath

LEMMA ShortPaths ==
  ASSUME NEW a, NEW b, NEW c
  PROVE  IsPath(<<>>) /\ IsPath(<<a>>) /\ IsPath(<<a, b>>) /\ IsPath(<<a, b, c>>)
<1>1. <<>> \in Seq({a, b, c}) /\ <<a>> \in Seq({a, b, c}) /\ <<a, b>> \in Seq({a, b, c})
      /\ <<a, b, c>> \in Seq({a, b, c})
  OBVIOUS
<1> QED
  BY <1>1, SeqPath

LEMMA RootOfAll == ASSUME NEW q, IsPath(q) PROVE IsPrefix(<<>>, q)
<1>1. Len(q) \in Nat /\ Len(<<>>) = 0 /\ Len(<<>>) <= Len(q)
  BY PathIs
<1>2. SubSeq(<<>>, 1, 0) = <<>> /\ SubSeq(q, 1, 0) = <<>>
  BY SubSeqEmpty
<1> QED
  BY <1>1, <1>2 DEF IsPrefix

LEMMA FrontPath == ASSUME NEW q, IsPath(q) PROVE IsPath(Front(q))
<1> DEFINE S == {q[i] : i \in DOMAIN q}
<1>1. q \in Seq(S)
  BY DEF IsPath
<1>2. Len(q) \in Nat
  BY <1>1
<1> HIDE DEF S
<1>3. SubSeq(q, 1, Len(q) - 1) \in Seq(S)
  <2>1. \A i \in 1..(Len(q) - 1) : q[i] \in S
    BY <1>1
  <2>2. 1 \in Int /\ Len(q) - 1 \in Int
    BY <1>2
  <2> QED
    BY ONLY <2>1, <2>2, SubSeqProperties
<1> QED
  BY <1>3, SeqPath DEF Front

LEMMA OverPaths == ASSUME NEW f, NEW g, AllPaths(f), AllPaths(g) PROVE AllPaths(f ++ g)
  BY DEF AllPaths, ++

LEMMA OnePath == ASSUME NEW q, NEW v, IsPath(q) PROVE AllPaths(OneFile(q, v))
  BY DEF AllPaths, OneFile

LEMMA NonePath == AllPaths(<<>>)
  BY DEF AllPaths

LEMMA PagePaths ==
  ASSUME ContentAssumed(conf), NEW p \in AllPages(conf)
  PROVE  IsPath(URL(p)) /\ \A name : IsPath(Output(URL(p), name))
<1>1. IsPath(URL(p))
  <2>1. CASE p \in Contents(conf)
    <3>1. p.dir \in Seq(STRING)
      BY <2>1 DEF ContentAssumed
    <3>2. IsPath(p.dir) /\ \A x : IsPath(Append(p.dir, x))
      BY <3>1, SeqPath, AppendedPath
    <3> QED
      BY <3>2 DEF URL
  <2>2. ASSUME NEW d, p = Synthetic(d), IsPath(d) PROVE IsPath(URL(p))
    BY <2>2, SyntheticIs DEF URL
  <2> QED
    BY <2>1, <2>2, ShortPaths DEF AllPages
<1> QED
  BY <1>1, AppendedPath DEF Output

LEMMA StaticPaths ==
  ASSUME NEW B, NEW c, NEW F, IsBuild(B, c, F)
  PROVE  AllPaths(StaticWrites(B))
<1> DEFINE file(q) == [View(B, "static") EXCEPT !.extra.picture =
                       IF q \in DOMAIN B.conf.pictures THEN <<B.conf.pictures[q]>> ELSE <<>>]
           lang == IF B.code \in Codes(B.conf) THEN B.conf.langs[B.code]
                   ELSE [staticExclude |-> {}, staticRoot |-> ""]
           local == {Tail(q) : q \in {r \in B.conf.static : Len(r) > 1 /\ r[1] = lang.staticRoot}}
           project == CopyStatic(B.conf.static, lang.staticExclude \cup {lang.staticRoot})
           theme == ThemeAssets(B.conf) \cup CopyStatic(B.conf.themeStatic, {})
           moved == [q \in local |-> file(<<lang.staticRoot>> \o q)]
           kept == [q \in project |-> file(q)]
           themed == [q \in theme |-> file(q)]
<1>0. B.conf.static \cup B.conf.themeStatic \cup B.conf.themeAssets \subseteq Seq(STRING) \ {<<>>}
  BY FilesAre DEF IsBuild, FilesAssumed
<1>2. StaticWrites(B) = moved ++ kept ++ themed
  BY DEF StaticWrites
<1>3. \A q \in local : IsPath(q)
  <2>1. \A r \in Seq(STRING) : Len(r) > 1 => Tail(r) \in Seq(STRING)
    OBVIOUS
  <2> QED
    BY <1>0, <2>1, SeqPath
<1>4. \A q \in project : IsPath(q)
  BY <1>0, SeqPath DEF CopyStatic
<1>5. \A q \in theme : IsPath(q)
  <2>1. \A q \in CopyStatic(B.conf.themeStatic, {}) : IsPath(q)
    BY <1>0, SeqPath DEF CopyStatic
  <2>2. \A q \in ThemeAssets(B.conf) : IsPath(q)
    <3>1. \A q \in B.conf.themeAssets : IsPath(q)
      BY <1>0, SeqPath
    <3>2. \A q \in B.conf.themeAssets : IsPath(<<"theme", B.conf.theme>> \o q)
      BY <3>1, ShortPaths, JoinedPath
    <3> QED
      BY <3>2 DEF ThemeAssets
  <2> QED
    BY <2>1, <2>2
<1>6. AllPaths(moved) /\ AllPaths(kept) /\ AllPaths(themed)
  <2> HIDE DEF file, lang, local, project, theme
  <2> QED
    BY <1>3, <1>4, <1>5 DEF AllPaths
<1> HIDE DEF moved, kept, themed
<1> QED
  BY <1>2, <1>6, OverPaths

LEMMA FeedPaths ==
  ASSUME NEW B
  PROVE  /\ AllPaths(AIOutputs(B)) /\ AllPaths(SearchIndex(B)) /\ AllPaths(Sitemap(B))
         /\ AllPaths(NotFound(B)) /\ AllPaths(HomePagers(B)) /\ AllPaths(CategoryWrites(B))
         /\ AllPaths(TaxonomyWrites(B))
<1> USE ShortPaths, OnePath, NonePath
<1>1. AllPaths(AIOutputs(B))
  <2>1. AllPaths(ContentAPI(B))
    BY DEF ContentAPI, AllPaths
  <2>2. AllPaths(LlmsTxt(B))
    BY DEF LlmsTxt
  <2> QED
    BY <2>1, <2>2, OverPaths DEF AIOutputs
<1>2. AllPaths(SearchIndex(B)) /\ AllPaths(Sitemap(B)) /\ AllPaths(NotFound(B))
  BY DEF SearchIndex, Sitemap, NotFound
<1>3. \A p, x : IsPath(p) => IsPath(Output(p, x))
  BY AppendedPath DEF Output
<1>4. AllPaths(CategoryWrites(B))
  BY <1>3, OverPaths DEF CategoryWrites, HTML, RSS
<1>5. AllPaths(HomePagers(B))
  <2> DEFINE items == MainItems(B)
             size == B.conf.size
             home == PageView(B, Home(B.tree))
             pager(k) == [home EXCEPT !.list = Clone(items, size, k).items,
                                 !.next = Clone(items, size, k).next]
             ks == 2..TotalPages(Len(items), size)
             pagers == [q \in {Pager(k) : k \in ks} |-> pager(CHOOSE k \in ks : Pager(k) = q)]
  <2>1. \A k : IsPath(Pager(k))
    BY DEF Pager
  <2>2. AllPaths(pagers)
    <3> HIDE DEF pager, ks
    <3> QED
      BY <2>1 DEF AllPaths
  <2>3. HomePagers(B) = OneFile(Pager(1), View(B, "redirect")) ++ pagers
    BY DEF HomePagers
  <2> HIDE DEF pagers
  <2> QED
    BY <2>1, <2>2, <2>3, OverPaths
<1>6. AllPaths(TaxonomyWrites(B))
  <2> DEFINE T == B.tree
             form(k) == OriginalCase(T, k)
             term(k) == [View(B, "term") EXCEPT !.list = TermPages(T, k), !.terms = <<form(k)>>]
             listing == [View(B, "terms") EXCEPT !.terms = ByCount(T, B.conf.termRank)]
             feed == [View(B, "rss") EXCEPT !.terms = TermStubs(T, B.conf.termRank)]
             ks == IF <<"_default", "list">> \in B.templates THEN Terms(T) ELSE {}
             htmls == [q \in {HTML(<<"tags", k>>) : k \in ks} |-> term(q[2])]
             feeds == [q \in {RSS(<<"tags", k>>) : k \in ks} |-> [term(q[2]) EXCEPT !.as = "rss"]]
  <2>1. \A k : IsPath(HTML(<<"tags", k>>)) /\ IsPath(RSS(<<"tags", k>>)) /\ IsPath(HTML(<<"tags">>)) /\ IsPath(RSS(<<"tags">>))
    BY <1>3 DEF HTML, RSS
  <2>2. AllPaths(htmls) /\ AllPaths(feeds)
    <3> HIDE DEF term, ks
    <3> QED
      BY <2>1 DEF AllPaths
  <2>3. TaxonomyWrites(B) = IF Terms(T) = {} THEN <<>>
          ELSE OneFile(HTML(<<"tags">>), listing) ++ OneFile(RSS(<<"tags">>), feed) ++ htmls ++ feeds
    BY DEF TaxonomyWrites
  <2> HIDE DEF listing, feed, htmls, feeds
  <2> QED
    BY <2>1, <2>2, <2>3, OverPaths
<1> QED
  BY <1>1, <1>2, <1>4, <1>5, <1>6

(* Everything a full build of a language writes, and an incremental one.     *)
Written(B, pages) == StaticWrites(B) ++ FeedsAndSpecials(B) ++ pages

LEMMA WrittenPaths ==
  ASSUME NEW B, NEW c, NEW F, IsBuild(B, c, F)
  PROVE  /\ \A pages \in Outcomes(PageWrites(B)) : AllPaths(Written(B, pages))
         /\ AllPaths(SiteWideWrites(B) ++ AffectedWrites(B))
<1>1. \A p \in B.pages : \A name : IsPath(Output(URL(p), name))
  BY TreeIs, PagePaths DEF IsBuild
<1>2. \A pages \in Outcomes(PageWrites(B)) : AllPaths(pages)
  <2>1. \A w \in PageWrites(B) : IsPath(w.path)
    <3>1. \A p \in Rendered(B) : IsPath(HTML(URL(p))) /\ IsPath(Mirror(URL(p))) /\ IsPath(RSS(URL(p)))
      BY <1>1 DEF Rendered, HTML, Mirror, RSS
    <3> QED
      BY <3>1 DEF PageWrites
  <2>2. ASSUME NEW pages \in Outcomes(PageWrites(B)), NEW q \in DOMAIN pages PROVE IsPath(q)
    <3>1. PICK w \in PageWrites(B) : w.path = q
      BY <2>2, OutcomesAre
    <3> QED
      BY <2>1, <3>1
  <2> QED
    BY <2>2 DEF AllPaths
<1>3. AllPaths(AffectedWrites(B))
  BY <1>1 DEF AffectedWrites, Affected, HTML, AllPaths
<1>4. AllPaths(FeedsAndSpecials(B)) /\ AllPaths(SiteWideWrites(B)) /\ AllPaths(StaticWrites(B))
  BY FeedPaths, StaticPaths, OverPaths DEF FeedsAndSpecials, SiteWideWrites
<1> QED
  BY <1>2, <1>3, <1>4, OverPaths DEF Written

-----------------------------------------------------------------------------
(* Every language is built once, the default one first.                      *)
LEMMA LanguagesSorted ==
  ASSUME LanguagesAssumed(conf)
  PROVE  /\ SortedLanguages(conf) \in Seq(Codes(conf))
         /\ \A c \in Codes(conf) : \E i \in DOMAIN SortedLanguages(conf) : SortedLanguages(conf)[i] = c
         /\ \A i, j \in DOMAIN SortedLanguages(conf) : i < j => SortedLanguages(conf)[i] # SortedLanguages(conf)[j]
<1> DEFINE S == Codes(conf)
           w(c) == conf.langs[c].weight
           less(a, b) == w(a) < w(b) \/ (w(a) = w(b) /\ CodeRank[a] < CodeRank[b])
           R == {e \in S \X S : less(e[1], e[2])}
           list == SortedLanguages(conf)
<1>1. \A c \in S : w(c) \in Nat /\ CodeRank[c] \in Nat
  BY DEF LanguagesAssumed
<1>2. IsFiniteSet(S) /\ \A c, d \in S : c # d => CodeRank[c] # CodeRank[d]
  BY DEF LanguagesAssumed
<1>3. list = Ordered(S, R)
  BY DEF SortedLanguages, InOrder
<1>4. StrictOrder(S, R)
  <2>1. \A a, b \in S : <<a, b>> \in R <=> less(a, b)
    OBVIOUS
  <2> HIDE DEF R, S, w
  <2> QED
    BY <1>1, <1>2, <2>1 DEF StrictOrder
<1> HIDE DEF R, S, list
<1>5. /\ list \in Seq(S) /\ list \in [1..Cardinality(S) -> S]
      /\ \A c \in S : \E i \in 1..Cardinality(S) : list[i] = c
      /\ \A i, j \in 1..Cardinality(S) : i < j => list[i] # list[j]
  <2>1. /\ list \in Seq(S) /\ list \in [1..Cardinality(S) -> S]
        /\ \A c \in S : \E i \in 1..Cardinality(S) : list[i] = c
        /\ \A i, j \in 1..Cardinality(S) : i < j => <<list[i], list[j]>> \in R /\ list[i] # list[j]
    BY ONLY <1>2, <1>3, <1>4, OrderedAll
  <2> QED
    BY <2>1
<1>6. DOMAIN list = 1..Cardinality(S)
  BY <1>5
<1> QED
  BY <1>5, <1>6 DEF S, list

LEMMA OrderIs ==
  ASSUME LanguagesAssumed(conf)
  PROVE  LET O == BuildOrder(conf) IN
         /\ O \in Seq(Builds(conf)) /\ Len(O) \in Nat \ {0} /\ O[1] = DefaultLanguageCode(conf)
         /\ \A c \in Codes(conf) : \E i \in 1..Len(O) : O[i] = c
         /\ \A i, j \in 1..Len(O) : i < j => O[i] # O[j]
<1> DEFINE O == BuildOrder(conf)
           def == DefaultLanguageCode(conf)
           sorted == SortedLanguages(conf)
           places == {k \in DOMAIN sorted : sorted[k] # def}
           rest == Picked(sorted, places)
<1>1. CASE ~IsMultiLanguage(conf)
  <2>1. O = <<def>> /\ Codes(conf) = {} /\ def \in Builds(conf)
    BY <1>1 DEF BuildOrder, DefaultLanguageCode, IsMultiLanguage, Builds
  <2>2. <<def>> \in Seq(Builds(conf)) /\ Len(<<def>>) = 1 /\ <<def>>[1] = def
    <3> HIDE DEF def
    <3> QED
      BY <2>1
  <2> HIDE DEF O
  <2>3. O \in Seq(Builds(conf)) /\ Len(O) = 1 /\ O[1] = def
    BY ONLY <2>1, <2>2
  <2>4. \A i, j \in 1..Len(O) : i < j => O[i] # O[j]
    BY <2>3
  <2>5. \A c \in Codes(conf) : \E i \in 1..Len(O) : O[i] = c
    BY <2>1
  <2>6. Len(O) \in Nat \ {0}
    BY <2>3
  <2> QED
    BY <2>3, <2>4, <2>5, <2>6 DEF O
<1>2. CASE IsMultiLanguage(conf)
  <2>1. /\ sorted \in Seq(Codes(conf))
        /\ \A c \in Codes(conf) : \E i \in DOMAIN sorted : sorted[i] = c
        /\ \A i, j \in DOMAIN sorted : i < j => sorted[i] # sorted[j]
    BY LanguagesSorted
  <2>2. O = <<def>> \o rest
    BY <1>2 DEF BuildOrder
  <2>3. places \subseteq DOMAIN sorted
    OBVIOUS
  <2> HIDE DEF sorted, def, O
  <2>4. /\ rest \in Seq({sorted[k] : k \in places})
        /\ \A k \in places : \E i \in DOMAIN rest : rest[i] = sorted[k]
        /\ \A i, j \in DOMAIN rest : i < j => \E k, l \in places : k < l /\ rest[i] = sorted[k] /\ rest[j] = sorted[l]
    <3> HIDE DEF places
    <3> QED
      BY ONLY <2>1, <2>3, PickedIs
  <2>5. {sorted[k] : k \in places} \subseteq Codes(conf) \ {def}
    BY <2>1
  <2>6. \A c \in Codes(conf) : c = def \/ \E i \in DOMAIN rest : rest[i] = c
    <3> SUFFICES ASSUME NEW c \in Codes(conf), c # def PROVE \E i \in DOMAIN rest : rest[i] = c
      OBVIOUS
    <3>1. PICK k \in DOMAIN sorted : sorted[k] = c
      BY <2>1
    <3>2. k \in places
      BY <3>1
    <3> HIDE DEF rest, places
    <3> QED
      BY <2>4, <3>1, <3>2
  <2>7. \A i, j \in DOMAIN rest : i < j => rest[i] # rest[j]
    <3>1. \A k, l \in places : k < l => sorted[k] # sorted[l]
      BY <2>1
    <3> HIDE DEF rest, places
    <3> SUFFICES ASSUME NEW i \in DOMAIN rest, NEW j \in DOMAIN rest, i < j PROVE rest[i] # rest[j]
      OBVIOUS
    <3>2. \E k, l \in places : k < l /\ rest[i] = sorted[k] /\ rest[j] = sorted[l]
      BY <2>4
    <3> QED
      BY <3>1, <3>2
  <2>8. rest \in Seq(Codes(conf) \ {def})
    <3> HIDE DEF rest
    <3> QED
      BY ONLY <2>4, <2>5, SeqWider
  <2> HIDE DEF rest, places
  <2>9. /\ Len(rest) \in Nat /\ DOMAIN rest = 1..Len(rest) /\ O \in Seq(Codes(conf) \cup {def})
        /\ Len(O) = Len(rest) + 1 /\ O[1] = def /\ \A i \in 1..Len(rest) : O[i + 1] = rest[i] /\ rest[i] # def
    <3>1. rest \in Seq(Codes(conf) \cup {def}) /\ <<def>> \in Seq(Codes(conf) \cup {def})
      BY ONLY <2>8, SeqWider
    <3>2. <<def>> \o rest \in Seq(Codes(conf) \cup {def}) /\ Len(<<def>> \o rest) = Len(rest) + 1 /\ Len(rest) \in Nat
          /\ (<<def>> \o rest)[1] = def /\ \A i \in 1..Len(rest) : (<<def>> \o rest)[i + 1] = rest[i]
      BY ONLY <3>1
    <3> QED
      BY ONLY <2>2, <2>8, <3>2
  <2>10. \A c \in Codes(conf) : \E i \in 1..Len(O) : O[i] = c
    <3> SUFFICES ASSUME NEW c \in Codes(conf) PROVE \E i \in 1..Len(O) : O[i] = c
      OBVIOUS
    <3>1. CASE c = def
      BY <2>9, <3>1
    <3>2. CASE c # def
      <4>1. PICK i \in 1..Len(rest) : rest[i] = c
        BY <2>6, <2>9, <3>2
      <4> QED
        BY <2>9, <4>1
    <3> QED
      BY <3>1, <3>2
  <2>11. ASSUME NEW i \in 1..Len(O), NEW j \in 1..Len(O), i < j PROVE O[i] # O[j]
    <3>1. j - 1 \in 1..Len(rest) /\ O[j] = rest[j - 1] /\ rest[j - 1] # def
      BY <2>9, <2>11
    <3>2. CASE i = 1
      BY <2>9, <3>1, <3>2
    <3>3. CASE i # 1
      <4>1. i - 1 \in 1..Len(rest) /\ O[i] = rest[i - 1] /\ i - 1 < j - 1
        BY <2>9, <2>11, <3>3
      <4> QED
        BY <2>7, <2>9, <3>1, <4>1
    <3> QED
      BY <3>2, <3>3
  <2>12. O \in Seq(Builds(conf)) /\ Len(O) \in Nat \ {0}
    BY <2>9 DEF Builds, def
  <2> QED
    BY <2>9, <2>10, <2>11, <2>12 DEF O, def
<1> QED
  BY <1>1, <1>2

LEMMA LastIs == ASSUME NEW p, IsPath(p), NEW x PROVE Last(Append(p, x)) = x /\ Last(p \o <<x>>) = x
<1> DEFINE S == {p[i] : i \in DOMAIN p} \cup {x}
<1>1. p \in Seq(S) /\ x \in S
  <2>1. p \in Seq({p[i] : i \in DOMAIN p})
    BY DEF IsPath
  <2> QED
    BY ONLY <2>1, SeqWider
<1> HIDE DEF S
<1>2. Append(p, x) \in Seq(S) /\ Len(Append(p, x)) = Len(p) + 1 /\ Append(p, x)[Len(p) + 1] = x
  BY ONLY <1>1
<1>3. p \o <<x>> = Append(p, x)
  BY ONLY <1>1
<1> QED
  BY ONLY <1>2, <1>3 DEF Last

-----------------------------------------------------------------------------
(* What the plugins of a build leave of a file: all but what they put there. *)
Shaped(view) ==
    /\ {"as", "lang", "extra"} \subseteq DOMAIN view
    /\ {"snippets", "diagram", "picture"} \subseteq DOMAIN view.extra

Same(v, w) ==
    /\ Shaped(v) => Shaped(w) /\ w.as = v.as /\ w.lang = v.lang /\ w.extra.picture = v.extra.picture
    /\ \A S : Holds(S, v) => Holds(S, w)

LEMMA ProcessedIs ==
  ASSUME NEW r, NEW S, NEW a, NEW q, NEW extra, {"snippets", "diagram", "picture"} \subseteq DOMAIN extra
  PROVE  LET c == Plugin(r, "html_injector")
             e == ProcessFile(r, S, a, q, extra)
         IN /\ DOMAIN e = DOMAIN extra /\ e.picture = extra.picture
            /\ e.snippets = IF c.on /\ KindAllowed(c, GuessKind(q)) THEN extra.snippets + 1 ELSE extra.snippets
<1> DEFINE drawn == RenderDiagrams(Plugin(r, "diagram_renderer"), GuessKind(q), S, a, extra)
           c == Plugin(r, "html_injector")
           injected == InjectHTML(c, GuessKind(q), drawn)
<1>1. DOMAIN drawn = DOMAIN extra /\ drawn.picture = extra.picture /\ drawn.snippets = extra.snippets
  <2>1. PICK x : drawn = extra \/ drawn = [extra EXCEPT !.diagram = x]
    BY DEF RenderDiagrams
  <2> QED
    BY <2>1
<1> HIDE DEF drawn
<1>2. /\ DOMAIN injected = DOMAIN extra /\ injected.picture = extra.picture
      /\ injected.snippets = IF c.on /\ KindAllowed(c, GuessKind(q)) THEN extra.snippets + 1 ELSE extra.snippets
  <2> HIDE DEF c
  <2> QED
    BY <1>1 DEF InjectHTML
<1>3. ProcessFile(r, S, a, q, extra) = InjectMeta(Plugin(r, "seo_injector"), q, injected)
  BY DEF ProcessFile, drawn
<1> HIDE DEF injected, c
<1>4. PICK x : ProcessFile(r, S, a, q, extra) \in {injected, [injected EXCEPT !.meta = x]}
  BY <1>3 DEF InjectMeta
<1>5. ASSUME NEW e, e \in {injected, [injected EXCEPT !.meta = x]}
      PROVE  DOMAIN e = DOMAIN injected /\ e.picture = injected.picture /\ e.snippets = injected.snippets
  BY <1>2, <1>5
<1> QED
  BY <1>2, <1>4, <1>5 DEF c

LEMMA PluginsKeep ==
  ASSUME NEW r, NEW f, NEW dir, NEW S, NEW answers, NEW q \in DOMAIN f, Shaped(f[q])
  PROVE  LET g == OnOutputWritten(r, f, dir, S, answers)
             c == Plugin(r, "html_injector")
         IN /\ DOMAIN g = DOMAIN f /\ Same(f[q], g[q])
            /\ g[q].extra.snippets =
                 IF q \in CollectHTMLFiles(f, dir) /\ c.on /\ KindAllowed(c, GuessKind(Below(q, dir)))
                 THEN f[q].extra.snippets + 1 ELSE f[q].extra.snippets
<1> DEFINE g == OnOutputWritten(r, f, dir, S, answers)
           c == Plugin(r, "html_injector")
           e == ProcessFile(r, S, q \in answers, Below(q, dir), f[q].extra)
<1>1. DOMAIN g = DOMAIN f
  BY DEF OnOutputWritten
<1>2. CASE q \in CollectHTMLFiles(f, dir)
  <2>1. g[q] = [f[q] EXCEPT !.extra = e]
    BY <1>2 DEF OnOutputWritten
  <2>2. /\ DOMAIN e = DOMAIN f[q].extra /\ e.picture = f[q].extra.picture
        /\ e.snippets = IF c.on /\ KindAllowed(c, GuessKind(Below(q, dir))) THEN f[q].extra.snippets + 1
                        ELSE f[q].extra.snippets
    BY ProcessedIs DEF Shaped
  <2> HIDE DEF g, e, c
  <2>3. Same(f[q], g[q])
    BY <2>1, <2>2 DEF Same, Shaped, Holds
  <2> QED
    BY <1>1, <1>2, <2>1, <2>2, <2>3 DEF g, c, Shaped
<1>3. CASE q \notin CollectHTMLFiles(f, dir)
  <2>1. PICK x : g[q] \in {f[q], [f[q] EXCEPT !.extra.ranked = x, !.links = {}]}
    <3>1. g[q] = f[q] \/ g[q] = EnhanceSitemap(Plugin(r, "sitemap_enhancer"), dir, f[q])
      BY <1>3 DEF OnOutputWritten
    <3> HIDE DEF g
    <3> QED
      BY <3>1 DEF EnhanceSitemap
  <2> HIDE DEF g, c
  <2>2. Same(f[q], g[q]) /\ g[q].extra.snippets = f[q].extra.snippets
    BY <2>1 DEF Same, Shaped, Holds
  <2> QED
    BY <1>1, <1>3, <2>2 DEF g, c
<1> QED
  BY <1>2, <1>3

-----------------------------------------------------------------------------
(* The output directory while a build goes on, its first k languages written.*)
Pictured(f) ==
    \A q \in DOMAIN f : /\ Shaped(f[q])
                        /\ \/ f[q].extra.picture = <<>>
                           \/ \E r \in DOMAIN conf.pictures : f[q].extra.picture = <<conf.pictures[r]>>

SitemapOf(c) == LanguageBase(conf, c) \o <<"sitemap.xml">>

SitemapsThere(f, k) ==
    \A i \in 1..k : LET c == BuildOrder(conf)[i]
                    IN SitemapOf(c) \in DOMAIN f /\ f[SitemapOf(c)].lang = c

Injected(f) ==
    LET c == Plugin(Registry, "html_injector")
    IN c.on /\ c.include \cup c.exclude = {} => \A q \in CollectHTMLFiles(f, <<>>) : f[q].extra.snippets = 1

Left(f, k) ==
    /\ ~conf.drafts => AllHold(Showable, f)
    /\ SitemapsThere(f, k) /\ Injected(f)

Made(f, k) == Pictured(f) /\ Left(f, k)

(* The files of a language's build, and what it has not cleaned away.        *)
Result(base, written, f) == Under(base, written) ++ CleanPublishDir(f, base)

Merged(base, written, f, result) ==
    /\ \A r \in DOMAIN written : base \o r \in DOMAIN result
    /\ \A q \in DOMAIN f : ~IsPrefix(base, q) => q \in DOMAIN result
    /\ \A q \in DOMAIN result :
          /\ IsPath(q)
          /\ IF IsPrefix(base, q) THEN \E r \in DOMAIN written : q = base \o r /\ result[q] = written[r]
             ELSE q \in DOMAIN f /\ result[q] = f[q]

LEMMA ResultIs ==
  ASSUME NEW base, IsPath(base), NEW written, AllPaths(written), NEW f, AllPaths(f)
  PROVE  Merged(base, written, f, Result(base, written, f))
<1> DEFINE u == Under(base, written)
           k == CleanPublishDir(f, base)
           result == Result(base, written, f)
<1>1. /\ DOMAIN u = {base \o r : r \in DOMAIN written}
      /\ \A q \in DOMAIN u : \E r \in DOMAIN written : q = base \o r /\ u[q] = written[r]
  BY DEF Under
<1>2. DOMAIN k = {r \in DOMAIN f : ~IsPrefix(base, r)} /\ \A q \in DOMAIN k : k[q] = f[q]
  BY DEF CleanPublishDir
<1> HIDE DEF u, k
<1>3. /\ DOMAIN result = DOMAIN u \cup DOMAIN k
      /\ \A q \in DOMAIN result : result[q] = IF q \in DOMAIN u THEN u[q] ELSE k[q]
  BY DEF Result, ++, u, k
<1>4. \A r \in DOMAIN written : IsPath(base \o r) /\ IsPrefix(base, base \o r)
  BY JoinedPath DEF AllPaths
<1> HIDE DEF result
<1>5. \A r \in DOMAIN written : base \o r \in DOMAIN result
  BY <1>1, <1>3
<1>6. \A q \in DOMAIN f : ~IsPrefix(base, q) => q \in DOMAIN result
  BY <1>2, <1>3
<1>7. ASSUME NEW q \in DOMAIN result
      PROVE  /\ IsPath(q)
             /\ IF IsPrefix(base, q) THEN \E r \in DOMAIN written : q = base \o r /\ result[q] = written[r]
                ELSE q \in DOMAIN f /\ result[q] = f[q]
  <2>1. CASE q \in DOMAIN u
    <3>1. PICK r \in DOMAIN written : q = base \o r /\ u[q] = written[r]
      BY <1>1, <2>1
    <3> QED
      BY <1>3, <1>4, <2>1, <3>1
  <2>2. CASE q \notin DOMAIN u
    BY <1>2, <1>3, <2>2 DEF AllPaths
  <2> QED
    BY <2>1, <2>2
<1> QED
  BY <1>5, <1>6, <1>7 DEF Merged, result

(* Everything a language's build writes is as that build makes it.           *)
LEMMA WrittenIs ==
  ASSUME NEW B, NEW c, NEW F, IsBuild(B, c, F), NEW pages \in Outcomes(PageWrites(B))
  PROVE  /\ AllPaths(Written(B, pages)) /\ AllFresh(B, Written(B, pages))
         /\ ~conf.drafts => AllHold(Showable, Written(B, pages))
         /\ <<"sitemap.xml">> \in DOMAIN Written(B, pages)
<1>1. AllPaths(Written(B, pages))
  BY WrittenPaths
<1>2. AllFresh(B, Written(B, pages))
  BY StaticFresh, FeedsFresh, PagesFresh, OverFresh DEF Written
<1>3. ASSUME ~conf.drafts PROVE AllHold(Showable, Written(B, pages))
  <2>1. Finished(B, c, F)
    BY <1>3 DEF Finished
  <2>2. AllHold(Showable, FeedsAndSpecials(B)) /\ AllHold(Showable, pages) /\ AllHold(Showable, StaticWrites(B))
    BY <2>1, FeedsHold, PagesHold, StaticHold
  <2> QED
    BY <2>2, OverHold DEF Written
<1>4. <<"sitemap.xml">> \in DOMAIN Written(B, pages)
  <2>1. <<"sitemap.xml">> \in DOMAIN Sitemap(B)
    BY DEF Sitemap, OneFile
  <2>2. ASSUME NEW f, NEW g, NEW q PROVE q \in DOMAIN f \/ q \in DOMAIN g => q \in DOMAIN (f ++ g)
    BY DEF ++
  <2>3. <<"sitemap.xml">> \in DOMAIN FeedsAndSpecials(B)
    BY <2>1, <2>2 DEF FeedsAndSpecials
  <2> QED
    BY <2>2, <2>3 DEF Written
<1> QED
  BY <1>1, <1>2, <1>3, <1>4

(* The output directory after the plugins of the language in place k.        *)
Worked(k, B, pages, f, S, answers) ==
    LET base == LanguageBase(conf, BuildOrder(conf)[k])
    IN OnOutputWritten(Registry, Result(base, Written(B, pages), f), base, S, answers)

LEMMA LanguageMade ==
  ASSUME NEW k \in 1..Len(BuildOrder(conf)), NEW B, NEW F, IsBuild(B, BuildOrder(conf)[k], F),
         NEW f, AllPaths(f), k = 1 \/ Made(f, k - 1),
         NEW pages \in Outcomes(PageWrites(B)), NEW S, NEW answers,
         NEW g, g = Worked(k, B, pages, f, S, answers)
  PROVE  Made(g, k) /\ AllPaths(g)
<1> DEFINE O == BuildOrder(conf)
           c == O[k]
           base == LanguageBase(conf, c)
           written == Written(B, pages)
           result == Result(base, written, f)
           h == Plugin(Registry, "html_injector")
<1>1. /\ LanguagesAssumed(conf) /\ O \in Seq(Builds(conf)) /\ Len(O) \in Nat \ {0}
      /\ O[1] = DefaultLanguageCode(conf) /\ \A i, j \in 1..Len(O) : i < j => O[i] # O[j]
  BY OrderIs DEF IsBuild
<1>2. IsPath(base) /\ (k = 1 => base = <<>>)
  <2>1. base = <<>> \/ base \in Seq(STRING)
    BY <1>1 DEF LanguageBase, LanguagesAssumed
  <2>2. k = 1 => base = <<>>
    BY <1>1 DEF LanguagesAssumed
  <2> QED
    BY <2>1, <2>2, SeqPath, ShortPaths
<1>3. /\ AllPaths(written) /\ AllFresh(B, written) /\ (~conf.drafts => AllHold(Showable, written))
      /\ <<"sitemap.xml">> \in DOMAIN written /\ B.code = c /\ B.conf = conf
  BY WrittenIs, FilesAre
<1> HIDE DEF base, written
<1>4. /\ \A r \in DOMAIN written : base \o r \in DOMAIN result
      /\ \A q \in DOMAIN f : ~IsPrefix(base, q) => q \in DOMAIN result
      /\ \A q \in DOMAIN result :
            /\ IsPath(q)
            /\ IF IsPrefix(base, q) THEN \E r \in DOMAIN written : q = base \o r /\ result[q] = written[r]
               ELSE q \in DOMAIN f /\ result[q] = f[q]
  <2>1. AllPaths(written) /\ AllPaths(f) /\ IsPath(base)
    BY <1>2, <1>3
  <2>2. Merged(base, written, f, result)
    BY ONLY <2>1, ResultIs
  <2> HIDE DEF result
  <2> QED
    BY <2>2 DEF Merged
<1>5. g = OnOutputWritten(Registry, result, base, S, answers)
  BY DEF Worked, base, written
<1> HIDE DEF result, c, O
<1>6. \A q \in DOMAIN result : IsPrefix(base, q) \/ Made(f, k - 1)
  BY <1>2, <1>4, RootOfAll
<1>7. Pictured(result)
  <2>1. ASSUME NEW q \in DOMAIN result, NEW r \in DOMAIN written, result[q] = written[r]
        PROVE  /\ Shaped(result[q])
               /\ \/ result[q].extra.picture = <<>>
                  \/ \E p \in DOMAIN conf.pictures : result[q].extra.picture = <<conf.pictures[p]>>
    BY <1>3, <2>1 DEF AllFresh, Fresh, Shaped
  <2> QED
    BY <1>4, <1>6, <2>1 DEF Pictured, Made
<1>8. /\ DOMAIN g = DOMAIN result
      /\ \A q \in DOMAIN result :
            /\ Same(result[q], g[q])
            /\ g[q].extra.snippets =
                 IF q \in CollectHTMLFiles(result, base) /\ h.on /\ KindAllowed(h, GuessKind(Below(q, base)))
                 THEN result[q].extra.snippets + 1 ELSE result[q].extra.snippets
  <2>1. DOMAIN g = DOMAIN result
    BY <1>5 DEF OnOutputWritten
  <2> HIDE DEF h
  <2> SUFFICES ASSUME NEW q \in DOMAIN result
               PROVE  /\ Same(result[q], g[q])
                      /\ g[q].extra.snippets =
                           IF q \in CollectHTMLFiles(result, base) /\ h.on /\ KindAllowed(h, GuessKind(Below(q, base)))
                           THEN result[q].extra.snippets + 1 ELSE result[q].extra.snippets
    BY <2>1
  <2> QED
    BY <1>5, <1>7, PluginsKeep DEF Pictured, h
<1>9. Pictured(g)
  BY <1>7, <1>8 DEF Pictured, Same
<1>10. ~conf.drafts => AllHold(Showable, g)
  <2> SUFFICES ASSUME ~conf.drafts, NEW q \in DOMAIN result PROVE Holds(Showable, result[q])
    BY <1>8 DEF AllHold, Same
  <2> QED
    BY <1>3, <1>4, <1>6 DEF AllHold, Made, Left
<1>11. SitemapsThere(g, k)
  <2> SUFFICES ASSUME NEW i \in 1..k PROVE SitemapOf(O[i]) \in DOMAIN g /\ g[SitemapOf(O[i])].lang = O[i]
    BY DEF SitemapsThere, O
  <2> DEFINE home == SitemapOf(O[i])
  <2>1. CASE i = k
    <3>1. home = base \o <<"sitemap.xml">>
      BY <2>1 DEF SitemapOf, base, c
    <3> HIDE DEF home
    <3>2. home \in DOMAIN result /\ IsPrefix(base, home)
      BY <1>2, <1>3, <1>4, <3>1, ShortPaths, JoinedPath
    <3>3. PICK r \in DOMAIN written : result[home] = written[r]
      BY <1>4, <3>2
    <3>4. result[home].lang = c
      BY <1>3, <3>3 DEF AllFresh, Fresh
    <3>5. g[home].lang = c /\ home \in DOMAIN g
      BY <1>7, <1>8, <3>2, <3>4 DEF Same, Pictured
    <3> QED
      BY <2>1, <3>5 DEF c, home
  <2>2. CASE i # k
    <3>1. i \in 1..(k - 1) /\ i < k /\ k # 1 /\ k \in 1..Len(O) /\ i \in 1..Len(O) /\ 1 \in 1..Len(O) /\ 1 < k
      BY <1>1, <2>2 DEF O
    <3>2. Made(f, k - 1)
      BY <3>1
    <3>3. home \in DOMAIN f /\ f[home].lang = O[i]
      BY <3>1, <3>2 DEF Made, Left, SitemapsThere, O
    <3>4. ~IsPrefix(base, home)
      <4>1. O[i] \in Builds(conf) /\ c \in Builds(conf) /\ O[i] # c /\ c # DefaultLanguageCode(conf)
        BY <1>1, <3>1 DEF c
      <4> QED
        BY <1>1, <4>1 DEF LanguagesAssumed, SitemapOf, base
    <3> HIDE DEF home
    <3>5. home \in DOMAIN result /\ result[home] = f[home]
      BY <1>4, <3>3, <3>4
    <3>6. g[home].lang = O[i] /\ home \in DOMAIN g
      BY <1>7, <1>8, <3>3, <3>5 DEF Same, Pictured
    <3> QED
      BY <3>6 DEF home
  <2> QED
    BY <2>1, <2>2
<1>12. Injected(g)
  <2> SUFFICES ASSUME h.on, h.include \cup h.exclude = {}, NEW q \in CollectHTMLFiles(g, <<>>)
               PROVE  g[q].extra.snippets = 1
    BY DEF Injected
  <2> HIDE DEF h
  <2>1. q \in DOMAIN result /\ Last(q) \in {"index.html", "404.html"}
    BY <1>8 DEF CollectHTMLFiles
  <2>2. \A kind : KindAllowed(h, kind)
    BY DEF KindAllowed
  <2>3. CASE IsPrefix(base, q)
    <3>1. result[q].extra.snippets = 0
      BY <1>3, <1>4, <2>1, <2>3 DEF AllFresh, Fresh
    <3>2. q \in CollectHTMLFiles(result, base)
      BY <2>1, <2>3 DEF CollectHTMLFiles
    <3> QED
      BY <1>8, <2>1, <2>2, <3>1, <3>2
  <2>4. CASE ~IsPrefix(base, q)
    <3>1. q \in DOMAIN f /\ result[q] = f[q] /\ Made(f, k - 1)
      BY <1>4, <1>6, <2>1, <2>4
    <3>2. q \in CollectHTMLFiles(f, <<>>)
      BY <2>1, <3>1 DEF CollectHTMLFiles
    <3>3. f[q].extra.snippets = 1
      BY <3>1, <3>2 DEF Made, Left, Injected, h
    <3>4. q \notin CollectHTMLFiles(result, base)
      BY <2>4 DEF CollectHTMLFiles
    <3> QED
      BY <1>8, <2>1, <3>1, <3>3, <3>4
  <2> QED
    BY <2>3, <2>4
<1>13. AllPaths(g)
  BY <1>4, <1>8 DEF AllPaths
<1> QED
  BY <1>9, <1>10, <1>11, <1>12, <1>13 DEF Made, Left

-----------------------------------------------------------------------------
(* The image pipeline adds variants, under names of their own, and touches   *)
(* nothing but the images of a page.                                         *)
LEMMA BestRank ==
  ASSUME NEW M, M # {}, NEW rank, \A q \in M : rank[q] \in 1..4
  PROVE  \E q \in M : \A r \in M : rank[q] >= rank[r]
<1>1. CASE \E q \in M : rank[q] = 4
  BY <1>1
<1>2. CASE (\A q \in M : rank[q] # 4) /\ \E q \in M : rank[q] = 3
  BY <1>2
<1>3. CASE (\A q \in M : rank[q] # 4 /\ rank[q] # 3) /\ \E q \in M : rank[q] = 2
  BY <1>3
<1>4. CASE \A q \in M : rank[q] # 4 /\ rank[q] # 3 /\ rank[q] # 2
  BY <1>4
<1> QED
  BY <1>1, <1>2, <1>3, <1>4

LEMMA VariantsAre ==
  ASSUME FilesAssumed(conf), ConfigLoads(conf), NEW f, Pictured(f), AllPaths(f),
         NEW c, c = Plugin(Registry, "image_pipeline"), c.on,
         NEW v, v = VariantFiles(f, ProcessAssets(c, f)), NEW path \in DOMAIN v
  PROVE  /\ IsPath(path) /\ Last(path) \notin {"index.html", "404.html", "sitemap.xml"}
         /\ \A S : AllHold(S, f) => Holds(S, v[path])
<1> DEFINE results == ProcessAssets(c, f)
           variants == UNION {results[q] : q \in DOMAIN results}
           makers == {q \in DOMAIN results : \E u \in results[q] : u.path = path}
           rank == [q \in makers |-> f[q].extra.picture[1].rank]
           Later(q) == \A r \in makers : f[q].extra.picture[1].rank >= f[r].extra.picture[1].rank
           maker == CHOOSE q \in makers : Later(q)
<1>1. /\ DOMAIN v = {u.path : u \in variants}
      /\ v[path] = [f[maker] EXCEPT !.as = "variant", !.extra.picture = <<[of |-> maker]>>]
  BY DEF VariantFiles
<1>2. /\ DOMAIN results \subseteq Scan(f)
      /\ \A q \in DOMAIN results : LET pic == f[q].extra.picture[1]
            IN results[q] = {[path |-> VariantFilename(q, pic, s), width |-> s] : s \in Sizes(c, pic)}
  BY DEF ProcessAssets
<1> HIDE DEF results, maker
<1>3. makers # {} /\ makers \subseteq DOMAIN results
  BY <1>1
<1>4. ASSUME NEW q \in Scan(f)
      PROVE  /\ q \in DOMAIN f /\ IsPath(q)
             /\ \E r \in DOMAIN conf.pictures : f[q].extra.picture[1] = conf.pictures[r]
  BY <1>4 DEF Scan, Pictured, AllPaths
<1>5. maker \in makers
  <2>1. \A q \in makers : rank[q] \in 1..4
    <3> SUFFICES ASSUME NEW q \in makers PROVE f[q].extra.picture[1].rank \in 1..4
      OBVIOUS
    <3>1. PICK r \in DOMAIN conf.pictures : f[q].extra.picture[1] = conf.pictures[r]
      BY <1>2, <1>3, <1>4
    <3>2. conf.pictures[r].rank \in 1..4
      BY DEF FilesAssumed
    <3> QED
      BY <3>1, <3>2
  <2>2. \E q \in makers : \A r \in makers : rank[q] >= rank[r]
    <3> HIDE DEF makers, rank
    <3> QED
      BY ONLY <1>3, <2>1, BestRank
  <2>3. \E q \in makers : Later(q)
    <3> HIDE DEF makers
    <3> QED
      BY <2>2
  <2> HIDE DEF makers, Later
  <2> QED
    BY <2>3, Zenon DEF maker
<1>6. \A S : AllHold(S, f) => Holds(S, v[path])
  <2>1. maker \in DOMAIN f
    BY <1>2, <1>3, <1>4, <1>5
  <2> QED
    BY <1>1, <2>1 DEF AllHold, Holds
<1>7. PICK q \in Scan(f) : \E s \in Sizes(c, f[q].extra.picture[1]) :
              path = VariantFilename(q, f[q].extra.picture[1], s)
  <2>1. PICK q \in DOMAIN results : \E u \in results[q] : u.path = path
    BY <1>3
  <2> QED
    BY <1>2, <2>1
<1>8. PICK s \in Sizes(c, f[q].extra.picture[1]) : path = Append(Front(q), VariantName(f[q].extra.picture[1], s))
  BY <1>7 DEF VariantFilename
<1>9. IsPath(Front(q))
  BY <1>4, FrontPath
<1>10. IsPath(path) /\ Last(path) = VariantName(f[q].extra.picture[1], s)
  BY <1>8, <1>9, AppendedPath, LastIs
<1>11. VariantName(f[q].extra.picture[1], s) \notin {"index.html", "404.html", "sitemap.xml"}
  <2>1. PICK r \in DOMAIN conf.pictures : f[q].extra.picture[1] = conf.pictures[r]
    BY <1>4
  <2>2. Registry = NewPluginRegistry(conf)
    BY DEF Registry
  <2> QED
    BY <1>8, <2>1, <2>2 DEF FilesAssumed
<1> QED
  BY <1>6, <1>10, <1>11

LEMMA ImagesMade ==
  ASSUME FilesAssumed(conf), ConfigLoads(conf), LanguagesAssumed(conf), NEW f, NEW k, Made(f, k), AllPaths(f),
         k = Len(BuildOrder(conf)), NEW g, g = ImagePipeline(Plugin(Registry, "image_pipeline"), f)
  PROVE  Left(g, k) /\ AllPaths(g)
<1> DEFINE c == Plugin(Registry, "image_pipeline")
           v == VariantFiles(f, ProcessAssets(c, f))
           w == v ++ f
<1>1. CASE ~c.on
  BY <1>1 DEF ImagePipeline, Made
<1>2. CASE c.on
  <2>1. /\ DOMAIN g = DOMAIN w
        /\ \A q \in DOMAIN w : \E x : g[q] = w[q] \/ g[q] = [w[q] EXCEPT !.extra.imgs = x]
    BY <1>2 DEF ImagePipeline, InjectHTMLFiles
  <2>2. \A q \in DOMAIN v : /\ IsPath(q) /\ Last(q) \notin {"index.html", "404.html", "sitemap.xml"}
                            /\ \A S : AllHold(S, f) => Holds(S, v[q])
    <3> HIDE DEF c
    <3> SUFFICES ASSUME NEW q \in DOMAIN v
                 PROVE  /\ IsPath(q) /\ Last(q) \notin {"index.html", "404.html", "sitemap.xml"}
                        /\ \A S : AllHold(S, f) => Holds(S, v[q])
      OBVIOUS
    <3> QED
      BY <1>2, VariantsAre DEF Made, c
  <2> HIDE DEF v
  <2>3. /\ DOMAIN w = DOMAIN v \cup DOMAIN f
        /\ \A q \in DOMAIN w : w[q] = IF q \in DOMAIN v THEN v[q] ELSE f[q]
    BY DEF ++
  <2> HIDE DEF w
  <2>4. AllPaths(g)
    BY <2>1, <2>2, <2>3 DEF AllPaths
  <2>5. ~conf.drafts => AllHold(Showable, g)
    <3> SUFFICES ASSUME AllHold(Showable, f), NEW q \in DOMAIN g PROVE Holds(Showable, g[q])
      BY DEF Made, Left, AllHold
    <3>1. Holds(Showable, w[q])
      BY <2>1, <2>2, <2>3 DEF AllHold
    <3>2. PICK x : g[q] = w[q] \/ g[q] = [w[q] EXCEPT !.extra.imgs = x]
      BY <2>1
    <3> QED
      BY <3>1, <3>2 DEF Holds
  <2>6. ASSUME NEW q \in DOMAIN f, Last(q) \in {"index.html", "404.html", "sitemap.xml"}
        PROVE  q \in DOMAIN g /\ g[q].lang = f[q].lang /\ g[q].extra.snippets = f[q].extra.snippets
    <3>1. q \in DOMAIN w /\ w[q] = f[q]
      BY <2>2, <2>3, <2>6
    <3>2. PICK x : g[q] = f[q] \/ g[q] = [f[q] EXCEPT !.extra.imgs = x]
      BY <2>1, <3>1
    <3>3. Shaped(f[q])
      BY DEF Made, Pictured
    <3> QED
      BY <2>1, <3>1, <3>2, <3>3 DEF Shaped
  <2>7. SitemapsThere(g, k)
    <3> SUFFICES ASSUME NEW i \in 1..k
                 PROVE  LET a == BuildOrder(conf)[i] IN SitemapOf(a) \in DOMAIN g /\ g[SitemapOf(a)].lang = a
      BY DEF SitemapsThere
    <3> DEFINE a == BuildOrder(conf)[i]
    <3>1. SitemapOf(a) \in DOMAIN f /\ f[SitemapOf(a)].lang = a
      BY DEF Made, Left, SitemapsThere
    <3>2. Last(SitemapOf(a)) = "sitemap.xml"
      <4>1. a \in Builds(conf)
        BY OrderIs
      <4> HIDE DEF a
      <4>2. LanguageBase(conf, a) = <<>> \/ LanguageBase(conf, a) \in Seq(STRING)
        BY <4>1 DEF LanguageBase, LanguagesAssumed
      <4> QED
        BY <4>2, SeqPath, ShortPaths, LastIs DEF SitemapOf
    <3> HIDE DEF a
    <3> QED
      BY <2>6, <3>1, <3>2 DEF a
  <2>8. Injected(g)
    <3> DEFINE h == Plugin(Registry, "html_injector")
    <3> SUFFICES ASSUME h.on, h.include \cup h.exclude = {}, NEW q \in CollectHTMLFiles(g, <<>>)
                 PROVE  g[q].extra.snippets = 1
      BY DEF Injected
    <3>1. q \in DOMAIN g /\ IsPrefix(<<>>, q) /\ Last(q) \in {"index.html", "404.html"}
      BY DEF CollectHTMLFiles
    <3>2. q \in DOMAIN f
      BY <2>1, <2>2, <2>3, <3>1
    <3>3. q \in CollectHTMLFiles(f, <<>>)
      BY <3>1, <3>2 DEF CollectHTMLFiles
    <3>4. f[q].extra.snippets = 1
      BY <3>3 DEF Made, Left, Injected
    <3> QED
      BY <2>6, <3>1, <3>2, <3>4
  <2> QED
    BY <2>4, <2>5, <2>7, <2>8 DEF Left
<1> QED
  BY <1>1, <1>2

-----------------------------------------------------------------------------
(* How far a full build is: the languages still to be written are the last   *)
(* ones of the order, and those before are in the output directory as their  *)
(* builds and the plugins made them.                                         *)
Stage(j, l, f) ==
    LET O == BuildOrder(conf) IN
    /\ AllPaths(f)
    /\ j.step \in {"full", "images"} => ConfigLoads(conf)
    /\ j.step = "incremental" => conf.daemon
    /\ j.step = "full" => \E k \in 1..Len(O) :
          j.todo = SubSeq(O, k, Len(O)) /\ (k = 1 \/ Made(f, k - 1))
    /\ j.step = "images" => Made(f, Len(O))
    /\ j.step = "idle" /\ l.build = "full" => Left(f, Len(O))

LanguagesInv == Stage(job, last, out)

LEMMA StageNext == ASSUME conf' = conf, Stage(job', last', out') PROVE LanguagesInv'
<1>1. Showable' = Showable /\ Registry' = Registry /\ BuildOrder(conf)' = BuildOrder(conf)
  BY DEF Showable, Registry
<1>2. ASSUME NEW k, Left(out', k) PROVE Left(out, k)'
  BY <1>1, <1>2 DEF Left, SitemapsThere, SitemapOf, Injected
<1>3. ASSUME NEW k, Made(out', k) PROVE Made(out, k)'
  BY <1>2, <1>3 DEF Made, Pictured
<1>4. Left(out', Len(BuildOrder(conf))) => Left(out, Len(BuildOrder(conf)))'
  BY <1>1, <1>2
<1>5. Made(out', Len(BuildOrder(conf))) => Made(out, Len(BuildOrder(conf)))'
  BY <1>1, <1>3
<1>6. ASSUME NEW k, Made(out', k - 1) PROVE Made(out, k - 1)'
  BY <1>3, <1>6
<1> QED
  BY <1>1, <1>4, <1>5, <1>6 DEF LanguagesInv, Stage

LEMMA InitLanguages == Init => LanguagesInv
<1> SUFFICES ASSUME Init PROVE LanguagesInv
  OBVIOUS
<1>1. job.step = "idle" /\ last.build = "none" /\ out = <<>>
  BY DEF Init, NoJob
<1> QED
  BY <1>1, NonePath DEF LanguagesInv, Stage

LEMMA FailedStage == ASSUME StepsInv, Fail, AllPaths(out') PROVE Stage(job', last', out')
<1>1. job'.step = "idle" /\ last'.build = "failed"
  BY DEF Fail, StepsInv, NoJob
<1> QED
  BY <1>1 DEF Stage

(* Authors, and whatever else leaves job and output alone.                   *)
LEMMA SameStage ==
  ASSUME LanguagesInv, job' = job, out' = out, last'.build = last.build
  PROVE  Stage(job', last', out')
BY DEF LanguagesInv, Stage

LEMMA StartStage ==
  ASSUME StepsInv, SourcesInv, LanguagesInv, StartFull \/ StartIncremental
  PROVE  Stage(job', last', out')
<1> DEFINE O == BuildOrder(conf)
<1>1. AllPaths(out') /\ out' = out
  BY DEF StartFull, StartIncremental, LanguagesInv, Stage
<1>2. CASE Fail
  BY <1>1, <1>2, FailedStage
<1>3. CASE StartFull /\ ~Fail
  <2>1. ConfigLoads(conf) /\ job'.step = "full" /\ job'.todo = O
    BY <1>3 DEF StartFull, Started, NoJob
  <2>2. O \in Seq(Builds(conf)) /\ Len(O) \in Nat \ {0}
    BY SiteAssumed, OrderIs
  <2> HIDE DEF O
  <2>3. O = SubSeq(O, 1, Len(O)) /\ 1 \in 1..Len(O)
    BY ONLY <2>2
  <2> QED
    BY <1>1, <2>1, <2>3 DEF Stage, O
<1>4. CASE StartIncremental /\ ~Fail
  <2>1. CASE UNCHANGED <<job, last>>
    BY <1>1, <2>1, SameStage
  <2>2. CASE ~UNCHANGED <<job, last>>
    <3>1. job'.step = "incremental" /\ conf.daemon
      BY <1>4, <2>2 DEF StartIncremental, NeedsFull, NoJob
    <3> QED
      BY <1>1, <3>1 DEF Stage
  <2> QED
    BY <2>1, <2>2
<1> QED
  BY <1>2, <1>3, <1>4

LEMMA CleanedPaths == ASSUME NEW f, AllPaths(f), NEW base PROVE AllPaths(CleanPublishDir(f, base))
BY DEF AllPaths, CleanPublishDir

LEMMA StoppedStage ==
  ASSUME StepsInv, LanguagesInv, NEW B, RenderMarkdown(B) \/ SetupTemplates(B)
  PROVE  Stage(job', last', out')
<1>1. Fail /\ (out' = out \/ out' = CleanPublishDir(out, Base))
  BY DEF RenderMarkdown, SetupTemplates
<1>2. AllPaths(out')
  BY <1>1, CleanedPaths DEF LanguagesInv, Stage
<1> QED
  BY <1>1, <1>2, FailedStage

(* The next language: the first of those left.                               *)
LEMMA NextLanguage ==
  ASSUME NEW S, NEW O \in Seq(S), NEW k \in 1..Len(O), NEW todo, todo = SubSeq(O, k, Len(O))
  PROVE  /\ Head(todo) = O[k] /\ Len(todo) = Len(O) - k + 1
         /\ k < Len(O) => Tail(todo) = SubSeq(O, k + 1, Len(O))
<1>1. k \in Nat \ {0} /\ Len(O) \in Nat /\ k <= Len(O)
  OBVIOUS
<1>2. todo = [i \in 1..(Len(O) - k + 1) |-> O[i + k - 1]] /\ Len(todo) = Len(O) - k + 1
  BY <1>1
<1>3. Head(todo) = O[k]
  BY <1>1, <1>2
<1>4. ASSUME k < Len(O) PROVE Tail(todo) = SubSeq(O, k + 1, Len(O))
  BY <1>1, <1>2, <1>4
<1> QED
  BY <1>2, <1>3, <1>4

LEMMA LanguageStage ==
  ASSUME StepsInv, SourcesInv, LanguagesInv,
         NEW B, B = Load(conf, Head(job.todo), job.files), BuildLanguage(B)
  PROVE  Stage(job', last', out')
<1> DEFINE O == BuildOrder(conf)
           n == Len(O)
<1>1. job.step = "full" /\ job = JobOf("full", job.todo, job.files, job.affected)
      /\ AllPaths(out) /\ ConfigLoads(conf)
  BY DEF BuildLanguage, LanguagesInv, Stage, StepsInv
<1>2. ContentAssumed(conf) /\ LanguagesAssumed(conf) /\ FilesAssumed(conf)
  BY SiteAssumed
<1>3. O \in Seq(Builds(conf)) /\ n \in Nat \ {0}
  BY <1>2, OrderIs
<1>4. PICK k \in 1..n : job.todo = SubSeq(O, k, n) /\ (k = 1 \/ Made(out, k - 1))
  BY <1>1 DEF LanguagesInv, Stage
<1>5. /\ Head(job.todo) = O[k] /\ Len(job.todo) = n - k + 1
      /\ k < n => Tail(job.todo) = SubSeq(O, k + 1, n)
  <2> HIDE DEF O
  <2> QED
    BY ONLY <1>3, <1>4, NextLanguage
<1>6. IsBuild(B, O[k], job.files)
  <2>1. O[k] \in Builds(conf)
    BY <1>3, <1>4
  <2> QED
    BY <1>2, <1>5, <2>1 DEF IsBuild, SourcesInv
<1>7. Made(out', k) /\ AllPaths(out')
  <2>1. PICK pages \in Outcomes(PageWrites(B)) : \E answers :
          out' = OnOutputWritten(Registry, Under(Base, StaticWrites(B) ++ FeedsAndSpecials(B) ++ pages)
                                             ++ CleanPublishDir(out, Base), Base, svgs, answers)
    BY DEF BuildLanguage, OutputDir
  <2>2. PICK answers :
          out' = OnOutputWritten(Registry, Result(Base, Written(B, pages), out), Base, svgs, answers)
    BY <2>1 DEF Result, Written
  <2>3. Base = LanguageBase(conf, BuildOrder(conf)[k])
    BY <1>5 DEF Base
  <2>4. out' = Worked(k, B, pages, out, svgs, answers)
    BY <2>2, <2>3 DEF Worked
  <2>5. /\ k \in 1..Len(BuildOrder(conf)) /\ IsBuild(B, BuildOrder(conf)[k], job.files)
        /\ AllPaths(out) /\ (k = 1 \/ Made(out, k - 1))
    BY <1>1, <1>4, <1>6
  <2> HIDE DEF O
  <2> QED
    BY ONLY <2>4, <2>5, LanguageMade
<1>8. CASE conf.daemon
  <2>1. job'.step = "idle"
    BY <1>8 DEF BuildLanguage, NoJob
  <2>2. k = n
    <3>1. O = <<"">>
      BY <1>2, <1>8 DEF LanguagesAssumed, BuildOrder
    <3> HIDE DEF O
    <3>2. n = 1
      BY ONLY <3>1
    <3> QED
      BY <1>4, <3>2
  <2> QED
    BY <1>7, <2>1, <2>2 DEF Stage, Made
<1>9. CASE ~conf.daemon /\ k < n
  <2>1. job'.step = "full" /\ job'.todo = Tail(job.todo)
    <3>1. job' = [job EXCEPT !.todo = Tail(@)]
      <4>1. ~conf.daemon => job' = IF Len(job.todo) > 1 THEN [job EXCEPT !.todo = Tail(@)]
                                   ELSE [NoJob EXCEPT !.step = "images"]
        BY DEF BuildLanguage
      <4>2. Len(job.todo) > 1
        BY ONLY <1>3, <1>4, <1>5, <1>9
      <4> QED
        BY <1>9, <4>1, <4>2
    <3> QED
      BY <1>1, <3>1 DEF JobOf
  <2>2. k + 1 \in 1..n /\ job'.todo = SubSeq(O, k + 1, n) /\ (k + 1) - 1 = k
    BY <1>3, <1>4, <1>5, <1>9, <2>1
  <2>3. Made(out', (k + 1) - 1)
    BY <1>7, <2>2
  <2> QED
    BY <1>1, <1>7, <2>1, <2>2, <2>3 DEF Stage
<1>10. CASE ~conf.daemon /\ k = n
  <2>1. job'.step = "images"
    BY <1>3, <1>5, <1>10 DEF BuildLanguage, NoJob
  <2> QED
    BY <1>1, <1>7, <1>10, <2>1 DEF Stage
<1> QED
  BY <1>3, <1>4, <1>8, <1>9, <1>10

LEMMA ImagesStage ==
  ASSUME StepsInv, SourcesInv, LanguagesInv, RunImagePipeline
  PROVE  Stage(job', last', out')
<1>1. job.step = "images" /\ AllPaths(out) /\ ConfigLoads(conf) /\ Made(out, Len(BuildOrder(conf)))
  BY DEF RunImagePipeline, LanguagesInv, Stage
<1>2. CASE Fail /\ UNCHANGED out
  BY <1>1, <1>2, FailedStage
<1>3. CASE ~(Fail /\ UNCHANGED out)
  <2>1. out' = ImagePipeline(Plugin(Registry, "image_pipeline"), out) /\ job'.step = "idle"
    BY <1>3 DEF RunImagePipeline, NoJob
  <2>2. Left(out', Len(BuildOrder(conf))) /\ AllPaths(out')
    BY <1>1, <2>1, SiteAssumed, ImagesMade
  <2> QED
    BY <2>1, <2>2 DEF Stage
<1> QED
  BY <1>2, <1>3

(* What an incremental build leaves is no full build's any more.             *)
LEMMA IncrementalStage ==
  ASSUME StepsInv, SourcesInv, LanguagesInv, job.step = "incremental",
         NEW B, B = Load(conf, "", job.files), IncrementalRender(B)
  PROVE  Stage(job', last', out')
<1>1. AllPaths(out) /\ conf.daemon
  BY DEF LanguagesInv, Stage
<1>2. job'.step = "idle" /\ last'.build # "full"
  BY DEF IncrementalRender, NoJob, StepsInv
<1>3. IsBuild(B, "", job.files)
  <2>1. ContentAssumed(conf) /\ LanguagesAssumed(conf) /\ FilesAssumed(conf)
    BY SiteAssumed
  <2>2. "" \in Builds(conf)
    BY <1>1, <2>1 DEF LanguagesAssumed, Builds, DefaultLanguageCode
  <2> QED
    BY <2>1, <2>2 DEF IsBuild, SourcesInv
<1>4. AllPaths(out')
  <2> DEFINE wanted == SiteWideWrites(B) ++ AffectedWrites(B)
             written == [q \in {r \in DOMAIN wanted : EnsureDir(r, wanted[r])} |-> wanted[q]]
  <2>1. out' = out \/ out' = written ++ out
    BY DEF IncrementalRender
  <2>2. AllPaths(wanted)
    BY <1>3, WrittenPaths
  <2> HIDE DEF wanted
  <2>3. AllPaths(written)
    BY <2>2 DEF AllPaths
  <2> HIDE DEF written
  <2> QED
    BY <1>1, <2>1, <2>3, OverPaths
<1> QED
  BY <1>2, <1>4 DEF Stage

LEMMA LanguagesStep == StepsInv /\ SourcesInv /\ LanguagesInv /\ [Next]_vars => LanguagesInv'
<1> SUFFICES ASSUME StepsInv, SourcesInv, LanguagesInv, [Next]_vars PROVE Stage(job', last', out')
  BY ConfKept, StageNext
<1>1. CASE UNCHANGED vars
  BY <1>1, SameStage DEF vars
<1>2. ASSUME NEW p, Save(p) \/ Delete(p) \/ EditTemplates PROVE Stage(job', last', out')
  <2>1. job' = job /\ out' = out /\ last' = [last EXCEPT !.edits = @ + 1]
    BY <1>2 DEF Save, Delete, EditTemplates, Edit
  <2>2. last'.build = last.build
    BY <2>1 DEF StepsInv
  <2> QED
    BY <2>1, <2>2, SameStage
<1>3. CASE InFull
  <2> DEFINE B == Load(conf, Head(job.todo), job.files)
  <2>1. RenderMarkdown(B) \/ SetupTemplates(B) \/ BuildLanguage(B)
    BY <1>3 DEF InFull
  <2> HIDE DEF B
  <2>2. CASE RenderMarkdown(B) \/ SetupTemplates(B)
    BY <2>2, StoppedStage
  <2>3. CASE BuildLanguage(B)
    BY <2>3, LanguageStage DEF B
  <2> QED
    BY <2>1, <2>2, <2>3
<1>4. CASE Build /\ ~InFull
  BY <1>4, StartStage, ImagesStage, IncrementalStage DEF Build
<1> QED
  BY <1>1, <1>2, <1>3, <1>4 DEF Next, Author

(* A full build of every language goes through the languages in their order, *)
(* the default one first, and at each of them the output directory holds     *)
(* what the builds before have made, worked on once.                         *)
THEOREM LanguagesInTurn == Spec => [](StepsInv /\ SourcesInv /\ LanguagesInv)
<1>1. Init => StepsInv /\ SourcesInv /\ LanguagesInv
  BY InitSteps, InitSources, InitLanguages
<1>2. StepsInv /\ SourcesInv /\ LanguagesInv /\ [Next]_vars => (StepsInv /\ SourcesInv /\ LanguagesInv)'
  BY StepsStep, SourcesStep, LanguagesStep
<1> QED
  BY <1>1, <1>2, PTL DEF Spec

LEMMA ShownNoDrafts ==
  ASSUME NEW view, Holds(Showable, view), NEW p \in ElementsOf(view.own \o view.list), Kind(p) = "page"
  PROVE  ~p.draft
<1>1. view.own \in Seq(Showable) /\ view.list \in Seq(Showable)
  BY DEF Holds
<1> DEFINE s == view.own \o view.list
<1>2. s \in Seq(Showable)
  BY <1>1
<1> HIDE DEF s
<1>3. PICK i \in DOMAIN s : p = s[i]
  BY DEF ElementsOf, s
<1>4. p \in Showable
  BY <1>2, <1>3
<1> QED
  BY <1>4 DEF Showable

(* After a full build no file shows a draft: not as its own page, not in a   *)
(* list, a feed, a term, the search index, the sitemap or the content API,   *)
(* whatever authors did while it ran.                                        *)
THEOREM DraftsStayHidden == Spec => []DraftsHidden
<1>1. LanguagesInv => DraftsHidden
  <2> SUFFICES ASSUME LanguagesInv, last.build = "full", Idle, ~conf.drafts, NEW q \in DOMAIN out,
                      NEW p \in ElementsOf(out[q].own \o out[q].list), Kind(p) = "page"
               PROVE  ~p.draft
    BY DEF DraftsHidden
  <2>1. Holds(Showable, out[q])
    BY DEF LanguagesInv, Stage, Idle, Left, AllHold
  <2> QED
    BY <2>1, ShownNoDrafts
<1> QED
  BY <1>1, LanguagesInTurn, PTL

(* After a full build the files of every language are there, none wiped by   *)
(* the build of another, and each has been through the plugins once.         *)
THEOREM LanguagesStayKept == Spec => []LanguagesKept
<1>1. SourcesInv /\ LanguagesInv => LanguagesKept
  <2> SUFFICES ASSUME SourcesInv, LanguagesInv, Idle, last.build = "full" PROVE LanguagesKept
    BY DEF LanguagesKept
  <2>1. SitemapsThere(out, Len(BuildOrder(conf))) /\ Injected(out)
    BY DEF LanguagesInv, Stage, Idle, Left
  <2>2. ASSUME NEW c \in Codes(conf) PROVE SitemapOf(c) \in DOMAIN out /\ out[SitemapOf(c)].lang = c
    <3>1. PICK i \in 1..Len(BuildOrder(conf)) : BuildOrder(conf)[i] = c
      BY SiteAssumed, OrderIs
    <3> QED
      BY <2>1, <3>1 DEF SitemapsThere
  <2> QED
    BY <2>1, <2>2 DEF LanguagesKept, SitemapOf, Injected
<1> QED
  BY <1>1, LanguagesInTurn, PTL

-----------------------------------------------------------------------------
(* Induction over numbers, by a least counterexample: the library's has an   *)
(* operator as a parameter.  And a recursion over numbers has values.        *)
LEMMA LeastNumber ==
  ASSUME NEW S, S \subseteq Nat, S # {}
  PROVE  \E n \in S : \A m \in S : n <= m
<1> DEFINE R == OpToRel(<, Nat)
<1>1. IsWellFoundedOn(R, Nat)
  BY NatLessThanWellFounded
<1>2. \A m, n \in Nat : m < n => <<m, n>> \in R
  BY DEF OpToRel
<1> HIDE DEF R
<1>3. \E n \in S : \A m \in S : ~ (<<m, n>> \in R)
  BY <1>1, WFMin
<1>4. \A m, n \in Nat : ~(m < n) => n <= m
  OBVIOUS
<1> QED
  BY <1>2, <1>3, <1>4

LEMMA UpTo ==
  ASSUME NEW N \in Nat, NEW T, 0 \in T, \A m \in 1..N : m - 1 \in T => m \in T
  PROVE  \A n \in 0..N : n \in T
<1> DEFINE Bad == (0..N) \ T
<1>1. ASSUME Bad # {} PROVE FALSE
  <2>1. Bad \subseteq Nat
    OBVIOUS
  <2>2. PICK m \in Bad : \A n \in Bad : m <= n
    <3> HIDE DEF Bad
    <3> QED
      BY <1>1, <2>1, LeastNumber
  <2>3. m \in 1..N /\ m - 1 \in 0..N /\ ~(m <= m - 1)
    OBVIOUS
  <2>4. m - 1 \in T
    BY <2>2, <2>3
  <2> QED
    BY <2>3, <2>4
<1> QED
  BY <1>1

(* The first n values of a recursion that repeats G.                         *)
Repeats(G, x, n, f) == f[0] = x /\ \A m \in 1..n : f[m] = G[f[m - 1]]

LEMMA RepeatedIs ==
  ASSUME NEW X, NEW G \in [X -> X], NEW x \in X, NEW N \in Nat
  PROVE  \E f \in [0..N -> X] : Repeats(G, x, N, f)
<1> DEFINE T == {n \in 0..N : \E f \in [0..n -> X] : Repeats(G, x, n, f)}
<1>1. 0 \in T
  <2> DEFINE f == [n \in 0..0 |-> x]
  <2>1. f \in [0..0 -> X] /\ Repeats(G, x, 0, f)
    BY DEF Repeats
  <2> QED
    BY <2>1
<1>2. ASSUME NEW m \in 1..N, m - 1 \in T PROVE m \in T
  <2>1. PICK f \in [0..(m - 1) -> X] : Repeats(G, x, m - 1, f)
    BY <1>2
  <2>2. m - 1 \in 0..(m - 1) /\ m \notin 0..(m - 1) /\ 0 \in 0..(m - 1) /\ \A n \in 0..m : n = m \/ n \in 0..(m - 1)
    OBVIOUS
  <2> DEFINE next == G[f[m - 1]]
             g == [n \in 0..m |-> IF n = m THEN next ELSE f[n]]
  <2>3. next \in X
    BY <2>2
  <2> HIDE DEF next
  <2>4. g \in [0..m -> X]
    BY <2>2, <2>3
  <2>5. g[m] = next /\ \A n \in 0..(m - 1) : g[n] = f[n]
    <3>1. m \in 0..m /\ \A n \in 0..(m - 1) : n \in 0..m /\ n # m
      OBVIOUS
    <3> QED
      BY <3>1
  <2> HIDE DEF g
  <2>6. ASSUME NEW n \in 1..m PROVE g[n] = G[g[n - 1]]
    <3>1. CASE n = m
      BY <2>2, <2>5, <3>1 DEF next
    <3>2. CASE n # m
      <4>1. n \in 1..(m - 1) /\ n \in 0..(m - 1) /\ n - 1 \in 0..(m - 1)
        BY <3>2
      <4> QED
        BY <2>1, <2>5, <4>1 DEF Repeats
    <3> QED
      BY <3>1, <3>2
  <2>7. Repeats(G, x, m, g)
    BY <2>1, <2>2, <2>5, <2>6 DEF Repeats
  <2>8. m \in 0..N
    OBVIOUS
  <2> QED
    BY <2>4, <2>7, <2>8
<1> HIDE DEF T
<1>3. \A n \in 0..N : n \in T
  BY <1>1, <1>2, UpTo
<1>4. N \in T
  BY <1>3
<1> QED
  BY <1>4 DEF T

-----------------------------------------------------------------------------
(* The graph reaches the nodes of the changed files, what depends on those,  *)
(* and what depends on that.                                                 *)
Changed(P, C) == UNION {PagePathFromSource(P, c) : c \in C}

LEMMA AffectedIs ==
  ASSUME NEW P, IsFiniteSet(P), NEW C, NEW u \in Changed(P, C)
  PROVE  /\ u \in AffectedBy(P, C)
         /\ Cardinality(P) >= 1 => DependedBy(P, u) \subseteq AffectedBy(P, C)
         /\ Cardinality(P) >= 2 => \A v \in DependedBy(P, u) : DependedBy(P, v) \subseteq AffectedBy(P, C)
<1> DEFINE N == Cardinality(P)
           X == SUBSET Nodes(P)
           next(s) == s \cup UNION {DependedBy(P, v) : v \in s}
           G == [s \in X |-> next(s)]
           within[n \in 0..N] == IF n = 0 THEN Changed(P, C) ELSE next(within[n - 1])
<1>0. N \in Nat
  BY FS_CardinalityType
<1>1. Changed(P, C) \in X
  BY DEF Changed, PagePathFromSource, Nodes
<1>2. \A v : DependedBy(P, v) \subseteq Nodes(P)
  BY DEF DependedBy
<1>3. G \in [X -> X] /\ \A s \in X : G[s] = next(s)
  BY <1>2
<1>4. AffectedBy(P, C) = within[N]
  BY DEF AffectedBy, Changed
<1> DEFINE F(w) == [n \in 0..N |-> IF n = 0 THEN Changed(P, C) ELSE next(w[n - 1])]
<1>5. within = CHOOSE w : w = F(w)
  OBVIOUS
<1> HIDE DEF X, G, within, N
<1>6. PICK f \in [0..N -> X] : Repeats(G, Changed(P, C), N, f)
  BY <1>0, <1>1, <1>3, RepeatedIs
<1>7. f = F(f)
  <2>1. ASSUME NEW n \in 0..N PROVE f[n] = F(f)[n]
    <3>1. CASE n = 0
      BY <1>6, <3>1 DEF Repeats
    <3>2. CASE n # 0
      <4>1. n \in 1..N /\ n - 1 \in 0..N
        BY <1>0, <3>2
      <4>2. f[n] = G[f[n - 1]] /\ f[n - 1] \in X
        BY <1>6, <4>1 DEF Repeats
      <4>3. f[n] = next(f[n - 1])
        BY <1>3, <4>2
      <4> HIDE DEF next
      <4> QED
        BY <3>2, <4>3
    <3> QED
      BY <3>1, <3>2
  <2> HIDE DEF next
  <2> QED
    BY <2>1
<1>8. within = F(within)
  <2> HIDE DEF F
  <2> QED
    BY <1>5, <1>7, Zenon
<1>9. /\ within[0] = Changed(P, C)
      /\ \A n \in 1..N : within[n] = next(within[n - 1])
  <2>1. \A n \in 0..N : F(within)[n] = IF n = 0 THEN Changed(P, C) ELSE next(within[n - 1])
    OBVIOUS
  <2> HIDE DEF F, next
  <2>2. \A n \in 0..N : within[n] = IF n = 0 THEN Changed(P, C) ELSE next(within[n - 1])
    BY <1>8, <2>1
  <2>3. 0 \in 0..N /\ \A n \in 1..N : n \in 0..N /\ n # 0
    BY <1>0
  <2> QED
    BY <2>2, <2>3
<1> HIDE DEF F
<1>10. ASSUME NEW k \in 0..N, NEW S, S \subseteq within[k] PROVE S \subseteq within[N]
  <2> DEFINE T == {n \in 0..N : k <= n => S \subseteq within[n]}
  <2>1. 0 \in T
    <3>1. k <= 0 => k = 0
      BY <1>0
    <3> QED
      BY <1>0, <1>10, <3>1
  <2>2. ASSUME NEW m \in 1..N, m - 1 \in T PROVE m \in T
    <3>1. m \in 0..N /\ (k <= m => k = m \/ k <= m - 1)
      BY <1>0
    <3>2. within[m - 1] \subseteq within[m]
      BY <1>9
    <3> QED
      BY <1>10, <2>2, <3>1, <3>2
  <2> HIDE DEF T
  <2>3. \A n \in 0..N : n \in T
    BY <1>0, <2>1, <2>2, UpTo
  <2>4. N \in 0..N /\ k <= N
    BY <1>0
  <2> QED
    BY <2>3, <2>4 DEF T
<1>11. Changed(P, C) \subseteq AffectedBy(P, C)
  BY <1>0, <1>4, <1>9, <1>10
<1>12. ASSUME N >= 1 PROVE 1 \in 0..N /\ DependedBy(P, u) \subseteq within[1]
  <2>1. 1 \in 1..N /\ 1 \in 0..N /\ 1 - 1 = 0
    BY <1>0, <1>12
  <2>2. within[1] = next(Changed(P, C))
    BY <1>9, <2>1
  <2> QED
    BY <2>1, <2>2
<1>13. ASSUME N >= 2, NEW v \in DependedBy(P, u) PROVE 2 \in 0..N /\ DependedBy(P, v) \subseteq within[2]
  <2>1. 2 \in 1..N /\ 2 \in 0..N /\ 2 - 1 = 1 /\ N >= 1
    BY <1>0, <1>13
  <2>2. within[2] = next(within[1])
    BY <1>9, <2>1
  <2>3. v \in within[1]
    BY <1>12, <1>13, <2>1
  <2> QED
    BY <2>1, <2>2, <2>3
<1> QED
  BY <1>4, <1>10, <1>11, <1>12, <1>13 DEF N

LEMMA PathTells ==
  ASSUME NEW p, NEW q, Path(p) = Path(q)
  PROVE  /\ p.dir = q.dir /\ p.base = q.base /\ Kind(p) = Kind(q) /\ Section(p) = Section(q)
         /\ p.base \in {"_index", "index"} => URL(p) = URL(q)
<1>1. p.dir = q.dir /\ p.base = q.base
  BY DEF Path
<1> QED
  BY <1>1 DEF Kind, Section, URL

(* Of the pages of a build those of files, and those made up.                *)
LEMMA PagesAre ==
  ASSUME NEW B, NEW c, NEW F, IsBuild(B, c, F)
  PROVE  /\ \A p \in B.pages : \/ p \in B.files
                               \/ p \in AutoSections(B.files) /\ Kind(p) = "section"
                               \/ p = Synthetic(<<>>) /\ Kind(p) = "home" /\ \A h \in B.tree : Kind(h) # "home"
         /\ \A p \in B.pages : Kind(p) = "page" => p \in B.files
         /\ \A p \in B.pages : Kind(p) # "home" => p \in B.tree
         /\ B.files \subseteq B.tree /\ AutoSections(B.files) \subseteq B.tree /\ B.tree \subseteq B.pages
         /\ \A p, q \in B.pages : Path(p) = Path(q) => p = q
<1>1. /\ B.tree = B.files \cup AutoSections(B.files) /\ B.pages = B.tree \cup {Home(B.tree)}
      /\ B.tree \subseteq AllPages(conf) /\ Comparable(B.pages)
  BY FilesAre, TreeIs DEF Tree, SitePages
<1>2. \A p \in AutoSections(B.files) : Kind(p) = "section"
  <2> SUFFICES ASSUME NEW p \in AutoSections(B.files) PROVE Kind(p) = "section"
    OBVIOUS
  <2>1. PICK x : p = Synthetic(<<x>>)
    BY AutoIs
  <2>2. p.dir = <<x>> /\ p.base = "_index" /\ <<x>> # <<>>
    BY <2>1, SyntheticIs
  <2> QED
    BY <2>2 DEF Kind
<1>3. Kind(Synthetic(<<>>)) = "home"
  BY SyntheticIs DEF Kind
<1>4. \/ Home(B.tree) \in B.tree
      \/ (\A h \in B.tree : Kind(h) # "home") /\ Home(B.tree) = Synthetic(<<>>)
  <2>1. \A h \in B.tree : Rank[Path(h)] \in Nat
    BY <1>1, RanksKnown DEF IsBuild
  <2> QED
    BY <2>1, HomeIs
<1> QED
  BY <1>1, <1>2, <1>3, <1>4 DEF Comparable

(* A directory with pages has a section page, if only a made-up one.         *)
LEMMA TopSections ==
  ASSUME NEW B, NEW c, NEW F, IsBuild(B, c, F),
         NEW g \in B.files, Kind(g) = "page", g.dir # <<>>, g.base # "index"
  PROVE  \E s \in B.pages : Kind(s) = "section" /\ Section(s) = Section(g)
<1> DEFINE d == g.dir[1]
           T == {p.dir[1] : p \in {q \in B.files : Kind(q) = "page" /\ q.dir # <<>>}}
           other(x) == \E p \in B.files : p.dir # <<>> /\ p.dir[1] = x /\ p.base # "index"
           covered(x) == \E p \in B.files : p.base = "_index" /\ p.dir = <<x>>
<1>1. Section(g) = d
  BY DEF Section
<1>2. d \in T /\ other(d)
  OBVIOUS
<1>3. ASSUME NEW s, s.base = "_index", s.dir = <<d>> PROVE Kind(s) = "section" /\ Section(s) = d
  <2>1. <<d>> # <<>> /\ <<d>>[1] = d
    OBVIOUS
  <2> QED
    BY <1>3, <2>1 DEF Kind, Section
<1>4. CASE covered(d)
  BY <1>1, <1>3, <1>4, PagesAre
<1>5. CASE ~covered(d)
  <2>1. Synthetic(<<d>>) \in AutoSections(B.files)
    BY <1>2, <1>5 DEF AutoSections
  <2>2. Synthetic(<<d>>) \in B.pages
    BY <2>1, PagesAre
  <2>3. Synthetic(<<d>>).base = "_index" /\ Synthetic(<<d>>).dir = <<d>>
    BY SyntheticIs
  <2> HIDE DEF d
  <2> QED
    BY <1>1, <1>3, <2>2, <2>3
<1> QED
  BY <1>4, <1>5

(* What the graph tells of a change to the file of one of its pages.         *)
LEMMA EditReaches ==
  ASSUME NEW B, NEW c, NEW F, IsBuild(B, c, F), NEW P, P = B.pages,
         NEW C, NEW g \in P, Path(g) \in C
  PROVE  /\ URL(g) \in AffectedBy(P, C)
         /\ Kind(g) = "page" => \A s \in P : Kind(s) = "section" /\ Section(s) = Section(g) => URL(s) \in AffectedBy(P, C)
         /\ Kind(g) = "page" /\ g.dir # <<>> /\ g.base # "index" => <<>> \in AffectedBy(P, C)
<1>1. IsFiniteSet(P) /\ Home(B.tree) \in P /\ Kind(Home(B.tree)) = "home"
  BY TreeIs
<1>2. URL(g) \in Changed(P, C)
  BY DEF Changed, PagePathFromSource
<1>3. URL(g) \in AffectedBy(P, C)
  BY <1>1, <1>2, AffectedIs
<1>4. ASSUME NEW s \in P, s # g PROVE Cardinality(P) >= 2
  <2>1. IsFiniteSet({s}) /\ Cardinality({s}) = 1 /\ g \notin {s}
    BY <1>4, FS_Singleton
  <2>2. Cardinality({s} \cup {g}) = 2
    BY <2>1, FS_AddElement
  <2>3. {s} \cup {g} \in SUBSET P
    OBVIOUS
  <2> QED
    BY <1>1, <2>2, <2>3, FS_Subset, FS_CardinalityType
<1>5. Cardinality(P) \in Nat
  BY <1>1, FS_CardinalityType
<1>6. ASSUME Kind(g) = "page", NEW s \in P, Kind(s) = "section", Section(s) = Section(g)
      PROVE  URL(s) \in AffectedBy(P, C) /\ URL(s) \in DependedBy(P, URL(g))
  <2>1. URL(g) \in DependsOn(P)[URL(s)] /\ URL(s) \in Nodes(P)
    BY <1>6 DEF DependsOn, Nodes
  <2>2. URL(s) \in DependedBy(P, URL(g))
    BY <2>1 DEF DependedBy
  <2>3. Cardinality(P) >= 1
    BY <1>4, <1>5, <1>6
  <2> QED
    BY <1>1, <1>2, <2>2, <2>3, AffectedIs
<1>7. ASSUME Kind(g) = "page", g.dir # <<>>, g.base # "index" PROVE <<>> \in AffectedBy(P, C)
  <2>1. g \in B.files
    BY <1>7, PagesAre
  <2>2. PICK s \in P : Kind(s) = "section" /\ Section(s) = Section(g)
    BY <1>7, <2>1, TopSections
  <2>3. URL(s) \in DependedBy(P, URL(g))
    BY <1>6, <1>7, <2>2
  <2>4. URL(Home(B.tree)) = <<>>
    BY <1>1 DEF Kind, URL
  <2> DEFINE h == Home(B.tree)
  <2> HIDE DEF h
  <2>5. h \in P /\ Kind(h) = "home" /\ URL(h) = <<>>
    BY <1>1, <2>4 DEF h
  <2>6. URL(s) \in DependsOn(P)[<<>>] /\ <<>> \in Nodes(P)
    BY <2>2, <2>5 DEF DependsOn, Nodes
  <2>7. <<>> \in DependedBy(P, URL(s))
    BY <2>6 DEF DependedBy
  <2>8. Cardinality(P) >= 2
    BY <1>4, <1>7, <2>2
  <2> QED
    BY <1>1, <1>2, <2>3, <2>7, <2>8, AffectedIs
<1> QED
  BY <1>3, <1>6, <1>7

(* Two builds of files of a graph's pages, with its sections, that differ at *)
(* some paths only.                                                          *)
Differ(B, D) == (B.files \ D.files) \cup (D.files \ B.files)

Alike(P, C, B, D) ==
    /\ \A g \in P : g.base # "index"
    /\ Sections(B.pages) = Sections(P) /\ Sections(D.pages) = Sections(P)
    /\ \A x \in B.files \cup D.files : \E g \in P : Path(g) = Path(x)
    /\ \A x \in Differ(B, D) : Path(x) \in C

LEMMA AlikeTurned == ASSUME NEW P, NEW C, NEW B, NEW D, Alike(P, C, B, D) PROVE Alike(P, C, D, B)
  BY DEF Alike, Differ

LEMMA ChangeReaches ==
  ASSUME NEW R, NEW c, NEW H, IsBuild(R, c, H), NEW P, P = R.pages, NEW C,
         NEW B, NEW D, Alike(P, C, B, D), NEW x \in Differ(B, D)
  PROVE  /\ \A g \in P : Path(g) = Path(x) => URL(g) \in AffectedBy(P, C)
         /\ x.base = "_index" => x.dir \in AffectedBy(P, C)
         /\ Kind(x) = "page" /\ x.dir # <<>> =>
               /\ <<>> \in AffectedBy(P, C)
               /\ \A s \in P : Kind(s) = "section" /\ Section(s) = x.dir[1] => URL(s) \in AffectedBy(P, C)
<1>1. Path(x) \in C /\ x \in B.files \cup D.files
  BY DEF Alike, Differ
<1>2. PICK g \in P : Path(g) = Path(x)
  BY <1>1 DEF Alike
<1>3. g.dir = x.dir /\ g.base = x.base /\ Kind(g) = Kind(x) /\ g.base # "index"
  BY <1>2, PathTells DEF Alike
<1>4. \A f \in P : Path(f) = Path(x) => URL(f) \in AffectedBy(P, C)
  BY <1>1, EditReaches
<1>5. x.base = "_index" => x.dir \in AffectedBy(P, C)
  BY <1>2, <1>3, <1>4 DEF URL
<1>6. ASSUME Kind(x) = "page", x.dir # <<>>
      PROVE  /\ <<>> \in AffectedBy(P, C)
             /\ \A s \in P : Kind(s) = "section" /\ Section(s) = x.dir[1] => URL(s) \in AffectedBy(P, C)
  <2>1. Section(g) = x.dir[1]
    BY <1>3, <1>6 DEF Section
  <2> QED
    BY <1>1, <1>2, <1>3, <1>6, <2>1, EditReaches
<1> QED
  BY <1>4, <1>5, <1>6

(* A section's directory tells it, and with it its cascade.                  *)
LEMMA SectionsAre ==
  ASSUME NEW B, NEW c, NEW F, IsBuild(B, c, F)
  PROVE  /\ \A s \in B.pages : Kind(s) = "section" => s \in B.tree /\ s.base = "_index"
         /\ \A s, t \in B.pages : Kind(s) = "section" /\ Kind(t) = "section" /\ s.dir = t.dir => s = t
         /\ SectionDirs(B.tree) = {e[1] : e \in Sections(B.pages)}
<1>1. \A s \in B.pages : Kind(s) = "section" => s \in B.tree /\ s.base = "_index"
  BY PagesAre DEF Kind
<1>2. \A s, t \in B.pages : Kind(s) = "section" /\ Kind(t) = "section" /\ s.dir = t.dir => Path(s) = Path(t)
  BY <1>1 DEF Path
<1>3. \A s, t \in B.pages : Kind(s) = "section" /\ Kind(t) = "section" /\ s.dir = t.dir => s = t
  BY <1>2, PagesAre
<1>4. SectionDirs(B.tree) = {e[1] : e \in Sections(B.pages)}
  <2>1. ASSUME NEW s \in B.tree, Kind(s) = "section" PROVE s.dir \in {e[1] : e \in Sections(B.pages)}
    <3>1. <<s.dir, s.cascade>> \in Sections(B.pages)
      BY <2>1, PagesAre DEF Sections
    <3> QED
      BY <3>1
  <2>2. ASSUME NEW e \in Sections(B.pages) PROVE e[1] \in SectionDirs(B.tree)
    BY <1>1, <2>2 DEF Sections, SectionDirs
  <2> QED
    BY <2>1, <2>2 DEF SectionDirs
<1> QED
  BY <1>1, <1>3, <1>4

(* The section a page hangs under, and whether it is listed, depend on the   *)
(* sections only.                                                            *)
Cascading(T, p) ==
    {s \in T : Kind(s) = "section" /\ s.cascade # ""
                                /\ Len(s.dir) <= Len(p.dir) /\ SubSeq(p.dir, 1, Len(s.dir)) = s.dir}

Deepest(S) == CHOOSE s \in S : \A r \in S : Len(r.dir) <= Len(s.dir)

LEMMA LengthsAre ==
  ASSUME ContentAssumed(conf), NEW p \in AllPages(conf)
  PROVE  Len(p.dir) \in Nat
<1>1. ASSUME NEW q \in Contents(conf) PROVE Len(q.dir) \in Nat
  <2>1. q.dir \in Seq(STRING)
    BY DEF ContentAssumed
  <2> QED
    BY <2>1
<1>2. \A d : Synthetic(d).dir = d
  BY SyntheticIs
<1>3. \A x : Len(<<x>>) = 1 /\ Len(<<>>) = 0
  OBVIOUS
<1> QED
  BY <1>1, <1>2, <1>3 DEF AllPages

LEMMA DeepestIs ==
  ASSUME NEW B, NEW c, NEW F, IsBuild(B, c, F), NEW p \in AllPages(conf), Cascading(B.tree, p) # {}
  PROVE  /\ Deepest(Cascading(B.tree, p)) \in Cascading(B.tree, p)
         /\ \A r \in Cascading(B.tree, p) : Len(r.dir) <= Len(Deepest(Cascading(B.tree, p)).dir)
<1> DEFINE S == Cascading(B.tree, p)
           Lens == {Len(p.dir) - Len(s.dir) : s \in S}
<1>1. \A q \in AllPages(conf) : Len(q.dir) \in Nat
  BY LengthsAre DEF IsBuild
<1>2. S \subseteq AllPages(conf)
  BY TreeIs DEF Cascading
<1>3. \A s \in S : Len(s.dir) \in Nat /\ Len(p.dir) \in Nat /\ Len(s.dir) <= Len(p.dir)
  BY <1>1, <1>2 DEF Cascading
<1>4. S # {}
  OBVIOUS
<1> HIDE DEF S
<1>5. Lens \subseteq Nat /\ Lens # {}
  <2>1. \A m, n \in Nat : n <= m => m - n \in Nat
    OBVIOUS
  <2>2. \A s \in S : Len(p.dir) - Len(s.dir) \in Nat
    BY <1>3, <2>1
  <2> QED
    BY <1>4, <2>2
<1>6. PICK n \in Lens : \A m \in Lens : n <= m
  <2> HIDE DEF Lens
  <2> QED
    BY <1>5, LeastNumber
<1>7. PICK s \in S : n = Len(p.dir) - Len(s.dir)
  BY <1>6
<1>8. \A r \in S : Len(r.dir) <= Len(s.dir)
  <2> SUFFICES ASSUME NEW r \in S PROVE Len(r.dir) <= Len(s.dir)
    OBVIOUS
  <2>1. Len(p.dir) - Len(r.dir) \in Lens
    OBVIOUS
  <2>2. Len(p.dir) - Len(s.dir) <= Len(p.dir) - Len(r.dir)
    BY <1>6, <1>7, <2>1
  <2> QED
    BY <1>3, <2>2
<1> DEFINE Best(t) == \A r \in S : Len(r.dir) <= Len(t.dir)
<1>9. Deepest(S) = CHOOSE t \in S : Best(t)
  BY DEF Deepest
<1>10. Best(s)
  BY <1>8
<1> HIDE DEF Best
<1>11. Deepest(S) \in S /\ Best(Deepest(S))
  BY <1>9, <1>10, Zenon
<1> QED
  BY <1>11 DEF Best, S

LEMMA TreesAlike ==
  ASSUME NEW B, NEW c, NEW F, IsBuild(B, c, F), NEW D, NEW d, NEW G, IsBuild(D, d, G),
         Sections(B.pages) = Sections(D.pages)
  PROVE  /\ \A p : Parent(B.tree, p) = Parent(D.tree, p)
         /\ \A p \in AllPages(conf) : IsListed(B.tree, p) <=> IsListed(D.tree, p)
<1>1. SectionDirs(B.tree) = SectionDirs(D.tree)
  BY SectionsAre
<1>2. ASSUME NEW p PROVE Parent(B.tree, p) = Parent(D.tree, p)
  BY <1>1 DEF Parent, Enclosing
<1>3. ASSUME NEW p \in AllPages(conf), NEW X, NEW Y, NEW b, NEW e, NEW E, NEW K,
             IsBuild(X, b, E), IsBuild(Y, e, K), Sections(X.pages) = Sections(Y.pages), NEW s \in Cascading(X.tree, p)
      PROVE  \E t \in Cascading(Y.tree, p) : t.dir = s.dir /\ t.cascade = s.cascade
  <2>1. s \in X.pages /\ Kind(s) = "section"
    BY <1>3, PagesAre DEF Cascading
  <2>2. <<s.dir, s.cascade>> \in Sections(Y.pages)
    BY <1>3, <2>1 DEF Sections
  <2>3. PICK t \in Y.pages : Kind(t) = "section" /\ <<t.dir, t.cascade>> = <<s.dir, s.cascade>>
    BY <2>2 DEF Sections
  <2>4. t.dir = s.dir /\ t.cascade = s.cascade /\ t \in Y.tree
    BY <1>3, <2>3, SectionsAre
  <2> QED
    BY <2>3, <2>4 DEF Cascading
<1>4. ASSUME NEW p \in AllPages(conf) PROVE ListOf(B.tree, p) = ListOf(D.tree, p)
  <2> DEFINE S == Cascading(B.tree, p)
             K == Cascading(D.tree, p)
  <2>1. /\ \A s \in S : \E t \in K : t.dir = s.dir /\ t.cascade = s.cascade
        /\ \A t \in K : \E s \in S : s.dir = t.dir /\ s.cascade = t.cascade
    BY <1>3
  <2>2. /\ ListOf(B.tree, p) = IF Kind(p) # "page" \/ p.list # "" \/ S = {} THEN p.list ELSE Deepest(S).cascade
        /\ ListOf(D.tree, p) = IF Kind(p) # "page" \/ p.list # "" \/ K = {} THEN p.list ELSE Deepest(K).cascade
    BY DEF ListOf, Cascading, Deepest
  <2>3. S = {} <=> K = {}
    BY <2>1
  <2>4. ASSUME S # {}, K # {} PROVE Deepest(S).cascade = Deepest(K).cascade
    <3>1. /\ Deepest(S) \in S /\ \A r \in S : Len(r.dir) <= Len(Deepest(S).dir)
          /\ Deepest(K) \in K /\ \A r \in K : Len(r.dir) <= Len(Deepest(K).dir)
      BY <2>4, DeepestIs
    <3>2. PICK t \in K : t.dir = Deepest(S).dir /\ t.cascade = Deepest(S).cascade
      BY <2>1, <3>1
    <3>3. PICK s \in S : s.dir = Deepest(K).dir
      BY <2>1, <3>1
    <3>4. Len(t.dir) = Len(Deepest(K).dir)
      <4>1. Len(t.dir) <= Len(Deepest(K).dir) /\ Len(Deepest(K).dir) <= Len(t.dir)
        BY <3>1, <3>2, <3>3
      <4>2. Len(t.dir) \in Nat /\ Len(Deepest(K).dir) \in Nat
        <5>2. K \subseteq AllPages(conf)
          BY TreeIs DEF Cascading
        <5>3. \A q \in AllPages(conf) : Len(q.dir) \in Nat
          BY LengthsAre DEF IsBuild
        <5> QED
          BY <3>1, <5>2, <5>3
      <4> QED
        BY <4>1, <4>2
    <3>5. t.dir = Deepest(K).dir
      BY <3>1, <3>4 DEF Cascading
    <3>6. t = Deepest(K)
      <4>1. \A q \in K : q \in D.pages /\ Kind(q) = "section"
        BY PagesAre DEF Cascading
      <4> HIDE DEF K
      <4> QED
        BY <3>1, <3>5, <4>1, SectionsAre
    <3> QED
      BY <3>2, <3>6
  <2> DEFINE own == Kind(p) # "page" \/ p.list # ""
  <2> HIDE DEF S, K
  <2>5. CASE own \/ S = {} \/ K = {}
    BY <2>2, <2>3, <2>5
  <2>6. CASE ~own /\ S # {} /\ K # {}
    BY <2>2, <2>4, <2>6
  <2> QED
    BY <2>5, <2>6
<1> QED
  BY <1>2, <1>4 DEF IsListed

-----------------------------------------------------------------------------
(* A list of a set in its order is the only one, so that a part of a sorted  *)
(* list is the sorted list of that part.                                     *)
LEMMA OnceEach ==
  ASSUME NEW m \in Nat, NEW f, DOMAIN f = 1..m, \A i, j \in 1..m : f[i] = f[j] => i = j,
         NEW T, T = {f[j] : j \in 1..m}
  PROVE  IsFiniteSet(T) /\ Cardinality(T) = m
<1>1. IsFiniteSet(1..m) /\ Cardinality(1..m) = m
  <2>1. 1 \in Int /\ m \in Int /\ (1 > m => m = 0) /\ m - 1 + 1 = m
    OBVIOUS
  <2> QED
    BY <2>1, FS_Interval
<1> DEFINE g == [j \in 1..m |-> f[j]]
<1>2. g \in [1..m -> T] /\ \A j \in 1..m : g[j] = f[j]
  OBVIOUS
<1> HIDE DEF g
<1>3. DOMAIN g = 1..m
  BY <1>2
<1>4. IsInjective(g)
  BY <1>2, <1>3 DEF IsInjective
<1>5. g \in Surjection(1..m, T) /\ g \in Injection(1..m, T)
  BY <1>2, <1>4 DEF Surjection, Injection
<1> QED
  BY <1>1, <1>5, FS_Surjection

LEMMA OrderedOnly ==
  ASSUME NEW S, IsFiniteSet(S), NEW R, StrictOrder(S, R), NEW n \in Nat, NEW list \in [1..n -> S],
         \A p \in S : \E i \in 1..n : list[i] = p,
         \A i, j \in 1..n : i < j => <<list[i], list[j]>> \in R
  PROVE  list = Ordered(S, R)
<1>1. \A i, j \in 1..n : list[i] = list[j] => i = j
  <2> SUFFICES ASSUME NEW i \in 1..n, NEW j \in 1..n, list[i] = list[j], i # j PROVE FALSE
    OBVIOUS
  <2>1. i < j \/ j < i
    OBVIOUS
  <2>2. <<list[i], list[j]>> \in R \/ <<list[j], list[i]>> \in R
    BY <2>1
  <2> QED
    BY <2>2 DEF StrictOrder
<1>2. S = {list[j] : j \in 1..n} /\ DOMAIN list = 1..n
  OBVIOUS
<1>3. Cardinality(S) = n
  BY <1>1, <1>2, OnceEach
<1>4. ASSUME NEW i \in 1..n PROVE Cardinality(Smaller(S, R, list[i])) = i - 1
  <2> DEFINE f == [j \in 1..(i - 1) |-> list[j]]
             T == Smaller(S, R, list[i])
  <2>0. i - 1 \in Nat /\ \A j \in 1..(i - 1) : j \in 1..n /\ j < i
    OBVIOUS
  <2>1. DOMAIN f = 1..(i - 1) /\ \A j \in 1..(i - 1) : f[j] = list[j]
    OBVIOUS
  <2> HIDE DEF f
  <2>2. T = {f[j] : j \in 1..(i - 1)}
    <3>1. \A j \in 1..(i - 1) : f[j] \in T
      BY <2>0, <2>1 DEF Smaller
    <3>2. ASSUME NEW q \in T PROVE \E j \in 1..(i - 1) : f[j] = q
      <4>1. q \in S /\ <<q, list[i]>> \in R
        BY <3>2 DEF Smaller
      <4>2. PICK j \in 1..n : list[j] = q
        BY <4>1
      <4>3. j # i /\ ~(i < j)
        BY <4>1, <4>2 DEF StrictOrder
      <4>4. j \in 1..(i - 1)
        BY <4>3
      <4> QED
        BY <2>1, <4>2, <4>4
    <3> HIDE DEF T
    <3> QED
      BY <3>1, <3>2
  <2>3. \A a, b \in 1..(i - 1) : f[a] = f[b] => a = b
    BY <1>1, <2>0, <2>1
  <2> HIDE DEF T
  <2>4. Cardinality(T) = i - 1
    BY <2>0, <2>1, <2>2, <2>3, OnceEach
  <2> QED
    BY <2>4 DEF T
<1> DEFINE P(i, p) == Cardinality(Smaller(S, R, p)) = i - 1
           o == Ordered(S, R)
<1>5. o = [i \in 1..n |-> CHOOSE p \in S : P(i, p)]
  BY <1>3 DEF Ordered, Smaller
<1>6. \A i \in 1..n : P(i, list[i]) /\ list[i] \in S
  BY <1>4
<1>7. ASSUME NEW i \in 1..n, NEW p \in S, P(i, p) PROVE p = list[i]
  <2>1. Cardinality(Smaller(S, R, p)) = Cardinality(Smaller(S, R, list[i])) /\ list[i] \in S
    BY <1>4, <1>7
  <2>2. Cardinality(Smaller(S, R, p)) \in Int
    BY <1>7
  <2>3. <<p, list[i]>> \in R => FALSE
    BY <2>1, <2>2, RanksGrow
  <2>4. <<list[i], p>> \in R => FALSE
    BY <2>1, <2>2, RanksGrow
  <2> QED
    BY <2>1, <2>3, <2>4 DEF StrictOrder
<1> HIDE DEF P
<1>8. \A i \in 1..n : (CHOOSE p \in S : P(i, p)) = list[i]
  <2> TAKE i \in 1..n
  <2>1. P(i, list[i]) /\ list[i] \in S
    BY <1>6
  <2>2. (CHOOSE p \in S : P(i, p)) \in S /\ P(i, CHOOSE p \in S : P(i, p))
    BY <2>1, Zenon
  <2> QED
    BY <1>7, <2>2
<1>9. \A i \in 1..n : o[i] = list[i]
  BY <1>5, <1>8
<1>10. DOMAIN o = 1..n
  BY <1>5
<1>11. o = [i \in 1..n |-> o[i]]
  BY <1>5
<1> HIDE DEF o
<1>12. list = o
  BY <1>9, <1>11
<1> QED
  BY <1>12 DEF o

LEMMA FilteredSorted ==
  ASSUME NEW S, IsFiniteSet(S), Comparable(S), NEW T, T \subseteq S
  PROVE  Picked(Sorted(S), {k \in DOMAIN Sorted(S) : Sorted(S)[k] \in T}) = Sorted(T)
<1> DEFINE s == Sorted(S)
           places == {k \in DOMAIN s : s[k] \in T}
           list == Picked(s, places)
<1>1. /\ s \in Seq(S) /\ \A p \in S : \E i \in DOMAIN s : s[i] = p
      /\ \A i, j \in DOMAIN s : i < j => Before(s[i], s[j])
  BY SortedListsAll, SortedIs
<1>2. IsFiniteSet(T) /\ Comparable(T)
  BY SomeComparable
<1> DEFINE R == {e \in T \X T : Before(e[1], e[2])}
<1>3. \A a, b \in T : <<a, b>> \in R <=> Before(a, b)
  OBVIOUS
<1>4. Sorted(T) = Ordered(T, R)
  BY DEF Sorted, InOrder
<1> HIDE DEF R, s
<1>5. StrictOrder(T, R)
  BY <1>2, <1>3, BeforeOrders DEF StrictOrder
<1>6. places \subseteq DOMAIN s /\ {s[k] : k \in places} \subseteq T
  OBVIOUS
<1> HIDE DEF list
<1>7. /\ list \in Seq({s[k] : k \in places})
      /\ \A k \in places : \E i \in DOMAIN list : list[i] = s[k]
      /\ \A i, j \in DOMAIN list : i < j => \E k, l \in places : k < l /\ list[i] = s[k] /\ list[j] = s[l]
  <2> HIDE DEF places
  <2> QED
    BY ONLY <1>1, <1>6, PickedIs DEF list
<1>8. list \in Seq(T)
  <2> HIDE DEF places
  <2> QED
    BY ONLY <1>6, <1>7, SeqWider
<1>9. Len(list) \in Nat /\ list \in [1..Len(list) -> T] /\ DOMAIN list = 1..Len(list)
  BY ONLY <1>8
<1>10. \A p \in T : \E i \in 1..Len(list) : list[i] = p
  <2> TAKE p \in T
  <2>1. PICK k \in DOMAIN s : s[k] = p
    BY <1>1
  <2>2. k \in places
    BY <2>1
  <2> QED
    BY <1>7, <1>9, <2>1, <2>2
<1>11. \A i, j \in 1..Len(list) : i < j => <<list[i], list[j]>> \in R
  <2> TAKE i, j \in 1..Len(list)
  <2> HAVE i < j
  <2>0. i \in DOMAIN list /\ j \in DOMAIN list
    BY ONLY <1>9, i \in 1..Len(list), j \in 1..Len(list)
  <2>1. \E k, l \in places : k < l /\ list[i] = s[k] /\ list[j] = s[l]
    <3> HIDE DEF places
    <3> QED
      BY ONLY <1>7, <2>0, i < j
  <2>2. PICK k, l \in places : k < l /\ list[i] = s[k] /\ list[j] = s[l]
    BY <2>1
  <2>3. Before(s[k], s[l])
    BY <1>1, <2>2
  <2> QED
    BY <1>3, <2>2, <2>3
<1>12. list = Ordered(T, R)
  <2>1. PICK n \in Nat : /\ n = Len(list) /\ list \in [1..n -> T]
                         /\ \A p \in T : \E i \in 1..n : list[i] = p
                         /\ \A i, j \in 1..n : i < j => <<list[i], list[j]>> \in R
    BY <1>9, <1>10, <1>11
  <2> QED
    BY <1>2, <1>5, <2>1, OrderedOnly
<1> QED
  BY <1>4, <1>12 DEF list, s

LEMMA VisibleSorted ==
  ASSUME NEW S, IsFiniteSet(S), Comparable(S), NEW drafts
  PROVE  Visible(Sorted(S), drafts) = Sorted({p \in S : drafts \/ ~p.draft})
<1> DEFINE s == Sorted(S)
           T == {p \in S : drafts \/ ~p.draft}
<1>1. s \in Seq(S)
  BY SortedIs
<1>2. Visible(s, drafts) = Picked(s, {k \in DOMAIN s : drafts \/ ~s[k].draft})
  BY DEF Visible
<1>3. T \subseteq S
  OBVIOUS
<1>4. Picked(Sorted(S), {k \in DOMAIN Sorted(S) : Sorted(S)[k] \in T}) = Sorted(T)
  <2> HIDE DEF T
  <2> QED
    BY <1>3, FilteredSorted
<1> HIDE DEF s
<1>5. {k \in DOMAIN s : drafts \/ ~s[k].draft} = {k \in DOMAIN s : s[k] \in T}
  <2>1. \A k \in DOMAIN s : s[k] \in S
    BY <1>1
  <2> QED
    BY <2>1
<1> HIDE DEF T
<1> QED
  BY <1>2, <1>4, <1>5 DEF s, T

(* The pages of the pagers, and those of a section's list.                   *)
MainSet(B) == {p \in B.tree : /\ Kind(p) = "page" /\ IsListed(B.tree, p)
                              /\ B.conf.drafts \/ ~p.draft
                              /\ Section(p) \in B.conf.main}

RegularSet(T, d) == {p \in T : Kind(p) = "page" /\ Parent(T, p) = d /\ d # <<>> /\ IsListed(T, p)}

LEMMA MainIs ==
  ASSUME NEW B, NEW c, NEW F, IsBuild(B, c, F)
  PROVE  MainItems(B) = Sorted(MainSet(B))
<1> DEFINE S == {p \in B.tree : Kind(p) = "page" /\ IsListed(B.tree, p)}
           T == {p \in S : B.conf.drafts \/ ~p.draft}
           t == Sorted(T)
<1>1. IsFiniteSet(S) /\ Comparable(S)
  <2>1. S \subseteq B.pages /\ IsFiniteSet(B.pages) /\ Comparable(B.pages)
    BY TreeIs
  <2> HIDE DEF S
  <2> QED
    BY <2>1, SomeComparable
<1>2. IsFiniteSet(T) /\ Comparable(T)
  <2>1. T \subseteq S
    OBVIOUS
  <2> HIDE DEF S, T
  <2> QED
    BY <1>1, <2>1, SomeComparable
<1>3. Visible(SiteRegularPages(B.tree), B.conf.drafts) = t
  <2>1. SiteRegularPages(B.tree) = Sorted(S)
    BY DEF SiteRegularPages
  <2> HIDE DEF S
  <2> QED
    BY <1>1, <2>1, VisibleSorted
<1>4. MainItems(B) = Picked(t, {k \in DOMAIN t : Section(t[k]) \in B.conf.main})
  BY <1>3 DEF MainItems, MainPages
<1>5. MainSet(B) \subseteq T
  BY DEF MainSet
<1>6. \A p \in T : p \in MainSet(B) <=> Section(p) \in B.conf.main
  BY DEF MainSet
<1> HIDE DEF T, S
<1>7. \A k \in DOMAIN t : t[k] \in T
  BY <1>2, SortedIs
<1> HIDE DEF t
<1>8. {k \in DOMAIN t : Section(t[k]) \in B.conf.main} = {k \in DOMAIN t : t[k] \in MainSet(B)}
  BY <1>6, <1>7
<1>9. Picked(t, {k \in DOMAIN t : t[k] \in MainSet(B)}) = Sorted(MainSet(B))
  BY <1>2, <1>5, FilteredSorted DEF t
<1> QED
  BY <1>4, <1>8, <1>9

(* The graph of a build, and two builds it tells the difference of.          *)
OfGraph(P) == \E H : IsBuild(Load(conf, "", H), "", H) /\ P = Load(conf, "", H).pages

Two(P, C, B, D) ==
    /\ OfGraph(P) /\ (\E F : IsBuild(B, "", F)) /\ (\E F : IsBuild(D, "", F))
    /\ Alike(P, C, B, D) /\ ~IsMultiLanguage(conf)

LEMMA TwoTurned == ASSUME NEW P, NEW C, NEW B, NEW D, Two(P, C, B, D) PROVE Two(P, C, D, B)
  BY AlikeTurned DEF Two

LEMMA TwoReach ==
  ASSUME NEW P, NEW C, NEW B, NEW D, Two(P, C, B, D), NEW x \in Differ(B, D)
  PROVE  /\ \A g \in P : Path(g) = Path(x) => URL(g) \in AffectedBy(P, C)
         /\ x.base = "_index" => x.dir \in AffectedBy(P, C)
         /\ Kind(x) = "page" /\ x.dir # <<>> =>
               /\ <<>> \in AffectedBy(P, C)
               /\ \A s \in P : Kind(s) = "section" /\ Section(s) = x.dir[1] => URL(s) \in AffectedBy(P, C)
<1>1. PICK H : IsBuild(Load(conf, "", H), "", H) /\ P = Load(conf, "", H).pages
  BY DEF Two, OfGraph
<1> DEFINE R == Load(conf, "", H)
<1>2. IsBuild(R, "", H) /\ P = R.pages /\ Alike(P, C, B, D)
  BY <1>1 DEF Two
<1> HIDE DEF R
<1> QED
  BY <1>2, ChangeReaches

LEMMA TwoTrees ==
  ASSUME NEW P, NEW C, NEW B, NEW D, Two(P, C, B, D)
  PROVE  /\ \A p : Parent(B.tree, p) = Parent(D.tree, p)
         /\ \A p \in AllPages(conf) : IsListed(B.tree, p) <=> IsListed(D.tree, p)
         /\ B.pages \subseteq AllPages(conf) /\ B.tree \subseteq B.pages
         /\ B.conf = conf /\ D.conf = conf /\ B.code = D.code /\ B.available = D.available
<1>1. PICK F : IsBuild(B, "", F)
  BY DEF Two
<1>2. PICK G : IsBuild(D, "", G)
  BY DEF Two
<1>3. Sections(B.pages) = Sections(D.pages)
  BY DEF Two, Alike
<1>4. B.available = <<>> /\ D.available = <<>>
  BY <1>1, <1>2 DEF Two, IsBuild, Load
<1>5. /\ B.pages \subseteq AllPages(conf) /\ B.tree \subseteq B.pages
      /\ B.conf = conf /\ D.conf = conf /\ B.code = "" /\ D.code = ""
  BY <1>1, <1>2, TreeIs, FilesAre
<1>6. /\ \A p : Parent(B.tree, p) = Parent(D.tree, p)
      /\ \A p \in AllPages(conf) : IsListed(B.tree, p) <=> IsListed(D.tree, p)
  BY <1>1, <1>2, <1>3, TreesAlike
<1> QED
  BY <1>4, <1>5, <1>6

(* Where a page hangs lies in its own top directory.                         *)
LEMMA ParentIn ==
  ASSUME NEW T, NEW x, Kind(x) = "page", Parent(T, x) # <<>>, x \in AllPages(conf), ContentAssumed(conf)
  PROVE  x.dir # <<>> /\ Parent(T, x)[1] = x.dir[1]
<1>1. Parent(T, x) = Enclosing(T, x.dir)
  BY DEF Parent, Kind
<1> DEFINE d == x.dir
           at(k) == SubSeq(d, 1, k)
           ks == {k \in 1..Len(d) : at(k) \in SectionDirs(T)}
           best(k) == \A j \in ks : j <= k
<1>2. Enclosing(T, d) = IF ks = {} THEN <<>> ELSE at(CHOOSE k \in ks : best(k))
  BY DEF Enclosing
<1>3. ks # {}
  BY <1>1, <1>2
<1>4. \E k \in ks : best(k)
  <2>1. Len(d) \in Nat
    BY LengthsAre
  <2> DEFINE L == {Len(d) - k : k \in ks}
  <2>2. L \subseteq Nat /\ L # {}
    <3>1. \A k \in ks : k \in 1..Len(d)
      OBVIOUS
    <3> HIDE DEF ks
    <3>2. \A k \in ks : Len(d) - k \in Nat
      BY <2>1, <3>1
    <3> QED
      BY <1>3, <3>2
  <2>3. PICK n \in L : \A m \in L : n <= m
    <3> HIDE DEF L
    <3> QED
      BY <2>2, LeastNumber
  <2>4. PICK k \in ks : n = Len(d) - k
    OBVIOUS
  <2>5. ASSUME NEW j \in ks PROVE j <= k
    <3>1. Len(d) - j \in L
      OBVIOUS
    <3>2. Len(d) - k <= Len(d) - j
      BY <2>3, <2>4, <3>1
    <3> QED
      BY <2>1, <3>2
  <2> QED
    BY <2>5
<1>5. PICK k \in 1..Len(d) : Enclosing(T, d) = at(k)
  <2> HIDE DEF best
  <2>1. (CHOOSE k \in ks : best(k)) \in ks
    BY <1>4, Zenon
  <2> QED
    BY <1>2, <1>3, <2>1
<1>6. d \in Seq({d[i] : i \in DOMAIN d})
  <2>1. x \in Contents(conf)
    <3>1. \A e : Kind(Synthetic(e)) # "page"
      BY SyntheticIs DEF Kind
    <3> QED
      BY <3>1 DEF AllPages
  <2>2. d \in Seq(STRING)
    BY <2>1 DEF ContentAssumed
  <2> QED
    BY <2>2, SeqPath DEF IsPath
<1> DEFINE S == {d[i] : i \in DOMAIN d}
<1> HIDE DEF S, d
<1>7. d # <<>> /\ at(k)[1] = d[1]
  <2>1. d \in Seq(S)
    BY <1>6 DEF S
  <2> QED
    BY ONLY <2>1, k \in 1..Len(d)
<1> QED
  BY <1>1, <1>5, <1>7 DEF d

LEMMA ListsAlike ==
  ASSUME NEW P, NEW C, NEW B, NEW D, Two(P, C, B, D)
  PROVE  /\ <<>> \notin AffectedBy(P, C) => MainSet(B) \subseteq MainSet(D)
         /\ \A s \in P : Kind(s) = "section" /\ s.dir \notin AffectedBy(P, C) =>
               RegularSet(B.tree, s.dir) \subseteq RegularSet(D.tree, s.dir)
<1>1. /\ \A p : Parent(B.tree, p) = Parent(D.tree, p)
      /\ \A p \in AllPages(conf) : IsListed(B.tree, p) <=> IsListed(D.tree, p)
      /\ B.pages \subseteq AllPages(conf) /\ B.tree \subseteq B.pages
      /\ B.conf = conf /\ D.conf = conf
  BY TwoTrees
<1>2. \A x \in B.tree : Kind(x) = "page" => x \in B.files
  BY <1>1, PagesAre DEF Two
<1>3. \A x \in B.files : x \in D.files \/ x \in Differ(B, D)
  BY DEF Differ
<1>4. D.files \subseteq D.tree
  BY PagesAre DEF Two
<1>5. ContentAssumed(conf)
  BY DEF Two, IsBuild
<1>6. ASSUME <<>> \notin AffectedBy(P, C), NEW x \in MainSet(B) PROVE x \in MainSet(D)
  <2>1. x.dir # <<>>
    <3>1. Section(x) # ""
      BY <1>1, <1>5, <1>6 DEF MainSet, ContentAssumed
    <3> QED
      BY <3>1 DEF Section
  <2>2. x \in B.files /\ Kind(x) = "page"
    BY <1>2, <1>6 DEF MainSet
  <2>3. x \in D.tree
    BY <1>3, <1>4, <1>6, <2>1, <2>2, TwoReach
  <2> QED
    BY <1>1, <1>6, <2>3 DEF MainSet
<1>7. ASSUME NEW s \in P, Kind(s) = "section", s.dir \notin AffectedBy(P, C), NEW x \in RegularSet(B.tree, s.dir)
      PROVE  x \in RegularSet(D.tree, s.dir)
  <2>1. /\ x \in B.files /\ Kind(x) = "page" /\ Parent(B.tree, x) = s.dir /\ s.dir # <<>>
        /\ x \in AllPages(conf) /\ IsListed(B.tree, x)
    BY <1>1, <1>2, <1>7 DEF RegularSet
  <2>2. x.dir # <<>> /\ s.dir[1] = x.dir[1]
    BY <1>5, <2>1, ParentIn
  <2>3. s.base = "_index" /\ Section(s) = x.dir[1] /\ URL(s) = s.dir
    <3>1. s.base = "_index"
      BY <1>7 DEF Kind
    <3> QED
      BY <2>1, <2>2, <3>1 DEF Section, URL
  <2>4. x \in D.tree
    BY <1>3, <1>4, <1>7, <2>1, <2>2, <2>3, TwoReach
  <2> QED
    BY <1>1, <2>1, <2>4 DEF RegularSet
<1> QED
  BY <1>6, <1>7

(* A page the edits do not reach is as it was in the build before, and there.*)
LEMMA PageAlike ==
  ASSUME NEW P, NEW C, NEW B, NEW D, Two(P, C, B, D),
         NEW p, NEW g \in P, Path(g) = Path(p), URL(g) = URL(p), URL(p) \notin AffectedBy(P, C)
  PROVE  PageView(B, p) = PageView(D, p)
<1>1. B.conf = conf /\ D.conf = conf /\ B.code = D.code /\ B.available = D.available
  BY TwoTrees
<1>2. Two(P, C, D, B)
  BY TwoTurned
<1>3. View(B, "html") = View(D, "html") /\ Images(B, p) = Images(D, p)
  BY <1>1 DEF View, Images
<1>4. CASE Kind(p) = "home"
  <2>1. URL(p) = <<>>
    BY <1>4 DEF Kind, URL
  <2>2. MainSet(B) = MainSet(D)
    <3>1. MainSet(B) \subseteq MainSet(D)
      BY <2>1, ListsAlike
    <3>2. MainSet(D) \subseteq MainSet(B)
      BY <1>2, <2>1, ListsAlike
    <3> QED
      BY <3>1, <3>2
  <2>3. MainItems(B) = MainItems(D)
    BY <2>2, MainIs DEF Two
  <2> DEFINE chain == Chain(MainItems(B), conf.size)
             page == [View(B, "html") EXCEPT !.own = <<p>>, !.extra.diagram = Diagram(conf, p),
                     !.extra.imgs = Images(B, p), !.links = TranslationLinks(conf, B.available, p)]
             home == [page EXCEPT !.list = chain[1].items, !.next = chain[1].next]
  <2>4. PageView(B, p) = home
    BY <1>1, <1>4 DEF PageView
  <2>5. PageView(D, p) = home
    BY <1>1, <1>3, <1>4, <2>3 DEF PageView
  <2> QED
    BY ONLY <2>4, <2>5
<1>5. CASE Kind(p) # "home"
  <2>1. Children(B, p) = Children(D, p)
    <3>1. CASE Kind(p) = "section"
      <4>1. Kind(g) = "section" /\ g.dir = p.dir
        BY <3>1, PathTells
      <4>2. URL(p) = p.dir
        BY <3>1 DEF Kind, URL
      <4>3. RegularSet(B.tree, p.dir) = RegularSet(D.tree, p.dir)
        <5>1. RegularSet(B.tree, g.dir) \subseteq RegularSet(D.tree, g.dir)
          BY <4>1, <4>2, ListsAlike
        <5>2. RegularSet(D.tree, g.dir) \subseteq RegularSet(B.tree, g.dir)
          BY <1>2, <4>1, <4>2, ListsAlike
        <5> QED
          BY <4>1, <5>1, <5>2
      <4>4. RegularPages(B.tree, p.dir) = RegularPages(D.tree, p.dir)
        BY <4>3 DEF RegularPages, RegularSet
      <4> QED
        BY <1>1, <3>1, <4>4 DEF Children
    <3>2. CASE Kind(p) # "section"
      BY <1>1, <1>5, <3>2 DEF Children
    <3> QED
      BY <3>1, <3>2
  <2> DEFINE page == [View(B, "html") EXCEPT !.own = <<p>>, !.extra.diagram = Diagram(conf, p),
                     !.extra.imgs = Images(B, p), !.links = TranslationLinks(conf, B.available, p)]
             other == [page EXCEPT !.list = Children(B, p)]
  <2>4. PageView(B, p) = other
    BY <1>1, <1>5 DEF PageView
  <2>5. PageView(D, p) = other
    BY <1>1, <1>3, <1>5, <2>1 DEF PageView
  <2> QED
    BY ONLY <2>4, <2>5
<1> QED
  BY <1>4, <1>5

LEMMA StillThere ==
  ASSUME NEW P, NEW C, NEW B, NEW D, Two(P, C, B, D),
         NEW p \in D.pages, NEW g \in P, Path(g) = Path(p), URL(g) = URL(p), URL(p) \notin AffectedBy(P, C)
  PROVE  p \in B.pages
<1> DEFINE Whole(A) ==
             /\ \A q \in A.pages :
                   \/ q \in A.files
                   \/ q \in AutoSections(A.files) /\ Kind(q) = "section"
                   \/ q = Synthetic(<<>>) /\ Kind(q) = "home" /\ \A h \in A.tree : Kind(h) # "home"
             /\ A.files \subseteq A.tree /\ A.tree \subseteq A.pages
             /\ \A q, r \in A.pages : Path(q) = Path(r) => q = r
<1>1. Whole(B) /\ Whole(D)
  <2> SUFFICES ASSUME NEW A, NEW F, IsBuild(A, "", F) PROVE Whole(A)
    BY DEF Two
  <2> QED
    BY PagesAre
<1>2. ASSUME NEW x \in Differ(B, D), Path(x) = Path(p) PROVE FALSE
  BY <1>2, TwoReach
<1>3. CASE p \in D.files
  <2>1. p \in B.files
    BY <1>2, <1>3 DEF Differ
  <2> QED
    BY <1>1, <2>1
<1>4. CASE p \in AutoSections(D.files) /\ Kind(p) = "section"
  <2>1. <<p.dir, p.cascade>> \in Sections(B.pages)
    BY <1>4 DEF Sections, Two, Alike
  <2>2. PICK t \in B.pages : Kind(t) = "section" /\ <<t.dir, t.cascade>> = <<p.dir, p.cascade>>
    BY <2>1 DEF Sections
  <2>3. t.dir = p.dir /\ t.base = "_index" /\ p.base = "_index"
    BY <1>4, <2>2 DEF Kind
  <2>4. Path(t) = Path(p)
    BY <2>3 DEF Path
  <2>5. CASE t \in B.files
    <3>1. t \in D.files
      BY <1>2, <2>4, <2>5 DEF Differ
    <3>2. t \in D.pages
      BY <1>1, <3>1
    <3> QED
      BY <1>1, <2>4, <3>2
  <2>6. CASE t \in AutoSections(B.files)
    <3>1. PICK x : t = Synthetic(<<x>>)
      BY <2>6, AutoIs
    <3>2. PICK y : p = Synthetic(<<y>>)
      BY <1>4, AutoIs
    <3>3. <<x>> = <<y>>
      BY <2>3, <3>1, <3>2, SyntheticIs
    <3> QED
      BY <3>1, <3>2, <3>3
  <2> QED
    BY <1>1, <2>2, <2>5, <2>6
<1>5. CASE p = Synthetic(<<>>) /\ \A h \in D.tree : Kind(h) # "home"
  <2> DEFINE h == Home(B.tree)
  <2>1. h \in B.pages /\ Kind(h) = "home"
    BY TreeIs DEF Two
  <2> HIDE DEF h
  <2>2. h \in B.files \/ h = Synthetic(<<>>)
    BY <1>1, <2>1
  <2>3. CASE h \in B.files
    <3>1. h \in Differ(B, D)
      BY <1>1, <1>5, <2>1, <2>3 DEF Differ
    <3>2. PICK f \in P : Path(f) = Path(h)
      BY <2>3 DEF Two, Alike
    <3>3. URL(f) \in AffectedBy(P, C)
      BY <3>1, <3>2, TwoReach
    <3>4. Kind(f) = "home"
      BY <2>1, <3>2, PathTells
    <3>5. URL(f) = <<>> /\ URL(p) = <<>>
      BY <1>5, <3>4, SyntheticIs DEF Kind, URL
    <3> QED
      BY <3>3, <3>5
  <2> QED
    BY <1>5, <2>1, <2>2, <2>3
<1> HIDE DEF Whole
<1> QED
  BY <1>1, <1>3, <1>4, <1>5 DEF Whole

-----------------------------------------------------------------------------
(* What is made from the whole site has its own places in the output.        *)
Tops == {"tags", "categories", "page", "api"}

Placed(q) == \/ q \in {<<"llms.txt">>, <<"search.json">>, <<"sitemap.xml">>, <<"404.html">>}
             \/ Len(q) > 1 /\ q[1] \in Tops

AllPlaced(f) == \A q \in DOMAIN f : Placed(q)

LEMMA OverPlaced == ASSUME NEW f, NEW g, AllPlaced(f), AllPlaced(g) PROVE AllPlaced(f ++ g)
  BY DEF AllPlaced, ++

LEMMA OnePlaced == ASSUME NEW q, NEW v, Placed(q) PROVE AllPlaced(OneFile(q, v))
  BY DEF AllPlaced, OneFile

LEMMA NonePlaced == AllPlaced(<<>>)
  BY DEF AllPlaced

LEMMA AppendedIs ==
  ASSUME NEW p, IsPath(p), NEW x
  PROVE  /\ Append(p, x) # <<>> /\ Len(Append(p, x)) = Len(p) + 1 /\ Front(Append(p, x)) = p
         /\ p = <<>> => Append(p, x) = <<x>>
         /\ p # <<>> => Len(Append(p, x)) > 1 /\ Append(p, x)[1] = p[1]
<1> DEFINE S == {p[i] : i \in DOMAIN p} \cup {x}
<1>1. p \in Seq(S) /\ x \in S
  <2>1. p \in Seq({p[i] : i \in DOMAIN p})
    BY DEF IsPath
  <2> QED
    BY ONLY <2>1, SeqWider
<1> HIDE DEF S
<1>2. Append(p, x) \in Seq(S) /\ Len(Append(p, x)) = Len(p) + 1 /\ Len(p) \in Nat
  BY ONLY <1>1
<1>3. Front(Append(p, x)) = p
  BY ONLY <1>1, <1>2 DEF Front
<1>4. p # <<>> => Len(Append(p, x)) > 1 /\ Append(p, x)[1] = p[1]
  BY ONLY <1>1
<1>5. p = <<>> => Append(p, x) = <<x>>
  BY ONLY <1>1
<1> QED
  BY <1>2, <1>3, <1>4, <1>5

LEMMA TopPlaced ==
  ASSUME NEW a \in Tops, NEW b, NEW c
  PROVE  /\ Placed(<<a, b>>) /\ Placed(<<a, b, c>>)
         /\ Placed(HTML(<<a>>)) /\ Placed(RSS(<<a>>)) /\ Placed(HTML(<<a, b>>)) /\ Placed(RSS(<<a, b>>))
<1>1. Len(<<a, b>>) > 1 /\ <<a, b>>[1] = a /\ Len(<<a, b, c>>) > 1 /\ <<a, b, c>>[1] = a
  OBVIOUS
<1>2. <<a>> # <<>> /\ <<a>>[1] = a /\ <<a, b>> # <<>>
  OBVIOUS
<1>3. \A x : /\ Len(Append(<<a>>, x)) > 1 /\ Append(<<a>>, x)[1] = a
            /\ Len(Append(<<a, b>>, x)) > 1 /\ Append(<<a, b>>, x)[1] = a
  BY <1>1, <1>2, ShortPaths, AppendedIs
<1> QED
  BY <1>1, <1>3 DEF HTML, RSS, Output, Placed

LEMMA FeedsPlaced == ASSUME NEW B PROVE AllPlaced(FeedsAndSpecials(B)) /\ AllPlaced(SiteWideWrites(B))
<1> USE OnePlaced, NonePlaced
<1>1. AllPlaced(AIOutputs(B))
  <2>1. \A s : Placed(<<"api", s>>)
    BY TopPlaced DEF Tops
  <2>2. AllPlaced(ContentAPI(B))
    BY <2>1 DEF ContentAPI, AllPlaced
  <2>3. AllPlaced(LlmsTxt(B))
    BY DEF LlmsTxt, Placed
  <2> QED
    BY <2>2, <2>3, OverPlaced DEF AIOutputs
<1>2. AllPlaced(SearchIndex(B)) /\ AllPlaced(Sitemap(B)) /\ AllPlaced(NotFound(B))
  BY DEF SearchIndex, Sitemap, NotFound, Placed
<1>3. AllPlaced(CategoryWrites(B))
  <2>1. Placed(HTML(<<"categories">>)) /\ Placed(RSS(<<"categories">>))
    BY TopPlaced DEF Tops
  <2> QED
    BY <2>1, OverPlaced DEF CategoryWrites
<1>4. AllPlaced(HomePagers(B))
  <2> DEFINE items == MainItems(B)
             size == B.conf.size
             home == PageView(B, Home(B.tree))
             pager(k) == [home EXCEPT !.list = Clone(items, size, k).items,
                                 !.next = Clone(items, size, k).next]
             ks == 2..TotalPages(Len(items), size)
             pagers == [q \in {Pager(k) : k \in ks} |-> pager(CHOOSE k \in ks : Pager(k) = q)]
  <2>1. \A k : Placed(Pager(k))
    BY TopPlaced DEF Pager, Tops
  <2>2. AllPlaced(pagers)
    <3> HIDE DEF pager, ks
    <3> QED
      BY <2>1 DEF AllPlaced
  <2>3. HomePagers(B) = OneFile(Pager(1), View(B, "redirect")) ++ pagers
    BY DEF HomePagers
  <2> HIDE DEF pagers
  <2> QED
    BY <2>1, <2>2, <2>3, OverPlaced
<1>5. AllPlaced(TaxonomyWrites(B))
  <2> DEFINE T == B.tree
             form(k) == OriginalCase(T, k)
             term(k) == [View(B, "term") EXCEPT !.list = TermPages(T, k), !.terms = <<form(k)>>]
             listing == [View(B, "terms") EXCEPT !.terms = ByCount(T, B.conf.termRank)]
             feed == [View(B, "rss") EXCEPT !.terms = TermStubs(T, B.conf.termRank)]
             ks == IF <<"_default", "list">> \in B.templates THEN Terms(T) ELSE {}
             htmls == [q \in {HTML(<<"tags", k>>) : k \in ks} |-> term(q[2])]
             feeds == [q \in {RSS(<<"tags", k>>) : k \in ks} |-> [term(q[2]) EXCEPT !.as = "rss"]]
  <2>1. \A k : Placed(HTML(<<"tags", k>>)) /\ Placed(RSS(<<"tags", k>>)) /\ Placed(HTML(<<"tags">>)) /\ Placed(RSS(<<"tags">>))
    BY TopPlaced DEF Tops
  <2>2. AllPlaced(htmls) /\ AllPlaced(feeds)
    <3> HIDE DEF term, ks
    <3> QED
      BY <2>1 DEF AllPlaced
  <2>3. TaxonomyWrites(B) = IF Terms(T) = {} THEN <<>>
          ELSE OneFile(HTML(<<"tags">>), listing) ++ OneFile(RSS(<<"tags">>), feed) ++ htmls ++ feeds
    BY DEF TaxonomyWrites
  <2> HIDE DEF listing, feed, htmls, feeds
  <2> QED
    BY <2>1, <2>2, <2>3, OverPlaced
<1> QED
  BY <1>1, <1>2, <1>3, <1>4, <1>5, OverPlaced DEF FeedsAndSpecials, SiteWideWrites

LEMMA PageElsewhere ==
  ASSUME NEW u, IsPath(u), u # <<>> => u[1] \notin {"tags", "categories", "page", "api"}
  PROVE  ~Placed(HTML(u))
<1> DEFINE q == HTML(u)
<1>1. CASE u = <<>>
  <2>1. q = <<"index.html">>
    BY <1>1, AppendedIs DEF HTML, Output
  <2> HIDE DEF q
  <2>2. ~(Len(q) > 1) /\ q \notin {<<"llms.txt">>, <<"search.json">>, <<"sitemap.xml">>, <<"404.html">>}
    BY ONLY <2>1
  <2> QED
    BY <2>2 DEF Placed, q
<1>2. CASE u # <<>>
  <2>1. Len(q) > 1 /\ q[1] = u[1]
    BY <1>2, AppendedIs DEF HTML, Output
  <2> HIDE DEF q
  <2>2. q \notin {<<"llms.txt">>, <<"search.json">>, <<"sitemap.xml">>, <<"404.html">>}
    BY ONLY <2>1
  <2> QED
    BY <1>2, <2>1, <2>2 DEF Placed, Tops, q
<1> QED
  BY <1>1, <1>2

(* Pages of different addresses have different files.                        *)
LEMMA FilesApart ==
  ASSUME NEW u, IsPath(u), NEW v, IsPath(v)
  PROVE  /\ HTML(u) = HTML(v) => u = v
         /\ HTML(u) # Mirror(v) /\ HTML(u) # RSS(v)
<1>1. HTML(u) = HTML(v) => u = v
  BY AppendedIs DEF HTML, Output
<1>2. Last(HTML(u)) = "index.html" /\ Last(Mirror(v)) = "index.md" /\ Last(RSS(v)) = "index.xml"
  BY LastIs DEF HTML, Mirror, RSS, Output
<1> QED
  BY <1>1, <1>2

LEMMA OutcomesCover ==
  ASSUME NEW W, NEW pages \in Outcomes(W), NEW w \in W
  PROVE  w.path \in DOMAIN pages
<1> DEFINE paths == {x.path : x \in W}
<1>1. DOMAIN pages = paths
  <2> DEFINE at == [q \in paths |-> {x.view : x \in {y \in W : y.path = q}}]
             contested == {q \in paths : Cardinality(at[q]) > 1}
             wins == {f \in [contested -> UNION {at[q] : q \in contested}] :
                         \A q \in contested : f[q] \in at[q]}
  <2>1. Outcomes(W) = {[q \in paths |-> IF q \in contested THEN won[q] ELSE CHOOSE v \in at[q] : TRUE] : won \in wins}
    BY DEF Outcomes
  <2> HIDE DEF at, contested, wins, paths
  <2> QED
    BY <2>1
<1> QED
  BY <1>1

(* A page alone at its address is the one its file shows.                    *)
LEMMA PageWritten ==
  ASSUME NEW B, NEW c, NEW F, IsBuild(B, c, F), NEW pages \in Outcomes(PageWrites(B)),
         NEW p \in Rendered(B), \A r \in B.pages : URL(r) = URL(p) => r = p
  PROVE  HTML(URL(p)) \in DOMAIN pages /\ pages[HTML(URL(p))] = PageView(B, p)
<1> DEFINE q == HTML(URL(p))
<1>1. \A r \in B.pages : IsPath(URL(r))
  BY TreeIs, PagePaths DEF IsBuild
<1>2. p \in B.pages /\ \A r \in Rendered(B) : r \in B.pages
  BY DEF Rendered
<1>3. \E w \in PageWrites(B) : w.path = q
  <2> DEFINE x == [path |-> q, view |-> PageView(B, p)]
  <2>1. x \in PageWrites(B)
    BY DEF PageWrites
  <2>2. x.path = q
    OBVIOUS
  <2> HIDE DEF x, q
  <2> QED
    BY <2>1, <2>2
<1>4. q \in DOMAIN pages
  BY <1>3, OutcomesCover
<1>5. PICK w \in PageWrites(B) : w.path = q /\ pages[q] = w.view
  <2> HIDE DEF q
  <2> QED
    BY <1>4, OutcomesAre
<1>6. ASSUME NEW r \in Rendered(B) PROVE /\ q # Mirror(URL(r)) /\ q # RSS(URL(r))
                                         /\ q = HTML(URL(r)) => r = p
  BY <1>1, <1>2, FilesApart
<1> HIDE DEF q
<1>7. w.view = PageView(B, p)
  BY <1>5, <1>6 DEF PageWrites
<1> QED
  BY <1>4, <1>5, <1>7 DEF q

(* What the build of the daemon leaves: the files of that build, the plugins *)
(* having changed no more of a page than extra.                              *)
LEMMA RootedIs == ASSUME NEW q, IsPath(q) PROVE <<>> \o q = q
<1> DEFINE S == {q[i] : i \in DOMAIN q}
<1>1. q \in Seq(S)
  BY DEF IsPath
<1> HIDE DEF S
<1> QED
  BY ONLY <1>1

(* A section's file of the content API, unless a copied file stands for it.  *)
Offered(f, B) ==
    conf.api =>
        \A q \in DOMAIN ContentAPI(B) \ DOMAIN StaticWrites(B) :
            q \in DOMAIN f /\ "list" \in DOMAIN f[q] /\ f[q].list = ContentAPI(B)[q].list

LEMMA FirstWins ==
  ASSUME NEW f, NEW g, NEW q
  PROVE  /\ q \in DOMAIN f => q \in DOMAIN (f ++ g) /\ (f ++ g)[q] = f[q]
         /\ q \in DOMAIN g => q \in DOMAIN (f ++ g)
         /\ q \in DOMAIN g /\ q \notin DOMAIN f => (f ++ g)[q] = g[q]
BY DEF ++

LEMMA APIWritten ==
  ASSUME NEW B, B.conf.api, NEW q \in DOMAIN ContentAPI(B)
  PROVE  /\ q \in DOMAIN FeedsAndSpecials(B) /\ FeedsAndSpecials(B)[q] = ContentAPI(B)[q]
         /\ q \in DOMAIN SiteWideWrites(B) /\ SiteWideWrites(B)[q] = ContentAPI(B)[q]
         /\ {"list", "extra"} \subseteq DOMAIN ContentAPI(B)[q]
         /\ \E s : q = <<"api", s>>
<1> DEFINE a == LlmsTxt(B)
           c == ContentAPI(B)
           all == AIOutputs(B)
<1>1. PICK s : q = <<"api", s>>
  BY DEF ContentAPI
<1>2. q \notin DOMAIN a
  <2>1. Len(q) = 2 /\ Len(<<"llms.txt">>) = 1
    BY <1>1
  <2>2. q # <<"llms.txt">>
    BY <2>1
  <2>3. \A x \in DOMAIN a : x = <<"llms.txt">>
    BY DEF LlmsTxt, OneFile
  <2> QED
    BY <2>2, <2>3
<1>3. all = a ++ c
  BY DEF AIOutputs
<1>4. PICK x : c[q] = [View(B, "api") EXCEPT !.list = x]
  BY DEF ContentAPI
<1>5. {"list", "extra"} \subseteq DOMAIN c[q]
  BY <1>4 DEF View
<1> HIDE DEF a, c, all
<1>6. q \in DOMAIN all /\ all[q] = c[q]
  BY <1>2, <1>3, FirstWins DEF c
<1>7. q \in DOMAIN FeedsAndSpecials(B) /\ FeedsAndSpecials(B)[q] = c[q]
  BY <1>6, FirstWins DEF FeedsAndSpecials, all
<1>8. q \in DOMAIN SiteWideWrites(B) /\ SiteWideWrites(B)[q] = c[q]
  BY <1>6, FirstWins DEF SiteWideWrites, all
<1> QED
  BY <1>1, <1>5, <1>7, <1>8 DEF c

(* Plugins leave the list of a file as it is.                                *)
SameLists(f, g) ==
    /\ DOMAIN g = DOMAIN f
    /\ \A q \in DOMAIN f :
          /\ DOMAIN g[q] = DOMAIN f[q]
          /\ "list" \in DOMAIN f[q] => g[q].list = f[q].list

LEMMA PluginsKeepLists ==
  ASSUME NEW r, NEW f, NEW dir, NEW S, NEW answers, NEW g, g = OnOutputWritten(r, f, dir, S, answers)
  PROVE  SameLists(f, g)
<1>1. DOMAIN g = DOMAIN f
  BY DEF OnOutputWritten
<1>2. ASSUME NEW q \in DOMAIN f
      PROVE  DOMAIN g[q] = DOMAIN f[q] /\ ("list" \in DOMAIN f[q] => g[q].list = f[q].list)
  <2>1. \/ g[q] = f[q]
        \/ \E x : g[q] = [f[q] EXCEPT !.extra = x]
        \/ \E x : g[q] = [f[q] EXCEPT !.extra.ranked = x, !.links = {}]
    <3>1. CASE q \in CollectHTMLFiles(f, dir)
      BY <3>1 DEF OnOutputWritten
    <3>2. CASE q \notin CollectHTMLFiles(f, dir)
      <4>1. g[q] = f[q] \/ g[q] = EnhanceSitemap(Plugin(r, "sitemap_enhancer"), dir, f[q])
        BY <3>2 DEF OnOutputWritten
      <4>2. PICK v : v = f[q]
        OBVIOUS
      <4>3. \/ EnhanceSitemap(Plugin(r, "sitemap_enhancer"), dir, v) = v
            \/ \E x : EnhanceSitemap(Plugin(r, "sitemap_enhancer"), dir, v) = [v EXCEPT !.extra.ranked = x, !.links = {}]
        BY ONLY DEF EnhanceSitemap
      <4> QED
        BY <4>1, <4>2, <4>3
    <3> QED
      BY <3>1, <3>2
  <2>2. PICK v, w : v = f[q] /\ w = g[q]
    OBVIOUS
  <2>3. \/ w = v
        \/ \E x : w = [v EXCEPT !.extra = x]
        \/ \E x : w = [v EXCEPT !.extra.ranked = x, !.links = {}]
    BY <2>1, <2>2
  <2>4. DOMAIN w = DOMAIN v /\ ("list" \in DOMAIN v => w.list = v.list)
    BY ONLY <2>3
  <2> QED
    BY <2>2, <2>4
<1> QED
  BY <1>1, <1>2 DEF SameLists

ShowsBuild(B, pages, g) ==
    /\ DOMAIN Written(B, pages) \subseteq DOMAIN g /\ <<"search.json">> \in DOMAIN g
    /\ Offered(g, B)
    /\ \A p \in Rendered(B) :
          /\ \A x \in B.pages : URL(x) = URL(p) => x = p
          /\ HTML(URL(p)) \notin DOMAIN StaticWrites(B)
          /\ URL(p) # <<>> => URL(p)[1] \notin {"tags", "categories", "page", "api"}
          => HTML(URL(p)) \in DOMAIN g /\ Plain(g[HTML(URL(p))]) = Plain(PageView(B, p))

LEMMA FullShows ==
  ASSUME NEW B, NEW F, IsBuild(B, "", F), NEW pages \in Outcomes(PageWrites(B)), NEW f, AllPaths(f),
         NEW r, NEW S, NEW answers, NEW g,
         g = OnOutputWritten(r, Result(<<>>, Written(B, pages), f), <<>>, S, answers)
  PROVE  ShowsBuild(B, pages, g)
<1> DEFINE w == Written(B, pages)
           h == Result(<<>>, w, f)
<1>1. AllPaths(w)
  BY WrittenPaths
<1>2. DOMAIN g = DOMAIN h
  BY DEF OnOutputWritten
<1>3. Merged(<<>>, w, f, h)
  <2> HIDE DEF w
  <2> QED
    BY <1>1, ShortPaths, ResultIs
<1> HIDE DEF h
<1>4. \A q \in DOMAIN w : <<>> \o q = q /\ IsPath(q) /\ IsPrefix(<<>>, q)
  BY <1>1, RootedIs, RootOfAll DEF AllPaths
<1>5. \A q \in DOMAIN w : q \in DOMAIN h /\ h[q] = w[q]
  <2> HIDE DEF w
  <2> TAKE q \in DOMAIN w
  <2>1. q \in DOMAIN h
    <3>1. <<>> \o q \in DOMAIN h
      BY <1>3 DEF Merged
    <3> QED
      BY <1>4, <3>1
  <2>2. PICK x \in DOMAIN w : q = <<>> \o x /\ h[q] = w[x]
    BY <1>3, <1>4, <2>1 DEF Merged
  <2> QED
    BY <1>4, <2>1, <2>2
<1>6. <<"search.json">> \in DOMAIN w
  <2>1. <<"search.json">> \in DOMAIN SearchIndex(B)
    BY DEF SearchIndex, OneFile
  <2>2. ASSUME NEW a, NEW b, NEW q PROVE q \in DOMAIN a \/ q \in DOMAIN b => q \in DOMAIN (a ++ b)
    BY DEF ++
  <2>3. <<"search.json">> \in DOMAIN FeedsAndSpecials(B)
    BY <2>1, <2>2 DEF FeedsAndSpecials
  <2> QED
    BY <2>2, <2>3 DEF Written
<1>7. ASSUME NEW p \in Rendered(B), \A x \in B.pages : URL(x) = URL(p) => x = p,
             HTML(URL(p)) \notin DOMAIN StaticWrites(B),
             URL(p) # <<>> => URL(p)[1] \notin {"tags", "categories", "page", "api"}
      PROVE  HTML(URL(p)) \in DOMAIN g /\ Plain(g[HTML(URL(p))]) = Plain(PageView(B, p))
  <2> DEFINE q == HTML(URL(p))
             v == PageView(B, p)
  <2>1. IsPath(URL(p))
    BY TreeIs, PagePaths DEF IsBuild, Rendered
  <2>2. q \in DOMAIN pages /\ pages[q] = v
    BY <1>7, PageWritten
  <2>3. q \notin DOMAIN FeedsAndSpecials(B)
    BY <1>7, <2>1, PageElsewhere, FeedsPlaced DEF AllPlaced
  <2>4. q \notin DOMAIN StaticWrites(B) /\ Last(q) = "index.html"
    BY <1>7, <2>1, LastIs DEF HTML, Output
  <2> HIDE DEF q, v
  <2>5. q \in DOMAIN w /\ w[q] = v
    BY <2>2, <2>3, <2>4 DEF Written, ++
  <2>6. q \in DOMAIN h /\ h[q] = v /\ IsPrefix(<<>>, q)
    BY <1>4, <1>5, <2>5
  <2>7. q \in CollectHTMLFiles(h, <<>>)
    BY <2>4, <2>6 DEF CollectHTMLFiles
  <2>8. PICK x : g[q] = [h[q] EXCEPT !.extra = x]
    BY <2>6, <2>7 DEF OnOutputWritten, h
  <2>9. Plain(g[q]) = Plain(v)
    BY <2>6, <2>8 DEF Plain
  <2> QED
    BY <1>2, <2>6, <2>9 DEF q, v
<1>8. Offered(g, B)
  <2> SUFFICES ASSUME conf.api, NEW q \in DOMAIN ContentAPI(B) \ DOMAIN StaticWrites(B)
               PROVE  q \in DOMAIN g /\ "list" \in DOMAIN g[q] /\ g[q].list = ContentAPI(B)[q].list
    BY DEF Offered
  <2> DEFINE v == ContentAPI(B)[q]
  <2>1. B.conf.api
    BY FilesAre
  <2>2. q \in DOMAIN FeedsAndSpecials(B) /\ FeedsAndSpecials(B)[q] = v /\ "list" \in DOMAIN v
    BY <2>1, APIWritten
  <2> HIDE DEF v
  <2>3. q \in DOMAIN w /\ w[q] = v
    <3>1. w = StaticWrites(B) ++ FeedsAndSpecials(B) ++ pages
      BY DEF Written
    <3> DEFINE a == StaticWrites(B)
               b == FeedsAndSpecials(B)
    <3>2. q \notin DOMAIN a /\ q \in DOMAIN b /\ b[q] = v /\ w = a ++ b ++ pages
      BY <2>2, <3>1
    <3> HIDE DEF w, a, b
    <3>3. q \in DOMAIN (a ++ b) /\ (a ++ b)[q] = v
      BY ONLY <3>2, FirstWins
    <3> QED
      BY ONLY <3>2, <3>3, FirstWins
  <2>4. q \in DOMAIN h /\ h[q] = v
    BY <1>5, <2>3
  <2>5. DOMAIN g[q] = DOMAIN h[q] /\ ("list" \in DOMAIN h[q] => g[q].list = h[q].list)
    <3>1. g = OnOutputWritten(r, h, <<>>, S, answers)
      BY DEF h
    <3>2. SameLists(h, g)
      BY ONLY <3>1, PluginsKeepLists
    <3>3. q \in DOMAIN h
      BY <2>4
    <3> QED
      BY ONLY <3>2, <3>3 DEF SameLists
  <2> QED
    BY <1>2, <2>2, <2>4, <2>5 DEF v
<1> QED
  BY <1>2, <1>5, <1>6, <1>7, <1>8 DEF ShowsBuild

-----------------------------------------------------------------------------
(* What the daemon has to keep true for its incremental builds: that no edit *)
(* of a page of the graph is forgotten, and that what no edit has reached is *)
(* still shown.  F is the content the output shows.                          *)
Told(P, F, G, C) == \A x \in (F \ G) \cup (G \ F) : (\E g \in P : Path(g) = Path(x)) => Path(x) \in C

Kept(P, p) == URL(p) \in PagePathFromSource(P, Path(p))

Within(P, B) ==
    /\ \A q \in P : q.base # "index"
    /\ \A p \in B.files : \E q \in P : Path(q) = Path(p)
    /\ Sections(B.pages) = Sections(P)

Alone(moved, B, p) ==
    /\ \A r \in B.pages : URL(r) = URL(p) => r = p
    /\ URL(p) \notin moved
    /\ HTML(URL(p)) \notin DOMAIN StaticWrites(B)
    /\ URL(p) # <<>> => URL(p)[1] \notin {"tags", "categories", "page", "api"}

OnShow(f, B, p) == HTML(URL(p)) \in DOMAIN f /\ Plain(f[HTML(URL(p))]) = Plain(PageView(B, p))

PagesShown(P, moved, f, B) ==
    \A p \in Rendered(B) : Kept(P, p) /\ Alone(moved, B, p) => OnShow(f, B, p)

Settles(P, moved, B) == \A p \in B.pages : Kept(P, p) \/ URL(p) \in moved

Has(f, g) == \A q \in DOMAIN g : q \in DOMAIN f /\ f[q] = g[q]

Shown(k, l, f, F) ==
    LET B == Load(conf, "", F) IN
    /\ IsBuild(B, "", F) /\ Within(k.pages, B)
    /\ Settles(k.pages, l.moved, B) /\ PagesShown(k.pages, l.moved, f, B)
    /\ l.build = "incremental" => Has(f, SiteWideWrites(B))
    /\ Offered(f, B)

Pending(k, j, ch, d, F) ==
    IF j.step = "incremental"
    THEN /\ \E C : j.affected = AffectedBy(k.pages, C) /\ Told(k.pages, F, j.files, C)
         /\ Told(k.pages, j.files, d, ch.paths)
    ELSE Told(k.pages, F, d, ch.paths)

Based(k, f) ==
    /\ <<"search.json">> \in DOMAIN f
    /\ k.dirs \subseteq {Front(q) : q \in DOMAIN f}
    /\ OfGraph(k.pages)

Typed(k, ch) == k = [pages |-> k.pages, dirs |-> k.dirs] /\ ch = [paths |-> ch.paths, full |-> ch.full]

Serves(k, l, f, j, ch, d) ==
    /\ Typed(k, ch) /\ j.step # "images"
    /\ j.step = "full" => \A x \in (j.files \ d) \cup (d \ j.files) : Path(x) \in ch.paths
    /\ k.pages # {} /\ l.build # "failed" =>
          /\ Based(k, f)
          /\ j.step # "full" /\ l.same /\ (\A q \in k.pages : q.base # "index") =>
                \E F : Shown(k, l, f, F) /\ Pending(k, j, ch, d, F)

FreshInv == conf.daemon => Serves(cache, last, out, job, changed, disk)

LEMMA FreshNext ==
  ASSUME conf' = conf, conf.daemon => Serves(cache', last', out', job', changed', disk')
  PROVE  FreshInv'
<1>1. ASSUME NEW P, OfGraph(P) PROVE OfGraph(P)'
  BY <1>1 DEF OfGraph, IsBuild
<1>2. ASSUME Based(cache', out') PROVE Based(cache, out)'
  BY <1>1, <1>2 DEF Based, OfGraph, IsBuild
<1>3. ASSUME NEW F, Shown(cache', last', out', F) PROVE Shown(cache, last, out, F)'
  BY <1>3 DEF Shown, IsBuild, Offered
<1>4. ASSUME NEW F, Pending(cache', job', changed', disk', F) PROVE Pending(cache, job, changed, disk, F)'
  BY <1>4 DEF Pending
<1> QED
  BY <1>2, <1>3, <1>4 DEF FreshInv, Serves, Typed

LEMMA InitServes == Init => FreshInv
  BY DEF Init, FreshInv, Serves, Typed, NoJob, NoCache

(* Edits.                                                                    *)
LEMMA ToldOn ==
  ASSUME NEW P, NEW F, NEW G, NEW C, Told(P, F, G, C), NEW H, NEW E, C \subseteq E,
         \A x \in (G \ H) \cup (H \ G) : Path(x) \in E
  PROVE  Told(P, F, H, E)
BY DEF Told

LEMMA EditsTold ==
  ASSUME Typed(cache, changed), NEW p, Save(p) \/ Delete(p) \/ EditTemplates
  PROVE  /\ changed.paths \subseteq changed'.paths /\ Typed(cache', changed')
         /\ \A x \in (disk \ disk') \cup (disk' \ disk) : Path(x) \in changed'.paths
         /\ cache' = cache /\ out' = out /\ job' = job
         /\ \E n : last' = [last EXCEPT !.edits = n]
<1>1. cache' = cache /\ out' = out /\ job' = job /\ \E n : last' = [last EXCEPT !.edits = n]
  BY DEF Save, Delete, EditTemplates, Edit
<1>2. CASE Save(p)
  <2>1. disk' = {q \in disk : File(q) # File(p)} \cup {p}
    BY <1>2 DEF Save
  <2>2. changed'.paths = changed.paths \cup {Path(p)} /\ Typed(cache', changed')
    BY <1>1, <1>2 DEF Save, Typed
  <2>3. \A x : File(x) = File(p) => Path(x) = Path(p)
    BY DEF File, Path
  <2> QED
    BY <1>1, <2>1, <2>2, <2>3
<1>3. CASE Delete(p)
  <2>1. disk' = disk \ {p}
    BY <1>3 DEF Delete
  <2>2. changed'.paths = changed.paths \cup {Path(p)} /\ Typed(cache', changed')
    BY <1>1, <1>3 DEF Delete, Typed
  <2> QED
    BY <1>1, <2>1, <2>2
<1>4. CASE EditTemplates
  BY <1>1, <1>4 DEF EditTemplates, Typed
<1> QED
  BY <1>2, <1>3, <1>4

LEMMA EditsServe ==
  ASSUME StepsInv, FreshInv, conf.daemon, NEW p, Save(p) \/ Delete(p) \/ EditTemplates
  PROVE  Serves(cache', last', out', job', changed', disk')
<1>1. Serves(cache, last, out, job, changed, disk)
  BY DEF FreshInv
<1>2. /\ changed.paths \subseteq changed'.paths /\ Typed(cache', changed')
      /\ \A x \in (disk \ disk') \cup (disk' \ disk) : Path(x) \in changed'.paths
      /\ cache' = cache /\ out' = out /\ job' = job
      /\ \E n : last' = [last EXCEPT !.edits = n]
  BY <1>1, EditsTold DEF Serves
<1>3. last'.build = last.build /\ last'.same = last.same /\ last'.moved = last.moved
  BY <1>2 DEF StepsInv
<1>4. ASSUME NEW F, Shown(cache, last, out, F) PROVE Shown(cache', last', out', F)
  BY <1>2, <1>3, <1>4 DEF Shown
<1>5. ASSUME NEW F, Pending(cache, job, changed, disk, F) PROVE Pending(cache', job', changed', disk', F)
  BY <1>2, <1>5, ToldOn DEF Pending
<1>6. job.step = "full" => \A x \in (job.files \ disk') \cup (disk' \ job.files) : Path(x) \in changed'.paths
  BY <1>1, <1>2 DEF Serves
<1> QED
  BY <1>1, <1>2, <1>3, <1>4, <1>5, <1>6 DEF Serves

(* A build that fails or begins.                                             *)
LEMMA FailServes ==
  ASSUME StepsInv, Fail, Typed(cache', changed')
  PROVE  Serves(cache', last', out', job', changed', disk')
<1>1. job'.step = "idle" /\ last'.build = "failed"
  BY DEF Fail, StepsInv, NoJob
<1> QED
  BY <1>1 DEF Serves

LEMMA StartFullServes ==
  ASSUME StepsInv, FreshInv, conf.daemon, StartFull
  PROVE  Serves(cache', last', out', job', changed', disk')
<1>1. Serves(cache, last, out, job, changed, disk)
  BY DEF FreshInv
<1>2. cache' = cache /\ out' = out /\ disk' = disk /\ changed' = [paths |-> {}, full |-> FALSE]
  BY DEF StartFull, NothingTaken
<1>3. Typed(cache', changed')
  BY <1>1, <1>2 DEF Typed, Serves
<1>4. CASE Fail
  BY <1>3, <1>4, FailServes
<1>5. CASE ~Fail
  <2>1. job'.step = "full" /\ job'.files = disk /\ last' = last
    BY <1>5 DEF StartFull, NoJob
  <2> QED
    BY <1>1, <1>2, <1>3, <2>1 DEF Serves
<1> QED
  BY <1>4, <1>5

LEMMA Unreached ==
  ASSUME NEW P, OfGraph(P), NEW C, AffectedBy(P, C) = {}, NEW g \in P
  PROVE  Path(g) \notin C
<1>1. PICK H : IsBuild(Load(conf, "", H), "", H) /\ P = Load(conf, "", H).pages
  BY DEF OfGraph
<1> DEFINE R == Load(conf, "", H)
<1>2. IsBuild(R, "", H) /\ P = R.pages
  BY <1>1
<1> HIDE DEF R
<1> QED
  BY <1>2, EditReaches

LEMMA StartIncrementalServes ==
  ASSUME StepsInv, FreshInv, conf.daemon, StartIncremental
  PROVE  Serves(cache', last', out', job', changed', disk')
<1> DEFINE affected == AffectedBy(cache.pages, changed.paths)
<1>1. Serves(cache, last, out, job, changed, disk)
  BY DEF FreshInv
<1>2. /\ cache' = cache /\ out' = out /\ disk' = disk /\ job.step = "idle" /\ cache.pages # {}
      /\ changed' = [paths |-> {}, full |-> FALSE]
  BY DEF StartIncremental, NothingTaken, Idle, NeedsFull
<1>3. Typed(cache', changed') /\ changed'.paths = {}
  BY <1>1, <1>2 DEF Typed, Serves
<1>4. CASE affected = {}
  <2>1. job' = job /\ last' = last
    BY <1>4 DEF StartIncremental
  <2>2. ASSUME NEW F, OfGraph(cache.pages), Pending(cache, job, changed, disk, F)
        PROVE  Pending(cache', job', changed', disk', F)
    <3>1. Told(cache.pages, F, disk, changed.paths)
      BY <1>2, <2>2 DEF Pending
    <3>2. \A g \in cache.pages : Path(g) \notin changed.paths
      BY <1>4, <2>2, Unreached
    <3>3. Told(cache.pages, F, disk, {})
      BY <3>1, <3>2 DEF Told
    <3> QED
      BY <1>2, <1>3, <2>1, <3>3 DEF Pending
  <2>3. ASSUME NEW F, Shown(cache, last, out, F) PROVE Shown(cache', last', out', F)
    BY <1>2, <2>1, <2>3
  <2> QED
    BY <1>1, <1>2, <1>3, <2>1, <2>2, <2>3 DEF Serves, Based
<1>5. CASE affected # {} /\ Fail
  BY <1>3, <1>5, FailServes
<1>6. CASE affected # {} /\ ~Fail
  <2>1. job'.step = "incremental" /\ job'.files = disk /\ job'.affected = affected /\ last' = last
    BY <1>6 DEF StartIncremental, NoJob
  <2>2. ASSUME NEW F, Pending(cache, job, changed, disk, F) PROVE Pending(cache', job', changed', disk', F)
    <3>1. Told(cache.pages, F, disk, changed.paths)
      BY <1>2, <2>2 DEF Pending
    <3>2. Told(cache.pages, disk, disk, {})
      BY DEF Told
    <3> HIDE DEF affected
    <3> QED
      BY <1>2, <1>3, <2>1, <3>1, <3>2 DEF Pending, affected
  <2>3. ASSUME NEW F, Shown(cache, last, out, F) PROVE Shown(cache', last', out', F)
    BY <1>2, <2>1, <2>3
  <2> QED
    BY <1>1, <1>2, <1>3, <2>1, <2>2, <2>3 DEF Serves, Based
<1> QED
  BY <1>4, <1>5, <1>6

(* A full build of the daemon, which is of one language.                     *)
LEMMA OfDaemon ==
  ASSUME SourcesInv, conf.daemon
  PROVE  /\ ~IsMultiLanguage(conf) /\ LanguageBase(conf, "") = <<>>
         /\ \A F : F \subseteq Contents(conf) /\ OneEach(F) => IsBuild(Load(conf, "", F), "", F)
<1>1. ContentAssumed(conf) /\ LanguagesAssumed(conf) /\ FilesAssumed(conf)
  BY SiteAssumed
<1>2. ~IsMultiLanguage(conf) /\ DefaultLanguageCode(conf) = ""
  BY <1>1 DEF LanguagesAssumed, DefaultLanguageCode
<1>3. LanguageBase(conf, "") = <<>> /\ "" \in Builds(conf)
  BY <1>1, <1>2 DEF LanguagesAssumed, Builds
<1> QED
  BY <1>1, <1>2, <1>3 DEF IsBuild

LEMMA StopServes ==
  ASSUME StepsInv, FreshInv, conf.daemon, NEW B, RenderMarkdown(B) \/ SetupTemplates(B)
  PROVE  Serves(cache', last', out', job', changed', disk')
<1>1. Fail /\ cache' = cache /\ changed' = changed
  BY DEF RenderMarkdown, SetupTemplates
<1>2. Typed(cache', changed')
  BY <1>1 DEF FreshInv, Serves, Typed
<1> QED
  BY <1>1, <1>2, FailServes

LEMMA BuildServes ==
  ASSUME StepsInv, SourcesInv, LanguagesInv, FreshInv, conf.daemon,
         NEW B, B = Load(conf, Head(job.todo), job.files), BuildLanguage(B)
  PROVE  Serves(cache', last', out', job', changed', disk')
<1>1. Serves(cache, last, out, job, changed, disk) /\ AllPaths(out) /\ job.step = "full"
  BY DEF FreshInv, LanguagesInv, Stage, BuildLanguage
<1>2. Head(job.todo) = ""
  BY <1>1, OfDaemon, OneRound DEF StepsInv
<1>3. IsBuild(B, "", job.files) /\ Base = <<>> /\ B = Load(conf, "", job.files)
  BY <1>2, OfDaemon DEF SourcesInv, Base
<1>4. PICK pages \in Outcomes(PageWrites(B)) : \E answers :
        /\ out' = OnOutputWritten(Registry, Result(<<>>, Written(B, pages), out), <<>>, svgs, answers)
        /\ cache' = [pages |-> B.pages, dirs |-> Dirs(Written(B, pages))]
  BY <1>3 DEF BuildLanguage, OutputDir, Result, Written
<1>5. PICK answers :
        /\ out' = OnOutputWritten(Registry, Result(<<>>, Written(B, pages), out), <<>>, svgs, answers)
        /\ cache' = [pages |-> B.pages, dirs |-> Dirs(Written(B, pages))]
  BY <1>4
<1>6. /\ job'.step = "idle" /\ last'.build = "full" /\ last'.same /\ last'.moved = {}
      /\ changed' = changed /\ disk' = disk
  <2>1. /\ job' = NoJob /\ last' = [last EXCEPT !.build = "full", !.same = TRUE, !.moved = {}]
        /\ changed' = changed /\ disk' = disk
    BY DEF BuildLanguage
  <2> QED
    BY <2>1 DEF StepsInv, NoJob
<1>7. ShowsBuild(B, pages, out')
  <2> DEFINE g == out'
             f == out
             F == job.files
             R == Registry
             S == svgs
  <2>1. g = OnOutputWritten(R, Result(<<>>, Written(B, pages), f), <<>>, S, answers)
    BY <1>5
  <2>2. AllPaths(f) /\ IsBuild(B, "", F) /\ pages \in Outcomes(PageWrites(B))
    BY <1>1, <1>3
  <2> HIDE DEF g, f, F, R, S
  <2>3. ShowsBuild(B, pages, g)
    BY ONLY <2>1, <2>2, FullShows
  <2> QED
    BY <2>3 DEF g
<1>8. cache'.pages = B.pages /\ cache'.dirs = Dirs(Written(B, pages))
  BY <1>5
<1>9. Typed(cache', changed')
  BY <1>1, <1>5, <1>6 DEF Typed, Serves
<1>10. Based(cache', out')
  <2>1. cache'.dirs \subseteq {Front(q) : q \in DOMAIN out'}
    BY <1>7, <1>8 DEF Dirs, ShowsBuild
  <2>2. OfGraph(cache'.pages)
    BY <1>3, <1>8 DEF OfGraph
  <2> QED
    BY <1>7, <2>1, <2>2 DEF Based, ShowsBuild
<1>11. ASSUME \A q \in cache'.pages : q.base # "index" PROVE Shown(cache', last', out', job.files)
  <2>1. Within(B.pages, B)
    BY <1>3, <1>8, <1>11, PagesAre DEF Within
  <2>2. Settles(B.pages, {}, B)
    BY DEF Settles, Kept, PagePathFromSource
  <2>3. PagesShown(B.pages, {}, out', B)
    BY <1>7 DEF PagesShown, OnShow, Alone, ShowsBuild
  <2>4. Offered(out', B)
    BY <1>7 DEF ShowsBuild
  <2> QED
    BY <1>3, <1>6, <1>8, <2>1, <2>2, <2>3, <2>4 DEF Shown
<1>12. Pending(cache', job', changed', disk', job.files)
  <2>1. \A x \in (job.files \ disk) \cup (disk \ job.files) : Path(x) \in changed.paths
    BY <1>1 DEF Serves
  <2> QED
    BY <1>6, <2>1 DEF Pending, Told
<1> QED
  BY <1>6, <1>9, <1>10, <1>11, <1>12 DEF Serves

LEMMA FrontOf ==
  ASSUME NEW x, IsPath(x), x # <<>>
  PROVE  Len(x) > Len(Front(x)) /\ IsPrefix(Front(x), x)
<1> DEFINE S == {x[i] : i \in DOMAIN x}
           k == Len(x) - 1
           y == SubSeq(x, 1, k)
<1>1. x \in Seq(S)
  BY DEF IsPath
<1> HIDE DEF S
<1>2. k \in Nat /\ Len(x) = k + 1
  BY ONLY <1>1, x # <<>>
<1>3. \A i \in 1..k : x[i] \in S
  BY ONLY <1>1, <1>2
<1> HIDE DEF k
<1>4. y \in Seq(S) /\ Len(y) = k
  <2>1. 1 \in Int /\ k \in Int /\ (IF 1 <= k THEN k - 1 + 1 ELSE 0) = k
    BY ONLY <1>2
  <2>2. y \in Seq(S) /\ Len(y) = IF 1 <= k THEN k - 1 + 1 ELSE 0
    BY ONLY <1>3, <2>1, SubSeqProperties
  <2> QED
    BY ONLY <2>1, <2>2
<1>5. Front(x) = y /\ y = SubSeq(x, 1, Len(y))
  BY <1>4 DEF Front, k
<1> HIDE DEF y
<1>6. y = SubSeq(y, 1, Len(y))
  BY ONLY <1>4
<1> QED
  BY <1>2, <1>4, <1>5, <1>6 DEF IsPrefix

(* The writer finds the directories it has made: none is ever removed but by *)
(* a full build, which makes them anew.                                      *)
LEMMA EnsuredAll ==
  ASSUME AllPaths(out), Based(cache, out), NEW q, NEW view
  PROVE  EnsureDir(q, view)
<1>1. ASSUME NEW x \in DOMAIN out, x # <<>> PROVE DirExists(out, Front(x))
  <2>1. IsPath(x)
    BY <1>1 DEF AllPaths
  <2>2. Len(x) > Len(Front(x)) /\ IsPrefix(Front(x), x)
    BY <1>1, <2>1, FrontOf
  <2> QED
    BY <2>2 DEF DirExists
<1>2. DirExists(out, <<>>)
  <2> DEFINE x == <<"search.json">>
  <2>1. x \in DOMAIN out
    BY DEF Based
  <2>2. x # <<>> /\ Front(x) = <<>>
    BY DEF Front
  <2> HIDE DEF x
  <2> QED
    BY <1>1, <2>1, <2>2
<1>3. ASSUME Front(q) \in cache.dirs PROVE DirExists(out, Front(q))
  <2>1. PICK x \in DOMAIN out : Front(q) = Front(x)
    BY <1>3 DEF Based
  <2>2. CASE x # <<>>
    BY <1>1, <2>1, <2>2
  <2>3. CASE x = <<>>
    <3>1. Front(<<>>) = <<>>
      BY DEF Front
    <3> QED
      BY <1>2, <2>1, <2>3, <3>1
  <2> QED
    BY <2>2, <2>3
<1> QED
  BY <1>2, <1>3 DEF EnsureDir

(* An incremental build: a page it reaches is written, any other is as the   *)
(* build before had it.                                                      *)
LEMMA AffectedAre ==
  ASSUME NEW B, NEW c, NEW F, IsBuild(B, c, F)
  PROVE  /\ \A u : IsPath(u) /\ HTML(u) \in DOMAIN AffectedWrites(B) => u \in job.affected
         /\ \A p \in Rendered(B) :
               (\A x \in B.pages : URL(x) = URL(p) => x = p) /\ URL(p) \in job.affected =>
                   /\ HTML(URL(p)) \in DOMAIN AffectedWrites(B)
                   /\ AffectedWrites(B)[HTML(URL(p))] = PageView(B, p)
<1> DEFINE A == Affected(B)
<1>1. DOMAIN AffectedWrites(B) = {HTML(URL(p)) : p \in A}
  BY DEF AffectedWrites
<1>2. \A p \in A : p \in B.pages /\ URL(p) \in job.affected
  BY DEF Affected
<1>3. \A p \in B.pages : IsPath(URL(p))
  BY TreeIs, PagePaths DEF IsBuild
<1>4. ASSUME NEW u, IsPath(u), HTML(u) \in DOMAIN AffectedWrites(B) PROVE u \in job.affected
  <2>1. PICK p \in A : HTML(u) = HTML(URL(p))
    BY <1>1, <1>4
  <2>2. u = URL(p)
    BY <1>2, <1>3, <1>4, <2>1, FilesApart
  <2> QED
    BY <1>2, <2>2
<1>5. ASSUME NEW p \in Rendered(B), \A x \in B.pages : URL(x) = URL(p) => x = p, URL(p) \in job.affected
      PROVE  /\ HTML(URL(p)) \in DOMAIN AffectedWrites(B)
             /\ AffectedWrites(B)[HTML(URL(p))] = PageView(B, p)
  <2> DEFINE q == HTML(URL(p))
             wins(x) == HTML(URL(x)) = q /\ \A r \in A : r = x \/ HTML(URL(r)) # q \/ After(B, x, r)
             won == CHOOSE x \in A : wins(x)
  <2>1. p \in A
    BY <1>5 DEF Affected, Rendered
  <2>2. q \in DOMAIN AffectedWrites(B)
    BY <1>1, <2>1
  <2>3. AffectedWrites(B)[q] = PageView(B, won)
    BY <1>1, <2>2 DEF AffectedWrites
  <2>4. ASSUME NEW r \in A, HTML(URL(r)) = q PROVE r = p
    <3>1. URL(r) = URL(p)
      BY <1>2, <1>3, <2>1, <2>4, FilesApart
    <3> QED
      BY <1>2, <1>5, <3>1
  <2>5. wins(p)
    BY <2>4
  <2> HIDE DEF wins
  <2>6. won \in A /\ wins(won)
    BY <2>1, <2>5, Zenon
  <2> HIDE DEF won
  <2>7. won = p
    BY <2>4, <2>6 DEF wins
  <2> QED
    BY <2>2, <2>3, <2>7
<1> QED
  BY <1>4, <1>5

LEMMA StaysShown ==
  ASSUME NEW P, NEW C, NEW B, NEW D, Two(P, C, B, D), B.templates = D.templates,
         NEW moved, NEW now, moved \subseteq now, NEW f, Settles(P, moved, D), PagesShown(P, moved, f, D),
         NEW p \in Rendered(B), Kept(P, p), Alone(now, B, p), URL(p) \notin AffectedBy(P, C)
  PROVE  OnShow(f, B, p)
<1>1. B.conf = conf /\ D.conf = conf /\ B.code = D.code
  BY TwoTrees
<1>2. PICK g \in P : Path(g) = Path(p) /\ URL(g) = URL(p)
  BY DEF Kept, PagePathFromSource
<1>3. Two(P, C, D, B)
  BY TwoTurned
<1>4. p \in D.pages
  BY <1>2, <1>3, StillThere DEF Rendered
<1>5. p \in Rendered(D)
  <2>1. ResolveTemplateName(D, p) = ResolveTemplateName(B, p)
    BY DEF ResolveTemplateName
  <2> QED
    BY <1>1, <1>4, <2>1 DEF Rendered
<1>6. Alone(moved, D, p)
  <2>1. ASSUME NEW r \in D.pages, URL(r) = URL(p) PROVE r = p
    <3>1. Kept(P, r)
      BY <2>1 DEF Settles, Alone
    <3>2. PICK h \in P : Path(h) = Path(r) /\ URL(h) = URL(r)
      BY <3>1 DEF Kept, PagePathFromSource
    <3>3. r \in B.pages
      BY <2>1, <3>2, StillThere
    <3> QED
      BY <2>1, <3>3 DEF Alone
  <2>2. StaticWrites(D) = StaticWrites(B)
    <3>1. \A as : View(D, as) = View(B, as)
      BY <1>1 DEF View
    <3> QED
      BY <1>1, <3>1 DEF StaticWrites
  <2> QED
    BY <2>1, <2>2 DEF Alone
<1>7. PageView(B, p) = PageView(D, p)
  BY <1>2, PageAlike
<1> QED
  BY <1>5, <1>6, <1>7 DEF PagesShown, OnShow

LEMMA TwoOfEdits ==
  ASSUME SourcesInv, conf.daemon, NEW P, OfGraph(P), NEW C, NEW F, NEW G, Told(P, F, G, C),
         \A q \in P : q.base # "index",
         NEW B, IsBuild(B, "", G), Within(P, B), NEW D, IsBuild(D, "", F), Within(P, D)
  PROVE  Two(P, C, B, D) /\ B.templates = D.templates
<1>1. ~IsMultiLanguage(conf)
  BY OfDaemon
<1>2. /\ B.files = {p \in G : InLanguage(conf, "", p)} /\ D.files = {p \in F : InLanguage(conf, "", p)}
      /\ B.templates = D.templates
  BY FilesAre
<1>3. \A x \in Differ(B, D) : Path(x) \in C
  BY <1>2 DEF Differ, Told, Within
<1>4. Alike(P, C, B, D)
  BY <1>3 DEF Alike, Within
<1> QED
  BY <1>1, <1>2, <1>4 DEF Two

(* What an incremental build adds to the output, and what it keeps.          *)
Added(f, W, g) ==
    /\ DOMAIN g = DOMAIN W \cup DOMAIN f
    /\ \A q \in DOMAIN g : g[q] = IF q \in DOMAIN W THEN W[q] ELSE f[q]

AddsOn(B) ==
    /\ Added(out, SiteWideWrites(B) ++ AffectedWrites(B), out')
    /\ cache' = [pages |-> cache.pages, dirs |-> cache'.dirs]
    /\ cache'.dirs \subseteq {Front(q) : q \in DOMAIN out'}
    /\ last'.build = "incremental" /\ last'.same = (last.same /\ InGraph(B))
    /\ last'.moved = last.moved \cup {URL(p) : p \in {r \in B.pages : ~SameAddress(r)}}

LEMMA IncrementalAdds ==
  ASSUME StepsInv, LanguagesInv, Typed(cache, changed), Based(cache, out), last.build # "failed",
         NEW B, BodiesRender(B), IncrementalRender(B)
  PROVE  AddsOn(B)
<1> DEFINE W == SiteWideWrites(B) ++ AffectedWrites(B)
           written == [q \in {r \in DOMAIN W : EnsureDir(r, W[r])} |-> W[q]]
           strays == {URL(p) : p \in {r \in B.pages : ~SameAddress(r)}}
           all == cache.dirs \cup Dirs(written)
<1>1. AllPaths(out)
  BY DEF LanguagesInv, Stage
<1>2. /\ out' = written ++ out
      /\ cache' = [cache EXCEPT !.dirs = @ \cup Dirs(written)]
      /\ last' = [last EXCEPT !.build = IF @ = "failed" THEN @ ELSE "incremental",
                              !.same = @ /\ InGraph(B), !.moved = @ \cup strays]
  BY DEF IncrementalRender
<1>3. DOMAIN written = DOMAIN W /\ \A q \in DOMAIN W : written[q] = W[q]
  <2> HIDE DEF W
  <2> QED
    BY <1>1, EnsuredAll
<1> HIDE DEF W, written
<1>4. Added(out, W, out')
  BY <1>2, <1>3 DEF Added, ++
<1>5. cache' = [pages |-> cache.pages, dirs |-> all]
  BY <1>2 DEF Typed
<1>6. all \subseteq {Front(q) : q \in DOMAIN out'}
  BY <1>3, <1>4 DEF Based, Dirs, Added
<1> HIDE DEF all, strays
<1>7. /\ last'.build = "incremental" /\ last'.same = (last.same /\ InGraph(B))
      /\ last'.moved = last.moved \cup strays
  <2> DEFINE same == last.same /\ InGraph(B)
             moved == last.moved \cup strays
  <2>1. last' = [last EXCEPT !.build = "incremental", !.same = same, !.moved = moved]
    BY <1>2
  <2> HIDE DEF same, moved
  <2>2. last'.build = "incremental" /\ last'.same = same /\ last'.moved = moved
    BY <2>1 DEF StepsInv
  <2> QED
    BY <2>2 DEF same, moved
<1> QED
  BY <1>4, <1>5, <1>6, <1>7 DEF W, strays, AddsOn

LEMMA HadOffers ==
  ASSUME NEW B, NEW c, NEW F, IsBuild(B, c, F), NEW f, Has(f, SiteWideWrites(B))
  PROVE  Offered(f, B)
<1>1. B.conf = conf
  BY FilesAre
<1> QED
  BY <1>1, APIWritten DEF Offered, Has

LEMMA RewrittenOrKept ==
  ASSUME NEW P, NEW C, NEW B, NEW G, IsBuild(B, "", G), NEW D, Two(P, C, B, D), B.templates = D.templates,
         job.affected = AffectedBy(P, C),
         NEW moved, NEW now, moved \subseteq now, NEW f, NEW g,
         Settles(P, moved, D), PagesShown(P, moved, f, D),
         Added(f, SiteWideWrites(B) ++ AffectedWrites(B), g)
  PROVE  PagesShown(P, now, g, B) /\ Has(g, SiteWideWrites(B))
<1> DEFINE S == SiteWideWrites(B)
           A == AffectedWrites(B)
<1>1. /\ DOMAIN g = DOMAIN S \cup DOMAIN A \cup DOMAIN f
      /\ \A q \in DOMAIN g : g[q] = IF q \in DOMAIN S THEN S[q] ELSE IF q \in DOMAIN A THEN A[q] ELSE f[q]
  <2> HIDE DEF S, A
  <2> QED
    BY DEF Added, ++, S, A
<1>2. Has(g, S)
  <2> HIDE DEF S, A
  <2> QED
    BY <1>1 DEF Has
<1>3. ASSUME NEW p \in Rendered(B), Kept(P, p), Alone(now, B, p)
      PROVE  OnShow(g, B, p)
  <2>1. IsPath(URL(p))
    BY TreeIs, PagePaths DEF IsBuild, Rendered
  <2>2. HTML(URL(p)) \notin DOMAIN S
    BY <1>3, <2>1, PageElsewhere, FeedsPlaced DEF AllPlaced, Alone
  <2>3. CASE URL(p) \in AffectedBy(P, C)
    <3>1. HTML(URL(p)) \in DOMAIN A /\ A[HTML(URL(p))] = PageView(B, p)
      BY <1>3, <2>3, AffectedAre DEF Alone
    <3> HIDE DEF S, A
    <3> QED
      BY <1>1, <2>2, <3>1 DEF OnShow
  <2>4. CASE URL(p) \notin AffectedBy(P, C)
    <3>1. HTML(URL(p)) \notin DOMAIN A
      BY <2>1, <2>4, AffectedAre
    <3>2. OnShow(f, B, p)
      BY <1>3, <2>4, StaysShown
    <3> HIDE DEF S, A
    <3> QED
      BY <1>1, <2>2, <3>1, <3>2 DEF OnShow
  <2> QED
    BY <2>3, <2>4
<1> QED
  BY <1>2, <1>3 DEF PagesShown

LEMMA IncrementalServes ==
  ASSUME StepsInv, SourcesInv, LanguagesInv, FreshInv, conf.daemon, job.step = "incremental",
         NEW B, B = Load(conf, "", job.files), IncrementalRender(B)
  PROVE  Serves(cache', last', out', job', changed', disk')
<1> DEFINE P == cache.pages
<1>1. Serves(cache, last, out, job, changed, disk) /\ IsBuild(B, "", job.files)
  BY OfDaemon DEF FreshInv, SourcesInv
<1>2. job'.step = "idle" /\ changed' = changed /\ disk' = disk
  BY DEF IncrementalRender, NoJob
<1>3. CASE ~BodiesRender(B)
  <2>1. cache' = cache /\ last' = [last EXCEPT !.build = "failed"]
    BY <1>3 DEF IncrementalRender
  <2>2. last'.build = "failed"
    BY <2>1 DEF StepsInv
  <2> QED
    BY <1>1, <1>2, <2>1, <2>2 DEF Serves, Typed
<1>4. CASE BodiesRender(B) /\ (last.build = "failed" \/ P = {})
  <2> DEFINE W == SiteWideWrites(B) ++ AffectedWrites(B)
             written == [q \in {r \in DOMAIN W : EnsureDir(r, W[r])} |-> W[q]]
             dirs == cache.dirs \cup Dirs(written)
             same == last.same /\ InGraph(B)
             moved == last.moved \cup {URL(p) : p \in {r \in B.pages : ~SameAddress(r)}}
  <2>1. /\ cache' = [cache EXCEPT !.dirs = dirs]
        /\ last' = [last EXCEPT !.build = IF @ = "failed" THEN @ ELSE "incremental",
                                !.same = same, !.moved = moved]
    BY <1>4 DEF IncrementalRender
  <2> HIDE DEF dirs, same, moved
  <2>2. cache' = [pages |-> P, dirs |-> dirs] /\ (last.build = "failed" => last'.build = "failed")
    BY <1>1, <2>1 DEF Serves, Typed, StepsInv
  <2>3. Typed(cache', changed') /\ cache'.pages = P
    BY <1>1, <1>2, <2>2 DEF Serves, Typed
  <2> QED
    BY <1>2, <1>4, <2>2, <2>3 DEF Serves
<1>5. CASE BodiesRender(B) /\ last.build # "failed" /\ P # {}
  <2>1. Based(cache, out) /\ Typed(cache, changed) /\ OfGraph(P)
    BY <1>1, <1>5 DEF Serves, Based
  <2>2. AddsOn(B)
    BY <1>5, <2>1, IncrementalAdds
  <2>3. cache'.pages = P
    BY ONLY <2>2 DEF AddsOn
  <2>4. Typed(cache', changed')
    BY ONLY <1>2, <2>1, <2>2, <2>3 DEF Typed, AddsOn
  <2>5. Based(cache', out')
    BY ONLY <2>1, <2>2, <2>3 DEF Based, Added, AddsOn
  <2>6. ASSUME last'.same, \A q \in P : q.base # "index"
        PROVE  Shown(cache', last', out', job.files) /\ Pending(cache', job', changed', disk', job.files)
    <3>1. last.same /\ Within(P, B)
      BY <2>2, <2>6 DEF InGraph, Within, AddsOn
    <3>2. PICK F : Shown(cache, last, out, F) /\ Pending(cache, job, changed, disk, F)
      BY <1>1, <1>5, <2>6, <3>1 DEF Serves
    <3>3. PICK C : job.affected = AffectedBy(P, C) /\ Told(P, F, job.files, C)
      BY <3>2 DEF Pending
    <3> DEFINE D == Load(conf, "", F)
               now == last'.moved
               g == out'
    <3>4. IsBuild(D, "", F) /\ Within(P, D) /\ Settles(P, last.moved, D) /\ PagesShown(P, last.moved, out, D)
      BY <3>2 DEF Shown
    <3> HIDE DEF D
    <3>5. Two(P, C, B, D) /\ B.templates = D.templates
      <4> DEFINE G == job.files
      <4>1. /\ SourcesInv /\ conf.daemon /\ OfGraph(P) /\ Told(P, F, G, C) /\ (\A q \in P : q.base # "index")
            /\ IsBuild(B, "", G) /\ Within(P, B) /\ IsBuild(D, "", F) /\ Within(P, D)
        BY <1>1, <2>1, <2>6, <3>1, <3>3, <3>4
      <4> HIDE DEF G, P
      <4> QED
        BY ONLY <4>1, TwoOfEdits
    <3>6. last.moved \subseteq now /\ Added(out, SiteWideWrites(B) ++ AffectedWrites(B), g)
      BY <2>2 DEF AddsOn
    <3>7. Settles(P, now, B)
      BY <2>2 DEF Settles, Kept, SameAddress, AddsOn
    <3> HIDE DEF now, g
    <3>8. PagesShown(P, now, g, B) /\ Has(g, SiteWideWrites(B))
      BY <1>1, <3>3, <3>4, <3>5, <3>6, RewrittenOrKept
    <3>9. Offered(g, B)
      BY <1>1, <3>8, HadOffers
    <3>10. Shown(cache', last', out', job.files)
      BY <1>1, <2>3, <3>1, <3>7, <3>8, <3>9 DEF Shown, now, g
    <3>11. Pending(cache', job', changed', disk', job.files)
      BY <1>2, <2>3, <3>2 DEF Pending
    <3> QED
      BY <3>10, <3>11
  <2> QED
    BY <1>2, <2>3, <2>4, <2>5, <2>6 DEF Serves
<1> QED
  BY <1>3, <1>4, <1>5

LEMMA FreshStep == StepsInv /\ SourcesInv /\ LanguagesInv /\ FreshInv /\ [Next]_vars => FreshInv'
<1> SUFFICES ASSUME StepsInv, SourcesInv, LanguagesInv, FreshInv, [Next]_vars, conf.daemon
             PROVE  Serves(cache', last', out', job', changed', disk')
  BY ConfKept, FreshNext
<1>1. CASE UNCHANGED vars
  BY <1>1 DEF vars, FreshInv
<1>2. ASSUME NEW p, Save(p) \/ Delete(p) \/ EditTemplates
      PROVE  Serves(cache', last', out', job', changed', disk')
  BY <1>2, EditsServe
<1>3. CASE InFull
  <2> DEFINE B == Load(conf, Head(job.todo), job.files)
  <2>1. RenderMarkdown(B) \/ SetupTemplates(B) \/ BuildLanguage(B)
    BY <1>3 DEF InFull
  <2> HIDE DEF B
  <2>2. CASE RenderMarkdown(B) \/ SetupTemplates(B)
    BY <2>2, StopServes
  <2>3. CASE BuildLanguage(B)
    BY <2>3, BuildServes DEF B
  <2> QED
    BY <2>1, <2>2, <2>3
<1>4. CASE StartFull \/ StartIncremental
  BY <1>4, StartFullServes, StartIncrementalServes
<1>5. CASE RunImagePipeline
  BY <1>5 DEF RunImagePipeline, FreshInv, Serves
<1>6. CASE job.step = "incremental" /\ IncrementalRender(Load(conf, "", job.files))
  BY <1>6, IncrementalServes
<1> QED
  BY <1>1, <1>2, <1>3, <1>4, <1>5, <1>6 DEF Next, Author, Build

(* What the output of the settled daemon shows is what there is now.         *)
LEMMA ShowsCurrent ==
  ASSUME SourcesInv, FreshInv, Settled, Daemon, last.build \in {"full", "incremental"}, SameShape
  PROVE  \E F : Shown(cache, last, out, F) /\ Current = Load(conf, "", F)
<1> DEFINE P == cache.pages
           B == Current
<1>0. last.build # "failed"
  OBVIOUS
<1>1. Serves(cache, last, out, job, changed, disk) /\ conf.daemon /\ P # {} /\ job.step = "idle" /\ changed.paths = {}
  BY DEF FreshInv, Daemon, Settled, NothingTaken, Idle
<1>2. last.same /\ Within(P, B)
  BY DEF SameShape, InGraph, Within
<1>3. (\A q \in P : q.base # "index") /\ OfGraph(P)
  BY <1>0, <1>1, <1>2 DEF Within, Serves, Based
<1>4. PICK F : Shown(cache, last, out, F) /\ Pending(cache, job, changed, disk, F)
  BY <1>0, <1>1, <1>2, <1>3 DEF Serves
<1> DEFINE D == Load(conf, "", F)
<1>5. IsBuild(B, "", disk) /\ B = Load(conf, "", disk)
  BY <1>1, OfDaemon DEF SourcesInv, Current
<1>6. IsBuild(D, "", F) /\ Within(P, D) /\ Told(P, F, disk, {})
  BY <1>1, <1>4 DEF Shown, Pending
<1> HIDE DEF B, D
<1>7. Two(P, {}, B, D)
  BY <1>1, <1>2, <1>3, <1>5, <1>6, TwoOfEdits
<1>8. Differ(B, D) = {}
  BY <1>7 DEF Two, Alike
<1>9. B.files = D.files
  BY <1>8 DEF Differ
<1>10. B = D
  BY <1>5, <1>6, <1>9, OfDaemon, <1>1 DEF D, Load
<1> QED
  BY <1>4, <1>10 DEF B, D

LEMMA FreshShows == SourcesInv /\ FreshInv => IncrementalFresh
<1> SUFFICES ASSUME SourcesInv, FreshInv, Settled, Daemon, last.build = "incremental", SameShape
             PROVE  /\ \A q \in DOMAIN SiteWideWrites(Current) \ DOMAIN StaticWrites(Current) :
                          q \in DOMAIN out /\ Plain(out[q]) = Plain(SiteWideWrites(Current)[q])
                    /\ \A p \in Rendered(Current) : SameAddress(p) /\ OwnFile(Current, p) => OnShow(out, Current, p)
  BY DEF IncrementalFresh, OnShow
<1> DEFINE P == cache.pages
           B == Current
<1>1. PICK F : Shown(cache, last, out, F) /\ B = Load(conf, "", F)
  BY ShowsCurrent
<1>2. PagesShown(P, last.moved, out, B) /\ Has(out, SiteWideWrites(B))
  BY <1>1 DEF Shown
<1>3. \A p : (SameAddress(p) => Kept(P, p)) /\ (OwnFile(B, p) => Alone(last.moved, B, p))
  BY DEF SameAddress, Kept, OwnFile, Alone
<1> QED
  BY <1>2, <1>3 DEF PagesShown, Has

(* Once every change has been built, incremental builds of the daemon have   *)
(* left, within the shape of its graph, what a full build would write now:   *)
(* every file made from the whole site, and every page at the address it had *)
(* alone, for any content, templates, edits and failures in between.  What   *)
(* makes it so is that the graph tells of an edit every page it reaches.     *)
THEOREM IncrementalStaysFresh == Spec => []IncrementalFresh
<1>1. Init => FreshInv
  BY InitServes
<1>2. StepsInv /\ SourcesInv /\ LanguagesInv /\ FreshInv /\ [Next]_vars => FreshInv'
  BY FreshStep
<1>3. SourcesInv /\ FreshInv => IncrementalFresh
  BY FreshShows
<1>4. Spec => [](StepsInv /\ SourcesInv /\ LanguagesInv)
  BY LanguagesInTurn
<1> QED
  BY <1>1, <1>2, <1>3, <1>4, PTL DEF Spec

-----------------------------------------------------------------------------
(* The query index holds what the files of the content API list, as the last *)
(* build has left them.                                                      *)
ItemsOf(s, list) == {[page |-> p, section |-> s] : p \in ElementsOf(list)}

Indexed(items, f) ==
    \A s : LET q == <<"api", s>> IN
        q \in DOMAIN f /\ "list" \in DOMAIN f[q] =>
            {i \in items : i.section = s} = ItemsOf(s, f[q].list)

Reloads(k, l, f, items) ==
    conf.daemon /\ conf.api /\ k.pages # {} /\ l.build # "failed" => Indexed(items, f)

IndexInv == Reloads(cache, last, out, index)

LEMMA IndexNext ==
  ASSUME conf' = conf, Reloads(cache', last', out', index') PROVE IndexInv'
<1>1. ASSUME Indexed(index', out') PROVE Indexed(index, out)'
  BY <1>1 DEF Indexed, ItemsOf
<1> QED
  BY <1>1 DEF IndexInv, Reloads

LEMMA LoadedAnew == ASSUME NEW f, NEW items PROVE Indexed(LoadFromDir(TRUE, APIFiles(f), items), f)
<1> DEFINE D == {q[2] : q \in {r \in DOMAIN f : Len(r) = 2 /\ r[1] = "api"}}
           A == APIFiles(f)
           all == UNION {{[page |-> p, section |-> t] : p \in ElementsOf(A[t])} : t \in DOMAIN A}
<1>1. LoadFromDir(TRUE, A, items) = all
  BY DEF LoadFromDir
<1>2. DOMAIN A = D /\ \A t \in D : A[t] = f[<<"api", t>>].list
  BY DEF APIFiles
<1> HIDE DEF A
<1> SUFFICES ASSUME NEW s, <<"api", s>> \in DOMAIN f
             PROVE  {i \in all : i.section = s} = ItemsOf(s, f[<<"api", s>>].list)
  BY <1>1 DEF Indexed, A
<1>3. s \in D
  <2> DEFINE q == <<"api", s>>
  <2>1. Len(q) = 2 /\ q[1] = "api" /\ q[2] = s /\ q \in DOMAIN f
    OBVIOUS
  <2> HIDE DEF q
  <2> QED
    BY <2>1
<1> HIDE DEF D
<1>4. ItemsOf(s, f[<<"api", s>>].list) = {[page |-> p, section |-> s] : p \in ElementsOf(A[s])}
  BY <1>2, <1>3 DEF ItemsOf
<1>5. {i \in all : i.section = s} = {[page |-> p, section |-> s] : p \in ElementsOf(A[s])}
  <2>1. ASSUME NEW i \in all, i.section = s PROVE i \in {[page |-> p, section |-> s] : p \in ElementsOf(A[s])}
    <3>1. PICK t \in DOMAIN A : i \in {[page |-> p, section |-> t] : p \in ElementsOf(A[t])}
      OBVIOUS
    <3>2. PICK p \in ElementsOf(A[t]) : i = [page |-> p, section |-> t]
      BY <3>1
    <3>3. t = s
      BY <2>1, <3>2
    <3> QED
      BY <3>2, <3>3
  <2>2. ASSUME NEW p \in ElementsOf(A[s])
        PROVE  [page |-> p, section |-> s] \in all /\ [page |-> p, section |-> s].section = s
    BY <1>2, <1>3
  <2> HIDE DEF all
  <2> QED
    BY <2>1, <2>2
<1> QED
  BY <1>4, <1>5

LEMMA IndexedStill ==
  ASSUME NEW items, NEW f, NEW g, SameLists(f, g), Indexed(items, f)
  PROVE  Indexed(items, g)
BY DEF Indexed, SameLists

LEMMA InitIndex == Init => IndexInv
  BY DEF Init, IndexInv, Reloads, NoCache

LEMMA IndexStep == StepsInv /\ FreshInv /\ IndexInv /\ [Next]_vars => IndexInv'
<1> SUFFICES ASSUME StepsInv, FreshInv, IndexInv, [Next]_vars PROVE Reloads(cache', last', out', index')
  BY ConfKept, IndexNext
<1> SUFFICES ASSUME conf.daemon, conf.api PROVE Reloads(cache', last', out', index')
  BY DEF Reloads
<1>0. Reloads(cache, last, out, index) /\ conf' = conf
  BY ConfKept DEF IndexInv
<1>1. ASSUME cache' = cache, out' = out, index' = index, last'.build \in {last.build, "failed"}
      PROVE  Reloads(cache', last', out', index')
  BY <1>0, <1>1 DEF Reloads
<1>2. ASSUME last'.build = "failed" PROVE Reloads(cache', last', out', index')
  BY <1>2 DEF Reloads
<1>3. Fail => last'.build = "failed"
  BY DEF Fail, StepsInv
<1>4. CASE UNCHANGED vars
  BY <1>1, <1>4 DEF vars
<1>5. ASSUME NEW p, Save(p) \/ Delete(p) \/ EditTemplates PROVE Reloads(cache', last', out', index')
  <2>1. cache' = cache /\ out' = out /\ index' = index /\ last' = [last EXCEPT !.edits = @ + 1]
    BY <1>5 DEF Save, Delete, EditTemplates, Edit
  <2>2. last'.build = last.build
    BY <2>1 DEF StepsInv
  <2> QED
    BY <1>1, <2>1, <2>2
<1>6. CASE StartFull \/ StartIncremental
  <2>1. cache' = cache /\ out' = out /\ index' = index /\ (last' = last \/ Fail)
    BY <1>6 DEF StartFull, StartIncremental
  <2> QED
    BY <1>1, <1>2, <1>3, <2>1
<1>7. CASE RunImagePipeline
  BY <1>7 DEF RunImagePipeline, FreshInv, Serves
<1>8. ASSUME NEW B, RenderMarkdown(B) \/ SetupTemplates(B) PROVE Reloads(cache', last', out', index')
  BY <1>2, <1>3, <1>8 DEF RenderMarkdown, SetupTemplates
<1>9. ASSUME NEW B, BuildLanguage(B) PROVE Reloads(cache', last', out', index')
  <2>1. PICK h, answers : /\ out' = OnOutputWritten(Registry, h, OutputDir, svgs, answers)
                          /\ index' = ReloadIndex(h)
    BY <1>9 DEF BuildLanguage
  <2>2. index' = LoadFromDir(TRUE, APIFiles(h), index)
    BY <2>1 DEF ReloadIndex
  <2>3. Indexed(index', h)
    BY <2>2, LoadedAnew
  <2>4. SameLists(h, out')
    <3>1. PICK r, d, S, g : g = OnOutputWritten(r, h, d, S, answers) /\ g = out'
      BY <2>1
    <3>2. SameLists(h, g)
      BY ONLY <3>1, PluginsKeepLists
    <3> QED
      BY <3>1, <3>2
  <2>5. Indexed(index', out')
    BY <2>3, <2>4, IndexedStill
  <2> QED
    BY <2>5 DEF Reloads
<1>10. ASSUME NEW B, IncrementalRender(B) PROVE Reloads(cache', last', out', index')
  <2>1. CASE ~BodiesRender(B)
    <3>1. last' = [last EXCEPT !.build = "failed"]
      BY <1>10, <2>1 DEF IncrementalRender
    <3> QED
      BY <1>2, <3>1 DEF StepsInv
  <2>2. CASE BodiesRender(B)
    <3>1. index' = ReloadIndex(out')
      BY <1>10, <2>2 DEF IncrementalRender
    <3>2. index' = LoadFromDir(TRUE, APIFiles(out'), index)
      BY <3>1 DEF ReloadIndex
    <3>3. Indexed(index', out')
      BY <3>2, LoadedAnew
    <3> QED
      BY <3>3 DEF Reloads
  <2> QED
    BY <2>1, <2>2
<1> QED
  BY <1>4, <1>5, <1>6, <1>7, <1>8, <1>9, <1>10 DEF Next, Author, Build, InFull

(* A section's file of the content API: its published pages, each once.      *)
Dated(e) == e[1].date > e[2].date \/ (e[1].date = e[2].date /\ Rank[Path(e[1])] < Rank[Path(e[2])])
ByDate(S) == {e \in S \X S : Dated(e)}

LEMMA ByDateOrders == ASSUME NEW S, Comparable(S) PROVE StrictOrder(S, ByDate(S))
<1>1. \A a, b \in S : <<a, b>> \in ByDate(S) <=> a.date > b.date \/ (a.date = b.date /\ Rank[Path(a)] < Rank[Path(b)])
  BY DEF ByDate, Dated
<1> QED
  BY <1>1 DEF StrictOrder, Comparable

LEMMA ContentIs ==
  ASSUME NEW B, NEW c, NEW F, IsBuild(B, c, F), NEW s, <<"api", s>> \in DOMAIN ContentAPI(B)
  PROVE  \E S : /\ IsFiniteSet(S) /\ Comparable(S)
                /\ ContentAPI(B)[<<"api", s>>].list = Ordered(S, ByDate(S))
<1> DEFINE newer(a, b) == a.date > b.date \/ (a.date = b.date /\ Rank[Path(a)] < Rank[Path(b)])
           S == {p \in APIPages(B) : Section(p) = s}
           R == {e \in S \X S : newer(e[1], e[2])}
           list == ContentAPI(B)[<<"api", s>>].list
<1>1. IsFiniteSet(S) /\ Comparable(S)
  <2>1. S \subseteq B.pages /\ IsFiniteSet(B.pages) /\ Comparable(B.pages)
    BY TreeIs DEF APIPages
  <2> HIDE DEF S
  <2> QED
    BY <2>1, SomeComparable
<1>2. list = InOrder(S, newer)
  <2> DEFINE q == <<"api", s>>
             of(t) == InOrder({p \in APIPages(B) : Section(p) = t}, newer)
             v == [View(B, "api") EXCEPT !.list = of(q[2])]
  <2>1. ContentAPI(B)[q] = v
    BY DEF ContentAPI
  <2>2. q[2] = s
    OBVIOUS
  <2>3. v.list = of(q[2])
    <3> HIDE DEF of, q
    <3> QED
      BY DEF View
  <2> HIDE DEF v, q
  <2>4. ContentAPI(B)[q].list = of(s)
    BY <2>1, <2>2, <2>3
  <2> QED
    BY <2>4 DEF q
<1>3. InOrder(S, newer) = Ordered(S, R)
  BY DEF InOrder
<1>4. R = ByDate(S)
  BY DEF ByDate, Dated
<1> HIDE DEF S, R, list
<1> QED
  BY <1>1, <1>2, <1>3, <1>4 DEF list

(* The items of a section, in the order of the index, are its pages in the   *)
(* order of its file.                                                        *)
LEMMA ListedAlike ==
  ASSUME NEW items, NEW f, NEW s, NEW S, IsFiniteSet(S), Comparable(S),
         NEW list, list = Ordered(S, ByDate(S)), Matched(items, f) = ItemsOf(s, list)
  PROVE  /\ Listing(items, f) = [i \in DOMAIN list |-> [page |-> list[i], section |-> s]]
         /\ Listing(items, f) \in Seq(Matched(items, f))
         /\ DOMAIN Listing(items, f) = DOMAIN list /\ Len(Listing(items, f)) = Len(list)
         /\ [i \in DOMAIN Listing(items, f) |-> Listing(items, f)[i].page] = list
<1> DEFINE n == Cardinality(S)
           M == Matched(items, f)
           R == {e \in M \X M : Newer(e[1], e[2])}
           item(p) == [page |-> p, section |-> s]
           L == [i \in 1..n |-> item(list[i])]
<1>1. /\ n \in Nat /\ list \in [1..n -> S] /\ Len(list) = n
      /\ \A p \in S : \E i \in 1..n : list[i] = p
      /\ \A i, j \in 1..n : i < j => <<list[i], list[j]>> \in ByDate(S)
  BY ByDateOrders, OrderedAll
<1>2. DOMAIN list = 1..n
  BY <1>1
<1>3. \A p, q \in S : (Newer(item(p), item(q)) <=> <<p, q>> \in ByDate(S)) /\ (item(p) = item(q) => p = q)
  <2> TAKE p, q \in S
  <2>1. item(p).page = p /\ item(q).page = q
    OBVIOUS
  <2> HIDE DEF item
  <2> QED
    BY <2>1 DEF Newer, ByDate, Dated
<1>4. M = {item(p) : p \in S} /\ M = {item(list[i]) : i \in 1..n}
  <2>1. M = {item(p) : p \in ElementsOf(list)}
    BY DEF ItemsOf
  <2> HIDE DEF item, M
  <2>2. ElementsOf(list) = S
    BY <1>1, <1>2 DEF ElementsOf
  <2>3. ElementsOf(list) = {list[i] : i \in 1..n}
    BY <1>2 DEF ElementsOf
  <2>4. \A x : x \in M <=> \E p \in ElementsOf(list) : x = item(p)
    BY <2>1
  <2>5. \A x : x \in M <=> \E p \in S : x = item(p)
    BY ONLY <2>2, <2>4
  <2>6. \A x : x \in M <=> \E i \in 1..n : x = item(list[i])
    BY ONLY <2>3, <2>4
  <2>7. M = {item(p) : p \in S}
    BY ONLY <2>5
  <2>8. M = {item(list[i]) : i \in 1..n}
    BY ONLY <2>6
  <2> QED
    BY <2>7, <2>8
<1>5. IsFiniteSet(M)
  <2> DEFINE g == [p \in S |-> item(p)]
  <2> HIDE DEF item, M
  <2>0. g \in [S -> M] /\ \A x \in M : \E p \in S : g[p] = x
    BY <1>4
  <2> HIDE DEF g
  <2>1. g \in Surjection(S, M)
    BY <2>0 DEF Surjection
  <2> QED
    BY <2>1, FS_Surjection
<1>6. StrictOrder(M, R)
  <2>1. \A x, y \in M : <<x, y>> \in R <=> Newer(x, y)
    OBVIOUS
  <2>2. StrictOrder(S, ByDate(S))
    BY ByDateOrders
  <2> HIDE DEF R, item, M
  <2>3. \A x \in M : \E p \in S : x = item(p)
    BY <1>4
  <2> DEFINE G == ByDate(S)
  <2>4. \A p, q \in S : <<item(p), item(q)>> \in R <=> <<p, q>> \in G
    <3> TAKE p, q \in S
    <3>1. item(p) \in M /\ item(q) \in M
      BY <1>4
    <3> QED
      BY <1>3, <2>1, <3>1
  <2> HIDE DEF G
  <2>5. ASSUME NEW x \in M, NEW y \in M, <<x, y>> \in R PROVE x # y /\ <<y, x>> \notin R
    <3>1. PICK p, q \in S : x = item(p) /\ y = item(q)
      BY <2>3
    <3>2. <<p, q>> \in G /\ p # q /\ <<q, p>> \notin G
      BY <2>2, <2>4, <2>5, <3>1 DEF StrictOrder, G
    <3> QED
      BY <1>3, <2>4, <3>1, <3>2
  <2>6. ASSUME NEW x \in M, NEW y \in M, NEW z \in M, <<x, y>> \in R, <<y, z>> \in R PROVE <<x, z>> \in R
    <3>1. PICK p, q, r \in S : x = item(p) /\ y = item(q) /\ z = item(r)
      BY <2>3
    <3>2. <<p, q>> \in G /\ <<q, r>> \in G
      BY <2>4, <2>6, <3>1
    <3>3. <<p, r>> \in G
      BY <2>2, <3>2 DEF StrictOrder, G
    <3> QED
      BY <2>4, <3>1, <3>3
  <2>7. ASSUME NEW x \in M, NEW y \in M PROVE x = y \/ <<x, y>> \in R \/ <<y, x>> \in R
    <3>1. PICK p, q \in S : x = item(p) /\ y = item(q)
      BY <2>3
    <3>2. p = q \/ <<p, q>> \in G \/ <<q, p>> \in G
      BY <2>2 DEF StrictOrder, G
    <3> QED
      BY <2>4, <3>1, <3>2
  <2> QED
    BY ONLY <2>5, <2>6, <2>7 DEF StrictOrder
<1>7. L \in [1..n -> M] /\ \A i \in 1..n : L[i] = item(list[i])
  <2> HIDE DEF item, M
  <2> QED
    BY <1>4
<1>8. Listing(items, f) = Ordered(M, R)
  BY DEF Listing, InOrder
<1>9. /\ \A x \in M : \E i \in 1..n : L[i] = x
      /\ \A i, j \in 1..n : i < j => <<L[i], L[j]>> \in R
  <2>1. \A x, y \in M : <<x, y>> \in R <=> Newer(x, y)
    OBVIOUS
  <2> HIDE DEF L, R, M, item
  <2>2. \A x \in M : \E i \in 1..n : L[i] = x
    BY <1>4, <1>7
  <2>3. ASSUME NEW i \in 1..n, NEW j \in 1..n, i < j PROVE <<L[i], L[j]>> \in R
    <3>1. list[i] \in S /\ list[j] \in S /\ L[i] \in M /\ L[j] \in M
      BY <1>1, <1>7
    <3>2. L[i] = item(list[i]) /\ L[j] = item(list[j])
      BY <1>7
    <3>3. <<list[i], list[j]>> \in ByDate(S)
      BY <1>1, <2>3
    <3>4. Newer(item(list[i]), item(list[j]))
      BY <1>3, <3>1, <3>3
    <3> QED
      BY <2>1, <3>1, <3>2, <3>4
  <2> QED
    BY <2>2, <2>3
<1> HIDE DEF M, R, item
<1>10. DOMAIN L = 1..n
  OBVIOUS
<1> HIDE DEF L
<1>11. L = Ordered(M, R)
  <2> HIDE DEF n
  <2> QED
    BY ONLY <1>1, <1>5, <1>6, <1>7, <1>9, OrderedOnly
<1>12. Listing(items, f) = L
  BY <1>8, <1>11
<1>13. L \in Seq(M) /\ Len(L) = n
  BY <1>1, <1>7
<1>14. L = [i \in DOMAIN list |-> [page |-> list[i], section |-> s]]
  BY <1>2 DEF L, item
<1>15. [i \in DOMAIN L |-> L[i].page] = list
  <2>1. \A i \in 1..n : L[i].page = list[i]
    BY <1>7 DEF item
  <2> QED
    BY <1>1, <1>10, <2>1
<1> QED
  BY <1>1, <1>2, <1>10, <1>12, <1>13, <1>14, <1>15 DEF M

(* The pages of a list, put one behind the other, are the list.              *)
Upto(list, limit, n) == SubSeq(list, 1, Least(n * limit, Len(list)))

LEMMA PieceIs ==
  ASSUME NEW S, NEW list \in Seq(S), NEW b \in Nat, b <= Len(list), NEW a \in Nat, a <= b
  PROVE  /\ SubSeq(list, 1, b) = [i \in 1..b |-> list[i]]
         /\ SubSeq(list, 1, a) \o SubSeq(list, a + 1, b) = SubSeq(list, 1, b)
<1>1. SubSeq(list, 1, b) = [i \in 1..b |-> list[i]]
  OBVIOUS
<1>2. SubSeq(list, 1, a) \o SubSeq(list, a + 1, b) = SubSeq(list, 1, b)
  OBVIOUS
<1> QED
  BY <1>1, <1>2

LEMMA PagesJoin ==
  ASSUME NEW S, NEW list \in Seq(S), NEW limit \in Nat \ {0}
  PROVE  LET t == TotalPages(Len(list), limit) IN
         /\ Upto(list, limit, 0) = <<>> /\ Upto(list, limit, t) = list
         /\ \A n \in 1..t : Upto(list, limit, n) = Upto(list, limit, n - 1) \o Chain(list, limit)[n].items
<1> DEFINE len == Len(list)
           t == TotalPages(len, limit)
<1>0. len \in Nat
  OBVIOUS
<1>1. t \in Nat /\ len <= t * limit
  BY <1>0, TotalIs
<1>2. Upto(list, limit, 0) = <<>>
  <2>1. Least(0 * limit, len) = 0
    BY <1>0 DEF Least
  <2> HIDE DEF len
  <2> QED
    BY <2>1 DEF Upto, len
<1>3. Upto(list, limit, t) = list
  <2> HIDE DEF t
  <2>1. Least(t * limit, len) = len
    BY <1>0, <1>1, Z3T(30) DEF Least
  <2>2. SubSeq(list, 1, len) = list
    OBVIOUS
  <2> HIDE DEF len
  <2> QED
    BY <2>1, <2>2 DEF Upto, len
<1>4. ASSUME NEW n \in 1..t
      PROVE  Upto(list, limit, n) = Upto(list, limit, n - 1) \o Chain(list, limit)[n].items
  <2> DEFINE a == (n - 1) * limit
             b == Least(n * limit, len)
  <2>1. a < len /\ a + limit = n * limit /\ a \in Nat
    BY <1>0, PageStarts
  <2>2. Chain(list, limit)[n].items = SubSeq(list, a + 1, b)
    <3>1. n \in 1..ChainLength(len, limit)
      BY <1>1 DEF ChainLength
    <3> QED
      BY <3>1 DEF Chain
  <2>3. Upto(list, limit, n - 1) = SubSeq(list, 1, a)
    <3>1. Least(a, len) = a
      BY <2>1 DEF Least
    <3> QED
      BY <3>1 DEF Upto
  <2>4. Upto(list, limit, n) = SubSeq(list, 1, b)
    BY DEF Upto
  <2> HIDE DEF t
  <2>5. b \in Nat /\ b <= len /\ a <= b
    <3> DEFINE m == n * limit
    <3>1. a + limit = m
      BY <2>1
    <3> HIDE DEF a, m, len
    <3> QED
      BY <1>0, <2>1, <3>1 DEF Least, m
  <2> HIDE DEF a, b
  <2>6. SubSeq(list, 1, a) \o SubSeq(list, a + 1, b) = SubSeq(list, 1, b)
    BY <2>1, <2>5, PieceIs
  <2> QED
    BY <2>2, <2>3, <2>4, <2>6
<1> QED
  BY <1>2, <1>3, <1>4

(* A request that names no tag asks for any.                                 *)
AnyTag == ""

LEMMA PagesRequest ==
  ASSUME NEW request, NEW params, request.path = <<"pages">>, request.params = params
  PROVE  ServeHTTP(index, request) = HandlePagesList(index, params)
BY DEF ServeHTTP

LEMMA ListHandled ==
  ASSUME NEW params, DOMAIN params = {"section", "page", "limit"}
  PROVE  HandlePagesList(index, params)
             = Query(index, AskFor(params["section"], AnyTag, params["limit"], params["page"]))
<1>1. /\ "section" \in DOMAIN params /\ "page" \in DOMAIN params /\ "limit" \in DOMAIN params
      /\ "tag" \notin DOMAIN params
  OBVIOUS
<1> QED
  BY ONLY <1>1, Zenon DEF HandlePagesList, AskFor, AnyTag

LEMMA TotalAsked ==
  ASSUME NEW items, NEW f, NEW list, list = Listing(items, f), NEW total, total = Query(items, f).total
  PROVE  total = Len(list)
BY ONLY list = Listing(items, f), total = Query(items, f).total DEF Query

(* Asked page by page, the index gives its whole listing.                    *)
LEMMA AskedAll ==
  ASSUME NEW s, NEW limit \in 1..50, NEW f, f = AskFor(s, AnyTag, limit, 1), NEW list, list = Listing(index, f),
         list \in Seq(Matched(index, f)), Len(list) <= MaxPage
  PROVE  Asked(s, limit) = list
<1> DEFINE answer(n) == ServeHTTP(index, [path |-> <<"pages">>,
                              params |-> [section |-> s, page |-> n, limit |-> limit]])
           pages == TotalPages(answer(1).total, limit)
           upTo[n \in 0..pages] == IF n = 0 THEN <<>> ELSE upTo[n - 1] \o answer(n).data
           t == TotalPages(Len(list), limit)
<1>1. \A n : answer(n) = Query(index, AskFor(s, AnyTag, limit, n))
  <2> TAKE n
  <2> DEFINE params == [section |-> s, page |-> n, limit |-> limit]
             request == [path |-> <<"pages">>, params |-> params]
  <2>1. request.path = <<"pages">> /\ request.params = params
    OBVIOUS
  <2>2. /\ DOMAIN params = {"section", "page", "limit"}
        /\ params["section"] = s /\ params["page"] = n /\ params["limit"] = limit
    OBVIOUS
  <2> HIDE DEF params
  <2>3. ServeHTTP(index, request) = HandlePagesList(index, params)
    <3> HIDE DEF request
    <3> QED
      BY ONLY <2>1, PagesRequest
  <2>4. HandlePagesList(index, params) = Query(index, AskFor(s, AnyTag, limit, n))
    BY <2>2, ListHandled
  <2> QED
    BY <2>3, <2>4 DEF params
<1>2. Asked(s, limit) = upTo[pages]
  BY DEF Asked
<1> DEFINE data(n) == answer(n).data
           F(w) == [n \in 0..t |-> IF n = 0 THEN <<>> ELSE w[n - 1] \o data(n)]
<1>3. answer(1).total = Len(list)
  <2> HIDE DEF answer
  <2>1. answer(1).total = Query(index, f).total
    BY <1>1
  <2> QED
    BY ONLY <2>1, list = Listing(index, f), TotalAsked
<1>4. upTo = CHOOSE w : w = F(w)
  <2> HIDE DEF answer
  <2> QED
    BY <1>3
<1>5. pages = t
  BY <1>3
<1>6. limit \in Nat \ {0} /\ Len(list) \in Nat /\ t \in Nat
  <2>1. limit \in Nat \ {0}
    OBVIOUS
  <2>2. Len(list) \in Nat
    BY ONLY list \in Seq(Matched(index, f))
  <2>3. TotalPages(Len(list), limit) \in Nat
    BY ONLY <2>1, <2>2, TotalIs
  <2> QED
    BY ONLY <2>1, <2>2, <2>3
<1>7. \A n \in 1..t : data(n) = Chain(list, limit)[n].items
  <2> SUFFICES ASSUME NEW n \in 1..t PROVE data(n) = Chain(list, limit)[n].items
    OBVIOUS
  <2>1. t <= Len(list)
    <3> DEFINE len == Len(list)
    <3>1. t * limit < len + limit /\ len \in Nat
      BY <1>6, TotalIs
    <3> HIDE DEF t, len
    <3> QED
      BY ONLY <1>6, <3>1, Z3T(30) DEF len
  <2>2. n <= MaxPage
    <3> HIDE DEF t
    <3> QED
      BY <1>6, <2>1 DEF MaxPage
  <2>3. Query(index, AskFor(s, AnyTag, limit, n)).data = Chain(list, limit)[n].items
    <3>0. PICK items, tag : items = index /\ tag = AnyTag
      OBVIOUS
    <3>1. Listing(items, AskFor(s, tag, limit, 1)) = list
      BY ONLY <3>0, f = AskFor(s, AnyTag, limit, 1), list = Listing(index, f)
    <3>2. list \in Seq(Matched(items, AskFor(s, tag, limit, 1)))
      BY ONLY <3>0, f = AskFor(s, AnyTag, limit, 1), list \in Seq(Matched(index, f))
    <3>3. n \in 1..TotalPages(Len(list), limit)
      BY ONLY n \in 1..t
    <3>4. Query(items, AskFor(s, tag, limit, n)).data = Chain(list, limit)[n].items
      BY ONLY <3>1, <3>2, <2>2, <3>3, limit \in 1..50, AskedIsPager
    <3> QED
      BY ONLY <3>0, <3>4
  <2> QED
    BY <1>1, <2>3
<1> HIDE DEF data, answer, pages, upTo
<1>8. PICK cut : cut = [n \in 0..t |-> Upto(list, limit, n)]
  OBVIOUS
<1>9. /\ Upto(list, limit, 0) = <<>> /\ Upto(list, limit, t) = list
      /\ \A n \in 1..t : Upto(list, limit, n) = Upto(list, limit, n - 1) \o data(n)
  <2>1. /\ Upto(list, limit, 0) = <<>> /\ Upto(list, limit, t) = list
        /\ \A n \in 1..t : Upto(list, limit, n) = Upto(list, limit, n - 1) \o Chain(list, limit)[n].items
    BY ONLY list \in Seq(Matched(index, f)), <1>6, PagesJoin
  <2> QED
    BY <1>7, <2>1
<1>10. cut = F(cut)
  <2> HIDE DEF t
  <2>1. ASSUME NEW n \in 0..t PROVE cut[n] = F(cut)[n]
    <3>1. CASE n = 0
      BY <1>8, <1>9, <3>1
    <3>2. CASE n # 0
      <4>1. n \in 1..t /\ n - 1 \in 0..t
        BY <1>6, <3>2
      <4>2. cut[n] = cut[n - 1] \o data(n)
        BY <1>8, <1>9, <4>1
      <4> QED
        BY <3>2, <4>2
    <3> QED
      BY <3>1, <3>2
  <2> QED
    BY <1>8, <2>1
<1>11. upTo = F(upTo)
  <2> HIDE DEF F
  <2> QED
    BY <1>4, <1>10, Zenon
<1>12. \A n \in 0..t : upTo[n] = Upto(list, limit, n)
  <2> HIDE DEF t
  <2> DEFINE T == {n \in 0..t : upTo[n] = Upto(list, limit, n)}
  <2>0. \A n \in 0..t : upTo[n] = IF n = 0 THEN <<>> ELSE upTo[n - 1] \o data(n)
    <3>1. \A n \in 0..t : F(upTo)[n] = IF n = 0 THEN <<>> ELSE upTo[n - 1] \o data(n)
      OBVIOUS
    <3> HIDE DEF F
    <3> QED
      BY <1>11, <3>1
  <2>1. 0 \in T
    BY <1>6, <1>9, <2>0
  <2>2. ASSUME NEW m \in 1..t, m - 1 \in T PROVE m \in T
    <3>1. m \in 0..t /\ m # 0
      BY <1>6
    <3> QED
      BY <1>9, <2>0, <2>2, <3>1
  <2> HIDE DEF T
  <2>3. \A n \in 0..t : n \in T
    BY <1>6, <2>1, <2>2, UpTo
  <2> QED
    BY <2>3 DEF T
<1>13. t \in 0..t
  <2> HIDE DEF t
  <2> QED
    BY <1>6
<1> QED
  BY <1>2, <1>5, <1>9, <1>12, <1>13

(* What the requests of a section ask for, when the index holds it.          *)
LEMMA SectionAsked ==
  ASSUME NEW B, NEW c, NEW F, IsBuild(B, c, F), NEW f, Offered(f, B), Indexed(index, f), conf.api,
         NEW s, s # AnyTag, <<"api", s>> \in DOMAIN ContentAPI(B) \ DOMAIN StaticWrites(B),
         NEW list, list = ContentAPI(B)[<<"api", s>>].list, Len(list) <= MaxPage, NEW limit \in 1..50
  PROVE  [i \in DOMAIN Asked(s, limit) |-> Asked(s, limit)[i].page] = list
<1> DEFINE q == <<"api", s>>
           filter == AskFor(s, AnyTag, limit, 1)
           L == Listing(index, filter)
<1>1. q \in DOMAIN f /\ "list" \in DOMAIN f[q] /\ f[q].list = list
  BY DEF Offered
<1>2. {i \in index : i.section = s} = ItemsOf(s, list)
  <2> HIDE DEF q
  <2>1. q = <<"api", s>>
    BY DEF q
  <2> QED
    BY <1>1, <2>1 DEF Indexed
<1>3. Matched(index, filter) = {i \in index : i.section = s}
  <2>1. filter.section = s /\ filter.tag = AnyTag
    BY DEF AskFor
  <2> HIDE DEF filter
  <2> QED
    BY <2>1, Zenon DEF Matched, AnyTag
<1>4. PICK S : IsFiniteSet(S) /\ Comparable(S) /\ list = Ordered(S, ByDate(S))
  BY ContentIs
<1>5. Matched(index, filter) = ItemsOf(s, list)
  BY <1>2, <1>3
<1> HIDE DEF filter, L
<1>6. /\ Listing(index, filter) \in Seq(Matched(index, filter))
      /\ Len(Listing(index, filter)) = Len(list)
      /\ [i \in DOMAIN Listing(index, filter) |-> Listing(index, filter)[i].page] = list
  BY ONLY <1>4, <1>5, ListedAlike
<1>7. filter = AskFor(s, AnyTag, limit, 1) /\ L = Listing(index, filter)
  BY DEF filter, L
<1>8. L \in Seq(Matched(index, filter)) /\ Len(L) <= MaxPage /\ [i \in DOMAIN L |-> L[i].page] = list
  BY ONLY <1>6, <1>7, Len(list) <= MaxPage
<1>9. Asked(s, limit) = L
  BY ONLY <1>7, <1>8, limit \in 1..50, AskedAll
<1> QED
  BY ONLY <1>8, <1>9

LEMMA QueriesHold == SourcesInv /\ FreshInv /\ IndexInv => QueriesComplete
<1> DEFINE B == Current
           files == ContentAPI(B)
           shown == DOMAIN files \ DOMAIN StaticWrites(B)
<1> SUFFICES ASSUME SourcesInv, FreshInv, IndexInv, Settled, Daemon, conf.api,
                    last.build \in {"full", "incremental"}, SameShape, NEW q \in shown
             PROVE  ListAnswered(files, q)
  BY DEF QueriesComplete
<1>1. PICK F : Shown(cache, last, out, F) /\ B = Load(conf, "", F)
  BY ShowsCurrent
<1>2. IsBuild(B, "", F) /\ Offered(out, B)
  BY <1>1 DEF Shown
<1>3. Indexed(index, out)
  BY DEF IndexInv, Reloads, Daemon
<1>4. PICK s : q = <<"api", s>> /\ q[2] = s
  BY DEF ContentAPI
<1>5. PICK c, list : c = "" /\ list = files[<<"api", s>>].list
  OBVIOUS
<1>6. conf.api /\ <<"api", s>> \in shown /\ IsBuild(B, c, F)
  BY <1>2, <1>4, <1>5
<1> HIDE DEF B
<1>7. ASSUME s # AnyTag, Len(list) <= MaxPage, NEW limit \in 1..50
      PROVE  [i \in DOMAIN Asked(s, limit) |-> Asked(s, limit)[i].page] = list
  BY ONLY <1>2, <1>3, <1>5, <1>6, <1>7, SectionAsked
<1>8. files[q].list = list
  BY <1>4, <1>5
<1> HIDE DEF files
<1> QED
  BY ONLY <1>4, <1>7, <1>8, Zenon DEF ListAnswered, AnyTag

(* Once every change has been built, a client that asks the daemon's index   *)
(* for a section page by page, with any limit the handler takes, is given    *)
(* exactly the pages a full build would list for the section now, newest     *)
(* first: whatever edits, failed builds and incremental builds came before,  *)
(* and although the index is loaded again from what is in the output.        *)
THEOREM QueriesStayComplete == Spec => []QueriesComplete
<1>1. Init => FreshInv /\ IndexInv
  BY InitServes, InitIndex
<1>2. StepsInv /\ SourcesInv /\ LanguagesInv /\ FreshInv /\ [Next]_vars => FreshInv'
  BY FreshStep
<1>3. StepsInv /\ SourcesInv /\ LanguagesInv /\ FreshInv /\ IndexInv /\ [Next]_vars => IndexInv'
  BY IndexStep
<1>4. SourcesInv /\ FreshInv /\ IndexInv => QueriesComplete
  BY QueriesHold
<1>5. Spec => [](StepsInv /\ SourcesInv /\ LanguagesInv)
  BY LanguagesInTurn
<1> QED
  BY <1>1, <1>2, <1>3, <1>4, <1>5, PTL DEF Spec
=============================================================================
