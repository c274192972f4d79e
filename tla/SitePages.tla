------------------------------ MODULE SitePages -----------------------------
(***************************************************************************)
(* What one build of one language writes (internal/build/pipeline_*.go,     *)
(* internal/output).  An output file is a sequence of path segments; its    *)
(* content is abstracted to a view: what kind of file it is, the language   *)
(* it is in, the page it is about, the pages it lists, the terms it lists,  *)
(* the translations it links to, whether it links to a next pager, and what *)
(* the plugins of PostBuild have put there.                                 *)
(*                                                                          *)
(* An image of a page is a record [src, quoted, absolute, srcset]: where it  *)
(* leads to, whether its attribute still has quotes and starts at the root,  *)
(* and the variants it offers.  conf.shows maps the texts that have one to   *)
(* the file it leads to, conf.diagrams the texts that have a diagram to its  *)
(* language, conf.pictures the static files that are pictures to what is in   *)
(* them.   conf.baseURL is whether the site has one, conf.sitemap the          *)
(* priority and frequency huan.yaml gives its pages.                         *)
(*                                                                          *)
(* A build B is a language's share of a configuration and of a set of       *)
(* files: [conf, code, templates, files, tree, pages, available].           *)
(***************************************************************************)
EXTENDS SiteLanguages, SitePlugins, SequencesExt, TLC

CONSTANTS BadBody,     \* a text that does not render
          BadMatter    \* a text whose front matter does not parse

(* The templates of the theme's directory and of the project, and those of   *)
(* an active theme plugin.                                                   *)
WalkDir(conf) == conf.themeLayouts \cup conf.layouts
Templates(conf) ==
    WalkDir(conf) \cup (IF ActiveTheme(conf) = "" THEN {} ELSE conf.themeTemplates)

Load(conf, code, F) ==
    LET files == {p \in F : InLanguage(conf, code, p)}
        T == Tree(files)
    IN [conf |-> conf, code |-> code, files |-> files, tree |-> T, pages |-> SitePages(T),
        templates |-> Templates(conf),
        available |-> IF IsMultiLanguage(conf) THEN Available(conf, F) ELSE <<>>]

Parses(F) == \A p \in F : p.body # BadMatter
BodyRenders(p) == p.body # BadBody
BodiesRender(B) == \A p \in B.pages : BodyRenders(p)

-----------------------------------------------------------------------------
(* A file, and files written over others.                                    *)
OneFile(q, view) == [r \in {q} |-> view]
f ++ g == [q \in DOMAIN f \cup DOMAIN g |-> IF q \in DOMAIN f THEN f[q] ELSE g[q]]

Output(base, name) == Append(base, name)
HTML(u) == Output(u, "index.html")
RSS(u) == Output(u, "index.xml")
Mirror(u) == Output(u, "index.md")
Pager(k) == <<"page", ToString(k), "index.html">>

Untouched == [snippets |-> 0, meta |-> {}, diagram |-> <<"none", "", 0>>, ranked |-> <<>>,
              imgs |-> {}, picture |-> <<>>]

View(B, as) == [as |-> as, lang |-> B.code, own |-> <<>>, list |-> <<>>, terms |-> <<>>,
                links |-> {}, next |-> FALSE, extra |-> Untouched]

InSchedule(conf, p) == /\ p.when = "future" => conf.future
                       /\ p.when = "expired" => conf.expired

ShouldRender(conf, p) ==
    (p.draft => conf.drafts) /\ InSchedule(conf, p) /\ p.render # "never"

(* Variant for the checks: nothing stands in for a missing template.         *)
OwnTemplateOnly(B, p) ==
    LET layout == IF Kind(p) = "page" THEN "single" ELSE "list"
    IN IF Kind(p) = "home" THEN "index"
       ELSE IF <<Section(p), layout>> \in B.templates THEN Section(p) ELSE ""

(* Of the directories a template may stand in, the first that has it.  The   *)
(* home page has a template of its own.                                      *)
ResolveTemplateName(B, p) ==
    LET layout == IF Kind(p) = "page" THEN "single" ELSE "list"
        found == SelectSeq(<<p.type, Section(p), "_default">>,
                           LAMBDA d : d # "" /\ <<d, layout>> \in B.templates)
    IN IF Kind(p) = "home" THEN "index" ELSE IF found = <<>> THEN "" ELSE Head(found)

MainItems(B) == MainPages(B.tree, B.conf.drafts, B.conf.main)

(* .RegularPages: the children of a section, every page for a home page that *)
(* is made up, none for one that has a file.                                 *)
Children(B, p) ==
    Visible(CASE Kind(p) = "section" -> RegularPages(B.tree, p.dir)
              [] Kind(p) = "home" /\ p \notin B.files -> SiteRegularPages(B.tree)
              [] OTHER -> <<>>, B.conf.drafts)

(* What the writer does to an image: minified, an attribute has no quotes;   *)
(* and a root-relative address is put under the one of the language's site.  *)
Minify(conf, img) == [img EXCEPT !.quoted = @ /\ ~conf.minify]

Canonify(conf, code, img) ==
    IF conf.baseURL THEN [img EXCEPT !.absolute = TRUE]
    ELSE [img EXCEPT !.src = LanguageBase(conf, code) \o @]

Images(B, p) ==
    LET img == [src |-> B.conf.shows[p.body], quoted |-> TRUE, absolute |-> FALSE, srcset |-> {}]
    IN IF p.body \in DOMAIN B.conf.shows THEN {Canonify(B.conf, B.code, Minify(B.conf, img))} ELSE {}

Diagram(conf, p) ==
    IF p.body \in DOMAIN conf.diagrams THEN <<"code", conf.diagrams[p.body], p.body>>
    ELSE Untouched.diagram

(* The home page shows the first pager over the main sections.               *)
PageView(B, p) ==
    LET chain == Chain(MainItems(B), B.conf.size)
        page == [View(B, "html") EXCEPT !.own = <<p>>, !.extra.diagram = Diagram(B.conf, p),
                     !.extra.imgs = Images(B, p), !.links = TranslationLinks(B.conf, B.available, p)]
    IN IF Kind(p) = "home" THEN [page EXCEPT !.list = chain[1].items, !.next = chain[1].next]
       ELSE [page EXCEPT !.list = Children(B, p)]

MirrorView(B, p) == [View(B, "mirror") EXCEPT !.own = <<p>>]
RSSView(B, p) == [View(B, "rss") EXCEPT !.own = <<p>>, !.list = Children(B, p)]

Rendered(B) == {p \in B.pages : ShouldRender(B.conf, p) /\ ResolveTemplateName(B, p) # ""}

(* One goroutine for each page writes its HTML, then its Markdown mirror or  *)
(* its feed.  Pages of one URL write the same files, in any order.           *)
PageWrites(B) ==
    {[path |-> HTML(URL(p)), view |-> PageView(B, p)] : p \in Rendered(B)}
    \cup {[path |-> Mirror(URL(p)), view |-> MirrorView(B, p)] :
              p \in {q \in Rendered(B) : B.conf.mirror /\ Kind(q) = "page"}}
    \cup {[path |-> RSS(URL(p)), view |-> RSSView(B, p)] :
              p \in {q \in Rendered(B) : Kind(q) # "page"}}

Outcomes(W) ==
    LET paths == {w.path : w \in W}
        at == [q \in paths |-> {w.view : w \in {x \in W : x.path = q}}]
        contested == {q \in paths : Cardinality(at[q]) > 1}
    IN {[q \in paths |-> IF q \in contested THEN won[q] ELSE CHOOSE v \in at[q] : TRUE] :
            won \in {f \in [contested -> UNION {at[q] : q \in contested}] :
                         \A q \in contested : f[q] \in at[q]}}

-----------------------------------------------------------------------------
(* The files made from the whole site.                                       *)
TaxonomyWrites(B) ==
    LET T == B.tree
        rank == B.conf.termRank
        form(k) == OriginalCase(T, k)
        term(k) == [View(B, "term") EXCEPT !.list = TermPages(T, k), !.terms = <<form(k)>>]
        listing == [View(B, "terms") EXCEPT !.terms = ByCount(T, rank)]
        feed == [View(B, "rss") EXCEPT !.terms = TermStubs(T, rank)]
        ks == IF <<"_default", "list">> \in B.templates THEN Terms(T) ELSE {}
    IN IF Terms(T) = {} THEN <<>>
       ELSE OneFile(HTML(<<"tags">>), listing) ++ OneFile(RSS(<<"tags">>), feed)
            ++ [q \in {HTML(<<"tags", k>>) : k \in ks} |-> term(q[2])]
            ++ [q \in {RSS(<<"tags", k>>) : k \in ks} |-> [term(q[2]) EXCEPT !.as = "rss"]]

(* Every site has a page for its categories, which nothing fills.            *)
EmptyTaxonomy(B) == View(B, "terms")

CategoryWrites(B) ==
    OneFile(HTML(<<"categories">>), EmptyTaxonomy(B)) ++ OneFile(RSS(<<"categories">>), View(B, "rss"))

HomePagers(B) ==
    LET items == MainItems(B)
        size == B.conf.size
        home == PageView(B, Home(B.tree))
        pager(k) == [home EXCEPT !.list = Clone(items, size, k).items,
                                 !.next = Clone(items, size, k).next]
        ks == 2..TotalPages(Len(items), size)
    IN OneFile(Pager(1), View(B, "redirect"))
       ++ [q \in {Pager(k) : k \in ks} |-> pager(CHOOSE k \in ks : Pager(k) = q)]

NotFound(B) == OneFile(<<"404.html">>, View(B, "404"))

(* A page may be more specific than huan.yaml, but the front matter is read  *)
(* for nothing but whether to leave the page out, which no page here asks.   *)
InFrontMatter == [priority |-> 0, changefreq |-> ""]

MergeSitemap(site, page) ==
    [priority |-> IF page.priority > 0 THEN page.priority ELSE site.priority,
     changefreq |-> IF page.changefreq # "" THEN page.changefreq ELSE site.changefreq]

(* Every entry links to the page in the other languages.                     *)
Sitemap(B) ==
    LET shown == {p \in B.pages : B.conf.drafts \/ ~p.draft}
        order == InOrder(shown, LAMBDA a, b : Rank[Path(a)] < Rank[Path(b)])
    IN OneFile(<<"sitemap.xml">>, [View(B, "sitemap") EXCEPT !.list = order,
           !.extra.ranked = [i \in DOMAIN order |-> MergeSitemap(B.conf.sitemap, InFrontMatter)],
           !.links = UNION {TranslationLinks(B.conf, B.available, p) : p \in shown}])

SearchIndex(B) ==
    OneFile(<<"search.json">>,
        [View(B, "search") EXCEPT !.own = <<Home(B.tree)>>,
                                  !.list = Visible(SiteRegularPages(B.tree), B.conf.drafts)])

(* The content API leaves drafts out whatever the build includes, and takes  *)
(* pages no list shows.  A section without a page has no file.               *)
APIPages(B) == {p \in B.tree : Kind(p) = "page" /\ ~p.draft /\ InSchedule(B.conf, p)}

ContentAPI(B) ==
    LET newer(a, b) == a.date > b.date \/ (a.date = b.date /\ Rank[Path(a)] < Rank[Path(b)])
        of(s) == InOrder({p \in APIPages(B) : Section(p) = s}, newer)
    IN [q \in {<<"api", Section(p)>> : p \in APIPages(B)} |->
            [View(B, "api") EXCEPT !.list = of(q[2])]]

LlmsTxt(B) == IF B.conf.llms THEN OneFile(<<"llms.txt">>, View(B, "llms")) ELSE <<>>
AIOutputs(B) == LlmsTxt(B) ++ (IF B.conf.api THEN ContentAPI(B) ELSE <<>>)

FeedsAndSpecials(B) ==
    AIOutputs(B) ++ SearchIndex(B) ++ Sitemap(B) ++ NotFound(B) ++ HomePagers(B)
        ++ CategoryWrites(B) ++ TaxonomyWrites(B)

(* Files of a static directory but for those under an excluded directory.    *)
CopyStatic(files, excludes) == {q \in files : Len(q) = 1 \/ q[1] \notin excludes}

(* The files a theme plugin carries.                                         *)
ThemeAssets(conf) ==
    IF ActiveTheme(conf) = "" THEN {} ELSE {<<"theme", conf.theme>> \o q : q \in conf.themeAssets}

(* static/ of the theme, then of the project without what the language       *)
(* excludes, then the language's own directory of it, moved to the root.     *)
StaticWrites(B) ==
    LET lang == IF B.code \in Codes(B.conf) THEN B.conf.langs[B.code]
                ELSE [staticExclude |-> {}, staticRoot |-> ""]
        file(q) == [View(B, "static") EXCEPT !.extra.picture =
                       IF q \in DOMAIN B.conf.pictures THEN <<B.conf.pictures[q]>> ELSE <<>>]
        local == {Tail(q) : q \in {r \in B.conf.static : Len(r) > 1 /\ r[1] = lang.staticRoot}}
        project == CopyStatic(B.conf.static, lang.staticExclude \cup {lang.staticRoot})
    IN [q \in local |-> file(<<lang.staticRoot>> \o q)] ++ [q \in project |-> file(q)]
       ++ [q \in ThemeAssets(B.conf) \cup CopyStatic(B.conf.themeStatic, {}) |-> file(q)]
=============================================================================
