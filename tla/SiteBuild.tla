------------------------------ MODULE SiteBuild -----------------------------
(***************************************************************************)
(* Building a site while its files change: `huan build`, which builds every *)
(* language anew (internal/build/build.go, multisite.go), and the daemon    *)
(* (internal/daemon/builder.go), which after its first full build renders   *)
(* only the pages a changed file affects, with the templates, the writer    *)
(* and the dependency graph of the last full build.                         *)
(*                                                                          *)
(* A build reads all of content/ at its start and then works on what it     *)
(* read.  That a change made meanwhile reaches a later build is the subject *)
(* of BuildQueue; here changed holds it until a build takes it.             *)
(***************************************************************************)
EXTENDS PostBuild, SiteGraph, ContentIndex

CONSTANTS Configs,     \* the sites, a sequence: huan.yaml, the files at first, what edits make
          MaxEdits     \* bound: edits of a behaviour

VARIABLES conf,        \* the site's configuration
          disk,        \* the files of content/
          templates,   \* do the templates parse
          out,         \* the output directory: file -> view
          cache,       \* of the last full build: its pages (the graph is made of them)
                       \*   and the directories its writer has made
          svgs,        \* diagrams in the cache on disk
          index,       \* items of the daemon's query index
          changed,     \* what the watcher reported: content paths, and is it more than content
          job,         \* the build that runs
          last         \* how the output came about, edits so far, and, as history, whether
                       \*   incremental builds have found the content in the graph's shape, and
                       \*   the addresses pages had moved to
vars == <<conf, disk, templates, out, cache, svgs, index, changed, job, last>>

NoCache == [pages |-> {}, dirs |-> {}]
NoJob == [step |-> "idle", todo |-> <<>>, files |-> {}, affected |-> {}]
Idle == job.step = "idle"
File(p) == <<p.dir, p.base, p.lang>>

(* Every version of a file a site ever has, and the languages it is built in.*)
Contents(site) == site.start \cup site.versions
Builds(site) == Codes(site) \cup {DefaultLanguageCode(site)}
OneEach(F) == \A p, q \in F : File(p) = File(q) => p = q

(* Pages are what front matter and file names give, and Rank knows every path*)
(* they can have, made-up pages included.  A language's build takes one file *)
(* of a path: no page is there both as foo.md and as a translation of itself *)
(* into the default language.  A main section has a name.                    *)
ContentAssumed(site) ==
    LET all == Contents(site) IN
    /\ IsFiniteSet(all) /\ OneEach(site.start) /\ site.size \in Nat \ {0} /\ "" \notin site.main
    /\ \A p \in all :
          /\ p.dir \in Seq(STRING) /\ {p.base, p.lang, p.slug, p.type} \subseteq STRING
          /\ {p.weight, p.date, p.title} \subseteq Nat
          /\ p.tags \in Seq([key : STRING, form : STRING])
          /\ Path(p) \in DOMAIN Rank /\ (p.dir # <<>> => <<<<p.dir[1]>>, "_index">> \in DOMAIN Rank)
    /\ \A c \in Builds(site) : \A p, q \in all :
          InLanguage(site, c, p) /\ InLanguage(site, c, q) /\ Path(p) = Path(q) => p.lang = q.lang

(* The default language writes to the root and every other one to a directory*)
(* of its own, as BuildMultiSite has it; the daemon takes a site for one in  *)
(* one language.                                                             *)
LanguagesAssumed(site) ==
    LET base(c) == LanguageBase(site, c) IN
    /\ IsFiniteSet(Codes(site)) /\ base(DefaultLanguageCode(site)) = <<>>
    /\ site.daemon => ~IsMultiLanguage(site)
    /\ \A c \in Codes(site) : base(c) \in Seq(STRING) /\ {site.langs[c].weight, CodeRank[c]} \subseteq Nat
    /\ \A c, d \in Codes(site) : c # d => CodeRank[c] # CodeRank[d]
    /\ \A c, d \in Builds(site) :
          c # d /\ d # DefaultLanguageCode(site) => ~IsPrefix(base(d), base(c) \o <<"sitemap.xml">>)

(* What is copied has a path, the four extensions of a picture have places   *)
(* 1 to 4, and no variant gets the name of a file a build makes.             *)
FilesAssumed(site) ==
    LET c == Plugin(NewPluginRegistry(site), "image_pipeline") IN
    /\ site.static \cup site.themeStatic \cup site.themeAssets \subseteq Seq(STRING) \ {<<>>}
    /\ \A q \in DOMAIN site.pictures :
          LET pic == site.pictures[q] IN
          /\ pic.rank \in 1..4
          /\ ConfigLoads(site) /\ c.on =>
                \A s \in Sizes(c, pic) : VariantName(pic, s) \notin {"index.html", "404.html", "sitemap.xml"}

ASSUME SitesAssumption ==
    /\ \A u, v \in DOMAIN Rank : Rank[u] \in Nat /\ (Rank[u] = Rank[v] => u = v)
    /\ <<<<>>, "_index">> \in DOMAIN Rank
    /\ \A i \in DOMAIN Configs :
          ContentAssumed(Configs[i]) /\ LanguagesAssumed(Configs[i]) /\ FilesAssumed(Configs[i])

Init ==
    /\ \E i \in DOMAIN Configs : conf = Configs[i]
    /\ disk = conf.start
    /\ templates = "good"
    /\ out = <<>>
    /\ cache = NoCache
    /\ svgs = {}
    /\ index = {}
    /\ changed = [paths |-> {}, full |-> TRUE]
    /\ job = NoJob
    /\ last = [build |-> "none", edits |-> 0, same |-> TRUE, moved |-> {}]

-----------------------------------------------------------------------------
(* Authors.                                                                  *)
Edit == last.edits < MaxEdits /\ last' = [last EXCEPT !.edits = @ + 1]

Save(p) ==
    /\ Edit /\ p \notin disk
    /\ disk' = {q \in disk : File(q) # File(p)} \cup {p}
    /\ changed' = [changed EXCEPT !.paths = @ \cup {Path(p)}]
    /\ UNCHANGED <<conf, templates, out, cache, svgs, index, job>>

Delete(p) ==
    /\ Edit
    /\ disk' = disk \ {p}
    /\ changed' = [changed EXCEPT !.paths = @ \cup {Path(p)}]
    /\ UNCHANGED <<conf, templates, out, cache, svgs, index, job>>

(* Anything but content asks for a full build.                               *)
EditTemplates ==
    /\ Edit
    /\ templates' = IF templates = "good" THEN "broken" ELSE "good"
    /\ changed' = [changed EXCEPT !.full = TRUE]
    /\ UNCHANGED <<conf, disk, out, cache, svgs, index, job>>

-----------------------------------------------------------------------------
Base == LanguageBase(conf, Head(job.todo))

(* Variant for the checks: the plugins work on the directory of the site.    *)
OutputDirOfSite == <<>>

(* What a language's build hands to its plugins.                             *)
OutputDir == Base

Under(base, f) == [q \in {base \o r : r \in DOMAIN f} |-> f[CHOOSE r \in DOMAIN f : base \o r = q]]
DirExists(f, d) == \E q \in DOMAIN f : Len(q) > Len(d) /\ IsPrefix(d, q)

(* The publish directory of a language, with all below it.                   *)
CleanPublishDir(f, base) == [q \in {r \in DOMAIN f : ~IsPrefix(base, r)} |-> f[q]]

NothingTaken == [paths |-> {}, full |-> FALSE]

Fail == job' = NoJob /\ last' = [last EXCEPT !.build = "failed"]

HasTemplateChanges == changed.full
NeedsFull == HasTemplateChanges \/ ~conf.daemon \/ cache.pages = {}

(* The plugins of a build; the daemon does not run without a registry, the   *)
(* command does, unless it has a theme to look for in it.                    *)
Registry == NewPluginRegistry(conf)
Started == ConfigLoads(conf) /\ (conf.daemon \/ conf.theme # "" => Registry.ok)

(* Variant for the checks: the directory is cleaned before content is read.  *)
StartFullCleaned ==
    /\ Idle /\ changed # NothingTaken /\ NeedsFull
    /\ changed' = NothingTaken
    /\ out' = CleanPublishDir(out, <<>>)
    /\ IF Started /\ Parses(disk) /\ ~TranslationsRefused(conf, disk)
       THEN /\ job' = [NoJob EXCEPT !.step = "full", !.todo = BuildOrder(conf), !.files = disk]
            /\ UNCHANGED last
       ELSE Fail
    /\ UNCHANGED <<conf, disk, templates, cache, svgs, index>>

(* Configuration and content are read, and nothing is written yet: content   *)
(* that does not parse, or in strict mode a stale translation, ends it here. *)
StartFull ==
    /\ Idle /\ changed # NothingTaken /\ NeedsFull
    /\ changed' = NothingTaken
    /\ IF Started /\ Parses(disk) /\ ~TranslationsRefused(conf, disk)
       THEN /\ job' = [NoJob EXCEPT !.step = "full", !.todo = BuildOrder(conf), !.files = disk]
            /\ UNCHANGED last
       ELSE Fail
    /\ UNCHANGED <<conf, disk, templates, out, cache, svgs, index>>

(* Variant for the checks: the directory is cleaned first.                   *)
RenderMarkdownCleaned(B) ==
    /\ job.step = "full" /\ ~BodiesRender(B) /\ Fail
    /\ out' = CleanPublishDir(out, Base)
    /\ UNCHANGED <<conf, disk, templates, cache, svgs, index, changed>>

(* Every template of theme and layouts parses, or none is there to use.      *)
LoadAll == templates = "good"

(* Markdown is rendered before the directory is cleaned, the templates are   *)
(* loaded after.                                                             *)
RenderMarkdown(B) ==
    /\ job.step = "full" /\ ~BodiesRender(B) /\ Fail
    /\ UNCHANGED <<conf, disk, templates, out, cache, svgs, index, changed>>

SetupTemplates(B) ==
    /\ job.step = "full" /\ BodiesRender(B) /\ ~LoadAll /\ Fail
    /\ out' = CleanPublishDir(out, Base)
    /\ UNCHANGED <<conf, disk, templates, cache, svgs, index, changed>>

APIFiles(f) == [s \in {q[2] : q \in {r \in DOMAIN f : Len(r) = 2 /\ r[1] = "api"}} |->
                   f[<<"api", s>>].list]
ReloadIndex(f) == IF conf.daemon THEN LoadFromDir(conf.api, APIFiles(f), index) ELSE index

(* Later stages write over earlier ones, and plugins come last.  The daemon, *)
(* which builds one language, keeps the pages and the writer.                *)
Unwritten(f) == {q \in DOMAIN f : f[q].as \in {"api", "llms"}}
Dirs(f) == {Front(q) : q \in DOMAIN f \ Unwritten(f)}

BuildLanguage(B) ==
    /\ job.step = "full" /\ BodiesRender(B) /\ LoadAll
    /\ \E pages \in Outcomes(PageWrites(B)) :
           LET written == StaticWrites(B) ++ FeedsAndSpecials(B) ++ pages
               result == Under(Base, written) ++ CleanPublishDir(out, Base)
               registry == Registry
               c == Plugin(registry, "diagram_renderer")
           IN /\ \E answers \in Render(c, result, OutputDir, svgs) :
                     /\ \E stored \in Put(Drawn(c, result, answers)) : svgs' = svgs \cup stored
                     /\ out' = OnOutputWritten(registry, result, OutputDir, svgs, answers)
              /\ IF conf.daemon
                 THEN /\ job' = NoJob
                      /\ last' = [last EXCEPT !.build = "full", !.same = TRUE, !.moved = {}]
                      /\ cache' = [pages |-> B.pages, dirs |-> Dirs(written)]
                      /\ index' = ReloadIndex(result)
                 ELSE /\ job' = IF Len(job.todo) > 1 THEN [job EXCEPT !.todo = Tail(@)]
                                ELSE [NoJob EXCEPT !.step = "images"]
                      /\ UNCHANGED <<cache, index, last>>
    /\ UNCHANGED <<conf, disk, templates, changed>>

(* The command ends with the image pipeline, over the whole site.  Without a *)
(* registry to look for it in, it ends in a panic.                           *)
RunImagePipeline ==
    LET c == Plugin(Registry, "image_pipeline") IN
    /\ job.step = "images"
    /\ IF ~Registry.ok \/ (c.on /\ AllFailed(c, out))
       THEN Fail /\ UNCHANGED out
       ELSE /\ out' = ImagePipeline(c, out)
            /\ job' = NoJob
            /\ last' = [last EXCEPT !.build = "full"]
    /\ UNCHANGED <<conf, disk, templates, cache, svgs, index, changed>>

-----------------------------------------------------------------------------
(* The daemon asks its graph which pages the changed files affect.           *)
StartIncremental ==
    LET affected == AffectedBy(cache.pages, changed.paths) IN
    /\ Idle /\ changed # NothingTaken /\ ~NeedsFull
    /\ changed' = NothingTaken
    /\ CASE affected = {} -> UNCHANGED <<job, last>>
         [] affected # {} /\ Parses(disk) ->
                /\ job' = [NoJob EXCEPT !.step = "incremental", !.files = disk, !.affected = affected]
                /\ UNCHANGED last
         [] OTHER -> Fail
    /\ UNCHANGED <<conf, disk, templates, out, cache, svgs, index>>

(* Pages are rendered one after another, those of section directories        *)
(* without a file last and a made-up home page first.                        *)
Affected(B) ==
    {p \in B.pages : URL(p) \in job.affected /\ ResolveTemplateName(B, p) # ""}

After(B, p, q) ==
    LET place(r) == IF r \in B.files THEN 1 ELSE IF Kind(r) = "home" THEN 0 ELSE 2
    IN place(p) > place(q) \/ (place(p) = place(q) /\ Rank[Path(p)] > Rank[Path(q)])

AffectedWrites(B) ==
    [q \in {HTML(URL(p)) : p \in Affected(B)} |->
        PageView(B, CHOOSE p \in Affected(B) :
            HTML(URL(p)) = q /\ \A r \in Affected(B) : r = p \/ HTML(URL(r)) # q \/ After(B, p, r))]

SiteWideWrites(B) ==
    AIOutputs(B) ++ SearchIndex(B) ++ Sitemap(B) ++ HomePagers(B) ++ TaxonomyWrites(B)

(* The writer does not make a directory again that it has made before.       *)
EnsureDir(q, view) ==
    CASE view.as = "api" -> TRUE
      [] view.as = "llms" -> DirExists(out, <<>>)
      [] OTHER -> Front(q) \in cache.dirs => DirExists(out, Front(q))

(* The graph is that of the last full build.  It tells every consequence of  *)
(* an edit as long as no file is new, sections and their cascades are as     *)
(* they were, and it has no leaf bundle, which names no section.             *)
Sections(pages) == {<<s.dir, s.cascade>> : s \in {p \in pages : Kind(p) = "section"}}
InGraph(B) ==
    /\ \A q \in cache.pages : q.base # "index"
    /\ \A p \in B.files : \E q \in cache.pages : Path(q) = Path(p)
    /\ Sections(B.pages) = Sections(cache.pages)

SameAddress(p) == URL(p) \in PagePathFromSource(cache.pages, Path(p))

IncrementalRender(B) ==
    /\ job.step = "incremental"
    /\ job' = NoJob
    /\ IF BodiesRender(B)
       THEN LET wanted == SiteWideWrites(B) ++ AffectedWrites(B)
                written == [q \in {r \in DOMAIN wanted : EnsureDir(r, wanted[r])} |-> wanted[q]]
            IN /\ out' = written ++ out
               /\ cache' = [cache EXCEPT !.dirs = @ \cup Dirs(written)]
               /\ index' = ReloadIndex(out')
               /\ last' = [last EXCEPT !.build = IF @ = "failed" THEN @ ELSE "incremental",
                                        !.same = @ /\ InGraph(B),
                                        !.moved = @ \cup {URL(p) : p \in {r \in B.pages : ~SameAddress(r)}}]
       ELSE /\ last' = [last EXCEPT !.build = "failed"]
            /\ UNCHANGED <<out, cache, index>>
    /\ UNCHANGED <<conf, disk, templates, svgs, changed>>

-----------------------------------------------------------------------------
Author == \/ \E p \in conf.versions : Save(p)
          \/ \E p \in disk : Delete(p)
          \/ EditTemplates

InFull == /\ job.step = "full"
          /\ LET B == Load(conf, Head(job.todo), job.files)
             IN RenderMarkdown(B) \/ SetupTemplates(B) \/ BuildLanguage(B)

Build == StartFull \/ InFull \/ RunImagePipeline \/ StartIncremental
         \/ (job.step = "incremental" /\ IncrementalRender(Load(conf, "", job.files)))

Next == Author \/ Build

Spec == Init /\ [][Next]_vars /\ WF_vars(Build)
-----------------------------------------------------------------------------
(* What a visitor may rely on, once every change has been built.             *)
Settled == Idle /\ changed = NothingTaken
Current == Load(conf, "", disk)
Renderable(p) == ShouldRender(conf, p)
Daemon == conf.daemon /\ cache.pages # {}

(* A new file is in no graph: it is not rendered, and once it is deleted     *)
(* the files that list it stay as they are.                                  *)
SameShape == last.same /\ InGraph(Current)

(* What is shown at an address two pages meet at depends on which of them     *)
(* was written last, and stays when that one leaves; and what is copied or   *)
(* made from the whole site has its own places.                              *)
OwnFile(B, p) ==
    /\ \A r \in B.pages : URL(r) = URL(p) => r = p
    /\ URL(p) \notin last.moved
    /\ HTML(URL(p)) \notin DOMAIN StaticWrites(B)
    /\ URL(p) # <<>> => URL(p)[1] \notin {"tags", "categories", "page", "api"}

Plain(view) == [view EXCEPT !.extra = Untouched]

(* What incremental builds have left is, plugins apart and within that shape, what a full      *)
(* build would write now: every file made from the whole site, and every     *)
(* page at the address it had.                                               *)
IncrementalFresh ==
    Settled /\ Daemon /\ last.build = "incremental" /\ SameShape =>
        LET sites == SiteWideWrites(Current)
        IN /\ \A q \in DOMAIN sites \ DOMAIN StaticWrites(Current) :
                  q \in DOMAIN out /\ Plain(out[q]) = Plain(sites[q])
           /\ \A p \in Rendered(Current) : SameAddress(p) /\ OwnFile(Current, p) =>
                  HTML(URL(p)) \in DOMAIN out /\ Plain(out[HTML(URL(p))]) = Plain(PageView(Current, p))

(* The file the web server gives for an address: that file, the index of     *)
(* that directory, else the page for what is not there, if there is one.     *)
PathResolvesToFile(f, u) == u \in DOMAIN f \/ HTML(u) \in DOMAIN f

ServeNotFound(f) == IF <<"404.html">> \in DOMAIN f THEN <<"404.html">> ELSE <<>>

Visit(f, u) ==
    IF ~PathResolvesToFile(f, u) THEN ServeNotFound(f) ELSE IF u \in DOMAIN f THEN u ELSE HTML(u)

(* A page that a published file lists can be opened, in the same language,   *)
(* unless it waits for its day or is not to be rendered; the daemon renders  *)
(* a file at the address its graph has for it.                               *)
ListedPagesOpen ==
        \A q \in DOMAIN out : \A p \in ElementsOf(out[q].list) :
            Renderable(p) /\ p \in disk /\ (Daemon => SameAddress(p)) =>
                LET page == Visit(out, LanguageBase(conf, out[q].lang) \o URL(p))
                IN page \in DOMAIN out /\ out[page].as = "html" /\ out[page].lang = out[q].lang
                   /\ URL(out[page].own[1]) = URL(p)

(* An image of a page that the writer has not made absolute leads to the     *)
(* picture it did, or to variants made of it, unless a picture beside it     *)
(* differs in the extension only, or has the name of a variant itself.       *)
MadeOf(file, shown) ==
    file = shown \/ (out[file].as = "variant" /\ out[file].extra.picture[1].of = shown)

OnlyOfItsName(shown) ==
    \A q \in Scan(out) \ {shown} :
        Front(q) = Front(shown) => out[q].extra.picture[1].base # out[shown].extra.picture[1].base

ImagesOpen ==
    \A q \in DOMAIN out : \A img \in out[q].extra.imgs :
        LET shown == LanguageBase(conf, out[q].lang) \o conf.shows[out[q].own[1].body] IN
        ~img.absolute /\ shown \in Scan(out) /\ OnlyOfItsName(shown) =>
            \A file \in {img.src} \cup img.srcset : file \in DOMAIN out /\ MadeOf(file, shown)

(* Nothing a published page refers to is missing or is something else.       *)
ListsResolve ==
    Settled /\ last.build \in {"full", "incremental"} => ListedPagesOpen /\ ImagesOpen

(* Following "next" from a home page, cut by one piece of code, through the  *)
(* files page/N/, cut by another, meets every page of the main sections      *)
(* once and in order.                                                        *)
WalkFrom(base, home) ==
    LET file(k) == base \o (IF k = 1 THEN HTML(<<>>) ELSE Pager(k))
        bound == Cardinality(DOMAIN out)
        from[k \in 1..bound + 1] ==
            IF file(k) \notin DOMAIN out THEN <<"broken">>
            ELSE out[file(k)].list \o (IF out[file(k)].next THEN from[k + 1] ELSE <<>>)
    IN from[1]

PagersCoverMain ==
    Settled /\ last.build \in {"full", "incremental"} /\ (Daemon => SameShape) =>
        \A c \in Codes(conf) \cup {DefaultLanguageCode(conf)} :
            LET B == Load(conf, c, disk) IN
            Renderable(Home(B.tree)) => WalkFrom(LanguageBase(conf, c), Home(B.tree)) = MainItems(B)

(* A full build shows no draft anywhere: not as a page, not in a list, a     *)
(* feed, a term, the search index or the content API.                        *)
DraftsHidden ==
    last.build = "full" /\ Idle /\ ~conf.drafts =>
        \A q \in DOMAIN out : \A p \in ElementsOf(out[q].own \o out[q].list) :
            Kind(p) = "page" => ~p.draft

(* No language's build wipes what another has written, nor lets the plugins  *)
(* work on it again: after a full build each file has been worked on once.   *)
LanguagesKept ==
    Idle /\ last.build = "full" =>
        /\ \A c \in Codes(conf) : LET home == LanguageBase(conf, c) \o <<"sitemap.xml">>
                                 IN home \in DOMAIN out /\ out[home].lang = c
        /\ LET c == Plugin(Registry, "html_injector") IN
           c.on /\ c.include \cup c.exclude = {} =>
               \A q \in CollectHTMLFiles(out, <<>>) : out[q].extra.snippets = 1

(* A link to a translation leads to a page, unless that language leaves the  *)
(* section out, or the translation is not to be rendered or has another      *)
(* slug.                                                                     *)
LeavesOut(c, p) ==
    LET lang == conf.langs[c] IN
    c # DefaultLanguageCode(conf) /\ TopSection(p) \in lang.exclude \cup lang.catalog

TranslationsExist ==
    Idle /\ last.build = "full" /\ changed = NothingTaken =>
        \A q \in DOMAIN out : \A l \in out[q].links :
            \/ PathResolvesToFile(out, l.url)
            \/ \E p \in ElementsOf(out[q].own \o out[q].list) :
                  /\ l.url = LanguageBase(conf, l.lang) \o URL(p)
                  /\ \/ LeavesOut(l.lang, p)
                     \/ \E r \in disk : Path(r) = Path(p) /\ (~Renderable(r) \/ r.slug # p.slug)
                     \/ \A r \in disk : Path(r) # Path(p)

(* What is wrong with content when a build gives up: before it has begun, a  *)
(* file that does not parse or a stale translation in strict mode; in a site *)
(* of one language, a text that cannot be rendered.                          *)
ContentAtFault ==
    IF Idle THEN ~Parses(disk) \/ TranslationsRefused(conf, disk)
    ELSE ~IsMultiLanguage(conf) /\ ~BodiesRender(Load(conf, "", job.files))

(* Content at fault leaves the site as it was, full build or incremental; and*)
(* a drawing service that no longer answers does not take away the diagrams  *)
(* it has drawn before, as far as they could be stored.                      *)
ContentErrorKeepsSite == last'.build = "failed" /\ ContentAtFault => out' = out

DiagramsKept ==
    LET c == Plugin(Registry, "diagram_renderer") IN
    job.step = "full" /\ out' # out /\ last'.build # "failed" /\ c.on =>
        \A q \in CollectHTMLFiles(out', OutputDir) :
            LET diagram == out'[q].extra.diagram IN
            KindAllowed(c, GuessKind(Below(q, OutputDir))) /\ diagram[1] # "none" /\ Key(diagram) \in svgs
                => diagram[1] = "svg"

FailuresContained == [][ContentErrorKeepsSite /\ DiagramsKept]_vars

(* Asked page by page for a section, as far as its total goes, the query     *)
(* index of the daemon gives each of the section's published pages once,     *)
(* newest first, unless a copied file stands for the section's.              *)
Asked(section, limit) ==
    LET answer(n) == ServeHTTP(index, [path |-> <<"pages">>,
                              params |-> [section |-> section, page |-> n, limit |-> limit]])
        pages == TotalPages(answer(1).total, limit)
        upTo[n \in 0..pages] == IF n = 0 THEN <<>> ELSE upTo[n - 1] \o answer(n).data
    IN upTo[pages]

ListAnswered(files, q) ==
    q[2] # "" /\ Len(files[q].list) <= MaxPage =>
        \A limit \in 1..50 :
            LET items == Asked(q[2], limit)
            IN [i \in DOMAIN items |-> items[i].page] = files[q].list

QueriesComplete ==
    Settled /\ Daemon /\ conf.api /\ last.build \in {"full", "incremental"} /\ SameShape =>
        \A q \in DOMAIN ContentAPI(Current) \ DOMAIN StaticWrites(Current) :
            ListAnswered(ContentAPI(Current), q)

(* README.md: drafts are part of the output only when asked for.             *)
DraftsStayOut ==
    Settled /\ ~conf.drafts => \A q \in DOMAIN out : \A p \in ElementsOf(out[q].own) :
        Kind(p) = "page" => ~p.draft
=============================================================================
