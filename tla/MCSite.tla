-------------------------------- MODULE MCSite ------------------------------
(***************************************************************************)
(* Small sites for TLC: a blog the daemon serves, with a section that has   *)
(* no _index.md, a section inside it, a draft and two files that may come   *)
(* to share an address; the same content in two languages, one of which     *)
(* leaves a section out and shares another; that site built in strict mode; *)
(* a site with pictures; and two with settings the command stumbles over.   *)
(***************************************************************************)
EXTENDS SiteBuild

Page(dir, base, date) == [Synthetic(dir) EXCEPT !.base = base, !.date = date, !.title = date, !.body = 1]
Go == [key |-> "go", form |-> "Go"]
Lower == [key |-> "go", form |-> "go"]
CSS == [key |-> "css", form |-> "css"]

A == [Page(<<"posts">>, "a", 3) EXCEPT !.tags = <<Go>>]
B == [Page(<<"posts">>, "b", 2) EXCEPT !.tags = <<Lower, CSS>>, !.draft = TRUE]
Inner == Page(<<"posts", "old">>, "_index", 0)
C == [Page(<<"posts", "old">>, "c", 1) EXCEPT !.weight = 1]
About == Page(<<>>, "about", 0)

MCRank == LET order == << <<<<>>, "_index">>, <<<<>>, "about">>, <<<<"books">>, "_index">>,
                          <<<<"books">>, "x">>, <<<<"posts">>, "_index">>, <<<<"posts">>, "a">>,
                          <<<<"posts">>, "b">>, <<<<"posts">>, "d">>, <<<<"posts", "old">>, "_index">>,
                          <<<<"posts", "old">>, "c">> >>
          IN [q \in {order[i] : i \in DOMAIN order} |-> CHOOSE i \in DOMAIN order : order[i] = q]
MCTermRank == [css |-> 1, go |-> 2]
MCCodeRank == [en |-> 1, zh |-> 2]

MCTemplates == {<<"_default", "single">>, <<"_default", "list">>}

Str(s) == [is |-> "string", val |-> s]
Num(n) == [is |-> "int", val |-> n]
List(s) == [is |-> "list", val |-> s]
Ref(name, default) == [is |-> "ref", val |-> [name |-> name, default |-> default]]
Static(config) == [category |-> "static", config |-> config]

Plugins == [html_injector |-> Static([head |-> List(<<Ref("SCRIPT", {})>>)]),
            sitemap_enhancer |-> Static([defaultPriority |-> [is |-> "map", val |-> [page |-> Num(9)]]]),
            dark |-> Static(<<>>)]

Blog == [langs |-> <<>>, default |-> "", strict |-> FALSE, daemon |-> TRUE, drafts |-> FALSE,
         future |-> FALSE, expired |-> FALSE, main |-> {"posts"}, size |-> 1, layouts |-> MCTemplates, themeLayouts |-> {},
         termRank |-> MCTermRank,
         env |-> <<>>, dotenv |-> <<[key |-> "SCRIPT", value |-> "x"]>>, plugins |-> Plugins,
         home |-> <<DOMAIN Plugins \cup {"seo_injector"}>>,
         dir |-> {"seo_injector", "diagram_renderer", "image_pipeline"},
         unsound |-> {<<1, "seo_injector">>}, scans |-> TRUE, themes |-> {"dark"}, theme |-> "dark",
         themeTemplates |-> {<<"posts", "single">>}, themeAssets |-> {<<"font.css">>},
         themeStatic |-> {<<"style.css">>}, static |-> {<<"icon.png">>},
         diagrams |-> <<>>, shows |-> <<>>, pictures |-> <<>>,
         start |-> {A, B, Inner, C, About},
         versions |-> {[A EXCEPT !.draft = TRUE], [A EXCEPT !.slug = "b", !.body = 2],
                       [B EXCEPT !.draft = FALSE], [C EXCEPT !.when = "future", !.list = "never"],
                       [C EXCEPT !.body = 9], [A EXCEPT !.body = 8], [A EXCEPT !.date = 1, !.tags = <<CSS>>],
                       [About EXCEPT !.body = 2], Page(<<"posts">>, "d", 4),
                       [Page(<<"posts">>, "_index", 0) EXCEPT !.cascade = "never"],
                       [Inner EXCEPT !.render = "never", !.weight = 1]}] @@ Defaults

En(p) == [p EXCEPT !.lang = "en", !.hash = Digest(p)]
X == Page(<<"books">>, "x", 2)
Bilingual ==
    [Blog EXCEPT
        !.daemon = FALSE, !.default = "zh",
        !.langs = [zh |-> [weight |-> 2, base |-> <<>>, exclude |-> {}, catalog |-> {}, neutral |-> {},
                           staticExclude |-> {"en"}, staticRoot |-> ""],
                   en |-> [weight |-> 1, base |-> <<"en">>, exclude |-> {"books"}, catalog |-> {},
                           neutral |-> {}, staticExclude |-> {}, staticRoot |-> "en"]],
        !.plugins = @ @@ [seo_injector |-> Static([injectOG |-> [is |-> "bool", val |-> FALSE]]),
                          diagram_renderer |-> Static([enabled |-> [is |-> "bool", val |-> TRUE]])],
        !.diagrams = 2 :> "mermaid",
        !.static = {<<"icon.png">>, <<"en", "llms.txt">>},
        !.start = {A, En(A), B, X, [About EXCEPT !.body = 2]},
        !.versions = {En(X), [A EXCEPT !.body = 2], [En(A) EXCEPT !.body = 9], [En(A) EXCEPT !.draft = TRUE],
                      En(About), [A EXCEPT !.slug = "z"]}]

Shared == [Bilingual EXCEPT !.langs.en.exclude = {}, !.langs.en.neutral = {"books"},
                            !.langs.en.catalog = {"posts"}, !.strict = TRUE,
                            !.sitemap = [priority |-> 0, changefreq |-> ""]]

(* Of the pictures, two share a name, one is no picture at all beyond its    *)
(* header, and one has the name of a variant.                                *)
Picture(base, rank, width) == [base |-> base, rank |-> rank, width |-> width, height |-> 20,
                               header |-> TRUE, decodes |-> TRUE, variant |-> FALSE]
Pictures == <<"img", "a.jpg">> :> Picture("a", 1, 40) @@ <<"img", "a.png">> :> Picture("a", 2, 40)
            @@ <<"img", "b.jpg">> :> Picture("b", 1, 80)
            @@ <<"img", "c.jpg">> :> [Picture("c", 1, 20) EXCEPT !.decodes = FALSE]
            @@ <<"img", "b-20w.jpg">> :> [Picture("b-20w", 1, 20) EXCEPT !.variant = TRUE]
Gallery ==
    [Blog EXCEPT !.daemon = FALSE, !.minify = FALSE, !.baseURL = FALSE, !.theme = "",
        !.plugins = @ @@ [image_pipeline |-> Static([sizes |-> List(<<Num(20), Num(30), Num(60)>>),
                                                     max_dimension |-> Num(32)])],
        !.static = DOMAIN Pictures, !.pictures = Pictures,
        !.shows = 1 :> <<"img", "b.jpg">> @@ 2 :> <<"img", "c.jpg">> @@ 3 :> <<"img", "a.jpg">>,
        !.start = {A, About}, !.versions = {[A EXCEPT !.body = 2], [About EXCEPT !.body = 3]}]

(* A number with a fraction where the schema has an integer.                 *)
Misfit == [Gallery EXCEPT !.versions = {},
              !.plugins = @ @@ [diagram_renderer |-> Static([timeoutMs |-> [is |-> "float", val |-> 15]])]]

(* A reference to what neither the environment nor .env has.                 *)
Unresolved == [Gallery EXCEPT !.versions = {}, !.dotenv = <<>>]

MCConfigs == <<Blog, Bilingual, Shared, Gallery, Misfit, Unresolved>>
=============================================================================
