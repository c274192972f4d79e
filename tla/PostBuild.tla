------------------------------ MODULE PostBuild -----------------------------
(***************************************************************************)
(* The plugins that rework the output directory once a full build has       *)
(* written it: those of one language's build (pipeline.go:                   *)
(* runOnOutputWritten; plugins/html-injector, seo-injector,                  *)
(* diagram-renderer, sitemap-enhancer), and the image pipeline the command   *)
(* runs over the whole site at its end (plugins/image-pipeline).  Each walks *)
(* all of the directory it is given and writes files in place, so that what  *)
(* it does to a file it meets twice matters.  What they leave in a file is   *)
(* the field extra of its view; a diagram is known by its language and the   *)
(* text it stands in.                                                        *)
(***************************************************************************)
EXTENDS SitePages

CollectHTMLFiles(f, dir) ==
    {q \in DOMAIN f : IsPrefix(dir, q) /\ Last(q) \in {"index.html", "404.html"}}

(* The kind a plugin takes a file for: nearly all of them are "section", the *)
(* pages of a site and the pagers of its root too.                           *)
GuessKind(q) ==
    IF q = <<"index.html">> THEN "home"
    ELSE IF Len(q) > 1 /\ Last(q) = "index.html" /\ "page" \notin {q[i] : i \in 2..Len(q) - 1}
    THEN "section" ELSE "page"

KindAllowed(c, kind) == (c.include # {} => kind \in c.include) /\ kind \notin c.exclude

-----------------------------------------------------------------------------
(* The fragment goes in front of </head>, whether it stands there or not.    *)
InjectHTML(c, kind, extra) ==
    IF c.on /\ KindAllowed(c, kind) THEN [extra EXCEPT !.snippets = @ + 1] ELSE extra

(* Switching the Open Graph or the Twitter tags off has no effect.           *)
SetDefaults(c) == [c EXCEPT !.og = TRUE, !.twitter = TRUE]

ExistingTags(extra) == {t[1] : t \in extra.meta}

(* Only tags that are missing are added; the URL is the path below the       *)
(* directory of the language.                                                *)
InjectMeta(c, q, extra) ==
    LET o == SetDefaults(c)
        wanted == {<<"description", <<>> >>}
                  \cup (IF o.og THEN {<<"og:url", q>>} ELSE {})
                  \cup (IF o.twitter THEN {<<"twitter:card", <<>> >>} ELSE {})
        missing == {t \in wanted : t[1] \notin ExistingTags(extra)}
    IN IF c.on THEN [extra EXCEPT !.meta = @ \cup missing] ELSE extra

-----------------------------------------------------------------------------
(* Diagrams: from the cache on disk, else drawn by a service that may not    *)
(* answer, else left to the browser or as they are.  answered tells whether  *)
(* the service did for this file: a picture another file has got before is   *)
(* no sure hit, for it may have failed to be stored.                         *)
Key(diagram) == <<diagram[2], diagram[3]>>

FindDiagramBlocks(c, extra) ==
    IF extra.diagram[1] = "code" /\ extra.diagram[2] \in c.languages THEN {Key(extra.diagram)} ELSE {}

(* A browser can draw Mermaid, and nothing else.                             *)
FallbackReplacement(c, lang) ==
    IF c.fallback = "client" /\ lang = "mermaid" THEN "client" ELSE "code"

RenderBlock(c, svgs, answered, diagram) ==
    [diagram EXCEPT ![1] = IF answered \/ Key(diagram) \in svgs THEN "svg"
                           ELSE FallbackReplacement(c, diagram[2])]

RenderDiagrams(c, kind, svgs, answered, extra) ==
    IF c.on /\ KindAllowed(c, kind) /\ FindDiagramBlocks(c, extra) # {}
    THEN [extra EXCEPT !.diagram = RenderBlock(c, svgs, answered, @)] ELSE extra

(* The files for which the service is asked, and what it then has drawn.     *)
Below(q, dir) == SubSeq(q, Len(dir) + 1, Len(q))

Asking(c, f, dir, svgs) ==
    {q \in CollectHTMLFiles(f, dir) :
        c.on /\ KindAllowed(c, GuessKind(Below(q, dir)))
             /\ FindDiagramBlocks(c, f[q].extra) \ svgs # {}}

(* Any of them may be answered, or none.                                     *)
Render(c, f, dir, svgs) == SUBSET Asking(c, f, dir, svgs)

Drawn(c, f, answers) == UNION {FindDiagramBlocks(c, f[q].extra) : q \in answers}

(* What of it gets into the cache: a drawing that cannot be stored is shown  *)
(* all the same, and the failure is only logged.                             *)
Put(drawn) == SUBSET drawn

-----------------------------------------------------------------------------
(* The priority of an entry comes with the kind its address looks like: the  *)
(* home page of a language in a directory looks like a section.              *)
GuessKindFromURL(u) ==
    CASE u = <<>> -> "home"
      [] u # <<>> /\ u[1] \in {"tags", "categories"} -> IF Len(u) = 1 THEN "taxonomy" ELSE "term"
      [] OTHER -> IF Len(u) = 1 /\ u[1] # "page" THEN "section" ELSE "page"

(* A priority of 0 and a frequency that is not given count as missing.  If   *)
(* anything is, the file is written anew, without the links to translations. *)
EnhanceSitemap(c, dir, view) ==
    LET kind(i) == GuessKindFromURL(dir \o URL(view.list[i]))
        entry(i) == view.extra.ranked[i]
        priorityMissing(i) == entry(i).priority = 0 /\ kind(i) \in DOMAIN c.priority
        frequencyMissing(i) == entry(i).changefreq = "" /\ kind(i) \in DOMAIN c.changefreq
        filled(i) ==
            [priority |-> IF priorityMissing(i) THEN c.priority[kind(i)] ELSE entry(i).priority,
             changefreq |-> IF frequencyMissing(i) THEN c.changefreq[kind(i)] ELSE entry(i).changefreq]
    IN IF c.on /\ \E i \in DOMAIN view.list : priorityMissing(i) \/ frequencyMissing(i)
       THEN [view EXCEPT !.extra.ranked = [i \in DOMAIN view.list |-> filled(i)], !.links = {}]
       ELSE view

ProcessFile(registry, svgs, answered, q, extra) ==
    LET kind == GuessKind(q)
    IN InjectMeta(Plugin(registry, "seo_injector"), q,
           InjectHTML(Plugin(registry, "html_injector"), kind,
               RenderDiagrams(Plugin(registry, "diagram_renderer"), kind, svgs, answered, extra)))

(* Each plugin in turn; they touch different things.                         *)
OnOutputWritten(registry, f, dir, svgs, answers) ==
    [q \in DOMAIN f |->
        IF q \in CollectHTMLFiles(f, dir)
        THEN [f[q] EXCEPT !.extra = ProcessFile(registry, svgs, q \in answers, Below(q, dir), @)]
        ELSE IF q = dir \o <<"sitemap.xml">>
        THEN EnhanceSitemap(Plugin(registry, "sitemap_enhancer"), dir, f[q]) ELSE f[q]]

-----------------------------------------------------------------------------
(* The image pipeline.  A picture is a record [base, rank, width, height,     *)
(* header, decodes, variant]: its file name without the extension, the place *)
(* of the extension in the alphabet, whether its header and the whole of it  *)
(* can be read, and whether it has the name of a variant.                    *)
Scan(f) ==
    {q \in DOMAIN f : /\ f[q].as = "static" /\ f[q].extra.picture # <<>>
                      /\ f[q].extra.picture[1].header /\ ~f[q].extra.picture[1].variant}

(* The width a picture has once it fits.                                     *)
ScaleToFit(c, pic) ==
    IF c.maxDimension = 0 \/ (pic.width <= c.maxDimension /\ pic.height <= c.maxDimension)
    THEN pic.width
    ELSE IF pic.width > pic.height THEN c.maxDimension
    ELSE (pic.width * c.maxDimension) \div pic.height

Sizes(c, pic) ==
    LET width == ScaleToFit(c, pic)
    IN {s \in IF c.sizes = {} THEN {width} ELSE c.sizes : c.skipLarger => s <= width}

VariantName(pic, width) == pic.base \o "-" \o ToString(width) \o "w.jpg"

VariantFilename(q, pic, width) == Append(Front(q), VariantName(pic, width))

(* The variants made of each original that decodes: JPEG, whatever the       *)
(* formats asked for.  If none does, the plugin fails.                       *)
ProcessAssets(c, f) ==
    [q \in {r \in Scan(f) : f[r].extra.picture[1].decodes} |->
        LET pic == f[q].extra.picture[1]
        IN {[path |-> VariantFilename(q, pic, s), width |-> s] : s \in Sizes(c, pic)}]

AllFailed(c, f) == Scan(f) # {} /\ DOMAIN ProcessAssets(c, f) = {}

(* Of two originals whose names differ in the extension, the later makes the *)
(* variants of both.                                                         *)
VariantFiles(f, results) ==
    LET variants == UNION {results[q] : q \in DOMAIN results}
        makers(path) == {q \in DOMAIN results : \E v \in results[q] : v.path = path}
        later(q, r) == f[q].extra.picture[1].rank >= f[r].extra.picture[1].rank
        maker(path) == CHOOSE q \in makers(path) : \A r \in makers(path) : later(q, r)
    IN [path \in {v.path : v \in variants} |->
           [f[maker(path)] EXCEPT !.as = "variant", !.extra.picture = <<[of |-> maker(path)]>>]]

(* What an image is replaced by: the widest variant, and the others beside.  *)
(* Only a quoted address from the root is found.                             *)
InjectImage(c, results, img) ==
    LET variants == results[img.src]
        widest == CHOOSE v \in variants : \A u \in variants : u.width <= v.width
    IN IF img.quoted /\ ~img.absolute /\ img.src \in DOMAIN results /\ img.srcset = {}
       THEN [img EXCEPT !.src = IF variants = {} THEN @ ELSE widest.path,
                        !.srcset = IF c.srcset THEN {v.path : v \in variants} ELSE {}]
       ELSE img

InjectHTMLFiles(c, results, f) ==
    IF c.srcset \/ c.picture
    THEN [q \in DOMAIN f |-> [f[q] EXCEPT !.extra.imgs = {InjectImage(c, results, img) : img \in @}]]
    ELSE f

ImagePipeline(c, f) ==
    LET results == ProcessAssets(c, f)
    IN IF c.on THEN InjectHTMLFiles(c, results, VariantFiles(f, results) ++ f) ELSE f
=============================================================================
