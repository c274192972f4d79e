---------------------------- MODULE SiteLanguages ---------------------------
(***************************************************************************)
(* Sites in several languages (config/languages.go, build/multisite.go,     *)
(* build/inputs.go, build/i18n_strict.go): which language is the default,   *)
(* in which order the languages are built and into which directories, which *)
(* pages belong to which build, and which translations a page links to.     *)
(*                                                                          *)
(* conf.langs maps a language code to its entry in huan.yaml; base is the   *)
(* directory its baseURL names, <<>> for the root.  The file of a           *)
(* translation (a sidecar, posts/foo.en.md) has the path of its source, the *)
(* language it is in and, in hash, the digest of the source it was made     *)
(* from.                                                                    *)
(***************************************************************************)
EXTENDS SiteLists

CONSTANT CodeRank      \* alphabetical order of the language codes

Codes(conf) == DOMAIN conf.langs
IsMultiLanguage(conf) == Codes(conf) # {}

SortedLanguages(conf) ==
    LET less(a, b) == \/ conf.langs[a].weight < conf.langs[b].weight
                      \/ conf.langs[a].weight = conf.langs[b].weight /\ CodeRank[a] < CodeRank[b]
    IN InOrder(Codes(conf), less)

DefaultLanguageCode(conf) ==
    IF ~IsMultiLanguage(conf) THEN ""
    ELSE IF conf.default \in Codes(conf) THEN conf.default
    ELSE SortedLanguages(conf)[1]

(* Each build empties the directory it writes to and the default language    *)
(* writes to the root, so it goes first; the others keep their order.        *)
BuildOrder(conf) ==
    LET def == DefaultLanguageCode(conf)
        sorted == SortedLanguages(conf)
    IN IF ~IsMultiLanguage(conf) THEN <<"">>
       ELSE <<def>> \o Picked(sorted, {k \in DOMAIN sorted : sorted[k] # def})

LanguageBase(conf, code) == IF code \in Codes(conf) THEN conf.langs[code].base ELSE <<>>

TopSection(p) == IF p.dir = <<>> THEN "" ELSE p.dir[1]

(* The page filter of one language's build.                                  *)
InLanguage(conf, code, p) ==
    LET def == DefaultLanguageCode(conf)
        top == TopSection(p)
        isIndex == p.base = "_index"
    IN CASE ~IsMultiLanguage(conf) -> TRUE
         [] code = def -> p.lang \in {"", code}
         [] code # def /\ top \in conf.langs[code].exclude -> FALSE
         [] code # def /\ top \in conf.langs[code].catalog \ conf.langs[code].exclude ->
                isIndex /\ p.lang = code
         [] code # def /\ top \in conf.langs[code].neutral
                           \ (conf.langs[code].exclude \cup conf.langs[code].catalog) ->
                IF isIndex THEN p.lang = code ELSE p.lang \in {"", def}
         [] OTHER -> p.lang = code

(* The languages in which some file of that path exists.                     *)
Available(conf, F) ==
    [path \in {Path(p) : p \in F} |->
        {IF p.lang = "" THEN DefaultLanguageCode(conf) ELSE p.lang : p \in {q \in F : Path(q) = path}}]

(* Variant for the checks: every language is taken to have every page.       *)
LinksToAll(conf, available, p) ==
    {[lang |-> c, url |-> LanguageBase(conf, c) \o URL(p)] : c \in Codes(conf)}

(* What hreflang and the language switcher link to: the page's own URL under *)
(* each language it is available in; a page without a file, in all.          *)
TranslationLinks(conf, available, p) ==
    {[lang |-> c, url |-> LanguageBase(conf, c) \o URL(p)] :
        c \in {d \in Codes(conf) : Path(p) \in DOMAIN available => d \in available[Path(p)]}}

-----------------------------------------------------------------------------
(* Translations whose source has changed since, or that do not say which     *)
(* version they translate.  Sources without a text are never compared.       *)
Digest(p) == <<p.title, p.body, p.date, p.weight, p.draft, p.list, p.slug>>

MarkdownBodyIsEmpty(p) == p.body = 0
HasSourceHash(s) == s.hash # <<>>

(* The files with a language in their name that have a source to compare to. *)
Sidecars(F) ==
    {s \in F : s.lang # "" /\ \E q \in F : Path(q) = Path(s) /\ q.lang = "" /\ ~MarkdownBodyIsEmpty(q)}

SourceOf(F, s) == CHOOSE q \in F : Path(q) = Path(s) /\ q.lang = ""

RecordStale(F, s) == HasSourceHash(s) /\ s.hash # Digest(SourceOf(F, s))

StaleReport(F) ==
    [missing |-> {s \in Sidecars(F) : ~HasSourceHash(s)},
     stale   |-> {s \in Sidecars(F) : RecordStale(F, s)}]

(* In strict mode, the one of continuous integration, either fails a build.  *)
TranslationsRefused(conf, F) ==
    /\ IsMultiLanguage(conf) /\ conf.strict
    /\ StaleReport(F).missing \cup StaleReport(F).stale # {}
=============================================================================
