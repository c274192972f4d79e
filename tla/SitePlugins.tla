----------------------------- MODULE SitePlugins ----------------------------
(***************************************************************************)
(* Which plugins a command runs, and with which settings: huan.yaml         *)
(* declares them, with references to the environment and to .env in it       *)
(* (internal/config); the .so files of two directories hold them; each        *)
(* parses its own settings when it is loaded (ParseConfig of every plugin);  *)
(* and the host checks the same settings against the schema some of them     *)
(* give (internal/plugin/loader.go, validate.go, cmd/huan/plugins.go).       *)
(*                                                                          *)
(* A value of huan.yaml is a record [is, val]: is names its type, "float" a  *)
(* number with a fraction.  The val of a "list" is a sequence of values,     *)
(* that of a "map" a function to values, and that of a "ref", a text that    *)
(* refers to the environment, is [name, default], where default is a set of  *)
(* at most one text.  Scalars that yaml.v3 turns into one another are of     *)
(* the type they are read as.                                               *)
(*                                                                          *)
(* conf.plugins is the plugins: section, conf.env the environment of the     *)
(* command, conf.dotenv the lines of .env that are not blank; conf.home the  *)
(* plugin directory of the machine, if it has one, and conf.dir that of the  *)
(* project, each a set of names that have a file, conf.unsound the files     *)
(* among them that Go cannot open, conf.scans whether the directories can be *)
(* read, and conf.themes the plugins that are themes.                        *)
(***************************************************************************)
EXTENDS Naturals, Sequences, FiniteSets, TLC

(* What huan.yaml need not give, so far as the model looks at it.            *)
Defaults == [baseURL |-> TRUE, size |-> 10, minify |-> TRUE, mirror |-> TRUE, api |-> TRUE,
             llms |-> TRUE, sitemap |-> [priority |-> 5, changefreq |-> "weekly"]]

(* A line of .env without "=" or with another key than an upper case one.    *)
BadLine == [key |-> "", value |-> ""]

LoadDotEnv(conf) == \A i \in DOMAIN conf.dotenv : conf.dotenv[i] # BadLine

(* What is set already stays: the environment wins over .env, and in .env    *)
(* the first line for a key.                                                 *)
Environment(conf) ==
    LET lines == conf.dotenv
        set(k) == {i \in DOMAIN lines : lines[i].key = k}
        first(k) == CHOOSE i \in set(k) : \A j \in set(k) : i <= j
    IN conf.env @@ [k \in {lines[i].key : i \in DOMAIN lines} |-> lines[first(k)].value]

(* A setting, or a part of one that is a map or a list.                      *)
Resolves(env, v) ==
    LET found(part) == part.is = "ref" => part.val.name \in DOMAIN env \/ part.val.default # {}
    IN IF v.is \in {"list", "map"} THEN \A k \in DOMAIN v.val : found(v.val[k]) ELSE found(v)

(* Whatever it stands for, a reference becomes a text.                       *)
InterpolateString(env, v) ==
    CASE v.is # "ref" -> v
      [] v.is = "ref" /\ v.val.name \in DOMAIN env -> [is |-> "string", val |-> env[v.val.name]]
      [] OTHER -> [is |-> "string", val |-> CHOOSE text \in v.val.default : TRUE]

Interpolate(env, v) ==
    IF v.is \in {"list", "map"}
    THEN [v EXCEPT !.val = [k \in DOMAIN @ |-> InterpolateString(env, @[k])]]
    ELSE InterpolateString(env, v)

(* A reference to nothing anywhere in huan.yaml fails the command.           *)
ConfigLoads(conf) ==
    /\ LoadDotEnv(conf)
    /\ \A n \in DOMAIN conf.plugins : \A k \in DOMAIN conf.plugins[n].config :
           Resolves(Environment(conf), conf.plugins[n].config[k])

RawConfig(conf, name) ==
    LET given == conf.plugins[name].config
    IN [k \in DOMAIN given |-> Interpolate(Environment(conf), given[k])]

-----------------------------------------------------------------------------
Given(raw, key, default) == IF key \in DOMAIN raw THEN raw[key].val ELSE default

ToStringSlice(v) == v.is = "list" /\ \A i \in DOMAIN v.val : v.val[i].is = "string"
ToFloat64(v) == v.is \in {"int", "float"}
Ints(v) == v.is = "list" /\ \A i \in DOMAIN v.val : v.val[i].is = "int"

(* What the ParseConfig functions ask of a value: lists are looked into, and *)
(* so are the maps of priorities, frequencies and fallbacks.                 *)
Fits(type, v) ==
    CASE type = "strings" -> ToStringSlice(v)
      [] type = "ints"    -> Ints(v)
      [] type = "number"  -> ToFloat64(v)
      [] type = "numbers" -> v.is = "map" /\ \A k \in DOMAIN v.val : ToFloat64(v.val[k])
      [] type = "names"   -> v.is = "map" /\ \A k \in DOMAIN v.val : v.val[k].is = "string"
      [] type = "fallback" -> v.is = "map" /\ \A k \in DOMAIN v.val \cap {"mode", "mermaidJs"} :
                                                  v.val[k].is = "string"
      [] OTHER -> v.is = type

Decodes(types, raw) == \A k \in DOMAIN raw \cap DOMAIN types : Fits(types[k], raw[k])

Strings(v) == {v[i].val : i \in DOMAIN v}
Values(v) == [k \in DOMAIN v |-> v[k].val]

HTMLTypes == [head |-> "strings", bodyEnd |-> "strings",
              includeKinds |-> "strings", excludeKinds |-> "strings"]
HTMLConfig(raw) ==
    [on |-> Given(raw, "head", <<>>) # <<>> \/ Given(raw, "bodyEnd", <<>>) # <<>>,
     include |-> Strings(Given(raw, "includeKinds", <<>>)),
     exclude |-> Strings(Given(raw, "excludeKinds", <<>>))]

SEOTypes == [descriptionMaxLength |-> "number", defaultOGImage |-> "string",
             injectOG |-> "bool", injectTwitter |-> "bool"]
SEOConfig(raw) ==
    [on |-> TRUE, og |-> Given(raw, "injectOG", TRUE), twitter |-> Given(raw, "injectTwitter", TRUE)]

DiagramTypes == [enabled |-> "bool", krokiUrl |-> "string", languages |-> "strings",
                 cacheDir |-> "string", timeoutMs |-> "number", figureClass |-> "string",
                 includeKinds |-> "strings", excludeKinds |-> "strings", fallback |-> "fallback"]
DiagramDefaults == [enabled |-> FALSE, languages |-> {"mermaid", "plantuml", "graphviz", "d2"}]
DiagramConfig(raw) ==
    LET languages == IF "languages" \in DOMAIN raw THEN Strings(raw["languages"].val)
                     ELSE DiagramDefaults.languages
    IN [on |-> Given(raw, "enabled", DiagramDefaults.enabled) /\ languages # {},
        languages |-> languages,
        fallback |-> Given(Given(raw, "fallback", <<>>), "mode", "client"),
        include |-> Strings(Given(raw, "includeKinds", <<>>)),
        exclude |-> Strings(Given(raw, "excludeKinds", <<>>))]

(* Priorities in tenths; what is given goes over the defaults, kind by kind. *)
SitemapTypes == [defaultPriority |-> "numbers", defaultChangefreq |-> "names"]
SitemapDefaults ==
    [priority |-> [home |-> 10, page |-> 8, section |-> 6, taxonomy |-> 5, term |-> 4],
     changefreq |-> [home |-> "daily", page |-> "weekly", section |-> "weekly",
                     taxonomy |-> "weekly", term |-> "monthly"]]
SitemapConfig(raw) ==
    [on |-> TRUE,
     priority |-> Values(Given(raw, "defaultPriority", <<>>)) @@ SitemapDefaults.priority,
     changefreq |-> Values(Given(raw, "defaultChangefreq", <<>>)) @@ SitemapDefaults.changefreq]

ImageTypes == [formats |-> "strings", quality |-> "int", sizes |-> "ints", inject_srcset |-> "bool",
               inject_picture |-> "bool", inject_lazy_loading |-> "bool",
               max_dimension |-> "int", skip_larger |-> "bool"]
ImageConfig(raw) ==
    [on |-> TRUE, formats |-> IF "formats" \in DOMAIN raw THEN Strings(raw["formats"].val) ELSE {"webp"},
     quality |-> IF Given(raw, "quality", 0) = 0 THEN 80 ELSE Given(raw, "quality", 0),
     sizes |-> Strings(Given(raw, "sizes", <<>>)),
     srcset |-> Given(raw, "inject_srcset", TRUE), picture |-> Given(raw, "inject_picture", TRUE),
     maxDimension |-> Given(raw, "max_dimension", 0), skipLarger |-> Given(raw, "skip_larger", TRUE)]
ImageConfigValid(c) ==
    /\ c.formats \subseteq {"webp", "avif"} /\ c.quality \in 1..100
    /\ \A s \in c.sizes : s >= 16
    /\ c.maxDimension >= 0

-----------------------------------------------------------------------------
(* InitPlugin of a file refuses settings it cannot decode; any other plugin  *)
(* takes what it is given.                                                   *)
Accepts(name, raw) ==
    CASE name = "html_injector"    -> Decodes(HTMLTypes, raw)
      [] name = "seo_injector"     -> Decodes(SEOTypes, raw)
      [] name = "diagram_renderer" -> Decodes(DiagramTypes, raw)
      [] name = "sitemap_enhancer" -> Decodes(SitemapTypes, raw)
      [] name = "image_pipeline"   -> Decodes(ImageTypes, raw) /\ ImageConfigValid(ImageConfig(raw))
      [] OTHER -> TRUE

Settings(name, raw) ==
    CASE name = "html_injector"    -> HTMLConfig(raw)
      [] name = "seo_injector"     -> SEOConfig(raw)
      [] name = "diagram_renderer" -> DiagramConfig(raw)
      [] name = "sitemap_enhancer" -> SitemapConfig(raw)
      [] name = "image_pipeline"   -> ImageConfig(raw)
      [] OTHER -> [on |-> TRUE]

(* No category means dynamic: left to the daemon's plugin manager.           *)
MatchCategory(category) == category \in {"static", "mixed"}

SearchDirs(conf) == conf.home \o <<conf.dir>>

(* A file that does not load does not hide one of that name in the project.  *)
ScanAndLoadByCategory(conf) ==
    {n \in DOMAIN conf.plugins :
        /\ MatchCategory(conf.plugins[n].category)
        /\ \E i \in DOMAIN SearchDirs(conf) : n \in SearchDirs(conf)[i] /\ <<i, n>> \notin conf.unsound
        /\ Accepts(n, RawConfig(conf, n))}

(* The schemas name the types of whole values: a number is an int, and what  *)
(* is in a list or a map is not looked at.  No field is required, and two    *)
(* plugins give no schema to the host.                                       *)
SchemaType(type) ==
    CASE type = "strings" -> "list"
      [] type = "number" -> "int"
      [] type \in {"numbers", "names", "fallback"} -> "map"
      [] OTHER -> type

ConfigSchema(name) ==
    LET of(types) == [k \in DOMAIN types |-> SchemaType(types[k])]
    IN CASE name = "html_injector"    -> of(HTMLTypes)
         [] name = "diagram_renderer" -> of(DiagramTypes)
         [] name = "sitemap_enhancer" -> of(SitemapTypes)
         [] OTHER -> <<>>

ValidateConfig(name, raw) ==
    {k \in DOMAIN raw \cap DOMAIN ConfigSchema(name) : raw[k].is # ConfigSchema(name)[k]}

ValidateRawConfigs(conf, loaded) ==
    UNION {{<<n, k>> : k \in ValidateConfig(n, RawConfig(conf, n))} : n \in loaded}

(* One setting the schema does not take leaves the command without any       *)
(* registry at all.                                                          *)
NewPluginRegistry(conf) ==
    LET loaded == ScanAndLoadByCategory(conf)
    IN IF conf.scans /\ ValidateRawConfigs(conf, loaded) = {}
       THEN [ok |-> TRUE, plugins |-> [n \in loaded |-> Settings(n, RawConfig(conf, n))]]
       ELSE [ok |-> FALSE, plugins |-> <<>>]

Off == [on |-> FALSE]

(* The settings a plugin of the registry has.                                *)
Plugin(registry, name) ==
    IF name \in DOMAIN registry.plugins THEN registry.plugins[name] ELSE Off

(* The theme of huan.yaml, if it is a theme and has been loaded; no theme is *)
(* no error.                                                                 *)
ActiveTheme(conf) ==
    IF conf.theme \in DOMAIN NewPluginRegistry(conf).plugins \cap conf.themes THEN conf.theme ELSE ""
=============================================================================
