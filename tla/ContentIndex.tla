---------------------------- MODULE ContentIndex ----------------------------
(***************************************************************************)
(* The query index of the daemon over the files api/<section>.json          *)
(* (internal/daemon/contentindex).  An item is a page and the section its   *)
(* file is named after; two items of one day stay in path order.  The search    *)
(* for a text is left out.                                                  *)
(***************************************************************************)
EXTENDS SiteLists, FiniteSetsExt

(* A reload reads every file there is under api/; without the directory the  *)
(* items stay what they were.                                                *)
LoadFromDir(exists, files, items) ==
    IF ~exists THEN items
    ELSE UNION {{[page |-> p, section |-> s] : p \in ElementsOf(files[s])} : s \in DOMAIN files}

GetByURL(items, url) == {i \in items : URL(i.page) = url}

(* An empty section or tag asks for all.                                     *)
Matched(items, f) ==
    {i \in items : /\ f.section \in {"", i.section}
                   /\ f.tag # "" => \E t \in ElementsOf(i.page.tags) : t.form = f.tag}

Newer(a, b) == \/ a.page.date > b.page.date
               \/ a.page.date = b.page.date /\ Rank[Path(a.page)] < Rank[Path(b.page)]

Between(n, low, high) == IF n < low THEN low ELSE IF n > high THEN high ELSE n

(* The items that match, newest first.                                       *)
Listing(items, f) == InOrder(Matched(items, f), Newer)

(* A page number above this is taken for this one.                           *)
MaxPage == 100000

(* Variant for the checks: pages counted from zero.                          *)
QueryFromZero(items, f) ==
    LET matched == Listing(items, f)
        start == Least(f.page * f.limit, Len(matched))
    IN [data  |-> SubSeq(matched, start + 1, Least(start + f.limit, Len(matched))),
        total |-> Len(matched), page |-> f.page, limit |-> f.limit]

Query(items, f) ==
    LET page == Between(f.page, 1, MaxPage)
        limit == IF f.limit < 1 THEN 10 ELSE Between(f.limit, 1, 50)
        matched == Listing(items, f)
        start == Least((page - 1) * limit, Len(matched))
    IN [data  |-> SubSeq(matched, start + 1, Least(start + limit, Len(matched))),
        total |-> Len(matched), page |-> page, limit |-> limit]

(* Tags counts spellings, a page's repeated tag as often as it stands there. *)
TagCounts(items) ==
    LET uses(i, g) == Cardinality({n \in DOMAIN i.page.tags : i.page.tags[n].form = g})
    IN [g \in {t.form : t \in UNION {ElementsOf(i.page.tags) : i \in items}} |->
            MapThenSumSet(LAMBDA i : uses(i, g), items)]

SectionCounts(items) ==
    [s \in {i.section : i \in items} |-> Cardinality({i \in items : i.section = s})]

-----------------------------------------------------------------------------
(* The public API.  A request is [path, params]: params has the parameters   *)
(* that are given, the numbers only if they are numbers.                     *)
HandlePagesList(items, params) ==
    LET given(name, none) == IF name \in DOMAIN params THEN params[name] ELSE none
    IN Query(items, [section |-> given("section", ""), tag |-> given("tag", ""),
                     page |-> given("page", 0), limit |-> given("limit", 0)])

ServeHTTP(items, request) ==
    CASE request.path = <<"pages">> -> HandlePagesList(items, request.params)
      [] Len(request.path) > 1 /\ request.path[1] = "pages" -> GetByURL(items, Tail(request.path))
      [] request.path = <<"tags">> -> TagCounts(items)
      [] request.path = <<"sections">> -> SectionCounts(items)
      [] OTHER -> "not found"
=============================================================================
