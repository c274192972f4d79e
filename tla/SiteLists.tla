------------------------------ MODULE SiteLists -----------------------------
(***************************************************************************)
(* What templates see of a content tree: the lists without drafts           *)
(* (template/context.go), the tag taxonomy (taxonomy.go, build/context.go)  *)
(* and the pages of a paginated list, which the code computes twice.        *)
(*                                                                          *)
(* A tag in front matter is a record [key, form]: key is its urlized form,  *)
(* lower case with dashes, and form the way it was written.                 *)
(***************************************************************************)
EXTENDS SiteTree

(* Drafts leave every list unless the build includes them.                   *)
Visible(s, drafts) == Picked(s, {k \in DOMAIN s : drafts \/ ~s[k].draft})

NewestOf(D) == IF D = {} THEN 0 ELSE CHOOSE d \in D : \A e \in D : e <= d

ElementsOf(s) == {s[i] : i \in DOMAIN s}

(* The date of a section without one of its own: its newest visible page.    *)
DateOf(T, s, drafts) ==
    IF s.date # 0 \/ Kind(s) = "page" THEN s.date
    ELSE NewestOf({p.date : p \in ElementsOf(
             Visible(IF s.dir = <<>> THEN SiteRegularPages(T) ELSE RegularPagesRecursive(T, s.dir), drafts))})

-----------------------------------------------------------------------------
Urlize(tag) == tag.key

(* Variant for the checks: drafts carry tags too.                            *)
TaggedAll(T) == {p \in T : p.tags # <<>>}

(* The taxonomy takes every page with tags but drafts, hidden ones too.      *)
Tagged(T) == {p \in T : ~p.draft /\ p.tags # <<>>}

Terms(T) == {Urlize(t) : t \in UNION {ElementsOf(p.tags) : p \in Tagged(T)}}

(* Pages under a term, once for each of their tags with that key.            *)
Entries(T, k) == {e \in UNION {{p} \X (DOMAIN p.tags) : p \in Tagged(T)} :
                      Urlize(e[1].tags[e[2]]) = k}

Count(T, k) == Cardinality(Entries(T, k))

(* Terms by count, then name; TermRank is the order of the names.            *)
ByCount(T, TermRank) ==
    LET less(a, b) == \/ Count(T, a) > Count(T, b)
                      \/ Count(T, a) = Count(T, b) /\ TermRank[a] < TermRank[b]
        order == InOrder(Terms(T), less)
    IN [i \in DOMAIN order |-> <<order[i], Count(T, order[i])>>]

(* The feed of /tags/ lists terms by their newest page, hidden ones too.     *)
TermDate(T, k) == NewestOf({e[1].date : e \in Entries(T, k)})
TermStubs(T, TermRank) ==
    LET less(a, b) == \/ TermDate(T, a) > TermDate(T, b)
                      \/ TermDate(T, a) = TermDate(T, b) /\ TermRank[a] < TermRank[b]
    IN InOrder(Terms(T), less)

(* /tags/<term>/ lists the pages that may be listed, each as often as the    *)
(* taxonomy holds it.                                                        *)
TermPages(T, k) ==
    LET es == {e \in Entries(T, k) : IsListed(T, e[1])}
        order == InOrder(es, LAMBDA a, b : Before(a[1], b[1]) \/ (a[1] = b[1] /\ a[2] < b[2]))
    IN [i \in DOMAIN order |-> order[i][1]]

(* A term is shown the way the first page spelled it.                        *)
OriginalCase(T, k) ==
    LET less(a, b) == \/ Rank[Path(a[1])] < Rank[Path(b[1])]
                      \/ a[1] = b[1] /\ a[2] < b[2]
        first == InOrder(Entries(T, k), less)[1]
    IN first[1].tags[first[2]].form

-----------------------------------------------------------------------------
(* Pagination.  The home template cuts its list with buildPaginator and      *)
(* links to the next pager; the files page/N/ are cut by                     *)
(* CloneContextForPagination, called once for each N.                        *)
Least(a, b) == IF a < b THEN a ELSE b

MainPages(T, drafts, main) ==
    LET s == Visible(SiteRegularPages(T), drafts)
    IN Picked(s, {k \in DOMAIN s : Section(s[k]) \in main})

TotalPages(n, size) == (n + size - 1) \div size

ChainLength(n, size) == IF TotalPages(n, size) = 0 THEN 1 ELSE TotalPages(n, size)

Chain(items, size) ==
    [k \in 1..ChainLength(Len(items), size) |->
        [items |-> SubSeq(items, (k - 1) * size + 1, Least(k * size, Len(items))),
         prev  |-> k > 1,
         next  |-> k < ChainLength(Len(items), size)]]

(* Variant for the checks: pagers counted from zero.                         *)
CloneFromZero(items, size, k) ==
    LET total == TotalPages(Len(items), size)
        start == Least(k * size, Len(items))
    IN [items |-> SubSeq(items, start + 1, Least(start + size, Len(items))),
        prev  |-> k > 1,
        next  |-> k < total]

Clone(items, size, k) ==
    LET total == TotalPages(Len(items), size)
        start == Least((k - 1) * size, Len(items))
    IN [items |-> SubSeq(items, start + 1, Least(start + size, Len(items))),
        prev  |-> k > 1,
        next  |-> k < total]
=============================================================================
