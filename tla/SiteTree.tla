------------------------------ MODULE SiteTree ------------------------------
(***************************************************************************)
(* The content tree of one build (internal/content/tree.go): what kind of   *)
(* page a Markdown file becomes, its URL, the section it hangs under, and   *)
(* the lists of pages that templates range over.                            *)
(*                                                                          *)
(* A page is a record; the path of its file without extension is            *)
(* <<dir, base>>, where dir is a sequence of directory names and base is    *)
(* "_index", "index" or a name.  A URL is the sequence of its segments.     *)
(* Texts are abstracted to their rank in the order the code sorts them by:  *)
(* title is the rank the site's collator gives the title, Rank the byte     *)
(* order of paths, date a day where 0 is the zero time; body is the version  *)
(* of the text, 0 when there is none.                                       *)
(***************************************************************************)
EXTENDS Naturals, Sequences, FiniteSets

CONSTANT Rank          \* path -> its place in byte order

Path(p) == <<p.dir, p.base>>

Kind(p) == IF p.dir = <<>> /\ p.base \in {"_index", "index"} THEN "home"
           ELSE IF p.base = "_index" THEN "section" ELSE "page"

Section(p) == IF p.dir = <<>> \/ p.base = "index" THEN "" ELSE p.dir[1]

URL(p) == IF p.base \in {"_index", "index"} THEN p.dir
          ELSE Append(p.dir, IF p.slug # "" THEN p.slug ELSE p.base)

-----------------------------------------------------------------------------
(* A page without a file: the code makes one for a top-level directory that  *)
(* has pages but no _index.md, and for a site without a home page.           *)
Synthetic(dir) == [dir |-> dir, base |-> "_index", lang |-> "", slug |-> "",
                   type |-> "", weight |-> 0, date |-> 0, title |-> 0, draft |-> FALSE,
                   when |-> "past", render |-> "", list |-> "", cascade |-> "",
                   tags |-> <<>>, body |-> 0, hash |-> <<>>]

(* A leaf bundle, a directory that holds only an index.md, is no section.    *)
AutoSections(F) ==
    LET tops == {p.dir[1] : p \in {q \in F : Kind(q) = "page" /\ q.dir # <<>>}}
        other(d) == \E p \in F : p.dir # <<>> /\ p.dir[1] = d /\ p.base # "index"
        covered(d) == \E p \in F : p.base = "_index" /\ p.dir = <<d>>
    IN {Synthetic(<<d>>) : d \in {t \in tops : other(t) /\ ~covered(t)}}

Tree(F) == F \cup AutoSections(F)

SectionDirs(T) == {p.dir : p \in {q \in T : Kind(q) = "section"}}

(* The nearest directory at or above dir that has a section page; <<>> when  *)
(* there is none, for the walk stops before the root.                        *)
Enclosing(T, dir) ==
    LET at(k) == SubSeq(dir, 1, k)
        ks == {k \in 1..Len(dir) : at(k) \in SectionDirs(T)}
    IN IF ks = {} THEN <<>> ELSE at(CHOOSE k \in ks : \A j \in ks : j <= k)

Parent(T, p) ==
    Enclosing(T, IF p.base = "_index" THEN SubSeq(p.dir, 1, Len(p.dir) - 1) ELSE p.dir)

(* build.list of a page: its own, else the first cascade.build.list on the   *)
(* way up.  The home page's cascade reaches nothing.                         *)
ListOf(T, p) ==
    LET cascading == {s \in T : Kind(s) = "section" /\ s.cascade # ""
                                /\ Len(s.dir) <= Len(p.dir) /\ SubSeq(p.dir, 1, Len(s.dir)) = s.dir}
    IN IF Kind(p) # "page" \/ p.list # "" \/ cascading = {} THEN p.list
       ELSE (CHOOSE s \in cascading : \A r \in cascading : Len(r.dir) <= Len(s.dir)).cascade

IsListed(T, p) == ListOf(T, p) # "never"

-----------------------------------------------------------------------------
(* Hugo's DefaultPageSort: weight with 0 last, newest first, title, path.    *)
Before(a, b) ==
    \/ a.weight # 0 /\ b.weight = 0
    \/ a.weight # 0 /\ b.weight # 0 /\ a.weight < b.weight
    \/ a.weight = b.weight /\ a.date > b.date
    \/ a.weight = b.weight /\ a.date = b.date /\ a.title < b.title
    \/ a.weight = b.weight /\ a.date = b.date /\ a.title = b.title /\ Rank[Path(a)] < Rank[Path(b)]

(* The elements of S in a strict order, a set of pairs.                      *)
Ordered(S, order) ==
    [i \in 1..Cardinality(S) |-> CHOOSE p \in S : Cardinality({q \in S : <<q, p>> \in order}) = i - 1]

InOrder(S, Less(_, _)) == Ordered(S, {e \in S \X S : Less(e[1], e[2])})

Sorted(S) == InOrder(S, Before)

(* What stands at some places of a list, in the order it has there.          *)
Picked(s, places) ==
    LET order == InOrder(places, <)
    IN [i \in DOMAIN order |-> s[order[i]]]

(* .RegularPages and .Sections of the section in directory d.                *)
RegularPages(T, d) ==
    Sorted({p \in T : Kind(p) = "page" /\ Parent(T, p) = d /\ d # <<>> /\ IsListed(T, p)})

Subsections(T, d) ==
    InOrder({p \in T : Kind(p) = "section" /\ Parent(T, p) = d},
            LAMBDA a, b : Rank[Path(a)] < Rank[Path(b)])

(* .RegularPagesRecursive: the pages of a section, then those of each of its *)
(* sections in turn.                                                         *)
RegularPagesRecursive(T, d) ==
    LET of[e \in SectionDirs(T)] ==
            LET subs == Subsections(T, e)
                upTo[i \in 0..Len(subs)] == IF i = 0 THEN <<>> ELSE upTo[i - 1] \o of[subs[i].dir]
            IN RegularPages(T, e) \o upTo[Len(subs)]
    IN of[d]

SiteRegularPages(T) == Sorted({p \in T : Kind(p) = "page" /\ IsListed(T, p)})

(* The home page, made up when no file provides one.                         *)
Home(T) == LET homes == {p \in T : Kind(p) = "home"}
           IN IF homes = {} THEN Synthetic(<<>>)
              ELSE CHOOSE h \in homes : \A g \in homes : Rank[Path(h)] <= Rank[Path(g)]

SitePages(T) == T \cup {Home(T)}
=============================================================================
