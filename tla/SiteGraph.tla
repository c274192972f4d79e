------------------------------ MODULE SiteGraph -----------------------------
(***************************************************************************)
(* The dependency graph the daemon keeps of the pages of its last full      *)
(* build (internal/daemon/dag/graph.go).  Nodes are URLs: pages that share  *)
(* one share a node.                                                        *)
(***************************************************************************)
EXTENDS SiteTree

Nodes(P) == {URL(p) : p \in P}

(* Variant for the checks: the home page depends on nothing.                 *)
SectionsOnly(P) ==
    [u \in Nodes(P) |->
        {URL(q) : q \in {r \in P : \E p \in P : URL(p) = u /\ Kind(p) = "section" /\ Kind(r) = "page"
                                             /\ Section(r) = Section(p)}}]

(* A section depends on the pages that name it as their section, whatever    *)
(* directory they hang under, and the home page on every section.            *)
DependsOn(P) ==
    [u \in Nodes(P) |->
        {URL(q) : q \in {r \in P : \E p \in P :
            /\ URL(p) = u
            /\ \/ Kind(p) = "section" /\ Kind(r) = "page" /\ Section(r) = Section(p)
               \/ Kind(p) = "home" /\ Kind(r) = "section"}}]

DependedBy(P, u) == {v \in Nodes(P) : u \in DependsOn(P)[v]}

PagePathFromSource(P, path) == {URL(p) : p \in {q \in P : Path(q) = path}}

(* Breadth first from the pages of the changed files.                        *)
AffectedBy(P, changed) ==
    LET within[n \in 0..Cardinality(P)] ==
            IF n = 0 THEN UNION {PagePathFromSource(P, c) : c \in changed}
            ELSE within[n - 1] \cup UNION {DependedBy(P, u) : u \in within[n - 1]}
    IN within[Cardinality(P)]

(* The order in which affected pages are handed on: passes over the input,   *)
(* each taking what is ready by then, and the rest as it came when a pass    *)
(* takes nothing; URLs without a node go last.                               *)
OrderByDependency(P, urls) ==
    LET known == SelectSeq(urls, LAMBDA u : u \in Nodes(P))
        unknown == SelectSeq(urls, LAMBDA u : u \notin Nodes(P))
        inSet == {known[i] : i \in DOMAIN known}
        deps(u) == DependsOn(P)[u] \cap inSet
        in(u, s) == \E i \in DOMAIN s : s[i] = u
        pass(done) ==
            LET step[i \in 0..Len(known)] ==
                    IF i = 0 THEN done
                    ELSE LET s == step[i - 1] IN
                         IF ~in(known[i], s) /\ \A d \in deps(known[i]) : in(d, s)
                         THEN Append(s, known[i]) ELSE s
            IN IF step[Len(known)] # done THEN step[Len(known)]
               ELSE done \o SelectSeq(known, LAMBDA u : ~in(u, done))
        after[n \in 0..Len(known)] == IF n = 0 THEN <<>> ELSE pass(after[n - 1])
    IN after[Len(known)] \o unknown
=============================================================================
