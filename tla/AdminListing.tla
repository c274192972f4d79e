---------------------------- MODULE AdminListing ----------------------------
(***************************************************************************)
(* The read side of the admin panel: the listing of content/, its folder   *)
(* tree and the counts of the status page, over the files that AdminAPI    *)
(* leaves at any moment.                                                   *)
(***************************************************************************)
EXTENDS AdminAPI, SequencesExt

\* A file has a path of segments. The status counts files of the root under
\* "_root", and with them those of a folder of that name.
ASSUME ListingAssumption ==
  \A p \in Files : p.dir \in Seq(STRING) /\ (p.dir # <<>> => p.dir[1] # "_root")

(* The listing: ContentItem of each file, the folder tree and the status.  *)
Items == {p \in Files : There(p)}
DetectSection(p) == IF p.dir = <<>> THEN "_root" ELSE p.dir[1]
Breakdown == [s \in {DetectSection(p) : p \in Items} |-> Cardinality({p \in Items : DetectSection(p) = s})]
Parent(d) == IF d = <<>> THEN <<>> ELSE Front(d)
\* Every directory of an item and the directories above it, but the root.
Folders(items) == UNION {{SubSeq(p.dir, 1, n) : n \in 1..Len(p.dir)} : p \in items}
\* A variant that visits a folder before those in it.
ShallowFirst(a, b) == Len(a) < Len(b) /\ SubSeq(b, 1, Len(a)) = a

\* The path of a folder is longer than those of the folders above it; in which
\* order others come is left to the map and to how long their names are.
DeeperFirst(a, b) == Len(a) > Len(b) /\ SubSeq(a, 1, Len(b)) = b
Orders(dirs) ==
  {order \in [1..Cardinality(dirs) -> dirs] :
     \A i, j \in DOMAIN order : i < j => order[i] # order[j] /\ ~DeeperFirst(order[j], order[i])}

\* buildTree: longer paths first, each adds what it holds to its parent.
Direct(items, d) == Cardinality({p \in items : p.dir = d})
Visit(items, d, count) ==
  [count EXCEPT ![Parent(d)] = @ + count[d] + Direct(items, d), ![d] = @ + Direct(items, d)]
Accumulate(items, order) ==
  LET count[n \in 0..Len(order)] ==
        IF n = 0 THEN [d \in Folders(items) \cup {<<>>} |-> 0] ELSE Visit(items, order[n], count[n - 1])
  IN  count[Len(order)]
BuildTree(items, order) == [d \in Folders(items) |-> Accumulate(items, order)[d]]

-----------------------------------------------------------------------------
\* A folder of the tree shows the number of files under it, however deep; the
\* folders of the first level agree with the section breakdown of the status,
\* which adds up to the total.
TreeCountsAll ==
  /\ \A order \in Orders(Folders(Items)) :
       LET tree == BuildTree(Items, order)
       IN  \A d \in DOMAIN tree : /\ tree[d] = Cardinality({p \in Items : IsPrefix(d, p.dir)})
                                  /\ Len(d) = 1 => tree[d] = Breakdown[d[1]]
  /\ SumFunction(Breakdown) = Cardinality(Items)
=============================================================================
