----------------------- MODULE CloudflareDeploy_proofs -----------------------
(***************************************************************************)
(* Proofs about `huan deploy cloudflare`, for any configuration, manifest  *)
(* and bucket, any limits and any number of faults, expiries and syncs.    *)
(*                                                                         *)
(*  1. Induction, sums, and the recursive Split and Batch: Induction and   *)
(*     Recursion stand for the library's theorems with operators as        *)
(*     parameters.                                                         *)
(*  2. The limiter alone: no token is lost.                                *)
(*  3. DeployPages: a deployment is created only of complete uploads, no   *)
(*     goroutine outlives the call, one expiry of the JWT is healed, and   *)
(*     the report accounts for every asset.                                *)
(*  4. The synchronisation with R2: the bucket mirrors what was read.      *)
(*  5. The loop over the worker scripts, and the command as a whole.       *)
(***************************************************************************)
EXTENDS CloudflareDeploy, WellFoundedInduction, FiniteSetTheorems, SequenceTheorems, TLAPS

-----------------------------------------------------------------------------
(* Induction. *)

LEMMA Least ==
  ASSUME NEW S, S \subseteq Nat, S # {}
  PROVE  \E n \in S : \A m \in S : n <= m
<1> DEFINE R == OpToRel(<, Nat)
<1>1. IsWellFoundedOn(R, Nat)
  BY NatLessThanWellFounded
<1>2. \A m, n \in Nat : m < n => <<m, n>> \in R
  BY DEF OpToRel
<1> HIDE DEF R
<1>3. \E n \in S : \A m \in S : ~ (<<m, n>> \in R)
  BY <1>1, WFMin
<1>4. \A m, n \in Nat : ~(m < n) => n <= m
  OBVIOUS
<1> QED
  BY <1>2, <1>3, <1>4

(* What holds of 0 and goes from each number to the next holds up to N.    *)
LEMMA Induction ==
  ASSUME NEW N \in Nat, NEW T, 0 \in T, \A m \in 1..N : m - 1 \in T => m \in T
  PROVE  \A n \in 0..N : n \in T
<1> DEFINE Bad == (0..N) \ T
<1>1. ASSUME Bad # {} PROVE FALSE
  <2>1. Bad \subseteq Nat
    OBVIOUS
  <2>2. PICK m \in Bad : \A n \in Bad : m <= n
    <3> HIDE DEF Bad
    <3> QED
      BY <1>1, <2>1, Least
  <2>3. m \in 1..N /\ m - 1 \in 0..N /\ ~(m <= m - 1)
    OBVIOUS
  <2>4. m - 1 \in T
    BY <2>2, <2>3
  <2> QED
    BY <2>3, <2>4
<1> QED
  BY <1>1

(* The first m steps of a recursion over seq that begins with s0.          *)
Steps(G, s0, seq, f, m) == f[0] = s0 /\ \A n \in 1..m : f[n] = G[f[n-1]][seq[n]]

(* There is such a recursion for every sequence.                           *)
LEMMA Recursion ==
  ASSUME NEW S, NEW s0 \in S, NEW A, NEW G \in [S -> [A -> S]], NEW seq \in Seq(A)
  PROVE  \E f \in [0..Len(seq) -> S] : Steps(G, s0, seq, f, Len(seq))
<1> DEFINE Reaches(m) == \E f \in [0..m -> S] : Steps(G, s0, seq, f, m)
           T == {m \in Nat : Reaches(m)}
<1>0. Len(seq) \in Nat /\ \A n \in 1..Len(seq) : seq[n] \in A
  OBVIOUS
<1>1. Reaches(0)
  <2> DEFINE f == [i \in 0..0 |-> s0]
  <2>1. f \in [0..0 -> S] /\ Steps(G, s0, seq, f, 0)
    BY DEF Steps
  <2> QED
    BY <2>1
<1>2. ASSUME NEW m \in 1..Len(seq), Reaches(m - 1) PROVE Reaches(m)
  <2>1. PICK f \in [0..(m-1) -> S] : Steps(G, s0, seq, f, m - 1)
    BY <1>2
  <2> DEFINE last == G[f[m-1]][seq[m]]
             g == [n \in 0..m |-> IF n = m THEN last ELSE f[n]]
  <2>2. last \in S
    BY <1>0
  <2>3. m \in 0..m /\ 0 \in 0..(m-1) /\ \A n \in 0..(m-1) : n \in 0..m /\ n # m
    OBVIOUS
  <2> HIDE DEF last
  <2>4. g[m] = last /\ \A n \in 0..(m-1) : g[n] = f[n]
    BY <2>3
  <2>5. g \in [0..m -> S]
    <3>1. \A n \in 0..m : n = m \/ n \in 0..(m-1)
      OBVIOUS
    <3> QED
      BY <2>2, <3>1
  <2> HIDE DEF g
  <2>6. ASSUME NEW n \in 1..m PROVE g[n] = G[g[n-1]][seq[n]]
    <3>1. CASE n = m
      <4>1. m - 1 \in 0..(m-1) /\ g[m-1] = f[m-1]
        BY <2>4
      <4> QED
        BY <3>1, <4>1, <2>4 DEF last
    <3>2. CASE n # m
      <4>1. n \in 1..(m-1) /\ n - 1 \in 0..(m-1) /\ n \in 0..(m-1)
        BY <3>2
      <4> QED
        BY <4>1, <2>1, <2>4 DEF Steps
    <3> QED
      BY <3>1, <3>2
  <2>7. g[0] = s0
    BY <2>1, <2>3, <2>4 DEF Steps
  <2> QED
    BY <2>5, <2>6, <2>7 DEF Steps
<1> HIDE DEF Reaches
<1>3. 0 \in T /\ \A m \in 1..Len(seq) : m - 1 \in T => m \in T
  BY <1>1, <1>2
<1>4. Len(seq) \in T
  <2> HIDE DEF T
  <2>1. \A n \in 0..Len(seq) : n \in T
    BY <1>0, <1>3, Induction
  <2> QED
    BY <1>0, <2>1
<1> QED
  BY <1>4 DEF Reaches

-----------------------------------------------------------------------------
(* Sums. *)

(* The sums of f up to each number.                                        *)
Sums(f, n, g) == g[0] = 0 /\ \A k \in 1..n : g[k] = g[k-1] + f[k]

Sum(f, n) == (CHOOSE g \in [0..n -> Nat] : Sums(f, n, g))[n]

LEMMA SumsExist ==
  ASSUME NEW n \in Nat, NEW f \in [1..n -> Nat]
  PROVE  \E g \in [0..n -> Nat] : Sums(f, n, g)
<1> DEFINE G == [s \in Nat |-> [a \in Nat |-> s + a]]
<1>1. G \in [Nat -> [Nat -> Nat]] /\ 0 \in Nat
  OBVIOUS
<1>2. f \in Seq(Nat) /\ Len(f) = n
  OBVIOUS
<1>3. PICK g \in [0..n -> Nat] : Steps(G, 0, f, g, n)
  <2> HIDE DEF G
  <2> QED
    BY <1>1, <1>2, Recursion
<1>4. ASSUME NEW k \in 1..n PROVE g[k] = g[k-1] + f[k]
  <2>1. g[k-1] \in Nat /\ f[k] \in Nat
    OBVIOUS
  <2>2. g[k] = G[g[k-1]][f[k]]
    BY <1>3 DEF Steps
  <2> QED
    BY <2>1, <2>2
<1> QED
  BY <1>3, <1>4 DEF Sums, Steps

LEMMA SumIs ==
  ASSUME NEW n \in Nat, NEW f, NEW g \in [0..n -> Nat], Sums(f, n, g), NEW m \in 0..n
  PROVE  Sum(f, m) = g[m]
<1> DEFINE h == CHOOSE h \in [0..m -> Nat] : Sums(f, m, h)
<1>1. h \in [0..m -> Nat] /\ Sums(f, m, h)
  <2> DEFINE r == [k \in 0..m |-> g[k]]
  <2>1. r \in [0..m -> Nat]
    OBVIOUS
  <2>2. Sums(f, m, r)
    <3>1. \A k \in 1..m : k \in 1..n /\ k \in 0..m /\ k - 1 \in 0..m
      OBVIOUS
    <3>2. 0 \in 0..m
      OBVIOUS
    <3> QED
      BY <3>1, <3>2 DEF Sums
  <2> HIDE DEF r
  <2> QED
    BY <2>1, <2>2
<1> HIDE DEF h
<1> DEFINE T == {k \in 0..m : h[k] = g[k]}
<1>2. 0 \in T
  BY <1>1 DEF Sums
<1>3. ASSUME NEW k \in 1..m, k - 1 \in T PROVE k \in T
  <2>1. k \in 1..n /\ k \in 0..m
    OBVIOUS
  <2> QED
    BY <1>1, <1>3, <2>1 DEF Sums
<1> HIDE DEF T
<1>4. m \in T
  <2>1. m \in Nat /\ m \in 0..m
    OBVIOUS
  <2>2. \A k \in 0..m : k \in T
    BY <2>1, <1>2, <1>3, Induction
  <2> QED
    BY <2>1, <2>2
<1> QED
  BY <1>4 DEF T, Sum, h

LEMMA SumSteps ==
  ASSUME NEW n \in Nat, NEW f \in [1..n -> Nat]
  PROVE  /\ Sum(f, 0) = 0 /\ \A k \in 0..n : Sum(f, k) \in Nat
         /\ \A k \in 1..n : Sum(f, k) = Sum(f, k-1) + f[k]
<1>1. PICK g \in [0..n -> Nat] : Sums(f, n, g)
  BY SumsExist
<1>2. \A k \in 0..n : Sum(f, k) = g[k]
  BY <1>1, SumIs
<1>3. 0 \in 0..n /\ \A k \in 1..n : k \in 0..n /\ k - 1 \in 0..n
  OBVIOUS
<1> QED
  BY <1>1, <1>2, <1>3 DEF Sums

(* Functions with the same values have the same sum.                       *)
LEMMA SumAgrees ==
  ASSUME NEW n \in Nat, NEW m \in Nat, n <= m,
         NEW f \in [1..n -> Nat], NEW g \in [1..m -> Nat], \A k \in 1..n : f[k] = g[k]
  PROVE  Sum(f, n) = Sum(g, n)
<1> DEFINE T == {k \in 0..n : Sum(f, k) = Sum(g, k)}
<1>1. 0 \in T
  <2>1. Sum(f, 0) = 0
    BY SumSteps
  <2>2. Sum(g, 0) = 0
    BY SumSteps
  <2> QED
    BY <2>1, <2>2
<1>2. ASSUME NEW k \in 1..n, k - 1 \in T PROVE k \in T
  <2>1. k \in 1..m /\ k \in 0..n
    OBVIOUS
  <2>2. Sum(f, k) = Sum(f, k-1) + f[k]
    BY SumSteps
  <2>3. Sum(g, k) = Sum(g, k-1) + g[k]
    BY <2>1, SumSteps
  <2> QED
    BY <1>2, <2>1, <2>2, <2>3
<1> HIDE DEF T
<1>3. n \in T
  <2>1. \A k \in 0..n : k \in T
    BY <1>1, <1>2, Induction
  <2> QED
    BY <2>1
<1> QED
  BY <1>3 DEF T

(* One value changes.                                                      *)
LEMMA SumUpdate ==
  ASSUME NEW n \in Nat, NEW f \in [1..n -> Nat], NEW i \in 1..n, NEW v \in Nat
  PROVE  Sum([f EXCEPT ![i] = v], n) = Sum(f, n) + v - f[i]
<1> DEFINE g == [f EXCEPT ![i] = v]
           T == {k \in 0..n : Sum(g, k) = Sum(f, k) + (IF k < i THEN 0 ELSE v - f[i])}
<1>1. g \in [1..n -> Nat] /\ g[i] = v /\ \A k \in 1..n : k # i => g[k] = f[k]
  OBVIOUS
<1> HIDE DEF g
<1>2. 0 \in T
  <2>1. Sum(f, 0) = 0
    BY SumSteps
  <2>2. Sum(g, 0) = 0
    BY <1>1, SumSteps
  <2> QED
    BY <2>1, <2>2
<1>3. ASSUME NEW k \in 1..n, k - 1 \in T PROVE k \in T
  <2>1. Sum(f, k) = Sum(f, k-1) + f[k] /\ Sum(f, k-1) \in Nat /\ f[k] \in Nat
    <3>1. k - 1 \in 0..n
      OBVIOUS
    <3> QED
      BY <3>1, SumSteps
  <2>2. Sum(g, k) = Sum(g, k-1) + g[k]
    BY <1>1, SumSteps
  <2>3. Sum(g, k-1) = Sum(f, k-1) + (IF k - 1 < i THEN 0 ELSE v - f[i])
    BY <1>3
  <2>4. CASE k < i
    BY <2>1, <2>2, <2>3, <2>4, <1>1
  <2>5. CASE k = i
    BY <2>1, <2>2, <2>3, <2>5, <1>1
  <2>6. CASE k > i
    BY <2>1, <2>2, <2>3, <2>6, <1>1
  <2> QED
    BY <2>4, <2>5, <2>6
<1> HIDE DEF T
<1>4. n \in T
  <2>1. \A k \in 0..n : k \in T
    BY <1>2, <1>3, Induction
  <2> QED
    BY <2>1
<1>5. Sum(g, n) = Sum(f, n) + (v - f[i])
  BY <1>4 DEF T
<1>6. Sum(f, n) \in Nat /\ f[i] \in Nat
  BY SumSteps
<1> QED
  BY <1>5, <1>6 DEF g

LEMMA SumZero ==
  ASSUME NEW n \in Nat, NEW f \in [1..n -> Nat], \A k \in 1..n : f[k] = 0
  PROVE  Sum(f, n) = 0
<1> DEFINE T == {k \in 0..n : Sum(f, k) = 0}
<1>1. 0 \in T
  BY SumSteps
<1>2. ASSUME NEW k \in 1..n, k - 1 \in T PROVE k \in T
  BY <1>2, SumSteps
<1> HIDE DEF T
<1>3. n \in T
  <2>1. \A k \in 0..n : k \in T
    BY <1>1, <1>2, Induction
  <2> QED
    BY <2>1
<1> QED
  BY <1>3 DEF T

-----------------------------------------------------------------------------
(* Split and Batch. *)

(* The steps of Split. *)
Splits(f, assets, hashes) ==
    /\ f[0] = <<>> /\ Split(assets, hashes) = f[Len(assets)]
    /\ \A n \in 1..Len(assets) :
          f[n] = IF Hash[assets[n]] \in hashes THEN Append(f[n-1], assets[n]) ELSE f[n-1]

(* Split, unfolded. *)
LEMMA SplitSteps ==
  ASSUME NEW A, NEW assets \in Seq(A), NEW hashes
  PROVE  \E f \in [0..Len(assets) -> Seq(A)] : Splits(f, assets, hashes)
<1> DEFINE Step(k, n) == IF n = 0 THEN <<>>
                         ELSE IF Hash[assets[n]] \in hashes THEN Append(k[n-1], assets[n])
                         ELSE k[n-1]
           Is(k) == k = [n \in 0..Len(assets) |-> Step(k, n)]
           upload == CHOOSE k : Is(k)
           G == [s \in Seq(A) |-> [a \in A |-> IF Hash[a] \in hashes THEN Append(s, a) ELSE s]]
<1>0. Len(assets) \in Nat /\ \A n \in 1..Len(assets) : assets[n] \in A /\ n - 1 \in 0..Len(assets)
  OBVIOUS
<1>1. G \in [Seq(A) -> [A -> Seq(A)]] /\ <<>> \in Seq(A)
  OBVIOUS
<1>2. PICK f \in [0..Len(assets) -> Seq(A)] : Steps(G, <<>>, assets, f, Len(assets))
  <2> HIDE DEF G
  <2> QED
    BY <1>1, Recursion
<1>3. ASSUME NEW n \in 0..Len(assets) PROVE f[n] = Step(f, n)
  <2>1. CASE n = 0
    BY <2>1, <1>2 DEF Steps
  <2>2. CASE n \in 1..Len(assets)
    <3>1. f[n-1] \in Seq(A) /\ assets[n] \in A
      BY <2>2, <1>0
    <3>2. f[n] = G[f[n-1]][assets[n]]
      BY <2>2, <1>2 DEF Steps
    <3> QED
      BY <2>2, <3>1, <3>2
  <2> QED
    BY <2>1, <2>2
<1>4. Is(f)
  BY <1>2, <1>3
<1>5. Is(upload)
  BY <1>4
<1>6. Split(assets, hashes) = upload[Len(assets)]
  BY DEF Split
<1>60. \A n \in 0..Len(assets) : upload[n] = Step(upload, n)
  <2> HIDE DEF upload
  <2> QED
    BY <1>5
<1> HIDE DEF upload, Is
<1>61. \A n \in 1..Len(assets) : n \in 0..Len(assets) /\ n # 0
  BY <1>0
<1>7. \A n \in 0..Len(assets) : upload[n] = f[n]
  <2> DEFINE T == {n \in 0..Len(assets) : upload[n] = f[n]}
  <2>1. 0 \in T
    BY <1>0, <1>3, <1>60
  <2>2. ASSUME NEW m \in 1..Len(assets), m - 1 \in T PROVE m \in T
    <3>1. Step(upload, m) = Step(f, m)
      BY <2>2, <1>61
    <3> HIDE DEF Step
    <3> QED
      BY <3>1, <1>3, <1>60, <1>61
  <2> HIDE DEF T
  <2>3. \A n \in 0..Len(assets) : n \in T
    BY <1>0, <2>1, <2>2, Induction
  <2> QED
    BY <2>3 DEF T
<1>8. Split(assets, hashes) = f[Len(assets)]
  <2>1. Len(assets) \in 0..Len(assets)
    BY <1>0
  <2> QED
    BY <2>1, <1>6, <1>7
<1>9. \A n \in 1..Len(assets) :
          f[n] = IF Hash[assets[n]] \in hashes THEN Append(f[n-1], assets[n]) ELSE f[n-1]
  BY <1>3, <1>61
<1>10. f[0] = <<>>
  BY <1>2 DEF Steps
<1> QED
  BY <1>8, <1>9, <1>10 DEF Splits

(* The assets of some chunks.                                              *)
Elements(chunks) == UNION {ToSet(chunks[k]) : k \in 1..Len(chunks)}

(* An asset finds its place in exactly one more or one longer chunk.       *)
LEMMA PlaceAdds ==
  ASSUME NEW A, NEW chunks \in Seq(Seq(A)), NEW a \in A
  PROVE  /\ Place(chunks, a) \in Seq(Seq(A))
         /\ Elements(Place(chunks, a)) = Elements(chunks) \cup {a}
         /\ Len(Place(chunks, a)) <= Len(chunks) + 1
<1> DEFINE n == Len(chunks)
<1>0. n \in Nat /\ \A k \in 1..n : chunks[k] \in Seq(A)
  OBVIOUS
<1>1. CASE chunks # <<>> /\ Fits(chunks[Len(chunks)], a)
  <2> DEFINE longer == Append(chunks[n], a)
             p == [chunks EXCEPT ![n] = longer]
  <2>1. n \in 1..n /\ Place(chunks, a) = p
    BY <1>0, <1>1 DEF Place
  <2>2. longer \in Seq(A) /\ ToSet(longer) = ToSet(chunks[n]) \cup {a}
    <3>1. chunks[n] \in Seq(A)
      BY <1>0, <2>1
    <3>2. /\ Len(longer) = Len(chunks[n]) + 1 /\ longer[Len(longer)] = a
          /\ longer \in Seq(A)
          /\ \A i \in 1..Len(chunks[n]) : longer[i] = chunks[n][i]
      BY <3>1, AppendProperties
    <3>3. DOMAIN longer = 1..Len(longer) /\ DOMAIN chunks[n] = 1..Len(chunks[n])
      BY <3>1, <3>2
    <3>4. Len(chunks[n]) \in Nat
      BY <3>1
    <3> HIDE DEF longer
    <3>5. \A i \in 1..Len(longer) : i \in 1..Len(chunks[n]) \/ i = Len(longer)
      BY <3>2, <3>4
    <3>6. \A i \in 1..Len(chunks[n]) : i \in 1..Len(longer)
      BY <3>2, <3>4
    <3>7. Len(longer) \in 1..Len(longer)
      BY <3>2, <3>4
    <3> QED
      BY <3>2, <3>3, <3>5, <3>6, <3>7 DEF ToSet
  <2> HIDE DEF longer
  <2>3. /\ p \in Seq(Seq(A)) /\ Len(p) = n /\ p[n] = longer
        /\ \A k \in 1..n : k # n => p[k] = chunks[k]
    BY <1>0, <2>1, <2>2
  <2> HIDE DEF p
  <2>4. Elements(p) = Elements(chunks) \cup {a}
    BY <1>0, <2>1, <2>2, <2>3 DEF Elements
  <2> QED
    BY <1>0, <2>1, <2>3, <2>4
<1>2. CASE ~(chunks # <<>> /\ Fits(chunks[Len(chunks)], a))
  <2> DEFINE p == Append(chunks, <<a>>)
  <2>1. Place(chunks, a) = p
    BY <1>2 DEF Place
  <2>2. <<a>> \in Seq(A) /\ ToSet(<<a>>) = {a}
    BY DEF ToSet
  <2>3. /\ p \in Seq(Seq(A)) /\ Len(p) = n + 1 /\ p[n + 1] = <<a>>
        /\ \A k \in 1..n : p[k] = chunks[k]
    BY <1>0, <2>2, AppendProperties
  <2> HIDE DEF p
  <2>4. \A k \in 1..Len(p) : k \in 1..n \/ k = n + 1
    BY <1>0, <2>3
  <2>5. n + 1 \in 1..Len(p) /\ \A k \in 1..n : k \in 1..Len(p)
    BY <1>0, <2>3
  <2>6. Elements(p) = Elements(chunks) \cup {a}
    BY <2>2, <2>3, <2>4, <2>5 DEF Elements
  <2> QED
    BY <1>0, <2>1, <2>3, <2>6
<1> QED
  BY <1>1, <1>2

(* The steps of Batch. *)
Fills(f, assets) ==
    /\ f[0] = <<>> /\ Batch(assets) = f[Len(assets)]
    /\ \A n \in 1..Len(assets) : f[n] = Place(f[n-1], assets[n])

(* Batch, unfolded. *)
LEMMA BatchSteps ==
  ASSUME NEW A, NEW assets \in Seq(A)
  PROVE  \E f \in [0..Len(assets) -> Seq(Seq(A))] : Fills(f, assets)
<1> DEFINE Step(k, n) == IF n = 0 THEN <<>> ELSE Place(k[n-1], assets[n])
           Is(k) == k = [n \in 0..Len(assets) |-> Step(k, n)]
           batches == CHOOSE k : Is(k)
           G == [s \in Seq(Seq(A)) |-> [a \in A |-> Place(s, a)]]
<1>0. Len(assets) \in Nat /\ \A n \in 1..Len(assets) : assets[n] \in A /\ n - 1 \in 0..Len(assets)
  OBVIOUS
<1>1. G \in [Seq(Seq(A)) -> [A -> Seq(Seq(A))]] /\ <<>> \in Seq(Seq(A))
  <2>1. \A s \in Seq(Seq(A)), a \in A : Place(s, a) \in Seq(Seq(A))
    BY PlaceAdds
  <2>2. <<>> \in Seq(Seq(A))
    OBVIOUS
  <2> QED
    BY <2>1, <2>2
<1>2. PICK f \in [0..Len(assets) -> Seq(Seq(A))] : Steps(G, <<>>, assets, f, Len(assets))
  <2> HIDE DEF G
  <2> QED
    BY <1>1, Recursion
<1>3. ASSUME NEW n \in 0..Len(assets) PROVE f[n] = Step(f, n)
  <2>1. CASE n = 0
    BY <2>1, <1>2 DEF Steps
  <2>2. CASE n \in 1..Len(assets)
    <3>1. f[n-1] \in Seq(Seq(A)) /\ assets[n] \in A
      BY <2>2, <1>0
    <3>2. f[n] = G[f[n-1]][assets[n]]
      BY <2>2, <1>2 DEF Steps
    <3> QED
      BY <2>2, <3>1, <3>2
  <2> QED
    BY <2>1, <2>2
<1>4. Is(f)
  BY <1>2, <1>3
<1>5. Is(batches)
  BY <1>4
<1>6. Batch(assets) = batches[Len(assets)]
  BY DEF Batch
<1>60. \A n \in 0..Len(assets) : batches[n] = Step(batches, n)
  <2> HIDE DEF batches
  <2> QED
    BY <1>5
<1> HIDE DEF batches, Is
<1>61. \A n \in 1..Len(assets) : n \in 0..Len(assets) /\ n # 0
  BY <1>0
<1>7. \A n \in 0..Len(assets) : batches[n] = f[n]
  <2> DEFINE T == {n \in 0..Len(assets) : batches[n] = f[n]}
  <2>1. 0 \in T
    BY <1>0, <1>3, <1>60
  <2>2. ASSUME NEW m \in 1..Len(assets), m - 1 \in T PROVE m \in T
    <3>1. Step(batches, m) = Step(f, m)
      BY <2>2, <1>61
    <3> HIDE DEF Step
    <3> QED
      BY <3>1, <1>3, <1>60, <1>61
  <2> HIDE DEF T
  <2>3. \A n \in 0..Len(assets) : n \in T
    BY <1>0, <2>1, <2>2, Induction
  <2> QED
    BY <2>3 DEF T
<1>8. Batch(assets) = f[Len(assets)]
  <2>1. Len(assets) \in 0..Len(assets)
    BY <1>0
  <2> QED
    BY <2>1, <1>6, <1>7
<1>9. \A n \in 1..Len(assets) : f[n] = Place(f[n-1], assets[n])
  BY <1>3, <1>61
<1>10. f[0] = <<>>
  BY <1>2 DEF Steps
<1> QED
  BY <1>8, <1>9, <1>10 DEF Fills

Prefix(s, n) == {s[i] : i \in 1..n}

LEMMA PrefixSteps ==
  ASSUME NEW A, NEW s \in Seq(A)
  PROVE  /\ Prefix(s, 0) = {} /\ Prefix(s, Len(s)) = ToSet(s)
         /\ \A n \in 1..Len(s) : Prefix(s, n) = Prefix(s, n-1) \cup {s[n]}
<1>1. DOMAIN s = 1..Len(s) /\ Len(s) \in Nat
  OBVIOUS
<1>2. ASSUME NEW n \in 1..Len(s) PROVE Prefix(s, n) = Prefix(s, n-1) \cup {s[n]}
  <2>1. \A i : i \in 1..n <=> i \in 1..(n-1) \/ i = n
    BY <1>1
  <2> QED
    BY <2>1 DEF Prefix
<1>3. Prefix(s, 0) = {}
  BY DEF Prefix
<1> QED
  BY <1>1, <1>2, <1>3 DEF Prefix, ToSet

(* What is to be uploaded is what is missing.                              *)
LEMMA SplitKeeps ==
  ASSUME NEW A, NEW assets \in Seq(A), NEW hashes
  PROVE  /\ Split(assets, hashes) \in Seq(A)
         /\ Len(Split(assets, hashes)) <= Len(assets)
         /\ ToSet(Split(assets, hashes)) = {a \in ToSet(assets) : Hash[a] \in hashes}
<1>01. PICK f \in [0..Len(assets) -> Seq(A)] : Splits(f, assets, hashes)
  BY SplitSteps
<1>1. /\ f[0] = <<>> /\ Split(assets, hashes) = f[Len(assets)]
      /\ \A n \in 1..Len(assets) :
            f[n] = IF Hash[assets[n]] \in hashes THEN Append(f[n-1], assets[n]) ELSE f[n-1]
  BY <1>01 DEF Splits
<1> DEFINE Good(n) == /\ Len(f[n]) <= n
                      /\ ToSet(f[n]) = {a \in Prefix(assets, n) : Hash[a] \in hashes}
           T == {n \in 0..Len(assets) : Good(n)}
<1>0. Len(assets) \in Nat /\ \A n \in 1..Len(assets) : assets[n] \in A /\ n - 1 \in 0..Len(assets)
  OBVIOUS
<1>2. 0 \in T
  BY <1>0, <1>1, PrefixSteps DEF ToSet
<1>3. ASSUME NEW m \in 1..Len(assets), m - 1 \in T PROVE m \in T
  <2> DEFINE a == assets[m]  s == f[m-1]
  <2>1. Prefix(assets, m) = Prefix(assets, m-1) \cup {a}
    BY PrefixSteps
  <2>2. a \in A /\ s \in Seq(A) /\ m - 1 \in 0..Len(assets) /\ Good(m-1)
    BY <1>0, <1>3
  <2>3. CASE Hash[a] \in hashes
    <3>1. f[m] = Append(s, a)
      BY <1>1, <2>3
    <3>2. /\ Append(s, a) \in Seq(A) /\ Len(Append(s, a)) = Len(s) + 1
          /\ \A i \in 1..Len(s) : Append(s, a)[i] = s[i]
          /\ Append(s, a)[Len(s) + 1] = a
      BY <2>2, AppendProperties
    <3> DEFINE t == Append(s, a)
    <3> HIDE DEF t
    <3>3. Len(s) \in Nat /\ DOMAIN s = 1..Len(s) /\ DOMAIN t = 1..(Len(s) + 1)
      BY <2>2, <3>2 DEF t
    <3>4. \A i : i \in 1..(Len(s) + 1) <=> i \in 1..Len(s) \/ i = Len(s) + 1
      BY <3>3
    <3>5. ToSet(t) = ToSet(s) \cup {a}
      BY <3>2, <3>3, <3>4 DEF ToSet, t
    <3>6. Len(f[m]) <= m
      BY <2>2, <3>1, <3>2, <3>3
    <3>7. ToSet(f[m]) = {b \in Prefix(assets, m) : Hash[b] \in hashes}
      BY <2>1, <2>2, <2>3, <3>1, <3>5 DEF t
    <3> QED
      BY <1>0, <3>6, <3>7
  <2>4. CASE Hash[a] \notin hashes
    <3>1. f[m] = s
      BY <1>1, <2>4
    <3>2. Len(s) \in Nat /\ Len(f[m]) <= m
      BY <2>2, <3>1
    <3>3. ToSet(f[m]) = {b \in Prefix(assets, m) : Hash[b] \in hashes}
      BY <2>1, <2>2, <2>4, <3>1
    <3> QED
      BY <1>0, <3>2, <3>3
  <2> QED
    BY <2>3, <2>4
<1> HIDE DEF T
<1>4. Len(assets) \in T
  <2>1. \A n \in 0..Len(assets) : n \in T
    BY <1>0, <1>2, <1>3, Induction
  <2> QED
    BY <2>1, <1>0
<1>5. Good(Len(assets))
  BY <1>4 DEF T
<1> QED
  BY <1>0, <1>1, <1>5, PrefixSteps

(* The batches hold every asset to be uploaded and no other, and there are *)
(* no more batches than assets.                                            *)
LEMMA BatchCovers ==
  ASSUME NEW A, NEW assets \in Seq(A)
  PROVE  /\ Batch(assets) \in Seq(Seq(A))
         /\ Len(Batch(assets)) <= Len(assets)
         /\ Elements(Batch(assets)) = ToSet(assets)
<1>01. PICK f \in [0..Len(assets) -> Seq(Seq(A))] : Fills(f, assets)
  BY BatchSteps
<1>1. /\ f[0] = <<>> /\ Batch(assets) = f[Len(assets)]
      /\ \A n \in 1..Len(assets) : f[n] = Place(f[n-1], assets[n])
  BY <1>01 DEF Fills
<1> DEFINE Good(n) == Len(f[n]) <= n /\ Elements(f[n]) = Prefix(assets, n)
           T == {n \in 0..Len(assets) : Good(n)}
<1>0. Len(assets) \in Nat /\ \A n \in 1..Len(assets) : assets[n] \in A /\ n - 1 \in 0..Len(assets)
  OBVIOUS
<1>2. 0 \in T
  BY <1>0, <1>1, PrefixSteps DEF Elements
<1>3. ASSUME NEW m \in 1..Len(assets), m - 1 \in T PROVE m \in T
  <2>1. f[m-1] \in Seq(Seq(A)) /\ assets[m] \in A /\ Good(m-1)
    BY <1>0, <1>3
  <2>2. f[m] = Place(f[m-1], assets[m])
    BY <1>1
  <2>3. /\ Elements(f[m]) = Elements(f[m-1]) \cup {assets[m]}
        /\ Len(f[m]) <= Len(f[m-1]) + 1
    <3> DEFINE c == f[m-1]  a == assets[m]
    <3>1. c \in Seq(Seq(A)) /\ a \in A
      BY <2>1
    <3> HIDE DEF c, a
    <3>2. /\ Elements(Place(c, a)) = Elements(c) \cup {a}
          /\ Len(Place(c, a)) <= Len(c) + 1
      BY <3>1, PlaceAdds
    <3> QED
      BY <3>2, <2>2 DEF c, a
  <2>4. f[m] \in Seq(Seq(A)) /\ Len(f[m]) \in Nat /\ Len(f[m-1]) \in Nat
    BY <2>1, <1>0
  <2>5. Prefix(assets, m) = Prefix(assets, m-1) \cup {assets[m]}
    BY PrefixSteps
  <2>6. Elements(f[m]) = Prefix(assets, m)
    BY <2>1, <2>3, <2>5
  <2>7. Len(f[m]) <= m
    BY <2>1, <2>3, <2>4, <1>0
  <2> QED
    BY <1>0, <2>6, <2>7
<1> HIDE DEF T
<1>4. Len(assets) \in T
  <2>1. \A n \in 0..Len(assets) : n \in T
    BY <1>0, <1>2, <1>3, Induction
  <2> QED
    BY <2>1, <1>0
<1>5. Good(Len(assets))
  BY <1>4 DEF T
<1> QED
  BY <1>0, <1>1, <1>5, PrefixSteps

Lengths(chunks) == [k \in 1..Len(chunks) |-> Len(chunks[k])]

(* An asset that finds its place makes the chunks longer by one.           *)
LEMMA PlaceCounts ==
  ASSUME NEW A, NEW chunks \in Seq(Seq(A)), NEW a \in A
  PROVE  LET p == Place(chunks, a)
         IN  Sum(Lengths(p), Len(p)) = Sum(Lengths(chunks), Len(chunks)) + 1
<1> DEFINE n == Len(chunks)
           lens == Lengths(chunks)
<1>0. n \in Nat /\ \A k \in 1..n : chunks[k] \in Seq(A) /\ Len(chunks[k]) \in Nat
  <2>1. n \in Nat /\ \A k \in 1..n : chunks[k] \in Seq(A)
    OBVIOUS
  <2> QED
    BY <2>1, LenProperties
<1>00. lens \in [1..n -> Nat] /\ \A k \in 1..n : lens[k] = Len(chunks[k])
  BY <1>0 DEF Lengths
<1>1. CASE chunks # <<>> /\ Fits(chunks[Len(chunks)], a)
  <2> DEFINE longer == Append(chunks[n], a)
             p == [chunks EXCEPT ![n] = longer]
  <2>1. n \in 1..n /\ Place(chunks, a) = p
    BY <1>0, <1>1 DEF Place
  <2>2. longer \in Seq(A) /\ Len(longer) = Len(chunks[n]) + 1
    <3>1. chunks[n] \in Seq(A)
      BY <1>0, <2>1
    <3> QED
      BY <3>1, AppendProperties
  <2> HIDE DEF longer
  <2>3. /\ p \in Seq(Seq(A)) /\ Len(p) = n /\ p[n] = longer
        /\ \A k \in 1..n : k # n => p[k] = chunks[k]
    BY <1>0, <2>1, <2>2
  <2> HIDE DEF p
  <2>4. Lengths(p) = [lens EXCEPT ![n] = Len(longer)]
    <3>1. Lengths(p) = [k \in 1..n |-> Len(p[k])]
      BY <2>3 DEF Lengths
    <3>2. [lens EXCEPT ![n] = Len(longer)] = [k \in 1..n |-> IF k = n THEN Len(longer) ELSE lens[k]]
      <4> HIDE DEF lens
      <4> QED
        BY <1>00
    <3>3. \A k \in 1..n : Len(p[k]) = IF k = n THEN Len(longer) ELSE lens[k]
      BY <2>3, <1>00
    <3> HIDE DEF lens
    <3> QED
      BY <3>1, <3>2, <3>3
  <2>5. Len(longer) \in Nat /\ Len(chunks[n]) \in Nat /\ lens[n] = Len(chunks[n])
    BY <2>1, <2>2, <1>0, <1>00
  <2>6. Sum(lens, n) \in Nat
    <3>1. n \in 0..n
      BY <1>0
    <3> HIDE DEF lens
    <3> QED
      BY <3>1, <1>0, <1>00, SumSteps
  <2>7. Sum([lens EXCEPT ![n] = Len(longer)], n) = Sum(lens, n) + Len(longer) - lens[n]
    <3> HIDE DEF lens
    <3> QED
      BY <1>0, <1>00, <2>1, <2>5, SumUpdate
  <2>8. Sum(Lengths(p), Len(p)) = Sum(lens, n) + 1
    BY <2>2, <2>3, <2>4, <2>5, <2>6, <2>7
  <2> QED
    BY <2>1, <2>8
<1>2. CASE ~(chunks # <<>> /\ Fits(chunks[Len(chunks)], a))
  <2> DEFINE p == Append(chunks, <<a>>)
  <2>1. Place(chunks, a) = p
    BY <1>2 DEF Place
  <2>2. <<a>> \in Seq(A) /\ Len(<<a>>) = 1
    OBVIOUS
  <2>3. /\ p \in Seq(Seq(A)) /\ Len(p) = n + 1 /\ p[n + 1] = <<a>>
        /\ \A k \in 1..n : p[k] = chunks[k]
    BY <1>0, <2>2, AppendProperties
  <2> HIDE DEF p
  <2> DEFINE more == Lengths(p)
  <2>4. n + 1 \in Nat /\ n + 1 \in 1..(n+1) /\ \A k \in 1..(n+1) : k \in 1..n \/ k = n + 1
    BY <1>0
  <2>5. more = [k \in 1..(n+1) |-> Len(p[k])]
    BY <2>3 DEF Lengths
  <2>6. more \in [1..(n+1) -> Nat] /\ more[n+1] = 1 /\ \A k \in 1..n : lens[k] = more[k]
    <3>1. \A k \in 1..(n+1) : Len(p[k]) \in Nat
      BY <2>2, <2>3, <2>4, <1>0
    <3>2. \A k \in 1..n : k \in 1..(n+1)
      BY <1>0
    <3> HIDE DEF more, lens
    <3> QED
      BY <3>1, <3>2, <2>2, <2>3, <2>4, <2>5, <1>00
  <2> HIDE DEF more, lens
  <2>7. Sum(lens, n) = Sum(more, n)
    <3>1. n <= n + 1
      BY <1>0
    <3> QED
      BY <3>1, <2>4, <2>6, <1>0, <1>00, SumAgrees
  <2>8. Sum(more, n+1) = Sum(more, n) + 1
    <3>1. Sum(more, n+1) = Sum(more, (n+1)-1) + more[n+1]
      BY <2>4, <2>6, SumSteps
    <3>2. (n+1) - 1 = n
      BY <1>0
    <3> QED
      BY <3>1, <3>2, <2>6
  <2> QED
    BY <2>1, <2>3, <2>7, <2>8 DEF more, lens
<1> QED
  BY <1>1, <1>2

(* The batches together are as long as what is to be uploaded.             *)
LEMMA BatchCounts ==
  ASSUME NEW A, NEW assets \in Seq(A)
  PROVE  Sum(Lengths(Batch(assets)), Len(Batch(assets))) = Len(assets)
<1>01. PICK f \in [0..Len(assets) -> Seq(Seq(A))] : Fills(f, assets)
  BY BatchSteps
<1>1. /\ f[0] = <<>> /\ Batch(assets) = f[Len(assets)]
      /\ \A n \in 1..Len(assets) : f[n] = Place(f[n-1], assets[n])
  BY <1>01 DEF Fills
<1> DEFINE Total(n) == Sum(Lengths(f[n]), Len(f[n]))
           T == {n \in 0..Len(assets) : Total(n) = n}
<1>0. Len(assets) \in Nat /\ \A n \in 1..Len(assets) : assets[n] \in A /\ n - 1 \in 0..Len(assets)
  OBVIOUS
<1>2. 0 \in T
  <2>1. Lengths(<<>>) \in [1..0 -> Nat] /\ Len(<<>>) = 0
    BY DEF Lengths
  <2>2. Sum(Lengths(<<>>), 0) = 0
    BY <2>1, SumSteps
  <2> QED
    BY <1>0, <1>1, <2>1, <2>2
<1>3. ASSUME NEW m \in 1..Len(assets), m - 1 \in T PROVE m \in T
  <2>1. f[m-1] \in Seq(Seq(A)) /\ assets[m] \in A /\ Total(m-1) = m - 1
    BY <1>0, <1>3
  <2>2. Total(m) = Total(m-1) + 1
    <3> DEFINE c == f[m-1]  a == assets[m]
    <3>1. c \in Seq(Seq(A)) /\ a \in A
      BY <2>1
    <3> HIDE DEF c, a
    <3>2. Sum(Lengths(Place(c, a)), Len(Place(c, a))) = Sum(Lengths(c), Len(c)) + 1
      BY <3>1, PlaceCounts
    <3> QED
      BY <3>2, <1>1 DEF c, a
  <2> HIDE DEF Total
  <2> QED
    BY <1>0, <2>1, <2>2
<1> HIDE DEF T
<1>4. Len(assets) \in T
  <2>1. \A n \in 0..Len(assets) : n \in T
    BY <1>0, <1>2, <1>3, Induction
  <2> QED
    BY <2>1, <1>0
<1>5. Total(Len(assets)) = Len(assets)
  BY <1>4 DEF T
<1> QED
  BY <1>1, <1>5

-----------------------------------------------------------------------------
(* The limiter. Its heart is that tokens and slots in use are counted      *)
(* together: NormalLeft keeps a token in normalSem for each Release that   *)
(* gets there.                                                             *)

(* Limiter counts with the Cardinality of its own copy of FiniteSets.      *)
LEMMA SameCardinality == \A S : Limit!Cardinality(S) = Cardinality(S)
  BY DEF Cardinality, Limit!Cardinality, IsFiniteSet, Limit!IsFiniteSet

HowMany(f, P) == Cardinality({w \in Workers : f[w] \in P})

Held == HowMany(at, Limit!Holding)
AtSecond == HowMany(at, {"second"})

Weight(p, P) == IF p \in P THEN 1 ELSE 0

(* What a step that takes w to p does to the two counts. *)
Moved(w, p) ==
    /\ Held' = Held + Weight(p, Limit!Holding) - Weight(at[w], Limit!Holding)
    /\ AtSecond' = AtSecond + Weight(p, {"second"}) - Weight(at[w], {"second"})

(* Each worker about to try normalSem finds a token there. *)
NormalLeft == AtSecond <= sem["normal"]

(* Before Degrade nobody has used degradedSem. *)
FlagSeen ==
    ~degraded => /\ sem["degraded"] = 0
                 /\ \A w \in Workers : at[w] \notin {"degraded", "first"}

LimiterInv == Limit!TypeOK /\ Limit!SlotsPaid /\ NormalLeft /\ FlagSeen /\ Limit!SecondTryFinds

-----------------------------------------------------------------------------
(* A count is a natural number. *)
LEMMA CountType == ASSUME NEW f, NEW P PROVE HowMany(f, P) \in Nat
<1>1. {w \in Workers : f[w] \in P} \subseteq Workers
  OBVIOUS
<1> QED
  BY <1>1, LimiterAssumption, FS_Subset, FS_CardinalityType DEF HowMany

(* What one worker's move does to a count. *)
LEMMA CountMove ==
  ASSUME NEW f \in [Workers -> Limit!Places], NEW w \in Workers, NEW p \in Limit!Places, NEW P
  PROVE  HowMany([f EXCEPT ![w] = p], P) = HowMany(f, P) + Weight(p, P) - Weight(f[w], P)
<1> DEFINE g == [f EXCEPT ![w] = p]
           F == {v \in Workers : f[v] \in P}
           G == {v \in Workers : g[v] \in P}
<1>1. IsFiniteSet(F) /\ IsFiniteSet(G)
  <2>1. F \subseteq Workers /\ G \subseteq Workers
    OBVIOUS
  <2> QED
    BY <2>1, LimiterAssumption, FS_Subset
<1>2. \A v \in Workers : g[v] = IF v = w THEN p ELSE f[v]
  OBVIOUS
<1>3. (f[w] \in P <=> p \in P) => G = F
  BY <1>2
<1>4. f[w] \notin P /\ p \in P => G = F \cup {w} /\ w \notin F
  BY <1>2
<1>5. f[w] \in P /\ p \notin P => G = F \ {w} /\ w \in F
  BY <1>2
<1> HIDE DEF F, G
<1>6. f[w] \notin P /\ p \in P => Cardinality(G) = Cardinality(F) + 1
  BY <1>1, <1>4, FS_AddElement
<1>7. f[w] \in P /\ p \notin P => Cardinality(G) = Cardinality(F) - 1
  BY <1>1, <1>5, FS_RemoveElement
<1>8. Cardinality(F) \in Nat /\ Cardinality(G) \in Nat
  BY <1>1, FS_CardinalityType
<1>9. Cardinality(G) = Cardinality(F) + Weight(p, P) - Weight(f[w], P)
  BY <1>3, <1>6, <1>7, <1>8 DEF Weight
<1> QED
  BY <1>9 DEF HowMany, F, G

(* The same for the two counts of the invariant. *)
LEMMA HeldMove ==
  ASSUME NEW w \in Workers, NEW p \in Limit!Places,
         at \in [Workers -> Limit!Places], at' = [at EXCEPT ![w] = p]
  PROVE  Moved(w, p)
BY CountMove DEF Moved, Held, AtSecond

(* A worker that is somewhere is counted there. *)
LEMMA SecondCounted ==
  ASSUME NEW w \in Workers, at[w] = "second"
  PROVE  AtSecond > 0
<1> DEFINE F == {v \in Workers : at[v] \in {"second"}}
<1>1. IsFiniteSet(F) /\ F # {}
  <2>1. F \subseteq Workers /\ w \in F
    OBVIOUS
  <2> QED
    BY <2>1, LimiterAssumption, FS_Subset
<1> HIDE DEF F
<1>2. Cardinality(F) \in Nat /\ Cardinality(F) # 0
  BY <1>1, FS_CardinalityType, FS_EmptySet
<1> QED
  BY <1>2 DEF AtSecond, HowMany, F

(* A larger set of places counts at least as many workers. *)
LEMMA CountMonotone ==
  ASSUME NEW f, NEW P, NEW Q, P \subseteq Q
  PROVE  HowMany(f, P) <= HowMany(f, Q)
<1> DEFINE F == {w \in Workers : f[w] \in P}
           G == {w \in Workers : f[w] \in Q}
<1>1. F \subseteq G /\ G \subseteq Workers
  OBVIOUS
<1> HIDE DEF F, G
<1>2. IsFiniteSet(G)
  BY <1>1, LimiterAssumption, FS_Subset
<1>3. Cardinality(F) <= Cardinality(G)
  BY <1>1, <1>2, FS_Subset
<1> QED
  BY <1>3 DEF HowMany, F, G

-----------------------------------------------------------------------------
LEMMA LimiterInit == Limit!Init => LimiterInv
<1> SUFFICES ASSUME Limit!Init PROVE LimiterInv
  OBVIOUS
<1>0. \A c \in Limit!Sems : sem[c] = 0 /\ Limit!Capacity(c) \in Nat
  BY LimiterAssumption DEF Limit!Init, Limit!Capacity
<1>01. \A c \in Limit!Sems : sem[c] <= Limit!Capacity(c)
  BY <1>0
<1>1. Limit!TypeOK
  BY <1>01 DEF Limit!Init, Limit!TypeOK, Limit!Sems, Limit!Places
<1>5. FlagSeen /\ Limit!SecondTryFinds
  BY DEF Limit!Init, FlagSeen, Limit!SecondTryFinds, Limit!Sems
<1>2. Limit!Holders = {} /\ {w \in Workers : at[w] \in {"second"}} = {}
  BY DEF Limit!Init, Limit!Holders, Limit!Holding
<1>3. Limit!SlotsPaid
  BY <1>2, FS_EmptySet, SameCardinality DEF Limit!Init, Limit!SlotsPaid, Limit!Sems
<1>4. NormalLeft
  BY <1>2, FS_EmptySet DEF Limit!Init, NormalLeft, AtSecond, HowMany, Limit!Sems
<1> QED
  BY <1>1, <1>3, <1>4, <1>5 DEF LimiterInv

(* Every step keeps the invariant. *)
LEMMA LimiterInductive == LimiterInv /\ [Limit!Next]_(Limit!limiter) => LimiterInv'
<1> SUFFICES ASSUME LimiterInv, [Limit!Next]_(Limit!limiter) PROVE LimiterInv'
  OBVIOUS
<1> DEFINE N == sem["normal"]  D == sem["degraded"]
<1>0. /\ at \in [Workers -> Limit!Places] /\ sem \in [Limit!Sems -> Nat]
      /\ N \in Nat /\ D \in Nat
      /\ HTTPMaxParallel \in Nat /\ HTTPDegradedParallel \in Nat
  BY LimiterAssumption DEF LimiterInv, Limit!TypeOK, Limit!Sems
<1>01. Held \in Nat /\ AtSecond \in Nat
  BY CountType DEF Held, AtSecond
<1>02. Held = N + D /\ AtSecond <= N
  BY SameCardinality DEF LimiterInv, Limit!SlotsPaid, NormalLeft, Held, Limit!Holders, HowMany
<1>03. Limit!SlotsPaid' <=> Held' = sem'["normal"] + sem'["degraded"]
  BY SameCardinality DEF Limit!SlotsPaid, Held, Limit!Holders, HowMany
<1>1. ASSUME NEW w \in Workers, Limit!Acquire(w) PROVE LimiterInv'
  <2> DEFINE p == IF degraded THEN "degraded" ELSE "normal"
  <2>1. at[w] = "out" /\ at' = [at EXCEPT ![w] = p] /\ UNCHANGED <<sem, degraded>> /\ p \in Limit!Places
    BY <1>1 DEF Limit!Acquire, Limit!Goto, Limit!Places, Limit!Sems
  <2>0. Moved(w, p)
    BY <2>1, <1>0, HeldMove
  <2>2. Held' = Held /\ AtSecond' = AtSecond
    BY <2>1, <1>0, <1>01, <2>0 DEF Moved, Weight, Limit!Holding
  <2>3. Limit!TypeOK' /\ FlagSeen' /\ Limit!SecondTryFinds'
    BY <2>1, <1>0 DEF LimiterInv, Limit!TypeOK, FlagSeen, Limit!SecondTryFinds
  <2> QED
    BY <2>1, <2>2, <2>3, <1>0, <1>01, <1>02, <1>03 DEF LimiterInv, NormalLeft
<1>2. ASSUME NEW w \in Workers, Limit!Enter(w) PROVE LimiterInv'
  <2>1. at' = [at EXCEPT ![w] = "in"] /\ UNCHANGED degraded /\ "in" \in Limit!Places
    BY <1>2 DEF Limit!Enter, Limit!Goto, Limit!Places
  <2>2. at[w] \in Limit!Sems /\ sem[at[w]] < Limit!Capacity(at[w]) /\ sem' = [sem EXCEPT ![at[w]] = @ + 1]
    BY <1>2 DEF Limit!Enter
  <2>0. Moved(w, "in")
    BY <2>1, <1>0, HeldMove
  <2>3. Held' = Held + 1 /\ AtSecond' = AtSecond
    BY <2>1, <2>2, <1>0, <1>01, <2>0 DEF Moved, Weight, Limit!Holding, Limit!Sems
  <2>4. \/ at[w] = "normal" /\ sem'["normal"] = N + 1 /\ sem'["degraded"] = D
        \/ at[w] = "degraded" /\ sem'["normal"] = N /\ sem'["degraded"] = D + 1
    BY <2>2, <1>0 DEF Limit!Sems
  <2>5. Limit!TypeOK'
    BY <2>1, <2>2, <1>0 DEF LimiterInv, Limit!TypeOK, Limit!Sems, Limit!Capacity
  <2>6. FlagSeen' /\ Limit!SecondTryFinds'
    BY <2>1, <2>4, <1>0 DEF LimiterInv, FlagSeen, Limit!SecondTryFinds
  <2> QED
    BY <2>3, <2>4, <2>5, <2>6, <1>0, <1>01, <1>02, <1>03 DEF LimiterInv, NormalLeft
<1>3. ASSUME NEW w \in Workers, Limit!GiveUp(w) PROVE LimiterInv'
  <2>1. at[w] \in Limit!Sems /\ at' = [at EXCEPT ![w] = "out"] /\ UNCHANGED <<sem, degraded>> /\ "out" \in Limit!Places
    BY <1>3 DEF Limit!GiveUp, Limit!Goto, Limit!Places
  <2>0. Moved(w, "out")
    BY <2>1, <1>0, HeldMove
  <2>2. Held' = Held /\ AtSecond' = AtSecond
    BY <2>1, <1>0, <1>01, <2>0 DEF Moved, Weight, Limit!Holding, Limit!Sems
  <2>3. Limit!TypeOK' /\ FlagSeen' /\ Limit!SecondTryFinds'
    BY <2>1, <1>0 DEF LimiterInv, Limit!TypeOK, FlagSeen, Limit!SecondTryFinds
  <2> QED
    BY <2>1, <2>2, <2>3, <1>0, <1>01, <1>02, <1>03 DEF LimiterInv, NormalLeft
<1>4. ASSUME NEW w \in Workers, Limit!Release(w) PROVE LimiterInv'
  <2> DEFINE p == IF degraded THEN "first" ELSE "second"
  <2>1. at[w] = "in" /\ at' = [at EXCEPT ![w] = p] /\ UNCHANGED <<sem, degraded>> /\ p \in Limit!Places
    BY <1>4 DEF Limit!Release, Limit!Goto, Limit!Places
  <2>0. Moved(w, p)
    BY <2>1, <1>0, HeldMove
  <2>2. Held' = Held
    BY <2>1, <1>0, <1>01, <2>0 DEF Moved, Weight, Limit!Holding
  <2>3. AtSecond' <= N
    <3>1. CASE degraded
      <4>1. AtSecond' = AtSecond
        BY <2>1, <3>1, <1>0, <1>01, <2>0 DEF Moved, Weight
      <4> QED
        BY <4>1, <1>0, <1>01, <1>02
    <3>2. CASE ~degraded
      <4>1. Held = N
        BY <3>2, <1>0, <1>01, <1>02 DEF LimiterInv, FlagSeen
      <4>2. AtSecond' <= Held'
        BY CountMonotone DEF Limit!Holding, Held, AtSecond
      <4> QED
        BY <4>1, <4>2, <2>2
    <3> QED
      BY <3>1, <3>2
  <2>4. Limit!TypeOK' /\ FlagSeen' /\ Limit!SecondTryFinds'
    BY <2>1, <1>0 DEF LimiterInv, Limit!TypeOK, FlagSeen, Limit!SecondTryFinds
  <2> QED
    BY <2>1, <2>2, <2>3, <2>4, <1>0, <1>01, <1>02, <1>03 DEF LimiterInv, NormalLeft
<1>5. ASSUME NEW w \in Workers, Limit!Try(w) PROVE LimiterInv'
  <2>1. at[w] \in {"first", "second"} /\ UNCHANGED degraded
    BY <1>5 DEF Limit!Try, Limit!Tries, LimiterInv, Limit!SecondTryFinds
  <2>2. at[w] = "second" => N > 0
    <3>1. at[w] = "second" => AtSecond > 0
      BY SecondCounted
    <3> QED
      BY <3>1, <1>0, <1>01, <1>02
  <2>3. CASE sem[Limit!Tried(at[w])] > 0 /\ sem' = [sem EXCEPT ![Limit!Tried(at[w])] = @ - 1] /\ Limit!Goto(w, "out")
    <3>1. at' = [at EXCEPT ![w] = "out"] /\ "out" \in Limit!Places
      BY <2>3 DEF Limit!Goto, Limit!Places
    <3>0. Moved(w, "out")
      BY <3>1, <1>0, HeldMove
    <3>2. Held' = Held - 1
      BY <3>1, <2>1, <1>0, <1>01, <3>0 DEF Moved, Weight, Limit!Holding
    <3>3. \/ at[w] = "first" /\ D > 0 /\ sem'["normal"] = N /\ sem'["degraded"] = D - 1
          \/ at[w] = "second" /\ sem'["normal"] = N - 1 /\ sem'["degraded"] = D
      BY <2>1, <2>3, <1>0 DEF Limit!Tried, Limit!Sems
    <3>4. AtSecond' = IF at[w] = "second" THEN AtSecond - 1 ELSE AtSecond
      BY <3>1, <2>1, <1>0, <1>01, <3>0 DEF Moved, Weight
    <3>5. Limit!TypeOK'
      BY <3>1, <2>1, <2>3, <1>0 DEF LimiterInv, Limit!TypeOK, Limit!Tried, Limit!Sems, Limit!Capacity
    <3>6. FlagSeen' /\ Limit!SecondTryFinds'
      BY <3>1, <3>3, <2>1, <1>0 DEF LimiterInv, FlagSeen, Limit!SecondTryFinds
    <3> QED
      BY <3>2, <3>3, <3>4, <3>5, <3>6, <1>0, <1>01, <1>02, <1>03 DEF LimiterInv, NormalLeft
  <2>4. CASE sem[Limit!Tried(at[w])] = 0 /\ Limit!Goto(w, Limit!NextTry(at[w])) /\ UNCHANGED sem
    <3>1. at[w] = "first" /\ D = 0
      BY <2>1, <2>2, <2>4 DEF Limit!Tried
    <3>2. at' = [at EXCEPT ![w] = "second"] /\ "second" \in Limit!Places
      BY <2>4, <3>1 DEF Limit!Goto, Limit!NextTry, Limit!Places
    <3>0. Moved(w, "second")
      BY <3>2, <1>0, HeldMove
    <3>3. Held' = Held
      BY <3>1, <3>2, <1>0, <1>01, <3>0 DEF Moved, Weight, Limit!Holding
    <3>4. AtSecond' <= Held'
      BY CountMonotone DEF Limit!Holding, Held, AtSecond
    <3>5. AtSecond' <= N
      BY <3>1, <3>3, <3>4, <1>0, <1>01, <1>02
    <3>6. Limit!TypeOK' /\ FlagSeen' /\ Limit!SecondTryFinds'
      BY <2>1, <2>4, <3>2, <1>0 DEF LimiterInv, Limit!TypeOK, FlagSeen, Limit!SecondTryFinds
    <3> QED
      BY <2>4, <3>3, <3>5, <3>6, <1>0, <1>01, <1>02, <1>03 DEF LimiterInv, NormalLeft
  <2> QED
    BY <1>5, <2>3, <2>4 DEF Limit!Try
<1>6. CASE Limit!Degrade
  <2>1. Held' = Held /\ AtSecond' = AtSecond
    BY <1>6 DEF Limit!Degrade, Held, AtSecond, HowMany
  <2>2. Limit!TypeOK' /\ FlagSeen' /\ Limit!SecondTryFinds'
    BY <1>6 DEF Limit!Degrade, LimiterInv, Limit!TypeOK, FlagSeen, Limit!SecondTryFinds
  <2> QED
    BY <1>6, <2>1, <2>2, <1>02, <1>03 DEF Limit!Degrade, LimiterInv, NormalLeft
<1>7. CASE UNCHANGED Limit!limiter
  <2>1. Held' = Held /\ AtSecond' = AtSecond
    BY <1>7 DEF Limit!limiter, Held, AtSecond, HowMany
  <2>2. Limit!TypeOK' /\ FlagSeen' /\ Limit!SecondTryFinds'
    BY <1>7 DEF Limit!limiter, LimiterInv, Limit!TypeOK, FlagSeen, Limit!SecondTryFinds
  <2> QED
    BY <1>7, <2>1, <2>2, <1>02, <1>03 DEF Limit!limiter, LimiterInv, NormalLeft
<1> QED
  BY <1>1, <1>2, <1>3, <1>4, <1>5, <1>6, <1>7 DEF Limit!Next, Limit!Leave

(* Once every worker is out, every token is back. *)
LEMMA AllOut ==
  ASSUME LimiterInv, \A w \in Workers : at[w] = "out"
  PROVE  \A s \in Limit!Sems : sem[s] = 0
<1>1. Limit!Holders = {}
  BY DEF Limit!Holders, Limit!Holding
<1>2. Cardinality(Limit!Holders) = 0
  BY <1>1, FS_EmptySet
<1> QED
  BY <1>2, SameCardinality DEF LimiterInv, Limit!SlotsPaid, Limit!TypeOK, Limit!Sems

LEMMA LimiterInvariant == Limit!Spec => []LimiterInv
<1> QED
  BY LimiterInit, LimiterInductive, PTL DEF Limit!Spec

-----------------------------------------------------------------------------
(* Every reachable state is well typed; no channel overflows. *)
THEOREM LimiterTypeCorrect == Limit!Spec => []Limit!TypeOK
<1>1. LimiterInv => Limit!TypeOK
  BY DEF LimiterInv
<1> QED
  BY <1>1, LimiterInvariant, PTL

(* There are always as many tokens as slots in use. *)
THEOREM NoTokenLost == Limit!Spec => []Limit!SlotsPaid
<1>1. LimiterInv => Limit!SlotsPaid
  BY DEF LimiterInv
<1> QED
  BY <1>1, LimiterInvariant, PTL

(* The last select of Release is never reached. *)
THEOREM TwoTriesSuffice == Limit!Spec => []Limit!SecondTryFinds
<1>1. LimiterInv => Limit!SecondTryFinds
  BY DEF LimiterInv
<1> QED
  BY <1>1, LimiterInvariant, PTL

(* No more requests are in flight than both channels have room for. *)
THEOREM InFlightBounded == Limit!Spec => []Limit!BoundedInFlight
<1>1. LimiterInv => Limit!BoundedInFlight
  <2> SUFFICES ASSUME LimiterInv PROVE Limit!BoundedInFlight
    OBVIOUS
  <2>1. HowMany(at, {"in"}) <= HowMany(at, Limit!Holding)
    BY CountMonotone DEF Limit!Holding, Held, AtSecond
  <2>2. HowMany(at, Limit!Holding) = sem["normal"] + sem["degraded"]
    BY SameCardinality DEF LimiterInv, Limit!SlotsPaid, Limit!Holders, HowMany
  <2>3. /\ sem["normal"] \in Nat /\ sem["normal"] <= HTTPMaxParallel
        /\ sem["degraded"] \in Nat /\ sem["degraded"] <= HTTPDegradedParallel
    BY DEF LimiterInv, Limit!TypeOK, Limit!Sems, Limit!Capacity
  <2>4. HowMany(at, {"in"}) \in Nat /\ Cardinality(Limit!InFlight) = HowMany(at, {"in"})
    BY CountType, SameCardinality DEF Limit!InFlight, HowMany
  <2> QED
    BY <2>1, <2>2, <2>3, <2>4, LimiterAssumption, SameCardinality DEF Limit!BoundedInFlight, Limit!InFlight
<1> QED
  BY <1>1, LimiterInvariant, PTL

-----------------------------------------------------------------------------
(* The invariant. *)

Stages == {"upload-token", "check-missing", "upload", "upsert-hashes", "deployment", "done"}
Outcomes == {"none", "ok", "cancelled", "expired", "refused", "exhausted"}
Calling == Requests \cup {"invalidate", "lock", "returned"}
Phases == Calling \cup {"idle", "acquire", "left"}

TypeOK ==
    /\ stage \in Stages
    /\ err \in Outcomes /\ firstErr \in Outcomes \ {"ok"}
    /\ missing \subseteq Hashes /\ toUpload \in Seq(ToSet(Assets))
    /\ phase \in [Callers -> Phases]
    /\ token \in [Callers -> Nat] /\ cached \in Nat /\ jwtAuth \in Nat
    /\ outcome \in [Callers -> Outcomes]
    /\ attempt \in [Callers -> Nat]
    /\ flying \subseteq Callers
    /\ cancelled \in BOOLEAN
    /\ epoch \in Nat \ {0} /\ faults \in Nat
    /\ stored \subseteq Hashes /\ upserted \subseteq Hashes
    /\ deployments \in {0, 1}

(* Where DeployPages and the goroutines of its batches can be at a time.   *)
MainPlace ==
    CASE stage = "upload" -> phase[0] = "idle"
      [] stage = "done" -> phase[0] = "left"
      [] stage = "upload-token" -> phase[0] \in {"lock", "fetch", "returned"}
      [] OTHER -> phase[0] \in Calling

WorkerPlace(w) ==
    /\ phase[w] # "idle" => w \in Launched /\ stage \notin {"upload-token", "check-missing"}
    /\ stage \in {"upsert-hashes", "deployment", "done"}
           => phase[w] \in {"idle", "left"} /\ at[w] = "out"
    /\ CASE phase[w] = "idle" -> at[w] = "out"
         [] phase[w] = "acquire" -> at[w] \in {"normal", "degraded"}
         [] phase[w] = "left" -> at[w] \in {"in", "first", "second", "third", "out"}
         [] OTHER -> at[w] = "in"

Places ==
    /\ \A c \in flying : phase[c] \in Requests
    /\ \A c \in Callers : phase[c] = "returned" => outcome[c] # "none"
    /\ MainPlace
    /\ \A w \in Workers : WorkerPlace(w)

(* What is uploaded was missing.                                           *)
Chosen == stage = "upload" => toUpload = Split(Assets, missing)

BatchHashes(assets, w) == {Hash[a] : a \in ToSet(Batch(assets)[w])}

(* What is stored at each point: what Cloudflare did not report missing,   *)
(* the batches that came back without an error, and in the end everything. *)
Reported ==
    \/ stage = "check-missing" /\ phase[0] = "returned" /\ outcome[0] = "ok"
    \/ stage = "upload"
    => Hashes \ missing \subseteq stored

Carried(w) ==
    w \in Launched /\ stage = "upload" =>
        /\ phase[w] = "returned" /\ outcome[w] = "ok" => BatchHashes(toUpload, w) \subseteq stored
        /\ phase[w] = "left" /\ firstErr = "none" /\ ~cancelled
               => BatchHashes(toUpload, w) \subseteq stored

(* The upsert of a manifest that is not stored is never sent: only a       *)
(* cancelled context can have made a batch give up without an error.       *)
NeverSent ==
    /\ cancelled /\ 0 \notin flying
    /\ phase[0] = "post" \/ (phase[0] = "returned" /\ outcome[0] # "ok")

Acknowledged ==
    stage = "upsert-hashes" =>
        /\ Hashes \subseteq stored \/ NeverSent
        /\ phase[0] = "returned" /\ outcome[0] = "ok" => upserted = Hashes

Complete == stage = "deployment" \/ deployments = 1 => Hashes \subseteq stored /\ upserted = Hashes

Known == Reported /\ (\A w \in Workers : Carried(w)) /\ Acknowledged /\ Complete

(* Which tokens there are until the second expiry.                         *)
Tokens ==
    epoch <= 2 =>
        /\ cached <= epoch /\ jwtAuth <= epoch
        /\ \A c \in Callers :
            /\ token[c] <= epoch
            /\ phase[c] = "repost" => token[c] = 2
            /\ phase[c] \in {"repost", "invalidate"} => epoch = 2
            /\ phase[c] \in {"lock", "fetch"} /\ stage # "upload-token" =>
                   epoch = 2 /\ cached # 1
            /\ phase[c] = "post" => token[c] # 0

Issued ==
    /\ stage = "upload-token" =>
        /\ phase[0] # "returned" => cached = 0
        /\ phase[0] = "returned" /\ outcome[0] = "ok" => token[0] # 0
    /\ stage \notin {"upload-token", "done"} => jwtAuth # 0

Clean ==
    epoch <= 2 /\ faults = 0 /\ ~cancelled =>
        /\ firstErr = "none" /\ err \in {"none", "ok"}
        /\ \A c \in Callers : outcome[c] \in {"none", "ok"}

IInv == TypeOK /\ LimiterInv /\ Places /\ Chosen /\ Known /\ Tokens /\ Issued /\ Clean

-----------------------------------------------------------------------------
LEMMA Facts ==
  /\ 0 \notin Workers /\ Callers = {0} \cup Workers /\ 0 \in Callers
  /\ Assets \in Seq(ToSet(Assets)) /\ Len(Assets) \in Nat
  /\ 1..Len(Assets) \subseteq Workers
<1>1. Assets \in Seq(DOMAIN Hash) /\ 0 \notin Workers /\ 1..Len(Assets) \subseteq Workers
  BY PagesAssumption
<1>2. /\ Len(Assets) \in Nat /\ DOMAIN Assets = 1..Len(Assets)
      /\ Assets \in [1..Len(Assets) -> DOMAIN Hash]
  BY <1>1
<1>3. \A i \in 1..Len(Assets) : Assets[i] \in ToSet(Assets)
  BY <1>2 DEF ToSet
<1>4. Assets \in Seq(ToSet(Assets))
  BY <1>2, <1>3
<1> QED
  BY <1>1, <1>2, <1>4 DEF Callers

(* The hashes of a batch are some of the manifest's.                       *)
LEMMA BatchKnown ==
  ASSUME NEW assets \in Seq(ToSet(Assets)), NEW w \in 1..Len(Batch(assets))
  PROVE  BatchHashes(assets, w) \subseteq Hashes
<1>1. Elements(Batch(assets)) = ToSet(assets) /\ Len(Batch(assets)) \in Nat
  BY BatchCovers, LenProperties
<1>2. ToSet(assets) \subseteq ToSet(Assets)
  BY DEF ToSet
<1>3. ToSet(Batch(assets)[w]) \subseteq ToSet(assets)
  BY <1>1 DEF Elements
<1> QED
  BY <1>2, <1>3 DEF BatchHashes, Hashes

(* The goroutines upload whatever is missing.                              *)
LEMMA Uploads ==
  ASSUME NEW hashes, NEW assets, assets = Split(Assets, hashes)
  PROVE  /\ assets \in Seq(ToSet(Assets))
         /\ 1..Len(Batch(assets)) \subseteq Workers
         /\ \A h \in Hashes : h \in hashes =>
                \E w \in 1..Len(Batch(assets)) : h \in BatchHashes(assets, w)
<1>1. /\ assets \in Seq(ToSet(Assets)) /\ Len(assets) <= Len(Assets)
      /\ ToSet(assets) = {a \in ToSet(Assets) : Hash[a] \in hashes}
  BY Facts, SplitKeeps
<1>2. /\ Len(Batch(assets)) <= Len(assets) /\ Batch(assets) \in Seq(Seq(ToSet(Assets)))
      /\ Elements(Batch(assets)) = ToSet(assets)
  BY <1>1, BatchCovers
<1>3. Len(assets) \in Nat /\ Len(Batch(assets)) \in Nat
  BY <1>1, <1>2
<1>4. 1..Len(Batch(assets)) \subseteq 1..Len(Assets)
  BY <1>1, <1>2, <1>3, Facts
<1>5. ASSUME NEW h \in Hashes, h \in hashes
      PROVE  \E w \in 1..Len(Batch(assets)) : h \in BatchHashes(assets, w)
  <2>1. PICK a \in ToSet(Assets) : h = Hash[a]
    BY DEF Hashes
  <2>2. a \in Elements(Batch(assets))
    BY <1>1, <1>2, <1>5, <2>1
  <2> QED
    BY <2>1, <2>2 DEF Elements, BatchHashes
<1> QED
  BY <1>1, <1>4, <1>5, Facts
-----------------------------------------------------------------------------
(* Steps. *)

(* What an answer changes in the world.                                    *)
LEMMA AnswerApplies ==
  ASSUME TypeOK, Places, Chosen, NEW c \in Callers, Answer(c)
  PROVE  /\ phase[c] \in Requests /\ flying' = flying \ {c}
         /\ stored \subseteq stored' /\ stored' \subseteq Hashes
         /\ upserted \subseteq upserted' /\ upserted' \subseteq Hashes
         /\ \/ deployments' = deployments
            \/ deployments' = 1 /\ c = 0 /\ stage = "deployment"
         /\ missing' \subseteq Hashes
         /\ UNCHANGED <<stage, err, jwtAuth, toUpload, firstErr, cancelled, epoch, sem, degraded, at>>
<1>1. phase[c] \in Requests /\ flying' = flying \ {c}
  BY DEF Answer, Places
<1>2. UNCHANGED <<stage, err, jwtAuth, toUpload, firstErr, cancelled, epoch, sem, degraded, at>>
  BY DEF Answer, limiter
<1>3. ASSUME c \in Workers PROVE BatchHashes(toUpload, c) \subseteq Hashes
  <2>1. c \in 1..Len(Batch(toUpload)) /\ toUpload \in Seq(ToSet(Assets))
    BY <1>1, <1>3 DEF Places, WorkerPlace, Launched, Batches, Requests, TypeOK
  <2> QED
    BY <2>1, BatchKnown
<1>4. ASSUME Applied(c)
      PROVE  /\ stored \subseteq stored' /\ stored' \subseteq Hashes
             /\ upserted \subseteq upserted' /\ upserted' \subseteq Hashes
             /\ \/ deployments' = deployments
                \/ deployments' = 1 /\ c = 0 /\ stage = "deployment"
  BY <1>3, <1>4 DEF Applied, TypeOK, BatchHashes, Batches
<1>5. Ok(c) => missing' \subseteq Hashes
  BY DEF Ok, TypeOK
<1>6. CASE Ok(c)
  BY <1>1, <1>2, <1>4, <1>5, <1>6 DEF Ok
<1>7. CASE TokenExpired(c)
  BY <1>1, <1>2, <1>7 DEF TokenExpired, TypeOK
<1>8. CASE Refused(c)
  BY <1>1, <1>2, <1>8 DEF Refused, TypeOK
<1>9. CASE NotAnswered(c)
  BY <1>1, <1>2, <1>4, <1>9 DEF NotAnswered, TypeOK
<1> QED
  BY <1>6, <1>7, <1>8, <1>9 DEF Answer

(* Types. *)
LEMMA TypeStep == TypeOK /\ Places /\ Chosen /\ [Next]_vars => TypeOK'
<1> SUFFICES ASSUME TypeOK /\ Places /\ Chosen, [Next]_vars PROVE TypeOK'
  OBVIOUS
<1>1. ASSUME NEW c \in Callers, Send(c) PROVE TypeOK'
  <2>1. phase' \in [Callers -> Phases] /\ outcome' \in [Callers -> Outcomes]
    <3>1. CASE Returns(c, "cancelled")
      BY <3>1 DEF Returns, Goto, TypeOK, Phases, Calling, Outcomes
    <3>2. CASE UNCHANGED <<phase, outcome>>
      BY <3>2 DEF TypeOK
    <3> QED
      BY <1>1, <3>1, <3>2 DEF Send
  <2>2. attempt' \in [Callers -> Nat] /\ token' = token /\ flying' \subseteq Callers
    <3>1. CASE Returns(c, "cancelled")
      BY <1>1, <3>1 DEF Send, Returns, TypeOK
    <3>2. CASE UNCHANGED <<phase, token, attempt, outcome>>
      BY <1>1, <3>2 DEF Send, TypeOK
    <3> QED
      BY <1>1, <3>1, <3>2 DEF Send
  <2> QED
    BY <1>1, <2>1, <2>2 DEF Send, TypeOK, main, world
<1>2. ASSUME NEW c \in Callers, Answer(c) PROVE TypeOK'
  <2>1. /\ stored' \subseteq Hashes /\ upserted' \subseteq Hashes /\ deployments' \in {0, 1}
        /\ flying' \subseteq Callers /\ missing' \subseteq Hashes
        /\ UNCHANGED <<stage, err, jwtAuth, toUpload, firstErr, cancelled, epoch>>
    BY <1>2, AnswerApplies DEF TypeOK
  <2>2. phase' \in [Callers -> Phases] /\ outcome' \in [Callers -> Outcomes]
    <3>1. CASE Ok(c)
      BY <3>1 DEF Ok, Returns, Goto, TypeOK, Phases, Calling, Requests, Outcomes
    <3>2. CASE TokenExpired(c)
      BY <3>2 DEF TokenExpired, Returns, Goto, TypeOK, Phases, Calling, Requests, Outcomes
    <3>3. CASE Refused(c)
      BY <3>3 DEF Refused, Returns, Goto, TypeOK, Phases, Calling, Requests, Outcomes
    <3>4. CASE NotAnswered(c)
      BY <3>4 DEF NotAnswered, Returns, Goto, TypeOK, Phases, Calling, Requests, Outcomes
    <3> QED
      BY <1>2, <3>1, <3>2, <3>3, <3>4 DEF Answer
  <2>3. token' \in [Callers -> Nat] /\ cached' \in Nat
    BY <1>2 DEF Answer, Ok, TokenExpired, Refused, NotAnswered, Returns, TypeOK
  <2>4. attempt' \in [Callers -> Nat] /\ faults' \in Nat
    BY <1>2 DEF Answer, Ok, TokenExpired, Refused, NotAnswered, Returns, TypeOK
  <2> QED
    BY <2>1, <2>2, <2>3, <2>4 DEF TypeOK
<1>3. ASSUME NEW c \in Callers, InvalidateJWT(c) PROVE TypeOK'
  BY <1>3, Facts
  DEF InvalidateJWT, Goto, TypeOK, Stages, Outcomes, Phases, Calling, Requests, Retries, RetriesLeft, main, calls, limiter, world, vars
<1>4. ASSUME NEW c \in Callers, UploadToken(c) PROVE TypeOK'
  <2>1. phase' \in [Callers -> Phases] /\ token' \in [Callers -> Nat]
    BY <1>4 DEF UploadToken, Goto, TypeOK, Phases, Calling, Requests
  <2>2. UNCHANGED <<attempt, outcome, flying, cached, main, limiter, world>>
    BY <1>4 DEF UploadToken
  <2> QED
    BY <2>1, <2>2 DEF TypeOK, main, world
<1>5. ASSUME NEW w \in Workers, Acquire(w) PROVE TypeOK'
  BY <1>5, Facts
  DEF Acquire, Goto, TypeOK, Stages, Outcomes, Phases, Calling, Requests, Retries, RetriesLeft, main, calls, limiter, world, vars
<1>6. ASSUME NEW w \in Workers, Enter(w) PROVE TypeOK'
  BY <1>6, Facts
  DEF Enter, Goto, TypeOK, Stages, Outcomes, Phases, Calling, Requests, Retries, RetriesLeft, main, calls, limiter, world, vars
<1>7. ASSUME NEW w \in Workers, GiveUp(w) PROVE TypeOK'
  BY <1>7, Facts
  DEF GiveUp, Goto, TypeOK, Stages, Outcomes, Phases, Calling, Requests, Retries, RetriesLeft, main, calls, limiter, world, vars
<1>8. ASSUME NEW w \in Workers, Record(w) PROVE TypeOK'
  BY <1>8, Facts
  DEF Record, Count, KeepFirstError, Goto, TypeOK, Stages, Outcomes, Phases, Calling, Requests, Retries, RetriesLeft, main, calls, limiter, world, vars
<1>9. ASSUME NEW w \in Workers, Release(w) PROVE TypeOK'
  BY <1>9, Facts
  DEF Release, TypeOK, Stages, Outcomes, Phases, Calling, Requests, Retries, RetriesLeft, main, calls, limiter, world, vars
<1>10. CASE Fails
  BY <1>10, Facts
  DEF Fails, Ends, Goto, TypeOK, Stages, Outcomes, Phases, Calling, Requests, Retries, RetriesLeft, main, calls, limiter, world, vars
<1>11. CASE GotToken
  BY <1>11, Facts
  DEF GotToken, Succeeds, Begin, Goto, TypeOK, Stages, Outcomes, Phases, Calling, Requests, Retries, RetriesLeft, main, calls, limiter, world, vars
<1>12. CASE GotMissing
  <2>1. toUpload' \in Seq(ToSet(Assets))
    BY <1>12, Uploads DEF GotMissing
  <2>2. phase' \in [Callers -> Phases] /\ outcome' \in [Callers -> Outcomes]
    BY <1>12, Facts DEF GotMissing, Goto, TypeOK, Phases, Outcomes
  <2> QED
    BY <1>12, <2>1, <2>2 DEF GotMissing, TypeOK, Stages, world
<1>13. CASE Uploaded
  <2>1. phase' \in [Callers -> Phases] /\ outcome' \in [Callers -> Outcomes]
    BY <1>13, Facts DEF Uploaded, Begin, Ends, Goto, TypeOK, Phases, Calling, Requests, Outcomes
  <2>2. token' \in [Callers -> Nat]
    BY <1>13, Facts DEF Uploaded, Begin, TypeOK
  <2>3. stage' \in Stages /\ err' \in Outcomes
    BY <1>13 DEF Uploaded, Begin, Ends, TypeOK, Stages
  <2> QED
    BY <1>13, <2>1, <2>2, <2>3 DEF Uploaded, TypeOK, world
<1>14. CASE Upserted
  BY <1>14, Facts
  DEF Upserted, Succeeds, CreateDeployment, Begin, Goto, TypeOK, Stages, Outcomes, Phases, Calling, Requests, Retries, RetriesLeft, main, calls, limiter, world, vars
<1>15. CASE Deployed
  BY <1>15, Facts
  DEF Deployed, Succeeds, Ends, Goto, TypeOK, Stages, Outcomes, Phases, Calling, Requests, Retries, RetriesLeft, main, calls, limiter, world, vars
<1>16. CASE Cancel
  BY <1>16, Facts
  DEF Cancel, TypeOK, Stages, Outcomes, Phases, Calling, Requests, Retries, RetriesLeft, main, calls, limiter, world, vars
<1>17. CASE Expire
  BY <1>17, Facts
  DEF Expire, TypeOK, Stages, Outcomes, Phases, Calling, Requests, Retries, RetriesLeft, main, calls, limiter, world, vars
<1>18. CASE UNCHANGED vars
  BY <1>18, Facts
  DEF TypeOK, Stages, Outcomes, Phases, Calling, Requests, Retries, RetriesLeft, main, calls, limiter, world, vars
<1> QED
  BY <1>1, <1>2, <1>3, <1>4, <1>5, <1>6, <1>7, <1>8, <1>9, <1>10, <1>11, <1>12, <1>13, <1>14, <1>15, <1>16, <1>17, <1>18
  DEF Next, Running, Call, Worker, DeployPages, Returned

(* The steps of the uploading goroutines are steps of the limiter.         *)
LEMMA LimiterStep == LimiterInv /\ [Next]_vars => LimiterInv'
<1>1. ASSUME NEW w \in Workers, Acquire(w) PROVE Limit!Next
  BY <1>1 DEF Acquire, Limit!Next
<1>2. ASSUME NEW w \in Workers, Enter(w) PROVE Limit!Next
  BY <1>2 DEF Enter, Limit!Next
<1>3. ASSUME NEW w \in Workers, GiveUp(w) PROVE Limit!Next
  BY <1>3 DEF GiveUp, Limit!Next
<1>4. ASSUME NEW w \in Workers, Release(w) PROVE Limit!Next
  BY <1>4 DEF Release, Limit!Next
<1>5. ASSUME NEW w \in Workers, Record(w), LimiterInv PROVE [Limit!Next]_(Limit!limiter)
  <2>1. degraded \in BOOLEAN
    BY <1>5 DEF LimiterInv, Limit!TypeOK
  <2> QED
    BY <1>5, <2>1 DEF Record, Limit!Next, Limit!Degrade, Limit!limiter
<1>6. ASSUME [Next]_vars,
             ~ \E w \in Workers : Acquire(w) \/ Enter(w) \/ GiveUp(w) \/ Record(w) \/ Release(w)
      PROVE UNCHANGED <<sem, degraded, at>>
  BY <1>6 DEF Next, Running, Worker, Call, Send, Answer, InvalidateJWT, UploadToken, DeployPages,
              Fails, GotToken, GotMissing, Uploaded, Upserted, Deployed, Cancel, Expire, Returned,
              vars, limiter
<1>7. LimiterInv /\ [Next]_vars => [Limit!Next]_(Limit!limiter)
  BY <1>1, <1>2, <1>3, <1>4, <1>5, <1>6 DEF Limit!limiter
<1> QED
  BY <1>7, LimiterInductive

LEMMA ChosenStep == TypeOK /\ Places /\ Chosen /\ [Next]_vars => Chosen'
<1> SUFFICES ASSUME TypeOK, Places, Chosen, [Next]_vars, stage' = "upload"
             PROVE  toUpload' = Split(Assets, missing')
  BY DEF Chosen
<1>1. ASSUME NEW c \in Callers, Answer(c) PROVE toUpload' = Split(Assets, missing')
  <2>1. UNCHANGED <<stage, toUpload>>
    BY <1>1 DEF Answer
  <2>2. UNCHANGED missing
    BY <1>1, <2>1 DEF Answer, Ok, TokenExpired, Refused, NotAnswered
  <2> QED
    BY <2>1, <2>2 DEF Chosen
<1>2. CASE GotMissing
  BY <1>2 DEF GotMissing
<1>3. CASE UNCHANGED <<stage, toUpload, missing>>
  BY <1>3 DEF Chosen
<1>4. ASSUME ~ (\E c \in Callers : Answer(c)), ~ GotMissing
      PROVE  UNCHANGED <<stage, toUpload, missing>>
  BY <1>4 DEF Next, Running, Worker, Call, Send, InvalidateJWT, UploadToken, DeployPages,
              Acquire, Enter, GiveUp, Record, Release, Fails, GotToken, Uploaded, Upserted,
              Deployed, CreateDeployment, Begin, Ends, Cancel, Expire, Returned, vars, main
<1> QED
  BY <1>1, <1>2, <1>3, <1>4


(* A caller goes on with its call.                                         *)
LEMMA CallerMoves ==
  ASSUME TypeOK, Places, NEW c \in Callers, phase[c] \in Calling,
         NEW p \in Calling, phase' = [phase EXCEPT ![c] = p],
         stage = "upload-token" => p \in {"lock", "fetch", "returned"},
         NEW o, outcome' = [outcome EXCEPT ![c] = o], p = "returned" => o # "none",
         flying' \subseteq flying \cup {c}, c \in flying' => p \in Requests,
         UNCHANGED <<stage, toUpload, at>>
  PROVE  Places'
<1>1. /\ phase \in [Callers -> Phases] /\ outcome \in [Callers -> Outcomes]
      /\ \A d \in flying : d \in Callers
  BY DEF TypeOK
<1>2. /\ phase'[c] = p /\ outcome'[c] = o
      /\ \A d \in Callers : d # c => phase'[d] = phase[d] /\ outcome'[d] = outcome[d]
  BY <1>1
<1>3. \A d \in flying' : phase'[d] \in Requests
  BY <1>1, <1>2 DEF Places
<1>4. \A d \in Callers : phase'[d] = "returned" => outcome'[d] # "none"
  BY <1>2 DEF Places
<1>5. MainPlace'
  <2>1. CASE c = 0
    BY <1>2, <2>1 DEF Places, MainPlace, Calling, Requests
  <2>2. CASE c # 0
    BY <1>2, <2>2, Facts DEF Places, MainPlace
  <2> QED
    BY <2>1, <2>2
<1>6. ASSUME NEW w \in Workers PROVE WorkerPlace(w)'
  <2>1. WorkerPlace(w)
    BY DEF Places
  <2>2. CASE w = c
    BY <1>2, <2>1, <2>2 DEF WorkerPlace, Launched, Batches, Calling, Requests
  <2>3. CASE w # c
    BY <1>2, <2>1, <2>3, Facts DEF WorkerPlace, Launched, Batches
  <2> QED
    BY <2>2, <2>3
<1> QED
  BY <1>3, <1>4, <1>5, <1>6 DEF Places

(* The goroutine of a batch moves outside of its request.                  *)
LEMMA WorkerMoves ==
  ASSUME TypeOK, LimiterInv, Places, NEW w \in Workers, phase[w] \notin Requests,
         NEW p, phase' = [phase EXCEPT ![w] = p], p # "returned",
         NEW q, at' = [at EXCEPT ![w] = q], WorkerPlace(w)',
         \A c \in Callers : c # w => outcome'[c] = outcome[c],
         UNCHANGED <<stage, toUpload, flying>>
  PROVE  Places'
<1>1. phase \in [Callers -> Phases] /\ at \in [Workers -> Limit!Places] /\ flying \subseteq Callers
  BY DEF TypeOK, LimiterInv, Limit!TypeOK
<1>2. w \in Callers /\ w # 0 /\ 0 \in Callers /\ w \notin flying /\ Workers \subseteq Callers
  BY Facts DEF Places
<1>3. phase'[w] = p /\ \A d \in Callers : d # w => phase'[d] = phase[d]
  BY <1>1, <1>2
<1>4. \A v \in Workers : v # w => at'[v] = at[v]
  BY <1>1
<1>5. \A v \in Workers : v # w => WorkerPlace(v)'
  BY <1>2, <1>3, <1>4 DEF Places, WorkerPlace, Launched, Batches
<1>6. \A v \in Workers : WorkerPlace(v)'
  BY <1>5
<1>7. MainPlace'
  BY <1>2, <1>3 DEF Places, MainPlace
<1>8. \A d \in flying' : phase'[d] \in Requests
  BY <1>1, <1>2, <1>3 DEF Places
<1>9. \A d \in Callers : phase'[d] = "returned" => outcome'[d] # "none"
  BY <1>3 DEF Places
<1> QED
  BY <1>6, <1>7, <1>8, <1>9 DEF Places

(* Where everyone can be. *)
LEMMA PlacesStep == TypeOK /\ LimiterInv /\ Places /\ Chosen /\ Issued /\ [Next]_vars => Places'
<1> SUFFICES ASSUME TypeOK /\ LimiterInv /\ Places /\ Chosen /\ Issued, [Next]_vars PROVE Places'
  OBVIOUS
<1>1. ASSUME NEW c \in Callers, Send(c) PROVE Places'
  <2>1. phase[c] \in Requests /\ UNCHANGED <<stage, toUpload, at>>
    BY <1>1 DEF Send, main, limiter
  <2>2. CASE Returns(c, "cancelled") /\ UNCHANGED flying
    <3>1. flying' \subseteq flying \cup {c} /\ c \notin flying'
      BY <1>1, <2>2 DEF Send
    <3>2. phase[c] \in Calling /\ "returned" \in Calling
      BY <2>1 DEF Calling
    <3>3. /\ phase' = [phase EXCEPT ![c] = "returned"]
          /\ outcome' = [outcome EXCEPT ![c] = "cancelled"]
      BY <2>2 DEF Returns, Goto
    <3> QED
      BY <2>1, <3>1, <3>2, <3>3, CallerMoves
  <2>3. CASE flying' = flying \cup {c} /\ UNCHANGED <<phase, outcome>>
    BY <2>1, <2>3 DEF Places, MainPlace, WorkerPlace, Launched, Batches
  <2> QED
    BY <1>1, <2>2, <2>3 DEF Send
<1>2. ASSUME NEW c \in Callers, Answer(c) PROVE Places'
  <2>1. /\ phase[c] \in Requests /\ flying' = flying \ {c}
        /\ UNCHANGED <<stage, toUpload, at>>
    BY <1>2, AnswerApplies
  <2>2. phase[c] \in Calling /\ flying' \subseteq flying \cup {c} /\ c \notin flying'
    BY <2>1 DEF Calling
  <2>3. ASSUME NEW r \in {"ok", "expired", "refused", "cancelled", "exhausted"}, Returns(c, r)
        PROVE  Places'
    BY <2>1, <2>2, <2>3, CallerMoves DEF Returns, Goto, Calling
  <2>4. CASE Ok(c) /\ phase[c] = "fetch"
    <3> DEFINE p == IF stage = "upload-token" THEN "returned" ELSE "repost"
               o == IF stage = "upload-token" THEN "ok" ELSE outcome[c]
    <3>1. phase' = [phase EXCEPT ![c] = p] /\ outcome' = [outcome EXCEPT ![c] = o]
      BY <2>4 DEF Ok, Goto
    <3>2. /\ p \in Calling
          /\ p = "returned" => o # "none"
          /\ stage = "upload-token" => p \in {"lock", "fetch", "returned"}
      BY DEF Calling, Requests
    <3> HIDE DEF p, o
    <3> QED
      BY <2>1, <2>2, <3>1, <3>2, CallerMoves
  <2>5. CASE TokenExpired(c) /\ phase[c] = "post"
    <3>1. phase' = [phase EXCEPT ![c] = "invalidate"] /\ outcome' = outcome
      BY <2>5 DEF TokenExpired, Goto
    <3>2. outcome' = [outcome EXCEPT ![c] = outcome[c]]
      BY <3>1 DEF TypeOK
    <3>3. stage # "upload-token"
      <4>1. CASE c = 0
        BY <4>1, <2>5 DEF Places, MainPlace
      <4>2. CASE c # 0
        BY <4>2, <2>5, Facts DEF Places, WorkerPlace
      <4> QED
        BY <4>1, <4>2
    <3>4. "invalidate" \in Calling /\ "invalidate" # "returned"
      BY DEF Calling
    <3> QED
      BY <2>1, <2>2, <3>1, <3>2, <3>3, <3>4, CallerMoves
  <2>6. CASE NotAnswered(c) /\ UNCHANGED <<phase, outcome>>
    BY <2>1, <2>6 DEF Places, MainPlace, WorkerPlace, Launched, Batches
  <2> QED
    BY <1>2, <2>3, <2>4, <2>5, <2>6 DEF Answer, Ok, TokenExpired, Refused, NotAnswered
<1>3. ASSUME NEW c \in Callers, InvalidateJWT(c) PROVE Places'
  <2>1. /\ phase[c] = "invalidate" /\ phase' = [phase EXCEPT ![c] = "lock"]
        /\ UNCHANGED <<stage, toUpload, at, flying, outcome>>
    BY <1>3 DEF InvalidateJWT, Goto, main, limiter
  <2>2. outcome' = [outcome EXCEPT ![c] = outcome[c]]
    BY <2>1 DEF TypeOK
  <2>3. "lock" \in Calling /\ phase[c] \in Calling /\ c \notin flying
    BY <2>1 DEF Calling, Requests, Places
  <2> QED
    BY <2>1, <2>2, <2>3, CallerMoves
<1>4. ASSUME NEW c \in Callers, UploadToken(c) PROVE Places'
  <2> DEFINE p == IF phase'[c] = "fetch" THEN "fetch" ELSE "repost"
  <2>1. /\ phase[c] = "lock" /\ phase' = [phase EXCEPT ![c] = p]
        /\ p = "fetch" \/ cached # 0
        /\ UNCHANGED <<stage, toUpload, at, flying, outcome>>
    BY <1>4 DEF UploadToken, Goto, TypeOK, main, limiter
  <2>2. outcome' = [outcome EXCEPT ![c] = outcome[c]]
    BY <2>1 DEF TypeOK
  <2>3. p \in Calling /\ p # "returned" /\ p \in Requests /\ phase[c] \in Calling
    BY <2>1 DEF Calling, Requests
  <2>4. stage = "upload-token" => p = "fetch"
    <3>1. CASE c = 0
      BY <3>1, <2>1 DEF Issued
    <3>2. CASE c # 0
      BY <3>2, <2>1, Facts DEF Places, WorkerPlace
    <3> QED
      BY <3>1, <3>2
  <2> HIDE DEF p
  <2> QED
    BY <2>1, <2>2, <2>3, <2>4, CallerMoves
<1>5. ASSUME NEW w \in Workers, Acquire(w) PROVE Places'
  <2>1. /\ phase[w] = "idle" /\ phase' = [phase EXCEPT ![w] = "acquire"]
        /\ UNCHANGED <<stage, toUpload, flying, outcome>>
    BY <1>5 DEF Acquire, Goto, main
  <2> DEFINE q == at'[w]
  <2>2. at' = [at EXCEPT ![w] = q] /\ q \in {"normal", "degraded"}
    BY <1>5 DEF Acquire, Limit!Acquire, Limit!Goto, LimiterInv, Limit!TypeOK
  <2>3. phase'[w] = "acquire" /\ phase[w] \notin Requests
    BY <2>1, Facts DEF TypeOK, Requests
  <2>4. WorkerPlace(w)'
    BY <1>5, <2>1, <2>2, <2>3 DEF Acquire, Places, WorkerPlace, Launched, Batches
  <2> HIDE DEF q
  <2> QED
    BY <2>1, <2>2, <2>3, <2>4, WorkerMoves
<1>6. ASSUME NEW w \in Workers, Enter(w) PROVE Places'
  <2>1. /\ phase[w] = "acquire" /\ phase' = [phase EXCEPT ![w] = "post"]
        /\ UNCHANGED <<stage, toUpload, flying, outcome>>
    BY <1>6 DEF Enter, Goto, main
  <2> DEFINE q == at'[w]
  <2>2. at' = [at EXCEPT ![w] = q] /\ q \in {"in"}
    BY <1>6 DEF Enter, Limit!Enter, Limit!Goto, LimiterInv, Limit!TypeOK
  <2>3. phase'[w] = "post" /\ phase[w] \notin Requests
    BY <2>1, Facts DEF TypeOK, Requests
  <2>4. WorkerPlace(w)'
    BY <1>6, <2>1, <2>2, <2>3 DEF Enter, Places, WorkerPlace, Launched, Batches
  <2> HIDE DEF q
  <2> QED
    BY <2>1, <2>2, <2>3, <2>4, WorkerMoves
<1>7. ASSUME NEW w \in Workers, GiveUp(w) PROVE Places'
  <2>1. /\ phase[w] = "acquire" /\ phase' = [phase EXCEPT ![w] = "left"]
        /\ UNCHANGED <<stage, toUpload, flying, outcome>>
    BY <1>7 DEF GiveUp, Goto, main
  <2> DEFINE q == at'[w]
  <2>2. at' = [at EXCEPT ![w] = q] /\ q \in {"out"}
    BY <1>7 DEF GiveUp, Limit!GiveUp, Limit!Goto, LimiterInv, Limit!TypeOK
  <2>3. phase'[w] = "left" /\ phase[w] \notin Requests
    BY <2>1, Facts DEF TypeOK, Requests
  <2>4. WorkerPlace(w)'
    BY <1>7, <2>1, <2>2, <2>3 DEF GiveUp, Places, WorkerPlace, Launched, Batches
  <2> HIDE DEF q
  <2> QED
    BY <2>1, <2>2, <2>3, <2>4, WorkerMoves
<1>8. ASSUME NEW w \in Workers, Record(w) PROVE Places'
  BY <1>8, Facts
  DEF Record, Count, KeepFirstError, Goto, Places, WorkerPlace, MainPlace, Launched, Batches, Calling, Requests, TypeOK, main, calls, limiter, world, vars
<1>9. ASSUME NEW w \in Workers, Release(w) PROVE Places'
  <2>1. /\ phase[w] = "left"
        /\ UNCHANGED <<stage, toUpload, flying, outcome, phase>>
    BY <1>9 DEF Release, main, calls
  <2> DEFINE q == at'[w]
  <2>2. at' = [at EXCEPT ![w] = q] /\ q \in {"first", "second", "third", "out"} /\ at[w] # "out"
    BY <1>9 DEF Release, Limit!Leave, Limit!Release, Limit!Try, Limit!Tries, Limit!NextTry, Limit!Goto,
                LimiterInv, Limit!TypeOK
  <2>3. phase[w] \notin Requests /\ phase' = [phase EXCEPT ![w] = "left"]
    BY <2>1, Facts DEF TypeOK, Requests
  <2>4. WorkerPlace(w)'
    BY <2>1, <2>2 DEF Places, WorkerPlace, Launched, Batches
  <2> HIDE DEF q
  <2> QED
    BY <2>1, <2>2, <2>3, <2>4, WorkerMoves
<1>10. CASE Fails
  <2>1. /\ phase[0] = "returned" /\ stage' = "done"
        /\ phase' = [phase EXCEPT ![0] = "left"] /\ outcome' = [outcome EXCEPT ![0] = "none"]
        /\ UNCHANGED <<toUpload, flying, at>>
    BY <1>10 DEF Fails, Ends, Goto, limiter
  <2>2. stage \notin {"upload", "done"} /\ 0 \notin flying
    BY <2>1 DEF Places, MainPlace, Requests
  <2>3. /\ phase'[0] = "left"
        /\ \A c \in Callers : c # 0 => phase'[c] = phase[c] /\ outcome'[c] = outcome[c]
    BY <2>1, Facts DEF TypeOK
  <2>4. \A w \in Workers : WorkerPlace(w)'
    <3> SUFFICES ASSUME NEW w \in Workers PROVE WorkerPlace(w)'
      OBVIOUS
    <3>1. WorkerPlace(w) /\ phase'[w] = phase[w] /\ at'[w] = at[w] /\ Launched' = Launched
      BY <2>1, <2>3, Facts DEF Places, Launched, Batches
    <3>2. phase[w] \in {"idle", "left"} /\ at[w] = "out"
      BY <2>2, <3>1 DEF WorkerPlace, TypeOK, Stages
    <3> QED
      BY <2>1, <3>1, <3>2 DEF WorkerPlace
  <2>5. \A c \in flying' : phase'[c] \in Requests
    BY <2>1, <2>2, <2>3 DEF Places, TypeOK
  <2> QED
    BY <2>1, <2>3, <2>4, <2>5 DEF Places, MainPlace
<1>11. CASE GotToken
  BY <1>11, Facts
  DEF GotToken, Succeeds, Begin, Goto, Places, WorkerPlace, MainPlace, Launched, Batches, Calling, Requests, TypeOK, main, calls, limiter, world, vars
<1>12. CASE GotMissing
  BY <1>12, Facts
  DEF GotMissing, Succeeds, Goto, Places, WorkerPlace, MainPlace, Launched, Batches, Calling, Requests, TypeOK, main, calls, limiter, world, vars
<1>13. CASE Uploaded
  BY <1>13, Facts
  DEF Uploaded, Begin, Ends, Goto, Places, WorkerPlace, MainPlace, Launched, Batches, Calling, Requests, TypeOK, main, calls, limiter, world, vars
<1>14. CASE Upserted
  BY <1>14, Facts
  DEF Upserted, Succeeds, CreateDeployment, Begin, Goto, Places, WorkerPlace, MainPlace, Launched, Batches, Calling, Requests, TypeOK, main, calls, limiter, world, vars
<1>15. CASE Deployed
  BY <1>15, Facts
  DEF Deployed, Succeeds, Ends, Goto, Places, WorkerPlace, MainPlace, Launched, Batches, Calling, Requests, TypeOK, main, calls, limiter, world, vars
<1>16. CASE Cancel
  BY <1>16, Facts
  DEF Cancel, Places, WorkerPlace, MainPlace, Launched, Batches, Calling, Requests, TypeOK, main, calls, limiter, world, vars
<1>17. CASE Expire
  BY <1>17, Facts
  DEF Expire, Places, WorkerPlace, MainPlace, Launched, Batches, Calling, Requests, TypeOK, main, calls, limiter, world, vars
<1>18. CASE UNCHANGED vars
  BY <1>18, Facts
  DEF Places, WorkerPlace, MainPlace, Launched, Batches, Calling, Requests, TypeOK, main, calls, limiter, world, vars
<1> QED
  BY <1>1, <1>2, <1>3, <1>4, <1>5, <1>6, <1>7, <1>8, <1>9, <1>10, <1>11, <1>12, <1>13, <1>14, <1>15, <1>16, <1>17, <1>18
  DEF Next, Running, Call, Worker, DeployPages, Returned

(* What is stored. *)
LEMMA KnownStep == TypeOK /\ LimiterInv /\ Places /\ Chosen /\ Known /\ [Next]_vars => Known'
<1> SUFFICES ASSUME TypeOK /\ LimiterInv /\ Places /\ Chosen /\ Known, [Next]_vars PROVE Known'
  OBVIOUS
<1>1. ASSUME NEW c \in Callers, Send(c) PROVE Known'
  BY <1>1, Facts
  DEF Send, Returns, Goto, Known, Reported, Carried, NeverSent, Acknowledged, Complete, Launched, Batches, Places, WorkerPlace, MainPlace, Calling, Requests, TypeOK, main, calls, limiter, world, vars
<1>2. ASSUME NEW c \in Callers, Answer(c) PROVE Known'
  <2> USE <1>2
  <2>1. /\ phase[c] \in Requests /\ c \in flying
        /\ stored \subseteq stored' /\ stored' \subseteq Hashes
        /\ upserted \subseteq upserted' /\ upserted' \subseteq Hashes
        /\ \/ deployments' = deployments
           \/ deployments' = 1 /\ c = 0 /\ stage = "deployment"
        /\ UNCHANGED <<stage, toUpload, firstErr, cancelled>>
    BY AnswerApplies DEF Answer
  <2>2. \A d \in Callers : d # c => phase'[d] = phase[d] /\ outcome'[d] = outcome[d]
    BY DEF Answer, Ok, TokenExpired, Refused, NotAnswered, Returns, Goto, TypeOK
  <2>3. phase'[c] = "returned" /\ outcome'[c] = "ok" =>
            Ok(c) /\ (phase[c] # "fetch" \/ stage = "upload-token")
    BY <2>1 DEF Answer, Ok, TokenExpired, Refused, NotAnswered, Returns, Goto, TypeOK, Requests
  <2>4. missing' = missing \/ (Ok(c) /\ c = 0 /\ stage = "check-missing" /\ missing' = Hashes \ stored)
    BY DEF Answer, Ok, TokenExpired, Refused, NotAnswered
  <2>5. c # 0 => c \in Launched /\ stage = "upload"
    BY <2>1, Facts DEF Places, WorkerPlace, Requests, TypeOK, Stages
  <2>6. phase'[c] \in Calling /\ phase[c] \in Calling
    BY <2>1 DEF Answer, Ok, TokenExpired, Refused, NotAnswered, Returns, Goto, TypeOK, Calling, Requests
  <2>7. Reported'
    <3>1. CASE stage = "upload"
      BY <2>1, <2>4, <3>1 DEF Known, Reported
    <3>2. CASE stage = "check-missing" /\ phase'[0] = "returned" /\ outcome'[0] = "ok"
      <4>1. c = 0
        BY <2>5, <3>2
      <4>2. Ok(0) /\ missing' = Hashes \ stored
        BY <2>3, <3>2, <4>1 DEF Ok
      <4> QED
        BY <2>1, <4>2 DEF Reported
    <3> QED
      BY <2>1, <3>1, <3>2 DEF Reported
  <2>8. ASSUME NEW w \in Workers PROVE Carried(w)'
    <3>1. Carried(w) /\ Launched' = Launched
      BY <2>1 DEF Known, Launched, Batches
    <3>2. CASE w # c
      BY <2>1, <2>2, <3>1, <3>2, Facts DEF Carried
    <3>3. CASE w = c
      <4>1. phase'[w] # "left"
        BY <2>6, <3>3 DEF Calling, Requests
      <4>2. ASSUME phase'[w] = "returned", outcome'[w] = "ok", stage = "upload"
            PROVE  BatchHashes(toUpload, w) \subseteq stored'
        BY <2>3, <3>3, <4>2 DEF Ok, Applied, BatchHashes, Batches
      <4> QED
        BY <2>1, <4>1, <4>2 DEF Carried
    <3> QED
      BY <3>2, <3>3
  <2>9. Acknowledged'
    <3> SUFFICES ASSUME stage = "upsert-hashes" PROVE Acknowledged'
      BY <2>1 DEF Acknowledged
    <3>1. c = 0
      BY <2>5
    <3>2. Hashes \subseteq stored
      BY <2>1, <3>1 DEF Known, Acknowledged, NeverSent
    <3>3. Ok(0) /\ phase[0] # "fetch" => upserted' = Hashes
      BY <2>1, <3>1 DEF Ok, Applied
    <3> QED
      BY <2>1, <2>3, <3>1, <3>2, <3>3 DEF Acknowledged
  <2>10. Complete'
    BY <2>1 DEF Known, Complete
  <2> QED
    BY <2>7, <2>8, <2>9, <2>10 DEF Known
<1>3. ASSUME NEW c \in Callers, InvalidateJWT(c) PROVE Known'
  BY <1>3, Facts
  DEF InvalidateJWT, Goto, Known, Reported, Carried, NeverSent, Acknowledged, Complete, Launched, Batches, Places, WorkerPlace, MainPlace, Calling, Requests, TypeOK, main, calls, limiter, world, vars
<1>4. ASSUME NEW c \in Callers, UploadToken(c) PROVE Known'
  BY <1>4, Facts
  DEF UploadToken, Goto, Known, Reported, Carried, NeverSent, Acknowledged, Complete, Launched, Batches, Places, WorkerPlace, MainPlace, Calling, Requests, TypeOK, main, calls, limiter, world, vars
<1>5. ASSUME NEW w \in Workers, Acquire(w) PROVE Known'
  BY <1>5, Facts
  DEF Acquire, Goto, Known, Reported, Carried, NeverSent, Acknowledged, Complete, Launched, Batches, Places, WorkerPlace, MainPlace, Calling, Requests, TypeOK, main, calls, limiter, world, vars
<1>6. ASSUME NEW w \in Workers, Enter(w) PROVE Known'
  BY <1>6, Facts
  DEF Enter, Goto, Known, Reported, Carried, NeverSent, Acknowledged, Complete, Launched, Batches, Places, WorkerPlace, MainPlace, Calling, Requests, TypeOK, main, calls, limiter, world, vars
<1>7. ASSUME NEW w \in Workers, GiveUp(w) PROVE Known'
  BY <1>7, Facts
  DEF GiveUp, Goto, Known, Reported, Carried, NeverSent, Acknowledged, Complete, Launched, Batches, Places, WorkerPlace, MainPlace, Calling, Requests, TypeOK, main, calls, limiter, world, vars
<1>8. ASSUME NEW w \in Workers, Record(w) PROVE Known'
  BY <1>8, Facts
  DEF Record, Count, KeepFirstError, Goto, Known, Reported, Carried, NeverSent, Acknowledged, Complete, Launched, Batches, Places, WorkerPlace, MainPlace, Calling, Requests, TypeOK, main, calls, limiter, world, vars
<1>9. ASSUME NEW w \in Workers, Release(w) PROVE Known'
  BY <1>9, Facts
  DEF Release, Known, Reported, Carried, NeverSent, Acknowledged, Complete, Launched, Batches, Places, WorkerPlace, MainPlace, Calling, Requests, TypeOK, main, calls, limiter, world, vars
<1>10. CASE Fails
  BY <1>10, Facts
  DEF Fails, Ends, Goto, Known, Reported, Carried, NeverSent, Acknowledged, Complete, Launched, Batches, Places, WorkerPlace, MainPlace, Calling, Requests, TypeOK, main, calls, limiter, world, vars
<1>11. CASE GotToken
  BY <1>11, Facts
  DEF GotToken, Succeeds, Begin, Goto, Known, Reported, Carried, NeverSent, Acknowledged, Complete, Launched, Batches, Places, WorkerPlace, MainPlace, Calling, Requests, TypeOK, main, calls, limiter, world, vars
<1>12. CASE GotMissing
  BY <1>12, Facts
  DEF GotMissing, Succeeds, Goto, Known, Reported, Carried, NeverSent, Acknowledged, Complete, Launched, Batches, Places, WorkerPlace, MainPlace, Calling, Requests, TypeOK, main, calls, limiter, world, vars
<1>13. CASE Uploaded
  <2>1. /\ stage = "upload" /\ \A w \in Launched : phase[w] = "left"
        /\ UNCHANGED <<toUpload, missing, firstErr, flying, stored, upserted, deployments, cancelled>>
    BY <1>13 DEF Uploaded, world
  <2>2. /\ \/ firstErr = "none" /\ stage' = "upsert-hashes" /\ phase'[0] = "post"
           \/ stage' = "done"
    BY <1>13, Facts DEF Uploaded, Begin, Ends, Goto, TypeOK
  <2>3. ASSUME firstErr = "none" PROVE Hashes \subseteq stored \/ (cancelled /\ 0 \notin flying)
    <3>1. 0 \notin flying
      BY <2>1 DEF Places, MainPlace, Requests
    <3>2. ASSUME ~cancelled, NEW h \in Hashes PROVE h \in stored
      <4>1. CASE h \in missing
        <5>1. toUpload = Split(Assets, missing)
          BY <2>1 DEF Chosen
        <5>2. /\ 1..Len(Batch(toUpload)) \subseteq Workers
              /\ \E w \in 1..Len(Batch(toUpload)) : h \in BatchHashes(toUpload, w)
          BY <4>1, <5>1, Uploads
        <5>3. PICK w \in Workers : w \in Launched /\ h \in BatchHashes(toUpload, w)
          BY <5>2 DEF Launched, Batches
        <5>4. Carried(w) /\ phase[w] = "left"
          BY <2>1, <5>3 DEF Known
        <5> QED
          BY <2>1, <2>3, <3>2, <5>3, <5>4 DEF Carried
      <4>2. CASE h \notin missing
        BY <2>1, <4>2 DEF Known, Reported
      <4> QED
        BY <4>1, <4>2
    <3> QED
      BY <3>1, <3>2
  <2>4. Acknowledged'
    BY <2>1, <2>2, <2>3 DEF Acknowledged, NeverSent
  <2>5. Complete'
    BY <2>1, <2>2 DEF Known, Complete
  <2> QED
    BY <2>2, <2>4, <2>5 DEF Known, Reported, Carried
<1>14. CASE Upserted
  BY <1>14, Facts
  DEF Upserted, Succeeds, CreateDeployment, Begin, Goto, Known, Reported, Carried, NeverSent, Acknowledged, Complete, Launched, Batches, Places, WorkerPlace, MainPlace, Calling, Requests, TypeOK, main, calls, limiter, world, vars
<1>15. CASE Deployed
  BY <1>15, Facts
  DEF Deployed, Succeeds, Ends, Goto, Known, Reported, Carried, NeverSent, Acknowledged, Complete, Launched, Batches, Places, WorkerPlace, MainPlace, Calling, Requests, TypeOK, main, calls, limiter, world, vars
<1>16. CASE Cancel
  BY <1>16, Facts
  DEF Cancel, Known, Reported, Carried, NeverSent, Acknowledged, Complete, Launched, Batches, Places, WorkerPlace, MainPlace, Calling, Requests, TypeOK, main, calls, limiter, world, vars
<1>17. CASE Expire
  BY <1>17, Facts
  DEF Expire, Known, Reported, Carried, NeverSent, Acknowledged, Complete, Launched, Batches, Places, WorkerPlace, MainPlace, Calling, Requests, TypeOK, main, calls, limiter, world, vars
<1>18. CASE UNCHANGED vars
  BY <1>18, Facts
  DEF Known, Reported, Carried, NeverSent, Acknowledged, Complete, Launched, Batches, Places, WorkerPlace, MainPlace, Calling, Requests, TypeOK, main, calls, limiter, world, vars
<1> QED
  BY <1>1, <1>2, <1>3, <1>4, <1>5, <1>6, <1>7, <1>8, <1>9, <1>10, <1>11, <1>12, <1>13, <1>14, <1>15, <1>16, <1>17, <1>18
  DEF Next, Running, Call, Worker, DeployPages, Returned

(* The tokens in use. *)
LEMMA TokensStep == TypeOK /\ Places /\ Tokens /\ Issued /\ [Next]_vars => Tokens'
<1> SUFFICES ASSUME TypeOK /\ Places /\ Tokens /\ Issued, [Next]_vars PROVE Tokens'
  OBVIOUS
<1>1. ASSUME NEW c \in Callers, Send(c) PROVE Tokens'
  BY <1>1, Facts
  DEF Send, Returns, Goto, Tokens, Issued, Places, WorkerPlace, MainPlace, Calling, Requests, TypeOK, main, calls, limiter, world, vars
<1>2. ASSUME NEW c \in Callers, Answer(c) PROVE Tokens'
  <2> USE <1>2
  <2>1. phase[c] \in Requests /\ UNCHANGED <<stage, jwtAuth, epoch>>
    BY DEF Answer, Places
  <2>2. \A d \in Callers : d # c => phase'[d] = phase[d] /\ token'[d] = token[d]
    BY DEF Answer, Ok, TokenExpired, Refused, NotAnswered, Returns, Goto, TypeOK
  <2>3. \/ phase'[c] \in {"returned", phase[c]} /\ token'[c] = token[c] /\ cached' = cached
        \/ /\ phase[c] = "fetch" /\ cached' = epoch /\ token'[c] = epoch
           /\ phase'[c] = IF stage = "upload-token" THEN "returned" ELSE "repost"
        \/ /\ phase[c] = "post" /\ token[c] # epoch /\ cached' = cached
           /\ phase'[c] = "invalidate" /\ token'[c] = token[c]
    BY DEF Answer, Ok, TokenExpired, Refused, NotAnswered, Returns, Goto, TypeOK, Expired
  <2>4. epoch <= 2 /\ epoch # 0 => epoch \in {1, 2}
    BY DEF TypeOK
  <2>5. /\ token[c] \in Nat /\ cached \in Nat /\ jwtAuth \in Nat
    BY DEF TypeOK
  <2> SUFFICES ASSUME epoch <= 2 PROVE Tokens'
    BY <2>1 DEF Tokens
  <2>6. epoch \in {1, 2}
    BY <2>4 DEF TypeOK
  <2>7. cached' \in {cached, epoch} /\ cached' <= epoch /\ jwtAuth' <= epoch
    BY <2>1, <2>3, <2>6 DEF Tokens
  <2>8. ASSUME NEW d \in Callers, d # c
        PROVE  /\ token'[d] <= epoch
               /\ phase'[d] = "repost" => token'[d] = 2
               /\ phase'[d] \in {"repost", "invalidate"} => epoch = 2
               /\ phase'[d] \in {"lock", "fetch"} /\ stage # "upload-token" =>
                      epoch = 2 /\ cached' # 1
               /\ phase'[d] = "post" => token'[d] # 0
    BY <2>2, <2>7, <2>8 DEF Tokens
  <2>9. /\ token'[c] <= epoch
        /\ phase'[c] = "repost" => token'[c] = 2
        /\ phase'[c] \in {"repost", "invalidate"} => epoch = 2
        /\ phase'[c] \in {"lock", "fetch"} /\ stage # "upload-token" =>
               epoch = 2 /\ cached' # 1
        /\ phase'[c] = "post" => token'[c] # 0
    BY <2>1, <2>3, <2>5, <2>6, <2>7 DEF Tokens, Requests
  <2> QED
    BY <2>1, <2>7, <2>8, <2>9 DEF Tokens
<1>3. ASSUME NEW c \in Callers, InvalidateJWT(c) PROVE Tokens'
  BY <1>3, Facts
  DEF InvalidateJWT, Goto, Tokens, Issued, Places, WorkerPlace, MainPlace, Calling, Requests, TypeOK, main, calls, limiter, world, vars
<1>4. ASSUME NEW c \in Callers, UploadToken(c) PROVE Tokens'
  BY <1>4, Facts
  DEF UploadToken, Goto, Tokens, Issued, Places, WorkerPlace, MainPlace, Calling, Requests, TypeOK, main, calls, limiter, world, vars
<1>5. ASSUME NEW w \in Workers, Acquire(w) PROVE Tokens'
  BY <1>5, Facts
  DEF Acquire, Goto, Tokens, Issued, Places, WorkerPlace, MainPlace, Calling, Requests, TypeOK, main, calls, limiter, world, vars
<1>6. ASSUME NEW w \in Workers, Enter(w) PROVE Tokens'
  BY <1>6, Facts
  DEF Enter, Goto, Tokens, Issued, Places, WorkerPlace, MainPlace, Calling, Requests, TypeOK, main, calls, limiter, world, vars
<1>7. ASSUME NEW w \in Workers, GiveUp(w) PROVE Tokens'
  BY <1>7, Facts
  DEF GiveUp, Goto, Tokens, Issued, Places, WorkerPlace, MainPlace, Calling, Requests, TypeOK, main, calls, limiter, world, vars
<1>8. ASSUME NEW w \in Workers, Record(w) PROVE Tokens'
  BY <1>8, Facts
  DEF Record, Count, KeepFirstError, Goto, Tokens, Issued, Places, WorkerPlace, MainPlace, Calling, Requests, TypeOK, main, calls, limiter, world, vars
<1>9. ASSUME NEW w \in Workers, Release(w) PROVE Tokens'
  BY <1>9, Facts
  DEF Release, Tokens, Issued, Places, WorkerPlace, MainPlace, Calling, Requests, TypeOK, main, calls, limiter, world, vars
<1>10. CASE Fails
  BY <1>10, Facts
  DEF Fails, Ends, Goto, Tokens, Issued, Places, WorkerPlace, MainPlace, Calling, Requests, TypeOK, main, calls, limiter, world, vars
<1>11. CASE GotToken
  BY <1>11, Facts
  DEF GotToken, Succeeds, Begin, Goto, Tokens, Issued, Places, WorkerPlace, MainPlace, Calling, Requests, TypeOK, main, calls, limiter, world, vars
<1>12. CASE GotMissing
  BY <1>12, Facts
  DEF GotMissing, Succeeds, Goto, Tokens, Issued, Places, WorkerPlace, MainPlace, Calling, Requests, TypeOK, main, calls, limiter, world, vars
<1>13. CASE Uploaded
  BY <1>13, Facts
  DEF Uploaded, Begin, Ends, Goto, Tokens, Issued, Places, WorkerPlace, MainPlace, Calling, Requests, TypeOK, main, calls, limiter, world, vars
<1>14. CASE Upserted
  BY <1>14, Facts
  DEF Upserted, Succeeds, CreateDeployment, Begin, Goto, Tokens, Issued, Places, WorkerPlace, MainPlace, Calling, Requests, TypeOK, main, calls, limiter, world, vars
<1>15. CASE Deployed
  BY <1>15, Facts
  DEF Deployed, Succeeds, Ends, Goto, Tokens, Issued, Places, WorkerPlace, MainPlace, Calling, Requests, TypeOK, main, calls, limiter, world, vars
<1>16. CASE Cancel
  BY <1>16, Facts
  DEF Cancel, Tokens, Issued, Places, WorkerPlace, MainPlace, Calling, Requests, TypeOK, main, calls, limiter, world, vars
<1>17. CASE Expire
  BY <1>17, Facts
  DEF Expire, Tokens, Issued, Places, WorkerPlace, MainPlace, Calling, Requests, TypeOK, main, calls, limiter, world, vars
<1>18. CASE UNCHANGED vars
  BY <1>18, Facts
  DEF Tokens, Issued, Places, WorkerPlace, MainPlace, Calling, Requests, TypeOK, main, calls, limiter, world, vars
<1> QED
  BY <1>1, <1>2, <1>3, <1>4, <1>5, <1>6, <1>7, <1>8, <1>9, <1>10, <1>11, <1>12, <1>13, <1>14, <1>15, <1>16, <1>17, <1>18
  DEF Next, Running, Call, Worker, DeployPages, Returned

(* There is a token once it is asked for. *)
LEMMA IssuedStep == TypeOK /\ Places /\ Tokens /\ Issued /\ [Next]_vars => Issued'
<1> SUFFICES ASSUME TypeOK /\ Places /\ Tokens /\ Issued, [Next]_vars PROVE Issued'
  OBVIOUS
<1>1. ASSUME NEW c \in Callers, Send(c) PROVE Issued'
  BY <1>1, Facts
  DEF Send, Returns, Goto, Tokens, Issued, Places, WorkerPlace, MainPlace, Calling, Requests, TypeOK, main, calls, limiter, world, vars
<1>2. ASSUME NEW c \in Callers, Answer(c) PROVE Issued'
  BY <1>2, Facts
  DEF Answer, Ok, TokenExpired, Refused, NotAnswered, Applied, Returns, Goto, Tokens, Issued, Places, WorkerPlace, MainPlace, Calling, Requests, TypeOK, main, calls, limiter, world, vars
<1>3. ASSUME NEW c \in Callers, InvalidateJWT(c) PROVE Issued'
  BY <1>3, Facts
  DEF InvalidateJWT, Goto, Tokens, Issued, Places, WorkerPlace, MainPlace, Calling, Requests, TypeOK, main, calls, limiter, world, vars
<1>4. ASSUME NEW c \in Callers, UploadToken(c) PROVE Issued'
  BY <1>4, Facts
  DEF UploadToken, Goto, Tokens, Issued, Places, WorkerPlace, MainPlace, Calling, Requests, TypeOK, main, calls, limiter, world, vars
<1>5. ASSUME NEW w \in Workers, Acquire(w) PROVE Issued'
  BY <1>5, Facts
  DEF Acquire, Goto, Tokens, Issued, Places, WorkerPlace, MainPlace, Calling, Requests, TypeOK, main, calls, limiter, world, vars
<1>6. ASSUME NEW w \in Workers, Enter(w) PROVE Issued'
  BY <1>6, Facts
  DEF Enter, Goto, Tokens, Issued, Places, WorkerPlace, MainPlace, Calling, Requests, TypeOK, main, calls, limiter, world, vars
<1>7. ASSUME NEW w \in Workers, GiveUp(w) PROVE Issued'
  BY <1>7, Facts
  DEF GiveUp, Goto, Tokens, Issued, Places, WorkerPlace, MainPlace, Calling, Requests, TypeOK, main, calls, limiter, world, vars
<1>8. ASSUME NEW w \in Workers, Record(w) PROVE Issued'
  BY <1>8, Facts
  DEF Record, Count, KeepFirstError, Goto, Tokens, Issued, Places, WorkerPlace, MainPlace, Calling, Requests, TypeOK, main, calls, limiter, world, vars
<1>9. ASSUME NEW w \in Workers, Release(w) PROVE Issued'
  BY <1>9, Facts
  DEF Release, Tokens, Issued, Places, WorkerPlace, MainPlace, Calling, Requests, TypeOK, main, calls, limiter, world, vars
<1>10. CASE Fails
  BY <1>10, Facts
  DEF Fails, Ends, Goto, Tokens, Issued, Places, WorkerPlace, MainPlace, Calling, Requests, TypeOK, main, calls, limiter, world, vars
<1>11. CASE GotToken
  BY <1>11, Facts
  DEF GotToken, Succeeds, Begin, Goto, Tokens, Issued, Places, WorkerPlace, MainPlace, Calling, Requests, TypeOK, main, calls, limiter, world, vars
<1>12. CASE GotMissing
  BY <1>12, Facts
  DEF GotMissing, Succeeds, Goto, Tokens, Issued, Places, WorkerPlace, MainPlace, Calling, Requests, TypeOK, main, calls, limiter, world, vars
<1>13. CASE Uploaded
  BY <1>13, Facts
  DEF Uploaded, Begin, Ends, Goto, Tokens, Issued, Places, WorkerPlace, MainPlace, Calling, Requests, TypeOK, main, calls, limiter, world, vars
<1>14. CASE Upserted
  BY <1>14, Facts
  DEF Upserted, Succeeds, CreateDeployment, Begin, Goto, Tokens, Issued, Places, WorkerPlace, MainPlace, Calling, Requests, TypeOK, main, calls, limiter, world, vars
<1>15. CASE Deployed
  BY <1>15, Facts
  DEF Deployed, Succeeds, Ends, Goto, Tokens, Issued, Places, WorkerPlace, MainPlace, Calling, Requests, TypeOK, main, calls, limiter, world, vars
<1>16. CASE Cancel
  BY <1>16, Facts
  DEF Cancel, Tokens, Issued, Places, WorkerPlace, MainPlace, Calling, Requests, TypeOK, main, calls, limiter, world, vars
<1>17. CASE Expire
  BY <1>17, Facts
  DEF Expire, Tokens, Issued, Places, WorkerPlace, MainPlace, Calling, Requests, TypeOK, main, calls, limiter, world, vars
<1>18. CASE UNCHANGED vars
  BY <1>18, Facts
  DEF Tokens, Issued, Places, WorkerPlace, MainPlace, Calling, Requests, TypeOK, main, calls, limiter, world, vars
<1> QED
  BY <1>1, <1>2, <1>3, <1>4, <1>5, <1>6, <1>7, <1>8, <1>9, <1>10, <1>11, <1>12, <1>13, <1>14, <1>15, <1>16, <1>17, <1>18
  DEF Next, Running, Call, Worker, DeployPages, Returned

(* Nothing fails of one expiry. *)
LEMMA CleanStep == TypeOK /\ Places /\ Tokens /\ Clean /\ [Next]_vars => Clean'
<1> SUFFICES ASSUME TypeOK /\ Places /\ Tokens /\ Clean, [Next]_vars PROVE Clean'
  OBVIOUS
<1>1. ASSUME NEW c \in Callers, Send(c) PROVE Clean'
  BY <1>1, Facts
  DEF Send, Returns, Goto, Tokens, Clean, Places, WorkerPlace, MainPlace, Calling, Requests, TypeOK, main, calls, limiter, world, vars
<1>2. ASSUME NEW c \in Callers, Answer(c) PROVE Clean'
  <2> USE <1>2
  <2>1. phase[c] \in Requests /\ UNCHANGED <<err, firstErr, cancelled, epoch>>
    BY DEF Answer, Places
  <2> SUFFICES ASSUME epoch <= 2, faults' = 0, ~cancelled PROVE Clean'
    BY <2>1 DEF Clean
  <2>2. faults = 0 /\ (Ok(c) \/ TokenExpired(c))
    <3>1. faults \in Nat
      BY DEF TypeOK
    <3>2. ~ Refused(c) /\ ~ NotAnswered(c)
      BY <3>1 DEF Refused, NotAnswered
    <3> QED
      BY <3>2 DEF Answer, Ok, TokenExpired
  <2>3. \A d \in Callers : outcome[d] \in {"none", "ok"}
    BY <2>2 DEF Clean
  <2>4. CASE Ok(c)
    BY <2>1, <2>2, <2>3, <2>4 DEF Ok, Returns, Clean, TypeOK
  <2>5. CASE TokenExpired(c)
    <3>1. phase[c] = "post"
      <4>1. phase[c] = "repost" => token[c] = 2 /\ epoch = 2
        BY <2>1 DEF Tokens
      <4> QED
        BY <2>1, <2>5, <4>1 DEF TokenExpired, Expired, Requests
    <3> QED
      BY <2>1, <2>2, <2>3, <2>5, <3>1 DEF TokenExpired, Clean
  <2> QED
    BY <2>2, <2>4, <2>5
<1>3. ASSUME NEW c \in Callers, InvalidateJWT(c) PROVE Clean'
  BY <1>3, Facts
  DEF InvalidateJWT, Goto, Tokens, Clean, Places, WorkerPlace, MainPlace, Calling, Requests, TypeOK, main, calls, limiter, world, vars
<1>4. ASSUME NEW c \in Callers, UploadToken(c) PROVE Clean'
  BY <1>4, Facts
  DEF UploadToken, Goto, Tokens, Clean, Places, WorkerPlace, MainPlace, Calling, Requests, TypeOK, main, calls, limiter, world, vars
<1>5. ASSUME NEW w \in Workers, Acquire(w) PROVE Clean'
  BY <1>5, Facts
  DEF Acquire, Goto, Tokens, Clean, Places, WorkerPlace, MainPlace, Calling, Requests, TypeOK, main, calls, limiter, world, vars
<1>6. ASSUME NEW w \in Workers, Enter(w) PROVE Clean'
  BY <1>6, Facts
  DEF Enter, Goto, Tokens, Clean, Places, WorkerPlace, MainPlace, Calling, Requests, TypeOK, main, calls, limiter, world, vars
<1>7. ASSUME NEW w \in Workers, GiveUp(w) PROVE Clean'
  BY <1>7, Facts
  DEF GiveUp, Goto, Tokens, Clean, Places, WorkerPlace, MainPlace, Calling, Requests, TypeOK, main, calls, limiter, world, vars
<1>8. ASSUME NEW w \in Workers, Record(w) PROVE Clean'
  BY <1>8, Facts
  DEF Record, Count, KeepFirstError, Goto, Tokens, Clean, Places, WorkerPlace, MainPlace, Calling, Requests, TypeOK, main, calls, limiter, world, vars
<1>9. ASSUME NEW w \in Workers, Release(w) PROVE Clean'
  BY <1>9, Facts
  DEF Release, Tokens, Clean, Places, WorkerPlace, MainPlace, Calling, Requests, TypeOK, main, calls, limiter, world, vars
<1>10. CASE Fails
  BY <1>10, Facts
  DEF Fails, Ends, Goto, Tokens, Clean, Places, WorkerPlace, MainPlace, Calling, Requests, TypeOK, main, calls, limiter, world, vars
<1>11. CASE GotToken
  BY <1>11, Facts
  DEF GotToken, Succeeds, Begin, Goto, Tokens, Clean, Places, WorkerPlace, MainPlace, Calling, Requests, TypeOK, main, calls, limiter, world, vars
<1>12. CASE GotMissing
  BY <1>12, Facts
  DEF GotMissing, Succeeds, Goto, Tokens, Clean, Places, WorkerPlace, MainPlace, Calling, Requests, TypeOK, main, calls, limiter, world, vars
<1>13. CASE Uploaded
  BY <1>13, Facts
  DEF Uploaded, Begin, Ends, Goto, Tokens, Clean, Places, WorkerPlace, MainPlace, Calling, Requests, TypeOK, main, calls, limiter, world, vars
<1>14. CASE Upserted
  BY <1>14, Facts
  DEF Upserted, Succeeds, CreateDeployment, Begin, Goto, Tokens, Clean, Places, WorkerPlace, MainPlace, Calling, Requests, TypeOK, main, calls, limiter, world, vars
<1>15. CASE Deployed
  BY <1>15, Facts
  DEF Deployed, Succeeds, Ends, Goto, Tokens, Clean, Places, WorkerPlace, MainPlace, Calling, Requests, TypeOK, main, calls, limiter, world, vars
<1>16. CASE Cancel
  BY <1>16, Facts
  DEF Cancel, Tokens, Clean, Places, WorkerPlace, MainPlace, Calling, Requests, TypeOK, main, calls, limiter, world, vars
<1>17. CASE Expire
  BY <1>17, Facts
  DEF Expire, Tokens, Clean, Places, WorkerPlace, MainPlace, Calling, Requests, TypeOK, main, calls, limiter, world, vars
<1>18. CASE UNCHANGED vars
  BY <1>18, Facts
  DEF Tokens, Clean, Places, WorkerPlace, MainPlace, Calling, Requests, TypeOK, main, calls, limiter, world, vars
<1> QED
  BY <1>1, <1>2, <1>3, <1>4, <1>5, <1>6, <1>7, <1>8, <1>9, <1>10, <1>11, <1>12, <1>13, <1>14, <1>15, <1>16, <1>17, <1>18
  DEF Next, Running, Call, Worker, DeployPages, Returned

-----------------------------------------------------------------------------
(* The report. *)

(* What the goroutines that came back were to upload.                      *)
Done == [w \in Launched |-> IF phase[w] = "left" THEN Len(Batches[w]) ELSE 0]

Counted ==
    /\ report \in [attempted : Int, skipped : Int, succeeded : Int, failed : Int]
    /\ stage \in {"upload-token", "check-missing"} =>
           firstErr = "none" /\ report.succeeded = 0 /\ report.failed = 0
    /\ stage \in {"check-missing", "upload"} => report.attempted = Len(Assets)
    /\ stage = "upload" =>
           /\ report.skipped = Len(Assets) - Len(toUpload)
           /\ ~cancelled => report.succeeded + report.failed = Sum(Done, Len(Batches))
    /\ Accounted

LEMMA BatchLengths ==
  ASSUME NEW assets \in Seq(ToSet(Assets))
  PROVE  /\ Len(assets) \in Nat /\ Len(Assets) \in Nat /\ Len(Batch(assets)) \in Nat
         /\ \A w \in 1..Len(Batch(assets)) : Len(Batch(assets)[w]) \in Nat
<1>1. Batch(assets) \in Seq(Seq(ToSet(Assets)))
  BY BatchCovers
<1>2. /\ Len(Batch(assets)) \in Nat
      /\ \A w \in 1..Len(Batch(assets)) : Batch(assets)[w] \in Seq(ToSet(Assets))
  BY <1>1
<1> QED
  BY <1>2, LenProperties, Facts

(* Each batch has its goroutine.                                           *)
LEMMA OneEach == TypeOK /\ Chosen /\ stage = "upload" => Launched \subseteq Workers
  BY Uploads DEF Chosen, Launched, Batches

(* A step in which no goroutine comes back, except for a cancelled one.    *)
LEMMA Uncounted ==
  ASSUME TypeOK, Chosen, Counted, UNCHANGED <<report, stage, toUpload, firstErr, err>>,
         cancelled => cancelled',
         ~cancelled' => \A w \in Workers : phase[w] = "left" <=> phase'[w] = "left"
  PROVE  Counted'
<1>1. UNCHANGED <<Batches, Launched>>
  BY DEF Batches, Launched
<1>2. stage = "upload" /\ ~cancelled' => Done' = Done
  BY <1>1, OneEach DEF Done
<1>3. Accounted'
  BY DEF Counted, Accounted
<1> QED
  BY <1>1, <1>2, <1>3 DEF Counted

LEMMA CountedStep == TypeOK /\ Places /\ Chosen /\ Counted /\ [Next]_vars => Counted'
<1> SUFFICES ASSUME TypeOK, Places, Chosen, Counted, [Next]_vars PROVE Counted'
  OBVIOUS
<1>0. /\ phase \in [Callers -> Phases] /\ Workers \subseteq Callers /\ 0 \in Callers
  BY Facts DEF TypeOK
<1>1. ASSUME NEW c \in Callers, Call(c) PROVE Counted'
  <2>1. phase[c] \in Calling
    BY <1>1 DEF Call, Send, Answer, InvalidateJWT, UploadToken, Places, Calling
  <2>2. \E p \in Calling : phase' = [phase EXCEPT ![c] = p]
    <3>1. CASE Send(c)
      BY <1>0, <2>1, <3>1 DEF Send, Returns, Goto, Calling
    <3>2. CASE Answer(c)
      BY <1>0, <2>1, <3>2
      DEF Answer, Ok, TokenExpired, Refused, NotAnswered, Returns, Goto, Calling, Requests
    <3>3. CASE InvalidateJWT(c)
      BY <3>3 DEF InvalidateJWT, Goto, Calling
    <3>4. CASE UploadToken(c)
      BY <3>4 DEF UploadToken, Goto, Calling, Requests
    <3> QED
      BY <1>1, <3>1, <3>2, <3>3, <3>4 DEF Call
  <2>3. \A w \in Workers : phase[w] = "left" <=> phase'[w] = "left"
    BY <1>0, <2>1, <2>2 DEF Calling, Requests
  <2>4. UNCHANGED <<report, stage, toUpload, firstErr, err, cancelled>>
    BY <1>1 DEF Call, Send, Answer, InvalidateJWT, UploadToken, main, world
  <2> QED
    BY <2>3, <2>4, Uncounted
<1>2. ASSUME NEW w \in Workers, Acquire(w) \/ Enter(w) PROVE Counted'
  <2>1. /\ phase[w] # "left" /\ (\E p \in {"acquire", "post"} : phase' = [phase EXCEPT ![w] = p])
        /\ UNCHANGED <<report, stage, toUpload, firstErr, err, cancelled>>
    BY <1>2 DEF Acquire, Enter, Goto, main, world
  <2>2. \A v \in Workers : phase[v] = "left" <=> phase'[v] = "left"
    BY <1>0, <2>1
  <2> QED
    BY <2>1, <2>2, Uncounted
<1>3. ASSUME NEW w \in Workers, GiveUp(w) PROVE Counted'
  BY <1>3, Uncounted DEF GiveUp, main, world
<1>4. ASSUME NEW w \in Workers, Record(w) PROVE Counted'
  <2> DEFINE b == Len(Batches[w])  n == Len(Batches)
  <2>1. /\ phase[w] = "returned" /\ phase' = [phase EXCEPT ![w] = "left"]
        /\ UNCHANGED <<stage, toUpload, cancelled>>
    BY <1>4 DEF Record, Goto, world
  <2>2. w \in Launched /\ stage = "upload"
    BY <2>1 DEF Places, WorkerPlace, TypeOK, Stages
  <2>3. UNCHANGED <<Batches, Launched>>
    BY <2>1 DEF Batches, Launched
  <2>4. n \in Nat /\ b \in Nat /\ Done \in [1..n -> Nat] /\ w \in 1..n
    <3>1. /\ n \in Nat /\ Launched = 1..n
          /\ \A v \in Launched : Len(Batches[v]) \in Nat
      BY BatchLengths DEF TypeOK, Batches, Launched
    <3> QED
      BY <2>2, <3>1 DEF Done
  <2>5. Done' = [Done EXCEPT ![w] = b]
    <3>1. \A v \in Launched : phase'[v] = IF v = w THEN "left" ELSE phase[v]
      BY <1>0, <2>1, <2>2, OneEach
    <3>2. Done' = [v \in Launched |-> IF v = w THEN b ELSE Done[v]]
      BY <2>3, <3>1 DEF Done
    <3>3. DOMAIN Done = Launched
      BY DEF Done
    <3> HIDE DEF b
    <3> QED
      BY <3>2, <3>3
  <2>6. Done[w] = 0
    BY <2>1, <2>2 DEF Done
  <2>7. Sum(Done', n) = Sum(Done, n) + b
    <3>1. Sum(Done, n) \in Nat
      <4>1. n \in 0..n
        BY <2>4
      <4> HIDE DEF n
      <4> QED
        BY <4>1, <2>4, SumSteps
    <3>2. Sum([Done EXCEPT ![w] = b], n) = Sum(Done, n) + b - Done[w]
      <4> HIDE DEF n, b
      <4> QED
        BY <2>4, SumUpdate
    <3> QED
      BY <2>4, <2>5, <2>6, <3>1, <3>2
  <2>8. /\ report' \in [attempted : Int, skipped : Int, succeeded : Int, failed : Int]
        /\ report'.attempted = report.attempted /\ report'.skipped = report.skipped
        /\ report'.succeeded + report'.failed = report.succeeded + report.failed + b
    <3>1. report \in [attempted : Int, skipped : Int, succeeded : Int, failed : Int]
      BY DEF Counted
    <3>2. CASE outcome[w] = "ok"
      <4>1. report' = [report EXCEPT !.succeeded = @ + b]
        BY <1>4, <3>2 DEF Record, Count
      <4>2. b \in Int /\ report.succeeded \in Int /\ report.failed \in Int
        BY <2>4, <3>1
      <4> HIDE DEF b
      <4>3. /\ report'.attempted = report.attempted /\ report'.skipped = report.skipped
            /\ report'.succeeded = report.succeeded + b /\ report'.failed = report.failed
        BY <3>1, <4>1
      <4>4. report' \in [attempted : Int, skipped : Int, succeeded : Int, failed : Int]
        BY <3>1, <4>1, <4>2
      <4> QED
        BY <4>2, <4>3, <4>4
    <3>3. CASE outcome[w] # "ok"
      <4>1. report' = [report EXCEPT !.failed = @ + b]
        BY <1>4, <3>3 DEF Record, Count
      <4>2. b \in Int /\ report.succeeded \in Int /\ report.failed \in Int
        BY <2>4, <3>1
      <4> HIDE DEF b
      <4>3. /\ report'.attempted = report.attempted /\ report'.skipped = report.skipped
            /\ report'.failed = report.failed + b /\ report'.succeeded = report.succeeded
        BY <3>1, <4>1
      <4>4. report' \in [attempted : Int, skipped : Int, succeeded : Int, failed : Int]
        BY <3>1, <4>1, <4>2
      <4> QED
        BY <4>2, <4>3, <4>4
    <3> QED
      BY <3>2, <3>3
  <2>9. ~cancelled' => report'.succeeded + report'.failed = Sum(Done', Len(Batches'))
    BY <2>1, <2>2, <2>3, <2>7, <2>8 DEF Counted
  <2>10. Accounted'
    BY <2>1, <2>2 DEF Accounted
  <2> QED
    BY <2>1, <2>2, <2>3, <2>8, <2>9, <2>10 DEF Counted
<1>5. ASSUME NEW w \in Workers, Release(w) PROVE Counted'
  BY <1>5, Uncounted DEF Release, main, calls, world
<1>6. CASE Fails
  <2>1. /\ stage # "upload" /\ stage # "done" /\ outcome[0] # "ok"
        /\ stage' = "done" /\ err' = outcome[0] /\ UNCHANGED <<report, firstErr, cancelled>>
    BY <1>6 DEF Fails, Ends, Places, MainPlace, world
  <2>2. Accounted'
    BY <2>1 DEF Accounted, Counted, TypeOK, Stages
  <2> QED
    BY <2>1, <2>2 DEF Counted
<1>7. CASE GotToken
  BY <1>7, Facts DEF GotToken, Succeeds, Begin, Counted, Accounted
<1>8. CASE GotMissing
  <2>1. /\ stage = "check-missing" /\ stage' = "upload" /\ UNCHANGED firstErr
        /\ report' = [report EXCEPT !.skipped = Len(Assets) - Len(toUpload')]
        /\ phase' = [phase EXCEPT ![0] = "idle"]
    BY <1>8 DEF GotMissing, Succeeds, Goto
  <2> DEFINE n == Len(Batches')
  <2>2. /\ n \in Nat /\ Launched' = 1..n /\ 1..n \subseteq Workers
        /\ \A w \in 1..n : Len(Batches'[w]) \in Nat
        /\ Len(toUpload') \in Nat /\ Len(Assets) \in Nat
    <3>1. toUpload' = Split(Assets, missing)
      BY <1>8 DEF GotMissing
    <3>2. toUpload' \in Seq(ToSet(Assets)) /\ 1..Len(Batch(toUpload')) \subseteq Workers
      BY <3>1, Uploads
    <3> QED
      BY <3>2, BatchLengths DEF Launched, Batches
  <2>3. \A w \in Workers : phase[w] = "idle"
    BY <2>1 DEF Places, WorkerPlace
  <2>4. \A w \in Callers : phase'[w] = "idle"
    BY <1>0, <2>1, <2>3, Facts
  <2>5. Done' \in [1..n -> Nat] /\ \A w \in 1..n : Done'[w] = 0
    <3>1. Done' = [w \in 1..n |-> IF phase'[w] = "left" THEN Len(Batches'[w]) ELSE 0]
      BY <2>2 DEF Done
    <3>2. \A w \in 1..n : phase'[w] # "left"
      BY <1>0, <2>2, <2>4
    <3> HIDE DEF n
    <3> QED
      BY <3>1, <3>2
  <2>6. Sum(Done', n) = 0
    <3> HIDE DEF n
    <3> QED
      BY <2>2, <2>5, SumZero
  <2>7. /\ report \in [attempted : Int, skipped : Int, succeeded : Int, failed : Int]
        /\ report.succeeded = 0 /\ report.failed = 0 /\ report.attempted = Len(Assets)
    BY <2>1 DEF Counted
  <2>8. /\ report' \in [attempted : Int, skipped : Int, succeeded : Int, failed : Int]
        /\ report'.succeeded = 0 /\ report'.failed = 0 /\ report'.attempted = Len(Assets)
        /\ report'.skipped = Len(Assets) - Len(toUpload')
    BY <2>1, <2>2, <2>7
  <2> QED
    BY <2>1, <2>6, <2>8 DEF Counted, Accounted
<1>9. CASE Uploaded
  <2>1. /\ stage = "upload" /\ \A w \in Launched : phase[w] = "left"
        /\ UNCHANGED <<report, firstErr, cancelled>>
        /\ stage' \in {"upsert-hashes", "done"}
    BY <1>9 DEF Uploaded, Begin, Ends, world
  <2>2. Done = Lengths(Batches)
    BY <2>1 DEF Done, Lengths, Launched
  <2>3. Sum(Done, Len(Batches)) = Len(toUpload)
    BY <2>2, BatchCounts DEF Batches, TypeOK
  <2>4. ~cancelled => report.succeeded + report.skipped + report.failed = report.attempted
    <3>1. Len(toUpload) \in Nat /\ Len(Assets) \in Nat
      BY BatchLengths DEF TypeOK
    <3>2. /\ report \in [attempted : Int, skipped : Int, succeeded : Int, failed : Int]
          /\ report.attempted = Len(Assets) /\ report.skipped = Len(Assets) - Len(toUpload)
          /\ ~cancelled => report.succeeded + report.failed = Len(toUpload)
      BY <2>1, <2>3 DEF Counted
    <3> QED
      BY <3>1, <3>2
  <2>5. Accounted'
    BY <2>1, <2>4 DEF Accounted
  <2> QED
    BY <2>1, <2>5 DEF Counted
<1>10. CASE Upserted
  BY <1>10 DEF Upserted, Succeeds, CreateDeployment, Begin, Counted, Accounted, world
<1>11. CASE Deployed
  BY <1>11 DEF Deployed, Succeeds, Ends, Counted, Accounted, world
<1>12. CASE Cancel \/ Expire \/ UNCHANGED vars
  BY <1>12, Uncounted DEF Cancel, Expire, main, calls, limiter, world, vars
<1> QED
  BY <1>1, <1>2, <1>3, <1>4, <1>5, <1>6, <1>7, <1>8, <1>9, <1>10, <1>11, <1>12
  DEF Next, Running, Worker, DeployPages, Returned

-----------------------------------------------------------------------------
LEMMA Initially == Init => IInv
<1> SUFFICES ASSUME Init PROVE IInv
  OBVIOUS
<1>1. TypeOK
  <2>1. /\ phase \in [Callers -> Phases] /\ token \in [Callers -> Nat]
        /\ outcome \in [Callers -> Outcomes] /\ attempt \in [Callers -> Nat]
    BY DEF Init, Phases, Calling, Outcomes
  <2>2. /\ stage \in Stages /\ err \in Outcomes /\ firstErr \in Outcomes \ {"ok"}
        /\ toUpload \in Seq(ToSet(Assets))
    BY DEF Init, Stages, Outcomes
  <2>3. /\ missing \subseteq Hashes /\ stored \subseteq Hashes /\ upserted \subseteq Hashes
        /\ flying \subseteq Callers
    BY DEF Init
  <2>4. /\ cached \in Nat /\ jwtAuth \in Nat /\ epoch \in Nat \ {0} /\ faults \in Nat
        /\ deployments \in {0, 1}
    BY SMT DEF Init
  <2>5. cancelled \in BOOLEAN
    BY Zenon DEF Init
  <2> QED
    BY <2>1, <2>2, <2>3, <2>4, <2>5 DEF TypeOK
<1>2. LimiterInv
  BY LimiterInit DEF Init
<1>3. Places
  BY Facts DEF Init, Limit!Init, Places, MainPlace, WorkerPlace
<1>4. Chosen
  BY DEF Init, Chosen
<1>5. Known
  BY DEF Init, Known, Reported, Carried, Acknowledged, Complete
<1>6. Tokens
  BY Facts DEF Init, Tokens
<1>7. Issued
  BY Facts DEF Init, Issued
<1>8. Clean
  BY Facts DEF Init, Clean
<1> QED
  BY <1>1, <1>2, <1>3, <1>4, <1>5, <1>6, <1>7, <1>8 DEF IInv

LEMMA Inductive == IInv /\ [Next]_vars => IInv'
  BY TypeStep, LimiterStep, PlacesStep, ChosenStep, KnownStep, TokensStep, IssuedStep, CleanStep
  DEF IInv

LEMMA Invariant == Spec => []IInv
  BY Initially, Inductive, PTL DEF Spec

-----------------------------------------------------------------------------
(* Every variable keeps its type: no asset outside of the manifest is ever *)
(* chosen for upload, no hash outside of it stored (pages.go, DeployPages). *)
THEOREM TypeCorrect == Spec => []TypeOK
<1>1. IInv => TypeOK
  BY DEF IInv
<1> QED
  BY <1>1, Invariant, PTL

(* Whatever batches fail, are given up or come back late, DeployPages      *)
(* creates a deployment only of a manifest that is stored and acknowledged. *)
THEOREM CompleteDeployments == Spec => []DeploymentComplete
<1>1. IInv => DeploymentComplete
  BY DEF IInv, Known, Complete, DeploymentComplete
<1> QED
  BY <1>1, Invariant, PTL

(* When DeployPages has returned, its goroutines are gone and the slots of *)
(* the limiter are free.                                                   *)
THEOREM NobodyLeftBehind == Spec => []NoStragglers
<1>1. ASSUME IInv, stage = "done"
      PROVE  /\ flying = {}
             /\ \A w \in Workers : phase[w] \in {"idle", "left"} /\ at[w] = "out"
             /\ \A s \in DOMAIN sem : sem[s] = 0
  <2> USE <1>1
  <2>1. \A w \in Workers : phase[w] \in {"idle", "left"} /\ at[w] = "out"
    BY DEF IInv, Places, WorkerPlace
  <2>2. phase[0] = "left"
    BY DEF IInv, Places, MainPlace
  <2>3. flying = {}
    BY <2>1, <2>2, Facts DEF IInv, TypeOK, Places, Requests
  <2>4. \A s \in DOMAIN sem : sem[s] = 0
    <3>1. LimiterInv /\ (\A w \in Workers : at[w] = "out") => \A s \in Limit!Sems : sem[s] = 0
      BY AllOut
    <3>2. DOMAIN sem = Limit!Sems
      BY DEF IInv, LimiterInv, Limit!TypeOK
    <3> QED
      BY <2>1, <3>1, <3>2 DEF IInv
  <2> QED
    BY <2>1, <2>3, <2>4
<1>2. IInv => NoStragglers
  BY <1>1 DEF NoStragglers
<1> QED
  BY <1>2, Invariant, PTL

(* Nothing fails of one expiry of the JWT, at whatever moment it comes and *)
(* however the callers interleave at the cache (client.go, doJSONNoLock).  *)
THEOREM ExpiryHealed == Spec => []OneExpirySurvived
<1>1. IInv => OneExpirySurvived
  BY DEF IInv, Clean, OneExpirySurvived
<1> QED
  BY <1>1, Invariant, PTL

(* Whatever batches fail, and in whichever order they come back, the       *)
(* report accounts for every asset once the uploads are over (pages.go,    *)
(* DeployPages): the files of all batches are those to be uploaded, each   *)
(* counted once.                                                           *)
THEOREM ReportAccounted == Spec => []Accounted
<1>1. Init => Counted
  BY Facts DEF Init, Counted, Accounted
<1>2. IInv /\ Counted /\ [Next]_vars => Counted'
  BY CountedStep DEF IInv
<1>3. Counted => Accounted
  BY DEF Counted
<1> QED
  BY <1>1, <1>2, <1>3, Invariant, PTL DEF Spec

-----------------------------------------------------------------------------
(* The synchronisation with R2. *)

(* What a call of Sync holds (R2!Called).                                  *)
Fields == {"step", "prune", "dryRun", "walked", "localObjs", "remote", "waiting", "holding",
           "doomed", "attempted", "succeeded", "skipped", "failed", "pruned", "failures", "err",
           "cancelled", "cut"}

(* The keys whose goroutine has not ended.                                 *)
Pending == sync.waiting \cup sync.holding

(* An object has the content of file f, and the ETag of what PutObject     *)
(* makes of it, or one that matches.                                       *)
Copies(object, f) == object.md5 = MD5[f] /\ (object.parts => f \in Large)

(* Key k is in the bucket with the content that was read.                  *)
There(k) == k \in DOMAIN bucket /\ Copies(bucket[k], sync.localObjs[k])
Of(kind) == {f \in sync.failures : f[1] = kind}
Resent(objs, K) == {k \in K : ~R2!Listed(k) \/ objs[k] \in Large}

(* The locals of a call of Sync. *)
SyncType ==
    /\ DOMAIN sync = Fields
    /\ sync.step \in {"bucket", "walk", "upload", "prune", "done"}
    /\ sync.walked \in 0..Len(Mappings)
    /\ sync.attempted \in Nat /\ sync.succeeded \in Nat /\ sync.skipped \in Nat /\ sync.failed \in Nat
    /\ IsFiniteSet(DOMAIN sync.localObjs) /\ IsFiniteSet(sync.failures)
    /\ Pending \subseteq DOMAIN sync.localObjs
    /\ sync.waiting \cap sync.holding = {}
    /\ sync.step # "upload" => Pending = {}
    /\ sync.step # "prune" => sync.doomed = {}

(* Up to the uploads the bucket is as it was. *)
Before ==
    sync.step \in {"bucket", "walk"} =>
        /\ Of("upload") = {} /\ sync.failed = 0 /\ sync.succeeded = 0 /\ sync.skipped = 0
        /\ \A k \in DOMAIN previous : k \in DOMAIN bucket /\ Copies(bucket[k], previous[k])

(* The uploads have begun; the call was not given up before them.          *)
Uploading == sync.step \in {"upload", "prune"} \/ R2!Sent

(* All files of a mapping that was not cut have their keys.                *)
WalkGoes ==
    /\ Uploading => sync.walked = Len(Mappings)
    /\ \A i \in (1..sync.walked) \ sync.cut : \A j \in 1..Len(Mappings[i].walk) :
          R2!KeyOf(Mappings[i], Mappings[i].walk[j]) \in DOMAIN sync.localObjs

(* What no goroutine is left for is in the bucket or reported, unless the  *)
(* context was cancelled.                                                  *)
UploadsMirror ==
    Uploading => \A k \in DOMAIN sync.localObjs \ Pending :
                   There(k) \/ <<"upload", k>> \in sync.failures \/ sync.cancelled

(* Each goroutine that ended has been counted once.                        *)
UploadsCounted ==
    Uploading =>
        /\ sync.failed = Cardinality(Of("upload"))
        /\ \A k \in Pending : <<"upload", k>> \notin sync.failures
        /\ \/ sync.cancelled
           \/ sync.succeeded + sync.skipped + sync.failed + Cardinality(Pending) = sync.attempted

(* During the uploads the list that was read still holds of what is yet to *)
(* be compared, and nothing was added but what is uploaded.                *)
ListIsFresh ==
    sync.step = "upload" =>
        /\ \A k \in Pending \cap DOMAIN sync.remote :
               k \in DOMAIN bucket /\ bucket[k] = sync.remote[k]
        /\ DOMAIN R2!ListAll \subseteq DOMAIN sync.remote \cup DOMAIN sync.localObjs

(* What is under the prefixes is of a file, yet to be looked at, or was    *)
(* reported.                                                               *)
PruneGoesOn ==
    sync.step = "prune" \/ (R2!Sent /\ sync.prune) =>
        \A k \in DOMAIN R2!ListAll :
            k \in DOMAIN sync.localObjs \cup sync.doomed \/ <<"prune", k>> \in sync.failures

(* The files of a clean sync, once more: what is listed matches, and only  *)
(* what no prefix lists, or goes in parts, has been uploaded.              *)
Again ==
    Uploading /\ previous # R2!None /\ sync.localObjs = previous =>
        /\ sync.step = "upload" => \A k \in DOMAIN sync.localObjs : ~R2!SentAgain(k) => R2!Matches(k)
        /\ sync.succeeded + sync.failed <= Cardinality(Resent(sync.localObjs, DOMAIN sync.localObjs \ Pending))

LEMMA SameCount == \A S : R2!Cardinality(S) = Cardinality(S)
  BY DEF Cardinality, R2!Cardinality, IsFiniteSet, R2!IsFiniteSet

(* Walking adds finitely many keys: those of the files. *)
LEMMA WalkedFinite ==
  ASSUME NEW m, NEW n \in Nat, NEW objs, IsFiniteSet(DOMAIN objs)
  PROVE  /\ IsFiniteSet(DOMAIN R2!WithFiles(objs, m, n))
         /\ DOMAIN objs \subseteq DOMAIN R2!WithFiles(objs, m, n)
         /\ \A i \in 1..n : R2!KeyOf(m, m.walk[i]) \in DOMAIN R2!WithFiles(objs, m, n)
<1> DEFINE K(a) == R2!KeyOf(m, a)
           Step(k, i) == IF i = 0 THEN objs ELSE R2!Put(k[i-1], K(m.walk[i]), m.walk[i])
           Is(k) == k = [i \in 0..n |-> Step(k, i)]
           put == CHOOSE k : Is(k)
           A == {m.walk[i] : i \in 1..n}
           seq == [i \in 1..n |-> m.walk[i]]
           X == DOMAIN objs \cup {K(a) : a \in A}
           V == A \cup {objs[k] : k \in DOMAIN objs}
           S == {objs} \cup UNION {[D -> V] : D \in SUBSET X}
           G == [s \in S |-> [a \in A |-> R2!Put(s, K(a), a)]]
<1>1. seq \in Seq(A) /\ Len(seq) = n /\ objs \in S /\ \A i \in 1..n : seq[i] = m.walk[i] /\ seq[i] \in A
  <2>1. \A i \in 1..n : m.walk[i] \in A
    OBVIOUS
  <2> HIDE DEF A, S
  <2>2. seq \in Seq(A) /\ Len(seq) = n /\ \A i \in 1..n : seq[i] = m.walk[i]
    BY <2>1
  <2>3. objs \in S
    BY DEF S
  <2> QED
    BY <2>1, <2>2, <2>3
<1>2. G \in [S -> [A -> S]]
  <2>1. ASSUME NEW s \in S, NEW a \in A PROVE R2!Put(s, K(a), a) \in S
    <3> DEFINE D == DOMAIN s \cup {K(a)}
    <3>1. DOMAIN s \subseteq X /\ \A x \in DOMAIN s : s[x] \in V
      <4>1. CASE s = objs
        BY <4>1
      <4>2. CASE s # objs
        <5>1. PICK E \in SUBSET X : s \in [E -> V]
          BY <4>2
        <5> QED
          BY <5>1
      <4> QED
        BY <4>1, <4>2
    <3>2. D \in SUBSET X /\ a \in V
      BY <3>1
    <3>3. R2!Put(s, K(a), a) \in [D -> V]
      <4> HIDE DEF X, V, A, K
      <4> QED
        BY <3>1, <3>2 DEF R2!Put
    <3> HIDE DEF D, X, V
    <3> QED
      BY <3>2, <3>3
  <2> HIDE DEF S, A, K
  <2> QED
    BY <2>1
<1> HIDE DEF G, S, A, seq
<1>3. PICK f \in [0..n -> S] : Steps(G, objs, seq, f, n)
  BY <1>1, <1>2, Recursion
<1> HIDE DEF K
<1>4. ASSUME NEW i \in 0..n PROVE f[i] = Step(f, i)
  <2>1. CASE i = 0
    BY <2>1, <1>3 DEF Steps
  <2>2. CASE i \in 1..n
    <3>1. f[i-1] \in S /\ seq[i] \in A /\ seq[i] = m.walk[i]
      <4>1. i - 1 \in 0..n
        BY <2>2
      <4> QED
        BY <2>2, <1>1, <4>1
    <3>2. f[i] = G[f[i-1]][seq[i]]
      BY <2>2, <1>3 DEF Steps
    <3>3. G[f[i-1]][seq[i]] = R2!Put(f[i-1], K(seq[i]), seq[i])
      BY <3>1 DEF G
    <3> QED
      BY <2>2, <3>1, <3>2, <3>3
  <2> QED
    BY <2>1, <2>2
<1>5. Is(f)
  <2>1. f = [i \in 0..n |-> f[i]]
    OBVIOUS
  <2> HIDE DEF Step
  <2> QED
    BY <1>4, <2>1
<1>6. Is(put)
  <2> HIDE DEF Is
  <2> QED
    BY <1>5
<1>7. R2!WithFiles(objs, m, n) = put[n]
  BY DEF R2!WithFiles, K
<1>8. \A i \in 0..n : put[i] = Step(put, i)
  <2> HIDE DEF put, Step
  <2> QED
    BY <1>6
<1> HIDE DEF put, Is
<1> DEFINE Has(i) == /\ IsFiniteSet(DOMAIN put[i]) /\ DOMAIN objs \subseteq DOMAIN put[i]
                     /\ \A j \in 1..i : K(m.walk[j]) \in DOMAIN put[i]
<1>9. \A i \in 0..n : Has(i)
  <2> DEFINE T == {i \in 0..n : Has(i)}
  <2>1. 0 \in T
    BY <1>8
  <2>2. ASSUME NEW i \in 1..n, i - 1 \in T PROVE i \in T
    <3>1. i \in 0..n /\ i # 0
      OBVIOUS
    <3>2. put[i] = R2!Put(put[i-1], K(m.walk[i]), m.walk[i])
      BY <1>8, <3>1
    <3>3. DOMAIN put[i] = DOMAIN put[i-1] \cup {K(m.walk[i])}
      BY <3>2 DEF R2!Put
    <3>4. Has(i - 1)
      BY <2>2
    <3>5. IsFiniteSet(DOMAIN put[i])
      BY <3>3, <3>4, FS_AddElement
    <3>6. \A j \in 1..i : j \in 1..(i-1) \/ j = i
      OBVIOUS
    <3>7. Has(i)
      BY <3>3, <3>4, <3>5, <3>6
    <3> QED
      BY <3>1, <3>7
  <2> HIDE DEF T
  <2>3. \A i \in 0..n : i \in T
    BY <2>1, <2>2, Induction
  <2> QED
    BY <2>3 DEF T
<1>10. Has(n)
  BY <1>9
<1> QED
  BY <1>7, <1>10 DEF K

(* The mappings that are given.                                            *)
LEMMA MappingsType ==
  /\ Mappings \in Seq([isFile : BOOLEAN, walk : Seq(STRING),
                       to : [lead : BOOLEAN, name : STRING, trail : BOOLEAN]])
  /\ Len(Mappings) \in Nat
  /\ \A i \in 1..Len(Mappings) : /\ Len(Mappings[i].walk) \in Nat
                                 /\ DOMAIN Mappings[i].walk = 1..Len(Mappings[i].walk)
<1> DEFINE M == [isFile : BOOLEAN, walk : Seq(STRING),
                 to : [lead : BOOLEAN, name : STRING, trail : BOOLEAN]]
<1>1. Mappings \in Seq(M)
  BY DeployAssumption
<1>2. ASSUME NEW i \in 1..Len(Mappings)
      PROVE  Len(Mappings[i].walk) \in Nat /\ DOMAIN Mappings[i].walk = 1..Len(Mappings[i].walk)
  <2>1. Mappings[i] \in M
    <3> HIDE DEF M
    <3> QED
      BY <1>1
  <2>2. Mappings[i].walk \in Seq(STRING)
    BY <2>1
  <2> QED
    BY <2>2
<1>3. Len(Mappings) \in Nat
  <2> HIDE DEF M
  <2> QED
    BY <1>1
<1> QED
  BY <1>1, <1>2, <1>3

(* What the body of the goroutine of key k does, by its three outcomes.    *)
LEMMA UploadOneDoes ==
  ASSUME SyncType, NEW k, R2!UploadOne(k)
  PROVE  /\ DOMAIN sync' = Fields /\ k \in sync.holding /\ sync'.holding = sync.holding \ {k}
         /\ \A x \in Fields \ {"holding", "succeeded", "skipped", "failed", "failures"} :
                sync'[x] = sync[x]
         /\ previous' = previous
         /\ \/ /\ R2!Matches(k)
               /\ sync'.skipped = sync.skipped + 1 /\ sync'.succeeded = sync.succeeded
               /\ sync'.failed = sync.failed /\ sync'.failures = sync.failures
               /\ bucket' = bucket
            \/ /\ ~R2!Matches(k)
               /\ sync'.skipped = sync.skipped /\ sync'.succeeded = sync.succeeded + 1
               /\ sync'.failed = sync.failed /\ sync'.failures = sync.failures
               /\ bucket' = R2!Put(bucket, k, R2!Object(k))
            \/ /\ ~R2!Matches(k)
               /\ sync'.skipped = sync.skipped /\ sync'.succeeded = sync.succeeded
               /\ sync'.failed = sync.failed + 1
               /\ sync'.failures = sync.failures \cup {<<"upload", k>>}
               /\ bucket' \in {bucket, R2!Put(bucket, k, R2!Object(k))}
<1> DEFINE next == [sync EXCEPT !.holding = @ \ {k}]
<1>0. DOMAIN sync = Fields /\ k \in sync.holding /\ previous' = previous
  BY DEF SyncType, R2!UploadOne, R2!history
<1>1. /\ DOMAIN next = Fields /\ next.holding = sync.holding \ {k}
      /\ \A x \in Fields \ {"holding"} : next[x] = sync[x]
  BY <1>0 DEF Fields
<1>2. /\ next.skipped = sync.skipped /\ next.succeeded = sync.succeeded
      /\ next.failed = sync.failed /\ next.failures = sync.failures
  BY <1>1 DEF Fields
<1> HIDE DEF next
<1>3. CASE R2!Matches(k) /\ sync' = [next EXCEPT !.skipped = @ + 1] /\ bucket' = bucket
  BY <1>0, <1>1, <1>2, <1>3 DEF Fields
<1>4. CASE ~R2!Matches(k) /\ sync' = [next EXCEPT !.succeeded = @ + 1]
           /\ bucket' = R2!Put(bucket, k, R2!Object(k))
  BY <1>0, <1>1, <1>2, <1>4 DEF Fields
<1>5. CASE ~R2!Matches(k)
           /\ sync' = [next EXCEPT !.failed = @ + 1, !.failures = @ \cup {<<"upload", k>>}]
           /\ bucket' \in {bucket, R2!Put(bucket, k, R2!Object(k))}
  BY <1>0, <1>1, <1>2, <1>5 DEF Fields
<1> QED
  BY <1>3, <1>4, <1>5 DEF R2!UploadOne, next

(* What a walk does: the mapping is missing, or n of its files are read.   *)
LEMMA WalkLocalDoes ==
  ASSUME SyncType, R2!WalkLocal
  PROVE  LET w == sync.walked + 1
             m == Mappings[w]
         IN  /\ DOMAIN sync' = Fields /\ sync.step = "walk" /\ sync.walked < Len(Mappings)
             /\ sync'.walked = w /\ bucket' = bucket /\ previous' = previous
             /\ \A x \in Fields \ {"walked", "localObjs", "failures", "cut"} : sync'[x] = sync[x]
             /\ \/ /\ sync'.failures = sync.failures \cup {<<"walk", m.to.name>>}
                   /\ sync'.localObjs = sync.localObjs /\ sync'.cut = sync.cut \cup {w}
                \/ \E n \in 0..Len(m.walk) :
                      /\ sync'.localObjs = R2!WithFiles(sync.localObjs, m, n)
                      /\ sync'.failures = sync.failures
                      /\ sync'.cut = IF n < Len(m.walk) THEN sync.cut \cup {w} ELSE sync.cut
<1> DEFINE w == sync.walked + 1
           m == Mappings[w]
           next == [sync EXCEPT !.walked = @ + 1]
<1>0. /\ DOMAIN sync = Fields /\ sync.step = "walk" /\ sync.walked < Len(Mappings)
      /\ bucket' = bucket /\ previous' = previous
  BY DEF SyncType, R2!WalkLocal, R2!history
<1>1. /\ DOMAIN next = Fields /\ next.walked = w /\ next.localObjs = sync.localObjs
      /\ next.failures = sync.failures /\ next.cut = sync.cut
      /\ \A x \in Fields \ {"walked"} : next[x] = sync[x]
  BY <1>0 DEF Fields
<1>2. \/ sync' = [next EXCEPT !.failures = @ \cup {<<"walk", m.to.name>>}, !.cut = sync.cut \cup {w}]
      \/ \E n \in 0..Len(m.walk) :
            sync' = [next EXCEPT !.localObjs = R2!WithFiles(@, m, n),
                                 !.cut = IF n < Len(m.walk) THEN sync.cut \cup {w} ELSE @]
  BY DEF R2!WalkLocal
<1> HIDE DEF next, m, w
<1>3. CASE sync' = [next EXCEPT !.failures = @ \cup {<<"walk", m.to.name>>}, !.cut = sync.cut \cup {w}]
  BY <1>0, <1>1, <1>3 DEF Fields, m, w
<1>4. ASSUME NEW n \in 0..Len(m.walk),
             sync' = [next EXCEPT !.localObjs = R2!WithFiles(@, m, n),
                                  !.cut = IF n < Len(m.walk) THEN sync.cut \cup {w} ELSE @]
      PROVE  /\ DOMAIN sync' = Fields /\ sync'.walked = w
             /\ \A x \in Fields \ {"walked", "localObjs", "failures", "cut"} : sync'[x] = sync[x]
             /\ sync'.localObjs = R2!WithFiles(sync.localObjs, m, n)
             /\ sync'.failures = sync.failures
             /\ sync'.cut = IF n < Len(m.walk) THEN sync.cut \cup {w} ELSE sync.cut
  BY <1>0, <1>1, <1>4 DEF Fields
<1> QED
  BY <1>0, <1>2, <1>3, <1>4 DEF m, w

LEMMA SyncTypeStep ==
  ASSUME SyncType, R2!R2Next
  PROVE  SyncType'
<1> USE DEF SyncType, Pending
<1>c. ASSUME NEW prune, NEW dryRun, sync' = R2!Called(prune, dryRun) PROVE SyncType'
  <2>1. /\ DOMAIN sync' = Fields /\ sync'.step = "bucket" /\ sync'.localObjs = <<>> /\ sync'.walked = 0
        /\ sync'.failures = {} /\ sync'.waiting = {} /\ sync'.holding = {} /\ sync'.doomed = {}
        /\ sync'.attempted = 0 /\ sync'.succeeded = 0 /\ sync'.skipped = 0 /\ sync'.failed = 0
    BY <1>c DEF R2!Called, R2!None, Fields
  <2>2. IsFiniteSet({}) /\ IsFiniteSet(DOMAIN <<>>)
    BY FS_EmptySet
  <2> QED
    BY <2>1, <2>2, MappingsType
<1>1. CASE R2!CheckBucket
  BY <1>1 DEF R2!CheckBucket, Fields
<1>2. CASE R2!WalkLocal
  <2> DEFINE m == Mappings[sync.walked + 1]
  <2>0. sync.walked + 1 \in 1..Len(Mappings) /\ sync.walked + 1 \in 0..Len(Mappings)
    <3>1. sync.walked < Len(Mappings) /\ sync.walked \in 0..Len(Mappings)
      BY <1>2 DEF R2!WalkLocal
    <3>2. Len(Mappings) \in Nat
      BY MappingsType
    <3> QED
      BY <3>1, <3>2
  <2> HIDE DEF m
  <2>1. CASE sync'.failures = sync.failures \cup {<<"walk", m.to.name>>} /\ sync'.localObjs = sync.localObjs
    <3> DEFINE x == <<"walk", m.to.name>>
    <3> HIDE DEF x
    <3>1. IsFiniteSet(sync.failures \cup {x}) /\ sync'.failures = sync.failures \cup {x}
      BY <2>1, FS_AddElement DEF x
    <3> QED
      BY <1>2, <2>0, <2>1, <3>1, WalkLocalDoes DEF Fields
  <2>2. ASSUME NEW n \in 0..Len(m.walk), sync'.localObjs = R2!WithFiles(sync.localObjs, m, n),
               sync'.failures = sync.failures
        PROVE  SyncType'
    <3>1. n \in Nat
      <4>1. Len(m.walk) \in Nat
        BY <2>0, MappingsType DEF m
      <4> QED
        BY <4>1
    <3>2. IsFiniteSet(DOMAIN R2!WithFiles(sync.localObjs, m, n))
      BY <3>1, WalkedFinite
    <3> QED
      BY <1>2, <2>0, <2>2, <3>2, WalkLocalDoes DEF Fields
  <2> QED
    BY <1>2, <2>1, <2>2, WalkLocalDoes DEF m
<1>3. CASE R2!List
  <2>1. R2!Cardinality(DOMAIN sync.localObjs) \in Nat
    BY SameCount, FS_CardinalityType
  <2>2. sync.dryRun => R2!Cardinality({k \in DOMAIN sync.localObjs \cap DOMAIN R2!ListAll :
                                          R2!SameETag(R2!ListAll[k], k)}) \in Nat
    BY SameCount, FS_CardinalityType, FS_Subset
  <2>3. /\ DOMAIN sync' = Fields /\ sync'.step \in {"done", "upload"}
        /\ sync'.walked = sync.walked /\ sync'.attempted \in Nat /\ sync'.succeeded = sync.succeeded
        /\ sync'.skipped \in Nat /\ sync'.failed = sync.failed
        /\ sync'.localObjs = sync.localObjs /\ sync'.failures = sync.failures
        /\ sync'.holding = sync.holding /\ sync'.doomed = sync.doomed
        /\ sync'.step = "upload" => sync'.waiting = DOMAIN sync.localObjs
        /\ sync'.step # "upload" => sync'.waiting = sync.waiting
    BY <1>3, <2>1, <2>2 DEF R2!List, Fields
  <2>4. sync.step = "walk"
    BY <1>3 DEF R2!List
  <2> QED
    BY <2>3, <2>4
<1>4. CASE R2!UploadsDone
  BY <1>4 DEF R2!UploadsDone, Fields
<1>5. CASE R2!PruneDone
  BY <1>5 DEF R2!PruneDone, Fields
<1>6. CASE R2!CancelSync
  BY <1>6 DEF R2!CancelSync, Fields
<1>7. ASSUME NEW k \in DOMAIN sync.localObjs, R2!AcquireSlot(k) PROVE SyncType'
  BY <1>7 DEF R2!AcquireSlot, Fields
<1>8. ASSUME NEW k \in DOMAIN sync.localObjs, R2!GiveUpSlot(k) PROVE SyncType'
  BY <1>8 DEF R2!GiveUpSlot, Fields
<1>9. ASSUME NEW k \in DOMAIN sync.localObjs, R2!UploadOne(k) PROVE SyncType'
  <2>1. IsFiniteSet(sync.failures \cup {<<"upload", k>>})
    BY FS_AddElement
  <2>2. IsFiniteSet(sync'.failures)
    BY <1>9, <2>1, UploadOneDoes
  <2> QED
    BY <1>9, <2>2, UploadOneDoes DEF Fields
<1>10. ASSUME NEW k \in sync.doomed, R2!Prune(k) PROVE SyncType'
  <2>1. IsFiniteSet(sync.failures \cup {<<"prune", k>>})
    BY FS_AddElement
  <2> QED
    BY <1>10, <2>1 DEF R2!Prune, Fields
<1>11. CASE R2!SyncAgain
  BY <1>11, <1>c DEF R2!SyncAgain
<1> QED
  BY <1>1, <1>2, <1>3, <1>4, <1>5, <1>6, <1>7, <1>8, <1>9, <1>10, <1>11 DEF R2!R2Next

(* What each step changes. *)
LEMMA ListDoes ==
  ASSUME SyncType, R2!List
  PROVE  /\ DOMAIN sync' = Fields /\ sync.step = "walk"
         /\ \A x \in Fields \ {"step", "err", "attempted", "skipped", "pruned", "remote", "waiting"} :
                sync'[x] = sync[x]
         /\ sync'.attempted = R2!Cardinality(DOMAIN sync.localObjs)
         /\ bucket' = bucket /\ previous' = previous
         /\ \/ sync'.step = "done" /\ (sync'.err \/ sync'.dryRun)
            \/ /\ sync'.step = "upload" /\ sync'.remote = R2!ListAll
               /\ sync'.waiting = DOMAIN sync.localObjs /\ sync'.skipped = sync.skipped
<1> DEFINE next == [sync EXCEPT !.attempted = R2!Cardinality(DOMAIN sync.localObjs)]
           same == {k \in DOMAIN sync.localObjs \cap DOMAIN R2!ListAll : R2!SameETag(R2!ListAll[k], k)}
<1>0. DOMAIN sync = Fields /\ sync.step = "walk" /\ bucket' = bucket /\ previous' = previous
  BY DEF SyncType, R2!List, R2!history
<1>1. /\ DOMAIN next = Fields /\ next.attempted = R2!Cardinality(DOMAIN sync.localObjs)
      /\ next.dryRun = sync.dryRun /\ next.skipped = sync.skipped
      /\ \A x \in Fields \ {"attempted"} : next[x] = sync[x]
  BY <1>0 DEF Fields
<1> HIDE DEF next
<1>2. CASE sync' = [next EXCEPT !.step = "done", !.err = TRUE]
  BY <1>0, <1>1, <1>2 DEF Fields
<1>3. CASE sync.dryRun /\ sync' = [next EXCEPT !.step = "done", !.skipped = R2!Cardinality(same),
               !.pruned = IF sync.prune
                          THEN R2!Cardinality(DOMAIN R2!ListAll \ DOMAIN sync.localObjs) ELSE 0]
  BY <1>0, <1>1, <1>3 DEF Fields
<1>4. CASE sync' = [next EXCEPT !.step = "upload", !.remote = R2!ListAll,
                                !.waiting = DOMAIN sync.localObjs]
  BY <1>0, <1>1, <1>4 DEF Fields
<1> QED
  BY <1>2, <1>3, <1>4 DEF R2!List, next

LEMMA PruneDoes ==
  ASSUME SyncType, NEW k, R2!Prune(k)
  PROVE  /\ DOMAIN sync' = Fields /\ sync.step = "prune" /\ sync'.doomed = sync.doomed \ {k}
         /\ \A x \in Fields \ {"doomed", "pruned", "failures"} : sync'[x] = sync[x]
         /\ previous' = previous
         /\ \/ k \in DOMAIN sync.localObjs /\ sync'.failures = sync.failures /\ bucket' = bucket
            \/ /\ k \notin DOMAIN sync.localObjs /\ sync'.failures = sync.failures
               /\ bucket' = R2!Restrict(bucket, DOMAIN bucket \ {k})
            \/ /\ k \notin DOMAIN sync.localObjs
               /\ sync'.failures = sync.failures \cup {<<"prune", k>>}
               /\ bucket' = bucket
<1> DEFINE next == [sync EXCEPT !.doomed = @ \ {k}]
<1>0. DOMAIN sync = Fields /\ sync.step = "prune" /\ previous' = previous
  BY DEF SyncType, R2!Prune, R2!history
<1>1. /\ DOMAIN next = Fields /\ next.doomed = sync.doomed \ {k} /\ next.failures = sync.failures
      /\ \A x \in Fields \ {"doomed"} : next[x] = sync[x]
  BY <1>0 DEF Fields
<1> HIDE DEF next
<1>2. CASE k \in DOMAIN sync.localObjs /\ sync' = next /\ UNCHANGED bucket
  BY <1>0, <1>1, <1>2 DEF Fields
<1>3. CASE k \notin DOMAIN sync.localObjs /\ sync' = [next EXCEPT !.pruned = @ + 1]
           /\ bucket' = R2!Restrict(bucket, DOMAIN bucket \ {k})
  BY <1>0, <1>1, <1>3 DEF Fields
<1>4. CASE k \notin DOMAIN sync.localObjs
           /\ sync' = [next EXCEPT !.failures = @ \cup {<<"prune", k>>}] /\ UNCHANGED bucket
  BY <1>0, <1>1, <1>4 DEF Fields
<1> QED
  BY <1>2, <1>3, <1>4 DEF R2!Prune, next

(* The steps that only move the call on.                                   *)
Moves ==
    /\ DOMAIN sync' = Fields
    /\ \A x \in Fields \ {"step", "waiting", "holding", "doomed", "cancelled"} : sync'[x] = sync[x]
    /\ bucket' = bucket /\ previous' = previous

LEMMA UploadsDoneDoes ==
  ASSUME SyncType, R2!UploadsDone
  PROVE  /\ Moves /\ sync'.cancelled = sync.cancelled /\ sync'.waiting = {} /\ sync'.holding = {}
         /\ sync.step = "upload" /\ Pending = {}
         /\ \/ sync.prune /\ sync'.step = "prune" /\ sync'.doomed = DOMAIN sync.remote
            \/ ~sync.prune /\ sync'.step = "done" /\ sync'.doomed = sync.doomed
BY DEF R2!UploadsDone, SyncType, Fields, Moves, R2!history, Pending

LEMMA PruneDoneDoes ==
  ASSUME SyncType, R2!PruneDone
  PROVE  /\ Moves /\ sync'.cancelled = sync.cancelled /\ sync'.waiting = sync.waiting
         /\ sync'.holding = sync.holding
         /\ sync.step = "prune" /\ sync'.step = "done" /\ sync'.doomed = sync.doomed /\ sync.doomed = {}
BY DEF R2!PruneDone, SyncType, Fields, Moves, R2!history

LEMMA CancelDoes ==
  ASSUME SyncType, R2!CancelSync
  PROVE  /\ Moves /\ sync'.cancelled /\ sync'.waiting = sync.waiting /\ sync'.holding = sync.holding
         /\ sync'.step = sync.step /\ sync'.doomed = sync.doomed /\ sync.step \in {"upload", "prune"}
BY DEF R2!CancelSync, SyncType, Fields, Moves, R2!history

LEMMA SlotDoes ==
  ASSUME SyncType, NEW k, R2!AcquireSlot(k) \/ R2!GiveUpSlot(k)
  PROVE  /\ Moves /\ sync'.cancelled = sync.cancelled /\ sync'.step = sync.step
         /\ sync'.doomed = sync.doomed /\ k \in sync.waiting
         /\ Pending' = Pending \/ (sync.cancelled /\ Pending' = Pending \ {k})
<1>1. CASE R2!AcquireSlot(k)
  <2>1. /\ Moves /\ sync'.cancelled = sync.cancelled /\ sync'.step = sync.step
        /\ sync'.doomed = sync.doomed /\ k \in sync.waiting
        /\ sync'.waiting = sync.waiting \ {k} /\ sync'.holding = sync.holding \cup {k}
    BY <1>1 DEF R2!AcquireSlot, SyncType, Fields, Moves, R2!history
  <2> QED
    BY <2>1 DEF Pending
<1>2. CASE R2!GiveUpSlot(k)
  <2>1. /\ Moves /\ sync'.cancelled = sync.cancelled /\ sync'.step = sync.step
        /\ sync'.doomed = sync.doomed /\ k \in sync.waiting /\ sync.cancelled
        /\ sync'.waiting = sync.waiting \ {k} /\ sync'.holding = sync.holding
    BY <1>2 DEF R2!GiveUpSlot, SyncType, Fields, Moves, R2!history
  <2> QED
    BY <2>1 DEF Pending, SyncType
<1> QED
  BY <1>1, <1>2

(* The steps of a sync, for what is said of its uploads.                   *)
Resting ==
    /\ Moves /\ Uploading
    /\ Pending' = Pending \/ (sync.cancelled /\ Pending' \subseteq Pending)
    /\ sync.cancelled => sync'.cancelled
    /\ sync'.step = "upload" => sync.step = "upload"

(* The other steps, from the uploads on.                                   *)
LEMMA R2Kinds ==
  ASSUME SyncType, R2!R2Next
  PROVE  \/ ~Uploading'
         \/ R2!List /\ sync'.step = "upload"
         \/ Resting
         \/ \E k \in DOMAIN sync.localObjs : R2!UploadOne(k)
         \/ \E k \in sync.doomed : R2!Prune(k)
<1>1. CASE R2!CheckBucket
  BY <1>1 DEF R2!CheckBucket, SyncType, Fields, Uploading, R2!Sent
<1>2. CASE R2!WalkLocal
  BY <1>2 DEF R2!WalkLocal, SyncType, Fields, Uploading, R2!Sent
<1>3. CASE R2!List
  BY <1>3, ListDoes DEF Uploading, R2!Sent
<1>4. CASE R2!UploadsDone
  BY <1>4, UploadsDoneDoes DEF Resting, Uploading, Pending
<1>5. CASE R2!PruneDone
  BY <1>5, PruneDoneDoes DEF Resting, Uploading, Pending
<1>6. CASE R2!CancelSync
  BY <1>6, CancelDoes DEF Resting, Uploading, Pending
<1>7. ASSUME NEW k \in DOMAIN sync.localObjs, R2!AcquireSlot(k) \/ R2!GiveUpSlot(k)
      PROVE  Resting
  <2>1. sync.step = "upload"
    BY <1>7, SlotDoes DEF SyncType, Pending
  <2> QED
    BY <1>7, <2>1, SlotDoes DEF Resting, Uploading
<1>8. CASE R2!SyncAgain
  BY <1>8 DEF R2!SyncAgain, R2!Called, Uploading, R2!Sent
<1> QED
  BY <1>1, <1>2, <1>3, <1>4, <1>5, <1>6, <1>7, <1>8 DEF R2!R2Next

LEMMA MirrorStep ==
  ASSUME SyncType, UploadsMirror, ListIsFresh, R2!R2Next
  PROVE  UploadsMirror'
<1>1. CASE ~Uploading'
  BY <1>1 DEF UploadsMirror
<1>2. CASE R2!List /\ sync'.step = "upload"
  <2>1. sync'.localObjs = sync.localObjs /\ sync'.waiting = DOMAIN sync.localObjs
    BY <1>2, ListDoes DEF Fields
  <2> QED
    BY <2>1 DEF UploadsMirror, Pending
<1>3. CASE Resting
  <2>1. /\ sync'.localObjs = sync.localObjs /\ sync'.failures = sync.failures
        /\ bucket' = bucket
    BY <1>3 DEF Resting, Moves, Fields
  <2> QED
    BY <1>3, <2>1 DEF UploadsMirror, Resting, There
<1>4. ASSUME NEW k \in DOMAIN sync.localObjs, R2!UploadOne(k) PROVE UploadsMirror'
  <2>1. /\ k \in sync.holding /\ sync'.holding = sync.holding \ {k} /\ sync'.waiting = sync.waiting
        /\ sync'.localObjs = sync.localObjs /\ sync'.cancelled = sync.cancelled
        /\ sync'.step = sync.step /\ sync.failures \subseteq sync'.failures
    BY <1>4, UploadOneDoes DEF Fields
  <2>2. Pending' = Pending \ {k} /\ k \in Pending /\ sync.step = "upload"
    BY <2>1 DEF Pending, SyncType
  <2>3. There(k)' \/ <<"upload", k>> \in sync'.failures
    <3>1. CASE R2!Matches(k) /\ bucket' = bucket
      BY <2>1, <2>2, <3>1 DEF R2!Matches, R2!SameETag, ListIsFresh, There, Copies, R2!Local
    <3>2. CASE bucket' = R2!Put(bucket, k, R2!Object(k))
      <4>1. k \in DOMAIN bucket' /\ bucket'[k] = R2!Object(k)
        BY <3>2 DEF R2!Put
      <4>2. Copies(R2!Object(k), sync.localObjs[k])
        BY DEF Copies, R2!Object, R2!Local
      <4> QED
        BY <2>1, <4>1, <4>2 DEF There
    <3> QED
      BY <1>4, <3>1, <3>2, UploadOneDoes
  <2>4. ASSUME NEW x \in DOMAIN sync.localObjs, There(x), x # k PROVE There(x)'
    <3>1. CASE bucket' = bucket
      BY <2>1, <2>4, <3>1 DEF There
    <3>2. CASE bucket' = R2!Put(bucket, k, R2!Object(k))
      <4>1. x \in DOMAIN bucket' /\ bucket'[x] = bucket[x]
        BY <2>4, <3>2 DEF R2!Put, There
      <4> QED
        BY <2>1, <2>4, <4>1 DEF There
    <3> QED
      BY <1>4, <3>1, <3>2, UploadOneDoes
  <2>5. ASSUME NEW x \in DOMAIN sync.localObjs \ Pending'
        PROVE  There(x)' \/ <<"upload", x>> \in sync'.failures \/ sync'.cancelled
    <3>1. CASE x = k
      BY <2>3, <3>1
    <3>2. CASE x # k
      <4>1. There(x) \/ <<"upload", x>> \in sync.failures \/ sync.cancelled
        BY <2>2, <2>5, <3>2 DEF UploadsMirror, Uploading
      <4> QED
        BY <2>1, <2>4, <3>2, <4>1
    <3> QED
      BY <3>1, <3>2
  <2> QED
    BY <2>1, <2>5 DEF UploadsMirror
<1>5. ASSUME NEW k \in sync.doomed, R2!Prune(k) PROVE UploadsMirror'
  <2>1. /\ sync'.holding = sync.holding /\ sync'.waiting = sync.waiting
        /\ sync'.localObjs = sync.localObjs /\ sync'.cancelled = sync.cancelled
        /\ sync.step = "prune" /\ sync.failures \subseteq sync'.failures
    BY <1>5, PruneDoes DEF Fields
  <2>2. Pending' = Pending
    BY <2>1 DEF Pending
  <2>3. ASSUME NEW x \in DOMAIN sync.localObjs, There(x) PROVE There(x)'
    <3>1. CASE bucket' = bucket
      BY <2>1, <2>3, <3>1 DEF There
    <3>2. CASE k \notin DOMAIN sync.localObjs /\ bucket' = R2!Restrict(bucket, DOMAIN bucket \ {k})
      BY <2>1, <2>3, <3>2 DEF There, R2!Restrict
    <3> QED
      BY <1>5, <3>1, <3>2, PruneDoes
  <2> QED
    BY <2>1, <2>2, <2>3 DEF UploadsMirror, Uploading
<1> QED
  BY <1>1, <1>2, <1>3, <1>4, <1>5, R2Kinds

(* Every goroutine that ends is counted once, and a failure once more in   *)
(* the list of failures.                                                   *)
LEMMA CountedStepR2 ==
  ASSUME SyncType, Before, UploadsCounted, R2!R2Next
  PROVE  UploadsCounted'
<1>0. /\ IsFiniteSet(sync.failures) /\ IsFiniteSet(DOMAIN sync.localObjs)
      /\ Pending \subseteq DOMAIN sync.localObjs
      /\ sync.attempted \in Nat /\ sync.succeeded \in Nat /\ sync.skipped \in Nat /\ sync.failed \in Nat
  BY DEF SyncType
<1>00. IsFiniteSet(Of("upload")) /\ IsFiniteSet(Pending)
  BY <1>0, FS_Subset DEF Of
<1>000. Cardinality(Of("upload")) \in Nat /\ Cardinality(Pending) \in Nat
  BY <1>00, FS_CardinalityType
<1>1. CASE ~Uploading'
  BY <1>1 DEF UploadsCounted
<1>2. CASE R2!List /\ sync'.step = "upload"
  <2>1. /\ sync'.localObjs = sync.localObjs /\ sync'.waiting = DOMAIN sync.localObjs
        /\ sync'.holding = sync.holding /\ sync.step = "walk"
        /\ sync'.failures = sync.failures /\ sync'.failed = sync.failed
        /\ sync'.succeeded = sync.succeeded /\ sync'.skipped = sync.skipped
        /\ sync'.attempted = Cardinality(DOMAIN sync.localObjs)
    BY <1>2, ListDoes, SameCount DEF Fields
  <2>2. sync.failed = 0 /\ sync.succeeded = 0 /\ sync.skipped = 0 /\ Of("upload") = {}
    BY <2>1 DEF Before
  <2>3. Pending' = DOMAIN sync.localObjs
    BY <1>0, <2>1 DEF Pending, SyncType
  <2>4. Of("upload")' = {} /\ Cardinality({}) = 0 /\ Cardinality(DOMAIN sync.localObjs) \in Nat
    BY <1>0, <2>1, <2>2, FS_EmptySet, FS_CardinalityType DEF Of
  <2>5. \A k : <<"upload", k>> \notin sync'.failures
    BY <2>4 DEF Of
  <2>6. sync'.failed = Cardinality(Of("upload")')
    BY <2>1, <2>2, <2>4
  <2>7. sync'.succeeded + sync'.skipped + sync'.failed + Cardinality(Pending') = sync'.attempted
    BY <2>1, <2>2, <2>3, <2>4
  <2> QED
    BY <2>5, <2>6, <2>7 DEF UploadsCounted
<1>3. CASE Resting
  <2>1. /\ sync'.failures = sync.failures /\ sync'.failed = sync.failed
        /\ sync'.succeeded = sync.succeeded /\ sync'.skipped = sync.skipped
        /\ sync'.attempted = sync.attempted
        /\ Pending' \subseteq Pending /\ (Pending' = Pending \/ sync.cancelled)
        /\ sync.cancelled => sync'.cancelled
    BY <1>3 DEF Resting, Moves, Fields
  <2>2. Of("upload")' = Of("upload")
    BY <2>1 DEF Of
  <2> QED
    BY <1>3, <2>1, <2>2 DEF UploadsCounted, Resting
<1>4. ASSUME NEW k \in DOMAIN sync.localObjs, R2!UploadOne(k) PROVE UploadsCounted'
  <2>1. /\ k \in sync.holding /\ sync'.holding = sync.holding \ {k} /\ sync'.waiting = sync.waiting
        /\ sync'.cancelled = sync.cancelled /\ sync'.attempted = sync.attempted
        /\ sync'.step = sync.step
    BY <1>4, UploadOneDoes DEF Fields
  <2>2. Pending' = Pending \ {k} /\ k \in Pending /\ sync.step = "upload"
    BY <2>1 DEF Pending, SyncType
  <2>3. Cardinality(Pending') = Cardinality(Pending) - 1
    BY <1>00, <2>2, FS_RemoveElement
  <2>4. /\ sync.failed = Cardinality(Of("upload"))
        /\ \A x \in Pending : <<"upload", x>> \notin sync.failures
        /\ \/ sync.cancelled
           \/ sync.succeeded + sync.skipped + sync.failed + Cardinality(Pending) = sync.attempted
    BY <2>2 DEF UploadsCounted, Uploading
  <2>5. CASE sync'.failures = sync.failures /\ sync'.failed = sync.failed
             /\ sync'.succeeded + sync'.skipped = sync.succeeded + sync.skipped + 1
    <3>1. Of("upload")' = Of("upload")
      BY <2>5 DEF Of
    <3>2. \/ sync'.cancelled
          \/ sync'.succeeded + sync'.skipped + sync'.failed + Cardinality(Pending') = sync'.attempted
      BY <1>0, <1>000, <2>1, <2>3, <2>4, <2>5
    <3> QED
      BY <2>2, <2>4, <2>5, <3>1, <3>2 DEF UploadsCounted
  <2>6. CASE /\ sync'.failures = sync.failures \cup {<<"upload", k>>}
             /\ sync'.failed = sync.failed + 1
             /\ sync'.succeeded = sync.succeeded /\ sync'.skipped = sync.skipped
    <3>1. Of("upload")' = Of("upload") \cup {<<"upload", k>>} /\ <<"upload", k>> \notin Of("upload")
      BY <2>2, <2>4, <2>6 DEF Of
    <3>2. Cardinality(Of("upload")') = Cardinality(Of("upload")) + 1
      BY <1>00, <3>1, FS_AddElement
    <3>3. \/ sync'.cancelled
          \/ sync'.succeeded + sync'.skipped + sync'.failed + Cardinality(Pending') = sync'.attempted
      BY <1>0, <1>000, <2>1, <2>3, <2>4, <2>6
    <3>4. \A x \in Pending' : <<"upload", x>> \notin sync'.failures
      BY <2>2, <2>4, <2>6
    <3> QED
      BY <2>4, <2>6, <3>2, <3>3, <3>4 DEF UploadsCounted
  <2> QED
    BY <1>0, <1>4, <2>5, <2>6, UploadOneDoes
<1>5. ASSUME NEW k \in sync.doomed, R2!Prune(k) PROVE UploadsCounted'
  <2>1. /\ sync'.holding = sync.holding /\ sync'.waiting = sync.waiting
        /\ sync'.cancelled = sync.cancelled /\ sync'.attempted = sync.attempted
        /\ sync'.succeeded = sync.succeeded /\ sync'.skipped = sync.skipped
        /\ sync'.failed = sync.failed /\ sync.step = "prune"
        /\ sync'.failures \in {sync.failures, sync.failures \cup {<<"prune", k>>}}
    BY <1>5, PruneDoes DEF Fields
  <2>2. Pending' = Pending /\ Pending = {}
    BY <2>1 DEF Pending, SyncType
  <2>3. Of("upload")' = Of("upload")
    BY <2>1 DEF Of
  <2> QED
    BY <2>1, <2>2, <2>3 DEF UploadsCounted, Uploading
<1> QED
  BY <1>1, <1>2, <1>3, <1>4, <1>5, R2Kinds

LEMMA ListFreshStep ==
  ASSUME SyncType, ListIsFresh, R2!R2Next
  PROVE  ListIsFresh'
<1>1. CASE sync'.step # "upload"
  BY <1>1 DEF ListIsFresh
<1>2. CASE R2!List /\ sync'.step = "upload"
  <2>1. /\ sync'.remote = R2!ListAll /\ bucket' = bucket
    BY <1>2, ListDoes
  <2>2. R2!ListAll' = R2!ListAll
    BY <2>1 DEF R2!ListAll, R2!Listed, R2!HasPrefix
  <2>3. \A k \in DOMAIN R2!ListAll : k \in DOMAIN bucket /\ R2!ListAll[k] = bucket[k]
    BY DEF R2!ListAll, R2!Restrict
  <2> QED
    BY <2>1, <2>2, <2>3 DEF ListIsFresh
<1>3. CASE Resting /\ sync'.step = "upload"
  <2>1. /\ sync'.remote = sync.remote /\ sync'.localObjs = sync.localObjs
        /\ bucket' = bucket /\ Pending' \subseteq Pending
    BY <1>3 DEF Resting, Moves, Fields
  <2>2. R2!ListAll' = R2!ListAll
    BY <2>1 DEF R2!ListAll, R2!Listed, R2!HasPrefix
  <2>3. sync.step = "upload"
    BY <1>3 DEF Resting
  <2> QED
    BY <2>1, <2>2, <2>3 DEF ListIsFresh
<1>4. ASSUME NEW k \in DOMAIN sync.localObjs, R2!UploadOne(k) PROVE ListIsFresh'
  <2>1. /\ k \in sync.holding /\ sync'.holding = sync.holding \ {k} /\ sync'.waiting = sync.waiting
        /\ sync'.localObjs = sync.localObjs /\ sync'.remote = sync.remote
        /\ bucket' \in {bucket, R2!Put(bucket, k, R2!Object(k))}
    BY <1>4, UploadOneDoes DEF Fields
  <2>2. Pending' = Pending \ {k} /\ k \in Pending /\ sync.step = "upload"
    BY <2>1 DEF Pending, SyncType
  <2>3. /\ DOMAIN bucket \subseteq DOMAIN bucket' /\ DOMAIN bucket' \subseteq DOMAIN bucket \cup {k}
        /\ \A x \in DOMAIN bucket : x # k => bucket'[x] = bucket[x]
    BY <2>1 DEF R2!Put
  <2>4. DOMAIN R2!ListAll' \subseteq DOMAIN R2!ListAll \cup {k}
    BY <2>3 DEF R2!ListAll, R2!Restrict, R2!Listed, R2!HasPrefix
  <2> QED
    BY <2>1, <2>2, <2>3, <2>4 DEF ListIsFresh
<1>5. ASSUME NEW k \in sync.doomed, R2!Prune(k) PROVE ListIsFresh'
  <2>1. sync'.step = "prune"
    BY <1>5, PruneDoes DEF Fields
  <2> QED
    BY <2>1 DEF ListIsFresh
<1> QED
  BY <1>1, <1>2, <1>3, <1>4, <1>5, R2Kinds DEF Uploading

(* A prune forgets no key: it is deleted, reported or still to come.       *)
LEMMA PruneStep ==
  ASSUME SyncType, ListIsFresh, PruneGoesOn, R2!R2Next
  PROVE  PruneGoesOn'
<1> DEFINE Pruning == sync.step = "prune" \/ (R2!Sent /\ sync.prune)
<1>1. CASE ~Pruning'
  BY <1>1 DEF PruneGoesOn
<1>2. CASE R2!UploadsDone /\ Pruning'
  <2>1. /\ sync'.prune = sync.prune /\ sync'.localObjs = sync.localObjs /\ bucket' = bucket
        /\ sync.step = "upload"
        /\ \/ sync.prune /\ sync'.doomed = DOMAIN sync.remote
           \/ ~sync.prune /\ sync'.step = "done"
    BY <1>2, UploadsDoneDoes DEF Moves, Fields
  <2>2. sync'.doomed = DOMAIN sync.remote
    BY <1>2, <2>1 DEF Pruning
  <2>3. R2!ListAll' = R2!ListAll
    BY <2>1 DEF R2!ListAll, R2!Listed, R2!HasPrefix
  <2> QED
    BY <2>1, <2>2, <2>3 DEF PruneGoesOn, ListIsFresh
<1>3. CASE R2!PruneDone \/ R2!CancelSync
  <2>1. /\ sync'.localObjs = sync.localObjs /\ bucket' = bucket /\ sync'.doomed = sync.doomed
        /\ sync'.failures = sync.failures
        /\ sync.step = "prune" \/ (sync'.step = "upload" /\ sync.step = "upload")
    BY <1>3, PruneDoneDoes, CancelDoes DEF Moves, Fields
  <2>2. R2!ListAll' = R2!ListAll
    BY <2>1 DEF R2!ListAll, R2!Listed, R2!HasPrefix
  <2> QED
    BY <2>1, <2>2 DEF PruneGoesOn, R2!Sent
<1>4. ASSUME NEW k \in sync.doomed, R2!Prune(k) PROVE PruneGoesOn'
  <2>1. /\ sync'.localObjs = sync.localObjs /\ sync'.doomed = sync.doomed \ {k}
        /\ sync.failures \subseteq sync'.failures /\ sync.step = "prune"
    BY <1>4, PruneDoes DEF Fields
  <2>2. \/ k \in DOMAIN sync.localObjs \/ k \notin DOMAIN bucket' \/ <<"prune", k>> \in sync'.failures
    BY <1>4, PruneDoes DEF R2!Restrict
  <2>3. bucket' \in {bucket, R2!Restrict(bucket, DOMAIN bucket \ {k})}
    BY <1>4, PruneDoes
  <2>4. DOMAIN bucket' \subseteq DOMAIN bucket
    BY <2>3 DEF R2!Restrict
  <2>5. DOMAIN R2!ListAll' \subseteq DOMAIN R2!ListAll /\ DOMAIN R2!ListAll' \subseteq DOMAIN bucket'
    BY <2>4 DEF R2!ListAll, R2!Restrict, R2!Listed, R2!HasPrefix
  <2> QED
    BY <2>1, <2>2, <2>5 DEF PruneGoesOn
<1>5. ASSUME R2!CheckBucket \/ R2!WalkLocal \/ R2!List \/ R2!SyncAgain PROVE ~Pruning'
  <2>1. R2!CheckBucket => sync'.step = "walk" \/ (sync'.step = "done" /\ sync'.err)
    BY DEF R2!CheckBucket, SyncType, Fields
  <2>3. R2!WalkLocal => sync'.step = "walk"
    BY DEF R2!WalkLocal, SyncType, Fields
  <2>4. R2!SyncAgain => sync'.step = "bucket"
    BY DEF R2!SyncAgain, R2!Called
  <2>2. R2!List => ~Pruning'
    BY ListDoes DEF R2!Sent
  <2> QED
    BY <1>5, <2>1, <2>2, <2>3, <2>4 DEF R2!Sent
<1>6. ASSUME NEW k \in DOMAIN sync.localObjs,
             R2!AcquireSlot(k) \/ R2!GiveUpSlot(k) \/ R2!UploadOne(k)
      PROVE  ~Pruning'
  <2>1. sync'.step = "upload"
    BY <1>6, SlotDoes, UploadOneDoes DEF SyncType, Pending, Fields
  <2> QED
    BY <2>1 DEF R2!Sent
<1> HIDE DEF Pruning
<1> QED
  BY <1>1, <1>2, <1>3, <1>4, <1>5, <1>6 DEF R2!R2Next

(* A second sync of the same files: whatever a prefix lists is found as it *)
(* was left, and matches.                                                  *)
LEMMA AgainStep ==
  ASSUME SyncType, Before, Again, ListIsFresh, R2!R2Next
  PROVE  Again'
<1> DEFINE Objs == DOMAIN sync.localObjs
<1>0. /\ IsFiniteSet(Objs) /\ Pending \subseteq Objs
      /\ sync.succeeded \in Nat /\ sync.failed \in Nat
  BY DEF SyncType
<1>00. \A P : IsFiniteSet(Resent(sync.localObjs, Objs \ P)) /\ Cardinality(Resent(sync.localObjs, Objs \ P)) \in Nat
  <2> TAKE P
  <2>1. Resent(sync.localObjs, Objs \ P) \subseteq Objs
    BY DEF Resent
  <2> HIDE DEF Objs
  <2> QED
    BY <1>0, <2>1, FS_Subset, FS_CardinalityType
<1>1. CASE ~Uploading'
  BY <1>1 DEF Again
<1>2. CASE R2!List /\ sync'.step = "upload" /\ sync'.localObjs = previous'
  <2>1. /\ sync'.localObjs = sync.localObjs /\ previous' = previous /\ bucket' = bucket
        /\ sync'.succeeded = sync.succeeded /\ sync'.failed = sync.failed
        /\ sync'.remote = R2!ListAll /\ sync.step = "walk"
    BY <1>2, ListDoes DEF Fields
  <2>2. sync.failed = 0 /\ sync.succeeded = 0
    BY <2>1 DEF Before
  <2>3. ASSUME NEW k \in Objs, ~R2!SentAgain(k)
        PROVE  k \in DOMAIN R2!ListAll /\ R2!SameETag(R2!ListAll[k], k)
    <3>1. k \in DOMAIN bucket /\ Copies(bucket[k], sync.localObjs[k])
      BY <1>2, <2>1 DEF Before
    <3>2. R2!Listed(k) /\ sync.localObjs[k] \notin Large
      BY <2>3 DEF R2!SentAgain
    <3>3. k \in DOMAIN R2!ListAll /\ R2!ListAll[k] = bucket[k]
      BY <3>1, <3>2 DEF R2!ListAll, R2!Restrict
    <3> QED
      BY <3>1, <3>2, <3>3 DEF Copies, R2!SameETag, R2!Local
  <2>4. ASSUME NEW k \in Objs, ~R2!SentAgain(k)' PROVE R2!Matches(k)'
    <3>1. ~R2!SentAgain(k)
      BY <2>1, <2>4 DEF R2!SentAgain, R2!Listed, R2!HasPrefix
    <3> QED
      BY <2>1, <2>3, <3>1 DEF R2!Matches, R2!SameETag, R2!Local
  <2>5. DOMAIN sync'.localObjs = Objs
    BY <2>1
  <2>6. sync'.succeeded + sync'.failed <= Cardinality(Resent(sync.localObjs, Objs \ Pending'))
    BY <1>00, <2>1, <2>2
  <2>7. sync'.localObjs = sync.localObjs
    BY <2>1
  <2> QED
    BY <2>4, <2>5, <2>6, <2>7 DEF Again
<1>3. CASE Resting
  <2>1. /\ sync'.remote = sync.remote /\ sync'.localObjs = sync.localObjs
        /\ sync'.succeeded = sync.succeeded /\ sync'.failed = sync.failed
        /\ previous' = previous /\ Pending' \subseteq Pending
        /\ sync'.step = "upload" => sync.step = "upload"
    BY <1>3 DEF Resting, Moves, Fields
  <2>2. Resent(sync.localObjs, Objs \ Pending) \subseteq Resent(sync.localObjs, Objs \ Pending')
    BY <2>1 DEF Resent
  <2>3. Cardinality(Resent(sync.localObjs, Objs \ Pending)) <= Cardinality(Resent(sync.localObjs, Objs \ Pending'))
    <3> HIDE DEF Objs
    <3> QED
      BY <1>00, <2>2, FS_Subset
  <2>5. \A k \in Objs : (R2!SentAgain(k)' <=> R2!SentAgain(k)) /\ (R2!Matches(k)' <=> R2!Matches(k))
    BY <2>1 DEF R2!SentAgain, R2!Listed, R2!HasPrefix, R2!Matches, R2!SameETag, R2!Local
  <2> DEFINE u == Cardinality(Resent(sync.localObjs, Objs \ Pending))
             v == Cardinality(Resent(sync.localObjs, Objs \ Pending'))
  <2>6. u \in Nat /\ v \in Nat /\ u <= v
    BY <1>00, <2>3
  <2>7. Uploading /\ previous # R2!None /\ sync.localObjs = previous => sync.succeeded + sync.failed <= u
    BY DEF Again
  <2> HIDE DEF u, v
  <2>8. Uploading /\ previous # R2!None /\ sync.localObjs = previous => sync.succeeded + sync.failed <= v
    BY <1>0, <2>6, <2>7
  <2>9. Cardinality(Resent(sync'.localObjs, DOMAIN sync'.localObjs \ Pending')) = v
    BY <2>1 DEF v
  <2> QED
    BY <1>3, <2>1, <2>5, <2>8, <2>9 DEF Again, Resting
<1>4. ASSUME NEW k \in Objs, R2!UploadOne(k), sync.localObjs = previous, previous # R2!None
      PROVE Again'
  <2>1. /\ k \in sync.holding /\ sync'.holding = sync.holding \ {k} /\ sync'.waiting = sync.waiting
        /\ sync'.localObjs = sync.localObjs /\ sync'.remote = sync.remote
        /\ sync'.step = sync.step /\ previous' = previous
    BY <1>4, UploadOneDoes DEF Fields
  <2>2. Pending' = Pending \ {k} /\ k \in Pending /\ sync.step = "upload"
    BY <2>1 DEF Pending, SyncType
  <2>3. \A x \in Objs : (R2!SentAgain(x)' <=> R2!SentAgain(x)) /\ (R2!Matches(x)' <=> R2!Matches(x))
    BY <2>1 DEF R2!SentAgain, R2!Listed, R2!HasPrefix, R2!Matches, R2!SameETag, R2!Local
  <2> DEFINE A == Resent(sync.localObjs, Objs \ Pending)  B == Resent(sync.localObjs, Objs \ (Pending \ {k}))
  <2>4. /\ \A x \in Objs : ~R2!SentAgain(x) => R2!Matches(x)
        /\ sync.succeeded + sync.failed <= Cardinality(A)
    BY <1>4, <2>2 DEF Again, Uploading
  <2>5. /\ IsFiniteSet(A) /\ IsFiniteSet(B)
        /\ Cardinality(A) \in Nat /\ Cardinality(B) \in Nat
    BY <1>00
  <2>6. sync'.succeeded + sync'.failed <= Cardinality(B)
    <3>1. CASE R2!Matches(k) /\ sync'.succeeded = sync.succeeded /\ sync'.failed = sync.failed
      <4>1. A \subseteq B
        BY DEF Resent
      <4> HIDE DEF A, B
      <4>2. Cardinality(A) <= Cardinality(B)
        BY <2>5, <4>1, FS_Subset
      <4> QED
        BY <1>0, <2>4, <2>5, <3>1, <4>2
    <3>2. CASE ~R2!Matches(k) /\ sync'.succeeded + sync'.failed = sync.succeeded + sync.failed + 1
      <4>1. B = A \cup {k} /\ k \notin A
        BY <2>2, <2>4, <3>2 DEF Resent, R2!SentAgain
      <4> HIDE DEF A, B
      <4>2. Cardinality(B) = Cardinality(A) + 1
        BY <2>5, <4>1, FS_AddElement
      <4> QED
        BY <1>0, <2>4, <2>5, <3>2, <4>2
    <3> QED
      BY <1>0, <1>4, <3>1, <3>2, UploadOneDoes
  <2>7. Resent(sync'.localObjs, DOMAIN sync'.localObjs \ Pending') = B
    BY <2>1, <2>2
  <2> HIDE DEF A, B
  <2> QED
    BY <2>1, <2>3, <2>4, <2>6, <2>7 DEF Again
<1>5. ASSUME NEW k \in sync.doomed, R2!Prune(k) PROVE Again'
  <2>1. /\ sync'.holding = sync.holding /\ sync'.waiting = sync.waiting
        /\ sync'.localObjs = sync.localObjs /\ previous' = previous
        /\ sync'.succeeded = sync.succeeded /\ sync'.failed = sync.failed
        /\ sync.step = "prune" /\ sync'.step = "prune"
    BY <1>5, PruneDoes DEF Fields
  <2>2. Resent(sync'.localObjs, DOMAIN sync'.localObjs \ Pending') = Resent(sync.localObjs, Objs \ Pending)
    BY <2>1 DEF Pending
  <2> QED
    BY <2>1, <2>2 DEF Again, Uploading
<1>6. ASSUME NEW k \in Objs, R2!UploadOne(k), ~(sync.localObjs = previous /\ previous # R2!None)
      PROVE Again'
  <2>1. sync'.localObjs = sync.localObjs /\ previous' = previous
    BY <1>6, UploadOneDoes DEF Fields
  <2> QED
    BY <1>6, <2>1 DEF Again
<1>7. CASE sync'.localObjs # previous'
  BY <1>7 DEF Again
<1> QED
  BY <1>1, <1>2, <1>3, <1>4, <1>5, <1>6, <1>7, R2Kinds

(* A clean sync has put everything there, and the bucket is as it left it  *)
(* until the next one uploads.                                             *)
LEMMA BeforeStep ==
  ASSUME SyncType, Before, UploadsMirror, R2!R2Next
  PROVE  Before'
<1>1. CASE sync'.step \notin {"bucket", "walk"}
  BY <1>1 DEF Before
<1>2. CASE R2!CheckBucket \/ R2!WalkLocal
  <2>1. /\ sync.step \in {"bucket", "walk"}
        /\ sync'.failed = sync.failed /\ sync'.succeeded = sync.succeeded /\ sync'.skipped = sync.skipped
        /\ bucket' = bucket /\ previous' = previous
    BY <1>2 DEF R2!CheckBucket, R2!WalkLocal, SyncType, Fields, R2!history
  <2>2. Of("upload")' = Of("upload")
    <3>1. sync'.failures = sync.failures \/ \E n : sync'.failures = sync.failures \cup {<<"walk", n>>}
      BY <1>2 DEF R2!CheckBucket, R2!WalkLocal, SyncType, Fields
    <3> QED
      BY <3>1 DEF Of
  <2> QED
    BY <2>1, <2>2 DEF Before
<1>3. CASE R2!SyncAgain
  <2>1. /\ sync'.failures = {} /\ sync'.failed = 0 /\ sync'.succeeded = 0 /\ sync'.skipped = 0
        /\ bucket' = bucket /\ sync.step = "done"
        /\ previous' = IF R2!Clean(sync) THEN sync.localObjs ELSE R2!None
    BY <1>3 DEF R2!SyncAgain, R2!Called
  <2>2. ASSUME R2!Clean(sync), NEW k \in DOMAIN sync.localObjs PROVE There(k)
    <3>1. Uploading /\ Pending = {} /\ sync.failures = {} /\ ~sync.cancelled
      BY <2>1, <2>2 DEF R2!Clean, Uploading, R2!Sent, SyncType
    <3> QED
      BY <3>1 DEF UploadsMirror
  <2>3. \A k \in DOMAIN previous' : k \in DOMAIN bucket' /\ Copies(bucket'[k], previous'[k])
    <3>1. CASE R2!Clean(sync)
      BY <2>1, <2>2, <3>1 DEF There
    <3>2. CASE ~R2!Clean(sync)
      BY <2>1, <3>2 DEF R2!None
    <3> QED
      BY <3>1, <3>2
  <2>4. Of("upload")' = {}
    BY <2>1 DEF Of
  <2> QED
    BY <2>1, <2>3, <2>4 DEF Before
<1>4. ASSUME ~(R2!CheckBucket \/ R2!WalkLocal \/ R2!SyncAgain) PROVE sync'.step \notin {"bucket", "walk"}
  <2>1. R2!List => sync'.step \in {"done", "upload"}
    BY ListDoes
  <2>2. R2!UploadsDone \/ R2!PruneDone \/ R2!CancelSync => sync'.step \in {"done", "prune", "upload"}
    BY UploadsDoneDoes, PruneDoneDoes, CancelDoes
  <2>3. ASSUME NEW k \in DOMAIN sync.localObjs,
               R2!AcquireSlot(k) \/ R2!GiveUpSlot(k) \/ R2!UploadOne(k)
        PROVE  sync'.step = "upload"
    BY <2>3, SlotDoes, UploadOneDoes DEF SyncType, Pending, Fields
  <2>4. ASSUME NEW k \in sync.doomed, R2!Prune(k) PROVE sync'.step = "prune"
    BY <2>4, PruneDoes DEF Fields
  <2> QED
    BY <1>4, <2>1, <2>2, <2>3, <2>4 DEF R2!R2Next
<1> QED
  BY <1>1, <1>2, <1>3, <1>4

(* A mapping walked to its end leaves no file out; nothing is walked after *)
(* that.                                                                   *)
LEMMA WalkStep ==
  ASSUME SyncType, WalkGoes, R2!R2Next
  PROVE  WalkGoes'
<1>1. ASSUME sync'.walked = sync.walked, sync'.cut = sync.cut, sync'.localObjs = sync.localObjs,
             Uploading' => sync'.walked = Len(Mappings)
      PROVE  WalkGoes'
  BY <1>1 DEF WalkGoes
<1>2. CASE R2!CheckBucket
  <2>1. /\ sync'.walked = sync.walked /\ sync'.cut = sync.cut /\ sync'.localObjs = sync.localObjs
        /\ ~Uploading'
    BY <1>2 DEF R2!CheckBucket, SyncType, Fields, Uploading, R2!Sent
  <2> QED
    BY <1>1, <2>1
<1>3. CASE R2!WalkLocal
  <2> DEFINE w == sync.walked + 1
             m == Mappings[w]
             Keys(i) == \A j \in 1..Len(Mappings[i].walk) :
                            R2!KeyOf(Mappings[i], Mappings[i].walk[j]) \in DOMAIN sync'.localObjs
  <2>1. sync'.walked = w /\ sync'.step = "walk" /\ w \in 1..Len(Mappings)
    <3>1. sync'.walked = w /\ sync'.step = "walk" /\ sync.walked < Len(Mappings)
      BY <1>3, WalkLocalDoes DEF Fields
    <3> QED
      BY <3>1, MappingsType DEF SyncType
  <2>2. Len(m.walk) \in Nat /\ IsFiniteSet(DOMAIN sync.localObjs)
    BY <2>1, MappingsType DEF SyncType
  <2>3. DOMAIN sync.localObjs \subseteq DOMAIN sync'.localObjs /\ sync.cut \subseteq sync'.cut
        /\ (w \in sync'.cut \/ Keys(w))
    <3>1. CASE sync'.localObjs = sync.localObjs /\ sync'.cut = sync.cut \cup {w}
      BY <3>1
    <3>2. ASSUME NEW n \in 0..Len(m.walk), sync'.localObjs = R2!WithFiles(sync.localObjs, m, n),
                 sync'.cut = IF n < Len(m.walk) THEN sync.cut \cup {w} ELSE sync.cut
          PROVE  /\ DOMAIN sync.localObjs \subseteq DOMAIN sync'.localObjs
                 /\ sync.cut \subseteq sync'.cut /\ (w \in sync'.cut \/ Keys(w))
      <4>1. n \in Nat /\ (n < Len(m.walk) \/ n = Len(m.walk))
        <5> HIDE DEF m
        <5> QED
          BY <2>2
      <4>2. /\ DOMAIN sync.localObjs \subseteq DOMAIN sync'.localObjs
            /\ \A j \in 1..n : R2!KeyOf(m, m.walk[j]) \in DOMAIN sync'.localObjs
        <5> HIDE DEF m
        <5> QED
          BY <2>2, <3>2, <4>1, WalkedFinite
      <4>3. CASE n < Len(m.walk)
        BY <3>2, <4>2, <4>3
      <4>4. CASE n = Len(m.walk)
        <5>1. Keys(w)
          BY <4>2, <4>4
        <5>2. sync.cut \subseteq sync'.cut
          BY <3>2
        <5> QED
          BY <4>2, <5>1, <5>2
      <4> QED
        BY <4>1, <4>3, <4>4
    <3> HIDE DEF Keys, m
    <3> QED
      BY <1>3, <3>1, <3>2, WalkLocalDoes DEF m
  <2>4. ASSUME NEW i \in (1..sync'.walked) \ sync'.cut PROVE Keys(i)
    <3>1. i = w \/ i \in (1..sync.walked) \ sync.cut
      <4>1. sync.walked \in Nat
        BY MappingsType DEF SyncType
      <4> QED
        BY <2>1, <2>3, <2>4, <4>1
    <3> QED
      BY <2>3, <2>4, <3>1 DEF WalkGoes
  <2>5. ~Uploading'
    BY <2>1 DEF Uploading, R2!Sent
  <2> QED
    BY <2>4, <2>5 DEF WalkGoes
<1>4. CASE R2!SyncAgain
  <2>1. sync'.walked = 0 /\ sync'.step = "bucket"
    BY <1>4 DEF R2!SyncAgain, R2!Called
  <2>2. ~Uploading' /\ 1..sync'.walked = {}
    BY <2>1 DEF Uploading, R2!Sent
  <2> QED
    BY <2>2 DEF WalkGoes
<1>5. CASE R2!List
  <2>1. /\ sync'.walked = sync.walked /\ sync'.cut = sync.cut /\ sync'.localObjs = sync.localObjs
    BY <1>5, ListDoes DEF Fields
  <2>2. sync.walked = Len(Mappings)
    BY <1>5 DEF R2!List
  <2> QED
    BY <1>1, <2>1, <2>2
<1>6. CASE Resting
  <2>1. /\ sync'.walked = sync.walked /\ sync'.cut = sync.cut /\ sync'.localObjs = sync.localObjs
        /\ Uploading
    BY <1>6 DEF Resting, Moves, Fields
  <2> QED
    BY <1>1, <2>1 DEF WalkGoes
<1>7. ASSUME NEW k \in DOMAIN sync.localObjs, R2!UploadOne(k) PROVE WalkGoes'
  <2>1. /\ sync'.walked = sync.walked /\ sync'.cut = sync.cut /\ sync'.localObjs = sync.localObjs
        /\ sync.step = "upload"
    BY <1>7, UploadOneDoes DEF Fields, SyncType, Pending
  <2> QED
    BY <1>1, <2>1 DEF WalkGoes, Uploading
<1>8. ASSUME NEW k \in sync.doomed, R2!Prune(k) PROVE WalkGoes'
  <2>1. /\ sync'.walked = sync.walked /\ sync'.cut = sync.cut /\ sync'.localObjs = sync.localObjs
        /\ sync.step = "prune"
    BY <1>8, PruneDoes DEF Fields
  <2> QED
    BY <1>1, <2>1 DEF WalkGoes, Uploading
<1>9. Resting \/ R2!CheckBucket \/ R2!WalkLocal \/ R2!SyncAgain \/ R2!List
      \/ (\E k \in DOMAIN sync.localObjs : R2!UploadOne(k)) \/ (\E k \in sync.doomed : R2!Prune(k))
  <2>1. R2!UploadsDone \/ R2!PruneDone \/ R2!CancelSync => Resting
    BY UploadsDoneDoes, PruneDoneDoes, CancelDoes DEF Resting, Uploading, Pending
  <2>2. ASSUME NEW k \in DOMAIN sync.localObjs, R2!AcquireSlot(k) \/ R2!GiveUpSlot(k) PROVE Resting
    <3>1. sync.step = "upload"
      BY <2>2, SlotDoes DEF SyncType, Pending
    <3> QED
      BY <2>2, <3>1, SlotDoes DEF Resting, Uploading
  <2> QED
    BY <2>1, <2>2 DEF R2!R2Next
<1> QED
  BY <1>2, <1>3, <1>4, <1>5, <1>6, <1>7, <1>8, <1>9

(* The invariant of a sync.                                                *)
R2Core ==
    /\ SyncType /\ Before /\ UploadsMirror /\ UploadsCounted /\ ListIsFresh /\ PruneGoesOn /\ Again
    /\ WalkGoes

LEMMA R2CoreStep == R2Core /\ R2!R2Next => R2Core'
  BY SyncTypeStep, BeforeStep, MirrorStep, CountedStepR2, ListFreshStep, PruneStep, AgainStep, WalkStep
     DEF R2Core

(* A sync that is called first.                                            *)
FirstCall == previous = R2!None /\ \E prune, dryRun \in BOOLEAN : sync = R2!Called(prune, dryRun)

LEMMA R2CoreCalled == FirstCall => R2Core
<1> SUFFICES ASSUME previous = R2!None, NEW prune, NEW dryRun, sync = R2!Called(prune, dryRun)
             PROVE  R2Core
  BY DEF FirstCall
<1>1. /\ DOMAIN sync = Fields /\ sync.step = "bucket" /\ sync.localObjs = <<>> /\ sync.walked = 0
      /\ sync.failures = {} /\ sync.waiting = {} /\ sync.holding = {} /\ sync.doomed = {}
      /\ sync.attempted = 0 /\ sync.succeeded = 0 /\ sync.skipped = 0 /\ sync.failed = 0
  BY DEF R2!Called, R2!None, Fields
<1>2. IsFiniteSet({}) /\ IsFiniteSet(DOMAIN <<>>) /\ 0 \in 0..Len(Mappings)
  BY FS_EmptySet, MappingsType
<1>3. SyncType
  BY <1>1, <1>2 DEF SyncType, Pending
<1>4. ~Uploading /\ sync.step = "bucket"
  BY <1>1 DEF Uploading, R2!Sent
<1>5. Before
  BY <1>1 DEF Before, Of, R2!None
<1>6. WalkGoes
  <2>1. 1..sync.walked = {}
    BY <1>1
  <2> QED
    BY <1>4, <2>1 DEF WalkGoes
<1> QED
  BY <1>3, <1>4, <1>5, <1>6
     DEF R2Core, UploadsMirror, UploadsCounted, ListIsFresh, PruneGoesOn, Again, R2!Sent

LEMMA R2CoreCalledNext == FirstCall' => R2Core'
  BY R2CoreCalled, PTL

(* The steps of the other targets.                                         *)
LEMMA R2CoreQuiet ==
  ASSUME R2Core, UNCHANGED r2
  PROVE  R2Core'
<1>1. sync' = sync /\ bucket' = bucket /\ previous' = previous
  BY DEF r2
<1>2. SyncType' /\ Before' /\ UploadsMirror' /\ UploadsCounted' /\ WalkGoes'
  BY <1>1 DEF R2Core, SyncType, Before, UploadsMirror, UploadsCounted, WalkGoes, Pending, Of, There,
              Uploading, R2!Sent, R2!Local
<1>3. R2!ListAll' = R2!ListAll
  BY <1>1 DEF R2!ListAll, R2!Listed, R2!HasPrefix
<1>4. ListIsFresh' /\ PruneGoesOn' /\ Again'
  BY <1>1, <1>3 DEF R2Core, ListIsFresh, PruneGoesOn, Again, Pending, Uploading, R2!Sent,
              R2!SentAgain, R2!Listed, R2!HasPrefix, R2!Matches, R2!SameETag, R2!Local
<1> QED
  BY <1>2, <1>4 DEF R2Core

(* What it gives at the end of a sync.                                     *)
LEMMA R2CoreMirrors == R2Core => SyncMirrors
<1> SUFFICES ASSUME R2Core PROVE SyncMirrors
  OBVIOUS
<1>1. R2!Sent => Uploading /\ Pending = {} /\ ~sync.cancelled /\ sync.doomed = {}
  BY DEF R2Core, SyncType, Uploading, R2!Sent
<1>2. R2!Mirrored
  <2>1. R2!Sent => R2!WholeKeys \subseteq DOMAIN sync.localObjs
    <3> SUFFICES ASSUME R2!Sent, NEW k \in R2!WholeKeys PROVE k \in DOMAIN sync.localObjs
      OBVIOUS
    <3>1. DOMAIN Mappings = 1..Len(Mappings)
      BY MappingsType
    <3>2. PICK i \in (1..Len(Mappings)) \ sync.cut :
              k \in {R2!KeyOf(Mappings[i], a) : a \in R2!ToSet(Mappings[i].walk)}
      BY <3>1 DEF R2!WholeKeys
    <3>3. PICK a \in R2!ToSet(Mappings[i].walk) : k = R2!KeyOf(Mappings[i], a)
      BY <3>2
    <3>4. PICK j \in DOMAIN Mappings[i].walk : a = Mappings[i].walk[j]
      BY <3>3 DEF R2!ToSet
    <3>5. DOMAIN Mappings[i].walk = 1..Len(Mappings[i].walk)
      BY MappingsType
    <3> QED
      BY <1>1, <3>2, <3>3, <3>4, <3>5 DEF R2Core, WalkGoes
  <2> QED
    BY <1>1, <2>1 DEF R2Core, UploadsMirror, PruneGoesOn, R2!Mirrored, There, Copies, R2!Local
<1>3. R2!SecondSyncSkips
  <2> SUFFICES ASSUME R2!Sent, previous # R2!None, sync.localObjs = previous
               PROVE  sync.attempted - sync.skipped
                        <= R2!Cardinality({k \in DOMAIN sync.localObjs : R2!SentAgain(k)})
    BY DEF R2!SecondSyncSkips
  <2> DEFINE c == Cardinality(Resent(sync.localObjs, DOMAIN sync.localObjs))
  <2>1. Resent(sync.localObjs, DOMAIN sync.localObjs \ Pending) = Resent(sync.localObjs, DOMAIN sync.localObjs)
    BY <1>1
  <2>2. sync.succeeded + sync.failed <= c
    BY <1>1, <2>1 DEF R2Core, Again
  <2>3. sync.succeeded + sync.skipped + sync.failed + Cardinality(Pending) = sync.attempted
    BY <1>1 DEF R2Core, UploadsCounted
  <2>4. Cardinality(Pending) = 0 /\ c \in Nat
    <3>1. IsFiniteSet(Resent(sync.localObjs, DOMAIN sync.localObjs))
      BY FS_Subset DEF R2Core, SyncType, Resent
    <3> QED
      BY <1>1, <3>1, FS_EmptySet, FS_CardinalityType
  <2>5. /\ sync.attempted \in Nat /\ sync.succeeded \in Nat /\ sync.skipped \in Nat
        /\ sync.failed \in Nat
    BY DEF R2Core, SyncType
  <2>6. c = R2!Cardinality({k \in DOMAIN sync.localObjs : R2!SentAgain(k)})
    BY SameCount DEF Resent, R2!SentAgain
  <2> HIDE DEF c
  <2>7. sync.attempted - sync.skipped <= c
    BY <2>2, <2>3, <2>4, <2>5
  <2> QED
    BY <2>6, <2>7
<1> QED
  BY <1>2, <1>3 DEF SyncMirrors

LEMMA R2CoreAccounts == R2Core => R2!SyncAccounted
<1> SUFFICES ASSUME R2Core, R2!Sent
             PROVE  /\ sync.succeeded + sync.skipped + sync.failed = sync.attempted
                    /\ sync.failed = R2!Cardinality({f \in sync.failures : f[1] = "upload"})
  BY DEF R2!SyncAccounted
<1>1. Uploading /\ Pending = {} /\ ~sync.cancelled
  BY DEF R2Core, SyncType, Uploading, R2!Sent
<1>2. /\ sync.failed = Cardinality(Of("upload"))
      /\ sync.succeeded + sync.skipped + sync.failed + Cardinality(Pending) = sync.attempted
  BY <1>1 DEF R2Core, UploadsCounted
<1>3. Cardinality(Pending) = 0
  BY <1>1, FS_EmptySet
<1>4. sync.succeeded \in Nat /\ sync.skipped \in Nat /\ sync.failed \in Nat
  BY DEF R2Core, SyncType
<1>5. sync.succeeded + sync.skipped + sync.failed = sync.attempted
  BY <1>2, <1>3, <1>4
<1> QED
  BY <1>2, <1>5, SameCount DEF Of

-----------------------------------------------------------------------------
(* The worker scripts. *)
Differ(s) == \A i, j \in DOMAIN s : s[i].name = s[j].name => i = j

LEMMA KeptDiffers ==
  ASSUME NEW out \in Seq(Scripts), Differ(out), NEW w \in Scripts
  PROVE  Kept(out, w) \in Seq(Scripts) /\ Differ(Kept(out, w))
<1>1. CASE Kept(out, w) = out
  BY <1>1
<1>2. CASE Kept(out, w) # out
  <2>1. Kept(out, w) = Append(out, w) /\ \A v \in ToSet(out) : v.name # w.name
    BY <1>2 DEF Kept
  <2>2. \A i \in DOMAIN out : out[i].name # w.name
    BY <2>1 DEF ToSet
  <2>3. Append(out, w) \in Seq(Scripts) /\ DOMAIN Append(out, w) = DOMAIN out \cup {Len(out) + 1}
    OBVIOUS
  <2>4. Append(out, w)[Len(out) + 1] = w /\ \A i \in DOMAIN out : Append(out, w)[i] = out[i]
    OBVIOUS
  <2>5. Differ(Append(out, w))
    BY <2>2, <2>3, <2>4 DEF Differ
  <2> QED
    BY <2>1, <2>3, <2>5
<1> QED
  BY <1>1, <1>2

(* Each name is kept once.                                                 *)
LEMMA DistinctDiffers ==
  ASSUME NEW scripts \in Seq(Scripts)
  PROVE  Distinct(scripts) \in Seq(Scripts) /\ Differ(Distinct(scripts))
<1> DEFINE N == Len(scripts)
           Step(k, n) == IF n = 0 THEN <<>> ELSE Kept(k[n-1], scripts[n])
           Is(k) == k = [n \in 0..N |-> Step(k, n)]
           out == CHOOSE k : Is(k)
           S == Seq(Scripts)
           G == [s \in S |-> [w \in Scripts |-> Kept(s, w)]]
<1>0. N \in Nat /\ \A n \in 1..N : scripts[n] \in Scripts /\ n - 1 \in 0..N /\ n \in 0..N /\ n # 0
  OBVIOUS
<1>1. G \in [S -> [Scripts -> S]] /\ <<>> \in S
  <2>1. ASSUME NEW s \in Seq(Scripts), NEW w \in Scripts PROVE Kept(s, w) \in Seq(Scripts)
    <3>1. Append(s, w) \in Seq(Scripts)
      OBVIOUS
    <3>2. Kept(s, w) = s \/ Kept(s, w) = Append(s, w)
      BY DEF Kept
    <3> QED
      BY <3>1, <3>2
  <2>2. <<>> \in Seq(Scripts)
    OBVIOUS
  <2> QED
    BY <2>1, <2>2
<1> HIDE DEF G, S
<1>2. PICK f \in [0..N -> S] : Steps(G, <<>>, scripts, f, N)
  BY <1>1, Recursion
<1>3. ASSUME NEW n \in 0..N PROVE f[n] = Step(f, n)
  <2>1. CASE n = 0
    BY <2>1, <1>2 DEF Steps
  <2>2. CASE n \in 1..N
    <3>1. f[n-1] \in S /\ scripts[n] \in Scripts
      BY <2>2, <1>0
    <3>2. f[n] = G[f[n-1]][scripts[n]]
      BY <2>2, <1>2 DEF Steps
    <3> QED
      BY <2>2, <3>1, <3>2 DEF G
  <2> QED
    BY <2>1, <2>2
<1>4. Is(f)
  <2>1. f = [n \in 0..N |-> f[n]]
    OBVIOUS
  <2> HIDE DEF Step
  <2> QED
    BY <1>3, <2>1
<1>5. Is(out)
  <2> HIDE DEF Is
  <2> QED
    BY <1>4
<1>6. Distinct(scripts) = out[N]
  BY DEF Distinct
<1>7. \A n \in 0..N : out[n] = Step(out, n)
  <2> HIDE DEF out, Step
  <2> QED
    BY <1>5
<1> HIDE DEF out, Is
<1>8. \A n \in 0..N : out[n] \in Seq(Scripts) /\ Differ(out[n])
  <2> DEFINE T == {n \in 0..N : out[n] \in Seq(Scripts) /\ Differ(out[n])}
  <2>1. 0 \in T
    <3>1. 0 \in 0..N /\ out[0] = <<>>
      BY <1>0, <1>7
    <3>2. <<>> \in Seq(Scripts) /\ DOMAIN <<>> = {}
      OBVIOUS
    <3>3. Differ(out[0])
      BY <3>1, <3>2 DEF Differ
    <3> QED
      BY <3>1, <3>2, <3>3
  <2>2. ASSUME NEW n \in 1..N, n - 1 \in T PROVE n \in T
    <3>1. out[n] = Kept(out[n-1], scripts[n])
      BY <1>0, <1>7
    <3>2. out[n-1] \in Seq(Scripts) /\ Differ(out[n-1]) /\ scripts[n] \in Scripts
      BY <1>0, <2>2
    <3>3. out[n] \in Seq(Scripts) /\ Differ(out[n])
      BY <3>1, <3>2, KeptDiffers
    <3> QED
      BY <1>0, <3>3
  <2> HIDE DEF T
  <2>3. \A n \in 0..N : n \in T
    BY <1>0, <2>1, <2>2, Induction
  <2> QED
    BY <2>3 DEF T
<1> QED
  BY <1>0, <1>6, <1>8

(* The head of a list of scripts is of another name than all that follow.  *)
LEMMA HeadDiffers ==
  ASSUME NEW s \in Seq(Scripts), s # <<>>, Differ(s)
  PROVE  /\ Tail(s) \in Seq(Scripts) /\ Len(s) = Len(Tail(s)) + 1
         /\ Differ(Tail(s))
         /\ ToSet(s) = {Head(s)} \cup ToSet(Tail(s))
         /\ \A w \in ToSet(Tail(s)) : w.name # Head(s).name
<1>1. /\ Tail(s) \in Seq(Scripts) /\ Len(s) = Len(Tail(s)) + 1 /\ Len(s) \in Nat
      /\ DOMAIN s = 1..Len(s) /\ DOMAIN Tail(s) = 1..Len(Tail(s)) /\ Len(Tail(s)) \in Nat
      /\ Head(s) = s[1] /\ 1 \in DOMAIN s
  OBVIOUS
<1>2. \A i \in DOMAIN Tail(s) : Tail(s)[i] = s[i+1] /\ i + 1 \in DOMAIN s /\ i + 1 # 1
  OBVIOUS
<1>3. \A i \in DOMAIN s : i = 1 \/ (i - 1 \in DOMAIN Tail(s) /\ Tail(s)[i-1] = s[i])
  <2>1. \A i \in DOMAIN s : i = 1 \/ (i - 1 \in DOMAIN Tail(s) /\ (i - 1) + 1 = i)
    BY <1>1
  <2> QED
    BY <1>2, <2>1
<1>4. Differ(Tail(s))
  <2>1. ASSUME NEW i \in DOMAIN Tail(s), NEW j \in DOMAIN Tail(s), Tail(s)[i].name = Tail(s)[j].name
        PROVE  i = j
    <3>1. i + 1 = j + 1
      BY <1>2, <2>1 DEF Differ
    <3> QED
      BY <1>1, <3>1
  <2> QED
    BY <2>1 DEF Differ
<1>5. \A w \in ToSet(Tail(s)) : w.name # Head(s).name
  <2>1. ASSUME NEW i \in DOMAIN Tail(s), Tail(s)[i].name = Head(s).name PROVE FALSE
    BY <1>1, <1>2, <2>1 DEF Differ
  <2> QED
    BY <2>1 DEF ToSet
<1>6. ToSet(s) = {Head(s)} \cup ToSet(Tail(s))
  BY <1>1, <1>2, <1>3 DEF ToSet
<1> QED
  BY <1>1, <1>4, <1>5, <1>6

(* What deployWorker holds.                                                *)
WorkerFields ==
    {"dryRun", "scripts", "todo", "uploaded", "attempted", "succeeded", "failures"}

(* The loop over the scripts, in the middle.                               *)
Halfway ==
    /\ workers.todo \in Seq(Scripts) /\ Differ(workers.todo)
    /\ IsFiniteSet(workers.failures) /\ workers.succeeded \in Nat
    /\ workers.succeeded + Cardinality(workers.failures) + Len(workers.todo) = workers.attempted
    /\ \A w \in ToSet(workers.todo) :
           w.name \notin workers.failures /\ \A v \in workers.uploaded : v.name # w.name
    /\ \A w \in ToSet(workers.scripts) :
           \/ w.name \in workers.failures \/ workers.dryRun \/ w \in workers.uploaded
           \/ w \in ToSet(workers.todo)
    /\ \A v, w \in workers.uploaded : v.name = w.name => v = w

(* The invariant of the loop.                                              *)
WorkersInv ==
    /\ DOMAIN workers = WorkerFields
    /\ deploying \in {"cli", "called"} =>
           workers.uploaded = {} /\ workers.failures = {} /\ workers.succeeded = 0
    /\ deploying \in {"worker", "ok", "failed"} => Halfway
    /\ deploying \in {"ok", "failed"} => workers.todo = <<>>

(* What DeployWorker changes.                                              *)
LEMMA WorkerDoes ==
  ASSUME WorkersInv, DeployWorker
  PROVE  /\ DOMAIN workers' = WorkerFields /\ deploying' = deploying /\ workers.todo # <<>>
         /\ workers'.todo = Tail(workers.todo)
         /\ \A x \in {"dryRun", "scripts", "attempted"} : workers'[x] = workers[x]
         /\ LET w == Head(workers.todo)
            IN  /\ workers'.uploaded \in {workers.uploaded, workers.uploaded \cup {w}}
                /\ \/ /\ workers'.failures = workers.failures \cup {w.name}
                      /\ workers'.succeeded = workers.succeeded
                   \/ /\ workers'.failures = workers.failures
                      /\ workers'.succeeded = workers.succeeded + 1
                      /\ workers.dryRun \/ workers'.uploaded = workers.uploaded \cup {w}
<1> DEFINE w == Head(workers.todo)
           next == [workers EXCEPT !.todo = Tail(@)]
           failed == [next EXCEPT !.failures = @ \cup {w.name}]
           done == [next EXCEPT !.succeeded = @ + 1]
<1>1. DOMAIN workers = WorkerFields
  BY DEF WorkersInv
<1>2. /\ DOMAIN next = WorkerFields /\ next.todo = Tail(workers.todo)
      /\ \A x \in WorkerFields \ {"todo"} : next[x] = workers[x]
  BY <1>1 DEF WorkerFields
<1> HIDE DEF next
<1>3. /\ DOMAIN failed = WorkerFields /\ failed.failures = next.failures \cup {w.name}
      /\ \A x \in WorkerFields \ {"failures"} : failed[x] = next[x]
      /\ DOMAIN done = WorkerFields /\ done.succeeded = next.succeeded + 1
      /\ \A x \in WorkerFields \ {"succeeded"} : done[x] = next[x]
  BY <1>2 DEF WorkerFields
<1>4. /\ deploying' = deploying /\ workers.todo # <<>>
      /\ \/ workers' = failed
         \/ /\ ~workers.dryRun
            /\ workers' \in {[n EXCEPT !.uploaded = @ \cup {w}] : n \in {failed, done}}
         \/ workers.dryRun /\ workers' = done
  BY DEF DeployWorker, next
<1> HIDE DEF failed, done, w
<1>5. CASE workers' = failed
  BY <1>2, <1>3, <1>4, <1>5 DEF WorkerFields, w
<1>6. CASE workers.dryRun /\ workers' = done
  BY <1>2, <1>3, <1>4, <1>6 DEF WorkerFields, w
<1>7. ASSUME NEW n \in {failed, done}, workers' = [n EXCEPT !.uploaded = @ \cup {w}]
      PROVE  /\ DOMAIN workers' = WorkerFields /\ workers'.uploaded = workers.uploaded \cup {w}
             /\ \A x \in WorkerFields \ {"uploaded"} : workers'[x] = n[x]
  BY <1>2, <1>3, <1>7 DEF WorkerFields
<1>8. CASE \E n \in {failed, done} : workers' = [n EXCEPT !.uploaded = @ \cup {w}]
  <2>1. PICK n \in {failed, done} : workers' = [n EXCEPT !.uploaded = @ \cup {w}]
    BY <1>8
  <2>2. /\ DOMAIN workers' = WorkerFields /\ workers'.uploaded = workers.uploaded \cup {w}
        /\ \A x \in WorkerFields \ {"uploaded"} : workers'[x] = n[x]
    BY <1>7, <2>1
  <2>3. CASE n = failed
    BY <1>2, <1>3, <1>4, <2>2, <2>3 DEF WorkerFields, w
  <2>4. CASE n = done
    BY <1>2, <1>3, <1>4, <2>2, <2>4 DEF WorkerFields, w
  <2> QED
    BY <2>1, <2>3, <2>4
<1> QED
  BY <1>4, <1>5, <1>6, <1>8

(* The next script is of a name that was not seen yet.                     *)
LEMMA WorkerStep == WorkersInv /\ DeployWorker => WorkersInv'
<1> SUFFICES ASSUME WorkersInv, DeployWorker PROVE WorkersInv'
  OBVIOUS
<1> DEFINE w == Head(workers.todo)
<1>1. deploying = "worker" /\ Halfway
  BY DEF DeployWorker, WorkersInv
<1>2. /\ DOMAIN workers' = WorkerFields /\ deploying' = deploying /\ workers.todo # <<>>
      /\ workers'.todo = Tail(workers.todo) /\ workers'.dryRun = workers.dryRun
      /\ workers'.scripts = workers.scripts /\ workers'.attempted = workers.attempted
      /\ workers'.uploaded \in {workers.uploaded, workers.uploaded \cup {w}}
      /\ \/ /\ workers'.failures = workers.failures \cup {w.name}
            /\ workers'.succeeded = workers.succeeded
         \/ /\ workers'.failures = workers.failures
            /\ workers'.succeeded = workers.succeeded + 1
            /\ workers.dryRun \/ workers'.uploaded = workers.uploaded \cup {w}
  BY WorkerDoes
<1>3. /\ Tail(workers.todo) \in Seq(Scripts) /\ Len(workers.todo) = Len(Tail(workers.todo)) + 1
      /\ Differ(Tail(workers.todo))
      /\ ToSet(workers.todo) = {w} \cup ToSet(Tail(workers.todo))
      /\ \A v \in ToSet(Tail(workers.todo)) : v.name # w.name
  BY <1>1, <1>2, HeadDiffers DEF Halfway
<1> HIDE DEF w
<1>4. w \in ToSet(workers.todo) /\ w.name \notin workers.failures
      /\ \A v \in workers.uploaded : v.name # w.name
  BY <1>1, <1>3 DEF Halfway
<1>5. Differ(workers.todo)' /\ (workers.todo \in Seq(Scripts))'
  BY <1>2, <1>3 DEF Differ
<1>6. /\ IsFiniteSet(workers'.failures) /\ workers'.succeeded \in Nat
      /\ workers'.succeeded + Cardinality(workers'.failures) + Len(workers'.todo)
           = workers'.attempted
  <2>1. /\ IsFiniteSet(workers.failures) /\ Cardinality(workers.failures) \in Nat
        /\ Cardinality(workers.failures \cup {w.name}) = Cardinality(workers.failures) + 1
        /\ IsFiniteSet(workers.failures \cup {w.name})
        /\ Len(Tail(workers.todo)) \in Nat
    BY <1>1, <1>3, <1>4, FS_CardinalityType, FS_AddElement DEF Halfway
  <2>2. workers.succeeded + Cardinality(workers.failures) + Len(workers.todo) = workers.attempted
        /\ workers.succeeded \in Nat
    BY <1>1 DEF Halfway
  <2>3. \A s, f, l, a : s \in Nat /\ f \in Nat /\ l \in Nat /\ s + f + (l + 1) = a =>
                           s + (f + 1) + l = a /\ (s + 1) + f + l = a
    OBVIOUS
  <2>4. /\ workers.succeeded + Cardinality(workers.failures) + (Len(Tail(workers.todo)) + 1)
             = workers.attempted
        /\ Len(workers'.todo) = Len(Tail(workers.todo)) /\ workers'.attempted = workers.attempted
    BY <1>2, <1>3, <2>2
  <2>5. CASE /\ workers'.failures = workers.failures \cup {w.name}
             /\ workers'.succeeded = workers.succeeded
    BY <2>1, <2>2, <2>3, <2>4, <2>5
  <2>6. CASE /\ workers'.failures = workers.failures
             /\ workers'.succeeded = workers.succeeded + 1
    BY <2>1, <2>2, <2>3, <2>4, <2>6
  <2> QED
    BY <1>2, <2>5, <2>6
<1>7. \A v \in ToSet(workers'.todo) :
          v.name \notin workers'.failures /\ \A u \in workers'.uploaded : u.name # v.name
  BY <1>1, <1>2, <1>3, <1>4 DEF Halfway
<1>8. \A v \in ToSet(workers'.scripts) :
          \/ v.name \in workers'.failures \/ workers'.dryRun \/ v \in workers'.uploaded
          \/ v \in ToSet(workers'.todo)
  BY <1>1, <1>2, <1>3 DEF Halfway
<1>9. \A u, v \in workers'.uploaded : u.name = v.name => u = v
  BY <1>1, <1>2, <1>4 DEF Halfway
<1>10. Halfway'
  BY <1>5, <1>6, <1>7, <1>8, <1>9 DEF Halfway
<1> QED
  BY <1>1, <1>2, <1>10 DEF WorkersInv

(* Deploy begins with scripts of different names.                          *)
LEMMA StartStep == WorkersInv /\ Deploy => WorkersInv'
<1> SUFFICES ASSUME WorkersInv, Deploy PROVE WorkersInv'
  OBVIOUS
<1>1. PICK raw \in Configs, targets \in TargetLists, files \in Trees,
           prune \in BOOLEAN, dryRun \in BOOLEAN :
        LET c == ParseConfig(raw)
        IN  \/ /\ ~Valid(raw) \/ Len(targets) # 1
               /\ Outcome("refused") /\ UNCHANGED <<workers, r2>>
            \/ /\ Valid(raw) /\ Len(targets) = 1
               /\ CASE targets[1] = "pages" -> StartPages(files, dryRun)
                    [] targets[1] = "r2" -> stored = {} /\ StartR2(c, prune, dryRun)
                    [] targets[1] = "worker" -> stored = {} /\ StartWorkers(c, dryRun)
                    [] OTHER -> Outcome("refused") /\ UNCHANGED <<workers, r2>>
  BY DEF Deploy
<1> DEFINE c == ParseConfig(raw)
<1>2. \/ workers' = workers /\ deploying' \in {"refused", "dry-run", "pages", "r2"}
      \/ StartWorkers(c, dryRun)
  BY <1>1, Zenon DEF StartPages, StartR2, Outcome
<1>3. CASE workers' = workers /\ deploying' \in {"refused", "dry-run", "pages", "r2"}
  BY <1>3 DEF WorkersInv
<1>4. CASE StartWorkers(c, dryRun)
  <2> DEFINE all == AllWorkers(c)
  <2>1. all \in Seq(Scripts) /\ Differ(all)
    <3>1. c.workers = raw.workers /\ c.worker = raw.worker
      BY DeployAssumption DEF ParseConfig
    <3>2. c.workers \o c.worker \in Seq(Scripts)
      BY <3>1, DeployAssumption
    <3> HIDE DEF c
    <3> QED
      BY <3>2, DistinctDiffers DEF AllWorkers
  <2>2. DOMAIN workers = WorkerFields /\ workers.uploaded = {} /\ workers.failures = {}
        /\ workers.succeeded = 0
    BY DEF WorkersInv, Deploy
  <2>3. /\ deploying' = (IF all = <<>> THEN "refused" ELSE "worker")
        /\ workers' = [workers EXCEPT !.dryRun = dryRun, !.scripts = all, !.todo = all,
                           !.attempted = Len(all)]
    BY <1>4 DEF StartWorkers, Outcome
  <2> HIDE DEF all
  <2>4. /\ DOMAIN workers' = WorkerFields /\ workers'.uploaded = {} /\ workers'.failures = {}
        /\ workers'.succeeded = 0 /\ workers'.scripts = all /\ workers'.todo = all
        /\ workers'.attempted = Len(all)
    BY <2>2, <2>3 DEF WorkerFields
  <2>5. 0 + 0 + Len(all) = Len(all) /\ IsFiniteSet({}) /\ Cardinality({}) = 0
    BY <2>1, FS_EmptySet
  <2>6. Halfway'
    BY <2>1, <2>4, <2>5 DEF Halfway, Differ
  <2> QED
    BY <2>3, <2>4, <2>6 DEF WorkersInv
<1> QED
  BY <1>2, <1>3, <1>4

LEMMA WorkersStep == WorkersInv /\ [DeployNext]_allVars => WorkersInv'
<1> SUFFICES ASSUME WorkersInv, [DeployNext]_allVars PROVE WorkersInv'
  OBVIOUS
<1>1. CASE DeployWorker
  BY <1>1, WorkerStep
<1>2. CASE Deploy
  BY <1>2, StartStep
<1>3. CASE RunDeployCloudflare
  BY <1>3 DEF RunDeployCloudflare, Outcome, WorkersInv, Halfway
<1>4. CASE DeployWorkersDone
  BY <1>4 DEF DeployWorkersDone, Outcome, WorkersInv, Halfway
<1>5. CASE UNCHANGED <<deploying, workers>>
  BY <1>5 DEF WorkersInv, Halfway
<1> QED
  BY <1>1, <1>2, <1>3, <1>4, <1>5
     DEF DeployNext, DeployPagesStep, DeployR2Step, Finished, allVars

LEMMA WorkersAddUp == WorkersInv => WorkersAccounted
<1> SUFFICES ASSUME WorkersInv, deploying \in {"ok", "failed"}
             PROVE  /\ workers.succeeded + Cardinality(workers.failures) = workers.attempted
                    /\ \A w \in ToSet(workers.scripts) :
                         w.name \notin workers.failures /\ ~workers.dryRun => w \in workers.uploaded
                    /\ \A v, w \in workers.uploaded : v.name = w.name => v = w
  BY DEF WorkersAccounted
<1>1. Halfway /\ workers.todo = <<>>
  BY DEF WorkersInv
<1>2. Len(workers.todo) = 0 /\ ToSet(workers.todo) = {}
  BY <1>1 DEF ToSet
<1>3. Cardinality(workers.failures) \in Nat
  BY <1>1, FS_CardinalityType DEF Halfway
<1> QED
  BY <1>1, <1>2, <1>3 DEF Halfway

-----------------------------------------------------------------------------
(* The command. *)

DeployInv ==
    /\ deploying # "r2" => previous = R2!None
    /\ R2Core
    /\ WorkersInv

LEMMA DeployStarts == DeployInit => DeployInv
<1> SUFFICES ASSUME DeployInit PROVE DeployInv
  OBVIOUS
<1>1. previous = R2!None /\ sync = R2!Called(FALSE, FALSE)
  BY DEF DeployInit
<1>2. R2Core
  BY <1>1, R2CoreCalled DEF FirstCall
<1>3. WorkersInv
  BY DEF DeployInit, WorkersInv, WorkerFields
<1> QED
  BY <1>1, <1>2, <1>3 DEF DeployInv

(* The first sync is called in a fresh process.                            *)
LEMMA StartedStep == DeployInv /\ Deploy => R2Core' /\ (deploying' # "r2" => previous' = R2!None)
<1> SUFFICES ASSUME DeployInv, Deploy
             PROVE  R2Core' /\ (deploying' # "r2" => previous' = R2!None)
  OBVIOUS
<1>1. previous = R2!None /\ R2Core
  BY DEF Deploy, DeployInv
<1>2. \/ UNCHANGED r2
      \/ \E c, prune, dryRun : prune \in BOOLEAN /\ dryRun \in BOOLEAN /\ StartR2(c, prune, dryRun)
  <2>1. PICK raw \in Configs, targets \in TargetLists, files \in Trees,
             prune \in BOOLEAN, dryRun \in BOOLEAN :
          LET c == ParseConfig(raw)
          IN  \/ /\ ~Valid(raw) \/ Len(targets) # 1
                 /\ Outcome("refused") /\ UNCHANGED <<workers, r2>>
              \/ /\ Valid(raw) /\ Len(targets) = 1
                 /\ CASE targets[1] = "pages" -> StartPages(files, dryRun)
                      [] targets[1] = "r2" -> stored = {} /\ StartR2(c, prune, dryRun)
                      [] targets[1] = "worker" -> stored = {} /\ StartWorkers(c, dryRun)
                      [] OTHER -> Outcome("refused") /\ UNCHANGED <<workers, r2>>
    BY DEF Deploy
  <2>2. UNCHANGED r2 \/ StartR2(ParseConfig(raw), prune, dryRun)
    BY <2>1, Zenon DEF StartPages, StartWorkers
  <2> QED
    BY <2>2
<1>3. CASE UNCHANGED r2
  BY <1>1, <1>3, R2CoreQuiet DEF r2
<1>4. ASSUME NEW c, NEW prune \in BOOLEAN, NEW dryRun \in BOOLEAN, StartR2(c, prune, dryRun)
      PROVE  UNCHANGED r2 \/ FirstCall'
  BY <1>1, <1>4 DEF StartR2, r2, FirstCall, R2!None, R2!Called
<1>5. CASE FirstCall'
  BY <1>5, R2CoreCalledNext DEF FirstCall
<1> QED
  BY <1>2, <1>3, <1>4, <1>5

LEMMA DeployStep == DeployInv /\ [DeployNext]_allVars => DeployInv'
<1> SUFFICES ASSUME DeployInv, [DeployNext]_allVars PROVE DeployInv'
  OBVIOUS
<1>1. WorkersInv'
  BY WorkersStep DEF DeployInv
<1>2. R2Core' /\ (deploying' # "r2" => previous' = R2!None)
  <2>1. CASE Deploy
    BY <2>1, StartedStep
  <2>2. CASE DeployR2Step
    BY <2>2, R2CoreStep DEF DeployInv, DeployR2Step
  <2>3. CASE UNCHANGED r2 /\ (deploying' = deploying \/ deploying \in {"cli", "worker"})
    BY <2>3, R2CoreQuiet DEF DeployInv, r2
  <2> QED
    BY <2>1, <2>2, <2>3 DEF DeployNext, RunDeployCloudflare, DeployPagesStep, DeployWorker,
       DeployWorkersDone, Finished, allVars, r2
<1> QED
  BY <1>1, <1>2 DEF DeployInv

(* A deployment is, for what DeployPages shares, a run of PagesDeploy.     *)
LEMMA DeployIsPages == DeploySpec => Spec
<1>1. DeployInit => Init
  BY DEF DeployInit
<1>2. [DeployNext]_allVars => [Next]_vars
  BY Zenon DEF DeployNext, RunDeployCloudflare, Deploy, DeployPagesStep, DeployR2Step, DeployWorker,
     DeployWorkersDone, Finished, allVars, Next
<1> QED
  BY <1>1, <1>2, PTL DEF DeploySpec, Spec

LEMMA DeployInvariant == DeploySpec => []DeployInv
<1> QED
  BY DeployStarts, DeployStep, PTL DEF DeploySpec

(* Whatever the configuration, a sync leaves in the bucket what it read or *)
(* says what it could not put there, prunes what is of no file, and does   *)
(* not upload again what a clean sync before it has put there.             *)
THEOREM BucketMirrored == DeploySpec => []SyncMirrors
<1>1. DeployInv => SyncMirrors
  BY R2CoreMirrors DEF DeployInv
<1> QED
  BY <1>1, DeployInvariant, PTL

(* The report of a deployment to any target adds up.                       *)
THEOREM EveryReportAddsUp == DeploySpec => []ReportsAddUp
<1>1. DeployInv /\ Accounted => ReportsAddUp
  BY R2CoreAccounts, WorkersAddUp DEF DeployInv, ReportsAddUp
<1> QED
  BY <1>1, DeployInvariant, DeployIsPages, ReportAccounted, PTL

(* What is proved of PagesDeploy holds under the command as well.          *)
THEOREM CommandKeepsPages ==
  DeploySpec => [](DeploymentComplete /\ NoStragglers /\ OneExpirySurvived)
<1> QED
  BY DeployIsPages, CompleteDeployments, NobodyLeftBehind, ExpiryHealed, PTL
=============================================================================
