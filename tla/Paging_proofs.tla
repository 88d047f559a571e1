---------------------------- MODULE Paging_proofs ----------------------------
(***************************************************************************)
(* Lemmas about pages and breakdowns, for the proofs about what the lists  *)
(* and the audit reports leave out and repeat.  A client is known by the   *)
(* pages record q; W are the items it is watched for, and r gives each of  *)
(* them its rank, its place in the list as the list now is.                *)
(***************************************************************************)
EXTENDS Paging, FiniteSetTheorems, SequenceTheorems, TLAPS

LEMMA MinOfTwo ==
    ASSUME NEW a \in Int, NEW b \in Int
    PROVE  Min({a, b}) = IF a <= b THEN a ELSE b
<1>1. CASE a <= b
  <2>1. a \in {a, b} /\ \A y \in {a, b} : a <= y
    BY <1>1
  <2>2. \A x \in {a, b} : (\A y \in {a, b} : x <= y) => x = a
    BY <1>1
  <2>3. QED
    BY <1>1, <2>1, <2>2 DEF Min
<1>2. CASE b < a
  <2>1. b \in {a, b} /\ \A y \in {a, b} : b <= y
    BY <1>2
  <2>2. \A x \in {a, b} : (\A y \in {a, b} : x <= y) => x = b
    BY <1>2
  <2>3. QED
    BY <1>2, <2>1, <2>2 DEF Min
<1>3. QED
  BY <1>1, <1>2

------------------------------------------------------------------------------
(***************************************************************************)
(* The page sizes.                                                         *)
(***************************************************************************)

\* Whatever is asked for, the repository uses the size the handler bound.
LEMMA BoundSizes ==
    ASSUME NEW asked \in AskedSizes
    PROVE  /\ BindPageSize(asked) \in 1..MaxPageSize
           /\ NormalizedPageSize(BindPageSize(asked)) = BindPageSize(asked)
<1> DEFINE b == BindPageSize(asked)
<1>1. b \in 1..MaxPageSize
  BY PagingAssumption DEF BindPageSize, AskedSizes
<1>2. Min({b, MaxPageSize}) = b
  BY <1>1, MinOfTwo, PagingAssumption
<1>3. QED
  BY <1>1, <1>2 DEF NormalizedPageSize

\* Where the page of q starts, and where it ends.
Before(q) == (q.page - 1) * q.size

LEMMA PageBounds ==
    ASSUME NEW page \in Nat \ {0}, NEW size \in Nat \ {0}
    PROVE  /\ (page - 1) * size \in Nat
           /\ page * size = (page - 1) * size + size
           /\ (page + 1 - 1) * size = page * size
<1>1. page - 1 \in Nat
  OBVIOUS
<1>2. \A m \in Nat, n \in Nat : m * n \in Nat /\ (m + 1) * n = m * n + n
  OBVIOUS
<1>3. (page - 1) * size \in Nat /\ (page - 1 + 1) * size = (page - 1) * size + size
  BY <1>1, <1>2
<1>4. page - 1 + 1 = page /\ page + 1 - 1 = page
  OBVIOUS
<1>5. QED
  BY <1>3, <1>4

------------------------------------------------------------------------------
(***************************************************************************)
(* The items of a page are those whose place in the list it covers.        *)
(***************************************************************************)

\* A list of the items of S names each of them once.
LEMMA ListOfSet ==
    ASSUME NEW S, IsFiniteSet(S), NEW l \in SetToSeqs(S)
    PROVE  /\ Cardinality(S) \in Nat
           /\ l \in Seq(S)
           /\ Len(l) = Cardinality(S)
           /\ l \in Bijection(1..Cardinality(S), S)
<1> DEFINE n == Cardinality(S)
<1>1. n \in Nat
  BY FS_CardinalityType
<1>2. l \in [1..n -> S] /\ \A i, j \in 1..n : i # j => l[i] # l[j]
  BY DEF SetToSeqs
<1>3. l \in Injection(1..n, S)
  BY <1>2 DEF Injection, IsInjective
<1>4. IsFiniteSet(1..n) /\ Cardinality(1..n) = n
  BY <1>1, FS_Interval
<1>5. l \in Surjection(1..n, S)
  BY <1>3, <1>4, FS_Injection
<1>6. l \in Seq(S) /\ Len(l) = n
  BY <1>1, <1>2
<1>7. QED
  BY <1>1, <1>3, <1>5, <1>6 DEF Bijection

\* The rank of the p-th item: there are p items up to it.
LEMMA RankOfPlace ==
    ASSUME NEW S, IsFiniteSet(S), NEW l \in SetToSeqs(S),
           NEW p \in 1..Cardinality(S)
    PROVE  Cardinality({l[i] : i \in 1..p}) = p
<1> DEFINE U == {l[i] : i \in 1..p}
           g == [i \in 1..p |-> l[i]]
<1>1. Cardinality(S) \in Nat /\ l \in Bijection(1..Cardinality(S), S)
  BY ListOfSet
<1>2. \A i, j \in 1..p : l[i] = l[j] => i = j
  BY <1>1 DEF Bijection, Injection, IsInjective
<1>3. g \in Bijection(1..p, U)
  BY <1>2 DEF Bijection, Injection, IsInjective, Surjection
<1>4. QED
  BY <1>1, <1>3, FS_CountingElements DEF ExistsBijection

LEMMA OnPage ==
    ASSUME NEW S, IsFiniteSet(S), NEW l \in SetToSeqs(S),
           NEW q, q.page \in Nat \ {0}, q.size \in Nat \ {0}
    PROVE  /\ PageOf(q, l) \subseteq S
           /\ \A p \in 1..Cardinality(S) :
                 l[p] \in PageOf(q, l) <=> Before(q) < p /\ p <= Before(q) + q.size
<1> DEFINE n  == Cardinality(S)
           lo == (q.page - 1) * q.size
           hi == q.page * q.size
           m  == Min({hi, Len(l)})
<1>1. lo \in Nat /\ hi = lo + q.size
  BY PageBounds
<1>2. n \in Nat /\ l \in Seq(S) /\ Len(l) = n /\ l \in Bijection(1..n, S)
  BY ListOfSet
<1>3. m \in Nat /\ m <= n /\ m = (IF hi <= n THEN hi ELSE n)
  <2>1. hi \in Int /\ Len(l) = n /\ n \in Int
    BY <1>1, <1>2
  <2>2. m = IF hi <= n THEN hi ELSE n
    BY <2>1, MinOfTwo
  <2>3. QED
    BY <1>1, <1>2, <2>2
<1> HIDE DEF lo, hi, m
<1>4. ToSet(SubSeq(l, lo + 1, m)) = {l[i] : i \in lo + 1..m}
  <2> DEFINE t == SubSeq(l, lo + 1, m)
  <2>1. DOMAIN t = 1..m - lo /\ \A i \in 1..m - lo : t[i] = l[lo + i]
    BY <1>1, <1>2, <1>3
  <2> HIDE DEF t
  <2>2. ToSet(t) = {l[lo + i] : i \in 1..m - lo}
    BY <2>1 DEF ToSet
  <2>3. {l[lo + i] : i \in 1..m - lo} = {l[i] : i \in lo + 1..m}
    <3>1. \A i \in 1..m - lo : lo + i \in lo + 1..m
      BY <1>1, <1>3
    <3>2. \A i \in lo + 1..m : i - lo \in 1..m - lo /\ lo + (i - lo) = i
      BY <1>1, <1>3
    <3>3. QED
      BY <3>1, <3>2
  <2>4. QED
    BY <2>2, <2>3 DEF t
<1>5. PageOf(q, l) = {l[i] : i \in lo + 1..m}
  BY <1>4 DEF PageOf, lo, hi, m
<1>6. PageOf(q, l) \subseteq S
  <2>1. \A i \in lo + 1..m : i \in 1..n
    BY <1>1, <1>2, <1>3
  <2>2. QED
    BY <1>2, <1>5, <2>1 DEF Bijection, Injection
<1>7. ASSUME NEW p \in 1..n
      PROVE  l[p] \in PageOf(q, l) <=> lo < p /\ p <= lo + q.size
  <2>1. l[p] \in PageOf(q, l) <=> p \in lo + 1..m
    <3>1. \A i \in lo + 1..m : i \in 1..n /\ (l[i] = l[p] => i = p)
      BY <1>1, <1>2, <1>3 DEF Bijection, Injection, IsInjective
    <3>2. QED
      BY <1>5, <3>1
  <2>2. p \in lo + 1..m <=> lo < p /\ p <= lo + q.size
    BY <1>1, <1>2, <1>3
  <2>3. QED
    BY <2>1, <2>2
<1>8. QED
  BY <1>6, <1>7 DEF Before, lo

------------------------------------------------------------------------------
(***************************************************************************)
(* The figures of a breakdown by a key add up to the items broken down.    *)
(***************************************************************************)
LEMMA GroupsAddUp ==
    ASSUME NEW S, IsFiniteSet(S), NEW key, NEW f,
           DOMAIN f = {key[e] : e \in S},
           \A k \in DOMAIN f : f[k] = Cardinality({e \in S : key[e] = k})
    PROVE  SumOver(f) = Cardinality(S)
<1> DEFINE K        == DOMAIN f
           Group(k) == {e \in S : key[e] = k}
           Units    == UNION {{x} \X (1..f[x]) : x \in K}
           count    == [k \in K |-> CHOOSE b : b \in Bijection(1..f[k], Group(k))]
           g        == [u \in Units |-> count[u[1]][u[2]]]
<1>1. ASSUME NEW k \in K
      PROVE  count[k] \in Bijection(1..f[k], Group(k))
  <2>1. IsFiniteSet(Group(k))
    BY FS_Subset
  <2>2. ExistsBijection(1..f[k], Group(k))
    BY <2>1, FS_CardinalityType
  <2>3. QED
    BY <2>2 DEF ExistsBijection
<1> HIDE DEF count
<1>2. ASSUME NEW u
      PROVE  u \in Units <=> \E k \in K : \E i \in 1..f[k] : u = <<k, i>>
  <2>1. ASSUME NEW k \in K
        PROVE  u \in {k} \X (1..f[k]) <=> \E i \in 1..f[k] : u = <<k, i>>
    OBVIOUS
  <2>2. u \in Units <=> \E k \in K : u \in {k} \X (1..f[k])
    OBVIOUS
  <2>3. QED
    BY <2>1, <2>2
<1> HIDE DEF Units, K
<1>3. ASSUME NEW k \in K, NEW i \in 1..f[k]
      PROVE  count[k][i] \in S /\ key[count[k][i]] = k
  BY <1>1 DEF Bijection, Injection
<1>4. g \in [Units -> S]
  <2>1. ASSUME NEW u \in Units PROVE count[u[1]][u[2]] \in S
    <3>1. PICK k \in K : \E i \in 1..f[k] : u = <<k, i>>
      BY <1>2
    <3>2. PICK i \in 1..f[k] : u = <<k, i>>
      BY <3>1
    <3>3. u[1] = k /\ u[2] = i
      BY <3>2
    <3>4. QED
      BY <1>3, <3>3
  <2>2. QED
    BY <2>1
<1>5. ASSUME NEW u \in Units, NEW v \in Units, g[u] = g[v] PROVE u = v
  <2>1. PICK k \in K : \E i \in 1..f[k] : u = <<k, i>>
    BY <1>2
  <2>2. PICK h \in K : \E j \in 1..f[h] : v = <<h, j>>
    BY <1>2
  <2>3. PICK i \in 1..f[k] : u = <<k, i>>
    BY <2>1
  <2>4. PICK j \in 1..f[h] : v = <<h, j>>
    BY <2>2
  <2>5. count[k][i] = count[h][j]
    BY <1>5, <2>3, <2>4
  <2>6. key[count[k][i]] = k /\ key[count[h][j]] = h
    BY <1>3
  <2>7. k = h
    BY <2>5, <2>6
  <2>8. i = j
    BY <1>1, <2>5, <2>7 DEF Bijection, Injection, IsInjective
  <2>9. QED
    BY <2>3, <2>4, <2>7, <2>8
<1>6. ASSUME NEW e \in S PROVE \E u \in Units : g[u] = e
  <2>1. key[e] \in K /\ e \in Group(key[e])
    BY DEF K
  <2>2. PICK i \in 1..f[key[e]] : count[key[e]][i] = e
    BY <1>1, <2>1 DEF Bijection, Surjection
  <2>3. <<key[e], i>> \in Units
    BY <1>2, <2>1
  <2>4. g[<<key[e], i>>] = e
    BY <2>2, <2>3
  <2>5. QED
    BY <2>3, <2>4
<1>7. g \in Injection(Units, S) /\ g \in Surjection(Units, S)
  <2>1. IsInjective(g)
    BY <1>5 DEF IsInjective
  <2>2. QED
    BY <1>4, <1>6, <2>1 DEF Injection, Surjection
<1> HIDE DEF g
<1>8. Cardinality(Units) = Cardinality(S)
  BY <1>7, FS_Injection
<1>9. QED
  BY <1>8 DEF SumOver, Units, K
------------------------------------------------------------------------------
(***************************************************************************)
(* What the pages leave out and repeat.                                    *)
(***************************************************************************)

\* r ranks the items of W: no two have the same place.
Ranks(W, r) ==
    /\ IsFiniteSet(W)
    /\ \A e \in W : r[e] \in Nat \ {0}
    /\ \A e, f \in W : r[e] = r[f] => e = f

\* The items that the pages up to the place hi have passed over.
Passed(q, W, r, hi) == {e \in W \ q.got : r[e] <= hi}

PassedFew(q, W, r, hi, left) == Cardinality(Passed(q, W, r, hi)) <= left

\* Of the items that moved down by one place for each of the more arrivals, k
\* places are not used up by repeats yet: what the client has is at most k
\* places below hi.
RepeatedFew(q, W, r, hi, more) ==
    \E k \in Nat :
        /\ Cardinality(W \cap q.twice) + k <= more
        /\ \A e \in W \cap q.got : r[e] <= hi + k

(***************************************************************************)
(* The inductive invariant of a client that turns over the pages of a list *)
(* of n items, when left items have left the list, more have come or moved *)
(* up, and late of these since the last count.                             *)
(***************************************************************************)
PagesInv(q, W, r, n, left, more, late) ==
    /\ PassedFew(q, W, r, Before(q), left)
    /\ RepeatedFew(q, W, r, Before(q), more)
    /\ q.step = "find" => n <= q.total + late
    /\ AllRead(q) => Cardinality(W \ q.got) <= left + late

\* The items that were repeated are no more than those that moved.
LEMMA RepeatsBounded ==
    ASSUME NEW q, NEW W, NEW r, NEW hi, NEW more \in Nat,
           IsFiniteSet(W), RepeatedFew(q, W, r, hi, more)
    PROVE  Cardinality(W \cap q.twice) <= more
<1>1. IsFiniteSet(W \cap q.twice)
  BY FS_Subset
<1>2. Cardinality(W \cap q.twice) \in Nat
  BY <1>1, FS_CardinalityType
<1>3. PICK k \in Nat : Cardinality(W \cap q.twice) + k <= more
  BY DEF RepeatedFew
<1>4. QED
  BY <1>2, <1>3

\* Items of different ranks among n that follow a are at most n.
LEMMA FewRanks ==
    ASSUME NEW D, NEW r, NEW a \in Int, NEW n \in Nat,
           \A e \in D : r[e] \in Int /\ a < r[e] /\ r[e] <= a + n,
           \A e, f \in D : r[e] = r[f] => e = f
    PROVE  IsFiniteSet(D) /\ Cardinality(D) <= n
<1> DEFINE g == [e \in D |-> r[e]]
<1>1. \A e \in D : r[e] \in a + 1..a + n
  OBVIOUS
<1>2. IsInjective(g)
  BY DEF IsInjective
<1>3. g \in Injection(D, a + 1..a + n)
  BY <1>1, <1>2 DEF Injection
<1>4. IsFiniteSet(a + 1..a + n) /\ Cardinality(a + 1..a + n) = n
  <2>1. /\ a + 1 \in Int /\ a + n \in Int
        /\ (IF a + 1 > a + n THEN 0 ELSE (a + n) - (a + 1) + 1) = n
    OBVIOUS
  <2>2. QED
    BY <2>1, FS_Interval
<1> HIDE DEF g
<1>5. QED
  BY <1>3, <1>4, FS_Injection

\* Fewer are passed over when fewer are watched and none moves up.
LEMMA PassedNoMore ==
    ASSUME NEW q, NEW W, NEW r, NEW V, NEW t, NEW hi \in Int, NEW left \in Nat,
           Ranks(W, r), Ranks(V, t), V \subseteq W,
           \A e \in V : t[e] >= r[e],
           PassedFew(q, W, r, hi, left)
    PROVE  PassedFew(q, V, t, hi, left)
<1>1. Passed(q, V, t, hi) \subseteq Passed(q, W, r, hi)
  BY DEF Passed, Ranks
<1>2. IsFiniteSet(Passed(q, W, r, hi))
  BY FS_Subset DEF Passed, Ranks
<1>3. /\ Cardinality(Passed(q, V, t, hi)) <= Cardinality(Passed(q, W, r, hi))
      /\ Cardinality(Passed(q, V, t, hi)) \in Nat
      /\ Cardinality(Passed(q, W, r, hi)) \in Nat
  BY <1>1, <1>2, FS_Subset, FS_CardinalityType
<1>4. QED
  BY <1>3 DEF PassedFew

\* When items move up by one place, one more may be passed over.
LEMMA PassedOneMore ==
    ASSUME NEW q, NEW W, NEW r, NEW V, NEW t, NEW hi \in Int, NEW left \in Nat,
           Ranks(W, r), Ranks(V, t), V \subseteq W,
           \A e \in V : t[e] >= r[e] - 1,
           PassedFew(q, W, r, hi, left)
    PROVE  PassedFew(q, V, t, hi, left + 1)
<1> DEFINE P == Passed(q, W, r, hi)
           Q == Passed(q, V, t, hi)
<1>1. IsFiniteSet(P) /\ Cardinality(P) \in Nat
  BY FS_Subset, FS_CardinalityType DEF Passed, Ranks
<1>2. \A e \in Q : e \in P \/ (e \in W /\ r[e] = hi + 1)
  BY DEF Passed, Ranks
<1>3. \E x : Q \subseteq P \cup {x}
  <2>1. CASE \E x \in W : r[x] = hi + 1
    <3>1. PICK x \in W : r[x] = hi + 1
      BY <2>1
    <3>2. Q \subseteq P \cup {x}
      BY <1>2, <3>1 DEF Ranks
    <3>3. QED
      BY <3>2
  <2>2. CASE ~\E x \in W : r[x] = hi + 1
    <3>1. Q \subseteq P \cup {0}
      BY <1>2, <2>2
    <3>2. QED
      BY <3>1
  <2>3. QED
    BY <2>1, <2>2
<1>4. PICK x : Q \subseteq P \cup {x}
  BY <1>3
<1> HIDE DEF P, Q
<1>5. IsFiniteSet(P \cup {x}) /\ Cardinality(P \cup {x}) <= Cardinality(P) + 1
  BY <1>1, FS_AddElement
<1>6. /\ Cardinality(Q) <= Cardinality(P \cup {x})
      /\ Cardinality(Q) \in Nat /\ Cardinality(P \cup {x}) \in Nat
  BY <1>4, <1>5, FS_Subset, FS_CardinalityType
<1>7. QED
  BY <1>1, <1>5, <1>6 DEF PassedFew, P, Q

\* When items move down by at most d places, d more may come to be repeated.
LEMMA RepeatedMore ==
    ASSUME NEW q, NEW W, NEW r, NEW V, NEW t, NEW hi \in Int, NEW more \in Nat,
           NEW d \in Nat,
           Ranks(W, r), Ranks(V, t), V \subseteq W,
           \A e \in V : t[e] <= r[e] + d,
           RepeatedFew(q, W, r, hi, more)
    PROVE  RepeatedFew(q, V, t, hi, more + d)
<1>1. PICK k \in Nat : /\ Cardinality(W \cap q.twice) + k <= more
                       /\ \A e \in W \cap q.got : r[e] <= hi + k
  BY DEF RepeatedFew
<1>2. IsFiniteSet(W \cap q.twice) /\ V \cap q.twice \subseteq W \cap q.twice
  BY FS_Subset DEF Ranks
<1>3. /\ Cardinality(V \cap q.twice) <= Cardinality(W \cap q.twice)
      /\ Cardinality(V \cap q.twice) \in Nat /\ Cardinality(W \cap q.twice) \in Nat
  BY <1>2, FS_Subset, FS_CardinalityType
<1>4. Cardinality(V \cap q.twice) + (k + d) <= more + d /\ k + d \in Nat
  BY <1>1, <1>3
<1>5. \A e \in V \cap q.got : t[e] <= hi + (k + d)
  BY <1>1 DEF Ranks
<1>6. QED
  BY <1>4, <1>5 DEF RepeatedFew

\* A page that has every watched item it covers passes over no more of them.
LEMMA PageMisses ==
    ASSUME NEW q, NEW W, NEW r, NEW hi \in Int, NEW size \in Nat, NEW left \in Nat,
           NEW page, NEW f, f.got = q.got \cup page, Ranks(W, r),
           \A e \in W : e \in page <=> hi < r[e] /\ r[e] <= hi + size,
           PassedFew(q, W, r, hi, left)
    PROVE  PassedFew(f, W, r, hi + size, left)
<1> DEFINE P == Passed(q, W, r, hi)
           Q == Passed(f, W, r, hi + size)
<1>1. Q \subseteq P
  BY DEF Passed, Ranks
<1>2. IsFiniteSet(P)
  BY FS_Subset DEF Passed, Ranks
<1> HIDE DEF P, Q
<1>3. Cardinality(Q) <= Cardinality(P) /\ Cardinality(Q) \in Nat /\ Cardinality(P) \in Nat
  BY <1>1, <1>2, FS_Subset, FS_CardinalityType
<1>4. QED
  BY <1>3 DEF PassedFew, P, Q

\* The items a page repeats use up as many of the k places.
LEMMA PageRepeats ==
    ASSUME NEW q, NEW W, NEW r, NEW hi \in Int, NEW size \in Nat, NEW more \in Nat,
           NEW page, NEW f, f.got = q.got \cup page,
           f.twice = q.twice \cup (q.got \cap page), Ranks(W, r),
           \A e \in W : e \in page <=> hi < r[e] /\ r[e] <= hi + size,
           RepeatedFew(q, W, r, hi, more)
    PROVE  RepeatedFew(f, W, r, hi + size, more)
<1>1. PICK k \in Nat : /\ Cardinality(W \cap q.twice) + k <= more
                       /\ \A e \in W \cap q.got : r[e] <= hi + k
  BY DEF RepeatedFew
<1> DEFINE A == W \cap q.twice
           D == W \cap q.got \cap page
           T == W \cap f.twice
           u == IF k <= size THEN k ELSE size
<1>2. u \in Nat /\ u <= k /\ u <= size /\ k - u \in Nat
  OBVIOUS
<1>3. \A e \in D : r[e] \in Int /\ hi < r[e] /\ r[e] <= hi + u
  BY <1>1 DEF Ranks
<1>4. \A e, g \in D : r[e] = r[g] => e = g
  BY DEF Ranks
<1>5. T = A \cup D
  OBVIOUS
<1>6. IsFiniteSet(A) /\ Cardinality(A) \in Nat
  BY FS_Subset, FS_CardinalityType DEF Ranks
<1>7. \A e \in W \cap f.got : r[e] <= hi + size + (k - u)
  BY <1>1 DEF Ranks
<1> HIDE DEF A, D, T, u
<1>8. IsFiniteSet(D) /\ Cardinality(D) <= u
  BY <1>2, <1>3, <1>4, FewRanks
<1>9. /\ Cardinality(A \cup D) = Cardinality(A) + Cardinality(D) - Cardinality(A \cap D)
      /\ Cardinality(D) \in Nat /\ Cardinality(A \cap D) \in Nat
  BY <1>6, <1>8, FS_Union, FS_Intersection, FS_CardinalityType
<1>10. Cardinality(T) + (k - u) <= more
  BY <1>1, <1>2, <1>5, <1>6, <1>8, <1>9 DEF A
<1>11. QED
  BY <1>2, <1>7, <1>10 DEF T, RepeatedFew

\* After the pages that reach the total, the items not got have been passed
\* over or have a rank beyond the total.
LEMMA AllReadMisses ==
    ASSUME NEW q, NEW W, NEW r, NEW hi \in Nat, NEW total \in Nat,
           NEW left \in Nat, NEW late \in Nat, Ranks(W, r),
           total <= hi, \A e \in W : r[e] <= total + late,
           PassedFew(q, W, r, hi, left)
    PROVE  Cardinality(W \ q.got) <= left + late
<1> DEFINE A == Passed(q, W, r, hi)
           D == {e \in W \ q.got : hi < r[e]}
           M == W \ q.got
<1>1. M = A \cup D
  BY DEF Ranks, Passed
<1>2. IsFiniteSet(A) /\ Cardinality(A) \in Nat /\ Cardinality(A) <= left
  BY FS_Subset, FS_CardinalityType DEF Ranks, Passed, PassedFew
<1>3. \A e \in D : r[e] \in Int /\ total < r[e] /\ r[e] <= total + late
  BY DEF Ranks
<1>4. \A e, f \in D : r[e] = r[f] => e = f
  BY DEF Ranks
<1> HIDE DEF A, D, M
<1>5. IsFiniteSet(D) /\ Cardinality(D) <= late
  BY <1>3, <1>4, FewRanks
<1>6. /\ Cardinality(A \cup D) = Cardinality(A) + Cardinality(D) - Cardinality(A \cap D)
      /\ Cardinality(D) \in Nat /\ Cardinality(A \cap D) \in Nat
  BY <1>2, <1>5, FS_Union, FS_Intersection, FS_CardinalityType
<1>7. Cardinality(M) <= left + late
  BY <1>1, <1>2, <1>5, <1>6
<1>8. QED
  BY <1>7 DEF M

------------------------------------------------------------------------------
(***************************************************************************)
(* The steps of a client, and of the writers meanwhile, keep PagesInv.     *)
(***************************************************************************)
LEMMA FirstPageType ==
    ASSUME NEW Items, NEW size \in 1..MaxPageSize
    PROVE  FirstPage(size) \in PagesOf(Items)
  BY PagingAssumption DEF FirstPage, PagesOf

LEMMA FirstPageKeeps ==
    ASSUME NEW W, NEW r, NEW n, NEW size \in 1..MaxPageSize,
           NEW left \in Nat, NEW more \in Nat, NEW late \in Nat, Ranks(W, r)
    PROVE  PagesInv(FirstPage(size), W, r, n, left, more, late)
<1> DEFINE q == FirstPage(size)
<1>1. /\ q.got = {} /\ q.twice = {} /\ q.step = "count"
      /\ Before(q) = 0 /\ ~AllRead(q)
  <2>1. (1 - 1) * size = 0
    BY PagingAssumption
  <2>2. QED
    BY <2>1 DEF FirstPage, Before, AllRead
<1> HIDE DEF q
<1>2. Passed(q, W, r, 0) = {} /\ W \cap q.twice = {} /\ W \cap q.got = {}
  BY <1>1 DEF Passed, Ranks
<1>3. Cardinality({}) = 0
  BY FS_EmptySet
<1>4. PassedFew(q, W, r, 0, left)
  BY <1>2, <1>3 DEF PassedFew
<1>5. RepeatedFew(q, W, r, 0, more)
  <2>1. Cardinality(W \cap q.twice) = 0
    BY <1>2, <1>3, Zenon
  <2>2. Cardinality(W \cap q.twice) + 0 <= more
    BY <2>1
  <2>3. QED
    BY <1>2, <2>2 DEF RepeatedFew
<1>6. QED
  BY <1>1, <1>4, <1>5 DEF PagesInv, q

LEMMA CountedType ==
    ASSUME NEW Items, NEW q \in PagesOf(Items), NEW l, Len(l) \in Nat
    PROVE  Counted(q, l) \in PagesOf(Items)
  BY DEF Counted, PagesOf

LEMMA CountKeeps ==
    ASSUME NEW Items, NEW q \in PagesOf(Items), NEW l, Len(l) \in Nat,
           NEW W, NEW r, NEW left, NEW more, NEW late,
           PagesInv(q, W, r, Len(l), left, more, late)
    PROVE  PagesInv(Counted(q, l), W, r, Len(l), left, more, 0)
<1> DEFINE c == Counted(q, l)
<1>1. /\ c.size = q.size /\ c.page = q.page
      /\ c.got = q.got /\ c.twice = q.twice
      /\ c.step = "find" /\ c.total = Len(l)
  BY DEF Counted, PagesOf
<1> HIDE DEF c
<1>2. Before(c) = Before(q) /\ ~AllRead(c)
  BY <1>1 DEF Before, AllRead
<1>3. /\ PassedFew(c, W, r, Before(c), left)
      /\ RepeatedFew(c, W, r, Before(c), more)
  BY <1>1, <1>2 DEF PagesInv, PassedFew, Passed, RepeatedFew
<1>4. QED
  BY <1>1, <1>2, <1>3 DEF PagesInv, c

LEMMA FoundType ==
    ASSUME NEW S, IsFiniteSet(S), NEW l \in SetToSeqs(S),
           NEW Items, S \subseteq Items, NEW q \in PagesOf(Items)
    PROVE  Found(q, l) \in PagesOf(Items)
<1>1. q.page \in Nat \ {0} /\ q.size \in Nat \ {0}
  BY PagingAssumption DEF PagesOf
<1>2. PageOf(q, l) \subseteq Items
  BY <1>1, OnPage
<1>3. /\ q.got \cup PageOf(q, l) \in SUBSET Items
      /\ q.twice \cup (q.got \cap PageOf(q, l)) \in SUBSET Items
  BY <1>2 DEF PagesOf
<1>4. q.page + 1 \in Nat \ {0}
  BY <1>1
<1>5. QED
  BY <1>3, <1>4 DEF Found, PagesOf

\* Each watched item is in the list at its rank.
LEMMA FindKeeps ==
    ASSUME NEW S, IsFiniteSet(S), NEW l \in SetToSeqs(S),
           NEW Items, NEW q \in PagesOf(Items),
           NEW W, NEW r, Ranks(W, r),
           NEW left \in Nat, NEW more \in Nat, NEW late \in Nat,
           \A e \in W : \E p \in 1..Cardinality(S) : l[p] = e /\ r[e] = p,
           q.step = "find",
           PagesInv(q, W, r, Cardinality(S), left, more, late)
    PROVE  PagesInv(Found(q, l), W, r, Cardinality(S), left, more, late)
<1> DEFINE n    == Cardinality(S)
           page == PageOf(q, l)
           hi   == Before(q)
           f    == Found(q, l)
<1>1. /\ q.page \in Nat \ {0} /\ q.size \in Nat \ {0} /\ q.total \in Nat
      /\ n \in Nat
  BY PagingAssumption, ListOfSet DEF PagesOf
<1>2. hi \in Nat /\ hi + q.size = q.page * q.size /\ hi + q.size \in Nat
  BY <1>1, PageBounds DEF Before
<1>3. \A e \in W : e \in page <=> hi < r[e] /\ r[e] <= hi + q.size
  BY <1>1, OnPage
<1>4. /\ f.size = q.size /\ f.total = q.total
      /\ f.page = q.page + 1 /\ f.step = "count"
  BY DEF Found, PagesOf
<1>5. f.got = q.got \cup page /\ f.twice = q.twice \cup (q.got \cap page)
  BY DEF Found, PagesOf
<1>6. hi \in Int /\ q.size \in Nat
  BY <1>1, <1>2
<1>7. /\ PassedFew(q, W, r, hi, left)
      /\ RepeatedFew(q, W, r, hi, more)
      /\ n <= q.total + late
  BY DEF PagesInv
<1> HIDE DEF n, page, hi, f
<1>8. PassedFew(f, W, r, hi + q.size, left)
  BY <1>3, <1>7, <1>5, <1>6, PageMisses
<1>9. RepeatedFew(f, W, r, hi + q.size, more)
  BY <1>3, <1>7, <1>5, <1>6, PageRepeats
<1>10. Before(f) = hi + q.size
  BY <1>1, <1>2, <1>4, PageBounds DEF Before
<1>11. ASSUME AllRead(f) PROVE Cardinality(W \ f.got) <= left + late
  <2>1. q.total <= hi + q.size
    BY <1>4, <1>10, <1>11 DEF AllRead, Before
  <2>2. \A e \in W : r[e] <= q.total + late
    <3>1. \A e \in W : r[e] \in 1..n
      BY DEF n
    <3>2. QED
      BY <1>1, <1>7, <3>1
  <2>3. QED
    BY <1>1, <1>2, <1>8, <2>1, <2>2, AllReadMisses
<1>12. QED
  BY <1>4, <1>8, <1>9, <1>10, <1>11 DEF PagesInv, f, n

\* Fewer items are watched, and each has moved by as many places as
\* items have come before it or left the list before it.
LEMMA WritesKeep ==
    ASSUME NEW q, q.page \in Nat \ {0}, q.size \in Nat \ {0}, q.total \in Nat,
           NEW W, NEW r, NEW V, NEW t, Ranks(W, r), Ranks(V, t), V \subseteq W,
           NEW left \in Nat, NEW more \in Nat, NEW late \in Nat,
           NEW gone \in {0, 1}, NEW come \in {0, 1},
           \A e \in V : r[e] - gone <= t[e] /\ t[e] <= r[e] + come,
           NEW n \in Nat, NEW m \in Nat, m <= n + come,
           PagesInv(q, W, r, n, left, more, late)
    PROVE  PagesInv(q, V, t, m, left + gone, more + come, late + come)
<1> DEFINE hi == Before(q)
<1>1. hi \in Int
  BY PageBounds DEF Before
<1>2. /\ PassedFew(q, V, t, hi, left + gone)
      /\ RepeatedFew(q, V, t, hi, more + come)
  <2>1. PassedFew(q, W, r, hi, left) /\ RepeatedFew(q, W, r, hi, more)
    BY DEF PagesInv
  <2> HIDE DEF hi
  <2>2. PassedFew(q, V, t, hi, left + gone)
    <3>1. CASE gone = 0
      <4>1. \A e \in V : t[e] >= r[e]
        BY <3>1 DEF Ranks
      <4>2. left + gone = left
        BY <3>1
      <4>3. QED
        BY <1>1, <2>1, <4>1, <4>2, PassedNoMore
    <3>2. CASE gone = 1
      <4>1. \A e \in V : t[e] >= r[e] - 1
        BY <3>2 DEF Ranks
      <4>2. QED
        BY <1>1, <2>1, <3>2, <4>1, PassedOneMore
    <3>3. QED
      BY <3>1, <3>2
  <2>3. come \in Nat /\ \A e \in V : t[e] <= r[e] + come
    OBVIOUS
  <2>4. RepeatedFew(q, V, t, hi, more + come)
    BY <1>1, <2>1, <2>3, RepeatedMore
  <2>5. QED
    BY <2>2, <2>4
<1>3. ASSUME q.step = "find" PROVE m <= q.total + (late + come)
  <2>1. n <= q.total + late
    BY <1>3 DEF PagesInv
  <2>2. QED
    BY <2>1
<1>4. ASSUME AllRead(q)
      PROVE  Cardinality(V \ q.got) <= (left + gone) + (late + come)
  <2>1. Cardinality(W \ q.got) <= left + late
    BY <1>4 DEF PagesInv
  <2>2. IsFiniteSet(W \ q.got) /\ V \ q.got \subseteq W \ q.got
    BY FS_Subset DEF Ranks
  <2>3. /\ Cardinality(V \ q.got) <= Cardinality(W \ q.got)
        /\ Cardinality(V \ q.got) \in Nat /\ Cardinality(W \ q.got) \in Nat
    BY <2>2, FS_Subset, FS_CardinalityType
  <2>4. QED
    BY <2>1, <2>3
<1>5. QED
  BY <1>2, <1>3, <1>4 DEF PagesInv

------------------------------------------------------------------------------
(***************************************************************************)
(* The order of a list when one of its items is written: where each item   *)
(* is after it was taken out, and put in again at another place.           *)
(***************************************************************************)
PlaceIn(s, x) == CHOOSE i \in DOMAIN s : s[i] = x

LEMMA PlaceOf ==
    ASSUME NEW s, IsInjective(s), NEW i \in DOMAIN s
    PROVE  PlaceIn(s, s[i]) = i
  BY DEF PlaceIn, IsInjective

LEMMA InPlace ==
    ASSUME NEW s, NEW x \in ToSet(s)
    PROVE  PlaceIn(s, x) \in DOMAIN s /\ s[PlaceIn(s, x)] = x
<1>1. PICK i \in DOMAIN s : s[i] = x
  BY DEF ToSet
<1>2. QED
  BY <1>1 DEF PlaceIn

\* The start of a sequence, and its end.
LEMMA StartOf ==
    ASSUME NEW A, NEW s \in Seq(A), NEW p \in Nat, p <= Len(s)
    PROVE  /\ SubSeq(s, 1, p) \in Seq(A) /\ Len(SubSeq(s, 1, p)) = p
           /\ \A i \in 1..p : SubSeq(s, 1, p)[i] = s[i]
<1>1. \A i \in 1..p : s[i] \in A
  OBVIOUS
<1>2. /\ SubSeq(s, 1, p) \in Seq(A)
      /\ Len(SubSeq(s, 1, p)) = IF 1 <= p THEN p - 1 + 1 ELSE 0
      /\ \A i \in 1..p - 1 + 1 : SubSeq(s, 1, p)[i] = s[1 + i - 1]
  BY <1>1, SubSeqProperties, 1 \in Int, p \in Int
<1>3. p - 1 + 1 = p /\ (\A i \in 1..p : 1 + i - 1 = i)
  OBVIOUS
<1>4. QED
  BY <1>2, <1>3

LEMMA EndOf ==
    ASSUME NEW A, NEW s \in Seq(A), NEW p \in Nat, p <= Len(s)
    PROVE  /\ SubSeq(s, p + 1, Len(s)) \in Seq(A)
           /\ Len(SubSeq(s, p + 1, Len(s))) = Len(s) - p
           /\ \A i \in 1..Len(s) - p : SubSeq(s, p + 1, Len(s))[i] = s[p + i]
<1> DEFINE n == Len(s)
           m == p + 1
<1>1. n \in Nat /\ n \in Int /\ m \in Int
  OBVIOUS
<1>2. \A i \in m..n : s[i] \in A
  OBVIOUS
<1>3. n - m + 1 = n - p /\ \A i \in 1..n - p : m + i - 1 = p + i
  BY <1>1
<1>4. (IF m <= n THEN n - m + 1 ELSE 0) = n - p
  BY <1>1
<1> HIDE DEF n, m
<1>5. /\ SubSeq(s, m, n) \in Seq(A)
      /\ Len(SubSeq(s, m, n)) = IF m <= n THEN n - m + 1 ELSE 0
      /\ \A i \in 1..n - m + 1 : SubSeq(s, m, n)[i] = s[m + i - 1]
  BY <1>1, <1>2, SubSeqProperties
<1>6. QED
  BY <1>3, <1>4, <1>5 DEF n, m

LEMMA RemovedAt ==
    ASSUME NEW A, NEW s \in Seq(A), IsInjective(s), NEW p \in 1..Len(s)
    PROVE  /\ RemoveFirst(s, s[p]) \in Seq(A)
           /\ Len(RemoveFirst(s, s[p])) = Len(s) - 1
           /\ \A i \in 1..Len(s) - 1 :
                 RemoveFirst(s, s[p])[i] = IF i < p THEN s[i] ELSE s[i + 1]
<1> DEFINE n == Len(s)
           a == SubSeq(s, 1, p - 1)
           b == SubSeq(s, p + 1, n)
<1>1. n \in Nat /\ DOMAIN s = 1..n /\ \A i \in 1..n : s[i] \in A
  OBVIOUS
<1>2. {i \in 1..n : s[i] = s[p]} = {p}
  BY <1>1 DEF IsInjective
<1>3. Min({p}) = p
  <2>1. {p} = {p, p}
    OBVIOUS
  <2>2. QED
    BY <1>1, <2>1, MinOfTwo
<1>4. SelectInSeq(s, LAMBDA v : v = s[p]) = p
  BY <1>2, <1>3 DEF SelectInSeq
<1>5. RemoveFirst(s, s[p]) = RemoveAt(s, p)
  BY <1>1, <1>4 DEF RemoveFirst
<1>6. /\ a \in Seq(A) /\ Len(a) = p - 1 /\ \A i \in 1..p - 1 : a[i] = s[i]
      /\ b \in Seq(A) /\ Len(b) = n - p /\ \A i \in 1..n - p : b[i] = s[p + i]
  <2>1. p - 1 \in Nat /\ p - 1 <= n /\ p \in Nat /\ p <= n
    BY <1>1
  <2>2. a \in Seq(A) /\ Len(a) = p - 1 /\ \A i \in 1..p - 1 : a[i] = s[i]
    BY <2>1, StartOf
  <2>3. b \in Seq(A) /\ Len(b) = n - p /\ \A i \in 1..n - p : b[i] = s[p + i]
    BY <2>1, EndOf
  <2>4. QED
    BY <2>2, <2>3
<1>7. RemoveFirst(s, s[p]) = a \o b
  BY <1>5 DEF RemoveAt
<1> HIDE DEF a, b
<1>8. a \o b \in Seq(A) /\ Len(a \o b) = n - 1
  <2>1. Len(a) + Len(b) = n - 1
    BY <1>1, <1>6
  <2>2. QED
    BY <1>6, <2>1, ConcatProperties
<1>9. \A i \in 1..n - 1 : (a \o b)[i] = IF i <= p - 1 THEN a[i] ELSE b[i - (p - 1)]
  <2>1. Len(a) + Len(b) = n - 1
    BY <1>1, <1>6
  <2>2. QED
    BY <1>6, <2>1, ConcatProperties
<1>10. ASSUME NEW i \in 1..n - 1
      PROVE  (a \o b)[i] = IF i < p THEN s[i] ELSE s[i + 1]
  <2>1. CASE i < p
    BY <1>1, <1>6, <1>9, <2>1
  <2>2. CASE ~(i < p)
    <3>1. i - (p - 1) \in 1..n - p /\ p + (i - (p - 1)) = i + 1
      BY <1>1, <2>2
    <3>2. b[i - (p - 1)] = s[i + 1]
      BY <1>6, <3>1
    <3>3. (a \o b)[i] = b[i - (p - 1)]
      <4>1. (a \o b)[i] = IF i <= p - 1 THEN a[i] ELSE b[i - (p - 1)]
        BY <1>9
      <4>2. ~(i <= p - 1)
        BY <1>1, <2>2
      <4>3. QED
        BY <4>1, <4>2
    <3>4. QED
      BY <1>1, <2>2, <3>2, <3>3
  <2>3. QED
    BY <2>1, <2>2
<1>11. QED
  BY <1>7, <1>8, <1>10 DEF n

LEMMA InsertedAt ==
    ASSUME NEW A, NEW s \in Seq(A), NEW c \in A, NEW p \in 1..Len(s) + 1
    PROVE  /\ InsertAt(s, p, c) \in Seq(A)
           /\ Len(InsertAt(s, p, c)) = Len(s) + 1
           /\ InsertAt(s, p, c)[p] = c
           /\ \A i \in 1..Len(s) + 1 :
                 i # p => InsertAt(s, p, c)[i] = IF i < p THEN s[i] ELSE s[i - 1]
<1> DEFINE n == Len(s)
           a == SubSeq(s, 1, p - 1)
           b == SubSeq(s, p - 1 + 1, n)
           d == a \o <<c>>
<1>1. n \in Nat /\ DOMAIN s = 1..n /\ \A i \in 1..n : s[i] \in A
  OBVIOUS
<1>2. /\ a \in Seq(A) /\ Len(a) = p - 1 /\ \A i \in 1..p - 1 : a[i] = s[i]
      /\ b \in Seq(A) /\ Len(b) = n - p + 1
      /\ \A i \in 1..n - p + 1 : b[i] = s[p + i - 1]
  <2>1. p - 1 \in Nat /\ p - 1 <= n
    BY <1>1
  <2>2. a \in Seq(A) /\ Len(a) = p - 1 /\ \A i \in 1..p - 1 : a[i] = s[i]
    BY <2>1, StartOf
  <2>3. /\ b \in Seq(A) /\ Len(b) = n - (p - 1)
        /\ \A i \in 1..n - (p - 1) : b[i] = s[p - 1 + i]
    BY <2>1, EndOf
  <2>4. n - (p - 1) = n - p + 1 /\ \A i \in 1..n - p + 1 : p - 1 + i = p + i - 1
    BY <1>1
  <2>5. QED
    BY <2>2, <2>3, <2>4
<1>3. InsertAt(s, p, c) = d \o b
  <2>1. p - 1 + 1 = p
    OBVIOUS
  <2>2. QED
    BY <2>1 DEF InsertAt
<1>4. <<c>> \in Seq(A) /\ Len(<<c>>) = 1 /\ <<c>>[1] = c
  OBVIOUS
<1> HIDE DEF a, b
<1>5. /\ d \in Seq(A) /\ Len(d) = p
      /\ \A i \in 1..p - 1 : d[i] = s[i]
      /\ d[p] = c
  <2>1. d \in Seq(A) /\ Len(d) = p
    <3>1. Len(a) + Len(<<c>>) = p
      BY <1>1, <1>2, <1>4
    <3>2. QED
      BY <1>2, <1>4, <3>1, ConcatProperties
  <2>2. \A i \in 1..p : d[i] = IF i <= p - 1 THEN a[i] ELSE <<c>>[i - (p - 1)]
    <3>1. Len(a) + Len(<<c>>) = p
      BY <1>1, <1>2, <1>4
    <3>2. QED
      BY <1>2, <1>4, <3>1, ConcatProperties
  <2>3. p \in 1..p /\ p - (p - 1) = 1 /\ ~(p <= p - 1) /\ 1..p - 1 \subseteq 1..p
    BY <1>1
  <2>4. d[p] = c
    BY <1>4, <2>2, <2>3
  <2>5. \A i \in 1..p - 1 : d[i] = s[i]
    BY <1>1, <1>2, <2>2
  <2>6. QED
    BY <2>1, <2>4, <2>5
<1> HIDE DEF d
<1>6. /\ d \o b \in Seq(A) /\ Len(d \o b) = n + 1
      /\ \A i \in 1..n + 1 : (d \o b)[i] = IF i <= p THEN d[i] ELSE b[i - p]
  <2>1. Len(d) + Len(b) = n + 1
    BY <1>1, <1>2, <1>5
  <2>2. QED
    BY <1>2, <1>5, <2>1, ConcatProperties
<1>7. ASSUME NEW i \in 1..n + 1
      PROVE  IF i = p THEN (d \o b)[i] = c
                      ELSE (d \o b)[i] = IF i < p THEN s[i] ELSE s[i - 1]
  <2>1. CASE i <= p
    BY <1>1, <1>5, <1>6, <2>1
  <2>2. CASE ~(i <= p)
    <3>1. i - p \in 1..n - p + 1 /\ p + (i - p) - 1 = i - 1
      BY <1>1, <2>2
    <3>2. b[i - p] = s[i - 1]
      BY <1>2, <3>1
    <3>3. (d \o b)[i] = b[i - p]
      BY <1>1, <1>6, <2>2
    <3>4. QED
      BY <1>1, <2>2, <3>2, <3>3
  <2>3. QED
    BY <2>1, <2>2
<1>8. QED
  BY <1>3, <1>6, <1>7 DEF n

\* Without c, the others keep their order.
LEMMA Removed ==
    ASSUME NEW A, NEW s \in Seq(A), IsInjective(s), NEW c \in ToSet(s)
    PROVE  /\ RemoveFirst(s, c) \in Seq(A) /\ IsInjective(RemoveFirst(s, c))
           /\ Len(RemoveFirst(s, c)) = Len(s) - 1
           /\ ToSet(RemoveFirst(s, c)) = ToSet(s) \ {c}
           /\ \A x \in ToSet(s) \ {c} :
                 /\ PlaceIn(s, x) # PlaceIn(s, c)
                 /\ PlaceIn(RemoveFirst(s, c), x) =
                       IF PlaceIn(s, x) < PlaceIn(s, c) THEN PlaceIn(s, x)
                                                        ELSE PlaceIn(s, x) - 1
<1> DEFINE n == Len(s)
           p == PlaceIn(s, c)
           u == RemoveFirst(s, c)
           h(i) == IF i < p THEN i ELSE i + 1
           g(k) == IF k < p THEN k ELSE k - 1
<1>1. n \in Nat /\ DOMAIN s = 1..n
  OBVIOUS
<1>2. p \in 1..n /\ s[p] = c
  BY <1>1, InPlace
<1>3. u \in Seq(A) /\ Len(u) = n - 1 /\ \A i \in 1..n - 1 : u[i] = IF i < p THEN s[i] ELSE s[i + 1]
  <2>1. RemoveFirst(s, c) = RemoveFirst(s, s[p])
    BY <1>2
  <2>2. /\ RemoveFirst(s, s[p]) \in Seq(A) /\ Len(RemoveFirst(s, s[p])) = n - 1
        /\ \A i \in 1..n - 1 :
              RemoveFirst(s, s[p])[i] = IF i < p THEN s[i] ELSE s[i + 1]
    BY <1>2, RemovedAt, Zenon
  <2>3. QED
    BY <2>1, <2>2, Zenon
<1>4. DOMAIN u = 1..n - 1
  BY <1>3
<1> HIDE DEF u, p, n
<1>5. /\ \A i \in 1..n - 1 : h(i) \in 1..n /\ h(i) # p
      /\ \A i, j \in 1..n - 1 : h(i) = h(j) => i = j
  BY <1>1, <1>2
<1>6. /\ \A k \in 1..n : k # p => g(k) \in 1..n - 1
      /\ \A k \in 1..n : k # p => h(g(k)) = k
  BY <1>1, <1>2
<1>7. \A i \in 1..n - 1 : u[i] = s[h(i)]
  BY <1>3
<1> HIDE DEF h
<1>8. ASSUME NEW x \in ToSet(s) \ {c}
      PROVE  /\ PlaceIn(s, x) \in 1..n /\ PlaceIn(s, x) # p
             /\ g(PlaceIn(s, x)) \in 1..n - 1 /\ u[g(PlaceIn(s, x))] = x
  <2>1. PlaceIn(s, x) \in 1..n /\ s[PlaceIn(s, x)] = x
    BY <1>1, InPlace
  <2>2. PlaceIn(s, x) # p
    BY <1>2, <2>1
  <2> HIDE DEF g
  <2>3. g(PlaceIn(s, x)) \in 1..n - 1 /\ h(g(PlaceIn(s, x))) = PlaceIn(s, x)
    BY <1>6, <2>1, <2>2
  <2>4. QED
    BY <1>7, <2>1, <2>2, <2>3
<1>9. IsInjective(u)
  <2>1. ASSUME NEW i \in 1..n - 1, NEW j \in 1..n - 1, u[i] = u[j] PROVE i = j
    <3>1. s[h(i)] = s[h(j)] /\ h(i) \in 1..n /\ h(j) \in 1..n
      BY <1>5, <1>7, <2>1
    <3>2. h(i) = h(j)
      BY <1>1, <3>1 DEF IsInjective
    <3>3. QED
      BY <1>5, <3>2
  <2>2. QED
    BY <1>4, <2>1 DEF IsInjective
<1>10. ToSet(u) = ToSet(s) \ {c}
  <2>1. ASSUME NEW x \in ToSet(u) PROVE x \in ToSet(s) \ {c}
    <3>1. PICK i \in 1..n - 1 : u[i] = x
      BY <1>4 DEF ToSet
    <3>2. h(i) \in 1..n /\ h(i) # p /\ s[h(i)] = x
      BY <1>5, <1>7, <3>1
    <3>3. x # c
      BY <1>1, <1>2, <3>2 DEF IsInjective
    <3>4. QED
      BY <1>1, <3>2, <3>3 DEF ToSet
  <2>2. ASSUME NEW x \in ToSet(s) \ {c} PROVE x \in ToSet(u)
    BY <1>4, <1>8 DEF ToSet
  <2>3. QED
    BY <2>1, <2>2
<1>11. ASSUME NEW x \in ToSet(s) \ {c}
       PROVE  PlaceIn(u, x) = g(PlaceIn(s, x))
  <2> HIDE DEF g
  <2>1. g(PlaceIn(s, x)) \in DOMAIN u /\ u[g(PlaceIn(s, x))] = x
    BY <1>4, <1>8
  <2>2. QED
    BY <1>9, <2>1, PlaceOf
<1>12. QED
  BY <1>3, <1>8, <1>9, <1>10, <1>11 DEF u, p, n

\* With c at i, the others keep their order.
LEMMA Inserted ==
    ASSUME NEW A, NEW s \in Seq(A), IsInjective(s), NEW c \in A \ ToSet(s),
           NEW p \in 1..Len(s) + 1
    PROVE  /\ InsertAt(s, p, c) \in Seq(A) /\ IsInjective(InsertAt(s, p, c))
           /\ ToSet(InsertAt(s, p, c)) = ToSet(s) \cup {c}
           /\ PlaceIn(InsertAt(s, p, c), c) = p
           /\ \A x \in ToSet(s) :
                 PlaceIn(InsertAt(s, p, c), x) =
                    IF PlaceIn(s, x) < p THEN PlaceIn(s, x) ELSE PlaceIn(s, x) + 1
<1> DEFINE n == Len(s)
           t == InsertAt(s, p, c)
           h(i) == IF i < p THEN i ELSE i - 1
           g(k) == IF k < p THEN k ELSE k + 1
<1>1. n \in Nat /\ DOMAIN s = 1..n /\ p \in 1..n + 1
  OBVIOUS
<1>2. /\ t \in Seq(A) /\ Len(t) = n + 1
      /\ t[p] = c
      /\ \A i \in 1..n + 1 : i # p => t[i] = IF i < p THEN s[i] ELSE s[i - 1]
  <2>1. c \in A
    OBVIOUS
  <2> HIDE DEF n, t, h, g
  <2>2. /\ InsertAt(s, p, c) \in Seq(A) /\ Len(InsertAt(s, p, c)) = Len(s) + 1
        /\ InsertAt(s, p, c)[p] = c
        /\ \A i \in 1..Len(s) + 1 :
              i # p => InsertAt(s, p, c)[i] = IF i < p THEN s[i] ELSE s[i - 1]
    BY <2>1, InsertedAt
  <2>3. QED
    BY <2>2, Zenon DEF n, t
<1>3. DOMAIN t = 1..n + 1
  BY <1>2
<1> HIDE DEF t, n
<1>4. /\ \A i \in 1..n + 1 : i # p => h(i) \in 1..n
      /\ \A i, j \in 1..n + 1 : i # p /\ j # p /\ h(i) = h(j) => i = j
  BY <1>1
<1>5. \A k \in 1..n : g(k) \in 1..n + 1 /\ g(k) # p /\ h(g(k)) = k
  BY <1>1
<1>6. t[p] = c /\ \A i \in 1..n + 1 : i # p => t[i] = s[h(i)]
  BY <1>1, <1>2
<1> HIDE DEF h, g
<1>7. \A i \in 1..n + 1 : t[i] = c => i = p
  BY <1>1, <1>4, <1>6 DEF ToSet
<1>8. IsInjective(t)
  <2>1. ASSUME NEW i \in 1..n + 1, NEW j \in 1..n + 1, t[i] = t[j] PROVE i = j
    <3>1. CASE i = p \/ j = p
      BY <1>6, <1>7, <2>1, <3>1
    <3>2. CASE i # p /\ j # p
      <4>1. s[h(i)] = s[h(j)] /\ h(i) \in 1..n /\ h(j) \in 1..n
        BY <1>4, <1>6, <2>1, <3>2
      <4>2. h(i) = h(j)
        BY <1>1, <4>1 DEF IsInjective
      <4>3. QED
        BY <1>4, <3>2, <4>2
    <3>3. QED
      BY <3>1, <3>2
  <2>2. QED
    BY <1>3, <2>1 DEF IsInjective
<1>9. PlaceIn(t, c) = p
  BY <1>1, <1>3, <1>6, <1>8, PlaceOf
<1>10. ASSUME NEW x \in ToSet(s)
       PROVE  /\ g(PlaceIn(s, x)) \in 1..n + 1 /\ t[g(PlaceIn(s, x))] = x
              /\ PlaceIn(t, x) = g(PlaceIn(s, x))
  <2>1. PlaceIn(s, x) \in 1..n /\ s[PlaceIn(s, x)] = x
    BY <1>1, InPlace
  <2>2. g(PlaceIn(s, x)) \in 1..n + 1 /\ t[g(PlaceIn(s, x))] = x
    BY <1>5, <1>6, <2>1
  <2>3. QED
    BY <1>3, <1>8, <2>2, PlaceOf
<1>11. ToSet(t) = ToSet(s) \cup {c}
  <2>1. ASSUME NEW x \in ToSet(t) PROVE x \in ToSet(s) \cup {c}
    <3>1. PICK i \in 1..n + 1 : t[i] = x
      BY <1>3 DEF ToSet
    <3>2. QED
      BY <1>1, <1>4, <1>6, <3>1 DEF ToSet
  <2>2. ASSUME NEW x \in ToSet(s) \cup {c} PROVE x \in ToSet(t)
    BY <1>1, <1>3, <1>6, <1>10 DEF ToSet
  <2>3. QED
    BY <2>1, <2>2
<1>12. QED
  BY <1>2, <1>8, <1>9, <1>10, <1>11 DEF t, g, n

\* A code that is not in the order is not removed.
LEMMA NotRemoved ==
    ASSUME NEW A, NEW s \in Seq(A), NEW c, c \notin ToSet(s)
    PROVE  RemoveFirst(s, c) = s
  BY DEF RemoveFirst, ToSet

\* The items of X come in s as they come in t.
SameOrder(s, t, X) ==
    \A x, y \in X : PlaceIn(t, x) <= PlaceIn(t, y) <=> PlaceIn(s, x) <= PlaceIn(s, y)

LEMMA RemovedOrder ==
    ASSUME NEW A, NEW s \in Seq(A), IsInjective(s), NEW c \in ToSet(s)
    PROVE  SameOrder(s, RemoveFirst(s, c), ToSet(s) \ {c})
<1>1. \A x \in ToSet(s) : PlaceIn(s, x) \in Int
  BY InPlace
<1>2. SUFFICES ASSUME NEW x \in ToSet(s) \ {c}, NEW y \in ToSet(s) \ {c}
               PROVE  PlaceIn(RemoveFirst(s, c), x) <= PlaceIn(RemoveFirst(s, c), y)
                         <=> PlaceIn(s, x) <= PlaceIn(s, y)
  BY DEF SameOrder
<1> DEFINE u == RemoveFirst(s, c)
           a == PlaceIn(s, x)
           b == PlaceIn(s, y)
           p == PlaceIn(s, c)
<1>3. /\ a \in Int /\ b \in Int /\ p \in Int /\ a # p /\ b # p
      /\ PlaceIn(u, x) = IF a < p THEN a ELSE a - 1
      /\ PlaceIn(u, y) = IF b < p THEN b ELSE b - 1
  BY <1>1, Removed
<1> HIDE DEF a, b, p, u
<1>4. PlaceIn(u, x) <= PlaceIn(u, y) <=> a <= b
  BY <1>3
<1>5. QED
  BY <1>4 DEF a, b, u

\* An item that was not before c in s is not before it in t.
NotBehind(s, t, c) ==
    c \in ToSet(s) =>
       \A x \in ToSet(s) \ {c} :
          PlaceIn(s, c) <= PlaceIn(s, x) => PlaceIn(t, c) <= PlaceIn(t, x)

\* t is the list s after c was written.
WrittenIn(A, s, t, c) ==
    /\ t \in Seq(A) /\ IsInjective(t) /\ ToSet(t) = ToSet(s) \cup {c}
    /\ SameOrder(s, t, ToSet(s) \ {c})
    /\ NotBehind(s, t, c)

\* A write of c keeps the order of the others, and puts none of those before
\* c that were behind it.
LEMMA Moved ==
    ASSUME NEW A, NEW s \in Seq(A), IsInjective(s), NEW c \in A,
           NEW i, c \in ToSet(s) => i \in 1..PlaceIn(s, c),
           c \notin ToSet(s) => i \in 1..Len(s) + 1,
           NEW t, t = InsertAt(RemoveFirst(s, c), i, c)
    PROVE  WrittenIn(A, s, t, c)
<1> DEFINE u == RemoveFirst(s, c)
           n == Len(s)
<1>1. n \in Nat /\ DOMAIN s = 1..n
  OBVIOUS
<1>2. \A x \in ToSet(s) : PlaceIn(s, x) \in 1..n
  BY <1>1, InPlace
<1>3. /\ u \in Seq(A) /\ IsInjective(u) /\ ToSet(u) = ToSet(s) \ {c}
      /\ i \in 1..Len(u) + 1
  <2>1. CASE c \in ToSet(s)
    <3>1. /\ u \in Seq(A) /\ IsInjective(u) /\ ToSet(u) = ToSet(s) \ {c}
          /\ Len(u) = n - 1
      BY <2>1, Removed
    <3>2. i \in 1..n
      BY <1>1, <1>2, <2>1
    <3>3. QED
      BY <1>1, <3>1, <3>2
  <2>2. CASE c \notin ToSet(s)
    BY <2>2, NotRemoved
  <2>3. QED
    BY <2>1, <2>2
<1> HIDE DEF u, n
<1>4. /\ t \in Seq(A) /\ IsInjective(t) /\ ToSet(t) = ToSet(u) \cup {c}
      /\ PlaceIn(t, c) = i
      /\ \A x \in ToSet(u) :
            PlaceIn(t, x) = IF PlaceIn(u, x) < i THEN PlaceIn(u, x) ELSE PlaceIn(u, x) + 1
  <2>1. t = InsertAt(u, i, c)
    BY DEF u
  <2>2. c \in A \ ToSet(u)
    BY <1>3
  <2>3. QED
    BY <1>3, <2>1, <2>2, Inserted
<1>5. \A x \in ToSet(u) : PlaceIn(u, x) \in Int
  BY <1>3, InPlace
<1>6. SameOrder(s, u, ToSet(u))
  <2>1. CASE c \in ToSet(s)
    BY <1>3, <2>1, RemovedOrder DEF u
  <2>2. CASE c \notin ToSet(s)
    <3>1. u = s
      BY <2>2, NotRemoved DEF u
    <3>2. QED
      BY <3>1 DEF SameOrder
  <2>3. QED
    BY <2>1, <2>2
<1>7. SameOrder(s, t, ToSet(u))
  <2> SUFFICES ASSUME NEW x \in ToSet(u), NEW y \in ToSet(u)
               PROVE  PlaceIn(t, x) <= PlaceIn(t, y) <=> PlaceIn(s, x) <= PlaceIn(s, y)
    BY DEF SameOrder
  <2> DEFINE a == PlaceIn(u, x)
             b == PlaceIn(u, y)
  <2>1. /\ a \in Int /\ b \in Int /\ i \in Int
        /\ PlaceIn(t, x) = IF a < i THEN a ELSE a + 1
        /\ PlaceIn(t, y) = IF b < i THEN b ELSE b + 1
    BY <1>3, <1>4, <1>5
  <2>2. a <= b <=> PlaceIn(s, x) <= PlaceIn(s, y)
    BY <1>6 DEF SameOrder
  <2> HIDE DEF a, b
  <2>3. PlaceIn(t, x) <= PlaceIn(t, y) <=> a <= b
    BY <2>1
  <2>4. QED
    BY <2>2, <2>3
<1>8. ASSUME c \in ToSet(s), NEW x \in ToSet(s) \ {c}, PlaceIn(s, c) <= PlaceIn(s, x)
      PROVE  PlaceIn(t, c) <= PlaceIn(t, x)
  <2> DEFINE a == PlaceIn(s, x)
             p == PlaceIn(s, c)
  <2>1. a \in 1..n /\ p \in 1..n /\ i \in 1..p
    BY <1>2, <1>8
  <2>2. a # p /\ PlaceIn(u, x) = IF a < p THEN a ELSE a - 1
    BY <1>8, Removed DEF u
  <2>3. p <= a
    BY <1>8
  <2>4. PlaceIn(t, x) = IF PlaceIn(u, x) < i THEN PlaceIn(u, x) ELSE PlaceIn(u, x) + 1
    BY <1>3, <1>4
  <2> HIDE DEF a, p
  <2>5. PlaceIn(u, x) = a - 1 /\ a - 1 >= i
    BY <1>1, <2>1, <2>2, <2>3
  <2>6. PlaceIn(t, x) >= i
    BY <1>1, <2>1, <2>4, <2>5
  <2>7. QED
    BY <1>4, <2>6
<1>9. QED
  <2>1. ToSet(t) = ToSet(s) \cup {c}
    BY <1>3, <1>4
  <2>2. SameOrder(s, t, ToSet(s) \ {c})
    BY <1>3, <1>7
  <2>3. QED
    BY <1>4, <1>8, <2>1, <2>2 DEF NotBehind, WrittenIn
==============================================================================
