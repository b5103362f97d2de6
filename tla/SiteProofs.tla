------------------------------ MODULE SiteProofs ------------------------------
(***************************************************************************)
(* Proofs about Feed, HomePage and the site they make with Accounts, for   *)
(* any number of messages and nodes and any page size.  Both lists rest on *)
(* ranks: the messages with a rank up to n * Count are those of the first  *)
(* n pages.  The pages of the device are counted among the messages up to  *)
(* its cursor, whose ranks nothing but a marked change moves.  The pages   *)
(* of the site are counted among all messages, whose ranks only grow.      *)
(***************************************************************************)
EXTENDS MCSite, AccountsProofs, FiniteSetTheorems, SequenceTheorems

(* The visible messages a page is counted in, those of them on the pages   *)
(* that were asked for, and those that came with refreshes.                *)
Below == {i \in Visible : i <= last}
Paged == {i \in Below : Rank(i, Below) <= page * Count}
Newer == {i \in Visible : last < i /\ i <= since}

(* What a refresh asks for.                                                *)
Fresh == {i \in Visible : i > since}

(* Each page that was asked for was full, or followed a failure.           *)
PageBound == page <= MaxId + failures + (IF finished THEN 2 ELSE 1)

(* The cursors come together, and the one for refreshes is ahead.          *)
Cursors ==
    /\ last <= since
    /\ last = Nothing <=> since = Nothing
    /\ last = Nothing /\ ~Spoiled({"moved", "unanchored", "skipped"}) => page = 1

(* The list has only messages of those pages and of refreshes.             *)
Placed ==
    \/ Spoiled({"moved", "unanchored"})
    \/ ToSet(list) \subseteq {x \in Id : x > last /\ x <= since} \cup Paged

(* It has all of them; when there are no more pages, that is all there is. *)
Complete ==
    \/ Spoiled({"moved", "unanchored", "skipped"})
    \/ /\ ToSet(list) = Newer \cup Paged
       /\ finished => Cardinality(Below) <= page * Count

ListInv ==
    /\ TypeOK /\ PageBound /\ Cursors
    /\ Placed /\ EachOnce /\ NewestFirst /\ Complete

(* The messages of some nodes; one of them that is on none of the first n  *)
(* pages.                                                                  *)
Found(nodes) == {i \in DOMAIN stored : stored[i] \in nodes}
Behind(d, nodes, n) == d \in Found(nodes) /\ Rank(d, Found(nodes)) > n * Count

(* A walk begins with the first page and goes to a neighbour of a page.    *)
Walk ==
    /\ reading \in [page : 0..(MaxId + 1), step : {"none", "messages", "charts"},
                    nodes : SUBSET Node, messages : Seq(Id)]
    /\ Len(reading.messages) <= Count
    /\ reading.step = "none" <=> reading = NotReading
    /\ reading # NotReading =>
          \/ reading.page = 1 /\ at = 0 /\ seen = {}
          \/ at > 0 /\ reading.page \in {at - 1, at + 1} /\ reading.page > 1

(* What the visitor has not seen is behind the page he is on, in the       *)
(* roster of now as in the one the next page is made with.                 *)
Unseen ==
    /\ at > 0 /\ ~full => due \subseteq seen
    /\ \A d \in due \ seen : Behind(d, followed, at)
Making ==
    /\ reading.nodes \subseteq followed
    /\ reading.step = "messages" =>
          IF reading.page = 1 THEN due = {}
          ELSE \A d \in due \ seen : Behind(d, reading.nodes, at)
    /\ reading.step = "charts" =>
          /\ \A d \in due \ (seen \cup ToSet(reading.messages)) :
                Behind(d, reading.nodes, reading.page)
          /\ Len(reading.messages) < Count =>
                due \subseteq seen \cup ToSet(reading.messages)

HomeInv == HomeTypeOK /\ Walk /\ (shrunk \/ (Unseen /\ Making))

(* A list in which each message is newer than the next.                    *)
Descending(s) == \A j, k \in DOMAIN s : j < k => s[j] > s[k]

-----------------------------------------------------------------------------
(* The page size times a page number.                                      *)
LEMMA PageProduct ==
    ASSUME NEW p \in Nat
    PROVE  /\ p * Count \in Nat
           /\ p <= p * Count
           /\ (p + 1) * Count = p * Count + Count
           /\ Count \in Nat /\ Count >= 1
  BY FeedAssumption

(* Ids are bounded, so that sets of them are finite.                       *)
LEMMA IdsFinite ==
    ASSUME NEW S \in SUBSET Id
    PROVE  IsFiniteSet(S) /\ Cardinality(S) \in Nat /\ Cardinality(S) <= MaxId
<1>1. /\ IsFiniteSet(Id)
      /\ Cardinality(Id) = MaxId
  <2>1. /\ IsFiniteSet(1..MaxId)
        /\ Cardinality(1..MaxId) = IF 1 > MaxId THEN 0 ELSE MaxId - 1 + 1
    BY FS_Interval, FeedAssumption
  <2> QED BY <2>1, FeedAssumption DEF Id
<1> QED
  BY <1>1, FS_Subset, FS_CardinalityType

(* A message of a set has a rank from one to the size of the set.          *)
LEMMA RankType ==
    ASSUME NEW S \in SUBSET Id, NEW i \in S
    PROVE  Rank(i, S) \in 1..Cardinality(S)
<1> DEFINE T == {j \in S : j >= i}
<1>1. IsFiniteSet(S) /\ Cardinality(S) \in Nat
  BY IdsFinite
<1>2. /\ IsFiniteSet(T)
      /\ Cardinality(T) <= Cardinality(S)
      /\ Cardinality(T) \in Nat
  BY <1>1, FS_Subset, FS_CardinalityType
<1>3. i \in T
  BY DEF Id
<1>4. Cardinality(T) # 0
  BY <1>2, <1>3, FS_EmptySet
<1> QED
  BY <1>1, <1>2, <1>4 DEF Rank

(* A newer message has a smaller rank.                                     *)
LEMMA RankOrder ==
    ASSUME NEW S \in SUBSET Id, NEW i \in S, NEW j \in S, i < j
    PROVE  Rank(j, S) < Rank(i, S)
<1> DEFINE T == {k \in S : k >= i}
           U == {k \in S : k >= j}
<1>1. IsFiniteSet(T) /\ Cardinality(T) \in Nat
  BY IdsFinite
<1>2. U \in SUBSET T
  <2>1. i \in Nat /\ j \in Nat /\ \A k \in S : k \in Nat
    BY DEF Id
  <2>2. \A k \in S : k >= j => k >= i
    BY <2>1
  <2> QED BY <2>2
<1>3. i \in T /\ i \notin U
  BY DEF Id
<1>4. /\ Cardinality(U) <= Cardinality(T)
      /\ Cardinality(T) = Cardinality(U) => T = U
  BY <1>1, <1>2, FS_Subset
<1>5. Cardinality(U) \in Nat
  BY IdsFinite
<1> HIDE DEF T, U
<1>6. Cardinality(U) < Cardinality(T)
  BY <1>1, <1>3, <1>4, <1>5
<1> QED
  BY <1>6 DEF Rank, T, U

(* The ranks of a set are all the numbers from one to its size.            *)
LEMMA RankOnto ==
    ASSUME NEW S \in SUBSET Id, NEW k \in 1..Cardinality(S)
    PROVE  \E i \in S : Rank(i, S) = k
<1> DEFINE n == Cardinality(S)
           f == [i \in S |-> Rank(i, S)]
<1>1. IsFiniteSet(S) /\ n \in Nat
  BY IdsFinite
<1>2. f \in [S -> 1..n]
  BY RankType
<1>3. ASSUME NEW i \in S, NEW j \in S, Rank(i, S) = Rank(j, S)
      PROVE  i = j
  <2>1. Rank(i, S) \in Nat
    BY <1>1, RankType
  <2>2. i \in Nat /\ j \in Nat
    BY DEF Id
  <2>3. ~(i < j) /\ ~(j < i)
    BY <1>3, <2>1, RankOrder
  <2> QED BY <2>2, <2>3
<1>4. f \in Injection(S, 1..n)
  BY <1>2, <1>3 DEF Injection, IsInjective
<1>5. /\ IsFiniteSet(1..n)
      /\ Cardinality(1..n) = n
  BY <1>1, FS_Interval
<1>6. f \in Surjection(S, 1..n)
  BY <1>1, <1>4, <1>5, FS_Injection
<1> QED
  BY <1>6 DEF Surjection

(* Ranks grow with the set.                                                *)
LEMMA RankGrows ==
    ASSUME NEW S \in SUBSET Id, NEW T \in SUBSET S, NEW i \in T
    PROVE  Rank(i, T) <= Rank(i, S)
<1> DEFINE A == {k \in S : k >= i}
           B == {k \in T : k >= i}
<1>1. IsFiniteSet(A) /\ B \in SUBSET A
  BY IdsFinite
<1> QED
  BY <1>1, FS_Subset DEF Rank

(* The sort puts each message at its rank.                                 *)
LEMMA NewestFact ==
    ASSUME NEW S \in SUBSET Id
    PROVE  /\ Newest(S) \in Seq(S)
           /\ Len(Newest(S)) = Cardinality(S)
           /\ \A k \in 1..Cardinality(S) :
                 Newest(S)[k] \in S /\ Rank(Newest(S)[k], S) = k
<1>1. Cardinality(S) \in Nat
  BY IdsFinite
<1>2. ASSUME NEW k \in 1..Cardinality(S)
      PROVE  Newest(S)[k] \in S /\ Rank(Newest(S)[k], S) = k
  <2>1. Newest(S)[k] = CHOOSE i \in S : Rank(i, S) = k
    BY DEF Newest
  <2> QED BY <2>1, RankOnto
<1>3. Newest(S) = [k \in 1..Cardinality(S) |-> Newest(S)[k]]
  BY DEF Newest
<1>4. Newest(S) \in [1..Cardinality(S) -> S]
  BY <1>2, <1>3
<1> QED
  BY <1>1, <1>2, <1>4, SeqDef, LenProperties

(* The lesser of two numbers.                                              *)
LEMMA MinOfTwo ==
    ASSUME NEW a \in Nat, NEW b \in Nat
    PROVE  Min({a, b}) = IF a <= b THEN a ELSE b
<1> DEFINE m == IF a <= b THEN a ELSE b
<1>1. m \in {a, b} /\ \A y \in {a, b} : m =< y
  OBVIOUS
<1>2. \A x \in {a, b} : (\A y \in {a, b} : x =< y) => x = m
  OBVIOUS
<1> HIDE DEF m
<1>3. (CHOOSE x \in {a, b} : \A y \in {a, b} : x =< y) = m
  BY <1>1, <1>2
<1> QED
  BY <1>3 DEF Min, m

(* The k-th message of a page has the k-th rank after those it skips.      *)
LEMMA PageElements ==
    ASSUME NEW S \in SUBSET Id, NEW skip \in Nat
    PROVE  LET q == Page(S, skip) IN
           /\ q \in Seq(S)
           /\ Len(q) = IF Cardinality(S) <= skip THEN 0
                       ELSE IF skip + Count <= Cardinality(S) THEN Count
                       ELSE Cardinality(S) - skip
           /\ \A k \in 1..Len(q) : q[k] \in S /\ Rank(q[k], S) = skip + k
<1> DEFINE n == Cardinality(S)
           m == Min({skip + Count, n})
           s == Newest(S)
           q == Page(S, skip)
<1>1. n \in Nat /\ Count \in Nat /\ Count >= 1
  BY IdsFinite, FeedAssumption
<1>2. m = IF skip + Count <= n THEN skip + Count ELSE n
  BY <1>1, MinOfTwo
<1>3. m \in Nat /\ m <= n
  BY <1>1, <1>2
<1>4. \A k \in 1..n : s[k] \in S /\ Rank(s[k], S) = k
  BY NewestFact
<1>5. q = SubSeq(s, skip + 1, m)
  BY DEF Page
<1> HIDE DEF n, m, s, q
<1>6. \A k \in (skip + 1)..m : s[k] \in S
  BY <1>1, <1>3, <1>4
<1>7. /\ q \in Seq(S)
      /\ Len(q) = IF skip + 1 <= m THEN m - (skip + 1) + 1 ELSE 0
      /\ \A k \in 1..(m - (skip + 1) + 1) : q[k] = s[(skip + 1) + k - 1]
  BY <1>3, <1>5, <1>6, SubSeqProperties
<1>8. Len(q) = IF n <= skip THEN 0
               ELSE IF skip + Count <= n THEN Count ELSE n - skip
  BY <1>1, <1>2, <1>7
<1>9. ASSUME NEW k \in 1..Len(q)
      PROVE  q[k] \in S /\ Rank(q[k], S) = skip + k
  <2>1. k \in 1..(m - (skip + 1) + 1)
    BY <1>3, <1>7
  <2>2. q[k] = s[(skip + 1) + k - 1]
    BY <1>7, <2>1
  <2>3. /\ (skip + 1) + k - 1 = skip + k
        /\ skip + k \in 1..n
    BY <1>1, <1>3, <2>1
  <2> QED BY <1>4, <2>2, <2>3
<1> QED
  BY <1>7, <1>8, <1>9 DEF q, n

(* A page of find: so many of the newest messages after those it skips, in *)
(* descending order.  A page that is not full is the last one.             *)
LEMMA PageFact ==
    ASSUME NEW S \in SUBSET Id, NEW skip \in Nat
    PROVE  LET q == Page(S, skip) IN
           /\ q \in Seq(Id) /\ Len(q) \in 0..Count
           /\ Len(q) = Count => skip + Count <= Cardinality(S)
           /\ Len(q) < Count => Cardinality(S) < skip + Count
           /\ ToSet(q) = {i \in S : skip < Rank(i, S) /\ Rank(i, S) <= skip + Count}
           /\ Descending(q)
           /\ \A x \in ToSet(q) : q[1] >= x
<1> DEFINE n == Cardinality(S)
           q == Page(S, skip)
           T == {i \in S : skip < Rank(i, S) /\ Rank(i, S) <= skip + Count}
<1>1. n \in Nat /\ Count \in Nat /\ Count >= 1
  BY IdsFinite, FeedAssumption
<1>2. /\ q \in Seq(S)
      /\ Len(q) = IF n <= skip THEN 0
                  ELSE IF skip + Count <= n THEN Count ELSE n - skip
      /\ \A k \in 1..Len(q) : q[k] \in S /\ Rank(q[k], S) = skip + k
  BY PageElements
<1>3. DOMAIN q = 1..Len(q)
  BY <1>2, LenProperties
<1>4. \A i \in S : Rank(i, S) \in 1..n
  BY RankType
<1>5. S \subseteq Nat
  BY DEF Id
<1> HIDE DEF n, q
<1>6. q \in Seq(Id)
  BY <1>2, SeqMonotonic
<1>7. /\ Len(q) \in 0..Count
      /\ Len(q) = Count => skip + Count <= n
      /\ Len(q) < Count => n < skip + Count
  BY <1>1, <1>2
<1>8. ASSUME NEW j \in DOMAIN q, NEW k \in DOMAIN q, j < k
      PROVE  q[j] > q[k]
  <2>1. /\ q[j] \in S /\ Rank(q[j], S) = skip + j
        /\ q[k] \in S /\ Rank(q[k], S) = skip + k
        /\ j \in Nat /\ k \in Nat
    BY <1>2, <1>3, <1>7
  <2>2. ~(q[j] < q[k])
    <3>1. CASE q[j] < q[k]
      <4>1. Rank(q[k], S) < Rank(q[j], S)
        BY <2>1, <3>1, RankOrder
      <4> QED BY <1>8, <2>1, <4>1
    <3> QED BY <3>1
  <2>3. q[j] # q[k]
    BY <1>8, <2>1
  <2>4. q[j] \in Nat /\ q[k] \in Nat
    BY <1>5, <2>1
  <2> QED BY <2>2, <2>3, <2>4
<1>9. Descending(q)
  BY <1>8 DEF Descending
<1>10. ASSUME NEW x \in ToSet(q) PROVE q[1] >= x
  <2>1. PICK k \in DOMAIN q : x = q[k]
    BY DEF ToSet
  <2>2. 1 \in DOMAIN q /\ k \in Nat /\ q[1] \in S /\ (k = 1 \/ 1 < k)
    BY <1>2, <1>3, <1>7
  <2>3. x = q[1] \/ q[1] > x
    BY <1>8, <2>1, <2>2
  <2>4. q[1] \in Nat /\ x \in Nat
    BY <1>2, <1>3, <1>5, <2>1, <2>2
  <2> QED BY <2>3, <2>4
<1>11. ToSet(q) \subseteq T
  <2>1. ASSUME NEW x \in ToSet(q) PROVE x \in T
    <3>1. PICK k \in DOMAIN q : x = q[k]
      BY DEF ToSet
    <3>2. x \in S /\ Rank(x, S) = skip + k
      BY <1>2, <1>3, <3>1
    <3>3. k \in Nat /\ 1 <= k /\ k <= Count
      <4>1. k \in 1..Len(q) /\ Len(q) \in 0..Count
        BY <1>3, <1>7
      <4> QED BY <1>1, <4>1
    <3>4. skip < skip + k /\ skip + k <= skip + Count
      BY <1>1, <3>3
    <3> QED BY <3>2, <3>4
  <2> QED BY <2>1
<1>12. T \subseteq ToSet(q)
  <2>1. ASSUME NEW i \in T PROVE i \in ToSet(q)
    <3> DEFINE k == Rank(i, S) - skip
    <3>1. i \in S /\ Rank(i, S) \in 1..n /\ skip < Rank(i, S)
          /\ Rank(i, S) <= skip + Count
      BY <1>4
    <3> HIDE DEF T, n
    <3>2. k \in 1..Len(q) /\ skip + k = Rank(i, S)
      BY <1>1, <1>2, <3>1
    <3>3. q[k] \in S /\ Rank(q[k], S) = Rank(i, S)
      BY <1>2, <3>2
    <3>4. q[k] = i
      <4>1. q[k] \in Nat /\ i \in Nat
        BY <1>5, <3>1, <3>3
      <4>2. Rank(i, S) \in Nat
        BY <3>1
      <4>3. ~(q[k] < i) /\ ~(i < q[k])
        BY <3>1, <3>3, <4>2, RankOrder
      <4> QED BY <4>1, <4>3
    <3> QED BY <1>3, <3>2, <3>4 DEF ToSet
  <2> QED BY <2>1
<1> QED
  BY <1>6, <1>7, <1>9, <1>10, <1>11, <1>12 DEF q, n

-----------------------------------------------------------------------------
(* Lists of messages that are put together.                                *)
LEMMA DescendingInjective ==
    ASSUME NEW s \in Seq(Id), Descending(s)
    PROVE  IsInjective(s)
<1>1. Len(s) \in Nat /\ DOMAIN s = 1..Len(s) /\ s \in [1..Len(s) -> Id]
  BY LenProperties
<1>2. \A j \in DOMAIN s : j \in Nat /\ s[j] \in Nat
  BY <1>1 DEF Id
<1> QED
  BY <1>2 DEF Descending, IsInjective

(* What is put below a list.                                               *)
LEMMA ConcatFact ==
    ASSUME NEW s \in Seq(Id), NEW t \in Seq(Id)
    PROVE  /\ s \o t \in Seq(Id)
           /\ ToSet(s \o t) = ToSet(s) \cup ToSet(t)
           /\ IsInjective(s) /\ IsInjective(t) /\ ToSet(s) \cap ToSet(t) = {}
                 => IsInjective(s \o t)
           /\ Descending(s) /\ Descending(t)
              /\ (\A x \in ToSet(s), y \in ToSet(t) : x > y)
                 => Descending(s \o t)
<1> DEFINE r == s \o t
<1>1. /\ Len(s) \in Nat /\ DOMAIN s = 1..Len(s)
      /\ Len(t) \in Nat /\ DOMAIN t = 1..Len(t)
  BY LenProperties
<1>2. /\ r \in Seq(Id)
      /\ Len(r) = Len(s) + Len(t)
      /\ \A i \in 1..(Len(s) + Len(t)) :
            r[i] = IF i <= Len(s) THEN s[i] ELSE t[i - Len(s)]
  BY ConcatProperties
<1>3. DOMAIN r = 1..(Len(s) + Len(t))
  BY <1>2, LenProperties
<1> HIDE DEF r
<1>4. \A i \in DOMAIN r :
         \/ i \in DOMAIN s /\ r[i] = s[i] /\ r[i] \in ToSet(s)
         \/ /\ i > Len(s) /\ i - Len(s) \in DOMAIN t
            /\ r[i] = t[i - Len(s)] /\ r[i] \in ToSet(t)
  <2>1. ASSUME NEW i \in DOMAIN r, i <= Len(s)
        PROVE  i \in DOMAIN s /\ r[i] = s[i] /\ r[i] \in ToSet(s)
    BY <1>1, <1>2, <1>3, <2>1 DEF ToSet
  <2>2. ASSUME NEW i \in DOMAIN r, ~(i <= Len(s))
        PROVE  /\ i > Len(s) /\ i - Len(s) \in DOMAIN t
               /\ r[i] = t[i - Len(s)] /\ r[i] \in ToSet(t)
    <3>1. i \in 1..(Len(s) + Len(t))
      BY <1>3
    <3>2. i > Len(s) /\ i - Len(s) \in 1..Len(t)
      BY <1>1, <2>2, <3>1
    <3> QED BY <1>1, <1>2, <2>2, <3>1, <3>2 DEF ToSet
  <2> QED BY <2>1, <2>2
<1>5. ToSet(r) = ToSet(s) \cup ToSet(t)
  <2>1. ToSet(r) \subseteq ToSet(s) \cup ToSet(t)
    <3>1. ASSUME NEW x \in ToSet(r) PROVE x \in ToSet(s) \cup ToSet(t)
      <4>1. PICK i \in DOMAIN r : x = r[i]
        BY DEF ToSet
      <4> QED BY <1>4, <4>1
    <3> QED BY <3>1
  <2>2. ASSUME NEW x \in ToSet(s) PROVE x \in ToSet(r)
    <3>1. PICK i \in 1..Len(s) : x = s[i]
      BY <1>1 DEF ToSet
    <3>2. i \in 1..(Len(s) + Len(t)) /\ i <= Len(s)
      BY <1>1, <3>1
    <3>3. r[i] = x /\ i \in DOMAIN r
      BY <1>2, <1>3, <3>1, <3>2
    <3> QED BY <3>3 DEF ToSet
  <2>3. ASSUME NEW x \in ToSet(t) PROVE x \in ToSet(r)
    <3>1. PICK i \in 1..Len(t) : x = t[i]
      BY <1>1 DEF ToSet
    <3>2. /\ i + Len(s) \in 1..(Len(s) + Len(t)) /\ ~(i + Len(s) <= Len(s))
          /\ (i + Len(s)) - Len(s) = i
      BY <1>1, <3>1
    <3>3. r[i + Len(s)] = x /\ i + Len(s) \in DOMAIN r
      BY <1>2, <1>3, <3>1, <3>2
    <3> QED BY <3>3 DEF ToSet
  <2> QED BY <2>1, <2>2, <2>3
<1>6. ASSUME IsInjective(s), IsInjective(t), ToSet(s) \cap ToSet(t) = {}
      PROVE  IsInjective(r)
  <2>1. SUFFICES ASSUME NEW i \in DOMAIN r, NEW j \in DOMAIN r, r[i] = r[j]
                 PROVE  i = j
    BY DEF IsInjective
  <2>2. CASE i \in DOMAIN s /\ r[i] = s[i] /\ r[i] \in ToSet(s)
    <3>1. j \in DOMAIN s /\ r[j] = s[j]
      BY <1>4, <1>6, <2>1, <2>2
    <3> QED BY <1>6, <2>1, <2>2, <3>1 DEF IsInjective
  <2>3. CASE /\ i > Len(s) /\ i - Len(s) \in DOMAIN t
             /\ r[i] = t[i - Len(s)] /\ r[i] \in ToSet(t)
    <3>1. j - Len(s) \in DOMAIN t /\ r[j] = t[j - Len(s)]
      BY <1>4, <1>6, <2>1, <2>3
    <3>2. i - Len(s) = j - Len(s)
      BY <1>6, <2>1, <2>3, <3>1 DEF IsInjective
    <3>3. i \in Int /\ j \in Int
      BY <1>3
    <3> QED BY <1>1, <3>2, <3>3
  <2> QED BY <1>4, <2>2, <2>3
<1>7. ASSUME Descending(s), Descending(t), \A x \in ToSet(s), y \in ToSet(t) : x > y
      PROVE  Descending(r)
  <2>1. SUFFICES ASSUME NEW i \in DOMAIN r, NEW j \in DOMAIN r, i < j
                 PROVE  r[i] > r[j]
    BY DEF Descending
  <2>2. i \in Int /\ j \in Int
    BY <1>3
  <2>3. CASE j \in DOMAIN s /\ r[j] = s[j]
    <3>1. i \in DOMAIN s /\ r[i] = s[i]
      BY <1>1, <1>4, <2>1, <2>2, <2>3
    <3> QED BY <1>7, <2>1, <2>3, <3>1 DEF Descending
  <2>4. CASE /\ j > Len(s) /\ j - Len(s) \in DOMAIN t
             /\ r[j] = t[j - Len(s)] /\ r[j] \in ToSet(t)
    <3>1. CASE r[i] \in ToSet(s)
      BY <1>7, <2>4, <3>1
    <3>2. CASE i - Len(s) \in DOMAIN t /\ r[i] = t[i - Len(s)]
      <4>1. i - Len(s) < j - Len(s)
        BY <1>1, <2>1, <2>2
      <4> QED BY <1>7, <2>4, <3>2, <4>1 DEF Descending
    <3> QED BY <1>4, <3>1, <3>2
  <2> QED BY <1>4, <2>3, <2>4
<1> QED
  BY <1>2, <1>5, <1>6, <1>7 DEF r

(* What a refresh makes of its answer.                                     *)
LEMMA ReverseFact ==
    ASSUME NEW s \in Seq(Id)
    PROVE  /\ Reverse(s) \in Seq(Id)
           /\ ToSet(Reverse(s)) = ToSet(s)
           /\ IsInjective(s) => IsInjective(Reverse(s))
           /\ Len(s) <= 1 => Descending(Reverse(s))
<1> DEFINE r == Reverse(s)
           n == Len(s)
<1>1. n \in Nat /\ DOMAIN s = 1..n /\ s \in [1..n -> Id]
  BY LenProperties
<1>2. r = [i \in 1..n |-> s[(n - i) + 1]]
  BY DEF Reverse
<1>3. \A i \in 1..n : (n - i) + 1 \in 1..n
  BY <1>1
<1> HIDE DEF n
<1>4. r \in [1..n -> Id]
  BY <1>1, <1>2, <1>3
<1>5. r \in Seq(Id) /\ DOMAIN r = 1..n
  BY <1>1, <1>4, SeqDef
<1> HIDE DEF r
<1>6. ToSet(r) \subseteq ToSet(s)
  BY <1>1, <1>2, <1>3, <1>5 DEF ToSet
<1>7. ASSUME NEW x \in ToSet(s) PROVE x \in ToSet(r)
  <2>1. PICK i \in 1..n : x = s[i]
    BY <1>1 DEF ToSet
  <2>2. (n - i) + 1 \in 1..n /\ (n - ((n - i) + 1)) + 1 = i
    BY <1>1
  <2>3. r[(n - i) + 1] = x
    BY <1>2, <2>1, <2>2
  <2> QED BY <1>5, <2>2, <2>3 DEF ToSet
<1>8. ASSUME IsInjective(s) PROVE IsInjective(r)
  <2>1. SUFFICES ASSUME NEW i \in 1..n, NEW j \in 1..n, r[i] = r[j]
                 PROVE  i = j
    BY <1>5 DEF IsInjective
  <2>2. s[(n - i) + 1] = s[(n - j) + 1]
    BY <1>2, <2>1
  <2>3. (n - i) + 1 = (n - j) + 1
    BY <1>1, <1>3, <1>8, <2>2 DEF IsInjective
  <2> QED BY <1>1, <2>3
<1>9. ASSUME n <= 1 PROVE Descending(r)
  <2>1. \A j, k \in 1..n : ~(j < k)
    BY <1>1, <1>9
  <2> QED BY <1>5, <2>1 DEF Descending
<1> QED
  BY <1>5, <1>6, <1>7, <1>8, <1>9 DEF r, n

-----------------------------------------------------------------------------
(* What the requests of the client return.                                 *)

(* Messages that are visible have ids.                                     *)
LEMMA VisibleIds == TypeOK => Visible \in SUBSET Id /\ Below \in SUBSET Id
  BY DEF TypeOK, Visible, Below

(* Without cursors the first page of all that is visible.                  *)
LEMMA FirstIsPage ==
    ASSUME TypeOK
    PROVE  GetMessages(1, Nothing, Nothing) = Page(Visible, 0)
<1>1. Visible \cap {i \in Id : (Nothing = Nothing \/ i <= Nothing) /\ i > Nothing}
          = Visible
  BY VisibleIds DEF Id, Nothing
<1>2. (1 - 1) * Count = 0
  BY FeedAssumption
<1> QED
  BY <1>1, <1>2 DEF GetMessages, Messages

(* With the cursor of a refresh the first page of what is above it.        *)
LEMMA FreshIsPage ==
    ASSUME TypeOK
    PROVE  GetMessages(1, Nothing, since) = Page(Fresh, 0) /\ Fresh \in SUBSET Id
<1>1. Visible \cap {i \in Id : (Nothing = Nothing \/ i <= Nothing) /\ i > since}
          = Fresh
  BY VisibleIds DEF Fresh
<1>2. (1 - 1) * Count = 0
  BY FeedAssumption
<1>3. Fresh \in SUBSET Id
  BY VisibleIds DEF Fresh
<1> QED
  BY <1>1, <1>2, <1>3 DEF GetMessages, Messages

(* With the cursor of the pages one of what is not above it.               *)
LEMMA MoreIsPage ==
    ASSUME TypeOK
    PROVE  /\ \E S \in SUBSET Id :
                 GetMessages(page + 1, last, Nothing) = Page(S, page * Count)
           /\ last # Nothing =>
                 GetMessages(page + 1, last, Nothing) = Page(Below, page * Count)
<1> DEFINE S == Visible \cap {i \in Id : (last = Nothing \/ i <= last) /\ i > Nothing}
<1>1. S \in SUBSET Id
  OBVIOUS
<1>2. last # Nothing => S = Below
  BY VisibleIds DEF Below, Id, Nothing
<1>3. (page + 1) - 1 = page
  BY DEF TypeOK
<1>4. GetMessages(page + 1, last, Nothing) = Page(S, page * Count)
  BY <1>3 DEF GetMessages, Messages
<1> QED
  BY <1>1, <1>2, <1>4

-----------------------------------------------------------------------------
(* What the database goes through keeps the invariant: a message that      *)
(* comes or goes is above the cursors, or the list is marked.              *)
LEMMA Unmoved ==
    ASSUME ListInv, TypeOK', UNCHANGED <<cursors, failures, list>>,
           \/ "moved" \in flaws' /\ flaws \subseteq flaws'
           \/ /\ flaws' = flaws
              /\ \A i \in Id : i <= since => (i \in Visible' <=> i \in Visible)
    PROVE  ListInv'
<1>1. PageBound' /\ Cursors'
  BY DEF ListInv, PageBound, Cursors, Spoiled, cursors
<1>2. CASE "moved" \in flaws'
  <2>1. Spoiled({"moved", "unanchored"})'
        /\ Spoiled({"moved", "unanchored", "skipped"})'
        /\ Spoiled({"moved", "unanchored", "reversed"})'
    BY <1>2 DEF Spoiled
  <2> QED BY <1>1, <2>1 DEF ListInv, Placed, EachOnce, NewestFirst, Complete
<1>3. CASE /\ flaws' = flaws
           /\ \A i \in Id : i <= since => (i \in Visible' <=> i \in Visible)
  <2>1. Visible \in SUBSET Id /\ Visible' \in SUBSET Id
    BY DEF ListInv, TypeOK, Visible
  <2>2. last \in Nat /\ since \in Nat /\ last <= since /\ \A i \in Id : i \in Nat
    BY FeedAssumption DEF ListInv, TypeOK, Cursors, Id, Nothing
  <2>3. Below' = Below
    BY <1>3, <2>1, <2>2 DEF Below, cursors
  <2>4. Newer' = Newer
    BY <1>3, <2>1, <2>2 DEF Newer, cursors
  <2>5. Paged' = Paged
    BY <2>3 DEF Paged, Rank, cursors
  <2> QED
    BY <1>1, <1>3, <2>3, <2>4, <2>5
    DEF ListInv, Placed, EachOnce, NewestFirst, Complete, Spoiled, cursors
<1> QED
  BY <1>2, <1>3

(* A message is stored, anywhere in the order.                             *)
LEMMA CreateMessageStep ==
    ASSUME ListInv, NEW i \in Id, NEW n \in Node, CreateMessage(i, n)
    PROVE  ListInv'
<1>1. stored' = [j \in DOMAIN stored \cup {i} |-> IF j = i THEN n ELSE stored[j]]
      /\ followed' = followed /\ i \notin DOMAIN stored
  BY DEF CreateMessage
<1>2. DOMAIN stored' \subseteq Id /\ \A j \in DOMAIN stored' : stored'[j] \in Node
  BY <1>1 DEF ListInv, TypeOK
<1>3. UNCHANGED <<cursors, failures, list>> /\ changes' = changes
  BY DEF CreateMessage
<1>4. flaws' = IF n \in followed /\ i <= since
               THEN flaws \cup {"moved"} ELSE flaws
  BY DEF CreateMessage
<1>5. TypeOK'
  BY <1>1, <1>2, <1>3, <1>4 DEF ListInv, TypeOK, cursors, Flaw
<1>6. ASSUME ~(n \in followed /\ i <= since), NEW j \in Id, j <= since
      PROVE  j \in Visible' <=> j \in Visible
  BY <1>1, <1>6 DEF Visible
<1> QED
  BY <1>3, <1>4, <1>5, <1>6, Unmoved

(* A node comes into the roster or leaves it.                              *)
LEMMA RosterChangesStep ==
    ASSUME ListInv, NEW n \in Node, RosterChanges(n)
    PROVE  ListInv'
<1>1. /\ UNCHANGED <<cursors, failures, list>> /\ stored' = stored
      /\ followed' = IF n \in followed THEN followed \ {n} ELSE followed \cup {n}
      /\ changes < MaxChanges /\ changes' = changes + 1
  BY DEF RosterChanges
<1>2. flaws' = IF \E i \in DOMAIN stored : stored[i] = n /\ i <= since
               THEN flaws \cup {"moved"} ELSE flaws
  BY DEF RosterChanges
<1>3. changes' \in 0..MaxChanges
  BY <1>1, FeedAssumption DEF ListInv, TypeOK
<1>4. followed' \subseteq Node
  BY <1>1 DEF ListInv, TypeOK
<1>5. flaws' \subseteq Flaw
  BY <1>2 DEF ListInv, TypeOK, Flaw
<1>6. TypeOK'
  BY <1>1, <1>3, <1>4, <1>5 DEF ListInv, TypeOK, cursors
<1>7. ASSUME ~(\E i \in DOMAIN stored : stored[i] = n /\ i <= since),
             NEW j \in Id, j <= since
      PROVE  j \in Visible' <=> j \in Visible
  BY <1>1, <1>7 DEF Visible
<1> QED
  BY <1>1, <1>2, <1>6, <1>7, Unmoved

-----------------------------------------------------------------------------
(* A log-in that fails leaves an empty list.                               *)
LEMMA LoginFailsStep ==
    ASSUME ListInv, LoginFails
    PROVE  ListInv'
<1>1. /\ page' = 1 /\ UNCHANGED <<serverVars, failures>>
      /\ last' = Nothing /\ since' = Nothing /\ finished' = FALSE
      /\ list' = << >> /\ flaws' = {}
  BY DEF LoginFails, Reset
<1>2. list' \in Seq(Id) /\ ToSet(list') = {} /\ DOMAIN list' = {}
  BY <1>1, EmptySeq DEF ToSet
<1>3. TypeOK'
  <2>1. 1 \in 1..(MaxId + MaxFailures + 2)
    BY FeedAssumption
  <2> QED BY <1>1, <1>2, <2>1 DEF ListInv, TypeOK, serverVars, Flaw
<1>4. PageBound' /\ Cursors'
  BY <1>1, FeedAssumption DEF ListInv, TypeOK, PageBound, Cursors, Nothing
<1>5. EachOnce' /\ NewestFirst'
  BY <1>1, <1>2 DEF EachOnce, NewestFirst, IsInjective
<1>6. Visible' \in SUBSET Id
  BY <1>3 DEF TypeOK, Visible
<1>7. Below' = {} /\ Newer' = {}
  <2>1. \A i \in Visible' : i \in Nat /\ ~(i <= 0)
    BY <1>6 DEF Id
  <2> QED BY <1>1, <2>1 DEF Below, Newer, Nothing
<1>8. Paged' = {}
  BY <1>7 DEF Paged
<1>9. Placed'
  BY <1>2, <1>8 DEF Placed
<1>10. Complete'
  BY <1>1, <1>2, <1>7, <1>8 DEF Complete
<1> QED
  BY <1>3, <1>4, <1>5, <1>9, <1>10 DEF ListInv

(* The first page of a set of messages begins with the newest of them.     *)
LEMMA FirstPageFact ==
    ASSUME NEW S \in SUBSET Id
    PROVE  LET q == Page(S, 0) IN
           /\ q \in Seq(Id) /\ Len(q) \in 0..Count
           /\ Len(q) = Count => Count <= Cardinality(S)
           /\ Len(q) < Count => Cardinality(S) < Count
           /\ ToSet(q) = {i \in S : Rank(i, S) <= Count}
           /\ Cardinality(S) <= Count => ToSet(q) = S
           /\ Descending(q)
           /\ q = << >> => S = {}
           /\ q # << >> => Head(q) \in S /\ \A i \in S : i <= Head(q)
<1> DEFINE n == Cardinality(S)
           q == Page(S, 0)
<1>1. n \in Nat /\ Count \in Nat /\ Count >= 1
  BY IdsFinite, FeedAssumption
<1>2. /\ q \in Seq(Id) /\ Len(q) \in 0..Count
      /\ Len(q) = Count => 0 + Count <= n
      /\ Len(q) < Count => n < 0 + Count
      /\ ToSet(q) = {i \in S : 0 < Rank(i, S) /\ Rank(i, S) <= 0 + Count}
      /\ Descending(q)
      /\ \A x \in ToSet(q) : q[1] >= x
  BY PageFact
<1>3. DOMAIN q = 1..Len(q)
  BY <1>2, LenProperties
<1> HIDE DEF q, n
<1>4. \A i \in S : i \in Nat /\ Rank(i, S) \in 1..n
  <2>1. \A i \in S : i \in Nat
    BY DEF Id
  <2> QED BY <2>1, RankType DEF n
<1>5. ToSet(q) = {i \in S : Rank(i, S) <= Count}
  BY <1>1, <1>2, <1>4
<1>6. n <= Count => ToSet(q) = S
  BY <1>1, <1>4, <1>5
<1>7. ASSUME S # {}
      PROVE  /\ q # << >>
             /\ Head(q) \in S /\ \A i \in S : i <= Head(q)
  <2>1. n >= 1
    BY <1>1, <1>4, <1>7
  <2>2. PICK j \in S : Rank(j, S) = 1
    BY <1>1, <2>1, RankOnto DEF n
  <2>3. ASSUME NEW i \in S PROVE i <= j
    <3>1. Rank(i, S) \in Nat /\ 1 <= Rank(i, S) /\ i \in Nat /\ j \in Nat
      BY <1>4, <1>1
    <3>2. ~(j < i)
      BY <2>2, <3>1, RankOrder
    <3> QED BY <3>1, <3>2
  <2>4. j \in ToSet(q)
    BY <1>1, <1>5, <2>2
  <2>5. q # << >> /\ Len(q) >= 1
    <3>1. PICK k \in 1..Len(q) : q[k] = j
      BY <1>3, <2>4 DEF ToSet
    <3>2. Len(q) \in Nat
      BY <1>1, <1>2
    <3>3. Len(q) >= 1
      BY <3>1, <3>2
    <3> QED BY <3>3, EmptySeq
  <2>6. q[1] \in ToSet(q) /\ q[1] \in S
    <3>1. 1 \in DOMAIN q
      <4>1. Len(q) \in Nat
        BY <1>1, <1>2
      <4> QED BY <1>3, <2>5, <4>1
    <3> QED BY <1>5, <3>1 DEF ToSet
  <2>7. q[1] = j
    BY <1>2, <1>4, <2>3, <2>4, <2>6
  <2>8. Head(q) = q[1]
    BY <1>2, <2>5
  <2> QED BY <2>3, <2>5, <2>7, <2>8
<1>8. ASSUME S = {} PROVE q = << >>
  <2>1. ToSet(q) = {}
    BY <1>5, <1>8
  <2>2. Len(q) \in Nat /\ ~(Len(q) >= 1)
    <3>1. Len(q) \in Nat
      BY <1>1, <1>2
    <3>2. Len(q) >= 1 => q[1] \in ToSet(q)
      BY <1>3, <3>1 DEF ToSet
    <3> QED BY <2>1, <3>1, <3>2
  <2> QED BY <1>2, <2>2, EmptySeq
<1>9. /\ Len(q) = Count => Count <= n
      /\ Len(q) < Count => n < Count
  BY <1>1, <1>2
<1> QED
  BY <1>2, <1>5, <1>6, <1>7, <1>8, <1>9 DEF q, n

(* A log-in shows the first page, and both cursors are its first message.  *)
LEMMA LoginStep ==
    ASSUME ListInv, Login
    PROVE  ListInv'
<1> DEFINE q == Page(Visible, 0)
           n == Cardinality(Visible)
<1>1. Visible \in SUBSET Id
  BY VisibleIds DEF ListInv
<1>2. /\ q \in Seq(Id) /\ Len(q) \in 0..Count
      /\ Len(q) = Count => Count <= n
      /\ Len(q) < Count => n < Count
      /\ ToSet(q) = {i \in Visible : Rank(i, Visible) <= Count}
      /\ Descending(q)
      /\ q = << >> => Visible = {}
      /\ q # << >> => Head(q) \in Visible /\ \A i \in Visible : i <= Head(q)
  BY <1>1, FirstPageFact
<1>3. /\ page' = 1 /\ UNCHANGED <<stored, followed, changes, failures>>
      /\ last' = (IF q = << >> THEN Nothing ELSE Head(q)) /\ since' = last'
      /\ finished' = (Len(q) < Count)
      /\ list' = q /\ flaws' = {}
  BY FirstIsPage DEF Login, Reset, serverVars, ListInv
<1>4. Visible' = Visible
  BY <1>3 DEF Visible
<1>5. n \in Nat /\ n <= MaxId /\ MaxId \in Nat /\ failures \in Nat
  BY <1>1, IdsFinite, FeedAssumption DEF ListInv, TypeOK
<1>6. Count \in Nat /\ Count >= 1 /\ 1 * Count = Count
  BY FeedAssumption
<1>7. \A i \in Visible : i \in Nat /\ i >= 1
  BY <1>1 DEF Id
<1> HIDE DEF q, n
<1>8. IsInjective(q)
  BY <1>2, DescendingInjective
<1>9. last' \in Id \cup {Nothing} /\ (last' = Nothing => Visible = {})
      /\ \A i \in Visible : i <= last'
  BY <1>1, <1>2, <1>3, <1>7 DEF Nothing
<1>10. TypeOK'
  <2>1. 1 \in 1..(MaxId + MaxFailures + 2)
    BY FeedAssumption
  <2> QED BY <1>2, <1>3, <1>9, <2>1 DEF ListInv, TypeOK, Flaw
<1>11. PageBound' /\ Cursors'
  <2>1. last' \in Nat
    BY <1>9 DEF Id, Nothing
  <2>2. PageBound'
    BY <1>3, <1>5 DEF PageBound
  <2> QED BY <1>3, <2>1, <2>2 DEF Cursors
<1>12. EachOnce' /\ NewestFirst'
  BY <1>2, <1>3, <1>8 DEF EachOnce, NewestFirst, Descending
<1>13. Below' = Visible /\ Newer' = {}
  BY <1>3, <1>4, <1>7, <1>9 DEF Below, Newer, Nothing, Id
<1>14. Paged' = ToSet(list')
  BY <1>2, <1>3, <1>6, <1>13 DEF Paged, Rank
<1>15. Placed'
  BY <1>14 DEF Placed
<1>16. Complete'
  <2>1. finished' => n <= Count
    <3>1. finished' => Len(q) < Count
      BY <1>3
    <3>2. finished' => n < Count
      BY <1>2, <3>1
    <3> QED BY <1>5, <1>6, <3>2
  <2>2. Cardinality(Below') = n /\ page' * Count = Count
    BY <1>3, <1>6, <1>13 DEF n
  <2>3. finished' => Cardinality(Below') <= page' * Count
    BY <2>1, <2>2
  <2> QED BY <1>13, <1>14, <2>3 DEF Complete
<1> QED
  BY <1>10, <1>11, <1>12, <1>15, <1>16 DEF ListInv

-----------------------------------------------------------------------------
(* A page that failed is never shown, and the next page is another.        *)
LEMMA GetMoreFailsStep ==
    ASSUME ListInv, GetMoreFails
    PROVE  ListInv'
<1>1. /\ ~finished /\ failures < MaxFailures
      /\ failures' = failures + 1 /\ page' = page + 1
      /\ flaws' = flaws \cup {"skipped"}
      /\ UNCHANGED <<stored, followed, changes, last, since, finished, list>>
  BY DEF GetMoreFails, serverVars
<1>2. /\ page \in Nat /\ page >= 1 /\ failures \in Nat /\ page <= MaxId + failures + 1
      /\ MaxId \in Nat /\ MaxFailures \in Nat
  BY <1>1, FeedAssumption DEF ListInv, TypeOK, PageBound
<1>3. /\ page' \in 1..(MaxId + MaxFailures + 2) /\ failures' \in 0..MaxFailures
      /\ page' <= MaxId + failures' + 1
  BY <1>1, <1>2
<1>4. TypeOK'
  BY <1>1, <1>3 DEF ListInv, TypeOK, Flaw
<1>5. PageBound'
  BY <1>1, <1>3 DEF PageBound
<1>6. Spoiled({"moved", "unanchored", "skipped"})'
  BY <1>1 DEF Spoiled
<1>7. Cursors' /\ Complete'
  BY <1>1, <1>6 DEF ListInv, Cursors, Complete
<1>8. /\ Spoiled({"moved", "unanchored"}) => Spoiled({"moved", "unanchored"})'
      /\ Spoiled({"moved", "unanchored", "reversed"})
            => Spoiled({"moved", "unanchored", "reversed"})'
  BY <1>1 DEF Spoiled
<1>9. EachOnce' /\ NewestFirst'
  BY <1>1, <1>8 DEF ListInv, EachOnce, NewestFirst
<1>10. Below \in SUBSET Id /\ Below' = Below
  BY <1>1, VisibleIds DEF ListInv, Below, Visible
<1>11. page * Count \in Nat /\ page * Count <= page' * Count /\ page' * Count \in Nat
  <2>1. /\ page * Count \in Nat /\ Count \in Nat
        /\ (page + 1) * Count = page * Count + Count
    BY <1>2, PageProduct
  <2>2. page' * Count = page * Count + Count
    BY <1>1, <2>1
  <2> QED BY <2>1, <2>2
<1>12. Paged \subseteq Paged'
  <2>1. \A i \in Below : Rank(i, Below) \in Nat
    BY <1>10, RankType
  <2> QED BY <1>10, <1>11, <2>1 DEF Paged, Rank
<1>13. Placed'
  BY <1>1, <1>8, <1>12 DEF ListInv, Placed
<1> QED
  BY <1>4, <1>5, <1>7, <1>9, <1>13 DEF ListInv

(* The next page goes below all that the list has, and has all the         *)
(* messages that come next.                                                *)
LEMMA GetMoreMessagesStep ==
    ASSUME ListInv, GetMoreMessages
    PROVE  ListInv'
<1> DEFINE q == GetMessages(page + 1, last, Nothing)
           skip == page * Count
           n == Cardinality(Below)
<1>1. /\ ~finished /\ page' = page + 1
      /\ finished' = (Len(q) < Count)
      /\ list' = list \o q
      /\ flaws' = (IF last = Nothing THEN flaws \cup {"unanchored"} ELSE flaws)
      /\ UNCHANGED <<stored, followed, changes, failures, last, since>>
  BY DEF GetMoreMessages, AddMessages, serverVars
<1>2. PICK S \in SUBSET Id : q = Page(S, skip) /\ (last # Nothing => S = Below)
  <2>1. CASE last # Nothing
    BY <2>1, MoreIsPage, VisibleIds DEF ListInv
  <2>2. CASE last = Nothing
    BY <2>2, MoreIsPage DEF ListInv
  <2> QED BY <2>1, <2>2
<1>3. /\ page \in Nat /\ page >= 1 /\ failures \in 0..MaxFailures /\ page <= MaxId + failures + 1
      /\ MaxId \in Nat /\ MaxFailures \in Nat
  BY <1>1, FeedAssumption DEF ListInv, TypeOK, PageBound
<1>4. /\ skip \in Nat /\ page <= skip /\ page' * Count = skip + Count
      /\ Count \in Nat /\ Count >= 1
  BY <1>1, <1>3, PageProduct
<1>5. /\ q \in Seq(Id) /\ Len(q) \in 0..Count
      /\ Len(q) = Count => skip + Count <= Cardinality(S)
      /\ Len(q) < Count => Cardinality(S) < skip + Count
      /\ ToSet(q) = {i \in S : skip < Rank(i, S) /\ Rank(i, S) <= skip + Count}
      /\ Descending(q)
  BY <1>2, <1>4, PageFact
<1>6. Cardinality(S) \in Nat /\ Cardinality(S) <= MaxId
  BY IdsFinite
<1> HIDE DEF q, skip
<1>7. list' \in Seq(Id) /\ finished' \in BOOLEAN /\ flaws' \subseteq Flaw
  BY <1>1, <1>5, ConcatFact DEF ListInv, TypeOK, Flaw
<1>8. ~finished' => page' <= MaxId
  <2>1. ~finished' => Len(q) = Count
    <3>1. ~finished' => ~(Len(q) < Count)
      BY <1>1
    <3> QED BY <1>4, <1>5, <3>1
  <2>2. Len(q) = Count => page + 1 <= MaxId
    BY <1>3, <1>4, <1>5, <1>6
  <2> QED BY <1>1, <2>1, <2>2
<1>9. /\ page' \in 1..(MaxId + MaxFailures + 2)
      /\ page' <= MaxId + failures' + (IF finished' THEN 2 ELSE 1)
  BY <1>1, <1>3, <1>8
<1>10. TypeOK' /\ PageBound'
  BY <1>1, <1>7, <1>9 DEF ListInv, TypeOK, PageBound
<1>11. CASE last = Nothing
  <2>1. Spoiled({"moved", "unanchored"})' /\ Spoiled({"moved", "unanchored", "skipped"})'
        /\ Spoiled({"moved", "unanchored", "reversed"})'
    BY <1>1, <1>11 DEF Spoiled
  <2>2. Cursors'
    BY <1>1, <2>1 DEF ListInv, Cursors
  <2> QED
    BY <1>10, <2>1, <2>2 DEF ListInv, Placed, EachOnce, NewestFirst, Complete
<1>12. CASE last # Nothing
  <2>1. S = Below /\ Below' = Below /\ Newer' = Newer /\ flaws' = flaws
    BY <1>1, <1>2, <1>12 DEF Below, Newer, Visible
  <2>2. Cursors'
    BY <1>1, <1>12 DEF ListInv, Cursors
  <2>3. \A i \in Below : Rank(i, Below) \in Nat /\ i \in Id
    BY <2>1, RankType
  <2>4. Paged' = Paged \cup ToSet(q)
    <3>1. Paged' = {i \in Below : Rank(i, Below) <= skip + Count}
      BY <1>4, <2>1 DEF Paged, Rank
    <3>2. Paged = {i \in Below : Rank(i, Below) <= skip}
      BY DEF Paged, skip
    <3>3. \A i \in Below : Rank(i, Below) <= skip + Count
              <=> (Rank(i, Below) <= skip
                    \/ (skip < Rank(i, Below) /\ Rank(i, Below) <= skip + Count))
      BY <1>4, <2>3
    <3> QED BY <1>5, <2>1, <3>1, <3>2, <3>3
  <2>5. ToSet(list') = ToSet(list) \cup ToSet(q)
    BY <1>1, <1>5, ConcatFact DEF ListInv, TypeOK
  <2>6. Placed'
    BY <1>1, <2>1, <2>4, <2>5 DEF ListInv, Placed, Spoiled
  <2>7. Complete'
    <3>1. finished' => Cardinality(Below) <= page' * Count
      <4>1. finished' => Cardinality(S) < skip + Count
        BY <1>1, <1>5
      <4> QED BY <1>4, <1>6, <2>1, <4>1
    <3> QED BY <1>1, <2>1, <2>4, <2>5, <3>1 DEF ListInv, Complete, Spoiled
  <2>8. ASSUME ~Spoiled({"moved", "unanchored"}), NEW x \in ToSet(list), NEW y \in ToSet(q)
        PROVE  x > y
    <3>1. y \in Below /\ skip < Rank(y, Below) /\ y \in Nat /\ y <= last
      BY <1>5, <2>1 DEF Below, Id
    <3>2. last \in Nat
      BY <1>12 DEF ListInv, TypeOK, Id
    <3>3. (x \in Id /\ x > last) \/ x \in Paged
      BY <2>8 DEF ListInv, Placed
    <3>4. CASE x \in Id /\ x > last
      BY <3>1, <3>2, <3>4 DEF Id
    <3>5. CASE x \in Paged
      <4>1. x \in Below /\ Rank(x, Below) <= skip /\ x \in Nat
        BY <3>5, <2>3 DEF Paged, skip, Id
      <4>2. ~(x < y) /\ x # y
        <5>1. x < y => Rank(y, Below) < Rank(x, Below)
          BY <2>1, <3>1, <4>1, RankOrder
        <5> QED BY <1>4, <2>3, <3>1, <4>1, <5>1
      <4> QED BY <3>1, <4>1, <4>2
    <3> QED BY <3>3, <3>4, <3>5
  <2>9. IsInjective(q)
    BY <1>5, DescendingInjective
  <2>10. EachOnce'
    <3>1. SUFFICES ASSUME ~Spoiled({"moved", "unanchored"}) PROVE IsInjective(list')
      BY <2>1 DEF EachOnce, Spoiled
    <3>2. ToSet(list) \cap ToSet(q) = {}
      <4>1. ASSUME NEW x \in ToSet(list) \cap ToSet(q) PROVE FALSE
        <5>1. x > x
          BY <2>8, <3>1, <4>1
        <5>2. x \in Id
          BY <1>5, <4>1
        <5>3. x \in Nat
          BY <5>2 DEF Id
        <5> QED BY <5>1, <5>3
      <4> QED BY <4>1
    <3>3. IsInjective(list) /\ list \in Seq(Id)
      BY <3>1 DEF ListInv, EachOnce, TypeOK
    <3> QED BY <1>1, <1>5, <2>9, <3>2, <3>3, ConcatFact
  <2>11. NewestFirst'
    <3>1. SUFFICES ASSUME ~Spoiled({"moved", "unanchored", "reversed"})
                   PROVE  Descending(list')
      BY <2>1 DEF NewestFirst, Spoiled, Descending
    <3>2. ~Spoiled({"moved", "unanchored"})
      BY <3>1 DEF Spoiled
    <3>3. Descending(list) /\ list \in Seq(Id)
      BY <3>1 DEF ListInv, NewestFirst, TypeOK, Descending
    <3> QED BY <1>1, <1>5, <2>8, <3>2, <3>3, ConcatFact
  <2> QED
    BY <1>10, <2>2, <2>6, <2>7, <2>10, <2>11 DEF ListInv
<1> QED
  BY <1>11, <1>12

(* A refresh puts what is above the cursor on top, as far as it goes; the  *)
(* first one after a log-in that brought nothing stands in for it.         *)
LEMMA GetNewMessagesStep ==
    ASSUME ListInv, GetNewMessages
    PROVE  ListInv'
<1> DEFINE q == GetMessages(1, Nothing, since)
           newest == Head(q)
<1>1. /\ q # << >> /\ since' = newest
      /\ last' = (IF last = Nothing THEN newest ELSE last)
      /\ finished' = (finished \/ (last = Nothing /\ Len(q) < Count))
      /\ list' = Reverse(q) \o list
      /\ flaws' = flaws
             \cup (IF Len(q) > 1 THEN {"reversed"} ELSE {})
             \cup (IF Cardinality(Fresh) > Count /\ (last # Nothing \/ finished)
                   THEN {"skipped"} ELSE {})
      /\ UNCHANGED <<stored, followed, changes, failures, page>>
  BY DEF GetNewMessages, AddMessages, serverVars, Fresh
<1>2. Fresh \in SUBSET Id /\ q = Page(Fresh, 0)
  BY FreshIsPage DEF ListInv
<1>3. /\ q \in Seq(Id) /\ Len(q) \in 0..Count
      /\ Len(q) < Count => Cardinality(Fresh) < Count
      /\ ToSet(q) = {i \in Fresh : Rank(i, Fresh) <= Count}
      /\ Cardinality(Fresh) <= Count => ToSet(q) = Fresh
      /\ Descending(q)
      /\ newest \in Fresh /\ \A i \in Fresh : i <= newest
  BY <1>1, <1>2, FirstPageFact
<1> HIDE DEF q, newest
<1>4. /\ Cardinality(Fresh) \in Nat /\ Count \in Nat /\ Count >= 1 /\ Len(q) \in Nat
      /\ page \in Nat /\ page >= 1
  <2>1. Count \in Nat /\ Count >= 1
    BY FeedAssumption
  <2>2. page \in Nat /\ page >= 1
    BY FeedAssumption DEF ListInv, TypeOK
  <2> QED BY <1>2, <1>3, <2>1, <2>2, IdsFinite
<1>5. /\ Visible \in SUBSET Id /\ Visible' = Visible
      /\ \A i \in Visible : i \in Nat /\ i >= 1
  BY <1>1, VisibleIds DEF ListInv, Visible, Id
<1>6. /\ last \in Nat /\ since \in Nat /\ last <= since /\ last' \in Nat /\ since' \in Nat
      /\ since < since' /\ last' <= since' /\ last' # Nothing /\ since' # Nothing
  BY <1>1, <1>3, <1>5 DEF ListInv, TypeOK, Cursors, Fresh, Id, Nothing
<1>7. list \in Seq(Id) /\ Reverse(q) \in Seq(Id) /\ ToSet(Reverse(q)) = ToSet(q)
  BY <1>3, ReverseFact DEF ListInv, TypeOK
<1>8. list' \in Seq(Id) /\ ToSet(list') = ToSet(q) \cup ToSet(list)
  BY <1>1, <1>7, ConcatFact
<1>9. TypeOK'
  <2>1. last' \in Id \cup {Nothing} /\ since' \in Id \cup {Nothing}
    BY <1>1, <1>2, <1>3 DEF ListInv, TypeOK
  <2>2. finished' \in BOOLEAN /\ flaws' \subseteq Flaw
    BY <1>1 DEF ListInv, TypeOK, Flaw
  <2> QED BY <1>1, <1>8, <2>1, <2>2 DEF ListInv, TypeOK
<1>10. PageBound' /\ Cursors'
  <2>1. page \in Nat /\ MaxId \in Nat /\ failures \in Nat
    BY FeedAssumption DEF ListInv, TypeOK
  <2>2. ~finished' => ~finished
    BY <1>1
  <2>3. PageBound'
    BY <1>1, <2>1, <2>2 DEF ListInv, PageBound
  <2> QED BY <1>6, <2>3 DEF Cursors
<1>11. /\ Spoiled({"moved", "unanchored"})' = Spoiled({"moved", "unanchored"})
       /\ Spoiled({"moved", "unanchored", "skipped"})
             => Spoiled({"moved", "unanchored", "skipped"})'
       /\ Spoiled({"moved", "unanchored", "reversed"})
             => Spoiled({"moved", "unanchored", "reversed"})'
       /\ Len(q) > 1 => Spoiled({"moved", "unanchored", "reversed"})'
       /\ Cardinality(Fresh) > Count /\ (last # Nothing \/ finished)
             => Spoiled({"moved", "unanchored", "skipped"})'
  BY <1>1 DEF Spoiled
<1>12. \A i \in ToSet(q) : i \in Fresh /\ i \in Nat /\ i \in Id /\ since < i /\ i <= since'
  BY <1>1, <1>2, <1>3, <1>5 DEF Fresh
<1>13. ASSUME ~Spoiled({"moved", "unanchored"}), NEW x \in ToSet(list)
       PROVE  x \in Nat /\ x <= since
  <2>1. (x \in Id /\ x <= since) \/ x \in Paged
    BY <1>13 DEF ListInv, Placed
  <2>2. CASE x \in Id /\ x <= since
    BY <2>2 DEF Id
  <2>3. CASE x \in Paged
    <3>1. x \in Visible /\ x <= last
      BY <2>3 DEF Paged, Below
    <3> QED BY <1>5, <1>6, <3>1
  <2> QED BY <2>1, <2>2, <2>3
<1>14. EachOnce'
  <2>1. SUFFICES ASSUME ~Spoiled({"moved", "unanchored"}) PROVE IsInjective(list')
    BY <1>11 DEF EachOnce
  <2>2. IsInjective(list) /\ IsInjective(Reverse(q))
    BY <1>3, <2>1, DescendingInjective, ReverseFact DEF ListInv, EachOnce
  <2>3. ToSet(Reverse(q)) \cap ToSet(list) = {}
    BY <1>6, <1>7, <1>12, <1>13, <2>1
  <2> QED BY <1>1, <1>7, <2>2, <2>3, ConcatFact
<1>15. NewestFirst'
  <2>1. SUFFICES ASSUME ~Spoiled({"moved", "unanchored", "reversed"})'
                 PROVE  Descending(list')
    BY DEF NewestFirst, Descending
  <2>2. /\ ~Spoiled({"moved", "unanchored", "reversed"})
        /\ ~Spoiled({"moved", "unanchored"})
    BY <1>11, <2>1 DEF Spoiled
  <2>3. Descending(list)
    BY <2>2 DEF ListInv, NewestFirst, Descending
  <2>4. Descending(Reverse(q))
    BY <1>3, <1>4, <1>11, <2>1, ReverseFact
  <2>5. \A x \in ToSet(Reverse(q)), y \in ToSet(list) : x > y
    BY <1>6, <1>7, <1>12, <1>13, <2>2
  <2> QED BY <1>1, <1>7, <2>3, <2>4, <2>5, ConcatFact
<1>16. CASE last # Nothing
  <2>1. Below' = Below /\ Paged' = Paged /\ last' = last
    BY <1>1, <1>5, <1>16 DEF Below, Paged, Rank
  <2>2. Placed'
    <3>1. SUFFICES ASSUME ~Spoiled({"moved", "unanchored"}), NEW x \in ToSet(list')
                   PROVE  (x \in Id /\ x > last /\ x <= since') \/ x \in Paged
      BY <1>11, <2>1 DEF Placed
    <3>2. CASE x \in ToSet(q)
      BY <1>6, <1>12, <3>2
    <3>3. CASE x \in ToSet(list)
      BY <1>6, <1>13, <3>1, <3>3 DEF ListInv, Placed
    <3> QED BY <1>8, <3>1, <3>2, <3>3
  <2>3. Complete'
    <3>1. SUFFICES ASSUME ~Spoiled({"moved", "unanchored", "skipped"})'
                   PROVE  /\ ToSet(list') = Newer' \cup Paged'
                          /\ finished' => Cardinality(Below') <= page' * Count
      BY DEF Complete
    <3>2. ~Spoiled({"moved", "unanchored", "skipped"})
      BY <1>11, <3>1
    <3>3. /\ ToSet(list) = Newer \cup Paged
          /\ finished => Cardinality(Below) <= page * Count
      BY <3>2 DEF ListInv, Complete
    <3>4. ToSet(q) = Fresh
      BY <1>3, <1>4, <1>11, <1>16, <3>1
    <3>5. Newer' = Newer \cup Fresh
      <4>1. \A i \in Visible : (last < i /\ i <= since')
                <=> (last < i /\ i <= since) \/ i > since
        BY <1>1, <1>3, <1>5, <1>6 DEF Fresh
      <4> QED BY <1>5, <2>1, <4>1 DEF Newer, Fresh
    <3>6. finished' => finished
      BY <1>1, <1>16
    <3> QED BY <1>1, <1>8, <2>1, <3>3, <3>4, <3>5, <3>6
  <2> QED
    BY <1>9, <1>10, <1>14, <1>15, <2>2, <2>3 DEF ListInv
<1>17. CASE last = Nothing
  <2>1. since = Nothing /\ Fresh = Visible /\ last' = newest
    BY <1>1, <1>5, <1>17 DEF ListInv, Cursors, Fresh, Nothing
  <2>2. Below' = Visible /\ Newer' = {}
    <3>1. \A i \in Visible : i <= last' /\ i \in Nat
      BY <1>3, <1>5, <2>1
    <3>2. last' = since'
      BY <1>1, <2>1
    <3>3. \A i \in Visible : ~(last' < i /\ i <= since')
      BY <1>6, <3>1, <3>2
    <3> QED BY <1>5, <3>1, <3>3 DEF Below, Newer
  <2>3. ~Spoiled({"moved", "unanchored"}) => ToSet(list) = {}
    <3>1. Below = {}
      BY <1>5, <1>17 DEF Below, Nothing
    <3>2. Paged = {}
      BY <3>1 DEF Paged
    <3>3. {x \in Id : x > last /\ x <= since} = {}
      BY <1>6, <1>17, <2>1 DEF Id, Nothing
    <3> QED BY <3>2, <3>3 DEF ListInv, Placed
  <2>4. Count <= page * Count /\ page * Count \in Nat
    <3>1. PICK k \in Nat : page = k + 1
      <4>1. page - 1 \in Nat /\ page = (page - 1) + 1
        BY <1>4
      <4> QED BY <4>1
    <3>2. k * Count \in Nat /\ (k + 1) * Count = k * Count + Count
      BY PageProduct
    <3> QED BY <1>4, <3>1, <3>2
  <2>5. \A i \in Visible : Rank(i, Visible) \in Nat
    BY <1>5, RankType
  <2>6. Paged' = {i \in Visible : Rank(i, Visible) <= page * Count}
    BY <1>1, <2>2 DEF Paged, Rank
  <2>7. ToSet(q) \subseteq Paged'
    BY <1>3, <1>4, <2>1, <2>4, <2>5, <2>6
  <2>8. Placed'
    BY <1>8, <1>11, <2>3, <2>7 DEF Placed
  <2>9. Complete'
    <3>1. SUFFICES ASSUME ~Spoiled({"moved", "unanchored", "skipped"})'
                   PROVE  /\ ToSet(list') = Newer' \cup Paged'
                          /\ finished' => Cardinality(Below') <= page' * Count
      BY DEF Complete
    <3>2. /\ ~Spoiled({"moved", "unanchored", "skipped"})
          /\ ~Spoiled({"moved", "unanchored"})
      BY <1>11, <3>1 DEF Spoiled
    <3>3. page = 1 /\ page * Count = Count
      BY <1>4, <1>17, <3>2 DEF ListInv, Cursors
    <3>4. Paged' = ToSet(q)
      BY <1>3, <2>1, <2>6, <3>3
    <3>5. finished' => Cardinality(Visible) <= Count
      <4>1. finished => Cardinality(Visible) <= Count
        BY <1>4, <1>11, <2>1, <3>1
      <4>2. Len(q) < Count => Cardinality(Visible) <= Count
        BY <1>3, <1>4, <2>1
      <4> QED BY <1>1, <4>1, <4>2
    <3> QED BY <1>1, <1>8, <2>2, <2>3, <3>2, <3>3, <3>4, <3>5
  <2> QED
    BY <1>9, <1>10, <1>14, <1>15, <2>8, <2>9 DEF ListInv
<1> QED
  BY <1>16, <1>17

-----------------------------------------------------------------------------
(* The invariant of the list holds at the start and through every step.    *)
LEMMA InitListInv == Init => ListInv
<1> SUFFICES ASSUME Init PROVE ListInv
  OBVIOUS
<1>1. list = << >> /\ last = Nothing /\ since = Nothing /\ page = 1 /\ finished = FALSE
      /\ flaws = {} /\ stored = << >> /\ failures = 0 /\ changes = 0 /\ followed \subseteq Node
  BY DEF Init
<1>2. list \in Seq(Id) /\ DOMAIN list = {} /\ ToSet(list) = {} /\ DOMAIN stored = {}
  BY <1>1, EmptySeq DEF ToSet
<1>3. TypeOK
  <2>1. 1 \in 1..(MaxId + MaxFailures + 2) /\ 0 \in 0..MaxChanges /\ 0 \in 0..MaxFailures
    BY FeedAssumption
  <2> QED BY <1>1, <1>2, <2>1 DEF TypeOK, Flaw
<1>4. PageBound /\ Cursors
  BY <1>1, FeedAssumption DEF PageBound, Cursors, Nothing
<1>5. EachOnce /\ NewestFirst
  BY <1>1, <1>2 DEF EachOnce, NewestFirst, IsInjective
<1>6. Below = {} /\ Newer = {} /\ Paged = {}
  BY <1>2 DEF Below, Newer, Paged, Visible
<1> QED
  BY <1>1, <1>2, <1>3, <1>4, <1>5, <1>6 DEF ListInv, Placed, Complete

(* Every step, of the client or of the others, keeps the invariant of the  *)
(* list.                                                                   *)
LEMMA StepListInv == ListInv /\ [Next]_feedVars => ListInv'
<1> SUFFICES ASSUME ListInv, [Next]_feedVars PROVE ListInv'
  OBVIOUS
<1>1. CASE UNCHANGED feedVars
  <2>1. TypeOK' /\ UNCHANGED <<cursors, failures, list>> /\ flaws' = flaws /\ Visible' = Visible
    BY <1>1 DEF feedVars, serverVars, cursors, ListInv, TypeOK, Visible
  <2> QED BY <2>1, Unmoved
<1> QED
  BY <1>1, CreateMessageStep, RosterChangesStep, LoginStep, LoginFailsStep,
     GetMoreMessagesStep, GetMoreFailsStep, GetNewMessagesStep DEF Next

(* The list keeps its invariant.                                           *)
THEOREM ListInvariance == Spec => []ListInv
<1> QED BY InitListInv, StepListInv, PTL DEF Spec

(* No message is in the list twice, however refreshes, pages and failed    *)
(* requests alternate, for any number of messages and any page size.       *)
THEOREM ListHasEachOnce == Spec => []EachOnce
<1>1. ListInv => EachOnce
  BY DEF ListInv
<1> QED BY <1>1, ListInvariance, PTL

(* The newest message comes first.                                         *)
THEOREM ListNewestFirst == Spec => []NewestFirst
<1>1. ListInv => NewestFirst
  BY DEF ListInv
<1> QED BY <1>1, ListInvariance, PTL

(* All that was asked for is all there is when the pages have ended.       *)
LEMMA ListInvComplete == ListInv => NothingMissed
<1> SUFFICES ASSUME ListInv, ~Spoiled({"moved", "unanchored", "skipped"}), finished
             PROVE  ToSet(list) = {i \in Visible : i <= since}
  BY DEF NothingMissed
<1>1. ToSet(list) = Newer \cup Paged /\ Cardinality(Below) <= page * Count
  BY DEF ListInv, Complete
<1>2. Below \in SUBSET Id /\ Visible \in SUBSET Id
  BY VisibleIds DEF ListInv
<1>3. page * Count \in Nat /\ Cardinality(Below) \in Nat
  <2>1. page \in Nat
    BY FeedAssumption DEF ListInv, TypeOK
  <2> QED BY <1>2, <2>1, PageProduct, IdsFinite
<1>4. Paged = Below
  <2>1. \A i \in Below : Rank(i, Below) \in 1..Cardinality(Below)
    BY <1>2, RankType
  <2>2. \A i \in Below : Rank(i, Below) <= page * Count
    BY <1>1, <1>3, <2>1
  <2> QED BY <2>2 DEF Paged
<1>5. last \in Nat /\ since \in Nat /\ last <= since /\ \A i \in Visible : i \in Nat
  BY <1>2 DEF ListInv, TypeOK, Cursors, Id, Nothing
<1>6. Newer \cup Below = {i \in Visible : i <= since}
  BY <1>5 DEF Newer, Below
<1> QED
  BY <1>1, <1>4, <1>6

(* When there are no more pages, the list has every visible message up to  *)
(* the cursor.                                                             *)
THEOREM ListMissesNothing == Spec => []NothingMissed
<1> QED BY ListInvComplete, ListInvariance, PTL

-----------------------------------------------------------------------------
(* The home page.                                                          *)

(* Nobody has looked at the home page yet.                                 *)
LEMMA InitHomeInv == HomeInit => HomeInv
<1> SUFFICES ASSUME HomeInit PROVE HomeInv
  OBVIOUS
<1>1. /\ reading = NotReading /\ at = 0 /\ full = FALSE
      /\ seen = {} /\ due = {} /\ shrunk = FALSE
  BY DEF HomeInit
<1>2. /\ 0 \in 0..(MaxId + 1) /\ << >> \in Seq(Id) /\ ToSet(<< >>) = {}
      /\ NotReading.step = "none" /\ NotReading.nodes = {} /\ NotReading.page = 0
      /\ NotReading.messages = << >> /\ Len(<< >>) <= Count
      /\ NotReading \in [page : 0..(MaxId + 1), step : {"none", "messages", "charts"},
                         nodes : SUBSET Node, messages : Seq(Id)]
  <2>1. /\ 0 \in 0..(MaxId + 1) /\ << >> \in Seq(Id) /\ ToSet(<< >>) = {}
        /\ Len(<< >>) <= Count
    BY FeedAssumption, EmptySeq DEF ToSet
  <2> QED BY <2>1 DEF NotReading
<1>3. HomeTypeOK /\ Walk
  BY <1>1, <1>2 DEF HomeTypeOK, Walk
<1>4. Unseen /\ Making
  BY <1>1, <1>2 DEF Unseen, Making
<1> QED
  BY <1>3, <1>4 DEF HomeInv

(* What no page has shown, when messages or nodes are added.               *)
LEMMA BehindGrows ==
    ASSUME NEW T \in SUBSET Id, NEW S \in SUBSET T, NEW n \in Nat,
           NEW d \in S, Rank(d, S) > n * Count
    PROVE  Rank(d, T) > n * Count
<1>1. S \in SUBSET Id /\ d \in T /\ n * Count \in Nat
  BY PageProduct
<1>2. Rank(d, S) <= Rank(d, T)
  BY RankGrows
<1>3. Rank(d, S) \in 1..Cardinality(S) /\ Rank(d, T) \in 1..Cardinality(T)
  BY <1>1, RankType
<1> QED
  BY <1>1, <1>2, <1>3

(* The same of a message that is stored, for what is stored next.          *)
LEMMA StaysBehind ==
    ASSUME TypeOK, TypeOK', NEW nodes, NEW more, nodes \subseteq more,
           NEW n \in Nat, NEW d, Behind(d, nodes, n),
           \A i \in DOMAIN stored : i \in DOMAIN stored' /\ stored'[i] = stored[i]
    PROVE  LET now == {i \in DOMAIN stored' : stored'[i] \in more}
           IN  d \in now /\ Rank(d, now) > n * Count
<1> DEFINE now == {i \in DOMAIN stored' : stored'[i] \in more}
<1>1. now \in SUBSET Id
  BY DEF TypeOK
<1>2. Found(nodes) \in SUBSET now
  BY DEF Found
<1>3. d \in Found(nodes) /\ Rank(d, Found(nodes)) > n * Count
  BY DEF Behind
<1> HIDE DEF now
<1>4. Rank(d, now) > n * Count
  BY <1>1, <1>2, <1>3, BehindGrows
<1> QED
  BY <1>2, <1>3, <1>4 DEF now

(* The same for the roster of now, when the page is made with an older.    *)
LEMMA BehindMore ==
    ASSUME TypeOK, NEW nodes, nodes \subseteq followed,
           NEW n \in Nat, NEW d, Behind(d, nodes, n)
    PROVE  Behind(d, followed, n)
<1>1. Found(followed) \in SUBSET Id /\ Found(nodes) \in SUBSET Found(followed)
  BY DEF TypeOK, Found
<1> QED
  BY <1>1, BehindGrows DEF Behind

(* The nodes are read: a page that is not the first is linked from one the *)
(* visitor is on.                                                          *)
LEMMA HomeNodesStep ==
    ASSUME TypeOK, HomeInv, NEW p \in 1..(MaxId + 1), HomeNodes(p)
    PROVE  HomeInv'
<1>1. /\ reading = NotReading /\ Linked(p)
      /\ reading' = [page |-> p, step |-> "messages", nodes |-> followed,
                     messages |-> << >>]
      /\ stored' = stored /\ followed' = followed
  BY DEF HomeNodes, feedVars, serverVars
<1>2. /\ reading'.page = p /\ reading'.step = "messages"
      /\ reading'.nodes = followed /\ reading'.messages = << >>
  BY <1>1
<1>3. reading' # NotReading
  BY <1>2 DEF NotReading
<1>4. << >> \in Seq(Id) /\ Len(<< >>) <= Count /\ followed \subseteq Node
      /\ p \in 0..(MaxId + 1) /\ at \in Nat
  BY EmptySeq, FeedAssumption DEF TypeOK, HomeInv, HomeTypeOK
<1>5. reading' \in [page : 0..(MaxId + 1), step : {"none", "messages", "charts"},
                    nodes : SUBSET Node, messages : Seq(Id)]
  BY <1>1, <1>4
<1>6. CASE p = 1
  <2>1. at' = 0 /\ full' = FALSE /\ seen' = {} /\ due' = {} /\ shrunk' = FALSE
    BY <1>6 DEF HomeNodes
  <2>2. 0 \in 0..(MaxId + 1)
    BY FeedAssumption
  <2>3. HomeTypeOK' /\ Walk'
    BY <1>2, <1>3, <1>4, <1>5, <1>6, <2>1, <2>2 DEF HomeTypeOK, Walk
  <2>4. Unseen' /\ Making'
    BY <1>1, <1>2, <1>6, <2>1 DEF Unseen, Making
  <2> QED BY <2>3, <2>4 DEF HomeInv
<1>7. CASE p # 1
  <2>1. UNCHANGED <<at, full, seen, due, shrunk>>
    BY <1>7 DEF HomeNodes
  <2>2. at > 0 /\ p \in {at - 1, at + 1} /\ p > 1
    BY <1>1, <1>4, <1>7 DEF Linked
  <2>3. HomeTypeOK' /\ Walk'
    BY <1>2, <1>3, <1>4, <1>5, <2>1, <2>2 DEF HomeInv, HomeTypeOK, Walk
  <2>4. ASSUME Unseen PROVE Unseen' /\ Making'
    BY <1>1, <1>2, <1>7, <2>1, <2>4 DEF Unseen, Making, Behind, Found, Rank
  <2> QED BY <2>1, <2>3, <2>4 DEF HomeInv
<1> QED
  BY <1>6, <1>7

(* The messages are read: the page has all that was not seen and that is   *)
(* not behind it.                                                          *)
LEMMA HomeMessagesStep ==
    ASSUME TypeOK, HomeInv, HomeMessages
    PROVE  HomeInv'
<1> DEFINE found == Found(reading.nodes)
           skip == Skip(reading.page)
           q == Page(found, skip)
<1>1. /\ reading.step = "messages"
      /\ reading' = [reading EXCEPT !.step = "charts", !.messages = q]
      /\ due' = (IF reading.page = 1 THEN found ELSE due)
      /\ UNCHANGED <<stored, followed, at, full, seen, shrunk>>
  BY DEF HomeMessages, Found, feedVars, serverVars
<1>2. /\ reading \in [page : 0..(MaxId + 1), step : {"none", "messages", "charts"},
                       nodes : SUBSET Node, messages : Seq(Id)]
      /\ at \in Nat /\ seen \subseteq Id /\ due \subseteq Id
      /\ reading # NotReading
  BY <1>1, FeedAssumption DEF HomeInv, HomeTypeOK, Walk, NotReading
<1>3. /\ reading.page \in 0..(MaxId + 1)
      /\ \/ reading.page = 1 /\ at = 0 /\ seen = {}
         \/ at > 0 /\ reading.page \in {at - 1, at + 1} /\ reading.page > 1
  BY <1>2 DEF HomeInv, Walk
<1>4. PICK k \in Nat : reading.page = k + 1
  <2>1. reading.page - 1 \in Nat /\ reading.page = (reading.page - 1) + 1
    BY <1>3
  <2> QED BY <2>1
<1>5. skip = k * Count /\ reading.page * Count = skip + Count
      /\ skip \in Nat /\ Count \in Nat /\ Count >= 1
  <2>1. (k + 1) - 1 = k
    BY <1>4
  <2> QED BY <1>4, <2>1, PageProduct DEF Skip
<1>6. found \in SUBSET Id /\ Cardinality(found) \in Nat
  <2>1. found \in SUBSET Id
    BY DEF Found, TypeOK
  <2> QED BY <2>1, IdsFinite
<1>7. /\ q \in Seq(Id) /\ Len(q) \in 0..Count
      /\ Len(q) < Count => Cardinality(found) < skip + Count
      /\ ToSet(q) = {i \in found : skip < Rank(i, found) /\ Rank(i, found) <= skip + Count}
  BY <1>5, <1>6, PageFact
<1>8. \A i \in found : Rank(i, found) \in 1..Cardinality(found)
  BY <1>6, RankType
<1> HIDE DEF found, skip, q
<1>9. /\ reading'.page = reading.page /\ reading'.step = "charts"
      /\ reading'.nodes = reading.nodes /\ reading'.messages = q
      /\ reading' \in [page : 0..(MaxId + 1), step : {"none", "messages", "charts"},
                        nodes : SUBSET Node, messages : Seq(Id)]
  BY <1>1, <1>2, <1>7
<1>10. reading' # NotReading
  BY <1>9 DEF NotReading
<1>11. Len(q) <= Count
  BY <1>5, <1>7
<1>12. HomeTypeOK' /\ Walk'
  BY <1>1, <1>2, <1>3, <1>6, <1>9, <1>10, <1>11 DEF HomeInv, HomeTypeOK, Walk
<1>13. ASSUME Unseen, Making PROVE Unseen' /\ Making'
  <2>1. ASSUME NEW d \in due' \ seen
        PROVE  d \in found /\ Rank(d, found) > skip /\ Behind(d, followed, at)'
    <3>1. CASE reading.page = 1
      <4>1. d \in found /\ Rank(d, found) \in 1..Cardinality(found) /\ at = 0 /\ k = 0
        BY <1>1, <1>3, <1>4, <1>8, <2>1, <3>1
      <4>2. skip = 0 /\ Rank(d, found) > 0
        BY <1>5, <1>6, <4>1
      <4>3. Behind(d, reading.nodes, at)
        BY <1>5, <4>1, <4>2 DEF Behind, found
      <4>4. Behind(d, followed, at)
        BY <1>2, <1>13, <4>3, BehindMore DEF Making
      <4> QED BY <1>1, <4>1, <4>2, <4>4 DEF Behind, Found, Rank
    <3>2. CASE reading.page # 1
      <4>1. /\ d \in due \ seen /\ at > 0
            /\ reading.page \in {at - 1, at + 1}
        BY <1>1, <1>3, <2>1, <3>2
      <4>2. Behind(d, reading.nodes, at) /\ Behind(d, followed, at)
        BY <1>1, <1>13, <3>2, <4>1 DEF Making, Unseen
      <4>3. at * Count >= skip /\ at * Count \in Nat
        <5>1. at = k \/ at = (k + 1) + 1
          BY <1>2, <1>4, <4>1
        <5>2. /\ k + 1 \in Nat
              /\ ((k + 1) + 1) * Count = (k + 1) * Count + Count
              /\ (k + 1) * Count = skip + Count
          BY <1>4, <1>5, PageProduct
        <5>3. at * Count = skip \/ at * Count = (skip + Count) + Count
          BY <1>5, <5>1, <5>2
        <5> QED BY <1>5, <5>3
      <4>4. d \in found /\ Rank(d, found) > at * Count
        BY <4>2 DEF Behind, found
      <4>5. Rank(d, found) > skip
        BY <1>5, <1>6, <1>8, <4>3, <4>4
      <4> QED BY <1>1, <4>2, <4>4, <4>5 DEF Behind, Found, Rank
    <3> QED BY <3>1, <3>2
  <2>2. ASSUME NEW d \in due' \ (seen \cup ToSet(q))
        PROVE  Behind(d, reading.nodes, reading.page)
    <3>1. d \in found /\ Rank(d, found) > skip /\ d \notin ToSet(q)
      BY <2>1, <2>2
    <3>2. Rank(d, found) > skip + Count
      BY <1>5, <1>6, <1>7, <1>8, <3>1
    <3> QED BY <1>5, <3>1, <3>2 DEF Behind, found
  <2>3. ASSUME Len(q) < Count, NEW d \in due', d \notin seen, d \notin ToSet(q)
        PROVE  FALSE
    <3>1. d \in found /\ Rank(d, found) > skip
      BY <2>1, <2>3
    <3>2. Rank(d, found) <= skip + Count
      BY <1>5, <1>6, <1>7, <1>8, <2>3, <3>1
    <3> QED BY <1>7, <2>3, <3>1, <3>2
  <2>4. Making'
    <3>1. \A d \in due' \ (seen \cup ToSet(q)) :
             Behind(d, reading.nodes, reading.page)'
      BY <1>1, <1>9, <2>2 DEF Behind, Found, Rank
    <3>2. Len(q) < Count => due' \subseteq seen \cup ToSet(q)
      BY <2>3
    <3> QED BY <1>1, <1>9, <1>13, <3>1, <3>2 DEF Making
  <2>5. Unseen'
    <3>1. at > 0 /\ ~full => due' = due
      BY <1>1, <1>3
    <3> QED BY <1>1, <1>13, <2>1, <3>1 DEF Unseen
  <2> QED BY <2>4, <2>5
<1> QED
  BY <1>1, <1>12, <1>13 DEF HomeInv

(* The page is shown.                                                      *)
LEMMA FillChartStep ==
    ASSUME TypeOK, HomeInv, FillChart
    PROVE  HomeInv'
<1> DEFINE q == reading.messages
<1>1. /\ reading.step = "charts"
      /\ reading' = NotReading /\ at' = reading.page
      /\ full' = (Len(q) = Count)
      /\ seen' = seen \cup ToSet(q)
      /\ UNCHANGED <<stored, followed, due, shrunk>>
  BY DEF FillChart, feedVars, serverVars
<1>2. /\ reading.page \in 0..(MaxId + 1) /\ q \in Seq(Id) /\ Len(q) <= Count
      /\ Len(q) \in Nat /\ Count \in Nat /\ reading.page \in Nat
  <2>1. reading.page \in 0..(MaxId + 1) /\ q \in Seq(Id) /\ Len(q) <= Count
    BY DEF HomeInv, Walk
  <2> QED BY <2>1, LenProperties, FeedAssumption
<1>3. ToSet(q) \subseteq Id
  BY <1>2, LenProperties DEF ToSet
<1>4. /\ NotReading.page = 0 /\ NotReading.step = "none" /\ NotReading.nodes = {}
      /\ NotReading.messages = << >> /\ << >> \in Seq(Id) /\ Len(<< >>) <= Count
      /\ 0 \in 0..(MaxId + 1)
  BY EmptySeq, FeedAssumption DEF NotReading
<1>5. NotReading \in [page : 0..(MaxId + 1), step : {"none", "messages", "charts"},
                     nodes : SUBSET Node, messages : Seq(Id)]
  BY <1>4 DEF NotReading
<1> HIDE DEF q
<1>6. HomeTypeOK' /\ Walk'
  BY <1>1, <1>2, <1>3, <1>4, <1>5 DEF HomeInv, HomeTypeOK, Walk
<1>7. ASSUME Unseen, Making PROVE Unseen' /\ Making'
  <2>1. Making'
    BY <1>1, <1>4 DEF Making
  <2>2. ~full' => due' \subseteq seen'
    <3>1. ~full' => Len(q) # Count
      BY <1>1
    <3>2. ~full' => Len(q) < Count
      BY <1>2, <3>1
    <3> QED BY <1>1, <1>7, <3>2 DEF Making, q
  <2>3. ASSUME NEW d \in due' \ seen'
        PROVE  Behind(d, followed, reading.page)
    <3>1. Behind(d, reading.nodes, reading.page)
      BY <1>1, <1>7, <2>3 DEF Making, q
    <3> QED BY <1>2, <1>7, <3>1, BehindMore DEF Making
  <2> QED BY <1>1, <2>1, <2>2, <2>3 DEF Unseen, Behind, Found, Rank
<1> QED
  BY <1>1, <1>6, <1>7 DEF HomeInv

(* A page that fails changes nothing of what the visitor saw.              *)
LEMMA HomeFailsStep ==
    ASSUME TypeOK, HomeInv, HomeFails
    PROVE  HomeInv'
<1>1. /\ reading' = NotReading
      /\ UNCHANGED <<stored, followed, at, full, seen, due, shrunk>>
  BY DEF HomeFails, feedVars, serverVars
<1>2. /\ NotReading.page = 0 /\ NotReading.step = "none" /\ NotReading.nodes = {}
      /\ NotReading.messages = << >> /\ << >> \in Seq(Id) /\ Len(<< >>) <= Count
      /\ 0 \in 0..(MaxId + 1)
  BY EmptySeq, FeedAssumption DEF NotReading
<1>3. NotReading \in [page : 0..(MaxId + 1), step : {"none", "messages", "charts"},
                     nodes : SUBSET Node, messages : Seq(Id)]
  BY <1>2 DEF NotReading
<1>4. HomeTypeOK' /\ Walk'
  BY <1>1, <1>2, <1>3 DEF HomeInv, HomeTypeOK, Walk
<1>5. ASSUME Unseen PROVE Unseen' /\ Making'
  BY <1>1, <1>2, <1>5 DEF Unseen, Making, Behind, Found, Rank
<1> QED
  BY <1>1, <1>4, <1>5 DEF HomeInv

(* Messages that arrive and nodes that are added leave what was behind the *)
(* page there; when a node goes the walk is marked.                        *)
LEMMA ElsewhereStep ==
    ASSUME TypeOK, TypeOK', HomeInv, Elsewhere
    PROVE  HomeInv'
<1>1. /\ shrunk' = (shrunk \/ ~(followed \subseteq followed'))
      /\ UNCHANGED <<reading, at, full, seen, due>>
  BY DEF Elsewhere
<1>2. \A i \in DOMAIN stored : i \in DOMAIN stored' /\ stored'[i] = stored[i]
  BY DEF Elsewhere, CreateMessage, RosterChanges
<1>3. HomeTypeOK' /\ Walk'
  BY <1>1 DEF HomeInv, HomeTypeOK, Walk
<1>4. at \in Nat /\ reading.page \in Nat
  BY FeedAssumption DEF HomeInv, HomeTypeOK
<1>5. ASSUME Unseen, Making, followed \subseteq followed'
      PROVE  Unseen' /\ Making'
  <2>1. ASSUME NEW d, Behind(d, followed, at) PROVE Behind(d, followed, at)'
    BY <1>1, <1>2, <1>4, <1>5, <2>1, StaysBehind DEF Behind, Found
  <2>2. ASSUME NEW d, NEW n \in Nat, Behind(d, reading.nodes, n)
        PROVE  Behind(d, reading.nodes, n)'
    BY <1>1, <1>2, <2>2, StaysBehind DEF Behind, Found
  <2>3. Unseen'
    BY <1>1, <1>5, <2>1 DEF Unseen
  <2>4. Making'
    BY <1>1, <1>4, <1>5, <2>2 DEF Making
  <2> QED BY <2>3, <2>4
<1>6. shrunk' \in BOOLEAN
  BY <1>3 DEF HomeTypeOK
<1>7. ~shrunk' => ~shrunk /\ followed \subseteq followed'
  BY <1>1
<1> QED
  BY <1>3, <1>5, <1>7 DEF HomeInv

(* Every step keeps the invariant of the home page.                        *)
LEMMA StepHomeInv ==
    TypeOK /\ TypeOK' /\ HomeInv /\ [HomeNext]_<<feedVars, homeVars>> => HomeInv'
<1> SUFFICES ASSUME TypeOK, TypeOK', HomeInv, [HomeNext]_<<feedVars, homeVars>>
             PROVE  HomeInv'
  OBVIOUS
<1>1. CASE UNCHANGED <<feedVars, homeVars>>
  <2>1. UNCHANGED <<stored, followed, reading, at, full, seen, due, shrunk>>
    BY <1>1 DEF feedVars, serverVars, homeVars
  <2>2. HomeTypeOK' /\ Walk'
    BY <2>1 DEF HomeInv, HomeTypeOK, Walk
  <2>3. Unseen => Unseen'
    BY <2>1 DEF Unseen, Behind, Found, Rank
  <2>4. Making => Making'
    BY <2>1 DEF Making, Behind, Found, Rank
  <2> QED BY <2>1, <2>2, <2>3, <2>4 DEF HomeInv
<1> QED
  BY <1>1, HomeNodesStep, HomeMessagesStep, FillChartStep, HomeFailsStep,
     ElsewhereStep DEF HomeNext

(* What the web site does is, for the list of a device, nothing but        *)
(* messages that arrive and rosters that change.                           *)
LEMMA HomeStepOfFeed == HomeNext => [Next]_feedVars
  BY DEF HomeNext, HomeNodes, HomeMessages, FillChart, HomeFails, Elsewhere, Next

(* The last page leaves nothing unseen.                                    *)
LEMMA HomeInvComplete == HomeInv => PagesMissNothing
  BY DEF HomeInv, Unseen, PagesMissNothing

(* The invariant of the home page, with the types of the messages and the  *)
(* roster.                                                                 *)
THEOREM HomeInvariance == HomeSpec => [](ListInv /\ HomeInv)
<1>1. Init /\ HomeInit => ListInv /\ HomeInv
  BY InitListInv, InitHomeInv
<1>2. ListInv /\ HomeInv /\ [HomeNext]_<<feedVars, homeVars>> => (ListInv /\ HomeInv)'
  <2> SUFFICES ASSUME ListInv, HomeInv, [HomeNext]_<<feedVars, homeVars>>
               PROVE  ListInv' /\ HomeInv'
    OBVIOUS
  <2>1. [Next]_feedVars
    BY HomeStepOfFeed DEF feedVars
  <2>2. ListInv'
    BY <2>1, StepListInv
  <2>3. TypeOK /\ TypeOK'
    BY <2>2 DEF ListInv
  <2> QED BY <2>2, <2>3, StepHomeInv
<1> QED
  BY <1>1, <1>2, PTL DEF HomeSpec

(* Who walks to the last page has seen every message there was at the      *)
(* start, for any number of arrivals and nodes and any page size.          *)
THEOREM HomeMissesNothing == HomeSpec => []PagesMissNothing
<1> QED BY HomeInvComplete, HomeInvariance, PTL

-----------------------------------------------------------------------------
(* The site: the list, the home page and the accounts, in behaviours that  *)
(* are about one of them while the variables of the others rest.           *)
Resting ==
    part # "home" => /\ reading = NotReading /\ at = 0 /\ full = FALSE
                     /\ seen = {} /\ due = {} /\ shrunk = FALSE
SiteInv == ListInv /\ IInv /\ Resting /\ (part = "home" => HomeInv)

(* A home page that rests has its invariant as well.                       *)
LEMMA SiteInvHome == SiteInv => HomeInv
<1> SUFFICES ASSUME Resting, part # "home" PROVE HomeInv
  BY DEF SiteInv
<1>1. HomeInit
  BY DEF Resting, HomeInit
<1> QED
  BY <1>1, InitHomeInv

(* The site starts with the invariants of its parts.                       *)
LEMMA InitSiteInv == SiteInit => SiteInv
<1> SUFFICES ASSUME SiteInit PROVE SiteInv
  OBVIOUS
<1>1. Init /\ HomeInit /\ AccountsInit
  BY DEF SiteInit
<1>2. ListInv /\ HomeInv /\ IInv
  BY <1>1, InitListInv, InitHomeInv, InitIInv
<1>3. Resting
  BY <1>1 DEF HomeInit, Resting
<1> QED
  BY <1>2, <1>3 DEF SiteInv

(* A step of the site is a step of the list, of the home page and of the   *)
(* accounts, or leaves them as they are.                                   *)
LEMMA StepSiteInv ==
    SiteInv /\ [SiteNext]_<<part, feedVars, homeVars, accountsVars>> => SiteInv'
<1> SUFFICES ASSUME SiteInv, [SiteNext]_<<part, feedVars, homeVars, accountsVars>>
             PROVE  SiteInv'
  OBVIOUS
<1>1. /\ part' = part
      /\ [Next]_feedVars
      /\ [AccountsNext]_accountsVars
      /\ part = "home" => [HomeNext]_<<feedVars, homeVars>>
      /\ part # "home" => UNCHANGED homeVars
  <2>1. CASE UNCHANGED <<part, feedVars, homeVars, accountsVars>>
    BY <2>1
  <2>2. CASE part = "list" /\ Next /\ UNCHANGED <<part, homeVars, accountsVars>>
    BY <2>2
  <2>3. CASE part = "home" /\ HomeNext /\ UNCHANGED <<part, accountsVars>>
    BY <2>3, HomeStepOfFeed
  <2>4. CASE part = "accounts" /\ AccountsNext /\ UNCHANGED <<part, feedVars, homeVars>>
    BY <2>4
  <2> QED BY <2>1, <2>2, <2>3, <2>4 DEF SiteNext
<1>2. ListInv' /\ IInv'
  BY <1>1, StepListInv, StepIInv DEF SiteInv
<1>3. Resting'
  BY <1>1 DEF SiteInv, Resting, homeVars
<1>4. part' = "home" => HomeInv'
  <2>1. TypeOK /\ TypeOK'
    BY <1>2 DEF SiteInv, ListInv
  <2> QED BY <1>1, <2>1, StepHomeInv DEF SiteInv
<1> QED
  BY <1>2, <1>3, <1>4 DEF SiteInv

(* All variables of the site keep their types.                             *)
THEOREM SiteTypeCorrect == SiteSpec => []SiteTypeOK
<1>1. SiteInv => SiteTypeOK
  BY SiteInvHome DEF SiteInv, ListInv, HomeInv, IInv, SiteTypeOK
<1> QED
  BY <1>1, InitSiteInv, StepSiteInv, PTL DEF SiteSpec

(* The list, the home page and the accounts keep their properties in the   *)
(* specification of the whole site, too: what a device lists and a visitor *)
(* pages through, who is logged in, and whom a device is registered for.   *)
THEOREM SiteCorrect ==
    SiteSpec => [](/\ EachOnce /\ NothingMissed /\ NewestFirst
                   /\ PagesMissNothing
                   /\ SessionIsProven /\ RegisteredForUser)
<1>1. SiteInv => EachOnce /\ NothingMissed /\ NewestFirst /\ PagesMissNothing
  BY SiteInvHome, ListInvComplete, HomeInvComplete DEF SiteInv, ListInv
<1>2. SiteInv => SessionIsProven
  BY DEF SiteInv, IInv, SessionInv
<1>3. SiteInv => RegisteredForUser
  BY DEF SiteInv, IInv, DeviceInv, InStepAt, RegisteredForUser
<1> QED
  BY <1>1, <1>2, <1>3, InitSiteInv, StepSiteInv, PTL DEF SiteSpec
===============================================================================
