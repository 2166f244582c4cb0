----------------------- MODULE CompactShardedProofs -------------------------
(***************************************************************************)
(* compact_sharded returns what compact returns, for every vector of       *)
(* sorted sources, every number of shards and every order in which the     *)
(* tasks end or panic.                                                     *)
(*                                                                         *)
(* The boundaries are keys of one sorted source at positions that do not   *)
(* decrease, so their user keys do not decrease.  Every source is cut at   *)
(* the first entry whose user key is not below the boundary, so a shard    *)
(* holds exactly the entries whose user keys lie between its boundaries    *)
(* (ShardHoldsRange); the ranges cover all keys.  Hence the newest version *)
(* of a key in its shard is the newest of all, and the outputs of the      *)
(* shards, in shard order, are the output of one compaction.               *)
(***************************************************************************)
EXTENDS CompactSharded, FiniteSetTheorems, WellFoundedInduction, TLAPS

(* Every non-empty set of naturals has a least element.                    *)
LEMMA LeastElement ==
    ASSUME NEW T, T \subseteq Nat, T # {}
    PROVE  \E x \in T : \A y \in T : x <= y
<1>1. PICK x \in T : \A y \in T : ~(<<y, x>> \in OpToRel(<, Nat))
  BY NatLessThanWellFounded, WFMin
<1>2. \A y \in T : ~(y < x)
  BY <1>1 DEF OpToRel
<1> QED BY <1>2

(* Every non-empty set of naturals with a bound has a greatest element.    *)
LEMMA GreatestElement ==
    ASSUME NEW n \in Nat, NEW T, T \subseteq 0..n, T # {}
    PROVE  \E x \in T : \A y \in T : y <= x
<1> DEFINE D == {d \in 0..n : n - d \in T}
<1>1. \A y \in T : n - y \in D
  OBVIOUS
<1>2. D \subseteq Nat /\ D # {}
  <2>1. PICK y : y \in T
    OBVIOUS
  <2>2. n - y \in D
    BY <1>1, <2>1
  <2> QED BY <2>2
<1>3. PICK d \in D : \A c \in D : d <= c
  BY <1>2, LeastElement
<1>4. ASSUME NEW y \in T PROVE y <= n - d
  BY <1>1, <1>3
<1> QED BY <1>4

(* Division by a shard count is monotone.                                  *)
LEMMA DivMonotone ==
    ASSUME NEW a \in Nat, NEW b \in Nat, NEW c \in Nat, c > 0, a <= b
    PROVE  a \div c \in Nat /\ a \div c <= b \div c
<1> DEFINE p == a \div c
           q == b \div c
<1>1. /\ p \in Nat /\ c * p <= a
      /\ q \in Nat /\ b < c * q + c
  OBVIOUS
<1> HIDE DEF p, q
<1>2. ASSUME p > q PROVE FALSE
  <2>1. p >= q + 1
    BY <1>1, <1>2
  <2>2. c * p >= c * (q + 1)
    BY <1>1, <2>1
  <2>3. c * (q + 1) = c * q + c
    BY <1>1
  <2> QED BY <1>1, <2>2, <2>3
<1>3. p \in Nat /\ p <= q
  BY <1>1, <1>2
<1> QED BY <1>3 DEF p, q

(* max_by_key: among a non-empty vector of sources there is a longest one, *)
(* and a last of the longest.                                              *)
LEMMA LargestExists ==
    ASSUME NEW input \in Seq(Source), input # <<>>
    PROVE  Largest(input) \in DOMAIN input
<1> DEFINE IsLongest(m, i) == \A j \in 1..m : Len(input[j]) <= Len(input[i])
           Bad == {m \in 1..Len(input) : ~ \E i \in 1..m : IsLongest(m, i)}
<1>1. /\ Len(input) \in Nat /\ Len(input) >= 1
      /\ DOMAIN input = 1..Len(input)
      /\ \A i \in 1..Len(input) : Len(input[i]) \in Nat
  BY DEF Source
<1>2. Bad = {}
  <2> SUFFICES ASSUME Bad # {} PROVE FALSE
    OBVIOUS
  <2>1. Bad \subseteq Nat
    BY <1>1
  <2>2. PICK m \in Bad : \A l \in Bad : m <= l
    BY <2>1, LeastElement, Zenon
  <2>3. m \in 1..Len(input)
    OBVIOUS
  <2>4. m # 1
    <3> SUFFICES ASSUME m = 1 PROVE FALSE
      OBVIOUS
    <3>1. IsLongest(1, 1)
      BY <1>1
    <3> QED BY <3>1
  <2>5. PICK i \in 1..(m - 1) : IsLongest(m - 1, i)
    <3>1. m - 1 \in 1..Len(input) /\ ~(m <= m - 1)
      BY <1>1, <2>3, <2>4
    <3>2. m - 1 \notin Bad
      BY <2>2, <3>1, Zenon
    <3> QED BY <3>1, <3>2, Zenon
  <2>6. i \in 1..m /\ m \in 1..m /\ m \in Nat /\ \A j \in 1..m : j \in 1..(m - 1) \/ j = m
    BY <1>1, <2>3, <2>4
  <2>7. i \in 1..Len(input)
    BY <1>1, <2>3
  <2>8. IsLongest(m, i) \/ IsLongest(m, m)
    <3>1. CASE Len(input[m]) <= Len(input[i])
      BY <2>5, <2>6, <3>1, Zenon
    <3>2. CASE ~(Len(input[m]) <= Len(input[i]))
      <4>1. ASSUME NEW j \in 1..m PROVE Len(input[j]) <= Len(input[m])
        <5>1. CASE j = m
          BY <5>1, <1>1, <2>3
        <5>2. CASE j \in 1..(m - 1)
          <6>1. Len(input[j]) <= Len(input[i])
            BY <2>5, <5>2, Zenon
          <6>2. j \in 1..Len(input)
            BY <5>2, <2>3, <1>1
          <6> QED BY <6>1, <6>2, <1>1, <2>3, <2>7, <3>2
        <5> QED BY <2>6, <4>1, <5>1, <5>2
      <4> QED BY <4>1
    <3> QED BY <3>1, <3>2
  <2> QED BY <2>6, <2>8, Zenon
<1> DEFINE longest == {i \in DOMAIN input :
                          \A j \in DOMAIN input : Len(input[j]) <= Len(input[i])}
<1>3. longest # {} /\ longest \subseteq 0..Len(input)
  <2>1. Len(input) \in 1..Len(input)
    BY <1>1
  <2>2. \E i \in 1..Len(input) : IsLongest(Len(input), i)
    BY <1>2, <2>1, Zenon
  <2>3. longest # {}
    BY <1>1, <2>2
  <2> QED BY <1>1, <2>3
<1> HIDE DEF longest
<1>4. \E i \in longest : \A j \in longest : j <= i
  BY <1>1, <1>3, GreatestElement
<1>5. (CHOOSE i \in longest : \A j \in longest : j <= i) \in longest
  BY <1>4
<1> QED BY <1>5 DEF Largest, longest

LEMMA EntriesTyped ==
    ASSUME NEW s \in Seq(Entry)
    PROVE  /\ Len(s) \in Nat /\ DOMAIN s = 1..Len(s)
           /\ \A i \in 1..Len(s) : s[i] \in Entry /\ s[i].uk \in Nat
<1>1. Len(s) \in Nat /\ DOMAIN s = 1..Len(s) /\ \A i \in 1..Len(s) : s[i] \in Entry
  OBVIOUS
<1>2. \A e \in Entry : e.uk \in Nat
  BY DEF Entry
<1> QED BY <1>1, <1>2

(* In a sorted source user keys do not decrease.                           *)
LEMMA SourceKeysAscend ==
    ASSUME NEW s \in Source, NEW p \in DOMAIN s, NEW q \in DOMAIN s, p <= q
    PROVE  s[p].uk \in Nat /\ s[q].uk \in Nat /\ s[p].uk <= s[q].uk
<1>1. s[p] \in Entry /\ s[q] \in Entry /\ p \in Nat /\ q \in Nat
  BY DEF Source
<1>2. s[p].uk \in Nat /\ s[q].uk \in Nat
  BY <1>1 DEF Entry
<1>3. CASE p = q
  BY <1>2, <1>3
<1>4. CASE p < q
  <2>1. ~Less(s[q], s[p])
    BY <1>4 DEF Source, Ascending
  <2> QED BY <1>2, <2>1 DEF Less
<1> QED BY <1>1, <1>2, <1>3, <1>4

(* Consecutive boundaries do not decrease.                                 *)
AscendingKeys(cuts) ==
    \A i, j \in DOMAIN cuts : i <= j => cuts[i].uk <= cuts[j].uk

(* pick_shard_boundaries: at most num_shards - 1 keys, in ascending order, *)
(* repeated ones included.                                                 *)
LEMMA BoundariesAscend ==
    ASSUME NEW input \in Seq(Source), input # <<>>, NEW count \in Nat, count > 1
    PROVE  LET cuts == PickShardBoundaries(input, count)
           IN  /\ cuts \in Seq(Entry)
               /\ Len(cuts) \in {0, count - 1}
               /\ AscendingKeys(cuts)
<1> DEFINE largest == input[Largest(input)]
           n == Len(largest)
           Idx(i) == (n * i) \div count
           Pos(i) == (IF Idx(i) <= n - 1 THEN Idx(i) ELSE n - 1) + 1
           cuts == PickShardBoundaries(input, count)
<1>1. largest \in Source
  BY LargestExists
<1>2. largest \in Seq(Entry) /\ Ascending(largest) /\ n \in Nat /\ DOMAIN largest = 1..n
  BY <1>1 DEF Source
<1>3. cuts = IF n = 0 THEN <<>> ELSE [i \in 1..(count - 1) |-> largest[Pos(i)]]
  BY DEF PickShardBoundaries
<1> HIDE DEF largest, cuts
<1>4. CASE n = 0
  BY <1>3, <1>4 DEF AscendingKeys, cuts
<1>5. CASE n # 0
  <2>1. ASSUME NEW i \in 1..(count - 1), NEW j \in 1..(count - 1), i <= j
        PROVE  Idx(i) \in Nat /\ Idx(i) <= Idx(j)
    <3>1. n * i \in Nat /\ n * j \in Nat /\ n * i <= n * j
      BY <1>2, <2>1
    <3> HIDE DEF n
    <3> QED BY <3>1, DivMonotone
  <2> HIDE DEF Idx, n
  <2>2. ASSUME NEW i \in 1..(count - 1)
        PROVE  Pos(i) \in 1..n
    BY <1>2, <1>5, <2>1
  <2>3. ASSUME NEW i \in 1..(count - 1), NEW j \in 1..(count - 1), i <= j
        PROVE  Pos(i) <= Pos(j)
    <3>1. Idx(i) \in Nat /\ Idx(j) \in Nat /\ Idx(i) <= Idx(j)
      BY <2>1, <2>3
    <3> QED BY <1>2, <3>1
  <2> HIDE DEF Pos
  <2>4. cuts = [i \in 1..(count - 1) |-> largest[Pos(i)]]
    BY <1>3, <1>5
  <2>5. cuts \in Seq(Entry) /\ Len(cuts) = count - 1
    BY <1>2, <2>2, <2>4
  <2>6. ASSUME NEW i \in DOMAIN cuts, NEW j \in DOMAIN cuts, i <= j
        PROVE  cuts[i].uk <= cuts[j].uk
    <3>1. i \in 1..(count - 1) /\ j \in 1..(count - 1)
      BY <2>4
    <3>2. Pos(i) \in 1..n /\ Pos(j) \in 1..n /\ Pos(i) <= Pos(j)
      BY <2>2, <2>3, <2>6, <3>1
    <3>4. largest[Pos(i)].uk <= largest[Pos(j)].uk
      BY <1>1, <1>2, <3>2, SourceKeysAscend
    <3> QED BY <2>4, <3>1, <3>4
  <2> QED BY <2>5, <2>6 DEF AscendingKeys, cuts
<1> QED BY <1>4, <1>5

(* lower_bound: in a sorted source the entries below the boundary are the  *)
(* first ones.                                                             *)
LEMMA LowerBoundSplits ==
    ASSUME NEW s \in Source, NEW boundary \in Entry
    PROVE  /\ LowerBound(s, boundary) \in 0..Len(s)
           /\ \A p \in DOMAIN s : p <= LowerBound(s, boundary) <=> UserLess(s[p], boundary)
<1>1. /\ s \in Seq(Entry) /\ Len(s) \in Nat /\ DOMAIN s = 1..Len(s)
      /\ \A p \in 1..Len(s) : s[p] \in Entry
  BY DEF Source
<1> DEFINE T == {p \in 1..(Len(s) + 1) : p = Len(s) + 1 \/ ~UserLess(s[p], boundary)}
<1>2. T \subseteq Nat /\ Len(s) + 1 \in T
  BY <1>1
<1>3. PICK x \in T : \A y \in T : x <= y
  BY <1>2, LeastElement, Zenon
<1>4. x - 1 \in 0..Len(s) /\ x \in 1..(Len(s) + 1)
  BY <1>1
<1>5. ASSUME NEW p \in DOMAIN s
      PROVE  p <= x - 1 <=> UserLess(s[p], boundary)
  <2>1. p \in 1..Len(s)
    BY <1>1
  <2>2. CASE p <= x - 1
    <3>1. p \in 1..(Len(s) + 1) /\ ~(x <= p)
      BY <1>1, <1>4, <2>1, <2>2
    <3>2. p \notin T
      BY <1>3, <3>1
    <3> QED BY <2>2, <3>1, <3>2
  <2>3. CASE ~(p <= x - 1)
    <3>1. x <= p /\ x \in 1..Len(s)
      BY <1>1, <1>4, <2>1, <2>3
    <3>2. ~UserLess(s[x], boundary)
      BY <1>1, <3>1
    <3>3. s[x].uk \in Nat /\ s[p].uk \in Nat /\ s[x].uk <= s[p].uk
      BY <1>1, <2>1, <3>1, SourceKeysAscend
    <3>4. boundary.uk \in Nat
      BY DEF Entry
    <3>5. ~UserLess(s[p], boundary)
      BY <3>2, <3>3, <3>4 DEF UserLess
    <3> QED BY <2>3, <3>5
  <2> QED BY <2>2, <2>3
<1> QED BY <1>4, <1>5 DEF LowerBound

(* The user keys of shard k, given the boundaries.                         *)
InRange(cuts, k, u) ==
    /\ k = 1 \/ cuts[k - 1].uk <= u
    /\ k = Len(cuts) + 1 \/ u < cuts[k].uk

(* Window k of a source is well formed and holds the entries in range.     *)
LEMMA WindowHoldsRange ==
    ASSUME NEW s \in Source, NEW cuts \in Seq(Entry), AscendingKeys(cuts),
           NEW k \in 1..(Len(cuts) + 1)
    PROVE  LET start == CutBefore(s, cuts, k)
               end == CutAfter(s, cuts, k)
           IN  /\ start \in 0..Len(s) /\ end \in 0..Len(s) /\ start <= end
               /\ \A p \in DOMAIN s : p \in (start + 1)..end <=> InRange(cuts, k, s[p].uk)
<1> DEFINE start == CutBefore(s, cuts, k)
           end == CutAfter(s, cuts, k)
<1>1. /\ s \in Seq(Entry) /\ Len(s) \in Nat /\ DOMAIN s = 1..Len(s)
      /\ \A p \in 1..Len(s) : s[p] \in Entry /\ s[p].uk \in Nat
  BY EntriesTyped DEF Source
<1>2. /\ Len(cuts) \in Nat /\ DOMAIN cuts = 1..Len(cuts)
      /\ \A i \in 1..Len(cuts) : cuts[i] \in Entry /\ cuts[i].uk \in Nat
  BY EntriesTyped
<1>3. start \in 0..Len(s) /\ \A p \in DOMAIN s : start < p <=> k = 1 \/ cuts[k - 1].uk <= s[p].uk
  <2>1. CASE k = 1
    BY <1>1, <2>1 DEF CutBefore
  <2>2. CASE k # 1
    <3>1. k - 1 \in 1..Len(cuts) /\ start = LowerBound(s, cuts[k - 1])
      BY <1>2, <2>2 DEF CutBefore
    <3>2. start \in 0..Len(s) /\ \A p \in DOMAIN s : p <= start <=> UserLess(s[p], cuts[k - 1])
      BY <1>2, <3>1, LowerBoundSplits
    <3> HIDE DEF start
    <3> QED BY <1>1, <1>2, <2>2, <3>1, <3>2 DEF UserLess
  <2> QED BY <2>1, <2>2
<1>4. end \in 0..Len(s) /\ \A p \in DOMAIN s : p <= end <=> k = Len(cuts) + 1 \/ s[p].uk < cuts[k].uk
  <2>1. CASE k = Len(cuts) + 1
    BY <1>1, <2>1 DEF CutAfter
  <2>2. CASE k # Len(cuts) + 1
    <3>1. k \in 1..Len(cuts) /\ end = LowerBound(s, cuts[k])
      BY <1>2, <2>2 DEF CutAfter
    <3>2. end \in 0..Len(s) /\ \A p \in DOMAIN s : p <= end <=> UserLess(s[p], cuts[k])
      BY <1>2, <3>1, LowerBoundSplits
    <3> HIDE DEF end
    <3> QED BY <1>1, <1>2, <2>2, <3>1, <3>2 DEF UserLess
  <2> QED BY <2>1, <2>2
<1> HIDE DEF start, end
<1>5. start <= end
  <2> SUFFICES ASSUME end < start PROVE FALSE
    BY <1>1, <1>3, <1>4
  <2>1. start \in DOMAIN s /\ ~(start < start) /\ ~(start <= end)
    BY <1>1, <1>3, <1>4
  <2>2. k # 1 /\ s[start].uk < cuts[k - 1].uk
    <3>1. ~(k = 1 \/ cuts[k - 1].uk <= s[start].uk)
      BY <1>3, <2>1
    <3>2. k - 1 \in 1..Len(cuts)
      BY <1>2, <3>1
    <3> QED BY <1>1, <1>2, <2>1, <3>1, <3>2
  <2>3. k # Len(cuts) + 1 /\ cuts[k].uk <= s[start].uk
    BY <1>1, <1>2, <1>4, <2>1
  <2>4. cuts[k - 1].uk <= cuts[k].uk
    BY <1>2, <2>2, <2>3, SMTT(30) DEF AscendingKeys
  <2>5. cuts[k - 1].uk \in Nat /\ cuts[k].uk \in Nat /\ s[start].uk \in Nat
    BY <1>1, <1>2, <2>1, <2>2, <2>3
  <2> QED BY <2>2, <2>3, <2>4, <2>5
<1>6. ASSUME NEW p \in DOMAIN s
      PROVE  p \in (start + 1)..end <=> InRange(cuts, k, s[p].uk)
  <2>1. p \in (start + 1)..end <=> start < p /\ p <= end
    BY <1>1, <1>3, <1>4
  <2> QED BY <1>3, <1>4, <2>1 DEF InRange
<1> QED BY <1>3, <1>4, <1>5, <1>6 DEF start, end

(* The next window starts where one ends; the first starts at the start of *)
(* the source, the last ends where it does.                                *)
LEMMA WindowsMeet ==
    ASSUME NEW s, NEW cuts, Len(cuts) \in Nat, NEW k \in 1..Len(cuts)
    PROVE  CutBefore(s, cuts, k + 1) = CutAfter(s, cuts, k)
BY DEF CutBefore, CutAfter

(* Every key is in the range of some shard.                                *)
LEMMA RangesCover ==
    ASSUME NEW cuts \in Seq(Entry), NEW u \in Nat
    PROVE  \E k \in 1..(Len(cuts) + 1) : InRange(cuts, k, u)
<1> DEFINE T == {k \in 1..(Len(cuts) + 1) : k = Len(cuts) + 1 \/ u < cuts[k].uk}
<1>1. /\ Len(cuts) \in Nat
      /\ \A i \in 1..Len(cuts) : cuts[i].uk \in Nat
  BY EntriesTyped
<1>2. T \subseteq Nat /\ Len(cuts) + 1 \in T
  BY <1>1
<1>3. PICK k \in T : \A l \in T : k <= l
  BY <1>2, LeastElement, Zenon
<1>4. CASE k = 1
  BY <1>4 DEF InRange
<1>5. CASE k # 1
  <2>1. k - 1 \in 1..Len(cuts) /\ ~(k <= k - 1)
    BY <1>1, <1>5
  <2>2. k - 1 \notin T
    BY <1>3, <2>1
  <2>3. ~(u < cuts[k - 1].uk)
    BY <1>1, <2>1, <2>2
  <2> QED BY <1>1, <2>1, <2>3, SMTT(30) DEF InRange
<1> QED BY <1>4, <1>5

(* Ranges are apart and in shard order.                                    *)
LEMMA RangesApart ==
    ASSUME NEW cuts \in Seq(Entry), AscendingKeys(cuts),
           NEW k \in 1..(Len(cuts) + 1), NEW l \in 1..(Len(cuts) + 1), k < l,
           NEW u \in Nat, NEW v \in Nat, InRange(cuts, k, u), InRange(cuts, l, v)
    PROVE  u < v
<1>1. /\ Len(cuts) \in Nat
      /\ \A i \in 1..Len(cuts) : cuts[i].uk \in Nat
  BY EntriesTyped
<1>2. k \in 1..Len(cuts) /\ l - 1 \in 1..Len(cuts) /\ k <= l - 1
  BY <1>1
<1>3. u < cuts[k].uk /\ cuts[l - 1].uk <= v
  BY <1>1, <1>2 DEF InRange
<1>4. cuts[k].uk <= cuts[l - 1].uk
  BY <1>2 DEF AscendingKeys
<1> QED BY <1>1, <1>2, <1>3, <1>4

(* The windows Slice makes.                                                *)
ShardsOf(input, cuts) ==
    [k \in 1..(Len(cuts) + 1) |->
       [i \in DOMAIN input |->
          Shard(input[i], CutBefore(input[i], cuts, k), CutAfter(input[i], cuts, k))]]

LEMMA InputEntriesAt ==
    ASSUME NEW input, NEW e
    PROVE  e \in InputEntries(input) <=>
               \E i \in DOMAIN input : \E p \in DOMAIN input[i] : e = input[i][p]
BY DEF InputEntries, ToSet

LEMMA InputEntriesTyped ==
    ASSUME NEW input \in Seq(Source), NEW e \in InputEntries(input)
    PROVE  e \in Entry /\ e.uk \in Nat /\ e.packed \in Nat
<1>1. PICK i \in DOMAIN input : \E p \in DOMAIN input[i] : e = input[i][p]
  BY InputEntriesAt
<1>2. input[i] \in Seq(Entry)
  BY DEF Source
<1>3. e \in Entry
  BY <1>1, <1>2, EntriesTyped
<1> QED BY <1>3 DEF Entry

(* source.shard: a window of a sorted source is a sorted source.           *)
LEMMA WindowIsSource ==
    ASSUME NEW s \in Source, NEW start \in 0..Len(s), NEW end \in 0..Len(s), start <= end
    PROVE  /\ Shard(s, start, end) \in Source
           /\ Len(Shard(s, start, end)) = end - start
           /\ \A p \in 1..(end - start) : Shard(s, start, end)[p] = s[start + p]
<1> DEFINE w == Shard(s, start, end)
<1>1. s \in Seq(Entry) /\ Len(s) \in Nat /\ DOMAIN s = 1..Len(s) /\ Ascending(s)
  BY DEF Source
<1>2. /\ w \in Seq(Entry) /\ Len(w) = end - start
      /\ \A p \in 1..(end - start) : w[p] = s[start + p]
  BY <1>1 DEF Shard
<1> HIDE DEF w
<1>3. ASSUME NEW p \in DOMAIN w, NEW q \in DOMAIN w, p < q
      PROVE  ~Less(w[q], w[p])
  <2>1. p \in 1..(end - start) /\ q \in 1..(end - start)
    BY <1>1, <1>2
  <2>2. start + p \in DOMAIN s /\ start + q \in DOMAIN s /\ start + p < start + q
    BY <1>1, <1>3, <2>1
  <2>3. ~Less(s[start + q], s[start + p])
    BY <1>1, <2>2 DEF Ascending
  <2> QED BY <1>2, <2>1, <2>3
<1>4. w \in Source
  BY <1>2, <1>3 DEF Source, Ascending
<1> QED BY <1>2, <1>4 DEF w

(* A shard holds the entries of the sources whose user keys are in its     *)
(* range, all of them and no other.                                        *)
LEMMA ShardHoldsRange ==
    ASSUME NEW input \in Seq(Source), NEW cuts \in Seq(Entry), AscendingKeys(cuts),
           NEW k \in 1..(Len(cuts) + 1)
    PROVE  /\ ShardsOf(input, cuts)[k] \in Seq(Source)
           /\ \A e : e \in InputEntries(ShardsOf(input, cuts)[k]) <=>
                        e \in InputEntries(input) /\ InRange(cuts, k, e.uk)
<1> DEFINE sh == ShardsOf(input, cuts)[k]
           Start(i) == CutBefore(input[i], cuts, k)
           End(i) == CutAfter(input[i], cuts, k)
<1>1. \A i \in DOMAIN input : input[i] \in Source /\ Len(input[i]) \in Nat
                              /\ DOMAIN input[i] = 1..Len(input[i])
  BY DEF Source
<1>2. DOMAIN sh = DOMAIN input /\ \A i \in DOMAIN input : sh[i] = Shard(input[i], Start(i), End(i))
  BY DEF ShardsOf
<1>0. sh = [i \in 1..Len(input) |-> sh[i]]
  BY DEF ShardsOf
<1> HIDE DEF sh
<1>3. ASSUME NEW i \in DOMAIN input
      PROVE  /\ Start(i) \in 0..Len(input[i]) /\ End(i) \in 0..Len(input[i]) /\ Start(i) <= End(i)
             /\ \A p \in DOMAIN input[i] :
                    p \in (Start(i) + 1)..End(i) <=> InRange(cuts, k, input[i][p].uk)
  BY <1>1, WindowHoldsRange
<1> HIDE DEF Start, End
<1>4. ASSUME NEW i \in DOMAIN input
      PROVE  /\ sh[i] \in Source
             /\ DOMAIN sh[i] = 1..(End(i) - Start(i))
             /\ \A p \in 1..(End(i) - Start(i)) : sh[i][p] = input[i][Start(i) + p]
  <2>1. /\ sh[i] \in Source
        /\ Len(sh[i]) = End(i) - Start(i)
        /\ \A p \in 1..(End(i) - Start(i)) : sh[i][p] = input[i][Start(i) + p]
    <3>1. sh[i] = Shard(input[i], Start(i), End(i)) /\ input[i] \in Source
      BY <1>1, <1>2
    <3>2. Start(i) \in 0..Len(input[i]) /\ End(i) \in 0..Len(input[i]) /\ Start(i) <= End(i)
      BY <1>3
    <3> QED BY <3>1, <3>2, WindowIsSource, Zenon
  <2> QED BY <2>1 DEF Source
<1>5. sh \in Seq(Source)
  <2>1. \A i \in 1..Len(input) : sh[i] \in Source
    BY <1>4
  <2> QED BY <1>0, <2>1
<1>6. ASSUME NEW e, e \in InputEntries(sh)
      PROVE  e \in InputEntries(input) /\ InRange(cuts, k, e.uk)
  <2>1. PICK i \in DOMAIN input : \E p \in DOMAIN sh[i] : e = sh[i][p]
    BY <1>2, <1>6, InputEntriesAt
  <2>2. PICK p \in 1..(End(i) - Start(i)) : e = input[i][Start(i) + p]
    BY <1>4, <2>1
  <2>3. Start(i) + p \in DOMAIN input[i] /\ Start(i) + p \in (Start(i) + 1)..End(i)
    BY <1>1, <1>3
  <2> QED BY <1>3, <2>2, <2>3, InputEntriesAt
<1>7. ASSUME NEW e, e \in InputEntries(input), InRange(cuts, k, e.uk)
      PROVE  e \in InputEntries(sh)
  <2>1. PICK i \in DOMAIN input : \E p \in DOMAIN input[i] : e = input[i][p]
    BY <1>7, InputEntriesAt
  <2>2. PICK p \in DOMAIN input[i] : e = input[i][p]
    BY <2>1
  <2>3. p \in (Start(i) + 1)..End(i)
    BY <1>3, <1>7, <2>2
  <2>4. p - Start(i) \in 1..(End(i) - Start(i)) /\ Start(i) + (p - Start(i)) = p
    BY <1>1, <1>3, <2>3
  <2>5. e = sh[i][p - Start(i)]
    BY <1>4, <2>2, <2>4
  <2> QED BY <1>2, <1>4, <2>4, <2>5, InputEntriesAt
<1> QED BY <1>5, <1>6, <1>7 DEF sh

(* For a key of its range a shard knows the newest versions.               *)
LEMMA NewestInShard ==
    ASSUME NEW input \in Seq(Source), NEW cuts \in Seq(Entry), AscendingKeys(cuts),
           NEW k \in 1..(Len(cuts) + 1), NEW u, InRange(cuts, k, u)
    PROVE  NewestVersions(ShardsOf(input, cuts)[k], u) = NewestVersions(input, u)
BY ShardHoldsRange DEF NewestVersions

(* The keys a shard keeps are the keys of its range that are kept.         *)
LEMMA LiveInShard ==
    ASSUME NEW input \in Seq(Source), NEW cuts \in Seq(Entry), AscendingKeys(cuts),
           NEW k \in 1..(Len(cuts) + 1), NEW u
    PROVE  u \in LiveKeys(ShardsOf(input, cuts)[k]) <=>
               u \in LiveKeys(input) /\ InRange(cuts, k, u)
<1> DEFINE sh == ShardsOf(input, cuts)[k]
<1>1. \A e : e \in InputEntries(sh) <=> e \in InputEntries(input) /\ InRange(cuts, k, e.uk)
  BY ShardHoldsRange
<1>2. InRange(cuts, k, u) => NewestVersions(sh, u) = NewestVersions(input, u)
  BY NewestInShard
<1> HIDE DEF sh
<1>3. u \in {e.uk : e \in InputEntries(sh)} <=>
          u \in {e.uk : e \in InputEntries(input)} /\ InRange(cuts, k, u)
  BY <1>1
<1> QED BY <1>2, <1>3 DEF LiveKeys, sh

(* Outputs that are right for the shards are, in shard order, right for    *)
(* the sources.                                                            *)
LEMMA ShardsMakeWhole ==
    ASSUME NEW input \in Seq(Source), NEW cuts \in Seq(Entry), AscendingKeys(cuts),
           NEW files, DOMAIN files = 1..(Len(cuts) + 1),
           \A k \in 1..(Len(cuts) + 1) : IsBottommostOf(files[k], ShardsOf(input, cuts)[k])
    PROVE  IsBottommostAcross(files, input)
<1>1. ASSUME NEW k \in 1..(Len(cuts) + 1), NEW i \in DOMAIN files[k]
      PROVE  /\ InRange(cuts, k, files[k][i].uk)
             /\ files[k][i].uk \in Nat
             /\ files[k][i] \in NewestVersions(input, files[k][i].uk)
             /\ files[k][i].uk \in LiveKeys(input)
  <2> DEFINE u == files[k][i].uk
  <2>1. u \in LiveKeys(ShardsOf(input, cuts)[k]) /\ files[k][i] \in NewestVersions(ShardsOf(input, cuts)[k], u)
    BY DEF IsBottommostOf
  <2>2. u \in LiveKeys(input) /\ InRange(cuts, k, u)
    BY <2>1, LiveInShard
  <2>3. files[k][i] \in NewestVersions(input, u)
    BY <2>1, <2>2, NewestInShard
  <2>4. files[k][i] \in InputEntries(input)
    BY <2>3 DEF NewestVersions
  <2> QED BY <2>2, <2>3, <2>4, InputEntriesTyped
<1>2. ASSUME NEW n \in DOMAIN files, NEW m \in DOMAIN files, n < m,
             NEW i \in DOMAIN files[n], NEW j \in DOMAIN files[m]
      PROVE  files[n][i].uk < files[m][j].uk
  BY <1>1, <1>2, RangesApart
<1>3. ASSUME NEW u \in LiveKeys(input)
      PROVE  \E n \in DOMAIN files : u \in {files[n][i].uk : i \in DOMAIN files[n]}
  <2>1. u \in Nat
    BY InputEntriesTyped DEF LiveKeys
  <2>2. PICK k \in 1..(Len(cuts) + 1) : InRange(cuts, k, u)
    BY <2>1, RangesCover
  <2>3. u \in LiveKeys(ShardsOf(input, cuts)[k])
    BY <2>2, LiveInShard
  <2> QED BY <2>3 DEF IsBottommostOf
<1>4. UNION {{files[n][i].uk : i \in DOMAIN files[n]} : n \in DOMAIN files} = LiveKeys(input)
  BY <1>1, <1>3
<1>5. \A n \in DOMAIN files : \A i, j \in DOMAIN files[n] : i < j => files[n][i].uk < files[n][j].uk
  BY DEF IsBottommostOf
<1> QED BY <1>1, <1>2, <1>4, <1>5 DEF IsBottommostAcross
-----------------------------------------------------------------------------
(* The image of a finite set under a function.                             *)
LEMMA FiniteImage ==
    ASSUME NEW S, IsFiniteSet(S), NEW f, S \subseteq DOMAIN f
    PROVE  IsFiniteSet({f[x] : x \in S})
<1> DEFINE g == [x \in S |-> f[x]]
           T == {f[x] : x \in S}
<1>1. g \in Surjection(S, T)
  BY DEF Surjection
<1> QED BY <1>1, FS_Surjection

LEMMA InputEntriesFinite ==
    ASSUME NEW input \in Seq(Source)
    PROVE  IsFiniteSet(InputEntries(input))
<1>1. ASSUME NEW i \in DOMAIN input PROVE IsFiniteSet(ToSet(input[i]))
  <2>1. input[i] \in Seq(Entry)
    BY DEF Source
  <2>2. IsFiniteSet(1..Len(input[i])) /\ DOMAIN input[i] = 1..Len(input[i])
    BY <2>1, FS_Interval
  <2> QED BY <2>2, FiniteImage DEF ToSet
<1> DEFINE f == [i \in DOMAIN input |-> ToSet(input[i])]
<1>2. IsFiniteSet(DOMAIN input)
  BY FS_Interval
<1>3. IsFiniteSet({f[i] : i \in DOMAIN input})
  BY <1>2, FiniteImage, Zenon
<1>4. {f[i] : i \in DOMAIN input} = {ToSet(input[i]) : i \in DOMAIN input}
  OBVIOUS
<1> HIDE DEF f
<1>5. IsFiniteSet({ToSet(input[i]) : i \in DOMAIN input})
  BY <1>3, <1>4
<1>6. \A T \in {ToSet(input[i]) : i \in DOMAIN input} : IsFiniteSet(T)
  BY <1>1
<1> QED BY <1>5, <1>6, FS_UNION DEF InputEntries

LEMMA LiveKeysFinite ==
    ASSUME NEW input \in Seq(Source)
    PROVE  Cardinality(LiveKeys(input)) \in Nat
<1> DEFINE key == [e \in InputEntries(input) |-> e.uk]
           keys == {e.uk : e \in InputEntries(input)}
<1>1. IsFiniteSet({key[e] : e \in InputEntries(input)})
  BY InputEntriesFinite, FiniteImage, Zenon
<1>2. {key[e] : e \in InputEntries(input)} = keys
  OBVIOUS
<1> HIDE DEF key
<1>3. IsFiniteSet(keys) /\ LiveKeys(input) \in SUBSET keys
  BY <1>1, <1>2 DEF LiveKeys
<1> HIDE DEF keys
<1> QED BY <1>3, FS_Subset, FS_CardinalityType

(* What compact returns is a sequence of entries that keeps its promise.   *)
LEMMA OutputsTyped ==
    ASSUME NEW input \in Seq(Source), NEW out \in BottommostOutputs(input)
    PROVE  out \in Seq(Entry) /\ IsBottommostOf(out, input)
<1> DEFINE kept == UNION {NewestVersions(input, k) : k \in LiveKeys(input)}
           n == Cardinality(LiveKeys(input))
<1>1. kept \subseteq Entry
  BY InputEntriesTyped DEF NewestVersions
<1>2. out \in [1..n -> kept] /\ IsBottommostOf(out, input)
  BY DEF BottommostOutputs
<1>3. n \in Nat
  BY LiveKeysFinite
<1> HIDE DEF kept, n
<1> QED BY <1>1, <1>2, <1>3
-----------------------------------------------------------------------------
SlicedRight ==
    shard_inputs # <<>> =>
        /\ num_shards > 1 /\ sources # <<>>
        /\ boundaries = PickShardBoundaries(sources, num_shards)
        /\ shard_inputs = ShardsOf(sources, boundaries)

(* How far the call has come.                                              *)
Progress ==
    /\ pc = "called" => shard_inputs = <<>> /\ outputs = <<>>
    /\ pc = "sliced" => Len(task) < Len(shard_inputs) /\ outputs = <<>>
    /\ pc = "awaiting" => Len(task) = Len(shard_inputs) /\ Len(outputs) < Len(task)
    /\ pc = "ok" => \/ shard_inputs = <<>> /\ IsBottommostAcross(outputs, sources)
                    \/ /\ shard_inputs # <<>>
                       /\ Len(outputs) = Len(task) /\ Len(task) = Len(shard_inputs)
    /\ pc = "err" => Len(outputs) < Len(task) /\ Panicked # {}

(* A task that ended has compacted its shard.                              *)
TasksRight ==
    \A k \in DOMAIN task :
        task[k] = "ended" => IsBottommostOf(task_output[k], shard_inputs[k])

(* The outputs awaited so far are those of the first tasks, in shard order.*)
AwaitedInOrder ==
    shard_inputs # <<>> =>
        /\ Len(outputs) <= Len(task)
        /\ \A k \in DOMAIN outputs : task[k] = "ended" /\ outputs[k] = task_output[k]

IInv == TypeOK /\ SlicedRight /\ Progress /\ TasksRight /\ AwaitedInOrder

(* What Slice makes of the sources.                                        *)
LEMMA SliceTyped ==
    ASSUME NEW input \in Seq(Source), input # <<>>, NEW count \in Nat, count > 1,
           NEW cuts, cuts = PickShardBoundaries(input, count)
    PROVE  /\ cuts \in Seq(Entry) /\ AscendingKeys(cuts) /\ Len(cuts) \in Nat
           /\ ShardsOf(input, cuts) \in Seq(Seq(Source))
           /\ Len(ShardsOf(input, cuts)) = Len(cuts) + 1
           /\ DOMAIN ShardsOf(input, cuts) = 1..(Len(cuts) + 1)
<1>1. cuts \in Seq(Entry) /\ AscendingKeys(cuts) /\ Len(cuts) \in Nat
  BY BoundariesAscend, EntriesTyped
<1> DEFINE all == ShardsOf(input, cuts)
<1>2. all = [k \in 1..(Len(cuts) + 1) |-> all[k]]
  BY DEF ShardsOf
<1>3. \A k \in 1..(Len(cuts) + 1) : all[k] \in Seq(Source)
  BY <1>1, ShardHoldsRange
<1> HIDE DEF all
<1>4. all \in Seq(Seq(Source)) /\ Len(all) = Len(cuts) + 1 /\ DOMAIN all = 1..(Len(cuts) + 1)
  BY <1>1, <1>2, <1>3
<1> QED BY <1>1, <1>4 DEF all

LEMMA SlicedFacts ==
    ASSUME TypeOK, SlicedRight, shard_inputs # <<>>
    PROVE  /\ sources \in Seq(Source)
           /\ boundaries \in Seq(Entry) /\ AscendingKeys(boundaries)
           /\ shard_inputs = ShardsOf(sources, boundaries)
           /\ Len(boundaries) \in Nat
           /\ Len(shard_inputs) = Len(boundaries) + 1
           /\ DOMAIN shard_inputs = 1..(Len(boundaries) + 1)
<1>1. num_shards \in Nat /\ sources \in Seq(Source)
  BY ParametersAssumption DEF TypeOK
<1> QED BY <1>1, SliceTyped DEF SlicedRight

LEMMA InitIInv == Init => IInv
<1> SUFFICES ASSUME Init PROVE IInv
  OBVIOUS
<1>1. TypeOK
  BY ParametersAssumption DEF Init, TypeOK
<1>2. SlicedRight /\ Progress /\ TasksRight /\ AwaitedInOrder
  BY DEF Init, SlicedRight, Progress, TasksRight, AwaitedInOrder
<1> QED BY <1>1, <1>2 DEF IInv

(* One file is the whole output.                                           *)
LEMMA OneFile ==
    ASSUME NEW out \in Seq(Entry), NEW input, IsBottommostOf(out, input)
    PROVE  IsBottommostAcross(<<out>>, input)
<1>1. DOMAIN <<out>> = {1} /\ <<out>>[1] = out
  OBVIOUS
<1>2. UNION {{<<out>>[n][i].uk : i \in DOMAIN <<out>>[n]} : n \in DOMAIN <<out>>} =
          {out[i].uk : i \in DOMAIN out}
  BY <1>1
<1> QED BY <1>1, <1>2 DEF IsBottommostAcross, IsBottommostOf

LEMMA CompactInlineIInv == IInv /\ CompactInline => IInv'
<1> SUFFICES ASSUME IInv, CompactInline PROVE IInv'
  OBVIOUS
<1> USE DEF IInv, CompactInline
<1>1. PICK out \in BottommostOutputs(sources) : outputs' = <<out>>
  OBVIOUS
<1>2. sources \in Seq(Source)
  BY DEF TypeOK
<1>3. out \in Seq(Entry) /\ IsBottommostAcross(<<out>>, sources)
  BY <1>2, OutputsTyped, OneFile
<1>4. TypeOK'
  BY <1>1, <1>3 DEF TypeOK
<1>5. shard_inputs' = <<>> /\ task' = task
  BY DEF Progress
<1>6. SlicedRight' /\ AwaitedInOrder' /\ TasksRight'
  BY <1>5 DEF SlicedRight, AwaitedInOrder, TasksRight
<1>7. Progress'
  BY <1>1, <1>3, <1>5 DEF Progress
<1> QED BY <1>4, <1>6, <1>7

LEMMA SliceIInv == IInv /\ Slice => IInv'
<1> SUFFICES ASSUME IInv, Slice PROVE IInv'
  OBVIOUS
<1> USE DEF IInv, Slice
<1>1. sources \in Seq(Source) /\ num_shards \in Nat
  BY ParametersAssumption DEF TypeOK
<1>2. shard_inputs' = ShardsOf(sources, boundaries')
  BY DEF ShardsOf
<1>3. /\ boundaries' \in Seq(Entry) /\ Len(boundaries') \in Nat
      /\ shard_inputs' \in Seq(Seq(Source))
      /\ Len(shard_inputs') = Len(boundaries') + 1
  BY <1>1, <1>2, SliceTyped
<1>4. task = <<>> /\ outputs = <<>>
  BY DEF TypeOK, Progress
<1>5. TypeOK'
  BY <1>3, <1>4 DEF TypeOK
<1>6. SlicedRight'
  BY <1>2 DEF SlicedRight
<1>7. Progress' /\ TasksRight' /\ AwaitedInOrder'
  BY <1>3, <1>4 DEF Progress, TasksRight, AwaitedInOrder
<1> QED BY <1>5, <1>6, <1>7

LEMMA SpawnIInv == IInv /\ Spawn => IInv'
<1> SUFFICES ASSUME IInv, Spawn PROVE IInv'
  OBVIOUS
<1> USE DEF IInv, Spawn
<1>1. /\ Len(task') = Len(task) + 1 /\ Len(task) \in Nat /\ Len(shard_inputs) \in Nat
      /\ Len(task) < Len(shard_inputs) /\ outputs = <<>>
      /\ Len(task_output') = Len(task')
      /\ task' \in Seq({"spawned", "running", "ended", "panicked"})
      /\ task_output' \in Seq(Seq(Entry))
  BY DEF TypeOK, Progress
<1>2. TypeOK'
  BY <1>1 DEF TypeOK
<1>3. SlicedRight' /\ AwaitedInOrder'
  BY <1>1 DEF SlicedRight, AwaitedInOrder
<1>4. Progress'
  BY <1>1 DEF Progress
<1>5. TasksRight'
  <2> SUFFICES ASSUME NEW k \in DOMAIN task', task'[k] = "ended"
               PROVE  k \in DOMAIN task /\ task[k] = "ended" /\ task_output'[k] = task_output[k]
    BY DEF TasksRight
  <2> QED BY DEF TypeOK
<1> QED BY <1>2, <1>3, <1>4, <1>5

(* A step of one task, which leaves the others alone.                      *)
LEMMA TaskIInv == \A k \in DOMAIN task : IInv /\ Task(k) => IInv'
<1> SUFFICES ASSUME IInv, NEW k \in DOMAIN task, Task(k) PROVE IInv'
  OBVIOUS
<1> USE DEF IInv
<1>0. /\ k \in 1..Len(task) /\ k \in 1..Len(task_output)
      /\ shard_inputs # <<>> /\ k \in DOMAIN shard_inputs
      /\ task \in [1..Len(task) -> {"spawned", "running", "ended", "panicked"}]
      /\ task_output \in [1..Len(task) -> Seq(Entry)]
  BY SMTT(30) DEF TypeOK
<1>1. /\ UNCHANGED <<sources, num_shards, boundaries, shard_inputs, outputs, pc>>
      /\ task[k] # "ended" /\ task[k] # "panicked"
      /\ \E t \in {"spawned", "running", "ended", "panicked"} : task' = [task EXCEPT ![k] = t]
      /\ \/ task'[k] # "ended" /\ task_output' = task_output
         \/ \E out \in BottommostOutputs(shard_inputs[k]) : task_output' = [task_output EXCEPT ![k] = out]
  BY <1>0 DEF Task, StartTask, EndTask, PanicTask
<1>2. /\ task' \in Seq({"spawned", "running", "ended", "panicked"})
      /\ Len(task') = Len(task) /\ DOMAIN task' = DOMAIN task
      /\ \A l \in DOMAIN task : l # k => task'[l] = task[l]
  BY <1>1 DEF TypeOK
<1>3. /\ task_output' \in Seq(Seq(Entry))
      /\ Len(task_output') = Len(task_output)
      /\ \A l \in DOMAIN task : l # k => task_output'[l] = task_output[l]
      /\ task'[k] = "ended" => IsBottommostOf(task_output'[k], shard_inputs[k])
  <2>1. CASE task'[k] # "ended" /\ task_output' = task_output
    BY <2>1 DEF TypeOK
  <2>2. ASSUME NEW out \in BottommostOutputs(shard_inputs[k]),
               task_output' = [task_output EXCEPT ![k] = out]
        PROVE  <1>3
    <3>1. shard_inputs[k] \in Seq(Source)
      BY <1>0 DEF TypeOK
    <3>2. out \in Seq(Entry) /\ IsBottommostOf(out, shard_inputs[k])
      BY <3>1, OutputsTyped
    <3> QED BY <1>0, <2>2, <3>2 DEF TypeOK
  <2> QED BY <1>1, <2>1, <2>2
<1>4. TypeOK'
  BY <1>1, <1>2, <1>3 DEF TypeOK
<1>5. SlicedRight'
  BY <1>1 DEF SlicedRight
<1>6. TasksRight'
  <2> SUFFICES ASSUME NEW l \in DOMAIN task, task'[l] = "ended"
               PROVE  IsBottommostOf(task_output'[l], shard_inputs[l])
    BY <1>1, <1>2 DEF TasksRight
  <2> QED BY <1>2, <1>3 DEF TasksRight
<1>7. AwaitedInOrder'
  <2>1. \A l \in DOMAIN outputs : l \in DOMAIN task /\ l # k
    <3>1. /\ DOMAIN outputs = 1..Len(outputs) /\ Len(outputs) \in Nat
          /\ DOMAIN task = 1..Len(task) /\ Len(task) \in Nat
      BY DEF TypeOK
    <3>2. Len(outputs) <= Len(task) /\ \A l \in DOMAIN outputs : task[l] = "ended"
      BY <1>0 DEF AwaitedInOrder
    <3> QED BY <1>1, <3>1, <3>2
  <2> QED BY <1>0, <1>1, <1>2, <1>3, <2>1 DEF AwaitedInOrder
<1>8. Progress'
  <2>1. Panicked # {} => Panicked' # {}
    BY <1>1, <1>2 DEF Panicked
  <2>2. Len(task') = Len(task) /\ UNCHANGED <<sources, shard_inputs, outputs, pc>>
    BY <1>1, <1>2
  <2> QED BY <2>1, <2>2 DEF Progress
<1> QED BY <1>4, <1>5, <1>6, <1>7, <1>8

LEMMA AwaitEndedIInv == IInv /\ AwaitEnded => IInv'
<1> SUFFICES ASSUME IInv, AwaitEnded PROVE IInv'
  OBVIOUS
<1> USE DEF IInv, AwaitEnded
<1>1. /\ Len(task) = Len(shard_inputs) /\ Len(outputs) < Len(task)
      /\ Len(outputs) \in Nat /\ Len(task) \in Nat /\ shard_inputs # <<>>
      /\ Awaited = Len(outputs) + 1 /\ Awaited \in DOMAIN task
  BY DEF TypeOK, Progress, Awaited
<1>2. task_output[Awaited] \in Seq(Entry)
  BY <1>1 DEF TypeOK
<1>3. /\ outputs' \in Seq(Seq(Entry)) /\ Len(outputs') = Len(outputs) + 1
      /\ outputs'[Awaited] = task_output[Awaited]
      /\ \A k \in DOMAIN outputs' : k \in DOMAIN outputs \/ k = Awaited
      /\ \A k \in DOMAIN outputs : outputs'[k] = outputs[k]
  <2>1. outputs \in Seq(Seq(Entry)) /\ outputs' = Append(outputs, task_output[Awaited])
    BY DEF TypeOK
  <2> HIDE DEF IInv, AwaitEnded
  <2>2. outputs' \in Seq(Seq(Entry)) /\ Len(outputs') = Len(outputs) + 1
    BY <1>2, <2>1
  <2>3. outputs'[Awaited] = task_output[Awaited]
    BY <1>1, <1>2, <2>1
  <2> QED BY <1>1, <1>2, <2>1, <2>2, <2>3
<1>4. TypeOK'
  BY <1>3 DEF TypeOK
<1>5. SlicedRight' /\ TasksRight'
  BY DEF SlicedRight, TasksRight
<1>6. AwaitedInOrder'
  BY <1>1, <1>3 DEF AwaitedInOrder
<1>7. Progress'
  BY <1>1, <1>3 DEF Progress
<1> QED BY <1>4, <1>5, <1>6, <1>7

LEMMA AwaitPanickedIInv == IInv /\ AwaitPanicked => IInv'
<1> SUFFICES ASSUME IInv, AwaitPanicked PROVE IInv'
  OBVIOUS
<1> USE DEF IInv, AwaitPanicked
<1>1. TypeOK' /\ SlicedRight' /\ TasksRight' /\ AwaitedInOrder'
  BY DEF TypeOK, SlicedRight, TasksRight, AwaitedInOrder
<1>2. Len(outputs) < Len(task) /\ Awaited \in DOMAIN task
  BY DEF TypeOK, Progress, Awaited
<1>3. Progress'
  BY <1>2 DEF Progress, Panicked
<1> QED BY <1>1, <1>3

LEMMA NextIInv == IInv /\ [Next]_vars => IInv'
<1>1. IInv /\ UNCHANGED vars => IInv'
  BY DEF IInv, vars, TypeOK, SlicedRight, Progress, TasksRight, AwaitedInOrder, Panicked
<1> QED
  BY <1>1, CompactInlineIInv, SliceIInv, SpawnIInv, TaskIInv, AwaitEndedIInv,
     AwaitPanickedIInv DEF Next, Coordinator, Terminated

LEMMA Invariance == Spec => []IInv
BY InitIInv, NextIInv, PTL DEF Spec

(* The variables of compact_sharded hold what they should.                 *)
THEOREM TypeCorrect == Spec => []TypeOK
BY Invariance, PTL DEF IInv

(* The windows cut every source into consecutive pieces, none of them      *)
(* backwards, for every number of shards.                                  *)
THEOREM WindowsPartition == Spec => []WindowsPartitionSources
<1>1. ASSUME IInv PROVE WindowsPartitionSources
  <2> SUFFICES ASSUME shard_inputs # <<>>, NEW i \in DOMAIN sources
               PROVE  LET s == sources[i]
                          Start(k) == CutBefore(s, boundaries, k)
                          End(k) == CutAfter(s, boundaries, k)
                      IN  /\ Start(1) = 0 /\ End(Len(shard_inputs)) = Len(s)
                          /\ \A k \in Shards :
                                 /\ Start(k) <= End(k)
                                 /\ k + 1 \in Shards => Start(k + 1) = End(k)
                                 /\ shard_inputs[k][i] = SubSeq(s, Start(k) + 1, End(k))
    BY DEF WindowsPartitionSources
  <2>1. /\ sources \in Seq(Source) /\ sources[i] \in Source
        /\ boundaries \in Seq(Entry) /\ AscendingKeys(boundaries)
        /\ shard_inputs = ShardsOf(sources, boundaries)
        /\ Len(boundaries) \in Nat
        /\ Len(shard_inputs) = Len(boundaries) + 1
        /\ Shards = 1..(Len(boundaries) + 1)
    BY <1>1, SlicedFacts DEF IInv, Shards
  <2>2. /\ CutBefore(sources[i], boundaries, 1) = 0
        /\ CutAfter(sources[i], boundaries, Len(shard_inputs)) = Len(sources[i])
    BY <2>1 DEF CutBefore, CutAfter
  <2>3. ASSUME NEW k \in Shards
        PROVE  /\ CutBefore(sources[i], boundaries, k) <= CutAfter(sources[i], boundaries, k)
               /\ k + 1 \in Shards =>
                    CutBefore(sources[i], boundaries, k + 1) = CutAfter(sources[i], boundaries, k)
               /\ shard_inputs[k][i] =
                    SubSeq(sources[i], CutBefore(sources[i], boundaries, k) + 1,
                                       CutAfter(sources[i], boundaries, k))
    <3>1. CutBefore(sources[i], boundaries, k) <= CutAfter(sources[i], boundaries, k)
      BY <2>1, WindowHoldsRange
    <3>2. ASSUME k + 1 \in Shards
          PROVE  CutBefore(sources[i], boundaries, k + 1) = CutAfter(sources[i], boundaries, k)
      <4>1. k \in 1..Len(boundaries)
        BY <2>1, <3>2
      <4> QED BY <2>1, <4>1, WindowsMeet
    <3>3. shard_inputs[k][i] =
              SubSeq(sources[i], CutBefore(sources[i], boundaries, k) + 1,
                                 CutAfter(sources[i], boundaries, k))
      BY <2>1 DEF ShardsOf, Shard
    <3> QED BY <3>1, <3>2, <3>3
  <2> QED BY <2>2, <2>3
<1> QED BY <1>1, Invariance, PTL

(* All versions of a user key, whatever sources they are in, are in one    *)
(* shard, and the shards are in key order.                                 *)
THEOREM NoStraddling == Spec => []NoKeyInTwoShards
<1>1. ASSUME IInv PROVE NoKeyInTwoShards
  <2> SUFFICES ASSUME NEW k \in Shards, NEW l \in Shards, k < l,
                      NEW e \in InputEntries(shard_inputs[k]),
                      NEW f \in InputEntries(shard_inputs[l])
               PROVE  e.uk < f.uk
    BY DEF NoKeyInTwoShards
  <2>0. shard_inputs # <<>>
    BY <1>1 DEF IInv, TypeOK, Shards
  <2>1. /\ sources \in Seq(Source)
        /\ boundaries \in Seq(Entry) /\ AscendingKeys(boundaries)
        /\ shard_inputs = ShardsOf(sources, boundaries)
        /\ Shards = 1..(Len(boundaries) + 1)
    BY <1>1, <2>0, SlicedFacts DEF IInv, Shards
  <2>2. /\ e \in InputEntries(sources) /\ InRange(boundaries, k, e.uk)
        /\ f \in InputEntries(sources) /\ InRange(boundaries, l, f.uk)
    BY <2>1, ShardHoldsRange
  <2>3. e.uk \in Nat /\ f.uk \in Nat
    BY <2>1, <2>2, InputEntriesTyped
  <2> QED BY <2>1, <2>2, <2>3, RangesApart
<1> QED BY <1>1, Invariance, PTL

(* When the call has returned Ok, every shard was compacted and the files  *)
(* together are the compaction of the sources.                             *)
LEMMA OkIsWhole ==
    ASSUME IInv, pc = "ok"
    PROVE  IsBottommostAcross(outputs, sources)
<1>1. CASE shard_inputs = <<>>
  BY <1>1 DEF IInv, Progress
<1>2. CASE shard_inputs # <<>>
  <2>1. Len(outputs) = Len(task) /\ Len(task) = Len(shard_inputs)
    BY <1>2 DEF IInv, Progress
  <2>2. /\ sources \in Seq(Source)
        /\ boundaries \in Seq(Entry) /\ AscendingKeys(boundaries)
        /\ shard_inputs = ShardsOf(sources, boundaries)
        /\ Len(shard_inputs) = Len(boundaries) + 1
    BY <1>2, SlicedFacts DEF IInv
  <2>3. DOMAIN outputs = 1..(Len(boundaries) + 1) /\ DOMAIN task = DOMAIN outputs
    BY <2>1, <2>2 DEF IInv, TypeOK
  <2>4. \A k \in DOMAIN outputs : IsBottommostOf(outputs[k], shard_inputs[k])
    BY <1>2, <2>3 DEF IInv, AwaitedInOrder, TasksRight
  <2> QED BY <2>2, <2>3, <2>4, ShardsMakeWhole
<1> QED BY <1>1, <1>2

LEMMA OkWillBeWhole ==
    (IInv /\ pc = "ok" => IsBottommostAcross(outputs, sources))'
<1>1. IInv /\ pc = "ok" => IsBottommostAcross(outputs, sources)
  BY OkIsWhole
<1> QED BY <1>1, PTL

(* A sharded compaction that returns Ok returns what an unsharded one may  *)
(* return, in key order over its files: for every input, every number of   *)
(* shards and every schedule of the tasks.                                 *)
THEOREM ShardedIsUnsharded == Spec => []ShardedEqualsUnsharded
<1>1. IInv => ShardedEqualsUnsharded
  BY OkIsWhole DEF ShardedEqualsUnsharded
<1> QED BY <1>1, Invariance, PTL

(* The step that returns Ok finds every task ended.                        *)
LEMMA AllEndedAtOk ==
    ASSUME IInv, [Next]_vars, pc' = "ok", pc # "ok"
    PROVE  \A k \in DOMAIN task : task[k] = "ended"
<1>1. CompactInline \/ AwaitEnded
  BY DEF Next, vars, Coordinator, Slice, Spawn, AwaitPanicked, Task, StartTask, EndTask,
         PanicTask, Terminated
<1>2. CASE CompactInline
  <2>1. task = <<>>
    BY <1>2 DEF IInv, TypeOK, Progress, CompactInline
  <2> QED BY <2>1
<1>3. CASE AwaitEnded
  <2>1. Awaited = Len(task) /\ task[Awaited] = "ended"
    BY <1>3 DEF AwaitEnded
  <2>2. /\ Len(outputs) \in Nat /\ DOMAIN outputs = 1..Len(outputs)
        /\ DOMAIN task = 1..(Len(outputs) + 1) /\ shard_inputs # <<>>
    BY <1>3, <2>1 DEF IInv, TypeOK, Progress, AwaitEnded, Awaited
  <2>3. \A k \in DOMAIN outputs : task[k] = "ended"
    BY <2>2 DEF IInv, AwaitedInOrder
  <2> QED BY <2>1, <2>2, <2>3 DEF Awaited
<1> QED BY <1>1, <1>2, <1>3

(* When the call returns Ok, no thread works on its sources any more.      *)
THEOREM NoStraggler == Spec => NoStragglerAfterOk
<1>1. IInv /\ [Next]_vars => [pc' = "ok" /\ pc # "ok" =>
                                  \A k \in DOMAIN task : task[k] = "ended"]_vars
  BY AllEndedAtOk
<1> QED BY <1>1, Invariance, PTL DEF Spec, NoStragglerAfterOk
-----------------------------------------------------------------------------
(* The job's contract is the one of this module.                           *)
LEMMA SameContract ==
    ASSUME NEW files, NEW input, IsBottommostAcross(files, input)
    PROVE  Job!IsBottommostAcross(files, input)
<1>1. Job!InputEntries(input) = InputEntries(input)
  BY DEF InputEntries, Job!InputEntries, ToSet, Job!ToSet
<1>2. \A k : Job!NewestVersions(input, k) = NewestVersions(input, k)
  BY <1>1 DEF NewestVersions, Job!NewestVersions
<1>3. \A e : Job!IsTombstone(e) <=> IsTombstone(e)
  BY DEF IsTombstone, Job!IsTombstone, TypeByte, Job!TypeByte, TypeDeletion,
         Job!TypeDeletion, TypeSingleDeletion, Job!TypeSingleDeletion
<1>4. Job!LiveKeys(input) = LiveKeys(input)
  BY <1>1, <1>2, <1>3 DEF LiveKeys, Job!LiveKeys
<1> QED BY <1>2, <1>4 DEF IsBottommostAcross, Job!IsBottommostAcross

(* The steps a caller sees, and the ones it does not.                      *)
LEMMA StepsOfJob ==
    ASSUME IInv, IInv', [Next]_vars
    PROVE  [Job!JobNext]_(Job!jobVars)
<1> USE DEF Job!JobNext, Job!jobVars, JobStatus, JobResult
<1>1. CASE CompactInline
  <2>1. Panicked = {} /\ Panicked' = {}
    BY <1>1 DEF IInv, TypeOK, Progress, CompactInline, Panicked
  <2>2. Job!IsBottommostAcross(outputs', sources)
    BY <1>1, OkWillBeWhole, SameContract DEF CompactInline
  <2>3. Job!ReturnOk
    BY <1>1, <2>1, <2>2 DEF CompactInline, Job!ReturnOk
  <2> QED BY <2>3
<1>2. CASE AwaitEnded /\ pc' = "ok"
  <2>1. Panicked = {} /\ Panicked' = {}
    BY <1>2, AllEndedAtOk DEF AwaitEnded, Panicked
  <2>2. Job!IsBottommostAcross(outputs', sources)
    BY <1>2, OkWillBeWhole, SameContract DEF AwaitEnded
  <2>3. Job!ReturnOk
    BY <1>2, <2>1, <2>2 DEF AwaitEnded, Job!ReturnOk
  <2> QED BY <2>3
<1>3. CASE AwaitPanicked
  <2>1. Panicked # {} /\ Panicked' = Panicked
    BY <1>3 DEF IInv, TypeOK, Progress, AwaitPanicked, Panicked, Awaited
  <2>2. Job!ReturnErr
    BY <1>3, <2>1 DEF AwaitPanicked, Job!ReturnErr
  <2> QED BY <2>2
<1>4. ASSUME NEW k \in DOMAIN task, PanicTask(k)
      PROVE  Job!Panic
  <2>1. pc # "ok"
    <3> SUFFICES ASSUME pc = "ok" PROVE FALSE
      OBVIOUS
    <3>1. /\ DOMAIN task = 1..Len(task) /\ DOMAIN outputs = 1..Len(outputs)
          /\ Len(task) \in Nat /\ Len(task) <= Len(shard_inputs)
      BY DEF IInv, TypeOK
    <3>2. shard_inputs # <<>>
      BY <3>1, SMTT(30)
    <3>3. k \in DOMAIN outputs
      BY <3>1, <3>2 DEF IInv, Progress
    <3> QED BY <1>4, <3>2, <3>3 DEF IInv, AwaitedInOrder, PanicTask
  <2>2. Panicked' # {}
    BY <1>4 DEF IInv, TypeOK, PanicTask, Panicked
  <2> QED BY <1>4, <2>1, <2>2 DEF PanicTask, Job!Panic
<1>5. CASE Slice \/ Spawn \/ (AwaitEnded /\ pc' # "ok")
  <2>1. UNCHANGED <<sources, JobStatus, JobResult>>
    BY <1>5 DEF Slice, Spawn, AwaitEnded
  <2>2. (Panicked # {})' <=> (Panicked # {})
    <3>1. CASE Slice
      BY <3>1 DEF Slice, Panicked
    <3>2. CASE Spawn
      <4>1. task \in Seq({"spawned", "running", "ended", "panicked"}) /\ task' = Append(task, "spawned")
        BY <3>2 DEF IInv, TypeOK, Spawn
      <4>2. Panicked' = Panicked
        BY <4>1 DEF Panicked
      <4> QED BY <4>2
    <3>3. CASE AwaitEnded
      BY <3>3 DEF AwaitEnded, Panicked
    <3> QED BY <1>5, <3>1, <3>2, <3>3
  <2> QED BY <2>1, <2>2
<1>6. ASSUME NEW k \in DOMAIN task, StartTask(k) \/ EndTask(k)
      PROVE  UNCHANGED Job!jobVars
  <2>1. UNCHANGED <<sources, JobStatus, JobResult>>
    BY <1>6 DEF StartTask, EndTask
  <2>2. Panicked' = Panicked
    BY <1>6 DEF IInv, TypeOK, StartTask, EndTask, Panicked
  <2> QED BY <2>1, <2>2
<1>7. CASE UNCHANGED vars
  BY <1>7 DEF vars, Panicked
<1> QED
  BY <1>1, <1>2, <1>3, <1>4, <1>5, <1>6, <1>7 DEF Next, Coordinator, Task, Terminated

(* To its caller compact_sharded is one call that returns the compaction   *)
(* of the whole input in one step or, after a panic, an error and nothing. *)
(* (That it returns at all is checked by TLC.)                             *)
THEOREM RefinesJob == Spec => Job!JobSafety
<1>1. Init => Job!JobInit
  BY DEF Init, Job!JobInit, JobStatus, JobResult, Panicked
<1>2. Spec => [][Next]_vars /\ Init
  BY DEF Spec
<1> QED BY <1>1, <1>2, StepsOfJob, Invariance, PTL DEF Job!JobSafety
=============================================================================
