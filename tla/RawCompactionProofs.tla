------------------------ MODULE RawCompactionProofs -------------------------
(***************************************************************************)
(* Keys as bytes, for every base, suffix length, prefix length and bound   *)
(* on the user keys, and every vector of sources of raw keys.              *)
(*                                                                         *)
(* Numbers of equally many digits are ordered by the first digit in which  *)
(* they differ.  That makes the padded prefix agree with memcmp, and the   *)
(* rank of a user key stand for it.  What compact does with keys that have *)
(* their suffix is then what it does with entries; a key without one has   *)
(* no part in it.                                                          *)
(***************************************************************************)
EXTENDS RawCompaction, WellFoundedInduction, TLAPS

(* Every non-empty set of naturals has a least element.                    *)
LEMMA LeastElement ==
    ASSUME NEW T, T \subseteq Nat, T # {}
    PROVE  \E x \in T : \A y \in T : x <= y
<1>1. PICK x \in T : \A y \in T : ~(<<y, x>> \in OpToRel(<, Nat))
  BY NatLessThanWellFounded, WFMin
<1>2. \A y \in T : ~(y < x)
  BY <1>1 DEF OpToRel
<1> QED BY <1>2

(* A set with 0 in it and, with every n in it, n + 1, has every natural    *)
(* number in it.                                                           *)
LEMMA SetInduction ==
    ASSUME NEW T, 0 \in T, \A n \in Nat : n \in T => n + 1 \in T
    PROVE  \A n \in Nat : n \in T
<1> DEFINE Bad == Nat \ T
<1> SUFFICES ASSUME Bad # {} PROVE FALSE
  OBVIOUS
<1>1. PICK x \in Bad : \A y \in Bad : x <= y
  BY LeastElement, Bad \subseteq Nat
<1>2. x \in Nat /\ x # 0 /\ x - 1 \in Nat /\ (x - 1) + 1 = x /\ ~(x <= x - 1)
  OBVIOUS
<1>3. x - 1 \in T
  BY <1>1, <1>2
<1> QED BY <1>2, <1>3
-----------------------------------------------------------------------------
(* Digits.                                                                 *)

(* The recursion of ValueUpTo: such a function exists, digit by digit.     *)
LEMMA ValueOfDigits ==
    ASSUME NEW s, NEW base, Len(s) \in Nat
    PROVE  /\ ValueUpTo(s, base)[0] = 0
           /\ \A n \in 1..Len(s) :
                  ValueUpTo(s, base)[n] = ValueUpTo(s, base)[n - 1] * base + s[n]
<1> DEFINE next(x, n) == x * base + s[n]
           body(f, m) == [n \in 0..m |-> IF n = 0 THEN 0 ELSE next(f[n - 1], n)]
           T == {m \in Nat : \E f : f = body(f, m)}
<1>0. ValueUpTo(s, base) = CHOOSE f : f = body(f, Len(s))
  BY Zenon DEF ValueUpTo
<1> HIDE DEF next
<1>1. 0 \in T
  <2> DEFINE f == [n \in 0..0 |-> 0]
  <2>1. f = body(f, 0)
    OBVIOUS
  <2> QED BY <2>1
<1>2. ASSUME NEW m \in Nat, m \in T PROVE m + 1 \in T
  <2>1. PICK f : f = body(f, m)
    BY <1>2
  <2> DEFINE g == [n \in 0..(m + 1) |-> IF n <= m THEN f[n] ELSE next(f[m], m + 1)]
  <2>2. ASSUME NEW n \in 0..(m + 1) PROVE g[n] = body(g, m + 1)[n]
    <3>1. CASE n = 0
      BY <2>1, <3>1
    <3>2. CASE n # 0 /\ n <= m
      <4>1. n - 1 \in 0..m /\ n \in 0..m
        BY <3>2
      <4>2. f[n] = next(f[n - 1], n)
        BY <2>1, <3>2, <4>1
      <4> QED BY <3>2, <4>1, <4>2
    <3>3. CASE n = m + 1
      <4>1. n # 0 /\ ~(n <= m) /\ n - 1 = m /\ m <= m
        BY <3>3
      <4> QED BY <3>3, <4>1
    <3> QED BY <3>1, <3>2, <3>3
  <2>3. g = body(g, m + 1)
    BY <2>2
  <2>4. \E h : h = body(h, m + 1)
    <3> HIDE DEF g, body
    <3> QED BY <2>3, Zenon
  <2> QED BY <2>4
<1> HIDE DEF T
<1>3. Len(s) \in T
  BY <1>1, <1>2, SetInduction
<1>4. ValueUpTo(s, base) = body(ValueUpTo(s, base), Len(s))
  <2>1. \E f : f = body(f, Len(s))
    BY <1>3 DEF T
  <2> HIDE DEF body
  <2> QED BY <1>0, <2>1, Zenon
<1>5. 0 \in 0..Len(s) /\ \A n \in 1..Len(s) : n \in 0..Len(s) /\ n # 0
  OBVIOUS
<1> HIDE DEF body
<1>6. \A n \in 0..Len(s) :
          ValueUpTo(s, base)[n] = IF n = 0 THEN 0 ELSE next(ValueUpTo(s, base)[n - 1], n)
  BY <1>4 DEF body
<1> QED BY <1>5, <1>6 DEF next

(* One more digit.                                                         *)
LEMMA DigitAppended ==
    ASSUME NEW base \in Nat, base > 0, NEW x \in Nat, NEW y \in Nat,
           NEW d \in 0..(base - 1), NEW e \in 0..(base - 1)
    PROVE  /\ x * base + d \in Nat
           /\ x < y => x * base + d < y * base + e
           /\ (x * base + d) \div base = x /\ (x * base + d) % base = d
<1>1. x * base \in Nat /\ y * base \in Nat
  OBVIOUS
<1>2. x < y => x * base + d < y * base + e
  <2> SUFFICES ASSUME x < y PROVE x * base + d < y * base + e
    OBVIOUS
  <2>1. PICK z \in Nat : y = x + 1 + z
    <3>1. y - x - 1 \in Nat /\ y = x + 1 + (y - x - 1)
      OBVIOUS
    <3> QED BY <3>1
  <2>2. y * base = x * base + base + z * base
    BY <2>1
  <2>3. z * base \in Nat
    OBVIOUS
  <2> QED BY <1>1, <2>2, <2>3
<1>3. x * base + d \in Nat /\ (x * base + d) \div base = x /\ (x * base + d) % base = d
  BY <1>1
<1> QED BY <1>2, <1>3

Digits(base) == 0..(base - 1)

LEMMA ValueIsNat ==
    ASSUME NEW base \in Nat, base > 0, NEW s \in Seq(Digits(base))
    PROVE  \A n \in 0..Len(s) : ValueUpTo(s, base)[n] \in Nat
<1> DEFINE V == ValueUpTo(s, base)
           T == {n \in Nat : n <= Len(s) => V[n] \in Nat}
<1>0. Len(s) \in Nat
  OBVIOUS
<1>1. V[0] = 0 /\ \A n \in 1..Len(s) : V[n] = V[n - 1] * base + s[n]
  BY <1>0, ValueOfDigits
<1>2. \A n \in 1..Len(s) : s[n] \in 0..(base - 1)
  BY DEF Digits
<1> HIDE DEF V
<1>3. 0 \in T
  BY <1>1
<1>4. ASSUME NEW n \in Nat, n \in T PROVE n + 1 \in T
  <2> SUFFICES ASSUME n + 1 <= Len(s) PROVE V[n + 1] \in Nat
    OBVIOUS
  <2>1. n + 1 \in 1..Len(s) /\ (n + 1) - 1 = n /\ V[n] \in Nat
    BY <1>0, <1>4
  <2>2. V[n + 1] = V[n] * base + s[n + 1] /\ s[n + 1] \in 0..(base - 1)
    BY <1>1, <1>2, <2>1
  <2> QED BY <2>1, <2>2, DigitAppended
<1> HIDE DEF T
<1>5. \A n \in Nat : n \in T
  BY <1>3, <1>4, SetInduction
<1> QED BY <1>0, <1>5 DEF T, V

(* Of two numbers of equally many digits the one with the smaller digit    *)
(* where they first differ is smaller.                                     *)
LEMMA FirstDigitDecides ==
    ASSUME NEW base \in Nat, base > 0,
           NEW s \in Seq(Digits(base)), NEW t \in Seq(Digits(base)), Len(s) = Len(t),
           NEW k \in 1..Len(s), s[k] < t[k], \A m \in 1..(k - 1) : s[m] = t[m]
    PROVE  ValueOf(s, base) < ValueOf(t, base)
<1> DEFINE V == ValueUpTo(s, base)
           W == ValueUpTo(t, base)
           N == Len(s)
<1>0. N \in Nat /\ k \in 1..N
  OBVIOUS
<1>1. /\ V[0] = 0 /\ \A n \in 1..N : V[n] = V[n - 1] * base + s[n]
      /\ W[0] = 0 /\ \A n \in 1..N : W[n] = W[n - 1] * base + t[n]
  BY <1>0, ValueOfDigits
<1>2. \A n \in 1..N : s[n] \in 0..(base - 1) /\ t[n] \in 0..(base - 1)
  BY DEF Digits
<1>3. \A n \in 0..N : V[n] \in Nat /\ W[n] \in Nat
  BY ValueIsNat
<1> HIDE DEF V, W, N
<1>4. V[k - 1] = W[k - 1]
  <2> DEFINE T == {n \in Nat : n <= k - 1 => V[n] = W[n]}
  <2>1. 0 \in T
    BY <1>1
  <2>2. ASSUME NEW n \in Nat, n \in T PROVE n + 1 \in T
    <3> SUFFICES ASSUME n + 1 <= k - 1 PROVE V[n + 1] = W[n + 1]
      OBVIOUS
    <3>1. n + 1 \in 1..N /\ n + 1 \in 1..(k - 1) /\ (n + 1) - 1 = n /\ V[n] = W[n]
      BY <1>0, <2>2
    <3>2. s[n + 1] = t[n + 1]
      BY <3>1
    <3> QED BY <1>1, <3>1, <3>2
  <2> HIDE DEF T
  <2>3. k - 1 \in T
    BY <1>0, <2>1, <2>2, SetInduction, SMTT(30)
  <2> QED BY <1>0, <2>3 DEF T
<1>5. V[k] < W[k]
  <2>1. k - 1 \in 0..N
    BY <1>0
  <2>2. V[k] = V[k - 1] * base + s[k] /\ W[k] = V[k - 1] * base + t[k]
    BY <1>0, <1>1, <1>4
  <2>3. V[k - 1] * base \in Nat
    BY <1>3, <2>1
  <2> QED BY <1>0, <1>2, <2>2, <2>3
<1>6. V[N] < W[N]
  <2> DEFINE T == {d \in Nat : k + d <= N => V[k + d] < W[k + d]}
  <2>1. 0 \in T
    BY <1>0, <1>5
  <2>2. ASSUME NEW d \in Nat, d \in T PROVE d + 1 \in T
    <3> SUFFICES ASSUME k + (d + 1) <= N PROVE V[k + (d + 1)] < W[k + (d + 1)]
      OBVIOUS
    <3> DEFINE n == k + d
    <3>1. n + 1 \in 1..N /\ n \in 0..N /\ (n + 1) - 1 = n /\ V[n] < W[n] /\ k + (d + 1) = n + 1
      BY <1>0, <2>2
    <3> HIDE DEF n
    <3>2. /\ V[n + 1] = V[n] * base + s[n + 1] /\ W[n + 1] = W[n] * base + t[n + 1]
          /\ V[n] \in Nat /\ W[n] \in Nat
          /\ s[n + 1] \in 0..(base - 1) /\ t[n + 1] \in 0..(base - 1)
      BY <1>1, <1>2, <1>3, <3>1
    <3>3. V[n] * base + s[n + 1] < W[n] * base + t[n + 1]
      BY <3>1, <3>2, DigitAppended
    <3> QED BY <3>1, <3>2, <3>3
  <2> HIDE DEF T
  <2>3. \A d \in Nat : d \in T
    BY <2>1, <2>2, SetInduction
  <2>4. N - k \in Nat /\ k + (N - k) = N
    BY <1>0
  <2> QED BY <1>0, <2>3, <2>4 DEF T
<1> QED BY <1>6 DEF V, W, N, ValueOf

(* Two different numbers of equally many digits differ in a first one.     *)
LEMMA FirstDifference ==
    ASSUME NEW S, NEW s \in Seq(S), NEW t \in Seq(S), Len(s) = Len(t), s # t
    PROVE  \E k \in 1..Len(s) : s[k] # t[k] /\ \A m \in 1..(k - 1) : s[m] = t[m]
<1> DEFINE T == {n \in 1..Len(s) : s[n] # t[n]}
<1>1. T \subseteq Nat /\ T # {}
  OBVIOUS
<1>2. PICK k \in T : \A n \in T : k <= n
  BY <1>1, LeastElement
<1>3. ASSUME NEW m \in 1..(k - 1) PROVE s[m] = t[m]
  <2>1. m \in 1..Len(s) /\ ~(k <= m)
    OBVIOUS
  <2> QED BY <1>2, <2>1
<1> QED BY <1>2, <1>3
-----------------------------------------------------------------------------
(* memcmp, the padded prefix and the rank.                                 *)

(* Two byte strings are equal, or memcmp puts one before the other.        *)
LEMMA MemLessTotal ==
    ASSUME NEW a \in Seq(Byte), NEW b \in Seq(Byte)
    PROVE  a = b \/ MemLess(a, b) \/ MemLess(b, a)
<1> DEFINE same(n) == n \in 1..Len(a) /\ n \in 1..Len(b) /\ a[n] = b[n]
           T == {n \in Nat \ {0} : ~same(n)}
<1>0. Len(a) \in Nat /\ Len(b) \in Nat /\ DOMAIN a = 1..Len(a) /\ DOMAIN b = 1..Len(b)
  OBVIOUS
<1>1. Len(a) + 1 \in T
  BY <1>0
<1>2. T \subseteq Nat /\ T # {}
  BY <1>1
<1>3. PICK n \in T : \A m \in T : n <= m
  BY <1>2, LeastElement
<1>4. ASSUME NEW m \in 1..(n - 1)
      PROVE  m \in 1..Len(a) /\ m \in 1..Len(b) /\ a[m] = b[m]
  <2>1. m \in Nat \ {0} /\ ~(n <= m)
    BY <1>3
  <2> QED BY <1>3, <2>1
<1>5. CASE n \in 1..Len(b) /\ (n \in 1..Len(a) => a[n] < b[n])
  BY <1>0, <1>4, <1>5 DEF MemLess
<1>6. CASE n \in 1..Len(a) /\ (n \in 1..Len(b) => b[n] < a[n])
  BY <1>0, <1>4, <1>6 DEF MemLess
<1>7. CASE n \notin 1..Len(a) /\ n \notin 1..Len(b)
  <2>1. n \in Nat \ {0} /\ Len(a) < n /\ Len(b) < n
    BY <1>0, <1>7
  <2>2. Len(a) = n - 1 /\ Len(b) = n - 1
    <3>1. n - 1 = 0 \/ n - 1 \in 1..(n - 1)
      BY <2>1
    <3> QED BY <1>0, <1>4, <2>1, <3>1
  <2> QED BY <1>0, <1>4, <2>2
<1>8. n \in 1..Len(a) /\ n \in 1..Len(b) => a[n] < b[n] \/ b[n] < a[n]
  <2> SUFFICES ASSUME n \in 1..Len(a), n \in 1..Len(b) PROVE a[n] < b[n] \/ b[n] < a[n]
    OBVIOUS
  <2>1. a[n] # b[n] /\ a[n] \in Byte /\ b[n] \in Byte
    BY <1>3
  <2> QED BY <2>1, BytesAssumption DEF Byte
<1> QED BY <1>5, <1>6, <1>7, <1>8

(* It never puts each before the other.                                    *)
LEMMA MemLessAsymmetric ==
    ASSUME NEW a \in Seq(Byte), NEW b \in Seq(Byte), MemLess(a, b)
    PROVE  ~MemLess(b, a) /\ a # b
<1>0. Len(a) \in Nat /\ Len(b) \in Nat /\ DOMAIN a = 1..Len(a) /\ DOMAIN b = 1..Len(b)
  OBVIOUS
<1>1. PICK n \in 1..Len(b) :
          /\ \A m \in 1..(n - 1) : m \in 1..Len(a) /\ a[m] = b[m]
          /\ n \in 1..Len(a) => a[n] < b[n]
  BY <1>0 DEF MemLess
<1>2. \A x \in Byte, y \in Byte : x < y => ~(y < x) /\ x # y
  BY BytesAssumption DEF Byte
<1>3. n \in 1..Len(a) => a[n] \in Byte /\ b[n] \in Byte
  BY <1>0
<1>4. a # b
  BY <1>1, <1>2, <1>3
<1>5. ASSUME NEW k \in 1..Len(a),
             \A m \in 1..(k - 1) : m \in 1..Len(b) /\ b[m] = a[m],
             k \in 1..Len(b) => b[k] < a[k]
      PROVE  FALSE
  <2>1. a[k] \in Byte /\ (k \in 1..Len(b) => b[k] \in Byte)
    BY <1>0
  <2>2. CASE k < n
    <3>1. k \in 1..(n - 1) /\ k \in 1..Len(b)
      BY <1>0, <2>2
    <3> QED BY <1>1, <1>2, <1>5, <2>1, <3>1
  <2>3. CASE n < k
    <3>1. n \in 1..(k - 1) /\ n \in 1..Len(a)
      BY <1>0, <2>3
    <3> QED BY <1>1, <1>2, <1>3, <1>5, <3>1
  <2>4. CASE n = k
    BY <1>1, <1>2, <1>5, <2>1, <2>4
  <2> QED BY <1>0, <2>2, <2>3, <2>4
<1> QED BY <1>0, <1>4, <1>5 DEF MemLess

LEMMA PaddedIsDigits ==
    ASSUME NEW a \in Seq(Byte)
    PROVE  Padded(a) \in Seq(Digits(Base)) /\ Len(Padded(a)) = PrefixLen
           /\ Base \in Nat /\ Base > 0
<1>1. PrefixLen \in Nat /\ Base \in Nat /\ Base > 0 /\ 0 \in Digits(Base)
  BY BytesAssumption DEF Digits
<1>2. \A n \in 1..PrefixLen : (IF n \in DOMAIN a THEN a[n] ELSE 0) \in Digits(Base)
  BY <1>1 DEF Byte, Digits
<1>3. Padded(a) \in [1..PrefixLen -> Digits(Base)]
  BY <1>2 DEF Padded
<1> QED BY <1>1, <1>3

(* A smaller prefix is the prefix of a smaller key: where the padded       *)
(* strings first differ the strings do too, or the smaller one is over.    *)
LEMMA SmallerPrefix ==
    ASSUME NEW a \in Seq(Byte), NEW b \in Seq(Byte), Padded(a) # Padded(b), MemLess(a, b)
    PROVE  LoadBePrefix(a) < LoadBePrefix(b)
<1> DEFINE p == Padded(a)
           q == Padded(b)
<1>0. Len(a) \in Nat /\ Len(b) \in Nat /\ DOMAIN a = 1..Len(a) /\ DOMAIN b = 1..Len(b)
      /\ PrefixLen \in Nat /\ Base \in Nat
  BY BytesAssumption
<1>1. /\ p \in Seq(Digits(Base)) /\ q \in Seq(Digits(Base)) /\ Base > 0
      /\ Len(p) = PrefixLen /\ Len(q) = PrefixLen
  BY PaddedIsDigits
<1>2. PICK k \in 1..Len(p) : p[k] # q[k] /\ \A m \in 1..(k - 1) : p[m] = q[m]
  <2>1. p # q /\ Len(p) = Len(q)
    BY <1>1
  <2> HIDE DEF p, q
  <2>2. p \in Seq(Digits(Base)) /\ q \in Seq(Digits(Base))
    BY <1>1
  <2> QED BY <2>1, <2>2, FirstDifference
<1>3. PICK n \in 1..Len(b) :
          /\ \A m \in 1..(n - 1) : m \in 1..Len(a) /\ a[m] = b[m]
          /\ n \in 1..Len(a) => a[n] < b[n]
  BY <1>0 DEF MemLess
<1>4. \A m \in 1..PrefixLen : /\ p[m] = IF m \in 1..Len(a) THEN a[m] ELSE 0
                              /\ q[m] = IF m \in 1..Len(b) THEN b[m] ELSE 0
  BY <1>0 DEF Padded
<1>5. \A m \in 1..Len(b) : b[m] \in Nat
  BY <1>0 DEF Byte
<1>6. \A m \in 1..Len(a) : a[m] \in Nat
  BY <1>0 DEF Byte
<1> HIDE DEF p, q
<1>7. k \in 1..PrefixLen
  BY <1>1
<1>8. ~(k < n)
  <2> SUFFICES ASSUME k < n PROVE FALSE
    OBVIOUS
  <2>1. k \in 1..(n - 1) /\ k \in 1..Len(b)
    BY <1>0, <1>7
  <2> QED BY <1>2, <1>3, <1>4, <1>7, <2>1
<1>9. p[k] < q[k]
  <2>1. CASE k = n
    BY <1>2, <1>3, <1>4, <1>5, <1>7, <2>1
  <2>2. CASE n < k
    <3>1. n \in 1..(k - 1) /\ n \in 1..PrefixLen
      BY <1>0, <1>7, <2>2
    <3>2. p[n] = q[n] /\ q[n] = b[n]
      BY <1>2, <1>3, <1>4, <3>1
    <3>3. n \notin 1..Len(a)
      BY <1>3, <1>4, <1>5, <1>6, <3>1, <3>2
    <3>4. k \notin 1..Len(a)
      BY <1>0, <1>7, <2>2, <3>3
    <3>5. p[k] = 0 /\ q[k] \in Nat
      BY <1>4, <1>5, <1>7, <3>4
    <3> QED BY <1>2, <3>5
  <2> QED BY <1>0, <1>7, <1>8, <2>1, <2>2
<1>10. ValueOf(p, Base) < ValueOf(q, Base)
  BY <1>0, <1>1, <1>2, <1>9, FirstDigitDecides
<1> QED BY <1>10 DEF p, q, LoadBePrefix, FromBeBytes

(* The contract of sort_prefix.                                            *)
LEMMA PrefixContract ==
    ASSUME NEW a \in Seq(Byte), NEW b \in Seq(Byte)
    PROVE  ComparePrefixLess(a, b) <=> MemLess(a, b)
<1>0. LoadBePrefix(a) \in Nat /\ LoadBePrefix(b) \in Nat
  <2>1. \A c \in Seq(Byte) : LoadBePrefix(c) \in Nat
    <3> SUFFICES ASSUME NEW c \in Seq(Byte) PROVE LoadBePrefix(c) \in Nat
      OBVIOUS
    <3>1. Padded(c) \in Seq(Digits(Base)) /\ Base \in Nat /\ Base > 0
          /\ Len(Padded(c)) \in 0..Len(Padded(c))
      BY PaddedIsDigits, BytesAssumption
    <3> QED BY <3>1, ValueIsNat DEF LoadBePrefix, FromBeBytes, ValueOf
  <2> QED BY <2>1
<1>1. CASE Padded(a) = Padded(b)
  BY <1>0, <1>1 DEF ComparePrefixLess, LoadBePrefix
<1>2. CASE Padded(a) # Padded(b) /\ MemLess(a, b)
  BY <1>2, SmallerPrefix DEF ComparePrefixLess
<1>3. CASE Padded(a) # Padded(b) /\ ~MemLess(a, b)
  <2>1. MemLess(b, a)
    BY <1>3, MemLessTotal
  <2>2. LoadBePrefix(b) < LoadBePrefix(a)
    BY <1>3, <2>1, SmallerPrefix
  <2> QED BY <1>0, <1>3, <2>2 DEF ComparePrefixLess
<1> QED BY <1>1, <1>2, <1>3

UserKeyBytes == {u \in Seq(Byte) : Len(u) <= MaxUserKeyLen}

LEMMA RankIsDigits ==
    ASSUME NEW u \in UserKeyBytes
    PROVE  RankDigits(u) \in Seq(Digits(Base + 1)) /\ Len(RankDigits(u)) = MaxUserKeyLen
           /\ Base + 1 \in Nat /\ Base + 1 > 0 /\ Rank(u) \in Nat
<1>1. MaxUserKeyLen \in Nat /\ Base \in Nat /\ 0 \in Digits(Base + 1) /\ u \in Seq(Byte)
  BY BytesAssumption DEF Digits, UserKeyBytes
<1>2. \A n \in 1..MaxUserKeyLen : (IF n \in DOMAIN u THEN u[n] + 1 ELSE 0) \in Digits(Base + 1)
  BY <1>1 DEF Byte, Digits
<1>3. RankDigits(u) \in [1..MaxUserKeyLen -> Digits(Base + 1)]
  BY <1>2 DEF RankDigits
<1>4. RankDigits(u) \in Seq(Digits(Base + 1)) /\ Len(RankDigits(u)) = MaxUserKeyLen
  BY <1>1, <1>3
<1>5. Base + 1 \in Nat /\ Base + 1 > 0 /\ MaxUserKeyLen \in 0..MaxUserKeyLen
  BY <1>1
<1>6. Rank(u) \in Nat
  BY <1>4, <1>5, ValueIsNat DEF Rank, ValueOf
<1> QED BY <1>4, <1>5, <1>6

LEMMA RankOfSmaller ==
    ASSUME NEW u \in UserKeyBytes, NEW w \in UserKeyBytes, MemLess(u, w)
    PROVE  Rank(u) < Rank(w)
<1> DEFINE p == RankDigits(u)
           q == RankDigits(w)
<1>0. /\ Len(u) \in Nat /\ Len(w) \in Nat /\ DOMAIN u = 1..Len(u) /\ DOMAIN w = 1..Len(w)
      /\ Len(w) <= MaxUserKeyLen /\ MaxUserKeyLen \in Nat
      /\ u \in Seq(Byte) /\ w \in Seq(Byte)
  BY BytesAssumption DEF UserKeyBytes
<1>1. /\ p \in Seq(Digits(Base + 1)) /\ q \in Seq(Digits(Base + 1))
      /\ Base + 1 \in Nat /\ Base + 1 > 0
      /\ Len(p) = MaxUserKeyLen /\ Len(q) = MaxUserKeyLen
  BY RankIsDigits
<1>2. PICK n \in 1..Len(w) :
          /\ \A m \in 1..(n - 1) : m \in 1..Len(u) /\ u[m] = w[m]
          /\ n \in 1..Len(u) => u[n] < w[n]
  BY <1>0 DEF MemLess
<1>3. \A m \in 1..MaxUserKeyLen : /\ p[m] = IF m \in 1..Len(u) THEN u[m] + 1 ELSE 0
                                  /\ q[m] = IF m \in 1..Len(w) THEN w[m] + 1 ELSE 0
  BY <1>0 DEF RankDigits
<1>4. n \in 1..MaxUserKeyLen /\ \A m \in 1..(n - 1) : m \in 1..MaxUserKeyLen /\ m \in 1..Len(w)
  BY <1>0
<1>5. w[n] \in Nat /\ (n \in 1..Len(u) => u[n] \in Nat)
  <2>1. w[n] \in Byte /\ (n \in 1..Len(u) => u[n] \in Byte)
    BY <1>0
  <2>2. Byte \subseteq Nat
    BY BytesAssumption DEF Byte
  <2> QED BY <2>1, <2>2
<1> HIDE DEF p, q
<1>6. p[n] < q[n]
  BY <1>2, <1>3, <1>4, <1>5
<1>7. \A m \in 1..(n - 1) : p[m] = q[m]
  BY <1>2, <1>3, <1>4
<1>8. n \in 1..Len(p)
  BY <1>1, <1>4
<1>9. ValueOf(p, Base + 1) < ValueOf(q, Base + 1)
  BY <1>1, <1>6, <1>7, <1>8, FirstDigitDecides
<1> QED BY <1>9 DEF p, q, Rank

(* Ranks are ordered as memcmp orders user keys, and tell them apart.      *)
LEMMA RankOrder ==
    ASSUME NEW u \in UserKeyBytes, NEW w \in UserKeyBytes
    PROVE  (MemLess(u, w) <=> Rank(u) < Rank(w)) /\ (u = w <=> Rank(u) = Rank(w))
<1>1. Rank(u) \in Nat /\ Rank(w) \in Nat /\ u \in Seq(Byte) /\ w \in Seq(Byte)
  BY RankIsDigits DEF UserKeyBytes
<1>2. u = w \/ MemLess(u, w) \/ MemLess(w, u)
  BY <1>1, MemLessTotal
<1>3. MemLess(u, w) => Rank(u) < Rank(w)
  BY RankOfSmaller
<1>4. MemLess(w, u) => Rank(w) < Rank(u)
  BY RankOfSmaller
<1>5. u = w => ~MemLess(u, w)
  BY <1>1, MemLessAsymmetric
<1> QED BY <1>1, <1>2, <1>3, <1>4, <1>5
-----------------------------------------------------------------------------
(* The suffix.                                                             *)

(* The recursion of Shifted.                                               *)
LEMMA ShiftedByByte ==
    ASSUME NEW v, NEW len \in Nat
    PROVE  /\ Shifted(v, len)[0] = v
           /\ \A n \in 1..len : Shifted(v, len)[n] = Shifted(v, len)[n - 1] \div Base
<1> DEFINE body(f, m) == [n \in 0..m |-> IF n = 0 THEN v ELSE f[n - 1] \div Base]
           T == {m \in Nat : \E f : f = body(f, m)}
<1>0. Shifted(v, len) = CHOOSE f : f = body(f, len)
  BY Zenon DEF Shifted
<1>1. 0 \in T
  <2> DEFINE f == [n \in 0..0 |-> v]
  <2>1. f = body(f, 0)
    OBVIOUS
  <2> QED BY <2>1
<1>2. ASSUME NEW m \in Nat, m \in T PROVE m + 1 \in T
  <2>1. PICK f : f = body(f, m)
    BY <1>2
  <2> DEFINE g == [n \in 0..(m + 1) |-> IF n <= m THEN f[n] ELSE f[m] \div Base]
  <2>2. ASSUME NEW n \in 0..(m + 1) PROVE g[n] = body(g, m + 1)[n]
    <3>1. CASE n = 0
      BY <2>1, <3>1
    <3>2. CASE n # 0 /\ n <= m
      <4>1. n - 1 \in 0..m /\ n \in 0..m
        BY <3>2
      <4>2. f[n] = f[n - 1] \div Base
        BY <2>1, <3>2, <4>1
      <4> QED BY <3>2, <4>1, <4>2
    <3>3. CASE n = m + 1
      <4>1. n # 0 /\ ~(n <= m) /\ n - 1 = m /\ m <= m
        BY <3>3
      <4> QED BY <3>3, <4>1
    <3> QED BY <3>1, <3>2, <3>3
  <2>3. g = body(g, m + 1)
    BY <2>2
  <2>4. \E h : h = body(h, m + 1)
    <3> HIDE DEF g, body
    <3> QED BY <2>3, Zenon
  <2> QED BY <2>4
<1> HIDE DEF T
<1>3. len \in T
  BY <1>1, <1>2, SetInduction
<1>4. Shifted(v, len) = body(Shifted(v, len), len)
  <2>1. \E f : f = body(f, len)
    BY <1>3 DEF T
  <2> HIDE DEF body
  <2> QED BY <1>0, <2>1, Zenon
<1>5. 0 \in 0..len /\ \A n \in 1..len : n \in 0..len /\ n # 0
  OBVIOUS
<1> HIDE DEF body
<1>6. \A n \in 0..len : Shifted(v, len)[n] = IF n = 0 THEN v ELSE Shifted(v, len)[n - 1] \div Base
  BY <1>4 DEF body
<1> QED BY <1>5, <1>6

LEMMA ReverseOfBytes ==
    ASSUME NEW s \in Seq(Byte)
    PROVE  /\ Reverse(s) \in Seq(Digits(Base)) /\ Len(Reverse(s)) = Len(s)
           /\ \A n \in 1..Len(s) : Reverse(s)[n] = s[(Len(s) - n) + 1]
           /\ Base \in Nat /\ Base > 0
<1>1. Len(s) \in Nat /\ Base \in Nat /\ Base > 0
  BY BytesAssumption
<1>2. \A n \in 1..Len(s) : (Len(s) - n) + 1 \in 1..Len(s)
  BY <1>1
<1>3. \A n \in 1..Len(s) : s[(Len(s) - n) + 1] \in Digits(Base)
  <2>1. \A n \in 1..Len(s) : s[(Len(s) - n) + 1] \in Byte
    BY <1>2
  <2> QED BY <2>1 DEF Byte, Digits
<1>4. Reverse(s) \in [1..Len(s) -> Digits(Base)]
  BY <1>3 DEF Reverse
<1> QED BY <1>1, <1>4 DEF Reverse

LEMMA FromLeIsNat ==
    ASSUME NEW s \in Seq(Byte)
    PROVE  FromLeBytes(s) \in Nat
<1>1. Len(Reverse(s)) \in 0..Len(Reverse(s))
  BY ReverseOfBytes
<1> QED BY <1>1, ReverseOfBytes, ValueIsNat DEF FromLeBytes, FromBeBytes, ValueOf

(* from_le_bytes, then to_le_bytes, gives the bytes back.                  *)
LEMMA ToLeOfFromLe ==
    ASSUME NEW s \in Seq(Byte)
    PROVE  ToLeBytes(FromLeBytes(s), Len(s)) = s
<1> DEFINE N == Len(s)
           r == Reverse(s)
           V == ValueUpTo(r, Base)
           v == FromLeBytes(s)
           R == Shifted(v, N)
<1>0. N \in Nat /\ r \in Seq(Digits(Base)) /\ Len(r) = N /\ Base \in Nat /\ Base > 0
  BY ReverseOfBytes
<1>1. V[0] = 0 /\ \A n \in 1..N : V[n] = V[n - 1] * Base + r[n]
  BY <1>0, ValueOfDigits
<1>2. \A n \in 0..N : V[n] \in Nat
  BY <1>0, ValueIsNat
<1>3. R[0] = V[N] /\ \A n \in 1..N : R[n] = R[n - 1] \div Base
  BY <1>0, ShiftedByByte DEF FromLeBytes, FromBeBytes, ValueOf
<1>4. \A n \in 1..N : r[n] \in 0..(Base - 1) /\ r[n] = s[(N - n) + 1]
  BY <1>0, ReverseOfBytes DEF Digits
<1>5. ToLeBytes(v, N) = [n \in 1..N |-> R[n - 1] % Base]
  BY DEF ToLeBytes
<1>6. s = [n \in 1..N |-> s[n]]
  OBVIOUS
<1> HIDE DEF N, r, V, v, R
<1>7. ASSUME NEW n \in 1..N
      PROVE  V[n] \div Base = V[n - 1] /\ V[n] % Base = r[n]
  <2>1. V[n - 1] \in Nat /\ r[n] \in 0..(Base - 1) /\ V[n] = V[n - 1] * Base + r[n]
    BY <1>0, <1>1, <1>2, <1>4
  <2>2. /\ (V[n - 1] * Base + r[n]) \div Base = V[n - 1]
        /\ (V[n - 1] * Base + r[n]) % Base = r[n]
    BY <1>0, <2>1, DigitAppended
  <2> QED BY <2>1, <2>2
<1>8. \A n \in 0..N : R[n] = V[N - n]
  <2> DEFINE T == {n \in Nat : n <= N => R[n] = V[N - n]}
  <2>1. 0 \in T
    BY <1>0, <1>3
  <2>2. ASSUME NEW n \in Nat, n \in T PROVE n + 1 \in T
    <3> SUFFICES ASSUME n + 1 <= N PROVE R[n + 1] = V[N - (n + 1)]
      OBVIOUS
    <3>1. n + 1 \in 1..N /\ (n + 1) - 1 = n /\ N - n \in 1..N /\ (N - n) - 1 = N - (n + 1)
          /\ R[n] = V[N - n]
      BY <1>0, <2>2
    <3> QED BY <1>3, <1>7, <3>1
  <2> HIDE DEF T
  <2>3. \A n \in Nat : n \in T
    BY <2>1, <2>2, SetInduction
  <2> QED BY <1>0, <2>3 DEF T
<1>9. ASSUME NEW n \in 1..N PROVE R[n - 1] % Base = s[n]
  <2>1. n - 1 \in 0..N /\ N - (n - 1) \in 1..N /\ (N - (N - (n - 1))) + 1 = n
    BY <1>0
  <2>2. R[n - 1] % Base = r[N - (n - 1)]
    BY <1>7, <1>8, <2>1
  <2> QED BY <1>4, <2>1, <2>2
<1>10. ToLeBytes(v, N) = s
  BY <1>5, <1>6, <1>9
<1> QED BY <1>10 DEF v, N

(* A single byte, as that many little-endian bytes and back.               *)
LEMMA LeBytesOfByte ==
    ASSUME NEW v \in Byte, NEW len \in Nat, len > 0
    PROVE  /\ ToLeBytes(v, len) \in Seq(Byte) /\ Len(ToLeBytes(v, len)) = len
           /\ FromLeBytes(ToLeBytes(v, len)) = v
<1> DEFINE s == ToLeBytes(v, len)
           R == Shifted(v, len)
           r == Reverse(s)
           V == ValueUpTo(r, Base)
<1>0. Base \in Nat /\ Base > 1 /\ v \in 0..(Base - 1)
  BY BytesAssumption DEF Byte
<1>1. R[0] = v /\ \A n \in 1..len : R[n] = R[n - 1] \div Base
  BY ShiftedByByte
<1>2. s = [n \in 1..len |-> R[n - 1] % Base]
  BY DEF ToLeBytes
<1> HIDE DEF s, R
<1>3. 0 \div Base = 0 /\ 0 % Base = 0 /\ v \div Base = 0 /\ v % Base = v
  BY <1>0
<1>4. \A n \in 1..len : R[n] = 0
  <2> DEFINE T == {n \in Nat : n + 1 <= len => R[n + 1] = 0}
  <2>1. 0 \in T
    BY <1>1, <1>3
  <2>2. ASSUME NEW n \in Nat, n \in T PROVE n + 1 \in T
    <3> SUFFICES ASSUME (n + 1) + 1 <= len PROVE R[(n + 1) + 1] = 0
      OBVIOUS
    <3>1. (n + 1) + 1 \in 1..len /\ ((n + 1) + 1) - 1 = n + 1 /\ R[n + 1] = 0
      BY <2>2
    <3> QED BY <1>1, <1>3, <3>1
  <2> HIDE DEF T
  <2>3. \A n \in Nat : n \in T
    BY <2>1, <2>2, SetInduction
  <2> SUFFICES ASSUME NEW n \in 1..len PROVE R[n] = 0
    OBVIOUS
  <2>4. n - 1 \in Nat /\ (n - 1) + 1 = n /\ n <= len
    OBVIOUS
  <2> QED BY <2>3, <2>4 DEF T
<1>5. s[1] = v /\ \A n \in 2..len : s[n] = 0
  <2>1. 1 \in 1..len /\ 1 - 1 = 0 /\ \A n \in 2..len : n \in 1..len /\ n - 1 \in 1..len
    OBVIOUS
  <2> QED BY <1>1, <1>2, <1>3, <1>4, <2>1
<1>6. s \in Seq(Byte) /\ Len(s) = len
  <2>1. \A n \in 1..len : R[n - 1] % Base \in Byte
    <3> SUFFICES ASSUME NEW n \in 1..len PROVE s[n] \in Byte
      BY <1>2
    <3>1. n = 1 \/ n \in 2..len
      OBVIOUS
    <3> QED BY <1>0, <1>5, <3>1 DEF Byte
  <2> QED BY <1>2, <2>1
<1>7. /\ r \in Seq(Digits(Base)) /\ Len(r) = len
      /\ \A n \in 1..len : r[n] = s[(len - n) + 1]
  BY <1>6, ReverseOfBytes
<1>8. V[0] = 0 /\ \A n \in 1..len : V[n] = V[n - 1] * Base + r[n]
  BY <1>7, ValueOfDigits
<1>9. FromLeBytes(s) = V[len]
  BY <1>7 DEF FromLeBytes, FromBeBytes, ValueOf
<1> HIDE DEF r, V
<1>10. V[len - 1] = 0
  <2> DEFINE T == {n \in Nat : n <= len - 1 => V[n] = 0}
  <2>1. 0 \in T
    BY <1>8
  <2>2. ASSUME NEW n \in Nat, n \in T PROVE n + 1 \in T
    <3> SUFFICES ASSUME n + 1 <= len - 1 PROVE V[n + 1] = 0
      OBVIOUS
    <3>1. n + 1 \in 1..len /\ (n + 1) - 1 = n /\ V[n] = 0 /\ (len - (n + 1)) + 1 \in 2..len
      BY <2>2
    <3>2. r[n + 1] = 0
      BY <1>5, <1>7, <3>1
    <3> QED BY <1>0, <1>8, <3>1, <3>2
  <2> HIDE DEF T
  <2>3. \A n \in Nat : n \in T
    BY <2>1, <2>2, SetInduction
  <2>4. len - 1 \in Nat /\ len - 1 <= len - 1
    OBVIOUS
  <2> QED BY <2>3, <2>4 DEF T
<1>11. V[len] = v
  <2>1. len \in 1..len /\ (len - len) + 1 = 1
    OBVIOUS
  <2>2. r[len] = v
    BY <1>5, <1>7, <2>1
  <2>3. V[len] = 0 * Base + v
    BY <1>8, <1>10, <2>1, <2>2
  <2> QED BY <1>0, <2>3
<1> QED BY <1>6, <1>9, <1>11 DEF s

(* Putting two sequences together, and taking them apart.                  *)
LEMMA Joined ==
    ASSUME NEW S, NEW u \in Seq(S), NEW v \in Seq(S)
    PROVE  /\ u \o v \in Seq(S) /\ Len(u \o v) = Len(u) + Len(v)
           /\ \A n \in 1..Len(u) : (u \o v)[n] = u[n]
           /\ \A n \in 1..Len(v) : (u \o v)[Len(u) + n] = v[n]
OBVIOUS

LEMMA Cut ==
    ASSUME NEW S, NEW c \in Seq(S), NEW k \in Nat, NEW l \in Nat, Len(c) = k + l
    PROVE  /\ SubSeq(c, 1, k) \in Seq(S) /\ Len(SubSeq(c, 1, k)) = k
           /\ \A n \in 1..k : SubSeq(c, 1, k)[n] = c[n]
           /\ SubSeq(c, k + 1, k + l) \in Seq(S) /\ Len(SubSeq(c, k + 1, k + l)) = l
           /\ \A n \in 1..l : SubSeq(c, k + 1, k + l)[n] = c[k + n]
OBVIOUS

LEMMA SameSequence ==
    ASSUME NEW S, NEW s \in Seq(S), NEW t \in Seq(S), Len(s) = Len(t),
           \A n \in 1..Len(s) : s[n] = t[n]
    PROVE  s = t
OBVIOUS

(* A key is its user key and its suffix.                                   *)
LEMMA KeyParts ==
    ASSUME NEW key \in Seq(Byte), HasSuffix(key),
           Len(key) <= MaxUserKeyLen + SuffixLen
    PROVE  LET suffix == SubSeq(key, Len(key) - SuffixLen + 1, Len(key))
           IN  /\ suffix \in Seq(Byte) /\ Len(suffix) = SuffixLen
               /\ UserKey(key) \in UserKeyBytes
               /\ key = UserKey(key) \o suffix
               /\ Packed(key) = FromLeBytes(suffix) /\ Packed(key) \in Nat
<1> DEFINE L == Len(key)
           k == Len(key) - SuffixLen
           suffix == SubSeq(key, k + 1, L)
           user == SubSeq(key, 1, k)
<1>0. SuffixLen \in Nat /\ SuffixLen > 0 /\ MaxUserKeyLen \in Nat /\ L \in Nat
      /\ k \in Nat /\ k + SuffixLen = L /\ k <= MaxUserKeyLen /\ k <= L
  BY BytesAssumption DEF HasSuffix
<1>1. /\ suffix \in Seq(Byte) /\ Len(suffix) = SuffixLen
      /\ \A n \in 1..SuffixLen : suffix[n] = key[k + n]
      /\ user \in Seq(Byte) /\ Len(user) = k /\ \A n \in 1..k : user[n] = key[n]
  <2> HIDE DEF k
  <2>1. L = k + SuffixLen /\ Len(key) = k + SuffixLen
    BY <1>0
  <2> HIDE DEF L
  <2> QED BY <1>0, <2>1, Cut
<1> HIDE DEF user, suffix, k, L
<1>2. user \in Seq(Byte) /\ Len(user) = k
  BY <1>1
<1>3. user \o suffix = key
  <2> DEFINE c == user \o suffix
  <2>1. /\ c \in Seq(Byte) /\ Len(c) = k + SuffixLen
        /\ \A n \in 1..k : c[n] = user[n]
        /\ \A n \in 1..SuffixLen : c[k + n] = suffix[n]
    <3>1. /\ c \in Seq(Byte) /\ Len(c) = Len(user) + Len(suffix)
          /\ \A n \in 1..Len(user) : c[n] = user[n]
          /\ \A n \in 1..Len(suffix) : c[Len(user) + n] = suffix[n]
      <4>1. user \in Seq(Byte) /\ suffix \in Seq(Byte)
        BY <1>1
      <4> QED BY ONLY <4>1, Joined DEF c
    <3> HIDE DEF c
    <3> QED BY <1>1, <3>1
  <2>2. key \in Seq(Byte) /\ Len(key) = k + SuffixLen
    BY <1>0 DEF L
  <2> HIDE DEF c
  <2>3. ASSUME NEW n \in 1..(k + SuffixLen) PROVE c[n] = key[n]
    <3>1. CASE n \in 1..k
      BY <1>1, <2>1, <3>1
    <3>2. CASE n > k
      <4>1. n - k \in 1..SuffixLen /\ k + (n - k) = n
        BY <1>0, <3>2
      <4>2. c[k + (n - k)] = key[k + (n - k)]
        BY <1>1, <2>1, <4>1
      <4> QED BY <4>1, <4>2
    <3> QED BY <1>0, <3>1, <3>2
  <2>4. c = key
    BY <2>1, <2>2, <2>3, SameSequence
  <2> QED BY <2>4 DEF c
<1>4. UserKey(key) = user /\ Packed(key) = FromLeBytes(suffix)
  BY DEF UserKey, Packed, user, suffix, k, L
<1>5. FromLeBytes(suffix) \in Nat
  BY <1>1, FromLeIsNat
<1>6. user \in UserKeyBytes
  BY <1>0, <1>2 DEF UserKeyBytes
<1> QED BY <1>1, <1>3, <1>4, <1>5, <1>6 DEF suffix, k, L

(* Taking a packed word apart at a byte and packing it again keeps order.  *)
LEMMA PackOrder ==
    ASSUME NEW x \in Nat, NEW y \in Nat
    PROVE  LET px == Pack(x \div Base, x % Base)
               py == Pack(y \div Base, y % Base)
           IN  /\ px \in Nat
               /\ px > py <=> x > y
               /\ px = py <=> x = y
               /\ px % 256 = x % Base /\ x % Base \in Byte
               /\ (x \div Base) * Base + (x % Base) = x
<1> DEFINE a == x \div Base
           b == x % Base
           c == y \div Base
           d == y % Base
<1>0. Base \in Nat /\ Base > 0 /\ Base <= 256
  BY BytesAssumption
<1>1. /\ a \in Nat /\ b \in 0..(Base - 1) /\ x = a * Base + b
      /\ c \in Nat /\ d \in 0..(Base - 1) /\ y = c * Base + d
  BY <1>0
<1> HIDE DEF a, b, c, d
<1>2. Pack(a, b) = a * 256 + b /\ Pack(c, d) = c * 256 + d
  BY DEF Pack
<1>3. b \in 0..255 /\ d \in 0..255
  BY <1>0, <1>1
<1>4. (a * 256 + b) % 256 = b /\ a * 256 + b \in Nat
  BY <1>1, <1>3
<1>5. CASE a = c
  BY <1>0, <1>1, <1>2, <1>3, <1>4, <1>5 DEF a, b, c, d, Byte
<1>6. CASE a < c
  <2>1. a * Base + b < c * Base + d
    BY <1>0, <1>1, <1>6, DigitAppended
  <2>2. a * 256 + b < c * 256 + d
    BY <1>1, <1>3, <1>6
  <2>3. x < y /\ Pack(a, b) < Pack(c, d) /\ Pack(a, b) \in Nat /\ Pack(c, d) \in Nat
    BY <1>1, <1>2, <1>3, <2>1, <2>2
  <2> QED BY <1>0, <1>1, <1>2, <1>4, <2>3 DEF a, b, c, d, Byte
<1>7. CASE c < a
  <2>1. c * Base + d < a * Base + b
    BY <1>0, <1>1, <1>7, DigitAppended
  <2>2. c * 256 + d < a * 256 + b
    BY <1>1, <1>3, <1>7
  <2>3. y < x /\ Pack(c, d) < Pack(a, b) /\ Pack(a, b) \in Nat /\ Pack(c, d) \in Nat
    BY <1>1, <1>2, <1>3, <2>1, <2>2
  <2> QED BY <1>0, <1>1, <1>2, <1>4, <2>3 DEF a, b, c, d, Byte
<1> QED BY <1>1, <1>5, <1>6, <1>7

(* A raw entry whose key has its suffix stands for an entry, and the byte  *)
(* comparators order raw entries as these are ordered.                     *)
LEMMA EntryFacts ==
    ASSUME NEW a \in RawEntry, HasSuffix(a.key), NEW b \in RawEntry, HasSuffix(b.key)
    PROVE  /\ EntryOf(a) \in Entry
           /\ OrderAsEntries(a, b)
           /\ UserKey(a.key) = UserKey(b.key) <=> EntryOf(a).uk = EntryOf(b).uk
<1>1. /\ a.key \in Seq(Byte) /\ Len(a.key) <= MaxUserKeyLen + SuffixLen /\ a.val \in Nat
      /\ b.key \in Seq(Byte) /\ Len(b.key) <= MaxUserKeyLen + SuffixLen
  BY DEF RawEntry
<1>2. /\ UserKey(a.key) \in UserKeyBytes /\ Packed(a.key) \in Nat
      /\ UserKey(b.key) \in UserKeyBytes /\ Packed(b.key) \in Nat
  BY <1>1, KeyParts
<1> DEFINE px == Pack(Packed(a.key) \div Base, Packed(a.key) % Base)
           py == Pack(Packed(b.key) \div Base, Packed(b.key) % Base)
           u == Rank(UserKey(a.key))
           w == Rank(UserKey(b.key))
<1>3. px \in Nat /\ (px > py <=> Packed(a.key) > Packed(b.key))
  BY <1>2, PackOrder
<1>4. /\ u \in Nat /\ (MemLess(UserKey(a.key), UserKey(b.key)) <=> u < w)
      /\ UserKey(a.key) = UserKey(b.key) <=> u = w
  BY <1>2, RankOrder, RankIsDigits
<1>5. EntryOf(a) = [uk |-> u, packed |-> px, val |-> a.val]
      /\ EntryOf(b) = [uk |-> w, packed |-> py, val |-> b.val]
  BY DEF EntryOf
<1> HIDE DEF px, py, u, w
<1>6. EntryOf(a) \in Entry
  BY <1>1, <1>3, <1>4, <1>5 DEF Entry
<1>7. CompareLess(a.key, b.key) <=> Less(EntryOf(a), EntryOf(b))
  BY <1>3, <1>4, <1>5 DEF CompareLess, Less
<1>8. CompareUserKeysLess(a.key, b.key) <=> UserLess(EntryOf(a), EntryOf(b))
  BY <1>4, <1>5 DEF CompareUserKeysLess, UserLess
<1> QED BY <1>4, <1>5, <1>6, <1>7, <1>8 DEF OrderAsEntries

(* A digit is its own remainder.                                           *)
LEMMA DigitsOwnRemainder ==
    ASSUME NEW base \in Nat, base > 0, NEW d \in 0..(base - 1)
    PROVE  d \div base = 0 /\ d % base = d
  OBVIOUS

(* make_internal_key undoes split, and zero_out_seqno keeps the type.      *)
LEMMA SuffixKept ==
    ASSUME NEW e \in RawEntry, HasSuffix(e.key)
    PROVE  SuffixRoundTrips(e)
<1> DEFINE key == e.key
           L == Len(key)
           suffix == SubSeq(key, L - SuffixLen + 1, L)
           user == UserKey(key)
           packed == Packed(key)
           type == packed % Base
           bytes == ToLeBytes(type, SuffixLen)
           zeroed == user \o bytes
<1>0. /\ SuffixLen \in Nat /\ SuffixLen > 0 /\ MaxUserKeyLen \in Nat
      /\ Base \in Nat /\ Base > 0
      /\ key \in Seq(Byte) /\ L <= MaxUserKeyLen + SuffixLen /\ L \in Nat
      /\ e = [key |-> key, val |-> e.val]
  BY BytesAssumption DEF RawEntry
<1>1. /\ suffix \in Seq(Byte) /\ Len(suffix) = SuffixLen /\ user \in UserKeyBytes
      /\ key = user \o suffix /\ packed = FromLeBytes(suffix) /\ packed \in Nat
  BY <1>0, KeyParts
<1>2. ToLeBytes(packed, SuffixLen) = suffix
  BY <1>1, ToLeOfFromLe
<1>3. (packed \div Base) * Base + type = packed /\ type \in Byte
  BY <1>1, PackOrder
<1>4. MakeInternalKey(user, packed \div Base, type) = key
  BY <1>1, <1>2, <1>3 DEF MakeInternalKey
<1>5. bytes \in Seq(Byte) /\ Len(bytes) = SuffixLen /\ FromLeBytes(bytes) = type
  BY <1>0, <1>3, LeBytesOfByte
<1>6. user \in Seq(Byte) /\ Len(user) \in Nat /\ Len(user) <= MaxUserKeyLen
  BY <1>1 DEF UserKeyBytes
<1> HIDE DEF bytes, user
<1>7. zeroed \in Seq(Byte) /\ Len(zeroed) = Len(user) + SuffixLen
  BY <1>5, <1>6
<1>8. SubSeq(zeroed, 1, Len(user)) = user
      /\ SubSeq(zeroed, Len(user) + 1, Len(user) + SuffixLen) = bytes
  <2> DEFINE k == Len(user)
             x == SubSeq(zeroed, 1, k)
             y == SubSeq(zeroed, k + 1, k + SuffixLen)
  <2>1. /\ \A n \in 1..k : zeroed[n] = user[n]
        /\ \A n \in 1..SuffixLen : zeroed[k + n] = bytes[n]
    BY <1>5, <1>6, Joined
  <2>2. k \in Nat /\ SuffixLen \in Nat /\ zeroed \in Seq(Byte) /\ Len(zeroed) = k + SuffixLen
    BY <1>0, <1>6, <1>7
  <2> HIDE DEF k, zeroed
  <2>3. /\ x \in Seq(Byte) /\ Len(x) = k /\ \A n \in 1..k : x[n] = zeroed[n]
        /\ y \in Seq(Byte) /\ Len(y) = SuffixLen
        /\ \A n \in 1..SuffixLen : y[n] = zeroed[k + n]
    BY <2>2, Cut
  <2> HIDE DEF x, y
  <2>4. x = user
    BY <1>6, <2>1, <2>3, SameSequence DEF k
  <2>5. y = bytes
    BY <1>5, <2>1, <2>3, SameSequence
  <2> QED BY <2>4, <2>5 DEF x, y, k
<1>9. /\ UserKey(zeroed) = user
      /\ SubSeq(zeroed, Len(zeroed) - SuffixLen + 1, Len(zeroed)) = bytes
  <2>1. Len(zeroed) - SuffixLen = Len(user)
    BY <1>0, <1>6, <1>7
  <2> HIDE DEF zeroed
  <2> QED BY <1>7, <1>8, <2>1 DEF UserKey
<1>10. Packed(zeroed) = type
  BY <1>5, <1>9 DEF Packed
<1>11. type \div Base = 0 /\ type % Base = type
  <2>1. type \in 0..(Base - 1)
    BY <1>3 DEF Byte
  <2>2. Base \in Nat /\ Base > 0
    BY <1>0
  <2> HIDE DEF type
  <2> QED BY <2>1, <2>2, DigitsOwnRemainder
<1>12. ZeroOutSeqnoBytes(key) = zeroed
  BY DEF ZeroOutSeqnoBytes, user, bytes
<1>13. EntryOf([e EXCEPT !.key = zeroed]) = [uk |-> Rank(user), packed |-> type, val |-> e.val]
  <2>1. [e EXCEPT !.key = zeroed].key = zeroed /\ [e EXCEPT !.key = zeroed].val = e.val
    BY <1>0
  <2>2. Pack(type \div Base, type % Base) = type
    BY <1>0, <1>3, <1>11 DEF Pack, Byte
  <2> QED BY <1>9, <1>10, <2>1, <2>2 DEF EntryOf
<1>14. ZeroOutSeqno(EntryOf(e)) = [uk |-> Rank(user), packed |-> type, val |-> e.val]
  <2>1. Pack(packed \div Base, packed % Base) % 256 = type
    BY <1>1, PackOrder
  <2>2. EntryOf(e) = [uk |-> Rank(user), packed |-> Pack(packed \div Base, packed % Base),
                      val |-> e.val]
    BY DEF EntryOf, user
  <2> QED BY <2>1, <2>2 DEF ZeroOutSeqno, TypeByte
<1>15. EntryOf([e EXCEPT !.key = ZeroOutSeqnoBytes(@)]) = ZeroOutSeqno(EntryOf(e))
  <2>1. [e EXCEPT !.key = ZeroOutSeqnoBytes(@)] = [e EXCEPT !.key = zeroed]
    BY <1>12
  <2> QED BY <1>13, <1>14, <2>1
<1> QED BY <1>4, <1>15 DEF SuffixRoundTrips, user
-----------------------------------------------------------------------------
(* The compaction.                                                         *)

KeyedEntry == {e \in RawEntry : HasSuffix(e.key)}

(* The entries with a suffix before and behind the read positions.         *)
SeenOf(src, at) == UNION {{src[i][p] : p \in {q \in 1..at[i] : HasSuffix(src[i][q].key)}}
                          : i \in DOMAIN src}
AheadOf(src, at) == UNION {{src[i][p] : p \in {q \in DOMAIN src[i] :
                                                 q > at[i] /\ HasSuffix(src[i][q].key)}}
                           : i \in DOMAIN src}
Seen == SeenOf(sources, pos)
Ahead == AheadOf(sources, pos)

PositionsIn(src) == {at \in [DOMAIN src -> Nat] : \A i \in DOMAIN src : at[i] <= Len(src[i])}

(* e is the newest of its user key in S.                                   *)
NewestIn(S, e) ==
    \A f \in S : EntryOf(f).uk = EntryOf(e).uk => EntryOf(f).packed <= EntryOf(e).packed

(* out is right for what was seen: newest versions in key order, and of    *)
(* every key either one of them or, as the newest, a tombstone.            *)
RightFor(S, out) ==
    /\ \A n \in DOMAIN out :
           out[n] \in S /\ ~IsTombstone(EntryOf(out[n])) /\ NewestIn(S, out[n])
    /\ \A n, m \in DOMAIN out : n < m => EntryOf(out[n]).uk < EntryOf(out[m]).uk
    /\ \A e \in S :
           \/ \E n \in DOMAIN out : EntryOf(out[n]).uk = EntryOf(e).uk
           \/ \E t \in S : /\ EntryOf(t).uk = EntryOf(e).uk
                           /\ IsTombstone(EntryOf(t)) /\ NewestIn(S, t)

LastIsGreatest ==
    \/ last_user_key = <<>> /\ Seen = {}
    \/ \E s \in Seen : /\ last_user_key = <<UserKey(s.key)>>
                       /\ \A t \in Seen : EntryOf(t).uk <= EntryOf(s).uk

RawInv ==
    /\ sources \in RawInputs
    /\ pos \in PositionsIn(sources)
    /\ output \in Seq(KeyedEntry)
    /\ \A a \in Ahead, s \in Seen : ~Less(EntryOf(a), EntryOf(s))
    /\ LastIsGreatest
    /\ RightFor(Seen, output)
    /\ phase = "done" => LiveSources = {}

LEMMA KeyedFacts ==
    ASSUME NEW a \in KeyedEntry, NEW b \in KeyedEntry
    PROVE  /\ EntryOf(a).uk \in Nat /\ EntryOf(a).packed \in Nat /\ EntryOf(a) \in Entry
           /\ CompareLess(a.key, b.key) <=> Less(EntryOf(a), EntryOf(b))
           /\ UserKey(a.key) = UserKey(b.key) <=> EntryOf(a).uk = EntryOf(b).uk
BY EntryFacts DEF KeyedEntry, OrderAsEntries, Entry

(* What the sources are made of.                                           *)
LEMMA SourceFacts ==
    ASSUME NEW src \in RawInputs, NEW i \in DOMAIN src
    PROVE  /\ src[i] \in Seq(RawEntry)
           /\ Len(src[i]) \in Nat /\ DOMAIN src[i] = 1..Len(src[i])
           /\ \A p \in DOMAIN src[i] : src[i][p] \in RawEntry
           /\ \A p, q \in DOMAIN src[i] :
                  p < q /\ HasSuffix(src[i][p].key) /\ HasSuffix(src[i][q].key) =>
                      ~CompareLess(src[i][q].key, src[i][p].key)
<1>1. src[i] \in RawSource
  BY RawInputsAssumption
<1>2. src[i] \in Seq(RawEntry)
  BY <1>1 DEF RawSource
<1> QED BY <1>1, <1>2 DEF RawSource

LEMMA SeenMembers ==
    ASSUME NEW src, NEW at, NEW x
    PROVE  /\ x \in SeenOf(src, at) <=>
                  \E i \in DOMAIN src : \E p \in 1..at[i] :
                      HasSuffix(src[i][p].key) /\ x = src[i][p]
           /\ x \in AheadOf(src, at) <=>
                  \E i \in DOMAIN src : \E p \in DOMAIN src[i] :
                      p > at[i] /\ HasSuffix(src[i][p].key) /\ x = src[i][p]
BY DEF SeenOf, AheadOf

LEMMA SeenIsKeyed ==
    ASSUME NEW src \in RawInputs, NEW at \in PositionsIn(src)
    PROVE  SeenOf(src, at) \subseteq KeyedEntry /\ AheadOf(src, at) \subseteq KeyedEntry
<1>1. ASSUME NEW i \in DOMAIN src, NEW p \in 1..Len(src[i]), HasSuffix(src[i][p].key)
      PROVE  src[i][p] \in KeyedEntry
  BY <1>1, SourceFacts DEF KeyedEntry
<1>2. ASSUME NEW e \in SeenOf(src, at) PROVE e \in KeyedEntry
  <2>1. PICK i \in DOMAIN src : \E p \in 1..at[i] : HasSuffix(src[i][p].key) /\ e = src[i][p]
    BY <1>2, SeenMembers
  <2>2. PICK p \in 1..at[i] : HasSuffix(src[i][p].key) /\ e = src[i][p]
    BY <2>1
  <2>3. p \in 1..Len(src[i])
    BY SourceFacts DEF PositionsIn
  <2> QED BY <1>1, <2>2, <2>3
<1>3. ASSUME NEW e \in AheadOf(src, at) PROVE e \in KeyedEntry
  <2>1. PICK i \in DOMAIN src :
            \E p \in DOMAIN src[i] : HasSuffix(src[i][p].key) /\ e = src[i][p]
    BY <1>3, SeenMembers
  <2> QED BY <1>1, <2>1, SourceFacts
<1> QED BY <1>2, <1>3

(* One step past the front of source i.                                    *)
LEMMA OnePast ==
    ASSUME NEW src \in RawInputs, NEW at \in PositionsIn(src), NEW i \in DOMAIN src,
           at[i] < Len(src[i])
    PROVE  LET to == [at EXCEPT ![i] = @ + 1]
               e == src[i][at[i] + 1]
           IN  /\ to \in PositionsIn(src)
               /\ AheadOf(src, to) \subseteq AheadOf(src, at)
               /\ ~HasSuffix(e.key) => SeenOf(src, to) = SeenOf(src, at)
               /\ HasSuffix(e.key) => /\ SeenOf(src, to) = SeenOf(src, at) \cup {e}
                                      /\ e \in AheadOf(src, at)
<1> DEFINE to == [at EXCEPT ![i] = @ + 1]
           e == src[i][at[i] + 1]
<1>0. /\ \A j \in DOMAIN src : Len(src[j]) \in Nat /\ DOMAIN src[j] = 1..Len(src[j])
      /\ \A j \in DOMAIN src : at[j] \in Nat /\ at[j] <= Len(src[j])
      /\ DOMAIN at = DOMAIN src /\ at \in [DOMAIN src -> Nat]
  BY SourceFacts DEF PositionsIn
<1>1. /\ to \in [DOMAIN src -> Nat] /\ to[i] = at[i] + 1
      /\ \A j \in DOMAIN src : j # i => to[j] = at[j]
  BY <1>0
<1> HIDE DEF to
<1>2. to \in PositionsIn(src)
  BY <1>0, <1>1 DEF PositionsIn
<1>3. \A j \in DOMAIN src : \A p \in DOMAIN src[j] : p > to[j] => p > at[j]
  BY <1>0, <1>1
<1>4. AheadOf(src, to) \subseteq AheadOf(src, at)
  BY <1>3, SeenMembers
<1>5. \A j \in DOMAIN src : \A p \in 1..at[j] : p \in 1..to[j]
  BY <1>0, <1>1
<1>6. SeenOf(src, at) \subseteq SeenOf(src, to)
  BY <1>5, SeenMembers
<1>7. ASSUME NEW x \in SeenOf(src, to)
      PROVE  x \in SeenOf(src, at) \/ (x = e /\ HasSuffix(e.key))
  <2>1. PICK j \in DOMAIN src : \E p \in 1..to[j] : HasSuffix(src[j][p].key) /\ x = src[j][p]
    BY <1>7, SeenMembers
  <2>2. PICK p \in 1..to[j] : HasSuffix(src[j][p].key) /\ x = src[j][p]
    BY <2>1
  <2>3. CASE p \in 1..at[j]
    BY <2>2, <2>3, SeenMembers
  <2>4. CASE ~(p \in 1..at[j])
    <3>1. j = i /\ p = at[i] + 1
      BY <1>0, <1>1, <2>4
    <3> QED BY <2>2, <3>1
  <2> QED BY <2>3, <2>4
<1>8. at[i] + 1 \in DOMAIN src[i] /\ at[i] + 1 > at[i] /\ at[i] + 1 \in 1..to[i]
  BY <1>0, <1>1
<1>9. ASSUME HasSuffix(e.key) PROVE e \in SeenOf(src, to) /\ e \in AheadOf(src, at)
  BY <1>8, <1>9, SeenMembers
<1>10. ASSUME HasSuffix(e.key) PROVE SeenOf(src, to) = SeenOf(src, at) \cup {e}
  BY <1>6, <1>7, <1>9, <1>10
<1>11. ASSUME ~HasSuffix(e.key) PROVE SeenOf(src, to) = SeenOf(src, at)
  BY <1>6, <1>7, <1>11
<1> QED BY <1>2, <1>4, <1>9, <1>10, <1>11 DEF to

(* Nothing ahead comes before a front with a suffix that has won.          *)
LEMMA WinnerIsLeast ==
    ASSUME sources \in RawInputs, pos \in PositionsIn(sources), ~ComparatorPanics,
           NEW i \in DOMAIN sources, Wins(i), HasSuffix(PeekAt(i).key), NEW a \in Ahead
    PROVE  ~Less(EntryOf(a), EntryOf(PeekAt(i)))
<1>0. /\ \A j \in DOMAIN sources : Len(sources[j]) \in Nat /\ DOMAIN sources[j] = 1..Len(sources[j])
      /\ \A j \in DOMAIN sources : pos[j] \in Nat /\ pos[j] <= Len(sources[j])
  BY SourceFacts DEF PositionsIn
<1>1. PICK j \in DOMAIN sources : \E p \in DOMAIN sources[j] :
          p > pos[j] /\ HasSuffix(sources[j][p].key) /\ a = sources[j][p]
  BY SeenMembers DEF Ahead
<1>2. PICK p \in DOMAIN sources[j] :
          p > pos[j] /\ HasSuffix(sources[j][p].key) /\ a = sources[j][p]
  BY <1>1
<1> DEFINE e == PeekAt(i)
           f == PeekAt(j)
<1>3. i \in LiveSources /\ j \in LiveSources
  BY <1>0, <1>2 DEF Wins, LiveSources
<1>4. HasSuffix(f.key)
  BY <1>3 DEF ComparatorPanics
<1>5. pos[j] + 1 \in DOMAIN sources[j] /\ f = sources[j][pos[j] + 1]
      /\ (pos[j] + 1 = p \/ pos[j] + 1 < p)
      /\ pos[i] + 1 \in DOMAIN sources[i] /\ e = sources[i][pos[i] + 1]
  BY <1>0, <1>2, <1>3 DEF PeekAt, LiveSources
<1>6. a \in KeyedEntry /\ f \in KeyedEntry /\ e \in KeyedEntry
  BY <1>2, <1>4, <1>5, SourceFacts DEF KeyedEntry
<1> HIDE DEF e, f
<1>7. ~CompareLess(f.key, e.key)
  <2>1. CASE i = j
    <3>1. e = f
      BY <2>1 DEF e, f
    <3>2. ~Less(EntryOf(f), EntryOf(e))
      BY <1>6, <3>1, KeyedFacts DEF Less
    <3> QED BY <1>6, <3>2, KeyedFacts
  <2>2. CASE i # j
    BY <1>3, <2>2 DEF Wins, e, f
  <2> QED BY <2>1, <2>2
<1>8. ~CompareLess(a.key, f.key)
  <2>1. CASE pos[j] + 1 = p
    <3>1. a = f
      BY <1>2, <1>5, <2>1
    <3>2. ~Less(EntryOf(a), EntryOf(f))
      BY <1>6, <3>1, KeyedFacts DEF Less
    <3> QED BY <1>6, <3>2, KeyedFacts
  <2>2. CASE pos[j] + 1 < p
    BY <1>2, <1>4, <1>5, <2>2, SourceFacts DEF f
  <2> QED BY <1>5, <2>1, <2>2
<1>9. ~Less(EntryOf(f), EntryOf(e)) /\ ~Less(EntryOf(a), EntryOf(f))
  BY <1>6, <1>7, <1>8, KeyedFacts
<1>10. /\ EntryOf(a).uk \in Nat /\ EntryOf(f).uk \in Nat /\ EntryOf(e).uk \in Nat
       /\ EntryOf(a).packed \in Nat /\ EntryOf(f).packed \in Nat /\ EntryOf(e).packed \in Nat
  BY <1>6, KeyedFacts
<1>11. ~Less(EntryOf(a), EntryOf(e))
  BY <1>9, <1>10 DEF Less
<1> QED BY <1>11 DEF e

(* The first version of a key is kept, unless it is a tombstone.           *)
LEMMA FirstVersionRight ==
    ASSUME NEW S, S \subseteq KeyedEntry, NEW e \in KeyedEntry, NEW out \in Seq(KeyedEntry),
           RightFor(S, out), \A s \in S : EntryOf(s).uk < EntryOf(e).uk
    PROVE  RightFor(S \cup {e}, IF IsTombstone(EntryOf(e)) THEN out ELSE Append(out, e))
<1> DEFINE U == S \cup {e}
<1>0. /\ \A x \in U : EntryOf(x).uk \in Nat /\ EntryOf(x).packed \in Nat
      /\ \A s \in S : EntryOf(s).uk # EntryOf(e).uk
  BY KeyedFacts
<1>1. NewestIn(U, e)
  BY <1>0 DEF NewestIn
<1>2. \A s \in S : NewestIn(S, s) => NewestIn(U, s)
  BY <1>0 DEF NewestIn
<1>3. CASE IsTombstone(EntryOf(e))
  <2>1. \A n \in DOMAIN out : out[n] \in U /\ ~IsTombstone(EntryOf(out[n])) /\ NewestIn(U, out[n])
    BY <1>2 DEF RightFor
  <2>2. ASSUME NEW x \in U
        PROVE  \/ \E n \in DOMAIN out : EntryOf(out[n]).uk = EntryOf(x).uk
               \/ \E t \in U : /\ EntryOf(t).uk = EntryOf(x).uk
                               /\ IsTombstone(EntryOf(t)) /\ NewestIn(U, t)
    <3>1. CASE x = e
      BY <1>1, <1>3, <3>1
    <3>2. CASE x \in S
      BY <1>2, <3>2 DEF RightFor
    <3> QED BY <3>1, <3>2
  <2>3. \A n, m \in DOMAIN out : n < m => EntryOf(out[n]).uk < EntryOf(out[m]).uk
    BY DEF RightFor
  <2>4. RightFor(U, out)
    BY <2>1, <2>2, <2>3 DEF RightFor
  <2> QED BY <1>3, <2>4
<1>4. CASE ~IsTombstone(EntryOf(e))
  <2> DEFINE new == Append(out, e)
  <2>0. /\ Len(out) \in Nat /\ DOMAIN out = 1..Len(out) /\ DOMAIN new = 1..(Len(out) + 1)
        /\ new[Len(out) + 1] = e /\ \A n \in 1..Len(out) : new[n] = out[n]
    OBVIOUS
  <2> HIDE DEF new
  <2>1. ASSUME NEW n \in DOMAIN new
        PROVE  new[n] \in U /\ ~IsTombstone(EntryOf(new[n])) /\ NewestIn(U, new[n])
    <3>1. CASE n = Len(out) + 1
      BY <1>1, <1>4, <2>0, <3>1
    <3>2. CASE n \in 1..Len(out)
      BY <1>2, <2>0, <3>2 DEF RightFor
    <3> QED BY <2>0, <3>1, <3>2
  <2>2. ASSUME NEW n \in DOMAIN new, NEW m \in DOMAIN new, n < m
        PROVE  EntryOf(new[n]).uk < EntryOf(new[m]).uk
    <3>1. n \in 1..Len(out)
      BY <2>0, <2>2
    <3>2. CASE m = Len(out) + 1
      <4>1. out[n] \in S
        BY <2>0, <3>1 DEF RightFor
      <4> QED BY <2>0, <3>1, <3>2, <4>1
    <3>3. CASE m \in 1..Len(out)
      BY <2>0, <2>2, <3>1, <3>3 DEF RightFor
    <3> QED BY <2>0, <3>2, <3>3
  <2>3. ASSUME NEW x \in U
        PROVE  \/ \E n \in DOMAIN new : EntryOf(new[n]).uk = EntryOf(x).uk
               \/ \E t \in U : /\ EntryOf(t).uk = EntryOf(x).uk
                               /\ IsTombstone(EntryOf(t)) /\ NewestIn(U, t)
    <3>1. CASE x = e
      BY <2>0, <3>1
    <3>2. CASE x \in S
      <4>1. CASE \E n \in DOMAIN out : EntryOf(out[n]).uk = EntryOf(x).uk
        <5>1. PICK n \in DOMAIN out : EntryOf(out[n]).uk = EntryOf(x).uk
          BY <4>1
        <5>2. n \in DOMAIN new /\ new[n] = out[n]
          BY <2>0
        <5> QED BY <5>1, <5>2
      <4>2. CASE \E t \in S : /\ EntryOf(t).uk = EntryOf(x).uk
                              /\ IsTombstone(EntryOf(t)) /\ NewestIn(S, t)
        BY <1>2, <4>2
      <4> QED BY <3>2, <4>1, <4>2 DEF RightFor
    <3> QED BY <3>1, <3>2
  <2>4. RightFor(U, new)
    BY <2>1, <2>2, <2>3 DEF RightFor
  <2> QED BY <1>4, <2>4 DEF new
<1> QED BY <1>3, <1>4

(* A later version of a key changes nothing.                               *)
LEMMA LaterVersionRight ==
    ASSUME NEW S, S \subseteq KeyedEntry, NEW e \in KeyedEntry, NEW out \in Seq(KeyedEntry),
           RightFor(S, out), \A s \in S : ~Less(EntryOf(e), EntryOf(s)),
           \E s \in S : EntryOf(s).uk = EntryOf(e).uk
    PROVE  RightFor(S \cup {e}, out)
<1> DEFINE U == S \cup {e}
<1>0. \A x \in U : EntryOf(x).uk \in Nat /\ EntryOf(x).packed \in Nat
  BY KeyedFacts
<1>1. \A s \in S : EntryOf(s).uk = EntryOf(e).uk => EntryOf(e).packed <= EntryOf(s).packed
  BY <1>0 DEF Less
<1>2. \A s \in S : NewestIn(S, s) => NewestIn(U, s)
  BY <1>1 DEF NewestIn
<1>3. \A n \in DOMAIN out : out[n] \in U /\ ~IsTombstone(EntryOf(out[n])) /\ NewestIn(U, out[n])
  BY <1>2 DEF RightFor
<1>4. ASSUME NEW x \in U
      PROVE  \/ \E n \in DOMAIN out : EntryOf(out[n]).uk = EntryOf(x).uk
             \/ \E t \in U : /\ EntryOf(t).uk = EntryOf(x).uk
                             /\ IsTombstone(EntryOf(t)) /\ NewestIn(U, t)
  <2>1. PICK y \in S : EntryOf(y).uk = EntryOf(x).uk
    OBVIOUS
  <2>2. \/ \E n \in DOMAIN out : EntryOf(out[n]).uk = EntryOf(y).uk
        \/ \E t \in S : /\ EntryOf(t).uk = EntryOf(y).uk
                        /\ IsTombstone(EntryOf(t)) /\ NewestIn(S, t)
    BY DEF RightFor
  <2> QED BY <1>2, <2>1, <2>2
<1>5. \A n, m \in DOMAIN out : n < m => EntryOf(out[n]).uk < EntryOf(out[m]).uk
  BY DEF RightFor
<1> QED BY <1>3, <1>4, <1>5 DEF RightFor
-----------------------------------------------------------------------------
(* The invariant.                                                          *)

LEMMA RawInitially == Init => RawInv
<1> SUFFICES ASSUME Init PROVE RawInv
  OBVIOUS
<1> USE DEF Init
<1>1. \A i \in DOMAIN sources : Len(sources[i]) \in Nat
  BY SourceFacts
<1>2. pos \in PositionsIn(sources) /\ \A i \in DOMAIN sources : pos[i] = 0
  BY <1>1 DEF PositionsIn
<1>3. Seen = {}
  <2>1. \A i \in DOMAIN sources : 1..pos[i] = {}
    BY <1>2
  <2> QED BY <2>1, SeenMembers DEF Seen
<1>4. RightFor(Seen, output)
  BY <1>3 DEF RightFor
<1>5. LastIsGreatest
  BY <1>3 DEF LastIsGreatest
<1> QED BY <1>2, <1>3, <1>4, <1>5 DEF RawInv

LEMMA RawVisit ==
    ASSUME RawInv, NEW i \in DOMAIN sources, Visit(i)
    PROVE  RawInv'
<1> DEFINE e == PeekAt(i)
<1>1. /\ sources \in RawInputs /\ pos \in PositionsIn(sources) /\ i \in LiveSources
      /\ ~ComparatorPanics /\ Wins(i) /\ pos[i] < Len(sources[i])
      /\ output \in Seq(KeyedEntry) /\ RightFor(Seen, output) /\ LastIsGreatest
      /\ \A a \in Ahead, s \in Seen : ~Less(EntryOf(a), EntryOf(s))
  BY DEF RawInv, Visit, Wins, LiveSources
<1>2. /\ sources' = sources /\ phase' = "merge"
      /\ pos' = [pos EXCEPT ![i] = @ + 1]
      /\ Seen' = SeenOf(sources, pos') /\ Ahead' = AheadOf(sources, pos')
  BY DEF Visit, Seen, Ahead
<1>3. /\ pos' \in PositionsIn(sources) /\ Ahead' \subseteq Ahead
      /\ ~HasSuffix(e.key) => Seen' = Seen
      /\ HasSuffix(e.key) => Seen' = Seen \cup {e} /\ e \in Ahead
  BY <1>1, <1>2, OnePast DEF PeekAt, Seen, Ahead
<1>4. Seen \subseteq KeyedEntry /\ Ahead \subseteq KeyedEntry
  BY <1>1, SeenIsKeyed DEF Seen, Ahead
<1>5. CASE ~HasSuffix(e.key)
  <2>1. Seen' = Seen /\ output' = output /\ last_user_key' = last_user_key
    BY <1>3, <1>5 DEF Visit, Skip
  <2>2. LastIsGreatest'
    BY <1>1, <2>1 DEF LastIsGreatest
  <2>3. RightFor(Seen', output')
    BY <1>1, <2>1
  <2>4. \A a \in Ahead', s \in Seen' : ~Less(EntryOf(a), EntryOf(s))
    BY <1>1, <1>3, <2>1
  <2> QED BY <1>1, <1>2, <1>3, <2>1, <2>2, <2>3, <2>4 DEF RawInv
<1>6. CASE HasSuffix(e.key)
  <2>1. e \in Ahead /\ e \in KeyedEntry /\ Seen' = Seen \cup {e}
    BY <1>3, <1>4, <1>6
  <2>2. \A a \in Ahead : ~Less(EntryOf(a), EntryOf(e))
    BY <1>1, <1>6, WinnerIsLeast
  <2>3. \A a \in Ahead', s \in Seen' : ~Less(EntryOf(a), EntryOf(s))
    BY <1>1, <1>3, <2>1, <2>2
  <2>4. \A s \in Seen : ~Less(EntryOf(e), EntryOf(s))
    BY <1>1, <2>1
  <2>5. \A s \in Seen : EntryOf(s).uk \in Nat /\ EntryOf(e).uk \in Nat /\ EntryOf(s).uk <= EntryOf(e).uk
    BY <1>4, <2>1, <2>4, KeyedFacts DEF Less
  <2>6. /\ last_user_key' = <<UserKey(e.key)>>
        /\ output' = IF BottommostKeeps(EntryOf(e), last_user_key # <<UserKey(e.key)>>)
                     THEN Append(output, e) ELSE output
    BY <1>6 DEF Visit, Decide
  <2>7. LastIsGreatest'
    <3>1. e \in Seen' /\ \A t \in Seen' : EntryOf(t).uk <= EntryOf(e).uk
      <4>1. EntryOf(e).uk <= EntryOf(e).uk
        BY <2>1, KeyedFacts
      <4> QED BY <2>1, <2>5, <4>1
    <3> QED BY <2>6, <3>1 DEF LastIsGreatest
  <2>8. output' \in Seq(KeyedEntry)
    BY <1>1, <2>1, <2>6
  <2>9. RightFor(Seen', output')
    <3>1. CASE last_user_key # <<UserKey(e.key)>>
      <4>1. \A s \in Seen : EntryOf(s).uk < EntryOf(e).uk
        <5>1. CASE Seen = {}
          BY <5>1
        <5>2. CASE Seen # {}
          <6>1. PICK s \in Seen : /\ last_user_key = <<UserKey(s.key)>>
                                  /\ \A t \in Seen : EntryOf(t).uk <= EntryOf(s).uk
            BY <1>1, <5>2 DEF LastIsGreatest
          <6>2. UserKey(s.key) # UserKey(e.key)
            BY <3>1, <6>1
          <6>3. EntryOf(s).uk # EntryOf(e).uk
            BY <1>4, <2>1, <6>2, KeyedFacts
          <6>4. EntryOf(s).uk < EntryOf(e).uk
            BY <2>5, <6>3
          <6> QED BY <2>5, <6>1, <6>4
        <5> QED BY <5>1, <5>2
      <4>2. output' = IF IsTombstone(EntryOf(e)) THEN output ELSE Append(output, e)
        BY <2>6, <3>1 DEF BottommostKeeps
      <4> QED BY <1>1, <1>4, <2>1, <4>1, <4>2, FirstVersionRight
    <3>2. CASE last_user_key = <<UserKey(e.key)>>
      <4>1. PICK s \in Seen : last_user_key = <<UserKey(s.key)>>
        BY <1>1, <3>2 DEF LastIsGreatest
      <4>2. UserKey(s.key) = UserKey(e.key)
        BY <3>2, <4>1
      <4>3. EntryOf(s).uk = EntryOf(e).uk
        BY <1>4, <2>1, <4>2, KeyedFacts
      <4>4. output' = output
        BY <2>6, <3>2 DEF BottommostKeeps
      <4> QED BY <1>1, <1>4, <2>1, <2>4, <4>3, <4>4, LaterVersionRight
    <3> QED BY <3>1, <3>2
  <2> QED BY <1>1, <1>2, <1>3, <2>3, <2>7, <2>8, <2>9 DEF RawInv
<1> QED BY <1>5, <1>6

LEMMA RawStep == RawInv /\ [Next]_vars => RawInv'
<1> SUFFICES ASSUME RawInv, [Next]_vars PROVE RawInv'
  OBVIOUS
<1>1. ASSUME NEW i \in DOMAIN sources, Visit(i) PROVE RawInv'
  BY <1>1, RawVisit
<1>2. ASSUME UNCHANGED <<sources, pos, last_user_key, output>>,
             phase' = "done" => LiveSources = {}
      PROVE  RawInv'
  <2>1. Seen' = Seen /\ Ahead' = Ahead /\ LiveSources' = LiveSources
    BY <1>2 DEF Seen, Ahead, LiveSources
  <2>2. LastIsGreatest'
    BY <1>2, <2>1 DEF RawInv, LastIsGreatest
  <2> QED BY <1>2, <2>1, <2>2 DEF RawInv
<1>3. CASE Panic
  BY <1>2, <1>3 DEF Panic
<1>4. CASE Finish
  BY <1>2, <1>4 DEF Finish
<1>5. CASE UNCHANGED vars
  BY <1>2, <1>5 DEF vars, RawInv
<1> QED BY <1>1, <1>3, <1>4, <1>5 DEF Next, Terminated

LEMMA RawInvariant == Spec => []RawInv
BY RawInitially, RawStep, PTL DEF Spec
-----------------------------------------------------------------------------
(* An output that is right for S keeps the promise of compact for the      *)
(* entries S stands for.                                                   *)
LEMMA RightIsBottommost ==
    ASSUME NEW S, S \subseteq KeyedEntry, NEW out \in Seq(KeyedEntry), RightFor(S, out)
    PROVE  IsBottommostOf([n \in DOMAIN out |-> EntryOf(out[n])], [e \in S |-> <<EntryOf(e)>>])
<1> DEFINE input == [e \in S |-> <<EntryOf(e)>>]
           E == {EntryOf(e) : e \in S}
           O == [n \in DOMAIN out |-> EntryOf(out[n])]
<1>1. InputEntries(input) = E
  <2>1. ASSUME NEW e \in S PROVE ToSet(input[e]) = {EntryOf(e)}
    <3>1. input[e] = <<EntryOf(e)>>
      OBVIOUS
    <3>2. ToSet(<<EntryOf(e)>>) = {EntryOf(e)}
      BY DEF ToSet
    <3> QED BY <3>1, <3>2
  <2>2. DOMAIN input = S
    OBVIOUS
  <2> HIDE DEF input
  <2> QED BY <2>1, <2>2 DEF InputEntries
<1>2. \A x \in E : x.uk \in Nat /\ x.packed \in Nat
  BY KeyedFacts
<1>3. DOMAIN O = DOMAIN out /\ \A n \in DOMAIN out : O[n] = EntryOf(out[n])
  OBVIOUS
<1> HIDE DEF input, O
<1>4. ASSUME NEW e \in S, NewestIn(S, e)
      PROVE  EntryOf(e) \in NewestVersions(input, EntryOf(e).uk)
  BY <1>1, <1>4 DEF NewestIn, NewestVersions
<1>5. \A n \in DOMAIN out :
          /\ out[n] \in S /\ O[n] \in E /\ ~IsTombstone(O[n])
          /\ O[n] \in NewestVersions(input, O[n].uk)
  BY <1>3, <1>4 DEF RightFor
<1>6. \A n, m \in DOMAIN O : n < m => O[n].uk < O[m].uk
  BY <1>3 DEF RightFor
<1>7. ASSUME NEW n \in DOMAIN out PROVE O[n].uk \in LiveKeys(input)
  <2>1. O[n] \in E /\ ~IsTombstone(O[n]) /\ O[n] \in NewestVersions(input, O[n].uk)
    BY <1>5
  <2>2. ASSUME NEW x \in NewestVersions(input, O[n].uk) PROVE ~IsTombstone(x)
    <3>1. x \in E /\ x.uk = O[n].uk /\ x.packed <= O[n].packed /\ O[n].packed <= x.packed
      BY <1>1, <2>1 DEF NewestVersions
    <3>2. x.packed = O[n].packed
      BY <1>2, <2>1, <3>1
    <3> QED BY <2>1, <3>2 DEF IsTombstone, TypeByte
  <2> QED BY <1>1, <2>1, <2>2 DEF LiveKeys
<1>8. ASSUME NEW k \in LiveKeys(input) PROVE \E n \in DOMAIN out : O[n].uk = k
  <2>1. PICK e \in S : EntryOf(e).uk = k
    BY <1>1 DEF LiveKeys
  <2>2. CASE \E t \in S : /\ EntryOf(t).uk = EntryOf(e).uk
                          /\ IsTombstone(EntryOf(t)) /\ NewestIn(S, t)
    <3>1. PICK t \in S : EntryOf(t).uk = k /\ IsTombstone(EntryOf(t)) /\ NewestIn(S, t)
      BY <2>1, <2>2
    <3>2. EntryOf(t) \in NewestVersions(input, k)
      BY <1>4, <3>1
    <3> QED BY <3>1, <3>2 DEF LiveKeys
  <2>3. CASE \E n \in DOMAIN out : EntryOf(out[n]).uk = EntryOf(e).uk
    BY <1>3, <2>1, <2>3
  <2> QED BY <2>2, <2>3 DEF RightFor
<1>9. {O[n].uk : n \in DOMAIN O} = LiveKeys(input)
  BY <1>3, <1>7, <1>8
<1>10. IsBottommostOf(O, input)
  BY <1>3, <1>5, <1>6, <1>9 DEF IsBottommostOf
<1> QED BY <1>10 DEF O, input

LEMMA EntriesOfSources ==
    ASSUME sources \in RawInputs
    PROVE  /\ RawEntries \subseteq RawEntry /\ WellFormed \subseteq KeyedEntry
           /\ \A x : x \in RawEntries <=>
                  \E i \in DOMAIN sources : \E p \in DOMAIN sources[i] : x = sources[i][p]
<1>1. \A x : x \in RawEntries <=>
          \E i \in DOMAIN sources : \E p \in DOMAIN sources[i] : x = sources[i][p]
  BY DEF RawEntries, InputEntries, ToSet
<1>2. RawEntries \subseteq RawEntry
  BY <1>1, SourceFacts
<1> QED BY <1>1, <1>2 DEF WellFormed, KeyedEntry

(* Spec => []BytesStandForEntries: in every compaction of raw keys, the    *)
(* byte comparators order the keys that have a suffix as InternalKeys      *)
(* orders the entries they stand for, and split, make_internal_key and     *)
(* zero_out_seqno keep user key and type.                                  *)
THEOREM BytesAreEntries == Spec => []BytesStandForEntries
<1>1. RawInv => BytesStandForEntries
  <2> SUFFICES ASSUME RawInv PROVE BytesStandForEntries
    OBVIOUS
  <2>1. WellFormed \subseteq KeyedEntry
    BY EntriesOfSources DEF RawInv
  <2>2. \A a, b \in WellFormed : OrderAsEntries(a, b)
    BY <2>1, EntryFacts DEF KeyedEntry
  <2>3. \A e \in WellFormed : SuffixRoundTrips(e)
    BY <2>1, SuffixKept DEF KeyedEntry
  <2> QED BY <2>2, <2>3 DEF BytesStandForEntries
<1> QED BY <1>1, RawInvariant, PTL

(* Spec => []PrefixNeverMisorders: comparing by load_be_prefix first gives *)
(* the order memcmp gives, whatever the lengths of the keys and the prefix *)
(* and whatever zero bytes the keys end in.  No comparator of the          *)
(* repository turns this fast path on.                                     *)
THEOREM PrefixAgrees == Spec => []PrefixNeverMisorders
<1>1. RawInv => PrefixNeverMisorders
  <2> SUFFICES ASSUME RawInv PROVE PrefixNeverMisorders
    OBVIOUS
  <2>1. \A a \in RawEntries : a.key \in Seq(Byte)
    BY EntriesOfSources DEF RawInv, RawEntry
  <2> QED BY <2>1, PrefixContract DEF PrefixNeverMisorders
<1> QED BY <1>1, RawInvariant, PTL

(* Spec => []MalformedLeavesRestIntact: a compaction that ends without a   *)
(* panic has left out the entries without a suffix and has done with the   *)
(* others what compact promises, however the malformed ones stood between  *)
(* them.                                                                   *)
THEOREM RestIntact == Spec => []MalformedLeavesRestIntact
<1>1. RawInv => MalformedLeavesRestIntact
  <2> SUFFICES ASSUME RawInv, phase = "done"
               PROVE  IsBottommostOf([n \in DOMAIN output |-> EntryOf(output[n])],
                                     [e \in WellFormed |-> <<EntryOf(e)>>])
    BY DEF MalformedLeavesRestIntact
  <2>1. \A i \in DOMAIN sources : DOMAIN sources[i] = 1..pos[i]
    BY SourceFacts DEF RawInv, PositionsIn, LiveSources
  <2>2. Seen = WellFormed
    <3>1. \A x : x \in Seen <=> \E i \in DOMAIN sources : \E p \in DOMAIN sources[i] :
                                    HasSuffix(sources[i][p].key) /\ x = sources[i][p]
      <4>1. \A x : x \in Seen <=> \E i \in DOMAIN sources : \E p \in 1..pos[i] :
                                      HasSuffix(sources[i][p].key) /\ x = sources[i][p]
        BY SeenMembers DEF Seen
      <4> QED BY <2>1, <4>1
    <3>2. \A x : x \in WellFormed <=> \E i \in DOMAIN sources : \E p \in DOMAIN sources[i] :
                                          HasSuffix(sources[i][p].key) /\ x = sources[i][p]
      BY EntriesOfSources DEF WellFormed, RawInv
    <3> QED BY <3>1, <3>2
  <2>3. WellFormed \subseteq KeyedEntry /\ output \in Seq(KeyedEntry) /\ RightFor(WellFormed, output)
    BY <2>2, EntriesOfSources DEF RawInv
  <2> QED BY <2>3, RightIsBottommost
<1> QED BY <1>1, RawInvariant, PTL
=============================================================================
