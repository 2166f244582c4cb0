---------------------------- MODULE CodecProofs -----------------------------
(***************************************************************************)
(* Bytes that are written and read back: ArenaSource's buffer (Arena) and  *)
(* the blocks of a table file (Varint, BlockCodec).                        *)
(***************************************************************************)
EXTENDS Arena, BlockCodec, SequenceTheorems, FunctionTheorems, FiniteSetTheorems,
        WellFoundedInduction, TLAPS

(* The bytes of s stand in buffer a behind offset off.                     *)
Holds(a, off, s) ==
    /\ off + Len(s) <= Len(a)
    /\ \A j \in 1..Len(s) : a[off + j] = s[j]
-----------------------------------------------------------------------------
(* Numbers.                                                                *)

(* Every non-empty set of naturals has a least element.                    *)
LEMMA LeastElement ==
    ASSUME NEW T, T \subseteq Nat, T # {}
    PROVE  \E x \in T : \A y \in T : x <= y
<1>1. PICK x \in T : \A y \in T : ~(<<y, x>> \in OpToRel(<, Nat))
  BY NatLessThanWellFounded, WFMin
<1>2. \A y \in T : ~(y < x)
  BY <1>1 DEF OpToRel
<1> QED BY <1>2

(* Induction: a set with 0 in it and with n + 1 for every n holds every    *)
(* natural number, as a smallest one left out would have a predecessor.    *)
LEMMA SetInduction ==
    ASSUME NEW T, 0 \in T, \A n \in Nat : n \in T => n + 1 \in T
    PROVE  \A n \in Nat : n \in T
<1> DEFINE Bad == Nat \ T
<1> SUFFICES ASSUME Bad # {} PROVE FALSE
  OBVIOUS
<1>1. PICK x \in Bad : \A y \in Bad : x <= y
  BY LeastElement, Bad \subseteq Nat
<1>2. x \in Nat /\ x # 0 /\ x - 1 \in Nat /\ (x - 1) + 1 = x /\ ~(x <= x - 1)
  OBVIOUS
<1>3. x - 1 \in T
  BY <1>1, <1>2
<1> QED BY <1>2, <1>3

IsRecursion(f, m, D, a, g) ==
    f \in [0..m -> D] /\ f[0] = a /\ \A n \in 1..m : f[n] = g[n][f[n - 1]]

(* A recursion over 0..m has a solution.                                   *)
LEMMA BoundedRecursion ==
    ASSUME NEW m \in Nat, NEW D, NEW a \in D, NEW g \in [1..m -> [D -> D]]
    PROVE  \E f : IsRecursion(f, m, D, a, g)
<1> USE DEF IsRecursion
<1> DEFINE Solves(f, k) == IsRecursion(f, k, D, a, g)
           T == {k \in Nat : k <= m => \E f : Solves(f, k)}
<1>1. 0 \in T
  <2> DEFINE f == [n \in 0..0 |-> a]
  <2>1. Solves(f, 0)
    OBVIOUS
  <2> HIDE DEF f, Solves
  <2> QED BY <2>1
<1>2. ASSUME NEW k \in Nat, k \in T PROVE k + 1 \in T
  <2> SUFFICES ASSUME k + 1 <= m PROVE \E f : Solves(f, k + 1)
    OBVIOUS
  <2>1. PICK f : Solves(f, k)
    BY <1>2
  <2> DEFINE h == [n \in 0..(k + 1) |-> IF n <= k THEN f[n] ELSE g[k + 1][f[k]]]
  <2>2. f[k] \in D /\ k + 1 \in 1..m /\ 0 \in 0..(k + 1) /\ 0 <= k
    BY <2>1
  <2>3. g[k + 1][f[k]] \in D
    BY <2>2
  <2>4. h \in [0..(k + 1) -> D] /\ h[0] = a
    BY <2>1, <2>2, <2>3
  <2>5. ASSUME NEW n \in 1..(k + 1) PROVE h[n] = g[n][h[n - 1]]
    <3>1. CASE n <= k
      <4>1. n \in 1..k /\ n \in 0..(k + 1) /\ n - 1 \in 0..(k + 1) /\ n - 1 <= k
        BY <3>1
      <4>2. h[n] = f[n] /\ h[n - 1] = f[n - 1]
        BY <3>1, <4>1
      <4>3. f[n] = g[n][f[n - 1]]
        BY <2>1, <4>1
      <4> HIDE DEF h
      <4> QED BY <4>2, <4>3
    <3>2. CASE n = k + 1
      <4>1. n \in 0..(k + 1) /\ ~(n <= k) /\ n - 1 = k /\ k \in 0..(k + 1) /\ k <= k
        BY <3>2
      <4>2. h[n] = g[k + 1][f[k]] /\ h[n - 1] = f[k]
        BY <4>1
      <4> HIDE DEF h
      <4> QED BY <3>2, <4>2
    <3> QED BY <3>1, <3>2
  <2> HIDE DEF h
  <2>6. Solves(h, k + 1)
    BY <2>4, <2>5
  <2> QED BY <2>6
<1> HIDE DEF T, Solves
<1>3. m \in T
  BY <1>1, <1>2, SetInduction
<1>4. \E f : Solves(f, m)
  BY <1>3 DEF T
<1> QED BY <1>4 DEF Solves

LEMMA Quotient ==
    ASSUME NEW y \in Nat, y > 0
    PROVE  \A x \in Nat : /\ x \div y \in Nat /\ x % y \in 0..(y - 1)
                          /\ x = y * (x \div y) + (x % y)
                          /\ x \div y = 0 <=> x < y
<1> DEFINE T == {x \in Nat : \E q \in Nat, r \in 0..(y - 1) : x = y * q + r}
<1>1. 0 \in T
  <2>1. 0 \in 0..(y - 1) /\ 0 = y * 0 + 0
    OBVIOUS
  <2> QED BY <2>1
<1>2. ASSUME NEW x \in Nat, x \in T PROVE x + 1 \in T
  <2>1. PICK q \in Nat, r \in 0..(y - 1) : x = y * q + r
    BY <1>2
  <2>2. CASE r + 1 < y
    <3>1. r + 1 \in 0..(y - 1) /\ x + 1 = y * q + (r + 1)
      BY <2>1, <2>2
    <3> QED BY <3>1
  <2>3. CASE ~(r + 1 < y)
    <3>1. r + 1 = y /\ 0 \in 0..(y - 1) /\ q + 1 \in Nat
      BY <2>3
    <3>2. y * (q + 1) = y * q + y
      OBVIOUS
    <3>3. x + 1 = y * (q + 1) + 0 /\ x + 1 \in Nat
      BY <2>1, <3>1, <3>2
    <3> QED BY <3>1, <3>3, Zenon
  <2> QED BY <2>2, <2>3
<1> HIDE DEF T
<1>3. \A x \in Nat : x \in T
  BY <1>1, <1>2, SetInduction
<1> SUFFICES ASSUME NEW x \in Nat
             PROVE  /\ x \div y \in Nat /\ x % y \in 0..(y - 1)
                    /\ x = y * (x \div y) + (x % y)
                    /\ x \div y = 0 <=> x < y
  OBVIOUS
<1>4. PICK q \in Nat, r \in 0..(y - 1) : x = y * q + r
  BY <1>3 DEF T
<1>5. x \div y = q /\ x % y = r
  <2>1. y * q \in Nat /\ y * q = q * y
    OBVIOUS
  <2>2. (y * q + r) \div y = q
    BY <2>1
  <2>3. (y * q + r) % y = r
    BY <2>1
  <2> QED BY <1>4, <2>2, <2>3
<1>6. q = 0 <=> x < y
  <2>1. ASSUME q >= 1 PROVE ~(x < y)
    <3>1. y * q >= y
      BY <2>1
    <3> QED BY <1>4, <3>1
  <2>2. ASSUME q = 0 PROVE x < y
    BY <1>4, <2>2
  <2> QED BY <2>1, <2>2
<1>7. q \in Nat /\ r \in 0..(y - 1)
  OBVIOUS
<1>8. x = y * (x \div y) + (x % y)
  BY <1>4, <1>5, Zenon
<1>9. x \div y \in Nat /\ x % y \in 0..(y - 1)
  BY <1>5, <1>7, Zenon
<1>10. x \div y = 0 <=> x < y
  BY <1>5, <1>6, Zenon
<1> QED BY <1>8, <1>9, <1>10, Zenon

(* Dividing once more takes one more digit away.                           *)
LEMMA ShiftedDigits ==
    ASSUME NEW v \in Nat, NEW base \in Nat, base > 0, NEW len \in Nat
    PROVE  /\ Shifted(v, base, len) \in [0..len -> Nat]
           /\ Shifted(v, base, len)[0] = v
           /\ \A n \in 1..len :
                  Shifted(v, base, len)[n] = Shifted(v, base, len)[n - 1] \div base
<1> DEFINE body(f) == [n \in 0..len |-> IF n = 0 THEN v ELSE f[n - 1] \div base]
           g == [n \in 1..len |-> [x \in Nat |-> x \div base]]
<1>1. Shifted(v, base, len) = CHOOSE f : f = body(f)
  BY Zenon DEF Shifted
<1>2. g \in [1..len -> [Nat -> Nat]]
  BY Quotient
<1>3. PICK f : IsRecursion(f, len, Nat, v, g)
  <2> HIDE DEF g
  <2> QED BY <1>2, BoundedRecursion, Zenon
<1>4. \A n \in 1..len : f[n] = f[n - 1] \div base
  <2> SUFFICES ASSUME NEW n \in 1..len PROVE f[n] = f[n - 1] \div base
    OBVIOUS
  <2>1. f[n - 1] \in Nat
    BY <1>3 DEF IsRecursion
  <2> QED BY <1>3, <2>1 DEF IsRecursion
<1>5. f = body(f)
  <2>1. \A n \in 0..len : f[n] = IF n = 0 THEN v ELSE f[n - 1] \div base
    BY <1>3, <1>4 DEF IsRecursion
  <2> QED BY <1>3, <2>1 DEF IsRecursion
<1> HIDE DEF g
<1>6. Shifted(v, base, len) = body(Shifted(v, base, len))
  <2> HIDE DEF body
  <2> QED BY <1>1, <1>5, Zenon
<1> DEFINE h == Shifted(v, base, len)
<1>7. \A n \in 0..len : h[n] = IF n = 0 THEN v ELSE h[n - 1] \div base
  <2> HIDE DEF h
  <2> QED BY <1>6 DEF h
<1>8. h = [n \in 0..len |-> h[n]]
  <2> DEFINE w == h
  <2>1. w = body(w)
    BY <1>6
  <2> HIDE DEF w
  <2>2. w = [n \in 0..len |-> w[n]]
    BY <2>1
  <2> QED BY <2>2 DEF w
<1> HIDE DEF h
<1>9. \A n \in 0..len : h[n] \in Nat
  <2> DEFINE T == {n \in Nat : n <= len => h[n] \in Nat}
  <2>1. 0 \in T
    BY <1>7
  <2>2. ASSUME NEW n \in Nat, n \in T PROVE n + 1 \in T
    <3> SUFFICES ASSUME n + 1 <= len PROVE h[n + 1] \in Nat
      OBVIOUS
    <3>1. h[n] \in Nat /\ n + 1 \in 0..len /\ n + 1 # 0 /\ (n + 1) - 1 = n
      BY <2>2
    <3>2. h[n + 1] = h[n] \div base
      BY <1>7, <3>1
    <3> QED BY <3>1, <3>2, Quotient
  <2> HIDE DEF T
  <2>3. \A n \in Nat : n \in T
    BY <2>1, <2>2, SetInduction
  <2> QED BY <2>3 DEF T
<1>10. h \in [0..len -> Nat]
  BY <1>8, <1>9
<1>11. h[0] = v /\ \A n \in 1..len : h[n] = h[n - 1] \div base
  BY <1>7
<1> QED BY <1>10, <1>11 DEF h

(* A smaller number has no more digits.                                    *)
LEMMA ShiftedMonotone ==
    ASSUME NEW base \in Nat, base > 0, NEW len \in Nat,
           NEW v \in Nat, NEW w \in Nat, v <= w
    PROVE  \A n \in 0..len : Shifted(v, base, len)[n] <= Shifted(w, base, len)[n]
<1> DEFINE V == Shifted(v, base, len)
           W == Shifted(w, base, len)
           T == {n \in Nat : n <= len => V[n] <= W[n]}
<1>1. /\ V \in [0..len -> Nat] /\ V[0] = v /\ \A n \in 1..len : V[n] = V[n - 1] \div base
      /\ W \in [0..len -> Nat] /\ W[0] = w /\ \A n \in 1..len : W[n] = W[n - 1] \div base
  BY ShiftedDigits, ZenonT(60)
<1> HIDE DEF V, W
<1>2. 0 \in T
  BY <1>1
<1>3. ASSUME NEW n \in Nat, n \in T PROVE n + 1 \in T
  <2> SUFFICES ASSUME n + 1 <= len PROVE V[n + 1] <= W[n + 1]
    OBVIOUS
  <2> DEFINE x == V[n]
             y == W[n]
             p == V[n + 1]
             q == W[n + 1]
  <2>1. x \in Nat /\ y \in Nat /\ x <= y /\ p = x \div base /\ q = y \div base
    <3>1. n + 1 \in 1..len /\ (n + 1) - 1 = n /\ n \in 0..len
      OBVIOUS
    <3> QED BY <1>1, <1>3, <3>1
  <2> HIDE DEF x, y, p, q
  <2>2. /\ p \in Nat /\ q \in Nat /\ x = base * p + (x % base) /\ y = base * q + (y % base)
        /\ x % base \in 0..(base - 1) /\ y % base \in 0..(base - 1)
    BY <2>1, Quotient
  <2>3. p <= q
    <3> DEFINE r == x % base
               s == y % base
    <3>1. x = base * p + r /\ y = base * q + s /\ r \in 0..(base - 1) /\ s \in 0..(base - 1)
      BY <2>2
    <3> HIDE DEF r, s
    <3> SUFFICES ASSUME p >= q + 1 PROVE FALSE
      BY <2>2
    <3>2. base * p >= base * (q + 1)
      BY <2>2
    <3>3. base * (q + 1) = base * q + base
      BY <2>2
    <3>4. base * p \in Nat /\ base * q \in Nat /\ base * (q + 1) \in Nat
      BY <2>2
    <3> QED BY <2>1, <3>1, <3>2, <3>3, <3>4
  <2> QED BY <2>3 DEF p, q
<1> HIDE DEF T
<1>4. \A n \in Nat : n \in T
  BY <1>2, <1>3, SetInduction
<1> QED BY <1>4 DEF T, V, W

(* s holds n digits, and R what is left of the number after each.          *)
DigitsOf(R, s, base, n) ==
    /\ R \in [0..n -> Nat] /\ R[n] = 0
    /\ s \in Seq(Nat) /\ Len(s) = n
    /\ \A m \in 1..n : R[m] = R[m - 1] \div base /\ s[m] = R[m - 1] % base

(* The digits of a number, lowest first, make the number.                  *)
LEMMA DigitsMakeNumber ==
    ASSUME NEW base \in Nat, base > 0, NEW n \in Nat, NEW R, NEW s, DigitsOf(R, s, base, n)
    PROVE  FromDigits(s, base) = R[0]
<1> USE DEF DigitsOf
<1> DEFINE next(x, k) == s[Len(s) - k + 1] + base * x
           body(f) == [k \in 0..Len(s) |-> IF k = 0 THEN 0 ELSE next(f[k - 1], k)]
           g == [k \in 0..Len(s) |-> R[n - k]]
<1>3. FromDigits(s, base) = (CHOOSE f : f = body(f))[Len(s)]
  BY Zenon DEF FromDigits
<1>4. ASSUME NEW k \in 1..n PROVE next(R[n - (k - 1)], k) = R[n - k]
  <2> DEFINE x == R[n - k]
             y == R[n - (k - 1)]
             d == s[n - k + 1]
  <2>1. /\ n - k + 1 \in 1..n /\ n - (k - 1) = n - k + 1
        /\ (n - k + 1) - 1 = n - k /\ n - k \in 0..n
    OBVIOUS
  <2>2. x \in Nat /\ y = x \div base /\ d = x % base
    BY <2>1
  <2> HIDE DEF x, y, d
  <2>3. x = base * (x \div base) + (x % base) /\ x \div base \in Nat /\ x % base \in 0..(base - 1)
    BY <2>2, Quotient
  <2>4. x = base * y + d /\ y \in Nat /\ d \in Nat /\ base * y \in Nat
    BY <2>2, <2>3
  <2>5. d + base * y = x
    BY <2>4, <2>2
  <2> QED BY <2>5 DEF x, y, d
<1> HIDE DEF next
<1>5. g = body(g)
  <2>1. ASSUME NEW k \in 0..Len(s) PROVE g[k] = body(g)[k]
    <3>1. CASE k = 0
      BY <3>1
    <3>2. CASE k # 0
      <4>1. k \in 1..n /\ k - 1 \in 0..n
        BY <3>2
      <4>2. g[k - 1] = R[n - (k - 1)] /\ g[k] = R[n - k]
        BY <4>1
      <4>3. body(g)[k] = next(g[k - 1], k)
        BY <3>2, <4>1
      <4> HIDE DEF g, body
      <4> QED BY <1>4, <4>1, <4>2, <4>3
    <3> QED BY <3>1, <3>2
  <2> QED BY <2>1
<1> DEFINE h == CHOOSE f : f = body(f)
<1>6. h = body(h)
  <2> HIDE DEF body, g
  <2> QED BY <1>5, Zenon
<1> HIDE DEF h
<1>7. \A k \in 0..n : h[k] = IF k = 0 THEN 0 ELSE next(h[k - 1], k)
  BY <1>6
<1> HIDE DEF body, g
<1>8. \A k \in 0..n : h[k] = R[n - k]
  <2> DEFINE T == {k \in Nat : k <= n => h[k] = R[n - k]}
  <2>1. 0 \in T
    <3>1. 0 \in 0..n /\ n - 0 = n
      OBVIOUS
    <3> QED BY <1>7, <3>1
  <2>2. ASSUME NEW k \in Nat, k \in T PROVE k + 1 \in T
    <3> SUFFICES ASSUME k + 1 <= n PROVE h[k + 1] = R[n - (k + 1)]
      OBVIOUS
    <3>1. k + 1 \in 1..n /\ k + 1 \in 0..n /\ k + 1 # 0 /\ (k + 1) - 1 = k
      OBVIOUS
    <3>2. h[k] = R[n - ((k + 1) - 1)]
      BY <2>2, <3>1
    <3>3. h[k + 1] = next(h[(k + 1) - 1], k + 1)
      BY <1>7, <3>1
    <3>4. h[(k + 1) - 1] = R[n - ((k + 1) - 1)]
      BY <3>1, <3>2
    <3> QED BY <1>4, <3>1, <3>3, <3>4
  <2> HIDE DEF T
  <2>3. \A k \in Nat : k \in T
    BY <2>1, <2>2, SetInduction
  <2> QED BY <2>3 DEF T
<1>9. n \in 0..n /\ n - n = 0
  OBVIOUS
<1>10. h[n] = R[0]
  BY <1>8, <1>9
<1> QED BY <1>3, <1>10 DEF h
-----------------------------------------------------------------------------
(* varint.rs.                                                              *)

LEMMA LimitFacts ==
    /\ Group \in Nat /\ Group > 1 /\ ByteLimit \in Nat /\ ByteLimit > 1
    /\ Limit32 \in Nat /\ Limit32 > 1 /\ Limit64 \in Nat /\ Limit32 <= Limit64
    /\ MaxVarintLen \in Nat /\ FixedLen \in Nat /\ FixedLen > 0
  BY VarintAssumption DEF ByteLimit

(* to_le_bytes makes bytes of any number, as many as asked for.            *)
LEMMA LeBytesType ==
    ASSUME NEW v \in Nat, NEW len \in Nat
    PROVE  ToLeBytes(v, len) \in Seq(Byte) /\ Len(ToLeBytes(v, len)) = len
<1> DEFINE R == Shifted(v, ByteLimit, len)
<1>1. R \in [0..len -> Nat] /\ ByteLimit \in Nat /\ ByteLimit > 0
  BY LimitFacts, ShiftedDigits
<1>2. ToLeBytes(v, len) = [n \in 1..len |-> R[n - 1] % ByteLimit]
  BY DEF ToLeBytes
<1> HIDE DEF R
<1>3. \A n \in 1..len : R[n - 1] % ByteLimit \in Byte
  <2> SUFFICES ASSUME NEW n \in 1..len PROVE R[n - 1] % ByteLimit \in Byte
    OBVIOUS
  <2>1. R[n - 1] \in Nat
    BY <1>1
  <2> QED BY <1>1, <2>1, Quotient DEF Byte
<1>4. ToLeBytes(v, len) \in [1..len -> Byte]
  BY <1>2, <1>3
<1> QED BY <1>4

(* from_le_bytes gives a u32 back that to_le_bytes wrote.                  *)
LEMMA LeRoundTrip ==
    ASSUME NEW v \in Nat, v < Limit32
    PROVE  FromLeBytes(ToLeBytes(v, FixedLen)) = v
<1> DEFINE R == Shifted(v, ByteLimit, FixedLen)
           W == Shifted(Limit32 - 1, ByteLimit, FixedLen)
           s == ToLeBytes(v, FixedLen)
<1>1. FixedLen \in Nat /\ ByteLimit \in Nat /\ ByteLimit > 0 /\ Limit32 - 1 \in Nat /\ v <= Limit32 - 1
  BY LimitFacts
<1>2. R \in [0..FixedLen -> Nat] /\ R[0] = v /\ \A n \in 1..FixedLen : R[n] = R[n - 1] \div ByteLimit
  BY <1>1, ShiftedDigits, ZenonT(60)
<1>3. R[FixedLen] = 0
  <2>1. W \in [0..FixedLen -> Nat]
    BY <1>1, ShiftedDigits
  <2>2. FixedLen \in 0..FixedLen
    BY <1>1
  <2>3. R[FixedLen] <= W[FixedLen]
    BY <1>1, <2>2, ShiftedMonotone
  <2>4. W[FixedLen] = 0
    BY VarintAssumption
  <2> HIDE DEF R, W
  <2>5. R[FixedLen] \in Nat
    BY <1>2, <2>2
  <2> QED BY <2>3, <2>4, <2>5
<1>4. s \in Seq(Byte) /\ Len(s) = FixedLen /\ \A n \in 1..FixedLen : s[n] = R[n - 1] % ByteLimit
  <2>1. s = [n \in 1..FixedLen |-> R[n - 1] % ByteLimit]
    BY DEF ToLeBytes
  <2>2. s \in Seq(Byte) /\ Len(s) = FixedLen
    BY <1>1, LeBytesType
  <2> HIDE DEF R, s
  <2> QED BY <2>1, <2>2
<1> HIDE DEF R, W, s
<1>5. s \in Seq(Nat)
  <2>1. Byte \subseteq Nat
    BY <1>1 DEF Byte
  <2> QED BY <1>4, <2>1, SeqMonotonic
<1>6. FromDigits(s, ByteLimit) = R[0]
  <2>1. \A m \in 1..FixedLen : R[m] = R[m - 1] \div ByteLimit /\ s[m] = R[m - 1] % ByteLimit
    BY <1>2, <1>4
  <2>2. DigitsOf(R, s, ByteLimit, FixedLen)
    BY <1>2, <1>3, <1>4, <1>5, <2>1 DEF DigitsOf
  <2> QED BY <1>1, <2>2, DigitsMakeNumber
<1> QED BY <1>2, <1>6 DEF FromLeBytes, s

(* The length of a varint: up to the first byte after which nothing is     *)
(* left.                                                                   *)
LEMMA VarintLength ==
    ASSUME NEW v \in U64
    PROVE  /\ VarintLen(v) \in 1..MaxVarintLen
           /\ \A m \in 1..VarintLen(v) :
                  Shifted(v, Group, MaxVarintLen)[m] = 0 <=> m = VarintLen(v)
<1> DEFINE R == Shifted(v, Group, MaxVarintLen)
           W == Shifted(Limit64 - 1, Group, MaxVarintLen)
           T == {m \in 1..MaxVarintLen : R[m] = 0}
<1>1. /\ MaxVarintLen \in Nat /\ Group \in Nat /\ Group > 0
      /\ Limit64 - 1 \in Nat /\ Limit64 - 1 > 0 /\ v \in Nat /\ v <= Limit64 - 1
  BY LimitFacts DEF U64
<1>2. W \in [0..MaxVarintLen -> Nat] /\ W[0] = Limit64 - 1 /\ W[MaxVarintLen] = 0
  BY <1>1, ShiftedDigits, VarintAssumption
<1>3. R[MaxVarintLen] = 0 /\ MaxVarintLen > 0
  <2>1. MaxVarintLen \in 0..MaxVarintLen
    BY <1>1
  <2>2. R[MaxVarintLen] <= W[MaxVarintLen]
    BY <1>1, <2>1, ShiftedMonotone
  <2>3. R \in [0..MaxVarintLen -> Nat]
    BY <1>1, ShiftedDigits
  <2> HIDE DEF R, W
  <2>4. R[MaxVarintLen] \in Nat
    BY <2>1, <2>3
  <2>5. MaxVarintLen # 0
    BY <1>1, <1>2
  <2> QED BY <1>1, <1>2, <2>2, <2>4, <2>5
<1> HIDE DEF R, W
<1>4. MaxVarintLen \in T /\ T \subseteq Nat
  BY <1>1, <1>3
<1>5. PICK n \in T : \A m \in T : n <= m
  BY <1>4, LeastElement
<1>6. n \in 1..MaxVarintLen /\ \A m \in 1..n : R[m] = 0 <=> m = n
  BY <1>1, <1>5
<1> DEFINE P(k) == \A m \in 1..k : R[m] = 0 <=> m = k
<1>7. VarintLen(v) = CHOOSE k \in 1..MaxVarintLen : P(k)
  BY Zenon DEF VarintLen, R
<1>8. P(n)
  BY <1>6
<1> HIDE DEF P
<1>9. VarintLen(v) \in 1..MaxVarintLen /\ P(VarintLen(v))
  BY <1>6, <1>7, <1>8, Zenon
<1> QED BY <1>9 DEF P, R
(* put_varint64 writes bytes, at least one; all but the last have the      *)
(* continuation bit, and their other bits are the digits of the number.    *)
LEMMA VarintBytes ==
    ASSUME NEW v \in U64
    PROVE  /\ PutVarint64(v) \in Seq(Byte)
           /\ Len(PutVarint64(v)) = VarintLen(v) /\ VarintLen(v) \in 1..MaxVarintLen
           /\ \A m \in 1..VarintLen(v) :
                  /\ PutVarint64(v)[m] < Group <=> m = VarintLen(v)
                  /\ PutVarint64(v)[m] % Group = Shifted(v, Group, MaxVarintLen)[m - 1] % Group
<1> DEFINE R == Shifted(v, Group, MaxVarintLen)
           N == VarintLen(v)
           ByteOf(rest) == IF rest < Group THEN rest ELSE (rest % Group) + Group
<1>1. MaxVarintLen \in Nat /\ Group \in Nat /\ Group > 0 /\ v \in Nat
  BY LimitFacts DEF U64
<1>2. R \in [0..MaxVarintLen -> Nat] /\ \A n \in 1..MaxVarintLen : R[n] = R[n - 1] \div Group
  BY <1>1, ShiftedDigits
<1>3. N \in 1..MaxVarintLen /\ \A m \in 1..N : R[m] = 0 <=> m = N
  BY VarintLength
<1>4. PutVarint64(v) = [n \in 1..N |-> ByteOf(R[n - 1])]
  BY DEF PutVarint64
<1> HIDE DEF R, N
<1>5. ASSUME NEW x \in Nat
      PROVE  /\ ByteOf(x) \in Byte /\ ByteOf(x) % Group = x % Group
             /\ ByteOf(x) < Group <=> x \div Group = 0
  <2> DEFINE r == x % Group
  <2>1. r \in 0..(Group - 1) /\ (x \div Group = 0 <=> x < Group)
    BY <1>1, Quotient
  <2>2. CASE x < Group
    BY <1>1, <2>1, <2>2 DEF Byte, ByteLimit
  <2>3. CASE ~(x < Group)
    <3>1. ByteOf(x) = r + Group
      BY <2>3
    <3> HIDE DEF r, ByteOf
    <3>2. r + Group \in Byte /\ ~(r + Group < Group)
      BY <1>1, <2>1 DEF Byte, ByteLimit
    <3>3. (r + Group) % Group = r
      <4>1. r + Group = Group * 1 + r
        BY <1>1, <2>1
      <4>2. (Group * 1 + r) % Group = r
        BY <1>1, <2>1
      <4> QED BY <4>1, <4>2, Zenon
    <3>4. ByteOf(x) % Group = x % Group
      BY <3>1, <3>3, Zenon DEF r
    <3> QED BY <2>1, <2>3, <3>1, <3>2, <3>4
  <2> QED BY <2>2, <2>3
<1> HIDE DEF ByteOf
<1>6. ASSUME NEW m \in 1..N
      PROVE  /\ m \in 1..MaxVarintLen /\ R[m - 1] \in Nat
             /\ R[m - 1] \div Group = 0 <=> m = N
  <2>1. m \in 1..MaxVarintLen /\ m - 1 \in 0..MaxVarintLen
    BY <1>1, <1>3
  <2> QED BY <1>2, <1>3, <2>1
<1>7. PutVarint64(v) \in [1..N -> Byte]
  BY <1>4, <1>5, <1>6
<1>8. PutVarint64(v) \in Seq(Byte) /\ Len(PutVarint64(v)) = N
  BY <1>1, <1>3, <1>7
<1>9. ASSUME NEW m \in 1..N
      PROVE  /\ PutVarint64(v)[m] < Group <=> m = N
             /\ PutVarint64(v)[m] % Group = R[m - 1] % Group
  <2>1. PutVarint64(v)[m] = ByteOf(R[m - 1])
    BY <1>4
  <2>2. R[m - 1] \in Nat /\ (R[m - 1] \div Group = 0 <=> m = N)
    BY <1>6
  <2>3. ByteOf(R[m - 1]) % Group = R[m - 1] % Group
        /\ (ByteOf(R[m - 1]) < Group <=> R[m - 1] \div Group = 0)
    BY <1>5, <2>2
  <2> QED BY <2>1, <2>2, <2>3, Zenon
<1> QED BY <1>3, <1>8, <1>9 DEF R, N

(* get_varint64 finds the number put_varint64 has written, and stops right *)
(* behind it, whatever bytes follow.                                       *)
LEMMA VarintReadsBack ==
    ASSUME NEW v \in U64, NEW buf \in Seq(Byte), NEW at \in Nat,
           Holds(buf, at, PutVarint64(v))
    PROVE  GetVarint64(buf, at) = {[val |-> v, pos |-> at + Len(PutVarint64(v))]}
<1> DEFINE R == Shifted(v, Group, MaxVarintLen)
           N == VarintLen(v)
           p == PutVarint64(v)
           Ends == {k \in 1..MaxVarintLen :
                       /\ at + k <= Len(buf)
                       /\ \A m \in 1..k : buf[at + m] < Group <=> m = k}
           s == [m \in 1..N |-> buf[at + m] % Group]
           Got(n) == [val |-> FromDigits([m \in 1..n |-> buf[at + m] % Group], Group) % Limit64,
                      pos |-> at + n]
<1>1. /\ MaxVarintLen \in Nat /\ Group \in Nat /\ Group > 0 /\ Limit64 \in Nat /\ Limit64 > 0
      /\ v \in Nat /\ v < Limit64
  BY LimitFacts DEF U64
<1>2. /\ R \in [0..MaxVarintLen -> Nat] /\ R[0] = v
      /\ \A n \in 1..MaxVarintLen : R[n] = R[n - 1] \div Group
  BY <1>1, ShiftedDigits, ZenonT(60)
<1>3. /\ N \in 1..MaxVarintLen /\ p \in Seq(Byte) /\ Len(p) = N
      /\ \A m \in 1..N : (p[m] < Group <=> m = N) /\ p[m] % Group = R[m - 1] % Group
  BY VarintBytes
<1>4. R[N] = 0
  <2>1. \A m \in 1..N : R[m] = 0 <=> m = N
    BY VarintLength
  <2> HIDE DEF R, N
  <2> QED BY <1>1, <1>3, <2>1
<1>5. at + N <= Len(buf) /\ \A m \in 1..N : buf[at + m] = p[m]
  BY <1>3 DEF Holds
<1>6. GetVarint64(buf, at) = {Got(n) : n \in Ends}
  BY DEF GetVarint64
<1> HIDE DEF R, N, p
<1>7. Ends = {N}
  <2>1. N \in Ends
    BY <1>3, <1>5
  <2>2. ASSUME NEW k \in Ends PROVE k = N
    <3>1. k \in 1..MaxVarintLen /\ \A m \in 1..k : buf[at + m] < Group <=> m = k
      OBVIOUS
    <3> HIDE DEF Ends
    <3>2. CASE k < N
      <4>1. k \in 1..N /\ k \in 1..k
        BY <1>1, <1>3, <3>1, <3>2
      <4> QED BY <1>3, <1>5, <3>1, <3>2, <4>1
    <3>3. CASE N < k
      <4>1. N \in 1..k /\ N \in 1..N
        BY <1>1, <1>3, <3>1, <3>3
      <4> QED BY <1>3, <1>5, <3>1, <3>3, <4>1
    <3> QED BY <1>1, <1>3, <3>1, <3>2, <3>3
  <2> QED BY <2>1, <2>2
<1> HIDE DEF Ends
<1>8. \A m \in 1..N : R[m] = R[m - 1] \div Group /\ s[m] = R[m - 1] % Group
  <2> SUFFICES ASSUME NEW m \in 1..N
               PROVE  R[m] = R[m - 1] \div Group /\ s[m] = R[m - 1] % Group
    OBVIOUS
  <2>1. m \in 1..MaxVarintLen
    BY <1>1, <1>3
  <2>2. s[m] = buf[at + m] % Group
    OBVIOUS
  <2> HIDE DEF s
  <2>3. buf[at + m] % Group = R[m - 1] % Group
    BY <1>3, <1>5, Zenon
  <2> QED BY <1>2, <2>1, <2>2, <2>3, Zenon
<1>9. s \in Seq(Nat) /\ Len(s) = N
  <2>1. \A m \in 1..N : buf[at + m] % Group \in Nat
    <3> SUFFICES ASSUME NEW m \in 1..N PROVE buf[at + m] % Group \in Nat
      OBVIOUS
    <3>1. buf[at + m] \in Nat
      <4>1. p[m] \in Byte
        BY <1>3
      <4> QED BY <1>1, <1>5, <4>1 DEF Byte, ByteLimit
    <3> QED BY <1>1, <3>1, Quotient
  <2>2. s \in [1..N -> Nat]
    BY <2>1
  <2> HIDE DEF s
  <2> QED BY <1>1, <1>3, <2>2
<1>10. FromDigits(s, Group) = v
  <2> DEFINE Q == [n \in 0..N |-> R[n]]
  <2>1. Q \in [0..N -> Nat] /\ N \in Nat
    BY <1>1, <1>2, <1>3, SMTT(30)
  <2>2. Q[N] = 0 /\ Q[0] = v
    BY <1>1, <1>2, <1>3, <1>4
  <2>3. \A m \in 1..N : Q[m] = Q[m - 1] \div Group /\ s[m] = Q[m - 1] % Group
    <3> SUFFICES ASSUME NEW m \in 1..N
                 PROVE  Q[m] = Q[m - 1] \div Group /\ s[m] = Q[m - 1] % Group
      OBVIOUS
    <3>1. m \in 0..N /\ m - 1 \in 0..N
      BY <1>3
    <3>2. Q[m] = R[m] /\ Q[m - 1] = R[m - 1]
      BY <3>1
    <3> HIDE DEF Q, s
    <3> QED BY <1>8, <3>2, Zenon
  <2> HIDE DEF Q, s
  <2>4. DigitsOf(Q, s, Group, N)
    BY <1>9, <2>1, <2>2, <2>3 DEF DigitsOf
  <2>5. FromDigits(s, Group) = Q[0]
    BY <1>1, <2>1, <2>4, DigitsMakeNumber
  <2> QED BY <2>2, <2>5
<1>11. Got(N) = [val |-> v, pos |-> at + Len(PutVarint64(v))]
  <2>1. FromDigits(s, Group) % Limit64 = v
    <3>1. v % Limit64 = v
      BY <1>1
    <3> QED BY <1>10, <3>1, Zenon
  <2>2. Len(PutVarint64(v)) = N
    BY <1>3 DEF p
  <2> QED BY <2>1, <2>2, Zenon
<1> HIDE DEF Got
<1> QED BY <1>6, <1>7, <1>11
(* Bytes that stand somewhere, in parts and as a slice; and what appending *)
(* adds and leaves.                                                        *)
LEMMA HoldsParts ==
    ASSUME NEW buf \in Seq(Byte), NEW at \in Nat, NEW s \in Seq(Byte), NEW t \in Seq(Byte),
           Holds(buf, at, s \o t)
    PROVE  Holds(buf, at, s) /\ Holds(buf, at + Len(s), t) /\ at + Len(s) \in Nat
<1>1. /\ Len(s) \in Nat /\ Len(t) \in Nat /\ Len(buf) \in Nat /\ Len(s \o t) = Len(s) + Len(t)
      /\ \A j \in 1..Len(s) : (s \o t)[j] = s[j]
      /\ \A j \in 1..Len(t) : (s \o t)[Len(s) + j] = t[j]
  OBVIOUS
<1>2. at + (Len(s) + Len(t)) <= Len(buf) /\ \A j \in 1..(Len(s) + Len(t)) : buf[at + j] = (s \o t)[j]
  BY <1>1 DEF Holds
<1> DEFINE u == s \o t
<1> HIDE DEF u
<1>3. ASSUME NEW j \in 1..Len(s) PROVE buf[at + j] = s[j]
  <2>1. j \in 1..(Len(s) + Len(t))
    BY <1>1
  <2> QED BY <1>1, <1>2, <2>1
<1>4. ASSUME NEW j \in 1..Len(t) PROVE buf[(at + Len(s)) + j] = t[j]
  <2>1. Len(s) + j \in 1..(Len(s) + Len(t)) /\ at + (Len(s) + j) = (at + Len(s)) + j
    BY <1>1
  <2> QED BY <1>1, <1>2, <2>1
<1>5. at + Len(s) <= Len(buf) /\ (at + Len(s)) + Len(t) <= Len(buf) /\ at + Len(s) \in Nat
  BY <1>1, <1>2
<1> QED BY <1>3, <1>4, <1>5 DEF Holds

LEMMA HoldsSlice ==
    ASSUME NEW buf \in Seq(Byte), NEW at \in Nat, NEW s \in Seq(Byte), Holds(buf, at, s)
    PROVE  SubSeq(buf, at + 1, at + Len(s)) = s /\ at + Len(s) <= Len(buf)
<1>1. Len(s) \in Nat /\ Len(buf) \in Nat /\ at + Len(s) <= Len(buf)
      /\ \A j \in 1..Len(s) : buf[at + j] = s[j]
  BY DEF Holds
<1> DEFINE t == SubSeq(buf, at + 1, at + Len(s))
<1>2. t \in Seq(Byte) /\ Len(t) = Len(s) /\ \A j \in 1..Len(s) : t[j] = buf[at + j]
  BY <1>1
<1> HIDE DEF t
<1>3. t = s
  BY <1>1, <1>2, SeqEqual
<1> QED BY <1>1, <1>3 DEF t

LEMMA HoldsAppended ==
    ASSUME NEW buf \in Seq(Byte), NEW t \in Seq(Byte)
    PROVE  /\ buf \o t \in Seq(Byte) /\ Len(buf \o t) = Len(buf) + Len(t)
           /\ Holds(buf \o t, Len(buf), t)
           /\ \A at \in Nat, s \in Seq(Byte) : Holds(buf, at, s) => Holds(buf \o t, at, s)
<1> DEFINE u == buf \o t
<1>1. /\ Len(buf) \in Nat /\ Len(t) \in Nat /\ u \in Seq(Byte) /\ Len(u) = Len(buf) + Len(t)
      /\ \A j \in 1..Len(buf) : u[j] = buf[j]
      /\ \A j \in 1..Len(t) : u[Len(buf) + j] = t[j]
  OBVIOUS
<1> HIDE DEF u
<1>2. Holds(u, Len(buf), t)
  BY <1>1 DEF Holds
<1>3. ASSUME NEW at \in Nat, NEW s \in Seq(Byte), Holds(buf, at, s) PROVE Holds(u, at, s)
  <2>1. Len(s) \in Nat /\ at + Len(s) <= Len(buf) /\ \A j \in 1..Len(s) : buf[at + j] = s[j]
    BY <1>3 DEF Holds
  <2>2. \A j \in 1..Len(s) : at + j \in 1..Len(buf)
    BY <1>1, <2>1
  <2>3. at + Len(s) <= Len(u)
    BY <1>1, <2>1
  <2> QED BY <1>1, <2>1, <2>2, <2>3 DEF Holds
<1> QED BY <1>1, <1>2, <1>3 DEF u

LEMMA Varint32Bytes ==
    ASSUME NEW v \in U64
    PROVE  /\ PutVarint32(v) \in Seq(Byte) /\ Len(PutVarint32(v)) > 0 /\ Len(PutVarint32(v)) \in Nat
           /\ v < Limit32 => PutVarint32(v) = PutVarint64(v)
<1> DEFINE u == v % Limit32
<1>1. v \in Nat /\ Limit32 \in Nat /\ Limit32 > 0 /\ Limit32 <= Limit64 /\ Limit64 \in Nat
  BY LimitFacts DEF U64
<1>2. u \in 0..(Limit32 - 1) /\ (v < Limit32 => u = v)
  BY <1>1, Quotient
<1> HIDE DEF u
<1>3. u \in U64
  BY <1>1, <1>2 DEF U64
<1>4. PutVarint64(u) \in Seq(Byte) /\ Len(PutVarint64(u)) \in 1..MaxVarintLen
  BY <1>3, VarintBytes
<1>5. PutVarint32(v) = PutVarint64(u)
  BY DEF PutVarint32, u
<1> QED BY <1>2, <1>4, <1>5, LimitFacts

LEMMA Varint32ReadsBack ==
    ASSUME NEW v \in Nat, v < Limit32, NEW buf \in Seq(Byte), NEW at \in Nat,
           Holds(buf, at, PutVarint32(v))
    PROVE  GetVarint32(buf, at) = {[val |-> v, pos |-> at + Len(PutVarint32(v))]}
<1>1. v \in U64
  BY LimitFacts DEF U64
<1>2. GetVarint64(buf, at) = {[val |-> v, pos |-> at + Len(PutVarint32(v))]}
  <2>1. PutVarint32(v) = PutVarint64(v)
    BY <1>1, Varint32Bytes
  <2> QED BY <1>1, <2>1, VarintReadsBack
<1> DEFINE g == [val |-> v, pos |-> at + Len(PutVarint32(v))]
<1>3. g.val = v
  OBVIOUS
<1> HIDE DEF g
<1>4. {got \in {g} : got.val < Limit32} = {g}
  BY <1>3
<1> QED BY <1>2, <1>4 DEF GetVarint32, g

(* A difference of two sizes survives the zigzag.                          *)
LEMMA SignedReadsBack ==
    ASSUME NEW v \in Int, 2 * v < Limit64, -2 * v - 1 < Limit64,
           NEW buf \in Seq(Byte), NEW at \in Nat, Holds(buf, at, PutVarsigned64(v))
    PROVE  GetVarsigned64(buf, at) = {[val |-> v, pos |-> at + Len(PutVarsigned64(v))]}
<1>1. Zigzag(v) \in U64 /\ Unzigzag(Zigzag(v)) = v
  BY LimitFacts DEF U64, Zigzag, Unzigzag
<1> DEFINE g == [val |-> Zigzag(v), pos |-> at + Len(PutVarint64(Zigzag(v)))]
<1>2. GetVarint64(buf, at) = {g}
  BY <1>1, VarintReadsBack DEF PutVarsigned64
<1>3. g.val = Zigzag(v) /\ g.pos = at + Len(PutVarint64(Zigzag(v)))
  OBVIOUS
<1> HIDE DEF g
<1>4. GetVarsigned64(buf, at) = {[val |-> Unzigzag(g.val), pos |-> g.pos]}
  BY <1>2 DEF GetVarsigned64
<1> QED BY <1>1, <1>3, <1>4 DEF PutVarsigned64
-----------------------------------------------------------------------------
(* One entry of a block.                                                   *)

LEMMA HandleType ==
    ASSUME NEW h \in Handle
    PROVE  /\ h.offset \in U64 /\ h.size \in U64 /\ 2 * h.size < Limit64
           /\ h = [offset |-> h.offset, size |-> h.size]
           /\ EncodedHandle(h) \in Seq(Byte)
<1>1. /\ h.offset \in U64 /\ h.size \in U64 /\ 2 * h.size < Limit64
      /\ h = [offset |-> h.offset, size |-> h.size]
  BY DEF Handle
<1> QED BY <1>1, VarintBytes DEF EncodedHandle

LEMMA FullHandleReadsBack ==
    ASSUME NEW h \in Handle, NEW data \in Seq(Byte), NEW at \in Nat,
           Holds(data, at, EncodedHandle(h))
    PROVE  FullHandleAt(data, at) = {[handle |-> h, pos |-> at + Len(EncodedHandle(h))]}
<1> DEFINE p == PutVarint64(h.offset)
           q == PutVarint64(h.size)
           o == [val |-> h.offset, pos |-> at + Len(p)]
           z == [val |-> h.size, pos |-> (at + Len(p)) + Len(q)]
<1>1. h.offset \in U64 /\ h.size \in U64 /\ h = [offset |-> h.offset, size |-> h.size]
  BY HandleType
<1>2. p \in Seq(Byte) /\ q \in Seq(Byte) /\ EncodedHandle(h) = p \o q
  BY <1>1, VarintBytes DEF EncodedHandle
<1>3. Holds(data, at, p) /\ Holds(data, at + Len(p), q) /\ at + Len(p) \in Nat
  <2> HIDE DEF p, q
  <2> QED BY <1>2, HoldsParts
<1>4. GetVarint64(data, at) = {o} /\ GetVarint64(data, at + Len(p)) = {z}
  BY <1>1, <1>3, VarintReadsBack
<1>5. o.pos = at + Len(p) /\ o.val = h.offset /\ z.val = h.size /\ z.pos = at + Len(EncodedHandle(h))
  <2>1. (at + Len(p)) + Len(q) = at + Len(p \o q)
    <3> HIDE DEF p, q
    <3> QED BY <1>2
  <2> QED BY <1>2, <2>1
<1> HIDE DEF p, q, o, z
<1>6. FullHandleAt(data, at) = {[handle |-> [offset |-> o.val, size |-> z.val], pos |-> z.pos]}
  BY <1>4, <1>5 DEF FullHandleAt
<1> QED BY <1>1, <1>5, <1>6

(* shared_prefix_len is as long as both keys agree.                        *)
LEMMA SharedPrefix ==
    ASSUME NEW a \in Seq(Byte), NEW b \in Seq(Byte)
    PROVE  /\ SharedPrefixLen(a, b) \in 0..Len(a) /\ SharedPrefixLen(a, b) <= Len(b)
           /\ \A m \in 1..SharedPrefixLen(a, b) : a[m] = b[m]
           /\ SharedPrefixLen(a, b) < Len(a) /\ SharedPrefixLen(a, b) < Len(b)
                  => a[SharedPrefixLen(a, b) + 1] # b[SharedPrefixLen(a, b) + 1]
           /\ a = <<>> => SharedPrefixLen(a, b) = 0
<1> DEFINE P(n) == /\ n <= Len(b)
                   /\ \A m \in 1..n : a[m] = b[m]
                   /\ n < Len(a) /\ n < Len(b) => a[n + 1] # b[n + 1]
           T == {n \in 0..Len(a) : n = Len(a) \/ n = Len(b) \/ a[n + 1] # b[n + 1]}
<1>1. Len(a) \in Nat /\ Len(b) \in Nat
  OBVIOUS
<1>2. Len(a) \in T /\ T \subseteq Nat
  BY <1>1
<1>3. PICK n \in T : \A m \in T : n <= m
  BY <1>2, LeastElement
<1>4. n \in 0..Len(a) /\ (n = Len(a) \/ n = Len(b) \/ a[n + 1] # b[n + 1])
  BY <1>3
<1>5. ASSUME NEW m \in 0..Len(a), m < n PROVE m # Len(b) /\ a[m + 1] = b[m + 1]
  <2>1. m \notin T
    BY <1>3, <1>4, <1>5
  <2> QED BY <2>1
<1> HIDE DEF T
<1>6. n <= Len(b)
  <2> SUFFICES ASSUME Len(b) < n PROVE FALSE
    BY <1>1, <1>4
  <2>1. Len(b) \in 0..Len(a)
    BY <1>1, <1>4
  <2> QED BY <1>5, <2>1
<1>7. \A m \in 1..n : a[m] = b[m]
  <2> SUFFICES ASSUME NEW m \in 1..n PROVE a[m] = b[m]
    OBVIOUS
  <2>1. m - 1 \in 0..Len(a) /\ m - 1 < n /\ (m - 1) + 1 = m
    BY <1>1, <1>4
  <2> QED BY <1>5, <2>1
<1>8. P(n)
  BY <1>4, <1>6, <1>7
<1>9. SharedPrefixLen(a, b) = CHOOSE k \in 0..Len(a) : P(k)
  BY Zenon DEF SharedPrefixLen
<1> HIDE DEF P
<1>10. SharedPrefixLen(a, b) \in 0..Len(a) /\ P(SharedPrefixLen(a, b))
  BY <1>4, <1>8, <1>9, Zenon
<1>11. a = <<>> => Len(a) = 0
  OBVIOUS
<1> QED BY <1>1, <1>10, <1>11 DEF P

LEMMA HoldsFour ==
    ASSUME NEW buf \in Seq(Byte), NEW at \in Nat, NEW s \in Seq(Byte), NEW t \in Seq(Byte),
           NEW u \in Seq(Byte), NEW v \in Seq(Byte), Holds(buf, at, s \o t \o u \o v)
    PROVE  /\ Holds(buf, at, s) /\ Holds(buf, at + Len(s), t)
           /\ Holds(buf, at + Len(s) + Len(t), u)
           /\ Holds(buf, at + Len(s) + Len(t) + Len(u), v)
<1> DEFINE st == s \o t
           stu == st \o u
<1>1. st \in Seq(Byte) /\ stu \in Seq(Byte) /\ Len(st) = Len(s) + Len(t) /\ Len(stu) = Len(st) + Len(u)
      /\ Len(s) \in Nat /\ Len(t) \in Nat /\ Len(u) \in Nat
  OBVIOUS
<1>2. Holds(buf, at, stu \o v)
  OBVIOUS
<1> HIDE DEF stu
<1>3. Holds(buf, at, stu) /\ Holds(buf, at + Len(stu), v)
  BY <1>1, <1>2, HoldsParts
<1>4. Holds(buf, at, st \o u)
  BY <1>3 DEF stu
<1> HIDE DEF st
<1>5. Holds(buf, at, st) /\ Holds(buf, at + Len(st), u)
  BY <1>1, <1>4, HoldsParts
<1>6. Holds(buf, at, s) /\ Holds(buf, at + Len(s), t)
  BY <1>5, HoldsParts DEF st
<1>7. at + Len(st) = at + Len(s) + Len(t) /\ at + Len(stu) = at + Len(s) + Len(t) + Len(u)
  BY <1>1
<1> QED BY <1>3, <1>5, <1>6, <1>7

(* What key and the last key have in common, shared bytes.                 *)
Agree(prev, key, shared) ==
    /\ prev \in Seq(Byte) /\ key \in Seq(Byte)
    /\ shared \in Nat /\ shared <= Len(prev) /\ shared <= Len(key)
    /\ \A m \in 1..shared : prev[m] = key[m]

(* The shared bytes of the last key and the rest make the key.             *)
LEMMA KeyRebuilt ==
    ASSUME NEW prev, NEW key, NEW shared, Agree(prev, key, shared)
    PROVE  /\ SubSeq(key, shared + 1, Len(key)) \in Seq(Byte)
           /\ Len(SubSeq(key, shared + 1, Len(key))) = Len(key) - shared
           /\ SubSeq(prev, 1, shared) \o SubSeq(key, shared + 1, Len(key)) = key
<1>0. prev \in Seq(Byte) /\ key \in Seq(Byte) /\ shared \in Nat /\ shared <= Len(prev) /\ shared <= Len(key)
      /\ Len(prev) \in Nat /\ Len(key) \in Nat /\ \A m \in 1..shared : prev[m] = key[m]
  BY DEF Agree
<1> DEFINE p == SubSeq(prev, 1, shared)
           r == SubSeq(key, shared + 1, Len(key))
<1>1. p \in Seq(Byte) /\ Len(p) = shared /\ \A m \in 1..shared : p[m] = prev[m]
  BY <1>0
<1>2. r \in Seq(Byte) /\ Len(r) = Len(key) - shared
      /\ \A m \in 1..(Len(key) - shared) : r[m] = key[shared + m]
  BY <1>0
<1> HIDE DEF p, r
<1>3. p \o r \in Seq(Byte) /\ Len(p \o r) = Len(key)
  BY <1>0, <1>1, <1>2
<1>4. ASSUME NEW m \in 1..Len(key) PROVE (p \o r)[m] = key[m]
  <2>1. CASE m <= shared
    <3>1. m \in 1..shared /\ m \in 1..Len(p)
      BY <1>0, <1>1, <2>1
    <3>2. (p \o r)[m] = p[m]
      BY <1>1, <1>2, <3>1
    <3> QED BY <1>0, <1>1, <3>1, <3>2
  <2>2. CASE ~(m <= shared)
    <3>1. m - shared \in 1..Len(r) /\ m - shared \in 1..(Len(key) - shared)
          /\ shared + (m - shared) = m /\ Len(p) + (m - shared) = m
      BY <1>0, <1>1, <1>2, <2>2
    <3>2. (p \o r)[Len(p) + (m - shared)] = r[m - shared]
      BY <1>1, <1>2, <3>1
    <3> QED BY <1>2, <3>1, <3>2
  <2> QED BY <2>1, <2>2
<1>5. p \o r = key
  <2> DEFINE w == p \o r
  <2>1. w \in Seq(Byte) /\ Len(w) = Len(key) /\ \A m \in 1..Len(key) : w[m] = key[m]
    BY <1>3, <1>4
  <2> HIDE DEF w
  <2>2. w = key
    BY <1>0, <2>1, SeqEqual
  <2> QED BY <2>2 DEF w
<1> QED BY <1>2, <1>5 DEF p, r

(* The header of an entry reads back.                                      *)
LEMMA HeaderReadsBack ==
    ASSUME NEW data \in Seq(Byte), NEW block, block.data = data, NEW d, d.pos \in Nat,
           NEW shared \in Nat, NEW unshared \in Nat, shared < Limit32, unshared < Limit32,
           shared <= Len(d.key),
           Holds(data, d.pos, PutVarint32(shared)),
           Holds(data, d.pos + Len(PutVarint32(shared)), PutVarint32(unshared))
    PROVE  HeaderAt(block, d) =
               {[shared |-> shared, unshared |-> unshared,
                 pos |-> d.pos + Len(PutVarint32(shared)) + Len(PutVarint32(unshared))]}
<1> DEFINE at == d.pos + Len(PutVarint32(shared))
           s == [val |-> shared, pos |-> at]
           u == [val |-> unshared, pos |-> at + Len(PutVarint32(unshared))]
<1>1. shared \in U64
  BY LimitFacts DEF U64
<1>2. at \in Nat
  BY <1>1, Varint32Bytes
<1>3. GetVarint32(data, d.pos) = {s} /\ GetVarint32(data, at) = {u}
  BY <1>2, Varint32ReadsBack
<1>4. s.val = shared /\ s.pos = at /\ u.val = unshared /\ u.pos = at + Len(PutVarint32(unshared))
  OBVIOUS
<1> HIDE DEF s, u, at
<1>5. {t \in GetVarint32(data, d.pos) : t.val <= Len(d.key)} = {s}
  BY <1>3, <1>4
<1>6. HeaderAt(block, d) = {[shared |-> s.val, unshared |-> u.val, pos |-> u.pos]}
  <2>1. HeaderAt(block, d) = UNION {{[shared |-> x.val, unshared |-> y.val, pos |-> y.pos] :
                                 y \in GetVarint32(data, x.pos)} : x \in {s}}
    BY <1>5 DEF HeaderAt
  <2> QED BY <1>3, <1>4, <2>1
<1> QED BY <1>4, <1>6 DEF at
(* An entry that stands where the decoder is decodes as what was encoded.  *)
LEMMA EntryReadsBack ==
    ASSUME NEW data \in Seq(Byte), NEW block, block.data = data, NEW d, d.pos \in Nat,
           NEW key, NEW val \in Seq(Byte), NEW shared, Agree(d.key, key, shared),
           Len(key) < Limit32, Len(val) < Limit32,
           Holds(data, d.pos, EntryBytes(shared, key, val))
    PROVE  EntryFrom(block, d) =
               {[pos |-> d.pos + Len(EntryBytes(shared, key, val)), key |-> key,
                 handle |-> d.handle, out |-> Append(d.out, [key |-> key, val |-> val])]}
<1> DEFINE rest == SubSeq(key, shared + 1, Len(key))
           unshared == Len(key) - shared
           p == PutVarint32(shared)
           q == PutVarint32(unshared)
           w == PutVarint32(Len(val))
           at == d.pos + Len(p) + Len(q)
           from == at + Len(w)
           h == [shared |-> shared, unshared |-> unshared, pos |-> at]
           v == [val |-> Len(val), pos |-> from]
           Entry(hh, vv) ==
               LET k == KeyAt(block, d, hh, vv.pos)
                   to == vv.pos + hh.unshared
               IN  [pos |-> to + vv.val, key |-> k, handle |-> d.handle,
                    out |-> Append(d.out, [key |-> k,
                                 val |-> SubSeq(block.data, to + 1, to + vv.val)])]
<1>1. /\ d.key \in Seq(Byte) /\ key \in Seq(Byte) /\ shared \in Nat /\ shared <= Len(d.key)
      /\ shared <= Len(key) /\ Len(key) \in Nat /\ Len(val) \in Nat /\ unshared \in Nat
      /\ shared < Limit32 /\ unshared < Limit32
  BY LimitFacts DEF Agree
<1>2. shared \in U64 /\ unshared \in U64 /\ Len(val) \in U64
  BY <1>1, LimitFacts DEF U64
<1>3. p \in Seq(Byte) /\ q \in Seq(Byte) /\ w \in Seq(Byte)
  BY <1>2, Varint32Bytes
<1>4. rest \in Seq(Byte) /\ Len(rest) = unshared /\ SubSeq(d.key, 1, shared) \o rest = key
  BY KeyRebuilt
<1>5. EntryBytes(shared, key, val) = p \o q \o w \o rest \o val
  BY DEF EntryBytes
<1> HIDE DEF rest, unshared, p, q, w
<1>6. /\ Holds(data, d.pos, p) /\ Holds(data, d.pos + Len(p), q) /\ Holds(data, at, w)
      /\ Holds(data, from, rest) /\ Holds(data, from + Len(rest), val)
      /\ Len(EntryBytes(shared, key, val)) = Len(p) + Len(q) + Len(w) + Len(rest) + Len(val)
  <2>1. Holds(data, d.pos, p \o q \o w \o rest \o val)
    BY <1>5
  <2>2. /\ Holds(data, d.pos, p) /\ Holds(data, d.pos + Len(p), q) /\ Holds(data, at, w)
        /\ Holds(data, from, rest) /\ Holds(data, from + Len(rest), val)
        /\ Len(p \o q \o w \o rest \o val) = Len(p) + Len(q) + Len(w) + Len(rest) + Len(val)
    <3> DEFINE x == p \o q \o w \o rest
    <3>1. x \in Seq(Byte) /\ Len(x) = Len(p) + Len(q) + Len(w) + Len(rest)
      <4>1. rest \in Seq(Byte)
        BY <1>4
      <4> QED BY <1>3, <4>1
    <3>2. Holds(data, d.pos, x \o val)
      BY <2>1
    <3>3. Len(p) \in Nat /\ Len(q) \in Nat /\ Len(w) \in Nat /\ Len(rest) \in Nat
      BY <1>3, <1>4, LenProperties
    <3> HIDE DEF x
    <3>4. Holds(data, d.pos, x) /\ Holds(data, d.pos + Len(x), val)
      BY <3>1, <3>2, HoldsParts
    <3>5. Holds(data, d.pos, p \o q \o w \o rest)
      BY <3>4 DEF x
    <3>6. /\ Holds(data, d.pos, p) /\ Holds(data, d.pos + Len(p), q) /\ Holds(data, at, w)
          /\ Holds(data, from, rest)
      BY <1>3, <1>4, <3>5, HoldsFour
    <3>7. d.pos + Len(x) = from + Len(rest)
      BY <3>1, <3>3
    <3>8. Len(x \o val) = Len(x) + Len(val)
      BY <3>1, ConcatProperties
    <3> HIDE DEF at, from
    <3>9. Holds(data, from + Len(rest), val)
      BY <3>4, <3>7
    <3>10. Len(p \o q \o w \o rest \o val) = Len(p) + Len(q) + Len(w) + Len(rest) + Len(val)
      BY <3>1, <3>8 DEF x
    <3> QED BY <3>6, <3>9, <3>10
  <2> QED BY <1>5, <2>2, Zenon
<1>7. Len(p) \in Nat /\ Len(q) \in Nat /\ Len(w) \in Nat /\ at \in Nat /\ from \in Nat
      /\ from + unshared \in Nat
  <2>1. Len(p) \in Nat /\ Len(q) \in Nat /\ Len(w) \in Nat
    BY <1>3, LenProperties
  <2>2. unshared \in Nat
    BY <1>1
  <2>3. at \in Nat
    BY <2>1
  <2>4. from \in Nat
    <3> HIDE DEF at
    <3> QED BY <2>1, <2>3
  <2> HIDE DEF at, from
  <2> QED BY <2>1, <2>2, <2>3, <2>4
<1>8. HeaderAt(block, d) = {h}
  <2>1. /\ Holds(data, d.pos, PutVarint32(shared))
        /\ Holds(data, d.pos + Len(PutVarint32(shared)), PutVarint32(unshared))
    BY <1>6, Zenon DEF p, q
  <2>2. h = [shared |-> shared, unshared |-> unshared,
             pos |-> d.pos + Len(PutVarint32(shared)) + Len(PutVarint32(unshared))]
    BY Zenon DEF h, at, p, q
  <2> HIDE DEF h
  <2> QED BY <1>1, <2>1, <2>2, HeaderReadsBack
<1>9. GetVarint32(data, at) = {v}
  BY <1>1, <1>6, <1>7, Varint32ReadsBack DEF w
<1>10. /\ SubSeq(data, from + 1, from + unshared) = rest
       /\ SubSeq(data, (from + unshared) + 1, (from + unshared) + Len(val)) = val
       /\ (from + unshared) + Len(val) <= Len(data)
  <2>1. Holds(data, from + unshared, val)
    BY <1>4, <1>6, Zenon
  <2> HIDE DEF from
  <2> QED BY <1>4, <1>6, <1>7, <2>1, HoldsSlice, ZenonT(60)
<1>11. h.shared = shared /\ h.unshared = unshared /\ h.pos = at /\ v.val = Len(val) /\ v.pos = from
  OBVIOUS
<1>12. (from + unshared) + Len(val) = d.pos + Len(EntryBytes(shared, key, val))
  <2> DEFINE l == Len(p)
             m == Len(q)
             n == Len(w)
             o == Len(val)
             all == Len(EntryBytes(shared, key, val))
             x == d.pos
  <2>1. from = x + l + m + n /\ all = l + m + n + unshared + o
    BY <1>4, <1>6
  <2>2. l \in Nat /\ m \in Nat /\ n \in Nat /\ o \in Nat /\ x \in Nat /\ unshared \in Nat
    BY <1>1, <1>7
  <2> HIDE DEF l, m, n, o, all, x, from
  <2>3. (from + unshared) + o = x + all
    BY <2>1, <2>2
  <2> QED BY <2>3 DEF o, all, x
<1> HIDE DEF h, v, at, from
<1>13. EntryFrom(block, d) =
          UNION {{Entry(x, y) :
                     y \in {z \in GetVarint32(block.data, x.pos) :
                               z.pos + x.unshared + z.val <= Len(block.data)}} :
                     x \in HeaderAt(block, d)}
  BY DEF EntryFrom
<1>14. KeyAt(block, d, h, v.pos) = key
  BY <1>4, <1>10, <1>11 DEF KeyAt
<1>15. Entry(h, v) = [pos |-> d.pos + Len(EntryBytes(shared, key, val)), key |-> key,
                      handle |-> d.handle, out |-> Append(d.out, [key |-> key, val |-> val])]
  BY <1>10, <1>11, <1>12, <1>14
<1> HIDE DEF Entry
<1>16. {z \in GetVarint32(block.data, h.pos) : z.pos + h.unshared + z.val <= Len(block.data)} = {v}
  BY <1>9, <1>10, <1>11
<1>17. EntryFrom(block, d) = {Entry(h, v)}
  BY <1>8, <1>13, <1>16
<1> QED BY <1>15, <1>17

(* The same of an entry of an index.  A whole handle stands where nothing  *)
(* is shared.                                                              *)
LEMMA IndexEntryReadsBack ==
    ASSUME NEW data \in Seq(Byte), NEW block, block.data = data, NEW d, d.pos \in Nat,
           NEW key, NEW handle \in Handle, NEW prev, NEW shared, Agree(d.key, key, shared),
           Len(key) < Limit32,
           d.pos \in block.restarts => shared = 0,
           shared # 0 => /\ prev \in Handle /\ d.handle = Some(prev)
                         /\ handle.offset = prev.offset + prev.size + TrailerSize,
           Holds(data, d.pos, IndexEntryBytes(shared, key, prev, handle))
    PROVE  IndexEntryFrom(block, d) =
               {[pos |-> d.pos + Len(IndexEntryBytes(shared, key, prev, handle)), key |-> key,
                 handle |-> Some(handle), out |-> Append(d.out, [key |-> key, val |-> handle])]}
<1> DEFINE rest == SubSeq(key, shared + 1, Len(key))
           unshared == Len(key) - shared
           p == PutVarint32(shared)
           q == PutVarint32(unshared)
           w == HandleBytes(shared, prev, handle)
           at == d.pos + Len(p) + Len(q)
           to == at + Len(rest)
           h == [shared |-> shared, unshared |-> unshared, pos |-> at]
           v == [handle |-> handle, pos |-> to + Len(w)]
           Entry(hh, vv) ==
               LET k == KeyAt(block, d, hh, hh.pos)
               IN  [pos |-> vv.pos, key |-> k, handle |-> Some(vv.handle),
                    out |-> Append(d.out, [key |-> k, val |-> vv.handle])]
           Value(hh) ==
               IF d.pos \in block.restarts \/ hh.shared = 0
               THEN FullHandleAt(block.data, hh.pos + hh.unshared)
               ELSE DeltaHandleAt(block.data, hh.pos + hh.unshared, d.handle)
<1>1. /\ d.key \in Seq(Byte) /\ key \in Seq(Byte) /\ shared \in Nat /\ shared <= Len(d.key)
      /\ shared <= Len(key) /\ Len(key) \in Nat /\ unshared \in Nat
      /\ shared < Limit32 /\ unshared < Limit32
  BY LimitFacts DEF Agree
<1>2. shared \in U64 /\ unshared \in U64
  BY <1>1, LimitFacts DEF U64
<1>3. p \in Seq(Byte) /\ q \in Seq(Byte)
  BY <1>2, Varint32Bytes
<1>4. rest \in Seq(Byte) /\ Len(rest) = unshared /\ SubSeq(d.key, 1, shared) \o rest = key
  BY KeyRebuilt
<1>5. IndexEntryBytes(shared, key, prev, handle) = p \o q \o rest \o w
  BY DEF IndexEntryBytes
<1> DEFINE delta == handle.size - prev.size
<1>6. ASSUME shared # 0
      PROVE  /\ delta \in Int /\ 2 * delta < Limit64 /\ -2 * delta - 1 < Limit64
             /\ NextHandle(prev, delta) = handle
             /\ w = PutVarsigned64(delta) /\ w \in Seq(Byte)
  <2>1. /\ handle.size \in Nat /\ prev.size \in Nat /\ 2 * handle.size < Limit64
        /\ 2 * prev.size < Limit64 /\ Limit64 \in Nat /\ handle.size < Limit64
        /\ handle = [offset |-> handle.offset, size |-> handle.size]
    BY <1>6, HandleType, LimitFacts, SMTT(30) DEF U64
  <2>2. delta \in Int /\ 2 * delta < Limit64 /\ -2 * delta - 1 < Limit64 /\ prev.size + delta = handle.size
    BY <2>1, SMTT(30)
  <2>3. (prev.size + delta) % Limit64 = handle.size
    <3> DEFINE z == handle.size
    <3>1. z % Limit64 = z
      <4>1. z \in Nat /\ z < Limit64 /\ Limit64 \in Nat
        BY <2>1
      <4> HIDE DEF z
      <4> QED BY <4>1
    <3> QED BY <2>2, <3>1, Zenon
  <2>4. NextHandle(prev, delta) = handle
    BY <1>6, <2>1, <2>3, Zenon DEF NextHandle
  <2>5. w = PutVarsigned64(delta)
    BY <1>6 DEF HandleBytes
  <2>6. Zigzag(delta) \in U64
    BY <2>2, LimitFacts DEF U64, Zigzag
  <2>7. PutVarsigned64(delta) \in Seq(Byte)
    BY <2>6, VarintBytes DEF PutVarsigned64
  <2> QED BY <2>2, <2>4, <2>5, <2>7
<1>7. shared = 0 => w = EncodedHandle(handle) /\ w \in Seq(Byte)
  BY HandleType DEF HandleBytes
<1>8. w \in Seq(Byte)
  BY <1>6, <1>7
<1> HIDE DEF rest, unshared, p, q, w, delta
<1>9. /\ Holds(data, d.pos, p) /\ Holds(data, d.pos + Len(p), q) /\ Holds(data, at, rest)
      /\ Holds(data, to, w)
  BY <1>3, <1>4, <1>5, <1>8, HoldsFour, SMTT(30)
<1>10. Len(p) \in Nat /\ Len(q) \in Nat /\ Len(w) \in Nat /\ at \in Nat /\ to \in Nat
       /\ at + unshared = to
  BY <1>1, <1>3, <1>4, <1>8, SMTT(30)
<1>11. Len(IndexEntryBytes(shared, key, prev, handle)) = Len(p) + Len(q) + Len(rest) + Len(w)
  <2>1. Len(p \o q \o rest \o w) = Len(p) + Len(q) + Len(rest) + Len(w)
    <3>1. rest \in Seq(Byte)
      BY <1>4
    <3> QED BY <1>3, <1>8, <3>1
  <2> QED BY <1>5, <2>1, Zenon
<1>12. HeaderAt(block, d) = {h}
  <2>1. /\ Holds(data, d.pos, PutVarint32(shared))
        /\ Holds(data, d.pos + Len(PutVarint32(shared)), PutVarint32(unshared))
    BY <1>9, Zenon DEF p, q
  <2>2. h = [shared |-> shared, unshared |-> unshared,
             pos |-> d.pos + Len(PutVarint32(shared)) + Len(PutVarint32(unshared))]
    BY Zenon DEF h, at, p, q
  <2> HIDE DEF h
  <2> QED BY <1>1, <2>1, <2>2, HeaderReadsBack, SMTT(30)
<1>13. SubSeq(data, at + 1, at + unshared) = rest /\ at + unshared <= Len(data)
  BY <1>4, <1>9, <1>10, HoldsSlice, ZenonT(60)
<1>14. h.shared = shared /\ h.unshared = unshared /\ h.pos = at /\ v.handle = handle /\ v.pos = to + Len(w)
  OBVIOUS
<1>15. to + Len(w) = d.pos + Len(IndexEntryBytes(shared, key, prev, handle))
  <2> DEFINE l == Len(p)
             m == Len(q)
             n == Len(w)
             all == Len(IndexEntryBytes(shared, key, prev, handle))
             x == d.pos
  <2>1. to = x + l + m + unshared /\ all = l + m + unshared + n
    BY <1>4, <1>11
  <2>2. l \in Nat /\ m \in Nat /\ n \in Nat /\ x \in Nat /\ unshared \in Nat
    BY <1>1, <1>10
  <2> HIDE DEF l, m, n, all, x, to
  <2>3. to + n = x + all
    BY <2>1, <2>2
  <2> QED BY <2>3 DEF n, all, x
<1>16. Value(h) = {v}
  <2>1. CASE shared = 0
    <3>1. Value(h) = FullHandleAt(data, to)
      BY <1>10, <1>14, <2>1
    <3>2. FullHandleAt(data, to) = {[handle |-> handle, pos |-> to + Len(EncodedHandle(handle))]}
      BY <1>7, <1>9, <1>10, <2>1, FullHandleReadsBack
    <3> QED BY <1>7, <2>1, <3>1, <3>2
  <2>2. CASE shared # 0
    <3>1. Value(h) = DeltaHandleAt(data, to, {prev})
      BY <1>10, <1>14, <2>2 DEF Some
    <3> DEFINE g == [val |-> delta, pos |-> to + Len(w)]
    <3>2. GetVarsigned64(data, to) = {g}
      BY <1>6, <1>9, <1>10, <2>2, SignedReadsBack
    <3>3. g.val = delta /\ g.pos = to + Len(w)
      OBVIOUS
    <3> HIDE DEF g
    <3>4. DeltaHandleAt(data, to, {prev}) = {[handle |-> NextHandle(prev, g.val), pos |-> g.pos]}
      BY <3>2 DEF DeltaHandleAt
    <3> QED BY <1>6, <2>2, <3>1, <3>3, <3>4
  <2> QED BY <2>1, <2>2
<1> HIDE DEF h, v, at, to
<1>17. IndexEntryFrom(block, d) =
          UNION {{Entry(x, y) : y \in Value(x)} :
                    x \in {z \in HeaderAt(block, d) : z.pos + z.unshared <= Len(block.data)}}
  BY DEF IndexEntryFrom
<1>18. KeyAt(block, d, h, h.pos) = key
  BY <1>4, <1>13, <1>14 DEF KeyAt
<1>19. Entry(h, v) = [pos |-> d.pos + Len(IndexEntryBytes(shared, key, prev, handle)), key |-> key,
                      handle |-> Some(handle), out |-> Append(d.out, [key |-> key, val |-> handle])]
  BY <1>14, <1>15, <1>18
<1> HIDE DEF Entry, Value
<1>20. {z \in HeaderAt(block, d) : z.pos + z.unshared <= Len(block.data)} = {h}
  BY <1>12, <1>13, <1>14
<1>21. IndexEntryFrom(block, d) = {Entry(h, v)}
  BY <1>16, <1>17, <1>20
<1> QED BY <1>19, <1>21
-----------------------------------------------------------------------------
(* The entries of a block.                                                 *)

(* What is known of the items of block b.                                  *)
ItemsOK(b, its) ==
    /\ b.interval \in Nat \ {0}
    /\ b.kind = "index" =>
           /\ its \in Seq(HandlePair)
           /\ \A n \in 1..(Len(its) - 1) :
                  its[n + 1].val.offset = its[n].val.offset + its[n].val.size + TrailerSize
    /\ b.kind # "index" => its \in Seq(BytePair)

SmallItems(b, its) ==
    \A n \in DOMAIN its :
        /\ Len(its[n].key) < Limit32
        /\ b.kind # "index" => Len(its[n].val) < Limit32

(* The shared bytes and the encoding of item n.                            *)
SharedAt(b, its, n) ==
    IF (n - 1) % b.interval = 0 THEN 0 ELSE SharedPrefixLen(its[n - 1].key, its[n].key)

EncodedAt(b, its, n) ==
    IF b.kind = "index"
    THEN IndexEntryBytes(SharedAt(b, its, n), its[n].key, its[n - 1].val, its[n].val)
    ELSE EntryBytes(SharedAt(b, its, n), its[n].key, its[n].val)

(* The first count items stand in buf one after the other: item n ends at  *)
(* off[n].                                                                 *)
Laid(b, its, buf, off, count) ==
    /\ buf \in Seq(Byte)
    /\ off \in [0..count -> Nat] /\ off[0] = 0 /\ off[count] = Len(buf)
    /\ \A n \in 1..count :
           /\ off[n] = off[n - 1] + Len(EncodedAt(b, its, n))
           /\ Holds(buf, off[n - 1], EncodedAt(b, its, n))

(* A decoder that has started behind item m and has read up to item n.     *)
Reached(b, its, off, m, n) ==
    [pos |-> off[n],
     key |-> IF n = m THEN <<>> ELSE its[n].key,
     handle |-> IF b.kind = "index" /\ n # m THEN Some(its[n].val) ELSE None,
     out |-> SubSeq(its, m + 1, n)]

LEMMA ItemTypes ==
    ASSUME NEW b, NEW its, ItemsOK(b, its)
    PROVE  /\ Len(its) \in Nat /\ DOMAIN its = 1..Len(its) /\ its \in Seq(HandlePair \cup BytePair)
           /\ b.interval \in Nat /\ b.interval > 0
           /\ \A n \in 1..Len(its) :
                  /\ its[n].key \in Seq(Byte)
                  /\ its[n] = [key |-> its[n].key, val |-> its[n].val]
                  /\ b.kind = "index" => its[n].val \in Handle
                  /\ b.kind # "index" => its[n].val \in Seq(Byte)
<1>1. b.interval \in Nat /\ b.interval > 0
  BY DEF ItemsOK
<1>2. CASE b.kind = "index"
  <2>1. its \in Seq(HandlePair)
    BY <1>2 DEF ItemsOK
  <2>2. ASSUME NEW n \in 1..Len(its)
        PROVE  its[n].key \in Seq(Byte) /\ its[n].val \in Handle
               /\ its[n] = [key |-> its[n].key, val |-> its[n].val]
    <3>1. its[n] \in HandlePair
      BY <2>1
    <3> QED BY <3>1 DEF HandlePair
  <2>3. its \in Seq(HandlePair \cup BytePair)
    BY <2>1, SeqMonotonic
  <2> QED BY <1>1, <1>2, <2>1, <2>2, <2>3
<1>3. CASE b.kind # "index"
  <2>1. its \in Seq(BytePair)
    BY <1>3 DEF ItemsOK
  <2>2. ASSUME NEW n \in 1..Len(its)
        PROVE  its[n].key \in Seq(Byte) /\ its[n].val \in Seq(Byte)
               /\ its[n] = [key |-> its[n].key, val |-> its[n].val]
    <3>1. its[n] \in BytePair
      BY <2>1
    <3> QED BY <3>1 DEF BytePair
  <2>3. its \in Seq(HandlePair \cup BytePair)
    BY <2>1, SeqMonotonic
  <2> QED BY <1>1, <1>3, <2>1, <2>2, <2>3
<1> QED BY <1>2, <1>3

(* Where something is shared, there is an item before, and a decoder that  *)
(* has its key rebuilds the next.                                          *)
LEMMA AgreeAt ==
    ASSUME NEW b, NEW its, ItemsOK(b, its), NEW n \in 1..Len(its)
    PROVE  /\ SharedAt(b, its, n) # 0 => (n - 1) % b.interval # 0 /\ n - 1 \in 1..Len(its)
           /\ \A prev \in Seq(Byte) :
                  (SharedAt(b, its, n) # 0 => prev = its[n - 1].key)
                  => Agree(prev, its[n].key, SharedAt(b, its, n))
<1> DEFINE sh == SharedAt(b, its, n)
<1>1. /\ Len(its) \in Nat /\ b.interval \in Nat /\ b.interval > 0 /\ its[n].key \in Seq(Byte)
      /\ \A m \in 1..Len(its) : its[m].key \in Seq(Byte)
  BY ItemTypes
<1>2. sh # 0 => /\ (n - 1) % b.interval # 0 /\ sh = SharedPrefixLen(its[n - 1].key, its[n].key)
  BY DEF SharedAt
<1>3. sh # 0 => n - 1 \in 1..Len(its)
  <2> SUFFICES ASSUME sh # 0 PROVE n # 1
    BY <1>1
  <2>1. 0 % b.interval = 0
    <3> DEFINE i == b.interval
    <3>1. i \in Nat /\ i > 0
      BY <1>1
    <3> HIDE DEF i
    <3>2. 0 % i = 0
      BY <3>1
    <3> QED BY <3>2 DEF i
  <2>2. n = 1 => n - 1 = 0
    OBVIOUS
  <2> QED BY <1>2, <2>1, <2>2
<1> HIDE DEF sh
<1>4. ASSUME NEW prev \in Seq(Byte), sh # 0 => prev = its[n - 1].key
      PROVE  Agree(prev, its[n].key, sh)
  <2>1. CASE sh = 0
    BY <1>1, <2>1 DEF Agree
  <2>2. CASE sh # 0
    <3>1. sh = SharedPrefixLen(prev, its[n].key)
      BY <1>2, <1>4, <2>2
    <3>2. /\ SharedPrefixLen(prev, its[n].key) \in 0..Len(prev)
          /\ SharedPrefixLen(prev, its[n].key) <= Len(its[n].key)
          /\ \A m \in 1..SharedPrefixLen(prev, its[n].key) : prev[m] = its[n].key[m]
      BY <1>1, SharedPrefix
    <3>3. Len(prev) \in Nat
      OBVIOUS
    <3> QED BY <1>1, <3>1, <3>2, <3>3 DEF Agree
  <2> QED BY <2>1, <2>2
<1> QED BY <1>2, <1>3, <1>4 DEF sh

LEMMA HandleBytesType ==
    ASSUME NEW shared, NEW prev, NEW handle \in Handle, shared # 0 => prev \in Handle
    PROVE  HandleBytes(shared, prev, handle) \in Seq(Byte)
<1>1. CASE shared = 0
  BY <1>1, HandleType DEF HandleBytes
<1>2. CASE shared # 0
  <2> DEFINE delta == handle.size - prev.size
  <2>1. /\ handle.size \in Nat /\ prev.size \in Nat /\ 2 * handle.size < Limit64
        /\ 2 * prev.size < Limit64 /\ Limit64 \in Nat
    BY <1>2, HandleType, LimitFacts DEF U64
  <2>2. delta \in Int /\ 2 * delta < Limit64 /\ -2 * delta - 1 < Limit64
    BY <2>1
  <2> HIDE DEF delta
  <2>3. Zigzag(delta) \in U64
    BY <2>2, LimitFacts DEF U64, Zigzag
  <2>4. PutVarsigned64(delta) \in Seq(Byte)
    BY <2>3, VarintBytes DEF PutVarsigned64
  <2> QED BY <1>2, <2>4 DEF HandleBytes, delta
<1> QED BY <1>1, <1>2

LEMMA JoinFive ==
    ASSUME NEW s \in Seq(Byte), NEW t \in Seq(Byte), NEW u \in Seq(Byte), NEW v \in Seq(Byte),
           NEW w \in Seq(Byte), Len(s) > 0
    PROVE  /\ s \o t \o u \o v \in Seq(Byte) /\ Len(s \o t \o u \o v) > 0
           /\ s \o t \o u \o v \o w \in Seq(Byte) /\ Len(s \o t \o u \o v \o w) > 0
<1> DEFINE x == s \o t \o u \o v
<1>1. x \in Seq(Byte) /\ Len(x) > 0
  OBVIOUS
<1> HIDE DEF x
<1>2. x \o w \in Seq(Byte) /\ Len(x \o w) > 0
  BY <1>1
<1> QED BY <1>1, <1>2 DEF x

(* Every item is encoded as at least one byte.                             *)
LEMMA EncodedType ==
    ASSUME NEW b, NEW its, ItemsOK(b, its), SmallItems(b, its), NEW n \in 1..Len(its)
    PROVE  EncodedAt(b, its, n) \in Seq(Byte) /\ Len(EncodedAt(b, its, n)) > 0
<1> DEFINE sh == SharedAt(b, its, n)
           key == its[n].key
           p == PutVarint32(sh)
           q == PutVarint32(Len(key) - sh)
           r == SubSeq(key, sh + 1, Len(key))
<1>1. /\ key \in Seq(Byte) /\ Len(key) \in Nat /\ Len(key) < Limit32
      /\ b.kind # "index" => its[n].val \in Seq(Byte) /\ Len(its[n].val) < Limit32
      /\ b.kind = "index" => its[n].val \in Handle
  <2>1. /\ n \in DOMAIN its /\ its[n].key \in Seq(Byte)
        /\ b.kind # "index" => its[n].val \in Seq(Byte)
        /\ b.kind = "index" => its[n].val \in Handle
    BY ItemTypes
  <2>2. Len(its[n].key) < Limit32 /\ (b.kind # "index" => Len(its[n].val) < Limit32)
    BY <2>1 DEF SmallItems
  <2>3. Len(its[n].key) \in Nat
    BY <2>1, LenProperties
  <2> QED BY <2>1, <2>2, <2>3
<1>2. PICK prev \in Seq(Byte) : sh # 0 => prev = its[n - 1].key
  <2>1. sh # 0 => its[n - 1].key \in Seq(Byte)
    BY AgreeAt, ItemTypes
  <2>2. <<>> \in Seq(Byte)
    OBVIOUS
  <2> QED BY <2>1, <2>2
<1>3. Agree(prev, key, sh)
  BY <1>2, AgreeAt
<1>4. sh \in Nat /\ sh <= Len(key) /\ r \in Seq(Byte)
  BY <1>3, KeyRebuilt DEF Agree
<1>5. sh \in U64 /\ Len(key) - sh \in U64
  <2> HIDE DEF sh, key
  <2> QED BY <1>1, <1>4, LimitFacts DEF U64
<1>6. p \in Seq(Byte) /\ q \in Seq(Byte) /\ Len(p) > 0
  BY <1>5, Varint32Bytes
<1>7. CASE b.kind = "index"
  <2> DEFINE w == HandleBytes(sh, its[n - 1].val, its[n].val)
  <2>1. w \in Seq(Byte)
    <3>1. sh # 0 => its[n - 1].val \in Handle
      BY <1>7, AgreeAt, ItemTypes
    <3> QED BY <1>1, <1>7, <3>1, HandleBytesType
  <2>2. EncodedAt(b, its, n) = p \o q \o r \o w
    BY <1>7 DEF EncodedAt, IndexEntryBytes
  <2> HIDE DEF p, q, r, w
  <2>3. p \o q \o r \o w \in Seq(Byte) /\ Len(p \o q \o r \o w) > 0
    BY <1>4, <1>6, <2>1, JoinFive
  <2> QED BY <2>2, <2>3, Zenon
<1>8. CASE b.kind # "index"
  <2> DEFINE v == PutVarint32(Len(its[n].val))
             w == its[n].val
  <2>1. v \in Seq(Byte) /\ w \in Seq(Byte)
    <3>1. Len(its[n].val) \in U64
      BY <1>1, <1>8, LimitFacts DEF U64
    <3> QED BY <1>1, <1>8, <3>1, Varint32Bytes
  <2>2. EncodedAt(b, its, n) = p \o q \o v \o r \o w
    BY <1>8 DEF EncodedAt, EntryBytes
  <2> HIDE DEF p, q, r, v, w
  <2>3. p \o q \o v \o r \o w \in Seq(Byte) /\ Len(p \o q \o v \o r \o w) > 0
    BY <1>4, <1>6, <2>1, JoinFive
  <2> QED BY <2>2, <2>3, Zenon
<1> QED BY <1>7, <1>8

(* Later items end further behind.                                         *)
LEMMA OffsetsIncrease ==
    ASSUME NEW b, NEW its, ItemsOK(b, its), SmallItems(b, its), NEW buf, NEW off,
           NEW count \in 0..Len(its), Laid(b, its, buf, off, count)
    PROVE  \A i, j \in 0..count : i < j => off[i] < off[j]
<1> DEFINE T == {j \in Nat : j <= count => \A i \in 0..count : i < j => off[i] < off[j]}
<1>1. count \in Nat /\ off \in [0..count -> Nat] /\ count <= Len(its) /\ Len(its) \in Nat
  BY ItemTypes DEF Laid
<1>2. 0 \in T
  OBVIOUS
<1>3. ASSUME NEW j \in Nat, j \in T PROVE j + 1 \in T
  <2> SUFFICES ASSUME j + 1 <= count, NEW i \in 0..count, i < j + 1
               PROVE  off[i] < off[j + 1]
    OBVIOUS
  <2> DEFINE e == Len(EncodedAt(b, its, j + 1))
             x == off[i]
             y == off[j]
             z == off[j + 1]
  <2>1. j + 1 \in 1..count /\ (j + 1) - 1 = j /\ j \in 0..count /\ j + 1 \in 1..Len(its)
    BY <1>1
  <2>2. z = y + e
    BY <2>1 DEF Laid
  <2>3. e \in Nat /\ e > 0
    BY <2>1, EncodedType
  <2>4. x \in Nat /\ y \in Nat
    BY <1>1, <2>1
  <2>5. i < j => x < y
    BY <1>1, <1>3, <2>1
  <2>6. i = j => x = y
    OBVIOUS
  <2> HIDE DEF e, x, y, z
  <2>7. x < z
    BY <2>1, <2>2, <2>3, <2>4, <2>5, <2>6
  <2> QED BY <2>7 DEF x, z
<1> HIDE DEF T
<1>4. \A j \in Nat : j \in T
  BY <1>2, <1>3, SetInduction
<1> QED BY <1>1, <1>4 DEF T

LEMMA SubSeqExtended ==
    ASSUME NEW S, NEW s \in Seq(S), NEW m \in Nat, NEW n \in m..(Len(s) - 1)
    PROVE  Append(SubSeq(s, m + 1, n), s[n + 1]) = SubSeq(s, m + 1, n + 1)
<1> DEFINE x == SubSeq(s, m + 1, n)
           y == SubSeq(s, m + 1, n + 1)
<1>1. x \in Seq(S) /\ Len(x) = n - m /\ \A i \in 1..(n - m) : x[i] = s[m + i]
  OBVIOUS
<1>2. y \in Seq(S) /\ Len(y) = (n - m) + 1 /\ \A i \in 1..((n - m) + 1) : y[i] = s[m + i]
  OBVIOUS
<1>3. s[n + 1] \in S /\ n - m \in Nat /\ m + ((n - m) + 1) = n + 1
  OBVIOUS
<1> HIDE DEF x, y
<1> DEFINE z == Append(x, s[n + 1])
<1>4. z \in Seq(S) /\ Len(z) = (n - m) + 1 /\ z[(n - m) + 1] = s[n + 1]
      /\ \A i \in 1..(n - m) : z[i] = x[i]
  BY <1>1, <1>3
<1> HIDE DEF z
<1>5. ASSUME NEW i \in 1..((n - m) + 1) PROVE z[i] = y[i]
  <2>1. CASE i \in 1..(n - m)
    BY <1>1, <1>2, <1>4, <2>1
  <2>2. CASE i = (n - m) + 1
    BY <1>2, <1>3, <1>4, <2>2
  <2> QED BY <1>3, <2>1, <2>2
<1>6. z = y
  BY <1>2, <1>4, <1>5, SeqEqual
<1> QED BY <1>6 DEF x, y, z

(* The next entry decodes, wherever the decoder started: it started where  *)
(* nothing is shared.                                                      *)
LEMMA DecodeStep ==
    ASSUME NEW b, NEW its, ItemsOK(b, its), SmallItems(b, its), NEW buf, NEW off,
           Laid(b, its, buf, off, Len(its)),
           NEW m \in Nat, m % b.interval = 0, NEW n \in m..(Len(its) - 1),
           NEW block, block.data = buf,
           \A j \in 0..Len(its) : off[j] \in block.restarts => j % b.interval = 0
    PROVE  /\ b.kind = "index" => IndexEntryFrom(block, Reached(b, its, off, m, n))
                                      = {Reached(b, its, off, m, n + 1)}
           /\ b.kind # "index" => EntryFrom(block, Reached(b, its, off, m, n))
                                      = {Reached(b, its, off, m, n + 1)}
           /\ off[n] < Len(buf)
<1> DEFINE d == Reached(b, its, off, m, n)
           sh == SharedAt(b, its, n + 1)
           key == its[n + 1].key
           val == its[n + 1].val
           enc == EncodedAt(b, its, n + 1)
<1>1. /\ Len(its) \in Nat /\ n \in 0..Len(its) /\ n + 1 \in 1..Len(its) /\ (n + 1) - 1 = n
      /\ n < Len(its) /\ n + 1 \in DOMAIN its /\ (n # m => n \in 1..Len(its))
  BY ItemTypes
<1>2. /\ buf \in Seq(Byte) /\ off \in [0..Len(its) -> Nat] /\ off[Len(its)] = Len(buf)
      /\ off[n + 1] = off[n] + Len(enc) /\ Holds(buf, off[n], enc)
  BY <1>1 DEF Laid
<1>3. off[n] < Len(buf)
  <2>1. Len(its) \in 0..Len(its)
    BY <1>1
  <2>2. off[n] < off[Len(its)]
    BY <1>1, <2>1, OffsetsIncrease
  <2> QED BY <1>2, <2>2
<1>4. /\ d.pos = off[n] /\ d.pos \in Nat /\ d.key = (IF n = m THEN <<>> ELSE its[n].key)
      /\ d.handle = (IF b.kind = "index" /\ n # m THEN Some(its[n].val) ELSE None)
      /\ d.out = SubSeq(its, m + 1, n)
  BY <1>1, <1>2 DEF Reached
<1>5. sh # 0 => n # m /\ n % b.interval # 0 /\ n \in 1..Len(its)
  BY <1>1, AgreeAt
<1>6. Agree(d.key, key, sh)
  <2>1. d.key \in Seq(Byte)
    <3>1. <<>> \in Seq(Byte)
      OBVIOUS
    <3>2. n # m => its[n].key \in Seq(Byte)
      <4>1. \A i \in 1..Len(its) : its[i].key \in Seq(Byte)
        BY ItemTypes
      <4> QED BY <1>1, <4>1
    <3> HIDE DEF d
    <3> QED BY <1>4, <3>1, <3>2
  <2>2. sh # 0 => d.key = its[n].key
    BY <1>4, <1>5
  <2> HIDE DEF d
  <2> QED BY <1>1, <2>1, <2>2, AgreeAt
<1>7. /\ key \in Seq(Byte) /\ Len(key) < Limit32 /\ its[n + 1] = [key |-> key, val |-> val]
      /\ b.kind # "index" => val \in Seq(Byte) /\ Len(val) < Limit32
      /\ b.kind = "index" => val \in Handle
  BY <1>1, ItemTypes DEF SmallItems
<1>8. Append(SubSeq(its, m + 1, n), [key |-> key, val |-> val]) = SubSeq(its, m + 1, n + 1)
  <2> DEFINE S == HandlePair \cup BytePair
  <2>1. its \in Seq(S)
    BY ItemTypes
  <2>2. its[n + 1] \in S
    BY <1>1, <2>1
  <2> HIDE DEF S
  <2>3. Append(SubSeq(its, m + 1, n), its[n + 1]) = SubSeq(its, m + 1, n + 1)
    BY <1>1, <2>1, SubSeqExtended, SMTT(30)
  <2> QED BY <1>7, <2>3, Zenon
<1>9. Reached(b, its, off, m, n + 1) =
          [pos |-> off[n] + Len(enc), key |-> key,
           handle |-> IF b.kind = "index" THEN Some(val) ELSE None,
           out |-> Append(d.out, [key |-> key, val |-> val])]
  <2>1. n + 1 # m
    BY <1>1
  <2>2. off[n + 1] = off[n] + Len(enc)
    BY <1>2
  <2> QED BY <1>4, <1>8, <2>1, <2>2 DEF Reached
<1>10. CASE b.kind # "index"
  <2>1. enc = EntryBytes(sh, key, val)
    BY <1>10 DEF EncodedAt
  <2>2. EntryFrom(block, d) =
            {[pos |-> d.pos + Len(EntryBytes(sh, key, val)), key |-> key,
              handle |-> d.handle, out |-> Append(d.out, [key |-> key, val |-> val])]}
    <3>1. Holds(buf, d.pos, EntryBytes(sh, key, val))
      BY <1>2, <1>4, <2>1, Zenon
    <3>2. d.pos \in Nat
      BY <1>4
    <3>3. val \in Seq(Byte) /\ Len(val) < Limit32 /\ Len(key) < Limit32
      BY <1>7, <1>10
    <3>4. buf \in Seq(Byte)
      BY <1>2
    <3> HIDE DEF d, sh, key, val, enc
    <3>5. \A k, v, s : v \in Seq(Byte) /\ Agree(d.key, k, s) /\ Len(k) < Limit32
                         /\ Len(v) < Limit32 /\ Holds(buf, d.pos, EntryBytes(s, k, v))
              => EntryFrom(block, d) =
                     {[pos |-> d.pos + Len(EntryBytes(s, k, v)), key |-> k,
                       handle |-> d.handle, out |-> Append(d.out, [key |-> k, val |-> v])]}
      BY <3>2, <3>4, EntryReadsBack, SMTT(30)
    <3> QED BY <1>6, <3>1, <3>3, <3>5
  <2>3. [pos |-> d.pos + Len(EntryBytes(sh, key, val)), key |-> key,
         handle |-> d.handle, out |-> Append(d.out, [key |-> key, val |-> val])]
            = Reached(b, its, off, m, n + 1)
    <3> HIDE DEF d, sh, key, val, enc
    <3> QED BY <1>4, <1>9, <1>10, <2>1
  <2> HIDE DEF sh, key, val, enc
  <2> QED BY <1>3, <1>10, <2>2, <2>3
<1>11. CASE b.kind = "index"
  <2> DEFINE prev == its[n].val
  <2>1. enc = IndexEntryBytes(sh, key, prev, val)
    BY <1>1, <1>11 DEF EncodedAt
  <2>2. d.pos \in block.restarts => sh = 0
    BY <1>1, <1>4, <1>5
  <2>3. sh # 0 => /\ prev \in Handle /\ d.handle = Some(prev)
                  /\ val.offset = prev.offset + prev.size + TrailerSize
    <3> SUFFICES ASSUME sh # 0
                 PROVE  /\ prev \in Handle /\ d.handle = Some(prev)
                        /\ val.offset = prev.offset + prev.size + TrailerSize
      OBVIOUS
    <3>1. n \in 1..Len(its) /\ n \in 1..(Len(its) - 1) /\ n # m
      BY <1>1, <1>5
    <3>2. val.offset = prev.offset + prev.size + TrailerSize
      BY <1>11, <3>1 DEF ItemsOK
    <3>3. prev \in Handle
      BY <1>11, <3>1, ItemTypes
    <3> QED BY <1>4, <1>11, <3>1, <3>2, <3>3
  <2>4. IndexEntryFrom(block, d) =
               {[pos |-> d.pos + Len(IndexEntryBytes(sh, key, prev, val)), key |-> key,
                 handle |-> Some(val), out |-> Append(d.out, [key |-> key, val |-> val])]}
    <3>1. Holds(buf, d.pos, IndexEntryBytes(sh, key, prev, val))
      BY <1>2, <1>4, <2>1, Zenon
    <3>2. d.pos \in Nat
      BY <1>4
    <3> HIDE DEF d, sh, key, val, enc, prev
    <3> QED BY <1>2, <1>6, <1>7, <1>11, <2>2, <2>3, <3>1, <3>2, IndexEntryReadsBack, SMTT(30)
  <2> QED
    <3>1. [pos |-> d.pos + Len(IndexEntryBytes(sh, key, prev, val)), key |-> key,
           handle |-> Some(val), out |-> Append(d.out, [key |-> key, val |-> val])]
          = Reached(b, its, off, m, n + 1)
      <4> HIDE DEF d, sh, key, val, enc, prev
      <4> QED BY <1>4, <1>9, <1>11, <2>1
    <3> HIDE DEF sh, key, val, enc, prev
    <3> QED BY <1>3, <1>11, <2>4, <3>1
<1> QED BY <1>10, <1>11
-----------------------------------------------------------------------------
(* The names of the meta blocks.                                           *)

(* Names are totally ordered.                                              *)
LEMMA NamesOrdered ==
    ASSUME NEW a \in Seq(Byte), NEW b \in Seq(Byte)
    PROVE  ~NameLess(a, a) /\ (a # b => NameLess(a, b) \/ NameLess(b, a))
<1> DEFINE p == SharedPrefixLen(a, b)
<1>1. /\ DOMAIN a = 1..Len(a) /\ Len(a) \in Nat /\ DOMAIN b = 1..Len(b) /\ Len(b) \in Nat
      /\ \A n \in 1..Len(a) : a[n] \in Nat
      /\ \A n \in 1..Len(b) : b[n] \in Nat
  BY LimitFacts DEF Byte
<1>2. ~NameLess(a, a)
  BY <1>1 DEF NameLess
<1>3. /\ p \in Nat /\ p <= Len(a) /\ p <= Len(b) /\ \A m \in 1..p : a[m] = b[m]
      /\ p < Len(a) /\ p < Len(b) => a[p + 1] # b[p + 1]
  BY <1>1, SharedPrefix, SMTT(30)
<1> HIDE DEF p
<1>4. CASE p = Len(a) /\ p = Len(b)
  <2>1. a = b
    BY <1>3, <1>4, SeqEqual
  <2> QED BY <1>2, <2>1
<1>5. CASE p = Len(a) /\ p < Len(b)
  <2>1. p + 1 \in DOMAIN b /\ p + 1 \notin DOMAIN a /\ (p + 1) - 1 = p
    BY <1>1, <1>3, <1>5
  <2>2. NameLess(a, b)
    BY <1>1, <1>3, <1>5, <2>1 DEF NameLess
  <2> QED BY <1>2, <2>2
<1>6. CASE p < Len(a) /\ p = Len(b)
  <2>1. p + 1 \in DOMAIN a /\ p + 1 \notin DOMAIN b /\ (p + 1) - 1 = p
    BY <1>1, <1>3, <1>6
  <2>2. NameLess(b, a)
    BY <1>1, <1>3, <1>6, <2>1 DEF NameLess
  <2> QED BY <1>2, <2>2
<1>7. CASE p < Len(a) /\ p < Len(b)
  <2>1. /\ p + 1 \in DOMAIN a /\ p + 1 \in DOMAIN b /\ (p + 1) - 1 = p
        /\ \A m \in 1..p : m \in DOMAIN a /\ m \in DOMAIN b
    BY <1>1, <1>3, <1>7
  <2>2. a[p + 1] < b[p + 1] \/ b[p + 1] < a[p + 1]
    BY <1>1, <1>3, <1>7, <2>1
  <2>3. NameLess(a, b) \/ NameLess(b, a)
    BY <1>3, <2>1, <2>2 DEF NameLess
  <2> QED BY <1>2, <2>3
<1>8. (p = Len(a) \/ p < Len(a)) /\ (p = Len(b) \/ p < Len(b))
  <2> DEFINE x == Len(a)
             y == Len(b)
  <2>1. p \in Nat /\ x \in Nat /\ y \in Nat /\ p <= x /\ p <= y
    BY <1>1, <1>3
  <2> HIDE DEF x, y
  <2>2. (p = x \/ p < x) /\ (p = y \/ p < y)
    BY <2>1
  <2> QED BY <2>2 DEF x, y
<1> QED BY <1>4, <1>5, <1>6, <1>7, <1>8

LEMMA NamesTransitive ==
    ASSUME NEW a \in Seq(Byte), NEW b \in Seq(Byte), NEW c \in Seq(Byte),
           NameLess(a, b), NameLess(b, c)
    PROVE  NameLess(a, c)
<1>1. /\ DOMAIN a = 1..Len(a) /\ Len(a) \in Nat /\ DOMAIN b = 1..Len(b) /\ Len(b) \in Nat
      /\ DOMAIN c = 1..Len(c) /\ Len(c) \in Nat
      /\ \A n \in 1..Len(a) : a[n] \in Nat
      /\ \A n \in 1..Len(b) : b[n] \in Nat
      /\ \A n \in 1..Len(c) : c[n] \in Nat
  BY LimitFacts DEF Byte
<1>2. PICK n \in DOMAIN b : /\ \A m \in 1..(n - 1) : m \in DOMAIN a /\ a[m] = b[m]
                            /\ n \in DOMAIN a => a[n] < b[n]
  BY DEF NameLess
<1>3. PICK k \in DOMAIN c : /\ \A m \in 1..(k - 1) : m \in DOMAIN b /\ b[m] = c[m]
                            /\ k \in DOMAIN b => b[k] < c[k]
  BY DEF NameLess
<1>4. CASE n < k
  <2>1. /\ n \in DOMAIN c /\ n \in 1..(k - 1)
        /\ \A m \in 1..(n - 1) : m \in 1..(k - 1)
    BY <1>1, <1>4
  <2>2. b[n] = c[n] /\ \A m \in 1..(n - 1) : b[m] = c[m]
    BY <1>3, <2>1
  <2> QED BY <1>2, <2>1, <2>2 DEF NameLess
<1>5. CASE n = k
  <2>1. n \in DOMAIN a => a[n] < c[n]
    BY <1>1, <1>2, <1>3, <1>5
  <2>2. \A m \in 1..(n - 1) : m \in DOMAIN a /\ a[m] = c[m]
    BY <1>2, <1>3, <1>5
  <2> QED BY <1>5, <2>1, <2>2 DEF NameLess
<1>6. CASE k < n
  <2>1. k \in 1..(n - 1) /\ k \in DOMAIN b /\ \A m \in 1..(k - 1) : m \in 1..(n - 1)
    BY <1>1, <1>6
  <2>2. a[k] = b[k] /\ b[k] < c[k]
    BY <1>2, <1>3, <2>1
  <2>3. \A m \in 1..(k - 1) : m \in DOMAIN a /\ a[m] = c[m]
    BY <1>2, <1>3, <2>1
  <2> QED BY <2>2, <2>3 DEF NameLess
<1> QED BY <1>1, <1>4, <1>5, <1>6

(* Sorting by rank: every place has one pair, and every pair a place.      *)
LEMMA SortsByName ==
    ASSUME NEW S \in SUBSET BytePair, IsFiniteSet(S),
           \A p, q \in S : p.key = q.key => p = q
    PROVE  /\ SortedByName(S) \in Seq(S)
           /\ \A p \in S : \E n \in DOMAIN SortedByName(S) : SortedByName(S)[n] = p
           /\ \A n, m \in DOMAIN SortedByName(S) :
                  n < m => NameLess(SortedByName(S)[n].key, SortedByName(S)[m].key)
<1> DEFINE N == Cardinality(S)
           Below(p) == {q \in S : NameLess(q.key, p.key)}
           rank == [p \in S |-> Cardinality(Below(p))]
           s == SortedByName(S)
<1>1. N \in Nat /\ \A p \in S : p.key \in Seq(Byte)
  BY FS_CardinalityType DEF BytePair
<1>2. ASSUME NEW p \in S
      PROVE  /\ IsFiniteSet(Below(p)) /\ Cardinality(Below(p)) \in 0..(N - 1)
             /\ p \notin Below(p) /\ rank[p] = Cardinality(Below(p))
  <2>1. p \notin Below(p)
    BY <1>1, NamesOrdered
  <2>2. Below(p) \in SUBSET S /\ IsFiniteSet(Below(p)) /\ Cardinality(Below(p)) <= N
        /\ (N = Cardinality(Below(p)) => S = Below(p))
    <3>1. Below(p) \in SUBSET S
      OBVIOUS
    <3> HIDE DEF Below
    <3> QED BY <3>1, FS_Subset
  <2>3. Cardinality(Below(p)) \in Nat
    <3> HIDE DEF Below
    <3> QED BY <2>2, FS_CardinalityType
  <2> HIDE DEF Below
  <2> QED BY <1>1, <2>1, <2>2, <2>3
<1>3. ASSUME NEW p \in S, NEW q \in S, NameLess(p.key, q.key)
      PROVE  rank[p] < rank[q]
  <2> DEFINE T == Below(p) \cup {p}
  <2>1. T \in SUBSET Below(q)
    BY <1>1, <1>3, NamesTransitive
  <2>2. Cardinality(T) = Cardinality(Below(p)) + 1
    <3> HIDE DEF Below
    <3> QED BY <1>2, FS_AddElement
  <2>3. Cardinality(T) <= Cardinality(Below(q))
    <3> HIDE DEF Below, T
    <3> QED BY <1>2, <2>1, FS_Subset
  <2> HIDE DEF Below, T, rank
  <2> QED BY <1>2, <2>2, <2>3
<1>4. \A p, q \in S : rank[p] = rank[q] => p = q
  <2> SUFFICES ASSUME NEW p \in S, NEW q \in S, p # q PROVE rank[p] # rank[q]
    OBVIOUS
  <2>1. NameLess(p.key, q.key) \/ NameLess(q.key, p.key)
    BY <1>1, NamesOrdered
  <2> HIDE DEF rank, Below, N
  <2>2. rank[p] \in Nat /\ rank[q] \in Nat
    BY <1>1, <1>2
  <2> QED BY <1>3, <2>1, <2>2
<1>5. rank \in [S -> 0..(N - 1)]
  <2> HIDE DEF Below, N
  <2> QED BY <1>2
<1>6. \A n \in 0..(N - 1) : \E p \in S : rank[p] = n
  <2>1. rank \in Injection(S, 0..(N - 1))
    <3> HIDE DEF rank, N
    <3> QED BY <1>4, <1>5, Fun_IsInj
  <2>2. IsFiniteSet(0..(N - 1)) /\ Cardinality(0..(N - 1)) = N
    <3> HIDE DEF N
    <3>1. 0 \in Int /\ N - 1 \in Int
      BY <1>1
    <3>2. IsFiniteSet(0..(N - 1)) /\ Cardinality(0..(N - 1)) = IF 0 > N - 1 THEN 0 ELSE N - 1 - 0 + 1
      BY <3>1, FS_Interval
    <3> QED BY <1>1, <3>2
  <2>3. rank \in Surjection(S, 0..(N - 1))
    <3> HIDE DEF rank
    <3> QED BY <2>1, <2>2, FS_Injection
  <2> HIDE DEF rank, N
  <2> QED BY <2>3, Fun_SurjectionProperties
<1>7. s = [n \in 1..N |-> CHOOSE p \in S : Cardinality(Below(p)) = n - 1]
  BY DEF SortedByName
<1>8. ASSUME NEW n \in 1..N PROVE s[n] \in S /\ rank[s[n]] = n - 1
  <2>1. n - 1 \in 0..(N - 1)
    BY <1>1
  <2>2. \E p \in S : Cardinality(Below(p)) = n - 1
    <3> HIDE DEF N, Below
    <3> QED BY <1>6, <2>1, <1>2
  <2>3. s[n] = CHOOSE p \in S : Cardinality(Below(p)) = n - 1
    <3> HIDE DEF N, Below, s
    <3> QED BY <1>7
  <2>4. s[n] \in S /\ Cardinality(Below(s[n])) = n - 1
    <3> HIDE DEF Below, s
    <3> QED BY <2>2, <2>3, Zenon
  <2> HIDE DEF Below, s, rank
  <2> QED BY <1>2, <2>4
<1> HIDE DEF N, Below, s, rank
<1>9. s \in Seq(S) /\ DOMAIN s = 1..N
  <2>1. s \in [1..N -> S]
    BY <1>7, <1>8
  <2> QED BY <1>1, <2>1
<1>10. ASSUME NEW p \in S PROVE \E n \in 1..N : s[n] = p
  <2>1. rank[p] \in 0..(N - 1)
    BY <1>5
  <2>2. rank[p] + 1 \in 1..N /\ (rank[p] + 1) - 1 = rank[p]
    BY <1>1, <2>1
  <2>3. s[rank[p] + 1] = p
    BY <1>4, <1>8, <2>2
  <2> QED BY <2>2, <2>3
<1>11. ASSUME NEW n \in 1..N, NEW m \in 1..N, n < m PROVE NameLess(s[n].key, s[m].key)
  <2>1. s[n] \in S /\ s[m] \in S /\ rank[s[n]] < rank[s[m]]
    BY <1>1, <1>8, <1>11
  <2>2. rank[s[n]] \in Nat /\ rank[s[m]] \in Nat
    BY <1>5, <2>1
  <2>3. s[n] # s[m] /\ ~NameLess(s[m].key, s[n].key)
    BY <1>3, <2>1, <2>2
  <2>4. s[n].key # s[m].key
    BY <2>1, <2>3
  <2> QED BY <1>1, <2>1, <2>3, <2>4, NamesOrdered
<1> QED BY <1>9, <1>10, <1>11 DEF s

(* A number for each name: they all differ.                                *)
NameCode(k) ==
    100 * k[2] + (IF Len(k) > 2 THEN 10 * k[3] ELSE 0) + (IF Len(k) > 3 THEN k[4] ELSE 5)

LEMMA NameTypes ==
    ASSUME NEW k \in {KEY_INDEX_TYPE, KEY_COLUMN_FAMILY_ID, KEY_COLUMN_FAMILY_NAME,
                      KEY_COMPARATOR, KEY_DATA_SIZE, KEY_EXTERNAL_GLOBAL_SEQNO,
                      KEY_EXTERNAL_VERSION, KEY_INDEX_KEY_IS_USER_KEY, KEY_INDEX_SIZE,
                      KEY_INDEX_VALUE_IS_DELTA_ENCODED, KEY_NUM_ENTRIES,
                      KEY_RAW_KEY_SIZE, KEY_RAW_VALUE_SIZE}
    PROVE  k \in Seq(Byte)
<1>1. \A n \in 0..7 : n \in Byte
  BY BlocksAssumption, LimitFacts DEF Byte, ByteLimit
<1>2. /\ 0 \in Byte /\ 1 \in Byte /\ 2 \in Byte /\ 3 \in Byte /\ 4 \in Byte
      /\ 5 \in Byte /\ 6 \in Byte /\ 7 \in Byte
  BY <1>1
<1>3. \A x \in Byte, y \in Byte : <<x, y>> \in Seq(Byte)
  OBVIOUS
<1>4. \A x \in Byte, y \in Byte, z \in Byte : <<x, y, z>> \in Seq(Byte)
  OBVIOUS
<1>5. \A x \in Byte, y \in Byte, z \in Byte, w \in Byte : <<x, y, z, w>> \in Seq(Byte)
  OBVIOUS
<1>6. <<7, 0>> \in Seq(Byte) /\ <<7, 2>> \in Seq(Byte) /\ <<7, 5>> \in Seq(Byte)
  BY <1>2, <1>3, Zenon
<1>7. /\ <<7, 1, 1>> \in Seq(Byte) /\ <<7, 3, 0>> \in Seq(Byte) /\ <<7, 3, 1>> \in Seq(Byte)
      /\ <<7, 4, 0>> \in Seq(Byte) /\ <<7, 4, 1>> \in Seq(Byte) /\ <<7, 4, 2>> \in Seq(Byte)
      /\ <<7, 6, 0>> \in Seq(Byte) /\ <<7, 6, 1>> \in Seq(Byte)
  BY <1>2, <1>4, Zenon
<1>8. <<7, 1, 0, 0>> \in Seq(Byte) /\ <<7, 1, 0, 1>> \in Seq(Byte)
  BY <1>2, <1>5, Zenon
<1> QED
  BY <1>6, <1>7, <1>8, Zenon
  DEF KEY_INDEX_TYPE, KEY_COLUMN_FAMILY_ID, KEY_COLUMN_FAMILY_NAME, KEY_COMPARATOR,
      KEY_DATA_SIZE, KEY_EXTERNAL_GLOBAL_SEQNO, KEY_EXTERNAL_VERSION,
      KEY_INDEX_KEY_IS_USER_KEY, KEY_INDEX_SIZE, KEY_INDEX_VALUE_IS_DELTA_ENCODED,
      KEY_NUM_ENTRIES, KEY_RAW_KEY_SIZE, KEY_RAW_VALUE_SIZE

LEMMA NameCodes ==
    /\ NameCode(KEY_INDEX_TYPE) = 5
    /\ NameCode(KEY_COLUMN_FAMILY_ID) = 100
    /\ NameCode(KEY_COLUMN_FAMILY_NAME) = 101
    /\ NameCode(KEY_COMPARATOR) = 115
    /\ NameCode(KEY_DATA_SIZE) = 205
    /\ NameCode(KEY_EXTERNAL_GLOBAL_SEQNO) = 305
    /\ NameCode(KEY_EXTERNAL_VERSION) = 315
    /\ NameCode(KEY_INDEX_KEY_IS_USER_KEY) = 405
    /\ NameCode(KEY_INDEX_SIZE) = 415
    /\ NameCode(KEY_INDEX_VALUE_IS_DELTA_ENCODED) = 425
    /\ NameCode(KEY_NUM_ENTRIES) = 505
    /\ NameCode(KEY_RAW_KEY_SIZE) = 605
    /\ NameCode(KEY_RAW_VALUE_SIZE) = 615
<1>1. NameCode(<<7, 0>>) = 5 /\ NameCode(<<7, 2>>) = 205 /\ NameCode(<<7, 5>>) = 505
  BY DEF NameCode
<1>2. /\ NameCode(<<7, 1, 1>>) = 115 /\ NameCode(<<7, 3, 0>>) = 305 /\ NameCode(<<7, 3, 1>>) = 315
      /\ NameCode(<<7, 4, 0>>) = 405 /\ NameCode(<<7, 4, 1>>) = 415 /\ NameCode(<<7, 4, 2>>) = 425
      /\ NameCode(<<7, 6, 0>>) = 605 /\ NameCode(<<7, 6, 1>>) = 615
  BY DEF NameCode
<1>3. NameCode(<<7, 1, 0, 0>>) = 100 /\ NameCode(<<7, 1, 0, 1>>) = 101
  BY DEF NameCode
<1> QED
  BY <1>1, <1>2, <1>3, Zenon
  DEF KEY_INDEX_TYPE, KEY_COLUMN_FAMILY_ID, KEY_COLUMN_FAMILY_NAME, KEY_COMPARATOR,
      KEY_DATA_SIZE, KEY_EXTERNAL_GLOBAL_SEQNO, KEY_EXTERNAL_VERSION,
      KEY_INDEX_KEY_IS_USER_KEY, KEY_INDEX_SIZE, KEY_INDEX_VALUE_IS_DELTA_ENCODED,
      KEY_NUM_ENTRIES, KEY_RAW_KEY_SIZE, KEY_RAW_VALUE_SIZE

LEMMA PropertyType ==
    ASSUME NEW key \in Seq(Byte), NEW val \in Seq(Byte)
    PROVE  Property(key, val) \in BytePair /\ Property(key, val).key = key
           /\ Property(key, val).val = val
  BY DEF Property, BytePair

(* The properties have names of their own, and bytes for values.           *)
LEMMA PropertiesDiffer ==
    ASSUME NEW props \in PropertiesInput
    PROVE  /\ PropertiesPairs(props) \in SUBSET BytePair
           /\ IsFiniteSet(PropertiesPairs(props))
           /\ \A p, q \in PropertiesPairs(props) : p.key = q.key => p = q
<1> DEFINE S == PropertiesPairs(props)
           p1 == Property(KEY_INDEX_TYPE, ToLeBytes(INDEX_TYPE_BINARY_SEARCH, FixedLen))
           p2 == Property(KEY_NUM_ENTRIES, PutVarint64(props.num_entries))
           p3 == Property(KEY_RAW_KEY_SIZE, PutVarint64(props.raw_key_size))
           p4 == Property(KEY_RAW_VALUE_SIZE, PutVarint64(props.raw_value_size))
           p5 == Property(KEY_DATA_SIZE, PutVarint64(props.data_size))
           p6 == Property(KEY_INDEX_SIZE, PutVarint64(props.index_size))
           p7 == Property(KEY_INDEX_KEY_IS_USER_KEY, PutVarint64(0))
           p8 == Property(KEY_INDEX_VALUE_IS_DELTA_ENCODED, PutVarint64(1))
           p9 == Property(KEY_COLUMN_FAMILY_ID, PutVarint64(props.column_family_id))
           p10 == Property(KEY_COMPARATOR, props.comparator_name)
           p11 == Property(KEY_COLUMN_FAMILY_NAME, props.column_family_name)
           p12 == Property(KEY_EXTERNAL_VERSION, ToLeBytes(EXTERNAL_SST_VERSION, FixedLen))
           p13(u) == Property(KEY_EXTERNAL_GLOBAL_SEQNO, ToLeBytes(u, 2 * FixedLen))
           Seqnos == ToSet(props.external_sst_global_seqno)
<1>1. /\ props.num_entries \in U64 /\ props.raw_key_size \in U64 /\ props.raw_value_size \in U64
      /\ props.data_size \in U64 /\ props.index_size \in U64 /\ props.column_family_id \in U64
      /\ props.comparator_name \in Seq(Byte) /\ props.column_family_name \in Seq(Byte)
      /\ props.external_sst_global_seqno \in Seq(U64) /\ Len(props.external_sst_global_seqno) <= 1
  BY DEF PropertiesInput
<1>2. PICK u \in U64 : Seqnos \subseteq {u}
  <2> DEFINE x == props.external_sst_global_seqno
  <2>1. x \in Seq(U64) /\ Len(x) <= 1
    BY <1>1
  <2>2. 0 \in U64
    BY LimitFacts DEF U64
  <2> HIDE DEF x
  <2>3. CASE Len(x) = 0
    <3>1. ToSet(x) \subseteq {0}
      BY <2>1, <2>3 DEF ToSet
    <3> QED BY <2>2, <3>1 DEF x
  <2>4. CASE Len(x) = 1
    <3>1. DOMAIN x = {1} /\ x[1] \in U64
      BY <2>1, <2>4
    <3>2. ToSet(x) \subseteq {x[1]}
      BY <3>1, Zenon DEF ToSet
    <3> QED BY <3>1, <3>2 DEF x
  <2>5. Len(x) \in Nat
    BY <2>1, LenProperties
  <2>6. Len(x) = 0 \/ Len(x) = 1
    <3> DEFINE n == Len(x)
    <3>1. n \in Nat /\ n <= 1
      BY <2>1, <2>5
    <3> HIDE DEF n
    <3>2. n = 0 \/ n = 1
      BY <3>1
    <3> QED BY <3>2 DEF n
  <2> QED BY <2>3, <2>4, <2>6
<1>3. S \subseteq {p1, p2, p3, p4, p5, p6, p7, p8, p9, p10, p11, p12, p13(u)}
  <2>1. UNION {{p12, p13(n)} : n \in Seqnos} \subseteq {p12, p13(u)}
    <3> HIDE DEF p12, p13, Seqnos
    <3> QED BY <1>2
  <2>2. S = {p1, p2, p3, p4, p5, p6, p7, p8, p9}
            \cup (IF props.comparator_name = <<>> THEN {} ELSE {p10})
            \cup (IF props.column_family_name = <<>> THEN {} ELSE {p11})
            \cup UNION {{p12, p13(n)} : n \in Seqnos}
    BY Zenon DEF PropertiesPairs
  <2> HIDE DEF S, p1, p2, p3, p4, p5, p6, p7, p8, p9, p10, p11, p12, p13, Seqnos
  <2> QED BY <2>1, <2>2
<1>4. 0 \in U64 /\ 1 \in U64 /\ u \in Nat /\ \A v \in U64 : v \in Nat
  BY LimitFacts DEF U64
<1>5. \A v \in U64 : PutVarint64(v) \in Seq(Byte)
  BY VarintBytes
<1>6. /\ ToLeBytes(INDEX_TYPE_BINARY_SEARCH, FixedLen) \in Seq(Byte)
      /\ ToLeBytes(EXTERNAL_SST_VERSION, FixedLen) \in Seq(Byte)
      /\ ToLeBytes(u, 2 * FixedLen) \in Seq(Byte)
  <2>1. FixedLen \in Nat /\ 2 * FixedLen \in Nat /\ 0 \in Nat /\ 2 \in Nat
    BY LimitFacts
  <2> QED BY <1>4, <2>1, LeBytesType DEF INDEX_TYPE_BINARY_SEARCH, EXTERNAL_SST_VERSION
<1>7. /\ p1 \in BytePair /\ p1.key = KEY_INDEX_TYPE
      /\ p2 \in BytePair /\ p2.key = KEY_NUM_ENTRIES
      /\ p3 \in BytePair /\ p3.key = KEY_RAW_KEY_SIZE
      /\ p4 \in BytePair /\ p4.key = KEY_RAW_VALUE_SIZE
      /\ p5 \in BytePair /\ p5.key = KEY_DATA_SIZE
      /\ p6 \in BytePair /\ p6.key = KEY_INDEX_SIZE
      /\ p7 \in BytePair /\ p7.key = KEY_INDEX_KEY_IS_USER_KEY
      /\ p8 \in BytePair /\ p8.key = KEY_INDEX_VALUE_IS_DELTA_ENCODED
      /\ p9 \in BytePair /\ p9.key = KEY_COLUMN_FAMILY_ID
      /\ p10 \in BytePair /\ p10.key = KEY_COMPARATOR
      /\ p11 \in BytePair /\ p11.key = KEY_COLUMN_FAMILY_NAME
      /\ p12 \in BytePair /\ p12.key = KEY_EXTERNAL_VERSION
      /\ p13(u) \in BytePair /\ p13(u).key = KEY_EXTERNAL_GLOBAL_SEQNO
  BY <1>1, <1>4, <1>5, <1>6, NameTypes, PropertyType, Zenon
<1> HIDE DEF S, p1, p2, p3, p4, p5, p6, p7, p8, p9, p10, p11, p12, p13, Seqnos
<1>8. S \in SUBSET BytePair
  BY <1>3, <1>7
<1>9. \A p \in S : \/ NameCode(p.key) = 5 /\ p = p1
                   \/ NameCode(p.key) = 505 /\ p = p2
                   \/ NameCode(p.key) = 605 /\ p = p3
                   \/ NameCode(p.key) = 615 /\ p = p4
                   \/ NameCode(p.key) = 205 /\ p = p5
                   \/ NameCode(p.key) = 415 /\ p = p6
                   \/ NameCode(p.key) = 405 /\ p = p7
                   \/ NameCode(p.key) = 425 /\ p = p8
                   \/ NameCode(p.key) = 100 /\ p = p9
                   \/ NameCode(p.key) = 115 /\ p = p10
                   \/ NameCode(p.key) = 101 /\ p = p11
                   \/ NameCode(p.key) = 315 /\ p = p12
                   \/ NameCode(p.key) = 305 /\ p = p13(u)
  BY <1>3, <1>7, NameCodes
<1>10. \A p, q \in S : NameCode(p.key) = NameCode(q.key) => p = q
  BY <1>9
<1>11. \A p \in S : NameCode(p.key) \in 0..999
  BY <1>9
<1> DEFINE code == [p \in S |-> NameCode(p.key)]
<1>12. code \in [S -> 0..999] /\ \A p, q \in S : code[p] = code[q] => p = q
  BY <1>10, <1>11
<1>13. IsFiniteSet(S)
  <2> HIDE DEF code
  <2>1. code \in Injection(S, 0..999)
    BY <1>12, Fun_IsInj
  <2>2. IsFiniteSet(0..999)
    <3> DEFINE top == 999
    <3>1. top \in Int /\ 0 \in Int
      OBVIOUS
    <3> HIDE DEF top
    <3>2. IsFiniteSet(0..top)
      BY <3>1, FS_Interval
    <3> QED BY <3>2 DEF top
  <2> QED BY <2>1, <2>2, FS_Injection
<1> QED BY <1>8, <1>10, <1>13 DEF S
LEMMA MetaindexDiffer ==
    ASSUME NEW given \in Seq(HandlePair),
           \A n, m \in DOMAIN given : given[n].key = given[m].key => n = m
    PROVE  /\ MetaindexPairs(given) \in SUBSET BytePair
           /\ IsFiniteSet(MetaindexPairs(given))
           /\ \A p, q \in MetaindexPairs(given) : p.key = q.key => p = q
<1> DEFINE S == MetaindexPairs(given)
           D == 1..Len(given)
           f == [n \in D |-> Property(given[n].key, EncodedHandle(given[n].val))]
<1>1. DOMAIN given = D /\ Len(given) \in Nat
  OBVIOUS
<1>2. ASSUME NEW n \in D PROVE f[n] \in BytePair /\ f[n].key = given[n].key
  <2>1. given[n] \in HandlePair
    OBVIOUS
  <2>2. given[n].key \in Seq(Byte) /\ given[n].val \in Handle
    BY <2>1 DEF HandlePair
  <2>3. EncodedHandle(given[n].val) \in Seq(Byte)
    BY <2>2, HandleType
  <2>4. f[n] = Property(given[n].key, EncodedHandle(given[n].val))
    OBVIOUS
  <2> HIDE DEF f
  <2> QED BY <2>2, <2>3, <2>4, PropertyType
<1>3. S = {f[n] : n \in D}
  <2>1. ToSet(given) = {given[n] : n \in D}
    BY <1>1 DEF ToSet
  <2> HIDE DEF D
  <2> QED BY <2>1 DEF MetaindexPairs
<1> HIDE DEF S, f
<1>4. S \in SUBSET BytePair
  BY <1>2, <1>3
<1>5. \A p, q \in S : p.key = q.key => p = q
  BY <1>1, <1>2, <1>3
<1>6. IsFiniteSet(S)
  <2>1. f \in [D -> S] /\ \A p \in S : \E n \in D : f[n] = p
    BY <1>3 DEF f
  <2>2. f \in Surjection(D, S)
    BY <2>1, Fun_IsSurj
  <2>3. IsFiniteSet(D)
    BY <1>1, FS_Interval
  <2> QED BY <2>2, <2>3, FS_Surjection
<1> QED BY <1>4, <1>5, <1>6 DEF S

(* The pairs of a meta block.                                              *)
MetaPairs(b) == IF b.kind = "properties" THEN PropertiesPairs(b.given) ELSE MetaindexPairs(b.given)

(* The builders get items they can encode; those of the meta blocks        *)
(* ascend and leave out no pair.                                           *)
LEMMA ItemsGiven ==
    ASSUME NEW b \in Blocks
    PROVE  /\ ItemsOK(b, ItemsOf(b))
           /\ b.kind \in {"properties", "metaindex"} =>
                  /\ \A p \in MetaPairs(b) : \E n \in DOMAIN ItemsOf(b) : ItemsOf(b)[n] = p
                  /\ \A n, m \in DOMAIN ItemsOf(b) :
                         n < m => NameLess(ItemsOf(b)[n].key, ItemsOf(b)[m].key)
<1>1. b.interval \in Nat \ {0} /\ b.kind \in {"data", "index", "metaindex", "properties"} /\ GivenOK(b)
  BY BlocksAssumption
<1>2. CASE b.kind = "data"
  BY <1>1, <1>2 DEF GivenOK, ItemsOf, ItemsOK
<1>3. CASE b.kind = "index"
  BY <1>1, <1>3 DEF GivenOK, ItemsOf, ItemsOK
<1>4. CASE b.kind \in {"properties", "metaindex"}
  <2> DEFINE S == MetaPairs(b)
             s == SortedByName(S)
  <2>1. S \in SUBSET BytePair /\ IsFiniteSet(S) /\ \A p, q \in S : p.key = q.key => p = q
    <3>1. CASE b.kind = "properties"
      <4>1. b.given \in PropertiesInput
        BY <1>1, <3>1 DEF GivenOK
      <4> QED BY <3>1, <4>1, PropertiesDiffer DEF MetaPairs
    <3>2. CASE b.kind = "metaindex"
      <4>1. /\ b.given \in Seq(HandlePair)
            /\ \A n, m \in DOMAIN b.given : b.given[n].key = b.given[m].key => n = m
        BY <1>1, <3>2 DEF GivenOK
      <4>2. S = MetaindexPairs(b.given)
        BY <3>2 DEF MetaPairs
      <4> QED BY <4>1, <4>2, MetaindexDiffer
    <3> QED BY <1>4, <3>1, <3>2
  <2> HIDE DEF S
  <2>2. /\ s \in Seq(S)
        /\ \A p \in S : \E n \in DOMAIN s : s[n] = p
        /\ \A n, m \in DOMAIN s : n < m => NameLess(s[n].key, s[m].key)
    BY <2>1, SortsByName
  <2>3. s \in Seq(BytePair)
    BY <2>1, <2>2, SeqMonotonic
  <2>4. ItemsOf(b) = s
    <3>1. CASE b.kind = "properties"
      BY <3>1, Zenon DEF ItemsOf, PropertiesItems, S, MetaPairs
    <3>2. CASE b.kind = "metaindex"
      BY <3>2 DEF ItemsOf, MetaindexItems, S, MetaPairs
    <3> QED BY <1>4, <3>1, <3>2
  <2> HIDE DEF s
  <2>5. ItemsOK(b, s)
    BY <1>1, <1>4, <2>3 DEF ItemsOK
  <2> QED BY <2>2, <2>4, <2>5 DEF S
<1> QED BY <1>1, <1>2, <1>3, <1>4
-----------------------------------------------------------------------------
(* The builders.                                                           *)

(* One more: either the remainder grows, or the quotient does.             *)
LEMMA DivStep ==
    ASSUME NEW i \in Nat, i > 0, NEW a \in Nat
    PROVE  /\ (a % i) + 1 # i => (a + 1) % i = (a % i) + 1 /\ (a + 1) \div i = a \div i
           /\ (a % i) + 1 = i => (a + 1) % i = 0 /\ (a + 1) \div i = (a \div i) + 1
           /\ a % i \in 0..(i - 1) /\ a \div i \in Nat /\ (a \div i) * i <= a
           /\ a % i = 0 => (a \div i) * i = a
<1> DEFINE q == a \div i
           r == a % i
<1>1. q \in Nat /\ r \in 0..(i - 1) /\ a = i * q + r
  BY Quotient
<1>2. \A t \in Nat, s \in 0..(i - 1) : (i * t + s) \div i = t /\ (i * t + s) % i = s
  <2> SUFFICES ASSUME NEW t \in Nat, NEW s \in 0..(i - 1)
               PROVE  (i * t + s) \div i = t /\ (i * t + s) % i = s
    OBVIOUS
  <2>1. i * t \in Nat /\ i * t = t * i
    OBVIOUS
  <2> QED BY <2>1
<1> HIDE DEF q, r
<1>3. i * q \in Nat /\ q * i = i * q /\ i * (q + 1) = i * q + i
  BY <1>1
<1>4. CASE r + 1 # i
  <2>1. r + 1 \in 0..(i - 1) /\ a + 1 = i * q + (r + 1)
    BY <1>1, <1>3, <1>4
  <2>2. (a + 1) % i = r + 1 /\ (a + 1) \div i = q
    BY <1>1, <1>2, <2>1
  <2> QED BY <1>1, <1>3, <1>4, <2>2 DEF q, r
<1>5. CASE r + 1 = i
  <2>1. 0 \in 0..(i - 1) /\ a + 1 = i * (q + 1) + 0 /\ q + 1 \in Nat
    BY <1>1, <1>3, <1>5
  <2>2. (a + 1) % i = 0 /\ (a + 1) \div i = q + 1
    BY <1>2, <2>1, SMTT(30)
  <2> QED BY <1>1, <1>3, <1>5, <2>2 DEF q, r
<1> QED BY <1>4, <1>5

(* Behind the entries laid so far, the next one can be laid.               *)
LEMMA LaidFurther ==
    ASSUME NEW b, NEW its, ItemsOK(b, its), SmallItems(b, its), NEW buf, NEW off,
           NEW n \in 0..(Len(its) - 1), Laid(b, its, buf, off, n)
    PROVE  \E next : /\ Laid(b, its, buf \o EncodedAt(b, its, n + 1), next, n + 1)
                     /\ \A m \in 0..n : next[m] = off[m]
<1> DEFINE e == EncodedAt(b, its, n + 1)
           c == buf \o e
           next == [m \in 0..(n + 1) |-> IF m <= n THEN off[m] ELSE Len(buf) + Len(e)]
<1>1. /\ Len(its) \in Nat /\ n \in Nat /\ n + 1 \in 1..Len(its)
      /\ \A m \in 1..n : m \in 1..Len(its)
  BY ItemTypes
<1>2. e \in Seq(Byte) /\ Len(e) \in Nat
  BY <1>1, EncodedType
<1>3. /\ buf \in Seq(Byte) /\ Len(buf) \in Nat
      /\ off \in [0..n -> Nat] /\ off[0] = 0 /\ off[n] = Len(buf)
      /\ \A m \in 1..n : /\ off[m] = off[m - 1] + Len(EncodedAt(b, its, m))
                         /\ Holds(buf, off[m - 1], EncodedAt(b, its, m))
  BY DEF Laid
<1> HIDE DEF e
<1>4. /\ c \in Seq(Byte) /\ Len(c) = Len(buf) + Len(e) /\ Holds(c, Len(buf), e)
      /\ \A at \in Nat, s \in Seq(Byte) : Holds(buf, at, s) => Holds(c, at, s)
  BY <1>2, <1>3, HoldsAppended
<1> HIDE DEF c
<1>5. /\ \A m \in 0..n : next[m] = off[m]
      /\ next[n + 1] = Len(buf) + Len(e) /\ next \in [0..(n + 1) -> Nat]
  BY <1>1, <1>2, <1>3
<1> HIDE DEF next
<1>6. ASSUME NEW m \in 1..(n + 1)
      PROVE  /\ next[m] = next[m - 1] + Len(EncodedAt(b, its, m))
             /\ Holds(c, next[m - 1], EncodedAt(b, its, m))
  <2>1. CASE m <= n
    <3>1. m \in 1..n /\ m \in 0..n /\ m - 1 \in 0..n
      BY <1>1, <2>1
    <3>2. EncodedAt(b, its, m) \in Seq(Byte) /\ off[m - 1] \in Nat
      BY <1>1, <1>3, <3>1, EncodedType
    <3>3. next[m] = off[m] /\ next[m - 1] = off[m - 1]
      BY <1>5, <3>1
    <3> QED BY <1>3, <1>4, <3>1, <3>2, <3>3
  <2>2. CASE m = n + 1
    <3>1. m - 1 = n /\ n \in 0..n
      BY <1>1, <2>2
    <3>2. next[m - 1] = Len(buf) /\ next[m] = Len(buf) + Len(e) /\ EncodedAt(b, its, m) = e
      BY <1>3, <1>5, <2>2, <3>1 DEF e
    <3> QED BY <1>4, <3>2
  <2> QED BY <1>1, <2>1, <2>2
<1>7. Laid(b, its, c, next, n + 1)
  <2>1. 0 \in 0..n
    BY <1>1
  <2>2. next[0] = 0
    BY <1>3, <1>5, <2>1
  <2> QED BY <1>3, <1>4, <1>5, <1>6, <2>2 DEF Laid
<1> QED BY <1>5, <1>7 DEF c, e

(* The number of restarts of a block with n entries.                       *)
RestartCount(b, n) == IF n = 0 THEN 1 ELSE 1 + ((n - 1) \div b.interval)

(* Restart k is where item (k - 1) * interval ends.                        *)
RestartsAt(b, rs, off, n) ==
    \A k \in 1..Len(rs) : /\ (k - 1) * b.interval \in 0..n
                          /\ rs[k] = off[(k - 1) * b.interval]

(* The builder's fields after n items.                                     *)
Built(b, its, n, buf, rs, key, handle, cnt) ==
    /\ n = 0 => cnt = 0 /\ key = <<>>
    /\ n > 0 => /\ key = its[n].key
                /\ cnt = ((n - 1) % b.interval) + 1
                /\ b.kind = "index" => handle = Some(its[n].val)
    /\ rs \in Seq(Nat) /\ Len(rs) = RestartCount(b, n)
    /\ \E off : Laid(b, its, buf, off, n) /\ RestartsAt(b, rs, off, n)

(* The counter is at the interval just when an interval's items are in.    *)
LEMMA RestartDue ==
    ASSUME NEW b, NEW its, ItemsOK(b, its), NEW n \in 0..(Len(its) - 1),
           NEW buf, NEW rs, NEW key, NEW handle, NEW cnt,
           Built(b, its, n, buf, rs, key, handle, cnt)
    PROVE  /\ cnt >= b.interval <=> (n > 0 /\ n % b.interval = 0)
           /\ cnt \in Nat
           /\ (IF cnt >= b.interval THEN 1 ELSE cnt + 1) = (n % b.interval) + 1
           /\ RestartCount(b, n + 1) =
                  RestartCount(b, n) + (IF cnt >= b.interval THEN 1 ELSE 0)
           /\ cnt >= b.interval => RestartCount(b, n) * b.interval = n
           /\ RestartCount(b, n) \in Nat
<1> DEFINE i == b.interval
<1>1. i \in Nat /\ i > 0 /\ n \in Nat
  BY ItemTypes
<1>2. RestartCount(b, n + 1) = 1 + (n \div i)
  BY <1>1 DEF RestartCount
<1>3. CASE n = 0
  <2>1. cnt = 0 /\ RestartCount(b, n) = 1
    BY <1>3 DEF Built, RestartCount
  <2>2. 0 \div i = 0 /\ 0 % i = 0
    <3> HIDE DEF i
    <3> QED BY <1>1, Quotient
  <2> HIDE DEF i
  <2> QED BY <1>1, <1>2, <1>3, <2>1, <2>2 DEF i
<1>4. CASE n > 0
  <2> DEFINE a == n - 1
             q == a \div i
             r == a % i
  <2>1. a \in Nat /\ a + 1 = n
    BY <1>1, <1>4
  <2>2. cnt = r + 1 /\ RestartCount(b, n) = 1 + q
    BY <1>4, <1>1 DEF Built, RestartCount
  <2> HIDE DEF i, a
  <2>3. /\ r + 1 # i => n % i = r + 1 /\ n \div i = q
        /\ r + 1 = i => n % i = 0 /\ n \div i = q + 1
        /\ r \in 0..(i - 1) /\ q \in Nat
        /\ n % i = 0 => (n \div i) * i = n
    BY <1>1, <2>1, DivStep
  <2> HIDE DEF q, r
  <2>4. CASE r + 1 # i
    <3>1. ~(cnt >= i) /\ n % i # 0
      BY <1>1, <2>2, <2>3, <2>4
    <3> QED BY <1>1, <1>2, <1>4, <2>2, <2>3, <2>4, <3>1 DEF i
  <2>5. CASE r + 1 = i
    <3>1. cnt >= i /\ n % i = 0 /\ (1 + q) * i = n
      <4>1. n \div i = 1 + q
        BY <2>3, <2>5
      <4> QED BY <1>1, <2>2, <2>3, <2>5, <4>1
    <3> QED BY <1>1, <1>2, <1>4, <2>2, <2>3, <2>5, <3>1 DEF i
  <2> QED BY <2>4, <2>5
<1> QED BY <1>1, <1>3, <1>4(* The bytes both builders append are the encoding of the item.            *)
LEMMA SharedIsRight ==
    ASSUME NEW b, NEW its, ItemsOK(b, its), NEW n \in 0..(Len(its) - 1),
           NEW buf, NEW rs, NEW key, NEW handle, NEW cnt,
           Built(b, its, n, buf, rs, key, handle, cnt)
    PROVE  LET sh == IF cnt >= b.interval THEN 0 ELSE SharedPrefixLen(key, its[n + 1].key)
               prev == CHOOSE h \in handle : TRUE
           IN  /\ b.kind # "index" =>
                      EntryBytes(sh, its[n + 1].key, its[n + 1].val) = EncodedAt(b, its, n + 1)
               /\ b.kind = "index" =>
                      IndexEntryBytes(sh, its[n + 1].key, prev, its[n + 1].val)
                          = EncodedAt(b, its, n + 1)
<1> DEFINE sh == IF cnt >= b.interval THEN 0 ELSE SharedPrefixLen(key, its[n + 1].key)
           prev == CHOOSE h \in handle : TRUE
<1>1. /\ n \in Nat /\ n + 1 \in 1..Len(its) /\ (n + 1) - 1 = n /\ its[n + 1].key \in Seq(Byte)
      /\ b.interval \in Nat /\ b.interval > 0
  <2>1. Len(its) \in Nat /\ b.interval \in Nat /\ b.interval > 0
    BY ItemTypes
  <2>2. n + 1 \in 1..Len(its)
    BY <2>1
  <2>3. its[n + 1].key \in Seq(Byte)
    BY <2>2, ItemTypes
  <2> QED BY <2>1, <2>2, <2>3
<1>2. cnt >= b.interval <=> (n > 0 /\ n % b.interval = 0)
  BY RestartDue
<1>3. sh = SharedAt(b, its, n + 1)
  <2>1. CASE n = 0
    <3>1. key = <<>>
      BY <2>1 DEF Built
    <3>2. SharedPrefixLen(<<>>, its[n + 1].key) = 0
      <4>1. <<>> \in Seq(Byte)
        OBVIOUS
      <4> QED BY <1>1, <4>1, SharedPrefix
    <3>3. 0 % b.interval = 0
      BY <1>1, Quotient
    <3>4. ~(cnt >= b.interval)
      BY <1>2, <2>1
    <3> QED BY <1>1, <2>1, <3>1, <3>2, <3>3, <3>4 DEF SharedAt
  <2>2. CASE n > 0
    <3>1. key = its[n].key
      BY <2>2 DEF Built
    <3> QED BY <1>1, <1>2, <2>2, <3>1 DEF SharedAt
  <2> QED BY <1>1, <2>1, <2>2
<1>4. sh # 0 => prev = its[n].val \/ b.kind # "index"
  <2> SUFFICES ASSUME sh # 0, b.kind = "index" PROVE prev = its[n].val
    OBVIOUS
  <2>1. n > 0
    <3> HIDE DEF sh
    <3> QED BY <1>1, <1>3, AgreeAt
  <2>2. handle = {its[n].val}
    BY <2>1 DEF Built, Some
  <2> QED BY <2>2
<1> HIDE DEF sh, prev
<1>5. CASE b.kind = "index"
  <2>1. HandleBytes(sh, prev, its[n + 1].val) = HandleBytes(sh, its[n].val, its[n + 1].val)
    BY <1>4, <1>5 DEF HandleBytes
  <2>2. IndexEntryBytes(sh, its[n + 1].key, prev, its[n + 1].val)
            = IndexEntryBytes(sh, its[n + 1].key, its[n].val, its[n + 1].val)
    BY <2>1, Zenon DEF IndexEntryBytes
  <2>3. EncodedAt(b, its, n + 1) = IndexEntryBytes(sh, its[n + 1].key, its[n].val, its[n + 1].val)
    BY <1>1, <1>3, <1>5 DEF EncodedAt
  <2> QED BY <1>5, <2>2, <2>3 DEF sh, prev
<1>6. CASE b.kind # "index"
  <2>1. EncodedAt(b, its, n + 1) = EntryBytes(sh, its[n + 1].key, its[n + 1].val)
    BY <1>3, <1>6 DEF EncodedAt
  <2> QED BY <1>6, <2>1 DEF sh
<1> QED BY <1>5, <1>6

(* What an add does to the builder.                                        *)
LEMMA BuiltFurther ==
    ASSUME NEW b, NEW its, ItemsOK(b, its), SmallItems(b, its), NEW n \in 0..(Len(its) - 1),
           NEW buf, NEW rs, NEW key, NEW handle, NEW cnt,
           Built(b, its, n, buf, rs, key, handle, cnt),
           NEW handle2, b.kind = "index" => handle2 = Some(its[n + 1].val)
    PROVE  Built(b, its, n + 1, buf \o EncodedAt(b, its, n + 1),
                 IF cnt >= b.interval THEN Append(rs, Len(buf)) ELSE rs,
                 its[n + 1].key, handle2,
                 IF cnt >= b.interval THEN 1 ELSE cnt + 1)
<1> DEFINE i == b.interval
           due == cnt >= b.interval
           cnt2 == IF due THEN 1 ELSE cnt + 1
           rs2 == IF due THEN Append(rs, Len(buf)) ELSE rs
           buf2 == buf \o EncodedAt(b, its, n + 1)
<1>1. n \in Nat /\ i \in Nat /\ i > 0 /\ (n + 1) - 1 = n /\ n + 1 > 0 /\ n + 1 # 0
  BY ItemTypes
<1>2. /\ cnt2 = (n % i) + 1
      /\ RestartCount(b, n + 1) = RestartCount(b, n) + (IF due THEN 1 ELSE 0)
      /\ due => RestartCount(b, n) * i = n
      /\ RestartCount(b, n) \in Nat
  BY RestartDue
<1>3. PICK off : Laid(b, its, buf, off, n) /\ RestartsAt(b, rs, off, n)
  BY DEF Built
<1>4. PICK next : Laid(b, its, buf2, next, n + 1) /\ \A m \in 0..n : next[m] = off[m]
  BY <1>3, LaidFurther
<1>5. /\ rs \in Seq(Nat) /\ Len(rs) = RestartCount(b, n) /\ Len(buf) \in Nat
      /\ off[n] = Len(buf)
  BY <1>3 DEF Built, Laid
<1> HIDE DEF i, due, cnt2, buf2
<1>6. /\ rs2 \in Seq(Nat) /\ Len(rs2) = RestartCount(b, n) + (IF due THEN 1 ELSE 0)
      /\ \A k \in 1..Len(rs) : rs2[k] = rs[k]
      /\ due => rs2[RestartCount(b, n) + 1] = Len(buf)
  BY <1>5
<1> HIDE DEF rs2
<1>7. RestartsAt(b, rs2, next, n + 1)
  <2> SUFFICES ASSUME NEW k \in 1..Len(rs2)
               PROVE  (k - 1) * i \in 0..(n + 1) /\ rs2[k] = next[(k - 1) * i]
    BY DEF RestartsAt, i
  <2>1. CASE k \in 1..Len(rs)
    <3>1. (k - 1) * i \in 0..n /\ rs[k] = off[(k - 1) * i]
      BY <1>3, <2>1 DEF RestartsAt, i
    <3>2. rs2[k] = next[(k - 1) * i]
      BY <1>4, <1>6, <2>1, <3>1
    <3> DEFINE x == (k - 1) * i
    <3>3. x \in 0..n
      BY <3>1
    <3> HIDE DEF x
    <3>4. x \in 0..(n + 1)
      BY <1>1, <3>3
    <3> QED BY <3>2, <3>4 DEF x
  <2>2. CASE ~(k \in 1..Len(rs))
    <3> DEFINE c == RestartCount(b, n)
    <3>1. c \in Nat /\ Len(rs) = c /\ Len(rs2) = c + (IF due THEN 1 ELSE 0)
      BY <1>2, <1>5, <1>6
    <3> HIDE DEF c
    <3>2. due /\ k = c + 1 /\ k - 1 = c
      BY <2>2, <3>1
    <3>3. (k - 1) * i = n /\ rs2[k] = Len(buf)
      BY <1>2, <1>6, <3>2 DEF c
    <3>4. next[n] = off[n] /\ n \in 0..(n + 1)
      BY <1>1, <1>4
    <3> QED BY <1>5, <3>3, <3>4
  <2> QED BY <2>1, <2>2
<1>8. Len(rs2) = RestartCount(b, n + 1)
  BY <1>2, <1>6
<1> HIDE DEF RestartCount
<1>9. Built(b, its, n + 1, buf2, rs2, its[n + 1].key, handle2, cnt2)
  BY <1>1, <1>2, <1>4, <1>6, <1>7, <1>8 DEF Built, i
<1> QED BY <1>9 DEF buf2, rs2, cnt2, due
-----------------------------------------------------------------------------
(* Finishing and parsing.                                                  *)

LEMMA HoldsItself ==
    ASSUME NEW s \in Seq(Byte)
    PROVE  Holds(s, 0, s)
  BY DEF Holds

LEMMA PlaceInArray ==
    ASSUME NEW f \in Nat, f > 0, NEW l \in Nat, NEW i \in 0..(l - 1), NEW j \in 1..f
    PROVE  /\ i * f + j \in 1..(l * f) /\ i * f \in Nat /\ l * f \in Nat
           /\ ((i * f + j) - 1) \div f = i /\ ((i * f + j) - 1) % f = j - 1
           /\ (i + 1) * f = i * f + f /\ (i + 1) * f <= l * f
<1>1. i \in Nat /\ i + 1 <= l /\ j - 1 \in 0..(f - 1)
  OBVIOUS
<1>2. i * f \in Nat /\ l * f \in Nat /\ i * f = f * i /\ (i + 1) * f = i * f + f
  BY <1>1
<1>3. (i + 1) * f <= l * f
  <2> DEFINE d == l - (i + 1)
  <2>1. d \in Nat /\ l = (i + 1) + d
    BY <1>1
  <2> HIDE DEF d
  <2>2. l * f = (i + 1) * f + d * f /\ d * f \in Nat
    BY <1>1, <2>1
  <2> QED BY <1>1, <1>2, <2>2
<1>4. (i * f + j) - 1 = i * f + (j - 1)
  BY <1>2
<1>5. (i * f + (j - 1)) \div f = i /\ (i * f + (j - 1)) % f = j - 1
  BY <1>1, <1>2
<1>6. i * f + j \in 1..(l * f)
  BY <1>2, <1>3
<1> QED BY <1>2, <1>3, <1>4, <1>5, <1>6

(* The restart array has its numbers one behind the other.                 *)
LEMMA ArrayHolds ==
    ASSUME restarts \in Seq(Nat)
    PROVE  /\ RestartArray \in Seq(Byte) /\ Len(RestartArray) = Len(restarts) * FixedLen
           /\ \A i \in 0..(Len(restarts) - 1) :
                  Holds(RestartArray, i * FixedLen, ToLeBytes(restarts[i + 1], FixedLen))
<1> DEFINE F == FixedLen
           L == Len(restarts)
           N == L * F
           At(n) == ToLeBytes(restarts[((n - 1) \div F) + 1], F)[((n - 1) % F) + 1]
           A == RestartArray
<1>1. F \in Nat /\ F > 0 /\ L \in Nat /\ N \in Nat /\ \A k \in 1..L : restarts[k] \in Nat
  BY LimitFacts
<1>2. A = [n \in 1..N |-> At(n)]
  BY Zenon DEF RestartArray
<1>3. \A n \in 1..N : At(n) \in Byte
  <2> SUFFICES ASSUME NEW n \in 1..N PROVE At(n) \in Byte
    OBVIOUS
  <2> DEFINE q == (n - 1) \div F
             r == (n - 1) % F
  <2> HIDE DEF F, L, N
  <2>1. n - 1 \in Nat /\ n - 1 < N
    BY <1>1
  <2>2. q \in Nat /\ r \in 0..(F - 1) /\ n - 1 = F * q + r
    BY <1>1, <2>1, Quotient
  <2> HIDE DEF q, r
  <2>3. q < L
    <3> SUFFICES ASSUME q >= L PROVE FALSE
      BY <1>1, <2>2
    <3> DEFINE d == q - L
    <3>1. d \in Nat /\ q = L + d
      BY <1>1, <2>2
    <3> HIDE DEF d
    <3>2. F * q = L * F + F * d /\ F * d \in Nat
      BY <1>1, <3>1
    <3> QED BY <1>1, <2>1, <2>2, <3>2 DEF N
  <2>4. q + 1 \in 1..L /\ r + 1 \in 1..F
    BY <1>1, <2>2, <2>3
  <2>5. ToLeBytes(restarts[q + 1], F) \in Seq(Byte) /\ Len(ToLeBytes(restarts[q + 1], F)) = F
    BY <1>1, <2>4, LeBytesType
  <2>6. ToLeBytes(restarts[q + 1], F)[r + 1] \in Byte
    BY <2>4, <2>5
  <2> QED BY <2>6 DEF q, r
<1> HIDE DEF At
<1>4. A \in Seq(Byte) /\ Len(A) = N
  <2>1. A \in [1..N -> Byte]
    BY <1>2, <1>3
  <2> HIDE DEF A, N
  <2> QED BY <1>1, <2>1
<1>5. ASSUME NEW i \in 0..(L - 1)
      PROVE  Holds(A, i * F, ToLeBytes(restarts[i + 1], F))
  <2> DEFINE t == ToLeBytes(restarts[i + 1], F)
  <2>1. i + 1 \in 1..L
    BY <1>1
  <2>2. t \in Seq(Byte) /\ Len(t) = F
    BY <1>1, <2>1, LeBytesType
  <2> HIDE DEF A, N, F, L
  <2>3. ASSUME NEW j \in 1..F PROVE A[i * F + j] = t[j]
    <3> DEFINE n == i * F + j
    <3>1. n \in 1..N /\ (n - 1) \div F = i /\ (n - 1) % F = j - 1 /\ (j - 1) + 1 = j
      BY <1>1, PlaceInArray DEF N
    <3> HIDE DEF n
    <3>2. A[n] = ToLeBytes(restarts[((n - 1) \div F) + 1], F)[((n - 1) % F) + 1]
      BY <1>2, <3>1 DEF At
    <3>3. A[n] = ToLeBytes(restarts[i + 1], F)[j]
      BY <3>1, <3>2
    <3> QED BY <3>3 DEF n
  <2>4. i * F + F <= N
    <3>1. F \in 1..F
      BY <1>1
    <3> QED BY <1>1, <3>1, PlaceInArray DEF N
  <2> HIDE DEF t
  <2>5. Holds(A, i * F, t)
    BY <1>4, <2>2, <2>3, <2>4 DEF Holds
  <2> QED BY <2>5 DEF t
<1> QED BY <1>4, <1>5

(* parse_block finds the entries and the restarts finish put together.     *)
LEMMA ParsesBack ==
    ASSUME buffer \in Seq(Byte), restarts \in Seq(Nat), contents = FinishedBlock,
           Len(restarts) < Limit32, \A k \in DOMAIN restarts : restarts[k] < Limit32
    PROVE  ParseBlock = Some([data |-> buffer, restarts |-> ToSet(restarts)])
<1> DEFINE F == FixedLen
           L == Len(restarts)
           B == Len(buffer)
           A == RestartArray
           T == ToLeBytes(L, F)
           X == L * F
           ba == buffer \o A
           start == Len(contents) - F * (NumRestarts + 1)
           Restart(i) == FromLeBytes(SubSeq(contents, start + i * F + 1, start + (i + 1) * F))
<1>1. /\ F \in Nat /\ F > 0 /\ L \in Nat /\ B \in Nat /\ X \in Nat
      /\ L < Limit32 /\ \A k \in 1..L : restarts[k] \in Nat /\ restarts[k] < Limit32
      /\ DOMAIN restarts = 1..L
  BY LimitFacts
<1>2. A \in Seq(Byte) /\ Len(A) = X
      /\ \A i \in 0..(L - 1) : Holds(A, i * F, ToLeBytes(restarts[i + 1], F))
  BY ArrayHolds
<1>3. T \in Seq(Byte) /\ Len(T) = F
  BY <1>1, LeBytesType
<1>4. contents = ba \o T
  BY Zenon DEF FinishedBlock
<1> HIDE DEF A, T, F, L, B, X
<1>5. ba \in Seq(Byte) /\ Len(ba) = B + X /\ Holds(ba, B, A)
  BY <1>2, HoldsAppended DEF B
<1> HIDE DEF ba
<1>6. /\ contents \in Seq(Byte) /\ Len(contents) = (B + X) + F
      /\ Holds(contents, B + X, T)
      /\ Holds(contents, B, A) /\ Holds(contents, 0, buffer)
  <2>1. /\ contents \in Seq(Byte) /\ Len(contents) = (B + X) + F
        /\ Holds(contents, B + X, T)
        /\ \A at \in Nat, s \in Seq(Byte) : Holds(ba, at, s) => Holds(contents, at, s)
    <3>1. /\ ba \o T \in Seq(Byte) /\ Len(ba \o T) = Len(ba) + Len(T)
          /\ Holds(ba \o T, Len(ba), T)
          /\ \A at \in Nat, s \in Seq(Byte) : Holds(ba, at, s) => Holds(ba \o T, at, s)
      BY <1>3, <1>5, HoldsAppended
    <3> QED BY <1>3, <1>4, <1>5, <3>1, Zenon
  <2>2. Holds(ba, 0, buffer)
    BY <1>2, HoldsItself, HoldsAppended DEF ba
  <2> QED BY <1>1, <1>2, <1>5, <2>1, <2>2
<1>7. NumRestarts = L
  <2>1. SubSeq(contents, (B + X) + 1, (B + X) + F) = T
    <3> DEFINE at == B + X
    <3>1. at \in Nat
      BY <1>1
    <3> HIDE DEF at
    <3> QED BY <1>3, <1>6, <3>1, HoldsSlice DEF at
  <2>2. Len(contents) - F + 1 = (B + X) + 1
    <3> DEFINE at == B + X
    <3>1. at \in Nat /\ Len(contents) = at + F
      BY <1>1, <1>6
    <3> HIDE DEF at
    <3>2. Len(contents) - F + 1 = at + 1
      BY <1>1, <3>1
    <3> QED BY <3>2 DEF at
  <2>3. NumRestarts = FromLeBytes(T)
    BY <1>6, <2>1, <2>2 DEF NumRestarts, F
  <2> QED BY <1>1, <2>3, LeRoundTrip DEF T, F
<1> HIDE DEF NumRestarts
<1>8. start = B /\ ~(Len(contents) < F) /\ ~(start < 0)
  <2>1. F * (L + 1) = X + F
    BY <1>1 DEF X
  <2>2. start = Len(contents) - (X + F)
    BY <1>7, <2>1
  <2> HIDE DEF start
  <2> QED BY <1>1, <1>6, <2>2
<1> HIDE DEF start
<1>9. ASSUME NEW i \in 0..(L - 1) PROVE Restart(i) = restarts[i + 1]
  <2> DEFINE t == ToLeBytes(restarts[i + 1], F)
             x == i * F
  <2>1. i + 1 \in 1..L
    BY <1>1
  <2>2. t \in Seq(Byte) /\ Len(t) = F
    BY <1>1, <2>1, LeBytesType
  <2>3. x \in Nat /\ (i + 1) * F = x + F
    <3>1. F \in 1..F
      BY <1>1
    <3> QED BY <1>1, <3>1, PlaceInArray
  <2>4. Holds(A, x, t)
    BY <1>2
  <2> HIDE DEF t, x
  <2>5. Holds(contents, B + x, t)
    <3>1. /\ B + Len(A) <= Len(contents) /\ x + Len(t) <= Len(A)
          /\ \A j \in 1..Len(A) : contents[B + j] = A[j]
          /\ \A j \in 1..Len(t) : A[x + j] = t[j]
          /\ Len(A) \in Nat /\ Len(t) \in Nat /\ Len(contents) \in Nat
      BY <1>2, <1>6, <2>2, <2>4 DEF Holds
    <3>2. (B + x) + Len(t) <= Len(contents)
      BY <1>1, <2>3, <3>1
    <3>3. ASSUME NEW j \in 1..Len(t) PROVE contents[(B + x) + j] = t[j]
      <4>1. x + j \in 1..Len(A) /\ (B + x) + j = B + (x + j)
        BY <1>1, <2>3, <3>1, SMTT(30)
      <4> QED BY <3>1, <4>1
    <3> QED BY <3>2, <3>3 DEF Holds
  <2>6. SubSeq(contents, (B + x) + 1, (B + x) + F) = t
    <3>1. B + x \in Nat
      BY <1>1, <2>3
    <3> QED BY <1>6, <2>2, <2>5, <3>1, HoldsSlice
  <2>7. Restart(i) = FromLeBytes(SubSeq(contents, (B + x) + 1, (B + x) + F))
    <3>1. start + i * F + 1 = (B + x) + 1 /\ start + (i + 1) * F = (B + x) + F
      <4>1. start + i * F = B + x
        BY <1>8 DEF x
      <4>2. start + (i + 1) * F = (B + x) + F
        BY <1>1, <1>8, <2>3
      <4> QED BY <4>1, <4>2, Zenon
    <3> QED BY <3>1, Zenon
  <2>8. FromLeBytes(t) = restarts[i + 1]
    BY <1>1, <2>1, LeRoundTrip DEF t, F
  <2> QED BY <2>6, <2>7, <2>8
<1> HIDE DEF Restart
<1>10. {Restart(i) : i \in 0..(NumRestarts - 1)} = ToSet(restarts)
  <2>1. ASSUME NEW i \in 0..(L - 1) PROVE Restart(i) \in ToSet(restarts)
    <3>1. i + 1 \in 1..L
      BY <1>1
    <3> QED BY <1>1, <1>9, <3>1 DEF ToSet
  <2>2. ASSUME NEW k \in 1..L PROVE \E i \in 0..(L - 1) : restarts[k] = Restart(i)
    <3>1. k - 1 \in 0..(L - 1) /\ (k - 1) + 1 = k
      BY <1>1
    <3>2. Restart(k - 1) = restarts[k]
      BY <1>9, <3>1
    <3> QED BY <3>1, <3>2
  <2>3. ToSet(restarts) = {restarts[k] : k \in 1..L}
    BY <1>1 DEF ToSet
  <2> QED BY <1>7, <2>1, <2>2, <2>3
<1>11. SubSeq(contents, 1, start) = buffer
  <2>1. SubSeq(contents, 0 + 1, 0 + Len(buffer)) = buffer
    BY <1>6, HoldsSlice
  <2>2. 0 + 1 = 1 /\ 0 + Len(buffer) = start
    BY <1>1, <1>8 DEF B
  <2> QED BY <2>1, <2>2
<1>12. ParseBlock = IF Len(contents) < F \/ start < 0 THEN None
                    ELSE Some([data |-> SubSeq(contents, 1, start),
                               restarts |-> {Restart(i) : i \in 0..(NumRestarts - 1)}])
  BY Zenon DEF ParseBlock, start, Restart, F
<1> QED BY <1>8, <1>10, <1>11, <1>12

(* What parse_block makes of a finished block.                             *)
BlockOf(buf, rs) == [data |-> buf, restarts |-> ToSet(rs)]

(* All items stand in buf, and rs has their restarts.                      *)
Complete(b, its, buf, rs, off) ==
    /\ Laid(b, its, buf, off, Len(its))
    /\ rs \in Seq(Nat)
    /\ RestartsAt(b, rs, off, Len(its))

LEMMA MultipleHasNoRest ==
    ASSUME NEW i \in Nat, i > 0, NEW k \in Nat
    PROVE  (k * i) % i = 0 /\ k * i \in Nat
<1>1. k * i \in Nat /\ i * k = k * i /\ k * i = k * i + 0
  OBVIOUS
<1>2. (k * i + 0) % i = 0
  BY <1>1
<1> QED BY <1>1, <1>2

(* A restart is where an interval of items ends, and nowhere else.         *)
LEMMA RestartsOnly ==
    ASSUME NEW b, NEW its, ItemsOK(b, its), SmallItems(b, its), NEW buf, NEW rs, NEW off,
           Complete(b, its, buf, rs, off)
    PROVE  /\ \A j \in 0..Len(its) : off[j] \in ToSet(rs) => j % b.interval = 0
           /\ \A k \in 1..Len(rs) : ((k - 1) * b.interval) % b.interval = 0
<1>1. b.interval \in Nat /\ b.interval > 0 /\ Len(its) \in Nat
  BY ItemTypes
<1>2. \A k \in 1..Len(rs) : ((k - 1) * b.interval) % b.interval = 0
  <2> SUFFICES ASSUME NEW k \in 1..Len(rs) PROVE ((k - 1) * b.interval) % b.interval = 0
    OBVIOUS
  <2>1. k - 1 \in Nat
    OBVIOUS
  <2> QED BY <1>1, <2>1, MultipleHasNoRest
<1>3. ASSUME NEW j \in 0..Len(its), off[j] \in ToSet(rs) PROVE j % b.interval = 0
  <2>1. PICK k \in 1..Len(rs) : off[j] = rs[k]
    BY <1>3 DEF ToSet, Complete
  <2> DEFINE m == (k - 1) * b.interval
  <2>2. m \in 0..Len(its) /\ off[j] = off[m] /\ m % b.interval = 0
    BY <1>2, <2>1 DEF Complete, RestartsAt
  <2> HIDE DEF m
  <2>3. off \in [0..Len(its) -> Nat] /\ off[j] \in Nat /\ off[m] \in Nat
    BY <2>2 DEF Complete, Laid
  <2>4. Len(its) \in 0..Len(its)
    BY <1>1
  <2>5. \A x, y \in 0..Len(its) : x < y => off[x] < off[y]
    BY <2>4, OffsetsIncrease DEF Complete
  <2>6. ~(j < m) /\ ~(m < j)
    BY <2>2, <2>3, <2>5
  <2>7. j = m
    BY <1>1, <2>2, <2>6
  <2> QED BY <2>2, <2>7
<1> QED BY <1>2, <1>3

(* The decoder's turn: the next item while there is one.                   *)
LEMMA Turns ==
    ASSUME NEW b, NEW its, ItemsOK(b, its), SmallItems(b, its), NEW buf, NEW rs, NEW off,
           Complete(b, its, buf, rs, off),
           NEW m \in Nat, m % b.interval = 0, NEW n \in m..Len(its)
    PROVE  /\ Unread(BlockOf(buf, rs), Reached(b, its, off, m, n)) <=> n # Len(its)
           /\ n # Len(its) =>
                  /\ b.kind = "index" =>
                         IndexEntryFrom(BlockOf(buf, rs), Reached(b, its, off, m, n))
                             = {Reached(b, its, off, m, n + 1)}
                  /\ b.kind # "index" =>
                         EntryFrom(BlockOf(buf, rs), Reached(b, its, off, m, n))
                             = {Reached(b, its, off, m, n + 1)}
<1> DEFINE block == BlockOf(buf, rs)
           d == Reached(b, its, off, m, n)
<1>1. block.data = buf /\ block.restarts = ToSet(rs) /\ d.pos = off[n]
  BY DEF BlockOf, Reached
<1>2. Len(its) \in Nat
  BY ItemTypes
<1>3. buf \in Seq(Byte) /\ Len(buf) \in Nat /\ off[Len(its)] = Len(buf) /\ Laid(b, its, buf, off, Len(its))
  BY DEF Complete, Laid
<1>4. \A j \in 0..Len(its) : off[j] \in block.restarts => j % b.interval = 0
  BY <1>1, RestartsOnly
<1> HIDE DEF block
<1>5. CASE n = Len(its)
  <2>1. d.pos = Len(block.data)
    BY <1>1, <1>3, <1>5
  <2> HIDE DEF d
  <2>2. ~Unread(block, d)
    BY <1>1, <1>3, <2>1 DEF Unread
  <2> QED BY <1>5, <2>2 DEF block, d
<1>6. CASE n # Len(its)
  <2>1. n \in m..(Len(its) - 1)
    BY <1>2, <1>6
  <2>2. /\ b.kind = "index" => IndexEntryFrom(block, Reached(b, its, off, m, n))
                                      = {Reached(b, its, off, m, n + 1)}
        /\ b.kind # "index" => EntryFrom(block, Reached(b, its, off, m, n))
                                      = {Reached(b, its, off, m, n + 1)}
        /\ off[n] < Len(buf)
    BY <1>1, <1>3, <1>4, <2>1, DecodeStep
  <2>3. Unread(block, d)
    BY <1>1, <2>2 DEF Unread
  <2> QED BY <1>6, <2>2, <2>3 DEF block
<1> QED BY <1>5, <1>6

LEMMA StartReached ==
    ASSUME NEW b, NEW its, ItemsOK(b, its), NEW off, NEW m \in 0..Len(its)
    PROVE  StartAt(off[m]) = Reached(b, its, off, m, m)
<1>1. SubSeq(its, m + 1, m) = <<>>
  <2> DEFINE S == HandlePair \cup BytePair
  <2>1. its \in Seq(S) /\ Len(its) \in Nat
    BY ItemTypes
  <2> HIDE DEF S
  <2> QED BY <2>1
<1> QED BY <1>1 DEF StartAt, Reached
-----------------------------------------------------------------------------
(* The state machine.                                                      *)

(* The reader of a block that arrived whole has the first so many items.   *)
ReaderAt(n) ==
    \E off :
        /\ Complete(work, items, buffer, restarts, off)
        /\ parsed = Some(BlockOf(buffer, restarts))
        /\ decoder = Some(Reached(work, items, off, 0, n))

(* The inductive invariant: what the builder has in its fields and bytes   *)
(* is fixed by how many items it was given, and what a reader of the whole *)
(* block has is fixed by how many it has read.                             *)
CodecInv ==
    /\ work \in Blocks /\ items = ItemsOf(work) /\ added \in 0..Len(items)
    /\ pc \in {"build", "finished", "cut", "decode", "decoded", "err"}
    /\ SmallItems(work, items) =>
           Built(work, items, added, buffer, restarts, last_key, last_handle, counter)
    /\ pc # "build" => added = Len(items)
    /\ pc \in {"build", "finished", "cut"} => decoder = None
    /\ Intact /\ FitsU32 /\ pc \notin {"finished", "cut"} =>
           /\ pc # "err"
           /\ \E n \in 0..Len(items) : ReaderAt(n) /\ (pc = "decoded" => n = Len(items))

LEMMA SmallIfFits ==
    ASSUME FitsU32
    PROVE  /\ SmallItems(work, items)
           /\ Len(restarts) < Limit32 /\ \A k \in DOMAIN restarts : restarts[k] < Limit32
  BY DEF FitsU32, SmallItems

(* A whole block that fits parses.                                         *)
LEMMA WholeParses ==
    ASSUME CodecInv, Intact, FitsU32
    PROVE  /\ ItemsOK(work, items) /\ SmallItems(work, items)
           /\ Len(restarts) = RestartCount(work, Len(items))
           /\ restarts \in Seq(Nat)
           /\ ParseBlock = Some(BlockOf(buffer, restarts))
           /\ \E off : Complete(work, items, buffer, restarts, off)
<1>1. /\ work \in Blocks /\ items = ItemsOf(work) /\ added = Len(items)
      /\ contents = FinishedBlock
      /\ SmallItems(work, items) =>
             Built(work, items, added, buffer, restarts, last_key, last_handle, counter)
  BY DEF CodecInv, Intact
<1>2. ItemsOK(work, items)
  BY <1>1, ItemsGiven
<1>3. /\ SmallItems(work, items)
      /\ Len(restarts) < Limit32 /\ \A k \in DOMAIN restarts : restarts[k] < Limit32
  BY SmallIfFits
<1>4. /\ restarts \in Seq(Nat) /\ Len(restarts) = RestartCount(work, Len(items))
      /\ \E off : Laid(work, items, buffer, off, Len(items))
                  /\ RestartsAt(work, restarts, off, Len(items))
  BY <1>1, <1>3 DEF Built
<1>5. PICK off : Laid(work, items, buffer, off, Len(items))
                 /\ RestartsAt(work, restarts, off, Len(items))
  BY <1>4
<1>6. Complete(work, items, buffer, restarts, off)
  BY <1>4, <1>5 DEF Complete
<1>7. buffer \in Seq(Byte)
  BY <1>5 DEF Laid
<1>8. ParseBlock = Some(BlockOf(buffer, restarts))
  BY <1>1, <1>3, <1>4, <1>7, ParsesBack DEF BlockOf
<1> QED BY <1>2, <1>3, <1>4, <1>6, <1>8

LEMMA CodecInitInv == Init => CodecInv
<1> SUFFICES ASSUME Init PROVE CodecInv
  OBVIOUS
<1>1. /\ work \in Blocks /\ items = ItemsOf(work) /\ added = 0 /\ pc = "build" /\ decoder = None
      /\ buffer = <<>> /\ restarts = <<0>> /\ last_key = <<>> /\ counter = 0
  BY DEF Init
<1>2. ItemsOK(work, items)
  BY <1>1, ItemsGiven
<1>3. Len(items) \in Nat /\ work.interval \in Nat
  BY <1>2, ItemTypes
<1> DEFINE off == [n \in 0..0 |-> 0]
<1>4. off \in [0..0 -> Nat] /\ off[0] = 0
  OBVIOUS
<1> HIDE DEF off
<1>5. Laid(work, items, buffer, off, 0)
  <2>1. buffer \in Seq(Byte) /\ Len(buffer) = 0
    BY <1>1
  <2> QED BY <1>4, <2>1 DEF Laid
<1>6. restarts \in Seq(Nat) /\ Len(restarts) = 1 /\ restarts[1] = 0
  BY <1>1
<1>7. RestartsAt(work, restarts, off, 0)
  <2> SUFFICES ASSUME NEW k \in 1..Len(restarts)
               PROVE  /\ (k - 1) * work.interval \in 0..0
                      /\ restarts[k] = off[(k - 1) * work.interval]
    BY DEF RestartsAt
  <2>1. k = 1 /\ k - 1 = 0
    BY <1>6
  <2>2. 0 * work.interval = 0
    BY <1>3
  <2> QED BY <1>4, <1>6, <2>1, <2>2
<1>8. Built(work, items, 0, buffer, restarts, last_key, last_handle, 0)
  <2>1. RestartCount(work, 0) = 1
    BY DEF RestartCount
  <2> QED BY <1>1, <1>5, <1>6, <1>7, <2>1 DEF Built
<1> QED BY <1>1, <1>3, <1>8 DEF CodecInv, Intact

(* Both add methods.                                                       *)
LEMMA AddKeepsBuilt ==
    ASSUME CodecInv, AddEntry \/ AddIndexEntry
    PROVE  /\ SmallItems(work, items) =>
                  Built(work, items, added + 1, buffer', restarts', last_key', last_handle', counter')
           /\ pc = "build" /\ added < Len(items) /\ added' = added + 1
           /\ UNCHANGED <<work, items, contents, parsed, decoder, pc>>
<1>1. /\ pc = "build" /\ added < Len(items) /\ added' = added + 1
      /\ UNCHANGED <<work, items, contents, parsed, decoder, pc>>
  BY DEF AddEntry, AddIndexEntry, Added
<1> DEFINE it == items[added + 1]
           sh == IF counter >= work.interval THEN 0 ELSE SharedPrefixLen(last_key, it.key)
           prev == CHOOSE h \in last_handle : TRUE
           enc == EncodedAt(work, items, added + 1)
<1>2. ItemsOK(work, items) /\ added \in Nat /\ Len(items) \in Nat
  BY ItemsGiven, ItemTypes DEF CodecInv
<1>3. added \in 0..(Len(items) - 1)
  BY <1>1, <1>2
<1>4. ASSUME SmallItems(work, items)
      PROVE  Built(work, items, added + 1, buffer', restarts', last_key', last_handle', counter')
  <2>1. Built(work, items, added, buffer, restarts, last_key, last_handle, counter)
    BY <1>4 DEF CodecInv
  <2>2. /\ work.kind # "index" => EntryBytes(sh, it.key, it.val) = enc
        /\ work.kind = "index" => IndexEntryBytes(sh, it.key, prev, it.val) = enc
    BY <1>2, <1>3, <2>1, SharedIsRight, SMTT(30)
  <2>3. sh = Shared(it.key)
    BY DEF Shared, AtRestart
  <2> HIDE DEF sh, enc
  <2>4. buffer' = buffer \o enc
    <3>1. CASE AddEntry
      BY <2>2, <2>3, <3>1 DEF AddEntry, Added
    <3>2. CASE AddIndexEntry
      BY <2>2, <2>3, <3>2 DEF AddIndexEntry, Added
    <3> QED BY <3>1, <3>2
  <2>5. /\ restarts' = IF counter >= work.interval THEN Append(restarts, Len(buffer)) ELSE restarts
        /\ last_key' = it.key
        /\ counter' = IF counter >= work.interval THEN 1 ELSE counter + 1
    BY DEF AddEntry, AddIndexEntry, Added, AtRestart
  <2>6. work.kind = "index" => last_handle' = Some(it.val)
    BY DEF AddEntry, AddIndexEntry
  <2>7. Built(work, items, added + 1, buffer \o enc,
              IF counter >= work.interval THEN Append(restarts, Len(buffer)) ELSE restarts,
              it.key, last_handle', IF counter >= work.interval THEN 1 ELSE counter + 1)
    BY <1>2, <1>3, <1>4, <2>1, <2>6, BuiltFurther DEF enc
  <2> HIDE DEF it
  <2> QED BY <2>4, <2>5, <2>7
<1> QED BY <1>1, <1>4

(* Where the reader is, it can go on, and does not fail.                   *)
LEMMA ReaderTurns ==
    ASSUME CodecInv, Intact, FitsU32, NEW n \in 0..Len(items), ReaderAt(n)
    PROVE  \E off :
             LET block == BlockOf(buffer, restarts)
                 d == Reached(work, items, off, 0, n)
             IN  /\ Complete(work, items, buffer, restarts, off)
                 /\ parsed = {block} /\ decoder = {d}
                 /\ Unread(block, d) <=> n # Len(items)
                 /\ n # Len(items) => Decoded(block, d) = {Reached(work, items, off, 0, n + 1)}
<1>1. PICK off : /\ Complete(work, items, buffer, restarts, off)
                 /\ parsed = Some(BlockOf(buffer, restarts))
                 /\ decoder = Some(Reached(work, items, off, 0, n))
  BY DEF ReaderAt
<1>2. ItemsOK(work, items) /\ SmallItems(work, items)
  BY WholeParses
<1>3. 0 % work.interval = 0 /\ n \in 0..Len(items)
  <2>1. work.interval \in Nat /\ work.interval > 0
    BY <1>2, ItemTypes
  <2> QED BY <2>1, Quotient
<1> DEFINE block == BlockOf(buffer, restarts)
           d == Reached(work, items, off, 0, n)
<1>4. /\ Unread(block, d) <=> n # Len(items)
      /\ n # Len(items) =>
             /\ work.kind = "index" => IndexEntryFrom(block, d) = {Reached(work, items, off, 0, n + 1)}
             /\ work.kind # "index" => EntryFrom(block, d) = {Reached(work, items, off, 0, n + 1)}
  BY <1>1, <1>2, <1>3, Turns
<1>5. n # Len(items) => Decoded(block, d) = {Reached(work, items, off, 0, n + 1)}
  BY <1>4 DEF Decoded
<1> QED BY <1>1, <1>4, <1>5 DEF Some

(* The reading steps.                                                      *)
LEMMA ReadKeepsReader ==
    ASSUME CodecInv, Intact, FitsU32,
           Parse \/ ParseFails \/ DecodeEntry \/ DecodeFails \/ DecodeDone \/ UNCHANGED vars,
           pc' \notin {"build", "finished", "cut"}
    PROVE  /\ pc' # "err"
           /\ \E n \in 0..Len(items) :
                  /\ ReaderAt(n)'
                  /\ pc' = "decoded" => n = Len(items)
<1> USE DEF Some, None
<1>1. /\ ParseBlock = {BlockOf(buffer, restarts)} /\ ItemsOK(work, items)
      /\ \E off : Complete(work, items, buffer, restarts, off)
  BY WholeParses
<1>2. Len(items) \in Nat
  BY <1>1, ItemTypes
<1>3. pc \notin {"finished", "cut"} =>
          /\ pc # "err"
          /\ \E n \in 0..Len(items) : ReaderAt(n) /\ (pc = "decoded" => n = Len(items))
  BY DEF CodecInv
<1>4. CASE Parse
  <2>1. PICK off : Complete(work, items, buffer, restarts, off)
    BY <1>1
  <2>2. off[0] = 0 /\ 0 \in 0..Len(items)
    BY <1>2, <2>1 DEF Complete, Laid
  <2>3. StartAt(0) = Reached(work, items, off, 0, 0)
    BY <1>1, <2>2, StartReached
  <2>4. /\ parsed' = {BlockOf(buffer, restarts)} /\ decoder' = {Reached(work, items, off, 0, 0)}
        /\ pc' = "decode" /\ UNCHANGED <<work, items, buffer, restarts>>
    BY <1>1, <1>4, <2>3 DEF Parse, builderVars
  <2>5. ReaderAt(0)'
    BY <2>1, <2>4 DEF ReaderAt
  <2> QED BY <2>2, <2>4, <2>5
<1>5. CASE ParseFails
  BY <1>1, <1>5 DEF ParseFails
<1>6. CASE pc = "decode" /\ (DecodeEntry \/ DecodeFails \/ DecodeDone)
  <2>1. PICK n \in 0..Len(items) : ReaderAt(n)
    BY <1>3, <1>6
  <2> DEFINE block == BlockOf(buffer, restarts)
             at(off, k) == Reached(work, items, off, 0, k)
  <2>2. PICK off : /\ Complete(work, items, buffer, restarts, off)
                   /\ parsed = {block} /\ decoder = {at(off, n)}
                   /\ Unread(block, at(off, n)) <=> n # Len(items)
                   /\ n # Len(items) => Decoded(block, at(off, n)) = {at(off, n + 1)}
    BY <2>1, ReaderTurns, Zenon
  <2> HIDE DEF block, at
  <2>3. CASE DecodeEntry
    <3>1. /\ Unread(block, at(off, n)) /\ (\E next \in Decoded(block, at(off, n)) : decoder' = {next})
          /\ UNCHANGED <<work, items, buffer, restarts, parsed, pc>>
      BY <2>2, <2>3 DEF DecodeEntry, builderVars
    <3>2. decoder' = {at(off, n + 1)} /\ n + 1 \in 0..Len(items)
      BY <1>2, <2>2, <3>1
    <3>3. ReaderAt(n + 1)'
      <4>1. /\ parsed' = {BlockOf(buffer, restarts)}
            /\ decoder' = {Reached(work, items, off, 0, n + 1)}
        BY <2>2, <3>1, <3>2 DEF block, at
      <4> QED BY <2>2, <3>1, <4>1 DEF ReaderAt
    <3> QED BY <1>6, <3>1, <3>2, <3>3
  <2>4. CASE DecodeFails
    <3>1. Unread(block, at(off, n)) /\ Decoded(block, at(off, n)) = {}
      BY <2>2, <2>4 DEF DecodeFails
    <3> QED BY <2>2, <3>1
  <2>5. CASE DecodeDone
    <3>1. /\ ~Unread(block, at(off, n)) /\ pc' = "decoded"
          /\ UNCHANGED <<work, items, buffer, restarts, parsed, decoder>>
      BY <2>2, <2>5 DEF DecodeDone, builderVars
    <3>2. ReaderAt(n)'
      <4>1. /\ parsed = {BlockOf(buffer, restarts)}
            /\ decoder = {Reached(work, items, off, 0, n)}
        BY <2>2 DEF block, at
      <4> QED BY <2>2, <3>1, <4>1 DEF ReaderAt
    <3> QED BY <2>2, <3>1, <3>2
  <2> QED BY <1>6, <2>3, <2>4, <2>5
<1>7. CASE UNCHANGED vars
  <2>1. UNCHANGED <<work, items, buffer, restarts, parsed, decoder, pc>>
    BY <1>7 DEF vars, builderVars
  <2>2. \A n : ReaderAt(n) => ReaderAt(n)'
    BY <2>1 DEF ReaderAt
  <2> QED BY <1>3, <2>1, <2>2
<1> QED BY <1>4, <1>5, <1>6, <1>7 DEF DecodeEntry, DecodeFails, DecodeDone

LEMMA CodecNextInv == CodecInv /\ [Next]_vars => CodecInv'
<1> SUFFICES ASSUME CodecInv, [Next]_vars PROVE CodecInv'
  OBVIOUS
<1>1. /\ work \in Blocks /\ items = ItemsOf(work) /\ added \in 0..Len(items)
      /\ pc \in {"build", "finished", "cut", "decode", "decoded", "err"}
      /\ SmallItems(work, items) =>
             Built(work, items, added, buffer, restarts, last_key, last_handle, counter)
      /\ pc # "build" => added = Len(items)
      /\ pc \in {"build", "finished", "cut"} => decoder = None
  BY DEF CodecInv
<1>2. Len(items) \in Nat
  BY <1>1, ItemsGiven, ItemTypes
<1>3. CASE AddEntry \/ AddIndexEntry
  <2>1. /\ SmallItems(work, items) =>
               Built(work, items, added + 1, buffer', restarts', last_key', last_handle', counter')
        /\ pc = "build" /\ added < Len(items) /\ added' = added + 1
        /\ UNCHANGED <<work, items, contents, parsed, decoder, pc>>
    BY <1>3, AddKeepsBuilt
  <2>2. added' \in 0..Len(items)
    BY <1>1, <1>2, <2>1
  <2> QED BY <1>1, <2>1, <2>2 DEF CodecInv, Intact
<1>4. ASSUME UNCHANGED <<work, items, added, builderVars>>
      PROVE  /\ work' \in Blocks /\ items' = ItemsOf(work') /\ added' \in 0..Len(items')
             /\ SmallItems(work', items') =>
                    Built(work', items', added', buffer', restarts', last_key', last_handle', counter')
             /\ added = Len(items) => added' = Len(items')
             /\ FitsU32' = FitsU32
  BY <1>1, <1>4 DEF builderVars, FitsU32
<1>5. CASE Finish
  <2>1. /\ added = Len(items) /\ pc = "build" /\ pc' = "finished" /\ UNCHANGED decoder
        /\ UNCHANGED <<work, items, added, builderVars>>
    BY <1>5 DEF Finish
  <2> QED BY <1>1, <1>4, <2>1 DEF CodecInv
<1>6. CASE CutShort
  <2>1. /\ pc = "finished" /\ pc' = "cut" /\ UNCHANGED decoder
        /\ UNCHANGED <<work, items, added, builderVars>>
    BY <1>6 DEF CutShort
  <2> QED BY <1>1, <1>4, <2>1 DEF CodecInv
<1>7. CASE Parse \/ ParseFails \/ DecodeEntry \/ DecodeFails \/ DecodeDone
           \/ (UNCHANGED vars /\ pc \notin {"build", "finished", "cut"})
  <2>1. /\ pc # "build" /\ pc' \in {"decode", "decoded", "err"}
        /\ UNCHANGED <<work, items, added, builderVars, contents>>
    BY <1>1, <1>7 DEF Parse, ParseFails, DecodeEntry, DecodeFails, DecodeDone, vars
  <2>2. ASSUME Intact', FitsU32'
        PROVE  /\ pc' # "err"
               /\ \E n \in 0..Len(items') : /\ ReaderAt(n)'
                                            /\ pc' = "decoded" => n = Len(items')
    <3>1. Intact /\ FitsU32
      BY <1>4, <2>1, <2>2 DEF Intact, FinishedBlock, RestartArray, builderVars
    <3>2. /\ pc' # "err"
          /\ \E n \in 0..Len(items) : /\ ReaderAt(n)'
                                      /\ pc' = "decoded" => n = Len(items)
      BY <1>7, <2>1, <3>1, ReadKeepsReader
    <3> QED BY <2>1, <3>2
  <2> QED BY <1>1, <1>4, <2>1, <2>2 DEF CodecInv
<1>8. CASE UNCHANGED vars /\ pc \in {"build", "finished", "cut"}
  BY <1>1, <1>4, <1>8 DEF CodecInv, vars, Intact
<1>9. CASE Terminated
  BY <1>7, <1>9 DEF Terminated
<1> QED BY <1>3, <1>5, <1>6, <1>7, <1>8, <1>9 DEF Next

(* The invariant holds: the builder's fields and bytes are those of the    *)
(* items added so far, and the reader of a whole block stands behind one   *)
(* of them.                                                                *)
LEMMA CodecInvHolds == Spec => []CodecInv
<1> QED BY CodecInitInv, CodecNextInv, PTL DEF Spec

LEMMA WholeSequence ==
    ASSUME NEW b, NEW its, ItemsOK(b, its), NEW n \in 0..Len(its)
    PROVE  Len(SubSeq(its, 1, n)) = n /\ SubSeq(its, 1, Len(its)) = its
<1> DEFINE S == HandlePair \cup BytePair
<1>1. its \in Seq(S) /\ Len(its) \in Nat
  BY ItemTypes
<1> HIDE DEF S
<1>2. Len(SubSeq(its, 1, n)) = n
  BY <1>1
<1> DEFINE t == SubSeq(its, 1, Len(its))
<1>3. t \in Seq(S) /\ Len(t) = Len(its) /\ \A j \in 1..Len(its) : t[j] = its[j]
  BY <1>1
<1> HIDE DEF t
<1>4. t = its
  BY <1>1, <1>3, SeqEqual, SMTT(30)
<1> QED BY <1>2, <1>4 DEF t

(* What the reader of a whole block has read.                              *)
LEMMA ReaderOutput ==
    ASSUME CodecInv, Intact, FitsU32, NEW d \in decoder
    PROVE  /\ d.out = SubSeq(items, 1, Len(d.out))
           /\ pc = "decoded" => d.out = items
           /\ pc \notin {"finished", "cut", "err"}
<1>1. pc \notin {"finished", "cut", "build"}
  BY DEF CodecInv, None, Intact
<1>2. PICK n \in 0..Len(items) : ReaderAt(n) /\ (pc = "decoded" => n = Len(items))
  BY <1>1 DEF CodecInv
<1>3. d.out = SubSeq(items, 1, n)
  <2>1. PICK off : decoder = Some(Reached(work, items, off, 0, n))
    BY <1>2 DEF ReaderAt
  <2>2. d = Reached(work, items, off, 0, n)
    BY <2>1 DEF Some
  <2> QED BY <2>2 DEF Reached
<1>4. ItemsOK(work, items)
  BY WholeParses
<1>5. Len(SubSeq(items, 1, n)) = n /\ SubSeq(items, 1, Len(items)) = items
  BY <1>4, WholeSequence
<1> QED BY <1>1, <1>2, <1>3, <1>5 DEF CodecInv

(* A block that arrives whole reads back as the items that were added,     *)
(* and reading it never fails (ReadsBack), for every block that fits into  *)
(* 32 bits and every restart interval.                                     *)
THEOREM BlocksReadBack == Spec => []ReadsBack
<1>1. CodecInv => ReadsBack
  <2> SUFFICES ASSUME CodecInv, Intact, FitsU32
               PROVE  /\ pc # "err"
                      /\ \A d \in decoder : d.out = SubSeq(items, 1, Len(d.out))
                      /\ pc = "decoded" => \A d \in decoder : d.out = items
    BY DEF ReadsBack
  <2>1. pc # "err"
    BY DEF CodecInv, Intact
  <2> QED BY <2>1, ReaderOutput
<1> QED BY <1>1, CodecInvHolds, PTL
-----------------------------------------------------------------------------
(* Seeking.                                                                *)

(* A decoder started behind item m reads the rest.                         *)
LEMMA WalkReads ==
    ASSUME CodecInv, Intact, FitsU32, NEW off, Complete(work, items, buffer, restarts, off),
           NEW m \in 0..Len(items), m % work.interval = 0
    PROVE  WalkFrom(BlockOf(buffer, restarts), off[m])
               = {Reached(work, items, off, m, Len(items))}
<1> DEFINE L == Len(items)
           block == BlockOf(buffer, restarts)
           At(k) == Reached(work, items, off, m, k)
           to(n) == IF m + n <= L THEN m + n ELSE L
           next(ds) == UNION {IF Unread(block, d) THEN Decoded(block, d) ELSE Some(d) : d \in ds}
           body(f) == [n \in 0..L |-> IF n = 0 THEN Some(StartAt(off[m])) ELSE next(f[n - 1])]
           g == [n \in 0..L |-> {At(to(n))}]
<1>1. ItemsOK(work, items) /\ SmallItems(work, items)
  BY WholeParses
<1>2. L \in Nat /\ m \in Nat /\ m <= L
  BY <1>1, ItemTypes
<1>3. WalkFrom(block, off[m]) = (CHOOSE f : f = body(f))[L]
  BY Zenon DEF WalkFrom
<1>4. ASSUME NEW k \in m..L PROVE next({At(k)}) = {At(IF k = L THEN L ELSE k + 1)}
  <2>1. /\ Unread(block, At(k)) <=> k # L
        /\ k # L => /\ work.kind = "index" => IndexEntryFrom(block, At(k)) = {At(k + 1)}
                    /\ work.kind # "index" => EntryFrom(block, At(k)) = {At(k + 1)}
    BY <1>1, <1>2, Turns
  <2> HIDE DEF At, block
  <2>2. k # L => Decoded(block, At(k)) = {At(k + 1)}
    BY <2>1 DEF Decoded
  <2>3. next({At(k)}) = IF Unread(block, At(k)) THEN Decoded(block, At(k)) ELSE Some(At(k))
    OBVIOUS
  <2> QED BY <2>1, <2>2, <2>3 DEF Some
<1>5. StartAt(off[m]) = At(m)
  BY <1>1, StartReached
<1> HIDE DEF At, block, next, L
<1>6. ASSUME NEW n \in 1..L PROVE next({At(to(n - 1))}) = {At(to(n))}
  <2>1. to(n - 1) \in m..L
    BY <1>2
  <2>2. (IF to(n - 1) = L THEN L ELSE to(n - 1) + 1) = to(n)
    BY <1>2
  <2>3. next({At(to(n - 1))}) = {At(IF to(n - 1) = L THEN L ELSE to(n - 1) + 1)}
    <3> HIDE DEF to
    <3> QED BY <1>4, <2>1
  <2> HIDE DEF to
  <2> QED BY <2>2, <2>3, Zenon
<1>7. to(0) = m /\ to(L) = L
  BY <1>2
<1> HIDE DEF to
<1>8. g = body(g)
  <2>1. ASSUME NEW n \in 0..L PROVE g[n] = body(g)[n]
    <3>1. CASE n = 0
      BY <1>5, <1>7, <3>1 DEF Some
    <3>2. CASE n # 0
      <4>1. n \in 1..L /\ n - 1 \in 0..L
        BY <1>2, <3>2
      <4>2. g[n - 1] = {At(to(n - 1))} /\ g[n] = {At(to(n))}
        BY <4>1
      <4>3. body(g)[n] = next(g[n - 1])
        BY <3>2
      <4> HIDE DEF g, body
      <4> QED BY <1>6, <4>1, <4>2, <4>3
    <3> QED BY <3>1, <3>2
  <2> QED BY <2>1
<1> DEFINE h == CHOOSE f : f = body(f)
<1>9. h = body(h)
  <2> HIDE DEF body, g
  <2> QED BY <1>8, Zenon
<1> HIDE DEF h
<1>10. \A n \in 0..L : h[n] = IF n = 0 THEN Some(StartAt(off[m])) ELSE next(h[n - 1])
  BY <1>9
<1> HIDE DEF body, g
<1>11. \A n \in 0..L : h[n] = {At(to(n))}
  <2> DEFINE T == {n \in Nat : n <= L => h[n] = {At(to(n))}}
  <2>1. 0 \in T
    BY <1>2, <1>5, <1>7, <1>10 DEF Some
  <2>2. ASSUME NEW n \in Nat, n \in T PROVE n + 1 \in T
    <3> SUFFICES ASSUME n + 1 <= L PROVE h[n + 1] = {At(to(n + 1))}
      OBVIOUS
    <3>1. n + 1 \in 1..L /\ n + 1 \in 0..L /\ n + 1 # 0 /\ (n + 1) - 1 = n
      BY <1>2
    <3>2. h[n] = {At(to(n))}
      BY <1>2, <2>2
    <3>3. h[n + 1] = next(h[n])
      BY <1>10, <3>1
    <3>4. next({At(to(n))}) = {At(to(n + 1))}
      BY <1>6, <3>1
    <3> QED BY <3>2, <3>3, <3>4
  <2> HIDE DEF T
  <2>3. \A n \in Nat : n \in T
    BY <2>1, <2>2, SetInduction
  <2> QED BY <1>2, <2>3 DEF T
<1>12. h[L] = {At(L)}
  BY <1>2, <1>7, <1>11
<1> QED BY <1>3, <1>12 DEF h, At, block, L

(* Decoding can start at every restart (SeekFromAnyRestart): there are as  *)
(* many as the interval asks for, each is where the first entry of an      *)
(* interval begins, and from it the rest of the entries reads.             *)
THEOREM BlocksSeekable == Spec => []SeekFromAnyRestart
<1>1. CodecInv => SeekFromAnyRestart
  <2> SUFFICES ASSUME CodecInv, Intact, FitsU32
               PROVE  /\ Len(restarts) = IF items = <<>> THEN 1
                                         ELSE 1 + (Len(items) - 1) \div work.interval
                      /\ ParseBlock # None
                      /\ \A k \in DOMAIN restarts : \A block \in ParseBlock :
                             {d.out : d \in WalkFrom(block, restarts[k])}
                                 = {SubSeq(items, (k - 1) * work.interval + 1, Len(items))}
    BY DEF SeekFromAnyRestart
  <2>1. /\ ItemsOK(work, items) /\ SmallItems(work, items)
        /\ Len(restarts) = RestartCount(work, Len(items)) /\ restarts \in Seq(Nat)
        /\ ParseBlock = {BlockOf(buffer, restarts)}
        /\ \E off : Complete(work, items, buffer, restarts, off)
    BY WholeParses DEF Some
  <2>2. PICK off : Complete(work, items, buffer, restarts, off)
    BY <2>1
  <2>3. items = <<>> <=> Len(items) = 0
    BY <2>1, ItemTypes, EmptySeq
  <2>4. Len(restarts) = IF items = <<>> THEN 1 ELSE 1 + (Len(items) - 1) \div work.interval
    BY <2>1, <2>3 DEF RestartCount
  <2>5. ASSUME NEW k \in DOMAIN restarts
        PROVE  {d.out : d \in WalkFrom(BlockOf(buffer, restarts), restarts[k])}
                   = {SubSeq(items, (k - 1) * work.interval + 1, Len(items))}
    <3> DEFINE m == (k - 1) * work.interval
               r == Reached(work, items, off, m, Len(items))
    <3>1. k \in 1..Len(restarts)
      BY <2>1
    <3>2. m \in 0..Len(items) /\ restarts[k] = off[m] /\ m % work.interval = 0
      BY <2>1, <2>2, <3>1, RestartsOnly DEF Complete, RestartsAt
    <3> HIDE DEF m
    <3>3. WalkFrom(BlockOf(buffer, restarts), restarts[k]) = {r}
      BY <2>2, <3>2, WalkReads
    <3>4. r.out = SubSeq(items, m + 1, Len(items))
      BY DEF Reached
    <3> HIDE DEF r
    <3>5. {d.out : d \in {r}} = {r.out}
      OBVIOUS
    <3>6. {d.out : d \in WalkFrom(BlockOf(buffer, restarts), restarts[k])}
              = {SubSeq(items, m + 1, Len(items))}
      BY <3>3, <3>4, <3>5, Zenon
    <3> QED BY <3>6, Zenon DEF m
  <2> QED BY <2>1, <2>4, <2>5 DEF None
<1> QED BY <1>1, CodecInvHolds, PTL
-----------------------------------------------------------------------------
(* The meta blocks.                                                        *)

(* find_meta_handle finds the one entry of a name.                         *)
LEMMA FindsTheHandle ==
    ASSUME NEW out, NEW n \in DOMAIN out, NEW h \in Handle, DOMAIN out \subseteq Int,
           out[n].val = EncodedHandle(h),
           \A m \in DOMAIN out : out[m].key = out[n].key => m = n
    PROVE  FindMetaHandle(out, out[n].key) = Some(h)
<1> DEFINE matches == {m \in DOMAIN out :
                          out[m].key = out[n].key /\ FullHandleAt(out[m].val, 0) # None}
           r == [handle |-> h, pos |-> 0 + Len(EncodedHandle(h))]
           first == {k \in matches : \A m \in matches : k <= m}
<1>1. EncodedHandle(h) \in Seq(Byte)
  BY HandleType
<1>2. FullHandleAt(out[n].val, 0) = {r}
  BY <1>1, HoldsItself, FullHandleReadsBack
<1>3. r.handle = h
  OBVIOUS
<1> HIDE DEF r
<1>4. matches = {n}
  BY <1>2 DEF None
<1>5. FindMetaHandle(out, out[n].key) =
          {v.handle : v \in UNION {FullHandleAt(out[k].val, 0) : k \in first}}
  BY Zenon DEF FindMetaHandle
<1> HIDE DEF matches
<1>6. first = {n}
  BY <1>4
<1> HIDE DEF first
<1> QED BY <1>2, <1>3, <1>5, <1>6 DEF Some

(* The meta blocks' names ascend, a name leads to its block, and a size    *)
(* reads back as the number it was (MetaBlocksReadBack).                   *)
THEOREM MetaBlocksFound == Spec => []MetaBlocksReadBack
<1>1. CodecInv => MetaBlocksReadBack
  <2> SUFFICES ASSUME CodecInv, pc = "decoded", Intact, FitsU32, NEW d \in decoder
               PROVE  /\ work.kind \in {"metaindex", "properties"} =>
                             \A n \in 1..(Len(d.out) - 1) : NameLess(d.out[n].key, d.out[n + 1].key)
                      /\ work.kind = "metaindex" =>
                             \A p \in ToSet(work.given) : FindMetaHandle(d.out, p.key) = Some(p.val)
                      /\ work.kind = "properties" =>
                             \A p \in {<<KEY_NUM_ENTRIES, work.given.num_entries>>,
                                       <<KEY_DATA_SIZE, work.given.data_size>>,
                                       <<KEY_INDEX_SIZE, work.given.index_size>>,
                                       <<KEY_RAW_KEY_SIZE, work.given.raw_key_size>>,
                                       <<KEY_RAW_VALUE_SIZE, work.given.raw_value_size>>} :
                                 \E n \in DOMAIN d.out :
                                     /\ d.out[n].key = p[1]
                                     /\ p[2] \in {v.val : v \in GetVarint64(d.out[n].val, 0)}
    BY DEF MetaBlocksReadBack
  <2>1. d.out = items
    BY ReaderOutput
  <2>2. work \in Blocks /\ items = ItemsOf(work) /\ GivenOK(work)
    BY BlocksAssumption DEF CodecInv
  <2>3. ItemsOK(work, items) /\ Len(items) \in Nat /\ DOMAIN items = 1..Len(items)
    BY WholeParses, ItemTypes
  <2>4. work.kind \in {"properties", "metaindex"} =>
            /\ \A p \in MetaPairs(work) : \E n \in DOMAIN items : items[n] = p
            /\ \A n, m \in DOMAIN items : n < m => NameLess(items[n].key, items[m].key)
    BY <2>2, ItemsGiven
  <2>5. ASSUME work.kind \in {"metaindex", "properties"}, NEW n \in 1..(Len(items) - 1)
        PROVE  NameLess(items[n].key, items[n + 1].key)
    <3>1. n \in DOMAIN items /\ n + 1 \in DOMAIN items /\ n < n + 1
      BY <2>3
    <3> QED BY <2>4, <2>5, <3>1
  <2>6. ASSUME work.kind = "metaindex", NEW p \in ToSet(work.given)
        PROVE  FindMetaHandle(items, p.key) = Some(p.val)
    <3>1. p \in HandlePair
      BY <2>2, <2>6 DEF GivenOK, ToSet
    <3>2. p.val \in Handle /\ p.key \in Seq(Byte)
      BY <3>1 DEF HandlePair
    <3>3. Property(p.key, EncodedHandle(p.val)) \in MetaPairs(work)
      BY <2>6 DEF MetaPairs, MetaindexPairs
    <3>4. PICK n \in DOMAIN items : items[n] = Property(p.key, EncodedHandle(p.val))
      BY <2>4, <2>6, <3>3
    <3>5. items[n].key = p.key /\ items[n].val = EncodedHandle(p.val)
      BY <3>4 DEF Property
    <3>6. ASSUME NEW m \in DOMAIN items, items[m].key = items[n].key PROVE m = n
      <4>1. ~NameLess(items[m].key, items[n].key) /\ ~NameLess(items[n].key, items[m].key)
        BY <3>2, <3>5, <3>6, NamesOrdered
      <4>2. ~(m < n) /\ ~(n < m)
        BY <2>4, <2>6, <4>1
      <4> QED BY <2>3, <4>2
    <3>7. DOMAIN items \subseteq Int
      BY <2>3
    <3>8. FindMetaHandle(items, items[n].key) = Some(p.val)
      BY <3>2, <3>5, <3>6, <3>7, FindsTheHandle
    <3> QED BY <3>5, <3>8
  <2>7. ASSUME NEW key, NEW v \in U64, work.kind = "properties",
               Property(key, PutVarint64(v)) \in PropertiesPairs(work.given)
        PROVE  \E n \in DOMAIN items : /\ items[n].key = key
                                       /\ v \in {x.val : x \in GetVarint64(items[n].val, 0)}
    <3>1. PICK n \in DOMAIN items : items[n] = Property(key, PutVarint64(v))
      BY <2>4, <2>7 DEF MetaPairs
    <3>2. items[n].key = key /\ items[n].val = PutVarint64(v)
      BY <3>1 DEF Property
    <3> DEFINE x == [val |-> v, pos |-> 0 + Len(PutVarint64(v))]
    <3>3. GetVarint64(items[n].val, 0) = {x}
      <4>1. PutVarint64(v) \in Seq(Byte)
        BY VarintBytes
      <4> QED BY <3>2, <4>1, HoldsItself, VarintReadsBack
    <3>4. x.val = v
      OBVIOUS
    <3> HIDE DEF x
    <3> QED BY <3>2, <3>3, <3>4
  <2>8. ASSUME work.kind = "properties",
               NEW p \in {<<KEY_NUM_ENTRIES, work.given.num_entries>>,
                          <<KEY_DATA_SIZE, work.given.data_size>>,
                          <<KEY_INDEX_SIZE, work.given.index_size>>,
                          <<KEY_RAW_KEY_SIZE, work.given.raw_key_size>>,
                          <<KEY_RAW_VALUE_SIZE, work.given.raw_value_size>>}
        PROVE  \E n \in DOMAIN items :
                   /\ items[n].key = p[1]
                   /\ p[2] \in {v.val : v \in GetVarint64(items[n].val, 0)}
    <3>1. work.given \in PropertiesInput
      BY <2>2, <2>8 DEF GivenOK
    <3>2. /\ work.given.num_entries \in U64 /\ work.given.data_size \in U64
          /\ work.given.index_size \in U64 /\ work.given.raw_key_size \in U64
          /\ work.given.raw_value_size \in U64
      BY <3>1 DEF PropertiesInput
    <3>3. Property(p[1], PutVarint64(p[2])) \in PropertiesPairs(work.given) /\ p[2] \in U64
      BY <2>8, <3>2 DEF PropertiesPairs
    <3> QED BY <2>7, <2>8, <3>3
  <2> QED BY <2>1, <2>5, <2>6, <2>8
<1> QED BY <1>1, CodecInvHolds, PTL
-----------------------------------------------------------------------------
(* ArenaSource's buffer.                                                   *)

(* A span points at the bytes of its own entry, and no sum wraps.          *)
SpanExact(a, span, e) ==
    /\ span.key_len = Len(e.key) /\ Holds(a, span.key_off, e.key)
    /\ span.val_len = Len(e.val) /\ Holds(a, span.val_off, e.val)
    /\ span.key_off + span.key_len < U32Range
    /\ span.val_off + span.val_len < U32Range

(* Every entry that ends below the range has an exact span, however long   *)
(* the arena has become since.                                             *)
SpansExact ==
    \A n \in DOMAIN spans : ends[n] < U32Range => SpanExact(arena, spans[n], input[n])

ArenaInv == ArenaTypeOK /\ SpansExact /\ EntriesBelowRangeReadBack

LEMMA AsU32Type == \A n \in Nat : AsU32(n) \in Nat /\ (n < U32Range => AsU32(n) = n)
  BY ArenaAssumption DEF AsU32

LEMMA SumBounds ==
    \A x, y, z, r \in Nat :
        /\ x + y \in Nat /\ x + y + z \in Nat /\ x <= x + y + z /\ x + y <= x + y + z
        /\ x + y + z < r => x < r /\ y < r /\ z < r /\ x + y < r
  OBVIOUS

(* What a push appends stands behind the old end of the arena, and what    *)
(* was in the arena stays where it was.                                    *)
LEMMA ConcatHolds ==
    ASSUME NEW a \in Seq(Nat), NEW k \in Seq(Nat), NEW v \in Seq(Nat)
    PROVE  /\ a \o k \o v \in Seq(Nat)
           /\ Len(a \o k \o v) = Len(a) + Len(k) + Len(v)
           /\ \A j \in 1..Len(a) : (a \o k \o v)[j] = a[j]
           /\ \A j \in 1..Len(k) : (a \o k \o v)[Len(a) + j] = k[j]
           /\ \A j \in 1..Len(v) : (a \o k \o v)[Len(a) + Len(k) + j] = v[j]
  <1>1. /\ a \o k \in Seq(Nat)
        /\ Len(a \o k) = Len(a) + Len(k)
        /\ \A j \in 1..Len(a) : (a \o k)[j] = a[j]
        /\ \A j \in 1..Len(k) : (a \o k)[Len(a) + j] = k[j]
    OBVIOUS
  <1> DEFINE b == a \o k
  <1>2. /\ b \o v \in Seq(Nat)
        /\ Len(b \o v) = Len(b) + Len(v)
        /\ \A j \in 1..Len(b) : (b \o v)[j] = b[j]
        /\ \A j \in 1..Len(v) : (b \o v)[Len(b) + j] = v[j]
    BY <1>1
  <1>3. QED BY <1>1, <1>2, SMTT(30)

(* A slice at a place that holds s, whose end has not wrapped, succeeds    *)
(* and is s.                                                               *)
LEMMA SliceOfHeld ==
    ASSUME ArenaTypeOK, NEW off \in Nat, NEW s \in Seq(Nat),
           off + Len(s) < U32Range, Holds(arena, off, s)
    PROVE  SliceOK(off, Len(s)) /\ Slice(off, Len(s)) = s
  <1>1. Len(s) \in Nat /\ Len(arena) \in Nat /\ arena \in Seq(Nat)
    BY DEF ArenaTypeOK
  <1>2. SliceEnd(off, Len(s)) = off + Len(s)
    BY <1>1, AsU32Type, ArenaAssumption DEF SliceEnd, Holds
  <1>3. SliceOK(off, Len(s))
    BY <1>1, <1>2, ArenaAssumption DEF SliceOK, Holds
  <1> DEFINE t == SubSeq(arena, off + 1, off + Len(s))
  <1>4. /\ t \in Seq(Nat)
        /\ Len(t) = Len(s)
        /\ \A j \in 1..Len(s) : t[j] = arena[off + j]
    <2>1. /\ off + 1 \in 1..(Len(arena) + 1) /\ off + Len(s) \in off..Len(arena)
          /\ (off + Len(s)) - (off + 1) + 1 = Len(s)
      <3>1. off + Len(s) <= Len(arena)
        BY Zenon DEF Holds
      <3>2. \A n, m \in Nat : off + n <= m =>
                /\ off + 1 \in 1..(m + 1) /\ off + n \in off..m
                /\ (off + n) - (off + 1) + 1 = n
        OBVIOUS
      <3>3. QED BY <1>1, <3>1, <3>2, Zenon
    <2>2. \A j \in 1..Len(s) : (off + 1) + j - 1 = off + j /\ off + j \in 1..Len(arena)
      BY <1>1, <2>1
    <2>3. /\ t \in Seq(Nat) /\ Len(t) = (off + Len(s)) - (off + 1) + 1
          /\ \A j \in 1..Len(s) : t[j] = arena[(off + 1) + j - 1]
      BY <1>1, <2>1, <2>2, SMTT(30)
    <2>4. \A j \in 1..Len(s) : t[j] = arena[off + j]
      BY <2>2, <2>3, Zenon
    <2>5. QED BY <2>1, <2>3, <2>4, Zenon
  <1>5. t = s
    BY <1>4, SeqEqual DEF Holds
  <1>6. QED BY <1>2, <1>3, <1>5 DEF Slice

LEMMA ArenaInitInv == ArenaInit => ArenaInv
  BY ArenaAssumption DEF ArenaInit, ArenaInv, ArenaTypeOK, SpansExact,
                          EntriesBelowRangeReadBack

(* A push leaves the spans before it exact, and its own span is exact.     *)
LEMMA PushExact ==
    ASSUME NEW a \in Seq(Nat), NEW e \in ByteEntry
    PROVE  /\ Len(a \o e.key \o e.val) < U32Range =>
                 SpanExact(a \o e.key \o e.val, SpanOf(Len(a), e), e)
           /\ \A span \in Span, f \in ByteEntry :
                 SpanExact(a, span, f) => SpanExact(a \o e.key \o e.val, span, f)
  <1> DEFINE b == a \o e.key \o e.val
  <1>1. e.key \in Seq(Nat) /\ e.val \in Seq(Nat)
    BY DEF ByteEntry
  <1>2. /\ Len(b) = Len(a) + Len(e.key) + Len(e.val)
        /\ \A j \in 1..Len(a) : b[j] = a[j]
        /\ \A j \in 1..Len(e.key) : b[Len(a) + j] = e.key[j]
        /\ \A j \in 1..Len(e.val) : b[Len(a) + Len(e.key) + j] = e.val[j]
    BY <1>1, ConcatHolds, ZenonT(60)
  <1> HIDE DEF b
  <1>4. Len(a) \in Nat /\ Len(e.key) \in Nat /\ Len(e.val) \in Nat /\ U32Range \in Nat
    BY <1>1, ArenaAssumption
  <1>5. ASSUME Len(b) < U32Range
        PROVE  /\ SpanOf(Len(a), e) = [key_off |-> Len(a), key_len |-> Len(e.key),
                                       val_off |-> Len(a) + Len(e.key), val_len |-> Len(e.val)]
               /\ Len(a) + Len(e.key) < U32Range
               /\ Len(a) + Len(e.key) + Len(e.val) < U32Range
    <2>1. Len(a) + Len(e.key) \in Nat /\ Len(a) + Len(e.key) < U32Range
          /\ Len(a) < U32Range /\ Len(e.key) < U32Range /\ Len(e.val) < U32Range
      <3>1. Len(a) + Len(e.key) + Len(e.val) < U32Range
        BY <1>2, <1>5, Zenon
      <3>2. QED BY <1>4, <3>1, SumBounds
    <2>2. /\ AsU32(Len(a)) = Len(a) /\ AsU32(Len(e.key)) = Len(e.key)
          /\ AsU32(Len(a) + Len(e.key)) = Len(a) + Len(e.key)
          /\ AsU32(Len(e.val)) = Len(e.val)
      BY <1>4, <2>1, AsU32Type
    <2>3. Len(a) + Len(e.key) + Len(e.val) < U32Range
      BY <1>2, <1>5, Zenon
    <2>4. QED BY <2>1, <2>2, <2>3 DEF SpanOf
  <1>6. ASSUME Len(b) < U32Range PROVE SpanExact(b, SpanOf(Len(a), e), e)
    <2>1. Len(a) + Len(e.key) <= Len(b) /\ Len(a) + Len(e.key) + Len(e.val) <= Len(b)
      <3>1. Len(b) = Len(a) + Len(e.key) + Len(e.val)
        BY <1>2
      <3>2. Len(a) + Len(e.key) + Len(e.val) <= Len(a) + Len(e.key) + Len(e.val)
        BY <1>4
      <3>3. Len(a) + Len(e.key) <= Len(a) + Len(e.key) + Len(e.val)
        BY <1>4, SumBounds
      <3>4. QED BY <3>1, <3>2, <3>3, Zenon
    <2>2. Holds(b, Len(a), e.key) /\ Holds(b, Len(a) + Len(e.key), e.val)
      BY <1>2, <2>1, Zenon DEF Holds
    <2>3. PICK span : span = SpanOf(Len(a), e)
      OBVIOUS
    <2>4. /\ span.key_off = Len(a) /\ span.key_len = Len(e.key)
          /\ span.val_off = Len(a) + Len(e.key) /\ span.val_len = Len(e.val)
          /\ Len(a) + Len(e.key) < U32Range /\ Len(a) + Len(e.key) + Len(e.val) < U32Range
      <3>1. /\ span = [key_off |-> Len(a), key_len |-> Len(e.key),
                       val_off |-> Len(a) + Len(e.key), val_len |-> Len(e.val)]
            /\ Len(a) + Len(e.key) < U32Range /\ Len(a) + Len(e.key) + Len(e.val) < U32Range
        BY <1>5, <1>6, <2>3, Zenon
      <3>2. QED BY <3>1
    <2>5. QED BY <2>2, <2>3, <2>4, Zenon DEF SpanExact
  <1>7. ASSUME NEW span \in Span, NEW f \in ByteEntry, SpanExact(a, span, f)
        PROVE  SpanExact(b, span, f)
    <2>1. /\ span.key_off \in Nat /\ span.val_off \in Nat
          /\ f.key \in Seq(Nat) /\ f.val \in Seq(Nat)
      BY DEF Span, ByteEntry
    <2>2. \A off \in Nat, t \in Seq(Nat) : Holds(a, off, t) => Holds(b, off, t)
      <3> SUFFICES ASSUME NEW off \in Nat, NEW t \in Seq(Nat), Holds(a, off, t)
                   PROVE  Holds(b, off, t)
        OBVIOUS
      <3>1. Len(t) \in Nat /\ off + Len(t) <= Len(a)
        BY DEF Holds
      <3>2. off + Len(t) <= Len(b)
        <4>1. Len(a) <= Len(b) /\ Len(b) \in Nat
          <5>1. Len(b) = Len(a) + Len(e.key) + Len(e.val)
            BY <1>2, Zenon
          <5>2. Len(a) <= Len(a) + Len(e.key) + Len(e.val)
                /\ Len(a) + Len(e.key) + Len(e.val) \in Nat
            BY <1>4, SumBounds
          <5>3. QED BY <5>1, <5>2, Zenon
        <4>2. QED BY <1>4, <3>1, <4>1
      <3>3. ASSUME NEW j \in 1..Len(t) PROVE b[off + j] = t[j]
        <4>1. off + j \in 1..Len(a)
          BY <1>4, <3>1
        <4>2. QED BY <1>2, <4>1 DEF Holds
      <3>4. QED BY <3>2, <3>3 DEF Holds
    <2>3. QED BY <1>7, <2>1, <2>2 DEF SpanExact
  <1>8. QED BY <1>6, <1>7 DEF b

LEMMA PushInv == ArenaInv /\ Push => ArenaInv'
  <1> SUFFICES ASSUME ArenaInv, Push PROVE ArenaInv'
    OBVIOUS
  <1>0. /\ arena \in Seq(Nat) /\ spans \in Seq(Span) /\ input' = input
        /\ Len(spans) < Len(input) /\ input \in Seq(ByteEntry)
        /\ ends \in Seq(Nat) /\ Len(ends) = Len(spans)
    BY DEF ArenaInv, ArenaTypeOK, Push
  <1>1. PICK e \in ByteEntry : e = input[Len(spans) + 1]
    BY <1>0
  <1>2. e.key \in Seq(Nat) /\ e.val \in Seq(Nat)
    BY DEF ByteEntry
  <1>3. PICK s : s = SpanOf(Len(arena), e)
    OBVIOUS
  <1>4. s \in Span
    <2>1. /\ Len(arena) \in Nat /\ Len(e.key) \in Nat /\ Len(e.val) \in Nat
          /\ Len(arena) + Len(e.key) \in Nat
      BY <1>0, <1>2
    <2>2. QED BY <1>3, <2>1, AsU32Type DEF SpanOf, Span
  <1>5. arena' = arena \o e.key \o e.val /\ spans' = Append(spans, s)
    BY <1>1, <1>3 DEF Push
  <1>6. arena' \in Seq(Nat) /\ Len(arena') = Len(arena) + Len(e.key) + Len(e.val)
    BY <1>0, <1>2, <1>5, ConcatHolds
  <1>7. /\ spans' \in Seq(Span) /\ Len(spans') = Len(spans) + 1
        /\ DOMAIN spans' = 1..(Len(spans) + 1)
        /\ \A n \in DOMAIN spans : spans'[n] = spans[n]
        /\ spans'[Len(spans) + 1] = s
    BY <1>0, <1>4, <1>5
  <1>8. /\ ends' \in Seq(Nat) /\ Len(ends') = Len(spans')
        /\ \A n \in DOMAIN ends : ends'[n] = ends[n]
        /\ ends'[Len(spans) + 1] = Len(arena')
        /\ DOMAIN ends = DOMAIN spans
    <2>1. ends' = Append(ends, Len(arena')) /\ Len(arena') \in Nat
      <3>1. ends' = Append(ends, Len(arena'))
        BY DEF Push
      <3>2. Len(arena') \in Nat
        <4>1. arena' \in Seq(Nat)
          BY <1>6
        <4>2. QED BY <4>1
      <3>3. QED BY <3>1, <3>2
    <2>2. QED BY <1>0, <1>7, <2>1
  <1>9. ArenaTypeOK'
    <2>1. UNCHANGED <<input, checked, pos, end, read, phase>> /\ Len(spans') <= Len(input')
      BY <1>0, <1>7 DEF Push
    <2>2. end' \in 0..Len(spans')
      BY <1>0, <1>7, <2>1 DEF ArenaInv, ArenaTypeOK
    <2>3. /\ input' \in Seq(ByteEntry) /\ checked' \in BOOLEAN
          /\ pos' \in Nat /\ pos' <= end' /\ read' \in Seq(ByteEntry) /\ Len(read') <= pos'
          /\ phase' \in {"build", "read", "done", "panic"}
      BY <2>1 DEF ArenaInv, ArenaTypeOK
    <2>4. QED BY <1>6, <1>7, <1>8, <2>1, <2>2, <2>3 DEF ArenaTypeOK
  <1>10. SpansExact'
    <2> SUFFICES ASSUME NEW n \in DOMAIN spans', ends'[n] < U32Range
                 PROVE  SpanExact(arena', spans'[n], input'[n])
      BY DEF SpansExact
    <2>1. /\ Len(arena') < U32Range => SpanExact(arena', s, e)
          /\ \A span \in Span, f \in ByteEntry :
                 SpanExact(arena, span, f) => SpanExact(arena', span, f)
      BY <1>0, <1>3, <1>5, PushExact
    <2>2. CASE n = Len(spans) + 1
      BY <1>0, <1>1, <1>7, <1>8, <2>1, <2>2
    <2>3. CASE n \in DOMAIN spans
      <3>1. ends[n] < U32Range
        BY <1>8, <2>3
      <3>2. SpanExact(arena, spans[n], input[n])
        BY <2>3, <3>1 DEF ArenaInv, SpansExact
      <3>3. spans[n] \in Span /\ input[n] \in ByteEntry
        BY <1>0, <2>3
      <3>4. QED BY <1>0, <1>7, <2>1, <2>3, <3>2, <3>3
    <2>4. n = Len(spans) + 1 \/ n \in DOMAIN spans
      BY <1>0, <1>7
    <2>5. QED BY <2>2, <2>3, <2>4
  <1>11. EntriesBelowRangeReadBack'
    <2>1. read' = read /\ pos' = pos /\ phase = "build" /\ phase' = phase /\ input' = input
      BY DEF Push
    <2>2. ASSUME NEW n \in DOMAIN read
          PROVE  pos - Len(read) + n \in DOMAIN ends
      BY <1>0 DEF ArenaInv, ArenaTypeOK
    <2>3. ASSUME NEW n \in DOMAIN read, ends'[pos - Len(read) + n] < U32Range
          PROVE  read[n] = input[pos - Len(read) + n]
      BY <1>8, <2>2, <2>3 DEF ArenaInv, EntriesBelowRangeReadBack
    <2>4. QED BY <2>1, <2>3 DEF EntriesBelowRangeReadBack
  <1>12. QED BY <1>9, <1>10, <1>11 DEF ArenaInv

(* The span of an entry that ends below the range can be read and gives    *)
(* that entry.                                                             *)
LEMMA FrontIsOwnEntry ==
    ASSUME ArenaInv, NEW n \in DOMAIN spans, ends[n] < U32Range
    PROVE  SpanOK(spans[n]) /\ EntryAt(spans[n]) = input[n]
  <1>1. /\ spans[n] \in Span /\ input[n] \in ByteEntry
    BY DEF ArenaInv, ArenaTypeOK
  <1>2. SpanExact(arena, spans[n], input[n])
    BY DEF ArenaInv, SpansExact
  <1>3. /\ SliceOK(spans[n].key_off, spans[n].key_len)
        /\ Slice(spans[n].key_off, spans[n].key_len) = input[n].key
    BY <1>1, <1>2, SliceOfHeld DEF ArenaInv, SpanExact, Span, ByteEntry
  <1>4. /\ SliceOK(spans[n].val_off, spans[n].val_len)
        /\ Slice(spans[n].val_off, spans[n].val_len) = input[n].val
    BY <1>1, <1>2, SliceOfHeld DEF ArenaInv, SpanExact, Span, ByteEntry
  <1>5. QED
    BY <1>1, <1>3, <1>4 DEF SpanOK, EntryAt, ByteEntry

LEMMA ReadInv == ArenaInv /\ Read => ArenaInv'
  <1> SUFFICES ASSUME ArenaInv, Read PROVE ArenaInv'
    OBVIOUS
  <1>1. pos + 1 \in DOMAIN spans /\ pos \in Nat /\ read \in Seq(ByteEntry)
        /\ Len(read) <= pos /\ spans[pos + 1] \in Span /\ arena \in Seq(Nat)
    BY DEF ArenaInv, ArenaTypeOK, Read, HasFront
  <1>2. EntryAt(spans[pos + 1]) \in ByteEntry
    <2>1. ASSUME NEW off \in Nat, NEW len \in Nat, SliceOK(off, len)
          PROVE  Slice(off, len) \in Seq(Nat)
      <3>1. SliceEnd(off, len) \in Nat
        BY AsU32Type DEF SliceEnd
      <3>2. QED BY <1>1, <2>1, <3>1 DEF Slice, SliceOK
    <2>2. QED
      BY <1>1, <2>1 DEF Read, SpanOK, EntryAt, ByteEntry, Span
  <1>3. ArenaTypeOK'
    BY <1>1, <1>2 DEF ArenaInv, ArenaTypeOK, Read, HasFront
  <1>4. SpansExact'
    BY DEF ArenaInv, Read, SpansExact
  <1>5. EntriesBelowRangeReadBack'
    <2>1. ends[pos + 1] < U32Range => EntryAt(spans[pos + 1]) = input[pos + 1]
      BY <1>1, FrontIsOwnEntry
    <2>2. /\ read' = Append(read, EntryAt(spans[pos + 1])) /\ pos' = pos + 1
          /\ input' = input /\ ends' = ends /\ phase' = "read"
      BY DEF Read
    <2>3. /\ Len(read') = Len(read) + 1 /\ DOMAIN read' = 1..(Len(read) + 1)
          /\ \A n \in DOMAIN read : read'[n] = read[n]
          /\ read'[Len(read) + 1] = EntryAt(spans[pos + 1])
          /\ DOMAIN read = 1..Len(read) /\ Len(read) \in Nat
      BY <1>1, <1>2, <2>2
    <2>4. ASSUME NEW n \in DOMAIN read', ends[pos' - Len(read') + n] < U32Range
          PROVE  read'[n] = input[pos' - Len(read') + n]
      <3>1. pos' - Len(read') = pos - Len(read)
        BY <1>1, <2>2, <2>3
      <3>2. CASE n \in DOMAIN read
        BY <2>3, <2>4, <3>1, <3>2 DEF ArenaInv, EntriesBelowRangeReadBack
      <3>3. CASE n = Len(read) + 1
        <4>1. pos - Len(read) + n = pos + 1
          BY <1>1, <2>3, <3>3
        <4> QED BY <2>1, <2>3, <2>4, <3>1, <3>3, <4>1
      <3> QED BY <2>3, <3>2, <3>3
    <2>5. QED BY <2>2, <2>4 DEF EntriesBelowRangeReadBack
  <1>6. QED BY <1>3, <1>4, <1>5 DEF ArenaInv

(* A panic needs an entry that ends at the range or beyond it.             *)
LEMMA ReadPanicsInv == ArenaInv /\ ReadPanics => ArenaInv'
  <1> SUFFICES ASSUME ArenaInv, ReadPanics PROVE ArenaInv'
    OBVIOUS
  <1>1. pos + 1 \in DOMAIN spans
    BY DEF ArenaInv, ArenaTypeOK, ReadPanics, HasFront
  <1>2. ~(ends[pos + 1] < U32Range) /\ ends[pos + 1] \in Nat
    <2>1. ends[pos + 1] \in Nat
      BY <1>1 DEF ArenaInv, ArenaTypeOK
    <2>2. ~(ends[pos + 1] < U32Range)
      BY <1>1, FrontIsOwnEntry DEF ReadPanics
    <2>3. QED BY <2>1, <2>2
  <1>3. ArenaTypeOK' /\ SpansExact'
    BY DEF ArenaInv, ArenaTypeOK, ReadPanics, SpansExact
  <1>4. EntriesBelowRangeReadBack'
    BY <1>2, ArenaAssumption DEF ReadPanics, ArenaInv, EntriesBelowRangeReadBack
  <1>5. QED BY <1>3, <1>4 DEF ArenaInv

LEMMA ArenaNextInv == ArenaInv /\ [ArenaNext]_arenaVars => ArenaInv'
  <1> SUFFICES ASSUME ArenaInv, [ArenaNext]_arenaVars PROVE ArenaInv'
    OBVIOUS
  <1>1. CASE Push BY <1>1, PushInv
  <1>2. CASE Read BY <1>2, ReadInv
  <1>3. CASE ReadPanics BY <1>3, ReadPanicsInv
  <1>4. CASE Build
    BY <1>4 DEF Build, ArenaInv, ArenaTypeOK, SpansExact,
                EntriesBelowRangeReadBack
  <1>5. ASSUME NEW start \in 0..Len(spans), NEW end_idx \in 0..Len(spans),
               Shard(start, end_idx)
        PROVE  ArenaInv'
    BY <1>5 DEF Shard, ArenaInv, ArenaTypeOK, SpansExact,
                EntriesBelowRangeReadBack
  <1>6. CASE ReadDone
    BY <1>6 DEF ReadDone, ArenaInv, ArenaTypeOK, SpansExact,
                EntriesBelowRangeReadBack
  <1>7. CASE UNCHANGED arenaVars
    BY <1>7 DEF arenaVars, ArenaInv, ArenaTypeOK, SpansExact,
                EntriesBelowRangeReadBack
  <1>8. QED
    BY <1>1, <1>2, <1>3, <1>4, <1>5, <1>6, <1>7 DEF ArenaNext, ArenaDone

LEMMA ArenaInvHolds == ArenaSpec => []ArenaInv
  BY ArenaInitInv, ArenaNextInv, PTL DEF ArenaSpec

(* Arenas, spans, windows and reads stay what source.rs declares them.     *)
THEOREM ArenaTypeCorrect == ArenaSpec => []ArenaTypeOK
  BY ArenaInvHolds, PTL DEF ArenaInv

(* ArenaSource gives back every entry that ends below the range of its     *)
(* offsets, in an arena of any length and through every window, and panics *)
(* only on others: for any entries, any range and both kinds of build.     *)
THEOREM ArenaReadsBack == ArenaSpec => []EntriesBelowRangeReadBack
  BY ArenaInvHolds, PTL DEF ArenaInv
=============================================================================
