------------------------------- MODULE Varint -------------------------------
(***************************************************************************)
(* The integer encodings of the table format (format/varint.rs, and the    *)
(* zigzag pair of block_builder.rs and block.rs), at any group size and    *)
(* width.  Positions count bytes from 0, as the code's do.                 *)
(***************************************************************************)
EXTENDS Integers, SequencesExt

CONSTANTS
    Group,         \* values of a varint byte's payload, and the continuation
                   \* bit (0x80)
    Limit64,       \* values of a u64 (2^64)
    Limit32,       \* values of a u32 (2^32)
    MaxVarintLen,  \* bytes get_varint64 takes before shift >= 64 (10)
    FixedLen       \* bytes of a fixed32 (4)

ByteLimit == 2 * Group
Byte == 0..(ByteLimit - 1)

(* What is left of v when its lowest n digits are shifted out.             *)
Shifted(v, base, len) ==
    LET rest[n \in 0..len] == IF n = 0 THEN v ELSE rest[n - 1] \div base
    IN  rest

(* The number with the digits s, the lowest first.                         *)
FromDigits(s, base) ==
    LET value[k \in 0..Len(s)] ==
            IF k = 0 THEN 0 ELSE s[Len(s) - k + 1] + base * value[k - 1]
    IN  value[Len(s)]

(* The lengths are enough for the widths.                                  *)
ASSUME VarintAssumption ==
    /\ Group \in Nat /\ Group >= 2
    /\ Limit32 \in Nat /\ Limit32 >= 2 /\ Limit64 \in Nat /\ Limit64 >= Limit32
    /\ MaxVarintLen \in Nat /\ FixedLen \in Nat \ {0}
    /\ Shifted(Limit64 - 1, Group, MaxVarintLen)[MaxVarintLen] = 0
    /\ Shifted(Limit32 - 1, ByteLimit, FixedLen)[FixedLen] = 0

(* put_varint64: a byte for every seven bits, until what is left fits.     *)
VarintLen(v) ==
    CHOOSE n \in 1..MaxVarintLen :
        \A m \in 1..n : Shifted(v, Group, MaxVarintLen)[m] = 0 <=> m = n

PutVarint64(v) ==
    [n \in 1..VarintLen(v) |->
        LET rest == Shifted(v, Group, MaxVarintLen)[n - 1]
        IN  IF rest < Group THEN rest ELSE (rest % Group) + Group]

(* put_varint32, of a length cast to u32.                                  *)
PutVarint32(v) == PutVarint64(v % Limit32)

(* An Option is a set with at most one member.                             *)
None == {}
Some(x) == {x}

(* get_varint64: the bytes up to the first without the continuation bit,   *)
(* as long as their shift stays below the width; bits shifted out of the   *)
(* last group are lost.  With the value comes the position behind it.      *)
GetVarint64(buf, at) ==
    {[val |-> FromDigits([m \in 1..n |-> buf[at + m] % Group], Group) % Limit64,
      pos |-> at + n] :
        n \in {k \in 1..MaxVarintLen :
                  /\ at + k <= Len(buf)
                  /\ \A m \in 1..k : buf[at + m] < Group <=> m = k}}

GetVarint32(buf, at) == {got \in GetVarint64(buf, at) : got.val < Limit32}

(* put_varsigned64 and get_varsigned64.                                    *)
Zigzag(v) == IF v >= 0 THEN 2 * v ELSE -2 * v - 1
Unzigzag(u) == IF u % 2 = 0 THEN u \div 2 ELSE -(u \div 2) - 1

PutVarsigned64(v) == PutVarint64(Zigzag(v))

GetVarsigned64(buf, at) ==
    {[val |-> Unzigzag(got.val), pos |-> got.pos] : got \in GetVarint64(buf, at)}

(* to_le_bytes, which cuts a number too large off, and from_le_bytes.      *)
ToLeBytes(v, len) ==
    [n \in 1..len |-> Shifted(v, ByteLimit, len)[n - 1] % ByteLimit]

FromLeBytes(s) == FromDigits(s, ByteLimit)
=============================================================================
