------------------------------ MODULE ByteKeys ------------------------------
(***************************************************************************)
(* Keys as the bytes they are (format/internal_key.rs, merge/cmp.rs):      *)
(* splitting off the little-endian suffix, the two comparators, and the    *)
(* big-endian prefix of the mergers' fast path.  InternalKeys takes user   *)
(* keys for numbers and the suffix for one number; this module has the     *)
(* byte strings, of any length, that stand behind them.                    *)
(***************************************************************************)
EXTENDS InternalKeys, SequencesExt

CONSTANTS
    Base,            \* values of a byte (256)
    SuffixLen,       \* NUM_INTERNAL_BYTES and SUFFIX_LEN (8)
    PrefixLen,       \* bytes load_be_prefix takes (8)
    MaxUserKeyLen    \* bound: no user key is longer

ASSUME BytesAssumption ==
    /\ Base \in 2..256 /\ SuffixLen \in Nat \ {0}
    /\ PrefixLen \in Nat /\ MaxUserKeyLen \in Nat

(* The number whose digits s holds, most significant first: digit by       *)
(* digit, and as a whole.                                                  *)
ValueUpTo(s, base) ==
    LET value[n \in 0..Len(s)] == IF n = 0 THEN 0 ELSE value[n - 1] * base + s[n]
    IN  value
ValueOf(s, base) == ValueUpTo(s, base)[Len(s)]

(* u64::from_be_bytes and u64::from_le_bytes.                              *)
FromBeBytes(s) == ValueOf(s, Base)
FromLeBytes(s) == FromBeBytes(Reverse(s))

(* u64::to_le_bytes, of a number that fits in len bytes: its lowest byte,  *)
(* and then what is left of it when it is shifted out.                     *)
Shifted(v, len) ==
    LET rest[n \in 0..len] == IF n = 0 THEN v ELSE rest[n - 1] \div Base
    IN  rest
ToLeBytes(v, len) == [n \in 1..len |-> Shifted(v, len)[n - 1] % Base]

(* make_internal_key (fuzzer, and the tests): seq << 8 | type behind the   *)
(* user key.                                                               *)
MakeInternalKey(user_key, seq, type) ==
    user_key \o ToLeBytes(seq * Base + type, SuffixLen)

(* internal_key::split is Ok.                                              *)
HasSuffix(key) == Len(key) >= SuffixLen

Packed(key) == FromLeBytes(SubSeq(key, Len(key) - SuffixLen + 1, Len(key)))

UserKey(key) == SubSeq(key, 1, Len(key) - SuffixLen)

(* zero_out_seqno (sst_builder.rs) on bytes: the type byte alone, as eight *)
(* little-endian bytes.                                                    *)
ZeroOutSeqnoBytes(key) ==
    UserKey(key) \o ToLeBytes(Packed(key) % Base, SuffixLen)

(* <[u8] as Ord>::cmp is Less: memcmp, and a proper prefix is less.        *)
MemLess(a, b) ==
    \E n \in DOMAIN b :
        /\ \A m \in 1..(n - 1) : m \in DOMAIN a /\ a[m] = b[m]
        /\ n \in DOMAIN a => a[n] < b[n]

(* Mutant: the suffixes are compared with memcmp.                          *)
CompareLessMemcmp(a, b) ==
    \/ MemLess(UserKey(a), UserKey(b))
    \/ UserKey(a) = UserKey(b) /\ MemLess(b, a)

(* InternalKeyComparator::compare is Less; it splits both keys first.      *)
CompareLess(a, b) ==
    \/ MemLess(UserKey(a), UserKey(b))
    \/ UserKey(a) = UserKey(b) /\ Packed(a) > Packed(b)

(* compare_user_keys is Less.                                              *)
CompareUserKeysLess(a, b) == MemLess(UserKey(a), UserKey(b))

(* Mutant, then the original: zeros in front instead of behind.            *)
LoadBePrefixRightAligned(key) ==
    FromBeBytes(SubSeq(key, 1, IF Len(key) < PrefixLen THEN Len(key) ELSE PrefixLen))

(* load_be_prefix: the leading bytes, with zeros behind a shorter key.     *)
Padded(key) == [n \in 1..PrefixLen |-> IF n \in DOMAIN key THEN key[n] ELSE 0]
LoadBePrefix(key) == FromBeBytes(Padded(key))

(* compare_with_prefix of BytewiseComparator, as it would be with          *)
(* HAS_SORT_PREFIX, is Less: prefixes settle it unless they are equal.  No *)
(* comparator sets that constant yet, so every merge compares whole keys.  *)
ComparePrefixLess(a, b) ==
    \/ LoadBePrefix(a) < LoadBePrefix(b)
    \/ LoadBePrefix(a) = LoadBePrefix(b) /\ MemLess(a, b)

(* The entry of InternalKeys a raw key and value stand for.  A user key    *)
(* becomes the number whose digits, one to Base, are its bytes plus one.   *)
RankDigits(user_key) ==
    [n \in 1..MaxUserKeyLen |-> IF n \in DOMAIN user_key THEN user_key[n] + 1 ELSE 0]
Rank(user_key) == ValueOf(RankDigits(user_key), Base + 1)

EntryOf(raw) ==
    [uk |-> Rank(UserKey(raw.key)),
     packed |-> Pack(Packed(raw.key) \div Base, Packed(raw.key) % Base),
     val |-> raw.val]
=============================================================================
