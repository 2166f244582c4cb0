---------------------------- MODULE InternalKeys ----------------------------
(***************************************************************************)
(* Internal keys and their order (format/internal_key.rs, merge/cmp.rs).   *)
(*                                                                         *)
(* An internal key is a user key followed by eight bytes holding           *)
(* (seq << 8) | type as a little-endian u64.  The user key is a natural    *)
(* number: the code only ever compares user keys, and byte strings under   *)
(* memcmp are a total order.  The packed word stays one number, and the    *)
(* sequence and the type are taken out of it as the code does.  Every key  *)
(* here has its suffix; ByteKeys has the bytes, and keys without one.      *)
(***************************************************************************)
EXTENDS Integers, Sequences

(* One (key, value) pair of a source, of the merge or of an output.  The   *)
(* value is a token: no code of the repository looks inside it.            *)
Entry == [uk : Nat, packed : Nat, val : Nat]

(* ValueType::from_byte: the type bytes the code tells apart.              *)
TypeDeletion == 0
TypeValue == 1
TypeMerge == 2
TypeSingleDeletion == 7
TypeRangeDeletion == 15
TypeBlobIndex == 17

Pack(seq, type) == seq * 256 + type

(* split: sequence = packed >> 8, type = packed & 0xff.                    *)
Seqno(e) == e.packed \div 256
TypeByte(e) == e.packed % 256
IsTombstone(e) == TypeByte(e) \in {TypeDeletion, TypeSingleDeletion}

(* InternalKeyComparator::compare is Less: user keys ascending and, for    *)
(* one user key, the higher packed word (the newer version) first.         *)
Less(a, b) == \/ a.uk < b.uk
              \/ a.uk = b.uk /\ a.packed > b.packed

(* compare_user_keys is Less: the suffix is ignored.                       *)
UserLess(a, b) == a.uk < b.uk

(* "Each already sorted": what every MergeSource requires of its entries.  *)
(* Equal keys may stand next to each other.                                *)
Ascending(s) == \A i, j \in DOMAIN s : i < j => ~Less(s[j], s[i])

(* What BlockBuilder::add requires of the keys it is given.                *)
StrictlyAscending(s) == \A i, j \in DOMAIN s : i < j => Less(s[i], s[j])

Source == {s \in Seq(Entry) : Ascending(s)}

(* Mutant: the whole packed word is cleared.                               *)
ZeroOutSeqnoAndType(e) == [e EXCEPT !.packed = 0]

(* zero_out_seqno (sst_builder.rs): sequence 0, the same type byte.        *)
ZeroOutSeqno(e) == [e EXCEPT !.packed = TypeByte(e)]
=============================================================================
