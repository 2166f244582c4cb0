---- MODULE MCRawCompaction ----
EXTENDS RawCompaction

RawEntryOf(user_key, seq, type, val) ==
    [key |-> MakeInternalKey(user_key, seq, type), val |-> val]

(* User keys of which one is a prefix of another, one of them empty; the   *)
(* newer version of <<1>> has the smaller first suffix byte.               *)
RawPool == {
    RawEntryOf(<<1>>, 2, TypeDeletion, 1), RawEntryOf(<<1>>, 1, TypeValue, 2),
    RawEntryOf(<<1, 0>>, 2, TypeValue, 3), RawEntryOf(<<1, 0>>, 1, TypeDeletion, 4),
    RawEntryOf(<<2>>, 1, TypeValue, 5), RawEntryOf(<<>>, 1, TypeValue, 6)}

ShortEntries == {[key |-> <<>>, val |-> 7], [key |-> <<1>>, val |-> 8]}

Hand(deal, i) ==
    SetToSortSeq({e \in RawPool : deal[e] = i},
                 LAMBDA a, b : CompareLess(a.key, b.key))

Dealt == {<<Hand(deal, 1), Hand(deal, 2)>> : deal \in [RawPool -> 0..2]}

(* The sorted sources, and the same with one short key put in anywhere.    *)
SourcesWithShortKey ==
    Dealt \cup UNION {UNION {UNION {
        {[input EXCEPT ![i] = InsertAt(@, p, e)] : e \in ShortEntries}
        : p \in 1..(Len(input[i]) + 1)} : i \in 1..2} : input \in Dealt}
====
