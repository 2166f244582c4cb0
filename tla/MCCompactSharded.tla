---- MODULE MCCompactSharded ----
EXTENDS CompactSharded, MergeInputs

ShardPool == {
    MakeEntry(1, 2, TypeValue, 12), MakeEntry(1, 1, TypeValue, 11),
    MakeEntry(2, 2, TypeDeletion, 0), MakeEntry(2, 1, TypeValue, 21),
    MakeEntry(3, 1, TypeValue, 31)}

(* Every way to put each entry into the first source, the second, or       *)
(* neither; no source at all; two sources that share a key.                *)
Hand(deal, i) == SetToSortSeq({e \in ShardPool : deal[e] = i}, Less)
ShardInputs ==
    {<<Hand(deal, 1), Hand(deal, 2)>> : deal \in [ShardPool -> 0..2]}
        \cup {<<>>, << <<MakeEntry(1, 2, TypeValue, 1), MakeEntry(1, 1, TypeValue, 2)>>,
                       <<MakeEntry(1, 2, TypeValue, 3), MakeEntry(2, 1, TypeValue, 4)>> >>}
====
