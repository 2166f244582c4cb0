---- MODULE MCCompaction ----
EXTENDS CompactionClaims, MergeInputs

CONSTANT Versions    \* the entries the two sources are filled from

(* Four versions of key 1, two of them with one sequence number, and a     *)
(* tombstone over a value of key 2.                                        *)
SixVersions == {
    MakeEntry(1, 3, TypeValue, 13), MakeEntry(1, 2, TypeSingleDeletion, 0),
    MakeEntry(1, 2, TypeValue, 12), MakeEntry(1, 1, TypeBlobIndex, 11),
    MakeEntry(2, 2, TypeDeletion, 0), MakeEntry(2, 1, TypeValue, 21)}

(* Two sources with the same key and different values.                     *)
EqualKeys == {
    << <<MakeEntry(1, 2, TypeValue, 1), MakeEntry(2, 1, TypeValue, 3)>>,
       <<MakeEntry(1, 2, TypeValue, 2), MakeEntry(1, 1, TypeValue, 4)>> >>}

(* Keys beside one with a merge operand, and beside a range deletion.      *)
OtherTypes == {
    << <<MakeEntry(1, 2, TypeMerge, 12), MakeEntry(2, 2, TypeDeletion, 0)>>,
       <<MakeEntry(1, 1, TypeValue, 11), MakeEntry(2, 1, TypeValue, 21),
         MakeEntry(3, 1, TypeValue, 31)>> >>,
    << <<MakeEntry(1, 2, TypeRangeDeletion, 3), MakeEntry(2, 3, TypeValue, 23)>>,
       <<MakeEntry(2, 1, TypeValue, 21)>> >>}

(* Key 1 is a merge operand over a base value.                             *)
MergeOperands == {
    MakeEntry(1, 2, TypeMerge, 12), MakeEntry(1, 1, TypeValue, 11),
    MakeEntry(2, 1, TypeValue, 21)}

(* Every way to put each version into the first source, the second, or     *)
(* neither.                                                                *)
Dealt == [Versions -> 0..2]
Hand(deal, i) == SetToSortSeq({e \in Versions : deal[e] = i}, Less)
TwoSources == {<<Hand(deal, 1), Hand(deal, 2)>> : deal \in Dealt}

(* Those, the tie of equal keys, other types, and what the fuzzer makes.   *)
AllInputs == TwoSources \cup EqualKeys \cup OtherTypes \cup TrialInputs

AllStrategies ==
    {BottommostStrategy, PassthroughStrategy}
        \cup {SnapshotAwareStrategy(s) : s \in 0..MaxSeqno}
OnlyBottommost == {BottommostStrategy}
OnlySnapshotAware == {SnapshotAwareStrategy(s) : s \in 0..MaxSeqno}

BothModes == BOOLEAN
Internal == {FALSE}
====
