---------------------------- MODULE MergeInputs -----------------------------
(***************************************************************************)
(* Small vectors of sources for model checking the mergers.                *)
(***************************************************************************)
EXTENDS InternalKeys, SequencesExt

MakeEntry(uk, seq, type, val) ==
    [uk |-> uk, packed |-> Pack(seq, type), val |-> val]

(* Two versions of one user key, so that fronts tie on the user key, and a *)
(* tombstone of another.                                                   *)
Pool == {MakeEntry(1, 2, TypeValue, 0), MakeEntry(1, 1, TypeValue, 0),
         MakeEntry(2, 1, TypeDeletion, 0)}

(* The sorted sources with at most n distinct entries, and one that holds  *)
(* the same key twice.  An entry may also be in several sources.           *)
SourcesUpTo(n) ==
    {SetToSortSeq(S, Less) : S \in {T \in SUBSET Pool : Cardinality(T) <= n}}

Doubled == LET e == MakeEntry(1, 1, TypeValue, 0) IN <<e, e>>

(* No source, one to three sources with up to three entries each, and five *)
(* sources with up to one: trees of 1, 2, 4 and 8 leaves, with one phantom *)
(* leaf and with three.                                                    *)
MergeInputSet ==
    {<<>>}
      \cup [1..1 -> SourcesUpTo(3) \cup {Doubled}]
      \cup [1..2 -> SourcesUpTo(3) \cup {Doubled}]
      \cup [1..3 -> SourcesUpTo(2) \cup {Doubled}]
      \cup [1..5 -> SourcesUpTo(1)]
=============================================================================
