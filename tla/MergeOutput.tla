---------------------------- MODULE MergeOutput -----------------------------
(***************************************************************************)
(* What the callback f of a merge has seen (KWayMerge::run,                *)
(* merge/merger.rs), and what every merge owes it.                         *)
(***************************************************************************)
EXTENDS MergeSource, FiniteSets, SequencesExt

VARIABLE
    merged           \* the entries f has been called with, in order
-----------------------------------------------------------------------------
(* f sees the entries in internal-key order, whatever the order of the     *)
(* sources and however often a key occurs in several of them: the premise  *)
(* of "first entry seen for a user key is the newest" in                   *)
(* compact_with_strategy.                                                  *)
MergedAscending == Ascending(merged)

(* Nothing still to come belongs before something already delivered.  With *)
(* MergedAscending this is inductive.                                      *)
FrontsNotBelowMerged ==
    \A i \in SourceIds : \A p \in DOMAIN sources[i] : \A m \in DOMAIN merged :
        p > pos[i] => ~Less(sources[i][p], merged[m])

(* The entries before the read position of some source.                    *)
Consumed == UNION {{sources[i][p] : p \in 1..pos[i]} : i \in SourceIds}

(* Neither an invented nor a lost entry: f has seen exactly the consumed   *)
(* entries.                                                                *)
MergedIsConsumed == ToSet(merged) = Consumed

(* Where entry e stands in the sources, and when f was called with it.     *)
PlacesOf(e) ==
    {at \in UNION {{i} \X DOMAIN sources[i] : i \in SourceIds} : sources[at[1]][at[2]] = e}
CallsWith(e) == {m \in DOMAIN merged : merged[m] = e}

(* When run returns, every entry of every source has been delivered as     *)
(* often as it occurs.                                                     *)
NothingLost ==
    Exhausted =>
        \A e \in ToSet(merged) \cup UNION {ToSet(sources[i]) : i \in SourceIds} :
            Cardinality(CallsWith(e)) = Cardinality(PlacesOf(e))
=============================================================================
