---------------------------- MODULE MergeSource -----------------------------
(***************************************************************************)
(* The sources of a merge (trait MergeSource, VecSource and ArenaSource,   *)
(* merge/source.rs): sorted entries behind a read position.  The entries   *)
(* of an ArenaSource window [start, end) are the source's entries here, so *)
(* a position counts from the start of the window.                         *)
(***************************************************************************)
EXTENDS InternalKeys

CONSTANT Inputs      \* the vectors of sources a merger may be given

(* The contract of MergeSource: every source is sorted.                    *)
ASSUME InputsAssumption == \A input \in Inputs : input \in Seq(Source)

VARIABLES
    sources,         \* Vec<S>: the entries of each source, never changed
    pos              \* per source: how many entries advance() has passed

SourceIds == DOMAIN sources

(* peek is Some.                                                           *)
Live(i) == pos[i] < Len(sources[i])

(* The entry peek returns.                                                 *)
Peek(i) == sources[i][pos[i] + 1]

Exhausted == \A i \in SourceIds : ~Live(i)

SourcesOK ==
    /\ sources \in Inputs
    /\ pos \in [SourceIds -> Nat]
    /\ \A i \in SourceIds : pos[i] <= Len(sources[i])

SourcesInit ==
    /\ sources \in Inputs
    /\ pos = [i \in SourceIds |-> 0]

(* advance on source i.                                                    *)
Advance(i) ==
    /\ pos' = [pos EXCEPT ![i] = @ + 1]
    /\ UNCHANGED sources
=============================================================================
