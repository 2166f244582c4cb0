----------------------------- MODULE KWayMerge ------------------------------
(***************************************************************************)
(* What a k-way merge promises (trait KWayMerge and trait MergeSource,     *)
(* merge/merger.rs and merge/source.rs): run calls f once per entry, each  *)
(* time with an entry that is least among the fronts of the sources that   *)
(* are not exhausted.  Which of several equal fronts comes first is left   *)
(* open.  HeapMerger and LoserTree are shown to implement this             *)
(* specification; Compaction is built on it.                               *)
(***************************************************************************)
EXTENDS MergeOutput

vars == <<sources, pos, merged>>

TypeOK ==
    /\ SourcesOK
    /\ merged \in Seq(Entry)

Init ==
    /\ SourcesInit
    /\ merged = <<>>

(* One call of f with the front of source i, then advance().               *)
Emit(i) ==
    /\ Live(i)
    /\ \A j \in SourceIds : Live(j) => ~Less(Peek(j), Peek(i))
    /\ merged' = Append(merged, Peek(i))
    /\ Advance(i)

(* run has returned.                                                       *)
Terminated == Exhausted /\ UNCHANGED vars

Next == (\E i \in SourceIds : Emit(i)) \/ Terminated

Spec == Init /\ [][Next]_vars /\ WF_vars(Next)
=============================================================================
