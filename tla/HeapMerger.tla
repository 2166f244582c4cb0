----------------------------- MODULE HeapMerger -----------------------------
(***************************************************************************)
(* HeapMerger (merge/merger.rs): a k-way merge over a BinaryHeap of source *)
(* indices, each with a copy of the key its source had when it was pushed. *)
(* BinaryHeap (std, not under src/) is modelled by its contract: pop       *)
(* removes an entry that is greatest under HeapEntry's reversed Ord, that  *)
(* is, least under the key comparator; which of several equal ones is its  *)
(* own choice.                                                             *)
(***************************************************************************)
EXTENDS MergeRefinement

VARIABLE
    heap             \* BinaryHeap<HeapEntry>: a set of [source_idx, key]

heapVars == <<sources, pos, merged, heap>>

(* The key copied into a heap entry, with its value left behind.           *)
KeyOf(e) == [uk |-> e.uk, packed |-> e.packed]

HeapEntry == [source_idx : Nat, key : [uk : Nat, packed : Nat]]

HeapTypeOK ==
    /\ SourcesOK
    /\ merged \in Seq(Entry)
    /\ heap \subseteq HeapEntry

LiveFronts ==
    {[source_idx |-> i, key |-> KeyOf(Peek(i))] :
        i \in {s \in SourceIds : Live(s)}}

(* new: one heap entry for every source whose peek is Some.                *)
HeapInit ==
    /\ SourcesInit
    /\ merged = <<>>
    /\ heap = LiveFronts

(* Mutant: Ord is not reversed.                                            *)
PoppedGreatest(h) == h \in heap /\ \A other \in heap : ~Less(h.key, other.key)

(* HeapEntry's Ord through compare_with_prefix: no comparator of the       *)
(* repository turns HAS_SORT_PREFIX on, so it is C::compare.               *)
Popped(h) == h \in heap /\ \A other \in heap : ~Less(other.key, h.key)

(* Mutant: the entry is made before advance.                               *)
PushedBeforeAdvance(i) ==
    IF pos[i] + 1 < Len(sources[i])
    THEN {[source_idx |-> i, key |-> KeyOf(Peek(i))]}
    ELSE {}

(* The heap entry pushed when source i still has an entry after advance(). *)
Pushed(i) ==
    IF pos[i] + 1 < Len(sources[i])
    THEN {[source_idx |-> i, key |-> KeyOf(sources[i][pos[i] + 2])]}
    ELSE {}

(* Mutant: only the first entry of a user key is delivered.                *)
StepOncePerKey(h) ==
    /\ Popped(h)
    /\ Live(h.source_idx)
    /\ merged' = IF merged # <<>> /\ Last(merged).uk = h.key.uk
                 THEN merged ELSE Append(merged, Peek(h.source_idx))
    /\ Advance(h.source_idx)
    /\ heap' = (heap \ {h}) \cup Pushed(h.source_idx)

(* Mutant: an entry that repeats the one before it is not delivered.       *)
StepDeduplicates(h) ==
    /\ Popped(h)
    /\ Live(h.source_idx)
    /\ merged' = IF merged # <<>> /\ Last(merged) = Peek(h.source_idx)
                 THEN merged ELSE Append(merged, Peek(h.source_idx))
    /\ Advance(h.source_idx)
    /\ heap' = (heap \ {h}) \cup Pushed(h.source_idx)

(* One turn of run's loop: pop, peek, f, advance, push.  Live is what      *)
(* expect("heap entry stale") asserts: a stale entry stops the merge.      *)
Step(h) ==
    /\ Popped(h)
    /\ Live(h.source_idx)
    /\ merged' = Append(merged, Peek(h.source_idx))
    /\ Advance(h.source_idx)
    /\ heap' = (heap \ {h}) \cup Pushed(h.source_idx)

(* pop is None: run returns.                                               *)
HeapTerminated == heap = {} /\ UNCHANGED heapVars

HeapNext == (\E h \in heap : Step(h)) \/ HeapTerminated

HeapSpec == HeapInit /\ [][HeapNext]_heapVars /\ WF_heapVars(HeapNext)
-----------------------------------------------------------------------------
(* A heap entry never outlives the front it was made from: the heap holds  *)
(* exactly one entry per source that is not exhausted, with that source's  *)
(* current key.  A stale copy would order a later front wrongly, and       *)
(* expect("heap entry stale") would panic on an exhausted source.          *)
HeapMirrorsFronts == heap = LiveFronts
=============================================================================
