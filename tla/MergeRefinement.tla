-------------------------- MODULE MergeRefinement ---------------------------
(***************************************************************************)
(* What both mergers (merge/merger.rs) are shown to implement: they share  *)
(* the sources and the callback with the abstract merge, and everything    *)
(* else they keep is their own.                                            *)
(***************************************************************************)
EXTENDS MergeOutput

Abstract == INSTANCE KWayMerge

(* A merger delivers what a k-way merge promises, and returns: whatever    *)
(* HeapMerger's heap or LoserTreeMerger's tree does between two calls of   *)
(* f, each call is with a least front.                                     *)
ImplementsKWayMerge == Abstract!Spec
=============================================================================
