-------------------------- MODULE CompactionClaims --------------------------
(***************************************************************************)
(* Statements of the repository's comments about what a compaction keeps   *)
(* that the code does not live up to.  Each is the property of a run that  *)
(* TLC refutes.                                                            *)
(***************************************************************************)
EXTENDS CompactionOracle

(* strategy.rs on SnapshotAwareStrategy: only the earliest snapshot is     *)
(* needed, "later versions above it are safe to collapse into whichever of *)
(* {newest, at-or-below snapshot} a reader would actually observe".  A     *)
(* reader between the snapshot and the newest version observes neither.    *)
LaterSnapshotsUnaffected ==
    phase = "done" /\ strategy.kind = "snapshot" =>
        \A k \in PlainKeys(InputEntries(sources)),
           r \in strategy.snapshot_seqno..MaxSeqno :
               SameAnswer(InputEntries(sources), ToSet(output), k, r)

(* The versions a reader of key k combines: a merge operand is read        *)
(* together with what it is merged into.                                   *)
ReadTogether(entries, k) ==
    {e \in entries :
        /\ e.uk = k
        /\ \A newer \in entries :
               newer.uk = k /\ newer.packed > e.packed
                   => TypeByte(newer) = TypeMerge}

(* strategy.rs on KeepDecision::Drop: the entry "will never be visible to  *)
(* any reader the output needs to serve".  The base under a merge operand  *)
(* is dropped, and every reader needs it.                                  *)
DroppedIsNeverRead ==
    phase = "done" =>
        \A k \in KeysOf(InputEntries(sources)) :
            {e \in ReadTogether(InputEntries(sources), k) : ~IsTombstone(e)}
                \subseteq ToSet(output)
=============================================================================
