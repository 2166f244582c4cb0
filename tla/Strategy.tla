------------------------------ MODULE Strategy ------------------------------
(***************************************************************************)
(* The compaction strategies (compaction/strategy.rs).  A strategy is      *)
(* asked once per entry of the merge, in internal-key order, whether to    *)
(* keep it; SnapshotAwareStrategy remembers one bit between two questions. *)
(***************************************************************************)
EXTENDS InternalKeys

(* The three implementations of CompactionStrategy.  snapshot_seqno is a   *)
(* field of SnapshotAwareStrategy and is 0 where there is none.            *)
StrategyType == [kind : {"bottommost", "snapshot", "passthrough"},
                 snapshot_seqno : Nat]

BottommostStrategy == [kind |-> "bottommost", snapshot_seqno |-> 0]
PassthroughStrategy == [kind |-> "passthrough", snapshot_seqno |-> 0]
SnapshotAwareStrategy(seqno) == [kind |-> "snapshot", snapshot_seqno |-> seqno]

(* BottommostStrategy::decide: the newest version, unless it is a          *)
(* tombstone.                                                              *)
BottommostKeeps(e, is_first_for_key) == is_first_for_key /\ ~IsTombstone(e)

(* SnapshotAwareStrategy::decide resets the flag at the first version of a *)
(* key; keeps that version, and the first one at or below the snapshot;    *)
(* and sets the flag once a kept version is at or below the snapshot.      *)
(* Mutant, then the original: the boundary itself is left out.             *)
Below(e, snapshot_seqno) == Seqno(e) < snapshot_seqno

AtOrBelow(e, snapshot_seqno) == Seqno(e) <= snapshot_seqno

SnapshotKeeps(e, is_first_for_key, snapshot_seqno, kept) ==
    \/ is_first_for_key
    \/ ~kept /\ AtOrBelow(e, snapshot_seqno)

(* Mutant, then the original: the flag is not reset at a new key.          *)
SnapshotKeptAfterNoReset(e, is_first_for_key, snapshot_seqno, kept) ==
    kept \/ AtOrBelow(e, snapshot_seqno)

SnapshotKeptAfter(e, is_first_for_key, snapshot_seqno, kept) ==
    \/ kept /\ ~is_first_for_key
    \/ AtOrBelow(e, snapshot_seqno)

(* decide(e, is_first_for_key) = Keep, of the strategy at hand.            *)
Keeps(strategy, e, is_first_for_key, kept) ==
    CASE strategy.kind = "bottommost" -> BottommostKeeps(e, is_first_for_key)
      [] strategy.kind = "snapshot" ->
           SnapshotKeeps(e, is_first_for_key, strategy.snapshot_seqno, kept)
      [] strategy.kind = "passthrough" -> TRUE

(* kept_visible_version_for_current_key after decide.                      *)
KeptAfter(strategy, e, is_first_for_key, kept) ==
    /\ strategy.kind = "snapshot"
    /\ SnapshotKeptAfter(e, is_first_for_key, strategy.snapshot_seqno, kept)
=============================================================================
