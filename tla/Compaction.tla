----------------------------- MODULE Compaction -----------------------------
(***************************************************************************)
(* compact_with_strategy (compaction/mod.rs): the merge, the callback that *)
(* asks the strategy about every entry, and build_sst on what was kept.    *)
(* The merge is the abstract KWayMerge, which the loser tree the code uses *)
(* implements.  How build_sst lays the entries out is left to SstFile.     *)
(***************************************************************************)
EXTENDS Strategy, BottommostContract

CONSTANTS
    Inputs,          \* the vectors of sources handed to the compaction
    Strategies,      \* the strategies it may be run with
    ExternalModes,   \* the values of external_sst_global_seqno.is_some()
    MaxSeqno         \* bound: no entry has a greater sequence number

VARIABLES
    sources, pos, merged,      \* the merge
    strategy,                  \* which strategy
    external,                  \* whether opts ask for an external SST
    kept_visible_version_for_current_key,
    has_last_user_key, last_user_key,
    output,                    \* the entries pushed to build_sst's argument
    file,                      \* the entries build_sst writes, in order
    phase                      \* "merge" or "done"

mergeVars == <<sources, pos, merged>>
vars == <<mergeVars, strategy, external, kept_visible_version_for_current_key,
          has_last_user_key, last_user_key, output, file, phase>>

Merging == INSTANCE KWayMerge

ASSUME ParametersAssumption ==
    /\ \A input \in Inputs : input \in Seq(Source)
    /\ Strategies \subseteq StrategyType
    /\ ExternalModes \subseteq BOOLEAN
    /\ MaxSeqno \in Nat
    /\ \A input \in Inputs : \A e \in InputEntries(input) : Seqno(e) <= MaxSeqno

TypeOK ==
    /\ Merging!TypeOK
    /\ strategy \in Strategies
    /\ external \in ExternalModes
    /\ kept_visible_version_for_current_key \in BOOLEAN
    /\ has_last_user_key \in BOOLEAN
    /\ last_user_key \in Nat
    /\ output \in Seq(Entry)
    /\ file \in Seq(Entry)
    /\ phase \in {"merge", "done"}

Init ==
    /\ Merging!Init
    /\ strategy \in Strategies
    /\ external \in ExternalModes
    /\ kept_visible_version_for_current_key = FALSE
    /\ has_last_user_key = FALSE
    /\ last_user_key = 0
    /\ output = <<>>
    /\ file = <<>>
    /\ phase = "merge"

(* Mutant, then the original: the remembered key is never looked at.       *)
IsFirstAlways(e) == e.uk \in Nat

IsFirstForKey(e) == ~has_last_user_key \/ last_user_key # e.uk

(* Mutant: the last user key is remembered of kept entries only.           *)
CallbackRemembersKept(e) ==
    LET first == IsFirstForKey(e)
        kept == kept_visible_version_for_current_key
        keeps == Keeps(strategy, e, first, kept)
    IN  /\ has_last_user_key' = (has_last_user_key \/ keeps)
        /\ last_user_key' = IF keeps THEN e.uk ELSE last_user_key
        /\ kept_visible_version_for_current_key' =
               KeptAfter(strategy, e, first, kept)
        /\ output' = IF keeps THEN Append(output, e) ELSE output

(* The callback handed to merger.run.  The last user key is brought up to  *)
(* date whether or not the entry is kept.                                  *)
Callback(e) ==
    LET first == IsFirstForKey(e)
        kept == kept_visible_version_for_current_key
    IN  /\ has_last_user_key' = TRUE
        /\ last_user_key' = e.uk
        /\ kept_visible_version_for_current_key' =
               KeptAfter(strategy, e, first, kept)
        /\ output' = IF Keeps(strategy, e, first, kept)
                     THEN Append(output, e) ELSE output

(* One turn of the merge: the callback on the front of source i.           *)
Visit(i) ==
    /\ phase = "merge"
    /\ Merging!Emit(i)
    /\ Callback(Merging!Peek(i))
    /\ UNCHANGED <<strategy, external, file, phase>>

(* What build_sst writes: the entries, with every sequence number set to 0 *)
(* for an external SST.                                                    *)
Rewritten(entries) ==
    IF external THEN [n \in DOMAIN entries |-> ZeroOutSeqno(entries[n])]
                ELSE entries

(* run has returned: build_sst.                                            *)
Finish ==
    /\ phase = "merge"
    /\ Merging!Exhausted
    /\ file' = Rewritten(output)
    /\ phase' = "done"
    /\ UNCHANGED <<mergeVars, strategy, external,
                   kept_visible_version_for_current_key,
                   has_last_user_key, last_user_key, output>>

Terminated == phase = "done" /\ UNCHANGED vars

Next == (\E i \in DOMAIN sources : Visit(i)) \/ Finish \/ Terminated

Spec == Init /\ [][Next]_vars /\ WF_vars(Next)
-----------------------------------------------------------------------------
(* What a reader finds.  These definitions are RocksDB's reading rule as   *)
(* strategy.rs and the oracle describe it, not code of the repository.     *)
(* They read a key with whole values and tombstones of its own.  A merge   *)
(* operand is read together with older versions (see CompactionClaims),    *)
(* and a range deletion hides keys it is not stored under.                 *)

Visible(entries, k, r) == {e \in entries : e.uk = k /\ Seqno(e) <= r}

NewestOf(versions) ==
    {e \in versions : \A other \in versions : other.packed <= e.packed}

(* The values a reader at sequence number r may get for key k: none if the *)
(* key is absent or deleted, several only if two versions have one key.    *)
Get(entries, k, r) ==
    {e.val : e \in {n \in NewestOf(Visible(entries, k, r)) : ~IsTombstone(n)}}

SameAnswer(before, after, k, r) ==
    /\ Get(after, k, r) \subseteq Get(before, k, r)
    /\ Get(before, k, r) # {} => Get(after, k, r) # {}

(* The readers each strategy's comment says its output still serves.       *)
Readers ==
    CASE strategy.kind = "bottommost" -> {MaxSeqno}
      [] strategy.kind = "snapshot" -> {strategy.snapshot_seqno, MaxSeqno}
      [] strategy.kind = "passthrough" -> 0..MaxSeqno

KeysOf(entries) == {e.uk : e \in entries}

(* The keys for which Get is the reading rule.                             *)
PlainKeys(entries) ==
    {k \in KeysOf(entries) : \A e \in entries :
        /\ TypeByte(e) # TypeRangeDeletion
        /\ e.uk = k => TypeByte(e) \in {TypeValue, TypeBlobIndex,
                                        TypeDeletion, TypeSingleDeletion}}

(* No reader the output has to serve gets a different answer from the      *)
(* compacted file than from the inputs: not the current reader, and not    *)
(* the snapshot of SnapshotAwareStrategy.  This is about keys without      *)
(* merge operands, in sources without range deletions.                     *)
ReadersUnaffected ==
    phase = "done" =>
        \A k \in PlainKeys(InputEntries(sources)), r \in Readers :
            SameAnswer(InputEntries(sources), ToSet(output), k, r)

(* The keys reach BlockBuilder::add in strictly ascending order, even when *)
(* two sources hold the same key, unless everything is passed through.     *)
OutputStrictlyAscending ==
    strategy.kind # "passthrough" => StrictlyAscending(output)

(* The bottommost compaction keeps compact's promise: of each user key     *)
(* just the newest version, and none that is deleted; an older version     *)
(* never comes back from under a dropped tombstone.                        *)
MeetsBottommostContract ==
    phase = "done" /\ strategy.kind = "bottommost" =>
        IsBottommostOf(output, sources)

(* SnapshotAwareStrategy's flag says exactly whether the output already    *)
(* has, for the current key, a version the snapshot can read.              *)
KeptFlagExact ==
    strategy.kind = "snapshot" =>
        (kept_visible_version_for_current_key <=>
            /\ has_last_user_key
            /\ \E i \in DOMAIN output :
                   /\ output[i].uk = last_user_key
                   /\ AtOrBelow(output[i], strategy.snapshot_seqno))

(* An external file made with BottommostStrategy, the one the binary uses, *)
(* meets the ingestion contract: keys still strictly ascending once every  *)
(* sequence number is 0, and the same answers for the current reader, for  *)
(* keys without merge operands and sources without range deletions.        *)
IngestContract ==
    phase = "done" /\ external /\ strategy.kind = "bottommost" =>
        /\ StrictlyAscending(file)
        /\ \A i \in DOMAIN file : Seqno(file[i]) = 0
        /\ \A k \in PlainKeys(InputEntries(sources)) :
               SameAnswer(InputEntries(sources), ToSet(file), k, MaxSeqno)
=============================================================================
