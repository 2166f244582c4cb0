-------------------------- MODULE CompactionProofs --------------------------
(***************************************************************************)
(* compact_with_strategy for any sorted sources: the output is strictly    *)
(* ascending, SnapshotAwareStrategy's flag is exact, a bottommost          *)
(* compaction keeps what compact promises, no reader a strategy must serve *)
(* gets another answer, and an external file can be ingested.              *)
(*                                                                         *)
(* The merge's own invariant comes from KWayMergeProofs.  The driver's     *)
(* says what the callback remembers: the last user key is the greatest one *)
(* seen, the output is part of what was seen, and for the bottommost       *)
(* strategy every key seen has its newest version in the output or that    *)
(* version is a tombstone.                                                 *)
(***************************************************************************)
EXTENDS CompactionOracle, FiniteSetTheorems, TLAPS

Merge == INSTANCE KWayMergeProofs

(* The last user key is that of the last entry seen.                       *)
LastKeyCurrent ==
    /\ has_last_user_key <=> merged # <<>>
    /\ merged # <<>> => last_user_key = merged[Len(merged)].uk

OutputWasSeen ==
    \A o \in DOMAIN output : \E m \in DOMAIN merged : output[o] = merged[m]

NewestSeen(e) ==
    \A m \in DOMAIN merged : merged[m].uk = e.uk => merged[m].packed <= e.packed

BottommostSoFar ==
    /\ \A o \in DOMAIN output : ~IsTombstone(output[o]) /\ NewestSeen(output[o])
    /\ \A o, p \in DOMAIN output : o < p => output[o].uk < output[p].uk
    /\ \A m \in DOMAIN merged :
           \/ \E o \in DOMAIN output : output[o].uk = merged[m].uk
           \/ \E n \in DOMAIN merged :
                  /\ merged[n].uk = merged[m].uk
                  /\ IsTombstone(merged[n]) /\ NewestSeen(merged[n])

(* Whatever a reader at r could see of the entries so far, it can see the  *)
(* same or a newer version of that key in the output.                      *)
Covers(r) ==
    \A m \in DOMAIN merged : Seqno(merged[m]) <= r =>
        \E o \in DOMAIN output :
            /\ output[o].uk = merged[m].uk
            /\ Seqno(output[o]) <= r
            /\ merged[m].packed <= output[o].packed

IInv ==
    /\ TypeOK
    /\ Merge!IInv
    /\ LastKeyCurrent
    /\ OutputWasSeen
    /\ OutputStrictlyAscending
    /\ KeptFlagExact
    /\ strategy.kind = "bottommost" => BottommostSoFar
    /\ strategy.kind # "bottommost" => \A r \in Readers : Covers(r)
    /\ phase = "done" => Merging!Exhausted /\ file = Rewritten(output)
-----------------------------------------------------------------------------
(* The merge's sources are this module's.                                  *)
LEMMA SameSources ==
    /\ \A input \in Inputs : input \in Seq(Merge!Source)
    /\ Merge!Entry = Entry
<1>1. Merge!Source = Source /\ Merge!Entry = Entry
  BY DEF Merge!Source, Source, Merge!Entry, Entry, Merge!Ascending, Ascending,
     Merge!Less, Less
<1> QED BY <1>1, ParametersAssumption

LEMMA MergeTypeOK == Merge!TypeOK <=> Merging!TypeOK
BY DEF Merge!TypeOK, Merging!TypeOK, Merge!SourcesOK, Merging!SourcesOK,
   Merge!SourceIds, Merging!SourceIds, Merge!Entry, Merging!Entry

(* The entry delivered by the merge's turn is not before any seen one.     *)
LEMMA MergeStep ==
    ASSUME Merge!IInv, NEW i \in DOMAIN sources, Merging!Emit(i)
    PROVE  /\ Merge!IInv'
           /\ Merging!Peek(i) \in Entry
           /\ merged \in Seq(Entry)
           /\ merged' = Append(merged, Merging!Peek(i))
           /\ \A m \in DOMAIN merged : ~Less(Merging!Peek(i), merged[m])
<1>1. Merge!Emit(i) /\ i \in Merge!SourceIds /\ Merge!Live(i)
      /\ Merge!Peek(i) = Merging!Peek(i)
  BY DEF Merging!Emit, Merge!Emit, Merging!Live, Merge!Live, Merging!Peek, Merge!Peek,
     Merging!Less, Merge!Less, Merging!Advance, Merge!Advance, Merging!SourceIds,
     Merge!SourceIds
<1>2. Merge!IInv'
  BY <1>1, SameSources, Merge!EmitPreservesIInv
<1>3. Merge!TypeOK /\ merged \in Seq(Entry)
  BY SameSources DEF Merge!IInv, Merge!TypeOK
<1>4. /\ pos[i] + 1 \in DOMAIN sources[i] /\ pos[i] + 1 > pos[i]
      /\ Merge!Peek(i) = sources[i][pos[i] + 1] /\ Merge!Peek(i) \in Merge!Entry
  BY <1>1, <1>3, SameSources, Merge!PeekIsEntry
<1>5. \A m \in DOMAIN merged : ~Merge!Less(sources[i][pos[i] + 1], merged[m])
  BY <1>1, <1>4 DEF Merge!IInv, Merge!FrontsNotBelowMerged
<1>6. merged' = Append(merged, Merging!Peek(i))
  BY DEF Merging!Emit
<1> QED BY <1>1, <1>2, <1>3, <1>4, <1>5, <1>6, SameSources DEF Merge!Less, Less

(* The last user key is the greatest one seen.                             *)
LEMMA LastKeyGreatest ==
    ASSUME IInv, NEW m \in DOMAIN merged
    PROVE  /\ has_last_user_key
           /\ merged[m].uk <= last_user_key
           /\ merged[m] \in Entry
<1>1. merged \in Seq(Entry) /\ Merge!MergedAscending
  BY SameSources DEF IInv, Merge!IInv, Merge!TypeOK
<1>2. merged # <<>> /\ Len(merged) \in DOMAIN merged /\ m \in 1..Len(merged)
      /\ Len(merged) \in Nat
  BY <1>1
<1>3. has_last_user_key /\ last_user_key = merged[Len(merged)].uk
  BY <1>2 DEF IInv, LastKeyCurrent
<1>4. merged[m] \in Entry /\ merged[Len(merged)] \in Entry
  BY <1>1, <1>2
<1>5. CASE m = Len(merged)
  BY <1>3, <1>4, <1>5 DEF Entry
<1>6. CASE m # Len(merged)
  <2>1. ~Less(merged[Len(merged)], merged[m])
    BY <1>1, <1>2, <1>6 DEF Merge!MergedAscending, Merge!Ascending, Merge!Less, Less
  <2> QED BY <1>3, <1>4, <2>1 DEF Less, Entry
<1> QED BY <1>3, <1>4, <1>5, <1>6
-----------------------------------------------------------------------------
LEMMA InitEstablishesIInv == Init => IInv
<1> SUFFICES ASSUME Init PROVE IInv
  OBVIOUS
<1>1. Merge!Init
  BY DEF Init, Merging!Init, Merge!Init, Merging!SourcesInit, Merge!SourcesInit,
     Merging!SourceIds, Merge!SourceIds
<1>2. Merge!IInv
  BY <1>1, SameSources, Merge!InitEstablishesIInv
<1>3. TypeOK
  <2>1. Merging!TypeOK
    BY <1>2, MergeTypeOK DEF Merge!IInv
  <2>2. /\ strategy \in Strategies /\ external \in ExternalModes
        /\ kept_visible_version_for_current_key \in BOOLEAN
        /\ has_last_user_key \in BOOLEAN
        /\ phase \in {"merge", "done"}
    BY DEF Init
  <2>3. last_user_key \in Nat /\ output \in Seq(Entry) /\ file \in Seq(Entry)
    BY DEF Init
  <2> QED BY <2>1, <2>2, <2>3 DEF TypeOK
<1>4. merged = <<>> /\ output = <<>> /\ ~has_last_user_key
      /\ ~kept_visible_version_for_current_key /\ phase = "merge"
  BY DEF Init, Merging!Init
<1>5. LastKeyCurrent /\ OutputWasSeen /\ BottommostSoFar /\ \A r \in Readers : Covers(r)
  BY <1>4 DEF LastKeyCurrent, OutputWasSeen, BottommostSoFar, Covers
<1>6. OutputStrictlyAscending /\ KeptFlagExact
  BY <1>4 DEF OutputStrictlyAscending, StrictlyAscending, KeptFlagExact
<1> QED BY <1>2, <1>3, <1>4, <1>5, <1>6 DEF IInv
-----------------------------------------------------------------------------
(* What the callback does with entry e when the invariant holds: e is      *)
(* first for its key exactly if its key is greater than all seen, and      *)
(* otherwise no newer than any seen version of it.                         *)
LEMMA EntryAgainstSeen ==
    ASSUME IInv, NEW i \in DOMAIN sources, Merging!Emit(i)
    PROVE  LET e == Merging!Peek(i)
           IN  /\ IsFirstForKey(e) =>
                     \A m \in DOMAIN merged : merged[m].uk < e.uk
               /\ ~IsFirstForKey(e) =>
                     /\ merged # <<>> /\ has_last_user_key /\ e.uk = last_user_key
                     /\ \A m \in DOMAIN merged :
                            merged[m].uk = e.uk => e.packed <= merged[m].packed
<1> DEFINE e == Merging!Peek(i)
<1>1. /\ e \in Entry
      /\ merged \in Seq(Entry)
      /\ \A m \in DOMAIN merged : ~Less(e, merged[m])
  BY MergeStep DEF IInv
<1>2. e.uk \in Nat /\ e.packed \in Nat /\ last_user_key \in Nat
  BY <1>1 DEF Entry, IInv, TypeOK
<1>3. \A m \in DOMAIN merged :
          /\ merged[m].uk \in Nat /\ merged[m].packed \in Nat
          /\ merged[m].uk <= last_user_key /\ has_last_user_key
          /\ merged[m].uk <= e.uk
          /\ merged[m].uk = e.uk => e.packed <= merged[m].packed
  <2> SUFFICES ASSUME NEW m \in DOMAIN merged
               PROVE  /\ merged[m].uk \in Nat /\ merged[m].packed \in Nat
                      /\ merged[m].uk <= last_user_key /\ has_last_user_key
                      /\ merged[m].uk <= e.uk
                      /\ merged[m].uk = e.uk => e.packed <= merged[m].packed
    OBVIOUS
  <2>1. has_last_user_key /\ merged[m].uk <= last_user_key /\ merged[m] \in Entry
    BY LastKeyGreatest
  <2>2. merged[m].uk \in Nat /\ merged[m].packed \in Nat
    BY <2>1 DEF Entry
  <2> QED BY <1>1, <1>2, <2>1, <2>2 DEF Less
<1>4. merged # <<>> => last_user_key <= e.uk
  <2> SUFFICES ASSUME merged # <<>> PROVE last_user_key <= e.uk
    OBVIOUS
  <2>1. Len(merged) \in DOMAIN merged
    BY <1>1
  <2>2. last_user_key = merged[Len(merged)].uk
    BY DEF IInv, LastKeyCurrent
  <2> QED BY <1>3, <2>1, <2>2
<1>5. ASSUME IsFirstForKey(e), NEW m \in DOMAIN merged
      PROVE  merged[m].uk < e.uk
  <2>1. merged # <<>> /\ last_user_key # e.uk /\ last_user_key <= e.uk
    BY <1>1, <1>3, <1>4, <1>5 DEF IsFirstForKey
  <2> QED BY <1>2, <1>3, <2>1
<1>6. ASSUME ~IsFirstForKey(e)
      PROVE  merged # <<>> /\ has_last_user_key /\ e.uk = last_user_key
  BY <1>6 DEF IsFirstForKey, IInv, LastKeyCurrent
<1> QED BY <1>3, <1>5, <1>6

(* A version that is not newer has no greater sequence number.             *)
LEMMA SeqnoMonotone ==
    ASSUME NEW a \in Entry, NEW b \in Entry, Seqno(a) > Seqno(b)
    PROVE  a.packed > b.packed
BY DEF Seqno, Entry

(* Every entry of the output has been seen: its key is not beyond the last *)
(* user key.                                                               *)
LEMMA OutputBounds ==
    ASSUME IInv, NEW o \in DOMAIN output
    PROVE  /\ output[o] \in Entry
           /\ has_last_user_key
           /\ \E m \in DOMAIN merged : output[o] = merged[m]
           /\ output[o].uk <= last_user_key
<1>1. output[o] \in Entry
  BY DEF IInv, TypeOK
<1>2. PICK m \in DOMAIN merged : output[o] = merged[m]
  BY DEF IInv, OutputWasSeen
<1> QED BY <1>1, <1>2, LastKeyGreatest
-----------------------------------------------------------------------------
LEMMA EntryFields ==
    ASSUME NEW x \in Entry
    PROVE  x.uk \in Nat /\ x.packed \in Nat /\ Seqno(x) \in Nat
BY DEF Entry, Seqno

LEMMA ReadersTyped ==
    ASSUME strategy \in StrategyType
    PROVE  Readers \subseteq Nat
BY ParametersAssumption DEF Readers, StrategyType

(* No version seen has a greater sequence number than the bound.           *)
LEMMA SeenBelowMax ==
    ASSUME IInv, NEW m \in DOMAIN merged
    PROVE  Seqno(merged[m]) <= MaxSeqno
<1>1. sources \in Inputs
  BY DEF IInv, TypeOK, Merging!TypeOK, Merging!SourcesOK
<1>2. ToSet(merged) = UNION {{sources[i][p] : p \in 1..pos[i]} : i \in DOMAIN sources}
  BY DEF IInv, Merge!IInv, Merge!MergedIsConsumed, Merge!Consumed, Merge!SourceIds,
     Merge!ToSet, ToSet
<1>3. PICK i \in DOMAIN sources : \E p \in 1..pos[i] : merged[m] = sources[i][p]
  BY <1>2 DEF ToSet
<1>4. /\ pos[i] \in Nat /\ pos[i] <= Len(sources[i])
      /\ sources[i] \in Seq(Entry)
  <2>1. sources[i] \in Source
    BY <1>1, ParametersAssumption
  <2>2. pos[i] \in Nat /\ pos[i] <= Len(sources[i])
    BY DEF IInv, TypeOK, Merging!TypeOK, Merging!SourcesOK, Merging!SourceIds
  <2> QED BY <2>1, <2>2 DEF Source
<1>5. merged[m] \in ToSet(sources[i])
  BY <1>3, <1>4 DEF ToSet
<1>6. merged[m] \in InputEntries(sources)
  BY <1>5 DEF InputEntries
<1> QED BY <1>1, <1>6, ParametersAssumption

(* One turn of the merge with its callback keeps the invariant.            *)
LEMMA VisitPreservesIInv ==
    ASSUME IInv, NEW i \in DOMAIN sources, Visit(i)
    PROVE  IInv'
<1> DEFINE e == Merging!Peek(i)
           first == IsFirstForKey(e)
           kept == kept_visible_version_for_current_key
           keeps == Keeps(strategy, e, first, kept)
           m1 == Len(merged) + 1
           o1 == Len(output) + 1
<1>1. /\ phase = "merge" /\ Merging!Emit(i)
      /\ has_last_user_key' = TRUE /\ last_user_key' = e.uk
      /\ kept_visible_version_for_current_key' = KeptAfter(strategy, e, first, kept)
      /\ output' = IF keeps THEN Append(output, e) ELSE output
      /\ UNCHANGED <<strategy, external, file, phase>>
  BY DEF Visit, Callback
<1>2. /\ Merge!IInv' /\ e \in Entry /\ merged \in Seq(Entry)
      /\ merged' = Append(merged, e)
  BY <1>1, MergeStep DEF IInv
<1>3. /\ first => \A m \in DOMAIN merged : merged[m].uk < e.uk
      /\ ~first => /\ merged # <<>> /\ has_last_user_key /\ e.uk = last_user_key
                   /\ \A m \in DOMAIN merged :
                          merged[m].uk = e.uk => e.packed <= merged[m].packed
  BY <1>1, EntryAgainstSeen
<1>4. /\ DOMAIN merged = 1..Len(merged) /\ Len(merged) \in Nat
      /\ DOMAIN merged' = 1..m1 /\ merged'[m1] = e
      /\ \A m \in DOMAIN merged : m \in DOMAIN merged' /\ merged'[m] = merged[m]
      /\ \A m \in DOMAIN merged' : m \in DOMAIN merged \/ m = m1
      /\ Len(merged') = m1 /\ merged' # <<>> /\ m1 \in DOMAIN merged'
  BY <1>2
<1>5. /\ output \in Seq(Entry) /\ Len(output) \in Nat /\ DOMAIN output = 1..Len(output)
      /\ strategy \in StrategyType
  BY ParametersAssumption DEF IInv, TypeOK
<1>6. /\ \A o \in DOMAIN output : o \in DOMAIN output' /\ output'[o] = output[o] /\ o < o1
      /\ keeps => o1 \in DOMAIN output' /\ output'[o1] = e
      /\ \A o \in DOMAIN output' : o \in DOMAIN output \/ (keeps /\ o = o1)
      /\ DOMAIN output' \subseteq Nat
      /\ output' \in Seq(Entry)
  <2>1. CASE keeps
    <3>1. output' = Append(output, e)
      BY <1>1, <2>1
    <3> HIDE DEF e, keeps
    <3> QED BY <1>2, <1>5, <2>1, <3>1
  <2>2. CASE ~keeps
    <3>1. output' = output
      BY <1>1, <2>2
    <3> HIDE DEF e, keeps
    <3> QED BY <1>5, <2>2, <3>1
  <2> QED BY <2>1, <2>2
<1>7. e.uk \in Nat /\ e.packed \in Nat
  BY <1>2 DEF Entry
<1> HIDE DEF e, first, keeps, m1
<1>8. \A o \in DOMAIN output :
          /\ output[o] \in Entry /\ output[o].uk \in Nat /\ output[o].packed \in Nat
          /\ has_last_user_key
          /\ \E m \in DOMAIN merged : output[o] = merged[m]
          /\ output[o].uk <= last_user_key
          /\ first => output[o].uk < e.uk
  <2> SUFFICES ASSUME NEW o \in DOMAIN output
               PROVE  /\ output[o] \in Entry /\ output[o].uk \in Nat
                      /\ output[o].packed \in Nat /\ has_last_user_key
                      /\ \E m \in DOMAIN merged : output[o] = merged[m]
                      /\ output[o].uk <= last_user_key
                      /\ first => output[o].uk < e.uk
    OBVIOUS
  <2>1. /\ output[o] \in Entry /\ has_last_user_key /\ output[o].uk <= last_user_key
        /\ \E m \in DOMAIN merged : output[o] = merged[m]
    BY OutputBounds
  <2>2. first => output[o].uk < e.uk
    BY <1>3, <2>1
  <2>3. output[o].uk \in Nat /\ output[o].packed \in Nat
    BY <2>1 DEF Entry
  <2> QED BY <2>1, <2>2, <2>3
<1>9. LastKeyCurrent'
  BY <1>1, <1>4 DEF LastKeyCurrent
<1>10. OutputWasSeen'
  <2> SUFFICES ASSUME NEW o \in DOMAIN output'
               PROVE  \E m \in DOMAIN merged' : output'[o] = merged'[m]
    BY DEF OutputWasSeen
  <2>1. CASE o \in DOMAIN output
    BY <1>4, <1>6, <1>8, <2>1
  <2>2. CASE keeps /\ o = o1
    BY <1>4, <1>6, <2>2
  <2> QED BY <1>6, <2>1, <2>2
<1>11. (* how decide treats e, in the three strategies                       *)
       /\ strategy.kind = "bottommost" => (keeps <=> first /\ ~IsTombstone(e))
       /\ strategy.kind = "snapshot" =>
              /\ keeps <=> first \/ (~kept /\ AtOrBelow(e, strategy.snapshot_seqno))
              /\ kept_visible_version_for_current_key' <=>
                     \/ kept /\ ~first
                     \/ AtOrBelow(e, strategy.snapshot_seqno)
  BY <1>1 DEF keeps, Keeps, KeptAfter, BottommostKeeps, SnapshotKeeps, SnapshotKeptAfter
<1>12. strategy.kind = "snapshot" => strategy.snapshot_seqno \in Nat
  BY <1>5 DEF StrategyType
<1>13. (* a second version of a key is kept only below all kept ones         *)
       ASSUME strategy.kind # "passthrough", keeps, NEW o \in DOMAIN output
       PROVE  Less(output[o], e)
  <2>1. CASE first
    BY <1>8, <2>1 DEF Less
  <2>2. CASE ~first
    <3>1. strategy.kind = "snapshot" /\ ~kept /\ AtOrBelow(e, strategy.snapshot_seqno)
      <4>1. strategy.kind # "bottommost"
        BY <1>11, <1>13, <2>2
      <4>2. strategy.kind = "snapshot"
        BY <1>5, <1>13, <4>1 DEF StrategyType
      <4> QED BY <1>11, <1>13, <2>2, <4>2
    <3>2. e.uk = last_user_key /\ has_last_user_key
      BY <1>3, <2>2
    <3>3. CASE output[o].uk = e.uk
      <4>1. ~AtOrBelow(output[o], strategy.snapshot_seqno)
        BY <3>1, <3>2, <3>3 DEF IInv, KeptFlagExact
      <4>2. Seqno(output[o]) > Seqno(e)
        <5>1. Seqno(output[o]) \in Int /\ Seqno(e) \in Int
          BY <1>7, <1>8 DEF Seqno
        <5> QED BY <1>12, <3>1, <4>1, <5>1 DEF AtOrBelow
      <4> QED BY <1>2, <1>8, <3>3, <4>2, SeqnoMonotone DEF Less
    <3>4. CASE output[o].uk # e.uk
      <4>1. output[o].uk < e.uk
        BY <1>7, <1>8, <3>2, <3>4
      <4> QED BY <4>1 DEF Less
    <3> QED BY <3>3, <3>4
  <2> QED BY <2>1, <2>2
<1>14. OutputStrictlyAscending'
  <2> SUFFICES ASSUME strategy.kind # "passthrough",
                      NEW o \in DOMAIN output', NEW p \in DOMAIN output', o < p
               PROVE  Less(output'[o], output'[p])
    BY <1>1 DEF OutputStrictlyAscending, StrictlyAscending
  <2>1. CASE p \in DOMAIN output
    <3>1. o \in DOMAIN output
      BY <1>5, <1>6, <2>1
    <3> QED BY <1>6, <2>1, <3>1 DEF IInv, OutputStrictlyAscending, StrictlyAscending
  <2>2. CASE keeps /\ p = o1
    <3>1. o \in DOMAIN output
      BY <1>5, <1>6, <2>2
    <3> QED BY <1>6, <1>13, <2>2, <3>1
  <2> QED BY <1>6, <2>1, <2>2
<1>15. KeptFlagExact'
  <2> SUFFICES ASSUME strategy.kind = "snapshot"
               PROVE  kept_visible_version_for_current_key' <=>
                          \E o \in DOMAIN output' :
                              /\ output'[o].uk = e.uk
                              /\ AtOrBelow(output'[o], strategy.snapshot_seqno)
    BY <1>1 DEF KeptFlagExact, AtOrBelow, Seqno
  <2>1. kept <=> /\ has_last_user_key
                 /\ \E o \in DOMAIN output :
                        /\ output[o].uk = last_user_key
                        /\ AtOrBelow(output[o], strategy.snapshot_seqno)
    BY DEF IInv, KeptFlagExact
  <2>2. CASE AtOrBelow(e, strategy.snapshot_seqno)
    <3>1. CASE keeps
      BY <1>6, <1>11, <2>2, <3>1
    <3>2. CASE ~keeps
      <4>1. ~first /\ kept
        BY <1>11, <2>2, <3>2
      <4>2. PICK o \in DOMAIN output :
                /\ output[o].uk = e.uk
                /\ AtOrBelow(output[o], strategy.snapshot_seqno)
        BY <1>3, <2>1, <4>1
      <4> QED BY <1>6, <1>11, <2>2, <4>2
    <3> QED BY <3>1, <3>2
  <2>3. CASE ~AtOrBelow(e, strategy.snapshot_seqno)
    <3>1. ASSUME kept, ~first
          PROVE  \E o \in DOMAIN output' :
                     /\ output'[o].uk = e.uk
                     /\ AtOrBelow(output'[o], strategy.snapshot_seqno)
      <4>1. PICK o \in DOMAIN output :
                /\ output[o].uk = e.uk
                /\ AtOrBelow(output[o], strategy.snapshot_seqno)
        BY <1>3, <2>1, <3>1
      <4> QED BY <1>6, <4>1
    <3>2. ASSUME NEW o \in DOMAIN output', output'[o].uk = e.uk,
                 AtOrBelow(output'[o], strategy.snapshot_seqno)
          PROVE  kept /\ ~first
      <4>1. o \in DOMAIN output /\ output'[o] = output[o]
        BY <1>6, <2>3, <3>2
      <4>2. ~first
        BY <1>7, <1>8, <3>2, <4>1
      <4> QED BY <1>3, <1>8, <2>1, <3>2, <4>1, <4>2
    <3> QED BY <1>11, <2>3, <3>1, <3>2
  <2> QED BY <2>2, <2>3
<1>16. TypeOK'
  <2>1. Merging!TypeOK'
    BY <1>2 DEF Merge!IInv, Merge!TypeOK, Merging!TypeOK, Merge!SourcesOK,
       Merging!SourcesOK, Merge!SourceIds, Merging!SourceIds, Merge!Entry, Merging!Entry
  <2>2. /\ strategy' \in Strategies /\ external' \in ExternalModes
        /\ has_last_user_key' \in BOOLEAN /\ last_user_key' \in Nat
        /\ file' \in Seq(Entry) /\ phase' \in {"merge", "done"}
    BY <1>1, <1>7 DEF IInv, TypeOK
  <2>3. kept_visible_version_for_current_key' \in BOOLEAN
    BY <1>1 DEF KeptAfter
  <2> QED BY <1>6, <2>1, <2>2, <2>3 DEF TypeOK
<1>17. ASSUME strategy.kind = "bottommost"
       PROVE  BottommostSoFar'
  <2>1. /\ BottommostSoFar
        /\ keeps <=> first /\ ~IsTombstone(e)
    BY <1>11, <1>17 DEF IInv
  <2>2. (* what was newest of what was seen still is                         *)
        ASSUME NEW n \in DOMAIN merged, NewestSeen(merged[n])
        PROVE  NewestSeen(merged[n])'
    <3> SUFFICES ASSUME NEW m \in DOMAIN merged', merged'[m].uk = merged'[n].uk
                 PROVE  merged'[m].packed <= merged'[n].packed
      BY DEF NewestSeen
    <3>1. merged'[n] = merged[n]
      BY <1>4
    <3>2. CASE m \in DOMAIN merged
      BY <1>4, <2>2, <3>1, <3>2 DEF NewestSeen
    <3>3. CASE m = m1
      <4>1. ~first
        BY <1>3, <1>4, <1>7, <3>1, <3>3
      <4> QED BY <1>3, <1>4, <3>1, <3>3, <4>1
    <3> QED BY <1>4, <3>2, <3>3
  <2>3. ASSUME first, NEW n \in DOMAIN merged', n = m1
        PROVE  NewestSeen(merged[n])'
    <3> SUFFICES ASSUME NEW m \in DOMAIN merged', merged'[m].uk = merged'[n].uk
                 PROVE  merged'[m].packed <= merged'[n].packed
      BY DEF NewestSeen
    <3>1. m = m1
      BY <1>3, <1>4, <1>7, <2>3
    <3> QED BY <1>4, <1>7, <2>3, <3>1
  <2>4. ASSUME NEW o \in DOMAIN output'
        PROVE  ~IsTombstone(output'[o]) /\ NewestSeen(output[o])'
    <3>1. CASE o \in DOMAIN output
      <4>1. PICK n \in DOMAIN merged : output[o] = merged[n]
        BY <1>8, <3>1
      <4>2. NewestSeen(merged[n])'
        BY <2>1, <2>2, <3>1, <4>1 DEF BottommostSoFar
      <4>3. output'[o] = merged'[n] /\ output'[o] = output[o]
        BY <1>4, <1>6, <3>1, <4>1
      <4> QED BY <2>1, <3>1, <4>2, <4>3 DEF BottommostSoFar, NewestSeen
    <3>2. CASE keeps /\ o = o1
      <4>1. PICK n \in DOMAIN merged' : n = m1
        BY <1>4
      <4>2. NewestSeen(merged[n])'
        BY <2>1, <2>3, <3>2, <4>1
      <4>3. output'[o] = merged'[n] /\ output'[o] = e
        BY <1>4, <1>6, <3>2, <4>1
      <4> QED BY <2>1, <3>2, <4>2, <4>3 DEF NewestSeen
    <3> QED BY <1>6, <3>1, <3>2
  <2>5. ASSUME NEW o \in DOMAIN output', NEW p \in DOMAIN output', o < p
        PROVE  output'[o].uk < output'[p].uk
    <3>1. CASE p \in DOMAIN output
      <4>1. o \in DOMAIN output
        BY <1>5, <1>6, <2>5, <3>1
      <4> QED BY <1>6, <2>1, <2>5, <3>1, <4>1 DEF BottommostSoFar
    <3>2. CASE keeps /\ p = o1
      <4>1. o \in DOMAIN output
        BY <1>5, <1>6, <2>5, <3>2
      <4> QED BY <1>6, <1>8, <2>1, <3>2, <4>1
    <3> QED BY <1>6, <3>1, <3>2
  <2>6. ASSUME NEW m \in DOMAIN merged
        PROVE  \/ \E o \in DOMAIN output' : output'[o].uk = merged[m].uk
               \/ \E n \in DOMAIN merged' :
                      /\ merged'[n].uk = merged[m].uk
                      /\ IsTombstone(merged'[n]) /\ NewestSeen(merged[n])'
    <3>1. CASE \E o \in DOMAIN output : output[o].uk = merged[m].uk
      BY <1>6, <3>1
    <3>2. CASE \E n \in DOMAIN merged :
                  /\ merged[n].uk = merged[m].uk
                  /\ IsTombstone(merged[n]) /\ NewestSeen(merged[n])
      <4>1. PICK n \in DOMAIN merged :
                /\ merged[n].uk = merged[m].uk
                /\ IsTombstone(merged[n]) /\ NewestSeen(merged[n])
        BY <3>2
      <4>2. NewestSeen(merged[n])'
        BY <2>2, <4>1
      <4> QED BY <1>4, <4>1, <4>2
    <3> QED BY <2>1, <3>1, <3>2 DEF BottommostSoFar
  <2>7. \/ \E o \in DOMAIN output' : output'[o].uk = e.uk
        \/ \E n \in DOMAIN merged' :
               /\ merged'[n].uk = e.uk
               /\ IsTombstone(merged'[n]) /\ NewestSeen(merged[n])'
    <3>1. CASE ~first
      <4>1. Len(merged) \in DOMAIN merged /\ merged[Len(merged)].uk = e.uk
        BY <1>3, <1>4, <1>2, <3>1 DEF IInv, LastKeyCurrent
      <4> QED BY <2>6, <4>1
    <3>2. CASE first /\ IsTombstone(e)
      <4>1. PICK n \in DOMAIN merged' : n = m1
        BY <1>4
      <4>2. NewestSeen(merged[n])'
        BY <2>3, <3>2, <4>1
      <4> QED BY <1>4, <3>2, <4>1, <4>2
    <3>3. CASE first /\ ~IsTombstone(e)
      BY <1>6, <2>1, <3>3
    <3> QED BY <3>1, <3>2, <3>3
  <2>8. ASSUME NEW m \in DOMAIN merged'
        PROVE  \/ \E o \in DOMAIN output' : output'[o].uk = merged'[m].uk
               \/ \E n \in DOMAIN merged' :
                      /\ merged'[n].uk = merged'[m].uk
                      /\ IsTombstone(merged'[n]) /\ NewestSeen(merged[n])'
    BY <1>4, <2>6, <2>7
  <2> QED BY <2>4, <2>5, <2>8 DEF BottommostSoFar, IsTombstone, TypeByte
<1>18. (* the passthrough and the snapshot strategy drop only what is covered *)
       ASSUME strategy.kind # "bottommost", NEW r \in Readers
       PROVE  Covers(r)'
  <2>1. Covers(r)
    BY <1>18 DEF IInv
  <2>2. r \in Nat /\ (strategy.kind = "snapshot" => r \in {strategy.snapshot_seqno, MaxSeqno})
    BY <1>5, <1>18, ReadersTyped DEF Readers
  <2>3. ASSUME NEW m \in DOMAIN merged, Seqno(merged[m]) <= r
        PROVE  \E o \in DOMAIN output' :
                   /\ output'[o].uk = merged[m].uk
                   /\ Seqno(output'[o]) <= r
                   /\ merged[m].packed <= output'[o].packed
    BY <1>6, <2>1, <2>3 DEF Covers
  <2>4. ASSUME Seqno(e) <= r
        PROVE  \E o \in DOMAIN output' :
                   /\ output'[o].uk = e.uk
                   /\ Seqno(output'[o]) <= r
                   /\ e.packed <= output'[o].packed
    <3>1. CASE keeps
      BY <1>6, <1>7, <2>4, <3>1
    <3>2. CASE ~keeps
      <4>1. strategy.kind = "snapshot"
        BY <1>5, <1>18, <3>2 DEF StrategyType, keeps, Keeps
      <4>2. ~first /\ (kept \/ ~AtOrBelow(e, strategy.snapshot_seqno))
        BY <1>11, <3>2, <4>1
      <4>3. CASE kept
        <5>1. PICK o \in DOMAIN output :
                  /\ output[o].uk = e.uk
                  /\ AtOrBelow(output[o], strategy.snapshot_seqno)
          BY <1>3, <4>1, <4>2, <4>3 DEF IInv, KeptFlagExact
        <5>2. e.packed <= output[o].packed
          BY <1>3, <1>8, <4>2, <5>1
        <5>3. Seqno(output[o]) <= r
          <6>1. CASE r = strategy.snapshot_seqno
            BY <5>1, <6>1 DEF AtOrBelow
          <6>2. CASE r = MaxSeqno
            BY <1>8, <6>2, SeenBelowMax
          <6> QED BY <2>2, <4>1, <6>1, <6>2
        <5> QED BY <1>6, <5>1, <5>2, <5>3
      <4>4. CASE ~AtOrBelow(e, strategy.snapshot_seqno)
        <5>1. r = MaxSeqno
          BY <2>2, <2>4, <4>1, <4>4 DEF AtOrBelow
        <5>2. PICK m \in DOMAIN merged : merged[m].uk = e.uk
          <6>1. Len(merged) \in DOMAIN merged /\ merged[Len(merged)].uk = e.uk
            BY <1>3, <1>4, <1>2, <4>2 DEF IInv, LastKeyCurrent
          <6> QED BY <6>1
        <5>3. e.packed <= merged[m].packed /\ Seqno(merged[m]) <= r
          BY <1>3, <4>2, <5>1, <5>2, SeenBelowMax
        <5>4. PICK o \in DOMAIN output :
                  /\ output[o].uk = merged[m].uk
                  /\ Seqno(output[o]) <= r
                  /\ merged[m].packed <= output[o].packed
          BY <2>1, <5>3 DEF Covers
        <5>5. merged[m].packed \in Nat
          BY <1>2, EntryFields
        <5> QED BY <1>6, <1>7, <1>8, <5>2, <5>3, <5>4, <5>5
      <4> QED BY <4>2, <4>3, <4>4
    <3> QED BY <3>1, <3>2
  <2> SUFFICES ASSUME NEW m \in DOMAIN merged', Seqno(merged'[m]) <= r
               PROVE  \E o \in DOMAIN output' :
                          /\ output'[o].uk = merged'[m].uk
                          /\ Seqno(output'[o]) <= r
                          /\ merged'[m].packed <= output'[o].packed
    BY DEF Covers, Seqno
  <2> QED BY <1>4, <2>3, <2>4
<1>19. phase' # "done" /\ Readers' = Readers
  BY <1>1 DEF Readers
<1> QED BY <1>1, <1>2, <1>9, <1>10, <1>14, <1>15, <1>16, <1>17, <1>18, <1>19 DEF IInv
-----------------------------------------------------------------------------
(* build_sst is called when the merge has nothing left, and changes none   *)
(* of what the callback keeps.                                             *)
LEMMA FinishPreservesIInv ==
    ASSUME IInv, Finish
    PROVE  IInv'
<1>1. /\ Merging!Exhausted /\ phase' = "done" /\ file' = Rewritten(output)
      /\ sources' = sources /\ pos' = pos /\ merged' = merged
      /\ strategy' = strategy /\ external' = external /\ output' = output
      /\ has_last_user_key' = has_last_user_key /\ last_user_key' = last_user_key
      /\ kept_visible_version_for_current_key' = kept_visible_version_for_current_key
  BY DEF Finish, mergeVars
<1>2. Merge!IInv'
  BY <1>1, SameSources, Merge!StutterPreservesIInv DEF IInv, Merge!vars
<1>3. file' \in Seq(Entry)
  <2>1. output \in Seq(Entry)
    BY DEF IInv, TypeOK
  <2>2. ASSUME NEW n \in DOMAIN output PROVE ZeroOutSeqno(output[n]) \in Entry
    <3>1. output[n] \in Entry
      BY <2>1
    <3>2. TypeByte(output[n]) \in Nat
      BY <3>1 DEF TypeByte, Entry
    <3> QED BY <3>1, <3>2 DEF ZeroOutSeqno, Entry
  <2>3. [n \in DOMAIN output |-> ZeroOutSeqno(output[n])] \in Seq(Entry)
    <3>1. Len(output) \in Nat /\ DOMAIN output = 1..Len(output)
      BY <2>1
    <3> QED BY <2>2, <3>1
  <2> QED BY <1>1, <2>1, <2>3 DEF Rewritten
<1>4. TypeOK'
  <2>1. Merging!TypeOK'
    BY <1>2 DEF Merge!IInv, Merge!TypeOK, Merging!TypeOK, Merge!SourcesOK,
       Merging!SourcesOK, Merge!SourceIds, Merging!SourceIds, Merge!Entry, Merging!Entry
  <2> QED BY <1>1, <1>3, <2>1 DEF IInv, TypeOK
<1>5. LastKeyCurrent' /\ OutputWasSeen'
  BY <1>1 DEF IInv, LastKeyCurrent, OutputWasSeen
<1>6. OutputStrictlyAscending' /\ KeptFlagExact'
  BY <1>1 DEF IInv, OutputStrictlyAscending, StrictlyAscending, Less, KeptFlagExact,
     AtOrBelow, Seqno
<1>7. (strategy.kind = "bottommost" => BottommostSoFar)'
  BY <1>1 DEF IInv, BottommostSoFar, NewestSeen, IsTombstone, TypeByte
<1>8. Merging!Exhausted' /\ file' = Rewritten(output)'
  BY <1>1 DEF Merging!Exhausted, Merging!SourceIds, Merging!Live, Rewritten
<1>9. (strategy.kind # "bottommost" => \A r \in Readers : Covers(r))'
  BY <1>1 DEF IInv, Readers, Covers, Seqno
<1> QED BY <1>2, <1>4, <1>5, <1>6, <1>7, <1>8, <1>9 DEF IInv

LEMMA StutterPreservesIInv ==
    ASSUME IInv, UNCHANGED vars
    PROVE  IInv'
<1>1. /\ phase' = phase /\ file' = file
      /\ sources' = sources /\ pos' = pos /\ merged' = merged
      /\ strategy' = strategy /\ external' = external /\ output' = output
      /\ has_last_user_key' = has_last_user_key /\ last_user_key' = last_user_key
      /\ kept_visible_version_for_current_key' = kept_visible_version_for_current_key
  BY DEF vars, mergeVars
<1>2. Merge!IInv'
  BY <1>1, SameSources, Merge!StutterPreservesIInv DEF IInv, Merge!vars
<1>3. TypeOK'
  <2>1. Merging!TypeOK'
    BY <1>2 DEF Merge!IInv, Merge!TypeOK, Merging!TypeOK, Merge!SourcesOK,
       Merging!SourcesOK, Merge!SourceIds, Merging!SourceIds, Merge!Entry, Merging!Entry
  <2> QED BY <1>1, <2>1 DEF IInv, TypeOK
<1>4. LastKeyCurrent' /\ OutputWasSeen'
  BY <1>1 DEF IInv, LastKeyCurrent, OutputWasSeen
<1>5. OutputStrictlyAscending' /\ KeptFlagExact'
  BY <1>1 DEF IInv, OutputStrictlyAscending, StrictlyAscending, Less, KeptFlagExact,
     AtOrBelow, Seqno
<1>6. (strategy.kind = "bottommost" => BottommostSoFar)'
  BY <1>1 DEF IInv, BottommostSoFar, NewestSeen, IsTombstone, TypeByte
<1>7. (phase = "done" => Merging!Exhausted /\ file = Rewritten(output))'
  BY <1>1 DEF IInv, Merging!Exhausted, Merging!SourceIds, Merging!Live, Rewritten
<1>8. (strategy.kind # "bottommost" => \A r \in Readers : Covers(r))'
  BY <1>1 DEF IInv, Readers, Covers, Seqno
<1> QED BY <1>2, <1>3, <1>4, <1>5, <1>6, <1>7, <1>8 DEF IInv

LEMMA NextPreservesIInv == IInv /\ [Next]_vars => IInv'
<1> SUFFICES ASSUME IInv, [Next]_vars PROVE IInv'
  OBVIOUS
<1>1. CASE \E i \in DOMAIN sources : Visit(i)
  BY <1>1, VisitPreservesIInv
<1>2. CASE Finish
  BY <1>2, FinishPreservesIInv
<1>3. CASE Terminated
  BY <1>3, StutterPreservesIInv DEF Terminated
<1>4. CASE UNCHANGED vars
  BY <1>4, StutterPreservesIInv
<1> QED BY <1>1, <1>2, <1>3, <1>4 DEF Next

LEMMA InvariantIInv == Spec => []IInv
BY InitEstablishesIInv, NextPreservesIInv, PTL DEF Spec
-----------------------------------------------------------------------------
(* What was seen is all there is once the merge has nothing left.          *)
LEMMA AllSeenAtTheEnd ==
    ASSUME IInv, phase = "done"
    PROVE  /\ \A m \in DOMAIN merged : merged[m] \in InputEntries(sources)
           /\ \A f \in InputEntries(sources) :
                  \E m \in DOMAIN merged : merged[m] = f
<1>1. sources \in Inputs /\ sources \in Seq(Source)
  BY ParametersAssumption DEF IInv, TypeOK, Merging!TypeOK, Merging!SourcesOK
<1>2. \A i \in DOMAIN sources :
          /\ sources[i] \in Seq(Entry) /\ DOMAIN sources[i] = 1..Len(sources[i])
          /\ pos[i] = Len(sources[i])
  <2> SUFFICES ASSUME NEW i \in DOMAIN sources
               PROVE  /\ sources[i] \in Seq(Entry)
                      /\ DOMAIN sources[i] = 1..Len(sources[i])
                      /\ pos[i] = Len(sources[i])
    OBVIOUS
  <2>1. sources[i] \in Seq(Entry)
    BY <1>1 DEF Source
  <2>2. pos[i] \in Nat /\ pos[i] <= Len(sources[i]) /\ ~(pos[i] < Len(sources[i]))
    BY DEF IInv, TypeOK, Merging!TypeOK, Merging!SourcesOK, Merging!SourceIds,
       Merging!Exhausted, Merging!Live
  <2> QED BY <2>1, <2>2
<1>3. ToSet(merged) = UNION {{sources[i][p] : p \in 1..pos[i]} : i \in DOMAIN sources}
  BY DEF IInv, Merge!IInv, Merge!MergedIsConsumed, Merge!Consumed, Merge!SourceIds,
     Merge!ToSet, ToSet
<1>4. InputEntries(sources) =
          UNION {{sources[i][p] : p \in DOMAIN sources[i]} : i \in DOMAIN sources}
  BY DEF InputEntries, ToSet
<1>5. ToSet(merged) = InputEntries(sources)
  BY <1>2, <1>3, <1>4
<1> QED BY <1>5 DEF ToSet

(* At the end, newest of what was seen is newest of the input.             *)
LEMMA NewestAtTheEnd ==
    ASSUME IInv, phase = "done", NEW n \in DOMAIN merged, NewestSeen(merged[n])
    PROVE  merged[n] \in NewestVersions(sources, merged[n].uk)
BY AllSeenAtTheEnd DEF NewestVersions, NewestSeen

(* Two newest versions of a key have one packed word, hence one type.      *)
LEMMA NewestAgree ==
    ASSUME IInv, phase = "done", NEW k,
           NEW a \in NewestVersions(sources, k), NEW b \in NewestVersions(sources, k)
    PROVE  IsTombstone(a) <=> IsTombstone(b)
<1>1. PICK m \in DOMAIN merged : merged[m] = a
  BY AllSeenAtTheEnd DEF NewestVersions
<1>2. PICK n \in DOMAIN merged : merged[n] = b
  BY AllSeenAtTheEnd DEF NewestVersions
<1>3. a \in Entry /\ b \in Entry
  BY <1>1, <1>2, LastKeyGreatest
<1>4. a.packed \in Nat /\ b.packed \in Nat
  BY <1>3 DEF Entry
<1>5. a.packed <= b.packed /\ b.packed <= a.packed
  BY DEF NewestVersions
<1>6. a.packed = b.packed
  BY <1>4, <1>5
<1> QED BY <1>6 DEF IsTombstone, TypeByte

LEMMA ContractAtTheEnd == IInv => MeetsBottommostContract
<1> SUFFICES ASSUME IInv, phase = "done", strategy.kind = "bottommost"
             PROVE  IsBottommostOf(output, sources)
  BY DEF MeetsBottommostContract
<1>1. BottommostSoFar /\ OutputWasSeen
  BY DEF IInv
<1>2. ASSUME NEW o \in DOMAIN output
      PROVE  output[o] \in NewestVersions(sources, output[o].uk)
  <2>1. PICK n \in DOMAIN merged : output[o] = merged[n]
    BY <1>1 DEF OutputWasSeen
  <2>2. NewestSeen(merged[n])
    BY <1>1, <2>1 DEF BottommostSoFar
  <2> QED BY <2>1, <2>2, NewestAtTheEnd
<1>3. ASSUME NEW o \in DOMAIN output
      PROVE  output[o].uk \in LiveKeys(sources)
  <2>1. output[o] \in InputEntries(sources)
    BY <1>2 DEF NewestVersions
  <2>2. \A f \in NewestVersions(sources, output[o].uk) : ~IsTombstone(f)
    BY <1>1, <1>2, NewestAgree DEF BottommostSoFar
  <2> QED BY <2>1, <2>2 DEF LiveKeys
<1>4. ASSUME NEW k \in LiveKeys(sources)
      PROVE  \E o \in DOMAIN output : output[o].uk = k
  <2>1. PICK f \in InputEntries(sources) : f.uk = k
    BY DEF LiveKeys
  <2>2. PICK m \in DOMAIN merged : merged[m] = f
    BY AllSeenAtTheEnd
  <2>3. ASSUME NEW n \in DOMAIN merged, merged[n].uk = k,
               IsTombstone(merged[n]), NewestSeen(merged[n])
        PROVE  FALSE
    <3>1. merged[n] \in NewestVersions(sources, k)
      BY <2>3, NewestAtTheEnd
    <3> QED BY <2>3, <3>1 DEF LiveKeys
  <2> QED BY <1>1, <2>1, <2>2, <2>3 DEF BottommostSoFar
<1>5. {output[o].uk : o \in DOMAIN output} = LiveKeys(sources)
  BY <1>3, <1>4
<1> QED BY <1>1, <1>2, <1>5 DEF IsBottommostOf, BottommostSoFar
-----------------------------------------------------------------------------
(* If some entries contain, for all others that a reader can see, one that *)
(* the reader can see too and that is no older, the reader gets the same   *)
(* answers from them.                                                      *)
LEMMA CoveredSameAnswer ==
    ASSUME NEW all \in SUBSET Entry, NEW some \in SUBSET all, NEW k, NEW r,
           \A e \in Visible(all, k, r) :
               \E o \in Visible(some, k, r) : e.packed <= o.packed
    PROVE  SameAnswer(all, some, k, r)
<1>1. ASSUME NEW o \in NewestOf(Visible(some, k, r))
      PROVE  o \in NewestOf(Visible(all, k, r))
  <2>1. o \in Visible(all, k, r) /\ o \in Entry
    BY DEF NewestOf, Visible
  <2>2. ASSUME NEW e \in Visible(all, k, r) PROVE e.packed <= o.packed
    <3>1. PICK p \in Visible(some, k, r) : e.packed <= p.packed
      OBVIOUS
    <3>2. p.packed <= o.packed
      BY DEF NewestOf
    <3>3. e \in Entry /\ p \in Entry
      BY DEF Visible
    <3> QED BY <2>1, <3>1, <3>2, <3>3, EntryFields
  <2> QED BY <2>1, <2>2 DEF NewestOf
<1>2. ASSUME NEW e \in NewestOf(Visible(all, k, r)), ~IsTombstone(e)
      PROVE  \E o \in NewestOf(Visible(some, k, r)) : ~IsTombstone(o)
  <2>1. e \in Visible(all, k, r) /\ e \in Entry
    BY DEF NewestOf, Visible
  <2>2. PICK o \in Visible(some, k, r) : e.packed <= o.packed
    BY <2>1
  <2>3. o \in Visible(all, k, r) /\ o \in Entry
    BY DEF Visible
  <2>4. o.packed = e.packed
    BY <2>1, <2>2, <2>3, EntryFields DEF NewestOf
  <2>5. o \in NewestOf(Visible(some, k, r))
    <3>1. \A p \in Visible(some, k, r) : p \in Visible(all, k, r)
      BY DEF Visible
    <3> QED BY <2>4, <3>1 DEF NewestOf
  <2> QED BY <1>2, <2>4, <2>5 DEF IsTombstone, TypeByte
<1>3. Get(some, k, r) \subseteq Get(all, k, r)
  BY <1>1 DEF Get
<1>4. Get(all, k, r) # {} => Get(some, k, r) # {}
  BY <1>2 DEF Get
<1> QED BY <1>3, <1>4 DEF SameAnswer

(* What the end of a compaction offers readers.                            *)
LEMMA OutputFromInput ==
    ASSUME IInv, phase = "done"
    PROVE  /\ InputEntries(sources) \in SUBSET Entry
           /\ ToSet(output) \in SUBSET InputEntries(sources)
           /\ \A e \in InputEntries(sources) : Seqno(e) <= MaxSeqno
<1>1. InputEntries(sources) \in SUBSET Entry
  BY AllSeenAtTheEnd, LastKeyGreatest
<1>2. \A o \in DOMAIN output : output[o] \in InputEntries(sources)
  BY AllSeenAtTheEnd DEF IInv, OutputWasSeen
<1>3. \A e \in InputEntries(sources) : Seqno(e) <= MaxSeqno
  BY AllSeenAtTheEnd, SeenBelowMax
<1> QED BY <1>1, <1>2, <1>3 DEF ToSet

LEMMA BottommostReaders ==
    ASSUME IInv, phase = "done", strategy.kind = "bottommost", NEW k
    PROVE  SameAnswer(InputEntries(sources), ToSet(output), k, MaxSeqno)
<1> DEFINE all == InputEntries(sources)
           some == ToSet(output)
<1>1. /\ all \in SUBSET Entry /\ some \in SUBSET all
      /\ \A e \in all : Seqno(e) <= MaxSeqno
  BY OutputFromInput
<1>2. IsBottommostOf(output, sources)
  BY ContractAtTheEnd DEF MeetsBottommostContract
<1>3. \A o \in some : o \in NewestVersions(sources, o.uk) /\ o.uk \in LiveKeys(sources)
  BY <1>2 DEF IsBottommostOf, ToSet
<1>4. \A u \in LiveKeys(sources) : \E o \in some : o.uk = u
  BY <1>2 DEF IsBottommostOf, ToSet
<1>5. NewestOf(Visible(all, k, MaxSeqno)) = NewestVersions(sources, k)
  BY <1>1 DEF NewestOf, Visible, NewestVersions
<1>6. CASE k \in LiveKeys(sources)
  <2>1. PICK o \in some : o.uk = k
    BY <1>4, <1>6
  <2>2. o \in NewestVersions(sources, k) /\ o \in Visible(some, k, MaxSeqno)
    BY <1>1, <1>3, <2>1 DEF Visible
  <2>3. \A e \in Visible(all, k, MaxSeqno) : e.packed <= o.packed
    BY <2>2 DEF Visible, NewestVersions
  <2> HIDE DEF all, some
  <2>4. SameAnswer(all, some, k, MaxSeqno)
    BY <1>1, <2>2, <2>3, CoveredSameAnswer
  <2> QED BY <2>4 DEF all, some
<1>7. CASE k \notin LiveKeys(sources)
  <2>1. Get(some, k, MaxSeqno) = {}
    BY <1>3, <1>7 DEF Get, NewestOf, Visible
  <2>2. \A e \in NewestVersions(sources, k) : IsTombstone(e)
    <3>1. SUFFICES ASSUME NEW e \in NewestVersions(sources, k) PROVE IsTombstone(e)
      OBVIOUS
    <3>2. k \in {f.uk : f \in all}
      BY DEF NewestVersions
    <3>3. PICK f \in NewestVersions(sources, k) : IsTombstone(f)
      BY <1>7, <3>2 DEF LiveKeys
    <3> QED BY <3>3, NewestAgree
  <2>3. Get(all, k, MaxSeqno) = {}
    BY <1>5, <2>2 DEF Get
  <2> QED BY <2>1, <2>3 DEF SameAnswer
<1> QED BY <1>6, <1>7

LEMMA OtherReaders ==
    ASSUME IInv, phase = "done", strategy.kind # "bottommost", NEW k, NEW r \in Readers
    PROVE  SameAnswer(InputEntries(sources), ToSet(output), k, r)
<1> DEFINE all == InputEntries(sources)
           some == ToSet(output)
<1>1. all \in SUBSET Entry /\ some \in SUBSET all
  BY OutputFromInput
<1>2. Covers(r)
  BY DEF IInv
<1>3. ASSUME NEW e \in Visible(all, k, r)
      PROVE  \E o \in Visible(some, k, r) : e.packed <= o.packed
  <2>1. PICK m \in DOMAIN merged : merged[m] = e
    BY AllSeenAtTheEnd DEF Visible
  <2>2. e.uk = k /\ Seqno(e) <= r
    BY DEF Visible
  <2>3. PICK o \in DOMAIN output :
            output[o].uk = k /\ Seqno(output[o]) <= r /\ e.packed <= output[o].packed
    BY <1>2, <2>1, <2>2 DEF Covers
  <2>4. output[o] \in Visible(some, k, r)
    BY <2>3 DEF Visible, ToSet
  <2> QED BY <2>3, <2>4
<1> HIDE DEF all, some
<1>4. SameAnswer(all, some, k, r)
  BY <1>1, <1>3, CoveredSameAnswer
<1> QED BY <1>4 DEF all, some

LEMMA ReadersAtTheEnd == IInv => ReadersUnaffected
<1> SUFFICES ASSUME IInv, phase = "done",
                    NEW k \in PlainKeys(InputEntries(sources)), NEW r \in Readers
             PROVE  SameAnswer(InputEntries(sources), ToSet(output), k, r)
  BY DEF ReadersUnaffected
<1>1. CASE strategy.kind = "bottommost"
  <2>1. r = MaxSeqno
    BY <1>1 DEF Readers
  <2> QED BY <1>1, <2>1, BottommostReaders
<1>2. CASE strategy.kind # "bottommost"
  BY <1>2, OtherReaders
<1> QED BY <1>1, <1>2

(* zero_out_seqno keeps the type byte and nothing of the sequence number.  *)
LEMMA ZeroedFields ==
    ASSUME NEW x \in Entry
    PROVE  LET z == ZeroOutSeqno(x)
           IN  /\ z \in Entry /\ z.uk = x.uk /\ z.val = x.val
               /\ Seqno(z) = 0
               /\ IsTombstone(z) <=> IsTombstone(x)
<1>1. /\ x.packed \in Nat /\ x.packed % 256 \in 0..255
      /\ (x.packed % 256) \div 256 = 0 /\ (x.packed % 256) % 256 = x.packed % 256
  BY DEF Entry
<1>2. ZeroOutSeqno(x).packed = x.packed % 256
  BY DEF ZeroOutSeqno, TypeByte, Entry
<1>3. ZeroOutSeqno(x) \in Entry /\ ZeroOutSeqno(x).uk = x.uk /\ ZeroOutSeqno(x).val = x.val
  BY <1>1 DEF ZeroOutSeqno, TypeByte, Entry
<1> QED BY <1>1, <1>2, <1>3 DEF Seqno, IsTombstone, TypeByte

LEMMA IngestAtTheEnd == IInv => IngestContract
<1> SUFFICES ASSUME IInv, phase = "done", external, strategy.kind = "bottommost"
             PROVE  /\ StrictlyAscending(file)
                    /\ \A i \in DOMAIN file : Seqno(file[i]) = 0
                    /\ \A k \in PlainKeys(InputEntries(sources)) :
                           SameAnswer(InputEntries(sources), ToSet(file), k, MaxSeqno)
  BY DEF IngestContract
<1>1. file = [n \in DOMAIN output |-> ZeroOutSeqno(output[n])]
  BY DEF IInv, Rewritten
<1>2. \A n \in DOMAIN output : output[n] \in Entry
  BY OutputBounds
<1>3. \A n \in DOMAIN output :
          /\ file[n].uk = output[n].uk /\ file[n].val = output[n].val
          /\ file[n].packed \in Nat
          /\ Seqno(file[n]) = 0
          /\ IsTombstone(file[n]) <=> IsTombstone(output[n])
  BY <1>1, <1>2, ZeroedFields, EntryFields
<1>4. \A i, j \in DOMAIN output : i < j => output[i].uk < output[j].uk
  BY DEF IInv, BottommostSoFar
<1>5. DOMAIN output \subseteq Nat /\ MaxSeqno \in Nat
  BY ParametersAssumption DEF IInv, TypeOK
<1>6. \A i, j \in DOMAIN output : output[i].uk = output[j].uk => i = j
  BY <1>2, <1>4, <1>5, EntryFields
<1>7. StrictlyAscending(file)
  BY <1>1, <1>3, <1>4 DEF StrictlyAscending, Less
<1>8. ASSUME NEW k
      PROVE  Get(ToSet(file), k, MaxSeqno) = Get(ToSet(output), k, MaxSeqno)
  <2>1. ASSUME NEW n \in DOMAIN output, output[n].uk = k
        PROVE  /\ NewestOf(Visible(ToSet(file), k, MaxSeqno)) = {file[n]}
               /\ NewestOf(Visible(ToSet(output), k, MaxSeqno)) = {output[n]}
    <3>1. Visible(ToSet(file), k, MaxSeqno) = {file[n]}
      BY <1>1, <1>3, <1>5, <1>6, <2>1 DEF Visible, ToSet
    <3>2. Seqno(output[n]) <= MaxSeqno
      BY OutputFromInput DEF ToSet
    <3>3. Visible(ToSet(output), k, MaxSeqno) = {output[n]}
      BY <1>6, <2>1, <3>2 DEF Visible, ToSet
    <3>4. file[n].packed \in Nat /\ output[n].packed \in Nat
      BY <1>2, <1>3, EntryFields
    <3> QED BY <3>1, <3>3, <3>4 DEF NewestOf
  <2>2. CASE \E n \in DOMAIN output : output[n].uk = k
    BY <1>3, <2>1, <2>2 DEF Get
  <2>3. CASE ~ \E n \in DOMAIN output : output[n].uk = k
    <3>1. Visible(ToSet(file), k, MaxSeqno) = {} /\ Visible(ToSet(output), k, MaxSeqno) = {}
      BY <1>1, <1>3, <2>3 DEF Visible, ToSet
    <3> QED BY <3>1 DEF Get, NewestOf
  <2> QED BY <2>2, <2>3
<1> QED BY <1>1, <1>3, <1>7, <1>8, BottommostReaders DEF SameAnswer
-----------------------------------------------------------------------------
(* The driver's state stays well typed.                                    *)
THEOREM TypeCorrect == Spec => []TypeOK
<1>1. IInv => TypeOK
  BY DEF IInv
<1> QED BY <1>1, InvariantIInv, PTL

(* Every strategy but the passthrough hands BlockBuilder::add strictly     *)
(* ascending keys, even when sources share keys.                           *)
THEOREM StrictOutput == Spec => []OutputStrictlyAscending
<1>1. IInv => OutputStrictlyAscending
  BY DEF IInv
<1> QED BY <1>1, InvariantIInv, PTL

(* SnapshotAwareStrategy's flag is exact at every step of the merge.       *)
THEOREM FlagExact == Spec => []KeptFlagExact
<1>1. IInv => KeptFlagExact
  BY DEF IInv
<1> QED BY <1>1, InvariantIInv, PTL

(* The bottommost compaction's output is what compact promises: of every   *)
(* key not deleted just a newest version, in key order.                    *)
THEOREM KeepsContract == Spec => []MeetsBottommostContract
BY ContractAtTheEnd, InvariantIInv, PTL

(* A compacted file answers every reader it has to serve as the inputs do: *)
(* the current one, the snapshot of SnapshotAwareStrategy and, after a     *)
(* passthrough, all of them.  The keys are those Get can read: no merge    *)
(* operands among their versions, and no range deletion in the sources.    *)
THEOREM ReadersServed == Spec => []ReadersUnaffected
BY ReadersAtTheEnd, InvariantIInv, PTL

(* An external file made by a bottommost compaction can be ingested: its   *)
(* keys are still strictly ascending once the sequence numbers are gone,   *)
(* and it answers the current reader as the inputs do, for the same keys.  *)
THEOREM IngestContractKept == Spec => []IngestContract
BY IngestAtTheEnd, InvariantIInv, PTL
-----------------------------------------------------------------------------
(* The call as its caller sees it: no panic, and one file when run is over *)
(* and the strategy is the bottommost one.                                 *)
JobStatus == IF phase = "done" THEN "ok" ELSE "running"
JobResult == IF phase = "done" THEN <<output>> ELSE <<>>

Job == INSTANCE CompactionJob
           WITH panicked <- FALSE, status <- JobStatus, result <- JobResult

(* A single file that keeps the contract keeps the job's.                  *)
LEMMA SameContract ==
    ASSUME NEW out, NEW input, IsBottommostOf(out, input)
    PROVE  Job!IsBottommostAcross(<<out>>, input)
<1>1. Job!InputEntries(input) = InputEntries(input)
  BY DEF InputEntries, Job!InputEntries, ToSet, Job!ToSet
<1>2. \A k : Job!NewestVersions(input, k) = NewestVersions(input, k)
  BY <1>1 DEF NewestVersions, Job!NewestVersions
<1>3. \A e : Job!IsTombstone(e) <=> IsTombstone(e)
  BY DEF IsTombstone, Job!IsTombstone, TypeByte, Job!TypeByte, TypeDeletion,
         Job!TypeDeletion, TypeSingleDeletion, Job!TypeSingleDeletion
<1>4. Job!LiveKeys(input) = LiveKeys(input)
  BY <1>1, <1>2, <1>3 DEF LiveKeys, Job!LiveKeys
<1>5. DOMAIN <<out>> = {1} /\ <<out>>[1] = out
  OBVIOUS
<1>6. UNION {{<<out>>[n][i].uk : i \in DOMAIN <<out>>[n]} : n \in DOMAIN <<out>>}
          = {out[i].uk : i \in DOMAIN out}
  BY <1>5
<1> QED BY <1>2, <1>4, <1>5, <1>6 DEF IsBottommostOf, Job!IsBottommostAcross

(* The merge is invisible; Finish is the return.                           *)
LEMMA StepsOfJob ==
    ASSUME [Next]_vars, MeetsBottommostContract', strategy.kind = "bottommost"
    PROVE  [Job!JobNext]_(Job!jobVars) /\ strategy'.kind = "bottommost"
<1> USE DEF Job!JobNext, Job!jobVars, JobStatus, JobResult
<1>1. ASSUME NEW i \in DOMAIN sources, Visit(i)
      PROVE  UNCHANGED Job!jobVars /\ strategy' = strategy
  BY <1>1 DEF Visit, Merging!Emit, Merging!Advance
<1>2. CASE Finish
  <2>1. phase = "merge" /\ phase' = "done" /\ UNCHANGED <<sources, output, strategy>>
    BY <1>2 DEF Finish, mergeVars
  <2>2. IsBottommostOf(output', sources')
    BY <2>1 DEF MeetsBottommostContract, IsBottommostOf, NewestVersions, LiveKeys,
       InputEntries
  <2>3. Job!IsBottommostAcross(<<output>>, sources)
    BY <2>1, <2>2, SameContract
  <2>4. Job!ReturnOk
    BY <2>1, <2>3 DEF Job!ReturnOk
  <2> QED BY <2>1, <2>4
<1>3. CASE UNCHANGED vars
  BY <1>3 DEF vars, mergeVars
<1> QED BY <1>1, <1>2, <1>3 DEF Next, Terminated

(* To its caller an unsharded bottommost compaction is the same job as a   *)
(* sharded one (CompactShardedProofs): one step that returns the whole     *)
(* compacted dataset.                                                      *)
THEOREM RefinesJob == Spec /\ strategy.kind = "bottommost" => Job!JobSafety
<1>1. Init => Job!JobInit
  BY DEF Init, Job!JobInit, JobStatus, JobResult
<1>2. Spec => [][Next]_vars /\ Init
  BY PTL DEF Spec
<1> DEFINE Bottommost == strategy.kind = "bottommost"
<1>3. [Next]_vars /\ MeetsBottommostContract' /\ Bottommost
          => [Job!JobNext]_(Job!jobVars) /\ Bottommost'
  BY StepsOfJob
<1>4. Spec /\ Bottommost => Job!JobInit /\ [][Job!JobNext]_(Job!jobVars)
  <2> HIDE DEF Bottommost
  <2> QED BY <1>1, <1>2, <1>3, KeepsContract, PTL
<1> QED BY <1>4 DEF Job!JobSafety
-----------------------------------------------------------------------------
(* The oracle.                                                             *)

(* A set with 0 in it and, with every n in it, n + 1, has every natural    *)
(* number in it.                                                           *)
LEMMA SetInduction ==
    ASSUME NEW T, 0 \in T, \A n \in Nat : n \in T => n + 1 \in T
    PROVE  \A n \in Nat : n \in T
<1> DEFINE Bad == Nat \ T
<1> SUFFICES ASSUME Bad # {} PROVE FALSE
  OBVIOUS
<1>1. PICK x \in Bad : \A y \in Bad : ~(<<y, x>> \in OpToRel(<, Nat))
  BY NatLessThanWellFounded, WFMin, Bad \subseteq Nat
<1>2. \A y \in Bad : ~(y < x)
  BY <1>1 DEF OpToRel
<1>3. x \in Nat /\ x # 0 /\ x - 1 \in Nat /\ (x - 1) + 1 = x /\ x - 1 < x
  OBVIOUS
<1>4. x - 1 \in T
  BY <1>2, <1>3
<1> QED BY <1>3, <1>4

(* The inner loop of naive_compact, turn by turn.                          *)
LEMMA EntryByEntry ==
    ASSUME NEW best, NEW source, Len(source) \in Nat
    PROVE  /\ AfterEntries(best, source)[0] = best
           /\ \A n \in 1..Len(source) :
                  AfterEntries(best, source)[n] =
                      Insert(AfterEntries(best, source)[n - 1], source[n])
<1> DEFINE body(f, m) == [n \in 0..m |-> IF n = 0 THEN best ELSE Insert(f[n - 1], source[n])]
           T == {m \in Nat : \E f : f = body(f, m)}
           A == AfterEntries(best, source)
           L == Len(source)
<1>0. A = CHOOSE f : f = body(f, L)
  BY Zenon DEF AfterEntries
<1>1. 0 \in T
  <2> DEFINE f == [n \in 0..0 |-> best]
  <2>1. f = body(f, 0)
    OBVIOUS
  <2> QED BY <2>1
<1>2. ASSUME NEW m \in Nat, m \in T PROVE m + 1 \in T
  <2>1. PICK f : f = body(f, m)
    BY <1>2
  <2> DEFINE g == [n \in 0..(m + 1) |-> IF n <= m THEN f[n] ELSE Insert(f[m], source[m + 1])]
  <2>2. ASSUME NEW n \in 0..(m + 1) PROVE g[n] = body(g, m + 1)[n]
    <3>1. CASE n = 0
      BY <2>1, <3>1
    <3>2. CASE n # 0 /\ n <= m
      <4>1. n - 1 \in 0..m /\ n \in 0..m
        BY <3>2
      <4>2. f[n] = Insert(f[n - 1], source[n])
        BY <2>1, <3>2, <4>1
      <4> QED BY <3>2, <4>1, <4>2
    <3>3. CASE n = m + 1
      <4>1. n # 0 /\ ~(n <= m) /\ n - 1 = m /\ m <= m
        BY <3>3
      <4> QED BY <3>3, <4>1
    <3> QED BY <3>1, <3>2, <3>3
  <2>3. g = body(g, m + 1)
    BY <2>2
  <2>4. \E h : h = body(h, m + 1)
    <3> HIDE DEF g, body
    <3> QED BY <2>3, Zenon
  <2> QED BY <2>4
<1> HIDE DEF T
<1>3. L \in T
  BY <1>1, <1>2, SetInduction
<1>4. A = body(A, L)
  <2>1. \E f : f = body(f, L)
    BY <1>3 DEF T
  <2> HIDE DEF body, A
  <2> QED BY <1>0, <2>1, Zenon
<1>5. 0 \in 0..L /\ \A n \in 1..L : n \in 0..L /\ n # 0
  OBVIOUS
<1> HIDE DEF body, A
<1>6. \A n \in 0..L : A[n] = IF n = 0 THEN best ELSE Insert(A[n - 1], source[n])
  BY <1>4 DEF body
<1> QED BY <1>5, <1>6 DEF A

(* The outer loop, source by source.                                       *)
LEMMA SourceBySource ==
    ASSUME NEW input, Len(input) \in Nat
    PROVE  /\ AfterSources(input)[0] = [k \in {} |-> <<>>]
           /\ \A n \in 1..Len(input) :
                  AfterSources(input)[n] =
                      AfterEntries(AfterSources(input)[n - 1], input[n])[Len(input[n])]
<1> DEFINE next(b, n) == AfterEntries(b, input[n])[Len(input[n])]
           none == [k \in {} |-> <<>>]
           body(f, m) == [n \in 0..m |-> IF n = 0 THEN none ELSE next(f[n - 1], n)]
           T == {m \in Nat : \E f : f = body(f, m)}
           A == AfterSources(input)
           L == Len(input)
<1>0. A = CHOOSE f : f = body(f, L)
  BY Zenon DEF AfterSources
<1> HIDE DEF next, none
<1>1. 0 \in T
  <2> DEFINE f == [n \in 0..0 |-> none]
  <2>1. f = body(f, 0)
    OBVIOUS
  <2> QED BY <2>1
<1>2. ASSUME NEW m \in Nat, m \in T PROVE m + 1 \in T
  <2>1. PICK f : f = body(f, m)
    BY <1>2
  <2> DEFINE g == [n \in 0..(m + 1) |-> IF n <= m THEN f[n] ELSE next(f[m], m + 1)]
  <2>2. ASSUME NEW n \in 0..(m + 1) PROVE g[n] = body(g, m + 1)[n]
    <3>1. CASE n = 0
      BY <2>1, <3>1
    <3>2. CASE n # 0 /\ n <= m
      <4>1. n - 1 \in 0..m /\ n \in 0..m
        BY <3>2
      <4>2. f[n] = next(f[n - 1], n)
        BY <2>1, <3>2, <4>1
      <4> QED BY <3>2, <4>1, <4>2
    <3>3. CASE n = m + 1
      <4>1. n # 0 /\ ~(n <= m) /\ n - 1 = m /\ m <= m
        BY <3>3
      <4> QED BY <3>3, <4>1
    <3> QED BY <3>1, <3>2, <3>3
  <2>3. g = body(g, m + 1)
    BY <2>2
  <2>4. \E h : h = body(h, m + 1)
    <3> HIDE DEF g, body
    <3> QED BY <2>3, Zenon
  <2> QED BY <2>4
<1> HIDE DEF T
<1>3. L \in T
  BY <1>1, <1>2, SetInduction
<1>4. A = body(A, L)
  <2>1. \E f : f = body(f, L)
    BY <1>3 DEF T
  <2> HIDE DEF body, A
  <2> QED BY <1>0, <2>1, Zenon
<1>5. 0 \in 0..L /\ \A n \in 1..L : n \in 0..L /\ n # 0
  OBVIOUS
<1> HIDE DEF body, A
<1>6. \A n \in 0..L : A[n] = IF n = 0 THEN none ELSE next(A[n - 1], n)
  BY <1>4 DEF body
<1> QED BY <1>5, <1>6 DEF next, none, A

(* What the map remembers of an entry, and what it is once the entries of  *)
(* S have been put in: for every key, of a newest version.                 *)
Remembered(e) == [seq |-> Seqno(e), value |-> e.val, is_tombstone |-> IsTombstone(e)]
NewestSeqIn(S, e) == \A f \in S : f.uk = e.uk => Seqno(f) <= Seqno(e)
IsBestOf(best, S) ==
    /\ DOMAIN best = {e.uk : e \in S}
    /\ \A k \in DOMAIN best :
           \E e \in S : e.uk = k /\ best[k] = Remembered(e) /\ NewestSeqIn(S, e)

LEMMA InsertKeepsBest ==
    ASSUME NEW S, S \subseteq Entry, NEW e \in Entry, NEW best, IsBestOf(best, S)
    PROVE  IsBestOf(Insert(best, e), S \cup {e})
<1> DEFINE U == S \cup {e}
           replaced == [k \in DOMAIN best \cup {e.uk} |->
                          IF k = e.uk THEN Remembered(e) ELSE best[k]]
<1>1. Insert(best, e) = IF e.uk \in DOMAIN best /\ best[e.uk].seq >= Seqno(e)
                        THEN best ELSE replaced
  BY DEF Insert, Remembered
<1>2. \A x \in U : Seqno(x) \in Nat /\ x \in Entry
  BY EntryFields
<1>3. \A x : Remembered(x).seq = Seqno(x)
  BY DEF Remembered
<1>4. DOMAIN replaced = {x.uk : x \in U} /\ replaced[e.uk] = Remembered(e)
      /\ \A k \in DOMAIN best : k # e.uk => replaced[k] = best[k]
  BY DEF IsBestOf
<1> HIDE DEF replaced
<1>5. \A k \in DOMAIN best : k # e.uk =>
          \E x \in U : x.uk = k /\ best[k] = Remembered(x) /\ NewestSeqIn(U, x)
  BY DEF IsBestOf, NewestSeqIn
<1>6. CASE e.uk \in DOMAIN best /\ best[e.uk].seq >= Seqno(e)
  <2>1. PICK x \in S : x.uk = e.uk /\ best[e.uk] = Remembered(x) /\ NewestSeqIn(S, x)
    BY <1>6 DEF IsBestOf
  <2>2. NewestSeqIn(U, x)
    BY <1>3, <1>6, <2>1 DEF NewestSeqIn
  <2>3. DOMAIN best = {y.uk : y \in U}
    BY <1>6 DEF IsBestOf
  <2>4. IsBestOf(best, U)
    BY <1>5, <2>1, <2>2, <2>3 DEF IsBestOf
  <2> QED BY <1>1, <1>6, <2>4
<1>7. CASE ~(e.uk \in DOMAIN best /\ best[e.uk].seq >= Seqno(e))
  <2>1. NewestSeqIn(U, e)
    <3>1. CASE e.uk \notin DOMAIN best
      <4>1. \A x \in S : x.uk # e.uk
        BY <3>1 DEF IsBestOf
      <4> QED BY <1>2, <4>1 DEF NewestSeqIn
    <3>2. CASE e.uk \in DOMAIN best
      <4>1. PICK x \in S : x.uk = e.uk /\ best[e.uk] = Remembered(x) /\ NewestSeqIn(S, x)
        BY <3>2 DEF IsBestOf
      <4>2. Seqno(x) < Seqno(e)
        BY <1>2, <1>3, <1>7, <3>2, <4>1
      <4> QED BY <1>2, <4>1, <4>2 DEF NewestSeqIn
    <3> QED BY <3>1, <3>2
  <2>2. IsBestOf(replaced, U)
    <3>1. ASSUME NEW k \in DOMAIN replaced
          PROVE  \E x \in U : x.uk = k /\ replaced[k] = Remembered(x) /\ NewestSeqIn(U, x)
      <4>1. CASE k = e.uk
        BY <1>4, <2>1, <4>1
      <4>2. CASE k # e.uk
        <5>1. k \in DOMAIN best
          BY <1>4, <4>2 DEF IsBestOf
        <5> QED BY <1>4, <1>5, <4>2, <5>1
      <4> QED BY <4>1, <4>2
    <3> QED BY <1>4, <3>1 DEF IsBestOf
  <2> QED BY <1>1, <1>7, <2>2
<1> QED BY <1>6, <1>7

LEMMA SourceKeepsBest ==
    ASSUME NEW S, S \subseteq Entry, NEW source \in Seq(Entry), NEW best, IsBestOf(best, S)
    PROVE  IsBestOf(AfterEntries(best, source)[Len(source)], S \cup ToSet(source))
<1> DEFINE A == AfterEntries(best, source)
           L == Len(source)
           upto(n) == S \cup {source[m] : m \in 1..n}
           T == {n \in Nat : n <= L => IsBestOf(A[n], upto(n))}
<1>0. L \in Nat /\ DOMAIN source = 1..L
  OBVIOUS
<1>1. A[0] = best /\ \A n \in 1..L : A[n] = Insert(A[n - 1], source[n])
  BY <1>0, EntryByEntry
<1> HIDE DEF A
<1>2. 0 \in T
  <2>1. upto(0) = S
    OBVIOUS
  <2> HIDE DEF upto
  <2> QED BY <1>1, <2>1
<1>3. ASSUME NEW n \in Nat, n \in T PROVE n + 1 \in T
  <2> SUFFICES ASSUME n + 1 <= L PROVE IsBestOf(A[n + 1], upto(n + 1))
    OBVIOUS
  <2>1. n + 1 \in 1..L /\ (n + 1) - 1 = n /\ IsBestOf(A[n], upto(n))
    BY <1>0, <1>3
  <2>2. upto(n + 1) = upto(n) \cup {source[n + 1]}
    <3>1. 1..(n + 1) = (1..n) \cup {n + 1}
      OBVIOUS
    <3> QED BY <3>1
  <2>3. upto(n) \subseteq Entry /\ source[n + 1] \in Entry
    BY <1>0, <2>1
  <2> HIDE DEF upto
  <2>4. IsBestOf(Insert(A[n], source[n + 1]), upto(n) \cup {source[n + 1]})
    BY <2>1, <2>3, InsertKeepsBest
  <2> QED BY <1>1, <2>1, <2>2, <2>4
<1> HIDE DEF T
<1>4. L \in T
  BY <1>0, <1>2, <1>3, SetInduction
<1>5. upto(L) = S \cup ToSet(source)
  BY <1>0 DEF ToSet
<1> HIDE DEF upto
<1>6. IsBestOf(A[L], upto(L))
  BY <1>0, <1>4 DEF T
<1> QED BY <1>5, <1>6 DEF A

LEMMA BestOfInput ==
    ASSUME NEW input \in Seq(Seq(Entry))
    PROVE  IsBestOf(Best(input), InputEntries(input))
<1> DEFINE A == AfterSources(input)
           L == Len(input)
           upto(n) == UNION {ToSet(input[m]) : m \in 1..n}
           T == {n \in Nat : n <= L => IsBestOf(A[n], upto(n))}
<1>0. L \in Nat /\ DOMAIN input = 1..L /\ \A n \in 1..L : input[n] \in Seq(Entry)
  OBVIOUS
<1>1. /\ A[0] = [k \in {} |-> <<>>]
      /\ \A n \in 1..L : A[n] = AfterEntries(A[n - 1], input[n])[Len(input[n])]
  BY <1>0, SourceBySource
<1> HIDE DEF A
<1>2. 0 \in T
  <2>1. upto(0) = {}
    OBVIOUS
  <2>2. IsBestOf([k \in {} |-> <<>>], {})
    BY DEF IsBestOf
  <2> HIDE DEF upto
  <2> QED BY <1>1, <2>1, <2>2
<1>3. ASSUME NEW n \in Nat, n \in T PROVE n + 1 \in T
  <2> SUFFICES ASSUME n + 1 <= L PROVE IsBestOf(A[n + 1], upto(n + 1))
    OBVIOUS
  <2>1. n + 1 \in 1..L /\ (n + 1) - 1 = n /\ IsBestOf(A[n], upto(n))
    BY <1>0, <1>3
  <2>2. upto(n + 1) = upto(n) \cup ToSet(input[n + 1])
    <3>1. 1..(n + 1) = (1..n) \cup {n + 1}
      OBVIOUS
    <3> QED BY <3>1
  <2>3. upto(n) \subseteq Entry /\ input[n + 1] \in Seq(Entry)
    <3>1. \A m \in 1..n : input[m] \in Seq(Entry)
      BY <1>0, <2>1
    <3>2. \A m \in 1..n : ToSet(input[m]) \subseteq Entry
      BY <3>1 DEF ToSet
    <3> QED BY <1>0, <2>1, <3>2
  <2> HIDE DEF upto
  <2>4. IsBestOf(AfterEntries(A[n], input[n + 1])[Len(input[n + 1])],
                 upto(n) \cup ToSet(input[n + 1]))
    BY <2>1, <2>3, SourceKeepsBest
  <2> QED BY <1>1, <2>1, <2>2, <2>4
<1> HIDE DEF T
<1>4. L \in T
  BY <1>0, <1>2, <1>3, SetInduction
<1>5. upto(L) = InputEntries(input)
  BY <1>0 DEF InputEntries
<1> HIDE DEF upto
<1>6. IsBestOf(A[L], upto(L))
  BY <1>0, <1>4 DEF T
<1> QED BY <1>5, <1>6 DEF A, Best
-----------------------------------------------------------------------------
Onto(p, L) == \A m \in 1..L : \E n \in 1..L : p[n] = m
KeepsOrder(p, L) == \A n, m \in 1..L : n < m => p[n] <= p[m]

(* A map of 1..L onto itself that keeps the order moves nothing.           *)
LEMMA MonotoneSurjection ==
    ASSUME NEW L \in Nat, NEW p \in [1..L -> 1..L], Onto(p, L), KeepsOrder(p, L)
    PROVE  \A n \in 1..L : p[n] = n
<1> SUFFICES ASSUME L # 0 PROVE \A n \in 1..L : p[n] = n
  OBVIOUS
<1>a. 1 \in 1..L /\ L \in 1..L
  OBVIOUS
<1>b. \A n \in 1..L : p[n] \in 1..L
  OBVIOUS
<1>c. \A n \in 1..L : n \in Nat /\ 1 <= n /\ n <= L
  OBVIOUS
<1>0. /\ 1 \in 1..L /\ L \in 1..L
      /\ \A n \in 1..L : n \in Nat /\ p[n] \in 1..L /\ p[n] \in Nat
  BY <1>a, <1>b, <1>c
<1>1. p[1] = 1 /\ p[L] = L
  <2>1. PICK a \in 1..L : p[a] = 1
    BY <1>0 DEF Onto
  <2>2. PICK b \in 1..L : p[b] = L
    BY <1>0 DEF Onto
  <2>3. (a = 1 \/ 1 < a) /\ (b = L \/ b < L)
    <3>1. a \in Nat /\ 1 <= a /\ b \in Nat /\ b <= L
      BY <1>c
    <3> QED BY <3>1, SMT
  <2>4. p[1] <= 1
    BY <1>0, <2>1, <2>3 DEF KeepsOrder
  <2>5. L <= p[L]
    BY <1>0, <2>2, <2>3 DEF KeepsOrder
  <2> QED BY <1>0, <2>4, <2>5
<1>2. ASSUME NEW n \in 1..L, n + 1 \in 1..L PROVE p[n + 1] <= p[n] + 1
  <2> DEFINE a == p[n]
             b == p[n + 1]
  <2>0. n \in Nat /\ a \in Nat /\ b \in Nat /\ 1 <= a /\ b <= L
    BY <1>0, <1>2, <1>c
  <2>1. ASSUME NEW j \in 1..L PROVE p[j] <= a \/ b <= p[j]
    <3>2. j < n \/ j = n \/ j = n + 1 \/ n + 1 < j
      OBVIOUS
    <3>3. j = n => p[j] <= a
      BY <1>0
    <3>4. j = n + 1 => b <= p[j]
      BY <1>0
    <3>5. j < n => p[j] <= a
      BY DEF KeepsOrder
    <3>6. n + 1 < j => b <= p[j]
      BY <1>2 DEF KeepsOrder
    <3> HIDE DEF a, b
    <3> QED BY <3>2, <3>3, <3>4, <3>5, <3>6, Zenon
  <2> HIDE DEF a, b
  <2>2. ASSUME a + 1 < b PROVE FALSE
    <3>1. a + 1 \in 1..L
      BY <2>0, <2>2
    <3>2. PICK j \in 1..L : p[j] = a + 1
      BY <3>1 DEF Onto
    <3>3. a + 1 <= a \/ b <= a + 1
      BY <2>1, <3>2
    <3> QED BY <2>0, <2>2, <3>3
  <2>3. b <= a + 1
    BY <2>0, <2>2
  <2> QED BY <2>3 DEF a, b
<1> DEFINE Up == {n \in Nat : n < L => p[n + 1] <= n + 1}
           Down == {n \in Nat : n < L => p[L - n] >= L - n}
<1>3. \A n \in Nat : n \in Up
  <2>1. 0 \in Up
    BY <1>1
  <2>2. ASSUME NEW n \in Nat, n \in Up PROVE n + 1 \in Up
    <3> SUFFICES ASSUME n + 1 < L PROVE p[(n + 1) + 1] <= (n + 1) + 1
      OBVIOUS
    <3>1. n + 1 \in 1..L /\ (n + 1) + 1 \in 1..L /\ p[n + 1] <= n + 1
      BY <2>2
    <3>2. p[(n + 1) + 1] <= p[n + 1] + 1
      BY <1>2, <3>1
    <3>3. p[n + 1] \in Nat /\ p[(n + 1) + 1] \in Nat
      BY <1>0, <3>1
    <3> QED BY <3>1, <3>2, <3>3
  <2> HIDE DEF Up
  <2> QED BY <2>1, <2>2, SetInduction
<1>4. \A n \in Nat : n \in Down
  <2>1. 0 \in Down
    BY <1>0, <1>1
  <2>2. ASSUME NEW n \in Nat, n \in Down PROVE n + 1 \in Down
    <3> SUFFICES ASSUME n + 1 < L PROVE p[L - (n + 1)] >= L - (n + 1)
      OBVIOUS
    <3> DEFINE k == L - (n + 1)
    <3>1. k \in 1..L /\ k + 1 \in 1..L /\ k + 1 = L - n /\ p[k + 1] >= k + 1
      BY <2>2
    <3>2. p[k + 1] <= p[k] + 1
      BY <1>2, <3>1
    <3>3. p[k] \in Nat /\ p[k + 1] \in Nat
      BY <1>0, <3>1
    <3> QED BY <3>1, <3>2, <3>3
  <2> HIDE DEF Down
  <2> QED BY <2>1, <2>2, SetInduction
<1>5. ASSUME NEW n \in 1..L PROVE p[n] = n
  <2>1. n - 1 \in Nat /\ L - n \in Nat /\ (n - 1) + 1 = n /\ L - (L - n) = n
        /\ n - 1 < L /\ L - n < L
    OBVIOUS
  <2>2. n - 1 \in Up /\ L - n \in Down
    BY <1>3, <1>4, <2>1
  <2>3. p[n] <= n /\ p[n] >= n
    BY <2>1, <2>2
  <2> QED BY <1>0, <2>3
<1> QED BY <1>5

(* decode_sst_entries sorts what it has read; of a file whose user keys    *)
(* ascend, that moves nothing.                                             *)
LEMMA DecodedInPlace ==
    ASSUME NEW L \in Nat, NEW f, DOMAIN f = 1..L,
           \A n \in 1..L : f[n].uk \in Nat,
           \A n, m \in 1..L : n < m => f[n].uk < f[m].uk
    PROVE  DecodeSstEntries(f) = [n \in 1..L |-> <<f[n].uk, f[n].val>>]
<1> DEFINE pairs == [n \in DOMAIN f |-> <<f[n].uk, f[n].val>>]
           Sorts(p) == /\ \A m \in DOMAIN f : \E n \in DOMAIN f : p[n] = m
                       /\ \A n, m \in DOMAIN f :
                              n < m => ~PairBefore(pairs[p[m]], pairs[p[n]])
           order == CHOOSE p \in [DOMAIN f -> DOMAIN f] : Sorts(p)
           id == [n \in DOMAIN f |-> n]
<1>1. \A i, j \in 1..L : i < j => ~PairBefore(pairs[j], pairs[i])
  <2> SUFFICES ASSUME NEW i \in 1..L, NEW j \in 1..L, i < j
               PROVE  ~PairBefore(pairs[j], pairs[i])
    OBVIOUS
  <2>1. f[i].uk < f[j].uk /\ f[i].uk \in Nat /\ f[j].uk \in Nat
    OBVIOUS
  <2>2. pairs[i][1] = f[i].uk /\ pairs[j][1] = f[j].uk
    OBVIOUS
  <2> QED BY <2>1, <2>2 DEF PairBefore
<1>2. \A i, j \in 1..L : ~PairBefore(pairs[j], pairs[i]) => i <= j
  <2> SUFFICES ASSUME NEW i \in 1..L, NEW j \in 1..L, j < i
               PROVE  PairBefore(pairs[j], pairs[i])
    OBVIOUS
  <2>1. f[j].uk < f[i].uk
    OBVIOUS
  <2>2. pairs[i][1] = f[i].uk /\ pairs[j][1] = f[j].uk
    OBVIOUS
  <2> QED BY <2>1, <2>2 DEF PairBefore
<1>3. id \in [DOMAIN f -> DOMAIN f] /\ Sorts(id)
  <2>1. \A m \in DOMAIN f : \E n \in DOMAIN f : id[n] = m
    OBVIOUS
  <2>2. \A n, m \in DOMAIN f : n < m => ~PairBefore(pairs[id[m]], pairs[id[n]])
    <3> HIDE DEF pairs
    <3> QED BY <1>1
  <2> HIDE DEF pairs
  <2> QED BY <2>1, <2>2
<1>4. order \in [DOMAIN f -> DOMAIN f] /\ Sorts(order)
  <2> HIDE DEF id, Sorts
  <2> QED BY <1>3, Zenon
<1> HIDE DEF order
<1>5. \A n \in 1..L : order[n] = n
  <2>1. \A n, m \in 1..L : n < m => order[n] <= order[m]
    <3> HIDE DEF pairs
    <3> QED BY <1>2, <1>4
  <2> HIDE DEF pairs
  <2> QED BY <1>4, <2>1, MonotoneSurjection DEF Onto, KeepsOrder
<1>6. DecodeSstEntries(f) = [n \in DOMAIN f |-> pairs[order[n]]]
  BY Zenon DEF DecodeSstEntries, order
<1> QED BY <1>5, <1>6

(* into_iter of a map whose keys are those of an ascending list t.         *)
LEMMA KeysInOrder ==
    ASSUME NEW L \in Nat, NEW t \in [1..L -> Nat],
           \A n, m \in 1..L : n < m => t[n] < t[m]
    PROVE  InKeyOrder({t[n] : n \in 1..L}) = t
<1> DEFINE keys == {t[n] : n \in 1..L}
           InOrder(s) == /\ \A n, m \in DOMAIN s : n < m => s[n] < s[m]
                         /\ ToSet(s) = keys
           s == InKeyOrder(keys)
<1>1. Cardinality(keys) = L
  <2>1. \A n, m \in 1..L : t[n] = t[m] => n = m
    OBVIOUS
  <2>2. t \in Bijection(1..L, keys)
    BY <2>1 DEF Bijection, Injection, Surjection, IsInjective
  <2>3. ExistsBijection(1..L, keys)
    BY <2>2 DEF ExistsBijection
  <2> QED BY <2>3, FS_CountingElements
<1>2. t \in [1..L -> keys] /\ InOrder(t)
  BY DEF ToSet
<1>3. s = CHOOSE u \in [1..L -> keys] : InOrder(u)
  <2> HIDE DEF keys
  <2> QED BY <1>1, Zenon DEF InKeyOrder
<1>4. s \in [1..L -> keys] /\ InOrder(s)
  <2> HIDE DEF keys, InOrder, s
  <2> QED BY <1>2, <1>3, Zenon
<1> HIDE DEF s
<1>5. \A n \in 1..L : \E m \in 1..L : t[m] = s[n]
  BY <1>4
<1> DEFINE p == [n \in 1..L |-> CHOOSE m \in 1..L : t[m] = s[n]]
<1>6. p \in [1..L -> 1..L] /\ \A n \in 1..L : t[p[n]] = s[n]
  BY <1>5
<1> HIDE DEF p
<1>7. \A m \in 1..L : \E n \in 1..L : p[n] = m
  <2> SUFFICES ASSUME NEW m \in 1..L PROVE \E n \in 1..L : p[n] = m
    OBVIOUS
  <2>1. PICK n \in 1..L : s[n] = t[m]
    BY <1>4 DEF ToSet
  <2>2. t[p[n]] = t[m] /\ p[n] \in 1..L
    BY <1>6, <2>1
  <2>3. p[n] = m
    <3>1. ~(p[n] < m) /\ ~(m < p[n])
      <4>1. t[m] \in Nat /\ t[p[n]] \in Nat
        BY <2>2
      <4> QED BY <2>2, <4>1
    <3> QED BY <2>2, <3>1
  <2> QED BY <2>3
<1>8. \A n, m \in 1..L : n < m => p[n] <= p[m]
  <2> SUFFICES ASSUME NEW n \in 1..L, NEW m \in 1..L, n < m PROVE p[n] <= p[m]
    OBVIOUS
  <2>1. s[n] < s[m]
    BY <1>4
  <2>2. t[p[n]] < t[p[m]] /\ p[n] \in 1..L /\ p[m] \in 1..L
    BY <1>6, <2>1
  <2>3. ~(p[m] < p[n])
    <3>1. t[p[n]] \in Nat /\ t[p[m]] \in Nat
      BY <2>2
    <3> QED BY <2>2, <3>1
  <2> QED BY <2>2, <2>3
<1>9. \A n \in 1..L : p[n] = n
  BY <1>6, <1>7, <1>8, MonotoneSurjection DEF Onto, KeepsOrder
<1>10. s = t
  <2>1. \A n \in 1..L : s[n] = t[n]
    BY <1>6, <1>9
  <2> QED BY <1>4, <2>1
<1> QED BY <1>10 DEF s

(* On well-formed input the map remembers, of every key, its one newest    *)
(* version, whichever of the two rules for ties is asked.                  *)
LEMMA BestIsNewest ==
    ASSUME NEW input \in Seq(Seq(Entry)), WellFormed(input), NEW k \in DOMAIN Best(input)
    PROVE  \E e : NewestVersions(input, k) = {e} /\ Best(input)[k] = Remembered(e)
<1> DEFINE E == InputEntries(input)
           best == Best(input)
<1>1. IsBestOf(best, E)
  BY BestOfInput
<1>2. PICK e \in E : e.uk = k /\ best[k] = Remembered(e) /\ NewestSeqIn(E, e)
  BY <1>1 DEF IsBestOf
<1> HIDE DEF best
<1>3. \A f \in E : f \in Entry /\ f.packed \in Nat /\ Seqno(f) \in Nat
  <2>1. \A i \in DOMAIN input : ToSet(input[i]) \subseteq Entry
    BY DEF ToSet
  <2> QED BY <2>1, EntryFields DEF InputEntries
<1> HIDE DEF E
<1>4. ASSUME NEW f \in E, f.uk = k, f # e PROVE f.packed < e.packed
  <2>1. Seqno(f) # Seqno(e)
    BY <1>2, <1>4 DEF WellFormed, E
  <2>2. Seqno(e) > Seqno(f)
    BY <1>2, <1>3, <1>4, <2>1 DEF NewestSeqIn
  <2> QED BY <1>2, <1>3, <1>4, <2>2, SeqnoMonotone
<1>5. e \in NewestVersions(input, k)
  <2>1. ASSUME NEW f \in E, f.uk = k PROVE f.packed <= e.packed
    BY <1>2, <1>3, <1>4, <2>1
  <2> QED BY <1>2, <2>1 DEF NewestVersions, E
<1>6. ASSUME NEW f \in NewestVersions(input, k) PROVE f = e
  <2>1. f \in E /\ f.uk = k /\ e.packed <= f.packed
    BY <1>2 DEF NewestVersions, E
  <2>2. ~(f.packed < e.packed)
    BY <1>2, <1>3, <2>1
  <2> QED BY <1>4, <2>1, <2>2
<1>7. NewestVersions(input, k) = {e}
  BY <1>5, <1>6
<1> QED BY <1>2, <1>7 DEF best

(* An output that keeps compact's promise on well-formed input has, in     *)
(* order, the keys and values the oracle returns.                          *)
LEMMA ContractIsOracle ==
    ASSUME NEW input \in Seq(Seq(Entry)), WellFormed(input),
           NEW out \in Seq(Entry), IsBottommostOf(out, input)
    PROVE  NaiveCompact(input) = [n \in 1..Len(out) |-> <<out[n].uk, out[n].val>>]
<1> DEFINE best == Best(input)
           live == {k \in DOMAIN best : ~best[k].is_tombstone}
           L == Len(out)
           t == [n \in 1..L |-> out[n].uk]
<1>0. L \in Nat /\ DOMAIN out = 1..L /\ \A n \in 1..L : out[n] \in Entry /\ out[n].uk \in Nat
  BY EntryFields
<1>1. \A e : Remembered(e).value = e.val /\ Remembered(e).is_tombstone = IsTombstone(e)
  BY DEF Remembered
<1>2. DOMAIN best = {e.uk : e \in InputEntries(input)}
  BY BestOfInput DEF IsBestOf
<1>3. \A k \in DOMAIN best :
          \E e : NewestVersions(input, k) = {e} /\ best[k] = Remembered(e)
  BY BestIsNewest
<1> HIDE DEF best
<1>4. live = LiveKeys(input)
  <2>1. ASSUME NEW k \in DOMAIN best
        PROVE  k \in live <=> \A e \in NewestVersions(input, k) : ~IsTombstone(e)
    <3>1. PICK e : NewestVersions(input, k) = {e} /\ best[k] = Remembered(e)
      BY <1>3
    <3> QED BY <1>1, <3>1
  <2> QED BY <1>2, <2>1 DEF LiveKeys
<1>5. live = {t[n] : n \in 1..L}
  <2>1. live = {out[n].uk : n \in 1..L}
    BY <1>0, <1>4 DEF IsBottommostOf
  <2> HIDE DEF live, L
  <2> QED BY <2>1
<1>6. InKeyOrder(live) = t
  <2>1. t \in [1..L -> Nat] /\ \A n, m \in 1..L : n < m => t[n] < t[m]
    BY <1>0 DEF IsBottommostOf
  <2> HIDE DEF t, live, L
  <2> QED BY <1>0, <1>5, <2>1, KeysInOrder
<1>7. ASSUME NEW n \in 1..L PROVE best[t[n]].value = out[n].val
  <2>1. t[n] = out[n].uk /\ t[n] \in live /\ t[n] \in DOMAIN best
    BY <1>5
  <2>2. PICK e : NewestVersions(input, t[n]) = {e} /\ best[t[n]] = Remembered(e)
    BY <1>3, <2>1
  <2>3. out[n] = e
    BY <1>0, <2>1, <2>2 DEF IsBottommostOf
  <2> QED BY <1>1, <2>2, <2>3
<1>8. NaiveCompact(input) = [n \in DOMAIN t |-> <<t[n], best[t[n]].value>>]
  <2> DEFINE keys == InKeyOrder(live)
  <2>1. NaiveCompact(input) = [n \in DOMAIN keys |-> <<keys[n], best[keys[n]].value>>]
    BY DEF NaiveCompact, best
  <2> HIDE DEF keys, t, live
  <2>2. keys = t
    BY <1>6 DEF keys
  <2> QED BY <2>1, <2>2
<1> QED BY <1>7, <1>8

(* The trial's comparison on well-formed input.                            *)
LEMMA AgreesOnWellFormed ==
    ASSUME IInv, phase = "done", strategy.kind = "bottommost", WellFormed(sources)
    PROVE  DecodeSstEntries(file) = NaiveCompact(sources)
<1> DEFINE L == Len(output)
<1>1. IsBottommostOf(output, sources)
  BY ContractAtTheEnd DEF MeetsBottommostContract
<1>2. sources \in Seq(Seq(Entry))
  <2>1. sources \in Seq(Source)
    BY ParametersAssumption DEF IInv, TypeOK, Merging!TypeOK, Merging!SourcesOK
  <2>2. Source \subseteq Seq(Entry)
    BY DEF Source
  <2> QED BY <2>1, <2>2
<1>3. output \in Seq(Entry) /\ L \in Nat /\ DOMAIN output = 1..L
  BY DEF IInv, TypeOK
<1>4. file = Rewritten(output)
  BY DEF IInv
<1>5. /\ DOMAIN file = 1..L
      /\ \A n \in 1..L : file[n].uk = output[n].uk /\ file[n].val = output[n].val
  BY <1>3, <1>4, ZeroedFields DEF Rewritten
<1>6. \A n \in 1..L : output[n].uk \in Nat
  BY <1>3, EntryFields
<1>7. DecodeSstEntries(file) = [n \in 1..L |-> <<file[n].uk, file[n].val>>]
  <2>1. \A n, m \in 1..L : n < m => file[n].uk < file[m].uk
    BY <1>1, <1>3, <1>5 DEF IsBottommostOf
  <2> HIDE DEF L
  <2> QED BY <1>3, <1>5, <1>6, <2>1, DecodedInPlace
<1>8. NaiveCompact(sources) = [n \in 1..L |-> <<output[n].uk, output[n].val>>]
  BY <1>1, <1>2, <1>3, ContractIsOracle
<1> QED BY <1>5, <1>7, <1>8
-----------------------------------------------------------------------------
(* What the fuzzer generates.                                              *)

(* A sorted list of the entries of S.                                      *)
IsSortedListOf(list, S) ==
    list \in [1..Cardinality(S) -> S] /\ Ascending(list) /\ ToSet(list) = S

(* Comparing the other way round is a total preorder.                      *)
LEMMA LessFacts ==
    ASSUME NEW a \in Entry, NEW b \in Entry, NEW c \in Entry
    PROVE  /\ ~Less(a, a)
           /\ Less(a, b) => ~Less(b, a)
           /\ Less(a, b) /\ ~Less(c, b) => Less(a, c)
BY DEF Less, Entry

(* Where x belongs in a sorted list: behind everything it is not less than.*)
LEMMA PlaceFor ==
    ASSUME NEW n \in Nat, NEW list \in [1..n -> Entry], Ascending(list), NEW x \in Entry
    PROVE  \E c \in 0..n : /\ \A i \in 1..c : ~Less(x, list[i])
                           /\ \A i \in (c + 1)..n : ~Less(list[i], x)
<1> DEFINE Bad == {i \in 1..n : Less(x, list[i])}
<1>1. CASE Bad = {}
  <2>1. n \in 0..n /\ (n + 1)..n = {} /\ \A i \in 1..n : ~Less(x, list[i])
    BY <1>1
  <2> QED BY <2>1
<1>2. CASE Bad # {}
  <2>0. Bad \subseteq Nat
    OBVIOUS
  <2>1. PICK m \in Bad : \A y \in Bad : ~(y < m)
    <3> HIDE DEF Bad
    <3>1. PICK m \in Bad : \A y \in Bad : ~(<<y, m>> \in OpToRel(<, Nat))
      BY <1>2, <2>0, NatLessThanWellFounded, WFMin
    <3>2. \A y \in Bad : ~(y < m)
      BY <2>0, <3>1 DEF OpToRel
    <3> QED BY <3>2
  <2>2. m \in 1..n /\ Less(x, list[m]) /\ \A y \in Bad : ~(y < m)
    BY <2>1
  <2>3. m - 1 \in 0..n /\ (m - 1) + 1 = m
    BY <2>2
  <2>4. \A i \in 1..(m - 1) : ~Less(x, list[i])
    BY <2>2
  <2>5. ASSUME NEW i \in m..n PROVE ~Less(list[i], x)
    <3>1. i \in 1..n /\ list[i] \in Entry /\ list[m] \in Entry
      BY <2>2
    <3>2. ~Less(list[i], list[m])
      <4>1. i = m \/ m < i
        BY <2>2
      <4> QED BY <2>2, <3>1, <4>1, LessFacts DEF Ascending
    <3>3. Less(x, list[i])
      BY <2>2, <3>1, <3>2, LessFacts
    <3> QED BY <3>1, <3>3, LessFacts
  <2> QED BY <2>3, <2>4, <2>5
<1> QED BY <1>1, <1>2

(* Every finite set of entries can be sorted.                              *)
LEMMA CanBeSorted ==
    ASSUME NEW S, S \subseteq Entry, IsFiniteSet(S)
    PROVE  \E list : IsSortedListOf(list, S)
<1> DEFINE Sortable(R) == \E list : IsSortedListOf(list, R)
           T == {n \in Nat : \A R \in SUBSET Entry :
                    IsFiniteSet(R) /\ Cardinality(R) = n => Sortable(R)}
<1>1. 0 \in T
  <2> SUFFICES ASSUME NEW R \in SUBSET Entry, IsFiniteSet(R), Cardinality(R) = 0
               PROVE  Sortable(R)
    OBVIOUS
  <2>1. R = {}
    BY FS_EmptySet
  <2>2. IsSortedListOf([i \in 1..0 |-> 0], R)
    BY <2>1 DEF IsSortedListOf, Ascending, ToSet
  <2> QED BY <2>2
<1>2. ASSUME NEW n \in Nat, n \in T PROVE n + 1 \in T
  <2> SUFFICES ASSUME NEW R \in SUBSET Entry, IsFiniteSet(R), Cardinality(R) = n + 1
               PROVE  Sortable(R)
    OBVIOUS
  <2>1. PICK x : x \in R
    BY FS_EmptySet
  <2> DEFINE Q == R \ {x}
  <2>2. Q \in SUBSET Entry /\ IsFiniteSet(Q) /\ Cardinality(Q) = n /\ x \in Entry
    <3>1. IsFiniteSet(Q) /\ Cardinality(Q) = (n + 1) - 1
      BY <2>1, FS_RemoveElement
    <3> QED BY <2>1, <3>1
  <2>3. PICK list : IsSortedListOf(list, Q)
    BY <1>2, <2>2
  <2>4. list \in [1..n -> Q] /\ Ascending(list) /\ ToSet(list) = Q /\ list \in [1..n -> Entry]
    BY <2>2, <2>3 DEF IsSortedListOf
  <2>5. PICK c \in 0..n : /\ \A i \in 1..c : ~Less(x, list[i])
                          /\ \A i \in (c + 1)..n : ~Less(list[i], x)
    BY <2>2, <2>4, PlaceFor
  <2> DEFINE new == [i \in 1..(n + 1) |-> IF i <= c THEN list[i]
                                          ELSE IF i = c + 1 THEN x ELSE list[i - 1]]
  <2>6. /\ c \in Nat /\ c <= n
        /\ \A i \in 1..(n + 1) : i <= c => i \in 1..n /\ i \in 1..c
        /\ \A i \in 1..(n + 1) : i > c + 1 => i - 1 \in 1..n /\ i - 1 \in (c + 1)..n
        /\ c + 1 \in 1..(n + 1)
    OBVIOUS
  <2>7. /\ \A i \in 1..(n + 1) : i <= c => new[i] = list[i]
        /\ new[c + 1] = x
        /\ \A i \in 1..(n + 1) : i > c + 1 => new[i] = list[i - 1]
    BY <2>6
  <2>8. \A i \in 1..(n + 1) : i <= c \/ i = c + 1 \/ i > c + 1
    BY <2>6
  <2>9. DOMAIN new = 1..(n + 1)
    OBVIOUS
  <2>10. new \in [1..(n + 1) -> R]
    <3>1. ASSUME NEW i \in 1..(n + 1) PROVE new[i] \in R
      <4> HIDE DEF new
      <4> QED BY <2>1, <2>4, <2>6, <2>7, <2>8
    <3> QED BY <3>1
  <2> HIDE DEF new
  <2>11. ToSet(new) = R
    <3>1. ASSUME NEW y \in R PROVE \E i \in 1..(n + 1) : new[i] = y
      <4>1. CASE y = x
        BY <2>6, <2>7, <4>1
      <4>2. CASE y # x
        <5>1. PICK j \in 1..n : list[j] = y
          BY <2>4, <4>2 DEF ToSet
        <5>2. CASE j <= c
          <6>1. j \in 1..(n + 1)
            BY <5>1
          <6> QED BY <2>7, <5>1, <5>2, <6>1
        <5>3. CASE ~(j <= c)
          <6>1. j + 1 \in 1..(n + 1) /\ j + 1 > c + 1 /\ (j + 1) - 1 = j
            BY <2>6, <5>1, <5>3
          <6> QED BY <2>7, <5>1, <6>1
        <5> QED BY <5>2, <5>3
      <4> QED BY <4>1, <4>2
    <3> QED BY <2>9, <2>10, <3>1 DEF ToSet
  <2>12. Ascending(new)
    <3> SUFFICES ASSUME NEW i \in 1..(n + 1), NEW j \in 1..(n + 1), i < j
                 PROVE  ~Less(new[j], new[i])
      BY <2>9 DEF Ascending
    <3>0. \A a, b \in 1..n : a < b => ~Less(list[b], list[a])
      BY <2>4 DEF Ascending
    <3>1. CASE j <= c
      <4>1. i <= c
        BY <2>6, <3>1
      <4> QED BY <2>6, <2>7, <3>0, <3>1, <4>1
    <3>2. CASE j = c + 1
      <4>1. i <= c
        BY <2>6, <3>2
      <4> QED BY <2>5, <2>6, <2>7, <3>2, <4>1
    <3>3. CASE j > c + 1 /\ i = c + 1
      BY <2>5, <2>6, <2>7, <3>3
    <3>4. CASE j > c + 1 /\ i <= c
      <4>1. i < j - 1
        BY <2>6, <3>4
      <4> QED BY <2>6, <2>7, <3>0, <3>4, <4>1
    <3>5. CASE j > c + 1 /\ i > c + 1
      <4>1. i - 1 < j - 1
        BY <2>6, <3>5
      <4> QED BY <2>6, <2>7, <3>0, <3>5, <4>1
    <3> QED BY <2>8, <3>1, <3>2, <3>3, <3>4, <3>5
  <2>13. IsSortedListOf(new, R)
    BY <2>10, <2>11, <2>12 DEF IsSortedListOf
  <2> QED BY <2>13
<1> HIDE DEF T
<1>3. \A n \in Nat : n \in T
  BY <1>1, <1>2, SetInduction
<1>4. Cardinality(S) \in T
  BY <1>3, FS_CardinalityType
<1> QED BY <1>4 DEF T

LEMMA SortedHasAll ==
    ASSUME NEW S, S \subseteq Entry, IsFiniteSet(S)
    PROVE  ToSet(Sorted(S)) = S
<1> DEFINE Fits(list) == Ascending(list) /\ ToSet(list) = S
<1>1. \E list \in [1..Cardinality(S) -> S] : Fits(list)
  BY CanBeSorted DEF IsSortedListOf
<1>2. Sorted(S) = CHOOSE list \in [1..Cardinality(S) -> S] : Fits(list)
  BY Zenon DEF Sorted
<1>3. Fits(Sorted(S))
  <2> HIDE DEF Fits
  <2> QED BY <1>1, <1>2, Zenon
<1> QED BY <1>3

(* A version generated for key i: the key, and the number of versions      *)
(* pushed after it and itself.                                             *)
LEMMA GeneratedEntry ==
    ASSUME NEW i \in Nat, NEW num \in Nat, NEW draw \in KeyDraws(num), NEW v \in DOMAIN draw.src
    PROVE  /\ NewEntry(i, draw, v) \in Entry
           /\ v \in 0..(MAX_VERSIONS - 1)
           /\ NewEntry(i, draw, v).uk = i
           /\ Seqno(NewEntry(i, draw, v)) = Cardinality(DOMAIN draw.src) - v
           /\ Cardinality(DOMAIN draw.src) \in Nat
<1>1. PICK versions \in 1..MAX_VERSIONS :
          draw \in [newest : {TypeDeletion, TypeValue}, src : [0..(versions - 1) -> 1..num]]
  BY DEF KeyDraws
<1>2. DOMAIN draw.src = 0..(versions - 1) /\ draw.newest \in {TypeDeletion, TypeValue}
  BY <1>1
<1>3. versions \in 1..3 /\ v \in 0..(versions - 1)
  BY <1>2 DEF MAX_VERSIONS
<1>4. Cardinality(DOMAIN draw.src) = versions
  BY <1>2, <1>3, FS_Interval
<1> DEFINE seq == versions - v
           type == IF v = 0 THEN draw.newest ELSE TypeValue
<1>5. seq \in Nat /\ type \in {0, 1}
  BY <1>2, <1>3 DEF TypeDeletion, TypeValue
<1>6. NewEntry(i, draw, v) = [uk |-> i, packed |-> seq * 256 + type, val |-> i * 4 + seq]
  BY <1>4 DEF NewEntry, VersionSeq, Pack, ValueOf, MAX_VERSIONS
<1> HIDE DEF seq, type
<1>7. /\ seq * 256 + type \in Nat /\ i * 4 + seq \in Nat
      /\ (seq * 256 + type) \div 256 = seq
  BY <1>5
<1>8. NewEntry(i, draw, v) \in Entry
  BY <1>6, <1>7 DEF Entry
<1>9. Seqno(NewEntry(i, draw, v)) = seq
  BY <1>6, <1>7 DEF Seqno
<1> QED BY <1>3, <1>4, <1>6, <1>8, <1>9 DEF MAX_VERSIONS, seq

LEMMA PushedEntries ==
    ASSUME NEW num \in Nat, NEW keys \in Nat,
           NEW draws \in [0..(keys - 1) -> KeyDraws(num)], NEW s
    PROVE  PushedTo(s, draws) \subseteq Entry /\ IsFiniteSet(PushedTo(s, draws))
<1> DEFINE K == 0..(keys - 1)
           P == PushedTo(s, draws)
           Versions == 0..(MAX_VERSIONS - 1)
           Here == {q \in K \X Versions : q[2] \in DOMAIN draws[q[1]].src
                                          /\ draws[q[1]].src[q[2]] = s}
           f == [q \in Here |-> NewEntry(q[1], draws[q[1]], q[2])]
<1>1. \A e \in P : \E i \in K : \E v \in DOMAIN draws[i].src :
          draws[i].src[v] = s /\ e = NewEntry(i, draws[i], v)
  BY DEF PushedTo
<1>2. \A i \in K : \A v \in DOMAIN draws[i].src :
          draws[i].src[v] = s => NewEntry(i, draws[i], v) \in P
  BY DEF PushedTo
<1>3. \A i \in K : \A v \in DOMAIN draws[i].src :
          NewEntry(i, draws[i], v) \in Entry /\ v \in Versions
  BY GeneratedEntry
<1> HIDE DEF P
<1>4. P \subseteq Entry
  BY <1>1, <1>3
<1>5. IsFiniteSet(Here)
  <2>1. IsFiniteSet(K) /\ IsFiniteSet(Versions)
    <3>1. 0 \in Int /\ keys - 1 \in Int /\ MAX_VERSIONS - 1 \in Int
      BY DEF MAX_VERSIONS
    <3> QED BY <3>1, FS_Interval
  <2>2. IsFiniteSet(K \X Versions)
    <3> HIDE DEF K, Versions
    <3> QED BY <2>1, FS_Product
  <2>3. Here \in SUBSET (K \X Versions)
    OBVIOUS
  <2> HIDE DEF Here
  <2> QED BY <2>2, <2>3, FS_Subset
<1>6. f \in Surjection(Here, P)
  <2>1. ASSUME NEW q \in Here PROVE f[q] \in P
    BY <1>2
  <2>2. ASSUME NEW e \in P PROVE \E q \in Here : f[q] = e
    <3>1. PICK i \in K : \E v \in DOMAIN draws[i].src :
              draws[i].src[v] = s /\ e = NewEntry(i, draws[i], v)
      BY <1>1
    <3>2. PICK v \in DOMAIN draws[i].src : draws[i].src[v] = s /\ e = NewEntry(i, draws[i], v)
      BY <3>1
    <3>3. <<i, v>> \in Here
      BY <1>3, <3>1, <3>2
    <3>4. f[<<i, v>>] = e
      BY <3>2, <3>3
    <3> QED BY <3>3, <3>4
  <2>3. f \in [Here -> P]
    BY <2>1
  <2> HIDE DEF f, Here
  <2> QED BY <2>2, <2>3 DEF Surjection
<1>7. IsFiniteSet(P)
  <2> HIDE DEF f, Here
  <2> QED BY <1>5, <1>6, FS_Surjection
<1> QED BY <1>4, <1>7 DEF P

(* generate_sources never gives two versions of a key one sequence number, *)
(* however the versions are dealt to the sources.                          *)
LEMMA TrialsAreWellFormed ==
    ASSUME NEW input \in TrialInputs
    PROVE  WellFormed(input)
<1>1. PICK num \in NumSources, keys \in NumKeys : input \in GenerateSources(num, keys)
  BY DEF TrialInputs
<1>2. num \in Nat /\ keys \in Nat
  BY DrawsAssumption
<1>3. PICK draws \in [0..(keys - 1) -> KeyDraws(num)] :
          input = [s \in 1..num |-> Sorted(PushedTo(s, draws))]
  BY <1>1 DEF GenerateSources
<1>4. ASSUME NEW e \in InputEntries(input)
      PROVE  \E i \in 0..(keys - 1) : \E v \in DOMAIN draws[i].src : e = NewEntry(i, draws[i], v)
  <2>1. PICK s \in 1..num : e \in ToSet(Sorted(PushedTo(s, draws)))
    BY <1>3 DEF InputEntries
  <2>2. e \in PushedTo(s, draws)
    BY <1>2, <2>1, PushedEntries, SortedHasAll
  <2> QED BY <2>2 DEF PushedTo
<1>5. ASSUME NEW e \in InputEntries(input), NEW f \in InputEntries(input),
             e.uk = f.uk, Seqno(e) = Seqno(f)
      PROVE  e = f
  <2>1. PICK i \in 0..(keys - 1) :
            \E v \in DOMAIN draws[i].src : e = NewEntry(i, draws[i], v)
    BY <1>4
  <2>2. PICK v \in DOMAIN draws[i].src : e = NewEntry(i, draws[i], v)
    BY <2>1
  <2>3. PICK j \in 0..(keys - 1) :
            \E w \in DOMAIN draws[j].src : f = NewEntry(j, draws[j], w)
    BY <1>4
  <2>4. PICK w \in DOMAIN draws[j].src : f = NewEntry(j, draws[j], w)
    BY <2>3
  <2>5. i \in Nat /\ j \in Nat /\ draws[i] \in KeyDraws(num) /\ draws[j] \in KeyDraws(num)
    OBVIOUS
  <2>6. e.uk = i /\ f.uk = j
    BY <1>2, <2>2, <2>4, <2>5, GeneratedEntry
  <2>7. i = j
    BY <1>5, <2>6
  <2> DEFINE versions == Cardinality(DOMAIN draws[i].src)
  <2>8. /\ Seqno(e) = versions - v /\ Seqno(f) = versions - w
        /\ versions \in Nat /\ v \in 0..(MAX_VERSIONS - 1) /\ w \in 0..(MAX_VERSIONS - 1)
    BY <1>2, <2>2, <2>4, <2>5, <2>7, GeneratedEntry
  <2>9. v = w
    <3> HIDE DEF versions
    <3>1. v \in Int /\ w \in Int
      BY <2>8 DEF MAX_VERSIONS
    <3>2. versions - v = versions - w
      BY <1>5, <2>8
    <3> QED BY <2>8, <3>1, <3>2
  <2> QED BY <2>2, <2>4, <2>7, <2>9
<1> QED BY <1>5 DEF WellFormed

(* assert_eq!(compactor_out, oracle_out) for every number of sources and   *)
(* keys the fuzzer may draw and every draw it may make, and on every other *)
(* well-formed input too: what decode_sst_entries reads back from the file *)
(* of a bottommost compaction is what naive_compact returns.               *)
THEOREM OracleAgrees == Spec => []AgreesWithOracle
<1>1. IInv => AgreesWithOracle
  BY AgreesOnWellFormed, TrialsAreWellFormed DEF AgreesWithOracle
<1> QED BY <1>1, InvariantIInv, PTL
=============================================================================
