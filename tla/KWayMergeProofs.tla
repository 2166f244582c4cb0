-------------------------- MODULE KWayMergeProofs ---------------------------
(***************************************************************************)
(* What every k-way merge delivers is sorted, for every vector of sorted   *)
(* sources: the inductive invariant is TypeOK, MergedAscending and         *)
(* FrontsNotBelowMerged.  MergedIsConsumed is inductive with TypeOK, and   *)
(* so is CountsAgree, by which every entry comes out as often as it went   *)
(* in.                                                                     *)
(***************************************************************************)
EXTENDS KWayMerge, FiniteSetTheorems, TLAPS

(* The internal-key comparator's "not before" is transitive.               *)
LEMMA NotLessTransitive ==
    ASSUME NEW a \in Entry, NEW b \in Entry, NEW c \in Entry,
           ~Less(b, a), ~Less(c, b)
    PROVE  ~Less(c, a)
BY DEF Less, Entry

(* A key is not before itself.                                             *)
LEMMA NotLessReflexive ==
    ASSUME NEW a \in Entry
    PROVE  ~Less(a, a)
BY DEF Less, Entry

(* The contract of the sources, in the form the steps use.                 *)
LEMMA SourcesSorted ==
    ASSUME TypeOK, NEW i \in SourceIds
    PROVE  /\ sources[i] \in Seq(Entry)
           /\ \A p, q \in DOMAIN sources[i] :
                  p <= q => ~Less(sources[i][q], sources[i][p])
<1>1. sources[i] \in Source
  BY InputsAssumption DEF TypeOK, SourcesOK, SourceIds
<1>2. sources[i] \in Seq(Entry) /\ Ascending(sources[i])
  BY <1>1 DEF Source
<1>3. ASSUME NEW p \in DOMAIN sources[i], NEW q \in DOMAIN sources[i], p <= q
      PROVE  ~Less(sources[i][q], sources[i][p])
  <2>1. CASE p = q
    BY <1>2, <2>1, NotLessReflexive
  <2>2. CASE p # q
    <3>1. p \in Nat /\ q \in Nat /\ p < q
      BY <1>2, <1>3, <2>2
    <3> QED BY <1>2, <3>1 DEF Ascending
  <2> QED BY <2>1, <2>2
<1> QED BY <1>2, <1>3

(* A live source's front is an entry, the first one after its position.    *)
LEMMA PeekIsEntry ==
    ASSUME TypeOK, NEW i \in SourceIds, Live(i)
    PROVE  /\ pos[i] + 1 \in DOMAIN sources[i]
           /\ pos[i] + 1 > pos[i]
           /\ Peek(i) = sources[i][pos[i] + 1]
           /\ Peek(i) \in Entry
<1>1. sources[i] \in Seq(Entry) /\ pos[i] \in Nat
  BY SourcesSorted DEF TypeOK, SourcesOK
<1> QED BY <1>1 DEF Live, Peek

(* The parts of the invariant, together.                                   *)
IInv == TypeOK /\ MergedAscending /\ FrontsNotBelowMerged /\ MergedIsConsumed

LEMMA InitEstablishesIInv == Init => IInv
<1> SUFFICES ASSUME Init PROVE IInv
  OBVIOUS
<1>1. TypeOK
  <2>1. sources \in Seq(Source)
    BY InputsAssumption DEF Init, SourcesInit
  <2>2. ASSUME NEW i \in SourceIds PROVE pos[i] <= Len(sources[i])
    BY <2>1, <2>2 DEF Init, SourcesInit, SourceIds, Source
  <2> QED BY <2>1, <2>2 DEF Init, SourcesInit, TypeOK, SourcesOK, SourceIds
<1>2. MergedAscending /\ FrontsNotBelowMerged
  BY DEF Init, MergedAscending, Ascending, FrontsNotBelowMerged
<1>3. MergedIsConsumed
  <2>1. \A i \in SourceIds : 1..pos[i] = {}
    BY DEF Init, SourcesInit
  <2>2. Consumed = {}
    BY <2>1 DEF Consumed
  <2> QED BY <2>2 DEF Init, MergedIsConsumed, ToSet
<1> QED BY <1>1, <1>2, <1>3 DEF IInv

(* One call of f keeps the invariant.                                      *)
LEMMA EmitPreservesIInv ==
    ASSUME IInv, NEW i \in SourceIds, Emit(i)
    PROVE  IInv'
<1> DEFINE e == Peek(i)
           m == Len(merged)
<1>1. TypeOK /\ Live(i) /\ e \in Entry /\ merged \in Seq(Entry)
  BY PeekIsEntry DEF IInv, Emit, TypeOK
<1>2. /\ sources' = sources
      /\ SourceIds' = SourceIds
      /\ pos' = [pos EXCEPT ![i] = @ + 1]
      /\ merged' = Append(merged, e)
  BY DEF Emit, Advance, SourceIds
<1>3. \A j \in SourceIds : pos[j] \in Nat /\ pos'[j] \in Nat /\ pos[j] <= pos'[j]
  BY <1>1, <1>2 DEF TypeOK, SourcesOK
<1>4. TypeOK'
  <2>1. ASSUME NEW j \in SourceIds PROVE pos'[j] <= Len(sources[j])
    <3>1. sources[j] \in Seq(Entry)
      BY <1>1, SourcesSorted
    <3>2. CASE j = i
      BY <1>1, <1>2, <3>1, <3>2 DEF TypeOK, SourcesOK, Live
    <3>3. CASE j # i
      BY <1>1, <1>2, <3>3 DEF TypeOK, SourcesOK
    <3> QED BY <3>2, <3>3
  <2>2. pos' \in [SourceIds -> Nat] /\ merged' \in Seq(Entry)
    BY <1>1, <1>2 DEF TypeOK, SourcesOK
  <2> QED BY <1>1, <1>2, <2>1, <2>2 DEF TypeOK, SourcesOK
<1>5. \A n \in DOMAIN merged : ~Less(e, merged[n])
  BY <1>1, PeekIsEntry DEF IInv, FrontsNotBelowMerged
<1>6. /\ DOMAIN merged' = 1..(m + 1)
      /\ \A n \in 1..m : merged'[n] = merged[n] /\ n \in DOMAIN merged
      /\ merged'[m + 1] = e
      /\ m \in Nat
  BY <1>1, <1>2
<1>7. MergedAscending'
  <2> SUFFICES ASSUME NEW x \in 1..(m + 1), NEW y \in 1..(m + 1), x < y
               PROVE  ~Less(merged'[y], merged'[x])
    BY <1>6 DEF MergedAscending, Ascending
  <2>1. CASE y = m + 1
    BY <1>5, <1>6, <2>1
  <2>2. CASE y # m + 1
    BY <1>6, <2>2 DEF IInv, MergedAscending, Ascending
  <2> QED BY <2>1, <2>2
<1>8. FrontsNotBelowMerged'
  <2> SUFFICES ASSUME NEW j \in SourceIds, NEW p \in DOMAIN sources[j],
                      NEW n \in 1..(m + 1), p > pos'[j]
               PROVE  ~Less(sources[j][p], merged'[n])
    BY <1>2, <1>6 DEF FrontsNotBelowMerged
  <2>0. /\ sources[j] \in Seq(Entry)
        /\ p \in Nat /\ sources[j][p] \in Entry
        /\ p > pos[j] /\ pos[j] + 1 <= p
    BY <1>1, <1>3, SourcesSorted
  <2>1. CASE n # m + 1
    BY <1>6, <2>0, <2>1 DEF IInv, FrontsNotBelowMerged
  <2>2. CASE n = m + 1
    <3>1. Live(j)
      BY <1>3, <2>0 DEF Live
    <3>2. Peek(j) \in Entry /\ ~Less(sources[j][p], Peek(j))
      BY <1>1, <2>0, <3>1, PeekIsEntry, SourcesSorted
    <3>3. ~Less(Peek(j), e)
      BY <3>1 DEF Emit
    <3> QED BY <1>1, <1>6, <2>0, <2>2, <3>2, <3>3, NotLessTransitive
  <2> QED BY <2>1, <2>2
<1>9. MergedIsConsumed'
  <2>1. ToSet(merged)' = ToSet(merged) \cup {e}
    BY <1>1, <1>6 DEF ToSet
  <2>2. ASSUME NEW x PROVE x \in Consumed' <=> x \in Consumed \cup {e}
    <3>1. x \in Consumed' <=> \E j \in SourceIds : \E p \in 1..pos'[j] : x = sources[j][p]
      BY <1>2 DEF Consumed
    <3>2. x \in Consumed <=> \E j \in SourceIds : \E p \in 1..pos[j] : x = sources[j][p]
      BY DEF Consumed
    <3>3. e = sources[i][pos[i] + 1] /\ pos[i] + 1 \in 1..pos'[i] /\ pos[i] \in Nat
      BY <1>1, <1>2, <1>3, PeekIsEntry DEF TypeOK, SourcesOK
    <3>4. \A j \in SourceIds : 1..pos[j] \subseteq 1..pos'[j]
      BY <1>3
    <3>5. \A p \in 1..pos'[i] : p \in 1..pos[i] \/ p = pos[i] + 1
      BY <1>1, <1>2, <3>3 DEF TypeOK, SourcesOK
    <3>6. \A j \in SourceIds : j # i => pos'[j] = pos[j]
      BY <1>1, <1>2 DEF TypeOK, SourcesOK
    <3>7. ASSUME NEW j \in SourceIds, NEW p \in 1..pos'[j]
          PROVE  sources[j][p] = e \/ p \in 1..pos[j]
      BY <3>3, <3>5, <3>6
    <3> QED BY <3>1, <3>2, <3>3, <3>4, <3>7
  <2>3. Consumed' = Consumed \cup {e}
    BY <2>2
  <2> QED BY <2>1, <2>3 DEF IInv, MergedIsConsumed
<1> QED BY <1>4, <1>7, <1>8, <1>9 DEF IInv

LEMMA StutterPreservesIInv ==
    ASSUME IInv, UNCHANGED vars
    PROVE  IInv'
<1>1. sources' = sources /\ pos' = pos /\ merged' = merged /\ SourceIds' = SourceIds
  BY DEF vars, SourceIds
<1>2. Consumed' = Consumed /\ ToSet(merged)' = ToSet(merged)
  BY <1>1 DEF Consumed, ToSet
<1>3. MergedIsConsumed'
  BY <1>2 DEF IInv, MergedIsConsumed
<1>4. TypeOK' /\ MergedAscending' /\ FrontsNotBelowMerged'
  BY <1>1 DEF IInv, TypeOK, SourcesOK, MergedAscending, Ascending, FrontsNotBelowMerged
<1> QED BY <1>3, <1>4 DEF IInv

LEMMA NextPreservesIInv == IInv /\ [Next]_vars => IInv'
<1> SUFFICES ASSUME IInv, [Next]_vars PROVE IInv'
  OBVIOUS
<1>1. CASE \E i \in SourceIds : Emit(i)
  BY <1>1, EmitPreservesIInv
<1>2. CASE Terminated
  BY <1>2, StutterPreservesIInv DEF Terminated
<1>3. CASE UNCHANGED vars
  BY <1>3, StutterPreservesIInv
<1> QED BY <1>1, <1>2, <1>3 DEF Next

LEMMA InvariantIInv == Spec => []IInv
BY InitEstablishesIInv, NextPreservesIInv, PTL DEF Spec

(* The read positions stay inside the sources and only entries are         *)
(* delivered.                                                              *)
THEOREM TypeCorrect == Spec => []TypeOK
<1>1. IInv => TypeOK
  BY DEF IInv
<1> QED BY <1>1, InvariantIInv, PTL

(* f is called in internal-key order, whatever sorted sources are merged.  *)
THEOREM DeliversInOrder == Spec => []MergedAscending
<1>1. IInv => MergedAscending
  BY DEF IInv
<1> QED BY <1>1, InvariantIInv, PTL

(* At no time does a source still hold something that belongs before an    *)
(* entry already delivered.                                                *)
THEOREM NothingComesTooLate == Spec => []FrontsNotBelowMerged
<1>1. IInv => FrontsNotBelowMerged
  BY DEF IInv
<1> QED BY <1>1, InvariantIInv, PTL

(* f has seen the consumed entries and no others: none is skipped by an    *)
(* advance and none invented.                                              *)
THEOREM NothingSkipped == Spec => []MergedIsConsumed
<1>1. IInv => MergedIsConsumed
  BY DEF IInv
<1> QED BY <1>1, InvariantIInv, PTL
-----------------------------------------------------------------------------
(* Where entry e stands before a read position.                            *)
ConsumedPlaces(e) ==
    {at \in UNION {{i} \X (1..pos[i]) : i \in SourceIds} : sources[at[1]][at[2]] = e}

(* f has been called with e once for every place where it was consumed.    *)
CountsAgree ==
    \A e \in Entry :
        /\ IsFiniteSet(CallsWith(e)) /\ IsFiniteSet(ConsumedPlaces(e))
        /\ Cardinality(CallsWith(e)) = Cardinality(ConsumedPlaces(e))

LEMMA ConsumedPlacesAt ==
    ASSUME NEW e, NEW at
    PROVE  at \in ConsumedPlaces(e) <=>
               \E i \in SourceIds : \E p \in 1..pos[i] : at = <<i, p>> /\ sources[i][p] = e
BY DEF ConsumedPlaces

LEMMA InitCounts == Init => CountsAgree
<1> SUFFICES ASSUME Init, NEW e \in Entry
             PROVE  CallsWith(e) = {} /\ ConsumedPlaces(e) = {}
  BY FS_EmptySet DEF CountsAgree
<1>1. \A i \in SourceIds : 1..pos[i] = {}
  BY DEF Init, SourcesInit
<1>2. CallsWith(e) = {}
  BY DEF Init, CallsWith
<1> QED BY <1>1, <1>2, ConsumedPlacesAt

(* One call of f adds one place and one delivery, both of the same entry.  *)
LEMMA EmitCounts ==
    ASSUME IInv, CountsAgree, NEW i \in SourceIds, Emit(i)
    PROVE  CountsAgree'
<1> DEFINE m == Len(merged) + 1
           here == <<i, pos[i] + 1>>
<1>1. /\ TypeOK /\ merged \in Seq(Entry) /\ Peek(i) = sources[i][pos[i] + 1]
      /\ Peek(i) \in Entry
  BY PeekIsEntry DEF IInv, Emit, TypeOK
<1>2. /\ sources' = sources /\ SourceIds' = SourceIds
      /\ merged' = Append(merged, Peek(i))
      /\ \A j \in SourceIds : pos[j] \in Nat /\ pos'[j] = IF j = i THEN pos[j] + 1 ELSE pos[j]
  BY <1>1 DEF Emit, Advance, SourceIds, TypeOK, SourcesOK
<1> SUFFICES ASSUME NEW e \in Entry
             PROVE  /\ IsFiniteSet(CallsWith(e)') /\ IsFiniteSet(ConsumedPlaces(e)')
                    /\ Cardinality(CallsWith(e)') = Cardinality(ConsumedPlaces(e)')
  BY DEF CountsAgree
<1>3. /\ IsFiniteSet(CallsWith(e)) /\ IsFiniteSet(ConsumedPlaces(e))
      /\ Cardinality(CallsWith(e)) = Cardinality(ConsumedPlaces(e))
  BY DEF CountsAgree
<1>4. CallsWith(e)' = IF Peek(i) = e THEN CallsWith(e) \cup {m} ELSE CallsWith(e)
  <2>1. /\ DOMAIN merged' = (DOMAIN merged) \cup {m} /\ m \notin DOMAIN merged
        /\ merged'[m] = Peek(i) /\ \A n \in DOMAIN merged : merged'[n] = merged[n]
    BY <1>1, <1>2
  <2> QED BY <2>1 DEF CallsWith
<1>5. m \notin CallsWith(e)
  BY <1>1 DEF CallsWith
<1>6. ASSUME NEW at
      PROVE  at \in ConsumedPlaces(e)' <=>
                 at \in ConsumedPlaces(e) \/ (Peek(i) = e /\ at = here)
  <2>1. at \in ConsumedPlaces(e)' <=>
            \E j \in SourceIds : \E p \in 1..pos'[j] : at = <<j, p>> /\ sources[j][p] = e
    BY <1>2 DEF ConsumedPlaces
  <2>2. \A j \in SourceIds : \A p : p \in 1..pos'[j] <=> p \in 1..pos[j] \/ (j = i /\ p = pos[i] + 1)
    BY <1>2
  <2> QED BY <1>1, <2>1, <2>2, ConsumedPlacesAt, SMTT(30)
<1>7. here \notin ConsumedPlaces(e)
  <2>1. pos[i] + 1 \notin 1..pos[i]
    BY <1>2
  <2> QED BY <2>1, ConsumedPlacesAt
<1> HIDE DEF m, here
<1>8. CASE Peek(i) = e
  <2>1. ConsumedPlaces(e)' = ConsumedPlaces(e) \cup {here}
    BY <1>6, <1>8
  <2>2. /\ IsFiniteSet(ConsumedPlaces(e) \cup {here})
        /\ Cardinality(ConsumedPlaces(e) \cup {here}) = Cardinality(ConsumedPlaces(e)) + 1
    BY <1>3, <1>7, FS_AddElement
  <2>3. /\ IsFiniteSet(CallsWith(e) \cup {m})
        /\ Cardinality(CallsWith(e) \cup {m}) = Cardinality(CallsWith(e)) + 1
    BY <1>3, <1>5, FS_AddElement
  <2> QED BY <1>3, <1>4, <1>8, <2>1, <2>2, <2>3
<1>9. CASE Peek(i) # e
  <2>1. ConsumedPlaces(e)' = ConsumedPlaces(e)
    BY <1>6, <1>9
  <2> QED BY <1>3, <1>4, <1>9, <2>1
<1> QED BY <1>8, <1>9

LEMMA NextPreservesCounts == IInv /\ CountsAgree /\ [Next]_vars => CountsAgree'
<1> SUFFICES ASSUME IInv, CountsAgree, [Next]_vars PROVE CountsAgree'
  OBVIOUS
<1>1. CASE \E i \in SourceIds : Emit(i)
  BY <1>1, EmitCounts
<1>2. CASE UNCHANGED vars
  <2>1. \A e : CallsWith(e)' = CallsWith(e) /\ ConsumedPlaces(e)' = ConsumedPlaces(e)
    BY <1>2 DEF vars, CallsWith, ConsumedPlaces, SourceIds
  <2> QED BY <2>1 DEF CountsAgree
<1> QED BY <1>1, <1>2 DEF Next, Terminated

LEMMA CountsAtTheEnd == IInv /\ CountsAgree => NothingLost
<1> SUFFICES ASSUME IInv, CountsAgree, Exhausted,
                    NEW e \in ToSet(merged) \cup UNION {ToSet(sources[i]) : i \in SourceIds}
             PROVE  Cardinality(CallsWith(e)) = Cardinality(PlacesOf(e))
  BY DEF NothingLost
<1>1. \A i \in SourceIds : sources[i] \in Seq(Entry) /\ DOMAIN sources[i] = 1..pos[i]
  <2> SUFFICES ASSUME NEW i \in SourceIds
               PROVE  sources[i] \in Seq(Entry) /\ DOMAIN sources[i] = 1..pos[i]
    OBVIOUS
  <2>1. sources[i] \in Seq(Entry)
    BY SourcesSorted DEF IInv
  <2>2. pos[i] \in Nat /\ pos[i] <= Len(sources[i]) /\ ~(pos[i] < Len(sources[i]))
    BY DEF IInv, TypeOK, SourcesOK, Exhausted, Live
  <2> QED BY <2>1, <2>2
<1>2. PlacesOf(e) = ConsumedPlaces(e)
  BY <1>1 DEF PlacesOf, ConsumedPlaces
<1>3. e \in Entry
  <2>1. merged \in Seq(Entry)
    BY DEF IInv, TypeOK
  <2> QED BY <1>1, <2>1 DEF ToSet
<1> QED BY <1>2, <1>3 DEF CountsAgree

(* When run returns, every entry of every source has been delivered as     *)
(* often as it occurs, duplicates in several sources included.             *)
THEOREM DeliversAll == Spec => []NothingLost
<1>1. Spec => []CountsAgree
  BY InitCounts, NextPreservesCounts, InvariantIInv, PTL DEF Spec
<1> QED BY <1>1, InvariantIInv, CountsAtTheEnd, PTL
=============================================================================
