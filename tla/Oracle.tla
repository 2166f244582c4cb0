------------------------------- MODULE Oracle -------------------------------
(***************************************************************************)
(* naive_compact (crates/oracle): the reference the fuzzer compares the    *)
(* compactor with.  A map from user key to the best version so far is      *)
(* filled in input order; tombstones are filtered out at the end.          *)
(***************************************************************************)
EXTENDS InternalKeys, FiniteSets, SequencesExt

(* Mutant: the oldest version stays.                                       *)
InsertIfOlder(best, e) ==
    IF e.uk \in DOMAIN best /\ best[e.uk].seq <= Seqno(e)
    THEN best
    ELSE [k \in DOMAIN best \cup {e.uk} |->
            IF k = e.uk
            THEN [seq |-> Seqno(e), value |-> e.val, is_tombstone |-> IsTombstone(e)]
            ELSE best[k]]

(* One entry against the map: an existing version that is as new stays.    *)
Insert(best, e) ==
    IF e.uk \in DOMAIN best /\ best[e.uk].seq >= Seqno(e)
    THEN best
    ELSE [k \in DOMAIN best \cup {e.uk} |->
            IF k = e.uk
            THEN [seq |-> Seqno(e), value |-> e.val, is_tombstone |-> IsTombstone(e)]
            ELSE best[k]]

(* The inner loop: the map after the first n entries of a source.          *)
AfterEntries(best, source) ==
    LET after[n \in 0..Len(source)] ==
            IF n = 0 THEN best ELSE Insert(after[n - 1], source[n])
    IN  after

(* The outer one: the map after the first n sources, and after all.        *)
AfterSources(input) ==
    LET after[n \in 0..Len(input)] ==
            IF n = 0 THEN [k \in {} |-> <<>>]
            ELSE AfterEntries(after[n - 1], input[n])[Len(input[n])]
    IN  after
Best(input) == AfterSources(input)[Len(input)]

(* into_iter of a BTreeMap: its keys, ascending.                           *)
InKeyOrder(keys) ==
    CHOOSE s \in [1..Cardinality(keys) -> keys] :
        /\ \A n, m \in DOMAIN s : n < m => s[n] < s[m]
        /\ ToSet(s) = keys

(* The (user key, value) pairs, ascending by user key.                     *)
NaiveCompact(input) ==
    LET best == Best(input)
        keys == InKeyOrder({k \in DOMAIN best : ~best[k].is_tombstone})
    IN  [n \in DOMAIN keys |-> <<keys[n], best[keys[n]].value>>]
=============================================================================
