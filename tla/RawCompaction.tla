---------------------------- MODULE RawCompaction ---------------------------
(***************************************************************************)
(* compact (compaction/mod.rs) on raw keys, which nothing has checked:     *)
(* load_arena_source takes whatever bytes a block holds.  A key without    *)
(* its eight suffix bytes is skipped by the callback, if it gets there;    *)
(* the comparator, which runs first, panics on it.                         *)
(*                                                                         *)
(* The loser tree compares a front as soon as it comes up, with the        *)
(* champions of the subtrees it meets on its way to the root, but only     *)
(* with live ones: a front is compared exactly if another source is live.  *)
(***************************************************************************)
EXTENDS ByteKeys, Strategy, BottommostContract

CONSTANT RawInputs   \* vectors of sources; entries [key, val]

Byte == 0..(Base - 1)
RawEntry ==
    {e \in [key : Seq(Byte), val : Nat] : Len(e.key) <= MaxUserKeyLen + SuffixLen}

(* A source is sorted, but for keys no comparator has ever compared.       *)
RawSource ==
    {s \in Seq(RawEntry) : \A p, q \in DOMAIN s :
        p < q /\ HasSuffix(s[p].key) /\ HasSuffix(s[q].key) =>
            ~CompareLess(s[q].key, s[p].key)}

ASSUME RawInputsAssumption == \A input \in RawInputs : input \in Seq(RawSource)

VARIABLES
    sources, pos,
    last_user_key,   \* <<>>, or the last user key as a one-element sequence
    output,          \* what goes to build_sst
    phase            \* "merge", "done" or "panic"

vars == <<sources, pos, last_user_key, output, phase>>

Init ==
    /\ sources \in RawInputs
    /\ pos = [i \in DOMAIN sources |-> 0]
    /\ last_user_key = <<>>
    /\ output = <<>>
    /\ phase = "merge"

LiveSources == {i \in DOMAIN sources : pos[i] < Len(sources[i])}
PeekAt(i) == sources[i][pos[i] + 1]

(* cmp::split panics on a front that is compared.                          *)
ComparatorPanics ==
    \E i, j \in LiveSources : i # j /\ ~HasSuffix(PeekAt(i).key)

Wins(i) ==
    /\ i \in LiveSources
    /\ \A j \in LiveSources \ {i} : ~CompareLess(PeekAt(j).key, PeekAt(i).key)

(* Mutant: a malformed entry makes the next one count as a new key.        *)
SkipAndForget(i) == last_user_key' = <<>> /\ UNCHANGED output

(* The callback's early return.                                            *)
Skip(i) == UNCHANGED <<last_user_key, output>>

(* The rest of the callback, with BottommostStrategy.                      *)
Decide(i) ==
    LET user_key == UserKey(PeekAt(i).key)
        is_first_for_key == last_user_key # <<user_key>>
    IN  /\ last_user_key' = <<user_key>>
        /\ output' = IF BottommostKeeps(EntryOf(PeekAt(i)), is_first_for_key)
                     THEN Append(output, PeekAt(i)) ELSE output

(* One turn of run: the callback on the winner, then advance.              *)
Visit(i) ==
    /\ phase = "merge"
    /\ ~ComparatorPanics
    /\ Wins(i)
    /\ IF HasSuffix(PeekAt(i).key) THEN Decide(i) ELSE Skip(i)
    /\ pos' = [pos EXCEPT ![i] = @ + 1]
    /\ UNCHANGED <<sources, phase>>

Panic ==
    /\ phase = "merge"
    /\ ComparatorPanics
    /\ phase' = "panic"
    /\ UNCHANGED <<sources, pos, last_user_key, output>>

Finish ==
    /\ phase = "merge"
    /\ LiveSources = {}
    /\ phase' = "done"
    /\ UNCHANGED <<sources, pos, last_user_key, output>>

Terminated == phase \in {"done", "panic"} /\ UNCHANGED vars

Next == (\E i \in DOMAIN sources : Visit(i)) \/ Panic \/ Finish \/ Terminated

Spec == Init /\ [][Next]_vars
-----------------------------------------------------------------------------
RawEntries == InputEntries(sources)
WellFormed == {e \in RawEntries : HasSuffix(e.key)}

OrderAsEntries(a, b) ==
    /\ CompareLess(a.key, b.key) <=> Less(EntryOf(a), EntryOf(b))
    /\ CompareUserKeysLess(a.key, b.key) <=> UserLess(EntryOf(a), EntryOf(b))

SuffixRoundTrips(e) ==
    LET packed == Packed(e.key)
    IN  /\ MakeInternalKey(UserKey(e.key), packed \div Base, packed % Base) = e.key
        /\ EntryOf([e EXCEPT !.key = ZeroOutSeqnoBytes(@)])
               = ZeroOutSeqno(EntryOf(e))

(* Well-formed keys are, as bytes, what InternalKeys takes them for.  The  *)
(* byte comparators order them just as it orders their entries: whatever   *)
(* the lengths of the user keys, one being a prefix of the other, and with *)
(* little-endian suffixes whose bytes compare the other way.  Taking a key *)
(* apart and putting it together again, as the fuzzer does and as          *)
(* zero_out_seqno does with sequence number 0, keeps user key and type     *)
(* whatever bytes the sequence number has.                                 *)
BytesStandForEntries ==
    /\ \A a, b \in WellFormed : OrderAsEntries(a, b)
    /\ \A e \in WellFormed : SuffixRoundTrips(e)

(* The contract of sort_prefix ("if sort_prefix(a) != sort_prefix(b), then *)
(* sort_prefix(a).cmp(&sort_prefix(b)) == compare(a, b)"), for keys        *)
(* shorter than the prefix and keys that end in zero bytes too.  Every     *)
(* comparator has HAS_SORT_PREFIX off, so the contract is one for a        *)
(* comparator yet to come.                                                 *)
PrefixNeverMisorders ==
    \A a, b \in RawEntries :
        ComparePrefixLess(a.key, b.key) <=> MemLess(a.key, b.key)

(* A compaction that returns has left out the malformed entries and        *)
(* nothing else: the output is what compact promises for the rest, even if *)
(* a malformed entry stood between two versions of one user key.  (What it *)
(* promises does not depend on how the entries are dealt to the sources:   *)
(* here each is a source of its own.)                                      *)
MalformedLeavesRestIntact ==
    phase = "done" =>
        IsBottommostOf([n \in DOMAIN output |-> EntryOf(output[n])],
                       [e \in WellFormed |-> <<EntryOf(e)>>])
=============================================================================
