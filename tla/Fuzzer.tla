------------------------------- MODULE Fuzzer -------------------------------
(***************************************************************************)
(* The differential fuzzer (crates/fuzzer): what generate_sources can      *)
(* generate and what decode_sst_entries reads back.  A random draw is any  *)
(* member of the range it is drawn from.  The trial itself, the compaction *)
(* of what was generated and the comparison with the oracle, is            *)
(* CompactionOracle's.                                                     *)
(***************************************************************************)
EXTENDS BottommostContract, Oracle

(* versions = rng.gen_range(1..=3)                                         *)
MAX_VERSIONS == 3

(* let seq = (versions - v): the first version pushed is the newest.       *)
VersionSeq(versions, v) == versions - v

(* What is drawn for one key: the source every version is pushed to, and   *)
(* the type of version 0, the only one that may be a tombstone.            *)
KeyDraws(num_sources) ==
    UNION {[newest : {TypeDeletion, TypeValue},
            src : [0..(versions - 1) -> 1..num_sources]] :
                versions \in 1..MAX_VERSIONS}

(* The token of format!("value_{}_{}", i, seq): one per key and sequence.  *)
ValueOf(i, seq) == i * (MAX_VERSIONS + 1) + seq

(* Version v of key i.                                                     *)
NewEntry(i, draw, v) ==
    LET seq == VersionSeq(Cardinality(DOMAIN draw.src), v)
    IN  [uk |-> i,
         packed |-> Pack(seq, IF v = 0 THEN draw.newest ELSE TypeValue),
         val |-> ValueOf(i, seq)]

(* What is pushed to source s, every key with its own draw.                *)
PushedTo(s, draws) ==
    UNION {{NewEntry(i, draws[i], v) :
               v \in {v \in DOMAIN draws[i].src : draws[i].src[v] = s}} :
                   i \in DOMAIN draws}

(* sort_by with compare_internal_keys.                                     *)
Sorted(pushed) ==
    CHOOSE list \in [1..Cardinality(pushed) -> pushed] :
        Ascending(list) /\ ToSet(list) = pushed

(* generate_sources: all it can return.                                    *)
GenerateSources(num_sources, num_keys) ==
    {[s \in 1..num_sources |-> Sorted(PushedTo(s, draws))] :
        draws \in [0..(num_keys - 1) -> KeyDraws(num_sources)]}

PairBefore(p, q) == p[1] < q[1] \/ (p[1] = q[1] /\ p[2] < q[2])

(* decode_sst_entries: the data blocks are walked in index order, the      *)
(* suffix is cut off every key, and the pairs are sorted.                  *)
DecodeSstEntries(file) ==
    LET pairs == [n \in DOMAIN file |-> <<file[n].uk, file[n].val>>]
        order == CHOOSE p \in [DOMAIN file -> DOMAIN file] :
                     /\ \A m \in DOMAIN file : \E n \in DOMAIN file : p[n] = m
                     /\ \A n, m \in DOMAIN file :
                            n < m => ~PairBefore(pairs[p[m]], pairs[p[n]])
    IN  [n \in DOMAIN file |-> pairs[order[n]]]
=============================================================================
