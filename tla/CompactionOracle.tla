-------------------------- MODULE CompactionOracle --------------------------
(***************************************************************************)
(* A trial of the differential fuzzer (fuzzer/tests/differential.rs): the  *)
(* compactor and the oracle on the same sources.                           *)
(***************************************************************************)
EXTENDS Compaction, Fuzzer

CONSTANTS
    NumSources,      \* num_sources is drawn from this set
    NumKeys          \* num_keys is drawn from this set

ASSUME DrawsAssumption == NumSources \subseteq Nat /\ NumKeys \subseteq Nat

(* The inputs of the trials.                                               *)
TrialInputs ==
    UNION {GenerateSources(s, k) : s \in NumSources, k \in NumKeys}

(* "Equal sequence numbers shouldn't occur across independent versions in  *)
(* well-formed input" (oracle/src/lib.rs).                                 *)
WellFormed(input) ==
    \A e, f \in InputEntries(input) :
        e.uk = f.uk /\ Seqno(e) = Seqno(f) => e = f

(* assert_eq!(compactor_out, oracle_out): on well-formed input, and on     *)
(* whatever the fuzzer generates, the bottommost compaction and the oracle *)
(* produce the same user keys with the same values, although one walks a   *)
(* merge with a remembered key and the other fills a map, and although     *)
(* they break ties differently.                                            *)
AgreesWithOracle ==
    /\ phase = "done" /\ strategy.kind = "bottommost"
    /\ WellFormed(sources) \/ sources \in TrialInputs
    => DecodeSstEntries(file) = NaiveCompact(sources)
=============================================================================
