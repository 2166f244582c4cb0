------------------------- MODULE BottommostContract -------------------------
(***************************************************************************)
(* What compact promises (compaction/mod.rs, strategy.rs): of every user   *)
(* key the newest version, if that is not a tombstone, in key order.       *)
(* Compaction is shown to keep the promise; CompactSharded runs every      *)
(* shard by it and is shown to keep it as a whole.                         *)
(***************************************************************************)
EXTENDS InternalKeys, FiniteSets, SequencesExt

InputEntries(input) == UNION {ToSet(input[i]) : i \in DOMAIN input}

(* The versions of key k with no newer one in the input: one, or several   *)
(* with the same internal key.                                             *)
NewestVersions(input, k) ==
    {e \in InputEntries(input) :
        /\ e.uk = k
        /\ \A f \in InputEntries(input) : f.uk = k => f.packed <= e.packed}

(* The keys a compaction keeps.                                            *)
LiveKeys(input) ==
    {k \in {e.uk : e \in InputEntries(input)} :
        \A e \in NewestVersions(input, k) : ~IsTombstone(e)}

IsBottommostOf(out, input) ==
    /\ \A i, j \in DOMAIN out : i < j => out[i].uk < out[j].uk
    /\ \A i \in DOMAIN out : out[i] \in NewestVersions(input, out[i].uk)
    /\ {out[i].uk : i \in DOMAIN out} = LiveKeys(input)

(* The same of several files: read one after the other they are one.       *)
IsBottommostAcross(files, input) ==
    /\ \A n \in DOMAIN files : \A i, j \in DOMAIN files[n] :
           i < j => files[n][i].uk < files[n][j].uk
    /\ \A n, m \in DOMAIN files : n < m =>
           \A i \in DOMAIN files[n], j \in DOMAIN files[m] : files[n][i].uk < files[m][j].uk
    /\ \A n \in DOMAIN files : \A i \in DOMAIN files[n] :
           files[n][i] \in NewestVersions(input, files[n][i].uk)
    /\ UNION {{files[n][i].uk : i \in DOMAIN files[n]} : n \in DOMAIN files} = LiveKeys(input)

(* The outputs the promise allows.                                         *)
BottommostOutputs(input) ==
    LET kept == UNION {NewestVersions(input, k) : k \in LiveKeys(input)}
    IN  {out \in [1..Cardinality(LiveKeys(input)) -> kept] : IsBottommostOf(out, input)}
=============================================================================
