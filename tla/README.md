# TLA+ specifications of compactor

`compactor` merges sorted RocksDB table files (SSTs) into a new one: it loads
each input into memory, merges the sources in internal-key order, lets a
strategy decide which versions survive, and lays the survivors out as an SST.
This directory models that pipeline in TLA+, checks it with TLC on small
instances, and proves its core with TLAPS.

All paths below are relative to `crates/compactor/src/` unless they say
otherwise.

## 1. The system

| Component | State | Operations | Talks to |
|---|---|---|---|
| internal keys (`format/internal_key.rs`, `merge/cmp.rs`) | none | `split`, the internal-key and the user-key comparator | everything |
| merge sources (`merge/source.rs`) | entries in an arena, a window, a read position | `peek`, `advance`, `lower_bound`, `shard`; `ArenaSourceBuilder::push`, `build` | mergers (owned by them), `compact_sharded` |
| `HeapMerger` (`merge/merger.rs`) | a binary heap of key copies | `new`, `run` | sources, callback `f` |
| `LoserTreeMerger` (`merge/merger.rs`) | losers per node, the winner | `new` / `build`, `run`, `replay_from_leaf` | sources, callback `f` |
| strategies (`compaction/strategy.rs`) | `SnapshotAwareStrategy`: one flag | `decide` | called by the driver's callback |
| compaction driver (`compaction/mod.rs`) | last user key, output so far | `compact`, `compact_with_strategy` | merger, strategy, `build_sst` |
| sharded compaction (`compaction/mod.rs`) | boundaries, windows, task handles | `compact_sharded` | tokio's blocking pool, `compact` |
| SST builder (`format/sst_builder.rs`, `block_builder.rs`, `footer.rs`, `properties.rs`) | open block, file buffer, index | `build_sst` | driver |
| SST loading (`load_arena_source`, `format/block.rs`, `footer.rs`) | arena | one pass over a file in memory | `compact_files` |
| incremental reader (`sst/mod.rs`, `io/mod.rs`) | cached file size, block position | `open`, `for_each_entry` | dump tool, tests |
| codecs (`format/varint.rs`, `block.rs`, `block_builder.rs`) | none | encode / decode | builder, readers |
| `compact_files`, `compactor` (`bin/`) | none | load, compact, one `fs::write`; dump | all of the above |
| oracle (`crates/oracle`), fuzzer (`crates/fuzzer`) | a map; none | `naive_compact`; random inputs | tests |

What is hard here:

* **Long legal sequences.** The loser tree replays one path per entry and
  trusts every loser recorded earlier. The heap keeps copies of keys. Both are
  right only as long as an invariant over many turns holds.
* **Order and ties.** Equal keys in several sources, several versions of a key,
  a tombstone as the newest version, a version exactly at the snapshot.
* **Concurrency.** The shards' tasks run on the pool in any order, one may
  panic while the others go on, and the caller awaits them in shard order.
* **Boundaries.** Fewer entries than shards, a boundary between two versions of
  one key, a block cut on the last entry, no entry at all, one source, no source.
* **Crash.** `fs::write` of the output is not atomic, the outputs of one
  compaction are the inputs of the next, and a run that died is started again.
* **A file that changes while it is read.** The incremental reader caches the
  size and the data handles, and every block is a read of its own.
* **Widths.** Arena offsets are 32 bits, suffixes are little-endian, a varint
  may be cut off in the middle.

What makes each component correct: mergers deliver every entry once, in order;
a compaction changes no answer of a reader it must serve, for keys of values and
tombstones (merge operands and range deletions are another matter, see sections
5 and 6); sharding changes nothing, and to its caller is one step; an arena
gives back what was pushed below 4 GiB; a built file can be searched and loads
as what was built; a scan sees one version of a file or fails; `compact_files`
leaves the right output or none that loads, and never loses a live key to a
rerun; the fuzzer never blames a correct compactor.
`PROJECT.json` lists the hazards line by line with the properties that watch
them.

## 2. Modules

```
InternalKeys ─┬─ MergeSource ── MergeOutput ─┬─ KWayMerge
              │                              └─ MergeRefinement ─┬─ HeapMerger
              │                                 (──► KWayMerge)  └─ LoserTree
              ├─ Strategy ───────────┬─ Compaction (Merging == INSTANCE KWayMerge)
              ├─ BottommostContract ─┤      └─ CompactionOracle ── CompactionClaims
              ├─ Oracle ── Fuzzer ───┼─────────┘
              │                      ├─ CompactSharded ──► CompactionJob     (refinement)
              │                      └─ CompactFiles
              ├─ ByteKeys ── RawCompaction
              └─ SstFile
Arena         Varint ── BlockCodec         SstReader
```

`Arena`, `BlockCodec` and `SstReader` stand for themselves: each takes one
thing the modules above abstract from (spans, bytes of a block, a file that
changes) and checks the assumption made there.

| Module | Models | State and actions against the code |
|---|---|---|
| `InternalKeys` | key layout, comparators, `zero_out_seqno` | `packed` is the u64 suffix `(seq << 8) \| type`; user keys are naturals, since the code only compares them |
| `MergeSource` | `ArenaSource` / `VecSource` behind `peek` and `advance` | `pos[i]` counts from the window's start |
| `MergeOutput` | what `f` has seen, `merged` | the invariants every merge owes its callback, stated once for all three merges |
| `KWayMerge` | the promise of the trait `KWayMerge` | one `Emit` per call of `f`, of any least front |
| `MergeRefinement` | what both mergers implement | `Abstract == INSTANCE KWayMerge`; the variables of the abstract merge are the mergers' own `sources`, `pos` and `merged` |
| `HeapMerger` | `HeapMerger` | `heap` is a set of `[source_idx, key]`; `Step` is one turn of `run`. `BinaryHeap` is taken by its contract |
| `LoserTree` | `LoserTreeMerger` | `tree`, `winner`, `k_padded` as in the code; one step per node of `build_subtree` and of `replay_from_leaf`; phantom leaves included |
| `Strategy` | the three `decide` | the flag is passed in and out |
| `BottommostContract` | what `compact` promises | used as a property of `Compaction` and as the body of a task in `CompactSharded` |
| `Compaction` | `compact_with_strategy` | `Visit` is the merger's turn with the whole callback; `Finish` is `build_sst` with its rewriting of sequence numbers |
| `Oracle` | `naive_compact` | a fold over the input |
| `Fuzzer`, `CompactionOracle` | `crates/fuzzer`, a trial of its differential test | `GenerateSources` is the set of all `generate_sources` can return; the trial is the compaction itself beside the oracle |
| `CompactionClaims` | two comments of `strategy.rs` | each refuted by a run, see section 5 |
| `CompactSharded` | `compact_sharded`, `pick_shard_boundaries`, `lower_bound`, `shard` | caller and tasks are separate processes; `Slice`, `Spawn`, `StartTask`, `EndTask`, `PanicTask`, `AwaitEnded`, `AwaitPanicked` |
| `CompactionJob` | what a caller of `compact_sharded` sees | one call, then one return; `CompactSharded` refines it with `panicked`, `status` and `result` mapped to its tasks, `pc` and `outputs` |
| `SstFile` | `build_sst`, `fs::write`, `load_arena_source` | blocks are records with offset, size and contents; sizes are counted, bytes are not spelled out |
| `Arena` | `ArenaSourceBuilder`, `ArenaSource` | the buffer and its spans byte by byte; `U32Range` stands for 2^32; u32 addition wraps or panics, as the build has it |
| `ByteKeys`, `RawCompaction` | `split`, both comparators, `load_be_prefix`; `compact` on unchecked keys | byte strings with `Base`, `SuffixLen` and `PrefixLen` for 256, 8 and 8; `EntryOf` maps them to the entries of the other modules |
| `Varint`, `BlockCodec` | `varint.rs`, `BlockBuilder`, `IndexBlockBuilder`, properties and metaindex, `parse_block`, both `for_each` | one step per `add` and per decoded entry; a block may be cut short between builder and reader |
| `SstReader` | `sst/mod.rs`, `io/mod.rs`, the dump tool | one step per `read_at`; the writer truncates and refills the file in between |
| `CompactFiles` | `bin/compact_files.rs` | one step per input and per piece written; dying (`Die`) and being started again (`RunAgain`) anywhere |

Two modules whose theorems stand in one `*Proofs` module have different names
for their specifications: `Spec` of `LoserTree` and `HeapSpec` of `HeapMerger`,
`Spec` of `CompactFiles` and `DumpSpec` of `SstReader`, `Spec` of `BlockCodec`
and `ArenaSpec` of `Arena`.

`MC*` modules and `MergeInputs` hold small inputs for TLC. `*Proofs` modules
hold theorems. A definition named in a comment as a mutant is a plausible bug
in the operator below it; it is not part of the model, and replacing the
operator by it violates the property `PROJECT.json` names.

Abstractions that matter for reading the results:

* user keys and values are numbers, and every key has its eight suffix bytes
  (`ByteKeys` and `RawCompaction` justify the first and drop the second);
* a block's checksum is perfect, and the footer's magic number occurs only in a
  footer, so a read succeeds exactly where a block was written. That a file cut
  short does not load (`SstFile.FooterAtTail`, `CompactFiles.LoadFails`) is this
  assumption and not a result; what is shown is what follows from it;
* the size of a stored entry is any member of `EntrySizes`, so the model cuts
  blocks in every place prefix compression could lead to;
* a task of `compact_sharded` does `compact` in one step, by the contract that
  `Compaction` is shown to keep (nothing else can see its intermediate states);
* what readers see (`Get`) is RocksDB's rule as the comments of `strategy.rs`
  state it, for values and tombstones. It is marked external, and the properties
  about readers are about the keys it fits (`PlainKeys`): no merge operand among
  the key's versions, no range deletion in the sources. The order of the output,
  the bottommost contract, the flag and the oracle are checked of all entries;
* `ComparePrefixLess` of `ByteKeys` has the prefix comparison of the mergers as
  if it were on. `HAS_SORT_PREFIX` is false in every comparator of the
  repository, so the code never takes it: `PrefixNeverMisorders` checks the
  contract `sort_prefix` documents, and no merge relies on it;
* in `SstReader` a checksum is the triple of contents, context and offset. The
  exclusive-or of context and offset is taken as injective in each of the two;
* a `ParsedBlock` of `BlockCodec` has its restarts as a set, which is what the
  sorted copy and the binary search in `for_each_index_entry` make of them;
* lengths and restarts are cut off at 32 bits where the code casts them
  (`PutVarint32`, `ToLeBytes`). A block that does not fit would not read back,
  so the properties of `BlockCodec` are about blocks that do (`FitsU32`).

## 3. Runs that pass

| Run | Instance | Shows |
|---|---|---|
| `heap_merger` | no source; 1 and 2 sources with any subset of three entries; 3 with up to two; 5 with up to one; one source with a key twice | `HeapMirrorsFronts`, `MergedAscending`, `MergedIsConsumed`, `NothingLost`, `ImplementsKWayMerge` (with its liveness) |
| `loser_tree` | the same: trees of 1, 2, 4 and 8 leaves, with 0, 1 and 3 phantoms | `WinnerIsLeast`, `TreeRecordsMatches`, `StopsOnlyWhenExhausted`, `Returns`, `ImplementsKWayMerge` |
| `compaction` | every deal of six versions (tombstones of both kinds, two versions with one sequence number) to two sources; a few with merge operands and a range deletion; and everything the fuzzer can generate for one or two sources and up to two keys; all strategies, every snapshot from 0 to 3, external or not | `ReadersUnaffected`, `OutputStrictlyAscending`, `MeetsBottommostContract`, `KeptFlagExact`, `IngestContract`, `AgreesWithOracle` |
| `compact_sharded` | every deal of five versions of three keys to two sources, a shared key, no source; 1 to 3 shards; at most one panic | `WindowsPartitionSources`, `NoKeyInTwoShards`, `ShardedEqualsUnsharded`, `NoStragglerAfterOk`, `ImplementsJob` (returns, and all or nothing) |
| `sst_file` | 0 to 4 entries, three entry sizes around the block target, two meta block sizes, a crash at every byte of the file | `PointLookupFindsEveryKey`, `BlocksContiguous`, `NoEntryLostAtCut`, `LoadedIsBuilt`, `CompleteFileLoads` |
| `arena` | up to three entries with keys of 1 to 3 and values of 0 to 3 bytes, offsets with 8 values, every window, builds with and without overflow checks | `EntriesBelowRangeReadBack` |
| `raw_compaction` | every deal of six raw entries (one user key a prefix of another, one empty) to two sources, with up to one short key anywhere | `BytesStandForEntries`, `PrefixNeverMisorders`, `MalformedLeavesRestIntact` |
| `block_codec` | every choice of four keys, restart intervals 1 to 3, handles of two sizes, properties with and without the optional ones; a cut at every byte | `ReadsBack`, `SeekFromAnyRestart`, `MetaBlocksReadBack`, `Returns` |
| `sst_reader` | six files (five of one layout, one of them of format 5 and two with one context, and a longer one), two rewrites, pieces of every length | `ScanIsOneFile`, `QuietScanSucceeds` |
| `compact_files` | two inputs, one of them absent, short, torn or complete, an input named twice, an empty list; a key deleted by the one input, one by the other under a value; output new, old or one of the inputs; three runs | `OutputIsRight`, `RerunKeepsLiveKeys` |

Why the bounds are enough. *Mergers*: five sources in a tree of eight leaves
have replay paths of three nodes, phantoms beside real leaves and phantoms in a
whole subtree; three entries in two sources give ties, duplicates and sources
that run dry at different times. The theorems of section 4 lift the safety part
to any size. *Compaction*: the driver's memory is the last user key and one
flag, so two keys, one with four versions, reach each of their combinations: a
new key after a kept, a dropped and a deleted one, and a version above, at and
below the snapshot. *Sharding*: two sources of at most five entries and three
shards give boundaries between versions of a key, repeated boundaries and empty
windows; the tasks interact with the caller only, so one panic and two others
cover "before it, after it and still running". *SST file*: `RestartInterval` 2
and `TargetBlockSize` 24 stand for 16 and 4096; with sizes 4, 9 and 20 a block
is cut after one, two or three entries, and also exactly on the last one.
*Arena*: 8 for 2^32 with arenas of up to 18 bytes puts every part of an entry
before, on and beyond the range, and beyond it twice; `ArenaReadsBack` has the
rest. *Raw keys*: three byte values, a suffix of two bytes and a prefix of three
have each of the comparisons decided in the user key, in a later suffix byte, in
the padding and behind the prefix. *Codec*: varint groups of two bits in 7-bit
and 6-bit integers make lengths and handles take one or several bytes, and a
restart both of its two; the fifth kind of key relation would be a repetition of
one of the four. *Reader*: a scan has six reads, so two rewrites can fall
before, between and after any of them. *compact_files*: a third run starts over
what two different failures left. *Fuzzer*: two keys are enough for one to
follow another, two sources for every split of a key's three versions.

Fairness. `HeapMerger`, `LoserTree`, `Compaction`, `SstFile` are sequential
code without waiting: weak fairness of `Next` says that a running call goes on
running. In `CompactSharded` it is weak fairness of the caller (its future is
polled) and of every spawned task (tokio's blocking pool runs what it was
given, and `compact` terminates). `BlockCodec` is sequential as well. In
`SstReader` the reader alone is fair: its task is resumed when `spawn_blocking`
returns, while nothing obliges a writer to finish a file. No strong fairness is
used, and none at all in `CompactFiles`, `Arena` and `RawCompaction`, of which
only safety is checked.

`CHECK_DEADLOCK` stays on; a component that has finished stutters explicitly in
`Terminated`.

## 4. Proofs

What each proof assumes of the constants:

| Module | Assumption | Why the code justifies it |
|---|---|---|
| mergers, `Compaction`, `CompactSharded` | the inputs are sequences of sorted sources (`InputsAssumption`, `ParametersAssumption`) | the contract of `MergeSource` |
| `CompactionOracle` | the fuzzer draws natural numbers (`DrawsAssumption`) | types only |
| `RawCompaction` | sources are sorted but for keys without a suffix, which no comparator has compared (`RawInputsAssumption`); a byte has at most 256 values, a suffix at least one byte (`BytesAssumption`) | the same contract; types |
| `SstFile` | strictly ascending entries, positive sizes | the contract of `BlockBuilder::add`, which `StrictOutput` shows the driver to keep under every strategy that may drop duplicates |
| `SstReader` | every file written is an SST (`IsSst`): blocks follow each other, the index lists the data blocks, which come first, and the metaindex has the index's handle | what `SstFileProofs` shows of `build_sst` |
| `Varint` | a varint and a fixed integer have bytes enough for their widths (`VarintAssumption`) | ten groups of 7 bits for 64 bits, four bytes for 32 |
| `BlockCodec` | each handle of an index starts behind the block before it, and sizes fit an `i64`; the names in a metaindex are distinct; the restart interval is positive (`BlocksAssumption`) | `BlocksContiguous`, as `SstFileProofs` shows of `build_sst`, which also fixes the names and the interval; a size is a `Vec`'s length |
| `Arena`, `CompactFiles` | types | |

A property of a recursive function is shown of the set of arguments that have
it: a set with 0 and every successor of a member is all of `Nat`
(`SetInduction`, from the well-foundedness of `<`).

* `KWayMergeProofs`: `TypeCorrect`, `DeliversInOrder`, `NothingComesTooLate`,
  `NothingSkipped`, `DeliversAll`.
  That what was delivered is sorted is not inductive: the next front might
  belong before it. The invariant adds `FrontsNotBelowMerged`, "nothing still to
  come belongs before anything delivered", which a step keeps because it
  delivers a least front and the sources are sorted. `MergedIsConsumed`, that
  the callback has seen exactly what the positions have passed, is inductive
  with the type invariant. `DeliversAll` (`NothingLost`) counts: every entry has
  been delivered as often as it stands before the read positions
  (`CountsAgree`), because a step adds one call and one place to the same entry.
* `MergerProofs`, on `HeapMerger`: `HeapTypeCorrect`, `HeapNeverStale`,
  `HeapRefinesKWayMerge`, `HeapMergesCorrectly`.
  `HeapMirrorsFronts` with the type invariant is inductive; it makes the popped
  entry a least front, so every turn is a step of `KWayMerge`. What
  `KWayMergeProofs` shows of every merge is then carried over: sorted, nothing
  invented, nothing lost or repeated.
* `MergerProofs`, on `LoserTree`: `TypeCorrect`, `MatchesStand`,
  `WinnerAlwaysLeast`, `StopsAtTheEnd`, `RefinesKWayMerge`, `MergesCorrectly`,
  for any number of sources. The invariant has three parts.
  *While building*, results of finished subtrees without a finished parent and
  the recorded losers are distinct leaves. *Between turns*, the winner and all
  losers are distinct, and every node records the match of its children. *While
  replaying*, the nodes the old winner had won and that are still to be played
  are the nodes from `node` to the root, each with its other child's result as
  its loser; every other match stands. From a tree whose matches all stand,
  going down from the root (least counterexample) no leaf beats the winner. It
  is not used that the number of leaves is a power of two.

* `CompactionProofs`: `TypeCorrect`, `StrictOutput`, `FlagExact`,
  `KeepsContract`, `ReadersServed`, `IngestContractKept`, `RefinesJob`, for any
  sorted sources and any set of strategies (what readers see: for the keys in
  `PlainKeys`). The invariant takes the merge's own one from `KWayMergeProofs` and adds what the
  callback remembers: the last user key is that of the last entry seen, hence
  the greatest seen; every output entry has been seen; and, for the bottommost
  strategy, each key seen either has its newest version in the output or that
  version is a tombstone. A second version of a key is written only if the flag
  was clear, so by `KeptFlagExact` it is older than all written before it:
  the output is strictly ascending. At the end the entries seen are all entries
  (`MergedIsConsumed` with exhausted sources), and two newest versions of a key
  have one packed word, so they agree on being a tombstone: the contract.
  For the readers of the other strategies the invariant has `Covers(r)`: of
  every version seen that a reader at `r` could see, the output has the same or
  a newer version of that key, also visible at `r`. A dropped entry keeps this
  since, by `KeptFlagExact`, a newer version at or below the snapshot has been
  written. The bottommost reader's answers follow from the contract. With
  `file = Rewritten(output)` the same answers hold for the ingested file, where
  every sequence number is 0 and the keys are distinct because the bottommost
  output has one entry per user key.

  `OracleAgrees` compares the file with the oracle, for every well-formed input
  and every input `generate_sources` can make (`TrialsAreWellFormed`: it numbers
  the versions of a key, so no two have one sequence number). By the contract
  the file has one entry per user key whose best version is no tombstone, in key
  order. Where two versions of a key never have the same sequence number, that
  best version is the first one `naive_compact` cannot replace, whichever order
  it meets them in (`BestIsNewest`); so both lists have the same keys with the
  same values, and two ascending lists of the same keys are one list
  (`MonotoneSurjection`).

* `RawCompactionProofs`: `BytesAreEntries`, `PrefixAgrees`, `RestIntact`, for
  any number of byte values, any lengths of suffix, prefix and keys. Two numbers
  with equally many digits are ordered by the first digit in which they differ
  (`FirstDigitDecides`, by induction over the digits). Hence comparing the
  padded eight-byte prefix first never contradicts `memcmp`, and the rank of a
  user key stands for it in the other modules. For the compaction the invariant
  `RawInv` says of the entries seen that have a suffix what `Compaction`'s says
  of all: the output is right for them (`RightFor`). A winner is least among the
  fronts, since with several sources live a key without a suffix has panicked
  the comparator, and with one the callback skips it.

* `CompactShardedProofs`: `TypeCorrect`, `WindowsPartition`, `NoStraddling`,
  `ShardedIsUnsharded`, `NoStraggler`, `RefinesJob`, for any sorted sources, any
  number of shards and any schedule of the tasks. The boundaries are keys of one
  sorted source at positions that do not decrease, and every source is cut at
  the first entry whose user key is not below the boundary
  (`LowerBound`, a least element). So a shard holds exactly the entries between
  its two boundaries, the windows partition each source, and no user key is in
  two shards. The newest version of a key in its shard is then the newest of
  all, and the shards' outputs together are the bottommost output. The rest of
  the invariant ties the tasks to the caller: the outputs collected are those of
  the tasks awaited, in shard order, and an error has a panic as its cause.
  `RefinesJob` maps each step to a step of `CompactionJob` or to none.

* `ToolProofs`, on `CompactFiles`: `OutputRight`, `RerunsKeepLiveKeys`, for any
  disk, any arguments and any number of runs, from `CallsAssumption` (types
  only). A run writes to its output only; so, as long as no input is the output
  or the first run has not opened it, inputs are what they were, and what was
  compacted are the originals. The output is untouched, or incomplete since some
  run truncated it, or complete since some run finished it.

  `RerunsKeepLiveKeys` has no such premise. An input loaded is an original or
  the output of an earlier run, which keeps what was live (`KeepsLive`): of each
  live key a newest original version and no other. Every key has a newest
  version (`NewestExists`, the sources being finite). The originals' newest
  version of a live key is therefore among what is loaded, nothing loaded is
  newer, and it is no tombstone: the compaction of what was loaded keeps what
  was live once more (`CompactKeepsLive`). With `--for-ingest` only the other
  part holds, that all entries are original ones with sequence number 0.

* `ToolProofs`, on `SstReader`: `ScansOneFile`, for any files, any number of
  rewrites at any moments and any entries. `DumpInv` says of every version `v`
  that has the footer's context and shares it with no other: the index handle is
  `v`'s own, the handles left are those of `v`'s last data blocks, and what was
  visited are the entries of the blocks before them (`ScanOf(v)`). A block that
  passes its check has the right context and offset; no other version has the
  context and no two blocks of `v` have one offset (`OffsetsIncrease`), so it is
  that block of `v`, whatever the file is by then.

* `SstFileProofs`: `TypeCorrect`, `Contiguous`, `CutsLoseNothing`,
  `LookupsSucceed`, `LoadsWhatWasBuilt`, for any strictly ascending entries, any
  sizes of entries and meta blocks, any block target and restart interval. None
  of the properties is inductive. The invariant names the cuts: there is an
  increasing function from block numbers to positions such that block `n` holds
  the entries after `cut[n - 1]` up to `cut[n]`, its separator is the entry at
  `cut[n]`, the open block has the rest, and every entry added is in one of
  them. Blocks follow each other, so no two share an offset and a handle finds
  one block only; hence the footer's arithmetic finds the metaindex, its handle
  the index, and the index the data blocks. While loading, the arena holds the
  entries up to a cut and the handles left are those of the blocks after it.

* `CodecProofs`, on `BlockCodec`: `BlocksReadBack`, `BlocksSeekable`,
  `MetaBlocksFound`, for any keys, values, handles and restart intervals and any
  widths. The digits of a number make the number again, so varints, zigzag
  differences and little-endian integers read back wherever they stand in a
  block, and what is read ends where they end. The invariant `CodecInv` says
  that the builder's fields follow from how many items were added (`Built`):
  there are offsets such that item `n`, encoded against its predecessor, stands
  between the offsets of `n - 1` and `n`, and the restarts are the offsets of
  every `interval`-th item. Nothing is shared at such an item, so a decoder that
  starts there with no key and no handle comes to the same state as one that
  came from the beginning. The reader of a whole block is at the offset of some
  item, with that item's key and handle and all items up to it. `WalkFrom` is a
  recursive function: the decoder's states from a restart on satisfy its
  recursion, and nothing else does. Sorting the meta blocks' names by rank is
  one-to-one since the names differ, so every name gets a place.

* `CodecProofs`, on `Arena`: `ArenaTypeCorrect`, `ArenaReadsBack`, for any
  entries, any range of the offsets and builds of either kind. What has been
  read says nothing about spans not yet read, so the invariant adds
  `SpansExact`: the span of every entry that ends below the range holds the
  lengths of its entry and points at its bytes. A push appends, so it moves
  nothing, however far the arena has outgrown the range; `ends`, where each
  entry ends, is a history variable.

`RefinesKWayMerge` is the safety half of `ImplementsKWayMerge`
(`Init /\ [][Next]_vars` of `KWayMerge`).

`CompactShardedProofs!RefinesJob` is the safety half of `ImplementsJob` in the
same sense (`JobSafety`). `CompactionProofs!RefinesJob` shows the same
`CompactionJob` of an unsharded bottommost compaction, so the two keep one
promise to their caller; it also justifies that a task in `CompactSharded`
compacts its shard in one step.

The invariants `IInv` of `CompactShardedProofs` and `SstFileProofs` were checked
with TLC on their components' instances before they were proved (without the
type of a block in `FileOK`, a set TLC cannot test membership in).

Only model-checked is liveness (`Returns`, `CompleteFileLoads`,
`QuietScanSucceeds`, the fairness in `ImplementsKWayMerge` and `ImplementsJob`):
fairness and ENABLED are beyond the prover.

## 5. Where the code and its comments disagree

Two comments are refuted by a run of their own (`expect: violation`); their
text is in `PROJECT.json`.

| Run | What happens |
|---|---|
| `claim_later_snapshots` | with one `snapshot_seqno`, a second, later snapshot loses the version it reads; the comment calls one boundary sufficient |
| `claim_dropped` | the base value under a merge operand is dropped although readers need it |

The models have the following behaviours of the code, each of which some
comment describes otherwise:

* `compact_files` writes every file with the context 0x4242_4242, where
  `SstBuilderOptions` asks for a random one. `ScanIsOneFile` therefore promises
  nothing for such files: a scan of one that is being rewritten with the same
  layout can mix two versions and succeed.
* `split` in `merge/cmp.rs` panics on a key shorter than its suffix
  (`RawCompaction.ComparatorPanics`). The callback, which says it skips such a
  key, sees it only while no other source is live.
* `load_arena_source` panics on a file shorter than a footer
  (`CompactFiles.LoadPanics`), where `decode_footer` would return an error.
* An arena beyond 4 GiB is built without complaint (`Arena.Push` has no guard),
  while the comment on `ArenaSource` says the offsets cap it. Entries that end
  below that point stay readable (`EntriesBelowRangeReadBack`); of those behind
  it nothing is promised: they panic or give back other entries' bytes.
* An external file made with another strategy than `BottommostStrategy` can
  have several versions of a key, all with sequence number 0, which is why
  `IngestContract` is about that strategy only.
* `SnapshotAwareStrategy` also drops tombstones at or below the snapshot. This
  is harmless (`ReadersUnaffected`); the comment is too strict.
* On equal sequence numbers the oracle keeps the version it met first, so its
  answer depends on the order of the sources: hence `WellFormed` in
  `AgreesWithOracle`.
* All property names share the prefix `rocksdb.`, so entries of the properties
  block do depend on the one before; harmless (`ReadsBack`).

Two things the models show that contradict no comment. With the output path
among the inputs, a second run of `compact_files` after a failed write compacts
a file whose tombstones are already gone, and deleted keys return
(`OutputIsRight` excludes exactly that case). Live keys keep their newest
version (`RerunKeepsLiveKeys`), unless `--for-ingest` was given: the first run
has then zeroed the sequence numbers of the output, and in the second an older
tombstone of another input wins over them, so that a live key is lost, too. And
the fuzzer only ever makes the
newest version of a key a tombstone, so its trials never have a value over a
tombstone; `AgreesWithOracle` covers those inputs.

## 6. Not modelled

* Checksum arithmetic (xxhash, crc32c) and the decompression libraries: pure
  functions of bytes. With `ChecksumType::NoChecksum` or a file of a format
  before 6, which has no context, `ScanIsOneFile` has nothing to rest on;
  compactor writes neither.
* The index blocks of formats 2 and 3, which `decode_footer` admits and
  `for_each_index_entry` would decode as those of format 4 (see the hazards).
* A footer or handle that is wrong although its checksum is right.
* What merge operands and range deletions mean to a reader. A merge operand is
  read together with its base, and the strategies may drop the base
  (`claim_dropped`); a range deletion covers keys other than its own, and
  passing it through or dropping it by its own key, as the strategies do, is not
  RocksDB's rule, which the repository's documentation says as well. Both kinds
  of entries are in the models as entries to merge, keep or drop.
* Test code, benchmarks, logging and the layout of printed lines. The
  end-to-end tests against RocksDB run its own tools.

## 7. State

Every component of section 1 has its module, and every safety property a run
checks is proved for all values of the constants.
