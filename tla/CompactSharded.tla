--------------------------- MODULE CompactSharded ---------------------------
(***************************************************************************)
(* compact_sharded (compaction/mod.rs): boundary keys from the largest     *)
(* source, every source cut at the same boundaries, one spawn_blocking     *)
(* task per shard, the tasks awaited in shard order.                       *)
(*                                                                         *)
(* A task's body is compact, taken by its contract.  tokio is not under    *)
(* src/: a spawned task runs sometime, on its own thread, ends or panics,  *)
(* and cannot be cancelled; awaiting it waits for its end.                 *)
(***************************************************************************)
EXTENDS BottommostContract

CONSTANTS
    Inputs,          \* the vectors of sources
    ShardCounts,     \* the values of num_shards
    MaxPanics        \* bound: how many tasks panic

ASSUME ParametersAssumption ==
    /\ \A input \in Inputs : input \in Seq(Source)
    /\ ShardCounts \subseteq Nat
    /\ MaxPanics \in Nat

VARIABLES
    sources, num_shards,
    boundaries,      \* Vec of boundary keys
    shard_inputs,    \* per shard: its window of every source
    task,            \* per shard: "spawned", "running", "ended", "panicked"
    task_output,     \* per shard: what compact returned in the task
    outputs,         \* results awaited so far, in shard order
    pc               \* "called", "sliced", "awaiting", "ok" or "err"

vars == <<sources, num_shards, boundaries, shard_inputs, task, task_output,
          outputs, pc>>

Shards == DOMAIN shard_inputs

Init ==
    /\ sources \in Inputs
    /\ num_shards \in ShardCounts
    /\ boundaries = <<>>
    /\ shard_inputs = <<>>
    /\ task = <<>>
    /\ task_output = <<>>
    /\ outputs = <<>>
    /\ pc = "called"

(* max_by_key(total_len): the last of the longest sources.                 *)
Largest(input) ==
    LET longest == {i \in DOMAIN input :
                       \A j \in DOMAIN input : Len(input[j]) <= Len(input[i])}
    IN  CHOOSE i \in longest : \A j \in longest : j <= i

(* pick_shard_boundaries: the keys at n*i/num_shards of the largest one.   *)
PickShardBoundaries(input, count) ==
    LET largest == input[Largest(input)]
        n == Len(largest)
        Idx(i) == (n * i) \div count
    IN  IF n = 0 THEN <<>>
        ELSE [i \in 1..(count - 1) |->
                 largest[(IF Idx(i) <= n - 1 THEN Idx(i) ELSE n - 1) + 1]]

(* Mutant: whole internal keys are compared, so that a boundary can fall   *)
(* between two versions of a user key.                                     *)
LowerBoundInternal(s, boundary) ==
    CHOOSE c \in 0..Len(s) : \A p \in DOMAIN s : p <= c <=> Less(s[p], boundary)

(* lower_bound: partition_point over the user keys; the number of entries  *)
(* before the boundary.                                                    *)
LowerBound(s, boundary) ==
    CHOOSE c \in 0..Len(s) :
        \A p \in DOMAIN s : p <= c <=> UserLess(s[p], boundary)

(* Mutant: start = end is missing.                                         *)
CutBeforeAtZero(s, cuts, k) == 0

(* Where shard k of a source starts and ends, as start and end run through *)
(* the boundaries; the last shard ends where the source does.              *)
CutBefore(s, cuts, k) == IF k = 1 THEN 0 ELSE LowerBound(s, cuts[k - 1])
CutAfter(s, cuts, k) ==
    IF k = Len(cuts) + 1 THEN Len(s) ELSE LowerBound(s, cuts[k])

(* source.shard(start, end), as the entries of the window.                 *)
Shard(s, start, end) == SubSeq(s, start + 1, end)

(* Without shards to make, compact runs inline.                            *)
CompactInline ==
    /\ pc = "called"
    /\ num_shards <= 1 \/ sources = <<>>
    /\ \E out \in BottommostOutputs(sources) : outputs' = <<out>>
    /\ pc' = "ok"
    /\ UNCHANGED <<sources, num_shards, boundaries, shard_inputs, task, task_output>>

(* Boundaries and windows.                                                 *)
Slice ==
    /\ pc = "called"
    /\ num_shards > 1 /\ sources # <<>>
    /\ boundaries' = PickShardBoundaries(sources, num_shards)
    /\ shard_inputs' =
         [k \in 1..(Len(boundaries') + 1) |->
            [i \in DOMAIN sources |->
               Shard(sources[i], CutBefore(sources[i], boundaries', k),
                                 CutAfter(sources[i], boundaries', k))]]
    /\ pc' = "sliced"
    /\ UNCHANGED <<sources, num_shards, task, task_output, outputs>>

(* Mutant: one task too many.                                              *)
SpawnOneMore ==
    /\ pc = "sliced"
    /\ task' = Append(task, "spawned")
    /\ task_output' = Append(task_output, <<>>)
    /\ pc' = IF Len(task') > Len(shard_inputs) THEN "awaiting" ELSE pc
    /\ UNCHANGED <<sources, num_shards, boundaries, shard_inputs, outputs>>

(* spawn_blocking for the next shard; after the last one the await loop.   *)
Spawn ==
    /\ pc = "sliced"
    /\ task' = Append(task, "spawned")
    /\ task_output' = Append(task_output, <<>>)
    /\ pc' = IF Len(task') = Len(shard_inputs) THEN "awaiting" ELSE pc
    /\ UNCHANGED <<sources, num_shards, boundaries, shard_inputs, outputs>>

(* A thread of the blocking pool takes the task.                           *)
StartTask(k) ==
    /\ task[k] = "spawned"
    /\ task' = [task EXCEPT ![k] = "running"]
    /\ UNCHANGED <<sources, num_shards, boundaries, shard_inputs, task_output,
                   outputs, pc>>

(* compact returns in the task.                                            *)
EndTask(k) ==
    /\ task[k] = "running"
    /\ \E out \in BottommostOutputs(shard_inputs[k]) :
           task_output' = [task_output EXCEPT ![k] = out]
    /\ task' = [task EXCEPT ![k] = "ended"]
    /\ UNCHANGED <<sources, num_shards, boundaries, shard_inputs, outputs, pc>>

Panicked == {k \in DOMAIN task : task[k] = "panicked"}

PanicTask(k) ==
    /\ task[k] = "running"
    /\ Cardinality(Panicked) < MaxPanics
    /\ task' = [task EXCEPT ![k] = "panicked"]
    /\ UNCHANGED <<sources, num_shards, boundaries, shard_inputs, task_output,
                   outputs, pc>>

(* The task whose turn it is.                                              *)
Awaited == Len(outputs) + 1

(* Mutant: the outputs are stacked up, the last one first.                 *)
AwaitEndedStacking ==
    /\ pc = "awaiting"
    /\ task[Awaited] = "ended"
    /\ outputs' = <<task_output[Awaited]>> \o outputs
    /\ pc' = IF Awaited = Len(task) THEN "ok" ELSE pc
    /\ UNCHANGED <<sources, num_shards, boundaries, shard_inputs, task, task_output>>

(* Mutant: the last task is not awaited.                                   *)
AwaitEndedButLast ==
    /\ pc = "awaiting"
    /\ task[Awaited] = "ended"
    /\ outputs' = Append(outputs, task_output[Awaited])
    /\ pc' = IF Awaited + 1 >= Len(task) THEN "ok" ELSE pc
    /\ UNCHANGED <<sources, num_shards, boundaries, shard_inputs, task, task_output>>

(* task.await is Ok: its output is pushed.                                 *)
AwaitEnded ==
    /\ pc = "awaiting"
    /\ task[Awaited] = "ended"
    /\ outputs' = Append(outputs, task_output[Awaited])
    /\ pc' = IF Awaited = Len(task) THEN "ok" ELSE pc
    /\ UNCHANGED <<sources, num_shards, boundaries, shard_inputs, task, task_output>>

(* Mutant: a panicked task counts as an empty output.                      *)
AwaitPanickedAsEmpty ==
    /\ pc = "awaiting"
    /\ task[Awaited] = "panicked"
    /\ outputs' = Append(outputs, <<>>)
    /\ pc' = IF Awaited = Len(task) THEN "ok" ELSE pc
    /\ UNCHANGED <<sources, num_shards, boundaries, shard_inputs, task, task_output>>

(* task.await is a JoinError: the call returns at once.  Tasks not yet     *)
(* awaited are left running and their outputs are lost.                    *)
AwaitPanicked ==
    /\ pc = "awaiting"
    /\ task[Awaited] = "panicked"
    /\ pc' = "err"
    /\ UNCHANGED <<sources, num_shards, boundaries, shard_inputs, task,
                   task_output, outputs>>

Terminated ==
    /\ pc \in {"ok", "err"}
    /\ \A k \in DOMAIN task : task[k] \in {"ended", "panicked"}
    /\ UNCHANGED vars

Coordinator == CompactInline \/ Slice \/ Spawn \/ AwaitEnded \/ AwaitPanicked

Task(k) == StartTask(k) \/ EndTask(k) \/ PanicTask(k)

Next == Coordinator \/ (\E k \in DOMAIN task : Task(k)) \/ Terminated

MaxShards == CHOOSE m \in ShardCounts : \A c \in ShardCounts : c <= m

(* The caller polls the future, and the pool runs every task it was given. *)
Fairness ==
    /\ WF_vars(Coordinator)
    /\ \A k \in 1..MaxShards : WF_vars(k \in DOMAIN task /\ Task(k))

Spec == Init /\ [][Next]_vars /\ Fairness
-----------------------------------------------------------------------------
TypeOK ==
    /\ sources \in Seq(Source) /\ num_shards \in ShardCounts
    /\ boundaries \in Seq(Entry)
    /\ shard_inputs \in Seq(Seq(Source))
    /\ task \in Seq({"spawned", "running", "ended", "panicked"})
    /\ Len(task) <= Len(shard_inputs) /\ Len(task_output) = Len(task)
    /\ task_output \in Seq(Seq(Entry))
    /\ outputs \in Seq(Seq(Entry))
    /\ pc \in {"called", "sliced", "awaiting", "ok", "err"}

(* The windows of a source neither overlap nor leave an entry out, and     *)
(* never run backwards, which ArenaSource::shard asserts: also when the    *)
(* largest source has fewer entries than there are shards and boundaries   *)
(* repeat.                                                                 *)
WindowsPartitionSources ==
    shard_inputs # <<>> =>
        \A i \in DOMAIN sources :
            LET s == sources[i]
                Start(k) == CutBefore(s, boundaries, k)
                End(k) == CutAfter(s, boundaries, k)
            IN  /\ Start(1) = 0 /\ End(Len(shard_inputs)) = Len(s)
                /\ \A k \in Shards :
                       /\ Start(k) <= End(k)
                       /\ k + 1 \in Shards => Start(k + 1) = End(k)
                       /\ shard_inputs[k][i] = SubSeq(s, Start(k) + 1, End(k))

(* "no user key straddles two shards regardless of which source(s) contain *)
(* it" (compact_sharded).                                                  *)
NoKeyInTwoShards ==
    \A k, l \in Shards :
        k < l => \A e \in InputEntries(shard_inputs[k]),
                    f \in InputEntries(shard_inputs[l]) : e.uk < f.uk

(* A sharded compaction that succeeds returns, file after file, the        *)
(* dataset an unsharded one returns, whatever order the tasks ended in     *)
(* (tests/subcompaction_e2e.rs).                                           *)
ShardedEqualsUnsharded ==
    pc = "ok" => IsBottommostAcross(outputs, sources)

(* A task outlives the call only after an error: when the call returns Ok  *)
(* no thread is still working on the sources.                              *)
NoStragglerAfterOk ==
    [][pc' = "ok" /\ pc # "ok" =>
          \A k \in DOMAIN task : task[k] = "ended"]_vars

(* What the caller can see of a sharded compaction.                        *)
JobStatus == IF pc \in {"ok", "err"} THEN pc ELSE "running"
JobResult == IF pc = "ok" THEN outputs ELSE <<>>

Job == INSTANCE CompactionJob
           WITH panicked <- (Panicked # {}), status <- JobStatus, result <- JobResult

(* To its caller compact_sharded is one compaction: the boundaries, the    *)
(* tasks and the awaiting are steps nobody sees, and in the end one step   *)
(* returns the whole dataset, or, only if a task panicked, an error and    *)
(* nothing of it.  The call returns however the tasks are scheduled.       *)
ImplementsJob == Job!JobSpec
=============================================================================
