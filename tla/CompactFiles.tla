---------------------------- MODULE CompactFiles ----------------------------
(***************************************************************************)
(* The tool compact_files (bin/compact_files.rs) on a disk: arguments,     *)
(* loading the inputs one by one, the compaction, and fs::write, which     *)
(* truncates the output file and fills it.  The process may die anywhere,  *)
(* and whoever started it may run it again with the same arguments.        *)
(*                                                                         *)
(* Loading and compacting are taken by their contracts.  That a complete   *)
(* file loads as what was built and that the compaction is bottommost is   *)
(* shown of SstFile and Compaction; that a file that is not complete does  *)
(* not load is assumed here as it is there (SstFile's FooterAtTail).       *)
(***************************************************************************)
EXTENDS BottommostContract

CONSTANTS
    Paths,       \* file names
    Calls,       \* argument vectors: [form, for_ingest, output, inputs]
    Disks,       \* what is on disk before the first run
    MaxRuns      \* bound on the number of runs

(* A file: it does not exist, has less than a footer's bytes, has some but *)
(* not all of its bytes, or is complete.                                   *)
Absent == [state |-> "absent", entries |-> <<>>]
Partial(len) == [state |-> len, entries |-> <<>>]
Complete(entries) == [state |-> "complete", entries |-> entries]
File == [state : {"absent", "short", "torn", "complete"}, entries : Seq(Entry)]

ASSUME CallsAssumption ==
    /\ MaxRuns \in Nat
    /\ \A c \in Calls :
         /\ c.form \in {"too_few", "paths", "list", "list_unreadable"}
         /\ c.for_ingest \in BOOLEAN
         /\ c.output \in Paths /\ c.inputs \in Seq(Paths)
    /\ \A d \in Disks : d \in [Paths -> File]

VARIABLES
    call,            \* the arguments
    disk, before,    \* the files, and what they were before the first run
    runs,            \* runs so far
    sources,         \* inputs loaded so far
    output_bytes,    \* what compact returned
    pc               \* next step, "dead", or how the process ended

vars == <<call, disk, before, runs, sources, output_bytes, pc>>

Init ==
    /\ call \in Calls
    /\ disk \in Disks /\ before = disk
    /\ runs = 1
    /\ sources = <<>> /\ output_bytes = <<>>
    /\ pc = "args"

Exit(code) ==
    /\ pc' = code
    /\ UNCHANGED <<call, disk, before, runs, sources, output_bytes>>

(* The arguments up to input_paths; a list file without a name in it is    *)
(* as good as any.                                                         *)
ParseArgs ==
    /\ pc = "args"
    /\ Exit(IF call.form \in {"too_few", "list_unreadable"} THEN "exit_1" ELSE "load")

NextInput == disk[call.inputs[Len(sources) + 1]]

(* Mutant: an input that cannot be read counts as empty.                   *)
LoadFailsSkips ==
    /\ pc = "load"
    /\ Len(sources) < Len(call.inputs)
    /\ NextInput.state \in {"absent", "torn"}
    /\ sources' = Append(sources, <<>>)
    /\ UNCHANGED <<call, disk, before, runs, output_bytes, pc>>

(* io::open or load_arena_source returns an error.                         *)
LoadFails ==
    /\ pc = "load"
    /\ Len(sources) < Len(call.inputs)
    /\ NextInput.state \in {"absent", "torn"}
    /\ Exit("exit_1")

(* Mutant: a file without room for a footer counts as empty.               *)
LoadShortAsEmpty ==
    /\ pc = "load"
    /\ Len(sources) < Len(call.inputs)
    /\ NextInput.state = "short"
    /\ sources' = Append(sources, <<>>)
    /\ UNCHANGED <<call, disk, before, runs, output_bytes, pc>>

(* load_arena_source panics on a file without room for a footer.           *)
LoadPanics ==
    /\ pc = "load"
    /\ Len(sources) < Len(call.inputs)
    /\ NextInput.state = "short"
    /\ Exit("panic")

Load ==
    /\ pc = "load"
    /\ Len(sources) < Len(call.inputs)
    /\ NextInput.state = "complete"
    /\ sources' = Append(sources, NextInput.entries)
    /\ UNCHANGED <<call, disk, before, runs, output_bytes, pc>>

(* With --for-ingest build_sst sets all sequence numbers to 0.             *)
Written(out) ==
    IF call.for_ingest THEN [n \in DOMAIN out |-> ZeroOutSeqno(out[n])] ELSE out

(* compact, which always succeeds.                                         *)
Compact ==
    /\ pc = "load"
    /\ Len(sources) = Len(call.inputs)
    /\ \E out \in BottommostOutputs(sources) : output_bytes' = Written(out)
    /\ pc' = "write"
    /\ UNCHANGED <<call, disk, before, runs, sources>>

Put(file) == disk' = [disk EXCEPT ![call.output] = file]

(* fs::write creates or truncates the file, unless that fails...           *)
OpenOutput ==
    /\ pc = "write"
    /\ Put(Partial("short"))
    /\ pc' = "writing"
    /\ UNCHANGED <<call, before, runs, sources, output_bytes>>

OpenOutputFails == pc = "write" /\ Exit("exit_1")

(* ...and writes the bytes, in one piece or in several...                  *)
WriteMore ==
    /\ pc = "writing"
    /\ disk[call.output].state = "short"
    /\ Put(Partial("torn"))
    /\ UNCHANGED <<call, before, runs, sources, output_bytes, pc>>

WriteAll ==
    /\ pc = "writing"
    /\ Put(Complete(output_bytes))
    /\ pc' = "written"
    /\ UNCHANGED <<call, before, runs, sources, output_bytes>>

(* ...or fails in between, and what is written stays.                      *)
WriteFails == pc = "writing" /\ Exit("exit_1")

Finish == pc = "written" /\ Exit("exit_0")
-----------------------------------------------------------------------------
Ended == {"exit_0", "exit_1", "panic", "dead"}

Die == pc \notin Ended /\ Exit("dead")

(* The same command again, after a run that did not succeed.               *)
RunAgain ==
    /\ pc \in Ended \ {"exit_0"}
    /\ runs < MaxRuns
    /\ runs' = runs + 1
    /\ sources' = <<>> /\ output_bytes' = <<>>
    /\ pc' = "args"
    /\ UNCHANGED <<call, disk, before>>

Run ==
    \/ ParseArgs \/ LoadFails \/ LoadPanics \/ Load \/ Compact
    \/ OpenOutput \/ OpenOutputFails \/ WriteMore \/ WriteAll \/ WriteFails \/ Finish

Terminated == pc \in Ended /\ UNCHANGED vars

Next == Run \/ Die \/ RunAgain \/ Terminated

Spec == Init /\ [][Next]_vars
-----------------------------------------------------------------------------
(* The output is none of the inputs; nothing in the tool requires that.    *)
Apart == call.output \notin ToSet(call.inputs)

Loadable == \A p \in ToSet(call.inputs) : before[p].state = "complete"

Originals == [i \in DOMAIN call.inputs |-> before[call.inputs[i]].entries]

IsRight(file) ==
    /\ Loadable
    /\ \E out \in BottommostOutputs(Originals) : file = Complete(Written(out))

(* However often the tool dies or fails and is run again, an output file   *)
(* that loads is the one that was there before, or the compaction of the   *)
(* inputs as they were before the first run, never a part of it; and exit  *)
(* code 0 says it is there.  In place, with the output among the inputs,   *)
(* this holds for the first run only: a second one compacts a file whose   *)
(* tombstones are gone.                                                    *)
OutputIsRight ==
    Apart \/ runs = 1 =>
        /\ disk[call.output].state = "complete" =>
               disk[call.output] = before[call.output] \/ IsRight(disk[call.output])
        /\ pc = "exit_0" => IsRight(disk[call.output])

(* The original entries, as they look in a file the tool wrote.            *)
AsWritten(entries) ==
    IF call.for_ingest THEN {ZeroOutSeqno(e) : e \in entries} ELSE entries

KeepsLive(file) ==
    /\ file.state = "complete" /\ Loadable
    /\ ToSet(file.entries) \subseteq AsWritten(InputEntries(Originals))
    /\ ~call.for_ingest => \A k \in LiveKeys(Originals) :
           /\ \E e \in ToSet(file.entries) : e.uk = k
           /\ \A e \in ToSet(file.entries) :
                  e.uk = k => e \in NewestVersions(Originals, k)

(* In place, too, with the output among the inputs, and whatever earlier   *)
(* runs left of it: a run that completes its output has dropped no key     *)
(* that was live before the first one, has given none an older version,    *)
(* and has made nothing up.  A truncated or torn output is not taken for   *)
(* an input that has lost its entries, and one that is already compacted   *)
(* may only bring deleted keys back.  With --for-ingest the sequence       *)
(* numbers of a compacted input are gone, and just the last part holds.    *)
RerunKeepsLiveKeys ==
    /\ disk[call.output].state = "complete" =>
           disk[call.output] = before[call.output] \/ KeepsLive(disk[call.output])
    /\ pc = "exit_0" => KeepsLive(disk[call.output])
=============================================================================
