----------------------------- MODULE ToolProofs -----------------------------
(***************************************************************************)
(* The two tools of src/bin: compact_files (CompactFiles) and the dump     *)
(* tool on a file that is being rewritten (SstReader).                     *)
(*                                                                         *)
(* compact_files, run any number of times on any disk and with any         *)
(* arguments, leaves no wrong output file behind, and loses no live key    *)
(* even where it overwrites one of its inputs.                             *)
(*                                                                         *)
(* A run writes only to its output.  So, as long as no input is the output *)
(* or nothing is written yet, an input is what it was before the first     *)
(* run, what is loaded is what was there, and what compact returned is the *)
(* compaction of the originals.  The output itself is untouched, or was    *)
(* truncated by some run and is not complete, or was completed by one.     *)
(*                                                                         *)
(* In place, an input may be the output of an earlier run.  It then has    *)
(* the newest version of every live key and no other of it, so the newest  *)
(* versions among what is loaded are the newest of the originals again.    *)
(*                                                                         *)
(* A scan of the dump tool visits the entries of one file, if no other     *)
(* file has that one's context.  A block that passes the check against the *)
(* context in the footer is then a block of that file, whatever is on disk *)
(* at that moment, and no two blocks of a file have the same offset.  So   *)
(* the index handle is the file's own, the handles are those of its data   *)
(* blocks, and what was visited are the entries of the first ones.         *)
(***************************************************************************)
EXTENDS CompactFiles, SstReader, FiniteSetTheorems, WellFoundedInduction, TLAPS

TypeInv ==
    /\ call \in Calls
    /\ disk = [p \in Paths |-> disk[p]] /\ before \in [Paths -> File]
    /\ runs \in Nat /\ runs >= 1

(* The runs OutputIsRight is about.                                        *)
Relevant == Apart \/ runs = 1

OthersKept == \A p \in Paths : p # call.output => disk[p] = before[p]

(* The first run reads its inputs before it opens its output.              *)
FirstReadsOriginals == runs = 1 /\ pc \in {"args", "load", "write"} => disk = before

(* The inputs loaded so far were loadable, and are what they were.         *)
LoadedOriginals ==
    /\ pc = "args" => sources = <<>>
    /\ pc = "load" /\ Relevant =>
           /\ sources \in Seq(Seq(Entry))
           /\ Len(sources) <= Len(call.inputs)
           /\ \A i \in DOMAIN sources :
                  /\ before[call.inputs[i]].state = "complete"
                  /\ sources[i] = before[call.inputs[i]].entries

CompactedOriginals ==
    pc \in {"write", "writing"} /\ Relevant => IsRight(Complete(output_bytes))

OutputInv ==
    Relevant =>
        /\ disk[call.output].state = "complete" =>
               disk[call.output] = before[call.output] \/ IsRight(disk[call.output])
        /\ pc \in {"written", "exit_0"} => IsRight(disk[call.output])

IInv ==
    /\ TypeInv /\ OthersKept /\ FirstReadsOriginals /\ LoadedOriginals
    /\ CompactedOriginals /\ OutputInv
-----------------------------------------------------------------------------
(* Induction: a set with 0 in it and with n + 1 for every n holds every    *)
(* natural number, as a smallest one left out would have a predecessor.    *)
LEMMA SetInduction ==
    ASSUME NEW T, 0 \in T, \A n \in Nat : n \in T => n + 1 \in T
    PROVE  \A n \in Nat : n \in T
<1> DEFINE Bad == Nat \ T
<1> SUFFICES ASSUME Bad # {} PROVE FALSE
  OBVIOUS
<1>1. PICK x \in Bad : \A y \in Bad : ~(<<y, x>> \in OpToRel(<, Nat))
  BY NatLessThanWellFounded, WFMin, Bad \subseteq Nat
<1>2. \A y \in Bad : ~(y < x)
  BY <1>1 DEF OpToRel
<1>3. x \in Nat /\ x # 0 /\ x - 1 \in Nat /\ (x - 1) + 1 = x /\ x - 1 < x
  OBVIOUS
<1>4. x - 1 \in T
  BY <1>2, <1>3
<1> QED BY <1>3, <1>4

LEMMA CallTypes ==
    ASSUME TypeInv
    PROVE  call.output \in Paths /\ call.inputs \in Seq(Paths)
BY CallsAssumption DEF TypeInv

(* No step changes the arguments or what the files were: which file is     *)
(* right, and whether the inputs are apart from the output, stays.         *)
LEMMA RightStays ==
    ASSUME UNCHANGED <<call, before>>
    PROVE  /\ \A f : IsRight(f)' <=> IsRight(f)
           /\ Apart' <=> Apart
           /\ Loadable' <=> Loadable
BY DEF IsRight, Apart, Loadable, Originals, Written

(* While a relevant run loads, an input is what it was at the start.       *)
LEMMA NextInputIsOriginal ==
    ASSUME IInv, Relevant, pc = "load", Len(sources) < Len(call.inputs)
    PROVE  NextInput = before[call.inputs[Len(sources) + 1]]
<1>1. call.inputs[Len(sources) + 1] \in Paths \cap ToSet(call.inputs)
  BY CallTypes DEF IInv, TypeInv, LoadedOriginals, ToSet
<1>2. CASE Apart
  BY <1>1, <1>2 DEF IInv, OthersKept, Apart, NextInput
<1>3. CASE runs = 1
  BY <1>3 DEF IInv, FirstReadsOriginals, NextInput
<1> QED BY <1>2, <1>3 DEF Relevant

(* The initial states.                                                     *)
LEMMA InitIInv == Init => IInv
BY CallsAssumption
   DEF Init, IInv, TypeInv, OthersKept, FirstReadsOriginals, LoadedOriginals,
       CompactedOriginals, OutputInv

(* A step that only moves on: to an exit, or from the arguments to the     *)
(* loading.                                                                *)
LEMMA ExitIInv ==
    ASSUME IInv, UNCHANGED <<call, disk, before, runs, sources, output_bytes>>,
           \/ pc' \in {"exit_1", "panic", "dead"}
           \/ pc' = "load" /\ pc = "args"
           \/ pc' = "exit_0" /\ pc = "written"
    PROVE  IInv'
<1> USE RightStays DEF IInv
<1>1. TypeInv' /\ OthersKept' /\ FirstReadsOriginals'
  BY DEF TypeInv, OthersKept, FirstReadsOriginals
<1>2. Relevant' <=> Relevant
  BY DEF Relevant
<1>3. LoadedOriginals' /\ CompactedOriginals'
  <2>1. CASE pc' = "load"
    BY <1>2, <2>1, CallTypes DEF LoadedOriginals, CompactedOriginals
  <2>2. CASE pc' # "load"
    BY <1>2, <2>2 DEF LoadedOriginals, CompactedOriginals
  <2> QED BY <2>1, <2>2
<1>4. OutputInv'
  <2>1. disk' = disk /\ call' = call /\ before' = before
    OBVIOUS
  <2>2. IsRight(disk[call.output])' <=> IsRight(disk[call.output])
    BY <2>1 DEF IsRight, Loadable, Originals, Written
  <2> QED BY <1>2, <2>1, <2>2 DEF OutputInv
<1> QED BY <1>1, <1>3, <1>4

(* A step of the tool or of whoever starts it.                             *)
LEMMA NextIInv == IInv /\ [Next]_vars => IInv'
<1> SUFFICES ASSUME IInv, [Next]_vars PROVE IInv'
  OBVIOUS
<1>1. CASE ParseArgs
  BY <1>1, ExitIInv DEF ParseArgs, Exit
<1>2. CASE LoadFails
  BY <1>2, ExitIInv DEF LoadFails, Exit
<1>3. CASE LoadPanics
  BY <1>3, ExitIInv DEF LoadPanics, Exit
<1>4. CASE Load
  <2> USE <1>4 DEF Load
  <2>1. TypeInv'
    BY DEF IInv, TypeInv
  <2>2. OthersKept' /\ FirstReadsOriginals' /\ CompactedOriginals'
    BY DEF IInv, OthersKept, FirstReadsOriginals, CompactedOriginals
  <2>3. LoadedOriginals'
    <3> SUFFICES ASSUME Relevant
                 PROVE  /\ sources' \in Seq(Seq(Entry))
                        /\ Len(sources') <= Len(call.inputs)
                        /\ \A i \in DOMAIN sources' :
                               /\ before[call.inputs[i]].state = "complete"
                               /\ sources'[i] = before[call.inputs[i]].entries
      BY DEF LoadedOriginals, Relevant, Apart
    <3>0. sources \in Seq(Seq(Entry)) /\ call.inputs \in Seq(Paths)
      BY CallTypes DEF IInv, LoadedOriginals
    <3>1. NextInput \in File
      BY <3>0, NextInputIsOriginal DEF IInv, TypeInv
    <3>2. sources' \in Seq(Seq(Entry)) /\ Len(sources') = Len(sources) + 1
      BY <3>0, <3>1 DEF File
    <3>3. ASSUME NEW i \in DOMAIN sources'
          PROVE  /\ before[call.inputs[i]].state = "complete"
                 /\ sources'[i] = before[call.inputs[i]].entries
      <4>1. CASE i \in DOMAIN sources
        BY <3>0, <3>1, <4>1 DEF IInv, LoadedOriginals, File
      <4>2. CASE i = Len(sources) + 1
        BY <3>0, <3>1, <4>2, NextInputIsOriginal DEF File
      <4> QED BY <3>0, <3>2, <3>3, <4>1, <4>2
    <3> QED BY <3>0, <3>2, <3>3
  <2>4. OutputInv'
    BY DEF IInv, OutputInv, Relevant, Apart, IsRight, Loadable, Originals, Written
  <2> QED BY <2>1, <2>2, <2>3, <2>4 DEF IInv
<1>5. CASE Compact
  <2> USE <1>5 DEF Compact
  <2>1. TypeInv' /\ OthersKept' /\ FirstReadsOriginals' /\ LoadedOriginals'
    BY DEF IInv, TypeInv, OthersKept, FirstReadsOriginals, LoadedOriginals
  <2>2. CompactedOriginals'
    <3> SUFFICES ASSUME Relevant PROVE IsRight(Complete(output_bytes'))
      BY DEF CompactedOriginals, Relevant, Apart, IsRight, Loadable, Originals, Written
    <3>1. DOMAIN sources = DOMAIN call.inputs
      BY CallTypes DEF IInv, LoadedOriginals
    <3>2. sources = Originals
      BY <3>1 DEF IInv, LoadedOriginals, Originals
    <3>3. Loadable
      BY <3>1 DEF IInv, LoadedOriginals, Loadable, ToSet
    <3> QED BY <3>2, <3>3 DEF IsRight
  <2>3. OutputInv'
    BY DEF IInv, OutputInv, Relevant, Apart, IsRight, Loadable, Originals, Written
  <2> QED BY <2>1, <2>2, <2>3 DEF IInv
<1>6. ASSUME NEW f, Put(f),
             UNCHANGED <<call, before, runs, sources, output_bytes>>,
             pc \in {"write", "writing"},
             \/ pc' = "writing" /\ f.state # "complete"
             \/ pc' = "written" /\ f = Complete(output_bytes)
      PROVE  IInv'
  <2> USE <1>6
  <2>1. disk'[call.output] = f
    BY CallTypes DEF IInv, TypeInv, Put
  <2>2. TypeInv' /\ OthersKept' /\ FirstReadsOriginals' /\ LoadedOriginals'
    BY <2>1 DEF IInv, TypeInv, OthersKept, FirstReadsOriginals, LoadedOriginals,
                Put
  <2>3. CompactedOriginals'
    BY DEF IInv, CompactedOriginals, Relevant, Apart, IsRight, Loadable, Originals, Written
  <2>4. OutputInv'
    <3> SUFFICES ASSUME Relevant
                 PROVE  /\ f.state = "complete" =>
                              f = before[call.output] \/ IsRight(f)
                        /\ pc' \in {"written", "exit_0"} => IsRight(f)
      BY <2>1 DEF OutputInv, Relevant, Apart, IsRight, Loadable, Originals, Written
    <3> QED BY DEF IInv, CompactedOriginals, Complete
  <2> QED BY <2>2, <2>3, <2>4 DEF IInv
<1>7. CASE OpenOutput
  BY <1>6, <1>7 DEF OpenOutput, Partial, Put
<1>8. CASE OpenOutputFails
  BY <1>8, ExitIInv DEF OpenOutputFails, Exit
<1>9. CASE WriteMore
  BY <1>6, <1>9 DEF WriteMore, Partial, Put
<1>10. CASE WriteAll
  BY <1>6, <1>10 DEF WriteAll, Complete, Put
<1>11. CASE WriteFails
  BY <1>11, ExitIInv DEF WriteFails, Exit
<1>12. CASE Finish
  BY <1>12, ExitIInv DEF Finish, Exit
<1>13. CASE Die
  BY <1>13, ExitIInv DEF Die, Exit
<1>14. CASE RunAgain
  <2> USE <1>14 DEF RunAgain
  <2>1. TypeInv' /\ OthersKept' /\ FirstReadsOriginals' /\ LoadedOriginals'
        /\ CompactedOriginals'
    BY DEF IInv, TypeInv, OthersKept, FirstReadsOriginals, LoadedOriginals,
           CompactedOriginals
  <2>2. Relevant' => Relevant
    BY DEF IInv, TypeInv, Relevant, Apart
  <2>3. IsRight(disk[call.output])' <=> IsRight(disk[call.output])
    BY DEF IsRight, Loadable, Originals, Written
  <2>4. OutputInv'
    BY <2>2, <2>3 DEF IInv, OutputInv
  <2> QED BY <2>1, <2>4 DEF IInv
<1>15. CASE UNCHANGED vars
  BY <1>15 DEF vars, IInv, TypeInv, OthersKept, FirstReadsOriginals, LoadedOriginals,
         CompactedOriginals, OutputInv, Relevant, Apart, IsRight, Loadable,
         Originals, Written
<1> QED
  BY <1>1, <1>2, <1>3, <1>4, <1>5, <1>7, <1>8, <1>9, <1>10, <1>11, <1>12, <1>13,
     <1>14, <1>15 DEF Next, Run, Terminated

LEMMA Invariance == Spec => []IInv
BY InitIInv, NextIInv, PTL DEF Spec

(* An output file that loads is the old one, or the compaction of the      *)
(* inputs as they were before the first run, and exit code 0 says it is    *)
(* there: for every disk, every command line, any number of runs that die  *)
(* or fail anywhere.                                                       *)
THEOREM OutputRight == Spec => []OutputIsRight
<1>1. IInv => OutputIsRight
  BY DEF IInv, OutputInv, OutputIsRight, Relevant
<1> QED BY <1>1, Invariance, PTL

-----------------------------------------------------------------------------
(* What in-place reruns keep.  An input loaded is what it was, or the      *)
(* output an earlier run completed; what compact returns, and so what is   *)
(* on disk once it is written, keeps what was live.                        *)
LoadedKept ==
    pc = "load" =>
        /\ sources \in Seq(Seq(Entry))
        /\ Len(sources) <= Len(call.inputs)
        /\ \A i \in DOMAIN sources :
               \/ before[call.inputs[i]] = Complete(sources[i])
               \/ KeepsLive(Complete(sources[i]))

CompactedKept ==
    pc \in {"write", "writing"} =>
        output_bytes \in Seq(Entry) /\ KeepsLive(Complete(output_bytes))

OutputKept ==
    /\ disk[call.output].state = "complete" =>
           \/ disk[call.output] = before[call.output]
           \/ /\ disk[call.output].entries \in Seq(Entry)
              /\ KeepsLive(disk[call.output])
    /\ pc \in {"written", "exit_0"} => KeepsLive(disk[call.output])

RerunInv == LoadedKept /\ CompactedKept /\ OutputKept

(* Files of sequences of entries have finitely many entries.               *)
LEMMA FiniteImage ==
    ASSUME NEW S, IsFiniteSet(S), NEW f, S \subseteq DOMAIN f
    PROVE  IsFiniteSet({f[x] : x \in S})
<1> DEFINE g == [x \in S |-> f[x]]
           T == {f[x] : x \in S}
<1>1. g \in Surjection(S, T)
  BY DEF Surjection
<1> QED BY <1>1, FS_Surjection

LEMMA InputEntriesFinite ==
    ASSUME NEW input \in Seq(Seq(Entry))
    PROVE  IsFiniteSet(InputEntries(input)) /\ InputEntries(input) \subseteq Entry
<1>1. ASSUME NEW i \in DOMAIN input
      PROVE  IsFiniteSet(ToSet(input[i])) /\ ToSet(input[i]) \subseteq Entry
  <2>1. input[i] \in Seq(Entry)
    OBVIOUS
  <2>2. IsFiniteSet(1..Len(input[i])) /\ DOMAIN input[i] = 1..Len(input[i])
    BY <2>1, FS_Interval
  <2>3. IsFiniteSet(ToSet(input[i]))
    BY <2>2, FiniteImage DEF ToSet
  <2> QED BY <2>1, <2>3 DEF ToSet
<1> DEFINE f == [i \in DOMAIN input |-> ToSet(input[i])]
<1>2. IsFiniteSet(DOMAIN input)
  BY FS_Interval
<1>3. IsFiniteSet({f[i] : i \in DOMAIN input})
  BY <1>2, FiniteImage, Zenon
<1>4. {f[i] : i \in DOMAIN input} = {ToSet(input[i]) : i \in DOMAIN input}
  OBVIOUS
<1> HIDE DEF f
<1>5. IsFiniteSet({ToSet(input[i]) : i \in DOMAIN input})
  BY <1>3, <1>4
<1>6. \A T \in {ToSet(input[i]) : i \in DOMAIN input} : IsFiniteSet(T)
  BY <1>1
<1>7. IsFiniteSet(InputEntries(input))
  BY <1>5, <1>6, FS_UNION DEF InputEntries
<1> QED BY <1>1, <1>7 DEF InputEntries

(* Every key of the input has a newest version.                            *)
LEMMA NewestExists ==
    ASSUME NEW input \in Seq(Seq(Entry)), NEW x \in InputEntries(input)
    PROVE  \E e : e \in NewestVersions(input, x.uk)
<1> DEFINE S == {e \in InputEntries(input) : e.uk = x.uk}
<1>1. S \subseteq Entry /\ x \in S
  BY InputEntriesFinite
<1>2. IsFiniteSet(S)
  <2>1. S \in SUBSET InputEntries(input)
    OBVIOUS
  <2> HIDE DEF S
  <2> QED BY <2>1, InputEntriesFinite, FS_Subset
<1>3. PICK n \in Nat : \E f : f \in Surjection(1..n, S)
  <2> HIDE DEF S
  <2>1. \E n \in Nat : Surjection(1..n, S) # {}
    BY <1>2, FS_NatSurjection DEF ExistsSurjection
  <2> QED BY <2>1
<1>4. PICK f : f \in [1..n -> S] /\ \A e \in S : \E i \in 1..n : f[i] = e
  <2> HIDE DEF S
  <2> QED BY <1>3 DEF Surjection
<1>5. \A i \in 1..n : f[i].packed \in Nat
  BY <1>1, <1>4 DEF Entry
<1> HIDE DEF S
<1> DEFINE T == {m \in Nat : m \in 1..n =>
                     \E j \in 1..m : \A i \in 1..m : f[i].packed <= f[j].packed}
<1>6. 0 \in T
  OBVIOUS
<1>7. ASSUME NEW m \in Nat, m \in T PROVE m + 1 \in T
  <2> SUFFICES ASSUME m + 1 \in 1..n
               PROVE  \E j \in 1..(m + 1) : \A i \in 1..(m + 1) : f[i].packed <= f[j].packed
    OBVIOUS
  <2>1. CASE m = 0
    BY <1>5, <2>1
  <2>2. CASE m # 0
    <3>1. m \in 1..n
      BY <2>2
    <3>2. PICK j \in 1..m : \A i \in 1..m : f[i].packed <= f[j].packed
      BY <1>7, <3>1
    <3>3. CASE f[j].packed <= f[m + 1].packed
      <4>1. \A i \in 1..(m + 1) : f[i].packed <= f[m + 1].packed
        BY <1>5, <3>1, <3>2, <3>3, SMTT(30)
      <4> QED BY <4>1
    <3>4. CASE ~(f[j].packed <= f[m + 1].packed)
      <4>1. \A i \in 1..(m + 1) : f[i].packed <= f[j].packed
        BY <1>5, <3>1, <3>2, <3>4
      <4> QED BY <4>1
    <3> QED BY <3>3, <3>4
  <2> QED BY <2>1, <2>2
<1>8. n \in T
  <2> HIDE DEF T
  <2> QED BY <1>6, <1>7, SetInduction
<1>9. n \in 1..n
  BY <1>1, <1>4
<1>10. PICK j \in 1..n : \A i \in 1..n : f[i].packed <= f[j].packed
  BY <1>8, <1>9
<1>11. f[j] \in S /\ \A e \in S : e.packed <= f[j].packed
  BY <1>4, <1>10
<1> QED BY <1>11 DEF S, NewestVersions

(* What compact returns is a sequence of entries that keeps its promise.   *)
LEMMA OutputsTyped ==
    ASSUME NEW input \in Seq(Seq(Entry)), NEW out \in BottommostOutputs(input)
    PROVE  out \in Seq(Entry) /\ IsBottommostOf(out, input)
<1> DEFINE kept == UNION {NewestVersions(input, k) : k \in LiveKeys(input)}
           keys == {e.uk : e \in InputEntries(input)}
           key == [e \in InputEntries(input) |-> e.uk]
           n == Cardinality(LiveKeys(input))
<1>1. kept \subseteq Entry
  BY InputEntriesFinite DEF NewestVersions
<1>2. out \in [1..n -> kept] /\ IsBottommostOf(out, input)
  BY DEF BottommostOutputs
<1>3. n \in Nat
  <2>1. IsFiniteSet({key[e] : e \in InputEntries(input)})
    BY InputEntriesFinite, FiniteImage, Zenon
  <2>2. {key[e] : e \in InputEntries(input)} = keys
    OBVIOUS
  <2> HIDE DEF key
  <2>3. IsFiniteSet(keys) /\ LiveKeys(input) \in SUBSET keys
    BY <2>1, <2>2 DEF LiveKeys
  <2> HIDE DEF keys
  <2> QED BY <2>3, FS_Subset, FS_CardinalityType
<1> HIDE DEF kept, n
<1> QED BY <1>1, <1>2, <1>3

(* Zeroing a sequence number twice changes no more than zeroing it once.   *)
LEMMA ZeroedTwice ==
    ASSUME NEW e \in Entry
    PROVE  /\ ZeroOutSeqno(e) \in Entry
           /\ ZeroOutSeqno(ZeroOutSeqno(e)) = ZeroOutSeqno(e)
<1>1. e.packed \in Nat /\ e.packed % 256 \in Nat /\ (e.packed % 256) % 256 = e.packed % 256
  BY DEF Entry
<1>2. ZeroOutSeqno(e) = [e EXCEPT !.packed = e.packed % 256]
  BY DEF ZeroOutSeqno, TypeByte
<1>3. ZeroOutSeqno(e) \in Entry /\ ZeroOutSeqno(e).packed = e.packed % 256
  BY <1>1, <1>2 DEF Entry
<1>4. ZeroOutSeqno(ZeroOutSeqno(e))
        = [ZeroOutSeqno(e) EXCEPT !.packed = (e.packed % 256) % 256]
  BY <1>3 DEF ZeroOutSeqno, TypeByte
<1>5. ZeroOutSeqno(ZeroOutSeqno(e)) = [ZeroOutSeqno(e) EXCEPT !.packed = e.packed % 256]
  BY <1>1, <1>4
<1> HIDE DEF ZeroOutSeqno
<1> QED BY <1>3, <1>5 DEF Entry

(* The compaction of what was loaded keeps what was live in the originals. *)
LEMMA CompactKeepsLive ==
    ASSUME TypeInv, LoadedKept, pc = "load", Len(sources) = Len(call.inputs),
           NEW out \in BottommostOutputs(sources)
    PROVE  Written(out) \in Seq(Entry) /\ KeepsLive(Complete(Written(out)))
<1> DEFINE O == InputEntries(Originals)
           S == InputEntries(sources)
<1>1. /\ sources \in Seq(Seq(Entry)) /\ DOMAIN sources = DOMAIN call.inputs
      /\ call.inputs \in Seq(Paths) /\ before \in [Paths -> File]
      /\ \A i \in DOMAIN sources :
             \/ before[call.inputs[i]] = Complete(sources[i])
             \/ KeepsLive(Complete(sources[i]))
  BY CallTypes DEF LoadedKept, TypeInv
<1>2. Loadable
  <2>1. CASE \E i \in DOMAIN sources : KeepsLive(Complete(sources[i]))
    BY <2>1 DEF KeepsLive
  <2>2. CASE \A i \in DOMAIN sources : before[call.inputs[i]] = Complete(sources[i])
    <3>1. ASSUME NEW i \in DOMAIN call.inputs
          PROVE  before[call.inputs[i]].state = "complete"
      <4>1. i \in DOMAIN sources
        BY <1>1
      <4>2. before[call.inputs[i]] = Complete(sources[i])
        BY <2>2, <4>1, Zenon
      <4> QED BY <4>2 DEF Complete
    <3> QED BY <3>1 DEF Loadable, ToSet
  <2> QED BY <1>1, <2>1, <2>2
<1>3. /\ Originals \in Seq(Seq(Entry)) /\ DOMAIN Originals = DOMAIN call.inputs
      /\ \A i \in DOMAIN sources :
             \/ sources[i] = Originals[i]
             \/ KeepsLive(Complete(sources[i]))
  <2>1. \A i \in DOMAIN call.inputs : before[call.inputs[i]].entries \in Seq(Entry)
    BY <1>1 DEF File
  <2>2. Originals \in Seq(Seq(Entry)) /\ DOMAIN Originals = DOMAIN call.inputs
    <3>1. DOMAIN call.inputs = 1..Len(call.inputs) /\ Len(call.inputs) \in Nat
      BY <1>1
    <3> QED BY <2>1, <3>1 DEF Originals
  <2>3. \A i \in DOMAIN sources : Originals[i] = before[call.inputs[i]].entries
    BY <1>1 DEF Originals
  <2> QED BY <1>1, <2>2, <2>3 DEF Complete
<1>4. O \subseteq Entry /\ S \subseteq Entry
  BY <1>1, <1>3, InputEntriesFinite
<1>5. S \subseteq O \cup AsWritten(O)
  <2> SUFFICES ASSUME NEW i \in DOMAIN sources, NEW e \in ToSet(sources[i])
               PROVE  e \in O \cup AsWritten(O)
    BY DEF InputEntries
  <2>1. CASE sources[i] = Originals[i]
    BY <1>1, <1>3, <2>1 DEF InputEntries
  <2>2. CASE KeepsLive(Complete(sources[i]))
    BY <2>2 DEF KeepsLive, Complete
  <2> QED BY <1>3, <2>1, <2>2
<1>6. /\ out \in Seq(Entry) /\ IsBottommostOf(out, sources)
      /\ \A n \in DOMAIN out : out[n] \in S
  <2>1. out \in Seq(Entry) /\ IsBottommostOf(out, sources)
    BY <1>1, OutputsTyped
  <2> QED BY <2>1 DEF IsBottommostOf, NewestVersions
<1>7. Written(out) \in Seq(Entry) /\ ToSet(Written(out)) \subseteq AsWritten(O)
  <2>1. CASE call.for_ingest
    <3>1. Written(out) = [n \in DOMAIN out |-> ZeroOutSeqno(out[n])]
      BY <2>1 DEF Written
    <3>2. \A n \in DOMAIN out : ZeroOutSeqno(out[n]) \in Entry
      BY <1>4, <1>6, ZeroedTwice
    <3>3. ASSUME NEW n \in DOMAIN out PROVE ZeroOutSeqno(out[n]) \in AsWritten(O)
      <4>1. out[n] \in O \cup AsWritten(O)
        BY <1>5, <1>6
      <4>2. AsWritten(O) = {ZeroOutSeqno(e) : e \in O}
        BY <2>1 DEF AsWritten
      <4>3. CASE out[n] \in O
        BY <4>2, <4>3
      <4>4. CASE out[n] \in AsWritten(O)
        <5>1. PICK e \in O : out[n] = ZeroOutSeqno(e)
          BY <4>2, <4>4
        <5>2. ZeroOutSeqno(out[n]) = ZeroOutSeqno(e)
          BY <1>4, <5>1, ZeroedTwice
        <5> QED BY <4>2, <5>2
      <4> QED BY <4>1, <4>3, <4>4
    <3>4. DOMAIN out = 1..Len(out) /\ Len(out) \in Nat
      BY <1>6
    <3>5. Written(out) \in Seq(Entry)
      <4> HIDE DEF O, S
      <4> QED BY <3>1, <3>2, <3>4
    <3> QED BY <3>1, <3>3, <3>5 DEF ToSet
  <2>2. CASE ~call.for_ingest
    BY <1>5, <1>6, <2>2 DEF Written, AsWritten, ToSet
  <2> QED BY <2>1, <2>2
<1>8. ASSUME ~call.for_ingest, NEW k \in LiveKeys(Originals)
      PROVE  /\ \E e \in ToSet(Written(out)) : e.uk = k
             /\ \A e \in ToSet(Written(out)) : e.uk = k => e \in NewestVersions(Originals, k)
  <2>1. Written(out) = out /\ S \subseteq O
    BY <1>5, <1>8 DEF Written, AsWritten
  <2>2. PICK top : top \in NewestVersions(Originals, k)
    <3>1. PICK x \in O : x.uk = k
      BY DEF LiveKeys
    <3> QED BY <1>3, <3>1, NewestExists
  <2>3. PICK i \in DOMAIN sources : top \in ToSet(Originals[i])
    BY <1>1, <1>3, <2>2 DEF NewestVersions, InputEntries
  <2>4. PICK m \in S : m \in NewestVersions(Originals, k)
    <3>1. CASE sources[i] = Originals[i]
      BY <2>2, <2>3, <3>1 DEF InputEntries
    <3>2. CASE KeepsLive(Complete(sources[i]))
      <4>1. PICK e \in ToSet(sources[i]) : e \in NewestVersions(Originals, k)
        BY <1>8, <3>2 DEF KeepsLive, Complete
      <4> QED BY <4>1 DEF InputEntries
    <3> QED BY <1>3, <3>1, <3>2
  <2>5. ASSUME NEW f \in NewestVersions(sources, k)
        PROVE  f \in NewestVersions(Originals, k)
    <3>1. f \in O /\ f.uk = k /\ m \in O /\ m.uk = k /\ m.packed <= f.packed
      BY <2>1, <2>4 DEF NewestVersions
    <3>2. \A g \in O : g.uk = k => g.packed <= m.packed
      BY <2>4 DEF NewestVersions
    <3>3. \A g \in O : g.packed \in Nat
      BY <1>4 DEF Entry
    <3>4. \A g \in O : g.uk = k => g.packed <= f.packed
      BY <3>1, <3>2, <3>3
    <3> QED BY <3>1, <3>4 DEF NewestVersions
  <2>6. k \in LiveKeys(sources)
    <3>1. m.uk = k
      BY <2>4 DEF NewestVersions
    <3>2. \A f \in NewestVersions(sources, k) : ~IsTombstone(f)
      BY <2>5 DEF LiveKeys
    <3> QED BY <2>4, <3>1, <3>2 DEF LiveKeys
  <2>7. \E n \in DOMAIN out : out[n].uk = k
    BY <1>6, <2>6 DEF IsBottommostOf
  <2>8. \A n \in DOMAIN out : out[n].uk = k => out[n] \in NewestVersions(Originals, k)
    BY <1>6, <2>5 DEF IsBottommostOf
  <2> QED BY <2>1, <2>7, <2>8 DEF ToSet
<1> QED BY <1>2, <1>7, <1>8 DEF KeepsLive, Complete

(* No step changes which files keep what was live.                         *)
LEMMA KeptStays ==
    ASSUME UNCHANGED <<call, before>>
    PROVE  \A f : KeepsLive(f)' <=> KeepsLive(f)
BY DEF KeepsLive, Loadable, Originals, AsWritten

LEMMA InitRerunInv == Init => RerunInv
BY DEF Init, RerunInv, LoadedKept, CompactedKept, OutputKept

(* A step that leaves the disk alone and loads and compacts nothing.       *)
LEMMA QuietRerunInv ==
    ASSUME RerunInv, IInv, UNCHANGED <<call, disk, before>>,
           \/ pc' \in {"exit_1", "panic", "dead", "args"}
           \/ pc' = "load" /\ pc = "args" /\ sources' = sources
           \/ pc' = "exit_0" /\ pc = "written"
           \/ UNCHANGED <<sources, output_bytes, pc>>
    PROVE  RerunInv'
<1> USE KeptStays DEF RerunInv
<1>1. OutputKept'
  BY DEF OutputKept, KeepsLive, Loadable, Originals, AsWritten
<1>2. CompactedKept'
  BY DEF CompactedKept, KeepsLive, Loadable, Originals, AsWritten
<1>3. LoadedKept'
  <2>1. CASE pc' = "load" /\ pc = "args" /\ sources' = sources
    BY <2>1, CallTypes DEF LoadedKept, IInv, LoadedOriginals
  <2>2. CASE UNCHANGED <<sources, output_bytes, pc>>
    BY <2>2, ZenonT(60) DEF LoadedKept, KeepsLive, Loadable, Originals, AsWritten
  <2>3. CASE pc' # "load"
    BY <2>3 DEF LoadedKept
  <2> QED BY <2>1, <2>2, <2>3
<1> QED BY <1>1, <1>2, <1>3

LEMMA NextRerunInv == IInv /\ RerunInv /\ [Next]_vars => RerunInv'
<1> SUFFICES ASSUME IInv, RerunInv, [Next]_vars PROVE RerunInv'
  OBVIOUS
<1>1. CASE ParseArgs
  BY <1>1, QuietRerunInv DEF ParseArgs, Exit
<1>2. CASE LoadFails \/ LoadPanics
  BY <1>2, QuietRerunInv DEF LoadFails, LoadPanics, Exit
<1>3. CASE Load
  <2> USE <1>3 DEF Load
  <2>1. sources \in Seq(Seq(Entry)) /\ call.inputs \in Seq(Paths)
    BY CallTypes DEF IInv, RerunInv, LoadedKept
  <2> DEFINE p == call.inputs[Len(sources) + 1]
  <2>2. p \in Paths /\ disk[p] = NextInput
    BY <2>1 DEF NextInput
  <2>3. \/ disk[p] = before[p]
        \/ disk[p].entries \in Seq(Entry) /\ KeepsLive(disk[p])
    BY <2>2 DEF IInv, OthersKept, RerunInv, OutputKept
  <2>4. /\ NextInput.entries \in Seq(Entry)
        /\ \/ before[p] = Complete(NextInput.entries)
           \/ KeepsLive(Complete(NextInput.entries))
    <3>1. CASE disk[p] = before[p]
      <4>1. before[p] \in File /\ before[p].state = "complete"
        BY <2>2, <3>1 DEF IInv, TypeInv
      <4> QED BY <2>2, <3>1, <4>1 DEF File, Complete
    <3>2. CASE disk[p].entries \in Seq(Entry) /\ KeepsLive(disk[p])
      BY <2>2, <3>2 DEF KeepsLive, Complete
    <3> QED BY <2>3, <3>1, <3>2
  <2>5. LoadedKept'
    <3>1. sources' \in Seq(Seq(Entry)) /\ Len(sources') = Len(sources) + 1
      BY <2>1, <2>4
    <3>2. ASSUME NEW i \in DOMAIN sources'
          PROVE  \/ before[call.inputs[i]] = Complete(sources'[i])
                 \/ KeepsLive(Complete(sources'[i]))
      <4>1. CASE i \in DOMAIN sources
        <5>1. sources'[i] = sources[i]
          BY <2>1, <2>4, <4>1
        <5> QED BY <4>1, <5>1 DEF RerunInv, LoadedKept
      <4>2. CASE i = Len(sources) + 1
        <5>1. sources'[i] = NextInput.entries
          BY <2>1, <2>4, <4>2
        <5> QED BY <2>4, <4>2, <5>1
      <4> QED BY <2>1, <3>1, <4>1, <4>2
    <3>3. ASSUME NEW i \in DOMAIN sources'
          PROVE  \/ (before[call.inputs[i]])' = (Complete(sources[i]))'
                 \/ (KeepsLive(Complete(sources[i])))'
      <4>1. call' = call /\ before' = before
        OBVIOUS
      <4>2. CASE before[call.inputs[i]] = Complete(sources'[i])
        BY <4>1, <4>2 DEF Complete
      <4>3. CASE KeepsLive(Complete(sources'[i]))
        <5> DEFINE f == Complete(sources'[i])
        <5>1. (Complete(sources[i]))' = f
          BY DEF Complete
        <5> QED BY <4>1, <4>3, <5>1 DEF KeepsLive, Complete, Loadable, Originals, AsWritten
      <4> QED BY <3>2, <4>2, <4>3
    <3>4. Len(sources') <= Len(call.inputs)
      BY <2>1, <3>1
    <3> QED BY <3>1, <3>3, <3>4 DEF LoadedKept
  <2>6. CompactedKept' /\ OutputKept'
    BY DEF RerunInv, CompactedKept, OutputKept, KeepsLive, Loadable, Originals, AsWritten
  <2> QED BY <2>5, <2>6 DEF RerunInv
<1>4. CASE Compact
  <2> USE <1>4 DEF Compact
  <2>1. PICK out \in BottommostOutputs(sources) : output_bytes' = Written(out)
    OBVIOUS
  <2>2. Written(out) \in Seq(Entry) /\ KeepsLive(Complete(Written(out)))
    BY CompactKeepsLive DEF IInv, RerunInv
  <2>3. output_bytes' \in Seq(Entry) /\ KeepsLive(Complete(output_bytes'))
    BY <2>1, <2>2
  <2>4. CompactedKept'
    BY <2>3 DEF CompactedKept, KeepsLive, Complete, Loadable, Originals, AsWritten
  <2>5. LoadedKept' /\ OutputKept'
    <3>1. LoadedKept'
      BY DEF LoadedKept
    <3>2. OutputKept'
      BY DEF RerunInv, OutputKept, KeepsLive, Loadable, Originals, AsWritten
    <3> QED BY <3>1, <3>2
  <2> QED BY <2>4, <2>5 DEF RerunInv
<1>5. ASSUME NEW f, Put(f),
             UNCHANGED <<call, before, output_bytes>>,
             pc \in {"write", "writing"},
             \/ pc' = "writing" /\ f.state # "complete"
             \/ pc' = "written" /\ f = Complete(output_bytes)
      PROVE  RerunInv'
  <2> USE <1>5
  <2>1. disk'[call.output] = f
    BY CallTypes DEF IInv, TypeInv, Put
  <2>2. output_bytes \in Seq(Entry) /\ KeepsLive(Complete(output_bytes))
    BY DEF RerunInv, CompactedKept
  <2>3. LoadedKept'
    BY DEF LoadedKept
  <2>4. CompactedKept'
    <3>1. (KeepsLive(Complete(output_bytes)))'
      BY <2>2, ZenonT(60) DEF KeepsLive, Complete, Loadable, Originals, AsWritten
    <3> QED BY <2>2, <3>1 DEF CompactedKept
  <2>5. OutputKept'
    <3>1. CASE pc' = "writing" /\ f.state # "complete"
      BY <2>1, <3>1 DEF OutputKept
    <3>2. CASE pc' = "written" /\ f = Complete(output_bytes)
      <4>1. f.entries \in Seq(Entry) /\ KeepsLive(f)
        BY <2>2, <3>2 DEF Complete
      <4>2. (KeepsLive(disk[call.output]))'
        BY <2>1, <4>1 DEF KeepsLive, Loadable, Originals, AsWritten
      <4> QED BY <2>1, <4>1, <4>2 DEF OutputKept
    <3> QED BY <3>1, <3>2
  <2> QED BY <2>3, <2>4, <2>5 DEF RerunInv
<1>6. CASE OpenOutput
  BY <1>5, <1>6 DEF OpenOutput, Partial, Put
<1>7. CASE OpenOutputFails \/ WriteFails
  BY <1>7, QuietRerunInv DEF OpenOutputFails, WriteFails, Exit
<1>8. CASE WriteMore
  BY <1>5, <1>8 DEF WriteMore, Partial, Put
<1>9. CASE WriteAll
  BY <1>5, <1>9 DEF WriteAll, Complete, Put
<1>10. CASE Finish
  BY <1>10, QuietRerunInv DEF Finish, Exit
<1>11. CASE Die
  BY <1>11, QuietRerunInv DEF Die, Exit
<1>12. CASE RunAgain
  BY <1>12, QuietRerunInv DEF RunAgain
<1>13. CASE UNCHANGED vars
  BY <1>13, QuietRerunInv DEF vars
<1> QED
  BY <1>1, <1>2, <1>3, <1>4, <1>6, <1>7, <1>8, <1>9, <1>10, <1>11, <1>12, <1>13
     DEF Next, Run, Terminated

(* Whatever runs died or failed before it, and even if it overwrites one   *)
(* of its inputs, a run that completes its output has lost no key that was *)
(* live before the first run and has given none an older version (without  *)
(* --for-ingest), and every entry of the output is one of the original     *)
(* entries: for every disk, every command line and any number of runs.     *)
THEOREM RerunsKeepLiveKeys == Spec => []RerunKeepsLiveKeys
<1>1. RerunInv => RerunKeepsLiveKeys
  BY DEF RerunInv, OutputKept, RerunKeepsLiveKeys
<1>2. IInv /\ RerunInv /\ [Next]_vars => RerunInv'
  BY NextRerunInv
<1>3. Init => RerunInv
  BY InitRerunInv
<1> QED BY <1>1, <1>2, <1>3, Invariance, PTL DEF Spec
-----------------------------------------------------------------------------
(* The footer of a file, and how far its scan has come: j of its k data    *)
(* blocks are read, and the handles of the others are still to be read.    *)
FooterOf(v) ==
    [context |-> v.context, index |-> IF v.format >= 6 THEN None ELSE Some(v.index),
     metaindex |-> HandleOf(Metaindex(v))]

ScanOf(v) ==
    \E k \in 0..Len(v.blocks) : \E j \in 0..k :
        /\ \E i \in DOMAIN v.blocks : IndexLists(v, i, k)
        /\ visited = EntriesUpTo(v)[j]
        /\ reader_pc = "scan" => handles = [n \in 1..(k - j) |-> HandleOf(v.blocks[j + n])]
        /\ reader_pc = "exit_0" => j = k

DumpInv ==
    /\ file.version \in Versions
    /\ reader_pc \in {"open", "footer"} => footer = None
    /\ reader_pc \in {"open", "footer", "metaindex", "index"} => visited = <<>>
    /\ \A ft, other \in footer : ft = other
    /\ \A ft \in footer : \A v \in Versions :
           v.context = ft.context /\ ContextIsItsOwn(v) =>
               /\ ft = FooterOf(v)
               /\ reader_pc = "index" => index_handle = Some(v.index)
               /\ ScanOf(v)

(* The recursion of EntriesUpTo: such a function exists, block by block.   *)
LEMMA EntriesUpToBlock ==
    ASSUME NEW v, Len(v.blocks) \in Nat
    PROVE  /\ EntriesUpTo(v)[0] = <<>>
           /\ \A n \in 1..Len(v.blocks) :
                  EntriesUpTo(v)[n] =
                      IF IsData(v.blocks[n])
                      THEN EntriesUpTo(v)[n - 1] \o v.blocks[n].contents
                      ELSE EntriesUpTo(v)[n - 1]
<1> DEFINE next(e, n) == IF IsData(v.blocks[n]) THEN e \o v.blocks[n].contents ELSE e
           body(f, m) == [n \in 0..m |-> IF n = 0 THEN <<>> ELSE next(f[n - 1], n)]
           T == {m \in Nat : \E f : f = body(f, m)}
<1>0. EntriesUpTo(v) = CHOOSE f : f = body(f, Len(v.blocks))
  BY Zenon DEF EntriesUpTo
<1> HIDE DEF next
<1>1. 0 \in T
  <2> DEFINE f == [n \in 0..0 |-> <<>>]
  <2>1. f = body(f, 0)
    OBVIOUS
  <2> QED BY <2>1
<1>2. ASSUME NEW m \in Nat, m \in T PROVE m + 1 \in T
  <2>1. PICK f : f = body(f, m)
    BY <1>2
  <2> DEFINE g == [n \in 0..(m + 1) |-> IF n <= m THEN f[n] ELSE next(f[m], m + 1)]
  <2>2. ASSUME NEW n \in 0..(m + 1) PROVE g[n] = body(g, m + 1)[n]
    <3>1. CASE n = 0
      BY <2>1, <3>1
    <3>2. CASE n # 0 /\ n <= m
      <4>1. n - 1 \in 0..m /\ n \in 0..m
        BY <3>2
      <4>2. f[n] = next(f[n - 1], n)
        BY <2>1, <3>2, <4>1
      <4> QED BY <3>2, <4>1, <4>2
    <3>3. CASE n = m + 1
      <4>1. n # 0 /\ ~(n <= m) /\ n - 1 = m /\ m <= m
        BY <3>3
      <4> QED BY <3>3, <4>1
    <3> QED BY <3>1, <3>2, <3>3
  <2>3. g = body(g, m + 1)
    BY <2>2
  <2>4. \E h : h = body(h, m + 1)
    <3> HIDE DEF g, body
    <3> QED BY <2>3, Zenon
  <2> QED BY <2>4
<1> HIDE DEF T
<1>3. Len(v.blocks) \in T
  BY <1>1, <1>2, SetInduction
<1>4. EntriesUpTo(v) = body(EntriesUpTo(v), Len(v.blocks))
  <2>1. \E f : f = body(f, Len(v.blocks))
    BY <1>3 DEF T
  <2> HIDE DEF body
  <2> QED BY <1>0, <2>1, Zenon
<1>5. 0 \in 0..Len(v.blocks) /\ \A n \in 1..Len(v.blocks) : n \in 0..Len(v.blocks) /\ n # 0
  OBVIOUS
<1> HIDE DEF body
<1>6. \A n \in 0..Len(v.blocks) :
          EntriesUpTo(v)[n] = IF n = 0 THEN <<>> ELSE next(EntriesUpTo(v)[n - 1], n)
  BY <1>4 DEF body
<1> QED BY <1>5, <1>6 DEF next

(* What IsSst says of the sequence of blocks.                              *)
LEMMA BlockFacts ==
    ASSUME NEW v, IsSst(v)
    PROVE  /\ Len(v.blocks) \in Nat \ {0} /\ DOMAIN v.blocks = 1..Len(v.blocks)
           /\ \A n \in 1..Len(v.blocks) :
                  /\ v.blocks[n].offset \in Nat /\ v.blocks[n].size \in Nat
                  /\ v.blocks[n] \in BlocksOf(v)
           /\ TrailerSize \in Nat \ {0}
<1>1. v.blocks \in Seq(BlocksOf(v)) /\ v.blocks # <<>>
  BY DEF IsSst
<1>2. Len(v.blocks) \in Nat \ {0} /\ DOMAIN v.blocks = 1..Len(v.blocks)
  BY <1>1
<1> QED BY <1>2, ReaderAssumption DEF IsSst, BlocksOf

(* Blocks stand one behind the other, none at the offset of another.       *)
LEMMA OffsetsIncrease ==
    ASSUME NEW v, IsSst(v), NEW n \in 1..Len(v.blocks), NEW m \in 1..Len(v.blocks), n < m
    PROVE  v.blocks[n].offset < v.blocks[m].offset
<1> DEFINE T == {d \in Nat : n + d + 1 <= Len(v.blocks) =>
                     v.blocks[n].offset < v.blocks[n + d + 1].offset}
<1>1. ASSUME NEW x \in 1..(Len(v.blocks) - 1)
      PROVE  v.blocks[x].offset < v.blocks[x + 1].offset
  <2>1. x \in 1..Len(v.blocks) /\ x + 1 \in 1..Len(v.blocks) /\ x + 1 # 1 /\ (x + 1) - 1 = x
    BY BlockFacts
  <2>2. v.blocks[x + 1].offset = EndOf(v.blocks[x])
    BY <2>1, BlockFacts DEF IsSst
  <2> QED BY <2>1, <2>2, BlockFacts, SMTT(30) DEF EndOf
<1>2. 0 \in T
  BY <1>1, BlockFacts
<1>3. ASSUME NEW d \in Nat, d \in T PROVE d + 1 \in T
  <2> SUFFICES ASSUME n + (d + 1) + 1 <= Len(v.blocks)
               PROVE  v.blocks[n].offset < v.blocks[n + (d + 1) + 1].offset
    OBVIOUS
  <2> DEFINE x == n + d + 1
  <2>1. x \in 1..(Len(v.blocks) - 1) /\ x + 1 = n + (d + 1) + 1 /\ x + 1 \in 1..Len(v.blocks)
        /\ x \in 1..Len(v.blocks)
    BY BlockFacts
  <2>2. v.blocks[n].offset < v.blocks[x].offset
    BY <1>3, <2>1, BlockFacts
  <2> HIDE DEF x
  <2>3. v.blocks[x].offset < v.blocks[x + 1].offset
    BY <1>1, <2>1
  <2>4. v.blocks[n].offset < v.blocks[x + 1].offset
    <3>1. v.blocks[n].offset \in Nat /\ v.blocks[x].offset \in Nat
          /\ v.blocks[x + 1].offset \in Nat
      BY <2>1, BlockFacts
    <3> QED BY <2>2, <2>3, <3>1, SMTT(30)
  <2> QED BY <2>1, <2>4
<1> HIDE DEF T
<1>4. m - n - 1 \in T
  <2>1. m - n - 1 \in Nat
    BY BlockFacts
  <2>2. \A d \in Nat : d \in T
    BY <1>2, <1>3, SetInduction
  <2> QED BY <2>1, <2>2
<1>5. n + (m - n - 1) + 1 = m
  BY BlockFacts
<1> QED BY <1>4, <1>5, BlockFacts DEF T

LEMMA BlockAtOffset ==
    ASSUME NEW v, IsSst(v), NEW n \in 1..Len(v.blocks), NEW m \in 1..Len(v.blocks),
           v.blocks[n].offset = v.blocks[m].offset
    PROVE  n = m
<1>1. ~(n < m) /\ ~(m < n)
  BY OffsetsIncrease, BlockFacts
<1> QED BY <1>1, BlockFacts

(* What the first blocks hold are entries, and reading on only adds some.  *)
LEMMA EntriesGrow ==
    ASSUME NEW v, IsSst(v), NEW j \in 0..Len(v.blocks), NEW n \in j..Len(v.blocks)
    PROVE  /\ EntriesUpTo(v)[n] \in Seq(Entries)
           /\ IsPrefix(EntriesUpTo(v)[j], EntriesUpTo(v)[n])
<1> DEFINE N == Len(v.blocks)
           E == EntriesUpTo(v)
<1> HIDE DEF N, E
<1>0. N \in Nat /\ j \in 0..N /\ n \in j..N
  BY BlockFacts DEF N
<1>1. /\ E[0] = <<>>
      /\ \A m \in 1..N : E[m] = IF IsData(v.blocks[m]) THEN E[m - 1] \o v.blocks[m].contents
                                ELSE E[m - 1]
      /\ \A m \in 1..N : IsData(v.blocks[m]) => v.blocks[m].contents \in Seq(Entries)
  BY BlockFacts, EntriesUpToBlock DEF N, E, IsSst
<1>2. \A m \in 0..N : E[m] \in Seq(Entries)
  <2> DEFINE T == {m \in Nat : m <= N => E[m] \in Seq(Entries)}
  <2>1. 0 \in T
    <3>1. E[0] \in Seq(Entries)
      <4>1. E[0] = <<>>
        BY <1>1
      <4> QED BY <4>1
    <3> QED BY <3>1
  <2>2. ASSUME NEW m \in Nat, m \in T PROVE m + 1 \in T
    <3> SUFFICES ASSUME m + 1 <= N PROVE E[m + 1] \in Seq(Entries)
      OBVIOUS
    <3>1. m + 1 \in 1..N /\ (m + 1) - 1 = m /\ E[m] \in Seq(Entries)
      BY <1>0, <2>2
    <3>2. CASE IsData(v.blocks[m + 1])
      <4>1. /\ E[m + 1] = E[m] \o v.blocks[m + 1].contents
            /\ v.blocks[m + 1].contents \in Seq(Entries)
        BY <1>1, <3>1, <3>2
      <4> QED BY <3>1, <4>1
    <3>3. CASE ~IsData(v.blocks[m + 1])
      BY <1>1, <3>1, <3>3
    <3> QED BY <3>2, <3>3
  <2> HIDE DEF T
  <2>3. \A m \in Nat : m \in T
    BY <2>1, <2>2, SetInduction
  <2> QED BY <1>0, <2>3 DEF T
<1>3. IsPrefix(E[j], E[n])
  <2> DEFINE T == {d \in Nat : j + d <= N => IsPrefix(E[j], E[j + d])}
  <2>1. 0 \in T
    BY <1>0, <1>2 DEF IsPrefix
  <2>2. ASSUME NEW d \in Nat, d \in T PROVE d + 1 \in T
    <3> SUFFICES ASSUME j + (d + 1) <= N PROVE IsPrefix(E[j], E[j + (d + 1)])
      OBVIOUS
    <3>1. j + d + 1 \in 1..N /\ (j + d + 1) - 1 = j + d /\ j + d \in 0..N
          /\ j + (d + 1) = j + d + 1 /\ IsPrefix(E[j], E[j + d])
      BY <1>0, <2>2
    <3>2. PICK c \in Seq(Entries) : E[j + d + 1] = E[j + d] \o c
      <4>1. <<>> \in Seq(Entries) /\ E[j + d] = E[j + d] \o <<>>
        BY <1>2, <3>1
      <4> QED BY <1>1, <3>1, <4>1
    <3> DEFINE s == E[j]
               t == E[j + d]
    <3>3. s \in Seq(Entries) /\ t \in Seq(Entries) /\ IsPrefix(s, t)
      BY <1>0, <1>2, <3>1
    <3> HIDE DEF s, t
    <3>4. Len(s) \in Nat /\ Len(t) \in Nat /\ Len(c) \in Nat /\ Len(s) <= Len(t)
          /\ Len(t \o c) = Len(t) + Len(c)
      BY <3>3 DEF IsPrefix
    <3>5. ASSUME NEW x \in 1..Len(s) PROVE s[x] = (t \o c)[x]
      <4>1. s[x] = SubSeq(s, 1, Len(s))[x] /\ SubSeq(t, 1, Len(s))[x] = t[x]
        BY <3>3, <3>4
      <4>2. s[x] = t[x]
        BY <3>3, <4>1 DEF IsPrefix
      <4>3. x \in 1..Len(t)
        BY <3>4
      <4> QED BY <3>3, <3>4, <4>2, <4>3
    <3>6. SubSeq(s, 1, Len(s)) = SubSeq(t \o c, 1, Len(s))
      <4>1. t \o c \in Seq(Entries)
        BY <3>3
      <4> QED BY <3>3, <3>4, <3>5, <4>1
    <3>7. IsPrefix(s, t \o c)
      BY <3>4, <3>6 DEF IsPrefix
    <3> QED BY <3>1, <3>2, <3>7 DEF s, t
  <2> HIDE DEF T
  <2>3. n - j \in T
    BY <1>0, <2>1, <2>2, SetInduction
  <2>4. j + (n - j) = n /\ n <= N
    BY <1>0
  <2> QED BY <2>3, <2>4 DEF T
<1> QED BY <1>0, <1>2, <1>3 DEF N, E

(* Behind the data blocks there is nothing more to read.                   *)
LEMMA EntriesAreInDataBlocks ==
    ASSUME NEW v, IsSst(v), NEW k \in 0..Len(v.blocks), NEW i \in DOMAIN v.blocks,
           IndexLists(v, i, k)
    PROVE  EntriesUpTo(v)[k] = EntriesOf(v)
<1> DEFINE N == Len(v.blocks)
           E == EntriesUpTo(v)
           T == {d \in Nat : k + d <= N => E[k + d] = E[k]}
<1> HIDE DEF N, E
<1>0. N \in Nat /\ k \in 0..N /\ DOMAIN v.blocks = 1..N
  BY BlockFacts DEF N
<1>1. \A m \in 1..N : m > k => E[m] = E[m - 1]
  <2>1. \A m \in 1..N : m > k => ~IsData(v.blocks[m])
    BY <1>0 DEF IndexLists
  <2> QED BY <2>1, BlockFacts, EntriesUpToBlock DEF N, E
<1>2. 0 \in T
  BY <1>0
<1>3. ASSUME NEW d \in Nat, d \in T PROVE d + 1 \in T
  <2> SUFFICES ASSUME k + (d + 1) <= N PROVE E[k + (d + 1)] = E[k]
    OBVIOUS
  <2>1. k + (d + 1) \in 1..N /\ k + (d + 1) > k /\ (k + (d + 1)) - 1 = k + d /\ E[k + d] = E[k]
    BY <1>0, <1>3
  <2> QED BY <1>1, <2>1
<1> HIDE DEF T
<1>4. N - k \in T
  BY <1>0, <1>2, <1>3, SetInduction
<1>5. k + (N - k) = N
  BY <1>0
<1> QED BY <1>0, <1>4, <1>5 DEF T, N, E, EntriesOf
-----------------------------------------------------------------------------
(* A block that passes the check against the context of a file that has    *)
(* its context to itself is a block of that file, whatever is on disk.     *)
LEMMA ReadIsOfThatFile ==
    ASSUME file.version \in Versions, NEW v \in Versions, ContextIsItsOwn(v),
           NEW ft \in footer, ft.context = v.context,
           NEW m \in DOMAIN v.blocks, NEW c \in ReadBlockContents(HandleOf(v.blocks[m]))
    PROVE  c = v.blocks[m].contents
<1> DEFINE w == file.version
           h == HandleOf(v.blocks[m])
<1>1. PICK x \in BlocksOf(w) :
          /\ c = x.contents
          /\ HandleOf(x) = h
          /\ StoredChecksum(w, x) = <<x.contents, ChecksumModifier(ft.context, h.offset)>>
  BY DEF ReadBlockContents
<1>2. ChecksumModifier(w.context, x.offset) = ChecksumModifier(ft.context, h.offset)
  BY <1>1 DEF StoredChecksum
<1>3. w.context = ft.context
  <2> DEFINE fold(o) == ((o % 2^Width32) + (o \div 2^Width32)) % 2^Width32
  <2> HIDE DEF fold
  <2>1. \A o, p : /\ ChecksumModifier(o, p) = IF o = 0 THEN <<>> ELSE <<o, fold(p)>>
                  /\ <<o, fold(p)>> # <<>>
    BY DEF ChecksumModifier, fold
  <2> QED BY <1>2, <2>1
<1>4. w = v
  BY <1>3 DEF ContextIsItsOwn
<1>5. IsSst(v)
  BY ReaderAssumption
<1>6. PICK n \in DOMAIN v.blocks : x = v.blocks[n]
  BY <1>1, <1>4 DEF BlocksOf
<1>7. v.blocks[n].offset = v.blocks[m].offset
  BY <1>1, <1>6 DEF HandleOf
<1>8. n = m
  BY <1>5, <1>7, BlockAtOffset, BlockFacts
<1> QED BY <1>1, <1>6, <1>8

LEMMA DumpInitInv == DumpInit => DumpInv
BY DEF DumpInit, DumpInv, None

(* The writer's steps, and the reader's last ones, leave the scan alone.   *)
LEMMA QuietStepInv ==
    ASSUME DumpInv, file'.version \in Versions,
           UNCHANGED <<footer, index_handle, handles, visited>>,
           reader_pc' \in {reader_pc, "exit_1"} \/ (reader_pc = "open" /\ reader_pc' = "footer")
    PROVE  DumpInv'
<1>1. ASSUME NEW v \in Versions, ScanOf(v) PROVE ScanOf(v)'
  <2>1. reader_pc' \in {"scan", "exit_0"} => reader_pc' = reader_pc
    OBVIOUS
  <2> QED BY <1>1, <2>1 DEF ScanOf
<1>2. ASSUME NEW ft \in footer, NEW v \in Versions, v.context = ft.context, ContextIsItsOwn(v)
      PROVE  /\ ft = FooterOf(v)
             /\ reader_pc' = "index" => index_handle = Some(v.index)
             /\ ScanOf(v)'
  <2>1. ft = FooterOf(v) /\ (reader_pc = "index" => index_handle = Some(v.index)) /\ ScanOf(v)
    BY <1>2 DEF DumpInv
  <2> QED BY <1>1, <2>1
<1>3. /\ reader_pc' \in {"open", "footer"} => footer' = None
      /\ reader_pc' \in {"open", "footer", "metaindex", "index"} => visited' = <<>>
      /\ \A ft, other \in footer' : ft = other
  BY DEF DumpInv
<1> QED BY <1>2, <1>3 DEF DumpInv

(* The footer read is the footer of the file on disk at that moment.       *)
LEMMA ReadFooterInv ==
    ASSUME DumpInv, ReadFooter
    PROVE  DumpInv'
<1> DEFINE w == file.version
<1>1. w \in Versions /\ IsSst(w)
  BY ReaderAssumption DEF DumpInv
<1>2. footer' = Some(FooterOf(w))
  <2>1. footer' = DecodeFooter /\ DecodeFooter # None
    BY DEF ReadFooter
  <2>2. file_size - FooterLen = FooterOffset(w)
    BY <2>1 DEF DecodeFooter
  <2>3. FooterOffset(w) - TrailerSize - Metaindex(w).size = Metaindex(w).offset
    <3>1. Len(w.blocks) \in 1..Len(w.blocks)
      BY <1>1, BlockFacts
    <3>2. Metaindex(w).offset \in Nat /\ Metaindex(w).size \in Nat /\ TrailerSize \in Nat
      BY <1>1, <3>1, BlockFacts DEF Metaindex
    <3> QED BY <3>2 DEF FooterOffset, EndOf
  <2>4. w.format \in 2..7 /\ (w.format < 6 => w.context = 0)
    BY <1>1 DEF IsSst
  <2>5. DecodeFooter = Some(IF w.format >= 6
                  THEN [context |-> w.context, index |-> None,
                        metaindex |-> [offset |-> Metaindex(w).offset,
                                       size |-> Metaindex(w).size]]
                  ELSE [context |-> 0, index |-> Some(w.index),
                        metaindex |-> [offset |-> Metaindex(w).offset,
                                       size |-> Metaindex(w).size]])
    BY <2>1, <2>2, <2>3 DEF DecodeFooter
  <2> QED BY <2>1, <2>4, <2>5 DEF FooterOf, HandleOf
<1>3. reader_pc' = "metaindex" /\ visited' = <<>> /\ file' = file
  BY DEF ReadFooter, DumpInv
<1>4. ASSUME NEW ft \in footer', NEW v \in Versions, v.context = ft.context, ContextIsItsOwn(v)
      PROVE  ft = FooterOf(v) /\ ScanOf(v)'
  <2>1. ft = FooterOf(w) /\ w.context = v.context
    BY <1>2, <1>4 DEF Some, FooterOf
  <2>2. w = v
    BY <1>1, <1>4, <2>1 DEF ContextIsItsOwn
  <2>3. ScanOf(v)'
    <3>1. PICK i \in DOMAIN v.blocks, k \in 0..Len(v.blocks) : IndexLists(v, i, k)
      BY ReaderAssumption DEF IsSst
    <3>2. EntriesUpTo(v)[0] = <<>> /\ 0 \in 0..k
      BY ReaderAssumption, BlockFacts, EntriesUpToBlock
    <3> QED BY <1>3, <3>1, <3>2 DEF ScanOf
  <2> QED BY <2>1, <2>2, <2>3
<1>5. \A ft, other \in footer' : ft = other
  BY <1>2 DEF Some
<1> QED BY <1>1, <1>3, <1>4, <1>5 DEF DumpInv

(* The index handle is the file's own, from its footer or its metaindex.   *)
LEMMA ReadMetaindexInv ==
    ASSUME DumpInv, ReadMetaindex
    PROVE  DumpInv'
<1>1. PICK ft \in footer : \E found \in ReadBlockContents(ft.metaindex) :
          index_handle' = IF ft.index # None THEN ft.index ELSE found
  BY DEF ReadMetaindex
<1>2. PICK found \in ReadBlockContents(ft.metaindex) :
          index_handle' = IF ft.index # None THEN ft.index ELSE found
  BY <1>1
<1>3. reader_pc = "metaindex" /\ reader_pc' = "index"
      /\ UNCHANGED <<file, footer, handles, visited>>
  BY DEF ReadMetaindex
<1>4. ASSUME NEW other \in footer, NEW v \in Versions, v.context = other.context,
             ContextIsItsOwn(v)
      PROVE  other = FooterOf(v) /\ index_handle' = Some(v.index) /\ ScanOf(v)'
  <2>1. other = ft /\ ft = FooterOf(v) /\ ScanOf(v)
    BY <1>4 DEF DumpInv
  <2>2. ScanOf(v)'
    BY <1>3, <2>1 DEF ScanOf
  <2>3. IsSst(v) /\ Len(v.blocks) \in DOMAIN v.blocks
    BY ReaderAssumption, BlockFacts
  <2>4. ft.metaindex = HandleOf(v.blocks[Len(v.blocks)])
        /\ ft.index = (IF v.format >= 6 THEN None ELSE Some(v.index))
    BY <2>1 DEF FooterOf, Metaindex
  <2>5. found = Metaindex(v).contents
    BY <1>2, <1>4, <2>1, <2>3, <2>4, ReadIsOfThatFile DEF DumpInv, Metaindex
  <2>6. v.format \in 2..7 /\ (v.format >= 6 => Metaindex(v).contents = Some(v.index))
    BY <2>3 DEF IsSst
  <2>7. index_handle' = Some(v.index)
    BY <1>2, <2>4, <2>5, <2>6 DEF None, Some
  <2> QED BY <2>1, <2>2, <2>7
<1>5. visited = <<>> /\ (\A a, b \in footer : a = b) /\ file.version \in Versions
  BY <1>3 DEF DumpInv
<1> QED BY <1>3, <1>4, <1>5 DEF DumpInv

(* The handles collected from the index are those of the data blocks.      *)
LEMMA ReadIndexInv ==
    ASSUME DumpInv, ReadIndex
    PROVE  DumpInv'
<1>1. PICK h \in index_handle : \E found \in ReadBlockContents(h) : handles' = found
  BY DEF ReadIndex
<1>2. /\ reader_pc = "index" /\ reader_pc' = "scan"
      /\ UNCHANGED <<file, footer, index_handle, visited>>
      /\ visited = <<>> /\ (\A a, b \in footer : a = b) /\ file.version \in Versions
  BY DEF ReadIndex, DumpInv
<1>3. ASSUME NEW ft \in footer, NEW v \in Versions, v.context = ft.context, ContextIsItsOwn(v)
      PROVE  ft = FooterOf(v) /\ ScanOf(v)'
  <2>1. ft = FooterOf(v) /\ index_handle = Some(v.index)
    BY <1>2, <1>3 DEF DumpInv
  <2>2. IsSst(v)
    BY ReaderAssumption
  <2>3. PICK i \in DOMAIN v.blocks, k \in 0..Len(v.blocks) : IndexLists(v, i, k)
    BY <2>2 DEF IsSst
  <2>4. h = HandleOf(v.blocks[i])
    BY <2>1, <2>3 DEF Some, IndexLists
  <2>5. handles' = v.blocks[i].contents
    BY <1>1, <1>2, <1>3, <2>4, ReadIsOfThatFile
  <2>6. k \in Nat /\ 0 \in 0..k /\ k - 0 = k /\ \A n \in 1..k : 0 + n = n
    BY <2>2, BlockFacts
  <2>7. handles' = [n \in 1..(k - 0) |-> HandleOf(v.blocks[0 + n])]
    BY <2>3, <2>5, <2>6 DEF IndexLists
  <2>8. visited' = EntriesUpTo(v)[0]
    BY <1>2, <2>2, BlockFacts, EntriesUpToBlock
  <2> QED BY <1>2, <2>1, <2>3, <2>6, <2>7, <2>8 DEF ScanOf
<1> QED BY <1>2, <1>3 DEF DumpInv

(* The next handle brings the next data block of the file.                 *)
LEMMA ReadDataBlockInv ==
    ASSUME DumpInv, ReadDataBlock
    PROVE  DumpInv'
<1>1. PICK found \in ReadBlockContents(Head(handles)) : visited' = visited \o found
  BY DEF ReadDataBlock
<1>2. /\ reader_pc = "scan" /\ reader_pc' = "scan" /\ handles # <<>>
      /\ handles' = Tail(handles) /\ UNCHANGED <<file, footer, index_handle>>
      /\ (\A a, b \in footer : a = b) /\ file.version \in Versions
  BY DEF ReadDataBlock, DumpInv
<1>3. ASSUME NEW ft \in footer, NEW v \in Versions, v.context = ft.context, ContextIsItsOwn(v)
      PROVE  ft = FooterOf(v) /\ ScanOf(v)'
  <2>1. ft = FooterOf(v) /\ ScanOf(v) /\ IsSst(v)
    BY <1>3, ReaderAssumption DEF DumpInv
  <2>k. PICK k \in 0..Len(v.blocks) : \E j \in 0..k :
          /\ \E i \in DOMAIN v.blocks : IndexLists(v, i, k)
          /\ visited = EntriesUpTo(v)[j]
          /\ handles = [n \in 1..(k - j) |-> HandleOf(v.blocks[j + n])]
    BY <1>2, <2>1 DEF ScanOf
  <2>2. PICK j \in 0..k :
          /\ \E i \in DOMAIN v.blocks : IndexLists(v, i, k)
          /\ visited = EntriesUpTo(v)[j]
          /\ handles = [n \in 1..(k - j) |-> HandleOf(v.blocks[j + n])]
    BY <2>k
  <2>3. Len(v.blocks) \in Nat /\ DOMAIN v.blocks = 1..Len(v.blocks)
    BY <2>1, BlockFacts
  <2> DEFINE S == {HandleOf(v.blocks[n]) : n \in 1..Len(v.blocks)}
  <2>4. handles \in Seq(S) /\ Len(handles) = k - j
    <3>1. k - j \in Nat /\ \A n \in 1..(k - j) : HandleOf(v.blocks[j + n]) \in S
      BY <2>3, SMTT(30)
    <3> HIDE DEF S
    <3> QED BY <2>2, <3>1, SMTT(30)
  <2>5. j < k
    BY <1>2, <2>2, <2>3, <2>4
  <2>6. j + 1 \in 1..Len(v.blocks) /\ j + 1 \in 0..k /\ 1 \in 1..(k - j) /\ (j + 1) - 1 = j
    BY <2>3, <2>5
  <2>7. Head(handles) = HandleOf(v.blocks[j + 1])
    BY <2>2, <2>4, <2>6
  <2>8. found = v.blocks[j + 1].contents
    BY <1>1, <1>2, <1>3, <2>3, <2>6, <2>7, ReadIsOfThatFile
  <2>9. visited' = EntriesUpTo(v)[j + 1]
    <3>1. IsData(v.blocks[j + 1])
      BY <2>2, <2>3, <2>6, SMTT(30) DEF IndexLists
    <3>2. EntriesUpTo(v)[j + 1] = EntriesUpTo(v)[j] \o v.blocks[j + 1].contents
      BY <2>3, <2>6, <3>1, EntriesUpToBlock
    <3> QED BY <1>1, <2>2, <2>8, <3>2
  <2>10. handles' = [n \in 1..(k - (j + 1)) |-> HandleOf(v.blocks[(j + 1) + n])]
    <3>1. Tail(handles) = [n \in 1..(Len(handles) - 1) |-> handles[n + 1]]
      <4> HIDE DEF S
      <4>1. Len(handles) # 0 /\ handles \in Seq(S)
        BY <2>3, <2>4, <2>5
      <4>2. /\ Tail(handles) \in Seq(S) /\ Len(Tail(handles)) = Len(handles) - 1
            /\ \A n \in 1..(Len(handles) - 1) : Tail(handles)[n] = handles[n + 1]
        BY <4>1
      <4>3. Tail(handles) = [n \in 1..Len(Tail(handles)) |-> Tail(handles)[n]]
        <5> DEFINE rest == Tail(handles)
        <5>1. rest \in Seq(S)
          BY <4>2
        <5> HIDE DEF rest
        <5>2. rest = [n \in 1..Len(rest) |-> rest[n]]
          BY <5>1
        <5> QED BY <5>2 DEF rest
      <4> QED BY <4>2, <4>3
    <3>2. Len(handles) - 1 = k - (j + 1)
      BY <2>3, <2>4
    <3>3. ASSUME NEW n \in 1..(k - (j + 1))
          PROVE  handles[n + 1] = HandleOf(v.blocks[(j + 1) + n])
      <4>1. n + 1 \in 1..(k - j) /\ j + (n + 1) = (j + 1) + n
        BY <2>3
      <4> QED BY <2>2, <4>1
    <3> QED BY <1>2, <3>1, <3>2, <3>3
  <2> QED BY <1>2, <2>1, <2>2, <2>6, <2>9, <2>10 DEF ScanOf
<1> QED BY <1>2, <1>3 DEF DumpInv

(* The loop ends with the last data block read.                            *)
LEMMA ScanDoneInv ==
    ASSUME DumpInv, ScanDone
    PROVE  DumpInv'
<1>1. /\ reader_pc = "scan" /\ reader_pc' = "exit_0" /\ handles = <<>>
      /\ UNCHANGED <<file, footer, index_handle, handles, visited>>
      /\ (\A a, b \in footer : a = b) /\ file.version \in Versions
  BY DEF ScanDone, DumpInv
<1>2. ASSUME NEW ft \in footer, NEW v \in Versions, v.context = ft.context, ContextIsItsOwn(v)
      PROVE  ft = FooterOf(v) /\ ScanOf(v)'
  <2>1. ft = FooterOf(v) /\ ScanOf(v) /\ IsSst(v)
    BY <1>2, ReaderAssumption DEF DumpInv
  <2>k. PICK k \in 0..Len(v.blocks) : \E j \in 0..k :
          /\ \E i \in DOMAIN v.blocks : IndexLists(v, i, k)
          /\ visited = EntriesUpTo(v)[j]
          /\ handles = [n \in 1..(k - j) |-> HandleOf(v.blocks[j + n])]
    BY <1>1, <2>1 DEF ScanOf
  <2>2. PICK j \in 0..k :
          /\ \E i \in DOMAIN v.blocks : IndexLists(v, i, k)
          /\ visited = EntriesUpTo(v)[j]
          /\ handles = [n \in 1..(k - j) |-> HandleOf(v.blocks[j + n])]
    BY <2>k
  <2>3. Len(v.blocks) \in Nat
    BY <2>1, BlockFacts
  <2>4. j = k
    <3>1. 1 \notin DOMAIN handles
      BY <1>1
    <3> QED BY <2>2, <2>3, <3>1
  <2> QED BY <1>1, <2>1, <2>2, <2>4 DEF ScanOf
<1> QED BY <1>1, <1>2 DEF DumpInv

LEMMA DumpNextInv == DumpInv /\ [DumpNext]_dumpVars => DumpInv'
<1> SUFFICES ASSUME DumpInv, [DumpNext]_dumpVars PROVE DumpInv'
  OBVIOUS
<1>0. file.version \in Versions
  BY DEF DumpInv
<1>1. CASE Truncate
  <2>1. file'.version \in Versions
    BY <1>1 DEF Truncate
  <2> QED BY <1>1, <2>1, QuietStepInv DEF Truncate, readerVars
<1>2. CASE WriteBytes
  <2>1. file'.version \in Versions
    BY <1>0, <1>2 DEF WriteBytes
  <2> QED BY <1>2, <2>1, QuietStepInv DEF WriteBytes, readerVars
<1>3. CASE OpenFile
  BY <1>0, <1>3, QuietStepInv DEF OpenFile
<1>4. CASE ReadFooter
  BY <1>4, ReadFooterInv
<1>5. CASE ReadMetaindex
  BY <1>5, ReadMetaindexInv
<1>6. CASE ReadIndex
  BY <1>6, ReadIndexInv
<1>7. CASE ReadDataBlock
  BY <1>7, ReadDataBlockInv
<1>8. CASE ScanDone
  BY <1>8, ScanDoneInv
<1>9. CASE ExitOnError
  BY <1>0, <1>9, QuietStepInv DEF ExitOnError
<1>10. CASE TornRead
  <2>1. file'.version \in Versions
    BY <1>0, <1>10 DEF TornRead
  <2> QED BY <1>10, <2>1, QuietStepInv DEF TornRead
<1>11. CASE UNCHANGED dumpVars
  BY <1>0, <1>11, QuietStepInv DEF dumpVars, readerVars
<1> QED
  BY <1>1, <1>2, <1>3, <1>4, <1>5, <1>6, <1>7, <1>8, <1>9, <1>10, <1>11
     DEF DumpNext, Read, DumpEnded

(* However often and at whatever moments the file is rewritten, a scan     *)
(* that has read the footer of a file with a context of its own visits the *)
(* entries of that file, in order and without a gap, and when it succeeds  *)
(* it has visited all of them.                                             *)
THEOREM ScansOneFile == DumpSpec => []ScanIsOneFile
<1>1. DumpInv => ScanIsOneFile
  <2> SUFFICES ASSUME DumpInv, NEW ft \in footer, NEW v \in Versions,
                      v.context = ft.context, ContextIsItsOwn(v)
               PROVE  /\ IsPrefix(visited, EntriesOf(v))
                      /\ reader_pc = "exit_0" => visited = EntriesOf(v)
    BY DEF ScanIsOneFile
  <2>1. IsSst(v) /\ ScanOf(v)
    BY ReaderAssumption DEF DumpInv
  <2>k. PICK k \in 0..Len(v.blocks) : \E j \in 0..k :
          /\ \E i \in DOMAIN v.blocks : IndexLists(v, i, k)
          /\ visited = EntriesUpTo(v)[j]
          /\ reader_pc = "exit_0" => j = k
    BY <2>1 DEF ScanOf
  <2>2. PICK j \in 0..k :
          /\ \E i \in DOMAIN v.blocks : IndexLists(v, i, k)
          /\ visited = EntriesUpTo(v)[j]
          /\ reader_pc = "exit_0" => j = k
    BY <2>k
  <2>3. EntriesUpTo(v)[k] = EntriesOf(v)
    BY <2>1, <2>2, EntriesAreInDataBlocks
  <2>4. j \in 0..Len(v.blocks) /\ k \in j..Len(v.blocks)
    BY <2>1, BlockFacts
  <2>5. IsPrefix(EntriesUpTo(v)[j], EntriesUpTo(v)[k])
    BY <2>1, <2>4, EntriesGrow
  <2> QED BY <2>2, <2>3, <2>5
<1> QED BY <1>1, DumpInitInv, DumpNextInv, PTL DEF DumpSpec
=============================================================================
