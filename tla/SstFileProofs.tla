---------------------------- MODULE SstFileProofs ---------------------------
(***************************************************************************)
(* Proofs about SstFile: whatever the entries, and wherever build_sst cuts *)
(* them into blocks, the file it lays out is contiguous, a point lookup    *)
(* through its index finds every key, and load_arena_source gives back     *)
(* just what was built whenever it succeeds.                               *)
(***************************************************************************)
EXTENDS SstFile, SequenceTheorems, TLAPS

IndexEntry == [key : Entry, handle : HandleType]

(* What a block may hold, by its kind: entries, index entries, properties, *)
(* or the handles of the metaindex.                                        *)
Contents ==
    Seq(Entry) \cup Seq(IndexEntry)
        \cup [num_entries : Nat, data_size : Nat, index_size : Nat]
        \cup [index : HandleType, properties : HandleType]

Block ==
    [kind : {"data", "index", "properties", "metaindex"}, offset : Nat, size : Nat,
     contents : Contents]

(* The blocks follow each other, and so no two of them share an offset.    *)
FileOK ==
    /\ file \in Seq(Block)
    /\ BlocksContiguous
    /\ \A m, n \in DOMAIN file : m < n => EndOf(file[m]) <= file[n].offset
    /\ ~IsBuilt => file_len = IF file = <<>> THEN 0 ELSE EndOf(file[Len(file)])

(* How many of the index, properties and metaindex blocks are written.     *)
MetaWritten ==
    IF pc \in {"entries", "index"} THEN 0
    ELSE IF pc = "properties" THEN 1
    ELSE IF pc = "metaindex" THEN 2 ELSE 3

StageOK ==
    /\ pc \in {"entries", "index", "properties", "metaindex", "footer", "built",
               "saved", "loading", "loaded", "err", "panic"}
    /\ Len(handles) = MetaWritten
    /\ pc # "entries" => added = Len(entries) /\ block = <<>>
    /\ pending_last_key = IF block = <<>> THEN None ELSE Some(entries[added])
    /\ IsBuilt => footer = handles[3].size

(* The data blocks, each with its index entry, then the meta blocks, each  *)
(* with its handle.                                                        *)
MetaOK ==
    /\ Len(file) = Len(index) + Len(handles)
    /\ \A n \in DOMAIN file : file[n].kind = "data" <=> n \in DOMAIN index
    /\ \A n \in DOMAIN index : index[n].handle = HandleOf(file[n])
    /\ \A j \in DOMAIN handles : handles[j] = HandleOf(file[Len(index) + j])
    /\ Len(handles) >= 1 => file[Len(index) + 1].contents = index
    /\ Len(handles) >= 3 => file[Len(index) + 3].contents.index = handles[1]

(* The cuts between the data blocks: every entry added is in the open      *)
(* block or between two cuts, and the separator of a block is the entry    *)
(* before the cut.                                                         *)
RunsOK(cut) ==
    /\ cut \in [0..Len(index) -> 0..added]
    /\ cut[0] = 0
    /\ \A m, n \in 0..Len(index) : m < n => cut[m] < cut[n]
    /\ \A n \in DOMAIN index :
         /\ file[n].contents = SubSeq(entries, cut[n - 1] + 1, cut[n])
         /\ index[n].key = entries[cut[n]]
    /\ block = SubSeq(entries, cut[Len(index)] + 1, added)
    /\ \A i \in 1..added :
         i > cut[Len(index)] \/ \E n \in DOMAIN index : cut[n - 1] < i /\ i <= cut[n]

(* What load_arena_source has read are the entries up to a cut, and what   *)
(* is left to read are the blocks after it.                                *)
LoadOK(cut) ==
    IF pc \in {"loading", "loaded"}
    THEN /\ disk_len = file_len
         /\ Len(todo) <= Len(index)
         /\ arena = SubSeq(entries, 1, cut[Len(index) - Len(todo)])
         /\ \A j \in DOMAIN todo : todo[j] = index[Len(index) - Len(todo) + j].handle
         /\ pc = "loaded" => todo = <<>>
    ELSE arena = <<>> /\ todo = <<>>

IInv ==
    /\ TypeOK /\ FileOK /\ StageOK /\ MetaOK
    /\ \E cut \in [0..Len(index) -> 0..added] : RunsOK(cut) /\ LoadOK(cut)
-----------------------------------------------------------------------------
LEMMA InitEstablishesIInv == Init => IInv
<1> SUFFICES ASSUME Init PROVE IInv
  OBVIOUS
<1> USE DEF Init
<1>1. entries \in Seq(Entry)
  BY ParametersAssumption
<1>2. TypeOK
  BY <1>1 DEF TypeOK, None
<1>3. FileOK
  BY DEF FileOK, BlocksContiguous, IsBuilt
<1>4. StageOK
  BY DEF StageOK, MetaWritten, IsBuilt
<1>5. MetaOK
  BY DEF MetaOK
<1>6. RunsOK([n \in 0..0 |-> 0]) /\ LoadOK([n \in 0..0 |-> 0])
  <2>1. SubSeq(entries, 1, 0) = <<>>
    BY SubSeqEmpty
  <2> QED BY <2>1 DEF RunsOK, LoadOK
<1> QED BY <1>2, <1>3, <1>4, <1>5, <1>6 DEF IInv
-----------------------------------------------------------------------------
(* Growing the file.                                                       *)

LEMMA SizeIsNat ==
    ASSUME NEW n \in Nat, NEW len \in Nat
    PROVE  SizeEstimate(n, len) \in Nat
<1>1. RestartInterval \in Nat \ {0}
  BY ParametersAssumption
<1>2. n # 0 => (n - 1) \div RestartInterval \in Nat
  BY <1>1
<1> QED BY <1>2 DEF SizeEstimate, Restarts

LEMMA EndIsNat ==
    ASSUME NEW b \in Block
    PROVE  EndOf(b) \in Nat /\ b.offset \in Nat /\ b.offset < EndOf(b)
BY DEF Block, EndOf, BLOCK_TRAILER_SIZE

(* encode_block_with_trailer at the end of the file: the block starts      *)
(* where the last one's trailer ends.                                      *)
LEMMA FileGrows ==
    ASSUME FileOK, file_len \in Nat, ~IsBuilt, ~IsBuilt',
           \E b \in Block : b.offset = file_len /\ AppendBlock(b)
    PROVE  /\ FileOK'
           /\ file_len' \in Nat /\ file_len <= file_len'
           /\ Len(file') = Len(file) + 1
           /\ \A n \in DOMAIN file : file'[n] = file[n]
<1> PICK b \in Block : b.offset = file_len /\ AppendBlock(b)
  OBVIOUS
<1>1. file \in Seq(Block) /\ file' = Append(file, b)
  BY DEF FileOK, AppendBlock
<1>2. /\ file' \in Seq(Block)
      /\ Len(file') = Len(file) + 1
      /\ \A n \in 1..Len(file) : file'[n] = file[n]
      /\ file'[Len(file) + 1] = b
      /\ file' # <<>>
  BY <1>1, AppendProperties
<1>3. DOMAIN file = 1..Len(file) /\ DOMAIN file' = 1..(Len(file) + 1) /\ Len(file) \in Nat
  BY <1>1, <1>2
<1>4. \A n \in DOMAIN file : file[n] \in Block
  BY <1>1
<1>5. file_len' = EndOf(b) /\ EndOf(b) \in Nat /\ file_len < EndOf(b)
  BY EndIsNat DEF AppendBlock, EndOf
<1>6. file_len = IF file = <<>> THEN 0 ELSE EndOf(file[Len(file)])
  BY DEF FileOK
<1>7. BlocksContiguous'
  <2> SUFFICES ASSUME NEW n \in DOMAIN file'
               PROVE  file'[n].offset = IF n = 1 THEN 0 ELSE EndOf(file'[n - 1])
    BY <1>2 DEF BlocksContiguous, EndOf
  <2>1. CASE n \in DOMAIN file
    <3>1. file[n].offset = IF n = 1 THEN 0 ELSE EndOf(file[n - 1])
      BY <2>1 DEF FileOK, BlocksContiguous
    <3>2. n # 1 => n - 1 \in DOMAIN file
      BY <2>1, <1>3
    <3> QED BY <2>1, <3>1, <3>2, <1>2, <1>3
  <2>2. CASE n = Len(file) + 1
    <3>1. file = <<>> <=> n = 1
      BY <2>2, <1>1
    <3>2. n # 1 => n - 1 = Len(file) /\ Len(file) \in DOMAIN file
      BY <2>2, <1>3
    <3> QED BY <2>2, <3>1, <3>2, <1>2, <1>3, <1>6
  <2> QED BY <2>1, <2>2, <1>3
<1>8. \A n \in DOMAIN file : EndOf(file[n]) <= file_len
  <2> SUFFICES ASSUME NEW n \in DOMAIN file PROVE EndOf(file[n]) <= file_len
    OBVIOUS
  <2>1. file # <<>> /\ Len(file) \in DOMAIN file
    BY <1>1, <1>3
  <2>2. CASE n = Len(file)
    BY <2>1, <2>2, <1>4, <1>6, EndIsNat
  <2>3. CASE n < Len(file)
    <3>1. EndOf(file[n]) <= file[Len(file)].offset
      BY <2>1, <2>3 DEF FileOK
    <3> QED BY <2>1, <3>1, <1>4, <1>6, EndIsNat
  <2> QED BY <2>2, <2>3, <1>3
<1>9. ASSUME NEW m \in DOMAIN file', NEW n \in DOMAIN file', m < n
      PROVE  EndOf(file'[m]) <= file'[n].offset
  <2>1. m \in DOMAIN file /\ file'[m] = file[m]
    BY <1>2, <1>3, <1>9
  <2>2. CASE n \in DOMAIN file
    BY <2>1, <2>2, <1>2, <1>3, <1>9 DEF FileOK
  <2>3. CASE n = Len(file) + 1
    BY <2>1, <2>3, <1>2, <1>8
  <2> QED BY <2>2, <2>3, <1>3
<1>10. file_len' = IF file' = <<>> THEN 0 ELSE EndOf(file'[Len(file')])
  BY <1>2, <1>5
<1>11. (\A m, n \in DOMAIN file : m < n => EndOf(file[m]) <= file[n].offset)'
  BY <1>9 DEF EndOf
<1>12. FileOK'
  BY <1>2, <1>7, <1>10, <1>11 DEF FileOK, EndOf
<1> QED BY <1>12, <1>2, <1>3, <1>5
-----------------------------------------------------------------------------
(* A data block is flushed: the entries after the last cut, up to a new    *)
(* one.                                                                    *)
Flushing ==
    /\ pc = "entries" /\ pc' \in {"entries", "index"}
    /\ added' \in added..Len(entries)
    /\ block' = <<>>
    /\ \E cut \in [0..Len(index) -> 0..added] :
         /\ RunsOK(cut)
         /\ cut[Len(index)] < added'
         /\ \E len \in Nat :
              FlushDataBlock(SubSeq(entries, cut[Len(index)] + 1, added'), len,
                             entries[added'])
    /\ UNCHANGED <<entries, handles, footer, disk_len, readerVars>>

LEMMA FlushingKeepsLayout ==
    ASSUME TypeOK, FileOK, StageOK, MetaOK, arena = <<>>, todo = <<>>, Flushing
    PROVE  /\ FileOK' /\ MetaOK'
           /\ file_len' \in Nat /\ file_len <= file_len'
           /\ index' \in Seq(IndexEntry)
           /\ (\E cut \in [0..Len(index) -> 0..added] : RunsOK(cut) /\ LoadOK(cut))'
<1>1. PICK cut \in [0..Len(index) -> 0..added] :
         /\ RunsOK(cut)
         /\ cut[Len(index)] < added'
         /\ \E len \in Nat :
              FlushDataBlock(SubSeq(entries, cut[Len(index)] + 1, added'), len,
                             entries[added'])
  BY DEF Flushing
<1>2. PICK len \in Nat :
         FlushDataBlock(SubSeq(entries, cut[Len(index)] + 1, added'), len, entries[added'])
  BY <1>1
<1>3. /\ entries \in Seq(Entry) /\ added \in 0..Len(entries) /\ file_len \in Nat
      /\ index \in Seq(IndexEntry) /\ handles = <<>>
      /\ pc = "entries" /\ pc' \in {"entries", "index"}
      /\ UNCHANGED <<entries, handles, footer, disk_len, arena, todo>>
  BY ParametersAssumption DEF TypeOK, StageOK, MetaWritten, IndexEntry, Flushing, readerVars
<1>4. PICK a \in 0..Len(entries) : a = added' /\ added <= a
  BY <1>3 DEF Flushing
<1>5. PICK last \in Nat : last = Len(index) /\ last = Len(file)
  BY <1>3 DEF MetaOK
<1>6. PICK from \in 0..Len(entries) : from = cut[last] /\ from < a
  BY <1>1, <1>3, <1>4, <1>5
<1> DEFINE run == SubSeq(entries, from + 1, a)
           size == SizeEstimate(Len(run), len)
           b == [kind |-> "data", offset |-> file_len, size |-> size, contents |-> run]
           entry == [key |-> entries[a], handle |-> HandleOf(b)]
<1>7. run \in Seq(Entry) /\ Len(run) \in Nat
  BY <1>3, <1>6, SubSeqProperties
<1>8. b \in Block
  <2>1. size \in Nat
    BY <1>7, SizeIsNat
  <2>2. run \in Contents
    BY <1>7 DEF Contents
  <2> HIDE DEF run, size
  <2> QED BY <2>1, <2>2, <1>3 DEF Block
<1>9. AppendBlock(b) /\ index' = Append(index, entry)
  BY <1>2, <1>4, <1>5, <1>6 DEF FlushDataBlock, BlockRecord
<1>10. entry \in IndexEntry
  <2>1. HandleOf(b) \in HandleType
    BY <1>8 DEF Block, HandleOf, HandleType
  <2>2. entries[a] \in Entry
    BY <1>3, <1>4, <1>6
  <2> HIDE DEF b
  <2> QED BY <2>1, <2>2 DEF IndexEntry
<1>11. b.offset = file_len /\ b.contents = run /\ b.kind = "data"
  OBVIOUS
<1>12. entry.key = entries[a] /\ entry.handle = HandleOf(b)
  OBVIOUS
<1> HIDE DEF b, entry
<1>13. ~IsBuilt /\ ~IsBuilt'
  BY <1>3 DEF IsBuilt
<1>14. /\ FileOK' /\ file_len' \in Nat /\ file_len <= file_len'
       /\ Len(file') = last + 1 /\ \A n \in DOMAIN file : file'[n] = file[n]
  BY <1>3, <1>5, <1>8, <1>9, <1>11, <1>13, FileGrows
<1>15. file \in Seq(Block) /\ file' \in Seq(Block) /\ DOMAIN file = 1..last /\ DOMAIN file' = 1..(last + 1)
  BY <1>5, <1>14 DEF FileOK
<1>16. file'[last + 1] = b
  BY <1>5, <1>8, <1>9, <1>15, AppendProperties DEF AppendBlock
<1>17. /\ index' \in Seq(IndexEntry) /\ Len(index') = last + 1
       /\ DOMAIN index = 1..last /\ DOMAIN index' = 1..(last + 1)
       /\ \A n \in 1..last : index'[n] = index[n]
       /\ index'[last + 1] = entry
  <2>1. index \in Seq(IndexEntry) /\ entry \in IndexEntry /\ index' = Append(index, entry)
    BY <1>3, <1>9, <1>10
  <2>2. /\ Append(index, entry) \in Seq(IndexEntry)
        /\ Len(Append(index, entry)) = Len(index) + 1
        /\ \A n \in 1..Len(index) : Append(index, entry)[n] = index[n]
        /\ Append(index, entry)[Len(index) + 1] = entry
    BY <2>1, AppendProperties
  <2>3. DOMAIN index = 1..Len(index) /\ DOMAIN index' = 1..Len(index')
    BY <2>1, <2>2
  <2> QED BY <2>1, <2>2, <2>3, <1>5
<1>18. MetaOK'
  <2>1. handles' = <<>>
    BY <1>3
  <2>2. Len(file') = Len(index') + Len(handles')
    BY <2>1, <1>14, <1>17
  <2>3. ASSUME NEW n \in DOMAIN file'
        PROVE  file'[n].kind = "data" <=> n \in DOMAIN index'
    <3>1. CASE n \in 1..last
      BY <3>1, <1>14, <1>15, <1>17 DEF MetaOK
    <3>2. CASE n = last + 1
      BY <3>2, <1>11, <1>16, <1>17
    <3> QED BY <3>1, <3>2, <1>15
  <2>4. ASSUME NEW n \in DOMAIN index'
        PROVE  index'[n].handle = HandleOf(file'[n])
    <3>1. CASE n \in 1..last
      BY <3>1, <1>14, <1>15, <1>17 DEF MetaOK
    <3>2. CASE n = last + 1
      BY <3>2, <1>12, <1>16, <1>17
    <3> QED BY <3>1, <3>2, <1>17
  <2>5. (\A n \in DOMAIN index : index[n].handle = HandleOf(file[n]))'
    BY <2>4 DEF HandleOf
  <2>6. (\A n \in DOMAIN file : file[n].kind = "data" <=> n \in DOMAIN index)'
    BY <2>3
  <2> QED BY <2>1, <2>2, <2>5, <2>6 DEF MetaOK
<1> DEFINE longer == [k \in 0..(last + 1) |-> IF k <= last THEN cut[k] ELSE a]
<1>19. /\ longer \in [0..(last + 1) -> 0..a]
       /\ \A k \in 0..last : longer[k] = cut[k]
       /\ longer[last + 1] = a
  BY <1>1, <1>3, <1>4, <1>5
<1> HIDE DEF longer
<1>20. RunsOK(longer)'
  <2> USE DEF RunsOK
  <2>1. longer \in [0..Len(index') -> 0..added'] /\ longer[0] = 0
    BY <1>1, <1>4, <1>5, <1>17, <1>19
  <2>2. ASSUME NEW m \in 0..Len(index'), NEW n \in 0..Len(index'), m < n
        PROVE  longer[m] < longer[n]
    <3>1. CASE n <= last
      BY <2>2, <3>1, <1>1, <1>5, <1>17, <1>19
    <3>2. CASE n = last + 1
      <4>1. m \in 0..last
        BY <2>2, <3>2, <1>17
      <4>2. cut[m] <= cut[last]
        BY <4>1, <1>1, <1>5
      <4>3. cut[m] \in Int /\ cut[last] \in Int
        BY <4>1, <1>1, <1>5
      <4> QED BY <3>2, <4>1, <4>2, <4>3, <1>6, <1>19
    <3> QED BY <3>1, <3>2, <1>17
  <2>3. ASSUME NEW n \in DOMAIN index'
        PROVE  /\ file'[n].contents = SubSeq(entries', longer[n - 1] + 1, longer[n])
               /\ index'[n].key = entries'[longer[n]]
    <3>1. CASE n \in 1..last
      <4>1. n - 1 \in 0..last /\ n \in 0..last /\ n \in DOMAIN index /\ n \in DOMAIN file
        BY <3>1, <1>15, <1>17
      <4> QED BY <4>1, <1>1, <1>3, <1>14, <1>17, <1>19
    <3>2. CASE n = last + 1
      <4>1. longer[n - 1] = from /\ longer[n] = a
        BY <3>2, <1>6, <1>19
      <4>2. file'[n].contents = run /\ index'[n].key = entries[a]
        BY <3>2, <1>11, <1>12, <1>16, <1>17
      <4> QED BY <4>1, <4>2, <1>3
    <3> QED BY <3>1, <3>2, <1>17
  <2>4. block' = SubSeq(entries', longer[Len(index')] + 1, added')
    BY <1>4, <1>17, <1>19, SubSeqEmpty DEF Flushing
  <2>5. ASSUME NEW i \in 1..added'
        PROVE  \E n \in DOMAIN index' : longer[n - 1] < i /\ i <= longer[n]
    <3>1. CASE i > from
      <4>1. last + 1 \in DOMAIN index' /\ longer[(last + 1) - 1] = from
        BY <1>6, <1>17, <1>19
      <4> QED BY <3>1, <4>1, <1>4, <1>19, SMTT(30)
    <3>2. CASE ~(i > from)
      <4>1. i \in 1..added /\ ~(i > cut[Len(index)])
        <5>1. from \in 0..added
          BY <1>1, <1>5, <1>6
        <5>2. i \in Nat /\ i >= 1
          BY <1>4
        <5> QED BY <3>2, <5>1, <5>2, <1>3, <1>5, <1>6
      <4>2. PICK n \in DOMAIN index : cut[n - 1] < i /\ i <= cut[n]
        BY <4>1, <1>1
      <4>3. n \in DOMAIN index' /\ n - 1 \in 0..last /\ n \in 0..last
        BY <1>17
      <4> QED BY <4>2, <4>3, <1>19
    <3> QED BY <3>1, <3>2
  <2> QED BY <2>1, <2>2, <2>3, <2>4, <2>5
<1>21. LoadOK(longer)'
  BY <1>3 DEF LoadOK
<1>22. longer \in [0..Len(index') -> 0..added']
  BY <1>4, <1>17, <1>19
<1> QED BY <1>14, <1>17, <1>18, <1>20, <1>21, <1>22
-----------------------------------------------------------------------------
(* The steps of build_sst.                                                 *)

LEMMA RunGrows ==
    ASSUME NEW s \in Seq(Entry), NEW from \in 0..Len(s), NEW a \in from..Len(s), a < Len(s)
    PROVE  Append(SubSeq(s, from + 1, a), s[a + 1]) = SubSeq(s, from + 1, a + 1)
<1>1. /\ SubSeq(s, from + 1, a) \in Seq(Entry)
      /\ Len(SubSeq(s, from + 1, a)) = a - from
      /\ \A i \in 1..(a - from) : SubSeq(s, from + 1, a)[i] = s[from + i]
  BY SubSeqProperties
<1>2. /\ SubSeq(s, from + 1, a + 1) \in Seq(Entry)
      /\ Len(SubSeq(s, from + 1, a + 1)) = a + 1 - from
      /\ \A i \in 1..(a + 1 - from) : SubSeq(s, from + 1, a + 1)[i] = s[from + i]
  BY SubSeqProperties
<1>3. s[a + 1] \in Entry
  OBVIOUS
<1> DEFINE r == SubSeq(s, from + 1, a)
           t == SubSeq(s, from + 1, a + 1)
<1> HIDE DEF r, t
<1>4. /\ Append(r, s[a + 1]) \in Seq(Entry)
      /\ Len(Append(r, s[a + 1])) = a - from + 1
      /\ \A i \in 1..(a - from) : Append(r, s[a + 1])[i] = r[i]
      /\ Append(r, s[a + 1])[a - from + 1] = s[a + 1]
  BY <1>1, <1>3, AppendProperties DEF r
<1>5. ASSUME NEW i \in 1..(a + 1 - from) PROVE Append(r, s[a + 1])[i] = t[i]
  <2>1. CASE i \in 1..(a - from)
    BY <2>1, <1>1, <1>2, <1>4 DEF r, t
  <2>2. CASE i = a - from + 1
    BY <2>2, <1>2, <1>4 DEF t
  <2>3. Len(s) \in Nat /\ from \in Int /\ a \in Int
    OBVIOUS
  <2>4. i \in 1..(a - from) \/ i = a - from + 1
    BY <2>3
  <2> QED BY <2>1, <2>2, <2>4, Zenon
<1>6. t \in Seq(Entry) /\ Len(t) = a + 1 - from
  BY <1>2 DEF t
<1>7. Append(r, s[a + 1]) = t
  BY <1>4, <1>5, <1>6
<1> QED BY <1>7 DEF r, t

(* One turn of the loop: the entry joins the open block, which is then     *)
(* either left open or cut.                                                *)
LEMMA AddEntryKeepsIInv == ASSUME IInv, AddEntry PROVE IInv'
<1>1. PICK cut \in [0..Len(index) -> 0..added] : RunsOK(cut) /\ LoadOK(cut)
  BY DEF IInv
<1>2. /\ entries \in Seq(Entry) /\ entries \in EntrySeqs /\ added \in 0..Len(entries)
      /\ added < Len(entries) /\ pc = "entries" /\ pc' = "entries"
      /\ index \in Seq(IndexEntry) /\ block \in Seq(Entry) /\ block_len \in Nat
      /\ Len(index) \in Nat
  BY ParametersAssumption DEF IInv, TypeOK, AddEntry, IndexEntry
<1>3. added' = added + 1 /\ UNCHANGED <<entries, data_size, handles, footer, disk_len, arena, todo>>
  BY DEF AddEntry, readerVars
<1>4. arena = <<>> /\ todo = <<>>
  BY <1>1, <1>2 DEF LoadOK
<1> DEFINE e == entries[added + 1]
           grown == Append(block, e)
<1>5. e \in Entry /\ grown \in Seq(Entry)
  BY <1>2
<1>6. PICK size \in EntrySizes :
         IF CutsBlock(Len(grown), block_len + size)
         THEN /\ FlushDataBlock(grown, block_len + size, e)
              /\ block' = <<>> /\ block_len' = 0
              /\ pending_last_key' = None
         ELSE /\ block' = grown /\ block_len' = block_len + size
              /\ pending_last_key' = Some(e)
              /\ UNCHANGED <<file, file_len, index>>
  BY DEF AddEntry
<1>7. block_len + size \in Nat
  BY <1>2, ParametersAssumption
<1>8. cut[Len(index)] \in 0..added /\ cut[Len(index)] <= added
  <2>1. Len(index) \in 0..Len(index)
    BY <1>2
  <2>2. cut[Len(index)] \in 0..added
    BY <2>1, <1>1
  <2> QED BY <2>2, <1>2
<1>9. grown = SubSeq(entries, cut[Len(index)] + 1, added + 1)
  <2>1. block = SubSeq(entries, cut[Len(index)] + 1, added)
    BY <1>1 DEF RunsOK
  <2>2. /\ Len(entries) \in Nat /\ cut[Len(index)] \in 0..Len(entries)
        /\ added \in cut[Len(index)]..Len(entries)
    BY <1>2, <1>8
  <2> QED BY <2>1, <2>2, <1>2, RunGrows DEF grown, e
<1>10. added' \in 0..Len(entries) /\ added' \in added..Len(entries)
  BY <1>2, <1>3
<1>11. IsBuilt' = IsBuilt /\ ~IsBuilt
  BY <1>2 DEF IsBuilt
<1> HIDE DEF e, grown
<1>12. CASE CutsBlock(Len(grown), block_len + size)
  <2>1. Flushing
    <3>1. FlushDataBlock(grown, block_len + size, e) /\ block' = <<>>
      BY <1>6, <1>12
    <3>2. FlushDataBlock(SubSeq(entries, cut[Len(index)] + 1, added'), block_len + size,
                         entries[added'])
      BY <3>1, <1>3, <1>9 DEF e
    <3>3. cut[Len(index)] < added'
      BY <1>2, <1>3, <1>8
    <3> QED BY <3>1, <3>2, <3>3, <1>1, <1>2, <1>3, <1>7, <1>10 DEF Flushing, readerVars
  <2>2. /\ FileOK' /\ MetaOK' /\ file_len' \in Nat /\ file_len <= file_len'
        /\ index' \in Seq(IndexEntry)
        /\ (\E c \in [0..Len(index) -> 0..added] : RunsOK(c) /\ LoadOK(c))'
    BY <2>1, <1>4, FlushingKeepsLayout DEF IInv
  <2>3. block' = <<>> /\ block_len' = 0 /\ pending_last_key' = None
    BY <1>6, <1>12
  <2>4. TypeOK'
    BY <2>2, <2>3, <1>2, <1>3, <1>10 DEF IInv, TypeOK, None, IndexEntry
  <2>5. StageOK'
    BY <2>3, <1>2, <1>3, <1>11 DEF IInv, StageOK, MetaWritten
  <2> QED BY <2>2, <2>4, <2>5 DEF IInv
<1>13. CASE ~CutsBlock(Len(grown), block_len + size)
  <2>1. /\ block' = grown /\ block_len' = block_len + size
        /\ pending_last_key' = <<e>>
        /\ UNCHANGED <<file, file_len, index>>
    BY <1>6, <1>13 DEF Some
  <2>2. TypeOK'
    BY <2>1, <1>2, <1>3, <1>5, <1>7, <1>10 DEF IInv, TypeOK
  <2>3. FileOK'
    BY <2>1, <1>11 DEF IInv, FileOK, BlocksContiguous, EndOf
  <2>4. MetaOK'
    BY <2>1, <1>3 DEF IInv, MetaOK, HandleOf
  <2>5. StageOK'
    <3>1. grown # <<>>
      BY <1>2, <1>5, SMTT(30) DEF grown
    <3>2. e = entries'[added']
      BY <1>3 DEF e
    <3> QED BY <2>1, <3>1, <3>2, <1>2, <1>3, <1>11 DEF IInv, StageOK, MetaWritten, Some
  <2>6. RunsOK(cut)'
    <3>1. cut \in [0..Len(index') -> 0..added']
      BY <2>1, <1>1, <1>2, <1>3
    <3>2. block' = SubSeq(entries', cut[Len(index')] + 1, added')
      BY <2>1, <1>3, <1>9
    <3>3. ASSUME NEW i \in 1..added'
          PROVE  i > cut[Len(index)] \/ \E n \in DOMAIN index : cut[n - 1] < i /\ i <= cut[n]
      <4>1. CASE i \in 1..added
        BY <4>1, <1>1 DEF RunsOK
      <4>2. CASE i = added + 1
        BY <4>2, <1>2, <1>8
      <4> QED BY <4>1, <4>2, <1>2, <1>3
    <3> QED BY <2>1, <3>1, <3>2, <3>3, <1>1, <1>3 DEF RunsOK
  <2>7. LoadOK(cut)'
    BY <1>2, <1>3, <1>4 DEF LoadOK
  <2>8. cut \in [0..Len(index') -> 0..added']
    BY <2>1, <1>1, <1>2, <1>3
  <2> QED BY <2>2, <2>3, <2>4, <2>5, <2>6, <2>7, <2>8 DEF IInv
<1> QED BY <1>12, <1>13

(* After the loop the open block, if it holds anything, is flushed.        *)
LEMMA FlushTailKeepsIInv == ASSUME IInv, FlushTail PROVE IInv'
<1>1. PICK cut \in [0..Len(index) -> 0..added] : RunsOK(cut) /\ LoadOK(cut)
  BY DEF IInv
<1>2. /\ entries \in Seq(Entry) /\ entries \in EntrySeqs /\ added \in 0..Len(entries)
      /\ added = Len(entries) /\ pc = "entries" /\ pc' = "index"
      /\ index \in Seq(IndexEntry) /\ block \in Seq(Entry) /\ block_len \in Nat
      /\ Len(index) \in Nat
  BY ParametersAssumption DEF IInv, TypeOK, FlushTail, IndexEntry
<1>3. /\ block' = <<>> /\ block_len' = 0 /\ pending_last_key' = None
      /\ data_size' = file_len'
      /\ UNCHANGED <<entries, added, handles, footer, disk_len, arena, todo>>
  BY DEF FlushTail, readerVars
<1>4. arena = <<>> /\ todo = <<>>
  BY <1>1, <1>2 DEF LoadOK
<1>5. ~IsBuilt /\ ~IsBuilt'
  BY <1>2 DEF IsBuilt
<1>6. StageOK'
  BY <1>2, <1>3, <1>5 DEF IInv, StageOK, MetaWritten
<1>7. block = SubSeq(entries, cut[Len(index)] + 1, added) /\ cut[Len(index)] \in 0..added
  <2>1. Len(index) \in 0..Len(index)
    BY <1>2
  <2> QED BY <2>1, <1>1 DEF RunsOK
<1>8. CASE block # <<>>
  <2>1. pending_last_key = <<entries[added]>> /\ pending_last_key # None
    BY <1>8 DEF IInv, StageOK, Some, None
  <2>2. FlushDataBlock(block, block_len, entries[added])
    BY <2>1 DEF FlushTail
  <2>3. cut[Len(index)] < added
    <3>1. cut[Len(index)] \in Int /\ added \in Int /\ cut[Len(index)] <= added
      BY <1>2, <1>7
    <3>2. cut[Len(index)] = added => SubSeq(entries, cut[Len(index)] + 1, added) = <<>>
      BY <3>1, SubSeqEmpty
    <3> QED BY <3>1, <3>2, <1>7, <1>8
  <2>4. Flushing
    <3>1. FlushDataBlock(SubSeq(entries, cut[Len(index)] + 1, added'), block_len,
                         entries[added'])
      BY <2>2, <1>3, <1>7
    <3>2. added' \in added..Len(entries) /\ cut[Len(index)] < added'
      BY <2>3, <1>2, <1>3
    <3> QED BY <3>1, <3>2, <1>1, <1>2, <1>3 DEF Flushing, readerVars
  <2>5. /\ FileOK' /\ MetaOK' /\ file_len' \in Nat /\ file_len <= file_len'
        /\ index' \in Seq(IndexEntry)
        /\ (\E c \in [0..Len(index) -> 0..added] : RunsOK(c) /\ LoadOK(c))'
    BY <2>4, <1>4, FlushingKeepsLayout DEF IInv
  <2>6. TypeOK'
    BY <2>5, <1>2, <1>3 DEF IInv, TypeOK, None, IndexEntry
  <2> QED BY <2>5, <2>6, <1>6 DEF IInv
<1>9. CASE block = <<>>
  <2>1. UNCHANGED <<file, file_len, index>>
    BY <1>9 DEF IInv, StageOK, FlushTail
  <2>2. TypeOK'
    BY <2>1, <1>2, <1>3 DEF IInv, TypeOK, None
  <2>3. FileOK'
    BY <2>1, <1>5 DEF IInv, FileOK, BlocksContiguous, EndOf
  <2>4. MetaOK'
    BY <2>1, <1>3 DEF IInv, MetaOK, HandleOf
  <2>5. RunsOK(cut)'
    BY <2>1, <1>1, <1>3, <1>9 DEF RunsOK
  <2>6. LoadOK(cut)'
    BY <1>2, <1>3, <1>4 DEF LoadOK
  <2> QED BY <2>1, <2>2, <2>3, <2>4, <2>5, <2>6, <1>1, <1>3, <1>6 DEF IInv
<1> QED BY <1>8, <1>9

(* A meta block is appended and its handle kept.                           *)
MetaWriting ==
    /\ \/ pc = "index" /\ pc' = "properties"
       \/ pc = "properties" /\ pc' = "metaindex"
       \/ pc = "metaindex" /\ pc' = "footer"
    /\ \E b \in Block :
         /\ b.kind # "data" /\ b.offset = file_len
         /\ AppendBlock(b)
         /\ handles' = Append(handles, HandleOf(b))
         /\ pc = "index" => b.contents = index
         /\ pc = "metaindex" => b.contents.index = handles[1]
    /\ UNCHANGED <<writerVars, footer, disk_len, readerVars>>

LEMMA MetaWritingKeepsIInv == ASSUME IInv, MetaWriting PROVE IInv'
<1>1. PICK cut \in [0..Len(index) -> 0..added] : RunsOK(cut) /\ LoadOK(cut)
  BY DEF IInv
<1>2. PICK b \in Block :
         /\ b.kind # "data" /\ b.offset = file_len
         /\ AppendBlock(b)
         /\ handles' = Append(handles, HandleOf(b))
         /\ pc = "index" => b.contents = index
         /\ pc = "metaindex" => b.contents.index = handles[1]
  BY DEF MetaWriting
<1>3. /\ pc \in {"index", "properties", "metaindex"}
      /\ pc' = IF pc = "index" THEN "properties"
               ELSE IF pc = "properties" THEN "metaindex" ELSE "footer"
      /\ UNCHANGED <<entries, added, block, block_len, pending_last_key, index, data_size,
                     footer, disk_len, arena, todo>>
  BY DEF MetaWriting, writerVars, readerVars
<1>4. ~IsBuilt /\ ~IsBuilt' /\ file_len \in Nat /\ FileOK /\ MetaOK
  BY <1>3 DEF IsBuilt, IInv, TypeOK
<1>5. /\ FileOK' /\ file_len' \in Nat /\ file_len <= file_len'
      /\ Len(file') = Len(file) + 1 /\ \A n \in DOMAIN file : file'[n] = file[n]
  BY <1>2, <1>4, FileGrows
<1>6. /\ file \in Seq(Block) /\ file' \in Seq(Block)
      /\ DOMAIN file = 1..Len(file) /\ DOMAIN file' = 1..(Len(file) + 1)
      /\ Len(file) \in Nat
  BY <1>4, <1>5 DEF FileOK
<1>7. file'[Len(file) + 1] = b
  BY <1>2, <1>6, AppendProperties DEF AppendBlock
<1>8. HandleOf(b) \in HandleType
  BY DEF Block, HandleOf, HandleType
<1>9. /\ handles \in Seq(HandleType) /\ handles' \in Seq(HandleType)
      /\ Len(handles') = Len(handles) + 1
      /\ \A j \in 1..Len(handles) : handles'[j] = handles[j]
      /\ handles'[Len(handles) + 1] = HandleOf(b)
      /\ DOMAIN handles = 1..Len(handles) /\ DOMAIN handles' = 1..(Len(handles) + 1)
  <2>1. handles \in Seq(HandleType)
    BY DEF IInv, TypeOK
  <2>2. handles' = Append(handles, HandleOf(b))
    BY <1>2
  <2> HIDE DEF HandleType
  <2> QED BY <2>1, <2>2, <1>8, AppendProperties
<1>10. Len(handles) \in Nat /\ Len(index) \in Nat /\ Len(file) = Len(index) + Len(handles)
  BY <1>9 DEF IInv, TypeOK, MetaOK
<1>11. Len(handles) = IF pc = "index" THEN 0 ELSE IF pc = "properties" THEN 1 ELSE 2
  BY <1>3 DEF IInv, StageOK, MetaWritten
<1>12. DOMAIN index = 1..Len(index)
  BY DEF IInv, TypeOK
<1>13. TypeOK'
  BY <1>3, <1>5, <1>9 DEF IInv, TypeOK
<1>14. StageOK'
  BY <1>3, <1>4, <1>9, <1>11 DEF IInv, StageOK, MetaWritten
<1>15. MetaOK'
  <2>1. Len(file') = Len(index') + Len(handles')
    BY <1>3, <1>5, <1>9, <1>10
  <2>2. ASSUME NEW n \in DOMAIN file'
        PROVE  file'[n].kind = "data" <=> n \in DOMAIN index
    <3>1. CASE n \in DOMAIN file
      BY <3>1, <1>4, <1>5 DEF MetaOK
    <3>2. CASE n = Len(file) + 1
      BY <3>2, <1>2, <1>7, <1>10, <1>12
    <3> QED BY <3>1, <3>2, <1>6
  <2>3. ASSUME NEW n \in DOMAIN index
        PROVE  index[n].handle = HandleOf(file'[n])
    BY <1>4, <1>5, <1>6, <1>10, <1>12 DEF MetaOK
  <2>4. ASSUME NEW j \in DOMAIN handles'
        PROVE  handles'[j] = HandleOf(file'[Len(index) + j])
    <3>1. CASE j \in 1..Len(handles)
      <4>1. Len(index) + j \in DOMAIN file
        BY <3>1, <1>6, <1>10
      <4> QED BY <3>1, <4>1, <1>4, <1>5, <1>9 DEF MetaOK
    <3>2. CASE j = Len(handles) + 1
      <4>1. Len(index) + j = Len(file) + 1
        BY <3>2, <1>10
      <4> QED BY <3>2, <4>1, <1>7, <1>9
    <3> QED BY <3>1, <3>2, <1>9
  <2>5. file'[Len(index) + 1].contents = index
    <3>1. CASE pc = "index"
      BY <3>1, <1>2, <1>7, <1>10, <1>11
    <3>2. CASE pc # "index"
      <4>1. Len(handles) >= 1 /\ Len(index) + 1 \in DOMAIN file
        BY <3>2, <1>6, <1>10, <1>11
      <4> QED BY <4>1, <1>4, <1>5 DEF MetaOK
    <3> QED BY <3>1, <3>2
  <2>6. Len(handles') >= 3 => file'[Len(index) + 3].contents.index = handles'[1]
    <3> SUFFICES ASSUME Len(handles') >= 3
                 PROVE  file'[Len(index) + 3].contents.index = handles'[1]
      OBVIOUS
    <3>1. pc = "metaindex" /\ Len(handles) = 2
      BY <1>3, <1>9, <1>11
    <3>2. Len(index) + 3 = Len(file) + 1 /\ handles'[1] = handles[1]
      BY <3>1, <1>9, <1>10
    <3> QED BY <3>1, <3>2, <1>2, <1>7
  <2>7. (\A n \in DOMAIN file : file[n].kind = "data" <=> n \in DOMAIN index)'
    BY <2>2, <1>3
  <2>8. (\A n \in DOMAIN index : index[n].handle = HandleOf(file[n]))'
    BY <2>3, <1>3 DEF HandleOf
  <2>9. (\A j \in DOMAIN handles : handles[j] = HandleOf(file[Len(index) + j]))'
    BY <2>4, <1>3 DEF HandleOf
  <2> QED BY <2>1, <2>5, <2>6, <2>7, <2>8, <2>9, <1>3 DEF MetaOK
<1>16. RunsOK(cut)'
  <2>1. \A n \in DOMAIN index : file'[n] = file[n]
    BY <1>5, <1>6, <1>10, <1>12
  <2> QED BY <2>1, <1>1, <1>3 DEF RunsOK
<1>17. LoadOK(cut)'
  BY <1>1, <1>3 DEF LoadOK
<1> QED BY <1>1, <1>3, <1>5, <1>13, <1>14, <1>15, <1>16, <1>17 DEF IInv

(* The index, the properties and the metaindex are such blocks.            *)
LEMMA WriteMetaIsMetaWriting ==
    ASSUME IInv, WriteIndex \/ WriteProperties \/ WriteMetaindex
    PROVE  MetaWriting
<1>1. /\ index \in Seq(IndexEntry) /\ handles \in Seq(HandleType)
      /\ file_len \in Nat /\ data_size \in Nat /\ Len(entries) \in Nat
  BY ParametersAssumption DEF IInv, TypeOK, IndexEntry
<1>2. Len(handles) = MetaWritten
  BY DEF IInv, StageOK
<1>3. ASSUME NEW size \in MetaSizes, NEW kind \in {"index", "properties", "metaindex"},
             NEW contents \in Contents
      PROVE  [kind |-> kind, offset |-> file_len, size |-> size, contents |-> contents] \in Block
  BY <1>1, ParametersAssumption DEF Block
<1>4. CASE WriteIndex
  <2>1. PICK size \in MetaSizes :
           /\ AppendBlock(BlockRecord("index", size, index))
           /\ handles' = Append(handles, HandleOf(BlockRecord("index", size, index)))
    BY <1>4 DEF WriteIndex, WriteMetaBlock
  <2>2. index \in Contents
    BY <1>1 DEF Contents
  <2>3. BlockRecord("index", size, index) \in Block
    BY <2>2, <1>3 DEF BlockRecord
  <2> QED BY <2>1, <2>3, <1>4 DEF WriteIndex, WriteMetaBlock, MetaWriting, BlockRecord
<1>5. CASE WriteProperties
  <2> DEFINE properties == [num_entries |-> Len(entries), data_size |-> data_size,
                            index_size |-> handles[1].size]
  <2>1. PICK size \in MetaSizes :
           /\ AppendBlock(BlockRecord("properties", size, properties))
           /\ handles' = Append(handles, HandleOf(BlockRecord("properties", size, properties)))
    BY <1>5 DEF WriteProperties, WriteMetaBlock
  <2>2. handles[1] \in HandleType
    <3>1. Len(handles) = 1
      BY <1>2, <1>5 DEF WriteProperties, MetaWritten
    <3> QED BY <3>1, <1>1
  <2>3. properties \in Contents
    BY <2>2, <1>1 DEF Contents, HandleType
  <2> HIDE DEF properties
  <2>4. BlockRecord("properties", size, properties) \in Block
    BY <2>3, <1>3 DEF BlockRecord
  <2> QED BY <2>1, <2>4, <1>5 DEF WriteProperties, WriteMetaBlock, MetaWriting, BlockRecord
<1>6. CASE WriteMetaindex
  <2> DEFINE metaindex == [index |-> handles[1], properties |-> handles[2]]
  <2>1. PICK size \in MetaSizes :
           /\ AppendBlock(BlockRecord("metaindex", size, metaindex))
           /\ handles' = Append(handles, HandleOf(BlockRecord("metaindex", size, metaindex)))
    BY <1>6 DEF WriteMetaindex, WriteMetaBlock
  <2>2. handles[1] \in HandleType /\ handles[2] \in HandleType
    BY <1>1, <1>2, <1>6 DEF WriteMetaindex, MetaWritten
  <2>3. metaindex \in Contents /\ metaindex.index = handles[1]
    BY <2>2 DEF Contents
  <2> HIDE DEF metaindex
  <2>4. BlockRecord("metaindex", size, metaindex) \in Block
    BY <2>3, <1>3 DEF BlockRecord
  <2> QED BY <2>1, <2>3, <2>4, <1>6 DEF WriteMetaindex, WriteMetaBlock, MetaWriting, BlockRecord
<1> QED BY <1>4, <1>5, <1>6

(* The footer closes the file.                                             *)
LEMMA WriteFooterKeepsIInv == ASSUME IInv, WriteFooter PROVE IInv'
<1>1. PICK cut \in [0..Len(index) -> 0..added] : RunsOK(cut) /\ LoadOK(cut)
  BY DEF IInv
<1>2. /\ pc = "footer" /\ pc' = "built" /\ ~IsBuilt /\ IsBuilt'
      /\ footer' = handles[3].size /\ file_len' = file_len + FOOTER_TAIL_LEN
      /\ UNCHANGED <<entries, added, block, block_len, pending_last_key, index, data_size,
                     file, handles, disk_len, arena, todo>>
  BY DEF WriteFooter, IsBuilt, writerVars, readerVars
<1>3. /\ handles \in Seq(HandleType) /\ Len(handles) = 3 /\ file_len \in Nat
      /\ index \in Seq(IndexEntry)
  BY <1>2 DEF IInv, TypeOK, StageOK, MetaWritten, IndexEntry
<1>4. handles[3].size \in Nat
  <2>1. handles[3] \in HandleType
    BY <1>3, SMTT(30)
  <2> QED BY <2>1 DEF HandleType
<1>5. TypeOK'
  BY <1>2, <1>3, <1>4 DEF IInv, TypeOK, FOOTER_TAIL_LEN
<1>6. StageOK'
  BY <1>2, <1>3 DEF IInv, StageOK, MetaWritten
<1>7. FileOK'
  <2>1. Len(file) >= 3 /\ file # <<>>
    BY <1>3 DEF IInv, MetaOK
  <2> QED BY <2>1, <1>2 DEF IInv, FileOK, BlocksContiguous, EndOf
<1>8. MetaOK'
  BY <1>2 DEF IInv, MetaOK, HandleOf
<1>9. RunsOK(cut)' /\ LoadOK(cut)'
  BY <1>1, <1>2 DEF RunsOK, LoadOK
<1> QED BY <1>1, <1>2, <1>5, <1>6, <1>7, <1>8, <1>9 DEF IInv
-----------------------------------------------------------------------------
(* Writing the file out and loading it.                                    *)

(* The writer's part of the state, which nothing changes any more.         *)
LEMMA BuiltStays ==
    ASSUME IInv, IsBuilt, IsBuilt', UNCHANGED <<writerVars, fileVars>>,
           pc' \in {"saved", "loading", "loaded", "err", "panic"}
    PROVE  /\ FileOK' /\ StageOK' /\ MetaOK'
           /\ \A cut : RunsOK(cut) => RunsOK(cut)'
<1>1. UNCHANGED <<entries, added, block, block_len, pending_last_key, index, data_size,
                  file, file_len, handles, footer>>
  BY DEF writerVars, fileVars
<1>2. FileOK'
  BY <1>1 DEF IInv, FileOK, BlocksContiguous, EndOf
<1>3. StageOK'
  BY <1>1 DEF IInv, StageOK, MetaWritten, IsBuilt
<1>4. MetaOK'
  BY <1>1 DEF IInv, MetaOK, HandleOf
<1>5. ASSUME NEW cut, RunsOK(cut) PROVE RunsOK(cut)'
  BY <1>1, <1>5 DEF RunsOK
<1> QED BY <1>2, <1>3, <1>4, <1>5

(* Two blocks at one offset are one block.                                 *)
LEMMA BlockAtHandle ==
    ASSUME FileOK, NEW n \in DOMAIN file, NEW b \in BlockAt(HandleOf(file[n]))
    PROVE  b = file[n]
<1>1. PICK m \in DOMAIN file : b = file[m] /\ HandleOf(file[m]) = HandleOf(file[n])
  BY DEF BlockAt
<1>2. file[m].offset = file[n].offset
  BY <1>1 DEF HandleOf
<1>3. file[m] \in Block /\ file[n] \in Block /\ m \in Int /\ n \in Int
  BY DEF FileOK
<1>4. /\ EndOf(file[m]) \in Nat /\ file[m].offset < EndOf(file[m])
      /\ EndOf(file[n]) \in Nat /\ file[n].offset < EndOf(file[n])
      /\ file[m].offset \in Nat /\ file[n].offset \in Nat
  BY <1>3, EndIsNat
<1>5. ~(m < n) /\ ~(n < m)
  BY <1>2, <1>4 DEF FileOK
<1> QED BY <1>1, <1>3, <1>5

(* Saving, crashing in it, failing and finishing a load leave arena and    *)
(* handles alone.                                                          *)
LEMMA QuietKeepsIInv ==
    ASSUME IInv,
           SaveFile \/ CrashInSave \/ LoadPanics \/ LoadFails \/ LoadDone
    PROVE  IInv'
<1>1. PICK cut \in [0..Len(index) -> 0..added] : RunsOK(cut) /\ LoadOK(cut)
  BY DEF IInv
<1>2. /\ UNCHANGED <<writerVars, fileVars, arena, todo>>
      /\ \/ pc \in {"built", "saved"} /\ pc' \in {"saved", "err", "panic"}
         \/ pc = "loading" /\ pc' = "loaded" /\ todo = <<>> /\ disk_len' = disk_len
  BY DEF SaveFile, CrashInSave, LoadPanics, LoadFails, LoadDone, readerVars
<1>3. IsBuilt /\ IsBuilt' /\ pc' \in {"saved", "loading", "loaded", "err", "panic"}
  BY <1>2 DEF IsBuilt
<1>4. FileOK' /\ StageOK' /\ MetaOK' /\ RunsOK(cut)'
  BY <1>1, <1>2, <1>3, BuiltStays
<1>5. disk_len' \in 0..file_len
  BY DEF SaveFile, CrashInSave, LoadPanics, LoadFails, LoadDone, IInv, TypeOK
<1>6. UNCHANGED <<entries, added, block, block_len, pending_last_key, index, data_size,
                  file, file_len, handles, footer, arena, todo>>
  BY <1>2 DEF writerVars, fileVars
<1>7. TypeOK'
  BY <1>5, <1>6 DEF IInv, TypeOK
<1>8. LoadOK(cut)'
  BY <1>1, <1>2, <1>6 DEF LoadOK
<1> QED BY <1>1, <1>4, <1>6, <1>7, <1>8 DEF IInv

(* The metaindex is where the footer's arithmetic puts it, its handle of   *)
(* the index finds the index, and so the handles to read are those of all  *)
(* the data blocks.                                                        *)
LEMMA LoadIndexKeepsIInv == ASSUME IInv, LoadIndex PROVE IInv'
<1>1. PICK cut \in [0..Len(index) -> 0..added] : RunsOK(cut) /\ LoadOK(cut)
  BY DEF IInv
<1>2. /\ pc = "saved" /\ pc' = "loading" /\ disk_len = file_len
      /\ UNCHANGED <<writerVars, fileVars, disk_len, arena>>
  BY DEF LoadIndex, FooterAtTail
<1>3. IsBuilt /\ IsBuilt' /\ pc' \in {"saved", "loading", "loaded", "err", "panic"}
  BY <1>2 DEF IsBuilt
<1>4. FileOK' /\ StageOK' /\ MetaOK' /\ RunsOK(cut)'
  BY <1>1, <1>2, <1>3, BuiltStays
<1>5. UNCHANGED <<entries, added, block, block_len, pending_last_key, index, data_size,
                  file, file_len, handles, footer, disk_len, arena>>
  BY <1>2 DEF writerVars, fileVars
<1>6. PICK metaindex \in BlockAt(MetaindexHandle) :
      \E found \in IndexContents(metaindex) : todo' = [n \in DOMAIN found |-> found[n].handle]
  BY DEF LoadIndex
<1>7. PICK found \in IndexContents(metaindex) : todo' = [n \in DOMAIN found |-> found[n].handle]
  BY <1>6
<1>8. /\ file \in Seq(Block) /\ index \in Seq(IndexEntry) /\ handles \in Seq(HandleType)
      /\ Len(handles) = 3 /\ Len(file) = Len(index) + 3 /\ DOMAIN file = 1..Len(file)
      /\ Len(index) \in Nat /\ FileOK /\ MetaOK
  BY <1>2 DEF IInv, TypeOK, FileOK, StageOK, MetaWritten, MetaOK, IndexEntry
<1>9. Len(index) + 1 \in DOMAIN file /\ Len(index) + 3 \in DOMAIN file
  BY <1>8
<1>10. handles[1] = HandleOf(file[Len(index) + 1]) /\ handles[3] = HandleOf(file[Len(index) + 3])
  <2>1. 1 \in DOMAIN handles /\ 3 \in DOMAIN handles
    BY <1>8
  <2> QED BY <2>1, <1>8 DEF MetaOK
<1>11. MetaindexHandle = HandleOf(file[Len(index) + 3])
  <2> DEFINE last == file[Len(index) + 3]
  <2>1. last \in Block
    BY <1>8, <1>9
  <2>2. footer = last.size
    BY <1>3, <1>10 DEF IInv, StageOK, HandleOf
  <2>3. file_len = EndOf(last) + FOOTER_TAIL_LEN
    BY <1>3, <1>8 DEF FileOK, BlocksContiguous
  <2> HIDE DEF last
  <2>4. last.offset \in Nat /\ last.size \in Nat
    BY <2>1 DEF Block
  <2>5. disk_len - FOOTER_TAIL_LEN - BLOCK_TRAILER_SIZE - footer = last.offset
    BY <2>2, <2>3, <2>4, <1>2 DEF EndOf, FOOTER_TAIL_LEN, BLOCK_TRAILER_SIZE
  <2> QED BY <2>2, <2>5 DEF MetaindexHandle, HandleOf, last
<1>12. metaindex = file[Len(index) + 3]
  BY <1>6, <1>8, <1>9, <1>11, BlockAtHandle
<1>13. metaindex.contents.index = HandleOf(file[Len(index) + 1])
  BY <1>8, <1>10, <1>12 DEF MetaOK
<1>14. found = index
  <2>1. PICK b \in BlockAt(metaindex.contents.index) : found = b.contents
    BY <1>7 DEF IndexContents
  <2>2. b = file[Len(index) + 1]
    BY <2>1, <1>8, <1>9, <1>13, BlockAtHandle
  <2> QED BY <2>1, <2>2, <1>8 DEF MetaOK
<1>15. /\ todo' \in Seq(HandleType) /\ Len(todo') = Len(index) /\ DOMAIN todo' = 1..Len(index)
       /\ \A j \in 1..Len(index) : todo'[j] = index[j].handle
  <2>1. todo' = [n \in 1..Len(index) |-> index[n].handle]
    BY <1>7, <1>8, <1>14
  <2>2. \A n \in 1..Len(index) : index[n].handle \in HandleType
    <3>1. \A n \in 1..Len(index) : index[n] \in IndexEntry
      BY <1>8
    <3> QED BY <3>1 DEF IndexEntry
  <2> HIDE DEF HandleType
  <2> QED BY <2>1, <2>2, <1>8
<1>16. TypeOK'
  BY <1>5, <1>15 DEF IInv, TypeOK
<1>17. LoadOK(cut)'
  <2>1. cut[0] = 0 /\ SubSeq(entries, 1, 0) = <<>>
    BY <1>1, SubSeqEmpty DEF RunsOK
  <2>2. arena = <<>>
    BY <1>1, <1>2 DEF LoadOK
  <2>3. Len(index') - Len(todo') = 0
    BY <1>5, <1>8, <1>15
  <2>4. arena' = SubSeq(entries', 1, cut[Len(index') - Len(todo')])
    BY <2>1, <2>2, <2>3, <1>5
  <2>5. \A j \in DOMAIN todo' : todo'[j] = index'[Len(index') - Len(todo') + j].handle
    BY <2>3, <1>5, <1>15
  <2>6. Len(todo') <= Len(index') /\ disk_len' = file_len' /\ pc' = "loading"
    BY <1>2, <1>5, <1>8, <1>15
  <2> QED BY <2>4, <2>5, <2>6 DEF LoadOK
<1> QED BY <1>1, <1>4, <1>5, <1>16, <1>17 DEF IInv

(* One data block: the entries up to the next cut.                         *)
LEMMA LoadBlockKeepsIInv == ASSUME IInv, LoadBlock PROVE IInv'
<1>1. PICK cut \in [0..Len(index) -> 0..added] : RunsOK(cut) /\ LoadOK(cut)
  BY DEF IInv
<1>2. /\ pc = "loading" /\ pc' = "loading" /\ todo # <<>> /\ todo' = Tail(todo)
      /\ UNCHANGED <<writerVars, fileVars, disk_len>>
  BY DEF LoadBlock
<1>3. IsBuilt /\ IsBuilt' /\ pc' \in {"saved", "loading", "loaded", "err", "panic"}
  BY <1>2 DEF IsBuilt
<1>4. FileOK' /\ StageOK' /\ MetaOK' /\ RunsOK(cut)'
  BY <1>1, <1>2, <1>3, BuiltStays
<1>5. UNCHANGED <<entries, added, block, block_len, pending_last_key, index, data_size,
                  file, file_len, handles, footer, disk_len>>
  BY <1>2 DEF writerVars, fileVars
<1>6. PICK b \in BlockAt(Head(todo)) : arena' = arena \o b.contents
  BY DEF LoadBlock
<1>7. /\ disk_len = file_len /\ Len(todo) <= Len(index)
      /\ arena = SubSeq(entries, 1, cut[Len(index) - Len(todo)])
      /\ \A j \in DOMAIN todo : todo[j] = index[Len(index) - Len(todo) + j].handle
  BY <1>1, <1>2 DEF LoadOK
<1>8. /\ index \in Seq(IndexEntry) /\ todo \in Seq(HandleType) /\ entries \in Seq(Entry)
      /\ added \in 0..Len(entries) /\ FileOK /\ MetaOK /\ arena \in Seq(Entry)
      /\ Len(index) \in Nat /\ Len(todo) \in Nat /\ Len(entries) \in Nat /\ Len(todo) > 0
  BY <1>2, ParametersAssumption DEF IInv, TypeOK, IndexEntry
<1>9. /\ todo' \in Seq(HandleType) /\ Len(todo') = Len(todo) - 1
      /\ DOMAIN todo' = 1..Len(todo') /\ DOMAIN todo = 1..Len(todo)
      /\ \A j \in 1..Len(todo') : todo'[j] = todo[j + 1]
      /\ Head(todo) = todo[1]
  <2> HIDE DEF HandleType
  <2> QED BY <1>2, <1>8, HeadTailProperties
<1>10. PICK n \in 1..Len(index) : n = Len(index) - Len(todo) + 1
  BY <1>7, <1>8
<1>11. b = file[n]
  <2>1. n \in DOMAIN index /\ n \in DOMAIN file
    <3>1. n \in DOMAIN index
      BY <1>8
    <3>2. Len(handles) = 3 /\ Len(file) = Len(index) + Len(handles)
      BY <1>2 DEF IInv, StageOK, MetaWritten, MetaOK
    <3>3. DOMAIN file = 1..Len(file)
      BY <1>8 DEF FileOK
    <3> QED BY <3>1, <3>2, <3>3, <1>8
  <2>2. Head(todo) = HandleOf(file[n])
    <3>1. 1 \in DOMAIN todo /\ Len(index) - Len(todo) + 1 = n
      BY <1>8, <1>9, <1>10
    <3>2. Head(todo) = index[n].handle
      BY <3>1, <1>7, <1>9
    <3> QED BY <2>1, <3>2, <1>8 DEF MetaOK
  <2> QED BY <2>1, <2>2, <1>6, <1>8, BlockAtHandle
<1>12. cut[n - 1] \in 0..added /\ cut[n] \in 0..added /\ cut[n - 1] < cut[n]
  <2>1. n - 1 \in 0..Len(index) /\ n \in 0..Len(index) /\ n - 1 < n
    BY <1>8
  <2> QED BY <2>1, <1>1 DEF RunsOK
<1>13. b.contents = SubSeq(entries, cut[n - 1] + 1, cut[n])
  <2>1. n \in DOMAIN index
    BY <1>8
  <2> QED BY <2>1, <1>1, <1>11 DEF RunsOK
<1>14. arena' = SubSeq(entries, 1, cut[n])
  <2>1. arena = SubSeq(entries, 1, cut[n - 1])
    <3>1. n - 1 = Len(index) - Len(todo)
      BY <1>8, <1>10
    <3> QED BY <3>1, <1>7
  <2>2. /\ 1 \in 1..(Len(entries) + 1) /\ cut[n - 1] \in (1 - 1)..Len(entries)
        /\ cut[n] \in cut[n - 1]..Len(entries)
    BY <1>8, <1>12
  <2> QED BY <2>1, <2>2, <1>6, <1>8, <1>13, ConcatAdjacentSubSeq
<1>15. arena' \in Seq(Entry)
  <2>1. \A i \in 1..cut[n] : entries[i] \in Entry
    BY <1>8, <1>12
  <2> QED BY <2>1, <1>12, <1>14, SubSeqProperties
<1>16. TypeOK'
  BY <1>5, <1>9, <1>15 DEF IInv, TypeOK
<1>17. LoadOK(cut)'
  <2>1. Len(index') - Len(todo') = n
    BY <1>5, <1>8, <1>9, <1>10
  <2>2. arena' = SubSeq(entries', 1, cut[Len(index') - Len(todo')])
    BY <2>1, <1>5, <1>14
  <2>3. ASSUME NEW j \in DOMAIN todo'
        PROVE  todo'[j] = index'[Len(index') - Len(todo') + j].handle
    <3>1. j + 1 \in DOMAIN todo /\ todo'[j] = todo[j + 1]
      BY <1>8, <1>9
    <3>2. Len(index) - Len(todo) + (j + 1) = Len(index') - Len(todo') + j
      BY <1>5, <1>8, <1>9
    <3> QED BY <3>1, <3>2, <1>5, <1>7
  <2>4. Len(todo') <= Len(index') /\ disk_len' = file_len' /\ pc' = "loading"
    BY <1>2, <1>5, <1>7, <1>8, <1>9
  <2> QED BY <2>2, <2>3, <2>4 DEF LoadOK
<1> QED BY <1>1, <1>4, <1>5, <1>16, <1>17 DEF IInv
-----------------------------------------------------------------------------
LEMMA NextPreservesIInv == IInv /\ [Next]_vars => IInv'
<1> SUFFICES ASSUME IInv, [Next]_vars PROVE IInv'
  OBVIOUS
<1>1. CASE AddEntry
  BY <1>1, AddEntryKeepsIInv
<1>2. CASE FlushTail
  BY <1>2, FlushTailKeepsIInv
<1>3. CASE WriteIndex \/ WriteProperties \/ WriteMetaindex
  BY <1>3, WriteMetaIsMetaWriting, MetaWritingKeepsIInv
<1>4. CASE WriteFooter
  BY <1>4, WriteFooterKeepsIInv
<1>5. CASE SaveFile \/ CrashInSave \/ LoadPanics \/ LoadFails \/ LoadDone
  BY <1>5, QuietKeepsIInv
<1>6. CASE LoadIndex
  BY <1>6, LoadIndexKeepsIInv
<1>7. CASE LoadBlock
  BY <1>7, LoadBlockKeepsIInv
<1>8. CASE Terminated \/ UNCHANGED vars
  <2>1. UNCHANGED <<entries, added, block, block_len, pending_last_key, index, data_size,
                    file, file_len, handles, footer, disk_len, arena, todo, pc>>
    BY <1>8 DEF Terminated, vars, writerVars, fileVars, readerVars
  <2>2. TypeOK'
    BY <2>1 DEF IInv, TypeOK
  <2>3. FileOK' /\ StageOK' /\ MetaOK'
    BY <2>1 DEF IInv, FileOK, BlocksContiguous, EndOf, StageOK, MetaWritten, IsBuilt,
       MetaOK, HandleOf
  <2>4. PICK cut \in [0..Len(index) -> 0..added] : RunsOK(cut) /\ LoadOK(cut)
    BY DEF IInv
  <2>5. RunsOK(cut)' /\ LoadOK(cut)'
    BY <2>1, <2>4 DEF RunsOK, LoadOK
  <2> QED BY <2>1, <2>2, <2>3, <2>4, <2>5 DEF IInv
<1> QED BY <1>1, <1>2, <1>3, <1>4, <1>5, <1>6, <1>7, <1>8 DEF Next

LEMMA InvariantIInv == Spec => []IInv
BY InitEstablishesIInv, NextPreservesIInv, PTL DEF Spec

(* With no block open, the last cut is after the last entry added.         *)
LEMMA LastCut ==
    ASSUME IInv, block = <<>>, NEW cut \in [0..Len(index) -> 0..added], RunsOK(cut)
    PROVE  cut[Len(index)] = added
<1>1. /\ entries \in Seq(Entry) /\ Len(entries) \in Nat /\ Len(index) \in Nat
      /\ added \in 0..Len(entries)
  BY ParametersAssumption DEF IInv, TypeOK
<1>2. cut[Len(index)] \in 0..added
  BY <1>1
<1>3. PICK from \in 0..added : from = cut[Len(index)]
  BY <1>2
<1>4. \A j \in (from + 1)..added : entries[j] \in Entry
  BY <1>1
<1>5. Len(SubSeq(entries, from + 1, added))
          = IF from + 1 <= added THEN added - (from + 1) + 1 ELSE 0
  BY <1>1, <1>4, SubSeqProperties
<1>6. SubSeq(entries, from + 1, added) = <<>>
  BY <1>3 DEF RunsOK
<1>7. ~(from + 1 <= added)
  BY <1>1, <1>5, <1>6
<1> QED BY <1>1, <1>3, <1>7

(* The types are right, and disk_len never exceeds the file: fs::write     *)
(* puts a prefix of the bytes on disk.                                     *)
THEOREM TypeCorrect == Spec => []TypeOK
BY InvariantIInv, PTL DEF IInv

(* Each block starts where the previous one's trailer ends, whatever the   *)
(* sizes and wherever the blocks are cut, and the file ends with the       *)
(* footer.                                                                 *)
THEOREM Contiguous == Spec => []BlocksContiguous
<1>1. IInv => BlocksContiguous
  BY DEF IInv, FileOK
<1> QED BY <1>1, InvariantIInv, PTL

(* The data blocks and the open one hold the entries added, each once and  *)
(* in order, whatever the cuts.                                            *)
THEOREM CutsLoseNothing == Spec => []NoEntryLostAtCut
<1>1. IInv => NoEntryLostAtCut
  <2> SUFFICES ASSUME IInv PROVE NoEntryLostAtCut
    OBVIOUS
  <2>1. PICK cut \in [0..Len(index) -> 0..added] : RunsOK(cut)
    BY DEF IInv
  <2>2. Len(index) \in Nat /\ Len(handles) \in Nat /\ DOMAIN index = 1..Len(index)
    BY DEF IInv, TypeOK
  <2>3. \A n \in DOMAIN index : cut[n - 1] < cut[n]
    BY <2>1, <2>2 DEF RunsOK
  <2>4. Len(index) <= Len(file)
    BY <2>2 DEF IInv, MetaOK
  <2> QED BY <2>1, <2>3, <2>4 DEF IInv, MetaOK, StageOK, RunsOK, NoEntryLostAtCut
<1> QED BY <1>1, InvariantIInv, PTL

(* A point lookup finds every key: the first separator not below it is     *)
(* that of the block between whose cuts it is.                             *)
THEOREM LookupsSucceed == Spec => []PointLookupFindsEveryKey
<1>1. IInv => PointLookupFindsEveryKey
  <2> SUFFICES ASSUME IInv, IsBuilt, NEW i \in DOMAIN entries
               PROVE  \E n \in SeekBlock(entries[i]) :
                          \E p \in DOMAIN file[n].contents : file[n].contents[p] = entries[i]
    BY DEF PointLookupFindsEveryKey
  <2>1. PICK cut \in [0..Len(index) -> 0..added] : RunsOK(cut)
    BY DEF IInv
  <2>2. /\ entries \in Seq(Entry) /\ StrictlyAscending(entries) /\ Len(entries) \in Nat
        /\ Len(index) \in Nat /\ DOMAIN index = 1..Len(index) /\ i \in 1..Len(entries)
    BY ParametersAssumption DEF IInv, TypeOK
  <2>3. added = Len(entries) /\ block = <<>>
    BY DEF IInv, StageOK, IsBuilt
  <2>4. cut[Len(index)] \in 0..added /\ \A n \in 0..Len(index) : cut[n] \in 0..added
    BY <2>1, <2>2
  <2>5. cut[Len(index)] = added
    BY <2>1, <2>3, LastCut
  <2>6. PICK n \in DOMAIN index : cut[n - 1] < i /\ i <= cut[n]
    BY <2>1, <2>2, <2>3, <2>5, SMTT(30) DEF RunsOK
  <2>7. /\ n \in 0..Len(index) /\ n - 1 \in 0..Len(index)
        /\ cut[n] \in 1..Len(entries) /\ cut[n - 1] \in 0..Len(entries)
    <3>1. n \in 0..Len(index) /\ n - 1 \in 0..Len(index)
      BY <2>2
    <3> QED BY <3>1, <2>2, <2>3, <2>4, <2>6
  <2>8. n \in SeekBlock(entries[i])
    <3>1. ~Less(index[n].key, entries[i])
      <4>1. index[n].key = entries[cut[n]]
        BY <2>1 DEF RunsOK
      <4>2. entries[i] \in Entry /\ entries[cut[n]] \in Entry
        BY <2>2, <2>7
      <4>3. CASE i = cut[n]
        BY <4>1, <4>2, <4>3 DEF Less, Entry
      <4>4. CASE i < cut[n]
        <5>1. Less(entries[i], entries[cut[n]])
          BY <4>4, <2>2, <2>7 DEF StrictlyAscending
        <5> QED BY <4>1, <4>2, <5>1 DEF Less, Entry
      <4> QED BY <4>3, <4>4, <2>2, <2>6, <2>7
    <3>2. ASSUME NEW m \in DOMAIN index, m < n PROVE Less(index[m].key, entries[i])
      <4>1. index[m].key = entries[cut[m]] /\ m \in 0..Len(index)
        BY <2>1, <2>2 DEF RunsOK
      <4>2. cut[m] \in 0..added /\ cut[0] = 0 /\ cut[0] < cut[m]
        BY <4>1, <2>1, <2>2, <2>4 DEF RunsOK
      <4>3. m = n - 1 \/ m < n - 1
        BY <3>2, <2>2
      <4>4. cut[m] <= cut[n - 1]
        BY <4>1, <4>2, <4>3, <2>1, <2>7, SMTT(30) DEF RunsOK
      <4>5. cut[m] \in 1..Len(entries) /\ cut[m] < i
        BY <4>2, <4>4, <2>2, <2>3, <2>6, <2>7
      <4> QED BY <4>1, <4>5, <2>2 DEF StrictlyAscending
    <3> QED BY <3>1, <3>2 DEF SeekBlock
  <2>9. /\ i - cut[n - 1] \in DOMAIN file[n].contents
        /\ file[n].contents[i - cut[n - 1]] = entries[i]
    <3>1. file[n].contents = SubSeq(entries, cut[n - 1] + 1, cut[n])
      BY <2>1 DEF RunsOK
    <3>2. \A j \in (cut[n - 1] + 1)..cut[n] : entries[j] \in Entry
      BY <2>2, <2>7
    <3>3. cut[n - 1] + 1 \in Int /\ cut[n] \in Int /\ cut[n - 1] + 1 <= cut[n]
      BY <2>2, <2>6, <2>7
    <3>4. PICK from \in Int, to \in Int : from = cut[n - 1] + 1 /\ to = cut[n]
      BY <3>3
    <3> DEFINE run == SubSeq(entries, from, to)
    <3>5. \A j \in from..to : entries[j] \in Entry
      BY <3>2, <3>4
    <3>6. /\ run \in Seq(Entry)
          /\ Len(run) = IF from <= to THEN to - from + 1 ELSE 0
          /\ \A j \in 1..(to - from + 1) : run[j] = entries[from + j - 1]
      BY <3>5, SubSeqProperties
    <3> HIDE DEF run
    <3>7. /\ i - from + 1 \in 1..(to - from + 1)
          /\ from + (i - from + 1) - 1 = i /\ i - from + 1 = i - cut[n - 1] /\ from <= to
      BY <2>2, <2>6, <2>7, <3>3, <3>4, SMTT(30)
    <3>8. DOMAIN run = 1..(to - from + 1)
      BY <3>6, <3>7
    <3>9. run[i - from + 1] = entries[i]
      BY <3>6, <3>7
    <3> QED BY <3>1, <3>4, <3>7, <3>8, <3>9 DEF run
  <2> QED BY <2>8, <2>9
<1> QED BY <1>1, InvariantIInv, PTL

(* A load that succeeds has the entries that were built, all of them and   *)
(* in order.                                                               *)
THEOREM LoadsWhatWasBuilt == Spec => []LoadedIsBuilt
<1>1. IInv => LoadedIsBuilt
  <2> SUFFICES ASSUME IInv, pc = "loaded" PROVE arena = entries
    BY DEF LoadedIsBuilt
  <2>1. PICK cut \in [0..Len(index) -> 0..added] : RunsOK(cut) /\ LoadOK(cut)
    BY DEF IInv
  <2>2. /\ entries \in Seq(Entry) /\ Len(entries) \in Nat /\ Len(index) \in Nat
    BY ParametersAssumption DEF IInv, TypeOK
  <2>3. added = Len(entries) /\ block = <<>>
    BY DEF IInv, StageOK
  <2>4. arena = SubSeq(entries, 1, cut[Len(index)])
    <3>1. todo = <<>>
      BY <2>1 DEF LoadOK
    <3>2. Len(index) - Len(todo) = Len(index)
      BY <3>1, <2>2
    <3> QED BY <2>1, <3>2 DEF LoadOK
  <2>5. cut[Len(index)] \in 0..added
    BY <2>1, <2>2
  <2>6. cut[Len(index)] = added
    BY <2>1, <2>3, LastCut
  <2> QED BY <2>2, <2>3, <2>4, <2>6, SubSeqFull
<1> QED BY <1>1, InvariantIInv, PTL
=============================================================================
