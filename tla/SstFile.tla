------------------------------- MODULE SstFile ------------------------------
(***************************************************************************)
(* An SST file from build_sst to disk and back: format/sst_builder.rs lays *)
(* the blocks out, bin/compact_files.rs writes the bytes with one          *)
(* fs::write, and load_arena_source (compaction/mod.rs) reads them again.  *)
(*                                                                         *)
(* A file is a sequence of blocks with offset, size and contents, followed *)
(* by a footer.  Bytes are counted, not spelled out: how many bytes an     *)
(* entry takes after prefix compression is open, within EntrySizes.  The   *)
(* checksum of a block (content, and an offset-dependent modifier) is      *)
(* taken as perfect: a read succeeds exactly where a block was written.    *)
(***************************************************************************)
EXTENDS InternalKeys

CONSTANTS
    EntrySeqs,       \* the sorted entries handed to build_sst
    EntrySizes,      \* bytes BlockBuilder::add may append for one entry
    MetaSizes,       \* raw sizes of index, properties and metaindex blocks
    RestartInterval, \* DATA_BLOCK_RESTART_INTERVAL (16)
    TargetBlockSize  \* TARGET_BLOCK_SIZE (4096)

ASSUME ParametersAssumption ==
    /\ \A s \in EntrySeqs : s \in Seq(Entry) /\ StrictlyAscending(s)
    /\ EntrySizes \subseteq Nat \ {0} /\ MetaSizes \subseteq Nat \ {0}
    /\ RestartInterval \in Nat \ {0} /\ TargetBlockSize \in Nat

VARIABLES
    entries,         \* what build_sst was called with
    added,           \* how many of them have been added to a block
    block, block_len,\* block_builder: its entries and the bytes of its buffer
    pending_last_key,\* Option<key>: the last entry of the open block
    file, file_len,  \* the blocks written so far and their total length
    index,           \* index_builder: the (separator, handle) pairs
    data_size,       \* length of the data blocks, for the properties
    handles,         \* of "index", "properties" and "metaindex", once written
    footer,          \* the metaindex size the footer records, 0 before
    disk_len,        \* how much of the file fs::write has put on disk
    arena,           \* load_arena_source: the entries pushed so far
    todo,            \* load_arena_source: data block handles still to read
    pc

writerVars == <<entries, added, block, block_len, pending_last_key, index,
                data_size>>
fileVars == <<file, file_len, handles, footer>>
readerVars == <<arena, todo>>
vars == <<writerVars, fileVars, disk_len, readerVars, pc>>

None == <<>>
Some(x) == <<x>>

BLOCK_TRAILER_SIZE == 5
FOOTER_TAIL_LEN == 53

Init ==
    /\ entries \in EntrySeqs
    /\ added = 0
    /\ block = <<>> /\ block_len = 0
    /\ pending_last_key = None
    /\ file = <<>> /\ file_len = 0
    /\ index = <<>>
    /\ data_size = 0
    /\ handles = <<>>
    /\ footer = 0
    /\ disk_len = 0
    /\ arena = <<>> /\ todo = <<>>
    /\ pc = "entries"
-----------------------------------------------------------------------------
(* build_sst.                                                              *)

(* BlockBuilder::current_size_estimate, which is also the size finish      *)
(* returns: the buffer, four bytes per restart point and four for their    *)
(* number.                                                                 *)
Restarts(n) == IF n = 0 THEN 1 ELSE 1 + (n - 1) \div RestartInterval
SizeEstimate(n, len) == len + 4 * Restarts(n) + 4

(* encode_block_with_trailer and file.extend_from_slice.                   *)
BlockRecord(kind, size, contents) ==
    [kind |-> kind, offset |-> file_len, size |-> size, contents |-> contents]

HandleOf(b) == [offset |-> b.offset, size |-> b.size]

(* Where a block's trailer ends.                                           *)
EndOf(b) == b.offset + b.size + BLOCK_TRAILER_SIZE

(* Mutant, then the original: the trailer is not counted.                  *)
AppendBlockOnly(b) ==
    /\ file' = Append(file, b)
    /\ file_len' = file_len + b.size

AppendBlock(b) ==
    /\ file' = Append(file, b)
    /\ file_len' = file_len + b.size + BLOCK_TRAILER_SIZE

(* Mutant: the separator is the first key of the block.                    *)
FlushUnderFirstKey(contents, len, last_key) ==
    LET b == BlockRecord("data", SizeEstimate(Len(contents), len), contents)
    IN  /\ AppendBlock(b)
        /\ index' = Append(index, [key |-> contents[1], handle |-> HandleOf(b)])

(* flush_data_block: the block, and its index entry under its last key.    *)
FlushDataBlock(contents, len, last_key) ==
    LET b == BlockRecord("data", SizeEstimate(Len(contents), len), contents)
    IN  /\ AppendBlock(b)
        /\ index' = Append(index, [key |-> last_key, handle |-> HandleOf(b)])

(* The test that cuts a block.                                             *)
CutsBlock(n, len) == SizeEstimate(n, len) >= TargetBlockSize

(* One turn of the loop over the entries.                                  *)
AddEntry ==
    /\ pc = "entries"
    /\ added < Len(entries)
    /\ LET e == entries[added + 1] IN
       \E size \in EntrySizes :
         LET grown == Append(block, e)
             len == block_len + size
         IN  IF CutsBlock(Len(grown), len)
             THEN /\ FlushDataBlock(grown, len, e)
                  /\ block' = <<>> /\ block_len' = 0
                  /\ pending_last_key' = None
             ELSE /\ block' = grown /\ block_len' = len
                  /\ pending_last_key' = Some(e)
                  /\ UNCHANGED <<file, file_len, index>>
    /\ added' = added + 1
    /\ UNCHANGED <<entries, data_size, handles, footer, disk_len, readerVars, pc>>

(* Mutant: the block still open is forgotten.                              *)
FlushTailForgotten ==
    /\ pc = "entries"
    /\ added = Len(entries)
    /\ block' = <<>> /\ block_len' = 0
    /\ pending_last_key' = None
    /\ data_size' = file_len
    /\ pc' = "index"
    /\ UNCHANGED <<entries, added, file, file_len, index, handles, footer,
                   disk_len, readerVars>>

(* After the loop: the block still open is flushed.                        *)
FlushTail ==
    /\ pc = "entries"
    /\ added = Len(entries)
    /\ IF pending_last_key # None
       THEN FlushDataBlock(block, block_len, pending_last_key[1])
       ELSE UNCHANGED <<file, file_len, index>>
    /\ block' = <<>> /\ block_len' = 0
    /\ pending_last_key' = None
    /\ data_size' = file_len'
    /\ pc' = "index"
    /\ UNCHANGED <<entries, added, handles, footer, disk_len, readerVars>>

(* The index, properties and metaindex blocks, each after the one before.  *)
WriteMetaBlock(kind, contents, next) ==
    /\ \E size \in MetaSizes :
         LET b == BlockRecord(kind, size, contents)
         IN  /\ AppendBlock(b)
             /\ handles' = Append(handles, HandleOf(b))
    /\ pc' = next
    /\ UNCHANGED <<writerVars, footer, disk_len, readerVars>>

WriteIndex == pc = "index" /\ WriteMetaBlock("index", index, "properties")

WriteProperties ==
    /\ pc = "properties"
    /\ WriteMetaBlock("properties",
           [num_entries |-> Len(entries), data_size |-> data_size,
            index_size |-> handles[1].size], "metaindex")

WriteMetaindex ==
    /\ pc = "metaindex"
    /\ WriteMetaBlock("metaindex",
           [index |-> handles[1], properties |-> handles[2]], "footer")

(* encode_footer_v6_plus: the footer records the metaindex's size only.    *)
WriteFooter ==
    /\ pc = "footer"
    /\ footer' = handles[3].size
    /\ file_len' = file_len + FOOTER_TAIL_LEN
    /\ pc' = "built"
    /\ UNCHANGED <<writerVars, file, handles, disk_len, readerVars>>
-----------------------------------------------------------------------------
(* Mutant: the footer is counted twice.                                    *)
SaveFileFooterTwice ==
    /\ pc = "built"
    /\ disk_len' = file_len + FOOTER_TAIL_LEN
    /\ pc' = "saved"
    /\ UNCHANGED <<writerVars, fileVars, readerVars>>

(* fs::write puts the bytes into the output file; if the process dies in   *)
(* it, some prefix is there.                                               *)
SaveFile ==
    /\ pc = "built"
    /\ disk_len' = file_len
    /\ pc' = "saved"
    /\ UNCHANGED <<writerVars, fileVars, readerVars>>

CrashInSave ==
    /\ pc = "built"
    /\ disk_len' \in 0..(file_len - 1)
    /\ pc' = "saved"
    /\ UNCHANGED <<writerVars, fileVars, readerVars>>
-----------------------------------------------------------------------------
(* load_arena_source on what is on disk.                                   *)

(* decode_block_in_memory: the block at this handle, if the file has it.   *)
BlockAt(handle) ==
    {b \in {file[n] : n \in DOMAIN file} :
        /\ HandleOf(b) = handle
        /\ EndOf(b) <= disk_len}

(* The last 53 bytes are the footer build_sst wrote.  The checks of        *)
(* decode_footer (magic number, version, checksum) are taken to accept     *)
(* nothing else, whatever a file that was cut short ends in.               *)
FooterAtTail == disk_len = file_len

(* Mutant: the metaindex block's trailer is forgotten.                     *)
MetaindexHandleNoTrailer ==
    [offset |-> disk_len - FOOTER_TAIL_LEN - footer, size |-> footer]

(* decode_footer: the metaindex ends right before the footer.              *)
MetaindexHandle ==
    [offset |-> disk_len - FOOTER_TAIL_LEN - BLOCK_TRAILER_SIZE - footer,
     size |-> footer]

IndexContents(metaindex) ==
    UNION {{b.contents} : b \in BlockAt(metaindex.contents.index)}

(* Slicing the tail off a file shorter than the footer panics.             *)
LoadPanics ==
    /\ pc = "saved"
    /\ disk_len < FOOTER_TAIL_LEN
    /\ pc' = "panic"
    /\ UNCHANGED <<writerVars, fileVars, disk_len, readerVars>>

(* Footer, metaindex, index; the handles of the data blocks are collected. *)
LoadIndex ==
    /\ pc = "saved"
    /\ disk_len >= FOOTER_TAIL_LEN
    /\ FooterAtTail
    /\ \E metaindex \in BlockAt(MetaindexHandle) :
       \E found \in IndexContents(metaindex) :
           todo' = [n \in DOMAIN found |-> found[n].handle]
    /\ pc' = "loading"
    /\ UNCHANGED <<writerVars, fileVars, disk_len, arena>>

(* Any of the reads that LoadIndex needs fails: bad magic, or a block out  *)
(* of bounds or with a wrong checksum.                                     *)
LoadFails ==
    /\ pc = "saved"
    /\ disk_len >= FOOTER_TAIL_LEN
    /\ ~(/\ FooterAtTail
         /\ \E metaindex \in BlockAt(MetaindexHandle) :
                IndexContents(metaindex) # {})
    /\ pc' = "err"
    /\ UNCHANGED <<writerVars, fileVars, disk_len, readerVars>>

(* One data block into the arena.                                          *)
LoadBlock ==
    /\ pc = "loading"
    /\ todo # <<>>
    /\ \E b \in BlockAt(Head(todo)) : arena' = arena \o b.contents
    /\ todo' = Tail(todo)
    /\ UNCHANGED <<writerVars, fileVars, disk_len, pc>>

(* Mutant, then the original: the last data block is not read.             *)
LoadDoneEarly ==
    /\ pc = "loading"
    /\ Len(todo) <= 1
    /\ pc' = "loaded"
    /\ UNCHANGED <<writerVars, fileVars, disk_len, readerVars>>

LoadDone ==
    /\ pc = "loading"
    /\ todo = <<>>
    /\ pc' = "loaded"
    /\ UNCHANGED <<writerVars, fileVars, disk_len, readerVars>>

Terminated == pc \in {"loaded", "err", "panic"} /\ UNCHANGED vars

Next ==
    \/ AddEntry \/ FlushTail
    \/ WriteIndex \/ WriteProperties \/ WriteMetaindex \/ WriteFooter
    \/ SaveFile \/ CrashInSave
    \/ LoadPanics \/ LoadIndex \/ LoadFails \/ LoadBlock \/ LoadDone
    \/ Terminated

Spec == Init /\ [][Next]_vars /\ WF_vars(Next)
-----------------------------------------------------------------------------
HandleType == [offset : Nat, size : Nat]

TypeOK ==
    /\ entries \in EntrySeqs /\ added \in 0..Len(entries)
    /\ block \in Seq(Entry) /\ block_len \in Nat
    /\ pending_last_key \in Seq(Entry) /\ Len(pending_last_key) <= 1
    /\ file_len \in Nat /\ disk_len \in 0..file_len /\ data_size \in Nat
    /\ index \in Seq([key : Entry, handle : HandleType])
    /\ handles \in Seq(HandleType) /\ footer \in Nat
    /\ arena \in Seq(Entry) /\ todo \in Seq(HandleType)

IsBuilt == pc \notin {"entries", "index", "properties", "metaindex", "footer"}

(* Where RocksDB looks for a key: in the first block whose separator is    *)
(* not below it (described in build_sst; the seek itself is RocksDB's).    *)
SeekBlock(e) ==
    {n \in DOMAIN index :
        /\ ~Less(index[n].key, e)
        /\ \A m \in DOMAIN index : m < n => Less(index[m].key, e)}

(* A point lookup finds every key of the file: the block the index sends   *)
(* it to is the one that holds the entry.                                  *)
PointLookupFindsEveryKey ==
    IsBuilt =>
        \A i \in DOMAIN entries : \E n \in SeekBlock(entries[i]) :
            \E p \in DOMAIN file[n].contents : file[n].contents[p] = entries[i]

(* Each block starts where the previous one's trailer ends, as the size    *)
(* deltas of index handles and the footer's way to find the metaindex      *)
(* assume, and the file is just that long.                                 *)
BlocksContiguous ==
    /\ \A n \in DOMAIN file :
           file[n].offset = IF n = 1 THEN 0 ELSE EndOf(file[n - 1])
    /\ IsBuilt => file_len = EndOf(file[Len(file)]) + FOOTER_TAIL_LEN

(* No cut between two blocks loses or repeats an entry.  The data blocks   *)
(* come first in the file, none of them empty, each has its index entry,   *)
(* and they and the open block hold the entries added, cut into            *)
(* consecutive runs: block n those after cut[n - 1] up to cut[n].          *)
NoEntryLostAtCut ==
    /\ Len(index) <= Len(file)
    /\ \A n \in DOMAIN file : file[n].kind = "data" <=> n \in DOMAIN index
    /\ \A n \in DOMAIN index : index[n].handle = HandleOf(file[n])
    /\ \E cut \in [0..Len(index) -> 0..added] :
         /\ cut[0] = 0
         /\ \A n \in DOMAIN index :
              /\ cut[n - 1] < cut[n]
              /\ file[n].contents = SubSeq(entries, cut[n - 1] + 1, cut[n])
         /\ block = SubSeq(entries, cut[Len(index)] + 1, added)
    /\ pc # "entries" => block = <<>>

(* What is loaded is what was built, entry by entry and in order, through  *)
(* the footer's arithmetic, the metaindex, the index and every block.  A   *)
(* file cut short by a crash has no footer to start from: that is assumed  *)
(* (FooterAtTail), not shown.                                              *)
LoadedIsBuilt == pc = "loaded" => arena = entries

(* A complete file loads: the metaindex is where the footer's arithmetic   *)
(* says, and every handle finds its block.                                 *)
CompleteFileLoads == pc = "saved" /\ disk_len = file_len ~> pc = "loaded"
=============================================================================
