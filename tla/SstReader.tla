------------------------------ MODULE SstReader -----------------------------
(***************************************************************************)
(* The dump tool (bin/compactor.rs) reading a file with SstReader          *)
(* (sst/mod.rs, io/mod.rs) while compact_files rewrites that file in       *)
(* place: fs::write truncates it and fills it again, piece by piece.  The  *)
(* reader takes the file's size once, at open, and then reads footer,      *)
(* metaindex, index and data blocks with one read_at each; what it reads   *)
(* is whatever is there at that moment.                                    *)
(*                                                                         *)
(* A file is a version of Versions, of which the first file.len bytes are  *)
(* there.  Hash functions are taken as perfect: the stored checksum of a   *)
(* block is its contents with the modifier of its context and offset.      *)
(***************************************************************************)
EXTENDS Integers, SequencesExt

CONSTANTS
    Versions,          \* the files the writers write
    Entries,           \* the entries they hold
    BadKeys,           \* entries whose key internal_key::split refuses
    MaxRewrites,       \* bound on the number of fs::write calls
    Width32,           \* bits of a u32 (32)
    PrintLimit,        \* lines the dump tool prints without --dump-all (20)
    TrailerSize,       \* BLOCK_TRAILER_SIZE (5)
    FooterLen          \* FOOTER_TAIL_LEN (53)

(* A version is [format, context, index, blocks]: its blocks are           *)
(* [name, offset, size, contents], one after the other, the last one being *)
(* the metaindex; then the footer.                                         *)
EndOf(b) == b.offset + b.size + TrailerSize
HandleOf(b) == [offset |-> b.offset, size |-> b.size]
Metaindex(v) == v.blocks[Len(v.blocks)]
FooterOffset(v) == EndOf(Metaindex(v))
FileLen(v) == FooterOffset(v) + FooterLen
BlocksOf(v) == {v.blocks[n] : n \in DOMAIN v.blocks}
IsData(b) == b.name = "data"

None == {}
Some(x) == {x}

(* The data blocks are the first k of the file, and block i is the index:  *)
(* its contents are their handles, in order.                               *)
IndexLists(v, i, k) ==
    /\ v.index = HandleOf(v.blocks[i])
    /\ \A n \in DOMAIN v.blocks : IsData(v.blocks[n]) <=> n <= k
    /\ v.blocks[i].contents = [n \in 1..k |-> HandleOf(v.blocks[n])]

(* The layout of an SST, as SstFile shows it of build_sst's files.  Where  *)
(* the index is says the footer or, since format 6, the metaindex.         *)
IsSst(v) ==
    /\ v.format \in 2..7 /\ v.context \in Nat
    /\ v.format < 6 => v.context = 0
    /\ v.blocks \in Seq(BlocksOf(v)) /\ v.blocks # <<>>
    /\ \A n \in DOMAIN v.blocks :
         /\ v.blocks[n].offset \in Nat /\ v.blocks[n].size \in Nat
         /\ v.blocks[n].offset = IF n = 1 THEN 0 ELSE EndOf(v.blocks[n - 1])
         /\ IsData(v.blocks[n]) => v.blocks[n].contents \in Seq(Entries)
    /\ \E i \in DOMAIN v.blocks, k \in 0..Len(v.blocks) : IndexLists(v, i, k)
    /\ v.format >= 6 => Metaindex(v).contents = Some(v.index)

ASSUME ReaderAssumption ==
    /\ MaxRewrites \in Nat /\ PrintLimit \in Nat
    /\ TrailerSize \in Nat \ {0} /\ FooterLen \in Nat
    /\ \A v \in Versions : IsSst(v)

VARIABLES
    file,          \* the version being or having been written, and its length
    rewrites,      \* fs::write calls so far
    file_size,     \* BlockingFileReader.file_size
    footer,        \* Option<Footer>
    index_handle,  \* where the index is, by footer or metaindex
    handles,       \* data block handles still to be read
    visited,       \* the entries f was called with
    dump_all,      \* the dump tool's --dump-all
    printed,       \* entries printed without --dump-all
    reader_pc             \* the reader's next step, or its exit code

readerVars == <<file_size, footer, index_handle, handles, visited,
                dump_all, printed, reader_pc>>
dumpVars == <<file, rewrites, readerVars>>

DumpInit ==
    /\ \E v \in Versions : file = [version |-> v, len |-> FileLen(v)]
    /\ rewrites = 0
    /\ file_size = 0
    /\ footer = None /\ index_handle = None /\ handles = <<>>
    /\ visited = <<>>
    /\ dump_all \in BOOLEAN /\ printed = 0
    /\ reader_pc = "open"
-----------------------------------------------------------------------------
(* The writer.                                                             *)

(* Opening the output file truncates it.                                   *)
Truncate ==
    /\ rewrites < MaxRewrites
    /\ \E v \in Versions : file' = [version |-> v, len |-> 0]
    /\ rewrites' = rewrites + 1
    /\ UNCHANGED readerVars

(* A write call puts more of the bytes into it.                            *)
WriteBytes ==
    /\ \E len \in (file.len + 1)..FileLen(file.version) : file' = [file EXCEPT !.len = len]
    /\ UNCHANGED <<rewrites, readerVars>>
-----------------------------------------------------------------------------
(* What a read gets.                                                       *)

(* checksum_modifier_for_context: nothing, or context and offset, folded   *)
(* to 32 bits, which exclusive-or keeps apart as long as one of them is    *)
(* fixed.                                                                  *)
ChecksumModifier(context, offset) ==
    IF context = 0 THEN <<>>
    ELSE <<context, ((offset % 2^Width32) + (offset \div 2^Width32)) % 2^Width32>>

(* encode_block_with_trailer, by the version's writer.                     *)
StoredChecksum(v, b) == <<b.contents, ChecksumModifier(v.context, b.offset)>>

(* Mutant, then the original: the context is left out of the check.        *)
ReadBlockContentsNoContext(handle) ==
    {b.contents : b \in {x \in BlocksOf(file.version) :
        /\ HandleOf(x) = handle
        /\ EndOf(x) <= file.len}}

(* read_block_contents: read_exact_at beyond the end of the file fails,    *)
(* and so does the checksum of bytes that are no block, or one of another  *)
(* context.                                                                *)
ReadBlockContents(handle) ==
    {b.contents : b \in {x \in BlocksOf(file.version) :
        /\ HandleOf(x) = handle
        /\ EndOf(x) <= file.len
        /\ \A ft \in footer :
               StoredChecksum(file.version, x)
                   = <<x.contents, ChecksumModifier(ft.context, handle.offset)>>}}

(* Mutant: every footer is taken for one of format 6 or later.             *)
DecodeFooterNewOnly ==
    LET v == file.version
        at == file_size - FooterLen
    IN  IF at # FooterOffset(v) \/ FileLen(v) > file.len THEN None
        ELSE Some([context |-> v.context, index |-> None,
                   metaindex |-> [offset |-> at - TrailerSize - Metaindex(v).size,
                                  size |-> Metaindex(v).size]])

(* decode_footer on the last bytes of what the file was at open.  Before   *)
(* format 6 it holds both handles and no context; since, the metaindex     *)
(* ends where the footer begins.                                           *)
DecodeFooter ==
    LET v == file.version
        at == file_size - FooterLen
    IN  IF at # FooterOffset(v) \/ FileLen(v) > file.len THEN None
        ELSE Some(IF v.format >= 6
                  THEN [context |-> v.context, index |-> None,
                        metaindex |-> [offset |-> at - TrailerSize - Metaindex(v).size,
                                       size |-> Metaindex(v).size]]
                  ELSE [context |-> 0, index |-> Some(v.index),
                        metaindex |-> [offset |-> Metaindex(v).offset,
                                       size |-> Metaindex(v).size]])
-----------------------------------------------------------------------------
(* The reader.                                                             *)

(* io::open: the size is taken once.                                       *)
OpenFile ==
    /\ reader_pc = "open"
    /\ file_size' = file.len
    /\ reader_pc' = "footer"
    /\ UNCHANGED <<file, rewrites, footer, index_handle, handles, visited, dump_all, printed>>

(* read_footer.                                                            *)
ReadFooter ==
    /\ reader_pc = "footer"
    /\ file_size >= FooterLen
    /\ DecodeFooter # None
    /\ footer' = DecodeFooter
    /\ reader_pc' = "metaindex"
    /\ UNCHANGED <<file, rewrites, file_size, index_handle, handles, visited, dump_all, printed>>

(* The rest of SstReader::open.                                            *)
ReadMetaindex ==
    /\ reader_pc = "metaindex"
    /\ \E ft \in footer : \E found \in ReadBlockContents(ft.metaindex) :
         /\ index_handle' = IF ft.index # None THEN ft.index ELSE found
         /\ index_handle' # None
    /\ reader_pc' = "index"
    /\ UNCHANGED <<file, rewrites, file_size, footer, handles, visited, dump_all, printed>>

(* The index block; for_each_entry collects the handles before its first   *)
(* read.                                                                   *)
ReadIndex ==
    /\ reader_pc = "index"
    /\ \E h \in index_handle : \E found \in ReadBlockContents(h) : handles' = found
    /\ reader_pc' = "scan"
    /\ UNCHANGED <<file, rewrites, file_size, footer, index_handle, visited, dump_all, printed>>

(* The callback of the dump tool: a line for every entry up to the limit,  *)
(* not counting those with a bad key.                                      *)
PrintedAfter(entries) ==
    LET lines == printed + Len(SelectSeq(entries, LAMBDA e : e \notin BadKeys))
    IN  IF dump_all THEN printed
        ELSE IF lines < PrintLimit THEN lines ELSE PrintLimit

(* One turn of for_each_entry: a data block, and f on each of its entries. *)
ReadDataBlock ==
    /\ reader_pc = "scan"
    /\ handles # <<>>
    /\ \E found \in ReadBlockContents(Head(handles)) :
         /\ visited' = visited \o found
         /\ printed' = PrintedAfter(found)
    /\ handles' = Tail(handles)
    /\ UNCHANGED <<file, rewrites, file_size, footer, index_handle, dump_all, reader_pc>>

ScanDone ==
    /\ reader_pc = "scan"
    /\ handles = <<>>
    /\ reader_pc' = "exit_0"
    /\ UNCHANGED <<file, rewrites, file_size, footer, index_handle, handles, visited,
                   dump_all, printed>>

(* The read this step needs fails.                                         *)
ReadFails ==
    \/ reader_pc = "footer" /\ (file_size < FooterLen \/ DecodeFooter = None)
    \/ reader_pc = "metaindex" /\ \A ft \in footer :
           \A found \in ReadBlockContents(ft.metaindex) :
               ft.index = None /\ found = None
    \/ reader_pc = "index" /\ \A h \in index_handle : ReadBlockContents(h) = None
    \/ reader_pc = "scan" /\ handles # <<>> /\ ReadBlockContents(Head(handles)) = None

ExitOnError ==
    /\ ReadFails
    /\ reader_pc' = "exit_1"
    /\ UNCHANGED <<file, rewrites, file_size, footer, index_handle, handles, visited,
                   dump_all, printed>>

(* A read that overlaps a write may get bytes of before and after it, and  *)
(* no checksum holds for them.                                             *)
TornRead ==
    /\ reader_pc \in {"footer", "metaindex", "index", "scan"}
    /\ reader_pc = "scan" => handles # <<>>
    /\ file.len < FileLen(file.version)
    /\ \E len \in (file.len + 1)..FileLen(file.version) : file' = [file EXCEPT !.len = len]
    /\ reader_pc' = "exit_1"
    /\ UNCHANGED <<rewrites, file_size, footer, index_handle, handles, visited, dump_all, printed>>

Read ==
    \/ OpenFile \/ ReadFooter \/ ReadMetaindex \/ ReadIndex \/ ReadDataBlock \/ ScanDone
    \/ ExitOnError \/ TornRead

DumpEnded ==
    /\ reader_pc \in {"exit_0", "exit_1"}
    /\ UNCHANGED dumpVars

DumpNext == Truncate \/ WriteBytes \/ Read \/ DumpEnded

(* The runtime resumes the reader; nothing makes a writer go on.           *)
DumpSpec == DumpInit /\ [][DumpNext]_dumpVars /\ WF_dumpVars(Read)
-----------------------------------------------------------------------------
(* The entries of the first n blocks of a file, in file order.             *)
EntriesUpTo(v) ==
    LET upto[n \in 0..Len(v.blocks)] ==
            IF n = 0 THEN <<>>
            ELSE IF IsData(v.blocks[n]) THEN upto[n - 1] \o v.blocks[n].contents
            ELSE upto[n - 1]
    IN  upto

EntriesOf(v) == EntriesUpTo(v)[Len(v.blocks)]

(* No other file has the context of this one.                              *)
ContextIsItsOwn(v) == \A w \in Versions : w.context = v.context => w = v

(* However the file is rewritten in the meantime, what a scan has visited  *)
(* are the first entries of the file whose footer it read, and when it     *)
(* succeeds all of them: no block of another file comes in at an offset    *)
(* the old index names.  This rests on the context: the file must be the   *)
(* only one to have it, as SstBuilderOptions.base_context_checksum         *)
(* documents ("Nonzero random value").  compact_files gives all its files  *)
(* the same one, and of those nothing is promised here.                    *)
ScanIsOneFile ==
    \A ft \in footer : \A v \in Versions :
        v.context = ft.context /\ ContextIsItsOwn(v) =>
            /\ IsPrefix(visited, EntriesOf(v))
            /\ reader_pc = "exit_0" => visited = EntriesOf(v)

(* A complete file that is left alone, of any format, is dumped.           *)
QuietScanSucceeds ==
    (/\ reader_pc = "open" /\ rewrites = MaxRewrites
     /\ file.len = FileLen(file.version)) ~> reader_pc = "exit_0"
=============================================================================
