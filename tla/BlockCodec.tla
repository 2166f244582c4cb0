----------------------------- MODULE BlockCodec -----------------------------
(***************************************************************************)
(* A block from its builder to its reader, byte by byte:                   *)
(* format/block_builder.rs, the metaindex and properties blocks of         *)
(* format/properties.rs, and parse_block, for_each_entry and               *)
(* for_each_index_entry of format/block.rs.  SstFile takes blocks for      *)
(* sequences of entries of some size; this module has what they look like. *)
(*                                                                         *)
(* A block may be cut short before it is parsed: the checksum is there to  *)
(* notice, but the parsers do not rely on it.                              *)
(***************************************************************************)
EXTENDS Varint, FiniteSets

CONSTANTS
    Blocks,       \* the blocks to build: [kind, interval, given]
    TrailerSize   \* BLOCK_TRAILER_SIZE (5)

U64 == 0..(Limit64 - 1)

(* A BlockHandle; its size is below i64::MAX, as both casts to i64 need.   *)
Handle == [offset : U64, size : {s \in U64 : 2 * s < Limit64}]

BytePair == [key : Seq(Byte), val : Seq(Byte)]
HandlePair == [key : Seq(Byte), val : Handle]

PropertiesInput ==
    [num_entries : U64, raw_key_size : U64, raw_value_size : U64,
     data_size : U64, index_size : U64, column_family_id : U64,
     comparator_name : Seq(Byte), column_family_name : Seq(Byte),
     external_sst_global_seqno : {s \in Seq(U64) : Len(s) <= 1}]

(* What build_sst gives the builders: the blocks an index lists follow     *)
(* each other, as BlocksContiguous of SstFile shows, and no two meta       *)
(* blocks have one name.                                                   *)
GivenOK(b) ==
    CASE b.kind = "data" -> b.given \in Seq(BytePair)
      [] b.kind = "index" ->
           /\ b.given \in Seq(HandlePair)
           /\ \A n \in 1..(Len(b.given) - 1) :
                  b.given[n + 1].val.offset =
                      b.given[n].val.offset + b.given[n].val.size + TrailerSize
      [] b.kind = "metaindex" ->
           /\ b.given \in Seq(HandlePair)
           /\ \A n, m \in DOMAIN b.given : b.given[n].key = b.given[m].key => n = m
      [] b.kind = "properties" -> b.given \in PropertiesInput

ASSUME BlocksAssumption ==
    /\ TrailerSize \in Nat
    /\ Group >= 4   \* the names below are made of the bytes 0 to 7
    /\ \A b \in Blocks :
         /\ b.interval \in Nat \ {0}
         /\ b.kind \in {"data", "index", "metaindex", "properties"}
         /\ GivenOK(b)

VARIABLES
    work,         \* the member of Blocks being built
    items,        \* its (key, value) or (key, handle) pairs, in adding order
    added,        \* how many have been added
    buffer, restarts, last_key, last_handle, counter,   \* the builder
    contents,     \* the finished block, as the reader gets it
    parsed,       \* ParsedBlock: the entries' bytes and the restart offsets
    decoder,      \* the reader's position, key_scratch, last_handle and output
    pc

builderVars == <<buffer, restarts, last_key, last_handle, counter>>
vars == <<work, items, added, builderVars, contents, parsed, decoder, pc>>

(* <[u8] as Ord>::cmp is Less.                                             *)
NameLess(a, b) ==
    \E n \in DOMAIN b :
        /\ \A m \in 1..(n - 1) : m \in DOMAIN a /\ a[m] = b[m]
        /\ n \in DOMAIN a => a[n] < b[n]

(* sort_by on names that differ.                                           *)
SortedByName(pairs) ==
    [n \in 1..Cardinality(pairs) |->
        CHOOSE p \in pairs :
            Cardinality({q \in pairs : NameLess(q.key, p.key)}) = n - 1]
-----------------------------------------------------------------------------
(* The names of the properties (properties.rs), with a byte for each part  *)
(* two of them share or differ in: "rocksdb." is 7.                        *)
KEY_INDEX_TYPE == <<7, 0>>
KEY_COLUMN_FAMILY_ID == <<7, 1, 0, 0>>
KEY_COLUMN_FAMILY_NAME == <<7, 1, 0, 1>>
KEY_COMPARATOR == <<7, 1, 1>>
KEY_DATA_SIZE == <<7, 2>>
KEY_EXTERNAL_GLOBAL_SEQNO == <<7, 3, 0>>
KEY_EXTERNAL_VERSION == <<7, 3, 1>>
KEY_INDEX_KEY_IS_USER_KEY == <<7, 4, 0>>
KEY_INDEX_SIZE == <<7, 4, 1>>
KEY_INDEX_VALUE_IS_DELTA_ENCODED == <<7, 4, 2>>
KEY_NUM_ENTRIES == <<7, 5>>
KEY_RAW_KEY_SIZE == <<7, 6, 0>>
KEY_RAW_VALUE_SIZE == <<7, 6, 1>>

INDEX_TYPE_BINARY_SEARCH == 0
EXTERNAL_SST_VERSION == 2

Property(name, value) == [key |-> name, val |-> value]

(* build_properties_block: the pairs, sorted.                              *)
PropertiesPairs(props) ==
    {Property(KEY_INDEX_TYPE, ToLeBytes(INDEX_TYPE_BINARY_SEARCH, FixedLen)),
     Property(KEY_NUM_ENTRIES, PutVarint64(props.num_entries)),
     Property(KEY_RAW_KEY_SIZE, PutVarint64(props.raw_key_size)),
     Property(KEY_RAW_VALUE_SIZE, PutVarint64(props.raw_value_size)),
     Property(KEY_DATA_SIZE, PutVarint64(props.data_size)),
     Property(KEY_INDEX_SIZE, PutVarint64(props.index_size)),
     Property(KEY_INDEX_KEY_IS_USER_KEY, PutVarint64(0)),
     Property(KEY_INDEX_VALUE_IS_DELTA_ENCODED, PutVarint64(1)),
     Property(KEY_COLUMN_FAMILY_ID, PutVarint64(props.column_family_id))}
    \cup (IF props.comparator_name = <<>> THEN {}
          ELSE {Property(KEY_COMPARATOR, props.comparator_name)})
    \cup (IF props.column_family_name = <<>> THEN {}
          ELSE {Property(KEY_COLUMN_FAMILY_NAME, props.column_family_name)})
    \cup UNION {{Property(KEY_EXTERNAL_VERSION,
                          ToLeBytes(EXTERNAL_SST_VERSION, FixedLen)),
                 Property(KEY_EXTERNAL_GLOBAL_SEQNO, ToLeBytes(seqno, 2 * FixedLen))} :
                    seqno \in ToSet(props.external_sst_global_seqno)}

PropertiesItems(props) == SortedByName(PropertiesPairs(props))

EncodedHandle(h) == PutVarint64(h.offset) \o PutVarint64(h.size)

(* build_metaindex_block: the names with their handles, sorted.            *)
MetaindexPairs(pairs) == {Property(p.key, EncodedHandle(p.val)) : p \in ToSet(pairs)}

MetaindexItems(pairs) == SortedByName(MetaindexPairs(pairs))

ItemsOf(b) ==
    CASE b.kind = "properties" -> PropertiesItems(b.given)
      [] b.kind = "metaindex" -> MetaindexItems(b.given)
      [] OTHER -> b.given

(* BlockBuilder::new, IndexBlockBuilder::new.                              *)
Init ==
    /\ work \in Blocks
    /\ items = ItemsOf(work)
    /\ added = 0
    /\ buffer = <<>> /\ restarts = <<0>>
    /\ last_key = <<>> /\ last_handle = None
    /\ counter = 0
    /\ contents = <<>>
    /\ parsed = None /\ decoder = None
    /\ pc = "build"
-----------------------------------------------------------------------------
(* Building.                                                               *)

(* shared_prefix_len: as far as both go and agree.                         *)
SharedPrefixLen(a, b) ==
    CHOOSE n \in 0..Len(a) :
        /\ n <= Len(b)
        /\ \A m \in 1..n : a[m] = b[m]
        /\ n < Len(a) /\ n < Len(b) => a[n + 1] # b[n + 1]

AtRestart == counter >= work.interval

(* Mutant, then the original: an entry at a restart is shortened, too.     *)
SharedEvenAtRestart(key) == SharedPrefixLen(last_key, key)

Shared(key) == IF AtRestart THEN 0 ELSE SharedPrefixLen(last_key, key)

(* The bytes of an entry whose first shared bytes are the last key's; in   *)
(* an index, with the handle whole or as a difference.                     *)
EntryBytes(shared, key, value) ==
    PutVarint32(shared) \o PutVarint32(Len(key) - shared) \o PutVarint32(Len(value))
        \o SubSeq(key, shared + 1, Len(key)) \o value

HandleBytes(shared, prev, handle) ==
    IF shared = 0 THEN EncodedHandle(handle)
    ELSE PutVarsigned64(handle.size - prev.size)

IndexEntryBytes(shared, key, prev, handle) ==
    PutVarint32(shared) \o PutVarint32(Len(key) - shared)
        \o SubSeq(key, shared + 1, Len(key)) \o HandleBytes(shared, prev, handle)

(* What both add methods do with the bytes of an entry.                    *)
Added(key, encoded) ==
    /\ restarts' = IF AtRestart THEN Append(restarts, Len(buffer)) ELSE restarts
    /\ buffer' = buffer \o encoded
    /\ last_key' = key
    /\ counter' = IF AtRestart THEN 1 ELSE counter + 1
    /\ added' = added + 1
    /\ UNCHANGED <<work, items, contents, parsed, decoder, pc>>

(* BlockBuilder::add.                                                      *)
AddEntry ==
    /\ pc = "build" /\ work.kind # "index"
    /\ added < Len(items)
    /\ LET item == items[added + 1]
       IN  Added(item.key, EntryBytes(Shared(item.key), item.key, item.val))
    /\ UNCHANGED last_handle

(* IndexBlockBuilder::add.  At a restart nothing is shared.                *)
AddIndexEntry ==
    /\ pc = "build" /\ work.kind = "index"
    /\ added < Len(items)
    /\ LET item == items[added + 1]
           prev == CHOOSE h \in last_handle : TRUE
       IN  /\ Added(item.key, IndexEntryBytes(Shared(item.key), item.key, prev, item.val))
           /\ last_handle' = Some(item.val)

(* finish: the restart array and its length behind the entries.            *)
RestartArray ==
    [n \in 1..(Len(restarts) * FixedLen) |->
        ToLeBytes(restarts[((n - 1) \div FixedLen) + 1], FixedLen)[((n - 1) % FixedLen) + 1]]

FinishedBlock == buffer \o RestartArray \o ToLeBytes(Len(restarts), FixedLen)

Finish ==
    /\ pc = "build"
    /\ added = Len(items)
    /\ contents' = FinishedBlock
    /\ pc' = "finished"
    /\ UNCHANGED <<work, items, added, builderVars, parsed, decoder>>

CutShort ==
    /\ pc = "finished"
    /\ \E len \in 0..(Len(contents) - 1) : contents' = SubSeq(contents, 1, len)
    /\ pc' = "cut"
    /\ UNCHANGED <<work, items, added, builderVars, parsed, decoder>>
-----------------------------------------------------------------------------
(* Reading.                                                                *)

NumRestarts == FromLeBytes(SubSeq(contents, Len(contents) - FixedLen + 1, Len(contents)))

(* parse_block: the entries and the restart offsets, unless they do not    *)
(* fit.                                                                    *)
ParseBlock ==
    LET start == Len(contents) - FixedLen * (NumRestarts + 1)
        Restart(i) == FromLeBytes(SubSeq(contents, start + i * FixedLen + 1,
                                                   start + (i + 1) * FixedLen))
    IN  IF Len(contents) < FixedLen \/ start < 0 THEN None
        ELSE Some([data |-> SubSeq(contents, 1, start),
                   restarts |-> {Restart(i) : i \in 0..(NumRestarts - 1)}])

StartAt(offset) == [pos |-> offset, key |-> <<>>, handle |-> None, out |-> <<>>]

(* The header both entry formats begin with, and the key it describes,     *)
(* whose bytes start at from.                                              *)
HeaderAt(block, d) ==
    UNION {{[shared |-> s.val, unshared |-> u.val, pos |-> u.pos] :
               u \in GetVarint32(block.data, s.pos)} :
               s \in {t \in GetVarint32(block.data, d.pos) : t.val <= Len(d.key)}}

KeyAt(block, d, h, from) ==
    SubSeq(d.key, 1, h.shared) \o SubSeq(block.data, from + 1, from + h.unshared)

(* One entry of for_each_entry from decoder state d; None for an error.    *)
EntryFrom(block, d) ==
    LET Entry(h, v) ==
            LET key == KeyAt(block, d, h, v.pos)
                at == v.pos + h.unshared
            IN  [pos |-> at + v.val, key |-> key, handle |-> d.handle,
                 out |-> Append(d.out, [key |-> key,
                     val |-> SubSeq(block.data, at + 1, at + v.val)])]
    IN  UNION {{Entry(h, v) :
                   v \in {w \in GetVarint32(block.data, h.pos) :
                             w.pos + h.unshared + w.val <= Len(block.data)}} :
                   h \in HeaderAt(block, d)}

(* Mutant, then the original: the trailer between blocks is forgotten.     *)
NextHandleNoTrailer(prev, delta) ==
    [offset |-> prev.offset + prev.size, size |-> (prev.size + delta) % Limit64]

NextHandle(prev, delta) ==
    [offset |-> prev.offset + prev.size + TrailerSize,
     size |-> (prev.size + delta) % Limit64]

FullHandleAt(data, at) ==
    UNION {{[handle |-> [offset |-> o.val, size |-> s.val], pos |-> s.pos] :
               s \in GetVarint64(data, o.pos)} : o \in GetVarint64(data, at)}

DeltaHandleAt(data, at, last) ==
    UNION {{[handle |-> NextHandle(prev, delta.val), pos |-> delta.pos] :
               delta \in GetVarsigned64(data, at)} : prev \in last}

(* One entry of for_each_index_entry.                                      *)
IndexEntryFrom(block, d) ==
    LET Entry(h, v) ==
            LET key == KeyAt(block, d, h, h.pos)
            IN  [pos |-> v.pos, key |-> key, handle |-> Some(v.handle),
                 out |-> Append(d.out, [key |-> key, val |-> v.handle])]
        Value(h) ==
            IF d.pos \in block.restarts \/ h.shared = 0
            THEN FullHandleAt(block.data, h.pos + h.unshared)
            ELSE DeltaHandleAt(block.data, h.pos + h.unshared, d.handle)
    IN  UNION {{Entry(h, v) : v \in Value(h)} :
                  h \in {k \in HeaderAt(block, d) :
                            k.pos + k.unshared <= Len(block.data)}}

Decoded(block, d) ==
    IF work.kind = "index" THEN IndexEntryFrom(block, d) ELSE EntryFrom(block, d)

Parse ==
    /\ pc \in {"finished", "cut"}
    /\ ParseBlock # None
    /\ parsed' = ParseBlock
    /\ decoder' = Some(StartAt(0))
    /\ pc' = "decode"
    /\ UNCHANGED <<work, items, added, builderVars, contents>>

ParseFails ==
    /\ pc \in {"finished", "cut"}
    /\ ParseBlock = None
    /\ pc' = "err"
    /\ UNCHANGED <<work, items, added, builderVars, contents, parsed, decoder>>

Unread(block, d) == d.pos < Len(block.data)

(* A turn of the loop.                                                     *)
DecodeEntry ==
    /\ pc = "decode"
    /\ \E block \in parsed : \E d \in decoder :
         /\ Unread(block, d)
         /\ \E next \in Decoded(block, d) : decoder' = Some(next)
    /\ UNCHANGED <<work, items, added, builderVars, contents, parsed, pc>>

(* Mutant, then the original: an entry that does not decode is retried.    *)
DecodeFailsRetries ==
    /\ pc = "decode"
    /\ \E block \in parsed : \E d \in decoder :
         Unread(block, d) /\ Decoded(block, d) = None
    /\ UNCHANGED vars

DecodeFails ==
    /\ pc = "decode"
    /\ \E block \in parsed : \E d \in decoder :
         Unread(block, d) /\ Decoded(block, d) = None
    /\ pc' = "err"
    /\ UNCHANGED <<work, items, added, builderVars, contents, parsed, decoder>>

DecodeDone ==
    /\ pc = "decode"
    /\ \E block \in parsed : \E d \in decoder : ~Unread(block, d)
    /\ pc' = "decoded"
    /\ UNCHANGED <<work, items, added, builderVars, contents, parsed, decoder>>

Terminated == pc \in {"decoded", "err"} /\ UNCHANGED vars

Next ==
    \/ AddEntry \/ AddIndexEntry \/ Finish \/ CutShort
    \/ Parse \/ ParseFails \/ DecodeEntry \/ DecodeFails \/ DecodeDone
    \/ Terminated

Spec == Init /\ [][Next]_vars /\ WF_vars(Next)

(* Mutant, then the original: any entry that starts like the name will do. *)
FindMetaHandlePrefix(out, name) ==
    LET matches == {n \in DOMAIN out :
                       IsPrefix(SubSeq(name, 1, 1), out[n].key)
                       /\ FullHandleAt(out[n].val, 0) # None}
    IN  {v.handle : v \in UNION {FullHandleAt(out[n].val, 0) :
            n \in {k \in matches : \A m \in matches : k <= m}}}

(* find_meta_handle: the first entry of that name whose value is a handle. *)
FindMetaHandle(out, name) ==
    LET matches == {n \in DOMAIN out :
                       out[n].key = name /\ FullHandleAt(out[n].val, 0) # None}
    IN  {v.handle : v \in UNION {FullHandleAt(out[n].val, 0) :
            n \in {k \in matches : \A m \in matches : k <= m}}}
-----------------------------------------------------------------------------
Intact == pc # "build" /\ contents = FinishedBlock

(* What the builder casts to u32 is one: the offset of every restart and   *)
(* the number of restarts, and the lengths of keys and values.  Neither    *)
(* builder checks; a block of 4 GiB would not read back.                   *)
FitsU32 ==
    /\ Len(restarts) < Limit32
    /\ \A k \in DOMAIN restarts : restarts[k] < Limit32
    /\ \A n \in DOMAIN items :
         /\ Len(items[n].key) < Limit32
         /\ work.kind # "index" => Len(items[n].val) < Limit32

(* A block that arrives whole reads back just as it was added, entry for   *)
(* entry: every shared prefix is taken from the key it was taken off, and  *)
(* every handle is the one added, whether it was written whole or as a     *)
(* difference to its predecessor's size.                                   *)
ReadsBack ==
    Intact /\ FitsU32 =>
        /\ pc # "err"
        /\ \A d \in decoder : d.out = SubSeq(items, 1, Len(d.out))
        /\ pc = "decoded" => \A d \in decoder : d.out = items

(* What a decoder that starts at a position in the block comes to, without *)
(* any key or handle from before, in at most as many turns as there are    *)
(* items.                                                                  *)
WalkFrom(block, offset) ==
    LET after[n \in 0..Len(items)] ==
            IF n = 0 THEN Some(StartAt(offset))
            ELSE UNION {IF Unread(block, d) THEN Decoded(block, d) ELSE Some(d) :
                           d \in after[n - 1]}
    IN  after[Len(items)]

(* RocksDB seeks by binary search over the restart points; the readers     *)
(* here walk from the front and never notice a wrong one.  Decoding can    *)
(* start at any of them and gets the entries from there on, and there is   *)
(* one for every interval's worth of entries, as SstFile counts them.      *)
SeekFromAnyRestart ==
    Intact /\ FitsU32 =>
        /\ Len(restarts) = IF items = <<>> THEN 1
                           ELSE 1 + (Len(items) - 1) \div work.interval
        /\ ParseBlock # None
        /\ \A k \in DOMAIN restarts : \A block \in ParseBlock :
               {d.out : d \in WalkFrom(block, restarts[k])}
                   = {SubSeq(items, (k - 1) * work.interval + 1, Len(items))}

(* Of the meta blocks, whose callers list names in any order, the builder  *)
(* gets the strictly ascending names add requires; a name put into the     *)
(* metaindex leads the reader to its block, and every size in the          *)
(* properties reads back as the number it was.                             *)
MetaBlocksReadBack ==
    pc = "decoded" /\ Intact /\ FitsU32 => \A d \in decoder :
        /\ work.kind \in {"metaindex", "properties"} =>
               \A n \in 1..(Len(d.out) - 1) :
                   NameLess(d.out[n].key, d.out[n + 1].key)
        /\ work.kind = "metaindex" =>
               \A p \in ToSet(work.given) :
                   FindMetaHandle(d.out, p.key) = Some(p.val)
        /\ work.kind = "properties" =>
               \A p \in {<<KEY_NUM_ENTRIES, work.given.num_entries>>,
                         <<KEY_DATA_SIZE, work.given.data_size>>,
                         <<KEY_INDEX_SIZE, work.given.index_size>>,
                         <<KEY_RAW_KEY_SIZE, work.given.raw_key_size>>,
                         <<KEY_RAW_VALUE_SIZE, work.given.raw_value_size>>} :
                   \E n \in DOMAIN d.out :
                       /\ d.out[n].key = p[1]
                       /\ p[2] \in {v.val : v \in GetVarint64(d.out[n].val, 0)}

(* The readers come to an end on any block, cut short or not.              *)
Returns == <>(pc \in {"decoded", "err"})
=============================================================================
