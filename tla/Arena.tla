-------------------------------- MODULE Arena -------------------------------
(***************************************************************************)
(* ArenaSourceBuilder and ArenaSource (merge/source.rs), byte by byte: one *)
(* buffer for all keys and values, and a span of 32-bit offsets for every  *)
(* entry.  MergeSource takes a source to hand back the entries that were   *)
(* pushed; this module says for which entries it does.                     *)
(*                                                                         *)
(* U32Range stands for 2^32, so that arenas of that many bytes can be      *)
(* reached.  A byte is a token.                                            *)
(***************************************************************************)
EXTENDS Integers, Sequences

CONSTANTS
    EntrySeqs,       \* the sequences of [key, val] pushed into a builder
    U32Range,        \* how many values the fields of an EntrySpan have (2^32)
    OverflowChecks   \* builds: TRUE where u32 addition panics on overflow

ByteEntry == [key : Seq(Nat), val : Seq(Nat)]

ASSUME ArenaAssumption ==
    /\ EntrySeqs \subseteq Seq(ByteEntry)
    /\ U32Range \in Nat \ {0}
    /\ OverflowChecks \subseteq BOOLEAN

VARIABLES
    input,           \* the entries to push, in key order
    checked,         \* whether this build checks for overflow
    arena, spans,    \* the buffer, and one EntrySpan per entry pushed
    ends,            \* history: where the bytes of each entry end in arena
    pos, end,        \* the window of the source, once built
    read,            \* history: the entries peek returned
    phase            \* "build", "read", "done" or "panic"

arenaVars == <<input, checked, arena, spans, ends, pos, end, read, phase>>

ArenaInit ==
    /\ input \in EntrySeqs
    /\ checked \in OverflowChecks
    /\ arena = <<>> /\ spans = <<>> /\ ends = <<>>
    /\ pos = 0 /\ end = 0
    /\ read = <<>>
    /\ phase = "build"

(* `as u32`.                                                               *)
AsU32(n) == n % U32Range

(* Mutant: the value's offset is taken before the key is copied.           *)
SpanBeforeKey(len, e) ==
    [key_off |-> AsU32(len), key_len |-> AsU32(Len(e.key)),
     val_off |-> AsU32(len), val_len |-> AsU32(Len(e.val))]

(* The span of an entry pushed into an arena of len bytes.                 *)
SpanOf(len, e) ==
    [key_off |-> AsU32(len), key_len |-> AsU32(Len(e.key)),
     val_off |-> AsU32(len + Len(e.key)), val_len |-> AsU32(Len(e.val))]

(* ArenaSourceBuilder::push.                                               *)
Push ==
    /\ phase = "build"
    /\ Len(spans) < Len(input)
    /\ LET e == input[Len(spans) + 1]
       IN  /\ arena' = arena \o e.key \o e.val
           /\ spans' = Append(spans, SpanOf(Len(arena), e))
           /\ ends' = Append(ends, Len(arena'))
    /\ UNCHANGED <<input, checked, pos, end, read, phase>>

(* ArenaSourceBuilder::build: the window is the whole source.              *)
Build ==
    /\ phase = "build"
    /\ Len(spans) = Len(input)
    /\ end' = Len(spans)
    /\ phase' = "read"
    /\ UNCHANGED <<input, checked, arena, spans, ends, pos, read>>

(* ArenaSource::shard: the same arena and spans behind another window.     *)
Shard(start, end_idx) ==
    /\ phase = "read"
    /\ read = <<>> /\ pos = 0 /\ end = Len(spans)
    /\ start <= end_idx
    /\ pos' = start /\ end' = end_idx
    /\ UNCHANGED <<input, checked, arena, spans, ends, read, phase>>

(* &arena[off..(off + len)], the sum taken in u32: it wraps or, in a build *)
(* with overflow checks, panics; a slice that runs backwards or over the   *)
(* end of the arena panics too.                                            *)
SliceEnd(off, len) == AsU32(off + len)

SliceOK(off, len) ==
    /\ checked => off + len < U32Range
    /\ off <= SliceEnd(off, len)
    /\ SliceEnd(off, len) <= Len(arena)

Slice(off, len) == SubSeq(arena, off + 1, SliceEnd(off, len))

SpanOK(span) == /\ SliceOK(span.key_off, span.key_len)
                /\ SliceOK(span.val_off, span.val_len)

(* The (key, value) pair of a span: ArenaSource::key and ArenaSource::val. *)
EntryAt(span) == [key |-> Slice(span.key_off, span.key_len),
                  val |-> Slice(span.val_off, span.val_len)]

(* peek is Some.                                                           *)
HasFront == pos < end /\ pos < Len(spans)

(* peek, then advance.                                                     *)
Read ==
    /\ phase = "read"
    /\ HasFront
    /\ SpanOK(spans[pos + 1])
    /\ read' = Append(read, EntryAt(spans[pos + 1]))
    /\ pos' = pos + 1
    /\ UNCHANGED <<input, checked, arena, spans, ends, end, phase>>

ReadPanics ==
    /\ phase = "read"
    /\ HasFront
    /\ ~SpanOK(spans[pos + 1])
    /\ phase' = "panic"
    /\ UNCHANGED <<input, checked, arena, spans, ends, pos, end, read>>

(* peek is None.                                                           *)
ReadDone ==
    /\ phase = "read"
    /\ ~HasFront
    /\ phase' = "done"
    /\ UNCHANGED <<input, checked, arena, spans, ends, pos, end, read>>

ArenaDone == phase \in {"done", "panic"} /\ UNCHANGED arenaVars

ArenaNext ==
    \/ Push \/ Build
    \/ \E start, end_idx \in 0..Len(spans) : Shard(start, end_idx)
    \/ Read \/ ReadPanics \/ ReadDone
    \/ ArenaDone

ArenaSpec == ArenaInit /\ [][ArenaNext]_arenaVars
-----------------------------------------------------------------------------
Span == [key_off : Nat, key_len : Nat, val_off : Nat, val_len : Nat]

ArenaTypeOK ==
    /\ input \in Seq(ByteEntry) /\ checked \in BOOLEAN
    /\ arena \in Seq(Nat) /\ spans \in Seq(Span)
    /\ Len(spans) <= Len(input)
    /\ ends \in Seq(Nat) /\ Len(ends) = Len(spans)
    /\ pos \in Nat /\ end \in 0..Len(spans) /\ pos <= end
    /\ read \in Seq(ByteEntry) /\ Len(read) <= pos
    /\ phase \in {"build", "read", "done", "panic"}

(* However large the arena is, an entry whose bytes end below 2^32 is read *)
(* back as it was pushed, whatever the lengths of keys and values, empty   *)
(* ones included, and through every window shard can cut; and what panics  *)
(* is an entry that ends at 2^32 or beyond.  The bound is exact: a         *)
(* non-empty slice that ends at 2^32 is already lost, and one behind it    *)
(* may panic or give back the bytes of other entries.                      *)
EntriesBelowRangeReadBack ==
    /\ \A n \in DOMAIN read :
           LET m == pos - Len(read) + n
           IN  ends[m] < U32Range => read[n] = input[m]
    /\ phase = "panic" => ends[pos + 1] >= U32Range
=============================================================================
