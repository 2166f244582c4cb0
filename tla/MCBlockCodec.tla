---- MODULE MCBlockCodec ----
EXTENDS BlockCodec

(* Keys in order; prefixes of each other, alike or with nothing in common. *)
Keys == <<<<1>>, <<1, 0, 5>>, <<1, 0, 6, 2>>, <<2, 0, 0, 0, 0>>>>
Values == <<<<>>, <<3>>, <<7, 7, 7, 7, 7>>, <<0>>>>

(* Every choice of the keys, in order.                                     *)
KeyChoices == {SetToSortSeq(s, <) : s \in SUBSET (1..4)}

DataItems(c) == [n \in DOMAIN c |-> [key |-> Keys[c[n]], val |-> Values[c[n]]]]

(* Handles of blocks that follow each other, of the given sizes.           *)
IndexItems(c, sizes) ==
    [n \in DOMAIN c |->
        [key |-> Keys[c[n]],
         val |-> [offset |-> FoldLeft(LAMBDA acc, s : acc + s + TrailerSize, 0,
                                      SubSeq(sizes, 1, n - 1)),
                  size |-> sizes[n]]]]

UsizeMax == 1000

Props(external) ==
    [num_entries |-> 6, raw_key_size |-> 17, raw_value_size |-> 0,
     data_size |-> 70, index_size |-> 4, column_family_id |-> 0,
     comparator_name |-> IF external = <<>> THEN <<>> ELSE <<2>>,
     column_family_name |-> IF external = <<>> THEN <<>> ELSE <<3, 1>>,
     external_sst_global_seqno |-> external]

MetaPairs == {<<[key |-> <<7, 6, 1>>, val |-> [offset |-> 40, size |-> 3]],
                [key |-> <<7, 4>>, val |-> [offset |-> 17, size |-> 18]]>>,
              <<>>}

AllBlocks ==
    {[kind |-> "data", interval |-> i, given |-> DataItems(c)] :
        i \in {1, 2, 3}, c \in KeyChoices}
    \cup UNION {{[kind |-> "index", interval |-> i, given |-> IndexItems(c, sizes)] :
                    i \in {1, 2, 3}, sizes \in [DOMAIN c -> {1, 9}]} : c \in KeyChoices}
    \cup {[kind |-> "metaindex", interval |-> 1, given |-> pairs] : pairs \in MetaPairs}
    \cup {[kind |-> "properties", interval |-> UsizeMax, given |-> Props(external)] :
        external \in {<<>>, <<0>>}}
====
