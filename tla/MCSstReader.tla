---- MODULE MCSstReader ----
EXTENDS SstReader

Block(name, after, size, contents) ==
    [name |-> name, offset |-> after, size |-> size, contents |-> contents]

(* A file of two data blocks of sizes 3 and size2.                         *)
File(format, context, size2, entries1, entries2) ==
    LET data1 == Block("data", 0, 3, entries1)
        data2 == Block("data", EndOf(data1), size2, entries2)
        index == Block("index", EndOf(data2), 2, <<HandleOf(data1), HandleOf(data2)>>)
        metaindex == Block("metaindex", EndOf(index), 2,
                           IF format < 6 THEN {} ELSE {HandleOf(index)})
    IN  [format |-> format, context |-> context, index |-> HandleOf(index),
         blocks |-> <<data1, data2, index, metaindex>>]

(* Two files of one layout, a longer one, one of an older format, and two *)
(* as compact_files writes them, with one context.                         *)
SomeFiles == {
    File(7, 1, 2, <<"a1", "a2">>, <<"a3">>), File(7, 2, 2, <<"b1">>, <<"bad", "b3">>),
    File(6, 3, 4, <<"c1">>, <<"c2">>), File(5, 0, 2, <<"d1">>, <<"d2">>),
    File(7, 4, 2, <<"e1">>, <<"e2">>), File(7, 4, 2, <<"f1">>, <<"f2">>)}

SomeEntries == {"a1", "a2", "a3", "b1", "bad", "b3", "c1", "c2", "d1", "d2", "e1", "e2",
                "f1", "f2"}
====
