---- MODULE MCCompactFiles ----
EXTENDS CompactFiles, MergeInputs

(* A key that "a" deletes and "b" still has, one they both have, and one   *)
(* that "a" has over a tombstone of "b".                                   *)
FileA == Complete(<<MakeEntry(1, 2, TypeDeletion, 0), MakeEntry(2, 1, TypeValue, 21),
                    MakeEntry(3, 2, TypeValue, 32)>>)
FileB == Complete(<<MakeEntry(1, 1, TypeValue, 11), MakeEntry(2, 2, TypeValue, 22),
                    MakeEntry(3, 1, TypeDeletion, 0)>>)
OldOutput == Complete(<<MakeEntry(4, 1, TypeValue, 41)>>)

AllDisks ==
    [{"a"} -> {FileA}] \X [{"b"} -> {FileB, Absent, Partial("short"), Partial("torn")}]
        \X [{"out"} -> {Absent, OldOutput}]

SomeDisks == {d[1] @@ d[2] @@ d[3] : d \in AllDisks}

SomeCalls ==
    [form : {"paths", "list"}, for_ingest : BOOLEAN, output : {"out", "a"},
     inputs : {<<"a", "b">>, <<"b", "a", "b">>}]
    \cup {[form |-> f, for_ingest |-> FALSE, output |-> "out", inputs |-> <<>>] :
             f \in {"list", "too_few", "list_unreadable"}}
====
