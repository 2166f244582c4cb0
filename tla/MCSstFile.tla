---- MODULE MCSstFile ----
EXTENDS SstFile, MergeInputs

FileEntries == <<
    MakeEntry(1, 2, TypeValue, 12), MakeEntry(1, 1, TypeValue, 11),
    MakeEntry(2, 2, TypeDeletion, 0), MakeEntry(3, 1, TypeValue, 31)>>

(* Empty to four entries: from no data block to four of them.              *)
FilePrefixes == {SubSeq(FileEntries, 1, n) : n \in 0..4}
====
