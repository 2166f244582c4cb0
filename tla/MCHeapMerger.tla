---- MODULE MCHeapMerger ----
EXTENDS HeapMerger, MergeInputs
====
