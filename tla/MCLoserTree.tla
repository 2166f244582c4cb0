---- MODULE MCLoserTree ----
EXTENDS LoserTree, MergeInputs
====
