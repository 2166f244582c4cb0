---- MODULE MCArena ----
EXTENDS Arena

(* Keys of one to three bytes and values of none to three, with no byte    *)
(* twice: arenas from one byte to more than twice U32Range = 8.            *)
Lengths == [key : 1..3, val : 0..3]
EntryOf(n, len) ==
    [key |-> [j \in 1..len.key |-> 10 * n + j],
     val |-> [j \in 1..len.val |-> 10 * n + 5 + j]]
ThreeEntries == {[n \in 1..3 |-> EntryOf(n, lens[n])] : lens \in [1..3 -> Lengths]}
UpToThreeEntries ==
    ThreeEntries \cup {SubSeq(s, 1, n) : s \in ThreeEntries, n \in 0..2}
====
