----------------------------- MODULE LoserTree ------------------------------
(***************************************************************************)
(* LoserTreeMerger (merge/merger.rs): a k-way merge driven by a tournament *)
(* tree.  Leaf i (counted from 0) stands for source i; leaves at or beyond *)
(* the number of sources are phantoms that always lose.  Internal node n   *)
(* remembers in tree[n] the loser of its match, the overall winner is kept *)
(* apart.  The recursion of build_subtree and the loop of replay_from_leaf *)
(* take one step per node.                                                 *)
(***************************************************************************)
EXTENDS MergeRefinement

VARIABLES
    k_padded,        \* number of leaves, phantoms included
    tree,            \* per internal node: the leaf that lost there
    winner,          \* the overall winner
    subwinner,       \* per node: the leaf build_subtree returned for it; kept
                     \* current by the replay, where no code reads it
    node,            \* replay_from_leaf: the node about to be played
    contender,       \* replay_from_leaf: the leaf climbing the path
    pc               \* "build", "run", "replay" or "done"

treeVars == <<k_padded, tree, winner, subwinner, node, contender, pc>>
vars == <<sources, pos, merged, treeVars>>

(* usize::MAX in the code; like it, no leaf.                               *)
NONE_YET == -1

(* The leaves are counted from 0, the sources from 1.                      *)
SourceOf(leaf) == leaf + 1

Leaves == 0..(k_padded - 1)
InternalNodes == 1..(k_padded - 1)
Nodes == 1..(2 * k_padded - 1)

(* peek_at is Some: a real leaf whose source is not exhausted.             *)
PeekAtSome(leaf) == SourceOf(leaf) \in SourceIds /\ Live(SourceOf(leaf))

(* Mutant: an exhausted or phantom leaf is not beaten.                     *)
BeatsOnlyLive(a, b) ==
    /\ PeekAtSome(a) /\ PeekAtSome(b)
    /\ Less(Peek(SourceOf(a)), Peek(SourceOf(b)))

(* less: a front beats a later front, and any front beats an exhausted or  *)
(* phantom leaf.                                                           *)
Beats(a, b) ==
    /\ PeekAtSome(a)
    /\ PeekAtSome(b) => Less(Peek(SourceOf(a)), Peek(SourceOf(b)))

(* p = n.next_power_of_two(): between n and 2n there is just one.          *)
IsNextPowerOfTwo(p, n) ==
    /\ p \in n..(2 * n - 1)
    /\ \E j \in 0..p : p = 2^j

TypeOK ==
    /\ SourcesOK
    /\ merged \in Seq(Entry)
    /\ k_padded \in Nat \ {0} /\ Len(sources) <= k_padded
    /\ tree \in [0..(k_padded - 1) -> Leaves \cup {NONE_YET}]
    /\ winner \in Leaves
    /\ subwinner \in [Nodes -> Leaves \cup {NONE_YET}]
    /\ node \in 0..(k_padded - 1)
    /\ contender \in Leaves
    /\ pc \in {"build", "run", "replay", "done"}

AtLeastOne(n) == IF n = 0 THEN 1 ELSE n

(* new, up to the call of build.  build_subtree returns at once at a leaf. *)
Init ==
    /\ SourcesInit
    /\ merged = <<>>
    /\ k_padded \in 1..(2 * Len(sources) + 1)
    /\ IsNextPowerOfTwo(k_padded, AtLeastOne(Len(sources)))
    /\ tree = [n \in 0..(k_padded - 1) |-> NONE_YET]
    /\ winner = 0
    /\ subwinner = [n \in Nodes |-> IF n >= k_padded THEN n - k_padded
                                                     ELSE NONE_YET]
    /\ node = 0
    /\ contender = 0
    /\ pc = "build"

(* Mutant: the node remembers the winner of its match.                     *)
BuildNodeStoresWinner(n) ==
    /\ pc = "build"
    /\ subwinner[n] = NONE_YET
    /\ subwinner[2 * n] # NONE_YET /\ subwinner[2 * n + 1] # NONE_YET
    /\ LET left == subwinner[2 * n]
           right == subwinner[2 * n + 1]
           winning == IF Beats(left, right) THEN left ELSE right
       IN  /\ tree' = [tree EXCEPT ![n] = winning]
           /\ subwinner' = [subwinner EXCEPT ![n] = winning]
    /\ UNCHANGED <<sources, pos, merged, k_padded, winner, node, contender, pc>>

(* build_subtree(n) plays the match of its two children once both calls    *)
(* have returned; on a tie the right one wins.                             *)
BuildNode(n) ==
    /\ pc = "build"
    /\ subwinner[n] = NONE_YET
    /\ subwinner[2 * n] # NONE_YET /\ subwinner[2 * n + 1] # NONE_YET
    /\ LET left == subwinner[2 * n]
           right == subwinner[2 * n + 1]
           leftWins == Beats(left, right)
       IN  /\ tree' = [tree EXCEPT ![n] = IF leftWins THEN right ELSE left]
           /\ subwinner' = [subwinner EXCEPT
                                ![n] = IF leftWins THEN left ELSE right]
    /\ UNCHANGED <<sources, pos, merged, k_padded, winner, node, contender, pc>>

(* build stores what build_subtree(1) returned.                            *)
FinishBuild ==
    /\ pc = "build"
    /\ subwinner[1] # NONE_YET
    /\ winner' = subwinner[1]
    /\ pc' = "run"
    /\ UNCHANGED <<sources, pos, merged, k_padded, tree, subwinner, node, contender>>

(* Mutant: the path is taken from the leaf's index, not its position.      *)
EmitReplaysWrongPath ==
    /\ pc = "run"
    /\ PeekAtSome(winner)
    /\ merged' = Append(merged, Peek(SourceOf(winner)))
    /\ Advance(SourceOf(winner))
    /\ node' = winner \div 2
    /\ contender' = winner
    /\ pc' = IF node' >= 1 THEN "replay" ELSE "run"
    /\ UNCHANGED <<k_padded, tree, winner, subwinner>>

(* One turn of run's loop up to the replay: f, advance, and the entry of   *)
(* replay_from_leaf.  With one leaf there is no node to replay.            *)
Emit ==
    /\ pc = "run"
    /\ PeekAtSome(winner)
    /\ merged' = Append(merged, Peek(SourceOf(winner)))
    /\ Advance(SourceOf(winner))
    /\ node' = (winner + k_padded) \div 2
    /\ contender' = winner
    /\ pc' = IF node' >= 1 THEN "replay" ELSE "run"
    /\ UNCHANGED <<k_padded, tree, winner, subwinner>>

(* Mutant: the climb ends at the first match the contender wins.           *)
ReplayStepStopsEarly ==
    /\ pc = "replay"
    /\ LET loser_here == tree[node]
           stays == Beats(contender, loser_here)
           climbing == IF stays THEN contender ELSE loser_here
       IN  /\ tree' = IF stays THEN tree
                               ELSE [tree EXCEPT ![node] = contender]
           /\ contender' = climbing
           /\ subwinner' = [subwinner EXCEPT ![node] = climbing]
           /\ winner' = IF node = 1 \/ stays THEN climbing ELSE winner
           /\ pc' = IF node = 1 \/ stays THEN "run" ELSE "replay"
    /\ node' = node \div 2
    /\ UNCHANGED <<sources, pos, merged, k_padded>>

(* Mutant: node /= 2 is missing.                                           *)
ReplayStepStaysAtNode ==
    /\ pc = "replay"
    /\ contender' = IF Beats(contender, tree[node]) THEN contender ELSE tree[node]
    /\ tree' = IF Beats(contender, tree[node])
               THEN tree ELSE [tree EXCEPT ![node] = contender]
    /\ winner' = IF node = 1 THEN contender' ELSE winner
    /\ pc' = IF node = 1 THEN "run" ELSE "replay"
    /\ UNCHANGED <<sources, pos, merged, k_padded, subwinner, node>>

(* One turn of replay_from_leaf's loop.  The contender that does not beat  *)
(* the recorded loser takes its place.                                     *)
ReplayStep ==
    /\ pc = "replay"
    /\ LET loser_here == tree[node]
           stays == Beats(contender, loser_here)
           climbing == IF stays THEN contender ELSE loser_here
       IN  /\ tree' = IF stays THEN tree
                               ELSE [tree EXCEPT ![node] = contender]
           /\ contender' = climbing
           /\ subwinner' = [subwinner EXCEPT ![node] = climbing]
           /\ winner' = IF node = 1 THEN climbing ELSE winner
    /\ node' = node \div 2
    /\ pc' = IF node = 1 THEN "run" ELSE "replay"
    /\ UNCHANGED <<sources, pos, merged, k_padded>>

(* The winner is a phantom or exhausted: run breaks out of its loop.       *)
Stop ==
    /\ pc = "run"
    /\ ~PeekAtSome(winner)
    /\ pc' = "done"
    /\ UNCHANGED <<sources, pos, merged, k_padded, tree, winner, subwinner,
                   node, contender>>

Terminated == pc = "done" /\ UNCHANGED vars

Next ==
    \/ \E n \in InternalNodes : BuildNode(n)
    \/ FinishBuild
    \/ Emit
    \/ ReplayStep
    \/ Stop
    \/ Terminated

Spec == Init /\ [][Next]_vars /\ WF_vars(Next)
-----------------------------------------------------------------------------
(* Whenever run reads it, winner names a leaf no other leaf beats: one     *)
(* replay of the path from the old winner is enough to find the new one.   *)
WinnerIsLeast == pc = "run" => \A leaf \in Leaves : ~Beats(leaf, winner)

(* run returns: neither the replay nor the loop around it goes on forever. *)
Returns == <>(pc = "done")

(* run breaks only when nothing is left, although it looks at one leaf.    *)
StopsOnlyWhenExhausted == pc = "done" => Exhausted

(* The match played at node n is on record: subwinner and tree hold the    *)
(* winner and the loser of the children's results.                         *)
MatchRecorded(n) ==
    /\ \/ subwinner[n] = subwinner[2 * n] /\ tree[n] = subwinner[2 * n + 1]
       \/ subwinner[n] = subwinner[2 * n + 1] /\ tree[n] = subwinner[2 * n]
    /\ ~Beats(tree[n], subwinner[n])

(* Between two turns of the loop every recorded loser is the loser of the  *)
(* match its node would have if it were played now.  While the replay      *)
(* climbs, this holds of every node it has left and of every node the old  *)
(* winner was not the winner of.                                           *)
TreeRecordsMatches ==
    /\ pc = "run" => \A n \in InternalNodes : MatchRecorded(n)
    /\ pc = "replay" => \A n \in InternalNodes :
           n > node \/ subwinner[n] # winner => MatchRecorded(n)
=============================================================================
