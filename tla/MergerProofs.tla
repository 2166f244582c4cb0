---------------------------- MODULE MergerProofs ----------------------------
(***************************************************************************)
(* Both mergers of merge/merger.rs are k-way merges.                       *)
(*                                                                         *)
(* The loser tree is a k-way merge, for every vector of sorted sources and *)
(* every shape of tree (that the number of leaves is a power of two is not *)
(* used).                                                                  *)
(*                                                                         *)
(* While the tree is built, the results of the finished subtrees that have *)
(* no finished parent and the losers of the finished matches are distinct  *)
(* leaves.  From then on the winner (during a replay: the contender) and   *)
(* the recorded losers are distinct leaves.  Hence the nodes won by the    *)
(* old winner form one path, the one that replay_from_leaf climbs, and all *)
(* other matches stand.  The winner of a tree in which every match stands  *)
(* is a least front.                                                       *)
(*                                                                         *)
(* The heap of HeapMerger mirrors the fronts of the live sources; with     *)
(* that the entry pop returns is a least front.                            *)
(*                                                                         *)
(* So both implement KWayMerge, and what KWayMergeProofs shows of every    *)
(* merge holds of them.  That run returns is checked by TLC only.          *)
(***************************************************************************)
EXTENDS LoserTree, HeapMerger, WellFoundedInduction, TLAPS

Built(n) == subwinner[n] # NONE_YET

(* The results of the children of n are the result of n and its loser.     *)
Paired(n) ==
    \/ subwinner[n] = subwinner[2 * n] /\ tree[n] = subwinner[2 * n + 1]
    \/ subwinner[n] = subwinner[2 * n + 1] /\ tree[n] = subwinner[2 * n]

(* A finished subtree whose parent is not finished.                        *)
IsTop(n) == Built(n) /\ (n = 1 \/ ~Built(n \div 2))

LeafNodes == k_padded..(2 * k_padded - 1)

LeavesKnown == \A n \in LeafNodes : subwinner[n] = n - k_padded

(* The result of an internal node is a leaf below it; of that, only the    *)
(* order of their numbers is needed.                                       *)
WinnersBelow ==
    \A n \in InternalNodes : Built(n) => subwinner[n] + k_padded >= 2 * n

LosersDiffer ==
    \A n, m \in InternalNodes : Built(n) /\ Built(m) /\ n # m => tree[n] # tree[m]

IsNoLoser(leaf) == \A n \in InternalNodes : Built(n) => tree[n] # leaf

MatchesKnown ==
    \A n \in InternalNodes : Built(n) =>
        tree[n] \in Leaves /\ Built(2 * n) /\ Built(2 * n + 1)

BuildInv ==
    /\ \A n \in InternalNodes : Built(n) => MatchRecorded(n)
    /\ \A a, b \in Nodes : IsTop(a) /\ IsTop(b) /\ a # b => subwinner[a] # subwinner[b]
    /\ \A a \in Nodes : IsTop(a) => IsNoLoser(subwinner[a])

RunInv ==
    /\ \A n \in Nodes : Built(n)
    /\ winner = subwinner[1]
    /\ IsNoLoser(winner)
    /\ \A n \in InternalNodes : MatchRecorded(n)

(* Below node the replay is done.  The nodes the old winner had won and    *)
(* that are still to be played are those on the way from node to the root. *)
ReplayInv ==
    /\ \A n \in Nodes : Built(n)
    /\ node \in InternalNodes
    /\ subwinner[node] = winner
    /\ IsNoLoser(contender)
    /\ \/ contender = subwinner[2 * node] /\ tree[node] = subwinner[2 * node + 1]
       \/ contender = subwinner[2 * node + 1] /\ tree[node] = subwinner[2 * node]
    /\ \A n \in InternalNodes : n > node \/ subwinner[n] # winner => MatchRecorded(n)
    /\ \A n \in InternalNodes : n < node /\ subwinner[n] = winner =>
           Paired(n) /\ tree[n] # winner /\ 2 * n <= node
    /\ \A n \in 2..node : subwinner[n] = winner => subwinner[n \div 2] = winner

IInv ==
    /\ TypeOK
    /\ LeavesKnown
    /\ WinnersBelow
    /\ LosersDiffer
    /\ MatchesKnown
    /\ pc = "build" => BuildInv
    /\ pc \in {"run", "done"} => RunInv
    /\ pc = "replay" => ReplayInv
    /\ pc = "done" => ~PeekAtSome(winner)
-----------------------------------------------------------------------------
(* Every non-empty set of naturals has a least element.                    *)
LEMMA LeastElement ==
    ASSUME NEW T, T \subseteq Nat, T # {}
    PROVE  \E x \in T : \A y \in T : x <= y
<1>1. PICK x \in T : \A y \in T : ~(<<y, x>> \in OpToRel(<, Nat))
  BY NatLessThanWellFounded, WFMin
<1>2. \A y \in T : ~(y < x)
  BY <1>1 DEF OpToRel
<1> QED BY <1>2

(* Halving stays in the tree: the parent of a node is an internal node and *)
(* the node is one of its children.                                        *)
LEMMA ParentOf ==
    ASSUME TypeOK, NEW n \in Nodes, n # 1
    PROVE  /\ n \div 2 \in InternalNodes
           /\ n \div 2 < n
           /\ n = 2 * (n \div 2) \/ n = 2 * (n \div 2) + 1
BY DEF TypeOK, Nodes, InternalNodes

(* The children of an internal node are nodes.                             *)
LEMMA ChildrenOf ==
    ASSUME TypeOK, NEW n \in InternalNodes
    PROVE  /\ n \in Nodes /\ n \in Nat /\ n >= 1
           /\ 2 * n \in Nodes /\ 2 * n + 1 \in Nodes
           /\ (2 * n) \div 2 = n /\ (2 * n + 1) \div 2 = n
           /\ n < 2 * n
BY DEF TypeOK, Nodes, InternalNodes

(* Every node is an internal node or a leaf.                               *)
LEMMA NodeKinds ==
    ASSUME TypeOK
    PROVE  /\ Nodes = InternalNodes \cup LeafNodes
           /\ InternalNodes \cap LeafNodes = {}
BY DEF TypeOK, Nodes, InternalNodes, LeafNodes

(* A live leaf's front is an entry.                                        *)
LEMMA FrontIsEntry ==
    ASSUME SourcesOK, NEW a \in Int, PeekAtSome(a)
    PROVE  Peek(SourceOf(a)) \in Entry
<1> DEFINE i == SourceOf(a)
<1>1. sources \in Seq(Source) /\ i \in SourceIds /\ Live(i) /\ pos[i] \in Nat
  BY InputsAssumption DEF SourcesOK, PeekAtSome
<1>2. sources[i] \in Source
  BY <1>1 DEF SourceIds
<1>3. sources[i] \in Seq(Entry)
  BY <1>2 DEF Source
<1> QED BY <1>1, <1>3 DEF Live, Peek

(* less is asymmetric: at most one of two leaves beats the other.          *)
LEMMA BeatsAsymmetric ==
    ASSUME SourcesOK, NEW a \in Int, NEW b \in Int, Beats(a, b)
    PROVE  ~Beats(b, a)
<1> SUFFICES ASSUME PeekAtSome(a), PeekAtSome(b) PROVE ~Beats(b, a)
  BY DEF Beats
<1>1. Peek(SourceOf(a)) \in Entry /\ Peek(SourceOf(b)) \in Entry
  BY FrontIsEntry
<1> QED BY <1>1 DEF Beats, Less, Entry

(* A leaf does not beat itself.                                            *)
LEMMA BeatsIrreflexive ==
    ASSUME SourcesOK, NEW a \in Int
    PROVE  ~Beats(a, a)
BY BeatsAsymmetric

(* "Does not beat" is transitive, exhausted and phantom leaves included.   *)
LEMMA NotBeatsTransitive ==
    ASSUME SourcesOK, NEW a \in Int, NEW b \in Int, NEW c \in Int,
           ~Beats(a, b), ~Beats(b, c)
    PROVE  ~Beats(a, c)
<1> SUFFICES ASSUME PeekAtSome(a), PeekAtSome(b), PeekAtSome(c)
             PROVE  ~Beats(a, c)
  BY DEF Beats
<1>1. /\ Peek(SourceOf(a)) \in Entry /\ Peek(SourceOf(b)) \in Entry
      /\ Peek(SourceOf(c)) \in Entry
  BY FrontIsEntry
<1> QED BY <1>1 DEF Beats, Less, Entry
-----------------------------------------------------------------------------
(* In a tree in which every match stands no leaf beats the winner.         *)
LEMMA StandingTreeHasLeastWinner ==
    ASSUME TypeOK, LeavesKnown, MatchesKnown, RunInv, NEW leaf \in Leaves
    PROVE  ~Beats(leaf, winner)
<1>1. \A n \in Nodes : subwinner[n] \in Leaves
  BY DEF TypeOK, RunInv, Built
<1>2. Leaves \subseteq Int /\ SourcesOK /\ winner \in Leaves /\ 1 \in Nodes
  BY DEF TypeOK, Leaves, Nodes
<1> DEFINE T == {n \in Nodes : Beats(subwinner[n], winner)}
<1>3. T = {}
  <2> SUFFICES ASSUME T # {} PROVE FALSE
    OBVIOUS
  <2>1. T \subseteq Nat
    BY DEF Nodes, TypeOK
  <2>2. PICK n \in T : \A y \in T : n <= y
    BY <2>1, LeastElement
  <2>3. n # 1
    BY <1>2, BeatsIrreflexive DEF RunInv
  <2> DEFINE p == n \div 2
  <2>4. p \in InternalNodes /\ p \in Nodes /\ p < n /\ n \in Nat /\ p \in Nat
        /\ (n = 2 * p \/ n = 2 * p + 1)
    BY <2>1, <2>3, ParentOf, ChildrenOf
  <2>5. ~Beats(subwinner[p], winner)
    BY <2>2, <2>4
  <2>6. MatchRecorded(p) /\ tree[p] \in Leaves
    BY <2>4 DEF RunInv, MatchesKnown
  <2>7. subwinner[n] = subwinner[p] \/ subwinner[n] = tree[p]
    BY <2>4, <2>6 DEF MatchRecorded
  <2>8. ~Beats(tree[p], winner)
    BY <1>1, <1>2, <2>4, <2>5, <2>6, NotBeatsTransitive DEF MatchRecorded
  <2> QED BY <2>2, <2>5, <2>7, <2>8
<1>4. leaf + k_padded \in Nodes /\ subwinner[leaf + k_padded] = leaf
  BY DEF TypeOK, Leaves, Nodes, LeafNodes, LeavesKnown
<1> QED BY <1>3, <1>4
-----------------------------------------------------------------------------
LEMMA InitEstablishesTypeOK == Init => TypeOK
<1> SUFFICES ASSUME Init PROVE TypeOK
  OBVIOUS
<1>1. sources \in Seq(Source) /\ Len(sources) \in Nat
  BY InputsAssumption DEF Init, SourcesInit
<1>2. ASSUME NEW i \in SourceIds PROVE pos[i] = 0 /\ pos[i] <= Len(sources[i])
  BY <1>1, <1>2 DEF Init, SourcesInit, SourceIds, Source
<1>3. SourcesOK
  BY <1>2 DEF Init, SourcesInit, SourcesOK
<1>4. k_padded \in Nat \ {0} /\ Len(sources) <= k_padded
  BY <1>1 DEF Init, IsNextPowerOfTwo, AtLeastOne
<1>5. /\ tree \in [0..(k_padded - 1) -> Leaves \cup {NONE_YET}]
      /\ subwinner \in [Nodes -> Leaves \cup {NONE_YET}]
      /\ winner \in Leaves /\ contender \in Leaves /\ node \in 0..(k_padded - 1)
  BY <1>4 DEF Init, Leaves, Nodes
<1> QED BY <1>3, <1>4, <1>5 DEF Init, TypeOK

LEMMA InitEstablishesIInv == Init => IInv
<1> SUFFICES ASSUME Init PROVE IInv
  OBVIOUS
<1>1. TypeOK
  BY InitEstablishesTypeOK
<1>2. k_padded \in Nat \ {0}
  BY <1>1 DEF TypeOK
<1>3. \A n \in InternalNodes : ~Built(n)
  BY <1>2 DEF Init, InternalNodes, Nodes, Built
<1>4. \A n \in LeafNodes : subwinner[n] = n - k_padded
  BY <1>2 DEF Init, LeafNodes, Nodes
<1>5. LeavesKnown /\ WinnersBelow /\ LosersDiffer /\ MatchesKnown
  BY <1>3, <1>4 DEF LeavesKnown, WinnersBelow, LosersDiffer, MatchesKnown
<1>6. BuildInv
  <2>1. ASSUME NEW a \in Nodes, NEW b \in Nodes, IsTop(a), IsTop(b), a # b
        PROVE  subwinner[a] # subwinner[b]
    <3>1. a \in LeafNodes /\ b \in LeafNodes
      BY <1>1, <1>3, <2>1, NodeKinds DEF IsTop
    <3> QED BY <1>2, <1>4, <2>1, <3>1 DEF LeafNodes
  <2> QED BY <1>3, <2>1 DEF BuildInv, IsNoLoser
<1> QED BY <1>1, <1>5, <1>6 DEF IInv, Init
-----------------------------------------------------------------------------
(* build_subtree finishes node n.                                          *)
LEMMA BuildNodePreservesIInv ==
    ASSUME IInv, NEW n \in InternalNodes, BuildNode(n)
    PROVE  IInv'
<1> DEFINE won == IF Beats(subwinner[2 * n], subwinner[2 * n + 1])
                  THEN subwinner[2 * n] ELSE subwinner[2 * n + 1]
           lost == IF Beats(subwinner[2 * n], subwinner[2 * n + 1])
                   THEN subwinner[2 * n + 1] ELSE subwinner[2 * n]
<1>1. TypeOK /\ SourcesOK /\ BuildInv
      /\ LeavesKnown /\ WinnersBelow /\ LosersDiffer /\ MatchesKnown
  BY DEF IInv, BuildNode, TypeOK
<1>2. /\ UNCHANGED <<sources, pos, merged, k_padded, winner, node, contender, pc>>
      /\ pc = "build" /\ pc' = "build"
      /\ tree' = [tree EXCEPT ![n] = lost]
      /\ subwinner' = [subwinner EXCEPT ![n] = won]
      /\ ~Built(n) /\ Built(2 * n) /\ Built(2 * n + 1)
  BY DEF BuildNode, Built
<1>3. /\ n \in Nodes /\ n \in Nat /\ n >= 1 /\ 2 * n \in Nodes /\ 2 * n + 1 \in Nodes
      /\ (2 * n) \div 2 = n /\ (2 * n + 1) \div 2 = n /\ n < 2 * n
  BY <1>1, ChildrenOf
<1>4. /\ Nodes' = Nodes /\ InternalNodes' = InternalNodes /\ Leaves' = Leaves
      /\ LeafNodes' = LeafNodes
      /\ \A a, b : Beats(a, b)' = Beats(a, b)
  BY <1>2 DEF Nodes, InternalNodes, Leaves, LeafNodes, Beats, PeekAtSome, Live,
     Peek, SourceIds, SourceOf
<1>5. /\ subwinner[2 * n] \in Leaves /\ subwinner[2 * n + 1] \in Leaves
      /\ won \in Leaves /\ lost \in Leaves
  BY <1>1, <1>2, <1>3 DEF TypeOK, Built
<1>6. /\ subwinner'[n] = won /\ tree'[n] = lost
      /\ \A m \in Nodes : m # n => subwinner'[m] = subwinner[m]
      /\ \A m \in InternalNodes : m # n => tree'[m] = tree[m]
  BY <1>1, <1>2, <1>3 DEF TypeOK, InternalNodes
<1>7. NONE_YET \notin Leaves
  BY DEF NONE_YET, Leaves
<1>8. /\ Built(n)'
      /\ \A m \in Nodes : m # n => (Built(m)' <=> Built(m))
  BY <1>5, <1>6, <1>7 DEF Built, NONE_YET
<1>9. TypeOK'
  BY <1>1, <1>2, <1>4, <1>5 DEF TypeOK, SourcesOK, SourceIds, Leaves, Nodes
<1>10. LeavesKnown'
  <2>1. \A m \in LeafNodes : m \in Nodes /\ m # n
    BY <1>1, NodeKinds
  <2> QED BY <1>1, <1>2, <1>4, <1>6, <2>1 DEF LeavesKnown
<1>11. WinnersBelow'
  <2>1. ASSUME NEW m \in Nodes, Built(m) PROVE subwinner[m] + k_padded >= m
    <3>1. CASE m \in LeafNodes
      BY <1>1, <3>1 DEF LeavesKnown, LeafNodes, TypeOK
    <3>2. CASE m \in InternalNodes
      <4>1. subwinner[m] + k_padded >= 2 * m /\ subwinner[m] \in Leaves
        BY <1>1, <2>1, <3>2 DEF WinnersBelow, TypeOK, Built
      <4> QED BY <1>1, <4>1, <3>2 DEF Leaves, InternalNodes, TypeOK
    <3> QED BY <1>1, <3>1, <3>2, NodeKinds
  <2>2. won + k_padded >= 2 * n
    <3>1. subwinner[2 * n] + k_padded >= 2 * n /\ subwinner[2 * n + 1] + k_padded >= 2 * n + 1
      BY <1>2, <1>3, <2>1
    <3>2. won = subwinner[2 * n] \/ won = subwinner[2 * n + 1]
      OBVIOUS
    <3>3. won \in Int /\ k_padded \in Int
      BY <1>1, <1>5 DEF Leaves, TypeOK
    <3> HIDE DEF won
    <3> QED BY <1>3, <3>1, <3>2, <3>3
  <2>3. \A m \in InternalNodes : m \in Nodes
    BY <1>1, ChildrenOf
  <2> QED BY <1>1, <1>2, <1>4, <1>6, <1>8, <2>2, <2>3 DEF WinnersBelow
<1>12. MatchesKnown'
  <2> SUFFICES ASSUME NEW m \in InternalNodes, Built(m)'
               PROVE  tree'[m] \in Leaves /\ Built(2 * m)' /\ Built(2 * m + 1)'
    BY <1>4 DEF MatchesKnown
  <2>1. m \in Nodes /\ 2 * m \in Nodes /\ 2 * m + 1 \in Nodes
    BY <1>1, ChildrenOf
  <2>2. tree'[m] \in Leaves
    BY <1>1, <1>5, <1>6, <1>8, <2>1 DEF MatchesKnown
  <2>3. Built(2 * m) /\ Built(2 * m + 1)
    BY <1>1, <1>2, <1>8, <2>1 DEF MatchesKnown
  <2> QED BY <1>8, <2>1, <2>2, <2>3
<1>13. (* the node and its children were the tops of finished subtrees      *)
       /\ IsTop(2 * n) /\ IsTop(2 * n + 1)
       /\ n # 1 => ~Built(n \div 2)
  <2>1. IsTop(2 * n) /\ IsTop(2 * n + 1)
    BY <1>2, <1>3 DEF IsTop
  <2>2. ASSUME n # 1, Built(n \div 2) PROVE FALSE
    <3>1. n \div 2 \in InternalNodes /\ (n = 2 * (n \div 2) \/ n = 2 * (n \div 2) + 1)
      BY <1>1, <1>3, <2>2, ParentOf
    <3>2. Built(2 * (n \div 2)) /\ Built(2 * (n \div 2) + 1)
      BY <1>1, <2>2, <3>1 DEF MatchesKnown
    <3> QED BY <1>2, <3>1, <3>2
  <2> QED BY <2>1, <2>2
<1>14. ASSUME NEW a \in Nodes, IsTop(a)', a # n
       PROVE  IsTop(a) /\ a # 2 * n /\ a # 2 * n + 1 /\ subwinner'[a] = subwinner[a]
  <2>1. Built(a) /\ subwinner'[a] = subwinner[a]
    BY <1>6, <1>8, <1>14 DEF IsTop
  <2>2. CASE a = 1
    BY <1>3, <2>1, <2>2 DEF IsTop
  <2>3. CASE a # 1
    <3>1. a \div 2 \in InternalNodes /\ a \div 2 \in Nodes
      BY <1>1, <2>3, ParentOf, ChildrenOf
    <3>2. ~Built(a \div 2)'
      BY <1>14, <2>3 DEF IsTop
    <3>3. a \div 2 # n /\ ~Built(a \div 2)
      BY <1>8, <3>1, <3>2
    <3> QED BY <1>3, <2>1, <3>3 DEF IsTop
  <2> QED BY <2>2, <2>3
<1>15. subwinner[2 * n] # subwinner[2 * n + 1] /\ won # lost
       /\ {won, lost} = {subwinner[2 * n], subwinner[2 * n + 1]}
  BY <1>1, <1>3, <1>13 DEF BuildInv
<1>16. LosersDiffer'
  <2> SUFFICES ASSUME NEW m \in InternalNodes, NEW l \in InternalNodes,
                      Built(m)', Built(l)', m # l, m # n
               PROVE  tree'[m] # tree'[l]
    BY <1>4 DEF LosersDiffer
  <2>0. Built(m) /\ tree'[m] = tree[m]
    BY <1>1, <1>6, <1>8, ChildrenOf
  <2>1. CASE l = n
    <3>1. tree[m] # subwinner[2 * n] /\ tree[m] # subwinner[2 * n + 1]
      BY <1>1, <1>3, <1>13, <2>0 DEF BuildInv, IsNoLoser
    <3> QED BY <1>6, <1>15, <2>0, <2>1, <3>1
  <2>2. CASE l # n
    BY <1>1, <1>6, <1>8, <2>0, <2>2, ChildrenOf DEF LosersDiffer
  <2> QED BY <2>1, <2>2
<1>17. BuildInv'
  <2>1. ASSUME NEW m \in InternalNodes, Built(m)' PROVE MatchRecorded(m)'
    <3>0. m \in Nodes /\ 2 * m \in Nodes /\ 2 * m + 1 \in Nodes /\ m \in Nat /\ m >= 1
      BY <1>1, ChildrenOf
    <3>1. CASE m = n
      <4>1. ~Beats(lost, won)
        <5>1. subwinner[2 * n] \in Int /\ subwinner[2 * n + 1] \in Int
          BY <1>5 DEF Leaves
        <5> QED BY <1>1, <5>1, BeatsAsymmetric
      <4>2. 2 * n # n /\ 2 * n + 1 # n
        BY <1>3
      <4>3. subwinner'[2 * n] = subwinner[2 * n] /\ subwinner'[2 * n + 1] = subwinner[2 * n + 1]
        BY <1>3, <1>6, <4>2
      <4>4. ~Beats(tree[n], subwinner[n])'
        BY <1>4, <1>6, <4>1
      <4> QED BY <1>6, <3>1, <4>3, <4>4 DEF MatchRecorded
    <3>2. CASE m # n
      <4>1. Built(m) /\ MatchRecorded(m) /\ Built(2 * m) /\ Built(2 * m + 1)
        BY <1>1, <1>8, <2>1, <3>0, <3>2 DEF BuildInv, MatchesKnown
      <4>2. 2 * m # n /\ 2 * m + 1 # n
        BY <1>2, <4>1
      <4>3. subwinner'[m] = subwinner[m] /\ tree'[m] = tree[m]
            /\ subwinner'[2 * m] = subwinner[2 * m]
            /\ subwinner'[2 * m + 1] = subwinner[2 * m + 1]
        BY <1>6, <3>0, <3>2, <4>2
      <4>4. Beats(tree[m], subwinner[m])' = Beats(tree[m], subwinner[m])
        BY <1>4, <4>3
      <4> QED BY <4>1, <4>3, <4>4 DEF MatchRecorded
    <3> QED BY <3>1, <3>2
  <2>2. ASSUME NEW a \in Nodes, NEW b \in Nodes, IsTop(a)', IsTop(b)', a # b, a # n
        PROVE  subwinner'[a] # subwinner'[b]
    <3>1. /\ IsTop(a) /\ a # 2 * n /\ a # 2 * n + 1 /\ subwinner'[a] = subwinner[a]
      BY <1>14, <2>2
    <3>2. CASE b = n
      <4>1. subwinner[a] # subwinner[2 * n] /\ subwinner[a] # subwinner[2 * n + 1]
        BY <1>1, <1>3, <1>13, <3>1 DEF BuildInv
      <4> QED BY <1>6, <1>15, <3>1, <3>2, <4>1
    <3>3. CASE b # n
      <4>1. IsTop(b) /\ subwinner'[b] = subwinner[b]
        BY <1>14, <2>2, <3>3
      <4> QED BY <1>1, <2>2, <3>1, <4>1 DEF BuildInv
    <3> QED BY <3>2, <3>3
  <2>3. ASSUME NEW a \in Nodes, IsTop(a)', NEW m \in InternalNodes, Built(m)'
        PROVE  tree'[m] # subwinner'[a]
    <3>0. m \in Nodes
      BY <1>1, ChildrenOf
    <3>1. CASE a = n /\ m = n
      BY <1>6, <1>15, <3>1
    <3>2. CASE a = n /\ m # n
      <4>1. tree[m] # subwinner[2 * n] /\ tree[m] # subwinner[2 * n + 1]
        BY <1>1, <1>3, <1>8, <1>13, <2>3, <3>0, <3>2 DEF BuildInv, IsNoLoser
      <4> QED BY <1>6, <1>15, <3>2, <4>1
    <3>3. CASE a # n /\ m = n
      <4>1. /\ IsTop(a) /\ a # 2 * n /\ a # 2 * n + 1 /\ subwinner'[a] = subwinner[a]
        BY <1>14, <2>3, <3>3
      <4>2. subwinner[a] # subwinner[2 * n] /\ subwinner[a] # subwinner[2 * n + 1]
        BY <1>1, <1>3, <1>13, <4>1 DEF BuildInv
      <4> QED BY <1>6, <1>15, <3>3, <4>1, <4>2
    <3>4. CASE a # n /\ m # n
      <4>1. IsTop(a) /\ subwinner'[a] = subwinner[a]
        BY <1>14, <2>3, <3>4
      <4>2. Built(m) /\ tree'[m] = tree[m]
        BY <1>6, <1>8, <2>3, <3>0, <3>4
      <4> QED BY <1>1, <4>1, <4>2 DEF BuildInv, IsNoLoser
    <3> QED BY <3>1, <3>2, <3>3, <3>4
  <2>4. \A a, b \in Nodes : IsTop(a)' /\ IsTop(b)' /\ a # b => subwinner'[a] # subwinner'[b]
    BY <2>2
  <2> QED BY <1>4, <2>1, <2>3, <2>4 DEF BuildInv, IsNoLoser
<1> QED BY <1>2, <1>9, <1>10, <1>11, <1>12, <1>16, <1>17 DEF IInv
-----------------------------------------------------------------------------
(* Once the root is finished every node is.                                *)
LEMMA RootBuiltAllBuilt ==
    ASSUME TypeOK, LeavesKnown, MatchesKnown, Built(1)
    PROVE  \A n \in Nodes : Built(n)
<1> DEFINE T == {n \in Nodes : ~Built(n)}
<1> SUFFICES ASSUME T # {} PROVE FALSE
  OBVIOUS
<1>1. T \subseteq Nat
  BY DEF Nodes, TypeOK
<1>2. PICK n \in T : \A y \in T : n <= y
  BY <1>1, LeastElement
<1> DEFINE p == n \div 2
<1>3. p \in InternalNodes /\ p \in Nodes /\ p \in Nat /\ n \in Nat /\ p < n
      /\ (n = 2 * p \/ n = 2 * p + 1)
  BY <1>1, <1>2, ParentOf, ChildrenOf
<1>4. Built(p)
  BY <1>2, <1>3
<1>5. Built(2 * p) /\ Built(2 * p + 1)
  BY <1>3, <1>4 DEF MatchesKnown
<1> QED BY <1>2, <1>3, <1>5

LEMMA FinishBuildPreservesIInv ==
    ASSUME IInv, FinishBuild
    PROVE  IInv'
<1>1. TypeOK /\ LeavesKnown /\ WinnersBelow /\ LosersDiffer /\ MatchesKnown /\ BuildInv
  BY DEF IInv, FinishBuild
<1>2. /\ UNCHANGED <<sources, pos, merged, k_padded, tree, subwinner, node, contender>>
      /\ winner' = subwinner[1] /\ pc' = "run" /\ Built(1)
  BY DEF FinishBuild, Built
<1>3. \A n \in Nodes : Built(n)
  BY <1>1, <1>2, RootBuiltAllBuilt
<1>4. /\ Nodes' = Nodes /\ InternalNodes' = InternalNodes /\ Leaves' = Leaves
      /\ LeafNodes' = LeafNodes
      /\ \A n : Built(n)' = Built(n)
      /\ \A n : MatchRecorded(n)' = MatchRecorded(n)
  BY <1>2 DEF Nodes, InternalNodes, Leaves, LeafNodes, Built, MatchRecorded, Beats,
     PeekAtSome, Live, Peek, SourceIds, SourceOf
<1>5. 1 \in Nodes /\ subwinner[1] \in Leaves
  BY <1>1, <1>2 DEF TypeOK, Nodes, Built
<1>6. TypeOK'
  BY <1>1, <1>2, <1>4, <1>5 DEF TypeOK, SourcesOK, SourceIds
<1>7. LeavesKnown' /\ WinnersBelow' /\ LosersDiffer' /\ MatchesKnown'
  BY <1>1, <1>2, <1>4 DEF LeavesKnown, WinnersBelow, LosersDiffer, MatchesKnown
<1>8. RunInv'
  <2>1. IsTop(1)
    BY <1>2 DEF IsTop
  <2>2. IsNoLoser(winner)'
    BY <1>1, <1>2, <1>4, <1>5, <2>1 DEF BuildInv, IsNoLoser
  <2>3. \A n \in InternalNodes : MatchRecorded(n)
    BY <1>1, <1>3, ChildrenOf DEF BuildInv
  <2> QED BY <1>2, <1>3, <1>4, <2>2, <2>3 DEF RunInv
<1> QED BY <1>2, <1>6, <1>7, <1>8 DEF IInv
-----------------------------------------------------------------------------
(* f is called with the winner's front and its source advances.            *)
LEMMA EmitPreservesIInv ==
    ASSUME IInv, Emit
    PROVE  IInv'
<1> DEFINE i == SourceOf(winner)
<1>1. TypeOK /\ LeavesKnown /\ WinnersBelow /\ LosersDiffer /\ MatchesKnown /\ RunInv
      /\ SourcesOK /\ winner \in Leaves /\ winner \in Int /\ k_padded \in Nat /\ k_padded >= 1
  BY DEF IInv, Emit, TypeOK, Leaves
<1>2. /\ UNCHANGED <<sources, k_padded, tree, winner, subwinner>>
      /\ pos' = [pos EXCEPT ![i] = @ + 1]
      /\ merged' = Append(merged, Peek(i))
      /\ node' = (winner + k_padded) \div 2
      /\ contender' = winner
      /\ pc' = IF node' >= 1 THEN "replay" ELSE "run"
      /\ i \in SourceIds /\ Live(i)
  BY DEF Emit, Advance, PeekAtSome
<1>3. /\ Nodes' = Nodes /\ InternalNodes' = InternalNodes /\ Leaves' = Leaves
      /\ LeafNodes' = LeafNodes /\ SourceIds' = SourceIds
      /\ \A n : Built(n)' = Built(n)
  BY <1>2 DEF Nodes, InternalNodes, Leaves, LeafNodes, Built, SourceIds
<1>4. node' \in 0..(k_padded - 1)
  BY <1>1, <1>2 DEF Leaves
<1>5. TypeOK'
  <2>1. Peek(i) \in Entry
    BY <1>1, FrontIsEntry DEF Emit
  <2>2. ASSUME NEW j \in SourceIds PROVE pos'[j] \in Nat /\ pos'[j] <= Len(sources[j])
    <3>1. sources \in Seq(Source) /\ pos \in [SourceIds -> Nat] /\ pos[j] <= Len(sources[j])
      BY <1>1, InputsAssumption DEF SourcesOK
    <3>2. Len(sources[j]) \in Nat
      BY <3>1 DEF SourceIds, Source
    <3> QED BY <1>2, <3>1, <3>2 DEF Live
  <2>3. SourcesOK'
    BY <1>1, <1>2, <1>3, <2>2 DEF SourcesOK
  <2> QED BY <1>1, <1>2, <1>3, <1>4, <2>1, <2>3 DEF TypeOK
<1>6. LeavesKnown' /\ WinnersBelow' /\ LosersDiffer' /\ MatchesKnown'
  BY <1>1, <1>2, <1>3 DEF LeavesKnown, WinnersBelow, LosersDiffer, MatchesKnown
<1>7. (* only matches of the old winner are affected                        *)
      ASSUME NEW a \in Leaves, NEW b \in Leaves, a # winner, b # winner
      PROVE  Beats(a, b)' = Beats(a, b)
  <2>1. SourceOf(a) # i /\ SourceOf(b) # i
    BY <1>1, <1>7 DEF SourceOf, Leaves
  <2>2. \A j \in SourceIds : j # i => pos'[j] = pos[j]
    BY <1>1, <1>2 DEF SourcesOK
  <2> QED BY <1>2, <1>3, <2>1, <2>2 DEF Beats, PeekAtSome, Live, Peek, SourceOf
<1>8. ASSUME NEW n \in InternalNodes, subwinner[n] # winner
      PROVE  MatchRecorded(n)'
  <2>1. MatchRecorded(n) /\ tree[n] \in Leaves /\ tree[n] # winner
        /\ subwinner[n] \in Leaves
    BY <1>1, ChildrenOf DEF RunInv, MatchesKnown, IsNoLoser, TypeOK, Built
  <2>2. Beats(tree[n], subwinner[n])' = Beats(tree[n], subwinner[n])
    BY <1>2, <1>7, <1>8, <2>1
  <2> QED BY <1>2, <2>1, <2>2 DEF MatchRecorded
<1>9. CASE node' = 0
  <2>1. InternalNodes = {}
    BY <1>1, <1>2, <1>9 DEF InternalNodes, Leaves
  <2>2. pc' = "run"
    BY <1>2, <1>9
  <2>3. RunInv'
    BY <1>1, <1>2, <1>3, <2>1 DEF RunInv, IsNoLoser
  <2> QED BY <1>5, <1>6, <2>2, <2>3 DEF IInv
<1>10. CASE node' # 0
  <2>1. node' \in InternalNodes /\ node' \in Nat /\ node' >= 1 /\ pc' = "replay"
    BY <1>1, <1>2, <1>4, <1>10 DEF InternalNodes
  <2>2. \A n \in Nodes : n # 1 /\ subwinner[n] = winner => subwinner[n \div 2] = winner
    <3> SUFFICES ASSUME NEW n \in Nodes, n # 1, subwinner[n] = winner
                 PROVE  subwinner[n \div 2] = winner
      OBVIOUS
    <3> DEFINE p == n \div 2
    <3>1. p \in InternalNodes /\ (n = 2 * p \/ n = 2 * p + 1)
      BY <1>1, ParentOf
    <3>2. MatchRecorded(p) /\ tree[p] # winner
      BY <1>1, <3>1, ChildrenOf DEF RunInv, IsNoLoser
    <3> QED BY <3>1, <3>2 DEF MatchRecorded
  <2>3. subwinner[node'] = winner
    <3>1. winner + k_padded \in LeafNodes
      BY <1>1 DEF Leaves, LeafNodes
    <3>2. winner + k_padded \in Nodes /\ subwinner[winner + k_padded] = winner
      BY <1>1, <3>1, NodeKinds DEF LeavesKnown
    <3>3. winner + k_padded # 1
      BY <1>1, <1>2, <2>1
    <3> QED BY <1>2, <2>2, <3>2, <3>3
  <2>4. MatchRecorded(node') /\ tree[node'] # winner
    BY <1>1, <2>1, ChildrenOf DEF RunInv, IsNoLoser
  <2>5. ASSUME NEW n \in InternalNodes, subwinner[n] = winner
        PROVE  n <= node'
    <3>1. winner + k_padded >= 2 * n
      BY <1>1, <2>5, ChildrenOf DEF WinnersBelow, RunInv
    <3> QED BY <1>1, <1>2, <3>1 DEF InternalNodes
  <2>6. ASSUME NEW n \in InternalNodes, n < node', subwinner[n] = winner
        PROVE  2 * n <= node'
    <3>0. n \in Nat /\ n >= 1 /\ 2 * n \in Nodes /\ 2 * n + 1 \in Nodes
      BY <1>1, ChildrenOf
    <3>1. PICK c \in {2 * n, 2 * n + 1} : subwinner[c] = winner
      BY <1>1, <2>6 DEF RunInv, MatchRecorded
    <3>2. CASE c \in InternalNodes
      BY <2>1, <2>5, <3>0, <3>1, <3>2
    <3>3. CASE c \in LeafNodes
      <4>1. c = winner + k_padded
        BY <1>1, <3>1, <3>3 DEF LeavesKnown, LeafNodes
      <4>2. n = node'
        BY <1>1, <1>2, <3>0, <3>1, <4>1
      <4> QED BY <2>1, <2>6, <3>0, <4>2
    <3> QED BY <1>1, <3>0, <3>1, <3>2, <3>3, NodeKinds
  <2>7. ReplayInv'
    <3>1. \A n \in InternalNodes : n > node' \/ subwinner[n] # winner => MatchRecorded(n)'
      <4>1. \A n \in InternalNodes : n \in Nat
        BY <1>1, ChildrenOf
      <4> QED BY <1>8, <2>1, <2>5, <4>1
    <3>2. ASSUME NEW n \in InternalNodes, n < node', subwinner[n] = winner
          PROVE  Paired(n)' /\ tree[n] # winner /\ 2 * n <= node'
      <4>1. MatchRecorded(n) /\ tree[n] # winner
        BY <1>1, ChildrenOf DEF RunInv, IsNoLoser
      <4> QED BY <1>2, <2>6, <3>2, <4>1 DEF Paired, MatchRecorded
    <3>3. \A n \in 2..node' : subwinner[n] = winner => subwinner[n \div 2] = winner
      <4>1. \A n \in 2..node' : n \in Nodes /\ n # 1
        BY <1>1, <2>1 DEF Nodes, InternalNodes
      <4> QED BY <2>2, <4>1
    <3>4. \/ contender' = subwinner[2 * node'] /\ tree[node'] = subwinner[2 * node' + 1]
          \/ contender' = subwinner[2 * node' + 1] /\ tree[node'] = subwinner[2 * node']
      BY <1>2, <2>3, <2>4 DEF MatchRecorded
    <3>5. IsNoLoser(contender)'
      BY <1>1, <1>2, <1>3 DEF RunInv, IsNoLoser
    <3>6. \A n \in Nodes : Built(n)
      BY <1>1 DEF RunInv
    <3> QED BY <1>2, <1>3, <2>1, <2>3, <3>1, <3>2, <3>3, <3>4, <3>5, <3>6 DEF ReplayInv
  <2> QED BY <1>5, <1>6, <2>1, <2>7 DEF IInv
<1> QED BY <1>9, <1>10
-----------------------------------------------------------------------------
(* One match of the replay, at node.                                       *)
LEMMA ReplayStepPreservesIInv ==
    ASSUME IInv, ReplayStep
    PROVE  IInv'
<1> DEFINE stays == Beats(contender, tree[node])
           climbing == IF stays THEN contender ELSE tree[node]
           beaten == IF stays THEN tree[node] ELSE contender
<1>1. TypeOK /\ LeavesKnown /\ WinnersBelow /\ LosersDiffer /\ MatchesKnown /\ ReplayInv
      /\ SourcesOK
  BY DEF IInv, ReplayStep, TypeOK
<1>2. /\ UNCHANGED <<sources, pos, merged, k_padded>>
      /\ tree' = IF stays THEN tree ELSE [tree EXCEPT ![node] = contender]
      /\ contender' = climbing
      /\ subwinner' = [subwinner EXCEPT ![node] = climbing]
      /\ winner' = IF node = 1 THEN climbing ELSE winner
      /\ node' = node \div 2
      /\ pc' = IF node = 1 THEN "run" ELSE "replay"
  BY DEF ReplayStep
<1>3. /\ node \in InternalNodes /\ node \in Nodes /\ node \in Nat /\ node >= 1
      /\ 2 * node \in Nodes /\ 2 * node + 1 \in Nodes
  BY <1>1, ChildrenOf DEF ReplayInv
<1>4. /\ Nodes' = Nodes /\ InternalNodes' = InternalNodes /\ Leaves' = Leaves
      /\ LeafNodes' = LeafNodes
      /\ \A a, b : Beats(a, b)' = Beats(a, b)
  BY <1>2 DEF Nodes, InternalNodes, Leaves, LeafNodes, Beats, PeekAtSome, Live,
     Peek, SourceIds, SourceOf
<1>5. /\ contender \in Leaves /\ tree[node] \in Leaves
      /\ climbing \in Leaves /\ beaten \in Leaves
      /\ tree[node] # contender /\ climbing # beaten
      /\ {climbing, beaten} = {contender, tree[node]}
  BY <1>1, <1>3 DEF TypeOK, MatchesKnown, ReplayInv, IsNoLoser
<1>6. /\ subwinner'[node] = climbing /\ tree'[node] = beaten
      /\ \A m \in Nodes : m # node => subwinner'[m] = subwinner[m]
      /\ \A m \in InternalNodes : m # node => tree'[m] = tree[m]
  BY <1>1, <1>2, <1>3 DEF TypeOK, InternalNodes
<1>7. ~Beats(beaten, climbing)
  <2>1. contender \in Int /\ tree[node] \in Int
    BY <1>5 DEF Leaves
  <2> QED BY <1>1, <2>1, BeatsAsymmetric
<1>8. \/ climbing = subwinner[2 * node] /\ beaten = subwinner[2 * node + 1]
      \/ climbing = subwinner[2 * node + 1] /\ beaten = subwinner[2 * node]
  BY <1>1 DEF ReplayInv
<1> HIDE DEF climbing, beaten
<1>9. \A m \in Nodes : Built(m) /\ Built(m)'
  <2>1. \A m \in Nodes : Built(m)
    BY <1>1 DEF ReplayInv
  <2>2. climbing # NONE_YET
    BY <1>5 DEF Leaves, NONE_YET
  <2> QED BY <1>6, <2>1, <2>2 DEF Built, NONE_YET
<1>10. InternalNodes \subseteq Nodes
  BY <1>1, NodeKinds
<1>11. TypeOK'
  <2>1. tree' \in [0..(k_padded - 1) -> Leaves \cup {NONE_YET}]
    BY <1>1, <1>2, <1>5 DEF TypeOK
  <2>2. node' \in 0..(k_padded - 1)
    BY <1>1, <1>2, <1>3 DEF InternalNodes, TypeOK
  <2> QED BY <1>1, <1>2, <1>4, <1>5, <2>1, <2>2 DEF TypeOK, SourcesOK, SourceIds
<1>12. LeavesKnown'
  <2>1. \A m \in LeafNodes : m \in Nodes /\ m # node
    BY <1>1, <1>3, NodeKinds
  <2> QED BY <1>1, <1>2, <1>4, <1>6, <2>1 DEF LeavesKnown
<1>13. WinnersBelow'
  <2>1. ASSUME NEW c \in {2 * node, 2 * node + 1}
        PROVE  subwinner[c] + k_padded >= 2 * node
    <3>1. c \in Nodes /\ c >= 2 * node /\ c \in Nat
      BY <1>3
    <3>2. CASE c \in LeafNodes
      BY <1>1, <1>3, <3>1, <3>2 DEF LeavesKnown, LeafNodes, TypeOK
    <3>3. CASE c \in InternalNodes
      <4>1. subwinner[c] + k_padded >= 2 * c /\ subwinner[c] \in Int /\ k_padded \in Int
        BY <1>1, <1>9, <3>1, <3>3 DEF WinnersBelow, TypeOK, Leaves, NONE_YET
      <4> QED BY <1>3, <3>1, <4>1
    <3> QED BY <1>1, <3>1, <3>2, <3>3, NodeKinds
  <2>2. climbing + k_padded >= 2 * node
    BY <1>8, <2>1
  <2> QED BY <1>1, <1>2, <1>4, <1>6, <1>9, <1>10, <2>2 DEF WinnersBelow
<1>14. MatchesKnown'
  <2>1. \A m \in InternalNodes : 2 * m \in Nodes /\ 2 * m + 1 \in Nodes
    BY <1>1, ChildrenOf
  <2> QED BY <1>1, <1>4, <1>5, <1>6, <1>9, <1>10, <2>1 DEF MatchesKnown
<1>15. LosersDiffer' /\ (\A m \in InternalNodes : tree'[m] # climbing)
  <2>1. \A m \in InternalNodes : m # node => tree[m] # tree[node] /\ tree[m] # contender
    BY <1>1, <1>3, <1>9, <1>10 DEF LosersDiffer, ReplayInv, IsNoLoser
  <2>2. \A m \in InternalNodes : m # node => tree'[m] # beaten /\ tree'[m] # climbing
    BY <1>5, <1>6, <2>1
  <2>3. \A m, l \in InternalNodes : m # l => tree'[m] # tree'[l]
    BY <1>1, <1>6, <1>9, <1>10, <2>2 DEF LosersDiffer
  <2> QED BY <1>4, <1>5, <1>6, <2>2, <2>3 DEF LosersDiffer
<1>16. ASSUME NEW m \in InternalNodes, m = node
       PROVE  MatchRecorded(m)'
  <2>1. 2 * m # node /\ 2 * m + 1 # node
    BY <1>3, <1>16
  <2>2. subwinner'[2 * m] = subwinner[2 * m] /\ subwinner'[2 * m + 1] = subwinner[2 * m + 1]
    BY <1>3, <1>6, <1>16, <2>1
  <2>3. ~Beats(tree[m], subwinner[m])'
    BY <1>4, <1>6, <1>7, <1>16
  <2> QED BY <1>6, <1>8, <1>16, <2>2, <2>3 DEF MatchRecorded
<1>17. (* matches that do not involve node are not affected                  *)
       ASSUME NEW m \in InternalNodes, m # node, m # node \div 2
       PROVE  /\ MatchRecorded(m)' = MatchRecorded(m)
              /\ Paired(m)' = Paired(m)
              /\ subwinner'[m] = subwinner[m] /\ tree'[m] = tree[m]
  <2>1. m \in Nodes /\ 2 * m \in Nodes /\ 2 * m + 1 \in Nodes
        /\ (2 * m) \div 2 = m /\ (2 * m + 1) \div 2 = m
    BY <1>1, ChildrenOf
  <2>2. 2 * m # node /\ 2 * m + 1 # node
    BY <1>17, <2>1
  <2>3. /\ subwinner'[m] = subwinner[m] /\ tree'[m] = tree[m]
        /\ subwinner'[2 * m] = subwinner[2 * m]
        /\ subwinner'[2 * m + 1] = subwinner[2 * m + 1]
    BY <1>6, <1>17, <2>1, <2>2
  <2>4. Beats(tree[m], subwinner[m])' = Beats(tree[m], subwinner[m])
    BY <1>4, <2>3
  <2> QED BY <2>3, <2>4 DEF MatchRecorded, Paired
<1>18. CASE node = 1
  <2>1. \A m \in InternalNodes : m # 1 => m > 1 /\ m # node \div 2
    BY <1>18 DEF InternalNodes
  <2>2. \A m \in InternalNodes : MatchRecorded(m)'
    BY <1>1, <1>16, <1>17, <1>18, <2>1 DEF ReplayInv
  <2>3. RunInv'
    BY <1>2, <1>4, <1>6, <1>9, <1>15, <1>18, <2>2 DEF RunInv, IsNoLoser
  <2> QED BY <1>2, <1>11, <1>12, <1>13, <1>14, <1>15, <1>18, <2>3 DEF IInv
<1>19. CASE node # 1
  <2> DEFINE up == node \div 2
  <2>1. /\ up \in InternalNodes /\ up \in Nodes /\ up < node /\ up \in Nat /\ up >= 1
        /\ (node = 2 * up \/ node = 2 * up + 1)
        /\ node' = up /\ winner' = winner /\ pc' = "replay"
    BY <1>1, <1>2, <1>3, <1>19, ParentOf, ChildrenOf
  <2>2. subwinner[node] = winner /\ subwinner[up] = winner
        /\ Paired(up) /\ tree[up] # winner
    BY <1>1, <1>3, <1>19, <2>1 DEF ReplayInv
  <2> HIDE DEF up
  <2>3. subwinner'[up] = winner /\ tree'[up] = tree[up]
    BY <1>6, <2>1, <2>2
  <2>4. \/ climbing = subwinner'[2 * up] /\ tree'[up] = subwinner'[2 * up + 1]
        \/ climbing = subwinner'[2 * up + 1] /\ tree'[up] = subwinner'[2 * up]
    <3>1. 2 * up \in Nodes /\ 2 * up + 1 \in Nodes /\ 2 * up # 2 * up + 1
      BY <1>1, <2>1, ChildrenOf
    <3>2. CASE node = 2 * up
      BY <1>6, <2>2, <2>3, <3>1, <3>2 DEF Paired
    <3>3. CASE node = 2 * up + 1
      BY <1>6, <2>2, <2>3, <3>1, <3>3 DEF Paired
    <3> QED BY <2>1, <3>2, <3>3
  <2>5. ASSUME NEW m \in InternalNodes, m > up \/ subwinner'[m] # winner
        PROVE  MatchRecorded(m)'
    <3>0. m \in Nat /\ m >= 1
      BY <1>1, ChildrenOf
    <3>1. CASE m = node
      BY <1>16, <3>1
    <3>2. CASE m # node
      <4>1. m # up
        BY <2>1, <2>3, <2>5
      <4>2. MatchRecorded(m)' = MatchRecorded(m) /\ subwinner'[m] = subwinner[m]
        BY <1>17, <3>2, <4>1 DEF up
      <4>3. m > node \/ subwinner[m] # winner
        <5> SUFFICES ASSUME m < node, subwinner[m] = winner PROVE FALSE
          BY <1>3, <3>0, <3>2
        <5>1. 2 * m <= node
          BY <1>1 DEF ReplayInv
        <5>2. m <= up
          BY <1>3, <2>1, <3>0, <5>1
        <5> QED BY <2>1, <2>5, <3>0, <4>1, <4>2, <5>2
      <4>4. MatchRecorded(m)
        BY <1>1, <4>3 DEF ReplayInv
      <4> QED BY <4>2, <4>4
    <3> QED BY <3>1, <3>2
  <2>6. ASSUME NEW m \in InternalNodes, m < up, subwinner'[m] = winner
        PROVE  Paired(m)' /\ tree'[m] # winner /\ 2 * m <= up
    <3>0. m \in Nat /\ m >= 1 /\ m < node /\ m # up
          /\ 2 * m \in Nodes /\ 2 * m + 1 \in Nodes
      BY <1>1, <1>3, <2>1, <2>6, ChildrenOf
    <3>1. Paired(m)' = Paired(m) /\ subwinner'[m] = subwinner[m] /\ tree'[m] = tree[m]
      BY <1>17, <3>0 DEF up
    <3>2. Paired(m) /\ tree[m] # winner /\ 2 * m <= node /\ subwinner[m] = winner
      BY <1>1, <2>6, <3>0, <3>1 DEF ReplayInv
    <3>3. PICK c \in {2 * m, 2 * m + 1} : subwinner[c] = winner
      BY <3>2 DEF Paired
    <3>4. c < node /\ c \in Nat /\ c >= 1
      BY <1>3, <2>1, <3>0, <3>2, <3>3
    <3>5. c \in InternalNodes
      BY <1>1, <1>3, <3>4 DEF InternalNodes, TypeOK
    <3>6. 2 * c <= node
      BY <1>1, <3>3, <3>4, <3>5 DEF ReplayInv
    <3>7. 2 * m <= up
      BY <1>3, <2>1, <3>0, <3>3, <3>4, <3>6
    <3> QED BY <3>1, <3>2, <3>7
  <2>7. ASSUME NEW m \in 2..up, subwinner'[m] = winner
        PROVE  subwinner'[m \div 2] = winner
    <3>1. m \in 2..node /\ m # node /\ m \in Nodes
      BY <1>1, <1>3, <2>1 DEF Nodes, InternalNodes, TypeOK
    <3>2. m \div 2 \in InternalNodes /\ m \div 2 < m
      BY <1>1, <3>1, ParentOf
    <3>3. m \div 2 # node /\ m \div 2 \in Nodes
      BY <1>3, <1>10, <3>1, <3>2 DEF InternalNodes
    <3>4. subwinner[m] = winner
      BY <1>6, <2>7, <3>1
    <3>5. subwinner[m \div 2] = winner
      BY <1>1, <3>1, <3>4 DEF ReplayInv
    <3> QED BY <1>6, <3>3, <3>5
  <2>8. IsNoLoser(contender)'
    BY <1>2, <1>4, <1>15 DEF IsNoLoser
  <2>9. ReplayInv'
    BY <1>2, <1>4, <1>9, <2>1, <2>3, <2>4, <2>5, <2>6, <2>7, <2>8 DEF ReplayInv
  <2> QED BY <1>11, <1>12, <1>13, <1>14, <1>15, <2>1, <2>9 DEF IInv
<1> QED BY <1>18, <1>19
-----------------------------------------------------------------------------
(* run breaks out of its loop.                                             *)
LEMMA StopPreservesIInv ==
    ASSUME IInv, Stop
    PROVE  IInv'
<1>1. pc = "run" /\ pc' = "done"
      /\ UNCHANGED <<sources, pos, merged, k_padded, tree, winner, subwinner, node, contender>>
  BY DEF Stop
<1>2. TypeOK'
  BY <1>1 DEF IInv, TypeOK, SourcesOK, SourceIds, Leaves, Nodes
<1>3. /\ Nodes' = Nodes /\ InternalNodes' = InternalNodes /\ Leaves' = Leaves
      /\ LeafNodes' = LeafNodes
      /\ \A n : Built(n)' = Built(n)
      /\ \A n : MatchRecorded(n)' = MatchRecorded(n)
  BY <1>1 DEF Nodes, InternalNodes, Leaves, LeafNodes, Built, MatchRecorded, Beats,
     PeekAtSome, Live, Peek, SourceIds, SourceOf
<1>4. LeavesKnown' /\ WinnersBelow' /\ LosersDiffer' /\ MatchesKnown'
  BY <1>1, <1>3 DEF IInv, LeavesKnown, WinnersBelow, LosersDiffer, MatchesKnown
<1>5. RunInv'
  BY <1>1, <1>3 DEF IInv, RunInv, IsNoLoser
<1>6. ~PeekAtSome(winner)'
  BY <1>1 DEF Stop, PeekAtSome, Live, SourceIds, SourceOf
<1> QED BY <1>1, <1>2, <1>4, <1>5, <1>6 DEF IInv

LEMMA StutterPreservesIInv ==
    ASSUME IInv, UNCHANGED vars
    PROVE  IInv'
<1>1. UNCHANGED <<sources, pos, merged, k_padded, tree, winner, subwinner, node,
                  contender, pc>>
  BY DEF vars, treeVars
<1>2. TypeOK'
  BY <1>1 DEF IInv, TypeOK, SourcesOK, SourceIds, Leaves, Nodes
<1>3. /\ Nodes' = Nodes /\ InternalNodes' = InternalNodes /\ Leaves' = Leaves
      /\ LeafNodes' = LeafNodes
      /\ \A n : Built(n)' = Built(n)
      /\ \A n : MatchRecorded(n)' = MatchRecorded(n)
      /\ \A n : Paired(n)' = Paired(n)
      /\ \A n : IsTop(n)' = IsTop(n)
  BY <1>1 DEF Nodes, InternalNodes, Leaves, LeafNodes, Built, MatchRecorded, Beats,
     PeekAtSome, Live, Peek, SourceIds, SourceOf, Paired, IsTop
<1>4. LeavesKnown' /\ WinnersBelow' /\ LosersDiffer' /\ MatchesKnown'
  BY <1>1, <1>3 DEF IInv, LeavesKnown, WinnersBelow, LosersDiffer, MatchesKnown
<1>5. BuildInv' = BuildInv /\ RunInv' = RunInv /\ ReplayInv' = ReplayInv
  BY <1>1, <1>3 DEF BuildInv, RunInv, ReplayInv, IsNoLoser
<1>6. PeekAtSome(winner)' = PeekAtSome(winner)
  BY <1>1 DEF PeekAtSome, Live, SourceIds, SourceOf
<1> QED BY <1>1, <1>2, <1>4, <1>5, <1>6 DEF IInv

LEMMA NextPreservesIInv == IInv /\ [Next]_vars => IInv'
<1> SUFFICES ASSUME IInv, [Next]_vars PROVE IInv'
  OBVIOUS
<1>1. CASE \E n \in InternalNodes : BuildNode(n)
  BY <1>1, BuildNodePreservesIInv
<1>2. CASE FinishBuild
  BY <1>2, FinishBuildPreservesIInv
<1>3. CASE Emit
  BY <1>3, EmitPreservesIInv
<1>4. CASE ReplayStep
  BY <1>4, ReplayStepPreservesIInv
<1>5. CASE Stop
  BY <1>5, StopPreservesIInv
<1>6. CASE Terminated
  BY <1>6, StutterPreservesIInv DEF Terminated
<1>7. CASE UNCHANGED vars
  BY <1>7, StutterPreservesIInv
<1> QED BY <1>1, <1>2, <1>3, <1>4, <1>5, <1>6, <1>7 DEF Next

LEMMA InvariantIInv == Spec => []IInv
BY InitEstablishesIInv, NextPreservesIInv, PTL DEF Spec
-----------------------------------------------------------------------------
(* Tree, winner and path hold leaves and nodes of the tree.                *)
THEOREM TypeCorrect == Spec => []TypeOK
<1>1. IInv => TypeOK
  BY DEF IInv
<1> QED BY <1>1, InvariantIInv, PTL

(* Every recorded loser is the loser its match would have now, between two *)
(* turns of run's loop and off the path of a replay in progress: one path  *)
(* is all that replay_from_leaf has to play again.                         *)
THEOREM MatchesStand == Spec => []TreeRecordsMatches
<1>1. IInv => TreeRecordsMatches
  BY DEF IInv, TreeRecordsMatches, RunInv, ReplayInv
<1> QED BY <1>1, InvariantIInv, PTL

LEMMA WinnerLeastOnceBuilt ==
    ASSUME IInv, pc \in {"run", "done"}, NEW leaf \in Leaves
    PROVE  ~Beats(leaf, winner)
BY StandingTreeHasLeastWinner DEF IInv

(* Whenever run reads winner, no leaf beats it.                            *)
THEOREM WinnerAlwaysLeast == Spec => []WinnerIsLeast
<1>1. IInv => WinnerIsLeast
  BY WinnerLeastOnceBuilt DEF WinnerIsLeast
<1> QED BY <1>1, InvariantIInv, PTL

(* A live source has a leaf.                                               *)
LEMMA LiveSourceIsLeaf ==
    ASSUME TypeOK, NEW j \in SourceIds, Live(j)
    PROVE  j - 1 \in Leaves /\ SourceOf(j - 1) = j /\ PeekAtSome(j - 1)
<1>1. sources \in Seq(Source) /\ Len(sources) <= k_padded /\ k_padded \in Nat
  BY InputsAssumption DEF TypeOK, SourcesOK
<1>2. j \in 1..Len(sources) /\ Len(sources) \in Nat
  BY <1>1 DEF SourceIds
<1> QED BY <1>1, <1>2 DEF Leaves, SourceOf, PeekAtSome

LEMMA IInvImpliesExhausted == IInv => StopsOnlyWhenExhausted
<1> SUFFICES ASSUME IInv, pc = "done", NEW j \in SourceIds, Live(j)
             PROVE  FALSE
  BY DEF StopsOnlyWhenExhausted, Exhausted
<1>1. j - 1 \in Leaves /\ PeekAtSome(j - 1)
  BY LiveSourceIsLeaf DEF IInv
<1>2. ~Beats(j - 1, winner)
  BY <1>1, WinnerLeastOnceBuilt
<1> QED BY <1>1, <1>2 DEF IInv, Beats

(* run breaks out of its loop only when every source is exhausted.         *)
THEOREM StopsAtTheEnd == Spec => []StopsOnlyWhenExhausted
BY IInvImpliesExhausted, InvariantIInv, PTL

(* A turn of run's loop calls f as the abstract merge may.                 *)
LEMMA EmitImplementsEmit ==
    ASSUME IInv, Emit
    PROVE  Abstract!Next
<1> DEFINE i == SourceOf(winner)
<1>1. i \in SourceIds /\ Live(i) /\ pc = "run"
  BY DEF Emit, PeekAtSome
<1>2. ASSUME NEW j \in SourceIds, Live(j)
      PROVE  ~Less(Peek(j), Peek(i))
  <2>1. j - 1 \in Leaves /\ SourceOf(j - 1) = j /\ PeekAtSome(j - 1)
    BY <1>2, LiveSourceIsLeaf DEF IInv
  <2>2. ~Beats(j - 1, winner)
    BY <1>1, <2>1, WinnerLeastOnceBuilt
  <2> QED BY <2>1, <2>2 DEF Beats
<1>3. Abstract!Emit(i)
  BY <1>1, <1>2 DEF Emit, Abstract!Emit, Abstract!Live, Abstract!Peek, Abstract!Less,
     Abstract!SourceIds, Abstract!Advance, Live, Peek, Less, SourceIds, Advance
<1> QED BY <1>1, <1>3 DEF Abstract!Next, Abstract!SourceIds, SourceIds

(* LoserTreeMerger implements the safety part of the k-way merge's         *)
(* specification: building the tree and replaying it are invisible, and    *)
(* every call of f is with a front that no other front belongs before.     *)
THEOREM RefinesKWayMerge ==
    Spec => Abstract!Init /\ [][Abstract!Next]_(Abstract!vars)
<1>1. Init => Abstract!Init
  BY DEF Init, SourcesInit, SourceIds, Abstract!Init, Abstract!SourcesInit,
     Abstract!SourceIds
<1>2. IInv /\ [Next]_vars => [Abstract!Next]_(Abstract!vars)
  <2> SUFFICES ASSUME IInv, [Next]_vars PROVE [Abstract!Next]_(Abstract!vars)
    OBVIOUS
  <2>1. CASE \E n \in InternalNodes : BuildNode(n)
    BY <2>1 DEF BuildNode, Abstract!vars
  <2>2. CASE FinishBuild
    BY <2>2 DEF FinishBuild, Abstract!vars
  <2>3. CASE Emit
    BY <2>3, EmitImplementsEmit
  <2>4. CASE ReplayStep
    BY <2>4 DEF ReplayStep, Abstract!vars
  <2>5. CASE Stop
    BY <2>5 DEF Stop, Abstract!vars
  <2>6. CASE Terminated
    BY <2>6 DEF Terminated, vars, Abstract!vars
  <2>7. CASE UNCHANGED vars
    BY <2>7 DEF vars, Abstract!vars
  <2> QED BY <2>1, <2>2, <2>3, <2>4, <2>5, <2>6, <2>7 DEF Next
<1> QED BY <1>1, <1>2, InvariantIInv, PTL DEF Spec
-----------------------------------------------------------------------------
(* HeapMerger.                                                             *)

HeapInv == HeapTypeOK /\ HeapMirrorsFronts

(* Sources are sequences of entries.                                       *)
LEMMA SourceIsSeq ==
    ASSUME SourcesOK, NEW i \in SourceIds
    PROVE  sources[i] \in Seq(Entry)
<1>1. sources \in Seq(Source)
  BY InputsAssumption DEF SourcesOK
<1>2. sources[i] \in Source
  BY <1>1 DEF SourceIds
<1> QED BY <1>2 DEF Source

(* The front of a live source is an entry.                                 *)
LEMMA PeekIsEntry ==
    ASSUME SourcesOK, NEW i \in SourceIds, Live(i)
    PROVE  Peek(i) \in Entry
BY SourceIsSeq DEF SourcesOK, Live, Peek

(* Under the invariant the heap is a set of well-typed entries.            *)
LEMMA FrontsAreHeapEntries ==
    ASSUME SourcesOK
    PROVE  LiveFronts \subseteq HeapEntry
<1> SUFFICES ASSUME NEW i \in SourceIds, Live(i)
             PROVE  [source_idx |-> i, key |-> KeyOf(Peek(i))] \in HeapEntry
  BY DEF LiveFronts
<1>1. i \in Nat
  BY InputsAssumption DEF SourcesOK, SourceIds
<1>2. KeyOf(Peek(i)) \in [uk : Nat, packed : Nat]
  BY PeekIsEntry DEF KeyOf, Entry
<1> QED BY <1>1, <1>2 DEF HeapEntry

LEMMA HeapInitInv == HeapInit => HeapInv
<1> SUFFICES ASSUME HeapInit PROVE HeapInv
  OBVIOUS
<1>1. sources \in Seq(Source)
  BY InputsAssumption DEF HeapInit, SourcesInit
<1>2. ASSUME NEW i \in SourceIds PROVE pos[i] = 0 /\ pos[i] <= Len(sources[i])
  BY <1>1, <1>2 DEF HeapInit, SourcesInit, SourceIds, Source
<1>3. SourcesOK
  BY <1>2 DEF HeapInit, SourcesInit, SourcesOK
<1> QED BY <1>3, FrontsAreHeapEntries
        DEF HeapInit, HeapInv, HeapTypeOK, HeapMirrorsFronts

(* What Step finds in the heap: the entry of a live source, with its       *)
(* current key, and no front before it.                                    *)
LEMMA PoppedIsALeastFront ==
    ASSUME HeapInv, NEW h \in heap, Popped(h)
    PROVE  /\ h.source_idx \in SourceIds
           /\ Live(h.source_idx)
           /\ h.key = KeyOf(Peek(h.source_idx))
           /\ \A j \in SourceIds :
                  Live(j) => ~Less(Peek(j), Peek(h.source_idx))
<1>1. PICK i \in SourceIds : Live(i) /\ h = [source_idx |-> i, key |-> KeyOf(Peek(i))]
  BY DEF HeapInv, HeapMirrorsFronts, LiveFronts
<1>2. ASSUME NEW j \in SourceIds, Live(j)
      PROVE  ~Less(Peek(j), Peek(i))
  <2> DEFINE other == [source_idx |-> j, key |-> KeyOf(Peek(j))]
  <2>1. other \in heap
    BY <1>2 DEF HeapInv, HeapMirrorsFronts, LiveFronts
  <2>2. ~Less(other.key, h.key)
    BY <2>1 DEF Popped
  <2> QED BY <1>1, <2>2 DEF Less, KeyOf
<1> QED BY <1>1, <1>2

(* After a turn of the loop the heap mirrors the fronts again.             *)
LEMMA HeapStepInv ==
    ASSUME HeapInv, NEW h \in heap, Step(h)
    PROVE  HeapInv'
<1> DEFINE i == h.source_idx
           front(j) == [source_idx |-> j, key |-> KeyOf(Peek(j))]
<1>1. /\ SourcesOK /\ merged \in Seq(Entry)
      /\ i \in SourceIds /\ Live(i)
      /\ h = front(i)
  <2>1. PICK j \in SourceIds : Live(j) /\ h = front(j)
    BY DEF HeapInv, HeapMirrorsFronts, LiveFronts
  <2> QED BY <2>1 DEF HeapInv, HeapTypeOK
<1>2. /\ sources' = sources /\ SourceIds' = SourceIds
      /\ pos' = [pos EXCEPT ![i] = @ + 1]
      /\ merged' = Append(merged, Peek(i))
      /\ heap' = (heap \ {h}) \cup Pushed(i)
  BY DEF Step, Advance, SourceIds
<1>3. pos \in [SourceIds -> Nat] /\ sources[i] \in Seq(Entry)
  BY <1>1, SourceIsSeq DEF SourcesOK
<1>4. SourcesOK'
  <2>1. ASSUME NEW j \in SourceIds PROVE pos'[j] <= Len(sources[j])
    BY <1>1, <1>2, <1>3 DEF SourcesOK, Live
  <2> QED BY <1>1, <1>2, <1>3, <2>1 DEF SourcesOK
<1>5. ASSUME NEW j \in SourceIds, j # i
      PROVE  Live(j)' = Live(j) /\ front(j)' = front(j)
  BY <1>2, <1>3, <1>5 DEF Live, Peek
<1>6. Live(i)' = (pos[i] + 1 < Len(sources[i])) /\ Peek(i)' = sources[i][pos[i] + 2]
  BY <1>1, <1>2, <1>3 DEF Live, Peek
<1>7. heap' = LiveFronts'
  <2>1. ASSUME NEW g \in heap' PROVE g \in LiveFronts'
    <3>1. CASE g \in heap \ {h}
      <4>1. PICK j \in SourceIds : Live(j) /\ g = front(j)
        BY <3>1 DEF HeapInv, HeapMirrorsFronts, LiveFronts
      <4>2. j # i
        BY <1>1, <3>1, <4>1
      <4> QED BY <1>2, <1>5, <4>1, <4>2 DEF LiveFronts
    <3>2. CASE g \in Pushed(i)
      <4>1. Live(i)' /\ g = front(i)'
        BY <1>6, <3>2 DEF Pushed
      <4> QED BY <1>1, <1>2, <4>1 DEF LiveFronts
    <3> QED BY <1>2, <2>1, <3>1, <3>2
  <2>2. ASSUME NEW g \in LiveFronts' PROVE g \in heap'
    <3>1. PICK j \in SourceIds : Live(j)' /\ g = front(j)'
      BY <1>2, <2>2 DEF LiveFronts
    <3>2. CASE j = i
      BY <1>2, <1>6, <3>1, <3>2 DEF Pushed
    <3>3. CASE j # i
      <4>1. Live(j) /\ g = front(j)
        BY <1>5, <3>1, <3>3
      <4>2. g \in heap /\ g # h
        BY <1>1, <3>3, <4>1 DEF HeapInv, HeapMirrorsFronts, LiveFronts
      <4> QED BY <1>2, <4>2
    <3> QED BY <3>2, <3>3
  <2> QED BY <2>1, <2>2
<1>8. merged' \in Seq(Entry)
  BY <1>1, <1>2, PeekIsEntry
<1>9. heap' \subseteq HeapEntry
  <2>1. Pushed(i) \subseteq HeapEntry
    <3> SUFFICES ASSUME pos[i] + 1 < Len(sources[i])
                 PROVE  front(i)' \in HeapEntry
      BY <1>6 DEF Pushed
    <3>1. Peek(i)' \in Entry
      BY <1>1, <1>3, <1>6
    <3>2. i \in Nat
      BY <1>1 DEF HeapInv, HeapTypeOK, HeapEntry
    <3> QED BY <3>1, <3>2 DEF HeapEntry, KeyOf, Entry
  <2> QED BY <1>2, <2>1 DEF HeapInv, HeapTypeOK
<1> QED BY <1>4, <1>7, <1>8, <1>9 DEF HeapInv, HeapTypeOK, HeapMirrorsFronts

LEMMA HeapStutterInv ==
    ASSUME HeapInv, UNCHANGED heapVars
    PROVE  HeapInv'
BY DEF HeapInv, heapVars, HeapTypeOK, SourcesOK, SourceIds, HeapMirrorsFronts, LiveFronts,
       Live, Peek

LEMMA HeapNextInv == HeapInv /\ [HeapNext]_heapVars => HeapInv'
<1> SUFFICES ASSUME HeapInv, [HeapNext]_heapVars PROVE HeapInv'
  OBVIOUS
<1>1. CASE \E h \in heap : Step(h)
  BY <1>1, HeapStepInv
<1>2. CASE HeapTerminated
  BY <1>2, HeapStutterInv DEF HeapTerminated
<1>3. CASE UNCHANGED heapVars
  BY <1>3, HeapStutterInv
<1> QED BY <1>1, <1>2, <1>3 DEF HeapNext

LEMMA HeapInvariance == HeapSpec => []HeapInv
BY HeapInitInv, HeapNextInv, PTL DEF HeapSpec

(* Read positions stay inside the sources and the heap holds keys.         *)
THEOREM HeapTypeCorrect == HeapSpec => []HeapTypeOK
<1>1. HeapInv => HeapTypeOK
  BY DEF HeapInv
<1> QED BY <1>1, HeapInvariance, PTL

(* No heap entry ever outlives the front it was copied from, so            *)
(* expect("heap entry stale") never panics.                                *)
THEOREM HeapNeverStale == HeapSpec => []HeapMirrorsFronts
<1>1. HeapInv => HeapMirrorsFronts
  BY DEF HeapInv
<1> QED BY <1>1, HeapInvariance, PTL

(* A turn of the loop is a step of the abstract merge.                     *)
LEMMA HeapStepImplementsEmit ==
    ASSUME HeapInv, NEW h \in heap, Step(h)
    PROVE  Abstract!Next
<1>1. Popped(h)
  BY DEF Step
<1>2. /\ h.source_idx \in SourceIds
      /\ \A j \in SourceIds : Live(j) => ~Less(Peek(j), Peek(h.source_idx))
  BY <1>1, PoppedIsALeastFront
<1>3. Abstract!Emit(h.source_idx)
  BY <1>2 DEF Step, Abstract!Emit, Abstract!Live, Abstract!Peek, Abstract!Less,
     Abstract!SourceIds, Abstract!Advance, Live, Peek, Less, SourceIds, Advance
<1> QED BY <1>2, <1>3 DEF Abstract!Next, Abstract!SourceIds, SourceIds

(* The heap is empty only when every source is exhausted.                  *)
LEMMA HeapEmptyImplementsTerminated ==
    ASSUME HeapInv, HeapTerminated
    PROVE  Abstract!Next
<1>1. \A i \in SourceIds : ~Live(i)
  BY DEF HeapInv, HeapMirrorsFronts, LiveFronts, HeapTerminated
<1> QED BY <1>1 DEF HeapTerminated, heapVars, Abstract!Next, Abstract!Terminated,
      Abstract!Exhausted, Abstract!vars, Abstract!Live, Abstract!SourceIds, Live,
      SourceIds

(* HeapMerger implements the safety part of the k-way merge's              *)
(* specification: it starts as one, and every turn of run's loop calls f   *)
(* with a front that no other front belongs before.                        *)
THEOREM HeapRefinesKWayMerge ==
    HeapSpec => Abstract!Init /\ [][Abstract!Next]_(Abstract!vars)
<1>1. HeapInit => Abstract!Init
  BY DEF HeapInit, SourcesInit, SourceIds, Abstract!Init, Abstract!SourcesInit,
     Abstract!SourceIds
<1>2. HeapInv /\ [HeapNext]_heapVars => [Abstract!Next]_(Abstract!vars)
  <2> SUFFICES ASSUME HeapInv, [HeapNext]_heapVars PROVE [Abstract!Next]_(Abstract!vars)
    OBVIOUS
  <2>1. CASE \E h \in heap : Step(h)
    BY <2>1, HeapStepImplementsEmit
  <2>2. CASE HeapTerminated
    BY <2>2, HeapEmptyImplementsTerminated
  <2>3. CASE UNCHANGED heapVars
    BY <2>3 DEF heapVars, Abstract!vars
  <2> QED BY <2>1, <2>2, <2>3 DEF HeapNext
<1> QED BY <1>1, <1>2, HeapInvariance, PTL DEF HeapSpec
-----------------------------------------------------------------------------
Merge == INSTANCE KWayMergeProofs

(* The abstract merge of the proofs is the abstract merge implemented.     *)
LEMMA SameMerge ==
    /\ \A input \in Inputs : input \in Seq(Merge!Source)
    /\ Abstract!Init => Merge!Init
    /\ [Abstract!Next]_(Abstract!vars) => [Merge!Next]_(Merge!vars)
<1>1. Merge!Source = Source
  BY DEF Merge!Source, Source, Merge!Entry, Entry, Merge!Ascending, Ascending,
     Merge!Less, Less
<1>2. Abstract!Init => Merge!Init
  BY DEF Abstract!Init, Merge!Init, Abstract!SourcesInit, Merge!SourcesInit,
     Abstract!SourceIds, Merge!SourceIds
<1>3. [Abstract!Next]_(Abstract!vars) => [Merge!Next]_(Merge!vars)
  BY DEF Abstract!Next, Merge!Next, Abstract!vars, Merge!vars, Abstract!Emit, Merge!Emit,
     Abstract!Terminated, Merge!Terminated, Abstract!Exhausted, Merge!Exhausted,
     Abstract!Live, Merge!Live, Abstract!Peek, Merge!Peek, Abstract!Less, Merge!Less,
     Abstract!Advance, Merge!Advance, Abstract!SourceIds, Merge!SourceIds
<1> QED BY <1>1, <1>2, <1>3, InputsAssumption

(* What the abstract merge owes f, a merger that implements it delivers.   *)
LEMMA MergeOwes ==
    ASSUME Merge!IInv, Merge!CountsAgree
    PROVE  MergedAscending /\ MergedIsConsumed /\ NothingLost
<1>1. MergedAscending
  BY DEF Merge!IInv, Merge!MergedAscending, MergedAscending, Merge!Ascending, Ascending,
     Merge!Less, Less
<1>2. MergedIsConsumed
  BY DEF Merge!IInv, Merge!MergedIsConsumed, MergedIsConsumed, Merge!ToSet, ToSet,
     Merge!Consumed, Consumed, Merge!SourceIds, SourceIds
<1>3. Merge!NothingLost
  BY SameMerge, Merge!CountsAtTheEnd
<1>4. Merge!SourceIds = SourceIds
  BY DEF Merge!SourceIds, SourceIds
<1>5. Merge!Exhausted = Exhausted
  BY <1>4 DEF Merge!Exhausted, Exhausted, Merge!Live, Live
<1>6. /\ Merge!ToSet(merged) = ToSet(merged)
      /\ \A i \in SourceIds : Merge!ToSet(sources[i]) = ToSet(sources[i])
  BY DEF Merge!ToSet, ToSet
<1>7. UNION {Merge!ToSet(sources[i]) : i \in SourceIds} = UNION {ToSet(sources[i]) : i \in SourceIds}
  BY <1>6
<1>8. ASSUME NEW e PROVE Merge!CallsWith(e) = CallsWith(e) /\ Merge!PlacesOf(e) = PlacesOf(e)
  BY <1>4 DEF Merge!CallsWith, CallsWith, Merge!PlacesOf, PlacesOf
<1>9. NothingLost
  <2> SUFFICES ASSUME Exhausted,
                      NEW e \in ToSet(merged) \cup UNION {ToSet(sources[i]) : i \in SourceIds}
               PROVE  Cardinality(CallsWith(e)) = Cardinality(PlacesOf(e))
    BY DEF NothingLost
  <2>1. e \in Merge!ToSet(merged) \cup UNION {Merge!ToSet(sources[i]) : i \in Merge!SourceIds}
    BY <1>4, <1>6, <1>7
  <2>2. Merge!Cardinality(CallsWith(e)) = Merge!Cardinality(PlacesOf(e))
    BY <1>3, <1>5, <1>8, <2>1 DEF Merge!NothingLost
  <2> QED BY <2>2 DEF Merge!Cardinality, Cardinality
<1> QED BY <1>1, <1>2, <1>9

(* A merger that implements the abstract merge keeps its invariants.       *)
LEMMA MergeInvariants ==
    Abstract!Init /\ [][Abstract!Next]_(Abstract!vars)
        => [](MergedAscending /\ MergedIsConsumed /\ NothingLost)
<1>1. Abstract!Init => Merge!IInv /\ Merge!CountsAgree
  BY SameMerge, Merge!InitEstablishesIInv, Merge!InitCounts
<1>2. Merge!IInv /\ Merge!CountsAgree /\ [Abstract!Next]_(Abstract!vars)
          => Merge!IInv' /\ Merge!CountsAgree'
  BY SameMerge, Merge!NextPreservesIInv, Merge!NextPreservesCounts
<1>3. Merge!IInv /\ Merge!CountsAgree => MergedAscending /\ MergedIsConsumed /\ NothingLost
  BY MergeOwes
<1> QED BY <1>1, <1>2, <1>3, PTL

(* Whatever the sources, LoserTreeMerger calls f in internal-key order,    *)
(* with the entries consumed so far and no others, and when it is done     *)
(* with every entry as often as it occurs.                                 *)
THEOREM MergesCorrectly == Spec => [](MergedAscending /\ MergedIsConsumed /\ NothingLost)
BY RefinesKWayMerge, MergeInvariants, PTL

(* The same of HeapMerger.                                                 *)
THEOREM HeapMergesCorrectly ==
    HeapSpec => [](MergedAscending /\ MergedIsConsumed /\ NothingLost)
BY HeapRefinesKWayMerge, MergeInvariants, PTL
=============================================================================
