--------------------------- MODULE CommandLineProofs ---------------------------
(***************************************************************************)
(* Proofs about Diff and CommandLine.  What the loops of DiffContent pair is   *)
(* followed by the indices of the two lists: DiffInv says which texts lie in   *)
(* which list at every turn, so that the properties, which count, need no      *)
(* counting before the end.  RunInv says what a run has touched by each stage. *)
(***************************************************************************)
EXTENDS CommandLine, OrderedSetsProofs

-----------------------------------------------------------------------------
(* The operators of Diff.                                                     *)

\* What a list of nodes says, and that no text is in it twice.
Texts(nodes) == {nodes[i].hash : i \in DOMAIN nodes}
Once(nodes) == \A i, j \in DOMAIN nodes : nodes[i].hash = nodes[j].hash => i = j

News == [i \in DOMAIN modified |-> modified[i].new]

(* Of a list without repetitions every text is counted once.                  *)
LEMMA TimesOfOnce ==
  ASSUME NEW nodes, Once(nodes), NEW hash
  PROVE  Times(hash, nodes) = IF hash \in Texts(nodes) THEN 1 ELSE 0
  <1> DEFINE At == {i \in DOMAIN nodes : nodes[i].hash = hash}
  <1>1. CASE hash \in Texts(nodes)
    <2>1. PICK i \in DOMAIN nodes : nodes[i].hash = hash
      BY <1>1 DEF Texts
    <2>2. At = {i}
      BY <2>1 DEF Once
    <2> QED
      BY <1>1, <2>2, FS_Singleton DEF Times
  <1>2. CASE hash \notin Texts(nodes)
    <2>1. At = {}
      BY <1>2 DEF Texts
    <2> QED
      BY <1>2, <2>1, FS_EmptySet DEF Times
  <1> QED
    BY <1>1, <1>2

(* The same for a set of nodes with different texts.                          *)
LEMMA CountOfOne ==
  ASSUME NEW S, \A m, n \in S : m.hash = n.hash => m = n, NEW hash
  PROVE  Cardinality({node \in S : node.hash = hash}) = IF hash \in HashesOf(S) THEN 1 ELSE 0
  <1> DEFINE With == {node \in S : node.hash = hash}
  <1>1. CASE hash \in HashesOf(S)
    <2>1. PICK n \in S : n.hash = hash
      BY <1>1 DEF HashesOf
    <2>2. With = {n}
      BY <2>1
    <2> QED
      BY <1>1, <2>2, FS_Singleton
  <1>2. CASE hash \notin HashesOf(S)
    <2>1. With = {}
      BY <1>2 DEF HashesOf
    <2> QED
      BY <1>2, <2>1, FS_EmptySet
  <1> QED
    BY <1>1, <1>2

(* ByHash keeps a finite set of nodes with different texts (diff.go:63-72).   *)
LEMMA ByHashIsSmall ==
  ASSUME NEW nodes \in Seq(Node)
  PROVE  /\ IsFiniteSet(ByHash(nodes))
         /\ ByHash(nodes) \subseteq Node
         /\ \A m, n \in ByHash(nodes) : m.hash = n.hash => m = n
  <1> DEFINE Latest == {i \in DOMAIN nodes : \A j \in (i + 1)..Len(nodes) :
                                              nodes[j].hash # nodes[i].hash}
             Taken == [i \in Latest |-> nodes[i]]
  <1>1. /\ Len(nodes) \in Nat /\ DOMAIN nodes = 1..Len(nodes)
        /\ \A i \in DOMAIN nodes : nodes[i] \in Node
    OBVIOUS
  <1>2. ByHash(nodes) = {nodes[i] : i \in Latest}
    BY DEF ByHash
  <1>3. IsFiniteSet(Latest)
    <2>1. IsFiniteSet(DOMAIN nodes)
      BY <1>1, FS_Interval
    <2> QED
      BY <2>1, FS_Subset
  <1>4. Taken \in Surjection(Latest, ByHash(nodes))
    BY <1>2 DEF Surjection
  <1>5. IsFiniteSet(ByHash(nodes))
    BY <1>3, <1>4, FS_Surjection
  <1>6. ByHash(nodes) \subseteq Node
    BY <1>1, <1>2
  <1>7. ASSUME NEW m \in ByHash(nodes), NEW n \in ByHash(nodes), m.hash = n.hash
        PROVE  m = n
    <2>1. PICK i \in Latest : m = nodes[i]
      BY <1>2
    <2>2. PICK j \in Latest : n = nodes[j]
      BY <1>2
    <2>3. ~(j \in (i + 1)..Len(nodes)) /\ ~(i \in (j + 1)..Len(nodes))
      BY <1>7, <2>1, <2>2
    <2>4. i = j
      BY <1>1, <2>3
    <2> QED
      BY <2>1, <2>2, <2>4
  <1> QED
    BY <1>5, <1>6, <1>7

(* A list in the order of a map holds every entry of the map, and none twice. *)
LEMMA AnyOrder ==
  ASSUME NEW S, IsFiniteSet(S), S \subseteq Node,
         \A m, n \in S : m.hash = n.hash => m = n,
         NEW list \in SetToSeqs(S)
  PROVE  list \in Seq(Node) /\ Once(list) /\ Texts(list) = HashesOf(S)
  <1> DEFINE n == Cardinality(S)
  <1>1. n \in Nat
    BY FS_CardinalityType
  <1>2. list \in [1..n -> S] /\ \A i, j \in 1..n : i # j => list[i] # list[j]
    BY DEF SetToSeqs
  <1>3. list \in Injection(1..n, S)
    BY <1>2 DEF Injection, IsInjective
  <1>4. Cardinality(1..n) = n
    BY <1>1, FS_Interval
  <1>5. list \in Surjection(1..n, S)
    BY <1>3, <1>4, FS_Injection
  <1> HIDE DEF n
  <1>6. list \in Seq(Node)
    BY <1>1, <1>2
  <1>7. Once(list)
    BY <1>2 DEF Once
  <1>8. Texts(list) = HashesOf(S)
    BY <1>2, <1>5 DEF Texts, HashesOf, Surjection
  <1> QED
    BY <1>6, <1>7, <1>8

(* The filter (diff.go:134-149) keeps the nodes at the other indices, whatever    *)
(* the indices are: of a list without repetitions, their texts and no other.      *)
LEMMA WithoutTexts ==
  ASSUME NEW nodes \in Seq(Node), NEW indices, Once(nodes)
  PROVE  LET list == Without(nodes, indices)
         IN  /\ list \in Seq(Node)
             /\ Once(list)
             /\ Texts(list) = {nodes[i].hash : i \in DOMAIN nodes \ indices}
             /\ \A k \in DOMAIN list : \E i \in DOMAIN nodes \ indices : list[k] = nodes[i]
  <1> DEFINE Rest == DOMAIN nodes \ indices
             kept == InOrder(Rest)
             list == Without(nodes, indices)
             n == Len(kept)
  <1>1. Len(nodes) \in Nat /\ DOMAIN nodes = 1..Len(nodes)
    OBVIOUS
  <1>2. Rest \subseteq Nat /\ IsFiniteSet(Rest)
    <2>1. IsFiniteSet(DOMAIN nodes)
      BY <1>1, FS_Interval
    <2> QED
      BY <1>1, <2>1, FS_Subset
  <1>3. Lists(kept, Rest, Less)
    BY <1>2, InOrderLists
  <1>4. list = [k \in DOMAIN kept |-> nodes[kept[k]]]
    BY DEF Without
  <1> HIDE DEF kept, list
  <1>5. /\ n \in Nat /\ DOMAIN kept = 1..n
        /\ \A k \in 1..n : kept[k] \in Rest
        /\ \A i \in Rest : \E k \in 1..n : kept[k] = i
    BY <1>3 DEF Lists
  <1>6. \A k, l \in 1..n : kept[k] = kept[l] => k = l
    <2> HIDE DEF n
    <2>1. ASSUME NEW k \in 1..n, NEW l \in 1..n, k < l
          PROVE  kept[k] # kept[l]
      <3>1. <<kept[k], kept[l]>> \in Less
        BY <1>3, <1>5, <2>1 DEF Lists
      <3>2. kept[k] \in Nat /\ kept[l] \in Nat /\ kept[k] < kept[l]
        BY <3>1 DEF Less
      <3> QED
        BY <3>2
    <2> QED
      BY <1>5, <2>1
  <1> HIDE DEF n
  <1>7. DOMAIN list = 1..n /\ \A k \in 1..n : kept[k] \in Rest /\ list[k] = nodes[kept[k]]
    BY <1>4, <1>5
  <1>8. list \in Seq(Node)
    <2>1. \A i \in DOMAIN nodes : nodes[i] \in Node
      OBVIOUS
    <2>2. list \in [1..n -> Node]
      BY <1>4, <1>5, <2>1
    <2> QED
      BY <1>5, <2>2
  <1>9. Once(list)
    BY <1>6, <1>7 DEF Once
  <1>10. Texts(list) = {nodes[i].hash : i \in Rest}
    <2>1. \A k \in 1..n : list[k].hash \in {nodes[i].hash : i \in Rest}
      BY <1>7
    <2>2. \A i \in Rest : \E k \in 1..n : list[k].hash = nodes[i].hash
      BY <1>5, <1>7
    <2> HIDE DEF Rest
    <2> QED
      BY <1>7, <2>1, <2>2 DEF Texts
  <1>11. \A k \in DOMAIN list : \E i \in Rest : list[k] = nodes[i]
    BY <1>7
  <1> QED
    BY <1>8, <1>9, <1>10, <1>11 DEF list

-----------------------------------------------------------------------------
(* The invariant of Diff.                                                     *)

\* The texts that only the old version has, and only the new one.
Gone == HashesOf(OnlyIn(ByHash(old), ByHash(new)))
Fresh == HashesOf(OnlyIn(ByHash(new), ByHash(old)))

DiffTypes ==
    /\ pc \in {"diff", "match", "done"}
    /\ old \in OldVersions
    /\ new \in NewVersions
    /\ removed \in Seq(Node)
    /\ added \in Seq(Node)
    /\ modified \in Seq([old : Node, new : Node])
    /\ ri \in Nat \ {0}

NothingYet ==
    pc = "diff" => modified = <<>> /\ removed = <<>> /\ added = <<>>
                   /\ ri = 1 /\ matched = {} /\ removedMatched = {}

UnchangedIsShared ==
    pc # "diff" => unchanged = {node \in ByHash(old) : node.hash \in HashesOf(ByHash(new))}

NoTextTwice == Once(removed) /\ Once(added) /\ Once(Olds) /\ Once(News)

\* Before the filter, the texts of the pairs are those at the indices that were matched.
WhileMatching ==
    pc = "match" =>
        /\ Texts(removed) = Gone
        /\ Texts(added) = Fresh
        /\ removedMatched \subseteq {i \in DOMAIN removed : i < ri}
        /\ matched \subseteq DOMAIN added
        /\ Texts(Olds) = {removed[i].hash : i \in removedMatched}
        /\ Texts(News) = {added[j].hash : j \in matched}
        /\ \A i \in DOMAIN removed \ removedMatched, j \in DOMAIN added \ matched :
              i < ri => ~Pairs(removed[i], added[j])

\* After it, the lists and the pairs share the texts out.
AfterFilter ==
    pc = "done" =>
        /\ Texts(removed) \cup Texts(Olds) = Gone
        /\ Texts(removed) \cap Texts(Olds) = {}
        /\ Texts(added) \cup Texts(News) = Fresh
        /\ Texts(added) \cap Texts(News) = {}
        /\ \A i \in DOMAIN removed, j \in DOMAIN added : ~Pairs(removed[i], added[j])

ModifiedPairs ==
    \A k \in DOMAIN modified :
        /\ Pairs(modified[k].old, modified[k].new)
        /\ modified[k].old.hash \in Gone
        /\ modified[k].new.hash \in Fresh

DiffInv ==
    /\ DiffTypes
    /\ NothingYet
    /\ UnchangedIsShared
    /\ NoTextTwice
    /\ WhileMatching
    /\ AfterFilter
    /\ ModifiedPairs

LEMMA DiffInvInit == Init => DiffInv
  <1> SUFFICES ASSUME Init PROVE DiffInv
    OBVIOUS
  <1>1. DOMAIN modified = {} /\ DOMAIN Olds = {} /\ DOMAIN News = {}
    BY DEF Init, Olds, News
  <1>2. DOMAIN removed = {} /\ DOMAIN added = {}
    BY DEF Init
  <1>3. DiffTypes
    BY DEF Init, DiffTypes
  <1>4. NothingYet /\ UnchangedIsShared /\ WhileMatching /\ AfterFilter
    BY DEF Init, NothingYet, UnchangedIsShared, WhileMatching, AfterFilter
  <1>5. NoTextTwice
    BY <1>1, <1>2 DEF NoTextTwice, Once
  <1>6. ModifiedPairs
    BY <1>1 DEF ModifiedPairs
  <1> QED
    BY <1>3, <1>4, <1>5, <1>6 DEF DiffInv

(* The versions that are compared are lists of nodes.                         *)
LEMMA VersionsAreLists ==
  ASSUME DiffTypes
  PROVE  old \in Seq(Node) /\ new \in Seq(Node)
  BY DiffAssumption DEF DiffTypes

(* The first half of the diff puts every text in its list.                    *)
LEMMA DiffContentInv ==
  ASSUME DiffInv, DiffContent
  PROVE  DiffInv'
  <1> DEFINE o == ByHash(old)
             n == ByHash(new)
  <1> USE DEF DiffInv
  <1>1. /\ IsFiniteSet(o) /\ o \subseteq Node /\ \A x, y \in o : x.hash = y.hash => x = y
        /\ IsFiniteSet(n) /\ n \subseteq Node /\ \A x, y \in n : x.hash = y.hash => x = y
    BY VersionsAreLists, ByHashIsSmall
  <1>2. /\ IsFiniteSet(OnlyIn(o, n)) /\ OnlyIn(o, n) \subseteq o
        /\ IsFiniteSet(OnlyIn(n, o)) /\ OnlyIn(n, o) \subseteq n
    BY <1>1, FS_Subset DEF OnlyIn
  <1>3. removed' \in SetToSeqs(OnlyIn(o, n)) /\ added' \in SetToSeqs(OnlyIn(n, o))
    BY DEF DiffContent
  <1>4. removed' \in Seq(Node) /\ Once(removed') /\ Texts(removed') = HashesOf(OnlyIn(o, n))
    <2> HIDE DEF o, n
    <2> QED
      BY <1>1, <1>2, <1>3, AnyOrder
  <1>5. added' \in Seq(Node) /\ Once(added') /\ Texts(added') = HashesOf(OnlyIn(n, o))
    <2> HIDE DEF o, n
    <2> QED
      BY <1>1, <1>2, <1>3, AnyOrder
  <1>6. /\ pc = "diff" /\ pc' \in {"match", "done"}
        /\ UNCHANGED <<old, new, modified, ri, matched, removedMatched>>
    BY DEF DiffContent
  <1>7. modified = <<>> /\ ri = 1 /\ matched = {} /\ removedMatched = {}
    BY <1>6 DEF NothingYet
  <1>8. DOMAIN Olds' = {} /\ DOMAIN News' = {} /\ Texts(Olds)' = {} /\ Texts(News)' = {}
    BY <1>6, <1>7 DEF Olds, News, Texts
  <1>9. Gone' = HashesOf(OnlyIn(o, n)) /\ Fresh' = HashesOf(OnlyIn(n, o))
    BY <1>6 DEF Gone, Fresh
  <1>10. DiffTypes'
    BY <1>4, <1>5, <1>6 DEF DiffTypes
  <1>11. NothingYet'
    BY <1>6 DEF NothingYet
  <1>12. UnchangedIsShared'
    BY <1>6 DEF UnchangedIsShared, DiffContent
  <1>13. NoTextTwice'
    BY <1>4, <1>5, <1>8 DEF NoTextTwice, Once
  <1>14. Texts(removed)' = Gone' /\ Texts(added)' = Fresh'
    BY <1>4, <1>5, <1>9 DEF Texts
  <1>15. WhileMatching'
    <2>1. \A i \in DOMAIN removed' : ~(i < ri')
      BY <1>4, <1>6, <1>7
    <2> QED
      BY <1>6, <1>7, <1>8, <1>14, <2>1 DEF WhileMatching
  <1>16. AfterFilter'
    <2>1. ASSUME pc' = "done"
          PROVE  DOMAIN removed' = {} \/ DOMAIN added' = {}
      <3>1. removed' = <<>> \/ added' = <<>>
        BY <2>1, <1>6 DEF DiffContent
      <3> QED
        BY <3>1
    <2> QED
      BY <1>8, <1>14, <2>1 DEF AfterFilter
  <1>17. ModifiedPairs'
    BY <1>6, <1>7 DEF ModifiedPairs
  <1> QED
    BY <1>10, <1>11, <1>12, <1>13, <1>15, <1>16, <1>17 DEF DiffInv

(* A text has one list only: it is gone, or it is fresh.                      *)
LEMMA GoneOrFresh == Gone \cap Fresh = {}
  BY DEF Gone, Fresh, OnlyIn, HashesOf

(* A turn of the loop that pairs nothing.                                     *)
LEMMA NoPairInv ==
  ASSUME DiffInv, pc = "match", ri <= Len(removed), Candidates(removed[ri]) = {},
         ri' = ri + 1,
         UNCHANGED <<old, new, pc, unchanged, removed, added, modified, matched, removedMatched>>
  PROVE  DiffInv'
  <1> USE DEF DiffInv
  <1>1. Olds' = Olds /\ News' = News /\ Gone' = Gone /\ Fresh' = Fresh
    BY DEF Olds, News, Gone, Fresh
  <1>2. DiffTypes' /\ NothingYet' /\ UnchangedIsShared' /\ AfterFilter'
    BY DEF DiffTypes, NothingYet, UnchangedIsShared, AfterFilter
  <1>3. NoTextTwice' /\ ModifiedPairs'
    BY <1>1 DEF NoTextTwice, ModifiedPairs
  <1>4. WhileMatching'
    <2>1. removedMatched' \subseteq {i \in DOMAIN removed' : i < ri'}
      BY DEF WhileMatching, DiffTypes
    <2>2. ASSUME NEW i \in DOMAIN removed \ removedMatched, NEW j \in DOMAIN added \ matched,
                 i < ri'
          PROVE  ~Pairs(removed[i], added[j])
      <3>1. CASE i < ri
        BY <3>1 DEF WhileMatching
      <3>2. CASE i = ri
        BY <3>2 DEF Candidates
      <3> QED
        BY <2>2, <3>1, <3>2 DEF DiffTypes
    <2> QED
      BY <1>1, <2>1, <2>2 DEF WhileMatching
  <1> QED
    BY <1>2, <1>3, <1>4

(* A turn that pairs the node with one that no other has.                     *)
LEMMA OnePairInv ==
  ASSUME DiffInv, pc = "match", ri <= Len(removed), ri \in DOMAIN removed,
         NEW ai \in Candidates(removed[ri]),
         modified' = Append(modified, [old |-> removed[ri], new |-> added[ai]]),
         matched' = matched \cup {ai},
         removedMatched' = removedMatched \cup {ri},
         ri' = ri + 1,
         UNCHANGED <<old, new, pc, unchanged, removed, added>>
  PROVE  DiffInv'
  <1> DEFINE n == Len(modified)
  <1> USE DEF DiffInv
  <1>1. ai \in DOMAIN added /\ ai \notin matched /\ Pairs(removed[ri], added[ai])
    BY DEF Candidates
  <1>2. removed[ri] \in Node /\ added[ai] \in Node
    BY <1>1 DEF DiffTypes
  <1>3. ri \notin removedMatched
    BY DEF WhileMatching, DiffTypes
  <1>4. removed[ri].hash \in Gone /\ added[ai].hash \in Fresh
    BY <1>1 DEF WhileMatching, Texts
  <1>5. /\ n \in Nat /\ DOMAIN modified = 1..n /\ DOMAIN modified' = 1..(n + 1)
        /\ \A k \in 1..n : modified'[k] = modified[k]
        /\ modified'[n + 1].old = removed[ri] /\ modified'[n + 1].new = added[ai]
    BY <1>2 DEF DiffTypes
  <1> HIDE DEF n
  <1>6. /\ DOMAIN Olds = 1..n /\ DOMAIN Olds' = 1..(n + 1)
        /\ \A k \in 1..n : Olds'[k] = Olds[k]
        /\ Olds'[n + 1] = removed[ri]
    BY <1>5 DEF Olds
  <1>7. /\ DOMAIN News = 1..n /\ DOMAIN News' = 1..(n + 1)
        /\ \A k \in 1..n : News'[k] = News[k]
        /\ News'[n + 1] = added[ai]
    BY <1>5 DEF News
  <1>8. 1..(n + 1) = (1..n) \cup {n + 1} /\ n + 1 \notin 1..n
    BY <1>5
  <1>9. Texts(Olds)' = Texts(Olds) \cup {removed[ri].hash} /\ removed[ri].hash \notin Texts(Olds)
    <2>1. removed[ri].hash \notin Texts(Olds)
      BY <1>3 DEF WhileMatching, NoTextTwice, Once
    <2> QED
      BY <1>6, <1>8, <2>1 DEF Texts
  <1>10. Texts(News)' = Texts(News) \cup {added[ai].hash} /\ added[ai].hash \notin Texts(News)
    <2>1. added[ai].hash \notin Texts(News)
      BY <1>1 DEF WhileMatching, NoTextTwice, Once
    <2> QED
      BY <1>7, <1>8, <2>1 DEF Texts
  <1>11. Once(Olds)' /\ Once(News)'
    <2>1. Once(Olds)'
      BY <1>6, <1>8, <1>9 DEF NoTextTwice, Once, Texts
    <2>2. Once(News)'
      BY <1>7, <1>8, <1>10 DEF NoTextTwice, Once, Texts
    <2> QED
      BY <2>1, <2>2
  <1>12. Gone' = Gone /\ Fresh' = Fresh
    BY DEF Gone, Fresh
  <1>13. DiffTypes'
    BY <1>2 DEF DiffTypes
  <1>14. NothingYet' /\ UnchangedIsShared' /\ AfterFilter'
    BY DEF NothingYet, UnchangedIsShared, AfterFilter
  <1>15. NoTextTwice'
    BY <1>11 DEF NoTextTwice
  <1>16. ModifiedPairs'
    BY <1>1, <1>4, <1>5, <1>8, <1>12 DEF ModifiedPairs
  <1>17. WhileMatching'
    <2>1. /\ removedMatched' \subseteq {i \in DOMAIN removed' : i < ri'}
          /\ matched' \subseteq DOMAIN added'
      BY <1>1 DEF WhileMatching, DiffTypes
    <2>2. Texts(Olds)' = {removed[i].hash : i \in removedMatched'}
      BY <1>9 DEF WhileMatching
    <2>3. Texts(News)' = {added[j].hash : j \in matched'}
      BY <1>10 DEF WhileMatching
    <2>4. ASSUME NEW i \in DOMAIN removed \ removedMatched', NEW j \in DOMAIN added \ matched',
                 i < ri'
          PROVE  ~Pairs(removed[i], added[j])
      <3>1. i < ri
        BY <2>4 DEF DiffTypes
      <3> QED
        BY <3>1 DEF WhileMatching
    <2>5. Texts(removed)' = Gone' /\ Texts(added)' = Fresh'
      BY <1>12 DEF WhileMatching, Texts
    <2> QED
      BY <2>1, <2>2, <2>3, <2>4, <2>5 DEF WhileMatching
  <1> QED
    BY <1>13, <1>14, <1>15, <1>16, <1>17

LEMMA MatchInv ==
  ASSUME DiffInv, Match
  PROVE  DiffInv'
  <1>1. pc = "match" /\ ri <= Len(removed) /\ ri' = ri + 1
        /\ UNCHANGED <<old, new, pc, unchanged, removed, added>>
    BY DEF Match
  <1>2. CASE Candidates(removed[ri]) = {} /\ UNCHANGED <<modified, matched, removedMatched>>
    BY <1>1, <1>2, NoPairInv
  <1>3. ASSUME NEW ai \in Candidates(removed[ri]),
               modified' = Append(modified, [old |-> removed[ri], new |-> added[ai]]),
               matched' = matched \cup {ai},
               removedMatched' = removedMatched \cup {ri}
        PROVE  DiffInv'
    <2>1. ri \in DOMAIN removed
      BY <1>1 DEF DiffInv, DiffTypes
    <2> QED
      BY <1>1, <1>3, <2>1, OnePairInv
  <1> QED
    BY <1>2, <1>3 DEF Match

(* The filter leaves in the lists what is in no pair.                         *)
LEMMA FilterInv ==
  ASSUME DiffInv, Filter
  PROVE  DiffInv'
  <1> USE DEF DiffInv
  <1>1. /\ pc = "match" /\ pc' = "done" /\ ri > Len(removed)
        /\ UNCHANGED <<old, new, unchanged, modified, ri, matched, removedMatched>>
        /\ added' = Without(added, matched) /\ removed' = Without(removed, removedMatched)
    BY DEF Filter
  <1>2. /\ removed \in Seq(Node) /\ added \in Seq(Node) /\ Once(removed) /\ Once(added)
    BY DEF DiffTypes, NoTextTwice
  <1>3. /\ removed' \in Seq(Node) /\ Once(removed')
        /\ Texts(removed') = {removed[i].hash : i \in DOMAIN removed \ removedMatched}
        /\ \A k \in DOMAIN removed' :
              \E i \in DOMAIN removed \ removedMatched : removed'[k] = removed[i]
    BY <1>1, <1>2, WithoutTexts
  <1>4. /\ added' \in Seq(Node) /\ Once(added')
        /\ Texts(added') = {added[i].hash : i \in DOMAIN added \ matched}
        /\ \A k \in DOMAIN added' : \E i \in DOMAIN added \ matched : added'[k] = added[i]
    BY <1>1, <1>2, WithoutTexts
  <1>5. Olds' = Olds /\ News' = News /\ Gone' = Gone /\ Fresh' = Fresh
    BY <1>1 DEF Olds, News, Gone, Fresh
  <1>6. DiffTypes' /\ NothingYet' /\ UnchangedIsShared' /\ WhileMatching'
    BY <1>1, <1>3, <1>4 DEF DiffTypes, NothingYet, UnchangedIsShared, WhileMatching
  <1>7. NoTextTwice'
    BY <1>3, <1>4, <1>5 DEF NoTextTwice, Once
  <1>8. ModifiedPairs'
    BY <1>1, <1>5 DEF ModifiedPairs
  <1>9. AfterFilter'
    <2>1. Texts(removed') \cup Texts(Olds) = Gone /\ Texts(removed') \cap Texts(Olds) = {}
      <3>1. Gone = {removed[i].hash : i \in DOMAIN removed}
            /\ Texts(Olds) = {removed[i].hash : i \in removedMatched}
            /\ removedMatched \subseteq DOMAIN removed
        BY <1>1 DEF WhileMatching, Texts
      <3> QED
        BY <1>2, <1>3, <3>1 DEF Once
    <2>2. Texts(added') \cup Texts(News) = Fresh /\ Texts(added') \cap Texts(News) = {}
      <3>1. Fresh = {added[j].hash : j \in DOMAIN added}
            /\ Texts(News) = {added[j].hash : j \in matched}
            /\ matched \subseteq DOMAIN added
        BY <1>1 DEF WhileMatching, Texts
      <3> QED
        BY <1>2, <1>4, <3>1 DEF Once
    <2>3. ASSUME NEW i \in DOMAIN removed', NEW j \in DOMAIN added'
          PROVE  ~Pairs(removed'[i], added'[j])
      <3>1. PICK ii \in DOMAIN removed \ removedMatched : removed'[i] = removed[ii]
        BY <1>3
      <3>2. PICK jj \in DOMAIN added \ matched : added'[j] = added[jj]
        BY <1>4
      <3>3. ii < ri
        BY <1>1, <1>2 DEF DiffTypes
      <3> QED
        BY <1>1, <3>1, <3>2, <3>3 DEF WhileMatching
    <2>4. Texts(removed)' = Texts(removed') /\ Texts(added)' = Texts(added')
      BY DEF Texts
    <2>5. Texts(Olds)' = Texts(Olds) /\ Texts(News)' = Texts(News)
      BY <1>5 DEF Texts
    <2>6. \A i \in DOMAIN removed', j \in DOMAIN added' : ~Pairs(removed'[i], added'[j])
      BY <2>3
    <2> QED
      BY <1>5, <2>1, <2>2, <2>4, <2>5, <2>6 DEF AfterFilter
  <1> QED
    BY <1>6, <1>7, <1>8, <1>9

LEMMA DiffInvStep == DiffInv /\ [Next]_vars => DiffInv'
  <1> SUFFICES ASSUME DiffInv, [Next]_vars PROVE DiffInv'
    OBVIOUS
  <1>1. CASE DiffContent
    BY <1>1, DiffContentInv
  <1>2. CASE Match
    BY <1>2, MatchInv
  <1>3. CASE Filter
    BY <1>3, FilterInv
  <1>4. CASE UNCHANGED vars
    <2>1. Olds' = Olds /\ News' = News /\ Gone' = Gone /\ Fresh' = Fresh
      BY <1>4 DEF vars, Olds, News, Gone, Fresh
    <2>2. DiffTypes' /\ NothingYet' /\ UnchangedIsShared' /\ AfterFilter' /\ WhileMatching'
      BY <1>4, <2>1 DEF vars, DiffInv, DiffTypes, NothingYet, UnchangedIsShared, AfterFilter,
                           WhileMatching
    <2>3. NoTextTwice' /\ ModifiedPairs'
      BY <1>4, <2>1 DEF vars, DiffInv, NoTextTwice, ModifiedPairs
    <2> QED
      BY <2>2, <2>3 DEF DiffInv
  <1> QED
    BY <1>1, <1>2, <1>3, <1>4 DEF Next

(* The invariant counted out: each text of the old version is in one place.   *)
LEMMA OldCounted == DiffInv => OldIsAccountedFor
  <1> SUFFICES ASSUME DiffInv, pc = "done", NEW hash \in Hashes
               PROVE  Cardinality({node \in unchanged : node.hash = hash})
                      + Times(hash, removed) + Times(hash, Olds)
                      = IF hash \in HashesOf(ByHash(old)) THEN 1 ELSE 0
    BY DEF OldIsAccountedFor
  <1> USE DEF DiffInv
  <1> DEFINE o == ByHash(old)
             n == ByHash(new)
  <1>1. \A x, y \in o : x.hash = y.hash => x = y
    BY VersionsAreLists, ByHashIsSmall
  <1>2. unchanged = {node \in o : node.hash \in HashesOf(n)}
    BY DEF UnchangedIsShared
  <1>3. \A x, y \in unchanged : x.hash = y.hash => x = y
    BY <1>1, <1>2
  <1>4. Cardinality({node \in unchanged : node.hash = hash})
        = IF hash \in HashesOf(unchanged) THEN 1 ELSE 0
    BY <1>3, CountOfOne
  <1>5. Times(hash, removed) = IF hash \in Texts(removed) THEN 1 ELSE 0
    BY TimesOfOnce DEF NoTextTwice
  <1>6. Times(hash, Olds) = IF hash \in Texts(Olds) THEN 1 ELSE 0
    BY TimesOfOnce DEF NoTextTwice
  <1>7. HashesOf(unchanged) \cup Gone = HashesOf(o) /\ HashesOf(unchanged) \cap Gone = {}
    BY <1>2 DEF Gone, OnlyIn, HashesOf
  <1>8. Texts(removed) \cup Texts(Olds) = Gone /\ Texts(removed) \cap Texts(Olds) = {}
    BY DEF AfterFilter
  <1> QED
    BY <1>4, <1>5, <1>6, <1>7, <1>8

(* And each text that only the new version has is named once.                 *)
LEMMA NewCounted == DiffInv => NeedsExactlyTheNew
  <1> SUFFICES ASSUME DiffInv, pc = "done", NEW hash \in Hashes
               PROVE  Times(hash, NeedsTranslation) =
                        IF hash \in HashesOf(ByHash(new)) \ HashesOf(ByHash(old)) THEN 1 ELSE 0
    BY DEF NeedsExactlyTheNew
  <1> USE DEF DiffInv
  <1> DEFINE a == Len(added)
             m == Len(modified)
  <1>1. a \in Nat /\ DOMAIN added = 1..a /\ m \in Nat /\ DOMAIN modified = 1..m
    BY DEF DiffTypes
  <1>2. /\ DOMAIN News = 1..m /\ Len(News) = m
        /\ NeedsTranslation = added \o News
    BY <1>1 DEF News, NeedsTranslation
  <1>3. News \in Seq(Node)
    <2>1. \A k \in DOMAIN modified : modified[k] \in [old : Node, new : Node]
      <3>1. modified \in Seq([old : Node, new : Node])
        BY DEF DiffTypes
      <3> DEFINE R == [old : Node, new : Node]
      <3> HIDE DEF R
      <3>2. modified \in Seq(R)
        BY <3>1 DEF R
      <3>3. \A k \in DOMAIN modified : modified[k] \in R
        BY <3>2
      <3> QED
        BY <3>3 DEF R
    <2>2. \A k \in 1..m : modified[k].new \in Node
      BY <1>1, <2>1
    <2> HIDE DEF m
    <2>3. News \in [1..m -> Node]
      BY <1>1, <2>2 DEF News
    <2> QED
      BY <1>1, <2>3
  <1>4. /\ DOMAIN NeedsTranslation = 1..(a + m)
        /\ \A k \in 1..a : NeedsTranslation[k] = added[k]
        /\ \A k \in 1..m : NeedsTranslation[a + k] = News[k]
    <2>1. added \in Seq(Node)
      BY DEF DiffTypes
    <2> QED
      BY <1>1, <1>2, <1>3, <2>1
  <1> HIDE DEF a, m
  <1>5. \A k \in 1..(a + m) : k \in 1..a \/ (k - a \in 1..m /\ k = a + (k - a))
    BY <1>1
  <1>6. \A k \in 1..m : a + k \in 1..(a + m)
    BY <1>1
  <1>7. \A k \in 1..a : k \in 1..(a + m)
    BY <1>1
  <1>8. Texts(added) \cap Texts(News) = {} /\ Texts(added) \cup Texts(News) = Fresh
    BY DEF AfterFilter
  <1>9. Texts(NeedsTranslation) = Texts(added) \cup Texts(News)
    <2>1. ASSUME NEW k \in 1..(a + m)
          PROVE  NeedsTranslation[k].hash \in Texts(added) \cup Texts(News)
      <3>1. CASE k \in 1..a
        BY <1>1, <1>4, <3>1 DEF Texts
      <3>2. CASE k - a \in 1..m /\ k = a + (k - a)
        BY <1>2, <1>4, <3>2 DEF Texts
      <3> QED
        BY <1>5, <3>1, <3>2
    <2>2. Texts(added) \subseteq Texts(NeedsTranslation)
      BY <1>1, <1>4, <1>7 DEF Texts
    <2>3. Texts(News) \subseteq Texts(NeedsTranslation)
      <3> SUFFICES ASSUME NEW k \in 1..m
                   PROVE  News[k].hash \in Texts(NeedsTranslation)
        BY <1>2 DEF Texts
      <3>1. a + k \in DOMAIN NeedsTranslation /\ NeedsTranslation[a + k] = News[k]
        BY <1>4, <1>6
      <3> QED
        BY <3>1 DEF Texts
    <2> QED
      BY <1>4, <2>1, <2>2, <2>3 DEF Texts
  <1>10. Once(NeedsTranslation)
    <2> SUFFICES ASSUME NEW k \in 1..(a + m), NEW l \in 1..(a + m),
                        NeedsTranslation[k].hash = NeedsTranslation[l].hash
                 PROVE  k = l
      BY <1>4 DEF Once
    <2>1. CASE k \in 1..a /\ l \in 1..a
      BY <1>1, <1>4, <2>1 DEF NoTextTwice, Once
    <2>2. CASE k - a \in 1..m /\ l - a \in 1..m
      <3>1. News[k - a].hash = News[l - a].hash
        <4>1. a + (k - a) = k /\ a + (l - a) = l
          BY <1>1
        <4>2. NeedsTranslation[a + (k - a)] = News[k - a]
          BY <1>4, <2>2
        <4>3. NeedsTranslation[a + (l - a)] = News[l - a]
          BY <1>4, <2>2
        <4> QED
          BY <4>1, <4>2, <4>3
      <3>2. k - a = l - a
        BY <1>2, <2>2, <3>1 DEF NoTextTwice, Once
      <3> QED
        BY <1>1, <3>2
    <2>3. CASE k \in 1..a /\ l - a \in 1..m
      <3>1. NeedsTranslation[k].hash \in Texts(added)
        BY <1>1, <1>4, <2>3 DEF Texts
      <3>2. NeedsTranslation[l] = News[l - a]
        BY <1>1, <1>4, <2>3
      <3>3. NeedsTranslation[l].hash \in Texts(News)
        BY <1>2, <2>3, <3>2 DEF Texts
      <3> QED
        BY <1>8, <3>1, <3>3
    <2>4. CASE l \in 1..a /\ k - a \in 1..m
      <3>1. NeedsTranslation[l].hash \in Texts(added)
        BY <1>1, <1>4, <2>4 DEF Texts
      <3>2. NeedsTranslation[k] = News[k - a]
        BY <1>1, <1>4, <2>4
      <3>3. NeedsTranslation[k].hash \in Texts(News)
        BY <1>2, <2>4, <3>2 DEF Texts
      <3> QED
        BY <1>8, <3>1, <3>3
    <2> QED
      BY <1>5, <2>1, <2>2, <2>3, <2>4
  <1>11. Times(hash, NeedsTranslation) = IF hash \in Fresh THEN 1 ELSE 0
    BY <1>8, <1>9, <1>10, TimesOfOnce
  <1>12. Fresh = HashesOf(ByHash(new)) \ HashesOf(ByHash(old))
    BY DEF Fresh, OnlyIn, HashesOf
  <1> QED
    BY <1>11, <1>12

LEMMA PairsAreMaximal == DiffInv => PairingIsMaximal
  <1> SUFFICES ASSUME DiffInv, pc = "done" PROVE PairingIsMaximal
    BY DEF PairingIsMaximal
  <1>1. \A i \in DOMAIN modified :
              /\ modified[i].old.hash # modified[i].new.hash
              /\ \/ modified[i].old.id = modified[i].new.id
                 \/ modified[i].old.context = modified[i].new.context
                    /\ modified[i].old.context # NoContext
    BY GoneOrFresh DEF DiffInv, ModifiedPairs, Pairs
  <1>2. \A i \in DOMAIN removed, j \in DOMAIN added :
              /\ removed[i].id # added[j].id
              /\ removed[i].context = NoContext \/ removed[i].context # added[j].context
    BY DEF DiffInv, AfterFilter, Pairs
  <1> QED
    BY <1>1, <1>2 DEF PairingIsMaximal

-----------------------------------------------------------------------------
(* A run of the command compares by the steps of Diff and takes no other with    *)
(* its lists, so that what holds of every diff holds of the one in a run           *)
(* (runDiff, main.go:250-312).                                                     *)
THEOREM RunImplementsDiff == RunSpec => Spec
  <1>1. Start => Init
    BY DEF Start
  <1>2. [RunNext]_runVars => [Next]_vars
    <2> SUFFICES ASSUME [RunNext]_runVars PROVE [Next]_vars
      OBVIOUS
    <2>1. CASE Compare
      BY <2>1 DEF Compare
    <2>2. CASE Parse
      BY <2>2 DEF Parse, Error, Exit, GoTo
    <2>3. CASE Read \/ ReadPrevious \/ Key
      BY <2>3 DEF Read, ReadPrevious, Key, Error
    <2>4. CASE PrintDiff \/ DryRun
      BY <2>4 DEF PrintDiff, DryRun, Report
    <2>5. CASE Translate
      BY <2>5 DEF Translate
    <2>6. CASE Create \/ Write \/ Close \/ Kill
      BY <2>6 DEF Create, Write, Close, Kill, Error
    <2>7. CASE UNCHANGED runVars
      BY <2>7 DEF runVars
    <2> QED
      BY <2>1, <2>2, <2>3, <2>4, <2>5, <2>6, <2>7 DEF RunNext
  <1> QED
    BY <1>1, <1>2, PTL DEF RunSpec, Spec

LEMMA DiffInvAlways == Spec => []DiffInv
  BY DiffInvInit, DiffInvStep, PTL DEF Spec

(* Whatever the two versions and the order of the maps, the diff puts every text *)
(* of the old version in one place and names every new text once, and it leaves   *)
(* no two nodes apart that it could have paired (diff.go:61-153).                 *)
THEOREM DiffCorrect == Spec => [](DiffIsExact /\ PairingIsMaximal)
  <1>1. DiffInv => DiffIsExact /\ PairingIsMaximal
    BY OldCounted, NewCounted, PairsAreMaximal DEF DiffIsExact
  <1> QED
    BY <1>1, DiffInvAlways, PTL

(* So does the one that a run of the command prints.                              *)
THEOREM RunDiffCorrect == RunSpec => [](DiffIsExact /\ PairingIsMaximal)
  BY RunImplementsDiff, DiffCorrect, PTL

-----------------------------------------------------------------------------
(* The invariant of a run.                                                    *)

Untouched == result = <<>> /\ file = "old" /\ asked = {}

\* Before it reports, a run has done nothing that lasts.
BeforeReport ==
    stage \in {"parse", "read", "diff", "dry-run", "key", "translate"} =>
        Untouched /\ printed = "nothing"

\* From the key on the run is no diff, no dry run and no question for the version.
OnlyToTranslate ==
    stage \in {"key", "translate", "create", "write", "close"} =>
        ~Given("diff") /\ ~Given("dry-run") /\ ~Given("version")

\* The page is there, and goes to one of the two outputs.
WithPage ==
    /\ stage \in {"create", "write", "close"} => result # <<>>
    /\ stage \in {"create", "write"} => printed = "nothing"
    /\ stage = "create" => file = "old"
    /\ stage = "write" => file = (IF Given("output") THEN "empty" ELSE "old")
    /\ stage = "close" => IF Given("output") THEN file \in {"whole", "part"} /\ printed = "nothing"
                          ELSE file = "old" /\ printed \in {"page", "part"}

\* The provider is asked by a run that translates, into another language.
AskedToTranslate ==
    /\ stage # "done" => exit = "running"
    /\ stage \in {"read", "diff", "dry-run"} => ~Given("version")
    /\ stage = "done" /\ (\E f \in {"diff", "dry-run", "version"} : Given(f)) => Untouched
    /\ asked # {} => ~IsSourceLang

Stages == {"parse", "read", "diff", "dry-run", "key", "translate", "create", "write",
           "close", "done"}

RunInv ==
    /\ stage \in Stages
    /\ BeforeReport
    /\ OnlyToTranslate
    /\ WithPage
    /\ AskedToTranslate
    /\ OutputIsHonest

LEMMA RunInvInit == Start => RunInv
  BY DEF Start, RunInv, Stages, Untouched, BeforeReport, OnlyToTranslate, WithPage,
         AskedToTranslate, OutputIsHonest

(* The command does not change: what was given stays given.                   *)
LEMMA SettingStays ==
  ASSUME UNCHANGED setting
  PROVE  /\ \A f : Given(f)' = Given(f)
         /\ IsSourceLang' = IsSourceLang
         /\ source' = source /\ target' = target
  BY DEF setting, Given, IsSourceLang, BaseLang

LEMMA ErrorInv ==
  ASSUME RunInv, Error, stage \in {"parse", "read", "diff", "key", "create"}
  PROVE  RunInv'
  <1>1. UNCHANGED setting /\ UNCHANGED effects /\ stage' = "done" /\ exit' = "error"
    BY DEF Error, Exit
  <1>2. UNCHANGED <<result, file, printed, asked>>
    BY <1>1 DEF effects
  <1>3. CASE stage = "create"
    BY <1>1, <1>2, <1>3, SettingStays
       DEF RunInv, Stages, Untouched, BeforeReport, OnlyToTranslate, WithPage, AskedToTranslate,
           OutputIsHonest
  <1>4. CASE stage # "create"
    BY <1>1, <1>2, <1>4, SettingStays
       DEF RunInv, Stages, Untouched, BeforeReport, OnlyToTranslate, WithPage, AskedToTranslate,
           OutputIsHonest
  <1> QED
    BY <1>3, <1>4

(* Every step of a run keeps it.                                              *)
LEMMA RunInvStep == RunInv /\ [RunNext]_runVars => RunInv'
  <1> SUFFICES ASSUME RunInv, [RunNext]_runVars PROVE RunInv'
    OBVIOUS
  <1> USE DEF RunInv, Stages, Untouched, BeforeReport, OnlyToTranslate, WithPage,
              AskedToTranslate, OutputIsHonest, GoTo, Exit, effects
  <1>1. CASE Parse
    <2>1. CASE Error
      BY <1>1, <2>1, ErrorInv DEF Parse
    <2>2. CASE ~Given("unknown") /\ Given("version") /\ printed' = "version" /\ Exit("ok")
               /\ UNCHANGED <<setting, result, file, asked>>
      BY <1>1, <2>2, SettingStays DEF Parse
    <2>3. CASE ~Given("version") /\ GoTo("read") /\ UNCHANGED <<setting, effects>>
      BY <1>1, <2>3, SettingStays DEF Parse
    <2> QED
      BY <1>1, <2>1, <2>2, <2>3 DEF Parse
  <1>2. CASE Read
    <2>1. CASE Error
      BY <1>2, <2>1, ErrorInv DEF Read
    <2>2. CASE GoTo(Mode) /\ UNCHANGED <<setting, effects>>
      BY <1>2, <2>2, SettingStays DEF Read, Mode
    <2> QED
      BY <1>2, <2>1, <2>2 DEF Read
  <1>3. CASE ReadPrevious
    BY <1>3, ErrorInv DEF ReadPrevious
  <1>4. CASE Compare
    BY <1>4, SettingStays DEF Compare
  <1>5. CASE PrintDiff
    BY <1>5, SettingStays DEF PrintDiff, Report
  <1>6. CASE DryRun
    BY <1>6, SettingStays DEF DryRun, Report
  <1>7. CASE Key
    <2>1. CASE Error
      BY <1>7, <2>1, ErrorInv DEF Key
    <2>2. CASE GoTo("translate") /\ UNCHANGED <<setting, effects>>
      BY <1>7, <2>2, SettingStays DEF Key
    <2> QED
      BY <1>7, <2>1, <2>2 DEF Key
  <1>8. CASE Translate
    BY <1>8, SettingStays DEF Translate
  <1>9. CASE Create
    <2>1. CASE Error
      BY <1>9, <2>1, ErrorInv DEF Create
    <2>2. CASE GoTo("write") /\ file' = (IF Given("output") THEN "empty" ELSE file)
               /\ UNCHANGED <<setting, result, printed, asked>>
      BY <1>9, <2>2, SettingStays DEF Create
    <2> QED
      BY <1>9, <2>1, <2>2 DEF Create
  <1>10. CASE Write
    <2>1. PICK written \in {"part", "whole"} :
            IF Given("output") THEN file' = written /\ UNCHANGED printed
            ELSE printed' = (IF written = "whole" THEN "page" ELSE "part") /\ UNCHANGED file
      BY <1>10 DEF Write
    <2>2. stage = "write" /\ GoTo("close") /\ UNCHANGED <<setting, result, asked>>
      BY <1>10 DEF Write
    <2> QED
      BY <2>1, <2>2, SettingStays
  <1>13. CASE Close
    <2>1. stage = "close" /\ UNCHANGED <<setting, result, printed, asked>>
      BY <1>13 DEF Close
    <2>2. file' \in {file} \cup (IF file = "whole" THEN {"lost"} ELSE {})
      BY <1>13 DEF Close
    <2>3. WriteResult(IF Given("output") THEN file ELSE printed)
      BY <1>13 DEF Close
    <2>4. CASE Given("output")
      BY <2>1, <2>2, <2>3, <2>4, SettingStays DEF WriteResult
    <2>5. CASE ~Given("output")
      BY <2>1, <2>2, <2>3, <2>5, SettingStays DEF WriteResult
    <2> QED
      BY <2>4, <2>5
  <1>11. CASE Kill
    BY <1>11, SettingStays DEF Kill
  <1>12. CASE UNCHANGED runVars
    BY <1>12, SettingStays DEF runVars
  <1> QED
    BY <1>1, <1>2, <1>3, <1>4, <1>5, <1>6, <1>7, <1>8, <1>9, <1>10, <1>11, <1>12, <1>13 DEF RunNext

(* What asks for nothing touches nothing, and the source language is not asked for. *)
LEMMA RunInvSuffices == RunInv => NothingAskedInVain
  <1> SUFFICES ASSUME RunInv PROVE NothingAskedInVain
    OBVIOUS
  <1>1. (\E f \in {"diff", "dry-run", "version"} : Given(f)) =>
            asked = {} /\ file = "old" /\ result = <<>>
    BY DEF RunInv, Stages, BeforeReport, OnlyToTranslate, AskedToTranslate, Untouched
  <1>2. asked # {} => ~IsSourceLang
    BY DEF RunInv, AskedToTranslate
  <1> QED
    BY <1>1, <1>2 DEF NothingAskedInVain, IsSourceLang, BaseLang

LEMMA RunInvAlways == RunSpec => []RunInv
  BY RunInvInit, RunInvStep, PTL DEF RunSpec

(* Whatever the flags and wherever it fails or is killed, a run leaves in the output *)
(* file and on standard output what its exit status says (main.go:83-190), and only   *)
(* a run that translates, into another language, asks the provider or touches the     *)
(* file (main.go:105-142, translator.go:125).                                         *)
THEOREM RunCorrect == RunSpec => [](OutputIsHonest /\ NothingAskedInVain)
  BY RunInvAlways, RunInvSuffices, PTL DEF RunInv
=============================================================================
