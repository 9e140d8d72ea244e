---------------------------- MODULE ProcessorProofs ----------------------------
(***************************************************************************)
(* Proofs about HTMLProcessor and then about GoProcessor, which share what    *)
(* ContentProcessor declares and say nothing of each other.                   *)
(***************************************************************************)
EXTENDS HTMLProcessor, GoProcessor, OrderedSetsProofs

-----------------------------------------------------------------------------
(* The walk over a document.                                                  *)

\* The nodes that the walk comes to: it enters their parents.
Reached == {i \in DOMAIN source : source[i].parent \in Visible \cup {0}}

\* Of these, the ones from place n on whose parents lie before it.
Frontier(n) == {i \in Reached : i >= n /\ source[i].parent < n}

\* The walk is about to visit the first of them, from place n on.
WalkIsAt(n) == Lists(pending, Frontier(n), Less)

LEMMA DocumentShape ==
  ASSUME NEW d \in Documents
  PROVE  /\ Len(d) \in Nat /\ DOMAIN d = 1..Len(d)
         /\ \A i \in DOMAIN d : /\ d[i] \in Node
                                /\ d[i].parent \in Nat /\ d[i].parent < i
                                /\ d[i].kind = "text" => ~d[i].skipped
                                /\ \A j \in DOMAIN d : d[j].parent = i => d[i].kind = "element"
         /\ \A i, j, k \in DOMAIN d : i < j /\ j < k /\ d[k].parent = i => d[j].parent >= i
  <1>1. d \in Seq(Node)
    BY HTMLAssumption
  <1>2. Len(d) \in Nat /\ DOMAIN d = 1..Len(d) /\ \A i \in DOMAIN d : d[i] \in Node
    BY <1>1
  <1>3. \A i \in DOMAIN d : d[i].parent \in Nat
    BY <1>2 DEF Node
  <1> QED
    BY <1>2, <1>3, HTMLAssumption

(* What is visible: the node is not skipped, and its parent is visible.       *)
LEMMA VisibleNodes ==
  /\ Visible \subseteq DOMAIN source
  /\ \A i \in DOMAIN source :
        i \in Visible <=> ~source[i].skipped /\ source[i].parent \in Visible \cup {0}
  <1> DEFINE Open(nds) == \A i \in nds : ~source[i].skipped /\ source[i].parent \in nds \cup {0}
  <1>1. Visible = UNION {nds \in SUBSET DOMAIN source : Open(nds)}
    BY DEF Visible
  <1>2. Visible \subseteq DOMAIN source /\ Open(Visible)
    BY <1>1
  <1>3. ASSUME NEW i \in DOMAIN source, ~source[i].skipped, source[i].parent \in Visible \cup {0}
        PROVE  i \in Visible
    <2>1. Open(Visible \cup {i}) /\ Visible \cup {i} \in SUBSET DOMAIN source
      BY <1>2, <1>3
    <2> HIDE DEF Open
    <2>2. Visible \cup {i} \in {nds \in SUBSET DOMAIN source : Open(nds)}
      BY <2>1
    <2> QED
      BY <1>1, <2>2
  <1> QED
    BY <1>2, <1>3

LEMMA VisibleIsReached == Visible \subseteq Reached
  BY VisibleNodes DEF Reached

(* What the walk comes to from place n on starts with a node of the frontier. *)
LEMMA FrontierFirst ==
  ASSUME source \in Documents, NEW n \in Nat \ {0}, NEW i \in Reached, i >= n
  PROVE  \E j \in Frontier(n) : j <= i
  <1> DEFINE Later == {j \in Reached : j >= n}
  <1>1. Reached \subseteq DOMAIN source /\ DOMAIN source \subseteq Nat \ {0}
    BY DocumentShape DEF Reached
  <1>2. Later \subseteq Nat /\ Later # {}
    BY <1>1
  <1>3. PICK j \in Later : \A x \in Later : j <= x
    BY <1>2, LeastOf
  <1>4. source[j].parent \in Nat /\ source[j].parent < j /\ source[j].parent \in Visible \cup {0}
    BY <1>1, DocumentShape DEF Reached
  <1>5. source[j].parent < n
    <2> SUFFICES ASSUME ~(source[j].parent < n) PROVE FALSE
      OBVIOUS
    <2>1. source[j].parent >= n /\ source[j].parent # 0
      BY <1>4
    <2>2. source[j].parent \in Later
      BY <1>4, <2>1, VisibleIsReached
    <2> QED
      BY <1>2, <1>3, <1>4, <2>2
  <1> QED
    BY <1>3, <1>5 DEF Frontier

LEMMA FrontierOrder ==
  ASSUME source \in Documents, NEW n
  PROVE  /\ Irreflexive(Less, Frontier(n))
         /\ Frontier(n) \subseteq Nat /\ Frontier(n) \subseteq DOMAIN source
  BY DocumentShape DEF Irreflexive, Less, Frontier, Reached

(* The tree that Apply rewrites keeps its shape.                              *)
SameTree == /\ DOMAIN doc = DOMAIN source
            /\ \A i \in DOMAIN source : /\ doc[i].parent = source[i].parent
                                        /\ doc[i].kind = source[i].kind
                                        /\ doc[i].skipped = source[i].skipped

LEMMA ChildrenList ==
  ASSUME source \in Documents, SameTree, NEW n \in Nat
  PROVE  Lists(Children(n), {i \in DOMAIN source : source[i].parent = n}, Less)
  <1> DEFINE C == {i \in DOMAIN source : source[i].parent = n}
  <1>1. C = {i \in DOMAIN doc : doc[i].parent = n}
    BY DEF SameTree
  <1>2. Len(source) \in Nat /\ DOMAIN source = 1..Len(source)
    BY DocumentShape
  <1>3. IsFiniteSet(DOMAIN source)
    BY <1>2, FS_Interval
  <1>4. C \subseteq Nat /\ IsFiniteSet(C)
    BY <1>2, <1>3, FS_Subset
  <1>5. Lists(InOrder(C), C, Less)
    BY <1>4, InOrderLists
  <1> HIDE DEF C
  <1> QED
    BY <1>1, <1>5 DEF Children, C

LEMMA WalkStarts ==
  ASSUME source \in Documents, SameTree
  PROVE  Lists(Children(0), Frontier(1), Less)
  <1>1. \A i \in DOMAIN source : i >= 1 /\ source[i].parent \in Nat
    BY DocumentShape
  <1>2. Frontier(1) = {i \in DOMAIN source : source[i].parent = 0}
    BY <1>1 DEF Frontier, Reached
  <1> QED
    BY <1>2, ChildrenList

(* One turn of the walk: it visits the next place that it comes to at all,    *)
(* and is about to visit the ones after it.                                   *)
LEMMA WalkTurn ==
  ASSUME source \in Documents, SameTree, NEW n \in Nat \ {0}, WalkIsAt(n), pending # <<>>, Walk
  PROVE  /\ Here \in Frontier(n)
         /\ \A i \in Reached : i >= n => i >= Here
         /\ Lists(pending', Frontier(Here + 1), Less)
  <1> DEFINE h == Here
             C == {i \in DOMAIN source : source[i].parent = h}
             Rest == Frontier(n) \ {h}
             Next_(s) == IF s THEN {} ELSE C
  <1>1. Irreflexive(Less, Frontier(n)) /\ Frontier(n) \subseteq DOMAIN source
    BY FrontierOrder
  <1>2. /\ h \in Frontier(n)
        /\ \A x \in Rest : <<h, x>> \in Less
        /\ Lists(Tail(pending), Rest, Less)
    BY <1>1, TailLists DEF WalkIsAt, Here
  <1> HIDE DEF h
  <1>3. /\ h \in Reached /\ h \in Nat \ {0} /\ h >= n /\ source[h].parent < n
        /\ source[h].parent \in Nat /\ source[h].parent < h
        /\ \A i \in Reached : i \in Nat \ {0} /\ source[i].parent \in Nat /\ source[i].parent < i
    BY <1>2, DocumentShape DEF Frontier, Reached
  <1>4. ASSUME NEW i \in Reached, i >= n
        PROVE  i >= h
    <2>1. PICK j \in Frontier(n) : j <= i
      BY <1>4, FrontierFirst
    <2>2. j = h \/ h < j
      BY <1>2 DEF Less
    <2>3. j \in Nat
      BY <1>3, <2>1 DEF Frontier
    <2> QED
      BY <1>3, <2>1, <2>2, <2>3
  <1>5. Frontier(h + 1) = Next_(source[h].skipped) \cup Rest
    <2>1. ASSUME NEW i \in Frontier(h + 1)
          PROVE  i \in Next_(source[h].skipped) \cup Rest
      <3>1. i \in Reached /\ i >= h + 1 /\ source[i].parent < h + 1
            /\ i \in DOMAIN source /\ source[i].parent \in Visible \cup {0}
        BY <2>1 DEF Frontier, Reached
      <3>2. i \in Nat /\ source[i].parent \in Nat /\ source[i].parent < i
        BY <1>3, <3>1
      <3>3. CASE source[i].parent = h
        <4>1. h \in Visible
          BY <1>3, <3>1, <3>3
        <4>2. ~source[h].skipped
          BY <4>1, VisibleNodes
        <4> QED
          BY <3>1, <3>3, <4>2
      <3>4. CASE source[i].parent # h
        <4> DEFINE p == source[i].parent
        <4>1. p \in Nat /\ p < h
          BY <1>3, <3>1, <3>2, <3>4
        <4>2. p < n
          <5> SUFFICES ASSUME p >= n PROVE FALSE
            BY <4>1
          <5>1. p # 0
            BY <4>1
          <5>2. p \in Reached
            BY <3>1, <5>1, VisibleIsReached
          <5>3. p >= h
            BY <1>4, <5>2
          <5> QED
            BY <1>3, <4>1, <5>3
        <4>3. i >= n /\ i # h
          BY <1>3, <3>1, <3>2
        <4> QED
          BY <3>1, <4>2, <4>3 DEF Frontier
      <3> QED
        BY <3>3, <3>4
    <2>2. ASSUME NEW i \in C, ~source[h].skipped
          PROVE  i \in Frontier(h + 1)
      <3>1. h \in Visible
        BY <1>3, <2>2, VisibleNodes DEF Reached
      <3>2. i \in Reached /\ source[i].parent = h
        BY <3>1 DEF Reached
      <3>3. i \in Nat /\ h < i
        BY <1>3, <3>2
      <3>4. i >= h + 1 /\ h < h + 1
        BY <1>3, <3>3
      <3> QED
        BY <3>2, <3>4 DEF Frontier
    <2>3. ASSUME NEW i \in Rest
          PROVE  i \in Frontier(h + 1)
      <3>1. i \in Reached /\ source[i].parent < n /\ h < i
        BY <1>2 DEF Frontier, Less
      <3>2. i \in Nat /\ source[i].parent \in Nat
        BY <1>3, <3>1
      <3>3. i >= h + 1 /\ source[i].parent < h + 1
        BY <1>3, <3>1, <3>2
      <3> QED
        BY <3>1, <3>3 DEF Frontier
    <2> HIDE DEF Rest, C
    <2> QED
      BY <2>1, <2>2, <2>3
  <1>6. ASSUME NEW c \in C, NEW f \in Rest
        PROVE  <<c, f>> \in Less
    <2>1. f \in Reached /\ f \in DOMAIN source /\ source[f].parent < n /\ h < f
      BY <1>1, <1>2 DEF Frontier, Less
    <2>2. /\ c \in Nat /\ f \in Nat /\ c \in DOMAIN source
          /\ source[c].parent = h /\ h \in DOMAIN source
      BY <1>1, <1>2, <1>3, <2>1, DocumentShape
    <2>3. source[f].parent \in Nat /\ source[f].parent < h
      <3>1. source[f].parent \in Nat
        BY <1>3, <2>1
      <3> QED
        BY <1>3, <2>1, <3>1
    <2>4. ~(f < c)
      <3> SUFFICES ASSUME f < c PROVE FALSE
        OBVIOUS
      <3>1. source[f].parent >= h
        BY <2>1, <2>2, DocumentShape
      <3> QED
        BY <1>3, <2>3, <3>1
    <2>5. f # c
      BY <1>3, <2>2, <2>3
    <2> QED
      BY <2>2, <2>4, <2>5 DEF Less
  <1>7. Lists(Children(h), C, Less)
    BY <1>3, ChildrenList
  <1>8. doc[h].skipped = source[h].skipped
    BY <1>1, <1>2 DEF SameTree
  <1>9. pending' = (IF doc[h].skipped THEN <<>> ELSE Children(h)) \o Tail(pending)
    BY DEF Walk, h
  <1> HIDE DEF C, Rest
  <1>10. Lists(pending', Frontier(h + 1), Less)
    <2>1. CASE source[h].skipped
      <3>1. pending' = <<>> \o Tail(pending) /\ Frontier(h + 1) = Rest
        BY <1>5, <1>8, <1>9, <2>1
      <3>2. <<>> \o Tail(pending) = Tail(pending)
        BY <1>2 DEF Lists
      <3> QED
        BY <1>2, <3>1, <3>2
    <2>2. CASE ~source[h].skipped
      <3>1. pending' = Children(h) \o Tail(pending) /\ Frontier(h + 1) = C \cup Rest
        BY <1>5, <1>8, <1>9, <2>2
      <3> QED
        BY <1>2, <1>6, <1>7, <3>1, ConcatLists
    <2> QED
      BY <2>1, <2>2
  <1> QED
    BY <1>2, <1>4, <1>10 DEF h

(* When nothing is pending, the walk has been everywhere that it comes to.    *)
LEMMA WalkEnds ==
  ASSUME source \in Documents, NEW n \in Nat \ {0}, WalkIsAt(n), pending = <<>>
  PROVE  \A i \in Reached : i < n
  <1>1. Frontier(n) = {}
    BY EmptyLists DEF WalkIsAt
  <1>2. \A i \in Reached : i \in Nat
    BY DocumentShape DEF Reached
  <1>3. \A i \in Reached : ~(i >= n)
    BY <1>1, FrontierFirst
  <1> QED
    BY <1>2, <1>3

-----------------------------------------------------------------------------
(* What Extract has collected.                                                *)

NodeRecord == [id : Nat, text : {TextAt(i) : i \in DOMAIN source}, place : DOMAIN source]

\* The list has the texts of the places before n, each from the first of its places.
Collected(list, n) ==
    /\ list \in Seq(NodeRecord)
    /\ \A i \in Places : i < n => \E k \in DOMAIN list : list[k].text = TextAt(i)
    /\ \A k \in DOMAIN list :
          /\ list[k].id = k - 1
          /\ list[k].place \in Places /\ list[k].place < n
          /\ list[k].text = TextAt(list[k].place)
          /\ \A i \in Places : i < n /\ TextAt(i) = list[k].text => list[k].place <= i
          /\ \A m \in DOMAIN list : m < k => list[m].place < list[k].place

LEMMA PlacesAreReached ==
  ASSUME source \in Documents
  PROVE  /\ Places \subseteq Reached
         /\ Places \subseteq DOMAIN source
         /\ \A i \in Reached : i \in Places <=> source[i].kind = "text" /\ TextAt(i) # <<>>
  <1>1. Places \subseteq Reached /\ Places \subseteq DOMAIN source
    BY VisibleIsReached DEF Places
  <1>2. ASSUME NEW i \in Reached, source[i].kind = "text"
        PROVE  i \in Visible
    <2>1. i \in DOMAIN source /\ source[i].parent \in Visible \cup {0}
      BY DEF Reached
    <2>2. ~source[i].skipped
      BY <1>2, <2>1, DocumentShape
    <2> QED
      BY <2>1, <2>2, VisibleNodes
  <1>3. \A i \in Reached : i \in Places <=> source[i].kind = "text" /\ TextAt(i) # <<>>
    BY <1>2 DEF Places, TextAt, Reached
  <1> QED
    BY <1>1, <1>3

(* Nothing between n and the place that is visited has a text to collect.     *)
LEMMA UpToHere ==
  ASSUME source \in Documents, NEW n \in Nat \ {0}, NEW h \in Frontier(n),
         \A i \in Reached : i >= n => i >= h
  PROVE  /\ h \in Nat /\ h >= n /\ h \in DOMAIN source /\ h \in Reached
         /\ \A i \in Places : i \in Nat /\ (i < h + 1 <=> i < n \/ i = h)
  <1>1. h \in Nat /\ h >= n /\ h \in DOMAIN source /\ h \in Reached
    BY FrontierOrder DEF Frontier
  <1>2. ASSUME NEW i \in Places
        PROVE  i \in Nat /\ (i < h + 1 <=> i < n \/ i = h)
    <2>1. i \in Nat /\ i \in Reached
      BY PlacesAreReached, DocumentShape
    <2>2. i >= n => i >= h
      BY <2>1
    <2> QED
      BY <1>1, <2>1, <2>2
  <1> QED
    BY <1>1, <1>2

(* A place whose text is known, or that has none, adds nothing.               *)
LEMMA CollectNothing ==
  ASSUME source \in Documents, NEW n \in Nat \ {0}, NEW h \in Frontier(n),
         \A i \in Reached : i >= n => i >= h,
         Collected(nodes, n),
         h \in Places => \E k \in DOMAIN nodes : nodes[k].text = TextAt(h)
  PROVE  Collected(nodes, h + 1)
  <1>1. /\ h \in Nat /\ h >= n
        /\ \A i \in Places : i \in Nat /\ (i < h + 1 <=> i < n \/ i = h)
    BY UpToHere
  <1>2. \A i \in Places : i < h + 1 => \E k \in DOMAIN nodes : nodes[k].text = TextAt(i)
    BY <1>1 DEF Collected
  <1>3. ASSUME NEW k \in DOMAIN nodes
        PROVE  /\ nodes[k].place < h + 1
               /\ \A i \in Places : i < h + 1 /\ TextAt(i) = nodes[k].text => nodes[k].place <= i
    <2>1. nodes[k].place \in Places /\ nodes[k].place < n
      BY DEF Collected
    <2>2. nodes[k].place \in Nat /\ nodes[k].place < h + 1 /\ nodes[k].place <= h
      BY <1>1, <2>1
    <2>3. \A i \in Places : i < n /\ TextAt(i) = nodes[k].text => nodes[k].place <= i
      BY DEF Collected
    <2> QED
      BY <1>1, <2>2, <2>3
  <1> QED
    BY <1>2, <1>3 DEF Collected

(* A place with a new text adds it.                                           *)
LEMMA CollectOne ==
  ASSUME source \in Documents, NEW n \in Nat \ {0}, NEW h \in Frontier(n),
         \A i \in Reached : i >= n => i >= h,
         Collected(nodes, n),
         h \in Places, \A k \in DOMAIN nodes : nodes[k].text # TextAt(h),
         NEW list,
         list = Append(nodes, [id |-> Len(nodes), text |-> TextAt(h), place |-> h])
  PROVE  Collected(list, h + 1)
  <1> DEFINE m == Len(nodes)
             node == [id |-> m, text |-> TextAt(h), place |-> h]
  <1>1. /\ h \in Nat /\ h >= n /\ h \in DOMAIN source
        /\ \A i \in Places : i \in Nat /\ (i < h + 1 <=> i < n \/ i = h)
    BY UpToHere
  <1>2. nodes \in Seq(NodeRecord) /\ m \in Nat /\ DOMAIN nodes = 1..m
    BY DEF Collected
  <1>3. node \in NodeRecord
    BY <1>1, <1>2 DEF NodeRecord
  <1>4. /\ list \in Seq(NodeRecord) /\ DOMAIN list = 1..(m + 1)
        /\ \A k \in 1..m : list[k] = nodes[k]
        /\ list[m + 1] = node
    <2> HIDE DEF node
    <2>1. list = Append(nodes, node)
      BY DEF node
    <2> QED
      BY <1>2, <1>3, <2>1
  <1> HIDE DEF m
  <1>5. \A k \in 1..(m + 1) : k \in 1..m \/ k = m + 1
    BY <1>2
  <1>6. list[m + 1].id = m /\ list[m + 1].text = TextAt(h) /\ list[m + 1].place = h
    <2>1. node.id = m /\ node.text = TextAt(h) /\ node.place = h
      OBVIOUS
    <2> HIDE DEF node
    <2>2. list[m + 1] = node
      BY <1>4
    <2> QED
      BY <2>1, <2>2
  <1>7. m + 1 \in 1..(m + 1) /\ \A k \in 1..m : k \in 1..(m + 1) /\ k # m + 1
    BY <1>2
  <1>8. ASSUME NEW i \in Places, i < h + 1
        PROVE  \E k \in DOMAIN list : list[k].text = TextAt(i)
    <2>1. CASE i = h
      BY <1>4, <1>6, <1>7, <2>1
    <2>2. CASE i < n
      <3>1. PICK k \in 1..m : nodes[k].text = TextAt(i)
        BY <1>2, <2>2 DEF Collected
      <3> QED
        BY <1>4, <1>7, <3>1
    <2> QED
      BY <1>1, <1>8, <2>1, <2>2
  <1>9. ASSUME NEW k \in 1..m
        PROVE  /\ list[k].id = k - 1
               /\ list[k].place \in Places /\ list[k].place < h + 1 /\ list[k].place < h
               /\ list[k].text = TextAt(list[k].place)
               /\ \A i \in Places : i < h + 1 /\ TextAt(i) = list[k].text => list[k].place <= i
               /\ \A l \in 1..m : l < k => list[l].place < list[k].place
    <2>1. /\ nodes[k].id = k - 1
          /\ nodes[k].place \in Places /\ nodes[k].place < n
          /\ nodes[k].text = TextAt(nodes[k].place)
          /\ \A i \in Places : i < n /\ TextAt(i) = nodes[k].text => nodes[k].place <= i
          /\ \A l \in 1..m : l < k => nodes[l].place < nodes[k].place
          /\ nodes[k].text # TextAt(h)
      BY <1>2 DEF Collected
    <2>2. list[k] = nodes[k] /\ \A l \in 1..m : list[l] = nodes[l]
      BY <1>4
    <2>3. nodes[k].place \in Nat /\ nodes[k].place < h + 1 /\ nodes[k].place < h
      <3>1. nodes[k].place \in Nat
        BY <1>1, <2>1
      <3> QED
        BY <1>1, <2>1, <3>1
    <2>4. \A i \in Places : i < h + 1 /\ TextAt(i) = nodes[k].text => nodes[k].place <= i
      BY <1>1, <2>1
    <2>5. \A l \in 1..m : l < k => list[l].place < list[k].place
      BY <2>1, <2>2
    <2> QED
      BY <2>1, <2>2, <2>3, <2>4, <2>5
  <1>10. \A i \in Places : i < h + 1 /\ TextAt(i) = TextAt(h) => h <= i
    <2> SUFFICES ASSUME NEW i \in Places, i < n, TextAt(i) = TextAt(h) PROVE FALSE
      BY <1>1
    <2>1. \E k \in 1..m : nodes[k].text = TextAt(i)
      BY <1>2 DEF Collected
    <2> QED
      BY <1>2, <2>1
  <1>11. ASSUME NEW k \in DOMAIN list
         PROVE  /\ list[k].id = k - 1
                /\ list[k].place \in Places /\ list[k].place < h + 1
                /\ list[k].text = TextAt(list[k].place)
                /\ \A i \in Places : i < h + 1 /\ TextAt(i) = list[k].text => list[k].place <= i
                /\ \A l \in DOMAIN list : l < k => list[l].place < list[k].place
    <2>1. CASE k \in 1..m
      <3>1. \A l \in DOMAIN list : l < k => l \in 1..m
        BY <1>2, <1>4, <2>1
      <3> QED
        BY <1>9, <2>1, <3>1
    <2>2. CASE k = m + 1
      <3>1. \A l \in DOMAIN list : l < k => l \in 1..m
        BY <1>2, <1>4, <2>2
      <3>2. \A l \in DOMAIN list : l < k => list[l].place < list[k].place
        BY <1>6, <1>9, <2>2, <3>1
      <3>3. list[k].id = k - 1 /\ h < h + 1
        BY <1>1, <1>2, <1>6, <2>2
      <3> QED
        BY <1>6, <1>10, <2>2, <3>2, <3>3
    <2> QED
      BY <1>4, <1>5, <2>1, <2>2
  <1> QED
    BY <1>4, <1>8, <1>11 DEF Collected

-----------------------------------------------------------------------------
(* What Apply has replaced.                                                   *)

HasTranslation(i) == i \in Places /\ table[TextAt(i)] # Absent

Rewritten(i) == [source[i] EXCEPT !.data = PreserveWhitespace(@, table[TextAt(i)])]

\* The document with the translations of the places before n.
AppliedUpTo(n) ==
    doc = [i \in DOMAIN source |-> IF i < n /\ HasTranslation(i) THEN Rewritten(i) ELSE source[i]]

TableType == table \in [{TextAt(i) : i \in Places} -> Translations \cup {Absent}]

LEMMA RewrittenNode ==
  ASSUME source \in Documents, NEW i \in DOMAIN source
  PROVE  /\ Rewritten(i).parent = source[i].parent
         /\ Rewritten(i).kind = source[i].kind
         /\ Rewritten(i).skipped = source[i].skipped
         /\ Rewritten(i).data = PreserveWhitespace(source[i].data, table[TextAt(i)])
         /\ [Rewritten(i) EXCEPT !.data = <<>>] = [source[i] EXCEPT !.data = <<>>]
  <1>1. source[i] \in Node
    BY DocumentShape
  <1>2. DOMAIN source[i] = {"parent", "kind", "skipped", "data"}
    BY <1>1 DEF Node
  <1> DEFINE d == PreserveWhitespace(source[i].data, table[TextAt(i)])
  <1>3. Rewritten(i) = [source[i] EXCEPT !.data = d]
    BY DEF Rewritten
  <1> HIDE DEF d
  <1> QED
    BY <1>1, <1>2, <1>3 DEF Node, d

LEMMA AppliedTree ==
  ASSUME source \in Documents, NEW n, AppliedUpTo(n)
  PROVE  SameTree
  BY RewrittenNode DEF AppliedUpTo, SameTree

(* Nothing of the document is replaced before the first turn.                 *)
LEMMA NothingApplied ==
  ASSUME source \in Documents, doc = source
  PROVE  AppliedUpTo(1) /\ SameTree
  <1>1. source = [i \in DOMAIN source |-> source[i]]
    <2>1. source \in Seq(Node)
      BY HTMLAssumption
    <2> QED
      BY <2>1
  <1>2. \A i \in DOMAIN source : ~(i < 1)
    BY DocumentShape
  <1> QED
    BY <1>1, <1>2 DEF AppliedUpTo, SameTree

(* What the visit of a place finds there is what the document came with.      *)
LEMMA TextHere ==
  ASSUME source \in Documents, NEW h \in Reached, h = Here, doc[h] = source[h]
  PROVE  /\ Hash = TextAt(h)
         /\ IsText <=> h \in Places
  BY PlacesAreReached DEF Hash, TextAt, IsText

(* One turn of Apply replaces the text of its place, and no other.            *)
LEMMA ApplyTurn ==
  ASSUME source \in Documents, NEW n \in Nat \ {0}, NEW h \in Frontier(n), h = Here,
         \A i \in Reached : i >= n => i >= h,
         AppliedUpTo(n), TableType,
         \/ Translated /\ doc' = [doc EXCEPT ![Here].data = PreserveWhitespace(@, table[Hash])]
         \/ ~Translated /\ UNCHANGED doc
  PROVE  doc' = [i \in DOMAIN source |->
                    IF i < h + 1 /\ HasTranslation(i) THEN Rewritten(i) ELSE source[i]]
  <1> DEFINE New(i) == IF i < h + 1 /\ HasTranslation(i) THEN Rewritten(i) ELSE source[i]
  <1>1. /\ h \in Nat /\ h >= n /\ h \in DOMAIN source /\ h \in Reached
        /\ \A i \in Places : i \in Nat /\ (i < h + 1 <=> i < n \/ i = h)
    BY UpToHere
  <1>2. DOMAIN doc = DOMAIN source /\ doc[h] = source[h]
    BY <1>1 DEF AppliedUpTo
  <1>3. Hash = TextAt(h) /\ (IsText <=> h \in Places)
    BY <1>1, <1>2, TextHere
  <1>4. Translated <=> HasTranslation(h)
    BY <1>3 DEF Translated, HasTranslation, TableType
  <1>5. \A i \in DOMAIN source : i # h => doc[i] = New(i)
    BY <1>1 DEF AppliedUpTo, HasTranslation
  <1>6. h < h + 1
    BY <1>1
  <1>7. CASE HasTranslation(h)
    <2>1. doc' = [doc EXCEPT ![h].data = PreserveWhitespace(@, table[TextAt(h)])]
      BY <1>3, <1>4, <1>7
    <2>2. doc' = [doc EXCEPT ![h] = Rewritten(h)]
      BY <1>2, <2>1 DEF Rewritten
    <2>3. DOMAIN doc' = DOMAIN source /\ doc'[h] = Rewritten(h)
          /\ \A i \in DOMAIN source : i # h => doc'[i] = doc[i]
      BY <1>1, <1>2, <2>2
    <2>4. New(h) = Rewritten(h)
      BY <1>6, <1>7
    <2>5. \A i \in DOMAIN source : doc'[i] = New(i)
      BY <1>5, <2>3, <2>4
    <2>6. doc' = [i \in DOMAIN doc' |-> doc'[i]]
      BY <2>2
    <2> HIDE DEF New
    <2>7. doc' = [i \in DOMAIN source |-> New(i)]
      BY <2>3, <2>5, <2>6
    <2> QED
      BY <2>7 DEF New
  <1>8. CASE ~HasTranslation(h)
    <2>1. doc' = doc
      BY <1>4, <1>8
    <2>2. New(h) = source[h]
      BY <1>8
    <2>3. \A i \in DOMAIN source : doc[i] = New(i)
      BY <1>2, <1>5, <2>2
    <2>4. doc = [i \in DOMAIN source |-> doc[i]]
      BY DEF AppliedUpTo
    <2> HIDE DEF New
    <2>5. doc' = [i \in DOMAIN source |-> New(i)]
      BY <2>1, <2>3, <2>4
    <2> QED
      BY <2>5 DEF New
  <1> QED
    BY <1>7, <1>8

-----------------------------------------------------------------------------
(* The invariant.                                                             *)

Extracting == \E n \in Nat \ {0} : WalkIsAt(n) /\ Collected(nodes, n)
Applying == \E n \in Nat \ {0} : WalkIsAt(n) /\ AppliedUpTo(n)

HTMLInv ==
    /\ source \in Documents
    /\ pc \in {"extract", "translate", "apply", "done"}
    /\ pc \in {"extract", "translate"} => doc = source
    /\ pc = "extract" => Extracting
    /\ pc # "extract" => Collected(nodes, Len(source) + 1)
    /\ pc \in {"apply", "done"} => TableType
    /\ pc = "apply" => Applying
    /\ pc = "done" => AppliedUpTo(Len(source) + 1)

LEMMA HTMLInvInit == Init => HTMLInv
  <1> SUFFICES ASSUME Init PROVE HTMLInv
    OBVIOUS
  <1>1. /\ source \in Documents /\ doc = source /\ pc = "extract"
        /\ nodes = <<>> /\ pending = Children(0)
    BY DEF Init
  <1>2. WalkIsAt(1)
    BY <1>1, NothingApplied, WalkStarts DEF WalkIsAt
  <1>3. Collected(nodes, 1)
    <2>1. \A i \in Places : ~(i < 1)
      BY <1>1, PlacesAreReached, DocumentShape
    <2>2. nodes \in Seq(NodeRecord) /\ DOMAIN nodes = {}
      BY <1>1
    <2> QED
      BY <2>1, <2>2 DEF Collected
  <1>4. Extracting
    BY <1>2, <1>3 DEF Extracting
  <1> QED
    BY <1>1, <1>4 DEF HTMLInv

\* What depends on the document that came does not change.
LEMMA SourceStays ==
  ASSUME UNCHANGED source
  PROVE  /\ Places' = Places /\ NodeRecord' = NodeRecord /\ Reached' = Reached
         /\ \A n : Frontier(n)' = Frontier(n)
         /\ \A i : TextAt(i)' = TextAt(i)
  BY DEF Places, NodeRecord, Reached, Frontier, TextAt, Visible

LEMMA CollectedStays ==
  ASSUME UNCHANGED source, NEW n, NEW list, Collected(list, n)
  PROVE  Collected(list, n)'
  BY SourceStays DEF Collected

LEMMA ExtractInv ==
  ASSUME HTMLInv, Extract
  PROVE  HTMLInv'
  <1>1. source \in Documents /\ doc = source /\ pc = "extract" /\ pending # <<>> /\ Extracting
    BY DEF HTMLInv, Extract
  <1>2. UNCHANGED <<source, doc, pc, table>> /\ Walk
    BY DEF Extract
  <1>3. PICK n \in Nat \ {0} : WalkIsAt(n) /\ Collected(nodes, n)
    BY <1>1 DEF Extracting
  <1>4. SameTree
    BY <1>1, NothingApplied
  <1>5. /\ Here \in Frontier(n)
        /\ \A i \in Reached : i >= n => i >= Here
        /\ Lists(pending', Frontier(Here + 1), Less)
    BY <1>1, <1>2, <1>3, <1>4, WalkTurn
  <1>6. PICK h : h = Here
    OBVIOUS
  <1>7. h \in Reached /\ h \in Nat
    BY <1>1, <1>5, <1>6, FrontierOrder DEF Frontier
  <1>8. Hash = TextAt(h) /\ (IsText <=> h \in Places)
    BY <1>1, <1>6, <1>7, TextHere
  <1>9. Collected(nodes', h + 1)
    <2>1. CASE h \in Places /\ ~Seen
      <3>1. \A k \in DOMAIN nodes : nodes[k].text # TextAt(h)
        BY <1>8, <2>1 DEF Seen
      <3>2. nodes' = Append(nodes, [id |-> Len(nodes), text |-> TextAt(h), place |-> h])
        BY <1>6, <1>8, <2>1 DEF Extract, NewNode
      <3> QED
        BY <1>1, <1>3, <1>5, <1>6, <2>1, <3>1, <3>2, CollectOne
    <2>2. CASE ~(h \in Places /\ ~Seen)
      <3>1. nodes' = nodes
        BY <1>8, <2>2 DEF Extract
      <3>2. h \in Places => \E k \in DOMAIN nodes : nodes[k].text = TextAt(h)
        BY <1>8, <2>2 DEF Seen
      <3>3. Collected(nodes, h + 1)
        BY <1>1, <1>3, <1>5, <1>6, <3>2, CollectNothing
      <3> QED
        BY <3>1, <3>3
    <2> QED
      BY <2>1, <2>2
  <1>10. Collected(nodes, h + 1)'
    <2>1. PICK list : list = nodes'
      OBVIOUS
    <2>2. Collected(list, h + 1)'
      BY <1>2, <1>9, <2>1, CollectedStays
    <2> QED
      BY <2>1, <2>2 DEF Collected
  <1>11. WalkIsAt(h + 1)'
    <2>1. Frontier(h + 1)' = Frontier(h + 1)
      BY <1>2, SourceStays
    <2> QED
      BY <1>5, <1>6, <2>1 DEF WalkIsAt
  <1>12. Extracting'
    <2>1. h + 1 \in Nat \ {0}
      BY <1>7
    <2> QED
      BY <1>10, <1>11, <2>1 DEF Extracting
  <1> QED
    BY <1>1, <1>2, <1>12 DEF HTMLInv

\* All the places lie before the end.
LEMMA BeforeTheEnd ==
  ASSUME source \in Documents
  PROVE  /\ Len(source) + 1 \in Nat \ {0}
         /\ \A i \in DOMAIN source : i \in Nat /\ i < Len(source) + 1
  BY DocumentShape

LEMMA ExtractedInv ==
  ASSUME HTMLInv, Extracted
  PROVE  HTMLInv'
  <1> DEFINE end == Len(source) + 1
  <1>1. source \in Documents /\ doc = source /\ pending = <<>> /\ Extracting
    BY DEF HTMLInv, Extracted
  <1>2. pc' = "translate" /\ UNCHANGED <<source, doc, pending, nodes, table>>
    BY DEF Extracted
  <1>3. PICK n \in Nat \ {0} : WalkIsAt(n) /\ Collected(nodes, n)
    BY <1>1 DEF Extracting
  <1>4. \A i \in Places : i < n /\ i < end
    BY <1>1, <1>3, WalkEnds, PlacesAreReached, BeforeTheEnd
  <1>5. Collected(nodes, end)
    <2> HIDE DEF end
    <2> QED
      BY <1>3, <1>4 DEF Collected
  <1>6. Collected(nodes, end)'
    BY <1>2, <1>5, SourceStays DEF Collected
  <1> QED
    BY <1>1, <1>2, <1>6 DEF HTMLInv

LEMMA TranslateInv ==
  ASSUME HTMLInv, Translate
  PROVE  HTMLInv'
  <1> DEFINE end == Len(source) + 1
  <1>1. source \in Documents /\ doc = source /\ Collected(nodes, end)
    BY DEF HTMLInv, Translate
  <1>2. /\ pc' = "apply" /\ UNCHANGED <<source, doc, nodes>> /\ pending' = Children(0)
        /\ table' \in [{nodes[k].text : k \in DOMAIN nodes} -> Translations \cup {Absent}]
    BY DEF Translate
  <1>3. Collected(nodes, end)'
    BY <1>1, <1>2, SourceStays DEF Collected
  <1>4. {nodes[k].text : k \in DOMAIN nodes} = {TextAt(i) : i \in Places}
    <2>1. \A i \in Places : i < end
      BY <1>1, PlacesAreReached, BeforeTheEnd
    <2> HIDE DEF end
    <2>2. \A i \in Places : \E k \in DOMAIN nodes : nodes[k].text = TextAt(i)
      BY <1>1, <2>1 DEF Collected
    <2>3. \A k \in DOMAIN nodes :
             nodes[k].place \in Places /\ nodes[k].text = TextAt(nodes[k].place)
      BY <1>1 DEF Collected
    <2> QED
      BY <2>2, <2>3
  <1>5. TableType'
    BY <1>2, <1>4, SourceStays DEF TableType
  <1>6. WalkIsAt(1)'
    <2>1. Lists(Children(0), Frontier(1), Less)
      BY <1>1, NothingApplied, WalkStarts
    <2> QED
      BY <1>2, <2>1, SourceStays DEF WalkIsAt
  <1>7. AppliedUpTo(1)'
    <2>1. source' \in Documents /\ doc' = source'
      BY <1>1, <1>2
    <2>2. \A i \in DOMAIN source : ~(i < 1)
      BY <1>1, DocumentShape
    <2>3. source = [i \in DOMAIN source |-> source[i]]
      <3>1. source \in Seq(Node)
        BY <1>1, HTMLAssumption
      <3> QED
        BY <3>1
    <2> QED
      BY <1>1, <1>2, <2>2, <2>3 DEF AppliedUpTo
  <1>8. Applying'
    BY <1>6, <1>7 DEF Applying
  <1> QED
    BY <1>1, <1>2, <1>3, <1>5, <1>8 DEF HTMLInv

LEMMA ApplyInv ==
  ASSUME HTMLInv, Apply
  PROVE  HTMLInv'
  <1>1. /\ source \in Documents /\ pc = "apply" /\ pending # <<>> /\ Applying /\ TableType
        /\ Collected(nodes, Len(source) + 1)
    BY DEF HTMLInv, Apply
  <1>2. UNCHANGED <<source, pc, nodes, table>> /\ Walk
    BY DEF Apply
  <1>3. PICK n \in Nat \ {0} : WalkIsAt(n) /\ AppliedUpTo(n)
    BY <1>1 DEF Applying
  <1>4. SameTree
    BY <1>1, <1>3, AppliedTree
  <1>5. /\ Here \in Frontier(n)
        /\ \A i \in Reached : i >= n => i >= Here
        /\ Lists(pending', Frontier(Here + 1), Less)
    BY <1>1, <1>2, <1>3, <1>4, WalkTurn
  <1>6. PICK h : h = Here
    OBVIOUS
  <1>7. h \in Nat
    BY <1>1, <1>5, <1>6, FrontierOrder
  <1>8. doc' = [i \in DOMAIN source |->
                   IF i < h + 1 /\ HasTranslation(i) THEN Rewritten(i) ELSE source[i]]
    <2>1. \/ Translated /\ doc' = [doc EXCEPT ![Here].data = PreserveWhitespace(@, table[Hash])]
          \/ ~Translated /\ UNCHANGED doc
      BY DEF Apply
    <2> QED
      BY <1>1, <1>3, <1>5, <1>6, <2>1, ApplyTurn
  <1>9. AppliedUpTo(h + 1)'
    <2>1. \A i : HasTranslation(i)' = HasTranslation(i) /\ Rewritten(i)' = Rewritten(i)
      BY <1>2, SourceStays DEF HasTranslation, Rewritten
    <2> QED
      BY <1>2, <1>8, <2>1 DEF AppliedUpTo
  <1>10. WalkIsAt(h + 1)'
    <2>1. Frontier(h + 1)' = Frontier(h + 1)
      BY <1>2, SourceStays
    <2> QED
      BY <1>5, <1>6, <2>1 DEF WalkIsAt
  <1>11. Applying'
    <2>1. h + 1 \in Nat \ {0}
      BY <1>7
    <2> QED
      BY <1>9, <1>10, <2>1 DEF Applying
  <1>12. TableType'
    BY <1>1, <1>2, SourceStays DEF TableType
  <1>13. Collected(nodes, Len(source) + 1)'
    BY <1>1, <1>2, SourceStays DEF Collected
  <1> QED
    BY <1>1, <1>2, <1>11, <1>12, <1>13 DEF HTMLInv

LEMMA AppliedInv ==
  ASSUME HTMLInv, Applied
  PROVE  HTMLInv'
  <1> DEFINE end == Len(source) + 1
  <1>1. source \in Documents /\ pending = <<>> /\ Applying /\ TableType /\ Collected(nodes, end)
    BY DEF HTMLInv, Applied
  <1>2. pc' = "done" /\ UNCHANGED <<source, doc, pending, nodes, table>>
    BY DEF Applied
  <1>3. PICK n \in Nat \ {0} : WalkIsAt(n) /\ AppliedUpTo(n)
    BY <1>1 DEF Applying
  <1>4. \A i \in Places : i < n /\ i < end
    BY <1>1, <1>3, WalkEnds, PlacesAreReached, BeforeTheEnd
  <1>5. AppliedUpTo(end)
    <2> HIDE DEF end
    <2> QED
      BY <1>3, <1>4 DEF AppliedUpTo, HasTranslation
  <1>6. AppliedUpTo(end)'
    <2>1. \A i : HasTranslation(i)' = HasTranslation(i) /\ Rewritten(i)' = Rewritten(i)
      BY <1>2, SourceStays DEF HasTranslation, Rewritten
    <2> QED
      BY <1>2, <1>5, <2>1 DEF AppliedUpTo
  <1>7. TableType' /\ Collected(nodes, end)'
    BY <1>1, <1>2, SourceStays DEF TableType, Collected
  <1> QED
    BY <1>1, <1>2, <1>6, <1>7 DEF HTMLInv

LEMMA HTMLInvStep == HTMLInv /\ [Next]_vars => HTMLInv'
  <1> SUFFICES ASSUME HTMLInv, [Next]_vars PROVE HTMLInv'
    OBVIOUS
  <1>1. CASE Extract \/ Extracted
    BY <1>1, ExtractInv, ExtractedInv
  <1>2. CASE Translate
    BY <1>2, TranslateInv
  <1>3. CASE Apply \/ Applied
    BY <1>3, ApplyInv, AppliedInv
  <1>4. CASE UNCHANGED vars
    <2>1. UNCHANGED <<source, doc, pc, pending, nodes, table>>
      BY <1>4 DEF vars
    <2>2. \A n : WalkIsAt(n)' = WalkIsAt(n) /\ Collected(nodes, n)' = Collected(nodes, n)
                 /\ AppliedUpTo(n)' = AppliedUpTo(n)
      BY <2>1, SourceStays DEF WalkIsAt, Collected, AppliedUpTo, HasTranslation, Rewritten
    <2>3. Extracting' = Extracting /\ Applying' = Applying /\ TableType' = TableType
      BY <2>1, <2>2, SourceStays DEF Extracting, Applying, TableType
    <2> QED
      BY <2>1, <2>2, <2>3 DEF HTMLInv
  <1> QED
    BY <1>1, <1>2, <1>3, <1>4 DEF Next

LEMMA HTMLInvAlways == Spec => []HTMLInv
  BY HTMLInvInit, HTMLInvStep, PTL DEF Spec

LEMMA CollectedSuffices == HTMLInv => NodesAreTheTexts
  <1> SUFFICES ASSUME HTMLInv, pc # "extract" PROVE NodesAreTheTexts
    BY DEF NodesAreTheTexts
  <1> DEFINE end == Len(source) + 1
  <1>1. source \in Documents /\ Collected(nodes, end)
    BY DEF HTMLInv
  <1>2. \A i \in Places : i < end
    BY <1>1, PlacesAreReached, BeforeTheEnd
  <1> HIDE DEF end
  <1>3. \A i \in Places : \E k \in DOMAIN nodes : nodes[k].text = TextAt(i)
    BY <1>1, <1>2 DEF Collected
  <1>4. \A k \in DOMAIN nodes :
          /\ nodes[k].id = k - 1
          /\ nodes[k].place \in Places
          /\ nodes[k].text = TextAt(nodes[k].place)
          /\ \A i \in Places : TextAt(i) = nodes[k].text => nodes[k].place <= i
          /\ \A m \in DOMAIN nodes : m < k => nodes[m].place < nodes[k].place
    BY <1>1, <1>2 DEF Collected
  <1>5. {nodes[k].text : k \in DOMAIN nodes} = {TextAt(i) : i \in Places}
    BY <1>3, <1>4
  <1> QED
    BY <1>4, <1>5 DEF NodesAreTheTexts

(* Whatever the document, Extract hands over each visible text once, under        *)
(* consecutive ids, from the first of its places and in their order               *)
(* (html.go:42-127).                                                              *)
THEOREM HTMLNodesCorrect == Spec => []NodesAreTheTexts
  BY HTMLInvAlways, CollectedSuffices, PTL

-----------------------------------------------------------------------------
(* What is around a text.                                                     *)

Characters == ASCIISpace \cup OtherSpace \cup Letters

(* The part of a text that Leading counts has space only (html.go:273-275).   *)
LEMMA LeadingIsSpace ==
  ASSUME NEW s \in Seq(Characters), NEW space
  PROVE  /\ Leading(s, space) \in Nat /\ Leading(s, space) <= Len(s)
         /\ \A i \in 1..Leading(s, space) : s[i] \in space
  <1> DEFINE n == Len(s)
             I == {i \in 1..n : \A j \in 1..i : s[j] \in space}
             J == (1..(n + 1)) \ I
  <1>1. n \in Nat /\ DOMAIN s = 1..n /\ Leading(s, space) = Cardinality(I)
    <2>1. n \in Nat /\ DOMAIN s = 1..n
      OBVIOUS
    <2>2. Leading(s, space) = Cardinality({i \in DOMAIN s : \A j \in 1..i : s[j] \in space})
      BY Zenon DEF Leading
    <2> QED
      BY <2>1, <2>2
  <1> HIDE DEF n
  <1>2. n + 1 \in J /\ J \subseteq Nat
    BY <1>1
  <1>3. PICK m \in J : \A x \in J : m <= x
    BY <1>2, LeastOf
  <1>4. m \in 1..(n + 1) /\ m \notin I
    BY <1>3
  <1>5. ASSUME NEW i \in I
        PROVE  i < m
    <2> SUFFICES ASSUME m <= i PROVE FALSE
      BY <1>1, <1>4
    <2>1. m \in 1..n /\ \A j \in 1..m : j \in 1..i
      BY <1>1, <1>4
    <2>2. m \in I
      BY <2>1
    <2> QED
      BY <1>4, <2>2
  <1>6. ASSUME NEW i \in 1..(m - 1)
        PROVE  i \in I
    <2>1. i \in 1..(n + 1) /\ i \in Nat /\ ~(m <= i)
      BY <1>1, <1>4
    <2> QED
      BY <1>3, <2>1
  <1>7. I = 1..(m - 1)
    <2>1. \A i \in I : i \in 1..(m - 1)
      BY <1>1, <1>4, <1>5
    <2> HIDE DEF I
    <2> QED
      BY <1>6, <2>1
  <1>8. m - 1 \in Nat /\ m - 1 <= n /\ m - 1 \in Int
    BY <1>1, <1>4
  <1>9. Cardinality(I) = m - 1
    <2>1. Cardinality(1..(m - 1)) = m - 1
      BY <1>8, FS_Interval
    <2> QED
      BY <1>7, <2>1
  <1>10. \A i \in 1..(m - 1) : s[i] \in space
    <2> SUFFICES ASSUME NEW i \in 1..(m - 1) PROVE s[i] \in space
      OBVIOUS
    <2>1. i \in I /\ i \in 1..i
      BY <1>6, <1>8
    <2> QED
      BY <2>1
  <1> QED
    BY <1>1, <1>8, <1>9, <1>10 DEF n

LEMMA LeadIsSpace ==
  ASSUME NEW s \in Seq(Characters), NEW space
  PROVE  Lead(s, space) \in Seq(space) /\ Lead(s, space) \in Seq(Characters)
  <1> DEFINE k == Leading(s, space)
  <1>1. k \in Nat /\ k <= Len(s) /\ \A i \in 1..k : s[i] \in space
    BY LeadingIsSpace
  <1>2. Lead(s, space) = SubSeq(s, 1, k)
    BY DEF Lead
  <1> HIDE DEF k
  <1>3. Len(Lead(s, space)) = k /\ Lead(s, space) = [i \in 1..k |-> s[i]]
    BY <1>1, <1>2
  <1>4. \A i \in 1..k : s[i] \in Characters
    BY <1>1
  <1> QED
    BY <1>1, <1>3, <1>4

LEMMA TrailIsSpace ==
  ASSUME NEW s \in Seq(Characters), NEW space
  PROVE  Trail(s, space) \in Seq(space) /\ Trail(s, space) \in Seq(Characters)
  <1> DEFINE k == Leading(Reverse(s), space)
             n == Len(s)
  <1>1. n \in Nat /\ \A i \in 1..n : s[i] \in Characters
    OBVIOUS
  <1>2. Reverse(s) = [i \in 1..n |-> s[(n - i) + 1]]
    BY DEF Reverse
  <1>3. Reverse(s) \in Seq(Characters) /\ Len(Reverse(s)) = n
    BY <1>1, <1>2
  <1>4. k \in Nat /\ k <= n /\ \A i \in 1..k : Reverse(s)[i] \in space
    BY <1>3, LeadingIsSpace
  <1>5. Trail(s, space) = SubSeq(s, n - k + 1, n)
    BY DEF Trail
  <1> HIDE DEF k, n
  <1>6. \A i \in 1..k : s[(n - k) + i] \in space
    <2> SUFFICES ASSUME NEW i \in 1..k PROVE s[(n - k) + i] \in space
      OBVIOUS
    <2>1. (k - i) + 1 \in 1..k /\ (k - i) + 1 \in 1..n /\ (n - ((k - i) + 1)) + 1 = (n - k) + i
      BY <1>1, <1>4
    <2>2. Reverse(s)[(k - i) + 1] = s[(n - k) + i]
      BY <1>2, <2>1
    <2> QED
      BY <1>4, <2>1, <2>2
  <1>7. Trail(s, space) = [i \in 1..k |-> s[(n - k) + i]]
    BY <1>1, <1>4, <1>5 DEF n
  <1>8. \A i \in 1..k : s[(n - k) + i] \in Characters
    BY <1>1, <1>4
  <1> QED
    BY <1>4, <1>6, <1>7, <1>8

(* What is put around a text stands at its two ends.                          *)
LEMMA EndsOfConcat ==
  ASSUME NEW C, NEW p \in Seq(C), NEW t \in Seq(C), NEW q \in Seq(C)
  PROVE  IsPrefix(p, p \o t \o q) /\ IsSuffix(q, p \o t \o q)
  <1> DEFINE a == Len(p)
             b == Len(t)
             c == Len(q)
             all == p \o t \o q
  <1>1. a \in Nat /\ b \in Nat /\ c \in Nat
    OBVIOUS
  <1>2. /\ all \in Seq(C) /\ Len(all) = a + b + c
        /\ \A i \in 1..a : all[i] = p[i]
        /\ \A i \in 1..c : all[a + b + i] = q[i]
    OBVIOUS
  <1>3. DOMAIN p = 1..a /\ DOMAIN q = 1..c /\ Len(p) = a /\ Len(q) = c
    OBVIOUS
  <1> HIDE DEF a, b, c, all
  <1>4. SubSeq(p, 1, a) = SubSeq(all, 1, a)
    <2>1. SubSeq(p, 1, a) = [i \in 1..a |-> p[i]]
      BY <1>1, <1>3
    <2>2. SubSeq(all, 1, a) = [i \in 1..a |-> all[i]]
      BY <1>1, <1>2
    <2> QED
      BY <1>2, <2>1, <2>2
  <1>5. IsPrefix(p, all)
    BY <1>1, <1>2, <1>3, <1>4 DEF IsPrefix
  <1> DEFINE r == Reverse(q)
             s == Reverse(all)
             n == a + b + c
  <1>6. r = [i \in 1..c |-> q[(c - i) + 1]] /\ s = [i \in 1..n |-> all[(n - i) + 1]]
    BY <1>2, <1>3 DEF Reverse
  <1>7. n \in Nat /\ c <= n
    BY <1>1
  <1>8. r \in Seq(C) /\ s \in Seq(C) /\ Len(r) = c /\ Len(s) = n
    <2>1. \A i \in 1..c : q[(c - i) + 1] \in C
      BY <1>1, <1>3
    <2>2. \A i \in 1..n : all[(n - i) + 1] \in C
      BY <1>2, <1>7
    <2> HIDE DEF r, s, n
    <2>3. r \in [1..c -> C] /\ s \in [1..n -> C]
      BY <1>6, <2>1, <2>2
    <2> QED
      BY <1>1, <1>7, <2>3
  <1>9. \A i \in 1..c : r[i] = s[i]
    <2> SUFFICES ASSUME NEW i \in 1..c PROVE r[i] = s[i]
      OBVIOUS
    <2>1. (c - i) + 1 \in 1..c /\ (n - i) + 1 = a + b + ((c - i) + 1) /\ i \in 1..n
      BY <1>1
    <2>2. q[(c - i) + 1] = all[(n - i) + 1]
      BY <1>2, <2>1
    <2> HIDE DEF r, s, n
    <2>3. r[i] = q[(c - i) + 1] /\ s[i] = all[(n - i) + 1]
      BY <1>6, <2>1
    <2> QED
      BY <2>2, <2>3
  <1> HIDE DEF r, s, n
  <1>10. SubSeq(r, 1, c) = SubSeq(s, 1, c)
    <2>1. SubSeq(r, 1, c) = [i \in 1..c |-> r[i]]
      BY <1>1, <1>8
    <2>2. SubSeq(s, 1, c) = [i \in 1..c |-> s[i]]
      BY <1>1, <1>7, <1>8
    <2> QED
      BY <1>9, <2>1, <2>2
  <1>11. IsSuffix(q, all)
    BY <1>7, <1>8, <1>10 DEF IsSuffix, IsPrefix, r, s
  <1> QED
    BY <1>5, <1>11 DEF all

LEMMA LeastIsMin ==
  ASSUME NEW S, S \subseteq Nat, NEW x \in S, \A y \in S : x <= y
  PROVE  Min(S) = x
  <1>1. Min(S) \in S /\ \A y \in S : Min(S) <= y
    BY Zenon DEF Min
  <1>2. x \in Nat /\ Min(S) \in Nat
    BY <1>1
  <1>3. x <= Min(S) /\ Min(S) <= x
    BY <1>1
  <1> QED
    BY <1>2, <1>3

LEMMA GreatestIsMax ==
  ASSUME NEW S, S \subseteq Nat, NEW x \in S, \A y \in S : x >= y
  PROVE  Max(S) = x
  <1>1. Max(S) \in S /\ \A y \in S : Max(S) >= y
    BY Zenon DEF Max
  <1>2. x \in Nat /\ Max(S) \in Nat
    BY <1>1
  <1>3. x >= Max(S) /\ Max(S) >= x
    BY <1>1
  <1> QED
    BY <1>2, <1>3

(* A set of numbers up to n has a greatest one.                               *)
LEMMA GreatestOf ==
  ASSUME NEW n \in Nat, NEW S, S \subseteq 1..n, S # {}
  PROVE  \E x \in S : \A y \in S : x >= y
  <1> DEFINE Back == {n - x : x \in S}
  <1>1. \A x \in S : x \in Nat /\ x <= n /\ n - x \in Nat
    OBVIOUS
  <1>2. Back \subseteq Nat /\ Back # {}
    BY <1>1
  <1>3. PICK z \in Back : \A y \in Back : z <= y
    BY <1>2, LeastOf
  <1>4. PICK x \in S : z = n - x
    BY <1>3
  <1>5. \A y \in S : n - x <= n - y
    BY <1>3, <1>4
  <1>6. \A y \in S : x >= y
    BY <1>1, <1>4, <1>5
  <1> QED
    BY <1>6

(* White space around a text is nothing to Trim, whatever the text.           *)
LEMMA TrimAround ==
  ASSUME NEW C, NEW space, NEW t \in Seq(C),
         NEW p \in Seq(C), p \in Seq(space), NEW q \in Seq(C), q \in Seq(space)
  PROVE  Trim(p \o t \o q, space) = Trim(t, space)
  <1> DEFINE a == Len(p)
             b == Len(t)
             c == Len(q)
             all == p \o t \o q
             Kept(s) == {i \in DOMAIN s : s[i] \notin space}
  <1>1. a \in Nat /\ b \in Nat /\ c \in Nat /\ DOMAIN t = 1..b
    OBVIOUS
  <1>2. /\ all \in Seq(C) /\ DOMAIN all = 1..(a + b + c)
        /\ \A i \in 1..a : all[i] = p[i]
        /\ \A i \in 1..b : all[a + i] = t[i]
        /\ \A i \in 1..c : all[a + b + i] = q[i]
    OBVIOUS
  <1>3. (\A i \in 1..a : p[i] \in space) /\ (\A i \in 1..c : q[i] \in space)
    OBVIOUS
  <1>4. Trim(t, space) = IF Kept(t) = {} THEN <<>> ELSE SubSeq(t, Min(Kept(t)), Max(Kept(t)))
    BY Zenon DEF Trim
  <1>5. Trim(all, space) =
           IF Kept(all) = {} THEN <<>> ELSE SubSeq(all, Min(Kept(all)), Max(Kept(all)))
    BY Zenon DEF Trim
  <1> HIDE DEF a, b, c, all
  <1>6. ASSUME NEW i \in Kept(all)
        PROVE  i \in Nat /\ i - a \in Kept(t)
    <2>1. i \in 1..(a + b + c) /\ all[i] \notin space
      BY <1>2
    <2>2. ~(i \in 1..a)
      BY <1>2, <1>3, <2>1
    <2>3. ~(i - (a + b) \in 1..c)
      <3> SUFFICES ASSUME i - (a + b) \in 1..c PROVE FALSE
        OBVIOUS
      <3>1. a + b + (i - (a + b)) = i
        BY <1>1, <2>1
      <3>2. all[i] = q[i - (a + b)]
        BY <1>2, <3>1
      <3> QED
        BY <1>3, <2>1, <3>2
    <2>4. i - a \in 1..b /\ a + (i - a) = i
      BY <1>1, <2>1, <2>2, <2>3
    <2>5. all[i] = t[i - a]
      BY <1>2, <2>4
    <2> QED
      BY <1>1, <2>1, <2>4, <2>5
  <1>7. ASSUME NEW i \in Kept(t)
        PROVE  a + i \in Kept(all) /\ i \in 1..b
    <2>1. i \in 1..b /\ t[i] \notin space /\ a + i \in 1..(a + b + c)
      BY <1>1
    <2> QED
      BY <1>2, <2>1
  <1>8. CASE Kept(t) = {}
    <2> HIDE DEF Kept
    <2>1. Kept(all) = {}
      BY <1>6, <1>8
    <2> QED
      BY <1>4, <1>5, <1>8, <2>1 DEF all
  <1>9. CASE Kept(t) # {}
    <2> HIDE DEF Kept
    <2>1. Kept(t) \subseteq Nat /\ Kept(t) \subseteq 1..b
      BY <1>1, <1>7
    <2>2. PICK x \in Kept(t) : \A y \in Kept(t) : x <= y
      BY <1>9, <2>1, LeastOf
    <2>3. PICK z \in Kept(t) : \A y \in Kept(t) : z >= y
      BY <1>1, <1>9, <2>1, GreatestOf
    <2>4. x \in 1..b /\ z \in 1..b
      BY <2>1
    <2>5. Min(Kept(t)) = x /\ Max(Kept(t)) = z
      BY <2>1, <2>2, <2>3, LeastIsMin, GreatestIsMax
    <2>6. Kept(all) \subseteq Nat /\ a + x \in Kept(all) /\ a + z \in Kept(all)
      BY <1>6, <1>7
    <2>7. \A y \in Kept(all) : a + x <= y /\ a + z >= y
      <3> SUFFICES ASSUME NEW y \in Kept(all) PROVE a + x <= y /\ a + z >= y
        OBVIOUS
      <3>1. y \in Nat /\ y - a \in Kept(t)
        BY <1>6
      <3>2. x <= y - a /\ z >= y - a
        BY <2>2, <2>3, <3>1
      <3> QED
        BY <1>1, <2>4, <3>1, <3>2
    <2>8. Min(Kept(all)) = a + x /\ Max(Kept(all)) = a + z
      BY <2>6, <2>7, LeastIsMin, GreatestIsMax
    <2>9. Trim(t, space) = SubSeq(t, x, z) /\ Trim(all, space) = SubSeq(all, a + x, a + z)
      BY <1>4, <1>5, <1>9, <2>5, <2>6, <2>8
    <2>10. SubSeq(t, x, z) = [i \in 1..((z - x) + 1) |-> t[(x + i) - 1]]
      BY <1>1, <2>4
    <2> DEFINE lo == a + x
               hi == a + z
    <2>11. lo \in Nat /\ hi \in Nat /\ lo >= 1 /\ hi <= a + b + c
           /\ (hi - lo) + 1 = (z - x) + 1
      BY <1>1, <2>4
    <2>12. \A i \in 1..((z - x) + 1) :
              (x + i) - 1 \in 1..b /\ (lo + i) - 1 = a + ((x + i) - 1)
      BY <1>1, <2>4
    <2>13. Trim(all, space) = SubSeq(all, lo, hi)
      BY <2>9
    <2> HIDE DEF lo, hi
    <2>14. SubSeq(all, lo, hi) = [i \in 1..((hi - lo) + 1) |-> all[(lo + i) - 1]]
      BY <1>1, <1>2, <2>11
    <2>15. \A i \in 1..((z - x) + 1) : all[(lo + i) - 1] = t[(x + i) - 1]
      BY <1>2, <2>12
    <2>16. SubSeq(all, lo, hi) = SubSeq(t, x, z)
      BY <2>10, <2>11, <2>14, <2>15
    <2> QED
      BY <2>9, <2>13, <2>16 DEF all
  <1> QED
    BY <1>8, <1>9 DEF all

(* A text that is left alone keeps its own ends.                              *)
LEMMA OwnEnds ==
  ASSUME NEW s \in Seq(Characters), NEW space
  PROVE  IsPrefix(Lead(s, space), s) /\ IsSuffix(Trail(s, space), s)
  <1> DEFINE k == Leading(s, space)
             l == Leading(Reverse(s), space)
             n == Len(s)
             r == Reverse(s)
             lead == Lead(s, space)
             trail == Trail(s, space)
             back == Reverse(trail)
  <1>1. n \in Nat /\ \A i \in 1..n : s[i] \in Characters
    OBVIOUS
  <1>2. r = [i \in 1..n |-> s[(n - i) + 1]]
    BY DEF Reverse
  <1>3. r \in Seq(Characters) /\ Len(r) = n
    BY <1>1, <1>2
  <1>4. k \in Nat /\ k <= n /\ l \in Nat /\ l <= n
    BY <1>3, LeadingIsSpace
  <1>5. lead = SubSeq(s, 1, k)
    BY DEF Lead
  <1>6. trail = SubSeq(s, n - l + 1, n)
    BY DEF Trail
  <1>7. trail \in Seq(Characters)
    BY TrailIsSpace
  <1> HIDE DEF k, l, r, lead, trail
  <1>17. back = [i \in 1..Len(trail) |-> trail[(Len(trail) - i) + 1]]
    BY Zenon DEF Reverse
  <1> HIDE DEF back
  <1>8. lead = [i \in 1..k |-> s[i]] /\ Len(lead) = k
    BY <1>1, <1>4, <1>5
  <1>9. SubSeq(lead, 1, k) = lead
    BY <1>1, <1>4, <1>8
  <1>10. IsPrefix(lead, s)
    BY <1>4, <1>5, <1>8, <1>9 DEF IsPrefix
  <1> HIDE DEF n
  <1>11. trail = [i \in 1..l |-> s[(n - l) + i]] /\ Len(trail) = l
    <2>1. trail = SubSeq(s, (n - l) + 1, n) /\ (n - l) + 1 \in Nat
      BY <1>1, <1>4, <1>6
    <2> QED
      BY <1>1, <1>4, <2>1 DEF n
  <1>12. back = [i \in 1..l |-> trail[(l - i) + 1]]
    BY <1>11, <1>17
  <1>13. \A i \in 1..l : back[i] = r[i] /\ back[i] \in Characters
    <2> SUFFICES ASSUME NEW i \in 1..l PROVE back[i] = r[i] /\ back[i] \in Characters
      OBVIOUS
    <2>1. /\ (l - i) + 1 \in 1..l /\ (n - l) + ((l - i) + 1) = (n - i) + 1
          /\ (n - i) + 1 \in 1..n /\ i \in 1..n
      BY <1>1, <1>4
    <2>2. trail[(l - i) + 1] = s[(n - l) + ((l - i) + 1)]
      BY <1>11, <2>1
    <2>3. back[i] = trail[(l - i) + 1] /\ r[i] = s[(n - i) + 1]
      BY <1>2, <1>12, <2>1
    <2> QED
      BY <1>1, <2>1, <2>2, <2>3
  <1>14. back \in Seq(Characters) /\ Len(back) = l
    <2>1. back \in [1..l -> Characters]
      BY <1>12, <1>13
    <2> QED
      BY <1>4, <2>1
  <1>15. SubSeq(back, 1, l) = SubSeq(r, 1, l)
    <2>1. SubSeq(back, 1, l) = [i \in 1..l |-> back[i]]
      BY <1>4, <1>14
    <2>2. SubSeq(r, 1, l) = [i \in 1..l |-> r[i]]
      BY <1>3, <1>4
    <2> QED
      BY <1>13, <2>1, <2>2
  <1>16. IsSuffix(trail, s)
    BY <1>3, <1>4, <1>14, <1>15 DEF IsSuffix, IsPrefix, r, back
  <1> QED
    BY <1>10, <1>16 DEF lead, trail

(* A rewritten text is the translation with the old ends around it.           *)
LEMMA PreservedText ==
  ASSUME NEW s \in Text, NEW t \in Text
  PROVE  LET new == PreserveWhitespace(s, t)
         IN  /\ TrimSpace(new) = TrimSpace(t)
             /\ IsPrefix(Lead(s, ASCIISpace), new)
             /\ IsSuffix(Trail(s, ASCIISpace), new)
  <1> DEFINE p == Lead(s, ASCIISpace)
             q == Trail(s, ASCIISpace)
             space == ASCIISpace \cup OtherSpace
  <1>1. s \in Seq(Characters) /\ t \in Seq(Characters)
    BY DEF Text, Characters
  <1>2. /\ p \in Seq(Characters) /\ p \in Seq(ASCIISpace)
        /\ q \in Seq(Characters) /\ q \in Seq(ASCIISpace)
    BY <1>1, LeadIsSpace, TrailIsSpace
  <1>3. PreserveWhitespace(s, t) = p \o t \o q
    BY DEF PreserveWhitespace
  <1> HIDE DEF p, q
  <1>4. p \in Seq(space) /\ q \in Seq(space)
    BY <1>2
  <1>5. Trim(p \o t \o q, space) = Trim(t, space)
    BY <1>1, <1>2, <1>4, TrimAround
  <1>6. IsPrefix(p, p \o t \o q) /\ IsSuffix(q, p \o t \o q)
    BY <1>1, <1>2, EndsOfConcat
  <1> QED
    BY <1>3, <1>5, <1>6 DEF TrimSpace, p, q

-----------------------------------------------------------------------------
(* What Apply leaves.                                                         *)

LEMMA AppliedSuffices == HTMLInv => EveryOccurrenceIsReplaced /\ WhitespaceIsKept
  <1> SUFFICES ASSUME HTMLInv, pc = "done" PROVE EveryOccurrenceIsReplaced /\ WhitespaceIsKept
    BY DEF EveryOccurrenceIsReplaced, WhitespaceIsKept
  <1>1. source \in Documents /\ TableType /\ AppliedUpTo(Len(source) + 1)
    BY DEF HTMLInv
  <1>2. \A i \in DOMAIN source : i < Len(source) + 1
    BY <1>1, BeforeTheEnd
  <1>3. \A i \in DOMAIN source : doc[i] = IF HasTranslation(i) THEN Rewritten(i) ELSE source[i]
    BY <1>1, <1>2 DEF AppliedUpTo
  <1>4. \A i \in DOMAIN source : source[i].data \in Text
    BY <1>1, DocumentShape DEF Node
  <1>5. ASSUME NEW i \in DOMAIN source, HasTranslation(i)
        PROVE  /\ table[TextAt(i)] \in Text
               /\ doc[i].data = PreserveWhitespace(source[i].data, table[TextAt(i)])
               /\ [doc[i] EXCEPT !.data = <<>>] = [source[i] EXCEPT !.data = <<>>]
    <2>1. table[TextAt(i)] \in Translations
      BY <1>1, <1>5 DEF HasTranslation, TableType
    <2>2. doc[i] = Rewritten(i)
      BY <1>3, <1>5
    <2>3. /\ Rewritten(i).data = PreserveWhitespace(source[i].data, table[TextAt(i)])
          /\ [Rewritten(i) EXCEPT !.data = <<>>] = [source[i] EXCEPT !.data = <<>>]
      BY <1>1, RewrittenNode
    <2> QED
      BY <2>1, <2>2, <2>3, HTMLAssumption
  <1>6. EveryOccurrenceIsReplaced
    <2> SUFFICES ASSUME NEW i \in DOMAIN source
                 PROVE  IF HasTranslation(i)
                        THEN /\ TrimSpace(doc[i].data) = TrimSpace(table[TextAt(i)])
                             /\ [doc[i] EXCEPT !.data = <<>>] = [source[i] EXCEPT !.data = <<>>]
                        ELSE doc[i] = source[i]
      BY DEF EveryOccurrenceIsReplaced, HasTranslation
    <2>1. CASE HasTranslation(i)
      BY <1>4, <1>5, <2>1, PreservedText
    <2>2. CASE ~HasTranslation(i)
      BY <1>3, <2>2
    <2> QED
      BY <2>1, <2>2
  <1>7. WhitespaceIsKept
    <2> SUFFICES ASSUME NEW i \in Places
                 PROVE  /\ IsPrefix(Lead(source[i].data, ASCIISpace), doc[i].data)
                        /\ IsSuffix(Trail(source[i].data, ASCIISpace), doc[i].data)
      BY DEF WhitespaceIsKept
    <2>1. i \in DOMAIN source
      BY <1>1, PlacesAreReached
    <2>2. CASE HasTranslation(i)
      <3> DEFINE new == PreserveWhitespace(source[i].data, table[TextAt(i)])
      <3>1. /\ source[i].data \in Text
            /\ table[TextAt(i)] \in Text
            /\ doc[i].data = new
        BY <1>4, <1>5, <2>1, <2>2
      <3>2. /\ IsPrefix(Lead(source[i].data, ASCIISpace), new)
            /\ IsSuffix(Trail(source[i].data, ASCIISpace), new)
        BY <3>1, PreservedText
      <3> QED
        BY <3>1, <3>2, Zenon
    <2>3. CASE ~HasTranslation(i)
      <3>1. doc[i] = source[i] /\ source[i].data \in Seq(Characters)
        BY <1>3, <1>4, <2>1, <2>3 DEF Text, Characters
      <3> QED
        BY <3>1, OwnEnds
    <2> QED
      BY <2>2, <2>3
  <1> QED
    BY <1>6, <1>7

(* Whatever the document and the translations, every occurrence of a translated   *)
(* text, and nothing else, is replaced, once, and the white space that Apply        *)
(* preserves (html.go:272) stays at its ends (html.go:130-194).                     *)
THEOREM HTMLApplyCorrect == Spec => [](EveryOccurrenceIsReplaced /\ WhitespaceIsKept)
  BY HTMLInvAlways, AppliedSuffices, PTL

-----------------------------------------------------------------------------
(* The walk visits each enabled comment and literal once, comments first.        *)

\* The places of a kind, and all the places the walk visits.
OfKind(kinds) == {p \in DOMAIN source : source[p].kind \in kinds \cap enabled}
Walked == OfKind(Comments) \cup OfKind(Strings)
WalkOrder == {pair \in Walked \X Walked : Before(pair[1], pair[2])}
Rest == Range(pending)
GoTextAt(p) == TextOf(source[p])

\* What the walk has passed: all of it, once Extract is over.
Passed == IF pc = "extract" THEN Wanted \ Rest ELSE Wanted

FileShape ==
    /\ Len(source) \in Nat
    /\ DOMAIN source = 1..Len(source)
    /\ \A p \in DOMAIN source :
          /\ DOMAIN source[p] = {"kind", "body"}
          /\ source[p].kind \in Comments \cup Strings

PendingInOrder ==
    /\ Rest \subseteq Walked
    /\ Lists(pending, Rest, WalkOrder)
    /\ \A p \in Walked \ Rest, q \in Rest : Before(p, q)

NodesSoFar ==
    /\ nodes \in Seq([text : {GoTextAt(p) : p \in DOMAIN source}, pos : DOMAIN source])
    /\ \A n \in Range(nodes) :
          /\ n.pos \in Passed
          /\ n.text = GoTextAt(n.pos)
          /\ \A q \in Passed : GoTextAt(q) = n.text /\ q # n.pos => Before(n.pos, q)
    /\ \A q \in Passed : \E n \in Range(nodes) : n.text = GoTextAt(q)
    /\ \A i, j \in DOMAIN nodes : i < j => Before(nodes[i].pos, nodes[j].pos)

Respelled(p) ==
    [source[p] EXCEPT !.body = Spelling(source[p].kind, table[GoTextAt(p)])]

FileSoFar ==
    IF pc = "extract" THEN file = source
    ELSE /\ DOMAIN file = DOMAIN source
         /\ \A p \in DOMAIN source :
               file[p] = IF p \in First \ Rest /\ GoTextAt(p) \in DOMAIN table
                         THEN Respelled(p) ELSE source[p]

TableSoFar == pc # "extract" => \A text \in DOMAIN table : table[text] \in Seq(Range(table[text]))

GoInv ==
    /\ pc \in {"extract", "apply", "done"}
    /\ pc = "done" => pending = <<>>
    /\ FileShape
    /\ PendingInOrder
    /\ NodesSoFar
    /\ TableSoFar
    /\ FileSoFar

-----------------------------------------------------------------------------
(* Lists and ranges.                                                          *)

LEMMA RangeOfList ==
  ASSUME NEW S, NEW R, NEW list, Lists(list, S, R)
  PROVE  Range(list) = S
  <1>1. list \in Seq(S) /\ \A x \in S : \E k \in DOMAIN list : list[k] = x
    BY DEF Lists
  <1>2. \A k \in DOMAIN list : list[k] \in S
    BY <1>1
  <1> QED
    BY <1>1, <1>2 DEF Range

LEMMA ListsFewer ==
  ASSUME NEW S, NEW R, NEW Q, NEW list, Lists(list, S, R),
         \A x \in S, y \in S : <<x, y>> \in R => <<x, y>> \in Q
  PROVE  Lists(list, S, Q)
  <1>1. \A k \in DOMAIN list : list[k] \in S
    BY DEF Lists
  <1> QED
    BY <1>1 DEF Lists

LEMMA RangeOfAppend ==
  ASSUME NEW S, NEW s \in Seq(S), NEW x \in S
  PROVE  /\ Append(s, x) \in Seq(S)
         /\ Range(Append(s, x)) = Range(s) \cup {x}
         /\ DOMAIN Append(s, x) = 1..(Len(s) + 1) /\ DOMAIN s = 1..Len(s) /\ Len(s) \in Nat
         /\ \A i \in 1..Len(s) : Append(s, x)[i] = s[i] /\ s[i] \in Range(s)
         /\ Append(s, x)[Len(s) + 1] = x
  <1> DEFINE t == Append(s, x)
             n == Len(s)
  <1>1. n \in Nat /\ DOMAIN s = 1..n /\ t \in Seq(S) /\ Len(t) = n + 1 /\ DOMAIN t = 1..(n + 1)
    OBVIOUS
  <1>2. t[n + 1] = x /\ \A i \in 1..n : t[i] = s[i]
    OBVIOUS
  <1> HIDE DEF t, n
  <1>3. Range(t) = Range(s) \cup {x}
    <2>1. \A i \in 1..(n + 1) : i \in 1..n \/ i = n + 1
      BY <1>1
    <2>2. 1..n \subseteq 1..(n + 1) /\ n + 1 \in 1..(n + 1)
      BY <1>1
    <2> QED
      BY <1>1, <1>2, <2>1, <2>2 DEF Range
  <1>4. \A i \in 1..n : s[i] \in Range(s)
    BY <1>1 DEF Range
  <1> QED
    BY <1>1, <1>2, <1>3, <1>4 DEF t, n

-----------------------------------------------------------------------------
(* The order of the walk.                                                     *)

LEMMA WantedIsWalked ==
  ASSUME FileShape
  PROVE  Wanted \subseteq Walked /\ Walked \subseteq DOMAIN source /\ Walked \subseteq Nat
  BY DEF FileShape, Wanted, Walked, OfKind

LEMMA BeforeIsAnOrder ==
  ASSUME FileShape
  PROVE  /\ Irreflexive(WalkOrder, Walked)
         /\ \A p, q \in Walked : ~(Before(p, q) /\ Before(q, p))
  BY WantedIsWalked DEF Irreflexive, WalkOrder, Before

LEMMA WalkLists ==
  ASSUME FileShape, file = source
  PROVE  Lists(GoWalk, Walked, WalkOrder)
  <1> DEFINE c == OfKind(Comments)
             s == OfKind(Strings)
  <1>1. PlacesOf(Comments) = InOrder(c) /\ PlacesOf(Strings) = InOrder(s)
    BY DEF PlacesOf, OfKind
  <1>2. /\ c \subseteq Nat /\ c \subseteq 1..Len(source)
        /\ s \subseteq Nat /\ s \subseteq 1..Len(source)
    BY DEF FileShape, OfKind
  <1>3. IsFiniteSet(c) /\ IsFiniteSet(s)
    <2>1. IsFiniteSet(1..Len(source))
      BY FS_Interval DEF FileShape
    <2> QED
      BY <1>2, <2>1, FS_Subset
  <1>4. Lists(InOrder(c), c, Less) /\ Lists(InOrder(s), s, Less)
    BY <1>2, <1>3, InOrderLists
  <1>5. c \subseteq Walked /\ s \subseteq Walked /\ Walked = c \cup s
    BY DEF Walked
  <1>6. /\ \A p \in c : source[p].kind \in Comments
        /\ \A p \in s : source[p].kind \notin Comments
    BY DEF OfKind, Comments, Strings
  <1>7. /\ \A p, q \in c : <<p, q>> \in Less => <<p, q>> \in WalkOrder
        /\ \A p, q \in s : <<p, q>> \in Less => <<p, q>> \in WalkOrder
    BY <1>2, <1>5, <1>6 DEF Less, WalkOrder, Before
  <1>8. \A p \in c, q \in s : <<p, q>> \in WalkOrder
    BY <1>5, <1>6 DEF WalkOrder, Before
  <1> HIDE DEF c, s
  <1>9. Lists(InOrder(c), c, WalkOrder) /\ Lists(InOrder(s), s, WalkOrder)
    BY <1>4, <1>7, ListsFewer
  <1>10. Lists(InOrder(c) \o InOrder(s), c \cup s, WalkOrder)
    BY <1>8, <1>9, ConcatLists
  <1> QED
    BY <1>1, <1>5, <1>10 DEF GoWalk

(* A new walk has all places ahead.                                           *)
LEMMA NewWalk ==
  ASSUME FileShape, file = source
  PROVE  Range(GoWalk) = Walked /\ Lists(GoWalk, Walked, WalkOrder)
  BY WalkLists, RangeOfList

(* A step of the walk takes the first of the places left.                     *)
LEMMA NextPlace ==
  ASSUME FileShape, PendingInOrder, pending # <<>>
  PROVE  /\ Head(pending) \in Rest
         /\ Head(pending) \in Walked
         /\ Range(Tail(pending)) = Rest \ {Head(pending)}
         /\ Lists(Tail(pending), Range(Tail(pending)), WalkOrder)
         /\ \A p \in Walked \ Rest : Before(p, Head(pending))
         /\ \A p \in Walked \ Range(Tail(pending)), q \in Range(Tail(pending)) : Before(p, q)
  <1> DEFINE h == Head(pending)
             left == Tail(pending)
  <1>1. Rest \subseteq Walked /\ Lists(pending, Rest, WalkOrder)
    BY DEF PendingInOrder
  <1>2. Irreflexive(WalkOrder, Rest)
    BY <1>1, BeforeIsAnOrder DEF Irreflexive
  <1>3. /\ h \in Rest
        /\ \A x \in Rest \ {h} : <<h, x>> \in WalkOrder
        /\ Lists(left, Rest \ {h}, WalkOrder)
    BY <1>1, <1>2, TailLists
  <1>4. Range(left) = Rest \ {h}
    BY <1>3, RangeOfList
  <1>5. \A x \in Rest \ {h} : Before(h, x)
    BY <1>3 DEF WalkOrder
  <1>6. \A p \in Walked \ Rest, q \in Rest : Before(p, q)
    BY DEF PendingInOrder
  <1> HIDE DEF h, left
  <1>7. \A p \in Walked \ (Rest \ {h}), q \in Rest \ {h} : Before(p, q)
    BY <1>3, <1>5, <1>6
  <1> QED
    BY <1>1, <1>3, <1>4, <1>6, <1>7 DEF h, left

-----------------------------------------------------------------------------
(* The steps.                                                                 *)

LEMMA SameFile ==
  ASSUME UNCHANGED <<source, enabled>>
  PROVE  /\ FileShape' = FileShape
         /\ Walked' = Walked /\ WalkOrder' = WalkOrder
         /\ Wanted' = Wanted /\ First' = First
         /\ \A p, q : Before(p, q)' = Before(p, q)
         /\ \A p : GoTextAt(p)' = GoTextAt(p)
  <1>1. Walked' = Walked
    BY DEF Walked, OfKind
  <1>2. \A p, q : Before(p, q)' = Before(p, q)
    BY DEF Before
  <1>3. Wanted' = Wanted
    BY DEF Wanted
  <1>4. WalkOrder' = WalkOrder
    BY <1>1, <1>2 DEF WalkOrder
  <1>5. First' = First
    BY <1>2, <1>3 DEF First
  <1> QED
    BY <1>1, <1>2, <1>3, <1>4, <1>5 DEF FileShape, GoTextAt

LEMMA GoInitially == GoInit => GoInv
  <1> SUFFICES ASSUME GoInit PROVE GoInv
    OBVIOUS
  <1>1. FileShape
    BY GoAssumption DEF GoInit, FileShape
  <1>2. file = source /\ pc = "extract" /\ pending = GoWalk /\ nodes = <<>>
    BY DEF GoInit
  <1>3. Rest = Walked /\ Lists(pending, Rest, WalkOrder)
    BY <1>1, <1>2, NewWalk DEF Rest
  <1>4. PendingInOrder
    BY <1>3 DEF PendingInOrder
  <1>5. Passed = {}
    BY <1>1, <1>2, <1>3, WantedIsWalked DEF Passed
  <1>6. Range(nodes) = {} /\ DOMAIN nodes = {}
        /\ nodes \in Seq([text : {GoTextAt(p) : p \in DOMAIN source}, pos : DOMAIN source])
    BY <1>2 DEF Range
  <1>7. NodesSoFar
    BY <1>5, <1>6 DEF NodesSoFar
  <1> QED
    BY <1>1, <1>2, <1>4, <1>7 DEF GoInv, FileSoFar, TableSoFar

(* Extract and Apply leave the rest of the walk in order.                     *)
LEMMA WalkOn ==
  ASSUME FileShape, PendingInOrder, pending # <<>>,
         pending' = Tail(pending), UNCHANGED <<source, enabled>>
  PROVE  PendingInOrder' /\ Rest' = Rest \ {Head(pending)}
  <1>1. Rest' = Rest \ {Head(pending)}
    BY NextPlace DEF Rest
  <1>2. /\ Rest' \subseteq Walked'
        /\ Lists(pending', Rest', WalkOrder')
    BY <1>1, NextPlace, SameFile DEF PendingInOrder, Rest
  <1>3. \A p \in Walked' \ Rest', q \in Rest' : Before(p, q)'
    BY NextPlace, SameFile DEF Rest
  <1> QED
    BY <1>1, <1>2, <1>3 DEF PendingInOrder

LEMMA GoExtractStep == GoInv /\ ExtractItem => GoInv'
  <1> SUFFICES ASSUME GoInv, ExtractItem PROVE GoInv'
    OBVIOUS
  <1> DEFINE p == Head(pending)
             new == [text |-> GoTextAt(p), pos |-> p]
             NodeType == [text : {GoTextAt(q) : q \in DOMAIN source}, pos : DOMAIN source]
  <1>1. /\ pc = "extract" /\ pc' = "extract" /\ pending # <<>> /\ pending' = Tail(pending)
        /\ UNCHANGED <<source, enabled>> /\ file' = file /\ file = source
        /\ FileShape /\ PendingInOrder /\ NodesSoFar
    BY DEF GoInv, FileSoFar, ExtractItem
  <1>2. PendingInOrder' /\ Rest' = Rest \ {p}
    BY <1>1, WalkOn
  <1>3. p \in Rest /\ p \in Walked /\ p \in DOMAIN source
        /\ \A q \in Walked \ Rest : Before(q, p)
    BY <1>1, NextPlace, WantedIsWalked
  <1>4. source[p].kind \in enabled
    BY <1>3 DEF Walked, OfKind
  <1>5. nodes' = IF p \in Wanted /\ ~\E n \in Range(nodes) : n.text = GoTextAt(p)
                 THEN Append(nodes, new) ELSE nodes
    BY <1>1, <1>3, <1>4 DEF ExtractItem, SeenBefore, GoTextAt, Wanted
  <1>6. /\ Wanted \subseteq Walked
        /\ Passed = Wanted \ Rest
        /\ Passed' = Wanted \ (Rest \ {p})
    BY <1>1, <1>2, SameFile, WantedIsWalked DEF Passed
  <1>7. /\ nodes \in Seq(NodeType)
        /\ \A n \in Range(nodes) :
              /\ n.pos \in Passed
              /\ n.text = GoTextAt(n.pos)
              /\ \A q \in Passed : GoTextAt(q) = n.text /\ q # n.pos => Before(n.pos, q)
        /\ \A q \in Passed : \E n \in Range(nodes) : n.text = GoTextAt(q)
        /\ \A i, j \in DOMAIN nodes : i < j => Before(nodes[i].pos, nodes[j].pos)
    BY <1>1 DEF NodesSoFar
  <1> HIDE DEF p
  <1>8. SUFFICES
          /\ nodes' \in Seq(NodeType)
          /\ \A n \in Range(nodes') :
                /\ n.pos \in Passed'
                /\ n.text = GoTextAt(n.pos)
                /\ \A q \in Passed' : GoTextAt(q) = n.text /\ q # n.pos => Before(n.pos, q)
          /\ \A q \in Passed' : \E n \in Range(nodes') : n.text = GoTextAt(q)
          /\ \A i, j \in DOMAIN nodes' : i < j => Before(nodes'[i].pos, nodes'[j].pos)
    <2> SUFFICES ASSUME
          /\ nodes' \in Seq(NodeType)
          /\ \A n \in Range(nodes') :
                /\ n.pos \in Passed'
                /\ n.text = GoTextAt(n.pos)
                /\ \A q \in Passed' : GoTextAt(q) = n.text /\ q # n.pos => Before(n.pos, q)
          /\ \A q \in Passed' : \E n \in Range(nodes') : n.text = GoTextAt(q)
          /\ \A i, j \in DOMAIN nodes' : i < j => Before(nodes'[i].pos, nodes'[j].pos)
        PROVE GoInv'
      OBVIOUS
    <2>1. NodesSoFar'
      BY <1>1 DEF NodesSoFar, GoTextAt, Before
    <2>2. FileShape' /\ FileSoFar'
      BY <1>1, SameFile DEF FileSoFar
    <2>3. TableSoFar'
      BY <1>1 DEF TableSoFar
    <2> QED
      BY <1>1, <1>2, <2>1, <2>2, <2>3 DEF GoInv
  <1> HIDE DEF NodeType
  <1>9. CASE p \notin Wanted
    BY <1>5, <1>6, <1>7, <1>9
  <1>10. CASE p \in Wanted /\ \E n \in Range(nodes) : n.text = GoTextAt(p)
    <2>1. nodes' = nodes
      BY <1>5, <1>10
    <2>2. Passed' = Passed \cup {p}
      BY <1>3, <1>6, <1>10
    <2>3. \A n \in Range(nodes) : Before(n.pos, p)
      BY <1>3, <1>6, <1>7
    <2> QED
      BY <1>7, <1>10, <2>1, <2>2, <2>3
  <1>11. CASE p \in Wanted /\ ~\E n \in Range(nodes) : n.text = GoTextAt(p)
    <2>1. nodes' = Append(nodes, new) /\ new \in NodeType /\ new.pos = p /\ new.text = GoTextAt(p)
      BY <1>3, <1>5, <1>11 DEF NodeType
    <2>2. Passed' = Passed \cup {p}
      BY <1>3, <1>6, <1>11
    <2>3. \A n \in Range(nodes) : Before(n.pos, p) /\ n.text # GoTextAt(p)
      BY <1>3, <1>6, <1>7, <1>11
    <2> HIDE DEF new
    <2>4. /\ nodes' \in Seq(NodeType)
          /\ Range(nodes') = Range(nodes) \cup {new}
          /\ DOMAIN nodes' = 1..(Len(nodes) + 1) /\ DOMAIN nodes = 1..Len(nodes)
          /\ Len(nodes) \in Nat
          /\ \A i \in 1..Len(nodes) : nodes'[i] = nodes[i] /\ nodes[i] \in Range(nodes)
          /\ nodes'[Len(nodes) + 1] = new
      BY <1>7, <2>1, RangeOfAppend
    <2>5. \A q \in Passed : GoTextAt(q) # GoTextAt(p)
      BY <1>7, <1>11
    <2>6. \A n \in Range(nodes') :
             /\ n.pos \in Passed'
             /\ n.text = GoTextAt(n.pos)
             /\ \A q \in Passed' : GoTextAt(q) = n.text /\ q # n.pos => Before(n.pos, q)
      BY <1>7, <2>1, <2>2, <2>3, <2>4, <2>5
    <2>7. \A q \in Passed' : \E n \in Range(nodes') : n.text = GoTextAt(q)
      BY <1>7, <2>1, <2>2, <2>4
    <2>8. \A i, j \in DOMAIN nodes' : i < j => Before(nodes'[i].pos, nodes'[j].pos)
      <3> SUFFICES ASSUME NEW i \in DOMAIN nodes', NEW j \in DOMAIN nodes', i < j
                   PROVE  Before(nodes'[i].pos, nodes'[j].pos)
        OBVIOUS
      <3>1. i \in DOMAIN nodes /\ (j \in DOMAIN nodes \/ j = Len(nodes) + 1)
        BY <2>4
      <3> QED
        BY <1>7, <2>1, <2>3, <2>4, <3>1
    <2> QED
      BY <2>4, <2>6, <2>7, <2>8
  <1> QED
    BY <1>9, <1>10, <1>11

(* The nodes are complete when the walk is over: later steps leave them alone.     *)
LEMMA NodesStay ==
  ASSUME NodesSoFar, Passed' = Passed, UNCHANGED <<source, enabled, nodes>>
  PROVE  NodesSoFar'
  BY DEF NodesSoFar, GoTextAt, Before

LEMMA GoTranslateStep == GoInv /\ TranslateTexts => GoInv'
  <1> SUFFICES ASSUME GoInv, TranslateTexts PROVE GoInv'
    OBVIOUS
  <1>1. /\ pc = "extract" /\ pc' = "apply" /\ pending = <<>> /\ pending' = GoWalk
        /\ UNCHANGED <<source, enabled, nodes>> /\ file' = file /\ file = source
        /\ FileShape /\ PendingInOrder /\ NodesSoFar
    BY DEF GoInv, FileSoFar, TranslateTexts
  <1>2. Rest = {} /\ Passed = Wanted
    BY <1>1 DEF Rest, Range, Passed
  <1>3. Rest' = Walked /\ Lists(pending', Walked, WalkOrder)
    BY <1>1, NewWalk DEF Rest
  <1>4. PendingInOrder'
    BY <1>1, <1>3, SameFile DEF PendingInOrder
  <1>5. NodesSoFar'
    BY <1>1, <1>2, NodesStay, SameFile DEF Passed
  <1>6. First' \ Rest' = {}
    BY <1>1, <1>3, SameFile, WantedIsWalked DEF First
  <1>7. FileSoFar' /\ FileShape'
    BY <1>1, <1>6, SameFile DEF FileSoFar
  <1>8. TableSoFar'
    <2>1. PICK texts : table' \in [texts -> Translations]
      BY DEF TranslateTexts
    <2> QED
      BY <2>1, GoAssumption DEF TableSoFar
  <1> QED
    BY <1>1, <1>4, <1>5, <1>7, <1>8 DEF GoInv

(* The nodes stand at the first places, and nowhere else.                     *)
LEMMA NodesAreFirst ==
  ASSUME FileShape, NodesSoFar, Passed = Wanted
  PROVE  /\ {n.pos : n \in Range(nodes)} = First
         /\ \A n \in Range(nodes) : n.text = GoTextAt(n.pos)
  <1>1. /\ \A n \in Range(nodes) :
              /\ n.pos \in Wanted
              /\ n.text = GoTextAt(n.pos)
              /\ \A q \in Wanted : GoTextAt(q) = n.text /\ q # n.pos => Before(n.pos, q)
        /\ \A q \in Wanted : \E n \in Range(nodes) : n.text = GoTextAt(q)
    BY DEF NodesSoFar
  <1>2. First = {p \in Wanted :
                    \A q \in Wanted : GoTextAt(q) = GoTextAt(p) /\ q # p => Before(p, q)}
    BY DEF First, GoTextAt
  <1>3. \A n \in Range(nodes) : n.pos \in First
    BY <1>1, <1>2
  <1>4. ASSUME NEW p \in First PROVE \E n \in Range(nodes) : n.pos = p
    <2>1. /\ p \in Wanted
          /\ \A q \in Wanted : GoTextAt(q) = GoTextAt(p) /\ q # p => Before(p, q)
      BY <1>2, <1>4
    <2>2. PICK n \in Range(nodes) : n.text = GoTextAt(p)
      BY <1>1, <2>1
    <2>3. n.pos # p => Before(n.pos, p) /\ Before(p, n.pos)
      BY <1>1, <2>1, <2>2
    <2> QED
      BY <1>1, <2>1, <2>3, BeforeIsAnOrder, WantedIsWalked
  <1> QED
    BY <1>1, <1>3, <1>4

LEMMA TranslationOfPlace ==
  ASSUME FileShape, NodesSoFar, Passed = Wanted, NEW p \in DOMAIN source
  PROVE  TranslationAt(p) = IF p \in First /\ GoTextAt(p) \in DOMAIN table
                            THEN {table[GoTextAt(p)]} ELSE {}
  <1>1. /\ {n.pos : n \in Range(nodes)} = First
        /\ \A n \in Range(nodes) : n.text = GoTextAt(n.pos)
    BY NodesAreFirst
  <1>2. TranslationAt(p) =
           {table[n.text] : n \in {n \in Range(nodes) : n.pos = p /\ n.text \in DOMAIN table}}
    BY DEF TranslationAt, Range, Range
  <1>3. CASE p \in First /\ GoTextAt(p) \in DOMAIN table
    <2>1. PICK n \in Range(nodes) : n.pos = p
      BY <1>1, <1>3
    <2> QED
      BY <1>1, <1>2, <1>3, <2>1
  <1>4. CASE ~(p \in First /\ GoTextAt(p) \in DOMAIN table)
    BY <1>1, <1>2, <1>4
  <1> QED
    BY <1>3, <1>4

LEMMA GoApplyStep == GoInv /\ ApplyToItem => GoInv'
  <1> SUFFICES ASSUME GoInv, ApplyToItem PROVE GoInv'
    OBVIOUS
  <1> DEFINE p == Head(pending)
  <1>1. /\ pc = "apply" /\ pc' = "apply" /\ pending # <<>> /\ pending' = Tail(pending)
        /\ UNCHANGED <<source, enabled, nodes, table>>
        /\ FileShape /\ PendingInOrder /\ NodesSoFar
    BY DEF GoInv, ApplyToItem
  <1>2. PendingInOrder' /\ Rest' = Rest \ {p}
    BY <1>1, WalkOn
  <1>3. p \in Rest /\ p \in DOMAIN source
    BY <1>1, NextPlace, WantedIsWalked
  <1>4. Passed = Wanted /\ Passed' = Passed
    BY <1>1, SameFile DEF Passed
  <1>5. TranslationAt(p) = IF p \in First /\ GoTextAt(p) \in DOMAIN table
                           THEN {table[GoTextAt(p)]} ELSE {}
    BY <1>1, <1>3, <1>4, TranslationOfPlace
  <1>6. /\ DOMAIN file = DOMAIN source
        /\ \A q \in DOMAIN source :
              file[q] = IF q \in First \ Rest /\ GoTextAt(q) \in DOMAIN table
                        THEN Respelled(q) ELSE source[q]
    BY <1>1 DEF GoInv, FileSoFar
  <1>7. file[p] = source[p]
    BY <1>3, <1>6
  <1>8. \/ TranslationAt(p) = {} /\ file' = file
        \/ \E t \in TranslationAt(p) :
              file' = [file EXCEPT ![p].body = Spelling(file[p].kind, t)]
    BY DEF ApplyToItem
  <1>9. \A q : Respelled(q)' = Respelled(q)
    BY <1>1 DEF Respelled, GoTextAt
  <1> HIDE DEF p
  <1>10. /\ DOMAIN file' = DOMAIN source
         /\ \A q \in DOMAIN source :
               file'[q] = IF q \in First \ (Rest \ {p}) /\ GoTextAt(q) \in DOMAIN table
                          THEN Respelled(q) ELSE source[q]
    <2>1. CASE p \in First /\ GoTextAt(p) \in DOMAIN table
      <3>1. file' = [file EXCEPT ![p].body = Spelling(file[p].kind, table[GoTextAt(p)])]
        BY <1>5, <1>8, <2>1
      <3>2. file' = [file EXCEPT ![p] =
                       [file[p] EXCEPT !.body = Spelling(file[p].kind, table[GoTextAt(p)])]]
        BY <3>1, Zenon
      <3>3. file' = [file EXCEPT ![p] = Respelled(p)]
        BY <1>7, <3>2 DEF Respelled
      <3>4. /\ DOMAIN file' = DOMAIN file
            /\ file'[p] = Respelled(p)
            /\ \A q \in DOMAIN source \ {p} : file'[q] = file[q]
        BY <1>3, <1>6, <3>3
      <3> QED
        BY <1>6, <2>1, <3>4
    <2>2. CASE ~(p \in First /\ GoTextAt(p) \in DOMAIN table)
      BY <1>5, <1>6, <1>8, <2>2
    <2> QED
      BY <2>1, <2>2
  <1>11. FileSoFar' /\ FileShape'
    BY <1>1, <1>2, <1>9, <1>10, SameFile DEF FileSoFar
  <1>12. NodesSoFar'
    BY <1>1, <1>4, NodesStay
  <1>13. TableSoFar'
    BY <1>1 DEF TableSoFar, GoInv
  <1> QED
    BY <1>1, <1>2, <1>11, <1>12, <1>13 DEF GoInv

LEMMA GoOtherSteps == GoInv /\ (AppliedToFile \/ UNCHANGED goVars) => GoInv'
  <1> SUFFICES ASSUME GoInv, AppliedToFile \/ UNCHANGED goVars PROVE GoInv'
    OBVIOUS
  <1>1. /\ UNCHANGED <<source, enabled, file, pending, nodes, table>>
        /\ pc' = pc \/ (pc = "apply" /\ pc' = "done" /\ pending = <<>>)
        /\ pc \in {"extract", "apply", "done"}
        /\ pc = "done" => pending = <<>>
        /\ FileShape /\ PendingInOrder /\ NodesSoFar /\ FileSoFar
    BY DEF GoInv, AppliedToFile, goVars
  <1>2. Rest' = Rest /\ \A q : Respelled(q)' = Respelled(q)
    BY <1>1 DEF Rest, Respelled, GoTextAt
  <1>3. Passed' = Passed
    BY <1>1, <1>2, SameFile DEF Passed
  <1>4. NodesSoFar'
    BY <1>1, <1>3, NodesStay
  <1>5. PendingInOrder' /\ FileShape'
    BY <1>1, <1>2, SameFile DEF PendingInOrder
  <1>6. FileSoFar'
    BY <1>1, <1>2, SameFile DEF FileSoFar
  <1>7. TableSoFar'
    BY <1>1 DEF TableSoFar, GoInv
  <1> QED
    BY <1>1, <1>4, <1>5, <1>6, <1>7 DEF GoInv

LEMMA GoInvAlways == GoSpec => []GoInv
  <1>1. GoInv /\ [GoNext]_goVars => GoInv'
    BY GoExtractStep, GoTranslateStep, GoApplyStep, GoOtherSteps DEF GoNext
  <1>2. GoInit => GoInv
    BY GoInitially
  <1> QED
    BY <1>1, <1>2, PTL DEF GoSpec

-----------------------------------------------------------------------------
(* Concatenation piece by piece.                                              *)

Flattened(f, pieces, n) ==
    f = [i \in 1..n |-> IF i = 1 THEN pieces[i] ELSE f[i - 1] \o pieces[i]]

LEMMA FlattenedExists ==
  ASSUME NEW pieces, NEW n \in Nat \ {0}
  PROVE  \E f : Flattened(f, pieces, n)
  <1> DEFINE Bad == {m \in Nat \ {0} : ~\E f : Flattened(f, pieces, m)}
  <1> SUFFICES Bad = {}
    OBVIOUS
  <1> SUFFICES ASSUME Bad # {} PROVE FALSE
    OBVIOUS
  <1>1. PICK m \in Bad : \A k \in Bad : m <= k
    <2>1. Bad \subseteq Nat
      OBVIOUS
    <2> HIDE DEF Bad
    <2> QED
      BY <2>1, LeastOf
  <1>2. m \in Nat \ {0} /\ ~\E f : Flattened(f, pieces, m)
    OBVIOUS
  <1>3. m # 1
    <2> DEFINE f == [i \in 1..1 |-> pieces[i]]
    <2>1. f = [i \in 1..1 |-> IF i = 1 THEN pieces[i] ELSE f[i - 1] \o pieces[i]]
      OBVIOUS
    <2>2. Flattened(f, pieces, 1)
      BY <2>1 DEF Flattened
    <2> QED
      BY <1>2, <2>2
  <1>4. PICK f : Flattened(f, pieces, m - 1)
    <2>1. m - 1 \in Nat \ {0} /\ ~(m <= m - 1)
      BY <1>2, <1>3
    <2>2. m - 1 \notin Bad
      BY <1>1, <2>1
    <2> QED
      BY <2>1, <2>2
  <1> DEFINE g == [i \in 1..m |-> IF i = m THEN f[m - 1] \o pieces[m] ELSE f[i]]
  <1>5. f = [i \in 1..(m - 1) |-> IF i = 1 THEN pieces[i] ELSE f[i - 1] \o pieces[i]]
    BY <1>4 DEF Flattened
  <1>6. \A i \in 1..m : g[i] = IF i = 1 THEN pieces[i] ELSE g[i - 1] \o pieces[i]
    <2> SUFFICES ASSUME NEW i \in 1..m
                 PROVE  g[i] = IF i = 1 THEN pieces[i] ELSE g[i - 1] \o pieces[i]
      OBVIOUS
    <2>1. CASE i = m
      <3>1. m - 1 \in 1..m /\ m - 1 # m
        BY <1>2, <1>3
      <3>2. g[m - 1] = f[m - 1]
        BY <3>1
      <3> QED
        BY <1>3, <2>1, <3>2
    <2>2. CASE i # m
      <3>1. i \in 1..(m - 1) /\ (i # 1 => i - 1 \in 1..m /\ i - 1 # m)
        BY <1>2, <2>2
      <3>2. g[i] = f[i] /\ (i # 1 => g[i - 1] = f[i - 1])
        BY <2>2, <3>1
      <3> QED
        BY <1>5, <3>1, <3>2
    <2> QED
      BY <2>1, <2>2
  <1>7. g = [i \in 1..m |-> g[i]]
    OBVIOUS
  <1> HIDE DEF g
  <1>8. Flattened(g, pieces, m)
    BY <1>6, <1>7 DEF Flattened
  <1> QED
    BY <1>2, <1>8

LEMMA FlattenSeqIsFlattened ==
  ASSUME NEW pieces, Len(pieces) \in Nat \ {0}
  PROVE  \E f : Flattened(f, pieces, Len(pieces)) /\ FlattenSeq(pieces) = f[Len(pieces)]
  <1> DEFINE n == Len(pieces)
             f == CHOOSE f : f = [i \in 1..n |-> IF i = 1 THEN pieces[i]
                                                 ELSE f[i - 1] \o pieces[i]]
  <1>1. \E g : g = [i \in 1..n |-> IF i = 1 THEN pieces[i] ELSE g[i - 1] \o pieces[i]]
    BY FlattenedExists DEF Flattened
  <1>2. f = [i \in 1..n |-> IF i = 1 THEN pieces[i] ELSE f[i - 1] \o pieces[i]]
    BY <1>1, Zenon
  <1>3. FlattenSeq(pieces) = IF n = 0 THEN pieces ELSE f[n]
    BY Zenon DEF FlattenSeq
  <1> HIDE DEF f
  <1>4. FlattenSeq(pieces) = f[n]
    BY <1>3
  <1> QED
    BY <1>2, <1>4 DEF Flattened

(* Concatenating one more piece appends it; the result is a sequence.         *)
LEMMA FlattenAppend ==
  ASSUME NEW C, NEW pieces \in Seq(Seq(C)), NEW piece \in Seq(C)
  PROVE  /\ FlattenSeq(pieces) \in Seq(C)
         /\ FlattenSeq(Append(pieces, piece)) = FlattenSeq(pieces) \o piece
  <1> DEFINE n == Len(pieces)
             more == Append(pieces, piece)
  <1>1. /\ n \in Nat /\ Len(more) = n + 1 /\ more[n + 1] = piece
        /\ \A i \in 1..n : more[i] = pieces[i] /\ pieces[i] \in Seq(C)
    OBVIOUS
  <1> HIDE DEF more
  <1>2. PICK g : Flattened(g, more, n + 1) /\ FlattenSeq(more) = g[n + 1]
    BY <1>1, FlattenSeqIsFlattened
  <1>3. \A i \in 1..(n + 1) : g[i] = IF i = 1 THEN more[i] ELSE g[i - 1] \o more[i]
    BY <1>2 DEF Flattened
  <1>4. CASE n = 0
    <2>1. pieces = <<>>
      BY <1>4
    <2>2. FlattenSeq(pieces) = <<>>
      BY <2>1 DEF FlattenSeq
    <2>3. g[1] = piece /\ n + 1 = 1
      BY <1>1, <1>3, <1>4
    <2> QED
      BY <1>2, <2>2, <2>3 DEF more
  <1>5. CASE n # 0
    <2>1. PICK f : Flattened(f, pieces, n) /\ FlattenSeq(pieces) = f[n]
      BY <1>1, <1>5, FlattenSeqIsFlattened
    <2>2. \A i \in 1..n : f[i] = IF i = 1 THEN pieces[i] ELSE f[i - 1] \o pieces[i]
      BY <2>1 DEF Flattened
    <2> DEFINE Bad == {i \in 1..n : ~(f[i] = g[i] /\ f[i] \in Seq(C))}
    <2>3. Bad = {}
      <3> SUFFICES ASSUME Bad # {} PROVE FALSE
        OBVIOUS
      <3>1. Bad \subseteq Nat
        BY <1>1
      <3>2. PICK i \in Bad : \A k \in Bad : i <= k
        <4> HIDE DEF Bad
        <4> QED
          BY <3>1, LeastOf
      <3>3. i \in 1..n /\ i \in 1..(n + 1) /\ ~(f[i] = g[i] /\ f[i] \in Seq(C))
        BY <1>1
      <3>4. CASE i = 1
        BY <1>1, <1>3, <2>2, <3>3, <3>4
      <3>5. CASE i # 1
        <4>1. i - 1 \in 1..n /\ ~(i <= i - 1)
          BY <1>1, <3>3, <3>5
        <4>2. i - 1 \notin Bad
          BY <3>2, <4>1
        <4>3. f[i - 1] = g[i - 1] /\ f[i - 1] \in Seq(C)
          BY <4>1, <4>2
        <4>4. f[i] = f[i - 1] \o pieces[i] /\ g[i] = g[i - 1] \o more[i]
          BY <1>3, <2>2, <3>3, <3>5
        <4>5. pieces[i] = more[i] /\ pieces[i] \in Seq(C)
          BY <1>1, <3>3
        <4>6. f[i - 1] \o pieces[i] \in Seq(C)
          BY <4>3, <4>5
        <4>7. f[i] = g[i] /\ f[i] \in Seq(C)
          BY <4>3, <4>4, <4>5, <4>6
        <4> QED
          BY <3>3, <4>7
      <3> QED
        BY <3>4, <3>5
    <2>4. n \in 1..n /\ n + 1 \in 1..(n + 1) /\ n + 1 # 1 /\ (n + 1) - 1 = n
      BY <1>1, <1>5
    <2>5. f[n] = g[n] /\ f[n] \in Seq(C)
      BY <2>3, <2>4
    <2>6. g[n + 1] = g[n] \o piece
      BY <1>1, <1>3, <2>4
    <2> QED
      BY <1>2, <2>1, <2>5, <2>6 DEF more
  <1> QED
    BY <1>4, <1>5

-----------------------------------------------------------------------------
(* Replacing a character.                                                     *)

LEMMA SubstituteAppend ==
  ASSUME NEW C, NEW s \in Seq(C), NEW c \in C, NEW old, NEW new \in Seq(C)
  PROVE  /\ Substitute(s, old, new) \in Seq(C)
         /\ c = old => Substitute(Append(s, c), old, new) = Substitute(s, old, new) \o new
         /\ c # old => Substitute(Append(s, c), old, new) = Append(Substitute(s, old, new), c)
  <1> DEFINE Piece(x) == IF x = old THEN new ELSE <<x>>
             n == Len(s)
             pieces == [i \in 1..n |-> Piece(s[i])]
             more == [i \in 1..(n + 1) |-> Piece(Append(s, c)[i])]
  <1>1. /\ n \in Nat /\ DOMAIN s = 1..n /\ \A i \in 1..n : s[i] \in C
        /\ DOMAIN Append(s, c) = 1..(n + 1)
        /\ Append(s, c)[n + 1] = c /\ \A i \in 1..n : Append(s, c)[i] = s[i]
    OBVIOUS
  <1>2. \A x \in C : Piece(x) \in Seq(C)
    OBVIOUS
  <1>3. Substitute(s, old, new) = FlattenSeq(pieces)
    <2>1. Substitute(s, old, new) = FlattenSeq(pieces)
      BY <1>1, Zenon DEF Substitute
    <2> QED
      BY <2>1, Zenon
  <1>4. Substitute(Append(s, c), old, new) = FlattenSeq(more)
    <2>1. Substitute(Append(s, c), old, new) = FlattenSeq(more)
      BY <1>1, Zenon DEF Substitute
    <2> QED
      BY <2>1, Zenon
  <1> HIDE DEF Piece
  <1>5. pieces \in [1..n -> Seq(C)]
    BY <1>1, <1>2
  <1>6. pieces \in Seq(Seq(C)) /\ Len(pieces) = n /\ \A i \in 1..n : pieces[i] = Piece(s[i])
    BY <1>1, <1>5
  <1>7. more = Append(pieces, Piece(c))
    <2>1. Append(pieces, Piece(c)) =
             [i \in 1..(n + 1) |-> IF i = n + 1 THEN Piece(c) ELSE pieces[i]]
      BY <1>1, <1>2, <1>6
    <2>2. \A i \in 1..(n + 1) : i # n + 1 => i \in 1..n
      BY <1>1
    <2> QED
      BY <1>1, <1>6, <2>1, <2>2
  <1> HIDE DEF pieces, more
  <1>8. /\ FlattenSeq(pieces) \in Seq(C)
        /\ FlattenSeq(more) = FlattenSeq(pieces) \o Piece(c)
    BY <1>2, <1>6, <1>7, FlattenAppend
  <1>9. Substitute(Append(s, c), old, new) = Substitute(s, old, new) \o Piece(c)
    BY <1>3, <1>4, <1>8
  <1>10. c = old => Piece(c) = new
    BY DEF Piece
  <1>11. c # old => Piece(c) = <<c>>
    BY DEF Piece
  <1>12. \A x \in Seq(C) : x \o <<c>> = Append(x, c)
    OBVIOUS
  <1> QED
    BY <1>3, <1>8, <1>9, <1>10, <1>11, <1>12

LEMMA SubstituteEmpty == \A old, new : Substitute(<<>>, old, new) = <<>>
  <1> TAKE old, new
  <1>1. [i \in DOMAIN <<>> |-> IF <<>>[i] = old THEN new ELSE <<<<>>[i]>>] = <<>>
    OBVIOUS
  <1>2. FlattenSeq(<<>>) = <<>>
    BY DEF FlattenSeq
  <1> QED
    BY <1>1, <1>2 DEF Substitute

\* What escapeString makes of one character: the mark after the backslash, or the character.
Special == {"bs", "quote", "nl", "tab", "cr"}
MarkOf(c) == CASE c = "nl" -> "n" [] c = "tab" -> "t" [] c = "cr" -> "r" [] OTHER -> c
Escaped(c) == IF c \in Special THEN <<"bs", MarkOf(c)>> ELSE <<c>>

\* A set of characters with those that are escaped and what stands for them.
HasMarks(C) == Special \cup {"n", "t", "r"} \subseteq C

Two(d, e) == <<d, e>>

(* A character that is not replaced is appended, and one that is becomes two.        *)
LEMMA SubstituteOther ==
  ASSUME NEW C, NEW s \in Seq(C), NEW c \in C, NEW old \in C, NEW d \in C, NEW e \in C, c # old
  PROVE  Substitute(Append(s, c), old, Two(d, e)) = Append(Substitute(s, old, Two(d, e)), c)
  <1>1. Two(d, e) \in Seq(C)
    BY DEF Two
  <1> QED
    BY <1>1, SubstituteAppend

LEMMA SubstituteType ==
  ASSUME NEW C, NEW s \in Seq(C), NEW old \in C, NEW d \in C, NEW e \in C
  PROVE  Substitute(s, old, Two(d, e)) \in Seq(C)
  <1>1. Two(d, e) \in Seq(C)
    BY DEF Two
  <1> QED
    BY <1>1, SubstituteAppend

\* One pass of escapeString, which puts a backslash and a mark for one character.
Pass(C, old, mark) == [x \in Seq(C) |-> Substitute(x, old, Two("bs", mark))]

Passes(C, P, old, mark) ==
    \A x \in Seq(C) :
        /\ P[x] \in Seq(C)
        /\ P[Append(x, old)] = Append(Append(P[x], "bs"), mark)
        /\ \A c \in C : c # old => P[Append(x, c)] = Append(P[x], c)

LEMMA PassPasses ==
  ASSUME NEW C, NEW old \in C, NEW mark \in C, "bs" \in C
  PROVE  Passes(C, Pass(C, old, mark), old, mark)
  <1> DEFINE P == Pass(C, old, mark)
  <1> SUFFICES ASSUME NEW x \in Seq(C)
               PROVE  /\ P[x] \in Seq(C)
                      /\ P[Append(x, old)] = Append(Append(P[x], "bs"), mark)
                      /\ \A c \in C : c # old => P[Append(x, c)] = Append(P[x], c)
    BY DEF Passes
  <1>1. \A y \in Seq(C) : P[y] = Substitute(y, old, Two("bs", mark))
    BY DEF Pass
  <1>2. Two("bs", mark) \in Seq(C) /\ \A y \in Seq(C) : y \o Two("bs", mark) = Append(Append(y, "bs"), mark)
    BY DEF Two
  <1>3. \A c \in C : Append(x, c) \in Seq(C)
    OBVIOUS
  <1>7. Substitute(Append(x, old), old, Two("bs", mark)) = Substitute(x, old, Two("bs", mark)) \o Two("bs", mark)
    BY <1>2, SubstituteAppend
  <1> HIDE DEF P
  <1>4. P[x] \in Seq(C)
    BY <1>1, SubstituteType
  <1>5. P[Append(x, old)] = P[x] \o Two("bs", mark)
    BY <1>1, <1>3, <1>7
  <1>6. ASSUME NEW c \in C, c # old PROVE P[Append(x, c)] = Append(P[x], c)
    <2>1. Substitute(Append(x, c), old, Two("bs", mark)) = Append(Substitute(x, old, Two("bs", mark)), c)
      BY <1>6, SubstituteOther
    <2> QED
      BY <1>1, <1>3, <2>1
  <1> QED
    BY <1>2, <1>4, <1>5, <1>6

\* A pass leaves what it does not escape, one character at a time.
Leaves(C, P, old) ==
    /\ \A x \in Seq(C), c \in C : c # old => P[Append(x, c)] = Append(P[x], c)
    /\ \A x \in Seq(C), c, d \in C :
           c # old /\ d # old => P[Append(Append(x, c), d)] = Append(Append(P[x], c), d)

LEMMA PassLeaves ==
  ASSUME NEW C, NEW P, NEW old, NEW mark, Passes(C, P, old, mark)
  PROVE  Leaves(C, P, old)
  <1>1. ASSUME NEW x \in Seq(C), NEW c \in C, c # old PROVE P[Append(x, c)] = Append(P[x], c)
    BY <1>1 DEF Passes
  <1>2. ASSUME NEW x \in Seq(C), NEW c \in C, NEW d \in C, c # old, d # old
        PROVE  P[Append(Append(x, c), d)] = Append(Append(P[x], c), d)
    <2>1. Append(x, c) \in Seq(C)
      OBVIOUS
    <2>2. P[Append(x, c)] = Append(P[x], c) /\ P[Append(Append(x, c), d)] = Append(P[Append(x, c)], d)
      BY <1>1, <1>2, <2>1
    <2> QED
      BY <2>2
  <1> QED
    BY <1>1, <1>2 DEF Leaves

(* escapeString goes over the text five times and escapes each character once.     *)
LEMMA EscapeAppend ==
  ASSUME NEW C, HasMarks(C), NEW s \in Seq(C), NEW c \in C
  PROVE  /\ EscapeString(s) \in Seq(C)
         /\ EscapeString(Append(s, c)) = EscapeString(s) \o Escaped(c)
  <1> DEFINE B == Pass(C, "bs", "bs")
             Q == Pass(C, "quote", "quote")
             N == Pass(C, "nl", "n")
             T == Pass(C, "tab", "t")
             R == Pass(C, "cr", "r")
  <1>1. /\ "bs" \in C /\ "quote" \in C /\ "nl" \in C /\ "n" \in C
        /\ "tab" \in C /\ "t" \in C /\ "cr" \in C /\ "r" \in C
    BY DEF HasMarks, Special
  <1>2. /\ Passes(C, B, "bs", "bs") /\ Passes(C, Q, "quote", "quote")
        /\ Passes(C, N, "nl", "n") /\ Passes(C, T, "tab", "t") /\ Passes(C, R, "cr", "r")
    BY <1>1, PassPasses
  <1>3. ASSUME NEW x \in Seq(C)
        PROVE  /\ B[x] = Substitute(x, "bs", <<"bs", "bs">>)
               /\ Q[x] = Substitute(x, "quote", <<"bs", "quote">>)
               /\ N[x] = Substitute(x, "nl", <<"bs", "n">>)
               /\ T[x] = Substitute(x, "tab", <<"bs", "t">>)
               /\ R[x] = Substitute(x, "cr", <<"bs", "r">>)
    BY Zenon DEF Pass, Two
  <1> HIDE DEF B, Q, N, T, R
  <1>4. ASSUME NEW x \in Seq(C)
        PROVE  B[x] \in Seq(C) /\ Q[x] \in Seq(C) /\ N[x] \in Seq(C) /\ T[x] \in Seq(C) /\ R[x] \in Seq(C)
    BY <1>2 DEF Passes
  <1>5. ASSUME NEW x \in Seq(C) PROVE EscapeString(x) = R[T[N[Q[B[x]]]]]
    <2>1. B[x] \in Seq(C) /\ Q[B[x]] \in Seq(C) /\ N[Q[B[x]]] \in Seq(C) /\ T[N[Q[B[x]]]] \in Seq(C)
      BY <1>4
    <2>2. Q[B[x]] = Substitute(Substitute(x, "bs", <<"bs", "bs">>), "quote", <<"bs", "quote">>)
      BY <1>3, <2>1
    <2>3. R[T[N[Q[B[x]]]]] = EscapeControls(Q[B[x]])
      BY <1>3, <2>1, Zenon DEF EscapeControls
    <2> QED
      BY <2>2, <2>3, Zenon DEF EscapeString
  <1>6. ASSUME NEW x \in Seq(C), NEW d \in C, NEW e \in C
        PROVE  /\ x \o <<d>> = Append(x, d) /\ x \o <<d, e>> = Append(Append(x, d), e)
               /\ Append(x, d) \in Seq(C)
    OBVIOUS
  <1>7. /\ Leaves(C, B, "bs") /\ Leaves(C, Q, "quote") /\ Leaves(C, N, "nl")
         /\ Leaves(C, T, "tab") /\ Leaves(C, R, "cr")
    BY <1>2, PassLeaves
  <1> DEFINE b == B[s]
             q == Q[b]
             n == N[q]
             t == T[n]
             r == R[t]
  <1>8. /\ b \in Seq(C) /\ q \in Seq(C) /\ n \in Seq(C) /\ t \in Seq(C) /\ r \in Seq(C)
        /\ Append(s, c) \in Seq(C)
    BY <1>4, <1>6
  <1>9. EscapeString(s) = r /\ EscapeString(Append(s, c)) = R[T[N[Q[B[Append(s, c)]]]]]
    BY <1>5, <1>8
  <1>10. /\ B[Append(s, "bs")] = Append(Append(b, "bs"), "bs")
         /\ \A d \in C : d # "bs" => B[Append(s, d)] = Append(b, d)
         /\ \A d, f \in C : d # "bs" /\ f # "bs" => B[Append(Append(s, d), f)] = Append(Append(b, d), f)
    <2>1. B[Append(s, "bs")] = Append(Append(b, "bs"), "bs")
      BY <1>2, <1>8 DEF Passes
    <2> QED
      BY <1>8, <1>7, <2>1 DEF Leaves
  <1>11. /\ Q[Append(b, "quote")] = Append(Append(q, "bs"), "quote")
         /\ \A d \in C : d # "quote" => Q[Append(b, d)] = Append(q, d)
         /\ \A d, f \in C : d # "quote" /\ f # "quote" => Q[Append(Append(b, d), f)] = Append(Append(q, d), f)
    <2>1. Q[Append(b, "quote")] = Append(Append(q, "bs"), "quote")
      BY <1>2, <1>8 DEF Passes
    <2> QED
      BY <1>8, <1>7, <2>1 DEF Leaves
  <1>12. /\ N[Append(q, "nl")] = Append(Append(n, "bs"), "n")
         /\ \A d \in C : d # "nl" => N[Append(q, d)] = Append(n, d)
         /\ \A d, f \in C : d # "nl" /\ f # "nl" => N[Append(Append(q, d), f)] = Append(Append(n, d), f)
    <2>1. N[Append(q, "nl")] = Append(Append(n, "bs"), "n")
      BY <1>2, <1>8 DEF Passes
    <2> QED
      BY <1>8, <1>7, <2>1 DEF Leaves
  <1>13. /\ T[Append(n, "tab")] = Append(Append(t, "bs"), "t")
         /\ \A d \in C : d # "tab" => T[Append(n, d)] = Append(t, d)
         /\ \A d, f \in C : d # "tab" /\ f # "tab" => T[Append(Append(n, d), f)] = Append(Append(t, d), f)
    <2>1. T[Append(n, "tab")] = Append(Append(t, "bs"), "t")
      BY <1>2, <1>8 DEF Passes
    <2> QED
      BY <1>8, <1>7, <2>1 DEF Leaves
  <1>14. /\ R[Append(t, "cr")] = Append(Append(r, "bs"), "r")
         /\ \A d \in C : d # "cr" => R[Append(t, d)] = Append(r, d)
         /\ \A d, f \in C : d # "cr" /\ f # "cr" => R[Append(Append(t, d), f)] = Append(Append(r, d), f)
    <2>1. R[Append(t, "cr")] = Append(Append(r, "bs"), "r")
      BY <1>2, <1>8 DEF Passes
    <2> QED
      BY <1>8, <1>7, <2>1 DEF Leaves
  <1>15. r \in Seq(C)
    BY <1>8
  <1> HIDE DEF b, q, n, t, r
  <1>16. CASE c = "bs"
    <2>1. B[Append(s, c)] = Append(Append(b, "bs"), "bs")
      BY <1>1, <1>10, <1>16
    <2>2. Q[Append(Append(b, "bs"), "bs")] = Append(Append(q, "bs"), "bs")
      BY <1>1, <1>11
    <2>3. N[Append(Append(q, "bs"), "bs")] = Append(Append(n, "bs"), "bs")
      BY <1>1, <1>12
    <2>4. T[Append(Append(n, "bs"), "bs")] = Append(Append(t, "bs"), "bs")
      BY <1>1, <1>13
    <2>5. R[Append(Append(t, "bs"), "bs")] = Append(Append(r, "bs"), "bs")
      BY <1>1, <1>14
    <2>6. Escaped(c) = <<"bs", "bs">>
      BY <1>16 DEF Escaped, Special, MarkOf
    <2>7. r \o <<"bs", "bs">> = Append(Append(r, "bs"), "bs")
      BY <1>1, <1>6, <1>15
    <2> QED
      BY <1>9, <1>15, <2>1, <2>2, <2>3, <2>4, <2>5, <2>6, <2>7
  <1>17. CASE c = "quote"
    <2>1. B[Append(s, c)] = Append(b, c)
      BY <1>1, <1>10, <1>17
    <2>2. Q[Append(b, c)] = Append(Append(q, "bs"), "quote")
      BY <1>1, <1>11, <1>17
    <2>3. N[Append(Append(q, "bs"), "quote")] = Append(Append(n, "bs"), "quote")
      BY <1>1, <1>12
    <2>4. T[Append(Append(n, "bs"), "quote")] = Append(Append(t, "bs"), "quote")
      BY <1>1, <1>13
    <2>5. R[Append(Append(t, "bs"), "quote")] = Append(Append(r, "bs"), "quote")
      BY <1>1, <1>14
    <2>6. Escaped(c) = <<"bs", "quote">>
      BY <1>17 DEF Escaped, Special, MarkOf
    <2>7. r \o <<"bs", "quote">> = Append(Append(r, "bs"), "quote")
      BY <1>1, <1>6, <1>15
    <2> QED
      BY <1>9, <1>15, <2>1, <2>2, <2>3, <2>4, <2>5, <2>6, <2>7
  <1>18. CASE c = "nl"
    <2>1. B[Append(s, c)] = Append(b, c)
      BY <1>1, <1>10, <1>18
    <2>2. Q[Append(b, c)] = Append(q, c)
      BY <1>1, <1>11, <1>18
    <2>3. N[Append(q, c)] = Append(Append(n, "bs"), "n")
      BY <1>1, <1>12, <1>18
    <2>4. T[Append(Append(n, "bs"), "n")] = Append(Append(t, "bs"), "n")
      BY <1>1, <1>13
    <2>5. R[Append(Append(t, "bs"), "n")] = Append(Append(r, "bs"), "n")
      BY <1>1, <1>14
    <2>6. Escaped(c) = <<"bs", "n">>
      BY <1>18 DEF Escaped, Special, MarkOf
    <2>7. r \o <<"bs", "n">> = Append(Append(r, "bs"), "n")
      BY <1>1, <1>6, <1>15
    <2> QED
      BY <1>9, <1>15, <2>1, <2>2, <2>3, <2>4, <2>5, <2>6, <2>7
  <1>19. CASE c = "tab"
    <2>1. B[Append(s, c)] = Append(b, c)
      BY <1>1, <1>10, <1>19
    <2>2. Q[Append(b, c)] = Append(q, c)
      BY <1>1, <1>11, <1>19
    <2>3. N[Append(q, c)] = Append(n, c)
      BY <1>1, <1>12, <1>19
    <2>4. T[Append(n, c)] = Append(Append(t, "bs"), "t")
      BY <1>1, <1>13, <1>19
    <2>5. R[Append(Append(t, "bs"), "t")] = Append(Append(r, "bs"), "t")
      BY <1>1, <1>14
    <2>6. Escaped(c) = <<"bs", "t">>
      BY <1>19 DEF Escaped, Special, MarkOf
    <2>7. r \o <<"bs", "t">> = Append(Append(r, "bs"), "t")
      BY <1>1, <1>6, <1>15
    <2> QED
      BY <1>9, <1>15, <2>1, <2>2, <2>3, <2>4, <2>5, <2>6, <2>7
  <1>20. CASE c = "cr"
    <2>1. B[Append(s, c)] = Append(b, c)
      BY <1>1, <1>10, <1>20
    <2>2. Q[Append(b, c)] = Append(q, c)
      BY <1>1, <1>11, <1>20
    <2>3. N[Append(q, c)] = Append(n, c)
      BY <1>1, <1>12, <1>20
    <2>4. T[Append(n, c)] = Append(t, c)
      BY <1>1, <1>13, <1>20
    <2>5. R[Append(t, c)] = Append(Append(r, "bs"), "r")
      BY <1>1, <1>14, <1>20
    <2>6. Escaped(c) = <<"bs", "r">>
      BY <1>20 DEF Escaped, Special, MarkOf
    <2>7. r \o <<"bs", "r">> = Append(Append(r, "bs"), "r")
      BY <1>1, <1>6, <1>15
    <2> QED
      BY <1>9, <1>15, <2>1, <2>2, <2>3, <2>4, <2>5, <2>6, <2>7
  <1>21. CASE c \notin Special
    <2>0. c # "bs" /\ c # "quote" /\ c # "nl" /\ c # "tab" /\ c # "cr"
      BY <1>21 DEF Special
    <2>1. B[Append(s, c)] = Append(b, c)
      BY <1>1, <1>10, <2>0
    <2>2. Q[Append(b, c)] = Append(q, c)
      BY <1>1, <1>11, <2>0
    <2>3. N[Append(q, c)] = Append(n, c)
      BY <1>1, <1>12, <2>0
    <2>4. T[Append(n, c)] = Append(t, c)
      BY <1>1, <1>13, <2>0
    <2>5. R[Append(t, c)] = Append(r, c)
      BY <1>1, <1>14, <2>0
    <2>6. Escaped(c) = <<c>>
      BY <1>21 DEF Escaped
    <2>7. r \o <<c>> = Append(r, c)
      BY <1>6, <1>15
    <2> QED
      BY <1>9, <1>15, <2>1, <2>2, <2>3, <2>4, <2>5, <2>6, <2>7
  <1> QED
    BY <1>16, <1>17, <1>18, <1>19, <1>20, <1>21 DEF Special

LEMMA EscapeEmpty == EscapeString(<<>>) = <<>>
  BY SubstituteEmpty DEF EscapeString, EscapeControls

-----------------------------------------------------------------------------
(* Induction up to a number, over a set.                                      *)

LEMMA UpTo ==
  ASSUME NEW n \in Nat, NEW S, 0 \in S, \A k \in 0..n : k \in S /\ k # n => k + 1 \in S
  PROVE  \A k \in 0..n : k \in S
  <1> DEFINE Bad == {k \in 0..n : k \notin S}
  <1> SUFFICES ASSUME Bad # {} PROVE FALSE
    OBVIOUS
  <1>1. PICK k \in Bad : \A l \in Bad : k <= l
    <2>1. Bad \subseteq Nat
      OBVIOUS
    <2> HIDE DEF Bad
    <2> QED
      BY <2>1, LeastOf
  <1>2. k \in 0..n /\ k \notin S /\ k # 0
    OBVIOUS
  <1>3. k - 1 \in 0..n /\ k - 1 # n /\ ~(k <= k - 1) /\ (k - 1) + 1 = k
    BY <1>2
  <1>4. k - 1 \in S
    BY <1>1, <1>3
  <1> QED
    BY <1>2, <1>3, <1>4

(* What Go reads from a place on, given what it reads from the later ones.         *)
ReadFrom(item, R, i) ==
    IF i > Len(item.body) \/ item.body[i] = Ends(item.kind) THEN <<>>
    ELSE IF item.kind # "quoted"
         THEN (IF item.body[i] = "cr" THEN <<>> ELSE <<item.body[i]>>) \o R[i + 1]
         ELSE IF item.body[i] = "bs" THEN <<Unescaped(item.body[i + 1])>> \o R[i + 2]
         ELSE <<item.body[i]>> \o R[i + 1]

Reading(R, item) == R = [i \in 1..Len(item.body) + 2 |-> ReadFrom(item, R, i)]

LEMMA ReadingExists ==
  ASSUME NEW item, Len(item.body) \in Nat
  PROVE  \E R : Reading(R, item)
  <1> DEFINE n == Len(item.body)
             m == n + 2
             Tails == {d \in 0..(m - 1) :
                         \E R : R = [i \in (m - d)..m |-> ReadFrom(item, R, i)]}
  <1>1. n \in Nat /\ m \in Nat /\ m - 1 \in Nat
    OBVIOUS
  <1> HIDE DEF m
  <1>2. 0 \in Tails
    <2> DEFINE R == [i \in m..m |-> <<>>]
    <2>1. ReadFrom(item, R, m) = <<>>
      BY DEF m, ReadFrom
    <2>2. \A i \in m..m : i = m
      BY <1>1
    <2>3. R = [i \in m..m |-> ReadFrom(item, R, i)]
      BY <2>1, <2>2
    <2> HIDE DEF R
    <2> QED
      BY <1>1, <2>3
  <1>3. ASSUME NEW d \in 0..(m - 1), d \in Tails, d # m - 1 PROVE d + 1 \in Tails
    <2> DEFINE k == m - (d + 1)
    <2>1. PICK R : R = [i \in (m - d)..m |-> ReadFrom(item, R, i)]
      BY <1>3
    <2>2. /\ k \in 1..m /\ k # m /\ d + 1 \in 0..(m - 1) /\ k \in k..m
          /\ \A i \in k..m : i # k => i \in (m - d)..m /\ i # k
      BY <1>1, <1>3
    <2> HIDE DEF k
    <2> DEFINE new == ReadFrom(item, R, k)
               Q == [i \in k..m |-> IF i = k THEN new ELSE R[i]]
    <2>3. ASSUME NEW i \in k..m PROVE ReadFrom(item, Q, i) = ReadFrom(item, R, i)
      <3>1. CASE i > n
        BY <3>1 DEF ReadFrom
      <3>2. CASE i <= n
        <4>1. i + 1 \in k..m /\ i + 2 \in k..m /\ i + 1 # k /\ i + 2 # k
          BY <1>1, <2>2, <3>2 DEF m
        <4>2. Q[i + 1] = R[i + 1] /\ Q[i + 2] = R[i + 2]
          BY <4>1
        <4> HIDE DEF Q
        <4> QED
          BY <4>2 DEF ReadFrom
      <3>3. i \in Nat
        BY <1>1, <2>2
      <3> QED
        BY <1>1, <3>1, <3>2, <3>3
    <2>4. ASSUME NEW i \in k..m PROVE Q[i] = ReadFrom(item, Q, i)
      <3>1. CASE i = k
        BY <2>3, <3>1
      <3>2. CASE i # k
        <4>1. i \in (m - d)..m
          BY <2>2, <3>2
        <4>2. R[i] = ReadFrom(item, R, i)
          BY <2>1, <4>1
        <4> QED
          BY <2>3, <3>2, <4>2
      <3> QED
        BY <3>1, <3>2
    <2>5. Q = [i \in k..m |-> Q[i]]
      OBVIOUS
    <2> HIDE DEF Q
    <2>6. Q = [i \in k..m |-> ReadFrom(item, Q, i)]
      BY <2>4, <2>5
    <2> QED
      BY <2>2, <2>6 DEF k
  <1>4. m - 1 \in Tails
    <2> HIDE DEF Tails
    <2>1. \A d \in 0..(m - 1) : d \in Tails /\ d # m - 1 => d + 1 \in Tails
      BY <1>3
    <2>2. \A d \in 0..(m - 1) : d \in Tails
      BY <1>1, <1>2, <2>1, UpTo
    <2> QED
      BY <1>1, <2>2
  <1>5. PICK R : R = [i \in (m - (m - 1))..m |-> ReadFrom(item, R, i)]
    BY <1>4
  <1>6. m - (m - 1) = 1
    BY <1>1
  <1> QED
    BY <1>5, <1>6 DEF Reading, m

LEMMA ReadsIsReading ==
  ASSUME NEW item, Len(item.body) \in Nat
  PROVE  \E R : /\ Reading(R, item)
                /\ Reads(item) =
                      IF item.kind \in Comments THEN Trim(R[1], Blank) ELSE R[1]
  <1> DEFINE F == CHOOSE R : R = [i \in 1..Len(item.body) + 2 |->
                 IF i > Len(item.body) \/ item.body[i] = Ends(item.kind) THEN <<>>
                 ELSE IF item.kind # "quoted"
                      THEN (IF item.body[i] = "cr" THEN <<>> ELSE <<item.body[i]>>) \o R[i + 1]
                      ELSE IF item.body[i] = "bs" THEN <<Unescaped(item.body[i + 1])>> \o R[i + 2]
                      ELSE <<item.body[i]>> \o R[i + 1]]
  <1>1. \E R : R = [i \in 1..Len(item.body) + 2 |->
                 IF i > Len(item.body) \/ item.body[i] = Ends(item.kind) THEN <<>>
                 ELSE IF item.kind # "quoted"
                      THEN (IF item.body[i] = "cr" THEN <<>> ELSE <<item.body[i]>>) \o R[i + 1]
                      ELSE IF item.body[i] = "bs" THEN <<Unescaped(item.body[i + 1])>> \o R[i + 2]
                      ELSE <<item.body[i]>> \o R[i + 1]]
    BY ReadingExists, Zenon DEF Reading, ReadFrom
  <1>2. F = [i \in 1..Len(item.body) + 2 |->
                 IF i > Len(item.body) \/ item.body[i] = Ends(item.kind) THEN <<>>
                 ELSE IF item.kind # "quoted"
                      THEN (IF item.body[i] = "cr" THEN <<>> ELSE <<item.body[i]>>) \o F[i + 1]
                      ELSE IF item.body[i] = "bs" THEN <<Unescaped(item.body[i + 1])>> \o F[i + 2]
                      ELSE <<item.body[i]>> \o F[i + 1]]
    BY <1>1, Zenon
  <1>3. Reads(item) = IF item.kind \in Comments THEN Trim(F[1], Blank) ELSE F[1]
    BY Zenon DEF Reads
  <1> HIDE DEF F
  <1>4. Reading(F, item)
    BY <1>2, Zenon DEF Reading, ReadFrom
  <1> QED
    BY <1>3, <1>4

(* Text without escapes, its ending mark and carriage returns is read as it stands.  *)
LEMMA ReadsPlain ==
  ASSUME NEW C, NEW item, item.body \in Seq(C), item.kind # "quoted",
         Ends(item.kind) \notin Range(item.body), "cr" \notin Range(item.body),
         NEW R, Reading(R, item)
  PROVE  R[1] = item.body
  <1> DEFINE s == item.body
             n == Len(s)
             Read == {d \in 0..n : R[(n + 1) - d] = SubSeq(s, (n + 1) - d, n)}
  <1>1. n \in Nat /\ DOMAIN s = 1..n /\ \A i \in 1..n : s[i] \in C /\ s[i] # Ends(item.kind) /\ s[i] # "cr"
    BY DEF Range
  <1>2. \A i \in 1..(n + 2) : R[i] = ReadFrom(item, R, i)
    BY DEF Reading
  <1> HIDE DEF n
  <1>3. 0 \in Read
    <2>1. R[n + 1] = <<>>
      <3>1. n + 1 \in 1..(n + 2) /\ n + 1 > n
        BY <1>1
      <3>2. R[n + 1] = ReadFrom(item, R, n + 1)
        BY <1>2, <3>1
      <3> QED
        BY <3>1, <3>2 DEF ReadFrom, n
    <2>2. SubSeq(s, n + 1, n) = <<>>
      BY <1>1
    <2>3. (n + 1) - 0 = n + 1 /\ 0 \in 0..n
      BY <1>1
    <2> QED
      BY <2>1, <2>2, <2>3
  <1>4. ASSUME NEW d \in 0..n, d \in Read, d # n PROVE d + 1 \in Read
    <2> DEFINE i == n - d
    <2>1. /\ i \in 1..n /\ i \in 1..(n + 2) /\ (n + 1) - d = i + 1 /\ (n + 1) - (d + 1) = i
          /\ d + 1 \in 0..n /\ ~(i > n) /\ i \in Nat
      BY <1>1, <1>4
    <2>2. R[i + 1] = SubSeq(s, i + 1, n)
      BY <1>4, <2>1
    <2> HIDE DEF i
    <2>3. R[i] = <<s[i]>> \o R[i + 1]
      <3>1. R[i] = ReadFrom(item, R, i)
        BY <1>2, <2>1
      <3> QED
        BY <1>1, <2>1, <3>1 DEF ReadFrom, n
    <2>4. <<s[i]>> \o SubSeq(s, i + 1, n) = SubSeq(s, i, n)
      BY <1>1, <2>1 DEF n
    <2> QED
      BY <2>1, <2>2, <2>3, <2>4
  <1>5. n \in Read
    <2> HIDE DEF Read
    <2>1. \A d \in 0..n : d \in Read /\ d # n => d + 1 \in Read
      BY <1>4
    <2>2. \A d \in 0..n : d \in Read
      BY <1>1, <1>3, <2>1, UpTo
    <2> QED
      BY <1>1, <2>2
  <1>6. (n + 1) - n = 1
    BY <1>1
  <1>7. R[1] = SubSeq(s, 1, n)
    BY <1>5, <1>6
  <1>8. SubSeq(s, 1, n) = s
    BY <1>1 DEF n
  <1> QED
    BY <1>7, <1>8

(* How far the escaped text goes that stands for the first characters.         *)
EscapedUpTo(t, j) == EscapeString(SubSeq(t, 1, j))

LEMMA EscapedOneMore ==
  ASSUME NEW C, HasMarks(C), NEW t \in Seq(C),
         NEW j \in 0..Len(t)
  PROVE  /\ EscapedUpTo(t, j) \in Seq(C)
         /\ j # Len(t) => EscapedUpTo(t, j + 1) = EscapedUpTo(t, j) \o Escaped(t[j + 1])
  <1>1. SubSeq(t, 1, j) \in Seq(C)
    OBVIOUS
  <1>2. EscapedUpTo(t, j) \in Seq(C)
    BY <1>1, EscapeAppend DEF EscapedUpTo, HasMarks, Special
  <1>3. ASSUME j # Len(t)
        PROVE  EscapedUpTo(t, j + 1) = EscapedUpTo(t, j) \o Escaped(t[j + 1])
    <2>1. t[j + 1] \in C
      BY <1>3
    <2>2. SubSeq(t, 1, j + 1) = Append(SubSeq(t, 1, j), t[j + 1])
      BY <1>3
    <2> QED
      BY <1>1, <2>1, <2>2, EscapeAppend DEF EscapedUpTo
  <1> QED
    BY <1>2, <1>3

LEMMA EscapedType ==
  ASSUME NEW C, HasMarks(C), NEW c \in C
  PROVE  Escaped(c) \in Seq(C)
  BY DEF Escaped, MarkOf, HasMarks, Special

(* The escaped text starts with what stands for its first characters.          *)
LEMMA EscapedStays ==
  ASSUME NEW C, HasMarks(C), NEW t \in Seq(C),
         NEW j \in 0..Len(t)
  PROVE  /\ Len(EscapedUpTo(t, j)) \in Nat
         /\ Len(EscapedUpTo(t, j)) <= Len(EscapeString(t))
         /\ \A i \in 1..Len(EscapedUpTo(t, j)) : EscapeString(t)[i] = EscapedUpTo(t, j)[i]
  <1> DEFINE n == Len(t)
             e == EscapedUpTo(t, j)
             Kept == {d \in 0..(n - j) :
                        /\ Len(e) <= Len(EscapedUpTo(t, j + d))
                        /\ \A i \in 1..Len(e) : EscapedUpTo(t, j + d)[i] = e[i]}
  <1>1. n \in Nat /\ j \in 0..n /\ n - j \in Nat /\ j \in Nat
    OBVIOUS
  <1>2. e \in Seq(C) /\ Len(e) \in Nat
    BY EscapedOneMore
  <1> HIDE DEF n, e
  <1>3. 0 \in Kept
    <2>1. j + 0 = j /\ 0 \in 0..(n - j)
      BY <1>1
    <2> QED
      BY <1>2, <2>1 DEF e
  <1>4. ASSUME NEW d \in 0..(n - j), d \in Kept, d # n - j PROVE d + 1 \in Kept
    <2> DEFINE m == j + d
               old == EscapedUpTo(t, m)
               new == EscapedUpTo(t, m + 1)
               piece == Escaped(t[m + 1])
    <2>1. m \in 0..n /\ m # n /\ j + (d + 1) = m + 1 /\ m + 1 \in 1..n /\ d + 1 \in 0..(n - j)
      BY <1>1, <1>4
    <2>2. t[m + 1] \in C
      BY <2>1 DEF n
    <2>3. old \in Seq(C) /\ new = old \o piece
      BY <2>1, EscapedOneMore DEF n
    <2>4. piece \in Seq(C)
      BY <2>2, EscapedType
    <2>5. Len(e) <= Len(old) /\ \A i \in 1..Len(e) : old[i] = e[i]
      BY <1>4
    <2> HIDE DEF m, old, new, piece
    <2>6. Len(old) <= Len(new) /\ \A i \in 1..Len(old) : new[i] = old[i]
      BY <2>3, <2>4
    <2>7. Len(e) <= Len(new) /\ \A i \in 1..Len(e) : new[i] = e[i]
      <3>1. Len(old) \in Nat /\ Len(new) \in Nat
        BY <2>3, <2>4
      <3>2. \A i \in 1..Len(e) : i \in 1..Len(old)
        BY <1>2, <2>5, <3>1
      <3>3. Len(e) <= Len(new)
        BY <1>2, <2>5, <2>6, <3>1
      <3> QED
        BY <2>5, <2>6, <3>2, <3>3
    <2> QED
      BY <2>1, <2>7 DEF new
  <1>5. n - j \in Kept
    <2> HIDE DEF Kept
    <2>1. \A d \in 0..(n - j) : d \in Kept /\ d # n - j => d + 1 \in Kept
      BY <1>4
    <2>2. \A d \in 0..(n - j) : d \in Kept
      BY <1>1, <1>3, <2>1, UpTo
    <2> QED
      BY <1>1, <2>2
  <1>6. j + (n - j) = n
    BY <1>1
  <1>7. EscapedUpTo(t, n) = EscapeString(t)
    <2>1. SubSeq(t, 1, n) = t
      BY DEF n
    <2> QED
      BY <2>1 DEF EscapedUpTo
  <1>8. /\ Len(e) <= Len(EscapedUpTo(t, n))
        /\ \A i \in 1..Len(e) : EscapedUpTo(t, n)[i] = e[i]
    BY <1>5, <1>6
  <1> QED
    BY <1>2, <1>7, <1>8 DEF e

(* Go reads an escaped text as the text.                                       *)
LEMMA ReadsEscaped ==
  ASSUME NEW C, HasMarks(C), NEW t \in Seq(C),
         NEW item, item.kind = "quoted", item.body = EscapeString(t),
         NEW R, Reading(R, item)
  PROVE  R[1] = t
  <1> DEFINE n == Len(t)
             s == EscapeString(t)
             m == Len(s)
             At(j) == Len(EscapedUpTo(t, j)) + 1
             Read == {d \in 0..n : R[At(n - d)] = SubSeq(t, (n - d) + 1, n)}
  <1>12. ASSUME NEW i \in 1..n
         PROVE  <<t[i]>> \o SubSeq(t, i + 1, n) = SubSeq(t, i, n)
    OBVIOUS
  <1>1. n \in Nat /\ m \in Nat /\ s \in Seq(C) /\ DOMAIN t = 1..n
    BY EscapeAppend DEF HasMarks, Special
  <1>2. \A i \in 1..(m + 2) : R[i] = ReadFrom(item, R, i)
    BY DEF Reading
  <1>3. Ends(item.kind) = "quote"
    BY DEF Ends
  <1>4. ASSUME NEW i \in 1..m
        PROVE  R[i] = IF s[i] = "quote" THEN <<>>
                      ELSE IF s[i] = "bs"
                           THEN <<Unescaped(s[i + 1])>> \o R[i + 2]
                           ELSE <<s[i]>> \o R[i + 1]
    <2>1. i \in 1..(m + 2) /\ ~(i > m)
      BY <1>1
    <2>2. R[i] = ReadFrom(item, R, i)
      BY <1>2, <2>1
    <2> QED
      BY <1>3, <2>1, <2>2, Zenon DEF ReadFrom
  <1>5. EscapedUpTo(t, n) = s
    <2>1. SubSeq(t, 1, n) = t
      OBVIOUS
    <2> QED
      BY <2>1 DEF EscapedUpTo
  <1>6. 0 \in Read
    <2>1. n - 0 = n /\ 0 \in 0..n /\ At(n) = m + 1
      BY <1>1, <1>5
    <2>2. R[m + 1] = <<>>
      <3>1. m + 1 \in 1..(m + 2) /\ m + 1 > m
        BY <1>1
      <3>2. R[m + 1] = ReadFrom(item, R, m + 1)
        BY <1>2, <3>1
      <3> QED
        BY <3>1, <3>2 DEF ReadFrom
    <2>3. SubSeq(t, n + 1, n) = <<>>
      BY <1>1
    <2> QED
      BY <2>1, <2>2, <2>3
  <1> HIDE DEF n, s, m
  <1>7. ASSUME NEW d \in 0..n, d \in Read, d # n PROVE d + 1 \in Read
    <2> DEFINE j == n - (d + 1)
               c == t[j + 1]
               piece == Escaped(c)
               e == EscapedUpTo(t, j)
               a == Len(e)
    <2>1. j \in 0..n /\ j # n /\ n - d = j + 1 /\ j + 1 \in 0..n /\ j + 1 \in 1..n /\ d + 1 \in 0..n
      BY <1>1, <1>7
    <2>2. R[At(j + 1)] = SubSeq(t, (j + 1) + 1, n)
      BY <1>7, <2>1
    <2>3. c \in C
      BY <1>1, <2>1
    <2>4. piece \in Seq(C)
      BY <2>3, EscapedType
    <2>5. e \in Seq(C) /\ a \in Nat /\ EscapedUpTo(t, j + 1) = e \o piece
      <3>1. j \in 0..Len(t) /\ j # Len(t)
        BY <2>1 DEF n
      <3>2. e \in Seq(C)
        BY <3>1, EscapedOneMore
      <3>3. EscapedUpTo(t, j + 1) = e \o piece
        BY <3>1, EscapedOneMore
      <3> QED
        BY <3>2, <3>3
    <2>6. /\ Len(e \o piece) <= m
          /\ \A i \in 1..Len(e \o piece) : s[i] = (e \o piece)[i]
      <3>1. j + 1 \in 0..Len(t)
        BY <2>1 DEF n
      <3> QED
        BY <2>5, <3>1, EscapedStays DEF s, m
    <2>7. At(j) = a + 1 /\ At(j + 1) = Len(e \o piece) + 1
      BY <2>5
    <2> HIDE DEF At, e, a, j
    <2>8. Len(e \o piece) = a + Len(piece) /\ Len(piece) \in Nat
          /\ \A k \in 1..Len(piece) : (e \o piece)[a + k] = piece[k]
      BY <2>4, <2>5 DEF a
    <2>9. /\ a + Len(piece) <= m
          /\ \A k \in 1..Len(piece) : s[a + k] = piece[k]
      <3>1. ASSUME NEW k \in 1..Len(piece) PROVE a + k \in 1..(a + Len(piece))
        BY <2>5, <2>8
      <3> QED
        BY <2>6, <2>8, <3>1
    <2>10. R[a + 1] = <<c>> \o SubSeq(t, (j + 1) + 1, n)
      <3>1. CASE c \in Special
        <4> DEFINE x == MarkOf(c)
        <4>1. piece = <<"bs", x>> /\ Len(piece) = 2
          BY <3>1 DEF Escaped
        <4>2. s[a + 1] = "bs" /\ s[a + 2] = x /\ a + 2 <= m
          BY <2>9, <4>1
        <4>3. a + 1 \in 1..m /\ (a + 1) + 1 = a + 2 /\ (a + 1) + 2 = (a + 2) + 1
          BY <1>1, <2>5, <4>2
        <4>4. R[a + 1] = <<Unescaped(x)>> \o R[(a + 2) + 1]
          BY <1>4, <4>2, <4>3
        <4>5. Unescaped(x) = c
          BY <3>1 DEF Unescaped, MarkOf, Special
        <4>6. At(j + 1) = (a + 2) + 1
          BY <2>7, <2>8, <4>1
        <4> QED
          BY <2>2, <4>4, <4>5, <4>6
      <3>2. CASE c \notin Special
        <4>1. piece = <<c>> /\ Len(piece) = 1
          BY <3>2 DEF Escaped
        <4>2. s[a + 1] = c /\ a + 1 <= m
          BY <2>9, <4>1
        <4>3. a + 1 \in 1..m
          BY <1>1, <2>5, <4>2
        <4>4. R[a + 1] = <<c>> \o R[(a + 1) + 1]
          BY <1>4, <3>2, <4>2, <4>3 DEF Special
        <4>5. At(j + 1) = (a + 1) + 1
          BY <2>7, <2>8, <4>1
        <4> QED
          BY <2>2, <4>4, <4>5
      <3> QED
        BY <3>1, <3>2
    <2>11. <<c>> \o SubSeq(t, (j + 1) + 1, n) = SubSeq(t, j + 1, n)
      BY <1>12, <2>1
    <2>12. R[At(j)] = SubSeq(t, j + 1, n)
      BY <2>7, <2>10, <2>11
    <2> QED
      BY <2>1, <2>12 DEF j
  <1>8. n \in Read
    <2> HIDE DEF Read
    <2>1. \A d \in 0..n : d \in Read /\ d # n => d + 1 \in Read
      BY <1>7
    <2>2. \A d \in 0..n : d \in Read
      BY <1>1, <1>6, <2>1, UpTo
    <2> QED
      BY <1>1, <2>2
  <1>9. n - n = 0 /\ At(0) = 1
    <2>1. SubSeq(t, 1, 0) = <<>>
      OBVIOUS
    <2>2. EscapedUpTo(t, 0) = <<>>
      BY <2>1, EscapeEmpty DEF EscapedUpTo
    <2> QED
      BY <1>1, <2>2
  <1>10. R[1] = SubSeq(t, 1, n)
    <2>1. R[At(n - n)] = SubSeq(t, (n - n) + 1, n)
      BY <1>8
    <2> HIDE DEF At
    <2> QED
      BY <1>9, <2>1
  <1>11. SubSeq(t, 1, n) = t
    BY DEF n
  <1> QED
    BY <1>10, <1>11

-----------------------------------------------------------------------------
(* What Apply leaves.                                                         *)

LEMMA SeqOfMore ==
  ASSUME NEW S, NEW T, S \subseteq T, NEW s \in Seq(S)
  PROVE  s \in Seq(T)
  OBVIOUS

LEMMA OneIsSeq ==
  ASSUME NEW S, NEW x \in S, NEW w, w = <<x>>
  PROVE  w \in Seq(S)
  OBVIOUS

LEMMA SpaceAround ==
  ASSUME NEW C, NEW t \in Seq(C), NEW x \in C, NEW w, w = <<x>>
  PROVE  /\ Range(w \o t) = {x} \cup Range(t)
         /\ Range(w \o t \o w) = {x} \cup Range(t)
  <1> DEFINE n == Len(t)
             a == w \o t
             b == w \o t \o w
  <1>1. n \in Nat /\ DOMAIN t = 1..n /\ \A i \in 1..n : t[i] \in C
    OBVIOUS
  <1>2. w \in Seq(C) /\ Len(w) = 1 /\ w[1] = x
    OBVIOUS
  <1>3. DOMAIN a = 1..(n + 1) /\ a \in Seq(C) /\ Len(a) = n + 1
    BY <1>2
  <1>4. a[1] = x /\ \A i \in 1..n : a[i + 1] = t[i]
    BY <1>2
  <1>5. DOMAIN b = 1..(n + 2) /\ b[n + 2] = x /\ \A i \in 1..(n + 1) : b[i] = a[i]
    BY <1>1, <1>2, <1>3
  <1> HIDE DEF n, a, b
  <1>6. /\ \A i \in 1..(n + 2) : i \in 1..(n + 1) \/ i = n + 2
        /\ \A i \in 1..(n + 1) : i = 1 \/ (i - 1 \in 1..n /\ (i - 1) + 1 = i)
        /\ \A i \in 1..(n + 1) : i \in 1..(n + 2)
        /\ \A i \in 1..n : i + 1 \in 1..(n + 1)
        /\ 1 \in 1..(n + 1) /\ n + 2 \in 1..(n + 2)
    BY <1>1
  <1>7. Range(a) = {x} \cup Range(t)
    <2>1. ASSUME NEW i \in 1..(n + 1) PROVE a[i] \in {x} \cup Range(t)
      <3>1. CASE i = 1
        BY <1>4, <3>1
      <3>2. CASE i - 1 \in 1..n /\ (i - 1) + 1 = i
        <4>1. a[i] = t[i - 1]
          BY <1>4, <3>2
        <4> QED
          BY <1>1, <3>2, <4>1 DEF Range
      <3> QED
        BY <1>6, <3>1, <3>2
    <2>2. \A i \in 1..n : t[i] \in Range(a)
      BY <1>3, <1>4, <1>6 DEF Range
    <2>3. x \in Range(a)
      BY <1>3, <1>4, <1>6 DEF Range
    <2>4. Range(a) \subseteq {x} \cup Range(t)
      BY <1>3, <2>1 DEF Range
    <2>5. Range(t) \subseteq Range(a)
      BY <1>1, <2>2 DEF Range
    <2> QED
      BY <2>3, <2>4, <2>5
  <1>8. Range(b) = Range(a) \cup {x}
    <2>1. \A i \in 1..(n + 2) : b[i] = x \/ \E k \in 1..(n + 1) : b[i] = a[k]
      BY <1>5, <1>6
    <2>2. \A i \in 1..(n + 1) : a[i] \in Range(b)
      BY <1>5, <1>6 DEF Range
    <2>3. x \in Range(b)
      BY <1>5, <1>6 DEF Range
    <2>4. Range(b) \subseteq Range(a) \cup {x}
      BY <1>3, <1>5, <2>1 DEF Range
    <2>5. Range(a) \subseteq Range(b)
      BY <1>3, <2>2 DEF Range
    <2> QED
      BY <2>3, <2>4, <2>5
  <1> QED
    BY <1>7, <1>8 DEF a, b

(* Go reads what Apply spells as the translation.                             *)
LEMMA ReadsSpelling ==
  ASSUME NEW t, t \in Seq(Range(t)), NEW item, item.kind \in Comments \cup Strings,
         item.body = Spelling(item.kind, t),
         item.kind = "quoted" \/ {Ends(item.kind), "cr"} \cap Range(t) = {}
  PROVE  Reads(item) = IF item.kind \in Comments THEN Trim(t, Blank) ELSE t
  <1> DEFINE C == Range(t) \cup Special \cup {"n", "t", "r", " "}
             space == Blank
             w == <<" ">>
             none == <<>>
  <1>1. HasMarks(C) /\ " " \in C /\ Range(t) \subseteq C
    BY DEF HasMarks
  <1> HIDE DEF C, space
  <1>2. t \in Seq(C)
    BY <1>1, SeqOfMore
  <1>13. " " \in space
    BY DEF space, Blank
  <1>3. w \in Seq(C) /\ w \in Seq(space)
    <2> HIDE DEF w
    <2>1. w = <<" ">>
      BY DEF w
    <2> QED
      BY <1>1, <1>2, <1>13, <2>1, OneIsSeq
  <1>14. none \in Seq(C) /\ none \in Seq(space)
    OBVIOUS
  <1>9. /\ Range(w \o t) = {" "} \cup Range(t)
        /\ Range(w \o t \o w) = {" "} \cup Range(t)
    <2> HIDE DEF w
    <2>1. w = <<" ">>
      BY DEF w
    <2> QED
      BY <1>1, <1>2, <2>1, SpaceAround, Zenon
  <1> HIDE DEF w
  <1>15. w \o t \o none = w \o t
    BY <1>2, <1>3
  <1> HIDE DEF none
  <1>10. /\ Trim(w \o t, space) = Trim(t, space)
         /\ Trim(w \o t \o w, space) = Trim(t, space)
    <2>1. Trim(w \o t \o none, space) = Trim(t, space)
      BY <1>2, <1>3, <1>14, TrimAround
    <2>2. Trim(w \o t \o w, space) = Trim(t, space)
      BY <1>2, <1>3, TrimAround
    <2> QED
      BY <1>15, <2>1, <2>2
  <1> USE DEF w
  <1>11. item.kind = "line" => item.body = w \o t
    BY DEF Spelling
  <1>12. item.kind = "block" => item.body = w \o t \o w
    BY DEF Spelling
  <1> HIDE DEF w
  <1>4. ASSUME item.body \in Seq(C), item.kind # "quoted",
               Ends(item.kind) \notin Range(item.body), "cr" \notin Range(item.body)
        PROVE  Reads(item) =
                  IF item.kind \in Comments THEN Trim(item.body, space) ELSE item.body
    <2>1. Len(item.body) \in Nat
      BY <1>4
    <2>2. PICK R : /\ Reading(R, item)
                   /\ Reads(item) =
                         IF item.kind \in Comments THEN Trim(R[1], space) ELSE R[1]
      BY <2>1, ReadsIsReading DEF space
    <2>3. R[1] = item.body
      BY <1>4, <2>2, ReadsPlain
    <2> QED
      BY <2>2, <2>3
  <1>5. CASE item.kind = "quoted"
    <2>1. item.body = EscapeString(t)
      BY <1>5 DEF Spelling
    <2>2. Len(item.body) \in Nat
      <3>1. EscapeString(t) \in Seq(C)
        BY <1>1, <1>2, EscapeAppend
      <3> QED
        BY <2>1, <3>1
    <2>3. PICK R : /\ Reading(R, item)
                   /\ Reads(item) =
                         IF item.kind \in Comments THEN Trim(R[1], space) ELSE R[1]
      BY <2>2, ReadsIsReading DEF space
    <2>4. R[1] = t
      BY <1>1, <1>2, <1>5, <2>1, <2>3, ReadsEscaped
    <2> QED
      BY <1>5, <2>3, <2>4 DEF Comments
  <1>6. CASE item.kind = "raw"
    <2>1. item.body = t
      BY <1>6 DEF Spelling
    <2> QED
      BY <1>2, <1>4, <1>6, <2>1 DEF Comments
  <1>7. CASE item.kind = "line"
    <2> DEFINE s == w \o t
    <2>1. item.body = s
      BY <1>7, <1>11
    <2>2. Ends(item.kind) = "nl"
      BY <1>7 DEF Ends
    <2>3. s \in Seq(C) /\ "nl" \notin Range(s) /\ "cr" \notin Range(s)
      <3>1. "nl" \notin Range(t) /\ "cr" \notin Range(t)
        BY <1>7, <2>2
      <3>2. Range(s) = {" "} \cup Range(t)
        BY <1>9
      <3>3. s \in Seq(C)
        BY <1>2, <1>3
      <3> HIDE DEF s
      <3> QED
        BY <3>1, <3>2, <3>3
    <2>5. Trim(s, space) = Trim(t, space)
      BY <1>10
    <2> HIDE DEF s
    <2> QED
      BY <1>4, <1>7, <2>1, <2>2, <2>3, <2>5 DEF Comments, space
  <1>8. CASE item.kind = "block"
    <2> DEFINE s == w \o t \o w
    <2>1. item.body = s
      BY <1>8, <1>12
    <2>2. Ends(item.kind) = "end"
      BY <1>8 DEF Ends
    <2>3. s \in Seq(C) /\ "end" \notin Range(s) /\ "cr" \notin Range(s)
      <3>1. "end" \notin Range(t) /\ "cr" \notin Range(t)
        BY <1>8, <2>2
      <3>2. Range(s) = {" "} \cup Range(t)
        BY <1>9
      <3>3. s \in Seq(C)
        BY <1>2, <1>3
      <3> HIDE DEF s
      <3> QED
        BY <3>1, <3>2, <3>3
    <2>4. Trim(s, space) = Trim(t, space)
      BY <1>10
    <2> HIDE DEF s
    <2> QED
      BY <1>4, <1>8, <2>1, <2>2, <2>3, <2>4 DEF Comments, space
  <1> QED
    BY <1>5, <1>6, <1>7, <1>8 DEF Comments, Strings

LEMMA GoInvSuffices == GoInv => NodesAreFirstPlaces /\ FirstPlacesAreReplaced
  <1> SUFFICES ASSUME GoInv PROVE NodesAreFirstPlaces /\ FirstPlacesAreReplaced
    OBVIOUS
  <1>1. ASSUME pc # "extract"
        PROVE  /\ {n.pos : n \in Range(nodes)} = First
               /\ \A n \in Range(nodes) : n.text = GoTextAt(n.pos)
               /\ \A i, j \in DOMAIN nodes : i < j => Before(nodes[i].pos, nodes[j].pos)
    BY <1>1, NodesAreFirst DEF GoInv, NodesSoFar, Passed
  <1>2. NodesAreFirstPlaces
    BY <1>1 DEF NodesAreFirstPlaces, GoTextAt
  <1>3. ASSUME pc = "done", NEW p \in DOMAIN file
        PROVE  IF p \in First /\ TextOf(source[p]) \in DOMAIN table
               THEN LET t == table[TextOf(source[p])]
                    IN  file[p].kind = "quoted" \/ {Ends(file[p].kind), "cr"} \cap Range(t) = {} =>
                           Reads(file[p]) =
                              IF file[p].kind \in Comments THEN Trim(t, Blank) ELSE t
               ELSE file[p] = source[p]
    <2>1. Rest = {}
      BY <1>3 DEF GoInv, Rest, Range
    <2>2. p \in DOMAIN source
          /\ file[p] = IF p \in First /\ GoTextAt(p) \in DOMAIN table
                       THEN Respelled(p) ELSE source[p]
      BY <1>3, <2>1 DEF GoInv, FileSoFar
    <2>3. CASE p \in First /\ GoTextAt(p) \in DOMAIN table
      <3> DEFINE t == table[GoTextAt(p)]
                 item == Respelled(p)
      <3>1. t \in Seq(Range(t))
        BY <1>3, <2>3 DEF GoInv, TableSoFar
      <3>2. /\ item.kind = source[p].kind /\ item.kind \in Comments \cup Strings
            /\ item.body = Spelling(source[p].kind, t)
        BY <2>2 DEF Respelled, GoInv, FileShape
      <3>3. file[p] = item
        BY <2>2, <2>3
      <3> HIDE DEF t, item
      <3>4. item.kind = "quoted" \/ {Ends(item.kind), "cr"} \cap Range(t) = {} =>
               Reads(item) = IF item.kind \in Comments THEN Trim(t, Blank) ELSE t
        BY <3>1, <3>2, ReadsSpelling
      <3> QED
        BY <2>3, <3>3, <3>4 DEF t, GoTextAt
    <2>4. CASE ~(p \in First /\ GoTextAt(p) \in DOMAIN table)
      BY <2>2, <2>4 DEF GoTextAt
    <2> QED
      BY <2>3, <2>4
  <1>4. FirstPlacesAreReplaced
    BY <1>3, Zenon DEF FirstPlacesAreReplaced
  <1> QED
    BY <1>2, <1>4

(* Whatever the Go file and the enabled kinds, Extract (go.go:73) hands over each     *)
(* text that is not skipped once, with the first place the walk finds it at, comments  *)
(* before string literals.                                                           *)
THEOREM GoNodesCorrect == GoSpec => []NodesAreFirstPlaces
  BY GoInvAlways, GoInvSuffices, PTL

(* Whatever the Go file and the translations, Apply (go.go:172) replaces the text at  *)
(* these places and nothing else, and what it writes Go reads as the translation:      *)
(* escapeString (:267) is undone by the reading of the literal.                        *)
THEOREM GoApplyCorrect == GoSpec => []FirstPlacesAreReplaced
  BY GoInvAlways, GoInvSuffices, PTL
=============================================================================
