---------------------------------- MODULE Diff ----------------------------------
(***************************************************************************)
(* DiffContent and DiffContentWithContext (src/diff.go): which nodes of a    *)
(* new version of a document need translation.  Nodes are told apart by the   *)
(* hash of their text; what is left over is paired, a removed node with an    *)
(* added one, by position or by context.  The lists come out of Go maps, so   *)
(* their order is any.                                                       *)
(***************************************************************************)
EXTENDS Naturals, Sequences, FiniteSets, SequencesExt, OrderedSets

CONSTANTS
    Hashes,
    Contexts,   \* disambiguation contexts of nodes
    NoContext,  \* the empty one
    OldVersions,
    NewVersions \* versions of a document: sequences of nodes

Node == [id : Nat, hash : Hashes, context : Contexts \cup {NoContext}]

ASSUME DiffAssumption ==
    /\ NoContext \notin Contexts
    /\ OldVersions \subseteq Seq(Node)
    /\ NewVersions \subseteq Seq(Node)

VARIABLES
    old, new,       \* the versions that are compared
    pc,             \* "diff", "match" or "done"
    unchanged,      \* result.Unchanged, as a set
    removed,        \* result.Removed and result.Added, in the order of the maps
    added,
    modified,       \* result.Modified: pairs [old, new]
    ri,             \* the loop over removed
    matched,        \* indices of added
    removedMatched  \* indices of removed

vars == <<old, new, pc, unchanged, removed, added, modified, ri, matched, removedMatched>>

\* oldByHash and newByHash: of nodes with the same text, the last.
ByHash(nodes) ==
    {nodes[i] : i \in {i \in DOMAIN nodes : \A j \in (i + 1)..Len(nodes) :
                                               nodes[j].hash # nodes[i].hash}}

HashesOf(nodes) == {node.hash : node \in nodes}

Init ==
    /\ old \in OldVersions
    /\ new \in NewVersions
    /\ pc = "diff"
    /\ unchanged = {}
    /\ removed = <<>>
    /\ added = <<>>
    /\ modified = <<>>
    /\ ri = 1
    /\ matched = {}
    /\ removedMatched = {}

-----------------------------------------------------------------------------
OnlyIn(nodes, others) == {node \in nodes : node.hash \notin HashesOf(others)}

\* DiffContent; the pairing is skipped when there is nothing to pair.
DiffContent ==
    LET oldByHash == ByHash(old)
        newByHash == ByHash(new)
    IN  /\ pc = "diff"
        /\ unchanged' = {node \in oldByHash : node.hash \in HashesOf(newByHash)}
        /\ removed' \in SetToSeqs(OnlyIn(oldByHash, newByHash))
        /\ added' \in SetToSeqs(OnlyIn(newByHash, oldByHash))
        /\ pc' = IF added' # <<>> /\ removed' # <<>> THEN "match" ELSE "done"
        /\ UNCHANGED <<old, new, modified, ri, matched, removedMatched>>

PairsById(r, a) == r.id = a.id
Pairs(r, a) == r.id = a.id \/ (r.context # NoContext /\ r.context = a.context)

CandidatesWithMatched(r) == {ai \in DOMAIN added : Pairs(r, added[ai])}
Candidates(r) == {ai \in DOMAIN added \ matched : Pairs(r, added[ai])}

\* One turn of the loop over removed: the first added node that fits, if any.
Match ==
    /\ pc = "match"
    /\ ri <= Len(removed)
    /\ LET r == removed[ri]
       IN  \/ /\ Candidates(r) = {}
              /\ UNCHANGED <<modified, matched, removedMatched>>
           \/ \E ai \in Candidates(r) :
                 /\ \A other \in Candidates(r) : ai <= other
                 /\ modified' = Append(modified, [old |-> r, new |-> added[ai]])
                 /\ matched' = matched \cup {ai}
                 /\ removedMatched' = removedMatched \cup {ri}
    /\ ri' = ri + 1
    /\ UNCHANGED <<old, new, pc, unchanged, removed, added>>

WithoutNothing(nodes, indices) == nodes

\* The nodes that were not matched, in their order.
Without(nodes, indices) ==
    LET kept == InOrder(DOMAIN nodes \ indices)
    IN  [k \in DOMAIN kept |-> nodes[kept[k]]]

Filter ==
    /\ pc = "match"
    /\ ri > Len(removed)
    /\ added' = Without(added, matched)
    /\ removed' = Without(removed, removedMatched)
    /\ pc' = "done"
    /\ UNCHANGED <<old, new, unchanged, modified, ri, matched, removedMatched>>

Next == DiffContent \/ Match \/ Filter

Spec == Init /\ [][Next]_vars

NeedsTranslation == added \o [i \in DOMAIN modified |-> modified[i].new]

-----------------------------------------------------------------------------
\* How often a text occurs in a list of nodes.
Times(hash, nodes) == Cardinality({i \in DOMAIN nodes : nodes[i].hash = hash})

Olds == [i \in DOMAIN modified |-> modified[i].old]

(* Whatever the order of the maps, every text of the old version ends up once   *)
(* among the unchanged, the removed or the modified nodes, and no other does     *)
(* (diff.go:62-89, :96-150).                                                     *)
OldIsAccountedFor ==
    pc = "done" => \A hash \in Hashes :
        Cardinality({node \in unchanged : node.hash = hash})
        + Times(hash, removed) + Times(hash, Olds)
        = IF hash \in HashesOf(ByHash(old)) THEN 1 ELSE 0

(* NeedsTranslation (diff.go:50) names exactly the texts of the new version that *)
(* the old one had not, each once: nothing is translated twice and nothing is     *)
(* forgotten, however the pairing went.                                           *)
NeedsExactlyTheNew ==
    pc = "done" => \A hash \in Hashes :
        Times(hash, NeedsTranslation) =
            IF hash \in HashesOf(ByHash(new)) \ HashesOf(ByHash(old)) THEN 1 ELSE 0

(* A modified node is one whose text changed while its position or its context   *)
(* suggests the same element (diff.go:14-16), and no two nodes that could still   *)
(* be paired are reported as added and removed.                                   *)
PairingIsMaximal ==
    pc = "done" =>
        /\ \A i \in DOMAIN modified :
              /\ modified[i].old.hash # modified[i].new.hash
              /\ \/ modified[i].old.id = modified[i].new.id
                 \/ modified[i].old.context = modified[i].new.context
                    /\ modified[i].old.context # NoContext
        /\ \A i \in DOMAIN removed, j \in DOMAIN added :
              /\ removed[i].id # added[j].id
              /\ removed[i].context = NoContext \/ removed[i].context # added[j].context
=============================================================================
