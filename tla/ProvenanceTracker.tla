-------------------------- MODULE ProvenanceTracker --------------------------
(***************************************************************************)
(* ProvenanceTracker of modules/runtime-learning-engine/                   *)
(* provenance-tracker.ts: what was recorded from what.  A node names its   *)
(* parents, and an edge goes from each parent to it; lineages follow the   *)
(* names, descendants and chains follow the edges.  The store is rewritten *)
(* in place at every record.                                               *)
(***************************************************************************)
EXTENDS Naturals, Sequences, FiniteSets, SequencesExt

CONSTANTS Ids,           \* type of node -> ids callers give such nodes, again at will
          MaxNodes,      \* bound: nodes of the store
          MaxStoreFaults \* bound: processes after the first, saves that go wrong

ASSUME ProvenanceAssumption ==
  /\ \A type \in {"BUG", "PATTERN", "FIX", "TEST", "ROLLBACK"} : IsFiniteSet(Ids[type])
  /\ MaxNodes \in Nat /\ MaxStoreFaults \in Nat

VARIABLES provenance,      \* nodes: [id, type, parentIds]; edges: [from, to, relationship]
          provenanceFile,  \* what a process that starts finds, or nothing
          storeFaults

provenanceVars == <<provenance, provenanceFile, storeFaults>>

EmptyStore == [nodes |-> <<>>, edges |-> <<>>]

ProvenanceInit == provenance = EmptyStore /\ provenanceFile = EmptyStore /\ storeFaults = 0

(* A save that throws leaves the old file, one that is cut off a file that *)
(* loads as nothing.                                                       *)
SaveStore(store) ==
  /\ provenance' = store
  /\ \/ provenanceFile' = store /\ UNCHANGED storeFaults
     \/ /\ storeFaults < MaxStoreFaults /\ storeFaults' = storeFaults + 1
        /\ provenanceFile' \in {provenanceFile, EmptyStore}

(* Faulty form: the first parent alone gets an edge.                       *)
WithFirstParent(store, id, type, parents, relationship) ==
  [nodes |-> Append(store.nodes, [id |-> id, type |-> type, parentIds |-> parents]),
   edges |-> IF parents = <<>> THEN store.edges
             ELSE Append(store.edges, [from |-> parents[1], to |-> id, relationship |-> relationship])]

WithNode(store, id, type, parents, relationship) ==
  [nodes |-> Append(store.nodes, [id |-> id, type |-> type, parentIds |-> parents]),
   edges |-> store.edges \o
             [i \in DOMAIN parents |-> [from |-> parents[i], to |-> id, relationship |-> relationship]]]

RecordNode(id, type, parents, relationship) ==
  /\ Len(provenance.nodes) < MaxNodes
  /\ SaveStore(WithNode(provenance, id, type, parents, relationship))

RecordBugCapture(id) == RecordNode(id, "BUG", <<>>, "originates_from")
RecordPatternDetection(id, bugIds) == RecordNode(id, "PATTERN", bugIds, "detects")
RecordFixApplication(id, patternId) == RecordNode(id, "FIX", <<patternId>>, "fixes")
RecordTestExecution(id, fixId) == RecordNode(id, "TEST", <<fixId>>, "validates")
RecordRollback(id, fixId) == RecordNode(id, "ROLLBACK", <<fixId>>, "reverts")

LoadStore ==
  /\ storeFaults < MaxStoreFaults /\ storeFaults' = storeFaults + 1
  /\ provenance' = provenanceFile /\ UNCHANGED provenanceFile

ProvenanceNext ==
  \/ \E id \in Ids.BUG : RecordBugCapture(id)
  \/ \E id \in Ids.PATTERN, bugs \in SUBSET Ids.BUG :
       RecordPatternDetection(id, SetToSeq(bugs))
  \/ \E id \in Ids.FIX, pattern \in Ids.PATTERN : RecordFixApplication(id, pattern)
  \/ \E id \in Ids.TEST, fix \in Ids.FIX : RecordTestExecution(id, fix)
  \/ \E id \in Ids.ROLLBACK, fix \in Ids.FIX : RecordRollback(id, fix)
  \/ LoadStore

ProvenanceSpec == ProvenanceInit /\ [][ProvenanceNext]_provenanceVars

-----------------------------------------------------------------------------
Recorded == {provenance.nodes[i].id : i \in DOMAIN provenance.nodes}
PlacesOf(id) == {i \in DOMAIN provenance.nodes : provenance.nodes[i].id = id}
Find(id) == provenance.nodes[Min(PlacesOf(id))]

(* Where a traversal goes on to: from a node to its parents, and along the *)
(* edges.                                                                  *)
ParentLinks == UNION {{<<id, parent>> : parent \in ToSet(Find(id).parentIds)} : id \in Recorded}
ChildLinks ==
  {<<e.from, e.to>> : e \in {x \in ToSet(provenance.edges) : x.to \in Recorded}}

(* A traversal visits no id twice: it ends after as many rounds as there   *)
(* are nodes.                                                              *)
After(ids, links) == {link[2] : link \in {l \in links : l[1] \in ids}}
Visited(id, links) ==
  LET visited[n \in 0 .. MaxNodes] ==
        IF n = 0 THEN {id} ELSE visited[n - 1] \cup After(visited[n - 1], links)
  IN visited[MaxNodes]

GetLineage(id) == Visited(id, ParentLinks) \cap Recorded
GetDescendants(id) == After(Visited(id, ChildLinks), ChildLinks)

(* getFullChain: the first edge of the kind, and the first node of the     *)
(* type under the id it leads to.                                          *)
Missing == [id |-> "missing", type |-> "missing", parentIds |-> <<>>]
FirstNode(id, type) ==
  LET places == {i \in PlacesOf(id) : provenance.nodes[i].type = type}
  IN IF places = {} THEN Missing ELSE provenance.nodes[Min(places)]
Follow(node, relationship, type) ==
  LET places == {i \in DOMAIN provenance.edges : /\ provenance.edges[i].from = node.id
                                                 /\ provenance.edges[i].relationship = relationship}
  IN IF node = Missing \/ places = {} THEN Missing
     ELSE FirstNode(provenance.edges[Min(places)].to, type)

GetFullChain(bugId) ==
  LET bug == FirstNode(bugId, "BUG")
      pattern == Follow(bug, "detects", "PATTERN")
      fix == Follow(pattern, "fixes", "FIX")
      tests == {n \in ToSet(provenance.nodes) :
                  fix # Missing /\ n.type = "TEST" /\ fix.id \in ToSet(n.parentIds)}
  IN ({pattern, fix, Follow(fix, "reverts", "ROLLBACK")} \cup tests) \ {Missing}

(* Read from either end the record tells the same story: every node of a   *)
(* lineage has its offspring among its descendants, and the other way      *)
(* round unless an id was recorded twice; what a bug's chain shows came of *)
(* that bug.  Saves that fail and restarts lose nodes with their edges.    *)
StoryIsOne ==
  LET once == \A i, j \in DOMAIN provenance.nodes :
                provenance.nodes[i].id = provenance.nodes[j].id => i = j
  IN \A x, y \in Recorded : x # y =>
       /\ y \in GetLineage(x) => x \in GetDescendants(y)
       /\ once /\ x \in GetDescendants(y) => y \in GetLineage(x)
       /\ once => \A n \in GetFullChain(y) : n.id = x => y \in GetLineage(x)
=============================================================================
