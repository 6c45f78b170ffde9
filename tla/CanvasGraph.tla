---------------------------- MODULE CanvasGraph ----------------------------
(***************************************************************************)
(* The semantic graph of one canvas and its ten direct operations, as      *)
(* operators on graph values.  A graph is what PostgreSQL holds for one    *)
(* canvas:                                                                 *)
(*                                                                         *)
(*   [nodes |-> row of each node, edges |-> row of each edge,              *)
(*    revision |-> the canvas revision].                                   *)
(*                                                                         *)
(* A handler yields the set of graphs it may leave: the changed graph, or  *)
(* no graph when it refuses the request and the transaction rolls back.    *)
(***************************************************************************)
EXTENDS Integers, Sequences, FiniteSets, FiniteSetsExt, SequencesExt

CONSTANT NoNode  \* the branch root of a node that has none

Fresh == 0  \* stale_since_revision of a node that is not stale

RootKinds == {"strategy", "claim", "opportunity"}

FamilyKinds == {"opportunity", "assumption", "risk", "experiment"}

GeneratedKinds == RootKinds \cup FamilyKinds

NodeKinds == GeneratedKinds \cup {"goal", "constraint", "source", "placeholder"}

EdgeKinds == {"supports", "contradicts", "derived_from", "constrained_by",
              "evolves_into", "requires_validation", "extracted_from"}

Texts == {"original", "edited", "generated"}

\* A constraint is of branch scope exactly when it has a root; "made" is a
\* node that a generation run wrote, "causes" the revisions of its
\* uncleared staleness causes, "touched" its semantic_updated_at.
NodeRows(ids) ==
  [kind : NodeKinds,
   review : {"none", "accepted", "rejected"},
   made : BOOLEAN,
   root : ids \cup {NoNode},
   pinned : BOOLEAN,
   text : Texts,
   against : BOOLEAN,
   version : Nat \ {0},
   place : Nat \ {0},
   since : Nat,
   causes : SUBSET Nat,
   touched : Nat,
   from : ids \cup {NoNode}]

EdgeRows(ids) ==
  [source : ids, target : ids, kind : EdgeKinds, version : Nat \ {0}]

Stale(node) == node.since # Fresh

------------------------------------------------------------------------------
(* What the database enforces: the deferred foreign keys, the check         *)
(* constraint on constraint metadata and the two triggers.                  *)

RootsHold(graph) ==
  \A n \in DOMAIN graph.nodes :
    LET root == graph.nodes[n].root IN
    root # NoNode =>
      /\ graph.nodes[n].kind = "constraint"
      /\ root \in DOMAIN graph.nodes
      /\ graph.nodes[root].kind \in RootKinds

EdgesHold(graph) ==
  \A e \in DOMAIN graph.edges :
    {graph.edges[e].source, graph.edges[e].target} \subseteq DOMAIN graph.nodes

\* The stale flag is set exactly while an uncleared cause exists, and every
\* cause names an operation that was committed.
StaleMarksHold(graph) ==
  \A n \in DOMAIN graph.nodes :
    LET node == graph.nodes[n] IN
    /\ Stale(node) <=> node.causes # {}
    /\ node.causes \subseteq 1..graph.revision
    /\ Stale(node) => node.since = Min(node.causes)

------------------------------------------------------------------------------
(* Functions and orders                                                     *)

\* What f says, and what g says of the rest.
Joined(f, g) ==
  [x \in DOMAIN f \cup DOMAIN g |-> IF x \in DOMAIN f THEN f[x] ELSE g[x]]

\* The rows and one more.
Inserted(rows, id, row) == Joined(rows, [i \in {id} |-> row])

\* The ids in some order.
Listed(ids) ==
  LET list[rest \in SUBSET ids] ==
        IF rest = {} THEN <<>>
        ELSE LET id == CHOOSE i \in rest : TRUE
             IN  <<id>> \o list[rest \ {id}]
  IN  list[ids]

\* The ids in rounds: those of first come first, then those of first among
\* the rest, until there are none.
Drawn(ids, first) ==
  LET list[rest \in SUBSET ids] ==
        IF first[rest] = {} THEN <<>>
        ELSE Listed(first[rest]) \o list[rest \ first[rest]]
  IN  list[ids]

------------------------------------------------------------------------------
(* Dependencies and staleness                                               *)

\* <<ancestor, descendant>> of an edge row.
Dependency(edge) ==
  IF edge.kind \in {"constrained_by", "extracted_from"}
  THEN <<edge.target, edge.source>>
  ELSE <<edge.source, edge.target>>

Arrows(graph) == {Dependency(graph.edges[e]) : e \in DOMAIN graph.edges}

\* Where the arrows from the nodes lead.
Heads(arrows, nodes) == {a[2] : a \in {x \in arrows : x[1] \in nodes}}

\* How many arrows separate each node that the roots lead to from them.
Distances(arrows, roots) ==
  LET within[d \in 0..Cardinality(arrows)] ==
        IF d = 0 THEN [n \in roots |-> 0]
        ELSE LET nearer == within[d - 1]
             IN  Joined(nearer, [n \in Heads(arrows, DOMAIN nearer) |-> d])
  IN  within[Cardinality(arrows)]

Reachable(arrows, roots) == DOMAIN Distances(arrows, roots)

\* Seeded fault: what is excluded, and the roots, are affected all the same.
DependentsAll(arrows, roots, include, excluded) == Reachable(arrows, roots)

\* reachable_dependents: a root is affected only on request, also when a
\* cycle leads back to it.
Dependents(arrows, roots, include, excluded) ==
  (Reachable(arrows, roots) \ (IF include THEN {} ELSE roots)) \ excluded

\* The opportunities an assumption belongs to.
Owners(graph, n) ==
  {o \in DOMAIN graph.nodes :
     /\ graph.nodes[o].kind = "opportunity"
     /\ \E e \in DOMAIN graph.edges :
          /\ graph.edges[e].kind = "derived_from"
          /\ graph.edges[e].source = o
          /\ graph.edges[e].target = n}

ClaimsOf(graph, source) ==
  {c \in DOMAIN graph.nodes :
     /\ graph.nodes[c].kind = "claim"
     /\ \E e \in DOMAIN graph.edges :
          /\ graph.edges[e].kind = "extracted_from"
          /\ graph.edges[e].source = c
          /\ graph.edges[e].target = source}

SourcesOf(graph, claim) ==
  {s \in DOMAIN graph.nodes :
     graph.nodes[s].kind = "source" /\ claim \in ClaimsOf(graph, s)}

------------------------------------------------------------------------------
(* The handlers                                                             *)

Editable == [pinned |-> BOOLEAN, text |-> Texts, against |-> BOOLEAN]

\* What the schemas of the operations admit.
Admitted(q) ==
  /\ "op" \in DOMAIN q
  /\ CASE q.op = "ADD_NODE" ->
            /\ {"kind", "root", "pinned"} \subseteq DOMAIN q
            /\ q.kind \in NodeKinds /\ q.pinned \in BOOLEAN
       [] q.op \in {"UPDATE_NODE", "PATCH_NODE_METADATA"} ->
            /\ {"node", "changes"} \subseteq DOMAIN q
            /\ \A field \in DOMAIN q.changes \ {"root"} :
                 /\ field \in DOMAIN Editable
                 /\ q.changes[field] \in Editable[field]
       [] q.op \in {"MOVE_NODE", "DELETE_NODE", "REPLACE_ASSUMPTION",
                    "REJECT_EVIDENCE"} -> "node" \in DOMAIN q
       [] q.op = "ADD_EDGE" ->
            /\ {"source", "target", "kind"} \subseteq DOMAIN q
            /\ q.kind \in EdgeKinds
       [] q.op = "UPDATE_EDGE" ->
            /\ {"edge", "changes"} \subseteq DOMAIN q
            /\ DOMAIN q.changes \subseteq {"source", "target", "kind"}
            /\ "kind" \in DOMAIN q.changes => q.changes.kind \in EdgeKinds
       [] q.op = "DELETE_EDGE" -> "edge" \in DOMAIN q
       [] OTHER -> FALSE

Refused == {}

Matches(rows, id, version) == id \in DOMAIN rows /\ rows[id].version = version

\* A constraint is global, or rooted at a strategy, claim or opportunity.
RootAllowed(nodes, kind, root) ==
  IF kind = "constraint" /\ root # NoNode
  THEN root \in DOMAIN nodes /\ nodes[root].kind \in RootKinds
  ELSE root = NoNode

\* The fields a semantic change sets besides the ones it is about.
Touch(node, revision) ==
  [node EXCEPT !.version = @ + 1, !.touched = revision]

FreshNode(kind, revision) ==
  [kind |-> kind, review |-> "none", made |-> FALSE, root |-> NoNode,
   pinned |-> FALSE, text |-> "original", against |-> FALSE, version |-> 1,
   place |-> 1, since |-> Fresh, causes |-> {}, touched |-> revision,
   from |-> NoNode]

AddNode(graph, q, id) ==
  IF RootAllowed(graph.nodes, q.kind, q.root)
  THEN {[graph EXCEPT !.nodes =
           Inserted(@, id, [FreshNode(q.kind, graph.revision + 1) EXCEPT
                          !.root = q.root, !.pinned = q.pinned])]}
  ELSE Refused

\* UPDATE_NODE and PATCH_NODE_METADATA: q.changes holds the fields to set.
\* A constraint whose root is cleared becomes global.
ChangeNode(graph, q) ==
  IF /\ Matches(graph.nodes, q.node, q.version)
     /\ RootAllowed(graph.nodes, graph.nodes[q.node].kind,
                    Joined(q.changes, graph.nodes[q.node]).root)
  THEN {[graph EXCEPT !.nodes[q.node] =
           Touch(Joined(q.changes, @), graph.revision + 1)]}
  ELSE Refused

MoveNode(graph, q) ==
  IF q.node \in DOMAIN graph.nodes /\ graph.nodes[q.node].place = q.version
  THEN {[graph EXCEPT !.nodes[q.node].place = @ + 1]}
  ELSE Refused

IncidentEdges(graph, n) ==
  {e \in DOMAIN graph.edges :
     n \in {graph.edges[e].source, graph.edges[e].target}}

Anchored(graph, n) == {c \in DOMAIN graph.nodes : graph.nodes[c].root = n}

DeleteNode(graph, q) ==
  IF /\ Matches(graph.nodes, q.node, q.version)
     /\ IncidentEdges(graph, q.node) = {}
     /\ Anchored(graph, q.node) = {}
  THEN {[graph EXCEPT !.nodes = Restrict(@, DOMAIN @ \ {q.node})]}
  ELSE Refused

AddEdge(graph, q, id) ==
  IF {q.source, q.target} \subseteq DOMAIN graph.nodes
  THEN {[graph EXCEPT !.edges =
           Inserted(@, id, [source |-> q.source, target |-> q.target,
                        kind |-> q.kind, version |-> 1])]}
  ELSE Refused

ChangeEdge(graph, q) ==
  IF Matches(graph.edges, q.edge, q.version)
  THEN LET edge == Joined(q.changes, graph.edges[q.edge]) IN
       IF {edge.source, edge.target} \subseteq DOMAIN graph.nodes
       THEN {[graph EXCEPT !.edges[q.edge] = [edge EXCEPT !.version = @ + 1]]}
       ELSE Refused
  ELSE Refused

DeleteEdge(graph, q) ==
  IF Matches(graph.edges, q.edge, q.version)
  THEN {[graph EXCEPT !.edges = Restrict(@, DOMAIN @ \ {q.edge})]}
  ELSE Refused

ReplaceAssumption(graph, q) ==
  IF /\ Matches(graph.nodes, q.node, q.version)
     /\ graph.nodes[q.node].kind = "assumption"
     /\ graph.nodes[q.node].review = "accepted"
     /\ Cardinality(Owners(graph, q.node)) = 1
  THEN {[graph EXCEPT !.nodes[q.node] =
           Touch([@ EXCEPT !.text = "edited"], graph.revision + 1)]}
  ELSE Refused

\* The claims whose support the rejection of q.node recomputes.
Impacted(graph, q) ==
  IF graph.nodes[q.node].kind = "source"
  THEN {c \in ClaimsOf(graph, q.node) : graph.nodes[c].review # "rejected"}
  ELSE {}

\* A claim keeps its review while another source that is not rejected
\* supports it.
Supported(graph, claim, except) ==
  \E s \in SourcesOf(graph, claim) \ {except} :
    graph.nodes[s].review # "rejected"

RejectEvidence(graph, q) ==
  IF /\ Matches(graph.nodes, q.node, q.version)
     /\ graph.nodes[q.node].kind \in {"source", "claim"}
     /\ graph.nodes[q.node].review # "rejected"
  THEN LET impacted == Impacted(graph, q)
           lost == {q.node} \cup {c \in impacted : ~Supported(graph, c, q.node)}
           Reviewed(n) == IF n \notin lost THEN graph.nodes[n]
                          ELSE [graph.nodes[n] EXCEPT !.review = "rejected"]
       IN {[graph EXCEPT !.nodes = [n \in DOMAIN graph.nodes |->
              IF n \in impacted \cup {q.node}
              THEN Touch(Reviewed(n), graph.revision + 1)
              ELSE graph.nodes[n]]]}
  ELSE Refused

\* OPERATION_HANDLERS; id is the row an addition creates.
Handle(graph, q, id) ==
  CASE q.op = "ADD_NODE" -> AddNode(graph, q, id)
    [] q.op \in {"UPDATE_NODE", "PATCH_NODE_METADATA"} -> ChangeNode(graph, q)
    [] q.op = "MOVE_NODE" -> MoveNode(graph, q)
    [] q.op = "DELETE_NODE" -> DeleteNode(graph, q)
    [] q.op = "ADD_EDGE" -> AddEdge(graph, q, id)
    [] q.op = "UPDATE_EDGE" -> ChangeEdge(graph, q)
    [] q.op = "DELETE_EDGE" -> DeleteEdge(graph, q)
    [] q.op = "REPLACE_ASSUMPTION" -> ReplaceAssumption(graph, q)
    [] q.op = "REJECT_EVIDENCE" -> RejectEvidence(graph, q)

------------------------------------------------------------------------------
(* What an operation invalidates: captured before it runs, resolved after   *)

NoCapture == [roots |-> {}, include |-> FALSE, excluded |-> {}, given |-> {}]

Evidence(graph, n) ==
  n \in DOMAIN graph.nodes /\ graph.nodes[n].kind \in {"source", "claim"}

\* The rejected evidence, and the claims its rejection recomputes: waypoints
\* of the traversal, never stale themselves.
Waypoints(graph, n) ==
  {n} \cup (IF graph.nodes[n].kind = "source" THEN ClaimsOf(graph, n) ELSE {})

Capture(graph, q) ==
  CASE q.op \in {"UPDATE_NODE", "PATCH_NODE_METADATA"} ->
         [NoCapture EXCEPT !.roots = {q.node}, !.excluded = {q.node}]
    [] q.op = "DELETE_NODE" ->
         [NoCapture EXCEPT
            !.given = Dependents(Arrows(graph), {q.node}, FALSE, {q.node})]
    [] q.op \in {"UPDATE_EDGE", "DELETE_EDGE"} /\ q.edge \in DOMAIN graph.edges ->
         [NoCapture EXCEPT
            !.roots = {Dependency(graph.edges[q.edge])[2]}, !.include = TRUE]
    [] q.op = "REPLACE_ASSUMPTION" ->
         [NoCapture EXCEPT !.roots = Owners(graph, q.node), !.include = TRUE,
                           !.excluded = {q.node}]
    [] q.op = "REJECT_EVIDENCE" /\ Evidence(graph, q.node) ->
         [NoCapture EXCEPT !.roots = Waypoints(graph, q.node),
                           !.excluded = Waypoints(graph, q.node)]
    [] OTHER -> NoCapture

\* Seeded fault: an edge that is redrawn only affects what depended on it.
InvalidatedBefore(after, q, capture) ==
  IF capture.given # {} THEN capture.given
  ELSE Dependents(Arrows(after), capture.roots, capture.include, capture.excluded)

\* after is the graph the handler left.
Invalidated(after, q, capture) ==
  IF capture.given # {} THEN capture.given
  ELSE Dependents(Arrows(after),
                  capture.roots \cup (IF q.op = "UPDATE_EDGE"
                                      THEN {Dependency(after.edges[q.edge])[2]}
                                      ELSE {}),
                  capture.include, capture.excluded)

Eligible(node) == node.kind # "placeholder" /\ node.review # "rejected"

\* Every eligible node takes one more cause; one that was fresh turns stale
\* and its version changes.
MarkStale(nodes, affected, revision) ==
  [n \in DOMAIN nodes |->
     IF n \notin affected \/ ~Eligible(nodes[n]) THEN nodes[n]
     ELSE [(IF Stale(nodes[n]) THEN nodes[n]
            ELSE Touch([nodes[n] EXCEPT !.since = revision], revision))
           EXCEPT !.causes = @ \cup {revision}]]

\* The committed transaction of a direct operation whose handler left after.
Committed(graph, q, after) ==
  LET revision == graph.revision + 1
      affected == Invalidated(after, q, Capture(graph, q))
  IN  [after EXCEPT !.nodes = MarkStale(@, affected, revision),
                    !.revision = revision]
=============================================================================
