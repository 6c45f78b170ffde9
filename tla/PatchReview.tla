----------------------------- MODULE PatchReview -----------------------------
(***************************************************************************)
(* The life of generation runs and their candidate patches beside a canvas *)
(* that people keep editing: direct graph operations, run requests, the    *)
(* delivery of a patch, its application, rejection or regeneration, and    *)
(* the deletion of the canvas, each a transaction that takes row locks.    *)
(*                                                                         *)
(* A direct operation, a run request and a delivery lock the canvas and    *)
(* are one step.  A review locks the patch first and the canvas then; the  *)
(* deletion locks the canvas first and the patches then; so each of these  *)
(* is two steps, and PostgreSQL breaks the deadlock they can run into.     *)
(*                                                                         *)
(* A run, and the patch it delivers, is known by its place in runs.        *)
(***************************************************************************)
EXTENDS PatchContract

CONSTANTS
  InitialGraph,   \* the graph at the start
  InitialLog,     \* and the operations that led to it
  DirectRequests, \* bound: the direct operations people ask for
  RunRequests,    \* bound: the runs they ask for
  LeftOut,        \* bound: kinds of the nodes a selection leaves out
  MaxOperations,  \* bound: direct operations
  MaxRuns,        \* bound: runs
  MaxRequests     \* bound: operations, runs and the deletion together

ASSUME ReviewAssumption ==
  /\ {MaxOperations, MaxRuns, MaxRequests} \subseteq Nat
  /\ InitialLog \in Seq([actor : {0}, key : {0}])
  /\ InitialGraph.revision = Len(InitialLog)
  /\ \A i, j \in DOMAIN InitialLog : InitialLog[i].key = InitialLog[j].key => i = j

\* The graph at the start is one that the database admits; what a run made
\* is reviewed, and only evidence is rejected.
ASSUME GraphAssumption ==
  LET ids == DOMAIN InitialGraph.nodes IN
  /\ DOMAIN InitialGraph = {"nodes", "edges", "revision"}
  /\ IsFiniteSet(ids) /\ IsFiniteSet(DOMAIN InitialGraph.edges)
  /\ \A n \in ids : InitialGraph.nodes[n] \in NodeRows(ids)
  /\ \A e \in DOMAIN InitialGraph.edges : InitialGraph.edges[e] \in EdgeRows(ids)
  /\ \A n \in ids :
       LET node == InitialGraph.nodes[n] IN
       /\ node.made => node.review # "none"
       /\ node.review = "rejected" => node.kind \in {"source", "claim"}
  /\ RootsHold(InitialGraph) /\ StaleMarksHold(InitialGraph)

ASSUME RequestAssumption ==
  /\ \A q \in DirectRequests : Admitted(q) /\ "version" \notin DOMAIN q
  /\ \A q \in RunRequests :
       /\ DOMAIN q = {"operation", "scope", "selected"}
       /\ q.operation \in Operations

VARIABLES
  canvas,   \* the canvas row: open, deleting (locked by its deletion), deleted
  graph,
  log,      \* the graph operations, in the order of their revisions
  runs,
  patches,  \* by run
  held      \* patches whose row a review has locked

vars == <<canvas, graph, log, runs, patches, held>>

User == 0  \* actor of a direct operation; a patch's is its run

Nobody == 0  \* no run

------------------------------------------------------------------------------
(* Direct operations and run requests                                       *)

UserRows == {i \in DOMAIN log : log[i].actor = User /\ i > Len(InitialLog)}

Asked == Cardinality(UserRows) + Len(runs)

\* A client draws a fresh key, or sends a request again.
OperationKeys == 1..(Cardinality(UserRows) + 1)

RunKeys == 1..(Len(runs) + 1)

\* Seeded fault: the key is not looked up.
LoggedNever(actor, key) == FALSE

Logged(actor, key) ==
  \E i \in DOMAIN log : log[i].actor = actor /\ log[i].key = key

\* The version the client knows: the first one or the present one.
SeenVersions(q) ==
  {1} \cup
    CASE "node" \in DOMAIN q /\ q.node \in DOMAIN graph.nodes ->
           {IF q.op = "MOVE_NODE" THEN graph.nodes[q.node].place
            ELSE graph.nodes[q.node].version}
      [] "edge" \in DOMAIN q /\ q.edge \in DOMAIN graph.edges ->
           {graph.edges[q.edge].version}
      [] OTHER -> {}

\* apply_graph_operation.  A key that was used answers with what is stored.
Direct(key, request) ==
  /\ canvas = "open"
  /\ ~Logged(User, key)
  /\ Cardinality(UserRows) < MaxOperations /\ Asked < MaxRequests
  /\ \E version \in SeenVersions(request) :
       LET q == Joined(request, [version |-> version]) IN
       \E after \in Handle(graph, q, <<key, request.op>>) :
         /\ graph' = Committed(graph, q, after)
         /\ log' = Append(log, [actor |-> User, key |-> key, request |-> q])
  /\ UNCHANGED <<canvas, runs, patches, held>>

\* Seeded fault: the key is not looked up.
RequestedNever(key) == FALSE

Requested(key) == \E r \in DOMAIN runs : runs[r].key = key

\* Versions as the client knows them, the first or the present ones.
SeenSelections(selected) ==
  {[n \in selected |-> 1],
   [n \in selected |-> IF n \in DOMAIN graph.nodes
                       THEN graph.nodes[n].version ELSE 1]}

NewRun(key, context, parent) ==
  [key |-> key, context |-> context, parent |-> parent]

\* create_generation_run
CreateRun(key, request) ==
  /\ canvas = "open"
  /\ ~Requested(key)
  /\ Len(runs) < MaxRuns /\ Asked < MaxRequests
  /\ \E versions \in SeenSelections(request.selected) :
       LET q == Joined(request, [versions |-> versions]) IN
       /\ Selectable(graph, q)
       /\ \E context \in Contexts(graph, q) :
            runs' = Append(runs, NewRun(key, context, Nobody))
  /\ UNCHANGED <<canvas, graph, log, patches, held>>

\* The worker stores the patch of a run.
DeliverPatch(r) ==
  /\ canvas = "open"
  /\ r \in DOMAIN runs \ DOMAIN patches
  /\ \E draft \in Drafts(runs[r].context, r) :
       LET ops == Ops(runs[r].context, r, draft) IN
       /\ WellFormed(runs[r].context, ops)
       /\ Contract(runs[r].context, r, draft)
       /\ patches' = Inserted(patches, r,
            [ops |-> ops, status |-> "pending", decisions |-> <<>>,
             linked |-> Nobody])
  /\ UNCHANGED <<canvas, graph, log, runs, held>>

------------------------------------------------------------------------------
(* Applying a patch                                                         *)

\* Operations that rest on those of ids, themselves included.
Needing(ops, ids) ==
  Reachable(UNION {ops[o].needs \X {o} : o \in DOMAIN ops}, ids)

\* Bound: everything, or all but one node or but the edges beside one, with
\* what needs it or without.
Selections(ops) ==
  LET some == {o \in DOMAIN ops : ops[o].adds = "node" /\ ops[o].kind \in LeftOut}
  IN  {DOMAIN ops}
        \cup {DOMAIN ops \ Needing(ops, {o}) : o \in some}
        \cup {DOMAIN ops \ (Needing(ops, {o}) \ {o}) : o \in some}

Closed(ops, selected) == \A o \in selected : ops[o].needs \subseteq selected

Lineage(p, unit) ==
  EdgeId(p, <<unit, Successor(p, unit), "evolves_into">>)

Clones(ops) ==
  {o \in DOMAIN ops : ops[o].adds = "node" /\ ops[o].kind = "constraint"}

AnchoredAt(units) ==
  {c \in DOMAIN graph.nodes :
     graph.nodes[c].kind = "constraint" /\ graph.nodes[c].root \in units}

\* A successor, its lineage and the constraints cloned for it.
Group(p, unit) ==
  {Successor(p, unit), Lineage(p, unit)}
    \cup {o \in Clones(patches[p].ops) :
            patches[p].ops[o].root = Successor(p, unit)}

\* What is regenerated is still there, and still stale.
TargetsStand(context) ==
  /\ context.units \cup context.members \subseteq DOMAIN graph.nodes
  /\ \A n \in context.members : Stale(graph.nodes[n])

\* The production roots among the additions are successors, one of each
\* unit, and each is tied to what it replaces.
SuccessorsMatch(p, ops, units) ==
  /\ \A o \in {x \in DOMAIN ops : ops[x].adds = "node"} :
       IF ops[o].kind \in RootKinds
       THEN /\ ops[o].from \in units /\ o = Successor(p, ops[o].from)
            /\ ops[o].kind = graph.nodes[ops[o].from].kind
       ELSE ops[o].from = NoNode
  /\ \A u \in units :
       LET new == Successor(p, u)
           tie == ops[Lineage(p, u)]
       IN  /\ {new, Lineage(p, u)} \subseteq DOMAIN ops
           /\ ops[new].adds = "node" /\ ops[new].kind \in RootKinds
           /\ ops[new].from = u
           /\ tie.adds = "edge" /\ tie.kind = "evolves_into"
           /\ tie.source = u /\ tie.target = new
           /\ new \in tie.needs

\* Seeded fault: the clones are compared with their origins, but not the
\* constraints with the clones.
ClonesMatchOrigins(p, ops, units) ==
  \A o \in Clones(ops) :
    LET origin == graph.nodes[o[3]] IN
    /\ o[3] \in AnchoredAt(units)
    /\ <<ops[o].text, ops[o].pinned>> = <<origin.text, origin.pinned>>

\* Every constraint anchored at a unit has one clone, its copy.
ClonesMatch(p, ops, units) ==
  LET Origin(o) == o[3] IN
  /\ \A o \in Clones(ops) :
       /\ Origin(o) \in AnchoredAt(units)
       /\ \A other \in Clones(ops) : Origin(other) = Origin(o) => other = o
       /\ ops[o].parents = {Origin(o)}
       /\ LET origin == graph.nodes[Origin(o)] IN
          /\ ops[o].root = Successor(p, origin.root)
          /\ Lineage(p, origin.root) \in ops[o].needs
          /\ <<ops[o].text, ops[o].pinned>> = <<origin.text, origin.pinned>>
  /\ AnchoredAt(units) \subseteq {Origin(o) : o \in Clones(ops)}

\* _validate_regeneration_application
RegenerationFits(p, selected) ==
  LET context == runs[p].context
      ops == patches[p].ops
  IN  /\ TargetsStand(context)
      /\ SuccessorsMatch(p, ops, context.units)
      /\ ClonesMatch(p, ops, context.units)
      /\ \A u \in context.units :
           Group(p, u) \subseteq selected \/ Group(p, u) \cap selected = {}

\* Seeded fault: the graph is taken to be as it was when the run was asked for.
ConflictingNever(ops, o, selected) == FALSE

\* A reference resolves to a node of the graph or to a selected addition.
Resolved(n, selected) == n \in selected \/ n \in DOMAIN graph.nodes

\* A branch root is a selected addition or a node, of one of three kinds.
RootResolved(ops, root, selected) ==
  IF root \in selected
  THEN ops[root].adds = "node" /\ ops[root].kind \in RootKinds
  ELSE root \in DOMAIN graph.nodes /\ graph.nodes[root].kind \in RootKinds

NodeConflicts(ops, o, selected) ==
  \/ o \in DOMAIN graph.nodes
  \/ \E n \in ops[o].parents : ~Resolved(n, selected)
  \/ ops[o].root # NoNode /\ ~RootResolved(ops, ops[o].root, selected)

EdgeConflicts(ops, o, selected) ==
  \/ o \in DOMAIN graph.edges
  \/ \E n \in {ops[o].source, ops[o].target} : ~Resolved(n, selected)

\* _preflight_operation
Conflicting(ops, o, selected) ==
  \/ ops[o].adds = "node" /\ NodeConflicts(ops, o, selected)
  \/ ops[o].adds = "edge" /\ EdgeConflicts(ops, o, selected)

\* Seeded fault: what rests on a conflicting operation is applied.
SkippedAlone(p, selected) ==
  {o \in selected : Conflicting(patches[p].ops, o, selected)}

\* The selected operations left out: in conflict or resting on one that is,
\* then the groups they belong to, then what rests on those.
Skipped(p, selected) ==
  LET ops == Restrict(patches[p].ops, selected)
      blocked == Needing(ops, {o \in selected : Conflicting(ops, o, selected)})
      groups == UNION {g \in {Group(p, u) : u \in runs[p].context.units} :
                         g \cap blocked # {}}
  IN  selected \cap Needing(ops, blocked \cup groups)

AddedNode(op, revision) ==
  [FreshNode(op.kind, revision) EXCEPT
     !.review = "accepted", !.made = TRUE, !.root = op.root,
     !.pinned = op.pinned, !.text = op.text, !.from = op.from]

AddedEdge(op) ==
  [source |-> op.source, target |-> op.target, kind |-> op.kind, version |-> 1]

\* _apply_candidate for each of the steps: an addition takes a revision.
Added(g, ops, steps) ==
  LET Adding(what) == {o \in ToSet(steps) : ops[o].adds = what}
      Revision(o) == g.revision + (CHOOSE i \in DOMAIN steps : steps[i] = o)
  IN  [nodes |-> Joined(g.nodes, [o \in Adding("node") |->
                                    AddedNode(ops[o], Revision(o))]),
       edges |-> Joined(g.edges, [o \in Adding("edge") |-> AddedEdge(ops[o])]),
       revision |-> g.revision + Len(steps)]

Decided(patch, accepted, skipped) ==
  [patch EXCEPT
     !.decisions = [o \in DOMAIN patch.ops |->
                      IF o \in accepted THEN "accepted"
                      ELSE IF o \in skipped THEN "skipped" ELSE "rejected"],
     !.status = IF accepted = {} THEN "rejected"
                ELSE IF accepted = DOMAIN patch.ops THEN "applied"
                ELSE "partially_applied"]

\* A review decides and its transaction ends; it has the canvas, if only for
\* the foreign key of the decisions it stores.
Answered(p) ==
  /\ canvas = "open" /\ p \in held
  /\ held' = held \ {p}
  /\ UNCHANGED canvas

\* Seeded fault: the status is not looked at once the patch is locked.
PendingAlways(p) == TRUE

Pending(p) == patches[p].status = "pending"

\* apply_graph_patch with apply_nonconflicting_only.  Without it the request
\* is refused when anything is skipped, and does the same otherwise.
Apply(p, selected) ==
  LET ops == patches[p].ops
      skipped == Skipped(p, selected)
      steps == InOrder(ops, selected \ skipped)
  IN  /\ Answered(p)
      /\ Pending(p)
      /\ Closed(ops, selected)
      /\ runs[p].context.operation = "regenerate_stale" =>
           RegenerationFits(p, selected)
      /\ graph' = Added(graph, ops, steps)
      /\ log' = log \o [i \in DOMAIN steps |-> [actor |-> p, key |-> steps[i]]]
      /\ patches' = [patches EXCEPT
                       ![p] = Decided(@, selected \ skipped, skipped)]
      /\ UNCHANGED runs

------------------------------------------------------------------------------
(* The other reviews and the deletion of the canvas                         *)

\* Bound: one patch at a time; two reviews of different patches only meet at
\* the canvas, which both keep to their end.
LockPatch(p) ==
  /\ canvas # "deleted"
  /\ p \in DOMAIN patches /\ held = {}
  /\ held' = held \cup {p}
  /\ UNCHANGED <<canvas, graph, log, runs, patches>>

\* reject_graph_patch
Reject(p) ==
  /\ Answered(p)
  /\ Pending(p)
  /\ patches' = [patches EXCEPT ![p] = Decided(@, {}, {})]
  /\ UNCHANGED <<graph, log, runs>>

\* regenerate_graph_patch: the same run again, on the graph as it is now.
Regenerate(p, key) ==
  LET was == runs[p].context
      q == [operation |-> was.operation, scope |-> was.scope,
            selected |-> was.selected,
            versions |-> [n \in was.selected |-> graph.nodes[n].version]]
  IN  /\ Answered(p)
      /\ Pending(p)
      /\ Len(runs) < MaxRuns /\ Asked < MaxRequests
      /\ was.selected \subseteq DOMAIN graph.nodes
      /\ Selectable(graph, q)
      /\ ~Requested(key)
      /\ \E context \in Contexts(graph, q) :
           runs' = Append(runs, NewRun(key, context, p))
      /\ patches' = [patches EXCEPT
                       ![p] = [Decided(@, {}, {}) EXCEPT !.linked = Len(runs) + 1]]
      /\ UNCHANGED <<graph, log>>

\* The request is refused, or the patch is already decided and the answer
\* is what is stored; neither needs the canvas.
Refuse(p) ==
  /\ held' = held \ {p}
  /\ UNCHANGED <<canvas, graph, log, runs, patches>>

\* delete_canvas takes the canvas ...
StartDeletion ==
  /\ canvas = "open"
  /\ Asked < MaxRequests
  /\ canvas' = "deleting"
  /\ UNCHANGED <<graph, log, runs, patches, held>>

\* Seeded fault: the cascade does not wait for the review of a patch.
FinishDeletionAtOnce ==
  /\ canvas = "deleting"
  /\ canvas' = "deleted"
  /\ graph' = [nodes |-> <<>>, edges |-> <<>>, revision |-> 0]
  /\ log' = <<>> /\ runs' = <<>> /\ patches' = <<>>
  /\ UNCHANGED held

\* ... and the cascade everything that belongs to it.
FinishDeletion ==
  /\ canvas = "deleting" /\ held = {}
  /\ canvas' = "deleted"
  /\ graph' = [nodes |-> <<>>, edges |-> <<>>, revision |-> 0]
  /\ log' = <<>> /\ runs' = <<>> /\ patches' = <<>>
  /\ UNCHANGED held

\* A review waits for the canvas while the cascade waits for its patch:
\* PostgreSQL rolls one of them back.
BreakDeadlock ==
  /\ canvas = "deleting" /\ held # {}
  /\ \/ canvas' = "open" /\ UNCHANGED held
     \/ \E p \in held : held' = held \ {p} /\ UNCHANGED canvas
  /\ UNCHANGED <<graph, log, runs, patches>>

------------------------------------------------------------------------------
Init ==
  /\ canvas = "open"
  /\ graph = InitialGraph
  /\ log = InitialLog
  /\ runs = <<>> /\ patches = <<>> /\ held = {}

Review(p) ==
  \/ Refuse(p)
  \/ Reject(p)
  \/ \E key \in RunKeys : Regenerate(p, key)
  \/ \E selected \in Selections(patches[p].ops) : Apply(p, selected)

Next ==
  \/ \E key \in OperationKeys, q \in DirectRequests : Direct(key, q)
  \/ \E key \in RunKeys, q \in RunRequests : CreateRun(key, q)
  \/ \E r \in DOMAIN runs : DeliverPatch(r)
  \/ \E p \in DOMAIN patches : LockPatch(p)
  \/ \E p \in held : Review(p)
  \/ StartDeletion
  \/ FinishDeletion
  \/ BreakDeadlock

Spec == Init /\ [][Next]_vars

------------------------------------------------------------------------------
(* Properties                                                               *)

\* Nodes a row may name: those of the graph, those it had at the start, and
\* what was regenerated.
Known ==
  DOMAIN graph.nodes \cup DOMAIN InitialGraph.nodes
    \cup UNION {runs[r].context.units : r \in DOMAIN runs}

\* Every variable holds a value of its type.
TypeOK ==
  /\ canvas \in {"open", "deleting", "deleted"}
  /\ \A n \in DOMAIN graph.nodes : graph.nodes[n] \in NodeRows(Known)
  /\ \A e \in DOMAIN graph.edges : graph.edges[e] \in EdgeRows(Known)
  /\ graph.revision \in Nat
  /\ \A i \in DOMAIN log : log[i].actor \in {User} \cup DOMAIN patches
  /\ \A r \in DOMAIN runs : runs[r].parent \in {Nobody} \cup DOMAIN patches
  /\ DOMAIN patches \subseteq DOMAIN runs
  /\ \A p \in DOMAIN patches :
       patches[p].status \in {"pending", "applied", "partially_applied", "rejected"}
  /\ held \subseteq DOMAIN patches

\* Whatever is edited, deleted, applied and regenerated in between, no edge
\* and no branch root dangles, and a node is marked stale exactly while a
\* cause of it stands, since the first of them
\* (graph/migrations/0001_initial.py:79-177 would abort the request).
GraphConsistent == RootsHold(graph) /\ EdgesHold(graph) /\ StaleMarksHold(graph)

\* The log has one operation for every revision and for every key of an
\* actor, so nothing sent again is done again, and a patch has in it
\* exactly the operations that were accepted.
OperationsOnce ==
  /\ graph.revision = Len(log)
  /\ \A i, j \in DOMAIN log :
       log[i].actor = log[j].actor /\ log[i].key = log[j].key => i = j
  /\ \A p \in DOMAIN patches :
       {log[i].key : i \in {j \in DOMAIN log : log[j].actor = p}} =
         {o \in DOMAIN patches[p].decisions : patches[p].decisions[o] = "accepted"}

\* What makes a node's meaning; turning stale is part of it, one more cause
\* is not.
Meaning(node) ==
  <<node.kind, node.review, node.made, node.root, node.pinned, node.text, node.since>>

\* However many ways a transaction affects a node, it raises the version of
\* the node by one at most, and by one if it changes what the node means; a
\* move changes only the version of the place (design.md:494).
VersionsAdvanceOnce ==
  [][\A n \in DOMAIN graph.nodes \cap DOMAIN graph'.nodes :
       LET was == graph.nodes[n]
           is == graph'.nodes[n]
       IN  /\ Meaning(is) # Meaning(was) => is.version = was.version + 1
           /\ is.version # was.version =>
                is.version = was.version + 1 /\ is.touched = graph'.revision
           /\ is.place # was.place => is = [was EXCEPT !.place = @ + 1]]_vars

\* All pairs of a node and one that depends on it, over any number of arrows.
Descent(arrows) ==
  LET paths[i \in 0..Cardinality(arrows)] ==
        IF i = 0 THEN arrows
        ELSE LET short == paths[i - 1]
             IN  short \cup {<<both[1][1], both[2][2]>> :
                    both \in {b \in short \X arrows : b[1][2] = b[2][1]}}
  IN  paths[Cardinality(arrows)]

Below(g, ids) == {d[2] : d \in {x \in Descent(Arrows(g)) : x[1] \in ids}}

\* What the documents call the dependents of a change, q having led from
\* graph g to graph h.
Affected(g, h, q) ==
  CASE q.op \in {"UPDATE_NODE", "PATCH_NODE_METADATA"} ->
         Below(h, {q.node}) \ {q.node}
    [] q.op = "DELETE_EDGE" ->
         LET lost == Dependency(g.edges[q.edge])[2] IN {lost} \cup Below(g, {lost})
    [] q.op = "UPDATE_EDGE" ->
         LET ends == {Dependency(x.edges[q.edge])[2] : x \in {g, h}}
         IN  ends \cup Below(h, ends)
    [] q.op = "REPLACE_ASSUMPTION" ->
         (Owners(g, q.node) \cup Below(g, Owners(g, q.node))) \ {q.node}
    [] q.op = "REJECT_EVIDENCE" -> Below(g, {q.node}) \ Waypoints(g, q.node)
    [] OTHER -> {}

\* A direct operation adds a cause of staleness to exactly the nodes that
\* depend on what it changed, before or after it, and to no rejected one
\* (design.md:490-492).
DependentsTurnStale ==
  [][(Len(log') = Len(log) + 1 /\ log'[Len(log')].actor = User) =>
       {n \in DOMAIN graph'.nodes : graph'.revision \in graph'.nodes[n].causes} =
         {n \in Affected(graph, graph', log'[Len(log')].request) :
            Eligible(graph'.nodes[n])}]_vars

\* A review decides every operation of a patch or none; what it accepts rests
\* on nothing it left out, a successor comes with its lineage and its
\* constraints, and a patch that is generated anew leaves nothing behind
\* (design.md:528, 1686, 1696).
DecisionsSound ==
  \A p \in DOMAIN patches :
    LET patch == patches[p]
        accepted == {o \in DOMAIN patch.decisions : patch.decisions[o] = "accepted"}
    IN  /\ DOMAIN patch.decisions =
             IF patch.status = "pending" THEN {} ELSE DOMAIN patch.ops
        /\ Closed(patch.ops, accepted)
        /\ \A u \in runs[p].context.units :
             Group(p, u) \subseteq accepted \/ Group(p, u) \cap accepted = {}
        /\ patch.linked # Nobody => accepted = {} /\ runs[patch.linked].parent = p

\* Of the reviews of one patch from several tabs one decides; what it decided
\* stays until the canvas goes.
DecisionsFinal ==
  [][\A p \in DOMAIN patches :
       patches[p].status # "pending" /\ p \in DOMAIN patches' =>
         patches'[p] = patches[p]]_vars

\* A key makes one run, and a patch is generated anew once.
OneRunPerKey ==
  \A q, r \in DOMAIN runs :
    (\/ runs[q].key = runs[r].key
     \/ runs[q].parent = runs[r].parent /\ runs[q].parent # Nobody) => q = r

\* A run is given what fits the model, and of what is stale or rejected only
\* the nodes it is to replace.
ContextSound ==
  \A r \in DOMAIN runs :
    LET context == runs[r].context IN
    /\ Size(context, DOMAIN context.nodes) <= SemanticBudget
    /\ \A n \in DOMAIN context.nodes :
         InContext(context.nodes[n]) \/ n \in context.members

\* Applying a regeneration leaves what it replaces and its causes as they
\* were; each new successor is tied to its predecessor and has a copy of
\* every constraint that is anchored there now (design.md:496, 528).
SuccessorsParallel ==
  [][\A p \in DOMAIN patches :
       LET context == runs[p].context IN
       (p \in DOMAIN patches' /\ patches[p].status = "pending"
          /\ patches'[p].status \in {"applied", "partially_applied"}) =>
         \A u \in context.units :
           LET new == Successor(p, u)
               Copies(c) == {d \in DOMAIN graph'.nodes \ DOMAIN graph.nodes :
                  /\ graph'.nodes[d].kind = "constraint"
                  /\ graph'.nodes[d].root = new
                  /\ graph'.nodes[d].text = graph.nodes[c].text
                  /\ graph'.nodes[d].pinned = graph.nodes[c].pinned}
           IN  /\ \A n \in {u} \cup context.members : graph'.nodes[n] = graph.nodes[n]
               /\ new \in DOMAIN graph'.nodes \ DOMAIN graph.nodes =>
                    /\ graph'.nodes[new].kind = graph.nodes[u].kind
                    /\ <<u, new>> \in Arrows(graph')
                    /\ \A c \in AnchoredAt({u}) : Copies(c) # {}]_vars

\* The patch of a regeneration applies as a whole while nothing has changed
\* since the run was asked for.  The code does not keep this.
RegenerationApplies ==
  \A p \in DOMAIN patches :
    (/\ patches[p].status = "pending"
     /\ runs[p].context.operation = "regenerate_stale"
     /\ runs[p].context.revision = graph.revision)
      => RegenerationFits(p, DOMAIN patches[p].ops)
=============================================================================
