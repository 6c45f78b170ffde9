--------------------------- MODULE PatchContract ---------------------------
(***************************************************************************)
(* The candidate patch of a run and the contract it must meet before it is *)
(* stored.  The pipeline's stages choose what to add (a draft); the patch  *)
(* they assemble is accepted only when its nodes, their provenance, their  *)
(* lineage and the cloned constraints are exactly what the frozen context  *)
(* calls for.  Every accepted patch only adds nodes and edges.             *)
(*                                                                         *)
(* A draft is [nodes |-> what each new node is, clones |-> the pairs of a  *)
(* constraint to clone and the production unit whose successor it is for]. *)
(***************************************************************************)
EXTENDS RunContext

CONSTANTS
  Proposals,   \* strategies or opportunities in a new generation: three
  MaxEvidence  \* bound: claims cited in support of one opportunity

ASSUME ContractAssumption == {Proposals, MaxEvidence} \subseteq Nat \ {0}

Successor(run, unit) == <<run, "successor", unit>>

Entry(kind, parents, replaces) ==
  [kind |-> kind, parents |-> parents, replaces |-> replaces]

OfKind(context, kind) ==
  {n \in DOMAIN context.nodes : context.nodes[n].kind = kind}

\* Ancestors of n in the frozen context, of one kind.
Ancestors(context, n, kind) ==
  OfKind(context, kind) \cap (Reachable(Upwards(Links(context)), {n}) \ {n})

UnitsOf(context, kinds) == {u \in context.units : context.nodes[u].kind \in kinds}

------------------------------------------------------------------------------
(* What the stages may choose                                               *)

\* A claim can be cited when the run may use it and a source of the context
\* stands behind it.
Citable(context) ==
  {c \in OfKind(context, "claim") :
     /\ context.operation = "regenerate_stale" \/ c \in context.selected
     /\ SourcesOf(context, c) # {}}

\* Claims cited by one opportunity: some in support, and perhaps the one
\* that contradicts it.
Citations(context, new) ==
  LET doubts == {c \in OfKind(context, "claim") :
                   /\ context.nodes[c].against
                   /\ \/ context.operation = "regenerate_stale"
                      \/ c \in context.selected}
  IN  {cited \cup doubt :
         cited \in {S \in SUBSET (Citable(context) \cup new) :
                      S # {} /\ Cardinality(S) <= MaxEvidence},
         doubt \in {{}} \cup {{c} : c \in doubts}}

\* Opportunities and the family of each; replaced is what they replace.
Families(run, ids, citations, replaced) ==
  LET others == {<<run, kind, id>> :
                   kind \in FamilyKinds \ {"opportunity"}, id \in ids}
  IN  {[id \in ids \cup others |->
          IF id \in ids THEN Entry("opportunity", cited[id], replaced[id])
          ELSE Entry(id[2], {id[3]}, NoNode)] : cited \in [ids -> citations]}

\* Claims and the source of each; every new source is found for all the
\* strategies researched.
Researched(run, claims, strategies, replaced) ==
  LET Source(id) == <<run, "source", id>>
      sources == {Source(id) : id \in claims}
  IN  [id \in claims \cup sources |->
         IF id \in claims THEN Entry("claim", {Source(id)}, replaced[id])
         ELSE Entry("source", strategies, NoNode)]

\* The nodes a regeneration may add: a successor for every unit; a claim is
\* researched for one of its strategies, or for that one's replacement.
Regenerated(context, run) ==
  LET strategies == UnitsOf(context, {"strategy"})
      claims == UnitsOf(context, {"claim"})
      opportunities == UnitsOf(context, FamilyKinds)
      Replacement(s) == IF s \in strategies THEN Successor(run, s) ELSE s
      plans == {plan \in [claims -> {Replacement(s) : s \in OfKind(context, "strategy")}] :
                  \A u \in claims :
                    \E s \in Ancestors(context, u, "strategy") :
                      plan[u] = Replacement(s)}
      renewed == [id \in {Successor(run, u) : u \in strategies} |->
                    Entry("strategy", Ancestors(context, id[3], "goal"), id[3])]
      Successors(units) == {Successor(run, u) : u \in units}
      Replaced(units) == [id \in Successors(units) |-> id[3]]
      Evidenced(plan) ==
        Researched(run, Successors(claims), {plan[u] : u \in claims},
                   Replaced(claims))
  IN  {Joined(renewed, Joined(Evidenced(plan), families)) :
         plan \in plans,
         families \in Families(run, Successors(opportunities),
                               Citations(context, Successors(claims)),
                               Replaced(opportunities))}

Planned(context, run) ==
  CASE context.operation = "generate_strategies" ->
         {[id \in {<<run, "strategy", i>> : i \in 1..Proposals} |->
             Entry("strategy", context.selected \cap OfKind(context, "goal"), NoNode)]}
    [] context.operation = "research_evidence" ->
         LET claim == <<run, "claim", 1>> IN
         {Researched(run, {claim}, context.selected, [id \in {claim} |-> NoNode])}
    [] context.operation = "synthesize_opportunities" ->
         LET ids == {<<run, "opportunity", i>> : i \in 1..Proposals} IN
         Families(run, ids, Citations(context, {}), [id \in ids |-> NoNode])
    [] context.operation = "regenerate_stale" -> Regenerated(context, run)

\* Clones are chosen freely among the branch constraints in the context.
Drafts(context, run) ==
  {[nodes |-> nodes, clones |-> clones] :
     nodes \in Planned(context, run),
     clones \in SUBSET ({c \in OfKind(context, "constraint") :
                           context.nodes[c].root # NoNode} \X context.units)}

------------------------------------------------------------------------------
(* The operations of a patch                                                *)

\* The edges that carry the provenance of a new node, as <<source, target,
\* kind>>; a successor is also tied to what it replaces.
EdgesOf(context, id, entry) ==
  LET Doubt(p) == p \in DOMAIN context.nodes /\ context.nodes[p].against
      Carried(p) ==
        CASE entry.kind = "claim" -> <<id, p, "extracted_from">>
          [] entry.kind = "strategy" -> <<p, id, "evolves_into">>
          [] entry.kind \in {"source", "assumption", "risk"} ->
               <<p, id, "derived_from">>
          [] entry.kind = "experiment" -> <<p, id, "requires_validation">>
          [] entry.kind = "opportunity" ->
               <<p, id, IF Doubt(p) THEN "contradicts" ELSE "supports">>
  IN  {Carried(p) : p \in entry.parents}
        \cup (IF entry.replaces = NoNode THEN {}
              ELSE {<<entry.replaces, id, "evolves_into">>})

EdgeId(run, edge) == <<run, "edge", edge[1], edge[2], edge[3]>>

Clone(run, c, unit) == <<run, "clone", c, unit>>

\* "needs" is depends_on: the operations that add what this one refers to.
NodeOp(entry, local) ==
  [adds |-> "node", kind |-> entry.kind, root |-> NoNode, pinned |-> FALSE,
   text |-> "generated", from |-> entry.replaces, parents |-> entry.parents,
   needs |-> entry.parents \cap local]

EdgeOp(id, local) ==
  LET source == id[3]
      target == id[4]
  IN  [adds |-> "edge", source |-> source, target |-> target, kind |-> id[5],
       needs |-> {source, target} \cap local]

\* A clone also needs the lineage of the successor it is rooted at.
CloneOp(context, run, c, unit) ==
  LET new == Successor(run, unit)
  IN  [adds |-> "node", kind |-> "constraint", root |-> new,
       pinned |-> context.nodes[c].pinned, text |-> context.nodes[c].text,
       from |-> NoNode, parents |-> {c},
       needs |-> {new, EdgeId(run, <<unit, new, "evolves_into">>)}]

\* Operations are known by the entity they add.
Ops(context, run, draft) ==
  LET local == DOMAIN draft.nodes
      edges == UNION {EdgesOf(context, id, draft.nodes[id]) : id \in local}
      EdgeIds == {EdgeId(run, e) : e \in edges}
      CloneIds == {Clone(run, c[1], c[2]) : c \in draft.clones}
  IN  [id \in local \cup EdgeIds \cup CloneIds |->
         IF id \in local THEN NodeOp(draft.nodes[id], local)
         ELSE IF id \in EdgeIds THEN EdgeOp(id, local)
         ELSE CloneOp(context, run, id[3], id[4])]

\* Rounds of operations whose needs the rounds before have met.
InOrder(ops, ids) ==
  Drawn(ids, [rest \in SUBSET ids |->
                {o \in rest : ops[o].needs \cap rest = {}}])

------------------------------------------------------------------------------
(* The contract                                                             *)

\* PatchOperationCandidate: what an operation may look like.
Shaped(context, ops, o) ==
  LET ids == DOMAIN context.nodes \cup DOMAIN ops
      needs == SUBSET (DOMAIN ops)
  IN  \/ /\ ops[o] \in [adds : {"node"}, kind : NodeKinds, root : ids \cup {NoNode},
                          pinned : BOOLEAN, text : Texts, from : ids \cup {NoNode},
                          parents : SUBSET ids, needs : needs]
         /\ ops[o].root # NoNode => ops[o].kind = "constraint"
      \/ ops[o] \in [adds : {"edge"}, source : ids, target : ids,
                      kind : EdgeKinds, needs : needs]

References(op) ==
  IF op.adds = "edge" THEN {op.source, op.target}
  ELSE op.parents \cup ({op.root} \ {NoNode})

\* validate_dependency_graph of a patch with finitely many operations: what
\* an operation refers to is in the context or is a node that an operation
\* it needs adds, and no operation needs itself.  The names of the stages
\* are none of the context's.
WellFormed(context, ops) ==
  /\ IsFiniteSet(DOMAIN ops)
  /\ DOMAIN ops \cap DOMAIN context.nodes = {}
  /\ \A o \in DOMAIN ops :
       /\ Shaped(context, ops, o)
       /\ \A n \in References(ops[o]) \ DOMAIN context.nodes :
            n \in ops[o].needs /\ ops[n].adds = "node"
  /\ ToSet(InOrder(ops, DOMAIN ops)) = DOMAIN ops

AllowedKinds(context) ==
  CASE context.operation = "generate_strategies" -> {"strategy"}
    [] context.operation = "research_evidence" -> {"source", "claim"}
    [] context.operation = "synthesize_opportunities" -> FamilyKinds
    [] context.operation = "regenerate_stale" ->
         {"constraint"} \cup
           UNION {CASE context.nodes[u].kind = "strategy" -> {"strategy"}
                    [] context.nodes[u].kind = "claim" -> {"source", "claim"}
                    [] OTHER -> FamilyKinds : u \in context.units}

ParentKind ==
  [strategy |-> "goal", source |-> "strategy", claim |-> "source",
   opportunity |-> "claim", assumption |-> "opportunity",
   risk |-> "opportunity", experiment |-> "opportunity"]

KindIn(context, draft, n) ==
  IF n \in DOMAIN draft.nodes THEN draft.nodes[n].kind ELSE context.nodes[n].kind

\* The production units nearest to the root of an anchored constraint, on
\* the edges of the frozen context.
ClosestUnits(context, c) ==
  LET distance == Distances(Links(context), {context.nodes[c].root})
      reached == context.units \cap DOMAIN distance
  IN  {u \in reached : \A v \in reached : distance[u] <= distance[v]}

\* parallel_constraint_clone_specs
CloneSpecs(context) ==
  UNION {{c} \X ClosestUnits(context, c) : c \in context.anchors}

\* _validate_patch_output
Contract(context, run, draft) ==
  /\ \A id \in DOMAIN draft.nodes :
       LET entry == draft.nodes[id] IN
       /\ entry.kind \in AllowedKinds(context) \cap DOMAIN ParentKind
       /\ \E p \in entry.parents :
            KindIn(context, draft, p) = ParentKind[entry.kind]
  /\ context.operation = "regenerate_stale" =>
       /\ \A u \in context.units :
            /\ Successor(run, u) \in DOMAIN draft.nodes
            /\ draft.nodes[Successor(run, u)].kind = context.nodes[u].kind
       /\ \A c \in context.anchors : ClosestUnits(context, c) # {}
       /\ draft.clones = CloneSpecs(context)
=============================================================================
