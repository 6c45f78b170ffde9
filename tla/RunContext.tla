----------------------------- MODULE RunContext -----------------------------
(***************************************************************************)
(* What a generation run may be asked for, and the part of the graph it is *)
(* given: the checks on an explicit selection, the workset of a            *)
(* regeneration, the mandatory nodes and the tiers of optional ones that   *)
(* fit the token budget of the model.  A run request is                    *)
(*                                                                         *)
(*   [operation, selected (node ids), versions (of the selected nodes, as  *)
(*    the client saw them), scope].                                        *)
(***************************************************************************)
EXTENDS CanvasGraph

CONSTANTS
  Tokens,          \* tokens of a node's semantic form, by kind
  EdgeTokens,      \* tokens of an edge
  EnvelopeTokens,  \* tokens of the rest of the serialized request
  HardLimit,       \* MODEL_INPUT_LIMIT
  ResponseBudget,  \* MODEL_RESPONSE_BUDGET
  FixedReserve     \* FIXED_SERIALIZATION_RESERVE

ASSUME ContextAssumption ==
  /\ Tokens \in [NodeKinds -> Nat]
  /\ {EdgeTokens, EnvelopeTokens, HardLimit, ResponseBudget, FixedReserve}
       \subseteq Nat
  /\ HardLimit > ResponseBudget + FixedReserve

Operations == {"generate_strategies", "research_evidence",
               "synthesize_opportunities", "regenerate_stale"}

Applied(node) == node.review # "rejected" /\ (node.made => node.review = "accepted")

InContext(node) == Applied(node) /\ ~Stale(node)

\* validate_explicit_selection
Selectable(graph, q) ==
  LET OfKind(kind) == {n \in q.selected : graph.nodes[n].kind = kind}
  IN  /\ q.selected \subseteq DOMAIN graph.nodes
      /\ \A n \in q.selected : graph.nodes[n].version = q.versions[n]
      /\ q.operation # "regenerate_stale" =>
           \A n \in q.selected : InContext(graph.nodes[n])
      /\ CASE q.operation = "generate_strategies" ->
                /\ Cardinality(OfKind("goal")) = 1
                /\ OfKind("constraint") # {}
                /\ q.selected = OfKind("goal") \cup OfKind("constraint")
                /\ \A n \in q.selected : ~graph.nodes[n].made
           [] q.operation = "research_evidence" ->
                Cardinality(q.selected) = 1 /\ q.selected = OfKind("strategy")
           [] q.operation = "synthesize_opportunities" ->
                /\ Cardinality(OfKind("strategy")) = 1
                /\ OfKind("claim") # {}
                /\ q.selected = OfKind("strategy") \cup OfKind("claim")
           [] q.operation = "regenerate_stale" ->
                /\ Cardinality(q.selected) = 1
                /\ \A n \in q.selected :
                     /\ graph.nodes[n].kind \in GeneratedKinds
                     /\ graph.nodes[n].made
                     /\ Applied(graph.nodes[n])
                     /\ Stale(graph.nodes[n])

------------------------------------------------------------------------------
(* Traversal                                                                *)

Relevance ==
  [contradicts |-> 7, extracted_from |-> 6, supports |-> 5, constrained_by |-> 4,
   derived_from |-> 3, evolves_into |-> 2, requires_validation |-> 1]

\* <<ancestor, descendant, relevance>> of every edge.
Links(graph) ==
  {Append(Dependency(graph.edges[e]), Relevance[graph.edges[e].kind]) :
     e \in DOMAIN graph.edges}

Upwards(links) == {<<l[2], l[1], l[3]>> : l \in links}

\* Nearer nodes first, of those at one distance the one reached over the
\* more relevant edge, then the one written last.
Rank(node, n, links, distance) ==
  LET near == {l[3] : l \in {x \in links : /\ x[2] = n /\ x[1] \in DOMAIN distance
                                         /\ distance[x[1]] = distance[n] - 1}}
  IN  1000 * (10 * distance[n] - Max(near \cup {0})) - node.touched

\* The ids in the order of their keys; nodes that tie come in the order of
\* their random ids, which is any order.
Ranked(keys) ==
  Drawn(DOMAIN keys, [rest \in SUBSET DOMAIN keys |->
                        {n \in rest : \A m \in rest : keys[n] <= keys[m]}])

------------------------------------------------------------------------------
(* The workset of a regeneration: production units and their members        *)

FamilyOwners(graph, n) ==
  IF graph.nodes[n].kind = "opportunity" THEN {n}
  ELSE {o \in DOMAIN graph.nodes :
          /\ graph.nodes[o].kind = "opportunity"
          /\ \E e \in DOMAIN graph.edges :
               /\ graph.edges[e].source = o
               /\ graph.edges[e].target = n
               /\ <<graph.nodes[n].kind, graph.edges[e].kind>> \in
                    {<<"assumption", "derived_from">>, <<"risk", "derived_from">>,
                     <<"experiment", "requires_validation">>}}

Unit(graph, n) ==
  IF FamilyOwners(graph, n) = {} THEN n
  ELSE CHOOSE o \in FamilyOwners(graph, n) : TRUE

Members(graph, unit) ==
  IF graph.nodes[unit].kind = "opportunity"
  THEN {n \in DOMAIN graph.nodes :
          FamilyOwners(graph, n) # {} /\ Unit(graph, n) = unit}
  ELSE {unit}

\* The root alone, or every stale generated node below it.
Targets(graph, q) ==
  IF q.scope = "branch"
  THEN {n \in Reachable(Links(graph), q.selected) :
          Stale(graph.nodes[n]) /\ graph.nodes[n].kind \in GeneratedKinds}
  ELSE q.selected

Units(graph, q) ==
  IF q.operation = "regenerate_stale"
  THEN {Unit(graph, n) : n \in Targets(graph, q)}
  ELSE {}

------------------------------------------------------------------------------
(* What must be in the context                                              *)

\* The generated nodes the run is about.
Core(graph, q, units) ==
  IF q.operation = "regenerate_stale"
  THEN UNION {Members(graph, u) : u \in units}
  ELSE {n \in q.selected : graph.nodes[n].kind \in GeneratedKinds}

Pinned(graph) ==
  {c \in DOMAIN graph.nodes :
     /\ graph.nodes[c].kind = "constraint"
     /\ graph.nodes[c].pinned
     /\ InContext(graph.nodes[c])}

\* The pinned branch constraints whose root leads to all of the core.
BranchAnchors(graph, core) ==
  {c \in Pinned(graph) :
     /\ graph.nodes[c].root # NoNode
     /\ core # {}
     /\ core \subseteq Reachable(Links(graph), {graph.nodes[c].root})}

\* The fresh sources of the selected claims.
SelectedSources(graph, q) ==
  {s \in DOMAIN graph.nodes :
     /\ graph.nodes[s].kind = "source"
     /\ InContext(graph.nodes[s])
     /\ \E l \in Links(graph) :
          l[1] = s /\ l[2] \in q.selected /\ graph.nodes[l[2]].kind = "claim"}

Mandatory(graph, q, core) ==
  q.selected \cup core \cup SelectedSources(graph, q)
    \cup {c \in Pinned(graph) : graph.nodes[c].root = NoNode}
    \cup BranchAnchors(graph, core)

------------------------------------------------------------------------------
(* What else fits                                                           *)

SemanticBudget == HardLimit - ResponseBudget - FixedReserve

Share(percent, rest) == Min({(SemanticBudget * percent) \div 100, rest})

Cost(graph, ids) == SumFunction([n \in ids |-> Tokens[graph.nodes[n].kind]])

EdgesAmong(graph, ids) ==
  {e \in DOMAIN graph.edges :
     {graph.edges[e].source, graph.edges[e].target} \subseteq ids}

\* The whole request, without the two reserves.
Size(graph, ids) ==
  Cost(graph, ids) + EnvelopeTokens
    + EdgeTokens * Cardinality(EdgesAmong(graph, ids))

\* The candidates that fit the cap, taken in their order.
Pack(graph, candidates, cap) ==
  LET taken[i \in 0..Len(candidates)] ==
        IF i = 0 THEN <<>>
        ELSE LET before == taken[i - 1]
                 left == cap - Cost(graph, ToSet(before))
             IN  IF Tokens[graph.nodes[candidates[i]].kind] <= left
                 THEN Append(before, candidates[i]) ELSE before
  IN  taken[Len(candidates)]

\* Sources of a claim that are themselves in order; a source supports itself.
\* What the metadata of a claim without any says of its support is left out.
IndependentSupport(graph, n) ==
  IF graph.nodes[n].kind = "claim"
  THEN Cardinality({s \in SourcesOf(graph, n) : InContext(graph.nodes[s])})
  ELSE 1

\* The nodes that may be optional: a new strategy takes none.
Free(graph, q, mandatory) ==
  IF q.operation = "generate_strategies" THEN {}
  ELSE {n \in DOMAIN graph.nodes \ mandatory : InContext(graph.nodes[n])}

\* Neighbours of the provenance that compare with what is being made.
Related(graph, free, above) ==
  {n \in {l[2] : l \in {x \in Links(graph) : x[1] \in above}} \cap free :
     graph.nodes[n].kind \in {"opportunity", "risk", "assumption"}}

\* The optional nodes of each tier, each in its order, before any is left out.
\* Strength and authority of evidence are taken to be equal.
Tiers(graph, links, free, up, down) ==
  LET above == free \cap DOMAIN up
      below == free \cap DOMAIN down
      evidence == {n \in above \cup below : Evidence(graph, n)}
      against == {n \in evidence : graph.nodes[n].against}
      ByRank(ids, onto, distance) ==
        Ranked([n \in ids |-> Rank(graph.nodes[n], n, onto, distance)])
      BySupport(ids) ==
        Ranked([n \in ids |-> -1000 * IndependentSupport(graph, n)
                                - graph.nodes[n].touched])
      ByRecency(ids) == Ranked([n \in ids |-> -graph.nodes[n].touched])
  IN  [provenance |-> ByRank(above \ evidence, Upwards(links), up),
       against |-> BySupport(against),
       supporting |-> BySupport(evidence \ against),
       descendants |-> ByRank(below \ (evidence \cup above), links, down),
       related |-> ByRecency(Related(graph, free, above) \ (above \cup below))]

\* The optional nodes in the order in which they are packed, in what the
\* mandatory ones leave.  A quarter of the share of evidence is kept for
\* evidence against.
Optional(graph, tiers, total) ==
  LET Used(ids) == Cost(graph, ToSet(ids))
      provenance == Pack(graph, tiers.provenance, Share(20, total))
      afterwards == total - Used(provenance)
      share == Share(20, afterwards)
      against == Pack(graph, tiers.against, share \div 4)
      supporting == Pack(graph, tiers.supporting, share - Used(against))
      left == afterwards - Used(against \o supporting)
      descendants == Pack(graph, tiers.descendants, Share(10, left))
      related == Pack(graph, tiers.related, Share(5, left - Used(descendants)))
  IN  provenance \o against \o supporting \o descendants \o related

\* Seeded fault: only the nodes are counted, not the edges and the envelope.
FittingNodes(graph, mandatory, optional) ==
  IF Cost(graph, mandatory) <= SemanticBudget
  THEN {mandatory \cup ToSet(optional)} ELSE {}

\* The last optional nodes are left out until the request fits; it is none
\* when the mandatory ones alone do not.
Fitting(graph, mandatory, optional) ==
  LET With(k) == mandatory \cup ToSet(SubSeq(optional, 1, k))
      ks == {k \in 0..Len(optional) : Size(graph, With(k)) <= SemanticBudget}
  IN  IF ks = {} THEN {} ELSE {With(Max(ks))}

Included(graph, q, core, mandatory) ==
  Fitting(graph, mandatory,
          Optional(graph,
                   Tiers(graph, Links(graph), Free(graph, q, mandatory),
                         Distances(Upwards(Links(graph)), q.selected \cup core),
                         Distances(Links(graph), q.selected)),
                   SemanticBudget - Cost(graph, mandatory)))

Assembled(graph, q, units, core) ==
  {[operation |-> q.operation,
    scope |-> q.scope,
    selected |-> q.selected,
    revision |-> graph.revision,
    nodes |-> Restrict(graph.nodes, included),
    edges |-> Restrict(graph.edges, EdgesAmong(graph, included)),
    anchors |-> BranchAnchors(graph, core),
    units |-> units,
    members |-> {n \in core : units # {} /\ Stale(graph.nodes[n])}] :
     included \in Included(graph, q, core, Mandatory(graph, q, core))}

Frozen(graph, q, units) == Assembled(graph, q, units, Core(graph, q, units))

\* The contexts build() may freeze for a request: one, or none.
Contexts(graph, q) == Frozen(graph, q, Units(graph, q))
=============================================================================
