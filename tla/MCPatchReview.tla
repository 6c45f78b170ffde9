---------------------------- MODULE MCPatchReview ----------------------------
(***************************************************************************)
(* A small canvas for TLC.  A goal g led to strategy s, it to source o and *)
(* claim k, that to opportunity p with assumption a; claim x stands        *)
(* against p.  Constraint c is pinned at s.  At the start the edge from k  *)
(* to p has just been redrawn, so p and a are stale.                       *)
(***************************************************************************)
EXTENDS PatchReview

CONSTANTS g, c, s, o, k, x, p, a, gs, so, ko, kp, xp, pa

Made(kind) ==
  [FreshNode(kind, 0) EXCEPT !.made = TRUE, !.review = "accepted"]

Expired(node) ==
  [node EXCEPT !.version = 2, !.since = 1, !.causes = {1}, !.touched = 1]

Link(source, target, kind) ==
  [source |-> source, target |-> target, kind |-> kind, version |-> 1]

TheGraph ==
  [nodes |->
     (g :> FreshNode("goal", 0))
       @@ (c :> [FreshNode("constraint", 0) EXCEPT !.pinned = TRUE, !.root = s])
       @@ (s :> Made("strategy"))
       @@ (o :> Made("source"))
       @@ (k :> Made("claim"))
       @@ (x :> [FreshNode("claim", 0) EXCEPT !.against = TRUE])
       @@ (p :> Expired(Made("opportunity")))
       @@ (a :> Expired(Made("assumption"))),
   edges |->
     (gs :> Link(g, s, "evolves_into"))
       @@ (so :> Link(s, o, "derived_from"))
       @@ (ko :> Link(k, o, "extracted_from"))
       @@ (kp :> [Link(k, p, "supports") EXCEPT !.version = 2])
       @@ (xp :> Link(x, p, "contradicts"))
       @@ (pa :> Link(p, a, "derived_from")),
   revision |-> 1]

TheLog == <<[actor |-> 0, key |-> 0]>>

TheDirectRequests ==
  {[op |-> "UPDATE_NODE", node |-> g, changes |-> [text |-> "edited"]],
   [op |-> "PATCH_NODE_METADATA", node |-> c, changes |-> [pinned |-> FALSE]],
   [op |-> "UPDATE_NODE", node |-> c, changes |-> [root |-> p]],
   [op |-> "MOVE_NODE", node |-> p],
   [op |-> "DELETE_EDGE", edge |-> xp],
   [op |-> "DELETE_NODE", node |-> x],
   [op |-> "ADD_NODE", kind |-> "constraint", root |-> p, pinned |-> TRUE],
   [op |-> "ADD_EDGE", source |-> p, target |-> s, kind |-> "supports"],
   [op |-> "UPDATE_EDGE", edge |-> kp, changes |-> [target |-> s]],
   [op |-> "REPLACE_ASSUMPTION", node |-> a],
   [op |-> "REJECT_EVIDENCE", node |-> o],
   [op |-> "REJECT_EVIDENCE", node |-> k]}

TheRunRequests ==
  {[operation |-> "generate_strategies", scope |-> "none", selected |-> {g, c}],
   [operation |-> "research_evidence", scope |-> "none", selected |-> {s}],
   [operation |-> "synthesize_opportunities", scope |-> "none", selected |-> {s, k, x}],
   [operation |-> "regenerate_stale", scope |-> "node", selected |-> {p}],
   [operation |-> "regenerate_stale", scope |-> "branch", selected |-> {s}]}

TheTokens ==
  [kind \in NodeKinds |->
     CASE kind \in {"goal", "strategy", "opportunity"} -> 10
       [] kind = "source" -> 8
       [] kind \in {"constraint", "assumption"} -> 4
       [] OTHER -> 1]
=============================================================================
