-------------------------- MODULE PatchGraphProofs --------------------------
(***************************************************************************)
(* Theorems about the graph under review: for every graph that fits the    *)
(* database, all requests and all bounds, PatchReview keeps the graph      *)
(* consistent, does nothing twice, takes decisions that hold together,     *)
(* gives runs sound contexts, advances versions one at a time and turns    *)
(* stale what depends on a change.                                         *)
(***************************************************************************)
EXTENDS PatchReviewProofs, CanvasGraphProofs

\* What a context holds: nodes that are in order or are to be replaced, no
\* more than fits, and production units for a regeneration alone.
ContextFits(context) ==
  /\ context.operation \in Operations
  /\ context.units \cup context.members \subseteq DOMAIN context.nodes
  /\ context.operation # "regenerate_stale" => context.units = {}
  /\ Size(context, DOMAIN context.nodes) <= SemanticBudget
  /\ \A n \in DOMAIN context.nodes :
       InContext(context.nodes[n]) \/ n \in context.members

RunsFit == \A r \in DOMAIN runs : ContextFits(runs[r].context)

\* A patch is what its run assembled from a draft that met the contract.
Drafted(context, run, ops, draft) ==
  /\ ops = Ops(context, run, draft)
  /\ Contract(context, run, draft)
  /\ context.operation # "regenerate_stale" =>
       \A id \in DOMAIN draft.nodes : draft.nodes[id].replaces = NoNode

PatchesStored ==
  \A p \in DOMAIN patches :
    /\ WellFormed(runs[p].context, patches[p].ops)
    /\ \E draft : Drafted(runs[p].context, p, patches[p].ops, draft)

Accepted(patch) ==
  {o \in DOMAIN patch.decisions : patch.decisions[o] = "accepted"}

PatchesDecided ==
  \A p \in DOMAIN patches :
    /\ patches[p].status \in
         {"pending", "applied", "partially_applied", "rejected"}
    /\ patches[p].linked # Nobody => patches[p].linked \in DOMAIN runs

LogFits ==
  /\ log \in Seq({log[i] : i \in DOMAIN log})
  /\ \A i \in DOMAIN log : log[i].actor \in {User} \cup DOMAIN patches

\* What a node was made to replace was there at the start or regenerated.
FromKnown ==
  \A n \in DOMAIN graph.nodes :
    graph.nodes[n].from \in
      {NoNode} \cup DOMAIN InitialGraph.nodes
        \cup UNION {runs[r].context.units : r \in DOMAIN runs}

\* Strengthens the safety invariants of the runs: inductive.
GraphInv ==
  /\ ReviewInv /\ RunsFit /\ PatchesStored /\ PatchesDecided /\ DecisionsSound
  /\ LogFits /\ OperationsOnce /\ GraphFits(graph) /\ FromKnown

------------------------------------------------------------------------------
(* What the steps do to the graph, the log, the runs and the patches.       *)

Still == UNCHANGED <<graph, log, runs, patches>>

\* A direct operation is committed.
Operated ==
  /\ UNCHANGED <<runs, patches>>
  /\ \E key, q, after, id :
       /\ ~Logged(User, key)
       /\ Admitted(q)
       /\ after \in Handle(graph, q, id)
       /\ graph' = Committed(graph, q, after)
       /\ log' = Append(log, [actor |-> User, key |-> key, request |-> q])

\* A run is made for a request, for a pending patch it replaces or for none.
Asking(q, parent) ==
  /\ UNCHANGED <<graph, log>>
  /\ q.operation \in Operations
  /\ Selectable(graph, q)
  /\ \E key : \E context \in Contexts(graph, q) :
       runs' = Append(runs, NewRun(key, context, parent))

Replacing(p) ==
  /\ p \in held /\ Pending(p)
  /\ patches' = [patches EXCEPT
                   ![p] = [Decided(@, {}, {}) EXCEPT !.linked = Len(runs) + 1]]

\* A patch is stored.
Storing(r) ==
  /\ UNCHANGED <<graph, log, runs>>
  /\ r \in DOMAIN runs \ DOMAIN patches
  /\ \E ops :
       /\ WellFormed(runs[r].context, ops)
       /\ \E draft \in Drafts(runs[r].context, r) :
            /\ ops = Ops(runs[r].context, r, draft)
            /\ Contract(runs[r].context, r, draft)
       /\ patches' = Inserted(patches, r,
            [ops |-> ops, status |-> "pending", decisions |-> <<>>,
             linked |-> Nobody])

\* A patch is rejected.
Dismissed(p) ==
  /\ UNCHANGED <<graph, log, runs>>
  /\ p \in held /\ Pending(p)
  /\ patches' = [patches EXCEPT ![p] = Decided(@, {}, {})]

\* Operations of a patch are applied.
Applying(p) ==
  /\ p \in held
  /\ \E selected \in SUBSET DOMAIN patches[p].ops : Apply(p, selected)

Cleared ==
  /\ graph' = [nodes |-> <<>>, edges |-> <<>>, revision |-> 0]
  /\ log' = <<>> /\ runs' = <<>> /\ patches' = <<>>

LEMMA RequestOf ==
  ASSUME NEW request \in DirectRequests, NEW version
  PROVE  Admitted(Joined(request, [version |-> version]))
<1> DEFINE q == Joined(request, [version |-> version])
<1> SUFFICES Admitted(q)
  OBVIOUS
<1>1. Admitted(request) /\ "version" \notin DOMAIN request
  BY RequestAssumption
<1>2. /\ DOMAIN q = DOMAIN request \cup {"version"}
      /\ \A f \in DOMAIN request : q[f] = request[f]
  BY JoinedIs
<1> HIDE DEF q
<1>3. q.op = request.op /\ "op" \in DOMAIN q
  BY <1>1, <1>2 DEF Admitted
<1>4. CASE request.op = "ADD_NODE"
  <2>1. {"kind", "root", "pinned"} \subseteq DOMAIN request
    BY <1>1, <1>4 DEF Admitted
  <2>2. q.kind = request.kind /\ q.root = request.root /\ q.pinned = request.pinned
    BY <1>2, <2>1
  <2>3. QED  BY <1>1, <1>2, <1>3, <1>4, <2>1, <2>2 DEF Admitted
<1>5. CASE request.op \in {"UPDATE_NODE", "PATCH_NODE_METADATA"}
  <2>1. {"node", "changes"} \subseteq DOMAIN request
    BY <1>1, <1>5 DEF Admitted
  <2>2. q.node = request.node /\ q.changes = request.changes
    BY <1>2, <2>1
  <2>3. QED  BY <1>1, <1>2, <1>3, <1>5, <2>1, <2>2 DEF Admitted
<1>6. CASE request.op \in {"MOVE_NODE", "DELETE_NODE", "REPLACE_ASSUMPTION",
                           "REJECT_EVIDENCE"}
  <2>1. {"node"} \subseteq DOMAIN request
    BY <1>1, <1>6 DEF Admitted
  <2>2. q.node = request.node
    BY <1>2, <2>1
  <2>3. QED  BY <1>1, <1>2, <1>3, <1>6, <2>1, <2>2 DEF Admitted
<1>7. CASE request.op = "ADD_EDGE"
  <2>1. {"source", "target", "kind"} \subseteq DOMAIN request
    BY <1>1, <1>7 DEF Admitted
  <2>2. q.source = request.source /\ q.target = request.target /\ q.kind = request.kind
    BY <1>2, <2>1
  <2>3. QED  BY <1>1, <1>2, <1>3, <1>7, <2>1, <2>2 DEF Admitted
<1>8. CASE request.op = "UPDATE_EDGE"
  <2>1. {"edge", "changes"} \subseteq DOMAIN request
    BY <1>1, <1>8 DEF Admitted
  <2>2. q.edge = request.edge /\ q.changes = request.changes
    BY <1>2, <2>1
  <2>3. QED  BY <1>1, <1>2, <1>3, <1>8, <2>1, <2>2 DEF Admitted
<1>9. CASE request.op = "DELETE_EDGE"
  <2>1. {"edge"} \subseteq DOMAIN request
    BY <1>1, <1>9 DEF Admitted
  <2>2. q.edge = request.edge
    BY <1>2, <2>1
  <2>3. QED  BY <1>1, <1>2, <1>3, <1>9, <2>1, <2>2 DEF Admitted
<1>10. QED
  BY <1>1, <1>4, <1>5, <1>6, <1>7, <1>8, <1>9 DEF Admitted

\* Every step is one of these.
LEMMA Transitions ==
  ASSUME RunsFit, ReviewInv, [Next]_vars
  PROVE  \/ Still
         \/ Operated
         \/ UNCHANGED patches /\ \E q : Asking(q, Nobody)
         \/ \E p : Replacing(p) /\ \E q : Asking(q, p)
         \/ \E r : Storing(r)
         \/ \E p : Dismissed(p)
         \/ \E p : Applying(p)
         \/ Cleared
<1>1. ASSUME NEW key \in OperationKeys, NEW request \in DirectRequests,
             Direct(key, request)
      PROVE  Operated
  <2>1. /\ ~Logged(User, key) /\ UNCHANGED <<runs, patches>>
        /\ \E version \in SeenVersions(request) :
             LET q == Joined(request, [version |-> version]) IN
             \E after \in Handle(graph, q, <<key, request.op>>) :
               /\ graph' = Committed(graph, q, after)
               /\ log' = Append(log, [actor |-> User, key |-> key, request |-> q])
    BY <1>1 DEF Direct
  <2>2. QED  BY <2>1, RequestOf DEF Operated
<1>2. ASSUME NEW key \in RunKeys, NEW request \in RunRequests,
             CreateRun(key, request)
      PROVE  UNCHANGED patches /\ \E q : Asking(q, Nobody)
  <2>1. PICK versions :
          LET q == Joined(request, [versions |-> versions]) IN
          /\ Selectable(graph, q)
          /\ \E context \in Contexts(graph, q) :
               runs' = Append(runs, NewRun(key, context, Nobody))
    BY <1>2 DEF CreateRun
  <2> DEFINE q == Joined(request, [versions |-> versions])
  <2>2. q.operation \in Operations
    <3>1. request.operation \in Operations /\ "operation" \in DOMAIN request
      BY RequestAssumption
    <3>2. \A f \in DOMAIN request : q[f] = request[f]
      BY JoinedIs
    <3> HIDE DEF q
    <3>3. QED  BY <3>1, <3>2
  <2>3. UNCHANGED <<graph, log, patches>>
    BY <1>2 DEF CreateRun
  <2>4. Asking(q, Nobody)
    BY <2>1, <2>2, <2>3 DEF Asking
  <2>5. QED  BY <2>3, <2>4
<1>3. ASSUME NEW r \in DOMAIN runs, DeliverPatch(r)
      PROVE  Storing(r)
  <2>1. /\ UNCHANGED <<graph, log, runs>>
        /\ r \in DOMAIN runs \ DOMAIN patches
        /\ \E draft \in Drafts(runs[r].context, r) :
             LET ops == Ops(runs[r].context, r, draft) IN
             /\ WellFormed(runs[r].context, ops)
             /\ Contract(runs[r].context, r, draft)
             /\ patches' = Inserted(patches, r,
                  [ops |-> ops, status |-> "pending", decisions |-> <<>>,
                   linked |-> Nobody])
    BY <1>3 DEF DeliverPatch
  <2>2. QED  BY <2>1 DEF Storing
<1>4. ASSUME NEW p \in held, NEW key \in RunKeys, Regenerate(p, key)
      PROVE  Replacing(p) /\ \E q : Asking(q, p)
  <2> DEFINE was == runs[p].context
             q == [operation |-> was.operation, scope |-> was.scope,
                   selected |-> was.selected,
                   versions |-> [n \in was.selected |-> graph.nodes[n].version]]
  <2>1. /\ UNCHANGED <<graph, log>> /\ Selectable(graph, q)
        /\ \E context \in Contexts(graph, q) :
             runs' = Append(runs, NewRun(key, context, p))
    BY <1>4 DEF Regenerate
  <2>2. Replacing(p)
    BY <1>4 DEF Regenerate, Replacing
  <2>3. q.operation = was.operation /\ was.operation \in Operations
    BY DEF RunsFit, ContextFits, ReviewInv, PatchesFit
  <2> HIDE DEF q
  <2>4. Asking(q, p)
    BY <2>1, <2>3 DEF Asking
  <2>5. QED  BY <2>2, <2>4
<1>5. ASSUME NEW p \in held, Reject(p)
      PROVE  Dismissed(p)
  BY <1>5 DEF Reject, Dismissed
<1>6. ASSUME NEW p \in held, NEW selected \in Selections(patches[p].ops),
             Apply(p, selected)
      PROVE  Applying(p)
  <2>1. selected \in SUBSET DOMAIN patches[p].ops
    BY DEF Selections
  <2>2. QED  BY <1>6, <2>1 DEF Applying
<1>7. ASSUME \/ \E p \in DOMAIN patches : LockPatch(p)
             \/ \E p \in held : Refuse(p)
             \/ StartDeletion \/ BreakDeadlock \/ UNCHANGED vars
      PROVE  Still
  BY <1>7 DEF LockPatch, Refuse, StartDeletion, BreakDeadlock, vars, Still
<1>8. ASSUME FinishDeletion
      PROVE  Cleared
  BY <1>8 DEF FinishDeletion, Cleared
<1>9. QED
  BY <1>1, <1>2, <1>3, <1>4, <1>5, <1>6, <1>7, <1>8 DEF Next, Review

------------------------------------------------------------------------------
(* Decisions.                                                               *)

PatchFields == {"ops", "status", "decisions", "linked"}

LEMMA DecidedIs ==
  ASSUME NEW patch, NEW accepted, NEW skipped, DOMAIN patch = PatchFields
  PROVE  LET d == Decided(patch, accepted, skipped) IN
         /\ DOMAIN d = PatchFields
         /\ d.ops = patch.ops /\ d.linked = patch.linked
         /\ d.status \in {"applied", "partially_applied", "rejected"}
         /\ d.status = "rejected" <=> accepted = {}
         /\ DOMAIN d.decisions = DOMAIN patch.ops
         /\ Accepted(d) = accepted \cap DOMAIN patch.ops
<1> DEFINE x == [o \in DOMAIN patch.ops |->
                      IF o \in accepted THEN "accepted"
                      ELSE IF o \in skipped THEN "skipped" ELSE "rejected"]
           s == IF accepted = {} THEN "rejected"
                ELSE IF accepted = DOMAIN patch.ops THEN "applied"
                ELSE "partially_applied"
           d == Decided(patch, accepted, skipped)
<1>1. /\ s \in {"applied", "partially_applied", "rejected"}
      /\ s = "rejected" <=> accepted = {}
  OBVIOUS
<1>2. /\ DOMAIN x = DOMAIN patch.ops
      /\ {o \in DOMAIN x : x[o] = "accepted"} = accepted \cap DOMAIN patch.ops
  OBVIOUS
<1>3. d = [patch EXCEPT !.decisions = x, !.status = s]
  BY Zenon DEF Decided
<1> HIDE DEF x, s, d
<1>4. /\ DOMAIN d = PatchFields
      /\ d.ops = patch.ops /\ d.linked = patch.linked
      /\ d.status = s /\ d.decisions = x
  BY <1>3 DEF PatchFields
<1>5. Accepted(d) = accepted \cap DOMAIN patch.ops
  BY <1>2, <1>4 DEF Accepted
<1>6. QED  BY <1>1, <1>2, <1>4, <1>5 DEF d

\* A rejection accepts nothing, with a run to replace the patch or without.
LEMMA RejectedIs ==
  ASSUME NEW patch, DOMAIN patch = PatchFields, NEW run
  PROVE  LET d == Decided(patch, {}, {})
             e == [d EXCEPT !.linked = run]
         IN  /\ DOMAIN d = PatchFields /\ DOMAIN e = PatchFields
             /\ d.ops = patch.ops /\ e.ops = patch.ops
             /\ d.status = "rejected" /\ e.status = "rejected"
             /\ DOMAIN d.decisions = DOMAIN patch.ops
             /\ e.decisions = d.decisions
             /\ Accepted(d) = {} /\ Accepted(e) = {}
             /\ d.linked = patch.linked /\ e.linked = run
<1> DEFINE d == Decided(patch, {}, {})
           e == [d EXCEPT !.linked = run]
<1>1. /\ DOMAIN d = PatchFields
      /\ d.ops = patch.ops /\ d.linked = patch.linked
      /\ d.status = "rejected"
      /\ DOMAIN d.decisions = DOMAIN patch.ops
      /\ Accepted(d) = {}
  BY DecidedIs
<1> HIDE DEF d
<1>2. /\ DOMAIN e = PatchFields /\ e.ops = d.ops /\ e.status = d.status
      /\ e.decisions = d.decisions /\ e.linked = run
  BY <1>1 DEF PatchFields
<1> HIDE DEF e
<1>3. Accepted(e) = {}
  BY <1>1, <1>2 DEF Accepted
<1>4. QED  BY <1>1, <1>2, <1>3 DEF d, e

\* What a run keeps when another is made.
LEMMA RunsGrow ==
  ASSUME ReviewInv, NEW q, NEW parent, Asking(q, parent)
  PROVE  LET n == Len(runs) + 1 IN
         /\ n \notin DOMAIN runs /\ n # Nobody
         /\ DOMAIN runs' = DOMAIN runs \cup {n}
         /\ \A r \in DOMAIN runs : runs'[r] = runs[r]
         /\ runs'[n].parent = parent
         /\ runs'[n].context \in Contexts(graph, q)
<1> DEFINE n == Len(runs) + 1
<1>0. PICK key : \E context \in Contexts(graph, q) :
        runs' = Append(runs, NewRun(key, context, parent))
  BY DEF Asking
<1>1. PICK context \in Contexts(graph, q) :
        runs' = Append(runs, NewRun(key, context, parent))
  BY <1>0
<1>2. runs \in Seq({runs[r] : r \in DOMAIN runs})
  BY DEF ReviewInv, PatchesFit
<1>3. /\ DOMAIN runs = 1..Len(runs) /\ Len(runs) \in Nat
      /\ DOMAIN runs' = 1..n
      /\ \A i \in DOMAIN runs : runs'[i] = runs[i]
      /\ runs'[n] = NewRun(key, context, parent)
  BY <1>1, <1>2, Grows
<1>4. DOMAIN runs' = DOMAIN runs \cup {n} /\ n \notin DOMAIN runs /\ n # Nobody
  BY <1>3 DEF Nobody
<1>5. runs'[n].parent = parent /\ runs'[n].context = context
  BY <1>3 DEF NewRun
<1>6. QED  BY <1>3, <1>4, <1>5

\* Patches are known by runs, and no run is the user or nobody.
LEMMA PatchesAreRuns ==
  ASSUME ReviewInv
  PROVE  /\ DOMAIN patches \subseteq DOMAIN runs
         /\ User \notin DOMAIN runs /\ Nobody \notin DOMAIN runs
         /\ \A p \in held : p \in DOMAIN patches
         /\ \A p \in DOMAIN patches : DOMAIN patches[p] = PatchFields
<1>1. DOMAIN runs = 1..Len(runs)
  BY Grows DEF ReviewInv, PatchesFit
<1>2. QED  BY <1>1 DEF ReviewInv, PatchesFit, User, Nobody, PatchFields

------------------------------------------------------------------------------
(* The order of the operations of a patch.                                  *)

\* The operations to apply come in an order, each once.
LEMMA InOrderOnce ==
  ASSUME NEW context, NEW ops, WellFormed(context, ops),
         NEW ids \in SUBSET DOMAIN ops
  PROVE  /\ InOrder(ops, ids) \in Seq(ids)
         /\ IsInjective(InOrder(ops, ids))
         /\ ToSet(InOrder(ops, ids)) = ids
<1> DEFINE all == DOMAIN ops
           first(S) == [rest \in SUBSET S |->
                          {o \in rest : ops[o].needs \cap rest = {}}]
<1>1. IsFiniteSet(all) /\ ToSet(InOrder(ops, all)) = all
  BY DEF WellFormed
<1>2. IsFiniteSet(ids)
  BY <1>1, FS_Subset
<1>3. ASSUME NEW S, NEW rest \in SUBSET S
      PROVE  /\ first(S)[rest] = {o \in rest : ops[o].needs \cap rest = {}}
             /\ first(S)[rest] \subseteq rest
  OBVIOUS
<1>4. InOrder(ops, all) = Drawn(all, first(all))
  BY DEF InOrder
<1>5. InOrder(ops, ids) = Drawn(ids, first(ids))
  BY DEF InOrder
<1> HIDE DEF first
<1>6. ASSUME NEW rest \in SUBSET ids, rest # {}
      PROVE  first(ids)[rest] # {}
  <2> SUFFICES ASSUME first(ids)[rest] = {} PROVE FALSE
    OBVIOUS
  <2>1. \A o \in rest : ops[o].needs \cap rest # {}
    BY <1>3
  <2>2. rest \in SUBSET all
    OBVIOUS
  <2>3. ASSUME NEW more \in SUBSET all, rest \subseteq more
        PROVE  first(all)[more] \cap rest = {}
    <3>1. first(all)[more] = {o \in more : ops[o].needs \cap more = {}}
      BY <1>3
    <3>2. QED  BY <2>1, <2>3, <3>1
  <2>4. ToSet(Drawn(all, first(all))) \cap rest = {}
    <3>1. \A r \in SUBSET all : first(all)[r] \subseteq r
      BY <1>3
    <3>2. QED  BY <1>1, <2>2, <2>3, <3>1, DrawnOnce
  <2>5. QED  BY <1>1, <1>4, <1>6, <2>2, <2>4
<1>7. QED
  <2>1. \A rest \in SUBSET ids : first(ids)[rest] \subseteq rest
    BY <1>3
  <2>2. \A rest \in SUBSET ids : rest # {} => first(ids)[rest] # {}
    BY <1>6
  <2> DEFINE list == Drawn(ids, first(ids))
  <2>3. list \in Seq(ids) /\ IsInjective(list)
    BY <1>2, <2>1, DrawnOnce
  <2>4. ToSet(list) = ids
    <3> DEFINE F == first(ids)
    <3>1. /\ \A rest \in SUBSET ids : F[rest] \subseteq rest
          /\ \A rest \in SUBSET ids : rest # {} => F[rest] # {}
      BY <2>1, <2>2
    <3> HIDE DEF F
    <3>2. ToSet(Drawn(ids, F)) = ids
      BY <1>2, <3>1, DrawnOnce
    <3>3. QED  BY <3>2 DEF F
  <2>5. QED  BY <1>5, <2>3, <2>4

------------------------------------------------------------------------------
(* The log.                                                                 *)

KeysOf(p) == {log[i].key : i \in {j \in DOMAIN log : log[j].actor = p}}

LogInv == LogFits /\ OperationsOnce

\* A log that stays, beside patches that accepted what they had accepted.
LEMMA LogStays ==
  ASSUME LogInv, UNCHANGED <<graph, log>>, DOMAIN patches \subseteq DOMAIN patches',
         \A p \in DOMAIN patches : Accepted(patches'[p]) = Accepted(patches[p]),
         \A p \in DOMAIN patches' \ DOMAIN patches :
           Accepted(patches'[p]) = {} /\ p # User
  PROVE  LogInv'
<1>1. LogFits'
  BY DEF LogInv, LogFits
<1>2. ASSUME NEW p \in DOMAIN patches'
      PROVE  KeysOf(p)' = Accepted(patches'[p])
  <2>1. KeysOf(p)' = KeysOf(p)
    BY DEF KeysOf
  <2>2. CASE p \in DOMAIN patches
    <3>1. KeysOf(p) = Accepted(patches[p])
      BY <2>2 DEF LogInv, OperationsOnce, KeysOf, Accepted
    <3>2. QED  BY <2>1, <2>2, <3>1
  <2>3. CASE p \notin DOMAIN patches
    <3>1. \A i \in DOMAIN log : log[i].actor # p
      BY <2>3 DEF LogInv, LogFits
    <3>2. KeysOf(p) = {}
      BY <3>1 DEF KeysOf
    <3>3. QED  BY <1>2, <2>1, <2>3, <3>2
  <2>4. QED  BY <2>2, <2>3
<1>3. OperationsOnce'
  BY <1>2 DEF LogInv, OperationsOnce, KeysOf, Accepted
<1>4. QED  BY <1>1, <1>3 DEF LogInv

\* Sequences that are joined keep their elements.
LEMMA Joins ==
  ASSUME NEW S, NEW s \in Seq(S), NEW t \in Seq(S)
  PROVE  /\ DOMAIN (s \o t) = 1..(Len(s) + Len(t))
         /\ Len(s \o t) = Len(s) + Len(t)
         /\ \A i \in DOMAIN s : (s \o t)[i] = s[i]
         /\ \A i \in DOMAIN t : (s \o t)[Len(s) + i] = t[i]
<1> DEFINE u == s \o t
<1>1. /\ DOMAIN s = 1..Len(s) /\ Len(s) \in Nat
      /\ DOMAIN t = 1..Len(t) /\ Len(t) \in Nat
      /\ u \in Seq(S) /\ Len(u) = Len(s) + Len(t)
      /\ \A i \in 1..(Len(s) + Len(t)) :
           u[i] = IF i <= Len(s) THEN s[i] ELSE t[i - Len(s)]
  OBVIOUS
<1> HIDE DEF u
<1>2. DOMAIN u = 1..Len(u)
  BY <1>1
<1>3. \A i \in DOMAIN s : u[i] = s[i]
  BY <1>1
<1>4. \A i \in DOMAIN t : u[Len(s) + i] = t[i]
  <2> TAKE i \in DOMAIN t
  <2>1. /\ Len(s) + i \in 1..(Len(s) + Len(t)) /\ ~(Len(s) + i <= Len(s))
        /\ (Len(s) + i) - Len(s) = i
    BY <1>1
  <2>2. QED  BY <1>1, <2>1
<1>5. QED  BY <1>1, <1>2, <1>3, <1>4 DEF u

LEMMA InitLog == ASSUME Init PROVE LogInv
<1>1. graph = InitialGraph /\ log = InitialLog /\ patches = <<>>
  BY DEF Init
<1> DEFINE Rows == [actor : {0}, key : {0}]
<1>2. log \in Seq(Rows) /\ \A row \in Rows : row.actor = 0
  BY <1>1, ReviewAssumption
<1> HIDE DEF Rows
<1>3. LogFits
  <2>1. \A i \in DOMAIN log : log[i] \in Rows
    BY <1>2
  <2>2. log \in Seq({log[i] : i \in DOMAIN log})
    BY <1>2
  <2>3. QED  BY <1>2, <2>1, <2>2 DEF LogFits, User
<1>4. OperationsOnce
  BY <1>1, ReviewAssumption DEF OperationsOnce
<1>5. QED  BY <1>3, <1>4 DEF LogInv

\* A direct operation takes a key of its own.
LEMMA OperatedLogs ==
  ASSUME LogInv, ReviewInv, NEW key, NEW q, ~Logged(User, key),
         graph'.revision = graph.revision + 1,
         log' = Append(log, [actor |-> User, key |-> key, request |-> q]),
         UNCHANGED patches
  PROVE  LogInv'
<1> DEFINE row == [actor |-> User, key |-> key, request |-> q]
           n == Len(log) + 1
<1>1. log \in Seq({log[i] : i \in DOMAIN log})
  BY DEF LogInv, LogFits
<1>2. row.actor = User /\ row.key = key
  OBVIOUS
<1> DEFINE long == Append(log, row)
<1> HIDE DEF row
<1>3. log' = long
  BY DEF row
<1>4. /\ DOMAIN log = 1..Len(log) /\ Len(log) \in Nat
      /\ DOMAIN log' = 1..n
      /\ \A i \in DOMAIN log : log'[i] = log[i]
      /\ log'[n] = row
      /\ log' \in Seq({log'[i] : i \in DOMAIN log'})
  <2>1. /\ DOMAIN log = 1..Len(log) /\ Len(log) \in Nat
        /\ DOMAIN long = 1..n
        /\ \A i \in DOMAIN log : long[i] = log[i]
        /\ long[n] = row
        /\ long \in Seq({long[i] : i \in DOMAIN long})
    BY <1>1, Grows
  <2> HIDE DEF long, n
  <2>2. QED  BY <1>3, <2>1
<1>5. DOMAIN log' = DOMAIN log \cup {n} /\ n \notin DOMAIN log
  BY <1>4
<1>6. LogFits'
  BY <1>2, <1>4, <1>5 DEF LogInv, LogFits
<1>7. graph'.revision = Len(log')
  <2>1. Len(log') = n
    BY <1>1, <1>3 DEF long
  <2>2. QED  BY <2>1 DEF LogInv, OperationsOnce
<1>8. ASSUME NEW i \in DOMAIN log', NEW j \in DOMAIN log',
             log'[i].actor = log'[j].actor, log'[i].key = log'[j].key
      PROVE  i = j
  <2>1. \A k \in DOMAIN log : ~(log[k].actor = User /\ log[k].key = key)
    BY DEF Logged
  <2>2. CASE i \in DOMAIN log /\ j \in DOMAIN log
    BY <1>4, <1>8, <2>2 DEF LogInv, OperationsOnce
  <2>3. CASE i = n /\ j = n
    BY <2>3
  <2>4. CASE i = n /\ j \in DOMAIN log
    BY <1>2, <1>4, <1>8, <2>1, <2>4
  <2>5. CASE i \in DOMAIN log /\ j = n
    BY <1>2, <1>4, <1>8, <2>1, <2>5
  <2>6. QED  BY <1>5, <2>2, <2>3, <2>4, <2>5
<1>9. ASSUME NEW p \in DOMAIN patches
      PROVE  KeysOf(p)' = Accepted(patches[p])
  <2>1. p # User
    BY PatchesAreRuns
  <2>2. {j \in DOMAIN log' : log'[j].actor = p} = {j \in DOMAIN log : log[j].actor = p}
    BY <1>2, <1>4, <1>5, <2>1
  <2>3. KeysOf(p)' = KeysOf(p)
    BY <1>4, <2>2 DEF KeysOf
  <2>4. QED  BY <2>3 DEF LogInv, OperationsOnce, KeysOf, Accepted
<1>10. OperationsOnce'
  BY <1>7, <1>8, <1>9 DEF OperationsOnce, KeysOf, Accepted
<1>11. QED  BY <1>6, <1>10 DEF LogInv

\* A patch is applied: it had nothing in the log, and each of its accepted
\* operations comes once.
LEMMA ApplyingLogs ==
  ASSUME LogInv, NEW p \in DOMAIN patches, p # User, Accepted(patches[p]) = {},
         NEW steps, NEW accepted, steps \in Seq(accepted), IsInjective(steps),
         ToSet(steps) = accepted,
         graph'.revision = graph.revision + Len(steps),
         log' = log \o [i \in DOMAIN steps |-> [actor |-> p, key |-> steps[i]]],
         DOMAIN patches' = DOMAIN patches,
         \A r \in DOMAIN patches \ {p} : Accepted(patches'[r]) = Accepted(patches[r]),
         Accepted(patches'[p]) = accepted
  PROVE  LogInv'
<1> DEFINE rows == [i \in DOMAIN steps |-> [actor |-> p, key |-> steps[i]]]
           L == Len(log)
<1>1. /\ log \in Seq({log[i] : i \in DOMAIN log})
      /\ DOMAIN log = 1..L /\ L \in Nat
  BY DEF LogInv, LogFits
<1>2. /\ DOMAIN steps = 1..Len(steps) /\ Len(steps) \in Nat
      /\ \A i \in DOMAIN steps : steps[i] \in accepted
      /\ \A i, j \in DOMAIN steps : steps[i] = steps[j] => i = j
      /\ \A o \in accepted : \E i \in DOMAIN steps : steps[i] = o
  BY DEF IsInjective, ToSet
<1>3. /\ DOMAIN rows = 1..Len(steps)
      /\ \A i \in DOMAIN steps : rows[i].actor = p /\ rows[i].key = steps[i]
      /\ rows \in Seq({rows[i] : i \in DOMAIN rows})
      /\ Len(rows) = Len(steps)
  BY <1>2
<1> HIDE DEF rows
<1>4. log' = log \o rows
  BY DEF rows
<1>5. /\ DOMAIN log' = 1..(L + Len(steps)) /\ Len(log') = L + Len(steps)
      /\ \A i \in DOMAIN log : log'[i] = log[i]
      /\ \A i \in DOMAIN steps : log'[L + i] = rows[i]
      /\ log' \in Seq({log'[i] : i \in DOMAIN log'})
  <2> DEFINE long == log \o rows
  <2>1. /\ DOMAIN long = 1..(L + Len(rows)) /\ Len(long) = L + Len(rows)
        /\ \A i \in DOMAIN log : long[i] = log[i]
        /\ \A i \in DOMAIN rows : long[L + i] = rows[i]
        /\ long \in Seq({long[i] : i \in DOMAIN long})
    <3> DEFINE S == {log[i] : i \in DOMAIN log} \cup {rows[i] : i \in DOMAIN rows}
    <3>1. log \in Seq(S) /\ rows \in Seq(S)
      BY <1>1, <1>3
    <3> HIDE DEF S
    <3>2. DOMAIN long = 1..(L + Len(rows)) /\ Len(long) = L + Len(rows)
      BY <3>1, Joins
    <3>3. \A i \in DOMAIN log : long[i] = log[i]
      BY <3>1, Joins
    <3>4. \A i \in DOMAIN rows : long[L + i] = rows[i]
      BY <3>1, Joins
    <3>5. long \in Seq({long[i] : i \in DOMAIN long})
      <4>1. long \in Seq(S)
        BY <3>1
      <4> HIDE DEF long
      <4>2. QED  BY ONLY <4>1
    <3>6. QED  BY <3>2, <3>3, <3>4, <3>5
  <2> HIDE DEF long, L
  <2>2. log' = long /\ DOMAIN rows = DOMAIN steps /\ Len(rows) = Len(steps)
    BY <1>2, <1>3, <1>4 DEF long
  <2>3. QED  BY <2>1, <2>2
<1>6. ASSUME NEW i \in DOMAIN log', i \notin DOMAIN log
      PROVE  i - L \in DOMAIN steps /\ i = L + (i - L)
  BY <1>1, <1>2, <1>5, <1>6
<1>7. ASSUME NEW i \in DOMAIN log
      PROVE  log[i].actor # p /\ log'[i] = log[i] /\ i \in DOMAIN log'
  <2>1. KeysOf(p) = {}
    BY DEF LogInv, OperationsOnce, KeysOf, Accepted
  <2>2. log[i].actor # p
    BY <2>1 DEF KeysOf
  <2>3. QED  BY <1>1, <1>2, <1>5, <2>2
<1>8. ASSUME NEW i \in DOMAIN log', i \notin DOMAIN log
      PROVE  log'[i].actor = p /\ log'[i].key = steps[i - L]
  BY <1>3, <1>5, <1>6, <1>8
<1>9. LogFits'
  <2>1. \A i \in DOMAIN log' : log'[i].actor \in {User} \cup DOMAIN patches'
    BY <1>7, <1>8 DEF LogInv, LogFits
  <2>2. QED  BY <1>5, <2>1 DEF LogFits
<1>10. graph'.revision = Len(log')
  BY <1>5 DEF LogInv, OperationsOnce
<1>11. ASSUME NEW i \in DOMAIN log', NEW j \in DOMAIN log',
              log'[i].actor = log'[j].actor, log'[i].key = log'[j].key
       PROVE  i = j
  <2>1. CASE i \in DOMAIN log /\ j \in DOMAIN log
    BY <1>7, <1>11, <2>1 DEF LogInv, OperationsOnce
  <2>2. CASE i \notin DOMAIN log /\ j \notin DOMAIN log
    <3>1. steps[i - L] = steps[j - L]
      BY <1>8, <1>11, <2>2
    <3>2. i - L = j - L
      BY <1>2, <1>6, <2>2, <3>1
    <3>3. QED  BY <1>6, <2>2, <3>2
  <2>3. CASE i \in DOMAIN log /\ j \notin DOMAIN log
    BY <1>7, <1>8, <1>11, <2>3
  <2>4. CASE i \notin DOMAIN log /\ j \in DOMAIN log
    BY <1>7, <1>8, <1>11, <2>4
  <2>5. QED  BY <2>1, <2>2, <2>3, <2>4
<1>12. ASSUME NEW r \in DOMAIN patches
       PROVE  KeysOf(r)' = Accepted(patches'[r])
  <2>1. CASE r # p
    <3>1. {j \in DOMAIN log' : log'[j].actor = r} = {j \in DOMAIN log : log[j].actor = r}
      BY <1>7, <1>8, <2>1
    <3>2. KeysOf(r)' = KeysOf(r)
      BY <1>7, <3>1 DEF KeysOf
    <3>3. KeysOf(r) = Accepted(patches[r])
      BY DEF LogInv, OperationsOnce, KeysOf, Accepted
    <3>4. QED  BY <2>1, <3>2, <3>3
  <2>2. CASE r = p
    <3>1. ASSUME NEW k \in KeysOf(r)' PROVE k \in accepted
      <4>1. PICK i \in DOMAIN log' : log'[i].actor = p /\ log'[i].key = k
        BY <2>2, <3>1 DEF KeysOf
      <4>2. i \notin DOMAIN log
        BY <1>7, <4>1
      <4>3. QED  BY <1>2, <1>6, <1>8, <4>1, <4>2
    <3>2. ASSUME NEW o \in accepted PROVE o \in KeysOf(r)'
      <4>1. PICK i \in DOMAIN steps : steps[i] = o
        BY <1>2
      <4>2. L + i \in DOMAIN log'
        BY <1>1, <1>2, <1>5
      <4>3. log'[L + i] = rows[i] /\ rows[i].actor = p /\ rows[i].key = o
        BY <1>3, <1>5, <4>1
      <4>4. QED  BY <2>2, <4>2, <4>3 DEF KeysOf
    <3>3. QED  BY <2>2, <3>1, <3>2
  <2>3. QED  BY <2>1, <2>2
<1>13. OperationsOnce'
  BY <1>10, <1>11, <1>12 DEF OperationsOnce, KeysOf, Accepted
<1>14. QED  BY <1>9, <1>13 DEF LogInv

------------------------------------------------------------------------------
(* What a review accepts.                                                   *)

\* What rests on ids: the least set with them that has every operation that
\* needs one of its own.
LEMMA NeedingIs ==
  ASSUME NEW all, IsFiniteSet(all), NEW ops, DOMAIN ops \subseteq all,
         \A o \in DOMAIN ops : ops[o].needs \subseteq all,
         NEW ids
  PROVE  /\ ids \subseteq Needing(ops, ids)
         /\ \A o \in DOMAIN ops :
              ops[o].needs \cap Needing(ops, ids) # {} => o \in Needing(ops, ids)
         /\ \A C : (/\ ids \subseteq C
                    /\ \A o \in DOMAIN ops : ops[o].needs \cap C # {} => o \in C)
                     => Needing(ops, ids) \subseteq C
<1> DEFINE arrows == UNION {ops[o].needs \X {o} : o \in DOMAIN ops}
           R == Reachable(arrows, ids)
<1>1. IsFiniteSet(arrows)
  <2>1. arrows \subseteq all \X all
    OBVIOUS
  <2>2. IsFiniteSet(all \X all)
    BY FS_Product
  <2> HIDE DEF arrows
  <2>3. QED  BY <2>1, <2>2, FS_Subset
<1>2. ASSUME NEW S, NEW o \in DOMAIN ops, ops[o].needs \cap S # {}
      PROVE  o \in Heads(arrows, S)
  <2>1. PICK d \in ops[o].needs : d \in S
    BY <1>2
  <2>2. <<d, o>> \in arrows
    BY <2>1
  <2>3. <<d, o>>[1] = d /\ <<d, o>>[2] = o
    OBVIOUS
  <2> HIDE DEF arrows
  <2>4. QED  BY <2>1, <2>2, <2>3 DEF Heads
<1>3. ASSUME NEW S, NEW o \in Heads(arrows, S)
      PROVE  o \in DOMAIN ops /\ ops[o].needs \cap S # {}
  <2>1. PICK a \in arrows : a[1] \in S /\ a[2] = o
    <3> HIDE DEF arrows
    <3>1. QED  BY <1>3 DEF Heads
  <2>2. PICK x \in DOMAIN ops : a \in ops[x].needs \X {x}
    BY <2>1
  <2>3. a[1] \in ops[x].needs /\ a[2] = x
    BY <2>2
  <2>4. QED  BY <2>1, <2>3
<1>4. Needing(ops, ids) = R
  BY DEF Needing
<1> HIDE DEF arrows
<1>5. /\ ids \subseteq R /\ Heads(arrows, R) \subseteq R
      /\ \A C : ids \subseteq C /\ Heads(arrows, C) \subseteq C => R \subseteq C
  BY <1>1, ReachableIs
<1> HIDE DEF R
<1>6. ASSUME NEW C, ids \subseteq C,
             \A o \in DOMAIN ops : ops[o].needs \cap C # {} => o \in C
      PROVE  R \subseteq C
  <2>1. Heads(arrows, C) \subseteq C
    BY <1>3, <1>6
  <2>2. QED  BY <1>5, <1>6, <2>1
<1>7. \A o \in DOMAIN ops : ops[o].needs \cap R # {} => o \in R
  BY <1>2, <1>5
<1>8. QED  BY <1>4, <1>5, <1>6, <1>7

\* What the parts of a patch look like.
LEMMA ShapeOf ==
  ASSUME NEW context, NEW ops, WellFormed(context, ops), NEW o \in DOMAIN ops
  PROVE  /\ ops[o].needs \subseteq DOMAIN ops
         /\ o \notin DOMAIN context.nodes
         /\ ops[o].adds \in {"node", "edge"}
         /\ ops[o].adds = "node" =>
              /\ ops[o].kind \in NodeKinds /\ ops[o].pinned \in BOOLEAN
              /\ ops[o].text \in Texts
              /\ ops[o].root # NoNode => ops[o].kind = "constraint"
         /\ ops[o].adds = "edge" => ops[o].kind \in EdgeKinds
         /\ \A n \in References(ops[o]) :
              \/ n \in DOMAIN context.nodes
              \/ n \in ops[o].needs /\ ops[n].adds = "node"
<1>1. Shaped(context, ops, o)
  BY DEF WellFormed
<1>2. o \notin DOMAIN context.nodes
  BY DEF WellFormed
<1>3. \A n \in References(ops[o]) :
        \/ n \in DOMAIN context.nodes
        \/ n \in ops[o].needs /\ ops[n].adds = "node"
  BY DEF WellFormed
<1> DEFINE ids == DOMAIN context.nodes \cup DOMAIN ops
<1>4. CASE /\ ops[o] \in [adds : {"node"}, kind : NodeKinds, root : ids \cup {NoNode},
                           pinned : BOOLEAN, text : Texts, from : ids \cup {NoNode},
                           parents : SUBSET ids, needs : SUBSET (DOMAIN ops)]
           /\ ops[o].root # NoNode => ops[o].kind = "constraint"
  <2>1. /\ ops[o].adds = "node" /\ ops[o].kind \in NodeKinds
        /\ ops[o].pinned \in BOOLEAN /\ ops[o].text \in Texts
        /\ ops[o].needs \in SUBSET (DOMAIN ops)
    BY <1>4
  <2>2. QED  BY <1>2, <1>3, <1>4, <2>1
<1>5. CASE ops[o] \in [adds : {"edge"}, source : ids, target : ids,
                       kind : EdgeKinds, needs : SUBSET (DOMAIN ops)]
  <2>1. /\ ops[o].adds = "edge" /\ ops[o].kind \in EdgeKinds
        /\ ops[o].needs \in SUBSET (DOMAIN ops)
    BY <1>5
  <2>2. QED  BY <1>2, <1>3, <2>1
<1>6. QED  BY <1>1, <1>4, <1>5 DEF Shaped

\* What is accepted conflicts with nothing, and what it needs is accepted.
LEMMA AcceptedRests ==
  ASSUME NEW p, WellFormed(runs[p].context, patches[p].ops),
         NEW selected \in SUBSET DOMAIN patches[p].ops,
         Closed(patches[p].ops, selected),
         NEW o \in selected \ Skipped(p, selected)
  PROVE  /\ patches[p].ops[o].needs \subseteq selected \ Skipped(p, selected)
         /\ ~Conflicting(Restrict(patches[p].ops, selected), o, selected)
<1> DEFINE all == DOMAIN patches[p].ops
           ops == Restrict(patches[p].ops, selected)
           struck == {x \in selected : Conflicting(ops, x, selected)}
           blocked == Needing(ops, struck)
           groups == UNION {g \in {Group(p, u) : u \in runs[p].context.units} :
                              g \cap blocked # {}}
           lost == Needing(ops, blocked \cup groups)
<1>1. IsFiniteSet(all)
  BY DEF WellFormed
<1>2. /\ DOMAIN ops = selected
      /\ \A x \in selected : ops[x] = patches[p].ops[x]
  BY DEF Restrict
<1>3. \A x \in DOMAIN ops : ops[x].needs \subseteq all
  BY <1>2, ShapeOf
<1>4. Skipped(p, selected) = selected \cap lost
  BY Zenon DEF Skipped
<1>5. o \in selected /\ o \notin lost
  BY <1>4
<1> HIDE DEF ops, groups, all
<1>6. struck \subseteq blocked
  BY <1>1, <1>2, <1>3, NeedingIs DEF all
<1>7. /\ blocked \cup groups \subseteq lost
      /\ \A x \in DOMAIN ops : ops[x].needs \cap lost # {} => x \in lost
  <2> HIDE DEF blocked
  <2>1. DOMAIN ops \subseteq all
    BY <1>2 DEF all
  <2>2. QED  BY <1>1, <1>3, <2>1, NeedingIs
<1> HIDE DEF blocked, lost
<1>8. ~Conflicting(ops, o, selected)
  BY <1>5, <1>6, <1>7
<1>9. patches[p].ops[o].needs \cap lost = {}
  BY <1>2, <1>5, <1>7
<1>10. patches[p].ops[o].needs \subseteq selected
  BY <1>5 DEF Closed
<1>11. QED  BY <1>4, <1>8, <1>9, <1>10 DEF ops

\* Every operation of a patch adds a node or an edge of the draft, or a clone.
LEMMA OpsAre ==
  ASSUME NEW context, NEW run, NEW ops, NEW draft,
         Drafted(context, run, ops, draft), NEW o \in DOMAIN ops
  PROVE  LET local == DOMAIN draft.nodes IN
         \/ o \in local /\ ops[o] = NodeOp(draft.nodes[o], local)
         \/ ops[o] = EdgeOp(o, local)
         \/ ops[o] = CloneOp(context, run, o[3], o[4])
<1> DEFINE local == DOMAIN draft.nodes
           edges == UNION {EdgesOf(context, id, draft.nodes[id]) : id \in local}
           EdgeIds == {EdgeId(run, e) : e \in edges}
           CloneIds == {Clone(run, c[1], c[2]) : c \in draft.clones}
<1> HIDE DEF EdgeIds, CloneIds
<1>1. ops = [id \in local \cup EdgeIds \cup CloneIds |->
               IF id \in local THEN NodeOp(draft.nodes[id], local)
               ELSE IF id \in EdgeIds THEN EdgeOp(id, local)
               ELSE CloneOp(context, run, id[3], id[4])]
  BY DEF Drafted, Ops, EdgeIds, CloneIds
<1>2. QED  BY <1>1

LEMMA NodeOpIs ==
  ASSUME NEW entry, NEW local
  PROVE  LET op == NodeOp(entry, local) IN
         /\ op.adds = "node" /\ op.kind = entry.kind /\ op.from = entry.replaces
         /\ op.root = NoNode
BY DEF NodeOp

LEMMA EdgeOpIs ==
  ASSUME NEW id, NEW local
  PROVE  LET op == EdgeOp(id, local) IN
         /\ op.adds = "edge"
         /\ op.needs = {op.source, op.target} \cap local
BY DEF EdgeOp

LEMMA CloneOpIs ==
  ASSUME NEW context, NEW run, NEW c, NEW unit
  PROVE  LET op == CloneOp(context, run, c, unit) IN
         /\ op.adds = "node" /\ op.kind = "constraint" /\ op.from = NoNode
         /\ op.root = Successor(run, unit)
         /\ op.needs = {Successor(run, unit), Lineage(run, unit)}
BY DEF CloneOp, Lineage

\* A lineage needs its successor alone; a clone needs both.
LEMMA GroupNeeds ==
  ASSUME NEW p, NEW context, NEW units, NEW ops, NEW draft,
         Drafted(context, p, ops, draft), WellFormed(context, ops),
         units \subseteq DOMAIN context.nodes,
         SuccessorsMatch(p, ops, units), NEW u \in units
  PROVE  /\ ops[Lineage(p, u)].needs \subseteq {Successor(p, u)}
         /\ \A o \in Clones(ops) : ops[o].root = Successor(p, u) =>
              ops[o].needs = {Successor(p, u), Lineage(p, u)}
<1> DEFINE local == DOMAIN draft.nodes
           new == Successor(p, u)
           tie == Lineage(p, u)
<1>1. /\ new \in DOMAIN ops /\ tie \in DOMAIN ops
      /\ ops[tie].adds = "edge"
      /\ ops[tie].source = u /\ ops[tie].target = new
  BY DEF SuccessorsMatch
<1>2. Drafted(context, p, ops, draft)
  OBVIOUS
<1>3. u \notin local
  <2>1. u \in DOMAIN context.nodes
    OBVIOUS
  <2>2. local \subseteq DOMAIN ops
    BY DEF Drafted, Ops
  <2>3. QED  BY <2>1, <2>2, ShapeOf
<1>4. ops[tie].needs \subseteq {new}
  <2>1. CASE ops[tie] = NodeOp(draft.nodes[tie], local)
    BY <1>1, <2>1, NodeOpIs
  <2>2. CASE ops[tie] = EdgeOp(tie, local)
    <3>1. ops[tie].needs = {ops[tie].source, ops[tie].target} \cap local
      BY <2>2, EdgeOpIs
    <3>2. QED  BY <1>1, <1>3, <3>1
  <2>3. CASE ops[tie] = CloneOp(context, p, tie[3], tie[4])
    BY <1>1, <2>3, CloneOpIs
  <2>4. QED  BY <1>1, <1>2, <2>1, <2>2, <2>3, OpsAre
<1>5. ASSUME NEW o \in Clones(ops), ops[o].root = new
      PROVE  ops[o].needs = {new, tie}
  <2>1. o \in DOMAIN ops /\ ops[o].adds = "node" /\ ops[o].kind = "constraint"
    BY DEF Clones
  <2>2. CASE o \in local /\ ops[o] = NodeOp(draft.nodes[o], local)
    <3>1. draft.nodes[o].kind \in DOMAIN ParentKind
      BY <2>2 DEF Drafted, Contract
    <3>2. draft.nodes[o].kind = "constraint"
      BY <2>1, <2>2, NodeOpIs
    <3>3. QED  BY <3>1, <3>2 DEF ParentKind
  <2>3. CASE ops[o] = EdgeOp(o, local)
    BY <2>1, <2>3, EdgeOpIs
  <2>4. CASE ops[o] = CloneOp(context, p, o[3], o[4])
    <3>1. /\ ops[o].root = Successor(p, o[4])
          /\ ops[o].needs = {Successor(p, o[4]), Lineage(p, o[4])}
      BY <2>4, CloneOpIs
    <3>2. o[4] = u
      <4>1. Successor(p, o[4]) = Successor(p, u)
        BY <1>5, <3>1
      <4>2. QED  BY <4>1 DEF Successor
    <3>3. QED  BY <3>1, <3>2
  <2>5. QED  BY <1>2, <2>1, <2>2, <2>3, <2>4, OpsAre
<1>6. QED  BY <1>4, <1>5

\* A group is accepted as a whole or not at all.
LEMMA GroupsWhole ==
  ASSUME NEW p, NEW draft, WellFormed(runs[p].context, patches[p].ops),
         Drafted(runs[p].context, p, patches[p].ops, draft),
         ContextFits(runs[p].context),
         NEW selected \in SUBSET DOMAIN patches[p].ops,
         Closed(patches[p].ops, selected), RegenerationFits(p, selected),
         NEW u \in runs[p].context.units
  PROVE  LET accepted == selected \ Skipped(p, selected) IN
         Group(p, u) \subseteq accepted \/ Group(p, u) \cap accepted = {}
<1> DEFINE whole == patches[p].ops
           units == runs[p].context.units
           ops == Restrict(whole, selected)
           struck == {x \in selected : Conflicting(ops, x, selected)}
           blocked == Needing(ops, struck)
           groups == UNION {g \in {Group(p, v) : v \in units} : g \cap blocked # {}}
           lost == Needing(ops, blocked \cup groups)
           new == Successor(p, u)
           tie == Lineage(p, u)
           clones(v) == {o \in Clones(whole) : whole[o].root = Successor(p, v)}
<1>1. IsFiniteSet(DOMAIN whole)
  BY DEF WellFormed
<1>2. /\ DOMAIN ops = selected
      /\ \A x \in selected : ops[x] = whole[x]
  BY DEF Restrict
<1>3. DOMAIN ops \subseteq DOMAIN whole
      /\ \A x \in DOMAIN ops : ops[x].needs \subseteq DOMAIN whole
  BY <1>2, ShapeOf
<1>4. Skipped(p, selected) = selected \cap lost
  BY Zenon DEF Skipped
<1>5. SuccessorsMatch(p, whole, units)
  BY DEF RegenerationFits
<1>6. Group(p, u) \subseteq selected \/ Group(p, u) \cap selected = {}
  BY DEF RegenerationFits
<1>7. ASSUME NEW v \in units
      PROVE  /\ Group(p, v) = {Successor(p, v), Lineage(p, v)} \cup clones(v)
             /\ whole[Successor(p, v)].adds = "node"
             /\ whole[Successor(p, v)].kind \in RootKinds
             /\ whole[Lineage(p, v)].adds = "edge"
  BY <1>5 DEF Group, SuccessorsMatch
<1>8. /\ whole[tie].needs \subseteq {new}
      /\ \A o \in clones(u) : whole[o].needs = {new, tie}
  <2> DEFINE context == runs[p].context
  <2>1. units \subseteq DOMAIN context.nodes /\ u \in units
    BY DEF ContextFits
  <2>2. Drafted(context, p, whole, draft) /\ WellFormed(context, whole)
    OBVIOUS
  <2> HIDE DEF context, whole, units
  <2>3. /\ whole[tie].needs \subseteq {new}
        /\ \A o \in Clones(whole) :
             whole[o].root = new => whole[o].needs = {new, tie}
    BY <1>5, <2>1, <2>2, GroupNeeds
  <2>4. QED  BY <2>3
<1> HIDE DEF ops, groups, blocked, lost
<1>9. /\ blocked \cup groups \subseteq lost
      /\ \A x \in DOMAIN ops : ops[x].needs \cap lost # {} => x \in lost
      /\ \A C : (/\ blocked \cup groups \subseteq C
                 /\ \A x \in DOMAIN ops : ops[x].needs \cap C # {} => x \in C)
                  => lost \subseteq C
  BY <1>1, <1>3, NeedingIs DEF lost
\* The groups of two units have nothing in common.
<1>10. ASSUME NEW v \in units, v # u, NEW o \in Group(p, v)
       PROVE  o \notin Group(p, u)
  <2>1. Successor(p, v) # new /\ Lineage(p, v) # tie
    <3>1. Successor(p, v)[3] = v /\ new[3] = u
      BY DEF Successor
    <3>2. Lineage(p, v)[3] = v /\ tie[3] = u
      BY DEF Lineage, EdgeId
    <3>3. QED  BY <1>10, <3>1, <3>2
  <2>2. clones(v) \cap clones(u) = {}
    BY <2>1
  <2>3. \A w \in units : \A x \in clones(w) :
          whole[x].adds = "node" /\ whole[x].kind = "constraint"
    BY DEF Clones
  <2>4. "constraint" \notin RootKinds
    BY DEF RootKinds
  <2> HIDE DEF clones, new, tie
  <2>5. QED  BY <1>7, <1>10, <2>1, <2>2, <2>3, <2>4 DEF new, tie
<1>11. CASE Group(p, u) \cap blocked # {}
  <2>1. Group(p, u) \subseteq groups
    BY <1>11 DEF groups
  <2>2. QED  BY <1>4, <1>9, <2>1
<1>12. CASE Group(p, u) \cap blocked = {} /\ new \notin lost
  <2> DEFINE C == lost \ Group(p, u)
  <2>1. blocked \cup groups \subseteq C
    <3>1. ASSUME NEW o \in groups PROVE o \notin Group(p, u)
      <4>1. PICK v \in units : o \in Group(p, v) /\ Group(p, v) \cap blocked # {}
        BY <3>1 DEF groups
      <4>2. v # u
        BY <1>12, <4>1
      <4>3. QED  BY <1>10, <4>1, <4>2
    <3>2. QED  BY <1>9, <1>12, <3>1
  <2>2. ASSUME NEW x \in DOMAIN ops, ops[x].needs \cap C # {}
        PROVE  x \in C
    <3>1. x \in lost
      BY <1>9, <2>2
    <3>2. x # new
      BY <1>12, <3>1
    <3>3. ops[x].needs = whole[x].needs
      BY <1>2
    <3>4. x # tie
      <4> SUFFICES ASSUME x = tie PROVE FALSE
        OBVIOUS
      <4>1. new \in C
        BY <1>8, <2>2, <3>3
      <4>2. QED  BY <1>12, <4>1
    <3>5. x \notin clones(u)
      <4> SUFFICES ASSUME x \in clones(u) PROVE FALSE
        OBVIOUS
      <4>1. ops[x].needs = {new, tie}
        BY <1>8, <3>3
      <4>2. new \in Group(p, u) /\ tie \in Group(p, u)
        BY <1>7
      <4>3. QED  BY <2>2, <4>1, <4>2
    <3>6. QED  BY <1>7, <3>1, <3>2, <3>4, <3>5
  <2>3. lost \subseteq C
    BY <1>9, <2>1, <2>2
  <2>4. QED  BY <1>4, <1>6, <2>3
<1>13. CASE new \in lost /\ Group(p, u) \subseteq selected
  <2>1. \A x \in selected : whole[x].needs \cap lost # {} => x \in lost
    BY <1>2, <1>9
  <2>2. tie \in selected /\ new \in selected
    BY <1>7, <1>13
  <2>3. ASSUME NEW o \in clones(u) PROVE o \in lost
    <3>1. whole[o].needs = {new, tie} /\ o \in selected
      BY <1>7, <1>8, <1>13
    <3>2. QED  BY <1>13, <2>1, <3>1
  <2>4. QED
    <3>1. CASE tie \in lost
      BY <1>4, <1>7, <1>13, <2>3, <3>1
    <3>2. CASE tie \notin lost
      <4>1. new \notin whole[tie].needs
        BY <1>13, <2>1, <2>2, <3>2
      <4>2. new \in whole[tie].needs
        BY <1>5 DEF SuccessorsMatch
      <4>3. QED  BY <4>1, <4>2
    <3>3. QED  BY <3>1, <3>2
<1>14. QED  BY <1>6, <1>11, <1>12, <1>13

------------------------------------------------------------------------------
(* What is accepted is added.                                               *)

LEMMA AddedNodeFits ==
  ASSUME NEW op, op.kind \in NodeKinds, op.pinned \in BOOLEAN, op.text \in Texts,
         NEW revision \in Nat
  PROVE  LET row == AddedNode(op, revision) IN
         /\ NodeFits(row)
         /\ row.kind = op.kind /\ row.root = op.root /\ row.from = op.from
         /\ row.pinned = op.pinned /\ row.text = op.text
         /\ row.since = Fresh /\ row.causes = {}
<1> DEFINE new == FreshNode(op.kind, revision)
           row == AddedNode(op, revision)
<1>1. new \in NodeRows({})
  BY DEF FreshNode, NodeRows, Texts, Fresh
<1>2. new.kind = op.kind /\ new.since = Fresh /\ new.causes = {}
  BY DEF FreshNode
<1>3. row = [new EXCEPT !.review = "accepted", !.made = TRUE, !.root = op.root,
                        !.pinned = op.pinned, !.text = op.text, !.from = op.from]
  BY DEF AddedNode
<1>4. DOMAIN new = {"kind", "review", "made", "root", "pinned", "text", "against",
                    "version", "place", "since", "causes", "touched", "from"}
  BY <1>1, RowIsWhole
<1> HIDE DEF new, row
<1>5. /\ row.review = "accepted" /\ row.made = TRUE /\ row.root = op.root
      /\ row.pinned = op.pinned /\ row.text = op.text /\ row.from = op.from
  BY <1>3, <1>4
<1>6. /\ row = [f \in DOMAIN new |-> row[f]]
      /\ \A f \in {"kind", "against", "version", "place", "since", "causes",
                   "touched"} : row[f] = new[f]
  BY <1>3, <1>4
<1>7. /\ new.against \in BOOLEAN /\ new.version \in Nat \ {0}
      /\ new.place \in Nat \ {0} /\ new.since \in Nat
      /\ new.causes \in SUBSET Nat /\ new.touched \in Nat
  BY <1>1, RowIsWhole
<1>8. /\ row.kind = op.kind /\ row.against = new.against
      /\ row.version = new.version /\ row.place = new.place
      /\ row.since = new.since /\ row.causes = new.causes
      /\ row.touched = new.touched
  BY <1>2, <1>6
<1>9. row \in NodeRows({row.root, row.from})
  <2>1. /\ row.kind \in NodeKinds /\ row.review \in {"none", "accepted", "rejected"}
        /\ row.made \in BOOLEAN /\ row.pinned \in BOOLEAN /\ row.text \in Texts
    BY <1>5, <1>8
  <2>2. /\ row.against \in BOOLEAN /\ row.version \in Nat \ {0}
        /\ row.place \in Nat \ {0} /\ row.since \in Nat
        /\ row.causes \in SUBSET Nat /\ row.touched \in Nat
    BY <1>7, <1>8
  <2>3. row = [f \in DOMAIN new |-> row[f]]
    BY <1>6
  <2>4. QED  BY <1>1, <2>1, <2>2, <2>3, RowChanges
<1>10. NodeFits(row)
  BY <1>5, <1>9 DEF NodeFits
<1>11. QED  BY <1>2, <1>5, <1>8, <1>10 DEF row

\* What Added leaves: the rows that were, and one of each accepted addition.
LEMMA AddedIs ==
  ASSUME NEW g, g.revision \in Nat, NEW ops, NEW accepted,
         NEW steps \in Seq(accepted), ToSet(steps) = accepted
  PROVE  LET next == Added(g, ops, steps)
             Adding(what) == {o \in accepted : ops[o].adds = what}
         IN  /\ DOMAIN next = {"nodes", "edges", "revision"}
             /\ next.revision = g.revision + Len(steps)
             /\ DOMAIN next.nodes = DOMAIN g.nodes \cup Adding("node")
             /\ DOMAIN next.edges = DOMAIN g.edges \cup Adding("edge")
             /\ \A n \in DOMAIN g.nodes : next.nodes[n] = g.nodes[n]
             /\ \A e \in DOMAIN g.edges : next.edges[e] = g.edges[e]
             /\ \A n \in Adding("node") \ DOMAIN g.nodes :
                  \E r \in Nat : next.nodes[n] = AddedNode(ops[n], r)
             /\ \A e \in Adding("edge") \ DOMAIN g.edges :
                  next.edges[e] = AddedEdge(ops[e])
<1> DEFINE Adding(what) == {o \in ToSet(steps) : ops[o].adds = what}
           Revision(o) == g.revision + (CHOOSE i \in DOMAIN steps : steps[i] = o)
           nodes == [o \in Adding("node") |-> AddedNode(ops[o], Revision(o))]
           edges == [o \in Adding("edge") |-> AddedEdge(ops[o])]
           next == Added(g, ops, steps)
<1>1. /\ next.nodes = Joined(g.nodes, nodes)
      /\ next.edges = Joined(g.edges, edges)
      /\ next.revision = g.revision + Len(steps)
      /\ DOMAIN next = {"nodes", "edges", "revision"}
  <2>1. next = [nodes |-> Joined(g.nodes, nodes), edges |-> Joined(g.edges, edges),
                revision |-> g.revision + Len(steps)]
    BY Zenon DEF Added
  <2> HIDE DEF nodes, edges, next
  <2>2. QED  BY <2>1
<1>2. ASSUME NEW o \in accepted PROVE Revision(o) \in Nat
  <2>1. \E i \in DOMAIN steps : steps[i] = o
    BY DEF ToSet
  <2>2. (CHOOSE i \in DOMAIN steps : steps[i] = o) \in DOMAIN steps
    BY <2>1
  <2>3. DOMAIN steps = 1..Len(steps) /\ Len(steps) \in Nat
    OBVIOUS
  <2>4. QED  BY <2>2, <2>3
<1> HIDE DEF Revision
<1>3. /\ DOMAIN nodes = Adding("node") /\ DOMAIN edges = Adding("edge")
      /\ \A n \in Adding("node") : nodes[n] = AddedNode(ops[n], Revision(n))
      /\ \A e \in Adding("edge") : edges[e] = AddedEdge(ops[e])
  OBVIOUS
<1>4. \A what : Adding(what) = {o \in accepted : ops[o].adds = what}
  OBVIOUS
<1> HIDE DEF nodes, edges, next, Adding
<1>5. /\ DOMAIN next.nodes = DOMAIN g.nodes \cup Adding("node")
      /\ \A n \in DOMAIN g.nodes : next.nodes[n] = g.nodes[n]
      /\ \A n \in Adding("node") \ DOMAIN g.nodes : next.nodes[n] = nodes[n]
  <2>1. /\ DOMAIN Joined(g.nodes, nodes) = DOMAIN g.nodes \cup DOMAIN nodes
        /\ \A x \in DOMAIN g.nodes : Joined(g.nodes, nodes)[x] = g.nodes[x]
        /\ \A x \in DOMAIN nodes \ DOMAIN g.nodes :
             Joined(g.nodes, nodes)[x] = nodes[x]
    BY Zenon, JoinedIs
  <2>2. QED  BY <1>1, <1>3, <2>1
<1>6. /\ DOMAIN next.edges = DOMAIN g.edges \cup Adding("edge")
      /\ \A e \in DOMAIN g.edges : next.edges[e] = g.edges[e]
      /\ \A e \in Adding("edge") \ DOMAIN g.edges : next.edges[e] = edges[e]
  <2>1. /\ DOMAIN Joined(g.edges, edges) = DOMAIN g.edges \cup DOMAIN edges
        /\ \A x \in DOMAIN g.edges : Joined(g.edges, edges)[x] = g.edges[x]
        /\ \A x \in DOMAIN edges \ DOMAIN g.edges :
             Joined(g.edges, edges)[x] = edges[x]
    BY Zenon, JoinedIs
  <2>2. QED  BY <1>1, <1>3, <2>1
<1>7. \A n \in Adding("node") \ DOMAIN g.nodes :
        \E r \in Nat : next.nodes[n] = AddedNode(ops[n], r)
  <2> TAKE n \in Adding("node") \ DOMAIN g.nodes
  <2>1. next.nodes[n] = AddedNode(ops[n], Revision(n)) /\ Revision(n) \in Nat
    BY <1>2, <1>3, <1>4, <1>5
  <2>2. QED  BY <2>1
<1>8. QED  BY <1>1, <1>3, <1>4, <1>5, <1>6, <1>7 DEF next

\* The additions of an accepted patch leave a graph that fits: each has its
\* references in the graph or among the others, and none has a place taken.
LEMMA AddedFits ==
  ASSUME NEW context, NEW ops, WellFormed(context, ops),
         NEW selected \in SUBSET DOMAIN ops, NEW accepted \in SUBSET selected,
         \A o \in accepted :
           /\ ops[o].needs \subseteq accepted
           /\ ~Conflicting(Restrict(ops, selected), o, selected),
         NEW steps \in Seq(accepted), ToSet(steps) = accepted,
         GraphFits(graph)
  PROVE  LET next == Added(graph, ops, steps) IN
         /\ GraphFits(next)
         /\ \A o \in accepted : ops[o].adds = "node" => o \notin DOMAIN graph.nodes
<1> DEFINE next == Added(graph, ops, steps)
           Adding(what) == {o \in accepted : ops[o].adds = what}
           old == DOMAIN graph.nodes
<1>1. /\ DOMAIN graph = {"nodes", "edges", "revision"}
      /\ graph.revision \in Nat
      /\ IsFiniteSet(old) /\ IsFiniteSet(DOMAIN graph.edges)
      /\ \A n \in old : NodeFits(graph.nodes[n])
      /\ \A e \in DOMAIN graph.edges : EdgeFits(graph.edges[e])
  BY DEF GraphFits, RowsFit
<1>2. IsFiniteSet(accepted)
  <2>1. IsFiniteSet(DOMAIN ops)
    BY DEF WellFormed
  <2>2. accepted \subseteq DOMAIN ops
    OBVIOUS
  <2>3. QED  BY <2>1, <2>2, FS_Subset
<1>3. Len(steps) \in Nat
  OBVIOUS
<1>4. /\ DOMAIN next = {"nodes", "edges", "revision"}
      /\ next.revision = graph.revision + Len(steps)
      /\ DOMAIN next.nodes = old \cup Adding("node")
      /\ DOMAIN next.edges = DOMAIN graph.edges \cup Adding("edge")
      /\ \A n \in old : next.nodes[n] = graph.nodes[n]
      /\ \A e \in DOMAIN graph.edges : next.edges[e] = graph.edges[e]
      /\ \A n \in Adding("node") \ old :
           \E r \in Nat : next.nodes[n] = AddedNode(ops[n], r)
      /\ \A e \in Adding("edge") \ DOMAIN graph.edges :
           next.edges[e] = AddedEdge(ops[e])
  BY <1>1, AddedIs
<1> HIDE DEF next
<1>5. ASSUME NEW o \in accepted
      PROVE  /\ ops[o].adds = "node" => ~NodeConflicts(Restrict(ops, selected), o, selected)
             /\ ops[o].adds = "edge" => ~EdgeConflicts(Restrict(ops, selected), o, selected)
             /\ Restrict(ops, selected)[o] = ops[o]
  <2>1. Restrict(ops, selected)[o] = ops[o]
    BY DEF Restrict
  <2>2. QED  BY <2>1 DEF Conflicting
\* A reference that is resolved is in the graph or is an accepted addition.
<1>6. ASSUME NEW o \in accepted, NEW n \in References(ops[o]), Resolved(n, selected)
      PROVE  n \in DOMAIN next.nodes
  <2>1. CASE n \in DOMAIN graph.nodes
    BY <1>4, <2>1
  <2>2. CASE n \in selected
    <3>1. n \notin DOMAIN context.nodes
      BY <2>2, ShapeOf
    <3>2. n \in ops[o].needs /\ ops[n].adds = "node"
      BY <3>1, ShapeOf
    <3>3. QED  BY <1>4, <3>2
  <2>3. QED  BY <1>6, <2>1, <2>2 DEF Resolved
<1>7. ASSUME NEW o \in Adding("node")
      PROVE  /\ o \notin old
             /\ ops[o].root # NoNode =>
                  /\ ops[o].kind = "constraint"
                  /\ \/ /\ ops[o].root \in Adding("node")
                        /\ ops[ops[o].root].kind \in RootKinds
                     \/ /\ ops[o].root \in old
                        /\ graph.nodes[ops[o].root].kind \in RootKinds
  <2>1. o \notin old
    BY <1>5 DEF NodeConflicts
  <2>2. SUFFICES ASSUME ops[o].root # NoNode
                 PROVE  /\ ops[o].kind = "constraint"
                        /\ \/ /\ ops[o].root \in Adding("node")
                              /\ ops[ops[o].root].kind \in RootKinds
                           \/ /\ ops[o].root \in old
                              /\ graph.nodes[ops[o].root].kind \in RootKinds
    BY <2>1
  <2> DEFINE root == ops[o].root
  <2>3. ops[o].kind = "constraint"
    BY <2>2, ShapeOf
  <2>4. RootResolved(Restrict(ops, selected), root, selected)
    BY <1>5, <2>2 DEF NodeConflicts
  <2>5. CASE root \in selected
    <3>1. ops[root].adds = "node" /\ ops[root].kind \in RootKinds
      BY <2>4, <2>5 DEF RootResolved, Restrict
    <3>2. root \in References(ops[o])
      BY <2>2 DEF References
    <3>3. root \notin DOMAIN context.nodes
      BY <2>5, ShapeOf
    <3>4. root \in ops[o].needs
      BY <3>2, <3>3, ShapeOf
    <3>5. QED  BY <2>3, <3>1, <3>4
  <2>6. CASE root \notin selected
    BY <2>3, <2>4, <2>6 DEF RootResolved
  <2>7. QED  BY <2>5, <2>6
<1>8. ASSUME NEW n \in Adding("node")
      PROVE  LET row == next.nodes[n] IN
             /\ NodeFits(row)
             /\ row.kind = ops[n].kind /\ row.root = ops[n].root
             /\ row.since = Fresh /\ row.causes = {}
  <2>1. PICK r \in Nat : next.nodes[n] = AddedNode(ops[n], r)
    BY <1>4, <1>7
  <2>2. ops[n].kind \in NodeKinds /\ ops[n].pinned \in BOOLEAN /\ ops[n].text \in Texts
    BY ShapeOf
  <2>3. QED  BY <2>1, <2>2, AddedNodeFits
<1>9. ASSUME NEW e \in Adding("edge")
      PROVE  /\ e \notin DOMAIN graph.edges
             /\ EdgeFits(next.edges[e])
             /\ {next.edges[e].source, next.edges[e].target} \subseteq DOMAIN next.nodes
  <2>1. e \notin DOMAIN graph.edges
    BY <1>5 DEF EdgeConflicts
  <2>2. next.edges[e] = AddedEdge(ops[e])
    BY <1>4, <2>1
  <2>3. /\ next.edges[e].source = ops[e].source /\ next.edges[e].target = ops[e].target
        /\ EdgeFits(next.edges[e])
    <3>1. ops[e].kind \in EdgeKinds
      BY ShapeOf
    <3>2. QED  BY <2>2, <3>1 DEF AddedEdge, EdgeFits, EdgeRows
  <2>4. \A n \in {ops[e].source, ops[e].target} : Resolved(n, selected)
    BY <1>5 DEF EdgeConflicts
  <2>5. References(ops[e]) = {ops[e].source, ops[e].target}
    BY DEF References
  <2>6. QED  BY <1>6, <2>1, <2>3, <2>4, <2>5
<1>10. RowsFit(next)
  <2>1. IsFiniteSet(Adding("node")) /\ IsFiniteSet(Adding("edge"))
    BY <1>2, FS_Subset
  <2>2. IsFiniteSet(DOMAIN next.nodes) /\ IsFiniteSet(DOMAIN next.edges)
    <3>1. IsFiniteSet(old \cup Adding("node"))
      BY <1>1, <2>1, FS_Union
    <3>2. IsFiniteSet(DOMAIN graph.edges \cup Adding("edge"))
      BY <1>1, <2>1, FS_Union
    <3>3. QED  BY <1>4, <3>1, <3>2
  <2>3. next.revision \in Nat
    BY <1>1, <1>3, <1>4
  <2>4. \A n \in DOMAIN next.nodes : NodeFits(next.nodes[n])
    BY <1>1, <1>4, <1>8
  <2>5. \A e \in DOMAIN next.edges : EdgeFits(next.edges[e])
    BY <1>1, <1>4, <1>9
  <2>6. QED  BY <1>4, <2>2, <2>3, <2>4, <2>5 DEF RowsFit
<1>11. RootsHold(next)
  <2> SUFFICES ASSUME NEW n \in DOMAIN next.nodes, next.nodes[n].root # NoNode
               PROVE  /\ next.nodes[n].kind = "constraint"
                      /\ next.nodes[n].root \in DOMAIN next.nodes
                      /\ next.nodes[next.nodes[n].root].kind \in RootKinds
    BY DEF RootsHold
  <2>1. CASE n \in old
    BY <1>4, <2>1 DEF GraphFits, RootsHold
  <2>2. CASE n \in Adding("node")
    <3> DEFINE root == ops[n].root
    <3>1. next.nodes[n].root = root /\ next.nodes[n].kind = ops[n].kind
      BY <1>8, <2>2
    <3>2. CASE root \in Adding("node") /\ ops[root].kind \in RootKinds
      BY <1>4, <1>7, <1>8, <2>2, <3>1, <3>2
    <3>3. CASE root \in old /\ graph.nodes[root].kind \in RootKinds
      BY <1>4, <1>7, <2>2, <3>1, <3>3
    <3>4. QED  BY <1>7, <2>2, <3>1, <3>2, <3>3
  <2>3. QED  BY <1>4, <2>1, <2>2
<1>12. EdgesHold(next)
  <2> SUFFICES ASSUME NEW e \in DOMAIN next.edges
               PROVE  {next.edges[e].source, next.edges[e].target}
                        \subseteq DOMAIN next.nodes
    BY DEF EdgesHold
  <2>1. CASE e \in DOMAIN graph.edges
    BY <1>4, <2>1 DEF GraphFits, EdgesHold
  <2>2. CASE e \in Adding("edge")
    BY <1>9, <2>2
  <2>3. QED  BY <1>4, <2>1, <2>2
<1>13. StaleMarksHold(next)
  <2> SUFFICES ASSUME NEW n \in DOMAIN next.nodes
               PROVE  LET node == next.nodes[n] IN
                      /\ Stale(node) <=> node.causes # {}
                      /\ node.causes \subseteq 1..next.revision
                      /\ Stale(node) => node.since = Min(node.causes)
    BY DEF StaleMarksHold
  <2>1. CASE n \in old
    <3>1. LET node == graph.nodes[n] IN
          /\ Stale(node) <=> node.causes # {}
          /\ node.causes \subseteq 1..graph.revision
          /\ Stale(node) => node.since = Min(node.causes)
      BY <2>1 DEF GraphFits, StaleMarksHold
    <3>2. 1..graph.revision \subseteq 1..next.revision
      BY <1>1, <1>3, <1>4
    <3>3. QED  BY <1>4, <2>1, <3>1, <3>2
  <2>2. CASE n \in Adding("node")
    BY <1>8, <2>2 DEF Stale
  <2>3. QED  BY <1>4, <2>1, <2>2
<1>14. QED  BY <1>7, <1>10, <1>11, <1>12, <1>13 DEF GraphFits, next

------------------------------------------------------------------------------
(* What a run is given.                                                     *)

\* The steps of a packing of the first m candidates.
Packs(taken, m, g, candidates, cap) ==
  taken = [i \in 0..m |->
             IF i = 0 THEN <<>>
             ELSE LET before == taken[i - 1]
                      left == cap - Cost(g, ToSet(before))
                  IN  IF Tokens[g.nodes[candidates[i]].kind] <= left
                      THEN Append(before, candidates[i]) ELSE before]

LEMMA PackExists ==
  ASSUME NEW g, NEW candidates, NEW cap
  PROVE  \A m \in Nat : \E taken : Packs(taken, m, g, candidates, cap)
<1> DEFINE Done == {m \in Nat : \E w : Packs(w, m, g, candidates, cap)}
           Taking(before, i) ==
             IF Tokens[g.nodes[candidates[i]].kind] <= cap - Cost(g, ToSet(before))
             THEN Append(before, candidates[i]) ELSE before
           At(u, d) == IF d = 0 THEN <<>> ELSE Taking(u[d - 1], d)
<1>1. ASSUME NEW w, NEW m
      PROVE  Packs(w, m, g, candidates, cap) <=> w = [d \in 0..m |-> At(w, d)]
  BY Zenon DEF Packs
<1> HIDE DEF Taking
<1>2. 0 \in Done
  <2> DEFINE w == [d \in 0..0 |-> <<>>]
  <2>1. w = [d \in 0..0 |-> At(w, d)]
    <3>1. \A d \in 0..0 : d = 0
      OBVIOUS
    <3>2. QED  BY <3>1
  <2> HIDE DEF w, At
  <2>2. QED  BY <1>1, <2>1
<1>3. \A m \in Nat : m \in Done => m + 1 \in Done
  <2> SUFFICES ASSUME NEW m \in Nat, m \in Done
               PROVE  m + 1 \in Done
    OBVIOUS
  <2>1. PICK w : w = [d \in 0..m |-> At(w, d)]
    <3>1. PICK w : Packs(w, m, g, candidates, cap)
      OBVIOUS
    <3> HIDE DEF At
    <3>2. QED  BY <1>1, <3>1
  <2> DEFINE v == [d \in 0..(m + 1) |->
                     IF d = m + 1 THEN Taking(w[m], m + 1) ELSE w[d]]
  <2>2. ASSUME NEW d \in 0..(m + 1)
        PROVE  v[d] = At(v, d)
    <3>1. \A e \in 0..m : v[e] = w[e]
      OBVIOUS
    <3>2. v[m + 1] = Taking(w[m], m + 1)
      OBVIOUS
    <3> HIDE DEF v
    <3>3. CASE d = m + 1
      <4>1. v[m] = w[m] /\ m + 1 # 0 /\ m + 1 - 1 = m
        BY <3>1
      <4>2. QED  BY <3>2, <3>3, <4>1
    <3>4. CASE d \in 0..m
      <4>1. w[d] = At(w, d)
        BY <2>1, <3>4
      <4>2. d # 0 => d - 1 \in 0..m
        BY <3>4
      <4>3. d # 0 => v[d - 1] = w[d - 1]
        BY <3>1, <4>2
      <4>4. QED  BY <3>1, <3>4, <4>1, <4>3
    <3>5. QED  BY <3>3, <3>4
  <2>3. v = [d \in 0..(m + 1) |-> At(v, d)]
    <3>1. v = [d \in 0..(m + 1) |-> v[d]]
      OBVIOUS
    <3> HIDE DEF v, At
    <3>2. QED  BY <2>2, <3>1
  <2> HIDE DEF v, At
  <2>4. QED  BY <1>1, <2>3
<1> HIDE DEF Done
<1>4. \A m \in Nat : m \in Done
  BY <1>2, <1>3, NatInd
<1>5. QED  BY <1>4 DEF Done

\* Packing takes candidates only.
LEMMA PackTakes ==
  ASSUME NEW g, NEW S, NEW candidates \in Seq(S), NEW cap
  PROVE  Pack(g, candidates, cap) \in Seq(S)
<1> DEFINE m == Len(candidates)
           taken == CHOOSE x : Packs(x, m, g, candidates, cap)
           Done == {i \in Nat : i <= m => taken[i] \in Seq(S)}
<1>1. m \in Nat
  OBVIOUS
<1>2. Pack(g, candidates, cap) = taken[m]
  BY Zenon DEF Pack, Packs
<1>3. Packs(taken, m, g, candidates, cap)
  <2>1. \E x : Packs(x, m, g, candidates, cap)
    BY <1>1, PackExists
  <2>2. QED  BY <2>1
<1> HIDE DEF taken
<1>4. taken[0] = <<>>
  BY <1>1, <1>3 DEF Packs
<1>5. ASSUME NEW i \in 1..m
      PROVE  \/ taken[i] = taken[i - 1]
             \/ taken[i] = Append(taken[i - 1], candidates[i])
  <2>1. i \in 0..m /\ i # 0
    BY <1>1
  <2>2. QED  BY <1>3, <2>1 DEF Packs
<1>6. 0 \in Done
  BY <1>4, EmptySequence
<1>7. ASSUME NEW i \in Nat, i \in Done
      PROVE  i + 1 \in Done
  <2> SUFFICES ASSUME i + 1 <= m PROVE taken[i + 1] \in Seq(S)
    OBVIOUS
  <2>1. taken[i] \in Seq(S) /\ i + 1 \in 1..m /\ (i + 1) - 1 = i
    BY <1>1, <1>7
  <2>2. candidates[i + 1] \in S
    BY <2>1
  <2>3. CASE taken[i + 1] = taken[i]
    BY <2>1, <2>3
  <2>4. CASE taken[i + 1] = Append(taken[i], candidates[i + 1])
    BY <2>1, <2>2, <2>4
  <2>5. QED  BY <1>5, <2>1, <2>3, <2>4
<1> HIDE DEF Done
<1>8. m \in Done
  BY <1>1, <1>6, <1>7, NatInd
<1>9. QED  BY <1>1, <1>2, <1>8 DEF Done

\* What is ranked is what has a key.
LEMMA RankedIs ==
  ASSUME NEW keys, IsFiniteSet(DOMAIN keys), NEW S, DOMAIN keys \subseteq S
  PROVE  Ranked(keys) \in Seq(S)
<1> DEFINE ids == DOMAIN keys
           first == [rest \in SUBSET ids |->
                       {n \in rest : \A m \in rest : keys[n] <= keys[m]}]
<1>1. \A rest \in SUBSET ids : first[rest] \subseteq rest
  OBVIOUS
<1>2. Ranked(keys) = Drawn(ids, first)
  BY DEF Ranked
<1> HIDE DEF first, ids
<1>3. Drawn(ids, first) \in Seq(ids)
  BY <1>1, DrawnOnce DEF ids
<1>4. QED  BY <1>2, <1>3 DEF ids

\* The optional nodes are free ones.
LEMMA OptionalAreFree ==
  ASSUME NEW g, NEW links, NEW free, IsFiniteSet(free), NEW up, NEW down,
         NEW total
  PROVE  Optional(g, Tiers(g, links, free, up, down), total) \in Seq(free)
<1> DEFINE tiers == Tiers(g, links, free, up, down)
<1>1. ASSUME NEW keys, DOMAIN keys \subseteq free
      PROVE  Ranked(keys) \in Seq(free)
  <2>1. IsFiniteSet(DOMAIN keys)
    BY <1>1, FS_Subset
  <2>2. QED  BY <1>1, <2>1, RankedIs
<1>2. /\ tiers.provenance \in Seq(free) /\ tiers.against \in Seq(free)
      /\ tiers.supporting \in Seq(free) /\ tiers.descendants \in Seq(free)
      /\ tiers.related \in Seq(free)
  <2> DEFINE above == free \cap DOMAIN up
             below == free \cap DOMAIN down
             evidence == {n \in above \cup below : Evidence(g, n)}
             against == {n \in evidence : g.nodes[n].against}
             related == Related(g, free, above) \ (above \cup below)
             k1 == [n \in above \ evidence |->
                      Rank(g.nodes[n], n, Upwards(links), up)]
             k2 == [n \in against |-> -1000 * IndependentSupport(g, n)
                                        - g.nodes[n].touched]
             k3 == [n \in evidence \ against |->
                      -1000 * IndependentSupport(g, n) - g.nodes[n].touched]
             k4 == [n \in below \ (evidence \cup above) |->
                      Rank(g.nodes[n], n, links, down)]
             k5 == [n \in related |-> -g.nodes[n].touched]
  <2>1. tiers = [provenance |-> Ranked(k1), against |-> Ranked(k2),
                 supporting |-> Ranked(k3), descendants |-> Ranked(k4),
                 related |-> Ranked(k5)]
    BY Zenon DEF Tiers
  <2>2. related \subseteq free
    BY DEF Related
  <2>3. /\ DOMAIN k1 \subseteq free /\ DOMAIN k2 \subseteq free
        /\ DOMAIN k3 \subseteq free /\ DOMAIN k4 \subseteq free
        /\ DOMAIN k5 \subseteq free
    BY <2>2
  <2> HIDE DEF k1, k2, k3, k4, k5, tiers
  <2>4. /\ tiers.provenance = Ranked(k1) /\ tiers.against = Ranked(k2)
        /\ tiers.supporting = Ranked(k3) /\ tiers.descendants = Ranked(k4)
        /\ tiers.related = Ranked(k5)
    BY <2>1
  <2>5. QED  BY <1>1, <2>3, <2>4
<1> HIDE DEF tiers
<1>3. \A cap :
        /\ Pack(g, tiers.provenance, cap) \in Seq(free)
        /\ Pack(g, tiers.against, cap) \in Seq(free)
        /\ Pack(g, tiers.supporting, cap) \in Seq(free)
        /\ Pack(g, tiers.descendants, cap) \in Seq(free)
        /\ Pack(g, tiers.related, cap) \in Seq(free)
  BY <1>2, PackTakes
<1>4. \E c1, c2, c3, c4, c5 :
        Optional(g, tiers, total) =
          Pack(g, tiers.provenance, c1) \o Pack(g, tiers.against, c2)
            \o Pack(g, tiers.supporting, c3) \o Pack(g, tiers.descendants, c4)
            \o Pack(g, tiers.related, c5)
  BY Zenon DEF Optional
<1>5. PICK c1, c2, c3, c4, c5 :
        Optional(g, tiers, total) =
          Pack(g, tiers.provenance, c1) \o Pack(g, tiers.against, c2)
            \o Pack(g, tiers.supporting, c3) \o Pack(g, tiers.descendants, c4)
            \o Pack(g, tiers.related, c5)
  BY <1>4
<1> DEFINE s1 == Pack(g, tiers.provenance, c1)
           s2 == Pack(g, tiers.against, c2)
           s3 == Pack(g, tiers.supporting, c3)
           s4 == Pack(g, tiers.descendants, c4)
           s5 == Pack(g, tiers.related, c5)
<1>6. /\ s1 \in Seq(free) /\ s2 \in Seq(free) /\ s3 \in Seq(free)
      /\ s4 \in Seq(free) /\ s5 \in Seq(free)
  BY <1>3
<1> HIDE DEF s1, s2, s3, s4, s5
<1>7. s1 \o s2 \o s3 \o s4 \o s5 \in Seq(free)
  BY <1>6
<1>8. Optional(g, tiers, total) = s1 \o s2 \o s3 \o s4 \o s5
  BY <1>5 DEF s1, s2, s3, s4, s5
<1>9. QED  BY <1>7, <1>8 DEF tiers

\* A traversal from nodes of a graph stays in it.
LEMMA LinksStay ==
  ASSUME NEW g, GraphFits(g), NEW ids, ids \subseteq DOMAIN g.nodes
  PROVE  /\ ids \subseteq Reachable(Links(g), ids)
         /\ Reachable(Links(g), ids) \subseteq DOMAIN g.nodes
<1> DEFINE all == DOMAIN g.nodes
           link(e) == Append(Dependency(g.edges[e]), Relevance[g.edges[e].kind])
           f == [e \in DOMAIN g.edges |-> link(e)]
<1>1. IsFiniteSet(DOMAIN g.edges)
  BY DEF GraphFits, RowsFit
<1>2. IsFiniteSet(Links(g))
  <2>1. f \in Surjection(DOMAIN g.edges, Links(g))
    BY DEF Surjection, Links
  <2>2. QED  BY <1>1, <2>1, FS_Surjection
<1>3. ASSUME NEW a \in Links(g) PROVE a[2] \in all
  <2>1. PICK e \in DOMAIN g.edges : a = link(e)
    BY DEF Links
  <2>2. {g.edges[e].source, g.edges[e].target} \subseteq all
    BY DEF GraphFits, EdgesHold
  <2>3. Append(Dependency(g.edges[e]), Relevance[g.edges[e].kind])[2]
          \in {g.edges[e].source, g.edges[e].target}
    <3> DEFINE x == Relevance[g.edges[e].kind]
               s == g.edges[e].source
               t == g.edges[e].target
    <3>1. Append(<<s, t>>, x)[2] = t /\ Append(<<t, s>>, x)[2] = s
      OBVIOUS
    <3>2. Dependency(g.edges[e]) = <<s, t>> \/ Dependency(g.edges[e]) = <<t, s>>
      BY DEF Dependency
    <3>3. QED  BY <3>1, <3>2
  <2> HIDE DEF link
  <2>4. QED  BY <2>1, <2>2, <2>3 DEF link
<1>4. Heads(Links(g), all) \subseteq all
  BY <1>3 DEF Heads
<1>5. QED  BY <1>2, <1>4, ReachableIs

\* The nodes that are regenerated: the stale generated ones asked for and the
\* families they belong to.
LEMMA UnitsFit ==
  ASSUME NEW g, GraphFits(g), NEW q, q.operation = "regenerate_stale",
         Selectable(g, q)
  PROVE  LET units == Units(g, q)
             core == Core(g, q, units)
         IN  /\ q.selected \subseteq core /\ units \subseteq core
             /\ core \subseteq DOMAIN g.nodes
             /\ \A n \in core : Stale(g.nodes[n]) \/ Applied(g.nodes[n])
<1> DEFINE units == Units(g, q)
           core == Core(g, q, units)
           all == DOMAIN g.nodes
<1>1. q.selected \subseteq all
  BY DEF Selectable
<1>2. \A n \in q.selected :
        Stale(g.nodes[n]) /\ g.nodes[n].kind \in GeneratedKinds
  BY DEF Selectable
<1>3. /\ q.selected \subseteq Targets(g, q) /\ Targets(g, q) \subseteq all
      /\ \A n \in Targets(g, q) : Stale(g.nodes[n])
  <2>1. CASE q.scope = "branch"
    <3>1. Targets(g, q) = {n \in Reachable(Links(g), q.selected) :
              Stale(g.nodes[n]) /\ g.nodes[n].kind \in GeneratedKinds}
      BY <2>1 DEF Targets
    <3>2. /\ q.selected \subseteq Reachable(Links(g), q.selected)
          /\ Reachable(Links(g), q.selected) \subseteq all
      BY <1>1, LinksStay
    <3>3. QED  BY <1>2, <3>1, <3>2
  <2>2. CASE q.scope # "branch"
    BY <1>1, <1>2, <2>2 DEF Targets
  <2>3. QED  BY <2>1, <2>2
<1>4. /\ units = {Unit(g, n) : n \in Targets(g, q)}
      /\ core = UNION {Members(g, u) : u \in units}
  BY DEF Units, Core
<1>5. ASSUME NEW n \in all
      PROVE  /\ FamilyOwners(g, n) \subseteq all
             /\ \A o \in FamilyOwners(g, n) :
                  g.nodes[o].kind = "opportunity" /\ FamilyOwners(g, o) = {o}
             /\ g.nodes[n].kind = "opportunity" => FamilyOwners(g, n) # {}
             /\ FamilyOwners(g, n) # {} => g.nodes[n].kind \in FamilyKinds
  <2>1. CASE g.nodes[n].kind = "opportunity"
    BY <2>1 DEF FamilyOwners, FamilyKinds
  <2>2. CASE g.nodes[n].kind # "opportunity"
    <3>1. FamilyOwners(g, n) =
            {o \in all :
               /\ g.nodes[o].kind = "opportunity"
               /\ \E e \in DOMAIN g.edges :
                    /\ g.edges[e].source = o
                    /\ g.edges[e].target = n
                    /\ <<g.nodes[n].kind, g.edges[e].kind>> \in
                         {<<"assumption", "derived_from">>, <<"risk", "derived_from">>,
                          <<"experiment", "requires_validation">>}}
      BY <2>2 DEF FamilyOwners
    <3>2. \A o \in FamilyOwners(g, n) :
            g.nodes[o].kind = "opportunity" /\ FamilyOwners(g, o) = {o}
      BY <3>1 DEF FamilyOwners
    <3>3. \A o \in FamilyOwners(g, n) :
            g.nodes[n].kind \in {"assumption", "risk", "experiment"}
      BY <3>1
    <3>4. QED  BY <2>2, <3>1, <3>2, <3>3 DEF FamilyKinds
  <2>3. QED  BY <2>1, <2>2
<1>6. ASSUME NEW n \in all
      PROVE  /\ Unit(g, n) \in all
             /\ n \in Members(g, Unit(g, n))
             /\ Unit(g, n) \in Members(g, Unit(g, n))
             /\ Members(g, Unit(g, n)) \subseteq all
             /\ \/ Members(g, Unit(g, n)) = {n}
                \/ \A m \in Members(g, Unit(g, n)) : g.nodes[m].kind \in FamilyKinds
  <2>1. CASE FamilyOwners(g, n) = {}
    <3>1. Unit(g, n) = n /\ g.nodes[n].kind # "opportunity"
      BY <1>5, <2>1 DEF Unit
    <3>2. Members(g, n) = {n}
      BY <3>1 DEF Members
    <3>3. QED  BY <3>1, <3>2
  <2>2. CASE FamilyOwners(g, n) # {}
    <3> DEFINE o == Unit(g, n)
    <3>1. o = CHOOSE x \in FamilyOwners(g, n) : TRUE
      BY <2>2 DEF Unit
    <3>2. o \in FamilyOwners(g, n)
      BY <2>2, <3>1
    <3>3. /\ o \in all /\ g.nodes[o].kind = "opportunity"
          /\ FamilyOwners(g, o) = {o}
      BY <1>5, <3>2
    <3>4. Unit(g, o) = o
      BY <3>3 DEF Unit
    <3> HIDE DEF o
    <3>5. Members(g, o) =
            {m \in all : FamilyOwners(g, m) # {} /\ Unit(g, m) = o}
      BY <3>3 DEF Members
    <3>6. n \in Members(g, o)
      BY <2>2, <3>5 DEF o
    <3>7. o \in Members(g, o)
      BY <3>3, <3>4, <3>5
    <3>8. QED  BY <1>5, <3>3, <3>5, <3>6, <3>7 DEF o
  <2>3. QED  BY <2>1, <2>2
<1> HIDE DEF units, core, all
<1>7. q.selected \subseteq core /\ units \subseteq core /\ core \subseteq all
  BY <1>3, <1>4, <1>6
<1>8. ASSUME NEW n \in core
      PROVE  Stale(g.nodes[n]) \/ Applied(g.nodes[n])
  <2>1. PICK t \in Targets(g, q) : n \in Members(g, Unit(g, t))
    BY <1>4
  <2>2. CASE n = t
    BY <1>3, <2>2
  <2>3. CASE g.nodes[n].kind \in FamilyKinds
    <3>1. NodeFits(g.nodes[n])
      BY <1>7 DEF GraphFits, RowsFit, all
    <3> DEFINE node == g.nodes[n]
    <3>2. node.review # "rejected" /\ (node.made => node.review # "none")
      BY <2>3, <3>1 DEF NodeFits, FamilyKinds
    <3>3. node.review \in {"none", "accepted", "rejected"}
      BY <3>1, RowIsWhole DEF NodeFits
    <3> HIDE DEF node
    <3>4. Applied(node)
      BY <3>2, <3>3 DEF Applied
    <3>5. QED  BY <3>4 DEF node
  <2>4. QED  BY <1>3, <1>6, <2>1, <2>2, <2>3
<1>9. QED  BY <1>7, <1>8 DEF units, core, all

\* What must be in the context is in the graph, and in order unless it is to
\* be replaced.
LEMMA MandatoryFits ==
  ASSUME NEW g, GraphFits(g), NEW q, q.operation \in Operations, Selectable(g, q)
  PROVE  LET units == Units(g, q)
             core == Core(g, q, units)
             mandatory == Mandatory(g, q, core)
         IN  /\ mandatory \subseteq DOMAIN g.nodes /\ core \subseteq mandatory
             /\ units \subseteq core
             /\ q.operation # "regenerate_stale" => units = {}
             /\ \A n \in mandatory :
                  InContext(g.nodes[n])
                    \/ (n \in core /\ units # {} /\ Stale(g.nodes[n]))
<1> DEFINE units == Units(g, q)
           core == Core(g, q, units)
           mandatory == Mandatory(g, q, core)
           all == DOMAIN g.nodes
<1>1. /\ q.selected \subseteq all /\ core \subseteq all /\ units \subseteq core
      /\ q.operation # "regenerate_stale" => units = {}
      /\ \A n \in q.selected \cup core :
           InContext(g.nodes[n])
             \/ (n \in core /\ units # {} /\ Stale(g.nodes[n]))
  <2>1. CASE q.operation = "regenerate_stale"
    <3>1. /\ q.selected \subseteq core /\ units \subseteq core
          /\ core \subseteq all
          /\ \A n \in core : Stale(g.nodes[n]) \/ Applied(g.nodes[n])
      BY <2>1, UnitsFit
    <3>2. core = UNION {Members(g, u) : u \in units}
      BY <2>1 DEF Core
    <3> HIDE DEF units, core
    <3>3. \A n \in core : units # {}
      BY <3>2
    <3>4. QED  BY <2>1, <3>1, <3>3 DEF InContext
  <2>2. CASE q.operation # "regenerate_stale"
    <3>1. units = {} /\ core \subseteq q.selected
      BY <2>2 DEF Units, Core
    <3>2. /\ q.selected \subseteq all
          /\ \A n \in q.selected : InContext(g.nodes[n])
      BY <2>2 DEF Selectable
    <3> HIDE DEF units, core
    <3>3. QED  BY <2>2, <3>1, <3>2
  <2>3. QED  BY <2>1, <2>2
<1>2. mandatory = q.selected \cup core \cup SelectedSources(g, q)
                    \cup {c \in Pinned(g) : g.nodes[c].root = NoNode}
                    \cup BranchAnchors(g, core)
  BY DEF Mandatory
<1> HIDE DEF units, core, mandatory
<1>3. \A n \in SelectedSources(g, q) : n \in all /\ InContext(g.nodes[n])
  BY DEF SelectedSources
<1>4. \A n \in Pinned(g) : n \in all /\ InContext(g.nodes[n])
  BY DEF Pinned
<1>5. BranchAnchors(g, core) \subseteq Pinned(g)
  BY DEF BranchAnchors
<1>6. QED  BY <1>1, <1>2, <1>3, <1>4, <1>5 DEF units, core, mandatory

\* What fits has the mandatory nodes and some of the optional ones.
LEMMA FittingFits ==
  ASSUME NEW g, NEW mandatory, NEW S, NEW optional \in Seq(S),
         NEW included \in Fitting(g, mandatory, optional)
  PROVE  /\ mandatory \subseteq included /\ included \subseteq mandatory \cup S
         /\ Size(g, included) <= SemanticBudget
<1> DEFINE With(k) == mandatory \cup ToSet(SubSeq(optional, 1, k))
           ks == {k \in 0..Len(optional) : Size(g, With(k)) <= SemanticBudget}
           last == Max(ks)
<1>1. ks # {} /\ included = With(last)
  BY DEF Fitting
<1>2. last \in ks
  <2>1. Len(optional) \in Nat /\ ks \in SUBSET (0..Len(optional))
    OBVIOUS
  <2> HIDE DEF ks
  <2>2. QED  BY <1>1, <2>1, MaxProperties
<1>3. last \in 0..Len(optional) /\ Size(g, With(last)) <= SemanticBudget
  BY <1>2
<1> HIDE DEF last, ks
<1>4. ToSet(SubSeq(optional, 1, last)) \subseteq S
  <2>1. Len(optional) \in Nat
    OBVIOUS
  <2>2. SubSeq(optional, 1, last) \in Seq(S)
    <3>1. \A i \in 1..last : optional[i] \in S
      BY <1>3, <2>1
    <3>2. SubSeq(optional, 1, last) = [i \in 1..last |-> optional[i]]
      BY <1>3, <2>1
    <3>3. QED  BY <1>3, <2>1, <3>1, <3>2
  <2> DEFINE part == SubSeq(optional, 1, last)
  <2> HIDE DEF part
  <2>3. \A s \in Seq(S) : ToSet(s) \subseteq S
    BY DEF ToSet
  <2>4. QED  BY <2>2, <2>3
<1>5. QED  BY <1>1, <1>3, <1>4

\* The size of what is given is counted on the graph.
LEMMA SizeOfPart ==
  ASSUME NEW g, NEW included, included \subseteq DOMAIN g.nodes,
         NEW context,
         context.nodes = Restrict(g.nodes, included),
         context.edges = Restrict(g.edges, EdgesAmong(g, included))
  PROVE  /\ DOMAIN context.nodes = included
         /\ \A n \in included : context.nodes[n] = g.nodes[n]
         /\ Size(context, included) = Size(g, included)
<1>1. /\ DOMAIN context.nodes = included
      /\ \A n \in included : context.nodes[n] = g.nodes[n]
  BY DEF Restrict
<1>2. EdgesAmong(context, included) = EdgesAmong(g, included)
  <2>1. /\ DOMAIN context.edges = EdgesAmong(g, included)
        /\ \A e \in EdgesAmong(g, included) : context.edges[e] = g.edges[e]
    BY DEF Restrict
  <2>2. QED  BY <2>1 DEF EdgesAmong
<1>3. Cost(context, included) = Cost(g, included)
  <2> DEFINE c == [n \in included |-> Tokens[context.nodes[n].kind]]
             d == [n \in included |-> Tokens[g.nodes[n].kind]]
  <2>1. c = d
    BY <1>1
  <2> HIDE DEF c, d
  <2>2. SumFunction(c) = SumFunction(d)
    BY <2>1
  <2>3. QED  BY <2>2 DEF Cost, c, d
<1>4. QED  BY <1>1, <1>2, <1>3 DEF Size

\* A context that is frozen fits.
LEMMA FrozenFits ==
  ASSUME NEW g, GraphFits(g), NEW q, q.operation \in Operations, Selectable(g, q),
         NEW context \in Contexts(g, q)
  PROVE  ContextFits(context)
<1> DEFINE units == Units(g, q)
           core == Core(g, q, units)
           mandatory == Mandatory(g, q, core)
           free == Free(g, q, mandatory)
           given(included) ==
             [operation |-> q.operation, scope |-> q.scope,
              selected |-> q.selected, revision |-> g.revision,
              nodes |-> Restrict(g.nodes, included),
              edges |-> Restrict(g.edges, EdgesAmong(g, included)),
              anchors |-> BranchAnchors(g, core), units |-> units,
              members |-> {n \in core : units # {} /\ Stale(g.nodes[n])}]
<1>1. PICK included \in Included(g, q, core, mandatory) : context = given(included)
  BY DEF Contexts, Frozen, Assembled
<1>2. /\ context.operation = q.operation /\ context.units = units
      /\ context.members = {n \in core : units # {} /\ Stale(g.nodes[n])}
      /\ context.nodes = Restrict(g.nodes, included)
      /\ context.edges = Restrict(g.edges, EdgesAmong(g, included))
  BY <1>1
<1>3. /\ mandatory \subseteq DOMAIN g.nodes /\ core \subseteq mandatory
      /\ units \subseteq core
      /\ q.operation # "regenerate_stale" => units = {}
      /\ \A n \in mandatory :
           InContext(g.nodes[n])
             \/ (n \in core /\ units # {} /\ Stale(g.nodes[n]))
  BY MandatoryFits
<1>4. free \subseteq DOMAIN g.nodes /\ \A n \in free : InContext(g.nodes[n])
  BY DEF Free
<1>5. \E optional \in Seq(free) : included \in Fitting(g, mandatory, optional)
  <2>1. IsFiniteSet(free)
    <3>1. IsFiniteSet(DOMAIN g.nodes)
      BY DEF GraphFits, RowsFit
    <3>2. QED  BY <1>4, <3>1, FS_Subset
  <2> DEFINE optional ==
        Optional(g, Tiers(g, Links(g), free,
                          Distances(Upwards(Links(g)), q.selected \cup core),
                          Distances(Links(g), q.selected)),
                 SemanticBudget - Cost(g, mandatory))
  <2>2. included \in Fitting(g, mandatory, optional)
    BY DEF Included
  <2>3. optional \in Seq(free)
    BY <2>1, OptionalAreFree
  <2> HIDE DEF optional
  <2>4. QED  BY <2>2, <2>3
<1> HIDE DEF units, core, mandatory, free
<1>6. /\ mandatory \subseteq included /\ included \subseteq mandatory \cup free
      /\ Size(g, included) <= SemanticBudget
  BY <1>5, FittingFits
<1>7. /\ DOMAIN context.nodes = included
      /\ \A n \in included : context.nodes[n] = g.nodes[n]
      /\ Size(context, included) = Size(g, included)
  BY <1>2, <1>3, <1>4, <1>6, SizeOfPart
<1>8. \A n \in DOMAIN context.nodes :
        InContext(context.nodes[n]) \/ n \in context.members
  BY <1>2, <1>3, <1>4, <1>6, <1>7
<1>9. context.units \cup context.members \subseteq DOMAIN context.nodes
  BY <1>2, <1>3, <1>6, <1>7
<1>10. QED  BY <1>2, <1>3, <1>6, <1>7, <1>8, <1>9 DEF ContextFits

------------------------------------------------------------------------------
(* The invariant: what it starts with and what each step keeps.             *)

\* DecisionsSound, of one patch.
Sound(p) ==
  LET patch == patches[p]
      accepted == Accepted(patch)
  IN  /\ DOMAIN patch.decisions =
           IF patch.status = "pending" THEN {} ELSE DOMAIN patch.ops
      /\ Closed(patch.ops, accepted)
      /\ \A u \in runs[p].context.units :
           Group(p, u) \subseteq accepted \/ Group(p, u) \cap accepted = {}
      /\ patch.linked # Nobody => accepted = {} /\ runs[patch.linked].parent = p

LEMMA SoundForAll == DecisionsSound <=> \A p \in DOMAIN patches : Sound(p)
BY DEF DecisionsSound, Sound, Accepted

LEMMA SoundForAllNext ==
  DecisionsSound' <=> \A p \in DOMAIN patches' : Sound(p)'
BY DEF DecisionsSound, Sound, Accepted

\* A patch of which nothing is accepted is sound ...
LEMMA NothingAccepted ==
  ASSUME NEW p, Accepted(patches'[p]) = {},
         DOMAIN patches'[p].decisions =
           IF patches'[p].status = "pending" THEN {} ELSE DOMAIN patches'[p].ops,
         patches'[p].linked # Nobody => runs'[patches'[p].linked].parent = p
  PROVE  Sound(p)'
<1>1. Closed(patches'[p].ops, Accepted(patches'[p]))
  BY DEF Closed
<1>2. QED  BY <1>1 DEF Sound

\* ... and so is one that stays.
LEMMA SoundStays ==
  ASSUME NEW p, Sound(p), patches'[p] = patches[p], runs'[p] = runs[p],
         patches[p].linked # Nobody =>
           runs'[patches[p].linked] = runs[patches[p].linked]
  PROVE  Sound(p)'
BY DEF Sound, Accepted, Closed, Group, Clones

LEMMA InitFits == ASSUME Init PROVE GraphInv
<1>1. /\ graph = InitialGraph /\ DOMAIN runs = {} /\ DOMAIN patches = {}
  BY DEF Init
<1>2. /\ RunsFit /\ PatchesStored /\ PatchesDecided /\ DecisionsSound
  BY <1>1 DEF RunsFit, PatchesStored, PatchesDecided, DecisionsSound
<1> DEFINE ids == DOMAIN graph.nodes
<1>3. /\ DOMAIN graph = {"nodes", "edges", "revision"}
      /\ IsFiniteSet(ids) /\ IsFiniteSet(DOMAIN graph.edges)
      /\ \A n \in ids : graph.nodes[n] \in NodeRows(ids)
      /\ \A e \in DOMAIN graph.edges : graph.edges[e] \in EdgeRows(ids)
      /\ \A n \in ids :
           /\ graph.nodes[n].made => graph.nodes[n].review # "none"
           /\ graph.nodes[n].review = "rejected" =>
                graph.nodes[n].kind \in {"source", "claim"}
      /\ RootsHold(graph) /\ StaleMarksHold(graph)
  BY <1>1, GraphAssumption
<1>4. graph.revision \in Nat
  <2>1. InitialGraph.revision = Len(InitialLog)
    BY ReviewAssumption
  <2> DEFINE Rows == [actor : {0}, key : {0}]
  <2>2. InitialLog \in Seq(Rows)
    BY ReviewAssumption
  <2> HIDE DEF Rows
  <2>3. Len(InitialLog) \in Nat
    BY <2>2
  <2>4. QED  BY <1>1, <2>1, <2>3
<1>5. ASSUME NEW n \in ids
      PROVE  NodeFits(graph.nodes[n])
  <2> DEFINE row == graph.nodes[n]
  <2>1. row \in NodeRows(ids)
    BY <1>3
  <2>2. row = [f \in DOMAIN row |-> row[f]]
    BY <2>1 DEF NodeRows
  <2>3. /\ row.kind \in NodeKinds /\ row.review \in {"none", "accepted", "rejected"}
        /\ row.made \in BOOLEAN
        /\ row.pinned \in BOOLEAN /\ row.text \in Texts /\ row.against \in BOOLEAN
        /\ row.version \in Nat \ {0} /\ row.place \in Nat \ {0}
        /\ row.since \in Nat /\ row.causes \in SUBSET Nat /\ row.touched \in Nat
    BY <2>1, RowIsWhole
  <2>4. /\ row.made => row.review # "none"
        /\ row.review = "rejected" => row.kind \in {"source", "claim"}
    BY <1>3
  <2> HIDE DEF row, ids
  <2>5. row \in NodeRows({row.root, row.from})
    BY <2>1, <2>2, <2>3, RowChanges
  <2>6. NodeFits(row)
    BY <2>4, <2>5 DEF NodeFits
  <2>7. QED  BY <2>6 DEF row
<1>6. ASSUME NEW e \in DOMAIN graph.edges
      PROVE  /\ EdgeFits(graph.edges[e])
             /\ {graph.edges[e].source, graph.edges[e].target} \subseteq ids
  <2>1. graph.edges[e] \in EdgeRows(ids)
    BY <1>3
  <2>2. QED  BY <2>1 DEF EdgeFits, EdgeRows
<1>7. GraphFits(graph)
  BY <1>3, <1>4, <1>5, <1>6 DEF GraphFits, RowsFit, EdgesHold
<1>8. FromKnown
  <2> SUFFICES ASSUME NEW n \in ids
               PROVE  graph.nodes[n].from \in {NoNode} \cup DOMAIN InitialGraph.nodes
    BY DEF FromKnown
  <2>1. graph.nodes[n] \in NodeRows(ids)
    BY <1>3
  <2>2. QED  BY <1>1, <2>1, RowIsWhole
<1>9. LogFits /\ OperationsOnce
  BY InitLog DEF LogInv
<1>10. QED  BY <1>2, <1>7, <1>8, <1>9, InitReview DEF GraphInv

Stored(p) ==
  /\ WellFormed(runs[p].context, patches[p].ops)
  /\ \E draft : Drafted(runs[p].context, p, patches[p].ops, draft)

Statuses == {"pending", "applied", "partially_applied", "rejected"}

PatchFits(p) ==
  /\ Stored(p) /\ Sound(p)
  /\ patches[p].status \in Statuses
  /\ patches[p].linked # Nobody => patches[p].linked \in DOMAIN runs

PatchesAllFit == PatchesStored /\ PatchesDecided /\ DecisionsSound

LEMMA PatchFitsForAll ==
  /\ PatchesAllFit <=> \A p \in DOMAIN patches : PatchFits(p)
  /\ PatchesAllFit' <=> \A p \in DOMAIN patches' : PatchFits(p)'
<1>1. PatchesStored <=> \A p \in DOMAIN patches : Stored(p)
  BY DEF PatchesStored, Stored
<1>2. PatchesStored' <=> \A p \in DOMAIN patches' : Stored(p)'
  BY DEF PatchesStored, Stored
<1>3. QED
  BY <1>1, <1>2, SoundForAll, SoundForAllNext
  DEF PatchesAllFit, PatchFits, PatchesDecided, Statuses

\* The patches fit when those that stay do and the others, of changed, do.
LEMMA PatchesStay ==
  ASSUME PatchesAllFit, ReviewInv, NEW changed,
         \A r \in DOMAIN runs : r \in DOMAIN runs' /\ runs'[r] = runs[r],
         \A p \in DOMAIN patches' \ changed :
           p \in DOMAIN patches /\ patches'[p] = patches[p],
         \A p \in changed : PatchFits(p)'
  PROVE  PatchesAllFit'
<1> SUFFICES ASSUME NEW p \in DOMAIN patches', p \notin changed
             PROVE  PatchFits(p)'
  BY PatchFitsForAll
<1>1. /\ PatchFits(p) /\ patches'[p] = patches[p] /\ runs'[p] = runs[p]
      /\ patches[p].linked # Nobody =>
           /\ patches[p].linked \in DOMAIN runs'
           /\ runs'[patches[p].linked] = runs[patches[p].linked]
  BY PatchFitsForAll, PatchesAreRuns DEF PatchFits
<1>2. Sound(p)'
  BY <1>1, SoundStays DEF PatchFits
<1>3. QED  BY <1>1, <1>2 DEF PatchFits, Stored

\* Where the new nodes come from is known.
LEMMA FromStays ==
  ASSUME FromKnown,
         \A r \in DOMAIN runs : r \in DOMAIN runs' /\ runs'[r] = runs[r],
         \A n \in DOMAIN graph'.nodes :
           \/ graph'.nodes[n].from = NoNode
           \/ /\ n \in DOMAIN graph.nodes
              /\ graph'.nodes[n].from = graph.nodes[n].from
           \/ \E r \in DOMAIN runs : graph'.nodes[n].from \in runs[r].context.units
  PROVE  FromKnown'
<1> DEFINE made == UNION {runs[r].context.units : r \in DOMAIN runs}
           madeNext == UNION {runs'[r].context.units : r \in DOMAIN runs'}
<1>1. made \subseteq madeNext
  OBVIOUS
<1>2. \A r \in DOMAIN runs : runs[r].context.units \subseteq made
  OBVIOUS
<1>3. \A n \in DOMAIN graph.nodes :
        graph.nodes[n].from \in {NoNode} \cup DOMAIN InitialGraph.nodes \cup made
  BY DEF FromKnown
<1> HIDE DEF made
<1>4. ASSUME NEW n \in DOMAIN graph'.nodes
      PROVE  graph'.nodes[n].from \in
               {NoNode} \cup DOMAIN InitialGraph.nodes \cup madeNext
  BY <1>1, <1>2, <1>3
<1>5. QED  BY <1>4 DEF FromKnown

LEMMA GraphInvIs ==
  /\ GraphInv <=> ReviewInv /\ RunsFit /\ PatchesAllFit /\ LogInv
                    /\ GraphFits(graph) /\ FromKnown
  /\ GraphInv' <=> ReviewInv' /\ RunsFit' /\ PatchesAllFit' /\ LogInv'
                    /\ GraphFits(graph') /\ FromKnown'
BY DEF GraphInv, PatchesAllFit, LogInv

\* A step that leaves the graph and the log, and decides or stores one patch
\* of which it accepts nothing.
LEMMA PatchedKeeps ==
  ASSUME GraphInv, ReviewInv', UNCHANGED <<graph, log>>, RunsFit',
         \A r \in DOMAIN runs : r \in DOMAIN runs' /\ runs'[r] = runs[r],
         NEW changed, changed \subseteq DOMAIN patches' \ {User},
         DOMAIN patches \subseteq DOMAIN patches',
         \A p \in DOMAIN patches' \ changed :
           p \in DOMAIN patches /\ patches'[p] = patches[p],
         \A p \in changed :
           /\ PatchFits(p)' /\ Accepted(patches'[p]) = {}
           /\ p \in DOMAIN patches => Accepted(patches[p]) = {}
  PROVE  GraphInv'
<1>1. PatchesAllFit'
  BY PatchesStay, GraphInvIs
<1>2. LogInv'
  BY LogStays, GraphInvIs
<1>3. GraphFits(graph') /\ FromKnown'
  BY FromStays, GraphInvIs
<1>4. QED  BY <1>1, <1>2, <1>3, GraphInvIs

LEMMA UnpatchedKeeps ==
  ASSUME GraphInv, ReviewInv', UNCHANGED <<graph, log>>, RunsFit',
         \A r \in DOMAIN runs : r \in DOMAIN runs' /\ runs'[r] = runs[r],
         UNCHANGED patches
  PROVE  GraphInv'
<1> DEFINE changed == {}
<1>1. /\ changed \subseteq DOMAIN patches' \ {User}
      /\ \A p \in changed :
           /\ PatchFits(p)' /\ Accepted(patches'[p]) = {}
           /\ p \in DOMAIN patches => Accepted(patches[p]) = {}
  OBVIOUS
<1> HIDE DEF changed
<1>2. QED  BY <1>1, PatchedKeeps

LEMMA StillKeeps ==
  ASSUME GraphInv, ReviewInv', Still
  PROVE  GraphInv'
<1>1. RunsFit'
  BY DEF GraphInv, Still, RunsFit
<1>2. UNCHANGED <<graph, log>> /\ UNCHANGED runs /\ UNCHANGED patches
  BY DEF Still
<1>3. QED  BY <1>1, <1>2, UnpatchedKeeps

\* The contexts of runs that stay fit, and that of one that is made.
LEMMA AskingKeeps ==
  ASSUME GraphInv, ReviewInv', NEW q, NEW parent, Asking(q, parent)
  PROVE  /\ RunsFit'
         /\ \A r \in DOMAIN runs : r \in DOMAIN runs' /\ runs'[r] = runs[r]
<1> DEFINE n == Len(runs) + 1
<1>1. /\ DOMAIN runs' = DOMAIN runs \cup {n}
      /\ \A r \in DOMAIN runs : runs'[r] = runs[r]
      /\ runs'[n].context \in Contexts(graph, q)
  BY RunsGrow, GraphInvIs
<1>2. ContextFits(runs'[n].context)
  BY <1>1, FrozenFits, GraphInvIs DEF Asking
<1> HIDE DEF n
<1>3. QED  BY <1>1, <1>2, GraphInvIs DEF RunsFit

LEMMA RequestedKeeps ==
  ASSUME GraphInv, ReviewInv', UNCHANGED patches, NEW q, Asking(q, Nobody)
  PROVE  GraphInv'
<1>1. UNCHANGED <<graph, log>>
  BY DEF Asking
<1>2. QED  BY <1>1, AskingKeeps, UnpatchedKeeps

LEMMA OperatedKeeps ==
  ASSUME GraphInv, ReviewInv', Operated
  PROVE  GraphInv'
<1>1. PICK key, q, after, id :
        /\ ~Logged(User, key)
        /\ Admitted(q)
        /\ after \in Handle(graph, q, id)
        /\ graph' = Committed(graph, q, after)
        /\ log' = Append(log, [actor |-> User, key |-> key, request |-> q])
  BY DEF Operated
<1>2. Handled(graph, q, after)
  BY <1>1, HandleFits, GraphInvIs
<1>3. /\ GraphFits(graph') /\ graph'.revision = graph.revision + 1
      /\ \A n \in DOMAIN graph'.nodes :
           IF n \notin DOMAIN graph.nodes
           THEN graph'.nodes[n].from = NoNode
           ELSE graph'.nodes[n].from = graph.nodes[n].from
  BY <1>1, <1>2, CommittedFits, GraphInvIs
<1>4. UNCHANGED runs /\ UNCHANGED patches
  BY DEF Operated
<1>5. LogInv'
  BY <1>1, <1>3, <1>4, OperatedLogs, GraphInvIs
<1>6. PatchesAllFit'
  <2> DEFINE changed == {}
  <2>1. \A p \in changed : PatchFits(p)'
    OBVIOUS
  <2> HIDE DEF changed
  <2>2. QED  BY <1>4, <2>1, PatchesStay, GraphInvIs
<1>7. FromKnown'
  BY <1>3, <1>4, FromStays, GraphInvIs
<1>8. RunsFit'
  BY <1>4, GraphInvIs DEF RunsFit
<1>9. QED  BY <1>3, <1>5, <1>6, <1>7, <1>8, GraphInvIs

\* A patch that is pending has nothing accepted.
LEMMA PendingAccepts ==
  ASSUME GraphInv, NEW p \in held, Pending(p)
  PROVE  /\ p \in DOMAIN patches /\ p \in DOMAIN runs /\ p # User
         /\ DOMAIN patches[p] = PatchFields
         /\ PatchFits(p) /\ Accepted(patches[p]) = {}
<1>1. /\ p \in DOMAIN patches /\ p \in DOMAIN runs /\ p # User
      /\ DOMAIN patches[p] = PatchFields
  BY PatchesAreRuns, GraphInvIs
<1>2. PatchFits(p)
  BY <1>1, PatchFitsForAll, GraphInvIs
<1>3. DOMAIN patches[p].decisions = {}
  BY <1>2 DEF PatchFits, Sound, Pending
<1>4. Accepted(patches[p]) = {}
  BY <1>3 DEF Accepted
<1>5. QED  BY <1>1, <1>2, <1>4

LEMMA DismissedKeeps ==
  ASSUME GraphInv, ReviewInv', NEW p, Dismissed(p)
  PROVE  GraphInv'
<1>1. /\ p \in held /\ Pending(p)
      /\ patches' = [patches EXCEPT ![p] = Decided(@, {}, {})]
      /\ UNCHANGED <<graph, log>> /\ UNCHANGED runs
  BY DEF Dismissed
<1>2. /\ p \in DOMAIN patches /\ p # User /\ DOMAIN patches[p] = PatchFields
      /\ PatchFits(p) /\ Accepted(patches[p]) = {}
  BY <1>1, PendingAccepts
<1>3. /\ DOMAIN patches' = DOMAIN patches
      /\ \A r \in DOMAIN patches \ {p} : patches'[r] = patches[r]
      /\ patches'[p] = Decided(patches[p], {}, {})
  BY <1>1, <1>2
<1>4. /\ patches'[p].ops = patches[p].ops /\ patches'[p].status = "rejected"
      /\ DOMAIN patches'[p].decisions = DOMAIN patches'[p].ops
      /\ Accepted(patches'[p]) = {} /\ patches'[p].linked = patches[p].linked
  BY <1>2, <1>3, DecidedIs
<1>5. Stored(p)'
  BY <1>1, <1>2, <1>4 DEF PatchFits, Stored
<1>6. patches'[p].linked # Nobody =>
        /\ patches'[p].linked \in DOMAIN runs'
        /\ runs'[patches'[p].linked].parent = p
  BY <1>1, <1>2, <1>4 DEF PatchFits, Sound
<1>7. Sound(p)'
  BY <1>4, <1>6, NothingAccepted
<1>8. PatchFits(p)'
  BY <1>4, <1>5, <1>6, <1>7 DEF PatchFits, Statuses
<1>9. RunsFit'
  BY <1>1, GraphInvIs DEF RunsFit
<1> DEFINE changed == {p}
<1>10. /\ changed \subseteq DOMAIN patches' \ {User}
       /\ DOMAIN patches \subseteq DOMAIN patches'
       /\ \A r \in DOMAIN patches' \ changed :
            r \in DOMAIN patches /\ patches'[r] = patches[r]
       /\ \A r \in changed :
            /\ PatchFits(r)' /\ Accepted(patches'[r]) = {}
            /\ r \in DOMAIN patches => Accepted(patches[r]) = {}
  BY <1>2, <1>3, <1>4, <1>8
<1> HIDE DEF changed
<1>11. QED  BY <1>1, <1>9, <1>10, PatchedKeeps

LEMMA ReplacingKeeps ==
  ASSUME GraphInv, ReviewInv', NEW p, Replacing(p), NEW q, Asking(q, p)
  PROVE  GraphInv'
<1> DEFINE n == Len(runs) + 1
<1>1. /\ p \in held /\ Pending(p)
      /\ patches' = [patches EXCEPT
                       ![p] = [Decided(@, {}, {}) EXCEPT !.linked = n]]
      /\ UNCHANGED <<graph, log>>
  BY DEF Replacing, Asking
<1>2. /\ p \in DOMAIN patches /\ p \in DOMAIN runs
      /\ p # User /\ DOMAIN patches[p] = PatchFields
      /\ PatchFits(p) /\ Accepted(patches[p]) = {}
  BY <1>1, PendingAccepts
<1>3. /\ n # Nobody /\ DOMAIN runs' = DOMAIN runs \cup {n}
      /\ \A r \in DOMAIN runs : runs'[r] = runs[r]
      /\ runs'[n].parent = p
  BY RunsGrow, GraphInvIs
<1>4. /\ DOMAIN patches' = DOMAIN patches
      /\ \A r \in DOMAIN patches \ {p} : patches'[r] = patches[r]
      /\ patches'[p] = [Decided(patches[p], {}, {}) EXCEPT !.linked = n]
  BY <1>1, <1>2
<1> HIDE DEF n
<1>5. /\ patches'[p].ops = patches[p].ops /\ patches'[p].status = "rejected"
      /\ DOMAIN patches'[p].decisions = DOMAIN patches'[p].ops
      /\ Accepted(patches'[p]) = {} /\ patches'[p].linked = n
  BY <1>2, <1>4, RejectedIs
<1>6. Stored(p)'
  BY <1>2, <1>3, <1>5 DEF PatchFits, Stored
<1>7. Sound(p)'
  BY <1>3, <1>5, NothingAccepted
<1>8. PatchFits(p)'
  BY <1>3, <1>5, <1>6, <1>7 DEF PatchFits, Statuses
<1>9. /\ RunsFit'
      /\ \A r \in DOMAIN runs : r \in DOMAIN runs' /\ runs'[r] = runs[r]
  BY AskingKeeps
<1> DEFINE changed == {p}
<1>10. /\ changed \subseteq DOMAIN patches' \ {User}
       /\ DOMAIN patches \subseteq DOMAIN patches'
       /\ \A r \in DOMAIN patches' \ changed :
            r \in DOMAIN patches /\ patches'[r] = patches[r]
       /\ \A r \in changed :
            /\ PatchFits(r)' /\ Accepted(patches'[r]) = {}
            /\ r \in DOMAIN patches => Accepted(patches[r]) = {}
  BY <1>2, <1>4, <1>5, <1>8
<1> HIDE DEF changed
<1>11. QED  BY <1>1, <1>9, <1>10, PatchedKeeps

LEMMA FamiliesReplace ==
  ASSUME NEW run, NEW ids, NEW citations, NEW replaced,
         NEW nodes \in Families(run, ids, citations, replaced)
  PROVE  \A n \in DOMAIN nodes :
           nodes[n].replaces = IF n \in ids THEN replaced[n] ELSE NoNode
<1>1. \A kind, parents, replaces :
        Entry(kind, parents, replaces).replaces = replaces
  BY DEF Entry
<1> DEFINE Others == {<<run, kind, id>> :
                        kind \in FamilyKinds \ {"opportunity"}, id \in ids}
           Chosen(cited) ==
             [id \in ids \cup Others |->
                IF id \in ids THEN Entry("opportunity", cited[id], replaced[id])
                ELSE Entry(id[2], {id[3]}, NoNode)]
<1>2. Families(run, ids, citations, replaced) =
        {Chosen(cited) : cited \in [ids -> citations]}
  BY DEF Families
<1> HIDE DEF Others
<1>3. PICK cited : nodes = Chosen(cited)
  BY <1>2
<1>4. QED  BY <1>1, <1>3

\* What is generated anew replaces nothing.
LEMMA NewReplacesNothing ==
  ASSUME NEW context, NEW run, context.operation \in Operations,
         context.operation # "regenerate_stale",
         NEW draft \in Drafts(context, run)
  PROVE  \A id \in DOMAIN draft.nodes : draft.nodes[id].replaces = NoNode
<1>1. PICK nodes \in Planned(context, run) : draft.nodes = nodes
  BY DEF Drafts
<1> SUFFICES \A id \in DOMAIN nodes : nodes[id].replaces = NoNode
  BY <1>1
<1>2. \A kind, parents, replaces :
        Entry(kind, parents, replaces).replaces = replaces
  BY DEF Entry
<1>3. CASE context.operation = "generate_strategies"
  BY <1>2, <1>3 DEF Planned
<1>4. CASE context.operation = "research_evidence"
  <2> DEFINE claim == <<run, "claim", 1>>
             none == [id \in {claim} |-> NoNode]
  <2>1. nodes = Researched(run, {claim}, context.selected, none)
    BY <1>4 DEF Planned
  <2>2. \A id \in {claim} : none[id] = NoNode
    OBVIOUS
  <2> HIDE DEF claim, none
  <2>3. QED  BY <1>2, <2>1, <2>2 DEF Researched
<1>5. CASE context.operation = "synthesize_opportunities"
  <2> DEFINE ids == {<<run, "opportunity", i>> : i \in 1..Proposals}
             none == [id \in ids |-> NoNode]
  <2>1. nodes \in Families(run, ids, Citations(context, {}), none)
    BY <1>5 DEF Planned
  <2>2. \A id \in ids : none[id] = NoNode
    OBVIOUS
  <2> HIDE DEF ids, none
  <2>3. QED  BY <1>2, <2>1, <2>2, FamiliesReplace
<1>6. QED  BY <1>3, <1>4, <1>5 DEF Operations

LEMMA StoringKeeps ==
  ASSUME GraphInv, ReviewInv', NEW r, Storing(r)
  PROVE  GraphInv'
<1>1. /\ UNCHANGED <<graph, log>> /\ UNCHANGED runs
      /\ r \in DOMAIN runs \ DOMAIN patches
  BY DEF Storing
<1>2. PICK ops :
       /\ WellFormed(runs[r].context, ops)
       /\ \E draft \in Drafts(runs[r].context, r) :
            /\ ops = Ops(runs[r].context, r, draft)
            /\ Contract(runs[r].context, r, draft)
       /\ patches' = Inserted(patches, r,
            [ops |-> ops, status |-> "pending", decisions |-> <<>>,
             linked |-> Nobody])
  BY DEF Storing
<1> DEFINE row == [ops |-> ops, status |-> "pending", decisions |-> <<>>,
                   linked |-> Nobody]
<1>3. /\ DOMAIN patches' = DOMAIN patches \cup {r}
      /\ \A p \in DOMAIN patches : patches'[p] = patches[p]
      /\ patches'[r] = row
  <2> HIDE DEF row
  <2>1. patches' = Inserted(patches, r, row)
    BY <1>2 DEF row
  <2> DEFINE next == Inserted(patches, r, row)
  <2>2. /\ DOMAIN next = DOMAIN patches \cup {r}
        /\ \A x \in DOMAIN patches : next[x] = patches[x]
        /\ r \notin DOMAIN patches => next[r] = row
    BY Zenon, InsertedIs
  <2>3. patches' = next
    BY <2>1
  <2> HIDE DEF next
  <2>4. QED  BY <1>1, <2>2, <2>3
<1>4. /\ patches'[r].ops = ops /\ patches'[r].status = "pending"
      /\ DOMAIN patches'[r].decisions = {} /\ patches'[r].linked = Nobody
  BY <1>3
<1> HIDE DEF row
<1>5. Accepted(patches'[r]) = {}
  BY <1>4 DEF Accepted
<1>6. PICK draft \in Drafts(runs[r].context, r) :
        /\ ops = Ops(runs[r].context, r, draft)
        /\ Contract(runs[r].context, r, draft)
  BY <1>2
<1>7. runs[r].context.operation \in Operations
  BY <1>1, GraphInvIs DEF RunsFit, ContextFits
<1>8. Drafted(runs[r].context, r, ops, draft)
  BY <1>6, <1>7, NewReplacesNothing DEF Drafted
<1>9. Stored(r)'
  BY <1>1, <1>2, <1>4, <1>8 DEF Stored
<1>10. Sound(r)'
  BY <1>4, <1>5, NothingAccepted
<1>11. PatchFits(r)'
  BY <1>4, <1>9, <1>10 DEF PatchFits, Statuses
<1>12. r # User
  BY <1>1, PatchesAreRuns, GraphInvIs
<1>13. RunsFit'
  BY <1>1, GraphInvIs DEF RunsFit
<1> DEFINE changed == {r}
<1>14. /\ changed \subseteq DOMAIN patches' \ {User}
       /\ DOMAIN patches \subseteq DOMAIN patches'
       /\ \A p \in DOMAIN patches' \ changed :
            p \in DOMAIN patches /\ patches'[p] = patches[p]
       /\ \A p \in changed :
            /\ PatchFits(p)' /\ Accepted(patches'[p]) = {}
            /\ p \in DOMAIN patches => Accepted(patches[p]) = {}
  BY <1>1, <1>3, <1>5, <1>11, <1>12
<1> HIDE DEF changed
<1>15. QED  BY <1>1, <1>13, <1>14, PatchedKeeps

\* What a new node is made to replace is to be regenerated.
LEMMA AddedFrom ==
  ASSUME NEW p, WellFormed(runs[p].context, patches[p].ops),
         NEW draft, Drafted(runs[p].context, p, patches[p].ops, draft),
         runs[p].context.operation = "regenerate_stale" =>
           SuccessorsMatch(p, patches[p].ops, runs[p].context.units),
         NEW o \in DOMAIN patches[p].ops, patches[p].ops[o].adds = "node"
  PROVE  patches[p].ops[o].from \in {NoNode} \cup runs[p].context.units
<1> DEFINE ops == patches[p].ops
           context == runs[p].context
           local == DOMAIN draft.nodes
<1>1. CASE context.operation = "regenerate_stale"
  BY <1>1 DEF SuccessorsMatch
<1>2. CASE context.operation # "regenerate_stale"
  <2>1. \/ o \in local /\ ops[o] = NodeOp(draft.nodes[o], local)
        \/ ops[o] = EdgeOp(o, local)
        \/ ops[o] = CloneOp(context, p, o[3], o[4])
    BY OpsAre
  <2>2. \A id \in local : draft.nodes[id].replaces = NoNode
    BY <1>2 DEF Drafted
  <2>3. ops[o].adds = "node"
    OBVIOUS
  <2> HIDE DEF ops, context, local
  <2>4. CASE o \in local /\ ops[o] = NodeOp(draft.nodes[o], local)
    <3>1. ops[o].from = draft.nodes[o].replaces
      BY <2>4, NodeOpIs
    <3>2. QED  BY <2>2, <2>4, <3>1 DEF ops
  <2>5. CASE ops[o] = EdgeOp(o, local)
    BY <2>3, <2>5, EdgeOpIs
  <2>6. CASE ops[o] = CloneOp(context, p, o[3], o[4])
    <3>1. ops[o].from = NoNode
      BY <2>6, CloneOpIs
    <3>2. QED  BY <3>1 DEF ops
  <2>7. QED  BY <2>1, <2>4, <2>5, <2>6
<1>3. QED  BY <1>1, <1>2

\* What is applied: operations that need nothing else, in an order.
Selected(p, selected, accepted, steps) ==
  LET ops == patches[p].ops IN
  /\ accepted = selected \ Skipped(p, selected)
  /\ accepted \subseteq DOMAIN ops
  /\ \A o \in accepted :
       /\ ops[o].needs \subseteq accepted
       /\ ~Conflicting(Restrict(ops, selected), o, selected)
  /\ steps \in Seq(accepted) /\ IsInjective(steps) /\ ToSet(steps) = accepted
  /\ runs[p].context.operation = "regenerate_stale" =>
       RegenerationFits(p, selected)
  /\ graph' = Added(graph, ops, steps)
  /\ log' = log \o [i \in DOMAIN steps |-> [actor |-> p, key |-> steps[i]]]
  /\ DOMAIN patches' = DOMAIN patches
  /\ \A r \in DOMAIN patches \ {p} : patches'[r] = patches[r]
  /\ patches'[p] = Decided(patches[p], accepted, Skipped(p, selected))
  /\ Accepted(patches'[p]) = accepted
  /\ UNCHANGED runs

LEMMA ApplyingIs ==
  ASSUME GraphInv, NEW p, Applying(p)
  PROVE  /\ p \in held /\ Pending(p)
         /\ \E selected \in SUBSET DOMAIN patches[p].ops :
              /\ Closed(patches[p].ops, selected)
              /\ \E accepted, steps : Selected(p, selected, accepted, steps)
<1>1. PICK selected \in SUBSET DOMAIN patches[p].ops : Apply(p, selected)
  BY DEF Applying
<1> DEFINE ops == patches[p].ops
           skipped == Skipped(p, selected)
           accepted == selected \ skipped
           steps == InOrder(ops, accepted)
<1>2. /\ p \in held /\ Pending(p) /\ Closed(ops, selected)
      /\ runs[p].context.operation = "regenerate_stale" =>
           RegenerationFits(p, selected)
      /\ graph' = Added(graph, ops, steps)
      /\ log' = log \o [i \in DOMAIN steps |-> [actor |-> p, key |-> steps[i]]]
      /\ patches' = [patches EXCEPT ![p] = Decided(@, accepted, skipped)]
      /\ UNCHANGED runs
  BY <1>1 DEF Apply, Applying
<1>3. /\ p \in DOMAIN patches /\ DOMAIN patches[p] = PatchFields
      /\ WellFormed(runs[p].context, ops)
  BY <1>2, PendingAccepts DEF PatchFits, Stored
<1>4. \A o \in accepted :
        /\ ops[o].needs \subseteq accepted
        /\ ~Conflicting(Restrict(ops, selected), o, selected)
  BY <1>2, <1>3, AcceptedRests
<1>5. accepted \in SUBSET DOMAIN ops
  OBVIOUS
<1> HIDE DEF skipped
<1>6. steps \in Seq(accepted) /\ IsInjective(steps) /\ ToSet(steps) = accepted
  <2> HIDE DEF accepted
  <2>1. QED  BY <1>3, <1>5, InOrderOnce
<1> HIDE DEF steps, accepted
<1>7. /\ DOMAIN patches' = DOMAIN patches
      /\ \A r \in DOMAIN patches \ {p} : patches'[r] = patches[r]
      /\ patches'[p] = Decided(patches[p], accepted, skipped)
  BY <1>2, <1>3
<1>8. Accepted(patches'[p]) = accepted
  BY <1>3, <1>5, <1>7, DecidedIs
<1>9. Selected(p, selected, accepted, steps)
  <2>1. accepted = selected \ Skipped(p, selected)
    BY DEF accepted, skipped
  <2>2. patches'[p] = Decided(patches[p], accepted, Skipped(p, selected))
    BY <1>7 DEF skipped
  <2>3. QED
    BY <1>2, <1>4, <1>5, <1>6, <1>7, <1>8, <2>1, <2>2 DEF Selected
<1>10. QED  BY <1>2, <1>9

LEMMA ApplyingKeeps ==
  ASSUME GraphInv, ReviewInv', NEW p, Applying(p)
  PROVE  GraphInv'
<1>1. p \in held /\ Pending(p)
  BY ApplyingIs
<1> DEFINE ops == patches[p].ops
           context == runs[p].context
<1>2. PICK selected, accepted, steps :
        /\ selected \in SUBSET DOMAIN ops /\ Closed(ops, selected)
        /\ Selected(p, selected, accepted, steps)
  BY ApplyingIs
<1>3. /\ p \in DOMAIN patches /\ p \in DOMAIN runs /\ p # User
      /\ DOMAIN patches[p] = PatchFields
      /\ PatchFits(p) /\ Accepted(patches[p]) = {}
  BY <1>1, PendingAccepts
<1>4. WellFormed(context, ops)
  BY <1>3 DEF PatchFits, Stored
<1>5. PICK draft : Drafted(context, p, ops, draft)
  BY <1>3 DEF PatchFits, Stored
<1>6. ContextFits(context)
  BY <1>3, GraphInvIs DEF RunsFit
<1>7. /\ graph' = Added(graph, ops, steps) /\ GraphFits(graph')
      /\ accepted \in SUBSET selected
      /\ \A o \in accepted : ops[o].adds = "node" => o \notin DOMAIN graph.nodes
  <2>1. /\ accepted \in SUBSET selected
        /\ \A o \in accepted :
             /\ ops[o].needs \subseteq accepted
             /\ ~Conflicting(Restrict(ops, selected), o, selected)
        /\ steps \in Seq(accepted) /\ ToSet(steps) = accepted
        /\ graph' = Added(graph, ops, steps)
    BY <1>2 DEF Selected
  <2>2. GraphFits(graph)
    BY GraphInvIs
  <2> HIDE DEF ops, context
  <2>3. QED  BY <1>2, <1>4, <2>1, <2>2, AddedFits
<1>8. /\ graph'.revision = graph.revision + Len(steps)
      /\ DOMAIN graph'.nodes = DOMAIN graph.nodes
                                 \cup {o \in accepted : ops[o].adds = "node"}
      /\ \A n \in DOMAIN graph.nodes : graph'.nodes[n] = graph.nodes[n]
      /\ \A n \in {o \in accepted : ops[o].adds = "node"} \ DOMAIN graph.nodes :
           \E r \in Nat : graph'.nodes[n] = AddedNode(ops[n], r)
  <2>1. steps \in Seq(accepted) /\ ToSet(steps) = accepted
    BY <1>2 DEF Selected
  <2>2. graph.revision \in Nat
    BY GraphInvIs DEF GraphFits, RowsFit
  <2> HIDE DEF ops
  <2>3. QED  BY <1>7, <2>1, <2>2, AddedIs
<1>9. /\ DOMAIN patches' = DOMAIN patches
      /\ \A r \in DOMAIN patches \ {p} : patches'[r] = patches[r]
      /\ Accepted(patches'[p]) = accepted
      /\ patches'[p].ops = ops /\ patches'[p].linked = patches[p].linked
      /\ patches'[p].status \in Statuses \ {"pending"}
      /\ DOMAIN patches'[p].decisions = DOMAIN ops
      /\ UNCHANGED runs
  <2>1. /\ DOMAIN patches' = DOMAIN patches
        /\ \A r \in DOMAIN patches \ {p} : patches'[r] = patches[r]
        /\ Accepted(patches'[p]) = accepted
        /\ patches'[p] = Decided(patches[p], accepted, Skipped(p, selected))
        /\ UNCHANGED runs
    BY <1>2 DEF Selected
  <2>2. QED  BY <1>3, <2>1, DecidedIs DEF Statuses
<1>10. LogInv'
  <2>1. /\ steps \in Seq(accepted) /\ IsInjective(steps)
        /\ ToSet(steps) = accepted
        /\ log' = log \o [i \in DOMAIN steps |-> [actor |-> p, key |-> steps[i]]]
    BY <1>2 DEF Selected
  <2>2. LogInv
    BY GraphInvIs
  <2>3. \A r \in DOMAIN patches \ {p} :
          Accepted(patches'[r]) = Accepted(patches[r])
    BY <1>9
  <2>4. QED  BY <1>3, <1>8, <1>9, <2>1, <2>2, <2>3, ApplyingLogs
<1>11. patches[p].linked = Nobody
  <2>1. /\ patches[p].linked # Nobody =>
             /\ patches[p].linked \in DOMAIN runs
             /\ runs[patches[p].linked].parent = p
        /\ ParentsDecided /\ p # Nobody
    BY <1>3, GraphInvIs, PatchesAreRuns DEF PatchFits, Sound, ReviewInv
  <2>2. QED  BY <1>1, <2>1 DEF ParentsDecided, Pending
<1>12. \A u \in context.units :
         Group(p, u) \subseteq accepted \/ Group(p, u) \cap accepted = {}
  <2> SUFFICES ASSUME NEW u \in context.units
               PROVE  Group(p, u) \subseteq accepted
                        \/ Group(p, u) \cap accepted = {}
    OBVIOUS
  <2>1. context.operation = "regenerate_stale"
    BY <1>6 DEF ContextFits
  <2>2. /\ RegenerationFits(p, selected)
        /\ accepted = selected \ Skipped(p, selected)
    BY <1>2, <2>1 DEF Selected
  <2>3. QED  BY <1>2, <1>4, <1>5, <1>6, <2>2, GroupsWhole
<1>13. Sound(p)'
  <2>1. \A u : Group(p, u)' = Group(p, u)
    BY <1>9 DEF Group, Clones
  <2>2. Closed(ops, accepted)
    BY <1>2 DEF Closed, Selected
  <2>3. QED  BY <1>9, <1>11, <1>12, <2>1, <2>2 DEF Sound, Statuses
<1>14. PatchFits(p)'
  BY <1>4, <1>5, <1>9, <1>11, <1>13 DEF PatchFits, Stored
<1>15. PatchesAllFit'
  <2> DEFINE changed == {p}
  <2>1. /\ \A r \in DOMAIN patches' \ changed :
             r \in DOMAIN patches /\ patches'[r] = patches[r]
        /\ \A r \in changed : PatchFits(r)'
    BY <1>9, <1>14
  <2> HIDE DEF changed
  <2>2. QED  BY <1>9, <2>1, PatchesStay, GraphInvIs
<1>16. FromKnown'
  <2>1. ASSUME NEW n \in DOMAIN graph'.nodes, n \notin DOMAIN graph.nodes
        PROVE  \/ graph'.nodes[n].from = NoNode
               \/ graph'.nodes[n].from \in context.units
    <3>1. n \in DOMAIN ops /\ ops[n].adds = "node"
      BY <1>2, <1>7, <1>8, <2>1
    <3>2. PICK r \in Nat : graph'.nodes[n] = AddedNode(ops[n], r)
      BY <1>8, <2>1
    <3>3. ops[n].kind \in NodeKinds /\ ops[n].pinned \in BOOLEAN
            /\ ops[n].text \in Texts
      BY <1>4, <3>1, ShapeOf
    <3>4. graph'.nodes[n].from = ops[n].from
      BY <3>2, <3>3, AddedNodeFits
    <3>5. context.operation = "regenerate_stale" =>
            SuccessorsMatch(p, ops, context.units)
      BY <1>2 DEF Selected, RegenerationFits
    <3>6. ops[n].from \in {NoNode} \cup context.units
      BY <1>4, <1>5, <3>1, <3>5, AddedFrom
    <3>7. QED  BY <3>4, <3>6
  <2>2. \A n \in DOMAIN graph.nodes : graph'.nodes[n].from = graph.nodes[n].from
    BY <1>8
  <2>3. FromKnown
    BY GraphInvIs
  <2>4. \A n \in DOMAIN graph'.nodes :
          \/ graph'.nodes[n].from = NoNode
          \/ /\ n \in DOMAIN graph.nodes
             /\ graph'.nodes[n].from = graph.nodes[n].from
          \/ \E r \in DOMAIN runs : graph'.nodes[n].from \in runs[r].context.units
    BY <1>3, <2>1, <2>2
  <2>5. QED  BY <1>9, <2>3, <2>4, FromStays
<1>17. RunsFit'
  BY <1>9, GraphInvIs DEF RunsFit
<1>18. QED  BY <1>7, <1>10, <1>15, <1>16, <1>17, GraphInvIs

LEMMA ClearedKeeps ==
  ASSUME GraphInv, ReviewInv', Cleared
  PROVE  GraphInv'
<1>1. /\ graph'.nodes = <<>> /\ graph'.edges = <<>> /\ graph'.revision = 0
      /\ DOMAIN graph' = {"nodes", "edges", "revision"}
      /\ log' = <<>> /\ DOMAIN runs' = {} /\ DOMAIN patches' = {}
  BY DEF Cleared
<1>2. DOMAIN graph'.nodes = {} /\ DOMAIN graph'.edges = {} /\ DOMAIN log' = {}
  BY <1>1
<1>3. GraphFits(graph')
  BY <1>1, <1>2, FS_EmptySet
  DEF GraphFits, RowsFit, RootsHold, EdgesHold, StaleMarksHold
<1>4. LogInv'
  <2>1. log' \in Seq({log'[i] : i \in DOMAIN log'})
    BY <1>1, EmptySequence
  <2>2. Len(log') = 0
    BY <1>1
  <2>3. QED  BY <1>1, <1>2, <2>1, <2>2 DEF LogInv, LogFits, OperationsOnce
<1>5. PatchesAllFit'
  BY <1>1, PatchFitsForAll
<1>6. RunsFit' /\ FromKnown'
  BY <1>1, <1>2 DEF RunsFit, FromKnown
<1>7. QED  BY <1>3, <1>4, <1>5, <1>6, GraphInvIs

LEMMA GraphKeeps == GraphInv /\ [Next]_vars => GraphInv'
<1> SUFFICES ASSUME GraphInv, [Next]_vars
             PROVE  GraphInv'
  OBVIOUS
<1>1. ReviewInv /\ RunsFit /\ ReviewInv'
  BY GraphInvIs, ReviewKeeps
<1>2. CASE Still
  BY <1>1, <1>2, StillKeeps
<1>3. CASE Operated
  BY <1>1, <1>3, OperatedKeeps
<1>4. CASE UNCHANGED patches /\ \E q : Asking(q, Nobody)
  BY <1>1, <1>4, RequestedKeeps
<1>5. CASE \E p : Replacing(p) /\ \E q : Asking(q, p)
  BY <1>1, <1>5, ReplacingKeeps
<1>6. CASE \E r : Storing(r)
  BY <1>1, <1>6, StoringKeeps
<1>7. CASE \E p : Dismissed(p)
  BY <1>1, <1>7, DismissedKeeps
<1>8. CASE \E p : Applying(p)
  BY <1>1, <1>8, ApplyingKeeps
<1>9. CASE Cleared
  BY <1>1, <1>9, ClearedKeeps
<1>10. QED
  BY <1>1, <1>2, <1>3, <1>4, <1>5, <1>6, <1>7, <1>8, <1>9, Transitions

THEOREM GraphInvHolds == Spec => []GraphInv
BY InitFits, GraphKeeps, PTL DEF Spec

\* Whatever is edited, deleted, applied and regenerated in between, no edge
\* and no branch root dangles, and a node is marked stale exactly while a
\* cause of it stands, since the first of them (the keys, the check and the
\* triggers of graph/migrations/0001_initial.py, which operations.py,
\* staleness.py and patch_application.py never run into).
THEOREM GraphStaysConsistent == Spec => []GraphConsistent
<1>1. GraphInv => GraphConsistent
  BY DEF GraphInv, GraphFits, GraphConsistent
<1>2. QED  BY <1>1, GraphInvHolds, PTL

\* Nothing is done twice: every revision is one operation, no actor uses a
\* key again, and a patch has in the log exactly what was accepted of it
\* (apply_graph_operation and apply_graph_patch).
THEOREM NothingIsDoneTwice == Spec => []OperationsOnce
<1>1. GraphInv => OperationsOnce
  BY DEF GraphInv
<1>2. QED  BY <1>1, GraphInvHolds, PTL

\* What a review accepts rests on nothing it left out, a successor comes with
\* its lineage and its constraints, and a patch that is generated anew leaves
\* nothing behind (apply_graph_patch, regenerate_graph_patch).
THEOREM DecisionsHoldTogether == Spec => []DecisionsSound
<1>1. GraphInv => DecisionsSound
  BY DEF GraphInv
<1>2. QED  BY <1>1, GraphInvHolds, PTL

\* A run is given what fits the model, and of what is stale or rejected only
\* the nodes it is to replace (ContextBuilder.build).
THEOREM ContextsAreSound == Spec => []ContextSound
<1>1. GraphInv => ContextSound
  BY DEF GraphInv, RunsFit, ContextFits, ContextSound
<1>2. QED  BY <1>1, GraphInvHolds, PTL

------------------------------------------------------------------------------
(* Types.                                                                   *)

CanvasFits == canvas \in {"open", "deleting", "deleted"}

LEMMA CanvasKeeps == CanvasFits /\ [Next]_vars => CanvasFits'
<1> SUFFICES ASSUME CanvasFits, [Next]_vars
             PROVE  CanvasFits'
  OBVIOUS
<1>1. \/ canvas' = canvas
      \/ canvas' \in {"open", "deleting", "deleted"}
  BY DEF Next, vars, Direct, CreateRun, DeliverPatch, LockPatch, Review, Refuse,
         Reject, Regenerate, Apply, Answered, StartDeletion, FinishDeletion,
         BreakDeadlock
<1>2. QED  BY <1>1 DEF CanvasFits

LEMMA NodeRowsGrow ==
  ASSUME NEW ids, NEW all, NEW node \in NodeRows(ids),
         node.root \in all \cup {NoNode}, node.from \in all \cup {NoNode}
  PROVE  node \in NodeRows(all)
BY DEF NodeRows

\* Every variable holds a value of its type, rows and references included.
THEOREM TypesHold == Spec => []TypeOK
<1>1. Init => CanvasFits
  BY DEF Init, CanvasFits
<1>2. GraphInv /\ CanvasFits => TypeOK
  <2> SUFFICES ASSUME GraphInv, CanvasFits
               PROVE  TypeOK
    OBVIOUS
  <2>1. GraphFits(graph) /\ FromKnown
    BY DEF GraphInv
  <2>2. ASSUME NEW n \in DOMAIN graph.nodes
        PROVE  graph.nodes[n] \in NodeRows(Known)
    <3> DEFINE node == graph.nodes[n]
    <3>1. NodeFits(node)
      BY <2>1 DEF GraphFits, RowsFit
    <3>2. node.root # NoNode => node.root \in DOMAIN graph.nodes
      BY <2>1 DEF GraphFits, RootsHold
    <3>3. node.from \in
            {NoNode} \cup DOMAIN InitialGraph.nodes
              \cup UNION {runs[r].context.units : r \in DOMAIN runs}
      BY <2>1 DEF FromKnown
    <3>4. node.root \in Known \cup {NoNode} /\ node.from \in Known \cup {NoNode}
      BY <3>2, <3>3 DEF Known
    <3> HIDE DEF node
    <3>5. node \in NodeRows(Known)
      BY <3>1, <3>4, NodeRowsGrow DEF NodeFits
    <3>6. QED  BY <3>5 DEF node
  <2>3. ASSUME NEW e \in DOMAIN graph.edges
        PROVE  graph.edges[e] \in EdgeRows(Known)
    <3>1. EdgeFits(graph.edges[e])
      BY <2>1 DEF GraphFits, RowsFit
    <3>2. {graph.edges[e].source, graph.edges[e].target} \subseteq Known
      BY <2>1 DEF GraphFits, EdgesHold, Known
    <3>3. QED  BY <3>1, <3>2 DEF EdgeFits, EdgeRows
  <2>4. graph.revision \in Nat
    BY <2>1 DEF GraphFits, RowsFit
  <2>5. \A i \in DOMAIN log : log[i].actor \in {User} \cup DOMAIN patches
    BY DEF GraphInv, LogFits
  <2>6. /\ \A r \in DOMAIN runs : runs[r].parent \in {Nobody} \cup DOMAIN patches
        /\ DOMAIN patches \subseteq DOMAIN runs
        /\ held \subseteq DOMAIN patches
    BY DEF GraphInv, ReviewInv, ParentsDecided, PatchesFit
  <2>7. \A p \in DOMAIN patches :
          patches[p].status \in
            {"pending", "applied", "partially_applied", "rejected"}
    BY DEF GraphInv, PatchesDecided
  <2>8. QED
    BY <2>2, <2>3, <2>4, <2>5, <2>6, <2>7 DEF TypeOK, CanvasFits
<1>3. QED  BY <1>1, <1>2, CanvasKeeps, GraphInvHolds, PTL DEF Spec

------------------------------------------------------------------------------
(* Versions.                                                                *)

\* VersionsAdvanceOnce, of one node.
OneVersion(was, is, revision) ==
  /\ Meaning(is) # Meaning(was) => is.version = was.version + 1
  /\ is.version # was.version =>
       is.version = was.version + 1 /\ is.touched = revision
  /\ is.place # was.place => is = [was EXCEPT !.place = @ + 1]

LEMMA StepsAreOne ==
  ASSUME NEW was, NodeFits(was), NEW is, NEW revision, RowSteps(was, is, revision)
  PROVE  OneVersion(was, is, revision)
<1>1. DOMAIN was = {"kind", "review", "made", "root", "pinned", "text",
                    "against", "version", "place", "since", "causes",
                    "touched", "from"}
  BY RowIsWhole DEF NodeFits
<1>2. CASE \A f \in DOMAIN was \ {"causes"} : is[f] = was[f]
  <2>1. Meaning(is) = Meaning(was) /\ is.version = was.version
          /\ is.place = was.place
    BY <1>1, <1>2 DEF Meaning
  <2>2. QED  BY <2>1 DEF OneVersion
<1>3. CASE /\ is.version = was.version + 1 /\ is.touched = revision
           /\ is.place = was.place
  BY <1>3 DEF OneVersion
<1>4. CASE Moved(was, is)
  <2>1. \A f \in DOMAIN was \ {"place"} : is[f] = was[f]
    BY <1>4 DEF Moved
  <2>2. Meaning(is) = Meaning(was) /\ is.version = was.version
    BY <1>1, <2>1 DEF Meaning
  <2>3. QED  BY <1>4, <2>2 DEF OneVersion, Moved
<1>5. QED  BY <1>2, <1>3, <1>4 DEF RowSteps

\* What the steps do to the rows of the nodes that stay.
LEMMA NodesStep ==
  ASSUME GraphInv, [Next]_vars,
         NEW n \in DOMAIN graph.nodes, n \in DOMAIN graph'.nodes
  PROVE  \/ graph'.nodes[n] = graph.nodes[n]
         \/ RowSteps(graph.nodes[n], graph'.nodes[n], graph'.revision)
<1>1. CASE graph' = graph
  BY <1>1
<1>2. CASE Operated
  <2>1. PICK key, q, after, id :
          /\ Admitted(q)
          /\ after \in Handle(graph, q, id)
          /\ graph' = Committed(graph, q, after)
    BY <1>2 DEF Operated
  <2>2. Handled(graph, q, after)
    BY <2>1, HandleFits, GraphInvIs
  <2>3. QED  BY <2>1, <2>2, CommittedFits, GraphInvIs
<1>3. CASE \E p : Applying(p)
  <2>1. PICK p, selected, accepted, steps :
          Selected(p, selected, accepted, steps)
    BY <1>3, ApplyingIs
  <2>2. /\ steps \in Seq(accepted) /\ ToSet(steps) = accepted
        /\ graph' = Added(graph, patches[p].ops, steps)
    BY <2>1 DEF Selected
  <2>3. graph.revision \in Nat
    BY GraphInvIs DEF GraphFits, RowsFit
  <2>4. graph'.nodes[n] = graph.nodes[n]
    BY <2>2, <2>3, AddedIs
  <2>5. QED  BY <2>4
<1>4. CASE Cleared
  <2>1. graph'.nodes = <<>>
    BY <1>4 DEF Cleared
  <2>2. QED  BY <2>1
<1>5. QED
  BY <1>1, <1>2, <1>3, <1>4, Transitions, GraphInvIs
  DEF Still, Asking, Replacing, Storing, Dismissed

\* However many ways a transaction affects a node, it raises the version of
\* the node by one at most, and by one if it changes what the node means; a
\* move changes only the version of the place (the handlers and
\* mark_nodes_stale; applying a patch leaves what is there).
THEOREM VersionsAreRaisedOnce == Spec => VersionsAdvanceOnce
<1> DEFINE Once ==
      \A n \in DOMAIN graph.nodes \cap DOMAIN graph'.nodes :
        OneVersion(graph.nodes[n], graph'.nodes[n], graph'.revision)
<1>1. GraphInv /\ [Next]_vars => Once
  <2> SUFFICES ASSUME GraphInv, [Next]_vars,
                      NEW n \in DOMAIN graph.nodes \cap DOMAIN graph'.nodes
               PROVE  OneVersion(graph.nodes[n], graph'.nodes[n], graph'.revision)
    OBVIOUS
  <2>1. NodeFits(graph.nodes[n])
    BY GraphInvIs DEF GraphFits, RowsFit
  <2>2. CASE graph'.nodes[n] = graph.nodes[n]
    BY <2>2 DEF OneVersion
  <2>3. CASE RowSteps(graph.nodes[n], graph'.nodes[n], graph'.revision)
    BY <2>1, <2>3, StepsAreOne
  <2>4. QED  BY <2>2, <2>3, NodesStep
<1>2. Once <=>
        \A n \in DOMAIN graph.nodes \cap DOMAIN graph'.nodes :
          LET was == graph.nodes[n]
              is == graph'.nodes[n]
          IN  /\ Meaning(is) # Meaning(was) => is.version = was.version + 1
              /\ is.version # was.version =>
                   is.version = was.version + 1 /\ is.touched = graph'.revision
              /\ is.place # was.place => is = [was EXCEPT !.place = @ + 1]
  BY DEF OneVersion
<1> HIDE DEF Once
<1>3. QED  BY <1>1, <1>2, GraphInvHolds, PTL DEF Spec, VersionsAdvanceOnce

------------------------------------------------------------------------------
(* Successors.                                                              *)

\* SuccessorsParallel, of one patch and one unit.
Parallel(p, u) ==
  LET new == Successor(p, u)
      Copies(c) == {d \in DOMAIN graph'.nodes \ DOMAIN graph.nodes :
         /\ graph'.nodes[d].kind = "constraint"
         /\ graph'.nodes[d].root = new
         /\ graph'.nodes[d].text = graph.nodes[c].text
         /\ graph'.nodes[d].pinned = graph.nodes[c].pinned}
  IN  /\ \A n \in {u} \cup runs[p].context.members :
           graph'.nodes[n] = graph.nodes[n]
      /\ new \in DOMAIN graph'.nodes \ DOMAIN graph.nodes =>
           /\ graph'.nodes[new].kind = graph.nodes[u].kind
           /\ <<u, new>> \in Arrows(graph')
           /\ \A c \in AnchoredAt({u}) : Copies(c) # {}

LEMMA ApplyingParallel ==
  ASSUME GraphInv, NEW p, Applying(p), NEW u \in runs[p].context.units
  PROVE  Parallel(p, u)
<1> DEFINE ops == patches[p].ops
           context == runs[p].context
           new == Successor(p, u)
<1>1. p \in held /\ Pending(p)
  BY ApplyingIs
<1>2. PICK selected, accepted, steps :
        /\ selected \in SUBSET DOMAIN ops /\ Closed(ops, selected)
        /\ Selected(p, selected, accepted, steps)
  BY ApplyingIs
<1>3. p \in DOMAIN runs /\ PatchFits(p)
  BY <1>1, PendingAccepts
<1>4. WellFormed(context, ops)
  BY <1>3 DEF PatchFits, Stored
<1>5. PICK draft : Drafted(context, p, ops, draft)
  BY <1>3 DEF PatchFits, Stored
<1>6. ContextFits(context) /\ context.operation = "regenerate_stale"
  BY <1>3, GraphInvIs DEF RunsFit, ContextFits
<1>7. /\ accepted = selected \ Skipped(p, selected)
      /\ \A o \in accepted :
           /\ ops[o].needs \subseteq accepted
           /\ ~Conflicting(Restrict(ops, selected), o, selected)
      /\ steps \in Seq(accepted) /\ ToSet(steps) = accepted
      /\ graph' = Added(graph, ops, steps)
      /\ RegenerationFits(p, selected)
  BY <1>2, <1>6 DEF Selected
<1>8. /\ DOMAIN graph'.nodes = DOMAIN graph.nodes
                                 \cup {o \in accepted : ops[o].adds = "node"}
      /\ DOMAIN graph'.edges = DOMAIN graph.edges
                                 \cup {o \in accepted : ops[o].adds = "edge"}
      /\ \A n \in DOMAIN graph.nodes : graph'.nodes[n] = graph.nodes[n]
      /\ \A n \in {o \in accepted : ops[o].adds = "node"} \ DOMAIN graph.nodes :
           \E r \in Nat : graph'.nodes[n] = AddedNode(ops[n], r)
      /\ \A e \in {o \in accepted : ops[o].adds = "edge"} \ DOMAIN graph.edges :
           graph'.edges[e] = AddedEdge(ops[e])
  <2>1. graph.revision \in Nat
    BY GraphInvIs DEF GraphFits, RowsFit
  <2> HIDE DEF ops
  <2>2. QED  BY <1>7, <2>1, AddedIs
<1>9. ASSUME NEW o \in accepted, ops[o].adds = "node"
      PROVE  /\ o \in DOMAIN graph'.nodes \ DOMAIN graph.nodes
             /\ graph'.nodes[o].kind = ops[o].kind
             /\ graph'.nodes[o].root = ops[o].root
             /\ graph'.nodes[o].text = ops[o].text
             /\ graph'.nodes[o].pinned = ops[o].pinned
  <2>1. o \notin DOMAIN graph.nodes
    <3>1. Restrict(ops, selected)[o] = ops[o]
      BY <1>7 DEF Restrict
    <3>2. QED  BY <1>7, <1>9, <3>1 DEF Conflicting, NodeConflicts
  <2>2. PICK r \in Nat : graph'.nodes[o] = AddedNode(ops[o], r)
    BY <1>8, <1>9, <2>1
  <2>3. ops[o].kind \in NodeKinds /\ ops[o].pinned \in BOOLEAN
          /\ ops[o].text \in Texts
    BY <1>2, <1>4, <1>7, <1>9, ShapeOf
  <2>4. QED  BY <1>8, <1>9, <2>1, <2>2, <2>3, AddedNodeFits
<1>10. ASSUME NEW e \in accepted, ops[e].adds = "edge"
       PROVE  /\ e \in DOMAIN graph'.edges
              /\ graph'.edges[e] = AddedEdge(ops[e])
  <2>1. Restrict(ops, selected)[e] = ops[e]
    BY <1>7 DEF Restrict
  <2>2. e \notin DOMAIN graph.edges
    BY <1>7, <1>10, <2>1 DEF Conflicting, EdgeConflicts
  <2>3. QED  BY <1>8, <1>10, <2>2
<1>11. /\ TargetsStand(context)
       /\ SuccessorsMatch(p, ops, context.units)
       /\ ClonesMatch(p, ops, context.units)
  BY <1>7 DEF RegenerationFits
<1>12. \A n \in {u} \cup context.members : graph'.nodes[n] = graph.nodes[n]
  BY <1>8, <1>11 DEF TargetsStand
<1>13. ASSUME new \in DOMAIN graph'.nodes \ DOMAIN graph.nodes
       PROVE  /\ graph'.nodes[new].kind = graph.nodes[u].kind
              /\ <<u, new>> \in Arrows(graph')
              /\ \A c \in AnchoredAt({u}) :
                   \E d \in DOMAIN graph'.nodes \ DOMAIN graph.nodes :
                     /\ graph'.nodes[d].kind = "constraint"
                     /\ graph'.nodes[d].root = new
                     /\ graph'.nodes[d].text = graph.nodes[c].text
                     /\ graph'.nodes[d].pinned = graph.nodes[c].pinned
  <2>1. new \in accepted /\ ops[new].adds = "node"
    BY <1>8, <1>13
  <2>2. Group(p, u) \subseteq accepted
    <3>1. new \in Group(p, u)
      BY DEF Group
    <3>2. Group(p, u) \subseteq accepted \/ Group(p, u) \cap accepted = {}
      BY <1>2, <1>4, <1>5, <1>6, <1>7, GroupsWhole
    <3>3. QED  BY <2>1, <3>1, <3>2
  <2> DEFINE tie == ops[Lineage(p, u)]
  <2>3. /\ new \in DOMAIN ops /\ Lineage(p, u) \in DOMAIN ops
        /\ ops[new].kind \in RootKinds /\ ops[new].from = u
        /\ tie.adds = "edge" /\ tie.kind = "evolves_into"
        /\ tie.source = u /\ tie.target = new
    BY <1>11 DEF SuccessorsMatch
  <2>4. graph'.nodes[new].kind = graph.nodes[u].kind
    <3>1. ops[new].kind = graph.nodes[u].kind
      BY <1>11, <2>1, <2>3 DEF SuccessorsMatch
    <3>2. QED  BY <1>9, <2>1, <3>1
  <2>5. <<u, new>> \in Arrows(graph')
    <3>1. Lineage(p, u) \in accepted
      BY <2>2 DEF Group
    <3>2. /\ Lineage(p, u) \in DOMAIN graph'.edges
          /\ graph'.edges[Lineage(p, u)] = AddedEdge(tie)
      BY <1>10, <2>3, <3>1
    <3>3. Dependency(AddedEdge(tie)) = <<u, new>>
      BY <2>3 DEF Dependency, AddedEdge
    <3>4. QED  BY <3>2, <3>3 DEF Arrows
  <2>6. ASSUME NEW c \in AnchoredAt({u})
        PROVE  \E d \in DOMAIN graph'.nodes \ DOMAIN graph.nodes :
                 /\ graph'.nodes[d].kind = "constraint"
                 /\ graph'.nodes[d].root = new
                 /\ graph'.nodes[d].text = graph.nodes[c].text
                 /\ graph'.nodes[d].pinned = graph.nodes[c].pinned
    <3>1. c \in AnchoredAt(context.units) /\ graph.nodes[c].root = u
      BY <2>6 DEF AnchoredAt
    <3>2. PICK o \in Clones(ops) : o[3] = c
      BY <1>11, <3>1 DEF ClonesMatch
    <3>3. /\ ops[o].root = new /\ ops[o].text = graph.nodes[c].text
          /\ ops[o].pinned = graph.nodes[c].pinned
      BY <1>11, <3>1, <3>2 DEF ClonesMatch
    <3>4. ops[o].adds = "node" /\ ops[o].kind = "constraint"
      BY <3>2 DEF Clones
    <3>5. o \in accepted
      BY <2>2, <3>2, <3>3 DEF Group
    <3>6. QED  BY <1>9, <3>3, <3>4, <3>5
  <2>7. QED  BY <2>4, <2>5, <2>6
<1> DEFINE Copies(c) == {d \in DOMAIN graph'.nodes \ DOMAIN graph.nodes :
              /\ graph'.nodes[d].kind = "constraint"
              /\ graph'.nodes[d].root = new
              /\ graph'.nodes[d].text = graph.nodes[c].text
              /\ graph'.nodes[d].pinned = graph.nodes[c].pinned}
<1>14. new \in DOMAIN graph'.nodes \ DOMAIN graph.nodes =>
         \A c \in AnchoredAt({u}) : Copies(c) # {}
  BY <1>13
<1>15. QED  BY <1>12, <1>13, <1>14 DEF Parallel

\* Applying a regeneration leaves what it replaces and the causes of its
\* staleness as they were; each new successor is tied to its predecessor and
\* has a copy of every constraint that is anchored there now
\* (_validate_regeneration_application, _apply_candidate).
THEOREM SuccessorsStandBeside == Spec => SuccessorsParallel
<1> DEFINE AppliedNow(p) ==
      /\ p \in DOMAIN patches' /\ patches[p].status = "pending"
      /\ patches'[p].status \in {"applied", "partially_applied"}
    Stand == \A p \in DOMAIN patches :
      AppliedNow(p) => \A u \in runs[p].context.units : Parallel(p, u)
<1>1. GraphInv /\ [Next]_vars => Stand
  <2> SUFFICES ASSUME GraphInv, [Next]_vars, NEW p \in DOMAIN patches,
                      AppliedNow(p)
               PROVE  \A u \in runs[p].context.units : Parallel(p, u)
    OBVIOUS
  <2>1. CASE UNCHANGED patches
    BY <2>1
  <2>2. ASSUME NEW q, Replacing(q)
        PROVE  FALSE
    <3>1. /\ q \in DOMAIN patches /\ DOMAIN patches[q] = PatchFields
          /\ patches' = [patches EXCEPT
               ![q] = [Decided(@, {}, {}) EXCEPT !.linked = Len(runs) + 1]]
      BY <2>2, PendingAccepts DEF Replacing
    <3>2. patches'[q].status = "rejected"
      BY <3>1, RejectedIs
    <3>3. QED  BY <3>1, <3>2
  <2>3. ASSUME NEW q, Dismissed(q)
        PROVE  FALSE
    <3>1. /\ q \in DOMAIN patches /\ DOMAIN patches[q] = PatchFields
          /\ patches' = [patches EXCEPT ![q] = Decided(@, {}, {})]
      BY <2>3, PendingAccepts DEF Dismissed
    <3>2. patches'[q].status = "rejected"
      BY <3>1, DecidedIs
    <3>3. QED  BY <3>1, <3>2
  <2>4. ASSUME NEW r, Storing(r)
        PROVE  FALSE
    <3>1. PICK row : patches' = Inserted(patches, r, row)
      BY <2>4 DEF Storing
    <3>2. /\ DOMAIN Inserted(patches, r, row) = DOMAIN patches \cup {r}
          /\ \A x \in DOMAIN patches : Inserted(patches, r, row)[x] = patches[x]
          /\ r \notin DOMAIN patches => Inserted(patches, r, row)[r] = row
      BY Zenon, InsertedIs
    <3>3. QED  BY <3>1, <3>2
  <2>5. ASSUME NEW q, Applying(q)
        PROVE  \A u \in runs[p].context.units : Parallel(p, u)
    <3>1. \A r \in DOMAIN patches \ {q} : patches'[r] = patches[r]
      BY <2>5, ApplyingIs DEF Selected
    <3>2. p = q
      BY <3>1
    <3>3. QED  BY <2>5, <3>2, ApplyingParallel
  <2>6. CASE Cleared
    <3>1. DOMAIN patches' = {}
      BY <2>6 DEF Cleared
    <3>2. QED  BY <3>1
  <2>7. QED
    BY <2>1, <2>2, <2>3, <2>4, <2>5, <2>6, Transitions, GraphInvIs
    DEF Still, Operated
<1>2. Stand <=>
        \A p \in DOMAIN patches :
          LET context == runs[p].context IN
          (p \in DOMAIN patches' /\ patches[p].status = "pending"
             /\ patches'[p].status \in {"applied", "partially_applied"}) =>
            \A u \in context.units :
              LET new == Successor(p, u)
                  Copies(c) == {d \in DOMAIN graph'.nodes \ DOMAIN graph.nodes :
                     /\ graph'.nodes[d].kind = "constraint"
                     /\ graph'.nodes[d].root = new
                     /\ graph'.nodes[d].text = graph.nodes[c].text
                     /\ graph'.nodes[d].pinned = graph.nodes[c].pinned}
              IN  /\ \A n \in {u} \cup context.members :
                       graph'.nodes[n] = graph.nodes[n]
                  /\ new \in DOMAIN graph'.nodes \ DOMAIN graph.nodes =>
                       /\ graph'.nodes[new].kind = graph.nodes[u].kind
                       /\ <<u, new>> \in Arrows(graph')
                       /\ \A c \in AnchoredAt({u}) : Copies(c) # {}
  BY DEF Parallel
<1> HIDE DEF Stand
<1>3. QED  BY <1>1, <1>2, GraphInvHolds, PTL DEF Spec, SuccessorsParallel

------------------------------------------------------------------------------
(* What turns stale.                                                        *)

\* The pairs in short, one arrow longer.
Lengthened(short, arrows) ==
  {<<both[1][1], both[2][2]>> : both \in {b \in short \X arrows : b[1][2] = b[2][1]}}

\* The recursion of Descent, up to m.
Descends(w, m, arrows) ==
  w = [i \in 0..m |->
         IF i = 0 THEN arrows
         ELSE LET short == w[i - 1]
              IN  short \cup {<<both[1][1], both[2][2]>> :
                     both \in {b \in short \X arrows : b[1][2] = b[2][1]}}]

\* That recursion has a solution, as it reads only what is before.
LEMMA DescentExists ==
  ASSUME NEW arrows
  PROVE  \A m \in Nat : \E w : Descends(w, m, arrows)
<1> DEFINE Done == {m \in Nat : \E w : Descends(w, m, arrows)}
           At(u, i) == IF i = 0 THEN arrows
                       ELSE u[i - 1] \cup Lengthened(u[i - 1], arrows)
<1>1. \A w, m : Descends(w, m, arrows) <=> w = [i \in 0..m |-> At(w, i)]
  BY DEF Descends, Lengthened
<1> HIDE DEF At
<1>2. 0 \in Done
  <2> DEFINE w == [i \in 0..0 |-> arrows]
  <2>1. \A i \in 0..0 : At(w, i) = arrows
    BY DEF At
  <2>2. w = [i \in 0..0 |-> At(w, i)]
    BY <2>1
  <2> HIDE DEF w
  <2>3. QED  BY <1>1, <2>2
<1>3. \A m \in Nat : m \in Done => m + 1 \in Done
  <2> SUFFICES ASSUME NEW m \in Nat, m \in Done
               PROVE  m + 1 \in Done
    OBVIOUS
  <2>1. PICK w : w = [i \in 0..m |-> At(w, i)]
    BY <1>1
  <2> DEFINE last == At(w, m + 1)
             v == [i \in 0..(m + 1) |-> IF i = m + 1 THEN last ELSE w[i]]
  <2>2. /\ v[m + 1] = last
        /\ \A i \in 0..m : v[i] = w[i]
        /\ v = [i \in 0..(m + 1) |-> v[i]]
    OBVIOUS
  <2> HIDE DEF v
  <2>3. ASSUME NEW i \in 0..(m + 1)
        PROVE  v[i] = At(v, i)
    <3>1. i # 0 => v[i - 1] = w[i - 1]
      BY <2>2
    <3>2. At(v, i) = At(w, i)
      BY <3>1 DEF At
    <3>3. CASE i = m + 1
      BY <2>2, <3>2, <3>3
    <3>4. CASE i \in 0..m
      BY <2>1, <2>2, <3>2, <3>4
    <3>5. QED  BY <3>3, <3>4
  <2>4. v = [i \in 0..(m + 1) |-> At(v, i)]
    BY <2>2, <2>3
  <2>5. QED  BY <1>1, <2>4
<1> HIDE DEF Done
<1>4. \A m \in Nat : m \in Done
  BY <1>2, <1>3, NatInd
<1>5. QED  BY <1>4 DEF Done

LEMMA DescentLevels ==
  ASSUME NEW arrows, IsFiniteSet(arrows)
  PROVE  \E paths :
           /\ paths[0] = arrows
           /\ \A i \in 1..Cardinality(arrows) :
                paths[i] = paths[i - 1] \cup Lengthened(paths[i - 1], arrows)
           /\ paths[Cardinality(arrows)] = Descent(arrows)
<1> DEFINE m == Cardinality(arrows)
           w == CHOOSE x : Descends(x, m, arrows)
<1>1. m \in Nat
  BY FS_CardinalityType
<1>2. Descent(arrows) = w[m]
  BY Zenon DEF Descent, Descends
<1>3. Descends(w, m, arrows)
  <2>1. \E x : Descends(x, m, arrows)
    BY <1>1, DescentExists
  <2>2. QED  BY <2>1
<1> HIDE DEF w, m
<1>4. w[0] = arrows
  BY <1>1, <1>3 DEF Descends
<1>5. \A i \in 1..m : w[i] = w[i - 1] \cup Lengthened(w[i - 1], arrows)
  <2> SUFFICES ASSUME NEW i \in 1..m
               PROVE  w[i] = w[i - 1] \cup Lengthened(w[i - 1], arrows)
    OBVIOUS
  <2>1. i \in 0..m /\ i # 0
    BY <1>1
  <2>2. QED  BY <1>3, <2>1 DEF Descends, Lengthened
<1>6. QED  BY <1>2, <1>4, <1>5 DEF m

\* Walking down from nodes reaches what the traversal reaches from them.
LEMMA BelowIs ==
  ASSUME NEW g, IsFiniteSet(DOMAIN g.edges), NEW ids
  PROVE  ids \cup Below(g, ids) = Reachable(Arrows(g), ids)
<1> DEFINE arrows == Arrows(g)
           m == Cardinality(arrows)
           R == Reachable(arrows, ids)
           Ends(some) == {x[2] : x \in {y \in some : y[1] \in ids}}
<1>1. IsFiniteSet(arrows)
  BY ArrowsAreFinite
<1>2. m \in Nat
  BY <1>1, FS_CardinalityType
<1>3. ids \subseteq R /\ Heads(arrows, R) \subseteq R
  BY <1>1, ReachableIs
<1>4. Below(g, ids) = Ends(Descent(arrows))
  BY DEF Below
<1> HIDE DEF arrows
<1>5. PICK level :
        /\ level[0] = ids
        /\ \A d \in 1..m : level[d] = level[d - 1] \cup Heads(arrows, level[d - 1])
        /\ level[m] = R
  BY <1>1, SearchLevels
<1>6. PICK paths :
        /\ paths[0] = arrows
        /\ \A i \in 1..m : paths[i] = paths[i - 1] \cup Lengthened(paths[i - 1], arrows)
        /\ paths[m] = Descent(arrows)
  BY <1>1, DescentLevels
<1> HIDE DEF m
<1>7. ASSUME NEW d \in Nat, d + 1 <= m
      PROVE  /\ level[d + 1] = level[d] \cup Heads(arrows, level[d])
             /\ paths[d + 1] = paths[d] \cup Lengthened(paths[d], arrows)
  <2>1. d + 1 \in 1..m /\ d + 1 - 1 = d
    BY <1>2, <1>7
  <2>2. QED  BY <1>5, <1>6, <2>1
<1>8. R \subseteq ids \cup Below(g, ids)
  <2> DEFINE S == {d \in Nat : d <= m => /\ arrows \subseteq paths[d]
                                         /\ level[d] \subseteq ids \cup Ends(paths[d])}
  <2>1. 0 \in S
    BY <1>5, <1>6
  <2>2. ASSUME NEW d \in Nat, d \in S, d + 1 <= m
        PROVE  /\ arrows \subseteq paths[d + 1]
               /\ level[d + 1] \subseteq ids \cup Ends(paths[d + 1])
    <3>1. arrows \subseteq paths[d] /\ level[d] \subseteq ids \cup Ends(paths[d])
      BY <1>2, <2>2
    <3>2. paths[d] \subseteq paths[d + 1] /\ Lengthened(paths[d], arrows) \subseteq paths[d + 1]
      BY <1>7, <2>2
    <3>3. level[d + 1] = level[d] \cup Heads(arrows, level[d])
      BY <1>7, <2>2
    <3>4. ASSUME NEW n \in Heads(arrows, level[d])
          PROVE  n \in Ends(paths[d + 1])
      <4>1. PICK a \in arrows : a[1] \in level[d] /\ a[2] = n
        BY DEF Heads
      <4>2. CASE a[1] \in ids
        BY <3>1, <3>2, <4>1, <4>2
      <4>3. CASE a[1] \in Ends(paths[d])
        <5>1. PICK x \in paths[d] : x[1] \in ids /\ x[2] = a[1]
          BY <4>3
        <5> DEFINE b == <<x, a>>
                   longer == <<b[1][1], b[2][2]>>
        <5>2. b \in paths[d] \X arrows /\ b[1][2] = b[2][1]
          BY <4>1, <5>1
        <5>3. longer \in Lengthened(paths[d], arrows)
          BY <5>2 DEF Lengthened
        <5>4. longer[1] = x[1] /\ longer[2] = n
          BY <4>1
        <5> HIDE DEF longer
        <5>5. QED  BY <3>2, <5>1, <5>3, <5>4
      <4>4. QED  BY <3>1, <4>1, <4>2, <4>3
    <3>5. Ends(paths[d]) \subseteq Ends(paths[d + 1])
      BY <3>2
    <3> HIDE DEF Ends
    <3>6. QED  BY <3>1, <3>2, <3>3, <3>4, <3>5
  <2>3. \A d \in Nat : d \in S => d + 1 \in S
    <3> HIDE DEF Ends
    <3>1. QED  BY <2>2
  <2> HIDE DEF S
  <2>4. \A d \in Nat : d \in S
    BY <2>1, <2>3, NatInd
  <2>5. m \in S /\ m <= m
    BY <1>2, <2>4
  <2>6. QED  BY <1>4, <1>5, <1>6, <2>5 DEF S
<1>9. Below(g, ids) \subseteq R
  <2> DEFINE S == {d \in Nat : d <= m => \A x \in paths[d] : x[1] \in R => x[2] \in R}
  <2>1. \A a \in arrows : a[1] \in R => a[2] \in R
    BY <1>3 DEF Heads
  <2>2. 0 \in S
    BY <1>6, <2>1
  <2>3. ASSUME NEW d \in Nat, d \in S, d + 1 <= m, NEW x \in paths[d + 1], x[1] \in R
        PROVE  x[2] \in R
    <3>1. \A y \in paths[d] : y[1] \in R => y[2] \in R
      BY <1>2, <2>3
    <3>2. CASE x \in paths[d]
      BY <2>3, <3>1, <3>2
    <3>3. CASE x \in Lengthened(paths[d], arrows)
      <4>1. PICK b \in paths[d] \X arrows :
              b[1][2] = b[2][1] /\ x = <<b[1][1], b[2][2]>>
        BY <3>3 DEF Lengthened
      <4>2. b[1] \in paths[d] /\ b[2] \in arrows /\ b[1][1] \in R /\ x[2] = b[2][2]
        BY <2>3, <4>1
      <4>3. b[2][1] \in R
        BY <3>1, <4>1, <4>2
      <4>4. QED  BY <2>1, <4>2, <4>3
    <3>4. QED  BY <1>7, <2>3, <3>2, <3>3
  <2>4. \A d \in Nat : d \in S => d + 1 \in S
    BY <2>3
  <2> HIDE DEF S
  <2>5. \A d \in Nat : d \in S
    BY <2>2, <2>4, NatInd
  <2>6. m \in S /\ m <= m
    BY <1>2, <2>5
  <2>7. \A x \in Descent(arrows) : x[1] \in R => x[2] \in R
    BY <1>6, <2>6 DEF S
  <2>8. QED  BY <1>3, <1>4, <2>7
<1>10. QED  BY <1>3, <1>8, <1>9 DEF arrows

\* The new cause is at the rows that are affected and may turn stale.
LEMMA CommittedMarks ==
  ASSUME NEW g, GraphFits(g), NEW q, NEW after, Handled(g, q, after)
  PROVE  LET next == Committed(g, q, after) IN
         /\ DOMAIN next.nodes = DOMAIN after.nodes
         /\ next.edges = after.edges /\ next.revision = g.revision + 1
         /\ \A n \in DOMAIN next.nodes :
              next.revision \in next.nodes[n].causes <=>
                /\ n \in Invalidated(after, q, Capture(g, q))
                /\ Eligible(next.nodes[n])
<1> DEFINE revision == g.revision + 1
           affected == Invalidated(after, q, Capture(g, q))
           nodes == MarkStale(after.nodes, affected, revision)
           next == Committed(g, q, after)
           Hit(n) == n \in affected /\ Eligible(after.nodes[n])
<1>1. next = [after EXCEPT !.nodes = nodes, !.revision = revision]
  BY DEF Committed
<1>2. /\ GraphFits(after) /\ after.revision = g.revision
      /\ DOMAIN after = {"nodes", "edges", "revision"}
      /\ g.revision \in Nat /\ revision \in Nat \ {0}
  BY DEF Handled, GraphFits, RowsFit
<1>3. /\ DOMAIN nodes = DOMAIN after.nodes
      /\ \A n \in DOMAIN after.nodes :
           nodes[n] = IF Hit(n) THEN Marked(after.nodes[n], revision)
                      ELSE after.nodes[n]
  BY DEF MarkStale, Marked
<1> HIDE DEF affected, nodes, next
<1>4. /\ next.nodes = nodes /\ next.edges = after.edges /\ next.revision = revision
  BY <1>1, <1>2
<1>5. ASSUME NEW n \in DOMAIN after.nodes
      PROVE  revision \in nodes[n].causes <=> n \in affected /\ Eligible(nodes[n])
  <2> DEFINE was == after.nodes[n]
  <2>1. /\ NodeFits(was)
        /\ Stale(was) <=> was.causes # {}
        /\ was.causes \subseteq 1..(revision - 1)
        /\ Stale(was) => was.since = Min(was.causes)
    BY <1>2 DEF GraphFits, RowsFit, StaleMarksHold
  <2>2. revision \notin was.causes
    BY <1>2, <2>1
  <2>3. CASE ~Hit(n)
    BY <1>3, <2>2, <2>3
  <2>4. CASE Hit(n)
    <3>1. Eligible(was) /\ n \in affected
      BY <2>4
    <3>2. nodes[n] = Marked(was, revision)
      BY <1>3, <2>4
    <3> HIDE DEF was, revision
    <3>3. LET is == Marked(was, revision) IN
          /\ is.kind = was.kind /\ is.review = was.review
          /\ is.causes = was.causes \cup {revision}
      BY <1>2, <2>1, MarkedFits
    <3>4. QED  BY <3>1, <3>2, <3>3 DEF Eligible
  <2>5. QED  BY <2>3, <2>4
<1>6. QED  BY <1>3, <1>4, <1>5 DEF next, affected

\* What can be reached from nodes of a graph are nodes of it.
LEMMA ReachedNodes ==
  ASSUME NEW g, IsFiniteSet(DOMAIN g.edges), EdgesHold(g),
         NEW roots \in SUBSET DOMAIN g.nodes
  PROVE  Reachable(Arrows(g), roots) \subseteq DOMAIN g.nodes
<1>1. \A a \in Arrows(g) : a[2] \in DOMAIN g.nodes
  BY DEF Arrows, Dependency, EdgesHold
<1>2. Heads(Arrows(g), DOMAIN g.nodes) \subseteq DOMAIN g.nodes
  BY <1>1 DEF Heads
<1>3. QED  BY <1>2, ArrowsAreFinite, ReachableIs

\* An arrow into the only root makes no difference.
LEMMA ReachedWithout ==
  ASSUME NEW some, NEW all, IsFiniteSet(all), some \subseteq all, NEW root,
         \A a \in all \ some : a[2] = root
  PROVE  Reachable(some, {root}) = Reachable(all, {root})
<1>1. IsFiniteSet(some)
  BY FS_Subset
<1> DEFINE A == Reachable(some, {root})
           B == Reachable(all, {root})
<1>2. {root} \subseteq A /\ Heads(some, A) \subseteq A
  BY <1>1, ReachableIs
<1>3. {root} \subseteq B /\ Heads(all, B) \subseteq B
  BY ReachableIs
<1>4. Heads(all, A) \subseteq A
  BY <1>2 DEF Heads
<1>5. Heads(some, B) \subseteq B
  BY <1>3 DEF Heads
<1>6. B \subseteq A
  BY <1>2, <1>4, ReachableIs
<1>7. A \subseteq B
  BY <1>1, <1>3, <1>5, ReachableIs
<1>8. QED  BY <1>6, <1>7

\* Nor does a root that can be reached from the others.
LEMMA ReachedThrough ==
  ASSUME NEW arrows, IsFiniteSet(arrows), NEW root, NEW roots,
         root \in roots, roots \subseteq Reachable(arrows, {root})
  PROVE  Reachable(arrows, roots) = Reachable(arrows, {root})
<1>1. /\ {root} \subseteq Reachable(arrows, {root})
      /\ Heads(arrows, Reachable(arrows, {root})) \subseteq Reachable(arrows, {root})
  BY ReachableIs
<1>2. /\ {root} \subseteq Reachable(arrows, roots)
      /\ Heads(arrows, Reachable(arrows, roots)) \subseteq Reachable(arrows, roots)
  BY ReachableIs
<1>3. Reachable(arrows, roots) \subseteq Reachable(arrows, {root})
  BY <1>1, ReachableIs
<1>4. Reachable(arrows, {root}) \subseteq Reachable(arrows, roots)
  BY <1>2, ReachableIs
<1>5. QED  BY <1>3, <1>4

\* What a direct operation invalidates is what the documents call affected.
LEMMA InvalidatedIs ==
  ASSUME NEW g, GraphFits(g), NEW q, Admitted(q), NEW id,
         NEW after \in Handle(g, q, id), GraphFits(after),
         NEW h, h.edges = after.edges
  PROVE  /\ Invalidated(after, q, Capture(g, q)) = Affected(g, h, q)
         /\ Affected(g, h, q) \subseteq DOMAIN after.nodes
<1> DEFINE told == Invalidated(after, q, Capture(g, q))
           From(x, roots) == Reachable(Arrows(x), roots)
<1>1. /\ IsFiniteSet(DOMAIN g.edges) /\ IsFiniteSet(DOMAIN after.edges)
      /\ IsFiniteSet(DOMAIN h.edges)
      /\ EdgesHold(g) /\ EdgesHold(after)
      /\ DOMAIN g = {"nodes", "edges", "revision"}
  BY DEF GraphFits, RowsFit
<1>2. Arrows(h) = Arrows(after)
  BY DEF Arrows
<1>3. \A x \in {g, after, h} : \A ids : ids \cup Below(x, ids) = From(x, ids)
  BY <1>1, BelowIs
<1>4. \A x \in {g, after} : \A ids :
        ids \subseteq DOMAIN x.nodes => From(x, ids) \subseteq DOMAIN x.nodes
  BY <1>1, ReachedNodes
<1>5. From(after, {}) = {}
  BY <1>1, ArrowsAreFinite, NothingReached
<1>6. CASE q.op \in {"ADD_NODE", "MOVE_NODE", "ADD_EDGE"}
  <2>1. Capture(g, q) = NoCapture
    BY <1>6 DEF Capture
  <2>2. told = {}
    BY <1>5, <1>6, <2>1 DEF Invalidated, NoCapture, Dependents
  <2>3. Affected(g, h, q) = {}
    BY <1>6 DEF Affected
  <2>4. QED  BY <2>2, <2>3
<1>7. CASE q.op = "DELETE_NODE"
  <2>1. IncidentEdges(g, q.node) = {}
    BY <1>7 DEF Handle, DeleteNode, Refused
  <2>2. Heads(Arrows(g), {q.node}) = {}
    BY <2>1 DEF Heads, Arrows, Dependency, IncidentEdges
  <2>3. From(g, {q.node}) \subseteq {q.node}
    BY <1>1, <2>2, ArrowsAreFinite, ReachableIs
  <2>4. Capture(g, q) = NoCapture
    <3>1. Dependents(Arrows(g), {q.node}, FALSE, {q.node}) = {}
      BY <2>3 DEF Dependents
    <3>2. QED  BY <1>7, <3>1 DEF Capture, NoCapture
  <2>5. told = {}
    BY <1>5, <1>7, <2>4 DEF Invalidated, NoCapture, Dependents
  <2>6. Affected(g, h, q) = {}
    BY <1>7 DEF Affected
  <2>7. QED  BY <2>5, <2>6
<1>8. CASE q.op \in {"UPDATE_NODE", "PATCH_NODE_METADATA"}
  <2>1. q.node \in DOMAIN g.nodes /\ DOMAIN after.nodes = DOMAIN g.nodes
    BY <1>1, <1>8 DEF Handle, ChangeNode, Refused, Matches
  <2>2. told = From(after, {q.node}) \ {q.node}
    BY <1>8 DEF Invalidated, Capture, NoCapture, Dependents
  <2>3. Affected(g, h, q) = Below(h, {q.node}) \ {q.node}
    BY <1>8 DEF Affected
  <2>4. {q.node} \cup Below(h, {q.node}) = From(after, {q.node})
    BY <1>2, <1>3
  <2>5. From(after, {q.node}) \subseteq DOMAIN after.nodes
    BY <1>4, <2>1
  <2>6. QED  BY <2>2, <2>3, <2>4, <2>5
<1>9. CASE q.op = "DELETE_EDGE"
  <2> DEFINE lost == Dependency(g.edges[q.edge])[2]
  <2>1. /\ q.edge \in DOMAIN g.edges
        /\ after.edges = Restrict(g.edges, DOMAIN g.edges \ {q.edge})
        /\ after.nodes = g.nodes
    BY <1>1, <1>9 DEF Handle, DeleteEdge, Refused, Matches
  <2>2. told = From(after, {lost})
    BY <1>9, <2>1 DEF Invalidated, Capture, NoCapture, Dependents
  <2>3. Affected(g, h, q) = {lost} \cup Below(g, {lost})
    BY <1>9 DEF Affected
  <2>4. /\ Arrows(after) \subseteq Arrows(g)
        /\ \A a \in Arrows(g) \ Arrows(after) : a = Dependency(g.edges[q.edge])
    BY <2>1 DEF Arrows, Restrict
  <2>5. From(after, {lost}) = From(g, {lost})
    <3>1. \A a \in Arrows(g) \ Arrows(after) : a[2] = lost
      BY <2>4
    <3>2. IsFiniteSet(Arrows(g))
      BY <1>1, ArrowsAreFinite
    <3> HIDE DEF lost
    <3>3. QED  BY <2>4, <3>1, <3>2, ReachedWithout
  <2>6. lost \in DOMAIN g.nodes
    BY <1>1, <2>1 DEF EdgesHold, Dependency
  <2>7. From(g, {lost}) \subseteq DOMAIN g.nodes
    BY <1>4, <2>6
  <2>8. {lost} \cup Below(g, {lost}) = From(g, {lost})
    BY <1>3
  <2>9. QED  BY <2>1, <2>2, <2>3, <2>5, <2>7, <2>8
<1>10. CASE q.op = "UPDATE_EDGE"
  <2> DEFINE old == Dependency(g.edges[q.edge])[2]
             new == Dependency(after.edges[q.edge])[2]
  <2>1. /\ q.edge \in DOMAIN g.edges /\ q.edge \in DOMAIN after.edges
        /\ after.nodes = g.nodes
    BY <1>1, <1>10 DEF Handle, ChangeEdge, Refused, Matches
  <2>2. told = From(after, {old, new})
    <3>1. {old} \cup {new} = {old, new}
      OBVIOUS
    <3>2. Capture(g, q) = [NoCapture EXCEPT !.roots = {old}, !.include = TRUE]
      BY <1>10, <2>1 DEF Capture
    <3>3. told = Dependents(Arrows(after), {old} \cup {new}, TRUE, {})
      BY <1>10, <3>2 DEF Invalidated, NoCapture
    <3>4. QED  BY <3>1, <3>3 DEF Dependents
  <2>3. Affected(g, h, q) = {old, new} \cup Below(h, {old, new})
    <3>1. {Dependency(x.edges[q.edge])[2] : x \in {g, h}} = {old, new}
      OBVIOUS
    <3>2. QED  BY <1>10, <3>1 DEF Affected
  <2>4. {old, new} \cup Below(h, {old, new}) = From(after, {old, new})
    BY <1>2, <1>3
  <2>5. old \in DOMAIN g.nodes /\ new \in DOMAIN after.nodes
    BY <1>1, <2>1 DEF EdgesHold, Dependency
  <2>6. From(after, {old, new}) \subseteq DOMAIN after.nodes
    BY <1>4, <2>1, <2>5
  <2>7. QED  BY <2>2, <2>3, <2>4, <2>6
<1>11. CASE q.op = "REPLACE_ASSUMPTION"
  <2> DEFINE owners == Owners(g, q.node)
  <2>1. /\ after.edges = g.edges /\ DOMAIN after.nodes = DOMAIN g.nodes
    BY <1>1, <1>11 DEF Handle, ReplaceAssumption, Refused, Matches
  <2>2. Arrows(after) = Arrows(g)
    BY <2>1 DEF Arrows
  <2>3. told = From(g, owners) \ {q.node}
    BY <1>11, <2>2 DEF Invalidated, Capture, NoCapture, Dependents
  <2>4. Affected(g, h, q) = (owners \cup Below(g, owners)) \ {q.node}
    BY <1>11 DEF Affected
  <2>5. owners \cup Below(g, owners) = From(g, owners)
    BY <1>3
  <2>6. owners \subseteq DOMAIN g.nodes
    BY DEF Owners
  <2>7. From(g, owners) \subseteq DOMAIN g.nodes
    BY <1>4, <2>6
  <2>8. QED  BY <2>1, <2>3, <2>4, <2>5, <2>7
<1>12. CASE q.op = "REJECT_EVIDENCE"
  <2> DEFINE way == Waypoints(g, q.node)
  <2>1. /\ after.edges = g.edges /\ DOMAIN after.nodes = DOMAIN g.nodes
        /\ Evidence(g, q.node)
    BY <1>1, <1>12 DEF Handle, RejectEvidence, Refused, Matches, Evidence
  <2>2. Arrows(after) = Arrows(g)
    BY <2>1 DEF Arrows
  <2>3. told = From(g, way) \ way
    BY <1>12, <2>1, <2>2 DEF Invalidated, Capture, NoCapture, Dependents
  <2>4. Affected(g, h, q) = Below(g, {q.node}) \ way
    BY <1>12 DEF Affected
  <2>5. From(g, way) = From(g, {q.node})
    <3>1. {q.node} \cup Heads(Arrows(g), {q.node}) \subseteq From(g, {q.node})
      <4>1. /\ {q.node} \subseteq From(g, {q.node})
            /\ Heads(Arrows(g), From(g, {q.node})) \subseteq From(g, {q.node})
        BY <1>1, ArrowsAreFinite, ReachableIs
      <4>2. QED  BY <4>1 DEF Heads
    <3>2. ClaimsOf(g, q.node) \subseteq Heads(Arrows(g), {q.node})
      <4> SUFFICES ASSUME NEW c \in ClaimsOf(g, q.node)
                   PROVE  c \in Heads(Arrows(g), {q.node})
        OBVIOUS
      <4>1. PICK e \in DOMAIN g.edges :
              /\ g.edges[e].kind = "extracted_from"
              /\ g.edges[e].source = c /\ g.edges[e].target = q.node
        BY DEF ClaimsOf
      <4>2. Dependency(g.edges[e]) = <<q.node, c>>
        BY <4>1 DEF Dependency
      <4>3. <<q.node, c>> \in Arrows(g)
        BY <4>2 DEF Arrows
      <4>4. QED  BY <4>3 DEF Heads
    <3>3. q.node \in way /\ way \subseteq From(g, {q.node})
      BY <3>1, <3>2 DEF Waypoints
    <3>4. QED  BY <1>1, <3>3, ArrowsAreFinite, ReachedThrough
  <2>6. {q.node} \cup Below(g, {q.node}) = From(g, {q.node})
    BY <1>3
  <2>7. q.node \in way
    BY DEF Waypoints
  <2>8. From(g, {q.node}) \subseteq DOMAIN g.nodes
    BY <1>4, <2>1 DEF Evidence
  <2>9. QED  BY <2>1, <2>3, <2>4, <2>5, <2>6, <2>7, <2>8
<1>13. QED
  BY <1>6, <1>7, <1>8, <1>9, <1>10, <1>11, <1>12 DEF Admitted

\* A step that adds one operation of a person to the log commits it.
LEMMA UserOperates ==
  ASSUME GraphInv, [Next]_vars,
         Len(log') = Len(log) + 1, log'[Len(log')].actor = User
  PROVE  Operated
<1>1. log \in Seq({log[i] : i \in DOMAIN log}) /\ Len(log) \in Nat
  <2>1. log \in Seq({log[i] : i \in DOMAIN log})
    BY DEF GraphInv, LogFits
  <2>2. QED  BY <2>1
<1>2. log' # log
  BY <1>1
<1>3. ASSUME NEW p, Applying(p)
      PROVE  FALSE
  <2>1. p \in held /\ Pending(p)
    BY <1>3, ApplyingIs
  <2>2. p # User
    BY <2>1, PendingAccepts
  <2>3. PICK selected, accepted, steps : Selected(p, selected, accepted, steps)
    BY <1>3, ApplyingIs
  <2>4. /\ steps \in Seq(accepted)
        /\ log' = log \o [i \in DOMAIN steps |-> [actor |-> p, key |-> steps[i]]]
    BY <2>3 DEF Selected
  <2> DEFINE new == [i \in DOMAIN steps |-> [actor |-> p, key |-> steps[i]]]
  <2>5. DOMAIN steps = 1..Len(steps) /\ Len(steps) \in Nat
    BY <2>4
  <2>6. /\ DOMAIN new = 1..Len(steps) /\ Len(new) = Len(steps)
        /\ \A i \in DOMAIN new : new[i].actor = p
        /\ new \in Seq({new[i] : i \in DOMAIN new})
    BY <2>5
  <2> HIDE DEF new
  <2> DEFINE S == {log[i] : i \in DOMAIN log} \cup {new[i] : i \in DOMAIN new}
  <2>7. log \in Seq(S) /\ new \in Seq(S)
    BY <1>1, <2>6
  <2> HIDE DEF S
  <2>8. log' = log \o new
    BY <2>4 DEF new
  <2>9. /\ Len(log \o new) = Len(log) + Len(new)
        /\ \A i \in DOMAIN new : (log \o new)[Len(log) + i] = new[i]
    BY <2>7, Joins
  <2>10. Len(new) = 1 /\ 1 \in DOMAIN new /\ log'[Len(log) + 1] = new[1]
    BY <1>1, <2>5, <2>6, <2>8, <2>9
  <2>11. QED  BY <2>2, <2>6, <2>10
<1>4. ~Cleared
  <2>1. Cleared => Len(log') = 0
    BY DEF Cleared
  <2>2. QED  BY <1>1, <2>1
<1>5. QED
  BY <1>2, <1>3, <1>4, Transitions, GraphInvIs
  DEF Still, Asking, Replacing, Storing, Dismissed

\* A direct operation adds a cause of staleness to exactly the nodes that
\* depend on what it changed, before or after it, and to no rejected one
\* (capture_direct_invalidation, resolve_direct_invalidation and
\* mark_nodes_stale around the handlers).
THEOREM ChangesTurnDependentsStale == Spec => DependentsTurnStale
<1> DEFINE Turned ==
      (Len(log') = Len(log) + 1 /\ log'[Len(log')].actor = User) =>
        {n \in DOMAIN graph'.nodes : graph'.revision \in graph'.nodes[n].causes} =
          {n \in Affected(graph, graph', log'[Len(log')].request) :
             Eligible(graph'.nodes[n])}
<1>1. GraphInv /\ [Next]_vars => Turned
  <2> SUFFICES ASSUME GraphInv, [Next]_vars,
                      Len(log') = Len(log) + 1, log'[Len(log')].actor = User
               PROVE  {n \in DOMAIN graph'.nodes :
                         graph'.revision \in graph'.nodes[n].causes} =
                        {n \in Affected(graph, graph', log'[Len(log')].request) :
                           Eligible(graph'.nodes[n])}
    OBVIOUS
  <2>1. PICK key, q, after, id :
          /\ Admitted(q)
          /\ after \in Handle(graph, q, id)
          /\ graph' = Committed(graph, q, after)
          /\ log' = Append(log, [actor |-> User, key |-> key, request |-> q])
    BY UserOperates DEF Operated
  <2>2. GraphFits(graph) /\ log \in Seq({log[i] : i \in DOMAIN log})
    BY DEF GraphInv, LogFits
  <2>3. Handled(graph, q, after)
    BY <2>1, <2>2, HandleFits
  <2>4. log'[Len(log')].request = q
    <3> DEFINE row == [actor |-> User, key |-> key, request |-> q]
    <3>1. row.request = q
      OBVIOUS
    <3> HIDE DEF row
    <3>2. log'[Len(log')] = row
      BY <2>1, <2>2 DEF row
    <3>3. QED  BY <3>1, <3>2
  <2>5. /\ DOMAIN graph'.nodes = DOMAIN after.nodes
        /\ graph'.edges = after.edges
        /\ \A n \in DOMAIN graph'.nodes :
             graph'.revision \in graph'.nodes[n].causes <=>
               /\ n \in Invalidated(after, q, Capture(graph, q))
               /\ Eligible(graph'.nodes[n])
    BY <2>1, <2>2, <2>3, CommittedMarks
  <2>6. GraphFits(after)
    BY <2>3 DEF Handled
  <2>7. /\ Invalidated(after, q, Capture(graph, q)) = Affected(graph, graph', q)
        /\ Affected(graph, graph', q) \subseteq DOMAIN after.nodes
    BY <2>1, <2>2, <2>5, <2>6, InvalidatedIs
  <2>8. QED  BY <2>4, <2>5, <2>7
<1>2. Turned <=>
        ((Len(log') = Len(log) + 1 /\ log'[Len(log')].actor = User) =>
          {n \in DOMAIN graph'.nodes : graph'.revision \in graph'.nodes[n].causes} =
            {n \in Affected(graph, graph', log'[Len(log')].request) :
               Eligible(graph'.nodes[n])})
  OBVIOUS
<1> HIDE DEF Turned
<1>3. QED  BY <1>1, <1>2, GraphInvHolds, PTL DEF Spec, DependentsTurnStale
=============================================================================
