-------------------------- MODULE PatchReviewProofs --------------------------
(***************************************************************************)
(* Theorems about PatchReview: for every graph to start from, all requests *)
(* and all bounds, a key makes one run, a patch is generated anew once,    *)
(* and what a review decided stays.                                        *)
(***************************************************************************)
EXTENDS PatchReview, TLAPS

\* Patches are stored whole, and belong to runs; only they are reviewed.
PatchesFit ==
  /\ runs \in Seq({runs[r] : r \in DOMAIN runs})
  /\ DOMAIN patches \subseteq DOMAIN runs
  /\ held \subseteq DOMAIN patches
  /\ \A p \in DOMAIN patches :
       DOMAIN patches[p] = {"ops", "status", "decisions", "linked"}

\* A patch that a run was made to replace is decided.
ParentsDecided ==
  \A r \in DOMAIN runs :
    runs[r].parent # Nobody =>
      /\ runs[r].parent \in DOMAIN patches
      /\ patches[runs[r].parent].status # "pending"

\* Strengthens OneRunPerKey: inductive.
ReviewInv == PatchesFit /\ ParentsDecided /\ OneRunPerKey

------------------------------------------------------------------------------
(* Sequences and records.                                                   *)

\* A sequence that grows keeps its elements.
LEMMA Grows ==
  ASSUME NEW s, NEW x, s \in Seq({s[i] : i \in DOMAIN s})
  PROVE  /\ DOMAIN s = 1..Len(s) /\ Len(s) \in Nat
         /\ DOMAIN Append(s, x) = 1..(Len(s) + 1)
         /\ \A i \in DOMAIN s : Append(s, x)[i] = s[i]
         /\ Append(s, x)[Len(s) + 1] = x
         /\ Append(s, x) \in Seq({Append(s, x)[i] : i \in DOMAIN Append(s, x)})
<1> DEFINE S == {s[i] : i \in DOMAIN s} \cup {x}
           t == Append(s, x)
<1>1. s \in Seq(S) /\ x \in S
  OBVIOUS
<1>2. /\ DOMAIN s = 1..Len(s) /\ Len(s) \in Nat
      /\ t \in Seq(S) /\ Len(t) = Len(s) + 1
      /\ \A i \in 1..Len(s) : t[i] = s[i]
      /\ t[Len(s) + 1] = x
  BY <1>1
<1>3. DOMAIN t = 1..(Len(s) + 1)
  BY <1>2
<1>4. t \in Seq({t[i] : i \in DOMAIN t})
  BY <1>2, <1>3
<1>5. QED  BY <1>2, <1>3, <1>4

LEMMA NewRunFields ==
  ASSUME NEW key, NEW context, NEW parent
  PROVE  /\ NewRun(key, context, parent).key = key
         /\ NewRun(key, context, parent).parent = parent
BY DEF NewRun

\* A decision leaves no patch pending and only fills in its fields.
LEMMA Decides ==
  ASSUME NEW patch, NEW accepted, NEW skipped,
         DOMAIN patch = {"ops", "status", "decisions", "linked"}
  PROVE  /\ Decided(patch, accepted, skipped).status # "pending"
         /\ DOMAIN Decided(patch, accepted, skipped) = DOMAIN patch
<1> DEFINE d == [o \in DOMAIN patch.ops |->
                      IF o \in accepted THEN "accepted"
                      ELSE IF o \in skipped THEN "skipped" ELSE "rejected"]
           s == IF accepted = {} THEN "rejected"
                ELSE IF accepted = DOMAIN patch.ops THEN "applied"
                ELSE "partially_applied"
<1>1. s # "pending"
  OBVIOUS
<1>2. Decided(patch, accepted, skipped) =
        [patch EXCEPT !.decisions = d, !.status = s]
  BY Zenon DEF Decided
<1> HIDE DEF d, s
<1>3. /\ DOMAIN [patch EXCEPT !.decisions = d, !.status = s] = DOMAIN patch
      /\ [patch EXCEPT !.decisions = d, !.status = s].status = s
  OBVIOUS
<1>4. QED  BY <1>1, <1>2, <1>3

------------------------------------------------------------------------------
(* What the steps do to runs and patches.                                   *)

\* Neither a run nor a patch is written.
Elsewhere ==
  /\ UNCHANGED <<runs, patches>>
  /\ held' \subseteq held \cup DOMAIN patches

\* A run is made, for a patch that is decided with it or for none.
Made(key, parent) ==
  /\ ~Requested(key)
  /\ \E context : runs' = Append(runs, NewRun(key, context, parent))
  /\ held' \subseteq held

\* A review decides a pending patch.
DecidedNow(p) ==
  /\ p \in held
  /\ Pending(p)
  /\ DOMAIN patches' = DOMAIN patches
  /\ \A q \in DOMAIN patches \ {p} : patches'[q] = patches[q]
  /\ DOMAIN patches'[p] = DOMAIN patches[p]
  /\ patches'[p].status # "pending"

Delivered(r) ==
  /\ UNCHANGED <<runs, held>>
  /\ r \in DOMAIN runs \ DOMAIN patches
  /\ DOMAIN patches' = DOMAIN patches \cup {r}
  /\ \A q \in DOMAIN patches : patches'[q] = patches[q]
  /\ DOMAIN patches'[r] = {"ops", "status", "decisions", "linked"}

Emptied == runs' = <<>> /\ patches' = <<>> /\ held = {} /\ held' = {}

LEMMA ApplyDecides ==
  ASSUME ReviewInv, NEW p \in held, NEW selected, Apply(p, selected)
  PROVE  DecidedNow(p) /\ runs' = runs /\ held' \subseteq held
<1>1. PICK accepted, skipped :
        patches' = [patches EXCEPT ![p] = Decided(@, accepted, skipped)]
  BY Zenon DEF Apply
<1>2. Pending(p) /\ runs' = runs /\ held' \subseteq held
  BY DEF Apply, Answered
<1>3. p \in DOMAIN patches
  BY DEF ReviewInv, PatchesFit
<1>4. /\ Decided(patches[p], accepted, skipped).status # "pending"
      /\ DOMAIN Decided(patches[p], accepted, skipped) = DOMAIN patches[p]
  BY <1>3, Decides DEF ReviewInv, PatchesFit
<1>5. QED  BY <1>1, <1>2, <1>3, <1>4 DEF DecidedNow

LEMMA RejectDecides ==
  ASSUME ReviewInv, NEW p \in held, Reject(p)
  PROVE  DecidedNow(p) /\ runs' = runs /\ held' \subseteq held
<1>1. patches' = [patches EXCEPT ![p] = Decided(@, {}, {})]
  BY DEF Reject
<1>2. Pending(p) /\ runs' = runs /\ held' \subseteq held
  BY DEF Reject, Answered
<1>3. p \in DOMAIN patches
  BY DEF ReviewInv, PatchesFit
<1>4. /\ Decided(patches[p], {}, {}).status # "pending"
      /\ DOMAIN Decided(patches[p], {}, {}) = DOMAIN patches[p]
  BY <1>3, Decides DEF ReviewInv, PatchesFit
<1>5. QED  BY <1>1, <1>2, <1>3, <1>4 DEF DecidedNow

LEMMA RegenerateDecides ==
  ASSUME ReviewInv, NEW p \in held, NEW key, Regenerate(p, key)
  PROVE  DecidedNow(p) /\ Made(key, p)
<1> DEFINE d == Decided(patches[p], {}, {})
           n == Len(runs) + 1
<1>1. patches' = [patches EXCEPT ![p] = [d EXCEPT !.linked = n]]
  BY DEF Regenerate
<1>2. Pending(p) /\ held' \subseteq held /\ ~Requested(key)
  BY DEF Regenerate, Answered
<1>3. \E context : runs' = Append(runs, NewRun(key, context, p))
  BY DEF Regenerate
<1>4. p \in DOMAIN patches
  BY DEF ReviewInv, PatchesFit
<1>5. d.status # "pending" /\ DOMAIN d = DOMAIN patches[p]
  BY <1>4, Decides DEF ReviewInv, PatchesFit
<1> HIDE DEF d, n
<1>6. /\ [d EXCEPT !.linked = n].status # "pending"
      /\ DOMAIN [d EXCEPT !.linked = n] = DOMAIN patches[p]
  BY <1>5
<1>7. DecidedNow(p)
  BY <1>1, <1>2, <1>4, <1>6 DEF DecidedNow
<1>8. QED  BY <1>2, <1>3, <1>7 DEF Made

LEMMA DeliverStores ==
  ASSUME NEW r \in DOMAIN runs, DeliverPatch(r)
  PROVE  Delivered(r)
<1>1. PICK row : /\ patches' = Inserted(patches, r, row)
                 /\ DOMAIN row = {"ops", "status", "decisions", "linked"}
  <2>1. PICK draft : patches' =
               LET ops == Ops(runs[r].context, r, draft) IN
               Inserted(patches, r, [ops |-> ops, status |-> "pending",
                                     decisions |-> <<>>, linked |-> Nobody])
    BY Zenon DEF DeliverPatch
  <2>2. QED  BY <2>1
<1>2. UNCHANGED <<runs, held>> /\ r \in DOMAIN runs \ DOMAIN patches
  BY DEF DeliverPatch
<1>3. QED  BY <1>1, <1>2 DEF Delivered, Inserted, Joined

\* Every step is one of these.
LEMMA Steps ==
  ASSUME ReviewInv, [Next]_vars
  PROVE  \/ Elsewhere
         \/ UNCHANGED patches /\ \E key : Made(key, Nobody)
         \/ \E p \in held : DecidedNow(p) /\ runs' = runs /\ held' \subseteq held
         \/ \E p \in held : DecidedNow(p) /\ \E key : Made(key, p)
         \/ \E r \in DOMAIN runs : Delivered(r)
         \/ Emptied
<1>1. ASSUME NEW key \in OperationKeys, NEW q \in DirectRequests, Direct(key, q)
      PROVE  Elsewhere
  BY <1>1 DEF Direct, Elsewhere
<1>2. ASSUME NEW key \in RunKeys, NEW q \in RunRequests, CreateRun(key, q)
      PROVE  UNCHANGED patches /\ Made(key, Nobody)
  BY <1>2 DEF CreateRun, Made
<1>3. ASSUME NEW r \in DOMAIN runs, DeliverPatch(r)
      PROVE  Delivered(r)
  BY <1>3, DeliverStores
<1>4. ASSUME NEW p \in DOMAIN patches, LockPatch(p)
      PROVE  Elsewhere
  BY <1>4 DEF LockPatch, Elsewhere
<1>5. ASSUME NEW p \in held, Review(p)
      PROVE  \/ Elsewhere
             \/ DecidedNow(p) /\ runs' = runs /\ held' \subseteq held
             \/ DecidedNow(p) /\ \E key : Made(key, p)
  <2>1. CASE Refuse(p)
    BY <2>1 DEF Refuse, Elsewhere
  <2>2. CASE Reject(p)
    BY <2>2, RejectDecides
  <2>3. CASE \E key \in RunKeys : Regenerate(p, key)
    BY <2>3, RegenerateDecides
  <2>4. CASE \E selected \in Selections(patches[p].ops) : Apply(p, selected)
    BY <2>4, ApplyDecides
  <2>5. QED  BY <1>5, <2>1, <2>2, <2>3, <2>4 DEF Review
<1>6. ASSUME StartDeletion \/ BreakDeadlock
      PROVE  Elsewhere
  BY <1>6 DEF StartDeletion, BreakDeadlock, Elsewhere
<1>7. ASSUME FinishDeletion
      PROVE  Emptied
  BY <1>7 DEF FinishDeletion, Emptied
<1>8. ASSUME UNCHANGED vars
      PROVE  Elsewhere
  BY <1>8 DEF vars, Elsewhere
<1>9. QED
  BY <1>1, <1>2, <1>3, <1>4, <1>5, <1>6, <1>7, <1>8 DEF Next

------------------------------------------------------------------------------
(* One run for a key and for a patch.                                       *)

LEMMA InitReview == ASSUME Init PROVE ReviewInv
<1>1. runs = <<>> /\ patches = <<>> /\ held = {}
  BY DEF Init
<1>2. DOMAIN runs = {} /\ DOMAIN patches = {}
  BY <1>1
<1>3. runs \in Seq({runs[r] : r \in DOMAIN runs})
  BY <1>1
<1>4. QED
  BY <1>1, <1>2, <1>3 DEF ReviewInv, PatchesFit, ParentsDecided, OneRunPerKey

LEMMA ElsewhereKeeps == ASSUME ReviewInv, Elsewhere PROVE ReviewInv'
BY DEF ReviewInv, PatchesFit, ParentsDecided, OneRunPerKey, Elsewhere

\* A new run shares neither its key nor its parent with another.
LEMMA MadeIsNew ==
  ASSUME ReviewInv, NEW key, NEW parent, Made(key, parent),
         parent # Nobody => \A r \in DOMAIN runs : runs[r].parent # parent
  PROVE  /\ runs' \in Seq({runs'[r] : r \in DOMAIN runs'})
         /\ DOMAIN runs \subseteq DOMAIN runs'
         /\ \A r \in DOMAIN runs' : r \in DOMAIN runs \/ runs'[r].parent = parent
         /\ \A r \in DOMAIN runs : runs'[r] = runs[r]
         /\ OneRunPerKey'
<1> DEFINE n == Len(runs) + 1
<1>1. PICK context : runs' = Append(runs, NewRun(key, context, parent))
  BY DEF Made
<1>2. runs \in Seq({runs[r] : r \in DOMAIN runs})
  BY DEF ReviewInv, PatchesFit
<1>3. /\ DOMAIN runs = 1..Len(runs) /\ Len(runs) \in Nat
      /\ DOMAIN runs' = 1..n
      /\ \A i \in DOMAIN runs : runs'[i] = runs[i]
      /\ runs'[n] = NewRun(key, context, parent)
      /\ runs' \in Seq({runs'[r] : r \in DOMAIN runs'})
  BY <1>1, <1>2, Grows
<1>4. runs'[n].key = key /\ runs'[n].parent = parent
  BY <1>3, NewRunFields
<1>5. \A r \in DOMAIN runs : runs[r].key # key
  BY DEF Made, Requested
<1>6. DOMAIN runs' = DOMAIN runs \cup {n} /\ n \notin DOMAIN runs
  BY <1>3
<1>7. OneRunPerKey'
  BY <1>3, <1>4, <1>5, <1>6 DEF ReviewInv, OneRunPerKey
<1>8. QED  BY <1>3, <1>4, <1>6, <1>7

LEMMA CreateKeeps ==
  ASSUME ReviewInv, UNCHANGED patches, NEW key, Made(key, Nobody)
  PROVE  ReviewInv'
<1>1. /\ runs' \in Seq({runs'[r] : r \in DOMAIN runs'})
      /\ DOMAIN runs \subseteq DOMAIN runs'
      /\ \A r \in DOMAIN runs' : r \in DOMAIN runs \/ runs'[r].parent = Nobody
      /\ \A r \in DOMAIN runs : runs'[r] = runs[r]
      /\ OneRunPerKey'
  BY MadeIsNew
<1>2. PatchesFit'
  BY <1>1 DEF ReviewInv, PatchesFit, Made
<1>3. ParentsDecided'
  BY <1>1 DEF ReviewInv, ParentsDecided
<1>4. QED  BY <1>1, <1>2, <1>3 DEF ReviewInv

\* A decided patch stays one under a decision about another.
LEMMA DecisionKeeps ==
  ASSUME ReviewInv, NEW p \in held, DecidedNow(p)
  PROVE  /\ p \in DOMAIN patches /\ p # Nobody
         /\ \A q \in DOMAIN patches' :
              DOMAIN patches'[q] = {"ops", "status", "decisions", "linked"}
         /\ \A q \in DOMAIN patches :
              patches[q].status # "pending" => patches'[q].status # "pending"
         /\ \A r \in DOMAIN runs : runs[r].parent # p
<1>1. p \in DOMAIN patches
  BY DEF ReviewInv, PatchesFit
<1>2. p # Nobody
  <2>1. p \in DOMAIN runs /\ DOMAIN runs = 1..Len(runs)
    BY <1>1, Grows DEF ReviewInv, PatchesFit
  <2>2. QED  BY <2>1 DEF Nobody
<1>3. \A r \in DOMAIN runs : runs[r].parent # p
  BY <1>2 DEF ReviewInv, ParentsDecided, DecidedNow, Pending
<1>4. QED  BY <1>1, <1>2, <1>3 DEF ReviewInv, PatchesFit, DecidedNow

LEMMA DecideKeeps ==
  ASSUME ReviewInv, NEW p \in held, DecidedNow(p), runs' = runs,
         held' \subseteq held
  PROVE  ReviewInv'
<1>1. PatchesFit'
  BY DecisionKeeps DEF ReviewInv, PatchesFit, DecidedNow
<1>2. ParentsDecided'
  BY DecisionKeeps DEF ReviewInv, ParentsDecided, DecidedNow
<1>3. QED  BY <1>1, <1>2 DEF ReviewInv, OneRunPerKey

LEMMA RegenerateKeeps ==
  ASSUME ReviewInv, NEW p \in held, DecidedNow(p), NEW key, Made(key, p)
  PROVE  ReviewInv'
<1>1. \A r \in DOMAIN runs : runs[r].parent # p
  BY DecisionKeeps
<1>2. /\ runs' \in Seq({runs'[r] : r \in DOMAIN runs'})
      /\ DOMAIN runs \subseteq DOMAIN runs'
      /\ \A r \in DOMAIN runs' : r \in DOMAIN runs \/ runs'[r].parent = p
      /\ \A r \in DOMAIN runs : runs'[r] = runs[r]
      /\ OneRunPerKey'
  BY <1>1, MadeIsNew
<1>3. PatchesFit'
  BY <1>2, DecisionKeeps DEF ReviewInv, PatchesFit, DecidedNow, Made
<1>4. ParentsDecided'
  BY <1>2, DecisionKeeps DEF ReviewInv, ParentsDecided, DecidedNow
<1>5. QED  BY <1>2, <1>3, <1>4 DEF ReviewInv

LEMMA DeliverKeeps ==
  ASSUME ReviewInv, NEW r \in DOMAIN runs, Delivered(r)
  PROVE  ReviewInv'
<1>1. PatchesFit'
  BY DEF ReviewInv, PatchesFit, Delivered
<1>2. ParentsDecided'
  BY DEF ReviewInv, ParentsDecided, Delivered
<1>3. QED  BY <1>1, <1>2 DEF ReviewInv, OneRunPerKey, Delivered

LEMMA EmptiedFits == ASSUME Emptied PROVE ReviewInv'
<1>1. DOMAIN runs' = {} /\ DOMAIN patches' = {}
  BY DEF Emptied
<1>2. runs' \in Seq({runs'[r] : r \in DOMAIN runs'})
  BY DEF Emptied
<1>3. QED
  BY <1>1, <1>2 DEF Emptied, ReviewInv, PatchesFit, ParentsDecided, OneRunPerKey

LEMMA ReviewKeeps == ReviewInv /\ [Next]_vars => ReviewInv'
BY Steps, ElsewhereKeeps, CreateKeeps, DecideKeeps, RegenerateKeeps,
   DeliverKeeps, EmptiedFits

\* ReviewInv holds in every reachable state (services.py and patches.py).
THEOREM ReviewsFit == Spec => []ReviewInv
BY InitReview, ReviewKeeps, PTL DEF Spec

\* A key makes one run (services.py:86-101), and a patch is generated anew
\* once (patches.py:296-547), whatever else happens to them.
THEOREM OneRun == Spec => []OneRunPerKey
<1>1. ReviewInv => OneRunPerKey
  BY DEF ReviewInv
<1>2. QED  BY <1>1, ReviewsFit, PTL

\* Of several reviews of one patch one decides, and what it decided stays
\* while the canvas does (patches.py:215-270, patch_application.py:1230-1526).
THEOREM DecisionsStay == Spec => DecisionsFinal
<1> DEFINE Stays == \A p \in DOMAIN patches :
                      patches[p].status # "pending" /\ p \in DOMAIN patches' =>
                        patches'[p] = patches[p]
<1>1. ReviewInv /\ [Next]_vars => Stays
  <2> SUFFICES ASSUME ReviewInv, [Next]_vars PROVE Stays
    OBVIOUS
  <2>1. CASE Elsewhere
    BY <2>1 DEF Elsewhere
  <2>2. CASE UNCHANGED patches
    BY <2>2
  <2>3. ASSUME NEW p \in held, DecidedNow(p)
        PROVE  Stays
    BY <2>3 DEF DecidedNow, Pending
  <2>4. ASSUME NEW r \in DOMAIN runs, Delivered(r)
        PROVE  Stays
    BY <2>4 DEF Delivered
  <2>5. CASE Emptied
    BY <2>5 DEF Emptied
  <2>6. QED  BY <2>1, <2>2, <2>3, <2>4, <2>5, Steps
<1>2. QED  BY <1>1, ReviewsFit, PTL DEF Spec, DecisionsFinal
=============================================================================
