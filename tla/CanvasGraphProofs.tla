-------------------------- MODULE CanvasGraphProofs --------------------------
(***************************************************************************)
(* Lemmas about the operators of CanvasGraph, for graphs of any size.      *)
(***************************************************************************)
EXTENDS CanvasGraph, FiniteSetTheorems, TLAPS

------------------------------------------------------------------------------
(* Induction, as facts about sets.                                          *)

\* A set that is closed under the next number has them all: otherwise the
\* next number would map its part below a gap one to one into less.
LEMMA NatInd ==
  ASSUME NEW S, 0 \in S, \A n \in Nat : n \in S => n + 1 \in S
  PROVE  \A n \in Nat : n \in S
<1> SUFFICES ASSUME NEW x \in Nat, x \notin S
             PROVE  FALSE
  OBVIOUS
<1> DEFINE T == S \cap 0..x
           f == [n \in T |-> n + 1]
<1>1. IsFiniteSet(T)
  <2>1. IsFiniteSet(0..x)
    BY FS_Interval
  <2>2. T \in SUBSET (0..x)
    OBVIOUS
  <2>3. QED  BY <2>1, <2>2, FS_Subset
<1>2. 0 \in T
  OBVIOUS
<1>3. \A n \in T : n \in Int /\ n + 1 \in T \ {0}
  OBVIOUS
<1> HIDE DEF T
<1>4. f \in Injection(T, T \ {0})
  BY <1>3 DEF Injection, IsInjective
<1> HIDE DEF f
<1>5. Cardinality(T) <= Cardinality(T \ {0})
  <2>1. IsFiniteSet(T \ {0})
    BY <1>1, FS_RemoveElement
  <2>2. QED  BY <1>4, <2>1, FS_Injection
<1>6. Cardinality(T \ {0}) = Cardinality(T) - 1
  BY <1>1, <1>2, FS_RemoveElement
<1>7. Cardinality(T) \in Nat
  BY <1>1, FS_CardinalityType
<1>8. QED  BY <1>5, <1>6, <1>7

\* A number in a set of numbers: there is a least one.
LEMMA LeastNat ==
  ASSUME NEW S \in SUBSET Nat, S # {}
  PROVE  \E m \in S : \A n \in S : m <= n
<1> SUFFICES ASSUME \A m \in S : \E n \in S : ~(m <= n)
             PROVE  FALSE
  OBVIOUS
<1> DEFINE Low == {n \in Nat : \A k \in 0..n : k \notin S}
<1>1. 0 \in Low
  OBVIOUS
<1>2. \A n \in Nat : n \in Low => n + 1 \in Low
  <2> SUFFICES ASSUME NEW n \in Nat, n \in Low, n + 1 \in S
               PROVE  FALSE
    OBVIOUS
  <2>1. PICK k \in S : ~(n + 1 <= k)
    OBVIOUS
  <2>2. k \in 0..n
    BY <2>1
  <2>3. QED  BY <2>2
<1> HIDE DEF Low
<1>3. \A n \in Nat : n \in Low
  BY <1>1, <1>2, NatInd
<1>4. PICK m \in S : TRUE
  OBVIOUS
<1>5. m \in Low /\ m \in 0..m
  BY <1>3
<1>6. QED  BY <1>5 DEF Low

LEMMA MinProperties ==
  ASSUME NEW S \in SUBSET Nat, S # {}
  PROVE  Min(S) \in S /\ \A n \in S : Min(S) <= n
BY LeastNat DEF Min

\* The least of a set does not change when a larger number is added.
LEMMA MinGrows ==
  ASSUME NEW S \in SUBSET Nat, S # {}, NEW r \in Nat, \A n \in S : n <= r
  PROVE  Min(S \cup {r}) = Min(S)
<1>1. Min(S) \in S /\ \A n \in S : Min(S) <= n
  BY MinProperties
<1>2. /\ Min(S \cup {r}) \in S \cup {r}
      /\ \A n \in S \cup {r} : Min(S \cup {r}) <= n
  <2>1. S \cup {r} \in SUBSET Nat /\ S \cup {r} # {}
    OBVIOUS
  <2>2. QED  BY <2>1, MinProperties
<1>3. Min(S) \in Nat /\ Min(S \cup {r}) \in Nat
  BY <1>1, <1>2
<1>4. Min(S) <= r /\ Min(S \cup {r}) <= Min(S)
  BY <1>1, <1>2
<1>5. Min(S) <= Min(S \cup {r})
  BY <1>1, <1>2, <1>4
<1>6. QED  BY <1>3, <1>4, <1>5

LEMMA MinOfOne ==
  ASSUME NEW r \in Nat
  PROVE  Min({r}) = r
<1>1. {r} \in SUBSET Nat /\ {r} # {}
  OBVIOUS
<1>2. QED  BY <1>1, MinProperties

\* A bounded set of numbers has a greatest one.
LEMMA MaxProperties ==
  ASSUME NEW b \in Nat, NEW S \in SUBSET (0..b), S # {}
  PROVE  Max(S) \in S /\ \A n \in S : Max(S) >= n
<1> DEFINE Above == {n \in Nat : \A k \in S : k <= n}
<1>1. Above \in SUBSET Nat /\ b \in Above
  OBVIOUS
<1> HIDE DEF Above
<1>2. PICK m \in Above : \A n \in Above : m <= n
  BY <1>1, LeastNat
<1>3. m \in Nat /\ \A k \in S : k <= m
  BY <1>2 DEF Above
<1>4. m \in S
  <2> SUFFICES ASSUME m \notin S
               PROVE  FALSE
    OBVIOUS
  <2>1. PICK k \in S : TRUE
    OBVIOUS
  <2>2. \A j \in S : j <= m - 1
    BY <1>3
  <2>3. m - 1 \in Nat
    BY <1>3, <2>1, <2>2
  <2>4. m - 1 \in Above
    BY <2>2, <2>3 DEF Above
  <2>5. m <= m - 1
    BY <1>2, <2>4
  <2>6. QED  BY <1>3, <2>5
<1>5. QED  BY <1>3, <1>4 DEF Max

\* A set of subsets of a finite set that has each subset whose proper
\* subsets it has is that of all subsets.
LEMMA SubsetInd ==
  ASSUME NEW ids, IsFiniteSet(ids), NEW S,
         \A rest \in SUBSET ids :
           (\A less \in SUBSET rest : less # rest => less \in S) => rest \in S
  PROVE  \A rest \in SUBSET ids : rest \in S
<1> DEFINE Done == {n \in Nat : \A rest \in SUBSET ids :
                                  Cardinality(rest) <= n => rest \in S}
<1>1. ASSUME NEW rest \in SUBSET ids
      PROVE  IsFiniteSet(rest) /\ Cardinality(rest) \in Nat
  BY FS_Subset, FS_CardinalityType
<1>2. ASSUME NEW rest \in SUBSET ids, NEW less \in SUBSET rest, less # rest
      PROVE  Cardinality(less) < Cardinality(rest)
  <2>1. IsFiniteSet(rest) /\ less \in SUBSET ids
    BY <1>1
  <2>2. /\ Cardinality(less) <= Cardinality(rest)
        /\ Cardinality(rest) # Cardinality(less)
    BY <1>2, <2>1, FS_Subset
  <2>3. Cardinality(less) \in Nat /\ Cardinality(rest) \in Nat
    BY <1>1, <2>1
  <2>4. QED  BY <2>2, <2>3
<1>3. 0 \in Done
  <2> SUFFICES ASSUME NEW rest \in SUBSET ids, Cardinality(rest) <= 0
               PROVE  rest \in S
    OBVIOUS
  <2>1. \A less \in SUBSET rest : less = rest
    <3> SUFFICES ASSUME NEW less \in SUBSET rest, less # rest
                 PROVE  FALSE
      OBVIOUS
    <3>1. Cardinality(less) < Cardinality(rest)
      BY <1>2
    <3>2. less \in SUBSET ids
      OBVIOUS
    <3>3. Cardinality(less) \in Nat /\ Cardinality(rest) \in Nat
      BY <1>1, <3>2
    <3>4. QED  BY <3>1, <3>3
  <2>2. QED  BY <2>1
<1>4. \A n \in Nat : n \in Done => n + 1 \in Done
  <2> SUFFICES ASSUME NEW n \in Nat, n \in Done,
                      NEW rest \in SUBSET ids, Cardinality(rest) <= n + 1
               PROVE  rest \in S
    OBVIOUS
  <2>1. ASSUME NEW less \in SUBSET rest, less # rest
        PROVE  less \in S
    <3>1. Cardinality(less) < Cardinality(rest)
      BY <1>2, <2>1
    <3>2. less \in SUBSET ids
      OBVIOUS
    <3>3. Cardinality(less) \in Nat /\ Cardinality(rest) \in Nat
      BY <1>1, <3>2
    <3>4. Cardinality(less) <= n
      BY <3>1, <3>3
    <3>5. QED  BY <3>2, <3>4
  <2>2. QED  BY <2>1
<1> HIDE DEF Done
<1>5. \A n \in Nat : n \in Done
  BY <1>3, <1>4, NatInd
<1>6. QED
  <2> SUFFICES ASSUME NEW rest \in SUBSET ids
               PROVE  rest \in S
    OBVIOUS
  <2>1. Cardinality(rest) \in Nat
    BY <1>1
  <2>2. Cardinality(rest) \in Done /\ Cardinality(rest) <= Cardinality(rest)
    BY <1>5, <2>1
  <2>3. QED  BY <2>2 DEF Done

------------------------------------------------------------------------------
(* Listed and Drawn: a set as a sequence.                                   *)

\* list[rest] is the head of rest and then what list has for all but the cut.
Follows(list, ids, head, cut) ==
  list = [rest \in SUBSET ids |-> IF cut[rest] = {} THEN <<>>
                                  ELSE head[rest] \o list[rest \ cut[rest]]]

\* A function on the subsets of a finite set may refer to itself on smaller
\* ones.
LEMMA SubsetRecursion ==
  ASSUME NEW ids, IsFiniteSet(ids), NEW head, NEW cut,
         \A rest \in SUBSET ids : cut[rest] \subseteq rest
  PROVE  \E list : Follows(list, ids, head, cut)
<1> DEFINE Following(list, rest) == IF cut[rest] = {} THEN <<>>
                                ELSE head[rest] \o list[rest \ cut[rest]]
           Good(list, n) == \A rest \in SUBSET ids :
             Cardinality(rest) <= n => list[rest] = Following(list, rest)
           Done == {n \in Nat : \E list : Good(list, n)}
<1>1. ASSUME NEW rest \in SUBSET ids
      PROVE  /\ Cardinality(rest) \in Nat
             /\ cut[rest] # {} =>
                  /\ rest \ cut[rest] \in SUBSET ids
                  /\ Cardinality(rest \ cut[rest]) < Cardinality(rest)
  <2>1. IsFiniteSet(rest)
    BY FS_Subset
  <2>2. cut[rest] \subseteq rest
    OBVIOUS
  <2>3. /\ IsFiniteSet(cut[rest]) /\ IsFiniteSet(rest \ cut[rest])
        /\ rest \cap cut[rest] = cut[rest]
    BY <2>1, <2>2, FS_Subset
  <2>4. /\ Cardinality(rest) \in Nat /\ Cardinality(cut[rest]) \in Nat
        /\ Cardinality(rest \ cut[rest]) \in Nat
    BY <2>1, <2>3, FS_CardinalityType
  <2>5. Cardinality(rest \ cut[rest]) = Cardinality(rest) - Cardinality(cut[rest])
    BY <2>1, <2>3, FS_Difference
  <2>6. cut[rest] # {} => Cardinality(cut[rest]) # 0
    BY <2>3, FS_EmptySet
  <2>7. QED  BY <2>2, <2>4, <2>5, <2>6
<1>2. 0 \in Done
  <2> DEFINE none == [rest \in SUBSET ids |-> <<>>]
  <2>1. Good(none, 0)
    <3> SUFFICES ASSUME NEW rest \in SUBSET ids, Cardinality(rest) <= 0
                 PROVE  none[rest] = Following(none, rest)
      OBVIOUS
    <3>1. cut[rest] = {}
      <4> SUFFICES ASSUME cut[rest] # {} PROVE FALSE
        OBVIOUS
      <4>1. /\ rest \ cut[rest] \in SUBSET ids
            /\ Cardinality(rest \ cut[rest]) < Cardinality(rest)
            /\ Cardinality(rest) \in Nat
        BY <1>1
      <4>2. Cardinality(rest \ cut[rest]) \in Nat
        BY <1>1, <4>1
      <4>3. QED  BY <4>1, <4>2
    <3>2. QED  BY <3>1
  <2>2. QED  BY <2>1
<1>3. \A n \in Nat : n \in Done => n + 1 \in Done
  <2> SUFFICES ASSUME NEW n \in Nat, n \in Done
               PROVE  n + 1 \in Done
    OBVIOUS
  <2>0. PICK list : Good(list, n)
    OBVIOUS
  <2> DEFINE more == [rest \in SUBSET ids |-> Following(list, rest)]
  <2>1. ASSUME NEW rest \in SUBSET ids, Cardinality(rest) <= n + 1
        PROVE  more[rest] = Following(more, rest)
    <3>1. CASE cut[rest] = {}
      BY <3>1
    <3>2. CASE cut[rest] # {}
      <4>1. /\ rest \ cut[rest] \in SUBSET ids
            /\ Cardinality(rest \ cut[rest]) < Cardinality(rest)
            /\ Cardinality(rest) \in Nat
        BY <1>1, <3>2
      <4>2. Cardinality(rest \ cut[rest]) \in Nat
        BY <1>1, <4>1
      <4>3. Cardinality(rest \ cut[rest]) <= n
        BY <2>1, <4>1, <4>2
      <4>4. list[rest \ cut[rest]] = Following(list, rest \ cut[rest])
        BY <2>0, <4>1, <4>3
      <4>5. more[rest \ cut[rest]] = list[rest \ cut[rest]]
        BY <4>1, <4>4
      <4>6. QED  BY <3>2, <4>5
    <3>3. QED  BY <3>1, <3>2
  <2>2. Good(more, n + 1)
    BY <2>1
  <2> HIDE DEF Good, more
  <2>3. QED  BY <2>2
<1>4. \A n \in Nat : n \in Done
  <2> HIDE DEF Done
  <2>1. QED  BY <1>2, <1>3, NatInd
<1>5. Cardinality(ids) \in Nat
  BY FS_CardinalityType
<1>6. PICK list : Good(list, Cardinality(ids))
  BY <1>4, <1>5
<1>7. ASSUME NEW rest \in SUBSET ids
      PROVE  Following(list, rest) = list[rest]
  <2>1. Cardinality(rest) <= Cardinality(ids)
    BY FS_Subset
  <2>2. QED  BY <1>6, <2>1
<1> DEFINE g == [rest \in SUBSET ids |-> list[rest]]
<1>8. g = [rest \in SUBSET ids |-> IF cut[rest] = {} THEN <<>>
                                   ELSE head[rest] \o g[rest \ cut[rest]]]
  <2>1. ASSUME NEW rest \in SUBSET ids
        PROVE  g[rest] = IF cut[rest] = {} THEN <<>>
                         ELSE head[rest] \o g[rest \ cut[rest]]
    <3>1. rest \ cut[rest] \in SUBSET ids
      OBVIOUS
    <3>2. g[rest] = list[rest] /\ g[rest \ cut[rest]] = list[rest \ cut[rest]]
      BY <3>1
    <3> HIDE DEF g
    <3>3. QED  BY <1>7, <3>2
  <2>2. QED  BY <2>1
<1>9. Follows(g, ids, head, cut)
  BY <1>8 DEF Follows
<1>10. QED  BY <1>9

\* Two sequences without repetition that share nothing, one after the other.
LEMMA InjectiveConcat ==
  ASSUME NEW S, NEW s \in Seq(S), NEW t \in Seq(S),
         IsInjective(s), IsInjective(t), ToSet(s) \cap ToSet(t) = {}
  PROVE  /\ s \o t \in Seq(S)
         /\ IsInjective(s \o t)
         /\ ToSet(s \o t) = ToSet(s) \cup ToSet(t)
<1>1. /\ s \o t \in Seq(S) /\ Len(s) \in Nat /\ Len(t) \in Nat
      /\ Len(s \o t) = Len(s) + Len(t)
      /\ DOMAIN s = 1..Len(s) /\ DOMAIN t = 1..Len(t)
      /\ DOMAIN (s \o t) = 1..(Len(s) + Len(t))
      /\ \A i \in 1..(Len(s) + Len(t)) :
           (s \o t)[i] = IF i <= Len(s) THEN s[i] ELSE t[i - Len(s)]
  OBVIOUS
<1> DEFINE u == s \o t
           m == Len(s)
           n == Len(t)
<1>2. /\ m \in Nat /\ n \in Nat
      /\ DOMAIN s = 1..m /\ DOMAIN t = 1..n /\ DOMAIN u = 1..(m + n)
      /\ \A i \in 1..(m + n) : u[i] = IF i <= m THEN s[i] ELSE t[i - m]
  BY <1>1
<1> HIDE DEF u, m, n
<1>3. \A i \in 1..(m + n) : \/ i \in 1..m /\ u[i] = s[i]
                            \/ i - m \in 1..n /\ u[i] = t[i - m]
  BY <1>2
<1>4. \A i \in 1..m : i \in 1..(m + n) /\ u[i] = s[i]
  BY <1>2
<1>5. \A i \in 1..n : i + m \in 1..(m + n) /\ u[i + m] = t[i]
  BY <1>2
<1>6. ToSet(u) = ToSet(s) \cup ToSet(t)
  <2>1. ASSUME NEW x \in ToSet(u)
        PROVE  x \in ToSet(s) \cup ToSet(t)
    BY <1>2, <1>3 DEF ToSet
  <2>2. ToSet(s) \subseteq ToSet(u)
    BY <1>2, <1>4 DEF ToSet
  <2>3. ToSet(t) \subseteq ToSet(u)
    BY <1>2, <1>5 DEF ToSet
  <2>4. QED  BY <2>1, <2>2, <2>3
<1>7. IsInjective(u)
  <2> SUFFICES ASSUME NEW i \in 1..(m + n), NEW j \in 1..(m + n), u[i] = u[j]
               PROVE  i = j
    BY <1>2 DEF IsInjective
  <2>1. CASE i \in 1..m /\ u[i] = s[i] /\ j \in 1..m /\ u[j] = s[j]
    BY <1>2, <2>1 DEF IsInjective
  <2>2. CASE i - m \in 1..n /\ u[i] = t[i - m] /\ j - m \in 1..n /\ u[j] = t[j - m]
    <3>1. i - m = j - m
      BY <1>2, <2>2 DEF IsInjective
    <3>2. QED  BY <1>2, <3>1
  <2>3. CASE i \in 1..m /\ u[i] = s[i] /\ j - m \in 1..n /\ u[j] = t[j - m]
    BY <1>2, <2>3 DEF ToSet
  <2>4. CASE i - m \in 1..n /\ u[i] = t[i - m] /\ j \in 1..m /\ u[j] = s[j]
    BY <1>2, <2>4 DEF ToSet
  <2>5. QED  BY <1>3, <2>1, <2>2, <2>3, <2>4
<1>8. QED  BY <1>1, <1>6, <1>7 DEF u

LEMMA EmptySequence ==
  ASSUME NEW S
  PROVE  <<>> \in Seq(S) /\ IsInjective(<<>>) /\ ToSet(<<>>) = {}
BY DEF IsInjective, ToSet

LEMMA OneElement ==
  ASSUME NEW S, NEW x \in S
  PROVE  <<x>> \in Seq(S) /\ IsInjective(<<x>>) /\ ToSet(<<x>>) = {x}
BY DEF IsInjective, ToSet

\* Listed has each id once.
LEMMA ListedOnce ==
  ASSUME NEW ids, IsFiniteSet(ids)
  PROVE  /\ Listed(ids) \in Seq(ids)
         /\ IsInjective(Listed(ids))
         /\ ToSet(Listed(ids)) = ids
<1> DEFINE id(rest) == CHOOSE i \in rest : TRUE
           Is(list) == list = [rest \in SUBSET ids |->
                                 IF rest = {} THEN <<>>
                                 ELSE <<id(rest)>> \o list[rest \ {id(rest)}]]
           list == CHOOSE l : Is(l)
<1>1. Listed(ids) = list[ids]
  BY Zenon DEF Listed
<1>2. \E l : Is(l)
  <2> DEFINE cut == [rest \in SUBSET ids |-> IF rest = {} THEN {} ELSE {id(rest)}]
             head == [rest \in SUBSET ids |-> <<id(rest)>>]
  <2>1. \A rest \in SUBSET ids : rest # {} => id(rest) \in rest
    OBVIOUS
  <2> HIDE DEF id
  <2>2. \A rest \in SUBSET ids :
          cut[rest] \subseteq rest /\ (cut[rest] = {} <=> rest = {})
    BY <2>1
  <2>3. PICK l : Follows(l, ids, head, cut)
    <3> HIDE DEF cut, head
    <3>1. QED  BY <2>2, SubsetRecursion
  <2>4. l = [rest \in SUBSET ids |->
               IF cut[rest] = {} THEN <<>>
               ELSE head[rest] \o l[rest \ cut[rest]]]
    BY <2>3 DEF Follows
  <2>5. Is(l)
    <3>1. ASSUME NEW rest \in SUBSET ids
          PROVE  (IF cut[rest] = {} THEN <<>>
                  ELSE head[rest] \o l[rest \ cut[rest]]) =
                 (IF rest = {} THEN <<>>
                  ELSE <<id(rest)>> \o l[rest \ {id(rest)}])
      <4>1. cut[rest] = {} <=> rest = {}
        BY <2>2
      <4>2. rest # {} => cut[rest] = {id(rest)} /\ head[rest] = <<id(rest)>>
        OBVIOUS
      <4> HIDE DEF cut, head
      <4>3. QED  BY <4>1, <4>2
    <3> HIDE DEF cut, head
    <3>2. QED  BY <2>4, <3>1
  <2>6. QED  BY <2>5
<1>3. Is(list)
  <2> HIDE DEF Is
  <2>1. QED  BY <1>2
<1> HIDE DEF list
<1> DEFINE S == {rest \in SUBSET ids : /\ list[rest] \in Seq(ids)
                                       /\ IsInjective(list[rest])
                                       /\ ToSet(list[rest]) = rest}
<1>4. ASSUME NEW rest \in SUBSET ids,
             \A less \in SUBSET rest : less # rest => less \in S
      PROVE  rest \in S
  <2>1. CASE rest = {}
    <3>1. list[rest] = <<>>
      BY <1>3, <2>1
    <3>2. QED  BY <2>1, <3>1, EmptySequence
  <2>2. CASE rest # {}
    <3>1. id(rest) \in rest
      BY <2>2
    <3>2. list[rest] = <<id(rest)>> \o list[rest \ {id(rest)}]
      BY <1>3, <2>2
    <3> DEFINE i == id(rest)
    <3> HIDE DEF i
    <3>3. i \in rest /\ list[rest] = <<i>> \o list[rest \ {i}]
      BY <3>1, <3>2 DEF i
    <3>4. rest \ {i} \in S
      BY <1>4, <3>3
    <3>5. /\ <<i>> \in Seq(ids) /\ IsInjective(<<i>>) /\ ToSet(<<i>>) = {i}
      BY <3>3, OneElement
    <3>6. /\ <<i>> \o list[rest \ {i}] \in Seq(ids)
          /\ IsInjective(<<i>> \o list[rest \ {i}])
          /\ ToSet(<<i>> \o list[rest \ {i}]) = {i} \cup (rest \ {i})
      <4>1. {i} \cap (rest \ {i}) = {}
        OBVIOUS
      <4>2. /\ list[rest \ {i}] \in Seq(ids)
            /\ IsInjective(list[rest \ {i}])
            /\ ToSet(list[rest \ {i}]) = rest \ {i}
        BY <3>4
      <4> DEFINE s == <<i>>
                 t == list[rest \ {i}]
      <4> HIDE DEF s, t
      <4>3. t \in Seq(ids) /\ IsInjective(t) /\ ToSet(t) = rest \ {i}
        BY <4>2 DEF t
      <4>4. s \in Seq(ids) /\ IsInjective(s) /\ ToSet(s) = {i}
        BY <3>5 DEF s
      <4>5. /\ s \o t \in Seq(ids) /\ IsInjective(s \o t)
            /\ ToSet(s \o t) = {i} \cup (rest \ {i})
        BY <4>1, <4>3, <4>4, InjectiveConcat
      <4>6. QED  BY <4>5 DEF s, t
    <3>7. {i} \cup (rest \ {i}) = rest
      BY <3>3
    <3>8. QED  BY <3>3, <3>6, <3>7
  <2>3. QED  BY <2>1, <2>2
<1> HIDE DEF S
<1>5. ids \in S
  <2>1. \A rest \in SUBSET ids : rest \in S
    BY <1>4, SubsetInd
  <2>2. QED  BY <2>1
<1>6. QED  BY <1>1, <1>5 DEF S

\* Drawn has an id at most once; all of them, when no remainder is without a
\* first; and none of a set that no remainder has a first of.
LEMMA DrawnOnce ==
  ASSUME NEW ids, IsFiniteSet(ids), NEW first,
         \A rest \in SUBSET ids : first[rest] \subseteq rest
  PROVE  /\ Drawn(ids, first) \in Seq(ids)
         /\ IsInjective(Drawn(ids, first))
         /\ (\A rest \in SUBSET ids : rest # {} => first[rest] # {}) =>
              ToSet(Drawn(ids, first)) = ids
         /\ \A T \in SUBSET ids :
              (\A rest \in SUBSET ids : T \subseteq rest => first[rest] \cap T = {}) =>
                ToSet(Drawn(ids, first)) \cap T = {}
<1> DEFINE Is(list) == list = [rest \in SUBSET ids |->
                                 IF first[rest] = {} THEN <<>>
                                 ELSE Listed(first[rest]) \o list[rest \ first[rest]]]
           list == CHOOSE l : Is(l)
<1>1. Drawn(ids, first) = list[ids]
  BY Zenon DEF Drawn
<1>2. \E l : Is(l)
  <2> DEFINE head == [rest \in SUBSET ids |-> Listed(first[rest])]
  <2>1. PICK l : Follows(l, ids, head, first)
    <3> HIDE DEF head
    <3>1. QED  BY SubsetRecursion
  <2>2. l = [rest \in SUBSET ids |->
               IF first[rest] = {} THEN <<>>
               ELSE head[rest] \o l[rest \ first[rest]]]
    BY <2>1 DEF Follows
  <2>3. Is(l)
    <3>1. \A rest \in SUBSET ids : head[rest] = Listed(first[rest])
      OBVIOUS
    <3> HIDE DEF head
    <3>2. QED  BY <2>2, <3>1
  <2>4. QED  BY <2>3
<1>3. Is(list)
  <2> HIDE DEF Is
  <2>1. QED  BY <1>2
<1> HIDE DEF list
<1> DEFINE Lively == \A rest \in SUBSET ids : rest # {} => first[rest] # {}
           Missed(T) == \A rest \in SUBSET ids :
                          T \subseteq rest => first[rest] \cap T = {}
           S == {rest \in SUBSET ids :
                   /\ list[rest] \in Seq(ids)
                   /\ IsInjective(list[rest])
                   /\ ToSet(list[rest]) \subseteq rest
                   /\ Lively => ToSet(list[rest]) = rest
                   /\ \A T \in SUBSET rest :
                        Missed(T) => ToSet(list[rest]) \cap T = {}}
<1>4. ASSUME NEW rest \in SUBSET ids,
             \A less \in SUBSET rest : less # rest => less \in S
      PROVE  rest \in S
  <2> HIDE DEF Missed, Lively
  <2>1. CASE first[rest] = {}
    <3>1. list[rest] = <<>>
      BY <1>3, <2>1
    <3>2. list[rest] \in Seq(ids) /\ IsInjective(list[rest]) /\ ToSet(list[rest]) = {}
      BY <3>1, EmptySequence
    <3>3. Lively => rest = {}
      BY <2>1 DEF Lively
    <3>4. QED  BY <3>2, <3>3
  <2>2. CASE first[rest] # {}
    <3> DEFINE s == Listed(first[rest])
               t == list[rest \ first[rest]]
    <3>1. list[rest] = s \o t
      BY <1>3, <2>2
    <3>2. first[rest] \subseteq rest /\ first[rest] \subseteq ids
      OBVIOUS
    <3>3. s \in Seq(first[rest]) /\ IsInjective(s) /\ ToSet(s) = first[rest]
      <4>1. IsFiniteSet(first[rest])
        BY <3>2, FS_Subset
      <4>2. QED  BY <4>1, ListedOnce
    <3>4. rest \ first[rest] \in S
      BY <1>4, <2>2, <3>2
    <3>5. /\ t \in Seq(ids) /\ IsInjective(t) /\ ToSet(t) \subseteq rest \ first[rest]
          /\ Lively => ToSet(t) = rest \ first[rest]
          /\ \A T \in SUBSET (rest \ first[rest]) :
               Missed(T) => ToSet(t) \cap T = {}
      BY <3>4
    <3> HIDE DEF s, t
    <3>6. s \in Seq(ids)
      BY <3>2, <3>3
    <3>7. ToSet(s) \cap ToSet(t) = {}
      BY <3>3, <3>5
    <3>8. /\ list[rest] \in Seq(ids) /\ IsInjective(list[rest])
          /\ ToSet(list[rest]) = ToSet(s) \cup ToSet(t)
      BY <3>1, <3>3, <3>5, <3>6, <3>7, InjectiveConcat
    <3>9. /\ ToSet(list[rest]) \subseteq rest
          /\ Lively => ToSet(list[rest]) = rest
      BY <3>2, <3>3, <3>5, <3>8
    <3>10. ASSUME NEW T \in SUBSET rest, Missed(T)
           PROVE  ToSet(list[rest]) \cap T = {}
      <4>1. first[rest] \cap T = {}
        BY <3>10 DEF Missed
      <4>2. T \in SUBSET (rest \ first[rest])
        BY <4>1
      <4>3. ToSet(t) \cap T = {}
        BY <3>5, <3>10, <4>2
      <4>4. QED  BY <3>3, <3>8, <4>1, <4>3
    <3>11. QED  BY <3>8, <3>9, <3>10
  <2>3. QED  BY <2>1, <2>2
<1>5. ids \in S
  <2> HIDE DEF S
  <2>1. \A rest \in SUBSET ids : rest \in S
    BY <1>4, SubsetInd
  <2>2. QED  BY <2>1
<1>6. QED  BY <1>1, <1>5

------------------------------------------------------------------------------
(* What can be reached.                                                     *)

LEMMA JoinedIs ==
  ASSUME NEW f, NEW g
  PROVE  /\ DOMAIN Joined(f, g) = DOMAIN f \cup DOMAIN g
         /\ \A x \in DOMAIN f : Joined(f, g)[x] = f[x]
         /\ \A x \in DOMAIN g \ DOMAIN f : Joined(f, g)[x] = g[x]
BY DEF Joined

LEMMA InsertedIs ==
  ASSUME NEW rows, NEW id, NEW row
  PROVE  /\ DOMAIN Inserted(rows, id, row) = DOMAIN rows \cup {id}
         /\ \A x \in DOMAIN rows : Inserted(rows, id, row)[x] = rows[x]
         /\ id \notin DOMAIN rows => Inserted(rows, id, row)[id] = row
BY DEF Inserted, Joined

\* The steps of a search: w[d] is the distance of each node that is at most
\* d arrows away.
Searches(w, m, arrows, roots) ==
  w = [d \in 0..m |->
         IF d = 0 THEN [n \in roots |-> 0]
         ELSE LET nearer == w[d - 1]
              IN  Joined(nearer, [n \in Heads(arrows, DOMAIN nearer) |-> d])]

LEMMA SearchExists ==
  ASSUME NEW arrows, NEW roots
  PROVE  \A m \in Nat : \E w : Searches(w, m, arrows, roots)
<1> DEFINE Done == {m \in Nat : \E w : Searches(w, m, arrows, roots)}
<1>1. 0 \in Done
  <2> DEFINE w == [d \in 0..0 |-> [n \in roots |-> 0]]
  <2>1. Searches(w, 0, arrows, roots)
    <3>1. \A d \in 0..0 : d = 0
      OBVIOUS
    <3>2. QED  BY <3>1 DEF Searches
  <2>2. QED  BY <2>1
<1>2. \A m \in Nat : m \in Done => m + 1 \in Done
  <2> SUFFICES ASSUME NEW m \in Nat, m \in Done
               PROVE  m + 1 \in Done
    OBVIOUS
  <2>1. PICK w : Searches(w, m, arrows, roots)
    OBVIOUS
  <2> DEFINE last == Joined(w[m], [n \in Heads(arrows, DOMAIN w[m]) |-> m + 1])
             v == [d \in 0..(m + 1) |-> IF d = m + 1 THEN last ELSE w[d]]
             At(u, d) == IF d = 0 THEN [n \in roots |-> 0]
                         ELSE Joined(u[d - 1],
                                [n \in Heads(arrows, DOMAIN u[d - 1]) |-> d])
  <2>2. ASSUME NEW d \in 0..(m + 1)
        PROVE  v[d] = At(v, d)
    <3>1. \A e \in 0..m : v[e] = w[e]
      OBVIOUS
    <3>2. v[m + 1] = last
      OBVIOUS
    <3> HIDE DEF v
    <3>3. CASE d = m + 1
      <4>1. v[m] = w[m] /\ m + 1 # 0 /\ m + 1 - 1 = m
        BY <3>1
      <4>2. QED  BY <3>2, <3>3, <4>1
    <3>4. CASE d \in 0..m
      <4>1. w[d] = At(w, d)
        BY <2>1, <3>4 DEF Searches
      <4>2. d # 0 => d - 1 \in 0..m
        BY <3>4
      <4>3. d # 0 => v[d - 1] = w[d - 1]
        BY <3>1, <4>2
      <4>4. QED  BY <3>1, <3>4, <4>1, <4>3
    <3>5. QED  BY <3>3, <3>4
  <2>3. Searches(v, m + 1, arrows, roots)
    <3>1. v = [d \in 0..(m + 1) |-> v[d]]
      OBVIOUS
    <3> HIDE DEF v
    <3>2. v = [d \in 0..(m + 1) |-> At(v, d)]
      BY <2>2, <3>1
    <3>3. QED  BY <3>2 DEF Searches
  <2>4. QED  BY <2>3
<1> HIDE DEF Done
<1>3. \A m \in Nat : m \in Done
  BY <1>1, <1>2, NatInd
<1>4. QED  BY <1>3 DEF Done

\* The nodes at most d arrows away grow by the heads of those at d - 1.
LEMMA SearchLevels ==
  ASSUME NEW arrows, IsFiniteSet(arrows), NEW roots
  PROVE  \E level :
           /\ level[0] = roots
           /\ \A d \in 1..Cardinality(arrows) :
                level[d] = level[d - 1] \cup Heads(arrows, level[d - 1])
           /\ level[Cardinality(arrows)] = Reachable(arrows, roots)
<1> DEFINE m == Cardinality(arrows)
           w == CHOOSE x : Searches(x, m, arrows, roots)
           level == [d \in 0..m |-> DOMAIN w[d]]
<1>1. m \in Nat
  BY FS_CardinalityType
<1>2. Distances(arrows, roots) = w[m]
  BY Zenon DEF Distances, Searches
<1>3. Searches(w, m, arrows, roots)
  <2>1. \E x : Searches(x, m, arrows, roots)
    BY <1>1, SearchExists
  <2>2. QED  BY <2>1
<1> HIDE DEF w, m
<1>4. DOMAIN w[0] = roots
  <2>1. w[0] = [n \in roots |-> 0]
    BY <1>1, <1>3 DEF Searches
  <2>2. QED  BY <2>1
<1>5. ASSUME NEW d \in 1..m
      PROVE  DOMAIN w[d] = DOMAIN w[d - 1] \cup Heads(arrows, DOMAIN w[d - 1])
  <2>1. d \in 0..m /\ d # 0
    BY <1>1
  <2> DEFINE far == [n \in Heads(arrows, DOMAIN w[d - 1]) |-> d]
  <2>2. w[d] = Joined(w[d - 1], far)
    BY <1>3, <2>1 DEF Searches
  <2>3. DOMAIN far = Heads(arrows, DOMAIN w[d - 1])
    OBVIOUS
  <2>4. DOMAIN Joined(w[d - 1], far) = DOMAIN w[d - 1] \cup DOMAIN far
    BY Zenon, JoinedIs
  <2> HIDE DEF far
  <2>5. QED  BY <2>2, <2>3, <2>4
<1>6. /\ level[0] = roots
      /\ \A d \in 1..m : level[d] = level[d - 1] \cup Heads(arrows, level[d - 1])
      /\ level[m] = Reachable(arrows, roots)
  <2>1. 0 \in 0..m /\ m \in 0..m /\ \A d \in 1..m : d \in 0..m /\ d - 1 \in 0..m
    BY <1>1
  <2>2. QED  BY <1>2, <1>4, <1>5, <2>1 DEF Reachable
<1> HIDE DEF level
<1>7. QED  BY <1>6 DEF m

\* The roots can be reached, nothing else can than what arrows lead to, and
\* what an arrow leads to from there can be.
LEMMA ReachableIs ==
  ASSUME NEW arrows, IsFiniteSet(arrows), NEW roots
  PROVE  /\ roots \subseteq Reachable(arrows, roots)
         /\ Heads(arrows, Reachable(arrows, roots)) \subseteq Reachable(arrows, roots)
         /\ \A C : roots \subseteq C /\ Heads(arrows, C) \subseteq C =>
                     Reachable(arrows, roots) \subseteq C
<1> DEFINE m == Cardinality(arrows)
           R == Reachable(arrows, roots)
<1>1. PICK level :
        /\ level[0] = roots
        /\ \A d \in 1..m : level[d] = level[d - 1] \cup Heads(arrows, level[d - 1])
        /\ level[m] = R
  BY SearchLevels
<1>2. m \in Nat
  BY FS_CardinalityType
<1>3. \A d \in Nat : d + 1 <= m => level[d + 1] = level[d] \cup Heads(arrows, level[d])
  <2> SUFFICES ASSUME NEW d \in Nat, d + 1 <= m
               PROVE  level[d + 1] = level[d] \cup Heads(arrows, level[d])
    OBVIOUS
  <2>1. d + 1 \in 1..m /\ d + 1 - 1 = d
    BY <1>2
  <2>2. QED  BY <1>1, <2>1
<1>4. roots \subseteq R
  <2> DEFINE S == {d \in Nat : d <= m => roots \subseteq level[d]}
  <2>1. 0 \in S
    BY <1>1
  <2>2. \A d \in Nat : d \in S => d + 1 \in S
    BY <1>2, <1>3
  <2> HIDE DEF S
  <2>3. \A d \in Nat : d \in S
    BY <2>1, <2>2, NatInd
  <2>4. m \in S /\ m <= m
    BY <1>2, <2>3
  <2>5. QED  BY <1>1, <2>4 DEF S
<1>5. ASSUME NEW C, roots \subseteq C, Heads(arrows, C) \subseteq C
      PROVE  R \subseteq C
  <2> DEFINE S == {d \in Nat : d <= m => level[d] \subseteq C}
  <2>1. 0 \in S
    BY <1>1, <1>5
  <2>2. \A d \in Nat : d \in S => d + 1 \in S
    <3> SUFFICES ASSUME NEW d \in Nat, d \in S, d + 1 <= m
                 PROVE  level[d + 1] \subseteq C
      OBVIOUS
    <3>1. level[d] \subseteq C
      BY <1>2
    <3>2. Heads(arrows, level[d]) \subseteq Heads(arrows, C)
      BY <3>1 DEF Heads
    <3>3. QED  BY <1>3, <1>5, <3>1, <3>2
  <2> HIDE DEF S
  <2>3. \A d \in Nat : d \in S
    BY <2>1, <2>2, NatInd
  <2>4. m \in S /\ m <= m
    BY <1>2, <2>3
  <2>5. QED  BY <1>1, <2>4 DEF S
<1>6. Heads(arrows, R) \subseteq R
  <2> DEFINE Into(d) == {a \in arrows : a[2] \in level[d]}
             S == {d \in Nat : d <= m => \/ Heads(arrows, level[d]) \subseteq level[d]
                                         \/ Cardinality(Into(d)) >= d}
  <2>1. \A d \in Nat : IsFiniteSet(Into(d)) /\ Cardinality(Into(d)) \in Nat
    BY FS_Subset, FS_CardinalityType
  <2>2. 0 \in S
    BY <2>1
  <2>3. \A d \in Nat : d \in S => d + 1 \in S
    <3> SUFFICES ASSUME NEW d \in Nat, d + 1 <= m,
                        \/ Heads(arrows, level[d]) \subseteq level[d]
                        \/ Cardinality(Into(d)) >= d
                 PROVE  \/ Heads(arrows, level[d + 1]) \subseteq level[d + 1]
                        \/ Cardinality(Into(d + 1)) >= d + 1
      <4> HIDE DEF Into
      <4>1. QED  BY <1>2
    <3>1. level[d + 1] = level[d] \cup Heads(arrows, level[d])
      BY <1>3
    <3>2. CASE Heads(arrows, level[d]) \subseteq level[d]
      <4>1. level[d + 1] = level[d]
        BY <3>1, <3>2
      <4>2. QED  BY <3>2, <4>1
    <3>3. CASE ~(Heads(arrows, level[d]) \subseteq level[d])
      <4>1. Cardinality(Into(d)) >= d
        BY <3>3
      <4>2. PICK a \in arrows : a[1] \in level[d] /\ a[2] \notin level[d]
        BY <3>3 DEF Heads
      <4>3. a \in Into(d + 1) /\ a \notin Into(d)
        BY <3>1, <4>2 DEF Heads
      <4>4. Into(d) \cup {a} \in SUBSET Into(d + 1)
        BY <3>1, <4>3
      <4>5. /\ IsFiniteSet(Into(d + 1)) /\ IsFiniteSet(Into(d))
            /\ Cardinality(Into(d)) \in Nat /\ Cardinality(Into(d + 1)) \in Nat
        BY <2>1
      <4> DEFINE A == Into(d)
                 B == Into(d + 1)
      <4> HIDE DEF A, B
      <4>6. Cardinality(A \cup {a}) = Cardinality(A) + 1
        BY <4>3, <4>5, FS_AddElement DEF A
      <4>7. Cardinality(A \cup {a}) <= Cardinality(B)
        BY <4>4, <4>5, FS_Subset DEF A, B
      <4>8. /\ Cardinality(A) \in Nat /\ Cardinality(B) \in Nat
            /\ Cardinality(A) >= d
        BY <4>1, <4>5 DEF A, B
      <4>9. Cardinality(B) >= d + 1
        BY <4>6, <4>7, <4>8
      <4>10. QED  BY <4>9 DEF B
    <3>4. QED  BY <3>2, <3>3
  <2> HIDE DEF S
  <2>4. \A d \in Nat : d \in S
    BY <2>2, <2>3, NatInd
  <2>5. m \in S /\ m <= m
    BY <1>2, <2>4
  <2>6. \/ Heads(arrows, R) \subseteq R
        \/ Cardinality(Into(m)) >= m
    BY <1>1, <2>5 DEF S
  <2>7. ASSUME Cardinality(Into(m)) >= m
        PROVE  Heads(arrows, R) \subseteq R
    <3>1. Into(m) = arrows
      <4>1. Into(m) \in SUBSET arrows
        OBVIOUS
      <4>2. Cardinality(Into(m)) <= Cardinality(arrows)
        BY <4>1, FS_Subset
      <4>3. Cardinality(arrows) = Cardinality(Into(m))
        BY <1>2, <2>1, <2>7, <4>2
      <4>4. QED  BY <4>1, <4>3, FS_Subset
    <3>2. \A a \in arrows : a[2] \in R
      BY <1>1, <3>1
    <3>3. QED  BY <3>2 DEF Heads
  <2>8. QED  BY <2>6, <2>7
<1>7. QED  BY <1>4, <1>5, <1>6

\* Nothing can be reached from nowhere.
LEMMA NothingReached ==
  ASSUME NEW arrows, IsFiniteSet(arrows)
  PROVE  Reachable(arrows, {}) = {}
<1>1. Heads(arrows, {}) = {}
  BY DEF Heads
<1>2. QED  BY <1>1, ReachableIs

\* An arrow led to what is reached and is not a root.
LEMMA ReachedFrom ==
  ASSUME NEW arrows, IsFiniteSet(arrows), NEW roots,
         NEW n \in Reachable(arrows, roots), n \notin roots
  PROVE  \E a \in arrows : a[1] \in Reachable(arrows, roots) /\ a[2] = n
<1> DEFINE R == Reachable(arrows, roots)
           C == {x \in R : x \in roots \/ \E a \in arrows : a[1] \in R /\ a[2] = x}
<1>1. roots \subseteq R /\ Heads(arrows, R) \subseteq R
  BY ReachableIs
<1>2. roots \subseteq C
  BY <1>1
<1>3. Heads(arrows, C) \subseteq C
  <2>1. Heads(arrows, C) \subseteq Heads(arrows, R)
    BY DEF Heads
  <2>2. Heads(arrows, C) \subseteq R
    BY <1>1, <2>1
  <2>3. \A x \in Heads(arrows, C) : \E a \in arrows : a[1] \in R /\ a[2] = x
    BY DEF Heads
  <2>4. QED  BY <2>2, <2>3
<1>4. R \subseteq C
  <2> HIDE DEF C
  <2>1. QED  BY <1>2, <1>3, ReachableIs
<1>5. QED  BY <1>4

------------------------------------------------------------------------------
(* Graphs that the database admits.                                         *)

\* Rows that are whole; what a run made was reviewed when it was written, and
\* only evidence is rejected.
NodeFits(node) ==
  /\ node \in NodeRows({node.root, node.from})
  /\ node.made => node.review # "none"
  /\ node.review = "rejected" => node.kind \in {"source", "claim"}

EdgeFits(edge) == edge \in EdgeRows({edge.source, edge.target})

RowsFit(graph) ==
  /\ DOMAIN graph = {"nodes", "edges", "revision"}
  /\ graph.revision \in Nat
  /\ IsFiniteSet(DOMAIN graph.nodes) /\ IsFiniteSet(DOMAIN graph.edges)
  /\ \A n \in DOMAIN graph.nodes : NodeFits(graph.nodes[n])
  /\ \A e \in DOMAIN graph.edges : EdgeFits(graph.edges[e])

GraphFits(graph) ==
  RowsFit(graph) /\ RootsHold(graph) /\ EdgesHold(graph) /\ StaleMarksHold(graph)

LEMMA RowIsWhole ==
  ASSUME NEW ids, NEW node \in NodeRows(ids)
  PROVE  /\ DOMAIN node = {"kind", "review", "made", "root", "pinned", "text",
                           "against", "version", "place", "since", "causes",
                           "touched", "from"}
         /\ node.kind \in NodeKinds /\ node.review \in {"none", "accepted", "rejected"}
         /\ node.made \in BOOLEAN /\ node.root \in ids \cup {NoNode}
         /\ node.pinned \in BOOLEAN /\ node.text \in Texts /\ node.against \in BOOLEAN
         /\ node.version \in Nat \ {0} /\ node.place \in Nat \ {0}
         /\ node.since \in Nat /\ node.causes \in SUBSET Nat
         /\ node.touched \in Nat /\ node.from \in ids \cup {NoNode}
BY DEF NodeRows

\* A row with other values of the right kind is a row.
LEMMA RowChanges ==
  ASSUME NEW ids, NEW node \in NodeRows(ids), NEW other,
         other = [f \in DOMAIN node |-> other[f]],
         other.kind \in NodeKinds,
         other.review \in {"none", "accepted", "rejected"},
         other.made \in BOOLEAN,
         other.pinned \in BOOLEAN, other.text \in Texts, other.against \in BOOLEAN,
         other.version \in Nat \ {0}, other.place \in Nat \ {0},
         other.since \in Nat, other.causes \in SUBSET Nat, other.touched \in Nat
  PROVE  other \in NodeRows({other.root, other.from})
<1>1. DOMAIN node = {"kind", "review", "made", "root", "pinned", "text",
                     "against", "version", "place", "since", "causes",
                     "touched", "from"}
  BY RowIsWhole
<1>2. other = [kind |-> other.kind, review |-> other.review, made |-> other.made,
               root |-> other.root, pinned |-> other.pinned, text |-> other.text,
               against |-> other.against, version |-> other.version,
               place |-> other.place, since |-> other.since,
               causes |-> other.causes, touched |-> other.touched,
               from |-> other.from]
  BY <1>1
<1> DEFINE root == other.root
           from == other.from
<1>3. root \in {root, from} \cup {NoNode} /\ from \in {root, from} \cup {NoNode}
  OBVIOUS
<1>4. QED  BY <1>2, <1>3 DEF NodeRows

LEMMA TouchIs ==
  ASSUME NEW ids, NEW node \in NodeRows(ids), NEW revision
  PROVE  LET touched == Touch(node, revision) IN
         /\ DOMAIN touched = DOMAIN node
         /\ touched = [f \in DOMAIN node |-> touched[f]]
         /\ touched.version = node.version + 1
         /\ touched.touched = revision
         /\ \A f \in DOMAIN node \ {"version", "touched"} : touched[f] = node[f]
BY RowIsWhole DEF Touch

\* A semantic change of a row takes a version and its time, and neither moves
\* the node nor clears what made it stale.
Edited(was, is, revision) ==
  /\ NodeFits(is)
  /\ is.version = was.version + 1 /\ is.touched = revision
  /\ is.kind = was.kind /\ is.place = was.place
  /\ is.since = was.since /\ is.causes = was.causes
  /\ is.made = was.made /\ is.from = was.from

Moved(was, is) == is = [was EXCEPT !.place = @ + 1]

\* What a handler of the operation q does to a graph.
Handled(graph, q, after) ==
  /\ GraphFits(after)
  /\ after.revision = graph.revision
  /\ \A n \in DOMAIN after.nodes :
       IF n \notin DOMAIN graph.nodes
       THEN after.nodes[n].from = NoNode
       ELSE \/ after.nodes[n] = graph.nodes[n]
            \/ /\ Edited(graph.nodes[n], after.nodes[n], graph.revision + 1)
               /\ n \notin Invalidated(after, q, Capture(graph, q))
            \/ q.op = "MOVE_NODE" /\ Moved(graph.nodes[n], after.nodes[n])

\* Rows that change as rows may, in a graph whose edges stay.
LEMMA RowsChange ==
  ASSUME NEW graph, GraphFits(graph), NEW after,
         DOMAIN after = DOMAIN graph,
         after.edges = graph.edges, after.revision = graph.revision,
         DOMAIN after.nodes = DOMAIN graph.nodes,
         \A n \in DOMAIN graph.nodes :
           LET was == graph.nodes[n]
               is == after.nodes[n]
           IN  /\ NodeFits(is)
               /\ is.kind = was.kind
               /\ is.since = was.since /\ is.causes = was.causes
               /\ is.root = was.root \/ RootAllowed(graph.nodes, is.kind, is.root)
  PROVE  GraphFits(after)
<1>1. RowsFit(after)
  BY DEF GraphFits, RowsFit
<1>2. RootsHold(after)
  BY DEF GraphFits, RootsHold, RootAllowed
<1>3. EdgesHold(after)
  BY DEF GraphFits, EdgesHold
<1>4. StaleMarksHold(after)
  BY DEF GraphFits, StaleMarksHold, Stale
<1>5. QED  BY <1>1, <1>2, <1>3, <1>4 DEF GraphFits

LEMMA MoveFits ==
  ASSUME NEW graph, GraphFits(graph), NEW q, q.op = "MOVE_NODE",
         NEW after \in MoveNode(graph, q)
  PROVE  Handled(graph, q, after)
<1> DEFINE was == graph.nodes[q.node]
           row == [was EXCEPT !.place = @ + 1]
<1>1. /\ q.node \in DOMAIN graph.nodes
      /\ after = [graph EXCEPT !.nodes = [graph.nodes EXCEPT ![q.node] = row]]
  BY DEF MoveNode, Refused
<1>2. NodeFits(was) /\ DOMAIN graph = {"nodes", "edges", "revision"}
  BY <1>1 DEF GraphFits, RowsFit
<1>3. /\ NodeFits(row)
      /\ \A f \in DOMAIN was \ {"place"} : row[f] = was[f]
      /\ row.kind = was.kind /\ row.root = was.root
      /\ row.since = was.since /\ row.causes = was.causes
  <2>1. /\ row = [f \in DOMAIN was |-> row[f]]
        /\ row.place \in Nat \ {0}
        /\ \A f \in DOMAIN was \ {"place"} : row[f] = was[f]
    BY <1>2, RowIsWhole DEF NodeFits
  <2>2. PICK ids : was \in NodeRows(ids)
    BY <1>2 DEF NodeFits
  <2> HIDE DEF row, was
  <2>3. row \in NodeRows({row.root, row.from})
    BY <2>1, <2>2, RowChanges, RowIsWhole
  <2>4. QED  BY <1>2, <2>1, <2>2, <2>3, RowIsWhole DEF NodeFits
<1> HIDE DEF row
<1>4. /\ after.nodes = [graph.nodes EXCEPT ![q.node] = row]
      /\ after.edges = graph.edges /\ after.revision = graph.revision
      /\ DOMAIN after = DOMAIN graph
  BY <1>1, <1>2
<1>5. /\ DOMAIN after.nodes = DOMAIN graph.nodes
      /\ after.nodes[q.node] = row
      /\ \A n \in DOMAIN graph.nodes \ {q.node} : after.nodes[n] = graph.nodes[n]
  BY <1>1, <1>4
<1>6. \A n \in DOMAIN graph.nodes : NodeFits(graph.nodes[n])
  BY DEF GraphFits, RowsFit
<1>7. GraphFits(after)
  BY <1>3, <1>4, <1>5, <1>6, RowsChange
<1>8. QED  BY <1>4, <1>5, <1>7 DEF Handled, Moved, row

\* A row with other content, touched, is an edited row.
LEMMA TouchFits ==
  ASSUME NEW was, NEW mid, NodeFits(was), NodeFits(mid), NEW revision \in Nat,
         \A f \in {"version", "kind", "place", "since", "causes", "made", "from"} :
           mid[f] = was[f]
  PROVE  /\ Edited(was, Touch(mid, revision), revision)
         /\ Touch(mid, revision).root = mid.root
         /\ Touch(mid, revision).review = mid.review
<1> DEFINE is == Touch(mid, revision)
<1>1. /\ is.version = mid.version + 1 /\ is.touched = revision
      /\ is = [f \in DOMAIN mid |-> is[f]]
      /\ \A f \in DOMAIN mid \ {"version", "touched"} : is[f] = mid[f]
  BY TouchIs DEF NodeFits
<1>2. PICK ids : mid \in NodeRows(ids)
  BY DEF NodeFits
<1> HIDE DEF is
<1>3. /\ is.kind = mid.kind /\ is.review = mid.review /\ is.made = mid.made
      /\ is.root = mid.root /\ is.pinned = mid.pinned /\ is.text = mid.text
      /\ is.against = mid.against /\ is.place = mid.place
      /\ is.since = mid.since /\ is.causes = mid.causes /\ is.from = mid.from
  BY <1>1, <1>2, RowIsWhole
<1>4. is.version \in Nat \ {0}
  <2>1. mid.version \in Nat \ {0}
    BY <1>2, RowIsWhole
  <2>2. QED  BY <1>1, <2>1
<1>5. is \in NodeRows({is.root, is.from})
  BY <1>1, <1>2, <1>3, <1>4, RowIsWhole, RowChanges
<1>6. NodeFits(is)
  BY <1>3, <1>5 DEF NodeFits
<1>7. QED  BY <1>1, <1>3, <1>6 DEF Edited, is

LEMMA ChangeFits ==
  ASSUME NEW graph, GraphFits(graph), NEW q, Admitted(q),
         q.op \in {"UPDATE_NODE", "PATCH_NODE_METADATA"},
         NEW after \in ChangeNode(graph, q)
  PROVE  Handled(graph, q, after)
<1> DEFINE was == graph.nodes[q.node]
           mid == Joined(q.changes, was)
           row == Touch(mid, graph.revision + 1)
<1>1. /\ q.node \in DOMAIN graph.nodes
      /\ RootAllowed(graph.nodes, was.kind, mid.root)
      /\ after = [graph EXCEPT !.nodes = [graph.nodes EXCEPT ![q.node] = row]]
  BY DEF ChangeNode, Refused, Matches
<1>2. /\ NodeFits(was) /\ DOMAIN graph = {"nodes", "edges", "revision"}
      /\ graph.revision \in Nat
  BY <1>1 DEF GraphFits, RowsFit
<1>3. \A f \in DOMAIN q.changes \ {"root"} :
        f \in DOMAIN Editable /\ q.changes[f] \in Editable[f]
  BY DEF Admitted
<1>4. /\ \A f \in DOMAIN q.changes : f \in {"root", "pinned", "text", "against"}
      /\ "pinned" \in DOMAIN q.changes => q.changes.pinned \in BOOLEAN
      /\ "text" \in DOMAIN q.changes => q.changes.text \in Texts
      /\ "against" \in DOMAIN q.changes => q.changes.against \in BOOLEAN
  BY <1>3 DEF Editable
<1>5. PICK ids : was \in NodeRows(ids)
  BY <1>2 DEF NodeFits
<1>6. /\ DOMAIN mid = DOMAIN was
      /\ mid = [f \in DOMAIN was |-> mid[f]]
      /\ \A f \in DOMAIN q.changes : mid[f] = q.changes[f]
      /\ \A f \in DOMAIN was \ DOMAIN q.changes : mid[f] = was[f]
  <2> HIDE DEF was
  <2>1. DOMAIN q.changes \subseteq DOMAIN was
    BY <1>4, <1>5, RowIsWhole
  <2>2. QED  BY <2>1 DEF Joined
<1> HIDE DEF mid, was
<1>7. /\ mid.kind = was.kind /\ mid.review = was.review /\ mid.made = was.made
      /\ mid.version = was.version /\ mid.place = was.place
      /\ mid.since = was.since /\ mid.causes = was.causes
      /\ mid.touched = was.touched /\ mid.from = was.from
  BY <1>4, <1>5, <1>6, RowIsWhole
<1>8. mid.pinned \in BOOLEAN /\ mid.text \in Texts /\ mid.against \in BOOLEAN
  BY <1>4, <1>5, <1>6, RowIsWhole
<1>9. NodeFits(mid)
  <2>1. mid \in NodeRows({mid.root, mid.from})
    BY <1>5, <1>6, <1>7, <1>8, RowIsWhole, RowChanges
  <2>2. QED  BY <1>2, <1>7, <2>1 DEF NodeFits
<1>10. Edited(was, row, graph.revision + 1) /\ row.root = mid.root
  BY <1>2, <1>7, <1>9, TouchFits
<1> HIDE DEF row
<1>11. /\ after.nodes = [graph.nodes EXCEPT ![q.node] = row]
       /\ after.edges = graph.edges /\ after.revision = graph.revision
       /\ DOMAIN after = DOMAIN graph
  BY <1>1, <1>2
<1>12. /\ DOMAIN after.nodes = DOMAIN graph.nodes
       /\ after.nodes[q.node] = row
       /\ \A n \in DOMAIN graph.nodes \ {q.node} : after.nodes[n] = graph.nodes[n]
  BY <1>1, <1>11
<1>13. \A n \in DOMAIN graph.nodes : NodeFits(graph.nodes[n])
  BY DEF GraphFits, RowsFit
<1>13a. ASSUME NEW n \in DOMAIN graph.nodes
      PROVE  /\ NodeFits(after.nodes[n])
             /\ after.nodes[n].kind = graph.nodes[n].kind
             /\ after.nodes[n].since = graph.nodes[n].since
             /\ after.nodes[n].causes = graph.nodes[n].causes
             /\ \/ after.nodes[n].root = graph.nodes[n].root
                \/ RootAllowed(graph.nodes, after.nodes[n].kind, after.nodes[n].root)
  <2>1. CASE n = q.node
    BY <1>1, <1>10, <1>12, <2>1 DEF Edited, was
  <2>2. CASE n # q.node
    BY <1>12, <1>13, <2>2
  <2>3. QED  BY <2>1, <2>2
<1>14. GraphFits(after)
  BY <1>11, <1>12, <1>13a, RowsChange
<1>15. q.node \notin Invalidated(after, q, Capture(graph, q))
  BY DEF Invalidated, Capture, NoCapture, Dependents
<1>16. QED  BY <1>10, <1>11, <1>12, <1>14, <1>15 DEF Handled, was

LEMMA ReplaceFits ==
  ASSUME NEW graph, GraphFits(graph), NEW q, q.op = "REPLACE_ASSUMPTION",
         NEW after \in ReplaceAssumption(graph, q)
  PROVE  Handled(graph, q, after)
<1> DEFINE was == graph.nodes[q.node]
           mid == [was EXCEPT !.text = "edited"]
           row == Touch(mid, graph.revision + 1)
<1>1. /\ q.node \in DOMAIN graph.nodes
      /\ after = [graph EXCEPT !.nodes = [graph.nodes EXCEPT ![q.node] = row]]
  BY DEF ReplaceAssumption, Refused, Matches
<1>2. /\ NodeFits(was) /\ DOMAIN graph = {"nodes", "edges", "revision"}
      /\ graph.revision \in Nat
  BY <1>1 DEF GraphFits, RowsFit
<1>3. PICK ids : was \in NodeRows(ids)
  BY <1>2 DEF NodeFits
<1>4. /\ mid = [f \in DOMAIN was |-> mid[f]]
      /\ mid.text = "edited"
      /\ \A f \in DOMAIN was \ {"text"} : mid[f] = was[f]
  BY <1>3, RowIsWhole
<1> HIDE DEF mid, was
<1>5. /\ mid.kind = was.kind /\ mid.review = was.review /\ mid.made = was.made
      /\ mid.root = was.root /\ mid.pinned = was.pinned /\ mid.against = was.against
      /\ mid.version = was.version /\ mid.place = was.place
      /\ mid.since = was.since /\ mid.causes = was.causes
      /\ mid.touched = was.touched /\ mid.from = was.from
  BY <1>3, <1>4, RowIsWhole
<1>6. NodeFits(mid)
  <2>1. mid.text \in Texts
    BY <1>4 DEF Texts
  <2>2. mid \in NodeRows({mid.root, mid.from})
    BY <1>3, <1>4, <1>5, <2>1, RowIsWhole, RowChanges
  <2>3. QED  BY <1>2, <1>5, <2>2 DEF NodeFits
<1>7. Edited(was, row, graph.revision + 1) /\ row.root = mid.root
  BY <1>2, <1>5, <1>6, TouchFits
<1> HIDE DEF row
<1>8. /\ after.nodes = [graph.nodes EXCEPT ![q.node] = row]
      /\ after.edges = graph.edges /\ after.revision = graph.revision
      /\ DOMAIN after = DOMAIN graph
  BY <1>1, <1>2
<1>9. /\ DOMAIN after.nodes = DOMAIN graph.nodes
      /\ after.nodes[q.node] = row
      /\ \A n \in DOMAIN graph.nodes \ {q.node} : after.nodes[n] = graph.nodes[n]
  BY <1>1, <1>8
<1>10. \A n \in DOMAIN graph.nodes : NodeFits(graph.nodes[n])
  BY DEF GraphFits, RowsFit
<1>10a. ASSUME NEW n \in DOMAIN graph.nodes
      PROVE  /\ NodeFits(after.nodes[n])
             /\ after.nodes[n].kind = graph.nodes[n].kind
             /\ after.nodes[n].since = graph.nodes[n].since
             /\ after.nodes[n].causes = graph.nodes[n].causes
             /\ \/ after.nodes[n].root = graph.nodes[n].root
                \/ RootAllowed(graph.nodes, after.nodes[n].kind, after.nodes[n].root)
  <2>1. CASE n = q.node
    BY <1>1, <1>5, <1>7, <1>9, <2>1 DEF Edited, was
  <2>2. CASE n # q.node
    BY <1>9, <1>10, <2>2
  <2>3. QED  BY <2>1, <2>2
<1>11. GraphFits(after)
  BY <1>8, <1>9, <1>10a, RowsChange
<1>12. q.node \notin Invalidated(after, q, Capture(graph, q))
  BY DEF Invalidated, Capture, NoCapture, Dependents
<1>13. QED  BY <1>7, <1>8, <1>9, <1>11, <1>12 DEF Handled, was

LEMMA RejectFits ==
  ASSUME NEW graph, GraphFits(graph), NEW q, q.op = "REJECT_EVIDENCE",
         NEW after \in RejectEvidence(graph, q)
  PROVE  Handled(graph, q, after)
<1> DEFINE hit == Impacted(graph, q) \cup {q.node}
           lost == {q.node} \cup
                     {c \in Impacted(graph, q) : ~Supported(graph, c, q.node)}
           mid(n) == IF n \notin lost THEN graph.nodes[n]
                     ELSE [graph.nodes[n] EXCEPT !.review = "rejected"]
           row(n) == Touch(mid(n), graph.revision + 1)
           nodes == [n \in DOMAIN graph.nodes |->
                       IF n \in hit THEN row(n) ELSE graph.nodes[n]]
<1>1. /\ q.node \in DOMAIN graph.nodes
      /\ graph.nodes[q.node].kind \in {"source", "claim"}
      /\ after = [graph EXCEPT !.nodes = nodes]
  BY DEF RejectEvidence, Refused, Matches
<1>2. /\ DOMAIN graph = {"nodes", "edges", "revision"}
      /\ graph.revision \in Nat
      /\ \A n \in DOMAIN graph.nodes : NodeFits(graph.nodes[n])
  BY DEF GraphFits, RowsFit
<1>3. \A n \in hit : /\ n \in DOMAIN graph.nodes
                     /\ graph.nodes[n].kind \in {"source", "claim"}
                     /\ n \in Waypoints(graph, q.node)
  BY <1>1 DEF Impacted, ClaimsOf, Waypoints
<1>4. ASSUME NEW n \in hit
      PROVE  /\ Edited(graph.nodes[n], row(n), graph.revision + 1)
             /\ row(n).root = graph.nodes[n].root
  <2> DEFINE was == graph.nodes[n]
             is == mid(n)
  <2>1. NodeFits(was) /\ was.kind \in {"source", "claim"}
    BY <1>2, <1>3
  <2>2. PICK ids : was \in NodeRows(ids)
    BY <2>1 DEF NodeFits
  <2>3. /\ is = [f \in DOMAIN was |-> is[f]]
        /\ is.review \in {"rejected", was.review}
        /\ \A f \in DOMAIN was \ {"review"} : is[f] = was[f]
    <3>1. is = was \/ is = [was EXCEPT !.review = "rejected"]
      OBVIOUS
    <3> HIDE DEF is, was
    <3>2. was = [f \in DOMAIN was |-> was[f]] /\ "review" \in DOMAIN was
      BY <2>2, RowIsWhole DEF NodeRows
    <3>3. CASE is = was
      BY <3>2, <3>3
    <3>4. CASE is = [was EXCEPT !.review = "rejected"]
      BY <3>2, <3>4
    <3>5. QED  BY <3>1, <3>3, <3>4
  <2> HIDE DEF is, was
  <2>4. /\ is.kind = was.kind /\ is.made = was.made /\ is.text = was.text
        /\ is.root = was.root /\ is.pinned = was.pinned /\ is.against = was.against
        /\ is.version = was.version /\ is.place = was.place
        /\ is.since = was.since /\ is.causes = was.causes
        /\ is.touched = was.touched /\ is.from = was.from
    BY <2>2, <2>3, RowIsWhole
  <2>5. is.review \in {"none", "accepted", "rejected"}
    BY <2>2, <2>3, RowIsWhole
  <2>6. NodeFits(is)
    <3>1. is \in NodeRows({is.root, is.from})
      BY <2>2, <2>3, <2>4, <2>5, RowIsWhole, RowChanges
    <3>2. QED  BY <2>1, <2>3, <2>4, <3>1 DEF NodeFits
  <2>7. /\ Edited(was, Touch(is, graph.revision + 1), graph.revision + 1)
        /\ Touch(is, graph.revision + 1).root = is.root
    BY <1>2, <2>1, <2>4, <2>6, TouchFits
  <2>8. QED  BY <2>4, <2>7 DEF is, was
<1> HIDE DEF hit, row
<1>5. /\ after.nodes = nodes
      /\ after.edges = graph.edges /\ after.revision = graph.revision
      /\ DOMAIN after = DOMAIN graph
  <2> HIDE DEF nodes
  <2>1. QED  BY <1>1, <1>2
<1>6. /\ DOMAIN after.nodes = DOMAIN graph.nodes
      /\ \A n \in hit : after.nodes[n] = row(n)
      /\ \A n \in DOMAIN graph.nodes \ hit : after.nodes[n] = graph.nodes[n]
  BY <1>3, <1>5
<1> HIDE DEF nodes
<1>7. ASSUME NEW n \in DOMAIN graph.nodes
      PROVE  LET was == graph.nodes[n]
                 is == after.nodes[n]
             IN  /\ NodeFits(is)
                 /\ is.kind = was.kind
                 /\ is.since = was.since /\ is.causes = was.causes
                 /\ is.root = was.root
  BY <1>2, <1>4, <1>6 DEF Edited
<1>8. GraphFits(after)
  BY <1>5, <1>6, <1>7, RowsChange
<1>9. \A n \in hit : n \notin Invalidated(after, q, Capture(graph, q))
  <2>1. Evidence(graph, q.node)
    BY <1>1 DEF Evidence
  <2>2. Capture(graph, q) = [NoCapture EXCEPT !.roots = Waypoints(graph, q.node),
                                              !.excluded = Waypoints(graph, q.node)]
    BY <2>1 DEF Capture
  <2>3. QED  BY <1>3, <2>2 DEF Invalidated, NoCapture, Dependents
<1>10. QED  BY <1>4, <1>5, <1>6, <1>8, <1>9 DEF Handled

NewRow(kind, revision, root, pinned) ==
  [FreshNode(kind, revision) EXCEPT !.root = root, !.pinned = pinned]

\* A new row is whole, fresh and takes no part in the staleness of others.
LEMMA FreshFits ==
  ASSUME NEW kind \in NodeKinds, NEW revision \in Nat, NEW root,
         NEW pinned \in BOOLEAN
  PROVE  LET row == NewRow(kind, revision, root, pinned)
         IN  /\ NodeFits(row)
             /\ row.kind = kind /\ row.root = root /\ row.from = NoNode
             /\ row.since = Fresh /\ row.causes = {}
<1> DEFINE new == FreshNode(kind, revision)
           row == [new EXCEPT !.root = root, !.pinned = pinned]
<1>1. new \in NodeRows({})
  BY DEF FreshNode, NodeRows, Texts, Fresh
<1>2. /\ new.kind = kind /\ new.review = "none" /\ new.made = FALSE
      /\ new.from = NoNode /\ new.since = Fresh /\ new.causes = {}
  BY DEF FreshNode
<1> HIDE DEF new
<1>3. /\ row = [f \in DOMAIN new |-> row[f]]
      /\ row.root = root /\ row.pinned = pinned
      /\ \A f \in DOMAIN new \ {"root", "pinned"} : row[f] = new[f]
  BY <1>1, RowIsWhole
<1> HIDE DEF row
<1>4. /\ row.kind = new.kind /\ row.review = new.review /\ row.made = new.made
      /\ row.text = new.text /\ row.against = new.against
      /\ row.version = new.version /\ row.place = new.place
      /\ row.since = new.since /\ row.causes = new.causes
      /\ row.touched = new.touched /\ row.from = new.from
  BY <1>1, <1>3, RowIsWhole
<1>5. row \in NodeRows({row.root, row.from})
  BY <1>1, <1>3, <1>4, RowIsWhole, RowChanges
<1>6. NodeFits(row)
  BY <1>2, <1>4, <1>5 DEF NodeFits
<1>7. NewRow(kind, revision, root, pinned) = row
  BY DEF NewRow, row, new
<1>8. QED  BY <1>2, <1>3, <1>4, <1>6, <1>7

LEMMA AddNodeFits ==
  ASSUME NEW graph, GraphFits(graph), NEW q, Admitted(q), q.op = "ADD_NODE",
         NEW id, NEW after \in AddNode(graph, q, id)
  PROVE  Handled(graph, q, after)
<1> DEFINE row == NewRow(q.kind, graph.revision + 1, q.root, q.pinned)
           nodes == Inserted(graph.nodes, id, row)
<1>1. /\ RootAllowed(graph.nodes, q.kind, q.root)
      /\ after = [graph EXCEPT !.nodes = nodes]
  BY DEF AddNode, Refused, NewRow
<1>2. /\ DOMAIN graph = {"nodes", "edges", "revision"}
      /\ graph.revision \in Nat
      /\ IsFiniteSet(DOMAIN graph.nodes)
      /\ \A n \in DOMAIN graph.nodes : NodeFits(graph.nodes[n])
  BY DEF GraphFits, RowsFit
<1>3. q.kind \in NodeKinds /\ q.pinned \in BOOLEAN
  BY DEF Admitted
<1>4. /\ NodeFits(row)
      /\ row.kind = q.kind /\ row.root = q.root /\ row.from = NoNode
      /\ row.since = Fresh /\ row.causes = {}
  <2>1. graph.revision + 1 \in Nat
    BY <1>2
  <2>2. QED  BY <1>3, <2>1, FreshFits
<1> HIDE DEF row
<1>5. /\ DOMAIN nodes = DOMAIN graph.nodes \cup {id}
      /\ \A n \in DOMAIN graph.nodes : nodes[n] = graph.nodes[n]
      /\ id \notin DOMAIN graph.nodes => nodes[id] = row
  BY InsertedIs
<1> HIDE DEF nodes
<1>6. /\ after.nodes = nodes /\ after.edges = graph.edges
      /\ after.revision = graph.revision /\ DOMAIN after = DOMAIN graph
  BY <1>1, <1>2
<1>7. IsFiniteSet(DOMAIN after.nodes)
  BY <1>2, <1>5, <1>6, FS_AddElement
<1>8. RowsFit(after)
  BY <1>4, <1>5, <1>6, <1>7 DEF GraphFits, RowsFit
<1>9. RootsHold(after)
  BY <1>1, <1>4, <1>5, <1>6 DEF GraphFits, RootsHold, RootAllowed
<1>10. EdgesHold(after)
  BY <1>5, <1>6 DEF GraphFits, EdgesHold
<1>11. StaleMarksHold(after)
  BY <1>4, <1>5, <1>6 DEF GraphFits, StaleMarksHold, Stale
<1>12. GraphFits(after)
  BY <1>8, <1>9, <1>10, <1>11 DEF GraphFits
<1>13. QED  BY <1>4, <1>5, <1>6, <1>12 DEF Handled

LEMMA DeleteNodeFits ==
  ASSUME NEW graph, GraphFits(graph), NEW q, NEW after \in DeleteNode(graph, q)
  PROVE  Handled(graph, q, after)
<1> DEFINE nodes == Restrict(graph.nodes, DOMAIN graph.nodes \ {q.node})
<1>1. /\ IncidentEdges(graph, q.node) = {}
      /\ Anchored(graph, q.node) = {}
      /\ after = [graph EXCEPT !.nodes = nodes]
  BY DEF DeleteNode, Refused
<1>2. /\ DOMAIN graph = {"nodes", "edges", "revision"}
      /\ graph.revision \in Nat
      /\ IsFiniteSet(DOMAIN graph.nodes)
      /\ \A n \in DOMAIN graph.nodes : NodeFits(graph.nodes[n])
  BY DEF GraphFits, RowsFit
<1>3. /\ DOMAIN nodes = DOMAIN graph.nodes \ {q.node}
      /\ \A n \in DOMAIN nodes : nodes[n] = graph.nodes[n]
  BY DEF Restrict
<1> HIDE DEF nodes
<1>4. /\ after.nodes = nodes /\ after.edges = graph.edges
      /\ after.revision = graph.revision /\ DOMAIN after = DOMAIN graph
  BY <1>1, <1>2
<1>5. IsFiniteSet(DOMAIN after.nodes)
  BY <1>2, <1>3, <1>4, FS_RemoveElement
<1>6. RowsFit(after)
  BY <1>3, <1>4, <1>5 DEF GraphFits, RowsFit
<1>7. RootsHold(after)
  BY <1>1, <1>3, <1>4 DEF GraphFits, RootsHold, Anchored
<1>8. EdgesHold(after)
  BY <1>1, <1>3, <1>4 DEF GraphFits, EdgesHold, IncidentEdges
<1>9. StaleMarksHold(after)
  BY <1>3, <1>4 DEF GraphFits, StaleMarksHold, Stale
<1>10. GraphFits(after)
  BY <1>6, <1>7, <1>8, <1>9 DEF GraphFits
<1>11. QED  BY <1>3, <1>4, <1>10 DEF Handled

\* Edges that change beside nodes that stay.
LEMMA EdgesChange ==
  ASSUME NEW graph, GraphFits(graph), NEW q, NEW edges,
         IsFiniteSet(DOMAIN edges),
         \A e \in DOMAIN edges :
           /\ EdgeFits(edges[e])
           /\ {edges[e].source, edges[e].target} \subseteq DOMAIN graph.nodes
  PROVE  Handled(graph, q, [graph EXCEPT !.edges = edges])
<1> DEFINE after == [graph EXCEPT !.edges = edges]
<1>1. /\ DOMAIN graph = {"nodes", "edges", "revision"}
      /\ graph.revision \in Nat
  BY DEF GraphFits, RowsFit
<1>2. /\ after.nodes = graph.nodes /\ after.edges = edges
      /\ after.revision = graph.revision /\ DOMAIN after = DOMAIN graph
  BY <1>1
<1> HIDE DEF after
<1>3. RowsFit(after)
  BY <1>2 DEF GraphFits, RowsFit
<1>4. RootsHold(after) /\ StaleMarksHold(after)
  BY <1>2 DEF GraphFits, RootsHold, StaleMarksHold
<1>5. EdgesHold(after)
  BY <1>2 DEF EdgesHold
<1>6. QED  BY <1>2, <1>3, <1>4, <1>5 DEF Handled, GraphFits, after

LEMMA AddEdgeFits ==
  ASSUME NEW graph, GraphFits(graph), NEW q, Admitted(q), q.op = "ADD_EDGE",
         NEW id, NEW after \in AddEdge(graph, q, id)
  PROVE  Handled(graph, q, after)
<1> DEFINE row == [source |-> q.source, target |-> q.target, kind |-> q.kind,
                   version |-> 1]
           edges == Inserted(graph.edges, id, row)
<1>1. /\ {q.source, q.target} \subseteq DOMAIN graph.nodes
      /\ after = [graph EXCEPT !.edges = edges]
  BY DEF AddEdge, Refused
<1>2. q.kind \in EdgeKinds
  BY DEF Admitted
<1>3. EdgeFits(row) /\ row.source = q.source /\ row.target = q.target
  BY <1>2 DEF EdgeFits, EdgeRows
<1> HIDE DEF row
<1>4. /\ DOMAIN edges = DOMAIN graph.edges \cup {id}
      /\ \A e \in DOMAIN graph.edges : edges[e] = graph.edges[e]
      /\ id \notin DOMAIN graph.edges => edges[id] = row
  BY InsertedIs
<1> HIDE DEF edges
<1>5. IsFiniteSet(DOMAIN edges)
  BY <1>4, FS_AddElement DEF GraphFits, RowsFit
<1>6. \A e \in DOMAIN edges :
        /\ EdgeFits(edges[e])
        /\ {edges[e].source, edges[e].target} \subseteq DOMAIN graph.nodes
  BY <1>1, <1>3, <1>4 DEF GraphFits, RowsFit, EdgesHold
<1>7. QED  BY <1>1, <1>5, <1>6, EdgesChange

LEMMA ChangeEdgeFits ==
  ASSUME NEW graph, GraphFits(graph), NEW q, Admitted(q), q.op = "UPDATE_EDGE",
         NEW after \in ChangeEdge(graph, q)
  PROVE  Handled(graph, q, after)
<1> DEFINE was == graph.edges[q.edge]
           mid == Joined(q.changes, was)
           row == [mid EXCEPT !.version = @ + 1]
           edges == [graph.edges EXCEPT ![q.edge] = row]
<1>1. /\ q.edge \in DOMAIN graph.edges
      /\ {mid.source, mid.target} \subseteq DOMAIN graph.nodes
      /\ after = [graph EXCEPT !.edges = edges]
  BY DEF ChangeEdge, Refused, Matches
<1>2. EdgeFits(was)
  BY <1>1 DEF GraphFits, RowsFit
<1>3. /\ DOMAIN q.changes \subseteq {"source", "target", "kind"}
      /\ "kind" \in DOMAIN q.changes => q.changes.kind \in EdgeKinds
  BY DEF Admitted
<1>4. PICK ids : was \in EdgeRows(ids)
  BY <1>2 DEF EdgeFits
<1>5. /\ DOMAIN was = {"source", "target", "kind", "version"}
      /\ was.kind \in EdgeKinds /\ was.version \in Nat \ {0}
  BY <1>4 DEF EdgeRows
<1>6. /\ DOMAIN mid = DOMAIN was
      /\ mid = [f \in DOMAIN was |-> mid[f]]
      /\ mid.kind \in EdgeKinds
      /\ mid.version = was.version
  <2> HIDE DEF was
  <2>1. /\ DOMAIN mid = DOMAIN was
        /\ mid = [f \in DOMAIN was |-> mid[f]]
        /\ \A f \in DOMAIN q.changes : mid[f] = q.changes[f]
        /\ \A f \in DOMAIN was \ DOMAIN q.changes : mid[f] = was[f]
    BY <1>3, <1>5 DEF Joined
  <2> HIDE DEF mid
  <2>2. QED  BY <1>3, <1>5, <2>1
<1> HIDE DEF mid, was
<1>7. /\ row.source = mid.source /\ row.target = mid.target
      /\ EdgeFits(row)
  <2>1. row = [source |-> mid.source, target |-> mid.target, kind |-> mid.kind,
               version |-> mid.version + 1]
    BY <1>5, <1>6
  <2>2. mid.version + 1 \in Nat \ {0}
    BY <1>5, <1>6
  <2> HIDE DEF row
  <2>3. row.source = mid.source /\ row.target = mid.target
    BY <2>1
  <2>4. QED  BY <1>6, <2>1, <2>2, <2>3 DEF EdgeFits, EdgeRows
<1> HIDE DEF row
<1>8. DOMAIN edges = DOMAIN graph.edges
  OBVIOUS
<1>9. IsFiniteSet(DOMAIN edges)
  BY <1>8 DEF GraphFits, RowsFit
<1>10. \A e \in DOMAIN edges :
         /\ EdgeFits(edges[e])
         /\ {edges[e].source, edges[e].target} \subseteq DOMAIN graph.nodes
  <2>1. edges[q.edge] = row
    BY <1>1
  <2>2. \A e \in DOMAIN graph.edges \ {q.edge} : edges[e] = graph.edges[e]
    OBVIOUS
  <2> HIDE DEF edges
  <2>3. QED  BY <1>1, <1>7, <1>8, <2>1, <2>2 DEF GraphFits, RowsFit, EdgesHold
<1> HIDE DEF edges
<1>11. QED  BY <1>1, <1>9, <1>10, EdgesChange

LEMMA DeleteEdgeFits ==
  ASSUME NEW graph, GraphFits(graph), NEW q, NEW after \in DeleteEdge(graph, q)
  PROVE  Handled(graph, q, after)
<1> DEFINE edges == Restrict(graph.edges, DOMAIN graph.edges \ {q.edge})
<1>1. after = [graph EXCEPT !.edges = edges]
  BY DEF DeleteEdge, Refused
<1>2. /\ DOMAIN edges = DOMAIN graph.edges \ {q.edge}
      /\ \A e \in DOMAIN edges : edges[e] = graph.edges[e]
  BY DEF Restrict
<1> HIDE DEF edges
<1>3. IsFiniteSet(DOMAIN edges)
  BY <1>2, FS_RemoveElement DEF GraphFits, RowsFit
<1>4. \A e \in DOMAIN edges :
        /\ EdgeFits(edges[e])
        /\ {edges[e].source, edges[e].target} \subseteq DOMAIN graph.nodes
  BY <1>2 DEF GraphFits, RowsFit, EdgesHold
<1>5. QED  BY <1>1, <1>3, <1>4, EdgesChange

\* Whatever is asked for, a handler leaves a graph that fits, or none.
LEMMA HandleFits ==
  ASSUME NEW graph, GraphFits(graph), NEW q, Admitted(q), NEW id,
         NEW after \in Handle(graph, q, id)
  PROVE  Handled(graph, q, after)
<1>1. CASE q.op = "ADD_NODE"
  BY <1>1, AddNodeFits DEF Handle
<1>2. CASE q.op \in {"UPDATE_NODE", "PATCH_NODE_METADATA"}
  BY <1>2, ChangeFits DEF Handle
<1>3. CASE q.op = "MOVE_NODE"
  BY <1>3, MoveFits DEF Handle
<1>4. CASE q.op = "DELETE_NODE"
  BY <1>4, DeleteNodeFits DEF Handle
<1>5. CASE q.op = "ADD_EDGE"
  BY <1>5, AddEdgeFits DEF Handle
<1>6. CASE q.op = "UPDATE_EDGE"
  BY <1>6, ChangeEdgeFits DEF Handle
<1>7. CASE q.op = "DELETE_EDGE"
  BY <1>7, DeleteEdgeFits DEF Handle
<1>8. CASE q.op = "REPLACE_ASSUMPTION"
  BY <1>8, ReplaceFits DEF Handle
<1>9. CASE q.op = "REJECT_EVIDENCE"
  BY <1>9, RejectFits DEF Handle
<1>10. QED
  BY <1>1, <1>2, <1>3, <1>4, <1>5, <1>6, <1>7, <1>8, <1>9 DEF Admitted

------------------------------------------------------------------------------
(* What staleness does to a graph.                                          *)

\* Between two graphs a row keeps what it says, save for one more cause; or
\* it takes one version and the time of the revision; or it is moved.
RowSteps(was, is, revision) ==
  \/ \A f \in DOMAIN was \ {"causes"} : is[f] = was[f]
  \/ /\ is.version = was.version + 1 /\ is.touched = revision
     /\ is.place = was.place
  \/ Moved(was, is)

\* The row that MarkStale leaves for an affected node.
Marked(node, revision) ==
  [(IF Stale(node) THEN node
    ELSE Touch([node EXCEPT !.since = revision], revision))
   EXCEPT !.causes = @ \cup {revision}]

LEMMA MarkedFits ==
  ASSUME NEW node, NodeFits(node), NEW revision \in Nat \ {0},
         Stale(node) <=> node.causes # {},
         node.causes \subseteq 1..(revision - 1),
         Stale(node) => node.since = Min(node.causes)
  PROVE  LET is == Marked(node, revision) IN
         /\ NodeFits(is)
         /\ is.kind = node.kind /\ is.root = node.root /\ is.from = node.from
         /\ is.place = node.place /\ is.review = node.review
         /\ is.causes = node.causes \cup {revision}
         /\ Stale(is) /\ is.since = Min(is.causes)
         /\ IF Stale(node) THEN \A f \in DOMAIN node \ {"causes"} : is[f] = node[f]
            ELSE is.version = node.version + 1 /\ is.touched = revision
<1> DEFINE now == [node EXCEPT !.since = revision]
           touched == Touch(now, revision)
           mid == IF Stale(node) THEN node ELSE touched
           is == [mid EXCEPT !.causes = @ \cup {revision}]
<1>1. PICK ids : node \in NodeRows(ids)
  BY DEF NodeFits
<1>2. Marked(node, revision) = is
  BY DEF Marked
<1>3. now \in NodeRows(ids) /\ now.since = revision
      /\ \A f \in DOMAIN node \ {"since"} : now[f] = node[f]
  <2>1. /\ now = [f \in DOMAIN node |-> now[f]] /\ now.since = revision
        /\ \A f \in DOMAIN node \ {"since"} : now[f] = node[f]
    BY <1>1, RowIsWhole
  <2>2. now \in NodeRows(ids)
    BY <1>1 DEF NodeRows
  <2>3. QED  BY <2>1, <2>2
<1> HIDE DEF now
<1>4. /\ touched.version = node.version + 1 /\ touched.touched = revision
      /\ touched.since = revision
      /\ touched = [f \in DOMAIN node |-> touched[f]]
      /\ \A f \in DOMAIN node \ {"since", "version", "touched"} : touched[f] = node[f]
  <2>1. DOMAIN now = DOMAIN node /\ now.version = node.version
    BY <1>1, <1>3, RowIsWhole
  <2>2. /\ touched.version = now.version + 1 /\ touched.touched = revision
        /\ touched = [f \in DOMAIN now |-> touched[f]]
        /\ \A f \in DOMAIN now \ {"version", "touched"} : touched[f] = now[f]
    BY <1>3, TouchIs
  <2> HIDE DEF touched
  <2>3. "since" \in DOMAIN now \ {"version", "touched"}
    BY <1>1, <2>1, RowIsWhole
  <2>4. QED  BY <1>3, <2>1, <2>2, <2>3
<1> HIDE DEF touched
<1>5. /\ mid = [f \in DOMAIN node |-> mid[f]]
      /\ \A f \in DOMAIN node \ {"since", "version", "touched"} : mid[f] = node[f]
      /\ IF Stale(node) THEN \A f \in DOMAIN node : mid[f] = node[f]
         ELSE /\ mid.version = node.version + 1 /\ mid.touched = revision
              /\ mid.since = revision
  <2>1. node = [f \in DOMAIN node |-> node[f]]
    BY <1>1 DEF NodeRows
  <2>2. QED  BY <1>4, <2>1
<1> HIDE DEF mid
<1>6. /\ is = [f \in DOMAIN node |-> is[f]]
      /\ is.causes = mid.causes \cup {revision}
      /\ \A f \in DOMAIN node \ {"causes"} : is[f] = mid[f]
  BY <1>1, <1>5, RowIsWhole
<1> HIDE DEF is
<1>7. /\ is.kind = node.kind /\ is.review = node.review /\ is.made = node.made
      /\ is.root = node.root /\ is.pinned = node.pinned /\ is.text = node.text
      /\ is.against = node.against /\ is.place = node.place
      /\ is.from = node.from /\ is.causes = node.causes \cup {revision}
  BY <1>1, <1>5, <1>6, RowIsWhole
<1>8. IF Stale(node)
      THEN /\ \A f \in DOMAIN node \ {"causes"} : is[f] = node[f]
           /\ is.version = node.version /\ is.touched = node.touched
           /\ is.since = node.since
      ELSE /\ is.version = node.version + 1 /\ is.touched = revision
           /\ is.since = revision
  BY <1>1, <1>5, <1>6, RowIsWhole
<1>9. /\ is.version \in Nat \ {0} /\ is.touched \in Nat /\ is.since \in Nat
      /\ is.causes \in SUBSET Nat
  BY <1>1, <1>7, <1>8, RowIsWhole
<1>10. NodeFits(is)
  <2>1. is \in NodeRows({is.root, is.from})
    BY <1>1, <1>6, <1>7, <1>9, RowIsWhole, RowChanges
  <2>2. QED  BY <1>7, <2>1 DEF NodeFits
<1>11. Stale(is) /\ is.since = Min(is.causes)
  <2>1. CASE Stale(node)
    <3>1. node.causes # {} /\ node.causes \in SUBSET Nat
      BY <1>1, <2>1, RowIsWhole
    <3>2. \A c \in node.causes : c <= revision
      OBVIOUS
    <3>3. Min(node.causes \cup {revision}) = Min(node.causes)
      BY <3>1, <3>2, MinGrows
    <3>4. QED  BY <1>7, <1>8, <2>1, <3>3 DEF Stale
  <2>2. CASE ~Stale(node)
    <3>1. is.causes = {revision} /\ is.since = revision
      BY <1>7, <1>8, <2>2
    <3>2. QED  BY <3>1, MinOfOne DEF Stale, Fresh
  <2>3. QED  BY <2>1, <2>2
<1>12. QED  BY <1>2, <1>7, <1>8, <1>10, <1>11

LEMMA ArrowsAreFinite ==
  ASSUME NEW graph, IsFiniteSet(DOMAIN graph.edges)
  PROVE  IsFiniteSet(Arrows(graph))
<1> DEFINE f == [e \in DOMAIN graph.edges |-> Dependency(graph.edges[e])]
<1>1. f \in Surjection(DOMAIN graph.edges, Arrows(graph))
  BY DEF Surjection, Arrows
<1>2. QED  BY <1>1, FS_Surjection

\* A move makes nothing stale.
LEMMA MoveAffectsNothing ==
  ASSUME NEW after, IsFiniteSet(DOMAIN after.edges), NEW graph, NEW q,
         q.op = "MOVE_NODE"
  PROVE  Invalidated(after, q, Capture(graph, q)) = {}
<1>1. Capture(graph, q) = NoCapture
  BY DEF Capture
<1>2. Reachable(Arrows(after), {}) = {}
  BY ArrowsAreFinite, NothingReached
<1>3. QED  BY <1>1, <1>2 DEF Invalidated, NoCapture, Dependents

\* The transaction of a direct operation leaves a graph that fits, and rows
\* that took one step each.
LEMMA CommittedFits ==
  ASSUME NEW graph, GraphFits(graph), NEW q, NEW after, Handled(graph, q, after)
  PROVE  LET next == Committed(graph, q, after) IN
         /\ GraphFits(next)
         /\ next.revision = graph.revision + 1
         /\ \A n \in DOMAIN next.nodes :
              IF n \notin DOMAIN graph.nodes
              THEN next.nodes[n].from = NoNode
              ELSE /\ RowSteps(graph.nodes[n], next.nodes[n], graph.revision + 1)
                   /\ next.nodes[n].from = graph.nodes[n].from
<1> DEFINE revision == graph.revision + 1
           affected == Invalidated(after, q, Capture(graph, q))
           nodes == MarkStale(after.nodes, affected, revision)
           next == Committed(graph, q, after)
           Hit(n) == n \in affected /\ Eligible(after.nodes[n])
<1>1. next = [after EXCEPT !.nodes = nodes, !.revision = revision]
  BY DEF Committed
<1>2. /\ GraphFits(after) /\ after.revision = graph.revision
      /\ DOMAIN after = {"nodes", "edges", "revision"}
      /\ after.revision \in Nat /\ revision \in Nat \ {0}
  BY DEF Handled, GraphFits, RowsFit
<1>3. /\ DOMAIN nodes = DOMAIN after.nodes
      /\ \A n \in DOMAIN after.nodes :
           nodes[n] = IF Hit(n) THEN Marked(after.nodes[n], revision)
                      ELSE after.nodes[n]
  BY DEF MarkStale, Marked
<1>4. /\ \A n \in DOMAIN after.nodes : NodeFits(after.nodes[n])
      /\ IsFiniteSet(DOMAIN after.edges)
  BY <1>2 DEF GraphFits, RowsFit
<1>5. ASSUME NEW n \in DOMAIN after.nodes
      PROVE  LET was == after.nodes[n]
                 is == Marked(was, revision)
             IN  /\ NodeFits(is)
                 /\ is.kind = was.kind /\ is.root = was.root /\ is.from = was.from
                 /\ is.place = was.place
                 /\ is.causes = was.causes \cup {revision}
                 /\ Stale(is) /\ is.since = Min(is.causes)
                 /\ IF Stale(was) THEN \A f \in DOMAIN was \ {"causes"} : is[f] = was[f]
                    ELSE is.version = was.version + 1 /\ is.touched = revision
  <2> DEFINE was == after.nodes[n]
  <2>1. /\ NodeFits(was)
        /\ Stale(was) <=> was.causes # {}
        /\ was.causes \subseteq 1..(revision - 1)
        /\ Stale(was) => was.since = Min(was.causes)
    BY <1>2 DEF GraphFits, RowsFit, StaleMarksHold
  <2> HIDE DEF was, revision
  <2>2. QED  BY <1>2, <2>1, MarkedFits DEF was
<1> HIDE DEF nodes, next
<1>6. /\ next.nodes = nodes /\ next.edges = after.edges
      /\ next.revision = revision /\ DOMAIN next = DOMAIN after
  BY <1>1, <1>2
<1>7. RowsFit(next)
  BY <1>2, <1>3, <1>4, <1>5, <1>6 DEF GraphFits, RowsFit
<1>8. RootsHold(next)
  <2>1. \A n \in DOMAIN after.nodes : /\ nodes[n].kind = after.nodes[n].kind
                                      /\ nodes[n].root = after.nodes[n].root
    BY <1>3, <1>5
  <2>2. QED  BY <1>2, <1>3, <1>6, <2>1 DEF GraphFits, RootsHold
<1>9. EdgesHold(next)
  BY <1>2, <1>3, <1>6 DEF GraphFits, EdgesHold
<1>10. StaleMarksHold(next)
  <2> SUFFICES ASSUME NEW n \in DOMAIN after.nodes
               PROVE  /\ Stale(nodes[n]) <=> nodes[n].causes # {}
                      /\ nodes[n].causes \subseteq 1..revision
                      /\ Stale(nodes[n]) => nodes[n].since = Min(nodes[n].causes)
    BY <1>3, <1>6 DEF StaleMarksHold
  <2>1. /\ Stale(after.nodes[n]) <=> after.nodes[n].causes # {}
        /\ after.nodes[n].causes \subseteq 1..graph.revision
        /\ Stale(after.nodes[n]) => after.nodes[n].since = Min(after.nodes[n].causes)
        /\ graph.revision \in Nat
    BY <1>2 DEF GraphFits, StaleMarksHold
  <2>2. after.nodes[n].causes \cup {revision} \subseteq 1..revision
    BY <2>1
  <2> HIDE DEF revision
  <2>3. CASE Hit(n)
    BY <1>3, <1>5, <2>2, <2>3
  <2>4. CASE ~Hit(n)
    BY <1>3, <2>1, <2>2, <2>4
  <2>5. QED  BY <2>3, <2>4
<1>11. GraphFits(next)
  BY <1>7, <1>8, <1>9, <1>10 DEF GraphFits
<1>12. ASSUME NEW n \in DOMAIN after.nodes
       PROVE  IF n \notin DOMAIN graph.nodes
              THEN nodes[n].from = NoNode
              ELSE /\ RowSteps(graph.nodes[n], nodes[n], revision)
                   /\ nodes[n].from = graph.nodes[n].from
  <2> DEFINE was == graph.nodes[n]
             mid == after.nodes[n]
             is == nodes[n]
  <2>1. is.from = mid.from
    BY <1>3, <1>5
  <2>2. CASE n \notin DOMAIN graph.nodes
    BY <2>1, <2>2 DEF Handled
  <2>3. CASE n \in DOMAIN graph.nodes
    <3>1. NodeFits(was)
      BY <2>3 DEF GraphFits, RowsFit
    <3>2. CASE mid = was
      <4>1. CASE ~Hit(n)
        BY <1>3, <2>3, <3>2, <4>1 DEF RowSteps
      <4>2. CASE Hit(n)
        <5>1. /\ is = Marked(was, revision)
              /\ is.place = was.place
              /\ IF Stale(was) THEN \A f \in DOMAIN was \ {"causes"} : is[f] = was[f]
                 ELSE is.version = was.version + 1 /\ is.touched = revision
          BY <1>3, <1>5, <3>2, <4>2
        <5> HIDE DEF is, was
        <5>2. RowSteps(was, is, revision)
          BY <5>1 DEF RowSteps
        <5>3. QED  BY <2>1, <2>3, <3>2, <5>2 DEF is, was
      <4>3. QED  BY <4>1, <4>2
    <3>3. CASE Edited(was, mid, revision) /\ n \notin affected
      <4>1. is = mid
        BY <1>3, <3>3
      <4> HIDE DEF is, mid, was
      <4>2. QED  BY <2>3, <3>3, <4>1 DEF RowSteps, Edited, is, was
    <3>4. CASE q.op = "MOVE_NODE" /\ Moved(was, mid)
      <4>1. affected = {}
        BY <1>4, <3>4, MoveAffectsNothing
      <4>2. is = mid
        BY <1>3, <4>1
      <4>3. mid.from = was.from
        <5>1. "from" \in DOMAIN was
          BY <3>1, RowIsWhole DEF NodeFits
        <5> HIDE DEF mid, was
        <5>2. QED  BY <3>4, <5>1 DEF Moved
      <4> HIDE DEF is, mid, was
      <4>4. QED  BY <2>3, <3>4, <4>2, <4>3 DEF RowSteps, is, was
    <3>5. QED  BY <2>3, <3>2, <3>3, <3>4 DEF Handled
  <2>4. QED  BY <2>2, <2>3
<1>13. QED  BY <1>3, <1>6, <1>11, <1>12 DEF next
=============================================================================
